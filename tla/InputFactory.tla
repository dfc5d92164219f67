---------------------------- MODULE InputFactory ----------------------------
(***************************************************************************)
(* One input factory (pkg/ffstream/input_factory.go): NewInput opens every *)
(* resource of its priority as one Tee of sources, and StreamIndexAssign   *)
(* maps the streams of those sources into one index space, called from     *)
(* several goroutines while the factory may already be building the next   *)
(* input.                                                                  *)
(*                                                                         *)
(* External: the fallback chain that calls NewInput again after it closed  *)
(* the previous input, and the goroutines that push packets. A packet of a *)
(* closed input may still be on its way to StreamIndexAssign.              *)
(***************************************************************************)
EXTENDS Integers, Sequences

CONSTANTS
    Workers,      \* goroutines that push packets through MapStreamIndices
    NumResources, \* resources of this priority
    MaxStreams,   \* bound: streams per source
    MaxOpens,     \* bound: sources ever opened
    NoSource,     \* a packet whose GetSource() is nil
    NoCall        \* the worker is not in StreamIndexAssign

ASSUME ConstantsAssumption ==
    /\ NumResources \in Nat
    /\ MaxStreams \in Nat
    /\ MaxOpens \in Nat
    /\ NoSource \notin Nat
    /\ NoCall \notin [src : Nat \cup {NoSource}, idx : Nat]

Sources == 1..MaxOpens           \* identities of opened *kernel.Input
StreamIdx == 0..(MaxStreams - 1)
Keys == Sources \X StreamIdx     \* streamIndexKey
Elems(s) == {s[i] : i \in 1..Len(s)}

VARIABLES
    optsOK,          \* per resource: do its force_start_* options parse
    pc,              \* the chain: "idle", in NewInput, or running an input
    inputs,          \* NewInput's local Tee
    tee,             \* sources of the input the chain runs
    opens,           \* sources opened so far
    open,            \* sources not closed
    ready,           \* streamIndexMap is not nil
    streamIndexNext,
    streamIndexMap,  \* key -> index, a partial function
    sourceIndex,     \* source -> position in the Tee, a partial function
    call,            \* what each worker asks StreamIndexAssign
    log              \* history: indices given out since the last reset

factoryVars == <<ready, streamIndexNext, streamIndexMap, sourceIndex>>
chainVars == <<pc, inputs, tee, opens, open>>
vars == <<optsOK, pc, inputs, tee, opens, open, ready, streamIndexNext,
          streamIndexMap, sourceIndex, call, log>>

Empty == [x \in {} |-> 0]

Init ==
    /\ optsOK \in [1..NumResources -> BOOLEAN]
    /\ pc = "idle" /\ inputs = <<>> /\ tee = <<>> /\ opens = 0 /\ open = {}
    /\ ready = FALSE /\ streamIndexNext = 0
    /\ streamIndexMap = Empty /\ sourceIndex = Empty
    /\ call = [w \in Workers |-> NoCall]
    /\ log = {}

-----------------------------------------------------------------------------
\* NewInput

\* GetResources, then the loop over the resources.
NewInput ==
    /\ pc = "idle"
    /\ pc' = "opening"
    /\ inputs' = <<>>
    /\ UNCHANGED <<optsOK, tee, opens, open, factoryVars, call, log>>

\* The loop's next resource.
Current == Len(inputs) + 1

\* One resource whose options parse and whose URL opens.
OpenResource ==
    /\ pc = "opening" /\ Current <= NumResources
    /\ optsOK[Current]
    /\ opens < MaxOpens
    /\ opens' = opens + 1
    /\ open' = open \cup {opens'}
    /\ inputs' = Append(inputs, opens')
    /\ UNCHANGED <<optsOK, pc, tee, factoryVars, call, log>>

\* Mutant: the sources opened so far are dropped without a Close.
FailResourceLeaks ==
    /\ pc = "opening" /\ Current <= NumResources
    /\ pc' = "idle"
    /\ inputs' = <<>>
    /\ UNCHANGED <<optsOK, tee, opens, open, factoryVars, call, log>>

\* Its options do not parse, or its URL does not open: the deferred function
\* closes the sources opened so far and NewInput returns the error.
FailResource ==
    /\ pc = "opening" /\ Current <= NumResources
    /\ open' = open \ Elems(inputs)
    /\ pc' = "idle"
    /\ inputs' = <<>>
    /\ UNCHANGED <<optsOK, tee, opens, factoryVars, call, log>>

\* Mutants: the map is never made; numbering starts at 0.
ReturnInputNilMap ==
    /\ pc = "opening" /\ Current > NumResources
    /\ UNCHANGED factoryVars
    /\ log' = {}
    /\ tee' = inputs
    /\ inputs' = <<>>
    /\ pc' = "running"
    /\ UNCHANGED <<optsOK, opens, open, call>>

ReturnInputFromZero ==
    /\ pc = "opening" /\ Current > NumResources
    /\ ready' = TRUE
    /\ streamIndexNext' = 0
    /\ streamIndexMap' = Empty
    /\ sourceIndex' = [s \in Elems(inputs) |->
                         (CHOOSE i \in 1..Len(inputs) : inputs[i] = s) - 1]
    /\ log' = {}
    /\ tee' = inputs
    /\ inputs' = <<>>
    /\ pc' = "running"
    /\ UNCHANGED <<optsOK, opens, open, call>>

\* All are open: under f.Locker the index space is reset and the sources are
\* numbered; the input is returned and the chain runs it.
ReturnInput ==
    /\ pc = "opening" /\ Current > NumResources
    /\ ready' = TRUE
    /\ streamIndexNext' = 1
    /\ streamIndexMap' = Empty
    /\ sourceIndex' = [s \in Elems(inputs) |->
                         (CHOOSE i \in 1..Len(inputs) : inputs[i] = s) - 1]
    /\ log' = {}
    /\ tee' = inputs
    /\ inputs' = <<>>
    /\ pc' = "running"
    /\ UNCHANGED <<optsOK, opens, open, call>>

\* External: the chain closes its input, after an error or to replace it.
CloseInput ==
    /\ pc = "running"
    /\ open' = open \ Elems(tee)
    /\ tee' = <<>>
    /\ pc' = "idle"
    /\ UNCHANGED <<optsOK, inputs, opens, factoryVars, call, log>>

\* SetInputCustomOption changes the options the next NewInput will parse.
SetInputCustomOption(r) ==
    /\ optsOK' = [optsOK EXCEPT ![r] = ~@]
    /\ UNCHANGED <<chainVars, factoryVars, call, log>>

-----------------------------------------------------------------------------
\* StreamIndexAssign

\* A worker has a packet of the running input, or one without a source.
Push(w) ==
    /\ pc = "running" /\ call[w] = NoCall
    /\ \E s \in Elems(tee) \cup {NoSource}, n \in StreamIdx :
         call' = [call EXCEPT ![w] = [src |-> s, idx |-> n]]
    /\ UNCHANGED <<optsOK, chainVars, factoryVars, log>>

\* Position of a source; Go's map yields 0 for a source it does not hold.
SourceIndex(s) == IF s \in DOMAIN sourceIndex THEN sourceIndex[s] ELSE 0

\* Mutant: the 0th stream of every source does.
KeepsZeroOfAnySource(k) == k.idx = 0

\* The 0th stream of the first source keeps index 0.
KeepsZero(k) == SourceIndex(k.src) = 0 /\ k.idx = 0

Return(w, out) ==
    /\ log' = log \cup {[stream |-> <<call[w].src, call[w].idx>>, out |-> out]}
    /\ call' = [call EXCEPT ![w] = NoCall]
    /\ UNCHANGED <<optsOK, chainVars, ready, sourceIndex>>

\* streamIndexAssignLocked, under f.Locker.
AssignNoSource(w) ==
    /\ call[w] # NoCall /\ call[w].src = NoSource
    /\ call' = [call EXCEPT ![w] = NoCall]
    /\ UNCHANGED <<optsOK, chainVars, factoryVars, log>>

AssignZero(w) ==
    /\ call[w] # NoCall /\ call[w].src # NoSource
    /\ KeepsZero(call[w])
    /\ Return(w, 0)
    /\ UNCHANGED <<streamIndexNext, streamIndexMap>>

\* Mutant: a packet without a source gets a key of its own.
AssignMappedAnySource(w) ==
    /\ call[w] # NoCall /\ ~KeepsZero(call[w])
    /\ Return(w, streamIndexNext)
    /\ streamIndexNext' = streamIndexNext + 1
    /\ streamIndexMap' = [x \in DOMAIN streamIndexMap \cup {<<call[w].src, call[w].idx>>}
                            |-> streamIndexNext]

\* An index given before, or the next one.
AssignMapped(w) ==
    LET k == <<call[w].src, call[w].idx>> IN
    /\ call[w] # NoCall /\ call[w].src # NoSource
    /\ ~KeepsZero(call[w])
    /\ IF k \in DOMAIN streamIndexMap
       THEN /\ Return(w, streamIndexMap[k])
            /\ UNCHANGED <<streamIndexNext, streamIndexMap>>
       ELSE /\ Return(w, streamIndexNext)
            /\ streamIndexNext' = streamIndexNext + 1
            /\ streamIndexMap' =
                 [x \in DOMAIN streamIndexMap \cup {k} |->
                    IF x = k THEN streamIndexNext ELSE streamIndexMap[x]]

StreamIndexAssign(w) == AssignNoSource(w) \/ AssignZero(w) \/ AssignMapped(w)

-----------------------------------------------------------------------------
Next ==
    \/ NewInput \/ OpenResource \/ FailResource \/ ReturnInput \/ CloseInput
    \/ \E r \in 1..NumResources : SetInputCustomOption(r)
    \/ \E w \in Workers : Push(w) \/ StreamIndexAssign(w)

Spec == Init /\ [][Next]_vars

-----------------------------------------------------------------------------
\* Properties

\* Every variable has its type.
TypeOK ==
    /\ optsOK \in [1..NumResources -> BOOLEAN]
    /\ pc \in {"idle", "opening", "running"}
    /\ inputs \in Seq(Sources) /\ tee \in Seq(Sources)
    /\ opens \in 0..MaxOpens
    /\ open \subseteq Sources
    /\ ready \in BOOLEAN
    /\ streamIndexNext \in Nat
    /\ DOMAIN streamIndexMap \subseteq Keys
    /\ \A k \in DOMAIN streamIndexMap : streamIndexMap[k] \in Nat
    /\ DOMAIN sourceIndex \subseteq Sources
    /\ \A s \in DOMAIN sourceIndex : sourceIndex[s] \in Nat
    /\ call \in [Workers ->
                   [src : Sources \cup {NoSource}, idx : StreamIdx] \cup {NoCall}]
    /\ log \subseteq [stream : Keys, out : Nat]

\* Only the sources of the running input, or of the one being built, are open:
\* a NewInput that fails half-way closes what it opened, and no reopening
\* leaks a source.
NoLeakedSource == open = Elems(inputs) \cup Elems(tee)

\* StreamIndexAssign never writes to a nil streamIndexMap: whoever calls it
\* was started by an input that NewInput returned after the reset.
MapReady == \A w \in Workers : call[w] # NoCall => ready

\* The sources the factory knows: those of the last input it returned.
Known(e) == e.stream[1] \in DOMAIN sourceIndex

\* "preventing collisions across sources": within one input, two answers are
\* equal exactly if they are about the same stream, in whatever order the
\* workers call and however many late packets of an earlier input come
\* between.
NoCollision ==
    \A d, e \in log :
        Known(d) /\ Known(e) => (d.out = e.out <=> d.stream = e.stream)

\* Index 0 belongs to the 0th stream of the first source, always and alone.
ZeroIsFirstStream ==
    \A e \in log : Known(e) =>
        (e.out = 0 <=> SourceIndex(e.stream[1]) = 0 /\ e.stream[2] = 0)

\* The factory implements one collision-free index space per input; late
\* packets of an earlier input are not part of it.
IndexSpace == INSTANCE StreamIndexSpace
    WITH Streams <- Keys, assigned <- {e \in log : Known(e)}

IndexSpaceSpec == IndexSpace!Spec
=============================================================================
