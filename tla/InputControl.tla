---------------------------- MODULE InputControl ----------------------------
(***************************************************************************)
(* The inputs of an ffstream: main registers the command line's resources  *)
(* (FFStream.AddInput) while the control socket is already served, so that *)
(* GetInputsInfo, SetInputCustomOption and SetStopInput run between any    *)
(* two of its steps. AddInput holds s.locker, the handlers hold            *)
(* InputChainsLocker: the two do not exclude each other.                   *)
(*                                                                         *)
(* InputsInfo is a slice of slices. A slice is [arr, len], an array lives  *)
(* on the heap as [cap, items]; append writes in place while there is room *)
(* and moves to a bigger array otherwise.                                  *)
(***************************************************************************)
EXTENDS Integers, Sequences, FiniteSets, SequencesExt

CONSTANTS
    FlagInputs,   \* command line: per input, its fallback_priority options
    BadNumber,    \* an option value that does not parse
    Clients,      \* clients of the control socket
    Lister,       \* the client that lists the inputs, among those that set
    Options,      \* option values clients set
    NoOption,     \* the option is not set
    MaxInt,       \* the largest int; a uint is twice as large
    MaxRoom,      \* bound: spare capacity append may reserve
    Prios,        \* bound: priorities clients ask for
    Nums          \* bound: input numbers clients ask for

ASSUME ConstantsAssumption ==
    /\ FlagInputs \in Seq(Seq(0..(2 * MaxInt + 1) \cup {BadNumber}))
    /\ BadNumber \notin Nat
    /\ NoOption \notin Options
    /\ Lister \in Clients
    /\ {MaxInt, MaxRoom} \subseteq Nat
    /\ Prios \cup Nums \subseteq 0..(2 * MaxInt + 1)

\* The first fallback_priority that parses, or 0.
GetFallbackPriority(r) ==
    LET first == {n \in DOMAIN r : r[n] # BadNumber /\ \A m \in 1..(n - 1) : r[m] = BadNumber}
    IN  IF first = {} THEN 0 ELSE r[CHOOSE n \in first : TRUE]

Inputs == 1..Len(FlagInputs)
Priority(i) == GetFallbackPriority(FlagInputs[i])

\* int(priority): the upper half of the unsigned numbers becomes negative.
ToInt(p) == IF p <= MaxInt THEN p ELSE p - 2 * (MaxInt + 1)

VARIABLES
    main,     \* main: "next", or a step of AddInput, or how it failed
    added,    \* inputs registered; the one in progress is the next
    chains,   \* len(Inputs.InputChains)
    infos,    \* s.InputsInfo, slices of resources, by priority from 0
    heap,     \* arrays of resources
    paused,   \* chains paused by a client
    at,       \* where each client's handler is
    req,      \* its request
    slice,    \* the slice its handler got from GetResources
    listing,  \* what its GetInputsInfo has collected: <<priority, num, id>>
    seen,     \* history: resources registered when it was called
    reply,    \* its answer
    last,     \* history: per input, the option value last acknowledged
    lost      \* history: inputs whose last one went to an abandoned array

mainVars == <<main, added, chains, infos>>
clientVars == <<at, req, slice, listing, seen, reply>>
vars == <<main, added, chains, infos, heap, paused, at, req, slice, listing,
          seen, reply, last, lost>>

Nil == [arr |-> 0, len |-> 0]
NoReq == [op |-> "none", prio |-> 0]

\* The resources a slice shows.
Items(s) == IF s.arr = 0 THEN <<>> ELSE SubSeq(heap[s.arr].items, 1, s.len)

\* s.InputsInfo[p]; Go counts from 0.
Info(p) == infos[p + 1]

Requests(c) ==
    IF c = Lister THEN [op : {"GetInputsInfo"}, prio : {0}]
    ELSE [op : {"SetStopInput"}, prio : Prios, stop : BOOLEAN]
         \cup [op : {"SetInputCustomOption"}, prio : Prios, num : Nums,
                value : Options]

Init ==
    /\ main = "next" /\ added = 0 /\ chains = 0 /\ infos = <<>> /\ heap = <<>>
    /\ paused = {}
    /\ at = [c \in Clients |-> "idle"]
    /\ req = [c \in Clients |-> NoReq]
    /\ slice = [c \in Clients |-> Nil]
    /\ listing = [c \in Clients |-> <<>>]
    /\ seen = [c \in Clients |-> 0]
    /\ reply = [c \in Clients |-> "none"]
    /\ last = [i \in Inputs |-> NoOption] /\ lost = {}

-----------------------------------------------------------------------------
\* AddInput

Adding == added + 1
ListingNow == \E c \in Clients : at[c] = "listing"   \* holds InputChainsLocker

\* The next resource; the two lists must agree in length.
AddInput ==
    /\ main = "next" /\ added < Len(FlagInputs)
    /\ main' = IF chains # Len(infos) THEN "error"
               ELSE IF chains <= ToInt(Priority(Adding)) THEN "factory" ELSE "append"
    /\ UNCHANGED <<added, chains, infos, heap, paused, clientVars, last, lost>>

\* Inputs.AddFactory appends a chain, under InputChainsLocker.
AddFactory ==
    /\ main = "factory" /\ ~ListingNow
    /\ chains' = chains + 1
    /\ main' = "info"
    /\ UNCHANGED <<added, infos, heap, paused, clientVars, last, lost>>

\* Mutant: only the resource's own priority gets a group.
AppendNilAtPriority ==
    /\ main = "info"
    /\ infos' = IF chains > Priority(Adding) THEN Append(infos, Nil) ELSE infos
    /\ main' = IF chains <= ToInt(Priority(Adding)) THEN "factory" ELSE "append"
    /\ UNCHANGED <<added, chains, heap, paused, clientVars, last, lost>>

\* Mutant: the loop stops one short of the priority.
AppendNilShort ==
    /\ main = "info"
    /\ infos' = Append(infos, Nil)
    /\ main' = IF chains < ToInt(Priority(Adding)) THEN "factory" ELSE "append"
    /\ UNCHANGED <<added, chains, heap, paused, clientVars, last, lost>>

\* InputsInfo grows by an empty group; the loop goes on up to the priority.
AppendNil ==
    /\ main = "info"
    /\ infos' = Append(infos, Nil)
    /\ main' = IF chains <= ToInt(Priority(Adding)) THEN "factory" ELSE "append"
    /\ UNCHANGED <<added, chains, heap, paused, clientVars, last, lost>>

\* Mutant: append writes one past the capacity.
HasRoomForOneMore(s) == s.arr # 0 /\ s.len <= heap[s.arr].cap

\* append finds room in the slice's array.
HasRoom(s) == s.arr # 0 /\ s.len < heap[s.arr].cap

\* InputsInfo[priority] = append(InputsInfo[priority], resource)
AppendResource ==
    LET p == Priority(Adding)
        s == Info(p)
        r == [id |-> Adding, opt |-> NoOption]
    IN
    /\ main = "append" /\ p < Len(infos)
    /\ \/ \* room in the array
          /\ HasRoom(s)
          /\ heap' = [heap EXCEPT ![s.arr].items = Append(SubSeq(@, 1, s.len), r)]
          /\ infos' = [infos EXCEPT ![p + 1].len = @ + 1]
       \/ \* a new array with the old one's resources
          /\ ~HasRoom(s)
          /\ \E room \in 0..MaxRoom :
               heap' = Append(heap, [cap |-> s.len + 1 + room,
                                     items |-> Append(Items(s), r)])
          /\ infos' = [infos EXCEPT ![p + 1] = [arr |-> Len(heap'), len |-> s.len + 1]]
    /\ added' = added + 1
    /\ main' = "next"
    /\ UNCHANGED <<chains, paused, clientVars, last, lost>>

\* There is no group of that priority: the index expression kills the process.
AppendPanics ==
    /\ main = "append" /\ Priority(Adding) >= Len(infos)
    /\ main' = "crashed"
    /\ UNCHANGED <<added, chains, infos, heap, paused, clientVars, last, lost>>

Main == AddInput \/ AddFactory \/ AppendNil \/ AppendResource \/ AppendPanics

-----------------------------------------------------------------------------
\* The handlers. A panic is answered OK with an empty reply (see FFStream).

Call(c) ==
    /\ at[c] = "idle"
    /\ \E r \in Requests(c) : req' = [req EXCEPT ![c] = r]
    /\ at' = [at EXCEPT ![c] = "called"]
    /\ reply' = [reply EXCEPT ![c] = "none"]
    /\ listing' = [listing EXCEPT ![c] = <<>>]
    /\ seen' = IF c = Lister THEN [seen EXCEPT ![c] = added] ELSE seen
    /\ UNCHANGED <<mainVars, heap, paused, slice, last, lost>>

Answer(c, r) ==
    /\ at' = [at EXCEPT ![c] = "idle"]
    /\ req' = [req EXCEPT ![c] = NoReq]
    /\ reply' = [reply EXCEPT ![c] = r]

Continue(c, next) ==
    at' = [at EXCEPT ![c] = next] /\ UNCHANGED <<req, reply>>

Called(c, op) == at[c] = "called" /\ req[c].op = op

\* GetInputsInfo takes InputChainsLocker and walks the chains ...
ListBegin(c) ==
    /\ Called(c, "GetInputsInfo") /\ ~ListingNow
    /\ at' = [at EXCEPT ![c] = "listing"]
    /\ req' = [req EXCEPT ![c].prio = 0]
    /\ UNCHANGED <<mainVars, heap, paused, slice, listing, seen, reply, last, lost>>

\* Mutant: the first chain without a group ends the walk one chain early.
ListChainSkipsLast(c) ==
    /\ at[c] = "listing"
    /\ LET p == req[c].prio
           group == IF p + 1 >= Len(infos) THEN <<>> ELSE Items(Info(p))
       IN  /\ p < chains
           /\ listing' = [listing EXCEPT ![c] = @ \o
                [n \in 1..Len(group) |-> [prio |-> p, num |-> n - 1, id |-> group[n].id]]]
    /\ req' = [req EXCEPT ![c].prio = @ + 1]
    /\ UNCHANGED <<mainVars, heap, paused, at, slice, seen, reply, last, lost>>

\* ... reading each chain's resources without s.locker: a chain whose group
\* does not exist yet is skipped. (The kernel's id and activity are left out:
\* no kernel is open before main has registered every input.)
ListChain(c) ==
    /\ at[c] = "listing"
    /\ LET p == req[c].prio
           group == IF p >= Len(infos) THEN <<>> ELSE Items(Info(p))
       IN  /\ p < chains
           /\ listing' = [listing EXCEPT ![c] = @ \o
                [n \in 1..Len(group) |-> [prio |-> p, num |-> n - 1, id |-> group[n].id]]]
    /\ req' = [req EXCEPT ![c].prio = @ + 1]
    /\ UNCHANGED <<mainVars, heap, paused, at, slice, seen, reply, last, lost>>

ListEnd(c) ==
    /\ at[c] = "listing" /\ req[c].prio >= chains
    /\ Answer(c, "ok")
    /\ UNCHANGED <<mainVars, heap, paused, slice, listing, seen, last, lost>>

\* The range check both setters make before they index InputChains.
OutOfRange(prio) == ToInt(prio) > chains

\* InputChains[prio] for a setter: InvalidArgument, an index panic, or found.
LookUpChain(c, next) ==
    /\ ~ListingNow
    /\ IF OutOfRange(req[c].prio) THEN Answer(c, "InvalidArgument")
       ELSE IF req[c].prio >= chains THEN Answer(c, "ok")
       ELSE Continue(c, next)
    /\ UNCHANGED <<mainVars, heap, paused, slice, listing, seen, last, lost>>

LookUpToStop(c) == Called(c, "SetStopInput") /\ LookUpChain(c, "stop")
LookUpToSet(c) == Called(c, "SetInputCustomOption") /\ LookUpChain(c, "resources")

\* Pause or Unpause the chain; either may fail (external).
SetStopInput(c) ==
    /\ at[c] = "stop"
    /\ \/ /\ paused' = IF req[c].stop THEN paused \cup {req[c].prio}
                       ELSE paused \ {req[c].prio}
          /\ Answer(c, "ok")
       \/ Answer(c, "Internal") /\ UNCHANGED paused
    /\ UNCHANGED <<mainVars, heap, slice, listing, seen, last, lost>>

\* GetResources, then the check of the input number; a number that passes it
\* and is none of the slice's is an index panic.
GetResources(c) ==
    /\ at[c] = "resources"
    /\ IF req[c].prio >= Len(infos)
       THEN Answer(c, "Internal") /\ UNCHANGED slice
       ELSE LET s == Info(req[c].prio) IN
            IF ToInt(req[c].num) >= s.len
            THEN Answer(c, "InvalidArgument") /\ UNCHANGED slice
            ELSE IF req[c].num >= s.len
            THEN Answer(c, "ok") /\ UNCHANGED slice
            ELSE /\ slice' = [slice EXCEPT ![c] = s]
                 /\ Continue(c, "set")
    /\ UNCHANGED <<mainVars, heap, paused, listing, seen, last, lost>>

\* SetFirst on element n (from 1) of the slice taken before: it changes the
\* resource only if InputsInfo still shows that array.
Write(c, n) ==
    LET s == slice[c]
        i == heap[s.arr].items[n].id
    IN
    /\ heap' = [heap EXCEPT ![s.arr].items[n].opt = req[c].value]
    /\ last' = [last EXCEPT ![i] = req[c].value]
    /\ lost' = IF s.arr = Info(req[c].prio).arr THEN lost \ {i} ELSE lost \cup {i}

\* Mutant: the write ignores the input's number.
SetInputCustomOptionOfFirst(c) ==
    /\ at[c] = "set"
    /\ heap' = [heap EXCEPT ![slice[c].arr].items[1].opt = req[c].value]
    /\ last' = [last EXCEPT ![heap[slice[c].arr].items[req[c].num + 1].id] = req[c].value]
    /\ UNCHANGED lost
    /\ Answer(c, "ok")
    /\ slice' = [slice EXCEPT ![c] = Nil]
    /\ UNCHANGED <<mainVars, paused, listing, seen>>

SetInputCustomOption(c) ==
    /\ at[c] = "set"
    /\ Write(c, req[c].num + 1)
    /\ Answer(c, "ok")
    /\ slice' = [slice EXCEPT ![c] = Nil]
    /\ UNCHANGED <<mainVars, paused, listing, seen>>

Handle(c) ==
    \/ ListBegin(c) \/ ListChain(c) \/ ListEnd(c)
    \/ LookUpToStop(c) \/ SetStopInput(c)
    \/ LookUpToSet(c) \/ GetResources(c) \/ SetInputCustomOption(c)

Next ==
    \/ /\ main # "crashed"
       /\ Main \/ \E c \in Clients : Call(c) \/ Handle(c)
    \/ main = "crashed" /\ UNCHANGED vars

Spec == Init /\ [][Next]_vars

-----------------------------------------------------------------------------
\* Resources.ByFallbackPriority, over positions in the command line

\* A finite set of numbers in ascending order.
Ascending(S) ==
    CHOOSE s \in [1..Cardinality(S) -> S] : \A m, n \in DOMAIN s : m < n => s[m] < s[n]

\* Mutant: the groups are sorted the wrong way round.
ByFallbackPriorityDescending(n) ==
    LET priorities == Ascending({Priority(i) : i \in 1..n})
        top == Len(priorities) + 1
    IN  [k \in DOMAIN priorities |->
           Ascending({i \in 1..n : Priority(i) = priorities[top - k]})]

\* The first n resources: group by priority in order of appearance, then order
\* the groups.
ByFallbackPriority(n) ==
    LET priorities == Ascending({Priority(i) : i \in 1..n})
    IN  [k \in DOMAIN priorities |-> Ascending({i \in 1..n : Priority(i) = priorities[k]})]

-----------------------------------------------------------------------------
\* Properties

\* Every variable has its type.
TypeOK ==
    /\ main \in {"next", "factory", "info", "append", "error", "crashed"}
    /\ added \in 0..Len(FlagInputs)
    /\ chains \in Nat
    /\ \A p \in DOMAIN infos :
         infos[p].arr \in 0..Len(heap) /\ infos[p].len \in 0..Len(FlagInputs)
    /\ \A a \in DOMAIN heap : Len(heap[a].items) <= heap[a].cap
    /\ paused \subseteq Nat
    /\ \A c \in Clients :
         /\ at[c] \in {"idle", "called", "listing", "stop", "resources", "set"}
         /\ reply[c] \in {"none", "ok", "Internal", "InvalidArgument"}

\* AddInput's two lists never disagree when it looks, so its "internal error"
\* cannot be returned, however the handlers interleave.
NoInternalError ==
    main # "error" /\ (main \in {"next", "append"} => chains = Len(infos))

\* Whatever priorities were typed and whatever clients do meanwhile, every
\* input finds a group of its priority, but one whose priority is no int.
CrashOnlyByHugePriority == main = "crashed" => Priority(Adding) > MaxInt

\* The groups AddInput builds one resource at a time, gaps left out, are the
\* ones ByFallbackPriority computes from the whole list.
GroupsAgree ==
    LET ids(s) == [n \in 1..Len(Items(s)) |-> Items(s)[n].id]
        shown == Ascending({p \in DOMAIN infos : infos[p].len > 0})
    IN  main = "next" =>
          [n \in DOMAIN shown |-> ids(infos[shown[n]])] = ByFallbackPriority(added)

\* A finished GetInputsInfo shows every resource registered before it was
\* called, none twice, in priority order, under the priority and number by
\* which the setters reach it.
ListingFaithful ==
    LET c == Lister IN
        at[c] = "idle" /\ reply[c] = "ok" =>
          /\ 1..seen[c] \subseteq {e.id : e \in ToSet(listing[c])}
          /\ \A m, n \in DOMAIN listing[c] : m < n =>
               /\ listing[c][m].prio <= listing[c][n].prio
               /\ listing[c][m].id # listing[c][n].id
          /\ \A e \in ToSet(listing[c]) :
               Items(Info(e.prio))[e.num + 1].id = e.id

\* An acknowledged option is the one the next NewInput will read, unless
\* append moved the group between the handler's GetResources and its write:
\* no other interleaving loses it, and no later append does.
AckedOptionVisible ==
    main = "next" =>
        \A p \in DOMAIN infos : \A n \in 1..infos[p].len :
            LET r == Items(infos[p])[n] IN r.id \notin lost => r.opt = last[r.id]

\* What the setters' error text says: a priority without a chain is "out of
\* range", so it is never answered OK (it is: finding).
OutOfRangeRefused ==
    [][\A c \in Clients :
         at[c] = "called" /\ at'[c] = "idle" /\ reply'[c] = "ok" => req[c].prio < chains]_vars

=============================================================================
