------------------------- MODULE InputFactoryProofs -------------------------
(***************************************************************************)
(* The index space of an input factory, for any number of workers,         *)
(* resources, streams and reopenings: the invariants of InputFactory and   *)
(* that it implements StreamIndexSpace.                                    *)
(***************************************************************************)
EXTENDS InputFactory, TLAPS

\* What NewInput and the chain hold at each point.
ChainState ==
    /\ pc # "opening" => inputs = <<>>
    /\ pc # "running" => tee = <<>>
    /\ pc = "running" => ready

\* A stream that keeps index 0.
ZeroStream(k) == SourceIndex(k[1]) = 0 /\ k[2] = 0

\* The numbers in use are below the next one, 0 is not among them, and no
\* number is used twice; only one source is the first.
MapState ==
    /\ ready => streamIndexNext >= 1
    /\ \A k \in DOMAIN streamIndexMap :
         /\ streamIndexMap[k] >= 1 /\ streamIndexMap[k] < streamIndexNext
         /\ ~ZeroStream(k)
    /\ \A j, k \in DOMAIN streamIndexMap :
         streamIndexMap[j] = streamIndexMap[k] => j = k
    /\ \A s, t \in DOMAIN sourceIndex :
         sourceIndex[s] = 0 /\ sourceIndex[t] = 0 => s = t

\* Every answer since the reset is still what the factory would answer.
LogState ==
    \A e \in log :
        \/ ZeroStream(e.stream) /\ e.out = 0
        \/ /\ ~ZeroStream(e.stream)
           /\ e.stream \in DOMAIN streamIndexMap
           /\ e.out = streamIndexMap[e.stream]

IndInv == TypeOK /\ NoLeakedSource /\ MapReady /\ ChainState /\ MapState /\ LogState

-----------------------------------------------------------------------------
\* The elements of the empty sequence, of an extended one, of a typed one.
LEMMA ElemsFacts ==
    /\ Elems(<<>>) = {}
    /\ \A S, x : \A q \in Seq(S) : Elems(Append(q, x)) = Elems(q) \cup {x}
    /\ \A S : \A q \in Seq(S) : Elems(q) \subseteq S
<1>1. Elems(<<>>) = {}
  BY DEF Elems
<1>2. ASSUME NEW S, NEW x, NEW q \in Seq(S)
      PROVE  Elems(Append(q, x)) = Elems(q) \cup {x}
  <2>1. Len(Append(q, x)) = Len(q) + 1 /\ Len(q) \in Nat
    OBVIOUS
  <2>2. \A i \in 1..Len(q) : Append(q, x)[i] = q[i]
    OBVIOUS
  <2>3. Append(q, x)[Len(q) + 1] = x
    OBVIOUS
  <2> QED BY <2>1, <2>2, <2>3 DEF Elems
<1>3. ASSUME NEW S, NEW q \in Seq(S) PROVE Elems(q) \subseteq S
  BY DEF Elems
<1> QED BY <1>1, <1>2, <1>3

\* Numbering the sources of a Tee: each gets a position, the first alone gets 0.
LEMMA Numbering ==
    ASSUME NEW q \in Seq(Sources), NEW index,
           index = [s \in Elems(q) |-> (CHOOSE i \in 1..Len(q) : q[i] = s) - 1]
    PROVE  /\ DOMAIN index \subseteq Sources
           /\ \A s \in DOMAIN index : index[s] \in Nat
           /\ \A s, t \in DOMAIN index : index[s] = 0 /\ index[t] = 0 => s = t
<1>1. ASSUME NEW s \in Elems(q)
      PROVE  index[s] \in Nat /\ q[index[s] + 1] = s
  <2>1. \E i \in 1..Len(q) : q[i] = s
    BY DEF Elems
  <2> DEFINE p == CHOOSE i \in 1..Len(q) : q[i] = s
  <2>2. p \in 1..Len(q) /\ q[p] = s
    BY <2>1
  <2>3. index[s] = p - 1
    OBVIOUS
  <2> HIDE DEF p
  <2> QED BY <2>2, <2>3
<1>2. DOMAIN index = Elems(q)
  OBVIOUS
<1>3. \A s, t \in DOMAIN index : index[s] = 0 /\ index[t] = 0 => s = t
  <2> SUFFICES ASSUME NEW s \in Elems(q), NEW t \in Elems(q),
                      index[s] = 0, index[t] = 0
               PROVE  s = t
    BY <1>2
  <2>1. q[index[s] + 1] = s /\ q[index[t] + 1] = t
    BY <1>1
  <2> QED BY <2>1
<1> QED BY <1>1, <1>2, <1>3, ElemsFacts

-----------------------------------------------------------------------------
LEMMA InitInv == Init => IndInv
<1> SUFFICES ASSUME Init PROVE IndInv
  OBVIOUS
<1> USE ConstantsAssumption DEF Init
<1>1. TypeOK
  <2>1. DOMAIN Empty = {}
    BY DEF Empty
  <2>2. ready \in BOOLEAN
    OBVIOUS
  <2>3. opens \in 0..MaxOpens /\ open \subseteq Sources
    OBVIOUS
  <2>4. inputs \in Seq(Sources) /\ tee \in Seq(Sources)
    OBVIOUS
  <2>5. /\ DOMAIN streamIndexMap \subseteq Keys /\ DOMAIN sourceIndex \subseteq Sources
        /\ \A k \in DOMAIN streamIndexMap : streamIndexMap[k] \in Nat
        /\ \A t \in DOMAIN sourceIndex : sourceIndex[t] \in Nat
    BY <2>1
  <2> QED BY <2>2, <2>3, <2>4, <2>5 DEF TypeOK
<1>2. NoLeakedSource
  BY ElemsFacts DEF NoLeakedSource
<1>3. MapReady /\ ChainState /\ LogState
  BY DEF MapReady, ChainState, LogState
<1>4. MapState
  BY DEF MapState, Empty
<1> QED BY <1>1, <1>2, <1>3, <1>4 DEF IndInv

\* NewInput, the chain and the options.
LEMMA ChainStep ==
    ASSUME IndInv,
           \/ NewInput \/ OpenResource \/ FailResource \/ ReturnInput
           \/ CloseInput \/ \E r \in 1..NumResources : SetInputCustomOption(r)
    PROVE  IndInv'
<1> USE ConstantsAssumption, ElemsFacts DEF IndInv
<1>1. CASE NewInput
  BY <1>1 DEF NewInput, factoryVars, TypeOK, NoLeakedSource, MapReady,
     ChainState, MapState, LogState, ZeroStream, SourceIndex
<1>2. CASE OpenResource
  <2>1. opens' \in Sources /\ opens' \in 0..MaxOpens
    BY <1>2 DEF OpenResource, TypeOK, Sources
  <2>2. inputs' \in Seq(Sources) /\ Elems(inputs') = Elems(inputs) \cup {opens'}
    BY <1>2, <2>1 DEF OpenResource, TypeOK
  <2>3. TypeOK'
    BY <1>2, <2>1, <2>2 DEF OpenResource, factoryVars, TypeOK
  <2>4. NoLeakedSource'
    BY <1>2, <2>2 DEF OpenResource, NoLeakedSource
  <2> QED BY <1>2, <2>3, <2>4 DEF OpenResource, factoryVars, MapReady,
             ChainState, MapState, LogState, ZeroStream, SourceIndex
<1>3. CASE FailResource
  BY <1>3 DEF FailResource, factoryVars, TypeOK, NoLeakedSource, MapReady,
     ChainState, MapState, LogState, ZeroStream, SourceIndex
<1>4. CASE CloseInput
  BY <1>4 DEF CloseInput, factoryVars, TypeOK, NoLeakedSource, MapReady,
     ChainState, MapState, LogState, ZeroStream, SourceIndex
<1>5. CASE ReturnInput
  <2>1. /\ DOMAIN sourceIndex' \subseteq Sources
        /\ \A s \in DOMAIN sourceIndex' : sourceIndex'[s] \in Nat
        /\ \A s, t \in DOMAIN sourceIndex' :
             sourceIndex'[s] = 0 /\ sourceIndex'[t] = 0 => s = t
    BY <1>5, Numbering DEF ReturnInput, TypeOK
  <2>2. DOMAIN streamIndexMap' = {} /\ log' = {} /\ streamIndexNext' = 1 /\ ready' = TRUE
    BY <1>5 DEF ReturnInput, Empty
  <2>3. ready' \in BOOLEAN
    BY <2>2
  <2>4. TypeOK'
    <3>1. UNCHANGED <<optsOK, opens, open, call>> /\ tee' = inputs /\ inputs' = <<>>
          /\ pc' = "running"
      BY <1>5 DEF ReturnInput
    <3>2. inputs' \in Seq(Sources)
      BY <3>1
    <3>3. /\ streamIndexNext' \in Nat /\ DOMAIN streamIndexMap' \subseteq Keys
          /\ \A k \in DOMAIN streamIndexMap' : streamIndexMap'[k] \in Nat
          /\ log' \subseteq [stream : Keys, out : Nat]
      BY <2>2
    <3> QED BY <2>1, <2>3, <3>1, <3>2, <3>3 DEF TypeOK
  <2>5. NoLeakedSource'
    BY <1>5 DEF ReturnInput, NoLeakedSource, ChainState
  <2>6. MapReady' /\ ChainState'
    BY <1>5 DEF ReturnInput, MapReady, ChainState
  <2>7. MapState' /\ LogState'
    BY <2>1, <2>2 DEF MapState, LogState
  <2> QED BY <2>4, <2>5, <2>6, <2>7
<1>6. ASSUME NEW r \in 1..NumResources, SetInputCustomOption(r) PROVE IndInv'
  <2>1. optsOK' \in [1..NumResources -> BOOLEAN]
    BY <1>6 DEF SetInputCustomOption, TypeOK
  <2> QED BY <1>6, <2>1 DEF SetInputCustomOption, chainVars, factoryVars,
             TypeOK, NoLeakedSource, MapReady, ChainState, MapState, LogState,
             ZeroStream, SourceIndex
<1> QED BY <1>1, <1>2, <1>3, <1>4, <1>5, <1>6

\* The workers.
LEMMA WorkerStep ==
    ASSUME IndInv, NEW w \in Workers, Push(w) \/ StreamIndexAssign(w)
    PROVE  IndInv'
<1> USE ConstantsAssumption DEF IndInv
<1>1. CASE Push(w)
  <2>1. PICK s \in Elems(tee) \cup {NoSource}, n \in StreamIdx :
          call' = [call EXCEPT ![w] = [src |-> s, idx |-> n]]
    BY <1>1 DEF Push
  <2>2. s \in Sources \cup {NoSource}
    BY <2>1, ElemsFacts DEF TypeOK
  <2>3. ready
    BY <1>1 DEF Push, ChainState
  <2> QED BY <1>1, <2>1, <2>2, <2>3 DEF Push, chainVars, factoryVars, TypeOK,
             NoLeakedSource, MapReady, ChainState, MapState, LogState,
             ZeroStream, SourceIndex
<1>2. CASE AssignNoSource(w)
  BY <1>2 DEF AssignNoSource, chainVars, factoryVars, TypeOK, NoLeakedSource,
     MapReady, ChainState, MapState, LogState, ZeroStream, SourceIndex
<1>3. ASSUME call[w] # NoCall, call[w].src # NoSource
      PROVE  /\ <<call[w].src, call[w].idx>> \in Keys
             /\ ready
             /\ KeepsZero(call[w]) <=> ZeroStream(<<call[w].src, call[w].idx>>)
  BY <1>3 DEF TypeOK, Keys, MapReady, KeepsZero, ZeroStream
<1>4. ASSUME NEW out \in Nat, Return(w, out), call[w] # NoCall,
             call[w].src # NoSource
      PROVE  /\ call' \in [Workers ->
                   [src : Sources \cup {NoSource}, idx : StreamIdx] \cup {NoCall}]
             /\ log' \subseteq [stream : Keys, out : Nat]
             /\ NoLeakedSource' /\ MapReady' /\ ChainState'
             /\ UNCHANGED <<optsOK, pc, inputs, tee, opens, open, ready, sourceIndex>>
  <2>1. <<call[w].src, call[w].idx>> \in Keys
    BY <1>3, <1>4
  <2>2. [stream |-> <<call[w].src, call[w].idx>>, out |-> out]
          \in [stream : Keys, out : Nat]
    BY <2>1
  <2>3. log' \subseteq [stream : Keys, out : Nat]
    BY <1>4, <2>2 DEF Return, TypeOK
  <2>4. call' \in [Workers ->
          [src : Sources \cup {NoSource}, idx : StreamIdx] \cup {NoCall}]
    BY <1>4 DEF Return, TypeOK
  <2> QED BY <1>4, <2>3, <2>4 DEF Return, chainVars, TypeOK, NoLeakedSource,
             MapReady, ChainState
<1>5. CASE AssignZero(w)
  <2>1. call[w] # NoCall /\ call[w].src # NoSource /\ KeepsZero(call[w])
        /\ Return(w, 0) /\ UNCHANGED <<streamIndexNext, streamIndexMap>>
    BY <1>5 DEF AssignZero
  <2>2. TypeOK' /\ NoLeakedSource' /\ MapReady' /\ ChainState'
    BY <1>4, <2>1 DEF TypeOK
  <2>3. MapState'
    BY <1>4, <2>1 DEF MapState, ZeroStream, SourceIndex
  <2>4. LogState'
    BY <1>3, <1>4, <2>1 DEF LogState, Return, ZeroStream, SourceIndex
  <2> QED BY <2>2, <2>3, <2>4
<1>6. CASE AssignMapped(w)
  <2> DEFINE k == <<call[w].src, call[w].idx>>
  <2>1. call[w] # NoCall /\ call[w].src # NoSource /\ ~KeepsZero(call[w])
    BY <1>6 DEF AssignMapped
  <2>2. k \in Keys /\ ready /\ ~ZeroStream(k)
    BY <1>3, <2>1
  <2>3. CASE k \in DOMAIN streamIndexMap
    <3>1. Return(w, streamIndexMap[k]) /\ streamIndexMap[k] \in Nat
          /\ UNCHANGED <<streamIndexNext, streamIndexMap>>
      BY <1>6, <2>3 DEF AssignMapped, TypeOK
    <3>2. TypeOK' /\ NoLeakedSource' /\ MapReady' /\ ChainState'
      BY <1>4, <2>1, <3>1 DEF TypeOK
    <3>3. MapState'
      BY <1>4, <2>1, <3>1 DEF MapState, ZeroStream, SourceIndex
    <3>4. LogState'
      BY <1>4, <2>1, <2>2, <2>3, <3>1
         DEF LogState, Return, ZeroStream, SourceIndex
    <3> QED BY <3>2, <3>3, <3>4
  <2>4. CASE k \notin DOMAIN streamIndexMap
    <3>1. /\ Return(w, streamIndexNext) /\ streamIndexNext \in Nat
          /\ streamIndexNext' = streamIndexNext + 1
          /\ streamIndexMap' = [x \in DOMAIN streamIndexMap \cup {k} |->
                                  IF x = k THEN streamIndexNext
                                  ELSE streamIndexMap[x]]
      BY <1>6, <2>4 DEF AssignMapped, TypeOK
    <3>2. /\ DOMAIN streamIndexMap' = DOMAIN streamIndexMap \cup {k}
          /\ streamIndexMap'[k] = streamIndexNext
          /\ \A x \in DOMAIN streamIndexMap : streamIndexMap'[x] = streamIndexMap[x]
      BY <2>4, <3>1
    <3>3. TypeOK' /\ NoLeakedSource' /\ MapReady' /\ ChainState'
      <4> HIDE DEF k
      <4>1. DOMAIN streamIndexMap' \subseteq Keys /\ streamIndexNext' \in Nat
        BY <2>2, <3>1, <3>2 DEF TypeOK
      <4>2. \A x \in DOMAIN streamIndexMap' : streamIndexMap'[x] \in Nat
        BY <3>1, <3>2 DEF TypeOK
      <4> QED BY <1>4, <2>1, <3>1, <4>1, <4>2 DEF TypeOK
    <3>4. sourceIndex' = sourceIndex /\ ready' = ready
      BY <1>4, <2>1, <3>1
    <3>5. \A x : ZeroStream(x)' <=> ZeroStream(x)
      BY <3>4 DEF ZeroStream, SourceIndex
    <3>6. MapState'
      <4> HIDE DEF k
      <4>1. streamIndexNext \in Nat /\ streamIndexNext >= 1
        BY <2>2, <3>1 DEF MapState
      <4>2. \A x \in DOMAIN streamIndexMap :
              /\ streamIndexMap[x] \in Nat /\ streamIndexMap[x] >= 1
              /\ streamIndexMap[x] < streamIndexNext /\ ~ZeroStream(x)
        BY DEF MapState, TypeOK
      <4>3. \A x \in DOMAIN streamIndexMap' :
              /\ streamIndexMap'[x] >= 1 /\ streamIndexMap'[x] < streamIndexNext'
              /\ ~ZeroStream(x)'
        BY <2>2, <3>1, <3>2, <3>5, <4>1, <4>2
      <4>4. ASSUME NEW x \in DOMAIN streamIndexMap', NEW y \in DOMAIN streamIndexMap',
                   streamIndexMap'[x] = streamIndexMap'[y]
            PROVE  x = y
        BY <3>2, <4>1, <4>2, <4>4 DEF MapState
      <4>5. streamIndexNext' >= 1
        BY <3>1, <4>1
      <4> QED BY <3>4, <4>3, <4>4, <4>5 DEF MapState
    <3>7. LogState'
      BY <2>2, <2>4, <3>1, <3>2, <3>5 DEF LogState, Return
    <3> QED BY <3>3, <3>6, <3>7
  <2> QED BY <2>3, <2>4
<1> QED BY <1>1, <1>2, <1>5, <1>6 DEF StreamIndexAssign

LEMMA NextInv == IndInv /\ [Next]_vars => IndInv'
<1> SUFFICES ASSUME IndInv, [Next]_vars PROVE IndInv'
  OBVIOUS
<1>1. CASE UNCHANGED vars
  BY <1>1 DEF vars, IndInv, TypeOK, NoLeakedSource, MapReady, ChainState,
     MapState, LogState, ZeroStream, SourceIndex
<1>2. CASE Next
  BY <1>2, ChainStep, WorkerStep DEF Next
<1> QED BY <1>1, <1>2

\* The invariant of every reachable state.
THEOREM Invariance == Spec => []IndInv
BY InitInv, NextInv, PTL DEF Spec

\* Every variable keeps its type.
THEOREM TypeCorrect == Spec => []TypeOK
<1>1. IndInv => TypeOK
  BY DEF IndInv
<1> QED BY <1>1, Invariance, PTL

\* A NewInput that fails half-way closes what it opened; no source is leaked.
THEOREM NoLeak == Spec => []NoLeakedSource
<1>1. IndInv => NoLeakedSource
  BY DEF IndInv
<1> QED BY <1>1, Invariance, PTL

\* StreamIndexAssign never writes to a nil map.
THEOREM NoNilMap == Spec => []MapReady
<1>1. IndInv => MapReady
  BY DEF IndInv
<1> QED BY <1>1, Invariance, PTL

\* Two answers about known sources are equal exactly if the streams are.
LEMMA Collisions == IndInv => NoCollision
<1> SUFFICES ASSUME IndInv, NEW d \in log, NEW e \in log, Known(d), Known(e)
             PROVE  d.out = e.out <=> d.stream = e.stream
  BY DEF NoCollision
<1> USE DEF IndInv
<1>1. d.stream \in Keys /\ e.stream \in Keys
  BY DEF TypeOK
<1>2. CASE ZeroStream(d.stream) /\ ZeroStream(e.stream)
  <2>1. d.stream[1] = e.stream[1]
    BY <1>2 DEF ZeroStream, SourceIndex, Known, MapState
  <2>2. d.stream[2] = e.stream[2]
    BY <1>2 DEF ZeroStream
  <2>3. d.stream = e.stream
    BY <1>1, <2>1, <2>2 DEF Keys
  <2> QED BY <1>2, <2>3 DEF LogState
<1>3. CASE ~ZeroStream(d.stream) /\ ~ZeroStream(e.stream)
  BY <1>3 DEF LogState, MapState
<1>4. CASE ZeroStream(d.stream) /\ ~ZeroStream(e.stream)
  BY <1>4 DEF LogState, MapState
<1>5. CASE ~ZeroStream(d.stream) /\ ZeroStream(e.stream)
  BY <1>5 DEF LogState, MapState
<1> QED BY <1>2, <1>3, <1>4, <1>5

LEMMA CollisionsNext == IndInv' => NoCollision'
BY Collisions, PTL

\* No collisions across the sources of an input.
THEOREM CollisionFree == Spec => []NoCollision
BY Collisions, Invariance, PTL

\* Index 0 is the first stream of the first source, always and alone.
THEOREM ZeroFirst == Spec => []ZeroIsFirstStream
<1>1. IndInv => ZeroIsFirstStream
  BY DEF IndInv, ZeroIsFirstStream, LogState, MapState, ZeroStream
<1> QED BY <1>1, Invariance, PTL

-----------------------------------------------------------------------------
\* Refinement of StreamIndexSpace

Abstract == {e \in log : Known(e)}

\* An answer is a new index nobody has, or one given before.
LEMMA ReturnRefines ==
    ASSUME IndInv, IndInv', NEW w \in Workers, NEW out, Return(w, out)
    PROVE  IndexSpace!Next \/ UNCHANGED Abstract
<1>0. PICK new : new = [stream |-> <<call[w].src, call[w].idx>>, out |-> out]
  OBVIOUS
<1>1. log' = log \cup {new} /\ sourceIndex' = sourceIndex
  BY <1>0 DEF Return
<1>2. \A e : Known(e)' <=> Known(e)
  BY <1>1 DEF Known
<1>3. new \in [stream : Keys, out : Nat]
  BY <1>1 DEF IndInv, TypeOK
<1>4. CASE new \in log \/ ~Known(new)
  BY <1>1, <1>2, <1>4 DEF Abstract
<1>5. CASE new \notin log /\ Known(new)
  <2>1. Abstract' = Abstract \cup {new}
    BY <1>1, <1>2, <1>5 DEF Abstract
  <2>2. ASSUME NEW e \in Abstract
        PROVE  e.stream # new.stream /\ e.out # new.out
    <3>1. e \in log' /\ new \in log' /\ Known(e)' /\ Known(new)'
      BY <1>1, <1>2, <1>5 DEF Abstract, Known
    <3>2. e.out = new.out <=> e.stream = new.stream
      BY <3>1, CollisionsNext DEF NoCollision
    <3>3. e \in [stream : Keys, out : Nat] /\ e # new
      BY <1>5 DEF IndInv, TypeOK, Abstract
    <3>4. ~(e.stream = new.stream /\ e.out = new.out)
      BY <1>3, <3>3
    <3> QED BY <3>2, <3>4
  <2>3. new.stream \in Keys /\ new.out \in Nat
    BY <1>3
  <2> QED BY <2>1, <2>2, <2>3
          DEF IndexSpace!Next, IndexSpace!Assign, Abstract
<1> QED BY <1>4, <1>5

\* Every step is a step of the index space, or none.
LEMMA StepRefines == IndInv /\ IndInv' /\ [Next]_vars => [IndexSpace!Next]_Abstract
<1> SUFFICES ASSUME IndInv, IndInv', [Next]_vars
             PROVE  IndexSpace!Next \/ UNCHANGED Abstract
  OBVIOUS
<1>1. CASE UNCHANGED <<log, sourceIndex>>
  BY <1>1 DEF Abstract, Known
<1>2. CASE ReturnInput
  <2>1. Abstract' = {}
    BY <1>2 DEF ReturnInput, Abstract
  <2> QED BY <2>1 DEF IndexSpace!Next, IndexSpace!Forget, Abstract
<1>3. ASSUME NEW w \in Workers, AssignZero(w) \/ AssignMapped(w)
      PROVE  IndexSpace!Next \/ UNCHANGED Abstract
  <2>1. \E out : Return(w, out)
    BY <1>3 DEF AssignZero, AssignMapped
  <2> QED BY <2>1, ReturnRefines
<1>4. ASSUME \/ UNCHANGED vars
             \/ NewInput \/ OpenResource \/ FailResource \/ CloseInput
             \/ \E r \in 1..NumResources : SetInputCustomOption(r)
             \/ \E w \in Workers : Push(w) \/ AssignNoSource(w)
      PROVE  UNCHANGED <<log, sourceIndex>>
  BY <1>4 DEF vars, factoryVars, NewInput, OpenResource, FailResource,
     CloseInput, SetInputCustomOption, Push, AssignNoSource
<1> QED BY <1>1, <1>2, <1>3, <1>4 DEF Next, StreamIndexAssign

\* The factory implements a collision-free index space per input, for every
\* number of workers, sources and streams.
THEOREM Refinement == Spec => IndexSpaceSpec
<1>1. Init => IndexSpace!Init
  BY DEF Init, IndexSpace!Init
<1>2. [Next]_vars /\ IndInv /\ IndInv' => [IndexSpace!Next]_Abstract
  BY StepRefines
<1> QED BY <1>1, <1>2, Invariance, PTL
        DEF Spec, IndexSpaceSpec, IndexSpace!Spec, Abstract
=============================================================================
