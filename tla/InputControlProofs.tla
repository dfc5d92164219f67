------------------------- MODULE InputControlProofs -------------------------
(***************************************************************************)
(* Proofs about InputControl for every list of inputs, every set of        *)
(* clients and options, and whatever room append reserves.                 *)
(***************************************************************************)
EXTENDS InputControl, TLAPS, FiniteSetTheorems

Resources == [id : 1..added, opt : Options \cup {NoOption}]
AllRequests ==
    {NoReq} \cup [op : {"GetInputsInfo"}, prio : Nat]
    \cup [op : {"SetStopInput"}, prio : Nat, stop : BOOLEAN]
    \cup [op : {"SetInputCustomOption"}, prio : Nat, num : Nat, value : Options]

\* main: a step of AddInput has an input to add, and the two lists agree but
\* between AddFactory and AppendNil.
MainInv ==
    /\ main \in {"next", "factory", "info", "append", "crashed"}
    /\ added \in 0..Len(FlagInputs)
    /\ main # "next" => added < Len(FlagInputs)
    /\ chains = Len(infos) + (IF main = "info" THEN 1 ELSE 0)
    /\ main = "append" /\ Priority(Adding) <= MaxInt => Priority(Adding) < Len(infos)
    /\ CrashOnlyByHugePriority

\* Slices and arrays: a group fills its array, and shares it with no other.
HeapInv ==
    /\ infos \in Seq([arr : Nat, len : 0..added])
    /\ heap \in Seq([cap : Nat, items : Seq(Resources)])
    /\ \A a \in 1..Len(heap) : Len(heap[a].items) <= heap[a].cap
    /\ \A p \in 1..Len(infos) :
          /\ infos[p].arr \in 0..Len(heap)
          /\ infos[p].arr = 0 => infos[p].len = 0
          /\ infos[p].arr # 0 => infos[p].len = Len(heap[infos[p].arr].items)
    /\ \A p, q \in 1..Len(infos) : infos[p].arr = infos[q].arr => p = q \/ infos[p].arr = 0

\* No two places of the groups hold the same input.
Unique ==
    \A p, q \in 1..Len(infos) : \A m \in 1..infos[p].len, n \in 1..infos[q].len :
        heap[infos[p].arr].items[m].id = heap[infos[q].arr].items[n].id => p = q /\ m = n

\* The handlers: what each holds of its request and of its slice.
ClientInv ==
    /\ at \in [Clients -> {"idle", "called", "listing", "stop", "resources", "set"}]
    /\ reply \in [Clients -> {"none", "ok", "Internal", "InvalidArgument"}]
    /\ req \in [Clients -> AllRequests]
    /\ slice \in [Clients -> [arr : Nat, len : Nat]]
    /\ paused \subseteq Nat
    /\ \A c \in Clients :
          /\ at[c] = "listing" => req[c].op = "GetInputsInfo"
          /\ at[c] = "stop" => req[c].op = "SetStopInput"
          /\ at[c] \in {"resources", "set"} => req[c].op = "SetInputCustomOption"

\* A slice that is about to be written to.
SliceOK(c) ==
    LET s == slice[c] IN
    /\ s.arr \in 1..Len(heap) /\ s.len <= Len(heap[s.arr].items)
    /\ req[c].num < s.len /\ req[c].prio < Len(infos)
SliceInv == \A c \in Clients : at[c] = "set" => SliceOK(c)

\* The resources that are shown have the option last acknowledged, or a lost
\* one; no client has set an option of an input that is yet to come.
OptionInv ==
    /\ last \in [Inputs -> Options \cup {NoOption}]
    /\ \A i \in Inputs : i > added => last[i] = NoOption
    /\ \A p \in 1..Len(infos) : \A n \in 1..infos[p].len :
          LET r == heap[infos[p].arr].items[n] IN r.id \notin lost => r.opt = last[r.id]

IndInv == MainInv /\ HeapInv /\ Unique /\ ClientInv /\ SliceInv /\ OptionInv

-----------------------------------------------------------------------------
\* An input without a fallback_priority that parses has the priority 0.
LEMMA FallbackPriorityIsUint ==
    \A i \in Inputs : GetFallbackPriority(FlagInputs[i]) \in Nat
<1> SUFFICES ASSUME NEW i \in Inputs PROVE GetFallbackPriority(FlagInputs[i]) \in Nat
  OBVIOUS
<1>1. /\ FlagInputs[i] \in Seq(0..(2 * MaxInt + 1) \cup {BadNumber})
      /\ MaxInt \in Nat
  BY ConstantsAssumption DEF Inputs
<1>2. \A n \in DOMAIN FlagInputs[i] : FlagInputs[i][n] \in Nat \/ FlagInputs[i][n] = BadNumber
  BY <1>1
<1> QED
  BY <1>2 DEF GetFallbackPriority

LEMMA ConstantFacts ==
    /\ Len(FlagInputs) \in Nat /\ MaxInt \in Nat /\ Lister \in Clients
    /\ \A i \in Inputs : Priority(i) \in Nat
    /\ Prios \subseteq Nat /\ Nums \subseteq Nat
<1>1. \A i \in Inputs : Priority(i) \in Nat
  BY FallbackPriorityIsUint DEF Priority
<1> QED
  BY <1>1, ConstantsAssumption

\* An input that is found at two places of the groups is found at one.
LEMMA OnePlace ==
    ASSUME Unique, NEW p \in 1..Len(infos), NEW q \in 1..Len(infos),
           NEW m \in 1..infos[p].len, NEW n \in 1..infos[q].len,
           heap[infos[p].arr].items[m].id = heap[infos[q].arr].items[n].id
    PROVE  p = q /\ m = n
BY Zenon DEF Unique

\* If every place keeps the input it shows, no two places get the same one.
LEMMA SameIds ==
    ASSUME Unique, UNCHANGED infos,
           \A p \in 1..Len(infos) : \A m \in 1..infos[p].len :
              heap'[infos[p].arr].items[m].id = heap[infos[p].arr].items[m].id
    PROVE  Unique'
<1> SUFFICES ASSUME NEW p \in 1..Len(infos'), NEW q \in 1..Len(infos'),
                    NEW m \in 1..infos'[p].len, NEW n \in 1..infos'[q].len,
                    heap'[infos'[p].arr].items[m].id = heap'[infos'[q].arr].items[n].id
             PROVE  p = q /\ m = n
  BY Zenon DEF Unique
<1>1. /\ p \in 1..Len(infos) /\ q \in 1..Len(infos)
      /\ m \in 1..infos[p].len /\ n \in 1..infos[q].len
      /\ heap'[infos[p].arr].items[m].id = heap'[infos[q].arr].items[n].id
  BY Zenon
<1>2. heap[infos[p].arr].items[m].id = heap[infos[q].arr].items[n].id
  BY <1>1, Zenon
<1> QED
  BY <1>1, <1>2, ZenonT(40) DEF Unique

\* What a place shows is for good: groups and places are only added.
PlacesKept ==
    /\ Len(infos) <= Len(infos')
    /\ \A p \in 1..Len(infos) : \A m \in 1..infos[p].len :
          /\ m \in 1..infos'[p].len
          /\ heap'[infos'[p].arr].items[m].id = heap[infos[p].arr].items[m].id

LEMMA SamePlaces ==
    ASSUME UNCHANGED infos, Len(infos) \in Nat,
           \A p \in 1..Len(infos) : \A m \in 1..infos[p].len :
              heap'[infos[p].arr].items[m].id = heap[infos[p].arr].items[m].id
    PROVE  PlacesKept
BY DEF PlacesKept

LEMMA InitInv == Init => IndInv
<1> SUFFICES ASSUME Init PROVE IndInv
  OBVIOUS
<1>1. MainInv
  BY ConstantFacts DEF Init, MainInv, CrashOnlyByHugePriority
<1>2. HeapInv /\ Unique
  BY DEF Init, HeapInv, Unique
<1>3. ClientInv
  <2>1. [c \in Clients |-> NoReq] \in [Clients -> AllRequests]
    BY DEF AllRequests
  <2>2. Nil \in [arr : Nat, len : Nat]
    BY DEF Nil
  <2> QED
    BY <2>1, <2>2 DEF Init, ClientInv
<1>4. SliceInv /\ OptionInv
  BY DEF Init, SliceInv, OptionInv
<1> QED
  BY <1>1, <1>2, <1>3, <1>4 DEF IndInv

-----------------------------------------------------------------------------
\* Steps that leave the resources and their options alone

LEMMA SameHeap ==
    ASSUME IndInv, UNCHANGED <<infos, heap, added>>
    PROVE  HeapInv' /\ Unique'
<1>1. Resources' = Resources
  BY DEF Resources
<1>2. HeapInv'
  BY <1>1 DEF IndInv, HeapInv
<1>3. Unique'
  BY DEF IndInv, Unique
<1> QED
  BY <1>2, <1>3

LEMMA SameOptions ==
    ASSUME IndInv, UNCHANGED <<infos, heap, added, last, lost>>
    PROVE  OptionInv'
BY DEF IndInv, OptionInv

LEMMA SameClients ==
    ASSUME IndInv, UNCHANGED <<at, req, slice, reply, paused>>
    PROVE  ClientInv'
BY DEF IndInv, ClientInv

LEMMA Element == ASSUME NEW S, NEW s \in Seq(S), NEW i \in 1..Len(s) PROVE s[i] \in S
OBVIOUS

LEMMA Replaced ==
    ASSUME NEW S, NEW s \in Seq(S), NEW i \in 1..Len(s), NEW x \in S,
           NEW t, t = [s EXCEPT ![i] = x]
    PROVE  /\ t \in Seq(S) /\ Len(t) = Len(s) /\ t[i] = x
           /\ \A j \in 1..Len(s) : j # i => t[j] = s[j]
OBVIOUS

LEMMA Longer ==
    ASSUME NEW S, NEW s \in Seq(S), NEW x \in S, NEW t, t = Append(s, x)
    PROVE  /\ t \in Seq(S) /\ Len(t) = Len(s) + 1 /\ t[Len(s) + 1] = x
           /\ \A j \in 1..Len(s) : t[j] = s[j]
OBVIOUS

LEMMA SeqOfMore == ASSUME NEW S, NEW T, S \subseteq T PROVE Seq(S) \subseteq Seq(T)
OBVIOUS

\* The items of an array that a slice shows, one by one.
LEMMA Shown ==
    ASSUME HeapInv, NEW p \in 1..Len(infos), NEW n \in 1..infos[p].len
    PROVE  /\ infos[p].arr \in 1..Len(heap)
           /\ n \in 1..Len(heap[infos[p].arr].items)
           /\ heap[infos[p].arr].items[n] \in Resources
<1> DEFINE a == infos[p].arr
<1>1. /\ infos \in Seq([arr : Nat, len : 0..added])
      /\ heap \in Seq([cap : Nat, items : Seq(Resources)])
      /\ a \in 0..Len(heap)
      /\ a = 0 => infos[p].len = 0
      /\ a # 0 => infos[p].len = Len(heap[a].items)
  BY DEF HeapInv
<1>2. a # 0
  BY <1>1
<1>3. a \in 1..Len(heap) /\ n \in 1..Len(heap[a].items)
  <2>1. Len(heap) \in Nat
    BY <1>1
  <2>2. a \in 1..Len(heap)
    <3> HIDE DEF a
    <3> QED
      BY <1>1, <1>2, <2>1
  <2>3. infos[p].len = Len(heap[a].items)
    BY <1>1, <1>2
  <2> QED
    BY <2>2, <2>3, Zenon
<1>4. heap[a] \in [cap : Nat, items : Seq(Resources)]
  BY <1>1, <1>3, Element, Zenon
<1>5. heap[a].items \in Seq(Resources)
  BY <1>4
<1>6. heap[a].items[n] \in Resources
  BY <1>3, <1>5, Element, Zenon
<1> QED
  BY <1>3, <1>6

\* AddInput without append: nothing, or an empty group, is added.
LEMMA MainStep ==
    ASSUME IndInv, AddInput \/ AddFactory \/ AppendPanics
    PROVE  IndInv'
<1>1. UNCHANGED <<added, infos, heap, paused, at, req, slice, reply, last, lost>>
  BY DEF AddInput, AddFactory, AppendPanics, clientVars
<1>2. MainInv'
  <2>1. Adding' = Adding /\ Len(infos) \in Nat /\ added \in Nat
    BY <1>1, ConstantFacts DEF Adding, IndInv, HeapInv, MainInv
  <2>2. CASE AddInput
    <3>1. Adding \in Inputs
      BY <2>1, <2>2, ConstantFacts DEF AddInput, Adding, Inputs
    <3> QED
      BY <1>1, <2>1, <2>2, <3>1, ConstantFacts DEF AddInput, IndInv, MainInv, ToInt,
         CrashOnlyByHugePriority
  <2>3. CASE AddFactory
    BY <1>1, <2>1, <2>3 DEF AddFactory, IndInv, MainInv, CrashOnlyByHugePriority
  <2>4. CASE AppendPanics
    <3>1. Adding \in Inputs
      BY <2>1, <2>4, ConstantFacts DEF AppendPanics, Adding, Inputs, IndInv, MainInv
    <3> QED
      BY <1>1, <2>1, <2>4, <3>1, ConstantFacts DEF AppendPanics, IndInv, MainInv,
         CrashOnlyByHugePriority
  <2> QED
    BY <2>2, <2>3, <2>4
<1>3. SliceInv'
  BY <1>1 DEF IndInv, SliceInv, SliceOK
<1> QED
  BY <1>1, <1>2, <1>3, SameHeap, SameOptions, SameClients DEF IndInv

LEMMA AppendNilStep == IndInv /\ AppendNil => IndInv'
<1> SUFFICES ASSUME IndInv, AppendNil PROVE IndInv'
  OBVIOUS
<1>1. /\ infos' = Append(infos, Nil)
      /\ main' = IF chains <= ToInt(Priority(Adding)) THEN "factory" ELSE "append"
      /\ UNCHANGED <<added, chains, heap, paused, at, req, slice, reply, last, lost>>
      /\ main = "info"
  BY DEF AppendNil, clientVars
<1>2. /\ infos \in Seq([arr : Nat, len : 0..added]) /\ added \in Nat /\ Len(infos) \in Nat
      /\ Nil \in [arr : Nat, len : 0..added] /\ Nil.arr = 0 /\ Nil.len = 0
  BY ConstantFacts DEF IndInv, HeapInv, MainInv, Nil
<1>3. /\ infos' \in Seq([arr : Nat, len : 0..added]) /\ Len(infos') = Len(infos) + 1
      /\ infos'[Len(infos) + 1] = Nil
      /\ \A p \in 1..Len(infos) : infos'[p] = infos[p]
      /\ \A p \in 1..Len(infos') : p \in 1..Len(infos) \/ p = Len(infos) + 1
  BY <1>1, <1>2
<1>4. MainInv'
  <2>1. Adding' = Adding /\ Adding \in Inputs
    BY <1>1, <1>2, ConstantFacts DEF Adding, Inputs, IndInv, MainInv
  <2> QED
    BY <1>1, <1>2, <1>3, <2>1, ConstantFacts DEF IndInv, MainInv, ToInt, CrashOnlyByHugePriority
<1>5. HeapInv'
  <2>1. \A p \in 1..Len(infos') :
          /\ infos'[p].arr \in 0..Len(heap)
          /\ infos'[p].arr = 0 => infos'[p].len = 0
          /\ infos'[p].arr # 0 => infos'[p].len = Len(heap[infos'[p].arr].items)
    <3>1. Len(heap) \in Nat
      BY DEF IndInv, HeapInv
    <3>2. SUFFICES ASSUME NEW p \in 1..Len(infos')
                   PROVE  /\ infos'[p].arr \in 0..Len(heap)
                          /\ infos'[p].arr = 0 => infos'[p].len = 0
                          /\ infos'[p].arr # 0 => infos'[p].len = Len(heap[infos'[p].arr].items)
      BY Zenon
    <3>3. CASE p \in 1..Len(infos)
      <4>1. infos'[p] = infos[p]
        BY <1>3, <3>3
      <4> QED
        BY <3>3, <4>1 DEF IndInv, HeapInv
    <3>4. CASE p = Len(infos) + 1
      BY <1>2, <1>3, <3>1, <3>4
    <3> QED
      BY <1>3, <3>3, <3>4
  <2>2. \A p, q \in 1..Len(infos') :
          infos'[p].arr = infos'[q].arr => p = q \/ infos'[p].arr = 0
    BY <1>2, <1>3 DEF IndInv, HeapInv
  <2> QED
    <3>1. Resources' = Resources
      BY <1>1 DEF Resources
    <3> QED
      BY <1>1, <1>3, <2>1, <2>2, <3>1 DEF IndInv, HeapInv
<1>6. \A p \in 1..Len(infos') : \A n \in 1..infos'[p].len :
        p \in 1..Len(infos) /\ infos'[p] = infos[p]
  BY <1>2, <1>3, SMTT(30)
<1>7. Unique'
  BY <1>1, <1>6, SMTT(30) DEF IndInv, Unique
<1>8. OptionInv'
  BY <1>1, <1>6 DEF IndInv, OptionInv
<1>9. SliceInv'
  <2>1. ASSUME NEW c \in Clients, at'[c] = "set" PROVE SliceOK(c)'
    <3>1. SliceOK(c)
      BY <1>1, <2>1 DEF IndInv, SliceInv
    <3>2. req[c].prio \in Nat
      BY <1>1, <2>1 DEF IndInv, ClientInv, AllRequests, NoReq
    <3> QED
      BY <1>1, <1>2, <1>3, <3>1, <3>2 DEF SliceOK
  <2> QED
    BY <2>1 DEF SliceInv
<1> QED
  BY <1>1, <1>4, <1>5, <1>7, <1>8, <1>9, SameClients DEF IndInv

-----------------------------------------------------------------------------
\* append: in place or into a new array, the group at P ends up in an array B
\* of its own, with one resource more; all other places are as before.
AppendTyped ==
    /\ heap' \in Seq([cap : Nat, items : Seq(Resources')])
    /\ infos' \in Seq([arr : Nat, len : 0..added'])
GroupGrew(P, B) ==
    /\ Len(infos') = Len(infos)
    /\ infos'[P].arr = B /\ infos'[P].len = infos[P].len + 1
    /\ \A q \in 1..Len(infos) : q # P => infos'[q] = infos[q] /\ infos[q].arr # B
ArraysKept(B) ==
    /\ Len(heap) \in Nat /\ Len(heap') \in Nat /\ Len(heap') >= Len(heap)
    /\ \A a \in 1..Len(heap') : a = B \/ a \in 1..Len(heap)
    /\ \A a \in 1..Len(heap) :
          a # B => heap'[a] = heap[a]
    /\ \A a \in 1..Len(heap) :
          /\ Len(heap[a].items) \in Nat /\ Len(heap'[a].items) \in Nat
          /\ Len(heap'[a].items) >= Len(heap[a].items)
ArrayFilled(P, B) ==
    /\ Len(heap'[B].items) = infos[P].len + 1
    /\ Len(heap'[B].items) <= heap'[B].cap
    /\ heap'[B].items[infos[P].len + 1] = [id |-> Adding, opt |-> NoOption]
    /\ \A m \in 1..infos[P].len : heap'[B].items[m] = heap[infos[P].arr].items[m]

LEMMA Appended ==
    ASSUME IndInv, AppendResource
    PROVE  \E P \in 1..Len(infos), B \in 1..Len(heap') :
             P = Priority(Adding) + 1
             /\ AppendTyped /\ GroupGrew(P, B) /\ ArraysKept(B) /\ ArrayFilled(P, B)
<1> DEFINE P == Priority(Adding) + 1
           s == infos[P]
           r == [id |-> Adding, opt |-> NoOption]
           Array == [cap : Nat, items : Seq(Resources)]
<1>1. /\ Adding \in Inputs /\ added' = added + 1 /\ added \in Nat
      /\ Priority(Adding) \in Nat /\ Priority(Adding) < Len(infos)
  BY ConstantFacts DEF IndInv, MainInv, AppendResource, Adding, Inputs
<1>2. /\ infos \in Seq([arr : Nat, len : 0..added]) /\ Len(infos) \in Nat
      /\ heap \in Seq(Array) /\ Len(heap) \in Nat
  BY DEF IndInv, HeapInv
<1>3. P \in 1..Len(infos) /\ s = Info(Priority(Adding))
  BY <1>1, <1>2 DEF Info
<1>4. /\ s \in [arr : Nat, len : 0..added] /\ s.arr \in 0..Len(heap)
      /\ s.arr = 0 => s.len = 0
      /\ s.arr # 0 => s.len = Len(heap[s.arr].items)
  <2>1. s \in [arr : Nat, len : 0..added]
    BY <1>2, <1>3, Element, Zenon
  <2> QED
    BY <1>3, <2>1 DEF IndInv, HeapInv
<1>5. r \in Resources' /\ Resources \subseteq Resources'
  BY <1>1 DEF Resources, Adding
<1>6. Seq(Resources) \subseteq Seq(Resources')
  BY <1>5, SeqOfMore, Zenon
<1>7. \A a \in 1..Len(heap) : heap[a] \in Array /\ heap[a].items \in Seq(Resources)
  <2>1. \A a \in 1..Len(heap) : heap[a] \in Array
    BY <1>2, Element, Zenon
  <2> QED
    BY <2>1
<1>8. [cap : Nat, items : Seq(Resources)] \subseteq [cap : Nat, items : Seq(Resources')]
  BY <1>6
<1>9. heap \in Seq([cap : Nat, items : Seq(Resources')])
  BY <1>2, <1>8, SeqOfMore, Zenon
<1>10. \A a \in 1..Len(heap) :
          /\ Len(heap[a].items) \in Nat /\ heap[a].cap \in Nat
          /\ Len(heap[a].items) <= heap[a].cap
  <2>1. \A a \in 1..Len(heap) : Len(heap[a].items) <= heap[a].cap
    BY DEF IndInv, HeapInv
  <2> QED
    BY <1>7, <2>1
<1>11. \A q \in 1..Len(infos) : infos[q] \in [arr : Nat, len : 0..added]
  BY <1>2, Element, Zenon
<1>12. CASE HasRoom(s)
  <2> DEFINE B == s.arr
             items == Append(SubSeq(heap[B].items, 1, s.len), r)
  <2>1. B \in 1..Len(heap) /\ s.len < heap[B].cap /\ s.len = Len(heap[B].items)
    BY <1>2, <1>4, <1>12, SMTT(30) DEF HasRoom
  <2>2. /\ heap' = [heap EXCEPT ![B].items = items]
        /\ infos' = [infos EXCEPT ![P].len = @ + 1]
    BY <1>3, <1>12 DEF AppendResource
  <2>3. SubSeq(heap[B].items, 1, s.len) = heap[B].items
    BY <1>7, <2>1
  <2>4. /\ items \in Seq(Resources') /\ Len(items) = s.len + 1
        /\ items[s.len + 1] = r
        /\ \A m \in 1..s.len : items[m] = heap[B].items[m]
    <3>1. heap[B].items \in Seq(Resources')
      BY <1>6, <1>7, <2>1
    <3> HIDE DEF r
    <3> QED
      BY <1>5, <2>1, <2>3, <3>1, SMTT(30)
  <2> HIDE DEF items
  <2> DEFINE x == [heap[B] EXCEPT !.items = items]
             Array2 == [cap : Nat, items : Seq(Resources')]
  <2>a. x \in Array2 /\ heap' = [heap EXCEPT ![B] = x]
    BY <1>7, <2>1, <2>2, <2>4
  <2> HIDE DEF Array2
  <2>5. /\ Len(heap') = Len(heap) /\ heap'[B] = x
        /\ \A a \in 1..Len(heap) : a # B => heap'[a] = heap[a]
        /\ heap' \in Seq(Array2)
    <3>1. heap \in Seq(Array2)
      BY <1>9 DEF Array2
    <3> HIDE DEF x
    <3>2. B \in 1..Len(heap)
      BY <2>1
    <3> QED
      BY <2>a, <3>1, <3>2, Replaced
  <2>6. heap'[B].items = items /\ heap'[B].cap = heap[B].cap
        /\ heap'[B] \in [cap : Nat, items : Seq(Resources')]
    BY <1>7, <2>1, <2>4, <2>5, ZenonT(40)
  <2>7. ArraysKept(B)
    <3>1. \A a \in 1..Len(heap) :
            /\ Len(heap[a].items) \in Nat /\ Len(heap'[a].items) \in Nat
            /\ Len(heap'[a].items) >= Len(heap[a].items)
      <4> SUFFICES ASSUME NEW a \in 1..Len(heap)
                   PROVE  /\ Len(heap[a].items) \in Nat /\ Len(heap'[a].items) \in Nat
                          /\ Len(heap'[a].items) >= Len(heap[a].items)
        BY Zenon
      <4>1. CASE a = B
        <5>1. Len(heap[a].items) = s.len /\ s.len \in Nat
          BY <1>10, <2>1, <4>1
        <5>2. Len(heap'[a].items) = s.len + 1
          BY <2>4, <2>6, <4>1
        <5> QED
          BY <5>1, <5>2
      <4>2. CASE a # B
        <5>1. heap'[a] = heap[a]
          BY <2>5, <4>2
        <5> QED
          BY <1>10, <5>1
      <4> QED
        BY <4>1, <4>2
    <3> HIDE DEF x, B
    <3> QED
      BY <1>2, <2>5, <3>1 DEF ArraysKept
  <2>8. ArrayFilled(P, B)
    BY <1>4, <1>10, <2>1, <2>4, <2>6, SMTT(30) DEF ArrayFilled
  <2>9. /\ Len(infos') = Len(infos) /\ infos'[P] = [s EXCEPT !.len = s.len + 1]
        /\ \A q \in 1..Len(infos) : q # P => infos'[q] = infos[q]
    BY <1>2, <1>3, <2>2
  <2>10. infos'[P].arr = B /\ infos'[P].len = s.len + 1
         /\ infos'[P] \in [arr : Nat, len : 0..added']
    BY <1>1, <1>4, <2>9, SMTT(30)
  <2>11. GroupGrew(P, B)
    <3>1. B # 0
      BY <1>2, <2>1, SMTT(30)
    <3>2. \A q \in 1..Len(infos) : q # P => infos[q].arr # B
      BY <1>3, <3>1 DEF IndInv, HeapInv
    <3> HIDE DEF B, P
    <3> QED
      BY <2>9, <2>10, <3>2 DEF GroupGrew
  <2>12. AppendTyped
    <3>1. infos' \in Seq([arr : Nat, len : 0..added'])
      <4>1. [arr : Nat, len : 0..added] \subseteq [arr : Nat, len : 0..added']
        BY <1>1
      <4>2. infos \in Seq([arr : Nat, len : 0..added'])
        BY <1>2, <4>1, SeqOfMore, Zenon
      <4>3. infos' = [infos EXCEPT ![P] = infos'[P]]
        BY <1>2, <1>3, <2>2, <2>9
      <4> QED
        <5> DEFINE T == [arr : Nat, len : 0..added']
        <5> HIDE DEF T, P
        <5>1. infos \in Seq(T) /\ P \in 1..Len(infos) /\ infos'[P] \in T
          BY <1>3, <2>10, <4>2 DEF T
        <5> DEFINE x3 == infos'[P]
        <5>2. infos' = [infos EXCEPT ![P] = x3] /\ x3 \in T
          BY <4>3, <5>1
        <5> HIDE DEF x3
        <5>3. infos' \in Seq(T)
          BY <5>1, <5>2, Replaced
        <5> QED
          BY <5>3 DEF T
    <3> QED
      BY <2>5, <3>1 DEF AppendTyped, Array2
  <2> QED
    BY <1>3, <2>1, <2>5, <2>7, <2>8, <2>11, <2>12
<1>13. CASE ~HasRoom(s)
  <2> DEFINE B == Len(heap) + 1
             items == Append(Items(s), r)
  <2>1. PICK room \in 0..MaxRoom :
          heap' = Append(heap, [cap |-> s.len + 1 + room, items |-> items])
    BY <1>3, <1>13 DEF AppendResource
  <2>2. infos' = [infos EXCEPT ![P] = [arr |-> Len(heap'), len |-> s.len + 1]]
    BY <1>3, <1>13 DEF AppendResource
  <2>3. /\ items \in Seq(Resources') /\ Len(items) = s.len + 1
        /\ items[s.len + 1] = r
        /\ \A m \in 1..s.len : items[m] = heap[s.arr].items[m]
    <3>1. CASE s.arr = 0
      <4>1. Items(s) = <<>> /\ s.len = 0
        BY <1>4, <3>1 DEF Items
      <4>2. <<>> \in Seq(Resources')
        OBVIOUS
      <4> HIDE DEF r
      <4> QED
        BY <1>5, <4>1, <4>2
    <3>2. CASE s.arr # 0
      <4>1. s.arr \in 1..Len(heap) /\ s.len = Len(heap[s.arr].items)
        BY <1>2, <1>4, <3>2
      <4>2. Items(s) = heap[s.arr].items
        BY <1>7, <3>2, <4>1 DEF Items
      <4>3. heap[s.arr].items \in Seq(Resources')
        BY <1>6, <1>7, <4>1
      <4>4. r \in Resources' /\ items = Append(heap[s.arr].items, r)
        BY <1>5, <4>2, SMTT(30)
      <4> DEFINE old == heap[s.arr].items
      <4>6. r \in Resources' /\ items = Append(old, r) /\ old \in Seq(Resources')
        BY <4>3, <4>4
      <4> HIDE DEF r, items, old
      <4>7. /\ items \in Seq(Resources') /\ Len(items) = Len(old) + 1
            /\ items[Len(old) + 1] = r /\ \A m \in 1..Len(old) : items[m] = old[m]
        BY <4>6, Longer
      <4>5. /\ items \in Seq(Resources') /\ Len(items) = Len(heap[s.arr].items) + 1
            /\ items[Len(heap[s.arr].items) + 1] = r
            /\ \A m \in 1..Len(heap[s.arr].items) : items[m] = heap[s.arr].items[m]
        BY <4>7 DEF old
      <4> QED
        BY <4>1, <4>5, Zenon
    <3> QED
      BY <3>1, <3>2
  <2> HIDE DEF items
  <2>4. room \in Nat /\ s.len \in Nat
    BY <1>1, <1>4, ConstantsAssumption
  <2> DEFINE x == [cap |-> s.len + 1 + room, items |-> items]
             Array2 == [cap : Nat, items : Seq(Resources')]
  <2>a. x \in Array2
    BY <2>3, <2>4
  <2> HIDE DEF Array2
  <2>5. /\ Len(heap') = B /\ heap'[B] = x
        /\ \A a \in 1..Len(heap) : heap'[a] = heap[a]
        /\ heap' \in Seq(Array2)
    <3>1. heap \in Seq(Array2)
      BY <1>9 DEF Array2
    <3> HIDE DEF x
    <3> QED
      BY <2>1, <2>a, <3>1, Longer DEF x
  <2>6. heap'[B].items = items /\ heap'[B].cap = s.len + 1 + room
        /\ heap'[B] \in [cap : Nat, items : Seq(Resources')]
    BY <2>3, <2>4, <2>5, SMTT(30)
  <2>7. ArraysKept(B)
    <3>1. /\ Len(heap') \in Nat /\ Len(heap') >= Len(heap)
          /\ \A a \in 1..Len(heap') : a = B \/ a \in 1..Len(heap)
      BY <1>2, <2>5, SMTT(30)
    <3>2. \A a \in 1..Len(heap) : heap'[a] = heap[a] /\ Len(heap[a].items) \in Nat
      BY <1>10, <2>5
    <3> HIDE DEF B
    <3> QED
      BY <1>2, <3>1, <3>2, SMTT(30) DEF ArraysKept
  <2>8. ArrayFilled(P, B)
    BY <2>3, <2>4, <2>6 DEF ArrayFilled
  <2>9. /\ Len(infos') = Len(infos) /\ infos'[P] = [arr |-> B, len |-> s.len + 1]
        /\ \A q \in 1..Len(infos) : q # P => infos'[q] = infos[q]
    BY <1>2, <1>3, <2>2, <2>5
  <2>10. infos'[P].arr = B /\ infos'[P].len = s.len + 1
         /\ infos'[P] \in [arr : Nat, len : 0..added']
    <3>1. B \in Nat /\ s.len + 1 \in 0..added'
      BY <1>1, <1>2, <1>4, SMTT(30)
    <3> HIDE DEF B
    <3> QED
      BY <2>9, <3>1
  <2>11. GroupGrew(P, B)
    <3>1. \A q \in 1..Len(infos) : infos[q].arr # B
      BY <1>2, SMTT(30) DEF IndInv, HeapInv
    <3> QED
      BY <2>9, <2>10, <3>1 DEF GroupGrew
  <2>12. AppendTyped
    <3>1. infos' \in Seq([arr : Nat, len : 0..added'])
      <4>1. [arr : Nat, len : 0..added] \subseteq [arr : Nat, len : 0..added']
        BY <1>1
      <4>2. infos \in Seq([arr : Nat, len : 0..added'])
        BY <1>2, <4>1, SeqOfMore, Zenon
      <4>3. infos' = [infos EXCEPT ![P] = infos'[P]]
        BY <1>2, <1>3, <2>2, <2>9
      <4> QED
        <5> DEFINE T == [arr : Nat, len : 0..added']
        <5> HIDE DEF T, P
        <5>1. infos \in Seq(T) /\ P \in 1..Len(infos) /\ infos'[P] \in T
          BY <1>3, <2>10, <4>2 DEF T
        <5> DEFINE x3 == infos'[P]
        <5>2. infos' = [infos EXCEPT ![P] = x3] /\ x3 \in T
          BY <4>3, <5>1
        <5> HIDE DEF x3
        <5>3. infos' \in Seq(T)
          BY <5>1, <5>2, Replaced
        <5> QED
          BY <5>3 DEF T
    <3> QED
      BY <2>5, <3>1 DEF AppendTyped, Array2
  <2> QED
    BY <1>2, <1>3, <2>5, <2>7, <2>8, <2>11, <2>12
<1> QED
  BY <1>12, <1>13

LEMMA AppendResourceStep == IndInv /\ AppendResource => IndInv'
<1> SUFFICES ASSUME IndInv, AppendResource PROVE IndInv'
  OBVIOUS
<1>1. PICK P \in 1..Len(infos), B \in 1..Len(heap') :
             P = Priority(Adding) + 1
             /\ AppendTyped /\ GroupGrew(P, B) /\ ArraysKept(B) /\ ArrayFilled(P, B)
  BY Appended, Zenon
<1>2. /\ main = "append" /\ main' = "next" /\ added' = added + 1 /\ added \in Nat
      /\ Adding \in Inputs /\ Len(heap) \in Nat /\ Len(infos) \in Nat
      /\ UNCHANGED <<chains, at, req, slice, reply, paused, last, lost>>
  <2>1. Len(heap) \in Nat /\ Len(infos) \in Nat
    BY DEF IndInv, HeapInv
  <2> QED
    BY <2>1, ConstantFacts DEF IndInv, MainInv, AppendResource, Adding, Inputs, clientVars
<1>3. \A q \in 1..Len(infos) :
        /\ infos[q] \in [arr : Nat, len : 0..added] /\ infos[q].arr \in 0..Len(heap)
        /\ infos[q].arr = 0 => infos[q].len = 0
        /\ infos[q].arr # 0 => infos[q].len = Len(heap[infos[q].arr].items)
  <2>1. infos \in Seq([arr : Nat, len : 0..added])
    BY DEF IndInv, HeapInv
  <2>2. \A q \in 1..Len(infos) : infos[q] \in [arr : Nat, len : 0..added]
    BY <2>1, Element, Zenon
  <2> QED
    BY <2>2 DEF IndInv, HeapInv
<1>4. MainInv'
  BY <1>1, <1>2 DEF IndInv, MainInv, Inputs, Adding, GroupGrew, CrashOnlyByHugePriority
\* a place of the new groups is the new resource's, or was one before
<1>5. ASSUME NEW q \in 1..Len(infos'), NEW m \in 1..infos'[q].len
      PROVE  \/ /\ q = P /\ m = infos[P].len + 1
                /\ heap'[infos'[q].arr].items[m] = [id |-> Adding, opt |-> NoOption]
             \/ /\ q \in 1..Len(infos) /\ m \in 1..infos[q].len
                /\ heap'[infos'[q].arr].items[m] = heap[infos[q].arr].items[m]
                /\ heap[infos[q].arr].items[m] \in Resources
  <2>1. CASE q = P
    <3>1. infos[P].len \in Nat
      BY <1>3
    <3>2. CASE m = infos[P].len + 1
      BY <1>1, <2>1, <3>2 DEF GroupGrew, ArrayFilled
    <3>3. CASE m \in 1..infos[P].len
      <4>1. heap[infos[P].arr].items[m] \in Resources
        BY <3>3, Shown DEF IndInv
      <4> QED
        BY <1>1, <2>1, <3>3, <4>1 DEF GroupGrew, ArrayFilled
    <3> QED
      BY <1>1, <2>1, <3>1, <3>2, <3>3 DEF GroupGrew
  <2>2. CASE q # P
    <3>1. infos'[q] = infos[q] /\ m \in 1..infos[q].len /\ q \in 1..Len(infos)
      BY <1>1, <2>2 DEF GroupGrew
    <3>2. infos[q].arr \in 1..Len(heap) /\ heap[infos[q].arr].items[m] \in Resources
      BY <3>1, Shown DEF IndInv
    <3>3. heap'[infos[q].arr] = heap[infos[q].arr]
      BY <1>1, <2>2, <3>1, <3>2 DEF GroupGrew, ArraysKept
    <3> QED
      BY <3>1, <3>2, <3>3
  <2> QED
    BY <2>1, <2>2
<1>6. HeapInv'
  <2>1. \A a \in 1..Len(heap') : Len(heap'[a].items) <= heap'[a].cap
    BY <1>1 DEF IndInv, HeapInv, ArraysKept, ArrayFilled
  <2>2. ASSUME NEW q \in 1..Len(infos')
        PROVE  /\ infos'[q].arr \in 0..Len(heap')
               /\ infos'[q].arr = 0 => infos'[q].len = 0
               /\ infos'[q].arr # 0 => infos'[q].len = Len(heap'[infos'[q].arr].items)
    <3>1. Len(heap') \in Nat
      BY <1>1 DEF ArraysKept
    <3>2. CASE q = P
      BY <1>1, <3>1, <3>2 DEF GroupGrew, ArrayFilled
    <3>3. CASE q # P
      <4>1. infos'[q] = infos[q] /\ q \in 1..Len(infos) /\ infos[q].arr # B
        BY <1>1, <3>3 DEF GroupGrew
      <4>2. infos[q].arr \in 0..Len(heap')
        BY <1>1, <1>2, <1>3, <3>1, <4>1 DEF ArraysKept
      <4>3. infos[q].arr # 0 => heap'[infos[q].arr] = heap[infos[q].arr]
        BY <1>1, <1>2, <1>3, <4>1 DEF ArraysKept
      <4> QED
        BY <1>3, <4>1, <4>2, <4>3
    <3> QED
      BY <3>2, <3>3
  <2>3. ASSUME NEW p \in 1..Len(infos'), NEW q \in 1..Len(infos'), infos'[p].arr = infos'[q].arr
        PROVE  p = q \/ infos'[p].arr = 0
    <3>1. p \in 1..Len(infos) /\ q \in 1..Len(infos)
      BY <1>1 DEF GroupGrew
    <3>2. CASE p = P \/ q = P
      BY <1>1, <2>3, <3>1, <3>2 DEF GroupGrew
    <3>3. CASE p # P /\ q # P
      <4>1. infos'[p] = infos[p] /\ infos'[q] = infos[q]
        BY <1>1, <3>1, <3>3 DEF GroupGrew
      <4> QED
        BY <2>3, <3>1, <4>1 DEF IndInv, HeapInv
    <3> QED
      BY <3>2, <3>3
  <2> QED
    BY <1>1, <2>1, <2>2, <2>3 DEF HeapInv, AppendTyped
<1>7. Unique'
  <2> SUFFICES ASSUME NEW p \in 1..Len(infos'), NEW q \in 1..Len(infos'),
                      NEW m \in 1..infos'[p].len, NEW n \in 1..infos'[q].len,
                      heap'[infos'[p].arr].items[m].id = heap'[infos'[q].arr].items[n].id
               PROVE  p = q /\ m = n
    BY Zenon DEF Unique
  <2> DEFINE x == heap'[infos'[p].arr].items[m]
             y == heap'[infos'[q].arr].items[n]
  <2>1. \/ p = P /\ m = infos[P].len + 1 /\ x = [id |-> Adding, opt |-> NoOption]
        \/ /\ p \in 1..Len(infos) /\ m \in 1..infos[p].len
           /\ x = heap[infos[p].arr].items[m] /\ x \in Resources
    BY <1>5
  <2>2. \/ q = P /\ n = infos[P].len + 1 /\ y = [id |-> Adding, opt |-> NoOption]
        \/ /\ q \in 1..Len(infos) /\ n \in 1..infos[q].len
           /\ y = heap[infos[q].arr].items[n] /\ y \in Resources
    BY <1>5
  <2>3. \A z \in Resources : z.id # Adding
    BY <1>2 DEF Resources, Adding
  <2>4. x.id = y.id
    OBVIOUS
  <2>5. ASSUME p \in 1..Len(infos), m \in 1..infos[p].len, x = heap[infos[p].arr].items[m],
               q \in 1..Len(infos), n \in 1..infos[q].len, y = heap[infos[q].arr].items[n]
        PROVE  p = q /\ m = n
    <3>1. heap[infos[p].arr].items[m].id = heap[infos[q].arr].items[n].id
      BY <2>4, <2>5
    <3>2. /\ p \in 1..Len(infos) /\ q \in 1..Len(infos)
          /\ m \in 1..infos[p].len /\ n \in 1..infos[q].len
      BY <2>5
    <3>3. Unique
      BY DEF IndInv
    <3> QED
      BY OnePlace, <3>1, <3>2, <3>3
  <2> HIDE DEF x, y
  <2> QED
    BY <2>1, <2>2, <2>3, <2>4, <2>5, SMTT(30)
<1>8. OptionInv'
  <2>1. ASSUME NEW p \in 1..Len(infos'), NEW n \in 1..infos'[p].len,
               heap'[infos'[p].arr].items[n].id \notin lost
        PROVE  heap'[infos'[p].arr].items[n].opt = last[heap'[infos'[p].arr].items[n].id]
    <3>1. last[Adding] = NoOption
      BY <1>2 DEF IndInv, OptionInv, Adding
    <3>2. CASE heap'[infos'[p].arr].items[n] = [id |-> Adding, opt |-> NoOption]
      BY <3>1, <3>2
    <3>3. CASE /\ p \in 1..Len(infos) /\ n \in 1..infos[p].len
               /\ heap'[infos'[p].arr].items[n] = heap[infos[p].arr].items[n]
      BY <2>1, <3>3, Zenon DEF IndInv, OptionInv
    <3> QED
      BY <1>5, <3>2, <3>3, Zenon
  <2>2. \A i \in Inputs : i > added' => last[i] = NoOption
    BY <1>2 DEF IndInv, OptionInv, Inputs
  <2> QED
    BY <1>2, <2>1, <2>2, Zenon DEF IndInv, OptionInv
<1>9. SliceInv'
  <2>1. ASSUME NEW c \in Clients, at'[c] = "set" PROVE SliceOK(c)'
    <3>1. SliceOK(c) /\ slice[c] \in [arr : Nat, len : Nat]
      BY <1>2, <2>1 DEF IndInv, SliceInv, ClientInv
    <3>2. slice[c].arr \in 1..Len(heap) /\ req[c].num < slice[c].len /\ req[c].prio < Len(infos)
          /\ slice[c].len <= Len(heap[slice[c].arr].items)
      BY <3>1 DEF SliceOK
    <3>3. slice[c].arr \in 1..Len(heap')
      BY <1>1, <3>2 DEF ArraysKept
    <3>4. slice[c].len <= Len(heap'[slice[c].arr].items)
      BY <1>1, <3>1, <3>2, SMTT(30) DEF ArraysKept
    <3> QED
      BY <1>1, <1>2, <3>2, <3>3, <3>4 DEF SliceOK, GroupGrew
  <2> QED
    BY <2>1 DEF SliceInv
<1> QED
  BY <1>2, <1>4, <1>6, <1>7, <1>8, <1>9, SameClients DEF IndInv

-----------------------------------------------------------------------------
\* The handlers that do not write options

States == {"idle", "called", "listing", "stop", "resources", "set"}
Replies == {"none", "ok", "Internal", "InvalidArgument"}
Slices == [arr : Nat, len : Nat]

\* What a state asks of the request in hand.
Fits(a, r) ==
    /\ a = "listing" => r.op = "GetInputsInfo"
    /\ a = "stop" => r.op = "SetStopInput"
    /\ a \in {"resources", "set"} => r.op = "SetInputCustomOption"

LEMMA HandlerStep ==
    ASSUME IndInv, NEW c \in Clients, UNCHANGED <<mainVars, heap, last, lost>>,
           NEW a \in States, NEW r \in AllRequests, NEW s \in Slices, NEW v \in Replies,
           at' = [at EXCEPT ![c] = a], req' = [req EXCEPT ![c] = r],
           slice' = [slice EXCEPT ![c] = s], reply' = [reply EXCEPT ![c] = v],
           paused' \subseteq Nat, Fits(a, r), a = "set" => SliceOK(c)'
    PROVE  IndInv'
<1>1. MainInv'
  BY DEF IndInv, MainInv, mainVars, CrashOnlyByHugePriority, Adding
<1>2. HeapInv' /\ Unique' /\ OptionInv'
  BY SameHeap, SameOptions DEF mainVars
<1>3. ClientInv'
  BY DEF IndInv, ClientInv, States, Replies, Slices, Fits
<1>4. SliceInv'
  <2> SUFFICES ASSUME NEW d \in Clients, at'[d] = "set" PROVE SliceOK(d)'
    BY DEF SliceInv
  <2>1. CASE d = c
    BY <2>1 DEF IndInv, ClientInv
  <2>2. CASE d # c
    <3>1. at'[d] = at[d] /\ req'[d] = req[d] /\ slice'[d] = slice[d]
      BY <2>2 DEF IndInv, ClientInv
    <3>2. SliceOK(d)
      BY <3>1 DEF IndInv, SliceInv
    <3> QED
      BY <3>1, <3>2 DEF SliceOK, mainVars
  <2> QED
    BY <2>1, <2>2
<1> QED
  BY <1>1, <1>2, <1>3, <1>4 DEF IndInv

LEMMA Unchanged ==
    ASSUME NEW S, NEW T, NEW f \in [S -> T], NEW c \in S
    PROVE  f = [f EXCEPT ![c] = f[c]]
OBVIOUS

LEMMA NoReqTyped == NoReq \in AllRequests /\ NoReq.op = "none"
BY DEF NoReq, AllRequests

\* What is known of a client before any of its steps.
LEMMA ClientFacts ==
    ASSUME IndInv, NEW c \in Clients
    PROVE  /\ at[c] \in States /\ req[c] \in AllRequests /\ slice[c] \in Slices
           /\ reply[c] \in Replies /\ paused \subseteq Nat
           /\ at = [at EXCEPT ![c] = at[c]] /\ req = [req EXCEPT ![c] = req[c]]
           /\ slice = [slice EXCEPT ![c] = slice[c]]
           /\ reply = [reply EXCEPT ![c] = reply[c]]
<1>1. /\ at \in [Clients -> States] /\ req \in [Clients -> AllRequests]
      /\ slice \in [Clients -> Slices] /\ reply \in [Clients -> Replies]
      /\ paused \subseteq Nat
  BY Zenon DEF IndInv, ClientInv, States, Slices, Replies
<1> QED
  BY <1>1

LEMMA RequestFacts ==
    ASSUME NEW r \in AllRequests
    PROVE  /\ r.op = "GetInputsInfo" => r \in [op : {"GetInputsInfo"}, prio : Nat]
           /\ r.op = "SetStopInput" => r \in [op : {"SetStopInput"}, prio : Nat, stop : BOOLEAN]
           /\ r.op = "SetInputCustomOption" =>
                r \in [op : {"SetInputCustomOption"}, prio : Nat, num : Nat, value : Options]
BY DEF AllRequests, NoReq

LEMMA CallStep == ASSUME IndInv, NEW c \in Clients, Call(c) PROVE IndInv'
<1>1. PICK r \in Requests(c) : req' = [req EXCEPT ![c] = r]
  BY DEF Call
<1>2. r \in AllRequests
  <2>1. CASE c = Lister
    BY <2>1 DEF Requests, AllRequests
  <2>2. CASE c # Lister
    <3>1. CASE r \in [op : {"SetStopInput"}, prio : Prios, stop : BOOLEAN]
      BY <3>1, ConstantFacts DEF AllRequests
    <3>2. CASE r \in [op : {"SetInputCustomOption"}, prio : Prios, num : Nums,
                      value : Options]
      BY <3>2, ConstantFacts DEF AllRequests
    <3> QED
      BY <2>2, <3>1, <3>2 DEF Requests
  <2> QED
    BY <2>1, <2>2
<1>3. /\ at' = [at EXCEPT ![c] = "called"] /\ reply' = [reply EXCEPT ![c] = "none"]
      /\ UNCHANGED <<mainVars, heap, paused, slice, last, lost>>
  BY DEF Call
<1>4. "called" \in States /\ "none" \in Replies /\ Fits("called", r)
  BY DEF States, Replies, Fits
<1>5. slice' = [slice EXCEPT ![c] = slice[c]] /\ slice[c] \in Slices /\ paused' \subseteq Nat
  BY <1>3, ClientFacts
<1>6. UNCHANGED <<mainVars, heap, last, lost>>
  BY <1>3
<1> QED
  BY <1>1, <1>2, <1>3, <1>4, <1>5, <1>6, HandlerStep

LEMMA AnswerStep ==
    ASSUME IndInv, NEW c \in Clients, NEW v \in Replies, Answer(c, v),
           UNCHANGED <<mainVars, heap, slice, last, lost>>, paused' \subseteq Nat
    PROVE  IndInv'
<1>1. /\ at' = [at EXCEPT ![c] = "idle"] /\ req' = [req EXCEPT ![c] = NoReq]
      /\ reply' = [reply EXCEPT ![c] = v]
  BY DEF Answer
<1>2. slice' = [slice EXCEPT ![c] = slice[c]] /\ slice[c] \in Slices
  BY ClientFacts
<1>3. "idle" \in States /\ Fits("idle", NoReq)
  BY DEF States, Fits
<1> QED
  BY <1>1, <1>2, <1>3, NoReqTyped, HandlerStep

LEMMA ContinueStep ==
    ASSUME IndInv, NEW c \in Clients, NEW a \in States, Continue(c, a), Fits(a, req[c]),
           UNCHANGED <<mainVars, heap, paused, slice, last, lost>>, a # "set"
    PROVE  IndInv'
<1>1. /\ at' = [at EXCEPT ![c] = a] /\ req' = [req EXCEPT ![c] = req[c]]
      /\ reply' = [reply EXCEPT ![c] = reply[c]]
      /\ slice' = [slice EXCEPT ![c] = slice[c]] /\ slice[c] \in Slices
      /\ req[c] \in AllRequests /\ reply[c] \in Replies /\ paused' \subseteq Nat
  BY ClientFacts DEF Continue
<1> QED
  BY <1>1, HandlerStep

\* The steps of GetInputsInfo walk the chains.
LEMMA ListStep ==
    ASSUME IndInv, NEW c \in Clients, ListBegin(c) \/ ListChain(c) \/ ListEnd(c)
    PROVE  IndInv'
<1>1. CASE ListEnd(c)
  <2>1. Answer(c, "ok") /\ UNCHANGED <<mainVars, heap, slice, last, lost>> /\ UNCHANGED paused
    BY <1>1 DEF ListEnd
  <2>2. "ok" \in Replies /\ paused' \subseteq Nat
    BY <2>1, ClientFacts DEF Replies
  <2> QED
    BY <2>1, <2>2, AnswerStep
<1>2. CASE ListBegin(c) \/ ListChain(c)
  <2>1. req[c] \in AllRequests /\ req[c].op = "GetInputsInfo"
    BY <1>2, ClientFacts, Zenon DEF ListBegin, ListChain, Called, IndInv, ClientInv
  <2>2. req[c] \in [op : {"GetInputsInfo"}, prio : Nat]
    BY <2>1, RequestFacts
  <2>3. \E n \in Nat : req' = [req EXCEPT ![c] = [req[c] EXCEPT !.prio = n]]
    <3>1. CASE ListBegin(c)
      <4>1. req' = [req EXCEPT ![c] = [req[c] EXCEPT !.prio = 0]]
        BY <3>1 DEF ListBegin
      <4> QED
        BY <4>1
    <3>2. CASE ListChain(c)
      <4>1. req' = [req EXCEPT ![c] = [req[c] EXCEPT !.prio = req[c].prio + 1]]
        BY <3>2 DEF ListChain
      <4>2. req[c].prio + 1 \in Nat
        BY <2>2
      <4> QED
        BY <4>1, <4>2
    <3> QED
      BY <1>2, <3>1, <3>2
  <2>4. PICK n \in Nat : req' = [req EXCEPT ![c] = [req[c] EXCEPT !.prio = n]]
    BY <2>3
  <2> DEFINE r == [req[c] EXCEPT !.prio = n]
  <2>5. r \in AllRequests /\ Fits("listing", r)
    BY <2>2 DEF AllRequests, Fits
  <2>6. at' = [at EXCEPT ![c] = "listing"] /\ "listing" \in States
    BY <1>2, ClientFacts, Zenon DEF ListBegin, ListChain, States
  <2>7. UNCHANGED <<mainVars, heap, paused, slice, reply, last, lost>>
    BY <1>2, Zenon DEF ListBegin, ListChain
  <2>8. /\ slice' = [slice EXCEPT ![c] = slice[c]] /\ slice[c] \in Slices
        /\ reply' = [reply EXCEPT ![c] = reply[c]] /\ reply[c] \in Replies
        /\ paused' \subseteq Nat
    BY <2>7, ClientFacts
  <2> HIDE DEF r
  <2>9. req' = [req EXCEPT ![c] = r]
    BY <2>4 DEF r
  <2>10. UNCHANGED <<mainVars, heap, last, lost>>
    BY <2>7
  <2> QED
    BY <2>5, <2>6, <2>8, <2>9, <2>10, HandlerStep
<1> QED
  BY <1>1, <1>2

LEMMA LookUpStep ==
    ASSUME IndInv, NEW c \in Clients, LookUpToStop(c) \/ LookUpToSet(c)
    PROVE  IndInv'
<1>1. PICK a \in {"stop", "resources"} : LookUpChain(c, a) /\ Fits(a, req[c])
  BY DEF LookUpToStop, LookUpToSet, Called, Fits
<1>2. UNCHANGED <<mainVars, heap, paused, slice, last, lost>>
  BY <1>1 DEF LookUpChain
<1>3. CASE Answer(c, "InvalidArgument") \/ Answer(c, "ok")
  <2>1. paused' \subseteq Nat /\ {"InvalidArgument", "ok"} \subseteq Replies
    BY <1>2, ClientFacts DEF Replies
  <2> QED
    BY <1>2, <1>3, <2>1, AnswerStep
<1>4. CASE Continue(c, a)
  <2>1. a \in States /\ a # "set"
    BY <1>1 DEF States
  <2> QED
    BY <1>1, <1>2, <1>4, <2>1, ContinueStep
<1> QED
  BY <1>1, <1>3, <1>4 DEF LookUpChain

LEMMA SetStopInputStep == ASSUME IndInv, NEW c \in Clients, SetStopInput(c) PROVE IndInv'
<1>1. PICK v \in {"ok", "Internal"} : Answer(c, v)
  BY DEF SetStopInput
<1>2. v \in Replies /\ UNCHANGED <<mainVars, heap, slice, last, lost>>
  BY DEF SetStopInput, Replies
<1>3. paused' \subseteq Nat
  <2>1. req[c] \in AllRequests /\ req[c].op = "SetStopInput" /\ paused \subseteq Nat
    BY ClientFacts DEF SetStopInput, IndInv, ClientInv
  <2>2. req[c].prio \in Nat
    BY <2>1, RequestFacts
  <2> QED
    BY <2>1, <2>2 DEF SetStopInput
<1> QED
  BY <1>1, <1>2, <1>3, AnswerStep

LEMMA GetResourcesStep == ASSUME IndInv, NEW c \in Clients, GetResources(c) PROVE IndInv'
<1>1. UNCHANGED <<mainVars, heap, paused, last, lost>>
  BY DEF GetResources
<1>2. CASE \E v \in {"Internal", "InvalidArgument", "ok"} : Answer(c, v) /\ UNCHANGED slice
  <2>1. paused' \subseteq Nat /\ {"Internal", "InvalidArgument", "ok"} \subseteq Replies
    BY <1>1, ClientFacts DEF Replies
  <2> QED
    BY <1>1, <1>2, <2>1, AnswerStep
<1>3. CASE /\ req[c].prio < Len(infos) /\ req[c].num < Info(req[c].prio).len
           /\ slice' = [slice EXCEPT ![c] = Info(req[c].prio)] /\ Continue(c, "set")
  <2> DEFINE P == req[c].prio + 1
             s == infos[P]
  <2>1. req[c] \in AllRequests /\ req[c].op = "SetInputCustomOption"
    BY ClientFacts DEF GetResources, IndInv, ClientInv
  <2>2. req[c].prio \in Nat /\ req[c].num \in Nat
    BY <2>1, RequestFacts
  <2>3. infos \in Seq([arr : Nat, len : 0..added]) /\ Len(infos) \in Nat /\ Len(heap) \in Nat
    BY DEF IndInv, HeapInv
  <2>4. P \in 1..Len(infos) /\ s = Info(req[c].prio)
    BY <1>3, <2>2, <2>3, SMTT(30) DEF Info
  <2>5. s \in [arr : Nat, len : 0..added] /\ added \in Nat
    <3>1. added \in Nat
      BY ConstantFacts DEF IndInv, MainInv
    <3>2. s \in [arr : Nat, len : 0..added]
      BY <2>3, <2>4, Element, Zenon
    <3> QED
      BY <3>1, <3>2
  <2>6. s.len \in Nat /\ req[c].num < s.len /\ s.len # 0
    BY <1>3, <2>2, <2>4, <2>5
  <2>7. s.arr \in 1..Len(heap) /\ s.len = Len(heap[s.arr].items)
    <3>1. /\ s.arr \in 0..Len(heap) /\ (s.arr = 0 => s.len = 0)
          /\ s.arr # 0 => s.len = Len(heap[s.arr].items)
      BY <2>4, Zenon DEF IndInv, HeapInv
    <3>2. s.arr # 0
      BY <2>6, <3>1
    <3> HIDE DEF s
    <3> QED
      BY <2>3, <3>1, <3>2
  <2>8. /\ at' = [at EXCEPT ![c] = "set"] /\ req' = [req EXCEPT ![c] = req[c]]
        /\ reply' = [reply EXCEPT ![c] = reply[c]] /\ slice' = [slice EXCEPT ![c] = s]
        /\ req[c] \in AllRequests /\ reply[c] \in Replies /\ paused' \subseteq Nat
        /\ "set" \in States /\ s \in Slices /\ Fits("set", req[c])
    BY <1>1, <1>3, <2>1, <2>4, <2>5, ClientFacts DEF Continue, States, Slices, Fits
  <2> HIDE DEF P, s
  <2>9. SliceOK(c)'
    <3>1. slice'[c] = s /\ req' = req
      BY <1>3, <2>8 DEF IndInv, ClientInv, Continue
    <3>2. UNCHANGED <<heap, infos>>
      BY <1>1 DEF mainVars
    <3> QED
      BY <1>3, <2>6, <2>7, <3>1, <3>2 DEF SliceOK
  <2>10. UNCHANGED <<mainVars, heap, last, lost>>
    BY <1>1
  <2> QED
    BY <2>8, <2>9, <2>10, HandlerStep
<1>4. \/ \E v \in {"Internal", "InvalidArgument", "ok"} : Answer(c, v) /\ UNCHANGED slice
      \/ /\ ~(req[c].prio >= Len(infos)) /\ ~(req[c].num >= Info(req[c].prio).len)
         /\ slice' = [slice EXCEPT ![c] = Info(req[c].prio)] /\ Continue(c, "set")
  BY DEF GetResources
<1>5. /\ ~(req[c].prio >= Len(infos)) => req[c].prio < Len(infos)
      /\ req[c].prio \in Nat
  <2>1. req[c] \in AllRequests /\ req[c].op = "SetInputCustomOption"
    BY ClientFacts DEF GetResources, IndInv, ClientInv
  <2>2. Len(infos) \in Nat
    BY DEF IndInv, HeapInv
  <2> QED
    BY <2>1, <2>2, RequestFacts
<1>6. req[c].prio < Len(infos) /\ ~(req[c].num >= Info(req[c].prio).len)
        => req[c].num < Info(req[c].prio).len
  <2>1. req[c] \in AllRequests /\ req[c].op = "SetInputCustomOption"
    BY ClientFacts DEF GetResources, IndInv, ClientInv
  <2>2. req[c].num \in Nat /\ infos \in Seq([arr : Nat, len : 0..added]) /\ added \in Nat
    BY <2>1, RequestFacts, ConstantFacts DEF IndInv, HeapInv, MainInv
  <2>3. ASSUME req[c].prio < Len(infos) PROVE Info(req[c].prio).len \in Nat
    <3>1. req[c].prio + 1 \in 1..Len(infos)
      BY <1>5, <2>2, <2>3, SMTT(30)
    <3>2. infos[req[c].prio + 1] \in [arr : Nat, len : 0..added]
      BY <2>2, <3>1, Element, Zenon
    <3> QED
      BY <2>2, <3>2 DEF Info
  <2> QED
    BY <2>2, <2>3
<1> QED
  BY <1>2, <1>3, <1>4, <1>5, <1>6, Zenon

-----------------------------------------------------------------------------
LEMMA ResourceIds ==
    ASSUME IndInv, NEW r \in Resources
    PROVE  r.id \in 1..added /\ r.id \in Inputs /\ added \in Nat
<1>1. r.id \in 1..added /\ added \in 0..Len(FlagInputs)
  BY DEF Resources, IndInv, MainInv
<1> QED
  BY <1>1, ConstantFacts DEF Inputs

\* SetInputCustomOption writes to the array its slice names. If the group has
\* moved since, the write is lost; if not, the one place that holds the input
\* is the place that is written, as no two places hold the same input.
LEMMA WriteStep ==
    ASSUME IndInv, NEW c \in Clients, SetInputCustomOption(c)
    PROVE  IndInv' /\ PlacesKept
<1> DEFINE A == slice[c].arr
           n == req[c].num + 1
           old == heap[A].items
           i == old[n].id
           v == req[c].value
           Array == [cap : Nat, items : Seq(Resources)]
<1>1. /\ heap' = [heap EXCEPT ![A].items[n].opt = v]
      /\ last' = [last EXCEPT ![i] = v]
      /\ lost' = IF A = Info(req[c].prio).arr THEN lost \ {i} ELSE lost \cup {i}
      /\ at[c] = "set" /\ Answer(c, "ok") /\ slice' = [slice EXCEPT ![c] = Nil]
      /\ UNCHANGED <<mainVars, paused>>
  BY Zenon DEF SetInputCustomOption, Write
<1>a. lost' = IF A = Info(req[c].prio).arr THEN lost \ {i} ELSE lost \cup {i}
  BY <1>1, Zenon
<1>2. UNCHANGED <<main, added, chains, infos, paused>> /\ Resources' = Resources
  BY <1>1, Zenon DEF mainVars, Resources
<1>3. /\ at' = [at EXCEPT ![c] = "idle"] /\ req' = [req EXCEPT ![c] = NoReq]
      /\ reply' = [reply EXCEPT ![c] = "ok"]
  BY <1>1, Zenon DEF Answer
<1>4. req[c].prio \in Nat /\ req[c].num \in Nat /\ v \in Options
  <2>1. req[c] \in AllRequests /\ req[c].op = "SetInputCustomOption"
    BY <1>1, ClientFacts, Zenon DEF IndInv, ClientInv
  <2> QED
    BY <2>1, RequestFacts
<1>5. A \in 1..Len(heap) /\ n \in 1..Len(old) /\ req[c].prio + 1 \in 1..Len(infos)
      /\ old \in Seq(Resources) /\ heap[A] \in Array /\ heap \in Seq(Array)
  <2>1. heap \in Seq(Array) /\ Len(heap) \in Nat /\ Len(infos) \in Nat
    BY DEF IndInv, HeapInv
  <2>2. /\ A \in 1..Len(heap) /\ slice[c].len <= Len(old)
        /\ req[c].num < slice[c].len /\ req[c].prio < Len(infos)
    BY <1>1, Zenon DEF IndInv, SliceInv, SliceOK
  <2>3. heap[A] \in Array
    BY <2>1, <2>2, Element, Zenon
  <2>4. old \in Seq(Resources) /\ Len(old) \in Nat /\ slice[c].len \in Nat
    BY <2>3, ClientFacts DEF Slices
  <2> QED
    <3> HIDE DEF A, old, Array
    <3> QED
      BY <1>4, <2>1, <2>2, <2>3, <2>4, SMTT(30)
<1>6. old[n] \in Resources /\ i \in 1..added /\ i \in Inputs
  <2>1. old[n] \in Resources
    BY <1>5, Element
  <2> QED
    BY <2>1, ResourceIds, Zenon
<1> DEFINE x == [old[n] EXCEPT !.opt = v]
           new == [old EXCEPT ![n] = x]
           y == [heap[A] EXCEPT !.items = new]
<1>7. x \in Resources /\ x.id = i /\ x.opt = v
  BY <1>4, <1>6, Zenon DEF Resources
<1>8. /\ new \in Seq(Resources) /\ Len(new) = Len(old) /\ new[n] = x
      /\ \A j \in 1..Len(old) : j # n => new[j] = old[j]
  <2> HIDE DEF x, old, n
  <2> QED
    BY <1>5, <1>7, Replaced
<1>9. y \in Array /\ y.items = new /\ y.cap = heap[A].cap
  <2> HIDE DEF new
  <2> QED
    BY <1>5, <1>8, Zenon
<1>10. heap' = [heap EXCEPT ![A] = y]
  BY <1>1, Zenon
<1>11. /\ heap' \in Seq(Array) /\ Len(heap') = Len(heap) /\ heap'[A] = y
       /\ \A a \in 1..Len(heap) : a # A => heap'[a] = heap[a]
  <2> HIDE DEF y, Array, A
  <2> QED
    BY <1>5, <1>9, <1>10, Replaced
<1>12. \A a \in 1..Len(heap) :
         /\ Len(heap'[a].items) = Len(heap[a].items) /\ heap'[a].cap = heap[a].cap
         /\ \A j \in 1..Len(heap[a].items) : heap'[a].items[j].id = heap[a].items[j].id
  <2> SUFFICES ASSUME NEW a \in 1..Len(heap)
               PROVE  /\ Len(heap'[a].items) = Len(heap[a].items) /\ heap'[a].cap = heap[a].cap
                      /\ \A j \in 1..Len(heap[a].items) :
                            heap'[a].items[j].id = heap[a].items[j].id
    BY Zenon
  <2>1. CASE a # A
    BY <1>11, <2>1, Zenon
  <2>2. CASE a = A
    <3>1. \A j \in 1..Len(old) : new[j].id = old[j].id
      BY <1>7, <1>8, Zenon
    <3> HIDE DEF new, y
    <3> QED
      BY <1>8, <1>9, <1>11, <2>2, <3>1, Zenon
  <2> QED
    BY <2>1, <2>2
<1>13. MainInv'
  BY <1>2 DEF IndInv, MainInv, CrashOnlyByHugePriority, Adding
<1>14. HeapInv'
  <2>1. \A p \in 1..Len(infos) :
          /\ infos[p].arr \in 0..Len(heap')
          /\ infos[p].arr = 0 => infos[p].len = 0
          /\ infos[p].arr # 0 => infos[p].len = Len(heap'[infos[p].arr].items)
    <3> SUFFICES ASSUME NEW p \in 1..Len(infos)
                 PROVE  /\ infos[p].arr \in 0..Len(heap')
                        /\ infos[p].arr = 0 => infos[p].len = 0
                        /\ infos[p].arr # 0 => infos[p].len = Len(heap'[infos[p].arr].items)
      BY Zenon
    <3>1. /\ infos[p].arr \in 0..Len(heap)
          /\ infos[p].arr = 0 => infos[p].len = 0
          /\ infos[p].arr # 0 => infos[p].len = Len(heap[infos[p].arr].items)
      BY Zenon DEF IndInv, HeapInv
    <3>2. infos[p].arr # 0 => infos[p].arr \in 1..Len(heap)
      BY <3>1
    <3> QED
      BY <1>11, <1>12, <3>1, <3>2, Zenon
  <2>2. \A a \in 1..Len(heap') : Len(heap'[a].items) <= heap'[a].cap
    BY <1>11, <1>12, Zenon DEF IndInv, HeapInv
  <2>3. /\ infos \in Seq([arr : Nat, len : 0..added])
        /\ \A p, q \in 1..Len(infos) : infos[p].arr = infos[q].arr => p = q \/ infos[p].arr = 0
    BY DEF IndInv, HeapInv
  <2> HIDE DEF y
  <2> QED
    BY <1>2, <1>11, <2>1, <2>2, <2>3 DEF HeapInv
\* the places the groups show: the written one, or as before
<1>15. ASSUME NEW p \in 1..Len(infos), NEW m \in 1..infos[p].len
       PROVE  /\ infos[p].arr \in 1..Len(heap)
              /\ m \in 1..Len(heap[infos[p].arr].items)
              /\ heap'[infos[p].arr].items[m].id = heap[infos[p].arr].items[m].id
              /\ \/ infos[p].arr = A /\ m = n /\ heap'[infos[p].arr].items[m] = x
                 \/ heap'[infos[p].arr].items[m] = heap[infos[p].arr].items[m]
  <2>1. infos[p].arr \in 1..Len(heap) /\ m \in 1..Len(heap[infos[p].arr].items)
    BY Shown DEF IndInv
  <2>2. heap'[infos[p].arr].items[m].id = heap[infos[p].arr].items[m].id
    BY <1>12, <2>1, SMTT(30)
  <2>3. CASE infos[p].arr = A
    <3>1. heap'[A].items = new /\ m \in 1..Len(old)
      BY <1>9, <1>11, <2>1, <2>3, Zenon
    <3>2. CASE m = n
      BY <1>8, <2>1, <2>2, <2>3, <3>1, <3>2, Zenon
    <3>3. CASE m # n
      <4>1. new[m] = old[m]
        BY <1>8, <3>1, <3>3, Zenon
      <4> QED
        BY <2>1, <2>2, <2>3, <3>1, <4>1, Zenon
    <3> QED
      BY <3>2, <3>3, Zenon
  <2>4. CASE infos[p].arr # A
    BY <1>11, <2>1, <2>2, <2>4, ZenonT(40)
  <2> QED
    BY <2>3, <2>4, Zenon
<1>16. Unique'
  <2>1. \A p \in 1..Len(infos) : \A m \in 1..infos[p].len :
          heap'[infos[p].arr].items[m].id = heap[infos[p].arr].items[m].id
    BY <1>15, Zenon
  <2>2. Unique /\ UNCHANGED infos
    BY <1>2, Zenon DEF IndInv
  <2> QED
    BY <2>1, <2>2, SameIds, Zenon
<1>17. OptionInv'
  <2>1. last \in [Inputs -> Options \cup {NoOption}]
        /\ \A j \in Inputs : j > added => last[j] = NoOption
    BY DEF IndInv, OptionInv
  <2>2. last' \in [Inputs -> Options \cup {NoOption}] /\ last'[i] = v
        /\ \A j \in Inputs : j # i => last'[j] = last[j]
    BY <1>1, <1>4, <1>6, <2>1, Zenon
  <2>3. \A j \in Inputs : j > added => last'[j] = NoOption
    <3>1. i \in 1..added
      BY <1>6, Zenon
    <3> HIDE DEF i
    <3>2. added \in Nat /\ \A j \in Inputs : j \in Nat
      BY ConstantFacts, SMTT(30) DEF IndInv, MainInv, Inputs
    <3> QED
      BY <2>1, <2>2, <3>1, <3>2, SMTT(30)
  <2>4. ASSUME NEW p \in 1..Len(infos), NEW m \in 1..infos[p].len,
               heap'[infos[p].arr].items[m].id \notin lost'
        PROVE  heap'[infos[p].arr].items[m].opt = last'[heap'[infos[p].arr].items[m].id]
    <3> DEFINE z == heap[infos[p].arr].items[m]
               w == heap'[infos[p].arr].items[m]
    <3>1. z \in Resources /\ w.id = z.id /\ (w = x \/ w = z)
      BY <1>15, Shown, Zenon DEF IndInv
    <3>2. z.id \in Inputs
      BY <3>1, ResourceIds, Zenon
    <3>3. CASE w.id = i
      <4>1. A = Info(req[c].prio).arr
        <5>1. w.id \notin lost'
          BY <2>4
        <5> HIDE DEF w, i, A
        <5> QED
          BY <1>a, <3>3, <5>1
      <4>2. p = req[c].prio + 1 /\ m = n
        <5> DEFINE q == req[c].prio + 1
        <5>1. q \in 1..Len(infos) /\ infos[q].arr = A /\ A # 0
          BY <1>5, <4>1, SMTT(30) DEF Info
        <5>2. infos[q].len = Len(old)
          BY <5>1 DEF IndInv, HeapInv
        <5>3. n \in 1..infos[q].len
          BY <1>5, <5>2
        <5>4. heap[infos[p].arr].items[m].id = heap[infos[q].arr].items[n].id
          BY <3>1, <3>3, <5>1, Zenon
        <5> HIDE DEF q, n
        <5>5. p = q /\ m = n
          BY <5>1, <5>3, <5>4 DEF IndInv, Unique
        <5> QED
          BY <5>5 DEF q
      <4>3. w = x
        <5>1. infos[p].arr = A
          BY <4>1, <4>2 DEF Info
        <5> HIDE DEF new, x
        <5>2. w = new[n]
          BY <1>9, <1>11, <4>2, <5>1
        <5> QED
          BY <1>8, <5>2
      <4> QED
        BY <1>7, <2>2, <3>3, <4>3, Zenon
    <3>4. CASE w.id # i
      <4>1. w = z
        BY <1>7, <3>1, <3>4, Zenon
      <4>2. z.id \notin lost
        <5>1. w.id \notin lost'
          BY <2>4
        <5> HIDE DEF w, z, i, A
        <5> QED
          BY <1>a, <3>4, <4>1, <5>1
      <4>3. z.opt = last[z.id]
        BY <4>2 DEF IndInv, OptionInv
      <4> QED
        BY <2>2, <3>2, <3>4, <4>1, <4>3, Zenon
    <3> QED
      BY <3>3, <3>4
  <2> QED
    BY <1>2, <2>2, <2>3, <2>4, ZenonT(40) DEF OptionInv
<1>18. ClientInv'
  BY <1>2, <1>3, <1>1, NoReqTyped, ZenonT(40) DEF IndInv, ClientInv, Nil
<1>19. SliceInv'
  <2> SUFFICES ASSUME NEW d \in Clients, at'[d] = "set" PROVE SliceOK(d)'
    BY DEF SliceInv
  <2>1. d # c /\ at[d] = "set" /\ req'[d] = req[d] /\ slice'[d] = slice[d]
    BY <1>1, <1>3, Zenon DEF IndInv, ClientInv
  <2>2. SliceOK(d)
    BY <2>1 DEF IndInv, SliceInv
  <2> QED
    BY <1>2, <1>11, <1>12, <2>1, <2>2, Zenon DEF SliceOK
<1>20. PlacesKept
  <2>1. \A p \in 1..Len(infos) : \A m \in 1..infos[p].len :
          heap'[infos[p].arr].items[m].id = heap[infos[p].arr].items[m].id
    BY <1>15, Zenon
  <2>2. infos' = infos /\ Len(infos) \in Nat
    BY <1>2 DEF IndInv, HeapInv
  <2> QED
    BY <2>1, <2>2, SamePlaces, Zenon
<1> QED
  BY <1>13, <1>14, <1>16, <1>17, <1>18, <1>19, <1>20 DEF IndInv

-----------------------------------------------------------------------------
LEMMA StepInv == IndInv /\ [Next]_vars => IndInv'
<1> SUFFICES ASSUME IndInv, [Next]_vars PROVE IndInv'
  OBVIOUS
<1>1. CASE Main
  BY <1>1, MainStep, AppendNilStep, AppendResourceStep DEF Main
<1>2. ASSUME NEW c \in Clients, Call(c) \/ Handle(c) PROVE IndInv'
  BY <1>2, CallStep, ListStep, LookUpStep, SetStopInputStep, GetResourcesStep, WriteStep
     DEF Handle
<1>3. CASE UNCHANGED vars
  <2>1. /\ UNCHANGED <<main, added, chains, infos, heap, paused, at, req, slice, reply>>
        /\ UNCHANGED <<last, lost>>
    BY <1>3 DEF vars
  <2>2. MainInv'
    BY <2>1 DEF IndInv, MainInv, CrashOnlyByHugePriority, Adding
  <2>3. SliceInv'
    BY <2>1 DEF IndInv, SliceInv, SliceOK
  <2> QED
    BY <2>1, <2>2, <2>3, SameHeap, SameOptions, SameClients DEF IndInv
<1> QED
  BY <1>1, <1>2, <1>3 DEF Next

\* The inductive invariant holds throughout.
THEOREM Invariance == Spec => []IndInv
BY InitInv, StepInv, PTL DEF Spec

\* Whatever the command line and the clients do, every variable keeps its type
\* (AddInput, ffstream.go:83-102, and the handlers of the inputs).
THEOREM TypeCorrect == Spec => []TypeOK
<1>1. IndInv => TypeOK
  <2> SUFFICES ASSUME IndInv PROVE TypeOK
    OBVIOUS
  <2>1. added \in 0..Len(FlagInputs) /\ added \in Nat /\ chains \in Nat
        /\ main \in {"next", "factory", "info", "append", "error", "crashed"}
    <3>1. Len(infos) \in Nat
      BY DEF IndInv, HeapInv
    <3> QED
      BY <3>1, ConstantFacts DEF IndInv, MainInv
  <2>2. \A p \in DOMAIN infos :
          infos[p].arr \in 0..Len(heap) /\ infos[p].len \in 0..Len(FlagInputs)
    <3>1. infos \in Seq([arr : Nat, len : 0..added])
      BY DEF IndInv, HeapInv
    <3>2. \A p \in 1..Len(infos) : infos[p] \in [arr : Nat, len : 0..added]
      BY <3>1, Element, Zenon
    <3>3. \A p \in 1..Len(infos) : infos[p].len \in 0..Len(FlagInputs)
      BY <2>1, <3>2, ConstantFacts
    <3> QED
      BY <3>1, <3>3 DEF IndInv, HeapInv
  <2>3. \A a \in DOMAIN heap : Len(heap[a].items) <= heap[a].cap
    <3>1. heap \in Seq([cap : Nat, items : Seq(Resources)])
      BY DEF IndInv, HeapInv
    <3>2. DOMAIN heap = 1..Len(heap)
      BY <3>1
    <3> QED
      BY <3>2, Zenon DEF IndInv, HeapInv
  <2>4. paused \subseteq Nat /\ \A c \in Clients : at[c] \in States /\ reply[c] \in Replies
    BY ClientFacts DEF IndInv, ClientInv
  <2> QED
    BY <2>1, <2>2, <2>3, <2>4 DEF TypeOK, States, Replies
<1> QED
  BY <1>1, Invariance, PTL

\* AddInput never finds its two lists out of step, so its "internal error" is
\* never returned (ffstream.go:92-94).
THEOREM NoInternalErrors == Spec => []NoInternalError
<1>1. IndInv => NoInternalError
  <2>1. IndInv => Len(infos) \in Nat
    BY DEF IndInv, HeapInv
  <2> QED
    BY <2>1 DEF IndInv, MainInv, NoInternalError
<1> QED
  BY <1>1, Invariance, PTL

\* AddInput's index expression fails for no priority that is an int
\* (ffstream.go:96-100).
THEOREM HugePriorityOnly == Spec => []CrashOnlyByHugePriority
<1>1. IndInv => CrashOnlyByHugePriority
  BY DEF IndInv, MainInv
<1> QED
  BY <1>1, Invariance, PTL

\* An acknowledged input option is the one shown, but for the one that was
\* written to an array append had abandoned (grpc_server.go, SetInputCustomOption).
THEOREM AckedVisible == Spec => []AckedOptionVisible
<1>1. IndInv => AckedOptionVisible
  <2> SUFFICES ASSUME IndInv, NEW p \in DOMAIN infos, NEW n \in 1..infos[p].len,
                      Items(infos[p])[n].id \notin lost
               PROVE  Items(infos[p])[n].opt = last[Items(infos[p])[n].id]
    BY DEF AckedOptionVisible
  <2>1. p \in 1..Len(infos)
    BY DEF IndInv, HeapInv
  <2>2. infos[p].arr \in 1..Len(heap) /\ n \in 1..Len(heap[infos[p].arr].items)
    BY <2>1, Shown DEF IndInv
  <2>3. infos[p].len = Len(heap[infos[p].arr].items) /\ infos[p].arr # 0
    <3>1. infos[p].arr # 0
      BY <2>2
    <3> QED
      BY <2>1, <3>1, Zenon DEF IndInv, HeapInv
  <2>4. heap[infos[p].arr].items \in Seq(Resources)
    <3>1. heap \in Seq([cap : Nat, items : Seq(Resources)])
      BY DEF IndInv, HeapInv
    <3>2. heap[infos[p].arr] \in [cap : Nat, items : Seq(Resources)]
      BY <2>2, <3>1, Element, Zenon
    <3> QED
      BY <3>2
  <2>5. Items(infos[p])[n] = heap[infos[p].arr].items[n]
    BY <2>2, <2>3, <2>4 DEF Items
  <2> QED
    BY <2>1, <2>5 DEF IndInv, OptionInv
<1> QED
  BY <1>1, Invariance, PTL

-----------------------------------------------------------------------------
\* The groups: each shows inputs of its own priority, in the order of the
\* command line, and every input registered is in one.
Id(p, m) == heap[infos[p].arr].items[m].id
GroupInv ==
    /\ \A p \in 1..Len(infos) : \A m \in 1..infos[p].len : Priority(Id(p, m)) = p - 1
    /\ \A p \in 1..Len(infos) : \A m, n \in 1..infos[p].len : m < n => Id(p, m) < Id(p, n)
    /\ \A i \in 1..added : \E p \in 1..Len(infos) : \E m \in 1..infos[p].len : Id(p, m) = i

LEMMA AppendPlaces ==
    ASSUME IndInv, GroupInv, AppendResource
    PROVE  PlacesKept /\ GroupInv'
<1>1. PICK P \in 1..Len(infos), B \in 1..Len(heap') :
             P = Priority(Adding) + 1
             /\ AppendTyped /\ GroupGrew(P, B) /\ ArraysKept(B) /\ ArrayFilled(P, B)
  BY Appended, Zenon
<1>2. added' = added + 1 /\ added \in Nat /\ Len(infos) \in Nat /\ Len(infos') = Len(infos)
  <2>1. Len(infos) \in Nat
    BY DEF IndInv, HeapInv
  <2> QED
    BY <1>1, <2>1, ConstantFacts DEF IndInv, MainInv, AppendResource, GroupGrew
<1>3. Priority(Adding) = P - 1
  <2>1. Adding \in Inputs
    BY ConstantFacts DEF IndInv, MainInv, AppendResource, Adding, Inputs
  <2>2. Priority(Adding) \in Nat
    BY <2>1, ConstantFacts
  <2> QED
    BY <1>1, <2>2
<1>4. \A q \in 1..Len(infos) : infos[q].len \in Nat
  <2>1. infos \in Seq([arr : Nat, len : 0..added])
    BY DEF IndInv, HeapInv
  <2>2. \A q \in 1..Len(infos) : infos[q] \in [arr : Nat, len : 0..added]
    BY <2>1, Element, Zenon
  <2> QED
    BY <1>2, <2>2
<1>a. PICK N \in Nat : N = infos[P].len
  BY <1>4
<1>b. /\ infos'[P].arr = B /\ infos'[P].len = N + 1
      /\ heap'[B].items[N + 1].id = Adding
      /\ \A m \in 1..N : heap'[B].items[m] = heap[infos[P].arr].items[m]
  BY <1>1, <1>a DEF GroupGrew, ArrayFilled
\* the old places are kept
<1>5. ASSUME NEW q \in 1..Len(infos), NEW m \in 1..infos[q].len
      PROVE  m \in 1..infos'[q].len /\ Id(q, m)' = Id(q, m)
  <2>1. CASE q = P
    BY <1>a, <1>b, <2>1 DEF Id
  <2>2. CASE q # P
    <3>1. infos'[q] = infos[q] /\ infos[q].arr # B
      BY <1>1, <2>2 DEF GroupGrew
    <3>2. infos[q].arr \in 1..Len(heap)
      BY Shown DEF IndInv
    <3>3. heap'[infos[q].arr] = heap[infos[q].arr]
      BY <1>1, <3>1, <3>2 DEF ArraysKept
    <3> QED
      BY <3>1, <3>3 DEF Id
  <2> QED
    BY <2>1, <2>2
\* and there is one new one
<1>6. N + 1 \in 1..infos'[P].len /\ Id(P, N + 1)' = Adding
  BY <1>b DEF Id
<1>7. ASSUME NEW q \in 1..Len(infos'), NEW m \in 1..infos'[q].len
      PROVE  q \in 1..Len(infos) /\ (m \in 1..infos[q].len \/ (q = P /\ m = N + 1))
  <2>a. q \in 1..Len(infos)
    BY <1>2
  <2>1. CASE q = P
    <3>1. m \in 1..(N + 1)
      BY <1>b, <2>1
    <3>2. m \in 1..N \/ m = N + 1
      BY <3>1
    <3> QED
      BY <1>a, <2>a, <2>1, <3>2
  <2>2. CASE q # P
    <3>1. infos'[q] = infos[q]
      BY <1>1, <2>a, <2>2 DEF GroupGrew
    <3> QED
      BY <2>a, <3>1
  <2> QED
    BY <2>1, <2>2
<1>8. \A q \in 1..Len(infos) : \A m \in 1..infos[q].len : Id(q, m) \in 1..added
  <2> SUFFICES ASSUME NEW q \in 1..Len(infos), NEW m \in 1..infos[q].len
               PROVE  Id(q, m) \in 1..added
    BY Zenon
  <2>1. heap[infos[q].arr].items[m] \in Resources
    BY Shown DEF IndInv
  <2> QED
    BY <2>1 DEF Resources, Id
<1>9. PlacesKept
  BY <1>2, <1>5 DEF PlacesKept, Id
<1>10. \A q \in 1..Len(infos') : \A m \in 1..infos'[q].len : Priority(Id(q, m)') = q - 1
  <2> SUFFICES ASSUME NEW q \in 1..Len(infos'), NEW m \in 1..infos'[q].len
               PROVE  Priority(Id(q, m)') = q - 1
    BY Zenon
  <2>1. CASE m \in 1..infos[q].len
    BY <1>5, <1>7, <2>1 DEF GroupInv
  <2>2. CASE q = P /\ m = N + 1
    BY <1>3, <1>6, <2>2
  <2> QED
    BY <1>7, <2>1, <2>2
<1>11. \A q \in 1..Len(infos') : \A m, n \in 1..infos'[q].len :
          m < n => Id(q, m)' < Id(q, n)'
  <2> SUFFICES ASSUME NEW q \in 1..Len(infos'), NEW m \in 1..infos'[q].len,
                      NEW n \in 1..infos'[q].len, m < n
               PROVE  Id(q, m)' < Id(q, n)'
    BY Zenon
  <2>1. q \in 1..Len(infos) /\ m \in 1..infos[q].len
    <3>1. CASE q = P
      BY <1>a, <1>b, <3>1
    <3>2. CASE q # P
      BY <1>7, <3>2
    <3> QED
      BY <3>1, <3>2
  <2>2. CASE n \in 1..infos[q].len
    BY <1>5, <2>1, <2>2 DEF GroupInv
  <2>3. CASE q = P /\ n = N + 1
    <3>1. Id(q, n)' = added + 1 /\ Id(q, m)' \in 1..added
      BY <1>5, <1>6, <1>8, <2>1, <2>3 DEF Adding
    <3> QED
      BY <1>2, <3>1
  <2> QED
    BY <1>7, <2>2, <2>3
<1>12. \A i \in 1..added' : \E q \in 1..Len(infos') : \E m \in 1..infos'[q].len : Id(q, m)' = i
  <2> SUFFICES ASSUME NEW i \in 1..added'
               PROVE  \E q \in 1..Len(infos') : \E m \in 1..infos'[q].len : Id(q, m)' = i
    BY Zenon
  <2>1. CASE i \in 1..added
    <3>1. PICK q \in 1..Len(infos) : \E m \in 1..infos[q].len : Id(q, m) = i
      BY <2>1 DEF GroupInv
    <3>2. PICK m \in 1..infos[q].len : Id(q, m) = i
      BY <3>1
    <3> QED
      BY <1>2, <1>5, <3>2
  <2>2. CASE i = Adding
    BY <1>2, <1>6, <2>2
  <2> QED
    BY <1>2, <2>1, <2>2 DEF Adding
<1> QED
  BY <1>9, <1>10, <1>11, <1>12 DEF GroupInv, Id, Priority

\* Every other step leaves the groups alone, adds an empty one or sets an option.
LEMMA KeptGroups ==
    ASSUME IndInv, GroupInv, PlacesKept, added' = added,
           \A p \in 1..Len(infos') : \A m \in 1..infos'[p].len :
              p \in 1..Len(infos) /\ m \in 1..infos[p].len
    PROVE  GroupInv'
<1>1. ASSUME NEW p \in 1..Len(infos'), NEW m \in 1..infos'[p].len
      PROVE  p \in 1..Len(infos) /\ m \in 1..infos[p].len /\ Id(p, m)' = Id(p, m)
  BY DEF PlacesKept, Id
<1>2. \A p \in 1..Len(infos') : \A m \in 1..infos'[p].len : Priority(Id(p, m)') = p - 1
  BY <1>1 DEF GroupInv
<1>3. \A p \in 1..Len(infos') : \A m, n \in 1..infos'[p].len : m < n => Id(p, m)' < Id(p, n)'
  BY <1>1 DEF GroupInv
<1>4. \A i \in 1..added' : \E p \in 1..Len(infos') : \E m \in 1..infos'[p].len : Id(p, m)' = i
  <2> SUFFICES ASSUME NEW i \in 1..added
               PROVE  \E p \in 1..Len(infos') : \E m \in 1..infos'[p].len : Id(p, m)' = i
    BY Zenon
  <2>a. PICK p \in 1..Len(infos) : \E m \in 1..infos[p].len : Id(p, m) = i
    BY DEF GroupInv
  <2>1. PICK m \in 1..infos[p].len : Id(p, m) = i
    BY <2>a
  <2>2. p \in 1..Len(infos') /\ m \in 1..infos'[p].len /\ Id(p, m)' = i
    <3>1. Len(infos) \in Nat /\ Len(infos) <= Len(infos') /\ Len(infos') \in Nat
      BY DEF IndInv, HeapInv, PlacesKept
    <3> QED
      BY <2>1, <3>1 DEF PlacesKept, Id
  <2> QED
    BY <2>2
<1> QED
  BY <1>2, <1>3, <1>4 DEF GroupInv, Id, Priority

LEMMA GroupStep ==
    ASSUME IndInv, GroupInv, [Next]_vars
    PROVE  PlacesKept /\ GroupInv'
<1>1. Len(infos) \in Nat
  BY DEF IndInv, HeapInv
<1>2. CASE AppendResource
  BY <1>2, AppendPlaces
<1>3. CASE AppendNil
  <2>1. /\ infos' = Append(infos, Nil) /\ infos \in Seq([arr : Nat, len : 0..added])
        /\ UNCHANGED <<heap, added>> /\ Nil.len = 0
    BY <1>3 DEF AppendNil, IndInv, HeapInv, Nil
  <2>2. Len(infos') = Len(infos) + 1 /\ \A p \in 1..Len(infos) : infos'[p] = infos[p]
    BY <2>1
  <2>3. \A p \in 1..Len(infos') : \A m \in 1..infos'[p].len : p \in 1..Len(infos)
    <3> SUFFICES ASSUME NEW p \in 1..Len(infos'), NEW m \in 1..infos'[p].len,
                        p = Len(infos) + 1
                 PROVE  FALSE
      BY <1>1, <2>2
    <3>1. infos'[p] = Nil
      BY <2>1
    <3> QED
      BY <2>1, <3>1
  <2>4. PlacesKept
    BY <1>1, <2>1, <2>2 DEF PlacesKept
  <2>5. \A p \in 1..Len(infos') : \A m \in 1..infos'[p].len :
          p \in 1..Len(infos) /\ m \in 1..infos[p].len
    BY <2>2, <2>3
  <2> QED
    BY <2>1, <2>4, <2>5, KeptGroups
<1>4. CASE \E c \in Clients : SetInputCustomOption(c)
  <2>1. PlacesKept /\ UNCHANGED <<infos, added>>
    BY <1>4, WriteStep DEF SetInputCustomOption, mainVars
  <2>2. \A p \in 1..Len(infos') : \A m \in 1..infos'[p].len :
          p \in 1..Len(infos) /\ m \in 1..infos[p].len
    BY <2>1
  <2> QED
    BY <2>1, <2>2, KeptGroups
<1>5. CASE UNCHANGED <<infos, heap, added>>
  <2>1. PlacesKept
    BY <1>1, <1>5, SamePlaces
  <2>2. \A p \in 1..Len(infos') : \A m \in 1..infos'[p].len :
          p \in 1..Len(infos) /\ m \in 1..infos[p].len
    BY <1>5
  <2> QED
    BY <1>5, <2>1, <2>2, KeptGroups
<1>6. CASE AddInput \/ AddFactory \/ AppendPanics \/ UNCHANGED vars
  BY <1>5, <1>6 DEF AddInput, AddFactory, AppendPanics, vars
<1>7. ASSUME NEW c \in Clients, Call(c) \/ Handle(c), ~SetInputCustomOption(c)
      PROVE  UNCHANGED <<infos, heap, added>>
  BY <1>7 DEF Handle, Call, ListBegin, ListChain, ListEnd, LookUpToStop, LookUpToSet, LookUpChain,
     SetStopInput, GetResources, mainVars
<1> QED
  BY <1>2, <1>3, <1>4, <1>5, <1>6, <1>7 DEF Next, Main

-----------------------------------------------------------------------------
\* What GetInputsInfo has collected: places that show what it says, one after
\* the other, and every input it had to see, up to the chain it has reached.
Entries == [prio : Nat, num : Nat, id : Nat]
EntryShown(e) ==
    /\ e.prio + 1 \in 1..Len(infos) /\ e.num + 1 \in 1..infos[e.prio + 1].len
    /\ Id(e.prio + 1, e.num + 1) = e.id
Before(d, e) == d.prio < e.prio \/ (d.prio = e.prio /\ d.num < e.num)
InOrder(L) == \A k, l \in 1..Len(L) : k < l => Before(L[k], L[l])
Listed(L) == L \in Seq(Entries) /\ InOrder(L) /\ \A k \in 1..Len(L) : EntryShown(L[k])

Lists(L, i) == \E k \in 1..Len(L) : L[k].id = i
ListsAll(L, s) == \A i \in 1..s : Lists(L, i)

\* A walk that has collected L of the first s inputs, and is at chain n.
WalkedTo(L, s, n) ==
    /\ n \in Nat
    /\ \A k \in 1..Len(L) : L[k].prio < n
    /\ \A i \in 1..s : Priority(i) < n => Lists(L, i)

ListInv ==
    /\ DOMAIN listing = Clients /\ DOMAIN seen = Clients
    /\ at[Lister] \in {"idle", "called", "listing"}
    /\ at[Lister] = "called" => req[Lister].op = "GetInputsInfo" /\ listing[Lister] = <<>>
    /\ seen[Lister] \in 0..added
    /\ Listed(listing[Lister])
    /\ at[Lister] = "listing" => WalkedTo(listing[Lister], seen[Lister], req[Lister].prio)
    /\ at[Lister] = "idle" /\ reply[Lister] = "ok" => ListsAll(listing[Lister], seen[Lister])

LEMMA ListedKept ==
    ASSUME NEW L, Listed(L), PlacesKept, Len(infos) \in Nat, Len(infos') \in Nat
    PROVE  Listed(L)'
<1>1. ASSUME NEW k \in 1..Len(L) PROVE EntryShown(L[k])'
  <2>1. EntryShown(L[k])
    BY DEF Listed
  <2>2. PICK p \in 1..Len(infos) : p = L[k].prio + 1
    BY <2>1 DEF EntryShown
  <2>3. PICK m \in 1..infos[p].len : m = L[k].num + 1
    BY <2>1, <2>2 DEF EntryShown
  <2>4. p \in 1..Len(infos') /\ m \in 1..infos'[p].len
        /\ heap'[infos'[p].arr].items[m].id = heap[infos[p].arr].items[m].id
    BY DEF PlacesKept
  <2>5. heap[infos[p].arr].items[m].id = L[k].id
    BY <2>1, <2>2, <2>3, Zenon DEF EntryShown, Id
  <2> QED
    BY <2>2, <2>3, <2>4, <2>5, Zenon DEF EntryShown, Id
<1> QED
  BY <1>1, Zenon DEF Listed

\* Steps of everybody else.
LEMMA ListerAside ==
    ASSUME ListInv, PlacesKept, added \in Nat, added' \in Nat, added <= added',
           Len(infos) \in Nat, Len(infos') \in Nat,
           DOMAIN listing' = DOMAIN listing, DOMAIN seen' = DOMAIN seen,
           listing'[Lister] = listing[Lister], seen'[Lister] = seen[Lister],
           at'[Lister] = at[Lister], req'[Lister] = req[Lister],
           reply'[Lister] = reply[Lister]
    PROVE  ListInv'
<1>1. PICK L : L = listing[Lister]
  OBVIOUS
<1>2. Listed(L)'
  BY <1>1, ListedKept DEF ListInv
<1>3. seen'[Lister] \in 0..added'
  BY DEF ListInv
<1>4. DOMAIN listing' = Clients /\ DOMAIN seen' = Clients
  BY DEF ListInv
<1>5. Listed(listing[Lister])'
  <2>1. listing'[Lister] = L
    BY <1>1
  <2> QED
    BY <1>2, <2>1, Zenon DEF Listed, EntryShown, InOrder, Before, Id
<1>6. at'[Lister] = "listing" => WalkedTo(listing'[Lister], seen'[Lister], req'[Lister].prio)
  BY Zenon DEF ListInv
<1>7. at'[Lister] = "idle" /\ reply'[Lister] = "ok" => ListsAll(listing'[Lister], seen'[Lister])
  BY Zenon DEF ListInv
<1>8. /\ at'[Lister] \in {"idle", "called", "listing"}
      /\ at'[Lister] = "called" => req'[Lister].op = "GetInputsInfo" /\ listing'[Lister] = <<>>
  BY DEF ListInv
<1> QED
  BY <1>3, <1>4, <1>5, <1>6, <1>7, <1>8, Zenon DEF ListInv, WalkedTo, ListsAll, Lists, Priority

\* The resources a group shows.
LEMMA GroupItems ==
    ASSUME IndInv, NEW p \in 1..Len(infos)
    PROVE  /\ Items(infos[p]) \in Seq(Resources)
           /\ Len(Items(infos[p])) = infos[p].len
           /\ \A m \in 1..infos[p].len : Items(infos[p])[m].id = Id(p, m)
<1>1. /\ infos[p].arr \in 0..Len(heap) /\ (infos[p].arr = 0 => infos[p].len = 0)
      /\ infos[p].arr # 0 => infos[p].len = Len(heap[infos[p].arr].items)
  BY DEF IndInv, HeapInv
<1>2. CASE infos[p].arr = 0
  BY <1>1, <1>2 DEF Items
<1>3. CASE infos[p].arr # 0
  <2> DEFINE items == heap[infos[p].arr].items
  <2>1. infos[p].arr \in 1..Len(heap)
    <3>1. Len(heap) \in Nat
      BY DEF IndInv, HeapInv
    <3> QED
      BY <1>1, <1>3, <3>1
  <2>2. items \in Seq(Resources)
    <3>1. heap \in Seq([cap : Nat, items : Seq(Resources)])
      BY DEF IndInv, HeapInv
    <3>2. heap[infos[p].arr] \in [cap : Nat, items : Seq(Resources)]
      BY <2>1, <3>1, Element, Zenon
    <3> QED
      BY <3>2
  <2>3. Items(infos[p]) = SubSeq(items, 1, infos[p].len) /\ infos[p].len = Len(items)
    BY <1>1, <1>3 DEF Items
  <2> HIDE DEF items
  <2>4. Items(infos[p]) = items
    BY <2>2, <2>3
  <2> QED
    BY <2>2, <2>3, <2>4 DEF items, Id
<1> QED
  BY <1>2, <1>3

LEMMA Joined ==
    ASSUME NEW S, NEW s \in Seq(S), NEW t \in Seq(S)
    PROVE  /\ s \o t \in Seq(S) /\ Len(s \o t) = Len(s) + Len(t)
           /\ \A k \in 1..Len(s) : k \in 1..Len(s \o t) /\ (s \o t)[k] = s[k]
           /\ \A k \in 1..Len(t) :
                Len(s) + k \in 1..Len(s \o t) /\ (s \o t)[Len(s) + k] = t[k]
           /\ \A k \in 1..Len(s \o t) :
                k \in 1..Len(s) \/ \E j \in 1..Len(t) : k = Len(s) + j
<1>1. /\ s \o t \in Seq(S) /\ Len(s \o t) = Len(s) + Len(t)
      /\ Len(s) \in Nat /\ Len(t) \in Nat
  OBVIOUS
<1>2. \A k \in 1..Len(s) : k \in 1..Len(s \o t) /\ (s \o t)[k] = s[k]
  BY <1>1
<1>3. \A k \in 1..Len(t) :
                Len(s) + k \in 1..Len(s \o t) /\ (s \o t)[Len(s) + k] = t[k]
  BY <1>1
<1>4. ASSUME NEW k \in 1..Len(s \o t), ~(k \in 1..Len(s))
      PROVE  k - Len(s) \in 1..Len(t) /\ k = Len(s) + (k - Len(s))
  BY <1>1, <1>4
<1> QED
  BY <1>1, <1>2, <1>3, <1>4

\* Appending a chain's places.
LEMMA JoinedWalk ==
    ASSUME NEW L, NEW P \in Nat, NEW s \in Nat, NEW N \in Seq(Entries),
           Listed(L), WalkedTo(L, s, P),
           \A k \in 1..Len(N) : N[k].prio = P /\ N[k].num = k - 1 /\ EntryShown(N[k]),
           \A i \in 1..s : Priority(i) \in Nat /\ (Priority(i) = P => Lists(N, i))
    PROVE  Listed(L \o N) /\ WalkedTo(L \o N, s, P + 1)
<1> DEFINE M == L \o N
<1>1. L \in Seq(Entries) /\ Len(L) \in Nat
  BY DEF Listed
<1>2. /\ M \in Seq(Entries) /\ Len(M) = Len(L) + Len(N)
      /\ \A k \in 1..Len(L) : k \in 1..Len(M) /\ M[k] = L[k]
      /\ \A k \in 1..Len(N) : Len(L) + k \in 1..Len(M) /\ M[Len(L) + k] = N[k]
      /\ \A k \in 1..Len(M) : k \in 1..Len(L) \/ \E j \in 1..Len(N) : k = Len(L) + j
  BY <1>1, Joined
<1> HIDE DEF M
<1>3. \A k \in 1..Len(M) : EntryShown(M[k])
  <2> SUFFICES ASSUME NEW k \in 1..Len(M) PROVE EntryShown(M[k])
    OBVIOUS
  <2>1. CASE k \in 1..Len(L)
    BY <1>2, <2>1, Zenon DEF Listed
  <2>2. ASSUME NEW j \in 1..Len(N), k = Len(L) + j PROVE EntryShown(M[k])
    BY <1>2, <2>2, Zenon
  <2> QED
    BY <1>2, <2>1, <2>2
<1>4. \A k \in 1..Len(M) : M[k].prio < P + 1
  <2> SUFFICES ASSUME NEW k \in 1..Len(M) PROVE M[k].prio < P + 1
    OBVIOUS
  <2>1. CASE k \in 1..Len(L)
    <3>1. L[k].prio < P /\ L[k] \in Entries /\ M[k] = L[k]
      BY <1>1, <1>2, <2>1 DEF WalkedTo
    <3>2. L[k].prio \in Nat
      BY <3>1 DEF Entries
    <3>3. L[k].prio < P + 1
      BY <3>1, <3>2
    <3> QED
      BY <3>1, <3>3, Zenon
  <2>2. ASSUME NEW j \in 1..Len(N), k = Len(L) + j PROVE M[k].prio < P + 1
    <3>1. M[k].prio = P
      BY <1>2, <2>2, Zenon
    <3>2. P < P + 1
      OBVIOUS
    <3> QED
      BY <3>1, <3>2, Zenon
  <2> QED
    BY <1>2, <2>1, <2>2
<1>5. InOrder(M)
  <2> SUFFICES ASSUME NEW k \in 1..Len(M), NEW l \in 1..Len(M), k < l
               PROVE  Before(M[k], M[l])
    BY DEF InOrder
  <2>1. CASE l \in 1..Len(L)
    <3>1. k \in 1..Len(L)
      BY <1>1, <2>1
    <3> QED
      BY <1>2, <2>1, <3>1 DEF Listed, InOrder
  <2>2. ASSUME NEW j \in 1..Len(N), l = Len(L) + j PROVE Before(M[k], M[l])
    <3>1. M[l].prio = P /\ M[l].num = j - 1
      BY <1>2, <2>2
    <3>2. CASE k \in 1..Len(L)
      BY <1>2, <3>1, <3>2 DEF WalkedTo, Before
    <3>3. ASSUME NEW i \in 1..Len(N), k = Len(L) + i PROVE Before(M[k], M[l])
      <4>1. M[k].prio = P /\ M[k].num = i - 1
        BY <1>2, <3>3
      <4>2. i < j
        BY <1>1, <2>2, <3>3
      <4> QED
        BY <3>1, <4>1, <4>2 DEF Before
    <3> QED
      BY <1>2, <3>2, <3>3
  <2> QED
    BY <1>2, <2>1, <2>2
<1>6. \A i \in 1..s : Priority(i) < P + 1 => Lists(M, i)
  <2> SUFFICES ASSUME NEW i \in 1..s, Priority(i) < P + 1 PROVE Lists(M, i)
    OBVIOUS
  <2>1. CASE Priority(i) < P
    <3>1. PICK k \in 1..Len(L) : L[k].id = i
      BY <2>1 DEF WalkedTo, Lists
    <3> QED
      BY <1>2, <3>1 DEF Lists
  <2>2. CASE Priority(i) = P
    <3>1. PICK k \in 1..Len(N) : N[k].id = i
      BY <2>2 DEF Lists
    <3>2. Len(L) + k \in 1..Len(M) /\ M[Len(L) + k].id = i
      BY <1>2, <3>1
    <3> QED
      BY <3>2 DEF Lists
  <2> QED
    BY <2>1, <2>2
<1> QED
  BY <1>2, <1>3, <1>4, <1>5, <1>6 DEF Listed, WalkedTo, M

-----------------------------------------------------------------------------
LEMMA InitLists == Init => GroupInv /\ ListInv
<1> SUFFICES ASSUME Init PROVE GroupInv /\ ListInv
  OBVIOUS
<1>1. GroupInv
  BY DEF Init, GroupInv
<1>2. /\ listing[Lister] = <<>> /\ seen[Lister] = 0 /\ at[Lister] = "idle"
      /\ reply[Lister] = "none" /\ added = 0
      /\ DOMAIN listing = Clients /\ DOMAIN seen = Clients
  BY ConstantFacts DEF Init
<1>3. Listed(listing[Lister])
  BY <1>2 DEF Listed, InOrder
<1> QED
  BY <1>1, <1>2, <1>3 DEF ListInv

\* Where the groups have the inputs registered so far.
LEMMA InGroup ==
    ASSUME IndInv, GroupInv, NEW i \in 1..added
    PROVE  \E p \in 1..Len(infos) : \E m \in 1..infos[p].len :
              Id(p, m) = i /\ Priority(i) = p - 1
<1>1. PICK p \in 1..Len(infos) : \E m \in 1..infos[p].len : Id(p, m) = i
  BY DEF GroupInv
<1>2. PICK m \in 1..infos[p].len : Id(p, m) = i
  BY <1>1
<1>3. Priority(Id(p, m)) = p - 1
  BY DEF GroupInv
<1> QED
  BY <1>2, <1>3

LEMMA SameListed ==
    ASSUME NEW L, Listed(L), UNCHANGED <<infos, heap>>
    PROVE  Listed(L)'
BY Zenon DEF Listed, EntryShown, Id

LEMMA CallLists ==
    ASSUME IndInv, ListInv, Call(Lister)
    PROVE  ListInv'
<1>1. Lister \in Clients /\ DOMAIN at = Clients /\ DOMAIN req = Clients
  BY ConstantFacts DEF IndInv, ClientInv
<1>2. /\ at'[Lister] = "called" /\ req'[Lister].op = "GetInputsInfo"
      /\ listing'[Lister] = <<>> /\ seen'[Lister] = added /\ added' = added
      /\ DOMAIN listing' = Clients /\ DOMAIN seen' = Clients
  BY <1>1 DEF Call, Requests, ListInv, mainVars
<1>3. Listed(listing[Lister])'
  BY <1>2 DEF Listed, InOrder
<1>4. seen'[Lister] \in 0..added'
  BY <1>2, ConstantFacts DEF IndInv, MainInv
<1> QED
  BY <1>2, <1>3, <1>4 DEF ListInv

LEMMA PriorityOfSeen ==
    ASSUME IndInv, NEW s \in 0..added, NEW i \in 1..s
    PROVE  i \in 1..added /\ Priority(i) \in Nat
<1>1. i \in 1..added /\ i \in Inputs
  BY ConstantFacts DEF IndInv, MainInv, Inputs
<1> QED
  BY <1>1, ConstantFacts

LEMMA BeginLists ==
    ASSUME IndInv, ListInv, ListBegin(Lister)
    PROVE  ListInv'
<1>1. Lister \in Clients /\ DOMAIN at = Clients /\ DOMAIN req = Clients
  BY ConstantFacts DEF IndInv, ClientInv
<1>2. /\ at'[Lister] = "listing" /\ req'[Lister].prio = 0
      /\ UNCHANGED <<listing, seen, added, infos, heap>> /\ listing[Lister] = <<>>
  <2>1. at[Lister] = "called" /\ req' = [req EXCEPT ![Lister].prio = 0]
    BY DEF ListBegin, Called
  <2>2. req'[Lister].prio = 0
    <3>1. req[Lister] \in [op : {"GetInputsInfo"}, prio : Nat]
      <4>1. req[Lister] \in AllRequests /\ req[Lister].op = "GetInputsInfo"
        BY <1>1, <2>1 DEF IndInv, ClientInv, ListInv
      <4> QED
        BY <4>1 DEF AllRequests, NoReq
    <3> QED
      BY <1>1, <2>1, <3>1
  <2> QED
    BY <1>1, <2>1, <2>2 DEF ListBegin, ListInv, mainVars
<1>3. Listed(listing[Lister])'
  BY <1>2 DEF Listed, InOrder
<1>4. WalkedTo(listing[Lister], seen[Lister], req[Lister].prio)'
  <2>1. \A i \in 1..seen[Lister] : ~(Priority(i) < 0)
    BY PriorityOfSeen DEF ListInv
  <2> QED
    BY <1>2, <2>1 DEF WalkedTo, Priority
<1>5. seen'[Lister] \in 0..added'
  BY <1>2 DEF ListInv
<1> QED
  BY <1>2, <1>3, <1>4, <1>5 DEF ListInv

LEMMA ChainLists ==
    ASSUME IndInv, GroupInv, ListInv, ListChain(Lister)
    PROVE  ListInv'
<1>1. Lister \in Clients /\ DOMAIN at = Clients /\ DOMAIN req = Clients
      /\ DOMAIN listing = Clients /\ DOMAIN seen = Clients
  BY ConstantFacts DEF IndInv, ClientInv, ListInv
<1>2. PICK L : L = listing[Lister]
  OBVIOUS
<1>3. PICK P \in Nat : P = req[Lister].prio
  BY DEF ListInv, ListChain, WalkedTo
<1>4. PICK s \in 0..added : s = seen[Lister]
  BY DEF ListInv
<1>5. Listed(L) /\ WalkedTo(L, s, P)
  BY <1>2, <1>3, <1>4, Zenon DEF ListInv, ListChain
<1>6. PICK group : group = IF P >= Len(infos) THEN <<>> ELSE Items(Info(P))
  OBVIOUS
<1>7. PICK N : N = [n \in 1..Len(group) |-> [prio |-> P, num |-> n - 1, id |-> group[n].id]]
  OBVIOUS
<1>8. Len(infos) \in Nat /\ added \in Nat
  BY ConstantFacts DEF IndInv, HeapInv, MainInv
<1>9. \A i \in 1..s : Priority(i) \in Nat
  BY PriorityOfSeen
<1>10. /\ N \in Seq(Entries)
       /\ \A k \in 1..Len(N) : N[k].prio = P /\ N[k].num = k - 1 /\ EntryShown(N[k])
       /\ \A i \in 1..s : Priority(i) = P => Lists(N, i)
  <2>1. CASE P >= Len(infos)
    <3>1. N = <<>>
      BY <1>6, <1>7, <2>1
    <3>2. ASSUME NEW i \in 1..s PROVE Priority(i) # P
      <4>1. i \in 1..added
        BY PriorityOfSeen
      <4>2. PICK p \in 1..Len(infos) : Priority(i) = p - 1
        BY <4>1, InGroup
      <4> QED
        BY <1>8, <2>1, <4>2
    <3> QED
      BY <3>1, <3>2
  <2>2. CASE P < Len(infos)
    <3> DEFINE q == P + 1
    <3>1. q \in 1..Len(infos) /\ group = Items(infos[q])
      BY <1>6, <1>8, <2>2 DEF Info
    <3>2. /\ group \in Seq(Resources) /\ Len(group) = infos[q].len
          /\ \A m \in 1..infos[q].len : group[m].id = Id(q, m)
      BY <3>1, GroupItems
    <3>3. Len(group) \in Nat /\ \A k \in 1..Len(group) : group[k].id \in Nat
      <4>1. \A k \in 1..Len(group) : group[k] \in Resources
        BY <3>2, Element, Zenon
      <4> QED
        BY <1>8, <3>2, <4>1 DEF Resources
    <3>4. /\ N \in Seq(Entries) /\ Len(N) = Len(group)
          /\ \A k \in 1..Len(N) : N[k] = [prio |-> P, num |-> k - 1, id |-> group[k].id]
      <4>1. \A k \in 1..Len(group) :
              [prio |-> P, num |-> k - 1, id |-> group[k].id] \in Entries
        BY <3>3 DEF Entries
      <4> QED
        BY <1>7, <3>3, <4>1
    <3>5. ASSUME NEW k \in 1..Len(N)
          PROVE  N[k].prio = P /\ N[k].num = k - 1 /\ N[k].id = Id(q, k)
      <4>1. k \in 1..infos[q].len /\ group[k].id = Id(q, k)
        BY <3>2, <3>4
      <4>2. N[k] = [prio |-> P, num |-> k - 1, id |-> group[k].id]
        BY <3>4, Zenon
      <4> QED
        BY <4>1, <4>2
    <3>6. ASSUME NEW k \in 1..Len(N) PROVE EntryShown(N[k])
      <4>1. k \in Nat /\ (k - 1) + 1 = k /\ k \in 1..infos[q].len
        BY <3>2, <3>3, <3>4
      <4> QED
        BY <3>1, <3>5, <4>1 DEF EntryShown
    <3>7. ASSUME NEW i \in 1..s, Priority(i) = P PROVE Lists(N, i)
      <4>1. i \in 1..added
        BY PriorityOfSeen
      <4>2. PICK p \in 1..Len(infos) : \E m \in 1..infos[p].len :
                Id(p, m) = i /\ Priority(i) = p - 1
        BY <4>1, InGroup
      <4>3. PICK m \in 1..infos[p].len : Id(p, m) = i /\ Priority(i) = p - 1
        BY <4>2
      <4>4. p = q
        BY <1>8, <3>7, <4>3
      <4>5. m \in 1..Len(N) /\ N[m].id = i
        BY <3>2, <3>4, <3>5, <4>3, <4>4
      <4> QED
        BY <4>5 DEF Lists
    <3> QED
      BY <3>4, <3>5, <3>6, <3>7
  <2> QED
    BY <1>8, <2>1, <2>2
<1>11. Listed(L \o N) /\ WalkedTo(L \o N, s, P + 1)
  <2>1. s \in Nat /\ \A i \in 1..s : Priority(i) \in Nat /\ (Priority(i) = P => Lists(N, i))
    BY <1>8, <1>9, <1>10
  <2> QED
    BY <1>5, <1>10, <2>1, JoinedWalk
<1>12. PICK M : M = L \o N
  OBVIOUS
<1>13. /\ listing' = [listing EXCEPT ![Lister] = L \o N] /\ listing'[Lister] = M
       /\ DOMAIN listing' = Clients
  BY <1>1, <1>2, <1>3, <1>6, <1>7, <1>12 DEF ListChain
<1>14. req'[Lister].prio = P + 1
  <2>1. at[Lister] = "listing" /\ req' = [req EXCEPT ![Lister].prio = @ + 1]
    BY DEF ListChain
  <2>2. req[Lister] \in [op : {"GetInputsInfo"}, prio : Nat]
    <3>1. req[Lister] \in AllRequests /\ req[Lister].op = "GetInputsInfo"
      BY <1>1, <2>1 DEF IndInv, ClientInv
    <3> QED
      BY <3>1 DEF AllRequests, NoReq
  <2> QED
    BY <1>1, <1>3, <2>1, <2>2
<1>15. at' = at /\ at[Lister] = "listing" /\ UNCHANGED <<seen, added, infos, heap>>
  BY DEF ListChain, mainVars
<1>16. Listed(listing[Lister])'
  <2>1. Listed(M)'
    BY <1>11, <1>12, <1>15, SameListed
  <2>2. listing'[Lister] = M
    BY <1>13
  <2> QED
    BY <2>1, <2>2, Zenon DEF Listed, EntryShown, InOrder, Before, Id
<1>17. WalkedTo(listing[Lister], seen[Lister], req[Lister].prio)'
  <2>1. WalkedTo(M, s, P + 1)
    BY <1>11, <1>12
  <2> QED
    BY <1>4, <1>13, <1>14, <1>15, <2>1, Zenon DEF WalkedTo, Lists, Priority
<1> QED
  BY <1>1, <1>4, <1>13, <1>15, <1>16, <1>17 DEF ListInv

LEMMA EndLists ==
    ASSUME IndInv, GroupInv, ListInv, ListEnd(Lister)
    PROVE  ListInv'
<1>1. Lister \in Clients /\ DOMAIN at = Clients /\ DOMAIN req = Clients /\ DOMAIN reply = Clients
  BY ConstantFacts DEF IndInv, ClientInv
<1>2. /\ at[Lister] = "listing" /\ req[Lister].prio >= chains
      /\ UNCHANGED <<listing, seen, added, infos, heap>> /\ at'[Lister] = "idle"
  BY <1>1 DEF ListEnd, Answer, mainVars
<1>3. ASSUME NEW i \in 1..seen[Lister] PROVE Lists(listing[Lister], i)
  <2>1. seen[Lister] \in 0..added
    BY DEF ListInv
  <2>2. i \in 1..added
    BY <2>1, PriorityOfSeen
  <2>3. PICK p \in 1..Len(infos) : Priority(i) = p - 1
    BY <2>2, InGroup
  <2>4. Len(infos) \in Nat /\ chains >= Len(infos) /\ chains \in Nat
    BY DEF IndInv, MainInv, HeapInv
  <2>5. req[Lister].prio \in Nat
    BY <1>2 DEF ListInv, WalkedTo
  <2>6. Priority(i) < req[Lister].prio
    BY <1>2, <2>3, <2>4, <2>5
  <2> QED
    BY <1>2, <2>6 DEF ListInv, WalkedTo
<1>4. ListsAll(listing[Lister], seen[Lister])'
  BY <1>2, <1>3 DEF ListsAll, Lists
<1>5. PICK L : L = listing[Lister]
  OBVIOUS
<1>6. Listed(listing[Lister])'
  <2>1. Listed(L)'
    BY <1>2, <1>5, SameListed DEF ListInv
  <2>2. listing'[Lister] = L
    BY <1>2, <1>5
  <2> QED
    BY <2>1, <2>2, Zenon DEF Listed, EntryShown, InOrder, Before, Id
<1> QED
  BY <1>2, <1>4, <1>6 DEF ListInv

LEMMA ListsStep == IndInv /\ GroupInv /\ ListInv /\ [Next]_vars => ListInv'
<1> SUFFICES ASSUME IndInv, GroupInv, ListInv, [Next]_vars PROVE ListInv'
  OBVIOUS
<1>1. PlacesKept
  BY GroupStep
<1>2. /\ Len(infos) \in Nat /\ added \in Nat /\ Len(infos') \in Nat /\ added' \in Nat
  <2>1. IndInv'
    BY StepInv
  <2> QED
    BY <2>1, ConstantFacts DEF IndInv, HeapInv, MainInv
<1>3. Lister \in Clients /\ DOMAIN at = Clients /\ DOMAIN req = Clients /\ DOMAIN reply = Clients
      /\ DOMAIN listing = Clients /\ DOMAIN seen = Clients
  BY ConstantFacts DEF IndInv, ClientInv, ListInv
<1>4. ASSUME added <= added', DOMAIN listing' = Clients, DOMAIN seen' = Clients,
             listing'[Lister] = listing[Lister], seen'[Lister] = seen[Lister],
             at'[Lister] = at[Lister], req'[Lister] = req[Lister],
             reply'[Lister] = reply[Lister]
      PROVE  ListInv'
  BY <1>1, <1>2, <1>3, <1>4, ListerAside
<1>5. CASE Main \/ UNCHANGED vars
  <2>1. UNCHANGED clientVars /\ (added' = added \/ added' = added + 1)
    BY <1>5 DEF Main, AddInput, AddFactory, AppendNil, AppendResource, AppendPanics, vars,
       clientVars
  <2>2. added <= added' /\ UNCHANGED <<at, req, listing, seen, reply>>
    BY <1>2, <2>1 DEF clientVars
  <2> QED
    BY <1>3, <1>4, <2>2
<1>6. ASSUME NEW c \in Clients, c # Lister, Call(c) \/ Handle(c) PROVE ListInv'
  <2>1. added' = added
    BY <1>6 DEF Call, Handle, ListBegin, ListChain, ListEnd, LookUpToStop, LookUpToSet,
       LookUpChain, SetStopInput, GetResources, SetInputCustomOption, mainVars
  <2>2. /\ seen' = seen \/ seen' = [seen EXCEPT ![c] = added]
        /\ listing' = listing \/ \E l : listing' = [listing EXCEPT ![c] = l]
    BY <1>6 DEF Call, Handle, ListBegin, ListChain, ListEnd, LookUpToStop, LookUpToSet,
       LookUpChain, SetStopInput, GetResources, SetInputCustomOption, mainVars
  <2>3. /\ at'[Lister] = at[Lister] /\ req'[Lister] = req[Lister]
        /\ reply'[Lister] = reply[Lister]
    <3>1. CASE Call(c)
      BY <1>3, <1>6, <3>1 DEF Call
    <3>2. CASE ListBegin(c) \/ ListChain(c) \/ ListEnd(c)
      BY <1>3, <1>6, <3>2 DEF ListBegin, ListChain, ListEnd, Answer
    <3>3. CASE LookUpToStop(c) \/ LookUpToSet(c)
      BY <1>3, <1>6, <3>3 DEF LookUpToStop, LookUpToSet, LookUpChain, Answer, Continue
    <3>4. CASE SetStopInput(c)
      BY <1>3, <1>6, <3>4 DEF SetStopInput, Answer
    <3>5. CASE GetResources(c)
      BY <1>3, <1>6, <3>5, Zenon DEF GetResources, Answer, Continue
    <3>6. CASE SetInputCustomOption(c)
      BY <1>3, <1>6, <3>6 DEF SetInputCustomOption, Answer
    <3> QED
      BY <1>6, <3>1, <3>2, <3>3, <3>4, <3>5, <3>6 DEF Handle
  <2>4. /\ DOMAIN listing' = Clients /\ DOMAIN seen' = Clients
        /\ listing'[Lister] = listing[Lister] /\ seen'[Lister] = seen[Lister]
    BY <1>3, <1>6, <2>2
  <2> QED
    BY <1>2, <1>4, <2>1, <2>3, <2>4
<1>7. CASE Call(Lister)
  BY <1>7, CallLists
<1>8. CASE Handle(Lister)
  <2>1. ListBegin(Lister) \/ ListChain(Lister) \/ ListEnd(Lister)
    BY <1>8 DEF ListInv, Handle, LookUpToStop, LookUpToSet, SetStopInput, GetResources,
       SetInputCustomOption, Called
  <2> QED
    BY <2>1, BeginLists, ChainLists, EndLists
<1> QED
  BY <1>5, <1>6, <1>7, <1>8 DEF Next

\* The groups and the listing hold what they should throughout.
THEOREM ListInvariance == Spec => [](IndInv /\ GroupInv /\ ListInv)
<1>1. Init => IndInv /\ GroupInv /\ ListInv
  BY InitInv, InitLists
<1>2. IndInv /\ GroupInv /\ ListInv /\ [Next]_vars => (IndInv /\ GroupInv /\ ListInv)'
  BY StepInv, GroupStep, ListsStep
<1> QED
  BY <1>1, <1>2, PTL DEF Spec

\* Each group shows inputs of its own priority, in the order they were typed,
\* and every input registered is in one, while an input is being added as well
\* (AddInput, ffstream.go:83-102); GroupsAgree follows from it below.
THEOREM GroupContents == Spec => []GroupInv
BY ListInvariance, PTL

\* A finished listing shows every input registered before the call, none twice,
\* in priority order, where the setters find it (GetInputsInfo, grpc_server.go).
THEOREM ListingsFaithful == Spec => []ListingFaithful
<1>1. IndInv /\ GroupInv /\ ListInv => ListingFaithful
  <2> SUFFICES ASSUME IndInv, GroupInv, ListInv, at[Lister] = "idle", reply[Lister] = "ok"
               PROVE  /\ 1..seen[Lister] \subseteq {e.id : e \in ToSet(listing[Lister])}
                      /\ \A m, n \in DOMAIN listing[Lister] : m < n =>
                           /\ listing[Lister][m].prio <= listing[Lister][n].prio
                           /\ listing[Lister][m].id # listing[Lister][n].id
                      /\ \A e \in ToSet(listing[Lister]) :
                           Items(Info(e.prio))[e.num + 1].id = e.id
    BY Zenon DEF ListingFaithful
  <2>1. PICK L : L = listing[Lister]
    OBVIOUS
  <2>2. /\ L \in Seq(Entries) /\ Len(L) \in Nat /\ DOMAIN L = 1..Len(L)
        /\ InOrder(L) /\ \A k \in 1..Len(L) : EntryShown(L[k]) /\ L[k] \in Entries
    BY <2>1 DEF ListInv, Listed
  <2>3. ToSet(L) = {L[k] : k \in 1..Len(L)}
    BY <2>2 DEF ToSet
  <2>4. 1..seen[Lister] \subseteq {e.id : e \in ToSet(L)}
    <3>1. ASSUME NEW i \in 1..seen[Lister] PROVE \E e \in ToSet(L) : e.id = i
      <4>1. PICK k \in 1..Len(L) : L[k].id = i
        BY <2>1 DEF ListInv, ListsAll, Lists
      <4> QED
        BY <2>3, <4>1
    <3> QED
      BY <3>1
  <2>5. ASSUME NEW m \in 1..Len(L), NEW n \in 1..Len(L), m < n
        PROVE  L[m].prio <= L[n].prio /\ L[m].id # L[n].id
    <3>1. Before(L[m], L[n])
      BY <2>2, <2>5 DEF InOrder
    <3>2. /\ L[m].prio \in Nat /\ L[n].prio \in Nat /\ L[m].num \in Nat /\ L[n].num \in Nat
      BY <2>2 DEF Entries
    <3>3. L[m].prio <= L[n].prio /\ (L[m].prio # L[n].prio \/ L[m].num # L[n].num)
      BY <3>1, <3>2 DEF Before
    <3>4. PICK p \in 1..Len(infos) : p = L[m].prio + 1
      BY <2>2 DEF EntryShown
    <3>5. PICK q \in 1..Len(infos) : q = L[n].prio + 1
      BY <2>2 DEF EntryShown
    <3>6. PICK j \in 1..infos[p].len : j = L[m].num + 1
      BY <2>2, <3>4 DEF EntryShown
    <3>7. PICK k \in 1..infos[q].len : k = L[n].num + 1
      BY <2>2, <3>5 DEF EntryShown
    <3>8. Id(p, j) = L[m].id /\ Id(q, k) = L[n].id
      BY <2>2, <3>4, <3>5, <3>6, <3>7, Zenon DEF EntryShown
    <3>9. p # q \/ j # k
      BY <3>2, <3>3, <3>4, <3>5, <3>6, <3>7
    <3>10. L[m].id # L[n].id
      <4>1. heap[infos[p].arr].items[j].id # heap[infos[q].arr].items[k].id
        <5>1. Unique
          BY DEF IndInv
        <5> SUFFICES ASSUME heap[infos[p].arr].items[j].id = heap[infos[q].arr].items[k].id
                     PROVE  FALSE
          OBVIOUS
        <5>2. p = q /\ j = k
          BY <5>1, OnePlace
        <5> QED
          BY <3>9, <5>2
      <4> QED
        BY <3>8, <4>1, Zenon DEF Id
    <3> QED
      BY <3>3, <3>10
  <2>6. ASSUME NEW k \in 1..Len(L)
        PROVE  Items(Info(L[k].prio))[L[k].num + 1].id = L[k].id
    <3>1. EntryShown(L[k])
      BY <2>2
    <3>2. PICK p \in 1..Len(infos) : p = L[k].prio + 1
      BY <3>1 DEF EntryShown
    <3>3. L[k].num + 1 \in 1..infos[p].len /\ Id(p, L[k].num + 1) = L[k].id
      BY <3>1, <3>2 DEF EntryShown
    <3>4. Items(infos[p])[L[k].num + 1].id = Id(p, L[k].num + 1)
      BY <3>3, GroupItems
    <3> QED
      BY <3>2, <3>3, <3>4 DEF Info
  <2> QED
    BY <2>1, <2>2, <2>3, <2>4, <2>5, <2>6
<1> QED
  BY <1>1, ListInvariance, PTL

-----------------------------------------------------------------------------
\* Sets of numbers in ascending order

\* The k elements of S from the least to the greatest.
Lines(s, k, S) ==
    /\ k \in Nat /\ s \in [1..k -> S]
    /\ \A m, n \in 1..k : m < n => s[m] < s[n]
    /\ \A x \in S : \E n \in 1..k : s[n] = x

LEMMA LeastOf ==
    ASSUME NEW T, T \subseteq Nat, T # {}
    PROVE  \E x \in T : \A y \in T : x <= y
<1>1. PICK x \in T : \A y \in T : <<y, x>> \notin OpToRel(<, Nat)
  <2>1. IsWellFoundedOn(OpToRel(<, Nat), Nat)
    BY NatLessThanWellFounded
  <2> HIDE DEF OpToRel
  <2> QED
    BY <2>1, WFMin
<1>2. \A y \in T : ~(y < x)
  BY <1>1 DEF OpToRel
<1> QED
  BY <1>2

\* Of two such lines, none is ahead of the other: what one shows first the
\* other has shown, and at the same place.
LEMMA NotAhead ==
    ASSUME NEW S, S \subseteq Int, NEW k, NEW s, NEW t, Lines(s, k, S), Lines(t, k, S),
           NEW n \in 1..k, \A m \in 1..(n - 1) : s[m] = t[m]
    PROVE  ~(s[n] < t[n])
<1> SUFFICES ASSUME s[n] < t[n] PROVE FALSE
  OBVIOUS
<1>1. k \in Nat /\ s[n] \in S /\ \A m \in 1..k : s[m] \in Int /\ t[m] \in Int
  BY DEF Lines
<1>2. PICK m \in 1..k : t[m] = s[n]
  BY <1>1 DEF Lines
<1>3. m < n
  <2> SUFFICES ASSUME ~(m < n) PROVE FALSE
    OBVIOUS
  <2>1. m = n \/ n < m
    BY <1>1, <1>2
  <2>2. t[n] < t[m] \/ m = n
    BY <1>2, <2>1 DEF Lines
  <2> QED
    BY <1>1, <1>2, <2>2
<1>4. s[m] = s[n]
  BY <1>1, <1>2, <1>3
<1>5. s[m] < s[n]
  BY <1>2, <1>3 DEF Lines
<1> QED
  BY <1>1, <1>4, <1>5

LEMMA OneLine ==
    ASSUME NEW S, S \subseteq Int, NEW k, NEW s, NEW t, Lines(s, k, S), Lines(t, k, S)
    PROVE  s = t
<1> DEFINE T == {n \in 1..k : s[n] # t[n]}
<1>1. k \in Nat /\ s \in [1..k -> S] /\ t \in [1..k -> S]
  BY DEF Lines
<1>2. ASSUME T # {} PROVE FALSE
  <2>1. PICK n \in T : \A m \in T : n <= m
    <3>1. T \subseteq Nat
      BY <1>1
    <3> HIDE DEF T
    <3> QED
      BY <1>2, <3>1, LeastOf
  <2>2. \A m \in 1..(n - 1) : s[m] = t[m]
    BY <1>1, <2>1
  <2>3. n \in 1..k /\ s[n] # t[n]
    BY <2>1
  <2>4. ~(s[n] < t[n]) /\ ~(t[n] < s[n])
    <3>1. ~(s[n] < t[n])
      BY <2>2, NotAhead
    <3>2. \A m \in 1..(n - 1) : t[m] = s[m]
      BY <2>2
    <3>3. ~(t[n] < s[n])
      BY <3>2, NotAhead
    <3> QED
      BY <3>1, <3>3
  <2> QED
    <3>1. s[n] \in Int /\ t[n] \in Int
      BY <1>1, <2>3
    <3> QED
      BY <2>3, <2>4, <3>1
<1> QED
  BY <1>1, <1>2

\* Ascending is that line.
LEMMA AscendingIs ==
    ASSUME NEW S, S \subseteq Int, NEW k, NEW s, Lines(s, k, S)
    PROVE  Ascending(S) = s
<1>0. \A x \in S : x \in Int
  OBVIOUS
<1>1. k \in Nat /\ s \in [1..k -> S]
  BY DEF Lines
<1>2. \A m, n \in 1..k : m # n => s[m] # s[n]
  <2> SUFFICES ASSUME NEW m \in 1..k, NEW n \in 1..k, m # n PROVE s[m] # s[n]
    OBVIOUS
  <2>1. s[m] \in S /\ s[n] \in S /\ m \in Int /\ n \in Int
    BY <1>1
  <2>2. s[m] \in Int /\ s[n] \in Int
    BY <1>0, <2>1
  <2>3. m < n \/ n < m
    BY <2>1
  <2> QED
    BY <2>2, <2>3 DEF Lines
<1>3. IsFiniteSet(1..k) /\ Cardinality(1..k) = k
  BY <1>1, FS_Interval
<1>4. IsFiniteSet(S) /\ Cardinality(S) = k
  <2>1. s \in Injection(1..k, S)
    BY <1>1, <1>2 DEF Injection, IsInjective
  <2>2. s \in Surjection(1..k, S)
    BY <1>1 DEF Surjection, Lines
  <2>3. ExistsBijection(1..k, S)
    BY <2>1, <2>2 DEF ExistsBijection, Bijection
  <2> QED
    BY <1>3, <2>3, FS_Bijection
<1>5. PICK t \in [1..k -> S] :
          t = Ascending(S) /\ \A m, n \in 1..k : m < n => t[m] < t[n]
  <2>1. \A m, n \in DOMAIN s : m < n => s[m] < s[n]
    BY <1>1 DEF Lines
  <2>2. /\ Ascending(S) \in [1..k -> S]
        /\ \A m, n \in DOMAIN Ascending(S) : m < n => Ascending(S)[m] < Ascending(S)[n]
    BY <1>1, <1>4, <2>1 DEF Ascending
  <2> QED
    BY <2>2
<1>6. \A m, n \in 1..k : m # n => t[m] # t[n]
  <2> SUFFICES ASSUME NEW m \in 1..k, NEW n \in 1..k, m # n PROVE t[m] # t[n]
    OBVIOUS
  <2>1. t[m] \in S /\ t[n] \in S /\ m \in Int /\ n \in Int
    BY <1>1, <1>5
  <2>2. t[m] \in Int /\ t[n] \in Int
    BY <1>0, <2>1
  <2>3. m < n \/ n < m
    BY <2>1
  <2> QED
    BY <1>5, <2>2, <2>3
<1>7. t \in Surjection(1..k, S)
  <2>1. t \in Injection(1..k, S)
    BY <1>6 DEF Injection, IsInjective
  <2> QED
    BY <1>3, <1>4, <2>1, FS_Injection
<1>8. Lines(t, k, S)
  BY <1>1, <1>5, <1>7 DEF Surjection, Lines
<1> QED
  BY <1>5, <1>8, OneLine

\* Any set of places of a list can be put in order: the line of those up to n
\* is the line of those up to n - 1, with n added if it belongs to the set.
LEMMA Lined ==
    ASSUME NEW N \in Nat, NEW S, S \subseteq 1..N
    PROVE  \E k \in Nat : \E s \in [1..k -> S] : Lines(s, k, S)
<1> DEFINE Part(n) == {x \in S : x <= n}
           Can(n) == \E k \in Nat : \E s \in [1..k -> Part(n)] : Lines(s, k, Part(n))
           T == {n \in 0..N : ~Can(n)}
<1>0. \A x \in S : x \in 1..N /\ x \in Int
  OBVIOUS
<1>1. ASSUME T # {} PROVE FALSE
  <2>1. PICK n \in T : \A m \in T : n <= m
    <3>1. T \subseteq Nat
      OBVIOUS
    <3> HIDE DEF T
    <3> QED
      BY <1>1, <3>1, LeastOf
  <2>2. n \in 0..N /\ ~Can(n)
    OBVIOUS
  <2>3. n # 0
    <3> SUFFICES ASSUME n = 0 PROVE FALSE
      OBVIOUS
    <3>1. Part(0) = {}
      <4>1. \A x \in S : ~(x <= 0)
        BY <1>0
      <4> QED
        BY <4>1, Zenon
    <3> HIDE DEF Part
    <3>2. [i \in 1..0 |-> i] \in [1..0 -> Part(0)] /\ 0 \in Nat
      OBVIOUS
    <3>3. Lines([i \in 1..0 |-> i], 0, Part(0))
      BY <3>1, <3>2 DEF Lines
    <3>4. Can(0)
      BY <3>2, <3>3
    <3> QED
      BY <2>2, <3>4
  <2>4. Can(n - 1)
    <3>1. n - 1 \in 0..N /\ ~(n <= n - 1)
      BY <2>2, <2>3
    <3>2. n - 1 \notin T
      BY <2>1, <3>1
    <3> HIDE DEF Can
    <3> QED
      BY <3>1, <3>2
  <2> HIDE DEF T
  <2>5. PICK k \in Nat : \E s \in [1..k -> Part(n - 1)] : Lines(s, k, Part(n - 1))
    BY <2>4
  <2>6. PICK s \in [1..k -> Part(n - 1)] : Lines(s, k, Part(n - 1))
    BY <2>5
  <2>7. CASE n \notin S
    <3>1. Part(n) = Part(n - 1)
      <4>1. \A x \in S : x # n /\ x \in Int
        BY <1>0, <2>7
      <4>2. \A x \in S : (x <= n) <=> (x <= n - 1)
        BY <2>2, <4>1
      <4> QED
        BY <4>2, Zenon
    <3> QED
      BY <2>2, <2>6, <3>1
  <2>8. CASE n \in S
    <3> DEFINE t == [i \in 1..(k + 1) |-> IF i = k + 1 THEN n ELSE s[i]]
    <3>1. \A x \in Part(n) : x \in Part(n - 1) \/ x = n
      BY <1>0, <2>2
    <3>2. n \in Part(n) /\ Part(n - 1) \subseteq Part(n)
      <4>1. \A x \in S : x <= n - 1 => x <= n
        BY <1>0, <2>2
      <4>2. n <= n
        BY <2>2
      <4> QED
        BY <2>8, <4>1, <4>2, Zenon
    <3> HIDE DEF Part
    <3>3. t \in [1..(k + 1) -> Part(n)]
      BY <3>2
    <3>4. /\ t[k + 1] = n
          /\ \A i \in 1..k : t[i] = s[i] /\ t[i] \in Part(n - 1) /\ i \in 1..(k + 1)
      OBVIOUS
    <3> HIDE DEF t
    <3>5. \A i, j \in 1..(k + 1) : i < j => t[i] < t[j]
      <4> SUFFICES ASSUME NEW i \in 1..(k + 1), NEW j \in 1..(k + 1), i < j
                   PROVE  t[i] < t[j]
        OBVIOUS
      <4>1. i \in 1..k /\ t[i] = s[i] /\ t[i] \in Part(n - 1)
        BY <3>4
      <4>2. t[i] \in Int /\ t[i] <= n - 1
        BY <1>0, <4>1, Zenon DEF Part
      <4>3. CASE j = k + 1
        BY <2>2, <3>4, <4>2, <4>3
      <4>4. CASE j \in 1..k
        BY <2>6, <3>4, <4>1, <4>4 DEF Lines
      <4> QED
        BY <4>3, <4>4
    <3>6. \A x \in Part(n) : \E i \in 1..(k + 1) : t[i] = x
      <4> SUFFICES ASSUME NEW x \in Part(n) PROVE \E i \in 1..(k + 1) : t[i] = x
        OBVIOUS
      <4>1. CASE x = n
        BY <3>4, <4>1
      <4>2. CASE x \in Part(n - 1)
        <5>1. PICK i \in 1..k : s[i] = x
          BY <2>6, <4>2 DEF Lines
        <5> QED
          BY <3>4, <5>1
      <4> QED
        BY <3>1, <4>1, <4>2
    <3>7. Lines(t, k + 1, Part(n))
      BY <3>3, <3>5, <3>6 DEF Lines
    <3> QED
      BY <2>2, <3>3, <3>7
  <2> QED
    BY <2>7, <2>8
<1>2. Can(N)
  <2>1. N \in 0..N
    OBVIOUS
  <2> HIDE DEF Can
  <2> QED
    BY <1>1, <2>1
<1>3. Part(N) = S
  <2>1. \A x \in S : x <= N
    BY <1>0
  <2> QED
    BY <2>1, Zenon
<1> QED
  BY <1>2, <1>3

-----------------------------------------------------------------------------
\* The groups are the ones ByFallbackPriority computes.

LEMMA GroupLengths ==
    ASSUME IndInv
    PROVE  /\ Len(infos) \in Nat /\ added \in Nat
           /\ \A p \in 1..Len(infos) : infos[p].len \in Nat
<1>1. infos \in Seq([arr : Nat, len : 0..added]) /\ added \in Nat
  BY DEF IndInv, MainInv, HeapInv
<1>2. \A p \in 1..Len(infos) : infos[p] \in [arr : Nat, len : 0..added]
  BY <1>1, Element, Zenon
<1>3. \A p \in 1..Len(infos) : infos[p].len \in 0..added
  BY <1>2, Zenon
<1> QED
  BY <1>1, <1>3

\* The place of an input shows an input registered.
LEMMA ShownInput ==
    ASSUME IndInv, NEW p \in 1..Len(infos), NEW m \in 1..infos[p].len
    PROVE  Id(p, m) \in 1..added
<1>1. /\ Items(infos[p]) \in Seq(Resources) /\ Len(Items(infos[p])) = infos[p].len
      /\ Items(infos[p])[m].id = Id(p, m)
  BY GroupItems
<1>2. Items(infos[p])[m] \in Resources
  BY <1>1, Element
<1> QED
  BY <1>1, <1>2 DEF Resources

\* What a group shows are the inputs of its priority in ascending order.
LEMMA GroupAscends ==
    ASSUME IndInv, GroupInv, NEW p \in 1..Len(infos)
    PROVE  [m \in 1..Len(Items(infos[p])) |-> Items(infos[p])[m].id]
             = Ascending({i \in 1..added : Priority(i) = p - 1})
<1> DEFINE S == {i \in 1..added : Priority(i) = p - 1}
           f == [m \in 1..infos[p].len |-> Id(p, m)]
<1>1. Len(infos) \in Nat /\ p \in Nat /\ added \in Nat /\ infos[p].len \in Nat
  BY GroupLengths
<1>2. [m \in 1..Len(Items(infos[p])) |-> Items(infos[p])[m].id] = f
  <2>1. /\ Len(Items(infos[p])) = infos[p].len
        /\ \A m \in 1..infos[p].len : Items(infos[p])[m].id = Id(p, m)
    BY GroupItems
  <2> QED
    BY <2>1, Zenon
<1>3. \A m \in 1..infos[p].len : Id(p, m) \in S
  <2> SUFFICES ASSUME NEW m \in 1..infos[p].len PROVE Id(p, m) \in S
    OBVIOUS
  <2>1. Id(p, m) \in 1..added
    BY ShownInput
  <2>2. Priority(Id(p, m)) = p - 1
    BY Zenon DEF GroupInv
  <2> QED
    BY <2>1, <2>2, Zenon
<1>4. \A i \in S : \E m \in 1..infos[p].len : Id(p, m) = i
  <2> SUFFICES ASSUME NEW i \in 1..added, Priority(i) = p - 1
               PROVE  \E m \in 1..infos[p].len : Id(p, m) = i
    OBVIOUS
  <2>1. PICK q \in 1..Len(infos) : \E m \in 1..infos[q].len : Id(q, m) = i
    BY Zenon DEF GroupInv
  <2>2. PICK m \in 1..infos[q].len : Id(q, m) = i
    BY <2>1
  <2>3. Priority(i) = q - 1
    BY <2>1, <2>2, Zenon DEF GroupInv
  <2>4. p = q
    BY <1>1, <2>1, <2>3
  <2> QED
    BY <2>2, <2>4
<1>5. \A m, n \in 1..infos[p].len : m < n => Id(p, m) < Id(p, n)
  BY Zenon DEF GroupInv
<1>6. S \subseteq Int
  BY <1>1
<1> HIDE DEF S
<1>7. Lines(f, infos[p].len, S)
  <2>1. f \in [1..infos[p].len -> S] /\ \A m \in 1..infos[p].len : f[m] = Id(p, m)
    BY <1>3
  <2> HIDE DEF f
  <2>2. \A m, n \in 1..infos[p].len : m < n => f[m] < f[n]
    BY <1>5, <2>1
  <2>3. \A i \in S : \E m \in 1..infos[p].len : f[m] = i
    BY <1>4, <2>1
  <2> QED
    BY <1>1, <2>1, <2>2, <2>3, Zenon DEF Lines
<1> HIDE DEF f
<1>8. Ascending(S) = f
  BY <1>6, <1>7, AscendingIs
<1> QED
  BY <1>2, <1>8 DEF S

\* The priorities in use are those of the groups that are not empty.
LEMMA PrioritiesAscend ==
    ASSUME IndInv, GroupInv, NEW k, NEW s,
           Lines(s, k, {p \in 1..Len(infos) : infos[p].len > 0})
    PROVE  Ascending({Priority(i) : i \in 1..added}) = [n \in 1..k |-> s[n] - 1]
<1> DEFINE K == {p \in 1..Len(infos) : infos[p].len > 0}
           U == {Priority(i) : i \in 1..added}
           u == [n \in 1..k |-> s[n] - 1]
<1>1. Len(infos) \in Nat /\ \A p \in 1..Len(infos) : infos[p].len \in Nat
  BY GroupLengths
<1>2. U \subseteq Int
  <2>1. \A i \in 1..added : i \in Inputs
    BY ConstantFacts DEF IndInv, MainInv, Inputs
  <2>2. \A i \in 1..added : Priority(i) \in Int
    BY <2>1, ConstantFacts
  <2> QED
    BY <2>2
<1>3. \A p \in K : p - 1 \in U
  <2> SUFFICES ASSUME NEW p \in 1..Len(infos), infos[p].len > 0 PROVE p - 1 \in U
    OBVIOUS
  <2>1. 1 \in 1..infos[p].len
    BY <1>1
  <2>2. Id(p, 1) \in 1..added
    BY <2>1, ShownInput
  <2>3. Priority(Id(p, 1)) = p - 1
    BY <2>1, Zenon DEF GroupInv
  <2> QED
    BY <2>2, <2>3, Zenon
<1>4. \A x \in U : \E p \in K : p - 1 = x
  <2> SUFFICES ASSUME NEW i \in 1..added PROVE \E p \in K : p - 1 = Priority(i)
    OBVIOUS
  <2>1. PICK p \in 1..Len(infos) : \E m \in 1..infos[p].len : Id(p, m) = i
    BY Zenon DEF GroupInv
  <2>2. PICK m \in 1..infos[p].len : Id(p, m) = i
    BY <2>1
  <2>3. Priority(i) = p - 1
    BY <2>1, <2>2, Zenon DEF GroupInv
  <2>4. infos[p].len > 0
    BY <1>1, <2>1, <2>2
  <2> QED
    BY <2>1, <2>3, <2>4, Zenon
<1>5. \A p \in K : p \in Int
  BY <1>1
<1> HIDE DEF K, U
<1>6. Lines(s, k, K)
  BY DEF K
<1>7. Lines(u, k, U)
  <2>1. k \in Nat /\ s \in [1..k -> K]
    BY <1>6 DEF Lines
  <2>2. u \in [1..k -> U] /\ \A n \in 1..k : u[n] = s[n] - 1 /\ s[n] \in K
    BY <1>3, <2>1
  <2> HIDE DEF u
  <2>3. \A m, n \in 1..k : m < n => u[m] < u[n]
    <3> SUFFICES ASSUME NEW m \in 1..k, NEW n \in 1..k, m < n PROVE u[m] < u[n]
      OBVIOUS
    <3>1. s[m] < s[n]
      BY <1>6 DEF Lines
    <3>2. s[m] \in Int /\ s[n] \in Int
      BY <1>5, <2>2
    <3> QED
      BY <2>2, <3>1, <3>2
  <2>4. \A x \in U : \E n \in 1..k : u[n] = x
    <3> SUFFICES ASSUME NEW x \in U PROVE \E n \in 1..k : u[n] = x
      OBVIOUS
    <3>1. PICK p \in K : p - 1 = x
      BY <1>4
    <3>2. PICK n \in 1..k : s[n] = p
      BY <1>6, <3>1 DEF Lines
    <3> QED
      BY <2>2, <3>1, <3>2
  <2> QED
    BY <2>1, <2>2, <2>3, <2>4, Zenon DEF Lines
<1> HIDE DEF u
<1>8. Ascending(U) = u
  BY <1>2, <1>7, AscendingIs
<1> QED
  BY <1>8 DEF U, u

\* The groups AddInput builds one resource at a time, gaps left out, are the
\* ones ByFallbackPriority computes from the whole list, whatever priorities
\* were typed (AddInput, ffstream.go; Resources.ByFallbackPriority, resource.go).
THEOREM GroupsMatch == Spec => []GroupsAgree
<1> DEFINE ids(g) == [n \in 1..Len(Items(g)) |-> Items(g)[n].id]
           K == {p \in DOMAIN infos : infos[p].len > 0}
           U == {Priority(i) : i \in 1..added}
<1>1. ASSUME IndInv, GroupInv
      PROVE  [n \in DOMAIN Ascending(K) |-> ids(infos[Ascending(K)[n]])]
               = ByFallbackPriority(added)
  <2>1. Len(infos) \in Nat /\ DOMAIN infos = 1..Len(infos)
    BY <1>1 DEF IndInv, HeapInv
  <2>2. K = {p \in 1..Len(infos) : infos[p].len > 0}
    BY <2>1, Zenon
  <2>3. K \subseteq 1..Len(infos) /\ K \subseteq Int
    BY <2>1
  <2> HIDE DEF K
  <2>4. PICK k \in Nat : \E s \in [1..k -> K] : Lines(s, k, K)
    BY <2>1, <2>3, Lined
  <2>5. PICK s \in [1..k -> K] : Lines(s, k, K)
    BY <2>4
  <2>6. Ascending(K) = s
    BY <2>3, <2>5, AscendingIs
  <2>7. Ascending(U) = [n \in 1..k |-> s[n] - 1]
    BY <1>1, <2>2, <2>5, PrioritiesAscend
  <2>8. ASSUME NEW n \in 1..k
        PROVE  ids(infos[s[n]]) = Ascending({i \in 1..added : Priority(i) = s[n] - 1})
    <3>1. s[n] \in 1..Len(infos)
      BY <2>3, <2>5
    <3> QED
      BY <1>1, <3>1, GroupAscends
  <2> HIDE DEF ids, U
  <2>9. [n \in DOMAIN Ascending(K) |-> ids(infos[Ascending(K)[n]])]
          = [n \in 1..k |-> Ascending({i \in 1..added : Priority(i) = s[n] - 1})]
    BY <2>5, <2>6, <2>8
  <2>10. ByFallbackPriority(added)
          = [n \in 1..k |-> Ascending({i \in 1..added : Priority(i) = s[n] - 1})]
    <3>1. ByFallbackPriority(added) = [n \in DOMAIN Ascending(U) |->
              Ascending({i \in 1..added : Priority(i) = Ascending(U)[n]})]
      BY Zenon DEF ByFallbackPriority, U
    <3>2. /\ DOMAIN Ascending(U) = 1..k
          /\ \A n \in 1..k : Ascending(U)[n] = s[n] - 1
      BY <2>7
    <3> QED
      BY <3>1, <3>2
  <2> QED
    BY <2>9, <2>10
<1>2. IndInv /\ GroupInv => GroupsAgree
  BY <1>1, Zenon DEF GroupsAgree
<1> QED
  BY <1>2, ListInvariance, PTL
=============================================================================
