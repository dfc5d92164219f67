-------------------------- MODULE StreamIndexSpace --------------------------
(***************************************************************************)
(* What InputFactory.StreamIndexAssign promises, as its comment puts it:   *)
(* the streams of all the sources of one input live in a single index      *)
(* space, without collisions. A stream that got an index keeps it, no two  *)
(* streams share one, and all are forgotten only when the input is         *)
(* replaced.                                                               *)
(***************************************************************************)
EXTENDS Naturals

CONSTANT Streams         \* <<source, stream index>> of every source there is

VARIABLE assigned        \* set of [stream, out]: indices in use

Init == assigned = {}

\* A stream that has no index gets one nobody has.
Assign(s) ==
    \E new \in assigned' :
        /\ new.stream = s /\ new.out \in Nat
        /\ \A e \in assigned : e.stream # s /\ e.out # new.out
        /\ assigned' = assigned \cup {new}

\* The input is replaced.
Forget == assigned' = {}

Next == (\E s \in Streams : Assign(s)) \/ Forget

Spec == Init /\ [][Next]_assigned
=============================================================================
