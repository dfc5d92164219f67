------------------------- MODULE OutputRetryProofs -------------------------
(***************************************************************************)
(* Proofs about OutputRetry for every set of timeouts and of closers.      *)
(***************************************************************************)
EXTENDS OutputRetry, TLAPS

\* Only a retried output has a series of errors.
ErrorsOfRetry ==
    sender # "retry" => failing = NoErrors /\ pc \notin {"failed", "sleeping"}

\* There is an output to open only after NewSender decided so.
OutputOfSender ==
    pc # "none" => sender \in {"plain", "retry"} \/ (sender = "refused" /\ pc = "ended")

\* A running output has none: the series ended when it was opened.
RunningForgiven == pc = "running" => failing = NoErrors

\* A series of errors is not longer than the output has been down.
SeriesWithinDown == pc # "opened" /\ failing # NoErrors => failing <= down

\* A retried output ends only with a series that is too long.
EndedLate ==
    sender = "retry" /\ pc = "ended" => failing # NoErrors /\ failing > retryTimeout

\* An idle closer holds no kernel; the others work on a sender they were given.
CloserState ==
    \A c \in Closers : /\ at[c] = "idle" => held[c] = "nil"
                       /\ at[c] = "set" => Returned

RetryInv ==
    ErrorsOfRetry /\ OutputOfSender /\ RunningForgiven /\ SeriesWithinDown /\ EndedLate
LockInv == CloserState /\ LockerHeldByCloser /\ NoLingerOnClosedKernel
IndInv == TypeOK /\ RetryInv /\ LockInv

-----------------------------------------------------------------------------
\* Durations

\* A duration that grows stays one, does not shrink, and keeps its order.
LEMMA LaterDuration ==
    ASSUME retryTimeout \in Int, NEW d \in Durations
    PROVE  /\ Later(d) \in Durations
           /\ d <= Later(d)
           /\ \A e \in Durations : d <= e => Later(d) <= Later(e)
BY DEF Durations, Later, Forever

LEMMA DurationNumbers ==
    ASSUME retryTimeout \in Int
    PROVE  /\ Durations \subseteq Nat
           /\ 0 \in Durations
           /\ NoErrors \notin Durations
BY ConstantsAssumption DEF Durations, Forever

LEMMA TimeoutsAreInts == TypeOK => retryTimeout \in Int
BY ConstantsAssumption DEF TypeOK

-----------------------------------------------------------------------------
\* Types

LEMMA InitType == Init => TypeOK
<1> SUFFICES ASSUME Init PROVE TypeOK
  OBVIOUS
<1>1. retryTimeout \in Int
  BY ConstantsAssumption DEF Init
<1>2. 0 \in Durations
  BY <1>1, DurationNumbers
<1> QED BY <1>2 DEF Init, TypeOK

LEMMA NextType == TypeOK /\ [Next]_vars => TypeOK'
<1> SUFFICES ASSUME TypeOK, [Next]_vars PROVE TypeOK'
  OBVIOUS
<1> USE DEF TypeOK
<1>t. retryTimeout \in Int /\ retryTimeout' = retryTimeout
  BY TimeoutsAreInts DEF Next, Output, vars, NewSender, OpenSized, OpenUnsized,
     OnKernelOpen, SetKernel, OnError, Retry, Break, Tick, TakeKernel, SetLinger
<1>d. Durations' = Durations
  BY <1>t DEF Durations, Forever
<1>0. 0 \in Durations
  BY <1>t, DurationNumbers
<1>1. ASSUME NEW templates \in 0..2, NEW hasHandler \in BOOLEAN, NEW rungs \in 0..1,
             NewSender(templates, hasHandler, rungs)
      PROVE  TypeOK'
  BY <1>1, <1>d DEF NewSender, closerVars
<1>2. CASE OpenSized
  BY <1>2, <1>d, <1>0 DEF OpenSized, Connected, OpenFails, closerVars
<1>3. CASE OpenUnsized
  BY <1>3, <1>d, <1>0 DEF OpenUnsized, Connected, OpenFails, closerVars
<1>4. CASE OnKernelOpen
  BY <1>4, <1>d DEF OnKernelOpen, SetKernel, closerVars
<1>5. CASE OnError
  BY <1>5, <1>d, <1>0 DEF OnError, closerVars
<1>6. CASE Retry
  BY <1>6, <1>d DEF Retry, closerVars
<1>7. CASE Break
  BY <1>7, <1>d DEF Break
<1>8. CASE Tick
  <2>1. failing' \in Durations \cup {NoErrors}
    BY <1>8, <1>t, LaterDuration DEF Tick
  <2>2. down' \in Durations
    BY <1>8, <1>t, <1>0, LaterDuration DEF Tick
  <2> QED BY <1>8, <1>d, <2>1, <2>2 DEF Tick, closerVars
<1>9. ASSUME NEW c \in Closers, TakeKernel(c) PROVE TypeOK'
  BY <1>9, <1>d DEF TakeKernel
<1>10. ASSUME NEW c \in Closers, SetLinger(c) PROVE TypeOK'
  BY <1>10, <1>d DEF SetLinger
<1>11. CASE UNCHANGED vars
  BY <1>11, <1>d DEF vars
<1> QED BY <1>1, <1>2, <1>3, <1>4, <1>5, <1>6, <1>7, <1>8, <1>9, <1>10, <1>11
         DEF Next, Output

-----------------------------------------------------------------------------
\* The retry clock

LEMMA NextRetry == TypeOK /\ RetryInv /\ [Next]_vars => RetryInv'
<1> SUFFICES ASSUME TypeOK, RetryInv, [Next]_vars PROVE RetryInv'
  OBVIOUS
<1> USE DEF RetryInv, ErrorsOfRetry, OutputOfSender, RunningForgiven, SeriesWithinDown, EndedLate
<1>t. retryTimeout \in Int
  BY TimeoutsAreInts
<1>n. /\ Durations \subseteq Nat
      /\ failing \in Durations \cup {NoErrors}
      /\ down \in Durations
      /\ 0 # NoErrors
  BY <1>t, DurationNumbers DEF TypeOK
<1>1. ASSUME NEW templates \in 0..2, NEW hasHandler \in BOOLEAN, NEW rungs \in 0..1,
             NewSender(templates, hasHandler, rungs)
      PROVE  RetryInv'
  BY <1>1 DEF NewSender
<1>2. CASE OpenSized
  BY <1>2 DEF OpenSized, Connected, OpenFails
<1>3. CASE OpenUnsized
  BY <1>3 DEF OpenUnsized, Connected, OpenFails
<1>4. CASE OnKernelOpen
  BY <1>4 DEF OnKernelOpen, SetKernel
<1>5. CASE OnError
  BY <1>5, <1>n, <1>t DEF OnError
<1>6. CASE Retry
  BY <1>6 DEF Retry
<1>7. CASE Break
  BY <1>7 DEF Break
<1>8. CASE Tick
  <2>1. CASE failing = NoErrors
    BY <1>8, <2>1 DEF Tick
  <2>2. CASE failing # NoErrors
    <3>1. /\ failing \in Durations
          /\ failing' = Later(failing)
          /\ failing <= failing'
          /\ failing' \in Durations
          /\ failing' # NoErrors
      BY <1>8, <2>2, <1>n, <1>t, LaterDuration, DurationNumbers DEF Tick
    <3>2. pc # "running"
      BY <2>2
    <3>3. pc # "opened" => failing' <= down'
      BY <1>8, <2>2, <3>1, <3>2, <1>n, <1>t, LaterDuration DEF Tick
    <3> QED BY <1>8, <2>2, <3>1, <3>2, <3>3, <1>n, <1>t DEF Tick
  <2> QED BY <2>1, <2>2
<1>9. ASSUME NEW c \in Closers, TakeKernel(c) PROVE RetryInv'
  BY <1>9 DEF TakeKernel
<1>10. ASSUME NEW c \in Closers, SetLinger(c) PROVE RetryInv'
  BY <1>10 DEF SetLinger
<1>11. CASE UNCHANGED vars
  BY <1>11 DEF vars
<1> QED BY <1>1, <1>2, <1>3, <1>4, <1>5, <1>6, <1>7, <1>8, <1>9, <1>10, <1>11
         DEF Next, Output

-----------------------------------------------------------------------------
\* KernelLocker

LEMMA NextLock == TypeOK /\ LockInv /\ [Next]_vars => LockInv'
<1> SUFFICES ASSUME TypeOK, LockInv, [Next]_vars PROVE LockInv'
  OBVIOUS
<1> USE ConstantsAssumption
    DEF LockInv, CloserState, LockerHeldByCloser, NoLingerOnClosedKernel, Returned
<1>1. ASSUME NEW templates \in 0..2, NEW hasHandler \in BOOLEAN, NEW rungs \in 0..1,
             NewSender(templates, hasHandler, rungs)
      PROVE  LockInv'
  <2>1. \A c \in Closers : at[c] = "idle"
    BY <1>1 DEF NewSender, TypeOK
  <2> QED BY <1>1, <2>1 DEF NewSender, closerVars
<1>2. CASE OpenSized
  BY <1>2 DEF OpenSized, Connected, OpenFails, closerVars
<1>3. CASE OpenUnsized
  BY <1>3 DEF OpenUnsized, Connected, OpenFails, closerVars
<1>4. CASE OnKernelOpen
  BY <1>4 DEF OnKernelOpen, SetKernel, closerVars
<1>5. CASE OnError
  BY <1>5 DEF OnError, closerVars
<1>6. CASE Retry
  BY <1>6 DEF Retry, closerVars
<1>7. CASE Break
  <2>1. sender = "retry" => \A c \in Closers : held[c] = "nil"
    BY <1>7 DEF Break, TypeOK
  <2> QED BY <1>7, <2>1 DEF Break, TypeOK
<1>8. CASE Tick
  BY <1>8 DEF Tick, closerVars
<1>9. ASSUME NEW c \in Closers, TakeKernel(c) PROVE LockInv'
  BY <1>9 DEF TakeKernel, TypeOK
<1>10. ASSUME NEW c \in Closers, SetLinger(c) PROVE LockInv'
  BY <1>10 DEF SetLinger, TypeOK
<1>11. CASE UNCHANGED vars
  BY <1>11 DEF vars
<1> QED BY <1>1, <1>2, <1>3, <1>4, <1>5, <1>6, <1>7, <1>8, <1>9, <1>10, <1>11
         DEF Next, Output

-----------------------------------------------------------------------------
\* Theorems

\* IndInv is inductive.
THEOREM Invariance == Spec => []IndInv
<1>1. Init => IndInv
  <2>1. Init => TypeOK
    BY InitType
  <2>2. Init => RetryInv /\ LockInv
    BY ConstantsAssumption
       DEF Init, RetryInv, ErrorsOfRetry, OutputOfSender, RunningForgiven,
           SeriesWithinDown, EndedLate, LockInv, CloserState, LockerHeldByCloser,
           NoLingerOnClosedKernel
  <2> QED BY <2>1, <2>2 DEF IndInv
<1>2. IndInv /\ [Next]_vars => IndInv'
  BY NextType, NextRetry, NextLock DEF IndInv
<1> QED BY <1>1, <1>2, PTL DEF Spec

\* Types hold for every set of timeouts and closers.
THEOREM TypeCorrect == Spec => []TypeOK
<1>1. IndInv => TypeOK
  BY DEF IndInv
<1> QED BY <1>1, Invariance, PTL

\* An output is given up only after it was unreachable for its whole timeout.
THEOREM NoEarlyGiveUp == Spec => []GivesUpOnlyAfterTimeout
<1>1. IndInv => GivesUpOnlyAfterTimeout
  <2> SUFFICES ASSUME IndInv, sender = "retry", pc = "ended" PROVE down > retryTimeout
    BY DEF GivesUpOnlyAfterTimeout
  <2>1. retryTimeout \in Int /\ failing # NoErrors
    BY TimeoutsAreInts DEF IndInv, RetryInv, EndedLate
  <2>2. failing \in Nat /\ down \in Nat
    BY <2>1, DurationNumbers DEF IndInv, TypeOK
  <2> QED BY <2>1, <2>2 DEF IndInv, RetryInv, EndedLate, SeriesWithinDown
<1> QED BY <1>1, Invariance, PTL

\* SetDropOnClose never touches a closed kernel of a retried output.
THEOREM LingerSafe == Spec => []NoLingerOnClosedKernel
<1>1. IndInv => NoLingerOnClosedKernel
  BY DEF IndInv, LockInv
<1> QED BY <1>1, Invariance, PTL

\* KernelLocker is held exactly by the SetDropOnClose in progress.
THEOREM LockerDiscipline == Spec => []LockerHeldByCloser
<1>1. IndInv => LockerHeldByCloser
  BY DEF IndInv, LockInv
<1> QED BY <1>1, Invariance, PTL
=============================================================================
