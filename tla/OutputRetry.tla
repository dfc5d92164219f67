---------------------------- MODULE OutputRetry ----------------------------
(***************************************************************************)
(* One output of an ffstream (pkg/ffstream/sender_factory.go and           *)
(* set_drop_on_close.go). NewSender opens it once, or, if the template has *)
(* a retry timeout, wraps it so that it is reopened after every failure    *)
(* until it has been failing for longer than the timeout. Meanwhile the    *)
(* stream mux calls SetDropOnClose on it from other goroutines.            *)
(*                                                                         *)
(* External: kernel.Retryable, which calls the factory, OnKernelOpen and   *)
(* the error handler one at a time and sets or clears its Kernel under     *)
(* KernelLocker; kernel.Output, whose opening and sending may fail at any  *)
(* moment. Time passes in ticks, one for the handler's sleep; durations    *)
(* saturate at Forever, just above the timeout.                            *)
(***************************************************************************)
EXTENDS Integers

CONSTANTS
    Timeouts,     \* values of RetryOutputTimeoutOnFailure, in ticks
    Closers,      \* goroutines that call SetDropOnClose
    Free,         \* KernelLocker is not held
    NoErrors      \* errorsStartedAt is zero

ASSUME ConstantsAssumption ==
    /\ Timeouts \subseteq Int
    /\ Free \notin Closers
    /\ NoErrors \notin Nat

VARIABLES
    retryTimeout, \* the command line's
    sender,   \* what NewSender returned
    pc,       \* where the Retryable (or the plain output) is
    kernel,   \* the Retryable's Kernel: "nil" or "open"
    failing,  \* time since errorsStartedAt, or NoErrors
    slept,    \* the sleep in progress is over
    locker,   \* KernelLocker
    at,       \* where each closer is
    held,     \* the kernel a closer took: "nil", "open", or "closed" since
    linger,   \* linger of the open kernel: "default", "on", "off"
    down      \* history: time since the output was last connected

closerVars == <<at, held>>
vars == <<retryTimeout, sender, pc, kernel, failing, slept, locker, at, held, linger, down>>

\* Durations saturate just above the timeout.
Forever == IF retryTimeout < 0 THEN 1 ELSE retryTimeout + 1
Durations == 0..Forever
Later(d) == IF d < Forever THEN d + 1 ELSE d

Init ==
    /\ retryTimeout \in Timeouts
    /\ sender = "none" /\ pc = "none" /\ kernel = "nil"
    /\ failing = NoErrors /\ slept = FALSE /\ locker = Free
    /\ at = [c \in Closers |-> "idle"]
    /\ held = [c \in Closers |-> "nil"]
    /\ linger = "default" /\ down = 0

-----------------------------------------------------------------------------
\* NewSender

\* One template is required. A ladder without rungs makes Best() nil, which is
\* dereferenced; without a handler the buffer keeps its default size.
NewSender(templates, hasHandler, rungs) ==
    /\ sender = "none"
    /\ IF templates # 1 THEN sender' = "refused" /\ UNCHANGED pc
       ELSE IF hasHandler /\ rungs = 0 THEN sender' = "crashed" /\ UNCHANGED pc
       ELSE /\ sender' = IF retryTimeout # 0 THEN "retry" ELSE "plain"
            /\ pc' = "opening"
    /\ UNCHANGED <<retryTimeout, kernel, failing, slept, locker, closerVars, linger, down>>

Connected == pc' = "opened" /\ down' = 0

\* A plain output that cannot be opened is NewSender's error; a retried one's
\* error goes to the handler.
OpenFails ==
    /\ IF sender = "plain" THEN sender' = "refused" /\ pc' = "ended"
       ELSE pc' = "failed" /\ UNCHANGED sender
    /\ UNCHANGED down

\* newOutputKernel: opened, refused because of the send buffer's size, or failed.
OpenSized ==
    /\ pc = "opening"
    /\ \/ Connected /\ UNCHANGED sender
       \/ pc' = "unsized" /\ UNCHANGED <<sender, down>>
       \/ OpenFails
    /\ UNCHANGED <<retryTimeout, kernel, failing, slept, locker, closerVars, linger>>

\* Once more with the default buffer.
OpenUnsized ==
    /\ pc = "unsized"
    /\ (Connected /\ UNCHANGED sender) \/ OpenFails
    /\ UNCHANGED <<retryTimeout, kernel, failing, slept, locker, closerVars, linger>>

SetKernel ==
    /\ pc = "opened" /\ locker = Free
    /\ kernel' = "open"
    /\ linger' = "default"
    /\ pc' = "running"

\* Mutant: an open does not end the series of errors.
OnKernelOpenKeepsErrors ==
    /\ SetKernel
    /\ UNCHANGED <<retryTimeout, sender, failing, slept, locker, closerVars, down>>

\* The open kernel is set; a retried output's errors are forgiven.
OnKernelOpen ==
    /\ SetKernel
    /\ failing' = IF sender = "retry" THEN NoErrors ELSE failing
    /\ UNCHANGED <<retryTimeout, sender, slept, locker, closerVars, down>>

\* External: sending fails and the kernel is closed.
Break ==
    /\ pc = "running" /\ locker = Free
    /\ kernel' = "nil"
    /\ held' = [c \in Closers |-> IF held[c] = "open" THEN "closed" ELSE held[c]]
    /\ pc' = IF sender = "retry" THEN "failed" ELSE "ended"
    /\ UNCHANGED <<retryTimeout, sender, failing, slept, locker, at, linger, down>>

\* Mutants: the subtraction's sides are swapped; each error starts a series of
\* its own.
OnErrorSwapsTimes ==
    /\ pc = "failed"
    /\ failing' = IF failing = NoErrors THEN 0 ELSE -failing
    /\ pc' = IF failing' > retryTimeout THEN "ended" ELSE "sleeping"
    /\ slept' = FALSE
    /\ UNCHANGED <<retryTimeout, sender, kernel, locker, closerVars, linger, down>>

OnErrorRestarts ==
    /\ pc = "failed"
    /\ failing' = 0
    /\ pc' = IF failing' > retryTimeout THEN "ended" ELSE "sleeping"
    /\ slept' = FALSE
    /\ UNCHANGED <<retryTimeout, sender, kernel, locker, closerVars, linger, down>>

\* The error handler: the first error of a series starts its clock; past the
\* timeout the error is final, before it the handler sleeps and retries.
OnError ==
    /\ pc = "failed"
    /\ failing' = IF failing = NoErrors THEN 0 ELSE failing
    /\ pc' = IF failing' > retryTimeout THEN "ended" ELSE "sleeping"
    /\ slept' = FALSE
    /\ UNCHANGED <<retryTimeout, sender, kernel, locker, closerVars, linger, down>>

Retry ==
    /\ pc = "sleeping" /\ slept
    /\ pc' = "opening"
    /\ UNCHANGED <<retryTimeout, sender, kernel, failing, slept, locker, closerVars, linger, down>>

\* A tenth of a second passes.
Tick ==
    /\ failing' = IF failing = NoErrors THEN NoErrors ELSE Later(failing)
    /\ down' = IF pc \in {"opened", "running"} THEN 0 ELSE Later(down)
    /\ slept' = (pc = "sleeping")
    /\ UNCHANGED <<retryTimeout, sender, pc, kernel, locker, closerVars, linger>>

-----------------------------------------------------------------------------
\* SetDropOnClose, on a sender that NewSender returned

Returned ==
    \/ sender = "retry"
    \/ sender = "plain" /\ pc \in {"running", "ended"}

\* Mutant: the retried output's Kernel is read without KernelLocker.
TakeKernelUnlocked(c) ==
    /\ at[c] = "idle" /\ Returned
    /\ held' = [held EXCEPT ![c] = kernel]
    /\ at' = [at EXCEPT ![c] = "set"]
    /\ UNCHANGED <<retryTimeout, sender, pc, kernel, failing, slept, locker, linger, down>>

\* A retried output's Kernel is read under KernelLocker; a plain one's is
\* there for good, closed or not.
TakeKernel(c) ==
    /\ at[c] = "idle" /\ Returned
    /\ IF sender = "retry"
       THEN /\ locker = Free /\ locker' = c
            /\ held' = [held EXCEPT ![c] = kernel]
       ELSE /\ held' = [held EXCEPT ![c] = IF pc = "running" THEN "open" ELSE "closed"]
            /\ UNCHANGED locker
    /\ at' = [at EXCEPT ![c] = "set"]
    /\ UNCHANGED <<retryTimeout, sender, pc, kernel, failing, slept, linger, down>>

\* UnsafeSetLinger, which may fail; nothing to set if there is no kernel.
SetLinger(c) ==
    /\ at[c] = "set"
    /\ \/ /\ held[c] = "open"
          /\ \E onOff \in {"on", "off"} : linger' = onOff
       \/ UNCHANGED linger
    /\ locker' = IF locker = c THEN Free ELSE locker
    /\ at' = [at EXCEPT ![c] = "idle"]
    /\ held' = [held EXCEPT ![c] = "nil"]
    /\ UNCHANGED <<retryTimeout, sender, pc, kernel, failing, slept, down>>

-----------------------------------------------------------------------------
Output == OpenSized \/ OpenUnsized \/ OnKernelOpen \/ OnError \/ Retry

Next ==
    \/ \E templates \in 0..2, hasHandler \in BOOLEAN, rungs \in 0..1 :
         NewSender(templates, hasHandler, rungs)
    \/ Output \/ Break \/ Tick
    \/ \E c \in Closers : TakeKernel(c) \/ SetLinger(c)

\* Time passes, goroutines run, KernelLocker starves nobody.
Fairness ==
    /\ WF_vars(Tick)
    /\ WF_vars(OpenSized \/ OpenUnsized \/ OnError \/ Retry)
    /\ SF_vars(OnKernelOpen)
    /\ \A c \in Closers : WF_vars(SetLinger(c))

Spec == Init /\ [][Next]_vars
FairSpec == Spec /\ Fairness

-----------------------------------------------------------------------------
\* Properties

\* Every variable has its type.
TypeOK ==
    /\ retryTimeout \in Timeouts
    /\ sender \in {"none", "refused", "crashed", "plain", "retry"}
    /\ pc \in {"none", "opening", "unsized", "opened", "running", "failed",
               "sleeping", "ended"}
    /\ kernel \in {"nil", "open"}
    /\ failing \in Durations \cup {NoErrors}
    /\ slept \in BOOLEAN
    /\ locker \in Closers \cup {Free}
    /\ at \in [Closers -> {"idle", "set"}]
    /\ held \in [Closers -> {"nil", "open", "closed"}]
    /\ linger \in {"default", "on", "off"}
    /\ down \in Durations

\* A retried output is given up only after it could not be connected for longer
\* than the timeout: a reconnection in between, however short, starts the clock
\* anew.
GivesUpOnlyAfterTimeout ==
    sender = "retry" /\ pc = "ended" => down > retryTimeout

\* SetDropOnClose never sets the linger of a kernel of a retried output that
\* has been closed since it was looked up.
NoLingerOnClosedKernel ==
    \A c \in Closers : sender = "retry" => held[c] # "closed"

\* KernelLocker is held exactly by the SetDropOnClose in progress, on every
\* path out of it.
LockerHeldByCloser ==
    \A c \in Closers : locker = c <=> sender = "retry" /\ at[c] = "set"

\* A failed output does not stay so: it runs again or is given up, even if
\* every reopening fails.
FailureResolved == pc = "failed" ~> pc \in {"running", "ended"}
=============================================================================
