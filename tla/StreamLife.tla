----------------------------- MODULE StreamLife -----------------------------
(***************************************************************************)
(* What an ffstream process promises about its life, whatever its clients  *)
(* do: it streams what its command line asks for or refuses to start; a    *)
(* stream that is served and well is neither refused nor ended; once it    *)
(* ran it leaves by its stream's stop alone, which follows a failure or    *)
(* the end of the pipeline; the auto-bit-rate config is the command line's *)
(* until a client that sees the stream replaces it, and taking it away     *)
(* from a start that needs it is the one way to crash the process.         *)
(***************************************************************************)
CONSTANTS
    Startable,   \* command lines that can be streamed
    AbrCfgs,     \* auto-bit-rate configs
    NoABR        \* the absence of one

VARIABLES
    command,     \* the command line; command.abr is the config it asks for
    phase,       \* "starting", "running", "over", "refused" or "crashed"
    stream,      \* "none", "built", "configured", "served", "failed", "stopped"
    config       \* the auto-bit-rate config of the stream

lifeVars == <<command, phase, stream, config>>

LifeInit == phase = "starting" /\ stream = "none" /\ config = NoABR

Move(from, to) == stream \in from /\ stream' = to /\ UNCHANGED <<command, phase>>

\* Clients see the stream from here on, and before it has its config.
Build == Move({"none"}, "built") /\ phase = "starting" /\ UNCHANGED config

Configure == Move({"built"}, "configured") /\ config' = command.abr

\* A client's.
SetConfig ==
    /\ stream # "none"
    /\ config' \in AbrCfgs \cup {NoABR}
    /\ UNCHANGED <<command, phase, stream>>

Serve == Move({"configured"}, "served") /\ command \in Startable /\ UNCHANGED config

Fail == Move({"served"}, "failed") /\ UNCHANGED config

Stop == Move({"failed"}, "stopped") /\ UNCHANGED config

Run ==
    /\ phase = "starting" /\ stream \in {"served", "failed", "stopped"}
    /\ phase' = "running"
    /\ UNCHANGED <<command, stream, config>>

\* The process is gone, and its stream with it.
Leave(how) == phase' = how /\ stream' = "none" /\ config' = NoABR /\ UNCHANGED command

Exit == phase = "running" /\ stream = "stopped" /\ Leave("over")

Refuse == phase = "starting" /\ stream # "served" /\ Leave("refused")

Crash ==
    /\ phase = "starting" /\ stream = "configured"
    /\ command.abr # NoABR /\ config = NoABR
    /\ Leave("crashed")

LifeNext ==
    \/ Build \/ Configure \/ SetConfig \/ Serve \/ Fail \/ Stop
    \/ Run \/ Exit \/ Refuse \/ Crash

LifeSpec == LifeInit /\ [][LifeNext]_lifeVars
=============================================================================
