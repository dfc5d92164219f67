--------------------------- MODULE MCControlCall ---------------------------
(* An instance of ControlCall for TLC. *)
EXTENDS ControlCall

CONSTANT here

Tcp == [scheme |-> "tcp", rest |-> here]
Host == [scheme |-> "host", rest |-> here]

\* A listener in clear text, one with TLS, and a target that reaches only one.
MCListenAddrs == {Tcp, Host}
MCRemoteAddrs == {Host}

\* Settings, whose methods end in every way a unary call can, and the streams.
MCMethods ==
    {"SetFPSFraction", "GetFPSFraction", "SetVideoAutoBitRateCalculator",
     "GetVideoAutoBitRateCalculator", "SetVideoAutoBitRateConfig",
     "GetVideoAutoBitRateConfig", "SetStopInput", "WaitChan", "Monitor"}
=============================================================================
