CONSTANTS
    Calls = {k1, k2}
    CallMethods <- MCMethods
    Values = {v1, v2}
    NoValue = NoValue
    Default = Default
    NilConfig = v2
    NoMethod = NoMethod
    BadFPS = {v2}
    WithLibsrt = TRUE
    ListenAddrs <- MCListenAddrs
    RemoteAddrs <- MCRemoteAddrs
    here = here
SPECIFICATION FairSpec
INVARIANTS
    TypeOK
    ConnectionReleased
    MessageMeansStopped
PROPERTIES
    RegisterSpec
    CallReturns
    WaitersReleased
    HandlersLeave
