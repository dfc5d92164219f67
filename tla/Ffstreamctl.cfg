CONSTANTS
    Calls = {k1, k2}
    CommandLines <- MCLines
    Text = Text
    Event = Event
    CallMethods <- AllMethods
    Values <- MCValues
    NoValue = NoValue
    Default = Default
    NilConfig <- NoConfig
    NoMethod = NoMethod
    BadFPS <- MCBadFPS
    WithLibsrt = TRUE
    ListenAddrs <- Plain
    RemoteAddrs <- Target
    here = here
SPECIFICATION CtlSpec
SYMMETRY Symmetry
INVARIANTS
    ExitZeroMeansDone
    TypedIsStored
