CONSTANTS
    Workers = {w1, w2}
    NumResources = 2
    MaxStreams = 2
    MaxOpens = 4
    NoSource = NoSource
    NoCall = NoCall
SPECIFICATION Spec
INVARIANTS
    TypeOK
    NoLeakedSource
    MapReady
    ZeroIsFirstStream
PROPERTY
    IndexSpaceSpec
