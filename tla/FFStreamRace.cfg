CONSTANTS
    Clients = {c1, c2}
    Free = Free
    NoABR = NoABR
    AbrCfgs <- MCAbrCfgs
    MaxRungs = 2
    Configs <- RaceConfigs
    ReqProps <- MCReqProps
    Fractions <- MCFractions
    Calculators = {k1}
    DefaultCalc = k0
    NoProps = NoProps
    Ops <- AbrOps
    Bypass = Bypass
    ErrCap = 1
SPECIFICATION Spec
INVARIANTS
    TypeOK
    CheckedHandlerStays
    PreinitBeforeServe
    RungReadsOwnOrLater
    LastRungCovered
SYMMETRY ClientSymmetry
PROPERTY LifeSpec
