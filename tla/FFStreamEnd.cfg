CONSTANTS
    Clients = {c1}
    Free = Free
    NoABR = NoABR
    AbrCfgs <- MCAbrCfgs
    MaxRungs = 2
    Configs <- LifeConfigs
    ReqProps <- MCReqProps
    Fractions <- MCFractions
    Calculators = {k1}
    DefaultCalc = k0
    NoProps = NoProps
    Ops <- EndOps
    Bypass = Bypass
    ErrCap = 2
SPECIFICATION Spec
PROPERTY EndRefusedOnlyIfNotStarted
