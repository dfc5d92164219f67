CONSTANTS
    Clients = {}
    Free = Free
    NoABR = NoABR
    AbrCfgs <- MCAbrCfgs
    MaxRungs = 2
    Configs <- LadderConfigs
    ReqProps <- MCReqProps
    Fractions <- MCFractions
    Calculators = {k1}
    DefaultCalc = k0
    NoProps = NoProps
    Ops <- NoOps
    Bypass = Bypass
    ErrCap = 2
SPECIFICATION Spec
INVARIANT RungCreatesItsResolution
