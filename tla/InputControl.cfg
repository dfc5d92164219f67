CONSTANTS
    FlagInputs <- MCFlagInputs
    BadNumber = BadNumber
    Clients = {c1, c2}
    Lister = c1
    Options = {o1, o2}
    NoOption = NoOption
    MaxInt = 1
    MaxRoom = 1
    Prios <- MCPrios
    Nums <- MCNums
SPECIFICATION Spec
SYMMETRY OptionSymmetry
INVARIANTS
    TypeOK
    NoInternalError
    CrashOnlyByHugePriority
    GroupsAgree
    ListingFaithful
    AckedOptionVisible
