CONSTANTS
    FlagInputs <- MCFlagInputs
    BadNumber = BadNumber
    Clients = {c1, c2}
    Lister = c1
    Options = {o1}
    NoOption = NoOption
    MaxInt = 1
    MaxRoom = 1
    Prios <- MCAllPrios
    Nums <- MCNums
SPECIFICATION Spec
PROPERTY OutOfRangeRefused
