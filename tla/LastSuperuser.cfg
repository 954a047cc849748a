SPECIFICATION AccountSpec
CONSTANTS
    a1 = a1
    a2 = a2
    NoKey = NoKey
    Units = {}
    Parts = {}
    MaxQty = 1
    MaxRequests <- MCMaxRequests
    Accounts = {a1, a2}
SYMMETRY MCSymmetry
PROPERTY LastOneIsNotDemoted
CHECK_DEADLOCK FALSE
