SPECIFICATION Spec
CONSTANTS
    u1 = u1
    u2 = u2
    p1 = p1
    r1 = r1
    r2 = r2
    r3 = r3
    a1 = a1
    a2 = a2
    d1 = d1
    d2 = d2
    NoKey = NoKey
    Units <- MCUnits
    Parts <- MCParts
    MaxQty = 2
    MaxRequests <- MCMaxRequests
    Asks <- MCAsks
    Elsewhere <- MCElsewhere
    Rows <- MCRows
    Hits <- MCHits
    PageSize = 2
    MaxNarrow = 1
    Accounts = {a1, a2}
    Days = {d1, d2}
    Midnights <- MCMidnights
    Choices <- MCChoices
    Horizon <- MCHorizon
INVARIANT OverridePricesItsLine OneTicketPerRepair GivesOutWhatWasDrafted RowsAnswerTheFilter
INVARIANT SavesWhatWasShown SavesOnlyWhatWasEdited LockedFormKeepsItsDraft
INVARIANT CodesAreSpentOnce NumbersRunOn EverybodySeesHisOwn NothingInTheFuture
SYMMETRY MCSymmetry
PROPERTY CountedEditsLeaveOne
CHECK_DEADLOCK FALSE
