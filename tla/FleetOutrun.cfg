SPECIFICATION Spec
CONSTANTS
    mc1 = mc1
    mc2 = mc2
    n1 = n1
    n2 = n2
    h1 = h1
    h2 = h2
    Nil = Nil
    MgmtClusters = {mc1, mc2}
    Notifications = {n1, n2}
    Clusters = {h1, h2}
    ResendWaits = {2, 7}
    StaleTimeout = 1
    Int32Half = 8
    DurationHalf = 6
    NewRecords <- WaitingRecord
    Fleet <- Huge
    MaxTime = 4
    Limits <- OutrunLimits
CHECK_DEADLOCK FALSE
PROPERTIES
    KeepsRecentItems
