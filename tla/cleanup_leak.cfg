CONSTANTS
    b1 = b1
    b2 = b2
    s1 = s1
    s2 = s2
    u = u
    NoBackup = NoBackup
    Backup = {b1}
    Snap = {s1}
    Owner <- MCOwner
    ClassPolicies = {"Retain"}
    Flaky = {}
    NumFaults = 0
    NumTimeouts = 1
    NumCrashes = 0
    MaxTrouble <- MCMaxTrouble
SPECIFICATION FairSpec
CHECK_DEADLOCK FALSE
PROPERTY FailureReclaims
