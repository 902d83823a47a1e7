CONSTANTS
    b1 = b1
    b2 = b2
    s1 = s1
    s2 = s2
    u = u
    NoBackup = NoBackup
    Backup = {b1}
    Snap = {s1}
    Owner <- MCOwner
    ClassPolicies = {"Delete", "Retain"}
    Flaky = {"getVS"}
    NumFaults = 1
    NumTimeouts = 0
    NumCrashes = 0
    MaxTrouble <- MCMaxTrouble
SPECIFICATION Spec
CHECK_DEADLOCK FALSE
INVARIANT RetainedUntilDeleted
