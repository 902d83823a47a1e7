CONSTANTS
    b1 = b1
    b2 = b2
    s1 = s1
    s2 = s2
    u = u
    NoBackup = NoBackup
    Backup = {b1, b2}
    Snap = {s1}
    Owner <- MCOwner
    ClassPolicies = {"Delete", "Retain"}
    Flaky = {"createVS", "getVS", "getVSC", "labelVSC", "annotateVS", "patchVSC", "deleteVS", "deleteVSC", "createVSC"}
    NumFaults = 1
    NumTimeouts = 1
    NumCrashes = 1
    MaxTrouble <- MCMaxTrouble
SPECIFICATION Spec
CHECK_DEADLOCK FALSE
INVARIANTS TypeOK SafetyInv NoSilentLoss RecordedHasHandle KeptWhileAnswered
PROPERTY LedgerKept
