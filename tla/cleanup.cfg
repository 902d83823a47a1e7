CONSTANTS
    b1 = b1
    b2 = b2
    s1 = s1
    s2 = s2
    u = u
    NoBackup = NoBackup
    Backup = {b1, b2}
    Snap = {s1}
    Owner <- MCOwner
    ClassPolicies = {"Delete"}
    Flaky = {"getVSC", "labelVSC", "patchVSC", "deleteVSC", "createVSC"}
    NumFaults = 1
    NumTimeouts = 2
    NumCrashes = 1
    MaxTrouble <- MCMaxTrouble
SPECIFICATION FairSpec
CHECK_DEADLOCK FALSE
INVARIANTS FailureReleases AttemptsInv
PROPERTIES FailureReclaims
