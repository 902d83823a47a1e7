CONSTANTS
    ClassName = {c1, c2, c3}
    NoName = NoName
    Driver = {"csi", "CSI", "other"}
    Fold <- MCFold
    Pod = {p1, p2}
    MaxVolumes = 2
    MaxClasses = 3
SPECIFICATION Spec
CHECK_DEADLOCK FALSE
INVARIANTS TypeOK SkippedIsCovered ClassIsCandidate DecisionInv
