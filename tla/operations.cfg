CONSTANTS
    Op = {"snapshot", "upload", "download"}
    Kind <- MCKind
    MaxTrouble <- MCMaxTrouble
SPECIFICATION FairSpec
CHECK_DEADLOCK FALSE
INVARIANTS TypeOK NoFalseSuccess NoFalseFailure NoStrayTransfer OperationInv
PROPERTY EndIsReported
