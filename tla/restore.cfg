CONSTANTS
    NumRestores = 2
    Namespace = {n1, n2}
    Home = n1
    Targets <- MCTargets
    Nowhere = Nowhere
    Original = Original
    FromPVC = FromPVC
    Size = {1, 2}
    Tarball <- MCTarball
    NumFaults = 1
    NumUser = 1
    MaxTrouble <- MCMaxTrouble
SPECIFICATION FairSpec
CHECK_DEADLOCK FALSE
INVARIANTS TypeOK SnapshotKept ContentAccounted RestoredData DownloadHasTarget RestoreInv ClaimsServed ServedInv 
PROPERTIES RestoreDelivers RestoreSettles
