----------------------- MODULE MCPVCSnapshotDecision -----------------------
(* Values of the constants of PVCSnapshotDecision for TLC's runs. *)
EXTENDS PVCSnapshotDecision

\* Two spellings of one driver, and another driver.
MCFold == [d \in Driver |-> IF d = "CSI" THEN "csi" ELSE d]
=============================================================================
