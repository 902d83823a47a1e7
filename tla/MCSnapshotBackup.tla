-------------------------- MODULE MCSnapshotBackup --------------------------
(* Values of the constants of SnapshotBackup for TLC's runs. *)
EXTENDS SnapshotBackup

CONSTANTS b1, b2, s1, s2, u, NumFaults, NumTimeouts, NumCrashes

\* s1 and s2 belong to the first and the second backup, u to a user.
MCOwner == [s \in Snap |-> IF s = s1 THEN b1 ELSE IF s = s2 THEN b2 ELSE NoBackup]

MCMaxTrouble ==
    [k \in Trouble |-> CASE k = "fault"   -> NumFaults
                         [] k = "timeout" -> NumTimeouts
                         [] k = "crash"   -> NumCrashes]
=============================================================================
