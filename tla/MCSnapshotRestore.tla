------------------------- MODULE MCSnapshotRestore -------------------------
(* Values of the constants of SnapshotRestore for TLC's runs. *)
EXTENDS SnapshotRestore

CONSTANTS NumFaults, NumUser

\* The first restore goes to the PVC's own namespace, the second to any.
MCTargets == [r \in Restore |-> IF r = 1 THEN {Home} ELSE Namespace]

MCMaxTrouble ==
    [k \in Trouble |-> CASE k = "fault" -> NumFaults
                         [] k = "user" -> NumUser]

Plain == [vs |-> "none", moved |-> FALSE, noted |-> FALSE,
          request |-> 1, size |-> 0, secrets |-> {}]

\* A snapshot larger than the PVC, with both secrets; a volume that was moved,
\* and one whose DataUpload the PVC does not name; a VS without a content.
MCTarball ==
    { [Plain EXCEPT !.vs = "handle", !.noted = TRUE, !.size = 2, !.secrets = Secret],
      [Plain EXCEPT !.moved = TRUE, !.noted = TRUE],
      [Plain EXCEPT !.moved = TRUE],
      [Plain EXCEPT !.vs = "bare"] }
=============================================================================
