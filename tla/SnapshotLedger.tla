--------------------------- MODULE SnapshotLedger ---------------------------
(***************************************************************************)
(* What the plugin promises about the snapshots Velero backups create,     *)
(* whatever the objects in the cluster go through:                         *)
(*   - the storage provider holds a snapshot once, from the time it is     *)
(*     taken until it is erased, and an erased one does not come back;     *)
(*   - a snapshot is listed in its backup only after it was taken;         *)
(*   - a snapshot is erased, or drops off the list, only after that became *)
(*     due: its backup is being deleted, or a failure that somebody can    *)
(*     know of came first;                                                 *)
(*   - what is due stays due.                                              *)
(***************************************************************************)
CONSTANT Snap

VARIABLES
    store,    \* store[s]: the snapshot in the storage provider
    listed,   \* the snapshots that a backup's tarball lists
    due       \* the snapshots whose end is accounted for

ledger == <<store, listed, due>>

Init ==
    /\ store = [s \in Snap |-> "none"]
    /\ listed = {}
    /\ due = {}

Take(s) ==
    /\ store[s] = "none"
    /\ store' = [store EXCEPT ![s] = "stored"]
    /\ UNCHANGED <<listed, due>>

List(s) ==
    /\ store[s] # "none"
    /\ listed' = listed \cup {s}
    /\ UNCHANGED <<store, due>>

Erase(s) ==
    /\ store[s] = "stored" /\ s \in due
    /\ store' = [store EXCEPT ![s] = "erased"]
    /\ UNCHANGED <<listed, due>>

\* Deletions are requested and failures happen; a restart of Velero may cost a
\* backup in progress its list.
Settle ==
    /\ due \subseteq due' /\ due' \subseteq Snap
    /\ listed' \subseteq listed /\ listed \ listed' \subseteq due'
    /\ UNCHANGED store

Next ==
    \/ \E s \in Snap : Take(s) \/ List(s) \/ Erase(s)
    \/ Settle

Spec == Init /\ [][Next]_ledger
=============================================================================
