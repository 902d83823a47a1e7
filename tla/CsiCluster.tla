----------------------------- MODULE CsiCluster -----------------------------
(***************************************************************************)
(* The cluster objects the plugin works on, and what the components around *)
(* it do to them: the snapshot controller and the CSI snapshotter sidecar. *)
(* Their code is not in this repository; it is modelled from what the      *)
(* plugin's code and comments rely on.                                     *)
(*                                                                         *)
(* A member s of Snap stands for one volume snapshot in its three forms:   *)
(*   vs[s]     the VolumeSnapshot object (VS);                             *)
(*   vsc[s]    the VolumeSnapshotContent object (VSC) of that VS; the      *)
(*             static VSC made by recreateVolumeSnapshotContent keeps the  *)
(*             name of the dynamic one it replaces, so it is vsc[s] too;   *)
(*   cloud[s]  the snapshot kept by the storage provider.                  *)
(* Owner[s] is the value of the label velero.io/backup-name of the VS: the *)
(* backup whose PVC action created it, or NoBackup for a user's own VS.    *)
(***************************************************************************)
EXTENDS Naturals

CONSTANTS
    Backup,         \* the backups (and their names: label.GetValidName is one-to-one here)
    NoBackup,       \* the value of an absent backup-name label
    Snap,           \* the volume snapshots
    Owner,          \* Owner[s]: the backup that creates s, or NoBackup
    ClassPolicies   \* the deletion policies of the VolumeSnapshotClasses in use

Policies == {"Delete", "Retain"}

ASSUME BackupAssumption == NoBackup \notin Backup
ASSUME OwnerAssumption  == Owner \in [Snap -> Backup \cup {NoBackup}]
ASSUME PolicyAssumption == ClassPolicies \subseteq Policies

VARIABLES vs, vsc, cloud

cluster == <<vs, vsc, cloud>>

UserSnap == {s \in Snap : Owner[s] = NoBackup}

\* "deleting": the object has a deletionTimestamp and waits for its finalizers.
ObjectStates == {"absent", "live", "deleting"}

\* bound: Status.BoundVolumeSnapshotContentName is set;
\* ann:   the annotation with the snapshot handle is set.
SnapshotObjects == [st : ObjectStates, bound : BOOLEAN, ann : BOOLEAN]

\* handle: Status.SnapshotHandle is set; label: the backup-name label;
\* static: Spec.Source names a snapshot handle and VolumeSnapshotRef no existing VS.
ContentObjects == [st : ObjectStates, policy : Policies, handle : BOOLEAN,
                   label : Backup \cup {NoBackup}, static : BOOLEAN]

NoSnapshot == [st |-> "absent", bound |-> FALSE, ann |-> FALSE]
NoContent  == [st |-> "absent", policy |-> "Retain", handle |-> FALSE,
               label |-> NoBackup, static |-> FALSE]

\* The objects keep their types.
ClusterTypeOK ==
    /\ vs \in [Snap -> SnapshotObjects]
    /\ vsc \in [Snap -> ContentObjects]
    /\ cloud \in [Snap -> {"none", "stored", "erased"}]

ClusterInit ==
    /\ vs = [s \in Snap |-> IF s \in UserSnap THEN [NoSnapshot EXCEPT !.st = "live"]
                                              ELSE NoSnapshot]
    /\ vsc = [s \in Snap |-> NoContent]
    /\ cloud = [s \in Snap |-> "none"]

-----------------------------------------------------------------------------
(* API calls: the effect of a successful DELETE, which on a missing or      *)
(* already deleting object changes nothing.                                 *)

DeleteSnapshotObject(s) ==
    vs' = [vs EXCEPT ![s].st = IF @ = "live" THEN "deleting" ELSE @]

DeleteContentObject(s) ==
    vsc' = [vsc EXCEPT ![s].st = IF @ = "live" THEN "deleting" ELSE @]

\* A merge patch of spec.deletionPolicy; the object must exist.
PatchPolicy(s, policy) ==
    /\ vsc[s].st # "absent"
    /\ vsc' = [vsc EXCEPT ![s].policy = policy]

-----------------------------------------------------------------------------
(* The external controllers.                                               *)

\* The snapshot controller creates the dynamic VSC of a new VS, with the
\* deletion policy of the VS's class.
CreateContent(s) ==
    /\ vs[s].st = "live" /\ ~vs[s].bound
    /\ vsc[s].st = "absent"
    /\ cloud[s] = "none"
    /\ \E p \in ClassPolicies :
          vsc' = [vsc EXCEPT ![s] = [NoContent EXCEPT !.st = "live", !.policy = p]]
    /\ UNCHANGED <<vs, cloud>>

BindSnapshot(s) ==
    /\ vs[s].st = "live" /\ ~vs[s].bound
    /\ vsc[s].st # "absent"
    /\ vs' = [vs EXCEPT ![s].bound = TRUE]
    /\ UNCHANGED <<vsc, cloud>>

\* The sidecar takes the snapshot of a dynamic VSC, or looks up the one a
\* static VSC names, and writes Status.SnapshotHandle.
TakeSnapshot(s) ==
    /\ vsc[s].st = "live" /\ ~vsc[s].handle
    /\ vsc[s].static => cloud[s] = "stored"
    /\ vsc' = [vsc EXCEPT ![s].handle = TRUE]
    /\ cloud' = [cloud EXCEPT ![s] = "stored"]
    /\ UNCHANGED vs

\* The deletion of a VS takes its dynamic VSC along when the policy is Delete.
FinishSnapshotDelete(s) ==
    /\ vs[s].st = "deleting"
    /\ vs' = [vs EXCEPT ![s] = NoSnapshot]
    /\ vsc' = [vsc EXCEPT ![s].st =
                  IF @ = "live" /\ ~vsc[s].static /\ vsc[s].policy = "Delete"
                  THEN "deleting" ELSE @]
    /\ UNCHANGED cloud

\* A VSC is released once the VS it refers to is gone or going (a static one
\* refers to none); with policy Delete the storage provider's snapshot goes too.
FinishContentDelete(s) ==
    /\ vsc[s].st = "deleting"
    /\ vs[s].st # "live" \/ vsc[s].static
    /\ vsc' = [vsc EXCEPT ![s] = NoContent]
    /\ cloud' = [cloud EXCEPT ![s] =
                    IF @ = "stored" /\ vsc[s].policy = "Delete" THEN "erased" ELSE @]
    /\ UNCHANGED vs

Csi(s) ==
    \/ CreateContent(s)
    \/ BindSnapshot(s)
    \/ TakeSnapshot(s)
    \/ FinishSnapshotDelete(s)
    \/ FinishContentDelete(s)
=============================================================================
