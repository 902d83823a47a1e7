--------------------------- MODULE SnapshotBackup ---------------------------
(***************************************************************************)
(* The life of the volume snapshots of Velero backups, as the plugin's     *)
(* backup and delete item actions drive it:                                *)
(*   - PVCBackupItemAction creates a VolumeSnapshot (VS) for a PVC;        *)
(*   - VolumeSnapshotBackupItemAction waits for its content (VSC), labels  *)
(*     and annotates, and in the Finalizing phase of the backup removes    *)
(*     the VS and keeps a static VSC;                                      *)
(*   - VolumeSnapshot(Content)DeleteItemAction release the snapshot when   *)
(*     the backup is deleted.                                              *)
(* Velero itself (what it records in the backup's tarball, its phases, its *)
(* restart) is external and modelled from how the actions use it.          *)
(*                                                                         *)
(* A task <<b, s>> is the work of backup b on snapshot s; the task is one  *)
(* of b's own when b created s, and otherwise backs up a foreign VS that   *)
(* lies in a namespace b includes.  Each API call is a step of its own.    *)
(***************************************************************************)
EXTENDS CsiCluster, FiniteSets

CONSTANTS
    MaxTrouble,  \* how often a call fails, a wait times out, Velero restarts
    Flaky        \* the API calls that may fail for no reason of the model's

Trouble == {"fault", "timeout", "crash"}

Calls == {"createVS", "getVS", "getVSC", "labelVSC", "annotateVS", "patchVSC",
          "deleteVS", "deleteVSC", "createVSC"}

ASSUME TroubleAssumption == MaxTrouble \in [Trouble -> Nat]
ASSUME FlakyAssumption   == Flaky \subseteq Calls

VARIABLES
    phase,     \* phase[b]: the phase of backup b
    pc,        \* pc[t]: where task t stands
    loc,       \* loc[t]: the local variables of the handler that runs t
    rec,       \* rec[t]: what the tarball of the backup says of the snapshot
    todo,      \* todo[t]: the recorded items the deletion has yet to visit
    reported,  \* tasks whose Execute returned an error (history)
    killed,    \* tasks a restart of Velero interrupted (history)
    budget     \* how many troubles may still happen

vars == <<vs, vsc, cloud, phase, pc, loc, rec, todo, reported, killed, budget>>

Task == Backup \X Snap

\* Mutant: the label is not looked at.
AnyBackupLabel(label, b) == TRUE

\* The backup-name label of an object names backup b.
HasBackupLabel(label, b) == label = b

\* backupOngoing: b created the VS.
Own(b, s) == Owner[s] = b

Phases == {"new", "inprogress", "waiting", "finalizing", "completed", "failed",
           "deleting", "deleted"}

(* idle: not started; created, recorded, finalized: between two handlers.  *)
Reading   == {"getvs", "poll", "getvsc"}
Cleaning  == {"cleanget", "cleanpatch", "cleandelete"}
Saving    == {"label", "annotate", "attach"}
Finishing == {"finpatch", "findelete", "recdelete", "recwait", "reccreate"}
Deleting  == {"delvs", "delvsc"}
Ended     == {"finalized", "failed", "done"}
Busy == {"created"} \cup Reading \cup Cleaning \cup Saving \cup Finishing \cup Deleting
PCs  == Busy \cup Ended \cup {"idle", "recorded"}

\* bound, ann: the VS item as Velero passes it to Execute; content: the VSC
\* Execute got (st "absent": nil); recreate: the deferred recreation is due.
Locals  == [bound : BOOLEAN, ann : BOOLEAN, content : ContentObjects, recreate : BOOLEAN]
NoLocal == [bound |-> FALSE, ann |-> FALSE, content |-> NoContent, recreate |-> FALSE]

\* vs, vsc: is the object in the tarball; bound, ann: of the VS in it;
\* label: the backup-name label of the VSC in it.
Records  == [vs : BOOLEAN, bound : BOOLEAN, ann : BOOLEAN, vsc : BOOLEAN,
             label : Backup \cup {NoBackup}]
NoRecord == [vs |-> FALSE, bound |-> FALSE, ann |-> FALSE, vsc |-> FALSE,
             label |-> NoBackup]

\* Objects, backups, tasks and budgets keep their types.
TypeOK ==
    /\ ClusterTypeOK
    /\ phase \in [Backup -> Phases]
    /\ pc \in [Task -> PCs]
    /\ loc \in [Task -> Locals]
    /\ rec \in [Task -> Records]
    /\ todo \in [Task -> SUBSET {"vs", "vsc"}]
    /\ reported \subseteq Task
    /\ killed \subseteq Task
    /\ budget \in [Trouble -> Nat]

Init ==
    /\ ClusterInit
    /\ phase = [b \in Backup |-> "new"]
    /\ pc = [t \in Task |-> "idle"]
    /\ loc = [t \in Task |-> NoLocal]
    /\ rec = [t \in Task |-> NoRecord]
    /\ todo = [t \in Task |-> {}]
    /\ reported = {} /\ killed = {}
    /\ budget = MaxTrouble

-----------------------------------------------------------------------------
(* Helpers.                                                                *)

Spend(k) == budget[k] > 0 /\ budget' = [budget EXCEPT ![k] = @ - 1]

\* A call returns an error.  One that changes an object may have changed it all
\* the same: its answer got lost.
Fails(call) == call \in Flaky /\ Spend("fault")

Goto(t, label) == pc' = [pc EXCEPT ![t] = label]

\* Execute returns an error, which Velero adds to the errors of the backup.
ReturnError(t) == Goto(t, "failed") /\ reported' = reported \cup {t}

\* The handlers of one backup run one after the other.
Quiet(b) == \A s \in Snap : pc[<<b, s>>] \notin Busy

backups == <<phase, rec, todo>>
history == <<reported, killed>>

-----------------------------------------------------------------------------
(* Velero: a backup starts when no other one is in progress.               *)

StartBackup(b) ==
    /\ phase[b] = "new"
    /\ \A c \in Backup : phase[c] # "inprogress"
    /\ phase' = [phase EXCEPT ![b] = "inprogress"]
    /\ UNCHANGED <<cluster, pc, loc, rec, todo, history, budget>>

-----------------------------------------------------------------------------
(* PVCBackupItemAction.Execute for the PVC of s.                           *)

PVCSkipped(b, s) ==
    /\ Goto(<<b, s>>, "done")
    /\ UNCHANGED <<cluster, loc, backups, history, budget>>

CreateSnapshotObject(s) == vs' = [vs EXCEPT ![s].st = "live"]

\* Nothing is cleaned up after a Create that failed.
PVCError(b, s) ==
    /\ Fails("createVS")
    /\ CreateSnapshotObject(s) \/ UNCHANGED vs
    /\ ReturnError(<<b, s>>)
    /\ UNCHANGED <<vsc, cloud, loc, backups, killed>>

PVCSnapshot(b, s) ==
    /\ CreateSnapshotObject(s)
    /\ Goto(<<b, s>>, "created")
    /\ UNCHANGED <<vsc, cloud, loc, backups, history, budget>>

PVCExecute(b, s) ==
    /\ phase[b] = "inprogress" /\ Own(b, s)
    /\ pc[<<b, s>>] = "idle" /\ Quiet(b)
    /\ PVCSkipped(b, s) \/ PVCError(b, s) \/ PVCSnapshot(b, s)

-----------------------------------------------------------------------------
(* VolumeSnapshotBackupItemAction.Execute.                                 *)

\* Velero fetches the VS and calls Execute: as an additional item of its PVC,
\* as an item of an included namespace, or as an item to update at the end.
FetchSnapshot(b, s) ==
    LET t == <<b, s>> IN
    /\ \/ phase[b] = "inprogress" /\ Own(b, s) /\ pc[t] = "created"
       \/ phase[b] = "inprogress" /\ ~Own(b, s) /\ pc[t] = "idle" /\ Quiet(b)
       \/ phase[b] = "finalizing" /\ Own(b, s) /\ pc[t] = "recorded" /\ Quiet(b)
    /\ IF vs[s].st = "absent"
       THEN Goto(t, "done") /\ UNCHANGED loc
       ELSE /\ loc' = [loc EXCEPT ![t] = [bound |-> vs[s].bound, ann |-> vs[s].ann,
                                          content |-> NoContent, recreate |-> FALSE]]
            /\ Goto(t, IF Own(b, s) THEN "getvs"
                       ELSE IF vs[s].bound THEN "getvsc" ELSE "annotate")
    /\ UNCHANGED <<cluster, backups, history, budget>>

\* GetVolumeSnapshotContentForVolumeSnapshot, its poll's first call.
GetSnapshot(b, s) ==
    LET t == <<b, s>> IN
    /\ pc[t] \in {"getvs", "poll"}
    /\ \/ /\ vs[s].st # "absent"
          /\ Goto(t, IF vs[s].bound THEN "getvsc" ELSE "poll")
          /\ UNCHANGED budget
       \/ /\ vs[s].st = "absent"
          /\ Goto(t, "cleanget")
          /\ UNCHANGED budget
       \/ /\ Fails("getVS")
          /\ Goto(t, "cleanget")
       \/ /\ pc[t] = "poll" /\ Spend("timeout")
          /\ Goto(t, "cleanget")
    /\ UNCHANGED <<cluster, loc, backups, history>>

\* Mutant: the poll ends when the content exists.
ContentExists(s) == TRUE

\* What the poll waits for, once the content exists.
ContentReady(s) == vsc[s].handle

\* The poll's second call; for a foreign VS the only one.  The poll goes on
\* until the content has a snapshot handle.
GetContent(b, s) ==
    LET t == <<b, s>> IN
    /\ pc[t] = "getvsc"
    /\ \/ /\ vsc[s].st # "absent"
          /\ Own(b, s) /\ ~ContentReady(s)
          /\ Goto(t, "poll")
          /\ UNCHANGED <<loc, budget>>
       \/ /\ vsc[s].st # "absent"
          /\ ~Own(b, s) \/ ContentReady(s)
          /\ loc' = [loc EXCEPT ![t].content = vsc[s]]
          /\ Goto(t, IF phase[b] = "finalizing" THEN "finpatch"
                     ELSE IF Own(b, s) THEN "label" ELSE "annotate")
          /\ UNCHANGED budget
       \/ /\ vsc[s].st = "absent"
          /\ Goto(t, "cleanget")
          /\ UNCHANGED <<loc, budget>>
       \/ /\ Fails("getVSC")
          /\ Goto(t, "cleanget")
          /\ UNCHANGED loc
    /\ UNCHANGED <<cluster, backups, history>>

\* Mutant: the value in the raw patch is misspelt.
SetMisspeltPolicy(s) == PatchPolicy(s, "delete")

SetVolumeSnapshotContentDeletionPolicy(s) == PatchPolicy(s, "Delete")

\* CleanupVolumeSnapshot: its errors are logged and Execute returns the error
\* it already has.
CleanupGet(b, s) ==
    LET t == <<b, s>> IN
    /\ pc[t] = "cleanget"
    /\ \/ /\ vs[s].st # "absent"
          /\ Goto(t, IF vs[s].bound THEN "cleanpatch" ELSE "cleandelete")
          /\ UNCHANGED <<reported, budget>>
       \/ vs[s].st = "absent" /\ ReturnError(t) /\ UNCHANGED budget
       \/ Fails("getVS") /\ ReturnError(t)
    /\ UNCHANGED <<cluster, loc, backups, killed>>

CleanupPatch(b, s) ==
    LET t == <<b, s>> IN
    /\ pc[t] = "cleanpatch"
    /\ \/ SetVolumeSnapshotContentDeletionPolicy(s) /\ UNCHANGED budget
       \/ vsc[s].st = "absent" /\ UNCHANGED <<vsc, budget>>
       \/ Fails("patchVSC") /\ (SetVolumeSnapshotContentDeletionPolicy(s) \/ UNCHANGED vsc)
    /\ Goto(t, "cleandelete")
    /\ UNCHANGED <<vs, cloud, loc, backups, history>>

\* Mutant: the VS is left.
CleanupNothing(s) == UNCHANGED vs

CleanupEffect(s) == DeleteSnapshotObject(s)

CleanupDelete(b, s) ==
    LET t == <<b, s>> IN
    /\ pc[t] = "cleandelete"
    /\ \/ CleanupEffect(s) /\ UNCHANGED budget
       \/ Fails("deleteVS") /\ (CleanupEffect(s) \/ UNCHANGED vs)
    /\ ReturnError(t)
    /\ UNCHANGED <<vsc, cloud, loc, backups, killed>>

\* Mutant: the label is not put on the VSC.
LabelNothing(b, s) == UNCHANGED vsc

PatchLabel(b, s) ==
    /\ vsc[s].st # "absent"
    /\ vsc' = [vsc EXCEPT ![s].label = b]

\* The backup-name label on the VSC; a failure is only a warning.
LabelContent(b, s) ==
    LET t == <<b, s>> IN
    /\ pc[t] = "label"
    /\ \/ PatchLabel(b, s) /\ UNCHANGED budget
       \/ vsc[s].st = "absent" /\ UNCHANGED <<vsc, budget>>
       \/ Fails("labelVSC") /\ (PatchLabel(b, s) \/ UNCHANGED vsc)
    /\ Goto(t, "annotate")
    /\ UNCHANGED <<vs, cloud, loc, backups, history>>

\* The annotations on the VS in the cluster and on the item; a failure is an
\* error, and nothing is cleaned up.
AnnotateSnapshot(b, s) ==
    LET t == <<b, s>>
        handle == loc[t].content.handle
        PatchAnnotation == /\ vs[s].st # "absent"
                           /\ vs' = [vs EXCEPT ![s].ann = IF handle THEN TRUE ELSE @]
    IN
    /\ pc[t] = "annotate"
    /\ \/ /\ PatchAnnotation
          /\ loc' = [loc EXCEPT ![t].ann = IF handle THEN TRUE ELSE @]
          /\ Goto(t, "attach")
          /\ UNCHANGED <<reported, budget>>
       \/ vs[s].st = "absent" /\ ReturnError(t) /\ UNCHANGED <<vs, loc, budget>>
       \/ /\ Fails("annotateVS")
          /\ PatchAnnotation \/ UNCHANGED vs
          /\ ReturnError(t)
          /\ UNCHANGED loc
    /\ UNCHANGED <<vsc, cloud, backups, killed>>

\* Velero backs up the returned VS and its additional item, the VSC, on which
\* VolumeSnapshotContentBackupItemAction runs.
RecordItems(b, s) ==
    LET t == <<b, s>>
        withContent == loc[t].content.st # "absent" /\ vsc[s].st # "absent"
    IN
    /\ pc[t] = "attach"
    /\ rec' = [rec EXCEPT ![t] =
                  [vs |-> TRUE, bound |-> loc[t].bound, ann |-> loc[t].ann,
                   vsc |-> withContent,
                   label |-> IF withContent THEN vsc[s].label ELSE NoBackup]]
    /\ Goto(t, IF Own(b, s) THEN "recorded" ELSE "done")
    /\ loc' = [loc EXCEPT ![t] = NoLocal]
    /\ UNCHANGED <<cluster, phase, todo, history, budget>>

-----------------------------------------------------------------------------
(* Velero: the items are backed up; then, once the asynchronous operations *)
(* are over (or timed out), the items to update are processed again.       *)

EndInProgress(b) ==
    /\ phase[b] = "inprogress"
    /\ Quiet(b) /\ \A s \in Snap : pc[<<b, s>>] # "idle"
    /\ phase' = [phase EXCEPT ![b] = "waiting"]
    /\ UNCHANGED <<cluster, pc, loc, rec, todo, history, budget>>

StartFinalize(b) ==
    /\ phase[b] = "waiting"
    /\ phase' = [phase EXCEPT ![b] = "finalizing"]
    /\ UNCHANGED <<cluster, pc, loc, rec, todo, history, budget>>

-----------------------------------------------------------------------------
(* DeleteVolumeSnapshot and the recreateVolumeSnapshotContent it defers:   *)
(* every error is only logged.                                             *)

\* Mutant: the policy is taken to be Retain already.
ModifyNever(t) == FALSE

\* modifyVSCFlag
ModifyVSC(t) == loc[t].bound /\ loc[t].content.policy = "Delete"

\* Mutant: the recreation starts from the VSC of before the patch.
OldContent(t, patched) == loc[t].content

\* updatedVSC: the recreation starts from the answer to the patch.
UpdatedContent(t, patched) == patched

FinalizePatch(b, s) ==
    LET t == <<b, s>> IN
    /\ pc[t] = "finpatch"
    /\ \/ /\ ~ModifyVSC(t)
          /\ Goto(t, "findelete")
          /\ UNCHANGED <<vsc, loc, budget>>
       \/ /\ ModifyVSC(t)
          /\ PatchPolicy(s, "Retain")
          /\ loc' = [loc EXCEPT ![t] = [@ EXCEPT !.content = UpdatedContent(t, vsc'[s]),
                                                !.recreate = TRUE]]
          /\ Goto(t, "findelete")
          /\ UNCHANGED budget
       \/ /\ ModifyVSC(t) /\ vsc[s].st = "absent"
          /\ Goto(t, "finalized")
          /\ UNCHANGED <<vsc, loc, budget>>
       \/ /\ ModifyVSC(t) /\ Fails("patchVSC")
          /\ PatchPolicy(s, "Retain") \/ UNCHANGED vsc
          /\ Goto(t, "finalized")
          /\ UNCHANGED loc
    /\ UNCHANGED <<vs, cloud, backups, history>>

\* The deferred call that runs when DeleteVolumeSnapshot returns.
RecreateDeferred(t) == loc[t].recreate

FinalizeDelete(b, s) ==
    LET t == <<b, s>> IN
    /\ pc[t] = "findelete"
    /\ \/ DeleteSnapshotObject(s) /\ UNCHANGED budget
       \/ Fails("deleteVS") /\ (DeleteSnapshotObject(s) \/ UNCHANGED vs)
    /\ Goto(t, IF RecreateDeferred(t) THEN "recdelete" ELSE "finalized")
    /\ UNCHANGED <<vsc, cloud, loc, backups, history>>

\* The first call of recreateVolumeSnapshotContent: after an error, also one that
\* only says that the answer is lost, it neither waits nor creates.
RecreateDelete(b, s) ==
    LET t == <<b, s>> IN
    /\ pc[t] = "recdelete"
    /\ \/ /\ vsc[s].st # "absent"
          /\ DeleteContentObject(s)
          /\ Goto(t, "recwait")
          /\ UNCHANGED budget
       \/ vsc[s].st = "absent" /\ Goto(t, "finalized") /\ UNCHANGED <<vsc, budget>>
       \/ /\ Fails("deleteVSC")
          /\ DeleteContentObject(s) \/ UNCHANGED vsc
          /\ Goto(t, "finalized")
    /\ UNCHANGED <<vs, cloud, loc, backups, history>>

\* Mutant: the recreation does not wait for the old VSC to go.
RecreateAtOnce(b, s) ==
    /\ pc[<<b, s>>] = "recwait" /\ Goto(<<b, s>>, "reccreate")
    /\ UNCHANGED <<cluster, loc, backups, history, budget>>

RecreateWait(b, s) ==
    LET t == <<b, s>> IN
    /\ pc[t] = "recwait"
    /\ \/ vsc[s].st = "absent" /\ Goto(t, "reccreate") /\ UNCHANGED budget
       \/ vsc[s].st # "absent" /\ Spend("timeout") /\ Goto(t, "finalized")
       \/ Fails("getVSC") /\ Goto(t, "finalized")
    /\ UNCHANGED <<cluster, loc, backups, history>>

\* The VSC under the name of the old one, made static.
CreateStaticContent(s, content) ==
    /\ vsc[s].st = "absent"
    /\ vsc' = [vsc EXCEPT ![s] = [content EXCEPT
                  !.st = "live", !.static = TRUE, !.handle = FALSE]]

RecreateCreate(b, s) ==
    LET t == <<b, s>> IN
    /\ pc[t] = "reccreate"
    /\ \/ CreateStaticContent(s, loc[t].content) /\ UNCHANGED budget
       \/ vsc[s].st # "absent" /\ UNCHANGED <<vsc, budget>>
       \/ /\ Fails("createVSC")
          /\ CreateStaticContent(s, loc[t].content) \/ UNCHANGED vsc
    /\ Goto(t, "finalized")
    /\ UNCHANGED <<vs, cloud, loc, backups, history>>

\* Velero puts the updated items into the tarball, over the earlier ones: the
\* VS as Execute got it and the VSC as it is in the cluster now.
Updated(t) ==
    LET s == t[2] IN
    IF pc[t] # "finalized" THEN rec[t]
    ELSE [rec[t] EXCEPT
            !.bound = loc[t].bound, !.ann = loc[t].ann,
            !.vsc   = IF vsc[s].st # "absent" THEN TRUE ELSE @,
            !.label = IF vsc[s].st # "absent" THEN vsc[s].label ELSE @]

CompleteBackup(b) ==
    /\ phase[b] = "finalizing" /\ Quiet(b)
    /\ \A s \in Snap : pc[<<b, s>>] # "recorded"
    /\ phase' = [phase EXCEPT ![b] = "completed"]
    /\ rec' = [t \in Task |-> IF t[1] = b THEN Updated(t) ELSE rec[t]]
    /\ loc' = [t \in Task |-> IF t[1] = b THEN NoLocal ELSE loc[t]]
    /\ UNCHANGED <<cluster, pc, todo, history, budget>>

-----------------------------------------------------------------------------
(* The deletion of a backup: Velero calls the delete item actions on the   *)
(* recorded items, in any order of the resources, and goes on after errors.*)

Recorded(t) == (IF rec[t].vs THEN {"vs"} ELSE {}) \cup (IF rec[t].vsc THEN {"vsc"} ELSE {})

RequestDelete(b) ==
    /\ phase[b] \in {"completed", "failed"}
    /\ phase' = [phase EXCEPT ![b] = "deleting"]
    /\ todo' = [t \in Task |-> IF t[1] = b THEN Recorded(t) ELSE todo[t]]
    /\ UNCHANGED <<cluster, pc, loc, rec, history, budget>>

Visit(t, item) ==
    /\ phase[t[1]] = "deleting" /\ Quiet(t[1])
    /\ item \in todo[t]
    /\ todo' = [todo EXCEPT ![t] = @ \ {item}]

\* VolumeSnapshotDeleteItemAction.Execute
DeleteVSPatch(b, s) ==
    LET t == <<b, s>> IN
    /\ Visit(t, "vs")
    /\ \/ /\ ~HasBackupLabel(Owner[s], b)
          /\ UNCHANGED <<vsc, pc, budget>>
       \/ /\ HasBackupLabel(Owner[s], b) /\ rec[t].bound
          /\ \/ SetVolumeSnapshotContentDeletionPolicy(s) /\ Goto(t, "delvs") /\ UNCHANGED budget
             \/ vsc[s].st = "absent" /\ UNCHANGED <<vsc, pc, budget>>
             \/ /\ Fails("patchVSC")
                /\ SetVolumeSnapshotContentDeletionPolicy(s) \/ UNCHANGED vsc
                /\ UNCHANGED pc
       \/ /\ HasBackupLabel(Owner[s], b) /\ ~rec[t].bound
          /\ Goto(t, "delvs")
          /\ UNCHANGED <<vsc, budget>>
    /\ UNCHANGED <<vs, cloud, phase, loc, rec, history>>

DeleteVSDelete(b, s) ==
    LET t == <<b, s>> IN
    /\ pc[t] = "delvs"
    /\ \/ DeleteSnapshotObject(s) /\ UNCHANGED budget
       \/ Fails("deleteVS") /\ (DeleteSnapshotObject(s) \/ UNCHANGED vs)
    /\ Goto(t, "done")
    /\ UNCHANGED <<vsc, cloud, loc, backups, history>>

\* VolumeSnapshotContentDeleteItemAction.Execute
DeleteVSCPatch(b, s) ==
    LET t == <<b, s>> IN
    /\ Visit(t, "vsc")
    /\ \/ ~HasBackupLabel(rec[t].label, b) /\ UNCHANGED <<vsc, pc, budget>>
       \/ /\ HasBackupLabel(rec[t].label, b)
          /\ \/ SetVolumeSnapshotContentDeletionPolicy(s) /\ Goto(t, "delvsc") /\ UNCHANGED budget
             \/ vsc[s].st = "absent" /\ UNCHANGED <<vsc, pc, budget>>
             \/ /\ Fails("patchVSC")
                /\ SetVolumeSnapshotContentDeletionPolicy(s) \/ UNCHANGED vsc
                /\ UNCHANGED pc
    /\ UNCHANGED <<vs, cloud, phase, loc, rec, history>>

DeleteVSCDelete(b, s) ==
    LET t == <<b, s>> IN
    /\ pc[t] = "delvsc"
    /\ \/ DeleteContentObject(s) /\ UNCHANGED budget
       \/ Fails("deleteVSC") /\ (DeleteContentObject(s) \/ UNCHANGED vsc)
    /\ Goto(t, "done")
    /\ UNCHANGED <<vs, cloud, loc, backups, history>>

FinishDelete(b) ==
    /\ phase[b] = "deleting" /\ Quiet(b)
    /\ \A s \in Snap : todo[<<b, s>>] = {}
    /\ phase' = [phase EXCEPT ![b] = "deleted"]
    /\ UNCHANGED <<cluster, pc, loc, rec, todo, history, budget>>

-----------------------------------------------------------------------------
(* Velero's server, and the plugin processes with it, stops and starts     *)
(* again: a backup in progress is marked failed and has no tarball; a      *)
(* backup being finalized or deleted is processed again.                   *)

Interrupted(t) == pc[t] \in Busy \cup {"recorded"} /\ phase[t[1]] # "waiting"

Restarted(t) ==
    IF phase[t[1]] = "finalizing" /\ Own(t[1], t[2]) /\ rec[t].vs THEN "recorded"
    ELSE IF Interrupted(t) THEN "done" ELSE pc[t]

Crash ==
    /\ Spend("crash")
    /\ phase' = [b \in Backup |-> IF phase[b] = "inprogress" THEN "failed" ELSE phase[b]]
    /\ pc' = [t \in Task |-> Restarted(t)]
    /\ loc' = [t \in Task |-> NoLocal]
    /\ rec' = [t \in Task |-> IF phase[t[1]] = "inprogress" THEN NoRecord ELSE rec[t]]
    /\ todo' = [t \in Task |-> IF phase[t[1]] = "deleting" THEN Recorded(t) ELSE todo[t]]
    /\ killed' = killed \cup {t \in Task : Interrupted(t)}
    /\ UNCHANGED <<cluster, reported>>

-----------------------------------------------------------------------------
Controller(s) == Csi(s) /\ UNCHANGED <<phase, pc, loc, rec, todo, history, budget>>

Handler(b, s) ==
    \/ PVCExecute(b, s)
    \/ FetchSnapshot(b, s)
    \/ GetSnapshot(b, s)
    \/ GetContent(b, s)
    \/ CleanupGet(b, s)
    \/ CleanupPatch(b, s)
    \/ CleanupDelete(b, s)
    \/ LabelContent(b, s)
    \/ AnnotateSnapshot(b, s)
    \/ RecordItems(b, s)
    \/ FinalizePatch(b, s)
    \/ FinalizeDelete(b, s)
    \/ RecreateDelete(b, s)
    \/ RecreateWait(b, s)
    \/ RecreateCreate(b, s)
    \/ DeleteVSPatch(b, s)
    \/ DeleteVSDelete(b, s)
    \/ DeleteVSCPatch(b, s)
    \/ DeleteVSCDelete(b, s)

Velero(b) ==
    \/ StartBackup(b)
    \/ EndInProgress(b)
    \/ StartFinalize(b)
    \/ CompleteBackup(b)
    \/ FinishDelete(b)

Next ==
    \/ \E s \in Snap : Controller(s)
    \/ \E b \in Backup, s \in Snap : Handler(b, s)
    \/ \E b \in Backup : Velero(b) \/ RequestDelete(b)
    \/ Crash

Spec == Init /\ [][Next]_vars

\* Controllers, handlers and Velero's queues keep going; nobody is obliged to
\* delete a backup, and trouble need not come.
Fairness ==
    /\ \A s \in Snap : WF_vars(Controller(s))
    /\ \A b \in Backup, s \in Snap : WF_vars(Handler(b, s))
    /\ \A b \in Backup : WF_vars(Velero(b))

FairSpec == Spec /\ Fairness
-----------------------------------------------------------------------------
(* Properties.                                                             *)

\* Task t failed in a way somebody can know of: Execute returned an error, is
\* cleaning up to return one, or was cut off by a restart.
Troubled(t) == t \in reported \cup killed \/ pc[t] \in Cleaning

\* The loss of s is accounted for: its backup is being deleted, or a handler
\* that worked on it failed and somebody can know.
Accounted(s) ==
    \/ Owner[s] # NoBackup /\ phase[Owner[s]] \in {"deleting", "deleted"}
    \/ \E b \in Backup : Troubled(<<b, s>>)

\* The ledger of the backups' and the user's snapshots that this system keeps.
ListedSnaps == {s \in Snap : \E b \in Backup : Own(b, s) /\ rec[<<b, s>>].vs}
DueSnaps    == {s \in Snap : Accounted(s)}

Ledger == INSTANCE SnapshotLedger
              WITH store <- cloud, listed <- ListedSnaps, due <- DueSnaps

\* Every step of the handlers, the controllers and Velero is a step of the
\* ledger or changes nothing in it: a snapshot is taken once, listed when taken,
\* and erased or struck from the list when that is due.
LedgerKept == Ledger!Spec

\* A snapshot vanishes from the storage provider only because its backup is
\* being deleted or because a handler that worked on it failed and says so:
\* no order of handlers, controllers and failures loses a backup silently.
NoSilentLoss == \A s \in Snap : cloud[s] = "erased" => Accounted(s)

\* The tarball never lists a snapshot of the backup's own that a restore could
\* not use: the handle annotation, which restore reads, is on the recorded VS
\* (backup/volumesnapshot_action.go:163-175), also after the finalization
\* replaced the item.
RecordedHasHandle ==
    \A b \in Backup, s \in Snap :
        Own(b, s) /\ rec[<<b, s>>].vs => rec[<<b, s>>].ann /\ cloud[s] # "none"

\* A completed backup has left the VSC alone in the cluster, with the policy
\* that protects the snapshot, and the snapshot is there (the comment in
\* util.go:434-437).
OnlyContentRemains ==
    \A b \in Backup, s \in Snap :
        phase[b] = "completed" /\ Own(b, s) /\ rec[<<b, s>>].vs =>
            /\ vs[s].st # "live" /\ vsc[s].st = "live" /\ cloud[s] = "stored"
            /\ vsc[s].policy = "Retain" \/ \E c \in Backup : Troubled(<<c, s>>)

\* The VSC of a snapshot that still exists is there as long as its backup is
\* complete, also when patches and the deletion of the VS failed: without it the
\* deletion of the backup cannot reach the snapshot (util.go:434-437).
ContentKept ==
    \A b \in Backup, s \in Snap :
        /\ phase[b] = "completed" /\ Own(b, s) /\ rec[<<b, s>>].vs
        /\ cloud[s] = "stored"
        => vsc[s].st # "absent"

\* A snapshot listed in a backup's tarball is kept until the backup is deleted
\* (backup/volumesnapshot_action.go:139-140: "retain these
\* volumesnapshotcontent ONLY for the lifetime of the backup").
RetainedUntilDeleted ==
    \A b \in Backup, s \in Snap :
        /\ Own(b, s) /\ rec[<<b, s>>].vs
        /\ phase[b] \notin {"deleting", "deleted"}
        => cloud[s] = "stored"

\* A step leaves the VS of s alive and the policy of its content as it is.
Untouched(s) ==
    /\ vs[s].st = "live" => vs'[s].st = "live"
    /\ vsc[s].st # "absent" => vsc'[s].policy = vsc[s].policy

\* A VS the user made outlives every backup that includes it, and its content
\* keeps its deletion policy (backup/volumesnapshot_action.go:86-87 and
\* delete/volumesnapshot_action.go:41-43).
UserSnapshotUntouched == [][\A s \in UserSnap : Untouched(s)]_vars

\* The last step of the sidecar is all that is missing for the snapshot to go.
Going(s) ==
    \/ cloud[s] # "stored"
    \/ vsc[s].st = "deleting" /\ vsc[s].policy = "Delete" /\ vs[s].st # "live"

\* When Velero has deleted a backup, each snapshot that the backup listed is
\* erased or cannot but be erased by the sidecar: the delete actions, which find
\* no VS and a VSC that was replaced (delete/volumesnapshot_action.go:32-71,
\* delete/volumesnapshotcontent_action.go:31-77), left nothing to do.
DeletionReleases ==
    \A b \in Backup, s \in Snap :
        Own(b, s) /\ rec[<<b, s>>].vs /\ phase[b] = "deleted" => Going(s)

\* Once a backup is deleted, none of its snapshots stays in the storage
\* provider.
DeletionReclaims ==
    \A b \in Backup, s \in Snap :
        Own(b, s) => (phase[b] = "deleted" ~> [](cloud[s] # "stored"))

\* Nothing but steps of the controllers is missing for the VS and the VSC to go
\* and, if there is a snapshot, for it to go with them.
Vanishing(s) ==
    /\ vs[s].st # "live"
    /\ vsc[s].st = "live" => vs[s].st = "deleting"
    /\ IF vsc[s].st = "absent" THEN cloud[s] # "stored"
       ELSE vsc[s].policy = "Delete" /\ ~vsc[s].static

\* The backup action failed on a snapshot that the backup therefore does not list.
Attempted(t) == pc[t] = "failed" /\ ~rec[t].vs

\* Execute returns an error only when nothing of the attempt stays, or what is
\* left is on its way out, whatever the order of its cleanup, the controllers
\* and the cleanup of other backups (util.go:397-419).  Nothing of the kind holds
\* when the creation of the VS fails after it took effect (backup/pvc_action.go:157).
FailureReleases ==
    \A b \in Backup, s \in Snap : Own(b, s) /\ Attempted(<<b, s>>) => Vanishing(s)

\* A snapshot whose backup action failed while it waited for the content is
\* cleaned up, also in the storage provider (util.go:406-407).
FailureReclaims ==
    \A b \in Backup, s \in Snap :
        Own(b, s) => (Attempted(<<b, s>>) ~> [](cloud[s] # "stored"))
-----------------------------------------------------------------------------
(* The inductive invariant behind NoSilentLoss and RecordedHasHandle.      *)

\* The handlers at work in each phase, and whose snapshot they work on.
PhaseInv(b, s) == LET t == <<b, s>> IN
    /\ pc[t] \in Saving \cup {"created"} => phase[b] = "inprogress"
    /\ pc[t] \in Reading \cup Cleaning =>
          phase[b] = "inprogress" \/ (phase[b] = "finalizing" /\ Own(b, s))
    /\ pc[t] \in Finishing => phase[b] = "finalizing"
    /\ pc[t] = "finalized" => phase[b] \notin {"new", "inprogress", "waiting"}
    /\ pc[t] \in Deleting => phase[b] = "deleting"
    /\ pc[t] \in Finishing \cup Deleting
                 \cup {"created", "getvs", "poll", "label", "recorded", "finalized"}
       => Own(b, s)
    /\ phase[b] = "new" => pc[t] = "idle"

\* A VSC, and every copy of one, bears the label of the VS's backup or none.
LabelInv(b, s) ==
    /\ vsc[s].label \in {NoBackup, Owner[s]}
    /\ loc[<<b, s>>].content.label \in {NoBackup, Owner[s]}
    /\ rec[<<b, s>>].label \in {NoBackup, Owner[s]}

\* The second visit of a recorded snapshot, in the Finalizing phase.
Revisited(t) == phase[t[1]] = "finalizing" /\ pc[t] \in Reading \cup Finishing \cup {"finalized"}

\* What the handlers of a backup know of its own snapshot stays true.
KnowledgeInv(b, s) == LET t == <<b, s>> IN
    /\ pc[t] = "recorded" \/ Revisited(t) => rec[t].vs
    /\ pc[t] = "idle" => ~rec[t].vs
    /\ rec[t].vs /\ phase[b] = "inprogress" => pc[t] = "recorded"
    /\ pc[t] \in Saving \cup Finishing \/ rec[t].vs => cloud[s] # "none"
    /\ pc[t] \in {"label", "annotate"} => loc[t].content.handle
    /\ pc[t] = "attach" => loc[t].ann
    /\ pc[t] \in Saving \cup {"getvsc"} \/ rec[t].vs => vs[s].st = "absent" \/ vs[s].bound
    /\ pc[t] = "attach" \/ rec[t].vs => vs[s].st = "absent" \/ vs[s].ann
    /\ rec[t].vs => rec[t].ann
    /\ Revisited(t) => loc[t].bound /\ loc[t].ann

\* The content of s is safe from the deletion of its VS, or an account is due.
Protected(s) == vsc[s].st = "absent" \/ vsc[s].policy = "Retain" \/ Accounted(s)

\* A finalization that relies on the policy Retain may do so.
FinishInv(b, s) == LET t == <<b, s>> IN
    /\ pc[t] \in Reading \cup {"finpatch"} => ~loc[t].recreate
    /\ pc[t] = "finpatch" /\ loc[t].content.policy = "Retain" => Protected(s)
    /\ pc[t] \in Finishing \ {"finpatch"} => Protected(s)
    /\ pc[t] \in Finishing /\ loc[t].recreate => loc[t].content.policy = "Retain"
    /\ pc[t] \in {"recdelete", "recwait", "reccreate"} => loc[t].recreate

\* The content that goes, or may go with its VS, does not take the snapshot
\* along, or an account is due.
ContentInv(s) ==
    /\ vsc[s].handle => cloud[s] # "none"
    /\ vsc[s].st # "absent" /\ ~vsc[s].static /\ ~vsc[s].handle => cloud[s] = "none"
    /\ vs[s].st = "deleting" /\ ~vsc[s].static => Protected(s)
    /\ vsc[s].st = "deleting" => Protected(s)

\* The invariant itself: the named parts above, for all backups and snapshots.
SafetyInv ==
    /\ TypeOK
    /\ \A b \in Backup, s \in Snap :
          /\ PhaseInv(b, s)
          /\ LabelInv(b, s)
          /\ Own(b, s) => KnowledgeInv(b, s)
          /\ FinishInv(b, s)
    /\ \A s \in Snap : ContentInv(s)
    /\ NoSilentLoss
-----------------------------------------------------------------------------
(* The invariants behind the properties that some failures break; they hold *)
(* when those failures do not occur, see SnapshotKeepingProofs.             *)

\* While the GET of a content does not fail, no cleanup reaches a user's VS:
\* a VS that is bound has its content, and nobody deletes either.
UserInv(s) ==
    /\ vs[s].st = "live" /\ vsc[s].st # "deleting"
    /\ vs[s].bound => vsc[s].st = "live"
    /\ \A b \in Backup : LET t == <<b, s>> IN
          /\ pc[t] \notin Cleaning
          /\ pc[t] = "getvsc" => vs[s].bound

\* Backup b lists s and nobody asked to delete b.
Kept(b, s) == rec[<<b, s>>].vs /\ phase[b] \notin {"deleting", "deleted"}

\* The VS is there, with its dynamic content once it is bound to one.
Present(s) ==
    /\ vs[s].st = "live" /\ vsc[s].st # "deleting" /\ ~vsc[s].static
    /\ vs[s].bound => vsc[s].st = "live"

\* The VS is gone or going, the dynamic content is gone; a static one stays.
Gone(s) ==
    /\ vs[s].st # "live"
    /\ vsc[s].st = "absent" \/ (vsc[s].st = "live" /\ vsc[s].static)

\* The content, if there is one, does not take the snapshot along.
Retaining(s) == vsc[s].st = "absent" \/ vsc[s].policy = "Retain"

\* Nothing of s exists before the PVC action creates its VS.
UnusedInv(b, s) ==
    pc[<<b, s>>] = "idle" =>
        /\ vs[s] = NoSnapshot /\ vsc[s] = NoContent /\ cloud[s] = "none"
        /\ \A c \in Backup \ {b} : pc[<<c, s>>] \notin Cleaning \cup {"getvsc"}

\* The PVC action has created the VS, and s is not recorded yet.
Open(b, s) ==
    \/ pc[<<b, s>>] \in {"created"} \cup Saving
    \/ pc[<<b, s>>] \in Reading /\ ~rec[<<b, s>>].vs

\* Until s is recorded, no other backup cleans up after it.
OpenInv(b, s) ==
    Open(b, s) =>
        /\ Present(s) /\ cloud[s] # "erased"
        /\ \A c \in Backup \ {b} :
              /\ pc[<<c, s>>] \notin Cleaning
              /\ pc[<<c, s>>] = "getvsc" => vs[s].bound

\* A content that goes, or may go with its VS, retains the snapshot, and the
\* cleanup of another backup comes too late to change that.
ObjectsInv(b, s) ==
    /\ cloud[s] = "stored"
    /\ vsc[s].st = "deleting" => vsc[s].policy = "Retain" /\ vsc[s].handle
    /\ vs[s].st # "live" /\ ~vsc[s].static => Retaining(s)
    /\ vsc[s].st = "absent" \/ vsc[s].static => vs[s].st # "live"
    /\ \A c \in Backup \ {b} :
          pc[<<c, s>>] \in Cleaning =>
              Gone(s) /\ (vsc[s].st # "absent" => pc[<<b, s>>] = "finalized")

\* What the finalization, also one begun anew after a restart, relies on.
RelianceInv(b, s) == LET t == <<b, s>> IN
    /\ pc[t] = "finpatch" /\ loc[t].content.policy = "Retain" => Retaining(s)
    /\ pc[t] \in Finishing \ {"finpatch"} => Retaining(s)
    /\ pc[t] \in {"finpatch", "findelete", "recdelete"} =>
          vsc[s].st = "absent" \/ vsc[s].handle
    /\ pc[t] \in {"poll", "cleanpatch", "cleandelete"} => Gone(s)
    /\ pc[t] = "cleanget" => vs[s].st = "absent" \/ Gone(s)

\* What the finalization leaves when none of its calls fails, no wait ends early
\* and Velero does not restart.
RemainInv(b, s) == LET t == <<b, s>> IN Kept(b, s) =>
    /\ pc[t] \in {"recorded", "getvs", "getvsc", "finalized"} \cup Finishing
    /\ pc[t] \in {"recorded", "getvs", "getvsc", "finpatch", "findelete"} => Present(s)
    /\ pc[t] \in {"recdelete", "recwait", "reccreate", "finalized"} => vs[s].st # "live"
    /\ pc[t] \in {"recdelete", "finalized"} => vsc[s].st = "live"
    /\ pc[t] = "reccreate" => vsc[s].st = "absent"
    /\ pc[t] = "finalized" => Retaining(s) \/ Accounted(s)
    /\ phase[b] = "completed" => pc[t] = "finalized"

\* No cleanup ever works on a VS that a user made, which stays bound to its
\* content, as long as the content can be read (backup/volumesnapshot_action.go:94-98).
UserSnapshotsInv == \A s \in UserSnap : UserInv(s)

KeepInv(b, s) ==
    /\ UnusedInv(b, s)
    /\ OpenInv(b, s)
    /\ Kept(b, s) => ObjectsInv(b, s) /\ RelianceInv(b, s)

\* Every snapshot a backup made, and lists from its recording on, is kept by
\* whoever works on it.
KeepingInv == \A b \in Backup, s \in Snap : Own(b, s) => KeepInv(b, s)

\* The GETs after whose failure Execute cleans up never fail, or no call has yet.
CleanReads    == {"getVS", "getVSC"}
ReadsAnswered == CleanReads \cap Flaky = {} \/ budget["fault"] = MaxTrouble["fault"]

\* KeepingInv holds until such a GET fails: no restart, no early end of a wait
\* and no other failing call makes a backup lose what it lists.
KeptWhileAnswered ==
    /\ budget["fault"] <= MaxTrouble["fault"]
    /\ ReadsAnswered => KeepingInv

\* The deletion goes by the label: from its recording on, the VSC bears the one
\* of its backup, and so do the copy it is recreated from and its record.
LabelledInv(b, s) == LET t == <<b, s>> IN
    /\ pc[t] \in {"annotate", "attach"} => vsc[s].label = b
    /\ rec[t].vs =>
          /\ vsc[s].st = "absent" \/ vsc[s].label = b
          /\ pc[t] \in Finishing => loc[t].content.label = b
          /\ phase[b] \in {"completed", "deleting"} => rec[t].vsc /\ rec[t].label = b

\* What the deletion has done of its work, whichever item it visits first.
ReleaseInv(b, s) == LET t == <<b, s>> IN
    rec[t].vs /\ phase[b] \in {"deleting", "deleted"} =>
        /\ vs[s].st # "live"
        /\ vsc[s].st = "live" \/ Going(s)
        /\ pc[t] = "delvsc" /\ vsc[s].st = "live" => vsc[s].policy = "Delete"
        /\ "vsc" \in todo[t] \/ pc[t] = "delvsc" \/ Going(s)
        /\ phase[b] = "deleted" => Going(s)

\* As long as nothing fails and Velero does not restart, no VSC loses the label
\* and the deletion of a backup leaves it live only until it has visited it.
DeletionInv ==
    \A b \in Backup, s \in Snap :
        Own(b, s) => phase[b] # "failed" /\ LabelledInv(b, s) /\ ReleaseInv(b, s)

\* s is not listed, or may be struck from the list by a restart.
Tentative(b, s) == ~rec[<<b, s>>].vs \/ phase[b] = "inprogress"

\* What there is of such a snapshot: the VSC is dynamic, with the policy of the
\* class, holds the snapshot if there is one, and goes with the VS.
AttemptInv(b, s) == LET t == <<b, s>> IN
    Tentative(b, s) =>
        /\ vsc[s].st # "absent" => vsc[s].policy = "Delete" /\ ~vsc[s].static
        /\ vsc[s].st = "absent" => cloud[s] # "stored"
        /\ vs[s].st = "absent" => vsc[s].st # "live"
        /\ pc[t] = "idle" => vs[s].st = "absent"
        /\ pc[t] = "failed" => vs[s].st # "live"

\* No attempt leaves anything behind as long as the class has policy Delete and
\* no creation, read, annotation or DELETE of a VS fails (util.go:397-419).
AttemptsInv == \A b \in Backup, s \in Snap : Own(b, s) => AttemptInv(b, s)

\* As long as no call fails that the finalization needs, no wait ends early and
\* Velero does not restart, the finalization has removed the VS and has put the
\* content back by the time it is complete (util.go:423-522).
RemainingInv ==
    /\ budget["timeout"] = 0 /\ budget["crash"] = 0
    /\ \A b \in Backup, s \in Snap : Own(b, s) => RemainInv(b, s)

\* The content of a kept snapshot is there but while it is being replaced, and
\* the one that replaces it finds the name free.
StayInv(b, s) == Kept(b, s) =>
    /\ vsc[s].st # "live" => pc[<<b, s>>] \in {"recwait", "reccreate"}
    /\ pc[<<b, s>>] = "reccreate" => vsc[s].st # "deleting"

\* As long as no wait ends early, Velero does not restart, and the reads, the
\* DELETE and the creation of the content are answered, nobody but the recreation
\* takes the content of a kept snapshot away, and it brings it back
\* (util.go:464-522).
StayingInv ==
    /\ budget["timeout"] = 0 /\ budget["crash"] = 0
    /\ \A b \in Backup, s \in Snap : Own(b, s) => StayInv(b, s)
=============================================================================
