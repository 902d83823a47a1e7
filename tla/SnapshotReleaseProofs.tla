----------------------- MODULE SnapshotReleaseProofs -----------------------
(***************************************************************************)
(* Proofs about SnapshotBackup, continued: when nothing fails, the deletion *)
(* of a backup releases each snapshot the backup lists.  That the sidecar  *)
(* then erases it is liveness and stays with TLC (DeletionReclaims).       *)
(***************************************************************************)
EXTENDS SnapshotKeepingProofs

\* Only the creation of a VS and its annotation may fail, both before there is
\* anything to release; no wait ends early and Velero does not restart.
Faultless ==
    /\ Flaky \subseteq {"createVS", "annotateVS"}
    /\ MaxTrouble["timeout"] = 0 /\ MaxTrouble["crash"] = 0

\* That is more than the finalization needs.
LEMMA FaultlessIsSmooth == Faultless => Smooth
  BY DEF Faultless, Smooth

\* The calls that label, patch and delete do not fail.
LEMMA Reliable ==
    ASSUME Faultless PROVE ~Fails("labelVSC") /\ ~Fails("patchVSC") /\ ~Fails("deleteVSC")
  BY DEF Faultless, Fails

\* A handler takes visits from the deletion of its own task only.
LEMMA HandlerTodo ==
    ASSUME NEW b \in Backup, NEW s \in Snap, TypeOK, Handler(b, s), NEW t \in Task \ {<<b, s>>}
    PROVE  todo'[t] = todo[t]
<1>1. todo \in [Task -> SUBSET {"vs", "vsc"}]
  BY DEF TypeOK
<1>2. CASE DeleteVSPatch(b, s) \/ DeleteVSCPatch(b, s)
  BY <1>1, <1>2 DEF DeleteVSPatch, DeleteVSCPatch, Visit
<1>3. CASE ~(DeleteVSPatch(b, s) \/ DeleteVSCPatch(b, s))
  <2>1. todo' = todo
    BY <1>3 DEF Handler, PVCExecute, FetchSnapshot, GetSnapshot, GetContent, CleanupGet,
       CleanupPatch, CleanupDelete, LabelContent, AnnotateSnapshot, RecordItems,
       FinalizePatch, FinalizeDelete, RecreateDelete, RecreateWait, RecreateCreate,
       DeleteVSDelete, DeleteVSCDelete, PVCSkipped, PVCError, PVCSnapshot, backups
  <2>2. QED BY <2>1
<1> QED BY <1>2, <1>3

\* Velero queues and visits the items of one backup at a time.
LEMMA VeleroTodo ==
    ASSUME NEW c \in Backup, TypeOK, Velero(c) \/ RequestDelete(c),
           NEW b \in Backup \ {c}, NEW s \in Snap
    PROVE  todo'[<<b, s>>] = todo[<<b, s>>]
<1>1. <<b, s>> \in Task /\ <<b, s>>[1] # c /\ todo \in [Task -> SUBSET {"vs", "vsc"}]
  BY TaskPair DEF TypeOK
<1> QED BY <1>1 DEF Velero, StartBackup, EndInProgress, StartFinalize, CompleteBackup,
           FinishDelete, RequestDelete

-----------------------------------------------------------------------------
(* The label.                                                              *)

\* The controllers take no label away from a VSC that stays.
LEMMA LabelledController ==
    ASSUME SafetyInv, KeepingInv, NEW b \in Backup, NEW s \in Snap, Own(b, s), LabelledInv(b, s),
           Controller(s)
    PROVE  LabelledInv(b, s)'
<1> DEFINE t == <<b, s>>
<1>0. /\ UNCHANGED <<phase, pc, loc, rec>>
      /\ vsc \in [Snap -> ContentObjects] /\ KnowledgeInv(b, s)
  BY ControllerFrame DEF SafetyInv, TypeOK, ClusterTypeOK
<1>1. CASE CreateContent(s)
  <2>1. pc[t] \notin {"annotate", "attach"} /\ ~rec[t].vs
    BY <1>0, <1>1 DEF CreateContent, KnowledgeInv, Saving
  <2>2. QED BY <1>0, <2>1 DEF LabelledInv
<1>2. CASE FinishContentDelete(s)
  <2>1. pc[t] \notin {"annotate", "attach"}
    BY <1>2 DEF FinishContentDelete, KeepingInv, KeepInv, OpenInv, Open, Saving, Present
  <2>2. vsc'[s].st = "absent"
    BY <1>0, <1>2 DEF FinishContentDelete, NoContent
  <2>3. QED BY <1>0, <2>1, <2>2 DEF LabelledInv
<1>3. CASE BindSnapshot(s) \/ TakeSnapshot(s) \/ FinishSnapshotDelete(s)
  <2>1. vsc'[s].label = vsc[s].label
    BY <1>0, <1>3 DEF BindSnapshot, TakeSnapshot, FinishSnapshotDelete, ContentObjects
  <2>2. vsc[s].st = "absent" => vsc'[s].st = "absent"
    BY <1>0, <1>3 DEF BindSnapshot, TakeSnapshot, FinishSnapshotDelete, ContentObjects
  <2>3. QED BY <1>0, <2>1, <2>2 DEF LabelledInv
<1> QED BY <1>1, <1>2, <1>3 DEF Controller, Csi

\* Another backup's handlers put no label on the VSC.
LEMMA LabelledStranger ==
    ASSUME Answered, SafetyInv, NEW b \in Backup, NEW s \in Snap, Own(b, s), LabelledInv(b, s),
           NEW c \in Backup \ {b}, Handler(c, s)
    PROVE  LabelledInv(b, s)'
<1> DEFINE t == <<b, s>>
<1>0. /\ phase' = phase /\ pc'[t] = pc[t] /\ rec'[t] = rec[t] /\ loc'[t] = loc[t]
      /\ ClusterTypeOK
  BY HandlerFrame, OtherTask DEF HandlerKeeps, SafetyInv, TypeOK
<1>1. vsc' = vsc \/ PatchPolicy(s, "Delete")
  BY Stranger
<1>2. vsc'[s].label = vsc[s].label /\ vsc'[s].st = vsc[s].st
  BY <1>0, <1>1, PatchedPolicy DEF Policies
<1> QED BY <1>0, <1>2 DEF LabelledInv

\* The handler that labels finds the VSC, and the one that recreates it copies
\* the label.
LEMMA LabelledHandler ==
    ASSUME Faultless, SafetyInv, KeepingInv, NEW b \in Backup, NEW s \in Snap, Own(b, s),
           LabelledInv(b, s), Handler(b, s)
    PROVE  LabelledInv(b, s)'
<1> DEFINE t == <<b, s>>
<1>0. /\ t \in Task /\ t[1] = b /\ ClusterTypeOK
      /\ pc \in [Task -> PCs] /\ loc \in [Task -> Locals] /\ rec \in [Task -> Records]
      /\ vsc \in [Snap -> ContentObjects] /\ phase' = phase
      /\ KnowledgeInv(b, s) /\ PhaseInv(b, s) /\ FinishInv(b, s)
  BY TaskPair, HandlerRec DEF SafetyInv, TypeOK, ClusterTypeOK
<1> USE <1>0 DEF Goto
<1>1. CASE LabelContent(b, s)
  <2>1. pc[t] = "label" /\ pc'[t] = "annotate" /\ loc' = loc /\ rec' = rec
    BY <1>1 DEF LabelContent, backups
  <2>2. Present(s) /\ vs[s].bound
    BY <2>1 DEF KeepingInv, KeepInv, OpenInv, Open, Saving, KnowledgeInv, Present
  <2>3. vsc[s].st = "live"
    BY <2>2 DEF Present
  <2>4. PatchLabel(b, s)
    BY <1>1, <2>3, Reliable DEF LabelContent
  <2>5. vsc'[s].label = b
    BY <2>4, BackupAssumption DEF PatchLabel, ContentObjects
  <2>6. phase[b] = "inprogress"
    BY <2>1 DEF PhaseInv, Saving
  <2>7. QED BY <2>1, <2>5, <2>6 DEF LabelledInv, Finishing
<1>2. CASE RecordItems(b, s)
  <2>1. pc[t] = "attach" /\ pc'[t] = "recorded" /\ vsc' = vsc /\ phase[b] = "inprogress"
    BY <1>2 DEF RecordItems, cluster, PhaseInv, Saving
  <2>2. QED BY <2>1 DEF LabelledInv, Finishing
<1>3. CASE GetContent(b, s)
  <2>1. /\ pc[t] = "getvsc" /\ vsc' = vsc /\ rec' = rec
        /\ pc'[t] \notin {"annotate", "attach"}
        /\ pc'[t] \in Finishing => loc'[t].content = vsc[s] /\ vsc[s].st # "absent"
    BY <1>3 DEF GetContent, cluster, backups, Finishing, Locals
  <2>2. QED BY <2>1 DEF LabelledInv
<1>4. CASE FinalizePatch(b, s)
  <2>1. /\ pc[t] = "finpatch" /\ pc'[t] \in {"findelete", "finalized"} /\ rec' = rec
        /\ \/ vsc' = vsc /\ loc' = loc
           \/ /\ PatchPolicy(s, "Retain")
              /\ loc' = [loc EXCEPT ![t] = [@ EXCEPT !.content = vsc'[s], !.recreate = TRUE]]
    BY <1>4, Reliable DEF FinalizePatch, UpdatedContent, backups
  <2>2. CASE vsc' = vsc /\ loc' = loc
    BY <2>1, <2>2 DEF LabelledInv, Finishing
  <2>3. CASE /\ PatchPolicy(s, "Retain")
             /\ loc' = [loc EXCEPT ![t] = [@ EXCEPT !.content = vsc'[s], !.recreate = TRUE]]
    <3>1. vsc[s].st # "absent" /\ vsc'[s].label = vsc[s].label /\ vsc'[s].st = vsc[s].st
      BY <2>3, PatchedPolicy DEF Policies
    <3>2. loc'[t].content.label = vsc'[s].label
      BY <2>3 DEF Locals
    <3>3. QED BY <2>1, <3>1, <3>2 DEF LabelledInv
  <2>4. QED BY <2>1, <2>2, <2>3
<1>5. CASE RecreateCreate(b, s)
  <2>1. pc[t] = "reccreate" /\ pc'[t] = "finalized" /\ rec' = rec
    BY <1>5 DEF RecreateCreate, backups
  <2>2. \/ vsc' = vsc
        \/ vsc' = [vsc EXCEPT ![s] = [loc[t].content EXCEPT
                        !.st = "live", !.static = TRUE, !.handle = FALSE]]
    BY <1>5 DEF RecreateCreate, CreateStaticContent
  <2>3. vsc' = vsc \/ vsc'[s].label = loc[t].content.label
    BY <2>2 DEF Locals, ContentObjects
  <2>4. QED BY <2>1, <2>3 DEF LabelledInv, Finishing
\* The other handlers leave record, label and copy alone.
<1>6. CASE \/ PVCExecute(b, s) \/ FetchSnapshot(b, s) \/ GetSnapshot(b, s)
           \/ CleanupGet(b, s) \/ CleanupPatch(b, s) \/ CleanupDelete(b, s)
           \/ AnnotateSnapshot(b, s) \/ FinalizeDelete(b, s) \/ RecreateDelete(b, s)
           \/ RecreateWait(b, s) \/ DeleteVSPatch(b, s) \/ DeleteVSDelete(b, s)
           \/ DeleteVSCPatch(b, s) \/ DeleteVSCDelete(b, s)
  <2>1. \/ vsc' = vsc \/ PatchPolicy(s, "Delete") \/ DeleteContentObject(s)
    BY <1>6 DEF PVCExecute, PVCSkipped, PVCError, PVCSnapshot, FetchSnapshot, GetSnapshot,
       CleanupGet, CleanupPatch, CleanupDelete, AnnotateSnapshot, FinalizeDelete,
       RecreateDelete, RecreateWait, DeleteVSPatch, DeleteVSDelete, DeleteVSCPatch,
       DeleteVSCDelete, cluster, SetVolumeSnapshotContentDeletionPolicy
  <2>2. /\ vsc'[s].label = vsc[s].label
        /\ vsc[s].st = "absent" => vsc'[s].st = "absent"
    BY <2>1, PatchedPolicy, DeletedContent DEF Policies
  <2>3. rec' = rec
    BY <1>6, WritersOfRec DEF PVCExecute, FetchSnapshot, GetSnapshot, CleanupGet, CleanupPatch,
       CleanupDelete, AnnotateSnapshot, FinalizeDelete, RecreateDelete, RecreateWait,
       DeleteVSPatch, DeleteVSDelete, DeleteVSCPatch, DeleteVSCDelete, PVCSkipped, PVCError,
       PVCSnapshot, backups
  <2>4. pc'[t] \in {"annotate", "attach"} => pc[t] \in {"annotate", "attach"}
    BY <1>6 DEF PVCExecute, PVCSkipped, PVCError, PVCSnapshot, FetchSnapshot, GetSnapshot,
       CleanupGet, CleanupPatch, CleanupDelete, AnnotateSnapshot, FinalizeDelete,
       RecreateDelete, RecreateWait, DeleteVSPatch, DeleteVSDelete, DeleteVSCPatch,
       DeleteVSCDelete, ReturnError
  <2>5. pc'[t] \in Finishing => pc[t] \in Finishing /\ loc' = loc
    BY <1>6 DEF PVCExecute, PVCSkipped, PVCError, PVCSnapshot, FetchSnapshot, GetSnapshot,
       CleanupGet, CleanupPatch, CleanupDelete, AnnotateSnapshot, FinalizeDelete,
       RecreateDelete, RecreateWait, DeleteVSPatch, DeleteVSDelete, DeleteVSCPatch,
       DeleteVSCDelete, ReturnError, Finishing
  <2>6. QED BY <2>2, <2>3, <2>4, <2>5 DEF LabelledInv
<1> QED BY <1>1, <1>2, <1>3, <1>4, <1>5, <1>6 DEF Handler

\* Velero records the label when the backup is complete.
LEMMA LabelledVelero ==
    ASSUME SafetyInv, RemainingInv, NEW b \in Backup, NEW s \in Snap, Own(b, s),
           phase[b] # "failed", LabelledInv(b, s), Velero(b) \/ RequestDelete(b)
    PROVE  phase'[b] # "failed" /\ LabelledInv(b, s)'
<1> DEFINE t == <<b, s>>
<1>0. /\ t \in Task /\ t[1] = b /\ t[2] = s /\ UNCHANGED <<vs, vsc, cloud, pc>>
      /\ phase \in [Backup -> Phases] /\ rec \in [Task -> Records]
      /\ RemainInv(b, s)
  BY TaskPair, VeleroFrame DEF SafetyInv, TypeOK, RemainingInv
<1>1. CASE StartBackup(b) \/ EndInProgress(b) \/ StartFinalize(b) \/ FinishDelete(b)
  BY <1>0, <1>1 DEF StartBackup, EndInProgress, StartFinalize, FinishDelete, LabelledInv
<1>2. CASE RequestDelete(b)
  BY <1>0, <1>2 DEF RequestDelete, LabelledInv
<1>3. CASE CompleteBackup(b)
  <2>1. /\ phase[b] = "finalizing" /\ phase'[b] = "completed"
        /\ pc[t] # "recorded" /\ pc[t] \notin Busy /\ rec'[t] = Updated(t)
    BY <1>0, <1>3 DEF CompleteBackup, Quiet
  <2>2. rec'[t].vs = rec[t].vs
    BY <1>0, <2>1 DEF Updated, Records
  <2>3. rec[t].vs => pc[t] = "finalized" /\ vsc[s].st = "live"
    BY <1>0, <2>1 DEF RemainInv, Kept, Busy, Reading
  <2>4. rec[t].vs => rec'[t].vsc /\ rec'[t].label = vsc[s].label
    BY <1>0, <2>1, <2>3 DEF Updated, Records
  <2>5. pc[t] \notin {"annotate", "attach"} \cup Finishing
    BY <2>1 DEF Busy, Saving
  <2>6. QED BY <1>0, <2>1, <2>2, <2>3, <2>4, <2>5 DEF LabelledInv
<1> QED BY <1>1, <1>2, <1>3 DEF Velero

-----------------------------------------------------------------------------
(* The release.                                                            *)

\* A deletion has begun, or is over, that is to release a listed snapshot.
Releasing(b, s) == rec[<<b, s>>].vs /\ phase[b] \in {"deleting", "deleted"}

\* The controllers release what the deletion has given up.
LEMMA ReleaseController ==
    ASSUME SafetyInv, NEW b \in Backup, NEW s \in Snap, Own(b, s), ReleaseInv(b, s),
           Controller(s)
    PROVE  ReleaseInv(b, s)'
<1> DEFINE t == <<b, s>>
<1>0. /\ UNCHANGED <<phase, pc, rec, todo>>
      /\ vsc \in [Snap -> ContentObjects] /\ vs \in [Snap -> SnapshotObjects]
      /\ cloud \in [Snap -> {"none", "stored", "erased"}]
      /\ KnowledgeInv(b, s) /\ ContentInv(s)
  BY ControllerFrame DEF SafetyInv, TypeOK, ClusterTypeOK
<1> SUFFICES ASSUME Releasing(b, s) PROVE ReleaseInv(b, s)'
  BY <1>0 DEF Releasing, ReleaseInv
<1>1. /\ vs[s].st # "live" /\ (vsc[s].st = "live" \/ Going(s))
      /\ pc[t] = "delvsc" /\ vsc[s].st = "live" => vsc[s].policy = "Delete"
      /\ cloud[s] # "none"
  BY <1>0 DEF Releasing, ReleaseInv, KnowledgeInv
<1>2. SUFFICES /\ vs'[s].st # "live" /\ (vsc'[s].st = "live" \/ Going(s)')
               /\ pc[t] = "delvsc" /\ vsc'[s].st = "live" => vsc'[s].policy = "Delete"
               /\ Going(s) => Going(s)'
  BY <1>0 DEF Releasing, ReleaseInv
<1>3. ~CreateContent(s) /\ ~BindSnapshot(s)
  BY <1>1 DEF CreateContent, BindSnapshot
<1>4. CASE TakeSnapshot(s)
  <2>1. /\ vs' = vs /\ vsc[s].st = "live" /\ vsc'[s].st = "live"
        /\ vsc'[s].policy = vsc[s].policy
    BY <1>0, <1>4 DEF TakeSnapshot, ContentObjects
  <2>2. cloud[s] = "stored"
    BY <1>0, <1>1, <1>4 DEF TakeSnapshot, ContentInv
  <2>3. ~Going(s)
    BY <2>1, <2>2 DEF Going
  <2>4. QED BY <1>1, <2>1, <2>3
<1>5. CASE FinishSnapshotDelete(s)
  <2>1. /\ cloud' = cloud /\ vs'[s].st = "absent" /\ vsc'[s].policy = vsc[s].policy
        /\ \/ vsc'[s].st = vsc[s].st
           \/ vsc[s].st = "live" /\ vsc[s].policy = "Delete" /\ vsc'[s].st = "deleting"
    BY <1>0, <1>5 DEF FinishSnapshotDelete, ContentObjects, NoSnapshot
  <2>2. QED BY <1>1, <2>1 DEF Going
<1>6. CASE FinishContentDelete(s)
  <2>1. /\ vs' = vs /\ vsc[s].st = "deleting" /\ vsc'[s].st = "absent"
        /\ cloud'[s] = IF cloud[s] = "stored" /\ vsc[s].policy = "Delete" THEN "erased"
                       ELSE cloud[s]
    BY <1>0, <1>6 DEF FinishContentDelete, NoContent
  <2>2. QED BY <1>1, <2>1 DEF Going
<1> QED BY <1>3, <1>4, <1>5, <1>6 DEF Controller, Csi

\* A cleanup of another backup can only help the release.
LEMMA ReleaseStranger ==
    ASSUME Answered, SafetyInv, NEW b \in Backup, NEW s \in Snap, Own(b, s), ReleaseInv(b, s),
           NEW c \in Backup \ {b}, Handler(c, s)
    PROVE  ReleaseInv(b, s)'
<1> DEFINE t == <<b, s>>
<1>0. /\ phase' = phase /\ cloud' = cloud /\ pc'[t] = pc[t] /\ rec'[t] = rec[t]
      /\ todo'[t] = todo[t] /\ ClusterTypeOK
  BY HandlerFrame, HandlerTodo, OtherTask DEF HandlerKeeps, SafetyInv, TypeOK
<1>1. /\ vs'[s].st # vs[s].st => vs[s].st = "live"
      /\ vsc' = vsc \/ PatchPolicy(s, "Delete")
  BY Stranger
<1>2. vsc'[s].st = vsc[s].st /\ vsc'[s].policy \in {vsc[s].policy, "Delete"}
  BY <1>0, <1>1, PatchedPolicy DEF Policies
<1> QED BY <1>0, <1>1, <1>2 DEF ReleaseInv, Going

\* The handlers that may be at work on a snapshot that is being released.
LEMMA ReleasingHandlers ==
    ASSUME SafetyInv, NEW b \in Backup, NEW s \in Snap, Own(b, s), Handler(b, s),
           phase[b] \in {"deleting", "deleted"}
    PROVE  /\ phase[b] = "deleting"
           /\ \/ DeleteVSPatch(b, s) \/ DeleteVSDelete(b, s)
              \/ DeleteVSCPatch(b, s) \/ DeleteVSCDelete(b, s)
<1>1. pc[<<b, s>>] \notin {"created"} \cup Reading \cup Cleaning \cup Saving \cup Finishing
  BY DEF SafetyInv, PhaseInv, Saving
<1>2. pc[<<b, s>>] \in Deleting => phase[b] = "deleting"
  BY DEF SafetyInv, PhaseInv
<1> QED
  BY <1>1, <1>2
  DEF Handler, PVCExecute, FetchSnapshot, GetSnapshot, GetContent, CleanupGet,
      CleanupPatch, CleanupDelete, LabelContent, AnnotateSnapshot, RecordItems,
      FinalizePatch, FinalizeDelete, RecreateDelete, RecreateWait, RecreateCreate,
      DeleteVSPatch, DeleteVSDelete, DeleteVSCPatch, DeleteVSCDelete, Visit,
      Reading, Cleaning, Saving, Finishing, Deleting

\* The delete actions: the one of the VSC finds the label, and the VSC unless the
\* release is under way; the one of the VS changes at most the policy, to Delete.
LEMMA ReleaseHandler ==
    ASSUME Faultless, SafetyInv, NEW b \in Backup, NEW s \in Snap, Own(b, s),
           LabelledInv(b, s), ReleaseInv(b, s), Handler(b, s), Releasing(b, s)
    PROVE  ReleaseInv(b, s)'
<1> DEFINE t == <<b, s>>
<1>0. /\ t \in Task /\ t[1] = b /\ ClusterTypeOK
      /\ pc \in [Task -> PCs] /\ todo \in [Task -> SUBSET {"vs", "vsc"}]
      /\ phase' = phase /\ cloud' = cloud
  BY TaskPair, HandlerRec, HandlerCloud DEF SafetyInv, TypeOK
<1>1. phase[b] = "deleting"
  BY ReleasingHandlers DEF Releasing
<1>2. /\ vs[s].st # "live" /\ (vsc[s].st = "live" \/ Going(s))
      /\ pc[t] = "delvsc" /\ vsc[s].st = "live" => vsc[s].policy = "Delete"
      /\ "vsc" \in todo[t] \/ pc[t] = "delvsc" \/ Going(s)
      /\ rec[t].vs /\ rec[t].label = b
  BY <1>1 DEF Releasing, ReleaseInv, LabelledInv
<1> USE <1>0 DEF Goto
<1>3. CASE DeleteVSPatch(b, s)
  <2>1. /\ vs' = vs /\ todo' = [todo EXCEPT ![t] = @ \ {"vs"}] /\ pc[t] # "delvsc"
        /\ pc'[t] # "delvsc"
        /\ vsc' = vsc \/ SetVolumeSnapshotContentDeletionPolicy(s)
    BY <1>3 DEF DeleteVSPatch, Visit, Quiet, Busy, Deleting
  <2>2. vsc'[s].st = vsc[s].st /\ vsc'[s].policy \in {vsc[s].policy, "Delete"}
    BY <2>1, PatchedDelete
  <2>3. "vsc" \in todo[t] => "vsc" \in todo'[t]
    BY <2>1
  <2>4. QED BY <1>1, <1>2, <2>1, <2>2, <2>3 DEF ReleaseInv, Going
<1>4. CASE DeleteVSDelete(b, s)
  <2>1. /\ vsc' = vsc /\ todo' = todo /\ pc[t] = "delvs" /\ pc'[t] = "done"
        /\ vs' = vs \/ DeleteSnapshotObject(s)
    BY <1>4 DEF DeleteVSDelete, CleanupEffect, backups
  <2>2. vs'[s].st = vs[s].st
    BY <1>2, <2>1, DeletedSnapshot
  <2>3. QED BY <1>1, <1>2, <2>1, <2>2 DEF ReleaseInv, Going
<1>5. CASE DeleteVSCPatch(b, s)
  <2>1. /\ vs' = vs
        /\ \/ SetVolumeSnapshotContentDeletionPolicy(s) /\ pc'[t] = "delvsc"
           \/ vsc[s].st = "absent" /\ vsc' = vsc /\ pc' = pc
    BY <1>2, <1>5, Reliable DEF DeleteVSCPatch, HasBackupLabel
  <2>2. CASE SetVolumeSnapshotContentDeletionPolicy(s) /\ pc'[t] = "delvsc"
    <3>1. vsc'[s].st = vsc[s].st /\ vsc'[s].policy = "Delete"
      BY <2>2, PatchedDelete
    <3>2. QED BY <1>1, <1>2, <2>1, <2>2, <3>1 DEF ReleaseInv, Going
  <2>3. CASE vsc[s].st = "absent" /\ vsc' = vsc /\ pc' = pc
    BY <1>1, <1>2, <2>1, <2>3 DEF ReleaseInv, Going
  <2>4. QED BY <2>1, <2>2, <2>3
<1>6. CASE DeleteVSCDelete(b, s)
  <2>1. /\ vs' = vs /\ pc[t] = "delvsc" /\ pc'[t] = "done" /\ DeleteContentObject(s)
    BY <1>6, Reliable DEF DeleteVSCDelete
  <2>2. /\ vsc'[s].policy = vsc[s].policy
        /\ vsc'[s].st = IF vsc[s].st = "live" THEN "deleting" ELSE vsc[s].st
    BY <2>1, DeletedContent
  <2>3. QED BY <1>1, <1>2, <2>1, <2>2 DEF ReleaseInv, Going
<1> QED BY <1>3, <1>4, <1>5, <1>6, ReleasingHandlers DEF Releasing

\* The deletion starts with the VSC to visit, and ends when it has visited it.
LEMMA ReleaseVelero ==
    ASSUME SafetyInv, RemainingInv, NEW b \in Backup, NEW s \in Snap, Own(b, s),
           phase[b] # "failed", LabelledInv(b, s), ReleaseInv(b, s),
           Velero(b) \/ RequestDelete(b)
    PROVE  ReleaseInv(b, s)'
<1> DEFINE t == <<b, s>>
<1>0. /\ t \in Task /\ t[1] = b /\ UNCHANGED <<vs, vsc, cloud, pc>>
      /\ phase \in [Backup -> Phases] /\ rec \in [Task -> Records]
      /\ RemainInv(b, s)
  BY TaskPair, VeleroFrame DEF SafetyInv, TypeOK, RemainingInv
<1>1. CASE StartBackup(b) \/ EndInProgress(b) \/ StartFinalize(b) \/ CompleteBackup(b)
  <2>1. phase'[b] \notin {"deleting", "deleted"}
    BY <1>0, <1>1 DEF StartBackup, EndInProgress, StartFinalize, CompleteBackup
  <2>2. QED BY <2>1 DEF ReleaseInv
<1>2. CASE RequestDelete(b)
  <2>1. /\ phase[b] = "completed" /\ phase'[b] = "deleting" /\ rec' = rec
        /\ todo'[t] = Recorded(t)
    BY <1>0, <1>2 DEF RequestDelete
  <2>2. rec[t].vs => /\ pc[t] = "finalized" /\ vs[s].st # "live" /\ vsc[s].st = "live"
                     /\ rec[t].vsc
    BY <1>0, <2>1 DEF RemainInv, Kept, LabelledInv
  <2>3. rec[t].vs => "vsc" \in todo'[t]
    BY <2>1, <2>2 DEF Recorded
  <2>4. QED BY <1>0, <2>1, <2>2, <2>3 DEF ReleaseInv
<1>3. CASE FinishDelete(b)
  <2>1. /\ phase[b] = "deleting" /\ rec' = rec /\ todo' = todo
        /\ todo[t] = {} /\ pc[t] # "delvsc"
    BY <1>0, <1>3 DEF FinishDelete, Quiet, Busy, Deleting
  <2>2. QED BY <1>0, <2>1 DEF ReleaseInv, Going
<1> QED BY <1>1, <1>2, <1>3 DEF Velero

-----------------------------------------------------------------------------
(* The theorems.                                                           *)

\* Every step keeps DeletionInv.
LEMMA DeletionStep ==
    ASSUME Faultless, SafetyInv, KeepingInv, RemainingInv, DeletionInv, [Next]_vars
    PROVE  DeletionInv'
<1>0. /\ TypeOK /\ Answered /\ ~Crash
  BY Exhausted DEF SafetyInv, CleanReads, Faultless, RemainingInv, Answered, Fails
<1> SUFFICES ASSUME NEW b \in Backup, NEW s \in Snap, Own(b, s)
             PROVE  phase'[b] # "failed" /\ LabelledInv(b, s)' /\ ReleaseInv(b, s)'
  BY DEF DeletionInv, Own
<1> DEFINE t == <<b, s>>
<1>1. t \in Task /\ phase[b] # "failed" /\ LabelledInv(b, s) /\ ReleaseInv(b, s)
  BY TaskPair DEF DeletionInv
\* Another actor moves, elsewhere.
<1>2. ASSUME phase'[b] = phase[b], pc'[t] = pc[t], rec'[t] = rec[t], loc'[t] = loc[t],
             todo'[t] = todo[t], vs'[s] = vs[s], vsc'[s] = vsc[s], cloud'[s] = cloud[s]
      PROVE  phase'[b] # "failed" /\ LabelledInv(b, s)' /\ ReleaseInv(b, s)'
  BY <1>1, <1>2 DEF LabelledInv, ReleaseInv, Going
<1>3. ASSUME NEW x \in Snap, Controller(x)
      PROVE  phase'[b] # "failed" /\ LabelledInv(b, s)' /\ ReleaseInv(b, s)'
  <2>1. CASE x = s
    BY <1>0, <1>1, <1>3, <2>1, ControllerFrame, LabelledController, ReleaseController
  <2>2. CASE x # s
    BY <1>0, <1>2, <1>3, <2>2, ControllerFrame
  <2>3. QED BY <2>1, <2>2
<1>4. ASSUME NEW c \in Backup, NEW x \in Snap, Handler(c, x)
      PROVE  phase'[b] # "failed" /\ LabelledInv(b, s)' /\ ReleaseInv(b, s)'
  <2>1. phase' = phase
    BY <1>0, <1>4, HandlerRec
  <2>2. CASE c = b /\ x = s
    <3>1. LabelledInv(b, s)'
      BY <1>1, <1>4, <2>2, LabelledHandler
    <3>2. CASE Releasing(b, s)
      BY <1>1, <1>4, <2>1, <2>2, <3>1, <3>2, ReleaseHandler
    <3>3. CASE ~Releasing(b, s)
      <4>1. phase[b] \in {"deleting", "deleted"} => rec' = rec
        BY <1>4, <2>2, ReleasingHandlers
        DEF DeleteVSPatch, DeleteVSDelete, DeleteVSCPatch, DeleteVSCDelete, backups
      <4>2. QED BY <1>1, <2>1, <3>1, <3>3, <4>1 DEF Releasing, ReleaseInv
    <3>4. QED BY <3>2, <3>3
  <2>3. CASE c # b /\ x = s
    BY <1>0, <1>1, <1>4, <2>1, <2>3, LabelledStranger, ReleaseStranger
  <2>4. CASE x # s
    BY <1>0, <1>2, <1>4, <2>4, HandlerFrame, HandlerTodo, OtherTask DEF HandlerKeeps
  <2>5. QED BY <2>2, <2>3, <2>4
<1>5. ASSUME NEW c \in Backup, Velero(c) \/ RequestDelete(c)
      PROVE  phase'[b] # "failed" /\ LabelledInv(b, s)' /\ ReleaseInv(b, s)'
  <2>1. CASE c = b
    BY <1>1, <1>5, <2>1, LabelledVelero, ReleaseVelero
  <2>2. CASE c # b
    BY <1>0, <1>2, <1>5, <2>2, OtherBackup, VeleroTodo
  <2>3. QED BY <2>1, <2>2
<1>6. CASE UNCHANGED vars
  BY <1>2, <1>6 DEF vars
<1> QED BY <1>0, <1>3, <1>4, <1>5, <1>6 DEF Next

\* When nothing fails but the creation of a VS and its annotation, no VSC of a
\* listed snapshot loses the label that the deletion of the backup goes by, and
\* what the deletion has visited is on its way out, whichever of the VS and the
\* VSC comes first and whatever other backups do at the same time.
THEOREM DeletionInvariant == ASSUME Faultless PROVE Spec => []DeletionInv
<1>1. Init => DeletionInv
  <2>1. SUFFICES ASSUME Init, NEW b \in Backup, NEW s \in Snap PROVE
                 phase[b] # "failed" /\ LabelledInv(b, s) /\ ReleaseInv(b, s)
    BY DEF DeletionInv
  <2>2. phase[b] = "new" /\ pc[<<b, s>>] = "idle" /\ rec[<<b, s>>] = NoRecord
    BY <2>1, TaskPair DEF Init
  <2>3. QED BY <2>2 DEF LabelledInv, ReleaseInv, NoRecord
<1>2. SafetyInv /\ KeepingInv /\ RemainingInv /\ DeletionInv /\ [Next]_vars => DeletionInv'
  BY DeletionStep
<1>3. Smooth
  BY FaultlessIsSmooth
<1> QED BY <1>1, <1>2, <1>3, SmoothInvariant, SafetyInvariant, PTL DEF Spec

\* When Velero has deleted a backup, nothing but the last step of the sidecar is
\* missing for its listed snapshots to be erased
\* (delete/volumesnapshot_action.go:32-71, delete/volumesnapshotcontent_action.go:31-77);
\* if nothing fails but the creation of a VS and its annotation.
THEOREM DeletionReleasesHolds == ASSUME Faultless PROVE Spec => []DeletionReleases
<1>1. DeletionInv => DeletionReleases
  BY DEF DeletionInv, ReleaseInv, DeletionReleases
<1> QED BY <1>1, DeletionInvariant, PTL
=============================================================================
