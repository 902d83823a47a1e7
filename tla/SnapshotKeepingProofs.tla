----------------------- MODULE SnapshotKeepingProofs -----------------------
(***************************************************************************)
(* Proofs about SnapshotBackup, continued: what the plugin keeps as long   *)
(* as certain calls do not fail.  Each theorem assumes no more than that;  *)
(* the runs user_vs_lost, finalize_fault and recreate_timeout show what    *)
(* breaks without them.                                                    *)
(***************************************************************************)
EXTENDS SnapshotBackupProofs

-----------------------------------------------------------------------------
(* The snapshots users made.                                               *)

\* No backup owns a user's snapshot.
LEMMA UserIsForeign ==
    ASSUME NEW b \in Backup, NEW s \in UserSnap
    PROVE  s \in Snap /\ ~Own(b, s) /\ ~HasBackupLabel(Owner[s], b)
  BY BackupAssumption DEF UserSnap, Own, HasBackupLabel

\* A handler at work on a user's snapshot may annotate the VS, no more.
LEMMA UserHandler ==
    ASSUME "getVSC" \notin Flaky, SafetyInv,
           NEW b \in Backup, NEW s \in UserSnap, UserInv(s), Handler(b, s)
    PROVE  /\ vs'[s].st = vs[s].st /\ vs'[s].bound = vs[s].bound
           /\ vsc' = vsc
           /\ pc'[<<b, s>>] \notin Cleaning
           /\ pc'[<<b, s>>] = "getvsc" => vs[s].bound
<1> DEFINE t == <<b, s>>
<1>0. /\ s \in Snap /\ ~Own(b, s) /\ ~HasBackupLabel(Owner[s], b)
      /\ t \in Task /\ pc \in [Task -> PCs] /\ vs \in [Snap -> SnapshotObjects]
      /\ PhaseInv(b, s)
  BY UserIsForeign, TaskPair DEF SafetyInv, TypeOK, ClusterTypeOK
<1>1. ~HasBackupLabel(rec[t].label, b)
  BY <1>0, BackupAssumption DEF SafetyInv, LabelInv, UserSnap, HasBackupLabel
<1>2. pc[t] \notin Cleaning \cup Finishing \cup Deleting \cup {"created", "getvs", "poll", "label"}
  BY <1>0 DEF UserInv, PhaseInv
<1> USE <1>0, <1>2 DEF Goto, Cleaning
<1>3. CASE FetchSnapshot(b, s)
  BY <1>3 DEF FetchSnapshot, cluster
<1>4. CASE GetContent(b, s)
  BY <1>4 DEF GetContent, Fails, UserInv, cluster
<1>5. CASE AnnotateSnapshot(b, s)
  <2>1. vsc' = vsc /\ pc'[t] \in {"attach", "failed"}
    BY <1>5 DEF AnnotateSnapshot, ReturnError
  <2>2. vs' = vs \/ \E a : vs' = [vs EXCEPT ![s].ann = a]
    BY <1>5 DEF AnnotateSnapshot
  <2>3. vs'[s].st = vs[s].st /\ vs'[s].bound = vs[s].bound
    BY <2>2 DEF SnapshotObjects
  <2>4. QED BY <2>1, <2>3
<1>6. CASE RecordItems(b, s)
  BY <1>6 DEF RecordItems, cluster
<1>7. CASE DeleteVSPatch(b, s) \/ DeleteVSCPatch(b, s)
  BY <1>1, <1>7 DEF DeleteVSPatch, DeleteVSCPatch, UserInv
<1> QED
  BY <1>3, <1>4, <1>5, <1>6, <1>7
  DEF Handler, PVCExecute, GetSnapshot, CleanupGet, CleanupPatch, CleanupDelete, LabelContent,
      FinalizePatch, FinalizeDelete, RecreateDelete, RecreateWait, RecreateCreate,
      DeleteVSDelete, DeleteVSCDelete, Finishing, Deleting

\* The controllers make the content, bind and fill it.
LEMMA UserController ==
    ASSUME TypeOK, NEW s \in Snap, UserInv(s), Controller(s)
    PROVE  /\ vs'[s].st = "live" /\ vsc'[s].st # "deleting"
           /\ vs[s].bound => vs'[s].bound
           /\ vs'[s].bound => vsc'[s].st = "live"
           /\ vsc[s].st # "absent" => vsc'[s].policy = vsc[s].policy
<1>0. /\ vsc \in [Snap -> ContentObjects] /\ vs \in [Snap -> SnapshotObjects]
  BY DEF TypeOK, ClusterTypeOK
<1> USE <1>0 DEF UserInv
<1>1. CASE CreateContent(s)
  <2>1. PICK p \in ClassPolicies :
           vsc' = [vsc EXCEPT ![s] = [NoContent EXCEPT !.st = "live", !.policy = p]]
    BY <1>1 DEF CreateContent
  <2>2. vsc'[s].st = "live"
    BY <2>1 DEF NoContent
  <2>3. QED BY <1>1, <2>2 DEF CreateContent
<1>2. CASE BindSnapshot(s)
  BY <1>2 DEF BindSnapshot, SnapshotObjects, ContentObjects, ObjectStates
<1>3. CASE TakeSnapshot(s)
  BY <1>3 DEF TakeSnapshot, ContentObjects
<1>4. CASE FinishSnapshotDelete(s) \/ FinishContentDelete(s)
  BY <1>4 DEF FinishSnapshotDelete, FinishContentDelete
<1> QED BY <1>1, <1>2, <1>3, <1>4 DEF Controller, Csi

\* Every step leaves a user's snapshot alone and keeps what that rests on.
LEMMA UserStep ==
    ASSUME "getVSC" \notin Flaky, SafetyInv, UserSnapshotsInv, [Next]_vars
    PROVE  \A s \in UserSnap : Untouched(s) /\ UserInv(s)'
<1> SUFFICES ASSUME NEW s \in UserSnap PROVE Untouched(s) /\ UserInv(s)'
  OBVIOUS
<1>0. TypeOK /\ UserInv(s) /\ s \in Snap
  BY DEF SafetyInv, UserSnapshotsInv, UserSnap
\* Another actor moves.
<1>1. ASSUME vs'[s] = vs[s], vsc'[s] = vsc[s], \A b \in Backup : pc'[<<b, s>>] = pc[<<b, s>>]
      PROVE  Untouched(s) /\ UserInv(s)'
  BY <1>0, <1>1 DEF UserInv, Untouched
<1>2. ASSUME NEW x \in Snap, Controller(x) PROVE Untouched(s) /\ UserInv(s)'
  <2>1. CASE x = s
    BY <1>0, <1>2, <2>1, UserController, ControllerFrame DEF UserInv, Untouched
  <2>2. CASE x # s
    BY <1>0, <1>1, <1>2, <2>2, ControllerFrame
  <2>3. QED BY <2>1, <2>2
<1>3. ASSUME NEW c \in Backup, NEW x \in Snap, Handler(c, x) PROVE Untouched(s) /\ UserInv(s)'
  <2>1. CASE x = s
    <3>1. \A b \in Backup \ {c} : pc'[<<b, s>>] = pc[<<b, s>>]
      BY <1>0, <1>3, <2>1, HandlerFrame, OtherTask DEF HandlerKeeps
    <3>2. QED BY <1>0, <1>3, <2>1, <3>1, UserHandler DEF UserInv, Untouched
  <2>2. CASE x # s
    BY <1>0, <1>1, <1>3, <2>2, HandlerFrame, OtherTask DEF HandlerKeeps
  <2>3. QED BY <2>1, <2>2
<1>4. ASSUME NEW c \in Backup, Velero(c) \/ RequestDelete(c) PROVE Untouched(s) /\ UserInv(s)'
  BY <1>0, <1>1, <1>4, VeleroFrame
<1>5. CASE Crash
  <2>1. vs' = vs /\ vsc' = vsc
    BY <1>5 DEF Crash, cluster
  <2>2. ASSUME NEW b \in Backup
        PROVE  pc'[<<b, s>>] \in {pc[<<b, s>>], "recorded", "done"}
    BY <1>0, <1>5, TaskPair DEF Crash, Restarted
  <2>3. QED BY <1>0, <2>1, <2>2 DEF UserInv, Untouched, Cleaning
<1>6. CASE UNCHANGED vars
  BY <1>1, <1>6 DEF vars
<1> QED BY <1>2, <1>3, <1>4, <1>5, <1>6 DEF Next

\* No cleanup ever works on a VS that a user made, which stays bound to its
\* content, as long as the GET of a content does not fail
\* (backup/volumesnapshot_action.go:94-98).
THEOREM UserSnapshotsInvHolds ==
    ASSUME "getVSC" \notin Flaky PROVE Spec => []UserSnapshotsInv
<1>1. Init => UserSnapshotsInv
  BY TaskPair DEF Init, ClusterInit, UserSnapshotsInv, UserInv, UserSnap, NoSnapshot, NoContent,
     Cleaning
<1>2. SafetyInv /\ UserSnapshotsInv /\ [Next]_vars => UserSnapshotsInv'
  BY UserStep DEF UserSnapshotsInv
<1> QED BY <1>1, <1>2, SafetyInvariant, PTL DEF Spec

\* A VS that a user made, and the policy of its content, outlive every backup
\* and every deletion of one, whatever else fails, as long as the GET of a
\* content does not (backup/volumesnapshot_action.go:98 cleans up after that).
THEOREM UserSnapshotUntouchedHolds ==
    ASSUME "getVSC" \notin Flaky PROVE Spec => UserSnapshotUntouched
<1>1. SafetyInv /\ UserSnapshotsInv /\ [Next]_vars => [\A s \in UserSnap : Untouched(s)]_vars
  BY UserStep
<1> QED BY <1>1, UserSnapshotsInvHolds, SafetyInvariant, PTL DEF Spec, UserSnapshotUntouched

-----------------------------------------------------------------------------
(* The snapshots of backups: what another backup's handlers do to them.    *)

\* In this step, no GET fails after whose failure Execute cleans up.
Answered == \A call \in CleanReads : ~Fails(call)

\* Another backup reaches the clean-up only when it finds no content, and changes
\* something only there.
LEMMA Stranger ==
    ASSUME Answered, SafetyInv,
           NEW b \in Backup, NEW s \in Snap, Own(b, s),
           NEW c \in Backup \ {b}, Handler(c, s)
    PROVE  /\ vs'[s].bound = vs[s].bound
           /\ vs'[s].st # vs[s].st => pc[<<c, s>>] \in Cleaning /\ vs'[s].st = "deleting"
                                       /\ vs[s].st = "live"
           /\ vs[s].st = "absent" /\ pc[<<c, s>>] \notin Cleaning => vs' = vs
           /\ vsc' = vsc \/ (pc[<<c, s>>] \in Cleaning /\ PatchPolicy(s, "Delete"))
           /\ pc'[<<c, s>>] \in Cleaning =>
                 pc[<<c, s>>] \in Cleaning \/ (pc[<<c, s>>] = "getvsc" /\ vsc[s].st = "absent")
           /\ pc'[<<c, s>>] = "getvsc" =>
                 vs[s].st # "absent" /\ vs[s].bound /\ vs' = vs /\ vsc' = vsc
<1> DEFINE t == <<c, s>>
<1>0. /\ ~Own(c, s) /\ ~HasBackupLabel(Owner[s], c)
      /\ t \in Task /\ pc \in [Task -> PCs] /\ vs \in [Snap -> SnapshotObjects]
      /\ PhaseInv(c, s) /\ ClusterTypeOK
  BY TaskPair DEF SafetyInv, TypeOK, ClusterTypeOK, Own, HasBackupLabel
<1>1. ~HasBackupLabel(rec[t].label, c)
  BY <1>0, BackupAssumption DEF SafetyInv, LabelInv, HasBackupLabel, Own
<1>2. pc[t] \notin Finishing \cup Deleting \cup {"created", "getvs", "poll", "label"}
  BY <1>0 DEF PhaseInv
<1> USE <1>0, <1>2 DEF Goto, Cleaning
<1>3. CASE FetchSnapshot(c, s)
  BY <1>3 DEF FetchSnapshot, cluster
<1>4. CASE GetContent(c, s)
  BY <1>4 DEF GetContent, Answered, CleanReads, cluster
<1>5. CASE AnnotateSnapshot(c, s)
  <2>1. vsc' = vsc /\ pc[t] = "annotate" /\ pc'[t] \in {"attach", "failed"}
    BY <1>5 DEF AnnotateSnapshot, ReturnError
  <2>2. vs' = vs \/ (vs[s].st # "absent" /\ \E a : vs' = [vs EXCEPT ![s].ann = a])
    BY <1>5 DEF AnnotateSnapshot
  <2>3. vs'[s].st = vs[s].st /\ vs'[s].bound = vs[s].bound
    BY <2>2 DEF SnapshotObjects
  <2>4. QED BY <2>1, <2>2, <2>3
<1>6. CASE RecordItems(c, s)
  BY <1>6 DEF RecordItems, cluster
<1>7. CASE DeleteVSPatch(c, s) \/ DeleteVSCPatch(c, s)
  BY <1>1, <1>7 DEF DeleteVSPatch, DeleteVSCPatch, Visit, Quiet, Busy, Reading
<1>8. CASE CleanupGet(c, s)
  BY <1>8 DEF CleanupGet, ReturnError, cluster
<1>9. CASE CleanupPatch(c, s)
  BY <1>9 DEF CleanupPatch, SetVolumeSnapshotContentDeletionPolicy
<1>10. CASE CleanupDelete(c, s)
  BY <1>10, DeletedSnapshot DEF CleanupDelete, CleanupEffect, ReturnError
<1> QED
  BY <1>3, <1>4, <1>5, <1>6, <1>7, <1>8, <1>9, <1>10
  DEF Handler, PVCExecute, GetSnapshot, LabelContent,
      FinalizePatch, FinalizeDelete, RecreateDelete, RecreateWait, RecreateCreate,
      DeleteVSDelete, DeleteVSCDelete, Finishing, Deleting

-----------------------------------------------------------------------------
(* KeepInv, actor by actor.                                                *)

\* The controllers keep KeepInv of the snapshot they work on.
LEMMA KeepController ==
    ASSUME SafetyInv, NEW b \in Backup, NEW s \in Snap, Own(b, s), KeepInv(b, s), Controller(s)
    PROVE  KeepInv(b, s)'
<1> DEFINE t == <<b, s>>
<1>0. /\ UNCHANGED <<phase, pc, loc, rec>>
      /\ vsc \in [Snap -> ContentObjects] /\ vs \in [Snap -> SnapshotObjects]
      /\ cloud \in [Snap -> {"none", "stored", "erased"}]
      /\ KnowledgeInv(b, s)
  BY ControllerFrame DEF SafetyInv, TypeOK, ClusterTypeOK
<1>1. UnusedInv(b, s)'
  <2>1. vs[s].st # "absent" \/ vsc[s].st # "absent"
    BY DEF Controller, Csi, CreateContent, BindSnapshot, TakeSnapshot, FinishSnapshotDelete,
       FinishContentDelete
  <2>2. QED BY <1>0, <2>1 DEF KeepInv, UnusedInv, NoSnapshot, NoContent
<1>2. OpenInv(b, s)'
  <2>1. SUFFICES ASSUME Open(b, s), OpenInv(b, s)
                 PROVE  Present(s)' /\ cloud'[s] # "erased" /\ (vs[s].bound => vs'[s].bound)
    BY <1>0 DEF KeepInv, OpenInv, Open
  <2>2. Present(s) /\ cloud[s] # "erased"
    BY <2>1 DEF OpenInv
  <2>3. CASE CreateContent(s)
    BY <1>0, <2>2, <2>3 DEF CreateContent, Present, NoContent
  <2>4. CASE BindSnapshot(s)
    BY <1>0, <2>2, <2>4 DEF BindSnapshot, Present, SnapshotObjects, ContentObjects, ObjectStates
  <2>5. CASE TakeSnapshot(s)
    BY <1>0, <2>2, <2>5 DEF TakeSnapshot, Present, ContentObjects
  <2>6. CASE FinishSnapshotDelete(s) \/ FinishContentDelete(s)
    BY <2>2, <2>6 DEF FinishSnapshotDelete, FinishContentDelete, Present
  <2>7. QED BY <2>3, <2>4, <2>5, <2>6 DEF Controller, Csi
<1>3. ASSUME Kept(b, s) PROVE ObjectsInv(b, s)' /\ RelianceInv(b, s)'
  <2>1. ObjectsInv(b, s) /\ RelianceInv(b, s)
    BY <1>3 DEF KeepInv
  <2>2. ~CreateContent(s)
    BY <2>1 DEF CreateContent, ObjectsInv
  <2>3. ~BindSnapshot(s)
    BY <1>0, <1>3 DEF BindSnapshot, Kept, KnowledgeInv
  <2> USE <1>0, <2>1 DEF ObjectsInv, RelianceInv, Retaining, Gone
  <2>4. CASE TakeSnapshot(s)
    <3>1. /\ vsc'[s].handle /\ vsc'[s].st = vsc[s].st /\ vsc'[s].policy = vsc[s].policy
          /\ vsc'[s].static = vsc[s].static /\ vs' = vs /\ cloud'[s] = "stored"
      BY <2>4 DEF TakeSnapshot, ContentObjects
    <3>2. QED BY <3>1
  <2>5. CASE FinishSnapshotDelete(s)
    <3>1. /\ vs[s].st = "deleting" /\ vs'[s].st = "absent" /\ cloud' = cloud
          /\ vsc'[s].handle = vsc[s].handle /\ vsc'[s].policy = vsc[s].policy
          /\ vsc'[s].static = vsc[s].static /\ vsc'[s].st = vsc[s].st
      BY <2>5 DEF FinishSnapshotDelete, ContentObjects, NoSnapshot
    <3>2. QED BY <3>1
  <2>6. CASE FinishContentDelete(s)
    <3>1. /\ vsc[s].st = "deleting" /\ vs[s].st # "live" /\ vsc'[s].st = "absent"
          /\ vs' = vs /\ cloud'[s] = "stored"
      BY <2>6 DEF FinishContentDelete, NoContent
    <3>2. QED BY <3>1
  <2>7. QED BY <2>2, <2>3, <2>4, <2>5, <2>6 DEF Controller, Csi
<1> QED BY <1>0, <1>1, <1>2, <1>3 DEF KeepInv, Kept

\* Another backup's handlers keep it.
LEMMA KeepStranger ==
    ASSUME Answered, SafetyInv,
           NEW b \in Backup, NEW s \in Snap, Own(b, s), KeepInv(b, s),
           NEW c \in Backup \ {b}, Handler(c, s)
    PROVE  KeepInv(b, s)'
<1> DEFINE t == <<b, s>>
           d == <<c, s>>
<1>0. /\ phase' = phase /\ cloud' = cloud
      /\ pc'[t] = pc[t] /\ loc'[t] = loc[t] /\ rec'[t] = rec[t]
      /\ \A e \in Backup \ {c} : pc'[<<e, s>>] = pc[<<e, s>>]
      /\ ClusterTypeOK
  BY HandlerFrame, OtherTask DEF HandlerKeeps, SafetyInv, TypeOK
<1>1. /\ vs'[s].bound = vs[s].bound
      /\ vs'[s].st # vs[s].st => pc[d] \in Cleaning /\ vs'[s].st = "deleting"
                                  /\ vs[s].st = "live"
      /\ vs[s].st = "absent" /\ pc[d] \notin Cleaning => vs' = vs
      /\ vsc' = vsc \/ (pc[d] \in Cleaning /\ PatchPolicy(s, "Delete"))
      /\ pc'[d] \in Cleaning =>
            pc[d] \in Cleaning \/ (pc[d] = "getvsc" /\ vsc[s].st = "absent")
      /\ pc'[d] = "getvsc" => vs[s].st # "absent" /\ vs[s].bound /\ vs' = vs /\ vsc' = vsc
  BY Stranger
<1>2. UnusedInv(b, s)'
  BY <1>0, <1>1 DEF KeepInv, UnusedInv, NoSnapshot
<1>3. OpenInv(b, s)'
  <2>1. SUFFICES ASSUME Open(b, s), OpenInv(b, s)
                 PROVE  /\ Present(s)' /\ pc'[d] \notin Cleaning
                        /\ pc'[d] = "getvsc" => vs'[s].bound
    BY <1>0, <1>1 DEF KeepInv, OpenInv, Open
  <2>2. QED BY <1>1, <2>1 DEF OpenInv, Present
<1>4. ASSUME Kept(b, s) PROVE ObjectsInv(b, s)' /\ RelianceInv(b, s)'
  <2>1. ObjectsInv(b, s) /\ RelianceInv(b, s)
    BY <1>4 DEF KeepInv
  <2> USE <1>0, <1>1, <2>1 DEF ObjectsInv, RelianceInv, Retaining, Gone
  <2>2. CASE pc[d] \notin Cleaning
    BY <2>2
  <2>3. CASE pc[d] \in Cleaning
    <3>1. vs'[s].st = vs[s].st /\ Gone(s) /\ (vsc[s].st # "absent" => pc[t] = "finalized")
      BY <2>3
    <3>2. CASE vsc' = vsc
      BY <3>1, <3>2
    <3>3. CASE PatchPolicy(s, "Delete")
      <4>1. /\ vsc[s].st # "absent"
            /\ vsc'[s].st = vsc[s].st /\ vsc'[s].static = vsc[s].static
        BY <3>3, PatchedPolicy DEF Policies
      <4>2. pc[t] \notin Finishing \cup Reading \cup Cleaning
        BY <3>1, <4>1 DEF Finishing, Reading, Cleaning
      <4>3. QED BY <3>1, <4>1, <4>2 DEF Finishing, Reading, Cleaning
    <3>4. QED BY <3>2, <3>3
  <2>4. QED BY <2>2, <2>3
<1> QED BY <1>0, <1>2, <1>3, <1>4 DEF KeepInv, Kept

\* Velero's steps keep it.
LEMMA KeepVelero ==
    ASSUME SafetyInv, NEW b \in Backup, NEW s \in Snap, Own(b, s), KeepInv(b, s),
           Velero(b) \/ RequestDelete(b)
    PROVE  KeepInv(b, s)'
<1> DEFINE t == <<b, s>>
<1>0. /\ t \in Task /\ t[1] = b /\ TypeOK
      /\ UNCHANGED <<vs, vsc, cloud, pc>> /\ rec \in [Task -> Records]
      /\ phase \in [Backup -> Phases]
  BY TaskPair, VeleroFrame DEF SafetyInv, TypeOK
<1>1. /\ rec'[t].vs = rec[t].vs
      /\ phase[b] \in {"deleting", "deleted"} => phase'[b] \in {"deleting", "deleted"}
      /\ loc'[t] = loc[t] \/ pc[t] \notin Busy
  <2>1. CASE StartBackup(b) \/ EndInProgress(b) \/ StartFinalize(b) \/ FinishDelete(b)
             \/ RequestDelete(b)
    BY <1>0, <2>1 DEF StartBackup, EndInProgress, StartFinalize, FinishDelete, RequestDelete
  <2>2. CASE CompleteBackup(b)
    <3>1. rec'[t] = Updated(t) /\ pc[t] \notin Busy /\ phase[b] = "finalizing"
      BY <1>0, <2>2 DEF CompleteBackup, Quiet
    <3>2. QED BY <1>0, <3>1 DEF Updated, Records
  <2>3. QED BY <2>1, <2>2 DEF Velero
<1>2. UnusedInv(b, s)' /\ OpenInv(b, s)'
  BY <1>0, <1>1 DEF KeepInv, UnusedInv, OpenInv, Open, Present
<1>3. Kept(b, s)' => ObjectsInv(b, s)' /\ RelianceInv(b, s)'
  BY <1>0, <1>1 DEF KeepInv, Kept, ObjectsInv, RelianceInv, Gone, Retaining, Busy, Finishing,
     Reading, Cleaning
<1> QED BY <1>2, <1>3 DEF KeepInv

\* After a restart no handler is at work.
LEMMA Rested ==
    ASSUME Crash, NEW b \in Backup, NEW s \in Snap, PhaseInv(b, s)
    PROVE  /\ pc'[<<b, s>>] \notin Busy
           /\ pc'[<<b, s>>] = "idle" => pc[<<b, s>>] = "idle"
<1>1. /\ pc'[<<b, s>>] = Restarted(<<b, s>>)
      /\ <<b, s>>[1] = b
  BY TaskPair DEF Crash
<1>2. phase[b] = "waiting" => pc[<<b, s>>] \notin Busy
  BY DEF PhaseInv, Busy
<1> QED BY <1>1, <1>2
  DEF Restarted, Interrupted, Busy, Reading, Cleaning, Saving, Finishing, Deleting

\* A restart keeps it.
LEMMA KeepCrash ==
    ASSUME SafetyInv, NEW b \in Backup, NEW s \in Snap, Own(b, s), KeepInv(b, s), Crash
    PROVE  KeepInv(b, s)'
<1> DEFINE t == <<b, s>>
<1>1. /\ UNCHANGED <<vs, vsc, cloud>>
      /\ phase'[b] = IF phase[b] = "inprogress" THEN "failed" ELSE phase[b]
      /\ rec'[t] = IF phase[b] = "inprogress" THEN NoRecord ELSE rec[t]
  BY TaskPair DEF Crash, cluster
<1>2. \A c \in Backup : /\ pc'[<<c, s>>] \notin Busy
                        /\ pc'[<<c, s>>] = "idle" => pc[<<c, s>>] = "idle"
  BY Rested DEF SafetyInv
<1>3. UnusedInv(b, s)' /\ OpenInv(b, s)'
  BY <1>1, <1>2 DEF KeepInv, UnusedInv, OpenInv, Open, Busy, Reading
<1>4. Kept(b, s)' => Kept(b, s)
  BY <1>1 DEF Kept, NoRecord
<1>5. Kept(b, s)' => ObjectsInv(b, s)' /\ RelianceInv(b, s)'
  BY <1>1, <1>2, <1>4
  DEF KeepInv, ObjectsInv, RelianceInv, Gone, Retaining, Busy, Finishing, Reading, Cleaning
<1> QED BY <1>3, <1>5 DEF KeepInv

-----------------------------------------------------------------------------
(* KeepInv: the backup's own handlers.                                     *)

\* No handler puts a task back to its start.
LEMMA OwnIdle ==
    ASSUME TypeOK, NEW b \in Backup, NEW s \in Snap, Handler(b, s), Own(b, s),
           UnusedInv(b, s), pc'[<<b, s>>] = "idle"
    PROVE  pc[<<b, s>>] = "idle" /\ vs' = vs /\ vsc' = vsc
<1> DEFINE t == <<b, s>>
<1>0. t \in Task /\ pc \in [Task -> PCs]
  BY TaskPair DEF TypeOK
<1>1. CASE DeleteVSPatch(b, s) \/ DeleteVSCPatch(b, s)
  <2>1. pc[t] = "idle" /\ vs' = vs
    BY <1>0, <1>1 DEF DeleteVSPatch, DeleteVSCPatch, Goto
  <2>2. ~SetVolumeSnapshotContentDeletionPolicy(s)
    BY <2>1 DEF UnusedInv, NoContent, SetVolumeSnapshotContentDeletionPolicy, PatchPolicy
  <2>3. QED BY <1>1, <2>1, <2>2 DEF DeleteVSPatch, DeleteVSCPatch
<1>2. CASE \/ PVCExecute(b, s) \/ FetchSnapshot(b, s) \/ GetSnapshot(b, s)
          \/ GetContent(b, s) \/ CleanupGet(b, s) \/ CleanupPatch(b, s)
          \/ CleanupDelete(b, s) \/ LabelContent(b, s) \/ AnnotateSnapshot(b, s)
  BY <1>0, <1>2 DEF PVCExecute, PVCSkipped, PVCError, PVCSnapshot, FetchSnapshot, GetSnapshot,
     GetContent, CleanupGet, CleanupPatch, CleanupDelete, LabelContent, AnnotateSnapshot,
     Goto, ReturnError
<1>3. CASE \/ RecordItems(b, s)
          \/ FinalizePatch(b, s) \/ FinalizeDelete(b, s) \/ RecreateDelete(b, s)
          \/ RecreateWait(b, s) \/ RecreateCreate(b, s) \/ DeleteVSDelete(b, s)
          \/ DeleteVSCDelete(b, s)
  BY <1>0, <1>3 DEF RecordItems, FinalizePatch, FinalizeDelete, RecreateDelete, RecreateWait,
     RecreateCreate, DeleteVSDelete, DeleteVSCDelete, Goto, ReturnError
<1> QED BY <1>1, <1>2, <1>3 DEF Handler

\* A snapshot is open from the creation of its VS on; its handlers leave the
\* objects as they are, the label and the annotation apart.
LEMMA OwnOpen ==
    ASSUME SafetyInv, NEW b \in Backup, NEW s \in Snap, Handler(b, s), Own(b, s),
           Open(b, s)'
    PROVE  \/ PVCExecute(b, s) /\ PVCSnapshot(b, s)
           \/ /\ Open(b, s)
              /\ vs'[s].st = vs[s].st /\ vs'[s].bound = vs[s].bound
              /\ vsc'[s].st = vsc[s].st /\ vsc'[s].static = vsc[s].static
<1> DEFINE t == <<b, s>>
<1>0. /\ t \in Task /\ pc \in [Task -> PCs] /\ rec \in [Task -> Records]
      /\ vs \in [Snap -> SnapshotObjects] /\ vsc \in [Snap -> ContentObjects]
      /\ PhaseInv(b, s) /\ KnowledgeInv(b, s) /\ phase' = phase
  BY TaskPair, HandlerRec DEF SafetyInv, TypeOK, ClusterTypeOK
<1>1. pc'[t] \in {"created"} \cup Saving \cup Reading
  BY DEF Open
<1>2. rec' = rec
  <2>1. ~RecordItems(b, s)
    BY <1>0, <1>1 DEF RecordItems, Goto, Reading, Saving
  <2>2. QED BY <2>1, WritersOfRec
<1> USE <1>0, <1>1, <1>2 DEF Open, Goto, ReturnError, Reading, Saving
<1>3. CASE PVCExecute(b, s)
  BY <1>3 DEF PVCExecute, PVCSkipped, PVCError
<1>4. CASE FetchSnapshot(b, s)
  BY <1>4 DEF FetchSnapshot, cluster, KnowledgeInv
<1>5. CASE GetSnapshot(b, s)
  BY <1>5 DEF GetSnapshot, cluster
<1>6. CASE GetContent(b, s)
  BY <1>6 DEF GetContent, cluster, KnowledgeInv, PhaseInv
<1>7. CASE LabelContent(b, s)
  <2>1. vsc' = vsc \/ \E l : vsc' = [vsc EXCEPT ![s].label = l]
    BY <1>7 DEF LabelContent, PatchLabel
  <2>2. vsc'[s].st = vsc[s].st /\ vsc'[s].static = vsc[s].static
    BY <2>1 DEF ContentObjects
  <2>3. QED BY <1>7, <2>2 DEF LabelContent
<1>8. CASE AnnotateSnapshot(b, s)
  <2>1. vs' = vs \/ \E a : vs' = [vs EXCEPT ![s].ann = a]
    BY <1>8 DEF AnnotateSnapshot
  <2>2. vs'[s].st = vs[s].st /\ vs'[s].bound = vs[s].bound
    BY <2>1 DEF SnapshotObjects
  <2>3. QED BY <1>8, <2>2 DEF AnnotateSnapshot
<1>9. CASE DeleteVSPatch(b, s) \/ DeleteVSCPatch(b, s)
  BY <1>9 DEF DeleteVSPatch, DeleteVSCPatch, Visit, Quiet, Busy
<1>10. CASE \/ CleanupGet(b, s) \/ CleanupPatch(b, s) \/ CleanupDelete(b, s)
           \/ FinalizePatch(b, s) \/ FinalizeDelete(b, s) \/ RecreateDelete(b, s)
           \/ RecreateWait(b, s) \/ RecreateCreate(b, s) \/ DeleteVSDelete(b, s)
           \/ DeleteVSCDelete(b, s)
  BY <1>10 DEF CleanupGet, CleanupPatch, CleanupDelete, FinalizePatch, FinalizeDelete,
     RecreateDelete, RecreateWait, RecreateCreate, DeleteVSDelete, DeleteVSCDelete
<1>11. ~RecordItems(b, s)
  BY DEF RecordItems
<1> QED BY <1>3, <1>4, <1>5, <1>6, <1>7, <1>8, <1>9, <1>10, <1>11 DEF Handler

\* The own handlers keep what holds before the snapshot is recorded.
LEMMA KeepEarly ==
    ASSUME SafetyInv, NEW b \in Backup, NEW s \in Snap, Own(b, s), KeepInv(b, s), Handler(b, s)
    PROVE  UnusedInv(b, s)' /\ OpenInv(b, s)'
<1> DEFINE t == <<b, s>>
<1>0. /\ cloud' = cloud /\ \A c \in Backup \ {b} : pc'[<<c, s>>] = pc[<<c, s>>]
      /\ vs \in [Snap -> SnapshotObjects] /\ TypeOK
  BY HandlerFrame, OtherTask DEF HandlerKeeps, SafetyInv, TypeOK, ClusterTypeOK
<1>1. UnusedInv(b, s)'
  BY <1>0, OwnIdle DEF KeepInv, UnusedInv
<1>2. OpenInv(b, s)'
  <2>1. SUFFICES ASSUME Open(b, s)'
                 PROVE  /\ Present(s)' /\ cloud'[s] # "erased"
                        /\ \A c \in Backup \ {b} :
                              /\ pc'[<<c, s>>] \notin Cleaning
                              /\ pc'[<<c, s>>] = "getvsc" => vs'[s].bound
    BY DEF OpenInv
  <2>2. CASE PVCExecute(b, s) /\ PVCSnapshot(b, s)
    <3>1. /\ pc[t] = "idle" /\ vs' = [vs EXCEPT ![s].st = "live"] /\ vsc' = vsc
      BY <2>2 DEF PVCExecute, PVCSnapshot, CreateSnapshotObject
    <3>2. /\ vs[s] = NoSnapshot /\ vsc[s] = NoContent /\ cloud[s] = "none"
          /\ \A c \in Backup \ {b} : pc[<<c, s>>] \notin Cleaning \cup {"getvsc"}
      BY <3>1 DEF KeepInv, UnusedInv
    <3>3. vs'[s].st = "live" /\ ~vs'[s].bound
      BY <1>0, <3>1, <3>2 DEF NoSnapshot, SnapshotObjects
    <3>4. QED BY <1>0, <3>1, <3>2, <3>3 DEF Present, NoContent
  <2>3. CASE /\ Open(b, s)
             /\ vs'[s].st = vs[s].st /\ vs'[s].bound = vs[s].bound
             /\ vsc'[s].st = vsc[s].st /\ vsc'[s].static = vsc[s].static
    BY <1>0, <2>3 DEF KeepInv, OpenInv, Present
  <2>4. QED BY <2>1, <2>2, <2>3, OwnOpen
<1> QED BY <1>1, <1>2

\* When the snapshot is recorded, it is there and its objects are.
LEMMA KeepRecord ==
    ASSUME SafetyInv, NEW b \in Backup, NEW s \in Snap, Own(b, s), KeepInv(b, s),
           RecordItems(b, s)
    PROVE  ObjectsInv(b, s)' /\ RelianceInv(b, s)'
<1> DEFINE t == <<b, s>>
<1>0. /\ t \in Task /\ pc \in [Task -> PCs] /\ KnowledgeInv(b, s)
      /\ cloud \in [Snap -> {"none", "stored", "erased"}]
  BY TaskPair DEF SafetyInv, TypeOK, ClusterTypeOK
<1>1. /\ pc[t] = "attach" /\ pc'[t] = "recorded" /\ UNCHANGED <<vs, vsc, cloud>>
      /\ \A c \in Backup \ {b} : pc'[<<c, s>>] = pc[<<c, s>>]
  BY <1>0, TaskPair DEF RecordItems, Goto, cluster
<1>2. /\ Present(s) /\ cloud[s] # "erased"
      /\ \A c \in Backup \ {b} : pc[<<c, s>>] \notin Cleaning
  BY <1>1 DEF KeepInv, OpenInv, Open, Saving
<1>3. cloud[s] = "stored" /\ vs[s].bound
  BY <1>0, <1>1, <1>2 DEF KnowledgeInv, Saving, Present
<1> QED BY <1>1, <1>2, <1>3 DEF ObjectsInv, RelianceInv, Present, Finishing

\* A recorded snapshot of a backup that is not being deleted: the handlers that
\* may be at work on it.
LEMMA KeptHandlers ==
    ASSUME SafetyInv, NEW b \in Backup, NEW s \in Snap, Own(b, s), Handler(b, s), Kept(b, s)
    PROVE  /\ phase[b] = "finalizing" /\ rec' = rec
           /\ \/ FetchSnapshot(b, s) /\ UNCHANGED cluster /\ pc'[<<b, s>>] \in {"getvs", "done"}
              \/ GetSnapshot(b, s) \/ GetContent(b, s)
              \/ CleanupGet(b, s) \/ CleanupPatch(b, s) \/ CleanupDelete(b, s)
              \/ FinalizePatch(b, s) \/ FinalizeDelete(b, s) \/ RecreateDelete(b, s)
              \/ RecreateWait(b, s) \/ RecreateCreate(b, s)
<1> DEFINE t == <<b, s>>
<1>0. /\ t \in Task /\ t[1] = b /\ pc \in [Task -> PCs] /\ KnowledgeInv(b, s) /\ PhaseInv(b, s)
      /\ rec[t].vs /\ phase[b] # "deleting"
  BY TaskPair DEF SafetyInv, TypeOK, Kept
<1>1. pc[t] # "idle" /\ (phase[b] = "inprogress" => pc[t] = "recorded")
  BY <1>0 DEF KnowledgeInv
<1>2. pc[t] \notin {"created"} \cup Saving \cup Deleting
  BY <1>0, <1>1 DEF PhaseInv, Saving, Deleting
<1>3. pc[t] \in Reading \cup Cleaning \cup Finishing => phase[b] = "finalizing"
  BY <1>0, <1>1 DEF PhaseInv, Reading, Cleaning, Finishing
<1>4. ~(PVCExecute(b, s) \/ LabelContent(b, s) \/ AnnotateSnapshot(b, s) \/ RecordItems(b, s)
        \/ DeleteVSPatch(b, s) \/ DeleteVSDelete(b, s) \/ DeleteVSCPatch(b, s)
        \/ DeleteVSCDelete(b, s))
  BY <1>0, <1>1, <1>2 DEF PVCExecute, LabelContent, AnnotateSnapshot, RecordItems, DeleteVSPatch,
     DeleteVSDelete, DeleteVSCPatch, DeleteVSCDelete, Visit, Saving, Deleting
<1>5. rec' = rec
  BY <1>4, WritersOfRec
<1>6. CASE FetchSnapshot(b, s)
  BY <1>0, <1>2, <1>5, <1>6 DEF FetchSnapshot, Goto
<1>7. CASE \/ GetSnapshot(b, s) \/ GetContent(b, s)
          \/ CleanupGet(b, s) \/ CleanupPatch(b, s) \/ CleanupDelete(b, s)
          \/ FinalizePatch(b, s) \/ FinalizeDelete(b, s) \/ RecreateDelete(b, s)
          \/ RecreateWait(b, s) \/ RecreateCreate(b, s)
  BY <1>3, <1>5, <1>7 DEF GetSnapshot, GetContent, CleanupGet, CleanupPatch, CleanupDelete,
     FinalizePatch, FinalizeDelete, RecreateDelete, RecreateWait, RecreateCreate,
     Reading, Cleaning, Finishing
<1> QED BY <1>4, <1>6, <1>7 DEF Handler

\* The own handlers keep what holds of a recorded snapshot.
LEMMA KeepFinish ==
    ASSUME Answered, SafetyInv, NEW b \in Backup, NEW s \in Snap, Own(b, s),
           KeepInv(b, s), Handler(b, s), Kept(b, s)
    PROVE  ObjectsInv(b, s)' /\ RelianceInv(b, s)'
<1> DEFINE t == <<b, s>>
<1>0. /\ t \in Task /\ t[1] = b /\ ClusterTypeOK
      /\ pc \in [Task -> PCs] /\ loc \in [Task -> Locals]
      /\ vs \in [Snap -> SnapshotObjects] /\ vsc \in [Snap -> ContentObjects]
      /\ phase[b] = "finalizing" /\ rec[t].vs
      /\ KnowledgeInv(b, s) /\ ContentInv(s) /\ FinishInv(b, s)
      /\ ObjectsInv(b, s) /\ RelianceInv(b, s)
  BY TaskPair, KeptHandlers DEF SafetyInv, TypeOK, ClusterTypeOK, KeepInv, Kept
<1>1. cloud' = cloud /\ \A c \in Backup \ {b} : pc'[<<c, s>>] = pc[<<c, s>>]
  BY HandlerFrame, OtherTask DEF HandlerKeeps, SafetyInv
\* The clean-up of another backup found the content gone.
<1>2. ASSUME NEW c \in Backup \ {b}, pc[<<c, s>>] \in Cleaning, pc[t] # "finalized"
      PROVE  vs[s].st # "live" /\ vsc[s].st = "absent"
  BY <1>0, <1>2 DEF ObjectsInv, Gone
<1> USE <1>0, <1>1 DEF Goto, RelianceInv, Finishing, Retaining
<1>3. ASSUME vs' = vs, vsc' = vsc PROVE ObjectsInv(b, s)' \/ pc[t] = "finalized"
  BY <1>2, <1>3 DEF ObjectsInv, Gone
<1>4. CASE FetchSnapshot(b, s) /\ UNCHANGED cluster /\ pc'[t] \in {"getvs", "done"}
  BY <1>3, <1>4 DEF cluster, FetchSnapshot
<1>5. CASE GetSnapshot(b, s)
  <2>1. UNCHANGED <<vs, vsc>> /\ pc[t] \in {"getvs", "poll"}
    BY <1>5 DEF GetSnapshot, cluster
  <2>2. \/ pc'[t] = "getvsc"
        \/ pc'[t] = "cleanget" /\ (vs[s].st = "absent" \/ pc[t] = "poll")
    BY <1>5 DEF GetSnapshot, Answered, CleanReads, KnowledgeInv
  <2>3. QED BY <1>3, <2>1, <2>2 DEF Gone
<1>6. CASE GetContent(b, s)
  <2>1. UNCHANGED <<vs, vsc>> /\ pc[t] = "getvsc"
    BY <1>6 DEF GetContent, cluster
  <2>2. CASE pc'[t] = "poll" /\ vsc[s].st # "absent" /\ ~vsc[s].handle
    <3>1. vsc[s].static /\ vs[s].st # "live" /\ vsc[s].st = "live"
      BY <2>2 DEF ContentInv, ObjectsInv, ContentObjects, ObjectStates
    <3>2. QED BY <1>3, <2>1, <2>2, <3>1 DEF Gone
  <2>3. CASE pc'[t] = "finpatch" /\ loc' = [loc EXCEPT ![t].content = vsc[s]] /\ vsc[s].handle
    <3>1. loc'[t].content = vsc[s]
      BY <2>3 DEF Locals
    <3>2. QED BY <1>3, <2>1, <2>3, <3>1
  <2>4. CASE pc'[t] = "cleanget" /\ vsc[s].st = "absent"
    BY <1>3, <2>1, <2>4 DEF ObjectsInv, Gone
  <2>5. QED BY <1>6, <2>2, <2>3, <2>4 DEF GetContent, ContentReady, Answered, CleanReads
<1>7. CASE CleanupGet(b, s)
  <2>1. /\ UNCHANGED <<vs, vsc>> /\ pc[t] = "cleanget"
        /\ \/ pc'[t] \in {"cleanpatch", "cleandelete"} /\ vs[s].st # "absent"
           \/ pc'[t] = "failed"
    BY <1>7 DEF CleanupGet, cluster, ReturnError
  <2>2. QED BY <1>3, <2>1 DEF Gone
<1>8. CASE CleanupPatch(b, s)
  <2>1. vs' = vs /\ pc[t] = "cleanpatch" /\ pc'[t] = "cleandelete" /\ Gone(s)
    BY <1>8 DEF CleanupPatch
  <2>2. CASE vsc' = vsc
    BY <1>3, <2>1, <2>2 DEF Gone
  <2>3. CASE SetVolumeSnapshotContentDeletionPolicy(s)
    <3>1. /\ vsc[s].st # "absent" /\ vsc'[s].st = vsc[s].st /\ vsc'[s].static = vsc[s].static
      BY <2>3, PatchedDelete
    <3>2. QED BY <1>2, <2>1, <3>1 DEF ObjectsInv, Gone
  <2>4. QED BY <1>8, <2>2, <2>3 DEF CleanupPatch
<1>9. CASE CleanupDelete(b, s)
  <2>1. vsc' = vsc /\ pc[t] = "cleandelete" /\ pc'[t] = "failed" /\ Gone(s)
    BY <1>9 DEF CleanupDelete, ReturnError
  <2>2. vs'[s].st = vs[s].st
    BY <1>9, <2>1, DeletedSnapshot DEF CleanupDelete, CleanupEffect, Gone
  <2>3. QED BY <1>2, <2>1, <2>2 DEF ObjectsInv, Gone
<1>10. CASE FinalizePatch(b, s)
  <2>1. vs' = vs /\ pc[t] = "finpatch" /\ pc'[t] \in {"findelete", "finalized"}
    BY <1>10 DEF FinalizePatch
  <2>2. CASE ~ModifyVSC(t)
    <3>1. vsc' = vsc /\ loc[t].bound
      BY <1>10, <2>1, <2>2 DEF FinalizePatch, KnowledgeInv, Revisited
    <3>2. loc[t].content.policy = "Retain"
      BY <2>2, <3>1 DEF ModifyVSC, Locals, ContentObjects, Policies
    <3>3. QED BY <1>3, <2>1, <3>1, <3>2
  <2>3. CASE vsc' = vsc /\ pc'[t] = "finalized"
    BY <1>3, <2>1, <2>3
  <2>4. CASE PatchPolicy(s, "Retain")
    <3>1. /\ vsc[s].st # "absent" /\ vsc'[s].policy = "Retain"
          /\ vsc'[s].st = vsc[s].st /\ vsc'[s].static = vsc[s].static
          /\ vsc'[s].handle = vsc[s].handle
      BY <2>4, PatchedPolicy DEF Policies
    <3>2. QED BY <1>2, <2>1, <3>1 DEF ObjectsInv, Gone
  <2>5. QED BY <1>10, <2>2, <2>3, <2>4 DEF FinalizePatch
<1>11. CASE FinalizeDelete(b, s)
  <2>1. /\ vsc' = vsc /\ pc[t] = "findelete" /\ pc'[t] \in {"recdelete", "finalized"}
        /\ Retaining(s)
    BY <1>11 DEF FinalizeDelete
  <2>2. vs'[s].st = vs[s].st \/ vs'[s].st = "deleting"
    BY <1>11, DeletedSnapshot DEF FinalizeDelete
  <2>3. QED BY <1>2, <2>1, <2>2 DEF ObjectsInv, Gone
<1>12. CASE RecreateDelete(b, s)
  <2>1. /\ vs' = vs /\ pc[t] = "recdelete" /\ pc'[t] \in {"recwait", "finalized"}
        /\ Retaining(s)
    BY <1>12 DEF RecreateDelete
  <2>2. CASE vsc' = vsc
    BY <1>3, <2>1, <2>2
  <2>3. CASE DeleteContentObject(s)
    <3>1. CASE vsc[s].st = "absent"
      <4>1. vsc' = vsc
        BY <2>3, <3>1 DEF DeleteContentObject, ContentObjects
      <4>2. QED BY <2>2, <4>1
    <3>2. CASE vsc[s].st # "absent"
      <4>1. /\ vsc'[s].st \in {vsc[s].st, "deleting"} /\ vsc'[s].policy = "Retain"
            /\ vsc'[s].handle /\ vsc'[s].static = vsc[s].static
        BY <2>1, <2>3, <3>2, DeletedContent
      <4>2. QED BY <1>2, <2>1, <3>2, <4>1 DEF ObjectsInv, Gone
    <3>3. QED BY <3>1, <3>2
  <2>4. QED BY <1>12, <2>2, <2>3 DEF RecreateDelete
<1>13. CASE RecreateWait(b, s)
  <2>1. UNCHANGED <<vs, vsc>> /\ pc[t] = "recwait" /\ pc'[t] \in {"reccreate", "finalized"}
    BY <1>13 DEF RecreateWait, cluster
  <2>2. QED BY <1>3, <2>1
<1>14. CASE RecreateCreate(b, s)
  <2>1. vs' = vs /\ pc[t] = "reccreate" /\ pc'[t] = "finalized"
    BY <1>14 DEF RecreateCreate
  <2>2. CASE vsc' = vsc
    BY <1>3, <2>1, <2>2
  <2>3. CASE /\ vsc[s].st = "absent"
             /\ vsc' = [vsc EXCEPT ![s] = [loc[t].content EXCEPT
                           !.st = "live", !.static = TRUE, !.handle = FALSE]]
    <3>1. loc[t].content \in ContentObjects
      BY DEF Locals
    <3>2. vsc'[s].st = "live" /\ vsc'[s].static
      BY <2>3, <3>1 DEF ContentObjects
    <3>3. QED BY <1>2, <2>1, <2>3, <3>2 DEF ObjectsInv, Gone
  <2>4. QED BY <1>14, <2>2, <2>3 DEF RecreateCreate, CreateStaticContent
<1> QED BY <1>4, <1>5, <1>6, <1>7, <1>8, <1>9, <1>10, <1>11, <1>12, <1>13, <1>14, KeptHandlers

\* The own handlers keep KeepInv.
LEMMA KeepHandler ==
    ASSUME Answered, SafetyInv, NEW b \in Backup, NEW s \in Snap, Own(b, s),
           KeepInv(b, s), Handler(b, s)
    PROVE  KeepInv(b, s)'
<1>1. UnusedInv(b, s)' /\ OpenInv(b, s)'
  BY KeepEarly
<1>2. ASSUME Kept(b, s)' PROVE Kept(b, s) \/ RecordItems(b, s)
  BY <1>2, HandlerRec, WritersOfRec DEF Kept, SafetyInv
<1>3. QED BY <1>1, <1>2, KeepRecord, KeepFinish DEF KeepInv

-----------------------------------------------------------------------------
\* Every step keeps KeepInv.
LEMMA KeepStep ==
    ASSUME Answered, SafetyInv, KeepingInv, [Next]_vars
    PROVE  KeepingInv'
<1> SUFFICES ASSUME NEW b \in Backup, NEW s \in Snap, Own(b, s) PROVE KeepInv(b, s)'
  BY DEF KeepingInv, Own
<1> DEFINE t == <<b, s>>
<1>0. KeepInv(b, s) /\ TypeOK
  BY DEF KeepingInv, SafetyInv
\* Another actor moves, elsewhere.
<1>1. ASSUME phase'[b] = phase[b], loc'[t] = loc[t], rec'[t] = rec[t],
             \A c \in Backup : pc'[<<c, s>>] = pc[<<c, s>>],
             vs'[s] = vs[s], vsc'[s] = vsc[s], cloud'[s] = cloud[s]
      PROVE  KeepInv(b, s)'
  BY <1>0, <1>1 DEF KeepInv, UnusedInv, OpenInv, Open, Kept, Present, ObjectsInv, RelianceInv,
     Gone, Retaining
<1>2. ASSUME NEW x \in Snap, Controller(x) PROVE KeepInv(b, s)'
  <2>1. CASE x = s
    BY <1>0, <1>2, <2>1, KeepController
  <2>2. CASE x # s
    BY <1>0, <1>1, <1>2, <2>2, ControllerFrame
  <2>3. QED BY <2>1, <2>2
<1>3. ASSUME NEW c \in Backup, NEW x \in Snap, Handler(c, x) PROVE KeepInv(b, s)'
  <2>1. CASE c = b /\ x = s
    BY <1>0, <1>3, <2>1, KeepHandler
  <2>2. CASE c # b /\ x = s
    BY <1>0, <1>3, <2>2, KeepStranger
  <2>3. CASE x # s
    BY <1>0, <1>1, <1>3, <2>3, HandlerFrame, OtherTask DEF HandlerKeeps
  <2>4. QED BY <2>1, <2>2, <2>3
<1>4. ASSUME NEW c \in Backup, Velero(c) \/ RequestDelete(c) PROVE KeepInv(b, s)'
  <2>1. CASE c = b
    BY <1>0, <1>4, <2>1, KeepVelero
  <2>2. CASE c # b
    BY <1>0, <1>1, <1>4, <2>2, OtherBackup
  <2>3. QED BY <2>1, <2>2
<1>5. CASE Crash
  BY <1>0, <1>5, KeepCrash
<1>6. CASE UNCHANGED vars
  BY <1>1, <1>6 DEF vars
<1> QED BY <1>2, <1>3, <1>4, <1>5, <1>6 DEF Next

\* Nothing of a backup's snapshots exists at the start.
LEMMA KeepStart == Init => KeepingInv
<1> SUFFICES ASSUME Init, NEW b \in Backup, NEW s \in Snap, Own(b, s) PROVE KeepInv(b, s)
  BY DEF KeepingInv
<1>1. \A c \in Backup : pc[<<c, s>>] = "idle"
  BY TaskPair DEF Init
<1>2. rec[<<b, s>>] = NoRecord
  BY TaskPair DEF Init
<1>3. /\ vs[s] = NoSnapshot /\ vsc[s] = NoContent /\ cloud[s] = "none"
  BY BackupAssumption DEF Init, ClusterInit, UserSnap, Own
<1> QED BY <1>1, <1>2, <1>3
  DEF KeepInv, UnusedInv, OpenInv, Open, Kept, NoRecord, Cleaning, Saving, Reading

\* A step spends at most one trouble.
LEMMA BudgetStep ==
    ASSUME TypeOK, [Next]_vars
    PROVE  budget' = budget \/ \E k \in Trouble : Spend(k)
<1>1. ASSUME NEW b \in Backup, NEW s \in Snap, Handler(b, s)
      PROVE  Spend("fault") \/ Spend("timeout") \/ budget' = budget
  BY <1>1
  DEF Handler, PVCExecute, FetchSnapshot, GetSnapshot, GetContent, CleanupGet,
      CleanupPatch, CleanupDelete, LabelContent, AnnotateSnapshot, RecordItems,
      FinalizePatch, FinalizeDelete, RecreateDelete, RecreateWait,
      RecreateCreate, DeleteVSPatch, DeleteVSDelete, DeleteVSCPatch,
      DeleteVSCDelete, PVCSkipped, PVCError, PVCSnapshot, Fails
<1>2. CASE Crash
  BY <1>2 DEF Crash, Trouble
<1> QED BY <1>1, <1>2, ControllerFrame, VeleroFrame DEF Next, vars, Trouble

\* What a trouble that is spent does to the budget of another.
LEMMA BudgetShrinks ==
    ASSUME TypeOK, [Next]_vars, NEW k \in Trouble
    PROVE  /\ budget[k] \in Nat /\ budget'[k] \in Nat /\ budget'[k] <= budget[k]
           /\ budget'[k] = budget[k] => ~Spend(k)
<1>1. budget \in [Trouble -> Nat] /\ MaxTrouble \in [Trouble -> Nat]
  BY TroubleAssumption DEF TypeOK
<1>2. ASSUME NEW j \in Trouble, Spend(j)
      PROVE  budget'[k] \in Nat /\ budget'[k] <= budget[k] /\ (j = k => budget'[k] # budget[k])
  BY <1>1, <1>2 DEF Spend
<1> QED BY <1>1, <1>2, BudgetStep

\* While the GETs are answered, what keeps a listed snapshot is an invariant, in
\* spite of restarts, waits that end early and other failing calls.
THEOREM KeepingInvariant == Spec => []KeptWhileAnswered
<1>1. Init => KeptWhileAnswered
  BY KeepStart, TroubleAssumption DEF Init, KeptWhileAnswered, Trouble
<1>2. SafetyInv /\ KeptWhileAnswered /\ [Next]_vars => KeptWhileAnswered'
  <2>1. SUFFICES ASSUME SafetyInv, KeptWhileAnswered, [Next]_vars PROVE KeptWhileAnswered'
    OBVIOUS
  <2>2. /\ budget["fault"] \in Nat /\ budget'["fault"] \in Nat /\ MaxTrouble["fault"] \in Nat
        /\ budget'["fault"] <= budget["fault"] /\ budget["fault"] <= MaxTrouble["fault"]
        /\ budget'["fault"] = budget["fault"] => ~Spend("fault")
    BY <2>1, BudgetShrinks, TroubleAssumption DEF SafetyInv, KeptWhileAnswered, Trouble
  <2>3. ASSUME ReadsAnswered' PROVE KeepingInv'
    <3>1. CASE CleanReads \cap Flaky = {}
      BY <2>1, <3>1, KeepStep DEF Answered, Fails, KeptWhileAnswered, ReadsAnswered
    <3>2. CASE budget'["fault"] = MaxTrouble["fault"]
      <4>1. budget["fault"] = MaxTrouble["fault"] /\ ~Spend("fault")
        BY <2>2, <3>2
      <4>2. QED BY <2>1, <4>1, KeepStep DEF Answered, Fails, KeptWhileAnswered, ReadsAnswered
    <3>3. QED BY <2>3, <3>1, <3>2 DEF ReadsAnswered
  <2>4. QED BY <2>2, <2>3 DEF KeptWhileAnswered
<1> QED BY <1>1, <1>2, SafetyInvariant, PTL DEF Spec

\* A snapshot that a backup's tarball lists stays with the storage provider
\* until somebody deletes the backup, whatever other calls fail, whatever waits
\* end early and however often Velero restarts, as long as the GETs after which
\* Execute cleans up (util.go:249-262, backup/volumesnapshot_action.go:98) do
\* not fail for a reason of their own.
THEOREM RetainedUntilDeletedHolds ==
    ASSUME CleanReads \cap Flaky = {} PROVE Spec => []RetainedUntilDeleted
<1>1. KeptWhileAnswered => RetainedUntilDeleted
  BY DEF KeptWhileAnswered, ReadsAnswered, KeepingInv, KeepInv, Kept, ObjectsInv,
     RetainedUntilDeleted
<1> QED BY <1>1, KeepingInvariant, PTL

-----------------------------------------------------------------------------
(* What a completed backup leaves.                                         *)

\* The calls without which the finalization does not do its work, each answered
\* without a failure of its own; and neither an early end of a wait nor a restart.
Smooth ==
    /\ {"getVS", "getVSC", "patchVSC", "deleteVS", "deleteVSC", "createVSC"} \cap Flaky = {}
    /\ MaxTrouble["timeout"] = 0 /\ MaxTrouble["crash"] = 0

\* An exhausted budget stays so.
LEMMA Exhausted ==
    ASSUME TypeOK, [Next]_vars, budget["timeout"] = 0, budget["crash"] = 0
    PROVE  ~Crash /\ budget'["timeout"] = 0 /\ budget'["crash"] = 0
<1>1. ~Crash
  BY DEF Crash, Spend
<1> QED BY <1>1, BudgetShrinks DEF Trouble

\* What the handlers know of a snapshot that is recorded and kept.
LEMMA KeptKnowledge ==
    ASSUME SafetyInv, KeepingInv, NEW b \in Backup, NEW s \in Snap, Own(b, s), Kept(b, s)
    PROVE  /\ ObjectsInv(b, s) /\ RelianceInv(b, s) /\ KnowledgeInv(b, s)
           /\ vs[s].st = "absent" \/ vs[s].bound
           /\ Present(s) => vsc[s].st = "live" /\ vsc[s].handle
<1>1. ObjectsInv(b, s) /\ RelianceInv(b, s) /\ KnowledgeInv(b, s) /\ ContentInv(s)
  BY DEF SafetyInv, KeepingInv, KeepInv
<1>2. vs[s].st = "absent" \/ vs[s].bound
  BY <1>1 DEF Kept, KnowledgeInv
<1> QED BY <1>1, <1>2 DEF Present, ContentInv, ObjectsInv

\* The controllers keep RemainInv.
LEMMA RemainController ==
    ASSUME SafetyInv, KeepingInv, NEW b \in Backup, NEW s \in Snap, Own(b, s), RemainInv(b, s),
           Controller(s), Accounted(s) => Accounted(s)'
    PROVE  RemainInv(b, s)'
<1> DEFINE t == <<b, s>>
<1>0. /\ UNCHANGED <<phase, pc, loc, rec>>
      /\ vsc \in [Snap -> ContentObjects] /\ vs \in [Snap -> SnapshotObjects]
  BY ControllerFrame DEF SafetyInv, TypeOK, ClusterTypeOK
<1> SUFFICES ASSUME Kept(b, s) PROVE RemainInv(b, s)'
  BY <1>0 DEF RemainInv, Kept
<1>1. /\ ObjectsInv(b, s) /\ RelianceInv(b, s)
      /\ vs[s].st = "absent" \/ vs[s].bound
      /\ Present(s) => vsc[s].st = "live" /\ vsc[s].handle
  BY KeptKnowledge
<1>2. ~CreateContent(s) /\ ~BindSnapshot(s)
  BY <1>1 DEF CreateContent, BindSnapshot, ObjectsInv
<1> USE <1>0, <1>1 DEF RemainInv, Kept, Retaining
<1>3. CASE TakeSnapshot(s)
  <2>1. /\ vsc'[s].st = vsc[s].st /\ vsc'[s].policy = vsc[s].policy
        /\ vsc'[s].static = vsc[s].static /\ vs' = vs
    BY <1>3 DEF TakeSnapshot, ContentObjects
  <2>2. QED BY <2>1 DEF Present
<1>4. CASE FinishSnapshotDelete(s)
  <2>1. /\ vs[s].st = "deleting" /\ vs'[s].st = "absent"
        /\ vsc'[s].policy = vsc[s].policy /\ vsc'[s].st = vsc[s].st
    BY <1>4 DEF FinishSnapshotDelete, ContentObjects, NoSnapshot, ObjectsInv
  <2>2. QED BY <2>1 DEF Present
<1>5. CASE FinishContentDelete(s)
  <2>1. vsc[s].st = "deleting" /\ vsc'[s].st = "absent" /\ vs' = vs
    BY <1>5 DEF FinishContentDelete, NoContent
  <2>2. QED BY <2>1 DEF Present
<1> QED BY <1>2, <1>3, <1>4, <1>5 DEF Controller, Csi

\* Another backup's handlers keep it.
LEMMA RemainStranger ==
    ASSUME Answered, SafetyInv, KeepingInv,
           NEW b \in Backup, NEW s \in Snap, Own(b, s), RemainInv(b, s),
           NEW c \in Backup \ {b}, Handler(c, s), Accounted(s) => Accounted(s)'
    PROVE  RemainInv(b, s)'
<1> DEFINE t == <<b, s>>
           d == <<c, s>>
<1>0. /\ phase' = phase /\ pc'[t] = pc[t] /\ rec'[t] = rec[t] /\ ClusterTypeOK
  BY HandlerFrame, OtherTask DEF HandlerKeeps, SafetyInv, TypeOK
<1> SUFFICES ASSUME Kept(b, s) PROVE RemainInv(b, s)'
  BY <1>0 DEF RemainInv, Kept
<1>1. ObjectsInv(b, s)
  BY KeptKnowledge
<1>2. /\ vs'[s].bound = vs[s].bound
      /\ vs'[s].st # vs[s].st => pc[d] \in Cleaning /\ vs[s].st = "live"
      /\ vsc' = vsc \/ (pc[d] \in Cleaning /\ PatchPolicy(s, "Delete"))
  BY Stranger
<1>3. vs'[s].st = vs[s].st
  BY <1>1, <1>2 DEF ObjectsInv, Gone
<1>4. CASE vsc' = vsc
  BY <1>0, <1>2, <1>3, <1>4 DEF RemainInv, Kept, Present, Retaining
<1>5. CASE pc[d] \in Cleaning /\ PatchPolicy(s, "Delete")
  <2>1. vsc[s].st # "absent" /\ vsc'[s].st = vsc[s].st /\ vsc'[s].static = vsc[s].static
    BY <1>0, <1>5, PatchedPolicy DEF Policies
  <2>2. pc[t] = "finalized" /\ Accounted(s)
    BY <1>1, <1>5, <2>1 DEF ObjectsInv, Accounted, Troubled
  <2>3. QED BY <1>0, <1>3, <2>1, <2>2 DEF RemainInv, Kept
<1> QED BY <1>2, <1>4, <1>5

\* Velero's steps keep it.
LEMMA RemainVelero ==
    ASSUME SafetyInv, NEW b \in Backup, NEW s \in Snap, Own(b, s), RemainInv(b, s),
           Velero(b) \/ RequestDelete(b), Accounted(s) => Accounted(s)'
    PROVE  RemainInv(b, s)'
<1> DEFINE t == <<b, s>>
<1>0. /\ t \in Task /\ t[1] = b /\ UNCHANGED <<vs, vsc, cloud, pc>>
      /\ phase \in [Backup -> Phases] /\ rec \in [Task -> Records]
  BY TaskPair, VeleroFrame DEF SafetyInv, TypeOK
<1>1. CASE StartBackup(b) \/ EndInProgress(b) \/ StartFinalize(b)
  BY <1>0, <1>1 DEF StartBackup, EndInProgress, StartFinalize, RemainInv, Kept, Present, Retaining
<1>2. CASE CompleteBackup(b)
  <2>1. /\ phase[b] = "finalizing" /\ pc[t] # "recorded" /\ pc[t] \notin Busy
        /\ rec'[t] = Updated(t)
    BY <1>0, <1>2 DEF CompleteBackup, Quiet
  <2>2. rec'[t].vs = rec[t].vs
    BY <1>0, <2>1 DEF Updated, Records
  <2>3. Kept(b, s) => pc[t] = "finalized"
    BY <2>1 DEF RemainInv, Busy, Reading
  <2>4. QED BY <1>0, <2>1, <2>2, <2>3 DEF RemainInv, Kept, Retaining
<1>3. CASE FinishDelete(b) \/ RequestDelete(b)
  BY <1>0, <1>3 DEF FinishDelete, RequestDelete, RemainInv, Kept
<1> QED BY <1>1, <1>2, <1>3 DEF Velero

\* The own handlers keep it: nothing stops the finalization on its way.
LEMMA RemainHandler ==
    ASSUME Smooth, budget["timeout"] = 0, SafetyInv, KeepingInv,
           NEW b \in Backup, NEW s \in Snap, Own(b, s), RemainInv(b, s),
           Handler(b, s), Kept(b, s)
    PROVE  RemainInv(b, s)'
<1> DEFINE t == <<b, s>>
<1>0. /\ t \in Task /\ t[1] = b /\ ClusterTypeOK
      /\ pc \in [Task -> PCs] /\ loc \in [Task -> Locals]
      /\ vs \in [Snap -> SnapshotObjects] /\ vsc \in [Snap -> ContentObjects]
      /\ phase' = phase /\ phase[b] = "finalizing" /\ rec' = rec
  BY TaskPair, KeptHandlers, HandlerRec DEF SafetyInv, TypeOK, ClusterTypeOK
<1>1. /\ RelianceInv(b, s) /\ FinishInv(b, s)
      /\ vs[s].st = "absent" \/ vs[s].bound
      /\ Present(s) => vsc[s].st = "live" /\ vsc[s].handle
  BY KeptKnowledge DEF SafetyInv
<1>2. /\ pc[t] \in {"recorded", "getvs", "getvsc", "finalized"} \cup Finishing
      /\ pc[t] \in {"recorded", "getvs", "getvsc", "finpatch", "findelete"} => Present(s)
      /\ pc[t] \in {"recdelete", "recwait", "reccreate"} => vs[s].st # "live"
      /\ pc[t] = "recdelete" => vsc[s].st = "live"
      /\ pc[t] = "reccreate" => vsc[s].st = "absent"
      /\ pc[t] \in Finishing \ {"finpatch"} => Retaining(s)
  BY <1>1 DEF RemainInv, RelianceInv
<1>3. ~Spend("timeout")
  BY DEF Spend
<1> USE <1>0, <1>1, <1>2, <1>3 DEF Goto, RemainInv, Finishing
<1>4. CASE FetchSnapshot(b, s)
  <2>1. UNCHANGED <<vs, vsc>> /\ Present(s) /\ pc'[t] = "getvs"
    BY <1>4 DEF FetchSnapshot, cluster, Present
  <2>2. QED BY <2>1 DEF Present
<1>5. CASE GetSnapshot(b, s)
  <2>1. UNCHANGED <<vs, vsc>> /\ Present(s) /\ pc'[t] = "getvsc"
    BY <1>5 DEF GetSnapshot, cluster, Present, Fails, Smooth
  <2>2. QED BY <2>1 DEF Present
<1>6. CASE GetContent(b, s)
  <2>1. UNCHANGED <<vs, vsc>> /\ Present(s) /\ pc'[t] = "finpatch"
    BY <1>6 DEF GetContent, ContentReady, cluster, Fails, Smooth
  <2>2. QED BY <2>1 DEF Present
<1>7. ~(CleanupGet(b, s) \/ CleanupPatch(b, s) \/ CleanupDelete(b, s))
  BY DEF CleanupGet, CleanupPatch, CleanupDelete
<1>8. CASE FinalizePatch(b, s)
  <2>1. vs' = vs /\ Present(s) /\ pc'[t] = "findelete"
    BY <1>8 DEF FinalizePatch, Fails, Smooth
  <2>2. vsc' = vsc \/ PatchPolicy(s, "Retain")
    BY <1>8 DEF FinalizePatch
  <2>3. vsc'[s].st = vsc[s].st /\ vsc'[s].static = vsc[s].static
    BY <2>2, PatchedPolicy DEF Policies
  <2>4. QED BY <2>1, <2>3 DEF Present
<1>9. CASE FinalizeDelete(b, s)
  <2>1. vsc' = vsc /\ Present(s) /\ Retaining(s) /\ pc'[t] \in {"recdelete", "finalized"}
    BY <1>9 DEF FinalizeDelete
  <2>2. vs'[s].st = "deleting"
    BY <1>9, <2>1, DeletedSnapshot DEF FinalizeDelete, Fails, Smooth, Present
  <2>3. QED BY <2>1, <2>2 DEF Retaining
<1>10. CASE RecreateDelete(b, s)
  <2>1. vs' = vs /\ vs[s].st # "live" /\ vsc[s].st = "live" /\ Retaining(s)
    BY <1>10 DEF RecreateDelete
  <2>2. \/ pc'[t] = "recwait" /\ DeleteContentObject(s)
        \/ pc'[t] = "finalized" /\ vsc' = vsc
    BY <1>10, <2>1 DEF RecreateDelete, Fails, Smooth
  <2>3. QED BY <2>1, <2>2 DEF Retaining
<1>11. CASE RecreateWait(b, s)
  <2>1. UNCHANGED <<vs, vsc>> /\ vsc[s].st = "absent" /\ pc[t] = "recwait" /\ pc'[t] = "reccreate"
    BY <1>11 DEF RecreateWait, cluster, Fails, Smooth
  <2>2. QED BY <2>1
<1>12. CASE RecreateCreate(b, s)
  <2>1. /\ vs' = vs /\ pc[t] = "reccreate" /\ pc'[t] = "finalized"
        /\ vsc' = [vsc EXCEPT ![s] = [loc[t].content EXCEPT
                      !.st = "live", !.static = TRUE, !.handle = FALSE]]
    BY <1>12 DEF RecreateCreate, CreateStaticContent, Fails, Smooth
  <2>2. loc[t].content \in ContentObjects /\ loc[t].content.policy = "Retain"
    BY <2>1 DEF FinishInv, Locals
  <2>3. vsc'[s].st = "live" /\ vsc'[s].policy = "Retain"
    BY <2>1, <2>2 DEF ContentObjects
  <2>4. QED BY <2>1, <2>3 DEF Retaining
<1> QED BY <1>4, <1>5, <1>6, <1>7, <1>8, <1>9, <1>10, <1>11, <1>12, KeptHandlers

\* A snapshot comes to be recorded with its VS and its content in place.
LEMMA RemainRecord ==
    ASSUME SafetyInv, KeepingInv, NEW b \in Backup, NEW s \in Snap, Own(b, s), RecordItems(b, s)
    PROVE  RemainInv(b, s)'
<1> DEFINE t == <<b, s>>
<1>0. t \in Task /\ pc \in [Task -> PCs] /\ PhaseInv(b, s)
  BY TaskPair DEF SafetyInv, TypeOK
<1>1. /\ pc[t] = "attach" /\ pc'[t] = "recorded" /\ UNCHANGED <<vs, vsc>>
      /\ phase' = phase /\ phase[b] = "inprogress"
  BY <1>0 DEF RecordItems, Goto, cluster, PhaseInv, Saving
<1>2. Present(s)
  BY <1>1 DEF KeepingInv, KeepInv, OpenInv, Open, Saving
<1> QED BY <1>1, <1>2 DEF RemainInv, Present

\* Every step keeps RemainingInv.
LEMMA RemainStep ==
    ASSUME Smooth, SafetyInv, KeepingInv, RemainingInv, [Next]_vars
    PROVE  RemainingInv'
<1>0. TypeOK /\ Answered /\ budget["timeout"] = 0 /\ budget["crash"] = 0
  BY DEF SafetyInv, CleanReads, Smooth, RemainingInv, Answered, Fails
<1>1. ~Crash /\ budget'["timeout"] = 0 /\ budget'["crash"] = 0
  BY <1>0, Exhausted
<1> SUFFICES ASSUME NEW b \in Backup, NEW s \in Snap, Own(b, s) PROVE RemainInv(b, s)'
  BY <1>1 DEF RemainingInv, Own
<1> DEFINE t == <<b, s>>
<1>2. RemainInv(b, s) /\ (Accounted(s) => Accounted(s)')
  BY AccountedStable DEF RemainingInv, SafetyInv
\* Another actor moves, elsewhere.
<1>3. ASSUME phase'[b] = phase[b], pc'[t] = pc[t], rec'[t] = rec[t],
             vs'[s] = vs[s], vsc'[s] = vsc[s]
      PROVE  RemainInv(b, s)'
  BY <1>2, <1>3 DEF RemainInv, Kept, Present, Retaining
<1>4. ASSUME NEW x \in Snap, Controller(x) PROVE RemainInv(b, s)'
  <2>1. CASE x = s
    BY <1>2, <1>4, <2>1, RemainController
  <2>2. CASE x # s
    BY <1>0, <1>3, <1>4, <2>2, ControllerFrame
  <2>3. QED BY <2>1, <2>2
<1>5. ASSUME NEW c \in Backup, NEW x \in Snap, Handler(c, x) PROVE RemainInv(b, s)'
  <2>1. CASE c = b /\ x = s
    <3>1. Kept(b, s)' => Kept(b, s) \/ RecordItems(b, s)
      BY <1>0, <1>5, <2>1, HandlerRec, WritersOfRec DEF Kept
    <3>2. CASE Kept(b, s)
      BY <1>0, <1>2, <1>5, <2>1, <3>2, RemainHandler
    <3>3. CASE RecordItems(b, s)
      BY <3>3, RemainRecord
    <3>4. QED BY <3>1, <3>2, <3>3 DEF RemainInv
  <2>2. CASE c # b /\ x = s
    BY <1>0, <1>2, <1>5, <2>2, RemainStranger
  <2>3. CASE x # s
    BY <1>0, <1>3, <1>5, <2>3, HandlerFrame, OtherTask DEF HandlerKeeps
  <2>4. QED BY <2>1, <2>2, <2>3
<1>6. ASSUME NEW c \in Backup, Velero(c) \/ RequestDelete(c) PROVE RemainInv(b, s)'
  <2>1. CASE c = b
    BY <1>2, <1>6, <2>1, RemainVelero
  <2>2. CASE c # b
    BY <1>0, <1>3, <1>6, <2>2, OtherBackup
  <2>3. QED BY <2>1, <2>2
<1>7. CASE UNCHANGED vars
  BY <1>3, <1>7 DEF vars
<1> QED BY <1>1, <1>4, <1>5, <1>6, <1>7 DEF Next

\* What the finalization leaves is an invariant, together with what keeps a
\* listed snapshot.
LEMMA SmoothInvariant == ASSUME Smooth PROVE Spec => [](KeepingInv /\ RemainingInv)
<1>1. Init => RemainingInv
  <2>1. SUFFICES ASSUME Init PROVE RemainingInv
    OBVIOUS
  <2>2. budget["timeout"] = 0 /\ budget["crash"] = 0
    BY <2>1 DEF Init, Smooth
  <2>3. \A b \in Backup, s \in Snap : ~Kept(b, s)
    BY <2>1, TaskPair DEF Init, Kept, NoRecord
  <2>4. QED BY <2>2, <2>3 DEF RemainingInv, RemainInv
<1>2. CleanReads \cap Flaky = {}
  BY DEF Smooth, CleanReads
<1>3. SafetyInv /\ KeepingInv /\ RemainingInv /\ [Next]_vars => RemainingInv'
  BY RemainStep
<1>4. KeptWhileAnswered => KeepingInv
  BY <1>2 DEF KeptWhileAnswered, ReadsAnswered
<1> QED BY <1>1, <1>3, <1>4, KeepingInvariant, SafetyInvariant, PTL DEF Spec

\* The finalization of a listed snapshot goes on from its recording to its end,
\* and at each of its steps VS and content are as that step needs them
\* (util.go:423-522); this with no restart, no early end of a wait, and no
\* failure of the calls the finalization needs.
THEOREM RemainingInvHolds == ASSUME Smooth PROVE Spec => []RemainingInv
  BY SmoothInvariant, PTL

\* A completed backup has removed the VS of each snapshot it lists, has left its
\* content in the cluster with the policy Retain, and the snapshot with the
\* provider (DeleteVolumeSnapshot, util.go:433-503), unless a handler of another
\* backup reported that it failed on the snapshot; this with no restart, no early
\* end of a wait, and no failure of the calls the finalization needs, the DELETE of
\* the content among them.  The creation of a VS, the labels and the annotations may
\* fail, with or without effect.
THEOREM OnlyContentRemainsHolds == ASSUME Smooth PROVE Spec => []OnlyContentRemains
<1>1. SafetyInv /\ KeepingInv /\ RemainingInv => OnlyContentRemains
  <2>1. SUFFICES ASSUME SafetyInv, KeepingInv, RemainingInv, NEW b \in Backup, NEW s \in Snap,
                        phase[b] = "completed", Own(b, s), rec[<<b, s>>].vs
                 PROVE  /\ vs[s].st # "live" /\ vsc[s].st = "live" /\ cloud[s] = "stored"
                        /\ vsc[s].policy = "Retain" \/ \E c \in Backup : Troubled(<<c, s>>)
    BY DEF OnlyContentRemains
  <2>2. Kept(b, s) /\ RemainInv(b, s) /\ ObjectsInv(b, s)
    BY <2>1, KeptKnowledge DEF Kept, RemainingInv
  <2>3. /\ vs[s].st # "live" /\ vsc[s].st = "live" /\ cloud[s] = "stored"
        /\ Retaining(s) \/ Accounted(s)
    BY <2>1, <2>2 DEF RemainInv, ObjectsInv
  <2>4. Accounted(s) => \E c \in Backup : Troubled(<<c, s>>)
    BY <2>1 DEF Accounted, Own
  <2>5. QED BY <2>3, <2>4 DEF Retaining
<1> QED BY <1>1, SmoothInvariant, SafetyInvariant, PTL

-----------------------------------------------------------------------------
(* The content of a completed backup.                                      *)

\* The GETs and the DELETE and the Create of the content do not fail, no wait ends
\* early and Velero does not restart; the patches and the creation, annotation and
\* DELETE of the VS may fail, with or without effect.
Recreated ==
    /\ {"getVS", "getVSC", "deleteVSC", "createVSC"} \cap Flaky = {}
    /\ MaxTrouble["timeout"] = 0 /\ MaxTrouble["crash"] = 0

\* The controllers keep it: a VS that goes takes no content along.
LEMMA StayController ==
    ASSUME SafetyInv, KeepingInv, NEW b \in Backup, NEW s \in Snap, Own(b, s), StayInv(b, s),
           Controller(s)
    PROVE  StayInv(b, s)'
<1>0. /\ UNCHANGED <<phase, pc, loc, rec>> /\ vsc \in [Snap -> ContentObjects]
  BY ControllerFrame DEF SafetyInv, TypeOK, ClusterTypeOK
<1> SUFFICES ASSUME Kept(b, s) PROVE StayInv(b, s)'
  BY <1>0 DEF StayInv, Kept
<1>1. ObjectsInv(b, s)
  BY KeptKnowledge
<1>2. ~CreateContent(s)
  BY <1>1 DEF CreateContent, ObjectsInv
<1> USE <1>0, <1>1 DEF StayInv
<1>3. CASE BindSnapshot(s) \/ TakeSnapshot(s)
  <2>1. vsc'[s].st = vsc[s].st
    BY <1>3 DEF BindSnapshot, TakeSnapshot, ContentObjects
  <2>2. QED BY <2>1
<1>4. CASE FinishSnapshotDelete(s)
  <2>1. vsc'[s].st = vsc[s].st
    BY <1>4 DEF FinishSnapshotDelete, ContentObjects, ObjectsInv, Retaining
  <2>2. QED BY <2>1
<1>5. CASE FinishContentDelete(s)
  <2>1. vsc[s].st = "deleting" /\ vsc'[s].st = "absent"
    BY <1>5 DEF FinishContentDelete, NoContent
  <2>2. QED BY <2>1
<1> QED BY <1>2, <1>3, <1>4, <1>5 DEF Controller, Csi

\* The own handlers keep it: only the recreation deletes the content, waits for
\* its end and creates it anew.
LEMMA StayHandler ==
    ASSUME Recreated, budget["timeout"] = 0, SafetyInv,
           NEW b \in Backup, NEW s \in Snap, Own(b, s), StayInv(b, s),
           Handler(b, s), Kept(b, s)
    PROVE  StayInv(b, s)'
<1> DEFINE t == <<b, s>>
<1>0. /\ t \in Task /\ ClusterTypeOK /\ pc \in [Task -> PCs] /\ loc \in [Task -> Locals]
      /\ vsc \in [Snap -> ContentObjects]
  BY TaskPair DEF SafetyInv, TypeOK, ClusterTypeOK
<1> USE <1>0 DEF StayInv, Goto
<1>1. CASE FetchSnapshot(b, s) /\ UNCHANGED cluster /\ pc'[t] \in {"getvs", "done"}
  <2>1. pc[t] \in {"created", "idle", "recorded"} /\ vsc' = vsc
    BY <1>1 DEF FetchSnapshot, cluster
  <2>2. QED BY <1>1, <2>1
<1>2. CASE GetSnapshot(b, s) \/ GetContent(b, s) \/ CleanupGet(b, s) \/ CleanupDelete(b, s)
  <2>1. /\ vsc' = vsc /\ pc[t] \notin {"recwait", "reccreate"} /\ pc'[t] # "reccreate"
    BY <1>2 DEF GetSnapshot, GetContent, CleanupGet, CleanupDelete, ReturnError, cluster
  <2>2. QED BY <2>1
<1>3. CASE CleanupPatch(b, s) \/ FinalizePatch(b, s)
  <2>1. /\ vsc' = vsc \/ \E p \in Policies : PatchPolicy(s, p)
        /\ pc[t] \notin {"recwait", "reccreate"} /\ pc'[t] # "reccreate"
    BY <1>3 DEF CleanupPatch, FinalizePatch, SetVolumeSnapshotContentDeletionPolicy, Policies
  <2>2. vsc'[s].st = vsc[s].st
    BY <2>1, PatchedPolicy
  <2>3. QED BY <2>1, <2>2
<1>4. CASE FinalizeDelete(b, s)
  BY <1>4 DEF FinalizeDelete
<1>5. CASE RecreateDelete(b, s)
  <2>1. /\ vsc' = vsc \/ pc'[t] = "recwait"
        /\ pc[t] = "recdelete" /\ pc'[t] # "reccreate"
    BY <1>5 DEF RecreateDelete, Fails, Recreated
  <2>2. QED BY <2>1
<1>6. CASE RecreateWait(b, s)
  <2>1. vsc' = vsc /\ vsc[s].st = "absent" /\ pc'[t] = "reccreate"
    BY <1>6 DEF RecreateWait, cluster, Fails, Spend, Recreated
  <2>2. QED BY <2>1
<1>7. CASE RecreateCreate(b, s)
  <2>1. pc[t] = "reccreate" /\ vsc[s].st \in {"absent", "live"} /\ pc'[t] = "finalized"
    BY <1>7 DEF RecreateCreate, ContentObjects, ObjectStates
  <2>2. CASE vsc[s].st = "absent"
    <3>1. vsc' = [vsc EXCEPT ![s] = [loc[t].content EXCEPT
                     !.st = "live", !.static = TRUE, !.handle = FALSE]]
      BY <1>7, <2>2 DEF RecreateCreate, CreateStaticContent, Fails, Recreated
    <3>2. loc[t].content \in ContentObjects
      BY DEF Locals
    <3>3. vsc'[s].st = "live"
      BY <3>1, <3>2 DEF ContentObjects
    <3>4. QED BY <2>1, <3>3
  <2>3. CASE vsc[s].st = "live"
    BY <1>7, <2>1, <2>3 DEF RecreateCreate, CreateStaticContent
  <2>4. QED BY <2>1, <2>2, <2>3
<1> QED BY <1>1, <1>2, <1>3, <1>4, <1>5, <1>6, <1>7, KeptHandlers

\* Every step keeps StayingInv.
LEMMA StayStep ==
    ASSUME Recreated, SafetyInv, KeepingInv, StayingInv, [Next]_vars
    PROVE  StayingInv'
<1>0. TypeOK /\ Answered /\ budget["timeout"] = 0 /\ budget["crash"] = 0
  BY DEF SafetyInv, CleanReads, Recreated, StayingInv, Answered, Fails
<1>1. ~Crash /\ budget'["timeout"] = 0 /\ budget'["crash"] = 0
  BY <1>0, Exhausted
<1> SUFFICES ASSUME NEW b \in Backup, NEW s \in Snap, Own(b, s) PROVE StayInv(b, s)'
  BY <1>1 DEF StayingInv, Own
<1> DEFINE t == <<b, s>>
<1>2. StayInv(b, s)
  BY DEF StayingInv
\* Another actor moves.
<1>3. ASSUME phase'[b] = phase[b], pc'[t] = pc[t], rec'[t] = rec[t], vsc'[s].st = vsc[s].st
      PROVE  StayInv(b, s)'
  BY <1>2, <1>3 DEF StayInv, Kept
<1>4. ASSUME NEW x \in Snap, Controller(x) PROVE StayInv(b, s)'
  <2>1. CASE x = s
    BY <1>2, <1>4, <2>1, StayController
  <2>2. CASE x # s
    BY <1>0, <1>3, <1>4, <2>2, ControllerFrame
  <2>3. QED BY <2>1, <2>2
<1>5. ASSUME NEW c \in Backup, NEW x \in Snap, Handler(c, x) PROVE StayInv(b, s)'
  <2>1. CASE c = b /\ x = s
    <3>1. Kept(b, s)' => Kept(b, s) \/ RecordItems(b, s)
      BY <1>0, <1>5, <2>1, HandlerRec, WritersOfRec DEF Kept
    <3>2. CASE Kept(b, s)
      BY <1>0, <1>2, <1>5, <2>1, <3>2, StayHandler
    <3>3. CASE RecordItems(b, s)
      <4>1. /\ pc[t] = "attach" /\ pc'[t] = "recorded" /\ vsc' = vsc
            /\ KnowledgeInv(b, s) /\ OpenInv(b, s)
        BY <1>0, <3>3, TaskPair
        DEF RecordItems, Goto, cluster, TypeOK, SafetyInv, KeepingInv, KeepInv
      <4>2. Present(s) /\ vs[s].bound
        BY <4>1 DEF OpenInv, Open, KnowledgeInv, Saving, Present
      <4>3. QED BY <4>1, <4>2 DEF StayInv, Present
    <3>4. QED BY <3>1, <3>2, <3>3 DEF StayInv
  <2>2. CASE c # b /\ x = s
    <3>1. phase' = phase /\ pc'[t] = pc[t] /\ rec'[t] = rec[t] /\ ClusterTypeOK
      BY <1>0, <1>5, <2>2, HandlerFrame, OtherTask DEF HandlerKeeps, TypeOK
    <3>2. vsc' = vsc \/ PatchPolicy(s, "Delete")
      BY <1>0, <1>5, <2>2, Stranger
    <3>3. vsc'[s].st = vsc[s].st
      BY <3>1, <3>2, PatchedPolicy DEF Policies
    <3>4. QED BY <1>3, <3>1, <3>3
  <2>3. CASE x # s
    BY <1>0, <1>3, <1>5, <2>3, HandlerFrame, OtherTask DEF HandlerKeeps
  <2>4. QED BY <2>1, <2>2, <2>3
<1>6. ASSUME NEW c \in Backup, Velero(c) \/ RequestDelete(c) PROVE StayInv(b, s)'
  <2>1. CASE c = b
    <3>1. UNCHANGED <<vsc, pc>> /\ (Kept(b, s)' => Kept(b, s))
      <4>1. UNCHANGED <<vsc, pc>> /\ t \in Task /\ t[1] = b /\ rec \in [Task -> Records]
            /\ phase \in [Backup -> Phases]
        BY <1>0, <1>6, <2>1, VeleroFrame, TaskPair DEF TypeOK
      <4>2. rec'[t].vs = rec[t].vs
        <5>1. rec' = rec \/ rec'[t] = Updated(t)
          BY <1>6, <2>1, <4>1 DEF Velero, StartBackup, EndInProgress, StartFinalize,
             CompleteBackup, FinishDelete, RequestDelete
        <5>2. QED BY <4>1, <5>1 DEF Updated, Records
      <4>3. phase[b] \in {"deleting", "deleted"} => phase'[b] \in {"deleting", "deleted"}
        BY <1>6, <2>1, <4>1 DEF Velero, StartBackup, EndInProgress, StartFinalize, CompleteBackup,
           FinishDelete, RequestDelete
      <4>4. QED BY <4>1, <4>2, <4>3 DEF Kept
    <3>2. QED BY <1>2, <3>1 DEF StayInv
  <2>2. CASE c # b
    BY <1>0, <1>3, <1>6, <2>2, OtherBackup
  <2>3. QED BY <2>1, <2>2
<1>7. CASE UNCHANGED vars
  BY <1>3, <1>7 DEF vars
<1> QED BY <1>1, <1>4, <1>5, <1>6, <1>7 DEF Next

\* The content of a kept snapshot goes only to be put back, whichever patch or
\* DELETE of a VS failed and whatever other backups and controllers did: the recreation
\* (util.go:464-522) is the only one to delete it, and finds its name free.
THEOREM StayingInvHolds == ASSUME Recreated PROVE Spec => []StayingInv
<1>1. Init => StayingInv
  <2>1. SUFFICES ASSUME Init PROVE StayingInv
    OBVIOUS
  <2>2. budget["timeout"] = 0 /\ budget["crash"] = 0
    BY <2>1 DEF Init, Recreated
  <2>3. \A b \in Backup, s \in Snap : ~Kept(b, s)
    BY <2>1, TaskPair DEF Init, Kept, NoRecord
  <2>4. QED BY <2>2, <2>3 DEF StayingInv, StayInv
<1>2. SafetyInv /\ KeepingInv /\ StayingInv /\ [Next]_vars => StayingInv'
  BY StayStep
<1>3. KeptWhileAnswered => KeepingInv
  BY DEF KeptWhileAnswered, ReadsAnswered, Recreated, CleanReads
<1> QED BY <1>1, <1>2, <1>3, KeepingInvariant, SafetyInvariant, PTL DEF Spec

\* A completed backup has the content of each snapshot it lists in the cluster,
\* as the finalization is over by then.  The run recreate_timeout shows what
\* the early end of its wait breaks; a DELETE that took effect without an answer
\* ends the finalization before that wait, with the same outcome.
THEOREM ContentKeptHolds == ASSUME Recreated PROVE Spec => []ContentKept
<1>1. SafetyInv /\ StayingInv => ContentKept
  <2>1. SUFFICES ASSUME SafetyInv, StayingInv, NEW b \in Backup, NEW s \in Snap,
                        phase[b] = "completed", Own(b, s), rec[<<b, s>>].vs
                 PROVE  vsc[s].st # "absent"
    BY DEF ContentKept
  <2>2. pc[<<b, s>>] \notin Finishing
    BY <2>1 DEF SafetyInv, PhaseInv
  <2>3. QED BY <2>1, <2>2 DEF StayingInv, StayInv, Kept, Finishing
<1> QED BY <1>1, StayingInvHolds, SafetyInvariant, PTL
=============================================================================
