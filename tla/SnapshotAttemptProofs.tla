----------------------- MODULE SnapshotAttemptProofs -----------------------
(***************************************************************************)
(* Proofs about SnapshotBackup, continued: an attempt that fails leaves     *)
(* nothing behind.  That the controllers then finish is liveness and stays *)
(* with TLC (FailureReclaims).                                             *)
(***************************************************************************)
EXTENDS SnapshotBackupProofs

\* The class has policy Delete, and no creation, read, annotation or DELETE of a VS
\* fails.  The calls on a content may fail, with or without effect, waits may end
\* early and Velero may restart any number of times.
Removable ==
    /\ ClassPolicies \subseteq {"Delete"}
    /\ Flaky \cap {"createVS", "getVS", "annotateVS", "deleteVS"} = {}

\* The calls by which Execute reaches the VS do not fail.
LEMMA Reachable ==
    ASSUME Removable
    PROVE  ~Fails("createVS") /\ ~Fails("getVS") /\ ~Fails("annotateVS") /\ ~Fails("deleteVS")
  BY DEF Removable, Fails

-----------------------------------------------------------------------------
(* The controllers.                                                        *)

\* The VSC gets the policy Delete, and does not outlive its VS.
LEMMA AttemptController ==
    ASSUME Removable, TypeOK, NEW b \in Backup, NEW s \in Snap, AttemptInv(b, s), Controller(s)
    PROVE  AttemptInv(b, s)'
<1>0. /\ UNCHANGED <<phase, pc, rec>>
      /\ vs \in [Snap -> SnapshotObjects] /\ vsc \in [Snap -> ContentObjects]
      /\ cloud \in [Snap -> {"none", "stored", "erased"}]
  BY ControllerFrame DEF TypeOK, ClusterTypeOK
<1> SUFFICES ASSUME Tentative(b, s), ~(UNCHANGED cluster) PROVE AttemptInv(b, s)'
  BY <1>0 DEF AttemptInv, Tentative, cluster
<1> USE <1>0 DEF AttemptInv, SnapshotObjects, ContentObjects
<1>1. CASE CreateContent(s)
  <2>1. PICK p \in ClassPolicies :
           vsc' = [vsc EXCEPT ![s] = [NoContent EXCEPT !.st = "live", !.policy = p]]
    BY <1>1 DEF CreateContent
  <2>2. p = "Delete"
    BY DEF Removable
  <2>3. /\ vsc'[s].st = "live" /\ vsc'[s].policy = "Delete" /\ ~vsc'[s].static
        /\ vs' = vs /\ cloud' = cloud /\ vs[s].st = "live"
    BY <1>1, <2>1, <2>2 DEF CreateContent, NoContent
  <2>4. QED BY <2>3
<1>2. CASE BindSnapshot(s)
  BY <1>2 DEF BindSnapshot
<1>3. CASE TakeSnapshot(s)
  BY <1>3 DEF TakeSnapshot
<1>4. CASE FinishSnapshotDelete(s)
  BY <1>4 DEF FinishSnapshotDelete, NoSnapshot
<1>5. CASE FinishContentDelete(s)
  BY <1>5 DEF FinishContentDelete, NoContent
<1> QED BY <1>1, <1>2, <1>3, <1>4, <1>5 DEF Controller, Csi

-----------------------------------------------------------------------------
(* The handlers, of whichever backup.                                      *)

\* Nobody finalizes what is tentative.
LEMMA NotFinishing ==
    ASSUME NEW b \in Backup, NEW s \in Snap, Own(b, s), KnowledgeInv(b, s), Tentative(b, s),
           NEW c \in Backup, PhaseInv(c, s)
    PROVE  pc[<<c, s>>] \notin Finishing
<1> SUFFICES ASSUME pc[<<c, s>>] \in Finishing PROVE FALSE
  OBVIOUS
<1>1. Own(c, s) /\ phase[c] = "finalizing"
  BY DEF PhaseInv
<1>2. c = b
  BY <1>1 DEF Own
<1>3. Revisited(<<b, s>>)
  BY <1>1, <1>2 DEF Revisited
<1> QED BY <1>1, <1>2, <1>3 DEF KnowledgeInv, Tentative

\* The VSC of a tentative snapshot is only patched to Delete, labelled or deleted.
LEMMA AttemptContent ==
    ASSUME TypeOK, NEW s \in Snap, NEW c \in Backup, Handler(c, s), pc[<<c, s>>] \notin Finishing
    PROVE  /\ vsc'[s].policy \in {vsc[s].policy, "Delete"}
           /\ vsc'[s].static = vsc[s].static
           /\ vsc'[s].st = "absent" <=> vsc[s].st = "absent"
           /\ vsc'[s].st = "live" => vsc[s].st = "live"
<1>0. ClusterTypeOK /\ vsc \in [Snap -> ContentObjects]
  BY DEF TypeOK, ClusterTypeOK
<1>1. ~FinalizePatch(c, s) /\ ~RecreateDelete(c, s) /\ ~RecreateCreate(c, s)
  BY DEF FinalizePatch, RecreateDelete, RecreateCreate, Finishing
<1>2. CASE vsc' = vsc
  BY <1>2
<1>3. CASE SetVolumeSnapshotContentDeletionPolicy(s)
  BY <1>0, <1>3, PatchedDelete
<1>4. CASE PatchLabel(c, s)
  BY <1>0, <1>4 DEF PatchLabel, ContentObjects
<1>5. CASE DeleteContentObject(s)
  BY <1>0, <1>5, DeletedContent
<1> QED BY <1>1, <1>2, <1>3, <1>4, <1>5, WritersOfVsc
    DEF CleanupPatch, LabelContent, DeleteVSPatch, DeleteVSCPatch, DeleteVSCDelete

\* Only the PVC action makes a VS, and the other handlers can but delete it.
LEMMA AttemptSnapshot ==
    ASSUME TypeOK, NEW s \in Snap, NEW c \in Backup, Handler(c, s), ~PVCExecute(c, s)
    PROVE  /\ vs'[s].st = "absent" <=> vs[s].st = "absent"
           /\ vs'[s].st = "live" => vs[s].st = "live"
<1>0. ClusterTypeOK /\ vs \in [Snap -> SnapshotObjects]
  BY DEF TypeOK, ClusterTypeOK
<1>1. CASE vs' = vs
  BY <1>1
<1>2. CASE DeleteSnapshotObject(s)
  BY <1>0, <1>2, DeletedSnapshot
<1>3. CASE AnnotateSnapshot(c, s)
  BY <1>0, <1>3 DEF AnnotateSnapshot, SnapshotObjects
<1> QED BY <1>1, <1>2, <1>3, WritersOfVs
    DEF CleanupDelete, CleanupEffect, FinalizeDelete, DeleteVSDelete

\* Execute returns an error only when the VS is gone or going: after it has not
\* found it, or has deleted it.
LEMMA AttemptFails ==
    ASSUME Removable, TypeOK, NEW b \in Backup, NEW s \in Snap, Handler(b, s), ~PVCExecute(b, s),
           pc'[<<b, s>>] \in {"idle", "failed"}
    PROVE  \/ pc'[<<b, s>>] = pc[<<b, s>>]
           \/ pc'[<<b, s>>] = "failed" /\ vs'[s].st # "live"
<1> DEFINE t == <<b, s>>
<1>0. /\ t \in Task /\ pc \in [Task -> PCs] /\ ClusterTypeOK
  BY TaskPair DEF TypeOK
<1> USE <1>0 DEF Goto, ReturnError
<1>1. CASE CleanupGet(b, s)
  BY <1>1, Reachable DEF CleanupGet, cluster
<1>2. CASE CleanupDelete(b, s)
  <2>1. pc'[t] = "failed" /\ DeleteSnapshotObject(s)
    BY <1>2, Reachable DEF CleanupDelete, CleanupEffect
  <2>2. QED BY <2>1, DeletedSnapshot
<1>3. CASE AnnotateSnapshot(b, s)
  BY <1>3, Reachable DEF AnnotateSnapshot
<1>4. CASE DeleteVSPatch(b, s) \/ DeleteVSCPatch(b, s)
  BY <1>4 DEF DeleteVSPatch, DeleteVSCPatch
<1>5. CASE FetchSnapshot(b, s) \/ GetSnapshot(b, s) \/ GetContent(b, s) \/ CleanupPatch(b, s)
  BY <1>5 DEF FetchSnapshot, GetSnapshot, GetContent, CleanupPatch
<1>6. CASE LabelContent(b, s) \/ RecordItems(b, s) \/ DeleteVSDelete(b, s) \/ DeleteVSCDelete(b, s)
  BY <1>6 DEF LabelContent, RecordItems, DeleteVSDelete, DeleteVSCDelete
<1>7. CASE \/ FinalizePatch(b, s) \/ FinalizeDelete(b, s) \/ RecreateDelete(b, s)
           \/ RecreateWait(b, s) \/ RecreateCreate(b, s)
  BY <1>7 DEF FinalizePatch, FinalizeDelete, RecreateDelete, RecreateWait, RecreateCreate
<1> QED BY <1>1, <1>2, <1>3, <1>4, <1>5, <1>6, <1>7 DEF Handler

\* No handler strikes a snapshot from the list.
LEMMA AttemptRecord ==
    ASSUME SafetyInv, NEW b \in Backup, NEW s \in Snap, NEW c \in Backup, Handler(c, s),
           Tentative(b, s)'
    PROVE  Tentative(b, s)
<1>0. /\ <<b, s>> \in Task /\ TypeOK /\ rec \in [Task -> Records]
  BY TaskPair DEF SafetyInv, TypeOK
<1>1. phase' = phase
  BY <1>0, HandlerRec
<1>2. CASE RecordItems(c, s)
  <2>1. c # b => rec'[<<b, s>>] = rec[<<b, s>>]
    BY <1>0, <1>2, OtherTask DEF RecordItems
  <2>2. c = b => rec'[<<b, s>>].vs
    BY <1>0, <1>2 DEF RecordItems
  <2>3. QED BY <1>1, <2>1, <2>2 DEF Tentative
<1> QED BY <1>1, <1>2, WritersOfRec DEF Tentative

\* A handler at work on the snapshot keeps AttemptInv.
LEMMA AttemptHandler ==
    ASSUME Removable, SafetyInv, NEW b \in Backup, NEW s \in Snap, Own(b, s), AttemptInv(b, s),
           NEW c \in Backup, Handler(c, s)
    PROVE  AttemptInv(b, s)'
<1> DEFINE t == <<b, s>>
<1> SUFFICES ASSUME Tentative(b, s)' PROVE AttemptInv(b, s)'
  BY DEF AttemptInv
<1>0. /\ TypeOK /\ t \in Task /\ pc \in [Task -> PCs]
      /\ vs \in [Snap -> SnapshotObjects]
      /\ KnowledgeInv(b, s) /\ PhaseInv(c, s)
  BY TaskPair DEF SafetyInv, TypeOK, ClusterTypeOK
<1>1. Tentative(b, s)
  BY AttemptRecord
<1>2. pc[<<c, s>>] \notin Finishing
  BY <1>0, <1>1, NotFinishing
<1>3. cloud' = cloud /\ (c # b => pc'[t] = pc[t])
  BY <1>0, HandlerFrame, OtherTask DEF HandlerKeeps
<1>4. CASE PVCExecute(c, s)
  <2>1. c = b /\ pc[t] = "idle"
    BY <1>4 DEF PVCExecute, Own
  <2>2. vsc' = vsc /\ pc'[t] # "idle"
    BY <1>0, <1>4, <2>1
    DEF PVCExecute, PVCSkipped, PVCError, PVCSnapshot, Goto, ReturnError, cluster
  <2>3. \/ vs' = vs
        \/ pc'[t] = "created" /\ vs'[s].st = "live"
    BY <1>0, <1>4, <2>1, Reachable
    DEF PVCExecute, PVCSkipped, PVCError, PVCSnapshot, CreateSnapshotObject, Goto,
        SnapshotObjects, cluster
  <2>4. QED BY <1>1, <1>3, <2>1, <2>2, <2>3 DEF AttemptInv
<1>5. CASE ~PVCExecute(c, s)
  <2>1. /\ vsc'[s].policy \in {vsc[s].policy, "Delete"} /\ vsc'[s].static = vsc[s].static
        /\ vsc'[s].st = "absent" <=> vsc[s].st = "absent"
        /\ vsc'[s].st = "live" => vsc[s].st = "live"
    BY <1>0, <1>2, AttemptContent
  <2>2. /\ vs'[s].st = "absent" <=> vs[s].st = "absent"
        /\ vs'[s].st = "live" => vs[s].st = "live"
    BY <1>0, <1>5, AttemptSnapshot
  <2>3. /\ pc'[t] = "idle" => pc[t] = "idle"
        /\ pc'[t] = "failed" => pc[t] = "failed" \/ vs'[s].st # "live"
    BY <1>0, <1>3, <1>5, AttemptFails
  <2>4. QED BY <1>1, <1>3, <2>1, <2>2, <2>3 DEF AttemptInv
<1> QED BY <1>4, <1>5

-----------------------------------------------------------------------------
(* Velero and its restarts.                                                *)

\* Velero strikes nothing from the list of a backup, and starts on nothing that
\* is listed.
LEMMA AttemptVelero ==
    ASSUME SafetyInv, NEW b \in Backup, NEW s \in Snap, Own(b, s), AttemptInv(b, s),
           Velero(b) \/ RequestDelete(b)
    PROVE  AttemptInv(b, s)'
<1> DEFINE t == <<b, s>>
<1>0. /\ TypeOK /\ t \in Task /\ t[1] = b /\ rec \in [Task -> Records]
      /\ phase \in [Backup -> Phases]
      /\ KnowledgeInv(b, s) /\ PhaseInv(b, s)
  BY TaskPair DEF SafetyInv, TypeOK
<1>1. UNCHANGED <<vs, vsc, cloud, pc>>
  BY <1>0, VeleroFrame
<1>2. Tentative(b, s)' => Tentative(b, s)
  <2>1. CASE StartBackup(b)
    <3>1. pc[t] = "idle"
      BY <1>0, <2>1 DEF StartBackup, PhaseInv
    <3>2. QED BY <1>0, <3>1 DEF KnowledgeInv, Tentative
  <2>2. CASE CompleteBackup(b)
    <3>1. rec'[t] = Updated(t) /\ phase'[b] = "completed"
      BY <1>0, <2>2 DEF CompleteBackup
    <3>2. Updated(t).vs = rec[t].vs
      BY <1>0 DEF Updated, Records
    <3>3. QED BY <3>1, <3>2 DEF Tentative
  <2>3. CASE EndInProgress(b) \/ StartFinalize(b) \/ FinishDelete(b) \/ RequestDelete(b)
    BY <1>0, <2>3 DEF EndInProgress, StartFinalize, FinishDelete, RequestDelete, Tentative
  <2>4. QED BY <2>1, <2>2, <2>3 DEF Velero
<1> QED BY <1>1, <1>2 DEF AttemptInv

\* A restart strikes only what was tentative anyway, and returns no error.
LEMMA AttemptCrash ==
    ASSUME NEW b \in Backup, NEW s \in Snap, AttemptInv(b, s), Crash
    PROVE  AttemptInv(b, s)'
<1> DEFINE t == <<b, s>>
<1>1. /\ t \in Task /\ t[1] = b
      /\ phase'[b] = IF phase[b] = "inprogress" THEN "failed" ELSE phase[b]
      /\ pc'[t] = Restarted(t)
      /\ rec'[t] = IF phase[b] = "inprogress" THEN NoRecord ELSE rec[t]
      /\ UNCHANGED <<vs, vsc, cloud>>
  BY TaskPair DEF Crash, cluster
<1>2. pc'[t] \in {"idle", "failed"} => pc'[t] = pc[t]
  BY <1>1 DEF Restarted
<1>3. Tentative(b, s)' => Tentative(b, s)
  BY <1>1 DEF Tentative
<1> QED BY <1>1, <1>2, <1>3 DEF AttemptInv

-----------------------------------------------------------------------------
\* Every step keeps AttemptsInv.
LEMMA AttemptStep ==
    ASSUME Removable, SafetyInv, AttemptsInv, [Next]_vars
    PROVE  AttemptsInv'
<1> SUFFICES ASSUME NEW b \in Backup, NEW s \in Snap, Own(b, s) PROVE AttemptInv(b, s)'
  BY DEF AttemptsInv, Own
<1> DEFINE t == <<b, s>>
<1>0. TypeOK
  BY DEF SafetyInv
<1>1. AttemptInv(b, s)
  BY DEF AttemptsInv
\* Nothing that AttemptInv speaks of changes.
<1>2. ASSUME vs'[s] = vs[s], vsc'[s] = vsc[s], cloud'[s] = cloud[s],
             phase'[b] = phase[b], pc'[t] = pc[t], rec'[t] = rec[t]
      PROVE  AttemptInv(b, s)'
  BY <1>1, <1>2 DEF AttemptInv, Tentative
<1>3. ASSUME NEW x \in Snap, Controller(x) PROVE AttemptInv(b, s)'
  <2>1. CASE x = s
    BY <1>0, <1>1, <1>3, <2>1, AttemptController
  <2>2. CASE x # s
    BY <1>0, <1>2, <1>3, <2>2, ControllerFrame
  <2>3. QED BY <2>1, <2>2
<1>4. ASSUME NEW c \in Backup, NEW x \in Snap, Handler(c, x) PROVE AttemptInv(b, s)'
  <2>1. CASE x = s
    BY <1>1, <1>4, <2>1, AttemptHandler
  <2>2. CASE x # s
    BY <1>0, <1>2, <1>4, <2>2, HandlerFrame, OtherTask DEF HandlerKeeps
  <2>3. QED BY <2>1, <2>2
<1>5. ASSUME NEW c \in Backup, Velero(c) \/ RequestDelete(c) PROVE AttemptInv(b, s)'
  <2>1. CASE c = b
    BY <1>1, <1>5, <2>1, AttemptVelero
  <2>2. CASE c # b
    BY <1>0, <1>2, <1>5, <2>2, OtherBackup
  <2>3. QED BY <2>1, <2>2
<1>6. CASE Crash
  BY <1>1, <1>6, AttemptCrash
<1>7. CASE UNCHANGED vars
  BY <1>2, <1>7 DEF vars
<1> QED BY <1>3, <1>4, <1>5, <1>6, <1>7 DEF Next

\* As long as the class has policy Delete and no creation, read, annotation or
\* DELETE of a VS fails, the VSC of a snapshot that is not listed goes with its VS,
\* and no error is returned while the VS is alive: whichever calls on a content
\* fail, with or without effect, whoever else cleans up, and however often Velero
\* restarts.
THEOREM AttemptInvariant == ASSUME Removable PROVE Spec => []AttemptsInv
<1>1. Init => AttemptsInv
  <2>1. SUFFICES ASSUME Init, NEW b \in Backup, NEW s \in Snap, Own(b, s)
                 PROVE  AttemptInv(b, s)
    BY DEF AttemptsInv
  <2>2. /\ vs[s] = NoSnapshot /\ vsc[s] = NoContent /\ cloud[s] = "none"
        /\ pc[<<b, s>>] = "idle"
    BY <2>1, TaskPair, BackupAssumption DEF Init, ClusterInit, UserSnap, Own
  <2>3. QED BY <2>2 DEF AttemptInv, NoSnapshot, NoContent
<1>2. SafetyInv /\ AttemptsInv /\ [Next]_vars => AttemptsInv'
  BY AttemptStep
<1> QED BY <1>1, <1>2, SafetyInvariant, PTL DEF Spec

\* When Execute has returned an error for a snapshot that the backup does not
\* list, nothing of it is left or the controllers alone take it away
\* (util.go:397-419); under the same assumption.
THEOREM FailureReleasesHolds == ASSUME Removable PROVE Spec => []FailureReleases
<1>1. TypeOK /\ AttemptsInv => FailureReleases
  <2>1. SUFFICES ASSUME TypeOK, NEW b \in Backup, NEW s \in Snap, AttemptInv(b, s),
                        Attempted(<<b, s>>)
                 PROVE  Vanishing(s)
    BY DEF AttemptsInv, FailureReleases
  <2>2. vs[s].st \in {"absent", "live", "deleting"}
    BY <2>1 DEF TypeOK, ClusterTypeOK, SnapshotObjects, ObjectStates
  <2>3. QED BY <2>1, <2>2 DEF AttemptInv, Tentative, Attempted, Vanishing
<1> QED BY <1>1, AttemptInvariant, TypeCorrect, PTL
=============================================================================
