------------------------ MODULE SnapshotBackupProofs ------------------------
(***************************************************************************)
(* Proofs about SnapshotBackup, for every value of its constants: the type *)
(* invariant first, then what a step leaves alone, then the conjuncts of   *)
(* SafetyInv one by one.                                                   *)
(***************************************************************************)
EXTENDS SnapshotBackup, TLAPS

-----------------------------------------------------------------------------
(* The type invariant.                                                     *)

\* The initial objects, locals and records have their types.
LEMMA Values ==
    /\ NoSnapshot \in SnapshotObjects /\ [NoSnapshot EXCEPT !.st = "live"] \in SnapshotObjects
    /\ NoContent \in ContentObjects
    /\ NoLocal \in Locals
    /\ NoRecord \in Records
<1>1. /\ NoSnapshot \in SnapshotObjects
      /\ [NoSnapshot EXCEPT !.st = "live"] \in SnapshotObjects
  BY DEF NoSnapshot, SnapshotObjects, ObjectStates
<1>2. NoContent \in ContentObjects
  BY DEF NoContent, ContentObjects, ObjectStates, Policies
<1>3. NoLocal \in Locals
  BY <1>2 DEF NoLocal, Locals
<1>4. NoRecord \in Records
  BY DEF NoRecord, Records
<1> QED BY <1>1, <1>2, <1>3, <1>4

\* The initial state is well typed.
LEMMA InitType == Init => TypeOK
<1> SUFFICES ASSUME Init PROVE TypeOK
  OBVIOUS
<1> USE DEF Init, ClusterInit
<1>1. ClusterTypeOK
  BY Values DEF ClusterTypeOK
<1>2. phase \in [Backup -> Phases] /\ pc \in [Task -> PCs]
  BY DEF Phases, PCs
<1>3. loc \in [Task -> Locals] /\ rec \in [Task -> Records]
  BY Values
<1>4. budget \in [Trouble -> Nat]
  BY TroubleAssumption
<1> QED BY <1>1, <1>2, <1>3, <1>4 DEF TypeOK

\* A backup and a snapshot make a task.
LEMMA TaskPair == ASSUME NEW b \in Backup, NEW s \in Snap PROVE <<b, s>> \in Task
  BY DEF Task

\* What a DELETE of a VS changes: its state, and nothing else.
LEMMA DeletedSnapshot ==
    ASSUME NEW s \in Snap, ClusterTypeOK, DeleteSnapshotObject(s)
    PROVE  /\ vs' \in [Snap -> SnapshotObjects]
           /\ \A x \in Snap \ {s} : vs'[x] = vs[x]
           /\ vs'[s].bound = vs[s].bound /\ vs'[s].ann = vs[s].ann
           /\ vs'[s].st = IF vs[s].st = "live" THEN "deleting" ELSE vs[s].st
  BY DEF ClusterTypeOK, DeleteSnapshotObject, SnapshotObjects, ObjectStates

\* What a DELETE of a VSC changes: its state, and nothing else.
LEMMA DeletedContent ==
    ASSUME NEW s \in Snap, ClusterTypeOK, DeleteContentObject(s)
    PROVE  /\ vsc' \in [Snap -> ContentObjects]
           /\ \A x \in Snap \ {s} : vsc'[x] = vsc[x]
           /\ vsc'[s].st = IF vsc[s].st = "live" THEN "deleting" ELSE vsc[s].st
           /\ vsc'[s].policy = vsc[s].policy /\ vsc'[s].handle = vsc[s].handle
           /\ vsc'[s].label = vsc[s].label /\ vsc'[s].static = vsc[s].static
  BY DEF ClusterTypeOK, DeleteContentObject, ContentObjects, ObjectStates

\* What a patch of the policy changes: the policy of a VSC that is there.
LEMMA PatchedPolicy ==
    ASSUME NEW s \in Snap, NEW p \in Policies, ClusterTypeOK, PatchPolicy(s, p)
    PROVE  /\ vsc[s].st # "absent"
           /\ vsc' \in [Snap -> ContentObjects]
           /\ \A x \in Snap \ {s} : vsc'[x] = vsc[x]
           /\ vsc'[s].policy = p
           /\ vsc'[s].st = vsc[s].st /\ vsc'[s].handle = vsc[s].handle
           /\ vsc'[s].label = vsc[s].label /\ vsc'[s].static = vsc[s].static
  BY DEF ClusterTypeOK, PatchPolicy, ContentObjects, ObjectStates

\* SetVolumeSnapshotContentDeletionPolicy is such a patch.
LEMMA PatchedDelete ==
    ASSUME NEW s \in Snap, ClusterTypeOK, SetVolumeSnapshotContentDeletionPolicy(s)
    PROVE  /\ vsc[s].st # "absent"
           /\ vsc' \in [Snap -> ContentObjects]
           /\ \A x \in Snap \ {s} : vsc'[x] = vsc[x]
           /\ vsc'[s].policy = "Delete"
           /\ vsc'[s].st = vsc[s].st /\ vsc'[s].handle = vsc[s].handle
           /\ vsc'[s].label = vsc[s].label /\ vsc'[s].static = vsc[s].static
<1>1. "Delete" \in Policies
  BY DEF Policies
<1> QED BY <1>1, PatchedPolicy DEF SetVolumeSnapshotContentDeletionPolicy

\* A controller works on one snapshot and on nothing of the backups'.
LEMMA ControllerFrame ==
    ASSUME NEW s \in Snap, TypeOK, Controller(s)
    PROVE  /\ UNCHANGED <<phase, pc, loc, rec, todo, reported, killed, budget>>
           /\ ClusterTypeOK'
           /\ \A x \in Snap \ {s} : vs'[x] = vs[x] /\ vsc'[x] = vsc[x] /\ cloud'[x] = cloud[x]
<1>0. ClusterTypeOK
  BY DEF TypeOK
<1> USE DEF ClusterTypeOK
<1> DEFINE Goal == /\ ClusterTypeOK'
                   /\ \A x \in Snap \ {s} :
                        vs'[x] = vs[x] /\ vsc'[x] = vsc[x] /\ cloud'[x] = cloud[x]
<1>1. ASSUME CreateContent(s) PROVE Goal
  <2>1. PICK p \in Policies :
           vsc' = [vsc EXCEPT ![s] = [NoContent EXCEPT !.st = "live", !.policy = p]]
    BY <1>1, PolicyAssumption DEF CreateContent
  <2>2. [NoContent EXCEPT !.st = "live", !.policy = p] \in ContentObjects
    BY DEF NoContent, ContentObjects, ObjectStates
  <2>3. QED BY <1>0, <1>1, <2>1, <2>2 DEF CreateContent
<1>2. ASSUME BindSnapshot(s) PROVE Goal
  BY <1>0, <1>2 DEF BindSnapshot, SnapshotObjects
<1>3. ASSUME TakeSnapshot(s) PROVE Goal
  BY <1>0, <1>3 DEF TakeSnapshot, ContentObjects
<1>4. ASSUME FinishSnapshotDelete(s) PROVE Goal
  <2>1. vs' \in [Snap -> SnapshotObjects] /\ \A x \in Snap \ {s} : vs'[x] = vs[x]
    BY <1>0, <1>4, Values DEF FinishSnapshotDelete
  <2>2. vsc' \in [Snap -> ContentObjects] /\ \A x \in Snap \ {s} : vsc'[x] = vsc[x]
    BY <1>0, <1>4 DEF FinishSnapshotDelete, ContentObjects, ObjectStates
  <2>3. QED BY <1>0, <1>4, <2>1, <2>2 DEF FinishSnapshotDelete
<1>5. ASSUME FinishContentDelete(s) PROVE Goal
  BY <1>0, <1>5, Values DEF FinishContentDelete
<1>6. Goal
  BY <1>1, <1>2, <1>3, <1>4, <1>5 DEF Controller, Csi
<1> QED BY <1>6 DEF Controller, history

\* A handler moves its own task only.
LEMMA HandlerPc ==
    ASSUME NEW b \in Backup, NEW s \in Snap, TypeOK, Handler(b, s)
    PROVE  /\ pc' \in [Task -> PCs]
           /\ \A x \in Task \ {<<b, s>>} : pc'[x] = pc[x]
<1>0. <<b, s>> \in Task /\ pc \in [Task -> PCs]
  BY TaskPair DEF TypeOK
<1> USE <1>0 DEF Goto, ReturnError, PCs, Busy, Ended
<1>1. CASE PVCExecute(b, s)
  BY <1>1 DEF PVCExecute, PVCSkipped, PVCError, PVCSnapshot
<1>2. CASE FetchSnapshot(b, s)
  BY <1>2 DEF FetchSnapshot, Reading, Saving
<1>3. CASE GetSnapshot(b, s)
  BY <1>3 DEF GetSnapshot, Reading, Cleaning
<1>4. CASE GetContent(b, s)
  BY <1>4 DEF GetContent, Reading, Cleaning, Saving, Finishing
<1>5. CASE CleanupGet(b, s)
  BY <1>5 DEF CleanupGet, Cleaning
<1>6. CASE CleanupPatch(b, s)
  BY <1>6 DEF CleanupPatch, Cleaning
<1>7. CASE CleanupDelete(b, s)
  BY <1>7 DEF CleanupDelete, Cleaning
<1>8. CASE LabelContent(b, s)
  BY <1>8 DEF LabelContent, Saving
<1>9. CASE AnnotateSnapshot(b, s)
  BY <1>9 DEF AnnotateSnapshot, Saving
<1>10. CASE RecordItems(b, s)
  BY <1>10 DEF RecordItems
<1>11. CASE FinalizePatch(b, s)
  BY <1>11 DEF FinalizePatch, Finishing
<1>12. CASE FinalizeDelete(b, s)
  BY <1>12 DEF FinalizeDelete, Finishing
<1>13. CASE RecreateDelete(b, s)
  BY <1>13 DEF RecreateDelete, Finishing
<1>14. CASE RecreateWait(b, s)
  BY <1>14 DEF RecreateWait, Finishing
<1>15. CASE RecreateCreate(b, s)
  BY <1>15 DEF RecreateCreate, Finishing
<1>16. CASE DeleteVSPatch(b, s)
  BY <1>16 DEF DeleteVSPatch, Deleting
<1>17. CASE DeleteVSDelete(b, s)
  BY <1>17 DEF DeleteVSDelete, Deleting
<1>18. CASE DeleteVSCPatch(b, s)
  BY <1>18 DEF DeleteVSCPatch, Deleting
<1>19. CASE DeleteVSCDelete(b, s)
  BY <1>19 DEF DeleteVSCDelete, Deleting
<1> QED
  BY <1>1, <1>2, <1>3, <1>4, <1>5, <1>6, <1>7, <1>8, <1>9, <1>10,
     <1>11, <1>12, <1>13, <1>14, <1>15, <1>16, <1>17, <1>18, <1>19 DEF Handler

\* The handlers that write a variable.

\* The handlers that write a VS.
LEMMA WritersOfVs ==
    ASSUME NEW b \in Backup, NEW s \in Snap, Handler(b, s)
    PROVE  \/ vs' = vs
           \/ PVCExecute(b, s) \/ CleanupDelete(b, s) \/ AnnotateSnapshot(b, s)
           \/ FinalizeDelete(b, s) \/ DeleteVSDelete(b, s)
  BY DEF Handler, FetchSnapshot, GetSnapshot, GetContent, CleanupGet,
         CleanupPatch, LabelContent, RecordItems, FinalizePatch, RecreateDelete,
         RecreateWait, RecreateCreate, DeleteVSPatch, DeleteVSCPatch,
         DeleteVSCDelete, cluster

\* The handlers that write a VSC.
LEMMA WritersOfVsc ==
    ASSUME NEW b \in Backup, NEW s \in Snap, Handler(b, s)
    PROVE  \/ vsc' = vsc
           \/ CleanupPatch(b, s) \/ LabelContent(b, s) \/ FinalizePatch(b, s)
           \/ RecreateDelete(b, s) \/ RecreateCreate(b, s) \/ DeleteVSPatch(b, s)
           \/ DeleteVSCPatch(b, s) \/ DeleteVSCDelete(b, s)
  BY DEF Handler, PVCExecute, FetchSnapshot, GetSnapshot, GetContent, CleanupGet,
         CleanupDelete, AnnotateSnapshot, RecordItems, FinalizeDelete,
         RecreateWait, DeleteVSDelete, PVCSkipped, PVCError, PVCSnapshot, cluster

\* The handlers that write their locals.
LEMMA WritersOfLoc ==
    ASSUME NEW b \in Backup, NEW s \in Snap, Handler(b, s)
    PROVE  \/ loc' = loc
           \/ FetchSnapshot(b, s) \/ GetContent(b, s) \/ AnnotateSnapshot(b, s)
           \/ RecordItems(b, s) \/ FinalizePatch(b, s)
  BY DEF Handler, PVCExecute, GetSnapshot, CleanupGet, CleanupPatch,
         CleanupDelete, LabelContent, FinalizeDelete, RecreateDelete,
         RecreateWait, RecreateCreate, DeleteVSPatch, DeleteVSDelete,
         DeleteVSCPatch, DeleteVSCDelete, PVCSkipped, PVCError, PVCSnapshot

\* The one handler that writes the tarball.
LEMMA WritersOfRec ==
    ASSUME NEW b \in Backup, NEW s \in Snap, Handler(b, s)
    PROVE  \/ rec' = rec
           \/ RecordItems(b, s)
  BY DEF Handler, PVCExecute, FetchSnapshot, GetSnapshot, GetContent, CleanupGet,
         CleanupPatch, CleanupDelete, LabelContent, AnnotateSnapshot,
         FinalizePatch, FinalizeDelete, RecreateDelete, RecreateWait,
         RecreateCreate, DeleteVSPatch, DeleteVSDelete, DeleteVSCPatch,
         DeleteVSCDelete, PVCSkipped, PVCError, PVCSnapshot, backups

\* A handler writes the locals of its own task only.
LEMMA HandlerLoc ==
    ASSUME NEW b \in Backup, NEW s \in Snap, TypeOK, Handler(b, s)
    PROVE  /\ loc' \in [Task -> Locals]
           /\ \A x \in Task \ {<<b, s>>} : loc'[x] = loc[x]
<1>0. /\ <<b, s>> \in Task /\ loc \in [Task -> Locals]
      /\ vs \in [Snap -> SnapshotObjects] /\ vsc \in [Snap -> ContentObjects]
  BY TaskPair DEF TypeOK, ClusterTypeOK
<1>1. CASE FetchSnapshot(b, s)
  <2>1. vs[s].bound \in BOOLEAN /\ vs[s].ann \in BOOLEAN
    BY <1>0 DEF SnapshotObjects
  <2>2. [bound |-> vs[s].bound, ann |-> vs[s].ann,
         content |-> NoContent, recreate |-> FALSE] \in Locals
    BY <2>1, Values DEF Locals
  <2>3. QED BY <1>0, <1>1, <2>2 DEF FetchSnapshot
<1>2. CASE GetContent(b, s)
  BY <1>0, <1>2 DEF GetContent, Locals
<1>3. CASE AnnotateSnapshot(b, s)
  <2>1. loc[<<b, s>>].ann \in BOOLEAN
    BY <1>0 DEF Locals
  <2>2. loc' = loc \/ \E a \in BOOLEAN : loc' = [loc EXCEPT ![<<b, s>>].ann = a]
    BY <1>3, <2>1 DEF AnnotateSnapshot
  <2>3. QED BY <1>0, <2>2 DEF Locals
<1>4. CASE RecordItems(b, s)
  BY <1>0, <1>4, Values DEF RecordItems
<1>5. CASE FinalizePatch(b, s)
  <2>1. vsc' \in [Snap -> ContentObjects]
    BY <1>0, <1>5 DEF FinalizePatch, PatchPolicy, ContentObjects, Policies
  <2>2. vsc'[s] \in ContentObjects
    BY <2>1
  <2>3. QED BY <1>0, <1>5, <2>2 DEF FinalizePatch, UpdatedContent, Locals
<1> QED BY <1>0, <1>1, <1>2, <1>3, <1>4, <1>5, WritersOfLoc

\* A handler writes the VS of its own snapshot only.
LEMMA HandlerVs ==
    ASSUME NEW b \in Backup, NEW s \in Snap, TypeOK, Handler(b, s)
    PROVE  /\ vs' \in [Snap -> SnapshotObjects]
           /\ \A x \in Snap \ {s} : vs'[x] = vs[x]
<1>0. ClusterTypeOK /\ vs \in [Snap -> SnapshotObjects]
  BY DEF TypeOK, ClusterTypeOK
<1>1. CASE PVCExecute(b, s)
  BY <1>0, <1>1 DEF PVCExecute, PVCSkipped, PVCError, PVCSnapshot, CreateSnapshotObject, cluster,
         SnapshotObjects, ObjectStates
<1>2. CASE AnnotateSnapshot(b, s)
  BY <1>0, <1>2 DEF AnnotateSnapshot, SnapshotObjects
<1>3. CASE CleanupDelete(b, s) \/ FinalizeDelete(b, s) \/ DeleteVSDelete(b, s)
  BY <1>0, <1>3, DeletedSnapshot DEF CleanupDelete, CleanupEffect, FinalizeDelete, DeleteVSDelete
<1> QED BY <1>0, <1>1, <1>2, <1>3, WritersOfVs

\* A handler writes the VSC of its own snapshot only.
LEMMA HandlerVsc ==
    ASSUME NEW b \in Backup, NEW s \in Snap, TypeOK, Handler(b, s)
    PROVE  /\ vsc' \in [Snap -> ContentObjects]
           /\ \A x \in Snap \ {s} : vsc'[x] = vsc[x]
<1>0. ClusterTypeOK /\ vsc \in [Snap -> ContentObjects]
  BY DEF TypeOK, ClusterTypeOK
<1>1. CASE CleanupPatch(b, s) \/ DeleteVSPatch(b, s) \/ DeleteVSCPatch(b, s)
  BY <1>0, <1>1, PatchedDelete DEF CleanupPatch, DeleteVSPatch, DeleteVSCPatch
<1>2. CASE LabelContent(b, s)
  BY <1>0, <1>2 DEF LabelContent, PatchLabel, ContentObjects
<1>3. CASE FinalizePatch(b, s)
  BY <1>0, <1>3, PatchedPolicy DEF FinalizePatch, Policies
<1>4. CASE RecreateDelete(b, s) \/ DeleteVSCDelete(b, s)
  BY <1>0, <1>4, DeletedContent DEF RecreateDelete, DeleteVSCDelete
<1>5. CASE RecreateCreate(b, s)
  <2>1. loc[<<b, s>>].content \in ContentObjects
    BY TaskPair DEF TypeOK, Locals
  <2>2. [loc[<<b, s>>].content EXCEPT !.st = "live", !.static = TRUE, !.handle = FALSE]
           \in ContentObjects
    BY <2>1 DEF ContentObjects, ObjectStates
  <2>3. QED BY <1>0, <1>5, <2>2 DEF RecreateCreate, CreateStaticContent
<1> QED BY <1>0, <1>1, <1>2, <1>3, <1>4, <1>5, WritersOfVsc

\* A handler leaves the phases alone and records its own task only.
LEMMA HandlerRec ==
    ASSUME NEW b \in Backup, NEW s \in Snap, TypeOK, Handler(b, s)
    PROVE  /\ phase' = phase
           /\ rec' \in [Task -> Records] /\ todo' \in [Task -> SUBSET {"vs", "vsc"}]
           /\ \A x \in Task \ {<<b, s>>} : rec'[x] = rec[x]
<1>0. /\ <<b, s>> \in Task /\ rec \in [Task -> Records]
      /\ todo \in [Task -> SUBSET {"vs", "vsc"}]
  BY TaskPair DEF TypeOK
<1>1. CASE RecordItems(b, s)
  <2>1. loc[<<b, s>>].bound \in BOOLEAN /\ loc[<<b, s>>].ann \in BOOLEAN
    BY <1>0 DEF TypeOK, Locals
  <2>2. vsc[s].label \in Backup \cup {NoBackup}
    BY DEF TypeOK, ClusterTypeOK, ContentObjects
  <2>3. QED BY <1>0, <1>1, <2>1, <2>2 DEF RecordItems, Records
<1>2. CASE DeleteVSPatch(b, s) \/ DeleteVSCPatch(b, s)
  BY <1>0, <1>2 DEF DeleteVSPatch, DeleteVSCPatch, Visit
<1>3. CASE \/ PVCExecute(b, s) \/ FetchSnapshot(b, s) \/ GetSnapshot(b, s)
          \/ GetContent(b, s) \/ CleanupGet(b, s) \/ CleanupPatch(b, s)
          \/ CleanupDelete(b, s) \/ LabelContent(b, s) \/ AnnotateSnapshot(b, s)
          \/ FinalizePatch(b, s) \/ FinalizeDelete(b, s) \/ RecreateDelete(b, s)
          \/ RecreateWait(b, s) \/ RecreateCreate(b, s) \/ DeleteVSDelete(b, s)
          \/ DeleteVSCDelete(b, s)
  BY <1>0, <1>3 DEF PVCExecute, FetchSnapshot, GetSnapshot, GetContent, CleanupGet,
         CleanupPatch, CleanupDelete, LabelContent, AnnotateSnapshot,
         FinalizePatch, FinalizeDelete, RecreateDelete, RecreateWait,
         RecreateCreate, DeleteVSDelete, DeleteVSCDelete, PVCSkipped, PVCError,
         PVCSnapshot, backups
<1> QED BY <1>1, <1>2, <1>3 DEF Handler

\* No handler touches the storage provider.
LEMMA HandlerCloud ==
    ASSUME NEW b \in Backup, NEW s \in Snap, Handler(b, s)
    PROVE  cloud' = cloud /\ killed' = killed
  BY DEF Handler, PVCExecute, FetchSnapshot, GetSnapshot, GetContent, CleanupGet,
         CleanupPatch, CleanupDelete, LabelContent, AnnotateSnapshot, RecordItems,
         FinalizePatch, FinalizeDelete, RecreateDelete, RecreateWait,
         RecreateCreate, DeleteVSPatch, DeleteVSDelete, DeleteVSCPatch,
         DeleteVSCDelete, PVCSkipped, PVCError, PVCSnapshot, cluster, history

\* Reported tasks stay reported, and are tasks.
LEMMA HandlerReported ==
    ASSUME NEW b \in Backup, NEW s \in Snap, TypeOK, Handler(b, s)
    PROVE  reported \subseteq reported' /\ reported' \subseteq Task
<1>0. <<b, s>> \in Task /\ reported \subseteq Task
  BY TaskPair DEF TypeOK
<1>1. CASE \/ PVCExecute(b, s) \/ CleanupGet(b, s) \/ CleanupDelete(b, s)
          \/ AnnotateSnapshot(b, s)
  BY <1>0, <1>1 DEF PVCExecute, CleanupGet, CleanupDelete, AnnotateSnapshot, PVCSkipped,
         PVCError, PVCSnapshot, ReturnError, history
<1>2. CASE \/ FetchSnapshot(b, s) \/ GetSnapshot(b, s) \/ GetContent(b, s)
          \/ CleanupPatch(b, s) \/ LabelContent(b, s) \/ RecordItems(b, s)
          \/ FinalizePatch(b, s) \/ FinalizeDelete(b, s) \/ RecreateDelete(b, s)
          \/ RecreateWait(b, s) \/ RecreateCreate(b, s) \/ DeleteVSPatch(b, s)
          \/ DeleteVSDelete(b, s) \/ DeleteVSCPatch(b, s) \/ DeleteVSCDelete(b, s)
  BY <1>0, <1>2 DEF FetchSnapshot, GetSnapshot, GetContent, CleanupPatch, LabelContent,
         RecordItems, FinalizePatch, FinalizeDelete, RecreateDelete, RecreateWait,
         RecreateCreate, DeleteVSPatch, DeleteVSDelete, DeleteVSCPatch,
         DeleteVSCDelete, history
<1> QED BY <1>1, <1>2 DEF Handler

\* Spending trouble keeps the type of the budget.
LEMMA Spent ==
    ASSUME NEW k \in Trouble, budget \in [Trouble -> Nat], Spend(k)
    PROVE  budget' \in [Trouble -> Nat]
  BY DEF Spend

\* Handlers keep the type of the budget.
LEMMA HandlerBudget ==
    ASSUME NEW b \in Backup, NEW s \in Snap, TypeOK, Handler(b, s)
    PROVE  budget' \in [Trouble -> Nat]
<1>0. budget \in [Trouble -> Nat]
  BY DEF TypeOK
<1>1. ASSUME Spend("fault") \/ Spend("timeout") \/ budget' = budget
      PROVE  budget' \in [Trouble -> Nat]
  BY <1>0, <1>1, Spent DEF Trouble
<1>2. Spend("fault") \/ Spend("timeout") \/ budget' = budget
  BY DEF Handler, PVCExecute, FetchSnapshot, GetSnapshot, GetContent, CleanupGet,
         CleanupPatch, CleanupDelete, LabelContent, AnnotateSnapshot, RecordItems,
         FinalizePatch, FinalizeDelete, RecreateDelete, RecreateWait,
         RecreateCreate, DeleteVSPatch, DeleteVSDelete, DeleteVSCPatch,
         DeleteVSCDelete, PVCSkipped, PVCError, PVCSnapshot, Fails
<1> QED BY <1>1, <1>2

\* Handlers keep the types.
LEMMA HandlerType ==
    ASSUME NEW b \in Backup, NEW s \in Snap, TypeOK, Handler(b, s) PROVE TypeOK'
  BY HandlerPc, HandlerLoc, HandlerVs, HandlerVsc, HandlerRec, HandlerCloud, HandlerReported,
     HandlerBudget
  DEF TypeOK, ClusterTypeOK

\* A step of Velero's changes no object and one backup's phase only.
LEMMA VeleroFrame ==
    ASSUME NEW b \in Backup, TypeOK, Velero(b) \/ RequestDelete(b)
    PROVE  /\ UNCHANGED <<vs, vsc, cloud, pc, reported, killed, budget>>
           /\ phase' \in [Backup -> Phases]
           /\ \A c \in Backup \ {b} : phase'[c] = phase[c]
<1>0. phase \in [Backup -> Phases]
  BY DEF TypeOK
<1>1. CASE Velero(b)
  BY <1>0, <1>1 DEF Velero, StartBackup, EndInProgress, StartFinalize, CompleteBackup,
         FinishDelete, Phases, cluster, history
<1>2. CASE RequestDelete(b)
  BY <1>0, <1>2 DEF RequestDelete, Phases, cluster, history
<1> QED BY <1>1, <1>2

\* The record of an updated item is a record.
LEMMA UpdatedType == ASSUME TypeOK, NEW t \in Task PROVE Updated(t) \in Records
<1>0. rec[t] \in Records /\ loc[t] \in Locals
  BY DEF TypeOK
<1>1. loc[t].bound \in BOOLEAN /\ loc[t].ann \in BOOLEAN
  BY <1>0 DEF Locals
<1>2. vsc[t[2]].label \in Backup \cup {NoBackup}
  BY DEF TypeOK, ClusterTypeOK, ContentObjects, Task
<1> QED BY <1>0, <1>1, <1>2 DEF Updated, Records

\* Velero's steps keep the types.
LEMMA VeleroType ==
    ASSUME NEW b \in Backup, TypeOK, Velero(b) \/ RequestDelete(b) PROVE TypeOK'
<1>0. /\ loc \in [Task -> Locals] /\ rec \in [Task -> Records]
      /\ todo \in [Task -> SUBSET {"vs", "vsc"}]
  BY DEF TypeOK
<1> DEFINE Goal == /\ loc' \in [Task -> Locals] /\ rec' \in [Task -> Records]
                   /\ todo' \in [Task -> SUBSET {"vs", "vsc"}]
<1>1. CASE StartBackup(b) \/ EndInProgress(b) \/ StartFinalize(b) \/ FinishDelete(b)
  <2>1. Goal
    BY <1>0, <1>1 DEF StartBackup, EndInProgress, StartFinalize, FinishDelete
  <2>2. QED BY <2>1, VeleroFrame DEF TypeOK, ClusterTypeOK
<1>2. CASE CompleteBackup(b)
  <2>1. Goal
    BY <1>0, <1>2, Values, UpdatedType DEF CompleteBackup
  <2>2. QED BY <2>1, VeleroFrame DEF TypeOK, ClusterTypeOK
<1>3. CASE RequestDelete(b)
  <2>1. \A t \in Task : Recorded(t) \in SUBSET {"vs", "vsc"}
    BY DEF Recorded
  <2>2. Goal
    BY <1>0, <1>3, <2>1 DEF RequestDelete
  <2>3. QED BY <2>2, VeleroFrame DEF TypeOK, ClusterTypeOK
<1> QED BY <1>1, <1>2, <1>3 DEF Velero

\* A restart keeps the types.
LEMMA CrashType == ASSUME TypeOK, Crash PROVE TypeOK'
<1>1. phase' \in [Backup -> Phases]
  BY DEF TypeOK, Crash, Phases
<1>2. pc' \in [Task -> PCs]
  <2>1. \A t \in Task : Restarted(t) \in PCs
    BY DEF TypeOK, Restarted, PCs, Ended
  <2>2. QED BY <2>1 DEF Crash
<1>3. loc' \in [Task -> Locals] /\ rec' \in [Task -> Records]
  BY Values DEF TypeOK, Crash
<1>4. todo' \in [Task -> SUBSET {"vs", "vsc"}]
  <2>1. \A t \in Task : Recorded(t) \in SUBSET {"vs", "vsc"}
    BY DEF Recorded
  <2>2. QED BY <2>1 DEF TypeOK, Crash
<1>5. killed' \subseteq Task /\ reported' \subseteq Task
  BY DEF TypeOK, Crash
<1>6. budget' \in [Trouble -> Nat]
  BY Spent DEF TypeOK, Crash, Trouble
<1>7. ClusterTypeOK'
  BY DEF TypeOK, ClusterTypeOK, Crash, cluster
<1> QED BY <1>1, <1>2, <1>3, <1>4, <1>5, <1>6, <1>7 DEF TypeOK

\* Every step keeps the types.
LEMMA NextType == TypeOK /\ [Next]_vars => TypeOK'
<1> SUFFICES ASSUME TypeOK, [Next]_vars PROVE TypeOK'
  OBVIOUS
<1>1. ASSUME NEW s \in Snap, Controller(s) PROVE TypeOK'
  BY <1>1, ControllerFrame DEF TypeOK
<1>2. ASSUME NEW b \in Backup, NEW s \in Snap, Handler(b, s) PROVE TypeOK'
  BY <1>2, HandlerType
<1>3. ASSUME NEW b \in Backup, Velero(b) \/ RequestDelete(b) PROVE TypeOK'
  BY <1>3, VeleroType
<1>4. CASE Crash
  BY <1>4, CrashType
<1>5. CASE UNCHANGED vars
  BY <1>5 DEF vars, TypeOK, ClusterTypeOK
<1> QED BY <1>1, <1>2, <1>3, <1>4, <1>5 DEF Next

\* Every variable keeps its type: objects, backups, tasks and budgets.
THEOREM TypeCorrect == Spec => []TypeOK
  BY InitType, NextType, PTL DEF Spec

-----------------------------------------------------------------------------
(* What a step leaves alone.                                               *)

\* A handler at work for b on s disturbs no other task, no other snapshot, and
\* neither the phases nor the storage provider.
HandlerKeeps(b, s) ==
    /\ phase' = phase /\ cloud' = cloud /\ killed' = killed /\ reported \subseteq reported'
    /\ \A t \in Task \ {<<b, s>>} : pc'[t] = pc[t] /\ loc'[t] = loc[t] /\ rec'[t] = rec[t]
    /\ \A x \in Snap \ {s} : vs'[x] = vs[x] /\ vsc'[x] = vsc[x]

\* All that a handler leaves alone, in one definition.
LEMMA HandlerFrame ==
    ASSUME NEW b \in Backup, NEW s \in Snap, TypeOK, Handler(b, s)
    PROVE  HandlerKeeps(b, s)
  BY HandlerPc, HandlerLoc, HandlerRec, HandlerVs, HandlerVsc, HandlerCloud, HandlerReported
  DEF HandlerKeeps

\* A task is determined by its backup and its snapshot.
LEMMA OtherTask ==
    ASSUME NEW b \in Backup, NEW s \in Snap, NEW c \in Backup, NEW x \in Snap,
           c # b \/ x # s
    PROVE  <<c, x>> \in Task \ {<<b, s>>}
  BY DEF Task

-----------------------------------------------------------------------------
(* PhaseInv.                                                               *)

\* Handlers keep PhaseInv of their task.
LEMMA PhaseHandler ==
    ASSUME NEW b \in Backup, NEW s \in Snap, TypeOK, Handler(b, s),
           PhaseInv(b, s), LabelInv(b, s)
    PROVE  PhaseInv(b, s)'
<1>0. /\ <<b, s>> \in Task /\ pc \in [Task -> PCs] /\ phase' = phase
      /\ NoBackup # b
  BY TaskPair, HandlerRec, BackupAssumption DEF TypeOK
<1> USE <1>0 DEF PhaseInv, Goto, ReturnError, Own, Busy, Reading, Cleaning, Saving, Finishing,
                 Deleting
<1>1. CASE PVCExecute(b, s)
  BY <1>1 DEF PVCExecute, PVCSkipped, PVCError, PVCSnapshot
<1>2. CASE FetchSnapshot(b, s)
  <2>1. \/ phase[b] = "inprogress" /\ pc[<<b, s>>] \in {"created", "idle"}
        \/ phase[b] = "finalizing" /\ Own(b, s)
    BY <1>2 DEF FetchSnapshot
  <2>2. \/ pc'[<<b, s>>] \in {"done", "getvsc"}
        \/ pc'[<<b, s>>] = "getvs" /\ Own(b, s)
        \/ pc'[<<b, s>>] = "annotate" /\ ~Own(b, s)
    BY <1>2 DEF FetchSnapshot
  <2>3. QED BY <2>1, <2>2
<1>3. CASE GetSnapshot(b, s)
  BY <1>3 DEF GetSnapshot
<1>4. CASE GetContent(b, s)
  <2>1. phase[b] = "inprogress" \/ (phase[b] = "finalizing" /\ Own(b, s))
    BY <1>4 DEF GetContent
  <2>2. \/ pc'[<<b, s>>] = "cleanget"
        \/ pc'[<<b, s>>] = "poll" /\ Own(b, s)
        \/ pc'[<<b, s>>] = "finpatch" /\ phase[b] = "finalizing"
        \/ pc'[<<b, s>>] = "label" /\ phase[b] # "finalizing" /\ Own(b, s)
        \/ pc'[<<b, s>>] = "annotate" /\ phase[b] # "finalizing"
    BY <1>4 DEF GetContent
  <2>3. QED BY <2>1, <2>2
<1>5. CASE CleanupGet(b, s)
  BY <1>5 DEF CleanupGet
<1>6. CASE CleanupPatch(b, s)
  BY <1>6 DEF CleanupPatch
<1>7. CASE CleanupDelete(b, s)
  BY <1>7 DEF CleanupDelete
<1>8. CASE LabelContent(b, s)
  BY <1>8 DEF LabelContent
<1>9. CASE AnnotateSnapshot(b, s)
  BY <1>9 DEF AnnotateSnapshot
<1>10. CASE RecordItems(b, s)
  BY <1>10 DEF RecordItems
<1>11. CASE FinalizePatch(b, s)
  BY <1>11 DEF FinalizePatch
<1>12. CASE FinalizeDelete(b, s)
  BY <1>12 DEF FinalizeDelete
<1>13. CASE RecreateDelete(b, s)
  BY <1>13 DEF RecreateDelete
<1>14. CASE RecreateWait(b, s)
  BY <1>14 DEF RecreateWait
<1>15. CASE RecreateCreate(b, s)
  BY <1>15 DEF RecreateCreate
<1>16. CASE DeleteVSPatch(b, s)
  BY <1>16 DEF DeleteVSPatch, Visit, HasBackupLabel, Quiet
<1>17. CASE DeleteVSDelete(b, s)
  BY <1>17 DEF DeleteVSDelete
<1>18. CASE DeleteVSCPatch(b, s)
  BY <1>18 DEF DeleteVSCPatch, Visit, HasBackupLabel, Quiet, LabelInv
<1>19. CASE DeleteVSCDelete(b, s)
  BY <1>19 DEF DeleteVSCDelete
<1> QED
  BY <1>1, <1>2, <1>3, <1>4, <1>5, <1>6, <1>7, <1>8, <1>9, <1>10,
     <1>11, <1>12, <1>13, <1>14, <1>15, <1>16, <1>17, <1>18, <1>19 DEF Handler

\* Velero keeps PhaseInv: a phase ends only when its handlers are quiet.
LEMMA PhaseVelero ==
    ASSUME NEW b \in Backup, NEW s \in Snap, TypeOK, Velero(b) \/ RequestDelete(b),
           PhaseInv(b, s)
    PROVE  PhaseInv(b, s)'
<1>0. pc' = pc /\ phase \in [Backup -> Phases]
  BY VeleroFrame DEF TypeOK
<1> USE <1>0 DEF PhaseInv, Own, Quiet, Busy, Reading, Cleaning, Saving, Finishing, Deleting
<1>1. CASE StartBackup(b)
  BY <1>1 DEF StartBackup
<1>2. CASE EndInProgress(b)
  BY <1>2 DEF EndInProgress
<1>3. CASE StartFinalize(b)
  BY <1>3 DEF StartFinalize
<1>4. CASE CompleteBackup(b)
  BY <1>4 DEF CompleteBackup
<1>5. CASE FinishDelete(b)
  BY <1>5 DEF FinishDelete
<1>6. CASE RequestDelete(b)
  BY <1>6 DEF RequestDelete
<1> QED BY <1>1, <1>2, <1>3, <1>4, <1>5, <1>6 DEF Velero

\* A restart keeps PhaseInv.
LEMMA PhaseCrash ==
    ASSUME NEW b \in Backup, NEW s \in Snap, TypeOK, Crash, PhaseInv(b, s)
    PROVE  PhaseInv(b, s)'
<1>1. /\ <<b, s>> \in Task
      /\ pc'[<<b, s>>] = Restarted(<<b, s>>)
      /\ phase'[b] = IF phase[b] = "inprogress" THEN "failed" ELSE phase[b]
  BY TaskPair DEF Crash
<1> QED
  BY <1>1 DEF PhaseInv, Restarted, Interrupted, Own, Busy, Reading, Cleaning, Saving, Finishing, Deleting

\* Every step keeps PhaseInv.
LEMMA PhaseStep ==
    ASSUME TypeOK, [Next]_vars,
           \A b \in Backup, s \in Snap : PhaseInv(b, s) /\ LabelInv(b, s)
    PROVE  \A b \in Backup, s \in Snap : PhaseInv(b, s)'
<1> SUFFICES ASSUME NEW b \in Backup, NEW s \in Snap PROVE PhaseInv(b, s)'
  OBVIOUS
<1>1. ASSUME phase'[b] = phase[b], pc'[<<b, s>>] = pc[<<b, s>>] PROVE PhaseInv(b, s)'
  BY <1>1 DEF PhaseInv, Own
<1>2. ASSUME NEW x \in Snap, Controller(x) PROVE PhaseInv(b, s)'
  BY <1>1, <1>2, ControllerFrame
<1>3. ASSUME NEW c \in Backup, NEW x \in Snap, Handler(c, x) PROVE PhaseInv(b, s)'
  <2>1. CASE c = b /\ x = s
    BY <1>3, <2>1, PhaseHandler
  <2>2. CASE c # b \/ x # s
    BY <1>1, <1>3, <2>2, HandlerFrame, OtherTask DEF HandlerKeeps
  <2>3. QED BY <2>1, <2>2
<1>4. ASSUME NEW c \in Backup, Velero(c) \/ RequestDelete(c) PROVE PhaseInv(b, s)'
  BY <1>1, <1>4, PhaseVelero, VeleroFrame
<1>5. CASE Crash
  BY <1>5, PhaseCrash
<1>6. CASE UNCHANGED vars
  BY <1>1, <1>6 DEF vars
<1> QED BY <1>2, <1>3, <1>4, <1>5, <1>6 DEF Next
-----------------------------------------------------------------------------
(* LabelInv.                                                               *)

\* Where the content a handler holds comes from.
LEMMA CopiedContent ==
    ASSUME NEW b \in Backup, NEW s \in Snap, TypeOK, Handler(b, s)
    PROVE  loc'[<<b, s>>].content \in {loc[<<b, s>>].content, NoContent, vsc[s], vsc'[s]}
<1>0. /\ <<b, s>> \in Task /\ loc \in [Task -> Locals]
  BY TaskPair DEF TypeOK
<1>1. CASE FetchSnapshot(b, s)
  BY <1>0, <1>1 DEF FetchSnapshot
<1>2. CASE GetContent(b, s)
  BY <1>0, <1>2 DEF GetContent, Locals
<1>3. CASE AnnotateSnapshot(b, s)
  BY <1>0, <1>3 DEF AnnotateSnapshot, Locals
<1>4. CASE RecordItems(b, s)
  BY <1>0, <1>4 DEF RecordItems, NoLocal
<1>5. CASE FinalizePatch(b, s)
  BY <1>0, <1>5 DEF FinalizePatch, UpdatedContent, Locals
<1> QED BY <1>1, <1>2, <1>3, <1>4, <1>5, WritersOfLoc

\* Handlers keep LabelInv, for every backup.
LEMMA LabelHandler ==
    ASSUME NEW b \in Backup, NEW s \in Snap, TypeOK, Handler(b, s),
           PhaseInv(b, s), \A c \in Backup : LabelInv(c, s)
    PROVE  \A c \in Backup : LabelInv(c, s)'
<1> DEFINE t == <<b, s>>
           L == {NoBackup, Owner[s]}
<1>0. /\ t \in Task /\ ClusterTypeOK /\ vsc \in [Snap -> ContentObjects]
      /\ loc[t].content \in ContentObjects
      /\ rec \in [Task -> Records]
      /\ LabelInv(b, s)
  BY TaskPair DEF TypeOK, ClusterTypeOK, Locals
<1>1. vsc'[s].label \in L
  <2>1. CASE LabelContent(b, s)
    <3>1. Owner[s] = b
      BY <2>1 DEF LabelContent, PhaseInv, Own
    <3>2. QED BY <1>0, <2>1, <3>1 DEF LabelContent, PatchLabel, LabelInv, ContentObjects
  <2>2. CASE CleanupPatch(b, s) \/ DeleteVSPatch(b, s) \/ DeleteVSCPatch(b, s)
    BY <1>0, <2>2, PatchedDelete DEF CleanupPatch, DeleteVSPatch, DeleteVSCPatch, LabelInv
  <2>3. CASE FinalizePatch(b, s)
    BY <1>0, <2>3, PatchedPolicy DEF FinalizePatch, LabelInv, Policies
  <2>4. CASE RecreateDelete(b, s) \/ DeleteVSCDelete(b, s)
    BY <1>0, <2>4, DeletedContent DEF RecreateDelete, DeleteVSCDelete, LabelInv
  <2>5. CASE RecreateCreate(b, s)
    BY <1>0, <2>5 DEF RecreateCreate, CreateStaticContent, LabelInv, ContentObjects
  <2>6. CASE vsc' = vsc
    BY <1>0, <2>6 DEF LabelInv
  <2> QED BY <2>1, <2>2, <2>3, <2>4, <2>5, <2>6, WritersOfVsc
<1>2. loc'[t].content.label \in L
  BY <1>0, <1>1, CopiedContent DEF LabelInv, NoContent
<1>3. rec'[t].label \in L
  <2>1. CASE RecordItems(b, s)
    <3>1. rec'[t].label \in {NoBackup, vsc[s].label}
      BY <1>0, <2>1 DEF RecordItems
    <3>2. QED BY <1>0, <3>1 DEF LabelInv
  <2>2. CASE rec' = rec
    BY <1>0, <2>2 DEF LabelInv
  <2> QED BY <2>1, <2>2, WritersOfRec
<1>4. \A c \in Backup \ {b} : loc'[<<c, s>>] = loc[<<c, s>>] /\ rec'[<<c, s>>] = rec[<<c, s>>]
  BY HandlerFrame, OtherTask DEF HandlerKeeps
<1> QED BY <1>1, <1>2, <1>3, <1>4 DEF LabelInv

\* Controllers put no label on a VSC.
LEMMA LabelController ==
    ASSUME NEW s \in Snap, TypeOK, Controller(s), vsc[s].label \in {NoBackup, Owner[s]}
    PROVE  vsc'[s].label \in {NoBackup, Owner[s]}
<1>0. vsc \in [Snap -> ContentObjects]
  BY DEF TypeOK, ClusterTypeOK
<1>1. CASE CreateContent(s)
  BY <1>0, <1>1 DEF CreateContent, NoContent
<1>2. CASE BindSnapshot(s)
  BY <1>2 DEF BindSnapshot
<1>3. CASE TakeSnapshot(s)
  BY <1>0, <1>3 DEF TakeSnapshot, ContentObjects
<1>4. CASE FinishSnapshotDelete(s)
  BY <1>0, <1>4 DEF FinishSnapshotDelete, ContentObjects
<1>5. CASE FinishContentDelete(s)
  BY <1>0, <1>5 DEF FinishContentDelete, NoContent
<1> QED BY <1>1, <1>2, <1>3, <1>4, <1>5 DEF Controller, Csi

\* Velero keeps LabelInv: it records the label the VSC has.
LEMMA LabelVelero ==
    ASSUME NEW c \in Backup, TypeOK, Velero(c) \/ RequestDelete(c),
           NEW b \in Backup, NEW s \in Snap, LabelInv(b, s)
    PROVE  LabelInv(b, s)'
<1> DEFINE t == <<b, s>>
<1>0. t \in Task /\ rec[t] \in Records /\ vsc' = vsc /\ t[2] = s
  BY TaskPair, VeleroFrame DEF TypeOK
<1>1. CASE CompleteBackup(c)
  <2>1. loc'[t] \in {loc[t], NoLocal} /\ rec'[t] \in {rec[t], Updated(t)}
    BY <1>0, <1>1 DEF CompleteBackup
  <2>2. Updated(t).label \in {rec[t].label, vsc[s].label}
    BY <1>0 DEF Updated, Records
  <2>3. QED BY <1>0, <2>1, <2>2 DEF LabelInv, NoLocal, NoContent
<1>2. CASE loc' = loc /\ rec' = rec
  BY <1>0, <1>2 DEF LabelInv
<1> QED
  BY <1>1, <1>2 DEF Velero, StartBackup, EndInProgress, StartFinalize, FinishDelete, RequestDelete

\* Every step keeps LabelInv.
LEMMA LabelStep ==
    ASSUME TypeOK, [Next]_vars,
           \A b \in Backup, s \in Snap : PhaseInv(b, s) /\ LabelInv(b, s)
    PROVE  \A b \in Backup, s \in Snap : LabelInv(b, s)'
<1> SUFFICES ASSUME NEW b \in Backup, NEW s \in Snap PROVE LabelInv(b, s)'
  OBVIOUS
<1>1. ASSUME NEW x \in Snap, Controller(x) PROVE LabelInv(b, s)'
  <2>1. loc' = loc /\ rec' = rec
    BY <1>1, ControllerFrame
  <2>2. vsc'[s].label \in {NoBackup, Owner[s]}
    BY <1>1, ControllerFrame, LabelController DEF LabelInv
  <2>3. QED BY <2>1, <2>2 DEF LabelInv
<1>2. ASSUME NEW c \in Backup, NEW x \in Snap, Handler(c, x) PROVE LabelInv(b, s)'
  <2>1. CASE x = s
    BY <1>2, <2>1, LabelHandler
  <2>2. CASE x # s
    BY <1>2, <2>2, HandlerFrame, OtherTask DEF HandlerKeeps, LabelInv
  <2>3. QED BY <2>1, <2>2
<1>3. ASSUME NEW c \in Backup, Velero(c) \/ RequestDelete(c) PROVE LabelInv(b, s)'
  BY <1>3, LabelVelero
<1>4. CASE Crash
  <2>1. vsc' = vsc /\ loc'[<<b, s>>] = NoLocal /\ rec'[<<b, s>>] \in {rec[<<b, s>>], NoRecord}
    BY <1>4, TaskPair DEF Crash, cluster
  <2>2. QED BY <2>1 DEF LabelInv, NoLocal, NoContent, NoRecord
<1>5. CASE UNCHANGED vars
  BY <1>5 DEF vars, LabelInv
<1> QED BY <1>1, <1>2, <1>3, <1>4, <1>5 DEF Next

-----------------------------------------------------------------------------
(* KnowledgeInv.                                                           *)

\* Annotating the item keeps whether it is bound.
LEMMA AnnotatedLocal ==
    ASSUME NEW t \in Task, loc \in [Task -> Locals], loc' = [loc EXCEPT ![t].ann = TRUE]
    PROVE  loc'[t].ann /\ loc'[t].bound = loc[t].bound
  BY DEF Locals

\* Annotating the VS keeps whether it is bound.
LEMMA AnnotatedSnapshot ==
    ASSUME NEW s \in Snap, vs \in [Snap -> SnapshotObjects], vs' = [vs EXCEPT ![s].ann = TRUE]
    PROVE  vs'[s].ann /\ vs'[s].bound = vs[s].bound /\ vs'[s].st = vs[s].st
  BY DEF SnapshotObjects

\* FinalizePatch leaves the item alone.
LEMMA PatchedLocal ==
    ASSUME NEW b \in Backup, NEW s \in Snap, TypeOK, FinalizePatch(b, s)
    PROVE  /\ loc'[<<b, s>>].bound = loc[<<b, s>>].bound
           /\ loc'[<<b, s>>].ann = loc[<<b, s>>].ann
<1> DEFINE t == <<b, s>>
<1>1. t \in Task /\ loc \in [Task -> Locals]
  BY TaskPair DEF TypeOK
<1>2. \/ loc' = loc
      \/ loc' = [loc EXCEPT ![t] = [@ EXCEPT !.content = vsc'[s], !.recreate = TRUE]]
  BY DEF FinalizePatch, UpdatedContent
<1> QED BY <1>1, <1>2 DEF Locals

\* The backup's own handlers keep KnowledgeInv.
LEMMA KnowledgeHandler ==
    ASSUME NEW b \in Backup, NEW s \in Snap, TypeOK, Handler(b, s), Own(b, s),
           PhaseInv(b, s), KnowledgeInv(b, s), ContentInv(s)
    PROVE  KnowledgeInv(b, s)'
<1> DEFINE t == <<b, s>>
<1>0. /\ t \in Task /\ t[1] = b /\ t[2] = s
      /\ pc \in [Task -> PCs] /\ loc \in [Task -> Locals] /\ rec \in [Task -> Records]
      /\ vs \in [Snap -> SnapshotObjects]
      /\ phase' = phase /\ cloud' = cloud
      /\ ClusterTypeOK
  BY TaskPair, HandlerRec, HandlerCloud DEF TypeOK, ClusterTypeOK
<1> USE <1>0 DEF KnowledgeInv, Revisited, Goto, ReturnError, Reading, Cleaning, Saving, Finishing
<1>1. CASE PVCExecute(b, s)
  BY <1>1 DEF PVCExecute, PVCSkipped, PVCError, PVCSnapshot, backups, cluster
<1>2. CASE FetchSnapshot(b, s)
  BY <1>2 DEF FetchSnapshot, backups, cluster
<1>3. CASE GetSnapshot(b, s)
  BY <1>3 DEF GetSnapshot, backups, cluster
<1>4. CASE GetContent(b, s)
  <2>1. rec' = rec /\ vs' = vs /\ pc[t] = "getvsc"
    BY <1>4 DEF GetContent, backups, cluster
  <2>2. \/ loc' = loc /\ pc'[t] \in {"poll", "cleanget"}
        \/ /\ loc'[t].content.handle /\ cloud[s] # "none"
           /\ loc'[t].bound = loc[t].bound /\ loc'[t].ann = loc[t].ann
           /\ pc'[t] = IF phase[b] = "finalizing" THEN "finpatch" ELSE "label"
    <3>1. vsc[s].handle => cloud[s] # "none"
      BY DEF ContentInv
    <3>2. \/ loc' = loc /\ pc'[t] \in {"poll", "cleanget"}
          \/ /\ vsc[s].handle
             /\ loc' = [loc EXCEPT ![t].content = vsc[s]]
             /\ pc'[t] = IF phase[b] = "finalizing" THEN "finpatch" ELSE "label"
      BY <1>4 DEF GetContent, ContentReady
    <3>3. QED BY <3>1, <3>2 DEF Locals
  <2>3. QED BY <2>1, <2>2
<1>5. CASE CleanupGet(b, s)
  BY <1>5 DEF CleanupGet, backups, cluster
<1>6. CASE CleanupPatch(b, s)
  BY <1>6 DEF CleanupPatch, backups, cluster
<1>7. CASE CleanupDelete(b, s)
  BY <1>7, DeletedSnapshot DEF CleanupDelete, CleanupEffect, backups
<1>8. CASE LabelContent(b, s)
  BY <1>8 DEF LabelContent, backups, cluster
<1>9. CASE AnnotateSnapshot(b, s)
  <2>1. rec' = rec /\ pc[t] = "annotate" /\ loc[t].content.handle
    BY <1>9 DEF AnnotateSnapshot, backups
  <2>2. \/ loc' = loc /\ vs' = vs /\ pc'[t] = "failed"
        \/ /\ loc'[t].ann /\ loc'[t].bound = loc[t].bound /\ pc'[t] = "attach"
           /\ vs'[s].ann /\ vs'[s].bound = vs[s].bound /\ vs'[s].st = vs[s].st
        \/ /\ loc' = loc /\ pc'[t] = "failed"
           /\ vs'[s].ann /\ vs'[s].bound = vs[s].bound /\ vs'[s].st = vs[s].st
    <3>1. \/ loc' = loc /\ vs' = vs /\ pc'[t] = "failed"
          \/ /\ loc' = [loc EXCEPT ![t].ann = TRUE] /\ pc'[t] = "attach"
             /\ vs' = [vs EXCEPT ![s].ann = TRUE]
          \/ /\ loc' = loc /\ pc'[t] = "failed"
             /\ vs' = [vs EXCEPT ![s].ann = TRUE]
      BY <1>9, <2>1 DEF AnnotateSnapshot
    <3>2. QED BY <3>1, AnnotatedLocal, AnnotatedSnapshot
  <2>3. phase[b] = "inprogress"
    BY <2>1 DEF PhaseInv
  <2>4. QED BY <2>1, <2>2, <2>3
<1>10. CASE RecordItems(b, s)
  BY <1>10 DEF RecordItems, backups, cluster
<1>11. CASE FinalizePatch(b, s)
  <2>1. rec' = rec /\ vs' = vs /\ pc[t] = "finpatch" /\ pc'[t] \in {"findelete", "finalized"}
    BY <1>11 DEF FinalizePatch, backups
  <2>2. loc'[t].bound = loc[t].bound /\ loc'[t].ann = loc[t].ann
    BY <1>11, PatchedLocal
  <2>3. QED BY <2>1, <2>2
<1>12. CASE FinalizeDelete(b, s)
  BY <1>12, DeletedSnapshot DEF FinalizeDelete, backups
<1>13. CASE RecreateDelete(b, s)
  BY <1>13 DEF RecreateDelete, backups, cluster
<1>14. CASE RecreateWait(b, s)
  BY <1>14 DEF RecreateWait, backups, cluster
<1>15. CASE RecreateCreate(b, s)
  BY <1>15 DEF RecreateCreate, backups, cluster
<1>16. CASE DeleteVSPatch(b, s)
  BY <1>16 DEF DeleteVSPatch, backups, Visit, Quiet, Busy, Deleting, cluster
<1>17. CASE DeleteVSDelete(b, s)
  BY <1>17, DeletedSnapshot DEF DeleteVSDelete, backups
<1>18. CASE DeleteVSCPatch(b, s)
  BY <1>18 DEF DeleteVSCPatch, backups, Visit, Quiet, Busy, Deleting, cluster
<1>19. CASE DeleteVSCDelete(b, s)
  BY <1>19 DEF DeleteVSCDelete, backups, cluster
<1> QED
  BY <1>1, <1>2, <1>3, <1>4, <1>5, <1>6, <1>7, <1>8, <1>9, <1>10,
     <1>11, <1>12, <1>13, <1>14, <1>15, <1>16, <1>17, <1>18, <1>19 DEF Handler

\* A foreign handler may delete or annotate a VS, but does not create or unbind it.
LEMMA ForeignHandler ==
    ASSUME NEW b \in Backup, NEW s \in Snap, TypeOK, Handler(b, s), ~Own(b, s)
    PROVE  /\ vs[s].st = "absent" => vs'[s].st = "absent"
           /\ vs[s].bound => vs'[s].bound
           /\ vs[s].ann => vs'[s].ann
<1>0. ClusterTypeOK /\ vs \in [Snap -> SnapshotObjects]
  BY DEF TypeOK, ClusterTypeOK
<1>1. CASE AnnotateSnapshot(b, s)
  BY <1>0, <1>1 DEF AnnotateSnapshot, SnapshotObjects
<1>2. CASE CleanupDelete(b, s) \/ FinalizeDelete(b, s) \/ DeleteVSDelete(b, s)
  BY <1>0, <1>2, DeletedSnapshot DEF CleanupDelete, CleanupEffect, FinalizeDelete, DeleteVSDelete
<1>3. ~PVCExecute(b, s)
  BY DEF PVCExecute
<1> QED BY <1>0, <1>1, <1>2, <1>3, WritersOfVs

\* Nor does a controller.
LEMMA KnowledgeController ==
    ASSUME NEW s \in Snap, TypeOK, Controller(s)
    PROVE  /\ cloud[s] # "none" => cloud'[s] # "none"
           /\ vs[s].st = "absent" => vs'[s].st = "absent"
           /\ vs'[s].st = "absent" \/ (/\ vs[s].bound => vs'[s].bound
                                       /\ vs[s].ann => vs'[s].ann)
<1>0. ClusterTypeOK
  BY DEF TypeOK
<1>1. CASE CreateContent(s)
  BY <1>1 DEF CreateContent
<1>2. CASE BindSnapshot(s)
  BY <1>0, <1>2 DEF BindSnapshot, ClusterTypeOK, SnapshotObjects
<1>3. CASE TakeSnapshot(s)
  BY <1>0, <1>3 DEF TakeSnapshot, ClusterTypeOK
<1>4. CASE FinishSnapshotDelete(s)
  BY <1>0, <1>4 DEF FinishSnapshotDelete, ClusterTypeOK, NoSnapshot
<1>5. CASE FinishContentDelete(s)
  BY <1>0, <1>5 DEF FinishContentDelete, ClusterTypeOK
<1> QED BY <1>1, <1>2, <1>3, <1>4, <1>5 DEF Controller, Csi

\* Velero's steps keep KnowledgeInv.
LEMMA KnowledgeVelero ==
    ASSUME NEW b \in Backup, NEW s \in Snap, TypeOK, Velero(b) \/ RequestDelete(b),
           PhaseInv(b, s), KnowledgeInv(b, s)
    PROVE  KnowledgeInv(b, s)'
<1> DEFINE t == <<b, s>>
<1>0. /\ t \in Task /\ t[1] = b /\ t[2] = s
      /\ pc' = pc /\ vs' = vs /\ cloud' = cloud /\ phase \in [Backup -> Phases]
      /\ loc \in [Task -> Locals] /\ rec \in [Task -> Records]
  BY TaskPair, VeleroFrame DEF TypeOK
<1> USE <1>0 DEF KnowledgeInv, Revisited, PhaseInv, Reading, Saving, Finishing
<1>1. CASE StartBackup(b)
  BY <1>1 DEF StartBackup
<1>2. CASE EndInProgress(b)
  BY <1>2 DEF EndInProgress
<1>3. CASE StartFinalize(b)
  BY <1>3 DEF StartFinalize
<1>4. CASE CompleteBackup(b)
  <2>1. /\ phase[b] = "finalizing" /\ phase'[b] = "completed"
        /\ pc[t] # "recorded" /\ pc[t] \notin Saving \cup Reading \cup Finishing
        /\ rec'[t] = Updated(t)
    BY <1>4 DEF CompleteBackup, Quiet, Busy
  <2>2. /\ rec'[t].vs = rec[t].vs
        /\ rec'[t].ann = IF pc[t] = "finalized" THEN loc[t].ann ELSE rec[t].ann
    BY <2>1 DEF Updated, Records
  <2>3. QED BY <2>1, <2>2
<1>5. CASE FinishDelete(b)
  BY <1>5 DEF FinishDelete
<1>6. CASE RequestDelete(b)
  BY <1>6 DEF RequestDelete
<1> QED BY <1>1, <1>2, <1>3, <1>4, <1>5, <1>6 DEF Velero

\* A task sees nothing of what Velero does with another backup.
LEMMA OtherBackup ==
    ASSUME NEW c \in Backup, TypeOK, Velero(c) \/ RequestDelete(c),
           NEW b \in Backup \ {c}, NEW s \in Snap
    PROVE  /\ phase'[b] = phase[b] /\ pc' = pc
           /\ loc'[<<b, s>>] = loc[<<b, s>>] /\ rec'[<<b, s>>] = rec[<<b, s>>]
           /\ UNCHANGED <<vs, vsc, cloud, reported, killed>>
<1>1. /\ <<b, s>> \in Task /\ <<b, s>>[1] # c
      /\ loc \in [Task -> Locals] /\ rec \in [Task -> Records]
  BY TaskPair DEF TypeOK
<1>2. loc'[<<b, s>>] = loc[<<b, s>>] /\ rec'[<<b, s>>] = rec[<<b, s>>]
  BY <1>1 DEF Velero, StartBackup, EndInProgress, StartFinalize, CompleteBackup, FinishDelete,
              RequestDelete
<1> QED BY <1>2, VeleroFrame

\* A restart keeps KnowledgeInv.
LEMMA KnowledgeCrash ==
    ASSUME NEW b \in Backup, NEW s \in Snap, TypeOK, Crash, Own(b, s),
           PhaseInv(b, s), KnowledgeInv(b, s)
    PROVE  KnowledgeInv(b, s)'
<1> DEFINE t == <<b, s>>
<1>1. /\ t \in Task /\ t[1] = b /\ t[2] = s
      /\ phase'[b] = IF phase[b] = "inprogress" THEN "failed" ELSE phase[b]
      /\ pc'[t] = Restarted(t)
      /\ rec'[t] = IF phase[b] = "inprogress" THEN NoRecord ELSE rec[t]
      /\ vs' = vs /\ cloud' = cloud
  BY TaskPair DEF Crash, cluster
<1>2. ~NoRecord.vs
  BY DEF NoRecord
<1>3. pc'[t] \notin Saving \cup Reading \cup Finishing
  BY <1>1 DEF Restarted, Interrupted, PhaseInv, Busy, Saving, Reading, Finishing
<1>4. pc'[t] = "recorded" => rec'[t].vs
  BY <1>1 DEF Restarted, Interrupted, PhaseInv, KnowledgeInv, Busy
<1>5. pc'[t] = "idle" => pc[t] = "idle"
  BY <1>1 DEF Restarted
<1>6. pc'[t] = "finalized" => phase'[b] # "finalizing"
  BY <1>1 DEF Restarted, Interrupted, KnowledgeInv, Revisited, Own
<1> QED
  BY <1>1, <1>2, <1>3, <1>4, <1>5, <1>6
  DEF KnowledgeInv, Revisited, Saving, Reading, Finishing

\* Every step keeps KnowledgeInv.
LEMMA KnowledgeStep ==
    ASSUME TypeOK, [Next]_vars,
           \A b \in Backup, s \in Snap : PhaseInv(b, s) /\ (Own(b, s) => KnowledgeInv(b, s)),
           \A s \in Snap : ContentInv(s)
    PROVE  \A b \in Backup, s \in Snap : Own(b, s) => KnowledgeInv(b, s)'
<1> SUFFICES ASSUME NEW b \in Backup, NEW s \in Snap, Own(b, s) PROVE KnowledgeInv(b, s)'
  OBVIOUS
<1> DEFINE t == <<b, s>>
<1>0. t[1] = b /\ KnowledgeInv(b, s)
  OBVIOUS
\* Only the cluster moves, and what is known of it stays true.
<1>1. ASSUME phase'[b] = phase[b], pc'[t] = pc[t], loc'[t] = loc[t], rec'[t] = rec[t],
             cloud[s] # "none" => cloud'[s] # "none",
             vs[s].st = "absent" => vs'[s].st = "absent",
             vs'[s].st = "absent" \/ (/\ vs[s].bound => vs'[s].bound
                                      /\ vs[s].ann => vs'[s].ann)
      PROVE  KnowledgeInv(b, s)'
  BY <1>0, <1>1 DEF KnowledgeInv, Revisited
<1>2. ASSUME NEW x \in Snap, Controller(x) PROVE KnowledgeInv(b, s)'
  <2>1. UNCHANGED <<phase, pc, loc, rec>>
    BY <1>2, ControllerFrame
  <2>2. CASE x = s
    BY <1>1, <1>2, <2>1, <2>2, KnowledgeController
  <2>3. CASE x # s
    BY <1>1, <1>2, <2>1, <2>3, ControllerFrame
  <2>4. QED BY <2>2, <2>3
<1>3. ASSUME NEW c \in Backup, NEW x \in Snap, Handler(c, x) PROVE KnowledgeInv(b, s)'
  <2>1. CASE c = b /\ x = s
    BY <1>0, <1>3, <2>1, KnowledgeHandler
  <2>2. CASE c # b /\ x = s
    <3>1. ~Own(c, s)
      BY <2>2 DEF Own
    <3>2. HandlerKeeps(c, s) /\ t \in Task \ {<<c, s>>}
      BY <1>3, <2>2, HandlerFrame, OtherTask
    <3>3. QED BY <1>1, <1>3, <2>2, <3>1, <3>2, ForeignHandler DEF HandlerKeeps
  <2>3. CASE x # s
    <3>1. HandlerKeeps(c, x) /\ t \in Task \ {<<c, x>>}
      BY <1>3, <2>3, HandlerFrame, OtherTask
    <3>2. QED BY <1>1, <2>3, <3>1 DEF HandlerKeeps
  <2>4. QED BY <2>1, <2>2, <2>3
<1>4. ASSUME NEW c \in Backup, Velero(c) \/ RequestDelete(c) PROVE KnowledgeInv(b, s)'
  <2>1. CASE c = b
    BY <1>0, <1>4, <2>1, KnowledgeVelero
  <2>2. CASE c # b
    BY <1>1, <1>4, <2>2, OtherBackup
  <2>3. QED BY <2>1, <2>2
<1>5. CASE Crash
  BY <1>0, <1>5, KnowledgeCrash
<1>6. CASE UNCHANGED vars
  BY <1>1, <1>6 DEF vars
<1> QED BY <1>2, <1>3, <1>4, <1>5, <1>6 DEF Next


-----------------------------------------------------------------------------
(* Accounted and Protected.                                                *)

\* Once a loss is accounted for it stays so.
LEMMA AccountedStable ==
    ASSUME TypeOK, [Next]_vars, \A b \in Backup, s \in Snap : PhaseInv(b, s),
           NEW s \in Snap, Accounted(s)
    PROVE  Accounted(s)'
<1>1. CASE Owner[s] # NoBackup /\ phase[Owner[s]] \in {"deleting", "deleted"}
  <2>1. Owner[s] \in Backup
    BY <1>1, OwnerAssumption
  <2>2. phase'[Owner[s]] \in {"deleting", "deleted"}
    <3>1. ASSUME NEW c \in Backup, Velero(c) \/ RequestDelete(c)
          PROVE  phase'[Owner[s]] \in {"deleting", "deleted"}
      BY <1>1, <2>1, <3>1 DEF Velero, StartBackup, EndInProgress, StartFinalize,
         CompleteBackup, FinishDelete, RequestDelete, TypeOK
    <3>2. CASE Crash
      BY <1>1, <2>1, <3>2 DEF Crash
    <3>3. CASE phase' = phase
      BY <1>1, <3>3
    <3>4. QED BY <3>1, <3>2, <3>3, ControllerFrame, HandlerRec DEF Next, vars
  <2>3. QED BY <1>1, <2>2 DEF Accounted
<1>2. ASSUME NEW b \in Backup, Troubled(<<b, s>>) PROVE Troubled(<<b, s>>)'
  <2> DEFINE t == <<b, s>>
  <2>0. t \in Task
    BY TaskPair
  <2>1. CASE t \in reported \cup killed
    <3>1. ASSUME NEW c \in Backup, NEW x \in Snap, Handler(c, x)
          PROVE  reported \subseteq reported' /\ killed \subseteq killed'
      BY <3>1, HandlerFrame DEF HandlerKeeps
    <3>2. ASSUME NEW c \in Backup, Velero(c) \/ RequestDelete(c)
          PROVE  reported' = reported /\ killed' = killed
      BY <3>2, VeleroFrame
    <3>3. ASSUME NEW x \in Snap, Controller(x) PROVE reported' = reported /\ killed' = killed
      BY <3>3, ControllerFrame
    <3>4. CASE Crash
      BY <2>1, <3>4 DEF Crash, Troubled
    <3>5. QED BY <2>1, <3>1, <3>2, <3>3, <3>4 DEF Next, vars, Troubled
  <2>2. CASE pc[t] \in Cleaning
    <3>1. ASSUME NEW c \in Backup, NEW x \in Snap, Handler(c, x) PROVE Troubled(t)'
      <4>1. CASE c = b /\ x = s
        <5>1. \/ CleanupGet(b, s) \/ CleanupPatch(b, s) \/ CleanupDelete(b, s)
          BY <2>2, <3>1, <4>1
          DEF Handler, PVCExecute, FetchSnapshot, GetSnapshot, GetContent, LabelContent,
              AnnotateSnapshot, RecordItems, FinalizePatch, FinalizeDelete, RecreateDelete,
              RecreateWait, RecreateCreate, DeleteVSPatch, DeleteVSDelete, DeleteVSCPatch,
              DeleteVSCDelete, Visit, Quiet, Busy, Cleaning
        <5>2. pc'[t] \in Cleaning \/ t \in reported'
          BY <2>0, <5>1 DEF CleanupGet, CleanupPatch, CleanupDelete, ReturnError, Goto,
             Cleaning, TypeOK
        <5>3. QED BY <5>2 DEF Troubled
      <4>2. CASE c # b \/ x # s
        BY <2>2, <3>1, <4>2, HandlerFrame, OtherTask DEF HandlerKeeps, Troubled
      <4>3. QED BY <4>1, <4>2
    <3>2. CASE pc' = pc
      BY <2>2, <3>2 DEF Troubled
    <3>3. CASE Crash
      <4>1. Interrupted(t)
        BY <2>2 DEF Interrupted, PhaseInv, Busy
      <4>2. QED BY <2>0, <3>3, <4>1 DEF Crash, Troubled
    <3>4. QED BY <3>1, <3>2, <3>3, ControllerFrame, VeleroFrame DEF Next, vars
  <2>3. QED BY <1>2, <2>1, <2>2 DEF Troubled
<1>3. QED BY <1>1, <1>2 DEF Accounted

\* A handler that cleans up, or works for the deletion of the backup, is an
\* account of the loss it may cause.
LEMMA DueAccounted ==
    ASSUME NEW b \in Backup, NEW s \in Snap, PhaseInv(b, s),
           pc[<<b, s>>] \in Cleaning \cup Deleting \/ (phase[b] = "deleting" /\ Own(b, s))
    PROVE  Accounted(s)
<1>1. CASE pc[<<b, s>>] \in Cleaning
  BY <1>1 DEF Accounted, Troubled
<1>2. CASE phase[b] = "deleting" /\ Own(b, s)
  BY <1>2, BackupAssumption DEF Accounted, Own
<1>3. CASE pc[<<b, s>>] \in Deleting
  BY <1>2, <1>3 DEF PhaseInv, Deleting, Finishing
<1> QED BY <1>1, <1>2, <1>3

\* The actions that set the policy to Delete.
LEMMA ReleaseAccounted ==
    ASSUME NEW b \in Backup, NEW s \in Snap, PhaseInv(b, s), LabelInv(b, s),
           CleanupPatch(b, s) \/ DeleteVSPatch(b, s) \/ DeleteVSCPatch(b, s), vsc' # vsc
    PROVE  Accounted(s)
<1>1. CASE CleanupPatch(b, s)
  BY <1>1, DueAccounted DEF CleanupPatch, Cleaning
<1>2. CASE DeleteVSPatch(b, s)
  BY <1>2, DueAccounted DEF DeleteVSPatch, Visit, HasBackupLabel, Own
<1>3. CASE DeleteVSCPatch(b, s)
  BY <1>3, DueAccounted, BackupAssumption DEF DeleteVSCPatch, Visit, HasBackupLabel, Own, LabelInv
<1> QED BY <1>1, <1>2, <1>3

\* What a handler does to the content of its snapshot.
LEMMA HandlerContent ==
    ASSUME NEW b \in Backup, NEW s \in Snap, TypeOK, Handler(b, s),
           PhaseInv(b, s), LabelInv(b, s), FinishInv(b, s)
    PROVE  /\ vsc'[s].handle => vsc[s].handle
           /\ vsc[s].st = "absent" => vsc'[s].st = "absent" \/ vsc'[s].policy = "Retain"
           /\ vsc'[s].policy \in {vsc[s].policy, "Retain"} \/ Accounted(s)
           /\ ~vsc'[s].static => ~vsc[s].static
           /\ ~vsc'[s].static /\ ~vsc'[s].handle => ~vsc[s].handle
           /\ ~vsc'[s].static /\ vsc'[s].st # "absent" => vsc[s].st # "absent"
           /\ vsc'[s].st = "deleting" => vsc[s].st = "deleting" \/ Protected(s)
<1>0. ClusterTypeOK /\ <<b, s>> \in Task /\ loc[<<b, s>>] \in Locals
  BY TaskPair DEF TypeOK
<1>1. CASE CleanupPatch(b, s) \/ DeleteVSPatch(b, s) \/ DeleteVSCPatch(b, s)
  <2>1. vsc' # vsc => Accounted(s)
    BY <1>1, ReleaseAccounted
  <2>2. vsc' = vsc \/ SetVolumeSnapshotContentDeletionPolicy(s)
    BY <1>1 DEF CleanupPatch, DeleteVSPatch, DeleteVSCPatch
  <2>3. QED BY <1>0, <2>1, <2>2, PatchedDelete
<1>2. CASE LabelContent(b, s)
  BY <1>0, <1>2 DEF LabelContent, PatchLabel, ClusterTypeOK, ContentObjects
<1>3. CASE FinalizePatch(b, s)
  <2>1. vsc' = vsc \/ PatchPolicy(s, "Retain")
    BY <1>3 DEF FinalizePatch
  <2>2. QED BY <1>0, <2>1, PatchedPolicy DEF Policies
<1>4. CASE RecreateDelete(b, s)
  <2>1. Protected(s)
    BY <1>4 DEF RecreateDelete, FinishInv, Finishing
  <2>2. vsc' = vsc \/ DeleteContentObject(s)
    BY <1>4 DEF RecreateDelete
  <2>3. QED BY <1>0, <2>1, <2>2, DeletedContent
<1>5. CASE RecreateCreate(b, s)
  <2>1. loc[<<b, s>>].content.policy = "Retain" /\ loc[<<b, s>>].content \in ContentObjects
    BY <1>0, <1>5 DEF RecreateCreate, FinishInv, Finishing, Locals
  <2>2. \/ vsc' = vsc
        \/ vsc' = [vsc EXCEPT ![s] = [loc[<<b, s>>].content EXCEPT
                        !.st = "live", !.static = TRUE, !.handle = FALSE]]
    BY <1>5 DEF RecreateCreate, CreateStaticContent
  <2>3. ASSUME NEW c \in ContentObjects, c.policy = "Retain",
               vsc' = [vsc EXCEPT ![s] = [c EXCEPT !.st = "live", !.static = TRUE, !.handle = FALSE]]
        PROVE  /\ vsc'[s].policy = "Retain" /\ vsc'[s].st = "live"
               /\ vsc'[s].static /\ ~vsc'[s].handle
    BY <1>0, <2>3 DEF ClusterTypeOK, ContentObjects
  <2>4. QED BY <2>1, <2>2, <2>3
<1>6. CASE DeleteVSCDelete(b, s)
  <2>1. Accounted(s)
    BY <1>6, DueAccounted DEF DeleteVSCDelete, Deleting
  <2>2. vsc' = vsc \/ DeleteContentObject(s)
    BY <1>6 DEF DeleteVSCDelete
  <2>3. QED BY <1>0, <2>1, <2>2, DeletedContent DEF Protected
<1>7. CASE vsc' = vsc
  BY <1>7
<1> QED BY <1>1, <1>2, <1>3, <1>4, <1>5, <1>6, <1>7, WritersOfVsc

\* A VS is deleted only when its content is safe or an account is due.
LEMMA HandlerSnapshot ==
    ASSUME NEW b \in Backup, NEW s \in Snap, TypeOK, Handler(b, s),
           PhaseInv(b, s), FinishInv(b, s)
    PROVE  vs'[s].st = "deleting" => vs[s].st = "deleting" \/ Protected(s)
<1>0. ClusterTypeOK /\ vs \in [Snap -> SnapshotObjects]
  BY DEF TypeOK, ClusterTypeOK
<1>1. CASE PVCExecute(b, s)
  BY <1>0, <1>1 DEF PVCExecute, PVCSkipped, PVCError, PVCSnapshot, CreateSnapshotObject,
         SnapshotObjects, cluster
<1>2. CASE AnnotateSnapshot(b, s)
  BY <1>0, <1>2 DEF AnnotateSnapshot, SnapshotObjects
<1>3. CASE CleanupDelete(b, s) \/ DeleteVSDelete(b, s)
  BY <1>3, DueAccounted DEF CleanupDelete, DeleteVSDelete, Cleaning, Deleting, Protected
<1>4. CASE FinalizeDelete(b, s)
  BY <1>4 DEF FinalizeDelete, FinishInv, Finishing
<1>5. CASE vs' = vs
  BY <1>5
<1> QED BY <1>1, <1>2, <1>3, <1>4, <1>5, WritersOfVs

\* What is safe from the deletion of the VS stays safe, or an account is due.
LEMMA ProtectedStable ==
    ASSUME TypeOK, NEW s \in Snap, Accounted(s) => Accounted(s)', Protected(s),
           vsc[s].st = "absent" => vsc'[s].st = "absent" \/ vsc'[s].policy = "Retain",
           vsc'[s].policy \in {vsc[s].policy, "Retain"} \/ Accounted(s)
    PROVE  Protected(s)'
  BY DEF Protected

\* A dynamic VSC may have any policy, but comes only for a new VS.
LEMMA ControllerContent ==
    ASSUME NEW s \in Snap, TypeOK, Controller(s), ContentInv(s),
           Accounted(s) => Accounted(s)'
    PROVE  /\ vsc[s].st = "absent" => vsc'[s].st = "absent" \/ cloud[s] = "none"
           /\ vsc'[s].st # "absent" => vsc'[s].policy = vsc[s].policy \/ cloud[s] = "none"
           /\ ContentInv(s)'
           /\ cloud'[s] = "erased" => cloud[s] = "erased" \/ Accounted(s)
<1>0. /\ vsc \in [Snap -> ContentObjects] /\ vs \in [Snap -> SnapshotObjects]
      /\ cloud \in [Snap -> {"none", "stored", "erased"}]
  BY DEF TypeOK, ClusterTypeOK
<1>1. CASE CreateContent(s)
  BY <1>0, <1>1 DEF CreateContent, NoContent, ContentInv
<1>2. CASE BindSnapshot(s)
  BY <1>0, <1>2 DEF BindSnapshot, SnapshotObjects, ContentInv, Protected
<1>3. CASE TakeSnapshot(s)
  BY <1>0, <1>3 DEF TakeSnapshot, ContentObjects, ContentInv, Protected
<1>4. CASE FinishSnapshotDelete(s)
  <2>1. /\ vs'[s].st = "absent" /\ cloud' = cloud
        /\ vsc'[s].handle = vsc[s].handle /\ vsc'[s].policy = vsc[s].policy
        /\ vsc'[s].static = vsc[s].static
        /\ vsc[s].st = "absent" => vsc'[s].st = "absent"
        /\ vsc'[s].st = "deleting" => vsc[s].st = "deleting" \/ ~vsc[s].static
    BY <1>0, <1>4 DEF FinishSnapshotDelete, ContentObjects, NoSnapshot
  <2>2. vs[s].st = "deleting"
    BY <1>4 DEF FinishSnapshotDelete
  <2>3. QED BY <1>0, <2>1, <2>2 DEF ContentInv, Protected
<1>5. CASE FinishContentDelete(s)
  BY <1>0, <1>5 DEF FinishContentDelete, NoContent, ContentInv, Protected
<1> QED BY <1>1, <1>2, <1>3, <1>4, <1>5 DEF Controller, Csi

\* Handlers keep ContentInv.
LEMMA ContentHandler ==
    ASSUME NEW b \in Backup, NEW s \in Snap, TypeOK, Handler(b, s),
           PhaseInv(b, s), LabelInv(b, s), FinishInv(b, s), ContentInv(s),
           Accounted(s) => Accounted(s)'
    PROVE  ContentInv(s)'
<1>1. Protected(s) => Protected(s)'
  BY HandlerContent, ProtectedStable
<1>2. QED BY <1>1, HandlerContent, HandlerSnapshot, HandlerCloud DEF ContentInv

\* Every step keeps ContentInv and NoSilentLoss.
LEMMA ContentStep ==
    ASSUME TypeOK, [Next]_vars,
           \A b \in Backup, s \in Snap : PhaseInv(b, s) /\ LabelInv(b, s) /\ FinishInv(b, s),
           \A s \in Snap : ContentInv(s),
           NoSilentLoss
    PROVE  (\A s \in Snap : ContentInv(s)') /\ NoSilentLoss'
<1> SUFFICES ASSUME NEW s \in Snap
             PROVE  ContentInv(s)' /\ (cloud'[s] = "erased" => Accounted(s)')
  BY DEF NoSilentLoss
<1>0. Accounted(s) => Accounted(s)'
  BY AccountedStable
<1>1. ASSUME vs'[s] = vs[s], vsc'[s] = vsc[s], cloud'[s] = cloud[s]
      PROVE  ContentInv(s)' /\ (cloud'[s] = "erased" => Accounted(s)')
  BY <1>0, <1>1 DEF ContentInv, Protected, NoSilentLoss
<1>2. ASSUME NEW x \in Snap, Controller(x)
      PROVE  ContentInv(s)' /\ (cloud'[s] = "erased" => Accounted(s)')
  <2>1. CASE x = s
    BY <1>0, <1>2, <2>1, ControllerContent DEF NoSilentLoss
  <2>2. CASE x # s
    BY <1>1, <1>2, <2>2, ControllerFrame
  <2>3. QED BY <2>1, <2>2
<1>3. ASSUME NEW c \in Backup, NEW x \in Snap, Handler(c, x)
      PROVE  ContentInv(s)' /\ (cloud'[s] = "erased" => Accounted(s)')
  <2>1. CASE x = s
    BY <1>0, <1>3, <2>1, ContentHandler, HandlerCloud DEF NoSilentLoss
  <2>2. CASE x # s
    BY <1>1, <1>3, <2>2, HandlerFrame DEF HandlerKeeps
  <2>3. QED BY <2>1, <2>2
<1>4. ASSUME NEW c \in Backup, Velero(c) \/ RequestDelete(c)
      PROVE  ContentInv(s)' /\ (cloud'[s] = "erased" => Accounted(s)')
  BY <1>1, <1>4, VeleroFrame
<1>5. CASE Crash
  BY <1>1, <1>5 DEF Crash, cluster
<1>6. CASE UNCHANGED vars
  BY <1>1, <1>6 DEF vars
<1> QED BY <1>2, <1>3, <1>4, <1>5, <1>6 DEF Next

-----------------------------------------------------------------------------
(* FinishInv.                                                              *)

\* Handlers keep FinishInv.
LEMMA FinishHandler ==
    ASSUME NEW b \in Backup, NEW s \in Snap, TypeOK, Handler(b, s),
           PhaseInv(b, s), LabelInv(b, s), FinishInv(b, s),
           Own(b, s) => KnowledgeInv(b, s),
           Accounted(s) => Accounted(s)'
    PROVE  FinishInv(b, s)'
<1> DEFINE t == <<b, s>>
<1>0. /\ t \in Task /\ t[1] = b /\ pc \in [Task -> PCs] /\ loc \in [Task -> Locals]
      /\ Protected(s) => Protected(s)'
  BY TaskPair, HandlerContent, ProtectedStable DEF TypeOK
<1> USE <1>0 DEF FinishInv, Goto, ReturnError, Reading, Finishing
<1>1. CASE PVCExecute(b, s)
  BY <1>1 DEF PVCExecute, PVCSkipped, PVCError, PVCSnapshot
<1>2. CASE FetchSnapshot(b, s)
  BY <1>2 DEF FetchSnapshot
<1>3. CASE GetSnapshot(b, s)
  BY <1>3 DEF GetSnapshot
<1>4. CASE GetContent(b, s)
  <2>1. /\ pc[t] = "getvsc" /\ vsc' = vsc
        /\ \/ loc' = loc /\ pc'[t] \in {"poll", "cleanget"}
           \/ /\ loc'[t].content = vsc[s] /\ loc'[t].recreate = loc[t].recreate
              /\ pc'[t] \in {"finpatch", "label", "annotate"}
    BY <1>4 DEF GetContent, cluster, Locals
  <2>2. vsc[s].policy = "Retain" => Protected(s)
    BY DEF Protected
  <2>3. QED BY <2>1, <2>2
<1>5. CASE CleanupGet(b, s)
  BY <1>5 DEF CleanupGet
<1>6. CASE CleanupPatch(b, s)
  BY <1>6 DEF CleanupPatch
<1>7. CASE CleanupDelete(b, s)
  BY <1>7 DEF CleanupDelete
<1>8. CASE LabelContent(b, s)
  BY <1>8 DEF LabelContent
<1>9. CASE AnnotateSnapshot(b, s)
  BY <1>9 DEF AnnotateSnapshot
<1>10. CASE RecordItems(b, s)
  BY <1>10 DEF RecordItems
<1>11. CASE FinalizePatch(b, s)
  <2>1. /\ pc[t] = "finpatch" /\ ~loc[t].recreate
        /\ pc'[t] \in {"findelete", "finalized"}
    BY <1>11 DEF FinalizePatch
  <2>2. CASE ~ModifyVSC(t)
    <3>1. loc' = loc
      BY <1>11, <2>2 DEF FinalizePatch
    <3>2. loc[t].bound /\ loc[t].content.policy \in {"Delete", "Retain"}
      BY <2>1 DEF PhaseInv, KnowledgeInv, Revisited, Locals, ContentObjects, Policies
    <3>3. QED BY <2>1, <2>2, <3>1, <3>2 DEF ModifyVSC
  <2>3. CASE loc' = loc /\ pc'[t] = "finalized"
    BY <2>1, <2>3
  <2>4. CASE /\ PatchPolicy(s, "Retain")
             /\ loc' = [loc EXCEPT ![t] = [@ EXCEPT !.content = vsc'[s], !.recreate = TRUE]]
    <3>1. vsc'[s].policy = "Retain"
      BY <2>4, PatchedPolicy DEF Policies, TypeOK
    <3>2. loc'[t].content = vsc'[s]
      BY <2>4 DEF Locals
    <3>3. Protected(s)'
      BY <3>1 DEF Protected
    <3>4. QED BY <2>1, <3>1, <3>2, <3>3
  <2>5. QED BY <1>11, <2>2, <2>3, <2>4 DEF FinalizePatch, UpdatedContent
<1>12. CASE FinalizeDelete(b, s)
  BY <1>12 DEF FinalizeDelete, RecreateDeferred
<1>13. CASE RecreateDelete(b, s)
  BY <1>13 DEF RecreateDelete
<1>14. CASE RecreateWait(b, s)
  BY <1>14 DEF RecreateWait
<1>15. CASE RecreateCreate(b, s)
  BY <1>15 DEF RecreateCreate
<1>16. CASE DeleteVSPatch(b, s)
  BY <1>16 DEF DeleteVSPatch, Visit, Quiet, Busy
<1>17. CASE DeleteVSDelete(b, s)
  BY <1>17 DEF DeleteVSDelete
<1>18. CASE DeleteVSCPatch(b, s)
  BY <1>18 DEF DeleteVSCPatch, Visit, Quiet, Busy
<1>19. CASE DeleteVSCDelete(b, s)
  BY <1>19 DEF DeleteVSCDelete
<1> QED
  BY <1>1, <1>2, <1>3, <1>4, <1>5, <1>6, <1>7, <1>8, <1>9, <1>10,
     <1>11, <1>12, <1>13, <1>14, <1>15, <1>16, <1>17, <1>18, <1>19 DEF Handler

\* Every step keeps FinishInv, also those of other tasks on the same snapshot.
LEMMA FinishStep ==
    ASSUME SafetyInv, [Next]_vars
    PROVE  \A b \in Backup, s \in Snap : FinishInv(b, s)'
<1> SUFFICES ASSUME NEW b \in Backup, NEW s \in Snap PROVE FinishInv(b, s)'
  OBVIOUS
<1> DEFINE t == <<b, s>>
<1>0. /\ TypeOK /\ FinishInv(b, s) /\ PhaseInv(b, s) /\ ContentInv(s)
      /\ Own(b, s) => KnowledgeInv(b, s)
      /\ Accounted(s) => Accounted(s)'
      /\ t \in Task
  BY AccountedStable, TaskPair DEF SafetyInv
\* Another actor moves, and what is protected stays so.
<1>1. ASSUME pc'[t] = pc[t], loc'[t] = loc[t],
             pc[t] \in Finishing => (Protected(s) => Protected(s)')
      PROVE  FinishInv(b, s)'
  BY <1>0, <1>1 DEF FinishInv, Finishing
<1>2. ASSUME vsc'[s] = vsc[s] PROVE Protected(s) => Protected(s)'
  BY <1>0, <1>2 DEF Protected
<1>3. ASSUME NEW x \in Snap, Controller(x) PROVE FinishInv(b, s)'
  <2>1. CASE x = s
    <3>1. pc[t] \in Finishing => cloud[s] # "none"
      BY <1>0 DEF PhaseInv, KnowledgeInv
    <3>2. pc[t] \in Finishing => (Protected(s) => Protected(s)')
      BY <1>0, <1>3, <2>1, <3>1, ControllerContent DEF Protected
    <3>3. QED BY <1>0, <1>1, <1>3, <3>2, ControllerFrame
  <2>2. CASE x # s
    BY <1>0, <1>1, <1>2, <1>3, <2>2, ControllerFrame
  <2>3. QED BY <2>1, <2>2
<1>4. ASSUME NEW c \in Backup, NEW x \in Snap, Handler(c, x) PROVE FinishInv(b, s)'
  <2>1. CASE c = b /\ x = s
    BY <1>0, <1>4, <2>1, FinishHandler DEF SafetyInv
  <2>2. CASE c # b /\ x = s
    <3>1. PhaseInv(c, s) /\ LabelInv(c, s) /\ FinishInv(c, s)
      BY DEF SafetyInv
    <3>2. Protected(s) => Protected(s)'
      BY <1>0, <1>4, <2>2, <3>1, HandlerContent, ProtectedStable
    <3>3. QED BY <1>0, <1>1, <1>4, <2>2, <3>2, HandlerFrame, OtherTask DEF HandlerKeeps
  <2>3. CASE x # s
    BY <1>0, <1>1, <1>2, <1>4, <2>3, HandlerFrame, OtherTask DEF HandlerKeeps
  <2>4. QED BY <2>1, <2>2, <2>3
<1>5. ASSUME NEW c \in Backup, Velero(c) \/ RequestDelete(c) PROVE FinishInv(b, s)'
  <2>1. CASE CompleteBackup(c) /\ c = b
    <3>1. pc' = pc /\ pc[t] \notin Reading \cup Finishing
      BY <1>0, <1>5, <2>1, VeleroFrame DEF CompleteBackup, Quiet, Busy
    <3>2. QED BY <3>1 DEF FinishInv, Finishing
  <2>2. CASE ~(CompleteBackup(c) /\ c = b)
    <3>1. loc'[t] = loc[t]
      <4>1. CASE c # b
        BY <1>0, <1>5, <4>1, OtherBackup
      <4>2. CASE ~CompleteBackup(c)
        BY <1>5, <4>2 DEF Velero, StartBackup, EndInProgress, StartFinalize, FinishDelete,
           RequestDelete
      <4>3. QED BY <2>2, <4>1, <4>2
    <3>2. QED BY <1>0, <1>1, <1>2, <1>5, <3>1, VeleroFrame
  <2>3. QED BY <2>1, <2>2
<1>6. CASE Crash
  <2>1. pc'[t] = Restarted(t) /\ t[1] = b
    BY <1>0, <1>6 DEF Crash
  <2>2. pc'[t] \notin Reading \cup Finishing
    BY <1>0, <2>1 DEF Restarted, Interrupted, PhaseInv, Busy, Reading, Finishing
  <2>3. QED BY <2>2 DEF FinishInv, Finishing
<1>7. CASE UNCHANGED vars
  BY <1>1, <1>2, <1>7 DEF vars
<1> QED BY <1>3, <1>4, <1>5, <1>6, <1>7 DEF Next

-----------------------------------------------------------------------------
(* The theorems.                                                           *)

\* The initial state satisfies the invariant.
LEMMA InitSafety == Init => SafetyInv
<1> SUFFICES ASSUME Init PROVE SafetyInv
  OBVIOUS
<1>1. TypeOK
  BY InitType
<1>2. ASSUME NEW b \in Backup, NEW s \in Snap
      PROVE  /\ pc[<<b, s>>] = "idle" /\ phase[b] = "new" /\ cloud[s] = "none"
             /\ loc[<<b, s>>] = NoLocal /\ rec[<<b, s>>] = NoRecord /\ vsc[s] = NoContent
  BY TaskPair DEF Init, ClusterInit
<1>3. ASSUME NEW b \in Backup, NEW s \in Snap PROVE PhaseInv(b, s)
  BY <1>2 DEF PhaseInv, Saving, Reading, Cleaning, Finishing, Deleting
<1>4. ASSUME NEW b \in Backup, NEW s \in Snap PROVE LabelInv(b, s)
  BY <1>2 DEF LabelInv, NoContent, NoLocal, NoRecord
<1>5. ASSUME NEW b \in Backup, NEW s \in Snap PROVE KnowledgeInv(b, s)
  BY <1>2 DEF KnowledgeInv, Revisited, Saving, Reading, Finishing, NoRecord
<1>6. ASSUME NEW b \in Backup, NEW s \in Snap PROVE FinishInv(b, s)
  BY <1>2 DEF FinishInv, Reading, Finishing
<1>7. ASSUME NEW s \in Snap PROVE ContentInv(s)
  BY DEF Init, ClusterInit, ContentInv, NoContent, NoSnapshot, Protected
<1>8. NoSilentLoss
  BY DEF Init, ClusterInit, NoSilentLoss
<1> QED BY <1>1, <1>3, <1>4, <1>5, <1>6, <1>7, <1>8 DEF SafetyInv

\* The invariant is inductive.
LEMMA SafetyStep == SafetyInv /\ [Next]_vars => SafetyInv'
<1> SUFFICES ASSUME SafetyInv, [Next]_vars PROVE SafetyInv'
  OBVIOUS
<1>1. TypeOK'
  BY NextType DEF SafetyInv
<1>2. \A b \in Backup, s \in Snap : PhaseInv(b, s)'
  BY PhaseStep DEF SafetyInv
<1>3. \A b \in Backup, s \in Snap : LabelInv(b, s)'
  BY LabelStep DEF SafetyInv
<1>4. \A b \in Backup, s \in Snap : Own(b, s) => KnowledgeInv(b, s)'
  BY KnowledgeStep DEF SafetyInv
<1>5. \A b \in Backup, s \in Snap : FinishInv(b, s)'
  BY FinishStep
<1>6. (\A s \in Snap : ContentInv(s)') /\ NoSilentLoss'
  BY ContentStep DEF SafetyInv
<1>7. \A b \in Backup, s \in Snap : Own(b, s)' <=> Own(b, s)
  BY DEF Own
<1> QED BY <1>1, <1>2, <1>3, <1>4, <1>5, <1>6, <1>7 DEF SafetyInv

\* The conjunction of the invariants of the parts is inductive: for any number
\* of backups, snapshots, controllers' delays, failing calls and restarts.
THEOREM SafetyInvariant == Spec => []SafetyInv
  BY InitSafety, SafetyStep, PTL DEF Spec

\* A snapshot leaves the storage provider only when its backup is being
\* deleted, or when a handler that worked on it returned an error, is about to,
\* or was cut off by a restart (CleanupVolumeSnapshot, DeleteVolumeSnapshot,
\* recreateVolumeSnapshotContent and the delete item actions).
THEOREM NoSilentLossHolds == Spec => []NoSilentLoss
<1>1. SafetyInv => NoSilentLoss
  BY DEF SafetyInv
<1> QED BY <1>1, SafetyInvariant, PTL

\* What a backup's tarball says of its own snapshots carries the snapshot
\* handle that restore reads, also after the Finalizing phase wrote it anew.
THEOREM HandlesRecorded == Spec => []RecordedHasHandle
<1>1. SafetyInv => RecordedHasHandle
  BY DEF SafetyInv, RecordedHasHandle, KnowledgeInv
<1> QED BY <1>1, SafetyInvariant, PTL

-----------------------------------------------------------------------------
(* The refinement of the ledger.                                           *)

\* The initial state is the ledger's.
LEMMA LedgerInit == Init => Ledger!Init
<1> SUFFICES ASSUME Init PROVE Ledger!Init
  OBVIOUS
<1>1. ListedSnaps = {}
  BY TaskPair DEF Init, ListedSnaps, NoRecord
<1>2. ASSUME NEW s \in Snap PROVE ~Accounted(s)
  BY TaskPair, BackupAssumption, OwnerAssumption
  DEF Init, Accounted, Troubled, Cleaning
<1>3. DueSnaps = {}
  BY <1>2 DEF DueSnaps
<1> QED BY <1>1, <1>3 DEF Ledger!Init, Init, ClusterInit

\* Nothing is due that was not, when no handler fails and no backup moves.
LEMMA DueKept ==
    ASSUME phase' = phase, reported' = reported, killed' = killed,
           \A b \in Backup, s \in Snap :
               pc'[<<b, s>>] \in Cleaning <=> pc[<<b, s>>] \in Cleaning
    PROVE  DueSnaps' = DueSnaps
  BY DEF DueSnaps, Accounted, Troubled

\* Steps that record nothing keep the list.
LEMMA ListKept ==
    ASSUME \A b \in Backup, s \in Snap : rec'[<<b, s>>].vs = rec[<<b, s>>].vs
    PROVE  ListedSnaps' = ListedSnaps
  BY DEF ListedSnaps, Own

\* What is due stays due, so a step that touches nothing else settles.
LEMMA SettleStep ==
    ASSUME SafetyInv, [Next]_vars, cloud' = cloud,
           ListedSnaps' \subseteq ListedSnaps,
           ListedSnaps \ ListedSnaps' \subseteq DueSnaps'
    PROVE  Ledger!Settle
<1>1. ASSUME NEW s \in Snap, Accounted(s) PROVE Accounted(s)'
  BY <1>1, AccountedStable DEF SafetyInv
<1>2. DueSnaps \subseteq DueSnaps' /\ DueSnaps' \subseteq Snap
  BY <1>1 DEF DueSnaps
<1> QED BY <1>2 DEF Ledger!Settle

\* A controller takes a snapshot, erases one that is due, or stutters.
LEMMA LedgerController ==
    ASSUME NEW s \in Snap, SafetyInv, Controller(s)
    PROVE  Ledger!Take(s) \/ Ledger!Erase(s) \/ UNCHANGED Ledger!ledger
<1>1. ListedSnaps' = ListedSnaps /\ DueSnaps' = DueSnaps
  BY ControllerFrame, ListKept, DueKept DEF SafetyInv
<1>2. cloud \in [Snap -> {"none", "stored", "erased"}] /\ ContentInv(s)
  BY DEF SafetyInv, TypeOK, ClusterTypeOK
<1>3. CASE TakeSnapshot(s)
  <2>1. cloud' = [cloud EXCEPT ![s] = "stored"] /\ cloud[s] \in {"none", "stored"}
    BY <1>2, <1>3 DEF TakeSnapshot, ContentInv
  <2>2. CASE cloud[s] = "none"
    BY <1>1, <2>1, <2>2 DEF Ledger!Take
  <2>3. CASE cloud[s] = "stored"
    BY <1>1, <1>2, <2>1, <2>3 DEF Ledger!ledger
  <2>4. QED BY <2>1, <2>2, <2>3
<1>4. CASE FinishContentDelete(s)
  <2>1. CASE cloud[s] = "stored" /\ vsc[s].policy = "Delete"
    <3>1. s \in DueSnaps
      BY <1>2, <1>4, <2>1 DEF FinishContentDelete, ContentInv, Protected, DueSnaps
    <3>2. cloud' = [cloud EXCEPT ![s] = "erased"]
      BY <1>4, <2>1 DEF FinishContentDelete
    <3>3. QED BY <1>1, <2>1, <3>1, <3>2 DEF Ledger!Erase
  <2>2. CASE ~(cloud[s] = "stored" /\ vsc[s].policy = "Delete")
    BY <1>1, <1>2, <1>4, <2>2 DEF FinishContentDelete, Ledger!ledger
  <2>3. QED BY <2>1, <2>2
<1>5. CASE cloud' = cloud
  BY <1>1, <1>5 DEF Ledger!ledger
<1> QED
  BY <1>3, <1>4, <1>5
  DEF Controller, Csi, CreateContent, BindSnapshot, FinishSnapshotDelete

\* A handler lists a snapshot, settles, or stutters.
LEMMA LedgerHandler ==
    ASSUME NEW b \in Backup, NEW s \in Snap, SafetyInv, Handler(b, s)
    PROVE  Ledger!List(s) \/ Ledger!Settle \/ UNCHANGED Ledger!ledger
<1> DEFINE t == <<b, s>>
<1>0. /\ TypeOK /\ [Next]_vars /\ t \in Task /\ cloud' = cloud
      /\ pc \in [Task -> PCs] /\ rec \in [Task -> Records]
  BY TaskPair, HandlerCloud DEF SafetyInv, TypeOK, Next
<1>1. CASE rec' = rec
  <2>1. ListedSnaps' = ListedSnaps
    BY <1>1, ListKept
  <2>2. QED BY <1>0, <2>1, SettleStep
<1>2. CASE RecordItems(b, s)
  <2>1. /\ pc[t] = "attach" /\ pc'[t] \in {"recorded", "done"}
        /\ phase' = phase /\ reported' = reported /\ killed' = killed
        /\ rec'[t].vs /\ \A x \in Task \ {t} : rec'[x] = rec[x] /\ pc'[x] = pc[x]
    BY <1>0, <1>2 DEF RecordItems, Goto, history
  <2>2. DueSnaps' = DueSnaps
    <3>1. \A c \in Backup, x \in Snap :
             pc'[<<c, x>>] \in Cleaning <=> pc[<<c, x>>] \in Cleaning
      BY <2>1, TaskPair DEF Cleaning
    <3>2. QED BY <2>1, <3>1, DueKept
  <2>3. CASE Own(b, s)
    <3>1. cloud[s] # "none"
      BY <2>1, <2>3 DEF SafetyInv, KnowledgeInv, Saving
    <3>2. s \in ListedSnaps'
      BY <2>1, <2>3 DEF ListedSnaps, Own
    <3>3. ASSUME NEW x \in Snap, x # s PROVE x \in ListedSnaps' <=> x \in ListedSnaps
      <4>1. \A c \in Backup : rec'[<<c, x>>] = rec[<<c, x>>]
        BY <2>1, <3>3, OtherTask
      <4>2. QED BY <4>1 DEF ListedSnaps, Own
    <3>4. ListedSnaps' = ListedSnaps \cup {s}
      BY <3>2, <3>3 DEF ListedSnaps
    <3>5. QED BY <1>0, <2>2, <3>1, <3>4 DEF Ledger!List
  <2>4. CASE ~Own(b, s)
    <3>1. ListedSnaps' = ListedSnaps
      <4>1. ASSUME NEW c \in Backup, NEW x \in Snap, Own(c, x)
            PROVE  rec'[<<c, x>>].vs = rec[<<c, x>>].vs
        BY <2>1, <2>4, <4>1, OtherTask
      <4>2. QED BY <4>1 DEF ListedSnaps, Own
    <3>2. QED BY <1>0, <2>2, <3>1 DEF Ledger!ledger
  <2>5. QED BY <2>3, <2>4
<1> QED BY <1>1, <1>2, WritersOfRec

\* A step of Velero's settles: the list stays, more may be due.
LEMMA LedgerVelero ==
    ASSUME NEW b \in Backup, SafetyInv, Velero(b) \/ RequestDelete(b)
    PROVE  Ledger!Settle
<1>0. TypeOK /\ [Next]_vars /\ cloud' = cloud /\ rec \in [Task -> Records]
  BY VeleroFrame DEF SafetyInv, TypeOK, Next
<1>1. ASSUME NEW c \in Backup, NEW s \in Snap PROVE rec'[<<c, s>>].vs = rec[<<c, s>>].vs
  <2>1. CASE CompleteBackup(b)
    <3>1. rec'[<<c, s>>] \in {rec[<<c, s>>], Updated(<<c, s>>)}
      BY <2>1, TaskPair DEF CompleteBackup
    <3>2. QED BY <1>0, <3>1, TaskPair DEF Updated, Records
  <2>2. CASE rec' = rec
    BY <2>2
  <2>3. QED
    BY <2>1, <2>2 DEF Velero, StartBackup, EndInProgress, StartFinalize, FinishDelete,
       RequestDelete
<1>2. ListedSnaps' = ListedSnaps
  BY <1>1, ListKept
<1> QED BY <1>0, <1>2, SettleStep

\* A restart settles: what it strikes from the list is due from then on.
LEMMA LedgerCrash ==
    ASSUME SafetyInv, Crash PROVE Ledger!Settle
<1>0. TypeOK /\ [Next]_vars /\ cloud' = cloud
  BY DEF SafetyInv, Next, Crash, cluster
<1>1. ASSUME NEW b \in Backup, NEW s \in Snap
      PROVE  rec'[<<b, s>>] = IF phase[b] = "inprogress" THEN NoRecord ELSE rec[<<b, s>>]
  BY TaskPair DEF Crash
<1>2. ASSUME NEW s \in ListedSnaps' PROVE s \in ListedSnaps
  <2>1. s \in Snap
    BY DEF ListedSnaps
  <2>2. PICK b \in Backup : Own(b, s) /\ rec'[<<b, s>>].vs
    BY DEF ListedSnaps, Own
  <2>3. rec[<<b, s>>].vs
    BY <1>1, <2>1, <2>2 DEF NoRecord
  <2>4. QED BY <2>1, <2>2, <2>3 DEF ListedSnaps
<1>3. ASSUME NEW s \in ListedSnaps \ ListedSnaps' PROVE s \in DueSnaps'
  <2>1. s \in Snap
    BY DEF ListedSnaps
  <2>2. PICK b \in Backup : Own(b, s) /\ rec[<<b, s>>].vs
    BY DEF ListedSnaps
  <2>3. phase[b] = "inprogress"
    BY <1>1, <2>1, <2>2 DEF ListedSnaps, Own
  <2>4. pc[<<b, s>>] = "recorded"
    BY <2>1, <2>2, <2>3 DEF SafetyInv, KnowledgeInv
  <2>5. <<b, s>> \in killed'
    BY <2>1, <2>3, <2>4, TaskPair DEF Crash, Interrupted
  <2>6. QED BY <2>1, <2>5 DEF DueSnaps, Accounted, Troubled
<1> QED BY <1>0, <1>2, <1>3, SettleStep

\* Every step is one of the ledger's or a stutter.
LEMMA LedgerStep == SafetyInv /\ [Next]_vars => [Ledger!Next]_(Ledger!ledger)
<1> SUFFICES ASSUME SafetyInv, [Next]_vars PROVE Ledger!Next \/ UNCHANGED Ledger!ledger
  OBVIOUS
<1> USE DEF Ledger!Next
<1>1. ASSUME NEW s \in Snap, Controller(s) PROVE Ledger!Next \/ UNCHANGED Ledger!ledger
  BY <1>1, LedgerController
<1>2. ASSUME NEW b \in Backup, NEW s \in Snap, Handler(b, s)
      PROVE  Ledger!Next \/ UNCHANGED Ledger!ledger
  BY <1>2, LedgerHandler
<1>3. ASSUME NEW b \in Backup, Velero(b) \/ RequestDelete(b) PROVE Ledger!Next
  BY <1>3, LedgerVelero
<1>4. CASE Crash
  BY <1>4, LedgerCrash
<1>5. CASE UNCHANGED vars
  <2>1. ListedSnaps' = ListedSnaps /\ DueSnaps' = DueSnaps
    BY <1>5, ListKept, DueKept DEF vars
  <2>2. QED BY <1>5, <2>1 DEF vars, Ledger!ledger
<1> QED BY <1>1, <1>2, <1>3, <1>4, <1>5 DEF Next

\* The plugin implements the ledger: each snapshot is taken at most once, is
\* listed only when taken, and is erased or struck from the list only when due.
THEOREM ImplementsLedger == Spec => LedgerKept
  BY LedgerInit, LedgerStep, SafetyInvariant, PTL DEF Spec, Ledger!Spec, LedgerKept
=============================================================================
