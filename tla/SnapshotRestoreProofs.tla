----------------------- MODULE SnapshotRestoreProofs -----------------------
(***************************************************************************)
(* Proofs about SnapshotRestore, for any number of restores and failures,  *)
(* any namespaces and tarballs.                                            *)
(***************************************************************************)
EXTENDS SnapshotRestore, TLAPS

USE DEF NoRestore

-----------------------------------------------------------------------------
(* Facts about the constants and the records.                              *)

\* The pairs of names the model keeps apart.
LEMMA Names ==
    /\ Restore \subseteq Content /\ Original \in Content
    /\ \A r \in Restore : r # Original /\ r # FromPVC /\ r # NoRestore
    /\ Home \in Namespace
  BY RestoreAssumption, NamespaceAssumption DEF Content, Restore

\* The idle job is a job.
LEMMA IdleJob ==
    ASSUME item \in Items
    PROVE  [restore |-> NoRestore, ns |-> Home, pvs |-> FALSE, incl |-> {},
            vs |-> FromPVC, pvc |-> "asis", size |-> item.request] \in Jobs
  BY Names DEF Jobs, Items, Sources

\* The size a PVC asks for is one of the two sizes on record.
LEMMA RequestSizeType == ASSUME item \in Items PROVE RequestSize \in Size
<1>1. item.request \in Size /\ item.size \in Size \cup {0}
  BY DEF Items
<1>2. item.request \in Nat
  BY <1>1, SizeAssumption
<1> QED BY <1>1, <1>2, SizeAssumption DEF RequestSize

\* The size a PVC asks for is enough for the snapshot.
LEMMA RequestSizeBound == ASSUME item \in Items PROVE RequestSize >= item.size
<1>1. item.request \in Size /\ item.size \in Size \cup {0}
  BY DEF Items
<1>2. \A n \in Size \cup {0} : n \in Nat
  BY SizeAssumption
<1>3. item.request \in Nat /\ item.size \in Nat
  BY <1>1, <1>2
<1> QED BY <1>3 DEF RequestSize

\* The content of the tarball, and none.
LEMMA KeptContent ==
    [NoVSC EXCEPT !.st = "live"] \in VSCObjects /\ NoVSC \in VSCObjects
  BY DEF NoVSC, VSCObjects, ObjectStates

\* The initial state satisfies the invariant.
LEMMA InitRestore == Init => RestoreInv
<1> SUFFICES ASSUME Init PROVE RestoreInv
  OBVIOUS
<1>1. item \in Items
  BY TarballAssumption DEF Init
<1>2. PICK here \in BOOLEAN :
        vsc = [c \in Content |->
                 IF c = Original /\ here /\ item.vs = "handle"
                 THEN [NoVSC EXCEPT !.st = "live"]
                 ELSE NoVSC]
        /\ secrets = IF here THEN item.secrets ELSE {}
  BY DEF Init
<1>3. [NoVSC EXCEPT !.st = "live"] \in VSCObjects
      /\ NoVSC \in VSCObjects
  BY KeptContent
<1>4. /\ vsc \in [Content -> VSCObjects]
      /\ \A c \in Content : vsc[c].policy = "Retain"
      /\ \A r \in Restore : vsc[r].st = "absent"
  BY <1>2, <1>3, Names DEF NoVSC
<1>5. TypeOK
  <2>1. vs \in [Namespace -> VSObjects]
    BY DEF Init, NoVS, VSObjects, ObjectStates
  <2>2. pvc \in [Namespace -> PVCObjects]
    BY <1>1 DEF Init, PVCObjects, Sources, Items
  <2>3. secrets \subseteq Secret
    BY <1>1, <1>2 DEF Items
  <2>4. job \in Jobs
    BY <1>1, IdleJob DEF Init
  <2> QED BY <1>1, <1>4, <2>1, <2>2, <2>3, <2>4, TroubleAssumption, RestoreAssumption
          DEF TypeOK, Init, PCs
<1>6. PolicyInv /\ RefInv /\ ContentAccounted
  BY <1>4 DEF PolicyInv, RefInv, ContentAccounted
<1> QED BY <1>5, <1>6
        DEF RestoreInv, Init, SourceInv, JobInv, SnapshotKept, RestoredData,
            DownloadHasTarget, NoVS

-----------------------------------------------------------------------------
(* Types.                                                                  *)

\* What the changes of the objects make of their types.
LEMMA ObjectTypes ==
    ASSUME TypeOK, NEW n \in Namespace, NEW c \in Content, Original \in Content
    PROVE  /\ RemoveVS(n) => vs' \in [Namespace -> VSObjects] /\ removed' \subseteq Namespace
           /\ PatchPolicy(c) => vsc' \in [Content -> VSCObjects]
           /\ [vs EXCEPT ![n].bound = TRUE] \in [Namespace -> VSObjects]
           /\ \A m \in Namespace : StaticContent(m) \in VSCObjects
           /\ NoVS \in VSObjects
<1>1. RemoveVS(n) => vs' \in [Namespace -> VSObjects] /\ removed' \subseteq Namespace
  BY DEF TypeOK, RemoveVS, VSObjects, ObjectStates
<1>2. PatchPolicy(c) => vsc' \in [Content -> VSCObjects]
  BY DEF TypeOK, PatchPolicy, VSCObjects
<1>3. [vs EXCEPT ![n].bound = TRUE] \in [Namespace -> VSObjects]
  BY DEF TypeOK, VSObjects
<1>4. \A m \in Namespace : StaticContent(m) \in VSCObjects
  BY DEF VSCObjects, ObjectStates, StaticContent
<1>5. NoVS \in VSObjects
  BY DEF VSObjects, ObjectStates, NoVS
<1> QED BY <1>1, <1>2, <1>3, <1>4, <1>5

\* Spending keeps the type of the budget.
LEMMA SpendType ==
    ASSUME TypeOK, NEW k \in Trouble, Spend(k)
    PROVE  budget' \in [Trouble -> Nat]
  BY DEF TypeOK, Spend

\* A step of the restore in progress keeps the types.
LEMMA RestoreTypes == TypeOK /\ (RestoreStep \/ Crash) => TypeOK'
<1> SUFFICES ASSUME TypeOK, RestoreStep \/ Crash PROVE TypeOK'
  OBVIOUS
<1>1. pc # "idle" /\ job.restore \in Restore /\ job \in Jobs /\ job.ns \in Namespace
  BY DEF TypeOK, RestoreStep, RestoreClass, RestoreContent, SkipVS, CheckVS, CreateContent,
         ApplyVS, CheckPVC, GetBackup, StartDownload, GetVS, ApplyPVC, Crash, Jobs
<1>2. Tell => told' \subseteq Restore
  BY <1>1 DEF TypeOK, Tell
<1>3. End => pc' \in PCs /\ job' \in Jobs /\ (pc' = "idle" <=> job'.restore = NoRestore)
  BY IdleJob DEF TypeOK, End, Goto, PCs
<1>4. Fails => budget' \in [Trouble -> Nat]
  BY SpendType DEF Fails, Trouble
<1>5. ASSUME NEW source \in Sources, NEW size \in Size, Plan(source, size)
      PROVE  job' \in Jobs /\ job'.restore = job.restore
  BY <1>1, <1>5 DEF Plan, Jobs
<1>6. item.request \in Size /\ RequestSize \in Size
  BY RequestSizeType DEF TypeOK, Items
<1>7. CASE RestoreClass
  <2>1. secrets' \subseteq Secret
    BY <1>7 DEF TypeOK, RestoreClass, RestoreSecrets, SavedSecrets, Secret
  <2> QED BY <1>1, <1>7, <2>1 DEF TypeOK, RestoreClass, Goto, PCs, deletion, history
<1>8. CASE RestoreContent
  <2>1. vsc' \in [Content -> VSCObjects]
    BY <1>8, KeptContent DEF TypeOK, RestoreContent
  <2>2. secrets' \subseteq Secret
    BY <1>8 DEF TypeOK, RestoreContent, RestoreSecrets, NamedByContent
  <2> QED BY <1>1, <1>8, <2>1, <2>2 DEF TypeOK, RestoreContent, Goto, PCs, deletion, history
<1>9. CASE SkipVS
  BY <1>9 DEF TypeOK, SkipVS, Goto, PCs, objects, deletion, history
<1>10. CASE CheckVS
  BY <1>2, <1>4, <1>10 DEF TypeOK, CheckVS, Found, Missed, Goto, PCs, objects, deletion,
                           history, Silent
<1>11. CASE CreateContent
  <2>1. vsc' \in [Content -> VSCObjects]
    BY <1>1, <1>11, ObjectTypes, Names DEF TypeOK, CreateContent
  <2>2. job' \in Jobs /\ job'.restore = job.restore
    BY <1>1, <1>11 DEF CreateContent, Jobs
  <2>3. pc' \in {"applyvs", "pvc"} /\ told' \subseteq Restore
        /\ budget' \in [Trouble -> Nat]
    BY <1>2, <1>4, <1>11 DEF TypeOK, CreateContent, Goto, Silent
  <2> QED BY <1>1, <1>11, <2>1, <2>2, <2>3 DEF TypeOK, CreateContent, PCs, deletion, history
<1>12. CASE ApplyVS
  <2>1. vs' \in [Namespace -> VSObjects]
    <3>1. [st |-> "live", source |-> job.vs, bound |-> FALSE] \in VSObjects
      BY <1>1 DEF VSObjects, ObjectStates, Jobs
    <3> QED BY <1>1, <1>12, <3>1 DEF TypeOK, ApplyVS
  <2>2. told' \subseteq Restore /\ pc' = "pvc"
    BY <1>2, <1>12 DEF TypeOK, ApplyVS, Goto, Silent
  <2> QED BY <1>1, <1>12, <2>1, <2>2 DEF TypeOK, ApplyVS, PCs, deletion, history
<1>13. CASE CheckPVC
  <2>1. job' \in Jobs /\ job'.restore = job.restore
    BY <1>1, <1>5, <1>6, <1>13 DEF CheckPVC, Sources
  <2>2. pc' \in {"applypvc", "backup"} /\ budget' \in [Trouble -> Nat]
    BY <1>4, <1>13 DEF TypeOK, CheckPVC, Found, Missed, Goto
  <2> QED BY <1>1, <1>13, <2>1, <2>2 DEF TypeOK, CheckPVC, PCs, objects, deletion, history
<1>14. CASE GetBackup
  <2>1. budget' \in [Trouble -> Nat] /\ told' \subseteq Restore
    BY <1>2, <1>4, <1>14 DEF TypeOK, GetBackup, Silent
  <2>2. pc' \in PCs /\ job' \in Jobs /\ (pc' = "idle" <=> job'.restore = NoRestore)
    BY <1>1, <1>3, <1>5, <1>6, <1>14 DEF TypeOK, GetBackup, Goto, PCs, Sources
  <2> QED BY <1>14, <2>1, <2>2 DEF TypeOK, GetBackup, objects, deletion, history
<1>15. CASE StartDownload
  <2>1. budget' \in [Trouble -> Nat] /\ told' \subseteq Restore
    BY <1>2, <1>4, <1>15 DEF TypeOK, StartDownload, NewDownload, Silent
  <2>2. pc' \in PCs /\ job' \in Jobs /\ (pc' = "idle" <=> job'.restore = NoRestore)
    BY <1>1, <1>3, <1>5, <1>6, <1>15 DEF TypeOK, StartDownload, NewDownload, Goto, PCs,
                                         Sources
  <2>3. downloads' \subseteq Restore \X Namespace
    BY <1>1, <1>15 DEF TypeOK, StartDownload, NewDownload
  <2> QED BY <1>15, <2>1, <2>2, <2>3 DEF TypeOK, StartDownload, deletion, history
<1>16. CASE GetVS
  <2>1. budget' \in [Trouble -> Nat] /\ told' \subseteq Restore
    BY <1>2, <1>4, <1>16 DEF TypeOK, GetVS, Silent
  <2>2. pc' \in PCs /\ job' \in Jobs /\ (pc' = "idle" <=> job'.restore = NoRestore)
    BY <1>1, <1>3, <1>5, <1>6, <1>16 DEF TypeOK, GetVS, Goto, PCs, Sources
  <2> QED BY <1>16, <2>1, <2>2 DEF TypeOK, GetVS, objects, deletion, history
<1>17. CASE ApplyPVC
  <2>1. pvc' \in [Namespace -> PVCObjects]
    BY <1>1, <1>17 DEF TypeOK, ApplyPVC, PVCObjects, Jobs
  <2>2. told' \subseteq Restore
    BY <1>2, <1>17 DEF TypeOK, ApplyPVC, Silent
  <2> QED BY <1>3, <1>17, <2>1, <2>2 DEF TypeOK, ApplyPVC, deletion, history
<1>18. CASE Crash
  BY <1>2, <1>3, <1>4, <1>18 DEF TypeOK, Crash, objects, deletion, history
<1> QED BY <1>7, <1>8, <1>9, <1>10, <1>11, <1>12, <1>13, <1>14, <1>15, <1>16, <1>17, <1>18
        DEF RestoreStep

\* The start of a restore keeps the types.
LEMMA StartTypes == ASSUME TypeOK, NEW r \in Restore, StartRestore(r) PROVE TypeOK'
<1>1. Targets[r] \subseteq Namespace /\ Saved \subseteq {"vs", "vsc"}
  BY TargetsAssumption DEF Saved
<1>2. PICK n \in Targets[r], pvs \in BOOLEAN, incl \in SUBSET Saved :
         /\ ~pvs => incl = {}
         /\ job' = [job EXCEPT !.restore = r, !.ns = n, !.pvs = pvs, !.incl = incl]
  BY Zenon DEF StartRestore
<1>3. job' \in Jobs /\ job'.restore = r
  BY <1>1, <1>2 DEF TypeOK, Jobs
<1>4. begun' \in 0..NumRestores /\ r # NoRestore
  BY RestoreAssumption DEF StartRestore, Restore
<1> QED BY <1>3, <1>4 DEF TypeOK, StartRestore, Goto, PCs, objects, deletion, history

\* A step of a controller keeps the types.
LEMMA ControllerTypes == TypeOK /\ ControllerStep => TypeOK'
<1> SUFFICES ASSUME TypeOK, ControllerStep PROVE TypeOK'
  OBVIOUS
<1>1. ASSUME NEW n \in Namespace, Bind(n) PROVE TypeOK'
  <2>1. vs' \in [Namespace -> VSObjects]
    BY <1>1, ObjectTypes, Names DEF Bind
  <2> QED BY <1>1, <2>1 DEF TypeOK, Bind, others, deletion, history
<1>2. ASSUME NEW n \in Namespace, Provision(n) PROVE TypeOK'
  <2>1. pvc' \in [Namespace -> PVCObjects]
    BY <1>2 DEF TypeOK, Provision, PVCObjects
  <2> QED BY <1>2, <2>1 DEF TypeOK, Provision, others, deletion, history
<1>3. ASSUME NEW n \in Namespace, FinishVSDelete(n) PROVE TypeOK'
  <2>1. vs' \in [Namespace -> VSObjects]
    BY <1>3, ObjectTypes, Names DEF TypeOK, FinishVSDelete
  <2>2. ASSUME NEW c \in Content
        PROVE  [vsc[c] EXCEPT !.st = IF @ = "live" THEN "deleting" ELSE @] \in VSCObjects
    BY DEF TypeOK, VSCObjects, ObjectStates
  <2>3. vsc' \in [Content -> VSCObjects]
    BY <1>3, <2>2 DEF TypeOK, FinishVSDelete
  <2> QED BY <1>3, <2>1, <2>3 DEF TypeOK, FinishVSDelete, others, deletion, history
<1>4. ASSUME NEW c \in Content, FinishVSCDelete(c) PROVE TypeOK'
  <2>1. vsc' \in [Content -> VSCObjects]
    BY <1>4, KeptContent DEF TypeOK, FinishVSCDelete
  <2>2. stored' \in BOOLEAN
    BY <1>4 DEF TypeOK, FinishVSCDelete
  <2> QED BY <1>4, <2>1, <2>2 DEF TypeOK, FinishVSCDelete, others, deletion, history
<1> QED BY <1>1, <1>2, <1>3, <1>4 DEF ControllerStep

\* A step of the user, or the cleanup by another backup, keeps the types.
LEMMA OutsideTypes ==
    TypeOK /\ (UserStep \/ \E n \in Namespace : OtherBackupCleans(n)) => TypeOK'
<1> SUFFICES ASSUME TypeOK, UserStep \/ \E n \in Namespace : OtherBackupCleans(n)
             PROVE  TypeOK'
  OBVIOUS
<1>1. \A k \in Trouble : Spend(k) => budget' \in [Trouble -> Nat]
  BY SpendType
<1>2. "user" \in Trouble /\ "fault" \in Trouble
  BY DEF Trouble
<1>3. ASSUME NEW n \in Namespace, UserDeletesVS(n) PROVE TypeOK'
  BY <1>1, <1>2, <1>3, ObjectTypes, Names DEF TypeOK, UserDeletesVS, deletion
<1>4. ASSUME NEW n \in Namespace, UserDeletesPVC(n) PROVE TypeOK'
  <2>1. pvc' \in [Namespace -> PVCObjects]
    BY <1>4 DEF TypeOK, UserDeletesPVC, PVCObjects
  <2> QED BY <1>1, <1>2, <1>4, <2>1 DEF TypeOK, UserDeletesPVC, deletion
<1>5. ASSUME NEW n \in Namespace, UserCreatesPVC(n) PROVE TypeOK'
  <2>1. pvc' \in [Namespace -> PVCObjects]
    BY <1>5 DEF TypeOK, UserCreatesPVC, PVCObjects, Items, Sources
  <2> QED BY <1>1, <1>2, <1>5, <2>1 DEF TypeOK, UserCreatesPVC, deletion, history
<1>6. ASSUME NEW n \in Namespace, OtherBackupCleans(n) PROVE TypeOK'
  <2>1. vs[n].source # FromPVC => vs[n].source \in Content
    BY Names DEF TypeOK, VSObjects
  <2>2. vsc' \in [Content -> VSCObjects]
    BY <1>6, <2>1, ObjectTypes, Names DEF TypeOK, OtherBackupCleans
  <2>3. vs' \in [Namespace -> VSObjects] /\ removed' \subseteq Namespace
    BY <1>6, ObjectTypes, Names DEF OtherBackupCleans
  <2> QED BY <1>1, <1>2, <1>6, <2>2, <2>3 DEF TypeOK, OtherBackupCleans, Fails, deletion
<1> QED BY <1>3, <1>4, <1>5, <1>6 DEF UserStep

\* A step of the deletion of the backup keeps the types.
LEMMA DeletionTypes == TypeOK /\ DeletionStep => TypeOK'
<1> SUFFICES ASSUME TypeOK, DeletionStep PROVE TypeOK'
  OBVIOUS
<1>1. Fails => budget' \in [Trouble -> Nat]
  BY SpendType DEF Fails, Trouble
<1>2. PatchPolicy(Original) => vsc' \in [Content -> VSCObjects]
  BY ObjectTypes, Names
<1>3. CASE RequestDelete
  BY <1>3 DEF TypeOK, RequestDelete, Saved, objects, history
<1>4. CASE DeleteVS
  <2>1. vsc' \in [Content -> VSCObjects]
    BY <1>2, <1>4 DEF TypeOK, DeleteVS
  <2>2. vs' \in [Namespace -> VSObjects] /\ removed' \subseteq Namespace
    BY <1>4, ObjectTypes, Names DEF TypeOK, DeleteVS
  <2>3. todo' \subseteq {"vs", "vsc"} /\ budget' \in [Trouble -> Nat]
    BY <1>1, <1>4 DEF TypeOK, DeleteVS, Visit
  <2> QED BY <1>4, <2>1, <2>2, <2>3 DEF TypeOK, DeleteVS
<1>5. CASE DeleteVSC
  <2>1. [vsc EXCEPT ![Original].policy = "Delete", ![Original].st = "deleting"]
           \in [Content -> VSCObjects]
    BY DEF TypeOK, VSCObjects, ObjectStates
  <2>2. vsc' \in [Content -> VSCObjects]
    BY <1>2, <1>5, <2>1 DEF TypeOK, DeleteVSC, RemoveVSC, PatchPolicy
  <2>3. todo' \subseteq {"vs", "vsc"} /\ budget' \in [Trouble -> Nat]
    BY <1>1, <1>5 DEF TypeOK, DeleteVSC, Visit
  <2> QED BY <1>5, <2>2, <2>3 DEF TypeOK, DeleteVSC, history
<1>6. CASE FinishDelete
  BY <1>6 DEF TypeOK, FinishDelete, objects, history
<1> QED BY <1>3, <1>4, <1>5, <1>6 DEF DeletionStep

\* Every step keeps the types.
LEMMA TypeStep == TypeOK /\ [Next]_vars => TypeOK'
<1>1. TypeOK /\ UNCHANGED vars => TypeOK'
  BY DEF TypeOK, vars, objects, deletion, history
<1> QED BY <1>1, RestoreTypes, StartTypes, ControllerTypes, OutsideTypes, DeletionTypes
        DEF Next

-----------------------------------------------------------------------------
(* The invariant.                                                          *)

\* The content of the tarball protects the snapshot.
LEMMA KeptPolicy == [NoVSC EXCEPT !.st = "live"].policy = "Retain"
  BY DEF NoVSC

\* The parts of the invariant but for the types.
Parts ==
    /\ PolicyInv
    /\ SourceInv
    /\ RefInv
    /\ JobInv
    /\ SnapshotKept
    /\ ContentAccounted
    /\ RestoredData
    /\ DownloadHasTarget

\* They make up the invariant.
LEMMA Unfold == RestoreInv <=> TypeOK /\ Parts
  BY DEF RestoreInv, Parts

\* A step of the restore in progress keeps them.
LEMMA RestoreParts ==
    ASSUME TypeOK, Parts, TypeOK', RestoreStep \/ Crash
    PROVE  Parts'
<1>1. CASE RestoreClass
  BY <1>1, Names
     DEF Parts, TypeOK, PolicyInv, SourceInv, RefInv, JobInv, SnapshotKept,
         ContentAccounted, RestoredData, DownloadHasTarget, RestoreClass, Goto, deletion,
         history
<1>2. CASE RestoreContent
  <2>1. PolicyInv'
    <3> DEFINE kept == [NoVSC EXCEPT !.st = "live"]
    <3>1. kept.policy = "Retain"
      BY KeptPolicy
    <3> HIDE DEF kept
    <3>2. vsc' = [vsc EXCEPT ![Original] = kept] \/ vsc' = vsc
      BY <1>2 DEF RestoreContent, kept
    <3>3. phase' = phase /\ cleaned' = cleaned
      BY <1>2 DEF RestoreContent, deletion, history
    <3> QED BY <3>1, <3>2, <3>3, Names DEF Parts, TypeOK, PolicyInv
  <2>2. RefInv'
    BY <1>2, Names DEF Parts, TypeOK, RefInv, RestoreContent, Goto, NoVSC, deletion, history
  <2>3. SourceInv' /\ JobInv' /\ SnapshotKept' /\ ContentAccounted'
        /\ RestoredData' /\ DownloadHasTarget'
    BY <1>2, Names
       DEF Parts, TypeOK, SourceInv, JobInv, SnapshotKept, ContentAccounted, RestoredData,
           DownloadHasTarget, RestoreContent, Goto, NoVSC, deletion, history
  <2> QED BY <2>1, <2>2, <2>3 DEF Parts
<1>3. CASE SkipVS
  BY <1>3, Names
     DEF Parts, TypeOK, PolicyInv, SourceInv, RefInv, JobInv, SnapshotKept,
         ContentAccounted, RestoredData, DownloadHasTarget, SkipVS, Goto, objects,
         deletion, history
<1>4. CASE CheckVS
  <2>1. JobInv'
    BY <1>4, Names
       DEF Parts, TypeOK, JobInv, CheckVS, Found, Missed, Goto, Silent, Tell, Jobs,
           objects, deletion, history
  <2>2. PolicyInv' /\ SourceInv' /\ RefInv' /\ SnapshotKept'
        /\ ContentAccounted' /\ RestoredData' /\ DownloadHasTarget'
    BY <1>4, Names
       DEF Parts, TypeOK, PolicyInv, SourceInv, RefInv, SnapshotKept, ContentAccounted,
           RestoredData, DownloadHasTarget, CheckVS, Found, Missed, Goto, Silent, Tell,
           Jobs, objects, deletion, history
  <2> QED BY <2>1, <2>2 DEF Parts
<1>5. CASE CreateContent
  <2>1. PolicyInv'
    BY <1>5, Names
       DEF Parts, TypeOK, PolicyInv, CreateContent, Goto, StaticContent, Silent, Tell,
           Jobs, deletion, history
  <2>2. RefInv'
    BY <1>5, Names
       DEF Parts, TypeOK, RefInv, CreateContent, Goto, StaticContent, Silent, Tell, Jobs,
           deletion, history
  <2>3. JobInv'
    BY <1>5, Names
       DEF Parts, TypeOK, JobInv, CreateContent, Goto, StaticContent, Silent, Tell, Jobs,
           deletion, history
  <2>4. ContentAccounted'
    BY <1>5, Names
       DEF Parts, TypeOK, RefInv, ContentAccounted, CreateContent, Goto, StaticContent,
           Silent, Tell, Jobs, deletion, history
  <2>5. SourceInv' /\ SnapshotKept' /\ RestoredData' /\ DownloadHasTarget'
    BY <1>5, Names
       DEF Parts, TypeOK, SourceInv, SnapshotKept, RestoredData, DownloadHasTarget,
           CreateContent, Goto, StaticContent, Silent, Tell, Jobs, deletion, history
  <2> QED BY <2>1, <2>2, <2>3, <2>4, <2>5 DEF Parts
<1>6. CASE ApplyVS
  <2>1. SourceInv'
    BY <1>6, Names
       DEF Parts, TypeOK, SourceInv, ApplyVS, Goto, Silent, Tell, Jobs, deletion, history
  <2>2. RefInv'
    BY <1>6, Names
       DEF Parts, TypeOK, RefInv, ApplyVS, Goto, Silent, Tell, Jobs, deletion, history
  <2>3. ContentAccounted'
    <3>1. vsc' = vsc /\ removed' = removed /\ told \subseteq told'
      BY <1>6 DEF ApplyVS, Silent, Tell, history
    <3>2. ASSUME NEW r \in Restore, vsc[r].st = "live", ~(job.restore = r /\ job.vs = r),
                 vs[vsc[r].ref].st # "absent" /\ vs[vsc[r].ref].source = r
          PROVE  vs'[vsc[r].ref] = vs[vsc[r].ref]
      BY <1>6, <3>2 DEF Parts, TypeOK, RefInv, ApplyVS, Jobs
    <3>3. ASSUME NEW r \in Restore, vsc[r].st = "live", job.restore = r /\ job.vs = r
          PROVE  \/ vs'[vsc[r].ref].st # "absent" /\ vs'[vsc[r].ref].source = r
                 \/ r \in told'
      <4>1. vsc[r].ref = job.ns /\ pc = "applyvs"
        BY <1>6, <3>3, Names DEF Parts, JobInv, ApplyVS
      <4>2. CASE vs' = [vs EXCEPT ![job.ns] = [st |-> "live", source |-> job.vs, bound |-> FALSE]]
        BY <4>1, <4>2, <3>3 DEF TypeOK, Jobs
      <4>3. CASE Tell
        BY <4>3, <3>3 DEF Tell
      <4> QED BY <1>6, <4>2, <4>3 DEF ApplyVS
    <3> QED BY <3>1, <3>2, <3>3 DEF Parts, ContentAccounted
  <2>4. PolicyInv' /\ JobInv' /\ SnapshotKept' /\ RestoredData' /\ DownloadHasTarget'
    BY <1>6, Names
       DEF Parts, TypeOK, PolicyInv, JobInv, SnapshotKept, RestoredData, DownloadHasTarget,
           ApplyVS, Goto, Silent, Tell, Jobs, deletion, history
  <2> QED BY <2>1, <2>2, <2>3, <2>4 DEF Parts
<1>7. CASE CheckPVC
  BY <1>7, Names
     DEF Parts, TypeOK, PolicyInv, SourceInv, RefInv, JobInv, SnapshotKept,
         ContentAccounted, RestoredData, DownloadHasTarget, CheckPVC, Found, Missed, Goto,
         Plan, Jobs, objects, deletion, history
<1>8. CASE GetBackup
  BY <1>8, Names
     DEF Parts, TypeOK, PolicyInv, SourceInv, RefInv, JobInv, SnapshotKept,
         ContentAccounted, RestoredData, DownloadHasTarget, GetBackup, Goto, Plan, End,
         Silent, Tell, objects, deletion, history
<1>9. CASE StartDownload
  <2>1. DownloadHasTarget'
    <3>1. pvc' = pvc /\ touched' = touched
      BY <1>9 DEF StartDownload, history
    <3>2. \/ /\ downloads' = downloads \cup {<<job.restore, job.ns>>}
             /\ pc' = "applypvc" /\ told' = told
             /\ job'.restore = job.restore /\ job'.ns = job.ns /\ job'.pvc = "download"
          \/ /\ downloads' \subseteq downloads \cup {<<job.restore, job.ns>>}
             /\ told' = told \cup {job.restore}
      BY <1>9 DEF StartDownload, NewDownload, Goto, Plan, Silent, Tell, TypeOK, Jobs
    <3>3. pc = "download"
      BY <1>9 DEF StartDownload
    <3>4. ASSUME NEW r \in Restore, NEW n \in Namespace, <<r, n>> \in downloads',
                 <<r, n>> # <<job.restore, job.ns>>
          PROVE  \/ pvc[n].st # "absent" /\ pvc[n].source = "download"
                 \/ r \in told \/ n \in touched
      BY <3>2, <3>3, <3>4 DEF Parts, DownloadHasTarget
    <3> QED BY <3>1, <3>2, <3>4 DEF DownloadHasTarget
  <2>2. PolicyInv' /\ SourceInv' /\ RefInv' /\ JobInv'
        /\ SnapshotKept' /\ ContentAccounted' /\ RestoredData'
    BY <1>9, Names
       DEF Parts, TypeOK, PolicyInv, SourceInv, RefInv, JobInv, SnapshotKept,
           ContentAccounted, RestoredData, StartDownload, NewDownload, Goto, Plan, End,
           Silent, Tell, Jobs, deletion, history
  <2> QED BY <2>1, <2>2 DEF Parts
<1>10. CASE GetVS
  BY <1>10, Names
     DEF Parts, TypeOK, PolicyInv, SourceInv, RefInv, JobInv, SnapshotKept,
         ContentAccounted, RestoredData, DownloadHasTarget, GetVS, Goto, Plan, End, Silent,
         Tell, objects, deletion, history
<1>11. CASE ApplyPVC
  <2>1. RestoredData'
    BY <1>11, Names
       DEF Parts, TypeOK, RestoredData, ApplyPVC, Goto, End, Silent, Tell, Jobs, deletion,
           history
  <2>2. DownloadHasTarget'
    BY <1>11, Names
       DEF Parts, TypeOK, DownloadHasTarget, ApplyPVC, Goto, End, Silent, Tell, Jobs,
           deletion, history
  <2>3. PolicyInv' /\ SourceInv' /\ RefInv' /\ JobInv' /\ SnapshotKept' /\ ContentAccounted'
    BY <1>11, Names
       DEF Parts, TypeOK, PolicyInv, SourceInv, RefInv, JobInv, SnapshotKept,
           ContentAccounted, ApplyPVC, Goto, End, Silent, Tell, Jobs, deletion, history
  <2> QED BY <2>1, <2>2, <2>3 DEF Parts
<1>12. CASE Crash
  BY <1>12, Names
     DEF Parts, TypeOK, PolicyInv, SourceInv, RefInv, JobInv, SnapshotKept,
         ContentAccounted, RestoredData, DownloadHasTarget, Crash, Goto, End, Tell,
         objects, deletion, history
<1> QED BY <1>1, <1>2, <1>3, <1>4, <1>5, <1>6, <1>7, <1>8, <1>9, <1>10, <1>11, <1>12
   DEF RestoreStep

\* A step of a controller keeps them.
LEMMA ControllerParts ==
    ASSUME TypeOK, Parts, TypeOK', ControllerStep
    PROVE  Parts'
<1>1. ASSUME NEW n \in Namespace, Bind(n) PROVE Parts'
  BY <1>1, Names
     DEF Parts, TypeOK, PolicyInv, SourceInv, RefInv, JobInv, SnapshotKept,
         ContentAccounted, RestoredData, DownloadHasTarget, Bind, others, deletion,
         history, VSObjects
<1>2. ASSUME NEW n \in Namespace, Provision(n) PROVE Parts'
  <2>1. RestoredData'
    <3>1. /\ pvc[n].st = "pending" /\ vs' = vs /\ removed' = removed
          /\ \A m \in Namespace : m # n => pvc'[m] = pvc[m]
      BY <1>2 DEF Provision, others, history, TypeOK
    <3>2. CASE /\ pvc[n].source = "vs" /\ vs[n].st = "live"
               /\ pvc' = [pvc EXCEPT ![n].st = "bound",
                              ![n].data = IF vs[n].source = FromPVC THEN "other" ELSE "backup"]
      <4>1. vs[n].source = FromPVC => n \in removed
        BY <3>2 DEF Parts, SourceInv
      <4>2. vs[n].source # FromPVC => pvc'[n].data = "backup"
        BY <3>2 DEF TypeOK, PVCObjects
      <4> QED BY <3>1, <4>1, <4>2 DEF Parts, RestoredData
    <3>3. CASE pvc[n].source # "vs" /\ pvc'[n].source = pvc[n].source
      BY <3>1, <3>3 DEF Parts, RestoredData
    <3>4. pvc[n].source # "vs" => pvc'[n].source = pvc[n].source
      BY <1>2 DEF Provision, TypeOK, PVCObjects
    <3> QED BY <1>2, <3>2, <3>3, <3>4 DEF Provision
  <2>2. DownloadHasTarget'
    BY <1>2, Names
       DEF Parts, TypeOK, DownloadHasTarget, Provision, others, deletion, history,
           PVCObjects
  <2>3. PolicyInv' /\ SourceInv' /\ RefInv' /\ JobInv' /\ SnapshotKept' /\ ContentAccounted'
    BY <1>2, Names
       DEF Parts, TypeOK, PolicyInv, SourceInv, RefInv, JobInv, SnapshotKept,
           ContentAccounted, Provision, others, deletion, history, PVCObjects
  <2> QED BY <2>1, <2>2, <2>3 DEF Parts
<1>3. ASSUME NEW n \in Namespace, FinishVSDelete(n) PROVE Parts'
  <2>1. PolicyInv'
    BY <1>3, Names
       DEF Parts, TypeOK, PolicyInv, FinishVSDelete, NoVS, others, deletion, history,
           VSCObjects, VSObjects, Jobs
  <2>2. SourceInv'
    BY <1>3, Names
       DEF Parts, TypeOK, SourceInv, FinishVSDelete, NoVS, others, deletion, history,
           VSCObjects, VSObjects, Jobs
  <2>3. RefInv'
    BY <1>3, Names
       DEF Parts, TypeOK, RefInv, FinishVSDelete, NoVS, others, deletion, history,
           VSCObjects, VSObjects, Jobs
  <2>4. JobInv'
    BY <1>3, Names
       DEF Parts, TypeOK, JobInv, FinishVSDelete, NoVS, others, deletion, history,
           VSCObjects, VSObjects, Jobs
  <2>5. ContentAccounted'
    <3>1. /\ n \in removed /\ vs' = [vs EXCEPT ![n] = NoVS]
          /\ pc' = pc /\ job' = job /\ told' = told /\ removed' = removed
      BY <1>3 DEF Parts, SourceInv, FinishVSDelete, others, history
    <3>2. \A r \in Restore : vsc'[r].ref = vsc[r].ref /\ (vsc'[r].st = "live" => vsc[r].st = "live")
      BY <1>3, Names DEF FinishVSDelete, TypeOK, VSCObjects, ObjectStates
    <3> QED BY <3>1, <3>2 DEF Parts, TypeOK, RefInv, ContentAccounted
  <2>6. SnapshotKept' /\ RestoredData' /\ DownloadHasTarget'
    BY <1>3, Names
       DEF Parts, TypeOK, SnapshotKept, RestoredData, DownloadHasTarget, FinishVSDelete,
           NoVS, others, deletion, history, VSCObjects, VSObjects, Jobs
  <2> QED BY <2>1, <2>2, <2>3, <2>4, <2>5, <2>6 DEF Parts
<1>4. ASSUME NEW c \in Content, FinishVSCDelete(c) PROVE Parts'
  <2>1. PolicyInv'
    BY <1>4, Names
       DEF Parts, TypeOK, PolicyInv, FinishVSCDelete, NoVSC, others, deletion, history,
           Jobs, VSCObjects
  <2>2. RefInv'
    BY <1>4, Names
       DEF Parts, TypeOK, RefInv, FinishVSCDelete, NoVSC, others, deletion, history, Jobs,
           VSCObjects
  <2>3. JobInv'
    BY <1>4, Names
       DEF Parts, TypeOK, JobInv, FinishVSCDelete, NoVSC, others, deletion, history, Jobs,
           VSCObjects
  <2>4. SnapshotKept'
    <3>1. stored' = (stored /\ vsc[c].policy = "Retain")
      BY <1>4 DEF FinishVSCDelete
    <3>2. phase' = phase /\ cleaned' = cleaned
      BY <1>4 DEF FinishVSCDelete, others, deletion, history
    <3> QED BY <1>4, <3>1, <3>2 DEF Parts, PolicyInv, SnapshotKept
  <2>5. ContentAccounted'
    BY <1>4, Names
       DEF Parts, TypeOK, RefInv, ContentAccounted, FinishVSCDelete, NoVSC, others,
           deletion, history, Jobs, VSCObjects
  <2>6. SourceInv' /\ RestoredData' /\ DownloadHasTarget'
    BY <1>4, Names
       DEF Parts, TypeOK, SourceInv, RestoredData, DownloadHasTarget, FinishVSCDelete,
           NoVSC, others, deletion, history, Jobs, VSCObjects
  <2> QED BY <2>1, <2>2, <2>3, <2>4, <2>5, <2>6 DEF Parts
<1> QED BY <1>1, <1>2, <1>3, <1>4 DEF ControllerStep

\* A step of the user, or the cleanup by another backup, keeps them.
LEMMA OutsideParts ==
    ASSUME TypeOK, Parts, TypeOK', UserStep \/ \E n \in Namespace : OtherBackupCleans(n)
    PROVE  Parts'
<1>1. ASSUME NEW n \in Namespace, UserDeletesVS(n) PROVE Parts'
  <2>1. SourceInv'
    BY <1>1, Names
       DEF Parts, TypeOK, SourceInv, UserDeletesVS, RemoveVS, VSObjects, deletion
  <2>2. ContentAccounted'
    BY <1>1, Names
       DEF Parts, TypeOK, RefInv, ContentAccounted, UserDeletesVS, RemoveVS, VSObjects,
           deletion
  <2>3. PolicyInv' /\ RefInv' /\ JobInv' /\ SnapshotKept'
        /\ RestoredData' /\ DownloadHasTarget'
    BY <1>1, Names
       DEF Parts, TypeOK, PolicyInv, RefInv, JobInv, SnapshotKept, RestoredData,
           DownloadHasTarget, UserDeletesVS, RemoveVS, VSObjects, deletion
  <2> QED BY <2>1, <2>2, <2>3 DEF Parts
<1>2. ASSUME NEW n \in Namespace, UserDeletesPVC(n) PROVE Parts'
  <2>1. RestoredData'
    BY <1>2, Names DEF Parts, TypeOK, RestoredData, UserDeletesPVC, deletion, PVCObjects
  <2>2. DownloadHasTarget'
    BY <1>2, Names
       DEF Parts, TypeOK, DownloadHasTarget, UserDeletesPVC, deletion, PVCObjects
  <2>3. PolicyInv' /\ SourceInv' /\ RefInv' /\ JobInv' /\ SnapshotKept' /\ ContentAccounted'
    BY <1>2, Names
       DEF Parts, TypeOK, PolicyInv, SourceInv, RefInv, JobInv, SnapshotKept,
           ContentAccounted, UserDeletesPVC, deletion, PVCObjects
  <2> QED BY <2>1, <2>2, <2>3 DEF Parts
<1>3. ASSUME NEW n \in Namespace, UserCreatesPVC(n) PROVE Parts'
  <2>1. RestoredData'
    BY <1>3, Names
       DEF Parts, TypeOK, RestoredData, UserCreatesPVC, deletion, history, PVCObjects
  <2>2. DownloadHasTarget'
    BY <1>3, Names
       DEF Parts, TypeOK, DownloadHasTarget, UserCreatesPVC, deletion, history, PVCObjects
  <2>3. PolicyInv' /\ SourceInv' /\ RefInv' /\ JobInv' /\ SnapshotKept' /\ ContentAccounted'
    BY <1>3, Names
       DEF Parts, TypeOK, PolicyInv, SourceInv, RefInv, JobInv, SnapshotKept,
           ContentAccounted, UserCreatesPVC, deletion, history, PVCObjects
  <2> QED BY <2>1, <2>2, <2>3 DEF Parts
<1>4. ASSUME NEW n \in Namespace, OtherBackupCleans(n) PROVE Parts'
  <2>1. PolicyInv'
    BY <1>4, Names
       DEF Parts, TypeOK, PolicyInv, OtherBackupCleans, PatchPolicy, RemoveVS, VSObjects,
           VSCObjects, Jobs, deletion
  <2>2. SourceInv'
    BY <1>4, Names
       DEF Parts, TypeOK, SourceInv, OtherBackupCleans, PatchPolicy, RemoveVS, VSObjects,
           VSCObjects, Jobs, deletion
  <2>3. \A r \in Restore : vsc'[r].st = vsc[r].st /\ vsc'[r].ref = vsc[r].ref
    BY <1>4, Names DEF TypeOK, OtherBackupCleans, PatchPolicy, VSObjects, VSCObjects
  <2>4. RefInv' /\ JobInv'
    <3>1. pc' = pc /\ job' = job /\ job.vs \in Restore \cup {FromPVC}
      BY <1>4 DEF TypeOK, OtherBackupCleans, Jobs
    <3> QED BY <2>3, <3>1 DEF Parts, RefInv, JobInv
  <2>5. SnapshotKept'
    BY <1>4, Names
       DEF Parts, TypeOK, SnapshotKept, OtherBackupCleans, PatchPolicy, RemoveVS,
           VSObjects, VSCObjects, Jobs, deletion
  <2>6. ContentAccounted'
    BY <1>4, Names
       DEF Parts, TypeOK, RefInv, ContentAccounted, OtherBackupCleans, PatchPolicy,
           RemoveVS, VSObjects, VSCObjects, Jobs, deletion
  <2>7. RestoredData' /\ DownloadHasTarget'
    BY <1>4, Names
       DEF Parts, TypeOK, RestoredData, DownloadHasTarget, OtherBackupCleans, PatchPolicy,
           RemoveVS, VSObjects, VSCObjects, Jobs, deletion
  <2> QED BY <2>1, <2>2, <2>3, <2>4, <2>5, <2>6, <2>7 DEF Parts
<1> QED BY <1>1, <1>2, <1>3, <1>4 DEF UserStep

\* A step of the deletion of the backup keeps them.
LEMMA DeletionParts ==
    ASSUME TypeOK, Parts, TypeOK', DeletionStep
    PROVE  Parts'
<1>1. CASE RequestDelete
  BY <1>1, Names
     DEF Parts, TypeOK, PolicyInv, SourceInv, RefInv, JobInv, SnapshotKept,
         ContentAccounted, RestoredData, DownloadHasTarget, RequestDelete, objects, history
<1>2. CASE DeleteVS
  <2>1. SourceInv'
    BY <1>2, Names
       DEF Parts, TypeOK, SourceInv, DeleteVS, Visit, PatchPolicy, RemoveVS, VSObjects,
           VSCObjects, Jobs
  <2>2. RefInv'
    BY <1>2, Names
       DEF Parts, TypeOK, RefInv, DeleteVS, Visit, PatchPolicy, RemoveVS, VSObjects,
           VSCObjects, Jobs
  <2>3. JobInv'
    BY <1>2, Names
       DEF Parts, TypeOK, JobInv, DeleteVS, Visit, PatchPolicy, RemoveVS, VSObjects,
           VSCObjects, Jobs
  <2>4. ContentAccounted'
    BY <1>2, Names
       DEF Parts, TypeOK, RefInv, ContentAccounted, DeleteVS, Visit, PatchPolicy, RemoveVS,
           VSObjects, VSCObjects, Jobs
  <2>5. PolicyInv' /\ SnapshotKept' /\ RestoredData' /\ DownloadHasTarget'
    BY <1>2, Names
       DEF Parts, TypeOK, PolicyInv, SnapshotKept, RestoredData, DownloadHasTarget,
           DeleteVS, Visit, PatchPolicy, RemoveVS, VSObjects, VSCObjects, Jobs
  <2> QED BY <2>1, <2>2, <2>3, <2>4, <2>5 DEF Parts
<1>3. CASE DeleteVSC
  <2>1. RefInv'
    BY <1>3, Names
       DEF Parts, TypeOK, RefInv, DeleteVSC, Visit, PatchPolicy, RemoveVSC, VSCObjects, Jobs, history
  <2>2. JobInv'
    BY <1>3, Names
       DEF Parts, TypeOK, JobInv, DeleteVSC, Visit, PatchPolicy, RemoveVSC, VSCObjects, Jobs, history
  <2>3. ContentAccounted'
    BY <1>3, Names
       DEF Parts, TypeOK, RefInv, ContentAccounted, DeleteVSC, Visit, PatchPolicy, RemoveVSC,
           VSCObjects, Jobs, history
  <2>4. PolicyInv' /\ SourceInv' /\ SnapshotKept' /\ RestoredData' /\ DownloadHasTarget'
    BY <1>3, Names
       DEF Parts, TypeOK, PolicyInv, SourceInv, SnapshotKept, RestoredData,
           DownloadHasTarget, DeleteVSC, Visit, PatchPolicy, RemoveVSC, VSCObjects, Jobs, history
  <2> QED BY <2>1, <2>2, <2>3, <2>4 DEF Parts
<1>4. CASE FinishDelete
  BY <1>4, Names
     DEF Parts, TypeOK, PolicyInv, SourceInv, RefInv, JobInv, SnapshotKept,
         ContentAccounted, RestoredData, DownloadHasTarget, FinishDelete, objects, history
<1> QED BY <1>1, <1>2, <1>3, <1>4 DEF DeletionStep

\* The start of a restore keeps them.
LEMMA StartParts ==
    ASSUME TypeOK, Parts, TypeOK', NEW r \in Restore, StartRestore(r)
    PROVE  Parts'
  BY
     DEF Parts, TypeOK, PolicyInv, SourceInv, RefInv, JobInv, SnapshotKept,
         ContentAccounted,
         RestoredData, DownloadHasTarget, StartRestore, Goto, objects, deletion, history

\* The invariant is inductive.
LEMMA RestoreInvStep == RestoreInv /\ [Next]_vars => RestoreInv'
<1> SUFFICES ASSUME TypeOK, Parts, [Next]_vars PROVE TypeOK' /\ Parts'
  BY Unfold DEF Parts, RestoreInv
<1>1. TypeOK'
  BY TypeStep
<1>2. CASE Next
  BY <1>1, <1>2, RestoreParts, StartParts, ControllerParts, OutsideParts, DeletionParts
     DEF Next
<1>3. CASE UNCHANGED vars
  <2>1. PolicyInv' /\ SourceInv' /\ RefInv' /\ JobInv' /\ SnapshotKept'
    BY <1>3 DEF Parts, PolicyInv, SourceInv, RefInv, JobInv, SnapshotKept,
                vars, objects, deletion, history
  <2>2. ContentAccounted' /\ RestoredData' /\ DownloadHasTarget'
    BY <1>3 DEF Parts, ContentAccounted, RestoredData, DownloadHasTarget,
                vars, objects, deletion, history
  <2> QED BY <1>1, <2>1, <2>2 DEF Parts
<1> QED BY <1>1, <1>2, <1>3

\* The invariant holds in every reachable state.
THEOREM RestoreInvariant == Spec => []RestoreInv
  BY InitRestore, RestoreInvStep, PTL DEF Spec

\* Every reachable state of the restores is well typed.
THEOREM RestoreTypeCorrect == Spec => []TypeOK
<1>1. RestoreInv => TypeOK
  BY DEF RestoreInv
<1> QED BY <1>1, RestoreInvariant, PTL

\* No deletion of what was restored, in whatever namespace and at whatever
\* moment, costs the backup its snapshot while the backup stands and no other
\* backup cleans up a restored VS.
THEOREM SnapshotKeptHolds == Spec => []SnapshotKept
<1>1. RestoreInv => SnapshotKept
  BY DEF RestoreInv
<1> QED BY <1>1, RestoreInvariant, PTL

\* No restore leaves a static content without its VS unless something was
\* reported or the VS was deleted: two restores of one VS, a failing or a
\* half-failed call and a restart included.
THEOREM ContentAccountedHolds == Spec => []ContentAccounted
<1>1. RestoreInv => ContentAccounted
  BY DEF RestoreInv
<1> QED BY <1>1, RestoreInvariant, PTL

\* A PVC restored from a VS never holds the data of a later volume, unless that
\* VS was deleted and came back as it was recorded.
THEOREM RestoredDataHolds == Spec => []RestoredData
<1>1. RestoreInv => RestoredData
  BY DEF RestoreInv
<1> QED BY <1>1, RestoreInvariant, PTL

\* No DataDownload is left without its PVC in silence.
THEOREM DownloadHasTargetHolds == Spec => []DownloadHasTarget
<1>1. RestoreInv => DownloadHasTarget
  BY DEF RestoreInv
<1> QED BY <1>1, RestoreInvariant, PTL

-----------------------------------------------------------------------------
(* What was restored can be filled.                                        *)

\* Before the VS of the restore in progress is applied.
Early == {"class", "content", "vs", "create", "applyvs"}

\* What a step of the restore in progress leaves alone.
LEMMA RestoreFrame ==
    ASSUME TypeOK, RestoreStep \/ Crash
    PROVE  /\ pc # "idle" /\ begun' = begun /\ item' = item
           /\ removed' = removed /\ touched' = touched
           /\ pc' = "idle" \/ (/\ job'.restore = job.restore /\ job'.ns = job.ns
                               /\ job'.pvs = job.pvs)
           /\ pc' \in Early => pc \in Early /\ vs' = vs
           /\ vs' = vs \/ ApplyVS
           /\ pvc' = pvc \/ ApplyPVC
           /\ downloads \subseteq downloads'
           /\ CreateContent \/ \A r \in Restore : vsc'[r] = vsc[r]
<1> DEFINE Frame ==
             /\ pc # "idle" /\ begun' = begun /\ item' = item
             /\ removed' = removed /\ touched' = touched
             /\ pc' = "idle" \/ (/\ job'.restore = job.restore /\ job'.ns = job.ns
                                 /\ job'.pvs = job.pvs)
             /\ pc' \in Early => pc \in Early /\ vs' = vs
             /\ vs' = vs \/ ApplyVS
             /\ pvc' = pvc \/ ApplyPVC
             /\ downloads \subseteq downloads'
             /\ CreateContent \/ \A r \in Restore : vsc'[r] = vsc[r]
<1> USE DEF Early, Goto, Silent, Tell, End, Plan, objects, deletion, history
<1>0. job \in Jobs /\ vsc \in [Content -> VSCObjects]
  BY DEF TypeOK
<1>1. CASE RestoreClass
  BY <1>1 DEF RestoreClass
<1>2. CASE RestoreContent
  BY <1>0, <1>2, Names DEF RestoreContent
<1>3. CASE SkipVS \/ CheckVS
  BY <1>3 DEF SkipVS, CheckVS
<1>4. CASE CreateContent
  BY <1>0, <1>4 DEF CreateContent, Jobs
<1>5. CASE ApplyVS
  BY <1>5 DEF ApplyVS
<1>6. CASE CheckPVC
  BY <1>0, <1>6 DEF CheckPVC, Jobs
<1>7. CASE GetBackup
  BY <1>0, <1>7 DEF GetBackup, Jobs
<1>8. CASE StartDownload
  BY <1>0, <1>8 DEF StartDownload, Jobs
<1>9. CASE GetVS
  BY <1>0, <1>9 DEF GetVS, Jobs
<1>10. CASE ApplyPVC
  BY <1>10 DEF ApplyPVC
<1>11. CASE Crash
  BY <1>11 DEF Crash
<1> QED BY <1>1, <1>2, <1>3, <1>4, <1>5, <1>6, <1>7, <1>8, <1>9, <1>10, <1>11 DEF RestoreStep

\* The steps of everybody else.
OutsideStep ==
    \/ ControllerStep \/ UserStep \/ DeletionStep
    \/ \E n \in Namespace : OtherBackupCleans(n)

\* Nobody else replaces a VS or a restore's content, nor deletes one unnoticed.
Undisturbed ==
    /\ \A n \in Namespace :
          /\ vs'[n].source \in {vs[n].source, FromPVC}
          /\ vs'[n].st = "live" => vs[n].st = "live" /\ vs'[n].source = vs[n].source
          /\ vs[n].st = "live" => vs'[n].st = "live" \/ n \in removed'
    /\ \A r \in Restore :
          /\ vsc'[r].st # "absent" => vsc[r].st # "absent" /\ vsc'[r].ref = vsc[r].ref
          /\ vsc[r].st = "live" => vsc'[r].st = "live"
                \/ \E n \in Namespace : vs[n].st = "deleting" /\ vs[n].source = r

\* Nobody else makes a PVC wait for a VS, or deletes one unnoticed.
ClaimsLeft ==
    \A n \in Namespace :
        /\ pvc'[n].st = "pending" => pvc'[n] = pvc[n] \/ pvc'[n].source = "asis"
        /\ pvc[n].st # "absent" => pvc'[n].st # "absent" \/ n \in touched'

\* What the steps of the others leave alone.
LEMMA OutsideFrame ==
    ASSUME TypeOK, OutsideStep
    PROVE  /\ UNCHANGED <<pc, job, begun, told, item, downloads>>
           /\ removed \subseteq removed' /\ touched \subseteq touched'
           /\ Undisturbed /\ ClaimsLeft
<1>0. /\ vs \in [Namespace -> VSObjects] /\ vsc \in [Content -> VSCObjects]
      /\ pvc \in [Namespace -> PVCObjects] /\ Original \in Content
      /\ \A r \in Restore : r \in Content /\ r # Original /\ r # FromPVC
  BY Names DEF TypeOK
\* Removing a VS and patching a content.
<1>1. ASSUME NEW n \in Namespace, RemoveVS(n)
      PROVE  /\ removed \subseteq removed'
             /\ \A m \in Namespace :
                   /\ vs'[m].source = vs[m].source
                   /\ vs'[m].st = "live" => vs[m].st = "live"
                   /\ vs[m].st = "live" => vs'[m].st = "live" \/ m \in removed'
  BY <1>0, <1>1 DEF RemoveVS, VSObjects
<1>2. ASSUME NEW c \in Content, PatchPolicy(c)
      PROVE  \A r \in Restore : vsc'[r].st = vsc[r].st /\ vsc'[r].ref = vsc[r].ref
  BY <1>0, <1>2 DEF PatchPolicy, VSCObjects
<1>3. UNCHANGED <<pc, job, begun, told, item, downloads>>
  BY DEF OutsideStep, ControllerStep, UserStep, DeletionStep, Bind, Provision, FinishVSDelete,
         FinishVSCDelete, UserDeletesVS, UserDeletesPVC, UserCreatesPVC, OtherBackupCleans,
         RequestDelete, DeleteVS, DeleteVSC, FinishDelete, others, objects
<1>4. ASSUME NEW n \in Namespace, Bind(n) \/ Provision(n)
      PROVE  removed' = removed /\ touched' = touched /\ Undisturbed /\ ClaimsLeft
  <2>1. CASE Bind(n)
    BY <1>0, <2>1 DEF Bind, Undisturbed, ClaimsLeft, others, history, VSObjects
  <2>2. CASE Provision(n)
    BY <1>0, <2>2 DEF Provision, Undisturbed, ClaimsLeft, others, history, PVCObjects
  <2>3. QED BY <1>4, <2>1, <2>2
<1>5. ASSUME NEW n \in Namespace, FinishVSDelete(n)
      PROVE  removed' = removed /\ touched' = touched /\ Undisturbed /\ ClaimsLeft
  BY <1>0, <1>5 DEF FinishVSDelete, NoVS, Undisturbed, ClaimsLeft, others, history, VSObjects,
     VSCObjects, ObjectStates
<1>6. ASSUME NEW c \in Content, FinishVSCDelete(c)
      PROVE  removed' = removed /\ touched' = touched /\ Undisturbed /\ ClaimsLeft
  BY <1>0, <1>6 DEF FinishVSCDelete, NoVSC, Undisturbed, ClaimsLeft, others, history, VSCObjects
<1>7. ASSUME NEW n \in Namespace, UserDeletesVS(n) \/ OtherBackupCleans(n)
      PROVE  removed \subseteq removed' /\ touched' = touched /\ Undisturbed /\ ClaimsLeft
  <2>1. RemoveVS(n) /\ pvc' = pvc /\ touched' = touched
    BY <1>7 DEF UserDeletesVS, OtherBackupCleans
  <2>2. \A r \in Restore : vsc'[r].st = vsc[r].st /\ vsc'[r].ref = vsc[r].ref
    <3>1. vs[n].source \in Restore \cup {FromPVC}
      BY <1>0 DEF VSObjects
    <3>2. QED BY <1>0, <1>2, <1>7, <3>1 DEF UserDeletesVS, OtherBackupCleans
  <2>3. QED BY <1>0, <1>1, <2>1, <2>2 DEF Undisturbed, ClaimsLeft
<1>8. ASSUME NEW n \in Namespace, UserDeletesPVC(n) \/ UserCreatesPVC(n)
      PROVE  removed' = removed /\ touched \subseteq touched' /\ Undisturbed /\ ClaimsLeft
  BY <1>0, <1>8 DEF UserDeletesPVC, UserCreatesPVC, Undisturbed, ClaimsLeft, history, PVCObjects
<1>9. CASE DeletionStep
  <2>1. pvc' = pvc /\ touched' = touched
    BY <1>9 DEF DeletionStep, RequestDelete, DeleteVS, DeleteVSC, FinishDelete, objects, history
  <2>2. (vs' = vs /\ removed' = removed) \/ RemoveVS(Home)
    BY <1>9 DEF DeletionStep, RequestDelete, DeleteVS, DeleteVSC, FinishDelete, objects, history
  <2>3. \A r \in Restore : vsc'[r].st = vsc[r].st /\ vsc'[r].ref = vsc[r].ref
    <3>1. CASE DeleteVSC
      BY <1>0, <1>2, <3>1 DEF DeleteVSC, RemoveVSC, PatchPolicy
    <3>2. CASE ~DeleteVSC
      BY <1>0, <1>2, <1>9, <3>2
      DEF DeletionStep, RequestDelete, DeleteVS, FinishDelete, objects
    <3>3. QED BY <3>1, <3>2
  <2>4. /\ removed \subseteq removed'
        /\ \A m \in Namespace :
              /\ vs'[m].source = vs[m].source
              /\ vs'[m].st = "live" => vs[m].st = "live"
              /\ vs[m].st = "live" => vs'[m].st = "live" \/ m \in removed'
    BY <1>1, <2>2, Names
  <2>5. Undisturbed
    BY <2>3, <2>4 DEF Undisturbed
  <2>6. ClaimsLeft
    BY <2>1 DEF ClaimsLeft
  <2>7. QED BY <1>3, <2>1, <2>4, <2>5, <2>6
<1> QED BY <1>3, <1>4, <1>5, <1>6, <1>7, <1>8, <1>9 DEF OutsideStep, ControllerStep, UserStep

\* A new content is the source of no VS yet.
LEMMA FreshStep ==
    ASSUME RestoreInv, FreshInv, [Next]_vars
    PROVE  FreshInv'
<1>0. /\ TypeOK /\ begun \in Nat
      /\ \A n \in Namespace : vs[n].source # FromPVC => vs[n].source \in Restore
      /\ \A r \in Restore : r \in Nat
  BY RestoreAssumption DEF RestoreInv, TypeOK, VSObjects, Restore
<1>1. ASSUME NEW r \in Restore, StartRestore(r) PROVE FreshInv'
  <2>1. begun' = begun + 1 /\ vs' = vs
    BY <1>1 DEF StartRestore, objects
  <2>2. job'.restore = begun + 1
    BY <1>0, <1>1 DEF StartRestore, TypeOK, Jobs
  <2>3. \A n \in Namespace : vs[n].source # FromPVC => vs[n].source < begun + 1
    BY <1>0 DEF FreshInv
  <2>4. QED BY <1>0, <2>1, <2>2, <2>3 DEF FreshInv
<1>2. CASE RestoreStep \/ Crash
  <2>1. /\ begun' = begun /\ pc # "idle"
        /\ pc' = "idle" \/ job'.restore = job.restore
        /\ pc' \in Early => pc \in Early /\ vs' = vs
    BY <1>0, <1>2, RestoreFrame
  <2>2. pc' # "idle" => job'.restore = begun'
    BY <2>1 DEF FreshInv
  <2>3. \A n \in Namespace : vs'[n].source # FromPVC => vs'[n].source <= begun
    <3>1. CASE vs' = vs
      BY <3>1 DEF FreshInv
    <3>2. CASE ApplyVS
      <4>1. \A n \in Namespace : vs'[n].source \in {vs[n].source, job.vs}
        BY <1>0, <3>2 DEF ApplyVS, TypeOK, VSObjects
      <4>2. job.vs # FromPVC => job.vs = job.restore
        BY <3>2 DEF RestoreInv, JobInv, ApplyVS
      <4>3. job.restore = begun
        BY <2>1 DEF FreshInv
      <4>4. QED BY <1>0, <4>1, <4>2, <4>3 DEF FreshInv
    <3>3. QED BY <1>0, <1>2, <3>1, <3>2, RestoreFrame
  <2>4. pc' \in Early => \A n \in Namespace : vs'[n].source # FromPVC => vs'[n].source # job'.restore
    BY <2>1 DEF FreshInv, Early
  <2>5. QED BY <2>1, <2>2, <2>3, <2>4 DEF FreshInv, Early
<1>3. CASE OutsideStep
  <2>1. /\ UNCHANGED <<pc, job, begun>>
        /\ \A n \in Namespace : vs'[n].source \in {vs[n].source, FromPVC}
    BY <1>0, <1>3, OutsideFrame DEF Undisturbed
  <2>2. QED BY <2>1 DEF FreshInv
<1>4. CASE UNCHANGED vars
  BY <1>4 DEF vars, objects, FreshInv
<1> QED BY <1>1, <1>2, <1>3, <1>4 DEF Next, OutsideStep

\* A content stays as long as its VS.
LEMMA BindStep ==
    ASSUME RestoreInv, FreshInv, BindInv, [Next]_vars
    PROVE  BindInv'
<1>0. /\ TypeOK /\ vs \in [Namespace -> VSObjects] /\ vsc \in [Content -> VSCObjects]
      /\ \A n \in Namespace : vs[n].source # FromPVC => vs[n].source \in Restore
      /\ \A r \in Restore : r \in Content
  BY Names DEF RestoreInv, TypeOK, VSObjects
<1>1. ASSUME NEW r \in Restore, StartRestore(r) PROVE BindInv'
  BY <1>1 DEF StartRestore, Goto, objects, history, BindInv
<1>2. CASE CreateContent
  <2>1. /\ vs' = vs /\ removed' = removed /\ job.restore \in Restore /\ job.ns \in Namespace
        /\ \A n \in Namespace : vs[n].source # FromPVC => vs[n].source # job.restore
    BY <1>0, <1>2 DEF CreateContent, history, FreshInv, TypeOK, Jobs
  <2>2. \A c \in Content : c # job.restore => vsc'[c] = vsc[c]
    BY <1>0, <1>2 DEF CreateContent
  <2>3. pc' = "applyvs" => job'.vs = job.restore /\ vsc'[job.restore].st = "live"
    BY <1>0, <1>2, <2>1 DEF CreateContent, Goto, StaticContent, TypeOK, Jobs
  <2>4. QED BY <1>0, <2>1, <2>2, <2>3 DEF BindInv
<1>3. CASE ApplyVS
  <2>1. /\ vsc' = vsc /\ removed' = removed /\ pc' = "pvc" /\ job.ns \in Namespace
    BY <1>0, <1>3 DEF ApplyVS, Goto, history, TypeOK, Jobs
  <2>2. CASE vs' = vs
    BY <2>1, <2>2 DEF BindInv
  <2>3. CASE /\ vs[job.ns].st = "absent"
             /\ vs' = [vs EXCEPT ![job.ns] = [st |-> "live", source |-> job.vs, bound |-> FALSE]]
    <3>1. /\ \A n \in Namespace : n # job.ns => vs'[n] = vs[n]
          /\ vs'[job.ns].source = job.vs
      BY <1>0, <2>1, <2>3
    <3>2. job.vs # FromPVC => vsc[job.vs].st = "live" /\ vsc[job.vs].ref = job.ns
      BY <1>3 DEF ApplyVS, RestoreInv, JobInv, BindInv
    <3>3. job.vs = FromPVC => job.ns \in removed
      BY <1>3, <2>3 DEF ApplyVS, RestoreInv, SourceInv
    <3>4. QED BY <2>1, <3>1, <3>2, <3>3 DEF BindInv
  <2>4. QED BY <1>3, <2>2, <2>3 DEF ApplyVS
<1>4. CASE (RestoreStep \/ Crash) /\ ~CreateContent /\ ~ApplyVS
  <2>1. /\ vs' = vs /\ removed' = removed
        /\ \A r \in Restore : vsc'[r] = vsc[r]
    BY <1>0, <1>4, RestoreFrame
  <2>2. pc' = "applyvs" => job'.vs = FromPVC
    BY <1>4 DEF RestoreInv, JobInv, RestoreStep, RestoreClass, RestoreContent, SkipVS, CheckVS,
       CheckPVC, GetBackup, StartDownload, GetVS, ApplyPVC, Crash, Goto, End
  <2>3. QED BY <1>0, <2>1, <2>2 DEF BindInv
<1>5. CASE OutsideStep
  <2>1. /\ UNCHANGED <<pc, job>> /\ removed \subseteq removed' /\ Undisturbed
    BY <1>0, <1>5, OutsideFrame
  <2>2. ASSUME NEW r \in Restore, vsc[r].st = "live", vsc'[r].st # "live"
        PROVE  \E m \in Namespace : m \in removed /\ vs[m].source = r /\ vsc[r].ref = m
    BY <1>0, <2>1, <2>2, Names DEF Undisturbed, RestoreInv, SourceInv, BindInv
  <2>3. \A n \in Namespace : vs'[n].source # FromPVC =>
           vsc'[vs'[n].source].st = "absent" \/ vsc'[vs'[n].source].ref = n
    BY <1>0, <2>1 DEF Undisturbed, BindInv
  <2>4. \A n \in Namespace : vs'[n].st = "live" /\ n \notin removed' =>
           vs'[n].source # FromPVC /\ vsc'[vs'[n].source].st = "live"
    <3>1. SUFFICES ASSUME NEW n \in Namespace, vs'[n].st = "live", n \notin removed'
                   PROVE  vs'[n].source # FromPVC /\ vsc'[vs'[n].source].st = "live"
      OBVIOUS
    <3>2. /\ vs'[n].source = vs[n].source /\ n \notin removed /\ vs[n].source \in Restore
          /\ vs[n].source # FromPVC /\ vsc[vs[n].source].st = "live" /\ vsc[vs[n].source].ref = n
      BY <1>0, <2>1, <3>1 DEF Undisturbed, BindInv
    <3>3. QED BY <2>2, <3>2
  <2>5. pc' = "applyvs" /\ job'.vs # FromPVC => vsc'[job'.vs].st = "live"
    <3>1. SUFFICES ASSUME pc = "applyvs", job.vs # FromPVC PROVE vsc'[job.vs].st = "live"
      BY <2>1
    <3>2. job.vs = job.restore /\ vsc[job.vs].st = "live" /\ job.restore \in Restore
      BY <1>0, <3>1 DEF RestoreInv, JobInv, BindInv, TypeOK, Jobs
    <3>3. \A m \in Namespace : vs[m].source # job.restore
      BY <1>0, <3>1, <3>2, Names DEF FreshInv
    <3>4. QED BY <2>2, <3>2, <3>3
  <2>6. QED BY <2>3, <2>4, <2>5 DEF BindInv
<1>6. CASE UNCHANGED vars
  BY <1>6 DEF vars, objects, history, BindInv
<1> QED BY <1>1, <1>2, <1>3, <1>4, <1>5, <1>6 DEF Next, OutsideStep

\* A PVC is created only when it can be filled.
LEMMA ClaimStep ==
    ASSUME RestoreInv, ClaimInv, [Next]_vars
    PROVE  ClaimInv'
<1>0. /\ TypeOK /\ item \in Items /\ job \in Jobs /\ vs \in [Namespace -> VSObjects]
      /\ pvc \in [Namespace -> PVCObjects]
  BY DEF RestoreInv, TypeOK
<1>1. ASSUME NEW r \in Restore, StartRestore(r) PROVE ClaimInv'
  BY <1>1 DEF StartRestore, Goto, ClaimInv
<1> USE DEF Goto, Plan, Silent, End, objects, history
<1>2. CASE CheckPVC
  <2>1. /\ pvc' = pvc /\ item' = item
        /\ job'.ns = job.ns /\ job'.pvs = job.pvs
        /\ pc' = "applypvc" => /\ job'.pvc \in {"asis", "empty"}
                               /\ pvc[job.ns].st # "absent" \/ ~job.pvs
    BY <1>0, <1>2 DEF CheckPVC, Found, Jobs
  <2>2. QED BY <2>1 DEF ClaimInv
<1>3. CASE GetBackup
  <2>1. /\ item' = item
        /\ pc' = "applypvc" => ~item.noted /\ job'.pvc = "asis"
    BY <1>0, <1>3 DEF GetBackup, Jobs
  <2>2. QED BY <2>1 DEF ClaimInv
<1>4. CASE StartDownload
  <2>1. pc' = "applypvc" => job'.pvc = "download" /\ NewDownload' \in downloads'
    BY <1>0, <1>4 DEF StartDownload, NewDownload, Jobs
  <2>2. QED BY <2>1 DEF ClaimInv
<1>5. CASE GetVS
  <2>1. /\ vs' = vs /\ removed' = removed /\ item' = item
        /\ pc' = "applypvc" =>
              /\ job'.pvc = "vs" /\ job'.size = RequestSize /\ job'.ns = job.ns
              /\ vs[job.ns].st # "absent"
    BY <1>0, <1>5 DEF GetVS, Jobs
  <2>2. vs[job.ns].st = "deleting" => job.ns \in removed
    BY <1>0 DEF RestoreInv, SourceInv, Jobs
  <2>3. vs[job.ns].st \in {"absent", "live", "deleting"}
    BY <1>0 DEF Jobs, VSObjects, ObjectStates
  <2>4. RequestSize >= item.size
    BY <1>0, RequestSizeBound
  <2>5. QED BY <2>1, <2>2, <2>3, <2>4 DEF ClaimInv
<1>6. CASE (RestoreStep \/ Crash) /\ ~CheckPVC /\ ~GetBackup /\ ~StartDownload /\ ~GetVS
  <2>1. pc' # "applypvc"
    BY <1>6 DEF RestoreStep, RestoreClass, RestoreContent, SkipVS, CheckVS, CreateContent, ApplyVS,
       ApplyPVC, Crash
  <2>2. QED BY <2>1 DEF ClaimInv
<1>7. CASE OutsideStep
  <2>1. /\ UNCHANGED <<pc, job, item, downloads>> /\ removed \subseteq removed'
        /\ touched \subseteq touched' /\ Undisturbed /\ ClaimsLeft /\ job.ns \in Namespace
    BY <1>0, <1>7, OutsideFrame DEF Jobs
  <2>2. /\ vs[job.ns].st = "live" => vs'[job.ns].st = "live" \/ job.ns \in removed'
        /\ pvc[job.ns].st # "absent" => pvc'[job.ns].st # "absent" \/ job.ns \in touched'
    BY <2>1 DEF Undisturbed, ClaimsLeft
  <2>3. QED BY <2>1, <2>2 DEF ClaimInv, NewDownload
<1>8. CASE UNCHANGED vars
  BY <1>8 DEF vars, ClaimInv, NewDownload
<1> QED BY <1>1, <1>2, <1>3, <1>4, <1>5, <1>6, <1>7, <1>8 DEF Next, OutsideStep

\* A PVC that waits keeps what it waits for.
LEMMA ClaimsStep ==
    ASSUME RestoreInv, FreshInv, BindInv, BindInv', ClaimInv, ClaimsServed, [Next]_vars
    PROVE  ClaimsServed'
<1>0. /\ TypeOK /\ item \in Items /\ job \in Jobs /\ vs \in [Namespace -> VSObjects]
      /\ pvc \in [Namespace -> PVCObjects]
  BY DEF RestoreInv, TypeOK
\* Only the VS can go, and not unnoticed.
<1>1. ASSUME NEW n \in Namespace, pvc'[n].st = "pending", n \notin removed',
             item' = item, downloads \subseteq downloads', removed \subseteq removed',
             vs[n].st = "live" => vs'[n].st = "live" \/ n \in removed',
             pvc'[n] = pvc[n]
      PROVE  Fillable(n)'
  <2>1. Fillable(n)
    BY <1>1 DEF ClaimsServed
  <2>2. CASE pvc[n].source = "vs"
    BY <1>1, <2>1, <2>2 DEF Fillable, BindInv
  <2>3. CASE pvc[n].source # "vs"
    BY <1>1, <2>1, <2>3 DEF Fillable
  <2>4. QED BY <2>2, <2>3
<1>2. CASE ApplyPVC
  <2>1. SUFFICES ASSUME NEW n \in Namespace, pvc'[n].st = "pending", n \notin removed'
                 PROVE  Fillable(n)'
    BY DEF ClaimsServed
  <2>2. /\ vs' = vs /\ item' = item /\ downloads' = downloads /\ removed' = removed
        /\ pc = "applypvc" /\ job.ns \in Namespace /\ job.restore \in Restore
    BY <1>0, <1>2 DEF ApplyPVC, history, TypeOK, Jobs
  <2>3. CASE pvc'[n] = pvc[n]
    BY <1>1, <2>1, <2>2, <2>3
  <2>4. CASE /\ n = job.ns
             /\ pvc'[n] = [st |-> "pending", source |-> job.pvc, size |-> job.size, data |-> "none"]
    <3>1. CASE job.pvc = "vs"
      BY <2>1, <2>2, <2>4, <3>1 DEF Fillable, ClaimInv, BindInv
    <3>2. CASE job.pvc # "vs"
      <4>1. job.pvc \in {"asis", "empty", "download"}
        BY <1>0, <3>2 DEF Jobs, Sources
      <4>2. QED BY <2>2, <2>4, <4>1 DEF Fillable, ClaimInv, NewDownload
    <3>3. QED BY <3>1, <3>2
  <2>5. QED BY <1>0, <1>2, <2>2, <2>3, <2>4 DEF ApplyPVC
<1>3. ASSUME NEW r \in Restore, StartRestore(r) PROVE ClaimsServed'
  BY <1>1, <1>3 DEF StartRestore, objects, history, ClaimsServed
<1>4. CASE (RestoreStep \/ Crash) /\ ~ApplyPVC
  <2>1. /\ pvc' = pvc /\ item' = item /\ removed' = removed /\ downloads \subseteq downloads'
    BY <1>0, <1>4, RestoreFrame
  <2>2. \A n \in Namespace : vs[n].st = "live" => vs'[n].st = "live"
    <3>1. vs' = vs \/ ApplyVS
      BY <1>0, <1>4, RestoreFrame
    <3>2. QED BY <1>0, <3>1 DEF ApplyVS, Jobs
  <2>3. QED BY <1>1, <2>1, <2>2 DEF ClaimsServed
<1>5. CASE OutsideStep
  <2>1. /\ UNCHANGED <<item, downloads>> /\ removed \subseteq removed' /\ Undisturbed /\ ClaimsLeft
    BY <1>0, <1>5, OutsideFrame
  <2>2. ASSUME NEW n \in Namespace, pvc'[n].st = "pending", n \notin removed'
        PROVE  Fillable(n)'
    <3>1. CASE pvc'[n] = pvc[n]
      BY <1>1, <2>1, <2>2, <3>1 DEF Undisturbed
    <3>2. CASE pvc'[n].source = "asis"
      BY <3>2 DEF Fillable
    <3>3. QED BY <2>1, <2>2, <3>1, <3>2 DEF ClaimsLeft
  <2>3. QED BY <2>2 DEF ClaimsServed
<1>6. CASE UNCHANGED vars
  BY <1>6 DEF vars, objects, history, ClaimsServed, Fillable
<1> QED BY <1>2, <1>3, <1>4, <1>5, <1>6 DEF Next, OutsideStep

\* The four parts are an invariant of the restores: no restore touches what
\* another one has made, and nothing a waiting PVC needs goes before it.
THEOREM ServedInvariant == Spec => []ServedInv
<1>1. Init => ServedInv
  <2>1. SUFFICES ASSUME Init PROVE ServedInv
    OBVIOUS
  <2>2. /\ \A n \in Namespace : vs[n] = NoVS /\ pvc[n].st = "absent"
        /\ pc = "idle"
    BY <2>1 DEF Init
  <2>3. QED BY <2>2 DEF ServedInv, FreshInv, BindInv, ClaimInv, ClaimsServed, NoVS
<1>2. RestoreInv /\ ServedInv /\ [Next]_vars => ServedInv'
  BY FreshStep, BindStep, ClaimStep, ClaimsStep DEF ServedInv
<1> QED BY <1>1, <1>2, RestoreInvariant, PTL DEF Spec

\* Whatever is restored, deleted or interrupted, and in whatever order, a
\* restored PVC that waits for its data can be given it, unless somebody asked
\* for the deletion of the VS it is to be made from: the safety half of
\* RestoreDelivers.
THEOREM ClaimsServedHolds == Spec => []ClaimsServed
<1>1. ServedInv => ClaimsServed
  BY DEF ServedInv
<1> QED BY <1>1, ServedInvariant, PTL

\* A restore that reports nothing has made the PVC from the backup's data: no
\* failed lookup and no failed creation lets it end with a PVC without data.
THEOREM RestoreSettlesHolds == Spec => RestoreSettles
<1> DEFINE Settled ==
             pc # "idle" /\ pc' = "idle" /\ job.pvs /\ item.noted =>
                \/ pvc'[job.ns].st # "absent" /\ pvc'[job.ns].source \in {"vs", "download"}
                \/ job.restore \in told' \/ job.ns \in touched
<1>1. ASSUME RestoreInv, ServedInv, [Next]_vars PROVE [Settled]_vars
  <2>1. SUFFICES ASSUME pc # "idle", pc' = "idle", job.pvs, item.noted, ~Tell
                 PROVE  Settled
    BY DEF Tell
  <2>2. ApplyPVC
    BY <1>1, <2>1, OutsideFrame
    DEF Next, OutsideStep, StartRestore, RestoreStep, RestoreClass, RestoreContent, SkipVS,
        CheckVS, CreateContent, ApplyVS, CheckPVC, GetBackup, StartDownload, GetVS, Crash, Goto,
        vars, RestoreInv
  <2>3. pvc[job.ns].st = "absent" /\ pc = "applypvc"
    BY <2>1, <2>2 DEF ApplyPVC
  <2>4. pvc'[job.ns] = [st |-> "pending", source |-> job.pvc, size |-> job.size, data |-> "none"]
    BY <1>1, <2>1, <2>2 DEF ApplyPVC, RestoreInv, TypeOK, Jobs
  <2>5. job.pvc \in {"vs", "download"} \/ job.ns \in touched
    BY <1>1, <2>1, <2>3 DEF ServedInv, ClaimInv
  <2>6. QED BY <2>4, <2>5
<1> QED BY <1>1, RestoreInvariant, ServedInvariant, PTL DEF Spec, RestoreSettles

-----------------------------------------------------------------------------
(* The secret of the class.                                                *)

\* A restore brings the secret back before it makes a content, no step takes a
\* secret away, and nobody else makes a content of a restore.
LEMMA ListSecretStep ==
    ASSUME RestoreInv, ListSecretInv, [Next]_vars
    PROVE  ListSecretInv'
<1>0. TypeOK
  BY DEF RestoreInv
<1> USE DEF ListSecretInv, ListSecretFirst
<1>1. ASSUME NEW r \in Restore, StartRestore(r) PROVE ListSecretInv'
  BY <1>1 DEF StartRestore, Goto, objects
<1>2. CASE RestoreClass
  BY <1>2 DEF RestoreClass, RestoreSecrets, HasListerSecret, SavedSecrets, Goto
<1>3. CASE RestoreContent
  <2>1. item' = item /\ secrets' = secrets /\ pc = "content" /\ pc' = "vs" /\ job' = job
    BY <1>3 DEF RestoreContent, RestoreSecrets, NamedByContent, Goto
  <2>2. \A r \in Restore : vsc'[r] = vsc[r]
    BY <1>0, <1>3, Names DEF TypeOK, RestoreContent
  <2>3. QED BY <2>1, <2>2
<1>4. CASE SkipVS \/ CheckVS
  BY <1>4 DEF SkipVS, CheckVS, VSRestored, Goto, objects
<1>5. CASE CreateContent
  BY <1>5 DEF CreateContent, Goto
<1>6. CASE ApplyVS \/ CheckPVC \/ GetBackup \/ StartDownload \/ GetVS \/ ApplyPVC \/ Crash
  <2>1. vsc' = vsc /\ secrets' = secrets /\ item' = item
    BY <1>6 DEF ApplyVS, CheckPVC, GetBackup, StartDownload, GetVS, ApplyPVC, Crash, objects
  <2>2. pc' \notin {"content", "vs", "create"}
    BY <1>6 DEF ApplyVS, CheckPVC, GetBackup, StartDownload, GetVS, ApplyPVC, Crash, Goto, End
  <2>3. QED BY <2>1, <2>2
<1>7. CASE OutsideStep
  <2>1. secrets' = secrets
    BY <1>7
    DEF OutsideStep, ControllerStep, UserStep, DeletionStep, Bind, Provision, FinishVSDelete,
        FinishVSCDelete, UserDeletesVS, UserDeletesPVC, UserCreatesPVC, OtherBackupCleans,
        RequestDelete, DeleteVS, DeleteVSC, FinishDelete, objects
  <2>2. /\ UNCHANGED <<pc, job, item>>
        /\ \A r \in Restore : vsc'[r].st # "absent" => vsc[r].st # "absent"
    BY <1>0, <1>7, OutsideFrame DEF Undisturbed
  <2>3. QED BY <2>1, <2>2
<1>8. CASE UNCHANGED vars
  BY <1>8 DEF vars, objects
<1> QED BY <1>1, <1>2, <1>3, <1>4, <1>5, <1>6, <1>7, <1>8 DEF Next, RestoreStep, OutsideStep

\* However restores, failures and restarts follow each other, a content that a
\* restore made has the secret of its class in the cluster.
THEOREM ListSecretFirstHolds == Spec => []ListSecretFirst
<1>1. Init => ListSecretInv
  <2>1. SUFFICES ASSUME Init PROVE ListSecretInv
    OBVIOUS
  <2>2. pc = "idle" /\ \A r \in Restore : vsc[r] = NoVSC
    BY <2>1, Names DEF Init
  <2>3. QED BY <2>2 DEF ListSecretInv, ListSecretFirst, NoVSC
<1>2. ListSecretInv => ListSecretFirst
  BY DEF ListSecretInv
<1> QED BY <1>1, <1>2, ListSecretStep, RestoreInvariant, PTL DEF Spec
=============================================================================
