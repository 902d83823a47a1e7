-------------------------- MODULE SnapshotRestore --------------------------
(***************************************************************************)
(* The restore of one PVC whose volume a backup holds as a CSI snapshot or *)
(* as moved data, any number of times and into any namespaces:             *)
(*   - VolumeSnapshotClass- and VolumeSnapshotContentRestoreItemAction     *)
(*     name the secrets to restore along;                                  *)
(*   - VolumeSnapshotRestoreItemAction creates a static content (VSC) for  *)
(*     the recorded snapshot handle and binds the VolumeSnapshot (VS);     *)
(*   - PVCRestoreItemAction makes the PVC a clone of that VS, or creates a *)
(*     DataDownload for it.                                                *)
(* Meanwhile the user removes what was restored, the backup is deleted,    *)
(* another backup cleans up a VS it could not save, and Velero restarts.   *)
(*                                                                         *)
(* Velero runs one restore at a time and gives the items to the actions in *)
(* the order class, content, VS, PVC.  vs[n] and pvc[n] are the objects of *)
(* the recorded names in namespace n.  A content is named after what makes *)
(* it: Original by the backup, r in Restore by restore r (GenerateName).   *)
(***************************************************************************)
EXTENDS Integers, FiniteSets

CONSTANTS
    NumRestores, \* how often the backup is restored
    Namespace,   \* where the PVC may be restored to
    Home,        \* the namespace it was backed up from
    Targets,     \* Targets[r]: where the namespace mapping of restore r may lead
    Nowhere,     \* the VolumeSnapshotRef of the recreated content: no namespace
    Original,    \* the content the backup left (recreateVolumeSnapshotContent)
    FromPVC,     \* the source of a VS that snapshots the PVC of its namespace
    Size,        \* storage sizes
    Tarball,     \* what the backup may have saved of the PVC
    MaxTrouble   \* how often a call fails or Velero restarts; the user interferes

Trouble == {"fault", "user"}
Secret  == {"lister", "snapshotter"}
Restore == 1..NumRestores    \* in the order they start
Content == Restore \cup {Original}
NoRestore == 0               \* none is in progress

\* vs: the VS is in the tarball, and has the handle and driver annotations;
\* moved: Spec.SnapshotMoveData; noted: the PVC bears the name of its VS or of
\* its DataUpload; request, size: of the PVC and of the snapshot (0: no
\* annotation); secrets: those that class and content name.
Items == [vs : {"none", "bare", "handle"}, moved : BOOLEAN, noted : BOOLEAN,
          request : Size, size : Size \cup {0}, secrets : SUBSET Secret]

ASSUME RestoreAssumption ==
    NumRestores \in Nat /\ Original \notin Restore /\ FromPVC \notin Content
ASSUME NamespaceAssumption == Home \in Namespace /\ Nowhere \notin Namespace
ASSUME TargetsAssumption   == Targets \in [Restore -> SUBSET Namespace]
ASSUME SizeAssumption      == Size \subseteq Nat
ASSUME TarballAssumption   == Tarball \subseteq Items
ASSUME TroubleAssumption   == MaxTrouble \in [Trouble -> Nat]

VARIABLES
    vs,         \* vs[n]: st, source (a content or FromPVC), bound
    vsc,        \* vsc[c]: st, policy, ref (namespace of its VS)
    pvc,        \* pvc[n]: st, source, size, data
    stored,     \* the storage provider has the backup's snapshot
    secrets,    \* the CSI secrets in the cluster
    downloads,  \* the DataDownloads: by which restore, for which namespace
    item,       \* what the tarball has of the PVC
    phase,      \* the phase of the backup
    todo,       \* the items the deletion of the backup has yet to visit
    pc,         \* where the restore in progress stands
    job,        \* the restore in progress and what its handlers have found out
    begun,      \* how many restores have started
    told,       \* restores that reported an error or a warning, or were cut off (history)
    removed,    \* namespaces whose VS somebody asked to delete (history)
    touched,    \* namespaces whose PVC the user deleted (history)
    cleaned,    \* namespaces whose VS another backup cleaned up (history)
    budget      \* how many troubles may still happen

objects  == <<vs, vsc, pvc, stored, secrets, downloads>>
deletion == <<phase, todo>>
history  == <<removed, touched, cleaned>>
vars == <<objects, item, deletion, pc, job, begun, told, history, budget>>

ObjectStates == {"absent", "live", "deleting"}
VSObjects  == [st : ObjectStates, source : Restore \cup {FromPVC}, bound : BOOLEAN]
VSCObjects == [st : ObjectStates, policy : {"Delete", "Retain"},
               ref : Namespace \cup {Nowhere}]

\* The source of a PVC: "asis" as in the tarball (or made by the user),
\* "empty" none, "vs" the VS, "download" a volume a DataDownload fills.
Sources    == {"asis", "empty", "vs", "download"}
PVCObjects == [st : {"absent", "pending", "bound"}, source : Sources,
               size : Size, data : {"none", "backup", "other"}]

NoVS  == [st |-> "absent", source |-> FromPVC, bound |-> FALSE]
NoVSC == [st |-> "absent", policy |-> "Retain", ref |-> Nowhere]

\* ns, pvs, incl: namespace, RestorePVs and the snapshot resources of the
\* restore; vs, pvc, size: what the actions made of the items.
Jobs == [restore : Restore \cup {NoRestore}, ns : Namespace, pvs : BOOLEAN,
         incl : SUBSET {"vs", "vsc"},
         vs : Restore \cup {FromPVC}, pvc : Sources, size : Size]

PCs == {"idle", "class", "content", "vs", "create", "applyvs",
        "pvc", "backup", "download", "getvs", "applypvc"}

\* The objects, the restore in progress and the histories keep their types.
TypeOK ==
    /\ vs \in [Namespace -> VSObjects]
    /\ vsc \in [Content -> VSCObjects]
    /\ pvc \in [Namespace -> PVCObjects]
    /\ stored \in BOOLEAN
    /\ secrets \subseteq Secret
    /\ downloads \subseteq Restore \X Namespace
    /\ item \in Items
    /\ phase \in {"completed", "deleting", "deleted"}
    /\ todo \subseteq {"vs", "vsc"}
    /\ pc \in PCs
    /\ job \in Jobs
    /\ pc = "idle" <=> job.restore = NoRestore
    /\ begun \in 0..NumRestores
    /\ told \subseteq Restore
    /\ removed \subseteq Namespace /\ touched \subseteq Namespace
    /\ cleaned \subseteq Namespace
    /\ budget \in [Trouble -> Nat]

\* The backup left a protected content and its snapshot (OnlyContentRemains of
\* SnapshotBackup); in another cluster there are no objects and no secrets.
Init ==
    /\ item \in Tarball
    /\ \E here \in BOOLEAN :
          /\ vsc = [c \in Content |->
                      IF c = Original /\ here /\ item.vs = "handle"
                      THEN [NoVSC EXCEPT !.st = "live"]
                      ELSE NoVSC]
          /\ secrets = IF here THEN item.secrets ELSE {}
    /\ vs = [n \in Namespace |-> NoVS]
    /\ pvc = [n \in Namespace |->
                 [st |-> "absent", source |-> "asis", size |-> item.request, data |-> "none"]]
    /\ stored = TRUE
    /\ downloads = {}
    /\ phase = "completed" /\ todo = {}
    /\ pc = "idle"
    /\ job = [restore |-> NoRestore, ns |-> Home, pvs |-> FALSE, incl |-> {},
              vs |-> FromPVC, pvc |-> "asis", size |-> item.request]
    /\ begun = 0 /\ told = {}
    /\ removed = {} /\ touched = {} /\ cleaned = {}
    /\ budget = MaxTrouble

-----------------------------------------------------------------------------
(* Helpers.                                                                *)

Spend(k) == budget[k] > 0 /\ budget' = [budget EXCEPT ![k] = @ - 1]
Fails    == Spend("fault")

Goto(label) == pc' = label

\* The action returns the item, changed or not, and Velero goes on with it.
Silent == UNCHANGED told
\* The action returns an error, or Velero finds another object in place of its
\* own: an error or a warning of the restore.
Tell == told' = told \cup {job.restore}

\* What IsVolumeSnapshotExists and isResourceExist say of an object: an error of
\* the GET counts as absent.
Found(object)  == object.st # "absent" /\ UNCHANGED budget
Missed(object) == IF object.st = "absent" THEN UNCHANGED budget ELSE Fails

\* The last item is done.
End ==
    /\ Goto("idle")
    /\ job' = [restore |-> NoRestore, ns |-> Home, pvs |-> FALSE, incl |-> {},
               vs |-> FromPVC, pvc |-> "asis", size |-> item.request]

\* A DELETE of the VS of n, by whomever.
RemoveVS(n) ==
    /\ vs' = [vs EXCEPT ![n].st = IF @ = "live" THEN "deleting" ELSE @]
    /\ removed' = IF vs[n].st # "absent" THEN removed \cup {n} ELSE removed

\* The snapshot resources in the tarball.
Saved == (IF item.vs = "none" THEN {} ELSE {"vs"})
            \cup (IF item.vs = "handle" THEN {"vsc"} ELSE {})

-----------------------------------------------------------------------------
(* Velero starts a restore of a backup that is there.                      *)

StartRestore(r) ==
    /\ pc = "idle" /\ r = begun + 1 /\ phase = "completed"
    /\ \E n \in Targets[r], pvs \in BOOLEAN, incl \in SUBSET Saved :
          /\ ~pvs => incl = {}    \* not read then
          /\ job' = [job EXCEPT !.restore = r, !.ns = n, !.pvs = pvs, !.incl = incl]
    /\ Goto("class")
    /\ begun' = r
    /\ UNCHANGED <<objects, item, deletion, told, history, budget>>

\* IsVolumeSnapshotClassHasListerSecret, IsVolumeSnapshotContentHasDeleteSecret
HasListerSecret == "lister" \in item.secrets
HasDeleteSecret == "snapshotter" \in item.secrets

\* Mutant: the backup action of the class returns no additional item.
SavedWithoutList == item.secrets \ {"lister"}

\* The backup actions of class and content return the secrets they name as
\* additional items that must be included.
SavedSecrets == item.secrets

\* What a restore action returns as additional items, Velero restores if it can.
RestoreSecrets(named) == secrets' = secrets \cup (named \cap SavedSecrets)

\* VolumeSnapshotClassRestoreItemAction.Execute
RestoreClass ==
    /\ pc = "class"
    /\ IF job.pvs /\ HasListerSecret
       THEN RestoreSecrets({"lister"}) ELSE UNCHANGED secrets
    /\ Goto("content")
    /\ UNCHANGED <<vs, vsc, pvc, stored, downloads, item, deletion, job, begun,
                   told, history, budget>>

\* The item of the secret is named after annotations that no action sets.
NamedByContent == {}

\* VolumeSnapshotContentRestoreItemAction.Execute
RestoreContent ==
    /\ pc = "content"
    /\ \/ /\ job.pvs /\ "vsc" \in job.incl
          /\ vsc' = IF vsc[Original].st = "absent"
                    THEN [vsc EXCEPT ![Original] = [NoVSC EXCEPT !.st = "live"]]
                    ELSE vsc
          /\ IF HasDeleteSecret THEN RestoreSecrets(NamedByContent) ELSE UNCHANGED secrets
       \/ /\ ~(job.pvs /\ "vsc" \in job.incl)
          /\ UNCHANGED <<vsc, secrets>>
    /\ Goto("vs")
    /\ UNCHANGED <<vs, pvc, stored, downloads, item, deletion, job, begun, told,
                   history, budget>>

-----------------------------------------------------------------------------
(* VolumeSnapshotRestoreItemAction.Execute                                 *)

VSRestored == job.pvs /\ "vs" \in job.incl

SkipVS ==
    /\ pc = "vs" /\ ~VSRestored
    /\ Goto("pvc")
    /\ UNCHANGED <<objects, item, deletion, job, begun, told, history, budget>>

CheckVS ==
    /\ pc = "vs" /\ VSRestored
    /\ \/ Found(vs[job.ns]) /\ Goto("applyvs") /\ Silent
       \/ /\ Missed(vs[job.ns])
          /\ IF item.vs = "handle" THEN Goto("create") /\ Silent
                                   ELSE Goto("pvc") /\ Tell
    /\ UNCHANGED <<objects, item, deletion, job, begun, history>>

\* Mutant: the policy recorded in the annotation of the VS is kept.
RecordedPolicy(n) == [st |-> "live", policy |-> "Delete", ref |-> n]

\* The content created by a restore for a VS in namespace n.
StaticContent(n) == [st |-> "live", policy |-> "Retain", ref |-> n]

\* Mutant: the VS is not reset to the content that was created.
CreateWithoutReset ==
    /\ pc = "create"
    /\ \/ /\ vsc' = [vsc EXCEPT ![job.restore] = StaticContent(job.ns)]
          /\ Goto("applyvs") /\ Silent
          /\ UNCHANGED <<job, budget>>
       \/ /\ Fails
          /\ Goto("pvc") /\ Tell
          /\ UNCHANGED <<vsc, job>>
    /\ UNCHANGED <<vs, pvc, stored, secrets, downloads, item, deletion, begun, history>>

\* A Create that fails may have reached the API server.
CreateContent ==
    LET created == [vsc EXCEPT ![job.restore] = StaticContent(job.ns)] IN
    /\ pc = "create"
    /\ \/ /\ vsc' = created
          /\ job' = [job EXCEPT !.vs = job.restore]
          /\ Goto("applyvs") /\ Silent
          /\ UNCHANGED budget
       \/ /\ Fails
          /\ vsc' \in {vsc, created}
          /\ Goto("pvc") /\ Tell
          /\ UNCHANGED job
    /\ UNCHANGED <<vs, pvc, stored, secrets, downloads, item, deletion, begun, history>>

\* Velero creates the VS, or finds that one exists and warns.
ApplyVS ==
    /\ pc = "applyvs"
    /\ \/ /\ vs[job.ns].st = "absent"
          /\ vs' = [vs EXCEPT ![job.ns] = [st |-> "live", source |-> job.vs, bound |-> FALSE]]
          /\ Silent
       \/ vs[job.ns].st # "absent" /\ Tell /\ UNCHANGED vs
    /\ Goto("pvc")
    /\ UNCHANGED <<vsc, pvc, stored, secrets, downloads, item, deletion, job, begun,
                   history, budget>>

-----------------------------------------------------------------------------
(* PVCRestoreItemAction.Execute                                            *)

Plan(source, size) == job' = [job EXCEPT !.pvc = source, !.size = size]

CheckPVC ==
    /\ pc = "pvc"
    /\ \/ /\ Found(pvc[job.ns])
          /\ Plan("asis", item.request) /\ Goto("applypvc")
       \/ /\ Missed(pvc[job.ns])
          /\ \/ ~job.pvs /\ Plan("empty", item.request) /\ Goto("applypvc")
             \/ job.pvs /\ Goto("backup") /\ UNCHANGED job
    /\ UNCHANGED <<objects, item, deletion, begun, told, history>>

GetBackup ==
    /\ pc = "backup"
    /\ \/ /\ phase # "deleted"
          /\ \/ ~item.noted /\ Plan("asis", item.request) /\ Goto("applypvc")
             \/ /\ item.noted
                /\ Goto(IF item.moved THEN "download" ELSE "getvs")
                /\ UNCHANGED job
          /\ Silent
          /\ UNCHANGED budget
       \/ phase = "deleted" /\ Tell /\ End /\ UNCHANGED budget
       \/ Fails /\ Tell /\ End
    /\ UNCHANGED <<objects, item, deletion, begun, history>>

\* newDataDownload: its restore and its target.
NewDownload == <<job.restore, job.ns>>

\* Mutant: the error is dropped and the PVC restored as it is.
DownloadErrorDropped ==
    LET created == downloads \cup {NewDownload} IN
    /\ pc = "download"
    /\ \/ /\ downloads' = created
          /\ Plan("download", item.request) /\ Goto("applypvc")
          /\ UNCHANGED budget
       \/ /\ Fails
          /\ downloads' \in {downloads, created}
          /\ Plan("asis", item.request) /\ Goto("applypvc")
    /\ Silent
    /\ UNCHANGED <<vs, vsc, pvc, stored, secrets, item, deletion, begun, history>>

\* restoreFromDataUploadResult: the result is looked up, the DataDownload created.
StartDownload ==
    LET created == downloads \cup {NewDownload} IN
    /\ pc = "download"
    /\ \/ /\ downloads' = created
          /\ Plan("download", item.request) /\ Goto("applypvc")
          /\ Silent
          /\ UNCHANGED budget
       \/ /\ Fails
          /\ downloads' \in {downloads, created}
          /\ Tell /\ End
    /\ UNCHANGED <<vs, vsc, pvc, stored, secrets, item, deletion, begun, history>>

\* Mutant: the size of the snapshot is ignored.
RecordedRequest == item.request

\* setPVCStorageResourceRequest: the larger of the two sizes.
RequestSize == IF item.request < item.size THEN item.size ELSE item.request

\* restoreFromVolumeSnapshot
GetVS ==
    /\ pc = "getvs"
    /\ \/ /\ vs[job.ns].st # "absent"
          /\ Plan("vs", RequestSize) /\ Goto("applypvc")
          /\ Silent
          /\ UNCHANGED budget
       \/ vs[job.ns].st = "absent" /\ Tell /\ End /\ UNCHANGED budget
       \/ Fails /\ Tell /\ End
    /\ UNCHANGED <<objects, item, deletion, begun, history>>

\* Velero creates the PVC, or finds that one exists and warns.
ApplyPVC ==
    /\ pc = "applypvc"
    /\ \/ /\ pvc[job.ns].st = "absent"
          /\ pvc' = [pvc EXCEPT ![job.ns] = [st |-> "pending", source |-> job.pvc,
                                             size |-> job.size, data |-> "none"]]
          /\ Silent
       \/ pvc[job.ns].st # "absent" /\ Tell /\ UNCHANGED pvc
    /\ End
    /\ UNCHANGED <<vs, vsc, stored, secrets, downloads, item, deletion, begun, history,
                   budget>>

\* Velero restarts and marks the restore in progress as failed.
Crash ==
    /\ pc # "idle" /\ Fails
    /\ Tell /\ End
    /\ UNCHANGED <<objects, item, deletion, begun, history>>

-----------------------------------------------------------------------------
(* The snapshot controller, the CSI sidecars and the data mover.           *)

others == <<item, deletion, pc, job, begun, told, history, budget>>

\* A VS is bound to the content it names, or to a new one of its PVC's volume.
Bind(n) ==
    /\ vs[n].st = "live" /\ ~vs[n].bound
    /\ \/ /\ vs[n].source # FromPVC
          /\ vsc[vs[n].source].st = "live" /\ vsc[vs[n].source].ref = n /\ stored
       \/ vs[n].source = FromPVC /\ pvc[n].st = "bound"
    /\ vs' = [vs EXCEPT ![n].bound = TRUE]
    /\ UNCHANGED <<vsc, pvc, stored, secrets, downloads, others>>

\* A PVC waits for its data; a VS that is going serves none.
Provision(n) ==
    /\ pvc[n].st = "pending"
    /\ \/ /\ pvc[n].source = "vs"
          /\ vs[n].st = "live" /\ vs[n].bound /\ pvc[n].size >= item.size
          /\ vs[n].source # FromPVC => stored
          /\ pvc' = [pvc EXCEPT ![n].st = "bound",
                        ![n].data = IF vs[n].source = FromPVC THEN "other" ELSE "backup"]
       \/ /\ pvc[n].source = "download"
          /\ \E r \in Restore : <<r, n>> \in downloads
          /\ pvc' = [pvc EXCEPT ![n].st = "bound", ![n].data = "backup"]
       \/ /\ pvc[n].source \in {"asis", "empty"}
          /\ pvc' = [pvc EXCEPT ![n].st = "bound", ![n].data = "other"]
    /\ UNCHANGED <<vs, vsc, stored, secrets, downloads, others>>

\* A VS stays while a PVC waits for its data; it takes its content along when
\* the policy of that is Delete.
FinishVSDelete(n) ==
    /\ vs[n].st = "deleting" /\ ~(pvc[n].st = "pending" /\ pvc[n].source = "vs")
    /\ vs' = [vs EXCEPT ![n] = NoVS]
    /\ vsc' = [c \in Content |->
                 IF c = vs[n].source /\ vs[n].bound /\ vsc[c].policy = "Delete"
                 THEN [vsc[c] EXCEPT !.st = IF @ = "live" THEN "deleting" ELSE @]
                 ELSE vsc[c]]
    /\ UNCHANGED <<pvc, stored, secrets, downloads, others>>

FinishVSCDelete(c) ==
    /\ vsc[c].st = "deleting"
    /\ stored' = (stored /\ vsc[c].policy = "Retain")
    /\ vsc' = [vsc EXCEPT ![c] = NoVSC]
    /\ UNCHANGED <<vs, pvc, secrets, downloads, others>>

-----------------------------------------------------------------------------
(* The user.                                                               *)

UserDeletesVS(n) ==
    /\ vs[n].st = "live" /\ Spend("user")
    /\ RemoveVS(n)
    /\ UNCHANGED <<vsc, pvc, stored, secrets, downloads, item, deletion, pc, job, begun,
                   told, touched, cleaned>>

UserDeletesPVC(n) ==
    /\ pvc[n].st # "absent" /\ Spend("user")
    /\ pvc' = [pvc EXCEPT ![n].st = "absent", ![n].data = "none"]
    /\ touched' = touched \cup {n}
    /\ UNCHANGED <<vs, vsc, stored, secrets, downloads, item, deletion, pc, job, begun,
                   told, removed, cleaned>>

UserCreatesPVC(n) ==
    /\ pvc[n].st = "absent" /\ Spend("user")
    /\ pvc' = [pvc EXCEPT ![n] = [st |-> "pending", source |-> "asis",
                                  size |-> item.request, data |-> "none"]]
    /\ UNCHANGED <<vs, vsc, stored, secrets, downloads, item, deletion, pc, job, begun,
                   told, history>>

-----------------------------------------------------------------------------
(* Another backup that includes n could not read the content of the VS and *)
(* runs CleanupVolumeSnapshot on it.                                       *)

\* Mutant: a policy the API server does not know.
PatchMisspelt(c) ==
    vsc' = [vsc EXCEPT ![c].policy = IF vsc[c].st # "absent" THEN "Deleted" ELSE @]

PatchPolicy(c) ==
    vsc' = [vsc EXCEPT ![c].policy = IF vsc[c].st # "absent" THEN "Delete" ELSE @]

OtherBackupCleans(n) ==
    /\ vs[n].st # "absent" /\ Fails
    /\ IF vs[n].bound /\ vs[n].source # FromPVC THEN PatchPolicy(vs[n].source)
                                                ELSE UNCHANGED vsc
    /\ RemoveVS(n)
    /\ cleaned' = cleaned \cup {n}
    /\ UNCHANGED <<pvc, stored, secrets, downloads, item, deletion, pc, job, begun, told,
                   touched>>

-----------------------------------------------------------------------------
(* The deletion of the backup.                                             *)

OwnSnapshot == item.noted /\ ~item.moved

RequestDelete ==
    /\ phase = "completed"
    /\ phase' = "deleting"
    /\ todo' = Saved
    /\ UNCHANGED <<objects, item, pc, job, begun, told, history, budget>>

Visit(what) == phase = "deleting" /\ what \in todo /\ todo' = todo \ {what}

\* VolumeSnapshotDeleteItemAction.Execute: the VS in the cluster under the
\* recorded name may be one that was restored.  A call that fails may have taken
\* effect, here as in DeleteVSC.
DeleteVS ==
    /\ Visit("vs")
    /\ \/ /\ OwnSnapshot /\ vsc[Original].st # "absent"
          /\ PatchPolicy(Original)
          /\ \/ RemoveVS(Home) /\ UNCHANGED budget
             \/ Fails /\ (RemoveVS(Home) \/ UNCHANGED <<vs, removed>>)
       \/ /\ ~(OwnSnapshot /\ vsc[Original].st # "absent")
          /\ UNCHANGED <<vs, vsc, removed, budget>>
       \/ OwnSnapshot /\ Fails /\ UNCHANGED <<vs, vsc, removed>>
    /\ UNCHANGED <<pvc, stored, secrets, downloads, item, phase, pc, job, begun, told,
                   touched, cleaned>>

\* The policy patched and the VSC deleted.
RemoveVSC(c) == vsc' = [vsc EXCEPT ![c].policy = "Delete", ![c].st = "deleting"]

\* VolumeSnapshotContentDeleteItemAction.Execute
DeleteVSC ==
    /\ Visit("vsc")
    /\ \/ /\ OwnSnapshot /\ vsc[Original].st # "absent"
          /\ \/ RemoveVSC(Original) /\ UNCHANGED budget
             \/ Fails /\ (RemoveVSC(Original) \/ PatchPolicy(Original))
       \/ /\ ~(OwnSnapshot /\ vsc[Original].st # "absent")
          /\ UNCHANGED <<vsc, budget>>
       \/ OwnSnapshot /\ Fails /\ UNCHANGED vsc
    /\ UNCHANGED <<vs, pvc, stored, secrets, downloads, item, phase, pc, job, begun, told,
                   history>>

FinishDelete ==
    /\ phase = "deleting" /\ todo = {}
    /\ phase' = "deleted"
    /\ UNCHANGED <<objects, item, todo, pc, job, begun, told, history, budget>>

-----------------------------------------------------------------------------
RestoreStep ==
    \/ RestoreClass \/ RestoreContent
    \/ SkipVS \/ CheckVS \/ CreateContent \/ ApplyVS
    \/ CheckPVC \/ GetBackup \/ StartDownload \/ GetVS \/ ApplyPVC

ControllerStep ==
    \/ \E n \in Namespace : Bind(n) \/ Provision(n) \/ FinishVSDelete(n)
    \/ \E c \in Content : FinishVSCDelete(c)

UserStep == \E n \in Namespace : UserDeletesVS(n) \/ UserDeletesPVC(n) \/ UserCreatesPVC(n)

DeletionStep == RequestDelete \/ DeleteVS \/ DeleteVSC \/ FinishDelete

Next ==
    \/ \E r \in Restore : StartRestore(r)
    \/ RestoreStep
    \/ Crash
    \/ ControllerStep
    \/ UserStep
    \/ \E n \in Namespace : OtherBackupCleans(n)
    \/ DeletionStep

Spec == Init /\ [][Next]_vars

\* A restore in progress goes on, and the controllers of a namespace keep
\* binding and filling; nobody is obliged to start or to delete anything.
Fairness ==
    /\ WF_vars(RestoreStep)
    /\ \A n \in Namespace : WF_vars(Bind(n) \/ Provision(n))

FairSpec == Spec /\ Fairness
-----------------------------------------------------------------------------
(* Properties.                                                             *)

\* Whatever is deleted in the cluster after a restore, the storage provider
\* keeps the backup's snapshot until the backup is deleted, or until another
\* backup cleans up the restored VS (restore/volumesnapshot_action.go:101-102:
\* "to make sure VS deletion in namespace will not delete Snapshot on cloud
\* provider").
SnapshotKept == ~stored => phase # "completed" \/ cleaned # {}

\* No restore leaves an orphaned content silently: the content it created
\* (restore/volumesnapshot_action.go:132) is the source of the VS it was made
\* for, or about to be, or the restore reported something, or somebody asked
\* for the deletion of that VS.
ContentAccounted ==
    \A r \in Restore : vsc[r].st = "live" =>
        \/ vs[vsc[r].ref].st # "absent" /\ vs[vsc[r].ref].source = r
        \/ pc = "applyvs" /\ job.restore = r /\ job.vs = r
        \/ r \in told
        \/ vsc[r].ref \in removed

\* A PVC that was made a clone of the restored VS has the data of the backup
\* and of no later volume, unless the VS it was to use was deleted
\* (restore/volumesnapshot_action.go:52-57, restore/pvc_action.go:116-117).
RestoredData ==
    \A n \in Namespace :
        pvc[n].st = "bound" /\ pvc[n].source = "vs" /\ pvc[n].data # "backup" => n \in removed

\* No DataDownload is left without the PVC it is to fill (the PVC is looked for
\* at restore/pvc_action.go:135, the DataDownload created at :457, the PVC
\* later), unless its restore reported something or the user deleted that PVC.
DownloadHasTarget ==
    \A r \in Restore, n \in Namespace : <<r, n>> \in downloads =>
        \/ pvc[n].st # "absent" /\ pvc[n].source = "download"
        \/ pc = "applypvc" /\ job.restore = r /\ job.pvc = "download" /\ job.ns = n
        \/ r \in told
        \/ n \in touched

\* A restore of the volume that reports no error and no warning ends with the
\* PVC bound and filled with the backup's data, however large the snapshot
\* (restore/pvc_action.go:427-433), unless somebody removed the VS, the PVC or
\* the snapshot meanwhile.
RestoreDelivers ==
    \A r \in Restore, n \in Namespace :
        (pc = "class" /\ job.restore = r /\ job.ns = n /\ job.pvs /\ item.noted)
        ~> \/ pvc[n].st = "bound" /\ pvc[n].data = "backup"
           \/ r \in told \/ n \in removed \cup touched \/ ~stored

\* What binder, data mover and provisioner need to fill the PVC of n.
Fillable(n) ==
    \/ pvc[n].source \in {"asis", "empty"}
    \/ pvc[n].source = "download" /\ \E r \in Restore : <<r, n>> \in downloads
    \/ /\ pvc[n].source = "vs" /\ pvc[n].size >= item.size
       /\ vs[n].st = "live" /\ vs[n].source # FromPVC
       /\ vsc[vs[n].source].st = "live" /\ vsc[vs[n].source].ref = n

\* No restored PVC waits for what never comes: what its volume is made from is
\* there, made for its namespace, and fits (restore/pvc_action.go:427-433,
\* :447-461), whatever other restores do, unless its VS was deleted.
ClaimsServed == \A n \in Namespace : pvc[n].st = "pending" /\ n \notin removed => Fillable(n)

\* A restore of the volume is over only when the PVC is made from the snapshot
\* or from moved data; else it reported something, or the user deleted the PVC
\* that was in the way (restore/pvc_action.go:135-136).
RestoreSettles ==
    [][pc # "idle" /\ pc' = "idle" /\ job.pvs /\ item.noted =>
          \/ pvc'[job.ns].st # "absent" /\ pvc'[job.ns].source \in {"vs", "download"}
          \/ job.restore \in told' \/ job.ns \in touched]_vars

\* A content that a restore made never stands in a cluster without the secret by
\* which its class lists snapshots: the class actions of backup and restore agree
\* on it, and the class is restored before the content is made, under the same
\* condition (backup/volumesnapshotclass_action.go:59-64,
\* restore/volumesnapshotclass_action.go:50-67, restore/volumesnapshot_action.go:67-132).
ListSecretFirst ==
    "lister" \in item.secrets /\ (\E r \in Restore : vsc[r].st # "absent") => "lister" \in secrets

-----------------------------------------------------------------------------
(* The inductive invariant behind the safety properties.                   *)

\* From the class on, a restore of volumes has the secret, and only such a
\* restore comes to make a content.
ListSecretInv ==
    /\ ListSecretFirst
    /\ pc \in {"content", "vs"} /\ job.pvs /\ "lister" \in item.secrets => "lister" \in secrets
    /\ pc = "create" /\ "lister" \in item.secrets => "lister" \in secrets

\* As long as nobody deletes on purpose, every content protects the snapshot.
PolicyInv == phase = "completed" /\ cleaned = {} => \A c \in Content : vsc[c].policy = "Retain"

\* A VS that is going, or that would snapshot its PVC, was deleted once: the
\* one about to be created as it was recorded was there when it was looked for.
SourceInv ==
    /\ \A n \in Namespace :
          vs[n].st = "deleting" \/ (vs[n].st = "live" /\ vs[n].source = FromPVC) => n \in removed
    /\ pc = "applyvs" /\ job.vs = FromPVC => vs[job.ns].st # "absent" \/ job.ns \in removed

\* A content that a restore created names a VS of some namespace.
RefInv == \A r \in Restore : vsc[r].st = "live" => vsc[r].ref \in Namespace

\* The VS is as recorded until the restore has a content for it: its own one,
\* made for the namespace.
JobInv ==
    /\ pc \in {"idle", "class", "content", "vs", "create"} => job.vs = FromPVC
    /\ pc = "applyvs" /\ job.vs # FromPVC =>
          /\ job.vs = job.restore
          /\ vsc[job.vs].st = "live" => vsc[job.vs].ref = job.ns

\* The invariant itself: the types, the named parts above, and the properties.
RestoreInv ==
    /\ TypeOK
    /\ PolicyInv
    /\ SourceInv
    /\ RefInv
    /\ JobInv
    /\ SnapshotKept
    /\ ContentAccounted
    /\ RestoredData
    /\ DownloadHasTarget

\* No VS has the content of the restore in progress before it is applied.
FreshInv ==
    /\ pc # "idle" => job.restore = begun
    /\ \A n \in Namespace : vs[n].source # FromPVC =>
          /\ vs[n].source <= begun
          /\ pc \in {"class", "content", "vs", "create", "applyvs"} => vs[n].source # job.restore

\* A content names the VS it is the source of, and stays while that VS does.
BindInv ==
    /\ \A n \in Namespace : vs[n].source # FromPVC =>
          vsc[vs[n].source].st = "absent" \/ vsc[vs[n].source].ref = n
    /\ \A n \in Namespace : vs[n].st = "live" /\ n \notin removed =>
          vs[n].source # FromPVC /\ vsc[vs[n].source].st = "live"
    /\ pc = "applyvs" /\ job.vs # FromPVC => vsc[job.vs].st = "live"

\* The PVC that is about to be created can be filled.
ClaimInv == pc = "applypvc" =>
    /\ job.pvc = "vs" =>
          job.size >= item.size /\ (vs[job.ns].st = "live" \/ job.ns \in removed)
    /\ job.pvc = "download" => NewDownload \in downloads
    /\ job.pvs /\ item.noted =>
          job.pvc \in {"vs", "download"} \/ pvc[job.ns].st # "absent" \/ job.ns \in touched

\* Every PVC that waits, or is about to, can be filled, because no restore
\* touches the content of another and a content stays as long as its VS.
ServedInv == FreshInv /\ BindInv /\ ClaimInv /\ ClaimsServed
=============================================================================
