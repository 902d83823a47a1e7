# The CSI plugin for Velero in TLA+

This directory holds TLA+ specifications of `velero-plugin-for-csi`, the TLC
runs that check them and proofs for TLAPS. They are about one question: what
becomes of a volume snapshot that a Velero backup takes through CSI, of the
operations that wait for it or move its data, and of the volumes that are
restored from it, whatever the order of the handlers, of the cluster's
controllers, of failing API calls, timeouts and restarts.

Paths below are relative to `src/internal/` unless they start with `src/`.

## 1. The system

Velero runs the plugin's *item actions* on the objects it backs up, restores or
deletes. The actions keep no state of their own: all state is in the cluster
(through the Kubernetes API), in Velero's backup tarball and in the storage
provider. An item action is a sequence of API calls; each call may fail, other
actions and controllers run between any two of them, and Velero may restart.

| component | state it works on | operations | in the model |
|---|---|---|---|
| PVC backup action, `backup/pvc_action.go` | VolumeSnapshot (VS), DataUpload | `Execute` (create a VS; with data mover: wait, create a DataUpload), `Progress`, `Cancel` | `Execute` up to the creation: `SnapshotBackup`, `PVCSnapshotDecision`; the rest: `AsyncOperations` |
| VolumeSnapshot backup action, `backup/volumesnapshot_action.go` | VS, VolumeSnapshotContent (VSC), tarball | `Execute` (wait, label, annotate; clean up on error; in the Finalizing phase remove the VS), `Progress`, `Cancel` (nothing) | `Execute`: `SnapshotBackup`; `Progress`, `Cancel`: `AsyncOperations` |
| VSC backup action, `backup/volumesnapshotcontent_action.go` | tarball | `Execute` | `RecordItems` in `SnapshotBackup`; its secret: `SnapshotRestore` |
| life cycle helpers, `util/util.go:218-282, 383-522` | VS, VSC | poll for the VSC, cleanup, set policy, delete VS, recreate VSC | `SnapshotBackup` |
| class selection, `util/util.go:125-215` | list of VolumeSnapshotClasses | `GetVolumeSnapshotClass` and the three ways to find one | `SnapshotClassSelection` |
| file-system uploader check, `util/util.go:68-124` | list of pods | `IsPVCDefaultToFSBackup` | `PVCSnapshotDecision` |
| VS delete action, `delete/volumesnapshot_action.go` | VS, VSC | `Execute` | `SnapshotBackup`; against restored objects: `SnapshotRestore` |
| VSC delete action, `delete/volumesnapshotcontent_action.go` | VSC | `Execute` | `SnapshotBackup`; against restored objects: `SnapshotRestore` |
| VSClass actions, `backup/`, `restore/volumesnapshotclass_action.go` | tarball, secrets | `Execute` names secrets | `SnapshotRestore` |
| VSC restore action, `restore/volumesnapshotcontent_action.go` | VSC, secrets | `Execute` | `SnapshotRestore` |
| VS restore action, `restore/volumesnapshot_action.go` | VS, static VSC | `Execute` (look for the VS; create a static VSC; reset the VS to it) | `SnapshotRestore` |
| PVC restore action, `restore/pvc_action.go` | PVC, DataDownload | `Execute` (look for the PVC; make it a clone of the VS, or create a DataDownload), `Progress`, `Cancel` | `Execute`: `SnapshotRestore`; the rest: `AsyncOperations` |
| registration and packaging, `src/main.go`, `src/hack/cp-plugin` | none | start-up | not modelled: no behaviour |

Around the plugin, and external: Velero (phases of a backup, tarball, order of
the items, restart), the snapshot controller, the CSI sidecar and the storage
provider. They are modelled from what the plugin's code and comments rely on.

### How the components interact

1. Phase *InProgress*. For each PVC the PVC action decides whether to snapshot
   it and creates a VS with the label `velero.io/backup-name`. It returns the VS
   as an additional item, so the VS action runs on it: it polls until the VSC
   has a snapshot handle (10 minutes, or the backup's `csiSnapshotTimeout`),
   labels the VSC, annotates the VS with the handle and returns the VSC as an
   additional item. An error on the way to the VSC runs `CleanupVolumeSnapshot`.
   A VS that lies in an included namespace and was made by a user, or by another
   backup, goes through the same action without the wait.
2. Phase *Finalizing*. Velero calls the VS action again on the items to update.
   The action sets the policy of the VSC to Retain if it is Delete, deletes the
   VS, deletes the VSC, waits until it is gone and creates it again as a static
   one that refers to no VS.
3. Deletion of the backup. Velero calls the delete actions on the recorded VS
   and VSC. Each sets the policy to Delete, when the label names the backup, and
   deletes its object; the controllers then free the snapshot.
4. Restore. Velero restores class, VSC, VS and PVC in this order. The VSC action
   returns its item as it is. The VS action, unless it finds a VS of that name in
   the target namespace, creates a static VSC with policy Retain for the recorded
   handle and makes it the source of the VS, which Velero then creates. The PVC
   action, unless it finds the PVC, makes that VS the source of the PVC and
   enlarges the request to the size of the snapshot; with moved data it creates a
   DataDownload. The snapshot controller binds VS and VSC, the CSI provisioner or
   the data mover fills the volume. The restored VS keeps the name and the label
   of the recorded one, so the delete actions and later backups meet it.

### What is hard about it, and what makes each component correct

The hazards are listed in `PROJECT.json`, each at its line, with the properties
that cover it. In short:

- *VS backup action and helpers.* The policy of a VSC is read in one call and
  relied on in a later one; two backups work on the same objects; the cleanup
  runs on any error and in any phase. Correct means: a snapshot is lost only
  when its backup is being deleted or somebody was told (`NoSilentLoss`), what a
  backup lists can be restored (`RecordedHasHandle`), a completed backup keeps
  exactly a protected VSC (`OnlyContentRemains`, `ContentKept`,
  `RetainedUntilDeleted`), a user's snapshot is left alone
  (`UserSnapshotUntouched`), a failed attempt leaves nothing (`FailureReleases`,
  `FailureReclaims`).
- *Delete actions.* They meet a static VSC, or a VS that is gone, and run in
  either order. Correct means: they leave nothing undone (`DeletionReleases`), and
  the snapshot is freed (`DeletionReclaims`).
- *PVC action's decision.* A PVC that is left to the uploader is on the uploader's
  list (`SkippedIsCovered`).
- *Class selection.* The class is one that the documented rules allow, whatever
  the order of the list (`ClassIsCandidate`).
- *Asynchronous operations.* Calls fail, operations time out and Velero restarts
  while the mover goes on. Correct means: an operation is recorded as done only
  with the success of its object (`NoFalseSuccess`), a transfer as failed only for a
  reason (`NoFalseFailure`), nobody moves data unknown to Velero
  (`NoStrayTransfer`), and every end is reported (`EndIsReported`).
- *Restore actions.* What they look for may come or go before Velero creates the
  item they return; the VSC and the DataDownload are created before what they are
  for; several restores share one snapshot; the backup may be deleted meanwhile.
  Correct means: nothing that happens to restored objects costs the backup its
  snapshot (`SnapshotKept`), no VSC and no DataDownload is orphaned in silence
  (`ContentAccounted`, `DownloadHasTarget`), a PVC gets the data of the backup and
  no other (`RestoredData`), does not wait for what cannot come (`ClaimsServed`), is
  not given up in silence (`RestoreSettles`), and gets its data (`RestoreDelivers`), and
  the secret of the class is there for it (`ListSecretFirst`).

## 2. The modules

| module | models |
|---|---|
| `CsiCluster` | the API objects VS and VSC, the storage provider's snapshot, and the external controllers |
| `SnapshotBackup` | the actions on VS and VSC over the life of several backups; EXTENDS `CsiCluster` |
| `SnapshotLedger` | abstract specification: what is promised about the snapshots, without VS, VSC or handlers |
| `SnapshotBackupProofs` | theorems about `SnapshotBackup` |
| `SnapshotKeepingProofs` | theorems about `SnapshotBackup` that need some calls to be answered; EXTENDS `SnapshotBackupProofs` |
| `SnapshotReleaseProofs` | theorems about the deletion of a backup in `SnapshotBackup`; EXTENDS `SnapshotKeepingProofs` |
| `SnapshotAttemptProofs` | theorems about failed attempts in `SnapshotBackup`; EXTENDS `SnapshotBackupProofs` |
| `SnapshotClassSelection` | `GetVolumeSnapshotClass` as operators |
| `PVCSnapshotDecision` | `PVCBackupItemAction.Execute` up to the creation; EXTENDS `SnapshotClassSelection` |
| `AsyncOperations` | creation, `Progress` and `Cancel` of the asynchronous operations: snapshots, DataUploads, DataDownloads |
| `AsyncOperationsProofs` | theorems about `AsyncOperations` |
| `PVCSnapshotDecisionProofs` | theorems about `PVCSnapshotDecision` |
| `SnapshotRestore` | repeated restores of a PVC: the restore actions, and the delete actions and a cleanup that meet what they made |
| `SnapshotRestoreProofs` | theorems about `SnapshotRestore` |
| `MCSnapshotBackup`, `MCPVCSnapshotDecision`, `MCAsyncOperations`, `MCSnapshotRestore` | values of the constants for TLC |

### `CsiCluster`

A member `s` of `Snap` is one volume snapshot in its three forms: `vs[s]`,
`vsc[s]` and `cloud[s]`. The static VSC that `recreateVolumeSnapshotContent`
makes keeps the name of the dynamic one, so both are `vsc[s]`. An object is
absent, live, or deleting (it has a deletion timestamp and waits for its
finalizers). The controllers create the VSC of a VS with the policy of its
class, bind the VS, take the snapshot and set the handle, and finish deletions:
a deleted VS takes a dynamic VSC with policy Delete along; a VSC is released
when its VS is gone or going; with policy Delete the snapshot is erased.

### `SnapshotBackup`

A *task* `<<b, s>>` is the work of backup `b` on snapshot `s`. `pc` says where
its handler stands, one value per API call, and `loc` holds the handler's local
variables: the VS item as Velero passed it, the VSC it read, whether the
recreation is deferred. `rec` is what the tarball says, `phase` the phase of the
backup, `todo` what the deletion has yet to visit. `reported` and `killed` are
histories: who returned an error, whom a restart cut off. `budget` bounds the
failures. The handlers of one backup run one after the other (`Quiet`), those of
different backups interleave freely.

| action | code |
|---|---|
| `PVCExecute` | `backup/pvc_action.go:67-173` |
| `FetchSnapshot` | `backup/volumesnapshot_action.go:61-98`, up to the first call |
| `GetSnapshot`, `GetContent` | `util/util.go:218-282`, the two calls of the poll |
| `CleanupGet`, `CleanupPatch`, `CleanupDelete` | `util/util.go:397-419` |
| `LabelContent`, `AnnotateSnapshot` | `backup/volumesnapshot_action.go:111-175` |
| `RecordItems` | what Velero saves of `:177-208` and of `backup/volumesnapshotcontent_action.go:51-88` |
| `FinalizePatch`, `FinalizeDelete` | `util/util.go:423-462` |
| `RecreateDelete`, `RecreateWait`, `RecreateCreate` | `util/util.go:469-522` |
| `DeleteVSPatch`, `DeleteVSDelete` | `delete/volumesnapshot_action.go:32-71` |
| `DeleteVSCPatch`, `DeleteVSCDelete` | `delete/volumesnapshotcontent_action.go:31-77` |
| `StartBackup`, `EndInProgress`, `StartFinalize`, `CompleteBackup`, `RequestDelete`, `Visit`, `FinishDelete`, `Crash` | Velero, external |

A call succeeds, finds its object missing (when it is), or fails for a reason of
its own (`Fails`, for the calls in `Flaky`); a failing call that changes something
may have taken effect all the same, when just its answer is lost. A wait may end by
its timeout at any time. Every alternative goes where the code goes: an error of the label patch is
dropped, one of the annotation is returned without a cleanup, those of the
finalization are dropped. `FetchSnapshot` of a VS that is gone ends the task:
Velero cannot back up what is not there.

What is assumed of Velero: one backup is in progress at a time; items to update
are processed again in the Finalizing phase, once the operations are over or
timed out (so `StartFinalize` waits for nothing); a restart marks the backup in
progress as failed, without a tarball, and repeats a finalization or a deletion;
the deletion visits the recorded items in any order and goes on after errors.

Left out of the data: contents of the annotations but for the handle, restore
sizes, secrets, the names of the objects, and label values (`HasBackupLabel`
compares names, as `label.GetValidName` is taken to be one-to-one).

### `SnapshotLedger`

Three variables: what the storage provider holds, which snapshots a backup's
tarball lists, and which ends are *due*. A snapshot is taken once, listed when
it was taken, erased or struck from the list only when that is due, and what is
due stays due. `SnapshotBackup` is shown to implement it with `store <- cloud`,
`listed <- ListedSnaps` and `due <- DueSnaps` (`LedgerKept`). A step of the
cluster or of a handler is one of `Take`, `List`, `Erase`, `Settle`, or changes
nothing in the ledger; `Crash` is a `Settle`.

### `SnapshotClassSelection`, `PVCSnapshotDecision`

`PVCSnapshotDecision` runs `Execute` stage by stage and chooses the cluster's
answer at each: which volumes of which pods name the PVC, which volumes the
uploader lists, which classes exist, what the annotations say. `SelectClass` takes
the class an annotation names, by an operator over the list the API server
returns. Without one, the loop of `GetVolumeSnapshotClassForStorageClass` goes on
one class per step, with its locals in `scan`.

| action | code |
|---|---|
| `CheckBackup`, `GetPV`, `ListPods` | `backup/pvc_action.go:67-116`, `util/util.go:52-124` |
| `SelectClass` | `backup/pvc_action.go:118-133`, `util/util.go:125-146` |
| `ScanClass`, `EndScan` | `util/util.go:193-209`, `:210-215` |
| `CreateSnapshot` | `backup/pvc_action.go:135-160` |

Names are in lower case (the code folds them); drivers are spelt in several ways
because an annotation's class is compared with `strings.EqualFold` and the
fallback with `==`.

### `AsyncOperations`

An operation `o` is a snapshot whose readiness Velero waits for, an upload or a
download. `transfer[o]` is its DataUpload or DataDownload (phase and
`spec.cancel`), `snapshot[o]` the status of its VS and VSC, `source[o]` whether
the VS that an upload reads is there, `op[o]` what Velero has on record. `pc[o]`
says where the work stands between two calls, so that the mover moves on between
the List and the Patch of a `Cancel`, and the VSC between the two GETs of a
`Progress`. `troubled` is a history: operations of which a call failed or that a
restart cut off before Velero had saved them.

| action | code |
|---|---|
| `WaitFails`, `CreateUpload`, `UndoUpload` | `backup/pvc_action.go:176-219`, `:306-366`, `util/util.go:524-529` |
| `CreateDownload` | `restore/pvc_action.go:441-463` |
| `StartSnapshot` | `backup/volumesnapshot_action.go:187-208` |
| `TransferProgress` | `backup/pvc_action.go:250-290`, `restore/pvc_action.go:226-273` |
| `SnapshotProgress`, `ContentProgress` | `backup/volumesnapshot_action.go:214-259`, `:261-290` |
| `CancelTransfer`, `CancelPatch` | `backup/pvc_action.go:292-303`, `:389-401`; `restore/pvc_action.go:275-296`, `:356-364` |
| `CallFails` (any of these calls, or a List without exactly one object) | `backup/pvc_action.go:368-387`, `restore/pvc_action.go:335-354` |
| `CancelSnapshot` | `backup/volumesnapshot_action.go:292-295` |
| `SaveOperation`, `RecordTimeout`, `Move`, `Reconcile`, `Crash` | Velero, data mover, snapshot controller, external |

Several results of the List, none, and a failing List are one alternative
(`CallFails`): each is an error that `Progress` or `Cancel` returns. A creation, a
patch or a deletion that fails may have reached the API server. The wait for the handle and its
cleanup are one step each here; their calls are those of `SnapshotBackup`.

What is assumed of Velero: it saves the operations of a backup or restore when
all items are processed and polls the saved ones; an error that `Progress`
returns, or an operation that is completed with an error text, is a failed one;
one that is completed without an error text is a done one; after its timeout an
operation is cancelled and then recorded as failed, whatever `Cancel` returns (a
restart may come between the two, and the cancelled transfer is polled); after a
restart the saved operations are polled again and the others forgotten. Of the
data mover: phases go forward, a cancelled transfer may still complete, and a
failed one has a message (`progress.Err` is that message, so an empty one would
count as a success). For a VSC this last point is in the model: an error without
a message ends the operation as done (state `silent`, `:279-284`), and
`NoFalseSuccess` is stated with that exception.

### `SnapshotRestore`

One PVC, backed up from the namespace `Home`, is restored up to `NumRestores`
times. `item` is what the backup holds of it: whether a VS with a handle is in
the tarball, whether the data was moved, whether the PVC bears the name of its VS
or DataUpload, the sizes, and the secrets that class and VSC name (to list snapshots and to delete
them). `vs[n]` and
`pvc[n]` are the objects of the recorded names in namespace `n`; `vsc[c]` are the
VSCs: `Original`, which the backup left, and one for each restore, as the VS
action generates a new name. `stored` is the snapshot in the storage provider.
`pc` is where the restore in progress stands, one value per API call or creation
by Velero, and `job` what its handlers have found out and what they return.
`told`, `removed`, `touched` and `cleaned` are histories: which restores reported
something, whose VS somebody asked to delete, whose PVC the user deleted, whose
VS another backup cleaned up.

| action | code |
|---|---|
| `RestoreClass` (and `SavedSecrets`) | `restore/volumesnapshotclass_action.go:47-75`, `backup/volumesnapshotclass_action.go:49-78` |
| `RestoreContent`, `NamedByContent` | `restore/volumesnapshotcontent_action.go:47-76` |
| `SkipVS`, `CheckVS` | `restore/volumesnapshot_action.go:65-99` |
| `CreateContent`, `StaticContent` | `restore/volumesnapshot_action.go:101-156` |
| `CheckPVC` | `restore/pvc_action.go:118-163`, `:465-475` |
| `GetBackup` | `restore/pvc_action.go:164-220` |
| `GetVS`, `RequestSize`, `Plan` | `restore/pvc_action.go:88-114`, `:414-439` |
| `StartDownload`, `NewDownload` | `restore/pvc_action.go:441-463`, `:366-412` |
| `OtherBackupCleans` | `util/util.go:397-419` |
| `DeleteVS`, `DeleteVSC` | `delete/volumesnapshot_action.go:32-71`, `delete/volumesnapshotcontent_action.go:31-77` |
| `StartRestore`, `ApplyVS`, `ApplyPVC`, `RequestDelete`, `FinishDelete`, `Crash`, `Bind`, `Provision`, `FinishVSDelete`, `FinishVSCDelete`, `User...` | Velero, the controllers and the user, external |

A GET that fails counts as absent in `IsVolumeSnapshotExists` and
`isResourceExist` (`Missed`); a creation, a patch or a deletion that fails may have
reached the API server. The delete actions and the cleanup are one step each here: `SnapshotBackup` has
their calls one by one.

What is assumed of Velero: one restore at a time, in the order above, whichever of
the snapshot resources it includes (`incl`); an item that exists already is left,
with a warning, so the restore has reported something; after an error of an
action the item is not restored and the next one is tried; a restart marks the
restore as failed. Of the controllers: a static VSC is bound to the VS it refers
to only; a VS that is its own PVC's snapshot needs the bound PVC; a VS being
deleted serves no new PVC, and goes only when no PVC waits for it.

## 3. The runs

All runs take `CHECK_DEADLOCK FALSE`: the system stops when every backup is
done, or when nobody deletes one.

| run | bounds | checks | distinct states |
|---|---|---|---|
| `faults` | backups `b1`, `b2`, snapshot `s1` of `b1`; both policies; any call may fail; one failure, one timeout, one restart | `TypeOK`, `SafetyInv`, `NoSilentLoss`, `RecordedHasHandle`, `KeptWhileAnswered`, `LedgerKept` | 293,193 |
| `pair` | `b1`, `b2`, `s1` of `b1`, `u` of a user; both policies; no failure; fair | `OnlyContentRemains`, `RetainedUntilDeleted`, `DeletionReleases`, `RemainingInv`, `UserSnapshotsInv`, `DeletionInv`, `UserSnapshotUntouched`, `DeletionReclaims` | 500,673 |
| `recreation` | `b1`, `b2`, `s1` of `b1`; both policies; two failures among the creation, annotation and deletion of the VS and the two patches of the VSC | `ContentKept`, `StayingInv` | 37,864 |
| `cleanup` | `b1`, `b2`, `s1` of `b1`; policy Delete; the calls on the VSC may fail; one failure, two timeouts, one restart; fair | `FailureReleases`, `AttemptsInv`, `FailureReclaims` | 249,426 |
| `operations` | one snapshot, one upload, one download; two failures, one timeout, one restart; fair | `TypeOK`, `NoFalseSuccess`, `NoFalseFailure`, `NoStrayTransfer`, `OperationInv`, `EndIsReported` | 343,675 |
| `restore` | two restores, two namespaces, four tarballs; one failing call, restart or foreign cleanup; one interference of the user; fair | `TypeOK`, `SnapshotKept`, `ContentAccounted`, `RestoredData`, `DownloadHasTarget`, `ListSecretFirst`, `RestoreInv`, `ClaimsServed`, `ServedInv`, `RestoreDelivers`, `RestoreSettles` | 625,001 |
| `decision` | 3 classes, 3 spellings of 2 drivers, lists up to 3; 2 pods of 2 volumes | `TypeOK`, `SkippedIsCovered`, `ClassIsCandidate`, `DecisionInv` | 576,530 |

What they show:

- `faults`: with a failure anywhere, a timeout and a restart, and a second
  backup that treats `s1` as foreign, no snapshot is lost in silence and the
  invariant of section 4 holds. The second backup is what matters: its cleanup
  patches the policy between two steps of the first one's finalization. Until a
  GET of the finalization has failed, the timeout and the restart, alone or
  together, do not cost a snapshot that is listed (`KeptWhileAnswered`).
- `pair`: when nothing fails, a completed backup leaves just the VSC, and snapshots
  live as long as their backup; the user's VS is touched by nobody.
  `OnlyContentRemains` allows a policy other than Retain when a task on the same
  snapshot is in trouble. That happens without any failure: the second backup
  reads the VS, the first removes it and its VSC, the second finds no VSC, cleans
  up, finds the VS still going, and its patch of the policy hits the VSC that the
  first has just recreated under the same name.
  A deletion frees the snapshot, in either order of the delete actions, also when
  another backup works on the same VS: when Velero is through with it, the VSC is
  going with policy Delete (`DeletionReleases`), and the sidecar erases the snapshot
  (`DeletionReclaims`). `RemainingInv`, `UserSnapshotsInv` and `DeletionInv`
  are what the proofs of `OnlyContentRemains`, `UserSnapshotUntouched` and
  `DeletionReleases` rest on.
- `recreation`: the VSC of a snapshot that a completed backup lists is there
  (`ContentKept`), although patches and deletions around the recreation fail, with or
  without effect, and VS or policy are then left as they were. `StayingInv` is what
  its proof rests on. The DELETE of the old VSC is not among the calls that may fail:
  when it takes effect and its answer is lost, `recreateVolumeSnapshotContent` returns
  before the wait and the creation (`util/util.go:480-483`), and TLC finds the VSC gone
  as in `recreate_timeout`, without any timeout.
- `cleanup`: when the action fails on a snapshot, nothing of it is left, if the
  class's policy is Delete: `Execute` returns the error only when VS and VSC are gone
  or going (`FailureReleases`), and they go with the snapshot (`FailureReclaims`). A
  failure in the Finalizing phase is not meant: the backup lists the snapshot by then
  and must keep it, so both properties are about snapshots that are not listed.
  `AttemptsInv` is the invariant behind the proof.
- `decision`: a PVC that is left to the uploader is on its list, and the class is
  a candidate by the rules of `src/README.md`, whatever the order of the list.
- `operations`: whatever fails and whenever the mover moves, Velero has an
  operation down as done only if the data is moved or the VSC ready (or silently
  failed, see above), and a transfer as failed only if its mover failed, it was told
  to stop or a call failed; a mover at work is polled, told to stop, or somebody was
  told of an error; and every end of an object is seen without a timeout. The
  exception in `NoStrayTransfer` is real: after one failing List Velero records a
  failure and the mover goes on, uncancelled.

- `restore`: a restored VS may be deleted, restored again or elsewhere, and the
  backup keeps its snapshot, since every static VSC has policy Retain; only the
  cleanup of another backup (`cleaned`) breaks that, as it patches the VSC that a
  restored VS is bound to. A VSC or DataDownload without its VS or PVC has an
  error, a warning, or a deletion behind it. The secret by which the class lists
  snapshots is in the cluster before a VSC is made (`ListSecretFirst`). The excuse of `RestoredData` is
  needed: when the VS is going while `IsVolumeSnapshotExists` looks, and gone when
  Velero creates it, it is created as recorded, with the PVC as its source, and VS
  and PVC can wait for each other or hold a later volume. A restore that reports
  nothing delivers (`RestoreDelivers`), whatever the deletion of the backup does at
  the same time, unless that takes the VS or the snapshot away. It is over only when
  the PVC is made from the snapshot or the moved data (`RestoreSettles`), and then
  all that its volume is made from is there and stays (`ClaimsServed`, `ServedInv`),
  also when a second restore makes its own VSC for the same handle.

Five runs end in a violation. Each checks one thing that a comment says and shows
by its trace that the code does otherwise; `PROJECT.json` quotes the comments.

| run | property | what happens |
|---|---|---|
| `user_vs_lost` | `UserSnapshotUntouched` | one failing GET of the VSC, and the cleanup deletes the VS a user made |
| `finalize_fault` | `RetainedUntilDeleted` | one failing GET in the Finalizing phase, and the cleanup erases a listed snapshot |
| `recreate_timeout` | `ContentKept` | the wait for the old VSC times out; it goes and none is created |
| `cleanup_leak` | `FailureReclaims` | policy Retain, VS not bound when the cleanup reads it: the snapshot stays |
| `label_leak` | `DeletionReclaims` | the label patch failed with a warning: the deletion skips the VSC |

### Bounds

The handlers of one backup are sequential and a task touches one snapshot, so a
snapshot with its own backup and one foreign backup has every interleaving of
interest; a second snapshot matters when a property relates owners (`pair`). The three operations of `operations` differ in kind and share only the
failures and the restart; two failures let the same operation fail in its creation
and again in its clean-up. One failure, one timeout and one restart are enough for
each error path to be taken in each phase and for two of them to follow each
other. A list of three classes has one of the driver, several of them, and one
with a label after one without. Of two restores the second meets all that the
first left, in the same namespace or in another (`MCTargets` sends the first one
home, where the delete actions find what it made); one failure and one
interference reach each error path with the user in between. The four tarballs of
`MCTarball` take every branch of the PVC action. The bounds are `MaxTrouble`
(`NumFaults`, `NumTimeouts`, `NumCrashes` in `MCSnapshotBackup`, fixed in
`MCAsyncOperations`, `NumFaults` and `NumUser` in `MCSnapshotRestore`),
`MaxClasses`, `MaxVolumes` and `NumRestores`; nothing else is bounded.

### Fairness

`FairSpec` has weak fairness of the controllers of each snapshot (they retry),
of each handler (Velero calls an action and waits for it; its calls return) and
of Velero's own steps. Nobody is obliged to delete a backup, and failures,
timeouts and restarts need not happen. So a wait whose object never comes may
last for ever in the model; the liveness properties do not depend on a timeout.
In `AsyncOperations` it is fair that Velero goes on polling, that the data mover
goes on and that the snapshot controller does; nothing is assumed of timeouts.
In `SnapshotRestore` a restore in progress goes on (Velero calls the actions one
after the other) and the controllers of a namespace bind and fill; deletions need
not finish and nobody is obliged to start a restore.

## 4. The proofs

`SnapshotBackupProofs` proves, for any sets of backups and snapshots, any owners,
any class policies, any flaky calls and any number of failures, timeouts and
restarts:

| theorem | statement |
|---|---|
| `TypeCorrect` | `Spec => []TypeOK` |
| `SafetyInvariant` | `Spec => []SafetyInv` |
| `NoSilentLossHolds` | `Spec => []NoSilentLoss` |
| `HandlesRecorded` | `Spec => []RecordedHasHandle` |
| `ImplementsLedger` | `Spec => LedgerKept`, the refinement |

They rest on the assumptions of `CsiCluster` and `SnapshotBackup`: `NoBackup` is
no backup, `Owner` maps snapshots to backups or `NoBackup`, the policies of the
classes are Delete or Retain, `Flaky` is a set of calls, `MaxTrouble` numbers.

The argument. `NoSilentLoss` is not inductive: that a VSC with policy Delete is
never released without an account depends on what each handler learnt before.
`SafetyInv` adds it, in named parts:

- `PhaseInv`: which handlers may stand where in which phase, and on whose snapshot;
- `LabelInv`: a VSC, or a copy of one, has the label of the VS's backup or none;
- `KnowledgeInv`: what the backup's own handlers know of its snapshot stays true:
  past the poll the VSC had a handle, so the snapshot was taken; a VS that is
  still there is bound, and annotated once recorded;
- `FinishInv`: when a finalization deletes the VS or the VSC, the content is
  `Protected`: absent, with policy Retain, or an account is due. A finalization
  that read Retain and skips the patch may rely on it although the read is old,
  because only tasks that are accounts set the policy to Delete;
- `ContentInv`: a VSC that goes, or may go along with its VS, is `Protected`.

`AccountedStable` carries it: an account once due stays due. A task that cleans
up becomes a reported one, or a killed one if Velero restarts; a deletion, once
requested, is not taken back. Lemmas then say what each kind of step may do to
the objects (`HandlerContent`, `HandlerSnapshot`, `ControllerContent`), and each
part is kept by each kind of step (`PhaseStep`, `LabelStep`, `KnowledgeStep`,
`FinishStep`, `ContentStep`). `LedgerStep` maps every step to the ledger.

`SnapshotKeepingProofs` proves what holds as long as certain calls do not fail, again
for any sets, owners and policies:

| theorem | assumes | statement |
|---|---|---|
| `KeepingInvariant` | nothing | `Spec => []KeptWhileAnswered` |
| `RetainedUntilDeletedHolds` | the two GETs of the poll do not fail | `Spec => []RetainedUntilDeleted` |
| `RemainingInvHolds` | `Smooth`: the two GETs, the policy patch, the deletion of VS and VSC and the creation of a VSC do not fail, no timeout, no restart | `Spec => []RemainingInv` |
| `OnlyContentRemainsHolds` | `Smooth` | `Spec => []OnlyContentRemains` |
| `StayingInvHolds` | `Recreated`: the two GETs, the deletion and the creation of a VSC do not fail, no timeout, no restart | `Spec => []StayingInv` |
| `ContentKeptHolds` | `Recreated` | `Spec => []ContentKept` |
| `UserSnapshotsInvHolds` | the GET of a VSC does not fail | `Spec => []UserSnapshotsInv` |
| `UserSnapshotUntouchedHolds` | the GET of a VSC does not fail | `Spec => UserSnapshotUntouched` |

The assumptions are about `Flaky` and `MaxTrouble`; all other calls may fail any
number of times, with or without effect. "Does not fail" means for a reason of its
own: a call still finds its object gone when it is. With a single failing GET,
`user_vs_lost` breaks `UserSnapshotUntouched` and `finalize_fault`
`RetainedUntilDeleted`. Of `Smooth` every part is needed: with any one of them dropped
TLC finds `OnlyContentRemains` violated. One failing creation or annotation of the VS
or label patch does not break it. `Recreated` is weaker than `Smooth`: the policy patch
and the deletion of the VS may fail any number of times, and the VSC is still there
when the backup is complete. With one failing GET, deletion or creation of a VSC, one
timeout or one restart, TLC finds `ContentKept` violated; a failing GET of the VS
breaks it in no run with one failure, and is excluded because `KeepingInv` is used.

- `UserInv`: a user's VS that is bound has its VSC, so the one read of it finds it
  and no cleanup begins (`UserHandler`, `UserController`).
- `KeepInv` of a backup and its own snapshot: before its VS exists nothing of the
  snapshot does (`UnusedInv`); until it is recorded, the VS stays, and a foreign
  backup that reads it finds what it looks for (`OpenInv`); once it is recorded, the
  snapshot is stored, what goes has policy Retain, and the cleanup of a foreign
  backup can start only when VS and dynamic VSC are gone, so that it can set the
  policy of the static VSC but delete nothing (`ObjectsInv`); what the finalization
  has read before it deletes stays true, also when a restart repeats it
  (`RelianceInv`). `Stranger` says what a foreign handler may do at all; the steps are
  `KeepController`, `KeepStranger`, `KeepVelero`, `KeepCrash`, `KeepHandler`.
  `KeptWhileAnswered` states it as an invariant without assumptions: it holds while
  no call has failed, or none of the two can.
- `RemainInv`: where the finalization stands says which of VS, dynamic VSC and static
  VSC are there, and a backup is complete when it stands at the end.
- `StayInv`: of a snapshot that is kept, the VSC is live but in
  the two steps in which the recreation waits for the old one and creates the new one.
  By `KeepingInv` no controller and no foreign cleanup deletes it (`StayController`,
  `StayHandler`), so the recreation finds the name free and puts the VSC back.

`SnapshotReleaseProofs` proves what the deletion of a backup achieves, for any sets,
owners and policies:

| theorem | assumes | statement |
|---|---|---|
| `DeletionInvariant` | `Faultless`: nothing fails but the creation of a VS or its annotation, no timeout, no restart | `Spec => []DeletionInv` |
| `DeletionReleasesHolds` | `Faultless` | `Spec => []DeletionReleases` |

`DeletionReleases` is the part of `DeletionReclaims` that is not liveness: a deleted
backup leaves of each snapshot it lists at most a VSC that is going, with policy
Delete and without a live VS, so that only the sidecar's step is missing
(`FinishContentDelete`). The argument has two parts.

- `LabelledInv`: the deletion goes by the label, which is put on the dynamic VSC and
  must still be there when the static one is deleted. The VSC has it from the label
  patch on, the copy that the finalization keeps to recreate it has it too, and the
  tarball has both (`LabelledHandler`). Neither controllers nor other backups take it
  away (`LabelledController`, `LabelledStranger`).
- `ReleaseInv`: a VSC that the deletion meets is live, or the snapshot is going
  already; as long as it is live, the visit of the VSC is queued or has set the policy
  to Delete and is about to delete the object. By `RemainingInv` the VS is gone, so
  the delete action of the VS has nothing to do and the order of the two visits does
  not matter (`ReleaseHandler`, `ReleaseVelero`). A foreign cleanup can only set the
  policy to Delete, never back (`ReleaseStranger`).

Of the assumptions TLC confirms most: with one failing GET, label patch, policy
patch, deletion or creation of a VSC, one timeout or one restart, `DeletionReleases` is
violated (a restart between the deletion of the dynamic VSC and its recreation: the
repeated finalization finds no VS, so no VSC is left to delete). A failing read or deletion of the VS
breaks it in no run; these two are assumed because `RemainingInv` is used.

`SnapshotAttemptProofs` proves what a failed attempt leaves, for any sets and owners
and any number of failures, timeouts and restarts:

| theorem | assumes | statement |
|---|---|---|
| `AttemptInvariant` | `Removable`: the class has policy Delete; creating, reading, annotating and deleting the VS do not fail | `Spec => []AttemptsInv` |
| `FailureReleasesHolds` | `Removable` | `Spec => []FailureReleases` |

`FailureReleases` is the part of `FailureReclaims` that is not liveness. Its invariant
holds from the beginning of the backup until the snapshot is listed for good, that is,
until a restart can no longer take the tarball away (`Tentative`): in this time nobody
finalizes (`NotFinishing`), so nobody sets a policy to Retain or makes a static VSC,
and the VSC keeps the policy Delete of its class and goes with its VS. A foreign
cleanup may take both away at any moment; the backup's own action then finds no VS and
fails, with nothing left. The patch of the policy in the cleanup is not needed here,
so it may fail. TLC finds `FailureReleases` violated with policy Retain (the VSC that
is bound too late, see `cleanup_leak`), and with one failing creation, read, annotation
or deletion of the VS, so no part of the assumption can be left out: a creation whose
answer is lost makes a VS that the PVC action returns an error for and nobody cleans up
(`backup/pvc_action.go:156-159`), a failed annotation returns an error without any
cleanup (`backup/volumesnapshot_action.go:167-171`), and `CleanupVolumeSnapshot` gives
up when its first read fails (`util/util.go:399-403`).

`AsyncOperationsProofs` proves, for any operations of any kinds and any number of
failures, timeouts and restarts (assuming just that `Kind` and `MaxTrouble` are
functions of these types):

| theorem | statement |
|---|---|
| `OperationInvariant` | `Spec => []OperationInv` |
| `OperationTypeCorrect` | `Spec => []TypeOK` |
| `NoFalseSuccessHolds` | `Spec => []NoFalseSuccess` |
| `NoFalseFailureHolds` | `Spec => []NoFalseFailure` |
| `NoStrayTransferHolds` | `Spec => []NoStrayTransfer` |

`OperationInv` is the three properties, the types and `RecordInv`: what is not saved
is still being submitted and its VS is in place, what is polled or cancelled is on
record as in progress, what is on record as ended has ended. A step on one
operation leaves the others alone (`KeepsOthers`), so each action is taken for one
operation (`ExecuteStep`, `PollStep`, `MoveStep`, `ReconcileStep`); only a restart
touches them all (`CrashStep`). The step of the mover is where it matters that a
phase never leaves `Completed`.

`SnapshotRestoreProofs` proves, for any number of restores, any namespaces and
targets, any tarballs and sizes and any number of failures, restarts and
interferences:

| theorem | statement |
|---|---|
| `RestoreInvariant` | `Spec => []RestoreInv` |
| `RestoreTypeCorrect` | `Spec => []TypeOK` |
| `SnapshotKeptHolds` | `Spec => []SnapshotKept` |
| `ContentAccountedHolds` | `Spec => []ContentAccounted` |
| `RestoredDataHolds` | `Spec => []RestoredData` |
| `DownloadHasTargetHolds` | `Spec => []DownloadHasTarget` |
| `ListSecretFirstHolds` | `Spec => []ListSecretFirst` |
| `ServedInvariant` | `Spec => []ServedInv` |
| `ClaimsServedHolds` | `Spec => []ClaimsServed` |
| `RestoreSettlesHolds` | `Spec => RestoreSettles` |

The assumptions are those of the module: `Original` and `FromPVC` are no restores,
`Nowhere` is no namespace, `Home` is one, `Targets`, `Tarball`, `Size` and
`MaxTrouble` are of their types. The first four properties are not inductive;
`RestoreInv` adds

- `PolicyInv`: while the backup stands and nobody cleaned up, every VSC has policy
  Retain, so whichever of them goes, the snapshot stays;
- `SourceInv`: a VS that is going, or that would snapshot its PVC, was deleted
  once, and so was the one about to be created as it was recorded, unless it is
  still there;
- `RefInv`, `JobInv`: a VSC of a restore refers to a VS of some namespace, and the
  one about to become the source of a VS is the restore's own, for that namespace.

`RestoreTypes`, `StartTypes`, `ControllerTypes`, `OutsideTypes` and
`DeletionTypes` keep the types, `RestoreParts`, `StartParts`, `ControllerParts`,
`OutsideParts` and `DeletionParts` the rest, action by action.

`ListSecretFirst` needs that only a restore of volumes, past its class, comes to make a
VSC (`ListSecretInv`, `ListSecretStep`).

`ClaimsServed` is the part of `RestoreDelivers` that is not liveness: a PVC that waits
can be filled, so that only binder, provisioner or data mover are missing. Its
invariant, `ServedInv`, adds to `RestoreInv`

- `FreshInv`: the restore in progress is the latest, and no VS names a VSC of it
  before Velero applies the one it made: the VSC it creates, or finds half created
  after an error, is nobody else's;
- `BindInv`: a VSC refers to the namespace of the VS it is the source of, and is live
  as long as that VS is and nobody asked for its deletion; so is the one that the VS
  about to be applied names;
- `ClaimInv`: the PVC about to be created is as large as the snapshot, its VS is
  there, or its DataDownload is.

`RestoreFrame` and `OutsideFrame` say what the steps of a restore and all the other
steps may do to VS, VSC and PVC; `FreshStep`, `BindStep`, `ClaimStep` and `ClaimsStep`
keep the parts. That the delete actions take `Original` away does not matter: no VS of
a restore is made from it. `RestoreSettlesHolds` needs `ClaimInv` at the last step, the
only one that can end a restore without an error.

`PVCSnapshotDecisionProofs` proves, for any pods and volumes, any drivers and
spellings, any classes and lists of any length:

| theorem | statement |
|---|---|
| `DecisionInvariant` | `Spec => []DecisionInv` |
| `DecisionTypeCorrect` | `Spec => []TypeOK` |
| `SkippedIsCoveredHolds` | `Spec => []SkippedIsCovered` |
| `ClassIsCandidateHolds` | `Spec => []ClassIsCandidate` |

It assumes that there is a driver and that `NoName` is no class's name; that no
name occurs twice in a list is what the API server guarantees (`DistinctNames`).
The rules of `src/README.md` speak of the whole list (`Candidates`), the code goes
through it. `ScanInv` connects them: none of the classes looked at is of the driver
and labelled; the count is 0, 1 or more as none, exactly the one in `last`, or at
least two of them are of the driver. Each turn of the loop keeps it (`ScanStep`), at
the end it decides between the single class and an error (`EndStep`), so no
induction over the list is needed. That the name the check of the pods compares
belongs to a volume of the PVC rests on a set of volumes having a least element,
which the library's theorem on well-founded orders gives.

Only model-checked is liveness (`DeletionReclaims`, `FailureReclaims`,
`EndIsReported`, `RestoreDelivers`), which is out of the prover's reach together
with ENABLED; of all but `EndIsReported` the safety half is proved (`DeletionReleases`,
`FailureReleases`, `ClaimsServed`).
Every invariant and every action property of a passing run has a theorem; those of
`SnapshotKeepingProofs`, `SnapshotReleaseProofs` and `SnapshotAttemptProofs` state the
calls that must not fail.

## 5. Not modelled

The components marked "no behaviour" in section 1, and the constants of
`util/labels_annotations.go`. Of the modelled ones:
the VS and VSC of the data-mover branch (an upload knows only whether its VS is
there); the format of operation IDs, taken to be unique; conversions to and from unstructured
objects, which fail only on malformed items; the construction of API clients; a
nil dereference where a VS has no class name (`backup/volumesnapshot_action.go:78`)
or an error no message (`util/util.go:261`); the message of a timeout
(`util/util.go:270-277`, text only: the error is returned either way); `Progress`,
`Cancel` and `AreAdditionalItemsReady` of the restore actions on VS, VSC and
class, which return constants; the annotations and the selector that the PVC
action removes or sets; a volume of the PVC that the uploader backs up as well
because a pod names the PVC twice (`util/util.go:87`: only the first is compared).

The secret to delete a snapshot with is not restored: `src/README.md:133` says that the
restore of a VS sets the annotations that name it, but the static VSC is made without
annotations (`restore/volumesnapshot_action.go:105-124`), `IsVolumeSnapshotHasVSCDeleteSecret`
is called nowhere, and no action sets the annotations after which
`restore/volumesnapshotcontent_action.go:65-66` names the secret. The model follows the
code (`NamedByContent`); no property is stated. Any value of the label
selects a class, a value of `false` too (`util/util.go:201`); the model has its presence.

## 6. Plan

1. Done: the core (`CsiCluster`, `SnapshotBackup`, its ledger and proofs) first,
   because all other components rely on the snapshots it keeps; then the decision
   that leads to a snapshot; then the asynchronous operations and their proofs.
2. Done: `SnapshotRestore`, with repeated restores and restarts, and its proofs.
3. The data-mover branch over `CsiCluster`: the mover deletes the VS when it has
   read it, and the clean-up after a failing creation can leave a VSC with policy
   Retain (`util/util.go:524-529` patches no policy).
4. Done: the conditional theorems about what is kept, and the selection of the
   class. So is the safety half of `DeletionReclaims`, `FailureReclaims` and
   `RestoreDelivers`.
5. In `SnapshotRestore`, the calls of the delete actions and of the cleanup one by
   one, as in `SnapshotBackup`.
