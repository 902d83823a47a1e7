-------------------------- MODULE AsyncOperations --------------------------
(***************************************************************************)
(* The asynchronous operations that the actions start and Velero polls:    *)
(*   - a snapshot: VolumeSnapshotBackupItemAction waits until the VSC is   *)
(*     ready to use;                                                       *)
(*   - an upload: PVCBackupItemAction submits a DataUpload (DU) for a VS;  *)
(*   - a download: PVCRestoreItemAction submits a DataDownload (DD).       *)
(* Velero, the data mover and the snapshot controller are external.        *)
(***************************************************************************)
EXTENDS Naturals

CONSTANTS
    Op,        \* the operations
    Kind,      \* Kind[o]: "snapshot", "upload" or "download"
    MaxTrouble \* how often a call fails, an operation times out, Velero restarts

Kinds    == {"snapshot", "upload", "download"}
Troubles == {"fault", "timeout", "crash"}

ASSUME KindAssumption    == Kind \in [Op -> Kinds]
ASSUME TroubleAssumption == MaxTrouble \in [Troubles -> Nat]

VARIABLES
    pc,        \* pc[o]: where the plugin's or Velero's work on o stands
    op,        \* op[o]: what Velero has on record of o
    transfer,  \* transfer[o]: the DU or DD of o
    source,    \* source[o]: the VS a DU reads is still there
    snapshot,  \* snapshot[o]: the status of the VS and of its VSC
    troubled,  \* operations of which a call failed or that a restart cut off (history)
    budget     \* how many troubles may still happen

vars == <<pc, op, transfer, source, snapshot, troubled, budget>>

Transfers == {o \in Op : Kind[o] # "snapshot"}

Terminal == {"Completed", "Failed", "Canceled"}
Phases   == {"", "New", "InProgress", "Canceling"} \cup Terminal
NoPhase  == "none"

\* silent: an error without a message.
SnapshotStates == [vs : {"pending", "error", "ready"},
                   content : {"pending", "error", "silent", "ready"}]

\* Operations, their objects and Velero's records of them keep their types.
TypeOK ==
    /\ pc \in [Op -> {"start", "undo", "submitted", "poll", "content", "cancel", "patch", "record", "end"}]
    /\ op \in [Op -> {"none", "inprogress", "completed", "failed"}]
    /\ transfer \in [Op -> [phase : Phases \cup {NoPhase}, cancel : BOOLEAN]]
    /\ source \in [Op -> BOOLEAN]
    /\ snapshot \in [Op -> SnapshotStates]
    /\ troubled \subseteq Op
    /\ budget \in [Troubles -> Nat]

\* The action of a snapshot has waited for its handle, so the VS is bound.
Init ==
    /\ pc = [o \in Op |-> "start"]
    /\ op = [o \in Op |-> "none"]
    /\ transfer = [o \in Op |-> [phase |-> NoPhase, cancel |-> FALSE]]
    /\ source = [o \in Op |-> TRUE]
    /\ snapshot = [o \in Op |-> [vs |-> "pending", content |-> "pending"]]
    /\ troubled = {}
    /\ budget = MaxTrouble

Spend(k) == budget[k] > 0 /\ budget' = [budget EXCEPT ![k] = @ - 1]
Goto(o, label) == pc' = [pc EXCEPT ![o] = label]
Blame(o) == troubled' = troubled \cup {o}

\* Velero records the end of o.
End(o, outcome) == op' = [op EXCEPT ![o] = outcome] /\ Goto(o, "end")

-----------------------------------------------------------------------------
(* Execute: the object is submitted, and Velero takes note of the operation.*)

\* Mutant: the phase is given a value of another type.
SubmitMisspelt(o) == transfer' = [transfer EXCEPT ![o].phase = "new"]

\* createDataUpload, newDataUpload: the status is left to the data mover.
Submit(o) == transfer' = [transfer EXCEPT ![o].phase = ""]

\* The wait for the handle of the VS fails or times out; CleanupVolumeSnapshot
\* follows.
WaitFails(o) ==
    /\ Kind[o] = "upload" /\ pc[o] = "start"
    /\ Spend("fault") \/ Spend("timeout")
    /\ Blame(o) /\ Goto(o, "undo")
    /\ UNCHANGED <<op, transfer, source, snapshot>>

\* createDataUpload; a call that fails may still have reached the API server.
CreateUpload(o) ==
    /\ Kind[o] = "upload" /\ pc[o] = "start"
    /\ \/ Submit(o) /\ Goto(o, "submitted") /\ UNCHANGED <<troubled, budget>>
       \/ /\ Spend("fault") /\ Blame(o)
          /\ Submit(o) \/ UNCHANGED transfer
          /\ Goto(o, "undo")
    /\ UNCHANGED <<op, source, snapshot>>

\* DeleteVolumeSnapshotIfAny, or the cleanup after the wait; Execute returns the
\* error.
UndoUpload(o) ==
    /\ pc[o] = "undo"
    /\ \/ source' = [source EXCEPT ![o] = FALSE] /\ UNCHANGED budget
       \/ Spend("fault") /\ source' \in {source, [source EXCEPT ![o] = FALSE]}
    /\ Goto(o, "end")
    /\ UNCHANGED <<op, transfer, snapshot, troubled>>

\* restoreFromDataUploadResult: no result, or no DD, is an error.
CreateDownload(o) ==
    /\ Kind[o] = "download" /\ pc[o] = "start"
    /\ \/ Submit(o) /\ Goto(o, "submitted") /\ UNCHANGED <<troubled, budget>>
       \/ /\ Spend("fault") /\ Blame(o)
          /\ Submit(o) \/ UNCHANGED transfer
          /\ Goto(o, "end")
    /\ UNCHANGED <<op, source, snapshot>>

\* The end of VolumeSnapshotBackupItemAction.Execute.
StartSnapshot(o) ==
    /\ Kind[o] = "snapshot" /\ pc[o] = "start"
    /\ Goto(o, "submitted")
    /\ UNCHANGED <<op, transfer, source, snapshot, troubled, budget>>

\* Velero saves the operations of a backup when all its items are processed.
SaveOperation(o) ==
    /\ pc[o] = "submitted"
    /\ op' = [op EXCEPT ![o] = "inprogress"]
    /\ Goto(o, "poll")
    /\ UNCHANGED <<transfer, source, snapshot, troubled, budget>>

-----------------------------------------------------------------------------
(* Progress.  Velero takes an error of the call for the end of the         *)
(* operation, and cancels one that is still running after its timeout.     *)

\* Mutant: a cancelled upload is one that is not running any more, and fine.
AnswerWithoutCanceled(phase) ==
    IF phase = "Failed" THEN "failed"
    ELSE IF phase \in Terminal THEN "completed" ELSE "running"

\* Mutant: the phase Canceled is not looked at.
AnswerForgetsCanceled(phase) ==
    IF phase = "Completed" THEN "completed"
    ELSE IF phase = "Failed" THEN "failed" ELSE "running"

\* PVCBackupItemAction.Progress, once it has the DU.
UploadAnswer(phase) ==
    IF phase = "Completed" THEN "completed"
    ELSE IF phase \in {"Failed", "Canceled"} THEN "failed" ELSE "running"

\* PVCRestoreItemAction.Progress, once it has the DD.
DownloadAnswer(phase) ==
    IF phase = "Completed" THEN "completed"
    ELSE IF phase \in {"Canceled", "Failed"} THEN "failed" ELSE "running"

\* VolumeSnapshotBackupItemAction.Progress, once it has the VSC: an error is
\* final, and one without a message leaves progress.Err empty.
SnapshotAnswer(content) ==
    CASE content = "ready"   -> "completed"
      [] content = "error"   -> "failed"
      [] content = "silent"  -> "completed"
      [] content = "pending" -> "running"

Answer(o) == IF Kind[o] = "upload" THEN UploadAnswer(transfer[o].phase)
             ELSE DownloadAnswer(transfer[o].phase)

StillRunning(o) ==
    /\ \/ Goto(o, "poll") /\ UNCHANGED budget
       \/ Goto(o, "cancel") /\ Spend("timeout")
    /\ UNCHANGED <<op, troubled>>

\* A call of Progress or Cancel fails, and for Velero the operation with it: the
\* list of getDataUpload too, also when it does not have exactly one object.
CallFails(o) == Spend("fault") /\ Blame(o) /\ End(o, "failed")

\* Progress of PVCRestoreItemAction, and of PVCBackupItemAction: getDataDownload
\* or getDataUpload, and the answer.
TransferProgress(o) ==
    /\ o \in Transfers /\ pc[o] = "poll"
    /\ \/ Answer(o) = "running" /\ StillRunning(o)
       \/ Answer(o) # "running" /\ End(o, Answer(o)) /\ UNCHANGED <<troubled, budget>>
       \/ CallFails(o)
    /\ UNCHANGED <<transfer, source, snapshot>>

\* The VS: an error of it is temporary.
SnapshotProgress(o) ==
    /\ Kind[o] = "snapshot" /\ pc[o] = "poll"
    /\ \/ snapshot[o].vs = "error" /\ StillRunning(o)
       \/ snapshot[o].vs # "error" /\ Goto(o, "content") /\ UNCHANGED <<op, troubled, budget>>
       \/ CallFails(o)
    /\ UNCHANGED <<transfer, source, snapshot>>

\* The VSC.
ContentProgress(o) ==
    LET answer == SnapshotAnswer(snapshot[o].content) IN
    /\ pc[o] = "content"
    /\ \/ answer = "running" /\ StillRunning(o)
       \/ answer # "running" /\ End(o, answer) /\ UNCHANGED <<troubled, budget>>
       \/ CallFails(o)
    /\ UNCHANGED <<transfer, source, snapshot>>

-----------------------------------------------------------------------------
(* Cancel: whatever it returns, Velero records that the operation failed.  *)

\* PVCBackupItemAction.Cancel or PVCRestoreItemAction.Cancel finds the object;
\* VolumeSnapshotBackupItemAction.Cancel does nothing.
CancelTransfer(o) ==
    /\ o \in Transfers /\ pc[o] = "cancel"
    /\ \/ Goto(o, "patch") /\ UNCHANGED <<op, troubled, budget>>
       \/ CallFails(o)
    /\ UNCHANGED <<transfer, source, snapshot>>

CancelSnapshot(o) ==
    /\ Kind[o] = "snapshot" /\ pc[o] = "cancel"
    /\ End(o, "failed")
    /\ UNCHANGED <<transfer, source, snapshot, troubled, budget>>

\* Mutant: the patch is made between two equal objects.
PatchNothing(o) == UNCHANGED transfer

\* cancelDataUpload, cancelDataDownload: a merge patch of spec.cancel alone,
\* whatever has become of the object since it was read.
PatchCancel(o) == transfer' = [transfer EXCEPT ![o].cancel = TRUE]

CancelPatch(o) ==
    /\ pc[o] = "patch"
    /\ \/ PatchCancel(o) /\ Goto(o, "record") /\ UNCHANGED <<op, troubled, budget>>
       \/ CallFails(o) /\ (PatchCancel(o) \/ UNCHANGED transfer)
    /\ UNCHANGED <<source, snapshot>>

\* A restart may come between the patch and Velero's record of the timeout.
RecordTimeout(o) ==
    /\ pc[o] = "record"
    /\ End(o, "failed")
    /\ UNCHANGED <<transfer, source, snapshot, troubled, budget>>

-----------------------------------------------------------------------------
(* The data mover, the snapshot controller and a restart of Velero.        *)

Running(o) == transfer[o].phase \notin Terminal \cup {NoPhase}

\* The phases after the present one.
Following(t) ==
    CASE t.phase = ""           -> {"New"}
      [] t.phase = "New"        -> {"InProgress", "Failed"} \cup (IF t.cancel THEN {"Canceled"} ELSE {})
      [] t.phase = "InProgress" -> {"Completed", "Failed"} \cup (IF t.cancel THEN {"Canceling"} ELSE {})
      [] t.phase = "Canceling"  -> Terminal
      [] OTHER                  -> {}

Move(o) ==
    /\ Running(o)
    /\ \E p \in Following(transfer[o]) : transfer' = [transfer EXCEPT ![o].phase = p]
    /\ UNCHANGED <<pc, op, source, snapshot, troubled, budget>>

\* An error of the content is taken over by the VS, and goes when it is ready.
Reconcile(o) ==
    /\ Kind[o] = "snapshot" /\ pc[o] # "start"
    /\ \/ /\ snapshot[o].content = "pending"
          /\ \E c \in {"error", "silent", "ready"} :
                snapshot' = [snapshot EXCEPT ![o].content = c]
       \/ /\ snapshot[o].content \in {"error", "silent"}
          /\ snapshot' = [snapshot EXCEPT ![o].content = "ready"]
       \/ /\ snapshot[o].content \in {"error", "silent"} /\ snapshot[o].vs = "pending"
          /\ snapshot' = [snapshot EXCEPT ![o].vs = "error"]
       \/ /\ snapshot[o].content = "ready" /\ snapshot[o].vs # "ready"
          /\ snapshot' = [snapshot EXCEPT ![o].vs = "ready"]
    /\ UNCHANGED <<pc, op, transfer, source, troubled, budget>>

\* What Velero has saved is polled again; what it has not is forgotten.
Crash ==
    /\ Spend("crash")
    /\ pc' = [o \in Op |-> IF pc[o] = "end" THEN "end"
                           ELSE IF op[o] = "inprogress" THEN "poll" ELSE "end"]
    /\ troubled' = troubled \cup {o \in Op : pc[o] \in {"undo", "submitted"}}
    /\ UNCHANGED <<op, transfer, source, snapshot>>

-----------------------------------------------------------------------------
Execute(o) == WaitFails(o) \/ CreateUpload(o) \/ UndoUpload(o) \/ CreateDownload(o) \/ StartSnapshot(o)

Poll(o) ==
    \/ SaveOperation(o)
    \/ TransferProgress(o) \/ SnapshotProgress(o) \/ ContentProgress(o)
    \/ CancelTransfer(o) \/ CancelSnapshot(o) \/ CancelPatch(o) \/ RecordTimeout(o)

Next ==
    \/ \E o \in Op : Execute(o) \/ Poll(o) \/ Move(o) \/ Reconcile(o)
    \/ Crash

Spec == Init /\ [][Next]_vars

\* Velero polls, the data mover and the snapshot controller work; nothing is
\* assumed of timeouts.
FairSpec ==
    /\ Spec
    /\ \A o \in Op : WF_vars(Poll(o)) /\ WF_vars(Move(o)) /\ WF_vars(Reconcile(o))
-----------------------------------------------------------------------------
(* Properties.                                                             *)

\* The object of o has come to the end that a successful operation stands for.
\* An error without a message is the one the plugin takes for it as well.
Succeeded(o) ==
    IF o \in Transfers THEN transfer[o].phase = "Completed"
    ELSE snapshot[o].content \in {"ready", "silent"}

\* Velero never has an operation down as done while the data is not moved or
\* the snapshot not usable, whichever way failures, cancellations and restarts
\* interleave with the mover (progress.Completed and progress.Err in the three
\* Progress functions).
NoFalseSuccess == \A o \in Op : op[o] = "completed" => Succeeded(o)

\* The reverse for transfers: one that Velero has down as failed did fail, or has
\* been told to stop, or somebody knows of a call that failed.  The mover's
\* success is lost to nothing else (progress.Err in the two Progress functions of
\* the PVC actions, spec.cancel in their Cancel functions).
NoFalseFailure ==
    \A o \in Transfers :
        op[o] = "failed" /\ o \notin troubled =>
            transfer[o].phase \in {"Failed", "Canceled"} \/ transfer[o].cancel

\* A data mover at work is polled, told to stop, or somebody knows of a failure;
\* and an upload that Velero polls still has the VS it reads.
NoStrayTransfer ==
    \A o \in Transfers :
        /\ Running(o) /\ ~transfer[o].cancel /\ o \notin troubled =>
              pc[o] = "submitted" \/ op[o] = "inprogress"
        /\ op[o] = "inprogress" => source[o]

\* The object of o has come to an end of its own.
Settled(o) ==
    IF o \in Transfers THEN transfer[o].phase \in Terminal
    ELSE snapshot[o] = [vs |-> "ready", content |-> "ready"]

\* Every end of an object is seen by Progress, without the help of a timeout:
\* no operation stays in progress over an object that is done, failed or
\* cancelled.
EndIsReported ==
    \A o \in Op : Settled(o) /\ op[o] = "inprogress" ~> op[o] # "inprogress"
-----------------------------------------------------------------------------
(* The inductive invariant behind the three invariants.                    *)

\* Velero's record and the place where the work stands go together: only what
\* is not saved yet is still being submitted, with the VS it reads in place, and
\* only what has ended is recorded as ended.
RecordInv ==
    \A o \in Op :
        /\ pc[o] \in {"start", "undo", "submitted"} => op[o] = "none" /\ source[o]
        /\ pc[o] \in {"poll", "content", "cancel", "patch", "record"} => op[o] = "inprogress"
        /\ pc[o] = "record" => transfer[o].cancel
        /\ op[o] \in {"completed", "failed"} => pc[o] = "end"
        /\ pc[o] = "content" => o \notin Transfers

OperationInv == TypeOK /\ RecordInv /\ NoFalseSuccess /\ NoFalseFailure /\ NoStrayTransfer
=============================================================================
