----------------------- MODULE AsyncOperationsProofs -----------------------
(***************************************************************************)
(* Proofs about AsyncOperations, for any operations and any number of      *)
(* failures, timeouts and restarts.                                        *)
(***************************************************************************)
EXTENDS AsyncOperations, TLAPS

-----------------------------------------------------------------------------
(* The steps, each with what it needs to know of one operation.            *)

\* What a step on o must keep of o, given that it leaves the others alone.
Keeps(o) ==
    /\ pc[o] \in {"start", "undo", "submitted"} => op[o] = "none" /\ source[o]
    /\ pc[o] \in {"poll", "content", "cancel", "patch", "record"} => op[o] = "inprogress"
    /\ pc[o] = "record" => transfer[o].cancel
    /\ op[o] \in {"completed", "failed"} => pc[o] = "end"
    /\ pc[o] = "content" => o \notin Transfers
    /\ op[o] = "completed" => Succeeded(o)
    /\ o \in Transfers =>
          /\ Running(o) /\ ~transfer[o].cancel /\ o \notin troubled =>
                pc[o] = "submitted" \/ op[o] = "inprogress"
          /\ op[o] = "inprogress" => source[o]
          /\ op[o] = "failed" /\ o \notin troubled =>
                transfer[o].phase \in {"Failed", "Canceled"} \/ transfer[o].cancel

\* The invariant is the types and Keeps of every operation.
LEMMA Unfold == OperationInv <=> TypeOK /\ \A o \in Op : Keeps(o)
  BY DEF OperationInv, RecordInv, NoFalseSuccess, NoFalseFailure, NoStrayTransfer, Keeps,
         Transfers

\* The initial state satisfies the invariant.
LEMMA InitOperation == Init => OperationInv
<1> SUFFICES ASSUME Init PROVE TypeOK /\ \A o \in Op : Keeps(o)
  BY Unfold
<1>1. TypeOK
  BY TroubleAssumption DEF Init, TypeOK, SnapshotStates, Phases, NoPhase
<1>2. ASSUME NEW o \in Op PROVE Keeps(o)
  BY DEF Init, Keeps, Running, NoPhase
<1> QED BY <1>1, <1>2

\* What a step on o leaves alone: the other operations.
Others(o) ==
    \A x \in Op \ {o} :
        /\ pc'[x] = pc[x] /\ op'[x] = op[x] /\ transfer'[x] = transfer[x]
        /\ source'[x] = source[x] /\ snapshot'[x] = snapshot[x]
        /\ x \in troubled' <=> x \in troubled

\* Keeps of an operation that a step leaves alone stays true.
LEMMA KeepsOthers ==
    ASSUME NEW o \in Op, NEW x \in Op \ {o}, Others(o), Keeps(x)
    PROVE  Keeps(x)'
  BY DEF Others, Keeps, Succeeded, Running, Transfers

\* What a change of the phase of a transfer leaves alone.
LEMMA PhaseChanged ==
    ASSUME NEW o \in Op, TypeOK, NEW p \in Phases,
           transfer' = [transfer EXCEPT ![o].phase = p]
    PROVE  /\ transfer' \in [Op -> [phase : Phases \cup {NoPhase}, cancel : BOOLEAN]]
           /\ transfer'[o].phase = p /\ transfer'[o].cancel = transfer[o].cancel
           /\ \A x \in Op \ {o} : transfer'[x] = transfer[x]
  BY DEF TypeOK

\* Submit is such a change.
LEMMA Submitted ==
    ASSUME NEW o \in Op, TypeOK, Submit(o)
    PROVE  /\ transfer' \in [Op -> [phase : Phases \cup {NoPhase}, cancel : BOOLEAN]]
           /\ \A x \in Op \ {o} : transfer'[x] = transfer[x]
<1>1. "" \in Phases /\ transfer' = [transfer EXCEPT ![o].phase = ""]
  BY DEF Submit, Phases
<1> QED BY <1>1, PhaseChanged

\* What a cancellation of a transfer leaves alone.
LEMMA Cancelled ==
    ASSUME NEW o \in Op, TypeOK, PatchCancel(o)
    PROVE  /\ transfer' \in [Op -> [phase : Phases \cup {NoPhase}, cancel : BOOLEAN]]
           /\ transfer'[o].phase = transfer[o].phase /\ transfer'[o].cancel
           /\ \A x \in Op \ {o} : transfer'[x] = transfer[x]
  BY DEF TypeOK, PatchCancel

\* The kinds of steps, by what they do to the plugin's and Velero's places.
Moves(o) ==
    /\ pc' \in [Op -> {"start", "undo", "submitted", "poll", "content", "cancel", "patch", "record", "end"}]
    /\ op' \in [Op -> {"none", "inprogress", "completed", "failed"}]
    /\ \A x \in Op \ {o} : pc'[x] = pc[x] /\ op'[x] = op[x]
    /\ troubled' \subseteq Op /\ troubled \subseteq troubled' /\ troubled' \ troubled \subseteq {o}
    /\ budget' \in [Troubles -> Nat]

\* Goto, alone.
LEMMA Went ==
    ASSUME NEW o \in Op, TypeOK,
           NEW l \in {"start", "undo", "submitted", "poll", "content", "cancel", "patch", "record", "end"},
           Goto(o, l)
    PROVE  /\ pc' \in [Op -> {"start", "undo", "submitted", "poll", "content", "cancel", "patch", "record", "end"}]
           /\ pc'[o] = l /\ \A x \in Op \ {o} : pc'[x] = pc[x]
  BY DEF TypeOK, Goto

\* End.
LEMMA Ended ==
    ASSUME NEW o \in Op, TypeOK, NEW r \in {"completed", "failed"}, End(o, r)
    PROVE  /\ op' \in [Op -> {"none", "inprogress", "completed", "failed"}]
           /\ op'[o] = r /\ \A x \in Op \ {o} : op'[x] = op[x]
           /\ pc' \in [Op -> {"start", "undo", "submitted", "poll", "content", "cancel", "patch", "record", "end"}]
           /\ pc'[o] = "end" /\ \A x \in Op \ {o} : pc'[x] = pc[x]
<1>1. Goto(o, "end") /\ op' = [op EXCEPT ![o] = r]
  BY DEF End
<1> QED BY <1>1, Went DEF TypeOK

\* A call that fails ends the operation and is known of.
LEMMA Failed ==
    ASSUME NEW o \in Op, TypeOK, CallFails(o)
    PROVE  Moves(o) /\ op'[o] = "failed" /\ pc'[o] = "end" /\ o \in troubled'
<1>1. End(o, "failed") /\ troubled' = troubled \cup {o}
  BY DEF CallFails, Blame
<1>2. budget' \in [Troubles -> Nat]
  BY DEF CallFails, Spend, TypeOK, Troubles
<1> QED BY <1>1, <1>2, Ended DEF Moves, TypeOK

\* A running operation is polled again or cancelled.
LEMMA Continued ==
    ASSUME NEW o \in Op, TypeOK, StillRunning(o)
    PROVE  /\ Moves(o) /\ op' = op /\ troubled' = troubled
           /\ pc'[o] \in {"poll", "cancel"}
<1>1. budget' \in [Troubles -> Nat]
  BY DEF StillRunning, Spend, TypeOK, Troubles
<1>2. Goto(o, "poll") \/ Goto(o, "cancel")
  BY DEF StillRunning
<1> QED BY <1>1, <1>2, Went DEF StillRunning, Moves, TypeOK

\* Execute keeps the types and Keeps, and leaves the others alone.
LEMMA ExecuteStep ==
    ASSUME NEW o \in Op, TypeOK, Keeps(o), Execute(o)
    PROVE  TypeOK' /\ Keeps(o)' /\ Others(o)
<1>1. CASE CreateUpload(o)
  <2>1. transfer' = transfer \/ Submit(o)
    BY <1>1 DEF CreateUpload
  <2>2. /\ transfer' \in [Op -> [phase : Phases \cup {NoPhase}, cancel : BOOLEAN]]
        /\ \A x \in Op \ {o} : transfer'[x] = transfer[x]
    BY <2>1, Submitted DEF TypeOK
  <2>3. /\ Moves(o) /\ op' = op /\ op[o] = "none" /\ source[o]
        /\ pc'[o] = "submitted" \/ (pc'[o] = "undo" /\ o \in troubled')
    <3>1. Goto(o, "submitted") \/ (Goto(o, "undo") /\ troubled' = troubled \cup {o})
      BY <1>1 DEF CreateUpload, Blame
    <3>2. budget' \in [Troubles -> Nat] /\ op' = op /\ troubled' \in {troubled, troubled \cup {o}}
      BY <1>1 DEF CreateUpload, Blame, Spend, TypeOK, Troubles
    <3>3. op[o] = "none" /\ source[o]
      BY <1>1 DEF CreateUpload, Keeps
    <3> QED BY <3>1, <3>2, <3>3, Went DEF Moves, TypeOK
  <2>4. source' = source /\ snapshot' = snapshot
    BY <1>1 DEF CreateUpload
  <2> QED BY <2>2, <2>3, <2>4 DEF TypeOK, Keeps, Others, Moves, Running, Transfers, Succeeded
<1>2. CASE UndoUpload(o)
  <2>1. /\ source' \in [Op -> BOOLEAN] /\ \A x \in Op \ {o} : source'[x] = source[x]
        /\ budget' \in [Troubles -> Nat]
    <3>1. source' \in {source, [source EXCEPT ![o] = FALSE]}
      BY <1>2 DEF UndoUpload
    <3>2. budget' \in [Troubles -> Nat]
      BY <1>2 DEF UndoUpload, Spend, TypeOK, Troubles
    <3> QED BY <3>1, <3>2 DEF TypeOK
  <2>2. /\ op' = op /\ transfer' = transfer /\ snapshot' = snapshot /\ troubled' = troubled
        /\ op[o] = "none" /\ pc[o] = "undo"
    BY <1>2 DEF UndoUpload, Keeps
  <2>3. /\ pc'[o] = "end" /\ \A x \in Op \ {o} : pc'[x] = pc[x]
        /\ pc' \in [Op -> {"start", "undo", "submitted", "poll", "content", "cancel", "patch", "record", "end"}]
    BY <1>2, Went DEF UndoUpload
  <2> QED BY <2>1, <2>2, <2>3 DEF TypeOK, Keeps, Others, Running, Transfers, Succeeded
<1>3. CASE CreateDownload(o)
  <2>1. transfer' = transfer \/ Submit(o)
    BY <1>3 DEF CreateDownload
  <2>2. /\ transfer' \in [Op -> [phase : Phases \cup {NoPhase}, cancel : BOOLEAN]]
        /\ \A x \in Op \ {o} : transfer'[x] = transfer[x]
    BY <2>1, Submitted DEF TypeOK
  <2>3. /\ Moves(o) /\ op' = op /\ op[o] = "none" /\ source[o]
        /\ pc'[o] = "submitted" \/ (pc'[o] = "end" /\ o \in troubled')
    <3>1. Goto(o, "submitted") \/ (Goto(o, "end") /\ troubled' = troubled \cup {o})
      BY <1>3 DEF CreateDownload, Blame
    <3>2. budget' \in [Troubles -> Nat] /\ op' = op /\ troubled' \in {troubled, troubled \cup {o}}
      BY <1>3 DEF CreateDownload, Blame, Spend, TypeOK, Troubles
    <3>3. op[o] = "none" /\ source[o]
      BY <1>3 DEF CreateDownload, Keeps
    <3> QED BY <3>1, <3>2, <3>3, Went DEF Moves, TypeOK
  <2>4. source' = source /\ snapshot' = snapshot
    BY <1>3 DEF CreateDownload
  <2> QED BY <2>2, <2>3, <2>4 DEF TypeOK, Keeps, Others, Moves, Running, Transfers, Succeeded
<1>4. CASE StartSnapshot(o)
  <2>1. /\ pc'[o] = "submitted" /\ \A x \in Op \ {o} : pc'[x] = pc[x]
        /\ pc' \in [Op -> {"start", "undo", "submitted", "poll", "content", "cancel", "patch", "record", "end"}]
    BY <1>4, Went DEF StartSnapshot
  <2> QED BY <1>4, <2>1 DEF StartSnapshot, TypeOK, Keeps, Others, Running, Transfers, Succeeded
<1>5. CASE WaitFails(o)
  <2>1. budget' \in [Troubles -> Nat]
    BY <1>5 DEF WaitFails, Spend, TypeOK, Troubles
  <2>2. /\ pc'[o] = "undo" /\ \A x \in Op \ {o} : pc'[x] = pc[x]
        /\ pc' \in [Op -> {"start", "undo", "submitted", "poll", "content", "cancel", "patch", "record", "end"}]
    BY <1>5, Went DEF WaitFails
  <2>3. /\ UNCHANGED <<op, transfer, source, snapshot>> /\ pc[o] = "start"
        /\ troubled' = troubled \cup {o}
    BY <1>5 DEF WaitFails, Blame
  <2> QED BY <2>1, <2>2, <2>3 DEF TypeOK, Keeps, Others, Running, Transfers, Succeeded
<1> QED BY <1>1, <1>2, <1>3, <1>4, <1>5 DEF Execute

\* So does a step of Velero's that leaves the objects alone and either goes on
\* with the operation, or ends it with a cause.
LEMMA PolledStep ==
    ASSUME NEW o \in Op, TypeOK, Keeps(o), Moves(o), UNCHANGED <<transfer, source, snapshot>>,
           pc[o] \in {"poll", "content", "cancel", "patch", "record"},
           \/ /\ op' = op /\ pc'[o] \in {"poll", "content", "cancel", "patch"}
              /\ pc'[o] = "content" => o \notin Transfers
           \/ /\ pc'[o] = "end" /\ op'[o] \in {"completed", "failed"}
              /\ op'[o] = "completed" => Succeeded(o)
              /\ o \in Transfers /\ op'[o] = "failed" =>
                    \/ transfer[o].phase \in {"Failed", "Canceled"}
                    \/ transfer[o].cancel \/ o \in troubled'
    PROVE  TypeOK' /\ Keeps(o)' /\ Others(o)
<1>1. TypeOK' /\ Others(o)
  BY DEF TypeOK, Moves, Others
<1>2. Succeeded(o)' = Succeeded(o) /\ Running(o)' = Running(o)
  BY DEF Succeeded, Running, Transfers
<1>3. Keeps(o)'
  BY <1>2 DEF Keeps, Moves, Transfers, Succeeded, Running, Terminal
<1> QED BY <1>1, <1>3

\* So do all of Velero's polls and cancellations.
LEMMA PollStep ==
    ASSUME NEW o \in Op, TypeOK, Keeps(o), Poll(o)
    PROVE  TypeOK' /\ Keeps(o)' /\ Others(o)
<1>1. CASE SaveOperation(o)
  <2>1. /\ pc'[o] = "poll" /\ \A x \in Op \ {o} : pc'[x] = pc[x]
        /\ pc' \in [Op -> {"start", "undo", "submitted", "poll", "content", "cancel", "patch", "record", "end"}]
    BY <1>1, Went DEF SaveOperation
  <2>2. /\ op' \in [Op -> {"none", "inprogress", "completed", "failed"}]
        /\ op'[o] = "inprogress" /\ \A x \in Op \ {o} : op'[x] = op[x]
    BY <1>1 DEF SaveOperation, TypeOK
  <2>3. UNCHANGED <<transfer, source, snapshot, troubled, budget>> /\ pc[o] = "submitted"
    BY <1>1 DEF SaveOperation
  <2> QED BY <2>1, <2>2, <2>3 DEF TypeOK, Keeps, Others, Running, Transfers, Succeeded
<1>2. CASE TransferProgress(o)
  <2>1. CASE StillRunning(o)
    BY <1>2, <2>1, Continued, PolledStep DEF TransferProgress
  <2>2. CASE Answer(o) # "running" /\ End(o, Answer(o)) /\ UNCHANGED <<troubled, budget>>
    <3>1. /\ Answer(o) \in {"completed", "failed"}
          /\ Answer(o) = "completed" => Succeeded(o)
          /\ Answer(o) = "failed" => transfer[o].phase \in {"Failed", "Canceled"}
      BY <1>2, <2>2 DEF TransferProgress, Answer, UploadAnswer, DownloadAnswer, Succeeded,
                        Running, Terminal
    <3>2. Moves(o) /\ op'[o] = Answer(o) /\ pc'[o] = "end"
      BY <2>2, <3>1, Ended DEF Moves, TypeOK
    <3> QED BY <1>2, <3>1, <3>2, PolledStep DEF TransferProgress
  <2>3. CASE CallFails(o)
    BY <1>2, <2>3, Failed, PolledStep DEF TransferProgress
  <2> QED BY <1>2, <2>1, <2>2, <2>3 DEF TransferProgress
<1>3. CASE SnapshotProgress(o)
  <2>1. CASE StillRunning(o)
    BY <1>3, <2>1, Continued, PolledStep DEF SnapshotProgress
  <2>2. CASE Goto(o, "content") /\ UNCHANGED <<op, troubled, budget>>
    <3>1. Moves(o) /\ pc'[o] = "content"
      BY <2>2, Went DEF Moves, TypeOK
    <3>2. o \notin Transfers
      BY <1>3 DEF SnapshotProgress, Transfers
    <3> QED BY <1>3, <2>2, <3>1, <3>2, PolledStep DEF SnapshotProgress
  <2>3. CASE CallFails(o)
    BY <1>3, <2>3, Failed, PolledStep DEF SnapshotProgress
  <2> QED BY <1>3, <2>1, <2>2, <2>3 DEF SnapshotProgress
<1>4. CASE ContentProgress(o)
  <2> DEFINE answer == SnapshotAnswer(snapshot[o].content)
  <2>0. o \notin Transfers /\ pc[o] = "content" /\ UNCHANGED <<transfer, source, snapshot>>
    BY <1>4 DEF ContentProgress, Keeps
  <2>1. CASE StillRunning(o)
    BY <2>0, <2>1, Continued, PolledStep
  <2>2. CASE answer # "running" /\ End(o, answer) /\ UNCHANGED <<troubled, budget>>
    <3>1. snapshot[o].content \in {"pending", "error", "silent", "ready"}
      BY DEF TypeOK, SnapshotStates
    <3>2. /\ answer \in {"completed", "failed"}
          /\ answer = "completed" => snapshot[o].content \in {"ready", "silent"}
      BY <2>2, <3>1, Zenon DEF SnapshotAnswer
    <3>3. answer = "completed" => Succeeded(o)
      BY <2>0, <3>2 DEF Succeeded
    <3>4. Moves(o) /\ op'[o] = answer /\ pc'[o] = "end"
      BY <2>2, <3>2, Ended DEF Moves, TypeOK
    <3> QED BY <2>0, <3>2, <3>3, <3>4, PolledStep
  <2>3. CASE CallFails(o)
    BY <2>0, <2>3, Failed, PolledStep
  <2> QED BY <1>4, <2>1, <2>2, <2>3 DEF ContentProgress
<1>5. CASE CancelTransfer(o)
  <2>1. CASE Goto(o, "patch") /\ UNCHANGED <<op, troubled, budget>>
    <3>1. Moves(o) /\ pc'[o] = "patch"
      BY <2>1, Went DEF Moves, TypeOK
    <3> QED BY <1>5, <2>1, <3>1, PolledStep DEF CancelTransfer
  <2>2. CASE CallFails(o)
    BY <1>5, <2>2, Failed, PolledStep DEF CancelTransfer
  <2> QED BY <1>5, <2>1, <2>2 DEF CancelTransfer
<1>6. CASE CancelSnapshot(o)
  <2>1. Moves(o) /\ pc'[o] = "end" /\ op'[o] = "failed"
    BY <1>6, Ended DEF CancelSnapshot, Moves, TypeOK
  <2>2. o \notin Transfers
    BY <1>6 DEF CancelSnapshot, Transfers
  <2> QED BY <1>6, <2>1, <2>2, PolledStep DEF CancelSnapshot
<1>7. CASE CancelPatch(o)
  <2>1. CASE PatchCancel(o) /\ Goto(o, "record") /\ UNCHANGED <<op, troubled, budget>>
    <3>1. Moves(o) /\ pc'[o] = "record" /\ op' = op /\ op[o] = "inprogress"
      BY <1>7, <2>1, Went DEF Moves, TypeOK, Keeps, CancelPatch
    <3>2. /\ transfer' \in [Op -> [phase : Phases \cup {NoPhase}, cancel : BOOLEAN]]
          /\ transfer'[o].cancel /\ \A x \in Op \ {o} : transfer'[x] = transfer[x]
      BY <2>1, Cancelled
    <3>3. source' = source /\ snapshot' = snapshot
      BY <1>7 DEF CancelPatch
    <3>4. TypeOK' /\ Others(o)
      BY <3>1, <3>2, <3>3 DEF TypeOK, Moves, Others
    <3> QED BY <3>1, <3>2, <3>3, <3>4 DEF Keeps
  <2>2. CASE CallFails(o) /\ UNCHANGED transfer
    BY <1>7, <2>2, Failed, PolledStep DEF CancelPatch
  <2>3. CASE CallFails(o) /\ PatchCancel(o)
    <3>1. Moves(o) /\ pc'[o] = "end" /\ op'[o] = "failed" /\ o \in troubled'
      BY <2>3, Failed
    <3>2. /\ transfer' \in [Op -> [phase : Phases \cup {NoPhase}, cancel : BOOLEAN]]
          /\ transfer'[o].cancel /\ \A x \in Op \ {o} : transfer'[x] = transfer[x]
      BY <2>3, Cancelled
    <3>3. source' = source /\ snapshot' = snapshot
      BY <1>7 DEF CancelPatch
    <3>4. TypeOK' /\ Others(o)
      BY <3>1, <3>2, <3>3 DEF TypeOK, Moves, Others
    <3> QED BY <3>1, <3>2, <3>3, <3>4 DEF Keeps
  <2> QED BY <1>7, <2>1, <2>2, <2>3 DEF CancelPatch
<1>8. CASE RecordTimeout(o)
  <2>1. Moves(o) /\ pc'[o] = "end" /\ op'[o] = "failed"
    BY <1>8, Ended DEF RecordTimeout, Moves, TypeOK
  <2>2. transfer[o].cancel
    BY <1>8 DEF RecordTimeout, Keeps
  <2> QED BY <1>8, <2>1, <2>2, PolledStep DEF RecordTimeout
<1> QED BY <1>1, <1>2, <1>3, <1>4, <1>5, <1>6, <1>7, <1>8 DEF Poll

\* So does the data mover: what has ended does not run again.
LEMMA MoveStep ==
    ASSUME NEW o \in Op, TypeOK, Keeps(o), Move(o)
    PROVE  TypeOK' /\ Keeps(o)' /\ Others(o)
<1>1. PICK p \in Following(transfer[o]) : transfer' = [transfer EXCEPT ![o].phase = p]
  BY DEF Move
<1>2. p \in {"New", "InProgress", "Canceling"} \cup Terminal
  BY <1>1, Zenon DEF Following, Terminal
<1>3. p \in Phases
  BY <1>2 DEF Phases
<1>4. /\ transfer' \in [Op -> [phase : Phases \cup {NoPhase}, cancel : BOOLEAN]]
      /\ transfer'[o].cancel = transfer[o].cancel
      /\ \A x \in Op \ {o} : transfer'[x] = transfer[x]
  BY <1>1, <1>3, PhaseChanged
<1>5. Running(o) /\ UNCHANGED <<pc, op, source, snapshot, troubled, budget>>
  BY DEF Move
<1>6. TypeOK' /\ Others(o)
  BY <1>4, <1>5 DEF TypeOK, Others
<1>7. op[o] = "completed" => o \notin Transfers
  BY <1>5 DEF Keeps, Succeeded, Running, Terminal
<1>8. op[o] = "completed" => Succeeded(o)'
  BY <1>5, <1>7 DEF Keeps, Succeeded, Transfers
<1>9. Keeps(o)'
  BY <1>4, <1>5, <1>8 DEF Keeps, Transfers
<1> QED BY <1>6, <1>9

\* So does the snapshot controller: what is ready stays ready.
LEMMA ReconcileStep ==
    ASSUME NEW o \in Op, TypeOK, Keeps(o), Reconcile(o)
    PROVE  TypeOK' /\ Keeps(o)' /\ Others(o)
<1>1. UNCHANGED <<pc, op, transfer, source, troubled, budget>> /\ o \notin Transfers
  BY DEF Reconcile, Transfers
<1>2. /\ snapshot' \in [Op -> SnapshotStates] /\ \A x \in Op \ {o} : snapshot'[x] = snapshot[x]
      /\ snapshot[o].content \in {"ready", "silent"} => snapshot'[o].content \in {"ready", "silent"}
  <2>1. ASSUME NEW c \in {"error", "silent", "ready"}, snapshot' = [snapshot EXCEPT ![o].content = c]
        PROVE  /\ snapshot' \in [Op -> SnapshotStates] /\ snapshot'[o].content = c
               /\ \A x \in Op \ {o} : snapshot'[x] = snapshot[x]
    BY <2>1 DEF TypeOK, SnapshotStates
  <2>2. ASSUME NEW v \in {"error", "ready"}, snapshot' = [snapshot EXCEPT ![o].vs = v]
        PROVE  /\ snapshot' \in [Op -> SnapshotStates]
               /\ snapshot'[o].content = snapshot[o].content
               /\ \A x \in Op \ {o} : snapshot'[x] = snapshot[x]
    BY <2>2 DEF TypeOK, SnapshotStates
  <2> QED BY <2>1, <2>2 DEF Reconcile
<1>3. TypeOK' /\ Others(o)
  BY <1>1, <1>2 DEF TypeOK, Others
<1>4. Keeps(o)'
  BY <1>1, <1>2 DEF Keeps, Succeeded, Transfers
<1> QED BY <1>3, <1>4

\* A restart keeps the types and Keeps of all operations.
LEMMA CrashStep ==
    ASSUME TypeOK, \A o \in Op : Keeps(o), Crash
    PROVE  TypeOK' /\ \A o \in Op : Keeps(o)'
<1>1. TypeOK'
  BY DEF TypeOK, Crash, Spend, Troubles
<1>2. ASSUME NEW o \in Op PROVE Keeps(o)'
  BY <1>2 DEF TypeOK, Crash, Keeps, Succeeded, Running, Transfers
<1> QED BY <1>1, <1>2

\* The invariant is inductive.
LEMMA OperationStep == OperationInv /\ [Next]_vars => OperationInv'
<1> SUFFICES ASSUME TypeOK, \A o \in Op : Keeps(o), [Next]_vars
             PROVE  TypeOK' /\ \A o \in Op : Keeps(o)'
  BY Unfold DEF OperationInv, RecordInv, NoFalseSuccess, NoFalseFailure, NoStrayTransfer, Keeps,
         Transfers
<1>1. ASSUME NEW o \in Op, Execute(o) \/ Poll(o) \/ Move(o) \/ Reconcile(o)
      PROVE  TypeOK' /\ \A x \in Op : Keeps(x)'
  <2>1. TypeOK' /\ Keeps(o)' /\ Others(o)
    BY <1>1, ExecuteStep, PollStep, MoveStep, ReconcileStep
  <2> QED BY <2>1, KeepsOthers
<1>2. CASE Crash
  BY <1>2, CrashStep
<1>3. CASE UNCHANGED vars
  BY <1>3 DEF vars, TypeOK, Keeps, Succeeded, Running, Transfers
<1> QED BY <1>1, <1>2, <1>3 DEF Next

\* The invariant holds in every reachable state.
THEOREM OperationInvariant == Spec => []OperationInv
  BY InitOperation, OperationStep, PTL DEF Spec

\* Every reachable state of the operations is well typed.
THEOREM OperationTypeCorrect == Spec => []TypeOK
<1>1. OperationInv => TypeOK
  BY DEF OperationInv
<1> QED BY <1>1, OperationInvariant, PTL

\* No operation is recorded as done whose data is not moved or whose snapshot
\* is not there: the answers of the Progress functions outlast every failure,
\* cancellation and restart.
THEOREM NoFalseSuccessHolds == Spec => []NoFalseSuccess
<1>1. OperationInv => NoFalseSuccess
  BY DEF OperationInv
<1> QED BY <1>1, OperationInvariant, PTL

\* No transfer is recorded as failed that was not: nobody told it to stop, no
\* call failed, then the mover's own failure is the reason, whatever restarts and
\* timeouts of other operations come in between.
THEOREM NoFalseFailureHolds == Spec => []NoFalseFailure
<1>1. OperationInv => NoFalseFailure
  BY DEF OperationInv
<1> QED BY <1>1, OperationInvariant, PTL

\* No data mover works on unknown to Velero, unless a call failed or a restart
\* came between the submission and the record of it.
THEOREM NoStrayTransferHolds == Spec => []NoStrayTransfer
<1>1. OperationInv => NoStrayTransfer
  BY DEF OperationInv
<1> QED BY <1>1, OperationInvariant, PTL
=============================================================================
