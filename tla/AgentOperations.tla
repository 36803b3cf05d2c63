-------------------------- MODULE AgentOperations --------------------------
(***************************************************************************)
(* The life of an Agent operation: the agent_operations table of the       *)
(* control plane (internal/store), the gateway that delivers its rows to   *)
(* an Agent and applies what comes back (internal/agentgateway), and the   *)
(* Agent that executes them at most once (internal/agent).                 *)
(*                                                                         *)
(* Time is left out: a deadline (30 s before a redelivery, 15 s for an     *)
(* interruption, 11 min for a file scan, 10 min for an execution) may pass *)
(* between any two steps.  A connection is left out too: what a broken     *)
(* stream does is lose what is in transit (Disconnect), and being offline  *)
(* is not taking a sending step.  The way back, Client.outbound and the    *)
(* stream behind it, is one FIFO queue of reports; what may be lost is its *)
(* front when the stream breaks and its back when the Agent dies.          *)
(***************************************************************************)
EXTENDS Naturals, Sequences

CONSTANTS
    Plain,        \* workspace writes of no special kind: git write, lifecycle
    Turns,        \* gemini.turn.start, gemini.turn.rewrite, claude.turn.start
    Scans,        \* the read-only kinds CanInterruptOperation accepts
    FileScans,    \* the Scans of kind workspace.files, which also expire
    Interrupts,   \* operation.interrupt
    Workspaces,
    WorkspaceOf,  \* the workspace an operation writes to or reads from
    Faults,       \* the kinds of fault the environment may inject
    MaxFaults,    \* bound on the number of injected faults
    MaxCopies,    \* bound on the copies of one command in transit
    MaxReports    \* bound on the reports queued or in transit

FaultKinds == {"crash", "disconnect", "reject", "overflow", "receipt", "unreadable"}

Writers == Plain \cup Turns
Op == Plain \cup Turns \cup Scans \cup Interrupts
NoOp == "no operation"

ASSUME OpAssumption ==
    /\ Plain \cap (Turns \cup Scans \cup Interrupts) = {}
    /\ Turns \cap (Scans \cup Interrupts) = {}
    /\ Scans \cap Interrupts = {}
    /\ FileScans \subseteq Scans
    /\ NoOp \notin Op
    /\ WorkspaceOf \in [Writers -> Workspaces]

ASSUME BoundAssumption ==
    /\ Faults \subseteq FaultKinds
    /\ MaxFaults \in Nat
    /\ MaxCopies \in Nat \ {0}
    /\ MaxReports \in Nat \ {0, 1}

VARIABLES
    \* the database and the gateway
    status,    \* agent_operations.status; "none" before the row exists
    target,    \* the operation an operation.interrupt names in its payload
    pending,   \* turns a flush has read and not yet claimed
    claimed,   \* turns whose delivery is claimed and whose Send is still to come
    marking,   \* commands sent whose MarkDelivered is still to come
    \* between them
    inflight,  \* copies of a command between the gateway and the Agent
    reports,   \* messages the Agent has queued or sent, in order, not yet handled
    \* the Agent process
    seen,      \* Client.seen: absent, executing, or the completed result
    cancelReq, \* executions whose context has been cancelled
    rerun,     \* interruptions being repeated by replayOperationResult
    stopping,  \* the Agent's root context is cancelled; the process will exit
    \* the Agent's state directory
    receipt,   \* operation-results/*.json.gz; "none" when there is no file
    \* history
    execs,     \* how often an execution of the operation began
    orphans,   \* how many of those died with the process, leaving no receipt
    faults     \* faults injected so far, and those among them that cost a receipt

dbVars == <<status, target, pending, claimed, marking>>
agentVars == <<seen, cancelReq, rerun, stopping, receipt>>
history == <<execs, orphans, faults>>
vars == <<status, target, pending, claimed, marking, inflight, reports, seen,
          cancelReq, rerun, stopping, receipt, execs, orphans, faults>>

Active == {"queued", "delivered", "running"}
Terminal == {"succeeded", "failed", "cancelled"}
\* What the Agent reports; the control plane stores "interrupted" as cancelled.
Results == {"succeeded", "failed", "cancelled", "interrupted"}

Started(o) == [kind |-> "operation_started", op |-> o, result |-> "none"]
Result(o, r) == [kind |-> "operation_result", op |-> o, result |-> r]
Message == [kind : {"operation_started"}, op : Op, result : {"none"}]
             \cup [kind : {"operation_result"}, op : Op, result : Results]

Init ==
    /\ status = [o \in Op |-> "none"]
    /\ target = [i \in Interrupts |-> NoOp]
    /\ pending = {} /\ claimed = {} /\ marking = {}
    /\ inflight = [o \in Op |-> 0]
    /\ reports = <<>>
    /\ seen = [o \in Op |-> "absent"]
    /\ cancelReq = {} /\ rerun = {}
    /\ stopping = FALSE
    /\ receipt = [o \in Op |-> "none"]
    /\ execs = [o \in Op |-> 0]
    /\ orphans = [o \in Op |-> 0]
    /\ faults = [count |-> 0, receipts |-> 0]

\* saveOperationResult or loadOperationResult fails
ReceiptFaults == {"receipt", "unreadable"}

Fault(kind) ==
    /\ kind \in Faults /\ faults.count < MaxFaults
    /\ faults' = [count |-> faults.count + 1,
                  receipts |-> faults.receipts + IF kind \in ReceiptFaults THEN 1 ELSE 0]

-----------------------------------------------------------------------------
(***************************************************************************)
(* The control plane: rows are created, cancelled and expired.             *)
(***************************************************************************)

\* Mutant: the index forgets the rows that are queued.
WriteLockFreeMutant(o) ==
    \A w \in Writers : WorkspaceOf[w] = WorkspaceOf[o] => status[w] \notin {"delivered", "running"}

\* The partial unique index operations_workspace_active_write_unique.
WriteLockFree(o) ==
    \A w \in Writers : WorkspaceOf[w] = WorkspaceOf[o] => status[w] \notin Active

\* queueOperationPayload: an idempotency key names the row, so a repeated
\* request finds it and changes nothing.
QueueOperation(o) ==
    /\ o \notin Interrupts
    /\ status[o] = "none"
    /\ o \in Writers => WriteLockFree(o)
    /\ status' = [status EXCEPT ![o] = "queued"]
    /\ UNCHANGED <<target, pending, claimed, marking, inflight, reports>>
    /\ UNCHANGED <<agentVars, history>>

\* RequestOperationInterrupt: the target must be active and interruptible, and
\* an interruption still in flight is reused.  Only the latest earlier request
\* can be active, because each new one needed its predecessor to have ended.
RequestOperationInterrupt(i, t) ==
    /\ status[i] = "none"
    /\ status[t] \in Active
    /\ \A j \in Interrupts : target[j] = t => status[j] \notin Active
    /\ status' = [status EXCEPT ![i] = "queued"]
    /\ target' = [target EXCEPT ![i] = t]
    /\ UNCHANGED <<pending, claimed, marking, inflight, reports>>
    /\ UNCHANGED <<agentVars, history>>

\* InterruptGeminiTurn and InterruptClaudeTurn cancel a turn that no flush has
\* claimed yet; a delivered one is asked to stop instead (module TurnOwnership).
CancelQueuedTurn(o) ==
    /\ status[o] = "queued"
    /\ status' = [status EXCEPT ![o] = "cancelled"]
    /\ UNCHANGED <<target, pending, claimed, marking, inflight, reports>>
    /\ UNCHANGED <<agentVars, history>>

\* ExpireWorkspaceFileScans: a file scan older than eleven minutes fails in
\* the database, whatever the Agent is doing with it.
ExpireWorkspaceFileScan(o) ==
    /\ status[o] \in Active
    /\ status' = [status EXCEPT ![o] = "failed"]
    /\ UNCHANGED <<target, pending, claimed, marking, inflight, reports>>
    /\ UNCHANGED <<agentVars, history>>

-----------------------------------------------------------------------------
(***************************************************************************)
(* The gateway: flush.  The rows are read first and sent one by one, so a  *)
(* row may have changed when its turn comes.  For an ordinary operation    *)
(* that is the same as a slow command; a turn is claimed in between.       *)
(***************************************************************************)

\* Mutant: a command is sent once and never again.
DeliverableMutant(o) == status[o] = "queued"

\* PendingOperations.  A turn is never delivered twice, a started operation
\* is delivered again only if it is an interruption.
Deliverable(o) ==
    \/ status[o] = "queued"
    \/ status[o] = "delivered" /\ o \notin Turns
    \/ status[o] = "running" /\ o \in Interrupts

ReadTurn(o) ==
    /\ Deliverable(o)
    /\ o \notin pending
    /\ pending' = pending \cup {o}
    /\ UNCHANGED <<status, target, claimed, marking, inflight, reports>>
    /\ UNCHANGED <<agentVars, history>>

\* Mutant: turns are sent like any other command, and marked afterwards.
ClaimedFirstMutant == {}

\* The kinds whose delivery flush claims before it sends them.
ClaimedFirst == Turns

\* Mutant: the claim does not look at what became of the row it has read.
ClaimableMutant(o) == TRUE

\* ClaimGeminiDelivery: UPDATE ... SET status='delivered' WHERE status='queued'.
Claimable(o) == status[o] = "queued"

ClaimTurn(o) ==
    /\ o \in pending
    /\ pending' = pending \ {o}
    /\ \/ /\ Claimable(o)
          /\ status' = [status EXCEPT ![o] = "delivered"]
          /\ claimed' = claimed \cup {o}
       \/ /\ ~Claimable(o)
          /\ UNCHANGED <<status, claimed>>
    /\ UNCHANGED <<target, marking, inflight, reports>>
    /\ UNCHANGED <<agentVars, history>>

SendTurn(o) ==
    /\ o \in claimed
    /\ claimed' = claimed \ {o}
    /\ inflight' = [inflight EXCEPT ![o] = @ + 1]
    /\ UNCHANGED <<status, target, pending, marking, reports>>
    /\ UNCHANGED <<agentVars, history>>

SendOperation(o) ==
    /\ Deliverable(o)
    /\ inflight[o] < MaxCopies
    /\ marking' = marking \cup {o}
    /\ inflight' = [inflight EXCEPT ![o] = @ + 1]
    /\ UNCHANGED <<status, target, pending, claimed, reports>>
    /\ UNCHANGED <<agentVars, history>>

Marked(st) == IF st = "queued" THEN "delivered" ELSE st

\* MarkDelivered runs after Send: the Agent may have answered in between.
MarkDelivered(o) ==
    /\ o \in marking
    /\ marking' = marking \ {o}
    /\ status' = [status EXCEPT ![o] = Marked(@)]
    /\ UNCHANGED <<target, pending, claimed, inflight, reports>>
    /\ UNCHANGED <<agentVars, history>>

-----------------------------------------------------------------------------
(***************************************************************************)
(* The Agent: handleOperation, the seen cache and the receipts.            *)
(***************************************************************************)

\* queue(..., important): a message is queued, or, after five seconds with a
\* queue full of other traffic, dropped.  Nothing is sent while stopping.
Queue(ms) ==
    /\ Len(reports) + Len(ms) <= MaxReports
    /\ reports' = IF stopping THEN reports ELSE reports \o ms

Queued(m) == \/ Queue(<<m>>) /\ UNCHANGED faults
             \/ UNCHANGED reports /\ Fault("overflow")

\* Mutant: a result that could not be persisted is pruned too.
PrunableMutant(o) == seen[o] \in Results

\* pruneCompletedOperations: completed and persisted entries may leave the
\* cache (an hour old, more than 128 of them, more than 16 MiB).
Prunable(o) == seen[o] \in Results /\ receipt[o] /= "none"

Prune(o) ==
    /\ Prunable(o)
    /\ seen' = [seen EXCEPT ![o] = "absent"]
    /\ UNCHANGED <<dbVars, inflight, reports, cancelReq, rerun, stopping, receipt, history>>

\* Neither the cache nor the disk knows the command.
Unseen(o) == seen[o] = "absent" /\ receipt[o] = "none"

\* A command nobody has seen: it is registered under seenMu, operation_started
\* is queued and the execution begins.
Register(o) ==
    /\ ~stopping
    /\ inflight[o] > 0
    /\ Unseen(o)
    /\ Queued(Started(o))
    /\ inflight' = [inflight EXCEPT ![o] = @ - 1]
    /\ seen' = [seen EXCEPT ![o] = "executing"]
    /\ cancelReq' = cancelReq \ {o}
    /\ execs' = [execs EXCEPT ![o] = @ + 1]
    /\ UNCHANGED <<dbVars, rerun, stopping, receipt, orphans>>

\* The result the Agent already has for a command, if any.
Recorded(o) == IF seen[o] = "absent" THEN receipt[o] ELSE seen[o]

\* A command already completed: its result is replayed, not its execution.  A
\* duplicate of a running command waits, here in transit, for the result.
Replay(o) ==
    /\ ~stopping
    /\ inflight[o] > 0
    /\ Recorded(o) \in Results
    /\ inflight' = [inflight EXCEPT ![o] = @ - 1]
    /\ IF o \in Interrupts /\ Recorded(o) = "succeeded"
         THEN /\ rerun' = rerun \cup {o}
              /\ UNCHANGED <<reports, faults>>
         ELSE /\ Queued(Result(o, Recorded(o)))
              /\ UNCHANGED rerun
    /\ UNCHANGED <<dbVars, seen, cancelReq, stopping, receipt, execs, orphans>>

\* A receipt that cannot be read: the Agent refuses to repeat the operation.
ReplayUnreadable(o) ==
    /\ ~stopping
    /\ inflight[o] > 0
    /\ seen[o] = "absent" /\ receipt[o] /= "none"
    /\ Fault("unreadable")
    /\ inflight' = [inflight EXCEPT ![o] = @ - 1]
    /\ Queue(<<Result(o, "failed")>>)
    /\ UNCHANGED <<dbVars, seen, cancelReq, rerun, stopping, receipt, execs, orphans>>

\* What an execution may report: a scan is cancelled only when its context was.
\* A turn may always be interrupted (module TurnOwnership has the request).
Outcomes(o) ==
    {"succeeded", "failed"}
      \cup (IF o \in Scans /\ (o \in cancelReq \/ stopping) THEN {"cancelled"} ELSE {})
      \cup (IF o \in Turns THEN {"interrupted"} ELSE {})

\* The end of handleOperation: save the receipt, complete the cache entry,
\* queue the result.  Nobody can tell the three apart: a crash in between
\* loses the queue as a crash after them does.
Complete(o, r, saved) ==
    /\ receipt' = IF saved THEN [receipt EXCEPT ![o] = r] ELSE receipt
    /\ seen' = [seen EXCEPT ![o] = r]

\* saveOperationResult may fail, and so may the queueing of the last message.
Saved(saved, more, m) ==
    \/ saved /\ Queue(Append(more, m)) /\ UNCHANGED faults
    \/ saved /\ Queue(more) /\ Fault("overflow")
    \/ ~saved /\ Queue(Append(more, m)) /\ Fault("receipt")

Finish(o, r) ==
    /\ seen[o] = "executing"
    /\ r \in Outcomes(o)
    /\ \E saved \in BOOLEAN : Saved(saved, <<>>, Result(o, r)) /\ Complete(o, r, saved)
    /\ UNCHANGED <<dbVars, inflight, cancelReq, rerun, stopping, execs, orphans>>

-----------------------------------------------------------------------------
(***************************************************************************)
(* interruptOperation, for the interruption i of target[i].                *)
(***************************************************************************)

\* The payload names an operation that CanInterruptOperation accepts.
Interrupting(i) == target[i] \in Scans /\ (seen[i] = "executing" \/ i \in rerun)

\* The interruption ends with r, having queued the messages more first.  A
\* repeated one has its receipt already and only reports again.
EndInterrupt(i, r, more) ==
    \/ /\ i \in rerun
       /\ rerun' = rerun \ {i}
       /\ Saved(TRUE, more, Result(i, r))
       /\ UNCHANGED <<seen, receipt>>
    \/ /\ i \notin rerun
       /\ \E saved \in BOOLEAN : Saved(saved, more, Result(i, r)) /\ Complete(i, r, saved)
       /\ UNCHANGED rerun

\* The target is running: cancel its context, then wait for it to end.
InterruptCancel(i) ==
    /\ Interrupting(i)
    /\ seen[target[i]] = "executing"
    /\ target[i] \notin cancelReq
    /\ cancelReq' = cancelReq \cup {target[i]}
    /\ UNCHANGED <<dbVars, inflight, reports, seen, rerun, stopping, receipt, history>>

\* It did not end within fifteen seconds.
InterruptTimeout(i) ==
    /\ Interrupting(i)
    /\ seen[target[i]] = "executing"
    /\ target[i] \in cancelReq
    /\ EndInterrupt(i, "failed", <<>>)
    /\ UNCHANGED <<dbVars, inflight, cancelReq, stopping, execs, orphans>>

\* The target is over, in the cache or on disk: report its result again, and
\* then success.  When the queue is full the interruption fails instead.
InterruptDone(i) ==
    /\ Interrupting(i)
    /\ Recorded(target[i]) \in Results
    /\ \/ EndInterrupt(i, "succeeded", <<Result(target[i], Recorded(target[i]))>>)
       \/ "overflow" \in Faults /\ EndInterrupt(i, "failed", <<>>)
    /\ UNCHANGED <<dbVars, inflight, cancelReq, stopping, execs, orphans>>

\* Mutant: the cancellation is only remembered in the cache.
TombstoneMutant(t) == UNCHANGED receipt

\* The target is unknown: write a cancelled receipt, under seenMu, so that a
\* delayed command can never start; it is reported by InterruptDone.
Tombstone(t) == receipt' = [receipt EXCEPT ![t] = "cancelled"]

InterruptTombstone(i) ==
    /\ Interrupting(i)
    /\ Recorded(target[i]) = "none"
    /\ Tombstone(target[i])
    /\ seen' = [seen EXCEPT ![target[i]] = "cancelled"]
    /\ UNCHANGED <<dbVars, inflight, reports, cancelReq, rerun, stopping, history>>

\* The receipt of the cancellation could not be saved.
InterruptUnsaved(i) ==
    /\ Interrupting(i)
    /\ Recorded(target[i]) = "none"
    /\ "receipt" \in Faults /\ EndInterrupt(i, "failed", <<>>)
    /\ UNCHANGED <<dbVars, inflight, cancelReq, stopping, execs, orphans>>

-----------------------------------------------------------------------------
(***************************************************************************)
(* Back to the control plane: sendLoop, keepalive, receive and handle.     *)
(***************************************************************************)

\* sendKeepalive names the unfinished turns and the Agent answers with the
\* result of those it has completed (reconcileGeminiOperations and
\* reconcileClaudeOperations; the answers about the others are in module
\* TurnOwnership).
ReconcileTurn(o) ==
    /\ ~stopping
    /\ status[o] \in {"delivered", "running"}
    /\ Recorded(o) \in Results
    /\ Queue(<<Result(o, Recorded(o))>>)
    /\ UNCHANGED <<dbVars, inflight, seen, cancelReq, rerun, stopping, receipt, history>>

\* handle, "operation_started".
HandleStarted ==
    /\ reports /= <<>>
    /\ Head(reports).kind = "operation_started"
    /\ reports' = Tail(reports)
    /\ LET o == Head(reports).op
       IN  status' = IF status[o] \in Active THEN [status EXCEPT ![o] = "running"] ELSE status
    /\ UNCHANGED <<target, pending, claimed, marking, inflight>>
    /\ UNCHANGED <<agentVars, history>>

Stored(r) == IF r = "interrupted" THEN "cancelled" ELSE r

\* handle, "operation_result": a row that is already terminal keeps its status
\* (CompleteOperationIfActive, CompleteInterruptedOperation).
Completable(o) == status[o] \in Active

HandleResult ==
    /\ reports /= <<>>
    /\ Head(reports).kind = "operation_result"
    /\ reports' = Tail(reports)
    /\ LET m == Head(reports)
       IN  status' = IF Completable(m.op) THEN [status EXCEPT ![m.op] = Stored(m.result)] ELSE status
    /\ UNCHANGED <<target, pending, claimed, marking, inflight>>
    /\ UNCHANGED <<agentVars, history>>

-----------------------------------------------------------------------------
(***************************************************************************)
(* Faults.                                                                 *)
(***************************************************************************)

\* A message whose handling fails (a database error) is logged and lost.
RejectMessage ==
    /\ reports /= <<>>
    /\ Fault("reject")
    /\ reports' = Tail(reports)
    /\ UNCHANGED <<dbVars, inflight, agentVars, execs, orphans>>

\* What a broken stream, or a restart of the control plane, forgets.
LoseCommands ==
    /\ pending' = {} /\ claimed' = {} /\ marking' = {}
    /\ inflight' = [o \in Op |-> 0]
    /\ UNCHANGED <<status, target>>

\* Of the reports, those already sent are lost; sendLoop puts the one whose
\* Send failed back, behind the others.
Disconnect ==
    /\ Fault("disconnect")
    /\ LoseCommands
    /\ \E k \in 0..Len(reports) :
          LET rest == SubSeq(reports, k + 1, Len(reports))
          IN  reports' = rest \/ (k > 0 /\ reports' = Append(rest, reports[k]))
    /\ UNCHANGED <<agentVars, execs, orphans>>

\* Those not yet sent die with the Agent.
LoseReports == \E k \in 0..Len(reports) : reports' = SubSeq(reports, 1, k)

\* The root context is cancelled (SIGTERM, an update): executions see their
\* contexts cancelled and the connection is given up.
Shutdown ==
    /\ ~stopping
    /\ Fault("crash")
    /\ stopping' = TRUE
    /\ LoseCommands /\ LoseReports
    /\ UNCHANGED <<seen, cancelReq, rerun, receipt, execs, orphans>>

\* The process exits, killed or at the end of a shutdown, and starts again.
Crash ==
    /\ IF stopping THEN UNCHANGED faults ELSE Fault("crash")
    /\ LoseCommands /\ LoseReports
    /\ orphans' = [o \in Op |-> IF seen[o] /= "absent" /\ receipt[o] = "none"
                                  THEN orphans[o] + 1 ELSE orphans[o]]
    /\ seen' = [o \in Op |-> "absent"]
    /\ cancelReq' = {} /\ rerun' = {}
    /\ stopping' = FALSE
    /\ UNCHANGED <<receipt, execs>>

-----------------------------------------------------------------------------
Request ==
    \/ \E o \in Op : QueueOperation(o)
    \/ \E i \in Interrupts, t \in Scans : RequestOperationInterrupt(i, t)
    \/ \E o \in Turns : CancelQueuedTurn(o)
    \/ \E o \in FileScans : ExpireWorkspaceFileScan(o)

Gateway ==
    \/ \E o \in ClaimedFirst : ReadTurn(o) \/ ClaimTurn(o) \/ SendTurn(o)
    \/ \E o \in Op \ ClaimedFirst : SendOperation(o) \/ MarkDelivered(o)
    \/ HandleStarted \/ HandleResult

Agent ==
    \/ \E o \in Op : Register(o) \/ Replay(o) \/ Prune(o)
    \/ \E o \in Op \ Interrupts, r \in Results : Finish(o, r)
    \/ \E i \in Interrupts : \/ InterruptCancel(i) \/ InterruptTimeout(i) \/ InterruptDone(i)
                             \/ InterruptTombstone(i) \/ InterruptUnsaved(i)
    \/ \E o \in Turns : ReconcileTurn(o)

Environment ==
    \/ \E o \in Op : ReplayUnreadable(o)
    \/ RejectMessage \/ Disconnect \/ Shutdown \/ Crash

Next == Request \/ Gateway \/ Agent \/ Environment

Spec == Init /\ [][Next]_vars

\* Fairness: the flush loop polls every two seconds, every goroutine the
\* runtime started gets to run, every command it waits for ends by its
\* deadline, a connected stream carries what was queued, and a process that is stopping exits.
Fairness ==
    /\ \A o \in Turns : /\ WF_vars(ReadTurn(o)) /\ WF_vars(ClaimTurn(o))
                        /\ WF_vars(SendTurn(o)) /\ WF_vars(ReconcileTurn(o))
    /\ \A o \in Op \ Turns : WF_vars(SendOperation(o)) /\ WF_vars(MarkDelivered(o))
    /\ \A o \in Op : WF_vars(Register(o)) /\ WF_vars(Replay(o))
    /\ \A o \in Op \ Interrupts : WF_vars(\E r \in Results : Finish(o, r))
    /\ \A i \in Interrupts : /\ WF_vars(InterruptCancel(i)) /\ WF_vars(InterruptTimeout(i))
                             /\ WF_vars(InterruptDone(i)) /\ WF_vars(InterruptTombstone(i))
    /\ WF_vars(HandleStarted \/ HandleResult)
    /\ WF_vars(stopping /\ Crash)

FairSpec == Spec /\ Fairness

-----------------------------------------------------------------------------
(***************************************************************************)
(* Properties.                                                             *)
(***************************************************************************)

FaultHistory == [count : Nat, receipts : Nat]

\* Every variable has its type.
TypeOK ==
    /\ status \in [Op -> {"none"} \cup Active \cup Terminal]
    /\ target \in [Interrupts -> Scans \cup {NoOp}]
    /\ pending \subseteq Turns /\ claimed \subseteq Turns /\ marking \subseteq Op
    /\ inflight \in [Op -> Nat]
    /\ reports \in Seq(Message)
    /\ seen \in [Op -> {"absent", "executing"} \cup Results]
    /\ cancelReq \subseteq Op /\ rerun \subseteq Interrupts
    /\ stopping \in BOOLEAN
    /\ receipt \in [Op -> {"none"} \cup Results]
    /\ execs \in [Op -> Nat] /\ orphans \in [Op -> Nat]
    /\ faults \in FaultHistory

\* A Gemini or Claude turn is started at most once in its life, whatever
\* crashes, lost acknowledgements, reconnections and redeliveries happen: the
\* flush claims the row before it sends it, and a claim is never repeated.
TurnExecutedAtMostOnce == \A o \in Turns : execs[o] <= 1

\* Any other command is started again only after the Agent died with an
\* execution that left no receipt: duplicates meet the cache or the receipt.
RepeatedOnlyAfterDeath == \A o \in Op : execs[o] <= orphans[o] + 1

\* The properties below hold until a completed execution has left no receipt,
\* or a receipt could not be read.
ReceiptsHold == faults.receipts = 0

\* Two writes to one workspace are never executed at the same time: the row
\* stays active, and so keeps the lock, for as long as the Agent executes it.
WritesExclusive ==
    ReceiptsHold =>
    \A a, b \in Writers :
        a /= b /\ WorkspaceOf[a] = WorkspaceOf[b] => ~(seen[a] = "executing" /\ seen[b] = "executing")

\* Once the control plane has recorded the success of an interruption, its
\* target is not running and no delayed or redelivered copy can start it.
StoppedOnceAcknowledged ==
    ReceiptsHold =>
    \A i \in Interrupts :
        status[i] = "succeeded" => /\ seen[target[i]] /= "executing"
                                   /\ receipt[target[i]] /= "none"

\* The control plane never records another outcome than the one on the
\* Agent's disk, in whatever order results, replays and interruptions arrive.
\* (A file scan may have expired, a queued turn was cancelled unsent, the
\* repetition of a successful interruption may have failed.)
OutcomeMatchesReceipt ==
    ReceiptsHold =>
    \A o \in Op \ FileScans :
        status[o] \in Terminal =>
            \/ receipt[o] /= "none" /\ status[o] = Stored(receipt[o])
            \/ o \in Turns /\ status[o] = "cancelled" /\ execs[o] = 0
            \/ o \in Interrupts /\ status[o] = "failed" /\ receipt[o] = "succeeded"

\* A terminal row never changes again: a late result, a late start and a late
\* delivery mark all find it and leave it.
TerminalIsFinal ==
    [][\A o \in Op : status[o] \in Terminal => status'[o] = status[o]]_vars

\* Every operation that is queued ends.  A fault can only leave behind one that
\* the control plane has seen start, or a turn, which is never sent twice: any
\* other command is delivered until it is known to run.
EveryOperationEnds ==
    \A o \in Op : status[o] = "queued" ~> \/ status[o] \in Terminal
                                          \/ faults.count > 0 /\ status[o] = "running"
                                          \/ faults.count > 0 /\ o \in Turns

\* An interruption ends even if the Agent restarts while it runs, because an
\* interruption that was started is delivered again; and when it succeeded,
\* its target ends too, because replaying the interruption replays the
\* target's receipt.
InterruptionEnds ==
    \A i \in Interrupts :
        status[i] = "queued" ~> \/ status[i] \in Terminal \ {"succeeded"}
                                \/ status[i] = "succeeded" /\ status[target[i]] \in Terminal

\* How the life of an operation looks from outside.
RowOf == [o \in Op |-> IF status[o] \in Active THEN "active" ELSE status[o]]
Working == {o \in Op : seen[o] = "executing"}
Begun == {o \in Op : execs[o] > 0}

Life == INSTANCE OperationLife
          WITH row <- RowOf, working <- Working, begun <- Begun, effect <- receipt,
               trusted <- ReceiptsHold

\* Seen from outside, an operation lives as OperationLife promises: it has its
\* effect at most once, while its row is active and no other write of its workspace
\* is at work, and its row ends for good with that effect, whatever commands and
\* reports are lost, repeated or late in between.
ImplementsLife == Life!Spec

\* What README.md:296 says of receipts, that after an Agent restart the
\* original result can still be returned: an operation whose receipt is on
\* disk ends.  Nothing asks for the receipt of a plain operation that the
\* control plane has seen start.
ReceiptIsReturned == \A o \in Plain : receipt[o] /= "none" ~> status[o] \in Terminal

-----------------------------------------------------------------------------
(***************************************************************************)
(* The inductive invariant behind the safety properties.                   *)
(***************************************************************************)

\* A turn's one command is claimed, in transit or executed, never two of these.
TurnsSentOnce ==
    \A o \in Turns :
        /\ status[o] \in {"none", "queued"} => o \notin claimed /\ inflight[o] = 0 /\ execs[o] = 0
        /\ o \in claimed => inflight[o] = 0 /\ execs[o] = 0
        /\ inflight[o] + execs[o] <= 1

\* An execution without a receipt is the one running now, or it died.
ExecutionsCounted ==
    \A o \in Op :
        /\ Unseen(o) => execs[o] = orphans[o]
        /\ seen[o] /= "absent" /\ receipt[o] = "none" => execs[o] = orphans[o] + 1
        /\ execs[o] <= orphans[o] + 1

\* At most one write of a workspace is active.
LockHeldOnce ==
    \A a, b \in Writers :
        a /= b /\ WorkspaceOf[a] = WorkspaceOf[b] => ~(status[a] \in Active /\ status[b] \in Active)

\* Nothing is sent of a row that does not exist, and the Agent knows nothing of it.
\* (Of a scan it may: an interruption leaves its mark.)
UnknownBeforeQueued ==
    \A o \in Op : status[o] = "none" =>
        /\ o \notin claimed /\ inflight[o] = 0
        /\ o \notin Scans => seen[o] = "absent" /\ receipt[o] = "none"

\* The cache and the disk agree.
CacheMatchesDisk ==
    \A o \in Op : /\ seen[o] \in Results => receipt[o] = seen[o]
                  /\ seen[o] = "executing" => receipt[o] = "none"

\* A result on its way is the one on disk.
Truthful ==
    {m \in Message : m.kind = "operation_result" =>
        \/ receipt[m.op] = m.result
        \/ m.op \in Interrupts /\ m.result = "failed" /\ receipt[m.op] = "succeeded"}

\* A turn that ended without a receipt was never sent.
Settled(o) ==
    \/ receipt[o] /= "none" /\ status[o] = Stored(receipt[o])
    \/ o \in Turns /\ status[o] = "cancelled" /\ execs[o] = 0 /\ inflight[o] = 0 /\ o \notin claimed
    \/ o \in Interrupts /\ status[o] = "failed" /\ receipt[o] = "succeeded"

ReceiptsTrusted ==
    /\ CacheMatchesDisk
    /\ reports \in Seq(Truthful)
    /\ \A o \in Op \ FileScans : status[o] \in Terminal => Settled(o)
    /\ \A i \in Interrupts :
          /\ i \in rerun => receipt[i] = "succeeded"
          /\ receipt[i] = "succeeded" => target[i] \in Scans /\ receipt[target[i]] /= "none"

\* The conjunction that every step preserves; each safety property above
\* follows from it.
IInv ==
    /\ TypeOK /\ TurnsSentOnce /\ ExecutionsCounted /\ LockHeldOnce /\ UnknownBeforeQueued
    /\ ReceiptsHold => ReceiptsTrusted
=============================================================================
