----------------------------- MODULE CodexThread -----------------------------
(***************************************************************************)
(* One Codex conversation end to end: the HTTP handlers that start, edit   *)
(* and interrupt its turns (internal/httpapi), its row and its events in   *)
(* the database (internal/store), the gateway that delivers the commands   *)
(* and applies the Agent's events and results (internal/agentgateway), and *)
(* the session that executes them (module CodexAdapter).                   *)
(*                                                                         *)
(* Of the event stream the model keeps what the code reads back: the       *)
(* positions of the user's messages, whether the latest of messages and    *)
(* cancellations is a cancellation (HasPendingTurnCancellation), and the   *)
(* turn id of the latest turn event (LatestActiveTurnID).  A command is    *)
(* executed once (module AgentOperations); the deduplication is not        *)
(* repeated here.  The approvals and the scheduled task of the thread are  *)
(* records of their own that no action of this module reads.               *)
(***************************************************************************)
EXTENDS CodexAdapter

CONSTANTS
    Earlier,     \* a turn that ended before the Agent was last started, or NoTurn
    StopQueued,  \* whether users interrupt a turn while its operation is queued
    EarlyPoll    \* whether the gateway's poll may find an operation before
                 \* handleTurn has added the message and woken the gateway

ASSUME ThreadAssumption ==
    /\ Earlier \in (Turns \ Rewrites) \cup {NoTurn}
    /\ StopQueued \in BOOLEAN /\ EarlyPoll \in BOOLEAN

VARIABLES
    thread,    \* codex_threads.status
    op,        \* agent_operations.status of a turn command; "none" before
    rows,      \* the turn commands in the order of their creation
    handler,   \* how far handleTurn is with a request
    before,    \* the status handleTurn read before it claimed the thread, until
               \* the operation is queued
    position,  \* sequence of a user.message event; 0 when there is none
    edit,      \* the message a rewrite replaces and the last sequence it removes
    marker,    \* HasPendingTurnCancellation
    latest,    \* LatestActiveTurnID
    sent,      \* turn commands between the gateway and the Agent
    marking,   \* turn commands sent whose MarkDelivered is still to come
    ask        \* an interruption: how far its request or its command is

requestVars == <<handler, before>>
eventVars == <<position, marker, latest>>
linkVars == <<sent, marking>>
threadVars == <<thread, op, rows, requestVars, eventVars, edit, linkVars, ask>>
vars == <<adapterVars, threadVars>>

Active == {"queued", "delivered", "running"}
BusyStatus == {"queued", "running"}
ThreadStatus == BusyStatus \cup {"idle", "failed", "interrupted"}

NoAsk == [phase |-> "free", op |-> NoTurn, turn |-> NoTurn]
NoEdit == [target |-> NoTurn, cutoff |-> 0]

LastPosition == CHOOSE n \in {position[m] : m \in Turns} \cup {0} :
                    \A m \in Turns : position[m] <= n

ThreadInit ==
    /\ AdapterInit
    /\ thread = "idle"
    /\ op = [o \in Turns |-> IF o = Earlier THEN "succeeded" ELSE "none"]
    /\ rows = IF Earlier = NoTurn THEN <<>> ELSE <<Earlier>>
    /\ handler = [o \in Turns |-> IF o = Earlier THEN "done" ELSE "none"]
    /\ before = [o \in Turns |-> "idle"]
    /\ position = [o \in Turns |-> IF o = Earlier THEN 1 ELSE 0]
    /\ edit = [o \in Rewrites |-> NoEdit]
    /\ marker = FALSE
    /\ latest = NoTurn
    /\ sent = {} /\ marking = {}
    /\ ask = [s \in Stops |-> NoAsk]

-----------------------------------------------------------------------------
(***************************************************************************)
(* handleTurn without an edit target: read, claim, queue, add the message. *)
(* Each is a statement of its own.                                         *)
(***************************************************************************)

ReadThread(o) ==
    /\ o \notin Rewrites
    /\ handler[o] = "none"
    /\ handler' = [handler EXCEPT ![o] = "read"]
    /\ before' = [before EXCEPT ![o] = thread]
    /\ UNCHANGED <<thread, op, rows, eventVars, edit, linkVars, ask>>
    /\ UNCHANGED adapterVars

\* ClaimThreadForTurn; a busy thread is refused and the request is over.
ClaimThreadForTurn(o) ==
    /\ handler[o] = "read"
    /\ IF thread \in BusyStatus
         THEN /\ handler' = [handler EXCEPT ![o] = "none"]
              /\ before' = [before EXCEPT ![o] = "idle"]
              /\ UNCHANGED thread
         ELSE handler' = [handler EXCEPT ![o] = "claimed"] /\ thread' = "queued" /\ UNCHANGED before
    /\ UNCHANGED <<op, rows, eventVars, edit, linkVars, ask>>
    /\ UNCHANGED adapterVars

QueueTurn(o) ==
    /\ handler[o] = "claimed"
    /\ handler' = [handler EXCEPT ![o] = "queued"]
    /\ op' = [op EXCEPT ![o] = "queued"]
    /\ rows' = Append(rows, o)
    /\ before' = [before EXCEPT ![o] = "idle"]
    /\ UNCHANGED <<thread, eventVars, edit, linkVars, ask>>
    /\ UNCHANGED adapterVars

\* The operation could not be queued: the status read at first is put back.
QueueTurnFails(o) ==
    /\ handler[o] = "claimed"
    /\ Fault("database")
    /\ handler' = [handler EXCEPT ![o] = "none"]
    /\ thread' = before[o]
    /\ before' = [before EXCEPT ![o] = "idle"]
    /\ UNCHANGED <<op, rows, eventVars, edit, linkVars, ask>>
    /\ UNCHANGED <<process, state, call, stop, codex, reports, abandoned>>

\* AddEvent(user.message), the event that clears the cancellation marker.
AddUserMessage(o) ==
    /\ handler[o] = "queued"
    /\ handler' = [handler EXCEPT ![o] = "done"]
    /\ position' = [position EXCEPT ![o] = LastPosition + 1]
    /\ marker' = FALSE
    /\ UNCHANGED <<thread, op, rows, before, edit, latest, linkVars, ask>>
    /\ UNCHANGED adapterVars

\* RewriteThread: one transaction, which remembers the message to replace and
\* the last event there is; the replacement is written when the turn is
\* accepted.
RewriteThread(o, m) ==
    /\ handler[o] = "none"
    /\ thread \notin BusyStatus
    /\ position[m] > 0
    /\ handler' = [handler EXCEPT ![o] = "done"]
    /\ thread' = "queued"
    /\ op' = [op EXCEPT ![o] = "queued"]
    /\ rows' = Append(rows, o)
    /\ edit' = [edit EXCEPT ![o] = [target |-> m, cutoff |-> LastPosition]]
    /\ UNCHANGED <<before, eventVars, linkVars, ask>>
    /\ UNCHANGED adapterVars

-----------------------------------------------------------------------------
(***************************************************************************)
(* interruptTurn.                                                          *)
(***************************************************************************)

ActiveRows == {i \in DOMAIN rows : op[rows[i]] \in Active}

\* ActiveCodexTurnOperation: the newest one.
ActiveCodexTurnOperation ==
    IF ActiveRows = {} THEN NoTurn
    ELSE rows[CHOOSE i \in ActiveRows : \A j \in ActiveRows : j <= i]

StopPhase(s, phase, o, t) == ask' = [ask EXCEPT ![s] = [phase |-> phase, op |-> o, turn |-> t]]

\* The latest turn and the active operation are read.  With neither the request
\* is refused; a queued operation is to be cancelled; otherwise an
\* interruption is queued.
RequestInterrupt(s) ==
    /\ ask[s].phase = "free"
    /\ LET o == ActiveCodexTurnOperation
       IN  /\ latest /= NoTurn \/ o /= NoTurn
           /\ IF o /= NoTurn /\ op[o] = "queued"
                THEN StopQueued /\ StopPhase(s, "cancelling", o, NoTurn)
                ELSE StopPhase(s, "queued", NoTurn, latest)
    /\ UNCHANGED <<thread, op, rows, requestVars, eventVars, edit, linkVars>>
    /\ UNCHANGED adapterVars

\* CancelOperation takes any row that is not terminal.  When the row is already
\* terminal the latest turn is read again and interrupted.
CancelOperation(s) ==
    /\ ask[s].phase = "cancelling"
    /\ IF op[ask[s].op] \in Active
         THEN /\ op' = [op EXCEPT ![ask[s].op] = "cancelled"]
              /\ StopPhase(s, "cancelled", NoTurn, NoTurn)
         ELSE /\ StopPhase(s, "queued", NoTurn, latest)
              /\ UNCHANGED op
    /\ UNCHANGED <<thread, rows, requestVars, eventVars, edit, linkVars>>
    /\ UNCHANGED adapterVars

\* SetThreadStatus(idle).
ReleaseThread(s) ==
    /\ ask[s].phase = "cancelled"
    /\ thread' = "idle"
    /\ StopPhase(s, "released", NoTurn, NoTurn)
    /\ UNCHANGED <<op, rows, requestVars, eventVars, edit, linkVars>>
    /\ UNCHANGED adapterVars

\* AddEvent(codex.turn.cancelled, source control).
MarkCancelled(s) ==
    /\ ask[s].phase = "released"
    /\ marker' = TRUE
    /\ latest' = NoTurn
    /\ StopPhase(s, "free", NoTurn, NoTurn)
    /\ UNCHANGED <<thread, op, rows, requestVars, position, edit, linkVars>>
    /\ UNCHANGED adapterVars

-----------------------------------------------------------------------------
(***************************************************************************)
(* The gateway: flush.                                                     *)
(***************************************************************************)

\* flush lists the pending operations and sends one after the other; listing
\* and sending are one step, since what is sent may arrive late anyway.  A
\* delivered one is sent again when it gets no answer.
SendTurn(o) ==
    /\ op[o] \in {"queued", "delivered"}
    /\ handler[o] = "done" \/ EarlyPoll
    /\ marking = {} /\ o \notin sent
    /\ call[o] = "none"
    /\ sent' = sent \cup {o}
    /\ marking' = marking \cup {o}
    /\ UNCHANGED <<thread, op, rows, requestVars, eventVars, edit, ask>>
    /\ UNCHANGED adapterVars

\* MarkDelivered, and the look at the row that follows it: for a turn that was
\* cancelled meanwhile a best-effort interruption is queued, once.
MarkDelivered(o) ==
    /\ o \in marking
    /\ marking' = marking \ {o}
    /\ op' = [op EXCEPT ![o] = IF @ = "queued" THEN "delivered" ELSE @]
    /\ IF op[o] = "cancelled" /\ ask[o].phase = "free"
         THEN StopPhase(o, "queued", NoTurn, NoTurn) ELSE UNCHANGED ask
    /\ UNCHANGED <<thread, rows, requestVars, eventVars, edit, sent>>
    /\ UNCHANGED adapterVars

DeliverTurn(o) ==
    /\ o \in sent
    /\ StartTurn(o)
    /\ sent' = sent \ {o}
    /\ UNCHANGED <<thread, op, rows, requestVars, eventVars, edit, marking, ask>>

\* Commands arrive in the order they were sent.
DeliverStop(s) ==
    /\ ask[s].phase = "queued"
    /\ sent = {}
    /\ Interrupt(s, ask[s].turn, s \in Turns)
    /\ ask' = [ask EXCEPT ![s].phase = "sent"]
    /\ UNCHANGED <<thread, op, rows, requestVars, eventVars, edit, linkVars>>

\* A command that is delivered again after it has ended: the result is replayed.
ReplayResult(o) ==
    /\ op[o] \in {"queued", "delivered"}
    /\ call[o] \in {"succeeded", "failed"}
    /\ \A k \in 1..Len(reports) : reports[k].op /= o
    /\ Emit(<<Result(o, call[o])>>)
    /\ UNCHANGED <<process, state, call, stop, codex, abandoned, faults, threadVars>>

-----------------------------------------------------------------------------
(***************************************************************************)
(* The gateway: handle.                                                    *)
(***************************************************************************)

Handle(kind) ==
    /\ reports /= <<>>
    /\ Head(reports).kind = kind
    /\ reports' = Tail(reports)
    /\ UNCHANGED <<process, state, call, stop, codex, abandoned, faults>>

HandleOperationStarted ==
    /\ Handle("operation_started")
    /\ LET o == Head(reports).op
       IN  op' = IF op[o] \in Active THEN [op EXCEPT ![o] = "running"] ELSE op
    /\ UNCHANGED <<thread, rows, requestVars, eventVars, edit, linkVars, ask>>

\* An event of a thread whose latest turn was cancelled is dropped.
DropEvent ==
    /\ marker
    /\ \E kind \in {"turn.accepted", "codex.turn.started", "codex.turn.completed", "codex.turn.failed"} :
          Handle(kind)
    /\ UNCHANGED threadVars

\* Mutant: everything after the edited message goes, what came later too.
RemovedMutant(o) == {m \in Turns : position[m] >= position[edit[o].target]}

\* The messages CommitThreadRewrite deletes: from the edited one up to the
\* last one there was when the edit was requested.
Removed(o) == {m \in Turns : position[m] \in position[edit[o].target]..edit[o].cutoff}

\* CommitThreadRewrite: the replacement takes the place of the edited message.
CommitThreadRewrite(o) ==
    position' = [m \in Turns |-> IF m = o THEN position[edit[o].target]
                                 ELSE IF m \in Removed(o) THEN 0 ELSE position[m]]

\* The commit finds the edited message, or its own replacement.
Committable(o) == position[edit[o].target] > 0 \/ position[o] > 0

\* acceptCodexTurn, then AddEvent and SetThreadStatus(running).  A rewrite that
\* cannot be committed is an error, and the event is lost.
HandleAccepted ==
    /\ ~marker
    /\ Handle("turn.accepted")
    /\ LET o == Head(reports).op
       IN  IF o \in Rewrites /\ ~Committable(o)
             THEN UNCHANGED <<thread, latest, position>>
             ELSE /\ thread' = "running" /\ latest' = o
                  /\ IF o \in Rewrites /\ position[edit[o].target] > 0
                       THEN CommitThreadRewrite(o) ELSE UNCHANGED position
    /\ UNCHANGED <<op, rows, requestVars, edit, marker, linkVars, ask>>

HandleTurnStarted ==
    /\ ~marker
    /\ Handle("codex.turn.started")
    /\ thread' = "running"
    /\ latest' = Head(reports).op
    /\ UNCHANGED <<op, rows, requestVars, position, edit, marker, linkVars, ask>>

\* Mutant: what is not known to be an end leaves the session running.
CompletedTurnStatusMutant(status) == IF status = "completed" THEN "idle" ELSE "running"

\* completedTurnStatus.
CompletedTurnStatus(status) == IF status = "completed" THEN "idle" ELSE status

HandleTurnCompleted ==
    /\ ~marker
    /\ Handle("codex.turn.completed")
    /\ thread' = CompletedTurnStatus(Head(reports).result)
    /\ latest' = NoTurn
    /\ UNCHANGED <<op, rows, requestVars, position, edit, marker, linkVars, ask>>

HandleTurnFailed ==
    /\ ~marker
    /\ Handle("codex.turn.failed")
    /\ thread' = "failed"
    /\ latest' = NoTurn
    /\ UNCHANGED <<op, rows, requestVars, position, edit, marker, linkVars, ask>>

\* operation_result of a turn command: a terminal row ignores it; a failure
\* fails the thread (failCodexTurn).
HandleTurnResult ==
    /\ Handle("operation_result")
    /\ LET o == Head(reports).op
           r == Head(reports).result
       IN  IF op[o] \in Active
             THEN /\ op' = [op EXCEPT ![o] = r]
                  /\ thread' = IF r = "failed" THEN "failed" ELSE thread
                  /\ latest' = IF r = "failed" THEN NoTurn ELSE latest
             ELSE UNCHANGED <<op, thread, latest>>
    /\ UNCHANGED <<rows, requestVars, position, marker, edit, linkVars, ask>>

\* Mutant: the message is not recognised.
NoActiveCodexTurnMutant(r) == FALSE

\* noActiveCodexTurn: whether the message says that nothing was active.
NoActiveCodexTurn(r) == r = "inactive"

\* operation_result of an interruption (failCodexControlOperation): when the
\* session had no active turn the thread is marked interrupted, with the same
\* event that cancelling a queued turn adds.
HandleStopResult ==
    /\ Handle("stop_result")
    /\ LET s == Head(reports).op
       IN  /\ StopPhase(s, IF s \in UserStops THEN "free" ELSE "done", NoTurn, NoTurn)
           /\ IF NoActiveCodexTurn(Head(reports).result)
                THEN thread' = "interrupted" /\ marker' = TRUE /\ latest' = NoTurn
                ELSE UNCHANGED <<thread, marker, latest>>
    /\ UNCHANGED <<op, rows, requestVars, position, edit, linkVars>>

-----------------------------------------------------------------------------
(***************************************************************************)
(* Faults.                                                                 *)
(***************************************************************************)

\* Interruptions after a fault: the ones in again are sent once more, the ones
\* whose result is kept stay as they are, the others are never answered.
AskAgain(again, kept) ==
    [s \in Stops |->
        IF ask[s].phase /= "sent" \/ \E k \in 1..Len(kept) : kept[k] = StopResult(s, kept[k].result) THEN ask[s]
        ELSE IF s \in again THEN [ask[s] EXCEPT !.phase = "queued"]
        ELSE [NoAsk EXCEPT !.phase = IF s \in UserStops THEN "free" ELSE "done"]]

\* The places in keep, one after the other.
Lists(at, keep) ==
    /\ \A i, j \in DOMAIN at : i < j => at[i] < at[j]
    /\ {at[i] : i \in DOMAIN at} = keep

\* The Agent dies and is started again.  The last messages were not sent; what
\* was being executed has left no receipt; of the interruptions, answered
\* ones are replayed and others sent again, if their rows were not running.
Crash ==
    /\ Fault("crash")
    /\ process' = FALSE
    /\ state' = NoState
    /\ call' = [o \in Turns |-> IF Calling(o) THEN "none" ELSE call[o]]
    /\ codex' = [o \in Turns |-> IF Live(o) THEN "over" ELSE codex[o]]
    /\ stop' = [s \in Stops |-> NoStop]
    /\ sent' = {}
    /\ \E n, m \in 0..Len(reports), again \in SUBSET {s \in Stops : ask[s].phase = "sent"} :
          \E at \in [1..m -> 1..Len(reports)] :
              /\ Lists(at, {k \in 1..Len(reports) :
                                k <= n \/ (reports[k].kind = "stop_result" /\ reports[k].op \in again)})
              /\ reports' = [k \in 1..m |-> reports[at[k]]]
              /\ ask' = AskAgain(again, reports')
    /\ UNCHANGED <<abandoned, thread, op, rows, requestVars, eventVars, edit, marking>>

\* The stream breaks: commands in transit and the first messages, which were
\* sent but never arrived, are lost.
Disconnect ==
    /\ Fault("disconnect")
    /\ sent' = {}
    /\ \E n \in 0..Len(reports) :
          /\ \A k \in 1..n : reports[k].kind /= "stop_result"
          /\ reports' = SubSeq(reports, n + 1, Len(reports))
    /\ UNCHANGED <<process, state, call, stop, codex, abandoned, thread, op, rows, requestVars,
                   eventVars, edit, marking, ask>>

-----------------------------------------------------------------------------
(***************************************************************************)
(* Specification.                                                          *)
(***************************************************************************)

HandleRequest(o) ==
    ClaimThreadForTurn(o) \/ QueueTurn(o) \/ QueueTurnFails(o) \/ AddUserMessage(o)

HandleInterrupt(s) == CancelOperation(s) \/ ReleaseThread(s) \/ MarkCancelled(s)

HandleMessage ==
    \/ HandleOperationStarted \/ DropEvent \/ HandleAccepted \/ HandleTurnStarted
    \/ HandleTurnCompleted \/ HandleTurnFailed \/ HandleTurnResult \/ HandleStopResult

Session == AdapterStep /\ UNCHANGED threadVars

ThreadNext ==
    \/ \E o \in Turns : ReadThread(o) \/ HandleRequest(o)
    \/ \E o \in Rewrites, m \in Turns : RewriteThread(o, m)
    \/ \E s \in UserStops : RequestInterrupt(s) \/ HandleInterrupt(s)
    \/ \E o \in Turns : SendTurn(o) \/ MarkDelivered(o) \/ DeliverTurn(o) \/ ReplayResult(o)
    \/ \E s \in Stops : DeliverStop(s)
    \/ HandleMessage
    \/ Session
    \/ Crash \/ Disconnect

ThreadSpec == ThreadInit /\ [][ThreadNext]_vars

\* Requests, the gateway and the goroutines of the session go on, and the user
\* keeps asking for an interruption while there is something to interrupt.
\* Nothing makes a turn end by itself, unless it was interrupted.
ThreadFairness ==
    /\ \A o \in Turns :
          /\ WF_vars(HandleRequest(o))
          /\ WF_vars(SendTurn(o) \/ MarkDelivered(o) \/ DeliverTurn(o) \/ ReplayResult(o))
          /\ WF_vars((\/ PrepareFails(o) \/ StartPreparedTurn(o) \/ HandleResponse(o)
                      \/ TurnAccepted(o) \/ TurnRefused(o)) /\ UNCHANGED threadVars)
          /\ WF_vars(NotifyStarted(o) /\ UNCHANGED threadVars)
          /\ WF_vars(NotifyEnded(o, "interrupted") /\ UNCHANGED threadVars)
    /\ \A s \in UserStops : WF_vars(RequestInterrupt(s) \/ HandleInterrupt(s))
    /\ \A s \in Stops :
          /\ WF_vars(DeliverStop(s))
          /\ WF_vars((InterruptTurn(s) \/ InterruptNothing(s)) /\ UNCHANGED threadVars)
    /\ WF_vars(HandleMessage)

FairThreadSpec == ThreadSpec /\ ThreadFairness

-----------------------------------------------------------------------------
(***************************************************************************)
(* Properties.                                                             *)
(***************************************************************************)

\* Every variable has its type.
ThreadTypeOK ==
    /\ AdapterTypeOK
    /\ thread \in ThreadStatus
    /\ op \in [Turns -> Active \cup {"none", "succeeded", "failed", "cancelled"}]
    /\ rows \in Seq(Turns)
    /\ handler \in [Turns -> {"none", "read", "claimed", "queued", "done"}]
    /\ before \in [Turns -> ThreadStatus]
    /\ LastPosition \in Nat /\ position \in [Turns -> 0..LastPosition]
    /\ edit \in [Rewrites -> [target : Turns \cup {NoTurn}, cutoff : Nat]]
    /\ marker \in BOOLEAN
    /\ latest \in Turns \cup {NoTurn}
    /\ sent \subseteq Turns /\ marking \subseteq Turns
    /\ ask \in [Stops -> [phase : {"free", "cancelling", "cancelled", "released", "queued", "sent", "done"},
                          op : Turns \cup {NoTurn}, turn : Turns \cup {NoTurn}]]

\* A busy session has something to interrupt.  handleTurn refuses new turns
\* while it is queued or running, and interruptTurn refuses (409) without a
\* latest turn and without an active operation: the user would be locked out.
Interruptible ==
    thread \in BusyStatus => \/ latest /= NoTurn
                            \/ ActiveCodexTurnOperation /= NoTurn
                            \/ \E o \in Turns : handler[o] = "claimed"

\* Committing an edit (CommitThreadRewrite) touches no message that was sent
\* after the edit was requested, whatever happens in between.
LaterMessagesSurvive ==
    [][\A i, j \in 1..Len(rows) :
          i < j /\ position[rows[i]] = 0 /\ position'[rows[i]] > 0
            => position'[rows[j]] = position[rows[j]]]_vars

\* A session leaves queued and running when the user keeps asking for an
\* interruption, though no turn ends by itself and the app-server may exit.
BusyCanBeStopped == thread \in BusyStatus ~> thread \notin BusyStatus

\* What gateway.go:214-217 says of the late events of a cancelled turn: they do
\* not make it the session's active turn again.  It does not hold (README.md,
\* Findings): the cancellation is three statements.
NoResurrection ==
    [][\A o \in Turns : op[o] = "cancelled" /\ latest' = o => latest = o]_vars

\* What gateway.go:1058-1061 says of a turn that is cancelled while it is being
\* delivered: it gets an interruption.
CancelledTurnIsStopped ==
    \A o \in Turns : (op[o] = "cancelled" /\ Live(o)) ~> ~Live(o)

\* What docs/USER_GUIDE.md:539 says: interrupted means that the task stopped.
\* It does not hold (README.md, Findings): the answer of an interruption may
\* arrive when the session is already at its next turn.
InterruptedMeansStopped == thread = "interrupted" => \A o \in Turns : codex[o] \notin {"accepted", "running"}

-----------------------------------------------------------------------------
(***************************************************************************)
(* The inductive invariants behind LaterMessagesSurvive and Interruptible. *)
(***************************************************************************)

\* A request has a row from when its operation is queued, one, and none of its
\* command is seen before; an edit is one statement.
RowsFit ==
    /\ \A i, j \in DOMAIN rows : rows[i] = rows[j] => i = j
    /\ \A o \in Turns : (\E i \in DOMAIN rows : rows[i] = o) <=> op[o] /= "none"
    /\ \A o \in Turns : op[o] = "none" <=> handler[o] \in {"none", "read", "claimed"}
    /\ \A o \in Rewrites :
          /\ handler[o] \in {"none", "done"}
          /\ handler[o] = "done" => edit[o].target \in Turns \ {o}
    /\ \A o \in Turns : position[o] > 0 => handler[o] = "done"
    /\ \A o \in Turns : op[o] = "none" => o \notin sent /\ call[o] = "none"
    /\ \A k \in DOMAIN reports : reports[k].kind = "turn.accepted" => op[reports[k].op] /= "none"

\* An edit that was requested and whose message still stands.
Uncommitted(r) == handler[r] = "done" /\ position[edit[r].target] > 0

\* One edit at a time waits for its commit.
OneEdit == \A q, r \in Rewrites : Uncommitted(q) /\ Uncommitted(r) => q = r

\* An edit replaces a message that was there, once, and what was sent after it
\* has a position after its cutoff.
EditsFit ==
    /\ \A r \in Rewrites : handler[r] = "done" =>
          LET m == edit[r].target
          IN  handler[m] = "done" /\ (m \in Rewrites => ~Uncommitted(m))
    /\ \A r \in Rewrites : Uncommitted(r) =>
          /\ position[edit[r].target] <= edit[r].cutoff /\ edit[r].cutoff <= LastPosition
          /\ \A i, j \in DOMAIN rows : rows[i] = r /\ i < j /\ position[rows[j]] > 0
                                         => position[rows[j]] > edit[r].cutoff

EditsInv == ThreadTypeOK /\ RowsFit /\ EditsFit

\* Users interrupt only what was delivered, so nothing is cancelled, and what a
\* command reports comes in order: its result after everything else.
ReportsFit ==
    /\ \A s \in Stops : ask[s].phase \notin {"cancelling", "cancelled", "released"}
    /\ \A o \in Turns :
          /\ op[o] /= "cancelled"
          /\ handler[o] = "queued" => op[o] = "queued"
          /\ handler[o] /= "done" => o \notin sent \cup marking /\ call[o] = "none"
    /\ \A k \in DOMAIN reports :
          /\ reports[k].kind \in {"operation_started", "turn.accepted"} => call[reports[k].op] /= "none"
          /\ reports[k].kind = "operation_result" =>
                /\ call[reports[k].op] = reports[k].result
                /\ \A l \in DOMAIN reports : l > k => reports[l] /= Event("turn.accepted", reports[k].op)

\* A turn that is still to show: its command goes on, or its end is on its way
\* and, if it succeeded, its acceptance before that.
ToCome(o) ==
    /\ op[o] \in Active
    /\ call[o] = "succeeded" => \E k \in DOMAIN reports : reports[k] = Event("turn.accepted", o)

\* While the session is busy a request is on its way, or what is to come will
\* not be dropped and there is a turn, or will be.
BusyHasCause ==
    thread \in BusyStatus =>
        \/ \E o \in Turns : handler[o] \in {"claimed", "queued"}
        \/ ~marker /\ (latest /= NoTurn \/ \E o \in Turns : ToCome(o))

InterruptInv == ThreadTypeOK /\ RowsFit /\ ReportsFit /\ BusyHasCause
=============================================================================
