----------------------------- MODULE TurnOwnership -----------------------------
(***************************************************************************)
(* Gemini and Claude turns of the conversations on one workspace: which    *)
(* CLI process a conversation owns, how it is stopped, and what the        *)
(* control plane may conclude when it does not know.                       *)
(*                                                                         *)
(* A turn is an operation of AgentOperations that is sent at most once; a  *)
(* stop is an operation that asks the Agent to end a turn.  The rows, the  *)
(* conversations and the goals are the database.  An HTTP handler reads a  *)
(* conversation and changes it in a later transaction; the gateway         *)
(* completes the row of a turn and its conversation in two statements.     *)
(***************************************************************************)
EXTENDS Naturals, Sequences, FiniteSets, SequencesExt

CONSTANTS
  GeminiThreads, ClaudeThreads,   \* conversations, all on one workspace
  Turns, Stops,                   \* operation ids
  GoalTurns,                      \* turns that may be started with a goal
  None,
  Faults, MaxFaults,              \* kinds of fault that happen, and how many
  MaxUp                           \* bound of the Agent's messages under way

Threads == GeminiThreads \cup ClaudeThreads
Terminal == {"succeeded", "failed", "cancelled"}

\* What the handler of a Claude interruption has read, and what handle still has
\* to record
Asked == [thread : ClaudeThreads, op : Turns, recovery : BOOLEAN]
Handling == [op : Turns, status : Terminal]

ASSUME OwnershipAssumption ==
  /\ GeminiThreads \cap ClaudeThreads = {}
  /\ Turns \subseteq Nat /\ Turns \cap Stops = {}
  /\ None \notin Threads \cup Turns \cup Stops \cup Asked \cup Handling
  /\ MaxFaults \in Nat /\ MaxUp \in Nat
  /\ Faults \subseteq {"disconnect", "crash", "timeout"}

VARIABLES
  thread,     \* rows of gemini_threads and claude_threads
  row,        \* rows of agent_operations that start turns
  stop,       \* rows of agent_operations that interrupt turns
  goal,       \* the latest row of gemini_goals of each conversation
  log,        \* the user messages a conversation shows, by operation
  asked,      \* what the handler of a Claude interruption has read
  handling,   \* the turn whose row handle has completed, and the result
  down, up,   \* commands to the Agent, messages of the Agent
  executing,  \* Client.seen: turns being executed
  cancelled,  \* executions whose context was cancelled
  waiter,     \* Client.seen: executions of stops
  receipt,    \* results on the Agent's disk
  process,    \* CLI processes alive
  native,     \* prompts each native session of the CLI remembers
  confirmed,  \* turns a user has declared stopped
  torn,       \* turns whose handling ended after the row was completed
  faults

db == <<thread, row, stop, goal, log>>
agent == <<executing, cancelled, waiter, receipt, process, native>>
vars == <<db, asked, handling, down, up, agent, confirmed, torn, faults>>

NoGoal == [status |-> "none", op |-> None]
NoRow == [status |-> "none", thread |-> None, session |-> None, edit |-> None,
          init |-> FALSE]   \* init: its init event is stored

Init ==
  /\ thread = [t \in Threads |-> [status |-> "idle", op |-> None, session |-> None]]
  /\ row = [o \in Turns |-> NoRow]
  /\ stop = [s \in Stops |-> [status |-> "none", op |-> None, recovery |-> FALSE]]
  /\ goal = [t \in GeminiThreads |-> NoGoal]
  /\ log = [t \in Threads |-> <<>>]
  /\ asked = [s \in Stops |-> None]
  /\ handling = None /\ down = {} /\ up = <<>>
  /\ executing = {}
  /\ cancelled = {}
  /\ waiter = [s \in Stops |-> "absent"]
  /\ receipt = [o \in Turns |-> "none"]
  /\ process = {}
  /\ native = [o \in Turns |-> <<>>]
  /\ confirmed = {} /\ torn = {} /\ faults = 0

--------------------------------------------------------------------------------
(* What the statements of the store look at *)

\* "delivered" stands for running as well: no statement here tells them apart
Active(o) == o # None /\ row[o].status \in {"queued", "delivered"}
InFlight(o) == o # None /\ row[o].status = "delivered"

\* recovery_pending: the conversation is shown interrupted, the turn may run
RecoveryPending(t) == thread[t].status = "interrupted" /\ Active(thread[t].op)

Busy == {"queued", "running", "interrupting"}

\* The condition of every statement that needs a conversation at rest
AtRest(t) ==
  /\ thread[t].status \notin Busy \cup {"deleted"}
  /\ ~RecoveryPending(t)

\* The unique index on active operations that write to the workspace
WriteLocked == \E o \in Turns : Active(o)

\* A goal follows the operation it was claimed for
GoalOf(t, o) == t \in GeminiThreads /\ goal[t].op = o

SetGoal(t, o, from, to) ==
  goal' = IF GoalOf(t, o) /\ goal[t].status \in from
          THEN [goal EXCEPT ![t].status = to] ELSE goal

\* Operations are named in the order in which they are queued
Fresh(o) == row[o] = NoRow /\ \A p \in Turns : p < o => row[p] # NoRow

Send(m) == Len(up) < MaxUp /\ up' = Append(up, m)
Message(kind, id, status) == [kind |-> kind, id |-> id, status |-> status]

--------------------------------------------------------------------------------
(* Requests of users *)

\* An edit needs a saved native turn of the message it replaces
geminiRewriteTarget(t, e) ==
  /\ e \in Range(log[t])
  /\ row[e].init

claudeRewriteTarget(t, e) ==
  /\ e \in Range(log[t])
  /\ thread[t].session # None

\* A new goal replaces the last one, which must not be active any more; a
\* goal is resumed when it is paused or blocked
claimGeminiGoal(t, o, g) ==
  /\ g = "goal" => goal[t].status # "active"   \* gemini_goals_active_idx
  /\ g = "resume" => goal[t].status \in {"paused", "blocked"}
  /\ goal' = IF g = "plain" THEN goal
             ELSE [goal EXCEPT ![t] = [status |-> "active", op |-> o]]

queueGeminiTurn(t, o, e, g) ==
  /\ AtRest(t)
  /\ ~WriteLocked
  /\ claimGeminiGoal(t, o, g)
  /\ e # None => geminiRewriteTarget(t, e)
  /\ row' = [row EXCEPT ![o] = [status |-> "queued", thread |-> t,
                                session |-> thread[t].session, edit |-> e,
                                init |-> FALSE]]
  /\ thread' = [thread EXCEPT ![t].status = "queued", ![t].op = o]
  /\ log' = IF e = None THEN [log EXCEPT ![t] = Append(@, o)] ELSE log

\* A prompt, a prompt with a goal, or an edit of an earlier message
startGeminiTurn(t, o, e, g) ==
  /\ Fresh(o)
  /\ g = "plain" \/ (e = None /\ o \in GoalTurns)
  /\ g # "resume"
  /\ queueGeminiTurn(t, o, e, g)
  /\ UNCHANGED <<stop, asked, handling, down, up, agent, confirmed, torn, faults>>

queueClaudeInput(t, o, e) ==
  /\ AtRest(t)
  /\ ~WriteLocked
  /\ e # None => claudeRewriteTarget(t, e)
  /\ row' = [row EXCEPT ![o] = [status |-> "queued", thread |-> t,
                                session |-> thread[t].session, edit |-> e,
                                init |-> FALSE]]
  /\ thread' = [thread EXCEPT ![t].status = "queued", ![t].op = o]
  /\ log' = IF e = None THEN [log EXCEPT ![t] = Append(@, o)] ELSE log

startClaudeTurn(t, o, e) ==
  /\ Fresh(o)
  /\ queueClaudeInput(t, o, e)
  /\ UNCHANGED <<stop, goal, asked, handling, down, up, agent, confirmed, torn, faults>>

\* What InterruptGeminiTurn and InterruptClaudeTurn find when they may act
Interruptible(t, o) ==
  /\ Active(o) /\ thread[t].op = o
  /\ thread[t].status \in {"queued", "running"} \/ (thread[t].status = "interrupted" /\ InFlight(o))

\* A turn that was not sent is cancelled here, any other by the Agent
Interrupt(s, t, o, recovery) ==
  IF row[o].status = "queued"
  THEN /\ row' = [row EXCEPT ![o].status = "cancelled"]
       /\ thread' = [thread EXCEPT ![t].status = "interrupted"]
       /\ UNCHANGED stop
  ELSE /\ thread' = [thread EXCEPT ![t].status = "interrupting"]
       /\ stop' = [stop EXCEPT ![s] = [status |-> "queued", op |-> o, recovery |-> recovery]]
       /\ UNCHANGED row

\* The transaction checks what the handler read and acts on what it finds itself
InterruptGeminiTurn(s, t, to) ==
  /\ asked[s] = None /\ stop[s].status = "none"
  /\ Interruptible(t, thread[t].op)
  /\ Interrupt(s, t, thread[t].op, thread[t].status = "interrupted")
  /\ SetGoal(t, thread[t].op, {"active"}, to)
  /\ UNCHANGED <<log, asked, handling, down, up, agent, confirmed, torn, faults>>

interruptGeminiTurn(s, t) == InterruptGeminiTurn(s, t, "paused")

\* pause and cancel name a goal that must still be active
controlGeminiGoal(s, t, action) ==
  /\ GoalOf(t, thread[t].op) /\ goal[t].status = "active"
  /\ InterruptGeminiTurn(s, t, action)

resumeGeminiGoal(t, o) ==
  /\ Fresh(o)
  /\ queueGeminiTurn(t, o, None, "resume")
  /\ UNCHANGED <<stop, asked, handling, down, up, agent, confirmed, torn, faults>>

CancelInactiveGeminiGoal(t) ==
  /\ goal[t].status \in {"paused", "blocked"}
  /\ goal' = [goal EXCEPT ![t].status = "cancelled"]
  /\ UNCHANGED <<thread, row, stop, log, asked, handling, down, up, agent,
                 confirmed, torn, faults>>

\* Here the Agent is told what the handler read before the transaction
interruptClaudeTurn(s, t) ==
  /\ asked[s] = None /\ stop[s].status = "none"
  /\ Interruptible(t, thread[t].op)
  /\ asked' = [asked EXCEPT ![s] = [thread |-> t, op |-> thread[t].op,
                                    recovery |-> RecoveryPending(t)]]
  /\ UNCHANGED <<db, handling, down, up, agent, confirmed, torn, faults>>

InterruptClaudeTurn(s) ==
  /\ asked[s] # None
  /\ asked' = [asked EXCEPT ![s] = None]
  /\ LET t == asked[s].thread
         o == asked[s].op
     IN IF Interruptible(t, o) THEN Interrupt(s, t, o, asked[s].recovery)
        ELSE UNCHANGED <<thread, row, stop>>
  /\ UNCHANGED <<goal, log, handling, down, up, agent, confirmed, torn, faults>>

\* A user says that the process of an interrupted turn is gone; the operation
\* and the status keep a stale confirmation from releasing another turn
ReleaseTurn(t, o) ==
  /\ InFlight(o)
  /\ thread[t].op = o /\ thread[t].status = "interrupted"
  /\ row' = [row EXCEPT ![o].status = "cancelled"]

ConfirmGeminiStopped(t, o) == ReleaseTurn(t, o) /\ SetGoal(t, o, {"active"}, "blocked")
ConfirmClaudeStopped(t, o) == ReleaseTurn(t, o) /\ UNCHANGED goal

confirmGeminiStopped(t, o) ==
  /\ ConfirmGeminiStopped(t, o)
  /\ confirmed' = confirmed \cup {o}
  /\ UNCHANGED <<thread, stop, log, asked, handling, down, up, agent, torn, faults>>

confirmClaudeStopped(t, o) ==
  /\ ConfirmClaudeStopped(t, o)
  /\ confirmed' = confirmed \cup {o}
  /\ UNCHANGED <<thread, stop, log, asked, handling, down, up, agent, torn, faults>>

\* A conversation at rest is deleted with what it shows
DeleteGeminiThread(t) ==
  /\ AtRest(t) /\ thread[t].op # None
  /\ thread' = [thread EXCEPT ![t].status = "deleted"]
  /\ log' = [log EXCEPT ![t] = <<>>]
  /\ UNCHANGED <<row, stop, goal, asked, handling, down, up, agent, confirmed, torn, faults>>

DeleteClaudeThread(t) ==
  /\ AtRest(t) /\ thread[t].op # None
  /\ thread' = [thread EXCEPT ![t].status = "deleted"]
  /\ log' = [log EXCEPT ![t] = <<>>]
  /\ UNCHANGED <<row, stop, goal, asked, handling, down, up, agent, confirmed, torn, faults>>

--------------------------------------------------------------------------------
(* flush, and the probe sent with every keepalive *)

\* The claim precedes the send, so that a turn is sent at most once.  A turn
\* claimed and not sent is lost as one that was sent and not received.
ClaimGeminiDelivery(o) ==
  /\ row[o].status = "queued"
  /\ row' = [row EXCEPT ![o].status = "delivered"]
  /\ down' = down \cup {o}
  /\ UNCHANGED <<thread, stop, goal, log, asked, handling, up, agent, confirmed, torn, faults>>

\* A stop that was sent is sent again until it is answered; a copy of one that
\* is executing only waits for the first
SendStop(s) ==
  /\ stop[s].status \in {"queued", "delivered"}
  /\ s \notin down /\ waiter[s] # "waiting"
  /\ \A i \in DOMAIN up : up[i].id # s
  /\ stop' = [stop EXCEPT ![s].status = "delivered"]
  /\ down' = down \cup {s}
  /\ UNCHANGED <<thread, row, goal, log, asked, handling, up, agent, confirmed,
                 torn, faults>>

\* UnfinishedGeminiOperations and UnfinishedClaudeOperations name the turns;
\* the Agent answers for each what it knows
Unfinished(o) == InFlight(o)

Answer(o) ==
  CASE o \in executing       -> Message("active", o, "none")
    [] receipt[o] # "none"   -> Message("result", o, receipt[o])
    [] OTHER                 -> Message("lost", o, "none")

\* The goroutine of a turn that was sent 30 seconds ago and was held up on the
\* way may still have to start when the probe behind it is read.  Answers about
\* one turn do not pile up, and that it is active matters when it was doubted.
Doubted(o) ==
  \/ thread[row[o].thread].status \notin {"queued", "running"}
  \/ \E i \in DOMAIN up : up[i].kind \in {"lost", "stop"}

Probe(o) ==
  /\ Unfinished(o)
  /\ o \in executing => Doubted(o)
  /\ \A i \in DOMAIN up : up[i].id # o \/ up[i].kind \notin {"active", "lost", "result"}
  /\ Send(Answer(o))
  /\ UNCHANGED <<db, asked, handling, down, agent, confirmed, torn, faults>>

reconcileGeminiOperations(o) == row[o].thread \in GeminiThreads /\ Probe(o)
reconcileClaudeOperations(o) == row[o].thread \in ClaudeThreads /\ Probe(o)

--------------------------------------------------------------------------------
(* The Agent *)

handleTurnCommand(o) ==
  /\ o \in down
  /\ down' = down \ {o}
  /\ executing' = executing \cup {o}
  /\ UNCHANGED <<db, asked, handling, up, cancelled, waiter, receipt, process, native,
                 confirmed, torn, faults>>

\* The CLI loads the session, or the part of it before the edited message,
\* and takes the prompt; an edit of a message it does not find fails.
\* A session is named by the turn that created it.
Session(o) == IF row[o].edit # None \/ row[o].session = None THEN o ELSE row[o].session

Saved(o) == IF row[o].session = None THEN <<>> ELSE native[row[o].session]

Before(s, e) == IF e = None THEN s ELSE SubSeq(s, 1, (CHOOSE i \in DOMAIN s : s[i] = e) - 1)

startProcess(o) ==
  /\ o \in executing \ (process \cup cancelled)
  /\ o \notin Range(native[Session(o)])
  /\ row[o].edit \in Range(Saved(o)) \cup {None}
  /\ process' = process \cup {o}
  /\ native' = [native EXCEPT ![Session(o)] = Append(Before(Saved(o), row[o].edit), o)]
  /\ Send(Message("init", o, "none"))
  /\ UNCHANGED <<db, asked, handling, down, executing, cancelled, waiter, receipt,
                 confirmed, torn, faults>>

\* The end of an execution: the process has been waited for, the receipt is
\* written, the result is queued
finish(o) ==
  /\ o \in executing
  /\ \E r \in (IF o \in process THEN {"succeeded"} ELSE {}) \cup
              (IF o \in cancelled THEN {"cancelled"} ELSE {"failed"}) :
       /\ receipt' = [receipt EXCEPT ![o] = r]
       /\ Send(Message("result", o, r))
  /\ executing' = executing \ {o} /\ process' = process \ {o} /\ cancelled' = cancelled \ {o}
  /\ UNCHANGED <<db, asked, handling, down, waiter, native, confirmed,
                 torn, faults>>

\* A process outlives the Agent that started it and ends by itself
orphanExits(o) ==
  /\ o \in process \ executing
  /\ process' = process \ {o}
  /\ UNCHANGED <<db, asked, handling, down, up, executing, cancelled, waiter, receipt,
                 native, confirmed, torn, faults>>

\* A stop cancels the execution it finds and waits for its end for 15 seconds;
\* without one it answers from the receipt, or that the turn is lost.  A second
\* copy of a command gets the answer of the first.
stopStarts(s) ==
  /\ s \in down /\ waiter[s] = "absent"
  /\ stop[s].op \in executing
  /\ down' = down \ {s}
  /\ waiter' = [waiter EXCEPT ![s] = "waiting"]
  /\ cancelled' = cancelled \cup {stop[s].op}
  /\ UNCHANGED <<db, asked, handling, up, executing, receipt, process, native, confirmed,
                 torn, faults>>

stopFindsNothing(s) ==
  /\ s \in down /\ waiter[s] = "absent"
  /\ stop[s].op \notin executing
  /\ down' = down \ {s}
  /\ LET r == IF receipt[stop[s].op] = "none" THEN "lost" ELSE "stopped"
     IN waiter' = [waiter EXCEPT ![s] = r] /\ Send(Message("stop", s, r))
  /\ UNCHANGED <<db, asked, handling, executing, cancelled, receipt, process, native,
                 confirmed, torn, faults>>

\* Mutant: a stop is answered without waiting for the end of the execution
interruptAtOnce(s) ==
  /\ waiter[s] = "waiting"
  /\ waiter' = [waiter EXCEPT ![s] = "stopped"]
  /\ Send(Message("stop", s, "stopped"))
  /\ UNCHANGED <<db, asked, handling, down, executing, cancelled, receipt, process,
                 native, confirmed, torn, faults>>

interruptAndWait(s) ==
  /\ waiter[s] = "waiting"
  /\ LET r == IF stop[s].op \in executing THEN "timeout" ELSE "stopped"
     IN /\ r = "timeout" => "timeout" \in Faults /\ faults < MaxFaults
        /\ faults' = IF r = "timeout" THEN faults + 1 ELSE faults
        /\ waiter' = [waiter EXCEPT ![s] = r]
        /\ Send(Message("stop", s, r))
  /\ UNCHANGED <<db, asked, handling, down, executing, cancelled, receipt, process,
                 native, confirmed, torn>>

replayStop(s) ==
  /\ s \in down /\ waiter[s] \in {"stopped", "lost", "timeout"}
  /\ down' = down \ {s}
  /\ Send(Message("stop", s, waiter[s]))
  /\ UNCHANGED <<db, asked, handling, agent, confirmed, torn, faults>>

--------------------------------------------------------------------------------
(* handle of the gateway: one message after the other *)

Receive(kind) ==
  /\ up # <<>> /\ Head(up).kind = kind
  /\ handling = None
  /\ up' = Tail(up)

\* Mutant: the conversation keeps the messages the edit replaces
KeepHistory(t, o) == log' = log

\* An edit takes effect when the CLI has loaded what precedes it
CommitGeminiRewrite(t, o) ==
  log' = IF row[o].edit \notin Range(log[t]) THEN log   \* none, or committed before
         ELSE [log EXCEPT ![t] = Append(Before(@, row[o].edit), o)]

CommitClaudeRewrite(t, o) ==
  log' = IF row[o].edit \notin Range(log[t]) THEN log   \* none, or committed before
         ELSE [log EXCEPT ![t] = Append(Before(@, row[o].edit), o)]

\* Events of another operation, or of one that is over, change nothing
Current(t, o) ==
  /\ thread[t].op = o /\ Active(o)
  /\ thread[t].status \in Busy \cup {"interrupted"}

Initialised(t, o) ==
  /\ thread' = [thread EXCEPT ![t].session = Session(o),
                  ![t].status = IF @ \in {"interrupting", "interrupted"} THEN @ ELSE "running"]
  /\ row' = [row EXCEPT ![o].init = TRUE]

handleGeminiInit ==
  /\ Receive("init")
  /\ LET o == Head(up).id
         t == row[o].thread
     IN /\ t \in GeminiThreads
        /\ IF Current(t, o) THEN Initialised(t, o) /\ CommitGeminiRewrite(t, o)
           ELSE UNCHANGED <<thread, row, log>>
  /\ UNCHANGED <<stop, goal, asked, handling, down, agent, confirmed, torn, faults>>

handleClaudeInit ==
  /\ Receive("init")
  /\ LET o == Head(up).id
         t == row[o].thread
     IN /\ t \in ClaudeThreads
        /\ IF Current(t, o) /\ (row[o].edit # None \/ thread[t].session \in {None, Session(o)})
           THEN Initialised(t, o) /\ CommitClaudeRewrite(t, o)
           ELSE UNCHANGED <<thread, row, log>>
  /\ UNCHANGED <<stop, goal, asked, handling, down, agent, confirmed, torn, faults>>

\* Mutant: a turn that is lost while it is being stopped stays so
LostUnlessStopping(t, o) ==
  /\ thread' = IF InFlight(o) /\ thread[t].op = o /\ thread[t].status \in {"queued", "running"}
               THEN [thread EXCEPT ![t].status = "interrupted"] ELSE thread
  /\ UNCHANGED goal

\* Ownership: lost keeps the workspace reserved, active takes a stop back
Lost(t, o) ==
  /\ thread' = IF InFlight(o) /\ thread[t].op = o /\ thread[t].status \in Busy
               THEN [thread EXCEPT ![t].status = "interrupted"] ELSE thread
  /\ UNCHANGED goal

updateGeminiOwnership ==
  /\ Receive("active") \/ Receive("lost")
  /\ LET o == Head(up).id
         t == row[o].thread
     IN /\ t \in GeminiThreads
        /\ IF Head(up).kind = "lost" THEN Lost(t, o)
           ELSE IF InFlight(o) /\ thread[t].op = o /\ thread[t].status = "interrupted"
           THEN /\ thread' = [thread EXCEPT ![t].status = "running"]
                /\ SetGoal(t, o, {"paused", "cancelled"}, "active")
           ELSE UNCHANGED <<thread, goal>>
  /\ UNCHANGED <<row, stop, log, asked, handling, down, agent, confirmed, torn, faults>>

updateClaudeOwnership ==
  /\ Receive("active") \/ Receive("lost")
  /\ LET o == Head(up).id
         t == row[o].thread
     IN /\ t \in ClaudeThreads
        /\ IF Head(up).kind = "lost" THEN Lost(t, o)
           ELSE /\ thread' = IF InFlight(o) /\ thread[t].op = o /\ thread[t].status = "interrupted"
                             THEN [thread EXCEPT ![t].status = "running"] ELSE thread
                /\ UNCHANGED goal
  /\ UNCHANGED <<row, stop, log, asked, handling, down, agent, confirmed, torn, faults>>

\* The result of a turn completes its row; a row that is over ignores it
HandleResult ==
  /\ Receive("result")
  /\ LET o == Head(up).id
     IN IF Active(o)
        THEN /\ row' = [row EXCEPT ![o].status = Head(up).status]
             /\ handling' = [op |-> o, status |-> Head(up).status]
        ELSE UNCHANGED <<row, handling>>
  /\ UNCHANGED <<thread, stop, goal, log, asked, down, agent, confirmed, torn, faults>>

\* Mutant: the goal is not given back
KeepGoalStopped(s, t, o) ==
  /\ thread' = IF thread[t].op = o /\ thread[t].status = "interrupting"
               THEN [thread EXCEPT ![t].status = IF stop[s].recovery THEN "interrupted" ELSE "running"]
               ELSE thread
  /\ UNCHANGED goal

\* A failed interruption gives the conversation and its goal back
InterruptFailed(s, t, o) ==
  IF thread[t].op = o /\ thread[t].status = "interrupting"
  THEN /\ thread' = [thread EXCEPT ![t].status = IF stop[s].recovery THEN "interrupted" ELSE "running"]
       /\ IF stop[s].recovery THEN UNCHANGED goal
          ELSE SetGoal(t, o, {"paused", "cancelled"}, "active")
  ELSE UNCHANGED <<thread, goal>>

\* The answer of a stop
StopAnswered(s) ==
  stop' = [stop EXCEPT ![s].status = IF Head(up).status = "stopped" THEN "succeeded" ELSE "failed"]

completeGeminiInterrupt ==
  /\ Receive("stop")
  /\ LET s == Head(up).id
         o == stop[s].op
         t == row[o].thread
     IN /\ t \in GeminiThreads
        /\ IF stop[s].status \notin {"queued", "delivered"}
           THEN UNCHANGED <<thread, row, stop, goal, handling>>
           ELSE /\ StopAnswered(s)
                /\ CASE Head(up).status = "stopped" ->
                          /\ IF thread[t].op = o /\ thread[t].status = "interrupting"
                                /\ (Active(o) \/ row[o].status = "cancelled")
                             THEN /\ row' = [row EXCEPT ![o].status = "cancelled"]
                                  /\ handling' = [op |-> o, status |-> "cancelled"]
                             ELSE UNCHANGED <<row, handling>>
                          /\ UNCHANGED <<thread, goal>>
                     [] Head(up).status = "lost" -> Lost(t, o) /\ UNCHANGED <<row, handling>>
                     [] OTHER -> InterruptFailed(s, t, o) /\ UNCHANGED <<row, handling>>
  /\ UNCHANGED <<log, asked, down, agent, confirmed, torn, faults>>

completeClaudeInterrupt ==
  /\ Receive("stop")
  /\ LET s == Head(up).id
         o == stop[s].op
         t == row[o].thread
     IN /\ t \in ClaudeThreads
        /\ IF stop[s].status \notin {"queued", "delivered"}
           THEN UNCHANGED <<thread, row, stop, goal, handling>>
           ELSE /\ StopAnswered(s)
                /\ CASE Head(up).status = "stopped" ->
                          /\ IF Active(o)
                             THEN /\ row' = [row EXCEPT ![o].status = "cancelled"]
                                  /\ handling' = [op |-> o, status |-> "cancelled"]
                             ELSE UNCHANGED <<row, handling>>
                          /\ UNCHANGED <<thread, goal>>
                     [] Head(up).status = "lost" -> Lost(t, o) /\ UNCHANGED <<row, handling>>
                     [] OTHER -> InterruptFailed(s, t, o) /\ UNCHANGED <<row, handling>>
  /\ UNCHANGED <<log, asked, down, agent, confirmed, torn, faults>>

\* The status a conversation gets at the end of its turn
Ended(t, result) ==
  IF thread[t].status = "interrupting" \/ result = "cancelled" THEN "interrupted"
  ELSE IF result = "succeeded" THEN "idle" ELSE "failed"

\* Mutant: the end of a turn is recorded whatever turn the conversation is at
CompleteAnyTurn(t, o, result) ==
  thread' = IF thread[t].status # "deleted"
            THEN [thread EXCEPT ![t].status = Ended(t, result)] ELSE thread

CompleteTurn(t, o, result) ==
  thread' = IF thread[t].op = o /\ thread[t].status # "deleted"
            THEN [thread EXCEPT ![t].status = Ended(t, result)] ELSE thread

\* The second half of completeGeminiOperation: CompleteGeminiTurn
CompleteGeminiTurn ==
  /\ handling # None /\ row[handling.op].thread \in GeminiThreads
  /\ handling' = None
  /\ LET o == handling.op
         t == row[o].thread
     IN /\ CompleteTurn(t, o, handling.status)
        /\ IF thread[t].op = o
           THEN \E to \in {"blocked"} \cup (IF Ended(t, handling.status) = "idle"
                                          THEN {"completed"} ELSE {}) :
                  SetGoal(t, o, {"active"}, to)   \* as the model last reported
           ELSE UNCHANGED goal
  /\ UNCHANGED <<row, stop, log, asked, down, up, agent, confirmed, torn, faults>>

completeClaudeOperation ==
  /\ handling # None /\ row[handling.op].thread \in ClaudeThreads
  /\ handling' = None
  /\ CompleteTurn(row[handling.op].thread, handling.op, handling.status)
  /\ UNCHANGED <<row, stop, goal, log, asked, down, up, agent, confirmed, torn, faults>>

--------------------------------------------------------------------------------
(* Faults *)

Fault(kind) == kind \in Faults /\ faults < MaxFaults /\ faults' = faults + 1

\* The stream breaks: what is on it is lost, and the statement that handle
\* has not executed yet is not executed, since its context is the stream's
Disconnect ==
  /\ Fault("disconnect")
  /\ down' = {}
  /\ \E k \in 0..Len(up) : up' = SubSeq(up, k + 1, Len(up))
  /\ handling' = None
  /\ torn' = IF handling = None THEN torn ELSE torn \cup {handling.op}
  /\ UNCHANGED <<db, asked, agent, confirmed>>

\* The Agent dies: the CLI processes go on without it
Crash ==
  /\ Fault("crash")
  /\ down' = {}
  /\ \E k \in 0..Len(up) : up' = SubSeq(up, 1, k)
  /\ executing' = {}
  /\ cancelled' = {}
  /\ waiter' = [s \in Stops |-> IF waiter[s] = "waiting" THEN "absent" ELSE waiter[s]]
  /\ UNCHANGED <<db, asked, handling, receipt, process, native, confirmed, torn>>

--------------------------------------------------------------------------------
User ==
  \/ \E t \in GeminiThreads, o \in Turns, e \in Turns \cup {None}, g \in {"plain", "goal"} :
       startGeminiTurn(t, o, e, g)
  \/ \E t \in ClaudeThreads, o \in Turns, e \in Turns \cup {None} : startClaudeTurn(t, o, e)
  \/ \E s \in Stops, t \in GeminiThreads : interruptGeminiTurn(s, t)
  \/ \E s \in Stops, t \in ClaudeThreads : interruptClaudeTurn(s, t)
  \/ \E s \in Stops, t \in GeminiThreads, a \in {"paused", "cancelled"} : controlGeminiGoal(s, t, a)
  \/ \E t \in GeminiThreads, o \in Turns : resumeGeminiGoal(t, o)
  \/ \E t \in GeminiThreads : CancelInactiveGeminiGoal(t)
  \/ \E t \in GeminiThreads, o \in Turns : confirmGeminiStopped(t, o)
  \/ \E t \in ClaudeThreads, o \in Turns : confirmClaudeStopped(t, o)
  \/ \E t \in GeminiThreads : DeleteGeminiThread(t)
  \/ \E t \in ClaudeThreads : DeleteClaudeThread(t)

Gateway ==
  \/ handleGeminiInit \/ handleClaudeInit
  \/ updateGeminiOwnership \/ updateClaudeOwnership \/ HandleResult
  \/ completeGeminiInterrupt \/ completeClaudeInterrupt
  \/ CompleteGeminiTurn \/ completeClaudeOperation

Execution(o) == handleTurnCommand(o) \/ startProcess(o)
Probing(o) == reconcileGeminiOperations(o) \/ reconcileClaudeOperations(o)
StopExecution(s) == stopStarts(s) \/ stopFindsNothing(s) \/ interruptAndWait(s) \/ replayStop(s)

Next ==
  \/ User
  \/ \E s \in Stops : InterruptClaudeTurn(s)
  \/ \E o \in Turns : \/ ClaimGeminiDelivery(o) \/ Probing(o)
                      \/ Execution(o) \/ finish(o) \/ orphanExits(o)
  \/ \E s \in Stops : SendStop(s) \/ StopExecution(s)
  \/ Gateway
  \/ Disconnect \/ Crash

\* The loops of the gateway and of the Agent go on, a keepalive comes round
\* for every turn, and a CLI whose context is cancelled is killed.  Nothing is
\* assumed of users, of the time a turn takes, or of orphans.
Fairness ==
  /\ WF_vars(Gateway)
  /\ \A s \in Stops : WF_vars(InterruptClaudeTurn(s)) /\ WF_vars(SendStop(s)) /\ WF_vars(StopExecution(s))
  /\ \A o \in Turns : /\ WF_vars(ClaimGeminiDelivery(o)) /\ WF_vars(handleTurnCommand(o))
                      /\ SF_vars(Probing(o))
                      /\ WF_vars(o \in cancelled /\ finish(o))

Spec == Init /\ [][Next]_vars
FairSpec == Spec /\ Fairness

--------------------------------------------------------------------------------
(* Properties *)

Messages == [kind : {"init", "active", "lost"}, id : Turns, status : {"none"}]
              \cup [kind : {"result"}, id : Turns, status : Terminal]
              \cup [kind : {"stop"}, id : Stops, status : {"stopped", "lost", "timeout"}]

ThreadRows == [status : Busy \cup {"idle", "interrupted", "failed", "deleted"},
               op : Turns \cup {None}, session : Turns \cup {None}]
TurnRows == [status : {"none", "queued", "delivered"} \cup Terminal, thread : Threads \cup {None},
             session : Turns \cup {None}, edit : Turns \cup {None}, init : BOOLEAN]
StopRows == [status : {"none", "queued", "delivered", "succeeded", "failed"},
             op : Turns \cup {None}, recovery : BOOLEAN]
GoalRows == [status : {"none", "active", "paused", "blocked", "completed", "cancelled"},
             op : Turns \cup {None}]

\* Every variable has the shape of the code's.
OwnershipTypeOK ==
  /\ thread \in [Threads -> ThreadRows] /\ row \in [Turns -> TurnRows]
  /\ stop \in [Stops -> StopRows] /\ goal \in [GeminiThreads -> GoalRows]
  /\ log \in [Threads -> Seq(Turns)]
  /\ asked \in [Stops -> {None} \cup Asked] /\ handling \in {None} \cup Handling
  /\ down \subseteq Turns \cup Stops /\ up \in Seq(Messages)
  /\ executing \subseteq Turns /\ cancelled \subseteq Turns /\ process \subseteq Turns
  /\ waiter \in [Stops -> {"absent", "waiting", "stopped", "lost", "timeout"}]
  /\ receipt \in [Turns -> {"none"} \cup Terminal]
  /\ native \in [Turns -> Seq(Turns)]
  /\ confirmed \subseteq Turns /\ torn \subseteq Turns /\ faults \in Nat

\* The workspace is released by the end of a turn only when its CLI is gone,
\* whatever was lost or crashed, unless a user took the responsibility
\* (ConfirmGeminiStopped): no process, no execution and no command on its way.
ReleasedOnlyWhenOver ==
  \A o \in Turns : row[o].status \in Terminal /\ o \notin confirmed =>
    /\ o \notin process \cup executing \cup down

\* A conversation that is shown busy has a turn that is not over, or whose end
\* handle is about to record; one that is shown at rest has none.  Only a
\* stream that breaks between the two statements of handle leaves it behind.
StatusMatchesRow ==
  \A t \in Threads :
    LET o == thread[t].op
        ending == o \in torn \/ (handling # None /\ handling.op = o)
    IN o # None =>
         /\ thread[t].status \in Busy => Active(o) \/ ending
         /\ thread[t].status \in {"idle", "failed", "deleted"} => ~Active(o)

\* The goal of a conversation's turn is shown active exactly while the turn is not
\* over, and one that a user paused or cancelled while its turn is not over
\* belongs to a conversation that is being stopped.
GoalFollowsTurn ==
  \A t \in GeminiThreads :
    LET o == goal[t].op
        ending == o \in torn \/ (handling # None /\ handling.op = o)
    IN /\ goal[t].status = "active" /\ thread[t].op = o => Active(o) \/ ending
       /\ goal[t].status \in {"paused", "cancelled"} /\ Active(o) =>
            thread[t].op = o /\ thread[t].status \in {"interrupting", "interrupted"}

\* No turn of the conversation was declared stopped by a user
Unconfirmed(t) == \A o \in confirmed : row[o].thread # t

\* The session a conversation will resume remembers no prompt that the
\* conversation does not show, in the order in which it shows them: an edit
\* changes both when the CLI has loaded what precedes it, or neither.  A turn
\* that a user declared stopped before the Agent began it may still be run, and
\* then it comes after what was asked later.
SessionIsShown ==
  \A t \in Threads :
    (thread[t].session # None /\ thread[t].status # "deleted" /\ Unconfirmed(t)) =>
      LET seen == native[thread[t].session]
      IN \E f \in [DOMAIN seen -> DOMAIN log[t]] :
           /\ \A i \in DOMAIN seen : log[t][f[i]] = seen[i]
           /\ \A i, j \in DOMAIN seen : i < j => f[i] < f[j]

\* "A failed interrupt must not leave the session permanently locked"
\* (completeGeminiOperation): what a user stops ends, is given back, or is left
\* to the user's confirmation, unless the recording of the end was torn.
InterruptingEnds ==
  \A t \in Threads :
    thread[t].status = "interrupting" ~>
      (thread[t].status # "interrupting" \/ thread[t].op \in torn)

--------------------------------------------------------------------------------
(* The inductive invariant behind the safety properties *)

\* A turn is on its way to the Agent, executed or over, one after the other
OneLife ==
  \A o \in Turns :
    /\ row[o].status \in {"none", "queued"} =>
         o \notin down \cup executing \cup process /\ receipt[o] = "none"
    /\ receipt[o] # "none" => o \notin down \cup executing \cup process
    /\ o \in down => o \notin executing \cup process

\* A stop that was asked for is not sent yet; one that is sent names a turn
StopsNameTurns ==
  \A s \in Stops :
    /\ asked[s] # None => stop[s].status = "none"
    /\ stop[s].status = "none" => s \notin down /\ waiter[s] = "absent"
    /\ stop[s].status # "none" => stop[s].op \in Turns

\* Whoever says that a turn is over has its receipt
EndsHaveReceipts ==
  /\ \A m \in Range(up) :
       /\ m.kind = "result" => receipt[m.id] = m.status
       /\ m.kind = "stop" =>
            /\ stop[m.id].status # "none"
            /\ m.status = "stopped" => receipt[stop[m.id].op] # "none"
  /\ \A s \in Stops :
       /\ waiter[s] = "waiting" => stop[s].op \in executing \/ receipt[stop[s].op] # "none"
       /\ waiter[s] = "stopped" => receipt[stop[s].op] # "none"

\* A conversation, its goal and its turn name each other
TurnsOfThreads ==
  /\ \A t \in Threads : thread[t].op # None => row[thread[t].op].thread = t
  /\ \A t \in GeminiThreads : IF goal[t].op = None THEN goal[t].status = "none"
                             ELSE row[goal[t].op].thread = t

\* The turn whose end is being recorded, and the one of a goal that is over, are over
OverIsOver ==
  /\ handling # None => row[handling.op].status \in Terminal
  /\ \A t \in GeminiThreads : goal[t].status \in {"blocked", "completed"} => ~Active(goal[t].op)

\* Every step preserves the conjunction, and the safety properties above but the
\* last are part of it.
OwnershipInv ==
  /\ OwnershipTypeOK
  /\ OneLife /\ StopsNameTurns /\ EndsHaveReceipts /\ ReleasedOnlyWhenOver
  /\ TurnsOfThreads /\ OverIsOver /\ StatusMatchesRow /\ GoalFollowsTurn

\* A session is named by a turn of its conversation that the CLI has begun
SessionsBegan ==
  /\ \A o \in Turns : /\ row[o].init => row[o].status # "none"
                      /\ row[o].session # None =>
                           /\ row[row[o].session].init
                           /\ row[row[o].session].thread = row[o].thread
                      /\ native[o] # <<>> => row[o].status # "none"
  /\ \A t \in Threads : thread[t].session # None =>
                           /\ row[thread[t].session].init
                           /\ row[thread[t].session].thread = t

\* A turn begins once: its session then remembers it, and its init event is
\* under way once, or stored
BegunOnce ==
  /\ \A i, j \in DOMAIN up : up[i].kind = "init" /\ up[i] = up[j] => i = j
  /\ \A m \in Range(up) : m.kind = "init" =>
       ~row[m.id].init /\ row[m.id].status # "none" /\ m.id \in Range(native[Session(m.id)])
  /\ \A o \in Turns : row[o].init => o \in Range(native[Session(o)])

\* A conversation shows a message once, and an edit when it has begun
LogsFit ==
  \A t \in Threads :
    /\ \A i, j \in DOMAIN log[t] : log[t][i] = log[t][j] => i = j
    /\ \A o \in Range(log[t]) : row[o].thread = t /\ (row[o].edit = None \/ row[o].init)

\* The turn at work is the one its conversation names
ActiveTurns ==
  \A o \in Turns : Active(o) =>
    LET t == row[o].thread
    IN t \in Threads /\ thread[t].op = o /\ thread[t].status # "deleted"

\* Until the turn of a conversation has begun, its session is the one it was
\* queued with, and its message is the last, or replaces one
QueuedFits ==
  \A t \in Threads :
    LET o == thread[t].op
    IN o # None /\ thread[t].status # "deleted" /\ ~row[o].init =>
         /\ row[o].session = thread[t].session
         /\ IF row[o].edit = None THEN log[t] # <<>> /\ log[t][Len(log[t])] = o
            ELSE row[o].edit \in Range(log[t])

\* s remembers what l shows, in the same order
Within(s, l) ==
  /\ Range(s) \subseteq Range(l)
  /\ \A i, j \in DOMAIN s, k, m \in DOMAIN l :
       i < j /\ s[i] = l[k] /\ s[j] = l[m] => k < m

\* What a conversation shows once turn o has begun
Committed(t, o) ==
  IF row[o].edit = None THEN log[t] ELSE Append(Before(log[t], row[o].edit), o)

SessionFits(t) == thread[t].session # None => Within(native[thread[t].session], log[t])
TurnFits(t) ==
  LET o == thread[t].op
  IN o # None /\ ~row[o].init /\ native[Session(o)] # <<>> =>
       Within(native[Session(o)], Committed(t, o))

\* So the session of a conversation shows nothing else, now and after the turn has begun
SessionsFit ==
  \A t \in Threads :
    Unconfirmed(t) /\ thread[t].status # "deleted" => SessionFits(t) /\ TurnFits(t)

SessionInv ==
  /\ OwnershipInv
  /\ SessionsBegan /\ BegunOnce /\ LogsFit /\ ActiveTurns /\ QueuedFits /\ SessionsFit
=============================================================================
