------------------------------ MODULE ClaudeTurn ------------------------------
(***************************************************************************)
(* A Claude turn on the Agent with its input pipe kept open: the reader of *)
(* the CLI's output, the goroutines that write instructions (Steer) and    *)
(* answers (Answer) into its input, the timers that end it, and what the   *)
(* control plane shows of each instruction and question.                   *)
(*                                                                         *)
(* mu protects liveTurn, so a step that holds it is atomic.  writeMu is    *)
(* held across a write into the pipe, which may block: the CLI reads its   *)
(* input only while its output is not full.  Events reach the control      *)
(* plane in order and are shown as they are emitted (AgentOperations has   *)
(* the outbox).                                                            *)
(***************************************************************************)
EXTENDS Naturals, Sequences, FiniteSets, SequencesExt

CONSTANTS
  Inputs,      \* request ids of instructions
  Questions,   \* native request ids of questions
  InputLimit,  \* instructions a turn accepts (32)
  MaxOut,      \* frames the output pipe holds
  MaxFrames,   \* frames the CLI writes on its own
  Faults, MaxFaults

ASSUME ClaudeAssumption ==
  /\ IsFiniteSet(Inputs) /\ Inputs \cap Questions = {}
  /\ "free" \notin Inputs \cup Questions
  /\ InputLimit \in Nat /\ MaxOut \in Nat \ {0} /\ MaxFrames \in Nat /\ MaxFaults \in Nat
  /\ Faults \subseteq {"die", "crash", "bad"}

VARIABLES
  turn,      \* starting, running or ended: it is in Sessions.turns until it has ended
  live,      \* the fields of liveTurn
  input,     \* liveTurn.inputs, and whether the done channel was closed
  question,  \* liveTurn.questions
  mutex,     \* writeMu: free, or who holds it
  steer,     \* the goroutine of each instruction
  answer,    \* the goroutine of each answer
  reader,    \* the loop of run
  cli,       \* the process
  out,       \* its output, not yet read
  shown,     \* events the control plane has of each instruction and question
  ready,     \* it has steer.ready, and neither steer.closed nor the result of the turn
  panicked,  \* close of a closed channel
  frames, faults

vars == <<turn, live, input, question, mutex, steer, answer, reader, cli, out, shown, ready,
          panicked, frames, faults>>

Frame(kind, id) == [kind |-> kind, id |-> id]

Init ==
  /\ turn = "starting"
  /\ live = [ready |-> FALSE, closed |-> FALSE, lastResult |-> FALSE, queued |-> 0,
             background |-> 0, idle |-> FALSE]
  /\ input = [i \in Inputs |-> [held |-> FALSE, received |-> FALSE, applied |-> FALSE,
                                done |-> FALSE, err |-> FALSE]]
  /\ question = [q \in Questions |-> [held |-> FALSE, answers |-> FALSE, cancelled |-> FALSE]]
  /\ mutex = "free"
  /\ steer = [i \in Inputs |-> "none"]
  /\ answer = [q \in Questions |-> "none"]
  /\ reader = "scanning"
  /\ cli = [state |-> "none", killed |-> FALSE, got |-> {}, replayed |-> {}, applied |-> {},
            answers |-> {}, asked |-> {}, background |-> 0]
  /\ out = <<>>
  /\ shown = [x \in Inputs \cup Questions |-> {}]
  /\ ready = FALSE
  /\ panicked = FALSE /\ frames = 0 /\ faults = 0

Fault(kind) == kind \in Faults /\ faults < MaxFaults /\ faults' = faults + 1

Alive == cli.state \notin {"none", "exited"}
Show(x, kind) == shown' = [shown EXCEPT ![x] = @ \cup {kind}]
Kill == cli' = [cli EXCEPT !.killed = TRUE]

\* The CLI reads what is written to it unless its output is full or its input closed
Writable == Alive /\ Len(out) < MaxOut /\ turn # "ended"
Broken == ~Alive \/ turn = "ended"

--------------------------------------------------------------------------------
(* Requests of users *)

\* QueueClaudeSteer: the turn runs and its input is open, as far as is known
QueueClaudeSteer(i) ==
  /\ ready
  /\ steer' = [steer EXCEPT ![i] = "queued"]
  /\ Show(i, "queued")

steerClaudeTurn(i) ==
  /\ steer[i] = "none"
  /\ QueueClaudeSteer(i)
  /\ UNCHANGED <<turn, live, input, question, mutex, answer, reader, cli, out, ready, panicked,
                 frames, faults>>

QueueClaudeAnswer(q) ==
  /\ "asked" \in shown[q] /\ "cancelled" \notin shown[q]
  /\ turn # "ended"
  /\ answer' = [answer EXCEPT ![q] = "queued"]

answerClaudeQuestion(q) ==
  /\ answer[q] = "none"
  /\ QueueClaudeAnswer(q)
  /\ UNCHANGED <<turn, live, input, question, mutex, steer, reader, cli, out, shown, ready,
                 panicked, frames, faults>>

--------------------------------------------------------------------------------
(* Instructions: Steer looks the turn up, steer writes under writeMu *)

\* Mutant: the result of the operation is not shown
SteerSilent(i, r) == steer' = [steer EXCEPT ![i] = "ended"] /\ UNCHANGED shown

\* completeClaudeOperation of the steer operation
SteerResult(i, r) ==
  /\ steer' = [steer EXCEPT ![i] = "ended"]
  /\ shown' = IF r = "ok" THEN shown ELSE [shown EXCEPT ![i] = @ \cup {r}]

\* Mutant: a turn that is not known is said not to have received the instruction
LostAnswerMutant == "rejected"

\* After a restart the CLI may have received the instruction
LostAnswer == "unconfirmed"

Steer(i) ==
  /\ steer[i] = "queued"
  /\ IF turn = "ended" THEN SteerResult(i, LostAnswer)
     ELSE steer' = [steer EXCEPT ![i] = "found"] /\ UNCHANGED shown
  /\ UNCHANGED <<turn, live, input, question, mutex, answer, reader, cli, out, ready, panicked,
                 frames, faults>>

Held == {i \in Inputs : input[i].held}

steerRegister(i) ==
  /\ steer[i] = "found" /\ mutex = "free"
  /\ IF ~live.ready \/ live.closed \/ Cardinality(Held) >= InputLimit
     THEN SteerResult(i, "rejected") /\ UNCHANGED <<input, mutex>>
     ELSE /\ input' = [input EXCEPT ![i].held = TRUE]
          /\ mutex' = i
          /\ steer' = [steer EXCEPT ![i] = "writing"]
          /\ UNCHANGED shown
  /\ UNCHANGED <<turn, live, question, answer, reader, cli, out, ready, panicked, frames, faults>>

steerWritten(i) ==
  /\ steer[i] = "writing" /\ Writable /\ ~live.closed
  /\ cli' = [cli EXCEPT !.got = @ \cup {i}]
  /\ mutex' = "free"
  /\ steer' = [steer EXCEPT ![i] = "waiting"]
  /\ UNCHANGED <<turn, live, input, question, answer, reader, out, shown, ready, panicked,
                 frames, faults>>

CloseDone(i, rec) ==
  /\ panicked' = (panicked \/ input[i].done)
  /\ input' = [input EXCEPT ![i] = [rec EXCEPT !.received = TRUE, !.done = TRUE]]

steerWriteFails(i) ==
  /\ steer[i] = "writing" /\ (Broken \/ live.closed)
  /\ IF input[i].received THEN UNCHANGED <<input, panicked>>
     ELSE CloseDone(i, [input[i] EXCEPT !.err = TRUE])
  /\ mutex' = "free"
  /\ steer' = [steer EXCEPT ![i] = "waiting"]
  /\ UNCHANGED <<turn, live, question, answer, reader, cli, out, shown, ready, frames, faults>>

steerDone(i) ==
  /\ steer[i] = "waiting" /\ input[i].done
  /\ SteerResult(i, IF input[i].err THEN "unconfirmed" ELSE "ok")
  /\ UNCHANGED <<turn, live, input, question, mutex, answer, reader, cli, out, ready, panicked,
                 frames, faults>>

\* 20 seconds without a receipt
steerTimeout(i) ==
  /\ steer[i] = "waiting" /\ ~input[i].done
  /\ SteerResult(i, "unconfirmed")
  /\ UNCHANGED <<turn, live, input, question, mutex, answer, reader, cli, out, ready, panicked,
                 frames, faults>>

\* Mutant: a write has no time limit
NoWatchdog(x) == FALSE

\* A write that takes 20 seconds ends the turn
WriteStuck(x) == mutex = x /\ Alive /\ ~Writable

watchdog(x) ==
  /\ WriteStuck(x) /\ ~cli.killed
  /\ Kill
  /\ UNCHANGED <<turn, live, input, question, mutex, steer, answer, reader, out, shown, ready,
                 panicked, frames, faults>>

--------------------------------------------------------------------------------
(* Answers *)

Expired(q) == turn = "ended" \/ live.closed \/ ~question[q].held \/ question[q].cancelled

\* The receipt is emitted before the CLI can go on
Answer(q) ==
  /\ answer[q] = "queued" /\ mutex = "free"
  /\ IF Expired(q)
     THEN answer' = [answer EXCEPT ![q] = "ended"] /\ UNCHANGED <<question, mutex, shown>>
     ELSE /\ question' = [question EXCEPT ![q].answers = TRUE]
          /\ Show(q, "answered")
          /\ mutex' = q
          /\ answer' = [answer EXCEPT ![q] = "writing"]
  /\ UNCHANGED <<turn, live, input, steer, reader, cli, out, ready, panicked, frames, faults>>

writeControlResponse(q) ==
  /\ answer[q] = "writing" /\ Writable /\ ~live.closed
  /\ cli' = [cli EXCEPT !.answers = @ \cup {q}]
  /\ mutex' = "free"
  /\ answer' = [answer EXCEPT ![q] = "ended"]
  /\ UNCHANGED <<turn, live, input, question, steer, reader, out, shown, ready, panicked,
                 frames, faults>>

answerFails(q) ==
  /\ answer[q] = "writing" /\ (Broken \/ live.closed)
  /\ question' = [question EXCEPT ![q].cancelled = TRUE]
  /\ Show(q, "cancelled")
  /\ Kill
  /\ mutex' = "free"
  /\ answer' = [answer EXCEPT ![q] = "ended"]
  /\ UNCHANGED <<turn, live, input, steer, reader, out, ready, panicked, frames, faults>>

--------------------------------------------------------------------------------
(* run: the process is started and its output read frame by frame *)

\* The first line asks for question support; the prompt follows its answer
start ==
  /\ turn = "starting"
  /\ turn' = "running"
  /\ cli' = [cli EXCEPT !.state = "started"]
  /\ UNCHANGED <<live, input, question, mutex, steer, answer, reader, out, shown, ready, panicked,
                 frames, faults>>

\* The CLI that does not answer the first line within 30 seconds is killed
initializeTimer ==
  /\ cli.state = "started" /\ ~cli.killed
  /\ Kill
  /\ UNCHANGED <<turn, live, input, question, mutex, steer, answer, reader, out, shown, ready,
                 panicked, frames, faults>>

Read(kind) ==
  /\ turn = "running" /\ reader = "scanning"
  /\ out # <<>> /\ Head(out).kind = kind
  /\ out' = Tail(out)

readInitialized ==
  /\ Read("initialized")
  /\ cli' = [cli EXCEPT !.state = IF @ = "exited" THEN @ ELSE "prompted"]
  /\ UNCHANGED <<turn, live, input, question, mutex, steer, answer, reader, shown, ready,
                 panicked, frames, faults>>

initialized ==
  /\ Read("init")
  /\ live' = [live EXCEPT !.ready = TRUE]
  /\ ready' = TRUE
  /\ UNCHANGED <<turn, input, question, mutex, steer, answer, reader, cli, shown, panicked,
                 frames, faults>>

Progress == live' = [live EXCEPT !.lastResult = FALSE, !.idle = FALSE]

\* Text and tool calls of the assistant
progress ==
  /\ Read("progress")
  /\ Progress
  /\ UNCHANGED <<turn, input, question, mutex, steer, answer, reader, cli, shown, ready,
                 panicked, frames, faults>>

\* Compaction, notices and results of tools are passed on, and stop no timer
relay ==
  /\ Read("event")
  /\ UNCHANGED <<turn, live, input, question, mutex, steer, answer, reader, cli, shown, ready,
                 panicked, frames, faults>>

\* Mutant: a receipt closes the channel of an instruction that was given up
AcknowledgeAgain(i, applied) ==
  /\ CloseDone(i, [input[i] EXCEPT !.applied = @ \/ applied])
  /\ shown' = [shown EXCEPT ![i] = @ \cup {"accepted"} \cup (IF applied THEN {"applied"} ELSE {})]

Acknowledge(i, applied) ==
  /\ IF input[i].received
     THEN input' = [input EXCEPT ![i].applied = @ \/ applied] /\ UNCHANGED panicked
     ELSE CloseDone(i, [input[i] EXCEPT !.applied = @ \/ applied])
  /\ shown' = [shown EXCEPT ![i] = @ \cup (IF input[i].received THEN {} ELSE {"accepted"})
                                      \cup (IF applied THEN {"applied"} ELSE {})]

acknowledge ==
  /\ Read("replay") \/ Read("apply")
  /\ Acknowledge(Head(out).id, Head(out).kind = "apply")
  /\ UNCHANGED <<turn, live, question, mutex, steer, answer, reader, cli, ready, frames, faults>>

Open(q) == question[q].held /\ ~question[q].answers /\ ~question[q].cancelled

\* Mutant: instructions on their way are forgotten
PendingMutant == FALSE

\* An instruction that was taken and has not been applied
Pending == \E i \in Inputs : input[i].held /\ ~input[i].applied

\* The input is closed when nothing can come any more; otherwise the CLI has 45
\* seconds to go on.  A background task or a question leaves it as it is.
Result(l, n) ==
  IF live.closed THEN UNCHANGED <<live, ready>>
  ELSE LET known == [l EXCEPT !.lastResult = TRUE, !.queued = n]
       IN IF l.background > 0 \/ \E q \in Questions : Open(q)
          THEN live' = known /\ UNCHANGED ready
          ELSE IF ~Pending /\ n = 0
          THEN live' = [known EXCEPT !.ready = FALSE, !.closed = TRUE] /\ ready' = FALSE
          ELSE live' = [known EXCEPT !.idle = TRUE] /\ UNCHANGED ready

result ==
  /\ Read("result")
  /\ Result(live, Head(out).id)
  /\ UNCHANGED <<turn, input, question, mutex, steer, answer, reader, cli, shown, panicked,
                 frames, faults>>

Background(n) ==
  IF n = 0 /\ live.lastResult THEN Result([live EXCEPT !.background = 0], live.queued)
  ELSE live' = [live EXCEPT !.background = n] /\ UNCHANGED ready

backgroundTasks ==
  /\ Read("background")
  /\ Background(Head(out).id)
  /\ UNCHANGED <<turn, input, question, mutex, steer, answer, reader, cli, shown, panicked,
                 frames, faults>>

questionRequest ==
  /\ Read("ask")
  /\ LET q == Head(out).id
     IN /\ question' = [question EXCEPT ![q].held = TRUE]
        /\ Show(q, "asked")
  /\ Progress
  /\ UNCHANGED <<turn, input, mutex, steer, answer, reader, cli, ready, panicked, frames, faults>>

cancelQuestion ==
  /\ Read("cancel")
  /\ LET q == Head(out).id
     IN /\ question' = [question EXCEPT ![q].cancelled = TRUE]
        /\ Show(q, "cancelled")
  /\ UNCHANGED <<turn, live, input, mutex, steer, answer, reader, cli, ready, panicked, frames,
                 faults>>

\* Any other request of permission is denied, by the reader itself, under writeMu;
\* the denial is short and fits in the pipe
readControlRequest ==
  /\ Read("tool")
  /\ reader' = "denying"
  /\ UNCHANGED <<turn, live, input, question, mutex, steer, answer, cli, shown, ready, panicked,
                 frames, faults>>

controlResponse ==
  /\ reader = "denying" /\ mutex = "free"
  /\ reader' = IF Alive /\ ~live.closed THEN "scanning" ELSE "over"
  /\ IF Alive THEN UNCHANGED cli ELSE Kill
  /\ UNCHANGED <<turn, live, input, question, mutex, steer, answer, out, shown, ready, panicked,
                 frames, faults>>

\* A line that is not understood ends the turn
readInvalid ==
  /\ Read("bad")
  /\ reader' = "over"
  /\ Kill
  /\ UNCHANGED <<turn, live, input, question, mutex, steer, answer, shown, ready, panicked,
                 frames, faults>>

readEnd ==
  /\ reader = "scanning" /\ cli.state = "exited" /\ out = <<>>
  /\ reader' = "over"
  /\ UNCHANGED <<turn, live, input, question, mutex, steer, answer, cli, out, shown, ready,
                 panicked, frames, faults>>

\* The idle CLI is stopped
idleFires ==
  /\ live.idle /\ turn = "running" /\ ~cli.killed
  /\ Kill
  /\ UNCHANGED <<turn, live, input, question, mutex, steer, answer, reader, out, shown, ready,
                 panicked, frames, faults>>

\* The process has been waited for: whoever still waits for a receipt is told,
\* and the result of the turn is queued
finish ==
  /\ turn = "running" /\ reader = "over" /\ cli.state = "exited"
  /\ turn' = "ended"
  /\ live' = [live EXCEPT !.ready = FALSE, !.closed = TRUE, !.idle = FALSE]
  /\ panicked' = (panicked \/ \E i \in Held : ~input[i].received /\ input[i].done)
  /\ input' = [i \in Inputs |->
                 IF input[i].held /\ ~input[i].received
                 THEN [input[i] EXCEPT !.received = TRUE, !.done = TRUE, !.err = TRUE]
                 ELSE input[i]]
  /\ shown' = [x \in Inputs \cup Questions |->
                 IF x \in Held /\ ~input[x].applied THEN shown[x] \cup {"unconfirmed"} ELSE shown[x]]
  /\ ready' = FALSE
  /\ UNCHANGED <<question, mutex, steer, answer, reader, cli, out, frames, faults>>

--------------------------------------------------------------------------------
(* The CLI, as run uses it *)

Emit(f) == Alive /\ Len(out) < MaxOut /\ out' = Append(out, f)
OnItsOwn == frames < MaxFrames /\ frames' = frames + 1
CliStep(kind, id) ==
  /\ Emit(Frame(kind, id))
  /\ UNCHANGED <<turn, live, input, question, mutex, steer, answer, reader, shown, ready,
                 panicked, faults>>

cliAnswersInitialize ==
  /\ cli.state = "started"
  /\ cli' = [cli EXCEPT !.state = "initializing"]
  /\ CliStep("initialized", 0)
  /\ UNCHANGED frames

cliInit ==
  /\ cli.state = "prompted"
  /\ cli' = [cli EXCEPT !.state = "working"]
  /\ CliStep("init", 0)
  /\ UNCHANGED frames

cliProgress ==
  /\ cli.state = "working"
  /\ CliStep("progress", 0) \/ CliStep("event", 0)
  /\ OnItsOwn /\ UNCHANGED cli

\* It repeats an instruction it has read, and names it when it works on it
cliReplay(i) ==
  /\ i \in cli.got \ cli.replayed
  /\ cli' = [cli EXCEPT !.replayed = @ \cup {i}]
  /\ CliStep("replay", i)
  /\ UNCHANGED frames

cliApply(i) ==
  /\ i \in cli.got \ cli.applied
  /\ cli' = [cli EXCEPT !.applied = @ \cup {i}]
  /\ CliStep("apply", i)
  /\ UNCHANGED frames

\* A result may come while a question of a background task is open
cliResult(n) ==
  /\ cli.state = "working"
  /\ cli.asked \subseteq cli.answers \/ cli.background > 0
  /\ n \in {0, Cardinality(cli.got \ cli.applied)}
  /\ CliStep("result", n) /\ OnItsOwn /\ UNCHANGED cli

cliBackground(n) ==
  /\ cli.state = "working" /\ n # cli.background
  /\ n = 0 => cli.asked \subseteq cli.answers
  /\ cli' = [cli EXCEPT !.background = n]
  /\ CliStep("background", n) /\ OnItsOwn

cliAsk(q) ==
  /\ cli.state = "working" /\ q \notin cli.asked \cup cli.answers /\ ~question[q].held
  /\ cli' = [cli EXCEPT !.asked = @ \cup {q}]
  /\ CliStep("ask", q) /\ OnItsOwn

cliCancel(q) ==
  /\ q \in cli.asked \ cli.answers
  /\ cli' = [cli EXCEPT !.asked = @ \ {q}]
  /\ CliStep("cancel", q) /\ OnItsOwn

cliTool == cli.state = "working" /\ CliStep("tool", 0) /\ OnItsOwn /\ UNCHANGED cli

cliBad ==
  /\ Fault("bad")
  /\ Emit(Frame("bad", 0))
  /\ UNCHANGED <<turn, live, input, question, mutex, steer, answer, reader, cli, shown, ready,
                 panicked, frames>>

\* It ends when it is killed, when its input is closed, or by itself
cliExits ==
  /\ Alive
  /\ \/ (cli.killed \/ live.closed) /\ UNCHANGED faults
     \/ ~cli.killed /\ ~live.closed /\ Fault("die")
  /\ cli' = [cli EXCEPT !.state = "exited"]
  /\ UNCHANGED <<turn, live, input, question, mutex, steer, answer, reader, out, shown, ready,
                 panicked, frames>>

\* The Agent dies: its goroutines are gone, instructions that have no result are
\* delivered again, and the turn is not taken up again
Crash ==
  /\ Fault("crash")
  /\ turn = "running"
  /\ turn' = "ended"
  /\ reader' = "gone"
  /\ mutex' = "free"
  /\ steer' = [i \in Inputs |-> IF steer[i] \in {"found", "writing", "waiting"} THEN "queued"
                                ELSE steer[i]]
  /\ answer' = [q \in Questions |-> IF answer[q] = "writing" THEN "queued" ELSE answer[q]]
  /\ ready' = FALSE
  /\ UNCHANGED <<live, input, question, cli, out, shown, panicked, frames>>

--------------------------------------------------------------------------------
Writing(i) == Steer(i) \/ steerRegister(i) \/ steerWritten(i) \/ steerWriteFails(i) \/ steerDone(i)
Answering(q) == Answer(q) \/ writeControlResponse(q) \/ answerFails(q)
Reading ==
  \/ readInitialized \/ initialized \/ progress \/ relay \/ acknowledge \/ result \/ backgroundTasks
  \/ questionRequest \/ cancelQuestion \/ readControlRequest \/ controlResponse \/ readInvalid
  \/ readEnd \/ finish
Cli ==
  \/ cliAnswersInitialize \/ cliInit \/ cliProgress \/ cliTool \/ cliBad
  \/ \E i \in Inputs : cliReplay(i) \/ cliApply(i)
  \/ \E n \in 0..Cardinality(Inputs) : cliResult(n)
  \/ \E n \in 0..1 : cliBackground(n)
  \/ \E q \in Questions : cliAsk(q) \/ cliCancel(q)

Next ==
  \/ \E i \in Inputs : steerClaudeTurn(i) \/ Writing(i) \/ steerTimeout(i)
  \/ \E q \in Questions : answerClaudeQuestion(q) \/ Answering(q)
  \/ \E x \in Inputs \cup Questions : watchdog(x)
  \/ start \/ initializeTimer \/ Reading \/ idleFires
  \/ Cli \/ cliExits \/ Crash

Spec == Init /\ [][Next]_vars

\* Goroutines go on, a lock that is free is given, a timer that is not stopped
\* fires, and a CLI that is killed or whose input is closed ends.  Nothing is
\* assumed of the work of the CLI or of users.
Fairness ==
  /\ WF_vars(start) /\ WF_vars(Reading) /\ WF_vars(idleFires)
  /\ SF_vars(controlResponse)
  /\ \A i \in Inputs : WF_vars(Writing(i)) /\ SF_vars(steerRegister(i)) /\ WF_vars(steerTimeout(i))
  /\ \A q \in Questions : WF_vars(Answering(q)) /\ SF_vars(Answer(q))
  /\ \A x \in Inputs \cup Questions : WF_vars(watchdog(x))
  /\ WF_vars((cli.killed \/ live.closed) /\ cliExits)

FairSpec == Spec /\ Fairness

--------------------------------------------------------------------------------
(* Properties *)

Lives == [ready : BOOLEAN, closed : BOOLEAN, lastResult : BOOLEAN,
          queued : 0..Cardinality(Inputs), background : 0..1, idle : BOOLEAN]
InputRows == [held : BOOLEAN, received : BOOLEAN, applied : BOOLEAN, done : BOOLEAN, err : BOOLEAN]
QuestionRows == [held : BOOLEAN, answers : BOOLEAN, cancelled : BOOLEAN]
Processes == [state : {"none", "started", "initializing", "prompted", "working", "exited"},
              killed : BOOLEAN, got : SUBSET Inputs, replayed : SUBSET Inputs,
              applied : SUBSET Inputs, answers : SUBSET Questions, asked : SUBSET Questions,
              background : 0..1]
Lines ==
  [kind : {"initialized", "init", "progress", "event", "tool", "bad"}, id : {0}]
    \cup [kind : {"replay", "apply"}, id : Inputs]
    \cup [kind : {"ask", "cancel"}, id : Questions]
    \cup [kind : {"result"}, id : 0..Cardinality(Inputs)]
    \cup [kind : {"background"}, id : 0..1]
Events == {"queued", "accepted", "applied", "rejected", "unconfirmed", "asked", "answered", "cancelled"}

\* The state has the shape of the code's, and writeMu is held by the goroutine that
\* is writing, by nobody else.
ClaudeTypeOK ==
  /\ turn \in {"starting", "running", "ended"}
  /\ live \in Lives
  /\ input \in [Inputs -> InputRows] /\ question \in [Questions -> QuestionRows]
  /\ mutex \in {"free"} \cup Inputs \cup Questions
  /\ \A i \in Inputs : mutex = i <=> steer[i] = "writing"
  /\ \A q \in Questions : mutex = q <=> answer[q] = "writing"
  /\ steer \in [Inputs -> {"none", "queued", "found", "writing", "waiting", "ended"}]
  /\ answer \in [Questions -> {"none", "queued", "writing", "ended"}]
  /\ reader \in {"scanning", "denying", "over", "gone"}
  /\ cli \in Processes
  /\ out \in Seq(Lines) /\ Len(out) <= MaxOut
  /\ shown \in [Inputs \cup Questions -> SUBSET Events]
  /\ ready \in BOOLEAN /\ panicked \in BOOLEAN /\ frames \in Nat /\ faults \in Nat

\* An instruction that is shown as rejected ("was not sent") was never given to
\* the CLI, whatever restart or end of the turn it met, so that sending it again
\* cannot repeat it.
RejectedWasNotSent ==
  \A i \in Inputs : "rejected" \in shown[i] => i \notin cli.got /\ ~input[i].applied

\* While the process goes on, its input is closed only when every instruction
\* that was taken has been worked on: none is cut off by a result that crossed it.
ClosedOnlyWhenApplied ==
  live.closed /\ turn = "running" => \A i \in Inputs : input[i].held => input[i].applied

\* The receipt of an instruction comes from the CLI, the failed write or the end of
\* the turn, once: close of a closed channel would take the Agent down.
DoneClosedOnce == ~panicked

\* Whoever holds writeMu, the reader does not wait for it for ever: a reader that
\* denies a request would otherwise keep the CLI from reading what is being written.
ReaderGoesOn == reader = "denying" ~> reader # "denying"

\* Every instruction that was queued is shown applied, rejected or unconfirmed
\* soon after its turn is over.  Only one that the CLI had acknowledged stays
\* "accepted", when the Agent dies before finish can report it.
InstructionSettled ==
  \A i \in Inputs :
    ("queued" \in shown[i] /\ turn = "ended") ~>
      \/ shown[i] \cap {"applied", "rejected", "unconfirmed"} # {}
      \/ "accepted" \in shown[i] /\ reader = "gone"

--------------------------------------------------------------------------------
(* The inductive invariant behind the safety properties *)

\* The channel of an instruction is closed by whoever sets received
DoneIsReceived == \A i \in Inputs : input[i].done => input[i].received

\* Only a completed write gives an instruction to the CLI, and the CLI names no
\* other; one that is delivered again after that meets a turn that is over
OnlyWritesReachCli ==
  /\ \A i \in Inputs :
       /\ i \in cli.got => steer[i] \in {"waiting", "ended"} \/ (steer[i] = "queued" /\ turn = "ended")
       /\ input[i].applied => i \in cli.got
       /\ "rejected" \in shown[i] => steer[i] = "ended"
  /\ \A f \in Range(out) : f.kind \in {"replay", "apply"} => f.id \in cli.got

\* Every step preserves the conjunction, and the safety properties are part of it.
ClaudeInv ==
  /\ ClaudeTypeOK
  /\ DoneIsReceived /\ DoneClosedOnce
  /\ OnlyWritesReachCli /\ RejectedWasNotSent
  /\ ClosedOnlyWhenApplied /\ (live.closed => turn # "starting")
=============================================================================
