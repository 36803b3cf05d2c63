------------------------------ MODULE Scheduler ------------------------------
(***************************************************************************)
(* Scheduled tasks: workers that read, claim and queue what is due, users  *)
(* who change, delete and interrupt, and the gateway that records what     *)
(* became of a run, by its operation or by its session.                    *)
(*                                                                         *)
(* Each SQL statement of a worker is a step, except that the reads of a    *)
(* session are taken with the statement that claims it.  A minute is the   *)
(* unit of time; a request of a user takes less than one.  How a turn is   *)
(* executed and interrupted is in AgentOperations, CodexThread and         *)
(* TurnOwnership: here it starts, ends, fails or is lost.                  *)
(***************************************************************************)
EXTENDS Integers, Sequences, FiniteSets, SequencesExt, FiniteSetsExt

CONSTANTS
  Tasks, CodexThreads, CliThreads,  \* sessions: of Codex, and of Gemini or Claude
  Specs,                            \* schedules users choose from
  Horizon,                          \* minutes Next looks ahead (5 years)
  Workers, Limit,                   \* workers, and tasks one tick takes (100)
  Ops, None, Free, Stuck, Archived, \* numbers of operations, and states without one
  DayLength, MonthLength, WeekLength,
  MaxTime, MaxVersion, Faults, MaxFaults

Threads == CodexThreads \cup CliThreads

ASSUME SchedulerAssumption ==
  /\ CodexThreads \cap CliThreads = {}
  /\ Tasks \subseteq Nat /\ Ops \subseteq Nat \ {0}
  /\ {None, Free, Stuck, Archived} \cap (Nat \cup Threads \cup Specs) = {}
  /\ Free # Stuck /\ Free # Archived /\ Stuck # Archived
  /\ Faults \subseteq {"queue", "event", "mark", "restart", "zone", "lost"}
  /\ Limit \in Nat \ {0} /\ MaxTime \in Nat /\ MaxFaults \in Nat /\ Horizon \in Nat \ {0}
  /\ {DayLength, MonthLength, WeekLength} \subseteq Nat \ {0}

\* What Parse makes of an expression: a field that is * or ? has every value
ASSUME SpecsAssumption ==
  \A s \in Specs : /\ s.every \in Nat
                   /\ s.day.any \in BOOLEAN /\ s.weekday.any \in BOOLEAN
                   /\ s.day.any => 0..(MonthLength - 1) \subseteq s.day.values
                   /\ s.weekday.any => 0..(WeekLength - 1) \subseteq s.weekday.values

VARIABLES
  clock, online,
  task,     \* rows of the three tables of scheduled tasks
  thread,   \* the operation a session is busy with, or Free, Archived, or Stuck: claimed without one
  op,       \* operations of turns, what the gateway has still to handle of them, and
            \* whether the end of one could not be seen by the task that had it queued
  worker,   \* Run of each control plane
  claim,    \* occurrence a task was last claimed for, and whether a claim was ever of
            \* an earlier one or of a row that had changed since it was read
  given,    \* sessions whose turn was given up when it had been delivered
  faults

vars == <<clock, online, task, thread, op, worker, claim, given, faults>>

Fault(kind) == kind \in Faults /\ faults < MaxFaults /\ faults' = faults + 1

--------------------------------------------------------------------------------
(* Schedules *)

DateOf(t) == (t \div DayLength) % MonthLength
WeekdayOf(t) == (t \div DayLength) % WeekLength

\* Mutant: the date and the weekday must both match
MatchesBoth(spec, t) ==
  /\ (t % DayLength) \in spec.minute
  /\ DateOf(t) \in spec.day.values /\ WeekdayOf(t) \in spec.weekday.values

\* A field has its values, and whether it was written * or ?
Matches(spec, t) ==
  /\ (t % DayLength) \in spec.minute
  /\ LET byDate == DateOf(t) \in spec.day.values
         byWeek == WeekdayOf(t) \in spec.weekday.values
     IN IF ~spec.day.any /\ ~spec.weekday.any THEN byDate \/ byWeek ELSE byDate /\ byWeek

\* One item of a field, first-last/step, within its bounds
Item(first, last, step) == {v \in first..last : (v - first) % step = 0}

\* The loop over the minutes after the one of the call
Next(spec, after) ==
  IF spec.every > 0 THEN after + spec.every
  ELSE LET found == {t \in (after + 1)..(after + Horizon) : Matches(spec, t)}
       IN IF found = {} THEN None ELSE Min(found)

--------------------------------------------------------------------------------
NoOp == [thread |-> None, state |-> "none", outcome |-> "none", unseen |-> FALSE]
Idle == [pc |-> "idle", list |-> <<>>, now |-> 0, op |-> None]
NoTask == [exists |-> FALSE, enabled |-> FALSE, spec |-> None, thread |-> None, broken |-> FALSE, version |-> 0,
           next |-> 0, status |-> "", op |-> None]

Init ==
  /\ clock = 0 /\ online = TRUE
  /\ task = [t \in Tasks |-> NoTask]
  /\ thread = [h \in Threads |-> Free]
  /\ op = [o \in Ops |-> NoOp]
  /\ worker = [w \in Workers |-> Idle]
  /\ claim = [t \in Tasks |-> [at |-> -1, again |-> FALSE, stale |-> FALSE]]
  /\ given = {}
  /\ faults = 0

Minute ==
  /\ clock < MaxTime
  /\ clock' = clock + 1
  /\ UNCHANGED <<online, task, thread, op, worker, claim, given, faults>>

--------------------------------------------------------------------------------
(* Requests of users *)

\* The kind of a task is kept; its session must exist
normalizeScheduledTaskRequest(t, h) ==
  task[t].exists => (h \in CodexThreads <=> task[t].thread \in CodexThreads)

UpdateScheduledTask(t, spec, h, enabled, next) ==
  task' = [task EXCEPT ![t] = [@ EXCEPT !.exists = TRUE, !.enabled = enabled, !.spec = spec,
                                        !.thread = h, !.broken = FALSE, !.version = task[t].version + 1,
                                        !.next = next]]

CreateScheduledTask(t, spec, h, next) == UpdateScheduledTask(t, spec, h, TRUE, next)

createScheduledTask(t, spec, h) ==
  /\ ~task[t].exists /\ task[t].version < MaxVersion
  /\ normalizeScheduledTaskRequest(t, h)
  /\ Next(spec, clock) # None
  /\ CreateScheduledTask(t, spec, h, Next(spec, clock))
  /\ UNCHANGED <<clock, online, thread, op, worker, claim, given, faults>>

\* A request that leaves a field out keeps it; the next run is computed anew.  The
\* task may move to another session of its kind, away from its last run.
updateScheduledTask(t, spec, h, enabled) ==
  /\ task[t].exists /\ task[t].version < MaxVersion
  /\ normalizeScheduledTaskRequest(t, h)
  /\ Next(spec, clock) # None
  /\ UpdateScheduledTask(t, spec, h, enabled, Next(spec, clock))
  /\ op' = [o \in Ops |-> IF o = task[t].op /\ h # task[t].thread
                         THEN [op[o] EXCEPT !.unseen = TRUE] ELSE op[o]]
  /\ UNCHANGED <<clock, online, thread, worker, claim, given, faults>>

DeleteScheduledTask(t) == task' = [task EXCEPT ![t] = [NoTask EXCEPT !.version = task[t].version]]

deleteScheduledTask(t) ==
  /\ task[t].exists
  /\ DeleteScheduledTask(t)
  /\ UNCHANGED <<clock, online, thread, op, worker, claim, given, faults>>

\* Only what happens in the session of a task matters to it
Scheduled(h) == \E t \in Tasks : task[t].exists /\ task[t].thread = h

archive(h) ==
  /\ thread[h] \in {Free, Archived} /\ Scheduled(h)
  /\ thread' = [thread EXCEPT ![h] = IF @ = Free THEN Archived ELSE Free]
  /\ UNCHANGED <<clock, online, task, op, worker, claim, given, faults>>

connection ==
  /\ online' = ~online
  /\ UNCHANGED <<clock, task, thread, op, worker, claim, given, faults>>

\* A number is used again when nothing refers to the operation any more
Unused(o) ==
  /\ op[o].state \in {"none", "ended"}
  /\ \A t \in Tasks : task[t].op # o
  /\ \A h \in Threads : thread[h] # o
  /\ \A w \in Workers : worker[w].op # o
Fresh(o) == Unused(o) /\ \A p \in Ops : p < o => ~Unused(p)
Queued(o, h) == [op EXCEPT ![o] = [NoOp EXCEPT !.thread = h, !.state = "queued"]]

\* A user sends a message in the session; only the turns of Codex are recorded by
\* session, so that one of a user can be taken for the task's
handleTurn(h, o) ==
  /\ h \in CodexThreads /\ Scheduled(h) /\ thread[h] = Free /\ Fresh(o)
  /\ thread' = [thread EXCEPT ![h] = o]
  /\ op' = Queued(o, h)
  /\ UNCHANGED <<clock, online, task, worker, claim, given, faults>>

--------------------------------------------------------------------------------
(* What the tables record of a run *)

\* Mutant: the outcome of a run is replaced by a late report that it runs
ByOperationAlways(o, status) ==
  [t \in Tasks |-> IF task[t].exists /\ task[t].op = o THEN [task[t] EXCEPT !.status = status]
                   ELSE task[t]]

MarkScheduledTaskByOperation(o, status) ==
  [t \in Tasks |-> IF task[t].exists /\ task[t].op = o /\ task[t].status \in {"queued", "running"}
                   THEN [task[t] EXCEPT !.status = status] ELSE task[t]]

MarkScheduledTaskByThread(h, status) ==
  [t \in Tasks |-> IF /\ task[t].exists /\ task[t].thread = h /\ h \in CodexThreads
                      /\ task[t].status \in {"queued", "running"}
                   THEN [task[t] EXCEPT !.status = status] ELSE task[t]]

\* Nothing is written of a task that was deleted
MarkScheduledTaskRun(t, status, o) ==
  [task EXCEPT ![t] = IF task[t].exists THEN [@ EXCEPT !.status = status, !.op = o] ELSE @]

--------------------------------------------------------------------------------
(* A worker *)

Due == {t \in Tasks : task[t].exists /\ task[t].enabled /\ task[t].next <= clock}

\* The lists a query can answer: the tasks that are due, the earliest first, those
\* of one minute in any order
DueScheduledTasks ==
  {list \in UNION {[1..n -> Due] : n \in 1..Limit} :
     /\ \A i, j \in DOMAIN list :
          i < j => list[i] # list[j] /\ task[list[i]].next <= task[list[j]].next
     /\ \A t \in Due \ Range(list) :
          Len(list) = Limit /\ \A i \in DOMAIN list : task[list[i]].next <= task[t].next}

\* What a worker uses of the row it has read
Copy(t) == [id |-> t, spec |-> task[t].spec, thread |-> task[t].thread, next |-> task[t].next,
            broken |-> task[t].broken, version |-> task[t].version, online |-> online]

tick(w) ==
  /\ worker[w].pc = "idle" /\ Due # {}
  /\ \E list \in DueScheduledTasks :
       worker' = [worker EXCEPT ![w] =
         [Idle EXCEPT !.pc = "claim", !.now = clock,
                      !.list = [i \in DOMAIN list |-> Copy(list[i])]]]
  /\ UNCHANGED <<clock, online, task, thread, op, claim, given, faults>>

\* The worker goes on with the next task of its list
Advance(w) ==
  IF Len(worker[w].list) <= 1 THEN Idle
  ELSE [Idle EXCEPT !.pc = "claim", !.now = worker[w].now, !.list = Tail(worker[w].list)]

Current(w) == Head(worker[w].list)
Session(w) == Current(w).thread

\* Mutant: the claim does not compare the time that was read
ClaimAny(read) == task[read.id].exists /\ task[read.id].enabled

\* Mutant: the claim only looks whether a user has changed the task
ClaimUnchanged(read) == ClaimAny(read) /\ task[read.id].version = read.version

ClaimScheduledTask(read) ==
  task[read.id].exists /\ task[read.id].enabled /\ task[read.id].next <= read.next

\* The schedule is computed from the time of the tick; one that cannot be
\* computed any more keeps its place
claimNext(w) ==
  /\ worker[w].pc = "claim"
  /\ LET t == Current(w).id
         read == Current(w)
         next == Next(read.spec, worker[w].now)
     IN \/ /\ read.broken \/ next = None
           /\ task' = MarkScheduledTaskRun(t, "failed", None)
           /\ worker' = [worker EXCEPT ![w] = Advance(w)]
           /\ UNCHANGED claim
        \/ /\ ~read.broken /\ next # None
           /\ IF ClaimScheduledTask(read)
              THEN /\ task' = [task EXCEPT ![t].next = next]
                   /\ claim' = [claim EXCEPT ![t] =
                                  [at |-> read.next,
                                   again |-> @.again \/ read.next <= @.at,
                                   stale |-> @.stale \/ read.version # task[t].version]]
                   /\ worker' = [worker EXCEPT ![w].pc = "enqueue"]
              ELSE worker' = [worker EXCEPT ![w] = Advance(w)] /\ UNCHANGED <<task, claim>>
  /\ UNCHANGED <<clock, online, thread, op, given, faults>>

At(w, pc) == worker[w].pc = pc
Give(w, status, o) ==
  /\ task' = MarkScheduledTaskRun(Current(w).id, status, o)
  /\ worker' = [worker EXCEPT ![w] = Advance(w)]

\* The session cannot take a turn now.  The status of the server is the one read
\* with the task; a Gemini or Claude session is read again.
skip(w) ==
  /\ At(w, "enqueue")
  /\ LET h == Session(w)
     IN \/ thread[h] # Free
        \/ IF h \in CodexThreads THEN ~Current(w).online ELSE ~online
  /\ Give(w, "skipped", None)
  /\ UNCHANGED <<clock, online, thread, op, claim, given, faults>>

\* The session of Codex is claimed, then its operation queued
ClaimThreadForTurn(w) ==
  /\ At(w, "enqueue")
  /\ LET h == Session(w)
     IN /\ h \in CodexThreads /\ Current(w).online /\ thread[h] = Free
        /\ thread' = [thread EXCEPT ![h] = Stuck]
  /\ worker' = [worker EXCEPT ![w].pc = "queue"]
  /\ UNCHANGED <<clock, online, task, op, claim, given, faults>>

QueueResourceOperation(w, o) ==
  /\ At(w, "queue") /\ Fresh(o)
  /\ op' = Queued(o, Session(w))
  /\ thread' = [thread EXCEPT ![Session(w)] = o]
  /\ worker' = [worker EXCEPT ![w].pc = "mark", ![w].op = o]
  /\ UNCHANGED <<clock, online, task, claim, given, faults>>

queueFails(w) ==
  /\ At(w, "queue") /\ Fault("queue")
  /\ thread' = [thread EXCEPT ![Session(w)] = Free]
  /\ Give(w, "failed", None)
  /\ UNCHANGED <<clock, online, op, claim, given>>

\* The user.message of the turn cannot be added: the operation is cancelled, whether
\* it was delivered or not
eventFails(w) ==
  /\ At(w, "mark") /\ Session(w) \in CodexThreads /\ Fault("event")
  /\ LET o == worker[w].op
         h == op[o].thread
     IN /\ op' = [op EXCEPT ![o].state = IF @ = "queued" THEN "ended" ELSE @,
                            ![o].outcome = IF @ = "none" THEN "failed" ELSE @]
        /\ given' = IF op[o].state = "queued" THEN given ELSE given \cup {h}
        /\ thread' = [thread EXCEPT ![h] = Free]
        /\ Give(w, "failed", o)
  /\ UNCHANGED <<clock, online, claim>>

\* QueueGeminiTurn and QueueClaudeTurn claim the session and queue in one
\* transaction
QueueCliTurn(w, o) ==
  /\ At(w, "enqueue") /\ Fresh(o)
  /\ LET h == Session(w)
     IN /\ h \in CliThreads /\ online /\ thread[h] = Free
        /\ thread' = [thread EXCEPT ![h] = o]
        /\ op' = Queued(o, h)
  /\ worker' = [worker EXCEPT ![w].pc = "mark", ![w].op = o]
  /\ UNCHANGED <<clock, online, task, claim, given, faults>>

\* The message of a Codex turn is added and the run recorded; a turn that has ended by now was not
recordRun(w) ==
  /\ At(w, "mark")
  /\ LET o == worker[w].op
     IN /\ Give(w, "queued", o)
        /\ op' = [op EXCEPT ![o].unseen = @ \/ op[o].outcome # "none"]
  /\ UNCHANGED <<clock, online, thread, claim, given, faults>>

recordFails(w) ==
  /\ At(w, "mark") /\ Fault("mark")
  /\ worker' = [worker EXCEPT ![w] = Advance(w)]
  /\ UNCHANGED <<clock, online, task, thread, op, claim, given>>

\* The control plane restarts; a time zone may be unknown from then on
restart(w) ==
  /\ worker[w] # Idle
  /\ Fault("restart")
  /\ worker' = [worker EXCEPT ![w] = Idle]
  /\ UNCHANGED <<clock, online, task, thread, op, claim, given>>

zoneIsUnknown(t) ==
  /\ task[t].exists /\ ~task[t].broken
  /\ Fault("zone")
  /\ task' = [task EXCEPT ![t].broken = TRUE]
  /\ UNCHANGED <<clock, online, thread, op, worker, claim, given>>

--------------------------------------------------------------------------------
(* Turns, and what the gateway makes of their reports *)

deliver(o) ==
  /\ op[o].state = "queued" /\ online
  /\ op' = [op EXCEPT ![o].state = "delivered"]
  /\ UNCHANGED <<clock, online, task, thread, worker, claim, given, faults>>

\* codex.turn.started, or the init event of a CLI
turnStarted(o) ==
  /\ op[o].state = "delivered" /\ online
  /\ op' = [op EXCEPT ![o].state = "running"]
  /\ task' = IF op[o].thread \in CodexThreads
             THEN MarkScheduledTaskByThread(op[o].thread, "running")
             ELSE MarkScheduledTaskByOperation(o, "running")
  /\ UNCHANGED <<clock, online, thread, worker, claim, given, faults>>

\* The result of codex.turn.start says that the turn was accepted; it may come
\* after the end of the turn
turnAccepted(o) ==
  /\ op[o].thread \in CodexThreads /\ op[o].state \in {"running", "ended"} /\ online
  /\ task' = MarkScheduledTaskByOperation(o, "running")
  /\ UNCHANGED <<clock, online, thread, op, worker, claim, given, faults>>

Outcomes == {"succeeded", "failed", "cancelled"}

Ended(o, result) ==
  /\ op' = [op EXCEPT ![o].state = "ended", ![o].outcome = IF @ = "none" THEN result ELSE @]
  /\ thread' = [thread EXCEPT ![op[o].thread] = IF @ = o THEN Free ELSE @]

\* codex.turn.completed, cancelled and failed are recorded by session, the result of
\* a CLI and a turn that could not start by operation
turnEnded(o, result) ==
  /\ online
  /\ \/ /\ op[o].state = "running" /\ op[o].thread \in CodexThreads
        /\ task' = MarkScheduledTaskByThread(op[o].thread, result)
     \/ /\ op[o].state = "running" /\ op[o].thread \in CliThreads
        /\ task' = MarkScheduledTaskByOperation(o, result)
     \/ /\ op[o].state = "delivered" /\ result = "failed"
        /\ task' = MarkScheduledTaskByOperation(o, result)
  /\ Ended(o, result)
  /\ UNCHANGED <<clock, online, worker, claim, given, faults>>

\* The user stops a turn that has not been delivered
cancelQueued(o) ==
  /\ op[o].state = "queued" /\ thread[op[o].thread] = o
  /\ task' = MarkScheduledTaskByOperation(o, "cancelled")
  /\ Ended(o, "cancelled")
  /\ UNCHANGED <<clock, online, worker, claim, given, faults>>

\* The Agent restarts: no more is heard of the turn.  The answer to an interruption,
\* or a user's confirmation, ends it.
turnLost(o) ==
  /\ op[o].state \in {"delivered", "running"} /\ Fault("lost")
  /\ op' = [op EXCEPT ![o].state = "lost"]
  /\ UNCHANGED <<clock, online, task, thread, worker, claim, given>>

noActiveTurn(o) ==
  /\ op[o].state = "lost" /\ thread[op[o].thread] = o /\ online
  /\ task' = IF op[o].thread \in CodexThreads
             THEN MarkScheduledTaskByThread(op[o].thread, "cancelled")
             ELSE MarkScheduledTaskByOperation(o, "cancelled")
  /\ Ended(o, "cancelled")
  /\ UNCHANGED <<clock, online, worker, claim, given, faults>>

--------------------------------------------------------------------------------
Enqueue(w) ==
  \/ skip(w) \/ ClaimThreadForTurn(w) \/ recordRun(w)
  \/ \E o \in Ops : QueueResourceOperation(w, o) \/ QueueCliTurn(w, o)

Step(w) == tick(w) \/ claimNext(w) \/ Enqueue(w)

Turn(o) ==
  \/ deliver(o) \/ turnStarted(o) \/ turnAccepted(o) \/ cancelQueued(o)
  \/ turnLost(o) \/ noActiveTurn(o)
  \/ \E result \in Outcomes : turnEnded(o, result)

User ==
  \/ \E t \in Tasks, spec \in Specs, h \in Threads :
       \/ createScheduledTask(t, spec, h)
       \/ \E b \in BOOLEAN : updateScheduledTask(t, spec, h, b)
  \/ \E t \in Tasks : deleteScheduledTask(t)
  \/ \E h \in Threads : archive(h) \/ \E o \in Ops : handleTurn(h, o)

NextStep ==
  \/ Minute \/ User \/ connection
  \/ \E w \in Workers : Step(w) \/ queueFails(w) \/ eventFails(w) \/ recordFails(w) \/ restart(w)
  \/ \E t \in Tasks : zoneIsUnknown(t)
  \/ \E o \in Ops : Turn(o)

Spec == Init /\ [][NextStep]_vars

--------------------------------------------------------------------------------
(* Properties *)

TaskRows ==
  [exists : BOOLEAN, enabled : BOOLEAN, spec : Specs \cup {None}, thread : Threads \cup {None},
   broken : BOOLEAN, version : Nat, next : Nat,
   status : {"", "queued", "running", "skipped"} \cup Outcomes, op : Ops \cup {None}]
OpRows ==
  [thread : Threads \cup {None}, state : {"none", "queued", "delivered", "running", "lost", "ended"},
   outcome : {"none"} \cup Outcomes, unseen : BOOLEAN]
Copies ==
  [id : Tasks, spec : Specs, thread : Threads, next : Nat, broken : BOOLEAN, version : Nat,
   online : BOOLEAN]
Runners ==
  [pc : {"idle", "claim", "enqueue", "queue", "mark"}, list : Seq(Copies), now : Nat,
   op : Ops \cup {None}]
Claims == [at : Nat \cup {-1}, again : BOOLEAN, stale : BOOLEAN]

\* The state has the shape of the tables'; a worker that is not idle has a task, and
\* one that records a run its operation.
SchedulerTypeOK ==
  /\ clock \in 0..MaxTime /\ online \in BOOLEAN /\ faults \in Nat /\ given \subseteq Threads
  /\ task \in [Tasks -> TaskRows] /\ op \in [Ops -> OpRows] /\ claim \in [Tasks -> Claims]
  /\ thread \in [Threads -> Ops \cup {Free, Stuck, Archived}]
  /\ worker \in [Workers -> Runners]
  /\ \A t \in Tasks : IF task[t].exists THEN task[t].spec \in Specs /\ task[t].thread \in Threads
                      ELSE task[t].op = None
  /\ \A w \in Workers : /\ worker[w].pc # "idle" => worker[w].list # <<>>
                        /\ worker[w].pc = "mark" => worker[w].op \in Ops

\* However many control planes there are, each claim of a task is of a later
\* occurrence than the one before: a due run is not started twice.
OccurrenceOnce == \A t \in Tasks : ~claim[t].again

\* The run that is claimed is of the task as its user left it: what was read before
\* the user changed, disabled or deleted the task is not claimed any more.
ClaimedIsCurrent == \A t \in Tasks : ~claim[t].stale

\* Cron's rule: of date and weekday, those that are restricted, and one is enough
Falls(spec, t) ==
  /\ (t % DayLength) \in spec.minute
  /\ \/ spec.day.any /\ spec.weekday.any
     \/ ~spec.day.any /\ DateOf(t) \in spec.day.values
     \/ ~spec.weekday.any /\ WeekdayOf(t) \in spec.weekday.values

\* The next run is the first minute to come of the schedule, however late the worker
\* or the request that computed it: the minute matches, and so does the date or the
\* weekday, whichever of them is restricted.
NextIsOfSchedule ==
  [][\A t \in Tasks :
       task'[t].exists /\ task'[t].next # task[t].next /\ task'[t].spec.every = 0 =>
         /\ Falls(task'[t].spec, task'[t].next)
         /\ \A u \in (clock + 1)..(task'[t].next - 1) : ~Falls(task'[t].spec, u)]_vars

\* What the page shows of the last run is what became of it.  Not promised: a turn
\* that was over before the run was recorded, a task that was moved to another
\* session in the meantime, and a session in which a turn that was given up still
\* reports.
ShownRunIsItsOwn ==
  \A t \in Tasks :
    LET o == task[t].op
    IN task[t].exists /\ o # None /\ ~op[o].unseen
       /\ op[o].thread = task[t].thread /\ task[t].thread \notin given =>
         \/ task[t].status = op[o].outcome
         \/ op[o].outcome = "none" /\ task[t].status \in {"queued", "running"}

--------------------------------------------------------------------------------
(* The inductive invariant behind the safety properties *)

\* What a worker has read was due at its tick, and is of no later version than the row.
\* With the same version the schedule is the same; with another one the task is gone, or
\* not due until after that tick.
ReadWasDue ==
  \A w \in Workers :
    /\ worker[w].now <= clock
    /\ \A i \in DOMAIN worker[w].list :
         LET read == worker[w].list[i]
         IN /\ read.next <= worker[w].now
            /\ read.version <= task[read.id].version
            /\ read.version = task[read.id].version /\ task[read.id].exists =>
                 read.spec = task[read.id].spec
            /\ \/ read.version = task[read.id].version
               \/ ~task[read.id].exists
               \/ task[read.id].next > worker[w].now

\* A claim was of a time that is past, and the next run is a later one
ClaimIsPast ==
  \A t \in Tasks : claim[t].at <= clock /\ (task[t].exists => claim[t].at < task[t].next)

\* The operation a worker records is of the session it has read, and only this worker
\* knows it; the one a task shows was queued
OperationsKnown ==
  /\ \A w \in Workers :
       worker[w].pc = "mark" =>
         /\ op[worker[w].op].thread = Session(w) /\ op[worker[w].op].state # "none"
         /\ \A t \in Tasks : task[t].op # worker[w].op
         /\ \A v \in Workers : worker[v].pc = "mark" /\ worker[v].op = worker[w].op => v = w
  /\ \A t \in Tasks : task[t].op # None => op[task[t].op].state # "none"
  /\ \A o \in Ops : /\ op[o].state \notin {"none"} => op[o].thread \in Threads
                    /\ op[o].state = "ended" => op[o].outcome # "none"
                    /\ op[o].state = "queued" => op[o].outcome = "none"

\* A session names the turn that is not over, and such a turn its session, unless one
\* was given up there
SessionHasItsTurn ==
  /\ \A h \in Threads :
       thread[h] \in Ops => /\ op[thread[h]].thread = h
                            /\ op[thread[h]].state \notin {"none", "ended"}
  /\ \A o \in Ops :
       op[o].state \notin {"none", "ended"} /\ op[o].thread \notin given =>
         thread[op[o].thread] = o /\ op[o].outcome = "none"

\* A worker that has claimed a session holds it alone, and a session is held without
\* an operation by such a worker, unless a control plane has died
OneHolder ==
  /\ \A w \in Workers :
       worker[w].pc = "queue" /\ Session(w) \notin given =>
         /\ thread[Session(w)] = Stuck
         /\ \A v \in Workers : worker[v].pc = "queue" /\ Session(v) = Session(w) => v = w
  /\ \A h \in Threads :
       thread[h] = Stuck /\ faults = 0 =>
         \E w \in Workers : worker[w].pc = "queue" /\ Session(w) = h

\* Every step preserves the conjunction.
SchedulerInv ==
  /\ SchedulerTypeOK
  /\ ReadWasDue /\ ClaimIsPast /\ OccurrenceOnce /\ ClaimedIsCurrent
  /\ OperationsKnown /\ SessionHasItsTurn /\ OneHolder /\ ShownRunIsItsOwn
=============================================================================
