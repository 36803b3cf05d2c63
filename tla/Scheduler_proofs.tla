-------------------------- MODULE Scheduler_proofs --------------------------
(* What holds of the scheduled tasks for any number of tasks, sessions,     *)
(* schedules and control planes.                                            *)
EXTENDS Scheduler, TLAPS, WellFoundedInduction

\* A set of natural numbers that is not empty has its Min.
LEMMA MinIsLeast ==
    ASSUME NEW S, S \subseteq Nat, S # {}
    PROVE  Min(S) \in S /\ \A n \in S : Min(S) <= n
<1> DEFINE less == {p \in Nat \X Nat : p[1] < p[2]}
<1>0. IsWellFoundedOn(less, Nat)
  BY ONLY NatLessThanWellFounded, Zenon DEF OpToRel
<1>1. \E m \in S : \A n \in S : ~(<<n, m>> \in less)
  <2> HIDE DEF less
  <2> QED BY <1>0, WFMin, Zenon
<1>2. \A m \in Nat, n \in Nat : ~(<<n, m>> \in less) => m <= n
  OBVIOUS
<1>3. \E m \in S : \A n \in S : m <= n
  BY <1>1, <1>2
<1> QED BY <1>3 DEF Min

\* Cron's rule and what the loop of Next tests are the same.
LEMMA MatchesIsRule ==
    ASSUME NEW spec \in Specs, NEW t \in Nat
    PROVE  Matches(spec, t) <=> Falls(spec, t)
<1>1. /\ spec.day.any \in BOOLEAN /\ spec.weekday.any \in BOOLEAN
      /\ spec.day.any => 0..(MonthLength - 1) \subseteq spec.day.values
      /\ spec.weekday.any => 0..(WeekLength - 1) \subseteq spec.weekday.values
  BY SpecsAssumption
<1>2. t \div DayLength \in Nat
  BY SchedulerAssumption
<1>3. DateOf(t) \in 0..(MonthLength - 1)
  BY <1>2, SchedulerAssumption DEF DateOf
<1>4. WeekdayOf(t) \in 0..(WeekLength - 1)
  BY <1>2, SchedulerAssumption DEF WeekdayOf
<1>5. /\ spec.day.any => DateOf(t) \in spec.day.values
      /\ spec.weekday.any => WeekdayOf(t) \in spec.weekday.values
  BY <1>1, <1>3, <1>4
<1> QED BY <1>1, <1>5 DEF Matches, Falls

\* The run that Next computes is later than the time it is given, and the first
\* that the schedule allows.
LEMMA NextIsFirst ==
    ASSUME NEW spec \in Specs, NEW after \in Nat, NEW next, next = Next(spec, after),
           next # None
    PROVE  /\ next \in Nat /\ next > after
           /\ spec.every = 0 => /\ Falls(spec, next)
                                /\ \A u \in (after + 1)..(next - 1) : ~Falls(spec, u)
<1>1. spec.every \in Nat
  BY SpecsAssumption
<1>2. CASE spec.every > 0
  BY <1>1, <1>2 DEF Next
<1>3. CASE spec.every = 0
  <2> DEFINE found == {t \in (after + 1)..(after + Horizon) : Matches(spec, t)}
  <2>1. next = IF found = {} THEN None ELSE Min(found)
    BY <1>3 DEF Next
  <2>2. found \subseteq Nat /\ found # {}
    BY <2>1
  <2>3. next \in found /\ \A n \in found : next <= n
    BY <2>1, <2>2, MinIsLeast
  <2>4. Horizon \in Nat /\ next \in (after + 1)..(after + Horizon) /\ Matches(spec, next)
    BY <2>3, SchedulerAssumption
  <2>5. \A u \in (after + 1)..(next - 1) : ~Matches(spec, u)
    BY <2>3, <2>4
  <2>6. next \in Nat /\ \A u \in (after + 1)..(next - 1) : u \in Nat
    BY <2>4
  <2> QED BY <2>4, <2>5, <2>6, MatchesIsRule
<1> QED BY <1>1, <1>2, <1>3

-----------------------------------------------------------------------------
(* What the statements on the tables write *)

Statuses == {"", "queued", "running", "skipped"} \cup Outcomes

\* What the columns range over.
LEMMA RowTypes ==
    ASSUME NEW r \in TaskRows
    PROVE  /\ r.exists \in BOOLEAN /\ r.enabled \in BOOLEAN /\ r.version \in Nat
           /\ r.next \in Nat /\ r.op \in Ops \cup {None} /\ r.status \in Statuses
           /\ r.thread \in Threads \cup {None} /\ r.spec \in Specs \cup {None}
BY DEF TaskRows, Statuses

\* The columns of a row are set together, and those that are not named keep their
\* value.
LEMMA SetStatus ==
    ASSUME NEW r \in TaskRows, NEW st \in Statuses, NEW x, x = [r EXCEPT !.status = st]
    PROVE  /\ x \in TaskRows /\ x.status = st
           /\ x.exists = r.exists /\ x.enabled = r.enabled /\ x.spec = r.spec
           /\ x.thread = r.thread /\ x.version = r.version /\ x.next = r.next /\ x.op = r.op
BY DEF TaskRows, Statuses

\* The same of the next run.
LEMMA SetNext ==
    ASSUME NEW r \in TaskRows, NEW n \in Nat, NEW x, x = [r EXCEPT !.next = n]
    PROVE  /\ x \in TaskRows /\ x.next = n /\ x.status = r.status
           /\ x.exists = r.exists /\ x.enabled = r.enabled /\ x.spec = r.spec
           /\ x.thread = r.thread /\ x.version = r.version /\ x.op = r.op
BY DEF TaskRows

\* The same of a time zone that is unknown.
LEMMA SetBroken ==
    ASSUME NEW r \in TaskRows, NEW x, x = [r EXCEPT !.broken = TRUE]
    PROVE  /\ x \in TaskRows /\ x.next = r.next /\ x.status = r.status
           /\ x.exists = r.exists /\ x.enabled = r.enabled /\ x.spec = r.spec
           /\ x.thread = r.thread /\ x.version = r.version /\ x.op = r.op
BY DEF TaskRows

\* The columns that say what a task is, when it runs next and what it ran last.
Same(u) ==
  /\ task'[u].exists = task[u].exists /\ task'[u].enabled = task[u].enabled
  /\ task'[u].spec = task[u].spec /\ task'[u].thread = task[u].thread
  /\ task'[u].version = task[u].version /\ task'[u].next = task[u].next
  /\ task'[u].op = task[u].op

\* A user's change gives a task another version and a next run of its own.
LEMMA Edited ==
    ASSUME task \in [Tasks -> TaskRows], NEW t \in Tasks, NEW spec \in Specs, NEW h \in Threads,
           NEW b \in BOOLEAN, NEW n \in Nat, UpdateScheduledTask(t, spec, h, b, n)
    PROVE  /\ task' \in [Tasks -> TaskRows]
           /\ task'[t].exists = TRUE /\ task'[t].spec = spec /\ task'[t].thread = h
           /\ task'[t].next = n /\ task'[t].version = task[t].version + 1
           /\ task'[t].status = task[t].status /\ task'[t].op = task[t].op
           /\ \A u \in Tasks : u # t => task'[u] = task[u]
<1>r. PICK r \in TaskRows : r = task[t]
  OBVIOUS
<1>0. r.version \in Nat
  BY RowTypes
<1>v. PICK v \in Nat : v = r.version + 1
  BY <1>0
<1>a. PICK x : x = [r EXCEPT !.exists = TRUE, !.enabled = b, !.spec = spec,
                                  !.thread = h, !.broken = FALSE,
                                  !.version = v, !.next = n]
  OBVIOUS
<1>1. /\ x \in TaskRows /\ x.exists = TRUE /\ x.spec = spec /\ x.thread = h
      /\ x.next = n /\ x.version = v
      /\ x.status = r.status /\ x.op = r.op
  <2>1. PICK y : y = [r EXCEPT !.exists = TRUE, !.enabled = b, !.spec = spec]
    OBVIOUS
  <2>2. /\ y \in TaskRows /\ y.exists = TRUE /\ y.spec = spec /\ y.status = r.status
        /\ y.op = r.op
    BY <2>1 DEF TaskRows
  <2>3. PICK z : z = [y EXCEPT !.thread = h, !.broken = FALSE]
    OBVIOUS
  <2>4. /\ z \in TaskRows /\ z.exists = TRUE /\ z.spec = spec /\ z.status = r.status
        /\ z.op = r.op /\ z.thread = h
    BY <2>2, <2>3 DEF TaskRows
  <2>5. x = [z EXCEPT !.version = v, !.next = n]
    BY <1>a, <2>1, <2>3 DEF TaskRows
  <2>6. /\ x \in TaskRows /\ x.exists = z.exists /\ x.spec = z.spec /\ x.status = z.status
        /\ x.op = z.op /\ x.thread = z.thread /\ x.version = v /\ x.next = n
    BY <2>4, <2>5 DEF TaskRows
  <2> QED BY <2>4, <2>6
<1>2. task' = [task EXCEPT ![t] = x]
  BY <1>a, <1>v, <1>r DEF UpdateScheduledTask
<1> QED BY <1>v, <1>r, <1>1, <1>2

\* A deleted task names no operation.
LEMMA Deleted ==
    ASSUME task \in [Tasks -> TaskRows], NEW t \in Tasks, DeleteScheduledTask(t)
    PROVE  /\ task' \in [Tasks -> TaskRows]
           /\ task'[t].exists = FALSE /\ task'[t].op = None /\ task'[t].version = task[t].version
           /\ \A u \in Tasks : u # t => task'[u] = task[u]
<1>0. task[t].version \in Nat
  BY DEF TaskRows
<1>a. PICK x : x = [NoTask EXCEPT !.version = task[t].version]
  OBVIOUS
<1>1. /\ x \in TaskRows /\ x.version = task[t].version /\ x.exists = FALSE /\ x.op = None
  BY <1>0, <1>a DEF TaskRows, NoTask
<1>2. task' = [task EXCEPT ![t] = x]
  BY <1>a DEF DeleteScheduledTask
<1> QED BY <1>1, <1>2

\* A claim moves the next run only.
LEMMA Claimed ==
    ASSUME task \in [Tasks -> TaskRows], NEW t \in Tasks, NEW n \in Nat,
           task' = [task EXCEPT ![t].next = n]
    PROVE  /\ task' \in [Tasks -> TaskRows]
           /\ task'[t].next = n /\ task'[t].exists = task[t].exists
           /\ task'[t].spec = task[t].spec /\ task'[t].thread = task[t].thread
           /\ task'[t].version = task[t].version
           /\ task'[t].op = task[t].op /\ task'[t].status = task[t].status
           /\ \A u \in Tasks : u # t => task'[u] = task[u]
<1>0. task[t] \in TaskRows
  OBVIOUS
<1>a. PICK x : x = [task[t] EXCEPT !.next = n]
  OBVIOUS
<1>1. /\ x \in TaskRows /\ x.next = n /\ x.status = task[t].status
      /\ x.exists = task[t].exists /\ x.enabled = task[t].enabled /\ x.spec = task[t].spec
      /\ x.thread = task[t].thread /\ x.version = task[t].version /\ x.op = task[t].op
  BY <1>0, <1>a, SetNext
<1>2. task' = [task EXCEPT ![t] = x]
  BY <1>a
<1> QED BY <1>1, <1>2

\* What is written of a time zone that is unknown.
LEMMA Broken ==
    ASSUME task \in [Tasks -> TaskRows], NEW t \in Tasks, task' = [task EXCEPT ![t].broken = TRUE]
    PROVE  /\ task' \in [Tasks -> TaskRows]
           /\ \A u \in Tasks : Same(u) /\ task'[u].status = task[u].status
<1>0. task[t] \in TaskRows
  OBVIOUS
<1>a. PICK x : x = [task[t] EXCEPT !.broken = TRUE]
  OBVIOUS
<1>1. /\ x \in TaskRows /\ x.next = task[t].next /\ x.status = task[t].status
      /\ x.exists = task[t].exists /\ x.enabled = task[t].enabled /\ x.spec = task[t].spec
      /\ x.thread = task[t].thread /\ x.version = task[t].version /\ x.op = task[t].op
  BY <1>0, <1>a, SetBroken
<1>2. task' = [task EXCEPT ![t] = x]
  BY <1>a
<1> QED BY <1>1, <1>2 DEF Same

\* The run of a task is recorded with its operation, unless the task was deleted.
LEMMA Recorded ==
    ASSUME task \in [Tasks -> TaskRows], NEW t \in Tasks, NEW st \in Statuses,
           NEW o \in Ops \cup {None}, task' = MarkScheduledTaskRun(t, st, o)
    PROVE  /\ task' \in [Tasks -> TaskRows]
           /\ task'[t].exists = task[t].exists /\ task'[t].next = task[t].next
           /\ task'[t].spec = task[t].spec /\ task'[t].thread = task[t].thread
           /\ task'[t].version = task[t].version
           /\ task[t].exists => task'[t].status = st /\ task'[t].op = o
           /\ ~task[t].exists => task'[t] = task[t]
           /\ \A u \in Tasks : u # t => task'[u] = task[u]
<1>r. PICK r \in TaskRows : r = task[t]
  OBVIOUS
<1>s. st \in Statuses /\ o \in Ops \cup {None}
  OBVIOUS
<1>a. PICK x : x = [r EXCEPT !.status = st, !.op = o]
  OBVIOUS
<1>1. /\ x \in TaskRows /\ x.status = st /\ x.op = o
      /\ x.exists = r.exists /\ x.enabled = r.enabled /\ x.spec = r.spec
      /\ x.thread = r.thread /\ x.version = r.version /\ x.next = r.next
  <2>1. x \in TaskRows
    BY <1>s, <1>a DEF TaskRows, Statuses
  <2> QED BY <1>a, <2>1 DEF TaskRows
<1>2. task' = [task EXCEPT ![t] = IF task[t].exists THEN x ELSE task[t]]
  BY <1>a, <1>r DEF MarkScheduledTaskRun
<1> QED BY <1>r, <1>1, <1>2

\* The outcome of a turn is written to the tasks whose last run is under way: to
\* those that name its operation, or those of its session.
LEMMA MarkedByOperation ==
    ASSUME task \in [Tasks -> TaskRows], NEW o \in Ops, NEW st \in Statuses,
           task' = MarkScheduledTaskByOperation(o, st)
    PROVE  /\ task' \in [Tasks -> TaskRows]
           /\ \A u \in Tasks :
                /\ Same(u)
                /\ task'[u].status = IF /\ task[u].exists /\ task[u].op = o
                                        /\ task[u].status \in {"queued", "running"}
                                     THEN st ELSE task[u].status
<1>1. ASSUME NEW u \in Tasks
      PROVE  /\ task'[u] \in TaskRows /\ Same(u)
             /\ task'[u].status = IF /\ task[u].exists /\ task[u].op = o
                                     /\ task[u].status \in {"queued", "running"}
                                  THEN st ELSE task[u].status
  <2>0. task[u] \in TaskRows
    OBVIOUS
  <2>a. PICK x : x = [task[u] EXCEPT !.status = st]
    OBVIOUS
  <2>1. /\ x \in TaskRows /\ x.status = st
        /\ x.exists = task[u].exists /\ x.enabled = task[u].enabled /\ x.spec = task[u].spec
        /\ x.thread = task[u].thread /\ x.version = task[u].version /\ x.next = task[u].next
        /\ x.op = task[u].op
    BY <2>0, <2>a, SetStatus
  <2>2. task'[u] = IF /\ task[u].exists /\ task[u].op = o
                      /\ task[u].status \in {"queued", "running"}
                   THEN x ELSE task[u]
    BY <2>a DEF MarkScheduledTaskByOperation
  <2> QED BY <2>1, <2>2 DEF Same
<1>2. task' \in [Tasks -> TaskRows]
  BY <1>1 DEF MarkScheduledTaskByOperation
<1> QED BY <1>1, <1>2

\* The same by session, of which only those of Codex are looked up.
LEMMA MarkedByThread ==
    ASSUME task \in [Tasks -> TaskRows], NEW h \in Threads, NEW st \in Statuses,
           task' = MarkScheduledTaskByThread(h, st)
    PROVE  /\ task' \in [Tasks -> TaskRows]
           /\ \A u \in Tasks :
                /\ Same(u)
                /\ task'[u].status = IF /\ task[u].exists /\ task[u].thread = h
                                        /\ h \in CodexThreads
                                        /\ task[u].status \in {"queued", "running"}
                                     THEN st ELSE task[u].status
<1>1. ASSUME NEW u \in Tasks
      PROVE  /\ task'[u] \in TaskRows /\ Same(u)
             /\ task'[u].status = IF /\ task[u].exists /\ task[u].thread = h
                                     /\ h \in CodexThreads
                                     /\ task[u].status \in {"queued", "running"}
                                  THEN st ELSE task[u].status
  <2>0. task[u] \in TaskRows
    OBVIOUS
  <2>a. PICK x : x = [task[u] EXCEPT !.status = st]
    OBVIOUS
  <2>1. /\ x \in TaskRows /\ x.status = st
        /\ x.exists = task[u].exists /\ x.enabled = task[u].enabled /\ x.spec = task[u].spec
        /\ x.thread = task[u].thread /\ x.version = task[u].version /\ x.next = task[u].next
        /\ x.op = task[u].op
    BY <2>0, <2>a, SetStatus
  <2>2. task'[u] = IF /\ task[u].exists /\ task[u].thread = h /\ h \in CodexThreads
                      /\ task[u].status \in {"queued", "running"}
                   THEN x ELSE task[u]
    BY <2>a DEF MarkScheduledTaskByThread
  <2> QED BY <2>1, <2>2 DEF Same
<1>2. task' \in [Tasks -> TaskRows]
  BY <1>1 DEF MarkScheduledTaskByThread
<1> QED BY <1>1, <1>2

-----------------------------------------------------------------------------
(* What the steps make of operations and of workers *)

\* The row of a new operation.
LEMMA Requested ==
    ASSUME op \in [Ops -> OpRows], NEW o \in Ops, NEW h \in Threads, op' = Queued(o, h)
    PROVE  /\ op' \in [Ops -> OpRows]
           /\ op'[o].thread = h /\ op'[o].state = "queued" /\ op'[o].outcome = "none"
           /\ \A p \in Ops : p # o => op'[p] = op[p]
<1>1. PICK x : x = [NoOp EXCEPT !.thread = h, !.state = "queued"]
  OBVIOUS
<1>2. x \in OpRows /\ x.thread = h /\ x.state = "queued" /\ x.outcome = "none"
  BY <1>1 DEF NoOp, OpRows
<1>3. op' = [op EXCEPT ![o] = x]
  BY <1>1 DEF Queued
<1> QED BY <1>2, <1>3

\* An operation that goes on keeps its session and its outcome.
LEMMA GoesOn ==
    ASSUME op \in [Ops -> OpRows], NEW o \in Ops, NEW st \in {"delivered", "running", "lost"},
           op' = [op EXCEPT ![o].state = st]
    PROVE  /\ op' \in [Ops -> OpRows]
           /\ op'[o].state = st /\ op'[o].thread = op[o].thread
           /\ op'[o].outcome = op[o].outcome /\ op'[o].unseen = op[o].unseen
           /\ \A p \in Ops : p # o => op'[p] = op[p]
<1>1. PICK x : x = [op[o] EXCEPT !.state = st]
  OBVIOUS
<1>2. /\ x \in OpRows /\ x.state = st /\ x.thread = op[o].thread
      /\ x.outcome = op[o].outcome /\ x.unseen = op[o].unseen
  BY <1>1 DEF OpRows
<1>3. op' = [op EXCEPT ![o] = x]
  BY <1>1
<1> QED BY <1>2, <1>3

\* So does one whose end a task does not see.
LEMMA NotSeen ==
    ASSUME op \in [Ops -> OpRows], NEW o \in Ops, NEW b \in BOOLEAN,
           op' = [op EXCEPT ![o].unseen = b]
    PROVE  /\ op' \in [Ops -> OpRows]
           /\ op'[o].unseen = b /\ op'[o].state = op[o].state
           /\ op'[o].thread = op[o].thread /\ op'[o].outcome = op[o].outcome
           /\ \A p \in Ops : p # o => op'[p] = op[p]
<1>1. PICK x : x = [op[o] EXCEPT !.unseen = b]
  OBVIOUS
<1>2. /\ x \in OpRows /\ x.unseen = b /\ x.state = op[o].state
      /\ x.thread = op[o].thread /\ x.outcome = op[o].outcome
  BY <1>1 DEF OpRows
<1>3. op' = [op EXCEPT ![o] = x]
  BY <1>1
<1> QED BY <1>2, <1>3

\* The end of a turn is its outcome, unless it had one, and releases the session that
\* it holds.
LEMMA Over ==
    ASSUME op \in [Ops -> OpRows], thread \in [Threads -> Ops \cup {Free, Stuck, Archived}],
           NEW o \in Ops, NEW result \in Outcomes, Ended(o, result)
    PROVE  /\ op' \in [Ops -> OpRows]
           /\ thread' \in [Threads -> Ops \cup {Free, Stuck, Archived}]
           /\ op'[o].state = "ended" /\ op'[o].thread = op[o].thread
           /\ op'[o].unseen = op[o].unseen
           /\ op'[o].outcome = IF op[o].outcome = "none" THEN result ELSE op[o].outcome
           /\ \A p \in Ops : p # o => op'[p] = op[p]
           /\ \A h \in Threads : thread'[h] = IF h = op[o].thread /\ thread[h] = o THEN Free
                                              ELSE thread[h]
<1>1. PICK r : r = IF op[o].outcome = "none" THEN result ELSE op[o].outcome
  OBVIOUS
<1>2. r \in {"none"} \cup Outcomes
  BY <1>1 DEF OpRows
<1>3. PICK x : x = [op[o] EXCEPT !.state = "ended", !.outcome = r]
  OBVIOUS
<1>4. /\ x \in OpRows /\ x.state = "ended" /\ x.thread = op[o].thread
      /\ x.unseen = op[o].unseen /\ x.outcome = r
  BY <1>2, <1>3 DEF OpRows
<1>5. op' = [op EXCEPT ![o] = x]
  BY <1>1, <1>3 DEF Ended
<1>6. thread' = [thread EXCEPT ![op[o].thread] = IF thread[op[o].thread] = o THEN Free
                                                 ELSE thread[op[o].thread]]
  BY DEF Ended
<1> QED BY <1>1, <1>4, <1>5, <1>6

\* A worker that is not idle is at the first task of its list.
LEMMA AtTask ==
    ASSUME worker \in [Workers -> Runners], NEW w \in Workers, worker[w].list # <<>>
    PROVE  /\ 1 \in DOMAIN worker[w].list /\ Current(w) = worker[w].list[1]
           /\ Current(w) \in Copies /\ Session(w) \in Threads /\ Current(w).id \in Tasks
           /\ Current(w).spec \in Specs /\ Current(w).next \in Nat
           /\ Current(w).version \in Nat
           /\ worker[w].now \in Nat /\ worker[w].list \in Seq(Copies)
<1>1. worker[w].list \in Seq(Copies) /\ worker[w].now \in Nat
  BY DEF Runners
<1>2. 1 \in DOMAIN worker[w].list /\ Head(worker[w].list) = worker[w].list[1]
      /\ worker[w].list[1] \in Copies
  BY <1>1
<1>3. Current(w) = worker[w].list[1] /\ Current(w) \in Copies
  BY <1>2 DEF Current
<1> QED BY <1>1, <1>2, <1>3 DEF Copies, Session

\* When it goes on it has read all that is left at the same tick.
LEMMA Advances ==
    ASSUME worker \in [Workers -> Runners], NEW w \in Workers, worker[w].list # <<>>
    PROVE  \E x \in Runners :
             /\ x = Advance(w) /\ x.pc \in {"idle", "claim"}
             /\ x.pc # "idle" => x.list # <<>> /\ x.now = worker[w].now
             /\ x.pc = "idle" => x.list = <<>> /\ x.now = 0
             /\ \A i \in DOMAIN x.list :
                  \E j \in DOMAIN worker[w].list : x.list[i] = worker[w].list[j]
<1>1. worker[w].list \in Seq(Copies) /\ worker[w].now \in Nat
  BY DEF Runners
<1>2. CASE Len(worker[w].list) <= 1
  <2>1. Advance(w) = Idle
    BY <1>2 DEF Advance
  <2>2. Idle \in Runners /\ Idle.pc = "idle" /\ Idle.list = <<>> /\ Idle.now = 0
    BY DEF Idle, Runners
  <2> QED BY <2>1, <2>2
<1>3. CASE ~(Len(worker[w].list) <= 1)
  <2>0. PICK s \in Seq(Copies) : s = worker[w].list
    BY <1>1
  <2>a. Len(s) \in Nat /\ Len(s) > 1 /\ s # <<>>
    BY <1>3, <2>0
  <2>d. Tail(s) \in Seq(Copies)
    BY <2>a
  <2>1. PICK l \in Seq(Copies) : l = Tail(s)
    BY <2>d, Zenon
  <2>b. Len(l) = Len(s) - 1 /\ \A i \in 1..Len(l) : l[i] = s[i + 1]
    BY <2>a, <2>1
  <2>c. DOMAIN l = 1..Len(l) /\ DOMAIN s = 1..Len(s) /\ (Len(l) # 0 => l # <<>>)
    OBVIOUS
  <2>2. l # <<>> /\ \A i \in DOMAIN l : \E j \in DOMAIN s : l[i] = s[j]
    BY <2>a, <2>b, <2>c
  <2>3. PICK n \in Nat : n = worker[w].now
    BY <1>1
  <2>4. PICK x : x = [Idle EXCEPT !.pc = "claim", !.now = n, !.list = l]
    OBVIOUS
  <2>5. x \in Runners /\ x.pc = "claim" /\ x.now = n /\ x.list = l
    BY <2>4 DEF Idle, Runners
  <2>6. x = Advance(w)
    BY <1>3, <2>0, <2>1, <2>3, <2>4 DEF Advance
  <2> QED BY <2>0, <2>2, <2>3, <2>5, <2>6
<1> QED BY <1>1, <1>2, <1>3

\* What a worker reads of a task that exists.
LEMMA Reads ==
    ASSUME SchedulerTypeOK, NEW t \in Tasks, task[t].exists
    PROVE  /\ Copy(t) \in Copies /\ Copy(t).id = t
           /\ Copy(t).next = task[t].next /\ Copy(t).version = task[t].version
           /\ Copy(t).spec = task[t].spec
<1>1. task[t] \in TaskRows /\ online \in BOOLEAN /\ task[t].spec \in Specs /\ task[t].thread \in Threads
  BY DEF SchedulerTypeOK
<1>2. task[t].next \in Nat /\ task[t].version \in Nat /\ task[t].broken \in BOOLEAN
  BY <1>1 DEF TaskRows
<1> QED BY <1>1, <1>2 DEF Copy, Copies

\* A tick reads tasks that are due.
LEMMA Ticks ==
    ASSUME SchedulerTypeOK, NEW w \in Workers, tick(w)
    PROVE  \E x \in Runners :
             /\ worker' = [worker EXCEPT ![w] = x]
             /\ x.pc = "claim" /\ x.list # <<>> /\ x.now = clock
             /\ \A i \in DOMAIN x.list :
                  \E t \in Tasks : x.list[i] = Copy(t) /\ task[t].exists /\ task[t].next <= clock
<1>1. PICK list \in DueScheduledTasks :
        worker' = [worker EXCEPT ![w] =
          [Idle EXCEPT !.pc = "claim", !.now = clock,
                       !.list = [i \in DOMAIN list |-> Copy(list[i])]]]
  BY DEF tick
<1>2. PICK n \in 1..Limit : list \in [1..n -> Due]
  BY DEF DueScheduledTasks
<1>3. n \in Nat /\ n >= 1
  BY <1>2, SchedulerAssumption
<1>4. PICK l : l = [i \in 1..n |-> Copy(list[i])]
  OBVIOUS
<1>5. \A i \in 1..n : /\ list[i] \in Tasks /\ task[list[i]].exists /\ task[list[i]].next <= clock
                      /\ l[i] = Copy(list[i]) /\ l[i] \in Copies
  BY <1>2, <1>4, Reads DEF Due
<1>6. l \in Seq(Copies) /\ l # <<>> /\ DOMAIN l = 1..n
  <2>1. l \in [1..n -> Copies]
    BY <1>4, <1>5
  <2>2. l \in Seq(Copies) /\ Len(l) = n
    BY <1>3, <2>1
  <2> QED BY <1>3, <2>1, <2>2
<1>7. PICK c \in Nat : c = clock
  BY SchedulerAssumption DEF SchedulerTypeOK
<1>8. PICK x : x = [Idle EXCEPT !.pc = "claim", !.now = c, !.list = l]
  OBVIOUS
<1>9. x \in Runners /\ x.pc = "claim" /\ x.now = clock /\ x.list = l
  BY <1>6, <1>7, <1>8 DEF Idle, Runners
<1>10. worker' = [worker EXCEPT ![w] = x]
  BY <1>1, <1>2, <1>4, <1>7, <1>8
<1> QED BY <1>5, <1>6, <1>9, <1>10

\* What a step may make of a worker: it goes on to another statement with the same
\* task, or it leaves the task, for the next one or for none.
Proceeds(w, pc) ==
  /\ worker' \in [Workers -> Runners]
  /\ worker'[w].pc = pc /\ worker'[w].list = worker[w].list /\ worker'[w].now = worker[w].now
  /\ \A v \in Workers : v # w => worker'[v] = worker[v]
Leaves(w) ==
  /\ worker' \in [Workers -> Runners]
  /\ worker'[w].pc \in {"idle", "claim"}
  /\ worker'[w].pc # "idle" => worker'[w].list # <<>> /\ worker'[w].now = worker[w].now
  /\ worker'[w].pc = "idle" => worker'[w].list = <<>> /\ worker'[w].now = 0
  /\ \A i \in DOMAIN worker'[w].list :
       \E j \in DOMAIN worker[w].list : worker'[w].list[i] = worker[w].list[j]
  /\ \A v \in Workers : v # w => worker'[v] = worker[v]

\* The next statement of a worker.
LEMMA NextStatement ==
    ASSUME worker \in [Workers -> Runners], NEW w \in Workers, NEW pc \in {"enqueue", "queue"},
           worker' = [worker EXCEPT ![w].pc = pc]
    PROVE  Proceeds(w, pc)
<1>1. PICK x : x = [worker[w] EXCEPT !.pc = pc]
  OBVIOUS
<1>2. x \in Runners /\ x.pc = pc /\ x.list = worker[w].list /\ x.now = worker[w].now
  BY <1>1 DEF Runners
<1>3. worker' = [worker EXCEPT ![w] = x]
  BY <1>1
<1> QED BY <1>2, <1>3 DEF Proceeds

\* The same when an operation was queued.
LEMMA HasQueued ==
    ASSUME worker \in [Workers -> Runners], NEW w \in Workers, NEW o \in Ops,
           worker' = [worker EXCEPT ![w].pc = "mark", ![w].op = o]
    PROVE  Proceeds(w, "mark") /\ worker'[w].op = o
<1>1. PICK x : x = [worker[w] EXCEPT !.pc = "mark", !.op = o]
  OBVIOUS
<1>2. /\ x \in Runners /\ x.pc = "mark" /\ x.list = worker[w].list /\ x.now = worker[w].now
      /\ x.op = o
  BY <1>1 DEF Runners
<1>3. worker' = [worker EXCEPT ![w] = x]
  BY <1>1
<1> QED BY <1>2, <1>3 DEF Proceeds

\* A worker leaves its task when it is done with it, or dies.
LEMMA LeavesTask ==
    ASSUME worker \in [Workers -> Runners], NEW w \in Workers, worker[w].list # <<>>,
           worker' = [worker EXCEPT ![w] = Advance(w)]
    PROVE  Leaves(w)
<1>1. PICK x \in Runners :
        /\ x = Advance(w) /\ x.pc \in {"idle", "claim"}
        /\ x.pc # "idle" => x.list # <<>> /\ x.now = worker[w].now
        /\ x.pc = "idle" => x.list = <<>> /\ x.now = 0
        /\ \A i \in DOMAIN x.list :
             \E j \in DOMAIN worker[w].list : x.list[i] = worker[w].list[j]
  BY Advances
<1>2. worker' = [worker EXCEPT ![w] = x]
  BY <1>1
<1> QED BY <1>1, <1>2 DEF Leaves

\* Of one that dies nothing is left.
LEMMA Dies ==
    ASSUME worker \in [Workers -> Runners], NEW w \in Workers,
           worker' = [worker EXCEPT ![w] = Idle]
    PROVE  Leaves(w)
<1>1. Idle \in Runners /\ Idle.pc = "idle" /\ Idle.list = <<>> /\ Idle.now = 0 /\ DOMAIN Idle.list = {}
  BY DEF Idle, Runners
<1> QED BY <1>1 DEF Leaves

\* A task that is moved to another session does not see the end of its last run.
LEMMA MovesAway ==
    ASSUME op \in [Ops -> OpRows], NEW t \in Tasks, NEW h \in Threads,
           op' = [o \in Ops |-> IF o = task[t].op /\ h # task[t].thread
                                THEN [op[o] EXCEPT !.unseen = TRUE] ELSE op[o]]
    PROVE  /\ op' \in [Ops -> OpRows]
           /\ \A o \in Ops :
                /\ op'[o].state = op[o].state /\ op'[o].thread = op[o].thread
                /\ op'[o].outcome = op[o].outcome /\ (op[o].unseen => op'[o].unseen)
                /\ o = task[t].op /\ h # task[t].thread => op'[o].unseen
<1>1. ASSUME NEW o \in Ops
      PROVE  /\ op'[o] \in OpRows
             /\ op'[o].state = op[o].state /\ op'[o].thread = op[o].thread
             /\ op'[o].outcome = op[o].outcome /\ (op[o].unseen => op'[o].unseen)
             /\ o = task[t].op /\ h # task[t].thread => op'[o].unseen
  <2>1. PICK x : x = [op[o] EXCEPT !.unseen = TRUE]
    OBVIOUS
  <2>2. /\ x \in OpRows /\ x.unseen /\ x.state = op[o].state
        /\ x.thread = op[o].thread /\ x.outcome = op[o].outcome
    BY <2>1 DEF OpRows
  <2>3. op'[o] = IF o = task[t].op /\ h # task[t].thread THEN x ELSE op[o]
    BY <2>1
  <2> QED BY <2>2, <2>3
<1>2. op' \in [Ops -> OpRows]
  BY <1>1
<1> QED BY <1>1, <1>2

\* What a step may make of the row of a task: it is gone, its next run is in the
\* future, or its version is the same and its next run not an earlier one.  No version
\* is an earlier one, and the schedule of a version is always the same.
RowMoves(u) ==
  /\ \/ task'[u].exists = FALSE
     \/ task'[u].next > clock
     \/ /\ task[u].exists /\ task'[u].version = task[u].version
        /\ task'[u].next >= task[u].next
  /\ task'[u].version >= task[u].version
  /\ task'[u].exists /\ task'[u].version = task[u].version =>
       task[u].exists /\ task'[u].spec = task[u].spec

\* What a step may make of what a worker has read: a part of it, nothing, or tasks
\* that are due.
ReadMoves(w) ==
  \/ /\ worker'[w].now = worker[w].now
     /\ \A i \in DOMAIN worker'[w].list :
          \E j \in DOMAIN worker[w].list : worker'[w].list[i] = worker[w].list[j]
  \/ worker'[w].now = 0 /\ DOMAIN worker'[w].list = {}
  \/ /\ worker'[w].now = clock /\ task' = task
     /\ \A i \in DOMAIN worker'[w].list :
          \E u \in Tasks : /\ worker'[w].list[i].id = u
                           /\ worker'[w].list[i].next = task[u].next /\ task[u].next <= clock
                           /\ worker'[w].list[i].version = task[u].version
                           /\ worker'[w].list[i].spec = task[u].spec

\* Such steps keep what is known of what was read.
LEMMA ReadKept ==
    ASSUME ReadWasDue, clock \in Nat, clock' \in Nat, clock' >= clock,
           task \in [Tasks -> TaskRows], task' \in [Tasks -> TaskRows],
           worker \in [Workers -> Runners],
           \A u \in Tasks : RowMoves(u), \A w \in Workers : ReadMoves(w)
    PROVE  ReadWasDue'
<1>1. \A w \in Workers : /\ worker[w].now \in Nat
                         /\ \A i \in DOMAIN worker[w].list : worker[w].list[i] \in Copies
  BY DEF Runners
<1>2. \A c \in Copies : c.id \in Tasks /\ c.next \in Nat /\ c.version \in Nat
  BY DEF Copies
<1>3. \A u \in Tasks : /\ task[u].next \in Nat /\ task'[u].next \in Nat
                       /\ task[u].version \in Nat /\ task'[u].version \in Nat
                       /\ task[u].exists \in BOOLEAN
  BY RowTypes
<1>4. ASSUME NEW w \in Workers,
             worker'[w].now = worker[w].now,
             \A i \in DOMAIN worker'[w].list :
               \E j \in DOMAIN worker[w].list : worker'[w].list[i] = worker[w].list[j],
             NEW i \in DOMAIN worker'[w].list
      PROVE  /\ worker'[w].now <= clock'
             /\ worker'[w].list[i].next <= worker'[w].now
             /\ worker'[w].list[i].version <= task'[worker'[w].list[i].id].version
             /\ (/\ worker'[w].list[i].version = task'[worker'[w].list[i].id].version
                 /\ task'[worker'[w].list[i].id].exists) =>
                  worker'[w].list[i].spec = task'[worker'[w].list[i].id].spec
             /\ \/ worker'[w].list[i].version = task'[worker'[w].list[i].id].version
                \/ ~task'[worker'[w].list[i].id].exists
                \/ task'[worker'[w].list[i].id].next > worker'[w].now
  <2>1. PICK j \in DOMAIN worker[w].list : worker'[w].list[i] = worker[w].list[j]
    BY <1>4
  <2>2. PICK c \in Copies : c = worker[w].list[j]
    BY <1>1
  <2>3. /\ worker[w].now <= clock /\ c.next <= worker[w].now /\ c.id \in Tasks
        /\ c.version <= task[c.id].version
        /\ c.version = task[c.id].version /\ task[c.id].exists => c.spec = task[c.id].spec
        /\ \/ c.version = task[c.id].version \/ ~task[c.id].exists
           \/ task[c.id].next > worker[w].now
    BY <1>2, <2>2 DEF ReadWasDue
  <2>4. /\ \/ c.version = task'[c.id].version \/ ~task'[c.id].exists
           \/ task'[c.id].next > worker[w].now
        /\ c.version <= task'[c.id].version
        /\ c.version = task'[c.id].version /\ task'[c.id].exists => c.spec = task'[c.id].spec
    <3>1. PICK u \in Tasks : u = c.id
      BY <2>3
    <3>2. PICK v \in Nat : v = task[u].version
      BY <1>3
    <3>3. PICK v1 \in Nat : v1 = task'[u].version
      BY <1>3
    <3>4. /\ RowMoves(u) /\ c.version \in Nat /\ c.version <= v /\ v <= v1
          /\ c.version = v /\ task[u].exists => c.spec = task[u].spec
      BY <1>2, <2>2, <2>3, <3>1, <3>2, <3>3 DEF RowMoves
    <3>5. c.version <= v1
      BY <3>4
    <3>6. ASSUME c.version = v1, task'[u].exists PROVE c.spec = task'[u].spec
      <4>1. v = v1
        BY <3>4, <3>6
      <4> QED BY <3>2, <3>3, <3>4, <3>6, <4>1 DEF RowMoves
    <3>7. c.version = v1 \/ ~task'[u].exists \/ task'[u].next > worker[w].now
      BY <1>1, <1>3, <2>3, <3>1, <3>2, <3>3, <3>4 DEF RowMoves
    <3> QED BY <3>1, <3>3, <3>5, <3>6, <3>7
  <2> QED BY <1>1, <1>4, <2>1, <2>2, <2>3, <2>4
<1>5. ASSUME NEW w \in Workers,
             worker'[w].now = worker[w].now \/ worker'[w].now = 0 \/ worker'[w].now = clock
      PROVE  worker'[w].now <= clock'
  BY <1>1, <1>5 DEF ReadWasDue
<1>6. ASSUME NEW w \in Workers, NEW i \in DOMAIN worker'[w].list
      PROVE  /\ worker'[w].list[i].next <= worker'[w].now
             /\ worker'[w].list[i].version <= task'[worker'[w].list[i].id].version
             /\ (/\ worker'[w].list[i].version = task'[worker'[w].list[i].id].version
                 /\ task'[worker'[w].list[i].id].exists) =>
                  worker'[w].list[i].spec = task'[worker'[w].list[i].id].spec
             /\ \/ worker'[w].list[i].version = task'[worker'[w].list[i].id].version
                \/ ~task'[worker'[w].list[i].id].exists
                \/ task'[worker'[w].list[i].id].next > worker'[w].now
  <2>0. ReadMoves(w)
    OBVIOUS
  <2>1. CASE /\ worker'[w].now = worker[w].now
             /\ \A k \in DOMAIN worker'[w].list :
                  \E j \in DOMAIN worker[w].list : worker'[w].list[k] = worker[w].list[j]
    BY <1>4, <2>1
  <2>2. CASE /\ worker'[w].now = clock /\ task' = task
             /\ \A k \in DOMAIN worker'[w].list :
                  \E u \in Tasks : /\ worker'[w].list[k].id = u
                                   /\ worker'[w].list[k].next = task[u].next
                                   /\ task[u].next <= clock
                                   /\ worker'[w].list[k].version = task[u].version
                                   /\ worker'[w].list[k].spec = task[u].spec
    <3>1. PICK u \in Tasks : /\ worker'[w].list[i].id = u
                             /\ worker'[w].list[i].next = task[u].next
                             /\ worker'[w].list[i].version = task[u].version
                             /\ worker'[w].list[i].spec = task[u].spec
                             /\ task[u].next <= clock
      BY <2>2
    <3> QED BY <1>3, <2>2, <3>1
  <2> QED BY <2>0, <2>1, <2>2 DEF ReadMoves
<1>7. \A w \in Workers : worker'[w].now <= clock'
  BY <1>5 DEF ReadMoves
<1> QED BY <1>6, <1>7 DEF ReadWasDue

\* What is known of claims is kept by the steps that claim nothing.
LEMMA PastKept ==
    ASSUME ClaimIsPast, clock \in Nat, clock' \in Nat, clock' >= clock, claim' = claim,
           claim \in [Tasks -> Claims], task \in [Tasks -> TaskRows], task' \in [Tasks -> TaskRows],
           \A u \in Tasks : RowMoves(u)
    PROVE  ClaimIsPast'
<1>1. \A u \in Tasks : /\ claim[u].at \in Int /\ task[u].next \in Nat /\ task'[u].next \in Nat
                       /\ RowMoves(u) /\ claim[u].at <= clock
                       /\ task[u].exists => claim[u].at < task[u].next
  BY RowTypes DEF Claims, ClaimIsPast
<1> QED BY <1>1 DEF ClaimIsPast, RowMoves

\* What the report of a turn makes of the tasks: of those that name it or its
\* session, the outcome of the run that is under way.
Marks(o, st) ==
  /\ task' \in [Tasks -> TaskRows]
  /\ \A u \in Tasks :
       /\ Same(u)
       /\ \/ task'[u].status = task[u].status
          \/ /\ task[u].status \in {"queued", "running"} /\ task'[u].status = st
             /\ task[u].op = o \/ task[u].thread = op[o].thread
       /\ (/\ task[u].exists /\ task[u].op = o /\ task[u].thread = op[o].thread
           /\ task[u].status \in {"queued", "running"}) => task'[u].status = st

\* By operation or by session, both do so.
LEMMA MarksByOperation ==
    ASSUME task \in [Tasks -> TaskRows], NEW o \in Ops, NEW st \in Statuses,
           task' = MarkScheduledTaskByOperation(o, st)
    PROVE  Marks(o, st)
BY MarkedByOperation DEF Marks

\* Of a session of Codex, as the events of its turns are.
LEMMA MarksByThread ==
    ASSUME task \in [Tasks -> TaskRows], NEW o \in Ops, op[o].thread \in Threads,
           op[o].thread \in CodexThreads, NEW st \in Statuses,
           task' = MarkScheduledTaskByThread(op[o].thread, st)
    PROVE  Marks(o, st)
<1>1. PICK h \in Threads : h = op[o].thread
  OBVIOUS
<1>2. /\ task' \in [Tasks -> TaskRows]
      /\ \A u \in Tasks :
           /\ Same(u)
           /\ task'[u].status = IF /\ task[u].exists /\ task[u].thread = h
                                   /\ h \in CodexThreads
                                   /\ task[u].status \in {"queued", "running"}
                                THEN st ELSE task[u].status
  BY <1>1, MarkedByThread
<1> QED BY <1>1, <1>2 DEF Marks

-----------------------------------------------------------------------------
\* Every step preserves the conjunction.
LEMMA StepInv ==
    ASSUME SchedulerInv, NextStep PROVE SchedulerInv'
<1>a. /\ SchedulerTypeOK /\ ReadWasDue /\ ClaimIsPast /\ OccurrenceOnce /\ ClaimedIsCurrent
      /\ OperationsKnown /\ SessionHasItsTurn /\ OneHolder /\ ShownRunIsItsOwn
  BY DEF SchedulerInv
<1>b. /\ clock \in Nat /\ clock \in 0..MaxTime /\ MaxTime \in Nat
      /\ online \in BOOLEAN /\ faults \in Nat /\ given \subseteq Threads
      /\ task \in [Tasks -> TaskRows] /\ op \in [Ops -> OpRows] /\ claim \in [Tasks -> Claims]
      /\ thread \in [Threads -> Ops \cup {Free, Stuck, Archived}]
      /\ worker \in [Workers -> Runners]
  BY <1>a, SchedulerAssumption DEF SchedulerTypeOK
<1>t. \A u \in Tasks : /\ task[u].exists \in BOOLEAN /\ task[u].version \in Nat
                       /\ task[u].next \in Nat /\ task[u].op \in Ops \cup {None}
                       /\ task[u].status \in Statuses /\ task[u].thread \in Threads \cup {None}
  BY <1>b, RowTypes
<1>o. /\ None \notin Ops /\ None \notin Threads /\ Free \notin Ops /\ Stuck \notin Ops
      /\ Archived \notin Ops /\ Free # Stuck /\ Free # Archived /\ Stuck # Archived
      /\ None \notin Nat /\ None \notin Specs
  BY SchedulerAssumption
<1>p. \A p \in Ops : /\ op[p].thread \in Threads \cup {None} /\ op[p].unseen \in BOOLEAN
                     /\ op[p].state \in {"none", "queued", "delivered", "running", "lost", "ended"}
                     /\ op[p].outcome \in {"none"} \cup Outcomes
  BY <1>b DEF OpRows
<1>w. \A v \in Workers : /\ worker[v].op \in Ops \cup {None}
                         /\ worker[v].pc # "idle" => (worker[v].list # <<>> /\ Session(v) \in Threads)
  BY <1>a, <1>b, AtTask DEF SchedulerTypeOK, Runners
<1>h. \A v \in Workers :
        worker[v].pc = "queue" =>
          (Session(v) \in Threads /\ (Session(v) \notin given => thread[Session(v)] = Stuck))
  <2>1. \A v \in Workers :
          worker[v].pc = "queue" /\ Session(v) \notin given => thread[Session(v)] = Stuck
    BY <1>a DEF OneHolder
  <2>2. ASSUME NEW v \in Workers, worker[v].pc = "queue" PROVE Session(v) \in Threads
    BY <1>w, <2>2
  <2> QED BY <2>1, <2>2
<1>k. \A v \in Workers :
        worker[v].pc = "mark" =>
          (/\ worker[v].op \in Ops /\ Session(v) \in Threads
           /\ op[worker[v].op].thread = Session(v) /\ op[worker[v].op].state # "none")
  BY <1>a, <1>w DEF OperationsKnown, SchedulerTypeOK
<1>l. \A v \in Workers :
        worker[v].pc = "mark" =>
          (/\ \A u \in Tasks : task[u].op # worker[v].op
           /\ \A x \in Workers : worker[x].pc = "mark" /\ worker[x].op = worker[v].op => x = v)
  BY <1>a DEF OperationsKnown
<1>q. \A p \in Ops : /\ op[p].state # "none" => op[p].thread \in Threads
                     /\ op[p].state = "ended" => op[p].outcome # "none"
                     /\ op[p].state = "queued" => op[p].outcome = "none"
  BY <1>a DEF OperationsKnown
<1>y. \A u \in Tasks : IF task[u].exists THEN task[u].spec \in Specs /\ task[u].thread \in Threads
                       ELSE task[u].op = None
  BY <1>a DEF SchedulerTypeOK
<1>m. \A u \in Tasks : task[u].op # None => op[task[u].op].state # "none"
  BY <1>a DEF OperationsKnown
<1>j. \A g \in Threads : thread[g] \in Ops => (/\ op[thread[g]].thread = g
                                               /\ op[thread[g]].state \notin {"none", "ended"})
  BY <1>a DEF SessionHasItsTurn
<1>x. \A v, x \in Workers :
        worker[v].pc = "queue" /\ Session(v) \notin given /\ worker[x].pc = "queue"
        /\ Session(x) = Session(v) => x = v
  BY <1>a DEF OneHolder
<1>r. \A g \in Threads :
        thread[g] = Stuck /\ faults = 0 =>
          \E v \in Workers : worker[v].pc = "queue" /\ Session(v) = g
  BY <1>a DEF OneHolder
<1>v. \A u \in Tasks :
        task[u].exists /\ task[u].op # None /\ ~op[task[u].op].unseen
        /\ op[task[u].op].thread = task[u].thread /\ task[u].thread \notin given =>
          (\/ task[u].status = op[task[u].op].outcome
           \/ op[task[u].op].outcome = "none" /\ task[u].status \in {"queued", "running"})
  BY <1>a DEF ShownRunIsItsOwn
<1>i. \A p \in Ops :
        op[p].state \notin {"none", "ended"} /\ op[p].thread \notin given =>
          (thread[op[p].thread] = p /\ op[p].outcome = "none")
  BY <1>a DEF SessionHasItsTurn
<1>1. ASSUME Minute PROVE SchedulerInv'
  <2>1. clock' = clock + 1 /\ clock' \in 0..MaxTime
    BY <1>1, <1>b DEF Minute
  <2>u. UNCHANGED <<online, task, thread, op, worker, claim, given, faults>>
    BY <1>1 DEF Minute
  <2>s. \A v \in Workers : Session(v)' = Session(v)
    BY <2>u DEF Session, Current
  <2>type. SchedulerTypeOK'
    BY <1>a, <1>b, <2>1, <2>u DEF SchedulerTypeOK
  <2>rows. \A u \in Tasks : RowMoves(u)
    BY <1>b, <1>t, <2>u DEF RowMoves
  <2>work. \A v \in Workers : ReadMoves(v)
    BY <2>u DEF ReadMoves
  <2>read. ReadWasDue'
    BY <1>a, <1>b, <2>1, <2>u, <2>rows, <2>work, ReadKept
  <2>past. ClaimIsPast'
    BY <1>a, <1>b, <2>1, <2>u, <2>rows, PastKept
  <2>once. OccurrenceOnce'
    BY <1>a, <2>u DEF OccurrenceOnce
  <2>current. ClaimedIsCurrent'
    BY <1>a, <2>u DEF ClaimedIsCurrent
  <2>known. OperationsKnown'
    BY <1>a, <2>u DEF OperationsKnown, Session, Current
  <2>turn. SessionHasItsTurn'
    BY <1>a, <2>u DEF SessionHasItsTurn
  <2>holder. OneHolder'
    BY <1>a, <2>u DEF OneHolder, Session, Current
  <2>shown. ShownRunIsItsOwn'
    BY <1>a, <2>u DEF ShownRunIsItsOwn
  <2> QED BY <2>type, <2>read, <2>past, <2>once, <2>current, <2>known, <2>turn, <2>holder,
             <2>shown DEF SchedulerInv
<1>2. ASSUME NEW t \in Tasks, NEW spec \in Specs, NEW h \in Threads, createScheduledTask(t, spec, h) PROVE SchedulerInv'
  <2>0. PICK n : n = Next(spec, clock) /\ n # None
    BY <1>2 DEF createScheduledTask
  <2>1. n \in Nat /\ n > clock
    BY <1>b, <2>0, NextIsFirst
  <2>2. /\ task' \in [Tasks -> TaskRows]
        /\ task'[t].exists = TRUE /\ task'[t].spec = spec /\ task'[t].thread = h
        /\ task'[t].next = n /\ task'[t].version = task[t].version + 1
        /\ task'[t].status = task[t].status /\ task'[t].op = task[t].op
        /\ \A u \in Tasks : u # t => task'[u] = task[u]
    BY <1>2, <1>b, <2>0, <2>1, Edited DEF createScheduledTask, CreateScheduledTask
  <2>3. ~task[t].exists /\ task[t].op = None
    BY <1>2, <1>a DEF createScheduledTask, SchedulerTypeOK
  <2>u. UNCHANGED <<clock, online, thread, op, worker, claim, given, faults>>
    BY <1>2 DEF createScheduledTask, CreateScheduledTask
  <2>s. \A v \in Workers : Session(v)' = Session(v)
    BY <2>u DEF Session, Current
  <2>type. SchedulerTypeOK'
    BY <1>a, <1>b, <2>0, <2>1, <2>2, <2>3, <2>u DEF SchedulerTypeOK
  <2>rows. \A u \in Tasks : RowMoves(u)
    BY <1>b, <1>t, <2>0, <2>1, <2>2, <2>3, <2>u DEF RowMoves
  <2>work. \A v \in Workers : ReadMoves(v)
    BY <2>u DEF ReadMoves
  <2>read. ReadWasDue'
    BY <1>a, <1>b, <2>1, <2>2, <2>3, <2>u, <2>rows, <2>work, ReadKept
  <2>past. ClaimIsPast'
    BY <1>a, <1>b, <2>1, <2>2, <2>3, <2>u, <2>rows, PastKept
  <2>once. OccurrenceOnce'
    BY <1>a, <2>u DEF OccurrenceOnce
  <2>current. ClaimedIsCurrent'
    BY <1>a, <2>u DEF ClaimedIsCurrent
  <2>known. OperationsKnown'
    <3>1. ASSUME NEW v \in Workers, worker'[v].pc = "mark"
         PROVE  op'[worker'[v].op].thread = Session(v)' /\ op'[worker'[v].op].state # "none"
      BY <3>1, <1>k, <1>o, <2>2, <2>3, <2>u, <2>s
    <3>2. ASSUME NEW v \in Workers, worker'[v].pc = "mark", NEW u \in Tasks
         PROVE  task'[u].op # worker'[v].op
      BY <3>2, <1>k, <1>l, <1>o, <2>2, <2>3, <2>u, <2>s
    <3>3. ASSUME NEW v \in Workers, NEW x \in Workers, worker'[v].pc = "mark",
                worker'[x].pc = "mark", worker'[x].op = worker'[v].op
         PROVE  x = v
      BY <3>3, <1>k, <1>l, <2>2, <2>3, <2>u, <2>s
    <3>4. ASSUME NEW u \in Tasks, task'[u].op # None
         PROVE  op'[task'[u].op].state # "none"
      BY <3>4, <1>t, <1>m, <2>2, <2>3, <2>u, <2>s
    <3>5. ASSUME NEW p \in Ops
         PROVE  /\ op'[p].state # "none" => op'[p].thread \in Threads
                /\ op'[p].state = "ended" => op'[p].outcome # "none"
                /\ op'[p].state = "queued" => op'[p].outcome = "none"
      BY <3>5, <1>p, <1>q, <2>2, <2>3, <2>u, <2>s
    <3> QED BY <3>1, <3>2, <3>3, <3>4, <3>5 DEF OperationsKnown
  <2>turn. SessionHasItsTurn'
    BY <1>a, <2>u DEF SessionHasItsTurn
  <2>holder. OneHolder'
    BY <1>a, <2>u DEF OneHolder, Session, Current
  <2>shown. ShownRunIsItsOwn'
    <3>1. ASSUME NEW u \in Tasks, task'[u].exists, task'[u].op # None, ~op'[task'[u].op].unseen,
                 op'[task'[u].op].thread = task'[u].thread, task'[u].thread \notin given'
          PROVE  \/ task'[u].status = op'[task'[u].op].outcome
                 \/ op'[task'[u].op].outcome = "none" /\ task'[u].status \in {"queued", "running"}
      BY <3>1, <1>t, <1>p, <1>q, <1>v, <1>o, <2>2, <2>3, <2>u
    <3> QED BY <3>1 DEF ShownRunIsItsOwn
  <2> QED BY <2>type, <2>read, <2>past, <2>once, <2>current, <2>known, <2>turn, <2>holder,
             <2>shown DEF SchedulerInv
<1>3. ASSUME NEW t \in Tasks, NEW spec \in Specs, NEW h \in Threads, NEW b \in BOOLEAN, updateScheduledTask(t, spec, h, b) PROVE SchedulerInv'
  <2>0. PICK n : n = Next(spec, clock) /\ n # None
    BY <1>3 DEF updateScheduledTask
  <2>1. n \in Nat /\ n > clock
    BY <1>b, <2>0, NextIsFirst
  <2>2a. UpdateScheduledTask(t, spec, h, b, n)
    BY <1>3, <2>0 DEF updateScheduledTask
  <2>2. /\ task' \in [Tasks -> TaskRows]
        /\ task'[t].exists = TRUE /\ task'[t].spec = spec /\ task'[t].thread = h
        /\ task'[t].next = n /\ task'[t].version = task[t].version + 1
        /\ task'[t].status = task[t].status /\ task'[t].op = task[t].op
        /\ \A u \in Tasks : u # t => task'[u] = task[u]
    <3>1. CASE b = TRUE
      <4>1. UpdateScheduledTask(t, spec, h, TRUE, n)
        BY <2>2a, <3>1
      <4> QED BY <1>b, <2>1, <4>1, Edited
    <3>2. CASE b = FALSE
      <4>1. UpdateScheduledTask(t, spec, h, FALSE, n)
        BY <2>2a, <3>2
      <4> QED BY <1>b, <2>1, <4>1, Edited
    <3> QED BY <3>1, <3>2
  <2>3. /\ op' \in [Ops -> OpRows]
        /\ \A o \in Ops :
             /\ op'[o].state = op[o].state /\ op'[o].thread = op[o].thread
             /\ op'[o].outcome = op[o].outcome /\ (op[o].unseen => op'[o].unseen)
             /\ o = task[t].op /\ h # task[t].thread => op'[o].unseen
    BY <1>3, <1>b, MovesAway DEF updateScheduledTask
  <2>4. task[t].exists
    BY <1>3 DEF updateScheduledTask
  <2>u. UNCHANGED <<clock, online, thread, worker, claim, given, faults>>
    BY <1>3 DEF updateScheduledTask
  <2>s. \A v \in Workers : Session(v)' = Session(v)
    BY <2>u DEF Session, Current
  <2>type. SchedulerTypeOK'
    BY <1>a, <1>b, <2>0, <2>1, <2>2a, <2>2, <2>3, <2>4, <2>u DEF SchedulerTypeOK
  <2>rows. \A u \in Tasks : RowMoves(u)
    BY <1>b, <1>t, <2>0, <2>1, <2>2, <2>3, <2>4, <2>u DEF RowMoves
  <2>work. \A v \in Workers : ReadMoves(v)
    BY <2>u DEF ReadMoves
  <2>read. ReadWasDue'
    BY <1>a, <1>b, <2>1, <2>2, <2>3, <2>u, <2>rows, <2>work, ReadKept
  <2>past. ClaimIsPast'
    BY <1>a, <1>b, <2>1, <2>2, <2>3, <2>u, <2>rows, PastKept
  <2>once. OccurrenceOnce'
    BY <1>a, <2>u DEF OccurrenceOnce
  <2>current. ClaimedIsCurrent'
    BY <1>a, <2>u DEF ClaimedIsCurrent
  <2>known. OperationsKnown'
    <3>1. ASSUME NEW v \in Workers, worker'[v].pc = "mark"
         PROVE  op'[worker'[v].op].thread = Session(v)' /\ op'[worker'[v].op].state # "none"
      BY <3>1, <1>k, <1>o, <2>2, <2>3, <2>4, <2>u, <2>s
    <3>2. ASSUME NEW v \in Workers, worker'[v].pc = "mark", NEW u \in Tasks
         PROVE  task'[u].op # worker'[v].op
      BY <3>2, <1>k, <1>l, <1>o, <2>2, <2>3, <2>4, <2>u, <2>s
    <3>3. ASSUME NEW v \in Workers, NEW x \in Workers, worker'[v].pc = "mark",
                worker'[x].pc = "mark", worker'[x].op = worker'[v].op
         PROVE  x = v
      BY <3>3, <1>k, <1>l, <2>2, <2>3, <2>4, <2>u, <2>s
    <3>4. ASSUME NEW u \in Tasks, task'[u].op # None
         PROVE  op'[task'[u].op].state # "none"
      BY <3>4, <1>t, <1>m, <2>2, <2>3, <2>4, <2>u, <2>s
    <3>5. ASSUME NEW p \in Ops
         PROVE  /\ op'[p].state # "none" => op'[p].thread \in Threads
                /\ op'[p].state = "ended" => op'[p].outcome # "none"
                /\ op'[p].state = "queued" => op'[p].outcome = "none"
      BY <3>5, <1>p, <1>q, <2>2, <2>3, <2>4, <2>u, <2>s
    <3> QED BY <3>1, <3>2, <3>3, <3>4, <3>5 DEF OperationsKnown
  <2>turn. SessionHasItsTurn'
    <3>1. ASSUME NEW g \in Threads, thread'[g] \in Ops
         PROVE  /\ op'[thread'[g]].thread = g
                /\ op'[thread'[g]].state \notin {"none", "ended"}
      BY <3>1, <1>o, <1>j, <2>2, <2>3, <2>u
    <3>2. ASSUME NEW p \in Ops, op'[p].state \notin {"none", "ended"}, op'[p].thread \notin given'
         PROVE  thread'[op'[p].thread] = p /\ op'[p].outcome = "none"
      BY <3>2, <1>i, <1>o, <1>p, <1>q, <2>2, <2>3, <2>u
    <3> QED BY <3>1, <3>2 DEF SessionHasItsTurn
  <2>holder. OneHolder'
    BY <1>a, <2>u DEF OneHolder, Session, Current
  <2>shown. ShownRunIsItsOwn'
    <3>1. ASSUME NEW u \in Tasks, task'[u].exists, task'[u].op # None, ~op'[task'[u].op].unseen,
                 op'[task'[u].op].thread = task'[u].thread, task'[u].thread \notin given'
          PROVE  \/ task'[u].status = op'[task'[u].op].outcome
                 \/ op'[task'[u].op].outcome = "none" /\ task'[u].status \in {"queued", "running"}
      BY <3>1, <1>t, <1>p, <1>q, <1>v, <1>o, <2>2, <2>3, <2>4, <2>u
    <3> QED BY <3>1 DEF ShownRunIsItsOwn
  <2> QED BY <2>type, <2>read, <2>past, <2>once, <2>current, <2>known, <2>turn, <2>holder,
             <2>shown DEF SchedulerInv
<1>4. ASSUME NEW t \in Tasks, deleteScheduledTask(t) PROVE SchedulerInv'
  <2>1. /\ task' \in [Tasks -> TaskRows]
        /\ task'[t].exists = FALSE /\ task'[t].op = None /\ task'[t].version = task[t].version
        /\ \A u \in Tasks : u # t => task'[u] = task[u]
    BY <1>4, <1>b, Deleted DEF deleteScheduledTask
  <2>u. UNCHANGED <<clock, online, thread, op, worker, claim, given, faults>>
    BY <1>4 DEF deleteScheduledTask
  <2>s. \A v \in Workers : Session(v)' = Session(v)
    BY <2>u DEF Session, Current
  <2>type. SchedulerTypeOK'
    BY <1>a, <1>b, <2>1, <2>u DEF SchedulerTypeOK
  <2>rows. \A u \in Tasks : RowMoves(u)
    BY <1>b, <1>t, <2>1, <2>u DEF RowMoves
  <2>work. \A v \in Workers : ReadMoves(v)
    BY <2>u DEF ReadMoves
  <2>read. ReadWasDue'
    BY <1>a, <1>b, <2>1, <2>u, <2>rows, <2>work, ReadKept
  <2>past. ClaimIsPast'
    BY <1>a, <1>b, <2>1, <2>u, <2>rows, PastKept
  <2>once. OccurrenceOnce'
    BY <1>a, <2>u DEF OccurrenceOnce
  <2>current. ClaimedIsCurrent'
    BY <1>a, <2>u DEF ClaimedIsCurrent
  <2>known. OperationsKnown'
    <3>1. ASSUME NEW v \in Workers, worker'[v].pc = "mark"
         PROVE  op'[worker'[v].op].thread = Session(v)' /\ op'[worker'[v].op].state # "none"
      BY <3>1, <1>k, <1>o, <2>1, <2>u, <2>s
    <3>2. ASSUME NEW v \in Workers, worker'[v].pc = "mark", NEW u \in Tasks
         PROVE  task'[u].op # worker'[v].op
      BY <3>2, <1>k, <1>l, <1>o, <2>1, <2>u, <2>s
    <3>3. ASSUME NEW v \in Workers, NEW x \in Workers, worker'[v].pc = "mark",
                worker'[x].pc = "mark", worker'[x].op = worker'[v].op
         PROVE  x = v
      BY <3>3, <1>k, <1>l, <2>1, <2>u, <2>s
    <3>4. ASSUME NEW u \in Tasks, task'[u].op # None
         PROVE  op'[task'[u].op].state # "none"
      BY <3>4, <1>t, <1>m, <2>1, <2>u, <2>s
    <3>5. ASSUME NEW p \in Ops
         PROVE  /\ op'[p].state # "none" => op'[p].thread \in Threads
                /\ op'[p].state = "ended" => op'[p].outcome # "none"
                /\ op'[p].state = "queued" => op'[p].outcome = "none"
      BY <3>5, <1>p, <1>q, <2>1, <2>u, <2>s
    <3> QED BY <3>1, <3>2, <3>3, <3>4, <3>5 DEF OperationsKnown
  <2>turn. SessionHasItsTurn'
    BY <1>a, <2>u DEF SessionHasItsTurn
  <2>holder. OneHolder'
    BY <1>a, <2>u DEF OneHolder, Session, Current
  <2>shown. ShownRunIsItsOwn'
    <3>1. ASSUME NEW u \in Tasks, task'[u].exists, task'[u].op # None, ~op'[task'[u].op].unseen,
                 op'[task'[u].op].thread = task'[u].thread, task'[u].thread \notin given'
          PROVE  \/ task'[u].status = op'[task'[u].op].outcome
                 \/ op'[task'[u].op].outcome = "none" /\ task'[u].status \in {"queued", "running"}
      BY <3>1, <1>t, <1>p, <1>q, <1>v, <1>o, <2>1, <2>u
    <3> QED BY <3>1 DEF ShownRunIsItsOwn
  <2> QED BY <2>type, <2>read, <2>past, <2>once, <2>current, <2>known, <2>turn, <2>holder,
             <2>shown DEF SchedulerInv
<1>5. ASSUME NEW h \in Threads, archive(h) PROVE SchedulerInv'
  <2>1. /\ thread[h] \in {Free, Archived} /\ thread'[h] \in {Free, Archived}
        /\ thread' \in [Threads -> Ops \cup {Free, Stuck, Archived}]
        /\ \A g \in Threads : g # h => thread'[g] = thread[g]
    BY <1>5, <1>b DEF archive
  <2>u. UNCHANGED <<clock, online, task, op, worker, claim, given, faults>>
    BY <1>5 DEF archive
  <2>s. \A v \in Workers : Session(v)' = Session(v)
    BY <2>u DEF Session, Current
  <2>type. SchedulerTypeOK'
    BY <1>a, <1>b, <2>1, <2>u DEF SchedulerTypeOK
  <2>read. ReadWasDue'
    BY <1>a, <2>u DEF ReadWasDue
  <2>past. ClaimIsPast'
    BY <1>a, <2>u DEF ClaimIsPast
  <2>once. OccurrenceOnce'
    BY <1>a, <2>u DEF OccurrenceOnce
  <2>current. ClaimedIsCurrent'
    BY <1>a, <2>u DEF ClaimedIsCurrent
  <2>known. OperationsKnown'
    BY <1>a, <2>u DEF OperationsKnown, Session, Current
  <2>turn. SessionHasItsTurn'
    <3>1. ASSUME NEW g \in Threads, thread'[g] \in Ops
         PROVE  /\ op'[thread'[g]].thread = g
                /\ op'[thread'[g]].state \notin {"none", "ended"}
      BY <3>1, <1>o, <1>j, <2>1, <2>u
    <3>2. ASSUME NEW p \in Ops, op'[p].state \notin {"none", "ended"}, op'[p].thread \notin given'
         PROVE  thread'[op'[p].thread] = p /\ op'[p].outcome = "none"
      BY <3>2, <1>i, <1>o, <1>p, <1>q, <2>1, <2>u
    <3> QED BY <3>1, <3>2 DEF SessionHasItsTurn
  <2>holder. OneHolder'
    <3>1. ASSUME NEW v \in Workers, worker'[v].pc = "queue", Session(v)' \notin given'
         PROVE  thread'[Session(v)'] = Stuck
      BY <3>1, <1>h, <1>o, <2>1, <2>u, <2>s, <1>i, <1>j
    <3>2. ASSUME NEW v \in Workers, NEW x \in Workers, worker'[v].pc = "queue",
                worker'[x].pc = "queue", Session(v)' \notin given', Session(x)' = Session(v)'
         PROVE  x = v
      BY <3>2, <1>h, <1>x, <1>o, <2>1, <2>u, <2>s, <1>i, <1>j
    <3>3. ASSUME NEW g \in Threads, thread'[g] = Stuck, faults' = 0
         PROVE  \E v \in Workers : worker'[v].pc = "queue" /\ Session(v)' = g
      BY <3>3, <1>h, <1>o, <1>r, <2>1, <2>u, <2>s, <1>i, <1>j
    <3> QED BY <3>1, <3>2, <3>3 DEF OneHolder
  <2>shown. ShownRunIsItsOwn'
    BY <1>a, <2>u DEF ShownRunIsItsOwn
  <2> QED BY <2>type, <2>read, <2>past, <2>once, <2>current, <2>known, <2>turn, <2>holder,
             <2>shown DEF SchedulerInv
<1>6. ASSUME NEW h \in Threads, NEW o \in Ops, handleTurn(h, o) PROVE SchedulerInv'
  <2>1. /\ op' \in [Ops -> OpRows]
        /\ op'[o].thread = h /\ op'[o].state = "queued" /\ op'[o].outcome = "none"
        /\ \A p \in Ops : p # o => op'[p] = op[p]
    BY <1>6, <1>b, Requested DEF handleTurn
  <2>2. /\ op[o].state \in {"none", "ended"}
        /\ \A u \in Tasks : task[u].op # o
        /\ \A g \in Threads : thread[g] # o
        /\ \A v \in Workers : worker[v].op # o
    BY <1>6 DEF handleTurn, Fresh, Unused
  <2>3. /\ thread[h] = Free /\ thread' \in [Threads -> Ops \cup {Free, Stuck, Archived}]
        /\ thread'[h] = o /\ \A g \in Threads : g # h => thread'[g] = thread[g]
    BY <1>6, <1>b DEF handleTurn
  <2>u. UNCHANGED <<clock, online, task, worker, claim, given, faults>>
    BY <1>6 DEF handleTurn
  <2>s. \A v \in Workers : Session(v)' = Session(v)
    BY <2>u DEF Session, Current
  <2>type. SchedulerTypeOK'
    BY <1>a, <1>b, <2>1, <2>2, <2>3, <2>u DEF SchedulerTypeOK
  <2>read. ReadWasDue'
    BY <1>a, <2>u DEF ReadWasDue
  <2>past. ClaimIsPast'
    BY <1>a, <2>u DEF ClaimIsPast
  <2>once. OccurrenceOnce'
    BY <1>a, <2>u DEF OccurrenceOnce
  <2>current. ClaimedIsCurrent'
    BY <1>a, <2>u DEF ClaimedIsCurrent
  <2>known. OperationsKnown'
    <3>1. ASSUME NEW v \in Workers, worker'[v].pc = "mark"
         PROVE  op'[worker'[v].op].thread = Session(v)' /\ op'[worker'[v].op].state # "none"
      BY <3>1, <1>k, <1>o, <2>1, <2>2, <2>u, <2>s
    <3>2. ASSUME NEW v \in Workers, worker'[v].pc = "mark", NEW u \in Tasks
         PROVE  task'[u].op # worker'[v].op
      BY <3>2, <1>k, <1>l, <1>o, <2>1, <2>2, <2>u, <2>s
    <3>3. ASSUME NEW v \in Workers, NEW x \in Workers, worker'[v].pc = "mark",
                worker'[x].pc = "mark", worker'[x].op = worker'[v].op
         PROVE  x = v
      BY <3>3, <1>k, <1>l, <2>1, <2>2, <2>u, <2>s
    <3>4. ASSUME NEW u \in Tasks, task'[u].op # None
         PROVE  op'[task'[u].op].state # "none"
      BY <3>4, <1>t, <1>m, <2>1, <2>2, <2>u, <2>s
    <3>5. ASSUME NEW p \in Ops
         PROVE  /\ op'[p].state # "none" => op'[p].thread \in Threads
                /\ op'[p].state = "ended" => op'[p].outcome # "none"
                /\ op'[p].state = "queued" => op'[p].outcome = "none"
      BY <3>5, <1>p, <1>q, <2>1, <2>2, <2>u, <2>s
    <3> QED BY <3>1, <3>2, <3>3, <3>4, <3>5 DEF OperationsKnown
  <2>turn. SessionHasItsTurn'
    <3>1. ASSUME NEW g \in Threads, thread'[g] \in Ops
         PROVE  /\ op'[thread'[g]].thread = g
                /\ op'[thread'[g]].state \notin {"none", "ended"}
      BY <3>1, <1>o, <1>j, <2>1, <2>2, <2>3, <2>u
    <3>2. ASSUME NEW p \in Ops, op'[p].state \notin {"none", "ended"}, op'[p].thread \notin given'
         PROVE  thread'[op'[p].thread] = p /\ op'[p].outcome = "none"
      BY <3>2, <1>i, <1>o, <1>p, <1>q, <2>1, <2>2, <2>3, <2>u
    <3> QED BY <3>1, <3>2 DEF SessionHasItsTurn
  <2>holder. OneHolder'
    <3>1. ASSUME NEW v \in Workers, worker'[v].pc = "queue", Session(v)' \notin given'
         PROVE  thread'[Session(v)'] = Stuck
      BY <3>1, <1>h, <1>o, <2>1, <2>2, <2>3, <2>u, <2>s, <1>i, <1>j
    <3>2. ASSUME NEW v \in Workers, NEW x \in Workers, worker'[v].pc = "queue",
                worker'[x].pc = "queue", Session(v)' \notin given', Session(x)' = Session(v)'
         PROVE  x = v
      BY <3>2, <1>h, <1>x, <1>o, <2>1, <2>2, <2>3, <2>u, <2>s, <1>i, <1>j
    <3>3. ASSUME NEW g \in Threads, thread'[g] = Stuck, faults' = 0
         PROVE  \E v \in Workers : worker'[v].pc = "queue" /\ Session(v)' = g
      BY <3>3, <1>h, <1>o, <1>r, <2>1, <2>2, <2>3, <2>u, <2>s, <1>i, <1>j
    <3> QED BY <3>1, <3>2, <3>3 DEF OneHolder
  <2>shown. ShownRunIsItsOwn'
    <3>1. ASSUME NEW u \in Tasks, task'[u].exists, task'[u].op # None, ~op'[task'[u].op].unseen,
                 op'[task'[u].op].thread = task'[u].thread, task'[u].thread \notin given'
          PROVE  \/ task'[u].status = op'[task'[u].op].outcome
                 \/ op'[task'[u].op].outcome = "none" /\ task'[u].status \in {"queued", "running"}
      BY <3>1, <1>t, <1>p, <1>q, <1>v, <1>o, <2>1, <2>2, <2>u
    <3> QED BY <3>1 DEF ShownRunIsItsOwn
  <2> QED BY <2>type, <2>read, <2>past, <2>once, <2>current, <2>known, <2>turn, <2>holder,
             <2>shown DEF SchedulerInv
<1>7. ASSUME connection PROVE SchedulerInv'
  <2>1. online' \in BOOLEAN
    BY <1>7, <1>b DEF connection
  <2>u. UNCHANGED <<clock, task, thread, op, worker, claim, given, faults>>
    BY <1>7 DEF connection
  <2>s. \A v \in Workers : Session(v)' = Session(v)
    BY <2>u DEF Session, Current
  <2>type. SchedulerTypeOK'
    BY <1>a, <1>b, <2>1, <2>u DEF SchedulerTypeOK
  <2>read. ReadWasDue'
    BY <1>a, <2>u DEF ReadWasDue
  <2>past. ClaimIsPast'
    BY <1>a, <2>u DEF ClaimIsPast
  <2>once. OccurrenceOnce'
    BY <1>a, <2>u DEF OccurrenceOnce
  <2>current. ClaimedIsCurrent'
    BY <1>a, <2>u DEF ClaimedIsCurrent
  <2>known. OperationsKnown'
    BY <1>a, <2>u DEF OperationsKnown, Session, Current
  <2>turn. SessionHasItsTurn'
    BY <1>a, <2>u DEF SessionHasItsTurn
  <2>holder. OneHolder'
    BY <1>a, <2>u DEF OneHolder, Session, Current
  <2>shown. ShownRunIsItsOwn'
    BY <1>a, <2>u DEF ShownRunIsItsOwn
  <2> QED BY <2>type, <2>read, <2>past, <2>once, <2>current, <2>known, <2>turn, <2>holder,
             <2>shown DEF SchedulerInv
<1>8. ASSUME NEW w \in Workers, tick(w) PROVE SchedulerInv'
  <2>0. PICK y \in Runners :
        /\ worker' = [worker EXCEPT ![w] = y]
        /\ y.pc = "claim" /\ y.list # <<>> /\ y.now = clock
        /\ \A i \in DOMAIN y.list :
             \E t \in Tasks : y.list[i] = Copy(t) /\ task[t].exists /\ task[t].next <= clock
    BY <1>8, <1>a, Ticks
  <2>1. /\ worker' \in [Workers -> Runners] /\ worker'[w] = y
        /\ \A v \in Workers : v # w => worker'[v] = worker[v]
    BY <1>b, <2>0
  <2>2. \A i \in DOMAIN y.list :
          \E t \in Tasks : /\ y.list[i].id = t /\ y.list[i].next = task[t].next
                          /\ y.list[i].spec = task[t].spec
                          /\ y.list[i].version = task[t].version /\ task[t].next <= clock
    BY <1>a, <2>0, Reads
  <2>3. worker[w].pc = "idle"
    BY <1>8 DEF tick
  <2>u. UNCHANGED <<clock, online, task, thread, op, claim, given, faults>>
    BY <1>8 DEF tick
  <2>s. /\ worker'[w].pc = "claim"
        /\ \A v \in Workers : v # w => (worker'[v] = worker[v] /\ Session(v)' = Session(v))
    BY <2>0, <2>1 DEF Session, Current
  <2>type. SchedulerTypeOK'
    BY <1>a, <1>b, <2>0, <2>1, <2>2, <2>3, <2>u DEF SchedulerTypeOK
  <2>rows. \A u \in Tasks : RowMoves(u)
    BY <1>b, <1>t, <2>u DEF RowMoves
  <2>work. \A v \in Workers : ReadMoves(v)
    BY <2>0, <2>1, <2>2, <2>3, <2>u, <2>s DEF ReadMoves
  <2>read. ReadWasDue'
    BY <1>a, <1>b, <2>1, <2>2, <2>3, <2>u, <2>rows, <2>work, ReadKept
  <2>past. ClaimIsPast'
    BY <1>a, <2>u DEF ClaimIsPast
  <2>once. OccurrenceOnce'
    BY <1>a, <2>u DEF OccurrenceOnce
  <2>current. ClaimedIsCurrent'
    BY <1>a, <2>u DEF ClaimedIsCurrent
  <2>known. OperationsKnown'
    <3>1. ASSUME NEW v \in Workers, worker'[v].pc = "mark"
         PROVE  op'[worker'[v].op].thread = Session(v)' /\ op'[worker'[v].op].state # "none"
      BY <3>1, <1>k, <1>o, <2>0, <2>1, <2>2, <2>3, <2>u, <2>s
    <3>2. ASSUME NEW v \in Workers, worker'[v].pc = "mark", NEW u \in Tasks
         PROVE  task'[u].op # worker'[v].op
      BY <3>2, <1>k, <1>l, <1>o, <2>0, <2>1, <2>2, <2>3, <2>u, <2>s
    <3>3. ASSUME NEW v \in Workers, NEW x \in Workers, worker'[v].pc = "mark",
                worker'[x].pc = "mark", worker'[x].op = worker'[v].op
         PROVE  x = v
      BY <3>3, <1>k, <1>l, <2>0, <2>1, <2>2, <2>3, <2>u, <2>s
    <3>4. ASSUME NEW u \in Tasks, task'[u].op # None
         PROVE  op'[task'[u].op].state # "none"
      BY <3>4, <1>t, <1>m, <2>0, <2>1, <2>2, <2>3, <2>u, <2>s
    <3>5. ASSUME NEW p \in Ops
         PROVE  /\ op'[p].state # "none" => op'[p].thread \in Threads
                /\ op'[p].state = "ended" => op'[p].outcome # "none"
                /\ op'[p].state = "queued" => op'[p].outcome = "none"
      BY <3>5, <1>p, <1>q, <2>0, <2>1, <2>2, <2>3, <2>u, <2>s
    <3> QED BY <3>1, <3>2, <3>3, <3>4, <3>5 DEF OperationsKnown
  <2>turn. SessionHasItsTurn'
    BY <1>a, <2>u DEF SessionHasItsTurn
  <2>holder. OneHolder'
    <3>1. ASSUME NEW v \in Workers, worker'[v].pc = "queue", Session(v)' \notin given'
         PROVE  thread'[Session(v)'] = Stuck
      BY <3>1, <1>h, <1>o, <2>0, <2>1, <2>3, <2>u, <2>s
    <3>2. ASSUME NEW v \in Workers, NEW x \in Workers, worker'[v].pc = "queue",
                worker'[x].pc = "queue", Session(v)' \notin given', Session(x)' = Session(v)'
         PROVE  x = v
      BY <3>2, <1>h, <1>x, <1>o, <2>0, <2>1, <2>3, <2>u, <2>s
    <3>3. ASSUME NEW g \in Threads, thread'[g] = Stuck, faults' = 0
         PROVE  \E v \in Workers : worker'[v].pc = "queue" /\ Session(v)' = g
      <4>1. PICK v \in Workers : worker[v].pc = "queue" /\ Session(v) = g
        BY <1>r, <2>0, <2>1, <2>3, <2>u, <2>s, <3>3
      <4> QED BY <2>0, <2>1, <2>3, <2>u, <2>s, <4>1
    <3> QED BY <3>1, <3>2, <3>3 DEF OneHolder
  <2>shown. ShownRunIsItsOwn'
    BY <1>a, <2>u DEF ShownRunIsItsOwn
  <2> QED BY <2>type, <2>read, <2>past, <2>once, <2>current, <2>known, <2>turn, <2>holder,
             <2>shown DEF SchedulerInv
<1>9. ASSUME NEW w \in Workers, claimNext(w),
             Current(w).broken \/ Next(Current(w).spec, worker[w].now) = None
      PROVE  SchedulerInv'
  <2>k. /\ 1 \in DOMAIN worker[w].list /\ Current(w) = worker[w].list[1]
        /\ Current(w) \in Copies /\ Session(w) \in Threads /\ Current(w).id \in Tasks
        /\ Current(w).spec \in Specs /\ Current(w).next \in Nat
        /\ Current(w).version \in Nat
        /\ worker[w].now \in Nat /\ worker[w].list \in Seq(Copies)
    BY <1>9, <1>b, <1>w, AtTask DEF claimNext, At
  <2>p. PICK t \in Tasks : t = Current(w).id
    BY <2>k
  <2>0. worker[w].pc = "claim"
    BY <1>9 DEF claimNext, At
  <2>r. "failed" \in Statuses /\ None \in Ops \cup {None}
    BY DEF Statuses, Outcomes
  <2>r1. task' = MarkScheduledTaskRun(t, "failed", None)
    BY <1>9, <2>p DEF claimNext
  <2>m. /\ task' \in [Tasks -> TaskRows]
        /\ task'[t].exists = task[t].exists /\ task'[t].next = task[t].next
        /\ task'[t].spec = task[t].spec /\ task'[t].thread = task[t].thread
        /\ task'[t].version = task[t].version
        /\ task[t].exists => task'[t].status = "failed" /\ task'[t].op = None
        /\ ~task[t].exists => task'[t] = task[t]
        /\ \A u \in Tasks : u # t => task'[u] = task[u]
    BY <1>b, <2>r, <2>r1, Recorded
  <2>l. Leaves(w)
    <3>1. worker' = [worker EXCEPT ![w] = Advance(w)]
      BY <1>9 DEF claimNext
    <3>2. worker[w].list # <<>>
      BY <2>k
    <3> QED BY <1>b, <3>1, <3>2, LeavesTask
  <2>u. UNCHANGED <<clock, online, thread, op, claim, given, faults>>
    BY <1>9 DEF claimNext
  <2>s. /\ worker'[w].pc \notin {"enqueue", "queue", "mark"}
        /\ \A v \in Workers : v # w => (worker'[v] = worker[v] /\ Session(v)' = Session(v))
    BY <2>l DEF Session, Current, Leaves
  <2>type. SchedulerTypeOK'
    <3>1. \A v \in Workers : /\ worker'[v].pc # "idle" => worker'[v].list # <<>>
                             /\ worker'[v].pc = "mark" => worker'[v].op \in Ops
      BY <1>w, <1>k, <2>k, <2>l, <2>s DEF Leaves
    <3>2. worker' \in [Workers -> Runners]
      BY <2>l DEF Leaves
    <3>3. \A u \in Tasks : IF task'[u].exists
                         THEN task'[u].spec \in Specs /\ task'[u].thread \in Threads
                         ELSE task'[u].op = None
      BY <1>y, <1>t, <2>p, <2>m
    <3> QED BY <1>b, <1>y, <2>m, <2>u, <3>1, <3>2, <3>3 DEF SchedulerTypeOK
  <2>rows. \A u \in Tasks : RowMoves(u)
    BY <1>b, <1>t, <2>p, <2>0, <2>m, <2>u DEF RowMoves
  <2>work. \A v \in Workers : ReadMoves(v)
    BY <2>p, <2>0, <2>m, <2>l, <2>u, <2>s DEF ReadMoves, Leaves
  <2>read. ReadWasDue'
    BY <1>a, <1>b, <2>m, <2>l, <2>u, <2>rows, <2>work, ReadKept
  <2>past. ClaimIsPast'
    BY <1>a, <1>b, <2>m, <2>u, <2>rows, PastKept
  <2>once. OccurrenceOnce'
    BY <1>a, <2>u DEF OccurrenceOnce
  <2>current. ClaimedIsCurrent'
    BY <1>a, <2>u DEF ClaimedIsCurrent
  <2>known. OperationsKnown'
    <3>1. ASSUME NEW v \in Workers, worker'[v].pc = "mark"
         PROVE  op'[worker'[v].op].thread = Session(v)' /\ op'[worker'[v].op].state # "none"
      BY <3>1, <1>k, <1>o, <2>p, <2>0, <2>m, <2>u, <2>s
    <3>2. ASSUME NEW v \in Workers, worker'[v].pc = "mark", NEW u \in Tasks
         PROVE  task'[u].op # worker'[v].op
      BY <3>2, <1>k, <1>l, <1>o, <2>p, <2>0, <2>m, <2>u, <2>s
    <3>3. ASSUME NEW v \in Workers, NEW x \in Workers, worker'[v].pc = "mark",
                worker'[x].pc = "mark", worker'[x].op = worker'[v].op
         PROVE  x = v
      BY <3>3, <1>k, <1>l, <2>p, <2>0, <2>m, <2>u, <2>s
    <3>4. ASSUME NEW u \in Tasks, task'[u].op # None
         PROVE  op'[task'[u].op].state # "none"
      BY <3>4, <1>t, <1>m, <2>p, <2>0, <2>m, <2>u, <2>s
    <3>5. ASSUME NEW p \in Ops
         PROVE  /\ op'[p].state # "none" => op'[p].thread \in Threads
                /\ op'[p].state = "ended" => op'[p].outcome # "none"
                /\ op'[p].state = "queued" => op'[p].outcome = "none"
      BY <3>5, <1>p, <1>q, <2>p, <2>0, <2>m, <2>u, <2>s
    <3> QED BY <3>1, <3>2, <3>3, <3>4, <3>5 DEF OperationsKnown
  <2>turn. SessionHasItsTurn'
    BY <1>a, <2>u DEF SessionHasItsTurn
  <2>holder. OneHolder'
    <3>1. ASSUME NEW v \in Workers, worker'[v].pc = "queue", Session(v)' \notin given'
         PROVE  thread'[Session(v)'] = Stuck
      BY <3>1, <1>h, <1>o, <2>p, <2>0, <2>m, <2>u, <2>s
    <3>2. ASSUME NEW v \in Workers, NEW x \in Workers, worker'[v].pc = "queue",
                worker'[x].pc = "queue", Session(v)' \notin given', Session(x)' = Session(v)'
         PROVE  x = v
      BY <3>2, <1>h, <1>x, <1>o, <2>p, <2>0, <2>m, <2>u, <2>s
    <3>3. ASSUME NEW g \in Threads, thread'[g] = Stuck, faults' = 0
         PROVE  \E v \in Workers : worker'[v].pc = "queue" /\ Session(v)' = g
      <4>1. PICK v \in Workers : worker[v].pc = "queue" /\ Session(v) = g
        BY <1>r, <2>p, <2>0, <2>m, <2>u, <2>s, <3>3
      <4> QED BY <2>p, <2>0, <2>m, <2>u, <2>s, <4>1
    <3> QED BY <3>1, <3>2, <3>3 DEF OneHolder
  <2>shown. ShownRunIsItsOwn'
    <3>1. ASSUME NEW u \in Tasks, task'[u].exists, task'[u].op # None, ~op'[task'[u].op].unseen,
                 op'[task'[u].op].thread = task'[u].thread, task'[u].thread \notin given'
          PROVE  \/ task'[u].status = op'[task'[u].op].outcome
                 \/ op'[task'[u].op].outcome = "none" /\ task'[u].status \in {"queued", "running"}
      BY <3>1, <1>t, <1>p, <1>q, <1>v, <1>o, <2>p, <2>m, <2>u
    <3> QED BY <3>1 DEF ShownRunIsItsOwn
  <2> QED BY <2>type, <2>read, <2>past, <2>once, <2>current, <2>known, <2>turn, <2>holder,
             <2>shown DEF SchedulerInv
<1>10. ASSUME NEW w \in Workers, claimNext(w), ~Current(w).broken, Next(Current(w).spec, worker[w].now) # None,
             ClaimScheduledTask(Current(w))
      PROVE  SchedulerInv'
  <2>k. /\ 1 \in DOMAIN worker[w].list /\ Current(w) = worker[w].list[1]
        /\ Current(w) \in Copies /\ Session(w) \in Threads /\ Current(w).id \in Tasks
        /\ Current(w).spec \in Specs /\ Current(w).next \in Nat
        /\ Current(w).version \in Nat
        /\ worker[w].now \in Nat /\ worker[w].list \in Seq(Copies)
    BY <1>10, <1>b, <1>w, AtTask DEF claimNext, At
  <2>p. PICK t \in Tasks : t = Current(w).id
    BY <2>k
  <2>0. worker[w].pc = "claim"
    BY <1>10 DEF claimNext, At
  <2>n. PICK n : n = Next(Current(w).spec, worker[w].now)
    OBVIOUS
  <2>1. n \in Nat /\ n > worker[w].now
    BY <1>10, <2>k, <2>n, NextIsFirst
  <2>2. /\ task[t].exists /\ task[t].next <= Current(w).next /\ Current(w).next <= worker[w].now
        /\ Current(w).version = task[t].version /\ worker[w].now <= clock
    <3>1. task[t].exists /\ task[t].next <= Current(w).next
      BY <1>10, <2>p DEF ClaimScheduledTask
    <3>2. /\ Current(w).next <= worker[w].now /\ worker[w].now <= clock
          /\ \/ Current(w).version = task[t].version \/ ~task[t].exists
             \/ task[t].next > worker[w].now
      BY <1>a, <2>k, <2>p DEF ReadWasDue
    <3> QED BY <1>t, <2>k, <3>1, <3>2
  <2>3. /\ task' \in [Tasks -> TaskRows] /\ task'[t].next = n /\ task'[t].exists = task[t].exists
        /\ task'[t].spec = task[t].spec /\ task'[t].thread = task[t].thread
        /\ task'[t].version = task[t].version /\ task'[t].op = task[t].op
        /\ task'[t].status = task[t].status
        /\ \A u \in Tasks : u # t => task'[u] = task[u]
    <3>1. task' = [task EXCEPT ![t].next = n]
      BY <1>10, <2>p, <2>n DEF claimNext
    <3> QED BY <1>b, <2>1, <3>1, Claimed
  <2>4. /\ claim' \in [Tasks -> Claims] /\ claim'[t].at = Current(w).next
        /\ ~claim'[t].again /\ ~claim'[t].stale
        /\ \A u \in Tasks : u # t => claim'[u] = claim[u]
    <3>1. PICK c : c = [at |-> Current(w).next, again |-> FALSE, stale |-> FALSE]
      OBVIOUS
    <3>2. c \in Claims /\ c.at = Current(w).next /\ ~c.again /\ ~c.stale
      BY <2>k, <3>1 DEF Claims
    <3>3. /\ claim[t].at < task[t].next /\ ~claim[t].again /\ ~claim[t].stale
          /\ claim[t].at \in Int
      BY <1>a, <1>b, <2>2 DEF ClaimIsPast, OccurrenceOnce, ClaimedIsCurrent, Claims
    <3>4. ~(Current(w).next <= claim[t].at)
      BY <1>t, <2>k, <2>2, <3>3
    <3>5. /\ (claim[t].again \/ Current(w).next <= claim[t].at) = FALSE
          /\ (claim[t].stale \/ Current(w).version # task[t].version) = FALSE
      BY <2>2, <3>3, <3>4
    <3>6. claim' = [claim EXCEPT ![t] = c]
      BY <1>10, <2>p, <3>1, <3>5 DEF claimNext
    <3> QED BY <1>b, <3>2, <3>6
  <2>l. Proceeds(w, "enqueue")
    <3>1. worker' = [worker EXCEPT ![w].pc = "enqueue"]
      BY <1>10 DEF claimNext
    <3> QED BY <1>b, <3>1, NextStatement
  <2>u. UNCHANGED <<clock, online, thread, op, given, faults>>
    BY <1>10 DEF claimNext
  <2>s. /\ worker'[w].pc = "enqueue" /\ \A v \in Workers : Session(v)' = Session(v)
        /\ \A v \in Workers : v # w => worker'[v] = worker[v]
    BY <2>l DEF Session, Current, Proceeds
  <2>type. SchedulerTypeOK'
    <3>1. \A v \in Workers : /\ worker'[v].pc # "idle" => worker'[v].list # <<>>
                             /\ worker'[v].pc = "mark" => worker'[v].op \in Ops
      BY <1>w, <1>k, <2>k, <2>l, <2>s DEF Proceeds
    <3>2. worker' \in [Workers -> Runners]
      BY <2>l DEF Proceeds
    <3>3. \A u \in Tasks : IF task'[u].exists
                         THEN task'[u].spec \in Specs /\ task'[u].thread \in Threads
                         ELSE task'[u].op = None
      BY <1>y, <1>t, <2>p, <2>3
    <3> QED BY <1>b, <1>y, <2>1, <2>2, <2>3, <2>4, <2>u, <3>1, <3>2, <3>3 DEF SchedulerTypeOK
  <2>rows. \A u \in Tasks : RowMoves(u)
    BY <1>b, <1>t, <2>k, <2>1, <2>2, <2>3 DEF RowMoves
  <2>work. \A v \in Workers : ReadMoves(v)
    BY <2>p, <2>0, <2>n, <2>1, <2>2, <2>3, <2>4, <2>l, <2>u, <2>s DEF ReadMoves, Proceeds
  <2>read. ReadWasDue'
    BY <1>a, <1>b, <2>1, <2>2, <2>3, <2>l, <2>u, <2>rows, <2>work, ReadKept
  <2>past. ClaimIsPast'
    <3>1. \A u \in Tasks : /\ claim[u].at \in Int /\ task'[u].next \in Nat /\ claim[u].at <= clock
                           /\ task[u].exists => claim[u].at < task[u].next
      BY <1>a, <1>b, <2>3, RowTypes DEF Claims, ClaimIsPast
    <3> QED BY <1>b, <2>k, <2>1, <2>2, <2>3, <2>4, <2>u, <3>1 DEF ClaimIsPast
  <2>once. OccurrenceOnce'
    BY <1>a, <1>b, <2>p, <2>0, <2>4 DEF OccurrenceOnce
  <2>current. ClaimedIsCurrent'
    BY <1>a, <1>b, <2>p, <2>0, <2>4 DEF ClaimedIsCurrent
  <2>known. OperationsKnown'
    <3>1. ASSUME NEW v \in Workers, worker'[v].pc = "mark"
         PROVE  op'[worker'[v].op].thread = Session(v)' /\ op'[worker'[v].op].state # "none"
      BY <3>1, <1>k, <1>o, <2>p, <2>0, <2>n, <2>1, <2>2, <2>3, <2>4, <2>u, <2>s
    <3>2. ASSUME NEW v \in Workers, worker'[v].pc = "mark", NEW u \in Tasks
         PROVE  task'[u].op # worker'[v].op
      BY <3>2, <1>k, <1>l, <1>o, <2>p, <2>0, <2>n, <2>1, <2>2, <2>3, <2>4, <2>u, <2>s
    <3>3. ASSUME NEW v \in Workers, NEW x \in Workers, worker'[v].pc = "mark",
                worker'[x].pc = "mark", worker'[x].op = worker'[v].op
         PROVE  x = v
      BY <3>3, <1>k, <1>l, <2>p, <2>0, <2>n, <2>1, <2>2, <2>3, <2>4, <2>u, <2>s
    <3>4. ASSUME NEW u \in Tasks, task'[u].op # None
         PROVE  op'[task'[u].op].state # "none"
      BY <3>4, <1>t, <1>m, <2>p, <2>0, <2>n, <2>1, <2>2, <2>3, <2>4, <2>u, <2>s
    <3>5. ASSUME NEW p \in Ops
         PROVE  /\ op'[p].state # "none" => op'[p].thread \in Threads
                /\ op'[p].state = "ended" => op'[p].outcome # "none"
                /\ op'[p].state = "queued" => op'[p].outcome = "none"
      BY <3>5, <1>p, <1>q, <2>p, <2>0, <2>n, <2>1, <2>2, <2>3, <2>4, <2>u, <2>s
    <3> QED BY <3>1, <3>2, <3>3, <3>4, <3>5 DEF OperationsKnown
  <2>turn. SessionHasItsTurn'
    BY <1>a, <2>u DEF SessionHasItsTurn
  <2>holder. OneHolder'
    <3>1. ASSUME NEW v \in Workers, worker'[v].pc = "queue", Session(v)' \notin given'
         PROVE  thread'[Session(v)'] = Stuck
      BY <3>1, <1>h, <1>o, <2>p, <2>0, <2>n, <2>1, <2>2, <2>3, <2>4, <2>u, <2>s
    <3>2. ASSUME NEW v \in Workers, NEW x \in Workers, worker'[v].pc = "queue",
                worker'[x].pc = "queue", Session(v)' \notin given', Session(x)' = Session(v)'
         PROVE  x = v
      BY <3>2, <1>h, <1>x, <1>o, <2>p, <2>0, <2>n, <2>1, <2>2, <2>3, <2>4, <2>u, <2>s
    <3>3. ASSUME NEW g \in Threads, thread'[g] = Stuck, faults' = 0
         PROVE  \E v \in Workers : worker'[v].pc = "queue" /\ Session(v)' = g
      <4>1. PICK v \in Workers : worker[v].pc = "queue" /\ Session(v) = g
        BY <1>r, <2>p, <2>0, <2>n, <2>1, <2>2, <2>3, <2>4, <2>u, <2>s, <3>3
      <4> QED BY <2>p, <2>0, <2>n, <2>1, <2>2, <2>3, <2>4, <2>u, <2>s, <4>1
    <3> QED BY <3>1, <3>2, <3>3 DEF OneHolder
  <2>shown. ShownRunIsItsOwn'
    <3>1. ASSUME NEW u \in Tasks, task'[u].exists, task'[u].op # None, ~op'[task'[u].op].unseen,
                 op'[task'[u].op].thread = task'[u].thread, task'[u].thread \notin given'
          PROVE  \/ task'[u].status = op'[task'[u].op].outcome
                 \/ op'[task'[u].op].outcome = "none" /\ task'[u].status \in {"queued", "running"}
      BY <3>1, <1>t, <1>p, <1>q, <1>v, <1>o, <2>p, <2>2, <2>3, <2>u
    <3> QED BY <3>1 DEF ShownRunIsItsOwn
  <2> QED BY <2>type, <2>read, <2>past, <2>once, <2>current, <2>known, <2>turn, <2>holder,
             <2>shown DEF SchedulerInv
<1>11. ASSUME NEW w \in Workers, claimNext(w), ~Current(w).broken, Next(Current(w).spec, worker[w].now) # None,
             ~ClaimScheduledTask(Current(w))
      PROVE  SchedulerInv'
  <2>k. /\ 1 \in DOMAIN worker[w].list /\ Current(w) = worker[w].list[1]
        /\ Current(w) \in Copies /\ Session(w) \in Threads /\ Current(w).id \in Tasks
        /\ Current(w).spec \in Specs /\ Current(w).next \in Nat
        /\ Current(w).version \in Nat
        /\ worker[w].now \in Nat /\ worker[w].list \in Seq(Copies)
    BY <1>11, <1>b, <1>w, AtTask DEF claimNext, At
  <2>0. worker[w].pc = "claim"
    BY <1>11 DEF claimNext, At
  <2>l. Leaves(w)
    <3>1. worker' = [worker EXCEPT ![w] = Advance(w)]
      BY <1>11 DEF claimNext
    <3>2. worker[w].list # <<>>
      BY <2>k
    <3> QED BY <1>b, <3>1, <3>2, LeavesTask
  <2>u. UNCHANGED <<clock, online, task, thread, op, claim, given, faults>>
    BY <1>11 DEF claimNext
  <2>s. /\ worker'[w].pc \notin {"enqueue", "queue", "mark"}
        /\ \A v \in Workers : v # w => (worker'[v] = worker[v] /\ Session(v)' = Session(v))
    BY <2>l DEF Session, Current, Leaves
  <2>type. SchedulerTypeOK'
    <3>1. \A v \in Workers : /\ worker'[v].pc # "idle" => worker'[v].list # <<>>
                             /\ worker'[v].pc = "mark" => worker'[v].op \in Ops
      BY <1>w, <1>k, <2>k, <2>l, <2>s DEF Leaves
    <3>2. worker' \in [Workers -> Runners]
      BY <2>l DEF Leaves
    <3> QED BY <1>b, <1>y, <2>u, <3>1, <3>2 DEF SchedulerTypeOK
  <2>rows. \A u \in Tasks : RowMoves(u)
    BY <1>b, <1>t, <2>u DEF RowMoves
  <2>work. \A v \in Workers : ReadMoves(v)
    BY <2>0, <2>l, <2>u, <2>s DEF ReadMoves, Leaves
  <2>read. ReadWasDue'
    BY <1>a, <1>b, <2>l, <2>u, <2>rows, <2>work, ReadKept
  <2>past. ClaimIsPast'
    BY <1>a, <2>u DEF ClaimIsPast
  <2>once. OccurrenceOnce'
    BY <1>a, <2>u DEF OccurrenceOnce
  <2>current. ClaimedIsCurrent'
    BY <1>a, <2>u DEF ClaimedIsCurrent
  <2>known. OperationsKnown'
    <3>1. ASSUME NEW v \in Workers, worker'[v].pc = "mark"
         PROVE  op'[worker'[v].op].thread = Session(v)' /\ op'[worker'[v].op].state # "none"
      BY <3>1, <1>k, <1>o, <2>0, <2>u, <2>s
    <3>2. ASSUME NEW v \in Workers, worker'[v].pc = "mark", NEW u \in Tasks
         PROVE  task'[u].op # worker'[v].op
      BY <3>2, <1>k, <1>l, <1>o, <2>0, <2>u, <2>s
    <3>3. ASSUME NEW v \in Workers, NEW x \in Workers, worker'[v].pc = "mark",
                worker'[x].pc = "mark", worker'[x].op = worker'[v].op
         PROVE  x = v
      BY <3>3, <1>k, <1>l, <2>0, <2>u, <2>s
    <3>4. ASSUME NEW u \in Tasks, task'[u].op # None
         PROVE  op'[task'[u].op].state # "none"
      BY <3>4, <1>t, <1>m, <2>0, <2>u, <2>s
    <3>5. ASSUME NEW p \in Ops
         PROVE  /\ op'[p].state # "none" => op'[p].thread \in Threads
                /\ op'[p].state = "ended" => op'[p].outcome # "none"
                /\ op'[p].state = "queued" => op'[p].outcome = "none"
      BY <3>5, <1>p, <1>q, <2>0, <2>u, <2>s
    <3> QED BY <3>1, <3>2, <3>3, <3>4, <3>5 DEF OperationsKnown
  <2>turn. SessionHasItsTurn'
    BY <1>a, <2>u DEF SessionHasItsTurn
  <2>holder. OneHolder'
    <3>1. ASSUME NEW v \in Workers, worker'[v].pc = "queue", Session(v)' \notin given'
         PROVE  thread'[Session(v)'] = Stuck
      BY <3>1, <1>h, <1>o, <2>0, <2>u, <2>s
    <3>2. ASSUME NEW v \in Workers, NEW x \in Workers, worker'[v].pc = "queue",
                worker'[x].pc = "queue", Session(v)' \notin given', Session(x)' = Session(v)'
         PROVE  x = v
      BY <3>2, <1>h, <1>x, <1>o, <2>0, <2>u, <2>s
    <3>3. ASSUME NEW g \in Threads, thread'[g] = Stuck, faults' = 0
         PROVE  \E v \in Workers : worker'[v].pc = "queue" /\ Session(v)' = g
      <4>1. PICK v \in Workers : worker[v].pc = "queue" /\ Session(v) = g
        BY <1>r, <2>0, <2>u, <2>s, <3>3
      <4> QED BY <2>0, <2>u, <2>s, <4>1
    <3> QED BY <3>1, <3>2, <3>3 DEF OneHolder
  <2>shown. ShownRunIsItsOwn'
    BY <1>a, <2>u DEF ShownRunIsItsOwn
  <2> QED BY <2>type, <2>read, <2>past, <2>once, <2>current, <2>known, <2>turn, <2>holder,
             <2>shown DEF SchedulerInv
<1>12. ASSUME NEW w \in Workers, claimNext(w) PROVE SchedulerInv'
  BY <1>12, <1>9, <1>10, <1>11
<1>13. ASSUME NEW w \in Workers, skip(w) PROVE SchedulerInv'
  <2>k. /\ 1 \in DOMAIN worker[w].list /\ Current(w) = worker[w].list[1]
        /\ Current(w) \in Copies /\ Session(w) \in Threads /\ Current(w).id \in Tasks
        /\ Current(w).spec \in Specs /\ Current(w).next \in Nat
        /\ Current(w).version \in Nat
        /\ worker[w].now \in Nat /\ worker[w].list \in Seq(Copies)
    BY <1>13, <1>b, <1>w, AtTask DEF skip, At
  <2>p. PICK t \in Tasks : t = Current(w).id
    BY <2>k
  <2>0. worker[w].pc = "enqueue"
    BY <1>13 DEF skip, At
  <2>r. "skipped" \in Statuses /\ None \in Ops \cup {None}
    BY DEF Statuses, Outcomes
  <2>r1. task' = MarkScheduledTaskRun(t, "skipped", None)
    BY <1>13, <2>p DEF skip, Give
  <2>m. /\ task' \in [Tasks -> TaskRows]
        /\ task'[t].exists = task[t].exists /\ task'[t].next = task[t].next
        /\ task'[t].spec = task[t].spec /\ task'[t].thread = task[t].thread
        /\ task'[t].version = task[t].version
        /\ task[t].exists => task'[t].status = "skipped" /\ task'[t].op = None
        /\ ~task[t].exists => task'[t] = task[t]
        /\ \A u \in Tasks : u # t => task'[u] = task[u]
    BY <1>b, <2>r, <2>r1, Recorded
  <2>l. Leaves(w)
    <3>1. worker' = [worker EXCEPT ![w] = Advance(w)]
      BY <1>13 DEF skip, Give
    <3>2. worker[w].list # <<>>
      BY <2>k
    <3> QED BY <1>b, <3>1, <3>2, LeavesTask
  <2>u. UNCHANGED <<clock, online, thread, op, claim, given, faults>>
    BY <1>13 DEF skip, Give
  <2>s. /\ worker'[w].pc \notin {"enqueue", "queue", "mark"}
        /\ \A v \in Workers : v # w => (worker'[v] = worker[v] /\ Session(v)' = Session(v))
    BY <2>l DEF Session, Current, Leaves
  <2>type. SchedulerTypeOK'
    <3>1. \A v \in Workers : /\ worker'[v].pc # "idle" => worker'[v].list # <<>>
                             /\ worker'[v].pc = "mark" => worker'[v].op \in Ops
      BY <1>w, <1>k, <2>k, <2>l, <2>s DEF Leaves
    <3>2. worker' \in [Workers -> Runners]
      BY <2>l DEF Leaves
    <3>3. \A u \in Tasks : IF task'[u].exists
                         THEN task'[u].spec \in Specs /\ task'[u].thread \in Threads
                         ELSE task'[u].op = None
      BY <1>y, <1>t, <2>p, <2>m
    <3> QED BY <1>b, <1>y, <2>m, <2>u, <3>1, <3>2, <3>3 DEF SchedulerTypeOK
  <2>rows. \A u \in Tasks : RowMoves(u)
    BY <1>b, <1>t, <2>p, <2>m, <2>u DEF RowMoves
  <2>work. \A v \in Workers : ReadMoves(v)
    BY <2>p, <2>0, <2>m, <2>l, <2>u, <2>s DEF ReadMoves, Leaves
  <2>read. ReadWasDue'
    BY <1>a, <1>b, <2>m, <2>l, <2>u, <2>rows, <2>work, ReadKept
  <2>past. ClaimIsPast'
    BY <1>a, <1>b, <2>m, <2>u, <2>rows, PastKept
  <2>once. OccurrenceOnce'
    BY <1>a, <2>u DEF OccurrenceOnce
  <2>current. ClaimedIsCurrent'
    BY <1>a, <2>u DEF ClaimedIsCurrent
  <2>known. OperationsKnown'
    <3>1. ASSUME NEW v \in Workers, worker'[v].pc = "mark"
         PROVE  op'[worker'[v].op].thread = Session(v)' /\ op'[worker'[v].op].state # "none"
      BY <3>1, <1>k, <1>o, <2>p, <2>0, <2>m, <2>u, <2>s
    <3>2. ASSUME NEW v \in Workers, worker'[v].pc = "mark", NEW u \in Tasks
         PROVE  task'[u].op # worker'[v].op
      BY <3>2, <1>k, <1>l, <1>o, <2>p, <2>0, <2>m, <2>u, <2>s
    <3>3. ASSUME NEW v \in Workers, NEW x \in Workers, worker'[v].pc = "mark",
                worker'[x].pc = "mark", worker'[x].op = worker'[v].op
         PROVE  x = v
      BY <3>3, <1>k, <1>l, <2>p, <2>0, <2>m, <2>u, <2>s
    <3>4. ASSUME NEW u \in Tasks, task'[u].op # None
         PROVE  op'[task'[u].op].state # "none"
      BY <3>4, <1>t, <1>m, <2>p, <2>0, <2>m, <2>u, <2>s
    <3>5. ASSUME NEW p \in Ops
         PROVE  /\ op'[p].state # "none" => op'[p].thread \in Threads
                /\ op'[p].state = "ended" => op'[p].outcome # "none"
                /\ op'[p].state = "queued" => op'[p].outcome = "none"
      BY <3>5, <1>p, <1>q, <2>p, <2>0, <2>m, <2>u, <2>s
    <3> QED BY <3>1, <3>2, <3>3, <3>4, <3>5 DEF OperationsKnown
  <2>turn. SessionHasItsTurn'
    BY <1>a, <2>u DEF SessionHasItsTurn
  <2>holder. OneHolder'
    <3>1. ASSUME NEW v \in Workers, worker'[v].pc = "queue", Session(v)' \notin given'
         PROVE  thread'[Session(v)'] = Stuck
      BY <3>1, <1>h, <1>o, <2>p, <2>0, <2>m, <2>u, <2>s
    <3>2. ASSUME NEW v \in Workers, NEW x \in Workers, worker'[v].pc = "queue",
                worker'[x].pc = "queue", Session(v)' \notin given', Session(x)' = Session(v)'
         PROVE  x = v
      BY <3>2, <1>h, <1>x, <1>o, <2>p, <2>0, <2>m, <2>u, <2>s
    <3>3. ASSUME NEW g \in Threads, thread'[g] = Stuck, faults' = 0
         PROVE  \E v \in Workers : worker'[v].pc = "queue" /\ Session(v)' = g
      <4>1. PICK v \in Workers : worker[v].pc = "queue" /\ Session(v) = g
        BY <1>r, <2>p, <2>0, <2>m, <2>u, <2>s, <3>3
      <4> QED BY <2>p, <2>0, <2>m, <2>u, <2>s, <4>1
    <3> QED BY <3>1, <3>2, <3>3 DEF OneHolder
  <2>shown. ShownRunIsItsOwn'
    <3>1. ASSUME NEW u \in Tasks, task'[u].exists, task'[u].op # None, ~op'[task'[u].op].unseen,
                 op'[task'[u].op].thread = task'[u].thread, task'[u].thread \notin given'
          PROVE  \/ task'[u].status = op'[task'[u].op].outcome
                 \/ op'[task'[u].op].outcome = "none" /\ task'[u].status \in {"queued", "running"}
      BY <3>1, <1>t, <1>p, <1>q, <1>v, <1>o, <2>p, <2>m, <2>u
    <3> QED BY <3>1 DEF ShownRunIsItsOwn
  <2> QED BY <2>type, <2>read, <2>past, <2>once, <2>current, <2>known, <2>turn, <2>holder,
             <2>shown DEF SchedulerInv
<1>14. ASSUME NEW w \in Workers, ClaimThreadForTurn(w) PROVE SchedulerInv'
  <2>k. /\ 1 \in DOMAIN worker[w].list /\ Current(w) = worker[w].list[1]
        /\ Current(w) \in Copies /\ Session(w) \in Threads /\ Current(w).id \in Tasks
        /\ Current(w).spec \in Specs /\ Current(w).next \in Nat
        /\ Current(w).version \in Nat
        /\ worker[w].now \in Nat /\ worker[w].list \in Seq(Copies)
    BY <1>14, <1>b, <1>w, AtTask DEF ClaimThreadForTurn, At
  <2>h. PICK h \in Threads : h = Session(w)
    BY <2>k
  <2>0. worker[w].pc = "enqueue"
    BY <1>14 DEF ClaimThreadForTurn, At
  <2>1. thread[h] = Free
    BY <1>14, <2>h DEF ClaimThreadForTurn
  <2>2. /\ thread' \in [Threads -> Ops \cup {Free, Stuck, Archived}]
        /\ thread'[h] = Stuck /\ \A g \in Threads : g # h => thread'[g] = thread[g]
    BY <1>14, <1>b, <2>h DEF ClaimThreadForTurn
  <2>l. Proceeds(w, "queue")
    BY <1>14, <1>b, NextStatement DEF ClaimThreadForTurn
  <2>u. UNCHANGED <<clock, online, task, op, claim, given, faults>>
    BY <1>14 DEF ClaimThreadForTurn
  <2>s. /\ worker'[w].pc = "queue" /\ \A v \in Workers : Session(v)' = Session(v)
        /\ \A v \in Workers : v # w => worker'[v] = worker[v]
    BY <2>l DEF Session, Current, Proceeds
  <2>type. SchedulerTypeOK'
    <3>1. \A v \in Workers : /\ worker'[v].pc # "idle" => worker'[v].list # <<>>
                             /\ worker'[v].pc = "mark" => worker'[v].op \in Ops
      BY <1>w, <1>k, <2>k, <2>l, <2>s DEF Proceeds
    <3>2. worker' \in [Workers -> Runners]
      BY <2>l DEF Proceeds
    <3> QED BY <1>b, <1>y, <2>1, <2>2, <2>u, <3>1, <3>2 DEF SchedulerTypeOK
  <2>rows. \A u \in Tasks : RowMoves(u)
    BY <1>b, <1>t, <2>u DEF RowMoves
  <2>work. \A v \in Workers : ReadMoves(v)
    BY <2>h, <2>0, <2>l, <2>u, <2>s DEF ReadMoves, Proceeds
  <2>read. ReadWasDue'
    BY <1>a, <1>b, <2>l, <2>u, <2>rows, <2>work, ReadKept
  <2>past. ClaimIsPast'
    BY <1>a, <2>u DEF ClaimIsPast
  <2>once. OccurrenceOnce'
    BY <1>a, <2>u DEF OccurrenceOnce
  <2>current. ClaimedIsCurrent'
    BY <1>a, <2>u DEF ClaimedIsCurrent
  <2>known. OperationsKnown'
    <3>1. ASSUME NEW v \in Workers, worker'[v].pc = "mark"
         PROVE  op'[worker'[v].op].thread = Session(v)' /\ op'[worker'[v].op].state # "none"
      BY <3>1, <1>k, <1>o, <2>h, <2>0, <2>u, <2>s
    <3>2. ASSUME NEW v \in Workers, worker'[v].pc = "mark", NEW u \in Tasks
         PROVE  task'[u].op # worker'[v].op
      BY <3>2, <1>k, <1>l, <1>o, <2>h, <2>0, <2>u, <2>s
    <3>3. ASSUME NEW v \in Workers, NEW x \in Workers, worker'[v].pc = "mark",
                worker'[x].pc = "mark", worker'[x].op = worker'[v].op
         PROVE  x = v
      BY <3>3, <1>k, <1>l, <2>h, <2>0, <2>u, <2>s
    <3>4. ASSUME NEW u \in Tasks, task'[u].op # None
         PROVE  op'[task'[u].op].state # "none"
      BY <3>4, <1>t, <1>m, <2>h, <2>0, <2>u, <2>s
    <3>5. ASSUME NEW p \in Ops
         PROVE  /\ op'[p].state # "none" => op'[p].thread \in Threads
                /\ op'[p].state = "ended" => op'[p].outcome # "none"
                /\ op'[p].state = "queued" => op'[p].outcome = "none"
      BY <3>5, <1>p, <1>q, <2>h, <2>0, <2>u, <2>s
    <3> QED BY <3>1, <3>2, <3>3, <3>4, <3>5 DEF OperationsKnown
  <2>turn. SessionHasItsTurn'
    <3>1. ASSUME NEW g \in Threads, thread'[g] \in Ops
         PROVE  /\ op'[thread'[g]].thread = g
                /\ op'[thread'[g]].state \notin {"none", "ended"}
      BY <3>1, <1>o, <1>j, <2>h, <2>1, <2>2, <2>u, <1>h, <2>0
    <3>2. ASSUME NEW p \in Ops, op'[p].state \notin {"none", "ended"}, op'[p].thread \notin given'
         PROVE  thread'[op'[p].thread] = p /\ op'[p].outcome = "none"
      BY <3>2, <1>i, <1>o, <1>p, <1>q, <2>h, <2>1, <2>2, <2>u, <1>h, <2>0
    <3> QED BY <3>1, <3>2 DEF SessionHasItsTurn
  <2>holder. OneHolder'
    <3>1. ASSUME NEW v \in Workers, worker'[v].pc = "queue", Session(v)' \notin given'
         PROVE  thread'[Session(v)'] = Stuck
      BY <3>1, <1>h, <1>o, <2>h, <2>0, <2>1, <2>2, <2>u, <2>s, <1>i, <1>j, <1>x
    <3>2. ASSUME NEW v \in Workers, NEW x \in Workers, worker'[v].pc = "queue",
                worker'[x].pc = "queue", Session(v)' \notin given', Session(x)' = Session(v)'
         PROVE  x = v
      BY <3>2, <1>h, <1>x, <1>o, <2>h, <2>0, <2>1, <2>2, <2>u, <2>s, <1>i, <1>j
    <3>3. ASSUME NEW g \in Threads, thread'[g] = Stuck, faults' = 0
         PROVE  \E v \in Workers : worker'[v].pc = "queue" /\ Session(v)' = g
      <4>1. CASE g = h
        BY <2>h, <2>s, <4>1
      <4>2. CASE g # h
        <5>1. PICK v \in Workers : worker[v].pc = "queue" /\ Session(v) = g
          BY <1>r, <2>2, <2>u, <4>2, <3>3
        <5> QED BY <2>0, <2>s, <5>1
      <4> QED BY <4>1, <4>2
    <3> QED BY <3>1, <3>2, <3>3 DEF OneHolder
  <2>shown. ShownRunIsItsOwn'
    BY <1>a, <2>u DEF ShownRunIsItsOwn
  <2> QED BY <2>type, <2>read, <2>past, <2>once, <2>current, <2>known, <2>turn, <2>holder,
             <2>shown DEF SchedulerInv
<1>15. ASSUME NEW w \in Workers, recordRun(w) PROVE SchedulerInv'
  <2>k. /\ 1 \in DOMAIN worker[w].list /\ Current(w) = worker[w].list[1]
        /\ Current(w) \in Copies /\ Session(w) \in Threads /\ Current(w).id \in Tasks
        /\ Current(w).spec \in Specs /\ Current(w).next \in Nat
        /\ Current(w).version \in Nat
        /\ worker[w].now \in Nat /\ worker[w].list \in Seq(Copies)
    BY <1>15, <1>b, <1>w, AtTask DEF recordRun, At
  <2>p. PICK t \in Tasks : t = Current(w).id
    BY <2>k
  <2>h. PICK h \in Threads : h = Session(w)
    BY <2>k
  <2>0. worker[w].pc = "mark"
    BY <1>15 DEF recordRun, At
  <2>o. PICK o \in Ops : o = worker[w].op
    BY <1>k, <2>0
  <2>1. op[o].thread = h /\ op[o].state # "none"
    BY <1>k, <2>0, <2>h, <2>o
  <2>2a. \A v \in Workers : v # w /\ worker[v].pc = "mark" => worker[v].op # o
    BY <1>l, <2>0, <2>o
  <2>2b. \A u \in Tasks : task[u].op # o
    BY <1>l, <2>0, <2>o
  <2>r. "queued" \in Statuses /\ o \in Ops \cup {None}
    BY DEF Statuses, Outcomes
  <2>r1. task' = MarkScheduledTaskRun(t, "queued", o)
    BY <1>15, <2>p, <2>o DEF recordRun, Give
  <2>m. /\ task' \in [Tasks -> TaskRows]
        /\ task'[t].exists = task[t].exists /\ task'[t].next = task[t].next
        /\ task'[t].spec = task[t].spec /\ task'[t].thread = task[t].thread
        /\ task'[t].version = task[t].version
        /\ task[t].exists => task'[t].status = "queued" /\ task'[t].op = o
        /\ ~task[t].exists => task'[t] = task[t]
        /\ \A u \in Tasks : u # t => task'[u] = task[u]
    BY <1>b, <2>r, <2>r1, Recorded
  <2>b. PICK b \in BOOLEAN : b = (op[o].unseen \/ op[o].outcome # "none")
    OBVIOUS
  <2>2. /\ op' \in [Ops -> OpRows]
        /\ op'[o].unseen = b /\ op'[o].state = op[o].state
        /\ op'[o].thread = op[o].thread /\ op'[o].outcome = op[o].outcome
        /\ \A p \in Ops : p # o => op'[p] = op[p]
    <3>1. op' = [op EXCEPT ![o].unseen = b]
      BY <1>15, <2>o, <2>b DEF recordRun
    <3> QED BY <1>b, <3>1, NotSeen
  <2>l. Leaves(w)
    <3>1. worker' = [worker EXCEPT ![w] = Advance(w)]
      BY <1>15 DEF recordRun, Give
    <3>2. worker[w].list # <<>>
      BY <2>k
    <3> QED BY <1>b, <3>1, <3>2, LeavesTask
  <2>u. UNCHANGED <<clock, online, thread, claim, given, faults>>
    BY <1>15 DEF recordRun, Give
  <2>s. /\ worker'[w].pc \notin {"enqueue", "queue", "mark"}
        /\ \A v \in Workers : v # w => (worker'[v] = worker[v] /\ Session(v)' = Session(v))
    BY <2>l DEF Session, Current, Leaves
  <2>type. SchedulerTypeOK'
    <3>1. \A v \in Workers : /\ worker'[v].pc # "idle" => worker'[v].list # <<>>
                             /\ worker'[v].pc = "mark" => worker'[v].op \in Ops
      BY <1>w, <1>k, <2>k, <2>l, <2>s DEF Leaves
    <3>2. worker' \in [Workers -> Runners]
      BY <2>l DEF Leaves
    <3>3. \A u \in Tasks : IF task'[u].exists
                         THEN task'[u].spec \in Specs /\ task'[u].thread \in Threads
                         ELSE task'[u].op = None
      BY <1>y, <1>t, <2>p, <2>m
    <3> QED BY <1>b, <1>y, <2>1, <2>m, <2>2, <2>u, <3>1, <3>2, <3>3 DEF SchedulerTypeOK
  <2>rows. \A u \in Tasks : RowMoves(u)
    BY <1>b, <1>t, <2>p, <2>h, <2>2b, <2>m, <2>u DEF RowMoves
  <2>work. \A v \in Workers : ReadMoves(v)
    BY <2>p, <2>h, <2>0, <2>o, <2>2a, <2>2b, <2>m, <2>l, <2>u, <2>s DEF ReadMoves, Leaves
  <2>read. ReadWasDue'
    BY <1>a, <1>b, <2>m, <2>l, <2>u, <2>rows, <2>work, ReadKept
  <2>past. ClaimIsPast'
    BY <1>a, <1>b, <2>m, <2>u, <2>rows, PastKept
  <2>once. OccurrenceOnce'
    BY <1>a, <2>u DEF OccurrenceOnce
  <2>current. ClaimedIsCurrent'
    BY <1>a, <2>u DEF ClaimedIsCurrent
  <2>known. OperationsKnown'
    <3>1. ASSUME NEW v \in Workers, worker'[v].pc = "mark"
         PROVE  op'[worker'[v].op].thread = Session(v)' /\ op'[worker'[v].op].state # "none"
      BY <3>1, <1>k, <1>o, <2>p, <2>h, <2>0, <2>o, <2>1, <2>2a, <2>2b, <2>m, <2>2, <2>u, <2>s
    <3>2. ASSUME NEW v \in Workers, worker'[v].pc = "mark", NEW u \in Tasks
         PROVE  task'[u].op # worker'[v].op
      BY <3>2, <1>k, <1>l, <1>o, <2>p, <2>h, <2>0, <2>o, <2>1, <2>2a, <2>2b, <2>m, <2>2, <2>u,
         <2>s
    <3>3. ASSUME NEW v \in Workers, NEW x \in Workers, worker'[v].pc = "mark",
                worker'[x].pc = "mark", worker'[x].op = worker'[v].op
         PROVE  x = v
      BY <3>3, <1>k, <1>l, <2>p, <2>h, <2>0, <2>o, <2>1, <2>2a, <2>2b, <2>m, <2>2, <2>u, <2>s
    <3>4. ASSUME NEW u \in Tasks, task'[u].op # None
         PROVE  op'[task'[u].op].state # "none"
      BY <3>4, <1>t, <1>m, <2>p, <2>h, <2>0, <2>o, <2>1, <2>2a, <2>2b, <2>m, <2>2, <2>u, <2>s
    <3>5. ASSUME NEW p \in Ops
         PROVE  /\ op'[p].state # "none" => op'[p].thread \in Threads
                /\ op'[p].state = "ended" => op'[p].outcome # "none"
                /\ op'[p].state = "queued" => op'[p].outcome = "none"
      BY <3>5, <1>p, <1>q, <2>p, <2>h, <2>0, <2>o, <2>1, <2>2a, <2>2b, <2>m, <2>2, <2>u, <2>s
    <3> QED BY <3>1, <3>2, <3>3, <3>4, <3>5 DEF OperationsKnown
  <2>turn. SessionHasItsTurn'
    <3>1. ASSUME NEW g \in Threads, thread'[g] \in Ops
         PROVE  /\ op'[thread'[g]].thread = g
                /\ op'[thread'[g]].state \notin {"none", "ended"}
      BY <3>1, <1>o, <1>j, <2>p, <2>h, <2>o, <2>1, <2>2a, <2>2b, <2>m, <2>2, <2>u, <1>h, <2>0
    <3>2. ASSUME NEW p \in Ops, op'[p].state \notin {"none", "ended"}, op'[p].thread \notin given'
         PROVE  thread'[op'[p].thread] = p /\ op'[p].outcome = "none"
      BY <3>2, <1>i, <1>o, <1>p, <1>q, <2>p, <2>h, <2>o, <2>1, <2>2a, <2>2b, <2>m, <2>2, <2>u,
         <1>h, <2>0
    <3> QED BY <3>1, <3>2 DEF SessionHasItsTurn
  <2>holder. OneHolder'
    <3>1. ASSUME NEW v \in Workers, worker'[v].pc = "queue", Session(v)' \notin given'
         PROVE  thread'[Session(v)'] = Stuck
      BY <3>1, <1>h, <1>o, <2>p, <2>h, <2>0, <2>o, <2>1, <2>2a, <2>m, <2>2, <2>u, <2>s
    <3>2. ASSUME NEW v \in Workers, NEW x \in Workers, worker'[v].pc = "queue",
                worker'[x].pc = "queue", Session(v)' \notin given', Session(x)' = Session(v)'
         PROVE  x = v
      BY <3>2, <1>h, <1>x, <1>o, <2>p, <2>h, <2>0, <2>o, <2>1, <2>2a, <2>m, <2>2, <2>u, <2>s
    <3>3. ASSUME NEW g \in Threads, thread'[g] = Stuck, faults' = 0
         PROVE  \E v \in Workers : worker'[v].pc = "queue" /\ Session(v)' = g
      <4>1. PICK v \in Workers : worker[v].pc = "queue" /\ Session(v) = g
        BY <1>r, <2>p, <2>h, <2>0, <2>o, <2>1, <2>2a, <2>m, <2>2, <2>u, <2>s, <3>3
      <4> QED BY <2>p, <2>h, <2>0, <2>o, <2>1, <2>2a, <2>m, <2>2, <2>u, <2>s, <4>1
    <3> QED BY <3>1, <3>2, <3>3 DEF OneHolder
  <2>shown. ShownRunIsItsOwn'
    <3>1. ASSUME NEW u \in Tasks, task'[u].exists, task'[u].op # None, ~op'[task'[u].op].unseen,
                 op'[task'[u].op].thread = task'[u].thread, task'[u].thread \notin given'
          PROVE  \/ task'[u].status = op'[task'[u].op].outcome
                 \/ op'[task'[u].op].outcome = "none" /\ task'[u].status \in {"queued", "running"}
      <4>1. CASE u = t
        <5>1. task[u].exists /\ task'[u].op = o /\ task'[u].status = "queued"
          BY <2>m, <3>1, <4>1
        <5>2. op'[o].outcome = "none"
          BY <1>o, <2>b, <2>2, <3>1, <5>1
        <5> QED BY <5>1, <5>2
      <4>2. CASE u # t
        <5>1. task'[u] = task[u]
          BY <2>m, <4>2
        <5>2. PICK p \in Ops : p = task[u].op
          BY <1>t, <3>1, <5>1
        <5>3. p # o /\ op'[p] = op[p]
          BY <2>2, <2>2b, <5>2
        <5> QED BY <1>v, <2>u, <3>1, <5>1, <5>2, <5>3
      <4> QED BY <4>1, <4>2
    <3> QED BY <3>1 DEF ShownRunIsItsOwn
  <2> QED BY <2>type, <2>read, <2>past, <2>once, <2>current, <2>known, <2>turn, <2>holder,
             <2>shown DEF SchedulerInv
<1>16. ASSUME NEW w \in Workers, NEW o \in Ops, QueueResourceOperation(w, o) PROVE SchedulerInv'
  <2>k. /\ 1 \in DOMAIN worker[w].list /\ Current(w) = worker[w].list[1]
        /\ Current(w) \in Copies /\ Session(w) \in Threads /\ Current(w).id \in Tasks
        /\ Current(w).spec \in Specs /\ Current(w).next \in Nat
        /\ Current(w).version \in Nat
        /\ worker[w].now \in Nat /\ worker[w].list \in Seq(Copies)
    BY <1>16, <1>b, <1>w, AtTask DEF QueueResourceOperation, At
  <2>h. PICK h \in Threads : h = Session(w)
    BY <2>k
  <2>0. worker[w].pc = "queue"
    BY <1>16 DEF QueueResourceOperation, At
  <2>q. op' = Queued(o, h)
    BY <1>16, <2>h DEF QueueResourceOperation
  <2>1. /\ op' \in [Ops -> OpRows]
        /\ op'[o].thread = h /\ op'[o].state = "queued" /\ op'[o].outcome = "none"
        /\ \A p \in Ops : p # o => op'[p] = op[p]
    BY <1>b, <2>q, Requested
  <2>2. /\ op[o].state \in {"none", "ended"}
        /\ \A u \in Tasks : task[u].op # o
        /\ \A g \in Threads : thread[g] # o
        /\ \A v \in Workers : worker[v].op # o
    BY <1>16 DEF QueueResourceOperation, Fresh, Unused
  <2>3. /\ thread' \in [Threads -> Ops \cup {Free, Stuck, Archived}]
        /\ thread'[h] = o /\ \A g \in Threads : g # h => thread'[g] = thread[g]
    BY <1>16, <1>b, <2>h DEF QueueResourceOperation
  <2>l. Proceeds(w, "mark") /\ worker'[w].op = o
    BY <1>16, <1>b, HasQueued DEF QueueResourceOperation
  <2>u. UNCHANGED <<clock, online, task, claim, given, faults>>
    BY <1>16 DEF QueueResourceOperation
  <2>s. /\ worker'[w].pc = "mark" /\ \A v \in Workers : Session(v)' = Session(v)
        /\ \A v \in Workers : v # w => worker'[v] = worker[v]
    BY <2>l DEF Session, Current, Proceeds
  <2>type. SchedulerTypeOK'
    <3>1. \A v \in Workers : /\ worker'[v].pc # "idle" => worker'[v].list # <<>>
                             /\ worker'[v].pc = "mark" => worker'[v].op \in Ops
      BY <1>w, <1>k, <2>k, <2>l, <2>s DEF Proceeds
    <3>2. worker' \in [Workers -> Runners]
      BY <2>l DEF Proceeds
    <3> QED BY <1>b, <1>y, <2>1, <2>2, <2>3, <2>u, <3>1, <3>2 DEF SchedulerTypeOK
  <2>rows. \A u \in Tasks : RowMoves(u)
    BY <1>b, <1>t, <2>u DEF RowMoves
  <2>work. \A v \in Workers : ReadMoves(v)
    BY <2>h, <2>0, <2>2, <2>l, <2>u, <2>s DEF ReadMoves, Proceeds
  <2>read. ReadWasDue'
    BY <1>a, <1>b, <2>2, <2>l, <2>u, <2>rows, <2>work, ReadKept
  <2>past. ClaimIsPast'
    BY <1>a, <2>u DEF ClaimIsPast
  <2>once. OccurrenceOnce'
    BY <1>a, <2>u DEF OccurrenceOnce
  <2>current. ClaimedIsCurrent'
    BY <1>a, <2>u DEF ClaimedIsCurrent
  <2>known. OperationsKnown'
    <3>1. ASSUME NEW v \in Workers, worker'[v].pc = "mark"
         PROVE  op'[worker'[v].op].thread = Session(v)' /\ op'[worker'[v].op].state # "none"
      BY <3>1, <1>k, <1>o, <2>h, <2>0, <2>1, <2>2, <2>l, <2>u, <2>s
    <3>2. ASSUME NEW v \in Workers, worker'[v].pc = "mark", NEW u \in Tasks
         PROVE  task'[u].op # worker'[v].op
      BY <3>2, <1>k, <1>l, <1>o, <2>h, <2>0, <2>1, <2>2, <2>l, <2>u, <2>s
    <3>3. ASSUME NEW v \in Workers, NEW x \in Workers, worker'[v].pc = "mark",
                worker'[x].pc = "mark", worker'[x].op = worker'[v].op
         PROVE  x = v
      BY <3>3, <1>k, <1>l, <2>h, <2>0, <2>1, <2>2, <2>l, <2>u, <2>s
    <3>4. ASSUME NEW u \in Tasks, task'[u].op # None
         PROVE  op'[task'[u].op].state # "none"
      BY <3>4, <1>t, <1>m, <2>h, <2>0, <2>1, <2>2, <2>l, <2>u, <2>s
    <3>5. ASSUME NEW p \in Ops
         PROVE  /\ op'[p].state # "none" => op'[p].thread \in Threads
                /\ op'[p].state = "ended" => op'[p].outcome # "none"
                /\ op'[p].state = "queued" => op'[p].outcome = "none"
      BY <3>5, <1>p, <1>q, <2>h, <2>0, <2>1, <2>2, <2>l, <2>u, <2>s
    <3> QED BY <3>1, <3>2, <3>3, <3>4, <3>5 DEF OperationsKnown
  <2>turn. SessionHasItsTurn'
    <3>1. ASSUME NEW g \in Threads, thread'[g] \in Ops
         PROVE  /\ op'[thread'[g]].thread = g
                /\ op'[thread'[g]].state \notin {"none", "ended"}
      BY <3>1, <1>o, <1>j, <2>h, <2>1, <2>2, <2>3, <2>l, <2>u, <1>h, <2>0
    <3>2. ASSUME NEW p \in Ops, op'[p].state \notin {"none", "ended"}, op'[p].thread \notin given'
         PROVE  thread'[op'[p].thread] = p /\ op'[p].outcome = "none"
      BY <3>2, <1>i, <1>o, <1>p, <1>q, <2>h, <2>1, <2>2, <2>3, <2>l, <2>u, <1>h, <2>0
    <3> QED BY <3>1, <3>2 DEF SessionHasItsTurn
  <2>holder. OneHolder'
    <3>1. ASSUME NEW v \in Workers, worker'[v].pc = "queue", Session(v)' \notin given'
         PROVE  thread'[Session(v)'] = Stuck
      BY <3>1, <1>h, <1>o, <2>h, <2>0, <2>1, <2>2, <2>3, <2>l, <2>u, <2>s, <1>i, <1>j, <1>x
    <3>2. ASSUME NEW v \in Workers, NEW x \in Workers, worker'[v].pc = "queue",
                worker'[x].pc = "queue", Session(v)' \notin given', Session(x)' = Session(v)'
         PROVE  x = v
      BY <3>2, <1>h, <1>x, <1>o, <2>h, <2>0, <2>1, <2>2, <2>3, <2>l, <2>u, <2>s, <1>i, <1>j
    <3>3. ASSUME NEW g \in Threads, thread'[g] = Stuck, faults' = 0
         PROVE  \E v \in Workers : worker'[v].pc = "queue" /\ Session(v)' = g
      <4>1. g # h /\ thread[g] = Stuck
        BY <1>o, <2>3, <3>3
      <4>2. PICK v \in Workers : worker[v].pc = "queue" /\ Session(v) = g
        BY <1>r, <2>u, <4>1, <3>3
      <4>3. v # w
        BY <2>h, <4>1, <4>2
      <4> QED BY <2>s, <4>2, <4>3
    <3> QED BY <3>1, <3>2, <3>3 DEF OneHolder
  <2>shown. ShownRunIsItsOwn'
    <3>1. ASSUME NEW u \in Tasks, task'[u].exists, task'[u].op # None, ~op'[task'[u].op].unseen,
                 op'[task'[u].op].thread = task'[u].thread, task'[u].thread \notin given'
          PROVE  \/ task'[u].status = op'[task'[u].op].outcome
                 \/ op'[task'[u].op].outcome = "none" /\ task'[u].status \in {"queued", "running"}
      BY <3>1, <1>t, <1>p, <1>q, <1>v, <1>o, <2>h, <2>1, <2>2, <2>l, <2>u
    <3> QED BY <3>1 DEF ShownRunIsItsOwn
  <2> QED BY <2>type, <2>read, <2>past, <2>once, <2>current, <2>known, <2>turn, <2>holder,
             <2>shown DEF SchedulerInv
<1>17. ASSUME NEW w \in Workers, NEW o \in Ops, QueueCliTurn(w, o) PROVE SchedulerInv'
  <2>k. /\ 1 \in DOMAIN worker[w].list /\ Current(w) = worker[w].list[1]
        /\ Current(w) \in Copies /\ Session(w) \in Threads /\ Current(w).id \in Tasks
        /\ Current(w).spec \in Specs /\ Current(w).next \in Nat
        /\ Current(w).version \in Nat
        /\ worker[w].now \in Nat /\ worker[w].list \in Seq(Copies)
    BY <1>17, <1>b, <1>w, AtTask DEF QueueCliTurn, At
  <2>h. PICK h \in Threads : h = Session(w)
    BY <2>k
  <2>0. worker[w].pc = "enqueue"
    BY <1>17 DEF QueueCliTurn, At
  <2>f. thread[h] = Free
    BY <1>17, <2>h DEF QueueCliTurn
  <2>q. op' = Queued(o, h)
    BY <1>17, <2>h DEF QueueCliTurn
  <2>1. /\ op' \in [Ops -> OpRows]
        /\ op'[o].thread = h /\ op'[o].state = "queued" /\ op'[o].outcome = "none"
        /\ \A p \in Ops : p # o => op'[p] = op[p]
    BY <1>b, <2>q, Requested
  <2>2. /\ op[o].state \in {"none", "ended"}
        /\ \A u \in Tasks : task[u].op # o
        /\ \A g \in Threads : thread[g] # o
        /\ \A v \in Workers : worker[v].op # o
    BY <1>17 DEF QueueCliTurn, Fresh, Unused
  <2>3. /\ thread' \in [Threads -> Ops \cup {Free, Stuck, Archived}]
        /\ thread'[h] = o /\ \A g \in Threads : g # h => thread'[g] = thread[g]
    BY <1>17, <1>b, <2>h DEF QueueCliTurn
  <2>l. Proceeds(w, "mark") /\ worker'[w].op = o
    BY <1>17, <1>b, HasQueued DEF QueueCliTurn
  <2>u. UNCHANGED <<clock, online, task, claim, given, faults>>
    BY <1>17 DEF QueueCliTurn
  <2>s. /\ worker'[w].pc = "mark" /\ \A v \in Workers : Session(v)' = Session(v)
        /\ \A v \in Workers : v # w => worker'[v] = worker[v]
    BY <2>l DEF Session, Current, Proceeds
  <2>type. SchedulerTypeOK'
    <3>1. \A v \in Workers : /\ worker'[v].pc # "idle" => worker'[v].list # <<>>
                             /\ worker'[v].pc = "mark" => worker'[v].op \in Ops
      BY <1>w, <1>k, <2>k, <2>l, <2>s DEF Proceeds
    <3>2. worker' \in [Workers -> Runners]
      BY <2>l DEF Proceeds
    <3> QED BY <1>b, <1>y, <2>f, <2>1, <2>2, <2>3, <2>u, <3>1, <3>2 DEF SchedulerTypeOK
  <2>rows. \A u \in Tasks : RowMoves(u)
    BY <1>b, <1>t, <2>u DEF RowMoves
  <2>work. \A v \in Workers : ReadMoves(v)
    BY <2>h, <2>0, <2>2, <2>l, <2>u, <2>s DEF ReadMoves, Proceeds
  <2>read. ReadWasDue'
    BY <1>a, <1>b, <2>2, <2>l, <2>u, <2>rows, <2>work, ReadKept
  <2>past. ClaimIsPast'
    BY <1>a, <2>u DEF ClaimIsPast
  <2>once. OccurrenceOnce'
    BY <1>a, <2>u DEF OccurrenceOnce
  <2>current. ClaimedIsCurrent'
    BY <1>a, <2>u DEF ClaimedIsCurrent
  <2>known. OperationsKnown'
    <3>1. ASSUME NEW v \in Workers, worker'[v].pc = "mark"
         PROVE  op'[worker'[v].op].thread = Session(v)' /\ op'[worker'[v].op].state # "none"
      BY <3>1, <1>k, <1>o, <2>h, <2>0, <2>1, <2>2, <2>l, <2>u, <2>s
    <3>2. ASSUME NEW v \in Workers, worker'[v].pc = "mark", NEW u \in Tasks
         PROVE  task'[u].op # worker'[v].op
      BY <3>2, <1>k, <1>l, <1>o, <2>h, <2>0, <2>1, <2>2, <2>l, <2>u, <2>s
    <3>3. ASSUME NEW v \in Workers, NEW x \in Workers, worker'[v].pc = "mark",
                worker'[x].pc = "mark", worker'[x].op = worker'[v].op
         PROVE  x = v
      BY <3>3, <1>k, <1>l, <2>h, <2>0, <2>1, <2>2, <2>l, <2>u, <2>s
    <3>4. ASSUME NEW u \in Tasks, task'[u].op # None
         PROVE  op'[task'[u].op].state # "none"
      BY <3>4, <1>t, <1>m, <2>h, <2>0, <2>1, <2>2, <2>l, <2>u, <2>s
    <3>5. ASSUME NEW p \in Ops
         PROVE  /\ op'[p].state # "none" => op'[p].thread \in Threads
                /\ op'[p].state = "ended" => op'[p].outcome # "none"
                /\ op'[p].state = "queued" => op'[p].outcome = "none"
      BY <3>5, <1>p, <1>q, <2>h, <2>0, <2>1, <2>2, <2>l, <2>u, <2>s
    <3> QED BY <3>1, <3>2, <3>3, <3>4, <3>5 DEF OperationsKnown
  <2>turn. SessionHasItsTurn'
    <3>1. ASSUME NEW g \in Threads, thread'[g] \in Ops
         PROVE  /\ op'[thread'[g]].thread = g
                /\ op'[thread'[g]].state \notin {"none", "ended"}
      BY <3>1, <1>o, <1>j, <2>h, <2>f, <2>1, <2>2, <2>3, <2>l, <2>u, <1>h, <2>0
    <3>2. ASSUME NEW p \in Ops, op'[p].state \notin {"none", "ended"}, op'[p].thread \notin given'
         PROVE  thread'[op'[p].thread] = p /\ op'[p].outcome = "none"
      BY <3>2, <1>i, <1>o, <1>p, <1>q, <2>h, <2>f, <2>1, <2>2, <2>3, <2>l, <2>u, <1>h, <2>0
    <3> QED BY <3>1, <3>2 DEF SessionHasItsTurn
  <2>holder. OneHolder'
    <3>1. ASSUME NEW v \in Workers, worker'[v].pc = "queue", Session(v)' \notin given'
         PROVE  thread'[Session(v)'] = Stuck
      BY <3>1, <1>h, <1>o, <2>h, <2>0, <2>f, <2>1, <2>2, <2>3, <2>l, <2>u, <2>s, <1>i, <1>j, <1>x
    <3>2. ASSUME NEW v \in Workers, NEW x \in Workers, worker'[v].pc = "queue",
                worker'[x].pc = "queue", Session(v)' \notin given', Session(x)' = Session(v)'
         PROVE  x = v
      BY <3>2, <1>h, <1>x, <1>o, <2>h, <2>0, <2>f, <2>1, <2>2, <2>3, <2>l, <2>u, <2>s, <1>i, <1>j
    <3>3. ASSUME NEW g \in Threads, thread'[g] = Stuck, faults' = 0
         PROVE  \E v \in Workers : worker'[v].pc = "queue" /\ Session(v)' = g
      <4>1. g # h /\ thread[g] = Stuck
        BY <1>o, <2>3, <3>3
      <4>2. PICK v \in Workers : worker[v].pc = "queue" /\ Session(v) = g
        BY <1>r, <2>u, <4>1, <3>3
      <4>3. v # w
        BY <2>h, <4>1, <4>2
      <4> QED BY <2>s, <4>2, <4>3
    <3> QED BY <3>1, <3>2, <3>3 DEF OneHolder
  <2>shown. ShownRunIsItsOwn'
    <3>1. ASSUME NEW u \in Tasks, task'[u].exists, task'[u].op # None, ~op'[task'[u].op].unseen,
                 op'[task'[u].op].thread = task'[u].thread, task'[u].thread \notin given'
          PROVE  \/ task'[u].status = op'[task'[u].op].outcome
                 \/ op'[task'[u].op].outcome = "none" /\ task'[u].status \in {"queued", "running"}
      BY <3>1, <1>t, <1>p, <1>q, <1>v, <1>o, <2>h, <2>1, <2>2, <2>l, <2>u
    <3> QED BY <3>1 DEF ShownRunIsItsOwn
  <2> QED BY <2>type, <2>read, <2>past, <2>once, <2>current, <2>known, <2>turn, <2>holder,
             <2>shown DEF SchedulerInv
<1>18. ASSUME NEW w \in Workers, queueFails(w) PROVE SchedulerInv'
  <2>k. /\ 1 \in DOMAIN worker[w].list /\ Current(w) = worker[w].list[1]
        /\ Current(w) \in Copies /\ Session(w) \in Threads /\ Current(w).id \in Tasks
        /\ Current(w).spec \in Specs /\ Current(w).next \in Nat
        /\ Current(w).version \in Nat
        /\ worker[w].now \in Nat /\ worker[w].list \in Seq(Copies)
    BY <1>18, <1>b, <1>w, AtTask DEF queueFails, At
  <2>p. PICK t \in Tasks : t = Current(w).id
    BY <2>k
  <2>h. PICK h \in Threads : h = Session(w)
    BY <2>k
  <2>0. worker[w].pc = "queue"
    BY <1>18 DEF queueFails, At
  <2>f. faults' = faults + 1
    BY <1>18 DEF queueFails, Fault
  <2>r. "failed" \in Statuses /\ None \in Ops \cup {None}
    BY DEF Statuses, Outcomes
  <2>r1. task' = MarkScheduledTaskRun(t, "failed", None)
    BY <1>18, <2>p DEF queueFails, Give
  <2>m. /\ task' \in [Tasks -> TaskRows]
        /\ task'[t].exists = task[t].exists /\ task'[t].next = task[t].next
        /\ task'[t].spec = task[t].spec /\ task'[t].thread = task[t].thread
        /\ task'[t].version = task[t].version
        /\ task[t].exists => task'[t].status = "failed" /\ task'[t].op = None
        /\ ~task[t].exists => task'[t] = task[t]
        /\ \A u \in Tasks : u # t => task'[u] = task[u]
    BY <1>b, <2>r, <2>r1, Recorded
  <2>1. /\ thread' \in [Threads -> Ops \cup {Free, Stuck, Archived}]
        /\ thread'[h] = Free /\ \A g \in Threads : g # h => thread'[g] = thread[g]
    BY <1>18, <1>b, <2>h DEF queueFails
  <2>l. Leaves(w)
    <3>1. worker' = [worker EXCEPT ![w] = Advance(w)]
      BY <1>18 DEF queueFails, Give
    <3>2. worker[w].list # <<>>
      BY <2>k
    <3> QED BY <1>b, <3>1, <3>2, LeavesTask
  <2>u. UNCHANGED <<clock, online, op, claim, given>>
    BY <1>18 DEF queueFails, Give
  <2>s. /\ worker'[w].pc \notin {"enqueue", "queue", "mark"}
        /\ \A v \in Workers : v # w => (worker'[v] = worker[v] /\ Session(v)' = Session(v))
    BY <2>l DEF Session, Current, Leaves
  <2>type. SchedulerTypeOK'
    <3>1. \A v \in Workers : /\ worker'[v].pc # "idle" => worker'[v].list # <<>>
                             /\ worker'[v].pc = "mark" => worker'[v].op \in Ops
      BY <1>w, <1>k, <2>k, <2>l, <2>s DEF Leaves
    <3>2. worker' \in [Workers -> Runners]
      BY <2>l DEF Leaves
    <3>3. \A u \in Tasks : IF task'[u].exists
                         THEN task'[u].spec \in Specs /\ task'[u].thread \in Threads
                         ELSE task'[u].op = None
      BY <1>y, <1>t, <2>p, <2>m
    <3> QED BY <1>b, <1>y, <2>f, <2>m, <2>1, <2>u, <3>1, <3>2, <3>3 DEF SchedulerTypeOK
  <2>rows. \A u \in Tasks : RowMoves(u)
    BY <1>b, <1>t, <2>p, <2>h, <2>m, <2>u DEF RowMoves
  <2>work. \A v \in Workers : ReadMoves(v)
    BY <2>p, <2>h, <2>0, <2>m, <2>l, <2>u, <2>s DEF ReadMoves, Leaves
  <2>read. ReadWasDue'
    BY <1>a, <1>b, <2>f, <2>m, <2>l, <2>u, <2>rows, <2>work, ReadKept
  <2>past. ClaimIsPast'
    BY <1>a, <1>b, <2>m, <2>u, <2>rows, PastKept
  <2>once. OccurrenceOnce'
    BY <1>a, <2>u DEF OccurrenceOnce
  <2>current. ClaimedIsCurrent'
    BY <1>a, <2>u DEF ClaimedIsCurrent
  <2>known. OperationsKnown'
    <3>1. ASSUME NEW v \in Workers, worker'[v].pc = "mark"
         PROVE  op'[worker'[v].op].thread = Session(v)' /\ op'[worker'[v].op].state # "none"
      BY <3>1, <1>k, <1>o, <2>p, <2>h, <2>0, <2>m, <2>u, <2>s
    <3>2. ASSUME NEW v \in Workers, worker'[v].pc = "mark", NEW u \in Tasks
         PROVE  task'[u].op # worker'[v].op
      BY <3>2, <1>k, <1>l, <1>o, <2>p, <2>h, <2>0, <2>m, <2>u, <2>s
    <3>3. ASSUME NEW v \in Workers, NEW x \in Workers, worker'[v].pc = "mark",
                worker'[x].pc = "mark", worker'[x].op = worker'[v].op
         PROVE  x = v
      BY <3>3, <1>k, <1>l, <2>p, <2>h, <2>0, <2>m, <2>u, <2>s
    <3>4. ASSUME NEW u \in Tasks, task'[u].op # None
         PROVE  op'[task'[u].op].state # "none"
      BY <3>4, <1>t, <1>m, <2>p, <2>h, <2>0, <2>m, <2>u, <2>s
    <3>5. ASSUME NEW p \in Ops
         PROVE  /\ op'[p].state # "none" => op'[p].thread \in Threads
                /\ op'[p].state = "ended" => op'[p].outcome # "none"
                /\ op'[p].state = "queued" => op'[p].outcome = "none"
      BY <3>5, <1>p, <1>q, <2>p, <2>h, <2>0, <2>m, <2>u, <2>s
    <3> QED BY <3>1, <3>2, <3>3, <3>4, <3>5 DEF OperationsKnown
  <2>turn. SessionHasItsTurn'
    <3>1. ASSUME NEW g \in Threads, thread'[g] \in Ops
         PROVE  /\ op'[thread'[g]].thread = g
                /\ op'[thread'[g]].state \notin {"none", "ended"}
      BY <3>1, <1>o, <1>j, <2>p, <2>h, <2>m, <2>1, <2>u, <1>h, <2>0
    <3>2. ASSUME NEW p \in Ops, op'[p].state \notin {"none", "ended"}, op'[p].thread \notin given'
         PROVE  thread'[op'[p].thread] = p /\ op'[p].outcome = "none"
      BY <3>2, <1>i, <1>o, <1>p, <1>q, <2>p, <2>h, <2>m, <2>1, <2>u, <1>h, <2>0
    <3> QED BY <3>1, <3>2 DEF SessionHasItsTurn
  <2>holder. OneHolder'
    <3>1. ASSUME NEW v \in Workers, worker'[v].pc = "queue", Session(v)' \notin given'
         PROVE  thread'[Session(v)'] = Stuck
      BY <3>1, <1>h, <1>o, <2>p, <2>h, <2>0, <2>f, <2>m, <2>1, <2>u, <2>s, <1>i, <1>j, <1>x
    <3>2. ASSUME NEW v \in Workers, NEW x \in Workers, worker'[v].pc = "queue",
                worker'[x].pc = "queue", Session(v)' \notin given', Session(x)' = Session(v)'
         PROVE  x = v
      BY <3>2, <1>h, <1>x, <1>o, <2>p, <2>h, <2>0, <2>f, <2>m, <2>1, <2>u, <2>s, <1>i, <1>j
    <3>3. ASSUME NEW g \in Threads, thread'[g] = Stuck, faults' = 0
         PROVE  \E v \in Workers : worker'[v].pc = "queue" /\ Session(v)' = g
      <4>1. faults' # 0
        BY <1>b, <2>f
      <4> QED BY <4>1, <3>3
    <3> QED BY <3>1, <3>2, <3>3 DEF OneHolder
  <2>shown. ShownRunIsItsOwn'
    <3>1. ASSUME NEW u \in Tasks, task'[u].exists, task'[u].op # None, ~op'[task'[u].op].unseen,
                 op'[task'[u].op].thread = task'[u].thread, task'[u].thread \notin given'
          PROVE  \/ task'[u].status = op'[task'[u].op].outcome
                 \/ op'[task'[u].op].outcome = "none" /\ task'[u].status \in {"queued", "running"}
      BY <3>1, <1>t, <1>p, <1>q, <1>v, <1>o, <2>p, <2>h, <2>m, <2>u
    <3> QED BY <3>1 DEF ShownRunIsItsOwn
  <2> QED BY <2>type, <2>read, <2>past, <2>once, <2>current, <2>known, <2>turn, <2>holder,
             <2>shown DEF SchedulerInv
<1>19. ASSUME NEW w \in Workers, eventFails(w) PROVE SchedulerInv'
  <2>k. /\ 1 \in DOMAIN worker[w].list /\ Current(w) = worker[w].list[1]
        /\ Current(w) \in Copies /\ Session(w) \in Threads /\ Current(w).id \in Tasks
        /\ Current(w).spec \in Specs /\ Current(w).next \in Nat
        /\ Current(w).version \in Nat
        /\ worker[w].now \in Nat /\ worker[w].list \in Seq(Copies)
    BY <1>19, <1>b, <1>w, AtTask DEF eventFails, At
  <2>p. PICK t \in Tasks : t = Current(w).id
    BY <2>k
  <2>h. PICK h \in Threads : h = Session(w)
    BY <2>k
  <2>0. worker[w].pc = "mark"
    BY <1>19 DEF eventFails, At
  <2>f. faults' = faults + 1
    BY <1>19 DEF eventFails, Fault
  <2>o. PICK o \in Ops : o = worker[w].op
    BY <1>k, <2>0
  <2>1. op[o].thread = h /\ op[o].state # "none"
    BY <1>k, <2>0, <2>h, <2>o
  <2>2a. \A v \in Workers : v # w /\ worker[v].pc = "mark" => worker[v].op # o
    BY <1>l, <2>0, <2>o
  <2>2b. \A u \in Tasks : task[u].op # o
    BY <1>l, <2>0, <2>o
  <2>r. "failed" \in Statuses /\ o \in Ops \cup {None}
    BY DEF Statuses, Outcomes
  <2>r1. task' = MarkScheduledTaskRun(t, "failed", o)
    BY <1>19, <2>p, <2>o DEF eventFails, Give
  <2>m. /\ task' \in [Tasks -> TaskRows]
        /\ task'[t].exists = task[t].exists /\ task'[t].next = task[t].next
        /\ task'[t].spec = task[t].spec /\ task'[t].thread = task[t].thread
        /\ task'[t].version = task[t].version
        /\ task[t].exists => task'[t].status = "failed" /\ task'[t].op = o
        /\ ~task[t].exists => task'[t] = task[t]
        /\ \A u \in Tasks : u # t => task'[u] = task[u]
    BY <1>b, <2>r, <2>r1, Recorded
  <2>2. /\ op' \in [Ops -> OpRows]
        /\ op'[o].state = IF op[o].state = "queued" THEN "ended" ELSE op[o].state
        /\ op'[o].outcome = IF op[o].outcome = "none" THEN "failed" ELSE op[o].outcome
        /\ op'[o].thread = op[o].thread /\ op'[o].unseen = op[o].unseen
        /\ \A p \in Ops : p # o => op'[p] = op[p]
    <3>1. PICK s : s = IF op[o].state = "queued" THEN "ended" ELSE op[o].state
      OBVIOUS
    <3>2. PICK r : r = IF op[o].outcome = "none" THEN "failed" ELSE op[o].outcome
      OBVIOUS
    <3>3. PICK y : y = [op[o] EXCEPT !.state = s, !.outcome = r]
      OBVIOUS
    <3>4. op[o] \in OpRows
      BY <1>b
    <3>5. /\ s \in {"none", "queued", "delivered", "running", "lost", "ended"}
          /\ r \in {"none"} \cup Outcomes
      BY <1>p, <3>1, <3>2 DEF Outcomes
    <3>6. /\ y \in OpRows /\ y.state = s /\ y.outcome = r /\ y.thread = op[o].thread
          /\ y.unseen = op[o].unseen
      BY <3>3, <3>4, <3>5 DEF OpRows
    <3>7. op' = [op EXCEPT ![o] = y]
      BY <1>19, <2>o, <3>1, <3>2, <3>3 DEF eventFails
    <3> QED BY <1>b, <3>1, <3>2, <3>6, <3>7
  <2>3. /\ thread' \in [Threads -> Ops \cup {Free, Stuck, Archived}]
        /\ thread'[h] = Free /\ \A g \in Threads : g # h => thread'[g] = thread[g]
    BY <1>19, <1>b, <2>o, <2>1 DEF eventFails
  <2>4. given' = IF op[o].state = "queued" THEN given ELSE given \cup {h}
    BY <1>19, <2>o, <2>1 DEF eventFails
  <2>l. Leaves(w)
    <3>1. worker' = [worker EXCEPT ![w] = Advance(w)]
      BY <1>19 DEF eventFails, Give
    <3>2. worker[w].list # <<>>
      BY <2>k
    <3> QED BY <1>b, <3>1, <3>2, LeavesTask
  <2>u. UNCHANGED <<clock, online, claim>>
    BY <1>19 DEF eventFails, Give
  <2>s. /\ worker'[w].pc \notin {"enqueue", "queue", "mark"}
        /\ \A v \in Workers : v # w => (worker'[v] = worker[v] /\ Session(v)' = Session(v))
    BY <2>l DEF Session, Current, Leaves
  <2>type. SchedulerTypeOK'
    <3>1. \A v \in Workers : /\ worker'[v].pc # "idle" => worker'[v].list # <<>>
                             /\ worker'[v].pc = "mark" => worker'[v].op \in Ops
      BY <1>w, <1>k, <2>k, <2>l, <2>s DEF Leaves
    <3>2. worker' \in [Workers -> Runners]
      BY <2>l DEF Leaves
    <3>3. \A u \in Tasks : IF task'[u].exists
                         THEN task'[u].spec \in Specs /\ task'[u].thread \in Threads
                         ELSE task'[u].op = None
      BY <1>y, <1>t, <2>p, <2>m
    <3> QED BY <1>b, <1>y, <2>f, <2>1, <2>m, <2>2, <2>3, <2>4, <2>u, <3>1, <3>2, <3>3
               DEF SchedulerTypeOK
  <2>rows. \A u \in Tasks : RowMoves(u)
    BY <1>b, <1>t, <2>p, <2>h, <2>2b, <2>m, <2>u DEF RowMoves
  <2>work. \A v \in Workers : ReadMoves(v)
    BY <2>p, <2>h, <2>0, <2>o, <2>2a, <2>2b, <2>m, <2>l, <2>u, <2>s DEF ReadMoves, Leaves
  <2>read. ReadWasDue'
    BY <1>a, <1>b, <2>f, <2>m, <2>l, <2>u, <2>rows, <2>work, ReadKept
  <2>past. ClaimIsPast'
    BY <1>a, <1>b, <2>m, <2>u, <2>rows, PastKept
  <2>once. OccurrenceOnce'
    BY <1>a, <2>u DEF OccurrenceOnce
  <2>current. ClaimedIsCurrent'
    BY <1>a, <2>u DEF ClaimedIsCurrent
  <2>known. OperationsKnown'
    <3>1. ASSUME NEW v \in Workers, worker'[v].pc = "mark"
         PROVE  op'[worker'[v].op].thread = Session(v)' /\ op'[worker'[v].op].state # "none"
      BY <3>1, <1>k, <1>o, <2>p, <2>h, <2>0, <2>o, <2>1, <2>2a, <2>2b, <2>m, <2>2, <2>4, <2>u,
         <2>s
    <3>2. ASSUME NEW v \in Workers, worker'[v].pc = "mark", NEW u \in Tasks
         PROVE  task'[u].op # worker'[v].op
      BY <3>2, <1>k, <1>l, <1>o, <2>p, <2>h, <2>0, <2>o, <2>1, <2>2a, <2>2b, <2>m, <2>2, <2>4,
         <2>u, <2>s
    <3>3. ASSUME NEW v \in Workers, NEW x \in Workers, worker'[v].pc = "mark",
                worker'[x].pc = "mark", worker'[x].op = worker'[v].op
         PROVE  x = v
      BY <3>3, <1>k, <1>l, <2>p, <2>h, <2>0, <2>o, <2>1, <2>2a, <2>2b, <2>m, <2>2, <2>4, <2>u,
         <2>s
    <3>4. ASSUME NEW u \in Tasks, task'[u].op # None
         PROVE  op'[task'[u].op].state # "none"
      BY <3>4, <1>t, <1>m, <2>p, <2>h, <2>0, <2>o, <2>1, <2>2a, <2>2b, <2>m, <2>2, <2>4, <2>u,
         <2>s
    <3>5. ASSUME NEW p \in Ops
         PROVE  /\ op'[p].state # "none" => op'[p].thread \in Threads
                /\ op'[p].state = "ended" => op'[p].outcome # "none"
                /\ op'[p].state = "queued" => op'[p].outcome = "none"
      BY <3>5, <1>p, <1>q, <2>p, <2>h, <2>0, <2>o, <2>1, <2>2a, <2>2b, <2>m, <2>2, <2>4, <2>u,
         <2>s
    <3> QED BY <3>1, <3>2, <3>3, <3>4, <3>5 DEF OperationsKnown
  <2>turn. SessionHasItsTurn'
    <3>1. ASSUME NEW g \in Threads, thread'[g] \in Ops
         PROVE  /\ op'[thread'[g]].thread = g
                /\ op'[thread'[g]].state \notin {"none", "ended"}
      BY <3>1, <1>o, <1>j, <2>p, <2>h, <2>o, <2>1, <2>2a, <2>2b, <2>m, <2>2, <2>3, <2>4, <2>u,
         <1>h, <2>0
    <3>2. ASSUME NEW p \in Ops, op'[p].state \notin {"none", "ended"}, op'[p].thread \notin given'
         PROVE  thread'[op'[p].thread] = p /\ op'[p].outcome = "none"
      BY <3>2, <1>i, <1>o, <1>p, <1>q, <2>p, <2>h, <2>o, <2>1, <2>2a, <2>2b, <2>m, <2>2, <2>3,
         <2>4, <2>u, <1>h, <2>0
    <3> QED BY <3>1, <3>2 DEF SessionHasItsTurn
  <2>holder. OneHolder'
    <3>1. ASSUME NEW v \in Workers, worker'[v].pc = "queue", Session(v)' \notin given'
         PROVE  thread'[Session(v)'] = Stuck
      BY <3>1, <1>h, <1>o, <2>p, <2>h, <2>0, <2>f, <2>o, <2>1, <2>2a, <2>m, <2>2, <2>3, <2>4,
         <2>u, <2>s, <1>i, <1>j, <1>x
    <3>2. ASSUME NEW v \in Workers, NEW x \in Workers, worker'[v].pc = "queue",
                worker'[x].pc = "queue", Session(v)' \notin given', Session(x)' = Session(v)'
         PROVE  x = v
      BY <3>2, <1>h, <1>x, <1>o, <2>p, <2>h, <2>0, <2>f, <2>o, <2>1, <2>2a, <2>m, <2>2, <2>3,
         <2>4, <2>u, <2>s, <1>i, <1>j
    <3>3. ASSUME NEW g \in Threads, thread'[g] = Stuck, faults' = 0
         PROVE  \E v \in Workers : worker'[v].pc = "queue" /\ Session(v)' = g
      <4>1. faults' # 0
        BY <1>b, <2>f
      <4> QED BY <4>1, <3>3
    <3> QED BY <3>1, <3>2, <3>3 DEF OneHolder
  <2>shown. ShownRunIsItsOwn'
    <3>1. ASSUME NEW u \in Tasks, task'[u].exists, task'[u].op # None, ~op'[task'[u].op].unseen,
                 op'[task'[u].op].thread = task'[u].thread, task'[u].thread \notin given'
          PROVE  \/ task'[u].status = op'[task'[u].op].outcome
                 \/ op'[task'[u].op].outcome = "none" /\ task'[u].status \in {"queued", "running"}
      BY <3>1, <1>t, <1>p, <1>q, <1>v, <1>o, <2>p, <2>h, <2>o, <2>1, <2>2a, <2>2b, <2>m, <2>2,
         <2>4, <2>u DEF Outcomes
    <3> QED BY <3>1 DEF ShownRunIsItsOwn
  <2> QED BY <2>type, <2>read, <2>past, <2>once, <2>current, <2>known, <2>turn, <2>holder,
             <2>shown DEF SchedulerInv
<1>20. ASSUME NEW w \in Workers, recordFails(w) PROVE SchedulerInv'
  <2>k. /\ 1 \in DOMAIN worker[w].list /\ Current(w) = worker[w].list[1]
        /\ Current(w) \in Copies /\ Session(w) \in Threads /\ Current(w).id \in Tasks
        /\ Current(w).spec \in Specs /\ Current(w).next \in Nat
        /\ Current(w).version \in Nat
        /\ worker[w].now \in Nat /\ worker[w].list \in Seq(Copies)
    BY <1>20, <1>b, <1>w, AtTask DEF recordFails, At
  <2>0. worker[w].pc = "mark"
    BY <1>20 DEF recordFails, At
  <2>f. faults' = faults + 1
    BY <1>20 DEF recordFails, Fault
  <2>l. Leaves(w)
    <3>1. worker' = [worker EXCEPT ![w] = Advance(w)]
      BY <1>20 DEF recordFails
    <3>2. worker[w].list # <<>>
      BY <2>k
    <3> QED BY <1>b, <3>1, <3>2, LeavesTask
  <2>u. UNCHANGED <<clock, online, task, thread, op, claim, given>>
    BY <1>20 DEF recordFails
  <2>s. /\ worker'[w].pc \notin {"enqueue", "queue", "mark"}
        /\ \A v \in Workers : v # w => (worker'[v] = worker[v] /\ Session(v)' = Session(v))
    BY <2>l DEF Session, Current, Leaves
  <2>type. SchedulerTypeOK'
    <3>1. \A v \in Workers : /\ worker'[v].pc # "idle" => worker'[v].list # <<>>
                             /\ worker'[v].pc = "mark" => worker'[v].op \in Ops
      BY <1>w, <1>k, <2>k, <2>l, <2>s DEF Leaves
    <3>2. worker' \in [Workers -> Runners]
      BY <2>l DEF Leaves
    <3> QED BY <1>b, <1>y, <2>f, <2>u, <3>1, <3>2 DEF SchedulerTypeOK
  <2>rows. \A u \in Tasks : RowMoves(u)
    BY <1>b, <1>t, <2>u DEF RowMoves
  <2>work. \A v \in Workers : ReadMoves(v)
    BY <2>0, <2>l, <2>u, <2>s DEF ReadMoves, Leaves
  <2>read. ReadWasDue'
    BY <1>a, <1>b, <2>f, <2>l, <2>u, <2>rows, <2>work, ReadKept
  <2>past. ClaimIsPast'
    BY <1>a, <2>u DEF ClaimIsPast
  <2>once. OccurrenceOnce'
    BY <1>a, <2>u DEF OccurrenceOnce
  <2>current. ClaimedIsCurrent'
    BY <1>a, <2>u DEF ClaimedIsCurrent
  <2>known. OperationsKnown'
    <3>1. ASSUME NEW v \in Workers, worker'[v].pc = "mark"
         PROVE  op'[worker'[v].op].thread = Session(v)' /\ op'[worker'[v].op].state # "none"
      BY <3>1, <1>k, <1>o, <2>0, <2>u, <2>s
    <3>2. ASSUME NEW v \in Workers, worker'[v].pc = "mark", NEW u \in Tasks
         PROVE  task'[u].op # worker'[v].op
      BY <3>2, <1>k, <1>l, <1>o, <2>0, <2>u, <2>s
    <3>3. ASSUME NEW v \in Workers, NEW x \in Workers, worker'[v].pc = "mark",
                worker'[x].pc = "mark", worker'[x].op = worker'[v].op
         PROVE  x = v
      BY <3>3, <1>k, <1>l, <2>0, <2>u, <2>s
    <3>4. ASSUME NEW u \in Tasks, task'[u].op # None
         PROVE  op'[task'[u].op].state # "none"
      BY <3>4, <1>t, <1>m, <2>0, <2>u, <2>s
    <3>5. ASSUME NEW p \in Ops
         PROVE  /\ op'[p].state # "none" => op'[p].thread \in Threads
                /\ op'[p].state = "ended" => op'[p].outcome # "none"
                /\ op'[p].state = "queued" => op'[p].outcome = "none"
      BY <3>5, <1>p, <1>q, <2>0, <2>u, <2>s
    <3> QED BY <3>1, <3>2, <3>3, <3>4, <3>5 DEF OperationsKnown
  <2>turn. SessionHasItsTurn'
    BY <1>a, <2>u DEF SessionHasItsTurn
  <2>holder. OneHolder'
    <3>1. ASSUME NEW v \in Workers, worker'[v].pc = "queue", Session(v)' \notin given'
         PROVE  thread'[Session(v)'] = Stuck
      BY <3>1, <1>h, <1>o, <2>0, <2>f, <2>u, <2>s
    <3>2. ASSUME NEW v \in Workers, NEW x \in Workers, worker'[v].pc = "queue",
                worker'[x].pc = "queue", Session(v)' \notin given', Session(x)' = Session(v)'
         PROVE  x = v
      BY <3>2, <1>h, <1>x, <1>o, <2>0, <2>f, <2>u, <2>s
    <3>3. ASSUME NEW g \in Threads, thread'[g] = Stuck, faults' = 0
         PROVE  \E v \in Workers : worker'[v].pc = "queue" /\ Session(v)' = g
      <4>1. faults' # 0
        BY <1>b, <2>f
      <4> QED BY <4>1, <3>3
    <3> QED BY <3>1, <3>2, <3>3 DEF OneHolder
  <2>shown. ShownRunIsItsOwn'
    BY <1>a, <2>u DEF ShownRunIsItsOwn
  <2> QED BY <2>type, <2>read, <2>past, <2>once, <2>current, <2>known, <2>turn, <2>holder,
             <2>shown DEF SchedulerInv
<1>21. ASSUME NEW w \in Workers, restart(w) PROVE SchedulerInv'
  <2>f. faults' = faults + 1
    BY <1>21 DEF restart, Fault
  <2>l. Leaves(w)
    BY <1>21, <1>b, Dies DEF restart
  <2>u. UNCHANGED <<clock, online, task, thread, op, claim, given>>
    BY <1>21 DEF restart
  <2>s. /\ worker'[w].pc \notin {"enqueue", "queue", "mark"}
        /\ \A v \in Workers : v # w => (worker'[v] = worker[v] /\ Session(v)' = Session(v))
    BY <2>l DEF Session, Current, Leaves
  <2>type. SchedulerTypeOK'
    <3>1. \A v \in Workers : /\ worker'[v].pc # "idle" => worker'[v].list # <<>>
                             /\ worker'[v].pc = "mark" => worker'[v].op \in Ops
      BY <1>w, <1>k, <2>l, <2>s DEF Leaves
    <3>2. worker' \in [Workers -> Runners]
      BY <2>l DEF Leaves
    <3> QED BY <1>b, <1>y, <2>f, <2>u, <3>1, <3>2 DEF SchedulerTypeOK
  <2>rows. \A u \in Tasks : RowMoves(u)
    BY <1>b, <1>t, <2>u DEF RowMoves
  <2>work. \A v \in Workers : ReadMoves(v)
    BY <2>l, <2>u, <2>s DEF ReadMoves, Leaves
  <2>read. ReadWasDue'
    BY <1>a, <1>b, <2>f, <2>l, <2>u, <2>rows, <2>work, ReadKept
  <2>past. ClaimIsPast'
    BY <1>a, <2>u DEF ClaimIsPast
  <2>once. OccurrenceOnce'
    BY <1>a, <2>u DEF OccurrenceOnce
  <2>current. ClaimedIsCurrent'
    BY <1>a, <2>u DEF ClaimedIsCurrent
  <2>known. OperationsKnown'
    <3>1. ASSUME NEW v \in Workers, worker'[v].pc = "mark"
         PROVE  op'[worker'[v].op].thread = Session(v)' /\ op'[worker'[v].op].state # "none"
      BY <3>1, <1>k, <1>o, <2>u, <2>s
    <3>2. ASSUME NEW v \in Workers, worker'[v].pc = "mark", NEW u \in Tasks
         PROVE  task'[u].op # worker'[v].op
      BY <3>2, <1>k, <1>l, <1>o, <2>u, <2>s
    <3>3. ASSUME NEW v \in Workers, NEW x \in Workers, worker'[v].pc = "mark",
                worker'[x].pc = "mark", worker'[x].op = worker'[v].op
         PROVE  x = v
      BY <3>3, <1>k, <1>l, <2>u, <2>s
    <3>4. ASSUME NEW u \in Tasks, task'[u].op # None
         PROVE  op'[task'[u].op].state # "none"
      BY <3>4, <1>t, <1>m, <2>u, <2>s
    <3>5. ASSUME NEW p \in Ops
         PROVE  /\ op'[p].state # "none" => op'[p].thread \in Threads
                /\ op'[p].state = "ended" => op'[p].outcome # "none"
                /\ op'[p].state = "queued" => op'[p].outcome = "none"
      BY <3>5, <1>p, <1>q, <2>u, <2>s
    <3> QED BY <3>1, <3>2, <3>3, <3>4, <3>5 DEF OperationsKnown
  <2>turn. SessionHasItsTurn'
    BY <1>a, <2>u DEF SessionHasItsTurn
  <2>holder. OneHolder'
    <3>1. ASSUME NEW v \in Workers, worker'[v].pc = "queue", Session(v)' \notin given'
         PROVE  thread'[Session(v)'] = Stuck
      BY <3>1, <1>h, <1>o, <2>f, <2>u, <2>s
    <3>2. ASSUME NEW v \in Workers, NEW x \in Workers, worker'[v].pc = "queue",
                worker'[x].pc = "queue", Session(v)' \notin given', Session(x)' = Session(v)'
         PROVE  x = v
      BY <3>2, <1>h, <1>x, <1>o, <2>f, <2>u, <2>s
    <3>3. ASSUME NEW g \in Threads, thread'[g] = Stuck, faults' = 0
         PROVE  \E v \in Workers : worker'[v].pc = "queue" /\ Session(v)' = g
      <4>1. faults' # 0
        BY <1>b, <2>f
      <4> QED BY <4>1, <3>3
    <3> QED BY <3>1, <3>2, <3>3 DEF OneHolder
  <2>shown. ShownRunIsItsOwn'
    BY <1>a, <2>u DEF ShownRunIsItsOwn
  <2> QED BY <2>type, <2>read, <2>past, <2>once, <2>current, <2>known, <2>turn, <2>holder,
             <2>shown DEF SchedulerInv
<1>22. ASSUME NEW t \in Tasks, zoneIsUnknown(t) PROVE SchedulerInv'
  <2>f. faults' = faults + 1
    BY <1>22 DEF zoneIsUnknown, Fault
  <2>1. /\ task' \in [Tasks -> TaskRows]
        /\ \A u \in Tasks :
             /\ task'[u].exists = task[u].exists /\ task'[u].op = task[u].op
             /\ task'[u].spec = task[u].spec /\ task'[u].thread = task[u].thread
             /\ task'[u].version = task[u].version /\ task'[u].next = task[u].next
             /\ task'[u].status = task[u].status
    BY <1>22, <1>b, Broken DEF zoneIsUnknown, Same
  <2>u. UNCHANGED <<clock, online, thread, op, worker, claim, given>>
    BY <1>22 DEF zoneIsUnknown
  <2>s. \A v \in Workers : Session(v)' = Session(v)
    BY <2>u DEF Session, Current
  <2>type. SchedulerTypeOK'
    BY <1>a, <1>b, <2>f, <2>1, <2>u DEF SchedulerTypeOK
  <2>rows. \A u \in Tasks : RowMoves(u)
    BY <1>b, <1>t, <2>1, <2>u DEF RowMoves
  <2>work. \A v \in Workers : ReadMoves(v)
    BY <2>u DEF ReadMoves
  <2>read. ReadWasDue'
    BY <1>a, <1>b, <2>f, <2>1, <2>u, <2>rows, <2>work, ReadKept
  <2>past. ClaimIsPast'
    BY <1>a, <1>b, <2>1, <2>u, <2>rows, PastKept
  <2>once. OccurrenceOnce'
    BY <1>a, <2>u DEF OccurrenceOnce
  <2>current. ClaimedIsCurrent'
    BY <1>a, <2>u DEF ClaimedIsCurrent
  <2>known. OperationsKnown'
    <3>1. ASSUME NEW v \in Workers, worker'[v].pc = "mark"
         PROVE  op'[worker'[v].op].thread = Session(v)' /\ op'[worker'[v].op].state # "none"
      BY <3>1, <1>k, <1>o, <2>1, <2>u, <2>s
    <3>2. ASSUME NEW v \in Workers, worker'[v].pc = "mark", NEW u \in Tasks
         PROVE  task'[u].op # worker'[v].op
      BY <3>2, <1>k, <1>l, <1>o, <2>1, <2>u, <2>s
    <3>3. ASSUME NEW v \in Workers, NEW x \in Workers, worker'[v].pc = "mark",
                worker'[x].pc = "mark", worker'[x].op = worker'[v].op
         PROVE  x = v
      BY <3>3, <1>k, <1>l, <2>1, <2>u, <2>s
    <3>4. ASSUME NEW u \in Tasks, task'[u].op # None
         PROVE  op'[task'[u].op].state # "none"
      BY <3>4, <1>t, <1>m, <2>1, <2>u, <2>s
    <3>5. ASSUME NEW p \in Ops
         PROVE  /\ op'[p].state # "none" => op'[p].thread \in Threads
                /\ op'[p].state = "ended" => op'[p].outcome # "none"
                /\ op'[p].state = "queued" => op'[p].outcome = "none"
      BY <3>5, <1>p, <1>q, <2>1, <2>u, <2>s
    <3> QED BY <3>1, <3>2, <3>3, <3>4, <3>5 DEF OperationsKnown
  <2>turn. SessionHasItsTurn'
    BY <1>a, <2>u DEF SessionHasItsTurn
  <2>holder. OneHolder'
    <3>1. ASSUME NEW v \in Workers, worker'[v].pc = "queue", Session(v)' \notin given'
         PROVE  thread'[Session(v)'] = Stuck
      BY <3>1, <1>h, <1>o, <2>f, <2>1, <2>u, <2>s
    <3>2. ASSUME NEW v \in Workers, NEW x \in Workers, worker'[v].pc = "queue",
                worker'[x].pc = "queue", Session(v)' \notin given', Session(x)' = Session(v)'
         PROVE  x = v
      BY <3>2, <1>h, <1>x, <1>o, <2>f, <2>1, <2>u, <2>s
    <3>3. ASSUME NEW g \in Threads, thread'[g] = Stuck, faults' = 0
         PROVE  \E v \in Workers : worker'[v].pc = "queue" /\ Session(v)' = g
      <4>1. faults' # 0
        BY <1>b, <2>f
      <4> QED BY <4>1, <3>3
    <3> QED BY <3>1, <3>2, <3>3 DEF OneHolder
  <2>shown. ShownRunIsItsOwn'
    <3>1. ASSUME NEW u \in Tasks, task'[u].exists, task'[u].op # None, ~op'[task'[u].op].unseen,
                 op'[task'[u].op].thread = task'[u].thread, task'[u].thread \notin given'
          PROVE  \/ task'[u].status = op'[task'[u].op].outcome
                 \/ op'[task'[u].op].outcome = "none" /\ task'[u].status \in {"queued", "running"}
      BY <3>1, <1>t, <1>p, <1>q, <1>v, <1>o, <2>1, <2>u
    <3> QED BY <3>1 DEF ShownRunIsItsOwn
  <2> QED BY <2>type, <2>read, <2>past, <2>once, <2>current, <2>known, <2>turn, <2>holder,
             <2>shown DEF SchedulerInv
<1>23. ASSUME NEW o \in Ops, deliver(o) PROVE SchedulerInv'
  <2>1. /\ op' \in [Ops -> OpRows]
        /\ op'[o].state = "delivered" /\ op'[o].thread = op[o].thread
        /\ op'[o].outcome = op[o].outcome /\ op'[o].unseen = op[o].unseen
        /\ \A p \in Ops : p # o => op'[p] = op[p]
        /\ op[o].state = "queued"
    BY <1>23, <1>b, GoesOn DEF deliver
  <2>u. UNCHANGED <<clock, online, task, thread, worker, claim, given, faults>>
    BY <1>23 DEF deliver
  <2>s. \A v \in Workers : Session(v)' = Session(v)
    BY <2>u DEF Session, Current
  <2>type. SchedulerTypeOK'
    BY <1>a, <1>b, <2>1, <2>u DEF SchedulerTypeOK
  <2>read. ReadWasDue'
    BY <1>a, <2>u DEF ReadWasDue
  <2>past. ClaimIsPast'
    BY <1>a, <2>u DEF ClaimIsPast
  <2>once. OccurrenceOnce'
    BY <1>a, <2>u DEF OccurrenceOnce
  <2>current. ClaimedIsCurrent'
    BY <1>a, <2>u DEF ClaimedIsCurrent
  <2>known. OperationsKnown'
    <3>1. ASSUME NEW v \in Workers, worker'[v].pc = "mark"
         PROVE  op'[worker'[v].op].thread = Session(v)' /\ op'[worker'[v].op].state # "none"
      BY <3>1, <1>k, <1>o, <2>1, <2>u, <2>s
    <3>2. ASSUME NEW v \in Workers, worker'[v].pc = "mark", NEW u \in Tasks
         PROVE  task'[u].op # worker'[v].op
      BY <3>2, <1>k, <1>l, <1>o, <2>1, <2>u, <2>s
    <3>3. ASSUME NEW v \in Workers, NEW x \in Workers, worker'[v].pc = "mark",
                worker'[x].pc = "mark", worker'[x].op = worker'[v].op
         PROVE  x = v
      BY <3>3, <1>k, <1>l, <2>1, <2>u, <2>s
    <3>4. ASSUME NEW u \in Tasks, task'[u].op # None
         PROVE  op'[task'[u].op].state # "none"
      BY <3>4, <1>t, <1>m, <2>1, <2>u, <2>s
    <3>5. ASSUME NEW p \in Ops
         PROVE  /\ op'[p].state # "none" => op'[p].thread \in Threads
                /\ op'[p].state = "ended" => op'[p].outcome # "none"
                /\ op'[p].state = "queued" => op'[p].outcome = "none"
      BY <3>5, <1>p, <1>q, <2>1, <2>u, <2>s
    <3> QED BY <3>1, <3>2, <3>3, <3>4, <3>5 DEF OperationsKnown
  <2>turn. SessionHasItsTurn'
    <3>1. ASSUME NEW g \in Threads, thread'[g] \in Ops
         PROVE  /\ op'[thread'[g]].thread = g
                /\ op'[thread'[g]].state \notin {"none", "ended"}
      BY <3>1, <1>o, <1>j, <2>1, <2>u
    <3>2. ASSUME NEW p \in Ops, op'[p].state \notin {"none", "ended"}, op'[p].thread \notin given'
         PROVE  thread'[op'[p].thread] = p /\ op'[p].outcome = "none"
      BY <3>2, <1>i, <1>o, <1>p, <1>q, <2>1, <2>u
    <3> QED BY <3>1, <3>2 DEF SessionHasItsTurn
  <2>holder. OneHolder'
    BY <1>a, <2>u DEF OneHolder, Session, Current
  <2>shown. ShownRunIsItsOwn'
    <3>1. ASSUME NEW u \in Tasks, task'[u].exists, task'[u].op # None, ~op'[task'[u].op].unseen,
                 op'[task'[u].op].thread = task'[u].thread, task'[u].thread \notin given'
          PROVE  \/ task'[u].status = op'[task'[u].op].outcome
                 \/ op'[task'[u].op].outcome = "none" /\ task'[u].status \in {"queued", "running"}
      BY <3>1, <1>t, <1>p, <1>q, <1>v, <1>o, <2>1, <2>u
    <3> QED BY <3>1 DEF ShownRunIsItsOwn
  <2> QED BY <2>type, <2>read, <2>past, <2>once, <2>current, <2>known, <2>turn, <2>holder,
             <2>shown DEF SchedulerInv
<1>24. ASSUME NEW o \in Ops, turnStarted(o) PROVE SchedulerInv'
  <2>1. /\ op' \in [Ops -> OpRows]
        /\ op'[o].state = "running" /\ op'[o].thread = op[o].thread
        /\ op'[o].outcome = op[o].outcome /\ op'[o].unseen = op[o].unseen
        /\ \A p \in Ops : p # o => op'[p] = op[p]
        /\ op[o].state = "delivered"
    BY <1>24, <1>b, GoesOn DEF turnStarted
  <2>m. Marks(o, "running")
    <3>1. "running" \in Statuses /\ op[o].thread \in Threads
      BY <1>q, <2>1 DEF Statuses
    <3> QED BY <1>24, <1>b, <3>1, MarksByOperation, MarksByThread DEF turnStarted
  <2>mt. /\ task' \in [Tasks -> TaskRows]
         /\ \A u \in Tasks :
              /\ task'[u].exists = task[u].exists /\ task'[u].op = task[u].op
              /\ task'[u].spec = task[u].spec /\ task'[u].thread = task[u].thread
              /\ task'[u].version = task[u].version /\ task'[u].next = task[u].next
    BY <2>m DEF Marks, Same
  <2>u. UNCHANGED <<clock, online, thread, worker, claim, given, faults>>
    BY <1>24 DEF turnStarted
  <2>s. \A v \in Workers : Session(v)' = Session(v)
    BY <2>u DEF Session, Current
  <2>type. SchedulerTypeOK'
    BY <1>a, <1>b, <2>1, <2>m, <2>mt, <2>u DEF SchedulerTypeOK
  <2>rows. \A u \in Tasks : RowMoves(u)
    BY <1>b, <1>t, <2>m, <2>mt, <2>u DEF RowMoves
  <2>work. \A v \in Workers : ReadMoves(v)
    BY <2>u DEF ReadMoves
  <2>read. ReadWasDue'
    BY <1>a, <1>b, <2>m, <2>mt, <2>u, <2>rows, <2>work, ReadKept
  <2>past. ClaimIsPast'
    BY <1>a, <1>b, <2>m, <2>mt, <2>u, <2>rows, PastKept
  <2>once. OccurrenceOnce'
    BY <1>a, <2>u DEF OccurrenceOnce
  <2>current. ClaimedIsCurrent'
    BY <1>a, <2>u DEF ClaimedIsCurrent
  <2>known. OperationsKnown'
    <3>1. ASSUME NEW v \in Workers, worker'[v].pc = "mark"
         PROVE  op'[worker'[v].op].thread = Session(v)' /\ op'[worker'[v].op].state # "none"
      BY <3>1, <1>k, <1>o, <2>1, <2>m, <2>mt, <2>u, <2>s
    <3>2. ASSUME NEW v \in Workers, worker'[v].pc = "mark", NEW u \in Tasks
         PROVE  task'[u].op # worker'[v].op
      BY <3>2, <1>k, <1>l, <1>o, <2>1, <2>m, <2>mt, <2>u, <2>s
    <3>3. ASSUME NEW v \in Workers, NEW x \in Workers, worker'[v].pc = "mark",
                worker'[x].pc = "mark", worker'[x].op = worker'[v].op
         PROVE  x = v
      BY <3>3, <1>k, <1>l, <2>1, <2>m, <2>mt, <2>u, <2>s
    <3>4. ASSUME NEW u \in Tasks, task'[u].op # None
         PROVE  op'[task'[u].op].state # "none"
      BY <3>4, <1>t, <1>m, <2>1, <2>m, <2>mt, <2>u, <2>s
    <3>5. ASSUME NEW p \in Ops
         PROVE  /\ op'[p].state # "none" => op'[p].thread \in Threads
                /\ op'[p].state = "ended" => op'[p].outcome # "none"
                /\ op'[p].state = "queued" => op'[p].outcome = "none"
      BY <3>5, <1>p, <1>q, <2>1, <2>m, <2>mt, <2>u, <2>s
    <3> QED BY <3>1, <3>2, <3>3, <3>4, <3>5 DEF OperationsKnown
  <2>turn. SessionHasItsTurn'
    <3>1. ASSUME NEW g \in Threads, thread'[g] \in Ops
         PROVE  /\ op'[thread'[g]].thread = g
                /\ op'[thread'[g]].state \notin {"none", "ended"}
      BY <3>1, <1>o, <1>j, <2>1, <2>mt, <2>u
    <3>2. ASSUME NEW p \in Ops, op'[p].state \notin {"none", "ended"}, op'[p].thread \notin given'
         PROVE  thread'[op'[p].thread] = p /\ op'[p].outcome = "none"
      BY <3>2, <1>i, <1>o, <1>p, <1>q, <2>1, <2>mt, <2>u
    <3> QED BY <3>1, <3>2 DEF SessionHasItsTurn
  <2>holder. OneHolder'
    BY <1>a, <2>u DEF OneHolder, Session, Current
  <2>shown. ShownRunIsItsOwn'
    <3>1. ASSUME NEW u \in Tasks, task'[u].exists, task'[u].op # None, ~op'[task'[u].op].unseen,
                 op'[task'[u].op].thread = task'[u].thread, task'[u].thread \notin given'
          PROVE  \/ task'[u].status = op'[task'[u].op].outcome
                 \/ op'[task'[u].op].outcome = "none" /\ task'[u].status \in {"queued", "running"}
      <4>1. PICK p \in Ops : p = task[u].op
        BY <3>1, <1>t, <2>mt
      <4>2. /\ task[u].exists /\ ~op[p].unseen /\ op[p].thread = task[u].thread
            /\ task[u].thread \notin given /\ op[p].state # "none"
        BY <3>1, <4>1, <1>o, <1>m, <2>1, <2>mt, <2>u
      <4>3. \/ task[u].status = op[p].outcome
            \/ op[p].outcome = "none" /\ task[u].status \in {"queued", "running"}
        BY <1>v, <1>o, <4>1, <4>2
      <4>4. \/ task'[u].status = task[u].status
            \/ /\ task[u].status \in {"queued", "running"} /\ task'[u].status = "running"
               /\ p = o \/ task[u].thread = op[o].thread
        BY <2>m, <4>1 DEF Marks
      <4> QED BY <1>p, <2>1, <2>u, <2>mt, <4>1, <4>3, <4>4 DEF Outcomes
    <3> QED BY <3>1 DEF ShownRunIsItsOwn
  <2> QED BY <2>type, <2>read, <2>past, <2>once, <2>current, <2>known, <2>turn, <2>holder,
             <2>shown DEF SchedulerInv
<1>25. ASSUME NEW o \in Ops, turnAccepted(o) PROVE SchedulerInv'
  <2>1. op[o].state \in {"running", "ended"}
    BY <1>25 DEF turnAccepted
  <2>2. "running" \in Statuses
    BY DEF Statuses
  <2>m. Marks(o, "running")
    BY <1>25, <1>b, <2>2, MarksByOperation DEF turnAccepted
  <2>mt. /\ task' \in [Tasks -> TaskRows]
         /\ \A u \in Tasks :
              /\ task'[u].exists = task[u].exists /\ task'[u].op = task[u].op
              /\ task'[u].spec = task[u].spec /\ task'[u].thread = task[u].thread
              /\ task'[u].version = task[u].version /\ task'[u].next = task[u].next
    BY <2>m DEF Marks, Same
  <2>u. UNCHANGED <<clock, online, thread, op, worker, claim, given, faults>>
    BY <1>25 DEF turnAccepted
  <2>s. \A v \in Workers : Session(v)' = Session(v)
    BY <2>u DEF Session, Current
  <2>type. SchedulerTypeOK'
    BY <1>a, <1>b, <2>1, <2>2, <2>m, <2>mt, <2>u DEF SchedulerTypeOK
  <2>rows. \A u \in Tasks : RowMoves(u)
    BY <1>b, <1>t, <2>m, <2>mt, <2>u DEF RowMoves
  <2>work. \A v \in Workers : ReadMoves(v)
    BY <2>u DEF ReadMoves
  <2>read. ReadWasDue'
    BY <1>a, <1>b, <2>m, <2>mt, <2>u, <2>rows, <2>work, ReadKept
  <2>past. ClaimIsPast'
    BY <1>a, <1>b, <2>m, <2>mt, <2>u, <2>rows, PastKept
  <2>once. OccurrenceOnce'
    BY <1>a, <2>u DEF OccurrenceOnce
  <2>current. ClaimedIsCurrent'
    BY <1>a, <2>u DEF ClaimedIsCurrent
  <2>known. OperationsKnown'
    <3>1. ASSUME NEW v \in Workers, worker'[v].pc = "mark"
         PROVE  op'[worker'[v].op].thread = Session(v)' /\ op'[worker'[v].op].state # "none"
      BY <3>1, <1>k, <1>o, <2>1, <2>m, <2>mt, <2>u, <2>s
    <3>2. ASSUME NEW v \in Workers, worker'[v].pc = "mark", NEW u \in Tasks
         PROVE  task'[u].op # worker'[v].op
      BY <3>2, <1>k, <1>l, <1>o, <2>1, <2>m, <2>mt, <2>u, <2>s
    <3>3. ASSUME NEW v \in Workers, NEW x \in Workers, worker'[v].pc = "mark",
                worker'[x].pc = "mark", worker'[x].op = worker'[v].op
         PROVE  x = v
      BY <3>3, <1>k, <1>l, <2>1, <2>m, <2>mt, <2>u, <2>s
    <3>4. ASSUME NEW u \in Tasks, task'[u].op # None
         PROVE  op'[task'[u].op].state # "none"
      BY <3>4, <1>t, <1>m, <2>1, <2>m, <2>mt, <2>u, <2>s
    <3>5. ASSUME NEW p \in Ops
         PROVE  /\ op'[p].state # "none" => op'[p].thread \in Threads
                /\ op'[p].state = "ended" => op'[p].outcome # "none"
                /\ op'[p].state = "queued" => op'[p].outcome = "none"
      BY <3>5, <1>p, <1>q, <2>1, <2>m, <2>mt, <2>u, <2>s
    <3> QED BY <3>1, <3>2, <3>3, <3>4, <3>5 DEF OperationsKnown
  <2>turn. SessionHasItsTurn'
    BY <1>a, <2>u DEF SessionHasItsTurn
  <2>holder. OneHolder'
    BY <1>a, <2>u DEF OneHolder, Session, Current
  <2>shown. ShownRunIsItsOwn'
    <3>1. ASSUME NEW u \in Tasks, task'[u].exists, task'[u].op # None, ~op'[task'[u].op].unseen,
                 op'[task'[u].op].thread = task'[u].thread, task'[u].thread \notin given'
          PROVE  \/ task'[u].status = op'[task'[u].op].outcome
                 \/ op'[task'[u].op].outcome = "none" /\ task'[u].status \in {"queued", "running"}
      <4>1. PICK p \in Ops : p = task[u].op
        BY <3>1, <1>t, <2>mt
      <4>2. /\ task[u].exists /\ ~op[p].unseen /\ op[p].thread = task[u].thread
            /\ task[u].thread \notin given /\ op[p].state # "none"
        BY <3>1, <4>1, <1>o, <1>m, <2>1, <2>mt, <2>u
      <4>3. \/ task[u].status = op[p].outcome
            \/ op[p].outcome = "none" /\ task[u].status \in {"queued", "running"}
        BY <1>v, <1>o, <4>1, <4>2
      <4>4. \/ task'[u].status = task[u].status
            \/ /\ task[u].status \in {"queued", "running"} /\ task'[u].status = "running"
               /\ p = o \/ task[u].thread = op[o].thread
        BY <2>m, <4>1 DEF Marks
      <4> QED BY <1>p, <2>1, <2>u, <2>mt, <4>1, <4>3, <4>4 DEF Outcomes
    <3> QED BY <3>1 DEF ShownRunIsItsOwn
  <2> QED BY <2>type, <2>read, <2>past, <2>once, <2>current, <2>known, <2>turn, <2>holder,
             <2>shown DEF SchedulerInv
<1>26. ASSUME NEW o \in Ops, turnLost(o) PROVE SchedulerInv'
  <2>f. faults' = faults + 1
    BY <1>26 DEF turnLost, Fault
  <2>1. /\ op' \in [Ops -> OpRows]
        /\ op'[o].state = "lost" /\ op'[o].thread = op[o].thread
        /\ op'[o].outcome = op[o].outcome /\ op'[o].unseen = op[o].unseen
        /\ \A p \in Ops : p # o => op'[p] = op[p]
        /\ op[o].state \in {"delivered", "running"}
    BY <1>26, <1>b, GoesOn DEF turnLost
  <2>u. UNCHANGED <<clock, online, task, thread, worker, claim, given>>
    BY <1>26 DEF turnLost
  <2>s. \A v \in Workers : Session(v)' = Session(v)
    BY <2>u DEF Session, Current
  <2>type. SchedulerTypeOK'
    BY <1>a, <1>b, <2>f, <2>1, <2>u DEF SchedulerTypeOK
  <2>read. ReadWasDue'
    BY <1>a, <2>u DEF ReadWasDue
  <2>past. ClaimIsPast'
    BY <1>a, <2>u DEF ClaimIsPast
  <2>once. OccurrenceOnce'
    BY <1>a, <2>u DEF OccurrenceOnce
  <2>current. ClaimedIsCurrent'
    BY <1>a, <2>u DEF ClaimedIsCurrent
  <2>known. OperationsKnown'
    <3>1. ASSUME NEW v \in Workers, worker'[v].pc = "mark"
         PROVE  op'[worker'[v].op].thread = Session(v)' /\ op'[worker'[v].op].state # "none"
      BY <3>1, <1>k, <1>o, <2>1, <2>u, <2>s
    <3>2. ASSUME NEW v \in Workers, worker'[v].pc = "mark", NEW u \in Tasks
         PROVE  task'[u].op # worker'[v].op
      BY <3>2, <1>k, <1>l, <1>o, <2>1, <2>u, <2>s
    <3>3. ASSUME NEW v \in Workers, NEW x \in Workers, worker'[v].pc = "mark",
                worker'[x].pc = "mark", worker'[x].op = worker'[v].op
         PROVE  x = v
      BY <3>3, <1>k, <1>l, <2>1, <2>u, <2>s
    <3>4. ASSUME NEW u \in Tasks, task'[u].op # None
         PROVE  op'[task'[u].op].state # "none"
      BY <3>4, <1>t, <1>m, <2>1, <2>u, <2>s
    <3>5. ASSUME NEW p \in Ops
         PROVE  /\ op'[p].state # "none" => op'[p].thread \in Threads
                /\ op'[p].state = "ended" => op'[p].outcome # "none"
                /\ op'[p].state = "queued" => op'[p].outcome = "none"
      BY <3>5, <1>p, <1>q, <2>1, <2>u, <2>s
    <3> QED BY <3>1, <3>2, <3>3, <3>4, <3>5 DEF OperationsKnown
  <2>turn. SessionHasItsTurn'
    <3>1. ASSUME NEW g \in Threads, thread'[g] \in Ops
         PROVE  /\ op'[thread'[g]].thread = g
                /\ op'[thread'[g]].state \notin {"none", "ended"}
      BY <3>1, <1>o, <1>j, <2>1, <2>u
    <3>2. ASSUME NEW p \in Ops, op'[p].state \notin {"none", "ended"}, op'[p].thread \notin given'
         PROVE  thread'[op'[p].thread] = p /\ op'[p].outcome = "none"
      BY <3>2, <1>i, <1>o, <1>p, <1>q, <2>1, <2>u
    <3> QED BY <3>1, <3>2 DEF SessionHasItsTurn
  <2>holder. OneHolder'
    <3>1. ASSUME NEW v \in Workers, worker'[v].pc = "queue", Session(v)' \notin given'
         PROVE  thread'[Session(v)'] = Stuck
      BY <3>1, <1>h, <1>o, <2>f, <2>1, <2>u, <2>s
    <3>2. ASSUME NEW v \in Workers, NEW x \in Workers, worker'[v].pc = "queue",
                worker'[x].pc = "queue", Session(v)' \notin given', Session(x)' = Session(v)'
         PROVE  x = v
      BY <3>2, <1>h, <1>x, <1>o, <2>f, <2>1, <2>u, <2>s
    <3>3. ASSUME NEW g \in Threads, thread'[g] = Stuck, faults' = 0
         PROVE  \E v \in Workers : worker'[v].pc = "queue" /\ Session(v)' = g
      <4>1. faults' # 0
        BY <1>b, <2>f
      <4> QED BY <4>1, <3>3
    <3> QED BY <3>1, <3>2, <3>3 DEF OneHolder
  <2>shown. ShownRunIsItsOwn'
    <3>1. ASSUME NEW u \in Tasks, task'[u].exists, task'[u].op # None, ~op'[task'[u].op].unseen,
                 op'[task'[u].op].thread = task'[u].thread, task'[u].thread \notin given'
          PROVE  \/ task'[u].status = op'[task'[u].op].outcome
                 \/ op'[task'[u].op].outcome = "none" /\ task'[u].status \in {"queued", "running"}
      BY <3>1, <1>t, <1>p, <1>q, <1>v, <1>o, <2>1, <2>u
    <3> QED BY <3>1 DEF ShownRunIsItsOwn
  <2> QED BY <2>type, <2>read, <2>past, <2>once, <2>current, <2>known, <2>turn, <2>holder,
             <2>shown DEF SchedulerInv
<1>27. ASSUME NEW o \in Ops, NEW result \in Outcomes, Ended(o, result), Marks(o, result), op[o].state \notin {"none", "ended"},
             UNCHANGED <<clock, online, worker, claim, given, faults>>
      PROVE  SchedulerInv'
  <2>1. /\ op' \in [Ops -> OpRows]
        /\ thread' \in [Threads -> Ops \cup {Free, Stuck, Archived}]
        /\ op'[o].state = "ended" /\ op'[o].thread = op[o].thread
        /\ op'[o].unseen = op[o].unseen
        /\ op'[o].outcome = IF op[o].outcome = "none" THEN result ELSE op[o].outcome
        /\ \A p \in Ops : p # o => op'[p] = op[p]
        /\ \A g \in Threads : thread'[g] = IF g = op[o].thread /\ thread[g] = o THEN Free
                                           ELSE thread[g]
    BY <1>27, <1>b, Over
  <2>m. Marks(o, result) /\ op[o].state \notin {"none", "ended"}
    BY <1>27
  <2>mt. /\ task' \in [Tasks -> TaskRows]
         /\ \A u \in Tasks :
              /\ task'[u].exists = task[u].exists /\ task'[u].op = task[u].op
              /\ task'[u].spec = task[u].spec /\ task'[u].thread = task[u].thread
              /\ task'[u].version = task[u].version /\ task'[u].next = task[u].next
    BY <2>m DEF Marks, Same
  <2>u. UNCHANGED <<clock, online, worker, claim, given, faults>>
    BY <1>27
  <2>s. \A v \in Workers : Session(v)' = Session(v)
    BY <2>u DEF Session, Current
  <2>type. SchedulerTypeOK'
    BY <1>a, <1>b, <2>1, <2>m, <2>mt, <2>u DEF SchedulerTypeOK
  <2>rows. \A u \in Tasks : RowMoves(u)
    BY <1>b, <1>t, <2>m, <2>mt, <2>u DEF RowMoves
  <2>work. \A v \in Workers : ReadMoves(v)
    BY <2>u DEF ReadMoves
  <2>read. ReadWasDue'
    BY <1>a, <1>b, <2>m, <2>mt, <2>u, <2>rows, <2>work, ReadKept
  <2>past. ClaimIsPast'
    BY <1>a, <1>b, <2>m, <2>mt, <2>u, <2>rows, PastKept
  <2>once. OccurrenceOnce'
    BY <1>a, <2>u DEF OccurrenceOnce
  <2>current. ClaimedIsCurrent'
    BY <1>a, <2>u DEF ClaimedIsCurrent
  <2>known. OperationsKnown'
    <3>1. ASSUME NEW v \in Workers, worker'[v].pc = "mark"
         PROVE  op'[worker'[v].op].thread = Session(v)' /\ op'[worker'[v].op].state # "none"
      BY <3>1, <1>k, <1>o, <2>1, <2>m, <2>mt, <2>u, <2>s
    <3>2. ASSUME NEW v \in Workers, worker'[v].pc = "mark", NEW u \in Tasks
         PROVE  task'[u].op # worker'[v].op
      BY <3>2, <1>k, <1>l, <1>o, <2>1, <2>m, <2>mt, <2>u, <2>s
    <3>3. ASSUME NEW v \in Workers, NEW x \in Workers, worker'[v].pc = "mark",
                worker'[x].pc = "mark", worker'[x].op = worker'[v].op
         PROVE  x = v
      BY <3>3, <1>k, <1>l, <2>1, <2>m, <2>mt, <2>u, <2>s
    <3>4. ASSUME NEW u \in Tasks, task'[u].op # None
         PROVE  op'[task'[u].op].state # "none"
      BY <3>4, <1>t, <1>m, <2>1, <2>m, <2>mt, <2>u, <2>s
    <3>5. ASSUME NEW p \in Ops
         PROVE  /\ op'[p].state # "none" => op'[p].thread \in Threads
                /\ op'[p].state = "ended" => op'[p].outcome # "none"
                /\ op'[p].state = "queued" => op'[p].outcome = "none"
      BY <3>5, <1>p, <1>q, <2>1, <2>m, <2>mt, <2>u, <2>s DEF Outcomes
    <3> QED BY <3>1, <3>2, <3>3, <3>4, <3>5 DEF OperationsKnown
  <2>turn. SessionHasItsTurn'
    <3>1. ASSUME NEW g \in Threads, thread'[g] \in Ops
         PROVE  /\ op'[thread'[g]].thread = g
                /\ op'[thread'[g]].state \notin {"none", "ended"}
      BY <3>1, <1>o, <1>j, <2>1, <2>m, <2>mt, <2>u
    <3>2. ASSUME NEW p \in Ops, op'[p].state \notin {"none", "ended"}, op'[p].thread \notin given'
         PROVE  thread'[op'[p].thread] = p /\ op'[p].outcome = "none"
      BY <3>2, <1>i, <1>o, <1>p, <1>q, <2>1, <2>m, <2>mt, <2>u
    <3> QED BY <3>1, <3>2 DEF SessionHasItsTurn
  <2>holder. OneHolder'
    <3>1. ASSUME NEW v \in Workers, worker'[v].pc = "queue", Session(v)' \notin given'
         PROVE  thread'[Session(v)'] = Stuck
      BY <3>1, <1>h, <1>o, <2>1, <2>mt, <2>u, <2>s, <1>i, <1>j
    <3>2. ASSUME NEW v \in Workers, NEW x \in Workers, worker'[v].pc = "queue",
                worker'[x].pc = "queue", Session(v)' \notin given', Session(x)' = Session(v)'
         PROVE  x = v
      BY <3>2, <1>h, <1>x, <1>o, <2>1, <2>mt, <2>u, <2>s, <1>i, <1>j
    <3>3. ASSUME NEW g \in Threads, thread'[g] = Stuck, faults' = 0
         PROVE  \E v \in Workers : worker'[v].pc = "queue" /\ Session(v)' = g
      BY <3>3, <1>h, <1>o, <1>r, <2>1, <2>mt, <2>u, <2>s, <1>i, <1>j
    <3> QED BY <3>1, <3>2, <3>3 DEF OneHolder
  <2>shown. ShownRunIsItsOwn'
    <3>1. ASSUME NEW u \in Tasks, task'[u].exists, task'[u].op # None, ~op'[task'[u].op].unseen,
                 op'[task'[u].op].thread = task'[u].thread, task'[u].thread \notin given'
          PROVE  \/ task'[u].status = op'[task'[u].op].outcome
                 \/ op'[task'[u].op].outcome = "none" /\ task'[u].status \in {"queued", "running"}
      <4>1. PICK p \in Ops : p = task[u].op
        BY <3>1, <1>t, <2>mt
      <4>2. /\ task[u].exists /\ ~op[p].unseen /\ op[p].thread = task[u].thread
            /\ task[u].thread \notin given /\ op[p].state # "none"
        BY <3>1, <4>1, <1>o, <1>m, <2>1, <2>mt, <2>u
      <4>3. \/ task[u].status = op[p].outcome
            \/ op[p].outcome = "none" /\ task[u].status \in {"queued", "running"}
        BY <1>v, <1>o, <4>1, <4>2
      <4>4. \/ task'[u].status = task[u].status
            \/ /\ task[u].status \in {"queued", "running"} /\ task'[u].status = result
               /\ p = o \/ task[u].thread = op[o].thread
        BY <2>m, <4>1 DEF Marks
      <4>5. CASE p = o
        <5>1. task[u].status \in {"queued", "running"} => task'[u].status = result
          BY <2>m, <4>1, <4>2, <4>5 DEF Marks
        <5>2. PICK q : q = task'[u].op
          OBVIOUS
        <5>3. q = o
          BY <2>mt, <4>1, <4>5, <5>2
        <5>4. CASE op[o].outcome = "none"
          <6>1. task[u].status # "none"
            BY <1>t DEF Statuses, Outcomes
          <6>2. task'[u].status = result /\ op'[o].outcome = result
            BY <2>1, <4>3, <4>5, <5>1, <5>4, <6>1
          <6> QED BY <5>2, <5>3, <6>2
        <5>5. CASE op[o].outcome # "none"
          <6>1. task[u].status = op[o].outcome /\ op[o].outcome \in Outcomes
            BY <1>p, <4>3, <4>5, <5>5
          <6>2. task'[u].status = task[u].status /\ op'[o].outcome = op[o].outcome
            BY <2>1, <4>4, <5>5, <6>1 DEF Outcomes
          <6> QED BY <5>2, <5>3, <6>1, <6>2
        <5> QED BY <5>4, <5>5
      <4>6. CASE p # o
        <5>1. ASSUME op[p].outcome = "none" PROVE task[u].thread # op[o].thread
          BY <1>i, <1>q, <2>m, <4>2, <4>6, <5>1
        <5>2. task[u].status \in {"queued", "running"} => op[p].outcome = "none"
          BY <1>p, <4>3 DEF Outcomes
        <5> QED BY <2>1, <2>mt, <4>1, <4>3, <4>4, <4>6, <5>1, <5>2
      <4> QED BY <4>5, <4>6
    <3> QED BY <3>1 DEF ShownRunIsItsOwn
  <2> QED BY <2>type, <2>read, <2>past, <2>once, <2>current, <2>known, <2>turn, <2>holder,
             <2>shown DEF SchedulerInv
<1>28. ASSUME NEW o \in Ops, cancelQueued(o) PROVE SchedulerInv'
  <2>1. op[o].state = "queued" /\ "cancelled" \in Outcomes /\ "cancelled" \in Statuses
    BY <1>28 DEF cancelQueued, Outcomes, Statuses
  <2>2. Marks(o, "cancelled")
    BY <1>28, <1>b, <2>1, MarksByOperation DEF cancelQueued
  <2> QED BY <1>28, <2>1, <2>2, <1>27 DEF cancelQueued
<1>29. ASSUME NEW o \in Ops, noActiveTurn(o) PROVE SchedulerInv'
  <2>1. op[o].state = "lost" /\ "cancelled" \in Outcomes /\ "cancelled" \in Statuses
    BY <1>29 DEF noActiveTurn, Outcomes, Statuses
  <2>2. op[o].thread \in Threads
    BY <1>q, <2>1
  <2>3. Marks(o, "cancelled")
    BY <1>29, <1>b, <2>1, <2>2, MarksByOperation, MarksByThread DEF noActiveTurn
  <2> QED BY <1>29, <2>1, <2>3, <1>27 DEF noActiveTurn
<1>30. ASSUME NEW o \in Ops, NEW result \in Outcomes, turnEnded(o, result) PROVE SchedulerInv'
  <2>1. op[o].state \in {"running", "delivered"} /\ result \in Statuses
    BY <1>30 DEF turnEnded, Outcomes, Statuses
  <2>2. op[o].thread \in Threads
    BY <1>q, <2>1
  <2>3. Marks(o, result)
    BY <1>30, <1>b, <2>1, <2>2, MarksByOperation, MarksByThread DEF turnEnded
  <2> QED BY <1>30, <2>1, <2>3, <1>27 DEF turnEnded
<1> QED BY <1>1, <1>2, <1>3, <1>4, <1>5, <1>6, <1>7, <1>8, <1>12, <1>13, <1>14, <1>15, <1>16,
           <1>17, <1>18, <1>19, <1>20, <1>21, <1>22, <1>23, <1>24, <1>25, <1>26, <1>28, <1>29,
           <1>30 DEF NextStep, Step, Enqueue, Turn, User

-----------------------------------------------------------------------------
(* The theorems *)

\* The initial state has the conjunction.
LEMMA InitInv == Init => SchedulerInv
<1> SUFFICES ASSUME Init PROVE SchedulerInv
  OBVIOUS
<1>1. PICK a : a = NoTask
  OBVIOUS
<1>2. PICK b : b = NoOp
  OBVIOUS
<1>3. PICK c : c = Idle
  OBVIOUS
<1>4. PICK d : d = [at |-> -1, again |-> FALSE, stale |-> FALSE]
  OBVIOUS
<1>5. /\ a \in TaskRows /\ a.exists = FALSE /\ a.op = None /\ a.next = 0
  BY <1>1 DEF NoTask, TaskRows
<1>6. b \in OpRows /\ b.state = "none"
  BY <1>2 DEF NoOp, OpRows
<1>7. c \in Runners /\ c.pc = "idle" /\ c.now = 0 /\ DOMAIN c.list = {}
  BY <1>3 DEF Idle, Runners
<1>8. d \in Claims /\ d.at = -1 /\ d.again = FALSE /\ d.stale = FALSE
  BY <1>4 DEF Claims
<1>9. /\ clock = 0 /\ online = TRUE /\ given = {} /\ faults = 0
      /\ \A t \in Tasks : task[t] = a /\ claim[t] = d
      /\ \A o \in Ops : op[o] = b
      /\ \A w \in Workers : worker[w] = c
      /\ \A h \in Threads : thread[h] = Free
  BY <1>1, <1>2, <1>3, <1>4 DEF Init
<1>10. /\ task \in [Tasks -> TaskRows] /\ op \in [Ops -> OpRows] /\ claim \in [Tasks -> Claims]
       /\ thread \in [Threads -> Ops \cup {Free, Stuck, Archived}]
       /\ worker \in [Workers -> Runners]
  BY <1>5, <1>6, <1>7, <1>8, <1>9 DEF Init
<1>11. SchedulerTypeOK
  BY <1>5, <1>7, <1>9, <1>10, SchedulerAssumption DEF SchedulerTypeOK
<1>12. ReadWasDue
  BY <1>7, <1>9 DEF ReadWasDue
<1>13. ClaimIsPast /\ OccurrenceOnce /\ ClaimedIsCurrent
  BY <1>5, <1>8, <1>9 DEF ClaimIsPast, OccurrenceOnce, ClaimedIsCurrent
<1>14. OperationsKnown
  BY <1>5, <1>6, <1>7, <1>9 DEF OperationsKnown
<1>15. Free \notin Ops /\ Free # Stuck
  BY SchedulerAssumption
<1>16. SessionHasItsTurn
  BY <1>6, <1>9, <1>15 DEF SessionHasItsTurn
<1>17. OneHolder
  BY <1>7, <1>9, <1>15 DEF OneHolder
<1>18. ShownRunIsItsOwn
  BY <1>5, <1>9 DEF ShownRunIsItsOwn
<1> QED BY <1>11, <1>12, <1>13, <1>14, <1>16, <1>17, <1>18 DEF SchedulerInv

\* So do its successors.
LEMMA InvStep == SchedulerInv /\ [NextStep]_vars => SchedulerInv'
<1>1. ASSUME SchedulerInv, UNCHANGED vars PROVE SchedulerInv'
  BY <1>1 DEF vars, SchedulerInv, SchedulerTypeOK, ReadWasDue, ClaimIsPast, OccurrenceOnce,
     ClaimedIsCurrent, OperationsKnown, SessionHasItsTurn, OneHolder, ShownRunIsItsOwn, Session,
     Current
<1> QED BY <1>1, StepInv

\* The conjunction is an invariant.
THEOREM SchedulerInvariant == Spec => []SchedulerInv
<1>1. Init => SchedulerInv
  BY InitInv
<1>2. SchedulerInv /\ [NextStep]_vars => SchedulerInv'
  BY InvStep
<1> QED BY <1>1, <1>2, PTL DEF Spec

\* The state has the shape of the tables'.
THEOREM SchedulerTypeCorrect == Spec => []SchedulerTypeOK
<1>1. SchedulerInv => SchedulerTypeOK
  BY DEF SchedulerInv
<1> QED BY <1>1, SchedulerInvariant, PTL

\* Each claim of a task is of a later occurrence than the one before, whatever the
\* number of control planes, the order of their statements and the times they die.
THEOREM DueRunStartedOnce == Spec => []OccurrenceOnce
<1>1. SchedulerInv => OccurrenceOnce
  BY DEF SchedulerInv
<1> QED BY <1>1, SchedulerInvariant, PTL

\* What was read of a task before its user changed it is not claimed any more: the
\* comparison of the time that was read is enough, without one of versions.
THEOREM ClaimIsOfTheCurrentTask == Spec => []ClaimedIsCurrent
<1>1. SchedulerInv => ClaimedIsCurrent
  BY DEF SchedulerInv
<1> QED BY <1>1, SchedulerInvariant, PTL

\* The outcome that is shown of the last run is its own, although the turns of Codex
\* are recorded by session.
THEOREM OutcomeShownIsOfTheRun == Spec => []ShownRunIsItsOwn
<1>1. SchedulerInv => ShownRunIsItsOwn
  BY DEF SchedulerInv
<1> QED BY <1>1, SchedulerInvariant, PTL

\* The next run is changed by requests of the user, and by a claim, which computes it
\* from what was read of the same version.
LEMMA NextStepOfSchedule ==
    ASSUME SchedulerInv, NextStep, NEW t \in Tasks,
           task'[t].exists, task'[t].next # task[t].next, task'[t].spec.every = 0
    PROVE  /\ Falls(task'[t].spec, task'[t].next)
           /\ \A u \in (clock + 1)..(task'[t].next - 1) : ~Falls(task'[t].spec, u)
<1> DEFINE First(spec, next) == /\ Falls(spec, next)
                                /\ \A u \in (clock + 1)..(next - 1) : ~Falls(spec, u)
<1>a. SchedulerTypeOK /\ ReadWasDue
  BY DEF SchedulerInv
<1>b. /\ clock \in Nat /\ task \in [Tasks -> TaskRows] /\ worker \in [Workers -> Runners]
  BY <1>a, SchedulerAssumption DEF SchedulerTypeOK
<1>c. PICK n : n = task'[t].next
  OBVIOUS
<1>1. ASSUME NEW spec \in Specs, NEW h \in Threads,
             createScheduledTask(t, spec, h) \/ \E b \in BOOLEAN : updateScheduledTask(t, spec, h, b)
      PROVE  First(task'[t].spec, n)
  <2>1. PICK r \in TaskRows : r = task[t]
    BY <1>b
  <2>2. Next(spec, clock) # None
    BY <1>1 DEF createScheduledTask, updateScheduledTask
  <2>3. PICK b : UpdateScheduledTask(t, spec, h, b, Next(spec, clock))
    BY <1>1 DEF createScheduledTask, updateScheduledTask, CreateScheduledTask
  <2>4. task'[t].spec = spec /\ n = Next(spec, clock)
    <3>1. PICK x : x = [r EXCEPT !.exists = TRUE, !.enabled = b, !.spec = spec, !.thread = h,
                                 !.broken = FALSE, !.version = r.version + 1,
                                 !.next = Next(spec, clock)]
      OBVIOUS
    <3>2. x.spec = spec /\ x.next = Next(spec, clock)
      BY <2>1, <3>1 DEF TaskRows
    <3>3. task' = [task EXCEPT ![t] = x]
      BY <2>1, <2>3, <3>1 DEF UpdateScheduledTask
    <3> QED BY <1>b, <1>c, <3>2, <3>3
  <2> QED BY <1>b, <2>2, <2>4, NextIsFirst
<1>2. ASSUME NEW w \in Workers, claimNext(w) PROVE First(task'[t].spec, n)
  <2>k. /\ worker[w].list # <<>> /\ 1 \in DOMAIN worker[w].list /\ Current(w) = worker[w].list[1]
        /\ Current(w).spec \in Specs /\ Current(w).id \in Tasks /\ worker[w].now \in Nat
        /\ Current(w).version \in Nat /\ Current(w).next \in Nat
    <3>1. worker[w].list # <<>>
      BY <1>2, <1>a DEF claimNext, SchedulerTypeOK
    <3> QED BY <1>b, <3>1, AtTask
  <2>1. CASE task' = MarkScheduledTaskRun(Current(w).id, "failed", None)
    <3>1. PICK u \in Tasks : u = Current(w).id
      BY <2>k
    <3>2. "failed" \in Statuses /\ None \in Ops \cup {None} /\ task' = MarkScheduledTaskRun(u, "failed", None)
      BY <2>1, <3>1 DEF Statuses, Outcomes
    <3>3. task'[t].next = task[t].next
      BY <1>b, <3>2, Recorded
    <3> QED BY <3>3
  <2>2. CASE task' # MarkScheduledTaskRun(Current(w).id, "failed", None)
    <3>1. /\ ClaimScheduledTask(Current(w)) /\ Next(Current(w).spec, worker[w].now) # None
          /\ task' = [task EXCEPT ![Current(w).id].next = Next(Current(w).spec, worker[w].now)]
      BY <1>2, <2>2 DEF claimNext
    <3>2. PICK m : m = Next(Current(w).spec, worker[w].now)
      OBVIOUS
    <3>3. /\ m \in Nat /\ m > worker[w].now
          /\ Current(w).spec.every = 0 =>
               (/\ Falls(Current(w).spec, m)
                /\ \A u \in (worker[w].now + 1)..(m - 1) : ~Falls(Current(w).spec, u))
      BY <2>k, <3>1, <3>2, NextIsFirst
    <3>4. PICK u \in Tasks : u = Current(w).id
      BY <2>k
    <3>5. /\ task'[u].next = m /\ task'[u].spec = task[u].spec
          /\ \A v \in Tasks : v # u => task'[v] = task[v]
      <4>1. task' = [task EXCEPT ![u].next = m]
        BY <3>1, <3>2, <3>4
      <4> QED BY <1>b, <3>3, <4>1, Claimed
    <3>6. u = t /\ n = m
      BY <1>c, <3>5
    <3>7. /\ worker[w].now <= clock /\ task[u].exists /\ task[u].next <= Current(w).next
          /\ Current(w).next <= worker[w].now
          /\ Current(w).version = task[u].version /\ task[u].exists =>
               Current(w).spec = task[u].spec
          /\ \/ Current(w).version = task[u].version \/ ~task[u].exists
             \/ task[u].next > worker[w].now
      <4>1. task[u].exists /\ task[u].next <= Current(w).next
        BY <3>1, <3>4 DEF ClaimScheduledTask
      <4>2. PICK r \in Copies : r = worker[w].list[1] /\ r = Current(w)
        BY <1>b, <2>k DEF Runners
      <4>3. /\ worker[w].now <= clock /\ r.next <= worker[w].now
            /\ r.version = task[r.id].version /\ task[r.id].exists => r.spec = task[r.id].spec
            /\ \/ r.version = task[r.id].version \/ ~task[r.id].exists
               \/ task[r.id].next > worker[w].now
        BY <1>a, <2>k, <4>2 DEF ReadWasDue
      <4> QED BY <3>4, <4>1, <4>2, <4>3
    <3>8. Current(w).spec = task[u].spec
      <4>1. task[u].next \in Nat
        BY <1>b, RowTypes
      <4> QED BY <2>k, <3>7, <4>1
    <3>9. \A v \in (clock + 1)..(m - 1) : v \in (worker[w].now + 1)..(m - 1)
      BY <1>b, <2>k, <3>3, <3>7
    <3> QED BY <3>3, <3>5, <3>6, <3>8, <3>9
  <2> QED BY <2>1, <2>2
<1>3. ASSUME NEW u \in Tasks, deleteScheduledTask(u) PROVE First(task'[t].spec, n)
  <2>1. /\ task'[u].exists = FALSE /\ \A v \in Tasks : v # u => task'[v] = task[v]
    BY <1>b, <1>3, Deleted DEF deleteScheduledTask
  <2> QED BY <2>1
<1>s. SUFFICES First(task'[t].spec, n)
  BY <1>c
<1> HIDE DEF First
<1>4. ASSUME NEW u \in Tasks, NEW spec \in Specs, NEW h \in Threads, u # t,
             createScheduledTask(u, spec, h) \/ \E b \in BOOLEAN : updateScheduledTask(u, spec, h, b)
      PROVE  task'[t] = task[t]
  <2>1. PICK x : task' = [task EXCEPT ![u] = x]
    BY <1>4 DEF createScheduledTask, updateScheduledTask, CreateScheduledTask, UpdateScheduledTask
  <2> QED BY <1>b, <1>4, <2>1
<1>6. ASSUME NEW h, NEW st,
             task' = MarkScheduledTaskByThread(h, st) \/ task' = MarkScheduledTaskByOperation(h, st)
      PROVE  task'[t].next = task[t].next
  <2>1. PICK r \in TaskRows : r = task[t]
    BY <1>b
  <2>2. PICK x : x = [r EXCEPT !.status = st]
    OBVIOUS
  <2>3. x.next = r.next
    BY <2>1, <2>2 DEF TaskRows
  <2>4. task'[t] = r \/ task'[t] = x
    BY <1>6, <2>1, <2>2 DEF MarkScheduledTaskByThread, MarkScheduledTaskByOperation
  <2> QED BY <2>1, <2>3, <2>4
<1>7. ASSUME NEW o \in Ops, Turn(o) PROVE task'[t].next = task[t].next
  <2>1. CASE deliver(o) \/ turnLost(o)
    BY <2>1 DEF deliver, turnLost
  <2>2. CASE turnStarted(o) \/ turnAccepted(o)
    BY <1>6, <2>2 DEF turnStarted, turnAccepted
  <2>3. CASE cancelQueued(o) \/ noActiveTurn(o)
    BY <1>6, <2>3 DEF cancelQueued, noActiveTurn
  <2>4. ASSUME NEW result \in Outcomes, turnEnded(o, result) PROVE task'[t].next = task[t].next
    BY <1>6, <2>4 DEF turnEnded
  <2> QED BY <1>7, <2>1, <2>2, <2>3, <2>4 DEF Turn
<1>8. ASSUME NEW w \in Workers, Enqueue(w) \/ queueFails(w) \/ eventFails(w)
      PROVE  task'[t].next = task[t].next
  <2>1. task' = task \/ \E st, o : task' = MarkScheduledTaskRun(Current(w).id, st, o)
    BY <1>8 DEF Enqueue, skip, ClaimThreadForTurn, recordRun, QueueResourceOperation,
       QueueCliTurn,
       queueFails, eventFails, Give
  <2>2. ASSUME NEW st, NEW o, task' = MarkScheduledTaskRun(Current(w).id, st, o)
        PROVE  task'[t].next = task[t].next
    <3>1. PICK r \in TaskRows : r = task[t]
      BY <1>b
    <3>2. PICK x : x = [r EXCEPT !.status = st, !.op = o]
      OBVIOUS
    <3>3. x.next = r.next
      BY <3>1, <3>2 DEF TaskRows
    <3>4. task'[t] = r \/ task'[t] = x
      BY <1>b, <2>2, <3>1, <3>2 DEF MarkScheduledTaskRun
    <3> QED BY <3>1, <3>3, <3>4
  <2> QED BY <2>1, <2>2
<1>9. ASSUME NEW u \in Tasks, zoneIsUnknown(u) PROVE task'[t].next = task[t].next
  BY <1>b, <1>9, Broken DEF zoneIsUnknown, Same
<1>10. ASSUME NEW w \in Workers, tick(w) \/ recordFails(w) \/ restart(w)
       PROVE  task'[t].next = task[t].next
  BY <1>10 DEF tick, recordFails, restart
<1>11. CASE User
  <2>1. ASSUME NEW u \in Tasks, NEW spec \in Specs, NEW h \in Threads,
               createScheduledTask(u, spec, h) \/ \E b \in BOOLEAN : updateScheduledTask(u, spec, h, b)
        PROVE  First(task'[t].spec, n)
    BY <1>1, <1>4, <2>1
  <2>2. ASSUME NEW h \in Threads, archive(h) \/ \E o \in Ops : handleTurn(h, o)
        PROVE  task'[t].next = task[t].next
    BY <2>2 DEF archive, handleTurn
  <2>3. CASE \E u \in Tasks : deleteScheduledTask(u)
    BY <1>3, <2>3
  <2>4. CASE \E h \in Threads : archive(h) \/ \E o \in Ops : handleTurn(h, o)
    BY <2>2, <2>4
  <2>5. CASE \E u \in Tasks, spec \in Specs, h \in Threads :
               \/ createScheduledTask(u, spec, h)
               \/ \E b \in BOOLEAN : updateScheduledTask(u, spec, h, b)
    BY <2>1, <2>5
  <2> QED BY <1>11, <2>3, <2>4, <2>5 DEF User
<1>12. CASE Minute \/ connection
  BY <1>12 DEF Minute, connection
<1>13. CASE \E w \in Workers : Step(w) \/ queueFails(w) \/ eventFails(w) \/ recordFails(w) \/ restart(w)
  <2>1. PICK w \in Workers : Step(w) \/ queueFails(w) \/ eventFails(w) \/ recordFails(w) \/ restart(w)
    BY <1>13
  <2> QED BY <1>2, <1>8, <1>10, <2>1 DEF Step
<1>14. CASE (\E u \in Tasks : zoneIsUnknown(u)) \/ \E o \in Ops : Turn(o)
  BY <1>7, <1>9, <1>14
<1> QED BY <1>11, <1>12, <1>13, <1>14 DEF NextStep

\* The next run is the first minute to come of the schedule, although a claim computes
\* it from a copy that was read earlier, while users change the task.
THEOREM NextRunIsFirstOfSchedule == Spec => NextIsOfSchedule
<1>1. SchedulerInv /\ [NextStep]_vars =>
        [\A t \in Tasks :
           task'[t].exists /\ task'[t].next # task[t].next /\ task'[t].spec.every = 0 =>
             /\ Falls(task'[t].spec, task'[t].next)
             /\ \A u \in (clock + 1)..(task'[t].next - 1) : ~Falls(task'[t].spec, u)]_vars
  <2>1. ASSUME SchedulerInv, NextStep
        PROVE  \A t \in Tasks :
                 task'[t].exists /\ task'[t].next # task[t].next /\ task'[t].spec.every = 0 =>
                   /\ Falls(task'[t].spec, task'[t].next)
                   /\ \A u \in (clock + 1)..(task'[t].next - 1) : ~Falls(task'[t].spec, u)
    BY <2>1, NextStepOfSchedule
  <2> QED BY <2>1
<1> QED BY <1>1, SchedulerInvariant, PTL DEF Spec, NextIsOfSchedule
=============================================================================
