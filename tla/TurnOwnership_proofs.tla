------------------------- MODULE TurnOwnership_proofs -------------------------
(***************************************************************************)
(* Theorems about TurnOwnership, for any number of conversations, turns    *)
(* and stops, messages under way and faults.                               *)
(***************************************************************************)
EXTENDS TurnOwnership, TLAPS

\* What is in a queue after each thing that can happen to it.
LEMMA QueueLemma ==
    ASSUME NEW S, NEW q \in Seq(S)
    PROVE  /\ \A m \in S : Append(q, m) \in Seq(S) /\ Range(Append(q, m)) = Range(q) \cup {m}
           /\ q # <<>> => /\ Tail(q) \in Seq(S) /\ Head(q) \in S
                         /\ Head(q) \in Range(q) /\ Range(Tail(q)) \subseteq Range(q)
           /\ \A k \in 0..Len(q) : /\ SubSeq(q, 1, k) \in Seq(S)
                                   /\ Range(SubSeq(q, 1, k)) \subseteq Range(q)
                                   /\ SubSeq(q, k + 1, Len(q)) \in Seq(S)
                                   /\ Range(SubSeq(q, k + 1, Len(q))) \subseteq Range(q)
           /\ Range(q) \subseteq S
<1>1. ASSUME NEW m \in S
      PROVE  Append(q, m) \in Seq(S) /\ Range(Append(q, m)) = Range(q) \cup {m}
  <2>1. Append(q, m) \in Seq(S) /\ DOMAIN Append(q, m) = 1..(Len(q) + 1)
    OBVIOUS
  <2>2. \A i \in 1..Len(q) : Append(q, m)[i] = q[i]
    OBVIOUS
  <2>3. Append(q, m)[Len(q) + 1] = m /\ Len(q) \in Nat /\ DOMAIN q = 1..Len(q)
    OBVIOUS
  <2> QED BY <2>1, <2>2, <2>3 DEF Range
<1>2. ASSUME q # <<>>
      PROVE  /\ Tail(q) \in Seq(S) /\ Head(q) \in S
             /\ Head(q) \in Range(q) /\ Range(Tail(q)) \subseteq Range(q)
  <2>1. Tail(q) \in Seq(S) /\ Head(q) = q[1] /\ 1 \in DOMAIN q
    BY <1>2
  <2>2. \A i \in DOMAIN Tail(q) : i + 1 \in DOMAIN q /\ Tail(q)[i] = q[i + 1]
    BY <1>2
  <2> QED BY <2>1, <2>2 DEF Range
<1>3. ASSUME NEW k \in 0..Len(q)
      PROVE  /\ SubSeq(q, 1, k) \in Seq(S)
             /\ Range(SubSeq(q, 1, k)) \subseteq Range(q)
             /\ SubSeq(q, k + 1, Len(q)) \in Seq(S)
             /\ Range(SubSeq(q, k + 1, Len(q))) \subseteq Range(q)
  <2>1. SubSeq(q, 1, k) \in Seq(S) /\ SubSeq(q, k + 1, Len(q)) \in Seq(S)
    OBVIOUS
  <2>2. \A i \in DOMAIN SubSeq(q, 1, k) : i \in DOMAIN q /\ SubSeq(q, 1, k)[i] = q[i]
    OBVIOUS
  <2>3. \A i \in DOMAIN SubSeq(q, k + 1, Len(q)) :
          i + k \in DOMAIN q /\ SubSeq(q, k + 1, Len(q))[i] = q[i + k]
    OBVIOUS
  <2> QED BY <2>1, <2>2, <2>3 DEF Range
<1>4. Range(q) \subseteq S
  BY DEF Range
<1> QED BY <1>1, <1>2, <1>3, <1>4

\* What precedes a message is part of what a session remembers or shows.
LEMMA BeforeType ==
    ASSUME NEW q \in Seq(Turns), NEW e \in Range(q) \cup {None}
    PROVE  Before(q, e) \in Seq(Turns)
<1>1. CASE e = None
  BY <1>1 DEF Before
<1>2. CASE e # None
  <2> DEFINE i == CHOOSE j \in DOMAIN q : q[j] = e
  <2>1. i \in 1..Len(q)
    BY <1>2 DEF Range
  <2> HIDE DEF i
  <2>2. i - 1 \in 0..Len(q)
    BY <2>1
  <2>3. SubSeq(q, 1, i - 1) \in Seq(Turns)
    BY <2>2, QueueLemma
  <2> QED BY <1>2, <2>3 DEF Before, i
<1> QED BY <1>1, <1>2

\* The rows of the database keep their shape when a column is set.
LEMMA RowTypes ==
    /\ \A r \in TurnRows :
         /\ \A st \in {"none", "queued", "delivered"} \cup Terminal :
              [r EXCEPT !.status = st] \in TurnRows
         /\ [r EXCEPT !.init = TRUE] \in TurnRows
    /\ \A t \in Threads, s \in Turns \cup {None}, e \in Turns \cup {None} :
         [status |-> "queued", thread |-> t, session |-> s, edit |-> e, init |-> FALSE] \in TurnRows
    /\ \A r \in StopRows, st \in {"none", "queued", "delivered", "succeeded", "failed"} :
         [r EXCEPT !.status = st] \in StopRows
    /\ \A o \in Turns, b \in BOOLEAN :
         [status |-> "queued", op |-> o, recovery |-> b] \in StopRows
    /\ \A r \in ThreadRows, st \in Busy \cup {"idle", "interrupted", "failed", "deleted"} :
         /\ [r EXCEPT !.status = st] \in ThreadRows
         /\ \A s \in Turns : [r EXCEPT !.session = s, !.status = st] \in ThreadRows
         /\ \A o \in Turns : [r EXCEPT !.status = st, !.op = o] \in ThreadRows
    /\ \A r \in GoalRows :
         \A st \in {"none", "active", "paused", "blocked", "completed", "cancelled"} :
           [r EXCEPT !.status = st] \in GoalRows
<1>1. ASSUME NEW r \in TurnRows
      PROVE  /\ \A st \in {"none", "queued", "delivered"} \cup Terminal :
                  [r EXCEPT !.status = st] \in TurnRows
             /\ [r EXCEPT !.init = TRUE] \in TurnRows
  BY DEF TurnRows
<1>2. ASSUME NEW t \in Threads, NEW s \in Turns \cup {None}, NEW e \in Turns \cup {None}
      PROVE  [status |-> "queued", thread |-> t, session |-> s, edit |-> e,
              init |-> FALSE] \in TurnRows
  BY DEF TurnRows
<1>3. ASSUME NEW r \in StopRows, NEW st \in {"none", "queued", "delivered", "succeeded", "failed"}
      PROVE  [r EXCEPT !.status = st] \in StopRows
  BY DEF StopRows
<1>4. ASSUME NEW o \in Turns, NEW b \in BOOLEAN
      PROVE  [status |-> "queued", op |-> o, recovery |-> b] \in StopRows
  BY DEF StopRows
<1>5. ASSUME NEW r \in ThreadRows, NEW st \in Busy \cup {"idle", "interrupted", "failed", "deleted"}
      PROVE  /\ [r EXCEPT !.status = st] \in ThreadRows
             /\ \A s \in Turns : [r EXCEPT !.session = s, !.status = st] \in ThreadRows
             /\ \A o \in Turns : [r EXCEPT !.status = st, !.op = o] \in ThreadRows
  BY DEF ThreadRows
<1>6. ASSUME NEW r \in GoalRows,
             NEW st \in {"none", "active", "paused", "blocked", "completed", "cancelled"}
      PROVE  [r EXCEPT !.status = st] \in GoalRows
  BY DEF GoalRows
<1> QED BY <1>1, <1>2, <1>3, <1>4, <1>5, <1>6

\* What the columns of the rows range over.
LEMMA Columns ==
    /\ \A r \in ThreadRows : /\ r.status \in Busy \cup {"idle", "interrupted", "failed", "deleted"}
                             /\ r.op \in Turns \cup {None} /\ r.session \in Turns \cup {None}
    /\ \A r \in TurnRows : /\ r.status \in {"none", "queued", "delivered"} \cup Terminal
                           /\ r.thread \in Threads \cup {None}
                           /\ r.session \in Turns \cup {None} /\ r.edit \in Turns \cup {None}
    /\ \A r \in StopRows : r.op \in Turns \cup {None} /\ r.recovery \in BOOLEAN
    /\ \A r \in Asked : r.thread \in ClaudeThreads /\ r.op \in Turns /\ r.recovery \in BOOLEAN
    /\ \A r \in Handling : r.op \in Turns /\ r.status \in Terminal
BY DEF ThreadRows, TurnRows, StopRows, Asked, Handling

\* What the gateway receives is what it was sent.
LEMMA Received ==
    ASSUME OwnershipTypeOK, NEW kind \in {"init", "active", "lost", "result", "stop"}, Receive(kind)
    PROVE  /\ up' \in Seq(Messages) /\ Range(up') \subseteq Range(up) /\ Head(up) \in Range(up)
           /\ kind = "stop" => Head(up).id \in Stops
           /\ kind # "stop" => Head(up).id \in Turns
           /\ kind = "result" => Head(up).status \in Terminal
<1>1. up \in Seq(Messages) /\ up # <<>> /\ up' = Tail(up) /\ Head(up).kind = kind
  BY DEF OwnershipTypeOK, Receive
<1>2. /\ Head(up) \in Messages /\ Head(up) \in Range(up)
      /\ up' \in Seq(Messages) /\ Range(up') \subseteq Range(up)
  BY <1>1, QueueLemma
<1> QED BY <1>1, <1>2 DEF Messages

-----------------------------------------------------------------------------
\* Every step keeps the types.
LEMMA TypeStep ==
    ASSUME OwnershipTypeOK, StopsNameTurns, [Next]_vars PROVE OwnershipTypeOK'
<1>thread. thread \in [Threads -> ThreadRows]
  BY DEF OwnershipTypeOK
<1>row. row \in [Turns -> TurnRows]
  BY DEF OwnershipTypeOK
<1>stop. stop \in [Stops -> StopRows]
  BY DEF OwnershipTypeOK
<1>goal. goal \in [GeminiThreads -> GoalRows]
  BY DEF OwnershipTypeOK
<1>log. log \in [Threads -> Seq(Turns)]
  BY DEF OwnershipTypeOK
<1>asked. asked \in [Stops -> {None} \cup Asked]
  BY DEF OwnershipTypeOK
<1>handling. handling \in {None} \cup Handling
  BY DEF OwnershipTypeOK
<1>down. down \subseteq Turns \cup Stops
  BY DEF OwnershipTypeOK
<1>up. up \in Seq(Messages)
  BY DEF OwnershipTypeOK
<1>executing. executing \subseteq Turns
  BY DEF OwnershipTypeOK
<1>cancelled. cancelled \subseteq Turns
  BY DEF OwnershipTypeOK
<1>waiter. waiter \in [Stops -> {"absent", "waiting", "stopped", "lost", "timeout"}]
  BY DEF OwnershipTypeOK
<1>receipt. receipt \in [Turns -> {"none"} \cup Terminal]
  BY DEF OwnershipTypeOK
<1>process. process \subseteq Turns
  BY DEF OwnershipTypeOK
<1>native. native \in [Turns -> Seq(Turns)]
  BY DEF OwnershipTypeOK
<1>confirmed. confirmed \subseteq Turns
  BY DEF OwnershipTypeOK
<1>torn. torn \subseteq Turns
  BY DEF OwnershipTypeOK
<1>faults. faults \in Nat
  BY DEF OwnershipTypeOK
<1>1. ASSUME NEW t \in GeminiThreads, NEW o \in Turns, NEW e \in Turns \cup {None},
             NEW g \in {"plain", "goal"}, startGeminiTurn(t, o, e, g) PROVE OwnershipTypeOK'
  <2>1. thread' \in [Threads -> ThreadRows]
    <3>1. t \in Threads /\ o \in Turns
      BY <1>1 DEF Threads
    <3>2. [thread[t] EXCEPT !.status = "queued", !.op = o] \in ThreadRows
      BY <3>1, <1>thread, RowTypes DEF Busy
    <3> QED BY <1>1, <3>1, <3>2, <1>thread DEF startGeminiTurn, queueGeminiTurn
  <2>2. row' \in [Turns -> TurnRows]
    <3>1. t \in Threads /\ o \in Turns /\ thread[t].session \in Turns \cup {None}
      BY <1>1, <1>thread, Columns DEF Threads
    <3>2. [status |-> "queued", thread |-> t, session |-> thread[t].session, edit |-> e,
           init |-> FALSE] \in TurnRows
      BY <1>1, <3>1, RowTypes
    <3> QED BY <1>1, <3>1, <3>2, <1>row DEF startGeminiTurn, queueGeminiTurn
  <2>3. goal' \in [GeminiThreads -> GoalRows]
    BY <1>1, <1>goal, <1>thread, <1>row, OwnershipAssumption
       DEF startGeminiTurn, queueGeminiTurn, claimGeminiGoal, AtRest, agent, GoalRows
  <2>4. log' \in [Threads -> Seq(Turns)]
    BY <1>1, <1>log, <1>row, OwnershipAssumption
       DEF startGeminiTurn, queueGeminiTurn, claimGeminiGoal, AtRest, agent, Threads
  <2>5. UNCHANGED <<stop, asked, handling, down, up, executing, cancelled, waiter, receipt,
                    process, native, confirmed, torn, faults>>
    BY <1>1 DEF startGeminiTurn, queueGeminiTurn, claimGeminiGoal, AtRest, agent
  <2> QED BY <2>1, <2>2, <2>3, <2>4, <2>5 DEF OwnershipTypeOK
<1>2. ASSUME NEW t \in ClaudeThreads, NEW o \in Turns, NEW e \in Turns \cup {None},
             startClaudeTurn(t, o, e)
      PROVE  OwnershipTypeOK'
  <2>1. thread' \in [Threads -> ThreadRows]
    <3>1. t \in Threads /\ o \in Turns
      BY <1>2 DEF Threads
    <3>2. [thread[t] EXCEPT !.status = "queued", !.op = o] \in ThreadRows
      BY <3>1, <1>thread, RowTypes DEF Busy
    <3> QED BY <1>2, <3>1, <3>2, <1>thread DEF startClaudeTurn, queueClaudeInput
  <2>2. row' \in [Turns -> TurnRows]
    <3>1. t \in Threads /\ o \in Turns /\ thread[t].session \in Turns \cup {None}
      BY <1>2, <1>thread, Columns DEF Threads
    <3>2. [status |-> "queued", thread |-> t, session |-> thread[t].session, edit |-> e,
           init |-> FALSE] \in TurnRows
      BY <1>2, <3>1, RowTypes
    <3> QED BY <1>2, <3>1, <3>2, <1>row DEF startClaudeTurn, queueClaudeInput
  <2>3. log' \in [Threads -> Seq(Turns)]
    BY <1>2, <1>log, <1>row, OwnershipAssumption
       DEF startClaudeTurn, queueClaudeInput, AtRest, agent, Threads
  <2>4. UNCHANGED <<stop, goal, asked, handling, down, up, executing, cancelled, waiter, receipt,
                    process, native, confirmed, torn, faults>>
    BY <1>2 DEF startClaudeTurn, queueClaudeInput, AtRest, agent
  <2> QED BY <2>1, <2>2, <2>3, <2>4 DEF OwnershipTypeOK
<1>3. ASSUME NEW s \in Stops, NEW t \in GeminiThreads, interruptGeminiTurn(s, t)
      PROVE  OwnershipTypeOK'
  <2>0. thread[t].op \in Turns
    BY <1>3, <1>thread, Columns
       DEF interruptGeminiTurn, InterruptGeminiTurn, Interruptible, Active, Threads
  <2>1. thread' \in [Threads -> ThreadRows]
    BY <1>3, <1>thread, <1>row, OwnershipAssumption DEF interruptGeminiTurn, InterruptGeminiTurn,
       Interruptible, Interrupt, SetGoal, GoalOf, agent, ThreadRows, Threads, Busy, Active
  <2>2. row' \in [Turns -> TurnRows]
    <3>1. [row[thread[t].op] EXCEPT !.status = "cancelled"] \in TurnRows
      BY <2>0, <1>row, RowTypes DEF Terminal
    <3> QED BY <1>3, <3>1, <1>row DEF interruptGeminiTurn, InterruptGeminiTurn, Interrupt
  <2>3. stop' \in [Stops -> StopRows]
    <3>1. [status |-> "queued", op |-> thread[t].op,
           recovery |-> thread[t].status = "interrupted"] \in StopRows
      <4>1. (thread[t].status = "interrupted") \in BOOLEAN
        OBVIOUS
      <4> QED BY <4>1, <2>0, RowTypes
    <3> QED BY <1>3, <3>1, <1>stop DEF interruptGeminiTurn, InterruptGeminiTurn, Interrupt
  <2>4. goal' \in [GeminiThreads -> GoalRows]
    BY <1>3, <1>goal, <1>thread, <1>row, OwnershipAssumption
       DEF interruptGeminiTurn, InterruptGeminiTurn, Interruptible, Interrupt, SetGoal, GoalOf,
       agent, GoalRows
  <2>5. UNCHANGED <<log, asked, handling, down, up, executing, cancelled, waiter, receipt,
                    process, native, confirmed, torn, faults>>
    BY <1>3 DEF interruptGeminiTurn, InterruptGeminiTurn, Interruptible, Interrupt, SetGoal,
       GoalOf, agent
  <2> QED BY <2>1, <2>2, <2>3, <2>4, <2>5 DEF OwnershipTypeOK
<1>4. ASSUME NEW s \in Stops, NEW t \in ClaudeThreads, interruptClaudeTurn(s, t)
      PROVE  OwnershipTypeOK'
  <2>0. thread[t].op \in Turns
    BY <1>4, <1>thread, Columns DEF interruptClaudeTurn, Interruptible, Active, Threads
  <2>1. asked' \in [Stops -> {None} \cup Asked]
    <3>1. RecoveryPending(t) \in BOOLEAN
      BY DEF RecoveryPending
    <3>2. [thread |-> t, op |-> thread[t].op, recovery |-> RecoveryPending(t)] \in Asked
      BY <3>1, <2>0 DEF Asked, Threads
    <3> QED BY <1>4, <3>2, <1>asked DEF interruptClaudeTurn
  <2>2. UNCHANGED <<thread, row, stop, goal, log, handling, down, up, executing, cancelled,
                    waiter, receipt, process, native, confirmed, torn, faults>>
    BY <1>4 DEF interruptClaudeTurn, Interruptible, RecoveryPending, db, agent
  <2> QED BY <2>1, <2>2 DEF OwnershipTypeOK
<1>5. ASSUME NEW s \in Stops, NEW t \in GeminiThreads,
             NEW a \in {"paused", "cancelled"}, controlGeminiGoal(s, t, a) PROVE OwnershipTypeOK'
  <2>0. thread[t].op \in Turns
    BY <1>5, <1>thread, Columns
       DEF controlGeminiGoal, InterruptGeminiTurn, Interruptible, Active, Threads
  <2>1. thread' \in [Threads -> ThreadRows]
    BY <1>5, <1>thread, <1>row, OwnershipAssumption DEF controlGeminiGoal, InterruptGeminiTurn,
       Interruptible, Interrupt, SetGoal, GoalOf, agent, ThreadRows, Threads, Busy, Active
  <2>2. row' \in [Turns -> TurnRows]
    <3>1. [row[thread[t].op] EXCEPT !.status = "cancelled"] \in TurnRows
      BY <2>0, <1>row, RowTypes DEF Terminal
    <3> QED BY <1>5, <3>1, <1>row DEF controlGeminiGoal, InterruptGeminiTurn, Interrupt
  <2>3. stop' \in [Stops -> StopRows]
    <3>1. [status |-> "queued", op |-> thread[t].op,
           recovery |-> thread[t].status = "interrupted"] \in StopRows
      <4>1. (thread[t].status = "interrupted") \in BOOLEAN
        OBVIOUS
      <4> QED BY <4>1, <2>0, RowTypes
    <3> QED BY <1>5, <3>1, <1>stop DEF controlGeminiGoal, InterruptGeminiTurn, Interrupt
  <2>4. goal' \in [GeminiThreads -> GoalRows]
    BY <1>5, <1>goal, <1>thread, <1>row, OwnershipAssumption
       DEF controlGeminiGoal, InterruptGeminiTurn, Interruptible, Interrupt, SetGoal, GoalOf,
       agent, GoalRows
  <2>5. UNCHANGED <<log, asked, handling, down, up, executing, cancelled, waiter, receipt,
                    process, native, confirmed, torn, faults>>
    BY <1>5 DEF controlGeminiGoal, InterruptGeminiTurn, Interruptible, Interrupt, SetGoal,
       GoalOf, agent
  <2> QED BY <2>1, <2>2, <2>3, <2>4, <2>5 DEF OwnershipTypeOK
<1>6. ASSUME NEW t \in GeminiThreads, NEW o \in Turns, resumeGeminiGoal(t, o)
      PROVE  OwnershipTypeOK'
  <2>1. thread' \in [Threads -> ThreadRows]
    <3>1. t \in Threads /\ o \in Turns
      BY <1>6 DEF Threads
    <3>2. [thread[t] EXCEPT !.status = "queued", !.op = o] \in ThreadRows
      BY <3>1, <1>thread, RowTypes DEF Busy
    <3> QED BY <1>6, <3>1, <3>2, <1>thread DEF resumeGeminiGoal, queueGeminiTurn
  <2>2. row' \in [Turns -> TurnRows]
    <3>1. t \in Threads /\ o \in Turns /\ thread[t].session \in Turns \cup {None}
      BY <1>6, <1>thread, Columns DEF Threads
    <3>2. [status |-> "queued", thread |-> t, session |-> thread[t].session, edit |-> None,
           init |-> FALSE] \in TurnRows
      BY <1>6, <3>1, RowTypes
    <3> QED BY <1>6, <3>1, <3>2, <1>row DEF resumeGeminiGoal, queueGeminiTurn
  <2>3. goal' \in [GeminiThreads -> GoalRows]
    BY <1>6, <1>goal, <1>thread, <1>row, OwnershipAssumption
       DEF resumeGeminiGoal, queueGeminiTurn, claimGeminiGoal, AtRest, agent, GoalRows
  <2>4. log' \in [Threads -> Seq(Turns)]
    BY <1>6, <1>log, <1>row, OwnershipAssumption
       DEF resumeGeminiGoal, queueGeminiTurn, claimGeminiGoal, AtRest, agent, Threads
  <2>5. UNCHANGED <<stop, asked, handling, down, up, executing, cancelled, waiter, receipt,
                    process, native, confirmed, torn, faults>>
    BY <1>6 DEF resumeGeminiGoal, queueGeminiTurn, claimGeminiGoal, AtRest, agent
  <2> QED BY <2>1, <2>2, <2>3, <2>4, <2>5 DEF OwnershipTypeOK
<1>7. ASSUME NEW t \in GeminiThreads, CancelInactiveGeminiGoal(t) PROVE OwnershipTypeOK'
  <2>1. goal' \in [GeminiThreads -> GoalRows]
    BY <1>7, <1>goal, <1>thread, <1>row, OwnershipAssumption
       DEF CancelInactiveGeminiGoal, agent, GoalRows
  <2>2. UNCHANGED <<thread, row, stop, log, asked, handling, down, up, executing, cancelled,
                    waiter, receipt, process, native, confirmed, torn, faults>>
    BY <1>7 DEF CancelInactiveGeminiGoal, agent
  <2> QED BY <2>1, <2>2 DEF OwnershipTypeOK
<1>8. ASSUME NEW t \in GeminiThreads, NEW o \in Turns, confirmGeminiStopped(t, o)
      PROVE  OwnershipTypeOK'
  <2>1. row' \in [Turns -> TurnRows]
    <3>1. [row[o] EXCEPT !.status = "cancelled"] \in TurnRows
      BY <1>8, <1>row, RowTypes DEF Terminal
    <3> QED BY <1>8, <3>1, <1>row DEF confirmGeminiStopped, ConfirmGeminiStopped, ReleaseTurn
  <2>2. goal' \in [GeminiThreads -> GoalRows]
    BY <1>8, <1>goal, <1>thread, <1>row, OwnershipAssumption
       DEF confirmGeminiStopped, ConfirmGeminiStopped, ReleaseTurn, SetGoal, GoalOf, agent,
       GoalRows
  <2>3. confirmed' \subseteq Turns
    BY <1>8, <1>confirmed, OwnershipAssumption
       DEF confirmGeminiStopped, ConfirmGeminiStopped, ReleaseTurn, SetGoal, GoalOf, agent
  <2>4. UNCHANGED <<thread, stop, log, asked, handling, down, up, executing, cancelled, waiter,
                    receipt, process, native, torn, faults>>
    BY <1>8 DEF confirmGeminiStopped, ConfirmGeminiStopped, ReleaseTurn, SetGoal, GoalOf, agent
  <2> QED BY <2>1, <2>2, <2>3, <2>4 DEF OwnershipTypeOK
<1>9. ASSUME NEW t \in ClaudeThreads, NEW o \in Turns, confirmClaudeStopped(t, o)
      PROVE  OwnershipTypeOK'
  <2>1. row' \in [Turns -> TurnRows]
    <3>1. [row[o] EXCEPT !.status = "cancelled"] \in TurnRows
      BY <1>9, <1>row, RowTypes DEF Terminal
    <3> QED BY <1>9, <3>1, <1>row DEF confirmClaudeStopped, ConfirmClaudeStopped, ReleaseTurn
  <2>2. confirmed' \subseteq Turns
    BY <1>9, <1>confirmed, OwnershipAssumption
       DEF confirmClaudeStopped, ConfirmClaudeStopped, ReleaseTurn, agent
  <2>3. UNCHANGED <<thread, stop, goal, log, asked, handling, down, up, executing, cancelled,
                    waiter, receipt, process, native, torn, faults>>
    BY <1>9 DEF confirmClaudeStopped, ConfirmClaudeStopped, ReleaseTurn, agent
  <2> QED BY <2>1, <2>2, <2>3 DEF OwnershipTypeOK
<1>10. ASSUME NEW t \in GeminiThreads, DeleteGeminiThread(t) PROVE OwnershipTypeOK'
  <2>1. thread' \in [Threads -> ThreadRows]
    BY <1>10, <1>thread, <1>row, OwnershipAssumption
       DEF DeleteGeminiThread, AtRest, agent, ThreadRows, Threads, Busy, Active
  <2>2. log' \in [Threads -> Seq(Turns)]
    BY <1>10, <1>log, <1>row, OwnershipAssumption DEF DeleteGeminiThread, AtRest, agent, Threads
  <2>3. UNCHANGED <<row, stop, goal, asked, handling, down, up, executing, cancelled, waiter,
                    receipt, process, native, confirmed, torn, faults>>
    BY <1>10 DEF DeleteGeminiThread, AtRest, agent
  <2> QED BY <2>1, <2>2, <2>3 DEF OwnershipTypeOK
<1>11. ASSUME NEW t \in ClaudeThreads, DeleteClaudeThread(t) PROVE OwnershipTypeOK'
  <2>1. thread' \in [Threads -> ThreadRows]
    BY <1>11, <1>thread, <1>row, OwnershipAssumption
       DEF DeleteClaudeThread, AtRest, agent, ThreadRows, Threads, Busy, Active
  <2>2. log' \in [Threads -> Seq(Turns)]
    BY <1>11, <1>log, <1>row, OwnershipAssumption DEF DeleteClaudeThread, AtRest, agent, Threads
  <2>3. UNCHANGED <<row, stop, goal, asked, handling, down, up, executing, cancelled, waiter,
                    receipt, process, native, confirmed, torn, faults>>
    BY <1>11 DEF DeleteClaudeThread, AtRest, agent
  <2> QED BY <2>1, <2>2, <2>3 DEF OwnershipTypeOK
<1>12. ASSUME NEW s \in Stops, InterruptClaudeTurn(s) PROVE OwnershipTypeOK'
  <2>0. asked[s].op \in Turns /\ asked[s].thread \in Threads /\ asked[s].recovery \in BOOLEAN
    BY <1>12, <1>asked, Columns DEF InterruptClaudeTurn, Threads
  <2>1. thread' \in [Threads -> ThreadRows]
    <3>1. \A st \in {"interrupted", "interrupting"} :
            [thread[asked[s].thread] EXCEPT !.status = st] \in ThreadRows
      BY <2>0, <1>thread, RowTypes DEF Busy
    <3> QED BY <1>12, <3>1, <1>thread DEF InterruptClaudeTurn, Interrupt
  <2>2. row' \in [Turns -> TurnRows]
    <3>1. [row[asked[s].op] EXCEPT !.status = "cancelled"] \in TurnRows
      BY <2>0, <1>row, RowTypes DEF Terminal
    <3> QED BY <1>12, <3>1, <1>row DEF InterruptClaudeTurn, Interrupt
  <2>3. stop' \in [Stops -> StopRows]
    <3>1. [status |-> "queued", op |-> asked[s].op, recovery |-> asked[s].recovery] \in StopRows
      BY <2>0, RowTypes
    <3> QED BY <1>12, <3>1, <1>stop DEF InterruptClaudeTurn, Interrupt
  <2>4. asked' \in [Stops -> {None} \cup Asked]
    BY <1>12, <1>asked, <1>thread, OwnershipAssumption
       DEF InterruptClaudeTurn, Interruptible, Interrupt, agent, Asked, Threads
  <2>5. UNCHANGED <<goal, log, handling, down, up, executing, cancelled, waiter, receipt,
                    process, native, confirmed, torn, faults>>
    BY <1>12 DEF InterruptClaudeTurn, Interruptible, Interrupt, agent
  <2> QED BY <2>1, <2>2, <2>3, <2>4, <2>5 DEF OwnershipTypeOK
<1>13. ASSUME NEW o \in Turns, ClaimGeminiDelivery(o) PROVE OwnershipTypeOK'
  <2>1. row' \in [Turns -> TurnRows]
    <3>1. [row[o] EXCEPT !.status = "delivered"] \in TurnRows
      BY <1>13, <1>row, RowTypes
    <3> QED BY <1>13, <3>1, <1>row DEF ClaimGeminiDelivery
  <2>2. down' \subseteq Turns \cup Stops
    BY <1>13, <1>down, OwnershipAssumption DEF ClaimGeminiDelivery, agent
  <2>3. UNCHANGED <<thread, stop, goal, log, asked, handling, up, executing, cancelled, waiter,
                    receipt, process, native, confirmed, torn, faults>>
    BY <1>13 DEF ClaimGeminiDelivery, agent
  <2> QED BY <2>1, <2>2, <2>3 DEF OwnershipTypeOK
<1>14. ASSUME NEW o \in Turns, Probing(o) PROVE OwnershipTypeOK'
  <2>1. up' \in Seq(Messages)
    <3>1. Answer(o) \in Messages
      BY <1>14, <1>receipt DEF Answer, Message, Messages
    <3>2. up' = Append(up, Answer(o))
      BY <1>14 DEF Probing, reconcileGeminiOperations, reconcileClaudeOperations, Probe, Send
    <3> QED BY <3>1, <3>2, <1>up, QueueLemma
  <2>2. UNCHANGED <<thread, row, stop, goal, log, asked, handling, down, executing, cancelled,
                    waiter, receipt, process, native, confirmed, torn, faults>>
    BY <1>14 DEF Probing, reconcileGeminiOperations, reconcileClaudeOperations, Probe,
       Unfinished, Answer, Send, Message, db, agent
  <2> QED BY <2>1, <2>2 DEF OwnershipTypeOK
<1>15. ASSUME NEW o \in Turns, handleTurnCommand(o) PROVE OwnershipTypeOK'
  <2>1. down' \subseteq Turns \cup Stops
    BY <1>15, <1>down, OwnershipAssumption DEF handleTurnCommand, db
  <2>2. executing' \subseteq Turns
    BY <1>15, <1>executing, OwnershipAssumption DEF handleTurnCommand, db
  <2>3. UNCHANGED <<thread, row, stop, goal, log, asked, handling, up, cancelled, waiter,
                    receipt, process, native, confirmed, torn, faults>>
    BY <1>15 DEF handleTurnCommand, db
  <2> QED BY <2>1, <2>2, <2>3 DEF OwnershipTypeOK
<1>16. ASSUME NEW o \in Turns, startProcess(o) PROVE OwnershipTypeOK'
  <2>1. up' \in Seq(Messages)
    BY <1>16, <1>up, <1>receipt, OwnershipAssumption, QueueLemma
       DEF startProcess, Send, Message, db, Messages, Terminal
  <2>2. process' \subseteq Turns
    BY <1>16, <1>process, OwnershipAssumption DEF startProcess, Send, Message, db
  <2>3. native' \in [Turns -> Seq(Turns)]
    <3>1. Session(o) \in Turns
      BY <1>16, <1>row, Columns DEF Session
    <3>2. Saved(o) \in Seq(Turns)
      BY <1>16, <1>row, <1>native, Columns DEF Saved
    <3>3. Before(Saved(o), row[o].edit) \in Seq(Turns)
      BY <1>16, <3>2, BeforeType DEF startProcess
    <3>4. Append(Before(Saved(o), row[o].edit), o) \in Seq(Turns)
      BY <1>16, <3>3, QueueLemma
    <3> QED BY <1>16, <3>1, <3>4, <1>native DEF startProcess
  <2>4. UNCHANGED <<thread, row, stop, goal, log, asked, handling, down, executing, cancelled,
                    waiter, receipt, confirmed, torn, faults>>
    BY <1>16 DEF startProcess, Send, Message, db
  <2> QED BY <2>1, <2>2, <2>3, <2>4 DEF OwnershipTypeOK
<1>17. ASSUME NEW o \in Turns, finish(o) PROVE OwnershipTypeOK'
  <2>1. up' \in Seq(Messages)
    BY <1>17, <1>up, <1>receipt, OwnershipAssumption, QueueLemma
       DEF finish, Send, Message, db, Messages, Terminal
  <2>2. executing' \subseteq Turns
    BY <1>17, <1>executing, OwnershipAssumption DEF finish, Send, Message, db
  <2>3. cancelled' \subseteq Turns
    BY <1>17, <1>cancelled, OwnershipAssumption DEF finish, Send, Message, db
  <2>4. receipt' \in [Turns -> {"none"} \cup Terminal]
    BY <1>17, <1>receipt, OwnershipAssumption DEF finish, Send, Message, db, Terminal
  <2>5. process' \subseteq Turns
    BY <1>17, <1>process, OwnershipAssumption DEF finish, Send, Message, db
  <2>6. UNCHANGED <<thread, row, stop, goal, log, asked, handling, down, waiter, native,
                    confirmed, torn, faults>>
    BY <1>17 DEF finish, Send, Message, db
  <2> QED BY <2>1, <2>2, <2>3, <2>4, <2>5, <2>6 DEF OwnershipTypeOK
<1>18. ASSUME NEW o \in Turns, orphanExits(o) PROVE OwnershipTypeOK'
  <2>1. process' \subseteq Turns
    BY <1>18, <1>process, OwnershipAssumption DEF orphanExits, db
  <2>2. UNCHANGED <<thread, row, stop, goal, log, asked, handling, down, up, executing,
                    cancelled, waiter, receipt, native, confirmed, torn, faults>>
    BY <1>18 DEF orphanExits, db
  <2> QED BY <2>1, <2>2 DEF OwnershipTypeOK
<1>19. ASSUME NEW s \in Stops, SendStop(s) PROVE OwnershipTypeOK'
  <2>1. stop' \in [Stops -> StopRows]
    BY <1>19, <1>stop, <1>thread, OwnershipAssumption DEF SendStop, agent, StopRows
  <2>2. down' \subseteq Turns \cup Stops
    BY <1>19, <1>down, OwnershipAssumption DEF SendStop, agent
  <2>3. UNCHANGED <<thread, row, goal, log, asked, handling, up, executing, cancelled, waiter,
                    receipt, process, native, confirmed, torn, faults>>
    BY <1>19 DEF SendStop, agent
  <2> QED BY <2>1, <2>2, <2>3 DEF OwnershipTypeOK
<1>20. ASSUME NEW s \in Stops, stopStarts(s) PROVE OwnershipTypeOK'
  <2>1. down' \subseteq Turns \cup Stops
    BY <1>20, <1>down, OwnershipAssumption DEF stopStarts, db
  <2>2. cancelled' \subseteq Turns
    BY <1>20, <1>cancelled, <1>executing DEF stopStarts
  <2>3. waiter' \in [Stops -> {"absent", "waiting", "stopped", "lost", "timeout"}]
    BY <1>20, <1>waiter, OwnershipAssumption DEF stopStarts, db
  <2>4. UNCHANGED <<thread, row, stop, goal, log, asked, handling, up, executing, receipt,
                    process, native, confirmed, torn, faults>>
    BY <1>20 DEF stopStarts, db
  <2> QED BY <2>1, <2>2, <2>3, <2>4 DEF OwnershipTypeOK
<1>21. ASSUME NEW s \in Stops, stopFindsNothing(s) PROVE OwnershipTypeOK'
  <2>1. down' \subseteq Turns \cup Stops
    BY <1>21, <1>down, OwnershipAssumption DEF stopFindsNothing, Send, Message, db
  <2>2. up' \in Seq(Messages)
    BY <1>21, <1>up, <1>receipt, OwnershipAssumption, QueueLemma
       DEF stopFindsNothing, Send, Message, db, Messages, Terminal
  <2>3. waiter' \in [Stops -> {"absent", "waiting", "stopped", "lost", "timeout"}]
    BY <1>21, <1>waiter, OwnershipAssumption DEF stopFindsNothing, Send, Message, db
  <2>4. UNCHANGED <<thread, row, stop, goal, log, asked, handling, executing, cancelled, receipt,
                    process, native, confirmed, torn, faults>>
    BY <1>21 DEF stopFindsNothing, Send, Message, db
  <2> QED BY <2>1, <2>2, <2>3, <2>4 DEF OwnershipTypeOK
<1>22. ASSUME NEW s \in Stops, interruptAndWait(s) PROVE OwnershipTypeOK'
  <2>1. up' \in Seq(Messages)
    BY <1>22, <1>up, <1>receipt, OwnershipAssumption, QueueLemma
       DEF interruptAndWait, Send, Message, db, Messages, Terminal
  <2>2. waiter' \in [Stops -> {"absent", "waiting", "stopped", "lost", "timeout"}]
    BY <1>22, <1>waiter, OwnershipAssumption DEF interruptAndWait, Send, Message, db
  <2>3. faults' \in Nat
    BY <1>22, <1>faults, OwnershipAssumption DEF interruptAndWait, Send, Message, db
  <2>4. UNCHANGED <<thread, row, stop, goal, log, asked, handling, down, executing, cancelled,
                    receipt, process, native, confirmed, torn>>
    BY <1>22 DEF interruptAndWait, Send, Message, db
  <2> QED BY <2>1, <2>2, <2>3, <2>4 DEF OwnershipTypeOK
<1>23. ASSUME NEW s \in Stops, replayStop(s) PROVE OwnershipTypeOK'
  <2>1. down' \subseteq Turns \cup Stops
    BY <1>23, <1>down, OwnershipAssumption DEF replayStop, Send, Message, db, agent
  <2>2. up' \in Seq(Messages)
    BY <1>23, <1>up, <1>receipt, OwnershipAssumption, QueueLemma
       DEF replayStop, Send, Message, db, agent, Messages, Terminal
  <2>3. UNCHANGED <<thread, row, stop, goal, log, asked, handling, executing, cancelled, waiter,
                    receipt, process, native, confirmed, torn, faults>>
    BY <1>23 DEF replayStop, Send, Message, db, agent
  <2> QED BY <2>1, <2>2, <2>3 DEF OwnershipTypeOK
<1>24. CASE handleGeminiInit
  <2>1. thread' \in [Threads -> ThreadRows]
    <3>1. Head(up).id \in Turns
      BY <1>24, Received DEF handleGeminiInit
    <3>2. row[Head(up).id].thread \in Threads /\ Session(Head(up).id) \in Turns
      BY <1>24, <3>1, <1>row, Columns DEF handleGeminiInit, Threads, Session
    <3> DEFINE t == row[Head(up).id].thread
               n == Session(Head(up).id)
               st == IF thread[t].status \in {"interrupting", "interrupted"} THEN thread[t].status
                     ELSE "running"
    <3>3. thread' = thread \/ thread' = [thread EXCEPT ![t].session = n, ![t].status = st]
      BY <1>24 DEF handleGeminiInit, Initialised
    <3>4. thread[t] \in ThreadRows /\ t \in Threads /\ n \in Turns
      BY <3>2, <1>thread
    <3>5. [thread[t] EXCEPT !.session = n, !.status = st] \in ThreadRows
      BY <3>4, RowTypes DEF Busy
    <3> HIDE DEF t, n, st
    <3> QED BY <3>3, <3>4, <3>5, <1>thread
  <2>2. row' \in [Turns -> TurnRows]
    <3>1. Head(up).id \in Turns
      BY <1>24, Received DEF handleGeminiInit
    <3>2. [row[Head(up).id] EXCEPT !.init = TRUE] \in TurnRows
      BY <3>1, <1>row, RowTypes
    <3> QED BY <1>24, <3>1, <3>2, <1>row DEF handleGeminiInit, Initialised
  <2>3. log' \in [Threads -> Seq(Turns)]
    <3>1. Head(up).id \in Turns
      BY <1>24, Received DEF handleGeminiInit
    <3>2. row[Head(up).id].thread \in Threads
      BY <1>24, <3>1 DEF handleGeminiInit, Threads
    <3>3. ASSUME row[Head(up).id].edit \in Range(log[row[Head(up).id].thread])
          PROVE  Append(Before(log[row[Head(up).id].thread], row[Head(up).id].edit), Head(up).id)
                   \in Seq(Turns)
      <4>1. Before(log[row[Head(up).id].thread], row[Head(up).id].edit) \in Seq(Turns)
        BY <3>2, <3>3, <1>log, BeforeType
      <4> QED BY <3>1, <4>1, QueueLemma
    <3> QED BY <1>24, <3>2, <3>3, <1>log DEF handleGeminiInit, CommitGeminiRewrite
  <2>4. up' \in Seq(Messages)
    BY <1>24, Received DEF handleGeminiInit
  <2>5. UNCHANGED <<stop, goal, asked, handling, down, executing, cancelled, waiter, receipt,
                    process, native, confirmed, torn, faults>>
    BY <1>24 DEF handleGeminiInit, Receive, Current, Initialised, CommitGeminiRewrite, agent
  <2> QED BY <2>1, <2>2, <2>3, <2>4, <2>5 DEF OwnershipTypeOK
<1>25. CASE handleClaudeInit
  <2>1. thread' \in [Threads -> ThreadRows]
    <3>1. Head(up).id \in Turns
      BY <1>25, Received DEF handleClaudeInit
    <3>2. row[Head(up).id].thread \in Threads /\ Session(Head(up).id) \in Turns
      BY <1>25, <3>1, <1>row, Columns DEF handleClaudeInit, Threads, Session
    <3> DEFINE t == row[Head(up).id].thread
               n == Session(Head(up).id)
               st == IF thread[t].status \in {"interrupting", "interrupted"} THEN thread[t].status
                     ELSE "running"
    <3>3. thread' = thread \/ thread' = [thread EXCEPT ![t].session = n, ![t].status = st]
      BY <1>25 DEF handleClaudeInit, Initialised
    <3>4. thread[t] \in ThreadRows /\ t \in Threads /\ n \in Turns
      BY <3>2, <1>thread
    <3>5. [thread[t] EXCEPT !.session = n, !.status = st] \in ThreadRows
      BY <3>4, RowTypes DEF Busy
    <3> HIDE DEF t, n, st
    <3> QED BY <3>3, <3>4, <3>5, <1>thread
  <2>2. row' \in [Turns -> TurnRows]
    <3>1. Head(up).id \in Turns
      BY <1>25, Received DEF handleClaudeInit
    <3>2. [row[Head(up).id] EXCEPT !.init = TRUE] \in TurnRows
      BY <3>1, <1>row, RowTypes
    <3> QED BY <1>25, <3>1, <3>2, <1>row DEF handleClaudeInit, Initialised
  <2>3. log' \in [Threads -> Seq(Turns)]
    <3>1. Head(up).id \in Turns
      BY <1>25, Received DEF handleClaudeInit
    <3>2. row[Head(up).id].thread \in Threads
      BY <1>25, <3>1 DEF handleClaudeInit, Threads
    <3>3. ASSUME row[Head(up).id].edit \in Range(log[row[Head(up).id].thread])
          PROVE  Append(Before(log[row[Head(up).id].thread], row[Head(up).id].edit), Head(up).id)
                   \in Seq(Turns)
      <4>1. Before(log[row[Head(up).id].thread], row[Head(up).id].edit) \in Seq(Turns)
        BY <3>2, <3>3, <1>log, BeforeType
      <4> QED BY <3>1, <4>1, QueueLemma
    <3> QED BY <1>25, <3>2, <3>3, <1>log DEF handleClaudeInit, CommitClaudeRewrite
  <2>4. up' \in Seq(Messages)
    BY <1>25, Received DEF handleClaudeInit
  <2>5. UNCHANGED <<stop, goal, asked, handling, down, executing, cancelled, waiter, receipt,
                    process, native, confirmed, torn, faults>>
    BY <1>25 DEF handleClaudeInit, Receive, Current, Initialised, CommitClaudeRewrite, agent
  <2> QED BY <2>1, <2>2, <2>3, <2>4, <2>5 DEF OwnershipTypeOK
<1>26. CASE updateGeminiOwnership
  <2>1. thread' \in [Threads -> ThreadRows]
    <3> DEFINE t == row[Head(up).id].thread
    <3>1. t \in Threads
      BY <1>26 DEF updateGeminiOwnership, Threads
    <3>2. thread' = thread \/ \E st \in {"interrupted", "running"} :
                                 thread' = [thread EXCEPT ![t].status = st]
      BY <1>26 DEF updateGeminiOwnership, Lost
    <3>3. \A st \in {"interrupted", "running"} : [thread[t] EXCEPT !.status = st] \in ThreadRows
      BY <3>1, <1>thread, RowTypes DEF Busy
    <3> QED BY <3>1, <3>2, <3>3, <1>thread
  <2>2. goal' \in [GeminiThreads -> GoalRows]
    <3> DEFINE t == row[Head(up).id].thread
    <3>1. goal' = goal \/ (t \in GeminiThreads /\ goal' = [goal EXCEPT ![t].status = "active"])
      BY <1>26 DEF updateGeminiOwnership, Lost, SetGoal, GoalOf
    <3>2. t \in GeminiThreads => [goal[t] EXCEPT !.status = "active"] \in GoalRows
      BY <1>goal, RowTypes
    <3> QED BY <3>1, <3>2, <1>goal
  <2>3. up' \in Seq(Messages)
    BY <1>26, Received DEF updateGeminiOwnership
  <2>4. UNCHANGED <<row, stop, log, asked, handling, down, executing, cancelled, waiter, receipt,
                    process, native, confirmed, torn, faults>>
    BY <1>26 DEF updateGeminiOwnership, Receive, Lost, SetGoal, GoalOf, agent
  <2> QED BY <2>1, <2>2, <2>3, <2>4 DEF OwnershipTypeOK
<1>27. CASE updateClaudeOwnership
  <2>1. thread' \in [Threads -> ThreadRows]
    <3> DEFINE t == row[Head(up).id].thread
    <3>1. t \in Threads
      BY <1>27 DEF updateClaudeOwnership, Threads
    <3>2. thread' = thread \/ \E st \in {"interrupted", "running"} :
                                 thread' = [thread EXCEPT ![t].status = st]
      BY <1>27 DEF updateClaudeOwnership, Lost
    <3>3. \A st \in {"interrupted", "running"} : [thread[t] EXCEPT !.status = st] \in ThreadRows
      BY <3>1, <1>thread, RowTypes DEF Busy
    <3> QED BY <3>1, <3>2, <3>3, <1>thread
  <2>2. up' \in Seq(Messages)
    BY <1>27, Received DEF updateClaudeOwnership
  <2>3. UNCHANGED <<row, stop, goal, log, asked, handling, down, executing, cancelled, waiter,
                    receipt, process, native, confirmed, torn, faults>>
    BY <1>27 DEF updateClaudeOwnership, Receive, Lost, agent
  <2> QED BY <2>1, <2>2, <2>3 DEF OwnershipTypeOK
<1>28. CASE HandleResult
  <2>1. row' \in [Turns -> TurnRows]
    <3>1. Head(up).id \in Turns /\ Head(up).status \in Terminal
      BY <1>28, Received DEF HandleResult
    <3>2. [row[Head(up).id] EXCEPT !.status = Head(up).status] \in TurnRows
      BY <3>1, <1>row, RowTypes
    <3> QED BY <1>28, <3>1, <3>2, <1>row DEF HandleResult
  <2>2. handling' \in {None} \cup Handling
    <3>1. Head(up).id \in Turns /\ Head(up).status \in Terminal
      BY <1>28, Received DEF HandleResult
    <3>2. [op |-> Head(up).id, status |-> Head(up).status] \in Handling
      BY <3>1 DEF Handling
    <3> QED BY <1>28, <3>2, <1>handling DEF HandleResult
  <2>3. up' \in Seq(Messages)
    BY <1>28, Received DEF HandleResult
  <2>4. UNCHANGED <<thread, stop, goal, log, asked, down, executing, cancelled, waiter, receipt,
                    process, native, confirmed, torn, faults>>
    BY <1>28 DEF HandleResult, Receive, agent
  <2> QED BY <2>1, <2>2, <2>3, <2>4 DEF OwnershipTypeOK
<1>29. CASE completeGeminiInterrupt
  <2>1. thread' \in [Threads -> ThreadRows]
    <3> DEFINE t == row[stop[Head(up).id].op].thread
    <3>1. t \in Threads
      BY <1>29 DEF completeGeminiInterrupt, Threads
    <3>2. thread' = thread \/ \E st \in {"interrupted", "running"} :
                                 thread' = [thread EXCEPT ![t].status = st]
      BY <1>29 DEF completeGeminiInterrupt, Lost, InterruptFailed
    <3>3. \A st \in {"interrupted", "running"} : [thread[t] EXCEPT !.status = st] \in ThreadRows
      BY <3>1, <1>thread, RowTypes DEF Busy
    <3> QED BY <3>1, <3>2, <3>3, <1>thread
  <2>2. row' \in [Turns -> TurnRows]
    <3>1. Head(up).id \in Stops
      BY <1>29, Received DEF completeGeminiInterrupt
    <3>2. stop[Head(up).id].op \in Turns \cup {None}
      BY <3>1, <1>stop, Columns
    <3>3. \/ row' = row
          \/ row' = [row EXCEPT ![stop[Head(up).id].op].status = "cancelled"]
      BY <1>29 DEF completeGeminiInterrupt
    <3>4. \A r \in TurnRows : [r EXCEPT !.status = "cancelled"] \in TurnRows
      BY RowTypes DEF Terminal
    <3> QED BY <3>3, <3>4, <1>row
  <2>3. stop' \in [Stops -> StopRows]
    <3>1. Head(up).id \in Stops
      BY <1>29, Received DEF completeGeminiInterrupt
    <3>2. \A st \in {"succeeded", "failed"} :
            [stop[Head(up).id] EXCEPT !.status = st] \in StopRows
      BY <3>1, <1>stop, RowTypes
    <3> QED BY <1>29, <3>1, <3>2, <1>stop DEF completeGeminiInterrupt, StopAnswered
  <2>4. goal' \in [GeminiThreads -> GoalRows]
    <3> DEFINE t == row[stop[Head(up).id].op].thread
    <3>1. goal' = goal \/ (t \in GeminiThreads /\ goal' = [goal EXCEPT ![t].status = "active"])
      BY <1>29 DEF completeGeminiInterrupt, Lost, InterruptFailed, SetGoal, GoalOf
    <3>2. t \in GeminiThreads => [goal[t] EXCEPT !.status = "active"] \in GoalRows
      BY <1>goal, RowTypes
    <3> QED BY <3>1, <3>2, <1>goal
  <2>5. handling' \in {None} \cup Handling
    <3> DEFINE s == Head(up).id
               o == stop[s].op
    <3>1. s \in Stops
      BY <1>29, Received DEF completeGeminiInterrupt
    <3>2. handling' = handling \/ (/\ stop[s].status \in {"queued", "delivered"}
                                  /\ handling' = [op |-> o, status |-> "cancelled"])
      BY <1>29 DEF completeGeminiInterrupt
    <3>3. stop[s].status \in {"queued", "delivered"} => o \in Turns
      BY <3>1 DEF StopsNameTurns
    <3> QED BY <3>2, <3>3, <1>handling DEF Handling, Terminal
  <2>6. up' \in Seq(Messages)
    BY <1>29, Received DEF completeGeminiInterrupt
  <2>7. UNCHANGED <<log, asked, down, executing, cancelled, waiter, receipt, process, native,
                    confirmed, torn, faults>>
    BY <1>29 DEF completeGeminiInterrupt, Receive, StopAnswered, InterruptFailed, Lost, SetGoal,
       GoalOf, agent
  <2> QED BY <2>1, <2>2, <2>3, <2>4, <2>5, <2>6, <2>7 DEF OwnershipTypeOK
<1>30. CASE completeClaudeInterrupt
  <2>1. thread' \in [Threads -> ThreadRows]
    <3> DEFINE t == row[stop[Head(up).id].op].thread
    <3>1. t \in Threads
      BY <1>30 DEF completeClaudeInterrupt, Threads
    <3>2. thread' = thread \/ \E st \in {"interrupted", "running"} :
                                 thread' = [thread EXCEPT ![t].status = st]
      BY <1>30 DEF completeClaudeInterrupt, Lost, InterruptFailed
    <3>3. \A st \in {"interrupted", "running"} : [thread[t] EXCEPT !.status = st] \in ThreadRows
      BY <3>1, <1>thread, RowTypes DEF Busy
    <3> QED BY <3>1, <3>2, <3>3, <1>thread
  <2>2. row' \in [Turns -> TurnRows]
    <3>1. Head(up).id \in Stops
      BY <1>30, Received DEF completeClaudeInterrupt
    <3>2. stop[Head(up).id].op \in Turns \cup {None}
      BY <3>1, <1>stop, Columns
    <3>3. \/ row' = row
          \/ row' = [row EXCEPT ![stop[Head(up).id].op].status = "cancelled"]
      BY <1>30 DEF completeClaudeInterrupt
    <3>4. \A r \in TurnRows : [r EXCEPT !.status = "cancelled"] \in TurnRows
      BY RowTypes DEF Terminal
    <3> QED BY <3>3, <3>4, <1>row
  <2>3. stop' \in [Stops -> StopRows]
    <3>1. Head(up).id \in Stops
      BY <1>30, Received DEF completeClaudeInterrupt
    <3>2. \A st \in {"succeeded", "failed"} :
            [stop[Head(up).id] EXCEPT !.status = st] \in StopRows
      BY <3>1, <1>stop, RowTypes
    <3> QED BY <1>30, <3>1, <3>2, <1>stop DEF completeClaudeInterrupt, StopAnswered
  <2>4. goal' \in [GeminiThreads -> GoalRows]
    <3> DEFINE t == row[stop[Head(up).id].op].thread
    <3>1. goal' = goal \/ (t \in GeminiThreads /\ goal' = [goal EXCEPT ![t].status = "active"])
      BY <1>30 DEF completeClaudeInterrupt, Lost, InterruptFailed, SetGoal, GoalOf
    <3>2. t \in GeminiThreads => [goal[t] EXCEPT !.status = "active"] \in GoalRows
      BY <1>goal, RowTypes
    <3> QED BY <3>1, <3>2, <1>goal
  <2>5. handling' \in {None} \cup Handling
    <3> DEFINE s == Head(up).id
               o == stop[s].op
    <3>1. s \in Stops
      BY <1>30, Received DEF completeClaudeInterrupt
    <3>2. handling' = handling \/ (/\ stop[s].status \in {"queued", "delivered"}
                                  /\ handling' = [op |-> o, status |-> "cancelled"])
      BY <1>30 DEF completeClaudeInterrupt
    <3>3. stop[s].status \in {"queued", "delivered"} => o \in Turns
      BY <3>1 DEF StopsNameTurns
    <3> QED BY <3>2, <3>3, <1>handling DEF Handling, Terminal
  <2>6. up' \in Seq(Messages)
    BY <1>30, Received DEF completeClaudeInterrupt
  <2>7. UNCHANGED <<log, asked, down, executing, cancelled, waiter, receipt, process, native,
                    confirmed, torn, faults>>
    BY <1>30 DEF completeClaudeInterrupt, Receive, StopAnswered, InterruptFailed, Lost, SetGoal,
       GoalOf, agent
  <2> QED BY <2>1, <2>2, <2>3, <2>4, <2>5, <2>6, <2>7 DEF OwnershipTypeOK
<1>31. CASE CompleteGeminiTurn
  <2>1. thread' \in [Threads -> ThreadRows]
    BY <1>31, <1>thread, <1>row, OwnershipAssumption
       DEF CompleteGeminiTurn, CompleteTurn, Ended, SetGoal, GoalOf, agent, ThreadRows, Threads,
       Busy, Active
  <2>2. goal' \in [GeminiThreads -> GoalRows]
    <3> DEFINE t == row[handling.op].thread
    <3>1. goal' = goal \/ \E to \in {"blocked", "completed"} :
                             t \in GeminiThreads /\ goal' = [goal EXCEPT ![t].status = to]
      BY <1>31 DEF CompleteGeminiTurn, SetGoal, GoalOf
    <3>2. t \in GeminiThreads =>
            \A to \in {"blocked", "completed"} : [goal[t] EXCEPT !.status = to] \in GoalRows
      BY <1>goal, RowTypes
    <3> QED BY <3>1, <3>2, <1>goal
  <2>3. handling' \in {None} \cup Handling
    BY <1>31, <1>handling, <1>row, <1>stop, <1>up, OwnershipAssumption
       DEF CompleteGeminiTurn, CompleteTurn, Ended, SetGoal, GoalOf, agent, Handling, Terminal
  <2>4. UNCHANGED <<row, stop, log, asked, down, up, executing, cancelled, waiter, receipt,
                    process, native, confirmed, torn, faults>>
    BY <1>31 DEF CompleteGeminiTurn, CompleteTurn, Ended, SetGoal, GoalOf, agent
  <2> QED BY <2>1, <2>2, <2>3, <2>4 DEF OwnershipTypeOK
<1>32. CASE completeClaudeOperation
  <2>1. thread' \in [Threads -> ThreadRows]
    BY <1>32, <1>thread, <1>row, OwnershipAssumption
       DEF completeClaudeOperation, CompleteTurn, Ended, agent, ThreadRows, Threads, Busy, Active
  <2>2. handling' \in {None} \cup Handling
    BY <1>32, <1>handling, <1>row, <1>stop, <1>up, OwnershipAssumption
       DEF completeClaudeOperation, CompleteTurn, Ended, agent, Handling, Terminal
  <2>3. UNCHANGED <<row, stop, goal, log, asked, down, up, executing, cancelled, waiter, receipt,
                    process, native, confirmed, torn, faults>>
    BY <1>32 DEF completeClaudeOperation, CompleteTurn, Ended, agent
  <2> QED BY <2>1, <2>2, <2>3 DEF OwnershipTypeOK
<1>33. CASE Disconnect
  <2>1. handling' \in {None} \cup Handling
    BY <1>33, <1>handling, <1>row, <1>stop, <1>up, OwnershipAssumption
       DEF Disconnect, Fault, db, agent, Handling, Terminal
  <2>2. down' \subseteq Turns \cup Stops
    BY <1>33, <1>down, OwnershipAssumption DEF Disconnect, Fault, db, agent
  <2>3. up' \in Seq(Messages)
    BY <1>33, <1>up, <1>receipt, OwnershipAssumption, QueueLemma
       DEF Disconnect, Fault, db, agent, Messages, Terminal
  <2>4. torn' \subseteq Turns
    BY <1>33, <1>torn, <1>handling, Columns DEF Disconnect
  <2>5. faults' \in Nat
    BY <1>33, <1>faults, OwnershipAssumption DEF Disconnect, Fault, db, agent
  <2>6. UNCHANGED <<thread, row, stop, goal, log, asked, executing, cancelled, waiter, receipt,
                    process, native, confirmed>>
    BY <1>33 DEF Disconnect, Fault, db, agent
  <2> QED BY <2>1, <2>2, <2>3, <2>4, <2>5, <2>6 DEF OwnershipTypeOK
<1>34. CASE Crash
  <2>1. down' \subseteq Turns \cup Stops
    BY <1>34, <1>down, OwnershipAssumption DEF Crash, Fault, db
  <2>2. up' \in Seq(Messages)
    BY <1>34, <1>up, <1>receipt, OwnershipAssumption, QueueLemma
       DEF Crash, Fault, db, Messages, Terminal
  <2>3. executing' \subseteq Turns
    BY <1>34, <1>executing, OwnershipAssumption DEF Crash, Fault, db
  <2>4. cancelled' \subseteq Turns
    BY <1>34, <1>cancelled, OwnershipAssumption DEF Crash, Fault, db
  <2>5. waiter' \in [Stops -> {"absent", "waiting", "stopped", "lost", "timeout"}]
    BY <1>34, <1>waiter, OwnershipAssumption DEF Crash, Fault, db
  <2>6. faults' \in Nat
    BY <1>34, <1>faults, OwnershipAssumption DEF Crash, Fault, db
  <2>7. UNCHANGED <<thread, row, stop, goal, log, asked, handling, receipt, process, native,
                    confirmed, torn>>
    BY <1>34 DEF Crash, Fault, db
  <2> QED BY <2>1, <2>2, <2>3, <2>4, <2>5, <2>6, <2>7 DEF OwnershipTypeOK
<1>35. CASE UNCHANGED vars
  <2>1. UNCHANGED <<thread, row, stop, goal, log, asked, handling, down, up, executing,
                    cancelled, waiter, receipt, process, native, confirmed, torn, faults>>
    BY <1>35 DEF vars, db, agent
  <2> QED BY <2>1 DEF OwnershipTypeOK
<1> QED BY <1>1, <1>2, <1>3, <1>4, <1>5, <1>6, <1>7, <1>8, <1>9, <1>10, <1>11, <1>12,
           <1>13, <1>14, <1>15, <1>16, <1>17, <1>18, <1>19, <1>20, <1>21, <1>22, <1>23, <1>24,
           <1>25, <1>26, <1>27, <1>28, <1>29, <1>30, <1>31, <1>32, <1>33, <1>34, <1>35
        DEF Next, User, Gateway, Execution, StopExecution
-----------------------------------------------------------------------------
(* What a step does to the turns, conversations and goals, whatever action it is *)

RowTo(o, st) == \A p \in Turns : row'[p].status = IF p = o THEN st ELSE row[p].status
ThreadTo(t, st) == \A u \in Threads : thread'[u].status = IF u = t THEN st ELSE thread[u].status
GoalTo(t, o, from, to) ==
  \A u \in GeminiThreads :
    goal'[u].status = IF u = t /\ goal[u].op = o /\ goal[u].status \in from THEN to
                      ELSE goal[u].status

RowsStay == \A p \in Turns : row'[p].status = row[p].status
ThreadsStay == \A u \in Threads : thread'[u].status = thread[u].status
GoalsStay == \A u \in GeminiThreads : goal'[u].status = goal[u].status
EndsStay == handling' = handling /\ torn' = torn

NamesStay ==
  /\ \A p \in Turns : row'[p].thread = row[p].thread
  /\ \A u \in Threads : thread'[u].op = thread[u].op
  /\ \A u \in GeminiThreads : goal'[u].op = goal[u].op

Quiet == NamesStay /\ RowsStay /\ ThreadsStay /\ GoalsStay /\ EndsStay

Queued(t, o) ==
  /\ row[o] = NoRow /\ AtRest(t) /\ ~WriteLocked
  /\ RowTo(o, "queued") /\ ThreadTo(t, "queued")
  /\ \A p \in Turns : row'[p].thread = IF p = o THEN t ELSE row[p].thread
  /\ \A u \in Threads : thread'[u].op = IF u = t THEN o ELSE thread[u].op
  /\ \A u \in GeminiThreads :
       \/ goal'[u].status = goal[u].status /\ goal'[u].op = goal[u].op
       \/ u = t /\ goal'[u].status = "active" /\ goal'[u].op = o
  /\ EndsStay

Stopping(t, o) ==
  /\ Interruptible(t, o)
  /\ \/ row[o].status = "queued" /\ RowTo(o, "cancelled") /\ ThreadTo(t, "interrupted")
     \/ row[o].status # "queued" /\ RowsStay /\ ThreadTo(t, "interrupting")
  /\ \E to \in {"paused", "cancelled"} : GoalTo(t, o, {"active"}, to)
  /\ NamesStay /\ EndsStay

Released(t, o) ==
  /\ thread[t].op = o /\ thread[t].status = "interrupted"
  /\ RowTo(o, "cancelled") /\ GoalTo(t, o, {"active"}, "blocked")
  /\ NamesStay /\ ThreadsStay /\ EndsStay

Deleted(t) ==
  /\ AtRest(t) /\ ThreadTo(t, "deleted")
  /\ NamesStay /\ RowsStay /\ GoalsStay /\ EndsStay

Claimed(o) ==
  /\ row[o].status = "queued" /\ RowTo(o, "delivered")
  /\ NamesStay /\ ThreadsStay /\ GoalsStay /\ EndsStay

Dropped(t) ==
  /\ goal[t].status \in {"paused", "blocked"} /\ GoalTo(t, goal[t].op, {"paused", "blocked"}, "cancelled")
  /\ NamesStay /\ RowsStay /\ ThreadsStay /\ EndsStay

Begun(t, o) ==
  /\ Current(t, o)
  /\ ThreadTo(t, IF thread[t].status \in {"interrupting", "interrupted"} THEN thread[t].status
                 ELSE "running")
  /\ NamesStay /\ RowsStay /\ GoalsStay /\ EndsStay

Doubtful(t, o) ==
  /\ thread[t].op = o /\ thread[t].status # "deleted" /\ ThreadTo(t, "interrupted")
  /\ NamesStay /\ RowsStay /\ GoalsStay /\ EndsStay

\* The turn goes on, after an interruption that was doubted or that failed
GivenBack(t, o) ==
  /\ thread[t].op = o
  /\ thread[t].status = "interrupting" \/ Active(o)
  /\ ThreadTo(t, "running") /\ GoalTo(t, o, {"paused", "cancelled"}, "active")
  /\ NamesStay /\ RowsStay /\ EndsStay

Over(o) ==
  /\ row[o].status \in {"queued", "delivered", "cancelled"}
  /\ \E st \in Terminal : RowTo(o, st)
  /\ handling = None /\ handling' # None /\ handling'.op = o /\ torn' = torn
  /\ NamesStay /\ ThreadsStay /\ GoalsStay

Recorded(t, o) ==
  /\ handling # None /\ handling.op = o /\ row[o].thread = t
  /\ handling' = None /\ torn' = torn
  /\ IF thread[t].op = o /\ thread[t].status # "deleted"
     THEN \E st \in {"interrupted", "idle", "failed"} : ThreadTo(t, st)
     ELSE ThreadsStay
  /\ IF thread[t].op = o
     THEN \E to \in {"blocked", "completed"} : GoalTo(t, o, {"active"}, to)
     ELSE GoalsStay
  /\ NamesStay /\ RowsStay

TornApart ==
  /\ handling' = None
  /\ torn' = IF handling = None THEN torn ELSE torn \cup {handling.op}
  /\ NamesStay /\ RowsStay /\ ThreadsStay /\ GoalsStay

Move ==
  \/ Quiet \/ TornApart
  \/ \E t \in Threads : Deleted(t)
  \/ \E t \in GeminiThreads : Dropped(t)
  \/ \E o \in Turns : Claimed(o) \/ Over(o)
  \/ \E t \in Threads, o \in Turns :
       \/ Queued(t, o) \/ Stopping(t, o) \/ Released(t, o) \/ Begun(t, o)
       \/ Doubtful(t, o) \/ GivenBack(t, o) \/ Recorded(t, o)

\* One column of a row is set.
LEMMA SetColumn ==
    ASSUME OwnershipTypeOK
    PROVE  /\ \A o \in Turns : \A st : row' = [row EXCEPT ![o].status = st] =>
                RowTo(o, st) /\ \A p \in Turns : row'[p].thread = row[p].thread
           /\ \A t \in Threads : \A st : thread' = [thread EXCEPT ![t].status = st] =>
                ThreadTo(t, st) /\ \A u \in Threads : thread'[u].op = thread[u].op
           /\ \A t, o, from, to : SetGoal(t, o, from, to) =>
                GoalTo(t, o, from, to) /\ \A u \in GeminiThreads : goal'[u].op = goal[u].op
           /\ \A t \in Threads : \A st, n :
                thread' = [thread EXCEPT ![t].session = n, ![t].status = st] =>
                  ThreadTo(t, st) /\ \A u \in Threads : thread'[u].op = thread[u].op
           /\ \A o \in Turns : row' = [row EXCEPT ![o].init = TRUE] =>
                \A p \in Turns : row'[p].status = row[p].status /\ row'[p].thread = row[p].thread
<1>row. row \in [Turns -> TurnRows] /\ thread \in [Threads -> ThreadRows]
        /\ goal \in [GeminiThreads -> GoalRows]
  BY DEF OwnershipTypeOK
<1>1. ASSUME NEW o \in Turns, NEW st, row' = [row EXCEPT ![o].status = st]
      PROVE  RowTo(o, st) /\ \A p \in Turns : row'[p].thread = row[p].thread
  <2>1. ASSUME NEW r \in TurnRows
        PROVE  [r EXCEPT !.status = st].status = st /\ [r EXCEPT !.status = st].thread = r.thread
    BY DEF TurnRows
  <2> QED BY <1>row, <1>1, <2>1 DEF RowTo
<1>2. ASSUME NEW t \in Threads, NEW st, thread' = [thread EXCEPT ![t].status = st]
      PROVE  ThreadTo(t, st) /\ \A u \in Threads : thread'[u].op = thread[u].op
  <2>1. ASSUME NEW r \in ThreadRows
        PROVE  [r EXCEPT !.status = st].status = st /\ [r EXCEPT !.status = st].op = r.op
    BY DEF ThreadRows
  <2> QED BY <1>row, <1>2, <2>1 DEF ThreadTo
<1>3. ASSUME NEW t, NEW o, NEW from, NEW to, SetGoal(t, o, from, to)
      PROVE  GoalTo(t, o, from, to) /\ \A u \in GeminiThreads : goal'[u].op = goal[u].op
  <2>1. ASSUME NEW r \in GoalRows
        PROVE  [r EXCEPT !.status = to].status = to /\ [r EXCEPT !.status = to].op = r.op
    BY DEF GoalRows
  <2> QED BY <1>row, <1>3, <2>1 DEF GoalTo, SetGoal, GoalOf
<1>4. ASSUME NEW t \in Threads, NEW st, NEW n,
             thread' = [thread EXCEPT ![t].session = n, ![t].status = st]
      PROVE  ThreadTo(t, st) /\ \A u \in Threads : thread'[u].op = thread[u].op
  <2>1. ASSUME NEW r \in ThreadRows
        PROVE  /\ [r EXCEPT !.session = n, !.status = st].status = st
               /\ [r EXCEPT !.session = n, !.status = st].op = r.op
    BY DEF ThreadRows
  <2> QED BY <1>row, <1>4, <2>1 DEF ThreadTo
<1>5. ASSUME NEW o \in Turns, row' = [row EXCEPT ![o].init = TRUE]
      PROVE  \A p \in Turns : row'[p].status = row[p].status /\ row'[p].thread = row[p].thread
  <2>1. ASSUME NEW r \in TurnRows
        PROVE  [r EXCEPT !.init = TRUE].status = r.status /\ [r EXCEPT !.init = TRUE].thread = r.thread
    BY DEF TurnRows
  <2> QED BY <1>row, <1>5, <2>1
<1> QED BY <1>1, <1>2, <1>3, <1>4, <1>5

\* A turn is queued for a conversation at rest.
LEMMA QueueMove ==
    ASSUME OwnershipTypeOK, NEW t \in Threads, NEW o \in Turns, NEW e,
           Fresh(o), AtRest(t), ~WriteLocked, EndsStay,
           row' = [row EXCEPT ![o] = [status |-> "queued", thread |-> t,
                                      session |-> thread[t].session, edit |-> e, init |-> FALSE]],
           thread' = [thread EXCEPT ![t].status = "queued", ![t].op = o],
           \/ goal' = goal
           \/ t \in GeminiThreads /\ goal' = [goal EXCEPT ![t] = [status |-> "active", op |-> o]]
    PROVE  Queued(t, o)
<1>1. \A p \in Turns : /\ row'[p].status = IF p = o THEN "queued" ELSE row[p].status
                       /\ row'[p].thread = IF p = o THEN t ELSE row[p].thread
  BY DEF OwnershipTypeOK
<1>2. \A u \in Threads : /\ thread'[u].status = IF u = t THEN "queued" ELSE thread[u].status
                         /\ thread'[u].op = IF u = t THEN o ELSE thread[u].op
  <2>1. ASSUME NEW r \in ThreadRows
        PROVE  /\ [r EXCEPT !.status = "queued", !.op = o].status = "queued"
               /\ [r EXCEPT !.status = "queued", !.op = o].op = o
    BY DEF ThreadRows
  <2> QED BY <2>1 DEF OwnershipTypeOK
<1>3. \A u \in GeminiThreads :
        \/ goal'[u].status = goal[u].status /\ goal'[u].op = goal[u].op
        \/ u = t /\ goal'[u].status = "active" /\ goal'[u].op = o
  BY DEF OwnershipTypeOK
<1> QED BY <1>1, <1>2, <1>3 DEF Queued, RowTo, ThreadTo, Fresh

\* Every step is one of these moves.
LEMMA StepIsMove ==
    ASSUME OwnershipTypeOK, StopsNameTurns, [Next]_vars PROVE Move
<1>1. ASSUME NEW t \in GeminiThreads, NEW o \in Turns, NEW e \in Turns \cup {None},
             NEW g \in {"plain", "goal"}, startGeminiTurn(t, o, e, g) PROVE Move
  <2>1. Queued(t, o)
    BY <1>1, QueueMove
       DEF startGeminiTurn, queueGeminiTurn, claimGeminiGoal, AtRest, Threads, EndsStay
  <2> QED BY <1>1, <2>1 DEF Move, Threads
<1>2. ASSUME NEW t \in ClaudeThreads, NEW o \in Turns, NEW e \in Turns \cup {None},
             startClaudeTurn(t, o, e)
      PROVE  Move
  <2>1. Queued(t, o)
    BY <1>2, QueueMove DEF startClaudeTurn, queueClaudeInput, AtRest, Threads, EndsStay
  <2> QED BY <1>2, <2>1 DEF Move, Threads
<1>3. ASSUME NEW s \in Stops, NEW t \in GeminiThreads, interruptGeminiTurn(s, t)
      PROVE  Move
  <2> DEFINE o == thread[t].op
  <2>1. Interruptible(t, o) /\ t \in Threads /\ EndsStay
    BY <1>3 DEF interruptGeminiTurn, InterruptGeminiTurn, Threads, EndsStay
  <2>2. o \in Turns
    BY <2>1, Columns DEF Interruptible, Active, OwnershipTypeOK
  <2>3. GoalTo(t, o, {"active"}, "paused") /\ \A u \in GeminiThreads : goal'[u].op = goal[u].op
    BY <1>3, SetColumn DEF interruptGeminiTurn, InterruptGeminiTurn
  <2>4. /\ \/ row[o].status = "queued" /\ RowTo(o, "cancelled") /\ ThreadTo(t, "interrupted")
           \/ row[o].status # "queued" /\ RowsStay /\ ThreadTo(t, "interrupting")
        /\ \A p \in Turns : row'[p].thread = row[p].thread
        /\ \A u \in Threads : thread'[u].op = thread[u].op
    BY <1>3, <2>1, <2>2, SetColumn
       DEF interruptGeminiTurn, InterruptGeminiTurn, Interrupt, RowsStay
  <2>5. Stopping(t, o)
    BY <2>1, <2>3, <2>4 DEF Stopping, NamesStay
  <2> QED BY <2>1, <2>2, <2>5 DEF Move
<1>4. ASSUME NEW s \in Stops, NEW t \in ClaudeThreads, interruptClaudeTurn(s, t)
      PROVE  Move
  BY <1>4 DEF interruptClaudeTurn, Interruptible, RecoveryPending, db, agent, Move, Quiet,
     NamesStay, RowsStay, ThreadsStay, GoalsStay, EndsStay
<1>5. ASSUME NEW s \in Stops, NEW t \in GeminiThreads,
             NEW a \in {"paused", "cancelled"}, controlGeminiGoal(s, t, a) PROVE Move
  <2> DEFINE o == thread[t].op
  <2>1. Interruptible(t, o) /\ t \in Threads /\ EndsStay
    BY <1>5 DEF controlGeminiGoal, InterruptGeminiTurn, Threads, EndsStay
  <2>2. o \in Turns
    BY <2>1, Columns DEF Interruptible, Active, OwnershipTypeOK
  <2>3. GoalTo(t, o, {"active"}, a) /\ \A u \in GeminiThreads : goal'[u].op = goal[u].op
    BY <1>5, SetColumn DEF controlGeminiGoal, InterruptGeminiTurn
  <2>4. /\ \/ row[o].status = "queued" /\ RowTo(o, "cancelled") /\ ThreadTo(t, "interrupted")
           \/ row[o].status # "queued" /\ RowsStay /\ ThreadTo(t, "interrupting")
        /\ \A p \in Turns : row'[p].thread = row[p].thread
        /\ \A u \in Threads : thread'[u].op = thread[u].op
    BY <1>5, <2>1, <2>2, SetColumn DEF controlGeminiGoal, InterruptGeminiTurn, Interrupt, RowsStay
  <2>5. Stopping(t, o)
    BY <2>1, <2>3, <2>4 DEF Stopping, NamesStay
  <2> QED BY <2>1, <2>2, <2>5 DEF Move
<1>6. ASSUME NEW t \in GeminiThreads, NEW o \in Turns, resumeGeminiGoal(t, o)
      PROVE  Move
  <2>1. Queued(t, o)
    BY <1>6, QueueMove
       DEF resumeGeminiGoal, queueGeminiTurn, claimGeminiGoal, AtRest, Threads, EndsStay
  <2> QED BY <1>6, <2>1 DEF Move, Threads
<1>7. ASSUME NEW t \in GeminiThreads, CancelInactiveGeminiGoal(t) PROVE Move
  <2>1. SetGoal(t, goal[t].op, {"paused", "blocked"}, "cancelled")
    BY <1>7 DEF CancelInactiveGeminiGoal, SetGoal, GoalOf
  <2>2. Dropped(t)
    BY <1>7, <2>1, SetColumn
       DEF CancelInactiveGeminiGoal, Dropped, NamesStay, RowsStay, ThreadsStay,
       EndsStay
  <2> QED BY <2>2 DEF Move
<1>8. ASSUME NEW t \in GeminiThreads, NEW o \in Turns, confirmGeminiStopped(t, o)
      PROVE  Move
  <2>1. /\ thread[t].op = o /\ thread[t].status = "interrupted" /\ t \in Threads
        /\ EndsStay /\ ThreadsStay /\ thread' = thread
    BY <1>8 DEF confirmGeminiStopped, ConfirmGeminiStopped, ReleaseTurn, EndsStay, ThreadsStay,
       Threads
  <2>2. RowTo(o, "cancelled") /\ \A p \in Turns : row'[p].thread = row[p].thread
    BY <1>8, SetColumn DEF confirmGeminiStopped, ConfirmGeminiStopped, ReleaseTurn
  <2>3. GoalTo(t, o, {"active"}, "blocked") /\ \A u \in GeminiThreads : goal'[u].op = goal[u].op
    BY <1>8, SetColumn DEF confirmGeminiStopped, ConfirmGeminiStopped, ReleaseTurn
  <2>4. Released(t, o)
    BY <2>1, <2>2, <2>3 DEF Released, NamesStay
  <2> QED BY <2>1, <2>4 DEF Move
<1>9. ASSUME NEW t \in ClaudeThreads, NEW o \in Turns, confirmClaudeStopped(t, o)
      PROVE  Move
  <2>1. /\ thread[t].op = o /\ thread[t].status = "interrupted" /\ t \in Threads
        /\ EndsStay /\ ThreadsStay /\ thread' = thread
    BY <1>9 DEF confirmClaudeStopped, ConfirmClaudeStopped, ReleaseTurn, EndsStay, ThreadsStay,
       Threads
  <2>2. RowTo(o, "cancelled") /\ \A p \in Turns : row'[p].thread = row[p].thread
    BY <1>9, SetColumn DEF confirmClaudeStopped, ConfirmClaudeStopped, ReleaseTurn
  <2>3. GoalTo(t, o, {"active"}, "blocked") /\ \A u \in GeminiThreads : goal'[u].op = goal[u].op
    BY <1>9, OwnershipAssumption
       DEF confirmClaudeStopped, ConfirmClaudeStopped, ReleaseTurn, GoalTo
  <2>4. Released(t, o)
    BY <2>1, <2>2, <2>3 DEF Released, NamesStay
  <2> QED BY <2>1, <2>4 DEF Move
<1>10. ASSUME NEW t \in GeminiThreads, DeleteGeminiThread(t) PROVE Move
  <2>1. AtRest(t) /\ t \in Threads /\ row' = row /\ goal' = goal /\ EndsStay
    BY <1>10 DEF DeleteGeminiThread, Threads, EndsStay
  <2>2. ThreadTo(t, "deleted") /\ \A u \in Threads : thread'[u].op = thread[u].op
    BY <1>10, <2>1, SetColumn DEF DeleteGeminiThread
  <2>3. Deleted(t)
    BY <2>1, <2>2 DEF Deleted, NamesStay, RowsStay, GoalsStay
  <2> QED BY <2>1, <2>3 DEF Move
<1>11. ASSUME NEW t \in ClaudeThreads, DeleteClaudeThread(t) PROVE Move
  <2>1. AtRest(t) /\ t \in Threads /\ row' = row /\ goal' = goal /\ EndsStay
    BY <1>11 DEF DeleteClaudeThread, Threads, EndsStay
  <2>2. ThreadTo(t, "deleted") /\ \A u \in Threads : thread'[u].op = thread[u].op
    BY <1>11, <2>1, SetColumn DEF DeleteClaudeThread
  <2>3. Deleted(t)
    BY <2>1, <2>2 DEF Deleted, NamesStay, RowsStay, GoalsStay
  <2> QED BY <2>1, <2>3 DEF Move
<1>12. ASSUME NEW s \in Stops, InterruptClaudeTurn(s) PROVE Move
  <2> DEFINE t == asked[s].thread
             o == asked[s].op
  <2>1. /\ t \in Threads /\ t \notin GeminiThreads /\ o \in Turns
        /\ EndsStay /\ goal' = goal
    BY <1>12, Columns, OwnershipAssumption
       DEF InterruptClaudeTurn, OwnershipTypeOK, EndsStay, Threads
  <2>2. CASE Interruptible(t, o)
    <3>1. /\ \/ row[o].status = "queued" /\ RowTo(o, "cancelled") /\ ThreadTo(t, "interrupted")
             \/ row[o].status # "queued" /\ RowsStay /\ ThreadTo(t, "interrupting")
          /\ \A p \in Turns : row'[p].thread = row[p].thread
          /\ \A u \in Threads : thread'[u].op = thread[u].op
      BY <1>12, <2>1, <2>2, SetColumn DEF InterruptClaudeTurn, Interrupt, RowsStay
    <3>2. GoalTo(t, o, {"active"}, "paused")
      BY <2>1 DEF GoalTo
    <3>3. Stopping(t, o)
      BY <2>1, <2>2, <3>1, <3>2 DEF Stopping, NamesStay
    <3> QED BY <2>1, <3>3 DEF Move
  <2>3. CASE ~Interruptible(t, o)
    BY <1>12, <2>1, <2>3
       DEF InterruptClaudeTurn, Move, Quiet, NamesStay, RowsStay, ThreadsStay, GoalsStay, EndsStay
  <2> QED BY <2>2, <2>3
<1>13. ASSUME NEW o \in Turns, ClaimGeminiDelivery(o) PROVE Move
  <2>1. RowTo(o, "delivered") /\ \A p \in Turns : row'[p].thread = row[p].thread
    BY <1>13, SetColumn DEF ClaimGeminiDelivery
  <2>2. Claimed(o)
    BY <1>13, <2>1 DEF ClaimGeminiDelivery, Claimed, NamesStay, ThreadsStay, GoalsStay, EndsStay
  <2> QED BY <2>2 DEF Move
<1>14. ASSUME NEW o \in Turns, Probing(o) PROVE Move
  BY <1>14 DEF Probing, reconcileGeminiOperations, reconcileClaudeOperations, Probe, Unfinished,
     Answer, Send, Message, db, agent, Move, Quiet, NamesStay, RowsStay, ThreadsStay, GoalsStay,
     EndsStay
<1>15. ASSUME NEW o \in Turns, handleTurnCommand(o) PROVE Move
  BY <1>15 DEF handleTurnCommand, db, Move, Quiet, NamesStay, RowsStay, ThreadsStay, GoalsStay,
     EndsStay
<1>16. ASSUME NEW o \in Turns, startProcess(o) PROVE Move
  BY <1>16 DEF startProcess, Send, Message, db, Move, Quiet, NamesStay, RowsStay, ThreadsStay,
     GoalsStay, EndsStay
<1>17. ASSUME NEW o \in Turns, finish(o) PROVE Move
  BY <1>17 DEF finish, Send, Message, db, Move, Quiet, NamesStay, RowsStay, ThreadsStay,
     GoalsStay, EndsStay
<1>18. ASSUME NEW o \in Turns, orphanExits(o) PROVE Move
  BY <1>18 DEF orphanExits, db, Move, Quiet, NamesStay, RowsStay, ThreadsStay, GoalsStay, EndsStay
<1>19. ASSUME NEW s \in Stops, SendStop(s) PROVE Move
  BY <1>19 DEF SendStop, agent, Move, Quiet, NamesStay, RowsStay, ThreadsStay, GoalsStay, EndsStay
<1>20. ASSUME NEW s \in Stops, stopStarts(s) PROVE Move
  BY <1>20 DEF stopStarts, db, Move, Quiet, NamesStay, RowsStay, ThreadsStay, GoalsStay, EndsStay
<1>21. ASSUME NEW s \in Stops, stopFindsNothing(s) PROVE Move
  BY <1>21 DEF stopFindsNothing, Send, Message, db, Move, Quiet, NamesStay, RowsStay,
     ThreadsStay, GoalsStay, EndsStay
<1>22. ASSUME NEW s \in Stops, interruptAndWait(s) PROVE Move
  BY <1>22 DEF interruptAndWait, Send, Message, db, Move, Quiet, NamesStay, RowsStay,
     ThreadsStay, GoalsStay, EndsStay
<1>23. ASSUME NEW s \in Stops, replayStop(s) PROVE Move
  BY <1>23 DEF replayStop, Send, Message, db, agent, Move, Quiet, NamesStay, RowsStay,
     ThreadsStay, GoalsStay, EndsStay
<1>24. CASE handleGeminiInit
  <2> DEFINE o == Head(up).id
             t == row[o].thread
             st == IF thread[t].status \in {"interrupting", "interrupted"} THEN thread[t].status
                   ELSE "running"
  <2>1. o \in Turns /\ t \in Threads /\ EndsStay /\ goal' = goal
    BY <1>24, Received DEF handleGeminiInit, Threads, EndsStay
  <2>2. CASE thread' = thread /\ row' = row
    BY <2>1, <2>2 DEF Move, Quiet, NamesStay, RowsStay, ThreadsStay, GoalsStay, EndsStay
  <2>3. CASE Current(t, o) /\ Initialised(t, o)
    <3>1. ThreadTo(t, st) /\ \A u \in Threads : thread'[u].op = thread[u].op
      <4>1. thread' = [thread EXCEPT ![t].session = Session(o), ![t].status = st]
        BY <2>3 DEF Initialised
      <4> HIDE DEF st, t
      <4> QED BY <2>1, <4>1, SetColumn
    <3>2. RowsStay /\ \A p \in Turns : row'[p].thread = row[p].thread
      BY <2>1, <2>3, SetColumn DEF Initialised, RowsStay
    <3>3. Begun(t, o)
      BY <2>1, <2>3, <3>1, <3>2 DEF Begun, NamesStay, GoalsStay
    <3> QED BY <2>1, <3>3 DEF Move
  <2> QED BY <1>24, <2>2, <2>3 DEF handleGeminiInit
<1>25. CASE handleClaudeInit
  <2> DEFINE o == Head(up).id
             t == row[o].thread
             st == IF thread[t].status \in {"interrupting", "interrupted"} THEN thread[t].status
                   ELSE "running"
  <2>1. o \in Turns /\ t \in Threads /\ EndsStay /\ goal' = goal
    BY <1>25, Received DEF handleClaudeInit, Threads, EndsStay
  <2>2. CASE thread' = thread /\ row' = row
    BY <2>1, <2>2 DEF Move, Quiet, NamesStay, RowsStay, ThreadsStay, GoalsStay, EndsStay
  <2>3. CASE Current(t, o) /\ Initialised(t, o)
    <3>1. ThreadTo(t, st) /\ \A u \in Threads : thread'[u].op = thread[u].op
      <4>1. thread' = [thread EXCEPT ![t].session = Session(o), ![t].status = st]
        BY <2>3 DEF Initialised
      <4> HIDE DEF st, t
      <4> QED BY <2>1, <4>1, SetColumn
    <3>2. RowsStay /\ \A p \in Turns : row'[p].thread = row[p].thread
      BY <2>1, <2>3, SetColumn DEF Initialised, RowsStay
    <3>3. Begun(t, o)
      BY <2>1, <2>3, <3>1, <3>2 DEF Begun, NamesStay, GoalsStay
    <3> QED BY <2>1, <3>3 DEF Move
  <2> QED BY <1>25, <2>2, <2>3 DEF handleClaudeInit
<1>26. CASE updateGeminiOwnership
  <2> DEFINE o == Head(up).id
             t == row[o].thread
  <2>1. o \in Turns /\ t \in Threads /\ EndsStay /\ row' = row
    BY <1>26, Received DEF updateGeminiOwnership, Threads, EndsStay
  <2>2. CASE thread' = thread /\ goal' = goal
    BY <2>1, <2>2 DEF Move, Quiet, NamesStay, RowsStay, ThreadsStay, GoalsStay, EndsStay
  <2>3. CASE /\ thread[t].op = o /\ goal' = goal /\ thread[t].status \in Busy
             /\ thread' = [thread EXCEPT ![t].status = "interrupted"]
    <3>1. Doubtful(t, o)
      BY <2>1, <2>3, SetColumn DEF Doubtful, Busy, NamesStay, RowsStay, GoalsStay
    <3> QED BY <2>1, <3>1 DEF Move
  <2>4. CASE /\ thread[t].op = o /\ Active(o) /\ thread' = [thread EXCEPT ![t].status = "running"]
             /\ SetGoal(t, o, {"paused", "cancelled"}, "active")
    <3>1. GivenBack(t, o)
      BY <2>1, <2>4, SetColumn DEF GivenBack, NamesStay, RowsStay
    <3> QED BY <2>1, <3>1 DEF Move
  <2> QED BY <1>26, <2>2, <2>3, <2>4 DEF updateGeminiOwnership, Lost, Active, InFlight
<1>27. CASE updateClaudeOwnership
  <2> DEFINE o == Head(up).id
             t == row[o].thread
  <2>1. o \in Turns /\ t \in Threads /\ EndsStay /\ row' = row
    BY <1>27, Received DEF updateClaudeOwnership, Threads, EndsStay
  <2>2. CASE thread' = thread /\ goal' = goal
    BY <2>1, <2>2 DEF Move, Quiet, NamesStay, RowsStay, ThreadsStay, GoalsStay, EndsStay
  <2>3. CASE /\ thread[t].op = o /\ goal' = goal /\ thread[t].status \in Busy
             /\ thread' = [thread EXCEPT ![t].status = "interrupted"]
    <3>1. Doubtful(t, o)
      BY <2>1, <2>3, SetColumn DEF Doubtful, Busy, NamesStay, RowsStay, GoalsStay
    <3> QED BY <2>1, <3>1 DEF Move
  <2>4. CASE /\ thread[t].op = o /\ Active(o) /\ thread' = [thread EXCEPT ![t].status = "running"]
             /\ goal' = goal /\ t \in ClaudeThreads
    <3>1. GoalTo(t, o, {"paused", "cancelled"}, "active")
      BY <2>4, OwnershipAssumption DEF GoalTo
    <3>2. GivenBack(t, o)
      BY <2>1, <2>4, <3>1, SetColumn DEF GivenBack, NamesStay, RowsStay
    <3> QED BY <2>1, <3>2 DEF Move
  <2> QED BY <1>27, <2>2, <2>3, <2>4 DEF updateClaudeOwnership, Lost, Active, InFlight
<1>28. CASE HandleResult
  <2> DEFINE o == Head(up).id
  <2>1. o \in Turns /\ Head(up).status \in Terminal /\ handling = None /\ torn' = torn
        /\ thread' = thread /\ goal' = goal
    BY <1>28, Received DEF HandleResult, Receive
  <2>2. CASE row' = row /\ handling' = handling
    BY <2>1, <2>2 DEF Move, Quiet, NamesStay, RowsStay, ThreadsStay, GoalsStay, EndsStay
  <2>3. CASE /\ Active(o) /\ row' = [row EXCEPT ![o].status = Head(up).status]
             /\ handling' = [op |-> o, status |-> Head(up).status]
    <3>1. handling' # None /\ handling'.op = o
      BY <2>1, <2>3, OwnershipAssumption DEF Handling
    <3>2. Over(o)
      BY <2>1, <2>3, <3>1, SetColumn DEF Over, Active, NamesStay, ThreadsStay, GoalsStay
    <3> QED BY <2>1, <3>2 DEF Move
  <2> QED BY <1>28, <2>2, <2>3 DEF HandleResult
<1>29. CASE completeGeminiInterrupt
  <2> DEFINE s == Head(up).id
             o == stop[s].op
             t == row[o].thread
  <2>1. s \in Stops /\ t \in Threads /\ handling = None /\ torn' = torn
    BY <1>29, Received DEF completeGeminiInterrupt, Receive, Threads
  <2>2. CASE thread' = thread /\ row' = row /\ goal' = goal /\ handling' = handling
    BY <2>1, <2>2 DEF Move, Quiet, NamesStay, RowsStay, ThreadsStay, GoalsStay, EndsStay
  <2>3. ASSUME stop[s].status \in {"queued", "delivered"} PROVE Move
    <3>1. o \in Turns
      BY <2>1, <2>3 DEF StopsNameTurns
    <3>2. CASE /\ row[o].status \in {"queued", "delivered", "cancelled"}
               /\ row' = [row EXCEPT ![o].status = "cancelled"]
               /\ handling' = [op |-> o, status |-> "cancelled"] /\ thread' = thread /\ goal' = goal
      <4>1. handling' # None /\ handling'.op = o
        BY <3>1, <3>2, OwnershipAssumption DEF Handling, Terminal
      <4>2. Over(o)
        BY <2>1, <3>1, <3>2, <4>1, SetColumn DEF Over, NamesStay, ThreadsStay, GoalsStay, Terminal
      <4> QED BY <3>1, <4>2 DEF Move
    <3>3. CASE /\ thread[t].op = o /\ thread[t].status \in Busy
               /\ thread' = [thread EXCEPT ![t].status = "interrupted"]
               /\ row' = row /\ goal' = goal /\ handling' = handling
      <4>1. Doubtful(t, o)
        BY <2>1, <3>3, SetColumn DEF Doubtful, Busy, NamesStay, RowsStay, GoalsStay, EndsStay
      <4> QED BY <2>1, <3>1, <4>1 DEF Move
    <3>4. CASE /\ thread[t].op = o /\ thread[t].status = "interrupting"
               /\ thread' = [thread EXCEPT ![t].status = "running"]
               /\ SetGoal(t, o, {"paused", "cancelled"}, "active")
               /\ row' = row /\ handling' = handling
      <4>1. GivenBack(t, o)
        BY <2>1, <3>4, SetColumn DEF GivenBack, NamesStay, RowsStay, EndsStay
      <4> QED BY <2>1, <3>1, <4>1 DEF Move
    <3>5. Lost(t, o) =>
            /\ goal' = goal
            /\ \/ thread' = thread
               \/ /\ thread[t].op = o /\ thread[t].status \in Busy
                  /\ thread' = [thread EXCEPT ![t].status = "interrupted"]
      BY DEF Lost
    <3>6. CASE Head(up).status = "stopped"
      BY <1>29, <2>2, <2>3, <3>2, <3>6 DEF completeGeminiInterrupt, Active
    <3>7. CASE Head(up).status = "lost"
      BY <1>29, <2>2, <2>3, <3>3, <3>5, <3>7 DEF completeGeminiInterrupt
    <3>8. CASE Head(up).status \notin {"stopped", "lost"}
      BY <1>29, <2>2, <2>3, <3>3, <3>4, <3>8 DEF completeGeminiInterrupt, InterruptFailed, Busy
    <3> QED BY <3>6, <3>7, <3>8
  <2> QED BY <1>29, <2>2, <2>3 DEF completeGeminiInterrupt
<1>30. CASE completeClaudeInterrupt
  <2> DEFINE s == Head(up).id
             o == stop[s].op
             t == row[o].thread
  <2>1. s \in Stops /\ t \in Threads /\ handling = None /\ torn' = torn
    BY <1>30, Received DEF completeClaudeInterrupt, Receive, Threads
  <2>2. CASE thread' = thread /\ row' = row /\ goal' = goal /\ handling' = handling
    BY <2>1, <2>2 DEF Move, Quiet, NamesStay, RowsStay, ThreadsStay, GoalsStay, EndsStay
  <2>3. ASSUME stop[s].status \in {"queued", "delivered"} PROVE Move
    <3>1. o \in Turns
      BY <2>1, <2>3 DEF StopsNameTurns
    <3>2. CASE /\ row[o].status \in {"queued", "delivered", "cancelled"}
               /\ row' = [row EXCEPT ![o].status = "cancelled"]
               /\ handling' = [op |-> o, status |-> "cancelled"] /\ thread' = thread /\ goal' = goal
      <4>1. handling' # None /\ handling'.op = o
        BY <3>1, <3>2, OwnershipAssumption DEF Handling, Terminal
      <4>2. Over(o)
        BY <2>1, <3>1, <3>2, <4>1, SetColumn DEF Over, NamesStay, ThreadsStay, GoalsStay, Terminal
      <4> QED BY <3>1, <4>2 DEF Move
    <3>3. CASE /\ thread[t].op = o /\ thread[t].status \in Busy
               /\ thread' = [thread EXCEPT ![t].status = "interrupted"]
               /\ row' = row /\ goal' = goal /\ handling' = handling
      <4>1. Doubtful(t, o)
        BY <2>1, <3>3, SetColumn DEF Doubtful, Busy, NamesStay, RowsStay, GoalsStay, EndsStay
      <4> QED BY <2>1, <3>1, <4>1 DEF Move
    <3>4. CASE /\ thread[t].op = o /\ thread[t].status = "interrupting"
               /\ thread' = [thread EXCEPT ![t].status = "running"]
               /\ SetGoal(t, o, {"paused", "cancelled"}, "active")
               /\ row' = row /\ handling' = handling
      <4>1. GivenBack(t, o)
        BY <2>1, <3>4, SetColumn DEF GivenBack, NamesStay, RowsStay, EndsStay
      <4> QED BY <2>1, <3>1, <4>1 DEF Move
    <3>5. Lost(t, o) =>
            /\ goal' = goal
            /\ \/ thread' = thread
               \/ /\ thread[t].op = o /\ thread[t].status \in Busy
                  /\ thread' = [thread EXCEPT ![t].status = "interrupted"]
      BY DEF Lost
    <3>6. CASE Head(up).status = "stopped"
      BY <1>30, <2>2, <2>3, <3>2, <3>6 DEF completeClaudeInterrupt, Active
    <3>7. CASE Head(up).status = "lost"
      BY <1>30, <2>2, <2>3, <3>3, <3>5, <3>7 DEF completeClaudeInterrupt
    <3>8. CASE Head(up).status \notin {"stopped", "lost"}
      BY <1>30, <2>2, <2>3, <3>3, <3>4, <3>8 DEF completeClaudeInterrupt, InterruptFailed, Busy
    <3> QED BY <3>6, <3>7, <3>8
  <2> QED BY <1>30, <2>2, <2>3 DEF completeClaudeInterrupt
<1>31. CASE CompleteGeminiTurn
  <2> DEFINE o == handling.op
             t == row[o].thread
  <2>1. /\ o \in Turns /\ t \in Threads /\ handling # None /\ handling' = None /\ torn' = torn
        /\ row' = row
    BY <1>31, Columns DEF CompleteGeminiTurn, OwnershipTypeOK, Threads
  <2>2. /\ IF thread[t].op = o /\ thread[t].status # "deleted"
           THEN \E st \in {"interrupted", "idle", "failed"} : ThreadTo(t, st)
           ELSE ThreadsStay
        /\ \A u \in Threads : thread'[u].op = thread[u].op
    <3>1. Ended(t, handling.status) \in {"interrupted", "idle", "failed"}
      BY DEF Ended
    <3>2. CompleteTurn(t, o, handling.status)
      BY <1>31 DEF CompleteGeminiTurn
    <3> QED BY <2>1, <3>1, <3>2, SetColumn DEF CompleteTurn, ThreadsStay
  <2>3. /\ IF thread[t].op = o
           THEN \E to \in {"blocked", "completed"} : GoalTo(t, o, {"active"}, to)
           ELSE GoalsStay
        /\ \A u \in GeminiThreads : goal'[u].op = goal[u].op
    BY <1>31, SetColumn DEF CompleteGeminiTurn, GoalsStay
  <2>4. Recorded(t, o)
    BY <2>1, <2>2, <2>3 DEF Recorded, NamesStay, RowsStay
  <2> QED BY <2>1, <2>4 DEF Move
<1>32. CASE completeClaudeOperation
  <2> DEFINE o == handling.op
             t == row[o].thread
  <2>1. /\ o \in Turns /\ t \in Threads /\ handling # None /\ handling' = None /\ torn' = torn
        /\ row' = row
    BY <1>32, Columns DEF completeClaudeOperation, OwnershipTypeOK, Threads
  <2>2. /\ IF thread[t].op = o /\ thread[t].status # "deleted"
           THEN \E st \in {"interrupted", "idle", "failed"} : ThreadTo(t, st)
           ELSE ThreadsStay
        /\ \A u \in Threads : thread'[u].op = thread[u].op
    <3>1. Ended(t, handling.status) \in {"interrupted", "idle", "failed"}
      BY DEF Ended
    <3>2. CompleteTurn(t, o, handling.status)
      BY <1>32 DEF completeClaudeOperation
    <3> QED BY <2>1, <3>1, <3>2, SetColumn DEF CompleteTurn, ThreadsStay
  <2>3. /\ IF thread[t].op = o
           THEN \E to \in {"blocked", "completed"} : GoalTo(t, o, {"active"}, to)
           ELSE GoalsStay
        /\ \A u \in GeminiThreads : goal'[u].op = goal[u].op
    BY <1>32, OwnershipAssumption DEF completeClaudeOperation, GoalTo, GoalsStay
  <2>4. Recorded(t, o)
    BY <2>1, <2>2, <2>3 DEF Recorded, NamesStay, RowsStay
  <2> QED BY <2>1, <2>4 DEF Move
<1>33. CASE Disconnect
  BY <1>33 DEF Disconnect, db, Move, TornApart, NamesStay, RowsStay, ThreadsStay, GoalsStay
<1>34. CASE Crash
  BY <1>34 DEF Crash, Fault, db, Move, Quiet, NamesStay, RowsStay, ThreadsStay, GoalsStay,
     EndsStay
<1>35. CASE UNCHANGED vars
  BY <1>35 DEF vars, db, agent, Move, Quiet, NamesStay, RowsStay, ThreadsStay, GoalsStay, EndsStay
<1> QED BY <1>1, <1>2, <1>3, <1>4, <1>5, <1>6, <1>7, <1>8, <1>9, <1>10, <1>11, <1>12,
           <1>13, <1>14, <1>15, <1>16, <1>17, <1>18, <1>19, <1>20, <1>21, <1>22, <1>23, <1>24,
           <1>25, <1>26, <1>27, <1>28, <1>29, <1>30, <1>31, <1>32, <1>33, <1>34, <1>35
        DEF Next, User, Gateway, Execution, StopExecution

-----------------------------------------------------------------------------
(* The moves preserve what relates conversations, goals and turns *)

\* What conversations, goals and turns name is a row.
LEMMA Names ==
    ASSUME OwnershipTypeOK
    PROVE  /\ \A t \in Threads : thread[t].op \in Turns \cup {None}
           /\ \A t \in GeminiThreads : goal[t].op \in Turns \cup {None} /\ t \in Threads
           /\ \A o \in Turns : row[o].thread \in Threads \cup {None}
           /\ handling # None => handling.op \in Turns
           /\ None \notin Turns /\ None \notin Threads
           /\ NoRow.thread = None /\ NoRow.status = "none"
BY OwnershipAssumption, Columns DEF OwnershipTypeOK, GoalRows, Threads, NoRow

\* A conversation, its goal and its turn go on naming each other.
LEMMA NamesStep ==
    ASSUME OwnershipTypeOK, TurnsOfThreads, Move PROVE TurnsOfThreads'
<1>1. ASSUME NamesStay, \A u \in GeminiThreads : goal[u].status = "none" => goal'[u].status = "none"
      PROVE  TurnsOfThreads'
  BY <1>1, Names DEF TurnsOfThreads, NamesStay
<1>2. ASSUME NEW t \in Threads, NEW o \in Turns, Queued(t, o) PROVE TurnsOfThreads'
  <2>1. \A p \in Turns : row[p].thread # None => row'[p].thread = row[p].thread
    BY <1>2, Names DEF Queued
  <2>2. row'[o].thread = t
    BY <1>2 DEF Queued
  <2>3. ASSUME NEW u \in Threads, thread'[u].op # None PROVE row'[thread'[u].op].thread = u
    BY <1>2, <2>1, <2>2, <2>3, Names DEF Queued, TurnsOfThreads
  <2>4. ASSUME NEW u \in GeminiThreads
        PROVE  IF goal'[u].op = None THEN goal'[u].status = "none" ELSE row'[goal'[u].op].thread = u
    BY <1>2, <2>1, <2>2, Names DEF Queued, TurnsOfThreads
  <2> QED BY <2>3, <2>4 DEF TurnsOfThreads
<1>3. \A t, o, from, to : (GoalTo(t, o, from, to) /\ "none" \notin from) =>
        \A u \in GeminiThreads : goal[u].status = "none" => goal'[u].status = "none"
  BY DEF GoalTo
<1>4. CASE Quiet \/ TornApart \/ (\E t \in Threads : Deleted(t)) \/ (\E o \in Turns : Claimed(o) \/ Over(o))
  BY <1>1, <1>4 DEF Quiet, TornApart, Deleted, Claimed, Over, GoalsStay
<1>5. ASSUME NEW t \in GeminiThreads, Dropped(t) PROVE TurnsOfThreads'
  BY <1>1, <1>3, <1>5 DEF Dropped
<1>6. ASSUME NEW t \in Threads, NEW o \in Turns, Stopping(t, o) \/ Released(t, o)
      PROVE  TurnsOfThreads'
  BY <1>1, <1>3, <1>6 DEF Stopping, Released
<1>7. ASSUME NEW t \in Threads, NEW o \in Turns, Begun(t, o) \/ Doubtful(t, o)
      PROVE  TurnsOfThreads'
  BY <1>1, <1>7 DEF Begun, Doubtful, GoalsStay
<1>8. ASSUME NEW t \in Threads, NEW o \in Turns, GivenBack(t, o) \/ Recorded(t, o)
      PROVE  TurnsOfThreads'
  BY <1>1, <1>3, <1>8 DEF GivenBack, Recorded, GoalsStay
<1> QED BY <1>2, <1>4, <1>5, <1>6, <1>7, <1>8 DEF Move

\* The turn whose end is recorded stays over, and so does the turn of a goal that is over.
LEMMA OverStep ==
    ASSUME OwnershipTypeOK, TurnsOfThreads, OverIsOver, Move PROVE OverIsOver'
<1>1. ASSUME \A p \in Turns : row[p].status \in Terminal => row'[p].status \in Terminal,
             \A p \in Turns : Active(p)' => Active(p),
             handling' # None => handling' = handling \/ (handling'.op \in Turns /\ row'[handling'.op].status \in Terminal),
             \A u \in GeminiThreads :
               goal'[u].op = goal[u].op
               /\ (goal'[u].status \in {"blocked", "completed"} =>
                     goal[u].status \in {"blocked", "completed"} \/ ~Active(goal[u].op)')
      PROVE  OverIsOver'
  BY <1>1, Names DEF OverIsOver, Active
<1>2. ASSUME NEW t \in Threads, NEW o \in Turns, Queued(t, o) PROVE OverIsOver'
  <2>1. handling # None => handling.op # o
    BY <1>2, Names DEF Queued, OverIsOver, Terminal
  <2>2. handling' # None => row'[handling'.op].status \in Terminal
    BY <1>2, <2>1, Names DEF Queued, OverIsOver, EndsStay, RowTo
  <2>3. ASSUME NEW u \in GeminiThreads, goal'[u].status \in {"blocked", "completed"}
        PROVE  ~Active(goal[u].op)' /\ goal'[u].op = goal[u].op
    <3>1. goal'[u].status = goal[u].status /\ goal'[u].op = goal[u].op
      BY <1>2, <2>3 DEF Queued
    <3>2. goal[u].op # o
      BY <1>2, <2>3, <3>1, Names DEF Queued, TurnsOfThreads
    <3>3. ~Active(goal[u].op)
      BY <2>3, <3>1 DEF OverIsOver
    <3> QED BY <1>2, <3>1, <3>2, <3>3, Names DEF Queued, RowTo, Active
  <2> QED BY <2>2, <2>3 DEF OverIsOver, Active
<1>3. ASSUME RowsStay
      PROVE  /\ \A p \in Turns : row[p].status \in Terminal => row'[p].status \in Terminal
             /\ \A p \in Turns : Active(p)' => Active(p)
  BY <1>3 DEF RowsStay, Active
<1>4. ASSUME NEW o \in Turns, NEW st \in {"delivered"} \cup Terminal, RowTo(o, st),
             row[o].status \in {"queued", "delivered", "cancelled"},
             st = "delivered" => row[o].status = "queued"
      PROVE  /\ \A p \in Turns : row[p].status \in Terminal => row'[p].status \in Terminal
             /\ \A p \in Turns : Active(p)' => Active(p)
  BY <1>4, Names DEF RowTo, Active, Terminal
<1>5. CASE Quiet \/ TornApart
  BY <1>1, <1>3, <1>5 DEF Quiet, TornApart, NamesStay, GoalsStay, EndsStay
<1>6. ASSUME NEW t \in Threads, Deleted(t) PROVE OverIsOver'
  BY <1>1, <1>3, <1>6 DEF Deleted, NamesStay, GoalsStay, EndsStay
<1>7. ASSUME NEW t \in GeminiThreads, Dropped(t) PROVE OverIsOver'
  BY <1>1, <1>3, <1>7 DEF Dropped, NamesStay, GoalTo, EndsStay
<1>8. ASSUME NEW o \in Turns, Claimed(o) PROVE OverIsOver'
  BY <1>1, <1>4, <1>8 DEF Claimed, NamesStay, GoalsStay, EndsStay
<1>9. ASSUME NEW o \in Turns, Over(o) PROVE OverIsOver'
  <2>1. /\ \A p \in Turns : row[p].status \in Terminal => row'[p].status \in Terminal
        /\ \A p \in Turns : Active(p)' => Active(p)
    BY <1>4, <1>9 DEF Over, Terminal
  <2>2. handling'.op = o /\ row'[o].status \in Terminal
    BY <1>9 DEF Over, RowTo
  <2> QED BY <1>1, <1>9, <2>1, <2>2 DEF Over, NamesStay, GoalsStay
<1>10. ASSUME NEW t \in Threads, NEW o \in Turns, Stopping(t, o) PROVE OverIsOver'
  <2>1. /\ \A p \in Turns : row[p].status \in Terminal => row'[p].status \in Terminal
        /\ \A p \in Turns : Active(p)' => Active(p)
    BY <1>3, <1>4, <1>10 DEF Stopping, Terminal
  <2> QED BY <1>1, <1>10, <2>1 DEF Stopping, NamesStay, GoalTo, EndsStay
<1>11. ASSUME NEW t \in Threads, NEW o \in Turns, Released(t, o) PROVE OverIsOver'
  <2>1. row'[o].status = "cancelled" /\ \A p \in Turns : Active(p)' => Active(p)
    BY <1>11 DEF Released, RowTo, Active
  <2>2. \A p \in Turns : row[p].status \in Terminal => row'[p].status \in Terminal
    BY <1>11 DEF Released, RowTo, Terminal
  <2> QED BY <1>1, <1>11, <2>1, <2>2 DEF Released, NamesStay, GoalTo, EndsStay, Active
<1>12. ASSUME NEW t \in Threads, NEW o \in Turns, Begun(t, o) \/ Doubtful(t, o) PROVE OverIsOver'
  BY <1>1, <1>3, <1>12 DEF Begun, Doubtful, NamesStay, GoalsStay, EndsStay
<1>13. ASSUME NEW t \in Threads, NEW o \in Turns, GivenBack(t, o) PROVE OverIsOver'
  BY <1>1, <1>3, <1>13 DEF GivenBack, NamesStay, GoalTo, EndsStay
<1>14. ASSUME NEW t \in Threads, NEW o \in Turns, Recorded(t, o) PROVE OverIsOver'
  <2>1. ~Active(o)'
    BY <1>14 DEF Recorded, RowsStay, OverIsOver, Active, Terminal
  <2> QED BY <1>1, <1>3, <1>14, <2>1 DEF Recorded, NamesStay, GoalTo, GoalsStay
<1> QED BY <1>2, <1>5, <1>6, <1>7, <1>8, <1>9, <1>10, <1>11, <1>12, <1>13, <1>14 DEF Move

\* The turn of a conversation that is shown busy may be over: its end is being
\* recorded, or the recording was torn
Ending(o) == o \in torn \/ (handling # None /\ handling.op = o)

Matches(u) ==
  thread[u].op # None =>
    /\ thread[u].status \in Busy => Active(thread[u].op) \/ Ending(thread[u].op)
    /\ thread[u].status \in {"idle", "failed", "deleted"} => ~Active(thread[u].op)

\* How a move changes what is active and what is ending.
LEMMA EndingStep ==
    ASSUME OwnershipTypeOK
    PROVE  /\ EndsStay => \A o : Ending(o)' <=> Ending(o)
           /\ TornApart => \A o : Ending(o) => Ending(o)'
           /\ \A p \in Turns : Over(p) => (Ending(p)' /\ \A o : Ending(o) => Ending(o)')
           /\ \A t \in Threads, p \in Turns : Recorded(t, p) => \A o : o # p /\ Ending(o) => Ending(o)'
BY DEF Ending, EndsStay, TornApart, Over, Recorded

\* A turn becomes active, or stops being so, with its own row only.
LEMMA ActiveStep ==
    ASSUME OwnershipTypeOK, NEW p \in Turns
    PROVE  /\ RowsStay => (Active(p)' <=> Active(p))
           /\ \A o \in Turns : \A st : RowTo(o, st) =>
                /\ p # o => (Active(p)' <=> Active(p))
                /\ Active(o)' <=> st \in {"queued", "delivered"}
BY Names DEF RowsStay, RowTo, Active

\* A conversation that is shown busy keeps a turn that is not over.
LEMMA StatusStep ==
    ASSUME OwnershipTypeOK, TurnsOfThreads, OverIsOver, StatusMatchesRow, Move
    PROVE  StatusMatchesRow'
<1>1. SUFFICES ASSUME NEW u \in Threads, thread'[u].op # None PROVE Matches(u)'
  BY DEF StatusMatchesRow, Ending, Matches
<1>2. ASSUME NEW p \in Turns, thread[u].op = p
      PROVE  /\ row[p].thread = u
             /\ thread[u].status \in Busy => Active(p) \/ Ending(p)
             /\ thread[u].status \in {"idle", "failed", "deleted"} => ~Active(p)
  BY <1>2, Names DEF StatusMatchesRow, Ending, TurnsOfThreads
\* what is to be shown when the conversation keeps its turn p
<1>3. ASSUME NEW p \in Turns, thread[u].op = p, thread'[u].op = p,
             \/ thread'[u].status = "interrupted"
             \/ /\ thread'[u].status = thread[u].status
                /\ Active(p)' => Active(p)
                /\ Active(p) \/ Ending(p) => Active(p)' \/ Ending(p)'
             \/ thread'[u].status \in Busy /\ (Active(p)' \/ Ending(p)')
             \/ thread'[u].status \notin Busy /\ ~Active(p)' PROVE Matches(u)'
  BY <1>2, <1>3 DEF Matches, Active, Ending, Busy
<1>4. ASSUME NamesStay PROVE thread[u].op \in Turns /\ thread'[u].op = thread[u].op
  BY <1>1, <1>4, Names DEF NamesStay
<1>5. CASE Quiet \/ TornApart
  BY <1>3, <1>4, <1>5, ActiveStep, EndingStep DEF Quiet, TornApart, ThreadsStay
<1>6. ASSUME NEW t \in Threads, Deleted(t) PROVE Matches(u)'
  <2>0. PICK p \in Turns : p = thread[u].op
    BY <1>4, <1>6 DEF Deleted
  <2>1. thread'[u].op = p /\ (Active(p)' <=> Active(p)) /\ (Ending(p)' <=> Ending(p))
    BY <2>0, <1>4, <1>6, ActiveStep, EndingStep DEF Deleted
  <2>2. CASE u = t
    <3>1. thread[u].status \in {"idle", "interrupted", "failed"} /\ ~RecoveryPending(u)
      BY <2>0, <1>6, <2>2, Columns DEF Deleted, AtRest, Busy, OwnershipTypeOK
    <3>2. ~Active(p)
      BY <2>0, <1>2, <2>1, <3>1 DEF RecoveryPending
    <3> QED BY <2>0, <1>3, <1>6, <2>1, <2>2, <3>2 DEF Deleted, ThreadTo, Busy
  <2>3. CASE u # t
    BY <2>0, <1>3, <1>6, <2>1, <2>3 DEF Deleted, ThreadTo
  <2> QED BY <2>2, <2>3
<1>7. ASSUME NEW t \in GeminiThreads, Dropped(t) PROVE Matches(u)'
  BY <1>3, <1>4, <1>7, ActiveStep, EndingStep DEF Dropped, ThreadsStay
<1>8. ASSUME NEW o \in Turns, Claimed(o) \/ Over(o) PROVE Matches(u)'
  <2>0. PICK p \in Turns : p = thread[u].op
    BY <1>4, <1>8 DEF Claimed, Over
  <2>1. thread'[u].op = p /\ thread'[u].status = thread[u].status
    BY <2>0, <1>4, <1>8 DEF Claimed, Over, ThreadsStay
  <2>2. (Active(p)' => Active(p)) /\ (Active(p) \/ Ending(p) => Active(p)' \/ Ending(p)')
    <3>1. CASE Claimed(o)
      BY <2>0, <2>1, <3>1, ActiveStep, EndingStep, Names DEF Claimed, Active
    <3>2. CASE Over(o)
      BY <2>0, <2>1, <3>2, ActiveStep, EndingStep DEF Over, Terminal
    <3> QED BY <2>0, <1>8, <3>1, <3>2
  <2> QED BY <2>0, <1>3, <2>1, <2>2
<1>9. ASSUME NEW t \in Threads, NEW o \in Turns, Queued(t, o) PROVE Matches(u)'
  <2>1. CASE u = t
    BY <1>9, <2>1, Names DEF Matches, Queued, ThreadTo, RowTo, Active, Busy
  <2>2. CASE u # t
    <3>0. PICK p \in Turns : p = thread[u].op
      BY <1>1, <1>9, <2>2, Names DEF Queued
    <3>1. thread'[u].op = p /\ thread'[u].status = thread[u].status
      BY <1>9, <2>2, <3>0 DEF Queued, ThreadTo
    <3>2. p # o
      BY <3>0, <1>2, <1>9, <3>1, Names DEF Queued
    <3>3. (Active(p)' <=> Active(p)) /\ (Ending(p)' <=> Ending(p))
      BY <3>0, <1>9, <3>1, <3>2, ActiveStep, EndingStep DEF Queued
    <3> QED BY <3>0, <1>3, <3>1, <3>3
  <2> QED BY <2>1, <2>2
<1>10. ASSUME NEW t \in Threads, NEW o \in Turns,
              Stopping(t, o) \/ Released(t, o) \/ Begun(t, o) \/ Doubtful(t, o) \/ GivenBack(t, o) PROVE Matches(u)'
  <2>1. thread[t].op = o /\ NamesStay /\ EndsStay
    BY <1>10 DEF Stopping, Interruptible, Released, Begun, Current, Doubtful, GivenBack
  <2>0. PICK p \in Turns : p = thread[u].op
    BY <1>4, <2>1
  <2>2. thread'[u].op = p /\ row[o].thread = t /\ (Ending(p)' <=> Ending(p))
    BY <1>4, <2>0, <2>1, EndingStep, Names DEF TurnsOfThreads
  <2>3. CASE u # t
    <3>1. p # o
      BY <2>0, <1>2, <2>2, <2>3
    <3>2. thread'[u].status = thread[u].status
      BY <2>0, <1>10, <2>3
         DEF Stopping, Released, Begun, Doubtful, GivenBack, ThreadTo, ThreadsStay
    <3>3. Active(p)' <=> Active(p)
      BY <2>0, <1>10, <2>2, <3>1, ActiveStep DEF Stopping, Released, Begun, Doubtful, GivenBack
    <3> QED BY <2>0, <1>3, <2>2, <3>2, <3>3
  <2>4. CASE u = t
    <3>1. p = o
      BY <2>0, <2>1, <2>4
    <3>2. CASE Stopping(t, o)
      BY <2>0, <1>3, <2>2, <2>4, <3>1, <3>2, ActiveStep
         DEF Stopping, Interruptible, ThreadTo, Busy
    <3>3. CASE Released(t, o)
      BY <2>0, <1>3, <2>2, <2>4, <3>1, <3>3 DEF Released, ThreadsStay
    <3>4. CASE Begun(t, o)
      BY <2>0, <1>3, <2>2, <2>4, <3>1, <3>4, ActiveStep DEF Begun, Current, ThreadTo, Busy
    <3>5. CASE Doubtful(t, o)
      BY <2>0, <1>3, <2>2, <2>4, <3>1, <3>5 DEF Doubtful, ThreadTo
    <3>6. CASE GivenBack(t, o)
      BY <2>0, <1>2, <1>3, <2>2, <2>4, <3>1, <3>6, ActiveStep DEF GivenBack, ThreadTo, Busy
    <3> QED BY <2>0, <1>10, <3>2, <3>3, <3>4, <3>5, <3>6
  <2> QED BY <2>3, <2>4
<1>11. ASSUME NEW t \in Threads, NEW o \in Turns, Recorded(t, o) PROVE Matches(u)'
  <2>0. PICK p \in Turns : p = thread[u].op
    BY <1>4, <1>11 DEF Recorded
  <2>1. thread'[u].op = p /\ (Active(p)' <=> Active(p)) /\ row[p].thread = u
    BY <2>0, <1>2, <1>4, <1>11, ActiveStep DEF Recorded
  <2>2. ~Active(o)
    BY <2>0, <1>11 DEF Recorded, OverIsOver, Active, Terminal
  <2>3. CASE p = o
    <3>1. u = t
      BY <2>0, <1>11, <2>1, <2>3 DEF Recorded
    <3>2. thread'[u].status \in {"interrupted", "idle", "failed", "deleted"}
      BY <2>0, <1>11, <2>3, <3>1 DEF Recorded, ThreadTo, ThreadsStay
    <3> QED BY <2>0, <1>3, <2>1, <2>2, <2>3, <3>2 DEF Busy
  <2>4. CASE p # o
    <3>1. Ending(p) => Ending(p)'
      BY <2>0, <1>11, <2>4, EndingStep
    <3>2. thread'[u].status = thread[u].status
      BY <2>0, <1>11, <2>4 DEF Recorded, ThreadTo, ThreadsStay
    <3> QED BY <2>0, <1>3, <2>1, <3>1, <3>2
  <2> QED BY <2>3, <2>4
<1> QED BY <1>5, <1>6, <1>7, <1>8, <1>9, <1>10, <1>11 DEF Move

Follows(u) ==
  /\ (goal[u].status = "active" /\ thread[u].op = goal[u].op) =>
       Active(goal[u].op) \/ Ending(goal[u].op)
  /\ (goal[u].status \in {"paused", "cancelled"} /\ Active(goal[u].op)) =>
       thread[u].op = goal[u].op /\ thread[u].status \in {"interrupting", "interrupted"}

\* A goal is shown active while its turn goes on, and a stopped one while it is stopped.
LEMMA GoalStep ==
    ASSUME OwnershipTypeOK, TurnsOfThreads, OverIsOver, StatusMatchesRow, GoalFollowsTurn, Move
    PROVE  GoalFollowsTurn'
<1>1. SUFFICES ASSUME NEW u \in GeminiThreads, goal'[u].status # "none" PROVE Follows(u)'
  BY DEF GoalFollowsTurn, Follows, Ending
<1>2. ASSUME NEW q \in Turns, goal[u].op = q
      PROVE  /\ row[q].thread = u
             /\ (goal[u].status = "active" /\ thread[u].op = q) => Active(q) \/ Ending(q)
             /\ (goal[u].status \in {"paused", "cancelled"} /\ Active(q)) =>
                  thread[u].op = q /\ thread[u].status \in {"interrupting", "interrupted"}
             /\ goal[u].status \in {"blocked", "completed"} => ~Active(q)
  BY <1>2, Names DEF GoalFollowsTurn, TurnsOfThreads, OverIsOver, Ending
\* what is to be shown when the goal keeps its status and its turn q
<1>3. ASSUME NEW q \in Turns, goal[u].op = q, goal'[u].op = q, thread'[u].op = thread[u].op,
             goal'[u].status = goal[u].status, Active(q)' => Active(q),
             Active(q) \/ Ending(q) => Active(q)' \/ Ending(q)',
             \/ thread'[u].status = thread[u].status
             \/ thread'[u].status \in {"interrupting", "interrupted"}
             \/ ~Active(q)'
      PROVE  Follows(u)'
  BY <1>2, <1>3 DEF Follows, Active, Ending
<1>4. ASSUME NamesStay, goal[u].status # "none"
      PROVE  goal[u].op \in Turns /\ goal'[u].op = goal[u].op /\ thread'[u].op = thread[u].op
  BY <1>1, <1>4, Names DEF NamesStay, TurnsOfThreads
<1>5. ASSUME GoalsStay \/ (\E t, o, from, to : "none" \notin from /\ GoalTo(t, o, from, to))
      PROVE  goal[u].status # "none"
  BY <1>1, <1>5 DEF GoalsStay, GoalTo
<1>6. ASSUME Quiet \/ TornApart \/ (\E o \in Turns : Claimed(o) \/ Over(o)) PROVE Follows(u)'
  <2>1. PICK q \in Turns : q = goal[u].op
    BY <1>4, <1>5, <1>6 DEF Quiet, TornApart, Claimed, Over
  <2>2. /\ goal'[u].op = q /\ thread'[u].op = thread[u].op /\ goal'[u].status = goal[u].status
        /\ thread'[u].status = thread[u].status
    BY <1>6, <2>1, Names DEF Quiet, TornApart, Claimed, Over, NamesStay, GoalsStay, ThreadsStay
  <2>3. (Active(q)' => Active(q)) /\ (Active(q) \/ Ending(q) => Active(q)' \/ Ending(q)')
    <3>1. CASE Quiet \/ TornApart
      BY <3>1, ActiveStep, EndingStep DEF Quiet, TornApart
    <3>2. ASSUME NEW o \in Turns, Claimed(o)
          PROVE  (Active(q)' => Active(q)) /\ (Active(q) \/ Ending(q) => Active(q)' \/ Ending(q)')
      BY <3>2, ActiveStep, EndingStep, Names DEF Claimed, Active
    <3>3. ASSUME NEW o \in Turns, Over(o)
          PROVE  (Active(q)' => Active(q)) /\ (Active(q) \/ Ending(q) => Active(q)' \/ Ending(q)')
      BY <3>3, ActiveStep, EndingStep DEF Over, Terminal
    <3> QED BY <1>6, <3>1, <3>2, <3>3
  <2> QED BY <1>3, <2>1, <2>2, <2>3
<1>7. ASSUME NEW t \in Threads, Deleted(t) PROVE Follows(u)'
  <2>1. PICK q \in Turns : q = goal[u].op
    BY <1>4, <1>5, <1>7 DEF Deleted
  <2>2. /\ goal'[u].op = q /\ thread'[u].op = thread[u].op /\ goal'[u].status = goal[u].status
        /\ (Active(q)' <=> Active(q)) /\ (Ending(q)' <=> Ending(q))
    BY <1>7, <2>1, ActiveStep, EndingStep, Names DEF Deleted, NamesStay, GoalsStay
  <2>3. CASE u # t
    BY <1>3, <1>7, <2>1, <2>2, <2>3, Names DEF Deleted, ThreadTo
  <2>4. CASE u = t
    <3>1. thread[u].status \notin Busy /\ ~RecoveryPending(u)
      BY <1>7, <2>4 DEF Deleted, AtRest
    <3>2. goal[u].status \in {"paused", "cancelled"} => ~Active(q)
      BY <1>2, <2>1, <3>1 DEF RecoveryPending, Busy
    <3> QED BY <1>2, <2>1, <2>2, <3>2 DEF Follows, Active, Ending
  <2> QED BY <2>3, <2>4
<1>8. ASSUME NEW t \in GeminiThreads, Dropped(t) PROVE Follows(u)'
  <2>1. PICK q \in Turns : q = goal[u].op
    BY <1>4, <1>5, <1>8 DEF Dropped
  <2>2. /\ goal'[u].op = q /\ thread'[u].op = thread[u].op /\ thread'[u].status = thread[u].status
        /\ (Active(q)' <=> Active(q)) /\ (Ending(q)' <=> Ending(q))
    BY <1>8, <2>1, ActiveStep, EndingStep, Names DEF Dropped, NamesStay, ThreadsStay
  <2>3. CASE goal'[u].status = goal[u].status
    BY <1>3, <2>1, <2>2, <2>3
  <2>4. CASE goal'[u].status # goal[u].status
    <3>1. goal[u].status \in {"paused", "blocked"} /\ goal'[u].status = "cancelled"
      BY <1>8, <2>4 DEF Dropped, GoalTo
    <3> QED BY <1>2, <2>1, <2>2, <3>1 DEF Follows, Active
  <2> QED BY <2>3, <2>4
<1>9. ASSUME NEW t \in Threads, NEW o \in Turns, Queued(t, o) PROVE Follows(u)'
  <2>1. CASE u = t /\ goal'[u].status = "active" /\ goal'[u].op = o
    BY <1>9, <2>1, Names DEF Follows, Queued, RowTo, Active
  <2>2. CASE goal'[u].status = goal[u].status /\ goal'[u].op = goal[u].op
    <3>1. PICK q \in Turns : q = goal[u].op
      BY <1>1, <2>2, Names DEF TurnsOfThreads
    <3>2. q # o
      BY <1>2, <1>9, <3>1, Names DEF Queued
    <3>3. ~Active(q) /\ ~Active(q)' /\ (Ending(q)' <=> Ending(q))
      BY <1>9, <3>2, ActiveStep, EndingStep DEF Queued, WriteLocked
    <3>4. u = t => thread'[u].op = o
      BY <1>9 DEF Queued
    <3>5. u # t => thread'[u].op = thread[u].op
      BY <1>9, Names DEF Queued
    <3> QED BY <1>2, <2>2, <3>1, <3>2, <3>3, <3>4, <3>5 DEF Follows, Active, Ending
  <2> QED BY <1>9, <2>1, <2>2 DEF Queued
<1>10. ASSUME NEW t \in Threads, NEW o \in Turns,
              Stopping(t, o) \/ Released(t, o) \/ Begun(t, o) \/ Doubtful(t, o) \/ GivenBack(t, o)
       PROVE  Follows(u)'
  <2>1. thread[t].op = o /\ row[o].thread = t /\ NamesStay /\ EndsStay
    BY <1>10, Names DEF Stopping, Interruptible, Released, Begun, Current, Doubtful, GivenBack,
       TurnsOfThreads
  <2>2. PICK q \in Turns : q = goal[u].op
    BY <1>4, <1>5, <1>10 DEF Stopping, Released, Begun, Doubtful, GivenBack
  <2>3. /\ goal'[u].op = q /\ thread'[u].op = thread[u].op /\ row[q].thread = u
        /\ (Ending(q)' <=> Ending(q))
    BY <1>2, <2>1, <2>2, EndingStep, Names DEF NamesStay
  <2>4. CASE q # o
    <3>1. goal'[u].status = goal[u].status /\ (Active(q)' <=> Active(q))
      BY <1>10, <2>2, <2>4, ActiveStep DEF Stopping, Released, Begun, Doubtful, GivenBack, GoalTo,
         GoalsStay
    <3>2. CASE u # t
      <4>1. thread'[u].status = thread[u].status
        BY <1>10, <3>2, Names
           DEF Stopping, Released, Begun, Doubtful, GivenBack, ThreadTo, ThreadsStay
      <4> QED BY <1>3, <2>2, <2>3, <3>1, <4>1
    <3>3. CASE u = t
      BY <1>2, <2>1, <2>2, <2>3, <2>4, <3>1, <3>3 DEF Follows, Active, Ending
    <3> QED BY <3>2, <3>3
  <2>5. CASE q = o
    <3>1. u = t /\ thread[u].op = q
      BY <2>1, <2>3, <2>5
    <3>2. CASE Stopping(t, o)
      <4>1. CASE row[o].status = "queued"
        <5>1. ~Active(q)' /\ goal'[u].status # "active"
          BY <2>2, <2>5, <3>1, <3>2, <4>1, ActiveStep DEF Stopping, GoalTo
        <5> QED BY <2>3, <5>1 DEF Follows, Active
      <4>2. CASE row[o].status # "queued"
        <5>1. thread'[u].status = "interrupting" /\ goal'[u].status # "active"
          BY <2>2, <2>5, <3>1, <3>2, <4>2, Names DEF Stopping, GoalTo, ThreadTo
        <5> QED BY <2>3, <3>1, <5>1 DEF Follows
      <4> QED BY <4>1, <4>2
    <3>3. CASE Released(t, o)
      <4>1. ~Active(q)'
        BY <2>5, <3>3, ActiveStep DEF Released
      <4>2. goal'[u].status # "active"
        BY <2>2, <2>5, <3>1, <3>3 DEF Released, GoalTo
      <4> QED BY <2>3, <4>1, <4>2 DEF Follows, Active
    <3>4. CASE Begun(t, o)
      <4>1. /\ thread[u].status \in {"interrupting", "interrupted"} => thread'[u].status = thread[u].status
            /\ goal'[u].status = goal[u].status /\ (Active(q)' <=> Active(q))
        BY <3>1, <3>4, ActiveStep, Names DEF Begun, GoalsStay, ThreadTo
      <4> QED BY <1>2, <2>2, <2>3, <4>1 DEF Follows, Active, Ending
    <3>5. CASE Doubtful(t, o)
      <4>1. /\ thread'[u].status = "interrupted"
            /\ goal'[u].status = goal[u].status /\ (Active(q)' <=> Active(q))
        BY <3>1, <3>5, ActiveStep, Names DEF Doubtful, GoalsStay, ThreadTo
      <4> QED BY <1>3, <2>2, <2>3, <4>1
    <3>6. CASE GivenBack(t, o)
      <4>1. goal'[u].status \notin {"paused", "cancelled"} /\ (Active(q)' <=> Active(q))
        BY <2>2, <2>5, <3>1, <3>6, ActiveStep DEF GivenBack, GoalTo
      <4>2. Active(q) \/ Ending(q)
        BY <2>5, <3>1, <3>6, Names DEF GivenBack, StatusMatchesRow, Busy, Ending
      <4> QED BY <2>3, <4>1, <4>2 DEF Follows, Active, Ending
    <3> QED BY <1>10, <3>2, <3>3, <3>4, <3>5, <3>6
  <2> QED BY <2>4, <2>5
<1>11. ASSUME NEW t \in Threads, NEW o \in Turns, Recorded(t, o) PROVE Follows(u)'
  <2>1. PICK q \in Turns : q = goal[u].op
    BY <1>4, <1>5, <1>11 DEF Recorded
  <2>2. /\ goal'[u].op = q /\ thread'[u].op = thread[u].op /\ row[q].thread = u
        /\ (Active(q)' <=> Active(q)) /\ ~Active(o)
    BY <1>2, <1>11, <2>1, ActiveStep, Names DEF Recorded, NamesStay, OverIsOver, Active, Terminal
  <2>3. CASE q = o
    <3>1. u = t
      BY <1>11, <2>2, <2>3 DEF Recorded
    <3>2. thread[u].op = q => goal'[u].status # "active"
      BY <1>11, <2>1, <2>3, <3>1 DEF Recorded, GoalTo
    <3> QED BY <2>2, <2>3, <3>2 DEF Follows, Active
  <2>4. CASE q # o
    <3>1. Ending(q) => Ending(q)'
      BY <1>11, <2>4, EndingStep
    <3>2. goal'[u].status = goal[u].status
      BY <1>11, <2>1, <2>4 DEF Recorded, GoalTo, GoalsStay
    <3>3. u = t /\ thread[u].op # o => thread'[u].status = thread[u].status
      BY <1>11, Names DEF Recorded, ThreadsStay
    <3>4. u # t => thread'[u].status = thread[u].status
      BY <1>11, Names DEF Recorded, ThreadsStay, ThreadTo
    <3>5. CASE u = t /\ thread[u].op = o
      BY <1>2, <2>1, <2>2, <2>4, <3>2, <3>5 DEF Follows, Active
    <3>6. CASE u # t \/ thread[u].op # o
      BY <1>3, <2>1, <2>2, <3>1, <3>2, <3>3, <3>4, <3>6
    <3> QED BY <3>5, <3>6
  <2> QED BY <2>3, <2>4
<1> QED BY <1>6, <1>7, <1>8, <1>9, <1>10, <1>11 DEF Move

-----------------------------------------------------------------------------
(* What is under way goes on being one life after the other *)

StopMoves(s) ==
  \/ stop'[s].status = stop[s].status /\ stop'[s].op = stop[s].op
  \/ stop[s].status # "none" /\ stop'[s].status # "none" /\ stop'[s].op = stop[s].op
  \/ /\ stop[s].status = "none" /\ stop'[s].status # "none" /\ stop'[s].op \in Turns
     /\ asked'[s] = None

\* A stop names its turn for good when it is queued.
LEMMA StopStep ==
    ASSUME OwnershipTypeOK, StopsNameTurns, [Next]_vars PROVE \A s \in Stops : StopMoves(s)
<1>1. ASSUME stop' = stop PROVE \A s \in Stops : StopMoves(s)
  BY <1>1 DEF StopMoves
<1>2. ASSUME NEW s \in Stops, NEW st \in {"delivered", "succeeded", "failed"},
             stop[s].status # "none", stop' = [stop EXCEPT ![s].status = st]
      PROVE  \A q \in Stops : StopMoves(q)
  <2>1. ASSUME NEW r \in StopRows
        PROVE  [r EXCEPT !.status = st].status = st /\ [r EXCEPT !.status = st].op = r.op
    BY DEF StopRows
  <2> QED BY <1>2, <2>1 DEF StopMoves, OwnershipTypeOK
<1>3. ASSUME NEW s \in Stops, NEW o \in Turns, NEW b, stop[s].status = "none", asked'[s] = None,
             stop' = [stop EXCEPT ![s] = [status |-> "queued", op |-> o, recovery |-> b]]
      PROVE  \A q \in Stops : StopMoves(q)
  BY <1>3 DEF StopMoves, OwnershipTypeOK
<1>4. ASSUME NEW t \in GeminiThreads, NEW o \in Turns, NEW e \in Turns \cup {None},
             NEW g \in {"plain", "goal"}, startGeminiTurn(t, o, e, g)
      PROVE  \A q \in Stops : StopMoves(q)
  BY <1>1, <1>4 DEF startGeminiTurn, queueGeminiTurn, claimGeminiGoal, AtRest, agent
<1>5. ASSUME NEW t \in ClaudeThreads, NEW o \in Turns, NEW e \in Turns \cup {None},
             startClaudeTurn(t, o, e)
      PROVE  \A q \in Stops : StopMoves(q)
  BY <1>1, <1>5 DEF startClaudeTurn, queueClaudeInput, AtRest, agent
<1>6. ASSUME NEW s \in Stops, NEW t \in GeminiThreads, interruptGeminiTurn(s, t)
      PROVE  \A q \in Stops : StopMoves(q)
  <2>1. thread[t].op \in Turns
    BY <1>6, Columns
       DEF interruptGeminiTurn, InterruptGeminiTurn, Interrupt, Interruptible, Active,
       OwnershipTypeOK, Threads
  <2> QED BY <1>1, <1>3, <2>1, <1>6 DEF interruptGeminiTurn, InterruptGeminiTurn, Interrupt
<1>7. ASSUME NEW s \in Stops, NEW t \in ClaudeThreads, interruptClaudeTurn(s, t)
      PROVE  \A q \in Stops : StopMoves(q)
  BY <1>1, <1>7 DEF interruptClaudeTurn, Interruptible, RecoveryPending, db, agent
<1>8. ASSUME NEW s \in Stops, NEW t \in GeminiThreads,
             NEW a \in {"paused", "cancelled"}, controlGeminiGoal(s, t, a)
      PROVE  \A q \in Stops : StopMoves(q)
  <2>1. thread[t].op \in Turns
    BY <1>8, Columns
       DEF controlGeminiGoal, InterruptGeminiTurn, Interrupt, Interruptible, Active,
       OwnershipTypeOK, Threads
  <2> QED BY <1>1, <1>3, <2>1, <1>8 DEF controlGeminiGoal, InterruptGeminiTurn, Interrupt
<1>9. ASSUME NEW t \in GeminiThreads, NEW o \in Turns, resumeGeminiGoal(t, o)
      PROVE  \A q \in Stops : StopMoves(q)
  BY <1>1, <1>9 DEF resumeGeminiGoal, queueGeminiTurn, claimGeminiGoal, AtRest, agent
<1>10. ASSUME NEW t \in GeminiThreads, CancelInactiveGeminiGoal(t)
      PROVE  \A q \in Stops : StopMoves(q)
  BY <1>1, <1>10 DEF CancelInactiveGeminiGoal, agent
<1>11. ASSUME NEW t \in GeminiThreads, NEW o \in Turns, confirmGeminiStopped(t, o)
      PROVE  \A q \in Stops : StopMoves(q)
  BY <1>1, <1>11
     DEF confirmGeminiStopped, ConfirmGeminiStopped, ReleaseTurn, SetGoal, GoalOf, agent
<1>12. ASSUME NEW t \in ClaudeThreads, NEW o \in Turns, confirmClaudeStopped(t, o)
      PROVE  \A q \in Stops : StopMoves(q)
  BY <1>1, <1>12 DEF confirmClaudeStopped, ConfirmClaudeStopped, ReleaseTurn, agent
<1>13. ASSUME NEW t \in GeminiThreads, DeleteGeminiThread(t)
      PROVE  \A q \in Stops : StopMoves(q)
  BY <1>1, <1>13 DEF DeleteGeminiThread, AtRest, agent
<1>14. ASSUME NEW t \in ClaudeThreads, DeleteClaudeThread(t)
      PROVE  \A q \in Stops : StopMoves(q)
  BY <1>1, <1>14 DEF DeleteClaudeThread, AtRest, agent
<1>15. ASSUME NEW s \in Stops, InterruptClaudeTurn(s)
      PROVE  \A q \in Stops : StopMoves(q)
  <2>1. asked[s].op \in Turns /\ asked'[s] = None /\ stop[s].status = "none"
    BY <1>15, Columns DEF InterruptClaudeTurn, OwnershipTypeOK, StopsNameTurns
  <2> QED BY <1>1, <1>3, <2>1, <1>15 DEF InterruptClaudeTurn, Interrupt
<1>16. ASSUME NEW o \in Turns, ClaimGeminiDelivery(o)
      PROVE  \A q \in Stops : StopMoves(q)
  BY <1>1, <1>16 DEF ClaimGeminiDelivery, agent
<1>17. ASSUME NEW o \in Turns, Probing(o)
      PROVE  \A q \in Stops : StopMoves(q)
  BY <1>1, <1>17 DEF Probing, reconcileGeminiOperations, reconcileClaudeOperations, Probe,
     Unfinished, Answer, Send, Message, db, agent
<1>18. ASSUME NEW o \in Turns, handleTurnCommand(o)
      PROVE  \A q \in Stops : StopMoves(q)
  BY <1>1, <1>18 DEF handleTurnCommand, db
<1>19. ASSUME NEW o \in Turns, startProcess(o)
      PROVE  \A q \in Stops : StopMoves(q)
  BY <1>1, <1>19 DEF startProcess, Send, Message, db
<1>20. ASSUME NEW o \in Turns, finish(o)
      PROVE  \A q \in Stops : StopMoves(q)
  BY <1>1, <1>20 DEF finish, Send, Message, db
<1>21. ASSUME NEW o \in Turns, orphanExits(o)
      PROVE  \A q \in Stops : StopMoves(q)
  BY <1>1, <1>21 DEF orphanExits, db
<1>22. ASSUME NEW s \in Stops, SendStop(s)
      PROVE  \A q \in Stops : StopMoves(q)
  BY <1>2, <1>22 DEF SendStop
<1>23. ASSUME NEW s \in Stops, stopStarts(s)
      PROVE  \A q \in Stops : StopMoves(q)
  BY <1>1, <1>23 DEF stopStarts, db
<1>24. ASSUME NEW s \in Stops, stopFindsNothing(s)
      PROVE  \A q \in Stops : StopMoves(q)
  BY <1>1, <1>24 DEF stopFindsNothing, Send, Message, db
<1>25. ASSUME NEW s \in Stops, interruptAndWait(s)
      PROVE  \A q \in Stops : StopMoves(q)
  BY <1>1, <1>25 DEF interruptAndWait, Send, Message, db
<1>26. ASSUME NEW s \in Stops, replayStop(s)
      PROVE  \A q \in Stops : StopMoves(q)
  BY <1>1, <1>26 DEF replayStop, Send, Message, db, agent
<1>27. CASE handleGeminiInit
  BY <1>1, <1>27 DEF handleGeminiInit, Receive, Current, Initialised, CommitGeminiRewrite, agent
<1>28. CASE handleClaudeInit
  BY <1>1, <1>28 DEF handleClaudeInit, Receive, Current, Initialised, CommitClaudeRewrite, agent
<1>29. CASE updateGeminiOwnership
  BY <1>1, <1>29 DEF updateGeminiOwnership, Receive, Lost, SetGoal, GoalOf, agent
<1>30. CASE updateClaudeOwnership
  BY <1>1, <1>30 DEF updateClaudeOwnership, Receive, Lost, agent
<1>31. CASE HandleResult
  BY <1>1, <1>31 DEF HandleResult, Receive, agent
<1>32. CASE completeGeminiInterrupt
  <2>1. Head(up).id \in Stops
    BY <1>32, Received DEF completeGeminiInterrupt
  <2>2. \/ stop' = stop
        \/ /\ stop[Head(up).id].status # "none"
           /\ \E st \in {"succeeded", "failed"} : stop' = [stop EXCEPT ![Head(up).id].status = st]
    BY <1>32 DEF completeGeminiInterrupt, StopAnswered
  <2> QED BY <1>1, <1>2, <2>1, <2>2
<1>33. CASE completeClaudeInterrupt
  <2>1. Head(up).id \in Stops
    BY <1>33, Received DEF completeClaudeInterrupt
  <2>2. \/ stop' = stop
        \/ /\ stop[Head(up).id].status # "none"
           /\ \E st \in {"succeeded", "failed"} : stop' = [stop EXCEPT ![Head(up).id].status = st]
    BY <1>33 DEF completeClaudeInterrupt, StopAnswered
  <2> QED BY <1>1, <1>2, <2>1, <2>2
<1>34. CASE CompleteGeminiTurn
  BY <1>1, <1>34 DEF CompleteGeminiTurn, CompleteTurn, Ended, SetGoal, GoalOf, agent
<1>35. CASE completeClaudeOperation
  BY <1>1, <1>35 DEF completeClaudeOperation, CompleteTurn, Ended, agent
<1>36. CASE Disconnect
  BY <1>1, <1>36 DEF Disconnect, Fault, db, agent
<1>37. CASE Crash
  BY <1>1, <1>37 DEF Crash, Fault, db
<1>38. CASE UNCHANGED vars
  BY <1>1, <1>38 DEF vars, db, agent
<1> QED BY <1>4, <1>5, <1>6, <1>7, <1>8, <1>9, <1>10, <1>11, <1>12, <1>13, <1>14, <1>15,
           <1>16, <1>17, <1>18, <1>19, <1>20, <1>21, <1>22, <1>23, <1>24, <1>25, <1>26, <1>27,
           <1>28, <1>29, <1>30, <1>31, <1>32, <1>33, <1>34, <1>35, <1>36, <1>37, <1>38
        DEF Next, User, Gateway, Execution, StopExecution

\* A stop that was asked for is not sent yet, and one that is sent names a turn.
LEMMA StopsStep ==
    ASSUME OwnershipTypeOK, StopsNameTurns, [Next]_vars PROVE StopsNameTurns'
<1>1. \A s \in Stops : StopMoves(s)
  BY StopStep
<1>2. ASSUME down' = down, waiter' = waiter, asked' = asked PROVE StopsNameTurns'
  BY <1>1, <1>2 DEF StopMoves, StopsNameTurns
<1>3. ASSUME NEW t \in GeminiThreads, NEW o \in Turns, NEW e \in Turns \cup {None},
             NEW g \in {"plain", "goal"}, startGeminiTurn(t, o, e, g)
      PROVE  StopsNameTurns'
  BY <1>1, <1>2, <1>3 DEF startGeminiTurn, queueGeminiTurn, claimGeminiGoal, AtRest, agent
<1>4. ASSUME NEW t \in ClaudeThreads, NEW o \in Turns, NEW e \in Turns \cup {None},
             startClaudeTurn(t, o, e)
      PROVE  StopsNameTurns'
  BY <1>1, <1>2, <1>4 DEF startClaudeTurn, queueClaudeInput, AtRest, agent
<1>5. ASSUME NEW s \in Stops, NEW t \in GeminiThreads, interruptGeminiTurn(s, t)
      PROVE  StopsNameTurns'
  BY <1>1, <1>2, <1>5
     DEF interruptGeminiTurn, InterruptGeminiTurn, Interruptible, Interrupt, SetGoal, GoalOf,
     agent
<1>6. ASSUME NEW s \in Stops, NEW t \in ClaudeThreads, interruptClaudeTurn(s, t)
      PROVE  StopsNameTurns'
  <2>1. \A q \in Stops : asked'[q] = asked[q] \/ stop[q].status = "none"
    BY <1>6 DEF interruptClaudeTurn, OwnershipTypeOK
  <2>2. stop' = stop /\ down' = down /\ waiter' = waiter
    BY <1>6 DEF interruptClaudeTurn, db, agent
  <2> QED BY <2>1, <2>2 DEF StopsNameTurns
<1>7. ASSUME NEW s \in Stops, NEW t \in GeminiThreads,
             NEW a \in {"paused", "cancelled"}, controlGeminiGoal(s, t, a)
      PROVE  StopsNameTurns'
  BY <1>1, <1>2, <1>7
     DEF controlGeminiGoal, InterruptGeminiTurn, Interruptible, Interrupt, SetGoal, GoalOf, agent
<1>8. ASSUME NEW t \in GeminiThreads, NEW o \in Turns, resumeGeminiGoal(t, o)
      PROVE  StopsNameTurns'
  BY <1>1, <1>2, <1>8 DEF resumeGeminiGoal, queueGeminiTurn, claimGeminiGoal, AtRest, agent
<1>9. ASSUME NEW t \in GeminiThreads, CancelInactiveGeminiGoal(t)
      PROVE  StopsNameTurns'
  BY <1>1, <1>2, <1>9 DEF CancelInactiveGeminiGoal, agent
<1>10. ASSUME NEW t \in GeminiThreads, NEW o \in Turns, confirmGeminiStopped(t, o)
      PROVE  StopsNameTurns'
  BY <1>1, <1>2, <1>10
     DEF confirmGeminiStopped, ConfirmGeminiStopped, ReleaseTurn, SetGoal, GoalOf, agent
<1>11. ASSUME NEW t \in ClaudeThreads, NEW o \in Turns, confirmClaudeStopped(t, o)
      PROVE  StopsNameTurns'
  BY <1>1, <1>2, <1>11 DEF confirmClaudeStopped, ConfirmClaudeStopped, ReleaseTurn, agent
<1>12. ASSUME NEW t \in GeminiThreads, DeleteGeminiThread(t)
      PROVE  StopsNameTurns'
  BY <1>1, <1>2, <1>12 DEF DeleteGeminiThread, AtRest, agent
<1>13. ASSUME NEW t \in ClaudeThreads, DeleteClaudeThread(t)
      PROVE  StopsNameTurns'
  BY <1>1, <1>2, <1>13 DEF DeleteClaudeThread, AtRest, agent
<1>14. ASSUME NEW s \in Stops, InterruptClaudeTurn(s)
      PROVE  StopsNameTurns'
  <2>1. /\ \A q \in Stops : asked'[q] = asked[q] \/ asked'[q] = None
        /\ down' = down /\ waiter' = waiter
    BY <1>14 DEF InterruptClaudeTurn, OwnershipTypeOK, agent
  <2> QED BY <1>1, <2>1 DEF StopMoves, StopsNameTurns
<1>15. ASSUME NEW o \in Turns, ClaimGeminiDelivery(o)
      PROVE  StopsNameTurns'
  <2>1. \A q \in Stops : q \in down' => q \in down
    BY <1>15, OwnershipAssumption DEF ClaimGeminiDelivery
  <2>2. stop' = stop /\ asked' = asked /\ waiter' = waiter
    BY <1>15 DEF ClaimGeminiDelivery, db, agent
  <2> QED BY <2>1, <2>2 DEF StopsNameTurns
<1>16. ASSUME NEW o \in Turns, Probing(o)
      PROVE  StopsNameTurns'
  BY <1>1, <1>2, <1>16 DEF Probing, reconcileGeminiOperations, reconcileClaudeOperations, Probe,
     Unfinished, Answer, Send, Message, db, agent
<1>17. ASSUME NEW o \in Turns, handleTurnCommand(o)
      PROVE  StopsNameTurns'
  <2>1. \A q \in Stops : q \in down' => q \in down
    BY <1>17, OwnershipAssumption DEF handleTurnCommand
  <2>2. stop' = stop /\ asked' = asked /\ waiter' = waiter
    BY <1>17 DEF handleTurnCommand, db, agent
  <2> QED BY <2>1, <2>2 DEF StopsNameTurns
<1>18. ASSUME NEW o \in Turns, startProcess(o)
      PROVE  StopsNameTurns'
  BY <1>1, <1>2, <1>18 DEF startProcess, Send, Message, db
<1>19. ASSUME NEW o \in Turns, finish(o)
      PROVE  StopsNameTurns'
  BY <1>1, <1>2, <1>19 DEF finish, Send, Message, db
<1>20. ASSUME NEW o \in Turns, orphanExits(o)
      PROVE  StopsNameTurns'
  BY <1>1, <1>2, <1>20 DEF orphanExits, db
<1>21. ASSUME NEW s \in Stops, SendStop(s)
      PROVE  StopsNameTurns'
  <2>1. /\ stop[s].status # "none" /\ down' = down \cup {s}
        /\ asked' = asked /\ waiter' = waiter
    BY <1>21 DEF SendStop, agent
  <2> QED BY <1>1, <2>1 DEF StopMoves, StopsNameTurns
<1>22. ASSUME NEW s \in Stops, stopStarts(s)
      PROVE  StopsNameTurns'
  <2>1. /\ down' \subseteq down /\ stop' = stop /\ asked' = asked
        /\ \A q \in Stops : waiter'[q] # "absent" => waiter[q] # "absent" \/ q \in down
    BY <1>22 DEF stopStarts, db, OwnershipTypeOK
  <2> QED BY <2>1 DEF StopsNameTurns
<1>23. ASSUME NEW s \in Stops, stopFindsNothing(s)
      PROVE  StopsNameTurns'
  <2>1. /\ down' \subseteq down /\ stop' = stop /\ asked' = asked
        /\ \A q \in Stops : waiter'[q] # "absent" => waiter[q] # "absent" \/ q \in down
    BY <1>23 DEF stopFindsNothing, Send, Message, db, OwnershipTypeOK
  <2> QED BY <2>1 DEF StopsNameTurns
<1>24. ASSUME NEW s \in Stops, interruptAndWait(s)
      PROVE  StopsNameTurns'
  <2>1. /\ down' \subseteq down /\ stop' = stop /\ asked' = asked
        /\ \A q \in Stops : waiter'[q] # "absent" => waiter[q] # "absent" \/ q \in down
    BY <1>24 DEF interruptAndWait, Send, Message, db, OwnershipTypeOK
  <2> QED BY <2>1 DEF StopsNameTurns
<1>25. ASSUME NEW s \in Stops, replayStop(s)
      PROVE  StopsNameTurns'
  <2>1. /\ down' \subseteq down /\ stop' = stop /\ asked' = asked
        /\ \A q \in Stops : waiter'[q] # "absent" => waiter[q] # "absent" \/ q \in down
    BY <1>25 DEF replayStop, Send, Message, db, agent, OwnershipTypeOK
  <2> QED BY <2>1 DEF StopsNameTurns
<1>26. CASE handleGeminiInit
  BY <1>1, <1>2, <1>26
     DEF handleGeminiInit, Receive, Current, Initialised, CommitGeminiRewrite, agent
<1>27. CASE handleClaudeInit
  BY <1>1, <1>2, <1>27
     DEF handleClaudeInit, Receive, Current, Initialised, CommitClaudeRewrite, agent
<1>28. CASE updateGeminiOwnership
  BY <1>1, <1>2, <1>28 DEF updateGeminiOwnership, Receive, Lost, SetGoal, GoalOf, agent
<1>29. CASE updateClaudeOwnership
  BY <1>1, <1>2, <1>29 DEF updateClaudeOwnership, Receive, Lost, agent
<1>30. CASE HandleResult
  BY <1>1, <1>2, <1>30 DEF HandleResult, Receive, agent
<1>31. CASE completeGeminiInterrupt
  BY <1>1, <1>2, <1>31
     DEF completeGeminiInterrupt, Receive, StopAnswered, InterruptFailed, Lost, SetGoal, GoalOf,
     agent
<1>32. CASE completeClaudeInterrupt
  BY <1>1, <1>2, <1>32
     DEF completeClaudeInterrupt, Receive, StopAnswered, InterruptFailed, Lost, SetGoal, GoalOf,
     agent
<1>33. CASE CompleteGeminiTurn
  BY <1>1, <1>2, <1>33 DEF CompleteGeminiTurn, CompleteTurn, Ended, SetGoal, GoalOf, agent
<1>34. CASE completeClaudeOperation
  BY <1>1, <1>2, <1>34 DEF completeClaudeOperation, CompleteTurn, Ended, agent
<1>35. CASE Disconnect
  <2>1. /\ down' = {} /\ stop' = stop /\ asked' = asked
        /\ \A q \in Stops : waiter[q] = "absent" => waiter'[q] = "absent"
    BY <1>35 DEF Disconnect, Fault, db, agent, OwnershipTypeOK
  <2> QED BY <2>1 DEF StopsNameTurns
<1>36. CASE Crash
  <2>1. /\ down' = {} /\ stop' = stop /\ asked' = asked
        /\ \A q \in Stops : waiter[q] = "absent" => waiter'[q] = "absent"
    BY <1>36 DEF Crash, Fault, db, OwnershipTypeOK
  <2> QED BY <2>1 DEF StopsNameTurns
<1>37. CASE UNCHANGED vars
  BY <1>1, <1>2, <1>37 DEF vars, db, agent
<1> QED BY <1>3, <1>4, <1>5, <1>6, <1>7, <1>8, <1>9, <1>10, <1>11, <1>12, <1>13, <1>14,
           <1>15, <1>16, <1>17, <1>18, <1>19, <1>20, <1>21, <1>22, <1>23, <1>24, <1>25, <1>26,
           <1>27, <1>28, <1>29, <1>30, <1>31, <1>32, <1>33, <1>34, <1>35, <1>36, <1>37
        DEF Next, User, Gateway, Execution, StopExecution

\* A turn that was sent is called over only with its receipt, or by a user.
RowEnds(p) ==
  /\ p \in confirmed => p \in confirmed'
  /\ row'[p].status \in Terminal =>
       row[p].status \in {"queued"} \cup Terminal \/ receipt[p] # "none" \/ p \in confirmed'

\* No step ends a row in another way.
LEMMA EndsStep ==
    ASSUME OwnershipTypeOK, StopsNameTurns, EndsHaveReceipts, [Next]_vars
    PROVE  \A p \in Turns : RowEnds(p)
<1>1. ASSUME row' = row, confirmed' = confirmed PROVE \A p \in Turns : RowEnds(p)
  BY <1>1 DEF RowEnds
<1>2. ASSUME NEW o \in Turns, row[o].status = "queued", row' = [row EXCEPT ![o].status = "cancelled"],
             confirmed' = confirmed
      PROVE  \A p \in Turns : RowEnds(p)
  BY <1>2, SetColumn DEF RowEnds, RowTo
<1>3. ASSUME NEW t \in GeminiThreads, NEW o \in Turns, NEW e \in Turns \cup {None},
             NEW g \in {"plain", "goal"}, startGeminiTurn(t, o, e, g)
      PROVE  \A p \in Turns : RowEnds(p)
  <2>1. /\ row'[o].status = "queued" /\ confirmed' = confirmed
        /\ \A p \in Turns : p # o => row'[p].status = row[p].status
    BY <1>3 DEF startGeminiTurn, queueGeminiTurn, claimGeminiGoal, AtRest, agent,
       queueClaudeInput, OwnershipTypeOK
  <2> QED BY <2>1 DEF RowEnds, Terminal
<1>4. ASSUME NEW t \in ClaudeThreads, NEW o \in Turns, NEW e \in Turns \cup {None},
             startClaudeTurn(t, o, e)
      PROVE  \A p \in Turns : RowEnds(p)
  <2>1. /\ row'[o].status = "queued" /\ confirmed' = confirmed
        /\ \A p \in Turns : p # o => row'[p].status = row[p].status
    BY <1>4 DEF startClaudeTurn, queueClaudeInput, AtRest, agent, queueClaudeInput,
       OwnershipTypeOK
  <2> QED BY <2>1 DEF RowEnds, Terminal
<1>5. ASSUME NEW s \in Stops, NEW t \in GeminiThreads, interruptGeminiTurn(s, t)
      PROVE  \A p \in Turns : RowEnds(p)
  <2>1. thread[t].op \in Turns
    BY <1>5, Columns
       DEF interruptGeminiTurn, InterruptGeminiTurn, Interrupt, Interruptible, Active,
       OwnershipTypeOK, Threads
  <2> QED BY <1>1, <1>2, <2>1, <1>5
             DEF RowEnds, interruptGeminiTurn, InterruptGeminiTurn, Interrupt
<1>6. ASSUME NEW s \in Stops, NEW t \in ClaudeThreads, interruptClaudeTurn(s, t)
      PROVE  \A p \in Turns : RowEnds(p)
  BY <1>1, <1>6 DEF RowEnds, interruptClaudeTurn, Interruptible, RecoveryPending, db, agent
<1>7. ASSUME NEW s \in Stops, NEW t \in GeminiThreads,
             NEW a \in {"paused", "cancelled"}, controlGeminiGoal(s, t, a)
      PROVE  \A p \in Turns : RowEnds(p)
  <2>1. thread[t].op \in Turns
    BY <1>7, Columns
       DEF controlGeminiGoal, InterruptGeminiTurn, Interrupt, Interruptible, Active,
       OwnershipTypeOK, Threads
  <2> QED BY <1>1, <1>2, <2>1, <1>7 DEF RowEnds, controlGeminiGoal, InterruptGeminiTurn, Interrupt
<1>8. ASSUME NEW t \in GeminiThreads, NEW o \in Turns, resumeGeminiGoal(t, o)
      PROVE  \A p \in Turns : RowEnds(p)
  <2>1. /\ row'[o].status = "queued" /\ confirmed' = confirmed
        /\ \A p \in Turns : p # o => row'[p].status = row[p].status
    BY <1>8 DEF resumeGeminiGoal, queueGeminiTurn, claimGeminiGoal, AtRest, agent,
       queueClaudeInput, OwnershipTypeOK
  <2> QED BY <2>1 DEF RowEnds, Terminal
<1>9. ASSUME NEW t \in GeminiThreads, CancelInactiveGeminiGoal(t)
      PROVE  \A p \in Turns : RowEnds(p)
  BY <1>1, <1>9 DEF RowEnds, CancelInactiveGeminiGoal, agent
<1>10. ASSUME NEW t \in GeminiThreads, NEW o \in Turns, confirmGeminiStopped(t, o)
      PROVE  \A p \in Turns : RowEnds(p)
  <2>1. row' = [row EXCEPT ![o].status = "cancelled"] /\ confirmed' = confirmed \cup {o}
    BY <1>10 DEF confirmGeminiStopped, ConfirmGeminiStopped, ReleaseTurn, SetGoal, GoalOf, agent
  <2> QED BY <2>1, SetColumn DEF RowEnds, RowTo
<1>11. ASSUME NEW t \in ClaudeThreads, NEW o \in Turns, confirmClaudeStopped(t, o)
      PROVE  \A p \in Turns : RowEnds(p)
  <2>1. row' = [row EXCEPT ![o].status = "cancelled"] /\ confirmed' = confirmed \cup {o}
    BY <1>11 DEF confirmClaudeStopped, ConfirmClaudeStopped, ReleaseTurn, agent
  <2> QED BY <2>1, SetColumn DEF RowEnds, RowTo
<1>12. ASSUME NEW t \in GeminiThreads, DeleteGeminiThread(t)
      PROVE  \A p \in Turns : RowEnds(p)
  BY <1>1, <1>12 DEF RowEnds, DeleteGeminiThread, AtRest, agent
<1>13. ASSUME NEW t \in ClaudeThreads, DeleteClaudeThread(t)
      PROVE  \A p \in Turns : RowEnds(p)
  BY <1>1, <1>13 DEF RowEnds, DeleteClaudeThread, AtRest, agent
<1>14. ASSUME NEW s \in Stops, InterruptClaudeTurn(s)
      PROVE  \A p \in Turns : RowEnds(p)
  <2>1. asked[s].op \in Turns
    BY <1>14, Columns DEF InterruptClaudeTurn, OwnershipTypeOK
  <2> QED BY <1>1, <1>2, <2>1, <1>14 DEF RowEnds, InterruptClaudeTurn, Interrupt
<1>15. ASSUME NEW o \in Turns, ClaimGeminiDelivery(o)
      PROVE  \A p \in Turns : RowEnds(p)
  <2>1. row' = [row EXCEPT ![o].status = "delivered"] /\ confirmed' = confirmed
    BY <1>15 DEF ClaimGeminiDelivery
  <2> QED BY <2>1, SetColumn DEF RowEnds, RowTo, Terminal
<1>16. ASSUME NEW o \in Turns, Probing(o)
      PROVE  \A p \in Turns : RowEnds(p)
  BY <1>1, <1>16 DEF RowEnds, Probing, reconcileGeminiOperations, reconcileClaudeOperations,
     Probe, Unfinished, Answer, Send, Message, db, agent
<1>17. ASSUME NEW o \in Turns, handleTurnCommand(o)
      PROVE  \A p \in Turns : RowEnds(p)
  BY <1>1, <1>17 DEF RowEnds, handleTurnCommand, db
<1>18. ASSUME NEW o \in Turns, startProcess(o)
      PROVE  \A p \in Turns : RowEnds(p)
  BY <1>1, <1>18 DEF RowEnds, startProcess, Send, Message, db
<1>19. ASSUME NEW o \in Turns, finish(o)
      PROVE  \A p \in Turns : RowEnds(p)
  BY <1>1, <1>19 DEF RowEnds, finish, Send, Message, db
<1>20. ASSUME NEW o \in Turns, orphanExits(o)
      PROVE  \A p \in Turns : RowEnds(p)
  BY <1>1, <1>20 DEF RowEnds, orphanExits, db
<1>21. ASSUME NEW s \in Stops, SendStop(s)
      PROVE  \A p \in Turns : RowEnds(p)
  BY <1>1, <1>21 DEF RowEnds, SendStop, agent
<1>22. ASSUME NEW s \in Stops, stopStarts(s)
      PROVE  \A p \in Turns : RowEnds(p)
  BY <1>1, <1>22 DEF RowEnds, stopStarts, db
<1>23. ASSUME NEW s \in Stops, stopFindsNothing(s)
      PROVE  \A p \in Turns : RowEnds(p)
  BY <1>1, <1>23 DEF RowEnds, stopFindsNothing, Send, Message, db
<1>24. ASSUME NEW s \in Stops, interruptAndWait(s)
      PROVE  \A p \in Turns : RowEnds(p)
  BY <1>1, <1>24 DEF RowEnds, interruptAndWait, Send, Message, db
<1>25. ASSUME NEW s \in Stops, replayStop(s)
      PROVE  \A p \in Turns : RowEnds(p)
  BY <1>1, <1>25 DEF RowEnds, replayStop, Send, Message, db, agent
<1>26. CASE handleGeminiInit
  <2>1. Head(up).id \in Turns /\ confirmed' = confirmed
    BY <1>26, Received DEF handleGeminiInit
  <2>2. ASSUME NEW r \in TurnRows PROVE [r EXCEPT !.init = TRUE].status = r.status
    BY DEF TurnRows
  <2>3. row' = row \/ row' = [row EXCEPT ![Head(up).id].init = TRUE]
    BY <1>26 DEF handleGeminiInit, Initialised
  <2>4. \A p \in Turns : row'[p].status = row[p].status
    BY <2>1, <2>2, <2>3 DEF OwnershipTypeOK
  <2> QED BY <2>1, <2>4 DEF RowEnds, Terminal
<1>27. CASE handleClaudeInit
  <2>1. Head(up).id \in Turns /\ confirmed' = confirmed
    BY <1>27, Received DEF handleClaudeInit
  <2>2. ASSUME NEW r \in TurnRows PROVE [r EXCEPT !.init = TRUE].status = r.status
    BY DEF TurnRows
  <2>3. row' = row \/ row' = [row EXCEPT ![Head(up).id].init = TRUE]
    BY <1>27 DEF handleClaudeInit, Initialised
  <2>4. \A p \in Turns : row'[p].status = row[p].status
    BY <2>1, <2>2, <2>3 DEF OwnershipTypeOK
  <2> QED BY <2>1, <2>4 DEF RowEnds, Terminal
<1>28. CASE updateGeminiOwnership
  BY <1>1, <1>28 DEF RowEnds, updateGeminiOwnership, Receive, Lost, SetGoal, GoalOf, agent
<1>29. CASE updateClaudeOwnership
  BY <1>1, <1>29 DEF RowEnds, updateClaudeOwnership, Receive, Lost, agent
<1>30. CASE HandleResult
  <2>1. Head(up).id \in Turns /\ receipt[Head(up).id] # "none" /\ confirmed' = confirmed
    BY <1>30, Received DEF HandleResult, Receive, EndsHaveReceipts, Terminal
  <2>2. row' = row \/ row' = [row EXCEPT ![Head(up).id].status = Head(up).status]
    BY <1>30 DEF HandleResult
  <2> QED BY <2>1, <2>2, SetColumn DEF RowEnds, RowTo
<1>31. CASE completeGeminiInterrupt
  <2> DEFINE o == stop[Head(up).id].op
  <2>1. Head(up).id \in Stops /\ Head(up) \in Range(up) /\ Head(up).kind = "stop" /\ confirmed' = confirmed
    BY <1>31, Received DEF completeGeminiInterrupt, Receive
  <2>2. CASE row' = row
    BY <1>1, <2>1, <2>2
  <2>3. CASE row' = [row EXCEPT ![o].status = "cancelled"] /\ Head(up).status = "stopped"
    <3>1. o \in Turns /\ receipt[o] # "none"
      BY <2>1, <2>3 DEF EndsHaveReceipts, StopsNameTurns
    <3>2. RowTo(o, "cancelled")
      BY <2>3, <3>1, SetColumn
    <3> HIDE DEF o
    <3> QED BY <2>1, <3>1, <3>2 DEF RowEnds, RowTo
  <2> QED BY <1>31, <2>2, <2>3 DEF RowEnds, completeGeminiInterrupt
<1>32. CASE completeClaudeInterrupt
  <2> DEFINE o == stop[Head(up).id].op
  <2>1. Head(up).id \in Stops /\ Head(up) \in Range(up) /\ Head(up).kind = "stop" /\ confirmed' = confirmed
    BY <1>32, Received DEF completeClaudeInterrupt, Receive
  <2>2. CASE row' = row
    BY <1>1, <2>1, <2>2
  <2>3. CASE row' = [row EXCEPT ![o].status = "cancelled"] /\ Head(up).status = "stopped"
    <3>1. o \in Turns /\ receipt[o] # "none"
      BY <2>1, <2>3 DEF EndsHaveReceipts, StopsNameTurns
    <3>2. RowTo(o, "cancelled")
      BY <2>3, <3>1, SetColumn
    <3> HIDE DEF o
    <3> QED BY <2>1, <3>1, <3>2 DEF RowEnds, RowTo
  <2> QED BY <1>32, <2>2, <2>3 DEF RowEnds, completeClaudeInterrupt
<1>33. CASE CompleteGeminiTurn
  BY <1>1, <1>33 DEF RowEnds, CompleteGeminiTurn, CompleteTurn, Ended, SetGoal, GoalOf, agent
<1>34. CASE completeClaudeOperation
  BY <1>1, <1>34 DEF RowEnds, completeClaudeOperation, CompleteTurn, Ended, agent
<1>35. CASE Disconnect
  BY <1>1, <1>35 DEF RowEnds, Disconnect, Fault, db, agent
<1>36. CASE Crash
  BY <1>1, <1>36 DEF RowEnds, Crash, Fault, db
<1>37. CASE UNCHANGED vars
  BY <1>1, <1>37 DEF RowEnds, vars, db, agent
<1> QED BY <1>3, <1>4, <1>5, <1>6, <1>7, <1>8, <1>9, <1>10, <1>11, <1>12, <1>13, <1>14,
           <1>15, <1>16, <1>17, <1>18, <1>19, <1>20, <1>21, <1>22, <1>23, <1>24, <1>25, <1>26,
           <1>27, <1>28, <1>29, <1>30, <1>31, <1>32, <1>33, <1>34, <1>35, <1>36, <1>37
        DEF Next, User, Gateway, Execution, StopExecution

\* Where a turn may be after a step, seen from where it was.
LifeMoves(p) ==
  \/ /\ p \in down' => p \in down
     /\ p \in executing' => p \in executing
     /\ p \in process' => p \in process
     /\ receipt'[p] = receipt[p]
  \/ p \in down \cup executing /\ p \notin down' /\ receipt'[p] = receipt[p]
  \/ p \in executing /\ p \notin down' \cup executing' \cup process' /\ receipt'[p] # "none"
  \/ /\ row'[p].status = "delivered" /\ p \notin executing' \cup process'
     /\ receipt'[p] = receipt[p] /\ receipt[p] = "none"

\* No step moves a turn in another way.
LEMMA LifeStep ==
    ASSUME OwnershipTypeOK, OneLife, [Next]_vars PROVE \A p \in Turns : LifeMoves(p)
<1>1. ASSUME down' = down, executing' = executing, process' = process, receipt' = receipt
      PROVE  \A p \in Turns : LifeMoves(p)
  BY <1>1 DEF LifeMoves
<1>2. ASSUME NEW t \in GeminiThreads, NEW o \in Turns, NEW e \in Turns \cup {None},
             NEW g \in {"plain", "goal"}, startGeminiTurn(t, o, e, g)
      PROVE  \A p \in Turns : LifeMoves(p)
  BY <1>1, <1>2 DEF startGeminiTurn, queueGeminiTurn, claimGeminiGoal, AtRest, agent
<1>3. ASSUME NEW t \in ClaudeThreads, NEW o \in Turns, NEW e \in Turns \cup {None},
             startClaudeTurn(t, o, e)
      PROVE  \A p \in Turns : LifeMoves(p)
  BY <1>1, <1>3 DEF startClaudeTurn, queueClaudeInput, AtRest, agent
<1>4. ASSUME NEW s \in Stops, NEW t \in GeminiThreads, interruptGeminiTurn(s, t)
      PROVE  \A p \in Turns : LifeMoves(p)
  BY <1>1, <1>4
     DEF interruptGeminiTurn, InterruptGeminiTurn, Interruptible, Interrupt, SetGoal, GoalOf,
     agent
<1>5. ASSUME NEW s \in Stops, NEW t \in ClaudeThreads, interruptClaudeTurn(s, t)
      PROVE  \A p \in Turns : LifeMoves(p)
  BY <1>1, <1>5 DEF interruptClaudeTurn, Interruptible, RecoveryPending, db, agent
<1>6. ASSUME NEW s \in Stops, NEW t \in GeminiThreads,
             NEW a \in {"paused", "cancelled"}, controlGeminiGoal(s, t, a)
      PROVE  \A p \in Turns : LifeMoves(p)
  BY <1>1, <1>6
     DEF controlGeminiGoal, InterruptGeminiTurn, Interruptible, Interrupt, SetGoal, GoalOf, agent
<1>7. ASSUME NEW t \in GeminiThreads, NEW o \in Turns, resumeGeminiGoal(t, o)
      PROVE  \A p \in Turns : LifeMoves(p)
  BY <1>1, <1>7 DEF resumeGeminiGoal, queueGeminiTurn, claimGeminiGoal, AtRest, agent
<1>8. ASSUME NEW t \in GeminiThreads, CancelInactiveGeminiGoal(t)
      PROVE  \A p \in Turns : LifeMoves(p)
  BY <1>1, <1>8 DEF CancelInactiveGeminiGoal, agent
<1>9. ASSUME NEW t \in GeminiThreads, NEW o \in Turns, confirmGeminiStopped(t, o)
      PROVE  \A p \in Turns : LifeMoves(p)
  BY <1>1, <1>9
     DEF confirmGeminiStopped, ConfirmGeminiStopped, ReleaseTurn, SetGoal, GoalOf, agent
<1>10. ASSUME NEW t \in ClaudeThreads, NEW o \in Turns, confirmClaudeStopped(t, o)
      PROVE  \A p \in Turns : LifeMoves(p)
  BY <1>1, <1>10 DEF confirmClaudeStopped, ConfirmClaudeStopped, ReleaseTurn, agent
<1>11. ASSUME NEW t \in GeminiThreads, DeleteGeminiThread(t)
      PROVE  \A p \in Turns : LifeMoves(p)
  BY <1>1, <1>11 DEF DeleteGeminiThread, AtRest, agent
<1>12. ASSUME NEW t \in ClaudeThreads, DeleteClaudeThread(t)
      PROVE  \A p \in Turns : LifeMoves(p)
  BY <1>1, <1>12 DEF DeleteClaudeThread, AtRest, agent
<1>13. ASSUME NEW s \in Stops, InterruptClaudeTurn(s)
      PROVE  \A p \in Turns : LifeMoves(p)
  BY <1>1, <1>13 DEF InterruptClaudeTurn, Interruptible, Interrupt, agent
<1>14. ASSUME NEW o \in Turns, ClaimGeminiDelivery(o)
      PROVE  \A p \in Turns : LifeMoves(p)
  <2>1. row'[o].status = "delivered"
    BY <1>14 DEF ClaimGeminiDelivery, OwnershipTypeOK, TurnRows
  <2>2. /\ row[o].status = "queued" /\ down' = down \cup {o}
        /\ executing' = executing /\ process' = process /\ receipt' = receipt
    BY <1>14 DEF ClaimGeminiDelivery, agent
  <2> QED BY <2>1, <2>2 DEF LifeMoves, OneLife
<1>15. ASSUME NEW o \in Turns, Probing(o)
      PROVE  \A p \in Turns : LifeMoves(p)
  BY <1>1, <1>15 DEF Probing, reconcileGeminiOperations, reconcileClaudeOperations, Probe,
     Unfinished, Answer, Send, Message, db, agent
<1>16. ASSUME NEW o \in Turns, handleTurnCommand(o)
      PROVE  \A p \in Turns : LifeMoves(p)
  BY <1>16 DEF handleTurnCommand, db, LifeMoves, OneLife
<1>17. ASSUME NEW o \in Turns, startProcess(o)
      PROVE  \A p \in Turns : LifeMoves(p)
  <2>1. /\ o \in executing /\ process' = process \cup {o}
        /\ down' = down /\ executing' = executing /\ receipt' = receipt
    BY <1>17 DEF startProcess
  <2> QED BY <2>1 DEF LifeMoves, OneLife
<1>18. ASSUME NEW o \in Turns, finish(o)
      PROVE  \A p \in Turns : LifeMoves(p)
  <2>1. /\ o \in executing /\ executing' = executing \ {o} /\ process' = process \ {o}
        /\ down' = down
        /\ \E r \in Terminal : receipt' = [receipt EXCEPT ![o] = r]
    BY <1>18 DEF finish, Terminal
  <2> QED BY <2>1 DEF LifeMoves, OneLife, OwnershipTypeOK, Terminal
<1>19. ASSUME NEW o \in Turns, orphanExits(o)
      PROVE  \A p \in Turns : LifeMoves(p)
  <2>1. /\ \A p \in Turns : p \in down' => p \in down
        /\ executing' \subseteq executing /\ process' \subseteq process /\ receipt' = receipt
    BY <1>19, OwnershipAssumption DEF orphanExits, db
  <2> QED BY <2>1 DEF LifeMoves
<1>20. ASSUME NEW s \in Stops, SendStop(s)
      PROVE  \A p \in Turns : LifeMoves(p)
  <2>1. /\ \A p \in Turns : p \in down' => p \in down
        /\ executing' \subseteq executing /\ process' \subseteq process /\ receipt' = receipt
    BY <1>20, OwnershipAssumption DEF SendStop, agent
  <2> QED BY <2>1 DEF LifeMoves
<1>21. ASSUME NEW s \in Stops, stopStarts(s)
      PROVE  \A p \in Turns : LifeMoves(p)
  <2>1. /\ \A p \in Turns : p \in down' => p \in down
        /\ executing' \subseteq executing /\ process' \subseteq process /\ receipt' = receipt
    BY <1>21, OwnershipAssumption DEF stopStarts, db
  <2> QED BY <2>1 DEF LifeMoves
<1>22. ASSUME NEW s \in Stops, stopFindsNothing(s)
      PROVE  \A p \in Turns : LifeMoves(p)
  <2>1. /\ \A p \in Turns : p \in down' => p \in down
        /\ executing' \subseteq executing /\ process' \subseteq process /\ receipt' = receipt
    BY <1>22, OwnershipAssumption DEF stopFindsNothing, Send, Message, db
  <2> QED BY <2>1 DEF LifeMoves
<1>23. ASSUME NEW s \in Stops, interruptAndWait(s)
      PROVE  \A p \in Turns : LifeMoves(p)
  BY <1>1, <1>23 DEF interruptAndWait, db
<1>24. ASSUME NEW s \in Stops, replayStop(s)
      PROVE  \A p \in Turns : LifeMoves(p)
  <2>1. /\ \A p \in Turns : p \in down' => p \in down
        /\ executing' \subseteq executing /\ process' \subseteq process /\ receipt' = receipt
    BY <1>24, OwnershipAssumption DEF replayStop, Send, Message, db, agent
  <2> QED BY <2>1 DEF LifeMoves
<1>25. CASE handleGeminiInit
  BY <1>1, <1>25 DEF handleGeminiInit, Receive, Current, Initialised, CommitGeminiRewrite, agent
<1>26. CASE handleClaudeInit
  BY <1>1, <1>26 DEF handleClaudeInit, Receive, Current, Initialised, CommitClaudeRewrite, agent
<1>27. CASE updateGeminiOwnership
  BY <1>1, <1>27 DEF updateGeminiOwnership, Receive, Lost, SetGoal, GoalOf, agent
<1>28. CASE updateClaudeOwnership
  BY <1>1, <1>28 DEF updateClaudeOwnership, Receive, Lost, agent
<1>29. CASE HandleResult
  BY <1>1, <1>29 DEF HandleResult, Receive, agent
<1>30. CASE completeGeminiInterrupt
  BY <1>1, <1>30
     DEF completeGeminiInterrupt, Receive, StopAnswered, InterruptFailed, Lost, SetGoal, GoalOf,
     agent
<1>31. CASE completeClaudeInterrupt
  BY <1>1, <1>31
     DEF completeClaudeInterrupt, Receive, StopAnswered, InterruptFailed, Lost, SetGoal, GoalOf,
     agent
<1>32. CASE CompleteGeminiTurn
  BY <1>1, <1>32 DEF CompleteGeminiTurn, CompleteTurn, Ended, SetGoal, GoalOf, agent
<1>33. CASE completeClaudeOperation
  BY <1>1, <1>33 DEF completeClaudeOperation, CompleteTurn, Ended, agent
<1>34. CASE Disconnect
  <2>1. /\ \A p \in Turns : p \in down' => p \in down
        /\ executing' \subseteq executing /\ process' \subseteq process /\ receipt' = receipt
    BY <1>34, OwnershipAssumption DEF Disconnect, Fault, db, agent
  <2> QED BY <2>1 DEF LifeMoves
<1>35. CASE Crash
  <2>1. /\ \A p \in Turns : p \in down' => p \in down
        /\ executing' \subseteq executing /\ process' \subseteq process /\ receipt' = receipt
    BY <1>35, OwnershipAssumption DEF Crash, Fault, db
  <2> QED BY <2>1 DEF LifeMoves
<1>36. CASE UNCHANGED vars
  BY <1>1, <1>36 DEF vars, db, agent
<1> QED BY <1>2, <1>3, <1>4, <1>5, <1>6, <1>7, <1>8, <1>9, <1>10, <1>11, <1>12, <1>13,
           <1>14, <1>15, <1>16, <1>17, <1>18, <1>19, <1>20, <1>21, <1>22, <1>23, <1>24, <1>25,
           <1>26, <1>27, <1>28, <1>29, <1>30, <1>31, <1>32, <1>33, <1>34, <1>35, <1>36
        DEF Next, User, Gateway, Execution, StopExecution

\* A turn that was claimed is never queued again.
LEMMA RowsGoOn ==
    ASSUME Move
    PROVE  \A p \in Turns : row'[p].status \in {"none", "queued"} => row[p].status \in {"none", "queued"}
<1>1. ASSUME RowsStay \/ \E o, st : st \in {"delivered"} \cup Terminal /\ RowTo(o, st)
      PROVE  \A p \in Turns : row'[p].status \in {"none", "queued"} => row[p].status \in {"none", "queued"}
  BY <1>1 DEF RowsStay, RowTo, Terminal
<1>2. CASE Quiet \/ TornApart \/ (\E t \in Threads : Deleted(t)) \/ (\E t \in GeminiThreads : Dropped(t))
  BY <1>1, <1>2 DEF Quiet, TornApart, Deleted, Dropped
<1>3. ASSUME NEW o \in Turns, Claimed(o) \/ Over(o)
      PROVE  \A p \in Turns : row'[p].status \in {"none", "queued"} => row[p].status \in {"none", "queued"}
  BY <1>1, <1>3 DEF Claimed, Over
<1>4. ASSUME NEW t \in Threads, NEW o \in Turns, Queued(t, o)
      PROVE  \A p \in Turns : row'[p].status \in {"none", "queued"} => row[p].status \in {"none", "queued"}
  BY <1>4 DEF Queued, RowTo, NoRow
<1>5. ASSUME NEW t \in Threads, NEW o \in Turns, Stopping(t, o) \/ Released(t, o)
      PROVE  \A p \in Turns : row'[p].status \in {"none", "queued"} => row[p].status \in {"none", "queued"}
  BY <1>1, <1>5 DEF Stopping, Released, Terminal
<1>6. ASSUME NEW t \in Threads, NEW o \in Turns,
             Begun(t, o) \/ Doubtful(t, o) \/ GivenBack(t, o) \/ Recorded(t, o)
      PROVE  \A p \in Turns : row'[p].status \in {"none", "queued"} => row[p].status \in {"none", "queued"}
  BY <1>1, <1>6 DEF Begun, Doubtful, GivenBack, Recorded
<1> QED BY <1>2, <1>3, <1>4, <1>5, <1>6 DEF Move

\* A turn stays in one place, and is over only when it is in none.
LEMMA SentStep ==
    ASSUME OwnershipTypeOK, StopsNameTurns, OneLife, EndsHaveReceipts, ReleasedOnlyWhenOver,
           [Next]_vars
    PROVE  OneLife' /\ ReleasedOnlyWhenOver'
<1>1. SUFFICES ASSUME NEW p \in Turns
               PROVE  /\ row'[p].status \in {"none", "queued"} =>
                           p \notin down' \cup executing' \cup process' /\ receipt'[p] = "none"
                      /\ receipt'[p] # "none" => p \notin down' \cup executing' \cup process'
                      /\ p \in down' => p \notin executing' \cup process'
                      /\ (row'[p].status \in Terminal /\ p \notin confirmed') =>
                           p \notin process' \cup executing' \cup down'
  BY DEF OneLife, ReleasedOnlyWhenOver
<1>2. RowEnds(p) /\ LifeMoves(p)
      /\ (row'[p].status \in {"none", "queued"} => row[p].status \in {"none", "queued"})
  BY EndsStep, LifeStep, StepIsMove, RowsGoOn
<1>3. /\ row[p].status \in {"none", "queued"} =>
           p \notin down \cup executing \cup process /\ receipt[p] = "none"
      /\ receipt[p] # "none" => p \notin down \cup executing \cup process
      /\ p \in down => p \notin executing \cup process
      /\ (row[p].status \in Terminal /\ p \notin confirmed) => p \notin process \cup executing \cup down
  BY DEF OneLife, ReleasedOnlyWhenOver
<1>4. "delivered" \notin {"none", "queued"} \cup Terminal
  BY DEF Terminal
<1> QED BY <1>2, <1>3, <1>4 DEF RowEnds, LifeMoves

\* A message and the execution of a stop that say that a turn is over.
GoodMessage(m) ==
  /\ m.kind = "result" => receipt[m.id] = m.status
  /\ m.kind = "stop" =>
       /\ stop[m.id].status # "none"
       /\ m.status = "stopped" => receipt[stop[m.id].op] # "none"

GoodWaiter(s) ==
  /\ waiter[s] = "waiting" => stop[s].op \in executing \/ receipt[stop[s].op] # "none"
  /\ waiter[s] = "stopped" => receipt[stop[s].op] # "none"

\* Whoever says that a turn is over has its receipt, which is never lost.
LEMMA ReceiptsStep ==
    ASSUME OwnershipTypeOK, StopsNameTurns, OneLife, EndsHaveReceipts, [Next]_vars
    PROVE  EndsHaveReceipts'
<1>0. \A p \in Turns : receipt'[p] = receipt[p] \/ receipt[p] = "none"
  BY LifeStep DEF LifeMoves, OneLife
<1>1. ASSUME NEW m \in Range(up) PROVE GoodMessage(m)'
  <2>1. GoodMessage(m) /\ m \in Messages
    BY QueueLemma DEF EndsHaveReceipts, GoodMessage, OwnershipTypeOK
  <2>2. CASE m.kind = "result"
    <3>1. m.id \in Turns /\ m.status # "none"
      BY <2>1, <2>2 DEF Messages, Terminal
    <3> QED BY <1>0, <2>1, <2>2, <3>1 DEF GoodMessage
  <2>3. CASE m.kind = "stop"
    <3>1. m.id \in Stops /\ stop[m.id].status # "none"
      BY <2>1, <2>3 DEF Messages, GoodMessage
    <3>2. stop[m.id].op \in Turns /\ stop'[m.id].op = stop[m.id].op /\ stop'[m.id].status # "none"
      BY <3>1, StopStep DEF StopMoves, StopsNameTurns
    <3> QED BY <1>0, <2>1, <2>3, <3>1, <3>2 DEF GoodMessage
  <2> QED BY <2>2, <2>3 DEF GoodMessage
<1>2. ASSUME NEW s \in Stops, waiter[s] # "absent"
      PROVE  stop[s].op \in Turns /\ stop'[s].op = stop[s].op /\ GoodWaiter(s)
  BY <1>2, StopStep DEF StopMoves, StopsNameTurns, EndsHaveReceipts, GoodWaiter
<1>3. \A s \in Stops : waiter[s] # "absent" /\ receipt[stop[s].op] # "none" =>
        receipt'[stop'[s].op] # "none"
  BY <1>0, <1>2
<1>4. ASSUME Range(up') \subseteq Range(up), waiter' = waiter, executing \subseteq executing'
      PROVE  EndsHaveReceipts'
  <2>1. \A s \in Stops : GoodWaiter(s)'
    BY <1>2, <1>3, <1>4 DEF GoodWaiter
  <2> QED BY <1>1, <1>4, <2>1 DEF EndsHaveReceipts, GoodMessage, GoodWaiter
<1>5. ASSUME NEW m, Range(up') = Range(up) \cup {m}, GoodMessage(m)', waiter' = waiter,
             executing \subseteq executing'
      PROVE  EndsHaveReceipts'
  <2>1. \A s \in Stops : GoodWaiter(s)'
    BY <1>2, <1>3, <1>5 DEF GoodWaiter
  <2> QED BY <1>1, <1>5, <2>1 DEF EndsHaveReceipts, GoodMessage, GoodWaiter
<1>6. ASSUME NEW t \in GeminiThreads, NEW o \in Turns, NEW e \in Turns \cup {None},
             NEW g \in {"plain", "goal"}, startGeminiTurn(t, o, e, g)
      PROVE  EndsHaveReceipts'
  BY <1>4, <1>6 DEF startGeminiTurn, queueGeminiTurn, claimGeminiGoal, AtRest, agent
<1>7. ASSUME NEW t \in ClaudeThreads, NEW o \in Turns, NEW e \in Turns \cup {None},
             startClaudeTurn(t, o, e)
      PROVE  EndsHaveReceipts'
  BY <1>4, <1>7 DEF startClaudeTurn, queueClaudeInput, AtRest, agent
<1>8. ASSUME NEW s \in Stops, NEW t \in GeminiThreads, interruptGeminiTurn(s, t)
      PROVE  EndsHaveReceipts'
  BY <1>4, <1>8
     DEF interruptGeminiTurn, InterruptGeminiTurn, Interruptible, Interrupt, SetGoal, GoalOf,
     agent
<1>9. ASSUME NEW s \in Stops, NEW t \in ClaudeThreads, interruptClaudeTurn(s, t)
      PROVE  EndsHaveReceipts'
  BY <1>4, <1>9 DEF interruptClaudeTurn, Interruptible, RecoveryPending, db, agent
<1>10. ASSUME NEW s \in Stops, NEW t \in GeminiThreads,
             NEW a \in {"paused", "cancelled"}, controlGeminiGoal(s, t, a)
      PROVE  EndsHaveReceipts'
  BY <1>4, <1>10
     DEF controlGeminiGoal, InterruptGeminiTurn, Interruptible, Interrupt, SetGoal, GoalOf, agent
<1>11. ASSUME NEW t \in GeminiThreads, NEW o \in Turns, resumeGeminiGoal(t, o)
      PROVE  EndsHaveReceipts'
  BY <1>4, <1>11 DEF resumeGeminiGoal, queueGeminiTurn, claimGeminiGoal, AtRest, agent
<1>12. ASSUME NEW t \in GeminiThreads, CancelInactiveGeminiGoal(t)
      PROVE  EndsHaveReceipts'
  BY <1>4, <1>12 DEF CancelInactiveGeminiGoal, agent
<1>13. ASSUME NEW t \in GeminiThreads, NEW o \in Turns, confirmGeminiStopped(t, o)
      PROVE  EndsHaveReceipts'
  BY <1>4, <1>13
     DEF confirmGeminiStopped, ConfirmGeminiStopped, ReleaseTurn, SetGoal, GoalOf, agent
<1>14. ASSUME NEW t \in ClaudeThreads, NEW o \in Turns, confirmClaudeStopped(t, o)
      PROVE  EndsHaveReceipts'
  BY <1>4, <1>14 DEF confirmClaudeStopped, ConfirmClaudeStopped, ReleaseTurn, agent
<1>15. ASSUME NEW t \in GeminiThreads, DeleteGeminiThread(t)
      PROVE  EndsHaveReceipts'
  BY <1>4, <1>15 DEF DeleteGeminiThread, AtRest, agent
<1>16. ASSUME NEW t \in ClaudeThreads, DeleteClaudeThread(t)
      PROVE  EndsHaveReceipts'
  BY <1>4, <1>16 DEF DeleteClaudeThread, AtRest, agent
<1>17. ASSUME NEW s \in Stops, InterruptClaudeTurn(s)
      PROVE  EndsHaveReceipts'
  BY <1>4, <1>17 DEF InterruptClaudeTurn, Interruptible, Interrupt, agent
<1>18. ASSUME NEW o \in Turns, ClaimGeminiDelivery(o)
      PROVE  EndsHaveReceipts'
  BY <1>4, <1>18 DEF ClaimGeminiDelivery, agent
<1>19. ASSUME NEW o \in Turns, Probing(o)
      PROVE  EndsHaveReceipts'
  <2>1. PICK m : m = Answer(o) /\ up' = Append(up, m)
    BY <1>19 DEF Probing, reconcileGeminiOperations, reconcileClaudeOperations, Probe, Send
  <2>2. UNCHANGED <<waiter, executing, receipt>>
    BY <1>19 DEF Probing, reconcileGeminiOperations, reconcileClaudeOperations, Probe, agent
  <2>3. m \in Messages /\ m.kind # "stop" /\ (m.kind = "result" => receipt[m.id] = m.status)
    BY <2>1 DEF Answer, Message, Messages, OwnershipTypeOK
  <2>4. Range(up') = Range(up) \cup {m}
    BY <2>1, <2>3, QueueLemma DEF OwnershipTypeOK
  <2> QED BY <1>5, <2>2, <2>3, <2>4 DEF GoodMessage
<1>20. ASSUME NEW o \in Turns, handleTurnCommand(o)
      PROVE  EndsHaveReceipts'
  BY <1>4, <1>20 DEF handleTurnCommand, db
<1>21. ASSUME NEW o \in Turns, startProcess(o)
      PROVE  EndsHaveReceipts'
  <2>1. PICK m : m = Message("init", o, "none") /\ up' = Append(up, m)
    BY <1>21 DEF startProcess, Send
  <2>2. m \in Messages /\ m.kind = "init"
    BY <2>1 DEF Message, Messages
  <2>3. Range(up') = Range(up) \cup {m}
    BY <2>1, <2>2, QueueLemma DEF OwnershipTypeOK
  <2> QED BY <1>5, <2>2, <2>3, <1>21 DEF GoodMessage, startProcess
<1>22. ASSUME NEW o \in Turns, finish(o)
      PROVE  EndsHaveReceipts'
  <2>0. PICK r \in Terminal : /\ receipt' = [receipt EXCEPT ![o] = r]
                            /\ up' = Append(up, Message("result", o, r))
    BY <1>22 DEF finish, Send, Terminal
  <2>1. PICK m : m = Message("result", o, r)
    OBVIOUS
  <2>2. m \in Messages /\ m.kind = "result" /\ m.id = o /\ m.status = r
    BY <2>0, <2>1 DEF Message, Messages
  <2>3. Range(up') = Range(up) \cup {m}
    BY <2>0, <2>1, <2>2, QueueLemma DEF OwnershipTypeOK
  <2>4. receipt'[o] = r /\ r # "none"
    BY <2>0, <2>1 DEF OwnershipTypeOK, Terminal
  <2>5. GoodMessage(m)'
    BY <2>2, <2>4 DEF GoodMessage
  <2>6. waiter' = waiter /\ executing' = executing \ {o}
    BY <1>22 DEF finish
  <2>7. \A s \in Stops : GoodWaiter(s)'
    BY <1>2, <1>3, <2>4, <2>6 DEF GoodWaiter
  <2> QED BY <1>1, <2>3, <2>5, <2>7 DEF EndsHaveReceipts, GoodMessage, GoodWaiter
<1>23. ASSUME NEW o \in Turns, orphanExits(o)
      PROVE  EndsHaveReceipts'
  BY <1>4, <1>23 DEF orphanExits, db
<1>24. ASSUME NEW s \in Stops, SendStop(s)
      PROVE  EndsHaveReceipts'
  BY <1>4, <1>24 DEF SendStop, agent
<1>25. ASSUME NEW s \in Stops, stopStarts(s)
      PROVE  EndsHaveReceipts'
  <2>1. /\ stop[s].op \in executing /\ waiter' = [waiter EXCEPT ![s] = "waiting"]
        /\ UNCHANGED <<stop, up, executing, receipt>>
    BY <1>25 DEF stopStarts, db
  <2>2. \A q \in Stops : GoodWaiter(q)'
    BY <1>2, <2>1 DEF GoodWaiter, OwnershipTypeOK
  <2> QED BY <1>1, <2>1, <2>2 DEF EndsHaveReceipts, GoodMessage, GoodWaiter
<1>26. ASSUME NEW s \in Stops, stopFindsNothing(s)
      PROVE  EndsHaveReceipts'
  <2>0. PICK r \in {"stopped", "lost"} :
           /\ r = "stopped" => receipt[stop[s].op] # "none"
           /\ waiter' = [waiter EXCEPT ![s] = r]
           /\ up' = Append(up, Message("stop", s, r))
    BY <1>26 DEF stopFindsNothing, Send
  <2>1. PICK m : m = Message("stop", s, r)
    OBVIOUS
  <2>2. UNCHANGED <<stop, executing, receipt>> /\ s \in down
    BY <1>26 DEF stopFindsNothing, db
  <2>3. m \in Messages /\ m.kind = "stop" /\ m.id = s /\ m.status = r
    BY <2>0, <2>1 DEF Message, Messages
  <2>4. Range(up') = Range(up) \cup {m}
    BY <2>0, <2>1, <2>3, QueueLemma DEF OwnershipTypeOK
  <2>5. GoodMessage(m)'
    BY <2>0, <2>1, <2>2, <2>3 DEF GoodMessage, StopsNameTurns
  <2>6. \A q \in Stops : GoodWaiter(q)'
    BY <1>2, <2>0, <2>1, <2>2 DEF GoodWaiter, OwnershipTypeOK
  <2> QED BY <1>1, <2>4, <2>5, <2>6 DEF EndsHaveReceipts, GoodMessage, GoodWaiter
<1>27. ASSUME NEW s \in Stops, interruptAndWait(s)
      PROVE  EndsHaveReceipts'
  <2>0. PICK r \in {"stopped", "timeout"} :
           /\ r = "stopped" => stop[s].op \notin executing
           /\ waiter' = [waiter EXCEPT ![s] = r]
           /\ up' = Append(up, Message("stop", s, r))
    BY <1>27 DEF interruptAndWait, Send
  <2>1. PICK m : m = Message("stop", s, r)
    OBVIOUS
  <2>2. UNCHANGED <<stop, executing, receipt>> /\ waiter[s] = "waiting"
    BY <1>27 DEF interruptAndWait, db
  <2>3. m \in Messages /\ m.kind = "stop" /\ m.id = s /\ m.status = r
    BY <2>0, <2>1 DEF Message, Messages
  <2>4. Range(up') = Range(up) \cup {m}
    BY <2>0, <2>1, <2>3, QueueLemma DEF OwnershipTypeOK
  <2>5. r = "stopped" => receipt[stop[s].op] # "none"
    BY <1>2, <2>0, <2>1, <2>2 DEF GoodWaiter
  <2>6. GoodMessage(m)'
    BY <2>2, <2>3, <2>5 DEF GoodMessage, StopsNameTurns
  <2>7. \A q \in Stops : GoodWaiter(q)'
    BY <1>2, <2>0, <2>1, <2>2, <2>5 DEF GoodWaiter, OwnershipTypeOK
  <2> QED BY <1>1, <2>4, <2>6, <2>7 DEF EndsHaveReceipts, GoodMessage, GoodWaiter
<1>28. ASSUME NEW s \in Stops, replayStop(s)
      PROVE  EndsHaveReceipts'
  <2>1. PICK m : m = Message("stop", s, waiter[s]) /\ up' = Append(up, m)
    BY <1>28 DEF replayStop, Send
  <2>2. /\ UNCHANGED <<stop, executing, receipt, waiter>> /\ s \in down
        /\ waiter[s] \in {"stopped", "lost", "timeout"}
    BY <1>28 DEF replayStop, db, agent
  <2>3. m \in Messages /\ m.kind = "stop" /\ m.id = s /\ m.status = waiter[s]
    BY <2>1, <2>2 DEF Message, Messages
  <2>4. Range(up') = Range(up) \cup {m}
    BY <2>1, <2>3, QueueLemma DEF OwnershipTypeOK
  <2>5. GoodMessage(m)'
    BY <1>2, <2>2, <2>3 DEF GoodMessage, GoodWaiter, StopsNameTurns
  <2> QED BY <1>5, <2>2, <2>4, <2>5
<1>29. CASE handleGeminiInit
  <2>1. Range(up') \subseteq Range(up) /\ waiter' = waiter /\ executing' = executing
    BY <1>29, Received DEF handleGeminiInit, agent
  <2> QED BY <1>4, <2>1
<1>30. CASE handleClaudeInit
  <2>1. Range(up') \subseteq Range(up) /\ waiter' = waiter /\ executing' = executing
    BY <1>30, Received DEF handleClaudeInit, agent
  <2> QED BY <1>4, <2>1
<1>31. CASE updateGeminiOwnership
  <2>1. Range(up') \subseteq Range(up) /\ waiter' = waiter /\ executing' = executing
    BY <1>31, Received DEF updateGeminiOwnership, agent
  <2> QED BY <1>4, <2>1
<1>32. CASE updateClaudeOwnership
  <2>1. Range(up') \subseteq Range(up) /\ waiter' = waiter /\ executing' = executing
    BY <1>32, Received DEF updateClaudeOwnership, agent
  <2> QED BY <1>4, <2>1
<1>33. CASE HandleResult
  <2>1. Range(up') \subseteq Range(up) /\ waiter' = waiter /\ executing' = executing
    BY <1>33, Received DEF HandleResult, agent
  <2> QED BY <1>4, <2>1
<1>34. CASE completeGeminiInterrupt
  <2>1. Range(up') \subseteq Range(up) /\ waiter' = waiter /\ executing' = executing
    BY <1>34, Received DEF completeGeminiInterrupt, agent
  <2> QED BY <1>4, <2>1
<1>35. CASE completeClaudeInterrupt
  <2>1. Range(up') \subseteq Range(up) /\ waiter' = waiter /\ executing' = executing
    BY <1>35, Received DEF completeClaudeInterrupt, agent
  <2> QED BY <1>4, <2>1
<1>36. CASE CompleteGeminiTurn
  BY <1>4, <1>36 DEF CompleteGeminiTurn, CompleteTurn, Ended, SetGoal, GoalOf, agent
<1>37. CASE completeClaudeOperation
  BY <1>4, <1>37 DEF completeClaudeOperation, CompleteTurn, Ended, agent
<1>38. CASE Disconnect
  <2>1. Range(up') \subseteq Range(up)
    BY <1>38, QueueLemma DEF Disconnect, OwnershipTypeOK
  <2> QED BY <1>4, <2>1, <1>38 DEF Disconnect, agent
<1>39. CASE Crash
  <2>1. Range(up') \subseteq Range(up)
    BY <1>39, QueueLemma DEF Crash, OwnershipTypeOK
  <2>2. \A s \in Stops : (waiter'[s] = waiter[s] /\ waiter'[s] # "waiting") \/ waiter'[s] = "absent"
    BY <1>39 DEF Crash, OwnershipTypeOK
  <2>3. \A s \in Stops : GoodWaiter(s)'
    BY <2>2, <1>2, <1>3 DEF GoodWaiter
  <2> QED BY <1>1, <2>1, <2>3 DEF EndsHaveReceipts, GoodMessage, GoodWaiter
<1>40. CASE UNCHANGED vars
  BY <1>4, <1>40 DEF vars, db, agent
<1> QED BY <1>6, <1>7, <1>8, <1>9, <1>10, <1>11, <1>12, <1>13, <1>14, <1>15, <1>16, <1>17,
           <1>18, <1>19, <1>20, <1>21, <1>22, <1>23, <1>24, <1>25, <1>26, <1>27, <1>28, <1>29,
           <1>30, <1>31, <1>32, <1>33, <1>34, <1>35, <1>36, <1>37, <1>38, <1>39, <1>40
        DEF Next, User, Gateway, Execution, StopExecution

-----------------------------------------------------------------------------
\* Nothing has happened yet: every conversation is idle and nothing is under way.
LEMMA InitInv == ASSUME Init PROVE OwnershipInv
<1>1. Range(up) = {} /\ up \in Seq(Messages)
  BY DEF Init, Range
<1>2. OwnershipTypeOK
  <2>1. thread \in [Threads -> ThreadRows] /\ goal \in [GeminiThreads -> GoalRows]
    BY DEF Init, ThreadRows, GoalRows, NoGoal
  <2>2. row \in [Turns -> TurnRows] /\ stop \in [Stops -> StopRows]
    BY DEF Init, TurnRows, StopRows, NoRow
  <2>3. /\ log \in [Threads -> Seq(Turns)] /\ native \in [Turns -> Seq(Turns)]
        /\ asked \in [Stops -> {None} \cup Asked] /\ handling \in {None} \cup Handling
        /\ waiter \in [Stops -> {"absent", "waiting", "stopped", "lost", "timeout"}]
        /\ receipt \in [Turns -> {"none"} \cup Terminal]
    BY DEF Init
  <2>4. /\ down \subseteq Turns \cup Stops /\ executing \subseteq Turns /\ cancelled \subseteq Turns
        /\ process \subseteq Turns /\ confirmed \subseteq Turns /\ torn \subseteq Turns
        /\ faults \in Nat
    BY DEF Init
  <2> QED BY <1>1, <2>1, <2>2, <2>3, <2>4 DEF OwnershipTypeOK
<1>3. OneLife /\ StopsNameTurns /\ ReleasedOnlyWhenOver
  BY DEF Init, OneLife, StopsNameTurns, ReleasedOnlyWhenOver, NoRow, Terminal
<1>4. EndsHaveReceipts
  BY <1>1 DEF Init, EndsHaveReceipts
<1>5. TurnsOfThreads /\ OverIsOver /\ StatusMatchesRow /\ GoalFollowsTurn
  BY DEF Init, TurnsOfThreads, OverIsOver, StatusMatchesRow, GoalFollowsTurn, NoGoal, Busy,
     Active, Threads
<1> QED BY <1>2, <1>3, <1>4, <1>5 DEF OwnershipInv

\* Every step preserves the conjunction.
LEMMA InvStep == ASSUME OwnershipInv, [Next]_vars PROVE OwnershipInv'
<1>1. OwnershipTypeOK /\ StopsNameTurns /\ OneLife /\ EndsHaveReceipts /\ ReleasedOnlyWhenOver
      /\ TurnsOfThreads /\ OverIsOver /\ StatusMatchesRow /\ GoalFollowsTurn
  BY DEF OwnershipInv
<1>2. OwnershipTypeOK' /\ StopsNameTurns'
  BY <1>1, TypeStep, StopsStep
<1>3. OneLife' /\ ReleasedOnlyWhenOver' /\ EndsHaveReceipts'
  BY <1>1, SentStep, ReceiptsStep
<1>4. Move
  BY <1>1, StepIsMove
<1>5. TurnsOfThreads' /\ OverIsOver' /\ StatusMatchesRow' /\ GoalFollowsTurn'
  BY <1>1, <1>4, NamesStep, OverStep, StatusStep, GoalStep
<1> QED BY <1>2, <1>3, <1>5 DEF OwnershipInv

\* Every reachable state satisfies the conjunction, each part of which relies on
\* others: what is shown of a conversation on who names which turn, and the end
\* of a turn on the receipts behind the messages under way.
THEOREM OwnershipInvariant == Spec => []OwnershipInv
<1>1. Init => OwnershipInv
  BY InitInv
<1>2. OwnershipInv /\ [Next]_vars => OwnershipInv'
  BY InvStep
<1> QED BY <1>1, <1>2, PTL DEF Spec

\* Every variable keeps the shape of the code's.
THEOREM OwnershipTypeCorrect == Spec => []OwnershipTypeOK
<1>1. OwnershipInv => OwnershipTypeOK
  BY DEF OwnershipInv
<1> QED BY <1>1, OwnershipInvariant, PTL

\* A turn that is over, and that no user has declared stopped, has no process, no
\* execution and no command under way, whatever was lost, delayed or crashed.
THEOREM WorkspaceReleasedOnlyWhenOver == Spec => []ReleasedOnlyWhenOver
<1>1. OwnershipInv => ReleasedOnlyWhenOver
  BY DEF OwnershipInv
<1> QED BY <1>1, OwnershipInvariant, PTL

\* A conversation shown busy has a turn that is not over, or whose end is being
\* recorded or was torn; one that is shown at rest has none.
THEOREM ConversationMatchesRow == Spec => []StatusMatchesRow
<1>1. OwnershipInv => StatusMatchesRow
  BY DEF OwnershipInv
<1> QED BY <1>1, OwnershipInvariant, PTL

\* The goal of a conversation is shown active while its turn is not over, and one
\* that a user paused or cancelled meanwhile belongs to a conversation that stops.
THEOREM GoalMatchesTurn == Spec => []GoalFollowsTurn
<1>1. OwnershipInv => GoalFollowsTurn
  BY DEF OwnershipInv
<1> QED BY <1>1, OwnershipInvariant, PTL
-----------------------------------------------------------------------------
(***************************************************************************)
(* What the session remembers is shown, in the order in which it is shown. *)
(***************************************************************************)

\* A message and what follows it are replaced by another.
Cut(q, e, o) == Append(Before(q, e), o)

\* What precedes a message, and what stands there when it is replaced.
LEMMA Replaced ==
    ASSUME NEW q \in Seq(Turns), NEW e \in Range(q), NEW o \in Turns
    PROVE  \E k \in DOMAIN q :
              /\ q[k] = e /\ Cut(q, e, o) \in Seq(Turns)
              /\ DOMAIN Cut(q, e, o) = 1..k
              /\ \A i \in 1..(k - 1) : i \in DOMAIN q /\ Cut(q, e, o)[i] = q[i]
              /\ Cut(q, e, o)[k] = o
<1> DEFINE k == CHOOSE j \in DOMAIN q : q[j] = e
<1>1. k \in DOMAIN q /\ q[k] = e
  BY DEF Range
<1>2. Before(q, e) = SubSeq(q, 1, k - 1)
  BY OwnershipAssumption DEF Before, Range
<1> HIDE DEF k
<1>3. /\ SubSeq(q, 1, k - 1) \in Seq(Turns) /\ Len(SubSeq(q, 1, k - 1)) = k - 1
      /\ \A i \in 1..(k - 1) : i \in DOMAIN q /\ SubSeq(q, 1, k - 1)[i] = q[i]
  BY <1>1
<1> DEFINE s == SubSeq(q, 1, k - 1)
<1> HIDE DEF s
<1>4. s \in Seq(Turns) /\ Len(s) = k - 1 /\ k \in Nat \ {0}
  BY <1>1, <1>3 DEF s
<1>5. /\ Append(s, o) \in Seq(Turns) /\ DOMAIN Append(s, o) = 1..k
      /\ \A i \in 1..(k - 1) : Append(s, o)[i] = s[i]
      /\ Append(s, o)[k] = o
  BY <1>4
<1> QED BY <1>1, <1>2, <1>3, <1>5 DEF s, Cut

\* A sequence without repetitions.
Distinct(q) == \A i, j \in DOMAIN q : q[i] = q[j] => i = j

\* A message that was not shown is added.
LEMMA AppendDistinct ==
    ASSUME NEW q \in Seq(Turns), Distinct(q), NEW o \in Turns, o \notin Range(q)
    PROVE  Distinct(Append(q, o))
<1>1. /\ DOMAIN Append(q, o) = 1..(Len(q) + 1) /\ Append(q, o)[Len(q) + 1] = o
      /\ \A i \in 1..Len(q) : Append(q, o)[i] = q[i] /\ i \in DOMAIN q
      /\ Len(q) \in Nat
  OBVIOUS
<1>2. \A i \in DOMAIN q : q[i] # o
  BY DEF Range
<1> QED BY <1>1, <1>2 DEF Distinct

\* An edit leaves a conversation that shows every message once.
LEMMA ReplacedDistinct ==
    ASSUME NEW q \in Seq(Turns), Distinct(q), NEW e \in Range(q), NEW o \in Turns, o \notin Range(q)
    PROVE  /\ Distinct(Cut(q, e, o))
           /\ Range(Cut(q, e, o)) \subseteq Range(q) \cup {o}
<1>1. PICK k \in DOMAIN q :
              /\ DOMAIN Cut(q, e, o) = 1..k
              /\ \A i \in 1..(k - 1) : i \in DOMAIN q /\ Cut(q, e, o)[i] = q[i]
              /\ Cut(q, e, o)[k] = o
  BY Replaced
<1>2. \A i \in 1..k : i = k \/ i \in 1..(k - 1)
  BY <1>1
<1>3. \A i \in DOMAIN q : q[i] # o
  BY DEF Range
<1> QED BY <1>1, <1>2, <1>3 DEF Distinct, Range

\* The session and the conversation are cut at the same message, and go on with
\* the same one.
LEMMA WithinReplaced ==
    ASSUME NEW s \in Seq(Turns), NEW l \in Seq(Turns), Within(s, l), Distinct(l),
           NEW e \in Range(s), NEW o \in Turns, o \notin Range(l)
    PROVE  Within(Cut(s, e, o), Cut(l, e, o))
<1>0. e \in Range(l) /\ o \notin Range(s)
  BY DEF Within
<1> DEFINE a == Cut(s, e, o)
           b == Cut(l, e, o)
<1>x. \E x \in DOMAIN s :
              /\ s[x] = e /\ DOMAIN a = 1..x
              /\ \A i \in 1..(x - 1) : i \in DOMAIN s /\ a[i] = s[i]
              /\ a[x] = o
  BY Replaced
<1>y. \E y \in DOMAIN l :
              /\ l[y] = e /\ DOMAIN b = 1..y
              /\ \A i \in 1..(y - 1) : i \in DOMAIN l /\ b[i] = l[i]
              /\ b[y] = o
  BY <1>0, Replaced
<1> HIDE DEF a, b
<1>1. PICK x \in DOMAIN s :
              /\ s[x] = e /\ DOMAIN a = 1..x
              /\ \A i \in 1..(x - 1) : i \in DOMAIN s /\ a[i] = s[i]
              /\ a[x] = o
  BY <1>x
<1>2. PICK y \in DOMAIN l :
              /\ l[y] = e /\ DOMAIN b = 1..y
              /\ \A i \in 1..(y - 1) : i \in DOMAIN l /\ b[i] = l[i]
              /\ b[y] = o
  BY <1>y
<1>3. x \in Nat \ {0} /\ y \in Nat \ {0}
  OBVIOUS
<1>4. /\ \A i \in DOMAIN s : \E k \in DOMAIN l : l[k] = s[i]
      /\ \A i, j \in DOMAIN s, k, m \in DOMAIN l : i < j /\ s[i] = l[k] /\ s[j] = l[m] => k < m
      /\ \A k \in DOMAIN l : l[k] # o
      /\ DOMAIN l = 1..Len(l) /\ DOMAIN s = 1..Len(s) /\ Len(l) \in Nat /\ Len(s) \in Nat
  <2>1. /\ Range(s) \subseteq Range(l)
        /\ \A i, j \in DOMAIN s, k, m \in DOMAIN l : i < j /\ s[i] = l[k] /\ s[j] = l[m] => k < m
    BY DEF Within
  <2>2. \A i \in DOMAIN s : \E k \in DOMAIN l : l[k] = s[i]
    BY <2>1, Zenon DEF Range
  <2>3. \A k \in DOMAIN l : l[k] # o
    BY Zenon DEF Range
  <2> QED BY <2>1, <2>2, <2>3
<1>5. \A i \in 1..(x - 1) : \E k \in 1..(y - 1) : b[k] = a[i]
  <2> SUFFICES ASSUME NEW i \in 1..(x - 1) PROVE \E k \in 1..(y - 1) : b[k] = a[i]
    OBVIOUS
  <2>1. PICK k \in DOMAIN l : l[k] = s[i]
    BY <1>1, <1>4
  <2>2. k < y
    BY <1>1, <1>2, <1>3, <1>4, <2>1
  <2>3. k \in 1..(y - 1)
    BY <1>4, <2>2
  <2>4. b[k] = l[k] /\ a[i] = s[i]
    BY <1>1, <1>2, <2>3
  <2> QED BY <2>1, <2>3, <2>4
<1>6. Range(a) \subseteq Range(b)
  <2>1. \A i \in 1..x : i \in 1..(x - 1) \/ i = x
    BY <1>3
  <2>2. y \in DOMAIN b /\ \A k \in 1..(y - 1) : k \in DOMAIN b
    BY <1>2, <1>3
  <2>3. \A i \in DOMAIN a : \E k \in DOMAIN b : b[k] = a[i]
    BY <1>1, <1>2, <1>5, <2>1, <2>2
  <2> QED BY <2>3, Zenon DEF Range
<1>7. ASSUME NEW i \in DOMAIN a, NEW j \in DOMAIN a, NEW k \in DOMAIN b, NEW m \in DOMAIN b,
             i < j, a[i] = b[k], a[j] = b[m]
      PROVE  k < m
  <2>1. i \in 1..(x - 1) /\ a[i] = s[i] /\ a[i] # o
    <3>1. i \in 1..(x - 1)
      BY <1>1, <1>3, <1>7
    <3> QED BY <1>0, <1>1, <3>1 DEF Range
  <2>2. k \in 1..(y - 1) /\ b[k] = l[k] /\ k \in DOMAIN l
    <3>1. k # y
      BY <1>2, <1>7, <2>1
    <3>2. k \in 1..(y - 1)
      BY <1>2, <1>3, <3>1
    <3> QED BY <1>2, <3>2
  <2>3. CASE m = y
    BY <1>3, <2>2, <2>3
  <2>4. CASE m # y
    <3>1. m \in 1..(y - 1)
      BY <1>2, <1>3, <2>4
    <3>2. b[m] = l[m] /\ m \in DOMAIN l /\ b[m] # o
      BY <1>2, <1>4, <3>1
    <3>3. j # x
      BY <1>1, <1>7, <3>2
    <3>4. j \in 1..(x - 1)
      BY <1>1, <1>3, <3>3
    <3> QED BY <1>1, <1>4, <1>7, <2>1, <2>2, <3>2, <3>4
  <2> QED BY <2>3, <2>4
<1>8. Within(a, b)
  BY <1>6, <1>7 DEF Within
<1> QED BY <1>8 DEF a, b

\* The session takes the last message that is shown.
LEMMA WithinTaken ==
    ASSUME NEW s \in Seq(Turns), NEW l \in Seq(Turns), Within(s, l), Distinct(l),
           l # <<>>, NEW o \in Turns, l[Len(l)] = o, o \notin Range(s)
    PROVE  Within(Append(s, o), l)
<1>1. /\ DOMAIN Append(s, o) = 1..(Len(s) + 1) /\ Append(s, o)[Len(s) + 1] = o
      /\ \A i \in 1..Len(s) : Append(s, o)[i] = s[i]
      /\ DOMAIN s = 1..Len(s) /\ Len(s) \in Nat
      /\ Range(Append(s, o)) = Range(s) \cup {o}
  BY QueueLemma
<1>2. DOMAIN l = 1..Len(l) /\ Len(l) \in Nat \ {0}
  OBVIOUS
<1>3. o \in Range(l)
  BY <1>2 DEF Range
<1>4. ASSUME NEW i \in DOMAIN Append(s, o), NEW j \in DOMAIN Append(s, o),
             NEW k \in DOMAIN l, NEW m \in DOMAIN l,
             i < j, Append(s, o)[i] = l[k], Append(s, o)[j] = l[m]
      PROVE  k < m
  <2> DEFINE a == Append(s, o)
  <2> HIDE DEF a
  <2>0. /\ DOMAIN a = 1..(Len(s) + 1) /\ a[Len(s) + 1] = o /\ \A x \in 1..Len(s) : a[x] = s[x]
        /\ i \in DOMAIN a /\ j \in DOMAIN a /\ a[i] = l[k] /\ a[j] = l[m]
    BY <1>1, <1>4 DEF a
  <2>1. i \in 1..Len(s)
    BY <1>1, <1>4, <2>0
  <2>2. s[i] # o
    BY <1>1, <2>1 DEF Range
  <2>3. CASE j = Len(s) + 1
    <3>1. m = Len(l)
      BY <1>2, <2>0, <2>3 DEF Distinct
    <3>2. k # m
      BY <2>0, <2>1, <2>2, <3>1
    <3> QED BY <1>2, <3>1, <3>2
  <2>4. CASE j # Len(s) + 1
    <3>1. j \in 1..Len(s)
      BY <1>1, <2>0, <2>4
    <3> QED BY <1>1, <1>4, <2>0, <2>1, <3>1 DEF Within
  <2> QED BY <2>3, <2>4
<1> QED BY <1>1, <1>3, <1>4 DEF Within

\* A session of one prompt, and a message that is added.
LEMMA WithinOne ==
    ASSUME NEW l \in Seq(Turns), NEW o \in Range(l)
    PROVE  Within(Append(<<>>, o), l)
<1>1. /\ DOMAIN Append(<<>>, o) = {1} /\ Append(<<>>, o)[1] = o
  OBVIOUS
<1>2. Range(Append(<<>>, o)) = {o}
  BY <1>1 DEF Range
<1> QED BY <1>1, <1>2 DEF Within

LEMMA WithinAdded ==
    ASSUME NEW s \in Seq(Turns), NEW l \in Seq(Turns), Within(s, l), NEW o \in Turns,
           o \notin Range(l)
    PROVE  Within(s, Append(l, o))
<1>1. /\ DOMAIN Append(l, o) = 1..(Len(l) + 1) /\ Append(l, o)[Len(l) + 1] = o
      /\ \A i \in 1..Len(l) : Append(l, o)[i] = l[i]
      /\ DOMAIN l = 1..Len(l) /\ Len(l) \in Nat
      /\ Range(Append(l, o)) = Range(l) \cup {o}
  BY QueueLemma
<1>2. \A i \in DOMAIN s : s[i] # o
  BY DEF Within, Range
<1>3. ASSUME NEW i \in DOMAIN s, NEW j \in DOMAIN s,
             NEW k \in DOMAIN Append(l, o), NEW m \in DOMAIN Append(l, o),
             i < j, s[i] = Append(l, o)[k], s[j] = Append(l, o)[m]
      PROVE  k < m
  <2>1. k # Len(l) + 1 /\ m # Len(l) + 1
    BY <1>1, <1>2, <1>3
  <2>2. k \in DOMAIN l /\ m \in DOMAIN l
    BY <1>1, <2>1
  <2> QED BY <1>1, <1>3, <2>2 DEF Within
<1> QED BY <1>1, <1>3 DEF Within

\* Such a session is found in the conversation, one message after the other.
LEMMA WithinEmbeds ==
    ASSUME NEW s \in Seq(Turns), NEW l \in Seq(Turns), Within(s, l)
    PROVE  \E f \in [DOMAIN s -> DOMAIN l] :
              /\ \A i \in DOMAIN s : l[f[i]] = s[i]
              /\ \A i, j \in DOMAIN s : i < j => f[i] < f[j]
<1> DEFINE f == [i \in DOMAIN s |-> CHOOSE k \in DOMAIN l : l[k] = s[i]]
<1>1. \A i \in DOMAIN s : \E k \in DOMAIN l : l[k] = s[i]
  BY DEF Within, Range
<1>2. \A i \in DOMAIN s : f[i] \in DOMAIN l /\ l[f[i]] = s[i]
  BY <1>1
<1>3. f \in [DOMAIN s -> DOMAIN l]
  BY <1>2
<1> HIDE DEF f
<1>4. \A i, j \in DOMAIN s : i < j => f[i] < f[j]
  BY <1>2 DEF Within
<1> QED BY <1>2, <1>3, <1>4

-----------------------------------------------------------------------------
(* What a step does to what conversations, sessions and turns remember *)

RowKept(p) ==
  /\ row'[p].thread = row[p].thread /\ row'[p].session = row[p].session
  /\ row'[p].edit = row[p].edit /\ row'[p].init = row[p].init
ThreadKept(u) == thread'[u].op = thread[u].op /\ thread'[u].session = thread[u].session

\* The init events under way were under way, and stay apart.
UpKept ==
  \E d \in Nat : \A i \in DOMAIN up' :
    up'[i].kind = "init" => i + d \in DOMAIN up /\ up[i + d] = up'[i]

ColumnsKept ==
  /\ \A p \in Turns : RowKept(p)
  /\ \A u \in Threads : ThreadKept(u)
  /\ UpKept /\ native' = native /\ confirmed \subseteq confirmed'

Kept == ColumnsKept /\ log' = log
Clears(t) == ColumnsKept /\ thread'[t].status = "deleted" /\ log' = [log EXCEPT ![t] = <<>>]

Asks(t, o, e) ==
  /\ row[o] = NoRow /\ AtRest(t)
  /\ e # None => e \in Range(log[t])
  /\ row'[o] = [status |-> "queued", thread |-> t, session |-> thread[t].session, edit |-> e,
                init |-> FALSE]
  /\ \A p \in Turns \ {o} : row'[p] = row[p]
  /\ thread'[t].op = o /\ thread'[t].session = thread[t].session
  /\ \A u \in Threads \ {t} : thread'[u] = thread[u]
  /\ log' = IF e = None THEN [log EXCEPT ![t] = Append(@, o)] ELSE log
  /\ UNCHANGED <<up, native, confirmed>>

Loads(t, o) ==
  /\ up # <<>> /\ Head(up).kind = "init" /\ Head(up).id = o /\ up' = Tail(up)
  /\ row[o].thread = t /\ Current(t, o)
  /\ row' = [row EXCEPT ![o].init = TRUE]
  /\ thread'[t].op = thread[t].op /\ thread'[t].session = Session(o)
  /\ \A u \in Threads \ {t} : ThreadKept(u)
  /\ CommitGeminiRewrite(t, o)
  /\ UNCHANGED <<native, confirmed>>

SessionMove ==
  \/ Kept
  \/ \E o \in Turns : startProcess(o)
  \/ \E t \in Threads : Clears(t)
  \/ \E t \in Threads, o \in Turns : Loads(t, o) \/ \E e \in Turns \cup {None} : Asks(t, o, e)

StatusOnly ==
  /\ \/ row' = row
     \/ \E o \in Turns : \E st : row' = [row EXCEPT ![o].status = st]
  /\ \/ thread' = thread
     \/ \E t \in Threads : \E st : thread' = [thread EXCEPT ![t].status = st]
UpOnly ==
  \/ up' = up
  \/ \E m \in Messages : m.kind # "init" /\ up' = Append(up, m)
  \/ up # <<>> /\ up' = Tail(up)
  \/ \E k \in 0..Len(up) : up' = SubSeq(up, 1, k) \/ up' = SubSeq(up, k + 1, Len(up))

\* Messages that are sent, received and lost leave the others as they were.
LEMMA UpStays == ASSUME OwnershipTypeOK, UpOnly PROVE UpKept
<1>0. up \in Seq(Messages)
  BY DEF OwnershipTypeOK
<1>1. CASE up' = up
  <2>1. 0 \in Nat /\ \A i \in DOMAIN up' : i + 0 \in DOMAIN up /\ up[i + 0] = up'[i]
    BY <1>0, <1>1
  <2> QED BY <2>1 DEF UpKept
<1>2. ASSUME NEW m \in Messages, m.kind # "init", up' = Append(up, m) PROVE UpKept
  <2>1. 0 \in Nat /\ \A i \in DOMAIN up' : i = Len(up) + 1 \/ (i + 0 \in DOMAIN up /\ up[i + 0] = up'[i])
    BY <1>0, <1>2
  <2>2. up'[Len(up) + 1] = m
    BY <1>0, <1>2
  <2> QED BY <1>2, <2>1, <2>2 DEF UpKept
<1>3. CASE up # <<>> /\ up' = Tail(up)
  <2>1. 1 \in Nat /\ \A i \in DOMAIN up' : i + 1 \in DOMAIN up /\ up[i + 1] = up'[i]
    BY <1>0, <1>3
  <2> QED BY <2>1 DEF UpKept
<1>4. ASSUME NEW k \in 0..Len(up), up' = SubSeq(up, 1, k) PROVE UpKept
  <2>1. 0 \in Nat /\ \A i \in DOMAIN up' : i + 0 \in DOMAIN up /\ up[i + 0] = up'[i]
    BY <1>0, <1>4
  <2> QED BY <2>1 DEF UpKept
<1>5. ASSUME NEW k \in 0..Len(up), up' = SubSeq(up, k + 1, Len(up)) PROVE UpKept
  <2>1. k \in Nat /\ \A i \in DOMAIN up' : i + k \in DOMAIN up /\ up[i + k] = up'[i]
    BY <1>0, <1>5
  <2> QED BY <2>1 DEF UpKept
<1> QED BY <1>1, <1>2, <1>3, <1>4, <1>5 DEF UpOnly

\* A step that sets a status sets no other column.
LEMMA StatusKeeps ==
    ASSUME OwnershipTypeOK, StatusOnly, UpOnly, native' = native, confirmed \subseteq confirmed'
    PROVE  ColumnsKept
<1>0. row \in [Turns -> TurnRows] /\ thread \in [Threads -> ThreadRows]
  BY DEF OwnershipTypeOK
<1>1. ASSUME NEW o \in Turns, NEW st, row' = [row EXCEPT ![o].status = st], NEW p \in Turns
      PROVE  RowKept(p)
  <2>1. ASSUME NEW r \in TurnRows
        PROVE  /\ [r EXCEPT !.status = st].thread = r.thread
               /\ [r EXCEPT !.status = st].session = r.session
               /\ [r EXCEPT !.status = st].edit = r.edit /\ [r EXCEPT !.status = st].init = r.init
    BY DEF TurnRows
  <2>2. row'[p] = IF p = o THEN [row[p] EXCEPT !.status = st] ELSE row[p]
    BY <1>0, <1>1
  <2> QED BY <1>0, <2>1, <2>2 DEF RowKept
<1>2. ASSUME NEW t \in Threads, NEW st, thread' = [thread EXCEPT ![t].status = st], NEW u \in Threads
      PROVE  ThreadKept(u)
  <2>1. ASSUME NEW r \in ThreadRows
        PROVE  /\ [r EXCEPT !.status = st].op = r.op
               /\ [r EXCEPT !.status = st].session = r.session
    BY DEF ThreadRows
  <2>2. thread'[u] = IF u = t THEN [thread[u] EXCEPT !.status = st] ELSE thread[u]
    BY <1>0, <1>2
  <2> QED BY <1>0, <2>1, <2>2 DEF ThreadKept
<1>3. (row' = row => \A p \in Turns : RowKept(p)) /\ (thread' = thread => \A u \in Threads : ThreadKept(u))
  BY DEF RowKept, ThreadKept
<1> QED BY <1>1, <1>2, <1>3, UpStays DEF ColumnsKept, StatusOnly

\* A request for a turn.
LEMMA AsksTurn ==
    ASSUME OwnershipTypeOK, NEW t \in Threads, NEW o \in Turns, NEW e \in Turns \cup {None},
           Fresh(o), AtRest(t), e # None => e \in Range(log[t]),
           row' = [row EXCEPT ![o] = [status |-> "queued", thread |-> t,
                                      session |-> thread[t].session, edit |-> e, init |-> FALSE]],
           thread' = [thread EXCEPT ![t].status = "queued", ![t].op = o],
           log' = IF e = None THEN [log EXCEPT ![t] = Append(@, o)] ELSE log,
           UNCHANGED <<up, native, confirmed>>
    PROVE  Asks(t, o, e)
<1>1. /\ row'[o] = [status |-> "queued", thread |-> t, session |-> thread[t].session, edit |-> e,
                    init |-> FALSE]
      /\ \A p \in Turns \ {o} : row'[p] = row[p]
  BY DEF OwnershipTypeOK
<1>2. /\ thread'[t].session = thread[t].session /\ thread'[t].op = o
      /\ \A u \in Threads \ {t} : thread'[u] = thread[u]
  <2>1. ASSUME NEW r \in ThreadRows
        PROVE  /\ [r EXCEPT !.status = "queued", !.op = o].session = r.session
               /\ [r EXCEPT !.status = "queued", !.op = o].op = o
    BY DEF ThreadRows
  <2> QED BY <2>1 DEF OwnershipTypeOK
<1> QED BY <1>1, <1>2 DEF Asks, Fresh

\* The event of a turn that has begun.
LEMMA LoadsTurn ==
    ASSUME OwnershipTypeOK, NEW t \in Threads, NEW o \in Turns, Receive("init"), Head(up).id = o,
           t = row[o].thread, Current(t, o), Initialised(t, o), CommitGeminiRewrite(t, o),
           UNCHANGED <<native, confirmed>>
    PROVE  Loads(t, o)
<1>1. \A u \in Threads : /\ thread'[u].op = thread[u].op
                         /\ thread'[u].session = IF u = t THEN Session(o) ELSE thread[u].session
  <2> DEFINE st == IF thread[t].status \in {"interrupting", "interrupted"} THEN thread[t].status
                   ELSE "running"
  <2>1. thread' = [thread EXCEPT ![t].session = Session(o), ![t].status = st]
    BY DEF Initialised
  <2> HIDE DEF st
  <2>2. ASSUME NEW r \in ThreadRows
        PROVE  /\ [r EXCEPT !.session = Session(o), !.status = st].session = Session(o)
               /\ [r EXCEPT !.session = Session(o), !.status = st].op = r.op
    BY DEF ThreadRows
  <2> QED BY <2>1, <2>2 DEF OwnershipTypeOK
<1> QED BY <1>1 DEF Loads, ThreadKept, Receive, Initialised

\* A message of the Agent that is no init event.
LEMMA OtherMessages ==
    ASSUME OwnershipTypeOK
    PROVE  /\ \A s \in Stops, st \in {"stopped", "lost", "timeout"} :
                Message("stop", s, st) \in Messages /\ Message("stop", s, st).kind # "init"
           /\ \A o \in Turns, st \in Terminal :
                Message("result", o, st) \in Messages /\ Message("result", o, st).kind # "init"
           /\ \A o \in Turns : Answer(o) \in Messages /\ Answer(o).kind # "init"
<1>1. \A o \in Turns : receipt[o] # "none" => receipt[o] \in Terminal
  BY DEF OwnershipTypeOK
<1>2. \A o \in Turns, st \in Terminal :
         Message("result", o, st) \in Messages /\ Message("result", o, st).kind # "init"
  BY DEF Messages, Message
<1>3. \A s \in Stops, st \in {"stopped", "lost", "timeout"} :
         Message("stop", s, st) \in Messages /\ Message("stop", s, st).kind # "init"
  BY DEF Messages, Message
<1>4. \A o \in Turns, k \in {"active", "lost"} :
         Message(k, o, "none") \in Messages /\ Message(k, o, "none").kind # "init"
  BY DEF Messages, Message
<1> QED BY <1>1, <1>2, <1>3, <1>4 DEF Answer

\* Every step is one of these moves.
LEMMA StepIsSessionMove ==
    ASSUME OwnershipTypeOK, StopsNameTurns, [Next]_vars PROVE SessionMove
<1> DEFINE Same == native' = native /\ confirmed \subseteq confirmed' /\ log' = log
<1>0. ASSUME StatusOnly, UpOnly, Same PROVE SessionMove
  BY <1>0, StatusKeeps DEF Kept, SessionMove
<1>q. \A t \in Threads, o \in Turns : \A e \in Turns \cup {None} : Asks(t, o, e) => SessionMove
  BY DEF SessionMove
<1>1. ASSUME NEW t \in GeminiThreads, NEW o \in Turns, NEW e \in Turns \cup {None},
             NEW g \in {"plain", "goal"}, startGeminiTurn(t, o, e, g) PROVE SessionMove
  <2>1. Asks(t, o, e)
    BY <1>1, AsksTurn DEF startGeminiTurn, queueGeminiTurn, geminiRewriteTarget, agent, Threads
  <2> QED BY <1>q, <2>1 DEF Threads
<1>2. ASSUME NEW t \in ClaudeThreads, NEW o \in Turns, NEW e \in Turns \cup {None},
             startClaudeTurn(t, o, e)
      PROVE  SessionMove
  <2>1. Asks(t, o, e)
    BY <1>2, AsksTurn DEF startClaudeTurn, queueClaudeInput, claudeRewriteTarget, agent, Threads
  <2> QED BY <1>q, <2>1 DEF Threads
<1>3. ASSUME NEW t \in GeminiThreads, NEW o \in Turns, resumeGeminiGoal(t, o) PROVE SessionMove
  <2>1. Asks(t, o, None)
    BY <1>3, AsksTurn DEF resumeGeminiGoal, queueGeminiTurn, agent, Threads
  <2> QED BY <1>q, <2>1 DEF Threads
<1>i. ASSUME NEW s, NEW t \in Threads, NEW o \in Turns, NEW r, Interrupt(s, t, o, r)
      PROVE  StatusOnly
  BY <1>i DEF Interrupt, StatusOnly
<1>4. ASSUME NEW s \in Stops, NEW t \in GeminiThreads, NEW to, InterruptGeminiTurn(s, t, to)
      PROVE  SessionMove
  <2>1. thread[t].op \in Turns /\ t \in Threads
    BY <1>4, Columns DEF InterruptGeminiTurn, Interruptible, Active, OwnershipTypeOK, Threads
  <2> QED BY <1>0, <1>4, <1>i, <2>1 DEF InterruptGeminiTurn, UpOnly, agent
<1>5. ASSUME NEW s \in Stops, InterruptClaudeTurn(s) PROVE SessionMove
  <2>1. asked[s].op \in Turns /\ asked[s].thread \in Threads
    BY <1>5, Columns DEF InterruptClaudeTurn, OwnershipTypeOK, Threads
  <2>2. StatusOnly
    BY <1>5, <1>i, <2>1 DEF InterruptClaudeTurn, StatusOnly
  <2> QED BY <1>0, <1>5, <2>2 DEF InterruptClaudeTurn, UpOnly, agent
<1>6. ASSUME NEW s \in Stops, NEW t \in ClaudeThreads, interruptClaudeTurn(s, t) PROVE SessionMove
  BY <1>0, <1>6 DEF interruptClaudeTurn, StatusOnly, UpOnly, db, agent
<1>7. ASSUME NEW t \in GeminiThreads, CancelInactiveGeminiGoal(t) PROVE SessionMove
  BY <1>0, <1>7 DEF CancelInactiveGeminiGoal, StatusOnly, UpOnly, agent
<1>8. ASSUME NEW t, NEW o \in Turns, confirmGeminiStopped(t, o) \/ confirmClaudeStopped(t, o)
      PROVE  SessionMove
  BY <1>0, <1>8 DEF confirmGeminiStopped, ConfirmGeminiStopped, confirmClaudeStopped,
     ConfirmClaudeStopped, ReleaseTurn, StatusOnly, UpOnly, agent
<1>9. ASSUME NEW t \in Threads, DeleteGeminiThread(t) \/ DeleteClaudeThread(t) PROVE SessionMove
  <2>1. /\ thread' = [thread EXCEPT ![t].status = "deleted"] /\ log' = [log EXCEPT ![t] = <<>>]
        /\ UNCHANGED <<row, up, native, confirmed>>
    BY <1>9 DEF DeleteGeminiThread, DeleteClaudeThread, agent
  <2>2. thread'[t].status = "deleted"
    <3>1. ThreadTo(t, "deleted")
      BY <2>1, SetColumn
    <3> QED BY <3>1 DEF ThreadTo
  <2>3. ColumnsKept
    BY <2>1, StatusKeeps DEF StatusOnly, UpOnly
  <2> QED BY <2>1, <2>2, <2>3 DEF Clears, SessionMove
<1>10. ASSUME NEW o \in Turns, ClaimGeminiDelivery(o) PROVE SessionMove
  BY <1>0, <1>10 DEF ClaimGeminiDelivery, StatusOnly, UpOnly, agent
<1>11. ASSUME NEW o \in Turns, Probing(o) PROVE SessionMove
  <2>1. UpOnly
    BY <1>11, OtherMessages DEF Probing, reconcileGeminiOperations, reconcileClaudeOperations, Probe,
       Send, UpOnly
  <2> QED BY <1>0, <1>11, <2>1 DEF Probing, reconcileGeminiOperations, reconcileClaudeOperations,
          Probe, StatusOnly, db, agent
<1>12. ASSUME NEW o \in Turns, handleTurnCommand(o) \/ orphanExits(o) PROVE SessionMove
  BY <1>0, <1>12 DEF handleTurnCommand, orphanExits, StatusOnly, UpOnly, db
<1>13. ASSUME NEW o \in Turns, startProcess(o) PROVE SessionMove
  BY <1>13 DEF SessionMove
<1>14. ASSUME NEW o \in Turns, finish(o) PROVE SessionMove
  <2>1. UpOnly
    BY <1>14, OtherMessages DEF finish, Send, UpOnly, Terminal
  <2> QED BY <1>0, <1>14, <2>1 DEF finish, StatusOnly, db
<1>15. ASSUME NEW s \in Stops, SendStop(s) \/ stopStarts(s) PROVE SessionMove
  BY <1>0, <1>15 DEF SendStop, stopStarts, StatusOnly, UpOnly, db, agent
<1>16. ASSUME NEW s \in Stops, stopFindsNothing(s) \/ interruptAndWait(s) \/ replayStop(s)
       PROVE  SessionMove
  <2>1. UpOnly
    BY <1>16, OtherMessages DEF stopFindsNothing, interruptAndWait, replayStop, Send, UpOnly
  <2> QED BY <1>0, <1>16, <2>1 DEF stopFindsNothing, interruptAndWait, replayStop, StatusOnly, db, agent
<1>r. ASSUME NEW kind \in {"init", "active", "lost", "result", "stop"}, Receive(kind) PROVE UpOnly
  BY <1>r DEF Receive, UpOnly
<1>17. CASE handleGeminiInit \/ handleClaudeInit
  <2> DEFINE o == Head(up).id
             t == row[o].thread
  <2>1. o \in Turns /\ t \in Threads /\ Receive("init") /\ native' = native /\ confirmed' = confirmed
    BY <1>17, Received DEF handleGeminiInit, handleClaudeInit, Threads, agent
  <2>2. CASE thread' = thread /\ row' = row /\ log' = log
    BY <1>0, <1>r, <2>1, <2>2 DEF StatusOnly
  <2>3. CASE Current(t, o) /\ Initialised(t, o) /\ CommitGeminiRewrite(t, o)
    <3>1. Loads(t, o)
      BY <2>1, <2>3, LoadsTurn
    <3> QED BY <2>1, <3>1 DEF SessionMove
  <2> QED BY <1>17, <2>2, <2>3 DEF handleGeminiInit, handleClaudeInit, CommitClaudeRewrite, CommitGeminiRewrite
<1>18. CASE updateGeminiOwnership \/ updateClaudeOwnership
  <2> DEFINE o == Head(up).id
             t == row[o].thread
  <2>1. /\ t \in Threads /\ UpOnly /\ Same /\ row' = row
    BY <1>18, <1>r DEF updateGeminiOwnership, updateClaudeOwnership, Threads, agent
  <2>2. thread' = thread \/ \E st : thread' = [thread EXCEPT ![t].status = st]
    BY <1>18 DEF updateGeminiOwnership, updateClaudeOwnership, Lost
  <2> QED BY <1>0, <2>1, <2>2 DEF StatusOnly
<1>19. CASE HandleResult
  <2>1. Head(up).id \in Turns
    BY <1>19, Received DEF HandleResult
  <2> QED BY <1>0, <1>r, <1>19, <2>1 DEF HandleResult, StatusOnly, agent
<1>20. CASE completeGeminiInterrupt \/ completeClaudeInterrupt
  <2> DEFINE o == stop[Head(up).id].op
             t == row[o].thread
  <2>1. t \in Threads /\ UpOnly /\ Same /\ Head(up).id \in Stops
    BY <1>20, <1>r, Received DEF completeGeminiInterrupt, completeClaudeInterrupt, Threads, agent
  <2>2. thread' = thread \/ \E st : thread' = [thread EXCEPT ![t].status = st]
    BY <1>20 DEF completeGeminiInterrupt, completeClaudeInterrupt, Lost, InterruptFailed
  <2>3. row' = row \/ (stop[Head(up).id].status # "none" /\ row' = [row EXCEPT ![o].status = "cancelled"])
    BY <1>20 DEF completeGeminiInterrupt, completeClaudeInterrupt
  <2>4. stop[Head(up).id].status # "none" => o \in Turns
    BY <2>1 DEF StopsNameTurns
  <2> QED BY <1>0, <2>1, <2>2, <2>3, <2>4 DEF StatusOnly
<1>21. CASE CompleteGeminiTurn \/ completeClaudeOperation
  <2> DEFINE o == handling.op
             t == row[o].thread
  <2>1. t \in Threads /\ up' = up /\ Same /\ row' = row
    BY <1>21 DEF CompleteGeminiTurn, completeClaudeOperation, Threads, agent
  <2>2. thread' = thread \/ \E st : thread' = [thread EXCEPT ![t].status = st]
    BY <1>21 DEF CompleteGeminiTurn, completeClaudeOperation, CompleteTurn
  <2> QED BY <1>0, <2>1, <2>2 DEF StatusOnly, UpOnly
<1>22. CASE Disconnect \/ Crash
  BY <1>0, <1>22 DEF Disconnect, Crash, StatusOnly, UpOnly, db, agent
<1>23. CASE UNCHANGED vars
  BY <1>0, <1>23 DEF vars, StatusOnly, UpOnly, db, agent
<1> QED BY <1>1, <1>2, <1>3, <1>4, <1>5, <1>6, <1>7, <1>8, <1>9, <1>10, <1>11, <1>12,
           <1>13, <1>14, <1>15, <1>16, <1>17, <1>18, <1>19, <1>20, <1>21, <1>22, <1>23
        DEF Next, User, Gateway, Execution, StopExecution, interruptGeminiTurn, controlGeminiGoal,
            Threads

-----------------------------------------------------------------------------
(* The moves preserve what relates conversations and sessions *)

\* A row that was asked for stays.
LEMMA NoneStays ==
    ASSUME Move
    PROVE  \A p \in Turns : row'[p].status = "none" => row[p].status = "none"
<1>1. ASSUME RowsStay \/ \E o, st : st # "none" /\ RowTo(o, st)
      PROVE  \A p \in Turns : row'[p].status = "none" => row[p].status = "none"
  BY <1>1 DEF RowsStay, RowTo
<1>2. CASE Quiet \/ TornApart \/ (\E t \in Threads : Deleted(t)) \/ (\E t \in GeminiThreads : Dropped(t))
  BY <1>1, <1>2 DEF Quiet, TornApart, Deleted, Dropped
<1>3. ASSUME NEW o \in Turns, Claimed(o) \/ Over(o)
      PROVE  \A p \in Turns : row'[p].status = "none" => row[p].status = "none"
  BY <1>1, <1>3 DEF Claimed, Over, Terminal
<1>4. ASSUME NEW t \in Threads, NEW o \in Turns, Queued(t, o) \/ Stopping(t, o) \/ Released(t, o)
      PROVE  \A p \in Turns : row'[p].status = "none" => row[p].status = "none"
  BY <1>1, <1>4 DEF Queued, Stopping, Released
<1>5. ASSUME NEW t \in Threads, NEW o \in Turns,
             Begun(t, o) \/ Doubtful(t, o) \/ GivenBack(t, o) \/ Recorded(t, o)
      PROVE  \A p \in Turns : row'[p].status = "none" => row[p].status = "none"
  BY <1>1, <1>5 DEF Begun, Doubtful, GivenBack, Recorded
<1> QED BY <1>2, <1>3, <1>4, <1>5 DEF Move

\* A conversation that was deleted stays so.
LEMMA DeletedStays ==
    ASSUME OwnershipTypeOK, TurnsOfThreads, StatusMatchesRow, Move, NEW u \in Threads,
           thread[u].status = "deleted"
    PROVE  thread'[u].status = "deleted"
<1>1. CASE Quiet \/ TornApart \/ (\E t \in GeminiThreads : Dropped(t)) \/ (\E o \in Turns : Claimed(o) \/ Over(o))
  BY <1>1 DEF Quiet, TornApart, Dropped, Claimed, Over, ThreadsStay
<1>2. ASSUME NEW t \in Threads, Deleted(t) PROVE thread'[u].status = "deleted"
  BY <1>2 DEF Deleted, ThreadTo
<1>3. ASSUME NEW t \in Threads, NEW o \in Turns, Queued(t, o) \/ Stopping(t, o) \/ Released(t, o)
      PROVE  thread'[u].status = "deleted"
  BY <1>3 DEF Queued, AtRest, Stopping, Interruptible, Released, ThreadTo, ThreadsStay
<1>4. ASSUME NEW t \in Threads, NEW o \in Turns, Begun(t, o) \/ Doubtful(t, o) \/ Recorded(t, o)
      PROVE  thread'[u].status = "deleted"
  BY <1>4 DEF Begun, Current, Busy, Doubtful, Recorded, ThreadTo, ThreadsStay
<1>5. ASSUME NEW t \in Threads, NEW o \in Turns, GivenBack(t, o)
      PROVE  thread'[u].status = "deleted"
  <2>1. u # t
    BY <1>5, Names DEF GivenBack, StatusMatchesRow
  <2> QED BY <1>5, <2>1 DEF GivenBack, ThreadTo
<1> QED BY <1>1, <1>2, <1>3, <1>4, <1>5 DEF Move

\* The turn at work stays the one its conversation names, which is not deleted
\* meanwhile and takes no other.
LEMMA ActiveTurnsStep ==
    ASSUME OwnershipTypeOK, StatusMatchesRow, ActiveTurns, Move
    PROVE  ActiveTurns'
<1>1. ASSUME NEW t \in Threads, NEW o \in Turns, Queued(t, o), NEW p \in Turns, Active(p)'
      PROVE  p = o
  BY <1>1, ActiveStep DEF Queued, WriteLocked
<1>2. ASSUME NEW t \in Threads, NEW o \in Turns, Queued(t, o) PROVE ActiveTurns'
  <2>1. row'[o].thread = t /\ thread'[t].op = o /\ thread'[t].status = "queued"
    BY <1>2 DEF Queued, ThreadTo
  <2> QED BY <1>1, <1>2, <2>1 DEF ActiveTurns
<1>3. ASSUME NamesStay, \A p \in Turns : Active(p)' => Active(p),
             \A u \in Threads : thread'[u].status = "deleted" =>
               thread[u].status = "deleted" \/ ~Active(thread[u].op)
      PROVE  ActiveTurns'
  BY <1>3 DEF ActiveTurns, NamesStay
<1>4. CASE Quiet \/ TornApart \/ (\E t \in GeminiThreads : Dropped(t))
  BY <1>3, <1>4, ActiveStep DEF Quiet, TornApart, Dropped, ThreadsStay
<1>5. ASSUME NEW o \in Turns, Claimed(o) \/ Over(o) PROVE ActiveTurns'
  <2>1. /\ ThreadsStay /\ NamesStay
        /\ \/ row[o].status = "queued"
           \/ \E st \in Terminal : RowTo(o, st)
        /\ \E st : RowTo(o, st)
    BY <1>5 DEF Claimed, Over
  <2>2. \A p \in Turns : Active(p)' => Active(p)
    <3>1. row[o].status = "queued" => Active(o)
      BY Names DEF Active
    <3> QED BY <2>1, <3>1, ActiveStep DEF Terminal
  <2> QED BY <1>3, <2>1, <2>2 DEF ThreadsStay
<1>6. ASSUME NEW t \in Threads, Deleted(t) PROVE ActiveTurns'
  <2>1. ~Active(thread[t].op)
    <3>1. thread[t].status \in {"idle", "failed", "interrupted"}
      BY <1>6, Columns DEF Deleted, AtRest, OwnershipTypeOK
    <3> QED BY <1>6, <3>1 DEF Deleted, AtRest, RecoveryPending, StatusMatchesRow, Active
  <2>2. \A u \in Threads : thread'[u].status = "deleted" => thread[u].status = "deleted" \/ u = t
    BY <1>6 DEF Deleted, ThreadTo
  <2>3. NamesStay /\ \A p \in Turns : Active(p)' => Active(p)
    BY <1>6, ActiveStep DEF Deleted
  <2> QED BY <1>3, <2>1, <2>2, <2>3
<1>7. ASSUME NEW t \in Threads, NEW o \in Turns, Stopping(t, o) \/ Released(t, o) PROVE ActiveTurns'
  <2>1. /\ NamesStay
        /\ ThreadsStay \/ \E st \in {"interrupted", "interrupting"} : ThreadTo(t, st)
        /\ RowsStay \/ RowTo(o, "cancelled")
    BY <1>7 DEF Stopping, Released
  <2> QED BY <1>3, <2>1, ActiveStep DEF ThreadsStay, ThreadTo
<1>8. ASSUME NEW t \in Threads, NEW o \in Turns,
             Begun(t, o) \/ Doubtful(t, o) \/ GivenBack(t, o) \/ Recorded(t, o)
      PROVE  ActiveTurns'
  <2>1. /\ NamesStay /\ RowsStay
        /\ ThreadsStay \/ \E st \in {"interrupted", "interrupting", "running", "idle", "failed"} : ThreadTo(t, st)
    BY <1>8 DEF Begun, Doubtful, GivenBack, Recorded
  <2> QED BY <1>3, <2>1, ActiveStep DEF ThreadsStay, ThreadTo
<1> QED BY <1>2, <1>4, <1>5, <1>6, <1>7, <1>8 DEF Move

\* What the columns of a conversation and of a turn name.
LEMMA Sessions ==
    ASSUME OwnershipTypeOK
    PROVE  /\ \A t \in Threads : thread[t].session \in Turns \cup {None} /\ log[t] \in Seq(Turns)
           /\ \A o \in Turns : /\ row[o].session \in Turns \cup {None}
                               /\ row[o].edit \in Turns \cup {None} /\ row[o].init \in BOOLEAN
                               /\ Session(o) \in Turns
                               /\ native[o] \in Seq(Turns)
           /\ \A i \in DOMAIN up : /\ up[i] \in Range(up) /\ up[i] \in Messages
                                   /\ up[i].kind = "init" => up[i].id \in Turns
           /\ \A m \in Range(up) : m.kind = "init" => m.id \in Turns /\ m = Message("init", m.id, "none")
<1>1. \A r \in TurnRows : r.session \in Turns \cup {None} /\ r.edit \in Turns \cup {None} /\ r.init \in BOOLEAN
  BY DEF TurnRows
<1>2. \A m \in Messages : m.kind = "init" => m.id \in Turns /\ m = Message("init", m.id, "none")
  BY DEF Messages, Message
<1>3. up \in Seq(Messages) /\ row \in [Turns -> TurnRows] /\ thread \in [Threads -> ThreadRows]
      /\ log \in [Threads -> Seq(Turns)] /\ native \in [Turns -> Seq(Turns)]
  BY DEF OwnershipTypeOK
<1>4. \A m \in Range(up) : m \in Messages
  BY <1>3, QueueLemma
<1>5. \A i \in DOMAIN up : up[i] \in Range(up)
  BY DEF Range
<1>6. \A o \in Turns : Session(o) \in Turns
  BY <1>1, <1>3 DEF Session
<1> QED BY <1>1, <1>2, <1>3, <1>4, <1>5, <1>6, Columns

\* What a step that only sets statuses leaves alone.
LEMMA KeptParts ==
    ASSUME OwnershipTypeOK, OwnershipTypeOK', ColumnsKept, Move, SessionsBegan, BegunOnce
    PROVE  SessionsBegan' /\ BegunOnce' /\ \A p \in Turns : Session(p)' = Session(p)
<1>0. /\ \A p \in Turns : RowKept(p)
      /\ \A u \in Threads : ThreadKept(u)
      /\ UpKept /\ native' = native
  BY DEF ColumnsKept
<1>1. \A p \in Turns : Session(p)' = Session(p)
  BY <1>0 DEF RowKept, Session
<1>2. SessionsBegan'
  <2>1. \A p \in Turns : row[p].status # "none" => row'[p].status # "none"
    BY NoneStays
  <2>2. ASSUME NEW o \in Turns
        PROVE  /\ row'[o].init => row'[o].status # "none"
               /\ row'[o].session # None =>
                    row'[row'[o].session].init /\ row'[row'[o].session].thread = row'[o].thread
               /\ native'[o] # <<>> => row'[o].status # "none"
    BY <1>0, <2>1, Sessions DEF RowKept, SessionsBegan
  <2>3. ASSUME NEW t \in Threads, thread'[t].session # None
        PROVE  row'[thread'[t].session].init /\ row'[thread'[t].session].thread = t
    BY <1>0, <2>3, Sessions DEF RowKept, ThreadKept, SessionsBegan
  <2> QED BY <2>2, <2>3 DEF SessionsBegan
<1>3. BegunOnce'
  <2>1. PICK d \in Nat : \A i \in DOMAIN up' :
           up'[i].kind = "init" => i + d \in DOMAIN up /\ up[i + d] = up'[i]
    BY <1>0 DEF UpKept
  <2>2. ASSUME NEW i \in DOMAIN up', NEW j \in DOMAIN up', up'[i].kind = "init", up'[i] = up'[j]
        PROVE  i = j
    <3>1. i + d = j + d
      BY <2>1, <2>2 DEF BegunOnce
    <3>2. i \in Nat /\ j \in Nat
      <4>1. up' \in Seq(Messages)
        BY DEF OwnershipTypeOK
      <4> QED BY <4>1
    <3> QED BY <3>1, <3>2
  <2>3. ASSUME NEW m \in Range(up'), m.kind = "init"
        PROVE  ~row'[m.id].init /\ row'[m.id].status # "none" /\ m.id \in Range(native'[Session(m.id)'])
    <3>1. m \in Range(up)
      BY <2>1, <2>3, Sessions DEF Range
    <3>2. m.id \in Turns /\ ~row[m.id].init /\ row[m.id].status # "none"
          /\ m.id \in Range(native[Session(m.id)])
      BY <2>3, <3>1, Sessions DEF BegunOnce
    <3> QED BY <1>0, <1>1, <3>2, NoneStays DEF RowKept
  <2>4. ASSUME NEW o \in Turns, row'[o].init PROVE o \in Range(native'[Session(o)'])
    BY <1>0, <1>1, <2>4 DEF RowKept, BegunOnce
  <2> QED BY <2>2, <2>3, <2>4 DEF BegunOnce
<1> QED BY <1>1, <1>2, <1>3

\* Nothing of this is disturbed by a step that only sets statuses, or deletes a
\* conversation.
LEMMA KeptStep ==
    ASSUME SessionInv, OwnershipTypeOK', Move, Kept \/ \E t \in Threads : Clears(t)
    PROVE  SessionsBegan' /\ BegunOnce' /\ LogsFit' /\ QueuedFits' /\ SessionsFit'
<1>0. /\ OwnershipTypeOK /\ TurnsOfThreads /\ StatusMatchesRow
      /\ SessionsBegan /\ BegunOnce /\ LogsFit /\ QueuedFits /\ SessionsFit
  BY DEF SessionInv, OwnershipInv
<1>1. ColumnsKept /\ \A u \in Threads : log'[u] = log[u] \/ (log'[u] = <<>> /\ thread'[u].status = "deleted")
  <2>1. ASSUME NEW t \in Threads, Clears(t), NEW u \in Threads
        PROVE  log'[u] = log[u] \/ (log'[u] = <<>> /\ thread'[u].status = "deleted")
    <3>1. log' = [log EXCEPT ![t] = <<>>] /\ thread'[t].status = "deleted"
      BY <2>1 DEF Clears
    <3>2. log \in [Threads -> Seq(Turns)]
      BY <1>0 DEF OwnershipTypeOK
    <3> QED BY <3>1, <3>2
  <2>2. CASE Kept
    BY <2>2 DEF Kept
  <2>3. ASSUME NEW t \in Threads, Clears(t) PROVE ColumnsKept
    BY <2>3 DEF Clears
  <2> QED BY <2>1, <2>2, <2>3
<1>2. /\ \A p \in Turns : RowKept(p)
      /\ \A u \in Threads : ThreadKept(u)
      /\ native' = native /\ confirmed \subseteq confirmed'
  BY <1>1 DEF ColumnsKept
<1>3. SessionsBegan' /\ BegunOnce' /\ \A p \in Turns : Session(p)' = Session(p)
  BY <1>0, <1>1, KeptParts
<1>4. \A u \in Threads : thread'[u].status # "deleted" => thread[u].status # "deleted" /\ log'[u] = log[u]
  BY <1>0, <1>1, DeletedStays
<1>5. LogsFit'
  <2>1. \A u \in Threads : /\ \A i, j \in DOMAIN log'[u] : log'[u][i] = log'[u][j] => i = j
                           /\ \A o \in Range(log'[u]) : o \in Range(log[u])
    <3>1. DOMAIN <<>> = {} /\ Range(<<>>) = {}
      BY DEF Range
    <3> QED BY <1>0, <1>1, <3>1 DEF LogsFit
  <2>2. \A u \in Threads : \A o \in Range(log[u]) : o \in Turns
    BY <1>0, Sessions DEF Range
  <2> QED BY <1>0, <1>2, <2>1, <2>2 DEF LogsFit, RowKept
<1>6. QueuedFits'
  <2> SUFFICES ASSUME NEW t \in Threads, thread'[t].op # None, thread'[t].status # "deleted",
                      ~row'[thread'[t].op].init
               PROVE  LET o == thread'[t].op
                      IN  /\ row'[o].session = thread'[t].session
                          /\ IF row'[o].edit = None THEN log'[t] # <<>> /\ log'[t][Len(log'[t])] = o
                             ELSE row'[o].edit \in Range(log'[t])
    BY DEF QueuedFits
  <2>1. thread'[t].op = thread[t].op /\ thread'[t].session = thread[t].session
        /\ thread[t].status # "deleted" /\ log'[t] = log[t] /\ thread[t].op \in Turns
    BY <1>0, <1>2, <1>4, Names DEF ThreadKept
  <2> QED BY <1>0, <1>2, <2>1 DEF RowKept, QueuedFits
<1>7. SessionsFit'
  <2> SUFFICES ASSUME NEW t \in Threads, Unconfirmed(t)', thread'[t].status # "deleted"
               PROVE  SessionFits(t)' /\ TurnFits(t)'
    BY DEF SessionsFit
  <2>1. thread'[t].op = thread[t].op /\ thread'[t].session = thread[t].session
        /\ thread[t].status # "deleted" /\ log'[t] = log[t] /\ thread[t].op \in Turns \cup {None}
    BY <1>0, <1>2, <1>4, Names DEF ThreadKept
  <2>2. Unconfirmed(t)
    BY <1>0, <1>2 DEF Unconfirmed, RowKept, OwnershipTypeOK
  <2>3. SessionFits(t) /\ TurnFits(t)
    BY <1>0, <2>1, <2>2 DEF SessionsFit
  <2>4. SessionFits(t)'
    BY <1>2, <2>1, <2>3 DEF SessionFits
  <2>5. ASSUME NEW o \in Turns PROVE Committed(t, o)' = Committed(t, o)
    <3>1. row'[o].edit = row[o].edit
      BY <1>2 DEF RowKept
    <3> QED BY <2>1, <3>1 DEF Committed, Before
  <2>6. TurnFits(t)'
    BY <1>2, <1>3, <2>1, <2>3, <2>5 DEF TurnFits, RowKept
  <2> QED BY <2>4, <2>6
<1> QED BY <1>3, <1>5, <1>6, <1>7

\* A request leaves alone what others remember: nothing names its turn yet.
LEMMA AsksStep ==
    ASSUME SessionInv, OwnershipTypeOK', NEW t \in Threads, NEW o \in Turns,
           NEW e \in Turns \cup {None}, Asks(t, o, e)
    PROVE  SessionsBegan' /\ BegunOnce' /\ LogsFit' /\ QueuedFits' /\ SessionsFit'
<1>0. /\ OwnershipTypeOK /\ TurnsOfThreads /\ StatusMatchesRow
      /\ SessionsBegan /\ BegunOnce /\ LogsFit /\ QueuedFits /\ SessionsFit
  BY DEF SessionInv, OwnershipInv
<1>1. /\ row[o].status = "none" /\ row[o].thread = None /\ ~row[o].init
      /\ AtRest(t) /\ thread[t].status # "deleted"
      /\ e # None => e \in Range(log[t])
      /\ row'[o].status = "queued" /\ row'[o].thread = t /\ row'[o].session = thread[t].session
      /\ row'[o].edit = e /\ ~row'[o].init
      /\ \A p \in Turns \ {o} : row'[p] = row[p]
      /\ thread'[t].op = o /\ thread'[t].session = thread[t].session
      /\ \A u \in Threads \ {t} : thread'[u] = thread[u]
      /\ up' = up /\ native' = native /\ confirmed' = confirmed
  BY DEF Asks, NoRow, AtRest
<1>2. /\ \A u \in Threads : log'[u] = IF u = t /\ e = None THEN Append(log[u], o) ELSE log[u]
  <2>1. log \in [Threads -> Seq(Turns)]
    BY <1>0 DEF OwnershipTypeOK
  <2> QED BY <2>1 DEF Asks
<1>n. None \notin Turns /\ None \notin Threads
  BY <1>0, Names
\* nobody names o
<1>3. /\ native[o] = <<>>
      /\ \A p \in Turns : row[p].session # o
      /\ \A u \in Threads : thread[u].session # o /\ thread[u].op # o /\ o \notin Range(log[u])
      /\ \A m \in Range(up) : m.kind = "init" => m.id # o
  <2>1. native[o] = <<>> /\ \A p \in Turns : row[p].session # o
    BY <1>0, <1>1, <1>n DEF SessionsBegan
  <2>2. ASSUME NEW u \in Threads PROVE thread[u].session # o /\ thread[u].op # o /\ o \notin Range(log[u])
    BY <1>0, <1>1, <1>n DEF SessionsBegan, TurnsOfThreads, LogsFit
  <2>3. \A m \in Range(up) : m.kind = "init" => m.id # o
    BY <1>0, <1>1 DEF BegunOnce
  <2> QED BY <2>1, <2>2, <2>3
<1>4. \A p \in Turns \ {o} : Session(p)' = Session(p)
  BY <1>1 DEF Session
<1>5. SessionsBegan'
  <2>1. ASSUME NEW p \in Turns
        PROVE  /\ row'[p].init => row'[p].status # "none"
               /\ row'[p].session # None =>
                    row'[row'[p].session].init /\ row'[row'[p].session].thread = row'[p].thread
               /\ native'[p] # <<>> => row'[p].status # "none"
    <3>1. CASE p = o
      <4>1. thread[t].session # None =>
              /\ thread[t].session \in Turns \ {o} /\ row[thread[t].session].init
              /\ row[thread[t].session].thread = t
        BY <1>0, <1>3, Sessions DEF SessionsBegan
      <4> QED BY <1>1, <1>3, <3>1, <4>1
    <3>2. CASE p # o
      <4>1. row'[p] = row[p] /\ row[p].session \in (Turns \ {o}) \cup {None}
        BY <1>0, <1>1, <1>3, <3>2, Sessions
      <4>2. /\ row[p].init => row[p].status # "none"
            /\ row[p].session # None => row[row[p].session].init /\ row[row[p].session].thread = row[p].thread
            /\ native[p] # <<>> => row[p].status # "none"
        BY <1>0 DEF SessionsBegan
      <4>3. row[p].session # None => row'[row[p].session] = row[row[p].session]
        BY <1>1, <4>1
      <4> QED BY <1>1, <4>1, <4>2, <4>3
    <3> QED BY <3>1, <3>2
  <2>2. ASSUME NEW u \in Threads, thread'[u].session # None
        PROVE  row'[thread'[u].session].init /\ row'[thread'[u].session].thread = u
    <3>1. thread'[u].session = thread[u].session
      BY <1>1
    <3>2. thread[u].session \in Turns \ {o}
      BY <1>0, <1>3, <2>2, <3>1, Sessions
    <3> QED BY <1>0, <1>1, <2>2, <3>1, <3>2 DEF SessionsBegan
  <2> QED BY <2>1, <2>2 DEF SessionsBegan
<1>6. BegunOnce'
  <2>1. ASSUME NEW m \in Range(up'), m.kind = "init"
        PROVE  ~row'[m.id].init /\ row'[m.id].status # "none" /\ m.id \in Range(native'[Session(m.id)'])
    <3>1. m.id \in Turns \ {o} /\ m \in Range(up)
      BY <1>0, <1>1, <1>3, <2>1, Sessions
    <3> QED BY <1>0, <1>1, <1>4, <2>1, <3>1 DEF BegunOnce
  <2>2. ASSUME NEW p \in Turns, row'[p].init PROVE p \in Range(native'[Session(p)'])
    <3>1. p # o
      BY <1>1, <2>2
    <3> QED BY <1>0, <1>1, <1>4, <2>2, <3>1 DEF BegunOnce
  <2>3. \A i, j \in DOMAIN up' : up'[i].kind = "init" /\ up'[i] = up'[j] => i = j
    BY <1>0, <1>1 DEF BegunOnce
  <2> QED BY <2>1, <2>2, <2>3 DEF BegunOnce
<1>7. LogsFit'
  <2> SUFFICES ASSUME NEW u \in Threads
               PROVE  /\ Distinct(log'[u])
                      /\ \A p \in Range(log'[u]) : row'[p].thread = u /\ (row'[p].edit = None \/ row'[p].init)
    BY DEF LogsFit, Distinct
  <2>1. /\ Distinct(log[u])
        /\ \A p \in Range(log[u]) :
             /\ p \in Turns \ {o} /\ row[p].thread = u /\ (row[p].edit = None \/ row[p].init)
             /\ row'[p] = row[p]
    <3>1. \A p \in Range(log[u]) : p \in Turns \ {o}
      BY <1>0, <1>3, Sessions DEF Range
    <3> QED BY <1>0, <1>1, <3>1 DEF LogsFit, Distinct
  <2>2. CASE u = t /\ e = None
    <3>1. log'[u] = Append(log[u], o) /\ log[u] \in Seq(Turns)
      BY <1>0, <1>2, <2>2, Sessions
    <3>2. Range(log'[u]) = Range(log[u]) \cup {o}
      BY <3>1, QueueLemma
    <3>3. Distinct(log'[u])
      BY <1>3, <2>1, <3>1, AppendDistinct
    <3> QED BY <1>1, <2>1, <2>2, <3>2, <3>3
  <2>3. CASE ~(u = t /\ e = None)
    BY <1>2, <2>1, <2>3
  <2> QED BY <2>2, <2>3
<1>8. QueuedFits'
  <2> SUFFICES ASSUME NEW u \in Threads, NEW p, p = thread'[u].op,
                      p # None, thread'[u].status # "deleted", ~row'[p].init
               PROVE  /\ row'[p].session = thread'[u].session
                      /\ IF row'[p].edit = None THEN log'[u] # <<>> /\ log'[u][Len(log'[u])] = p
                         ELSE row'[p].edit \in Range(log'[u])
    BY DEF QueuedFits
  <2>1. CASE u = t
    <3>1. CASE e = None
      <4>1. log'[t] = Append(log[t], o) /\ log[t] \in Seq(Turns)
        BY <1>0, <1>2, <3>1, Sessions
      <4>2. log'[t] # <<>> /\ log'[t][Len(log'[t])] = o
        BY <4>1
      <4> QED BY <1>1, <2>1, <3>1, <4>2
    <3>2. CASE e # None
      BY <1>1, <1>2, <2>1, <3>2
    <3> QED BY <3>1, <3>2
  <2>2. CASE u # t
    <3>1. thread'[u].op = thread[u].op /\ thread'[u].session = thread[u].session
      BY <1>1, <2>2
    <3>2. p \in Turns \ {o}
      BY <1>0, <1>3, <3>1, Names
    <3>3. thread'[u].status = thread[u].status /\ log'[u] = log[u]
      BY <1>1, <1>2, <2>2
    <3> QED BY <1>0, <1>1, <3>1, <3>2, <3>3 DEF QueuedFits
  <2> QED BY <2>1, <2>2
<1>9. SessionsFit'
  <2> SUFFICES ASSUME NEW u \in Threads, Unconfirmed(u)', thread'[u].status # "deleted"
               PROVE  SessionFits(u)' /\ TurnFits(u)'
    BY DEF SessionsFit
  <2>1. Unconfirmed(u)
    <3>1. \A p \in confirmed : p \in Turns
      BY <1>0 DEF OwnershipTypeOK
    <3>2. \A p \in Turns : row[p].thread = u => row'[p].thread = u
      BY <1>1, <1>n
    <3> QED BY <1>1, <3>1, <3>2 DEF Unconfirmed
  <2>2. thread[u].status # "deleted" /\ (u # t => thread'[u].status = thread[u].status)
    BY <1>1
  <2>3. SessionFits(u) /\ TurnFits(u)
    BY <1>0, <2>1, <2>2 DEF SessionsFit
  <2>4. thread'[u].session = thread[u].session /\ thread[u].session \in (Turns \ {o}) \cup {None}
    BY <1>0, <1>1, <1>3, Sessions
  <2>5. SessionFits(u)'
    <3>1. CASE u = t /\ e = None /\ thread[u].session # None
      <4>1. Within(native[thread[u].session], log[u]) /\ log[u] \in Seq(Turns)
            /\ native[thread[u].session] \in Seq(Turns)
        BY <1>0, <2>3, <2>4, <3>1, Sessions DEF SessionFits
      <4>2. Within(native[thread[u].session], Append(log[u], o))
        BY <1>3, <4>1, WithinAdded
      <4> QED BY <1>1, <1>2, <2>4, <3>1, <4>2 DEF SessionFits
    <3>2. CASE ~(u = t /\ e = None)
      BY <1>1, <1>2, <2>3, <2>4, <3>2 DEF SessionFits
    <3>3. CASE thread[u].session = None
      BY <2>4, <3>3 DEF SessionFits
    <3> QED BY <3>1, <3>2, <3>3
  <2>6. TurnFits(u)'
    <3>1. CASE u = t
      <4>1. CASE e # None \/ thread[t].session = None
        <5>1. Session(o)' = o
          BY <1>1, <4>1 DEF Session
        <5> QED BY <1>1, <1>3, <3>1, <5>1 DEF TurnFits
      <4>2. CASE e = None /\ thread[t].session # None
        <5>1. Session(o)' = thread'[t].session /\ Committed(t, o)' = log'[t]
          BY <1>1, <4>2 DEF Session, Committed
        <5> QED BY <1>1, <2>5, <3>1, <4>2, <5>1 DEF TurnFits, SessionFits
      <4> QED BY <4>1, <4>2
    <3>2. CASE u # t
      <4>1. thread'[u].op = thread[u].op /\ thread[u].op \in (Turns \ {o}) \cup {None}
            /\ log'[u] = log[u]
        BY <1>0, <1>1, <1>2, <1>3, <3>2, Names
      <4>2. ASSUME NEW p \in Turns \ {o} PROVE Committed(u, p)' = Committed(u, p)
        <5>1. row'[p].edit = row[p].edit
          BY <1>1
        <5> QED BY <4>1, <5>1 DEF Committed, Before
      <4> QED BY <1>1, <1>4, <2>3, <4>1, <4>2 DEF TurnFits
    <3> QED BY <3>1, <3>2
  <2> QED BY <2>5, <2>6
<1> QED BY <1>5, <1>6, <1>7, <1>8, <1>9


\* The init event makes the conversation show what the session remembers.
LEMMA LoadsStep ==
    ASSUME SessionInv, OwnershipTypeOK', Move, NEW t \in Threads, NEW o \in Turns, Loads(t, o)
    PROVE  SessionsBegan' /\ BegunOnce' /\ LogsFit' /\ QueuedFits' /\ SessionsFit'
<1>0. /\ OwnershipTypeOK /\ TurnsOfThreads /\ StatusMatchesRow
      /\ SessionsBegan /\ BegunOnce /\ LogsFit /\ QueuedFits /\ SessionsFit
  BY DEF SessionInv, OwnershipInv
<1>1. /\ up # <<>> /\ Head(up).kind = "init" /\ Head(up).id = o /\ up' = Tail(up)
      /\ row[o].thread = t /\ thread[t].op = o /\ thread[t].status # "deleted"
      /\ thread'[t].op = o /\ thread'[t].session = Session(o)
      /\ \A u \in Threads \ {t} : thread'[u].op = thread[u].op /\ thread'[u].session = thread[u].session
      /\ native' = native /\ confirmed' = confirmed
  BY DEF Loads, Current, Busy, ThreadKept
<1>2. \A p \in Turns :
         /\ row'[p].thread = row[p].thread /\ row'[p].session = row[p].session
         /\ row'[p].edit = row[p].edit /\ row'[p].status = row[p].status
         /\ row'[p].init = IF p = o THEN TRUE ELSE row[p].init
  <2>1. row' = [row EXCEPT ![o].init = TRUE]
    BY DEF Loads
  <2>2. ASSUME NEW r \in TurnRows
        PROVE  /\ [r EXCEPT !.init = TRUE].thread = r.thread
               /\ [r EXCEPT !.init = TRUE].session = r.session
               /\ [r EXCEPT !.init = TRUE].edit = r.edit
               /\ [r EXCEPT !.init = TRUE].status = r.status
               /\ [r EXCEPT !.init = TRUE].init = TRUE
    BY DEF TurnRows
  <2> QED BY <1>0, <2>1, <2>2 DEF OwnershipTypeOK
<1>n. None \notin Turns /\ None \notin Threads
  BY <1>0, Names
\* the event is the only one of its turn
<1>3. 1 \in DOMAIN up /\ up[1] = Message("init", o, "none") /\ up[1] \in Range(up)
  <2>1. 1 \in DOMAIN up /\ up[1] = Head(up)
    BY <1>0, <1>1 DEF OwnershipTypeOK
  <2> QED BY <1>0, <1>1, <2>1, Sessions
<1>4. ~row[o].init /\ row[o].status # "none" /\ o \in Range(native[Session(o)])
  BY <1>0, <1>1, <1>3 DEF BegunOnce, Message
<1>5. \A i \in DOMAIN up' : /\ i + 1 \in DOMAIN up /\ up'[i] = up[i + 1] /\ i \in Nat \ {0}
                            /\ up'[i] \in Range(up)
  BY <1>0, <1>1 DEF OwnershipTypeOK, Range
<1>6. \A i \in DOMAIN up' : up'[i].kind = "init" => up'[i].id \in Turns \ {o}
  <2> SUFFICES ASSUME NEW i \in DOMAIN up', up'[i].kind = "init", up'[i].id = o PROVE FALSE
    BY <1>0, <1>5, Sessions
  <2>1. up[i + 1] = up[1] /\ up[1].kind = "init"
    BY <1>0, <1>3, <1>5, Sessions DEF Message
  <2>2. 1 = i + 1
    BY <1>0, <1>3, <1>5, <2>1 DEF BegunOnce
  <2> QED BY <1>5, <2>2
<1>7. \A p \in Turns : Session(p)' = Session(p)
  BY <1>2 DEF Session
\* what the conversation shows
<1>8. /\ log'[t] = Committed(t, o) /\ \A u \in Threads \ {t} : log'[u] = log[u]
      /\ row[o].edit # None => /\ row[o].edit \in Range(log[t]) /\ o \notin Range(log[t])
                               /\ Committed(t, o) = Cut(log[t], row[o].edit, o)
      /\ row[o].edit = None => Committed(t, o) = log[t]
  <2>1. log \in [Threads -> Seq(Turns)] /\ log[t] \in Seq(Turns)
    BY <1>0 DEF OwnershipTypeOK
  <2>2. CASE row[o].edit = None
    <3>1. None \notin Range(log[t])
      BY <1>n, <2>1 DEF Range
    <3>2. log' = log
      BY <2>2, <3>1 DEF Loads, CommitGeminiRewrite
    <3> QED BY <2>2, <3>2 DEF Committed
  <2>3. CASE row[o].edit # None
    <3>1. row[o].edit \in Range(log[t])
      BY <1>0, <1>1, <1>4, <1>n, <2>3 DEF QueuedFits
    <3>2. log' = [log EXCEPT ![t] = Append(Before(log[t], row[o].edit), o)]
      BY <3>1 DEF Loads, CommitGeminiRewrite
    <3>3. o \notin Range(log[t])
      BY <1>0, <1>4, <2>3 DEF LogsFit
    <3> QED BY <2>1, <2>3, <3>1, <3>2, <3>3 DEF Committed, Cut
  <2> QED BY <2>2, <2>3
<1>9. SessionsBegan'
  <2>1. ASSUME NEW p \in Turns
        PROVE  /\ row'[p].init => row'[p].status # "none"
               /\ row'[p].session # None =>
                    row'[row'[p].session].init /\ row'[row'[p].session].thread = row'[p].thread
               /\ native'[p] # <<>> => row'[p].status # "none"
    <3>1. /\ row[p].init => row[p].status # "none"
          /\ row[p].session # None => row[row[p].session].init /\ row[row[p].session].thread = row[p].thread
          /\ native[p] # <<>> => row[p].status # "none"
          /\ row[p].session \in Turns \cup {None}
      BY <1>0, Sessions DEF SessionsBegan
    <3>2. row'[p].init => row[p].status # "none"
      BY <1>2, <1>4, <3>1
    <3>3. row[p].session # None => row'[row[p].session].init /\ row'[row[p].session].thread = row[p].thread
      BY <1>2, <3>1
    <3> QED BY <1>1, <1>2, <3>1, <3>2, <3>3
  <2>2. ASSUME NEW u \in Threads, thread'[u].session # None
        PROVE  row'[thread'[u].session].init /\ row'[thread'[u].session].thread = u
    <3>1. CASE u = t
      <4>1. CASE Session(o) = o
        BY <1>1, <1>2, <3>1, <4>1
      <4>2. CASE Session(o) # o
        <5>1. Session(o) = row[o].session /\ row[o].session # None /\ row[o].session \in Turns
          BY <1>0, <4>2, Sessions DEF Session
        <5>2. row[row[o].session].init /\ row[row[o].session].thread = t
          BY <1>0, <1>1, <5>1 DEF SessionsBegan
        <5>3. row'[row[o].session].init /\ row'[row[o].session].thread = t
          BY <1>2, <5>1, <5>2
        <5> QED BY <1>1, <3>1, <5>1, <5>3
      <4> QED BY <4>1, <4>2
    <3>2. CASE u # t
      <4>1. thread'[u].session = thread[u].session /\ thread[u].session \in Turns
        BY <1>0, <1>1, <2>2, <3>2, Sessions
      <4>2. row[thread[u].session].init /\ row[thread[u].session].thread = u
        BY <1>0, <1>n, <4>1 DEF SessionsBegan
      <4>3. row'[thread[u].session].init /\ row'[thread[u].session].thread = u
        BY <1>2, <4>1, <4>2
      <4> QED BY <4>1, <4>3
    <3> QED BY <3>1, <3>2
  <2> QED BY <2>1, <2>2 DEF SessionsBegan
<1>10. BegunOnce'
  <2>1. ASSUME NEW i \in DOMAIN up', NEW j \in DOMAIN up', up'[i].kind = "init", up'[i] = up'[j]
        PROVE  i = j
    <3>1. i + 1 = j + 1
      BY <1>0, <1>5, <2>1 DEF BegunOnce
    <3> QED BY <1>5, <3>1
  <2>2. ASSUME NEW m \in Range(up'), m.kind = "init"
        PROVE  ~row'[m.id].init /\ row'[m.id].status # "none" /\ m.id \in Range(native'[Session(m.id)'])
    <3>1. m \in Range(up) /\ m.id \in Turns \ {o}
      BY <1>5, <1>6, <2>2 DEF Range
    <3> QED BY <1>0, <1>1, <1>2, <1>7, <2>2, <3>1 DEF BegunOnce
  <2>3. ASSUME NEW p \in Turns, row'[p].init PROVE p \in Range(native'[Session(p)'])
    <3>1. row[p].init \/ p = o
      BY <1>2, <2>3
    <3>2. p \in Range(native[Session(p)])
      BY <1>0, <1>4, <3>1 DEF BegunOnce
    <3> QED BY <1>1, <1>7, <3>2
  <2> QED BY <2>1, <2>2, <2>3 DEF BegunOnce
<1>11. LogsFit'
  <2> SUFFICES ASSUME NEW u \in Threads
               PROVE  /\ Distinct(log'[u])
                      /\ \A p \in Range(log'[u]) : row'[p].thread = u /\ (row'[p].edit = None \/ row'[p].init)
    BY DEF LogsFit, Distinct
  <2>1. /\ Distinct(log[u]) /\ log[u] \in Seq(Turns)
        /\ \A p \in Range(log[u]) :
             p \in Turns /\ row[p].thread = u /\ (row[p].edit = None \/ row[p].init)
    BY <1>0, Sessions DEF LogsFit, Distinct, Range
  <2>2. \A p \in Range(log[u]) : row'[p].thread = u /\ (row'[p].edit = None \/ row'[p].init)
    BY <1>2, <2>1
  <2>3. CASE u = t /\ row[o].edit # None
    <3>1. Distinct(log'[u]) /\ Range(log'[u]) \subseteq Range(log[u]) \cup {o}
      BY <1>8, <2>1, <2>3, ReplacedDistinct
    <3>2. row'[o].thread = u /\ row'[o].init
      BY <1>1, <1>2, <2>3
    <3> QED BY <2>2, <3>1, <3>2
  <2>4. CASE ~(u = t /\ row[o].edit # None)
    BY <1>8, <2>1, <2>2, <2>4
  <2> QED BY <2>3, <2>4
\* the other conversations
<1>12. ASSUME NEW u \in Threads \ {t}
       PROVE  /\ thread[u].op # o /\ thread[u].op \in Turns \cup {None}
              /\ thread'[u].status # "deleted" => thread[u].status # "deleted"
  BY <1>0, <1>1, <1>n, Names, DeletedStays DEF TurnsOfThreads
<1>13. QueuedFits'
  <2> SUFFICES ASSUME NEW u \in Threads, NEW p, p = thread'[u].op,
                      p # None, thread'[u].status # "deleted", ~row'[p].init
               PROVE  /\ row'[p].session = thread'[u].session
                      /\ IF row'[p].edit = None THEN log'[u] # <<>> /\ log'[u][Len(log'[u])] = p
                         ELSE row'[p].edit \in Range(log'[u])
    BY DEF QueuedFits
  <2>1. u # t
    BY <1>1, <1>2
  <2>2. p = thread[u].op /\ p \in Turns /\ thread[u].status # "deleted" /\ p # o
        /\ thread'[u].session = thread[u].session /\ log'[u] = log[u]
    <3>1. thread[u].op \in Turns \cup {None} /\ thread[u].op # o
          /\ (thread'[u].status # "deleted" => thread[u].status # "deleted")
      BY <1>12, <2>1
    <3> QED BY <1>1, <1>8, <2>1, <3>1
  <2>3. row'[p].edit = row[p].edit /\ row'[p].session = row[p].session /\ ~row[p].init
    BY <1>2, <2>2
  <2>4. /\ row[p].session = thread[u].session
        /\ IF row[p].edit = None THEN log[u] # <<>> /\ log[u][Len(log[u])] = p
           ELSE row[p].edit \in Range(log[u])
    BY <1>0, <1>n, <2>2, <2>3 DEF QueuedFits
  <2> QED BY <2>2, <2>3, <2>4
<1>14. SessionsFit'
  <2> SUFFICES ASSUME NEW u \in Threads, Unconfirmed(u)', thread'[u].status # "deleted"
               PROVE  SessionFits(u)' /\ TurnFits(u)'
    BY DEF SessionsFit
  <2>1. Unconfirmed(u)
    <3>1. \A p \in confirmed : p \in Turns /\ row'[p].thread = row[p].thread
      BY <1>0, <1>2 DEF OwnershipTypeOK
    <3> QED BY <1>1, <3>1 DEF Unconfirmed
  <2>2. thread[u].status # "deleted"
    BY <1>1, <1>12
  <2>3. SessionFits(u) /\ TurnFits(u)
    BY <1>0, <2>1, <2>2 DEF SessionsFit
  <2>4. CASE u = t
    <3>1. native[Session(o)] # <<>>
      BY <1>4 DEF Range
    <3>2. Within(native[Session(o)], Committed(t, o))
      BY <1>1, <1>4, <1>n, <2>3, <2>4, <3>1 DEF TurnFits
    <3> QED BY <1>1, <1>2, <1>8, <2>4, <3>2 DEF SessionFits, TurnFits
  <2>5. CASE u # t
    <3>1. thread'[u].op = thread[u].op /\ thread'[u].session = thread[u].session /\ log'[u] = log[u]
          /\ thread[u].op \in (Turns \ {o}) \cup {None}
      BY <1>1, <1>8, <1>12, <2>5
    <3>2. SessionFits(u)'
      BY <1>1, <2>3, <3>1 DEF SessionFits
    <3>3. ASSUME NEW p \in Turns PROVE Committed(u, p)' = Committed(u, p)
      <4>1. row'[p].edit = row[p].edit
        BY <1>2
      <4> QED BY <3>1, <4>1 DEF Committed, Before
    <3>4. \A p \in Turns \ {o} : row'[p].init = row[p].init
      BY <1>2
    <3> QED BY <1>1, <1>7, <2>3, <3>1, <3>2, <3>3, <3>4 DEF TurnFits
  <2> QED BY <2>4, <2>5
<1> QED BY <1>9, <1>10, <1>11, <1>13, <1>14

\* A turn that begins adds its prompt to a session that nobody else changes.
LEMMA BeginsStep ==
    ASSUME SessionInv, OwnershipTypeOK', NEW o \in Turns, startProcess(o)
    PROVE  SessionsBegan' /\ BegunOnce' /\ LogsFit' /\ QueuedFits' /\ SessionsFit'
<1>0. /\ OwnershipTypeOK /\ OneLife /\ ReleasedOnlyWhenOver /\ TurnsOfThreads
      /\ SessionsBegan /\ BegunOnce /\ LogsFit /\ ActiveTurns /\ QueuedFits /\ SessionsFit
  BY DEF SessionInv, OwnershipInv
<1> DEFINE S == Session(o)
           N == Append(Before(Saved(o), row[o].edit), o)
<1>1. /\ o \in executing /\ o \notin Range(native[S])
      /\ row[o].edit \in Range(Saved(o)) \cup {None}
      /\ native' = [native EXCEPT ![S] = N]
      /\ up' = Append(up, Message("init", o, "none"))
      /\ thread' = thread /\ row' = row /\ log' = log /\ confirmed' = confirmed
  BY DEF startProcess, Send, db
<1>n. None \notin Turns /\ None \notin Threads
  BY <1>0, Names
\* the turn has not begun before
<1>2. /\ row[o].status \notin {"none", "queued"} /\ ~row[o].init
      /\ \A m \in Range(up) : m.kind = "init" => m.id # o
  BY <1>0, <1>1 DEF OneLife, BegunOnce
<1>3. /\ S \in Turns /\ native \in [Turns -> Seq(Turns)] /\ up \in Seq(Messages)
      /\ \A p \in Turns : Session(p)' = Session(p)
  BY <1>0, <1>1, Sessions DEF OwnershipTypeOK, Session
<1>4. /\ S # o => /\ row[o].edit = None /\ row[o].session = S
                  /\ N = Append(native[S], o) /\ row[S].init /\ row[S].thread = row[o].thread
      /\ S = o => row[o].edit # None \/ (row[o].session = None /\ N = Append(<<>>, o))
  <2>1. \A s : Before(s, None) = s
    BY DEF Before
  <2>2. CASE row[o].edit # None
    BY <2>2 DEF Session
  <2>3. CASE row[o].edit = None /\ row[o].session = None
    <3>1. S = o /\ Saved(o) = <<>>
      BY <2>3 DEF Session, Saved
    <3> QED BY <2>1, <2>3, <3>1
  <2>4. CASE row[o].edit = None /\ row[o].session # None
    <3>1. S = row[o].session /\ Saved(o) = native[S]
      BY <2>4 DEF Session, Saved
    <3>2. row[S].init /\ row[S].thread = row[o].thread
      BY <1>0, <2>4, <3>1 DEF SessionsBegan
    <3>3. S # o
      BY <1>2, <3>2
    <3> QED BY <2>1, <2>4, <3>1, <3>2, <3>3
  <2> QED BY <2>2, <2>3, <2>4
<1>5. o \in Range(N) /\ N # <<>> /\ (S # o => \A p \in Range(native[S]) : p \in Range(N))
  <2>1. N \in Seq(Turns)
    <3>1. native'[S] = N /\ native' \in [Turns -> Seq(Turns)]
      BY <1>1, <1>3 DEF OwnershipTypeOK
    <3> QED BY <1>3, <3>1
  <2>2. Before(Saved(o), row[o].edit) \in Seq(Turns)
    <3>1. Saved(o) \in Seq(Turns)
      <4>1. row[o].session \in Turns \cup {None}
        BY <1>0, Sessions
      <4> QED BY <1>3, <4>1 DEF Saved
    <3> QED BY <1>1, <3>1, BeforeType
  <2>3. Range(N) = Range(Before(Saved(o), row[o].edit)) \cup {o}
    BY <2>2, QueueLemma
  <2>4. S # o => Range(N) = Range(native[S]) \cup {o}
    <3>1. native[S] \in Seq(Turns)
      BY <1>3
    <3>2. Range(Append(native[S], o)) = Range(native[S]) \cup {o}
      BY <3>1, QueueLemma
    <3> QED BY <1>4, <3>2
  <2> QED BY <2>2, <2>3, <2>4
<1> HIDE DEF N
<1>6. \A p \in Turns : native'[p] = IF p = S THEN N ELSE native[p]
  BY <1>1, <1>3
\* nobody else uses a session that the turn creates
<1>7. S = o => \A p \in Turns : Session(p) = o => p = o
  BY <1>0, <1>2, <1>n DEF SessionsBegan, Session
<1>8. SessionsBegan'
  <2>1. ASSUME NEW p \in Turns, native'[p] # <<>> PROVE row[p].status # "none"
    <3>1. CASE p = S
      BY <1>0, <1>2, <1>3, <1>4, <3>1 DEF SessionsBegan
    <3>2. CASE p # S
      BY <1>0, <1>6, <2>1, <3>2 DEF SessionsBegan
    <3> QED BY <3>1, <3>2
  <2> QED BY <1>0, <1>1, <2>1 DEF SessionsBegan
<1>9. BegunOnce'
  <2>0. /\ DOMAIN up' = 1..(Len(up) + 1) /\ up'[Len(up) + 1] = Message("init", o, "none")
        /\ \A i \in 1..Len(up) : up'[i] = up[i] /\ i \in DOMAIN up /\ up[i] \in Range(up)
        /\ Len(up) \in Nat
    BY <1>1, <1>3 DEF Range
  <2>1. ASSUME NEW i \in DOMAIN up', NEW j \in DOMAIN up', up'[i].kind = "init", up'[i] = up'[j]
        PROVE  i = j
    <3>1. CASE i = Len(up) + 1 /\ j = Len(up) + 1
      BY <3>1
    <3>2. CASE i # Len(up) + 1 /\ j # Len(up) + 1
      <4>1. i \in 1..Len(up) /\ j \in 1..Len(up)
        BY <2>0, <3>2
      <4> QED BY <1>0, <2>0, <2>1, <4>1 DEF BegunOnce
    <3>3. ASSUME NEW k \in 1..Len(up), up'[k] = Message("init", o, "none") PROVE FALSE
      BY <1>2, <2>0, <3>3 DEF Message
    <3> QED BY <2>0, <2>1, <3>1, <3>2, <3>3
  <2>2. \A p \in Turns : p = o \/ p \in Range(native[Session(p)]) => p \in Range(native'[Session(p)'])
    <3>1. o \in Range(native'[Session(o)'])
      BY <1>3, <1>5, <1>6
    <3>2. ASSUME NEW p \in Turns \ {o}, p \in Range(native[Session(p)])
          PROVE  p \in Range(native'[Session(p)'])
      <4>1. Session(p) \in Turns /\ Session(p)' = Session(p)
        BY <1>0, <1>3, Sessions
      <4>2. CASE Session(p) = S
        BY <1>5, <1>6, <1>7, <3>2, <4>1, <4>2
      <4>3. CASE Session(p) # S
        BY <1>6, <3>2, <4>1, <4>3
      <4> QED BY <4>2, <4>3
    <3> QED BY <3>1, <3>2
  <2>3. ASSUME NEW m \in Range(up'), m.kind = "init"
        PROVE  ~row'[m.id].init /\ row'[m.id].status # "none" /\ m.id \in Range(native'[Session(m.id)'])
    <3>1. CASE m = Message("init", o, "none")
      BY <1>1, <1>2, <2>2, <3>1 DEF Message
    <3>2. CASE m \in Range(up)
      <4>1. m.id \in Turns /\ ~row[m.id].init /\ row[m.id].status # "none"
            /\ m.id \in Range(native[Session(m.id)])
        BY <1>0, <2>3, <3>2, Sessions DEF BegunOnce
      <4> QED BY <1>1, <2>2, <4>1
    <3>3. m = Message("init", o, "none") \/ m \in Range(up)
      <4>1. PICK i \in DOMAIN up' : m = up'[i]
        BY Zenon DEF Range
      <4> QED BY <2>0, <4>1
    <3> QED BY <3>1, <3>2, <3>3
  <2>4. ASSUME NEW p \in Turns, row'[p].init PROVE p \in Range(native'[Session(p)'])
    BY <1>0, <1>1, <2>2, <2>4 DEF BegunOnce
  <2> QED BY <2>1, <2>3, <2>4 DEF BegunOnce
<1>10. LogsFit' /\ QueuedFits'
  BY <1>0, <1>1 DEF LogsFit, QueuedFits
\* what the conversation of the turn shows, or will show
<1>11. ASSUME NEW u \in Threads, Unconfirmed(u), thread[u].status # "deleted", row[o].thread = u
       PROVE  /\ thread[u].op = o /\ Within(N, Committed(u, o))
              /\ S # o => thread[u].session = S /\ Committed(u, o) = log[u]
  <2>1. Active(o)
    <3>1. o \notin confirmed
      BY <1>11 DEF Unconfirmed
    <3>2. row[o].status \notin Terminal
      BY <1>0, <1>1, <3>1 DEF ReleasedOnlyWhenOver
    <3>3. row[o].status \in {"none", "queued", "delivered"} \cup Terminal
      BY <1>0, Columns DEF OwnershipTypeOK
    <3> QED BY <1>2, <1>n, <3>2, <3>3 DEF Active
  <2>2. thread[u].op = o
    BY <1>0, <1>11, <2>1 DEF ActiveTurns
  <2>3. /\ row[o].session = thread[u].session
        /\ IF row[o].edit = None THEN log[u] # <<>> /\ log[u][Len(log[u])] = o
           ELSE row[o].edit \in Range(log[u])
    BY <1>0, <1>2, <1>11, <1>n, <2>2 DEF QueuedFits
  <2>4. /\ log[u] \in Seq(Turns) /\ Distinct(log[u]) /\ SessionFits(u)
        /\ thread[u].session \in Turns \cup {None}
    BY <1>0, <1>11, Sessions DEF LogsFit, Distinct, SessionsFit
  <2>5. CASE row[o].edit # None
    <3>1. row[o].edit \in Range(Saved(o))
      BY <1>1, <2>5
    <3>2. row[o].session # None
      <4>1. Range(<<>>) = {}
        BY DEF Range
      <4> QED BY <3>1, <4>1 DEF Saved
    <3>3. /\ thread[u].session \in Turns /\ native[thread[u].session] \in Seq(Turns)
          /\ Saved(o) = native[thread[u].session]
      BY <1>3, <2>3, <2>4, <3>2 DEF Saved
    <3>4. Within(native[thread[u].session], log[u])
      BY <1>n, <2>4, <3>3 DEF SessionFits
    <3>5. o \notin Range(log[u])
      BY <1>0, <1>2, <2>5 DEF LogsFit
    <3>6. Within(Cut(native[thread[u].session], row[o].edit, o), Cut(log[u], row[o].edit, o))
      BY <2>4, <3>1, <3>3, <3>4, <3>5, WithinReplaced
    <3>7. N = Cut(native[thread[u].session], row[o].edit, o)
          /\ Committed(u, o) = Cut(log[u], row[o].edit, o)
      BY <2>5, <3>3 DEF N, Cut, Committed
    <3> QED BY <1>4, <2>2, <2>5, <3>6, <3>7
  <2>6. CASE row[o].edit = None /\ S = o
    <3>1. N = Append(<<>>, o) /\ Committed(u, o) = log[u]
      BY <1>4, <2>6 DEF Committed
    <3>2. o \in Range(log[u])
      <4>1. Len(log[u]) \in DOMAIN log[u] /\ log[u][Len(log[u])] = o
        BY <2>3, <2>4, <2>6
      <4> QED BY <4>1 DEF Range
    <3> QED BY <2>2, <2>4, <2>6, <3>1, <3>2, WithinOne
  <2>7. CASE S # o
    <3>1. thread[u].session = S /\ N = Append(native[S], o) /\ Committed(u, o) = log[u]
          /\ log[u] # <<>> /\ log[u][Len(log[u])] = o
      BY <1>4, <2>3, <2>7 DEF Committed
    <3>2. Within(native[S], log[u]) /\ native[S] \in Seq(Turns)
      BY <1>3, <1>n, <2>4, <3>1 DEF SessionFits
    <3>3. Within(Append(native[S], o), log[u])
      BY <1>1, <2>4, <3>1, <3>2, WithinTaken
    <3> QED BY <2>2, <3>1, <3>3
  <2> QED BY <2>5, <2>6, <2>7
<1>12. SessionsFit'
  <2> SUFFICES ASSUME NEW u \in Threads, Unconfirmed(u), thread[u].status # "deleted"
               PROVE  SessionFits(u)' /\ TurnFits(u)'
    <3>1. \A u \in Threads : Unconfirmed(u)' => Unconfirmed(u)
      BY <1>1 DEF Unconfirmed
    <3> QED BY <1>1, <3>1 DEF SessionsFit
  <2>1. SessionFits(u) /\ TurnFits(u)
    BY <1>0 DEF SessionsFit
  <2>2. SessionFits(u)'
    <3>1. CASE thread[u].session = S /\ thread[u].session # None
      <4>1. row[S].init /\ row[S].thread = u
        BY <1>0, <3>1 DEF SessionsBegan
      <4>2. S # o /\ row[o].thread = u
        BY <1>2, <1>4, <4>1
      <4>3. Within(N, log[u])
        BY <1>11, <4>2
      <4> QED BY <1>1, <1>3, <1>6, <3>1, <4>3 DEF SessionFits
    <3>2. CASE thread[u].session # S /\ thread[u].session # None
      <4>1. thread[u].session \in Turns
        BY <1>0, <3>2, Sessions
      <4> QED BY <1>1, <1>6, <2>1, <3>2, <4>1 DEF SessionFits
    <3>3. CASE thread[u].session = None
      BY <1>1, <3>3 DEF SessionFits
    <3> QED BY <3>1, <3>2, <3>3
  <2>3. ASSUME NEW p \in Turns, p = thread[u].op, ~row[p].init, native'[Session(p)] # <<>>
        PROVE  Within(native'[Session(p)], Committed(u, p))
    <3>0. row[p].thread = u /\ Session(p) \in Turns
      BY <1>0, <1>n, <2>3, Sessions DEF TurnsOfThreads
    <3>1. CASE Session(p) # S
      <4>1. native'[Session(p)] = native[Session(p)]
        BY <1>6, <3>0, <3>1
      <4> QED BY <1>n, <2>1, <2>3, <4>1 DEF TurnFits
    <3>2. CASE Session(p) = S
      <4>1. row[o].thread = u
        <5>1. CASE S = o
          BY <1>7, <3>0, <3>2, <5>1
        <5>2. CASE S # o
          <6>1. S # p
            BY <1>4, <2>3, <5>2
          <6>2. row[p].session = S /\ row[p].session # None
            BY <3>2, <6>1 DEF Session
          <6>3. row[S].thread = row[p].thread
            BY <1>0, <6>2 DEF SessionsBegan
          <6> QED BY <1>4, <3>0, <5>2, <6>3
        <5> QED BY <5>1, <5>2
      <4>2. p = o /\ Within(N, Committed(u, o))
        BY <1>11, <2>3, <4>1
      <4> QED BY <1>3, <1>6, <4>2
    <3> QED BY <3>1, <3>2
  <2>4. TurnFits(u)'
    <3>1. thread[u].op \in Turns \cup {None}
      BY <1>0, Names
    <3>2. \A p \in Turns : Committed(u, p)' = Committed(u, p)
      BY <1>1 DEF Committed, Before
    <3> QED BY <1>1, <1>3, <2>3, <3>1, <3>2 DEF TurnFits
  <2> QED BY <2>2, <2>4
<1> QED BY <1>8, <1>9, <1>10, <1>12

\* Every step preserves what relates conversations and sessions.
LEMMA SessionStep == ASSUME SessionInv, [Next]_vars PROVE SessionInv'
<1>1. OwnershipInv /\ OwnershipInv' /\ ActiveTurns
  BY InvStep DEF SessionInv
<1>2. /\ OwnershipTypeOK /\ OwnershipTypeOK' /\ StopsNameTurns /\ StatusMatchesRow
      /\ OneLife /\ EndsHaveReceipts /\ TurnsOfThreads /\ OverIsOver /\ GoalFollowsTurn
      /\ ReleasedOnlyWhenOver
  BY <1>1 DEF OwnershipInv
<1>3. Move /\ SessionMove
  BY <1>2, StepIsMove, StepIsSessionMove
<1>4. ActiveTurns'
  BY <1>1, <1>2, <1>3, ActiveTurnsStep
<1>5. SessionsBegan' /\ BegunOnce' /\ LogsFit' /\ QueuedFits' /\ SessionsFit'
  <2>1. CASE Kept \/ \E t \in Threads : Clears(t)
    BY <1>2, <1>3, <2>1, KeptStep
  <2>2. ASSUME NEW o \in Turns, startProcess(o)
        PROVE  SessionsBegan' /\ BegunOnce' /\ LogsFit' /\ QueuedFits' /\ SessionsFit'
    BY <1>2, <2>2, BeginsStep
  <2>3. ASSUME NEW t \in Threads, NEW o \in Turns, Loads(t, o)
        PROVE  SessionsBegan' /\ BegunOnce' /\ LogsFit' /\ QueuedFits' /\ SessionsFit'
    BY <1>2, <1>3, <2>3, LoadsStep
  <2>4. ASSUME NEW t \in Threads, NEW o \in Turns, NEW e \in Turns \cup {None}, Asks(t, o, e)
        PROVE  SessionsBegan' /\ BegunOnce' /\ LogsFit' /\ QueuedFits' /\ SessionsFit'
    BY <1>2, <2>4, AsksStep
  <2> QED BY <1>3, <2>1, <2>2, <2>3, <2>4 DEF SessionMove
<1> QED BY <1>1, <1>4, <1>5 DEF SessionInv

\* No conversation has a session, and no session a prompt.
LEMMA SessionInit == ASSUME Init PROVE SessionInv
<1>1. OwnershipInv /\ Range(up) = {} /\ DOMAIN up = {}
  BY InitInv DEF Init, Range
<1>2. \A t \in Threads : Range(log[t]) = {} /\ DOMAIN log[t] = {}
  BY DEF Init, Range
<1>3. SessionsBegan /\ ActiveTurns
  BY DEF Init, SessionsBegan, ActiveTurns, Active, NoRow
<1>4. BegunOnce
  BY <1>1 DEF Init, BegunOnce, NoRow
<1>5. LogsFit /\ QueuedFits /\ SessionsFit
  BY <1>2 DEF Init, LogsFit, QueuedFits, SessionsFit, SessionFits, TurnFits
<1> QED BY <1>1, <1>3, <1>4, <1>5 DEF SessionInv

\* A session is named by a turn of its conversation that the CLI has begun, a turn
\* begins once, a message is shown once, the turn at work is the one its
\* conversation names, and what is committed when a turn has begun fits its session.
THEOREM SessionInvariant == Spec => []SessionInv
<1>1. Init => SessionInv
  BY SessionInit
<1>2. SessionInv /\ [Next]_vars => SessionInv'
  BY SessionStep
<1> QED BY <1>1, <1>2, PTL DEF Spec

\* The session a conversation will resume remembers no prompt that the conversation
\* does not show, and remembers them in the order in which it shows them, whatever
\* was edited, stopped, lost or crashed, unless a user declared one of its turns
\* stopped.
THEOREM SessionShowsNothingElse == Spec => []SessionIsShown
<1>1. SessionInv => SessionIsShown
  <2> SUFFICES ASSUME SessionInv, NEW t \in Threads, thread[t].session # None,
                      thread[t].status # "deleted", Unconfirmed(t)
               PROVE  LET seen == native[thread[t].session]
                      IN \E f \in [DOMAIN seen -> DOMAIN log[t]] :
                           /\ \A i \in DOMAIN seen : log[t][f[i]] = seen[i]
                           /\ \A i, j \in DOMAIN seen : i < j => f[i] < f[j]
    BY DEF SessionIsShown
  <2>1. Within(native[thread[t].session], log[t])
    BY DEF SessionInv, SessionsFit, SessionFits
  <2>2. native[thread[t].session] \in Seq(Turns) /\ log[t] \in Seq(Turns)
    BY Sessions DEF SessionInv, OwnershipInv
  <2> DEFINE seen == native[thread[t].session]
             shown == log[t]
  <2> HIDE DEF seen, shown
  <2>3. Within(seen, shown) /\ seen \in Seq(Turns) /\ shown \in Seq(Turns)
    BY <2>1, <2>2 DEF seen, shown
  <2>4. \E f \in [DOMAIN seen -> DOMAIN shown] :
           /\ \A i \in DOMAIN seen : shown[f[i]] = seen[i]
           /\ \A i, j \in DOMAIN seen : i < j => f[i] < f[j]
    BY <2>3, WithinEmbeds
  <2> QED BY <2>4 DEF seen, shown
<1> QED BY <1>1, SessionInvariant, PTL
=============================================================================
