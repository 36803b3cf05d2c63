----------------------- MODULE AgentOperations_proofs -----------------------
(***************************************************************************)
(* Theorems about AgentOperations, for every set of operations, every      *)
(* assignment of workspaces and every bound.                               *)
(***************************************************************************)
EXTENDS AgentOperations, TLAPS

-----------------------------------------------------------------------------
(***************************************************************************)
(* What may happen to a queue of messages from a set S: it grows at the    *)
(* back, and is cut at either end.                                         *)
(***************************************************************************)

\* A queue of elements of S stays one when elements of S are added.
LEMMA GrowSeq ==
    ASSUME NEW S, NEW s \in Seq(S), NEW t \in Seq(S), NEW e \in S
    PROVE  s \o t \in Seq(S) /\ Append(s, e) \in Seq(S) /\ <<e>> \in Seq(S)
OBVIOUS

\* The empty queue is a queue of elements of any set.
LEMMA EmptySeq == \A S : <<>> \in Seq(S)
OBVIOUS

\* A queue of elements of S stays one when it is cut at either end.
LEMMA CutSeq ==
    ASSUME NEW S, NEW s \in Seq(S), NEW k \in 0..Len(s)
    PROVE  /\ SubSeq(s, 1, k) \in Seq(S)
           /\ SubSeq(s, k + 1, Len(s)) \in Seq(S)
           /\ k > 0 => s[k] \in S
OBVIOUS

\* The head of a queue of elements of S is in S, and its rest is such a queue.
LEMMA TailSeq ==
    ASSUME NEW S, NEW s \in Seq(S), s /= <<>>
    PROVE  Head(s) \in S /\ Tail(s) \in Seq(S)
OBVIOUS

\* A queue of elements of S is one of elements of any larger set.
LEMMA WiderSeq ==
    ASSUME NEW S, NEW T, S \subseteq T, NEW s \in Seq(S)
    PROVE  s \in Seq(T)
OBVIOUS

\* queue adds messages of S to a queue of messages of S.
LEMMA QueueSeq ==
    ASSUME NEW S, reports \in Seq(S), NEW ms \in Seq(S), Queue(ms)
    PROVE  reports' \in Seq(S)
<1>1. reports \o ms \in Seq(S)
  OBVIOUS
<1> QED BY <1>1 DEF Queue

\* So does queueing one message, whether it fits or is dropped.
LEMMA QueuedSeq ==
    ASSUME NEW S, reports \in Seq(S), NEW m \in S, Queued(m)
    PROVE  reports' \in Seq(S)
<1>1. <<m>> \in Seq(S)
  OBVIOUS
<1>2. CASE Queue(<<m>>)
  BY <1>1, <1>2, QueueSeq
<1>3. CASE UNCHANGED reports
  BY <1>3
<1> QED BY <1>2, <1>3 DEF Queued

\* So does reporting a result at the end of an execution.
LEMMA SavedSeq ==
    ASSUME NEW S, reports \in Seq(S), NEW more \in Seq(S), NEW m \in S, NEW saved,
           Saved(saved, more, m)
    PROVE  reports' \in Seq(S)
<1>1. Append(more, m) \in Seq(S)
  OBVIOUS
<1>2. CASE Queue(Append(more, m))
  BY <1>1, <1>2, QueueSeq
<1>3. CASE Queue(more)
  BY <1>3, QueueSeq
<1> QED BY <1>2, <1>3 DEF Saved

\* So does losing the back of the queue with the Agent process.
LEMMA LoseReportsSeq ==
    ASSUME NEW S, reports \in Seq(S), LoseReports
    PROVE  reports' \in Seq(S)
<1>1. PICK k \in 0..Len(reports) : reports' = SubSeq(reports, 1, k)
  BY DEF LoseReports
<1> QED BY <1>1, CutSeq

\* So does losing its front with the stream.
LEMMA DisconnectSeq ==
    ASSUME NEW S, reports \in Seq(S), Disconnect
    PROVE  reports' \in Seq(S)
<1>1. PICK k \in 0..Len(reports) :
        \/ reports' = SubSeq(reports, k + 1, Len(reports))
        \/ k > 0 /\ reports' = Append(SubSeq(reports, k + 1, Len(reports)), reports[k])
  BY DEF Disconnect
<1>2. SubSeq(reports, k + 1, Len(reports)) \in Seq(S) /\ (k > 0 => reports[k] \in S)
  BY <1>1, CutSeq
<1> QED BY <1>1, <1>2, GrowSeq

-----------------------------------------------------------------------------
(***************************************************************************)
(* Types.                                                                  *)
(***************************************************************************)

\* Message constructors build messages.
LEMMA MessageType ==
    ASSUME NEW o \in Op
    PROVE  /\ Started(o) \in Message
           /\ \A r \in Results : Result(o, r) \in Message
BY DEF Started, Result, Message

\* The faults stay two counts.
LEMMA FaultsType ==
    ASSUME faults \in FaultHistory
    PROVE  /\ \A m : Queued(m) => faults' \in FaultHistory
           /\ \A saved, more, m : Saved(saved, more, m) => faults' \in FaultHistory
           /\ \A kind : Fault(kind) => faults' \in FaultHistory
BY DEF Queued, Saved, Fault, FaultHistory

\* The end of an interruption keeps every type.
LEMMA EndInterruptType ==
    ASSUME TypeOK, NEW i \in Interrupts, NEW r \in Results, NEW more \in Seq(Message),
           EndInterrupt(i, r, more)
    PROVE  /\ reports' \in Seq(Message) /\ faults' \in FaultHistory
           /\ rerun' \subseteq Interrupts
           /\ seen' \in [Op -> {"absent", "executing"} \cup Results]
           /\ receipt' \in [Op -> {"none"} \cup Results]
<1>1. i \in Op /\ Result(i, r) \in Message
  BY MessageType DEF Op
<1>2. CASE i \in rerun
  <2>1. Saved(TRUE, more, Result(i, r)) /\ rerun' = rerun \ {i} /\ UNCHANGED <<seen, receipt>>
    BY <1>2 DEF EndInterrupt
  <2> QED BY <1>1, <2>1, SavedSeq, FaultsType DEF TypeOK
<1>3. CASE i \notin rerun
  <2>1. PICK saved \in BOOLEAN : Saved(saved, more, Result(i, r)) /\ Complete(i, r, saved)
    BY <1>3 DEF EndInterrupt
  <2>2. rerun' = rerun
    BY <1>3 DEF EndInterrupt
  <2>3. reports' \in Seq(Message) /\ faults' \in FaultHistory
    BY <1>1, <2>1, SavedSeq, FaultsType DEF TypeOK
  <2> QED BY <1>1, <2>1, <2>2, <2>3 DEF TypeOK, Complete
<1> QED BY <1>2, <1>3

\* The message at the head of the queue.
LEMMA HeadType ==
    ASSUME TypeOK, reports /= <<>>
    PROVE  /\ Tail(reports) \in Seq(Message)
           /\ Head(reports) \in Message
           /\ Head(reports).op \in Op
           /\ Head(reports).kind = "operation_result" => Head(reports).result \in Results
<1>1. Head(reports) \in Message /\ Tail(reports) \in Seq(Message)
  BY TailSeq DEF TypeOK
<1> QED BY <1>1 DEF Message

\* The type invariant is inductive, one step per action.
LEMMA TypeInductive == TypeOK /\ [Next]_vars => TypeOK'
<1> SUFFICES ASSUME TypeOK, [Next]_vars PROVE TypeOK'
  OBVIOUS
<1> USE OpAssumption DEF TypeOK, Op, Active, Terminal
<1>1. ASSUME NEW o \in Op, QueueOperation(o) PROVE TypeOK'
  BY <1>1 DEF QueueOperation, agentVars, history
<1>2. ASSUME NEW i \in Interrupts, NEW t \in Scans, RequestOperationInterrupt(i, t) PROVE TypeOK'
  BY <1>2 DEF RequestOperationInterrupt, agentVars, history
<1>3. ASSUME NEW o \in Turns, CancelQueuedTurn(o) PROVE TypeOK'
  BY <1>3 DEF CancelQueuedTurn, agentVars, history
<1>4. ASSUME NEW o \in FileScans, ExpireWorkspaceFileScan(o) PROVE TypeOK'
  BY <1>4 DEF ExpireWorkspaceFileScan, agentVars, history
<1>5. ASSUME NEW o \in Turns, ReadTurn(o) PROVE TypeOK'
  BY <1>5 DEF ReadTurn, agentVars, history
<1>6. ASSUME NEW o \in Turns, ClaimTurn(o) PROVE TypeOK'
  BY <1>6 DEF ClaimTurn, agentVars, history
<1>7. ASSUME NEW o \in Turns, SendTurn(o) PROVE TypeOK'
  BY <1>7 DEF SendTurn, agentVars, history
<1>8. ASSUME NEW o \in Op, SendOperation(o) PROVE TypeOK'
  BY <1>8 DEF SendOperation, agentVars, history
<1>9. ASSUME NEW o \in Op, MarkDelivered(o) PROVE TypeOK'
  BY <1>9 DEF MarkDelivered, Marked, agentVars, history
<1>10. CASE HandleStarted
  BY <1>10, HeadType DEF HandleStarted, agentVars, history
<1>11. CASE HandleResult
  <2>1. Stored(Head(reports).result) \in Terminal
    BY <1>11, HeadType DEF HandleResult, Stored, Results
  <2> QED BY <1>11, <2>1, HeadType DEF HandleResult, agentVars, history
<1>12. ASSUME NEW o \in Op, Prune(o) PROVE TypeOK'
  BY <1>12 DEF Prune, dbVars, history
<1>13. ASSUME NEW o \in Op, Register(o) PROVE TypeOK'
  <2>1. reports' \in Seq(Message) /\ faults' \in FaultHistory
    BY <1>13, MessageType, QueuedSeq, FaultsType DEF Register
  <2> QED BY <1>13, <2>1 DEF Register, dbVars
<1>14. ASSUME NEW o \in Op, Replay(o) PROVE TypeOK'
  <2>1. reports' \in Seq(Message) /\ faults' \in FaultHistory /\ rerun' \subseteq Interrupts
    BY <1>14, MessageType, QueuedSeq, FaultsType DEF Replay
  <2> QED BY <1>14, <2>1 DEF Replay, dbVars
<1>15. ASSUME NEW o \in Op, ReplayUnreadable(o) PROVE TypeOK'
  <2>1. <<Result(o, "failed")>> \in Seq(Message)
    BY MessageType DEF Results
  <2>2. reports' \in Seq(Message) /\ faults' \in FaultHistory
    BY <1>15, <2>1, QueueSeq, FaultsType DEF ReplayUnreadable
  <2> QED BY <1>15, <2>2 DEF ReplayUnreadable, dbVars
<1>16. ASSUME NEW o \in Op, NEW r \in Results, Finish(o, r) PROVE TypeOK'
  <2>1. PICK saved \in BOOLEAN : Saved(saved, <<>>, Result(o, r)) /\ Complete(o, r, saved)
    BY <1>16 DEF Finish
  <2>2. reports' \in Seq(Message) /\ faults' \in FaultHistory
    BY <2>1, MessageType, EmptySeq, SavedSeq, FaultsType
  <2> QED BY <1>16, <2>1, <2>2 DEF Finish, Complete, dbVars
<1>17. ASSUME NEW i \in Interrupts, InterruptCancel(i) PROVE TypeOK'
  BY <1>17 DEF InterruptCancel, Interrupting, dbVars, history
<1>18. ASSUME NEW i \in Interrupts, InterruptTimeout(i) PROVE TypeOK'
  <2>1. <<>> \in Seq(Message) /\ "failed" \in Results
    BY DEF Results
  <2> QED BY <1>18, <2>1, EndInterruptType DEF InterruptTimeout, dbVars
<1>19. ASSUME NEW i \in Interrupts, InterruptDone(i) PROVE TypeOK'
  <2>1. <<>> \in Seq(Message) /\ {"failed", "succeeded"} \subseteq Results
    BY DEF Results
  <2>2. target[i] \in Op /\ Recorded(target[i]) \in Results
    BY <1>19 DEF InterruptDone, Interrupting
  <2>3. <<Result(target[i], Recorded(target[i]))>> \in Seq(Message)
    BY <2>2, MessageType
  <2> QED BY <1>19, <2>1, <2>3, EndInterruptType DEF InterruptDone, dbVars
<1>20. ASSUME NEW i \in Interrupts, InterruptTombstone(i) PROVE TypeOK'
  BY <1>20 DEF InterruptTombstone, Tombstone, Interrupting, Results, dbVars, history
<1>21. ASSUME NEW i \in Interrupts, InterruptUnsaved(i) PROVE TypeOK'
  <2>1. <<>> \in Seq(Message) /\ "failed" \in Results
    BY DEF Results
  <2> QED BY <1>21, <2>1, EndInterruptType DEF InterruptUnsaved, dbVars
<1>22. ASSUME NEW o \in Turns, ReconcileTurn(o) PROVE TypeOK'
  <2>1. <<Result(o, Recorded(o))>> \in Seq(Message)
    BY <1>22, MessageType DEF ReconcileTurn
  <2>2. reports' \in Seq(Message)
    BY <1>22, <2>1, QueueSeq DEF ReconcileTurn
  <2> QED BY <1>22, <2>2 DEF ReconcileTurn, dbVars, history
<1>23. CASE RejectMessage
  BY <1>23, HeadType, FaultsType DEF RejectMessage, dbVars, agentVars
<1>24. CASE Disconnect
  <2>1. reports' \in Seq(Message) /\ faults' \in FaultHistory
    BY <1>24, DisconnectSeq, FaultsType DEF Disconnect
  <2> QED BY <1>24, <2>1 DEF Disconnect, LoseCommands, agentVars
<1>25. CASE Shutdown
  <2>1. reports' \in Seq(Message) /\ faults' \in FaultHistory
    BY <1>25, LoseReportsSeq, FaultsType DEF Shutdown
  <2> QED BY <1>25, <2>1 DEF Shutdown, LoseCommands
<1>26. CASE Crash
  <2>1. reports' \in Seq(Message) /\ faults' \in FaultHistory
    BY <1>26, LoseReportsSeq, FaultsType DEF Crash
  <2>2. orphans' \in [Op -> Nat]
    BY <1>26 DEF Crash
  <2> QED BY <1>26, <2>1, <2>2 DEF Crash, LoseCommands
<1>27. CASE UNCHANGED vars
  BY <1>27 DEF vars
<1> QED BY <1>1, <1>2, <1>3, <1>4, <1>5, <1>6, <1>7, <1>8, <1>9, <1>10, <1>11, <1>12, <1>13,
           <1>14, <1>15, <1>16, <1>17, <1>18, <1>19, <1>20, <1>21, <1>22, <1>23, <1>24, <1>25,
           <1>26, <1>27
        DEF Next, Request, Gateway, Agent, Environment, ClaimedFirst

\* The initial states have their types.
LEMMA InitType == Init => TypeOK
<1> SUFFICES ASSUME Init PROVE TypeOK
  OBVIOUS
<1>1. reports \in Seq(Message) /\ faults \in FaultHistory /\ stopping \in BOOLEAN
  BY EmptySeq DEF Init, FaultHistory
<1>2. target \in [Interrupts -> Scans \cup {NoOp}]
  BY DEF Init
<1>3. status \in [Op -> {"none"} \cup Active \cup Terminal]
  BY DEF Init
<1>4. seen \in [Op -> {"absent", "executing"} \cup Results] /\ receipt \in [Op -> {"none"} \cup Results]
  BY DEF Init
<1> QED BY <1>1, <1>2, <1>3, <1>4 DEF Init, TypeOK

\* The type invariant holds of every behaviour.
THEOREM TypeCorrect == Spec => []TypeOK
BY InitType, TypeInductive, PTL DEF Spec

-----------------------------------------------------------------------------
(***************************************************************************)
(* The inductive invariant: what does not depend on the receipts.          *)
(***************************************************************************)

Counts == TurnsSentOnce /\ ExecutionsCounted /\ LockHeldOnce /\ UnknownBeforeQueued

\* How an interruption that ends changes the cache and the disk.
LEMMA EndInterruptEffect ==
    ASSUME NEW i, NEW r, NEW more, Interrupting(i), EndInterrupt(i, r, more)
    PROVE  \/ i \in rerun /\ UNCHANGED <<seen, receipt>>
           \/ /\ i \notin rerun
              /\ seen[i] = "executing"
              /\ seen' = [seen EXCEPT ![i] = r]
              /\ receipt' = [receipt EXCEPT ![i] = r] \/ receipt' = receipt
BY DEF EndInterrupt, Complete, Interrupting

\* Every step preserves the counts, the lock and what the Agent may know.
LEMMA CountsInductive == TypeOK /\ Counts /\ [Next]_vars => Counts'
<1> SUFFICES ASSUME TypeOK, Counts, [Next]_vars PROVE Counts'
  OBVIOUS
<1> USE OpAssumption DEF TypeOK, Counts, TurnsSentOnce, ExecutionsCounted, LockHeldOnce,
        UnknownBeforeQueued, Unseen, Op, Writers, Active, Terminal, Results
<1>1. ASSUME NEW o \in Op, QueueOperation(o) PROVE Counts'
  BY <1>1 DEF QueueOperation, WriteLockFree, agentVars, history
<1>2. ASSUME NEW i \in Interrupts, NEW t \in Scans, RequestOperationInterrupt(i, t) PROVE Counts'
  BY <1>2 DEF RequestOperationInterrupt, agentVars, history
<1>3. ASSUME NEW o \in Turns, CancelQueuedTurn(o) PROVE Counts'
  BY <1>3 DEF CancelQueuedTurn, agentVars, history
<1>4. ASSUME NEW o \in FileScans, ExpireWorkspaceFileScan(o) PROVE Counts'
  BY <1>4 DEF ExpireWorkspaceFileScan, agentVars, history
<1>5. ASSUME NEW o \in Turns, ReadTurn(o) PROVE Counts'
  BY <1>5 DEF ReadTurn, agentVars, history
<1>6. ASSUME NEW o \in Turns, ClaimTurn(o) PROVE Counts'
  <2>1. UNCHANGED <<inflight, seen, receipt, execs, orphans>>
    BY <1>6 DEF ClaimTurn, agentVars, history
  <2>2. CASE /\ status[o] = "queued"
             /\ status' = [status EXCEPT ![o] = "delivered"]
             /\ claimed' = claimed \cup {o}
    BY <2>1, <2>2
  <2>3. CASE UNCHANGED <<status, claimed>>
    BY <2>1, <2>3
  <2> QED BY <1>6, <2>2, <2>3 DEF ClaimTurn, Claimable
<1>7. ASSUME NEW o \in Turns, SendTurn(o) PROVE Counts'
  <2>1. /\ o \in claimed /\ claimed' = claimed \ {o}
        /\ inflight' = [inflight EXCEPT ![o] = @ + 1]
        /\ UNCHANGED <<status, seen, receipt, execs, orphans>>
    BY <1>7 DEF SendTurn, agentVars, history
  <2>2. TurnsSentOnce'
    <3>1. inflight[o] = 0 /\ execs[o] = 0 /\ status[o] \notin {"none", "queued"}
      BY <2>1
    <3>2. ASSUME NEW p \in Turns, p /= o
          PROVE  /\ inflight'[p] = inflight[p] /\ status'[p] = status[p] /\ execs'[p] = execs[p]
                 /\ p \in claimed' <=> p \in claimed
      BY <2>1, <3>2
    <3>3. /\ inflight'[o] = 1 /\ execs'[o] = 0 /\ o \notin claimed'
          /\ status'[o] \notin {"none", "queued"}
      BY <2>1, <3>1
    <3> QED BY <3>2, <3>3
  <2>3. ExecutionsCounted' /\ LockHeldOnce'
    BY <2>1
  <2>4. UnknownBeforeQueued'
    BY <2>1
  <2> QED BY <2>2, <2>3, <2>4
<1>8. ASSUME NEW o \in Op \ Turns, SendOperation(o) PROVE Counts'
  BY <1>8 DEF SendOperation, Deliverable, agentVars, history
<1>9. ASSUME NEW o \in Op \ Turns, MarkDelivered(o) PROVE Counts'
  BY <1>9 DEF MarkDelivered, Marked, agentVars, history
<1>10. CASE HandleStarted
  <2>1. PICK o \in Op, st \in {"running"} \cup Terminal :
          status' = IF status[o] \in Active THEN [status EXCEPT ![o] = st] ELSE status
    <3>1. Head(reports).op \in Op
      BY <1>10, HeadType DEF HandleStarted
    <3> QED BY <1>10, <3>1, HeadType DEF HandleStarted, Completable, Stored
  <2>2. UNCHANGED <<claimed, inflight, seen, receipt, execs, orphans>>
    BY <1>10 DEF HandleStarted, agentVars, history
  <2> QED BY <2>1, <2>2
<1>11. CASE HandleResult
  <2>1. PICK o \in Op, st \in {"running"} \cup Terminal :
          status' = IF status[o] \in Active THEN [status EXCEPT ![o] = st] ELSE status
    <3>1. Head(reports).op \in Op
      BY <1>11, HeadType DEF HandleResult
    <3> QED BY <1>11, <3>1, HeadType DEF HandleResult, Completable, Stored
  <2>2. UNCHANGED <<claimed, inflight, seen, receipt, execs, orphans>>
    BY <1>11 DEF HandleResult, agentVars, history
  <2> QED BY <2>1, <2>2
<1>12. ASSUME NEW o \in Op, Prune(o) PROVE Counts'
  BY <1>12 DEF Prune, Prunable, dbVars, history
<1>13. ASSUME NEW o \in Op, Register(o) PROVE Counts'
  <2>1. /\ inflight[o] > 0 /\ Unseen(o)
        /\ inflight' = [inflight EXCEPT ![o] = @ - 1]
        /\ seen' = [seen EXCEPT ![o] = "executing"]
        /\ execs' = [execs EXCEPT ![o] = @ + 1]
        /\ UNCHANGED <<status, claimed, receipt, orphans>>
    BY <1>13 DEF Register, dbVars
  <2>2. TurnsSentOnce'
    BY <2>1
  <2>3. ExecutionsCounted'
    BY <2>1
  <2>4. LockHeldOnce' /\ UnknownBeforeQueued'
    BY <2>1
  <2> QED BY <2>2, <2>3, <2>4
<1>14. ASSUME NEW o \in Op, Replay(o) PROVE Counts'
  BY <1>14 DEF Replay, dbVars
<1>15. ASSUME NEW o \in Op, ReplayUnreadable(o) PROVE Counts'
  <2>1. /\ inflight[o] > 0 /\ inflight' = [inflight EXCEPT ![o] = @ - 1]
        /\ UNCHANGED <<status, claimed, seen, receipt, execs, orphans>>
    BY <1>15 DEF ReplayUnreadable, dbVars
  <2> QED BY <2>1
<1>16. ASSUME NEW o \in Op \ Interrupts, NEW r \in Results, Finish(o, r) PROVE Counts'
  BY <1>16 DEF Finish, Complete, dbVars
<1>17. ASSUME NEW i \in Interrupts, InterruptCancel(i) PROVE Counts'
  <2>1. UNCHANGED <<status, claimed, inflight, seen, receipt, execs, orphans>>
    BY <1>17 DEF InterruptCancel, dbVars, history
  <2> QED BY <2>1
<1>18. ASSUME NEW i \in Interrupts, InterruptTimeout(i) PROVE Counts'
  <2>1. UNCHANGED <<status, claimed, inflight, execs, orphans>>
    BY <1>18 DEF InterruptTimeout, dbVars
  <2>2. CASE UNCHANGED <<seen, receipt>>
    BY <2>1, <2>2
  <2>3. ASSUME NEW r \in Results, seen[i] = "executing", seen' = [seen EXCEPT ![i] = r],
               receipt' = [receipt EXCEPT ![i] = r] \/ receipt' = receipt
        PROVE  Counts'
    BY <2>1, <2>3
  <2>4. PICK r, more : r \in Results /\ EndInterrupt(i, r, more)
    BY <1>18 DEF InterruptTimeout
  <2>5. Interrupting(i)
    BY <1>18 DEF InterruptTimeout
  <2>6. \/ UNCHANGED <<seen, receipt>>
        \/ /\ seen[i] = "executing" /\ seen' = [seen EXCEPT ![i] = r]
           /\ receipt' = [receipt EXCEPT ![i] = r] \/ receipt' = receipt
    BY <2>4, <2>5, EndInterruptEffect
  <2> QED BY <2>2, <2>3, <2>4, <2>6
<1>19. ASSUME NEW i \in Interrupts, InterruptDone(i) PROVE Counts'
  <2>1. UNCHANGED <<status, claimed, inflight, execs, orphans>>
    BY <1>19 DEF InterruptDone, dbVars
  <2>2. CASE UNCHANGED <<seen, receipt>>
    BY <2>1, <2>2
  <2>3. ASSUME NEW r \in Results, seen[i] = "executing", seen' = [seen EXCEPT ![i] = r],
               receipt' = [receipt EXCEPT ![i] = r] \/ receipt' = receipt
        PROVE  Counts'
    BY <2>1, <2>3
  <2>4. PICK r, more : r \in Results /\ EndInterrupt(i, r, more)
    BY <1>19 DEF InterruptDone
  <2>5. Interrupting(i)
    BY <1>19 DEF InterruptDone
  <2>6. \/ UNCHANGED <<seen, receipt>>
        \/ /\ seen[i] = "executing" /\ seen' = [seen EXCEPT ![i] = r]
           /\ receipt' = [receipt EXCEPT ![i] = r] \/ receipt' = receipt
    BY <2>4, <2>5, EndInterruptEffect
  <2> QED BY <2>2, <2>3, <2>4, <2>6
<1>20. ASSUME NEW i \in Interrupts, InterruptTombstone(i) PROVE Counts'
  BY <1>20 DEF InterruptTombstone, Tombstone, Recorded, Interrupting, dbVars, history
<1>21. ASSUME NEW i \in Interrupts, InterruptUnsaved(i) PROVE Counts'
  <2>1. UNCHANGED <<status, claimed, inflight, execs, orphans>>
    BY <1>21 DEF InterruptUnsaved, dbVars
  <2>2. CASE UNCHANGED <<seen, receipt>>
    BY <2>1, <2>2
  <2>3. ASSUME NEW r \in Results, seen[i] = "executing", seen' = [seen EXCEPT ![i] = r],
               receipt' = [receipt EXCEPT ![i] = r] \/ receipt' = receipt
        PROVE  Counts'
    BY <2>1, <2>3
  <2>4. PICK r, more : r \in Results /\ EndInterrupt(i, r, more)
    BY <1>21 DEF InterruptUnsaved
  <2>5. Interrupting(i)
    BY <1>21 DEF InterruptUnsaved
  <2>6. \/ UNCHANGED <<seen, receipt>>
        \/ /\ seen[i] = "executing" /\ seen' = [seen EXCEPT ![i] = r]
           /\ receipt' = [receipt EXCEPT ![i] = r] \/ receipt' = receipt
    BY <2>4, <2>5, EndInterruptEffect
  <2> QED BY <2>2, <2>3, <2>4, <2>6
<1>22. ASSUME NEW o \in Turns, ReconcileTurn(o) PROVE Counts'
  <2>1. UNCHANGED <<status, claimed, inflight, seen, receipt, execs, orphans>>
    BY <1>22 DEF ReconcileTurn, dbVars, history
  <2> QED BY <2>1
<1>23. CASE RejectMessage
  <2>1. UNCHANGED <<status, claimed, inflight, seen, receipt, execs, orphans>>
    BY <1>23 DEF RejectMessage, dbVars, agentVars
  <2> QED BY <2>1
<1>24. CASE Disconnect
  BY <1>24 DEF Disconnect, LoseCommands, agentVars
<1>25. CASE Shutdown
  <2>1. /\ inflight' = [o \in Op |-> 0] /\ claimed' = {}
        /\ UNCHANGED <<status, seen, receipt, execs, orphans>>
    BY <1>25 DEF Shutdown, LoseCommands
  <2> QED BY <2>1
<1>26. CASE Crash
  BY <1>26 DEF Crash, LoseCommands
<1>27. CASE UNCHANGED vars
  BY <1>27 DEF vars
<1> QED BY <1>1, <1>2, <1>3, <1>4, <1>5, <1>6, <1>7, <1>8, <1>9, <1>10, <1>11, <1>12, <1>13, <1>14, <1>15, <1>16, <1>17, <1>18, <1>19, <1>20, <1>21, <1>22, <1>23, <1>24, <1>25, <1>26, <1>27
        DEF Next, Request, Gateway, Agent, Environment, ClaimedFirst

-----------------------------------------------------------------------------
(***************************************************************************)
(* Receipts.  What one step may do to the cache and the disk, to a row, to *)
(* a turn that was never sent.                                             *)
(***************************************************************************)

\* A step injects one fault or none.
FaultStep == UNCHANGED faults \/ \E kind \in FaultKinds : Fault(kind)

\* Every step does.
LEMMA FaultStepLemma == [Next]_vars => FaultStep
<1> SUFFICES ASSUME [Next]_vars PROVE FaultStep
  OBVIOUS
<1> USE DEF FaultStep, FaultKinds
<1>1. ASSUME NEW o \in Op, QueueOperation(o) PROVE FaultStep
  BY <1>1 DEF QueueOperation, agentVars, history
<1>2. ASSUME NEW i \in Interrupts, NEW t \in Scans, RequestOperationInterrupt(i, t) PROVE FaultStep
  BY <1>2 DEF RequestOperationInterrupt, agentVars, history
<1>3. ASSUME NEW o \in Turns, CancelQueuedTurn(o) PROVE FaultStep
  BY <1>3 DEF CancelQueuedTurn, agentVars, history
<1>4. ASSUME NEW o \in FileScans, ExpireWorkspaceFileScan(o) PROVE FaultStep
  BY <1>4 DEF ExpireWorkspaceFileScan, agentVars, history
<1>5. ASSUME NEW o \in Turns, ReadTurn(o) PROVE FaultStep
  BY <1>5 DEF ReadTurn, agentVars, history
<1>6. ASSUME NEW o \in Turns, ClaimTurn(o) PROVE FaultStep
  BY <1>6 DEF ClaimTurn, Claimable, agentVars, history
<1>7. ASSUME NEW o \in Turns, SendTurn(o) PROVE FaultStep
  BY <1>7 DEF SendTurn, agentVars, history
<1>8. ASSUME NEW o \in Op \ Turns, SendOperation(o) PROVE FaultStep
  BY <1>8 DEF SendOperation, agentVars, history
<1>9. ASSUME NEW o \in Op \ Turns, MarkDelivered(o) PROVE FaultStep
  BY <1>9 DEF MarkDelivered, Marked, agentVars, history
<1>10. CASE HandleStarted
  BY <1>10 DEF HandleStarted, agentVars, history
<1>11. CASE HandleResult
  BY <1>11 DEF HandleResult, Completable, agentVars, history
<1>12. ASSUME NEW o \in Op, Prune(o) PROVE FaultStep
  BY <1>12 DEF Prune, dbVars, history
<1>13. ASSUME NEW o \in Op, Register(o) PROVE FaultStep
  BY <1>13 DEF Register, Queued, dbVars
<1>14. ASSUME NEW o \in Op, Replay(o) PROVE FaultStep
  BY <1>14 DEF Replay, Queued, dbVars
<1>15. ASSUME NEW o \in Op, ReplayUnreadable(o) PROVE FaultStep
  BY <1>15 DEF ReplayUnreadable, dbVars
<1>16. ASSUME NEW o \in Op \ Interrupts, NEW r \in Results, Finish(o, r) PROVE FaultStep
  BY <1>16 DEF Finish, Saved, dbVars
<1>17. ASSUME NEW i \in Interrupts, InterruptCancel(i) PROVE FaultStep
  BY <1>17 DEF InterruptCancel, dbVars, history
<1>18. ASSUME NEW i \in Interrupts, InterruptTimeout(i) PROVE FaultStep
  BY <1>18 DEF InterruptTimeout, EndInterrupt, Saved, dbVars
<1>19. ASSUME NEW i \in Interrupts, InterruptDone(i) PROVE FaultStep
  BY <1>19 DEF InterruptDone, EndInterrupt, Saved, dbVars
<1>20. ASSUME NEW i \in Interrupts, InterruptTombstone(i) PROVE FaultStep
  BY <1>20 DEF InterruptTombstone, dbVars, history
<1>21. ASSUME NEW i \in Interrupts, InterruptUnsaved(i) PROVE FaultStep
  BY <1>21 DEF InterruptUnsaved, EndInterrupt, Saved, dbVars
<1>22. ASSUME NEW o \in Turns, ReconcileTurn(o) PROVE FaultStep
  BY <1>22 DEF ReconcileTurn, dbVars, history
<1>23. CASE RejectMessage
  BY <1>23 DEF RejectMessage, dbVars, agentVars
<1>24. CASE Disconnect
  BY <1>24 DEF Disconnect, LoseCommands, agentVars
<1>25. CASE Shutdown
  BY <1>25 DEF Shutdown, LoseCommands
<1>26. CASE Crash
  BY <1>26 DEF Crash, LoseCommands
<1>27. CASE UNCHANGED vars
  BY <1>27 DEF vars
<1> QED BY <1>1, <1>2, <1>3, <1>4, <1>5, <1>6, <1>7, <1>8, <1>9, <1>10, <1>11, <1>12, <1>13,
           <1>14, <1>15, <1>16, <1>17, <1>18, <1>19, <1>20, <1>21, <1>22, <1>23, <1>24, <1>25, <1>26,
           <1>27
        DEF Next, Request, Gateway, Agent, Environment, ClaimedFirst

\* A receipt that was lost stays lost.
LEMMA ReceiptsHoldStep == TypeOK /\ ReceiptsHold' /\ [Next]_vars => ReceiptsHold
<1> SUFFICES ASSUME TypeOK, ReceiptsHold', [Next]_vars PROVE ReceiptsHold
  OBVIOUS
<1>1. CASE UNCHANGED faults
  BY <1>1 DEF ReceiptsHold
<1>2. ASSUME NEW kind \in FaultKinds, Fault(kind) PROVE ReceiptsHold
  BY <1>2 DEF Fault, ReceiptsHold, TypeOK, FaultHistory
<1> QED BY <1>1, <1>2, FaultStepLemma DEF FaultStep

\* A step of the gateway or of a user leaves the Agent as it is; a step of the Agent
\* leaves the rows as they are, and changes the cache and the disk in four ways.
\* Unless a save fails, a result reaches both together.
WorkStep ==
    \/ UNCHANGED <<seen, receipt, execs>>
    \/ \E o \in Op : /\ Prunable(o) /\ seen' = [seen EXCEPT ![o] = "absent"]
                     /\ UNCHANGED <<status, receipt, execs>>
    \/ \E o \in Op : /\ Unseen(o) /\ inflight[o] > 0 /\ seen' = [seen EXCEPT ![o] = "executing"]
                     /\ execs' = [execs EXCEPT ![o] = @ + 1]
                     /\ UNCHANGED <<status, receipt>>
    \/ \E o \in Op, r \in Results :
          /\ seen[o] = "executing" \/ (Unseen(o) /\ o \in Scans /\ r = "cancelled")
          /\ seen' = [seen EXCEPT ![o] = r]
          /\ receipt' = [receipt EXCEPT ![o] = r] \/ (~ReceiptsHold' /\ receipt' = receipt)
          /\ UNCHANGED <<status, execs>>
    \/ seen' = [o \in Op |-> "absent"] /\ UNCHANGED <<status, receipt, execs>>

\* Every step is one of these.
LEMMA WorkStepLemma == TypeOK /\ [Next]_vars => WorkStep
<1> SUFFICES ASSUME TypeOK, [Next]_vars PROVE WorkStep
  OBVIOUS
<1> USE DEF WorkStep
<1>0. ASSUME NEW i \in Interrupts, NEW r \in Results, NEW more, Interrupting(i), EndInterrupt(i, r, more),
             UNCHANGED <<status, execs>>
      PROVE  WorkStep
  <2>1. CASE i \in rerun
    BY <1>0, <2>1 DEF EndInterrupt
  <2>2. CASE i \notin rerun
    <3>1. PICK saved \in BOOLEAN : Saved(saved, more, Result(i, r)) /\ Complete(i, r, saved)
      BY <1>0, <2>2 DEF EndInterrupt
    <3>2. saved \/ ~ReceiptsHold'
      BY <3>1 DEF Saved, Fault, ReceiptsHold, ReceiptFaults, TypeOK, FaultHistory
    <3>3. i \in Op /\ seen[i] = "executing"
      BY <1>0, <2>2 DEF Interrupting, Op
    <3>4. /\ seen' = [seen EXCEPT ![i] = r]
          /\ receipt' = [receipt EXCEPT ![i] = r] \/ (~ReceiptsHold' /\ receipt' = receipt)
      BY <3>1, <3>2 DEF Complete
    <3> QED BY <1>0, <3>3, <3>4
  <2> QED BY <2>1, <2>2
<1>1. ASSUME NEW o \in Op, QueueOperation(o) PROVE WorkStep
  BY <1>1 DEF QueueOperation, agentVars, history
<1>2. ASSUME NEW i \in Interrupts, NEW t \in Scans, RequestOperationInterrupt(i, t) PROVE WorkStep
  BY <1>2 DEF RequestOperationInterrupt, agentVars, history
<1>3. ASSUME NEW o \in Turns, CancelQueuedTurn(o) PROVE WorkStep
  BY <1>3 DEF CancelQueuedTurn, agentVars, history
<1>4. ASSUME NEW o \in FileScans, ExpireWorkspaceFileScan(o) PROVE WorkStep
  BY <1>4 DEF ExpireWorkspaceFileScan, agentVars, history
<1>5. ASSUME NEW o \in Turns, ReadTurn(o) PROVE WorkStep
  BY <1>5 DEF ReadTurn, agentVars, history
<1>6. ASSUME NEW o \in Turns, ClaimTurn(o) PROVE WorkStep
  BY <1>6 DEF ClaimTurn, Claimable, agentVars, history
<1>7. ASSUME NEW o \in Turns, SendTurn(o) PROVE WorkStep
  BY <1>7 DEF SendTurn, agentVars, history
<1>8. ASSUME NEW o \in Op \ Turns, SendOperation(o) PROVE WorkStep
  BY <1>8 DEF SendOperation, agentVars, history
<1>9. ASSUME NEW o \in Op \ Turns, MarkDelivered(o) PROVE WorkStep
  BY <1>9 DEF MarkDelivered, Marked, agentVars, history
<1>10. CASE HandleStarted
  BY <1>10 DEF HandleStarted, agentVars, history
<1>11. CASE HandleResult
  BY <1>11 DEF HandleResult, Completable, agentVars, history
<1>12. ASSUME NEW o \in Op, Prune(o) PROVE WorkStep
  BY <1>12 DEF Prune, dbVars, history
<1>13. ASSUME NEW o \in Op, Register(o) PROVE WorkStep
  BY <1>13 DEF Register, dbVars
<1>14. ASSUME NEW o \in Op, Replay(o) PROVE WorkStep
  BY <1>14 DEF Replay, dbVars
<1>15. ASSUME NEW o \in Op, ReplayUnreadable(o) PROVE WorkStep
  BY <1>15 DEF ReplayUnreadable, dbVars
<1>16. ASSUME NEW o \in Op \ Interrupts, NEW r \in Results, Finish(o, r) PROVE WorkStep
  <2>1. PICK saved \in BOOLEAN : Saved(saved, <<>>, Result(o, r)) /\ Complete(o, r, saved)
    BY <1>16 DEF Finish
  <2>2. saved \/ ~ReceiptsHold'
    BY <2>1 DEF Saved, Fault, ReceiptsHold, ReceiptFaults, TypeOK, FaultHistory
  <2>3. /\ seen' = [seen EXCEPT ![o] = r]
        /\ receipt' = [receipt EXCEPT ![o] = r] \/ (~ReceiptsHold' /\ receipt' = receipt)
    BY <2>1, <2>2 DEF Complete
  <2>4. seen[o] = "executing" /\ UNCHANGED <<status, execs>>
    BY <1>16 DEF Finish, dbVars
  <2> QED BY <2>3, <2>4
<1>17. ASSUME NEW i \in Interrupts, InterruptCancel(i) PROVE WorkStep
  BY <1>17 DEF InterruptCancel, dbVars, history
<1>18. ASSUME NEW i \in Interrupts, InterruptTimeout(i) PROVE WorkStep
  <2>1. PICK r, more : r \in Results /\ EndInterrupt(i, r, more)
    BY <1>18 DEF InterruptTimeout, Results
  <2>2. Interrupting(i) /\ UNCHANGED <<status, execs>>
    BY <1>18 DEF InterruptTimeout, dbVars
  <2> QED BY <1>0, <2>1, <2>2
<1>19. ASSUME NEW i \in Interrupts, InterruptDone(i) PROVE WorkStep
  <2>1. PICK r, more : r \in Results /\ EndInterrupt(i, r, more)
    BY <1>19 DEF InterruptDone, Results
  <2>2. Interrupting(i) /\ UNCHANGED <<status, execs>>
    BY <1>19 DEF InterruptDone, dbVars
  <2> QED BY <1>0, <2>1, <2>2
<1>20. ASSUME NEW i \in Interrupts, InterruptTombstone(i) PROVE WorkStep
  <2>1. target[i] \in Scans /\ target[i] \in Op /\ "cancelled" \in Results
    BY <1>20 DEF InterruptTombstone, Interrupting, Op, Results
  <2>2. Unseen(target[i])
    BY <1>20, <2>1 DEF InterruptTombstone, Recorded, Unseen, TypeOK, Results
  <2>3. /\ seen' = [seen EXCEPT ![target[i]] = "cancelled"]
        /\ receipt' = [receipt EXCEPT ![target[i]] = "cancelled"]
        /\ UNCHANGED <<status, execs>>
    BY <1>20 DEF InterruptTombstone, Tombstone, dbVars, history
  <2> QED BY <2>1, <2>2, <2>3
<1>21. ASSUME NEW i \in Interrupts, InterruptUnsaved(i) PROVE WorkStep
  <2>1. PICK r, more : r \in Results /\ EndInterrupt(i, r, more)
    BY <1>21 DEF InterruptUnsaved, Results
  <2>2. Interrupting(i) /\ UNCHANGED <<status, execs>>
    BY <1>21 DEF InterruptUnsaved, dbVars
  <2> QED BY <1>0, <2>1, <2>2
<1>22. ASSUME NEW o \in Turns, ReconcileTurn(o) PROVE WorkStep
  BY <1>22 DEF ReconcileTurn, dbVars, history
<1>23. CASE RejectMessage
  BY <1>23 DEF RejectMessage, dbVars, agentVars
<1>24. CASE Disconnect
  BY <1>24 DEF Disconnect, LoseCommands, agentVars
<1>25. CASE Shutdown
  BY <1>25 DEF Shutdown, LoseCommands
<1>26. CASE Crash
  BY <1>26 DEF Crash, LoseCommands
<1>27. CASE UNCHANGED vars
  BY <1>27 DEF vars
<1> QED BY <1>1, <1>2, <1>3, <1>4, <1>5, <1>6, <1>7, <1>8, <1>9, <1>10, <1>11, <1>12, <1>13,
           <1>14, <1>15, <1>16, <1>17, <1>18, <1>19, <1>20, <1>21, <1>22, <1>23, <1>24, <1>25, <1>26,
           <1>27
        DEF Next, Request, Gateway, Agent, Environment, ClaimedFirst

\* A receipt, once there, is never changed.
ReceiptKept == \A o \in Op : receipt[o] /= "none" => receipt'[o] = receipt[o]

\* The cache and the disk keep agreeing, and a receipt is never rewritten.
LEMMA CacheInductive ==
    TypeOK /\ ReceiptsHold' /\ CacheMatchesDisk /\ WorkStep => CacheMatchesDisk' /\ ReceiptKept
<1> SUFFICES ASSUME TypeOK, ReceiptsHold', CacheMatchesDisk, WorkStep PROVE CacheMatchesDisk' /\ ReceiptKept
  OBVIOUS
<1> USE DEF TypeOK, CacheMatchesDisk, ReceiptKept, Results
<1>1. CASE UNCHANGED <<seen, receipt>>
  BY <1>1
<1>2. ASSUME NEW o \in Op, seen' = [seen EXCEPT ![o] = "absent"], receipt' = receipt
      PROVE  CacheMatchesDisk' /\ ReceiptKept
  BY <1>2
<1>3. ASSUME NEW o \in Op, Unseen(o), seen' = [seen EXCEPT ![o] = "executing"], receipt' = receipt
      PROVE  CacheMatchesDisk' /\ ReceiptKept
  BY <1>3 DEF Unseen
<1>4. ASSUME NEW o \in Op, NEW r \in Results, seen[o] = "executing" \/ Unseen(o),
             seen' = [seen EXCEPT ![o] = r], receipt' = [receipt EXCEPT ![o] = r]
      PROVE  CacheMatchesDisk' /\ ReceiptKept
  BY <1>4 DEF Unseen
<1>5. CASE seen' = [o \in Op |-> "absent"] /\ receipt' = receipt
  BY <1>5
<1> QED BY <1>1, <1>2, <1>3, <1>4, <1>5 DEF WorkStep

\* What a step does to the rows: nothing, or it queues one, moves one among the
\* active states, cancels a queued turn, lets a scan expire or takes the result at
\* the head of the queue.
StatusStep ==
    \/ UNCHANGED status
    \/ \E o \in Op : /\ status[o] = "none" /\ (o \in Writers => WriteLockFree(o))
                     /\ status' = [status EXCEPT ![o] = "queued"]
    \/ \E o \in Op, st \in Active : status[o] \in Active /\ status' = [status EXCEPT ![o] = st]
    \/ \E o \in Turns : /\ status[o] = "queued" /\ status' = [status EXCEPT ![o] = "cancelled"]
                        /\ UNCHANGED <<claimed, inflight, execs>>
    \/ \E o \in FileScans : status[o] \in Active /\ status' = [status EXCEPT ![o] = "failed"]
    \/ /\ reports /= <<>> /\ Head(reports).kind = "operation_result"
       /\ status[Head(reports).op] \in Active
       /\ status' = [status EXCEPT ![Head(reports).op] = Stored(Head(reports).result)]

\* Every step is one of these.
LEMMA StatusStepLemma == TypeOK /\ [Next]_vars => StatusStep
<1> SUFFICES ASSUME TypeOK, [Next]_vars PROVE StatusStep
  OBVIOUS
<1> USE OpAssumption DEF StatusStep, TypeOK, Op, Active
<1>1. ASSUME NEW o \in Op, QueueOperation(o) PROVE StatusStep
  BY <1>1 DEF QueueOperation
<1>2. ASSUME NEW i \in Interrupts, NEW t \in Scans, RequestOperationInterrupt(i, t) PROVE StatusStep
  <2>1. i \in Op /\ i \notin Writers /\ status[i] = "none"
    BY <1>2 DEF RequestOperationInterrupt, Writers
  <2> QED BY <1>2, <2>1 DEF RequestOperationInterrupt
<1>3. ASSUME NEW o \in Turns, CancelQueuedTurn(o) PROVE StatusStep
  BY <1>3 DEF CancelQueuedTurn, agentVars, history
<1>4. ASSUME NEW o \in FileScans, ExpireWorkspaceFileScan(o) PROVE StatusStep
  BY <1>4 DEF ExpireWorkspaceFileScan, agentVars, history
<1>5. ASSUME NEW o \in Turns, ReadTurn(o) PROVE StatusStep
  BY <1>5 DEF ReadTurn, agentVars, history
<1>6. ASSUME NEW o \in Turns, ClaimTurn(o) PROVE StatusStep
  BY <1>6 DEF ClaimTurn, Claimable, agentVars, history
<1>7. ASSUME NEW o \in Turns, SendTurn(o) PROVE StatusStep
  BY <1>7 DEF SendTurn, agentVars, history
<1>8. ASSUME NEW o \in Op \ Turns, SendOperation(o) PROVE StatusStep
  BY <1>8 DEF SendOperation, agentVars, history
<1>9. ASSUME NEW o \in Op \ Turns, MarkDelivered(o) PROVE StatusStep
  <2>1. CASE status[o] = "queued"
    BY <1>9, <2>1 DEF MarkDelivered, Marked
  <2>2. CASE status[o] /= "queued"
    <3>1. status' = status
      BY <1>9, <2>2 DEF MarkDelivered, Marked
    <3> QED BY <3>1
  <2> QED BY <2>1, <2>2
<1>10. CASE HandleStarted
  <2> DEFINE o == Head(reports).op
  <2>1. o \in Op
    BY <1>10, HeadType DEF HandleStarted
  <2>2. \/ UNCHANGED status
        \/ status[o] \in Active /\ status' = [status EXCEPT ![o] = "running"]
    BY <1>10 DEF HandleStarted
  <2> QED BY <2>1, <2>2
<1>11. CASE HandleResult
  <2>1. Head(reports).op \in Op
    BY <1>11, HeadType DEF HandleResult
  <2> QED BY <1>11, <2>1 DEF HandleResult, Completable
<1>12. ASSUME NEW o \in Op, Prune(o) PROVE StatusStep
  BY <1>12 DEF Prune, dbVars, history
<1>13. ASSUME NEW o \in Op, Register(o) PROVE StatusStep
  BY <1>13 DEF Register, dbVars
<1>14. ASSUME NEW o \in Op, Replay(o) PROVE StatusStep
  BY <1>14 DEF Replay, dbVars
<1>15. ASSUME NEW o \in Op, ReplayUnreadable(o) PROVE StatusStep
  BY <1>15 DEF ReplayUnreadable, dbVars
<1>16. ASSUME NEW o \in Op \ Interrupts, NEW r \in Results, Finish(o, r) PROVE StatusStep
  BY <1>16 DEF Finish, dbVars
<1>17. ASSUME NEW i \in Interrupts, InterruptCancel(i) PROVE StatusStep
  BY <1>17 DEF InterruptCancel, dbVars, history
<1>18. ASSUME NEW i \in Interrupts, InterruptTimeout(i) PROVE StatusStep
  BY <1>18 DEF InterruptTimeout, dbVars
<1>19. ASSUME NEW i \in Interrupts, InterruptDone(i) PROVE StatusStep
  BY <1>19 DEF InterruptDone, dbVars
<1>20. ASSUME NEW i \in Interrupts, InterruptTombstone(i) PROVE StatusStep
  BY <1>20 DEF InterruptTombstone, dbVars, history
<1>21. ASSUME NEW i \in Interrupts, InterruptUnsaved(i) PROVE StatusStep
  BY <1>21 DEF InterruptUnsaved, dbVars
<1>22. ASSUME NEW o \in Turns, ReconcileTurn(o) PROVE StatusStep
  BY <1>22 DEF ReconcileTurn, dbVars, history
<1>23. CASE RejectMessage
  BY <1>23 DEF RejectMessage, dbVars, agentVars
<1>24. CASE Disconnect
  BY <1>24 DEF Disconnect, LoseCommands, agentVars
<1>25. CASE Shutdown
  BY <1>25 DEF Shutdown, LoseCommands
<1>26. CASE Crash
  BY <1>26 DEF Crash, LoseCommands
<1>27. CASE UNCHANGED vars
  BY <1>27 DEF vars
<1> QED BY <1>1, <1>2, <1>3, <1>4, <1>5, <1>6, <1>7, <1>8, <1>9, <1>10, <1>11, <1>12, <1>13,
           <1>14, <1>15, <1>16, <1>17, <1>18, <1>19, <1>20, <1>21, <1>22, <1>23, <1>24, <1>25, <1>26,
           <1>27
        DEF Next, Request, Gateway, Agent, Environment, ClaimedFirst

\* A row that is terminal stays as it is, and becomes terminal by a result at
\* the head of the queue, by the cancellation of a queued turn, or by expiry.
RowStep ==
    \A p \in Op :
        /\ status[p] \in Terminal => status'[p] = status[p]
        /\ status'[p] \in Terminal =>
              \/ status'[p] = status[p]
              \/ p \in FileScans
              \/ /\ p \in Turns /\ status[p] = "queued" /\ status'[p] = "cancelled"
                 /\ UNCHANGED <<claimed, inflight, execs>>
              \/ /\ reports /= <<>> /\ Head(reports).kind = "operation_result"
                 /\ Head(reports).op = p /\ status'[p] = Stored(Head(reports).result)

\* Every step treats the rows so.
LEMMA RowStepLemma == TypeOK /\ [Next]_vars => RowStep
<1> SUFFICES ASSUME TypeOK, StatusStep PROVE RowStep
  BY StatusStepLemma
<1> USE OpAssumption DEF RowStep, TypeOK, Op, Active, Terminal
<1>1. CASE UNCHANGED status
  BY <1>1
<1>2. ASSUME NEW o \in Op, NEW st \in Active, status[o] \notin Terminal,
             status' = [status EXCEPT ![o] = st]
      PROVE  RowStep
  BY <1>2
<1>3. ASSUME NEW o \in Turns, status[o] = "queued", status' = [status EXCEPT ![o] = "cancelled"],
             UNCHANGED <<claimed, inflight, execs>>
      PROVE  RowStep
  BY <1>3
<1>4. ASSUME NEW o \in FileScans, status[o] \in Active, status' = [status EXCEPT ![o] = "failed"]
      PROVE  RowStep
  BY <1>4
<1>5. CASE /\ reports /= <<>> /\ Head(reports).kind = "operation_result"
           /\ status[Head(reports).op] \in Active
           /\ status' = [status EXCEPT ![Head(reports).op] = Stored(Head(reports).result)]
  BY <1>5, HeadType
<1> QED BY <1>1, <1>2, <1>3, <1>4, <1>5 DEF StatusStep

\* A turn that is no longer queued and was never sent is never executed.
UnsentStep ==
    \A p \in Turns :
        p \notin claimed /\ inflight[p] = 0 /\ status[p] /= "queued" =>
            p \notin claimed' /\ inflight'[p] = 0 /\ execs'[p] = execs[p]

\* Every step treats such a turn so.
LEMMA UnsentStepLemma == TypeOK /\ [Next]_vars => UnsentStep
<1> SUFFICES ASSUME TypeOK, [Next]_vars PROVE UnsentStep
  OBVIOUS
<1> USE OpAssumption DEF UnsentStep, TypeOK, Op
<1>1. ASSUME NEW o \in Op, QueueOperation(o) PROVE UnsentStep
  BY <1>1 DEF QueueOperation, agentVars, history
<1>2. ASSUME NEW i \in Interrupts, NEW t \in Scans, RequestOperationInterrupt(i, t) PROVE UnsentStep
  BY <1>2 DEF RequestOperationInterrupt, agentVars, history
<1>3. ASSUME NEW o \in Turns, CancelQueuedTurn(o) PROVE UnsentStep
  BY <1>3 DEF CancelQueuedTurn, agentVars, history
<1>4. ASSUME NEW o \in FileScans, ExpireWorkspaceFileScan(o) PROVE UnsentStep
  BY <1>4 DEF ExpireWorkspaceFileScan, agentVars, history
<1>5. ASSUME NEW o \in Turns, ReadTurn(o) PROVE UnsentStep
  BY <1>5 DEF ReadTurn, agentVars, history
<1>6. ASSUME NEW o \in Turns, ClaimTurn(o) PROVE UnsentStep
  BY <1>6 DEF ClaimTurn, Claimable, agentVars, history
<1>7. ASSUME NEW o \in Turns, SendTurn(o) PROVE UnsentStep
  BY <1>7 DEF SendTurn, agentVars, history
<1>8. ASSUME NEW o \in Op \ Turns, SendOperation(o) PROVE UnsentStep
  BY <1>8 DEF SendOperation, agentVars, history
<1>9. ASSUME NEW o \in Op \ Turns, MarkDelivered(o) PROVE UnsentStep
  BY <1>9 DEF MarkDelivered, Marked, agentVars, history
<1>10. CASE HandleStarted
  BY <1>10 DEF HandleStarted, agentVars, history
<1>11. CASE HandleResult
  BY <1>11 DEF HandleResult, Completable, agentVars, history
<1>12. ASSUME NEW o \in Op, Prune(o) PROVE UnsentStep
  BY <1>12 DEF Prune, dbVars, history
<1>13. ASSUME NEW o \in Op, Register(o) PROVE UnsentStep
  BY <1>13 DEF Register, dbVars
<1>14. ASSUME NEW o \in Op, Replay(o) PROVE UnsentStep
  BY <1>14 DEF Replay, dbVars
<1>15. ASSUME NEW o \in Op, ReplayUnreadable(o) PROVE UnsentStep
  BY <1>15 DEF ReplayUnreadable, dbVars
<1>16. ASSUME NEW o \in Op \ Interrupts, NEW r \in Results, Finish(o, r) PROVE UnsentStep
  BY <1>16 DEF Finish, dbVars
<1>17. ASSUME NEW i \in Interrupts, InterruptCancel(i) PROVE UnsentStep
  BY <1>17 DEF InterruptCancel, dbVars, history
<1>18. ASSUME NEW i \in Interrupts, InterruptTimeout(i) PROVE UnsentStep
  BY <1>18 DEF InterruptTimeout, dbVars
<1>19. ASSUME NEW i \in Interrupts, InterruptDone(i) PROVE UnsentStep
  BY <1>19 DEF InterruptDone, dbVars
<1>20. ASSUME NEW i \in Interrupts, InterruptTombstone(i) PROVE UnsentStep
  BY <1>20 DEF InterruptTombstone, dbVars, history
<1>21. ASSUME NEW i \in Interrupts, InterruptUnsaved(i) PROVE UnsentStep
  BY <1>21 DEF InterruptUnsaved, dbVars
<1>22. ASSUME NEW o \in Turns, ReconcileTurn(o) PROVE UnsentStep
  BY <1>22 DEF ReconcileTurn, dbVars, history
<1>23. CASE RejectMessage
  BY <1>23 DEF RejectMessage, dbVars, agentVars
<1>24. CASE Disconnect
  BY <1>24 DEF Disconnect, LoseCommands, agentVars
<1>25. CASE Shutdown
  BY <1>25 DEF Shutdown, LoseCommands
<1>26. CASE Crash
  BY <1>26 DEF Crash, LoseCommands
<1>27. CASE UNCHANGED vars
  BY <1>27 DEF vars
<1> QED BY <1>1, <1>2, <1>3, <1>4, <1>5, <1>6, <1>7, <1>8, <1>9, <1>10, <1>11, <1>12, <1>13,
           <1>14, <1>15, <1>16, <1>17, <1>18, <1>19, <1>20, <1>21, <1>22, <1>23, <1>24, <1>25, <1>26,
           <1>27
        DEF Next, Request, Gateway, Agent, Environment, ClaimedFirst

-----------------------------------------------------------------------------
(***************************************************************************)
(* The inductive invariant: what rests on the receipts.                    *)
(***************************************************************************)

\* The results on their way stay the ones on disk.
LEMMA ReportsInductive ==
    TypeOK /\ ReceiptsHold' /\ ReceiptsTrusted /\ ReceiptKept /\ [Next]_vars => reports' \in Seq(Truthful')
<1> SUFFICES ASSUME TypeOK, ReceiptsHold', ReceiptsTrusted, ReceiptKept, [Next]_vars
             PROVE  reports' \in Seq(Truthful')
  OBVIOUS
<1>a. reports \in Seq(Truthful')
  <2>1. Truthful \subseteq Truthful'
    <3> SUFFICES ASSUME NEW m \in Truthful PROVE m \in Truthful'
      OBVIOUS
    <3>1. m \in Message /\ m.op \in Op
      BY DEF Truthful, Message
    <3>2. m.kind = "operation_result" => m.result \in Results
      BY <3>1 DEF Message
    <3> QED BY <3>1, <3>2 DEF Truthful, ReceiptKept, Results
  <2> QED BY <2>1, WiderSeq DEF ReceiptsTrusted
<1>b. ASSUME NEW o \in Op PROVE Started(o) \in Truthful'
  BY MessageType DEF Truthful, Started
<1>c. ASSUME NEW o \in Op, NEW r \in Results, receipt'[o] = r PROVE Result(o, r) \in Truthful'
  BY <1>c, MessageType DEF Truthful, Result
<1>d. ASSUME NEW o \in Op, Recorded(o) \in Results
      PROVE  receipt[o] = Recorded(o) /\ Result(o, Recorded(o)) \in Truthful'
  <2>1. receipt[o] = Recorded(o)
    BY <1>d DEF ReceiptsTrusted, CacheMatchesDisk, Recorded, TypeOK, Results
  <2>2. receipt'[o] = Recorded(o)
    BY <1>d, <2>1 DEF ReceiptKept, Results
  <2> QED BY <1>d, <2>1, <2>2, <1>c
<1>e. ASSUME NEW i \in Interrupts, NEW r \in {"failed", "succeeded"}, NEW more \in Seq(Truthful'),
             EndInterrupt(i, r, more)
      PROVE  reports' \in Seq(Truthful')
  <2>1. i \in Op /\ r \in Results
    BY DEF Op, Results
  <2>2. CASE i \in rerun
    <3>1. receipt[i] = "succeeded" /\ receipt' = receipt /\ Saved(TRUE, more, Result(i, r))
      BY <1>e, <2>2 DEF EndInterrupt, ReceiptsTrusted
    <3>2. Result(i, r) \in Truthful'
      BY <2>1, <3>1, MessageType DEF Truthful, Result
    <3> QED BY <1>a, <1>e, <3>1, <3>2, SavedSeq
  <2>3. CASE i \notin rerun
    <3>1. PICK saved \in BOOLEAN : Saved(saved, more, Result(i, r)) /\ Complete(i, r, saved)
      BY <1>e, <2>3 DEF EndInterrupt
    <3>2. saved
      BY <3>1 DEF Saved, Fault, ReceiptsHold, ReceiptFaults, TypeOK, FaultHistory
    <3>3. receipt'[i] = r
      BY <2>1, <3>1, <3>2 DEF Complete, TypeOK
    <3>4. Result(i, r) \in Truthful'
      BY <2>1, <3>3, <1>c
    <3> QED BY <1>a, <1>e, <3>1, <3>4, SavedSeq
  <2> QED BY <2>2, <2>3
<1>f. <<>> \in Seq(Truthful')
  BY EmptySeq
<1>1. ASSUME NEW o \in Op, QueueOperation(o) PROVE reports' \in Seq(Truthful')
  BY <1>1, <1>a DEF QueueOperation
<1>2. ASSUME NEW i \in Interrupts, NEW t \in Scans, RequestOperationInterrupt(i, t) PROVE reports' \in Seq(Truthful')
  BY <1>2, <1>a DEF RequestOperationInterrupt
<1>3. ASSUME NEW o \in Turns, CancelQueuedTurn(o) PROVE reports' \in Seq(Truthful')
  BY <1>3, <1>a DEF CancelQueuedTurn
<1>4. ASSUME NEW o \in FileScans, ExpireWorkspaceFileScan(o) PROVE reports' \in Seq(Truthful')
  BY <1>4, <1>a DEF ExpireWorkspaceFileScan
<1>5. ASSUME NEW o \in Turns, ReadTurn(o) PROVE reports' \in Seq(Truthful')
  BY <1>5, <1>a DEF ReadTurn
<1>6. ASSUME NEW o \in Turns, ClaimTurn(o) PROVE reports' \in Seq(Truthful')
  BY <1>6, <1>a DEF ClaimTurn
<1>7. ASSUME NEW o \in Turns, SendTurn(o) PROVE reports' \in Seq(Truthful')
  BY <1>7, <1>a DEF SendTurn
<1>8. ASSUME NEW o \in Op \ Turns, SendOperation(o) PROVE reports' \in Seq(Truthful')
  BY <1>8, <1>a DEF SendOperation
<1>9. ASSUME NEW o \in Op \ Turns, MarkDelivered(o) PROVE reports' \in Seq(Truthful')
  BY <1>9, <1>a DEF MarkDelivered
<1>10. CASE HandleStarted
  BY <1>10, <1>a, TailSeq DEF HandleStarted
<1>11. CASE HandleResult
  BY <1>11, <1>a, TailSeq DEF HandleResult
<1>12. ASSUME NEW o \in Op, Prune(o) PROVE reports' \in Seq(Truthful')
  BY <1>12, <1>a DEF Prune
<1>13. ASSUME NEW o \in Op, Register(o) PROVE reports' \in Seq(Truthful')
  BY <1>13, <1>a, <1>b, QueuedSeq DEF Register
<1>14. ASSUME NEW o \in Op, Replay(o) PROVE reports' \in Seq(Truthful')
  <2>1. Result(o, Recorded(o)) \in Truthful'
    BY <1>14, <1>d DEF Replay
  <2> QED BY <1>14, <1>a, <2>1, QueuedSeq DEF Replay
<1>15. ASSUME NEW o \in Op, ReplayUnreadable(o) PROVE reports' \in Seq(Truthful')
  BY <1>15 DEF ReplayUnreadable, Fault, ReceiptsHold, ReceiptFaults, TypeOK, FaultHistory
<1>16. ASSUME NEW o \in Op \ Interrupts, NEW r \in Results, Finish(o, r) PROVE reports' \in Seq(Truthful')
  <2>1. PICK saved \in BOOLEAN : Saved(saved, <<>>, Result(o, r)) /\ Complete(o, r, saved)
    BY <1>16 DEF Finish
  <2>2. saved
    BY <2>1 DEF Saved, Fault, ReceiptsHold, ReceiptFaults, TypeOK, FaultHistory
  <2>3. Result(o, r) \in Truthful'
    BY <1>c, <2>1, <2>2 DEF Complete, TypeOK
  <2> QED BY <1>a, <1>f, <2>1, <2>3, SavedSeq
<1>17. ASSUME NEW i \in Interrupts, InterruptCancel(i) PROVE reports' \in Seq(Truthful')
  BY <1>17, <1>a DEF InterruptCancel
<1>18. ASSUME NEW i \in Interrupts, InterruptTimeout(i) PROVE reports' \in Seq(Truthful')
  BY <1>18, <1>e, <1>f DEF InterruptTimeout
<1>19. ASSUME NEW i \in Interrupts, InterruptDone(i) PROVE reports' \in Seq(Truthful')
  <2>1. target[i] \in Op /\ Recorded(target[i]) \in Results
    BY <1>19 DEF InterruptDone, Interrupting, Op
  <2>2. <<Result(target[i], Recorded(target[i]))>> \in Seq(Truthful')
    BY <1>d, <2>1
  <2> QED BY <1>19, <1>e, <1>f, <2>2 DEF InterruptDone
<1>20. ASSUME NEW i \in Interrupts, InterruptTombstone(i) PROVE reports' \in Seq(Truthful')
  BY <1>20, <1>a DEF InterruptTombstone
<1>21. ASSUME NEW i \in Interrupts, InterruptUnsaved(i) PROVE reports' \in Seq(Truthful')
  BY <1>21, <1>e, <1>f DEF InterruptUnsaved
<1>22. ASSUME NEW o \in Turns, ReconcileTurn(o) PROVE reports' \in Seq(Truthful')
  <2>1. <<Result(o, Recorded(o))>> \in Seq(Truthful')
    BY <1>22, <1>d DEF ReconcileTurn, Op
  <2> QED BY <1>22, <1>a, <2>1, QueueSeq DEF ReconcileTurn
<1>23. CASE RejectMessage
  BY <1>23, <1>a, TailSeq DEF RejectMessage
<1>24. CASE Disconnect
  BY <1>24, <1>a, DisconnectSeq
<1>25. CASE Shutdown
  BY <1>25, <1>a, LoseReportsSeq DEF Shutdown
<1>26. CASE Crash
  BY <1>26, <1>a, LoseReportsSeq DEF Crash
<1>27. CASE UNCHANGED vars
  BY <1>27, <1>a DEF vars
<1> QED BY <1>1, <1>2, <1>3, <1>4, <1>5, <1>6, <1>7, <1>8, <1>9, <1>10, <1>11, <1>12, <1>13,
           <1>14, <1>15, <1>16, <1>17, <1>18, <1>19, <1>20, <1>21, <1>22, <1>23, <1>24, <1>25, <1>26,
           <1>27
        DEF Next, Request, Gateway, Agent, Environment, ClaimedFirst

\* Every terminal row stays settled.
LEMMA SettledInductive ==
    ASSUME TypeOK, Counts, ReceiptsTrusted, ReceiptKept, RowStep, UnsentStep,
           NEW p \in Op \ FileScans, status'[p] \in Terminal
    PROVE  Settled(p)'
<1>1. CASE status[p] \in Terminal
  <2>1. status'[p] = status[p] /\ Settled(p)
    BY <1>1 DEF RowStep, ReceiptsTrusted
  <2> QED BY <1>1, <2>1 DEF Settled, ReceiptKept, UnsentStep, Terminal
<1>2. CASE /\ status[p] \notin Terminal
           /\ p \in Turns /\ status[p] = "queued" /\ status'[p] = "cancelled"
           /\ UNCHANGED <<claimed, inflight, execs>>
  BY <1>2 DEF Settled, Counts, TurnsSentOnce
<1>3. CASE /\ status[p] \notin Terminal
           /\ reports /= <<>> /\ Head(reports).kind = "operation_result"
           /\ Head(reports).op = p /\ status'[p] = Stored(Head(reports).result)
  <2>1. Head(reports) \in Truthful /\ Head(reports).result \in Results
    BY <1>3, TailSeq, HeadType DEF ReceiptsTrusted
  <2> QED BY <1>3, <2>1 DEF Truthful, Settled, ReceiptKept, Stored, Results
<1> QED BY <1>1, <1>2, <1>3 DEF RowStep

\* Repetitions and acknowledged interruptions.
InterruptsSettled(i) ==
    /\ i \in rerun => receipt[i] = "succeeded"
    /\ receipt[i] = "succeeded" => target[i] \in Scans /\ receipt[target[i]] /= "none"

\* What a step may do to an interruption: begin its repetition, give it a
\* target before it is known anywhere, acknowledge it.
InterruptStep ==
    \A p \in Interrupts :
        /\ p \in rerun' => p \in rerun \/ Recorded(p) = "succeeded"
        /\ target'[p] = target[p] \/ (status[p] = "none" /\ UNCHANGED receipt)
        /\ receipt'[p] = "succeeded" =>
              \/ receipt[p] = "succeeded"
              \/ target[p] \in Scans /\ Recorded(target[p]) \in Results

\* Every step treats interruptions so.
LEMMA InterruptStepLemma == TypeOK /\ [Next]_vars => InterruptStep
<1> SUFFICES ASSUME TypeOK, [Next]_vars PROVE InterruptStep
  OBVIOUS
<1> USE OpAssumption DEF InterruptStep, TypeOK, Op
<1>0. ASSUME NEW i \in Interrupts, NEW r, NEW more, EndInterrupt(i, r, more), UNCHANGED target,
             r = "succeeded" => target[i] \in Scans /\ Recorded(target[i]) \in Results
      PROVE  InterruptStep
  <2>1. rerun' \subseteq rerun
    BY <1>0 DEF EndInterrupt
  <2>2. receipt' = receipt \/ receipt' = [receipt EXCEPT ![i] = r]
    BY <1>0 DEF EndInterrupt, Complete
  <2> QED BY <1>0, <2>1, <2>2
<1>1. ASSUME NEW o \in Op, QueueOperation(o) PROVE InterruptStep
  BY <1>1 DEF QueueOperation, agentVars, history
<1>2. ASSUME NEW i \in Interrupts, NEW t \in Scans, RequestOperationInterrupt(i, t) PROVE InterruptStep
  BY <1>2 DEF RequestOperationInterrupt, agentVars, history
<1>3. ASSUME NEW o \in Turns, CancelQueuedTurn(o) PROVE InterruptStep
  BY <1>3 DEF CancelQueuedTurn, agentVars, history
<1>4. ASSUME NEW o \in FileScans, ExpireWorkspaceFileScan(o) PROVE InterruptStep
  BY <1>4 DEF ExpireWorkspaceFileScan, agentVars, history
<1>5. ASSUME NEW o \in Turns, ReadTurn(o) PROVE InterruptStep
  BY <1>5 DEF ReadTurn, agentVars, history
<1>6. ASSUME NEW o \in Turns, ClaimTurn(o) PROVE InterruptStep
  BY <1>6 DEF ClaimTurn, Claimable, agentVars, history
<1>7. ASSUME NEW o \in Turns, SendTurn(o) PROVE InterruptStep
  BY <1>7 DEF SendTurn, agentVars, history
<1>8. ASSUME NEW o \in Op \ Turns, SendOperation(o) PROVE InterruptStep
  BY <1>8 DEF SendOperation, agentVars, history
<1>9. ASSUME NEW o \in Op \ Turns, MarkDelivered(o) PROVE InterruptStep
  BY <1>9 DEF MarkDelivered, Marked, agentVars, history
<1>10. CASE HandleStarted
  BY <1>10 DEF HandleStarted, agentVars, history
<1>11. CASE HandleResult
  BY <1>11 DEF HandleResult, Completable, agentVars, history
<1>12. ASSUME NEW o \in Op, Prune(o) PROVE InterruptStep
  BY <1>12 DEF Prune, dbVars, history
<1>13. ASSUME NEW o \in Op, Register(o) PROVE InterruptStep
  BY <1>13 DEF Register, dbVars
<1>14. ASSUME NEW o \in Op, Replay(o) PROVE InterruptStep
  BY <1>14 DEF Replay, dbVars
<1>15. ASSUME NEW o \in Op, ReplayUnreadable(o) PROVE InterruptStep
  BY <1>15 DEF ReplayUnreadable, dbVars
<1>16. ASSUME NEW o \in Op \ Interrupts, NEW r \in Results, Finish(o, r) PROVE InterruptStep
  <2>1. receipt' = receipt \/ receipt' = [receipt EXCEPT ![o] = r]
    BY <1>16 DEF Finish, Complete
  <2> QED BY <1>16, <2>1 DEF Finish, dbVars
<1>17. ASSUME NEW i \in Interrupts, InterruptCancel(i) PROVE InterruptStep
  BY <1>17 DEF InterruptCancel, dbVars, history
<1>18. ASSUME NEW i \in Interrupts, InterruptTimeout(i) PROVE InterruptStep
  BY <1>18, <1>0 DEF InterruptTimeout, dbVars
<1>19. ASSUME NEW i \in Interrupts, InterruptDone(i) PROVE InterruptStep
  BY <1>19, <1>0 DEF InterruptDone, Interrupting, dbVars
<1>20. ASSUME NEW i \in Interrupts, InterruptTombstone(i) PROVE InterruptStep
  BY <1>20 DEF InterruptTombstone, Tombstone, Interrupting, dbVars, history
<1>21. ASSUME NEW i \in Interrupts, InterruptUnsaved(i) PROVE InterruptStep
  BY <1>21, <1>0 DEF InterruptUnsaved, dbVars
<1>22. ASSUME NEW o \in Turns, ReconcileTurn(o) PROVE InterruptStep
  BY <1>22 DEF ReconcileTurn, dbVars, history
<1>23. CASE RejectMessage
  BY <1>23 DEF RejectMessage, dbVars, agentVars
<1>24. CASE Disconnect
  BY <1>24 DEF Disconnect, LoseCommands, agentVars
<1>25. CASE Shutdown
  BY <1>25 DEF Shutdown, LoseCommands
<1>26. CASE Crash
  BY <1>26 DEF Crash, LoseCommands
<1>27. CASE UNCHANGED vars
  BY <1>27 DEF vars
<1> QED BY <1>1, <1>2, <1>3, <1>4, <1>5, <1>6, <1>7, <1>8, <1>9, <1>10, <1>11, <1>12, <1>13,
           <1>14, <1>15, <1>16, <1>17, <1>18, <1>19, <1>20, <1>21, <1>22, <1>23, <1>24, <1>25, <1>26,
           <1>27
        DEF Next, Request, Gateway, Agent, Environment, ClaimedFirst

\* Repetitions and acknowledged interruptions keep their receipts.
LEMMA InterruptsInductive ==
    ASSUME TypeOK, Counts, ReceiptsTrusted, ReceiptKept, InterruptStep, NEW p \in Interrupts
    PROVE  InterruptsSettled(p)'
<1> USE DEF Op
<1>1. InterruptsSettled(p)
  BY DEF ReceiptsTrusted, InterruptsSettled
<1>2. p \in rerun' => receipt'[p] = "succeeded"
  <2>1. ASSUME Recorded(p) = "succeeded" PROVE receipt[p] = "succeeded"
    BY <2>1 DEF Recorded, ReceiptsTrusted, CacheMatchesDisk, Results
  <2> QED BY <1>1, <2>1 DEF InterruptStep, InterruptsSettled, ReceiptKept
<1>3. ASSUME receipt'[p] = "succeeded" PROVE target'[p] \in Scans /\ receipt'[target'[p]] /= "none"
  <2>1. ASSUME target[p] \in Scans, Recorded(target[p]) \in Results PROVE receipt[target[p]] /= "none"
    BY <2>1 DEF Recorded, ReceiptsTrusted, CacheMatchesDisk, Results
  <2>2. target[p] \in Scans /\ receipt[target[p]] /= "none"
    BY <1>1, <1>3, <2>1 DEF InterruptStep, InterruptsSettled
  <2>3. receipt'[target[p]] /= "none"
    BY <2>2 DEF ReceiptKept
  <2>4. target'[p] = target[p]
    <3>1. CASE status[p] = "none" /\ UNCHANGED receipt
      BY <1>3, <3>1, OpAssumption DEF Counts, UnknownBeforeQueued
    <3> QED BY <3>1 DEF InterruptStep
  <2> QED BY <2>2, <2>3, <2>4
<1> QED BY <1>2, <1>3 DEF InterruptsSettled

-----------------------------------------------------------------------------
(***************************************************************************)
(* The theorems.                                                           *)
(***************************************************************************)

\* The inductive invariant holds of every behaviour.
THEOREM Invariance == Spec => []IInv
<1>1. Init => IInv
  <2> SUFFICES ASSUME Init PROVE IInv
    OBVIOUS
  <2>1. TypeOK
    BY InitType
  <2>2. TurnsSentOnce /\ ExecutionsCounted
    BY OpAssumption DEF Init, TurnsSentOnce, ExecutionsCounted, Op
  <2>3. LockHeldOnce /\ UnknownBeforeQueued
    BY DEF Init, LockHeldOnce, UnknownBeforeQueued, Op, Writers, Active
  <2>4. ReceiptsTrusted
    <3>1. reports \in Seq(Truthful)
      BY EmptySeq DEF Init
    <3>2. CacheMatchesDisk
      BY DEF Init, CacheMatchesDisk, Results
    <3> QED BY <3>1, <3>2 DEF Init, ReceiptsTrusted, Terminal, Op
  <2> QED BY <2>1, <2>2, <2>3, <2>4 DEF IInv
<1>2. IInv /\ [Next]_vars => IInv'
  <2> SUFFICES ASSUME IInv, [Next]_vars PROVE IInv'
    OBVIOUS
  <2>1. TypeOK /\ Counts
    BY DEF IInv, Counts
  <2>2. TypeOK' /\ Counts'
    BY <2>1, TypeInductive, CountsInductive
  <2>3. ASSUME ReceiptsHold' PROVE ReceiptsTrusted'
    <3>1. ReceiptsTrusted /\ CacheMatchesDisk
      BY <2>1, <2>3, ReceiptsHoldStep DEF IInv, ReceiptsTrusted
    <3>2. CacheMatchesDisk' /\ ReceiptKept
      BY <2>1, <2>3, <3>1, WorkStepLemma, CacheInductive
    <3>3. reports' \in Seq(Truthful')
      BY <2>1, <2>3, <3>1, <3>2, ReportsInductive
    <3>4. RowStep /\ UnsentStep /\ InterruptStep
      BY <2>1, RowStepLemma, UnsentStepLemma, InterruptStepLemma
    <3>5. \A p \in Op \ FileScans : status'[p] \in Terminal => Settled(p)'
      BY <2>1, <2>3, <3>1, <3>2, <3>4, SettledInductive
    <3>6. \A p \in Interrupts : InterruptsSettled(p)'
      BY <2>1, <3>1, <3>2, <3>4, InterruptsInductive
    <3> QED BY <3>2, <3>3, <3>5, <3>6 DEF ReceiptsTrusted, InterruptsSettled
  <2> QED BY <2>2, <2>3 DEF IInv, Counts, ReceiptsHold
<1> QED BY <1>1, <1>2, PTL DEF Spec

\* A Gemini or Claude turn is executed at most once.
THEOREM TurnsExecutedAtMostOnce == Spec => []TurnExecutedAtMostOnce
<1>1. IInv => TurnExecutedAtMostOnce
  BY DEF IInv, TypeOK, TurnsSentOnce, TurnExecutedAtMostOnce, Op
<1> QED BY <1>1, Invariance, PTL

\* A command is repeated only after an execution of it died with the Agent.
THEOREM CommandsRepeatedOnlyAfterDeath == Spec => []RepeatedOnlyAfterDeath
<1>1. IInv => RepeatedOnlyAfterDeath
  BY DEF IInv, ExecutionsCounted, RepeatedOnlyAfterDeath
<1> QED BY <1>1, Invariance, PTL

\* Writes to one workspace are executed one at a time.
THEOREM WritesAreExclusive == Spec => []WritesExclusive
<1>1. IInv => WritesExclusive
  <2> SUFFICES ASSUME IInv, ReceiptsHold, NEW o \in Writers, seen[o] = "executing"
               PROVE  status[o] \in Active
    BY DEF IInv, LockHeldOnce, WritesExclusive
  <2> USE OpAssumption DEF Op, Writers
  <2>1. receipt[o] = "none"
    BY DEF IInv, ReceiptsTrusted, CacheMatchesDisk
  <2>2. execs[o] /= 0
    BY <2>1 DEF IInv, TypeOK, ExecutionsCounted
  <2>3. status[o] /= "none"
    BY DEF IInv, UnknownBeforeQueued
  <2>4. status[o] \notin Terminal
    BY <2>1, <2>2 DEF IInv, ReceiptsTrusted, Settled
  <2> QED BY <2>3, <2>4 DEF IInv, TypeOK, Active, Terminal
<1> QED BY <1>1, Invariance, PTL

\* An interruption is acknowledged only when its target has stopped for good.
THEOREM AcknowledgedMeansStopped == Spec => []StoppedOnceAcknowledged
<1>1. IInv => StoppedOnceAcknowledged
  <2> SUFFICES ASSUME IInv, ReceiptsHold, NEW i \in Interrupts, status[i] = "succeeded"
               PROVE  seen[target[i]] /= "executing" /\ receipt[target[i]] /= "none"
    BY DEF StoppedOnceAcknowledged
  <2> USE OpAssumption DEF Op
  <2>1. receipt[i] = "succeeded"
    <3>1. Settled(i)
      BY DEF IInv, ReceiptsTrusted, Terminal
    <3> QED BY <3>1 DEF Settled, Stored
  <2>2. target[i] \in Scans /\ receipt[target[i]] /= "none"
    BY <2>1 DEF IInv, ReceiptsTrusted
  <2> QED BY <2>2 DEF IInv, ReceiptsTrusted, CacheMatchesDisk
<1> QED BY <1>1, Invariance, PTL

\* The control plane records the outcome that is on the Agent's disk.
THEOREM OutcomesMatchReceipts == Spec => []OutcomeMatchesReceipt
<1>1. IInv => OutcomeMatchesReceipt
  BY DEF IInv, ReceiptsTrusted, Settled, OutcomeMatchesReceipt
<1> QED BY <1>1, Invariance, PTL

\* No step changes a row that is terminal.
THEOREM TerminalRowsAreFinal == Spec => TerminalIsFinal
<1>1. TypeOK /\ [Next]_vars => [\A o \in Op : status[o] \in Terminal => status'[o] = status[o]]_vars
  BY RowStepLemma DEF RowStep
<1> QED BY <1>1, TypeCorrect, PTL DEF Spec, TerminalIsFinal
-----------------------------------------------------------------------------
(***************************************************************************)
(* Refinement: AgentOperations implements OperationLife.                   *)
(***************************************************************************)

\* While receipts hold, a row that is being changed by the gateway or a user takes
\* a step of its life: it is asked for, withdrawn, expires or ends with its effect.
LEMMA RowLife ==
    ASSUME IInv, ReceiptsHold, ReceiptsHold', StatusStep, UNCHANGED <<seen, receipt, execs>>
    PROVE  [Life!Next]_(Life!vars)
<1> USE OpAssumption DEF IInv, TypeOK, Op, Active, Terminal, RowOf, Working, Begun
<1>1. ReceiptsTrusted
  OBVIOUS
<1>2. UNCHANGED <<Working, Begun, receipt>> /\ ReceiptsHold /\ UNCHANGED ReceiptsHold
  OBVIOUS
<1>3. CASE UNCHANGED status
  BY <1>2, <1>3 DEF Life!vars
<1>4. ASSUME NEW o \in Op, status[o] = "none", o \in Writers => WriteLockFree(o),
             status' = [status EXCEPT ![o] = "queued"]
      PROVE  Life!Request(o)
  BY <1>2, <1>4 DEF Life!Request, Life!Together, WriteLockFree, Writers
<1>5. ASSUME NEW o \in Op, NEW st \in Active, status[o] \in Active,
             status' = [status EXCEPT ![o] = st]
      PROVE  UNCHANGED Life!vars
  BY <1>2, <1>5 DEF Life!vars
<1>6. ASSUME NEW o \in Turns, status[o] = "queued", status' = [status EXCEPT ![o] = "cancelled"]
      PROVE  Life!Withdraw(o)
  <2>1. o \in Op /\ execs[o] = 0
    BY <1>6 DEF TurnsSentOnce
  <2>2. RowOf[o] = "active" /\ o \notin Begun
    BY <1>6, <2>1
  <2>3. RowOf' = [RowOf EXCEPT ![o] = "cancelled"]
    BY <1>6, <2>1
  <2> QED BY <1>2, <2>2, <2>3 DEF Life!Withdraw
<1>7. ASSUME NEW o \in FileScans, status[o] \in Active, status' = [status EXCEPT ![o] = "failed"]
      PROVE  Life!Expire(o)
  BY <1>2, <1>7 DEF Life!Expire
<1>8. ASSUME reports /= <<>>, Head(reports).kind = "operation_result",
             status[Head(reports).op] \in Active,
             status' = [status EXCEPT ![Head(reports).op] = Stored(Head(reports).result)]
      PROVE  Head(reports).op \in Op /\ Life!Settle(Head(reports).op)
  <2> DEFINE m == Head(reports)
             o == m.op
  <2>1. m \in Truthful
    BY <1>1, <1>8, TailSeq DEF ReceiptsTrusted
  <2>2. o \in Op /\ m.result \in Results
    BY <1>8, HeadType
  <2>3. \/ receipt[o] = m.result
        \/ o \in Interrupts /\ m.result = "failed" /\ receipt[o] = "succeeded"
    BY <1>8, <2>1 DEF Truthful
  <2>4. receipt[o] /= "none" /\ RowOf[o] = "active"
    BY <1>8, <2>2, <2>3 DEF Results
  <2>5. Stored(m.result) \notin Active
    BY <2>2 DEF Stored, Results
  <2>6. RowOf' = [RowOf EXCEPT ![o] = Stored(m.result)]
    BY <1>8, <2>2, <2>5
  <2>7. Life!Settle(o)
    BY <1>2, <2>2, <2>3, <2>4, <2>6 DEF Life!Settle, Stored
  <2> QED BY <2>2, <2>7
<1> QED
  <2>1. CASE \E o \in Op : Life!Request(o) \/ Life!Settle(o)
    BY <1>2, <2>1 DEF Life!Next, Life!Reliable
  <2>2. CASE \E o \in Turns : Life!Withdraw(o)
    BY <1>2, <2>2 DEF Life!Next, Life!Reliable
  <2>3. CASE \E o \in FileScans : Life!Expire(o)
    BY <1>2, <2>3 DEF Life!Next, Life!Reliable
  <2>4. CASE UNCHANGED Life!vars
    BY <2>4
  <2> HIDE DEF IInv, TypeOK, Op, Active, Terminal, RowOf, Working, Begun
  <2> QED BY <1>3, <1>4, <1>5, <1>6, <1>7, <1>8, <2>1, <2>2, <2>3, <2>4 DEF StatusStep

\* While receipts hold, a command that begins, ends or dies on the Agent takes a
\* step of its life.
LEMMA WorkLife ==
    ASSUME IInv, ReceiptsHold, ReceiptsHold', WorkStep, ~UNCHANGED <<seen, receipt, execs>>
    PROVE  [Life!Next]_(Life!vars)
<1> USE OpAssumption DEF IInv, TypeOK, Op, RowOf, Working, Begun
<1>1. CacheMatchesDisk
  BY DEF ReceiptsTrusted
<1>2. ReceiptsHold /\ UNCHANGED ReceiptsHold
  OBVIOUS
<1>3. ASSUME NEW o \in Op, Prunable(o), seen' = [seen EXCEPT ![o] = "absent"],
             UNCHANGED <<status, receipt, execs>>
      PROVE  UNCHANGED Life!vars
  BY <1>2, <1>3 DEF Prunable, Results, Life!vars
<1>4. ASSUME NEW o \in Op, Unseen(o), inflight[o] > 0, seen' = [seen EXCEPT ![o] = "executing"],
             execs' = [execs EXCEPT ![o] = @ + 1], UNCHANGED <<status, receipt>>
      PROVE  Life!Begin(o)
  <2>1. status[o] /= "none"
    BY <1>4 DEF UnknownBeforeQueued
  <2>2. o \notin FileScans => status[o] \in Active
    BY <1>4, <2>1 DEF ReceiptsTrusted, Settled, Unseen, Active, Terminal
  <2>3. o \in Turns => execs[o] = 0
    BY <1>4 DEF TurnsSentOnce
  <2>4. ASSUME o \in Writers, NEW w \in Writers, w /= o, WorkspaceOf[o] = WorkspaceOf[w]
        PROVE  seen[w] /= "executing"
    <3>1. status[o] \in Active
      BY <2>2, <2>4 DEF Writers
    <3>2. status[w] \notin Active
      BY <2>4, <3>1 DEF LockHeldOnce
    <3>3. ASSUME seen[w] = "executing" PROVE FALSE
      <4>1. receipt[w] = "none" /\ execs[w] /= 0
        <5>1. w \in Op /\ receipt[w] = "none"
          BY <1>1, <3>3 DEF CacheMatchesDisk, Writers
        <5>2. execs[w] = orphans[w] + 1
          BY <3>3, <5>1 DEF ExecutionsCounted
        <5> QED BY <5>1, <5>2
      <4>2. status[w] \in Terminal
        BY <3>2, <3>3 DEF UnknownBeforeQueued, Active, Terminal, Writers
      <4> QED BY <4>1, <4>2 DEF ReceiptsTrusted, Settled, Writers
    <3> QED BY <3>3
  <2>5. UNCHANGED <<RowOf, receipt>> /\ Working' = Working \cup {o} /\ Begun' = Begun \cup {o}
    BY <1>4
  <2>6. RowOf[o] /= "none" /\ (o \notin FileScans => RowOf[o] = "active") /\ o \notin Working
    BY <1>4, <2>1, <2>2 DEF Unseen, Active
  <2> QED BY <1>4, <2>3, <2>4, <2>5, <2>6 DEF Life!Begin, Life!Together, Unseen
<1>5. ASSUME NEW o \in Op, NEW r \in Results,
             seen[o] = "executing" \/ (Unseen(o) /\ o \in Scans /\ r = "cancelled"),
             seen' = [seen EXCEPT ![o] = r], receipt' = [receipt EXCEPT ![o] = r],
             UNCHANGED <<status, execs>>
      PROVE  Life!End(o) \/ Life!Prevent(o)
  <2>1. receipt[o] = "none"
    BY <1>1, <1>5 DEF CacheMatchesDisk, Unseen
  <2>2. Working' = Working \ {o} /\ UNCHANGED <<RowOf, Begun>>
    BY <1>5 DEF Results
  <2>3. CASE seen[o] = "executing"
    BY <1>5, <2>1, <2>2, <2>3 DEF Life!End, Life!Outcome, Life!Settled, Results
  <2>4. CASE Unseen(o) /\ o \in Scans /\ r = "cancelled"
    BY <1>5, <2>1, <2>2, <2>4 DEF Life!Prevent, Unseen
  <2> QED BY <1>5, <2>3, <2>4
<1>6. ASSUME seen' = [o \in Op |-> "absent"], UNCHANGED <<status, receipt, execs>>
      PROVE  Life!Die
  BY <1>6 DEF Life!Die
<1> QED
  <2>1. Life!Reliable \/ UNCHANGED Life!vars
    BY <1>2, <1>3, <1>4, <1>5, <1>6 DEF WorkStep, Life!Reliable
  <2> QED BY <2>1 DEF Life!Next

\* Whatever becomes of the receipts, what remains of the promise is kept.
LEMMA UnreliableLife ==
    ASSUME IInv, IInv', ~ReceiptsHold', RowStep, WorkStep
    PROVE  Life!Unreliable
<1> USE OpAssumption DEF IInv, TypeOK, Op, RowOf, Working, Begun
<1>1. ASSUME NEW o \in Op, RowOf[o] \in Life!Settled PROVE RowOf'[o] = RowOf[o]
  BY <1>1 DEF RowStep, Terminal, Active, Life!Settled
<1>2. ASSUME NEW a \in Writers, NEW b \in Writers, Life!Together(a, b)
      PROVE  ~(RowOf'[a] = "active" /\ RowOf'[b] = "active")
  BY <1>2 DEF LockHeldOnce, Life!Together, Writers, Active, Terminal
<1>3. Begun \subseteq Begun' /\ \A o \in Turns \cap Begun : o \in Working' => o \in Working
  <2>1. CASE UNCHANGED <<seen, receipt, execs>>
    BY <2>1
  <2>2. ASSUME NEW o \in Op, seen' = [seen EXCEPT ![o] = "absent"], execs' = execs
        PROVE  <1>3!1 /\ <1>3!2
    BY <2>2
  <2>3. ASSUME NEW o \in Op, inflight[o] > 0, seen' = [seen EXCEPT ![o] = "executing"],
               execs' = [execs EXCEPT ![o] = @ + 1]
        PROVE  <1>3!1 /\ <1>3!2
    <3>1. o \in Turns => o \notin Begun
      BY <2>3 DEF TurnsSentOnce
    <3> QED BY <2>3, <3>1
  <2>4. ASSUME NEW o \in Op, NEW r \in Results, seen' = [seen EXCEPT ![o] = r], execs' = execs
        PROVE  <1>3!1 /\ <1>3!2
    BY <2>4 DEF Results
  <2>5. CASE seen' = [o \in Op |-> "absent"] /\ execs' = execs
    BY <2>5
  <2> QED BY <2>1, <2>2, <2>3, <2>4, <2>5 DEF WorkStep
<1> QED BY <1>1, <1>2, <1>3 DEF Life!Unreliable

\* What the Agent, the gateway and the database do together is what OperationLife
\* promises: one effect, decided while the row waits for it, and recorded for good.
THEOREM OperationsLive == Spec => ImplementsLife
<1>1. Init => Life!Init
  BY DEF Init, Life!Init, RowOf, Working, Begun, ReceiptsHold, Active
<1>2. IInv /\ IInv' /\ [Next]_vars => [Life!Next]_(Life!vars)
  <2> SUFFICES ASSUME IInv, IInv', [Next]_vars PROVE [Life!Next]_(Life!vars)
    OBVIOUS
  <2>1. StatusStep /\ RowStep /\ WorkStep
    BY StatusStepLemma, RowStepLemma, WorkStepLemma DEF IInv
  <2>2. CASE ReceiptsHold'
    <3>1. ReceiptsHold
      BY <2>2, ReceiptsHoldStep DEF IInv
    <3> QED BY <2>1, <2>2, <3>1, RowLife, WorkLife
  <2>3. CASE ~ReceiptsHold'
    <3>1. Life!Unreliable
      BY <2>1, <2>3, UnreliableLife
    <3> QED BY <3>1 DEF Life!Next
  <2> QED BY <2>2, <2>3
<1> QED BY <1>1, <1>2, Invariance, PTL DEF Spec, ImplementsLife, Life!Spec
=============================================================================
