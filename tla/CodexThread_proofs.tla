------------------------- MODULE CodexThread_proofs -------------------------
(***************************************************************************)
(* Theorems about CodexAdapter and CodexThread, for any number of turn     *)
(* commands, rewrites and interruptions, and any number of faults: first   *)
(* the session with any environment, then the conversation around it.      *)
(***************************************************************************)
EXTENDS CodexThread, TLAPS, WellFoundedInduction

CallStep == {"none", "begun", "requested", "answered", "refused", "succeeded", "failed"}
StopState == [turn : Turns \cup {NoTurn}, bestEffort : BOOLEAN, busy : BOOLEAN]
StopResults == {"succeeded", "failed", "inactive"}

-----------------------------------------------------------------------------
(***************************************************************************)
(* Types.                                                                  *)
(***************************************************************************)

\* Users' interruptions are interruptions.
LEMMA StopsFact == UserStops \subseteq Stops
BY DEF Stops

\* The empty queue is a queue of messages.
LEMMA SeqNone == <<>> \in Seq(Message)
OBVIOUS

\* A message alone is a queue of messages.
LEMMA SeqOne == ASSUME NEW m \in Message PROVE <<m>> \in Seq(Message)
OBVIOUS

\* Message constructors build messages.
LEMMA MessageType ==
    /\ \A o \in Turns : /\ Event("operation_started", o) \in Message
                        /\ Event("turn.accepted", o) \in Message
                        /\ Event("codex.turn.started", o) \in Message
                        /\ \A st \in TurnStatus : Ended(o, st) \in Message
                        /\ Result(o, "succeeded") \in Message
                        /\ Result(o, "failed") \in Message
    /\ \A o \in Turns \cup {NoTurn} : Event("codex.turn.failed", o) \in Message
    /\ \A s \in Stops, r \in StopResults : StopResult(s, r) \in Message
BY DEF Event, Ended, Result, StopResult, Message, StopResults

\* Emit keeps a queue of messages.
LEMMA EmitType ==
    ASSUME reports \in Seq(Message), NEW ms \in Seq(Message), Emit(ms)
    PROVE  reports' \in Seq(Message)
<1>1. reports \o ms \in Seq(Message)
  OBVIOUS
<1> QED BY <1>1 DEF Emit

\* So does the return of a turn command, with its result.
LEMMA EndCallType ==
    ASSUME AdapterTypeOK, NEW o \in Turns, NEW r \in {"succeeded", "failed"},
           NEW more \in Seq(Message), EndCall(o, r, more)
    PROVE  reports' \in Seq(Message) /\ call' \in [Turns -> CallStep]
<1>1. Append(more, Result(o, r)) \in Seq(Message)
  <2>1. Result(o, r) \in Message
    BY MessageType
  <2> QED BY <2>1
<1>2. reports' \in Seq(Message)
  BY <1>1, EmitType DEF EndCall, AdapterTypeOK
<1> QED BY <1>2 DEF EndCall, AdapterTypeOK, CallStep

\* So does the return of an interruption.
LEMMA EndStopType ==
    ASSUME AdapterTypeOK, NEW s \in Stops, NEW r \in StopResults, EndStop(s, r)
    PROVE  reports' \in Seq(Message) /\ stop' \in [Stops -> StopState]
<1>1. reports' \in Seq(Message)
  BY MessageType, SeqOne, EmitType DEF EndStop, AdapterTypeOK
<1> QED BY <1>1 DEF EndStop, NoStop, AdapterTypeOK, StopState

\* So does the end of the process.
LEMMA ResetType ==
    ASSUME AdapterTypeOK, Reset
    PROVE  /\ reports' \in Seq(Message) /\ process' \in BOOLEAN
           /\ state' \in [known : BOOLEAN, active : BOOLEAN, turn : Turns \cup {NoTurn}]
           /\ call' \in [Turns -> CallStep]
           /\ codex' \in [Turns -> {"none", "accepted", "running", "aborting", "over"}]
<1>1. reports' \in Seq(Message)
  <2>1. Event("codex.turn.failed", state.turn) \in Message
    BY MessageType DEF AdapterTypeOK
  <2> QED BY <2>1, SeqNone, SeqOne, EmitType DEF Reset, AdapterTypeOK
<1> QED BY <1>1 DEF Reset, NoState, AdapterTypeOK, CallStep

\* What changes a session, except that its reports are taken away.
SessionMove ==
    \/ \E o \in Turns : StartTurn(o)
    \/ \E s \in Stops, t \in Turns \cup {NoTurn}, best \in BOOLEAN : Interrupt(s, t, best)
    \/ AdapterStep
    \/ UNCHANGED adapterVars

\* A session with any environment makes no other moves.
LEMMA AdapterMoves == [AdapterNext]_adapterVars => SessionMove \/ SendReports
BY StopsFact DEF AdapterNext, SessionMove

\* Every step keeps every type.
LEMMA TypeStep ==
    ASSUME AdapterTypeOK, SessionMove \/ SendReports
    PROVE  AdapterTypeOK'
<1>1. ASSUME NEW o \in Turns, StartTurn(o) PROVE AdapterTypeOK'
  <2>1. reports' \in Seq(Message)
    BY <1>1, EndCallType, EmitType, MessageType, SeqOne DEF StartTurn, AdapterTypeOK
  <2>2. call' \in [Turns -> CallStep]
    BY <1>1, EndCallType, MessageType, SeqOne DEF StartTurn, AdapterTypeOK, CallStep
  <2> QED BY <1>1, <2>1, <2>2 DEF StartTurn, AdapterTypeOK, CallStep
<1>2. ASSUME NEW s \in Stops, NEW t \in Turns \cup {NoTurn}, NEW best \in BOOLEAN, Interrupt(s, t, best) PROVE AdapterTypeOK'
  BY <1>2 DEF Interrupt, StopCommand, AdapterTypeOK
<1>3. ASSUME NEW o \in Turns, PrepareFails(o) PROVE AdapterTypeOK'
  <2>1. reports' \in Seq(Message) /\ call' \in [Turns -> CallStep]
    BY <1>3, EndCallType, SeqNone DEF PrepareFails
  <2> QED BY <1>3, <2>1 DEF PrepareFails, AdapterTypeOK, CallStep
<1>4. ASSUME NEW o \in Turns, StartPreparedTurn(o) PROVE AdapterTypeOK'
  <2>1. CASE Vacant
    <3>1. call' \in [Turns -> CallStep]
      BY <1>4, <2>1 DEF StartPreparedTurn, AdapterTypeOK, CallStep
    <3>2. state' = [known |-> TRUE, active |-> TRUE, turn |-> NoTurn]
      BY <1>4, <2>1 DEF StartPreparedTurn
    <3>3. state' \in [known : BOOLEAN, active : BOOLEAN, turn : Turns \cup {NoTurn}]
      BY <3>2
    <3> QED BY <1>4, <2>1, <3>1, <3>3 DEF StartPreparedTurn, AdapterTypeOK, CallStep
  <2>2. CASE ~Vacant
    <3>1. reports' \in Seq(Message) /\ call' \in [Turns -> CallStep]
      BY <1>4, <2>2, EndCallType, SeqNone DEF StartPreparedTurn
    <3> QED BY <1>4, <2>2, <3>1 DEF StartPreparedTurn, AdapterTypeOK, CallStep
  <2> QED BY <2>1, <2>2
<1>5. ASSUME NEW o \in Turns, HandleResponse(o) PROVE AdapterTypeOK'
  BY <1>5 DEF HandleResponse, AdapterTypeOK
<1>6. ASSUME NEW o \in Turns, RequestTimeout(o) PROVE AdapterTypeOK'
  BY <1>6 DEF RequestTimeout, Fault, AdapterTypeOK
<1>7. ASSUME NEW o \in Turns, TurnAccepted(o) PROVE AdapterTypeOK'
  <2>1. reports' \in Seq(Message) /\ call' \in [Turns -> CallStep]
    BY <1>7, EndCallType, MessageType, SeqOne DEF TurnAccepted
  <2> QED BY <1>7, <2>1 DEF TurnAccepted, AdapterTypeOK, CallStep
<1>8. ASSUME NEW o \in Turns, TurnRefused(o) PROVE AdapterTypeOK'
  <2>1. reports' \in Seq(Message) /\ call' \in [Turns -> CallStep]
    BY <1>8, EndCallType, SeqNone DEF TurnRefused
  <2> QED BY <1>8, <2>1 DEF TurnRefused, AdapterTypeOK, CallStep
<1>9. ASSUME NEW o \in Turns, NotifyStarted(o) PROVE AdapterTypeOK'
  <2>1. reports' \in Seq(Message)
    BY <1>9, EmitType, MessageType, SeqOne DEF NotifyStarted, AdapterTypeOK
  <2> QED BY <1>9, <2>1 DEF NotifyStarted, AdapterTypeOK
<1>10. ASSUME NEW o \in Turns, NEW st \in TurnStatus, NotifyEnded(o, st) PROVE AdapterTypeOK'
  <2>1. reports' \in Seq(Message)
    BY <1>10, EmitType, MessageType, SeqOne DEF NotifyEnded, AdapterTypeOK
  <2> QED BY <1>10, <2>1 DEF NotifyEnded, AdapterTypeOK
<1>11. ASSUME NEW s \in Stops, InterruptTurn(s) PROVE AdapterTypeOK'
  <2>1. Target(s) \in Turns
    BY <1>11 DEF InterruptTurn, Target, AdapterTypeOK
  <2>2. Nothing(s) \in StopResults
    BY DEF Nothing, StopResults
  <2>3. reports' \in Seq(Message) /\ stop' \in [Stops -> StopState]
    BY <1>11, <2>2, EndStopType DEF InterruptTurn, StopResults
  <2>4. codex' \in [Turns -> {"none", "accepted", "running", "aborting", "over"}]
    BY <1>11, <2>1 DEF InterruptTurn, AdapterTypeOK
  <2> QED BY <1>11, <2>3, <2>4 DEF InterruptTurn, AdapterTypeOK, StopState
<1>12. ASSUME NEW s \in Stops, InterruptNothing(s) PROVE AdapterTypeOK'
  <2>1. Nothing(s) \in StopResults
    BY DEF Nothing, StopResults
  <2>2. reports' \in Seq(Message) /\ stop' \in [Stops -> StopState]
    BY <1>12, <2>1, EndStopType DEF InterruptNothing
  <2> QED BY <1>12, <2>2 DEF InterruptNothing, AdapterTypeOK, StopState
<1>13. ASSUME NEW s \in Stops, InterruptExpires(s) PROVE AdapterTypeOK'
  <2>1. Nothing(s) \in StopResults
    BY DEF Nothing, StopResults
  <2>2. reports' \in Seq(Message) /\ stop' \in [Stops -> StopState]
    BY <1>13, <2>1, EndStopType DEF InterruptExpires
  <2> QED BY <1>13, <2>2 DEF InterruptExpires, Fault, AdapterTypeOK, StopState
<1>14. ASSUME NEW s \in Stops, InterruptFails(s) PROVE AdapterTypeOK'
  <2>1. reports' \in Seq(Message) /\ stop' \in [Stops -> StopState]
    BY <1>14, EndStopType DEF InterruptFails, StopResults
  <2> QED BY <1>14, <2>1 DEF InterruptFails, Fault, AdapterTypeOK, StopState
<1>15. CASE Exit
  <2>1. /\ reports' \in Seq(Message) /\ process' \in BOOLEAN
        /\ state' \in [known : BOOLEAN, active : BOOLEAN, turn : Turns \cup {NoTurn}]
        /\ call' \in [Turns -> CallStep]
        /\ codex' \in [Turns -> {"none", "accepted", "running", "aborting", "over"}]
    BY <1>15, ResetType DEF Exit
  <2> QED BY <1>15, <2>1 DEF Exit, Fault, AdapterTypeOK, CallStep
<1>16. CASE ReapIdle
  <2>1. /\ reports' \in Seq(Message) /\ process' \in BOOLEAN
        /\ state' \in [known : BOOLEAN, active : BOOLEAN, turn : Turns \cup {NoTurn}]
        /\ call' \in [Turns -> CallStep]
        /\ codex' \in [Turns -> {"none", "accepted", "running", "aborting", "over"}]
    BY <1>16, ResetType DEF ReapIdle
  <2> QED BY <1>16, <2>1 DEF ReapIdle, AdapterTypeOK, CallStep
<1>17. CASE Reconfigure
  <2>1. /\ reports' \in Seq(Message) /\ process' \in BOOLEAN
        /\ state' \in [known : BOOLEAN, active : BOOLEAN, turn : Turns \cup {NoTurn}]
        /\ call' \in [Turns -> CallStep]
        /\ codex' \in [Turns -> {"none", "accepted", "running", "aborting", "over"}]
    BY <1>17, ResetType DEF Reconfigure
  <2> QED BY <1>17, <2>1 DEF Reconfigure, AdapterTypeOK, CallStep
<1>18. CASE SendReports
  <2>1. reports' \in Seq(Message)
    BY <1>18, SeqNone DEF SendReports
  <2> QED BY <1>18, <2>1 DEF SendReports, AdapterTypeOK
<1>19. CASE UNCHANGED adapterVars
  BY <1>19 DEF adapterVars, AdapterTypeOK
<1> QED BY <1>1, <1>2, <1>3, <1>4, <1>5, <1>6, <1>7, <1>8, <1>9, <1>10,
           <1>11, <1>12, <1>13, <1>14, <1>15, <1>16, <1>17, <1>18, <1>19
    DEF SessionMove, AdapterStep

\* The initial state has every type.
LEMMA TypeInit == AdapterInit => AdapterTypeOK
<1> SUFFICES ASSUME AdapterInit PROVE AdapterTypeOK
  OBVIOUS
<1>1. NoState \in [known : BOOLEAN, active : BOOLEAN, turn : Turns \cup {NoTurn}]
  BY DEF NoState
<1>2. NoStop \in [turn : Turns \cup {NoTurn}, bestEffort : BOOLEAN, busy : BOOLEAN]
  BY DEF NoStop
<1> QED BY <1>1, <1>2, SeqNone DEF AdapterInit, AdapterTypeOK

\* The variables of the session always have their types: in particular only
\* messages the gateway knows are queued for it.
THEOREM AdapterTypeCorrect == AdapterSpec => []AdapterTypeOK
<1>1. AdapterTypeOK /\ [AdapterNext]_adapterVars => AdapterTypeOK'
  BY TypeStep, AdapterMoves
<1> QED BY TypeInit, <1>1, PTL DEF AdapterSpec

-----------------------------------------------------------------------------
(***************************************************************************)
(* One turn at a time.  A turn holds the session from its turn/start       *)
(* request on, before the app-server has it, until the session is cleared: *)
(* that much is inductive, and Live alone is not.                          *)
(***************************************************************************)

\* Every step keeps the session held by at most one turn.
LEMMA HeldStep ==
    ASSUME AdapterTypeOK, HeldByOne, SessionMove \/ SendReports
    PROVE  HeldByOne'
<1>1. ASSUME NEW o \in Turns, StartTurn(o) PROVE HeldByOne'
  <2>1. /\ call' = [call EXCEPT ![o] = "begun"] \/ call' = [call EXCEPT ![o] = "failed"]
        /\ UNCHANGED <<state, codex, abandoned>>
    BY <1>1 DEF StartTurn, EndCall
  <2> QED BY <1>1, <2>1 DEF StartTurn, AdapterTypeOK, HeldByOne, Holds, Live
<1>2. ASSUME NEW s \in Stops, NEW t \in Turns \cup {NoTurn}, NEW best \in BOOLEAN, Interrupt(s, t, best) PROVE HeldByOne'
  BY <1>2 DEF Interrupt, AdapterTypeOK, HeldByOne, Holds, Live
<1>3. ASSUME NEW o \in Turns, PrepareFails(o) PROVE HeldByOne'
  BY <1>3 DEF PrepareFails, EndCall, AdapterTypeOK, HeldByOne, Holds, Live
<1>4. ASSUME NEW o \in Turns, StartPreparedTurn(o) PROVE HeldByOne'
  <2>1. CASE Vacant
    <3>1. ~abandoned => \A a \in Turns : ~Holds(a)
      BY <2>1 DEF HeldByOne, Vacant
    <3>2. /\ call' = [call EXCEPT ![o] = "requested"] \/ call' = [call EXCEPT ![o] = "refused"]
          /\ state'.active /\ UNCHANGED <<codex, abandoned>>
      BY <1>4, <2>1 DEF StartPreparedTurn
    <3> QED BY <1>4, <3>1, <3>2 DEF StartPreparedTurn, AdapterTypeOK, HeldByOne, Holds, Live
  <2>2. CASE ~Vacant
    BY <1>4, <2>2 DEF StartPreparedTurn, EndCall, AdapterTypeOK, HeldByOne, Holds, Live
  <2> QED BY <2>1, <2>2
<1>5. ASSUME NEW o \in Turns, HandleResponse(o) PROVE HeldByOne'
  BY <1>5 DEF HandleResponse, AdapterTypeOK, HeldByOne, Holds, Live
<1>6. ASSUME NEW o \in Turns, RequestTimeout(o) PROVE HeldByOne'
  BY <1>6 DEF RequestTimeout, HeldByOne
<1>7. ASSUME NEW o \in Turns, TurnAccepted(o) PROVE HeldByOne'
  BY <1>7 DEF TurnAccepted, EndCall, AdapterTypeOK, HeldByOne, Holds, Live
<1>8. ASSUME NEW o \in Turns, TurnRefused(o) PROVE HeldByOne'
  <2>1. ~abandoned => ~Live(o) /\ \A a \in Turns \ {o} : ~Holds(a)
    BY <1>8 DEF TurnRefused, AdapterTypeOK, HeldByOne, Holds, Live
  <2>2. call' = [call EXCEPT ![o] = "failed"] /\ UNCHANGED <<codex, abandoned>>
    BY <1>8 DEF TurnRefused, EndCall
  <2> QED BY <1>8, <2>1, <2>2 DEF AdapterTypeOK, HeldByOne, Holds, Live
<1>9. ASSUME NEW o \in Turns, NotifyStarted(o) PROVE HeldByOne'
  BY <1>9 DEF NotifyStarted, AdapterTypeOK, HeldByOne, Holds, Live
<1>10. ASSUME NEW o \in Turns, NEW st \in TurnStatus, NotifyEnded(o, st) PROVE HeldByOne'
  <2>1. ~abandoned => /\ call[o] \in {"answered", "succeeded"}
                      /\ \A a \in Turns \ {o} : ~Holds(a)
    BY <1>10 DEF NotifyEnded, AdapterTypeOK, HeldByOne, Holds, Live
  <2>2. codex' = [codex EXCEPT ![o] = "over"] /\ UNCHANGED <<call, abandoned>>
    BY <1>10 DEF NotifyEnded
  <2> QED BY <2>1, <2>2 DEF AdapterTypeOK, HeldByOne, Holds, Live
<1>11. ASSUME NEW s \in Stops, InterruptTurn(s) PROVE HeldByOne'
  <2>1. /\ \/ UNCHANGED codex
           \/ Live(Target(s)) /\ codex' = [codex EXCEPT ![Target(s)] = "aborting"]
        /\ UNCHANGED <<state, call, abandoned>>
    BY <1>11 DEF InterruptTurn
  <2>2. Target(s) \in Turns
    BY <1>11 DEF InterruptTurn, Target, AdapterTypeOK
  <2> QED BY <2>1, <2>2 DEF AdapterTypeOK, HeldByOne, Holds, Live
<1>12. ASSUME NEW s \in Stops, InterruptNothing(s) PROVE HeldByOne'
  BY <1>12 DEF InterruptNothing, AdapterTypeOK, HeldByOne, Holds, Live
<1>13. ASSUME NEW s \in Stops, InterruptExpires(s) PROVE HeldByOne'
  BY <1>13 DEF InterruptExpires, AdapterTypeOK, HeldByOne, Holds, Live
<1>14. ASSUME NEW s \in Stops, InterruptFails(s) PROVE HeldByOne'
  BY <1>14 DEF InterruptFails, AdapterTypeOK, HeldByOne, Holds, Live
<1>15. CASE Exit
  <2>1. ~abandoned' => \A a \in Turns : call[a] \notin {"requested", "refused"}
    BY <1>15 DEF Exit
  <2>2. \A a \in Turns : ~Live(a)' /\ (call[a] /= "requested" => call'[a] = call[a])
    BY <1>15 DEF Exit, Reset, Live, AdapterTypeOK
  <2>3. ~abandoned' => ~abandoned
    BY <1>15 DEF Exit
  <2> QED BY <2>1, <2>2, <2>3 DEF HeldByOne, Holds
<1>16. CASE ReapIdle
  <2>1. ~abandoned => \A a \in Turns : ~Holds(a)
    BY <1>16 DEF ReapIdle, Idle, HeldByOne
  <2>2. \A a \in Turns : ~Live(a)' /\ call'[a] = call[a]
    BY <1>16 DEF ReapIdle, Idle, Calling, Reset, Live, AdapterTypeOK
  <2>3. abandoned' = abandoned
    BY <1>16 DEF ReapIdle
  <2>4. ~abandoned' => \A a \in Turns : ~Holds(a)'
    BY <2>1, <2>2, <2>3 DEF Holds
  <2> QED BY <2>2, <2>3, <2>4 DEF HeldByOne
<1>17. CASE Reconfigure
  <2>1. ~abandoned => \A a \in Turns : ~Holds(a)
    BY <1>17 DEF Reconfigure, Idle, HeldByOne
  <2>2. \A a \in Turns : ~Live(a)' /\ call'[a] = call[a]
    BY <1>17 DEF Reconfigure, Idle, Calling, Reset, Live, AdapterTypeOK
  <2>3. abandoned' = abandoned
    BY <1>17 DEF Reconfigure
  <2>4. ~abandoned' => \A a \in Turns : ~Holds(a)'
    BY <2>1, <2>2, <2>3 DEF Holds
  <2> QED BY <2>2, <2>3, <2>4 DEF HeldByOne
<1>18. CASE SendReports
  BY <1>18 DEF SendReports, AdapterTypeOK, HeldByOne, Holds, Live
<1>19. CASE UNCHANGED adapterVars
  BY <1>19 DEF adapterVars, HeldByOne, Holds, Live
<1> QED BY <1>1, <1>2, <1>3, <1>4, <1>5, <1>6, <1>7, <1>8, <1>9, <1>10,
           <1>11, <1>12, <1>13, <1>14, <1>15, <1>16, <1>17, <1>18, <1>19
    DEF SessionMove, AdapterStep

\* The inductive invariant holds of every behaviour.
THEOREM AdapterInvariance == AdapterSpec => []AdapterIInv
<1>1. AdapterInit => HeldByOne
  BY DEF AdapterInit, HeldByOne, Holds, Live
<1>2. AdapterInit => AdapterIInv
  BY <1>1, TypeInit DEF AdapterIInv
<1>3. AdapterIInv /\ [AdapterNext]_adapterVars => AdapterIInv'
  BY TypeStep, HeldStep, AdapterMoves DEF AdapterIInv
<1> QED BY <1>2, <1>3, PTL DEF AdapterSpec

\* Codex runs at most one turn of a session at a time, as long as no
\* turn/start request was abandoned without its answer: the two looks of
\* startTurn and startPreparedTurn at the turn state are enough.
THEOREM SessionRunsOneTurn == AdapterSpec => []OneTurnAtATime
<1>1. AdapterIInv => OneTurnAtATime
  BY DEF AdapterIInv, HeldByOne, Holds, OneTurnAtATime
<1> QED BY <1>1, AdapterInvariance, PTL

\* The idle reaper and a reconfiguration never end a turn that is running.
THEOREM ReclaimIsSafe == AdapterSpec => ReclaimsOnlyIdle
<1>1. AdapterIInv /\ [AdapterNext]_adapterVars
        => [(ReapIdle \/ Reconfigure) /\ ~abandoned => \A o \in Turns : ~Live(o)]_adapterVars
  <2> SUFFICES ASSUME AdapterIInv, ReapIdle \/ Reconfigure, ~abandoned
               PROVE  \A o \in Turns : ~Live(o)
    OBVIOUS
  <2>1. ~state.active
    BY DEF ReapIdle, Reconfigure, Idle
  <2> QED BY <2>1 DEF AdapterIInv, HeldByOne, Holds
<1> QED BY <1>1, AdapterInvariance, PTL DEF AdapterSpec, ReclaimsOnlyIdle

-----------------------------------------------------------------------------
(***************************************************************************)
(* The conversation: types, and what its steps do to the session.          *)
(***************************************************************************)

\* The front of a queue is a message, and the rest is a queue.
LEMMA FrontType ==
    ASSUME reports \in Seq(Message), reports /= <<>>
    PROVE  Head(reports) \in Message /\ Tail(reports) \in Seq(Message)
OBVIOUS

\* The front of a queue is its first place, and the rest moves up by one.
LEMMA FrontPlace ==
    ASSUME reports \in Seq(Message), reports /= <<>>
    PROVE  /\ 1 \in DOMAIN reports /\ reports[1] = Head(reports)
           /\ \A k \in DOMAIN Tail(reports) : k + 1 \in DOMAIN reports /\ Tail(reports)[k] = reports[k + 1]
           /\ \A k \in DOMAIN reports : k > 1 => k - 1 \in DOMAIN Tail(reports)
OBVIOUS

\* The kinds of message and what they carry.
LEMMA MessageKinds ==
    ASSUME NEW m \in Message
    PROVE  /\ m.kind \in {"operation_started", "turn.accepted", "codex.turn.started",
                          "codex.turn.completed", "operation_result"} => m.op \in Turns
           /\ m.kind = "codex.turn.completed" => m.result \in TurnStatus
           /\ m.kind = "operation_result" => m.result \in {"succeeded", "failed"}
           /\ m.kind = "stop_result" => m.op \in Stops
BY DEF Message

\* A result that is replayed is a queue of one message.
LEMMA ReplayType ==
    ASSUME AdapterTypeOK, NEW o \in Turns, ReplayResult(o)
    PROVE  reports' = Append(reports, Result(o, call[o])) /\ reports' \in Seq(Message)
<1>1. Result(o, call[o]) \in Message
  BY MessageType DEF ReplayResult
<1>2. reports' = reports \o <<Result(o, call[o])>>
  BY DEF ReplayResult, Emit
<1>3. reports \in Seq(Message)
  BY DEF AdapterTypeOK
<1> QED BY <1>1, <1>2, <1>3

\* What a crash leaves of the queue is a queue.
LEMMA CrashType ==
    ASSUME AdapterTypeOK, Crash
    PROVE  AdapterTypeOK'
<1>1. reports' \in Seq(Message)
  <2>1. PICK m \in 0..Len(reports) : \E at \in [1..m -> 1..Len(reports)] :
            reports' = [k \in 1..m |-> reports[at[k]]]
    BY DEF Crash
  <2>2. PICK at \in [1..m -> 1..Len(reports)] : reports' = [k \in 1..m |-> reports[at[k]]]
    BY <2>1
  <2>3. reports \in Seq(Message)
    BY DEF AdapterTypeOK
  <2>4. m \in Nat /\ \A k \in 1..m : reports[at[k]] \in Message
    BY <2>3
  <2> QED BY <2>2, <2>4
<1>2. process' = FALSE /\ state' = NoState /\ stop' = [s \in Stops |-> NoStop] /\ abandoned' = abandoned
  BY DEF Crash
<1>3. call' \in [Turns -> CallStep]
  BY DEF Crash, AdapterTypeOK, CallStep
<1>4. codex' \in [Turns -> {"none", "accepted", "running", "aborting", "over"}]
  BY DEF Crash, AdapterTypeOK
<1>5. faults' \in Nat
  BY DEF Crash, Fault, AdapterTypeOK
<1> QED BY <1>1, <1>2, <1>3, <1>4, <1>5 DEF AdapterTypeOK, CallStep, NoState, NoStop

\* What a step that is not the session's own does to the session: nothing but
\* to the queue of reports, or it is a command that arrives, or a crash.
LEMMA ThreadMoves ==
    ASSUME ThreadTypeOK, [ThreadNext]_vars
    PROVE  \/ SessionMove
           \/ /\ UNCHANGED <<process, state, call, stop, codex, abandoned>>
              /\ faults' \in Nat /\ reports' \in Seq(Message)
           \/ Crash
<1>0. faults \in Nat /\ reports \in Seq(Message) /\ AdapterTypeOK
  BY DEF ThreadTypeOK, AdapterTypeOK
<1>1. ASSUME NEW o \in Turns, ReadThread(o) \/ HandleRequest(o)
      PROVE  \/ UNCHANGED adapterVars
             \/ /\ UNCHANGED <<process, state, call, stop, codex, reports, abandoned>>
                /\ faults' \in Nat
  BY <1>1, <1>0 DEF ReadThread, HandleRequest, ClaimThreadForTurn, QueueTurn, QueueTurnFails,
     AddUserMessage, Fault
<1>2. ASSUME NEW o \in Rewrites, NEW m \in Turns, RewriteThread(o, m) PROVE UNCHANGED adapterVars
  BY <1>2 DEF RewriteThread
<1>3. ASSUME NEW s \in UserStops, RequestInterrupt(s) \/ HandleInterrupt(s)
      PROVE  UNCHANGED adapterVars
  BY <1>3 DEF RequestInterrupt, HandleInterrupt, CancelOperation, ReleaseThread, MarkCancelled
<1>4. ASSUME NEW o \in Turns, SendTurn(o) \/ MarkDelivered(o) PROVE UNCHANGED adapterVars
  BY <1>4 DEF SendTurn, MarkDelivered
<1>5. ASSUME NEW o \in Turns, DeliverTurn(o) PROVE SessionMove
  BY <1>5 DEF DeliverTurn, SessionMove
<1>6. ASSUME NEW o \in Turns, ReplayResult(o)
      PROVE  /\ UNCHANGED <<process, state, call, stop, codex, abandoned>>
             /\ faults' \in Nat /\ reports' \in Seq(Message)
  BY <1>6, <1>0, ReplayType DEF ReplayResult
<1>7. ASSUME NEW s \in Stops, DeliverStop(s) PROVE SessionMove
  <2>1. ask[s].turn \in Turns \cup {NoTurn}
    BY DEF ThreadTypeOK
  <2>2. Interrupt(s, ask[s].turn, s \in Turns) /\ (s \in Turns) \in BOOLEAN
    BY <1>7 DEF DeliverStop
  <2> QED BY <2>1, <2>2 DEF SessionMove
<1>8. ASSUME HandleMessage
      PROVE  /\ UNCHANGED <<process, state, call, stop, codex, abandoned>>
             /\ faults' \in Nat /\ reports' \in Seq(Message)
  <2>1. /\ reports /= <<>> /\ reports' = Tail(reports)
        /\ UNCHANGED <<process, state, call, stop, codex, abandoned, faults>>
    BY <1>8 DEF Handle, HandleMessage, HandleOperationStarted, DropEvent, HandleAccepted,
       HandleTurnStarted, HandleTurnCompleted, HandleTurnFailed, HandleTurnResult, HandleStopResult
  <2> QED BY <2>1, <1>0, FrontType
<1>9. CASE Session
  BY <1>9 DEF Session, SessionMove
<1>10. CASE Disconnect
  <2>1. PICK n \in 0..Len(reports) : reports' = SubSeq(reports, n + 1, Len(reports))
    BY <1>10 DEF Disconnect
  <2>2. reports' \in Seq(Message)
    BY <2>1, <1>0
  <2> QED BY <1>10, <2>2, <1>0 DEF Disconnect, Fault
<1>11. CASE UNCHANGED vars
  BY <1>11 DEF vars, SessionMove
<1> QED BY <1>0, <1>1, <1>2, <1>3, <1>4, <1>5, <1>6, <1>7, <1>8, <1>9, <1>10, <1>11
    DEF ThreadNext, SessionMove, adapterVars

\* The session keeps its types.
LEMMA SessionTypeStep ==
    ASSUME ThreadTypeOK, [ThreadNext]_vars
    PROVE  AdapterTypeOK'
<1>1. AdapterTypeOK
  BY DEF ThreadTypeOK
<1>2. ASSUME UNCHANGED <<process, state, call, stop, codex, abandoned>>,
             faults' \in Nat, reports' \in Seq(Message)
      PROVE  AdapterTypeOK'
  BY <1>1, <1>2 DEF AdapterTypeOK
<1> QED BY <1>1, <1>2, ThreadMoves, TypeStep, CrashType

-----------------------------------------------------------------------------
(***************************************************************************)
(* What a session adds to its queue.                                       *)
(***************************************************************************)

\* The turn commands whose place changes: never after their end, never back to
\* the beginning, and only by a delivery away from it.
Proceeds ==
    \A o \in Turns : call'[o] /= call[o] =>
        /\ call[o] \notin {"succeeded", "failed"} /\ call'[o] /= "none"
        /\ call[o] = "none" => StartTurn(o)

\* A command reports that it was started, what was accepted and how it ended,
\* and nothing after that.
Adds(ms) ==
    /\ reports' = reports \o ms
    /\ \A k \in DOMAIN ms :
          /\ ms[k].kind = "operation_started" => call'[ms[k].op] /= "none"
          /\ ms[k].kind = "turn.accepted" => call[ms[k].op] = "answered"
          /\ ms[k].kind = "operation_result" =>
                /\ call'[ms[k].op] = ms[k].result /\ call[ms[k].op] \notin {"succeeded", "failed"}
                /\ \A l \in DOMAIN ms : l <= k
    /\ \A o \in Turns : call'[o] = "succeeded" /\ call[o] /= "succeeded" =>
          \E k \in DOMAIN ms : ms[k] = Event("turn.accepted", o)

\* A message queued behind another.
LEMMA AppendToOne ==
    \A a, b \in Message : LET ms == Append(<<a>>, b)
                          IN  ms \in Seq(Message) /\ DOMAIN ms = {1, 2} /\ ms[1] = a /\ ms[2] = b
OBVIOUS

\* Nothing is added by who does not report and does not end.
LEMMA AddsNothing ==
    ASSUME AdapterTypeOK, reports' = reports,
           \A o \in Turns : call'[o] = "succeeded" => call[o] = "succeeded"
    PROVE  Adds(<<>>)
BY DEF Adds, AdapterTypeOK

\* One message that is not about a command.
LEMMA AddsOther ==
    ASSUME NEW m \in Message, Emit(<<m>>),
           m.kind \notin {"operation_started", "turn.accepted", "operation_result"},
           \A o \in Turns : call'[o] = "succeeded" => call[o] = "succeeded"
    PROVE  Adds(<<m>>)
BY DEF Adds, Emit

\* A command that fails, after it has said no more than that it was started.
LEMMA AddsFailure ==
    ASSUME AdapterTypeOK, NEW o \in Turns, EndCall(o, "failed", <<>>),
           call[o] \notin {"succeeded", "failed"}
    PROVE  Adds(<<Result(o, "failed")>>) /\ <<Result(o, "failed")>> \in Seq(Message)
<1>1. Append(<<>>, Result(o, "failed")) = <<Result(o, "failed")>>
  OBVIOUS
<1>2. reports' = reports \o <<Result(o, "failed")>> /\ call' = [call EXCEPT ![o] = "failed"]
  BY <1>1 DEF EndCall, Emit
<1>3. Result(o, "failed") \in Message
  BY MessageType
<1> QED BY <1>2, <1>3 DEF Adds, Result, AdapterTypeOK

\* What a session adds to its queue in one step, and where its commands get.
LEMMA Reported ==
    ASSUME AdapterTypeOK, SessionMove
    PROVE  Proceeds /\ \E ms \in Seq(Message) : Adds(ms)
<1>0. call \in [Turns -> CallStep] /\ reports \in Seq(Message)
  BY DEF AdapterTypeOK, CallStep
<1>1. ASSUME NEW o \in Turns, StartTurn(o) PROVE Proceeds /\ \E ms \in Seq(Message) : Adds(ms)
  <2>1. Event("operation_started", o) \in Message /\ Result(o, "failed") \in Message
    BY MessageType
  <2>2. CASE EndCall(o, "failed", <<Event("operation_started", o)>>)
    <3> DEFINE ms == Append(<<Event("operation_started", o)>>, Result(o, "failed"))
    <3>1. /\ ms \in Seq(Message) /\ DOMAIN ms = {1, 2}
          /\ ms[1] = Event("operation_started", o) /\ ms[2] = Result(o, "failed")
      BY <2>1, AppendToOne
    <3>2. /\ reports' = reports \o ms /\ call'[o] = "failed"
          /\ \A p \in Turns : call'[p] = "succeeded" => call[p] = "succeeded"
      BY <2>2, <1>0 DEF EndCall, Emit
    <3>3. Adds(ms)
      <4> HIDE DEF ms
      <4> QED BY <1>1, <3>1, <3>2 DEF Adds, Event, Result, StartTurn
    <3> QED BY <1>1, <1>0, <2>2, <3>1, <3>3 DEF Proceeds, StartTurn, EndCall
  <2>3. CASE Emit(<<Event("operation_started", o)>>) /\ call' = [call EXCEPT ![o] = "begun"]
    <3> DEFINE ms == <<Event("operation_started", o)>>
    <3>1. ms \in Seq(Message) /\ DOMAIN ms = {1} /\ ms[1] = Event("operation_started", o)
      BY <2>1
    <3>2. /\ reports' = reports \o ms /\ call'[o] = "begun"
          /\ \A p \in Turns : call'[p] = "succeeded" => call[p] = "succeeded"
      BY <2>3, <1>0 DEF Emit
    <3>3. Adds(ms)
      <4> HIDE DEF ms
      <4> QED BY <3>1, <3>2 DEF Adds, Event
    <3> QED BY <1>1, <1>0, <2>3, <3>1, <3>3 DEF Proceeds, StartTurn
  <2> QED BY <1>1, <2>2, <2>3 DEF StartTurn
<1>2. ASSUME NEW s \in Stops, NEW t \in Turns \cup {NoTurn}, NEW best \in BOOLEAN, Interrupt(s, t, best)
      PROVE  Proceeds /\ \E ms \in Seq(Message) : Adds(ms)
  BY <1>2, AddsNothing, SeqNone DEF Interrupt, Proceeds
<1>3. ASSUME NEW o \in Turns, PrepareFails(o) PROVE Proceeds /\ \E ms \in Seq(Message) : Adds(ms)
  <2>1. EndCall(o, "failed", <<>>) /\ call[o] = "begun"
    BY <1>3 DEF PrepareFails
  <2> QED BY <2>1, <1>0, AddsFailure DEF Proceeds, EndCall
<1>4. ASSUME NEW o \in Turns, StartPreparedTurn(o) PROVE Proceeds /\ \E ms \in Seq(Message) : Adds(ms)
  <2>1. CASE Vacant
    <3>1. /\ call[o] = "begun" /\ reports' = reports
          /\ call' = [call EXCEPT ![o] = "requested"] \/ call' = [call EXCEPT ![o] = "refused"]
      BY <1>4, <2>1 DEF StartPreparedTurn
    <3>2. \A p \in Turns : call'[p] = "succeeded" => call[p] = "succeeded"
      BY <3>1, <1>0
    <3>3. Adds(<<>>)
      BY <3>1, <3>2, AddsNothing
    <3> QED BY <3>1, <3>3, <1>0, SeqNone DEF Proceeds
  <2>2. CASE ~Vacant
    <3>1. EndCall(o, "failed", <<>>) /\ call[o] = "begun"
      BY <1>4, <2>2 DEF StartPreparedTurn
    <3> QED BY <3>1, <1>0, AddsFailure DEF Proceeds, EndCall
  <2> QED BY <2>1, <2>2
<1>5. ASSUME NEW o \in Turns, HandleResponse(o) \/ RequestTimeout(o)
      PROVE  Proceeds /\ \E ms \in Seq(Message) : Adds(ms)
  <2>1. /\ call[o] = "requested" /\ reports' = reports
        /\ call' = [call EXCEPT ![o] = "answered"] \/ call' = [call EXCEPT ![o] = "refused"]
    BY <1>5 DEF HandleResponse, RequestTimeout
  <2> QED BY <2>1, <1>0, AddsNothing, SeqNone DEF Proceeds
<1>7. ASSUME NEW o \in Turns, TurnAccepted(o) PROVE Proceeds /\ \E ms \in Seq(Message) : Adds(ms)
  <2> DEFINE ms == Append(<<Event("turn.accepted", o)>>, Result(o, "succeeded"))
  <2>1. Event("turn.accepted", o) \in Message /\ Result(o, "succeeded") \in Message
    BY MessageType
  <2>2. /\ ms \in Seq(Message) /\ DOMAIN ms = {1, 2}
        /\ ms[1] = Event("turn.accepted", o) /\ ms[2] = Result(o, "succeeded")
    BY <2>1, AppendToOne
  <2>3. reports' = reports \o ms /\ call' = [call EXCEPT ![o] = "succeeded"] /\ call[o] = "answered"
    BY <1>7 DEF TurnAccepted, EndCall, Emit
  <2>4. Adds(ms)
    <3> HIDE DEF ms
    <3> QED BY <2>2, <2>3, <1>0 DEF Adds, Event, Result
  <2> QED BY <2>2, <2>3, <2>4, <1>0 DEF Proceeds
<1>8. ASSUME NEW o \in Turns, TurnRefused(o) PROVE Proceeds /\ \E ms \in Seq(Message) : Adds(ms)
  <2>1. EndCall(o, "failed", <<>>) /\ call[o] = "refused"
    BY <1>8 DEF TurnRefused
  <2> QED BY <2>1, <1>0, AddsFailure DEF Proceeds, EndCall
<1>9. ASSUME NEW o \in Turns, NotifyStarted(o) PROVE Proceeds /\ \E ms \in Seq(Message) : Adds(ms)
  <2>1. Event("codex.turn.started", o) \in Message
    BY MessageType
  <2>2. call' = call /\ Adds(<<Event("codex.turn.started", o)>>)
    BY <1>9, <2>1, AddsOther DEF NotifyStarted, Event
  <2> QED BY <2>1, <2>2, SeqOne DEF Proceeds
<1>10. ASSUME NEW o \in Turns, NEW st \in TurnStatus, NotifyEnded(o, st)
       PROVE  Proceeds /\ \E ms \in Seq(Message) : Adds(ms)
  <2>1. Ended(o, st) \in Message
    BY MessageType
  <2>2. call' = call /\ (reports' = reports \/ Emit(<<Ended(o, st)>>))
    BY <1>10 DEF NotifyEnded
  <2>3. Adds(<<>>) \/ Adds(<<Ended(o, st)>>)
    BY <2>1, <2>2, AddsNothing, AddsOther DEF Ended
  <2> QED BY <2>1, <2>2, <2>3, SeqNone, SeqOne DEF Proceeds
<1>11. ASSUME NEW s \in Stops, InterruptTurn(s) \/ InterruptNothing(s) \/ InterruptExpires(s) \/ InterruptFails(s)
       PROVE  Proceeds /\ \E ms \in Seq(Message) : Adds(ms)
  <2>1. PICK r \in StopResults : call' = call /\ EndStop(s, r)
    BY <1>11 DEF InterruptTurn, InterruptNothing, InterruptExpires, InterruptFails, Nothing, StopResults
  <2>2. StopResult(s, r) \in Message
    BY MessageType
  <2>3. Adds(<<StopResult(s, r)>>)
    BY <2>1, <2>2, AddsOther DEF EndStop, StopResult
  <2> QED BY <2>1, <2>2, <2>3, SeqOne DEF Proceeds
<1>12. ASSUME Exit \/ ReapIdle \/ Reconfigure PROVE Proceeds /\ \E ms \in Seq(Message) : Adds(ms)
  <2>1. Reset
    BY <1>12 DEF Exit, ReapIdle, Reconfigure
  <2>2. Event("codex.turn.failed", state.turn) \in Message
    BY MessageType DEF AdapterTypeOK
  <2>3. \A o \in Turns : call'[o] = IF call[o] = "requested" THEN "refused" ELSE call[o]
    BY <2>1 DEF Reset
  <2>4. Emit(<<>>) \/ Emit(<<Event("codex.turn.failed", state.turn)>>)
    BY <2>1 DEF Reset
  <2>5. Emit(<<>>) => reports' = reports
    BY <1>0 DEF Emit
  <2>6. Adds(<<>>) \/ Adds(<<Event("codex.turn.failed", state.turn)>>)
    BY <2>2, <2>3, <2>4, <2>5, AddsNothing, AddsOther DEF Event
  <2> QED BY <2>2, <2>3, <2>6, SeqNone, SeqOne DEF Proceeds
<1>13. CASE UNCHANGED adapterVars
  BY <1>13, AddsNothing, SeqNone DEF adapterVars, Proceeds
<1> QED BY <1>1, <1>2, <1>3, <1>4, <1>5, <1>7, <1>8, <1>9, <1>10, <1>11, <1>12, <1>13
    DEF SessionMove, AdapterStep

-----------------------------------------------------------------------------
(***************************************************************************)
(* The conversation's own types.                                           *)
(***************************************************************************)

Phases == {"free", "cancelling", "cancelled", "released", "queued", "sent", "done"}
Asks == [Stops -> [phase : Phases, op : Turns \cup {NoTurn}, turn : Turns \cup {NoTurn}]]
ThreadTypes ==
    /\ thread \in ThreadStatus
    /\ op \in [Turns -> Active \cup {"none", "succeeded", "failed", "cancelled"}]
    /\ rows \in Seq(Turns)
    /\ handler \in [Turns -> {"none", "read", "claimed", "queued", "done"}]
    /\ before \in [Turns -> ThreadStatus]
    /\ LastPosition \in Nat /\ position \in [Turns -> 0..LastPosition]
    /\ edit \in [Rewrites -> [target : Turns \cup {NoTurn}, cutoff : Nat]]
    /\ marker \in BOOLEAN
    /\ latest \in Turns \cup {NoTurn}
    /\ sent \subseteq Turns /\ marking \subseteq Turns
    /\ ask \in Asks

\* A request of an interruption that moves on keeps its shape.
LEMMA PhaseType ==
    ASSUME ThreadTypes, NEW s \in Stops, NEW x \in Turns \cup {NoTurn}, NEW y \in Turns \cup {NoTurn},
           NEW p \in Phases,
           StopPhase(s, p, x, y)
    PROVE  ask' \in Asks
BY DEF ThreadTypes, StopPhase, Asks

\* The types of the session and of the conversation together.
LEMMA TypesOfBoth == ThreadTypeOK <=> AdapterTypeOK /\ ThreadTypes
BY DEF ThreadTypeOK, ThreadTypes, Asks, Phases

\* A bounded set of numbers has a largest one.
LEMMA HasMax ==
    ASSUME NEW S, S \subseteq Nat, S /= {}, NEW b \in Nat, \A n \in S : n <= b
    PROVE  \E n \in S : \A m \in S : m <= n
<1> DEFINE less == {p \in Nat \X Nat : p[1] < p[2]}
           gaps == {b - n : n \in S}
<1>0. IsWellFoundedOn(less, Nat)
  BY ONLY NatLessThanWellFounded, Zenon DEF OpToRel
<1>a. \A n \in S : n \in Nat /\ n <= b /\ b - n \in Nat
  OBVIOUS
<1>1. gaps \subseteq Nat /\ gaps /= {}
  BY <1>a
<1>2. \E g \in gaps : \A h \in gaps : ~(<<h, g>> \in less)
  <2> HIDE DEF less, gaps
  <2> QED BY <1>0, <1>1, WFMin, Zenon
<1>3. PICK n \in S : \A m \in S : ~(<<b - m, b - n>> \in less)
  BY <1>2
<1>4. \A m \in S : ~(b - m < b - n)
  BY <1>3, <1>a
<1>5. \A m \in S : m <= n
  BY <1>4, <1>a
<1> QED BY <1>5

\* Where messages have positions up to a bound there is a last one.
LEMMA LastExists ==
    ASSUME NEW pos \in [Turns -> Nat], NEW b \in Nat, \A m \in Turns : pos[m] <= b
    PROVE  \E n \in {pos[m] : m \in Turns} \cup {0} : \A m \in Turns : pos[m] <= n
<1> DEFINE S == {pos[m] : m \in Turns} \cup {0}
<1>1. S \subseteq Nat /\ S /= {} /\ \A n \in S : n <= b
  OBVIOUS
<1>2. \E n \in S : \A m \in S : m <= n
  <2> HIDE DEF S
  <2> QED BY <1>1, HasMax
<1> QED BY <1>2

\* So the last position is a number, and the one of a message or 0.
LEMMA LastFits ==
    ASSUME position' \in [Turns -> Nat], NEW b \in Nat, \A m \in Turns : position'[m] <= b
    PROVE  LastPosition' \in Nat /\ position' \in [Turns -> 0..LastPosition']
<1> DEFINE last(n) == n \in {position'[m] : m \in Turns} \cup {0} /\ \A m \in Turns : position'[m] <= n
<1>1. \E n : last(n)
  BY LastExists
<1>2. LastPosition' = CHOOSE n : last(n)
  BY DEF LastPosition
<1>3. last(LastPosition')
  <2> HIDE DEF last
  <2> QED BY <1>1, <1>2
<1> QED BY <1>3

\* The newest active operation is one of the active ones.
LEMMA NewestIsActive ==
    ASSUME rows \in Seq(Turns), ActiveRows /= {}
    PROVE  \E i \in ActiveRows : ActiveCodexTurnOperation = rows[i]
<1>1. ActiveRows \subseteq Nat /\ Len(rows) \in Nat /\ \A i \in ActiveRows : i <= Len(rows)
  BY DEF ActiveRows
<1>2. \E i \in ActiveRows : \A j \in ActiveRows : j <= i
  BY <1>1, HasMax
<1> QED BY <1>2 DEF ActiveCodexTurnOperation

\* Every step keeps the types of the conversation.
LEMMA ThreadTypeStep ==
    ASSUME ThreadTypeOK, RowsFit, [ThreadNext]_vars
    PROVE  ThreadTypes'
<1>0. ThreadTypes /\ AdapterTypeOK /\ reports \in Seq(Message) /\ Rewrites \subseteq Turns
  BY TypesOfBoth, AdapterAssumption DEF AdapterTypeOK
<1>p. UNCHANGED position => LastPosition' = LastPosition
  BY DEF LastPosition
<1>h. reports /= <<>> => Head(reports) \in Message
  BY <1>0, FrontType
<1>s. UserStops \subseteq Stops /\ Turns \subseteq Stops
  BY DEF Stops
<1>1. ASSUME NEW o \in Turns, ReadThread(o) PROVE ThreadTypes'
  BY <1>1, <1>0, <1>p DEF ReadThread, ThreadTypes, eventVars, linkVars
<1>2. ASSUME NEW o \in Turns, ClaimThreadForTurn(o) PROVE ThreadTypes'
  BY <1>2, <1>0, <1>p DEF ClaimThreadForTurn, ThreadTypes, eventVars, linkVars, ThreadStatus, BusyStatus
<1>3. ASSUME NEW o \in Turns, QueueTurn(o) PROVE ThreadTypes'
  BY <1>3, <1>0, <1>p DEF QueueTurn, ThreadTypes, eventVars, linkVars, ThreadStatus, Active
<1>4. ASSUME NEW o \in Turns, QueueTurnFails(o) PROVE ThreadTypes'
  BY <1>4, <1>0, <1>p DEF QueueTurnFails, ThreadTypes, eventVars, linkVars, ThreadStatus
<1>5. ASSUME NEW o \in Turns, AddUserMessage(o) PROVE ThreadTypes'
  <2>1. /\ position' \in [Turns -> Nat] /\ LastPosition + 1 \in Nat
        /\ \A m \in Turns : position'[m] <= LastPosition + 1
    BY <1>5, <1>0 DEF AddUserMessage, ThreadTypes
  <2>2. LastPosition' \in Nat /\ position' \in [Turns -> 0..LastPosition']
    BY <2>1, LastFits
  <2> QED BY <1>5, <2>2, <1>0 DEF AddUserMessage, ThreadTypes, linkVars
<1>6. ASSUME NEW o \in Rewrites, NEW m \in Turns, RewriteThread(o, m) PROVE ThreadTypes'
  BY <1>6, <1>0, <1>p DEF RewriteThread, ThreadTypes, eventVars, linkVars, ThreadStatus, BusyStatus, Active
<1>7. ASSUME NEW s \in UserStops, RequestInterrupt(s) PROVE ThreadTypes'
  <2>1. ActiveCodexTurnOperation \in Turns \cup {NoTurn}
    <3>1. CASE ActiveRows = {}
      BY <3>1 DEF ActiveCodexTurnOperation
    <3>2. CASE ActiveRows /= {}
      BY <3>2, <1>0, NewestIsActive DEF ThreadTypes, ActiveRows
    <3> QED BY <3>1, <3>2
  <2>2. \E p \in {"cancelling", "queued"}, x, y \in Turns \cup {NoTurn} : StopPhase(s, p, x, y)
    BY <1>7, <2>1, <1>0 DEF RequestInterrupt, ThreadTypes
  <2>3. ask' \in Asks
    BY <2>2, <1>0, <1>s, PhaseType DEF Phases
  <2> QED BY <1>7, <2>3, <1>0, <1>p DEF RequestInterrupt, ThreadTypes, requestVars, eventVars, linkVars
<1>8. ASSUME NEW s \in UserStops, CancelOperation(s) PROVE ThreadTypes'
  <2>1. \E p \in {"cancelled", "queued"}, y \in Turns \cup {NoTurn} : StopPhase(s, p, NoTurn, y)
    BY <1>8, <1>0 DEF CancelOperation, ThreadTypes, Asks
  <2>2. UNCHANGED op \/ op' = [op EXCEPT ![ask[s].op] = "cancelled"]
    BY <1>8 DEF CancelOperation
  <2>3. ask' \in Asks
    BY <2>1, <1>0, <1>s, PhaseType DEF Phases
  <2> QED BY <1>8, <2>2, <2>3, <1>0, <1>p DEF CancelOperation, ThreadTypes, requestVars, eventVars, linkVars
<1>9. ASSUME NEW s \in UserStops, ReleaseThread(s) \/ MarkCancelled(s) PROVE ThreadTypes'
  <2>1. ask' \in Asks
    BY <1>9, <1>0, <1>s, PhaseType DEF Phases, ReleaseThread, MarkCancelled
  <2> QED BY <1>9, <2>1, <1>0, <1>p
      DEF ReleaseThread, MarkCancelled, ThreadTypes, requestVars, eventVars, linkVars, ThreadStatus
<1>10. ASSUME NEW o \in Turns, SendTurn(o) \/ DeliverTurn(o) \/ ReplayResult(o) PROVE ThreadTypes'
  BY <1>10, <1>0, <1>p
  DEF SendTurn, DeliverTurn, ReplayResult, ThreadTypes, threadVars, requestVars, eventVars, linkVars
<1>11. ASSUME NEW o \in Turns, MarkDelivered(o) PROVE ThreadTypes'
  <2>1. ask' \in Asks
    BY <1>11, <1>0, <1>s, PhaseType DEF Phases, MarkDelivered, ThreadTypes
  <2>2. op' \in [Turns -> Active \cup {"none", "succeeded", "failed", "cancelled"}]
    BY <1>11, <1>0 DEF MarkDelivered, ThreadTypes, Active
  <2> QED BY <1>11, <2>1, <2>2, <1>0, <1>p DEF MarkDelivered, ThreadTypes, requestVars, eventVars, linkVars
<1>12. ASSUME NEW s \in Stops, DeliverStop(s) PROVE ThreadTypes'
  <2>1. ask' \in Asks
    <3> DEFINE a == [ask[s] EXCEPT !.phase = "sent"]
    <3>1. ask[s] \in [phase : Phases, op : Turns \cup {NoTurn}, turn : Turns \cup {NoTurn}]
      BY <1>0 DEF ThreadTypes, Asks
    <3>2. a \in [phase : Phases, op : Turns \cup {NoTurn}, turn : Turns \cup {NoTurn}]
      BY <3>1 DEF Phases
    <3>3. ask' = [ask EXCEPT ![s] = a]
      BY <1>12 DEF DeliverStop
    <3> QED BY <3>2, <3>3, <1>0 DEF ThreadTypes, Asks
  <2> QED BY <1>12, <2>1, <1>0, <1>p DEF DeliverStop, ThreadTypes, requestVars, eventVars, linkVars
<1>13. CASE HandleOperationStarted
  <2>1. Head(reports).op \in Turns
    BY <1>13, <1>h, MessageKinds DEF HandleOperationStarted, Handle
  <2> QED BY <1>13, <2>1, <1>0, <1>p DEF HandleOperationStarted, ThreadTypes, requestVars, eventVars, linkVars, Active
<1>14. CASE DropEvent
  BY <1>14, <1>0, <1>p DEF DropEvent, ThreadTypes, threadVars, requestVars, eventVars, linkVars
<1>15. CASE HandleAccepted
  <2>1. Head(reports).op \in Turns
    BY <1>15, <1>h, MessageKinds DEF HandleAccepted, Handle
  <2>2. \/ UNCHANGED position
        \/ CommitThreadRewrite(Head(reports).op) /\ Head(reports).op \in Rewrites
           /\ position[edit[Head(reports).op].target] > 0
    BY <1>15 DEF HandleAccepted
  <2>3. ASSUME CommitThreadRewrite(Head(reports).op), Head(reports).op \in Rewrites,
               position[edit[Head(reports).op].target] > 0
        PROVE  LastPosition' \in Nat /\ position' \in [Turns -> 0..LastPosition']
    <3>0. Head(reports).kind = "turn.accepted" /\ reports /= <<>>
      BY <1>15 DEF HandleAccepted, Handle
    <3>1. edit[Head(reports).op].target \in Turns
      BY <3>0, <2>3, <1>0, FrontPlace DEF RowsFit
    <3>2. /\ position' \in [Turns -> Nat]
          /\ \A m \in Turns : position'[m] <= LastPosition
      BY <2>3, <3>1, <1>0 DEF CommitThreadRewrite, ThreadTypes
    <3> QED BY <3>2, <1>0, LastFits DEF ThreadTypes
  <2>4. LastPosition' \in Nat /\ position' \in [Turns -> 0..LastPosition']
    BY <2>2, <2>3, <1>0, <1>p DEF ThreadTypes
  <2> QED BY <1>15, <2>1, <2>4, <1>0
      DEF HandleAccepted, ThreadTypes, requestVars, linkVars, ThreadStatus, BusyStatus
<1>16. CASE HandleTurnStarted
  <2>1. Head(reports).op \in Turns
    BY <1>16, <1>h, MessageKinds DEF HandleTurnStarted, Handle
  <2> QED BY <1>16, <2>1, <1>0, <1>p DEF HandleTurnStarted, ThreadTypes, requestVars, linkVars, ThreadStatus, BusyStatus
<1>17. CASE HandleTurnCompleted
  <2>1. Head(reports).result \in TurnStatus
    BY <1>17, <1>h, MessageKinds DEF HandleTurnCompleted, Handle
  <2> QED BY <1>17, <2>1, <1>0, <1>p
      DEF HandleTurnCompleted, CompletedTurnStatus, TurnStatus, ThreadTypes, requestVars, linkVars, ThreadStatus
<1>18. CASE HandleTurnFailed
  BY <1>18, <1>0, <1>p DEF HandleTurnFailed, ThreadTypes, requestVars, linkVars, ThreadStatus
<1>19. CASE HandleTurnResult
  <2>1. Head(reports).op \in Turns /\ Head(reports).result \in {"succeeded", "failed"}
    BY <1>19, <1>h, MessageKinds DEF HandleTurnResult, Handle
  <2> QED BY <1>19, <2>1, <1>0, <1>p DEF HandleTurnResult, ThreadTypes, requestVars, linkVars, ThreadStatus
<1>20. CASE HandleStopResult
  <2>1. Head(reports).op \in Stops
    BY <1>20, <1>h, MessageKinds DEF HandleStopResult, Handle
  <2>2. \E p \in Phases : StopPhase(Head(reports).op, p, NoTurn, NoTurn)
    BY <1>20 DEF HandleStopResult, Phases
  <2>3. ask' \in Asks
    BY <2>1, <2>2, <1>0, PhaseType
  <2> QED BY <1>20, <2>3, <1>0, <1>p
      DEF HandleStopResult, ThreadTypes, requestVars, linkVars, ThreadStatus
<1>21. CASE Session \/ UNCHANGED vars
  BY <1>21, <1>0, <1>p DEF Session, vars, threadVars, requestVars, eventVars, linkVars, ThreadTypes
<1>22. CASE Crash
  <2>1. ask' \in Asks
    <3>1. PICK again : ask' = AskAgain(again, reports')
      BY <1>22 DEF Crash
    <3> QED BY <3>1, <1>0 DEF AskAgain, NoAsk, ThreadTypes, Asks, Phases
  <2> QED BY <1>22, <2>1, <1>0, <1>p DEF Crash, ThreadTypes, requestVars, eventVars
<1>23. CASE Disconnect
  BY <1>23, <1>0, <1>p DEF Disconnect, ThreadTypes, requestVars, eventVars
<1> QED BY <1>1, <1>2, <1>3, <1>4, <1>5, <1>6, <1>7, <1>8, <1>9, <1>10, <1>11, <1>12, <1>13,
           <1>14, <1>15, <1>16, <1>17, <1>18, <1>19, <1>20, <1>21, <1>22, <1>23
    DEF ThreadNext, HandleRequest, HandleInterrupt, HandleMessage

\* The first state has the types.
LEMMA ThreadTypeInit == ThreadInit => ThreadTypeOK
<1> SUFFICES ASSUME ThreadInit PROVE AdapterTypeOK /\ ThreadTypes
  BY TypesOfBoth
<1>1. AdapterTypeOK
  BY TypeInit DEF ThreadInit
<1>2. LastPosition \in Nat /\ position \in [Turns -> 0..LastPosition]
  <2> DEFINE last(n) == n \in {position[m] : m \in Turns} \cup {0} /\ \A m \in Turns : position[m] <= n
  <2>1. position \in [Turns -> Nat] /\ \A m \in Turns : position[m] <= 1
    BY DEF ThreadInit
  <2>2. \E n : last(n)
    BY <2>1, LastExists
  <2>3. LastPosition = CHOOSE n : last(n)
    BY DEF LastPosition
  <2>4. last(LastPosition)
    <3> HIDE DEF last
    <3> QED BY <2>2, <2>3
  <2> QED BY <2>1, <2>4
<1>3. rows \in Seq(Turns)
  <2>1. Earlier \in Turns \cup {NoTurn}
    BY ThreadAssumption
  <2> QED BY <2>1, AdapterAssumption DEF ThreadInit
<1> QED BY <1>1, <1>2, <1>3 DEF ThreadInit, ThreadTypes, ThreadStatus, BusyStatus, Active, NoEdit, NoAsk, Asks, Phases


-----------------------------------------------------------------------------
(***************************************************************************)
(* Rows, requests and messages belong together.                            *)
(***************************************************************************)

\* Before a request has a row.
Asking == {"none", "read", "claimed"}

\* A row is added by a request that had none and for a rewrite with its edit;
\* no other step adds or removes a row, or takes a request back.
LEMMA RequestMoves ==
    ASSUME ThreadTypeOK, RowsFit, [ThreadNext]_vars
    PROVE  \/ /\ rows' = rows /\ edit' = edit
              /\ \A o \in Turns :
                    /\ op'[o] = "none" <=> op[o] = "none"
                    /\ handler'[o] \in Asking <=> handler[o] \in Asking
                    /\ handler[o] = "done" => handler'[o] = "done"
                    /\ o \in Rewrites => handler'[o] = handler[o]
           \/ \E o \in Turns : QueueTurn(o)
           \/ \E o \in Rewrites, m \in Turns : RewriteThread(o, m)
<1> DEFINE Kept == /\ rows' = rows /\ edit' = edit
                   /\ \A o \in Turns :
                         /\ op'[o] = "none" <=> op[o] = "none"
                         /\ handler'[o] \in Asking <=> handler[o] \in Asking
                         /\ handler[o] = "done" => handler'[o] = "done"
                         /\ o \in Rewrites => handler'[o] = handler[o]
<1>0. /\ op \in [Turns -> Active \cup {"none", "succeeded", "failed", "cancelled"}]
      /\ handler \in [Turns -> {"none", "read", "claimed", "queued", "done"}]
      /\ \A r \in Rewrites : handler[r] \in {"none", "done"}
      /\ reports \in Seq(Message)
  BY DEF ThreadTypeOK, RowsFit, AdapterTypeOK
<1>h. reports /= <<>> => Head(reports) \in Message
  BY <1>0, FrontType
<1>1. ASSUME NEW o \in Turns, ReadThread(o) PROVE Kept
  BY <1>1, <1>0 DEF ReadThread, Asking
<1>2. ASSUME NEW o \in Turns, ClaimThreadForTurn(o) PROVE Kept
  BY <1>2, <1>0 DEF ClaimThreadForTurn, Asking
<1>3. ASSUME NEW o \in Turns, QueueTurnFails(o) PROVE Kept
  BY <1>3, <1>0 DEF QueueTurnFails, Asking
<1>4. ASSUME NEW o \in Turns, AddUserMessage(o) PROVE Kept
  BY <1>4, <1>0 DEF AddUserMessage, Asking
<1>5. ASSUME NEW s \in UserStops, RequestInterrupt(s) \/ ReleaseThread(s) \/ MarkCancelled(s) PROVE Kept
  BY <1>5 DEF RequestInterrupt, ReleaseThread, MarkCancelled, requestVars
<1>6. ASSUME NEW s \in UserStops, CancelOperation(s) PROVE Kept
  BY <1>6, <1>0 DEF CancelOperation, requestVars, Active
<1>7. ASSUME NEW o \in Turns, SendTurn(o) \/ DeliverTurn(o) \/ ReplayResult(o) PROVE Kept
  BY <1>7 DEF SendTurn, DeliverTurn, ReplayResult, threadVars, requestVars
<1>8. ASSUME NEW o \in Turns, MarkDelivered(o) PROVE Kept
  BY <1>8, <1>0 DEF MarkDelivered, requestVars
<1>9. ASSUME NEW s \in Stops, DeliverStop(s) PROVE Kept
  BY <1>9 DEF DeliverStop, requestVars
<1>10. CASE HandleOperationStarted
  BY <1>10, <1>0 DEF HandleOperationStarted, requestVars, Active
<1>11. CASE DropEvent \/ HandleAccepted \/ HandleTurnStarted \/ HandleTurnCompleted \/ HandleTurnFailed
            \/ HandleStopResult
  BY <1>11 DEF DropEvent, HandleAccepted, HandleTurnStarted, HandleTurnCompleted, HandleTurnFailed,
     HandleStopResult, threadVars, requestVars
<1>12. CASE HandleTurnResult
  <2>1. Head(reports).result /= "none"
    BY <1>12, <1>h, MessageKinds DEF HandleTurnResult, Handle
  <2> QED BY <1>12, <2>1, <1>0 DEF HandleTurnResult, requestVars, Active
<1>13. CASE Session \/ Crash \/ Disconnect \/ UNCHANGED vars
  BY <1>13 DEF Session, Crash, Disconnect, vars, threadVars, requestVars
<1> QED BY <1>1, <1>2, <1>3, <1>4, <1>5, <1>6, <1>7, <1>8, <1>9, <1>10, <1>11, <1>12, <1>13
    DEF ThreadNext, HandleRequest, HandleInterrupt, HandleMessage

\* A step of the session begins no turn command.
LEMMA SessionBeginsNone ==
    ASSUME AdapterTypeOK, AdapterStep, NEW o \in Turns, call[o] = "none"
    PROVE  call'[o] = "none"
<1>0. call \in [Turns -> CallStep]
  BY DEF AdapterTypeOK, CallStep
<1>1. ASSUME NEW p \in Turns, PrepareFails(p) \/ StartPreparedTurn(p) \/ HandleResponse(p)
                             \/ RequestTimeout(p) \/ TurnAccepted(p) \/ TurnRefused(p)
      PROVE  call[p] /= "none" /\ \E r : call' = [call EXCEPT ![p] = r]
  BY <1>1 DEF PrepareFails, StartPreparedTurn, HandleResponse, RequestTimeout, TurnAccepted, TurnRefused, EndCall
<1>2. ASSUME NEW p \in Turns, NotifyStarted(p) \/ \E st \in TurnStatus : NotifyEnded(p, st)
      PROVE  call' = call
  BY <1>2 DEF NotifyStarted, NotifyEnded
<1>3. ASSUME NEW s \in Stops, InterruptTurn(s) \/ InterruptNothing(s) \/ InterruptExpires(s) \/ InterruptFails(s)
      PROVE  call' = call
  BY <1>3 DEF InterruptTurn, InterruptNothing, InterruptExpires, InterruptFails
<1>4. ASSUME Exit \/ ReapIdle \/ Reconfigure PROVE call'[o] = "none"
  BY <1>4 DEF Exit, ReapIdle, Reconfigure, Reset
<1> QED BY <1>0, <1>1, <1>2, <1>3, <1>4 DEF AdapterStep

\* A command begins only when it is delivered.
LEMMA BegunByDelivery ==
    ASSUME ThreadTypeOK, [ThreadNext]_vars, NEW o \in Turns, call[o] = "none", call'[o] /= "none"
    PROVE  DeliverTurn(o)
<1>0. AdapterTypeOK /\ call \in [Turns -> CallStep]
  BY DEF ThreadTypeOK, AdapterTypeOK, CallStep
<1>1. ASSUME NEW p \in Turns, DeliverTurn(p) PROVE p = o
  BY <1>1, <1>0 DEF DeliverTurn, StartTurn, EndCall
<1>2. ASSUME NEW s \in Stops, DeliverStop(s) PROVE FALSE
  BY <1>2 DEF DeliverStop, Interrupt
<1>3. ASSUME Session PROVE FALSE
  BY <1>3, <1>0, SessionBeginsNone DEF Session
<1>4. ASSUME Crash \/ Disconnect \/ UNCHANGED vars PROVE FALSE
  BY <1>4, <1>0 DEF Crash, Disconnect, vars, adapterVars
<1>5. ASSUME NEW p \in Turns, ReadThread(p) \/ HandleRequest(p) PROVE FALSE
  BY <1>5 DEF ReadThread, HandleRequest, ClaimThreadForTurn, QueueTurn, QueueTurnFails, AddUserMessage, adapterVars
<1>6. ASSUME NEW r \in Rewrites, NEW m \in Turns, RewriteThread(r, m) PROVE FALSE
  BY <1>6 DEF RewriteThread, adapterVars
<1>7. ASSUME NEW s \in UserStops, RequestInterrupt(s) \/ HandleInterrupt(s) PROVE FALSE
  BY <1>7 DEF RequestInterrupt, HandleInterrupt, CancelOperation, ReleaseThread, MarkCancelled, adapterVars
<1>8. ASSUME NEW p \in Turns, SendTurn(p) \/ MarkDelivered(p) \/ ReplayResult(p) PROVE FALSE
  BY <1>8 DEF SendTurn, MarkDelivered, ReplayResult, adapterVars
<1>9. ASSUME HandleMessage PROVE FALSE
  BY <1>9 DEF Handle, HandleMessage, HandleOperationStarted, DropEvent, HandleAccepted,
     HandleTurnStarted, HandleTurnCompleted, HandleTurnFailed, HandleTurnResult, HandleStopResult
<1> QED BY <1>1, <1>2, <1>3, <1>4, <1>5, <1>6, <1>7, <1>8, <1>9 DEF ThreadNext

\* What a step may do to the queue of reports.
LEMMA QueueMoves ==
    ASSUME ThreadTypeOK, [ThreadNext]_vars
    PROVE  \/ Proceeds /\ \E ms \in Seq(Message) : Adds(ms)
           \/ \E o \in Turns : ReplayResult(o)
           \/ HandleMessage
           \/ Crash
           \/ Disconnect
<1>0. AdapterTypeOK
  BY DEF ThreadTypeOK
<1>1. ASSUME call' = call, reports' = reports
      PROVE  Proceeds /\ \E ms \in Seq(Message) : Adds(ms)
  BY <1>0, <1>1, AddsNothing, SeqNone DEF Proceeds
<1>2. ASSUME NEW p \in Turns, ReadThread(p) \/ HandleRequest(p) PROVE call' = call /\ reports' = reports
  BY <1>2 DEF ReadThread, HandleRequest, ClaimThreadForTurn, QueueTurn, QueueTurnFails, AddUserMessage, adapterVars
<1>3. ASSUME NEW r \in Rewrites, NEW m \in Turns, RewriteThread(r, m) PROVE call' = call /\ reports' = reports
  BY <1>3 DEF RewriteThread, adapterVars
<1>4. ASSUME NEW s \in UserStops, RequestInterrupt(s) \/ HandleInterrupt(s) PROVE call' = call /\ reports' = reports
  BY <1>4 DEF RequestInterrupt, HandleInterrupt, CancelOperation, ReleaseThread, MarkCancelled, adapterVars
<1>5. ASSUME NEW p \in Turns, SendTurn(p) \/ MarkDelivered(p) PROVE call' = call /\ reports' = reports
  BY <1>5 DEF SendTurn, MarkDelivered, adapterVars
<1>6. ASSUME NEW p \in Turns, DeliverTurn(p) PROVE SessionMove
  BY <1>6 DEF DeliverTurn, SessionMove
<1>7. ASSUME NEW s \in Stops, DeliverStop(s) PROVE SessionMove
  <2>1. Interrupt(s, ask[s].turn, s \in Turns) /\ (s \in Turns) \in BOOLEAN /\ ask[s].turn \in Turns \cup {NoTurn}
    BY <1>7 DEF DeliverStop, ThreadTypeOK
  <2> QED BY <2>1 DEF SessionMove
<1>8. CASE Session
  BY <1>8, <1>0, Reported DEF Session, SessionMove
<1>9. CASE UNCHANGED vars
  BY <1>9, <1>1 DEF vars, adapterVars
<1> QED BY <1>0, <1>1, <1>2, <1>3, <1>4, <1>5, <1>6, <1>7, <1>8, <1>9, Reported DEF ThreadNext

\* Where a message of the queue comes from.
LEMMA MessageOrigin ==
    ASSUME ThreadTypeOK, [ThreadNext]_vars, NEW k \in DOMAIN reports'
    PROVE  \/ \E j \in DOMAIN reports : reports[j] = reports'[k]
           \/ \E o \in Turns : reports'[k] = Result(o, call[o]) /\ ReplayResult(o)
           \/ \E ms \in Seq(Message) : Adds(ms) /\ \E l \in DOMAIN ms : reports'[k] = ms[l]
<1>0. AdapterTypeOK /\ reports \in Seq(Message)
  BY DEF ThreadTypeOK, AdapterTypeOK
<1>1. CASE \E ms \in Seq(Message) : Adds(ms)
  <2>1. PICK ms \in Seq(Message) : Adds(ms)
    BY <1>1
  <2>2. reports' = reports \o ms
    BY <2>1 DEF Adds
  <2>3. CASE k <= Len(reports)
    BY <2>2, <2>3, <1>0
  <2>4. CASE ~(k <= Len(reports))
    BY <2>1, <2>2, <2>4, <1>0
  <2> QED BY <2>3, <2>4
<1>2. ASSUME NEW o \in Turns, ReplayResult(o)
      PROVE  (\E j \in DOMAIN reports : reports[j] = reports'[k]) \/ reports'[k] = Result(o, call[o])
  <2>1. reports' = Append(reports, Result(o, call[o]))
    BY <1>2, <1>0, ReplayType
  <2> QED BY <2>1, <1>0
<1>3. CASE HandleMessage
  <2>1. /\ reports /= <<>> /\ reports' = Tail(reports)
    BY <1>3 DEF Handle, HandleMessage, HandleOperationStarted, DropEvent, HandleAccepted,
       HandleTurnStarted, HandleTurnCompleted, HandleTurnFailed, HandleTurnResult, HandleStopResult
  <2> QED BY <2>1, <1>0, FrontPlace
<1>4. CASE Crash
  <2>1. PICK m \in 0..Len(reports) : \E at \in [1..m -> 1..Len(reports)] :
            reports' = [i \in 1..m |-> reports[at[i]]]
    BY <1>4 DEF Crash
  <2>2. PICK at \in [1..m -> 1..Len(reports)] : reports' = [i \in 1..m |-> reports[at[i]]]
    BY <2>1
  <2>3. k \in 1..m /\ at[k] \in DOMAIN reports
    BY <2>2, <1>0
  <2> QED BY <2>2, <2>3
<1>5. CASE Disconnect
  <2>1. PICK n \in 0..Len(reports) : reports' = SubSeq(reports, n + 1, Len(reports))
    BY <1>5 DEF Disconnect
  <2>2. k + n \in DOMAIN reports /\ reports'[k] = reports[k + n]
    BY <2>1, <1>0
  <2> QED BY <2>2
<1> QED BY <1>1, <1>2, <1>3, <1>4, <1>5, QueueMoves

\* What a step may do to the positions of the messages.
LEMMA PositionMoves ==
    ASSUME [ThreadNext]_vars
    PROVE  \/ position' = position
           \/ \E o \in Turns : AddUserMessage(o)
           \/ /\ HandleAccepted /\ Head(reports).op \in Rewrites
              /\ position[edit[Head(reports).op].target] > 0
              /\ CommitThreadRewrite(Head(reports).op)
<1>1. ASSUME NEW o \in Turns, ReadThread(o) \/ ClaimThreadForTurn(o) \/ QueueTurn(o) \/ QueueTurnFails(o)
      PROVE  position' = position
  BY <1>1 DEF ReadThread, ClaimThreadForTurn, QueueTurn, QueueTurnFails, eventVars
<1>2. ASSUME NEW r \in Rewrites, NEW m \in Turns, RewriteThread(r, m) PROVE position' = position
  BY <1>2 DEF RewriteThread, eventVars
<1>3. ASSUME NEW s \in UserStops, RequestInterrupt(s) \/ HandleInterrupt(s) PROVE position' = position
  BY <1>3 DEF RequestInterrupt, HandleInterrupt, CancelOperation, ReleaseThread, MarkCancelled, eventVars
<1>4. ASSUME NEW p \in Turns, SendTurn(p) \/ MarkDelivered(p) \/ DeliverTurn(p) \/ ReplayResult(p)
      PROVE  position' = position
  BY <1>4 DEF SendTurn, MarkDelivered, DeliverTurn, ReplayResult, threadVars, eventVars
<1>5. ASSUME NEW s \in Stops, DeliverStop(s) PROVE position' = position
  BY <1>5 DEF DeliverStop, eventVars
<1>6. CASE HandleOperationStarted \/ DropEvent \/ HandleTurnStarted \/ HandleTurnCompleted
           \/ HandleTurnFailed \/ HandleTurnResult \/ HandleStopResult
  BY <1>6 DEF HandleOperationStarted, DropEvent, HandleTurnStarted, HandleTurnCompleted,
     HandleTurnFailed, HandleTurnResult, HandleStopResult, threadVars, eventVars
<1>7. CASE HandleAccepted
  <2>1. UNCHANGED position \/ (/\ Head(reports).op \in Rewrites
                               /\ position[edit[Head(reports).op].target] > 0
                               /\ CommitThreadRewrite(Head(reports).op))
    BY <1>7, Zenon DEF HandleAccepted
  <2> QED BY <2>1, <1>7
<1>8. CASE Session \/ Crash \/ Disconnect \/ UNCHANGED vars
  BY <1>8 DEF Session, Crash, Disconnect, vars, threadVars, eventVars
<1> QED BY <1>1, <1>2, <1>3, <1>4, <1>5, <1>6, <1>7, <1>8 DEF ThreadNext, HandleRequest, HandleMessage

\* The request of an acceptance that is reported was queued.
LEMMA AcceptedIsQueued ==
    ASSUME ThreadTypeOK, RowsFit, reports /= <<>>, Head(reports).kind = "turn.accepted"
    PROVE  Head(reports).op \in Turns /\ op[Head(reports).op] /= "none"
<1>1. reports \in Seq(Message)
  BY DEF ThreadTypeOK, AdapterTypeOK
<1>2. 1 \in DOMAIN reports /\ reports[1] = Head(reports) /\ Head(reports) \in Message
  BY <1>1, FrontPlace, FrontType
<1> QED BY <1>2, MessageKinds DEF RowsFit

\* A message is there only when its request was made in full.
LEMMA PlacedIsDone ==
    ASSUME ThreadTypeOK, RowsFit, [ThreadNext]_vars, NEW m \in Turns, position'[m] > 0
    PROVE  handler'[m] = "done"
<1>0. /\ handler \in [Turns -> {"none", "read", "claimed", "queued", "done"}]
      /\ position \in [Turns -> Nat] /\ LastPosition \in Nat
  BY DEF ThreadTypeOK
<1>1. handler[m] = "done" => handler'[m] = "done"
  <2>1. ASSUME NEW o \in Turns, QueueTurn(o), handler[m] = "done" PROVE handler'[m] = "done"
    BY <2>1, <1>0 DEF QueueTurn
  <2>2. ASSUME NEW o \in Rewrites, NEW t \in Turns, RewriteThread(o, t), handler[m] = "done"
        PROVE  handler'[m] = "done"
    BY <2>2, <1>0 DEF RewriteThread
  <2> QED BY <2>1, <2>2, RequestMoves
<1>2. position[m] > 0 => handler[m] = "done"
  BY DEF RowsFit
<1>3. ASSUME NEW o \in Turns, AddUserMessage(o) PROVE handler'[m] = "done"
  BY <1>1, <1>2, <1>3, <1>0 DEF AddUserMessage
<1>4. ASSUME HandleAccepted, Head(reports).op \in Rewrites, CommitThreadRewrite(Head(reports).op)
      PROVE  handler'[m] = "done"
  <2>1. op[Head(reports).op] /= "none"
    BY <1>4, AcceptedIsQueued DEF HandleAccepted, Handle
  <2>2. handler[Head(reports).op] = "done"
    BY <2>1, <1>4, AdapterAssumption DEF RowsFit
  <2>3. m = Head(reports).op \/ position[m] > 0
    BY <1>4, <1>0 DEF CommitThreadRewrite
  <2> QED BY <1>1, <1>2, <2>2, <2>3
<1> QED BY <1>1, <1>2, <1>3, <1>4, PositionMoves

\* Every step keeps rows, requests and messages together.
LEMMA RowsStep ==
    ASSUME ThreadTypeOK, RowsFit, [ThreadNext]_vars
    PROVE  RowsFit'
<1>0. /\ op \in [Turns -> Active \cup {"none", "succeeded", "failed", "cancelled"}]
      /\ handler \in [Turns -> {"none", "read", "claimed", "queued", "done"}]
      /\ edit \in [Rewrites -> [target : Turns \cup {NoTurn}, cutoff : Nat]]
      /\ call \in [Turns -> CallStep]
      /\ rows \in Seq(Turns) /\ Rewrites \subseteq Turns /\ AdapterTypeOK
  BY AdapterAssumption DEF ThreadTypeOK, AdapterTypeOK, CallStep
<1>1. ASSUME NEW o \in Turns, op[o] = "none", rows' = Append(rows, o), op' = [op EXCEPT ![o] = "queued"],
             \E h \in {"queued", "done"} : handler' = [handler EXCEPT ![o] = h]
      PROVE  /\ \A i, j \in DOMAIN rows' : rows'[i] = rows'[j] => i = j
             /\ \A p \in Turns : (\E i \in DOMAIN rows' : rows'[i] = p) <=> op'[p] /= "none"
             /\ \A p \in Turns : op'[p] = "none" <=> handler'[p] \in Asking
  <2>1. /\ DOMAIN rows' = DOMAIN rows \cup {Len(rows) + 1} /\ Len(rows) + 1 \notin DOMAIN rows
        /\ \A i \in DOMAIN rows : rows'[i] = rows[i]
        /\ rows'[Len(rows) + 1] = o
    BY <1>1, <1>0
  <2>2. \A i \in DOMAIN rows : rows[i] \in Turns /\ rows[i] /= o
    BY <1>1, <1>0 DEF RowsFit
  <2>3. \A i, j \in DOMAIN rows' : rows'[i] = rows'[j] => i = j
    BY <2>1, <2>2 DEF RowsFit
  <2>4. \A p \in Turns : (\E i \in DOMAIN rows' : rows'[i] = p) <=> op'[p] /= "none"
    BY <2>1, <1>1, <1>0 DEF RowsFit
  <2>5. \A p \in Turns : op'[p] = "none" <=> handler'[p] \in Asking
    BY <1>1, <1>0 DEF RowsFit, Asking
  <2> QED BY <2>3, <2>4, <2>5
<1>2. ASSUME NEW o \in Turns, QueueTurn(o)
      PROVE  /\ op[o] = "none" /\ rows' = Append(rows, o) /\ op' = [op EXCEPT ![o] = "queued"]
             /\ handler' = [handler EXCEPT ![o] = "queued"] /\ handler[o] = "claimed" /\ edit' = edit
  BY <1>2 DEF QueueTurn, RowsFit
<1>3. ASSUME NEW o \in Rewrites, NEW m \in Turns, RewriteThread(o, m)
      PROVE  /\ op[o] = "none" /\ rows' = Append(rows, o) /\ op' = [op EXCEPT ![o] = "queued"]
             /\ handler' = [handler EXCEPT ![o] = "done"]
             /\ edit' = [edit EXCEPT ![o] = [target |-> m, cutoff |-> LastPosition]]
             /\ m /= o
  BY <1>3, <1>0 DEF RewriteThread, RowsFit
<1>a. /\ \A i, j \in DOMAIN rows' : rows'[i] = rows'[j] => i = j
      /\ \A o \in Turns : (\E i \in DOMAIN rows' : rows'[i] = o) <=> op'[o] /= "none"
      /\ \A o \in Turns : op'[o] = "none" <=> handler'[o] \in Asking
  <2>1. ASSUME NEW o \in Turns, QueueTurn(o)
        PROVE  /\ \A i, j \in DOMAIN rows' : rows'[i] = rows'[j] => i = j
               /\ \A p \in Turns : (\E i \in DOMAIN rows' : rows'[i] = p) <=> op'[p] /= "none"
               /\ \A p \in Turns : op'[p] = "none" <=> handler'[p] \in Asking
    BY <1>1, <1>2, <2>1
  <2>2. ASSUME NEW o \in Rewrites, NEW m \in Turns, RewriteThread(o, m)
        PROVE  /\ \A i, j \in DOMAIN rows' : rows'[i] = rows'[j] => i = j
               /\ \A p \in Turns : (\E i \in DOMAIN rows' : rows'[i] = p) <=> op'[p] /= "none"
               /\ \A p \in Turns : op'[p] = "none" <=> handler'[p] \in Asking
    BY <1>1, <1>3, <2>2, <1>0
  <2> QED BY <2>1, <2>2, RequestMoves DEF RowsFit, Asking
<1>b. \A o \in Rewrites : /\ handler'[o] \in {"none", "done"}
                          /\ handler'[o] = "done" => edit'[o].target \in Turns \ {o}
  <2>1. ASSUME NEW p \in Turns, QueueTurn(p), NEW o \in Rewrites
        PROVE  handler'[o] = handler[o] /\ edit'[o] = edit[o]
    BY <2>1, <1>2, <1>0 DEF RowsFit
  <2>2. ASSUME NEW p \in Rewrites, NEW m \in Turns, RewriteThread(p, m), NEW o \in Rewrites
        PROVE  IF o = p THEN handler'[o] = "done" /\ edit'[o].target \in Turns \ {o}
               ELSE handler'[o] = handler[o] /\ edit'[o] = edit[o]
    BY <2>2, <1>3, <1>0
  <2> QED BY <2>1, <2>2, RequestMoves, <1>0 DEF RowsFit
<1>c. \A o \in Turns : position'[o] > 0 => handler'[o] = "done"
  BY PlacedIsDone
<1>k. ASSUME NEW o \in Turns, op[o] /= "none" PROVE op'[o] /= "none"
  BY <1>k, <1>2, <1>3, <1>0, RequestMoves
<1>d. \A o \in Turns : op'[o] = "none" => o \notin sent' /\ call'[o] = "none"
  <2> SUFFICES ASSUME NEW o \in Turns, op'[o] = "none" PROVE o \notin sent' /\ call'[o] = "none"
    OBVIOUS
  <2>1. op[o] = "none" /\ o \notin sent /\ call[o] = "none"
    BY <1>k DEF RowsFit
  <2>2. call'[o] = "none"
    BY <2>1, BegunByDelivery DEF DeliverTurn
  <2>3. sent' \subseteq sent \/ \E p \in Turns : SendTurn(p)
    <3>1. ASSUME NEW p \in Turns, ReadThread(p) \/ HandleRequest(p) \/ MarkDelivered(p) \/ DeliverTurn(p) \/ ReplayResult(p)
          PROVE  sent' \subseteq sent
      BY <3>1 DEF ReadThread, HandleRequest, ClaimThreadForTurn, QueueTurn, QueueTurnFails, AddUserMessage,
         MarkDelivered, DeliverTurn, ReplayResult, threadVars, linkVars
    <3>2. ASSUME NEW r \in Rewrites, NEW m \in Turns, RewriteThread(r, m) PROVE sent' \subseteq sent
      BY <3>2 DEF RewriteThread, linkVars
    <3>3. ASSUME NEW s \in UserStops, RequestInterrupt(s) \/ HandleInterrupt(s) PROVE sent' \subseteq sent
      BY <3>3 DEF RequestInterrupt, HandleInterrupt, CancelOperation, ReleaseThread, MarkCancelled, linkVars
    <3>4. ASSUME NEW s \in Stops, DeliverStop(s) PROVE sent' \subseteq sent
      BY <3>4 DEF DeliverStop, linkVars
    <3>5. CASE HandleMessage
      BY <3>5 DEF HandleMessage, HandleOperationStarted, DropEvent, HandleAccepted, HandleTurnStarted,
         HandleTurnCompleted, HandleTurnFailed, HandleTurnResult, HandleStopResult, threadVars, linkVars
    <3>6. CASE Session \/ Crash \/ Disconnect \/ UNCHANGED vars
      BY <3>6 DEF Session, Crash, Disconnect, vars, threadVars, linkVars
    <3> QED BY <3>1, <3>2, <3>3, <3>4, <3>5, <3>6 DEF ThreadNext
  <2>4. ASSUME NEW p \in Turns, SendTurn(p) PROVE o \notin sent'
    BY <2>1, <2>4 DEF SendTurn
  <2> QED BY <2>1, <2>2, <2>3, <2>4
<1>e. \A k \in DOMAIN reports' : reports'[k].kind = "turn.accepted" => op'[reports'[k].op] /= "none"
  <2> SUFFICES ASSUME NEW k \in DOMAIN reports', reports'[k].kind = "turn.accepted"
               PROVE  op'[reports'[k].op] /= "none"
    OBVIOUS
  <2>0. reports \in Seq(Message)
    BY <1>0 DEF AdapterTypeOK
  <2>1. ASSUME NEW j \in DOMAIN reports, reports[j] = reports'[k] PROVE op'[reports'[k].op] /= "none"
    <3>1. reports[j] \in Message
      BY <2>0
    <3> QED BY <2>1, <3>1, <1>k, MessageKinds DEF RowsFit
  <2>2. ASSUME NEW ms \in Seq(Message), Adds(ms), NEW l \in DOMAIN ms, reports'[k] = ms[l]
        PROVE  op'[reports'[k].op] /= "none"
    <3>1. ms[l] \in Message /\ call[ms[l].op] = "answered"
      BY <2>2 DEF Adds
    <3> QED BY <2>2, <3>1, <1>k, MessageKinds DEF RowsFit
  <2>3. ASSUME NEW o \in Turns, reports'[k] = Result(o, call[o]) PROVE FALSE
    BY <2>3 DEF Result
  <2> QED BY <2>1, <2>2, <2>3, MessageOrigin
<1> QED BY <1>a, <1>b, <1>c, <1>d, <1>e DEF RowsFit, Asking

\* Nothing was asked before the first state but the turn that ended earlier.
LEMMA RowsInit == ThreadInit => RowsFit
<1> SUFFICES ASSUME ThreadInit PROVE RowsFit
  OBVIOUS
<1>0. /\ op = [o \in Turns |-> IF o = Earlier THEN "succeeded" ELSE "none"]
      /\ handler = [o \in Turns |-> IF o = Earlier THEN "done" ELSE "none"]
      /\ position = [o \in Turns |-> IF o = Earlier THEN 1 ELSE 0]
      /\ sent = {} /\ reports = <<>> /\ call = [o \in Turns |-> "none"]
      /\ Rewrites \subseteq Turns /\ Earlier \notin Rewrites /\ NoTurn \notin Turns
      /\ Earlier \in Turns \cup {NoTurn}
  BY ThreadAssumption, AdapterAssumption DEF ThreadInit, AdapterInit
<1>1. /\ \A i, j \in DOMAIN rows : rows[i] = rows[j] => i = j
      /\ \A o \in Turns : (\E i \in DOMAIN rows : rows[i] = o) <=> o = Earlier
  <2>1. CASE Earlier = NoTurn
    <3>1. rows = <<>> /\ DOMAIN rows = {}
      BY <2>1 DEF ThreadInit
    <3> QED BY <3>1, <2>1, <1>0
  <2>2. CASE Earlier \in Turns
    <3>1. rows = <<Earlier>> /\ DOMAIN rows = {1} /\ rows[1] = Earlier
      BY <2>2, <1>0 DEF ThreadInit
    <3> QED BY <3>1, <2>2, <1>0
  <2> QED BY <2>1, <2>2, <1>0
<1>2. \A o \in Turns : /\ op[o] = IF o = Earlier THEN "succeeded" ELSE "none"
                       /\ handler[o] = IF o = Earlier THEN "done" ELSE "none"
                       /\ position[o] = IF o = Earlier THEN 1 ELSE 0
  BY <1>0
<1>3. DOMAIN reports = {}
  BY <1>0
<1>4. \A o \in Rewrites : handler[o] = "none"
  BY <1>0, <1>2
<1>5. \A o \in Turns : op[o] = "none" <=> handler[o] \in {"none", "read", "claimed"}
  BY <1>2
<1>6. \A o \in Turns : (\E i \in DOMAIN rows : rows[i] = o) <=> op[o] /= "none"
  BY <1>1, <1>2
<1>7. \A o \in Turns : position[o] > 0 => handler[o] = "done"
  BY <1>2
<1>8. \A o \in Turns : o \notin sent /\ call[o] = "none"
  BY <1>0
<1>9. \A o \in Rewrites : /\ handler[o] \in {"none", "done"}
                          /\ handler[o] = "done" => edit[o].target \in Turns \ {o}
  BY <1>4
<1> QED BY <1>1, <1>3, <1>5, <1>6, <1>7, <1>8, <1>9 DEF RowsFit

\* The variables of the conversation always have their types, and rows,
\* requests and messages belong together.
LEMMA RowsAlways == ThreadSpec => [](ThreadTypeOK /\ RowsFit)
<1>1. ThreadTypeOK /\ RowsFit /\ [ThreadNext]_vars => ThreadTypeOK' /\ RowsFit'
  <2> SUFFICES ASSUME ThreadTypeOK, RowsFit, [ThreadNext]_vars PROVE ThreadTypeOK' /\ RowsFit'
    OBVIOUS
  <2>1. AdapterTypeOK' /\ ThreadTypes'
    BY SessionTypeStep, ThreadTypeStep
  <2>2. ThreadTypeOK'
    BY <2>1 DEF ThreadTypeOK, ThreadTypes, Asks, Phases
  <2> QED BY <2>2, RowsStep
<1> QED BY ThreadTypeInit, RowsInit, <1>1, PTL DEF ThreadSpec

\* The variables of the conversation always have their types.
THEOREM ThreadTypeCorrect == ThreadSpec => []ThreadTypeOK
BY RowsAlways, PTL


-----------------------------------------------------------------------------
(***************************************************************************)
(* The session runs one turn at a time under the control plane, too, and   *)
(* across the death of the Agent, which ends every turn.                   *)
(***************************************************************************)

\* Whatever the control plane and its faults do, one turn holds the session.
LEMMA ThreadHeldStep ==
    ASSUME ThreadTypeOK, HeldByOne, [ThreadNext]_vars
    PROVE  HeldByOne'
<1>1. AdapterTypeOK
  BY DEF ThreadTypeOK
<1>2. CASE UNCHANGED <<process, state, call, stop, codex, abandoned>>
  BY <1>2 DEF HeldByOne, Holds, Live
<1>3. CASE Crash
  <2>1. \A o \in Turns : ~Live(o)' /\ call'[o] \notin {"requested", "refused"}
    BY <1>3, <1>1 DEF Crash, Live, Calling, AdapterTypeOK
  <2> QED BY <2>1 DEF HeldByOne, Holds
<1> QED BY <1>1, <1>2, <1>3, ThreadMoves, HeldStep

\* The session that serves a conversation runs one turn at a time, across lost
\* connections and deaths of the Agent.
THEOREM ThreadRunsOneTurn == ThreadSpec => []OneTurnAtATime
<1>1. ThreadInit => HeldByOne
  BY DEF ThreadInit, AdapterInit, HeldByOne, Holds, Live
<1>2. ThreadTypeOK /\ HeldByOne /\ [ThreadNext]_vars => HeldByOne'
  BY ThreadHeldStep
<1>3. HeldByOne => OneTurnAtATime
  BY DEF HeldByOne, Holds, OneTurnAtATime
<1> QED BY <1>1, <1>2, <1>3, ThreadTypeCorrect, PTL DEF ThreadSpec

\* And it is reclaimed, by the reaper or a reconfiguration, only when idle.
THEOREM ThreadReclaimIsSafe == ThreadSpec => ReclaimsOnlyIdle
<1>1. ThreadInit => HeldByOne
  BY DEF ThreadInit, AdapterInit, HeldByOne, Holds, Live
<1>2. ThreadTypeOK /\ HeldByOne /\ [ThreadNext]_vars => HeldByOne'
  BY ThreadHeldStep
<1>3. HeldByOne => [(ReapIdle \/ Reconfigure) /\ ~abandoned => \A o \in Turns : ~Live(o)]_adapterVars
  <2> SUFFICES ASSUME HeldByOne, ReapIdle \/ Reconfigure, ~abandoned
               PROVE  \A o \in Turns : ~Live(o)
    OBVIOUS
  <2>1. ~state.active
    BY DEF ReapIdle, Reconfigure, Idle
  <2> QED BY <2>1 DEF HeldByOne, Holds
<1> QED BY <1>1, <1>2, <1>3, ThreadTypeCorrect, PTL DEF ThreadSpec, ReclaimsOnlyIdle


-----------------------------------------------------------------------------
(***************************************************************************)
(* An edit removes nothing that came after it.                             *)
(***************************************************************************)

\* A commit is of an edit that was requested and waits for it.
LEMMA CommitIsPending ==
    ASSUME ThreadTypeOK, RowsFit, HandleAccepted, Head(reports).op \in Rewrites,
           position[edit[Head(reports).op].target] > 0
    PROVE  Uncommitted(Head(reports).op)
<1>1. op[Head(reports).op] /= "none"
  BY AcceptedIsQueued DEF HandleAccepted, Handle
<1> QED BY <1>1, AdapterAssumption DEF RowsFit, Uncommitted

\* A message whose place is free stays away, once its request was made in full
\* and, if it is a replacement, was committed.
LEMMA GoneForGood ==
    ASSUME ThreadTypeOK, RowsFit, [ThreadNext]_vars, NEW t \in Turns,
           handler[t] = "done", position[t] = 0, t \in Rewrites => ~Uncommitted(t)
    PROVE  position'[t] = 0
<1>0. position \in [Turns -> 0..LastPosition] /\ LastPosition \in Nat
  BY DEF ThreadTypeOK
<1>1. ASSUME NEW o \in Turns, AddUserMessage(o) PROVE position'[t] = 0
  BY <1>1, <1>0 DEF AddUserMessage
<1>2. ASSUME HandleAccepted, Head(reports).op \in Rewrites,
             position[edit[Head(reports).op].target] > 0, CommitThreadRewrite(Head(reports).op)
      PROVE  position'[t] = 0
  <2>1. t /= Head(reports).op
    BY <1>2, CommitIsPending
  <2> QED BY <1>2, <2>1 DEF CommitThreadRewrite
<1> QED BY <1>1, <1>2, PositionMoves

\* What stood before an edit: the edit has its message to replace.
LEMMA RequestedEdits ==
    ASSUME ThreadTypeOK, RowsFit, [ThreadNext]_vars, NEW r \in Rewrites, handler'[r] = "done"
    PROVE  \/ handler[r] = "done" /\ edit'[r] = edit[r]
           \/ \E m \in Turns : RewriteThread(r, m)
<1>0. /\ handler \in [Turns -> {"none", "read", "claimed", "queued", "done"}]
      /\ edit \in [Rewrites -> [target : Turns \cup {NoTurn}, cutoff : Nat]]
      /\ Rewrites \subseteq Turns
  BY AdapterAssumption DEF ThreadTypeOK
<1>1. ASSUME NEW o \in Turns, QueueTurn(o) PROVE handler[r] = "done" /\ edit'[r] = edit[r]
  BY <1>1, <1>0 DEF QueueTurn
<1>2. ASSUME NEW o \in Rewrites, NEW m \in Turns, RewriteThread(o, m), o /= r
      PROVE  handler[r] = "done" /\ edit'[r] = edit[r]
  BY <1>2, <1>0 DEF RewriteThread
<1> QED BY <1>0, <1>1, <1>2, RequestMoves

\* Messages are added at the end and never get another place.
LEMMA LastGrows ==
    ASSUME ThreadTypeOK, ThreadTypeOK', NEW o \in Turns, AddUserMessage(o)
    PROVE  /\ position'[o] = LastPosition + 1 /\ LastPosition + 1 <= LastPosition'
           /\ \A m \in Turns \ {o} : position'[m] = position[m]
BY DEF ThreadTypeOK, AddUserMessage

\* What a request for an edit does.
LEMMA RequestedEdit ==
    ASSUME ThreadTypeOK, RowsFit, NEW r \in Rewrites, NEW m \in Turns, RewriteThread(r, m)
    PROVE  /\ op[r] = "none" /\ handler[m] = "done" /\ m /= r /\ position[m] > 0
           /\ position' = position /\ LastPosition' = LastPosition
           /\ handler'[r] = "done" /\ rows' = Append(rows, r)
           /\ edit'[r] = [target |-> m, cutoff |-> LastPosition]
<1>0. /\ handler \in [Turns -> {"none", "read", "claimed", "queued", "done"}]
      /\ edit \in [Rewrites -> [target : Turns \cup {NoTurn}, cutoff : Nat]]
      /\ Rewrites \subseteq Turns
  BY AdapterAssumption DEF ThreadTypeOK
<1>1. /\ handler[r] = "none" /\ position[m] > 0 /\ position' = position
      /\ handler'[r] = "done" /\ rows' = Append(rows, r)
      /\ edit'[r] = [target |-> m, cutoff |-> LastPosition]
  BY <1>0 DEF RewriteThread, eventVars
<1>2. op[r] = "none" /\ handler[m] = "done"
  BY <1>0, <1>1 DEF RowsFit
<1>3. LastPosition' = LastPosition
  BY <1>1 DEF LastPosition
<1> QED BY <1>1, <1>2, <1>3

\* An edit that was committed, or lost its message, does not wait again.
LEMMA StaysCommitted ==
    ASSUME ThreadTypeOK, RowsFit, EditsFit, [ThreadNext]_vars,
           NEW q \in Rewrites, handler[q] = "done", ~Uncommitted(q)
    PROVE  ~Uncommitted(q)'
<1> DEFINE t == edit[q].target
<1>0. position \in [Turns -> 0..LastPosition] /\ LastPosition \in Nat /\ q \in Turns
  BY AdapterAssumption DEF ThreadTypeOK
<1>1. t \in Turns /\ handler[t] = "done" /\ (t \in Rewrites => ~Uncommitted(t))
  BY DEF RowsFit, EditsFit
<1>2. position[t] = 0
  BY <1>0, <1>1 DEF Uncommitted
<1>3. position'[t] = 0
  BY <1>1, <1>2, GoneForGood
<1>4. ASSUME handler'[q] = "done" PROVE edit'[q] = edit[q]
  <2>1. ASSUME NEW m \in Turns, RewriteThread(q, m) PROVE FALSE
    BY <2>1 DEF RewriteThread
  <2> QED BY <1>4, <2>1, RequestedEdits
<1> QED BY <1>3, <1>4 DEF Uncommitted

\* Every step keeps what is known of edits, when one at a time waits.
LEMMA EditsStep ==
    ASSUME ThreadTypeOK, ThreadTypeOK', RowsFit, EditsFit, OneEdit, OneEdit', [ThreadNext]_vars
    PROVE  EditsFit'
<1>0. /\ position \in [Turns -> 0..LastPosition] /\ LastPosition \in Nat
      /\ handler \in [Turns -> {"none", "read", "claimed", "queued", "done"}]
      /\ edit \in [Rewrites -> [target : Turns \cup {NoTurn}, cutoff : Nat]]
      /\ edit' \in [Rewrites -> [target : Turns \cup {NoTurn}, cutoff : Nat]]
      /\ rows \in Seq(Turns) /\ Rewrites \subseteq Turns
  BY AdapterAssumption DEF ThreadTypeOK
<1>d. ASSUME NEW o \in Turns, handler[o] = "done" PROVE handler'[o] = "done"
  <2>1. ASSUME NEW p \in Turns, QueueTurn(p) PROVE handler'[o] = "done"
    BY <2>1, <1>d, <1>0 DEF QueueTurn
  <2>2. ASSUME NEW p \in Rewrites, NEW m \in Turns, RewriteThread(p, m) PROVE handler'[o] = "done"
    BY <2>2, <1>d, <1>0 DEF RewriteThread
  <2> QED BY <1>d, <2>1, <2>2, RequestMoves
<1>a. ASSUME NEW r \in Rewrites, handler'[r] = "done", NEW m \in Turns, m = edit'[r].target
      PROVE  handler'[m] = "done" /\ (m \in Rewrites => ~Uncommitted(m)')
  <2>1. CASE handler[r] = "done" /\ edit'[r] = edit[r]
    <3>1. handler[m] = "done" /\ (m \in Rewrites => ~Uncommitted(m))
      BY <1>a, <2>1 DEF EditsFit
    <3> QED BY <3>1, <1>d, StaysCommitted
  <2>2. ASSUME NEW t \in Turns, RewriteThread(r, t)
        PROVE  handler'[m] = "done" /\ (m \in Rewrites => ~Uncommitted(m)')
    <3>1. /\ t = m /\ handler[t] = "done" /\ t /= r
          /\ position'[edit'[r].target] > 0 /\ handler'[r] = "done"
      <4>1. /\ edit'[r] = [target |-> t, cutoff |-> LastPosition] /\ handler[t] = "done" /\ t /= r
            /\ position[t] > 0 /\ position' = position
        BY <2>2, RequestedEdit
      <4>2. edit'[r].target = t
        BY <4>1
      <4> QED BY <1>a, <4>1, <4>2
    <3>2. Uncommitted(r)'
      BY <3>1 DEF Uncommitted
    <3> QED BY <3>1, <3>2, <1>d DEF OneEdit
  <2> QED BY <1>a, <2>1, <2>2, RequestedEdits
<1>b. ASSUME NEW r \in Rewrites, Uncommitted(r)'
      PROVE  /\ position'[edit'[r].target] <= edit'[r].cutoff /\ edit'[r].cutoff <= LastPosition'
             /\ \A i, j \in DOMAIN rows' : rows'[i] = r /\ i < j /\ position'[rows'[j]] > 0
                                            => position'[rows'[j]] > edit'[r].cutoff
  <2>0. handler'[r] = "done" /\ position'[edit'[r].target] > 0
    BY <1>b DEF Uncommitted
  <2>1. CASE handler[r] = "done" /\ edit'[r] = edit[r]
    <3> DEFINE t == edit[r].target
               c == edit[r].cutoff
    <3>1. t \in Turns \ {r} /\ c \in Nat /\ handler[t] = "done" /\ (t \in Rewrites => ~Uncommitted(t))
      BY <2>1, <1>0 DEF RowsFit, EditsFit
    <3>2. position[t] > 0
      BY <2>0, <2>1, <3>1, <1>0, GoneForGood
    <3>3. Uncommitted(r)
      BY <2>1, <3>2 DEF Uncommitted
    <3>4. /\ position[t] <= c /\ c <= LastPosition
          /\ \A i, j \in DOMAIN rows : rows[i] = r /\ i < j /\ position[rows[j]] > 0
                                         => position[rows[j]] > c
      BY <3>3 DEF EditsFit
    <3>5. ASSUME HandleAccepted, Head(reports).op \in Rewrites,
                 position[edit[Head(reports).op].target] > 0, CommitThreadRewrite(Head(reports).op)
          PROVE  FALSE
      <4>1. Head(reports).op = r
        BY <3>3, <3>5, CommitIsPending DEF OneEdit
      <4>2. t \in Removed(r)
        BY <3>1, <3>2, <3>4, <1>0 DEF Removed
      <4>3. position'[t] = 0
        BY <3>1, <3>5, <4>1, <4>2 DEF CommitThreadRewrite
      <4> QED BY <2>0, <2>1, <4>3
    <3>6. ASSUME NEW o \in Turns, AddUserMessage(o)
          PROVE  /\ position'[t] <= c /\ c <= LastPosition'
                 /\ \A i, j \in DOMAIN rows' : rows'[i] = r /\ i < j /\ position'[rows'[j]] > 0
                                                => position'[rows'[j]] > c
      <4>1. /\ position'[o] = LastPosition + 1 /\ LastPosition + 1 <= LastPosition'
            /\ \A m \in Turns \ {o} : position'[m] = position[m]
        BY <3>6, LastGrows
      <4>2. rows' = rows /\ LastPosition' \in Nat /\ t /= o
        BY <3>1, <3>6 DEF AddUserMessage, ThreadTypeOK
      <4>3. \A j \in DOMAIN rows : rows[j] \in Turns
        BY <1>0
      <4>4. position'[t] = position[t] /\ c <= LastPosition'
        BY <4>1, <4>2, <3>1, <3>4, <1>0
      <4>5. ASSUME NEW i \in DOMAIN rows, NEW j \in DOMAIN rows, rows[i] = r, i < j, position'[rows[j]] > 0
            PROVE  position'[rows[j]] > c
        <5>1. CASE rows[j] = o
          BY <5>1, <4>1, <3>1, <3>4, <1>0
        <5>2. CASE rows[j] /= o
          BY <5>2, <4>1, <4>3, <4>5, <3>4
        <5> QED BY <5>1, <5>2
      <4> QED BY <4>2, <4>4, <4>5, <3>4
    <3>7. ASSUME position' = position
          PROVE  /\ position'[t] <= c /\ c <= LastPosition'
                 /\ \A i, j \in DOMAIN rows' : rows'[i] = r /\ i < j /\ position'[rows'[j]] > 0
                                                => position'[rows'[j]] > c
      <4>1. LastPosition' = LastPosition
        BY <3>7 DEF LastPosition
      <4>2. ASSUME NEW o \in Turns, op[o] = "none", rows' = Append(rows, o)
            PROVE  \A i, j \in DOMAIN rows' : rows'[i] = r /\ i < j /\ position[rows'[j]] > 0
                                                => position[rows'[j]] > c
        <5>1. ~(position[o] > 0)
          BY <4>2 DEF RowsFit
        <5>2. /\ DOMAIN rows' = 1..(Len(rows) + 1) /\ DOMAIN rows = 1..Len(rows)
              /\ \A i \in DOMAIN rows : rows'[i] = rows[i]
              /\ rows'[Len(rows) + 1] = o /\ Len(rows) \in Nat
          BY <4>2, <1>0
        <5> QED BY <5>1, <5>2, <3>4
      <4>3. ASSUME NEW o \in Turns, QueueTurn(o) PROVE op[o] = "none" /\ rows' = Append(rows, o)
        BY <4>3 DEF QueueTurn, RowsFit
      <4>4. \/ rows' = rows
            \/ \E o \in Turns : op[o] = "none" /\ rows' = Append(rows, o)
        BY <4>3, <1>0, RequestedEdit, RequestMoves
      <4> QED BY <3>4, <3>7, <4>1, <4>2, <4>4
    <3> QED BY <2>1, <3>5, <3>6, <3>7, PositionMoves
  <2>2. ASSUME NEW m \in Turns, RewriteThread(r, m)
        PROVE  /\ position'[edit'[r].target] <= edit'[r].cutoff /\ edit'[r].cutoff <= LastPosition'
               /\ \A i, j \in DOMAIN rows' : rows'[i] = r => ~(i < j)
    <3>0. /\ op[r] = "none" /\ rows' = Append(rows, r) /\ LastPosition' = LastPosition
          /\ position' = position /\ edit'[r] = [target |-> m, cutoff |-> LastPosition]
      BY <2>2, RequestedEdit
    <3>1. \A i \in DOMAIN rows : rows[i] /= r
      BY <3>0, <1>0 DEF RowsFit
    <3>2. /\ DOMAIN rows' = 1..(Len(rows) + 1) /\ DOMAIN rows = 1..Len(rows)
          /\ \A i \in DOMAIN rows : rows'[i] = rows[i]
          /\ Len(rows) \in Nat
      BY <3>0, <1>0
    <3>3. \A i, j \in DOMAIN rows' : rows'[i] = r => ~(i < j)
      BY <3>1, <3>2
    <3>4. position'[edit'[r].target] <= edit'[r].cutoff /\ edit'[r].cutoff <= LastPosition'
      BY <3>0, <1>0
    <3> QED BY <3>3, <3>4
  <2> QED BY <2>0, <2>1, <2>2, RequestedEdits
<1>c. \A r \in Rewrites : handler'[r] = "done" => edit'[r].target \in Turns
  BY RowsStep DEF RowsFit
<1>e. \A r \in Rewrites : handler'[r] = "done" =>
          handler'[edit'[r].target] = "done"
            /\ (edit'[r].target \in Rewrites => ~(handler'[edit'[r].target] = "done"
                                                 /\ position'[edit'[edit'[r].target].target] > 0))
  BY <1>a, <1>c DEF Uncommitted
<1> QED BY <1>b, <1>e DEF EditsFit, Uncommitted

\* When edits wait for their commit one at a time, committing one touches no
\* message that was sent after it was requested: it gets a position after the
\* cutoff, whatever is interrupted, lost, repeated or restarted in between.
THEOREM LaterMessagesStay == ThreadSpec /\ []OneEdit => LaterMessagesSurvive
<1>1. ThreadInit => EditsFit
  <2> SUFFICES ASSUME ThreadInit PROVE EditsFit
    OBVIOUS
  <2>1. \A r \in Rewrites : handler[r] = "none"
    BY ThreadAssumption, AdapterAssumption DEF ThreadInit
  <2> QED BY <2>1 DEF EditsFit, Uncommitted
<1>2. ThreadTypeOK /\ ThreadTypeOK' /\ RowsFit /\ EditsFit /\ OneEdit /\ OneEdit' /\ [ThreadNext]_vars => EditsFit'
  BY EditsStep
<1>3. ThreadTypeOK /\ RowsFit /\ EditsFit /\ [ThreadNext]_vars
        => [\A i, j \in 1..Len(rows) :
               i < j /\ position[rows[i]] = 0 /\ position'[rows[i]] > 0
                 => position'[rows[j]] = position[rows[j]]]_vars
  <2> SUFFICES ASSUME ThreadTypeOK, RowsFit, EditsFit, [ThreadNext]_vars,
                      NEW i \in 1..Len(rows), NEW j \in 1..Len(rows),
                      i < j, position[rows[i]] = 0, position'[rows[i]] > 0
               PROVE  position'[rows[j]] = position[rows[j]]
    OBVIOUS
  <2>0. /\ position \in [Turns -> 0..LastPosition] /\ LastPosition \in Nat
        /\ edit \in [Rewrites -> [target : Turns \cup {NoTurn}, cutoff : Nat]]
        /\ rows \in Seq(Turns) /\ rows[i] \in Turns /\ rows[j] \in Turns
        /\ i \in DOMAIN rows /\ j \in DOMAIN rows
    BY DEF ThreadTypeOK
  <2>1. rows[i] /= rows[j]
    BY <2>0 DEF RowsFit
  <2>2. ASSUME NEW o \in Turns, AddUserMessage(o) PROVE position'[rows[j]] = position[rows[j]]
    BY <2>0, <2>1, <2>2 DEF AddUserMessage
  <2>3. ASSUME HandleAccepted, Head(reports).op \in Rewrites,
               position[edit[Head(reports).op].target] > 0, CommitThreadRewrite(Head(reports).op)
        PROVE  position'[rows[j]] = position[rows[j]]
    <3> DEFINE r == Head(reports).op
    <3>1. Uncommitted(r)
      BY <2>3, CommitIsPending
    <3>2. rows[i] = r
      BY <2>0, <2>3 DEF CommitThreadRewrite
    <3>3. position[rows[j]] > 0 => position[rows[j]] > edit[r].cutoff
      BY <2>0, <2>3, <3>1, <3>2 DEF EditsFit
    <3>4. rows[j] \notin Removed(r)
      <4>1. edit[r].cutoff \in Nat /\ edit[r].target \in Turns
        BY <2>0, <2>3, <3>1 DEF RowsFit, Uncommitted
      <4> QED BY <2>0, <2>3, <3>3, <4>1 DEF Removed
    <3> QED BY <2>0, <2>1, <2>3, <3>2, <3>4 DEF CommitThreadRewrite
  <2> QED BY <2>2, <2>3, PositionMoves
<1> QED BY <1>1, <1>2, <1>3, RowsAlways, PTL DEF ThreadSpec, LaterMessagesSurvive


-----------------------------------------------------------------------------
(***************************************************************************)
(* A busy conversation can be interrupted, where nothing of the findings   *)
(* of README.md interferes: no edits, no cancelling of what is still       *)
(* queued, no poll between the two statements of a request, and no message *)
(* or statement lost.                                                      *)
(***************************************************************************)

Undisturbed ==
    /\ Rewrites = {} /\ ~StopQueued /\ ~EarlyPoll
    /\ Faults \cap {"crash", "disconnect", "database"} = {}

\* Nothing is lost or refused there.
LEMMA NoLosses ==
    ASSUME Undisturbed
    PROVE  /\ ~Crash /\ ~Disconnect /\ \A o \in Turns : ~QueueTurnFails(o)
           /\ \A o \in Rewrites, m \in Turns : ~RewriteThread(o, m)
BY DEF Undisturbed, Crash, Disconnect, QueueTurnFails, Fault

\* The front is a message that is known of.
LEMMA FrontFits ==
    ASSUME ThreadTypeOK, ReportsFit, reports /= <<>>
    PROVE  /\ Head(reports).kind = "operation_started" => call[Head(reports).op] /= "none"
           /\ Head(reports).kind = "operation_result" =>
                 /\ call[Head(reports).op] = Head(reports).result
                 /\ \A k \in DOMAIN reports : reports[k] /= Event("turn.accepted", Head(reports).op)
<1>1. reports \in Seq(Message)
  BY DEF ThreadTypeOK, AdapterTypeOK
<1>2. 1 \in DOMAIN reports /\ reports[1] = Head(reports) /\ \A k \in DOMAIN reports : k = 1 \/ k > 1
  BY <1>1, FrontPlace
<1>3. Head(reports).kind = "operation_result" =>
          \A k \in DOMAIN reports : reports[k] /= Event("turn.accepted", Head(reports).op)
  BY <1>2 DEF ReportsFit, Event
<1> QED BY <1>2, <1>3 DEF ReportsFit

\* The messages of the queue are still in order after a step.
LEMMA OrderStep ==
    ASSUME ThreadTypeOK, ReportsFit, Undisturbed, [ThreadNext]_vars, NEW k \in DOMAIN reports'
    PROVE  /\ reports'[k].kind \in {"operation_started", "turn.accepted"} => call'[reports'[k].op] /= "none"
           /\ reports'[k].kind = "operation_result" =>
                 /\ call'[reports'[k].op] = reports'[k].result
                 /\ \A l \in DOMAIN reports' : l > k => reports'[l] /= Event("turn.accepted", reports'[k].op)
<1> DEFINE Ordered(q, c, i) ==
              /\ q[i].kind \in {"operation_started", "turn.accepted"} => c[q[i].op] /= "none"
              /\ q[i].kind = "operation_result" =>
                    /\ c[q[i].op] = q[i].result
                    /\ \A l \in DOMAIN q : l > i => q[l] /= Event("turn.accepted", q[i].op)
<1>0. /\ AdapterTypeOK /\ reports \in Seq(Message)
      /\ \A i \in DOMAIN reports : Ordered(reports, call, i)
      /\ \A i \in DOMAIN reports : reports[i] \in Message
  BY DEF ThreadTypeOK, AdapterTypeOK, ReportsFit
<1>1. ASSUME Proceeds, NEW ms \in Seq(Message), Adds(ms) PROVE Ordered(reports', call', k)
  <2>0. /\ DOMAIN reports = 1..Len(reports) /\ DOMAIN ms = 1..Len(ms) /\ Len(reports) \in Nat /\ Len(ms) \in Nat
        /\ DOMAIN reports' = 1..(Len(reports) + Len(ms))
        /\ \A i \in DOMAIN reports : reports'[i] = reports[i]
        /\ \A i \in DOMAIN reports' : i > Len(reports) => i - Len(reports) \in DOMAIN ms
                                                        /\ reports'[i] = ms[i - Len(reports)]
    BY <1>0, <1>1 DEF Adds
  <2>a. \A i \in DOMAIN ms : ms[i] \in Message
    OBVIOUS
  <2>1. CASE k \in DOMAIN reports
    <3>1. reports'[k] = reports[k] /\ reports[k] \in Message /\ Ordered(reports, call, k)
      BY <2>0, <2>1, <1>0
    <3>2. reports[k].kind \in {"operation_started", "turn.accepted"} => call'[reports[k].op] /= "none"
      BY <3>1, <1>1, MessageKinds DEF Proceeds
    <3>3. ASSUME reports[k].kind = "operation_result"
          PROVE  /\ call'[reports[k].op] = reports[k].result
                 /\ \A l \in DOMAIN reports' : l > k => reports'[l] /= Event("turn.accepted", reports[k].op)
      <4>1. /\ reports[k].op \in Turns /\ reports[k].result \in {"succeeded", "failed"}
            /\ call[reports[k].op] = reports[k].result
        BY <3>1, <3>3, MessageKinds
      <4>2. call'[reports[k].op] = reports[k].result
        BY <4>1, <1>1 DEF Proceeds
      <4>3. ASSUME NEW l \in DOMAIN reports', l > k, reports'[l] = Event("turn.accepted", reports[k].op)
            PROVE  FALSE
        <5>1. CASE l \in DOMAIN reports
          BY <5>1, <4>3, <3>1, <3>3, <2>0
        <5>2. CASE l \notin DOMAIN reports
          <6> DEFINE i == l - Len(reports)
          <6>1. i \in DOMAIN ms /\ ms[i] = Event("turn.accepted", reports[k].op)
            BY <5>2, <4>3, <2>0
          <6>2. ms[i].kind = "turn.accepted" /\ ms[i].op = reports[k].op
            BY <6>1 DEF Event
          <6>3. call[reports[k].op] = "answered"
            <7> HIDE DEF i
            <7> QED BY <6>1, <6>2, <1>1 DEF Adds
          <6> QED BY <6>3, <4>1
        <5> QED BY <5>1, <5>2
      <4> QED BY <4>2, <4>3
    <3> QED BY <3>1, <3>2, <3>3
  <2>2. CASE k \notin DOMAIN reports
    <3> DEFINE j == k - Len(reports)
    <3>1. j \in DOMAIN ms /\ reports'[k] = ms[j] /\ ms[j] \in Message
      BY <2>0, <2>2, <2>a
    <3>2. ms[j].kind \in {"operation_started", "turn.accepted"} => call'[ms[j].op] /= "none"
      BY <3>1, <1>1, MessageKinds DEF Adds, Proceeds
    <3>3. ASSUME ms[j].kind = "operation_result"
          PROVE  /\ call'[ms[j].op] = ms[j].result
                 /\ \A l \in DOMAIN reports' : ~(l > k)
      <4>1. call'[ms[j].op] = ms[j].result /\ \A l \in DOMAIN ms : l <= j
        BY <3>1, <3>3, <1>1 DEF Adds
      <4>2. \A l \in DOMAIN reports' : ~(l > k)
        BY <4>1, <2>0, <2>2
      <4> QED BY <4>1, <4>2
    <3> QED BY <3>1, <3>2, <3>3
  <2> QED BY <2>1, <2>2
<1>2. ASSUME NEW o \in Turns, ReplayResult(o) PROVE Ordered(reports', call', k)
  <2>1. reports' = Append(reports, Result(o, call[o])) /\ call' = call /\ Result(o, call[o]) \in Message
    BY <1>2, <1>0, ReplayType, MessageType DEF ReplayResult
  <2>2. /\ DOMAIN reports = 1..Len(reports) /\ DOMAIN reports' = 1..(Len(reports) + 1) /\ Len(reports) \in Nat
        /\ \A i \in DOMAIN reports : reports'[i] = reports[i]
        /\ reports'[Len(reports) + 1] = Result(o, call[o])
    BY <2>1, <1>0
  <2>3. CASE k \in DOMAIN reports
    <3>1. Result(o, call[o]).kind /= "turn.accepted" /\ \A p : Event("turn.accepted", p).kind = "turn.accepted"
      BY DEF Result, Event
    <3>2. \A l \in DOMAIN reports' : l \in DOMAIN reports \/ l = Len(reports) + 1
      BY <2>2
    <3>3. Ordered(reports, call, k) /\ reports'[k] = reports[k]
      BY <1>0, <2>2, <2>3
    <3> QED BY <3>1, <3>2, <3>3, <2>1, <2>2
  <2>4. CASE k = Len(reports) + 1
    BY <2>1, <2>2, <2>4 DEF Result
  <2> QED BY <2>2, <2>3, <2>4
<1>3. CASE HandleMessage
  <2>1. reports /= <<>> /\ reports' = Tail(reports) /\ call' = call
    BY <1>3 DEF Handle, HandleMessage, HandleOperationStarted, DropEvent, HandleAccepted,
       HandleTurnStarted, HandleTurnCompleted, HandleTurnFailed, HandleTurnResult, HandleStopResult
  <2>2. \A i \in DOMAIN reports' : i + 1 \in DOMAIN reports /\ reports'[i] = reports[i + 1] /\ i \in Nat
    BY <2>1, <1>0, FrontPlace
  <2>3. Ordered(reports, call, k + 1) /\ reports'[k] = reports[k + 1]
    BY <2>2, <1>0
  <2>4. \A l \in DOMAIN reports' : l > k => l + 1 > k + 1
    BY <2>2
  <2> QED BY <2>1, <2>2, <2>3, <2>4
<1> QED BY <1>1, <1>2, <1>3, NoLosses, QueueMoves

\* Nobody cancels, and a command is not seen before its request is complete.
LEMMA AsksStep ==
    ASSUME ThreadTypeOK, RowsFit, ReportsFit, Undisturbed, [ThreadNext]_vars
    PROVE  /\ \A s \in Stops : ask'[s].phase \notin {"cancelling", "cancelled", "released"}
           /\ \A o \in Turns :
                 /\ op'[o] /= "cancelled"
                 /\ handler'[o] = "queued" => op'[o] = "queued"
                 /\ handler'[o] /= "done" => o \notin sent' \cup marking' /\ call'[o] = "none"
<1> DEFINE Stopping == \A s \in Stops : ask'[s].phase \notin {"cancelling", "cancelled", "released"}
           Asked(o) == /\ op'[o] /= "cancelled"
                       /\ handler'[o] = "queued" => op'[o] = "queued"
                       /\ handler'[o] /= "done" => o \notin sent' \cup marking' /\ call'[o] = "none"
<1>0. /\ op \in [Turns -> Active \cup {"none", "succeeded", "failed", "cancelled"}]
      /\ handler \in [Turns -> {"none", "read", "claimed", "queued", "done"}]
      /\ ask \in Asks /\ reports \in Seq(Message) /\ AdapterTypeOK
      /\ UserStops \subseteq Stops /\ Turns \subseteq Stops
      /\ \A s \in Stops : ask[s].phase \notin {"cancelling", "cancelled", "released"}
      /\ \A o \in Turns :
            /\ op[o] /= "cancelled"
            /\ handler[o] = "queued" => op[o] = "queued"
            /\ handler[o] /= "done" => o \notin sent \cup marking /\ call[o] = "none"
  BY DEF ThreadTypeOK, AdapterTypeOK, ReportsFit, Asks, Phases, Stops
<1>c. ASSUME NEW o \in Turns, handler[o] /= "done" PROVE call'[o] = "none"
  BY <1>c, <1>0, BegunByDelivery DEF DeliverTurn
<1>h. reports /= <<>> => Head(reports) \in Message
  BY <1>0, FrontType
<1>p. ASSUME NEW s \in Stops, NEW p \in Phases \ {"cancelling", "cancelled", "released"},
             NEW x \in Turns \cup {NoTurn}, NEW y \in Turns \cup {NoTurn}, StopPhase(s, p, x, y)
      PROVE  Stopping
  BY <1>p, <1>0 DEF StopPhase, Asks
<1>1. ASSUME NEW o \in Turns, ReadThread(o) \/ ClaimThreadForTurn(o) PROVE Stopping /\ \A t \in Turns : Asked(t)
  <2>1. /\ op' = op /\ ask' = ask /\ sent' = sent /\ marking' = marking /\ call' = call
        /\ handler[o] /= "done"
        /\ \E h \in {"none", "read", "claimed"} : handler' = [handler EXCEPT ![o] = h]
    BY <1>1 DEF ReadThread, ClaimThreadForTurn, adapterVars, linkVars
  <2> QED BY <2>1, <1>0
<1>2. ASSUME NEW o \in Turns, QueueTurn(o) PROVE Stopping /\ \A t \in Turns : Asked(t)
  BY <1>2, <1>0 DEF QueueTurn, adapterVars, linkVars
<1>3. ASSUME NEW o \in Turns, AddUserMessage(o) PROVE Stopping /\ \A t \in Turns : Asked(t)
  BY <1>3, <1>0 DEF AddUserMessage, adapterVars, linkVars
<1>4. ASSUME NEW s \in UserStops, RequestInterrupt(s) PROVE Stopping /\ \A t \in Turns : Asked(t)
  <2>1. StopPhase(s, "queued", NoTurn, latest)
    BY <1>4 DEF RequestInterrupt, Undisturbed
  <2>2. Stopping
    BY <2>1, <1>p, <1>0 DEF Phases, ThreadTypeOK
  <2> QED BY <1>4, <2>2, <1>0 DEF RequestInterrupt, adapterVars, requestVars, linkVars
<1>5. ASSUME NEW s \in UserStops, HandleInterrupt(s) PROVE FALSE
  BY <1>5, <1>0 DEF HandleInterrupt, CancelOperation, ReleaseThread, MarkCancelled
<1>6. ASSUME NEW o \in Turns, SendTurn(o) PROVE Stopping /\ \A t \in Turns : Asked(t)
  BY <1>6, <1>0 DEF SendTurn, adapterVars, requestVars, Undisturbed
<1>7. ASSUME NEW o \in Turns, MarkDelivered(o) PROVE Stopping /\ \A t \in Turns : Asked(t)
  <2>1. ask' = ask /\ handler[o] = "done" /\ handler' = handler /\ sent' = sent /\ marking' \subseteq marking /\ call' = call
    BY <1>7, <1>0 DEF MarkDelivered, adapterVars, requestVars
  <2>2. op' = [op EXCEPT ![o] = IF @ = "queued" THEN "delivered" ELSE @]
    BY <1>7 DEF MarkDelivered
  <2> QED BY <2>1, <2>2, <1>0
<1>8. ASSUME NEW o \in Turns, DeliverTurn(o) PROVE Stopping /\ \A t \in Turns : Asked(t)
  BY <1>8, <1>0, <1>c DEF DeliverTurn, requestVars
<1>9. ASSUME NEW o \in Turns, ReplayResult(o) PROVE Stopping /\ \A t \in Turns : Asked(t)
  BY <1>9, <1>0 DEF ReplayResult, threadVars, requestVars, linkVars
<1>10. ASSUME NEW s \in Stops, DeliverStop(s) PROVE Stopping /\ \A t \in Turns : Asked(t)
  <2>1. Stopping
    BY <1>10, <1>0 DEF DeliverStop, Asks
  <2> QED BY <1>10, <2>1, <1>0, <1>c DEF DeliverStop, requestVars, linkVars
<1>11. CASE HandleOperationStarted
  <2>1. Head(reports).op \in Turns /\ handler[Head(reports).op] = "done"
    BY <1>11, <1>h, <1>0, FrontFits, MessageKinds DEF HandleOperationStarted, Handle
  <2>2. op' = op \/ op' = [op EXCEPT ![Head(reports).op] = "running"]
    BY <1>11 DEF HandleOperationStarted
  <2> QED BY <1>11, <2>1, <2>2, <1>0 DEF HandleOperationStarted, Handle, requestVars, linkVars
<1>12. CASE HandleTurnResult
  <2>1. /\ Head(reports).op \in Turns /\ Head(reports).result \in {"succeeded", "failed"}
        /\ handler[Head(reports).op] = "done"
    BY <1>12, <1>h, <1>0, FrontFits, MessageKinds DEF HandleTurnResult, Handle
  <2>2. op' = op \/ op' = [op EXCEPT ![Head(reports).op] = Head(reports).result]
    BY <1>12 DEF HandleTurnResult
  <2> QED BY <1>12, <2>1, <2>2, <1>0 DEF HandleTurnResult, Handle, requestVars, linkVars
<1>13. CASE DropEvent \/ HandleAccepted \/ HandleTurnStarted \/ HandleTurnCompleted \/ HandleTurnFailed
  BY <1>13, <1>0 DEF DropEvent, HandleAccepted, HandleTurnStarted, HandleTurnCompleted, HandleTurnFailed,
     Handle, threadVars, requestVars, linkVars
<1>14. CASE HandleStopResult
  <2>1. Head(reports).op \in Stops
    BY <1>14, <1>h, MessageKinds DEF HandleStopResult, Handle
  <2>2. \E p \in {"free", "done"} : StopPhase(Head(reports).op, p, NoTurn, NoTurn)
    BY <1>14 DEF HandleStopResult
  <2>3. Stopping
    BY <2>1, <2>2, <1>p DEF Phases
  <2> QED BY <1>14, <2>3, <1>0 DEF HandleStopResult, Handle, requestVars, linkVars
<1>15. CASE Session
  BY <1>15, <1>0, <1>c DEF Session, threadVars, requestVars, linkVars
<1>16. CASE UNCHANGED vars
  BY <1>16, <1>0 DEF vars, threadVars, adapterVars, requestVars, linkVars
<1> QED BY <1>1, <1>2, <1>3, <1>4, <1>5, <1>6, <1>7, <1>8, <1>9, <1>10, <1>11, <1>12, <1>13, <1>14,
           <1>15, <1>16, NoLosses
    DEF ThreadNext, HandleRequest, HandleMessage

\* A turn that is to come is still to come when its session goes on.
LEMMA ComesOn ==
    ASSUME ThreadTypeOK, NEW o \in Turns, ToCome(o), op' = op, Proceeds,
           \E ms \in Seq(Message) : Adds(ms)
    PROVE  ToCome(o)'
<1>0. reports \in Seq(Message)
  BY DEF ThreadTypeOK, AdapterTypeOK
<1>1. PICK ms \in Seq(Message) : Adds(ms)
  OBVIOUS
<1>2. /\ \A k \in DOMAIN reports : k \in DOMAIN reports' /\ reports'[k] = reports[k]
      /\ \A k \in DOMAIN ms : k + Len(reports) \in DOMAIN reports' /\ reports'[k + Len(reports)] = ms[k]
  BY <1>0, <1>1 DEF Adds
<1>3. ASSUME call'[o] = "succeeded" PROVE \E k \in DOMAIN reports' : reports'[k] = Event("turn.accepted", o)
  <2>1. CASE call[o] = "succeeded"
    BY <2>1, <1>2 DEF ToCome
  <2>2. CASE call[o] /= "succeeded"
    <3>1. \E k \in DOMAIN ms : ms[k] = Event("turn.accepted", o)
      BY <1>1, <1>3, <2>2 DEF Adds
    <3> QED BY <3>1, <1>2
  <2> QED BY <2>1, <2>2
<1> QED BY <1>3 DEF ToCome

\* Or when the gateway takes another message from the queue.
LEMMA ComesAfter ==
    ASSUME ThreadTypeOK, NEW o \in Turns, ToCome(o), op'[o] \in Active, call' = call,
           reports /= <<>>, reports' = Tail(reports), Head(reports) /= Event("turn.accepted", o)
    PROVE  ToCome(o)'
<1>0. reports \in Seq(Message)
  BY DEF ThreadTypeOK, AdapterTypeOK
<1>1. ASSUME NEW k \in DOMAIN reports, reports[k] = Event("turn.accepted", o)
      PROVE  \E j \in DOMAIN reports' : reports'[j] = Event("turn.accepted", o)
  <2>1. reports[1] = Head(reports) /\ k \in Nat /\ k >= 1
    BY <1>0, FrontPlace
  <2>2. k > 1
    BY <1>1, <2>1
  <2>3. k - 1 \in DOMAIN reports' /\ reports'[k - 1] = reports[(k - 1) + 1] /\ (k - 1) + 1 = k
    BY <2>1, <2>2, <1>0, FrontPlace
  <2> QED BY <1>1, <2>3
<1> QED BY <1>1 DEF ToCome

\* Every step leaves a busy conversation with a cause.
LEMMA CauseStep ==
    ASSUME ThreadTypeOK, RowsFit, ReportsFit, BusyHasCause, Undisturbed, [ThreadNext]_vars
    PROVE  BusyHasCause'
<1> DEFINE Asked == \E o \in Turns : handler[o] \in {"claimed", "queued"}
<1>0. /\ op \in [Turns -> Active \cup {"none", "succeeded", "failed", "cancelled"}]
      /\ handler \in [Turns -> {"none", "read", "claimed", "queued", "done"}]
      /\ reports \in Seq(Message) /\ AdapterTypeOK /\ NoTurn \notin Turns
      /\ \A s \in Stops : ask[s].phase \notin {"cancelling", "cancelled", "released"}
      /\ UserStops \subseteq Stops
  BY AdapterAssumption DEF ThreadTypeOK, AdapterTypeOK, ReportsFit, Stops
<1>h. reports /= <<>> => Head(reports) \in Message
  BY <1>0, FrontType
<1>i. ASSUME thread' \notin BusyStatus PROVE BusyHasCause'
  BY <1>i DEF BusyHasCause
<1>j. ASSUME NEW o \in Turns, handler'[o] \in {"claimed", "queued"} PROVE BusyHasCause'
  BY <1>j DEF BusyHasCause
<1>k. ASSUME ~marker', latest' /= NoTurn PROVE BusyHasCause'
  BY <1>k DEF BusyHasCause
<1>l. ASSUME ~marker', NEW o \in Turns, ToCome(o)' PROVE BusyHasCause'
  BY <1>l DEF BusyHasCause
<1>m. ASSUME thread' = thread, marker' = marker, latest' = latest,
             \A o \in Turns : handler[o] \in {"claimed", "queued"} => handler'[o] = handler[o],
             \A o \in Turns : ToCome(o) => ToCome(o)'
      PROVE  BusyHasCause'
  <2>1. CASE thread \notin BusyStatus
    BY <2>1, <1>m, <1>i
  <2>2. CASE Asked
    BY <2>2, <1>m, <1>j
  <2>3. CASE ~marker /\ latest /= NoTurn
    BY <2>3, <1>m, <1>k
  <2>4. CASE ~marker /\ \E o \in Turns : ToCome(o)
    BY <2>4, <1>m, <1>l
  <2> QED BY <2>1, <2>2, <2>3, <2>4 DEF BusyHasCause
<1>n. ASSUME op' = op, call' = call, reports' = reports, NEW o \in Turns, ToCome(o) PROVE ToCome(o)'
  BY <1>n DEF ToCome
<1>1. ASSUME NEW o \in Turns, ReadThread(o) PROVE BusyHasCause'
  <2>1. /\ thread' = thread /\ marker' = marker /\ latest' = latest /\ op' = op /\ call' = call /\ reports' = reports
        /\ handler[o] = "none" /\ handler' = [handler EXCEPT ![o] = "read"]
    BY <1>1 DEF ReadThread, adapterVars, eventVars
  <2> QED BY <2>1, <1>0, <1>m, <1>n
<1>2. ASSUME NEW o \in Turns, ClaimThreadForTurn(o) PROVE BusyHasCause'
  <2>1. CASE thread \in BusyStatus
    <3>1. /\ thread' = thread /\ marker' = marker /\ latest' = latest /\ op' = op /\ call' = call /\ reports' = reports
          /\ handler[o] = "read" /\ handler' = [handler EXCEPT ![o] = "none"]
      BY <1>2, <2>1 DEF ClaimThreadForTurn, adapterVars, eventVars
    <3> QED BY <3>1, <1>0, <1>m, <1>n
  <2>2. CASE thread \notin BusyStatus
    BY <1>2, <2>2, <1>0, <1>j DEF ClaimThreadForTurn
  <2> QED BY <2>1, <2>2
<1>3. ASSUME NEW o \in Turns, QueueTurn(o) PROVE BusyHasCause'
  BY <1>3, <1>0, <1>j DEF QueueTurn
<1>4. ASSUME NEW o \in Turns, AddUserMessage(o) PROVE BusyHasCause'
  <2>1. /\ handler[o] = "queued" /\ ~marker' /\ op' = op /\ call' = call
    BY <1>4 DEF AddUserMessage, adapterVars
  <2>2. op'[o] \in Active /\ call'[o] = "none"
    BY <2>1 DEF ReportsFit, Active
  <2>3. ToCome(o)'
    BY <2>2 DEF ToCome
  <2> QED BY <2>1, <2>3, <1>l
<1>5. ASSUME NEW s \in UserStops, RequestInterrupt(s) PROVE BusyHasCause'
  BY <1>5, <1>m, <1>n DEF RequestInterrupt, adapterVars, requestVars, eventVars
<1>6. ASSUME NEW s \in UserStops, HandleInterrupt(s) PROVE FALSE
  BY <1>6, <1>0 DEF HandleInterrupt, CancelOperation, ReleaseThread, MarkCancelled
<1>7. ASSUME NEW o \in Turns, SendTurn(o) PROVE BusyHasCause'
  BY <1>7, <1>m, <1>n DEF SendTurn, adapterVars, requestVars, eventVars
<1>8. ASSUME NEW o \in Turns, MarkDelivered(o) PROVE BusyHasCause'
  <2>1. /\ thread' = thread /\ marker' = marker /\ latest' = latest /\ handler' = handler
        /\ call' = call /\ reports' = reports
    BY <1>8 DEF MarkDelivered, adapterVars, requestVars, eventVars
  <2>2. \A t \in Turns : op[t] \in Active => op'[t] \in Active
    BY <1>8, <1>0 DEF MarkDelivered, Active
  <2>3. \A t \in Turns : ToCome(t) => ToCome(t)'
    BY <2>1, <2>2 DEF ToCome
  <2> QED BY <2>1, <2>3, <1>m
<1>9. ASSUME NEW o \in Turns, DeliverTurn(o) PROVE BusyHasCause'
  <2>1. Proceeds /\ \E ms \in Seq(Message) : Adds(ms)
    BY <1>9, <1>0, Reported DEF DeliverTurn, SessionMove
  <2>2. thread' = thread /\ marker' = marker /\ latest' = latest /\ handler' = handler /\ op' = op
    BY <1>9 DEF DeliverTurn, requestVars, eventVars
  <2> QED BY <2>1, <2>2, <1>m, ComesOn
<1>10. ASSUME NEW s \in Stops, DeliverStop(s) PROVE BusyHasCause'
  BY <1>10, <1>m, <1>n DEF DeliverStop, Interrupt, requestVars, eventVars
<1>11. CASE Session
  <2>1. Proceeds /\ \E ms \in Seq(Message) : Adds(ms)
    BY <1>11, <1>0, Reported DEF Session, SessionMove
  <2>2. thread' = thread /\ marker' = marker /\ latest' = latest /\ handler' = handler /\ op' = op
    BY <1>11 DEF Session, threadVars, requestVars, eventVars
  <2> QED BY <2>1, <2>2, <1>m, ComesOn
<1>12. ASSUME NEW o \in Turns, ReplayResult(o) PROVE BusyHasCause'
  <2>1. /\ thread' = thread /\ marker' = marker /\ latest' = latest /\ handler' = handler /\ op' = op /\ call' = call
        /\ reports' = Append(reports, Result(o, call[o]))
    BY <1>12, <1>0, ReplayType DEF ReplayResult, threadVars, requestVars, eventVars
  <2>2. \A k \in DOMAIN reports : k \in DOMAIN reports' /\ reports'[k] = reports[k]
    BY <2>1, <1>0
  <2>3. \A t \in Turns : ToCome(t) => ToCome(t)'
    BY <2>1, <2>2 DEF ToCome
  <2> QED BY <2>1, <2>3, <1>m
<1>13. ASSUME NEW kind, Handle(kind) PROVE reports /= <<>> /\ reports' = Tail(reports) /\ call' = call
                                        /\ Head(reports).kind = kind
  BY <1>13 DEF Handle
<1>14. CASE HandleOperationStarted
  <2>1. /\ reports /= <<>> /\ reports' = Tail(reports) /\ call' = call /\ Head(reports).kind = "operation_started"
        /\ thread' = thread /\ marker' = marker /\ latest' = latest /\ handler' = handler
    BY <1>14, <1>13 DEF HandleOperationStarted, requestVars, eventVars
  <2>2. \A t \in Turns : op[t] \in Active => op'[t] \in Active
    BY <1>14, <1>0 DEF HandleOperationStarted, Active
  <2>3. \A t \in Turns : Head(reports) /= Event("turn.accepted", t)
    BY <2>1 DEF Event
  <2>4. \A t \in Turns : ToCome(t) => ToCome(t)'
    BY <2>1, <2>2, <2>3, ComesAfter DEF ToCome
  <2> QED BY <2>1, <2>4, <1>m
<1>15. CASE DropEvent
  <2>1. marker /\ thread' = thread /\ handler' = handler
    BY <1>15 DEF DropEvent, threadVars, requestVars
  <2>2. thread \in BusyStatus => Asked
    BY <2>1 DEF BusyHasCause
  <2> QED BY <2>1, <2>2, <1>i, <1>j
<1>16. CASE HandleAccepted \/ HandleTurnStarted
  <2>1. Head(reports).op \in Turns
    BY <1>16, <1>h, MessageKinds DEF HandleAccepted, HandleTurnStarted, Handle
  <2>2. ~marker' /\ latest' = Head(reports).op
    BY <1>16 DEF HandleAccepted, HandleTurnStarted, Undisturbed
  <2> QED BY <2>1, <2>2, <1>0, <1>k
<1>17. CASE HandleTurnCompleted \/ HandleTurnFailed
  <2>1. thread' \in {"idle", "failed", "interrupted"}
    BY <1>17, <1>h, MessageKinds
    DEF HandleTurnCompleted, HandleTurnFailed, Handle, CompletedTurnStatus, TurnStatus
  <2> QED BY <2>1, <1>i DEF BusyStatus
<1>18. CASE HandleTurnResult
  <2> DEFINE o == Head(reports).op
             r == Head(reports).result
  <2>1. /\ reports /= <<>> /\ reports' = Tail(reports) /\ call' = call /\ Head(reports).kind = "operation_result"
        /\ marker' = marker /\ handler' = handler
    BY <1>18, <1>13 DEF HandleTurnResult, requestVars
  <2>2. /\ o \in Turns /\ r \in {"succeeded", "failed"} /\ call[o] = r
        /\ \A k \in DOMAIN reports : reports[k] /= Event("turn.accepted", o)
    BY <2>1, <1>h, FrontFits, MessageKinds
  <2>3. CASE op[o] \in Active /\ r = "failed"
    <3>1. thread' = "failed"
      BY <1>18, <2>3 DEF HandleTurnResult
    <3> QED BY <3>1, <1>i DEF BusyStatus
  <2>4. CASE ~(op[o] \in Active /\ r = "failed")
    <3>1. thread' = thread /\ latest' = latest /\ (op' = op \/ op' = [op EXCEPT ![o] = r])
      BY <1>18, <2>4 DEF HandleTurnResult
    <3>2. ASSUME NEW t \in Turns, ToCome(t) PROVE ToCome(t)'
      <4>1. Head(reports) /= Event("turn.accepted", t)
        BY <2>1 DEF Event
      <4>2. CASE t /= o
        <5>1. op'[t] \in Active
          BY <3>1, <3>2, <4>2, <2>2, <1>0 DEF ToCome
        <5> QED BY <3>2, <4>1, <5>1, <2>1, ComesAfter
      <4>3. CASE t = o
        <5>1. r = "succeeded"
          BY <2>2, <2>4, <3>2, <4>3 DEF ToCome
        <5> QED BY <2>2, <3>2, <4>3, <5>1 DEF ToCome
      <4> QED BY <4>2, <4>3
    <3> QED BY <2>1, <3>1, <3>2, <1>m
  <2> QED BY <2>3, <2>4
<1>19. CASE HandleStopResult
  <2>1. CASE NoActiveCodexTurn(Head(reports).result)
    <3>1. thread' = "interrupted"
      BY <1>19, <2>1 DEF HandleStopResult
    <3> QED BY <3>1, <1>i DEF BusyStatus
  <2>2. CASE ~NoActiveCodexTurn(Head(reports).result)
    <3>1. /\ reports /= <<>> /\ reports' = Tail(reports) /\ call' = call /\ Head(reports).kind = "stop_result"
          /\ thread' = thread /\ marker' = marker /\ latest' = latest /\ handler' = handler /\ op' = op
      BY <1>19, <2>2, <1>13 DEF HandleStopResult, requestVars
    <3>2. \A t \in Turns : Head(reports) /= Event("turn.accepted", t)
      BY <3>1 DEF Event
    <3>3. \A t \in Turns : ToCome(t) => ToCome(t)'
      BY <3>1, <3>2, ComesAfter DEF ToCome
    <3> QED BY <3>1, <3>3, <1>m
  <2> QED BY <2>1, <2>2
<1>20. CASE UNCHANGED vars
  BY <1>20, <1>m, <1>n DEF vars, threadVars, adapterVars, requestVars, eventVars
<1> QED BY <1>1, <1>2, <1>3, <1>4, <1>5, <1>6, <1>7, <1>8, <1>9, <1>10, <1>11, <1>12, <1>14,
           <1>15, <1>16, <1>17, <1>18, <1>19, <1>20, NoLosses
    DEF ThreadNext, HandleRequest, HandleMessage

\* A cause of its being busy is something to interrupt.
LEMMA CauseIsInterruptible == InterruptInv => Interruptible
<1> SUFFICES ASSUME ThreadTypeOK, RowsFit, ReportsFit, BusyHasCause, thread \in BusyStatus
             PROVE  \/ latest /= NoTurn
                    \/ ActiveCodexTurnOperation /= NoTurn
                    \/ \E o \in Turns : handler[o] = "claimed"
  BY DEF InterruptInv, Interruptible
<1>1. ASSUME NEW o \in Turns, op[o] \in Active PROVE ActiveCodexTurnOperation /= NoTurn
  <2>1. PICK i \in DOMAIN rows : rows[i] = o
    BY <1>1 DEF RowsFit, Active
  <2>2. ActiveRows /= {} /\ rows \in Seq(Turns)
    BY <1>1, <2>1 DEF ActiveRows, ThreadTypeOK
  <2>3. \E j \in ActiveRows : ActiveCodexTurnOperation = rows[j]
    BY <2>2, NewestIsActive
  <2> QED BY <2>2, <2>3, AdapterAssumption DEF ActiveRows
<1>2. ASSUME NEW o \in Turns, handler[o] = "queued" PROVE op[o] \in Active
  BY <1>2 DEF ReportsFit, Active
<1> QED BY <1>1, <1>2 DEF BusyHasCause, ToCome

\* While a conversation is queued or running there is something to interrupt,
\* so that the user is never locked out: for every number of turns, whatever
\* fails in the session, where requests are undisturbed.
THEOREM BusyIsInterruptible ==
    ASSUME Undisturbed
    PROVE  ThreadSpec => []Interruptible
<1>1. ThreadInit => ReportsFit /\ BusyHasCause
  <2> SUFFICES ASSUME ThreadInit PROVE ReportsFit /\ BusyHasCause
    OBVIOUS
  <2>1. /\ ask = [s \in Stops |-> NoAsk] /\ reports = <<>> /\ sent = {} /\ marking = {}
        /\ call = [o \in Turns |-> "none"] /\ thread = "idle"
        /\ op = [o \in Turns |-> IF o = Earlier THEN "succeeded" ELSE "none"]
        /\ handler = [o \in Turns |-> IF o = Earlier THEN "done" ELSE "none"]
    BY DEF ThreadInit, AdapterInit
  <2>2. DOMAIN reports = {}
    BY <2>1
  <2>3. \A s \in Stops : ask[s].phase = "free"
    BY <2>1 DEF NoAsk
  <2>4. \A o \in Turns : /\ op[o] \in {"none", "succeeded"} /\ handler[o] \in {"none", "done"}
                         /\ o \notin sent \cup marking /\ call[o] = "none"
    BY <2>1
  <2> QED BY <2>1, <2>2, <2>3, <2>4 DEF ReportsFit, BusyHasCause, BusyStatus
<1>2. ThreadTypeOK /\ RowsFit /\ ReportsFit /\ BusyHasCause /\ [ThreadNext]_vars => ReportsFit' /\ BusyHasCause'
  <2> SUFFICES ASSUME ThreadTypeOK, RowsFit, ReportsFit, BusyHasCause, [ThreadNext]_vars
               PROVE  ReportsFit' /\ BusyHasCause'
    OBVIOUS
  <2>1. ReportsFit'
    BY AsksStep, OrderStep DEF ReportsFit
  <2> QED BY <2>1, CauseStep
<1>3. ThreadTypeOK /\ RowsFit /\ ReportsFit /\ BusyHasCause => Interruptible
  BY CauseIsInterruptible DEF InterruptInv
<1> QED BY <1>1, <1>2, <1>3, RowsAlways, PTL DEF ThreadSpec

=============================================================================
