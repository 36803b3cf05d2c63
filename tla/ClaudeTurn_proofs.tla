------------------------- MODULE ClaudeTurn_proofs -------------------------
(***************************************************************************)
(* Theorems about ClaudeTurn, for any number of instructions, questions,   *)
(* lines of output and faults.                                             *)
(***************************************************************************)
EXTENDS ClaudeTurn, FiniteSetTheorems, TLAPS

\* What the reader takes from the pipe was in it.
LEMMA ReadLine ==
    ASSUME ClaudeTypeOK, NEW kind, Read(kind)
    PROVE  /\ out' \in Seq(Lines) /\ Len(out') <= MaxOut /\ Range(out') \subseteq Range(out)
           /\ Head(out) \in Range(out) /\ Head(out) \in Lines /\ Head(out).kind = kind
<1>1. out \in Seq(Lines) /\ Len(out) <= MaxOut /\ MaxOut \in Nat
  BY ClaudeAssumption DEF ClaudeTypeOK
<1>2. out # <<>> /\ out' = Tail(out) /\ Head(out).kind = kind
  BY DEF Read
<1>3. out' \in Seq(Lines) /\ Head(out) = out[1] /\ 1 \in DOMAIN out /\ out[1] \in Lines
  BY <1>1, <1>2
<1>4. Len(out') <= MaxOut
  BY <1>1, <1>2
<1>5. \A j \in DOMAIN out' : j + 1 \in DOMAIN out /\ out'[j] = out[j + 1]
  BY <1>1, <1>2
<1> QED BY <1>2, <1>3, <1>4, <1>5 DEF Range

\* What the CLI writes is added to what is in the pipe.
LEMMA EmitLine ==
    ASSUME ClaudeTypeOK, NEW f \in Lines, Emit(f)
    PROVE  /\ out' \in Seq(Lines) /\ Len(out') <= MaxOut
           /\ Range(out') = Range(out) \cup {f}
<1>1. out \in Seq(Lines) /\ MaxOut \in Nat /\ Len(out) < MaxOut /\ out' = Append(out, f)
  BY ClaudeAssumption DEF ClaudeTypeOK, Emit
<1>2. out' \in Seq(Lines) /\ Len(out') = Len(out) + 1 /\ DOMAIN out' = 1..(Len(out) + 1)
  BY <1>1
<1>3. \A j \in 1..Len(out) : out'[j] = out[j]
  BY <1>1
<1>4. out'[Len(out) + 1] = f /\ Len(out) \in Nat /\ DOMAIN out = 1..Len(out)
  BY <1>1
<1> QED BY <1>1, <1>2, <1>3, <1>4 DEF Range

\* The fields of an instruction are set one at a time, and those that are not
\* named keep their value.
LEMMA InputUpdates ==
    \A r \in InputRows :
      /\ \A b \in BOOLEAN : LET x == [r EXCEPT !.applied = b]
                            IN /\ x \in InputRows /\ x.held = r.held /\ x.applied = b
                               /\ x.received = r.received /\ x.done = r.done
      /\ LET x == [r EXCEPT !.err = TRUE]
         IN /\ x \in InputRows /\ x.held = r.held /\ x.applied = r.applied
            /\ x.received = r.received /\ x.done = r.done
      /\ LET x == [r EXCEPT !.received = TRUE, !.done = TRUE]
         IN /\ x \in InputRows /\ x.held = r.held /\ x.applied = r.applied
            /\ x.received /\ x.done
      /\ LET x == [r EXCEPT !.received = TRUE, !.done = TRUE, !.err = TRUE]
         IN /\ x \in InputRows /\ x.held = r.held /\ x.applied = r.applied
            /\ x.received /\ x.done
BY DEF InputRows

\* What closing the channel of an instruction changes.
LEMMA Closed ==
    ASSUME ClaudeTypeOK, NEW i \in Inputs, NEW rec \in InputRows, CloseDone(i, rec)
    PROVE  /\ input' \in [Inputs -> InputRows] /\ panicked' = (panicked \/ input[i].done)
           /\ input'[i].held = rec.held /\ input'[i].applied = rec.applied
           /\ input'[i].received /\ input'[i].done
           /\ \A j \in Inputs : j # i => input'[j] = input[j]
<1>1. input \in [Inputs -> InputRows]
  BY DEF ClaudeTypeOK
<1>2. PICK x : x = [rec EXCEPT !.received = TRUE, !.done = TRUE]
  OBVIOUS
<1>3. /\ x \in InputRows /\ x.held = rec.held /\ x.applied = rec.applied
      /\ x.received /\ x.done
  BY <1>2, InputUpdates
<1>4. input' = [input EXCEPT ![i] = x] /\ panicked' = (panicked \/ input[i].done)
  BY <1>2 DEF CloseDone
<1> QED BY <1>1, <1>3, <1>4

\* What a receipt of the CLI changes.
LEMMA Acknowledged ==
    ASSUME ClaudeTypeOK, NEW i \in Inputs, NEW b \in BOOLEAN, Acknowledge(i, b)
    PROVE  /\ input' \in [Inputs -> InputRows]
           /\ input'[i].held = input[i].held /\ (input[i].applied => input'[i].applied)
           /\ IF input[i].received
              THEN /\ input'[i].received /\ input'[i].done = input[i].done
                   /\ panicked' = panicked
              ELSE input'[i].received /\ panicked' = (panicked \/ input[i].done)
           /\ \A j \in Inputs : j # i => input'[j] = input[j]
<1>1. input \in [Inputs -> InputRows] /\ input[i] \in InputRows
  BY DEF ClaudeTypeOK
<1>c. PICK c \in BOOLEAN : c = (input[i].applied \/ b)
  OBVIOUS
<1>2. PICK x : x = [input[i] EXCEPT !.applied = c]
  OBVIOUS
<1>3. /\ x \in InputRows /\ x.held = input[i].held /\ (input[i].applied => x.applied)
      /\ x.received = input[i].received /\ x.done = input[i].done
  <2>1. PICK r \in InputRows : r = input[i]
    BY <1>1
  <2>2. x = [r EXCEPT !.applied = c]
    BY <1>2, <2>1
  <2>3. /\ x \in InputRows /\ x.held = r.held /\ x.applied = c
        /\ x.received = r.received /\ x.done = r.done
    BY <2>2 DEF InputRows
  <2>4. r.applied => x.applied
    BY <1>c, <2>1, <2>3
  <2> QED BY <2>1, <2>3, <2>4
<1>4. CASE input[i].received
  <2>1. input' = [input EXCEPT ![i] = x] /\ panicked' = panicked
    BY <1>1, <1>2, <1>c, <1>4 DEF Acknowledge
  <2> QED BY <1>1, <1>3, <1>4, <2>1
<1>5. CASE ~input[i].received
  <2>1. CloseDone(i, x)
    BY <1>2, <1>c, <1>5 DEF Acknowledge
  <2> QED BY <1>3, <1>5, <2>1, Closed
<1> QED BY <1>4, <1>5

\* What the result of a round changes.
LEMMA Resulted ==
    ASSUME ClaudeTypeOK, NEW l \in Lives, NEW n \in 0..Cardinality(Inputs), Result(l, n)
    PROVE  live' \in Lives /\ (live'.closed => live.closed \/ l.closed \/ ~Pending)
<1>1. live \in Lives
  BY DEF ClaudeTypeOK
<1>2. PICK k : k = [l EXCEPT !.lastResult = TRUE, !.queued = n]
  OBVIOUS
<1>3. k \in Lives /\ k.closed = l.closed
  BY <1>2 DEF Lives
<1>4. /\ [k EXCEPT !.ready = FALSE, !.closed = TRUE] \in Lives
      /\ [k EXCEPT !.idle = TRUE] \in Lives /\ [k EXCEPT !.idle = TRUE].closed = k.closed
  BY <1>3 DEF Lives
<1>5. \/ live' = live \/ live' = k \/ live' = [k EXCEPT !.idle = TRUE]
      \/ ~Pending /\ live' = [k EXCEPT !.ready = FALSE, !.closed = TRUE]
  BY <1>2 DEF Result
<1> QED BY <1>1, <1>3, <1>4, <1>5

-----------------------------------------------------------------------------
\* Every step keeps the types and the holder of the lock.
LEMMA TypeStep ==
    ASSUME ClaudeTypeOK, [Next]_vars PROVE ClaudeTypeOK'
<1>turn. turn \in {"starting", "running", "ended"}
  BY DEF ClaudeTypeOK
<1>live. live \in Lives
  BY DEF ClaudeTypeOK
<1>input. input \in [Inputs -> InputRows]
  BY DEF ClaudeTypeOK
<1>question. question \in [Questions -> QuestionRows]
  BY DEF ClaudeTypeOK
<1>mutex. mutex \in {"free"} \cup Inputs \cup Questions
  BY DEF ClaudeTypeOK
<1>steer. steer \in [Inputs -> {"none", "queued", "found", "writing", "waiting", "ended"}]
  BY DEF ClaudeTypeOK
<1>answer. answer \in [Questions -> {"none", "queued", "writing", "ended"}]
  BY DEF ClaudeTypeOK
<1>reader. reader \in {"scanning", "denying", "over", "gone"}
  BY DEF ClaudeTypeOK
<1>cli. cli \in Processes
  BY DEF ClaudeTypeOK
<1>out. out \in Seq(Lines) /\ Len(out) <= MaxOut
  BY DEF ClaudeTypeOK
<1>shown. shown \in [Inputs \cup Questions -> SUBSET Events]
  BY DEF ClaudeTypeOK
<1>ready. ready \in BOOLEAN
  BY DEF ClaudeTypeOK
<1>panicked. panicked \in BOOLEAN
  BY DEF ClaudeTypeOK
<1>frames. frames \in Nat
  BY DEF ClaudeTypeOK
<1>faults. faults \in Nat
  BY DEF ClaudeTypeOK
<1>lock. /\ \A i \in Inputs : mutex = i <=> steer[i] = "writing"
         /\ \A q \in Questions : mutex = q <=> answer[q] = "writing"
  BY DEF ClaudeTypeOK
<1>1. ASSUME NEW i \in Inputs, steerClaudeTurn(i) PROVE ClaudeTypeOK'
  <2>1. steer' \in [Inputs -> {"none", "queued", "found", "writing", "waiting", "ended"}]
    BY <1>1, <1>steer DEF steerClaudeTurn, QueueClaudeSteer, Show
  <2>2. shown' \in [Inputs \cup Questions -> SUBSET Events]
    BY <1>1, <1>shown DEF steerClaudeTurn, QueueClaudeSteer, Show, Events
  <2>3. (\A j \in Inputs : mutex' = j <=> steer'[j] = "writing")
       /\ (\A p \in Questions : mutex' = p <=> answer'[p] = "writing")
    BY <1>1, <1>mutex, <1>steer, <1>answer, <1>lock, ClaudeAssumption
       DEF steerClaudeTurn, QueueClaudeSteer, Show
  <2>4. UNCHANGED <<turn, live, input, question, mutex, answer, reader, cli, out, ready,
                    panicked, frames, faults>>
    BY <1>1 DEF steerClaudeTurn, QueueClaudeSteer, Show
  <2> QED BY <2>1, <2>2, <2>3, <2>4 DEF ClaudeTypeOK
<1>2. ASSUME NEW i \in Inputs, Steer(i) PROVE ClaudeTypeOK'
  <2>1. steer' \in [Inputs -> {"none", "queued", "found", "writing", "waiting", "ended"}]
    BY <1>2, <1>steer DEF Steer, SteerResult, LostAnswer
  <2>2. shown' \in [Inputs \cup Questions -> SUBSET Events]
    BY <1>2, <1>shown DEF Steer, SteerResult, LostAnswer, Events
  <2>3. (\A j \in Inputs : mutex' = j <=> steer'[j] = "writing")
       /\ (\A p \in Questions : mutex' = p <=> answer'[p] = "writing")
    BY <1>2, <1>mutex, <1>steer, <1>answer, <1>lock, ClaudeAssumption
       DEF Steer, SteerResult, LostAnswer
  <2>4. UNCHANGED <<turn, live, input, question, mutex, answer, reader, cli, out, ready,
                    panicked, frames, faults>>
    BY <1>2 DEF Steer, SteerResult, LostAnswer
  <2> QED BY <2>1, <2>2, <2>3, <2>4 DEF ClaudeTypeOK
<1>3. ASSUME NEW i \in Inputs, steerRegister(i) PROVE ClaudeTypeOK'
  <2>1. steer' \in [Inputs -> {"none", "queued", "found", "writing", "waiting", "ended"}]
    BY <1>3, <1>steer DEF steerRegister, SteerResult, Held
  <2>2. shown' \in [Inputs \cup Questions -> SUBSET Events]
    BY <1>3, <1>shown DEF steerRegister, SteerResult, Held, Events
  <2>3. input' \in [Inputs -> InputRows]
    BY <1>3, <1>input DEF steerRegister, SteerResult, Held, InputRows
  <2>4. mutex' \in {"free"} \cup Inputs \cup Questions
    BY <1>3, <1>mutex DEF steerRegister, SteerResult, Held
  <2>5. (\A j \in Inputs : mutex' = j <=> steer'[j] = "writing")
       /\ (\A p \in Questions : mutex' = p <=> answer'[p] = "writing")
    BY <1>3, <1>mutex, <1>steer, <1>answer, <1>lock, ClaudeAssumption
       DEF steerRegister, SteerResult, Held
  <2>6. UNCHANGED <<turn, live, question, answer, reader, cli, out, ready, panicked, frames,
                    faults>>
    BY <1>3 DEF steerRegister, SteerResult, Held
  <2> QED BY <2>1, <2>2, <2>3, <2>4, <2>5, <2>6 DEF ClaudeTypeOK
<1>4. ASSUME NEW i \in Inputs, steerWritten(i) PROVE ClaudeTypeOK'
  <2>1. cli' \in Processes
    BY <1>4, <1>cli DEF steerWritten, Processes
  <2>2. mutex' \in {"free"} \cup Inputs \cup Questions
    BY <1>4, <1>mutex DEF steerWritten
  <2>3. steer' \in [Inputs -> {"none", "queued", "found", "writing", "waiting", "ended"}]
    BY <1>4, <1>steer DEF steerWritten
  <2>4. (\A j \in Inputs : mutex' = j <=> steer'[j] = "writing")
       /\ (\A p \in Questions : mutex' = p <=> answer'[p] = "writing")
    BY <1>4, <1>mutex, <1>steer, <1>answer, <1>lock, ClaudeAssumption DEF steerWritten
  <2>5. UNCHANGED <<turn, live, input, question, answer, reader, out, shown, ready, panicked,
                    frames, faults>>
    BY <1>4 DEF steerWritten
  <2> QED BY <2>1, <2>2, <2>3, <2>4, <2>5 DEF ClaudeTypeOK
<1>5. ASSUME NEW i \in Inputs, steerWriteFails(i) PROVE ClaudeTypeOK'
  <2>1. input' \in [Inputs -> InputRows]
    <3>1. [input[i] EXCEPT !.err = TRUE] \in InputRows
      BY <1>5, <1>input, InputUpdates
    <3> QED BY <1>5, <1>input, <3>1, Closed DEF steerWriteFails
  <2>2. panicked' \in BOOLEAN
    BY <1>5, <1>panicked DEF steerWriteFails, CloseDone
  <2>3. mutex' \in {"free"} \cup Inputs \cup Questions
    BY <1>5, <1>mutex DEF steerWriteFails, CloseDone
  <2>4. steer' \in [Inputs -> {"none", "queued", "found", "writing", "waiting", "ended"}]
    BY <1>5, <1>steer DEF steerWriteFails, CloseDone
  <2>5. (\A j \in Inputs : mutex' = j <=> steer'[j] = "writing")
       /\ (\A p \in Questions : mutex' = p <=> answer'[p] = "writing")
    BY <1>5, <1>mutex, <1>steer, <1>answer, <1>lock, ClaudeAssumption
       DEF steerWriteFails, CloseDone
  <2>6. UNCHANGED <<turn, live, question, answer, reader, cli, out, shown, ready, frames, faults>>
    BY <1>5 DEF steerWriteFails, CloseDone
  <2> QED BY <2>1, <2>2, <2>3, <2>4, <2>5, <2>6 DEF ClaudeTypeOK
<1>6. ASSUME NEW i \in Inputs, steerDone(i) PROVE ClaudeTypeOK'
  <2>1. steer' \in [Inputs -> {"none", "queued", "found", "writing", "waiting", "ended"}]
    BY <1>6, <1>steer DEF steerDone, SteerResult
  <2>2. shown' \in [Inputs \cup Questions -> SUBSET Events]
    BY <1>6, <1>shown DEF steerDone, SteerResult, Events
  <2>3. (\A j \in Inputs : mutex' = j <=> steer'[j] = "writing")
       /\ (\A p \in Questions : mutex' = p <=> answer'[p] = "writing")
    BY <1>6, <1>mutex, <1>steer, <1>answer, <1>lock, ClaudeAssumption DEF steerDone, SteerResult
  <2>4. UNCHANGED <<turn, live, input, question, mutex, answer, reader, cli, out, ready,
                    panicked, frames, faults>>
    BY <1>6 DEF steerDone, SteerResult
  <2> QED BY <2>1, <2>2, <2>3, <2>4 DEF ClaudeTypeOK
<1>7. ASSUME NEW i \in Inputs, steerTimeout(i) PROVE ClaudeTypeOK'
  <2>1. steer' \in [Inputs -> {"none", "queued", "found", "writing", "waiting", "ended"}]
    BY <1>7, <1>steer DEF steerTimeout, SteerResult
  <2>2. shown' \in [Inputs \cup Questions -> SUBSET Events]
    BY <1>7, <1>shown DEF steerTimeout, SteerResult, Events
  <2>3. (\A j \in Inputs : mutex' = j <=> steer'[j] = "writing")
       /\ (\A p \in Questions : mutex' = p <=> answer'[p] = "writing")
    BY <1>7, <1>mutex, <1>steer, <1>answer, <1>lock, ClaudeAssumption
       DEF steerTimeout, SteerResult
  <2>4. UNCHANGED <<turn, live, input, question, mutex, answer, reader, cli, out, ready,
                    panicked, frames, faults>>
    BY <1>7 DEF steerTimeout, SteerResult
  <2> QED BY <2>1, <2>2, <2>3, <2>4 DEF ClaudeTypeOK
<1>8. ASSUME NEW q \in Questions, answerClaudeQuestion(q) PROVE ClaudeTypeOK'
  <2>1. answer' \in [Questions -> {"none", "queued", "writing", "ended"}]
    BY <1>8, <1>answer DEF answerClaudeQuestion, QueueClaudeAnswer
  <2>2. (\A j \in Inputs : mutex' = j <=> steer'[j] = "writing")
       /\ (\A p \in Questions : mutex' = p <=> answer'[p] = "writing")
    BY <1>8, <1>mutex, <1>steer, <1>answer, <1>lock, ClaudeAssumption
       DEF answerClaudeQuestion, QueueClaudeAnswer
  <2>3. UNCHANGED <<turn, live, input, question, mutex, steer, reader, cli, out, shown, ready,
                    panicked, frames, faults>>
    BY <1>8 DEF answerClaudeQuestion, QueueClaudeAnswer
  <2> QED BY <2>1, <2>2, <2>3 DEF ClaudeTypeOK
<1>9. ASSUME NEW q \in Questions, Answer(q) PROVE ClaudeTypeOK'
  <2>1. answer' \in [Questions -> {"none", "queued", "writing", "ended"}]
    BY <1>9, <1>answer DEF Answer, Show
  <2>2. question' \in [Questions -> QuestionRows]
    BY <1>9, <1>question DEF Answer, Show, QuestionRows
  <2>3. shown' \in [Inputs \cup Questions -> SUBSET Events]
    BY <1>9, <1>shown DEF Answer, Show, Events
  <2>4. mutex' \in {"free"} \cup Inputs \cup Questions
    BY <1>9, <1>mutex DEF Answer, Show
  <2>5. (\A j \in Inputs : mutex' = j <=> steer'[j] = "writing")
       /\ (\A p \in Questions : mutex' = p <=> answer'[p] = "writing")
    BY <1>9, <1>mutex, <1>steer, <1>answer, <1>lock, ClaudeAssumption DEF Answer, Show
  <2>6. UNCHANGED <<turn, live, input, steer, reader, cli, out, ready, panicked, frames, faults>>
    BY <1>9 DEF Answer, Show
  <2> QED BY <2>1, <2>2, <2>3, <2>4, <2>5, <2>6 DEF ClaudeTypeOK
<1>10. ASSUME NEW q \in Questions, writeControlResponse(q) PROVE ClaudeTypeOK'
  <2>1. cli' \in Processes
    BY <1>10, <1>cli DEF writeControlResponse, Processes
  <2>2. mutex' \in {"free"} \cup Inputs \cup Questions
    BY <1>10, <1>mutex DEF writeControlResponse
  <2>3. answer' \in [Questions -> {"none", "queued", "writing", "ended"}]
    BY <1>10, <1>answer DEF writeControlResponse
  <2>4. (\A j \in Inputs : mutex' = j <=> steer'[j] = "writing")
       /\ (\A p \in Questions : mutex' = p <=> answer'[p] = "writing")
    BY <1>10, <1>mutex, <1>steer, <1>answer, <1>lock, ClaudeAssumption DEF writeControlResponse
  <2>5. UNCHANGED <<turn, live, input, question, steer, reader, out, shown, ready, panicked,
                    frames, faults>>
    BY <1>10 DEF writeControlResponse
  <2> QED BY <2>1, <2>2, <2>3, <2>4, <2>5 DEF ClaudeTypeOK
<1>11. ASSUME NEW q \in Questions, answerFails(q) PROVE ClaudeTypeOK'
  <2>1. question' \in [Questions -> QuestionRows]
    BY <1>11, <1>question DEF answerFails, Show, Kill, QuestionRows
  <2>2. shown' \in [Inputs \cup Questions -> SUBSET Events]
    BY <1>11, <1>shown DEF answerFails, Show, Kill, Events
  <2>3. cli' \in Processes
    BY <1>11, <1>cli DEF answerFails, Show, Kill, Processes
  <2>4. mutex' \in {"free"} \cup Inputs \cup Questions
    BY <1>11, <1>mutex DEF answerFails, Show, Kill
  <2>5. answer' \in [Questions -> {"none", "queued", "writing", "ended"}]
    BY <1>11, <1>answer DEF answerFails, Show, Kill
  <2>6. (\A j \in Inputs : mutex' = j <=> steer'[j] = "writing")
       /\ (\A p \in Questions : mutex' = p <=> answer'[p] = "writing")
    BY <1>11, <1>mutex, <1>steer, <1>answer, <1>lock, ClaudeAssumption DEF answerFails, Show, Kill
  <2>7. UNCHANGED <<turn, live, input, steer, reader, out, ready, panicked, frames, faults>>
    BY <1>11 DEF answerFails, Show, Kill
  <2> QED BY <2>1, <2>2, <2>3, <2>4, <2>5, <2>6, <2>7 DEF ClaudeTypeOK
<1>12. ASSUME NEW x \in Inputs \cup Questions, watchdog(x) PROVE ClaudeTypeOK'
  <2>1. cli' \in Processes
    BY <1>12, <1>cli DEF watchdog, Kill, Processes
  <2>2. UNCHANGED <<turn, live, input, question, mutex, steer, answer, reader, out, shown, ready,
                    panicked, frames, faults>>
    BY <1>12 DEF watchdog, Kill
  <2> QED BY <2>1, <2>2 DEF ClaudeTypeOK
<1>13. CASE start
  <2>1. turn' \in {"starting", "running", "ended"}
    BY <1>13, <1>turn DEF start
  <2>2. cli' \in Processes
    BY <1>13, <1>cli DEF start, Processes
  <2>3. UNCHANGED <<live, input, question, mutex, steer, answer, reader, out, shown, ready,
                    panicked, frames, faults>>
    BY <1>13 DEF start
  <2> QED BY <2>1, <2>2, <2>3 DEF ClaudeTypeOK
<1>14. CASE initializeTimer
  <2>1. cli' \in Processes
    BY <1>14, <1>cli DEF initializeTimer, Kill, Processes
  <2>2. UNCHANGED <<turn, live, input, question, mutex, steer, answer, reader, out, shown, ready,
                    panicked, frames, faults>>
    BY <1>14 DEF initializeTimer, Kill
  <2> QED BY <2>1, <2>2 DEF ClaudeTypeOK
<1>15. CASE readInitialized
  <2>1. cli' \in Processes
    BY <1>15, <1>cli DEF readInitialized, Processes
  <2>2. out' \in Seq(Lines) /\ Len(out') <= MaxOut
    BY <1>15, ReadLine DEF readInitialized
  <2>3. UNCHANGED <<turn, live, input, question, mutex, steer, answer, reader, shown, ready,
                    panicked, frames, faults>>
    BY <1>15 DEF readInitialized, Read
  <2> QED BY <2>1, <2>2, <2>3 DEF ClaudeTypeOK
<1>16. CASE initialized
  <2>1. live' \in Lives
    BY <1>16, <1>live DEF initialized, Lives
  <2>2. ready' \in BOOLEAN
    BY <1>16, <1>ready DEF initialized
  <2>3. out' \in Seq(Lines) /\ Len(out') <= MaxOut
    BY <1>16, ReadLine DEF initialized
  <2>4. UNCHANGED <<turn, input, question, mutex, steer, answer, reader, cli, shown, panicked,
                    frames, faults>>
    BY <1>16 DEF initialized, Read
  <2> QED BY <2>1, <2>2, <2>3, <2>4 DEF ClaudeTypeOK
<1>17. CASE progress
  <2>1. live' \in Lives
    BY <1>17, <1>live DEF progress, Progress, Lives
  <2>2. out' \in Seq(Lines) /\ Len(out') <= MaxOut
    BY <1>17, ReadLine DEF progress
  <2>3. UNCHANGED <<turn, input, question, mutex, steer, answer, reader, cli, shown, ready,
                    panicked, frames, faults>>
    BY <1>17 DEF progress, Progress, Read
  <2> QED BY <2>1, <2>2, <2>3 DEF ClaudeTypeOK
<1>18. CASE relay
  <2>1. out' \in Seq(Lines) /\ Len(out') <= MaxOut
    BY <1>18, ReadLine DEF relay
  <2>2. UNCHANGED <<turn, live, input, question, mutex, steer, answer, reader, cli, shown, ready,
                    panicked, frames, faults>>
    BY <1>18 DEF relay, Read
  <2> QED BY <2>1, <2>2 DEF ClaudeTypeOK
<1>19. CASE acknowledge
  <2>1. input' \in [Inputs -> InputRows]
    <3>1. Head(out).id \in Inputs
      BY <1>19, ReadLine DEF acknowledge, Lines
    <3> QED BY <1>19, <3>1, Acknowledged DEF acknowledge
  <2>2. shown' \in [Inputs \cup Questions -> SUBSET Events]
    BY <1>19, <1>shown, ReadLine DEF acknowledge, Acknowledge, CloseDone, Events
  <2>3. panicked' \in BOOLEAN
    BY <1>19, <1>panicked DEF acknowledge, Acknowledge, CloseDone
  <2>4. out' \in Seq(Lines) /\ Len(out') <= MaxOut
    BY <1>19, ReadLine DEF acknowledge
  <2>5. UNCHANGED <<turn, live, question, mutex, steer, answer, reader, cli, ready, frames,
                    faults>>
    BY <1>19 DEF acknowledge, Acknowledge, CloseDone, Read
  <2> QED BY <2>1, <2>2, <2>3, <2>4, <2>5 DEF ClaudeTypeOK
<1>20. CASE result
  <2>1. live' \in Lives
    <3>1. Head(out).id \in 0..Cardinality(Inputs)
      BY <1>20, ReadLine DEF result, Lines
    <3> QED BY <1>20, <1>live, <3>1, Resulted DEF result
  <2>2. ready' \in BOOLEAN
    BY <1>20, <1>ready DEF result, Result
  <2>3. out' \in Seq(Lines) /\ Len(out') <= MaxOut
    BY <1>20, ReadLine DEF result
  <2>4. UNCHANGED <<turn, input, question, mutex, steer, answer, reader, cli, shown, panicked,
                    frames, faults>>
    BY <1>20 DEF result, Result, Read
  <2> QED BY <2>1, <2>2, <2>3, <2>4 DEF ClaudeTypeOK
<1>21. CASE backgroundTasks
  <2>1. live' \in Lives
    <3>1. Head(out).id \in 0..1
      BY <1>21, ReadLine DEF backgroundTasks, Lines
    <3>2. /\ [live EXCEPT !.background = 0] \in Lives /\ live.queued \in 0..Cardinality(Inputs)
          /\ [live EXCEPT !.background = Head(out).id] \in Lives
      BY <1>live, <3>1 DEF Lives
    <3> QED BY <1>21, <3>2, Resulted DEF backgroundTasks, Background
  <2>2. ready' \in BOOLEAN
    BY <1>21, <1>ready DEF backgroundTasks, Background, Result
  <2>3. out' \in Seq(Lines) /\ Len(out') <= MaxOut
    BY <1>21, ReadLine DEF backgroundTasks
  <2>4. UNCHANGED <<turn, input, question, mutex, steer, answer, reader, cli, shown, panicked,
                    frames, faults>>
    BY <1>21 DEF backgroundTasks, Background, Result, Read
  <2> QED BY <2>1, <2>2, <2>3, <2>4 DEF ClaudeTypeOK
<1>22. CASE questionRequest
  <2>1. question' \in [Questions -> QuestionRows]
    BY <1>22, <1>question, ReadLine DEF questionRequest, Progress, Show, QuestionRows
  <2>2. shown' \in [Inputs \cup Questions -> SUBSET Events]
    BY <1>22, <1>shown, ReadLine DEF questionRequest, Progress, Show, Events
  <2>3. live' \in Lives
    BY <1>22, <1>live, ReadLine DEF questionRequest, Progress, Show, Lives
  <2>4. out' \in Seq(Lines) /\ Len(out') <= MaxOut
    BY <1>22, ReadLine DEF questionRequest
  <2>5. UNCHANGED <<turn, input, mutex, steer, answer, reader, cli, ready, panicked, frames,
                    faults>>
    BY <1>22 DEF questionRequest, Progress, Show, Read
  <2> QED BY <2>1, <2>2, <2>3, <2>4, <2>5 DEF ClaudeTypeOK
<1>23. CASE cancelQuestion
  <2>1. question' \in [Questions -> QuestionRows]
    BY <1>23, <1>question, ReadLine DEF cancelQuestion, Show, QuestionRows
  <2>2. shown' \in [Inputs \cup Questions -> SUBSET Events]
    BY <1>23, <1>shown, ReadLine DEF cancelQuestion, Show, Events
  <2>3. out' \in Seq(Lines) /\ Len(out') <= MaxOut
    BY <1>23, ReadLine DEF cancelQuestion
  <2>4. UNCHANGED <<turn, live, input, mutex, steer, answer, reader, cli, ready, panicked,
                    frames, faults>>
    BY <1>23 DEF cancelQuestion, Show, Read
  <2> QED BY <2>1, <2>2, <2>3, <2>4 DEF ClaudeTypeOK
<1>24. CASE readControlRequest
  <2>1. reader' \in {"scanning", "denying", "over", "gone"}
    BY <1>24, <1>reader DEF readControlRequest
  <2>2. out' \in Seq(Lines) /\ Len(out') <= MaxOut
    BY <1>24, ReadLine DEF readControlRequest
  <2>3. UNCHANGED <<turn, live, input, question, mutex, steer, answer, cli, shown, ready,
                    panicked, frames, faults>>
    BY <1>24 DEF readControlRequest, Read
  <2> QED BY <2>1, <2>2, <2>3 DEF ClaudeTypeOK
<1>25. CASE controlResponse
  <2>1. reader' \in {"scanning", "denying", "over", "gone"}
    BY <1>25, <1>reader DEF controlResponse, Kill
  <2>2. cli' \in Processes
    BY <1>25, <1>cli DEF controlResponse, Kill, Processes
  <2>3. UNCHANGED <<turn, live, input, question, mutex, steer, answer, out, shown, ready,
                    panicked, frames, faults>>
    BY <1>25 DEF controlResponse, Kill
  <2> QED BY <2>1, <2>2, <2>3 DEF ClaudeTypeOK
<1>26. CASE readInvalid
  <2>1. reader' \in {"scanning", "denying", "over", "gone"}
    BY <1>26, <1>reader DEF readInvalid, Kill
  <2>2. cli' \in Processes
    BY <1>26, <1>cli DEF readInvalid, Kill, Processes
  <2>3. out' \in Seq(Lines) /\ Len(out') <= MaxOut
    BY <1>26, ReadLine DEF readInvalid
  <2>4. UNCHANGED <<turn, live, input, question, mutex, steer, answer, shown, ready, panicked,
                    frames, faults>>
    BY <1>26 DEF readInvalid, Kill, Read
  <2> QED BY <2>1, <2>2, <2>3, <2>4 DEF ClaudeTypeOK
<1>27. CASE readEnd
  <2>1. reader' \in {"scanning", "denying", "over", "gone"}
    BY <1>27, <1>reader DEF readEnd
  <2>2. UNCHANGED <<turn, live, input, question, mutex, steer, answer, cli, out, shown, ready,
                    panicked, frames, faults>>
    BY <1>27 DEF readEnd
  <2> QED BY <2>1, <2>2 DEF ClaudeTypeOK
<1>28. CASE finish
  <2>1. turn' \in {"starting", "running", "ended"}
    BY <1>28, <1>turn DEF finish
  <2>2. live' \in Lives
    BY <1>28, <1>live DEF finish, Lives
  <2>3. panicked' \in BOOLEAN
    BY <1>28, <1>panicked DEF finish
  <2>4. input' \in [Inputs -> InputRows]
    BY <1>28, <1>input DEF finish, InputRows
  <2>5. shown' \in [Inputs \cup Questions -> SUBSET Events]
    BY <1>28, <1>shown DEF finish, Events
  <2>6. ready' \in BOOLEAN
    BY <1>28, <1>ready DEF finish
  <2>7. UNCHANGED <<question, mutex, steer, answer, reader, cli, out, frames, faults>>
    BY <1>28 DEF finish
  <2> QED BY <2>1, <2>2, <2>3, <2>4, <2>5, <2>6, <2>7 DEF ClaudeTypeOK
<1>29. CASE idleFires
  <2>1. cli' \in Processes
    BY <1>29, <1>cli DEF idleFires, Kill, Processes
  <2>2. UNCHANGED <<turn, live, input, question, mutex, steer, answer, reader, out, shown, ready,
                    panicked, frames, faults>>
    BY <1>29 DEF idleFires, Kill
  <2> QED BY <2>1, <2>2 DEF ClaudeTypeOK
<1>30. CASE cliAnswersInitialize
  <2>1. cli' \in Processes
    BY <1>30, <1>cli DEF cliAnswersInitialize, CliStep, Emit, Frame, Processes
  <2>2. out' \in Seq(Lines) /\ Len(out') <= MaxOut
    BY <1>30, EmitLine DEF cliAnswersInitialize, CliStep, Frame, Lines
  <2>3. UNCHANGED <<turn, live, input, question, mutex, steer, answer, reader, shown, ready,
                    panicked, frames, faults>>
    BY <1>30 DEF cliAnswersInitialize, CliStep, Emit, Frame
  <2> QED BY <2>1, <2>2, <2>3 DEF ClaudeTypeOK
<1>31. CASE cliInit
  <2>1. cli' \in Processes
    BY <1>31, <1>cli DEF cliInit, CliStep, Emit, Frame, Processes
  <2>2. out' \in Seq(Lines) /\ Len(out') <= MaxOut
    BY <1>31, EmitLine DEF cliInit, CliStep, Frame, Lines
  <2>3. UNCHANGED <<turn, live, input, question, mutex, steer, answer, reader, shown, ready,
                    panicked, frames, faults>>
    BY <1>31 DEF cliInit, CliStep, Emit, Frame
  <2> QED BY <2>1, <2>2, <2>3 DEF ClaudeTypeOK
<1>32. CASE cliProgress
  <2>1. out' \in Seq(Lines) /\ Len(out') <= MaxOut
    BY <1>32, EmitLine DEF cliProgress, CliStep, Frame, OnItsOwn, Lines
  <2>2. frames' \in Nat
    BY <1>32, <1>frames DEF cliProgress, CliStep, Emit, Frame, OnItsOwn
  <2>3. UNCHANGED <<turn, live, input, question, mutex, steer, answer, reader, cli, shown, ready,
                    panicked, faults>>
    BY <1>32 DEF cliProgress, CliStep, Emit, Frame, OnItsOwn
  <2> QED BY <2>1, <2>2, <2>3 DEF ClaudeTypeOK
<1>33. CASE cliTool
  <2>1. out' \in Seq(Lines) /\ Len(out') <= MaxOut
    BY <1>33, EmitLine DEF cliTool, CliStep, Frame, OnItsOwn, Lines
  <2>2. frames' \in Nat
    BY <1>33, <1>frames DEF cliTool, CliStep, Emit, Frame, OnItsOwn
  <2>3. UNCHANGED <<turn, live, input, question, mutex, steer, answer, reader, cli, shown, ready,
                    panicked, faults>>
    BY <1>33 DEF cliTool, CliStep, Emit, Frame, OnItsOwn
  <2> QED BY <2>1, <2>2, <2>3 DEF ClaudeTypeOK
<1>34. CASE cliBad
  <2>1. out' \in Seq(Lines) /\ Len(out') <= MaxOut
    BY <1>34, EmitLine DEF cliBad, Frame, Fault, Lines
  <2>2. faults' \in Nat
    BY <1>34, <1>faults DEF cliBad, Emit, Frame, Fault
  <2>3. UNCHANGED <<turn, live, input, question, mutex, steer, answer, reader, cli, shown, ready,
                    panicked, frames>>
    BY <1>34 DEF cliBad, Emit, Frame, Fault
  <2> QED BY <2>1, <2>2, <2>3 DEF ClaudeTypeOK
<1>35. ASSUME NEW i \in Inputs, cliReplay(i) PROVE ClaudeTypeOK'
  <2>1. cli' \in Processes
    BY <1>35, <1>cli DEF cliReplay, CliStep, Emit, Frame, Processes
  <2>2. out' \in Seq(Lines) /\ Len(out') <= MaxOut
    BY <1>35, EmitLine DEF cliReplay, CliStep, Frame, Lines
  <2>3. UNCHANGED <<turn, live, input, question, mutex, steer, answer, reader, shown, ready,
                    panicked, frames, faults>>
    BY <1>35 DEF cliReplay, CliStep, Emit, Frame
  <2> QED BY <2>1, <2>2, <2>3 DEF ClaudeTypeOK
<1>36. ASSUME NEW i \in Inputs, cliApply(i) PROVE ClaudeTypeOK'
  <2>1. cli' \in Processes
    BY <1>36, <1>cli DEF cliApply, CliStep, Emit, Frame, Processes
  <2>2. out' \in Seq(Lines) /\ Len(out') <= MaxOut
    BY <1>36, EmitLine DEF cliApply, CliStep, Frame, Lines
  <2>3. UNCHANGED <<turn, live, input, question, mutex, steer, answer, reader, shown, ready,
                    panicked, frames, faults>>
    BY <1>36 DEF cliApply, CliStep, Emit, Frame
  <2> QED BY <2>1, <2>2, <2>3 DEF ClaudeTypeOK
<1>37. ASSUME NEW n \in 0..Cardinality(Inputs), cliResult(n) PROVE ClaudeTypeOK'
  <2>1. out' \in Seq(Lines) /\ Len(out') <= MaxOut
    BY <1>37, EmitLine DEF cliResult, CliStep, Frame, OnItsOwn, Lines
  <2>2. frames' \in Nat
    BY <1>37, <1>frames DEF cliResult, CliStep, Emit, Frame, OnItsOwn
  <2>3. UNCHANGED <<turn, live, input, question, mutex, steer, answer, reader, cli, shown, ready,
                    panicked, faults>>
    BY <1>37 DEF cliResult, CliStep, Emit, Frame, OnItsOwn
  <2> QED BY <2>1, <2>2, <2>3 DEF ClaudeTypeOK
<1>38. ASSUME NEW n \in 0..1, cliBackground(n) PROVE ClaudeTypeOK'
  <2>1. cli' \in Processes
    BY <1>38, <1>cli DEF cliBackground, CliStep, Emit, Frame, OnItsOwn, Processes
  <2>2. out' \in Seq(Lines) /\ Len(out') <= MaxOut
    BY <1>38, EmitLine DEF cliBackground, CliStep, Frame, OnItsOwn, Lines
  <2>3. frames' \in Nat
    BY <1>38, <1>frames DEF cliBackground, CliStep, Emit, Frame, OnItsOwn
  <2>4. UNCHANGED <<turn, live, input, question, mutex, steer, answer, reader, shown, ready,
                    panicked, faults>>
    BY <1>38 DEF cliBackground, CliStep, Emit, Frame, OnItsOwn
  <2> QED BY <2>1, <2>2, <2>3, <2>4 DEF ClaudeTypeOK
<1>39. ASSUME NEW q \in Questions, cliAsk(q) PROVE ClaudeTypeOK'
  <2>1. cli' \in Processes
    BY <1>39, <1>cli DEF cliAsk, CliStep, Emit, Frame, OnItsOwn, Processes
  <2>2. out' \in Seq(Lines) /\ Len(out') <= MaxOut
    BY <1>39, EmitLine DEF cliAsk, CliStep, Frame, OnItsOwn, Lines
  <2>3. frames' \in Nat
    BY <1>39, <1>frames DEF cliAsk, CliStep, Emit, Frame, OnItsOwn
  <2>4. UNCHANGED <<turn, live, input, question, mutex, steer, answer, reader, shown, ready,
                    panicked, faults>>
    BY <1>39 DEF cliAsk, CliStep, Emit, Frame, OnItsOwn
  <2> QED BY <2>1, <2>2, <2>3, <2>4 DEF ClaudeTypeOK
<1>40. ASSUME NEW q \in Questions, cliCancel(q) PROVE ClaudeTypeOK'
  <2>1. cli' \in Processes
    BY <1>40, <1>cli DEF cliCancel, CliStep, Emit, Frame, OnItsOwn, Processes
  <2>2. out' \in Seq(Lines) /\ Len(out') <= MaxOut
    BY <1>40, EmitLine DEF cliCancel, CliStep, Frame, OnItsOwn, Lines
  <2>3. frames' \in Nat
    BY <1>40, <1>frames DEF cliCancel, CliStep, Emit, Frame, OnItsOwn
  <2>4. UNCHANGED <<turn, live, input, question, mutex, steer, answer, reader, shown, ready,
                    panicked, faults>>
    BY <1>40 DEF cliCancel, CliStep, Emit, Frame, OnItsOwn
  <2> QED BY <2>1, <2>2, <2>3, <2>4 DEF ClaudeTypeOK
<1>41. CASE cliExits
  <2>1. cli' \in Processes
    BY <1>41, <1>cli DEF cliExits, Fault, Processes
  <2>2. faults' \in Nat
    BY <1>41, <1>faults DEF cliExits, Fault
  <2>3. UNCHANGED <<turn, live, input, question, mutex, steer, answer, reader, out, shown, ready,
                    panicked, frames>>
    BY <1>41 DEF cliExits, Fault
  <2> QED BY <2>1, <2>2, <2>3 DEF ClaudeTypeOK
<1>42. CASE Crash
  <2>1. turn' \in {"starting", "running", "ended"}
    BY <1>42, <1>turn DEF Crash, Fault
  <2>2. reader' \in {"scanning", "denying", "over", "gone"}
    BY <1>42, <1>reader DEF Crash, Fault
  <2>3. mutex' \in {"free"} \cup Inputs \cup Questions
    BY <1>42, <1>mutex DEF Crash, Fault
  <2>4. steer' \in [Inputs -> {"none", "queued", "found", "writing", "waiting", "ended"}]
    BY <1>42, <1>steer DEF Crash, Fault
  <2>5. answer' \in [Questions -> {"none", "queued", "writing", "ended"}]
    BY <1>42, <1>answer DEF Crash, Fault
  <2>6. ready' \in BOOLEAN
    BY <1>42, <1>ready DEF Crash, Fault
  <2>7. faults' \in Nat
    BY <1>42, <1>faults DEF Crash, Fault
  <2>8. (\A j \in Inputs : mutex' = j <=> steer'[j] = "writing")
       /\ (\A p \in Questions : mutex' = p <=> answer'[p] = "writing")
    BY <1>42, <1>mutex, <1>steer, <1>answer, <1>lock, ClaudeAssumption DEF Crash, Fault
  <2>9. UNCHANGED <<live, input, question, cli, out, shown, panicked, frames>>
    BY <1>42 DEF Crash, Fault
  <2> QED BY <2>1, <2>2, <2>3, <2>4, <2>5, <2>6, <2>7, <2>8, <2>9 DEF ClaudeTypeOK
<1>43. CASE UNCHANGED vars
  <2>1. UNCHANGED <<turn, live, input, question, mutex, steer, answer, reader, cli, out, shown,
                    ready, panicked, frames, faults>>
    BY <1>43 DEF vars
  <2> QED BY <2>1 DEF ClaudeTypeOK
<1> QED BY <1>1, <1>2, <1>3, <1>4, <1>5, <1>6, <1>7, <1>8, <1>9, <1>10, <1>11, <1>12,
           <1>13, <1>14, <1>15, <1>16, <1>17, <1>18, <1>19, <1>20, <1>21, <1>22, <1>23, <1>24,
           <1>25, <1>26, <1>27, <1>28, <1>29, <1>30, <1>31, <1>32, <1>33, <1>34, <1>35, <1>36,
           <1>37, <1>38, <1>39, <1>40, <1>41, <1>42, <1>43
        DEF Next, Writing, Answering, Reading, Cli


\* The channel of an instruction is closed once.
LEMMA ChannelStep ==
    ASSUME ClaudeTypeOK, DoneIsReceived, DoneClosedOnce, [Next]_vars
    PROVE  DoneIsReceived' /\ DoneClosedOnce'
<1>1. ASSUME input' = input, panicked' = panicked PROVE DoneIsReceived' /\ DoneClosedOnce'
  BY <1>1 DEF DoneIsReceived, DoneClosedOnce
<1>2. /\ input \in [Inputs -> InputRows] /\ ~panicked
      /\ \A i \in Inputs : input[i].done => input[i].received
  BY DEF ClaudeTypeOK, DoneIsReceived, DoneClosedOnce
<1>3. ASSUME NEW i \in Inputs, steerClaudeTurn(i) PROVE DoneIsReceived' /\ DoneClosedOnce'
  BY <1>1, <1>3 DEF steerClaudeTurn, QueueClaudeSteer, Show
<1>4. ASSUME NEW i \in Inputs, Steer(i) PROVE DoneIsReceived' /\ DoneClosedOnce'
  BY <1>1, <1>4 DEF Steer, SteerResult, LostAnswer
<1>5. ASSUME NEW i \in Inputs, steerRegister(i) PROVE DoneIsReceived' /\ DoneClosedOnce'
  BY <1>5, <1>2 DEF steerRegister, SteerResult, Held, DoneIsReceived, DoneClosedOnce, InputRows
<1>6. ASSUME NEW i \in Inputs, steerWritten(i) PROVE DoneIsReceived' /\ DoneClosedOnce'
  BY <1>1, <1>6 DEF steerWritten
<1>7. ASSUME NEW i \in Inputs, steerWriteFails(i) PROVE DoneIsReceived' /\ DoneClosedOnce'
  <2>1. [input[i] EXCEPT !.err = TRUE] \in InputRows
    BY <1>7, <1>2, InputUpdates
  <2> QED BY <1>7, <1>2, <2>1, Closed DEF steerWriteFails, DoneIsReceived, DoneClosedOnce
<1>8. ASSUME NEW i \in Inputs, steerDone(i) PROVE DoneIsReceived' /\ DoneClosedOnce'
  BY <1>1, <1>8 DEF steerDone, SteerResult
<1>9. ASSUME NEW i \in Inputs, steerTimeout(i) PROVE DoneIsReceived' /\ DoneClosedOnce'
  BY <1>1, <1>9 DEF steerTimeout, SteerResult
<1>10. ASSUME NEW q \in Questions, answerClaudeQuestion(q) PROVE DoneIsReceived' /\ DoneClosedOnce'
  BY <1>1, <1>10 DEF answerClaudeQuestion, QueueClaudeAnswer
<1>11. ASSUME NEW q \in Questions, Answer(q) PROVE DoneIsReceived' /\ DoneClosedOnce'
  BY <1>1, <1>11 DEF Answer, Show
<1>12. ASSUME NEW q \in Questions, writeControlResponse(q) PROVE DoneIsReceived' /\ DoneClosedOnce'
  BY <1>1, <1>12 DEF writeControlResponse
<1>13. ASSUME NEW q \in Questions, answerFails(q) PROVE DoneIsReceived' /\ DoneClosedOnce'
  BY <1>1, <1>13 DEF answerFails, Show, Kill
<1>14. ASSUME NEW x \in Inputs \cup Questions, watchdog(x) PROVE DoneIsReceived' /\ DoneClosedOnce'
  BY <1>1, <1>14 DEF watchdog, Kill
<1>15. CASE start
  BY <1>1, <1>15 DEF start
<1>16. CASE initializeTimer
  BY <1>1, <1>16 DEF initializeTimer, Kill
<1>17. CASE readInitialized
  BY <1>1, <1>17 DEF readInitialized
<1>18. CASE initialized
  BY <1>1, <1>18 DEF initialized
<1>19. CASE progress
  BY <1>1, <1>19 DEF progress, Progress
<1>20. CASE relay
  BY <1>1, <1>20 DEF relay
<1>21. CASE acknowledge
  <2>1. Head(out).id \in Inputs
    BY <1>21, ReadLine DEF acknowledge, Lines
  <2>2. Acknowledge(Head(out).id, Head(out).kind = "apply") /\ (Head(out).kind = "apply") \in BOOLEAN
    BY <1>21 DEF acknowledge
  <2> QED BY <1>2, <2>1, <2>2, Acknowledged DEF DoneIsReceived, DoneClosedOnce
<1>22. CASE result
  BY <1>1, <1>22 DEF result, Result
<1>23. CASE backgroundTasks
  BY <1>1, <1>23 DEF backgroundTasks, Background, Result
<1>24. CASE questionRequest
  BY <1>1, <1>24 DEF questionRequest, Progress, Show
<1>25. CASE cancelQuestion
  BY <1>1, <1>25 DEF cancelQuestion, Show
<1>26. CASE readControlRequest
  BY <1>1, <1>26 DEF readControlRequest
<1>27. CASE controlResponse
  BY <1>1, <1>27 DEF controlResponse, Kill
<1>28. CASE readInvalid
  BY <1>1, <1>28 DEF readInvalid, Kill
<1>29. CASE readEnd
  BY <1>1, <1>29 DEF readEnd
<1>30. CASE finish
  <2>1. \A j \in Inputs : input'[j] = input[j] \/ input'[j].received
    BY <1>30, <1>2, InputUpdates DEF finish
  <2>2. ~panicked'
    BY <1>30, <1>2 DEF finish, Held
  <2> QED BY <1>2, <2>1, <2>2 DEF DoneIsReceived, DoneClosedOnce
<1>31. CASE idleFires
  BY <1>1, <1>31 DEF idleFires, Kill
<1>32. CASE cliAnswersInitialize
  BY <1>1, <1>32 DEF cliAnswersInitialize, CliStep, Emit, Frame
<1>33. CASE cliInit
  BY <1>1, <1>33 DEF cliInit, CliStep, Emit, Frame
<1>34. CASE cliProgress
  BY <1>1, <1>34 DEF cliProgress, CliStep, Emit, Frame, OnItsOwn
<1>35. CASE cliTool
  BY <1>1, <1>35 DEF cliTool, CliStep, Emit, Frame, OnItsOwn
<1>36. CASE cliBad
  BY <1>1, <1>36 DEF cliBad, Emit, Frame, Fault
<1>37. ASSUME NEW i \in Inputs, cliReplay(i) PROVE DoneIsReceived' /\ DoneClosedOnce'
  BY <1>1, <1>37 DEF cliReplay, CliStep, Emit, Frame
<1>38. ASSUME NEW i \in Inputs, cliApply(i) PROVE DoneIsReceived' /\ DoneClosedOnce'
  BY <1>1, <1>38 DEF cliApply, CliStep, Emit, Frame
<1>39. ASSUME NEW n \in 0..Cardinality(Inputs), cliResult(n) PROVE DoneIsReceived' /\ DoneClosedOnce'
  BY <1>1, <1>39 DEF cliResult, CliStep, Emit, Frame, OnItsOwn
<1>40. ASSUME NEW n \in 0..1, cliBackground(n) PROVE DoneIsReceived' /\ DoneClosedOnce'
  BY <1>1, <1>40 DEF cliBackground, CliStep, Emit, Frame, OnItsOwn
<1>41. ASSUME NEW q \in Questions, cliAsk(q) PROVE DoneIsReceived' /\ DoneClosedOnce'
  BY <1>1, <1>41 DEF cliAsk, CliStep, Emit, Frame, OnItsOwn
<1>42. ASSUME NEW q \in Questions, cliCancel(q) PROVE DoneIsReceived' /\ DoneClosedOnce'
  BY <1>1, <1>42 DEF cliCancel, CliStep, Emit, Frame, OnItsOwn
<1>43. CASE cliExits
  BY <1>1, <1>43 DEF cliExits, Fault
<1>44. CASE Crash
  BY <1>1, <1>44 DEF Crash, Fault
<1>45. CASE UNCHANGED vars
  BY <1>1, <1>45 DEF vars
<1> QED BY <1>3, <1>4, <1>5, <1>6, <1>7, <1>8, <1>9, <1>10, <1>11, <1>12, <1>13, <1>14,
           <1>15, <1>16, <1>17, <1>18, <1>19, <1>20, <1>21, <1>22, <1>23, <1>24, <1>25, <1>26,
           <1>27, <1>28, <1>29, <1>30, <1>31, <1>32, <1>33, <1>34, <1>35, <1>36, <1>37, <1>38,
           <1>39, <1>40, <1>41, <1>42, <1>43, <1>44, <1>45
        DEF Next, Writing, Answering, Reading, Cli

\* The input is closed when every instruction that was taken has been applied.
Cut == ClosedOnlyWhenApplied /\ (live.closed => turn # "starting")

\* A step that closes the input finds nothing pending, and no step takes an
\* instruction once it is closed.
LEMMA CloseStep == ASSUME ClaudeTypeOK, Cut, [Next]_vars PROVE Cut'
<1>1. ASSUME live'.closed => live.closed, turn' = turn,
             \A j \in Inputs : /\ input'[j].held => input[j].held
                               /\ input[j].applied => input'[j].applied
      PROVE  Cut'
  BY <1>1 DEF Cut, ClosedOnlyWhenApplied
<1>2. ClosedOnlyWhenApplied /\ (live.closed => turn # "starting")
  BY DEF Cut
<1>3. input \in [Inputs -> InputRows] /\ live \in Lives
  BY DEF ClaudeTypeOK
<1>4. ASSUME NEW i \in Inputs, steerClaudeTurn(i) PROVE Cut'
  BY <1>1, <1>4 DEF steerClaudeTurn, QueueClaudeSteer, Show
<1>5. ASSUME NEW i \in Inputs, Steer(i) PROVE Cut'
  BY <1>1, <1>5 DEF Steer, SteerResult, LostAnswer
<1>6. ASSUME NEW i \in Inputs, steerRegister(i) PROVE Cut'
  <2>1. turn' = turn /\ live' = live /\ (input' = input \/ ~live.closed)
    BY <1>6 DEF steerRegister
  <2> QED BY <1>1, <2>1 DEF Cut, ClosedOnlyWhenApplied
<1>7. ASSUME NEW i \in Inputs, steerWritten(i) PROVE Cut'
  BY <1>1, <1>7 DEF steerWritten
<1>8. ASSUME NEW i \in Inputs, steerWriteFails(i) PROVE Cut'
  <2>1. turn' = turn /\ live' = live
    BY <1>8 DEF steerWriteFails
  <2>0. LET x == [input[i] EXCEPT !.err = TRUE]
        IN x \in InputRows /\ x.held = input[i].held /\ x.applied = input[i].applied
    BY <1>8, <1>3, InputUpdates
  <2>2. \A j \in Inputs : input'[j].held = input[j].held /\ input'[j].applied = input[j].applied
    BY <1>8, <1>3, <2>0, Closed DEF steerWriteFails
  <2> QED BY <1>1, <2>1, <2>2
<1>9. ASSUME NEW i \in Inputs, steerDone(i) PROVE Cut'
  BY <1>1, <1>9 DEF steerDone, SteerResult
<1>10. ASSUME NEW i \in Inputs, steerTimeout(i) PROVE Cut'
  BY <1>1, <1>10 DEF steerTimeout, SteerResult
<1>11. ASSUME NEW q \in Questions, answerClaudeQuestion(q) PROVE Cut'
  BY <1>1, <1>11 DEF answerClaudeQuestion, QueueClaudeAnswer
<1>12. ASSUME NEW q \in Questions, Answer(q) PROVE Cut'
  BY <1>1, <1>12 DEF Answer, Show
<1>13. ASSUME NEW q \in Questions, writeControlResponse(q) PROVE Cut'
  BY <1>1, <1>13 DEF writeControlResponse
<1>14. ASSUME NEW q \in Questions, answerFails(q) PROVE Cut'
  BY <1>1, <1>14 DEF answerFails, Show, Kill
<1>15. ASSUME NEW x \in Inputs \cup Questions, watchdog(x) PROVE Cut'
  BY <1>1, <1>15 DEF watchdog, Kill
<1>16. CASE start
  BY <1>16 DEF start, Cut, ClosedOnlyWhenApplied
<1>17. CASE initializeTimer
  BY <1>1, <1>17 DEF initializeTimer, Kill
<1>18. CASE readInitialized
  BY <1>1, <1>18 DEF readInitialized
<1>19. CASE initialized
  <2>1. live'.closed = live.closed /\ turn' = turn /\ input' = input
    BY <1>19, <1>3 DEF initialized, Lives
  <2> QED BY <1>1, <2>1
<1>20. CASE progress
  <2>1. live'.closed = live.closed /\ turn' = turn /\ input' = input
    BY <1>20, <1>3 DEF progress, Progress, Lives
  <2> QED BY <1>1, <2>1
<1>21. CASE relay
  BY <1>1, <1>21 DEF relay
<1>22. CASE acknowledge
  <2>1. turn' = turn /\ live' = live
    BY <1>22 DEF acknowledge, Read
  <2>2. Head(out).id \in Inputs
    BY <1>22, ReadLine DEF acknowledge, Lines
  <2>3. \A j \in Inputs : input'[j].held = input[j].held /\ (input[j].applied => input'[j].applied)
    BY <1>22, <1>3, <2>2, Acknowledged DEF acknowledge
  <2> QED BY <1>1, <2>1, <2>3
<1>23. CASE result
  <2>1. turn = "running" /\ turn' = turn /\ input' = input
    BY <1>23 DEF result, Read
  <2>2. live'.closed => (live.closed \/ ~Pending)
    BY <1>23, <1>3 DEF result, Result, Lives
  <2> QED BY <2>1, <2>2 DEF Cut, ClosedOnlyWhenApplied, Pending
<1>24. CASE backgroundTasks
  <2>1. turn = "running" /\ turn' = turn /\ input' = input
    BY <1>24 DEF backgroundTasks, Read
  <2>2. live'.closed => (live.closed \/ ~Pending)
    BY <1>24, <1>3 DEF backgroundTasks, Background, Result, Lives
  <2> QED BY <2>1, <2>2 DEF Cut, ClosedOnlyWhenApplied, Pending
<1>25. CASE questionRequest
  <2>1. live'.closed = live.closed /\ turn' = turn /\ input' = input
    BY <1>25, <1>3 DEF questionRequest, Progress, Show, Lives
  <2> QED BY <1>1, <2>1
<1>26. CASE cancelQuestion
  BY <1>1, <1>26 DEF cancelQuestion, Show
<1>27. CASE readControlRequest
  BY <1>1, <1>27 DEF readControlRequest
<1>28. CASE controlResponse
  BY <1>1, <1>28 DEF controlResponse, Kill
<1>29. CASE readInvalid
  BY <1>1, <1>29 DEF readInvalid, Kill
<1>30. CASE readEnd
  BY <1>1, <1>30 DEF readEnd
<1>31. CASE finish
  BY <1>31 DEF finish, Cut, ClosedOnlyWhenApplied
<1>32. CASE idleFires
  BY <1>1, <1>32 DEF idleFires, Kill
<1>33. CASE cliAnswersInitialize
  BY <1>1, <1>33 DEF cliAnswersInitialize, CliStep, Emit, Frame
<1>34. CASE cliInit
  BY <1>1, <1>34 DEF cliInit, CliStep, Emit, Frame
<1>35. CASE cliProgress
  BY <1>1, <1>35 DEF cliProgress, CliStep, Emit, Frame, OnItsOwn
<1>36. CASE cliTool
  BY <1>1, <1>36 DEF cliTool, CliStep, Emit, Frame, OnItsOwn
<1>37. CASE cliBad
  BY <1>1, <1>37 DEF cliBad, Emit, Frame, Fault
<1>38. ASSUME NEW i \in Inputs, cliReplay(i) PROVE Cut'
  BY <1>1, <1>38 DEF cliReplay, CliStep, Emit, Frame
<1>39. ASSUME NEW i \in Inputs, cliApply(i) PROVE Cut'
  BY <1>1, <1>39 DEF cliApply, CliStep, Emit, Frame
<1>40. ASSUME NEW n \in 0..Cardinality(Inputs), cliResult(n) PROVE Cut'
  BY <1>1, <1>40 DEF cliResult, CliStep, Emit, Frame, OnItsOwn
<1>41. ASSUME NEW n \in 0..1, cliBackground(n) PROVE Cut'
  BY <1>1, <1>41 DEF cliBackground, CliStep, Emit, Frame, OnItsOwn
<1>42. ASSUME NEW q \in Questions, cliAsk(q) PROVE Cut'
  BY <1>1, <1>42 DEF cliAsk, CliStep, Emit, Frame, OnItsOwn
<1>43. ASSUME NEW q \in Questions, cliCancel(q) PROVE Cut'
  BY <1>1, <1>43 DEF cliCancel, CliStep, Emit, Frame, OnItsOwn
<1>44. CASE cliExits
  BY <1>1, <1>44 DEF cliExits, Fault
<1>45. CASE Crash
  BY <1>45 DEF Crash, Cut, ClosedOnlyWhenApplied
<1>46. CASE UNCHANGED vars
  BY <1>1, <1>46 DEF vars
<1> QED BY <1>4, <1>5, <1>6, <1>7, <1>8, <1>9, <1>10, <1>11, <1>12, <1>13, <1>14, <1>15,
           <1>16, <1>17, <1>18, <1>19, <1>20, <1>21, <1>22, <1>23, <1>24, <1>25, <1>26, <1>27,
           <1>28, <1>29, <1>30, <1>31, <1>32, <1>33, <1>34, <1>35, <1>36, <1>37, <1>38, <1>39,
           <1>40, <1>41, <1>42, <1>43, <1>44, <1>45, <1>46
        DEF Next, Writing, Answering, Reading, Cli

\* Only a completed write gives an instruction to the CLI.

\* What is known of an instruction that the CLI was given, and of what the CLI says.
GivenOne(i) ==
  /\ i \in cli.got => steer[i] \in {"waiting", "ended"} \/ (steer[i] = "queued" /\ turn = "ended")
  /\ input[i].applied => i \in cli.got
  /\ "rejected" \in shown[i] => steer[i] = "ended" /\ i \notin cli.got

Given ==
  /\ \A i \in Inputs : GivenOne(i)
  /\ \A f \in Range(out) : f.kind \in {"replay", "apply"} => f.id \in cli.got

\* Only a completed write gives an instruction to the CLI, and no step after it
\* shows that instruction as not sent.
LEMMA GivenStep == ASSUME ClaudeTypeOK, Given, [Next]_vars PROVE Given'
<1>1. ASSUME turn = "ended" => turn' = "ended", steer' = steer, cli'.got = cli.got,
             \A j \in Inputs : /\ input'[j].applied = input[j].applied
                               /\ "rejected" \in shown'[j] => "rejected" \in shown[j],
             \A f \in Range(out') : f \in Range(out) \/ f.kind \notin {"replay", "apply"}
      PROVE  Given'
  BY <1>1 DEF Given, GivenOne
<1>2. /\ input \in [Inputs -> InputRows] /\ cli \in Processes
      /\ steer \in [Inputs -> {"none", "queued", "found", "writing", "waiting", "ended"}]
      /\ shown \in [Inputs \cup Questions -> SUBSET Events] /\ Inputs \cap Questions = {}
  BY ClaudeAssumption DEF ClaudeTypeOK
<1>3. ASSUME NEW i \in Inputs, steerClaudeTurn(i) PROVE Given'
  <2>1. UNCHANGED <<turn, cli, input, out>> /\ steer[i] = "none"
    BY <1>3 DEF steerClaudeTurn
  <2>2. /\ steer' = [steer EXCEPT ![i] = "queued"]
        /\ \A j \in Inputs : "rejected" \in shown'[j] => "rejected" \in shown[j]
    BY <1>3, <1>2 DEF steerClaudeTurn, QueueClaudeSteer, Show
  <2> QED BY <1>2, <2>1, <2>2 DEF Given, GivenOne
<1>4. ASSUME NEW i \in Inputs, Steer(i) PROVE Given'
  <2>1. UNCHANGED <<turn, cli, input, out>> /\ steer[i] = "queued"
    BY <1>4 DEF Steer
  <2>2. /\ \/ turn # "ended" /\ steer' = [steer EXCEPT ![i] = "found"]
           \/ steer' = [steer EXCEPT ![i] = "ended"]
        /\ \A j \in Inputs : "rejected" \in shown'[j] => "rejected" \in shown[j]
    BY <1>4, <1>2 DEF Steer, SteerResult, LostAnswer
  <2> QED BY <1>2, <2>1, <2>2 DEF Given, GivenOne
<1>5. ASSUME NEW i \in Inputs, steerRegister(i) PROVE Given'
  <2>1. UNCHANGED <<turn, cli, out>> /\ steer[i] = "found"
    BY <1>5 DEF steerRegister
  <2>2. \A j \in Inputs : input'[j].applied = input[j].applied
    BY <1>5, <1>2 DEF steerRegister, InputRows
  <2>3. /\ steer' = [steer EXCEPT ![i] = "ended"] \/ (steer' = [steer EXCEPT ![i] = "writing"] /\ shown' = shown)
        /\ \A j \in Inputs : "rejected" \in shown'[j] => "rejected" \in shown[j] \/ j = i
    BY <1>5, <1>2 DEF steerRegister, SteerResult
  <2> QED BY <1>2, <2>1, <2>2, <2>3 DEF Given, GivenOne
<1>6. ASSUME NEW i \in Inputs, steerWritten(i) PROVE Given'
  <2>1. UNCHANGED <<turn, input, shown,
                    out>> /\ steer' = [steer EXCEPT ![i] = "waiting"] /\ steer[i] = "writing"
    BY <1>6 DEF steerWritten
  <2>2. cli'.got = cli.got \cup {i}
    BY <1>6, <1>2 DEF steerWritten, Processes
  <2> QED BY <1>2, <2>1, <2>2 DEF Given, GivenOne
<1>7. ASSUME NEW i \in Inputs, steerWriteFails(i) PROVE Given'
  <2>1. UNCHANGED <<turn, cli, shown,
                    out>> /\ steer' = [steer EXCEPT ![i] = "waiting"] /\ steer[i] = "writing"
    BY <1>7 DEF steerWriteFails
  <2>0. LET x == [input[i] EXCEPT !.err = TRUE] IN x \in InputRows /\ x.applied = input[i].applied
    BY <1>7, <1>2, InputUpdates
  <2>2. \A j \in Inputs : input'[j].applied = input[j].applied
    BY <1>7, <1>2, <2>0, Closed DEF steerWriteFails
  <2> QED BY <1>2, <2>1, <2>2 DEF Given, GivenOne
<1>8. ASSUME NEW i \in Inputs, steerDone(i) PROVE Given'
  <2>1. UNCHANGED <<turn, cli, input,
                    out>> /\ steer' = [steer EXCEPT ![i] = "ended"] /\ steer[i] = "waiting"
    BY <1>8 DEF steerDone, SteerResult
  <2>2. \A j \in Inputs : "rejected" \in shown'[j] => "rejected" \in shown[j]
    BY <1>8, <1>2 DEF steerDone, SteerResult
  <2> QED BY <1>2, <2>1, <2>2 DEF Given, GivenOne
<1>9. ASSUME NEW i \in Inputs, steerTimeout(i) PROVE Given'
  <2>1. UNCHANGED <<turn, cli, input,
                    out>> /\ steer' = [steer EXCEPT ![i] = "ended"] /\ steer[i] = "waiting"
    BY <1>9 DEF steerTimeout, SteerResult
  <2>2. \A j \in Inputs : "rejected" \in shown'[j] => "rejected" \in shown[j]
    BY <1>9, <1>2 DEF steerTimeout, SteerResult
  <2> QED BY <1>2, <2>1, <2>2 DEF Given, GivenOne
<1>10. ASSUME NEW q \in Questions, answerClaudeQuestion(q) PROVE Given'
  <2>1. cli'.got = cli.got
    BY <1>10 DEF answerClaudeQuestion, QueueClaudeAnswer
  <2>2. turn' = turn /\ steer' = steer /\ input' = input /\ shown' = shown /\ out' = out
    BY <1>10 DEF answerClaudeQuestion, QueueClaudeAnswer
  <2> QED BY <1>1, <2>1, <2>2
<1>11. ASSUME NEW q \in Questions, Answer(q) PROVE Given'
  <2>1. cli'.got = cli.got
    BY <1>11 DEF Answer, Show
  <2>2. \A j \in Inputs : shown'[j] = shown[j] \/ shown'[j] \ shown[j] \subseteq {"asked", "answered", "cancelled"}
    BY <1>11, <1>2 DEF Answer, Show, Lines
  <2>3. turn' = turn /\ steer' = steer /\ input' = input /\ out' = out
    BY <1>11 DEF Answer, Show
  <2> QED BY <1>1, <2>1, <2>2, <2>3
<1>12. ASSUME NEW q \in Questions, writeControlResponse(q) PROVE Given'
  <2>1. cli'.got = cli.got
    BY <1>12, <1>2 DEF writeControlResponse, Processes
  <2>2. turn' = turn /\ steer' = steer /\ input' = input /\ shown' = shown /\ out' = out
    BY <1>12 DEF writeControlResponse
  <2> QED BY <1>1, <2>1, <2>2
<1>13. ASSUME NEW q \in Questions, answerFails(q) PROVE Given'
  <2>1. cli'.got = cli.got
    BY <1>13, <1>2 DEF answerFails, Show, Kill, Processes
  <2>2. \A j \in Inputs : shown'[j] = shown[j] \/ shown'[j] \ shown[j] \subseteq {"asked", "answered", "cancelled"}
    BY <1>13, <1>2 DEF answerFails, Show, Kill, Lines
  <2>3. turn' = turn /\ steer' = steer /\ input' = input /\ out' = out
    BY <1>13 DEF answerFails, Show, Kill
  <2> QED BY <1>1, <2>1, <2>2, <2>3
<1>14. ASSUME NEW x \in Inputs \cup Questions, watchdog(x) PROVE Given'
  <2>1. cli'.got = cli.got
    BY <1>14, <1>2 DEF watchdog, Kill, Processes
  <2>2. turn' = turn /\ steer' = steer /\ input' = input /\ shown' = shown /\ out' = out
    BY <1>14 DEF watchdog, Kill
  <2> QED BY <1>1, <2>1, <2>2
<1>15. CASE start
  <2>1. cli'.got = cli.got
    BY <1>15, <1>2 DEF start, Processes
  <2>2. turn # "ended" /\ steer' = steer /\ input' = input /\ shown' = shown /\ out' = out
    BY <1>15 DEF start
  <2> QED BY <1>1, <2>1, <2>2
<1>16. CASE initializeTimer
  <2>1. cli'.got = cli.got
    BY <1>16, <1>2 DEF initializeTimer, Kill, Processes
  <2>2. turn' = turn /\ steer' = steer /\ input' = input /\ shown' = shown /\ out' = out
    BY <1>16 DEF initializeTimer, Kill
  <2> QED BY <1>1, <2>1, <2>2
<1>17. CASE readInitialized
  <2>1. cli'.got = cli.got
    BY <1>17, <1>2 DEF readInitialized, Processes
  <2>2. Range(out') \subseteq Range(out)
    BY <1>17, ReadLine DEF readInitialized
  <2>3. turn' = turn /\ steer' = steer /\ input' = input /\ shown' = shown
    BY <1>17 DEF readInitialized, Read
  <2> QED BY <1>1, <2>1, <2>2, <2>3
<1>18. CASE initialized
  <2>1. cli'.got = cli.got
    BY <1>18 DEF initialized, Read
  <2>2. Range(out') \subseteq Range(out)
    BY <1>18, ReadLine DEF initialized
  <2>3. turn' = turn /\ steer' = steer /\ input' = input /\ shown' = shown
    BY <1>18 DEF initialized, Read
  <2> QED BY <1>1, <2>1, <2>2, <2>3
<1>19. CASE progress
  <2>1. cli'.got = cli.got
    BY <1>19 DEF progress, Progress, Read
  <2>2. Range(out') \subseteq Range(out)
    BY <1>19, ReadLine DEF progress
  <2>3. turn' = turn /\ steer' = steer /\ input' = input /\ shown' = shown
    BY <1>19 DEF progress, Progress, Read
  <2> QED BY <1>1, <2>1, <2>2, <2>3
<1>20. CASE relay
  <2>1. cli'.got = cli.got
    BY <1>20 DEF relay, Read
  <2>2. Range(out') \subseteq Range(out)
    BY <1>20, ReadLine DEF relay
  <2>3. turn' = turn /\ steer' = steer /\ input' = input /\ shown' = shown
    BY <1>20 DEF relay, Read
  <2> QED BY <1>1, <2>1, <2>2, <2>3
<1>21. CASE acknowledge
  <2>1. turn' = turn /\ steer' = steer /\ cli' = cli
    BY <1>21 DEF acknowledge, Read
  <2>2. Head(out) \in Range(out) /\ Head(out).kind \in {"replay", "apply"} /\ Head(out).id \in Inputs
        /\ Range(out') \subseteq Range(out)
    BY <1>21, ReadLine DEF acknowledge, Lines
  <2>3. \A j \in Inputs : input'[j].applied => input[j].applied \/ j = Head(out).id
    BY <1>21, <1>2, <2>2 DEF acknowledge, Acknowledge, CloseDone, InputRows
  <2>4. \A j \in Inputs : "rejected" \in shown'[j] => "rejected" \in shown[j]
    BY <1>21, <1>2, <2>2 DEF acknowledge, Acknowledge
  <2> QED BY <2>1, <2>2, <2>3, <2>4 DEF Given, GivenOne
<1>22. CASE result
  <2>1. cli'.got = cli.got
    BY <1>22 DEF result, Result, Read
  <2>2. Range(out') \subseteq Range(out)
    BY <1>22, ReadLine DEF result
  <2>3. turn' = turn /\ steer' = steer /\ input' = input /\ shown' = shown
    BY <1>22 DEF result, Result, Read
  <2> QED BY <1>1, <2>1, <2>2, <2>3
<1>23. CASE backgroundTasks
  <2>1. cli'.got = cli.got
    BY <1>23 DEF backgroundTasks, Background, Result, Read
  <2>2. Range(out') \subseteq Range(out)
    BY <1>23, ReadLine DEF backgroundTasks
  <2>3. turn' = turn /\ steer' = steer /\ input' = input /\ shown' = shown
    BY <1>23 DEF backgroundTasks, Background, Result, Read
  <2> QED BY <1>1, <2>1, <2>2, <2>3
<1>24. CASE questionRequest
  <2>1. cli'.got = cli.got
    BY <1>24 DEF questionRequest, Progress, Show, Read
  <2>2. Range(out') \subseteq Range(out)
    BY <1>24, ReadLine DEF questionRequest
  <2>3. \A j \in Inputs : shown'[j] = shown[j] \/ shown'[j] \ shown[j] \subseteq {"asked", "answered", "cancelled"}
    BY <1>24, <1>2, ReadLine DEF questionRequest, Progress, Show, Lines
  <2>4. turn' = turn /\ steer' = steer /\ input' = input
    BY <1>24 DEF questionRequest, Progress, Show, Read
  <2> QED BY <1>1, <2>1, <2>2, <2>3, <2>4
<1>25. CASE cancelQuestion
  <2>1. cli'.got = cli.got
    BY <1>25 DEF cancelQuestion, Show, Read
  <2>2. Range(out') \subseteq Range(out)
    BY <1>25, ReadLine DEF cancelQuestion
  <2>3. \A j \in Inputs : shown'[j] = shown[j] \/ shown'[j] \ shown[j] \subseteq {"asked", "answered", "cancelled"}
    BY <1>25, <1>2, ReadLine DEF cancelQuestion, Show, Lines
  <2>4. turn' = turn /\ steer' = steer /\ input' = input
    BY <1>25 DEF cancelQuestion, Show, Read
  <2> QED BY <1>1, <2>1, <2>2, <2>3, <2>4
<1>26. CASE readControlRequest
  <2>1. cli'.got = cli.got
    BY <1>26 DEF readControlRequest, Read
  <2>2. Range(out') \subseteq Range(out)
    BY <1>26, ReadLine DEF readControlRequest
  <2>3. turn' = turn /\ steer' = steer /\ input' = input /\ shown' = shown
    BY <1>26 DEF readControlRequest, Read
  <2> QED BY <1>1, <2>1, <2>2, <2>3
<1>27. CASE controlResponse
  <2>1. cli'.got = cli.got
    BY <1>27, <1>2 DEF controlResponse, Kill, Processes
  <2>2. turn' = turn /\ steer' = steer /\ input' = input /\ shown' = shown /\ out' = out
    BY <1>27 DEF controlResponse, Kill
  <2> QED BY <1>1, <2>1, <2>2
<1>28. CASE readInvalid
  <2>1. cli'.got = cli.got
    BY <1>28, <1>2 DEF readInvalid, Kill, Processes
  <2>2. Range(out') \subseteq Range(out)
    BY <1>28, ReadLine DEF readInvalid
  <2>3. turn' = turn /\ steer' = steer /\ input' = input /\ shown' = shown
    BY <1>28 DEF readInvalid, Kill, Read
  <2> QED BY <1>1, <2>1, <2>2, <2>3
<1>29. CASE readEnd
  <2>1. cli'.got = cli.got
    BY <1>29 DEF readEnd
  <2>2. turn' = turn /\ steer' = steer /\ input' = input /\ shown' = shown /\ out' = out
    BY <1>29 DEF readEnd
  <2> QED BY <1>1, <2>1, <2>2
<1>30. CASE finish
  <2>1. turn' = "ended" /\ steer' = steer /\ out' = out /\ cli' = cli
    BY <1>30 DEF finish
  <2>2. \A j \in Inputs : input'[j].applied = input[j].applied
    BY <1>30, <1>2 DEF finish, InputRows
  <2>3. \A j \in Inputs : "rejected" \in shown'[j] => "rejected" \in shown[j]
    BY <1>30, <1>2 DEF finish
  <2> QED BY <1>1, <2>1, <2>2, <2>3
<1>31. CASE idleFires
  <2>1. cli'.got = cli.got
    BY <1>31, <1>2 DEF idleFires, Kill, Processes
  <2>2. turn' = turn /\ steer' = steer /\ input' = input /\ shown' = shown /\ out' = out
    BY <1>31 DEF idleFires, Kill
  <2> QED BY <1>1, <2>1, <2>2
<1>32. CASE cliAnswersInitialize
  <2>1. cli'.got = cli.got
    BY <1>32, <1>2 DEF cliAnswersInitialize, CliStep, Emit, Frame, Processes
  <2>2. PICK f \in Lines : Emit(f) /\ f.kind = "initialized"
    BY <1>32 DEF cliAnswersInitialize, CliStep, Frame, Lines
  <2>3. \A g \in Range(out') : g \in Range(out) \/ g.kind \notin {"replay", "apply"}
    BY <2>2, EmitLine
  <2>4. turn' = turn /\ steer' = steer /\ input' = input /\ shown' = shown
    BY <1>32 DEF cliAnswersInitialize, CliStep, Emit, Frame
  <2> QED BY <1>1, <2>1, <2>2, <2>3, <2>4
<1>33. CASE cliInit
  <2>1. cli'.got = cli.got
    BY <1>33, <1>2 DEF cliInit, CliStep, Emit, Frame, Processes
  <2>2. PICK f \in Lines : Emit(f) /\ f.kind = "init"
    BY <1>33 DEF cliInit, CliStep, Frame, Lines
  <2>3. \A g \in Range(out') : g \in Range(out) \/ g.kind \notin {"replay", "apply"}
    BY <2>2, EmitLine
  <2>4. turn' = turn /\ steer' = steer /\ input' = input /\ shown' = shown
    BY <1>33 DEF cliInit, CliStep, Emit, Frame
  <2> QED BY <1>1, <2>1, <2>2, <2>3, <2>4
<1>34. CASE cliProgress
  <2>1. cli'.got = cli.got
    BY <1>34 DEF cliProgress, CliStep, Emit, Frame, OnItsOwn
  <2>2. PICK f \in Lines : Emit(f) /\ f.kind \in {"progress", "event"}
    BY <1>34 DEF cliProgress, CliStep, Frame, Lines
  <2>3. \A g \in Range(out') : g \in Range(out) \/ g.kind \notin {"replay", "apply"}
    BY <2>2, EmitLine
  <2>4. turn' = turn /\ steer' = steer /\ input' = input /\ shown' = shown
    BY <1>34 DEF cliProgress, CliStep, Emit, Frame, OnItsOwn
  <2> QED BY <1>1, <2>1, <2>2, <2>3, <2>4
<1>35. CASE cliTool
  <2>1. cli'.got = cli.got
    BY <1>35 DEF cliTool, CliStep, Emit, Frame, OnItsOwn
  <2>2. PICK f \in Lines : Emit(f) /\ f.kind = "tool"
    BY <1>35 DEF cliTool, CliStep, Frame, OnItsOwn, Lines
  <2>3. \A g \in Range(out') : g \in Range(out) \/ g.kind \notin {"replay", "apply"}
    BY <2>2, EmitLine
  <2>4. turn' = turn /\ steer' = steer /\ input' = input /\ shown' = shown
    BY <1>35 DEF cliTool, CliStep, Emit, Frame, OnItsOwn
  <2> QED BY <1>1, <2>1, <2>2, <2>3, <2>4
<1>36. CASE cliBad
  <2>1. cli'.got = cli.got
    BY <1>36 DEF cliBad, Emit, Frame, Fault
  <2>2. PICK f \in Lines : Emit(f) /\ f.kind = "bad"
    BY <1>36 DEF cliBad, Frame, Fault, Lines
  <2>3. \A g \in Range(out') : g \in Range(out) \/ g.kind \notin {"replay", "apply"}
    BY <2>2, EmitLine
  <2>4. turn' = turn /\ steer' = steer /\ input' = input /\ shown' = shown
    BY <1>36 DEF cliBad, Emit, Frame, Fault
  <2> QED BY <1>1, <2>1, <2>2, <2>3, <2>4
<1>37. ASSUME NEW i \in Inputs, cliReplay(i) PROVE Given'
  <2>1. PICK f \in Lines : Emit(f) /\ f.kind = "replay" /\ f.id = i
    BY <1>37 DEF cliReplay, CliStep, Frame, Lines
  <2>2. Range(out') = Range(out) \cup {f}
    BY <2>1, EmitLine
  <2>3. cli'.got = cli.got /\ i \in cli.got
    BY <1>37, <1>2 DEF cliReplay, Processes
  <2>4. turn' = turn /\ steer' = steer /\ input' = input /\ shown' = shown
    BY <1>37 DEF cliReplay, CliStep
  <2> QED BY <2>1, <2>2, <2>3, <2>4 DEF Given, GivenOne
<1>38. ASSUME NEW i \in Inputs, cliApply(i) PROVE Given'
  <2>1. PICK f \in Lines : Emit(f) /\ f.kind = "apply" /\ f.id = i
    BY <1>38 DEF cliApply, CliStep, Frame, Lines
  <2>2. Range(out') = Range(out) \cup {f}
    BY <2>1, EmitLine
  <2>3. cli'.got = cli.got /\ i \in cli.got
    BY <1>38, <1>2 DEF cliApply, Processes
  <2>4. turn' = turn /\ steer' = steer /\ input' = input /\ shown' = shown
    BY <1>38 DEF cliApply, CliStep
  <2> QED BY <2>1, <2>2, <2>3, <2>4 DEF Given, GivenOne
<1>39. ASSUME NEW n \in 0..Cardinality(Inputs), cliResult(n) PROVE Given'
  <2>1. cli'.got = cli.got
    BY <1>39 DEF cliResult, CliStep, Emit, Frame, OnItsOwn
  <2>2. PICK f \in Lines : Emit(f) /\ f.kind = "result"
    BY <1>39 DEF cliResult, CliStep, Frame, OnItsOwn, Lines
  <2>3. \A g \in Range(out') : g \in Range(out) \/ g.kind \notin {"replay", "apply"}
    BY <2>2, EmitLine
  <2>4. turn' = turn /\ steer' = steer /\ input' = input /\ shown' = shown
    BY <1>39 DEF cliResult, CliStep, Emit, Frame, OnItsOwn
  <2> QED BY <1>1, <2>1, <2>2, <2>3, <2>4
<1>40. ASSUME NEW n \in 0..1, cliBackground(n) PROVE Given'
  <2>1. cli'.got = cli.got
    BY <1>40, <1>2 DEF cliBackground, CliStep, Emit, Frame, OnItsOwn, Processes
  <2>2. PICK f \in Lines : Emit(f) /\ f.kind = "background"
    BY <1>40 DEF cliBackground, CliStep, Frame, OnItsOwn, Lines
  <2>3. \A g \in Range(out') : g \in Range(out) \/ g.kind \notin {"replay", "apply"}
    BY <2>2, EmitLine
  <2>4. turn' = turn /\ steer' = steer /\ input' = input /\ shown' = shown
    BY <1>40 DEF cliBackground, CliStep, Emit, Frame, OnItsOwn
  <2> QED BY <1>1, <2>1, <2>2, <2>3, <2>4
<1>41. ASSUME NEW q \in Questions, cliAsk(q) PROVE Given'
  <2>1. cli'.got = cli.got
    BY <1>41, <1>2 DEF cliAsk, CliStep, Emit, Frame, OnItsOwn, Processes
  <2>2. PICK f \in Lines : Emit(f) /\ f.kind = "ask"
    BY <1>41 DEF cliAsk, CliStep, Frame, OnItsOwn, Lines
  <2>3. \A g \in Range(out') : g \in Range(out) \/ g.kind \notin {"replay", "apply"}
    BY <2>2, EmitLine
  <2>4. turn' = turn /\ steer' = steer /\ input' = input /\ shown' = shown
    BY <1>41 DEF cliAsk, CliStep, Emit, Frame, OnItsOwn
  <2> QED BY <1>1, <2>1, <2>2, <2>3, <2>4
<1>42. ASSUME NEW q \in Questions, cliCancel(q) PROVE Given'
  <2>1. cli'.got = cli.got
    BY <1>42, <1>2 DEF cliCancel, CliStep, Emit, Frame, OnItsOwn, Processes
  <2>2. PICK f \in Lines : Emit(f) /\ f.kind = "cancel"
    BY <1>42 DEF cliCancel, CliStep, Frame, OnItsOwn, Lines
  <2>3. \A g \in Range(out') : g \in Range(out) \/ g.kind \notin {"replay", "apply"}
    BY <2>2, EmitLine
  <2>4. turn' = turn /\ steer' = steer /\ input' = input /\ shown' = shown
    BY <1>42 DEF cliCancel, CliStep, Emit, Frame, OnItsOwn
  <2> QED BY <1>1, <2>1, <2>2, <2>3, <2>4
<1>43. CASE cliExits
  <2>1. cli'.got = cli.got
    BY <1>43, <1>2 DEF cliExits, Fault, Processes
  <2>2. turn' = turn /\ steer' = steer /\ input' = input /\ shown' = shown /\ out' = out
    BY <1>43 DEF cliExits, Fault
  <2> QED BY <1>1, <2>1, <2>2
<1>44. CASE Crash
  <2>1. turn' = "ended" /\ UNCHANGED <<cli, input, shown, out>>
    BY <1>44 DEF Crash
  <2>2. \A j \in Inputs : steer'[j] = IF steer[j] \in {"found", "writing", "waiting"} THEN "queued" ELSE steer[j]
    BY <1>44 DEF Crash
  <2> QED BY <2>1, <2>2 DEF Given, GivenOne
<1>45. CASE UNCHANGED vars
  <2>1. cli'.got = cli.got
    BY <1>45 DEF vars
  <2>2. turn' = turn /\ steer' = steer /\ input' = input /\ shown' = shown /\ out' = out
    BY <1>45 DEF vars
  <2> QED BY <1>1, <2>1, <2>2
<1> QED BY <1>3, <1>4, <1>5, <1>6, <1>7, <1>8, <1>9, <1>10, <1>11, <1>12, <1>13, <1>14,
           <1>15, <1>16, <1>17, <1>18, <1>19, <1>20, <1>21, <1>22, <1>23, <1>24, <1>25, <1>26,
           <1>27, <1>28, <1>29, <1>30, <1>31, <1>32, <1>33, <1>34, <1>35, <1>36, <1>37, <1>38,
           <1>39, <1>40, <1>41, <1>42, <1>43, <1>44, <1>45
        DEF Next, Writing, Answering, Reading, Cli

-----------------------------------------------------------------------------
\* Nothing was queued, asked or written yet.
LEMMA InitInv == ASSUME Init PROVE ClaudeInv
<1>1. Cardinality(Inputs) \in Nat /\ MaxOut \in Nat
  BY ClaudeAssumption, FS_CardinalityType
<1>2. out = <<>> /\ Range(out) = {} /\ out \in Seq(Lines) /\ Len(out) <= MaxOut
  BY <1>1 DEF Init, Range
<1>3. live \in Lives /\ cli \in Processes
  BY <1>1 DEF Init, Lives, Processes
<1>4. /\ input \in [Inputs -> InputRows] /\ question \in [Questions -> QuestionRows]
      /\ shown \in [Inputs \cup Questions -> SUBSET Events]
  BY DEF Init, InputRows, QuestionRows
<1>5. /\ \A i \in Inputs : mutex = i <=> steer[i] = "writing"
      /\ \A q \in Questions : mutex = q <=> answer[q] = "writing"
  BY ClaudeAssumption DEF Init
<1>6. ClaudeTypeOK
  BY <1>2, <1>3, <1>4, <1>5 DEF Init, ClaudeTypeOK
<1>7. DoneIsReceived /\ DoneClosedOnce /\ OnlyWritesReachCli /\ RejectedWasNotSent
  BY <1>2 DEF Init, DoneIsReceived, DoneClosedOnce, OnlyWritesReachCli, RejectedWasNotSent
<1>8. ClosedOnlyWhenApplied /\ (live.closed => turn # "starting")
  BY DEF Init, ClosedOnlyWhenApplied
<1> QED BY <1>6, <1>7, <1>8 DEF ClaudeInv

\* Every step preserves the conjunction.
LEMMA InvStep == ASSUME ClaudeInv, [Next]_vars PROVE ClaudeInv'
<1>1. ClaudeTypeOK /\ DoneIsReceived /\ DoneClosedOnce /\ Given /\ Cut
  BY DEF ClaudeInv, Given, GivenOne, Cut, OnlyWritesReachCli, RejectedWasNotSent
<1>2. ClaudeTypeOK' /\ DoneIsReceived' /\ DoneClosedOnce' /\ Given' /\ Cut'
  BY <1>1, TypeStep, ChannelStep, GivenStep, CloseStep
<1> QED BY <1>2 DEF ClaudeInv, Given, GivenOne, Cut, OnlyWritesReachCli, RejectedWasNotSent

\* Every reachable state satisfies the conjunction: who may have given an
\* instruction to the CLI, who closed its channel, and when the input is closed.
THEOREM ClaudeInvariant == Spec => []ClaudeInv
<1>1. Init => ClaudeInv
  BY InitInv
<1>2. ClaudeInv /\ [Next]_vars => ClaudeInv'
  BY InvStep
<1> QED BY <1>1, <1>2, PTL DEF Spec

\* Every variable keeps the shape of the code's, and writeMu has one holder.
THEOREM ClaudeTypeCorrect == Spec => []ClaudeTypeOK
<1>1. ClaudeInv => ClaudeTypeOK
  BY DEF ClaudeInv
<1> QED BY <1>1, ClaudeInvariant, PTL

\* An instruction that is shown as not sent was never given to the CLI, whatever
\* restart or end of the turn it met.
THEOREM RejectedIsSafeToRepeat == Spec => []RejectedWasNotSent
<1>1. ClaudeInv => RejectedWasNotSent
  BY DEF ClaudeInv
<1> QED BY <1>1, ClaudeInvariant, PTL

\* While the process goes on, its input is closed only when every instruction that
\* was taken has been applied.
THEOREM InputClosedOnlyWhenApplied == Spec => []ClosedOnlyWhenApplied
<1>1. ClaudeInv => ClosedOnlyWhenApplied
  BY DEF ClaudeInv
<1> QED BY <1>1, ClaudeInvariant, PTL

\* No channel of an instruction is closed twice.
THEOREM ChannelClosedOnce == Spec => []DoneClosedOnce
<1>1. ClaudeInv => DoneClosedOnce
  BY DEF ClaudeInv
<1> QED BY <1>1, ClaudeInvariant, PTL
=============================================================================
