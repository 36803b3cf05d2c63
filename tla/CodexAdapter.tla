---------------------------- MODULE CodexAdapter ----------------------------
(***************************************************************************)
(* One Codex session of the Agent: the Adapter that starts, interrupts and *)
(* follows the turns of one conversation (internal/codexadapter), and the  *)
(* pool that reclaims it when idle (Sessions).                             *)
(*                                                                         *)
(* Three kinds of goroutine share the adapter's turn state under its       *)
(* mutex: one per turn command (startTurn, rewriteTurn), one per           *)
(* interruption, and the readLoop that handles what the app-server writes. *)
(* The app-server is external.  Its output is a pipe that only readLoop    *)
(* reads, so writing a message and handling it are one step here; what is  *)
(* not one step is handling a response and the return of the call that     *)
(* waits for it.                                                           *)
(***************************************************************************)
EXTENDS Naturals, Sequences

CONSTANTS
    Turns,        \* codex.turn.start and codex.turn.rewrite commands; each is one turn
    Rewrites,     \* the rewrites among them
    UserStops,    \* codex.turn.interrupt commands a user asked for
    NoTurn,       \* no turn id
    Faults,       \* the kinds of fault the environment may inject
    MaxFaults,    \* bound on the number of injected faults
    MaxReports    \* bound on the reports queued or in transit

\* Interruption commands: the users' own, and for each turn the one the gateway
\* queues when the turn turns out to be cancelled ("codex-cancel:<operation>").
Stops == UserStops \cup Turns

ASSUME AdapterAssumption ==
    /\ Rewrites \subseteq Turns
    /\ UserStops \cap Turns = {}
    /\ NoTurn \notin Turns
    /\ MaxFaults \in Nat
    /\ MaxReports \in Nat \ {0, 1}

VARIABLES
    process,    \* whether the app-server runs (a.process)
    state,      \* a.turns[thread]: codex thread known, turn id, active
    call,       \* where the goroutine of a turn command is, or its result
    stop,       \* the interruption a goroutine is executing
    codex,      \* external: what the app-server does with a turn
    reports,    \* events and results queued for the control plane
    abandoned,  \* history: a turn/start was given up on without its answer
    faults      \* faults injected so far

adapterVars == <<process, state, call, stop, codex, reports, abandoned, faults>>

NoState == [known |-> FALSE, active |-> FALSE, turn |-> NoTurn]
NoStop == [turn |-> NoTurn, bestEffort |-> FALSE, busy |-> FALSE]
StopCommand(t, best) == [turn |-> t, bestEffort |-> best, busy |-> TRUE]

Event(kind, o) == [kind |-> kind, op |-> o, result |-> "none"]
Ended(o, status) == [kind |-> "codex.turn.completed", op |-> o, result |-> status]
Result(o, r) == [kind |-> "operation_result", op |-> o, result |-> r]
\* The operation_result of an interruption, told apart by the operation's kind.
StopResult(s, r) == [kind |-> "stop_result", op |-> s, result |-> r]

\* turn.status in a turn/completed notification.
TurnStatus == {"completed", "failed", "interrupted"}

Message ==
    [kind : {"operation_started", "turn.accepted", "codex.turn.started"}, op : Turns, result : {"none"}]
      \cup [kind : {"codex.turn.failed"}, op : Turns \cup {NoTurn}, result : {"none"}]
      \cup [kind : {"codex.turn.completed"}, op : Turns, result : TurnStatus]
      \cup [kind : {"operation_result"}, op : Turns, result : {"succeeded", "failed"}]
      \cup [kind : {"stop_result"}, op : Stops, result : {"succeeded", "failed", "inactive"}]

\* A turn the app-server is executing.
Live(o) == codex[o] \in {"accepted", "running", "aborting"}

\* Goroutines of turn commands that have not returned.
Calling(o) == call[o] \in {"begun", "requested", "answered", "refused"}

AdapterInit ==
    /\ process = FALSE
    /\ state = NoState
    /\ call = [o \in Turns |-> "none"]
    /\ stop = [s \in Stops |-> NoStop]
    /\ codex = [o \in Turns |-> "none"]
    /\ reports = <<>>
    /\ abandoned = FALSE
    /\ faults = 0

Fault(kind) == kind \in Faults /\ faults < MaxFaults /\ faults' = faults + 1

Emit(ms) == /\ Len(reports) + Len(ms) <= MaxReports
            /\ reports' = reports \o ms

-----------------------------------------------------------------------------
(***************************************************************************)
(* The goroutine of a turn command.                                        *)
(***************************************************************************)

\* The call returns, after it has queued the messages more; handleOperation
\* keeps and queues its result.
EndCall(o, r, more) ==
    /\ call' = [call EXCEPT ![o] = r]
    /\ Emit(Append(more, Result(o, r)))

\* StartTurn and RewriteTurn: the process is started when there is none, and a
\* start (not a rewrite) returns at once when a turn is active.
StartTurn(o) ==
    /\ call[o] = "none"
    /\ process' = TRUE
    /\ IF o \notin Rewrites /\ state.active
         THEN EndCall(o, "failed", <<Event("operation_started", o)>>)
         ELSE /\ Emit(<<Event("operation_started", o)>>)
              /\ call' = [call EXCEPT ![o] = "begun"]
    /\ UNCHANGED <<state, stop, codex, abandoned, faults>>

\* thread/start, thread/resume, thread/fork or thread/rollback failed, or the
\* process could not be started.
PrepareFails(o) ==
    /\ call[o] = "begun"
    /\ EndCall(o, "failed", <<>>)
    /\ UNCHANGED <<process, state, stop, codex, abandoned, faults>>

\* Mutant: the second look at the turn state is left out.
VacantMutant == TRUE

\* The check startPreparedTurn makes under the mutex, before it marks the
\* session active: the first check is an RPC ago.
Vacant == ~state.active

\* startPreparedTurn, up to the turn/start request.
StartPreparedTurn(o) ==
    /\ call[o] = "begun"
    /\ \/ /\ Vacant
          /\ state' = [known |-> TRUE, active |-> TRUE, turn |-> NoTurn]
          /\ call' = [call EXCEPT ![o] = IF process THEN "requested" ELSE "refused"]
          /\ UNCHANGED reports
       \/ /\ ~Vacant
          /\ EndCall(o, "failed", <<>>)
          /\ UNCHANGED state
    /\ UNCHANGED <<process, stop, codex, abandoned, faults>>

\* handleResponse for turn/start: the app-server takes the turn or refuses it.
HandleResponse(o) ==
    /\ call[o] = "requested"
    /\ \/ /\ codex' = [codex EXCEPT ![o] = "accepted"]
          /\ call' = [call EXCEPT ![o] = "answered"]
       \/ /\ call' = [call EXCEPT ![o] = "refused"]
          /\ UNCHANGED codex
    /\ UNCHANGED <<process, state, stop, reports, abandoned, faults>>

\* The operation's deadline passes before the answer; the app-server may still
\* take the turn.
RequestTimeout(o) ==
    /\ call[o] = "requested"
    /\ Fault("timeout")
    /\ call' = [call EXCEPT ![o] = "refused"]
    /\ codex' = codex \/ codex' = [codex EXCEPT ![o] = "accepted"]
    /\ abandoned' = TRUE
    /\ UNCHANGED <<process, state, stop, reports>>

\* startPreparedTurn after a good response.  By then readLoop may have handled
\* the turn's notifications, its end included.
TurnAccepted(o) ==
    /\ call[o] = "answered"
    /\ state' = [known |-> TRUE, active |-> TRUE, turn |-> o]
    /\ EndCall(o, "succeeded", <<Event("turn.accepted", o)>>)
    /\ UNCHANGED <<process, stop, codex, abandoned, faults>>

\* startPreparedTurn after an error: it clears whatever turn is active now.
TurnRefused(o) ==
    /\ call[o] = "refused"
    /\ state' = [state EXCEPT !.active = FALSE]
    /\ EndCall(o, "failed", <<>>)
    /\ UNCHANGED <<process, stop, codex, abandoned, faults>>

-----------------------------------------------------------------------------
(***************************************************************************)
(* readLoop: handleNotification.                                           *)
(***************************************************************************)

NotifyStarted(o) ==
    /\ codex[o] = "accepted"
    /\ codex' = [codex EXCEPT ![o] = "running"]
    /\ state' = [known |-> TRUE, active |-> TRUE, turn |-> o]
    /\ Emit(<<Event("codex.turn.started", o)>>)
    /\ UNCHANGED <<process, call, stop, abandoned, faults>>

\* The end of another turn than the one the adapter knows is ignored.
NotifyEnded(o, status) ==
    /\ codex[o] \in {"running", "aborting"}
    /\ status = "interrupted" <=> codex[o] = "aborting"
    /\ codex' = [codex EXCEPT ![o] = "over"]
    /\ IF state.turn \in {NoTurn, o}
         THEN state' = [state EXCEPT !.active = FALSE] /\ Emit(<<Ended(o, status)>>)
         ELSE UNCHANGED <<state, reports>>
    /\ UNCHANGED <<process, call, stop, abandoned, faults>>

-----------------------------------------------------------------------------
(***************************************************************************)
(* interrupt.  The goroutine polls the turn state every 50 ms for ten      *)
(* seconds.                                                                *)
(***************************************************************************)

Interrupt(s, t, best) ==
    /\ ~stop[s].busy
    /\ process' = TRUE
    /\ stop' = [stop EXCEPT ![s] = StopCommand(t, best)]
    /\ UNCHANGED <<state, call, codex, reports, abandoned, faults>>

\* The command names no turn and the session has none.
Inactive(s) == stop[s].turn = NoTurn /\ state.known /\ ~state.active

\* The turn to interrupt: the one the command captured, or the active one.
Target(s) == IF stop[s].turn /= NoTurn THEN stop[s].turn
             ELSE IF state.active THEN state.turn ELSE NoTurn

EndStop(s, r) ==
    /\ stop' = [stop EXCEPT ![s] = NoStop]
    /\ Emit(<<StopResult(s, r)>>)

\* A best-effort interruption is content with finding nothing to interrupt.
Nothing(s) == IF stop[s].bestEffort /\ stop[s].turn = NoTurn THEN "succeeded" ELSE "inactive"

\* turn/interrupt is sent; the app-server stops that turn or says that it has
\* no such active turn.
InterruptTurn(s) ==
    /\ stop[s].busy
    /\ ~Inactive(s) /\ Target(s) /= NoTurn
    /\ IF ~process THEN EndStop(s, "failed") /\ UNCHANGED codex
       ELSE IF Live(Target(s))
         THEN EndStop(s, "succeeded") /\ codex' = [codex EXCEPT ![Target(s)] = "aborting"]
         ELSE EndStop(s, Nothing(s)) /\ UNCHANGED codex
    /\ UNCHANGED <<process, state, call, abandoned, faults>>

\* Nothing is active, and no turn command is at work that would change it in
\* ten seconds.
InterruptNothing(s) ==
    /\ stop[s].busy
    /\ Inactive(s) \/ (Target(s) = NoTurn /\ \A o \in Turns : ~Calling(o))
    /\ EndStop(s, Nothing(s))
    /\ UNCHANGED <<process, state, call, codex, abandoned, faults>>

\* The ten seconds pass while a turn command is still at work.
InterruptExpires(s) ==
    /\ stop[s].busy
    /\ ~Inactive(s) /\ Target(s) = NoTurn
    /\ \E o \in Turns : Calling(o)
    /\ Fault("wait")
    /\ EndStop(s, Nothing(s))
    /\ UNCHANGED <<process, state, call, codex, abandoned>>

\* The process cannot be started, or turn/interrupt fails in some other way.
InterruptFails(s) ==
    /\ stop[s].busy
    /\ Fault("rpc")
    /\ EndStop(s, "failed")
    /\ UNCHANGED <<process, state, call, codex, abandoned>>

-----------------------------------------------------------------------------
(***************************************************************************)
(* The process goes away.                                                  *)
(***************************************************************************)

\* resetProcess: the state is dropped, every waiting request fails, and the
\* turn the adapter believes active is reported failed.
Reset ==
    /\ process' = FALSE
    /\ state' = NoState
    /\ call' = [o \in Turns |-> IF call[o] = "requested" THEN "refused" ELSE call[o]]
    /\ codex' = [o \in Turns |-> IF Live(o) THEN "over" ELSE codex[o]]
    /\ Emit(IF state.active THEN <<Event("codex.turn.failed", state.turn)>> ELSE <<>>)

\* The app-server exits or its output cannot be read.
Exit ==
    /\ process
    /\ Fault("exit")
    /\ Reset
    /\ abandoned' = (abandoned \/ \E o \in Turns : call[o] \in {"requested", "refused"})
    /\ UNCHANGED stop

\* Mutant: an active turn does not keep the session.
IdleMutant == (\A o \in Turns : ~Calling(o)) /\ \A s \in Stops : ~stop[s].busy

\* No command holds the session (users = 0, lifecycle lock) and no turn is
\* active (hasActiveTurn).
Idle == /\ \A o \in Turns : ~Calling(o)
        /\ \A s \in Stops : ~stop[s].busy
        /\ ~state.active

\* reapIdle, five minutes after the last use.
ReapIdle ==
    /\ process
    /\ Idle
    /\ Reset
    /\ UNCHANGED <<stop, abandoned, faults>>

\* reconfigure: new credentials or a new CLI close every session, unless one
\* has an active turn.
Reconfigure ==
    /\ process
    /\ Idle
    /\ Reset
    /\ UNCHANGED <<stop, abandoned, faults>>

\* What the adapter and the app-server do by themselves, commands aside.
AdapterStep ==
    \/ \E o \in Turns : \/ PrepareFails(o) \/ StartPreparedTurn(o) \/ HandleResponse(o)
                        \/ RequestTimeout(o) \/ TurnAccepted(o) \/ TurnRefused(o)
                        \/ NotifyStarted(o)
                        \/ \E st \in TurnStatus : NotifyEnded(o, st)
    \/ \E s \in Stops : \/ InterruptTurn(s) \/ InterruptNothing(s)
                        \/ InterruptExpires(s) \/ InterruptFails(s)
    \/ Exit \/ ReapIdle \/ Reconfigure

-----------------------------------------------------------------------------
(***************************************************************************)
(* The adapter on its own: any command may arrive at any time.             *)
(***************************************************************************)

\* The link takes what is queued.
SendReports ==
    /\ reports /= <<>>
    /\ reports' = <<>>
    /\ UNCHANGED <<process, state, call, stop, codex, abandoned, faults>>

AdapterNext ==
    \/ \E o \in Turns : StartTurn(o)
    \/ \E s \in UserStops : \/ \E t \in Turns \cup {NoTurn} : Interrupt(s, t, FALSE)
                            \/ Interrupt(s, NoTurn, TRUE)
    \/ AdapterStep
    \/ SendReports

AdapterSpec == AdapterInit /\ [][AdapterNext]_adapterVars

-----------------------------------------------------------------------------
(***************************************************************************)
(* Properties.                                                             *)
(***************************************************************************)

\* Every variable has its type.
AdapterTypeOK ==
    /\ process \in BOOLEAN
    /\ state \in [known : BOOLEAN, active : BOOLEAN, turn : Turns \cup {NoTurn}]
    /\ call \in [Turns -> {"none", "begun", "requested", "answered", "refused", "succeeded", "failed"}]
    /\ stop \in [Stops -> [turn : Turns \cup {NoTurn}, bestEffort : BOOLEAN, busy : BOOLEAN]]
    /\ codex \in [Turns -> {"none", "accepted", "running", "aborting", "over"}]
    /\ reports \in Seq(Message)
    /\ abandoned \in BOOLEAN
    /\ faults \in Nat

\* Codex runs at most one turn of a session at a time (README.md:255), however
\* start commands, rewrites, notifications and process exits interleave, as
\* long as no turn/start request was abandoned without its answer.
OneTurnAtATime == ~abandoned => \A a, b \in Turns : Live(a) /\ Live(b) => a = b

\* The idle reaper and a reconfiguration never end a turn that is running
\* (README.md:255: an update must wait until every active session has ended).
ReclaimsOnlyIdle ==
    [][(ReapIdle \/ Reconfigure) /\ ~abandoned => \A o \in Turns : ~Live(o)]_adapterVars

\* What adapter_test.go:609-617 and README.md:255 say, that a session is
\* active only until its turn completes, and then idle and reclaimable.
\* It does not hold: a turn that ends before startPreparedTurn has resumed
\* leaves it active (README.md, Findings).
ActiveOnlyWhileBusy ==
    state.active => \E o \in Turns : Live(o) \/ Calling(o)

-----------------------------------------------------------------------------
(***************************************************************************)
(* The inductive invariant behind OneTurnAtATime and ReclaimsOnlyIdle.     *)
(***************************************************************************)

\* A turn that holds the session: it runs, or its turn/start is unanswered or
\* was refused and the session is not cleared yet.
Holds(o) == Live(o) \/ call[o] \in {"requested", "refused"}

HeldByOne ==
    ~abandoned =>
        /\ \A a, b \in Turns : Holds(a) /\ Holds(b) => a = b
        /\ (\E o \in Turns : Holds(o)) => state.active
        /\ \A o \in Turns : Live(o) => call[o] \in {"answered", "succeeded"}

AdapterIInv == AdapterTypeOK /\ HeldByOne
=============================================================================
