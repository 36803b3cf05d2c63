------------------------------ MODULE Realtime ------------------------------
(***************************************************************************)
(* How a browser learns that data has changed: the hub that fans events    *)
(* out (internal/realtime), the WebSocket handler that forwards them       *)
(* (internal/httpapi), and the page that takes every event as a hint to    *)
(* read again (web/src/App.tsx, web/src/useData.ts).                       *)
(*                                                                         *)
(* A version stands for the data of a scope, and an event is a hint about  *)
(* its scope.  A page has one hook, which reads the scope in view.  A      *)
(* connection is named by its browser and its attempt: the hub never gives *)
(* an identifier twice.  Timers (100 ms before a refresh, 2.5 s before a   *)
(* reconnection, 30 s between pings) fire at any time.                     *)
(***************************************************************************)
EXTENDS Naturals, Sequences, FiniteSets

CONSTANTS
    Publishers,      \* goroutines that change data and publish an event
    Browsers,
    Scopes,          \* what an event may be about: RealtimeScope
    Capacity,        \* buffer of a subscription: 256 in the code
    MaxConns,        \* bound on the connections of one browser
    MaxChanges,      \* bound on the changes of a scope
    Faults,          \* the kinds of fault the environment may inject
    MaxFaults,       \* bound on the number of injected faults
    PromptSubscribe  \* the handler subscribes before the page it let in reads

FaultKinds == {"break", "fetch"}

Conn == Browsers \X (1 .. MaxConns)

ASSUME RealtimeAssumption ==
    /\ IsFiniteSet(Scopes) /\ "idle" \notin Scopes /\ "stalled" \notin Scopes
    /\ Capacity \in Nat \ {0}
    /\ MaxConns \in Nat \ {0}
    /\ MaxChanges \in Nat
    /\ MaxFaults \in Nat
    /\ Faults \subseteq FaultKinds
    /\ PromptSubscribe \in BOOLEAN

\* A connection ends by a fault or by a full queue, and a queue fills after
\* Capacity hints: MaxConns is never what keeps a browser disconnected.
ASSUME ConnectionsSuffice ==
    MaxFaults * (Capacity + 1) + MaxChanges * Cardinality(Scopes) < MaxConns * (Capacity + 1)

VARIABLES
    data,       \* the version of each scope in the database
    publisher,  \* the scope whose change is to be published; idle; stalled: has some to close
    stalled,    \* the subscriptions a Publish found full
    clients,    \* Hub.clients
    events,     \* hints buffered in the channel of a subscription
    closes,     \* how often a channel was closed
    handler,    \* the websocket handler: none, upgraded, subscribed, done
    link,       \* the connection: up, closed by the server, or lost
    wire,       \* hints written to the connection and not yet received
    attempt,    \* the attempt a browser's socket is at
    socket,     \* the browser's socket: waiting, connecting, open
    dirty,      \* pendingRealtimeScopes; refreshTimer is set unless it is empty
    view,       \* the scope the page reads
    fetch,      \* the request of useData: none, sent, answered
    answer,     \* the version the answered request has read
    pending,    \* browsers whose useData has a refresh pending after its request
    shown,      \* the version on the page; 0 before the first response
    failed,     \* browsers whose page shows that the last request failed
    faults      \* faults injected so far

hubVars == <<clients, events, closes>>
connVars == <<handler, link, wire>>
pageVars == <<view, fetch, answer, pending, shown, failed>>
realtimeVars == <<data, publisher, stalled, clients, events, closes, handler, link, wire,
          attempt, socket, dirty, view, fetch, answer, pending, shown, failed, faults>>

Socket(b) == <<b, attempt[b]>>

RealtimeInit ==
    /\ data = [s \in Scopes |-> 1]
    /\ publisher = [p \in Publishers |-> "idle"]
    /\ stalled = [p \in Publishers |-> {}]
    /\ clients = {}
    /\ events = [c \in Conn |-> <<>>]
    /\ closes = [c \in Conn |-> 0]
    /\ handler = [c \in Conn |-> "none"]
    /\ link = [c \in Conn |-> "up"]
    /\ wire = [c \in Conn |-> <<>>]
    /\ attempt = [b \in Browsers |-> 1]
    /\ socket = [b \in Browsers |-> "connecting"]
    /\ dirty = [b \in Browsers |-> {}]
    /\ view \in [Browsers -> Scopes]
    /\ fetch = [b \in Browsers |-> "sent"]
    /\ answer = [b \in Browsers |-> 0]
    /\ pending = {}
    /\ shown = [b \in Browsers |-> 0]
    /\ failed = {}
    /\ faults = 0

Fault(kind) == kind \in Faults /\ faults < MaxFaults /\ faults' = faults + 1

-----------------------------------------------------------------------------
(***************************************************************************)
(* The hub.  Publish sends under the read lock and closes under the write  *)
(* lock, which it takes afterwards: the two halves are two steps.          *)
(***************************************************************************)

\* A handler of the API or the gateway commits a change, then publishes it.
Change(p, s) ==
    /\ publisher[p] = "idle"
    /\ data[s] < MaxChanges + 1
    /\ data' = [data EXCEPT ![s] = @ + 1]
    /\ publisher' = [publisher EXCEPT ![p] = s]
    /\ UNCHANGED <<stalled, hubVars, connVars, attempt, socket, dirty, pageVars, faults>>

Full == {c \in clients : Len(events[c]) = Capacity}

\* Mutant: an event that finds a full queue is dropped.
DropWhenFull(p) ==
    /\ publisher[p] \in Scopes
    /\ events' = [c \in Conn |-> IF c \in clients \ Full THEN Append(events[c], publisher[p]) ELSE events[c]]
    /\ publisher' = [publisher EXCEPT ![p] = "idle"]
    /\ UNCHANGED <<data, stalled, clients, closes, connVars, attempt, socket, dirty, pageVars, faults>>

\* Publish, the first half: a full queue takes no event.
Publish(p) ==
    /\ publisher[p] \in Scopes
    /\ events' = [c \in Conn |-> IF c \in clients \ Full THEN Append(events[c], publisher[p]) ELSE events[c]]
    /\ stalled' = [stalled EXCEPT ![p] = Full]
    /\ publisher' = [publisher EXCEPT ![p] = IF Full = {} THEN "idle" ELSE "stalled"]
    /\ UNCHANGED <<data, clients, closes, connVars, attempt, socket, dirty, pageVars, faults>>

\* delete and close, under the write lock.
Remove(S) ==
    /\ clients' = clients \ S
    /\ closes' = [c \in Conn |-> IF c \in S THEN closes[c] + 1 ELSE closes[c]]

\* Mutant: the second half does not look whether the subscription is still there.
CloseAgain(p) ==
    /\ publisher[p] = "stalled"
    /\ Remove(stalled[p])
    /\ publisher' = [publisher EXCEPT ![p] = "idle"]
    /\ stalled' = [stalled EXCEPT ![p] = {}]
    /\ UNCHANGED <<data, events, connVars, attempt, socket, dirty, pageVars, faults>>

\* Publish, the second half: the slow subscribers that are still there go.
CloseStalled(p) ==
    /\ publisher[p] = "stalled"
    /\ Remove(stalled[p] \cap clients)
    /\ publisher' = [publisher EXCEPT ![p] = "idle"]
    /\ stalled' = [stalled EXCEPT ![p] = {}]
    /\ UNCHANGED <<data, events, connVars, attempt, socket, dirty, pageVars, faults>>

-----------------------------------------------------------------------------
(***************************************************************************)
(* The websocket handler of a connection.                                  *)
(***************************************************************************)

\* Upgrade answers the browser before the handler has subscribed.
Upgrade(b) ==
    /\ socket[b] = "connecting"
    /\ handler[Socket(b)] = "none" /\ link[Socket(b)] = "up"
    /\ handler' = [handler EXCEPT ![Socket(b)] = "upgraded"]
    /\ UNCHANGED <<data, publisher, stalled, hubVars, link, wire>>
    /\ UNCHANGED <<attempt, socket, dirty, pageVars, faults>>

Subscribe(c) ==
    /\ handler[c] = "upgraded"
    /\ clients' = clients \cup {c}
    /\ handler' = [handler EXCEPT ![c] = "subscribed"]
    /\ UNCHANGED <<data, publisher, stalled, events, closes, link, wire>>
    /\ UNCHANGED <<attempt, socket, dirty, pageVars, faults>>

\* An event of the channel, which stays readable when closed, goes out.
Forward(c) ==
    /\ handler[c] = "subscribed"
    /\ events[c] # <<>>
    /\ link[c] = "up"
    /\ events' = [events EXCEPT ![c] = Tail(@)]
    /\ wire' = [wire EXCEPT ![c] = Append(@, Head(events[c]))]
    /\ UNCHANGED <<data, publisher, stalled, clients, closes, handler, link>>
    /\ UNCHANGED <<attempt, socket, dirty, pageVars, faults>>

Drained(c) == c \notin clients /\ events[c] = <<>>

\* The handler returns at the end of the channel, or when a write or a ping
\* fails; on its way out it unsubscribes and closes the connection.
Return(c) ==
    /\ handler[c] = "subscribed"
    /\ Drained(c) \/ link[c] # "up"
    /\ Remove({c} \cap clients)
    /\ handler' = [handler EXCEPT ![c] = "done"]
    /\ link' = [link EXCEPT ![c] = IF @ = "up" THEN "closed" ELSE @]
    /\ UNCHANGED <<data, publisher, stalled, events, wire>>
    /\ UNCHANGED <<attempt, socket, dirty, pageVars, faults>>

\* The connection breaks, with all that is on its way.
Break(b) ==
    /\ Fault("break")
    /\ socket[b] # "waiting"
    /\ link[Socket(b)] = "up"
    /\ link' = [link EXCEPT ![Socket(b)] = "lost"]
    /\ wire' = [wire EXCEPT ![Socket(b)] = <<>>]
    /\ UNCHANGED <<data, publisher, stalled, hubVars, handler>>
    /\ UNCHANGED <<attempt, socket, dirty, pageVars>>

-----------------------------------------------------------------------------
(***************************************************************************)
(* The page: the socket of App.tsx, and a hook that reads data.            *)
(***************************************************************************)

OnOpen(b) ==
    /\ socket[b] = "connecting"
    /\ handler[Socket(b)] # "none" /\ link[Socket(b)] # "lost"
    /\ socket' = [socket EXCEPT ![b] = "open"]
    /\ dirty' = [dirty EXCEPT ![b] = Scopes]
    /\ UNCHANGED <<data, publisher, stalled, hubVars, connVars, attempt, pageVars, faults>>

OnMessage(b) ==
    /\ socket[b] = "open"
    /\ wire[Socket(b)] # <<>>
    /\ wire' = [wire EXCEPT ![Socket(b)] = Tail(@)]
    /\ dirty' = [dirty EXCEPT ![b] = @ \cup {Head(wire[Socket(b)])}]
    /\ UNCHANGED <<data, publisher, stalled, hubVars, handler, link>>
    /\ UNCHANGED <<attempt, socket, pageVars, faults>>

OnClose(b) ==
    /\ socket[b] # "waiting"
    /\ \/ link[Socket(b)] = "lost"
       \/ socket[b] = "open" /\ link[Socket(b)] = "closed" /\ wire[Socket(b)] = <<>>
    /\ socket' = [socket EXCEPT ![b] = "waiting"]
    /\ UNCHANGED <<data, publisher, stalled, hubVars, connVars, attempt, dirty, pageVars, faults>>

Connect(b) ==
    /\ socket[b] = "waiting"
    /\ attempt[b] < MaxConns
    /\ attempt' = [attempt EXCEPT ![b] = @ + 1]
    /\ socket' = [socket EXCEPT ![b] = "connecting"]
    /\ UNCHANGED <<data, publisher, stalled, hubVars, connVars, dirty, pageVars, faults>>

\* useData's refresh: one request at a time, and one more after it if needed.
Refresh(b) ==
    /\ fetch' = [fetch EXCEPT ![b] = IF @ = "none" THEN "sent" ELSE @]
    /\ pending' = pending \cup {x \in {b} : fetch[x] # "none"}

\* refreshTimer fires: the revisions of the scopes named move on, and the hook
\* whose revision it was refreshes.
RefreshTimer(b) ==
    /\ dirty[b] # {}
    /\ PromptSubscribe => handler[Socket(b)] # "upgraded"
    /\ dirty' = [dirty EXCEPT ![b] = {}]
    /\ IF view[b] \in dirty[b] THEN Refresh(b) ELSE UNCHANGED <<fetch, pending>>
    /\ UNCHANGED <<data, publisher, stalled, hubVars, connVars, attempt, socket>>
    /\ UNCHANGED <<view, answer, shown, failed, faults>>

\* The control plane answers the request.
Read(b) ==
    /\ fetch[b] = "sent"
    /\ fetch' = [fetch EXCEPT ![b] = "answered"]
    /\ answer' = [answer EXCEPT ![b] = data[view[b]]]
    /\ UNCHANGED <<data, publisher, stalled, hubVars, connVars, attempt, socket, dirty>>
    /\ UNCHANGED <<view, pending, shown, failed, faults>>

\* Mutant: a refresh that was asked for during a request waits for the next one.
SettleOnly(b) ==
    /\ fetch' = [fetch EXCEPT ![b] = "none"]
    /\ answer' = [answer EXCEPT ![b] = 0]
    /\ UNCHANGED <<data, publisher, stalled, hubVars, connVars, attempt, socket, dirty, pending>>

\* finally: a pending refresh takes the place of the request that has ended.
Settle(b) ==
    /\ fetch' = [fetch EXCEPT ![b] = IF b \in pending THEN "sent" ELSE "none"]
    /\ pending' = pending \ {b}
    /\ answer' = [answer EXCEPT ![b] = 0]
    /\ UNCHANGED <<data, publisher, stalled, hubVars, connVars, attempt, socket, dirty>>

Response(b) ==
    /\ fetch[b] = "answered"
    /\ shown' = [shown EXCEPT ![b] = answer[b]]
    /\ failed' = failed \ {b}
    /\ Settle(b)
    /\ UNCHANGED <<view, faults>>

ResponseFails(b) ==
    /\ Fault("fetch")
    /\ fetch[b] # "none"
    /\ failed' = failed \cup {b}
    /\ Settle(b)
    /\ UNCHANGED <<view, shown>>

\* Another path: the hook drops its request and its data, and starts again.
Navigate(b, s) ==
    /\ view[b] # s
    /\ view' = [view EXCEPT ![b] = s]
    /\ fetch' = [fetch EXCEPT ![b] = "sent"]
    /\ pending' = pending \ {b}
    /\ answer' = [answer EXCEPT ![b] = 0]
    /\ shown' = [shown EXCEPT ![b] = 0]
    /\ failed' = failed \ {b}
    /\ UNCHANGED <<data, publisher, stalled, hubVars, connVars, attempt, socket, dirty, faults>>

RealtimeNext ==
    \/ \E p \in Publishers : Publish(p) \/ CloseStalled(p) \/ \E s \in Scopes : Change(p, s)
    \/ \E c \in Conn : Subscribe(c) \/ Forward(c) \/ Return(c)
    \/ \E b \in Browsers : \/ Upgrade(b) \/ Break(b) \/ OnOpen(b) \/ OnMessage(b) \/ OnClose(b) \/ Connect(b)
                           \/ RefreshTimer(b) \/ Read(b)
                           \/ Response(b) \/ ResponseFails(b)
                           \/ \E s \in Scopes : Navigate(b, s)

RealtimeSpec == RealtimeInit /\ [][RealtimeNext]_realtimeVars

\* Goroutines that have something to do do it, timers fire, and requests and
\* connections come to an end.  Nobody has to change data or to navigate, and
\* nothing has to fail.
RealtimeFairness ==
    /\ \A p \in Publishers : WF_realtimeVars(Publish(p)) /\ WF_realtimeVars(CloseStalled(p))
    /\ \A c \in Conn : /\ WF_realtimeVars(Subscribe(c))
                       /\ WF_realtimeVars(Forward(c)) /\ WF_realtimeVars(Return(c))
    /\ \A b \in Browsers :
          /\ WF_realtimeVars(Upgrade(b))
          /\ WF_realtimeVars(OnOpen(b)) /\ WF_realtimeVars(OnMessage(b))
          /\ WF_realtimeVars(OnClose(b)) /\ WF_realtimeVars(Connect(b))
          /\ WF_realtimeVars(RefreshTimer(b)) /\ WF_realtimeVars(Read(b))
          /\ WF_realtimeVars(Response(b))

FairRealtimeSpec == RealtimeSpec /\ RealtimeFairness

-----------------------------------------------------------------------------
\* The variables stay in their ranges.
RealtimeTypeOK ==
    /\ data \in [Scopes -> 1 .. MaxChanges + 1]
    /\ publisher \in [Publishers -> Scopes \cup {"idle", "stalled"}]
    /\ stalled \in [Publishers -> SUBSET Conn]
    /\ clients \in SUBSET Conn
    /\ events \in [Conn -> Seq(Scopes)]
    /\ \A c \in Conn : Len(events[c]) <= Capacity
    /\ closes \in [Conn -> Nat]
    /\ handler \in [Conn -> {"none", "upgraded", "subscribed", "done"}]
    /\ link \in [Conn -> {"up", "closed", "lost"}]
    /\ wire \in [Conn -> Seq(Scopes)]
    /\ attempt \in [Browsers -> 1 .. MaxConns]
    /\ socket \in [Browsers -> {"waiting", "connecting", "open"}]
    /\ dirty \in [Browsers -> SUBSET Scopes]
    /\ view \in [Browsers -> Scopes]
    /\ fetch \in [Browsers -> {"none", "sent", "answered"}]
    /\ answer \in [Browsers -> 0 .. MaxChanges + 1]
    /\ pending \in SUBSET Browsers
    /\ shown \in [Browsers -> 0 .. MaxChanges + 1]
    /\ failed \in SUBSET Browsers
    /\ faults \in 0 .. MaxFaults

\* No send meets a closed channel and no channel is closed twice, either of
\* which is a panic of the control plane: two Publish calls and the handler's
\* own Unsubscribe may all want to end the same subscription.
NeverPanics == \A c \in Conn : closes[c] <= 1 /\ (c \in clients => closes[c] = 0)

Holds(hints, s) == \E i \in DOMAIN hints : hints[i] = s

\* What will still tell a page that the scope in its view has changed.
HintUnderWay(b) ==
    LET c == Socket(b) IN
    \/ \E p \in Publishers : publisher[p] = view[b]
    \/ \E p \in Publishers : c \in stalled[p]
    \/ socket[b] # "open" \/ link[c] # "up"
    \/ handler[c] = "subscribed" /\ c \notin clients
    \/ view[b] \in dirty[b]
    \/ Holds(events[c], view[b])
    \/ Holds(wire[c], view[b])

\* What will still bring a page the data as it is now.
ReadUnderWay(b) ==
    \/ b \in pending \/ fetch[b] = "sent"
    \/ fetch[b] = "answered" /\ answer[b] = data[view[b]]

UpToDate(b) ==
    \/ shown[b] = data[view[b]] \/ b \in failed
    \/ HintUnderWay(b) \/ ReadUnderWay(b)

\* A page that shows old data without an error has a newer read to come: a
\* hint on its way, a reconnection to come, or a request that will read again.
\* Hub.Publish: "Silently dropping the final hint can leave a browser stale
\* forever, so disconnect slow subscribers.  The browser reconnect path
\* performs a full refresh and safely catches up."
StaleIsPending == \A b \in Browsers : UpToDate(b)

\* A version that stays is shown in the end, unless the page tells of an error
\* or the user leaves it.
CatchesUp ==
    \A b \in Browsers : \A s \in Scopes : \A v \in 1 .. MaxChanges + 1 :
        (view[b] = s /\ data[s] = v) ~> (view[b] # s \/ data[s] # v \/ shown[b] = v \/ b \in failed)
=============================================================================
