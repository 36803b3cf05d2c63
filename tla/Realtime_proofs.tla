-------------------------- MODULE Realtime_proofs ---------------------------
(***************************************************************************)
(* Theorems about Realtime, for any number of publishers, browsers, scopes *)
(* and connections, any capacity of a queue and any number of faults.      *)
(***************************************************************************)
EXTENDS Realtime, TLAPS

\* An appended hint joins those that were there.
LEMMA AppendHolds ==
    ASSUME NEW hints \in Seq(Scopes), NEW s \in Scopes
    PROVE  /\ Append(hints, s) \in Seq(Scopes)
           /\ Len(Append(hints, s)) = Len(hints) + 1
           /\ Holds(Append(hints, s), s)
           /\ \A t \in Scopes : Holds(hints, t) => Holds(Append(hints, s), t)
<1>1. Append(hints, s) \in Seq(Scopes) /\ Len(Append(hints, s)) = Len(hints) + 1
  OBVIOUS
<1>2. Holds(Append(hints, s), s)
  <2>1. Len(hints) + 1 \in DOMAIN Append(hints, s)
    OBVIOUS
  <2> QED BY <2>1 DEF Holds
<1>3. \A t \in Scopes : Holds(hints, t) => Holds(Append(hints, s), t)
  <2> SUFFICES ASSUME NEW t \in Scopes, NEW i \in DOMAIN hints, hints[i] = t
               PROVE  \E j \in DOMAIN Append(hints, s) : Append(hints, s)[j] = t
    BY DEF Holds
  <2>1. i \in DOMAIN Append(hints, s) /\ Append(hints, s)[i] = t
    OBVIOUS
  <2> QED BY <2>1
<1> QED BY <1>1, <1>2, <1>3

\* A hint of a queue is its first one or stays when the first one goes.
LEMMA TailHolds ==
    ASSUME NEW hints \in Seq(Scopes), hints # <<>>
    PROVE  /\ Tail(hints) \in Seq(Scopes) /\ Head(hints) \in Scopes
           /\ Len(Tail(hints)) = Len(hints) - 1
           /\ \A t \in Scopes : Holds(hints, t) => Head(hints) = t \/ Holds(Tail(hints), t)
<1>1. Tail(hints) \in Seq(Scopes) /\ Head(hints) \in Scopes /\ Len(Tail(hints)) = Len(hints) - 1
  OBVIOUS
<1>2. ASSUME NEW t \in Scopes, Holds(hints, t), Head(hints) # t
      PROVE  Holds(Tail(hints), t)
  <2>1. PICK i \in DOMAIN hints : hints[i] = t
    BY <1>2 DEF Holds
  <2>2. i # 1
    BY <1>2, <2>1
  <2>3. i - 1 \in DOMAIN Tail(hints) /\ Tail(hints)[i - 1] = t
    BY <2>1, <2>2
  <2> QED BY <2>3 DEF Holds
<1> QED BY <1>1, <1>2

\* A browser's socket is a connection.
LEMMA SocketIsConn ==
    ASSUME RealtimeTypeOK PROVE \A b \in Browsers : Socket(b) \in Conn
BY DEF RealtimeTypeOK, Socket, Conn

-----------------------------------------------------------------------------
\* Every step keeps the types.
LEMMA TypeStep ==
    ASSUME RealtimeTypeOK, [RealtimeNext]_realtimeVars PROVE RealtimeTypeOK'
<1>1. ASSUME NEW p \in Publishers, Publish(p) PROVE RealtimeTypeOK'
  <2>1. events' \in [Conn -> Seq(Scopes)] /\ \A c \in Conn : Len(events'[c]) <= Capacity
    <3> SUFFICES ASSUME NEW c \in Conn, c \in clients \ Full
                 PROVE  /\ Append(events[c], publisher[p]) \in Seq(Scopes)
                        /\ Len(Append(events[c], publisher[p])) <= Capacity
      BY <1>1 DEF Publish, RealtimeTypeOK
    <3>1. events[c] \in Seq(Scopes) /\ publisher[p] \in Scopes /\ Len(events[c]) \in Nat
          /\ Len(events[c]) <= Capacity /\ Len(events[c]) # Capacity
      BY <1>1 DEF Publish, Full, RealtimeTypeOK
    <3> QED BY <3>1, RealtimeAssumption, AppendHolds
  <2> QED BY <1>1, <2>1 DEF Publish, Full, hubVars, connVars, pageVars, RealtimeTypeOK
<1>2. ASSUME NEW p \in Publishers, CloseStalled(p) PROVE RealtimeTypeOK'
  BY <1>2 DEF CloseStalled, Remove, hubVars, connVars, pageVars, RealtimeTypeOK
<1>3. ASSUME NEW p \in Publishers, NEW s \in Scopes, Change(p, s) PROVE RealtimeTypeOK'
  BY <1>3, RealtimeAssumption DEF Change, hubVars, connVars, pageVars, RealtimeTypeOK
<1>4. ASSUME NEW c \in Conn, Subscribe(c) PROVE RealtimeTypeOK'
  BY <1>4 DEF Subscribe, hubVars, connVars, pageVars, RealtimeTypeOK
<1>5. ASSUME NEW c \in Conn, Forward(c) PROVE RealtimeTypeOK'
  <2>1. /\ Tail(events[c]) \in Seq(Scopes) /\ Len(Tail(events[c])) <= Capacity
        /\ Head(events[c]) \in Scopes
        /\ Append(wire[c], Head(events[c])) \in Seq(Scopes)
    BY <1>5, RealtimeAssumption, TailHolds, AppendHolds DEF Forward, RealtimeTypeOK
  <2> QED BY <1>5, <2>1 DEF Forward, RealtimeTypeOK, hubVars, connVars, pageVars
<1>6. ASSUME NEW c \in Conn, Return(c) PROVE RealtimeTypeOK'
  <2>1. closes' \in [Conn -> Nat]
    BY <1>6 DEF Return, Remove, RealtimeTypeOK
  <2> QED BY <1>6, <2>1 DEF Return, Remove, hubVars, connVars, pageVars, RealtimeTypeOK
<1>7. ASSUME NEW b \in Browsers, Upgrade(b) PROVE RealtimeTypeOK'
  BY <1>7, SocketIsConn DEF Upgrade, hubVars, connVars, pageVars, RealtimeTypeOK
<1>8. ASSUME NEW b \in Browsers, Break(b) PROVE RealtimeTypeOK'
  <2>1. /\ Socket(b) \in Conn
        /\ faults' \in 0 .. MaxFaults
        /\ <<>> \in Seq(Scopes)
    BY <1>8, SocketIsConn, RealtimeAssumption DEF Break, Fault, RealtimeTypeOK
  <2> QED BY <1>8, <2>1 DEF Break, hubVars, connVars, pageVars, RealtimeTypeOK
<1>9. ASSUME NEW b \in Browsers, OnOpen(b) PROVE RealtimeTypeOK'
  BY <1>9, SocketIsConn DEF OnOpen, hubVars, connVars, pageVars, RealtimeTypeOK
<1>10. ASSUME NEW b \in Browsers, OnMessage(b) PROVE RealtimeTypeOK'
  <2>1. Socket(b) \in Conn
    BY SocketIsConn
  <2>2. Tail(wire[Socket(b)]) \in Seq(Scopes) /\ Head(wire[Socket(b)]) \in Scopes
    BY <1>10, <2>1, TailHolds DEF OnMessage, RealtimeTypeOK
  <2> QED BY <1>10, <2>1, <2>2 DEF OnMessage, hubVars, connVars, pageVars, RealtimeTypeOK
<1>11. ASSUME NEW b \in Browsers, OnClose(b) PROVE RealtimeTypeOK'
  BY <1>11, SocketIsConn DEF OnClose, hubVars, connVars, pageVars, RealtimeTypeOK
<1>12. ASSUME NEW b \in Browsers, Connect(b) PROVE RealtimeTypeOK'
  BY <1>12, RealtimeAssumption DEF Connect, hubVars, connVars, pageVars, RealtimeTypeOK
<1>13. ASSUME NEW b \in Browsers, RefreshTimer(b) PROVE RealtimeTypeOK'
  <2>1. fetch' \in [Browsers -> {"none", "sent", "answered"}] /\ pending' \in SUBSET Browsers
    <3>1. CASE view[b] \in dirty[b]
      <4>1. fetch' = [fetch EXCEPT ![b] = IF fetch[b] = "none" THEN "sent" ELSE fetch[b]]
        BY <1>13, <3>1 DEF RefreshTimer, Refresh
      <4>2. pending' = pending \cup {y \in {b} : fetch[y] # "none"}
        BY <1>13, <3>1 DEF RefreshTimer, Refresh
      <4> QED BY <4>1, <4>2 DEF RealtimeTypeOK
    <3>2. CASE view[b] \notin dirty[b]
      BY <1>13, <3>2 DEF RefreshTimer, RealtimeTypeOK
    <3> QED BY <3>1, <3>2
  <2>2. dirty' \in [Browsers -> SUBSET Scopes]
    BY <1>13 DEF RefreshTimer, RealtimeTypeOK
  <2> QED BY <1>13, <2>1, <2>2 DEF RefreshTimer, hubVars, connVars, pageVars, RealtimeTypeOK
<1>14. ASSUME NEW b \in Browsers, Read(b) PROVE RealtimeTypeOK'
  <2>1. data[view[b]] \in 0 .. MaxChanges + 1
    BY RealtimeAssumption DEF RealtimeTypeOK
  <2> QED BY <1>14, <2>1 DEF Read, hubVars, connVars, pageVars, RealtimeTypeOK
<1>15. ASSUME NEW b \in Browsers, Response(b) PROVE RealtimeTypeOK'
  <2>1. /\ answer' \in [Browsers -> 0 .. MaxChanges + 1]
        /\ shown' \in [Browsers -> 0 .. MaxChanges + 1]
    BY <1>15, RealtimeAssumption DEF Response, Settle, RealtimeTypeOK
  <2> QED BY <1>15, <2>1 DEF Response, Settle, hubVars, connVars, pageVars, RealtimeTypeOK
<1>16. ASSUME NEW b \in Browsers, ResponseFails(b) PROVE RealtimeTypeOK'
  <2>1. faults' \in 0 .. MaxFaults
    BY <1>16, RealtimeAssumption DEF ResponseFails, Fault, RealtimeTypeOK
  <2>2. answer' \in [Browsers -> 0 .. MaxChanges + 1]
    BY <1>16, RealtimeAssumption DEF ResponseFails, Settle, RealtimeTypeOK
  <2> QED BY <1>16, <2>1, <2>2
    DEF ResponseFails, Settle, hubVars, connVars, pageVars, RealtimeTypeOK
<1>17. ASSUME NEW b \in Browsers, NEW s \in Scopes, Navigate(b, s) PROVE RealtimeTypeOK'
  <2>1. /\ answer' \in [Browsers -> 0 .. MaxChanges + 1]
        /\ shown' \in [Browsers -> 0 .. MaxChanges + 1]
    BY <1>17, RealtimeAssumption DEF Navigate, RealtimeTypeOK
  <2> QED BY <1>17, <2>1 DEF Navigate, hubVars, connVars, pageVars, RealtimeTypeOK
<1>18. CASE UNCHANGED realtimeVars
  BY <1>18 DEF realtimeVars, RealtimeTypeOK
<1> QED BY <1>1, <1>2, <1>3, <1>4, <1>5, <1>6, <1>7, <1>8, <1>9, <1>10, <1>11, <1>12, <1>13, <1>14, <1>15, <1>16, <1>17, <1>18
  DEF RealtimeNext

\* The variables of the hub, of its connections and of the pages keep their types.
THEOREM RealtimeTypeCorrect == RealtimeSpec => []RealtimeTypeOK
<1>1. RealtimeInit => RealtimeTypeOK
  BY RealtimeAssumption DEF RealtimeInit, RealtimeTypeOK
<1> QED BY <1>1, TypeStep, PTL DEF RealtimeSpec

-----------------------------------------------------------------------------
\* A subscription that the hub lists belongs to a handler and is not closed; a
\* handler that has not subscribed has no channel, and one that has returned
\* has left the hub.
HubInv ==
    /\ \A c \in Conn : c \in clients => handler[c] = "subscribed" /\ closes[c] = 0
    /\ \A c \in Conn : closes[c] \in {0, 1}
    /\ \A c \in Conn : closes[c] = 1 => handler[c] \in {"subscribed", "done"}
    /\ \A p \in Publishers : \A c \in stalled[p] : handler[c] \in {"subscribed", "done"}
    /\ \A p \in Publishers : publisher[p] \in Scopes => stalled[p] = {}
    /\ \A p \in Publishers : publisher[p] = "idle" => stalled[p] = {}
    /\ \A c \in Conn : handler[c] = "done" => link[c] # "up"

\* Every step of a publisher, a handler or a page keeps the hub's invariant.
LEMMA HubStep ==
    ASSUME RealtimeTypeOK, HubInv, [RealtimeNext]_realtimeVars PROVE HubInv'
<1>1. ASSUME NEW p \in Publishers, Publish(p) PROVE HubInv'
  <2>1. \A q \in Publishers : \A d \in stalled'[q] : handler[d] \in {"subscribed", "done"}
    BY <1>1 DEF Publish, Full, HubInv, RealtimeTypeOK
  <2>2. \A q \in Publishers : publisher'[q] = "idle" => stalled'[q] = {}
    BY <1>1 DEF Publish, HubInv, RealtimeTypeOK
  <2>3. \A q \in Publishers : publisher'[q] \in Scopes => stalled'[q] = {}
    BY <1>1, RealtimeAssumption DEF Publish, HubInv, RealtimeTypeOK
  <2> QED BY <1>1, <2>1, <2>2, <2>3 DEF Publish, connVars, HubInv
<1>2. ASSUME NEW p \in Publishers, CloseStalled(p) PROVE HubInv'
  BY <1>2 DEF CloseStalled, Remove, hubVars, connVars, pageVars, HubInv, RealtimeTypeOK
<1>3. ASSUME NEW p \in Publishers, NEW s \in Scopes, Change(p, s) PROVE HubInv'
  BY <1>3 DEF Change, hubVars, connVars, pageVars, HubInv, RealtimeTypeOK
<1>4. ASSUME NEW c \in Conn, Subscribe(c) PROVE HubInv'
  BY <1>4 DEF Subscribe, hubVars, connVars, pageVars, HubInv, RealtimeTypeOK
<1>5. ASSUME NEW c \in Conn, Forward(c) PROVE HubInv'
  BY <1>5 DEF Forward, hubVars, connVars, pageVars, HubInv, RealtimeTypeOK
<1>6. ASSUME NEW c \in Conn, Return(c) PROVE HubInv'
  BY <1>6 DEF Return, Remove, hubVars, connVars, pageVars, HubInv, RealtimeTypeOK
<1>7. ASSUME NEW b \in Browsers, Upgrade(b) PROVE HubInv'
  BY <1>7, SocketIsConn DEF Upgrade, hubVars, connVars, pageVars, HubInv, RealtimeTypeOK
<1>8. ASSUME NEW b \in Browsers, Break(b) PROVE HubInv'
  BY <1>8, SocketIsConn DEF Break, Fault, hubVars, connVars, pageVars, HubInv, RealtimeTypeOK
<1>9. ASSUME NEW b \in Browsers, OnOpen(b) PROVE HubInv'
  BY <1>9, SocketIsConn DEF OnOpen, hubVars, connVars, pageVars, HubInv, RealtimeTypeOK
<1>10. ASSUME NEW b \in Browsers, OnMessage(b) PROVE HubInv'
  BY <1>10, SocketIsConn DEF OnMessage, hubVars, connVars, pageVars, HubInv, RealtimeTypeOK
<1>11. ASSUME NEW b \in Browsers, OnClose(b) PROVE HubInv'
  BY <1>11, SocketIsConn DEF OnClose, hubVars, connVars, pageVars, HubInv, RealtimeTypeOK
<1>12. ASSUME NEW b \in Browsers, Connect(b) PROVE HubInv'
  BY <1>12 DEF Connect, hubVars, connVars, pageVars, HubInv, RealtimeTypeOK
<1>13. ASSUME NEW b \in Browsers, RefreshTimer(b) PROVE HubInv'
  BY <1>13 DEF RefreshTimer, Refresh, hubVars, connVars, pageVars, HubInv, RealtimeTypeOK
<1>14. ASSUME NEW b \in Browsers, Read(b) PROVE HubInv'
  BY <1>14 DEF Read, hubVars, connVars, pageVars, HubInv, RealtimeTypeOK
<1>15. ASSUME NEW b \in Browsers, Response(b) PROVE HubInv'
  BY <1>15 DEF Response, Settle, hubVars, connVars, pageVars, HubInv, RealtimeTypeOK
<1>16. ASSUME NEW b \in Browsers, ResponseFails(b) PROVE HubInv'
  BY <1>16 DEF ResponseFails, Settle, Fault, hubVars, connVars, pageVars, HubInv, RealtimeTypeOK
<1>17. ASSUME NEW b \in Browsers, NEW s \in Scopes, Navigate(b, s) PROVE HubInv'
  BY <1>17 DEF Navigate, hubVars, connVars, pageVars, HubInv, RealtimeTypeOK
<1>18. CASE UNCHANGED realtimeVars
  BY <1>18 DEF realtimeVars, HubInv, RealtimeTypeOK
<1> QED BY <1>1, <1>2, <1>3, <1>4, <1>5, <1>6, <1>7, <1>8, <1>9, <1>10, <1>11, <1>12, <1>13, <1>14, <1>15, <1>16, <1>17, <1>18
  DEF RealtimeNext

\* Hub.Publish and Hub.Unsubscribe never send to a closed channel and never
\* close one twice, whatever the order in which they meet a subscription.
THEOREM HubNeverPanics == RealtimeSpec => []NeverPanics
<1>1. RealtimeInit => RealtimeTypeOK /\ HubInv
  BY RealtimeAssumption DEF RealtimeInit, RealtimeTypeOK, HubInv
<1>2. RealtimeTypeOK /\ HubInv /\ [RealtimeNext]_realtimeVars => RealtimeTypeOK' /\ HubInv'
  BY TypeStep, HubStep
<1>3. HubInv => NeverPanics
  BY DEF HubInv, NeverPanics
<1> QED BY <1>1, <1>2, <1>3, PTL DEF RealtimeSpec

-----------------------------------------------------------------------------
\* A page whose socket is open has a handler, and until that has subscribed
\* the page has not yet taken up the refresh of onopen.
PageInv ==
    \A b \in Browsers : socket[b] = "open" =>
        /\ handler[Socket(b)] # "none"
        /\ handler[Socket(b)] = "upgraded" => dirty[b] = Scopes

\* Every step keeps it: only Subscribe ends the state in which onopen's refresh
\* must still be there, and RefreshTimer waits for it.
LEMMA PageStep ==
    ASSUME PromptSubscribe, RealtimeTypeOK, HubInv, PageInv, [RealtimeNext]_realtimeVars
    PROVE  PageInv'
<1>1. ASSUME NEW p \in Publishers, Publish(p) PROVE PageInv'
  BY <1>1 DEF Publish, Full, hubVars, connVars, pageVars, PageInv, RealtimeTypeOK, Socket
<1>2. ASSUME NEW p \in Publishers, CloseStalled(p) PROVE PageInv'
  BY <1>2 DEF CloseStalled, Remove, hubVars, connVars, pageVars, PageInv, RealtimeTypeOK, Socket
<1>3. ASSUME NEW p \in Publishers, NEW s \in Scopes, Change(p, s) PROVE PageInv'
  BY <1>3 DEF Change, hubVars, connVars, pageVars, PageInv, RealtimeTypeOK, Socket
<1>4. ASSUME NEW c \in Conn, Subscribe(c) PROVE PageInv'
  BY <1>4 DEF Subscribe, hubVars, connVars, pageVars, PageInv, RealtimeTypeOK, Socket
<1>5. ASSUME NEW c \in Conn, Forward(c) PROVE PageInv'
  BY <1>5 DEF Forward, hubVars, connVars, pageVars, PageInv, RealtimeTypeOK, Socket
<1>6. ASSUME NEW c \in Conn, Return(c) PROVE PageInv'
  BY <1>6 DEF Return, Remove, hubVars, connVars, pageVars, PageInv, RealtimeTypeOK, Socket
<1>7. ASSUME NEW b \in Browsers, Upgrade(b) PROVE PageInv'
  BY <1>7, SocketIsConn DEF Upgrade, hubVars, connVars, pageVars, PageInv, RealtimeTypeOK, Socket
<1>8. ASSUME NEW b \in Browsers, Break(b) PROVE PageInv'
  BY <1>8, SocketIsConn
    DEF Break, Fault, hubVars, connVars, pageVars, PageInv, RealtimeTypeOK, Socket
<1>9. ASSUME NEW b \in Browsers, OnOpen(b) PROVE PageInv'
  BY <1>9, SocketIsConn DEF OnOpen, hubVars, connVars, pageVars, PageInv, RealtimeTypeOK, Socket
<1>10. ASSUME NEW b \in Browsers, OnMessage(b) PROVE PageInv'
  <2>1. Head(wire[Socket(b)]) \in Scopes
    BY <1>10, SocketIsConn, TailHolds DEF OnMessage, RealtimeTypeOK
  <2> QED BY <1>10, <2>1
    DEF OnMessage, hubVars, connVars, pageVars, PageInv, RealtimeTypeOK, Socket
<1>11. ASSUME NEW b \in Browsers, OnClose(b) PROVE PageInv'
  BY <1>11, SocketIsConn DEF OnClose, hubVars, connVars, pageVars, PageInv, RealtimeTypeOK, Socket
<1>12. ASSUME NEW b \in Browsers, Connect(b) PROVE PageInv'
  BY <1>12 DEF Connect, hubVars, connVars, pageVars, PageInv, RealtimeTypeOK, Socket
<1>13. ASSUME NEW b \in Browsers, RefreshTimer(b) PROVE PageInv'
  BY <1>13 DEF RefreshTimer, Refresh, hubVars, connVars, pageVars, PageInv, RealtimeTypeOK, Socket
<1>14. ASSUME NEW b \in Browsers, Read(b) PROVE PageInv'
  BY <1>14 DEF Read, hubVars, connVars, pageVars, PageInv, RealtimeTypeOK, Socket
<1>15. ASSUME NEW b \in Browsers, Response(b) PROVE PageInv'
  BY <1>15 DEF Response, Settle, hubVars, connVars, pageVars, PageInv, RealtimeTypeOK, Socket
<1>16. ASSUME NEW b \in Browsers, ResponseFails(b) PROVE PageInv'
  BY <1>16
    DEF ResponseFails, Settle, Fault, hubVars, connVars, pageVars, PageInv, RealtimeTypeOK, Socket
<1>17. ASSUME NEW b \in Browsers, NEW s \in Scopes, Navigate(b, s) PROVE PageInv'
  BY <1>17 DEF Navigate, hubVars, connVars, pageVars, PageInv, RealtimeTypeOK, Socket
<1>18. CASE UNCHANGED realtimeVars
  BY <1>18 DEF realtimeVars, PageInv, RealtimeTypeOK, Socket
<1> QED BY <1>1, <1>2, <1>3, <1>4, <1>5, <1>6, <1>7, <1>8, <1>9, <1>10, <1>11, <1>12, <1>13, <1>14, <1>15, <1>16, <1>17, <1>18
  DEF RealtimeNext

\* StaleIsPending looks away from a page that shows an error; the answer such a
\* page waits for must itself be current or followed by another.
Caught(b) ==
    /\ UpToDate(b)
    /\ fetch[b] = "answered" =>
          answer[b] = data[view[b]] \/ b \in pending \/ HintUnderWay(b)

\* Every step keeps it: a hint moves on from the publisher to the queue, to the
\* connection, to the page and into a request, and is never dropped on the way.
LEMMA CaughtStep ==
    ASSUME PromptSubscribe, RealtimeTypeOK, HubInv, PageInv,
           \A b \in Browsers : Caught(b), [RealtimeNext]_realtimeVars
    PROVE  \A b \in Browsers : Caught(b)'
<1> SUFFICES ASSUME NEW x \in Browsers PROVE Caught(x)'
  OBVIOUS
<1>a. Caught(x) /\ Socket(x) \in Conn
  BY SocketIsConn
<1>1. ASSUME NEW p \in Publishers, Publish(p) PROVE Caught(x)'
  <2> DEFINE c == Socket(x)
  <2>1. c' = c /\ view'[x] = view[x] /\ view[x] \in Scopes /\ c \in Conn
    BY <1>1, <1>a DEF Publish, connVars, pageVars, Socket, RealtimeTypeOK
  <2>2. Holds(events[c], view[x]) => Holds(events'[c], view[x])
    BY <1>1, <2>1, AppendHolds DEF Publish, RealtimeTypeOK
  <2>3. CASE publisher[p] = view[x]
    <3>1. CASE c \in clients \ Full
      <4>1. Holds(events'[c], view[x])
        BY <1>1, <2>1, <2>3, <3>1, AppendHolds DEF Publish, RealtimeTypeOK
      <4> QED BY <2>1, <4>1 DEF Caught, UpToDate, HintUnderWay
    <3>2. CASE c \in Full
      <4>1. c \in stalled'[p]
        BY <1>1, <3>2 DEF Publish, RealtimeTypeOK
      <4> QED BY <2>1, <4>1 DEF Caught, UpToDate, HintUnderWay
    <3>3. CASE c \notin clients
      <4>1. socket[x] # "open" \/ link[c] # "up" \/ handler[c] = "subscribed" \/ dirty[x] = Scopes
        BY <2>1 DEF PageInv, HubInv, RealtimeTypeOK
      <4> QED BY <1>1, <2>1, <3>3, <4>1
        DEF Publish, Caught, UpToDate, HintUnderWay, hubVars, connVars
    <3> QED BY <3>1, <3>2, <3>3 DEF Full
  <2>4. CASE publisher[p] # view[x]
    <3>1. \A q \in Publishers : publisher[q] = view[x] => publisher'[q] = view[x]
      BY <1>1, <2>4 DEF Publish, RealtimeTypeOK
    <3>2. \A q \in Publishers : c \in stalled[q] => c \in stalled'[q]
      BY <1>1, RealtimeAssumption DEF Publish, HubInv, RealtimeTypeOK
    <3> HIDE DEF c
    <3>3. HintUnderWay(x) => HintUnderWay(x)'
      BY <1>1, <2>1, <2>2, <3>1, <3>2 DEF Publish, HintUnderWay, connVars, pageVars, c
    <3> QED BY <1>1, <1>a, <2>1, <3>3 DEF Publish, Caught, UpToDate, ReadUnderWay, pageVars
  <2> QED BY <2>3, <2>4
<1>2. ASSUME NEW p \in Publishers, CloseStalled(p) PROVE Caught(x)'
  <2> DEFINE c == Socket(x)
  <2>1. c' = c /\ view'[x] = view[x] /\ view[x] \in Scopes /\ c \in Conn
    BY <1>2, <1>a DEF CloseStalled, connVars, pageVars, Socket, RealtimeTypeOK
  <2>2. CASE c \in stalled[p]
    <3>1. c \notin clients' /\ (handler'[c] = "subscribed" \/ link'[c] # "up")
      BY <1>2, <2>1, <2>2 DEF CloseStalled, Remove, HubInv, connVars
    <3> QED BY <2>1, <3>1 DEF Caught, UpToDate, HintUnderWay
  <2>3. CASE c \notin stalled[p]
    <3>1. publisher[p] # view[x]
      BY <1>2, <2>1, RealtimeAssumption DEF CloseStalled
    <3>2. \A q \in Publishers : /\ publisher[q] = view[x] => publisher'[q] = view[x]
                                /\ c \in stalled[q] => c \in stalled'[q]
      BY <1>2, <2>3, <3>1 DEF CloseStalled, RealtimeTypeOK
    <3>3. c \notin clients => c \notin clients'
      BY <1>2 DEF CloseStalled, Remove
    <3>4. HintUnderWay(x) => HintUnderWay(x)'
      BY <1>2, <2>1, <3>2, <3>3 DEF CloseStalled, HintUnderWay, connVars, pageVars
    <3> QED BY <1>2, <1>a, <2>1, <3>4 DEF CloseStalled, Caught, UpToDate, ReadUnderWay, pageVars
  <2> QED BY <2>2, <2>3
<1>3. ASSUME NEW p \in Publishers, NEW s \in Scopes, Change(p, s) PROVE Caught(x)'
  <2>1. view' = view /\ view[x] \in Scopes /\ Socket(x)' = Socket(x)
    BY <1>3 DEF Change, pageVars, Socket, RealtimeTypeOK
  <2>2. CASE s = view[x]
    <3>1. publisher'[p] = view'[x]
      BY <1>3, <2>1, <2>2 DEF Change, RealtimeTypeOK
    <3> QED BY <3>1 DEF Caught, UpToDate, HintUnderWay
  <2>3. CASE s # view[x]
    <3>1. data'[view'[x]] = data[view[x]]
      BY <1>3, <2>1, <2>3 DEF Change, RealtimeTypeOK
    <3>2. \A q \in Publishers : publisher[q] = view[x] => publisher'[q] = view[x]
      BY <1>3, <2>1, RealtimeAssumption DEF Change, RealtimeTypeOK
    <3>3. HintUnderWay(x) => HintUnderWay(x)'
      BY <1>3, <2>1, <3>2 DEF Change, HintUnderWay, hubVars, connVars, pageVars
    <3> QED BY <1>3, <1>a, <2>1, <3>1, <3>3 DEF Change, Caught, UpToDate, ReadUnderWay, pageVars
  <2> QED BY <2>2, <2>3
<1>4. ASSUME NEW c \in Conn, Subscribe(c) PROVE Caught(x)'
  BY <1>4, <1>a
    DEF Subscribe, hubVars, connVars, pageVars, Caught, UpToDate, HintUnderWay, ReadUnderWay,
        PageInv, HubInv, RealtimeTypeOK, Socket
<1>5. ASSUME NEW c \in Conn, Forward(c) PROVE Caught(x)'
  <2> DEFINE d == Socket(x)
  <2>1. d' = d /\ view' = view /\ view[x] \in Scopes /\ d \in Conn
    BY <1>5, <1>a DEF Forward, pageVars, Socket, RealtimeTypeOK
  <2>2. Holds(events[d], view[x]) => Holds(events'[d], view[x]) \/ Holds(wire'[d], view[x])
    BY <1>5, <2>1, TailHolds, AppendHolds DEF Forward, RealtimeTypeOK
  <2>3. Holds(wire[d], view[x]) => Holds(wire'[d], view[x])
    BY <1>5, <2>1, TailHolds, AppendHolds DEF Forward, RealtimeTypeOK
  <2>4. HintUnderWay(x) => HintUnderWay(x)'
    BY <1>5, <2>1, <2>2, <2>3 DEF Forward, HintUnderWay, pageVars
  <2> QED BY <1>5, <1>a, <2>1, <2>4 DEF Forward, Caught, UpToDate, ReadUnderWay, pageVars
<1>6. ASSUME NEW c \in Conn, Return(c) PROVE Caught(x)'
  BY <1>6, <1>a
    DEF Return, Remove, hubVars, connVars, pageVars, Caught, UpToDate, HintUnderWay,
        ReadUnderWay, PageInv, HubInv, RealtimeTypeOK, Socket
<1>7. ASSUME NEW b \in Browsers, Upgrade(b) PROVE Caught(x)'
  BY <1>7, <1>a
    DEF Upgrade, hubVars, connVars, pageVars, Caught, UpToDate, HintUnderWay, ReadUnderWay,
        PageInv, HubInv, RealtimeTypeOK, Socket
<1>8. ASSUME NEW b \in Browsers, Break(b) PROVE Caught(x)'
  BY <1>8, <1>a
    DEF Break, Fault, hubVars, connVars, pageVars, Caught, UpToDate, HintUnderWay, ReadUnderWay,
        PageInv, HubInv, RealtimeTypeOK, Socket
<1>9. ASSUME NEW b \in Browsers, OnOpen(b) PROVE Caught(x)'
  BY <1>9, <1>a
    DEF OnOpen, hubVars, connVars, pageVars, Caught, UpToDate, HintUnderWay, ReadUnderWay,
        PageInv, HubInv, RealtimeTypeOK, Socket
<1>10. ASSUME NEW b \in Browsers, OnMessage(b) PROVE Caught(x)'
  <2> DEFINE d == Socket(x)
  <2>1. d' = d /\ view' = view /\ view[x] \in Scopes /\ d \in Conn /\ Socket(b) \in Conn
    BY <1>10, <1>a, SocketIsConn DEF OnMessage, pageVars, Socket, RealtimeTypeOK
  <2>2. b # x => Socket(b) # d
    BY DEF Socket
  <2>3. Holds(wire[d], view[x]) => Holds(wire'[d], view[x]) \/ view[x] \in dirty'[x]
    BY <1>10, <2>1, <2>2, TailHolds DEF OnMessage, RealtimeTypeOK
  <2>4. view[x] \in dirty[x] => view[x] \in dirty'[x]
    BY <1>10 DEF OnMessage, RealtimeTypeOK
  <2>5. HintUnderWay(x) => HintUnderWay(x)'
    BY <1>10, <2>1, <2>3, <2>4 DEF OnMessage, HintUnderWay, hubVars, pageVars
  <2> QED BY <1>10, <1>a, <2>1, <2>5 DEF OnMessage, Caught, UpToDate, ReadUnderWay, pageVars
<1>11. ASSUME NEW b \in Browsers, OnClose(b) PROVE Caught(x)'
  BY <1>11, <1>a
    DEF OnClose, hubVars, connVars, pageVars, Caught, UpToDate, HintUnderWay, ReadUnderWay,
        PageInv, HubInv, RealtimeTypeOK, Socket
<1>12. ASSUME NEW b \in Browsers, Connect(b) PROVE Caught(x)'
  BY <1>12, <1>a
    DEF Connect, hubVars, connVars, pageVars, Caught, UpToDate, HintUnderWay, ReadUnderWay,
        PageInv, HubInv, RealtimeTypeOK, Socket
<1>13. ASSUME NEW b \in Browsers, RefreshTimer(b) PROVE Caught(x)'
  <2>1. Socket(x)' = Socket(x)
    BY <1>13 DEF RefreshTimer, Socket
  <2>2. CASE b = x /\ view[x] \in dirty[x]
    <3>1. x \in pending' \/ fetch'[x] = "sent"
      BY <1>13, <2>2 DEF RefreshTimer, Refresh, RealtimeTypeOK
    <3> QED BY <3>1 DEF Caught, UpToDate, ReadUnderWay
  <2>3. CASE ~(b = x /\ view[x] \in dirty[x])
    <3>1. (view[x] \in dirty[x] => view[x] \in dirty'[x]) /\ (x \in pending => x \in pending')
      BY <1>13, <2>3 DEF RefreshTimer, Refresh, RealtimeTypeOK
    <3>2. fetch'[x] = fetch[x]
      BY <1>13, <2>3 DEF RefreshTimer, Refresh, RealtimeTypeOK
    <3>3. HintUnderWay(x) => HintUnderWay(x)'
      BY <1>13, <2>1, <3>1 DEF RefreshTimer, HintUnderWay, hubVars, connVars
    <3> QED BY <1>13, <1>a, <3>1, <3>2, <3>3 DEF RefreshTimer, Caught, UpToDate, ReadUnderWay
  <2> QED BY <2>2, <2>3
<1>14. ASSUME NEW b \in Browsers, Read(b) PROVE Caught(x)'
  BY <1>14, <1>a
    DEF Read, hubVars, connVars, pageVars, Caught, UpToDate, HintUnderWay, ReadUnderWay,
        PageInv, HubInv, RealtimeTypeOK, Socket
<1>15. ASSUME NEW b \in Browsers, Response(b) PROVE Caught(x)'
  <2>1. Socket(x)' = Socket(x) /\ view' = view
    BY <1>15 DEF Response, Settle, Socket
  <2>2. HintUnderWay(x) => HintUnderWay(x)'
    BY <1>15, <2>1 DEF Response, Settle, HintUnderWay, hubVars, connVars
  <2>3. CASE b = x
    BY <1>15, <1>a, <2>1, <2>2, <2>3
      DEF Response, Settle, Caught, UpToDate, ReadUnderWay, RealtimeTypeOK
  <2>4. CASE b # x
    BY <1>15, <1>a, <2>1, <2>2, <2>4
      DEF Response, Settle, Caught, UpToDate, ReadUnderWay, RealtimeTypeOK
  <2> QED BY <2>3, <2>4
<1>16. ASSUME NEW b \in Browsers, ResponseFails(b) PROVE Caught(x)'
  BY <1>16, <1>a
    DEF ResponseFails, Settle, Fault, hubVars, connVars, pageVars, Caught, UpToDate,
        HintUnderWay, ReadUnderWay, PageInv, HubInv, RealtimeTypeOK, Socket
<1>17. ASSUME NEW b \in Browsers, NEW s \in Scopes, Navigate(b, s) PROVE Caught(x)'
  <2>1. CASE b = x
    BY <1>17, <2>1 DEF Navigate, Caught, UpToDate, ReadUnderWay, RealtimeTypeOK
  <2>2. CASE b # x
    <3>1. Socket(x)' = Socket(x) /\ view'[x] = view[x]
      BY <1>17, <2>2 DEF Navigate, Socket, RealtimeTypeOK
    <3>2. HintUnderWay(x)' = HintUnderWay(x)
      BY <1>17, <3>1 DEF Navigate, HintUnderWay, hubVars, connVars
    <3> QED BY <1>17, <1>a, <2>2, <3>1, <3>2
      DEF Navigate, Caught, UpToDate, ReadUnderWay, RealtimeTypeOK
  <2> QED BY <2>1, <2>2
<1>18. CASE UNCHANGED realtimeVars
  <2>1. HintUnderWay(x)' = HintUnderWay(x)
    BY <1>18 DEF realtimeVars, HintUnderWay, Socket
  <2> QED BY <1>18, <1>a, <2>1 DEF realtimeVars, Caught, UpToDate, ReadUnderWay
<1> QED BY <1>1, <1>2, <1>3, <1>4, <1>5, <1>6, <1>7, <1>8, <1>9, <1>10, <1>11, <1>12, <1>13, <1>14, <1>15, <1>16, <1>17, <1>18
  DEF RealtimeNext

\* No hint is lost for good: when the handler subscribes before the page it let
\* in reads, a page that shows old data always has a newer read to come.
THEOREM StalePagesCatchUp == ASSUME PromptSubscribe PROVE RealtimeSpec => []StaleIsPending
<1> DEFINE IInv == RealtimeTypeOK /\ HubInv /\ PageInv /\ \A b \in Browsers : Caught(b)
<1>1. RealtimeInit => IInv
  BY RealtimeAssumption
  DEF RealtimeInit, RealtimeTypeOK, HubInv, PageInv, Caught, UpToDate, ReadUnderWay
<1>2. IInv /\ [RealtimeNext]_realtimeVars => IInv'
  BY TypeStep, HubStep, PageStep, CaughtStep
<1>3. IInv => StaleIsPending
  BY DEF Caught, StaleIsPending
<1> QED BY <1>1, <1>2, <1>3, PTL DEF RealtimeSpec
=============================================================================
