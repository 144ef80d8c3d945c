------------------------------ MODULE Realtime ------------------------------
(***************************************************************************)
(* How a browser tab learns that an order has changed: the services        *)
(* publish on the event bus after their commit (InMemoryEventBus), the     *)
(* connection manager fans an event out (WebSocketManager,                 *)
(* SubscriptionRegistry), the endpoint keeps a coroutine per connection    *)
(* (websocket_endpoint), and the tab fetches again whatever an event of    *)
(* its topic is about (WebSocketProvider, useRealtime).                    *)
(*                                                                         *)
(* The server is one event loop: between two awaits nothing else runs.     *)
(* An action is what happens from one await to the next.  An envelope is   *)
(* published once, so that the cache of ids already sent to the admins     *)
(* never finds one; a fetch reads whatever has been committed, so that     *)
(* the sequence numbers, which no client looks at, are left out.           *)
(***************************************************************************)
EXTENDS Naturals, FiniteSets, Sequences

CONSTANTS
  Tabs,        \* browser tabs
  Pages,       \* what they may show: some of AllPages
  Connections, \* ids of connections; bounds how many are ever opened
  MaxChanges,  \* bounds the changes of the order
  MaxAttempts, \* maxReconnectAttempts
  SecondAccept, \* what accepting a connection again may do
  None

\* A customer's list of orders, one order of it, a restaurant's orders, all orders.
AllPages == {"list", "detail", "owner", "admin"}

ASSUME RealtimeAssumption ==
  /\ MaxChanges \in Nat /\ MaxAttempts \in Nat /\ Pages \subseteq AllPages
  /\ SecondAccept \subseteq {"raises", "passes"}
  /\ None \notin Connections \cup Nat \cup Tabs

VARIABLES
  order,  \* version of the committed order
  conns,  \* per connection: its endpoint coroutine and its socket
  active, \* active_connections
  topics, \* _topics: the connections of a topic
  joined, \* _connections: the topics of a connection
  bus,    \* _handlers: how many handlers a topic has
  pubs,   \* per publisher: what is left to publish and to send
  tabs    \* per tab: its socket and what it shows

vars == <<order, conns, active, topics, joined, bus, pubs, tabs>>

\* The order is one customer's and one restaurant's; user is a personal topic.
Topics == {"user", "customer", "restaurant", "rider", "admin"}

Versions == 0..MaxChanges

\* The n-th request that changes the order; several may be under way at once.
Publishers == 1..MaxChanges

\* What the services publish a change to: an order placed or handled by its
\* restaurant, one given to a rider, one the rider moved on.
Scopes == {<<"restaurant", "customer">>, <<"rider", "restaurant">>,
           <<"rider", "restaurant", "customer">>}

\* open: the socket.  Its age since the last message is not kept: see PruneStale.
Connection == [tab: Tabs \cup {None}, pc: {"unused", "accepted", "loop", "dead"},
               open: BOOLEAN]

Unused == [tab |-> None, pc |-> "unused", open |-> FALSE]

\* todo are the handlers still to run for the first of scopes, left the connections
\* a handler still has to send to.
Publisher == [pc: {"idle", "publish", "task", "send"},
              scopes: {<<>>} \cup Scopes \cup {Tail(s) : s \in Scopes},
              todo: Nat, left: SUBSET Connections]

NoEvent == [pc |-> "idle", scopes |-> <<>>, todo |-> 0, left |-> {}]

\* retry: a timer to reconnect is set.  dirty: the query was invalidated; fetch is
\* the answer on its way, view the version shown.
Tab == [page: Pages, ws: Connections \cup {None}, retry: BOOLEAN, attempts: 0..MaxAttempts,
        view: Versions, fetch: Versions \cup {None}, dirty: BOOLEAN]

\* The topic the role joins, and the one the page listens to.
Topic(c) == CASE tabs[c].page = "owner" -> "restaurant"
              [] tabs[c].page = "admin" -> "admin"
              [] OTHER                  -> "customer"

TypeOK ==
  /\ order \in Versions
  /\ conns \in [Connections -> Connection]
  /\ active \subseteq Connections
  /\ topics \in [Topics -> SUBSET Connections]
  /\ joined \in [Connections -> SUBSET Topics]
  /\ bus \in [Topics -> Nat]
  /\ pubs \in [Publishers -> Publisher]
  /\ tabs \in [Tabs -> Tab]

\* A tab has just been loaded and is about to connect.
Init ==
  /\ order = 0
  /\ conns = [k \in Connections |-> Unused]
  /\ active = {}
  /\ topics = [t \in Topics |-> {}]
  /\ joined = [k \in Connections |-> {}]
  /\ bus = [t \in Topics |-> 0]
  /\ pubs = [p \in Publishers |-> NoEvent]
  /\ \E page \in [Tabs -> Pages] :
       tabs = [c \in Tabs |-> [page |-> page[c], ws |-> None, retry |-> TRUE, attempts |-> 0,
                               view |-> 0, fetch |-> None, dirty |-> FALSE]]

server == <<active, topics, joined, bus>>

-----------------------------------------------------------------------------
(* The tab                                                                  *)

\* onopen: the healing event if this was a reconnection.  It carries no payload:
\* the page of one order does not take it for its own.
Opened(tab) ==
  [tab EXCEPT !.retry = FALSE, !.attempts = 0,
              !.dirty = @ \/ (tab.attempts > 0 /\ tab.page # "detail")]

\* Mutant (for the checks only): tries once more than it may.
Closed_OnceMore(tab) ==
  IF tab.attempts <= MaxAttempts
  THEN [tab EXCEPT !.ws = None, !.retry = TRUE, !.attempts = @ + 1]
  ELSE [tab EXCEPT !.ws = None, !.retry = FALSE]

\* onclose
Closed(tab) ==
  IF tab.attempts < MaxAttempts
  THEN [tab EXCEPT !.ws = None, !.retry = TRUE, !.attempts = @ + 1]
  ELSE [tab EXCEPT !.ws = None, !.retry = FALSE]

TabsAfterClose(k) ==
  [c \in Tabs |-> IF tabs[c].ws = k THEN Closed(tabs[c]) ELSE tabs[c]]

\* Ids that no connection has had: one is as good as another.
Fresh == {k \in Connections : conns[k].pc = "unused"}

\* connect, and the endpoint's first accept.
Connect(c) ==
  /\ tabs[c].ws = None /\ tabs[c].retry
  /\ Fresh # {}
  /\ LET k == CHOOSE k \in Fresh : TRUE IN
       /\ conns' = [conns EXCEPT ![k] = [tab |-> c, pc |-> "accepted", open |-> TRUE]]
       /\ tabs' = [tabs EXCEPT ![c] = [Opened(@) EXCEPT !.ws = k]]
  /\ UNCHANGED <<order, pubs, server>>

\* The token has expired: accepted and closed with code 1008, after which the tab
\* does not reconnect.
Refused(c) ==
  /\ tabs[c].ws = None /\ tabs[c].retry
  /\ tabs' = [tabs EXCEPT ![c] = Opened(@)]
  /\ UNCHANGED <<order, conns, pubs, server>>

Unreachable(c) ==
  /\ tabs[c].ws = None /\ tabs[c].retry
  /\ tabs' = [tabs EXCEPT ![c] = Closed(@)]
  /\ UNCHANGED <<order, conns, pubs, server>>

\* The connection breaks, or the tab is left.
Lose(k) ==
  /\ conns[k].open
  /\ conns' = [conns EXCEPT ![k].open = FALSE]
  /\ tabs' = TabsAfterClose(k)
  /\ UNCHANGED <<order, pubs, server>>

\* Mutant (for the checks only): an answer on its way is taken for the new one.
Refetch_Joined(c) ==
  /\ tabs[c].dirty
  /\ tabs' = [tabs EXCEPT ![c].dirty = FALSE, ![c].fetch = IF @ = None THEN order ELSE @]
  /\ UNCHANGED <<order, conns, pubs, server>>

\* An invalidated query is fetched again, the answer to an earlier fetch dropped.
Refetch(c) ==
  /\ tabs[c].dirty
  /\ tabs' = [tabs EXCEPT ![c].dirty = FALSE, ![c].fetch = order]
  /\ UNCHANGED <<order, conns, pubs, server>>

Show(c) ==
  /\ tabs[c].fetch # None /\ ~tabs[c].dirty
  /\ tabs' = [tabs EXCEPT ![c].view = tabs[c].fetch, ![c].fetch = None]
  /\ UNCHANGED <<order, conns, pubs, server>>

-----------------------------------------------------------------------------
(* The connection manager and its registry                                  *)

\* disconnect, of each of K that is still active.
Disconnect(K) ==
  /\ active' = active \ K
  /\ topics' = [t \in Topics |-> topics[t] \ (K \cap active)]
  /\ joined' = [k \in Connections |-> IF k \in K \cap active THEN {} ELSE joined[k]]

\* The manager listens once to each topic a connection ever joined.
HandlersFor(T) == [t \in Topics |-> IF t \in T /\ bus[t] = 0 THEN 1 ELSE bus[t]]

Join(k, T) ==
  /\ topics' = [t \in Topics |-> IF t \in T THEN topics[t] \cup {k} ELSE topics[t]]
  /\ joined' = [joined EXCEPT ![k] = @ \cup T]
  /\ bus' = HandlersFor(T)

-----------------------------------------------------------------------------
(* The endpoint                                                             *)

\* connect accepts the connection again, which the pinned framework always
\* refuses: that raises, and nothing is registered.  "passes" stands for the
\* endpoint as it is meant, accepting once; it only adds behaviour.
AcceptAgainRaises(k) ==
  /\ conns[k].pc = "accepted"
  /\ "raises" \in SecondAccept \/ ~conns[k].open
  /\ conns' = [conns EXCEPT ![k].pc = "dead", ![k].open = FALSE]
  /\ tabs' = TabsAfterClose(k)
  /\ UNCHANGED <<order, pubs, server>>

\* A customer's and an admin's topics are known from the token.
Register(k) ==
  /\ conns[k].pc = "accepted" /\ conns[k].open /\ "passes" \in SecondAccept
  /\ tabs[conns[k].tab].page # "owner"
  /\ active' = active \cup {k}
  /\ Join(k, {"user", Topic(conns[k].tab)})
  /\ conns' = [conns EXCEPT ![k].pc = "loop"]
  /\ UNCHANGED <<order, pubs, tabs>>

\* An owner's are looked up, with a session factory that was not set when it was
\* imported and a user id that is no UUID: that raises outside of the try, and
\* nothing takes the connection off the registry.
RegisterOwner(k) ==
  /\ conns[k].pc = "accepted" /\ conns[k].open /\ "passes" \in SecondAccept
  /\ tabs[conns[k].tab].page = "owner"
  /\ active' = active \cup {k}
  /\ Join(k, {"user"})
  /\ conns' = [conns EXCEPT ![k].pc = "dead", ![k].open = FALSE]
  /\ tabs' = TabsAfterClose(k)
  /\ UNCHANGED <<order, pubs>>

Looping(k) == conns[k].pc = "loop" /\ conns[k].open

\* Mutant (for the checks only): does not look whether the connection is active.
ReceiveSubscribe_Pruned(k) ==
  /\ Looping(k)
  /\ Join(k, {"user"})
  /\ UNCHANGED <<order, conns, active, pubs, tabs>>

\* The topics of a role cannot be asked for.
ReceiveSubscribe(k) ==
  /\ Looping(k) /\ k \in active
  /\ Join(k, {"user"})
  /\ UNCHANGED <<order, conns, active, pubs, tabs>>

\* The endpoint lets go of any topic it is told to; the tab sends this only for
\* what it has asked for itself, which is never its role's topic.
ReceiveUnsubscribe(k) ==
  /\ Looping(k) /\ k \in active
  /\ topics' = [topics EXCEPT !["user"] = @ \ {k}]
  /\ joined' = [joined EXCEPT ![k] = @ \ {"user"}]
  /\ UNCHANGED <<order, conns, active, bus, pubs, tabs>>

\* WebSocketDisconnect
EndLoop(k) ==
  /\ conns[k].pc = "loop" /\ ~conns[k].open
  /\ Disconnect({k})
  /\ conns' = [conns EXCEPT ![k].pc = "dead"]
  /\ UNCHANGED <<order, bus, pubs, tabs>>

\* Mutant (for the checks only): looks at connections that are still open only.
PruneStale_Open(K) ==
  /\ K # {} /\ K \subseteq {k \in active : conns[k].open}
  /\ Disconnect(K)
  /\ UNCHANGED <<order, conns, bus, pubs, tabs>>

\* prune_stale_connections: K are those not heard of for the timeout, which may be
\* any (a tab's timers stand still in the background).  Their sockets stay open and
\* their coroutines go on.
PruneStale(K) ==
  /\ K # {} /\ K \subseteq active
  /\ Disconnect(K)
  /\ UNCHANGED <<order, conns, bus, pubs, tabs>>

-----------------------------------------------------------------------------
(* A service and the event bus                                              *)

ChangeOrder(p) ==
  /\ p = order + 1
  /\ order' = p
  /\ \E s \in Scopes :
       pubs' = [pubs EXCEPT ![p] = [NoEvent EXCEPT !.pc = "publish", !.scopes = s]]
  /\ UNCHANGED <<conns, tabs, server>>

\* What is left after the first scope.
NextScope(pub) ==
  IF Len(pub.scopes) = 1 THEN NoEvent
  ELSE [pub EXCEPT !.pc = "publish", !.scopes = Tail(@), !.todo = 0, !.left = {}]

\* A task for each handler; without one the event is dropped.
Publish(p) ==
  LET handlers == bus[Head(pubs[p].scopes)] IN
  /\ pubs[p].pc = "publish"
  /\ pubs' = [pubs EXCEPT ![p] =
       IF handlers = 0 THEN NextScope(@) ELSE [@ EXCEPT !.pc = "task", !.todo = handlers]]
  /\ UNCHANGED <<order, conns, tabs, server>>

\* _broadcast_event up to its first send.
StartBroadcast(p) ==
  /\ pubs[p].pc = "task"
  /\ pubs' = [pubs EXCEPT ![p].pc = "send",
       ![p].left = topics[Head(pubs[p].scopes)] \cup topics["admin"]]
  /\ UNCHANGED <<order, conns, tabs, server>>

\* The event is for the page if it listens to the event's topic.
Received(k, scope) ==
  [c \in Tabs |-> IF tabs[c].ws = k /\ Topic(c) = scope
                  THEN [tabs[c] EXCEPT !.dirty = TRUE] ELSE tabs[c]]

SendEvent(p, k) ==
  /\ pubs[p].pc = "send" /\ k \in pubs[p].left
  /\ k \in active /\ conns[k].open
  /\ tabs' = Received(k, Head(pubs[p].scopes))
  /\ pubs' = [pubs EXCEPT ![p].left = @ \ {k}]
  /\ UNCHANGED <<order, conns, server>>

SendFails(p, k) ==
  /\ pubs[p].pc = "send" /\ k \in pubs[p].left
  /\ k \in active /\ ~conns[k].open
  /\ Disconnect({k})
  /\ pubs' = [pubs EXCEPT ![p].left = @ \ {k}]
  /\ UNCHANGED <<order, conns, tabs, bus>>

\* One that was disconnected since is passed over.
SkipConnection(p, k) ==
  /\ pubs[p].pc = "send" /\ k \in pubs[p].left \ active
  /\ pubs' = [pubs EXCEPT ![p].left = @ \ {k}]
  /\ UNCHANGED <<order, conns, tabs, server>>

\* The task ends; when all have, so does publish.
EndBroadcast(p) ==
  /\ pubs[p].pc = "send" /\ pubs[p].left = {}
  /\ pubs' = [pubs EXCEPT ![p] =
       IF @.todo > 1 THEN [@ EXCEPT !.pc = "task", !.todo = pubs[p].todo - 1] ELSE NextScope(@)]
  /\ UNCHANGED <<order, conns, tabs, server>>

Deliver(p) ==
  \/ Publish(p) \/ StartBroadcast(p) \/ EndBroadcast(p)
  \/ \E k \in Connections : SendEvent(p, k) \/ SendFails(p, k) \/ SkipConnection(p, k)

-----------------------------------------------------------------------------

Next ==
  \/ \E c \in Tabs : Connect(c) \/ Refused(c) \/ Unreachable(c) \/ Refetch(c) \/ Show(c)
  \/ \E k \in Connections :
       \/ Lose(k) \/ AcceptAgainRaises(k) \/ Register(k) \/ RegisterOwner(k)
       \/ ReceiveSubscribe(k) \/ ReceiveUnsubscribe(k) \/ EndLoop(k)
  \/ \E K \in SUBSET Connections : PruneStale(K)
  \/ \E p \in Publishers : ChangeOrder(p) \/ Deliver(p)

Spec == Init /\ [][Next]_vars

\* A round of the pruner that finds k, whose socket is gone: nothing will be heard
\* of it.
PruneDead(k) ==
  \E K \in SUBSET Connections : k \in K /\ ~conns[k].open /\ PruneStale(K)

\* The event loop runs every task that is ready, the pruner among them, and a tab
\* gets its answers.
Fairness ==
  /\ \A p \in Publishers : WF_vars(Deliver(p))
  /\ \A c \in Tabs : WF_vars(Refetch(c) \/ Show(c))
  /\ \A k \in Connections : WF_vars(PruneDead(k))

FairSpec == Spec /\ Fairness
=============================================================================
