--------------------------- MODULE RealtimeProofs ---------------------------
(***************************************************************************)
(* For any number of tabs, connections and overlapping changes: the        *)
(* registry's two maps agree, hold active connections only and have their  *)
(* handlers, at every await of the endpoint, the broadcasts and the        *)
(* pruner.  The argument is that only three things touch the registry:     *)
(* joining, which an active connection does, giving up a topic, and        *)
(* disconnecting, which takes a connection out of all maps at once; and    *)
(* that a handler once registered stays.                                   *)
(***************************************************************************)
EXTENDS RealtimeProperties, TLAPS

-----------------------------------------------------------------------------
(* The registry                                                             *)

RegistryTypes ==
  /\ active \subseteq Connections
  /\ topics \in [Topics -> SUBSET Connections]
  /\ joined \in [Connections -> SUBSET Topics]
  /\ bus \in [Topics -> {0, 1}]

RegistryInv == RegistryTypes /\ RegistryAgrees

LEMMA DisconnectKeeps ==
  ASSUME RegistryInv, NEW K, Disconnect(K), bus' = bus
  PROVE  RegistryInv'
<1> DEFINE gone == K \cap active
<1>1. RegistryTypes /\ RegistryAgrees
  BY DEF RegistryInv
<1>2. /\ active' = active \ K
      /\ topics' = [t \in Topics |-> topics[t] \ gone]
      /\ joined' = [k \in Connections |-> IF k \in gone THEN {} ELSE joined[k]]
  BY DEF Disconnect
<1>3. RegistryTypes'
  BY <1>1, <1>2 DEF RegistryTypes
<1>4. \A t \in Topics, k \in Connections : k \in topics'[t] <=> t \in joined'[k]
  BY <1>1, <1>2 DEF RegistryAgrees, RegistryTypes
<1>5. \A k \in Connections : joined'[k] # {} => k \in active'
  BY <1>1, <1>2 DEF RegistryAgrees
<1>6. \A t \in Topics : topics'[t] # {} => bus'[t] = 1
  BY <1>1, <1>2 DEF RegistryAgrees, RegistryTypes
<1>. QED
  BY <1>3, <1>4, <1>5, <1>6 DEF RegistryInv, RegistryAgrees

LEMMA JoinKeeps ==
  ASSUME RegistryInv, NEW k \in Connections, NEW T \in SUBSET Topics, Join(k, T),
         active' = active \cup {k}
  PROVE  RegistryInv'
<1>1. RegistryTypes /\ RegistryAgrees
  BY DEF RegistryInv
<1>2. /\ topics' = [t \in Topics |-> IF t \in T THEN topics[t] \cup {k} ELSE topics[t]]
      /\ joined' = [joined EXCEPT ![k] = joined[k] \cup T]
      /\ bus' = [t \in Topics |-> IF t \in T /\ bus[t] = 0 THEN 1 ELSE bus[t]]
  BY DEF Join, HandlersFor
<1>3. RegistryTypes'
  BY <1>1, <1>2 DEF RegistryTypes
<1>4. \A t \in Topics, c \in Connections : c \in topics'[t] <=> t \in joined'[c]
  BY <1>1, <1>2 DEF RegistryAgrees, RegistryTypes
<1>5. \A c \in Connections : joined'[c] # {} => c \in active'
  BY <1>1, <1>2 DEF RegistryAgrees, RegistryTypes
<1>6. \A t \in Topics : topics'[t] # {} => bus'[t] = 1
  BY <1>1, <1>2 DEF RegistryAgrees, RegistryTypes
<1>. QED
  BY <1>3, <1>4, <1>5, <1>6 DEF RegistryInv, RegistryAgrees

LEMMA TopicIsOne == \A c : Topic(c) \in Topics
BY DEF Topic, Topics

\* The steps that leave the registry alone.
LEMMA ServerRests ==
  ASSUME RegistryInv, UNCHANGED server
  PROVE  RegistryInv'
BY DEF server, RegistryInv, RegistryTypes, RegistryAgrees

LEMMA EndpointKeeps ==
  ASSUME RegistryInv, NEW k \in Connections,
         \/ Lose(k) \/ AcceptAgainRaises(k) \/ Register(k) \/ RegisterOwner(k)
         \/ ReceiveSubscribe(k) \/ ReceiveUnsubscribe(k) \/ EndLoop(k)
  PROVE  RegistryInv'
<1>1. CASE Lose(k) \/ AcceptAgainRaises(k)
  BY <1>1, ServerRests DEF Lose, AcceptAgainRaises
<1>2. CASE Register(k)
  <2>1. {"user", Topic(conns[k].tab)} \in SUBSET Topics
    BY TopicIsOne DEF Topics
  <2>. QED  BY <1>2, <2>1, JoinKeeps DEF Register
<1>3. CASE RegisterOwner(k) \/ ReceiveSubscribe(k)
  <2>1. {"user"} \in SUBSET Topics
    BY DEF Topics
  <2>2. Join(k, {"user"}) /\ active' = active \cup {k}
    BY <1>3 DEF RegisterOwner, ReceiveSubscribe
  <2>. QED  BY <2>1, <2>2, JoinKeeps
<1>4. CASE ReceiveUnsubscribe(k)
  <2>1. RegistryTypes /\ RegistryAgrees /\ "user" \in Topics
    BY DEF RegistryInv, Topics
  <2>2. /\ k \in active /\ active' = active /\ bus' = bus
        /\ topics' = [topics EXCEPT !["user"] = topics["user"] \ {k}]
        /\ joined' = [joined EXCEPT ![k] = joined[k] \ {"user"}]
    BY <1>4 DEF ReceiveUnsubscribe
  <2>3. RegistryTypes'
    BY <2>1, <2>2 DEF RegistryTypes
  <2>4. \A t \in Topics, c \in Connections : c \in topics'[t] <=> t \in joined'[c]
    BY <2>1, <2>2 DEF RegistryAgrees, RegistryTypes
  <2>5. \A c \in Connections : joined'[c] # {} => c \in active'
    BY <2>1, <2>2 DEF RegistryAgrees, RegistryTypes
  <2>6. \A t \in Topics : topics'[t] # {} => bus'[t] = 1
    BY <2>1, <2>2 DEF RegistryAgrees, RegistryTypes
  <2>. QED  BY <2>3, <2>4, <2>5, <2>6 DEF RegistryInv, RegistryAgrees
<1>5. CASE EndLoop(k)
  BY <1>5, DisconnectKeeps DEF EndLoop
<1>. QED
  BY <1>1, <1>2, <1>3, <1>4, <1>5

LEMMA RegistryInit == Init => RegistryInv
BY DEF Init, RegistryInv, RegistryTypes, RegistryAgrees

LEMMA RegistryNext == RegistryInv /\ [Next]_vars => RegistryInv'
<1>1. SUFFICES ASSUME RegistryInv, [Next]_vars
               PROVE  RegistryInv'
  OBVIOUS
<1>2. CASE UNCHANGED vars
  BY <1>1, <1>2, ServerRests DEF vars, server
<1>3. ASSUME NEW c \in Tabs,
             Connect(c) \/ Refused(c) \/ Unreachable(c) \/ Refetch(c) \/ Show(c)
      PROVE  RegistryInv'
  BY <1>1, <1>3, ServerRests DEF Connect, Refused, Unreachable, Refetch, Show
<1>4. ASSUME NEW K \in SUBSET Connections, PruneStale(K)
      PROVE  RegistryInv'
  BY <1>1, <1>4, DisconnectKeeps DEF PruneStale
<1>5. ASSUME NEW p \in Publishers, ChangeOrder(p) \/ Deliver(p)
      PROVE  RegistryInv'
  <2>1. CASE \E k \in Connections : SendFails(p, k)
    BY <1>1, <2>1, DisconnectKeeps DEF SendFails
  <2>2. CASE \/ ChangeOrder(p) \/ Publish(p) \/ StartBroadcast(p) \/ EndBroadcast(p)
             \/ \E k \in Connections : SendEvent(p, k) \/ SkipConnection(p, k)
    BY <1>1, <2>2, ServerRests
       DEF ChangeOrder, Publish, StartBroadcast, EndBroadcast, SendEvent, SkipConnection
  <2>. QED  BY <1>5, <2>1, <2>2 DEF Deliver
<1>. QED
  BY <1>1, <1>2, <1>3, <1>4, <1>5, EndpointKeeps DEF Next

\* For any number of tabs, connections and changes, with or without fairness, a
\* connection that was given up leaves nothing behind in the registry.
THEOREM RegistryCorrect == Spec => []RegistryAgrees
<1>1. RegistryInv => RegistryAgrees
  BY DEF RegistryInv
<1>. QED
  BY <1>1, RegistryInit, RegistryNext, PTL DEF Spec

-----------------------------------------------------------------------------
(* Types                                                                    *)

ScopeLists == {<<>>} \cup Scopes \cup {Tail(s) : s \in Scopes}

\* A publisher under way has a scope left to publish to.
PublishersFit == \A p \in Publishers : pubs[p].pc # "idle" => pubs[p].scopes # <<>>

Types == TypeOK /\ RegistryInv /\ PublishersFit

LEMMA ScopesShape ==
  ASSUME NEW list \in ScopeLists, list # <<>>
  PROVE  /\ Head(list) \in Topics
         /\ Len(list) # 1 => Tail(list) \in ScopeLists /\ Tail(list) # <<>>
<1> DEFINE two == <<"restaurant", "customer">>
           other == <<"rider", "restaurant">>
           three == <<"rider", "restaurant", "customer">>
<1>1. Scopes = {two, other, three}
  BY DEF Scopes
<1>2. /\ Tail(two) = <<"customer">> /\ Tail(other) = <<"restaurant">>
      /\ Tail(three) = two
  OBVIOUS
<1>3. ScopeLists = {<<>>, two, other, three, <<"customer">>, <<"restaurant">>}
  BY <1>1, <1>2 DEF ScopeLists
<1>4. CASE list = two
  <2>1. Head(two) = "restaurant" /\ Tail(two) = <<"customer">> /\ <<"customer">> # <<>>
    OBVIOUS
  <2>2. <<"customer">> \in ScopeLists
    BY <1>3
  <2>. HIDE DEF two, other, three
  <2>. QED  BY <1>4, <2>1, <2>2 DEF Topics
<1>5. CASE list = other
  <2>1. Head(other) = "rider" /\ Tail(other) = <<"restaurant">> /\ <<"restaurant">> # <<>>
    OBVIOUS
  <2>2. <<"restaurant">> \in ScopeLists
    BY <1>3
  <2>. HIDE DEF two, other, three
  <2>. QED  BY <1>5, <2>1, <2>2 DEF Topics
<1>6. CASE list = three
  <2>1. Head(three) = "rider" /\ Tail(three) = two /\ two # <<>>
    OBVIOUS
  <2>2. two \in ScopeLists
    BY <1>3
  <2>. HIDE DEF two, other, three
  <2>. QED  BY <1>6, <2>1, <2>2 DEF Topics
<1>7. CASE list = <<"customer">> \/ list = <<"restaurant">>
  <2>1. Head(<<"customer">>) = "customer" /\ Len(<<"customer">>) = 1
    OBVIOUS
  <2>2. Head(<<"restaurant">>) = "restaurant" /\ Len(<<"restaurant">>) = 1
    OBVIOUS
  <2>. QED  BY <1>7, <2>1, <2>2 DEF Topics
<1>. QED
  <2>. HIDE DEF two, other, three
  <2>. QED  BY <1>3, <1>4, <1>5, <1>6, <1>7

LEMMA TabTypes ==
  ASSUME TypeOK, NEW tab \in Tab
  PROVE  /\ Opened(tab) \in Tab /\ Closed(tab) \in Tab
         /\ [tab EXCEPT !.dirty = TRUE] \in Tab
         /\ [tab EXCEPT !.dirty = FALSE, !.fetch = order] \in Tab
         /\ tab.fetch # None => [tab EXCEPT !.view = tab.fetch, !.fetch = None] \in Tab
         /\ \A k \in Connections : [Opened(tab) EXCEPT !.ws = k] \in Tab
<1>0. 0 \in 0..MaxAttempts
  BY RealtimeAssumption
<1>1. order \in Versions /\ tab.attempts \in 0..MaxAttempts
  BY DEF TypeOK, Tab
<1>2. Opened(tab) \in Tab
  <2> DEFINE dirty == tab.dirty \/ (tab.attempts > 0 /\ tab.page # "detail")
  <2>1. Opened(tab) = [tab EXCEPT !.retry = FALSE, !.attempts = 0, !.dirty = dirty]
    BY DEF Opened
  <2>2. dirty \in BOOLEAN
    OBVIOUS
  <2>. HIDE DEF dirty
  <2>. QED  BY <1>0, <2>1, <2>2 DEF Tab
<1>. USE RealtimeAssumption DEF Tab
<1>3. Closed(tab) \in Tab
  <2>1. CASE tab.attempts < MaxAttempts
    <3>1. tab.attempts + 1 \in 0..MaxAttempts
      BY <1>1, <2>1
    <3>. QED  BY <2>1, <3>1 DEF Closed
  <2>2. CASE ~(tab.attempts < MaxAttempts)
    BY <2>2 DEF Closed
  <2>. QED  BY <2>1, <2>2
<1>. QED
  BY <1>1, <1>2, <1>3

LEMMA AfterClose ==
  ASSUME TypeOK, NEW k
  PROVE  TabsAfterClose(k) \in [Tabs -> Tab]
BY TabTypes DEF TabsAfterClose, TypeOK

\* The registry's types are part of TypeOK.
LEMMA TypesAgain ==
  ASSUME order' \in Versions, conns' \in [Connections -> Connection],
         tabs' \in [Tabs -> Tab], pubs' \in [Publishers -> Publisher],
         PublishersFit', RegistryInv'
  PROVE  Types'
<1>1. RegistryTypes'
  BY DEF RegistryInv
<1>2. bus' \in [Topics -> Nat]
  <2>1. {0, 1} \subseteq Nat /\ bus' \in [Topics -> {0, 1}]
    BY <1>1 DEF RegistryTypes
  <2>. QED  BY <2>1
<1>. QED
  BY <1>1, <1>2 DEF Types, TypeOK, RegistryTypes

\* Steps that no publisher takes.
LEMMA PublishersRest ==
  ASSUME Types, pubs' = pubs, order' = order
  PROVE  order' \in Versions /\ pubs' \in [Publishers -> Publisher] /\ PublishersFit'
BY DEF Types, TypeOK, PublishersFit

\* What every step of a tab, a connection and a publisher leaves.
LEMMA TabStep ==
  ASSUME Types, NEW c \in Tabs,
         Connect(c) \/ Refused(c) \/ Unreachable(c) \/ Refetch(c) \/ Show(c)
  PROVE  Types'
<1>1. /\ TypeOK /\ PublishersFit /\ tabs \in [Tabs -> Tab] /\ tabs[c] \in Tab
      /\ conns \in [Connections -> Connection]
  BY DEF Types, TypeOK
<1>2. /\ order' = order /\ pubs' = pubs /\ UNCHANGED server
  BY DEF Connect, Refused, Unreachable, Refetch, Show
<1>3. conns' \in [Connections -> Connection] /\ tabs' \in [Tabs -> Tab]
  <2>1. CASE Connect(c)
    <3> DEFINE k == CHOOSE k \in Fresh : TRUE
               new == [tab |-> c, pc |-> "accepted", open |-> TRUE]
               tab == [Opened(tabs[c]) EXCEPT !.ws = k]
    <3>1. k \in Connections
      BY <2>1 DEF Connect, Fresh
    <3>2. /\ conns' = [conns EXCEPT ![k] = new]
          /\ tabs' = [tabs EXCEPT ![c] = tab]
      BY <2>1 DEF Connect
    <3>3. new \in Connection
      BY DEF Connection
    <3>. HIDE DEF k, new
    <3>4. tab \in Tab
      BY <1>1, <3>1, TabTypes
    <3>. HIDE DEF tab
    <3>. QED  BY <1>1, <3>2, <3>3, <3>4
  <2>2. CASE Refused(c)
    BY <1>1, <2>2, TabTypes DEF Refused
  <2>3. CASE Unreachable(c)
    BY <1>1, <2>3, TabTypes DEF Unreachable
  <2>4. CASE Refetch(c)
    <3>1. tabs' = [tabs EXCEPT ![c] = [tabs[c] EXCEPT !.dirty = FALSE, !.fetch = order]]
      BY <1>1, <2>4 DEF Refetch, Tab
    <3>. QED  BY <1>1, <2>4, <3>1, TabTypes DEF Refetch
  <2>5. CASE Show(c)
    <3>1. tabs' = [tabs EXCEPT ![c] = [tabs[c] EXCEPT !.view = tabs[c].fetch, !.fetch = None]]
      BY <1>1, <2>5 DEF Show, Tab
    <3>. QED  BY <1>1, <2>5, <3>1, TabTypes DEF Show
  <2>. QED  BY <2>1, <2>2, <2>3, <2>4, <2>5
<1>4. RegistryInv'
  BY <1>2, ServerRests DEF Types
<1>. QED
  BY <1>2, <1>3, <1>4, PublishersRest, TypesAgain

LEMMA ConnectionStep ==
  ASSUME Types, NEW k \in Connections,
         \/ Lose(k) \/ AcceptAgainRaises(k) \/ Register(k) \/ RegisterOwner(k)
         \/ ReceiveSubscribe(k) \/ ReceiveUnsubscribe(k) \/ EndLoop(k)
  PROVE  Types'
<1>1. /\ TypeOK /\ PublishersFit /\ RegistryInv /\ tabs \in [Tabs -> Tab]
      /\ conns \in [Connections -> Connection] /\ conns[k] \in Connection
  BY DEF Types, TypeOK
<1>2. order' = order /\ pubs' = pubs
  BY DEF Lose, AcceptAgainRaises, Register, RegisterOwner, ReceiveSubscribe,
         ReceiveUnsubscribe, EndLoop, server
<1>3. tabs' \in [Tabs -> Tab]
  BY <1>1, AfterClose
     DEF Lose, AcceptAgainRaises, Register, RegisterOwner, ReceiveSubscribe,
         ReceiveUnsubscribe, EndLoop
<1>4. conns' \in [Connections -> Connection]
  <2>1. CASE Lose(k)
    BY <1>1, <2>1 DEF Lose, Connection
  <2>2. CASE AcceptAgainRaises(k)
    BY <1>1, <2>2 DEF AcceptAgainRaises, Connection
  <2>3. CASE Register(k)
    BY <1>1, <2>3 DEF Register, Connection
  <2>4. CASE RegisterOwner(k)
    BY <1>1, <2>4 DEF RegisterOwner, Connection
  <2>5. CASE ReceiveSubscribe(k) \/ ReceiveUnsubscribe(k)
    BY <1>1, <2>5 DEF ReceiveSubscribe, ReceiveUnsubscribe
  <2>6. CASE EndLoop(k)
    BY <1>1, <2>6 DEF EndLoop, Connection
  <2>. QED  BY <2>1, <2>2, <2>3, <2>4, <2>5, <2>6
<1>5. RegistryInv'
  BY <1>1, EndpointKeeps
<1>. QED
  BY <1>2, <1>3, <1>4, <1>5, PublishersRest, TypesAgain

LEMMA PublisherTypes ==
  ASSUME NEW pub \in Publisher, pub.scopes # <<>>, NEW n \in Nat,
         NEW left \in SUBSET Connections
  PROVE  /\ Head(pub.scopes) \in Topics
         /\ NextScope(pub) \in Publisher
         /\ NextScope(pub).pc # "idle" => NextScope(pub).scopes # <<>>
         /\ [pub EXCEPT !.pc = "task", !.todo = n] \in Publisher
         /\ [pub EXCEPT !.pc = "send", !.left = left] \in Publisher
         /\ [pub EXCEPT !.left = left] \in Publisher
<1>1. pub.scopes \in ScopeLists
  BY DEF Publisher, ScopeLists
<1>2. Head(pub.scopes) \in Topics
  BY <1>1, ScopesShape
<1>3. /\ NextScope(pub) \in Publisher
      /\ NextScope(pub).pc # "idle" => NextScope(pub).scopes # <<>>
  <2>1. CASE Len(pub.scopes) = 1
    <3>1. NextScope(pub) = NoEvent
      BY <2>1 DEF NextScope
    <3>. QED  BY <3>1 DEF NoEvent, Publisher
  <2>2. CASE Len(pub.scopes) # 1
    <3> DEFINE rest == Tail(pub.scopes)
    <3> DEFINE next == [pub EXCEPT !.pc = "publish", !.scopes = rest, !.todo = 0, !.left = {}]
    <3>1. NextScope(pub) = next
      BY <2>2 DEF NextScope
    <3>2. rest \in ScopeLists /\ rest # <<>>
      BY <1>1, <2>2, ScopesShape
    <3>. HIDE DEF rest
    <3>3. next \in Publisher /\ next.scopes = rest
      BY <3>2 DEF Publisher, ScopeLists
    <3>. HIDE DEF next
    <3>. QED  BY <3>1, <3>2, <3>3
  <2>. QED  BY <2>1, <2>2
<1>4. /\ [pub EXCEPT !.pc = "task", !.todo = n] \in Publisher
      /\ [pub EXCEPT !.pc = "send", !.left = left] \in Publisher
      /\ [pub EXCEPT !.left = left] \in Publisher
  BY DEF Publisher
<1>. QED
  BY <1>2, <1>3, <1>4

LEMMA DeliverStep ==
  ASSUME Types, NEW p \in Publishers, Deliver(p)
  PROVE  order' \in Versions /\ pubs' \in [Publishers -> Publisher] /\ PublishersFit'
<1>1. /\ pubs \in [Publishers -> Publisher] /\ order \in Versions /\ PublishersFit
      /\ topics \in [Topics -> SUBSET Connections] /\ bus \in [Topics -> Nat]
  BY DEF Types, TypeOK
<1>2. pubs[p] \in Publisher /\ pubs[p].pc # "idle" /\ pubs[p].scopes # <<>>
  <2>1. pubs[p].pc # "idle"
    BY DEF Deliver, Publish, StartBroadcast, EndBroadcast, SendEvent, SendFails, SkipConnection
  <2>. QED  BY <1>1, <2>1 DEF PublishersFit
<1>3. SUFFICES ASSUME NEW pub \in Publisher, pub.pc # "idle" => pub.scopes # <<>>,
                      pubs' = [pubs EXCEPT ![p] = pub], order' = order
               PROVE  order' \in Versions /\ pubs' \in [Publishers -> Publisher] /\ PublishersFit'
  <2>1. order' = order
    BY DEF Deliver, Publish, StartBroadcast, EndBroadcast, SendEvent, SendFails, SkipConnection
  <2>2. \E pub \in Publisher : /\ pub.pc # "idle" => pub.scopes # <<>>
                               /\ pubs' = [pubs EXCEPT ![p] = pub]
    <3> DEFINE scope == Head(pubs[p].scopes)
    <3>1. scope \in Topics /\ bus[scope] \in Nat /\ topics[scope] \cup topics["admin"] \in SUBSET Connections
      <4>1. scope \in Topics /\ "admin" \in Topics
        BY <1>2, PublisherTypes DEF Topics
      <4>. HIDE DEF scope
      <4>. QED  BY <1>1, <4>1
    <3>2. CASE Publish(p)
      <4>1. CASE bus[scope] = 0
        <5>1. pubs' = [pubs EXCEPT ![p] = NextScope(pubs[p])]
          BY <3>2, <4>1 DEF Publish
        <5>. QED  BY <1>2, <5>1, PublisherTypes
      <4>2. CASE bus[scope] # 0
        <5> DEFINE pub == [pubs[p] EXCEPT !.pc = "task", !.todo = bus[scope]]
        <5>1. pubs' = [pubs EXCEPT ![p] = pub]
          BY <3>2, <4>2 DEF Publish
        <5>2. pub \in Publisher /\ pub.scopes = pubs[p].scopes
          BY <1>2, <3>1, PublisherTypes DEF Publisher
        <5>. HIDE DEF pub
        <5>. QED  BY <1>2, <5>1, <5>2
      <4>. QED  BY <4>1, <4>2
    <3>3. CASE StartBroadcast(p)
      <4> DEFINE pub == [pubs[p] EXCEPT !.pc = "send", !.left = topics[scope] \cup topics["admin"]]
      <4>1. pubs' = [pubs EXCEPT ![p] = pub]
        BY <1>1, <1>2, <3>3 DEF StartBroadcast
      <4>2. pub \in Publisher /\ pub.scopes = pubs[p].scopes
        BY <1>2, <3>1, PublisherTypes DEF Publisher
      <4>. HIDE DEF pub
      <4>. QED  BY <1>2, <4>1, <4>2
    <3>4. CASE \E k \in Connections : SendEvent(p, k) \/ SendFails(p, k) \/ SkipConnection(p, k)
      <4>1. PICK k \in Connections : SendEvent(p, k) \/ SendFails(p, k) \/ SkipConnection(p, k)
        BY <3>4
      <4> DEFINE pub == [pubs[p] EXCEPT !.left = pubs[p].left \ {k}]
      <4>2. pubs' = [pubs EXCEPT ![p] = pub]
        BY <1>1, <1>2, <4>1 DEF SendEvent, SendFails, SkipConnection
      <4>3. pub \in Publisher /\ pub.scopes = pubs[p].scopes
        BY <1>2 DEF Publisher
      <4>. HIDE DEF pub
      <4>. QED  BY <1>2, <4>2, <4>3
    <3>5. CASE EndBroadcast(p)
      <4>1. CASE pubs[p].todo > 1
        <5> DEFINE pub == [pubs[p] EXCEPT !.pc = "task", !.todo = pubs[p].todo - 1]
        <5>1. pubs' = [pubs EXCEPT ![p] = pub]
          BY <3>5, <4>1 DEF EndBroadcast
        <5>2. pubs[p].todo - 1 \in Nat
          BY <1>2, <4>1 DEF Publisher
        <5>3. pub \in Publisher /\ pub.scopes = pubs[p].scopes
          BY <1>2, <5>2, PublisherTypes DEF Publisher
        <5>. HIDE DEF pub
        <5>. QED  BY <1>2, <5>1, <5>3
      <4>2. CASE ~(pubs[p].todo > 1)
        <5>1. pubs' = [pubs EXCEPT ![p] = NextScope(pubs[p])]
          BY <3>5, <4>2 DEF EndBroadcast
        <5>. QED  BY <1>2, <5>1, PublisherTypes
      <4>. QED  BY <4>1, <4>2
    <3>. QED  BY <3>2, <3>3, <3>4, <3>5 DEF Deliver
  <2>. QED  BY <2>1, <2>2
<1>. QED
  BY <1>1, <1>3 DEF PublishersFit

LEMMA ChangeStep ==
  ASSUME Types, NEW p \in Publishers, ChangeOrder(p)
  PROVE  order' \in Versions /\ pubs' \in [Publishers -> Publisher] /\ PublishersFit'
<1>1. pubs \in [Publishers -> Publisher] /\ PublishersFit
  BY DEF Types, TypeOK
<1>2. order' \in Versions
  BY RealtimeAssumption DEF ChangeOrder, Versions, Publishers
<1>3. PICK s \in Scopes :
        pubs' = [pubs EXCEPT ![p] = [NoEvent EXCEPT !.pc = "publish", !.scopes = s]]
  BY DEF ChangeOrder
<1>4. s \in ScopeLists /\ s # <<>>
  BY DEF ScopeLists, Scopes
<1>5. [NoEvent EXCEPT !.pc = "publish", !.scopes = s] \in Publisher
  BY <1>4 DEF NoEvent, Publisher, ScopeLists
<1>. QED
  BY <1>1, <1>2, <1>3, <1>4, <1>5 DEF PublishersFit, NoEvent

LEMMA TypesNext == Types /\ [Next]_vars => Types'
<1>1. SUFFICES ASSUME Types, [Next]_vars
               PROVE  Types'
  OBVIOUS
<1>2. TypeOK /\ RegistryInv' /\ tabs \in [Tabs -> Tab] /\ conns \in [Connections -> Connection]
  BY <1>1, RegistryNext DEF Types, TypeOK
<1>3. CASE UNCHANGED vars
  BY <1>1, <1>2, <1>3, PublishersRest, TypesAgain DEF vars
<1>4. ASSUME NEW K \in SUBSET Connections, PruneStale(K)
      PROVE  Types'
  BY <1>1, <1>2, <1>4, PublishersRest, TypesAgain DEF PruneStale
<1>5. ASSUME NEW p \in Publishers, ChangeOrder(p)
      PROVE  Types'
  BY <1>1, <1>2, <1>5, ChangeStep, TypesAgain DEF ChangeOrder
<1>6. ASSUME NEW p \in Publishers, Deliver(p)
      PROVE  Types'
  <2>1. conns' = conns
    BY <1>6 DEF Deliver, Publish, StartBroadcast, EndBroadcast, SendEvent, SendFails,
                SkipConnection
  <2>2. tabs' \in [Tabs -> Tab]
    <3>1. CASE tabs' = tabs
      BY <1>2, <3>1
    <3>2. CASE \E k : tabs' = Received(k, Head(pubs[p].scopes))
      BY <1>2, <3>2, TabTypes DEF Received
    <3>. QED
      BY <1>6, <3>1, <3>2
         DEF Deliver, Publish, StartBroadcast, EndBroadcast, SendEvent, SendFails,
             SkipConnection
  <2>. QED  BY <1>1, <1>2, <1>6, <2>1, <2>2, DeliverStep, TypesAgain
<1>. QED
  BY <1>1, <1>3, <1>4, <1>5, <1>6, TabStep, ConnectionStep DEF Next

\* For any number of tabs, connections and changes every step leaves the state
\* well typed: a publisher under way has a scope left, a tab counts no attempt
\* beyond the last, and what it shows is a version the order has had.
THEOREM RealtimeTypeCorrect == Spec => []TypeOK
<1>1. Init => Types
  <2>1. SUFFICES ASSUME Init PROVE Types
    OBVIOUS
  <2>2. RegistryInv
    BY <2>1, RegistryInit
  <2>3. /\ active \subseteq Connections /\ topics \in [Topics -> SUBSET Connections]
        /\ joined \in [Connections -> SUBSET Topics] /\ bus \in [Topics -> Nat]
    BY <2>1 DEF Init
  <2>4. order \in Versions /\ conns \in [Connections -> Connection]
    BY <2>1, RealtimeAssumption DEF Init, Versions, Connection, Unused
  <2>5. pubs \in [Publishers -> Publisher] /\ PublishersFit
    BY <2>1 DEF Init, Publisher, NoEvent, PublishersFit
  <2>6. tabs \in [Tabs -> Tab]
    BY <2>1, RealtimeAssumption DEF Init, Tab, Versions
  <2>. QED  BY <2>2, <2>3, <2>4, <2>5, <2>6 DEF Types, TypeOK
<1>2. Types => TypeOK
  BY DEF Types
<1>. QED
  BY <1>1, <1>2, TypesNext, PTL DEF Spec
=============================================================================
