------------------------- MODULE RealtimeProperties -------------------------
(***************************************************************************)
(* What the tabs may count on.                                             *)
(***************************************************************************)
EXTENDS Realtime

\* The registry's two maps say the same, and only of connections that are active:
\* whatever a connection's coroutine, the broadcasts and the pruning do to it
\* between their awaits, a connection given up leaves nothing behind.
RegistryAgrees ==
  /\ \A t \in Topics, k \in Connections : k \in topics[t] <=> t \in joined[k]
  /\ \A k \in Connections : joined[k] # {} => k \in active
  /\ \A t \in Topics : topics[t] # {} => bus[t] = 1

Subscribed(c) == /\ tabs[c].ws # None
                 /\ tabs[c].ws \in topics[Topic(c)]

\* About to be published to the topic that the tab listens to.
Announced(c) ==
  \E p \in Publishers : pubs[p].pc = "publish" /\ Head(pubs[p].scopes) = Topic(c)

\* A tab that is subscribed when a change is published comes to show the order as it
\* then was, or a later one, unless it loses its subscription: in whatever order the
\* events of several requests arrive, and whatever it was fetching.
SubscriberCatchesUp ==
  \A c \in Tabs, v \in 1..MaxChanges :
    (Announced(c) /\ Subscribed(c) /\ order = v) ~> (tabs[c].view >= v \/ ~Subscribed(c))

\* A connection whose socket is gone is taken off the registry, also one whose
\* coroutine died before it could do so.
DeadAreRemoved ==
  \A k \in Connections : (k \in active /\ ~conns[k].open) ~> (k \notin active)

\* Whoever connects joins the topic of its role.
JoinsItsTopic ==
  [][\A k \in active' \ active : k \in topics'[Topic(conns[k].tab)]]_vars
=============================================================================
