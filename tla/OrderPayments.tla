--------------------------- MODULE OrderPayments ---------------------------
(***************************************************************************)
(* PaymentService: payment initialisation, gateway webhooks and refunds,   *)
(* with the desk handlers that move the same orders meanwhile.             *)
(*                                                                         *)
(* None of these handlers locks the order: they read it, talk to the       *)
(* gateway or to the database, and write the new status over whatever the  *)
(* row holds by then.  The UPDATE of an order is the last statement of its *)
(* transaction, so it is one step with the commit; what has to be seen     *)
(* apart is the read before it.  A webhook or a refund keeps the row lock  *)
(* of the payment it has updated until it ends.  The gateway is external:  *)
(* it repeats and reorders its events and is not part of any transaction.  *)
(***************************************************************************)
EXTENDS OrderStatuses, Integers, FiniteSets

CONSTANTS
  Orders,     \* order rows
  Intents,    \* payment intents of the gateway (provider_payment_id)
  Sessions,   \* concurrent HTTP requests
  Price,      \* what every order costs
  MaxRepaid,  \* bound: the gateway refuses to pay back more for one intent
  Crashes,    \* whether a request may be cut off half way
  DeskTargets,  \* statuses that customers and owners ask for
  Named,      \* events that carry an id; the column is nullable
  NoOrder, NoIntent

Results == {"captured", "failed"}

Event == [intent: Intents, result: Results]

ASSUME PaymentConstants ==
  /\ Price \in Nat \ {0} /\ MaxRepaid \in Nat /\ Crashes \in BOOLEAN
  /\ DeskTargets \subseteq OrderStatus /\ Named \subseteq Event
  /\ NoOrder \notin Orders /\ NoIntent \notin Intents

VARIABLES
  orders,    \* committed status of each order
  released,  \* orders with an order_status_history row by which their owner,
             \* not the gateway, placed them
  payments,  \* committed payments row of each intent, with its refunds
  events,    \* committed payment_events rows
  emitted,   \* external: events the gateway keeps sending
  repaid,    \* external: what the gateway has paid back for each intent
  sess       \* per session: program counter, request, loaded values

vars == <<orders, released, payments, events, emitted, repaid, sess>>

\* PaymentStatus, as far as the handlers set it; "none" before the row exists.
PaymentStatus ==
  {"none", "pending", "captured", "failed", "refunded", "partially_refunded"}

\* "refunded" is the sum of the refunds rows of the payment.
PaymentRow == [order: Orders \cup {NoOrder}, status: PaymentStatus, refunded: Nat]

PCs == {"idle", "calling", "intent", "checked", "recorded", "refunding",
        "repaid", "booked"}

\* seen and paid are the statuses of order and payment as the session read them.
Session == [pc: PCs, order: Orders \cup {NoOrder}, intent: Intents \cup {NoIntent},
            result: Results, amount: 0..Price,
            seen: OrderStatus, paid: PaymentStatus]

Idle == [pc |-> "idle", order |-> NoOrder, intent |-> NoIntent,
         result |-> "captured", amount |-> 0, seen |-> "pending", paid |-> "none"]

TypeOK ==
  /\ orders \in [Orders -> OrderStatus]
  /\ released \subseteq Orders
  /\ payments \in [Intents -> PaymentRow]
  /\ events \subseteq Event /\ emitted \subseteq Event
  /\ repaid \in [Intents -> Nat]
  /\ sess \in [Sessions -> Session]

\* Orders as create_order leaves them.
Init ==
  /\ orders = [o \in Orders |-> "pending"]
  /\ released = {}
  /\ payments = [p \in Intents |->
                   [order |-> NoOrder, status |-> "none", refunded |-> 0]]
  /\ events = {} /\ emitted = {}
  /\ repaid = [p \in Intents |-> 0]
  /\ sess = [s \in Sessions |-> Idle]

-----------------------------------------------------------------------------
(* Transactions                                                             *)

Become(s, local) == sess' = [sess EXCEPT ![s] = local]

\* The session ends, by an answer or by an exception that rolls back.
Finish(s) == Become(s, Idle)

\* Mutant (for the checks only): the table of moves is not consulted.
Refused_Never(seen, new) == FALSE

\* The loaded order does not admit the new status.
Refused(seen, new) == new \notin ORDER_TRANSITIONS[seen]

\* _transition_state on an order loaded with status seen, and the commit.  Of
\* the history row it adds, only an owner's placing of the order is kept.
TransitionState(o, seen, new, by) ==
  /\ ~Refused(seen, new)
  /\ orders' = [orders EXCEPT ![o] = new]
  /\ released' = IF new = "placed" /\ by = "owner" THEN released \cup {o}
                                                  ELSE released

KeepOrders == UNCHANGED <<orders, released>>

\* Mutant (for the checks only): the status of the refund, not of the payment.
NewPaid_RefundStatus(me) ==
  IF me.pc \in {"checked", "recorded"} THEN me.result ELSE "completed"

\* The status a webhook or refund in flight is about to give its payment.
\* An assignment that changes nothing emits no UPDATE and takes no lock.
NewPaid(me) ==
  IF me.pc \in {"checked", "recorded"} THEN me.result
  ELSE IF me.amount >= Price THEN "refunded" ELSE "partially_refunded"

\* Mutant (for the checks only): sessions share the lock from the read on.
HoldsPayment_FromRead(s, p) ==
  /\ sess[s].pc \in {"checked", "repaid", "recorded", "booked"}
  /\ sess[s].intent = p
  /\ NewPaid(sess[s]) # sess[s].paid

HoldsPayment(s, p) ==
  /\ sess[s].pc \in {"recorded", "booked"}
  /\ sess[s].intent = p
  /\ NewPaid(sess[s]) # sess[s].paid

\* Whether the session can flush its update of the payment.
CanUpdate(s) ==
  NewPaid(sess[s]) = sess[s].paid
    \/ \A t \in Sessions \ {s} : ~HoldsPayment(t, sess[s].intent)

-----------------------------------------------------------------------------
(* initialize_payment                                                       *)

\* The customer asks to pay; the order is read without a lock.
ReceiveInitialize(s, o) ==
  /\ sess[s].pc = "idle"
  /\ IF orders[o] \in {"pending", "payment_failed"}
       THEN Become(s, [Idle EXCEPT !.pc = "calling", !.order = o,
                                   !.seen = orders[o]])
       ELSE Finish(s)
  /\ KeepOrders /\ UNCHANGED <<payments, events, emitted, repaid>>

Unused(p) ==
  payments[p].status = "none" /\ \A t \in Sessions : sess[t].intent # p

\* The gateway answers after a while, with a new intent or with an error.
CreatePaymentIntent(s) ==
  /\ sess[s].pc = "calling"
  /\ \/ Finish(s)
     \/ \E p \in Intents :
          /\ Unused(p)
          /\ Become(s, [sess[s] EXCEPT !.pc = "intent", !.intent = p])
  /\ KeepOrders /\ UNCHANGED <<payments, events, emitted, repaid>>

\* The payment row, the order's status and the history row are committed.
InitializePayment(s) ==
  LET me == sess[s] IN
  /\ me.pc = "intent"
  /\ payments' = [payments EXCEPT ![me.intent] =
                    [order |-> me.order, status |-> "pending", refunded |-> 0]]
  /\ TransitionState(me.order, me.seen, "awaiting_payment", "customer")
  /\ Finish(s)
  /\ UNCHANGED <<events, emitted, repaid>>

-----------------------------------------------------------------------------
(* handle_webhook                                                           *)

\* An event arrives, perhaps again; a known one is ignored if it has an id to
\* know it by, otherwise the payment is read without a lock.
ReceiveWebhook(s, e) ==
  /\ sess[s].pc = "idle"
  /\ e \in emitted
  /\ IF e \in events \cap Named \/ payments[e.intent].status = "none"
       THEN Finish(s)
       ELSE Become(s, [Idle EXCEPT !.pc = "checked", !.intent = e.intent,
                                   !.result = e.result,
                                   !.paid = payments[e.intent].status])
  /\ KeepOrders /\ UNCHANGED <<payments, events, emitted, repaid>>

MyEvent(s) == [intent |-> sess[s].intent, result |-> sess[s].result]

\* Mutant (for the checks only): provider_event_id is not unique.
RecordEvent_NotUnique(s) ==
  LET me == sess[s] IN
  /\ me.pc = "checked"
  /\ CanUpdate(s)
  /\ Become(s, [me EXCEPT !.pc = "recorded", !.order = payments[me.intent].order,
                          !.seen = orders[payments[me.intent].order]])
  /\ KeepOrders /\ UNCHANGED <<payments, events, emitted, repaid>>

\* The event is inserted, waiting for a transaction that inserts the same id
\* and failing if it is there already (two events without an id never clash);
\* then the payment is updated and the order read, without a lock.
RecordEvent(s) ==
  LET me == sess[s] IN
  /\ me.pc = "checked"
  /\ MyEvent(s) \in Named =>
       \A t \in Sessions : sess[t].pc = "recorded" => MyEvent(t) # MyEvent(s)
  /\ \/ MyEvent(s) \in events \cap Named /\ Finish(s)
     \/ /\ MyEvent(s) \notin events \cap Named
        /\ CanUpdate(s)
        /\ Become(s, [me EXCEPT !.pc = "recorded",
                                !.order = payments[me.intent].order,
                                !.seen = orders[payments[me.intent].order]])
  /\ KeepOrders /\ UNCHANGED <<payments, events, emitted, repaid>>

OutcomeStatus(result) == IF result = "captured" THEN "placed" ELSE "payment_failed"

\* Mutant (for the checks only): the event is not saved.
CommitWebhook_EventLost(s) ==
  LET me == sess[s] IN
  /\ me.pc = "recorded"
  /\ payments' = [payments EXCEPT ![me.intent].status = NewPaid(me)]
  /\ IF me.paid # me.result /\ me.seen = "awaiting_payment"
       THEN TransitionState(me.order, me.seen, OutcomeStatus(me.result), "gateway")
       ELSE KeepOrders
  /\ Finish(s)
  /\ UNCHANGED <<events, emitted, repaid>>

\* Mutant (for the checks only): any event places the order.
CommitWebhook_AlwaysPlaced(s) ==
  LET me == sess[s] IN
  /\ me.pc = "recorded"
  /\ events' = events \cup {MyEvent(s)}
  /\ payments' = [payments EXCEPT ![me.intent].status = NewPaid(me)]
  /\ IF me.paid # me.result /\ me.seen = "awaiting_payment"
       THEN TransitionState(me.order, me.seen, "placed", "gateway")
       ELSE KeepOrders
  /\ Finish(s)
  /\ UNCHANGED <<emitted, repaid>>

\* Only an event that changes the payment moves the order, and only one that
\* was read awaiting payment.
CommitWebhook(s) ==
  LET me == sess[s] IN
  /\ me.pc = "recorded"
  /\ events' = events \cup {MyEvent(s)}
  /\ payments' = [payments EXCEPT ![me.intent].status =
                    IF NewPaid(me) # me.paid THEN NewPaid(me) ELSE @]
  /\ IF me.paid # me.result /\ me.seen = "awaiting_payment"
       THEN TransitionState(me.order, me.seen, OutcomeStatus(me.result), "gateway")
       ELSE KeepOrders
  /\ Finish(s)
  /\ UNCHANGED <<emitted, repaid>>

-----------------------------------------------------------------------------
(* request_refund                                                           *)

\* Mutant (for the checks only): the status of the payment is not checked.
ReceiveRefund_AnyStatus(s, p, amount) ==
  /\ sess[s].pc = "idle"
  /\ payments[p].status # "none"
  /\ Become(s, [Idle EXCEPT !.pc = "refunding", !.intent = p,
                            !.amount = amount, !.paid = payments[p].status])
  /\ KeepOrders /\ UNCHANGED <<payments, events, emitted, repaid>>

\* An administrator asks for a refund; the payment is read without a lock.
ReceiveRefund(s, p, amount) ==
  /\ sess[s].pc = "idle"
  /\ IF payments[p].status \in {"captured", "partially_refunded"}
       THEN Become(s, [Idle EXCEPT !.pc = "refunding", !.intent = p,
                                   !.amount = amount, !.paid = payments[p].status])
       ELSE Finish(s)
  /\ KeepOrders /\ UNCHANGED <<payments, events, emitted, repaid>>

\* Mutant (for the checks only): an error of the gateway is taken for success.
ProcessRefund_ErrorIgnored(s) ==
  LET me == sess[s] IN
  /\ me.pc = "refunding"
  /\ Become(s, [me EXCEPT !.pc = "repaid"])
  /\ KeepOrders /\ UNCHANGED <<payments, events, emitted, repaid>>

\* The gateway pays the money back, or reports an error.
ProcessRefund(s) ==
  LET me == sess[s] IN
  /\ me.pc = "refunding"
  /\ \/ Finish(s) /\ UNCHANGED repaid
     \/ /\ repaid[me.intent] + me.amount <= MaxRepaid
        /\ repaid' = [repaid EXCEPT ![me.intent] = @ + me.amount]
        /\ Become(s, [me EXCEPT !.pc = "repaid"])
  /\ KeepOrders /\ UNCHANGED <<payments, events, emitted>>

\* Orders the refund leaves alone.
Settled == {"cancelled", "refunded"}

\* The refund is inserted, the payment updated, the order read; an order that
\* cannot become refunded fails the request.
BookRefund(s) ==
  LET me == sess[s]
      o  == payments[me.intent].order IN
  /\ me.pc = "repaid"
  /\ CanUpdate(s)
  /\ \/ /\ orders[o] \notin Settled /\ Refused(orders[o], "refunded")
        /\ Finish(s)
     \/ /\ orders[o] \in Settled \/ ~Refused(orders[o], "refunded")
        /\ Become(s, [me EXCEPT !.pc = "booked", !.order = o, !.seen = orders[o]])
  /\ KeepOrders /\ UNCHANGED <<payments, events, emitted, repaid>>

CommitRefund(s) ==
  LET me == sess[s] IN
  /\ me.pc = "booked"
  /\ payments' = [payments EXCEPT
       ![me.intent].refunded = @ + me.amount,
       ![me.intent].status = IF NewPaid(me) # me.paid THEN NewPaid(me) ELSE @]
  /\ IF me.seen \in Settled
       THEN KeepOrders
       ELSE TransitionState(me.order, me.seen, "refunded", "admin")
  /\ Finish(s)
  /\ UNCHANGED <<events, emitted, repaid>>

-----------------------------------------------------------------------------
(* The surroundings                                                         *)

\* cancel_order, owner_accept_order, owner_reject_order and owner_update_status,
\* which takes any status, hold the row lock from their read to their commit,
\* and nobody here waits for an order while holding one, so each is a single
\* step.  No payment is asked for: an owner may place an order himself.
DeskTransition(o) ==
  /\ \E new \in DeskTargets : TransitionState(o, orders[o], new, "owner")
  /\ UNCHANGED <<payments, events, emitted, repaid, sess>>

\* External: the customer, who has received the intent, pays or fails to; the
\* gateway reports no failure after a capture.
Pay(p, result) ==
  /\ payments[p].status # "none"
  /\ [intent |-> p, result |-> "captured"] \notin emitted
  /\ emitted' = emitted \cup {[intent |-> p, result |-> result]}
  /\ KeepOrders /\ UNCHANGED <<payments, events, repaid, sess>>

Crash(s) ==
  /\ Crashes
  /\ sess[s].pc # "idle"
  /\ Finish(s)
  /\ KeepOrders /\ UNCHANGED <<payments, events, emitted, repaid>>

Work(s) ==
  \/ CreatePaymentIntent(s) \/ InitializePayment(s)
  \/ RecordEvent(s) \/ CommitWebhook(s)
  \/ ProcessRefund(s) \/ BookRefund(s) \/ CommitRefund(s)

Next ==
  \/ \E s \in Sessions :
       \/ \E o \in Orders : ReceiveInitialize(s, o)
       \/ \E e \in Event : ReceiveWebhook(s, e)
       \/ \E p \in Intents, amount \in 1..Price : ReceiveRefund(s, p, amount)
       \/ Work(s)
       \/ Crash(s)
  \/ \E o \in Orders : DeskTransition(o)
  \/ \E p \in Intents, result \in Results : Pay(p, result)

Spec == Init /\ [][Next]_vars

\* The server keeps working on every request, and the gateway repeats an event
\* until it has been taken in.
FairSpec ==
  /\ Spec
  /\ \A s \in Sessions : SF_vars(Work(s))
  /\ \A e \in Event : SF_vars(\E s \in Sessions : ReceiveWebhook(s, e))
=============================================================================
