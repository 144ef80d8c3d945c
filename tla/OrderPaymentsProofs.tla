------------------------ MODULE OrderPaymentsProofs ------------------------
(***************************************************************************)
(* Proofs about OrderPayments, for any number of orders, intents, requests *)
(* and events.  The inductive invariant is Base: types, the fit between    *)
(* what a session remembers and what is committed, and the fact that rows  *)
(* exist before anything refers to them.                                   *)
(***************************************************************************)
EXTENDS OrderPaymentsProperties, FiniteSetTheorems, TLAPS

RefundPCs == {"refunding", "repaid", "booked"}
RowPCs    == {"checked", "recorded"} \cup RefundPCs

\* A row exists before an event or a session refers to it.
RowsExist ==
  /\ \A p \in Intents : payments[p].status # "none" => payments[p].order \in Orders
  /\ \A e \in emitted \cup events : payments[e.intent].status # "none"

\* What a session remembers still holds: its intent is its own until the row
\* exists, an event with an id is not yet on record, its refund is of captured
\* money.
Fit(s) ==
  LET me == sess[s] IN
  /\ me.pc \in {"calling", "intent"} =>
       me.order \in Orders /\ me.seen \in {"pending", "payment_failed"}
  /\ me.pc = "intent" =>
       /\ me.intent \in Intents /\ payments[me.intent].status = "none"
       /\ \A t \in Sessions : t # s => sess[t].intent # me.intent
  /\ me.pc \in RowPCs =>
       me.intent \in Intents /\ payments[me.intent].status # "none"
  /\ me.pc \in {"recorded", "booked"} => me.order = payments[me.intent].order
  /\ me.pc \in RefundPCs => me.amount > 0 /\ Captured(me.intent) \in events
  /\ me.pc = "recorded" /\ MyEvent(s) \in Named =>
       /\ MyEvent(s) \notin events
       /\ \A t \in Sessions : t # s /\ sess[t].pc = "recorded" =>
            MyEvent(t) # MyEvent(s)

Base == TypeOK /\ RowsExist /\ \A s \in Sessions : Fit(s)

USE PaymentConstants

LEMMA TableType == \A x \in OrderStatus : ORDER_TRANSITIONS[x] \subseteq OrderStatus
  BY DEF OrderStatus, ORDER_TRANSITIONS

LEMMA IdleType == Idle \in Session
  BY DEF Idle, Session, PCs, OrderStatus, PaymentStatus, Results

LEMMA NewPaidType ==
  ASSUME NEW me \in Session
  PROVE  NewPaid(me) \in PaymentStatus \ {"none"}
  BY DEF NewPaid, Session, Results, PaymentStatus

LEMMA BaseInit == Init => Base
  <1> SUFFICES ASSUME Init PROVE Base  OBVIOUS
  <1>1. TypeOK
    BY IdleType DEF Init, TypeOK, PaymentRow, PaymentStatus, OrderStatus
  <1>2. RowsExist
    BY DEF Init, RowsExist
  <1>3. \A s \in Sessions : Fit(s)
    BY DEF Init, Fit, Idle, RowPCs, RefundPCs
  <1> QED BY <1>1, <1>2, <1>3 DEF Base

-----------------------------------------------------------------------------
(* Base is inductive, action by action                                      *)

LEMMA TypeStep == Base /\ [Next]_vars => TypeOK'
  <1> SUFFICES ASSUME Base, [Next]_vars PROVE TypeOK'  OBVIOUS
  <1>1. TypeOK /\ RowsExist /\ \A s \in Sessions : Fit(s)  BY DEF Base
  <1>2. \A s \in Sessions : sess[s] \in Session  BY <1>1 DEF TypeOK
  <1> USE <1>1, <1>2, IdleType
  <1>3. ASSUME NEW s \in Sessions, NEW o \in Orders, ReceiveInitialize(s, o)
        PROVE  TypeOK'
    <2>1. [Idle EXCEPT !.pc = "calling", !.order = o, !.seen = orders[o]] \in Session
      BY DEF TypeOK, Session, Idle, PCs
    <2> QED BY <1>3, <2>1 DEF ReceiveInitialize, TypeOK, Become, Finish, KeepOrders
  <1>4. ASSUME NEW s \in Sessions, CreatePaymentIntent(s)
        PROVE  TypeOK'
    <2>1. \A p \in Intents : [sess[s] EXCEPT !.pc = "intent", !.intent = p] \in Session
      BY DEF Session, PCs
    <2> QED BY <1>4, <2>1 DEF CreatePaymentIntent, TypeOK, Become, Finish, KeepOrders
  <1>5. ASSUME NEW s \in Sessions, InitializePayment(s)
        PROVE  TypeOK'
    <2>1. sess[s].order \in Orders /\ sess[s].intent \in Intents
      BY <1>5 DEF InitializePayment, Fit
    <2>2. [order |-> sess[s].order, status |-> "pending", refunded |-> 0] \in PaymentRow
      BY <2>1 DEF PaymentRow, PaymentStatus
    <2> QED BY <1>5, <2>1, <2>2
          DEF InitializePayment, TypeOK, Become, Finish, TransitionState, OrderStatus
  <1>6. ASSUME NEW s \in Sessions, NEW e \in Event, ReceiveWebhook(s, e)
        PROVE  TypeOK'
    <2>1. [Idle EXCEPT !.pc = "checked", !.intent = e.intent, !.result = e.result,
                       !.paid = payments[e.intent].status] \in Session
      BY DEF Session, PCs, Idle, Event, TypeOK, PaymentRow
    <2> QED BY <1>6, <2>1 DEF ReceiveWebhook, TypeOK, Become, Finish, KeepOrders
  <1>7. ASSUME NEW s \in Sessions, RecordEvent(s)
        PROVE  TypeOK'
    <2>1. sess[s].intent \in Intents /\ payments[sess[s].intent].order \in Orders
      BY <1>7 DEF RecordEvent, Fit, RowPCs, RowsExist
    <2>2. [sess[s] EXCEPT !.pc = "recorded", !.order = payments[sess[s].intent].order,
                          !.seen = orders[payments[sess[s].intent].order]] \in Session
      BY <2>1 DEF Session, PCs, TypeOK
    <2> QED BY <1>7, <2>2 DEF RecordEvent, TypeOK, Become, Finish, KeepOrders
  <1>8. ASSUME NEW s \in Sessions, CommitWebhook(s)
        PROVE  TypeOK'
    <2>1. /\ sess[s].intent \in Intents /\ sess[s].order \in Orders
          /\ sess[s].result \in Results
      BY <1>8 DEF CommitWebhook, Fit, RowPCs, RowsExist, Session
    <2>2. events' \subseteq Event
      BY <1>8, <2>1 DEF CommitWebhook, MyEvent, Event, TypeOK
    <2>3. payments' \in [Intents -> PaymentRow]
      BY <1>8, <2>1, NewPaidType DEF CommitWebhook, TypeOK, PaymentRow
    <2>4. orders' \in [Orders -> OrderStatus] /\ released' \subseteq Orders
      <3>1. OutcomeStatus(sess[s].result) \in OrderStatus
        BY DEF OutcomeStatus, OrderStatus
      <3> QED BY <1>8, <2>1, <3>1
            DEF CommitWebhook, TransitionState, KeepOrders, TypeOK
    <2> QED BY <1>8, <2>2, <2>3, <2>4 DEF CommitWebhook, TypeOK, Finish, Become
  <1>9. ASSUME NEW s \in Sessions, NEW p \in Intents, NEW amount \in 1..Price,
               ReceiveRefund(s, p, amount)
        PROVE  TypeOK'
    <2>1. [Idle EXCEPT !.pc = "refunding", !.intent = p, !.amount = amount,
                       !.paid = payments[p].status] \in Session
      <3>1. amount \in 0..Price  OBVIOUS
      <3> QED BY <3>1 DEF Session, PCs, Idle, TypeOK, PaymentRow
    <2> QED BY <1>9, <2>1 DEF ReceiveRefund, TypeOK, Become, Finish, KeepOrders
  <1>10. ASSUME NEW s \in Sessions, ProcessRefund(s)
         PROVE  TypeOK'
    <2>1. sess[s].intent \in Intents /\ sess[s].amount \in Nat
      BY <1>10 DEF ProcessRefund, Fit, RowPCs, RefundPCs, Session
    <2>2. [sess[s] EXCEPT !.pc = "repaid"] \in Session
      BY DEF Session, PCs
    <2>3. repaid' \in [Intents -> Nat]
      BY <1>10, <2>1 DEF ProcessRefund, TypeOK
    <2> QED BY <1>10, <2>2, <2>3 DEF ProcessRefund, TypeOK, Become, Finish, KeepOrders
  <1>11. ASSUME NEW s \in Sessions, BookRefund(s)
         PROVE  TypeOK'
    <2>1. sess[s].intent \in Intents /\ payments[sess[s].intent].order \in Orders
      BY <1>11 DEF BookRefund, Fit, RowPCs, RefundPCs, RowsExist
    <2>2. [sess[s] EXCEPT !.pc = "booked", !.order = payments[sess[s].intent].order,
                          !.seen = orders[payments[sess[s].intent].order]] \in Session
      BY <2>1 DEF Session, PCs, TypeOK
    <2> QED BY <1>11, <2>2 DEF BookRefund, TypeOK, Become, Finish, KeepOrders
  <1>12. ASSUME NEW s \in Sessions, CommitRefund(s)
         PROVE  TypeOK'
    <2>1. /\ sess[s].intent \in Intents /\ sess[s].order \in Orders
          /\ sess[s].amount \in Nat
      BY <1>12 DEF CommitRefund, Fit, RowPCs, RefundPCs, RowsExist, Session
    <2>2. payments' \in [Intents -> PaymentRow]
      BY <1>12, <2>1, NewPaidType DEF CommitRefund, TypeOK, PaymentRow
    <2>3. orders' \in [Orders -> OrderStatus] /\ released' \subseteq Orders
      BY <1>12, <2>1 DEF CommitRefund, TransitionState, KeepOrders, TypeOK, OrderStatus
    <2> QED BY <1>12, <2>2, <2>3 DEF CommitRefund, TypeOK, Finish, Become
  <1>13. ASSUME NEW s \in Sessions, Crash(s)
         PROVE  TypeOK'
    BY <1>13 DEF Crash, TypeOK, Finish, Become, KeepOrders
  <1>14. ASSUME NEW o \in Orders, DeskTransition(o)
         PROVE  TypeOK'
    BY <1>14 DEF DeskTransition, TransitionState, TypeOK
  <1>15. ASSUME NEW p \in Intents, NEW result \in Results, Pay(p, result)
         PROVE  TypeOK'
    BY <1>15 DEF Pay, TypeOK, Event, KeepOrders
  <1>16. CASE UNCHANGED vars
    BY <1>16 DEF vars, TypeOK
  <1> QED BY <1>3, <1>4, <1>5, <1>6, <1>7, <1>8, <1>9, <1>10, <1>11, <1>12, <1>13,
             <1>14, <1>15, <1>16 DEF Next, Work

\* What no step undoes: rows stay where they are, events stay on record.
Monotone ==
  /\ \A p \in Intents : payments[p].status # "none" =>
       payments'[p].status # "none" /\ payments'[p].order = payments[p].order
  /\ events \subseteq events'

\* An owner's row in the history of an order stays there.
LEMMA ReleasedStays == [Next]_vars => released \subseteq released'
  BY DEF Next, Work, vars, ReceiveInitialize, CreatePaymentIntent, InitializePayment,
         ReceiveWebhook, RecordEvent, CommitWebhook, ReceiveRefund, ProcessRefund,
         BookRefund, CommitRefund, Crash, DeskTransition, Pay, TransitionState,
         KeepOrders

LEMMA MonotoneStep == Base /\ [Next]_vars => Monotone
  <1> SUFFICES ASSUME Base, [Next]_vars PROVE Monotone  OBVIOUS
  <1>1. TypeOK /\ RowsExist /\ \A s \in Sessions : Fit(s)  BY DEF Base
  <1>2. \A s \in Sessions : sess[s] \in Session  BY <1>1 DEF TypeOK
  <1>3. ASSUME NEW s \in Sessions, InitializePayment(s)
        PROVE  Monotone
    <2>1. sess[s].intent \in Intents /\ payments[sess[s].intent].status = "none"
      BY <1>1, <1>3 DEF InitializePayment, Fit
    <2> QED BY <1>1, <1>3, <2>1 DEF InitializePayment, Monotone, TypeOK
  <1>4. ASSUME NEW s \in Sessions, CommitWebhook(s)
        PROVE  Monotone
    <2>1. sess[s].intent \in Intents
      BY <1>1, <1>4 DEF CommitWebhook, Fit, RowPCs
    <2> QED BY <1>1, <1>2, <1>4, <2>1, NewPaidType
          DEF CommitWebhook, Monotone, TypeOK, PaymentRow
  <1>5. ASSUME NEW s \in Sessions, CommitRefund(s)
        PROVE  Monotone
    <2>1. sess[s].intent \in Intents
      BY <1>1, <1>5 DEF CommitRefund, Fit, RowPCs, RefundPCs
    <2> QED BY <1>1, <1>2, <1>5, <2>1, NewPaidType
          DEF CommitRefund, Monotone, TypeOK, PaymentRow
  <1>6. CASE UNCHANGED <<payments, events>>
    BY <1>6 DEF Monotone
  <1> QED BY <1>3, <1>4, <1>5, <1>6
        DEF Next, Work, vars, ReceiveInitialize, CreatePaymentIntent, ReceiveWebhook,
            RecordEvent, ReceiveRefund, ProcessRefund, BookRefund, Crash,
            DeskTransition, Pay

LEMMA RowsStep == Base /\ [Next]_vars => RowsExist'
  <1> SUFFICES ASSUME Base, [Next]_vars PROVE RowsExist'  OBVIOUS
  <1>1. TypeOK /\ RowsExist /\ \A s \in Sessions : Fit(s)  BY DEF Base
  <1>2. Monotone  BY MonotoneStep
  <1>3. TypeOK'  BY TypeStep
  <1>4. \A p \in Intents : payments'[p].status # "none" => payments'[p].order \in Orders
    <2>1. ASSUME NEW s \in Sessions, InitializePayment(s)
          PROVE  <1>4!:
      <3>1. sess[s].intent \in Intents /\ sess[s].order \in Orders
        BY <1>1, <2>1 DEF InitializePayment, Fit
      <3> QED BY <1>1, <2>1, <3>1 DEF InitializePayment, TypeOK, RowsExist
    <2>2. ASSUME NEW s \in Sessions, CommitWebhook(s)
          PROVE  <1>4!:
      <3>1. sess[s].intent \in Intents /\ payments[sess[s].intent].status # "none"
        BY <1>1, <2>2 DEF CommitWebhook, Fit, RowPCs
      <3> QED BY <1>1, <2>2, <3>1 DEF CommitWebhook, TypeOK, RowsExist, PaymentRow
    <2>3. ASSUME NEW s \in Sessions, CommitRefund(s)
          PROVE  <1>4!:
      <3>1. sess[s].intent \in Intents /\ payments[sess[s].intent].status # "none"
        BY <1>1, <2>3 DEF CommitRefund, Fit, RowPCs, RefundPCs
      <3> QED BY <1>1, <2>3, <3>1 DEF CommitRefund, TypeOK, RowsExist, PaymentRow
    <2>4. CASE UNCHANGED payments
      BY <1>1, <2>4 DEF RowsExist
    <2> QED BY <2>1, <2>2, <2>3, <2>4
          DEF Next, Work, vars, ReceiveInitialize, CreatePaymentIntent, ReceiveWebhook,
              RecordEvent, ReceiveRefund, ProcessRefund, BookRefund, Crash,
              DeskTransition, Pay
  <1>5. \A e \in emitted' \cup events' : payments[e.intent].status # "none"
    <2>1. ASSUME NEW s \in Sessions, CommitWebhook(s)
          PROVE  <1>5!:
      <3>1. sess[s].intent \in Intents /\ payments[sess[s].intent].status # "none"
        BY <1>1, <2>1 DEF CommitWebhook, Fit, RowPCs
      <3> QED BY <1>1, <2>1, <3>1 DEF CommitWebhook, RowsExist, MyEvent
    <2>2. ASSUME NEW p \in Intents, NEW result \in Results, Pay(p, result)
          PROVE  <1>5!:
      BY <1>1, <2>2 DEF Pay, RowsExist
    <2>3. CASE UNCHANGED <<emitted, events>>
      BY <1>1, <2>3 DEF RowsExist
    <2> QED BY <2>1, <2>2, <2>3
          DEF Next, Work, vars, ReceiveInitialize, CreatePaymentIntent, ReceiveWebhook,
              RecordEvent, ReceiveRefund, ProcessRefund, BookRefund, CommitRefund,
              Crash, DeskTransition, InitializePayment
  <1>6. \A e \in emitted' \cup events' : e.intent \in Intents
    BY <1>3 DEF TypeOK, Event
  <1> QED BY <1>2, <1>4, <1>5, <1>6 DEF RowsExist, Monotone

\* A session that does not move keeps its fit, unless somebody creates the row
\* of its intent or records its event.
LEMMA OthersFit ==
  ASSUME Base, Monotone, TypeOK', NEW s \in Sessions, NEW t \in Sessions, t # s,
         NEW local, sess' = [sess EXCEPT ![s] = local],
         sess[t].pc = "intent" =>
           /\ payments'[sess[t].intent].status = "none"
           /\ local.intent # sess[t].intent,
         sess[t].pc = "recorded" /\ MyEvent(t) \in Named =>
           /\ MyEvent(t) \notin events'
           /\ local.pc = "recorded" =>
                [intent |-> local.intent, result |-> local.result] # MyEvent(t)
  PROVE  Fit(t)'
  <1>1. Fit(t) /\ sess'[t] = sess[t] /\ sess'[s] = local
    BY DEF Base, TypeOK
  <1>2. \A u \in Sessions : u # s => sess'[u] = sess[u]
    BY DEF Base, TypeOK
  <1>3. /\ (sess[t].pc = "intent" => \A u \in Sessions : u # t => sess'[u].intent # sess[t].intent)
        /\ MyEvent(t)' = MyEvent(t)
        /\ \A u \in Sessions : u # s => MyEvent(u)' = MyEvent(u)
        /\ MyEvent(s)' = [intent |-> local.intent, result |-> local.result]
    BY <1>1, <1>2 DEF Fit, MyEvent
  <1> QED BY <1>1, <1>2, <1>3 DEF Fit, Monotone, RowPCs, RefundPCs, Captured

\* The same where the step neither creates a row nor records an event.
LEMMA QuietFit ==
  ASSUME Base, Monotone, TypeOK', NEW s \in Sessions, NEW t \in Sessions, t # s,
         NEW local, sess' = [sess EXCEPT ![s] = local],
         \A p \in Intents : payments[p].status = "none" => payments'[p].status = "none",
         events' = events, local.pc # "recorded",
         sess[t].pc = "intent" => local.intent # sess[t].intent
  PROVE  Fit(t)'
  <1>1. Fit(t)  BY DEF Base
  <1>2. sess[t].pc = "intent" =>
          payments'[sess[t].intent].status = "none" /\ local.intent # sess[t].intent
    BY <1>1 DEF Fit
  <1>3. sess[t].pc = "recorded" /\ MyEvent(t) \in Named => MyEvent(t) \notin events'
    BY <1>1 DEF Fit
  <1> QED BY <1>2, <1>3, OthersFit

LEMMA FitStep == Base /\ StatusIsEarned /\ [Next]_vars => \A t \in Sessions : Fit(t)'
  <1> SUFFICES ASSUME Base, StatusIsEarned, [Next]_vars, NEW t \in Sessions
               PROVE  Fit(t)'
    OBVIOUS
  <1>1. TypeOK /\ RowsExist /\ \A s \in Sessions : Fit(s)  BY DEF Base
  <1>2. Monotone /\ TypeOK'  BY MonotoneStep, TypeStep
  <1>3. \A s \in Sessions : sess[s] \in Session  BY <1>1 DEF TypeOK
  <1>4. Fit(t)  BY <1>1
  <1>5. ASSUME sess[t].pc = "intent"
        PROVE  /\ \A s \in Sessions : s # t => sess[s].intent # sess[t].intent
               /\ \A p \in Intents : payments[p].status # "none" => p # sess[t].intent
               /\ NoIntent # sess[t].intent
    BY <1>4, <1>5, PaymentConstants DEF Fit
  <1>6. ASSUME NEW s \in Sessions, Finish(s), UNCHANGED <<payments, events>>
        PROVE  Fit(t)'
    <2>1. CASE t = s
      BY <1>1, <1>6, <2>1 DEF Finish, Become, Fit, Idle, TypeOK, RowPCs, RefundPCs
    <2>2. CASE t # s
      <3>1. Idle.intent = NoIntent /\ Idle.pc # "recorded"  BY DEF Idle
      <3> HIDE DEF Idle
      <3>2. sess' = [sess EXCEPT ![s] = Idle]  BY <1>6 DEF Finish, Become
      <3>3. sess[t].pc = "intent" => Idle.intent # sess[t].intent  BY <1>5, <3>1
      <3> QED BY <1>2, <1>6, <2>2, <3>1, <3>2, <3>3, QuietFit
    <2> QED BY <2>1, <2>2
  <1>7. ASSUME NEW s \in Sessions, NEW o \in Orders, ReceiveInitialize(s, o)
        PROVE  Fit(t)'
    <2> DEFINE local == [Idle EXCEPT !.pc = "calling", !.order = o, !.seen = orders[o]]
    <2>1. CASE Finish(s)
      BY <1>6, <1>7, <2>1 DEF ReceiveInitialize
    <2>2. CASE orders[o] \in {"pending", "payment_failed"} /\ Become(s, local)
      <3>1. /\ local.pc = "calling" /\ local.intent = NoIntent
            /\ local.order = o /\ local.seen = orders[o]
        BY DEF Idle
      <3>2. UNCHANGED <<payments, events>> /\ sess' = [sess EXCEPT ![s] = local]
        BY <1>7, <2>2 DEF ReceiveInitialize, Become
      <3> HIDE DEF local
      <3>3. CASE t = s
        BY <1>1, <2>2, <3>1, <3>2, <3>3 DEF Fit, TypeOK, RowPCs, RefundPCs
      <3>4. CASE t # s
        <4>1. sess[t].pc = "intent" => local.intent # sess[t].intent  BY <1>5, <3>1
        <4> QED BY <1>2, <3>1, <3>2, <3>4, <4>1, QuietFit
      <3> QED BY <3>3, <3>4
    <2> QED BY <1>7, <2>1, <2>2 DEF ReceiveInitialize
  <1>8. ASSUME NEW s \in Sessions, CreatePaymentIntent(s)
        PROVE  Fit(t)'
    <2>1. CASE Finish(s)
      BY <1>6, <1>8, <2>1 DEF CreatePaymentIntent
    <2>2. ASSUME NEW p \in Intents, Unused(p),
                 Become(s, [sess[s] EXCEPT !.pc = "intent", !.intent = p])
          PROVE  Fit(t)'
      <3> DEFINE local == [sess[s] EXCEPT !.pc = "intent", !.intent = p]
      <3>1. /\ local.pc = "intent" /\ local.intent = p
            /\ local.order = sess[s].order /\ local.seen = sess[s].seen
        BY <1>3 DEF Session
      <3>2. UNCHANGED <<payments, events>> /\ sess' = [sess EXCEPT ![s] = local]
        BY <1>8, <2>2 DEF CreatePaymentIntent, Become
      <3> HIDE DEF local
      <3>3. CASE t = s
        <4>1. /\ sess'[t] = local
              /\ \A u \in Sessions : u # t => sess'[u] = sess[u] /\ sess[u].intent # p
          BY <1>1, <2>2, <3>2, <3>3 DEF TypeOK, Unused
        <4>2. /\ sess[t].order \in Orders /\ sess[t].seen \in {"pending", "payment_failed"}
              /\ payments'[p].status = "none"
          BY <1>4, <1>8, <2>2, <3>2, <3>3 DEF CreatePaymentIntent, Fit, Unused
        <4> QED BY <3>1, <3>3, <4>1, <4>2 DEF Fit, RowPCs, RefundPCs
      <3>4. CASE t # s
        <4>1. local.intent # sess[t].intent  BY <2>2, <3>1 DEF Unused
        <4> QED BY <1>2, <3>1, <3>2, <3>4, <4>1, QuietFit
      <3> QED BY <3>3, <3>4
    <2> QED BY <1>8, <2>1, <2>2 DEF CreatePaymentIntent
  <1>9. ASSUME NEW s \in Sessions, InitializePayment(s)
        PROVE  Fit(t)'
    <2>1. sess' = [sess EXCEPT ![s] = Idle] /\ events' = events
      BY <1>9 DEF InitializePayment, Finish, Become
    <2>2. CASE t = s
      BY <1>1, <2>1, <2>2 DEF Fit, Idle, TypeOK, RowPCs, RefundPCs
    <2>3. CASE t # s
      <3>1. Idle.intent = NoIntent /\ Idle.pc # "recorded"  BY DEF Idle
      <3> HIDE DEF Idle
      <3>2. ASSUME sess[t].pc = "intent"
            PROVE  payments'[sess[t].intent].status = "none" /\ Idle.intent # sess[t].intent
        <4>1. /\ sess[t].intent \in Intents /\ sess[t].intent # sess[s].intent
              /\ payments[sess[t].intent].status = "none"
          BY <1>4, <1>5, <2>3, <3>2 DEF Fit
        <4> QED BY <1>1, <1>5, <1>9, <3>1, <3>2, <4>1 DEF InitializePayment, TypeOK
      <3>3. sess[t].pc = "recorded" /\ MyEvent(t) \in Named => MyEvent(t) \notin events'
        BY <1>4, <2>1 DEF Fit
      <3> QED BY <1>2, <2>1, <2>3, <3>1, <3>2, <3>3, OthersFit
    <2> QED BY <2>2, <2>3
  <1>10. ASSUME NEW s \in Sessions, NEW e \in Event, ReceiveWebhook(s, e)
         PROVE  Fit(t)'
    <2> DEFINE local == [Idle EXCEPT !.pc = "checked", !.intent = e.intent,
                                     !.result = e.result,
                                     !.paid = payments[e.intent].status]
    <2>1. CASE Finish(s)
      BY <1>6, <1>10, <2>1 DEF ReceiveWebhook
    <2>2. CASE payments[e.intent].status # "none" /\ Become(s, local)
      <3>1. local.pc = "checked" /\ local.intent = e.intent /\ e.intent \in Intents
        BY DEF Idle, Event
      <3>2. UNCHANGED <<payments, events>> /\ sess' = [sess EXCEPT ![s] = local]
        BY <1>10, <2>2 DEF ReceiveWebhook, Become
      <3> HIDE DEF local
      <3>3. CASE t = s
        BY <1>1, <2>2, <3>1, <3>2, <3>3 DEF Fit, TypeOK, RowPCs, RefundPCs
      <3>4. CASE t # s
        <4>1. sess[t].pc = "intent" => local.intent # sess[t].intent
          BY <1>5, <2>2, <3>1
        <4> QED BY <1>2, <3>1, <3>2, <3>4, <4>1, QuietFit
      <3> QED BY <3>3, <3>4
    <2> QED BY <1>10, <2>1, <2>2 DEF ReceiveWebhook
  <1>11. ASSUME NEW s \in Sessions, RecordEvent(s)
         PROVE  Fit(t)'
    <2> DEFINE o == payments[sess[s].intent].order
               local == [sess[s] EXCEPT !.pc = "recorded", !.order = o, !.seen = orders[o]]
    <2>1. CASE Finish(s)
      BY <1>6, <1>11, <2>1 DEF RecordEvent
    <2>2. CASE MyEvent(s) \notin events \cap Named /\ Become(s, local)
      <3>1. /\ local.pc = "recorded" /\ local.intent = sess[s].intent
            /\ local.result = sess[s].result /\ local.order = o
        BY <1>3 DEF Session
      <3>2. UNCHANGED <<payments, events>> /\ sess' = [sess EXCEPT ![s] = local]
        BY <1>11, <2>2 DEF RecordEvent, Become
      <3>3. /\ sess[s].intent \in Intents /\ payments[sess[s].intent].status # "none"
            /\ MyEvent(s) \in Named =>
                 \A u \in Sessions : sess[u].pc = "recorded" => MyEvent(u) # MyEvent(s)
        BY <1>1, <1>11 DEF RecordEvent, Fit, RowPCs
      <3> HIDE DEF local
      <3>4. CASE t = s
        <4>1. /\ sess'[t] = local
              /\ \A u \in Sessions : u # t => sess'[u] = sess[u]
          BY <1>1, <3>2, <3>4 DEF TypeOK
        <4>2. /\ MyEvent(t)' = MyEvent(s)
              /\ \A u \in Sessions : u # t => MyEvent(u)' = MyEvent(u)
          BY <3>1, <3>4, <4>1 DEF MyEvent
        <4> QED BY <2>2, <3>1, <3>2, <3>3, <3>4, <4>1, <4>2 DEF Fit, RowPCs, RefundPCs
      <3>5. CASE t # s
        <4>1. ASSUME sess[t].pc = "intent"
              PROVE  payments'[sess[t].intent].status = "none"
                       /\ local.intent # sess[t].intent
          BY <1>4, <1>5, <3>1, <3>2, <3>5, <4>1 DEF Fit
        <4>2. ASSUME sess[t].pc = "recorded", MyEvent(t) \in Named
              PROVE  /\ MyEvent(t) \notin events'
                     /\ [intent |-> local.intent, result |-> local.result] # MyEvent(t)
          BY <1>4, <3>1, <3>2, <3>3, <4>2 DEF Fit, MyEvent
        <4> QED BY <1>2, <3>2, <3>5, <4>1, <4>2, OthersFit
      <3> QED BY <3>4, <3>5
    <2> QED BY <1>11, <2>1, <2>2 DEF RecordEvent
  <1>12. ASSUME NEW s \in Sessions, CommitWebhook(s)
         PROVE  Fit(t)'
    <2>1. sess' = [sess EXCEPT ![s] = Idle] /\ events' = events \cup {MyEvent(s)}
      BY <1>12 DEF CommitWebhook, Finish, Become
    <2>2. /\ sess[s].pc = "recorded" /\ sess[s].intent \in Intents
          /\ payments[sess[s].intent].status # "none"
      BY <1>1, <1>12 DEF CommitWebhook, Fit, RowPCs
    <2>3. CASE t = s
      BY <1>1, <2>1, <2>3 DEF Fit, Idle, TypeOK, RowPCs, RefundPCs
    <2>4. CASE t # s
      <3>1. Idle.intent = NoIntent /\ Idle.pc # "recorded"  BY DEF Idle
      <3> HIDE DEF Idle
      <3>2. ASSUME sess[t].pc = "intent"
            PROVE  payments'[sess[t].intent].status = "none" /\ Idle.intent # sess[t].intent
        <4>1. /\ sess[t].intent \in Intents /\ sess[t].intent # sess[s].intent
              /\ payments[sess[t].intent].status = "none"
          BY <1>4, <1>5, <2>4, <3>2 DEF Fit
        <4> QED BY <1>1, <1>5, <1>12, <3>1, <3>2, <4>1 DEF CommitWebhook, TypeOK
      <3>3. sess[t].pc = "recorded" /\ MyEvent(t) \in Named => MyEvent(t) \notin events'
        BY <1>4, <2>1, <2>2, <2>4 DEF Fit
      <3> QED BY <1>2, <2>1, <2>4, <3>1, <3>2, <3>3, OthersFit
    <2> QED BY <2>3, <2>4
  <1>13. ASSUME NEW s \in Sessions, NEW p \in Intents, NEW amount \in 1..Price,
                ReceiveRefund(s, p, amount)
         PROVE  Fit(t)'
    <2> DEFINE local == [Idle EXCEPT !.pc = "refunding", !.intent = p,
                                     !.amount = amount, !.paid = payments[p].status]
    <2>1. CASE Finish(s)
      BY <1>6, <1>13, <2>1 DEF ReceiveRefund
    <2>2. CASE /\ payments[p].status \in {"captured", "partially_refunded"}
               /\ Become(s, local)
      <3>1. local.pc = "refunding" /\ local.intent = p /\ local.amount = amount
        BY DEF Idle
      <3>2. UNCHANGED <<payments, events>> /\ sess' = [sess EXCEPT ![s] = local]
        BY <1>13, <2>2 DEF ReceiveRefund, Become
      <3>3. Captured(p) \in events /\ payments[p].status # "none" /\ amount > 0
        BY <2>2 DEF StatusIsEarned
      <3> HIDE DEF local
      <3>4. CASE t = s
        BY <1>1, <3>1, <3>2, <3>3, <3>4 DEF Fit, TypeOK, RowPCs, RefundPCs, Captured
      <3>5. CASE t # s
        <4>1. sess[t].pc = "intent" => local.intent # sess[t].intent
          BY <1>5, <3>1, <3>3
        <4> QED BY <1>2, <3>1, <3>2, <3>5, <4>1, QuietFit
      <3> QED BY <3>4, <3>5
    <2> QED BY <1>13, <2>1, <2>2 DEF ReceiveRefund
  <1>14. ASSUME NEW s \in Sessions, ProcessRefund(s)
         PROVE  Fit(t)'
    <2> DEFINE local == [sess[s] EXCEPT !.pc = "repaid"]
    <2>1. CASE Finish(s)
      BY <1>6, <1>14, <2>1 DEF ProcessRefund
    <2>2. CASE Become(s, local)
      <3>1. /\ local.pc = "repaid" /\ local.intent = sess[s].intent
            /\ local.amount = sess[s].amount
        BY <1>3 DEF Session
      <3>2. UNCHANGED <<payments, events>> /\ sess' = [sess EXCEPT ![s] = local]
        BY <1>14, <2>2 DEF ProcessRefund, Become
      <3> HIDE DEF local
      <3>3. CASE t = s
        BY <1>1, <1>4, <1>14, <3>1, <3>2, <3>3
           DEF ProcessRefund, Fit, TypeOK, RowPCs, RefundPCs, Captured
      <3>4. CASE t # s
        <4>1. sess[t].pc = "intent" => local.intent # sess[t].intent
          BY <1>5, <3>1, <3>4
        <4> QED BY <1>2, <3>1, <3>2, <3>4, <4>1, QuietFit
      <3> QED BY <3>3, <3>4
    <2> QED BY <1>14, <2>1, <2>2 DEF ProcessRefund
  <1>15. ASSUME NEW s \in Sessions, BookRefund(s)
         PROVE  Fit(t)'
    <2> DEFINE o == payments[sess[s].intent].order
               local == [sess[s] EXCEPT !.pc = "booked", !.order = o, !.seen = orders[o]]
    <2>1. CASE Finish(s)
      BY <1>6, <1>15, <2>1 DEF BookRefund
    <2>2. CASE Become(s, local)
      <3>1. /\ local.pc = "booked" /\ local.intent = sess[s].intent
            /\ local.amount = sess[s].amount /\ local.order = o
        BY <1>3 DEF Session
      <3>2. UNCHANGED <<payments, events>> /\ sess' = [sess EXCEPT ![s] = local]
        BY <1>15, <2>2 DEF BookRefund, Become
      <3> HIDE DEF local
      <3>3. CASE t = s
        BY <1>1, <1>4, <1>15, <3>1, <3>2, <3>3
           DEF BookRefund, Fit, TypeOK, RowPCs, RefundPCs, Captured
      <3>4. CASE t # s
        <4>1. sess[t].pc = "intent" => local.intent # sess[t].intent
          BY <1>5, <3>1, <3>4
        <4> QED BY <1>2, <3>1, <3>2, <3>4, <4>1, QuietFit
      <3> QED BY <3>3, <3>4
    <2> QED BY <1>15, <2>1, <2>2 DEF BookRefund
  <1>16. ASSUME NEW s \in Sessions, CommitRefund(s)
         PROVE  Fit(t)'
    <2>1. sess' = [sess EXCEPT ![s] = Idle] /\ events' = events
      BY <1>16 DEF CommitRefund, Finish, Become
    <2>2. CASE t = s
      BY <1>1, <2>1, <2>2 DEF Fit, Idle, TypeOK, RowPCs, RefundPCs
    <2>3. CASE t # s
      <3>1. Idle.intent = NoIntent /\ Idle.pc # "recorded"  BY DEF Idle
      <3> HIDE DEF Idle
      <3>2. sess[s].intent \in Intents /\ payments[sess[s].intent].status # "none"
        BY <1>1, <1>16 DEF CommitRefund, Fit, RowPCs, RefundPCs
      <3>3. \A p \in Intents : payments[p].status = "none" => payments'[p].status = "none"
        BY <1>1, <1>16, <3>2 DEF CommitRefund, TypeOK
      <3>4. sess[t].pc = "intent" => Idle.intent # sess[t].intent  BY <1>5, <3>1
      <3> QED BY <1>2, <2>1, <2>3, <3>1, <3>3, <3>4, QuietFit
    <2> QED BY <2>2, <2>3
  <1>17. ASSUME NEW s \in Sessions, Crash(s)
         PROVE  Fit(t)'
    BY <1>6, <1>17 DEF Crash
  <1>18. ASSUME UNCHANGED <<payments, events, sess>>
         PROVE  Fit(t)'
    BY <1>4, <1>18 DEF Fit, MyEvent
  <1>19. ASSUME NEW o \in Orders, DeskTransition(o)
         PROVE  Fit(t)'
    BY <1>18, <1>19 DEF DeskTransition
  <1>20. ASSUME NEW p \in Intents, NEW result \in Results, Pay(p, result)
         PROVE  Fit(t)'
    BY <1>18, <1>20 DEF Pay
  <1>21. CASE UNCHANGED vars
    BY <1>18, <1>21 DEF vars
  <1> QED BY <1>7, <1>8, <1>9, <1>10, <1>11, <1>12, <1>13, <1>14, <1>15, <1>16, <1>17,
             <1>19, <1>20, <1>21 DEF Next, Work

-----------------------------------------------------------------------------
(* The safety properties, step by step                                      *)

\* The steps that leave the payment rows and the recorded events alone.
Aside ==
  UNCHANGED <<payments, events>>

LEMMA PaymentSteps ==
  [Next]_vars =>
    \/ \E s \in Sessions : InitializePayment(s) \/ CommitWebhook(s) \/ CommitRefund(s)
    \/ Aside
  BY DEF Next, Work, vars, ReceiveInitialize, CreatePaymentIntent, ReceiveWebhook,
         RecordEvent, ReceiveRefund, ProcessRefund, BookRefund, Crash, DeskTransition,
         Pay, Aside

LEMMA OrderSteps ==
  [Next]_vars =>
    \/ \E s \in Sessions : InitializePayment(s) \/ CommitWebhook(s) \/ CommitRefund(s)
    \/ \E o \in Orders : DeskTransition(o)
    \/ KeepOrders
  BY DEF Next, Work, vars, ReceiveInitialize, CreatePaymentIntent, ReceiveWebhook,
         RecordEvent, ReceiveRefund, ProcessRefund, BookRefund, Crash, Pay, KeepOrders

LEMMA EarnedStep == Base /\ StatusIsEarned /\ [Next]_vars => StatusIsEarned'
  <1> SUFFICES ASSUME Base, StatusIsEarned, [Next]_vars PROVE StatusIsEarned'  OBVIOUS
  <1>1. TypeOK /\ \A s \in Sessions : Fit(s)  BY DEF Base
  <1>2. \A s \in Sessions : sess[s] \in Session  BY <1>1 DEF TypeOK
  <1>3. ASSUME NEW s \in Sessions, InitializePayment(s)
        PROVE  StatusIsEarned'
    BY <1>1, <1>3 DEF InitializePayment, StatusIsEarned, TypeOK, Captured, Failed
  <1>4. ASSUME NEW s \in Sessions, CommitWebhook(s)
        PROVE  StatusIsEarned'
    <2>0. NewPaid(sess[s]) = sess[s].result
      BY <1>4 DEF CommitWebhook, NewPaid
    <2>1. /\ sess[s].intent \in Intents /\ sess[s].result \in Results
          /\ NewPaid(sess[s]) = sess[s].result
      BY <1>1, <1>2, <1>4, <2>0 DEF CommitWebhook, Fit, RowPCs, Session
    <2>2. /\ MyEvent(s) \in events' /\ events \subseteq events'
          /\ sess[s].result = "captured" => Captured(sess[s].intent) \in events'
          /\ sess[s].result = "failed" => Failed(sess[s].intent) \in events'
      BY <1>4 DEF CommitWebhook, MyEvent, Captured, Failed
    <2>3. ASSUME NEW p \in Intents
          PROVE  /\ payments'[p].refunded = payments[p].refunded
                 /\ \/ payments'[p].status = payments[p].status
                    \/ p = sess[s].intent /\ payments'[p].status = sess[s].result
      BY <1>1, <1>4, <2>1 DEF CommitWebhook, TypeOK, PaymentRow
    <2> QED BY <2>1, <2>2, <2>3 DEF StatusIsEarned, Results, Captured, Failed
  <1>5. ASSUME NEW s \in Sessions, CommitRefund(s)
        PROVE  StatusIsEarned'
    <2>1. /\ sess[s].intent \in Intents /\ sess[s].amount \in Nat \ {0}
          /\ NewPaid(sess[s]) \in {"refunded", "partially_refunded"}
          /\ Captured(sess[s].intent) \in events
      BY <1>1, <1>2, <1>5
         DEF CommitRefund, Fit, RowPCs, RefundPCs, Session, NewPaid
    <2>2. events' = events
      BY <1>5 DEF CommitRefund
    <2>3. ASSUME NEW p \in Intents
          PROVE  \/ payments'[p] = payments[p]
                 \/ /\ p = sess[s].intent
                    /\ payments'[p].refunded > 0
                    /\ payments'[p].status \in {payments[p].status, NewPaid(sess[s])}
      <3>1. payments[p] \in PaymentRow /\ payments[p].refunded \in Nat
        BY <1>1 DEF TypeOK, PaymentRow
      <3>2. CASE p = sess[s].intent
        <4>1. /\ payments'[p].refunded = payments[p].refunded + sess[s].amount
              /\ payments'[p].status \in {payments[p].status, NewPaid(sess[s])}
          BY <1>1, <1>5, <2>1, <3>1, <3>2 DEF CommitRefund, TypeOK, PaymentRow
        <4> QED BY <2>1, <3>1, <3>2, <4>1
      <3>3. CASE p # sess[s].intent
        BY <1>1, <1>5, <3>3 DEF CommitRefund, TypeOK
      <3> QED BY <3>2, <3>3
    <2> QED BY <2>1, <2>2, <2>3 DEF StatusIsEarned, Captured, Failed
  <1>6. CASE Aside
    BY <1>6 DEF Aside, StatusIsEarned, Captured, Failed
  <1> QED BY <1>3, <1>4, <1>5, <1>6, PaymentSteps

\* After the step the order has been paid for or placed by its owner.
Backed(o) ==
  \/ o \in released'
  \/ \E p \in Intents : payments'[p].order = o /\ Captured(p) \in events'

LEMMA PlacedStep == Base /\ PlacedWasPaid /\ [Next]_vars => PlacedWasPaid'
  <1> SUFFICES ASSUME Base, PlacedWasPaid, [Next]_vars PROVE PlacedWasPaid'  OBVIOUS
  <1>1. TypeOK /\ RowsExist /\ \A s \in Sessions : Fit(s)  BY DEF Base
  <1>2. Monotone /\ TypeOK'  BY MonotoneStep, TypeStep
  <1>3. \A e \in events : e.intent \in Intents  BY <1>1 DEF TypeOK, Event
  \* A payment on record stays on record, with its order.
  <1>4. ASSUME NEW o \in Orders, NEW p \in Intents,
               payments[p].order = o, Captured(p) \in events
        PROVE  payments'[p].order = o /\ Captured(p) \in events'
    <2>1. payments[p].status # "none"
      BY <1>1, <1>4 DEF RowsExist, Captured
    <2> QED BY <1>2, <1>4, <2>1 DEF Monotone, Captured
  <1>5. ASSUME NEW o \in Orders, orders[o] \notin Unplaced
        PROVE  Backed(o)
    BY <1>4, <1>5, ReleasedStays DEF PlacedWasPaid, Backed
  <1>6. ASSUME NEW o \in Orders, orders'[o] \notin Unplaced
        PROVE  Backed(o)
    <2>0. orders[o] \notin Unplaced => Backed(o)
      BY <1>5
    <2>1. ASSUME NEW s \in Sessions, InitializePayment(s)
          PROVE  orders[o] \notin Unplaced
      BY <1>1, <1>6, <2>1 DEF InitializePayment, TransitionState, TypeOK, Unplaced
    <2>2. ASSUME NEW s \in Sessions, CommitWebhook(s)
          PROVE  Backed(o)
      <3>1. /\ sess[s].intent \in Intents /\ sess[s].order = payments[sess[s].intent].order
            /\ payments[sess[s].intent].status # "none"
        BY <1>1, <2>2 DEF CommitWebhook, Fit, RowPCs
      <3>2. CASE orders'[o] = orders[o]
        BY <1>6, <2>0, <3>2
      <3>3. CASE orders'[o] # orders[o]
        <4>1. o = sess[s].order /\ sess[s].result = "captured"
          BY <1>1, <1>6, <2>2, <3>3
             DEF CommitWebhook, TransitionState, KeepOrders, TypeOK, OutcomeStatus, Unplaced
        <4>2. Captured(sess[s].intent) \in events'
          BY <2>2, <4>1 DEF CommitWebhook, MyEvent, Captured
        <4> QED BY <1>2, <3>1, <4>1, <4>2 DEF Monotone, Backed
      <3> QED BY <3>2, <3>3
    <2>3. ASSUME NEW s \in Sessions, CommitRefund(s)
          PROVE  Backed(o)
      <3>1. /\ sess[s].intent \in Intents /\ sess[s].order = payments[sess[s].intent].order
            /\ Captured(sess[s].intent) \in events
        BY <1>1, <2>3 DEF CommitRefund, Fit, RowPCs, RefundPCs
      <3>2. CASE orders'[o] = orders[o]
        BY <1>6, <2>0, <3>2
      <3>3. CASE orders'[o] # orders[o]
        <4>1. o = sess[s].order
          BY <1>1, <2>3, <3>3 DEF CommitRefund, TransitionState, KeepOrders, TypeOK
        <4> QED BY <1>4, <3>1, <4>1 DEF Backed
      <3> QED BY <3>2, <3>3
    \* From an unplaced status the desk reaches another one or places the order.
    <2>4. ASSUME NEW x \in Orders, DeskTransition(x)
          PROVE  Backed(o)
      <3>1. CASE orders[o] \in Unplaced
        <4>1. o = x /\ orders'[o] = "placed" /\ o \in released'
          BY <1>1, <1>6, <2>4, <3>1
             DEF DeskTransition, TransitionState, Refused, TypeOK, Unplaced,
                 ORDER_TRANSITIONS
        <4> QED BY <4>1 DEF Backed
      <3> QED BY <2>0, <3>1
    <2>5. CASE KeepOrders
      BY <1>6, <2>0, <2>5 DEF KeepOrders
    <2> QED BY <2>0, <2>1, <2>2, <2>3, <2>4, <2>5, OrderSteps
  <1> QED BY <1>6 DEF PlacedWasPaid, Captured, Backed

\* A commit that writes a status over another one than it read.
Overtaken(s, o) ==
  /\ sess[s].order = o /\ sess[s].pc # "idle" /\ sess'[s].pc = "idle"
  /\ sess[s].seen # orders[o]
  /\ orders'[o] \in ORDER_TRANSITIONS[sess[s].seen]

LEMMA SkipStep ==
  Base /\ [Next]_vars =>
    \A o \in Orders :
      orders'[o] # orders[o] /\ orders'[o] \notin ORDER_TRANSITIONS[orders[o]] =>
        \E s \in Sessions : Overtaken(s, o)
  <1> SUFFICES ASSUME Base, [Next]_vars, NEW o \in Orders, orders'[o] # orders[o],
                      orders'[o] \notin ORDER_TRANSITIONS[orders[o]]
               PROVE  \E s \in Sessions : Overtaken(s, o)
    OBVIOUS
  <1>1. TypeOK  BY DEF Base
  <1>2. ASSUME NEW s \in Sessions, NEW new, NEW by, sess[s].pc # "idle", Finish(s),
               TransitionState(sess[s].order, sess[s].seen, new, by)
        PROVE  Overtaken(s, o)
    <2>1. o = sess[s].order /\ orders'[o] = new
      BY <1>1, <1>2 DEF TransitionState, TypeOK
    <2>2. new \in ORDER_TRANSITIONS[sess[s].seen]
      BY <1>2 DEF TransitionState, Refused
    <2>3. sess'[s].pc = "idle"
      BY <1>1, <1>2 DEF Finish, Become, Idle, TypeOK
    <2> QED BY <1>2, <2>1, <2>2, <2>3 DEF Overtaken
  <1>3. ASSUME NEW x \in Orders, DeskTransition(x)
        PROVE  FALSE
    BY <1>1, <1>3 DEF DeskTransition, TransitionState, Refused, TypeOK
  <1>4. CASE KeepOrders
    BY <1>4 DEF KeepOrders
  <1>5. ASSUME NEW s \in Sessions, InitializePayment(s)
        PROVE  Overtaken(s, o)
    BY <1>2, <1>5 DEF InitializePayment
  <1>6. ASSUME NEW s \in Sessions, CommitWebhook(s)
        PROVE  Overtaken(s, o)
    BY <1>2, <1>6 DEF CommitWebhook, KeepOrders
  <1>7. ASSUME NEW s \in Sessions, CommitRefund(s)
        PROVE  Overtaken(s, o)
    BY <1>2, <1>7 DEF CommitRefund, KeepOrders
  <1> QED BY <1>3, <1>4, <1>5, <1>6, <1>7, OrderSteps

LEMMA OnceStep ==
  Base /\ [Next]_vars =>
    \A p \in Intents :
      payments'[p].status # payments[p].status /\ payments'[p].status \in Results
      => [intent |-> p, result |-> payments'[p].status]
           \in events' \ (events \cap Named)
  <1> SUFFICES ASSUME Base, [Next]_vars, NEW p \in Intents,
                      payments'[p].status # payments[p].status,
                      payments'[p].status \in Results
               PROVE  [intent |-> p, result |-> payments'[p].status]
           \in events' \ (events \cap Named)
    OBVIOUS
  <1>1. TypeOK /\ \A s \in Sessions : Fit(s)  BY DEF Base
  <1>2. \A s \in Sessions : sess[s] \in Session  BY <1>1 DEF TypeOK
  <1>3. ASSUME NEW s \in Sessions, InitializePayment(s)
        PROVE  FALSE
    BY <1>1, <1>3 DEF InitializePayment, TypeOK, Results
  <1>4. ASSUME NEW s \in Sessions, CommitWebhook(s)
        PROVE  [intent |-> p, result |-> payments'[p].status]
           \in events' \ (events \cap Named)
    <2>1. /\ NewPaid(sess[s]) = sess[s].result /\ sess[s].intent \in Intents
          /\ MyEvent(s) \notin events \cap Named
      <3>1. sess[s].pc = "recorded"  BY <1>4 DEF CommitWebhook
      <3>2. NewPaid(sess[s]) = sess[s].result  BY <3>1 DEF NewPaid
      <3> QED BY <1>1, <3>1, <3>2 DEF Fit, RowPCs
    <2>2. p = sess[s].intent /\ payments'[p].status = sess[s].result
      BY <1>1, <1>4, <2>1 DEF CommitWebhook, TypeOK, PaymentRow
    <2> QED BY <1>4, <2>1, <2>2 DEF CommitWebhook, MyEvent
  <1>5. ASSUME NEW s \in Sessions, CommitRefund(s)
        PROVE  FALSE
    <2>1. sess[s].intent \in Intents /\ NewPaid(sess[s]) \notin Results
      BY <1>1, <1>5 DEF CommitRefund, NewPaid, Fit, RowPCs, RefundPCs, Results
    <2> QED BY <1>1, <1>5, <2>1 DEF CommitRefund, TypeOK, PaymentRow
  <1>6. CASE Aside
    BY <1>6 DEF Aside
  <1> QED BY <1>3, <1>4, <1>5, <1>6, PaymentSteps

-----------------------------------------------------------------------------
(* Refunds and what the gateway has paid back                               *)

\* The money of a refund in flight, coin by coin: counting coins spares a sum
\* over the sessions.
Coins(s) == {s} \X (1..sess[s].amount)

\* What the gateway has paid back for an intent and the books do not show yet.
Owed(p) ==
  UNION {Coins(s) : s \in {t \in Sessions : /\ sess[t].pc \in {"repaid", "booked"}
                                            /\ sess[t].intent = p}}

\* The books and the refunds in flight together never exceed what the gateway
\* has paid back.
BooksAreCovered ==
  \A p \in Intents :
    /\ IsFiniteSet(Owed(p))
    /\ payments[p].refunded + Cardinality(Owed(p)) <= repaid[p]

LEMMA CoinsCount ==
  ASSUME NEW s, sess[s].amount \in Nat
  PROVE  IsFiniteSet(Coins(s)) /\ Cardinality(Coins(s)) = sess[s].amount
  <1> DEFINE n == sess[s].amount
  <1>1. IsFiniteSet(1..n) /\ Cardinality(1..n) = n
    <2>1. n \in Nat  OBVIOUS
    <2> HIDE DEF n
    <2>2. /\ IsFiniteSet(1..n)
          /\ Cardinality(1..n) = IF 1 > n THEN 0 ELSE n - 1 + 1
      BY <2>1, FS_Interval
    <2> QED BY <2>1, <2>2
  <1>2. IsFiniteSet({s}) /\ Cardinality({s}) = 1
    BY FS_Singleton
  <1>3. IsFiniteSet({s} \X (1..n)) /\ Cardinality({s} \X (1..n)) = 1 * n
    BY <1>1, <1>2, FS_Product
  <1> QED BY <1>3 DEF Coins

\* What a step that moves at most the session s does to the coins of an intent.
LEMMA OwedAfter ==
  ASSUME TypeOK, NEW s \in Sessions, NEW local, sess' = [sess EXCEPT ![s] = local],
         NEW p \in Intents
  PROVE  /\ local.pc \notin {"repaid", "booked"} =>
              Owed(p)' \subseteq Owed(p) \ Coins(s)
         /\ local.intent = sess[s].intent /\ local.amount = sess[s].amount =>
              /\ Owed(p)' \subseteq Owed(p) \cup Coins(s)
              /\ sess[s].intent # p \/ sess[s].pc \in {"repaid", "booked"} =>
                   Owed(p)' \subseteq Owed(p)
  <1>1. sess'[s] = local /\ \A t \in Sessions : t # s => sess'[t] = sess[t]
    BY DEF TypeOK
  <1>2. \A t \in Sessions : t # s => Coins(t)' = Coins(t)
    BY <1>1 DEF Coins
  <1>3. local.amount = sess[s].amount => Coins(s)' = Coins(s)
    BY <1>1 DEF Coins
  <1>4. \A t \in Sessions : t # s => Coins(t) \cap Coins(s) = {}
    BY DEF Coins
  <1>5. local.pc \notin {"repaid", "booked"} => Owed(p)' \subseteq Owed(p) \ Coins(s)
    BY <1>1, <1>2, <1>4 DEF Owed
  <1>6. ASSUME local.intent = sess[s].intent, local.amount = sess[s].amount
        PROVE  /\ Owed(p)' \subseteq Owed(p) \cup Coins(s)
               /\ sess[s].intent # p \/ sess[s].pc \in {"repaid", "booked"} =>
                    Owed(p)' \subseteq Owed(p)
    BY <1>1, <1>2, <1>3, <1>6 DEF Owed
  <1> QED BY <1>5, <1>6

\* A step that adds no coins and books nothing keeps the books covered.
LEMMA QuietBooks ==
  ASSUME TypeOK, TypeOK', BooksAreCovered, NEW p \in Intents,
         Owed(p)' \subseteq Owed(p), repaid'[p] = repaid[p],
         payments'[p].refunded <= payments[p].refunded
  PROVE  /\ IsFiniteSet(Owed(p)')
         /\ payments'[p].refunded + Cardinality(Owed(p)') <= repaid'[p]
  <1>1. IsFiniteSet(Owed(p)) /\ Cardinality(Owed(p)) \in Nat
    BY FS_CardinalityType DEF BooksAreCovered
  <1>2. /\ IsFiniteSet(Owed(p)') /\ Cardinality(Owed(p)') \in Nat
        /\ Cardinality(Owed(p)') <= Cardinality(Owed(p))
    BY <1>1, FS_Subset, FS_CardinalityType
  <1>3. /\ payments[p].refunded \in Nat /\ payments'[p].refunded \in Nat
        /\ repaid[p] \in Nat
    BY DEF TypeOK, PaymentRow
  <1> QED BY <1>1, <1>2, <1>3 DEF BooksAreCovered

LEMMA BooksStep == Base /\ BooksAreCovered /\ [Next]_vars => BooksAreCovered'
  <1> SUFFICES ASSUME Base, BooksAreCovered, [Next]_vars, NEW p \in Intents
               PROVE  /\ IsFiniteSet(Owed(p)')
                      /\ payments'[p].refunded + Cardinality(Owed(p)') <= repaid'[p]
    BY DEF BooksAreCovered
  <1> DEFINE Covered ==
        /\ IsFiniteSet(Owed(p)')
        /\ payments'[p].refunded + Cardinality(Owed(p)') <= repaid'[p]
  <1>1. TypeOK /\ TypeOK' /\ \A s \in Sessions : Fit(s)
    BY TypeStep DEF Base
  <1>2. \A s \in Sessions : sess[s] \in Session /\ sess[s].amount \in Nat
    BY <1>1 DEF TypeOK, Session
  <1>3. payments[p].refunded \in Nat /\ repaid[p] \in Nat
    BY <1>1 DEF TypeOK, PaymentRow
  <1>4. /\ IsFiniteSet(Owed(p)) /\ Cardinality(Owed(p)) \in Nat
        /\ payments[p].refunded + Cardinality(Owed(p)) <= repaid[p]
    BY FS_CardinalityType DEF BooksAreCovered
  \* A session ends or goes on without money of its own.
  <1>5. ASSUME NEW s \in Sessions, NEW local, local.pc \notin {"repaid", "booked"},
               Become(s, local), repaid'[p] = repaid[p],
               payments'[p].refunded <= payments[p].refunded
        PROVE  Covered
    <2>1. Owed(p)' \subseteq Owed(p)
      BY <1>1, <1>5, OwedAfter DEF Become
    <2> QED BY <1>1, <1>5, <2>1, QuietBooks
  <1>6. ASSUME NEW s \in Sessions, Finish(s), repaid'[p] = repaid[p],
               payments'[p].refunded <= payments[p].refunded
        PROVE  Covered
    <2>1. Idle.pc \notin {"repaid", "booked"}
      BY DEF Idle
    <2> QED BY <1>5, <1>6, <2>1 DEF Finish
  <1>7. ASSUME UNCHANGED <<sess, payments, repaid>>
        PROVE  Covered
    <2>1. Owed(p)' = Owed(p)
      BY <1>7 DEF Owed, Coins
    <2> QED BY <1>4, <1>7, <2>1
  <1>8. ASSUME NEW s \in Sessions, NEW o \in Orders, ReceiveInitialize(s, o)
        PROVE  Covered
    <2> DEFINE local == [Idle EXCEPT !.pc = "calling", !.order = o, !.seen = orders[o]]
    <2>1. local.pc = "calling"
      BY <1>2 DEF Session, Idle
    <2>2. repaid'[p] = repaid[p] /\ payments'[p].refunded <= payments[p].refunded
      BY <1>3, <1>8 DEF ReceiveInitialize
    <2>3. Become(s, local) \/ Finish(s)
      BY <1>8 DEF ReceiveInitialize
    <2> HIDE DEF local
    <2> QED BY <1>5, <1>6, <2>1, <2>2, <2>3
  <1>9. ASSUME NEW s \in Sessions, CreatePaymentIntent(s)
        PROVE  Covered
    <2>1. repaid'[p] = repaid[p] /\ payments'[p].refunded <= payments[p].refunded
      <3>1. payments' = payments /\ repaid' = repaid
        BY <1>9 DEF CreatePaymentIntent
      <3> QED BY <1>3, <3>1
    <2>2. CASE Finish(s)
      BY <1>6, <2>1, <2>2
    <2>3. ASSUME NEW q \in Intents,
                 Become(s, [sess[s] EXCEPT !.pc = "intent", !.intent = q])
          PROVE  Covered
      <3> DEFINE local == [sess[s] EXCEPT !.pc = "intent", !.intent = q]
      <3>1. local.pc = "intent" /\ Become(s, local)
        BY <1>2, <2>3 DEF Session
      <3> HIDE DEF local
      <3> QED BY <1>5, <2>1, <3>1
    <2> QED BY <1>9, <2>2, <2>3 DEF CreatePaymentIntent
  <1>10. ASSUME NEW s \in Sessions, InitializePayment(s)
         PROVE  Covered
    <2>1. payments'[p].refunded \in {0, payments[p].refunded} /\ repaid' = repaid
      BY <1>1, <1>10 DEF InitializePayment, TypeOK
    <2> QED BY <1>3, <1>6, <1>10, <2>1 DEF InitializePayment
  <1>11. ASSUME NEW s \in Sessions, NEW e \in Event, ReceiveWebhook(s, e)
         PROVE  Covered
    <2> DEFINE local == [Idle EXCEPT !.pc = "checked", !.intent = e.intent, !.result = e.result,
                                     !.paid = payments[e.intent].status]
    <2>1. local.pc = "checked"
      BY <1>2 DEF Session, Idle
    <2>2. repaid'[p] = repaid[p] /\ payments'[p].refunded <= payments[p].refunded
      BY <1>3, <1>11 DEF ReceiveWebhook
    <2>3. Become(s, local) \/ Finish(s)
      BY <1>11 DEF ReceiveWebhook
    <2> HIDE DEF local
    <2> QED BY <1>5, <1>6, <2>1, <2>2, <2>3
  <1>12. ASSUME NEW s \in Sessions, RecordEvent(s)
         PROVE  Covered
    <2> DEFINE local == [sess[s] EXCEPT !.pc = "recorded",
                                        !.order = payments[sess[s].intent].order,
                                        !.seen = orders[payments[sess[s].intent].order]]
    <2>1. local.pc = "recorded"
      BY <1>2 DEF Session, Idle
    <2>2. repaid'[p] = repaid[p] /\ payments'[p].refunded <= payments[p].refunded
      BY <1>3, <1>12 DEF RecordEvent
    <2>3. Become(s, local) \/ Finish(s)
      BY <1>12 DEF RecordEvent
    <2> HIDE DEF local
    <2> QED BY <1>5, <1>6, <2>1, <2>2, <2>3
  <1>13. ASSUME NEW s \in Sessions, CommitWebhook(s)
         PROVE  Covered
    <2>1. payments'[p].refunded = payments[p].refunded /\ repaid' = repaid
      BY <1>1, <1>13 DEF CommitWebhook, TypeOK, PaymentRow
    <2> QED BY <1>3, <1>6, <1>13, <2>1 DEF CommitWebhook
  <1>14. ASSUME NEW s \in Sessions, NEW q \in Intents, NEW amount \in 1..Price,
                ReceiveRefund(s, q, amount)
         PROVE  Covered
    <2> DEFINE local == [Idle EXCEPT !.pc = "refunding", !.intent = q, !.amount = amount,
                                     !.paid = payments[q].status]
    <2>1. local.pc = "refunding"
      BY <1>2 DEF Session, Idle
    <2>2. repaid'[p] = repaid[p] /\ payments'[p].refunded <= payments[p].refunded
      BY <1>3, <1>14 DEF ReceiveRefund
    <2>3. Become(s, local) \/ Finish(s)
      BY <1>14 DEF ReceiveRefund
    <2> HIDE DEF local
    <2> QED BY <1>5, <1>6, <2>1, <2>2, <2>3
  <1>15. ASSUME NEW s \in Sessions, ProcessRefund(s)
         PROVE  Covered
    <2> DEFINE local == [sess[s] EXCEPT !.pc = "repaid"]
    <2>1. CASE Finish(s) /\ UNCHANGED repaid
      BY <1>3, <1>6, <1>15, <2>1 DEF ProcessRefund
    <2>2. CASE /\ repaid' = [repaid EXCEPT ![sess[s].intent] = @ + sess[s].amount]
               /\ Become(s, local)
      <3>1. local.intent = sess[s].intent /\ local.amount = sess[s].amount
        BY <1>2 DEF Session
      <3>2. sess' = [sess EXCEPT ![s] = local] /\ payments' = payments
        BY <1>15, <2>2 DEF ProcessRefund, Become
      <3> HIDE DEF local
      <3>3. CASE sess[s].intent = p
        <4>1. repaid'[p] = repaid[p] + sess[s].amount
          BY <1>1, <2>2, <3>3 DEF TypeOK
        <4>2. Owed(p)' \subseteq Owed(p) \cup Coins(s)
          BY <1>1, <3>1, <3>2, OwedAfter
        <4>3. IsFiniteSet(Coins(s)) /\ Cardinality(Coins(s)) = sess[s].amount
          BY <1>2, CoinsCount
        <4>4. /\ IsFiniteSet(Owed(p) \cup Coins(s))
              /\ Cardinality(Owed(p) \cup Coins(s)) \in Nat
              /\ Cardinality(Owed(p) \cup Coins(s)) <=
                   Cardinality(Owed(p)) + sess[s].amount
          <5>1. IsFiniteSet(Owed(p) \cap Coins(s))
            BY <1>4, FS_Subset
          <5>2. Cardinality(Owed(p) \cap Coins(s)) \in Nat
            BY <5>1, FS_CardinalityType
          <5>3. /\ IsFiniteSet(Owed(p) \cup Coins(s))
                /\ Cardinality(Owed(p) \cup Coins(s)) =
                     Cardinality(Owed(p)) + sess[s].amount
                       - Cardinality(Owed(p) \cap Coins(s))
            BY <1>4, <4>3, FS_Union
          <5>4. Cardinality(Owed(p) \cup Coins(s)) \in Nat
            BY <5>3, FS_CardinalityType
          <5> QED BY <1>2, <1>4, <5>2, <5>3, <5>4
        <4>5. /\ IsFiniteSet(Owed(p)') /\ Cardinality(Owed(p)') \in Nat
              /\ Cardinality(Owed(p)') <= Cardinality(Owed(p) \cup Coins(s))
          BY <4>2, <4>4, FS_Subset, FS_CardinalityType
        <4> QED BY <1>2, <1>3, <1>4, <3>2, <4>1, <4>4, <4>5
      <3>4. CASE sess[s].intent # p
        <4>1. repaid'[p] = repaid[p]
          BY <1>1, <2>2, <3>4 DEF TypeOK
        <4>2. Owed(p)' \subseteq Owed(p)
          BY <1>1, <3>1, <3>2, <3>4, OwedAfter
        <4> QED BY <1>1, <1>3, <3>2, <4>1, <4>2, QuietBooks
      <3> QED BY <3>3, <3>4
    <2> QED BY <1>15, <2>1, <2>2 DEF ProcessRefund
  <1>16. ASSUME NEW s \in Sessions, BookRefund(s)
         PROVE  Covered
    <2> DEFINE o == payments[sess[s].intent].order
               local == [sess[s] EXCEPT !.pc = "booked", !.order = o, !.seen = orders[o]]
    <2>1. CASE Finish(s)
      BY <1>3, <1>6, <1>16, <2>1 DEF BookRefund
    <2>2. CASE Become(s, local)
      <3>1. local.intent = sess[s].intent /\ local.amount = sess[s].amount
        BY <1>2 DEF Session
      <3>2. /\ sess' = [sess EXCEPT ![s] = local]
            /\ payments' = payments /\ repaid' = repaid /\ sess[s].pc = "repaid"
        BY <1>16, <2>2 DEF BookRefund, Become
      <3> HIDE DEF local
      <3>3. Owed(p)' \subseteq Owed(p)
        BY <1>1, <3>1, <3>2, OwedAfter
      <3> QED BY <1>1, <1>3, <3>2, <3>3, QuietBooks
    <2> QED BY <1>16, <2>1, <2>2 DEF BookRefund
  <1>17. ASSUME NEW s \in Sessions, CommitRefund(s)
         PROVE  Covered
    <2>1. sess[s].intent \in Intents /\ sess[s].pc = "booked"
      BY <1>1, <1>17 DEF CommitRefund, Fit, RowPCs, RefundPCs
    <2>2. sess' = [sess EXCEPT ![s] = Idle] /\ repaid' = repaid
      BY <1>17 DEF CommitRefund, Finish, Become
    <2>3. Idle.pc \notin {"repaid", "booked"}
      BY DEF Idle
    <2>4. CASE sess[s].intent = p
      <3>1. payments'[p].refunded = payments[p].refunded + sess[s].amount
        BY <1>1, <1>17, <2>4 DEF CommitRefund, TypeOK, PaymentRow
      <3>2. Owed(p)' \subseteq Owed(p) \ Coins(s)
        BY <1>1, <2>2, <2>3, OwedAfter
      <3>3. Coins(s) \subseteq Owed(p)
        BY <2>1, <2>4 DEF Owed
      <3>4. Cardinality(Coins(s)) = sess[s].amount
        BY <1>2, CoinsCount
      <3>5. /\ IsFiniteSet(Owed(p) \ Coins(s))
            /\ Cardinality(Owed(p) \ Coins(s)) =
                 Cardinality(Owed(p)) - sess[s].amount
        <4>1. Owed(p) \cap Coins(s) = Coins(s)
          BY <3>3
        <4>2. /\ IsFiniteSet(Owed(p) \ Coins(s))
              /\ Cardinality(Owed(p) \ Coins(s)) =
                   Cardinality(Owed(p)) - Cardinality(Owed(p) \cap Coins(s))
          BY <1>4, FS_Difference
        <4> QED BY <3>4, <4>1, <4>2
      <3>6. /\ IsFiniteSet(Owed(p)') /\ Cardinality(Owed(p)') \in Nat
            /\ Cardinality(Owed(p)') <= Cardinality(Owed(p)) - sess[s].amount
        BY <3>2, <3>5, FS_Subset, FS_CardinalityType
      <3> QED BY <1>2, <1>3, <1>4, <2>2, <3>1, <3>6
    <2>5. CASE sess[s].intent # p
      <3>1. payments'[p] = payments[p]
        BY <1>1, <1>17, <2>5 DEF CommitRefund, TypeOK
      <3>2. repaid'[p] = repaid[p] /\ payments'[p].refunded <= payments[p].refunded
        BY <1>3, <2>2, <3>1
      <3>3. Finish(s)
        BY <1>17 DEF CommitRefund
      <3> QED BY <1>6, <3>2, <3>3
    <2> QED BY <2>4, <2>5
  <1>18. ASSUME NEW s \in Sessions, Crash(s)
         PROVE  Covered
    BY <1>3, <1>6, <1>18 DEF Crash
  <1>19. ASSUME NEW o \in Orders, DeskTransition(o)
         PROVE  Covered
    BY <1>7, <1>19 DEF DeskTransition
  <1>20. ASSUME NEW q \in Intents, NEW result \in Results, Pay(q, result)
         PROVE  Covered
    BY <1>7, <1>20 DEF Pay
  <1>21. CASE UNCHANGED vars
    BY <1>7, <1>21 DEF vars
  <1> QED BY <1>8, <1>9, <1>10, <1>11, <1>12, <1>13, <1>14, <1>15, <1>16, <1>17, <1>18,
             <1>19, <1>20, <1>21 DEF Next, Work

LEMMA BooksInit == Init => BooksAreCovered
  <1> SUFFICES ASSUME Init, NEW p \in Intents
               PROVE  /\ IsFiniteSet(Owed(p))
                      /\ payments[p].refunded + Cardinality(Owed(p)) <= repaid[p]
    BY DEF BooksAreCovered
  <1>1. Owed(p) = {}
    BY DEF Init, Owed, Idle
  <1> QED BY <1>1, FS_EmptySet DEF Init

-----------------------------------------------------------------------------
(* Theorems                                                                 *)

\* Base and StatusIsEarned support each other: a refund is only of captured
\* money because the status it checks is earned.
Inv == Base /\ StatusIsEarned

LEMMA Invariance == Spec => []Inv
  <1>1. Init => Inv
    BY BaseInit DEF Inv, Init, StatusIsEarned
  <1>2. Inv /\ [Next]_vars => Inv'
    <2>1. Base /\ StatusIsEarned /\ [Next]_vars => Base'
      BY TypeStep, RowsStep, FitStep DEF Base
    <2> QED BY <2>1, EarnedStep DEF Inv
  <1> QED BY <1>1, <1>2, PTL DEF Spec

\* Type correctness: the tables and the sessions' local data keep their types,
\* whatever requests, events and crashes overlap.
THEOREM PaymentsTypeCorrect == Spec => []TypeOK
  BY Invariance, PTL DEF Inv, Base

\* A payment is captured, failed or refunded only for a reason on record, for
\* any number of overlapping webhooks and refunds that read it unlocked.
THEOREM EarnedCorrect == Spec => []StatusIsEarned
  BY Invariance, PTL DEF Inv

\* No order gets past payment without a captured payment of its own, unless its
\* owner placed it.
THEOREM PlacedCorrect == Spec => []PlacedWasPaid
  <1>1. Init => PlacedWasPaid
    BY DEF Init, PlacedWasPaid, Unplaced
  <1>2. Inv /\ PlacedWasPaid /\ [Next]_vars => PlacedWasPaid'
    BY PlacedStep DEF Inv
  <1> QED BY <1>1, <1>2, Invariance, PTL DEF Spec

\* Only the commit of an overtaken payment request moves an order past the table,
\* and by a move allowed from what it had read.
THEOREM SkipCorrect == Spec => OnlyOvertakenSkip
  <1>1. Inv /\ [Next]_vars =>
          [\A o \in Orders :
             orders'[o] # orders[o] /\ orders'[o] \notin ORDER_TRANSITIONS[orders[o]] =>
               \E s \in Sessions :
                 /\ sess[s].order = o /\ sess[s].pc # "idle" /\ sess'[s].pc = "idle"
                 /\ sess[s].seen # orders[o]
                 /\ orders'[o] \in ORDER_TRANSITIONS[sess[s].seen]]_vars
    BY SkipStep DEF Inv, Overtaken
  <1> QED BY <1>1, Invariance, PTL DEF Spec, OnlyOvertakenSkip

\* A gateway event with an id takes effect at most once, however often and
\* concurrently it is delivered.
THEOREM OnceCorrect == Spec => EventTakesEffectOnce
  <1>1. Inv /\ [Next]_vars =>
          [\A p \in Intents :
             /\ payments'[p].status # payments[p].status
             /\ payments'[p].status \in Results
             => [intent |-> p, result |-> payments'[p].status]
                  \in events' \ (events \cap Named)]_vars
    BY OnceStep DEF Inv
  <1> QED BY <1>1, Invariance, PTL DEF Spec, EventTakesEffectOnce

\* The refunds on record have been made, for any number of refunds in flight
\* and however they overlap, fail or are cut off: every coin the gateway has
\* paid back is booked at most once.
THEOREM RefundsCorrect == Spec => []RefundsWereSent
  <1>1. Inv /\ BooksAreCovered /\ [Next]_vars => BooksAreCovered'
    BY BooksStep DEF Inv
  <1>2. Inv /\ BooksAreCovered => RefundsWereSent
    <2> SUFFICES ASSUME Inv, BooksAreCovered, NEW p \in Intents
                 PROVE  payments[p].refunded <= repaid[p]
      BY DEF RefundsWereSent
    <2>1. payments[p].refunded \in Nat /\ repaid[p] \in Nat
      BY DEF Inv, Base, TypeOK, PaymentRow
    <2>2. Cardinality(Owed(p)) \in Nat
      BY FS_CardinalityType DEF BooksAreCovered
    <2> QED BY <2>1, <2>2 DEF BooksAreCovered
  <1> QED BY <1>1, <1>2, BooksInit, Invariance, PTL DEF Spec
=============================================================================
