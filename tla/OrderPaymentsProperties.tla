---------------------- MODULE OrderPaymentsProperties ----------------------
(***************************************************************************)
(* What OrderPayments guarantees although its handlers lock nothing they   *)
(* read, and the statements of the documentation that it does not live up  *)
(* to.                                                                     *)
(***************************************************************************)
EXTENDS OrderPayments

Captured(p) == [intent |-> p, result |-> "captured"]
Failed(p)   == [intent |-> p, result |-> "failed"]

-----------------------------------------------------------------------------
(* Safety                                                                   *)

\* Where an order is before it is paid for, or after it has been given up.
Unplaced ==
  {"pending", "awaiting_payment", "payment_failed", "cancelled", "refunded"}

\* An order the restaurant works on has been paid for or was placed by the
\* owner himself: some payment of it has its captured event on record, or its
\* history names him.  Stale writes can throw such an order back, but never let
\* another one through.
PlacedWasPaid ==
  \A o \in Orders : orders[o] \notin Unplaced =>
    \/ o \in released
    \/ \E p \in Intents : payments[p].order = o /\ Captured(p) \in events

\* The status of a payment has its cause on record, whatever events and refunds
\* overlapped: the gateway's event, or a capture and a refund of it.
StatusIsEarned ==
  \A p \in Intents :
    /\ payments[p].status = "captured" => Captured(p) \in events
    /\ payments[p].status = "failed" => Failed(p) \in events
    /\ payments[p].status \in {"refunded", "partially_refunded"} =>
         Captured(p) \in events /\ payments[p].refunded > 0

\* The refunds on record have been made: the books never run ahead of the
\* gateway.
RefundsWereSent == \A p \in Intents : payments[p].refunded <= repaid[p]

\* An event of the gateway that has an id takes effect at most once, however
\* often and however concurrently it is delivered: a payment becomes captured or
\* failed only in the transaction that saves an event saying so, and this is the
\* first to save it.  An event without an id takes effect each time.
EventTakesEffectOnce ==
  [][\A p \in Intents :
       /\ payments'[p].status # payments[p].status
       /\ payments'[p].status \in Results
       => [intent |-> p, result |-> payments'[p].status]
            \in events' \ (events \cap Named)]_vars

\* An order jumps past the table of moves (a cancelled one back to awaiting
\* payment, an accepted one to refunded) only in the commit of a payment request
\* that read it before somebody else moved it, and then by a move allowed from
\* what that request had read.
OnlyOvertakenSkip ==
  [][\A o \in Orders :
       orders'[o] # orders[o] /\ orders'[o] \notin ORDER_TRANSITIONS[orders[o]] =>
         \E s \in Sessions :
           /\ sess[s].order = o /\ sess[s].pc # "idle" /\ sess'[s].pc = "idle"
           /\ sess[s].seen # orders[o]
           /\ orders'[o] \in ORDER_TRANSITIONS[sess[s].seen]]_vars

-----------------------------------------------------------------------------
(* Liveness                                                                 *)

\* Every request ends: waiting for the same event and for the same payment row
\* never forms a cycle.
EveryRequestEnds ==
  \A s \in Sessions : sess[s].pc # "idle" ~> sess[s].pc = "idle"

\* An event the gateway emits is taken in sooner or later, although concurrent
\* deliveries of it make each other fail.
EventsAreTakenIn == \A e \in Event : e \in emitted ~> e \in events

-----------------------------------------------------------------------------
(* Statements of the documentation and the comments                         *)

\* The webhook for a successful transaction moves its order on to placed.
CapturedOrderProgresses ==
  \A p \in Intents : Captured(p) \in events =>
    orders[payments[p].order] \notin {"pending", "awaiting_payment", "payment_failed"}

\* A refund that the gateway has made is recorded when the request is over.
RefundsAreRecorded ==
  \A p \in Intents :
    (\A s \in Sessions : sess[s].intent # p) => repaid[p] = payments[p].refunded
=============================================================================
