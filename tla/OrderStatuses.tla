--------------------------- MODULE OrderStatuses ---------------------------
(***************************************************************************)
(* The vocabulary of the order state machine (app/constants/orders.py):    *)
(* the statuses an order row may hold and the table of allowed moves that  *)
(* every service consults before it writes one.  Pure definitions, shared  *)
(* by every module that touches an order.                                  *)
(***************************************************************************)

OrderStatus ==
  { "pending", "awaiting_payment", "payment_failed", "placed", "accepted",
    "rejected", "preparing", "ready_for_pickup", "rider_assigned",
    "picked_up", "in_transit", "delivered", "cancelled", "refunded" }

\* The moves the services accept, status by status.
ORDER_TRANSITIONS ==
  [ pending          |-> {"awaiting_payment", "placed", "cancelled"},
    awaiting_payment |-> {"placed", "payment_failed", "cancelled"},
    payment_failed   |-> {"awaiting_payment", "cancelled"},
    placed           |-> {"accepted", "rejected", "cancelled"},
    accepted         |-> {"preparing", "cancelled"},
    preparing        |-> {"ready_for_pickup", "cancelled"},
    ready_for_pickup |-> {"rider_assigned"},
    rider_assigned   |-> {"picked_up", "ready_for_pickup", "cancelled"},
    picked_up        |-> {"in_transit", "cancelled"},
    in_transit       |-> {"delivered", "cancelled"},
    delivered        |-> {},
    rejected         |-> {"refunded"},
    cancelled        |-> {"refunded"},
    refunded         |-> {} ]

\* Orders that occupy the rider they are assigned to.
ActiveStatuses == {"rider_assigned", "picked_up", "in_transit"}

=============================================================================
