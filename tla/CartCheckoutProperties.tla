----------------------- MODULE CartCheckoutProperties -----------------------
(***************************************************************************)
(* What CartCheckout guarantees although most of its handlers lock nothing *)
(* they read, and the statement of the documentation that it does not live *)
(* up to.                                                                  *)
(***************************************************************************)
EXTENDS CartCheckout

-----------------------------------------------------------------------------
(* The inductive invariant                                                  *)

OrdersWith(r) == {i \in DOMAIN orders : r \in orders[i].rows}

\* No two sessions hold locks on the cart that exclude each other.
LocksExclude ==
  \A s \in Sessions : \A t \in Sessions \ {s} :
    \A m \in sess[s].cartLocks, n \in sess[t].cartLocks : ~Conflict(m, n)

\* A checkout under way holds the lock, and what it loaded is still all there is
\* in the cart; an insert under way holds the lock of its foreign key.
Fit(me) ==
  /\ me.req.kind = "checkout" =>
       /\ me.target = NoRow /\ me.pc # "create"
       /\ me.pc \in {"items", "loaded", "delete"} => "update" \in me.cartLocks
       /\ me.pc \in {"loaded", "delete"} =>
            /\ InCart \subseteq me.rows
            /\ \A r \in me.rows : lines[r].at # "unused" /\ OrdersWith(r) = {}
       /\ me.pc \in {"items", "loaded"} => me.bound = me.loaded
       /\ me.pc = "delete" => me.bound = NoRestaurant /\ me.loaded # NoRestaurant
  /\ me.req.kind = "add" =>
       /\ me.pc \in {"load", "items", "create", "loaded"} => me.target = NoRow
       /\ me.pc = "commit" /\ me.target # NoRow =>
            lines[me.target].at # "unused" \/ "keyShare" \in me.cartLocks

SessionsFit == \A s \in Sessions : Fit(sess[s])

OrderedAtMostOnce ==
  \A r \in Rows : \A i, j \in OrdersWith(r) : i = j /\ lines[r].at = "gone"

CartInv == TypeOK /\ LocksExclude /\ SessionsFit /\ OrderedAtMostOnce

-----------------------------------------------------------------------------
(* Safety                                                                   *)

\* What was ordered is ordered once: checkouts that overlap, and edits of the
\* cart between a checkout's reading it and its commit, never lead to a second
\* order for a cart item or leave an ordered item in the cart.
RowOrderedOnce ==
  \A r \in Rows : OrdersWith(r) # {} =>
    Cardinality(OrdersWith(r)) = 1 /\ lines[r].at = "gone"

\* Handlers wait for each other in a cycle only if one of them is remove_item,
\* the one that locks an item before the cart.
OnlyRemovalDeadlocks ==
  \A S \in SUBSET Sessions : S # {} /\ Deadlocked(S) =>
    \E s \in S : sess[s].req.kind = "remove"

-----------------------------------------------------------------------------
(* Action properties                                                        *)

\* A checkout leaves nothing behind: its FOR UPDATE waits for the inserts under
\* way and keeps new ones out, so at its commit the cart is empty and free to be
\* used for any restaurant.
CheckoutTakesWholeCart ==
  [][orders' # orders =>
       /\ \A r \in Rows : lines'[r].at # "cart"
       /\ cart'.bound = NoRestaurant]_vars

-----------------------------------------------------------------------------
(* Statements of the documentation                                          *)

\* All items in the cart are from one restaurant.
SingleRestaurant ==
  \A p, r \in InCart :
    RestaurantOf[lines[p].item] = RestaurantOf[lines[r].item]
=============================================================================
