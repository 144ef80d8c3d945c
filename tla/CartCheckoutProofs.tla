------------------------- MODULE CartCheckoutProofs -------------------------
(***************************************************************************)
(* For any menu, any number of overlapping requests and any number of cart *)
(* rows: what is ordered is ordered once, and a checkout takes the whole   *)
(* cart.  The argument is the lock on the cart: while a checkout holds it, *)
(* nobody can insert a row or place an order, so what the checkout loaded  *)
(* stays all there is.  Rows are deleted in the order of their ids, so     *)
(* without remove_item nobody closes a cycle of requests that wait.        *)
(***************************************************************************)
EXTENDS CartCheckoutProperties, FiniteSetTheorems, TLAPS

-----------------------------------------------------------------------------
(* Sessions                                                                 *)

\* The locks that session s would hold as local exclude nobody else's.
Admissible(s, local) ==
  \A t \in Sessions \ {s} :
    \A m \in local.cartLocks, n \in sess[t].cartLocks : ~Conflict(m, n)

\* What a session record holds.
LEMMA Loaded ==
  ASSUME TypeOK, NEW s \in Sessions
  PROVE  /\ sess[s] \in Session
         /\ sess[s].req \in Requests /\ sess[s].rows \in SUBSET Rows
         /\ sess[s].loaded \in OptRestaurant /\ sess[s].bound \in OptRestaurant
         /\ sess[s].target \in Rows \cup {NoRow} /\ sess[s].todo \in SUBSET Rows
         /\ sess[s].cartLocks \in SUBSET LockMode
         /\ sess[s].rowLocks \in SUBSET Rows
BY DEF TypeOK, Session

LEMMA IdleFits == Idle \in Session /\ Fit(Idle) /\ Idle.cartLocks = {}
BY DEF Idle, Session, Fit, PCs, Requests, Kinds, ItemKinds, OptRestaurant

LEMMA ConflictSymmetric ==
  \A m, n : Conflict(m, n) <=> Conflict(n, m)
BY DEF Conflict

\* A statement that changes nothing but the session keeps the invariant if the
\* session's new record fits and its locks were free.
LEMMA LocalStep ==
  ASSUME CartInv, NEW s \in Sessions, NEW local, local \in Session,
         Fit(local), Admissible(s, local), Step(s, local)
  PROVE  CartInv'
<1>1. /\ sess' = [sess EXCEPT ![s] = local]
      /\ cart' = cart /\ lines' = lines /\ orders' = orders
  BY DEF Step
<1>2. TypeOK /\ sess \in [Sessions -> Session]
  BY DEF CartInv, TypeOK
<1>3. sess'[s] = local /\ \A t \in Sessions \ {s} : sess'[t] = sess[t]
  BY <1>1, <1>2
<1>4. TypeOK'
  BY <1>1, <1>2 DEF TypeOK
<1>5. LocksExclude'
  BY <1>3, ConflictSymmetric DEF CartInv, LocksExclude, Admissible
<1>6. InCart' = InCart /\ \A r : OrdersWith(r)' = OrdersWith(r)
  BY <1>1 DEF InCart, OrdersWith
<1>7. SessionsFit'
  <2>1. SUFFICES ASSUME NEW t \in Sessions
                 PROVE  Fit(sess[t])'
    BY DEF SessionsFit
  <2>2. CASE t = s
    BY <1>1, <1>3, <1>6, <2>2 DEF Fit
  <2>3. CASE t # s
    BY <1>1, <1>3, <1>6, <2>3 DEF Fit, CartInv, SessionsFit
  <2>. QED  BY <2>2, <2>3
<1>8. OrderedAtMostOnce'
  BY <1>1, <1>6 DEF CartInv, OrderedAtMostOnce
<1>. QED
  BY <1>4, <1>5, <1>7, <1>8 DEF CartInv

LEMMA FailStep ==
  ASSUME CartInv, NEW s \in Sessions, Fail(s)
  PROVE  CartInv'
<1>1. Admissible(s, Idle)
  BY IdleFits DEF Admissible
<1>. QED
  BY <1>1, IdleFits, LocalStep DEF Fail

\* A session that keeps its locks on the cart keeps them admissible.
LEMMA SameLocks ==
  ASSUME CartInv, NEW s \in Sessions, NEW local,
         local.cartLocks \subseteq sess[s].cartLocks
  PROVE  Admissible(s, local)
BY DEF Admissible, CartInv, LocksExclude

LEMMA NoRowNotInCart == NoRow \notin InCart
BY CartAssumption DEF InCart

\* A lock that nobody has to be waited for is admissible with the ones held.
LEMMA NewLock ==
  ASSUME CartInv, NEW s \in Sessions, NEW local, NEW mode,
         local.cartLocks \subseteq sess[s].cartLocks \cup {mode},
         CartHolders(s, mode) = {}
  PROVE  Admissible(s, local)
BY DEF Admissible, CartInv, LocksExclude, CartHolders

LEMMA NobodyAwaited ==
  ASSUME NEW s \in Sessions, Awaited(s) = {}
  PROVE  /\ SelectsForUpdate(s) => CartHolders(s, "update") = {}
         /\ Binds(s) \/ Unbinds(s) => CartHolders(s, "noKeyUpdate") = {}
         /\ Inserts(s) => CartHolders(s, "keyShare") = {}
BY DEF Awaited, CartHolders

-----------------------------------------------------------------------------
(* Statements                                                               *)

LEMMA ReceiveInv ==
  ASSUME CartInv, NEW s \in Sessions, NEW q \in Requests, Receive(s, q)
  PROVE  CartInv'
<1> DEFINE local == [Idle EXCEPT !.pc = "load", !.req = q]
<1>2. local \in Session
  BY IdleFits DEF Idle, Session, PCs
<1>3. /\ local.pc = "load" /\ local.target = NoRow /\ local.cartLocks = {}
      /\ Step(s, local)
  BY DEF Idle, Receive
<1>. HIDE DEF local
<1>4. Fit(local) /\ Admissible(s, local)
  BY <1>3 DEF Fit, Admissible
<1>. QED
  BY <1>2, <1>3, <1>4, LocalStep

LEMMA LoadInv ==
  ASSUME CartInv, NEW s \in Sessions, Load(s)
  PROVE  CartInv'
<1>1. /\ sess[s] \in Session /\ sess[s].rows \in SUBSET Rows
      /\ Fit(sess[s]) /\ cart.bound \in OptRestaurant
  BY Loaded DEF CartInv, SessionsFit, TypeOK, CartRow
<1>2. CASE LoadCart(s)
  <2> DEFINE found   == [sess[s] EXCEPT !.pc = "items", !.loaded = cart.bound,
                                        !.bound = cart.bound]
             missing == [sess[s] EXCEPT !.pc = "create"]
  <2>1. sess[s].pc = "load" /\ sess[s].req.kind # "checkout"
    BY <1>2 DEF LoadCart, At
  <2>2. CASE Step(s, found)
    <3>1. /\ found \in Session /\ found.pc = "items" /\ found.req = sess[s].req
          /\ found.target = sess[s].target /\ found.cartLocks = sess[s].cartLocks
      BY <1>1 DEF Session, PCs
    <3>. HIDE DEF found
    <3>2. Fit(found)
      BY <1>1, <2>1, <3>1 DEF Fit
    <3>. QED  BY <2>2, <3>1, <3>2, SameLocks, LocalStep
  <2>3. CASE Step(s, missing)
    <3>1. /\ missing \in Session /\ missing.pc = "create" /\ missing.req = sess[s].req
          /\ missing.target = sess[s].target /\ missing.cartLocks = sess[s].cartLocks
      BY <1>1 DEF Session, PCs
    <3>. HIDE DEF missing
    <3>2. Fit(missing)
      BY <1>1, <2>1, <3>1 DEF Fit
    <3>. QED  BY <2>3, <3>1, <3>2, SameLocks, LocalStep
  <2>. QED  BY <1>2, <2>2, <2>3 DEF LoadCart
<1>3. CASE LoadCartForUpdate(s)
  <2> DEFINE local == [sess[s] EXCEPT !.pc = "items", !.loaded = cart.bound,
                                      !.bound = cart.bound, !.cartLocks = {"update"}]
  <2>1. /\ sess[s].pc = "load" /\ sess[s].req.kind = "checkout"
        /\ CartHolders(s, "update") = {} /\ Step(s, local)
    BY <1>3, NobodyAwaited DEF LoadCartForUpdate, SelectsForUpdate, At
  <2>2. /\ local \in Session /\ local.pc = "items" /\ local.req = sess[s].req
        /\ local.target = sess[s].target /\ local.cartLocks = {"update"}
        /\ local.bound = local.loaded
    BY <1>1 DEF Session, PCs, LockMode
  <2>. HIDE DEF local
  <2>3. Fit(local)
    BY <1>1, <2>1, <2>2 DEF Fit
  <2>. QED  BY <2>1, <2>2, <2>3, NewLock, LocalStep
<1>4. CASE LoadItems(s)
  <2> DEFINE local == [sess[s] EXCEPT !.pc = "loaded",
                                      !.rows = InCart \ {sess[s].target}]
  <2>1. /\ local \in Session /\ local.pc = "loaded" /\ local.req = sess[s].req
        /\ local.target = sess[s].target /\ local.cartLocks = sess[s].cartLocks
        /\ local.rows = InCart \ {sess[s].target}
        /\ local.bound = sess[s].bound /\ local.loaded = sess[s].loaded
    BY <1>1 DEF Session, PCs, InCart
  <2>2. sess[s].pc = "items" /\ Step(s, local)
    BY <1>4 DEF LoadItems
  <2>. HIDE DEF local
  <2>3. \A r \in InCart : r \in Rows /\ lines[r].at # "unused" /\ OrdersWith(r) = {}
    BY DEF InCart, CartInv, OrderedAtMostOnce
  <2>4. sess[s].req.kind = "checkout" => local.rows = InCart
    BY <1>1, <2>1, NoRowNotInCart DEF Fit
  <2>5. Fit(local)
    BY <1>1, <2>1, <2>2, <2>3, <2>4 DEF Fit
  <2>. QED  BY <2>1, <2>2, <2>5, SameLocks, LocalStep
<1>5. CASE CreateCart(s)
  <2> DEFINE local == [sess[s] EXCEPT !.pc = "loaded", !.created = TRUE]
  <2>1. sess[s].pc = "create" /\ (Fail(s) \/ Step(s, local))
    BY <1>5 DEF CreateCart
  <2>2. /\ local \in Session /\ local.pc = "loaded" /\ local.req = sess[s].req
        /\ local.target = sess[s].target /\ local.cartLocks = sess[s].cartLocks
    BY <1>1 DEF Session, PCs
  <2>. HIDE DEF local
  <2>3. Fit(local)
    BY <1>1, <2>1, <2>2 DEF Fit
  <2>. QED  BY <2>1, <2>2, <2>3, FailStep, SameLocks, LocalStep
<1>. QED
  BY <1>2, <1>3, <1>4, <1>5 DEF Load

LEMMA RefuseInv ==
  ASSUME CartInv, NEW s \in Sessions, Refuse(s)
  PROVE  CartInv'
BY FailStep DEF Refuse

LEMMA ChangeInv ==
  ASSUME CartInv, NEW s \in Sessions, Change(s)
  PROVE  CartInv'
<1>1. /\ sess[s] \in Session /\ sess[s].rows \in SUBSET Rows /\ Fit(sess[s])
      /\ sess[s].req \in Requests /\ sess[s].todo \in SUBSET Rows
      /\ sess[s].cartLocks \in SUBSET LockMode /\ sess[s].rowLocks \in SUBSET Rows
      /\ InCart \in SUBSET Rows
  BY Loaded DEF CartInv, SessionsFit, InCart
<1>2. CASE BindRestaurant(s)
  <2> DEFINE local == [sess[s] EXCEPT !.bound = ForRestaurant(s),
                                      !.cartLocks = {"noKeyUpdate"}]
  <2>1. /\ sess[s].pc = "loaded" /\ sess[s].req.kind = "add"
        /\ CartHolders(s, "noKeyUpdate") = {} /\ Step(s, local)
    BY <1>2, NobodyAwaited DEF BindRestaurant, Binds, At
  <2>2. sess[s].req.item \in Items
    BY <1>1, <2>1 DEF Requests, ItemKinds
  <2>3. ForRestaurant(s) \in OptRestaurant
    BY <2>2 DEF ForRestaurant, OptRestaurant, Restaurants
  <2>4. /\ local \in Session /\ local.pc = "loaded" /\ local.req = sess[s].req
        /\ local.target = sess[s].target /\ local.cartLocks = {"noKeyUpdate"}
    BY <1>1, <2>1, <2>3 DEF Session, LockMode
  <2>. HIDE DEF local
  <2>5. Fit(local)
    BY <1>1, <2>1, <2>4 DEF Fit
  <2>. QED  BY <2>1, <2>4, <2>5, NewLock, LocalStep
<1>3. CASE InsertItem(s)
  <2>1. PICK r \in Unused :
          Step(s, [sess[s] EXCEPT !.pc = "commit", !.target = r, !.rows = {},
                                  !.cartLocks = @ \cup {"keyShare"}])
    BY <1>3 DEF InsertItem
  <2> DEFINE local == [sess[s] EXCEPT !.pc = "commit", !.target = r, !.rows = {},
                         !.cartLocks = sess[s].cartLocks \cup {"keyShare"}]
  <2>2. Step(s, local)
    BY <2>1
  <2>3. /\ sess[s].req.kind = "add" /\ r \in Rows
        /\ CartHolders(s, "keyShare") = {}
    BY <1>3, NobodyAwaited DEF InsertItem, Inserts, At, Unused
  <2>4. /\ local \in Session /\ local.pc = "commit" /\ local.req = sess[s].req
        /\ local.cartLocks = sess[s].cartLocks \cup {"keyShare"}
    BY <1>1, <2>3 DEF Session, PCs, LockMode
  <2>. HIDE DEF local
  <2>5. Fit(local)
    BY <2>3, <2>4 DEF Fit
  <2>. QED  BY <2>2, <2>3, <2>4, <2>5, NewLock, LocalStep
<1>4. CASE FindItem(s)
  <2> DEFINE done     == [sess[s] EXCEPT !.pc = "commit", !.rows = {}]
             found(r) == [sess[s] EXCEPT !.pc = "write", !.target = r, !.rows = {}]
  <2>1. /\ sess[s].pc = "loaded" /\ sess[s].req.kind \in ItemKinds
        /\ \/ Fail(s) \/ Step(s, done)
           \/ \E r \in InCart : Step(s, found(r))
    BY <1>4 DEF FindItem, At, ItemKinds
  <2>2. CASE Step(s, done)
    <3>1. /\ done \in Session /\ done.pc = "commit" /\ done.req = sess[s].req
          /\ done.target = sess[s].target /\ done.cartLocks = sess[s].cartLocks
      BY <1>1 DEF Session, PCs
    <3>. HIDE DEF done
    <3>2. Fit(done)
      BY <1>1, <2>1, <3>1 DEF Fit, ItemKinds
    <3>. QED  BY <2>2, <3>1, <3>2, SameLocks, LocalStep
  <2>3. ASSUME NEW r \in InCart, Step(s, found(r))
        PROVE  CartInv'
    <3>1. /\ found(r) \in Session /\ found(r).pc = "write"
          /\ found(r).req = sess[s].req /\ found(r).cartLocks = sess[s].cartLocks
      BY <1>1 DEF Session, PCs
    <3>. HIDE DEF found
    <3>2. Fit(found(r))
      BY <2>1, <3>1 DEF Fit, ItemKinds
    <3>. QED  BY <2>3, <3>1, <3>2, SameLocks, LocalStep
  <2>. HIDE DEF done, found
  <2>. QED  BY <2>1, <2>2, <2>3, FailStep
<1>5. CASE WriteItem(s)
  <2> DEFINE local == [sess[s] EXCEPT
               !.pc = IF sess[s].req.kind = "remove" THEN "load" ELSE "commit",
               !.rowLocks = InCart \cap {sess[s].target}]
  <2>1. /\ sess[s].pc = "write"
        /\ \/ Fail(s)
           \/ /\ sess[s].target \in InCart \/ sess[s].req.kind = "remove"
              /\ Step(s, local)
    BY <1>5 DEF WriteItem
  <2>2. /\ local \in Session /\ local.req = sess[s].req
        /\ local.pc = IF sess[s].req.kind = "remove" THEN "load" ELSE "commit"
        /\ local.target = sess[s].target /\ local.cartLocks = sess[s].cartLocks
    BY <1>1 DEF Session, PCs
  <2>. HIDE DEF local
  <2>3. sess[s].target \in InCart => lines[sess[s].target].at # "unused"
    BY DEF InCart
  <2>4. sess[s].target \in InCart \/ sess[s].req.kind = "remove" => Fit(local)
    BY <1>1, <2>1, <2>2, <2>3 DEF Fit
  <2>. QED  BY <2>1, <2>2, <2>4, FailStep, SameLocks, LocalStep
<1>6. CASE UnbindRestaurant(s)
  <2> DEFINE local == [sess[s] EXCEPT
               !.pc = IF sess[s].req.kind = "clear" THEN "delete" ELSE "commit",
               !.todo = sess[s].rows, !.bound = NoRestaurant,
               !.cartLocks = {"noKeyUpdate"}]
  <2>1. /\ sess[s].req.kind \in {"clear", "remove"}
        /\ CartHolders(s, "noKeyUpdate") = {} /\ Step(s, local)
    BY <1>6, NobodyAwaited DEF UnbindRestaurant, Unbinds
  <2>2. /\ local \in Session /\ local.req = sess[s].req
        /\ local.cartLocks = {"noKeyUpdate"}
    BY <1>1 DEF Session, PCs, LockMode, OptRestaurant
  <2>. HIDE DEF local
  <2>3. Fit(local)
    BY <2>1, <2>2 DEF Fit
  <2>. QED  BY <2>1, <2>2, <2>3, NewLock, LocalStep
<1>7. CASE KeepRestaurant(s)
  <2> DEFINE done == [sess[s] EXCEPT !.pc = "commit", !.rows = {}]
             next == [sess[s] EXCEPT !.pc = "delete", !.todo = sess[s].rows]
  <2>1. /\ sess[s].req.kind \in {"get", "remove", "clear"}
        /\ Step(s, done) \/ Step(s, next)
    BY <1>7 DEF KeepRestaurant
  <2>2. /\ done \in Session /\ done.req = sess[s].req
        /\ done.cartLocks = sess[s].cartLocks
        /\ next \in Session /\ next.req = sess[s].req
        /\ next.cartLocks = sess[s].cartLocks
    BY <1>1 DEF Session, PCs
  <2>. HIDE DEF done, next
  <2>3. Fit(done) /\ Fit(next)
    BY <2>1, <2>2 DEF Fit
  <2>. QED  BY <2>1, <2>2, <2>3, SameLocks, LocalStep
<1>8. CASE BeginOrder(s)
  <2> DEFINE local == [sess[s] EXCEPT !.pc = "delete", !.todo = sess[s].rows,
                                      !.bound = NoRestaurant]
  <2>1. /\ sess[s].pc = "loaded" /\ sess[s].req.kind = "checkout"
        /\ sess[s].bound # NoRestaurant /\ Step(s, local)
    BY <1>8 DEF BeginOrder, At
  <2>2. /\ local \in Session /\ local.pc = "delete" /\ local.req = sess[s].req
        /\ local.target = sess[s].target /\ local.rows = sess[s].rows
        /\ local.cartLocks = sess[s].cartLocks
        /\ local.bound = NoRestaurant /\ local.loaded = sess[s].loaded
    BY <1>1 DEF Session, PCs, OptRestaurant
  <2>. HIDE DEF local
  <2>3. Fit(local)
    BY <1>1, <2>1, <2>2 DEF Fit
  <2>. QED  BY <2>1, <2>2, <2>3, SameLocks, LocalStep
<1>9. CASE DeleteItem(s)
  <2> DEFINE local == [sess[s] EXCEPT !.todo = sess[s].todo \ {NextRow(s)},
               !.rowLocks = sess[s].rowLocks \cup (InCart \cap {NextRow(s)})]
  <2>1. sess[s].pc = "delete" /\ Step(s, local)
    BY <1>9 DEF DeleteItem, Deletes
  <2>2. /\ local \in Session /\ local.pc = sess[s].pc /\ local.req = sess[s].req
        /\ local.target = sess[s].target /\ local.rows = sess[s].rows
        /\ local.cartLocks = sess[s].cartLocks
        /\ local.bound = sess[s].bound /\ local.loaded = sess[s].loaded
    BY <1>1 DEF Session
  <2>. HIDE DEF local
  <2>3. Fit(local)
    BY <1>1, <2>2 DEF Fit
  <2>. QED  BY <2>1, <2>2, <2>3, SameLocks, LocalStep
<1>. QED
  BY <1>2, <1>3, <1>4, <1>5, <1>6, <1>7, <1>8, <1>9 DEF Change

-----------------------------------------------------------------------------
(* Commits                                                                  *)

\* A commit that reuses no row, and inserts a row or places an order only under
\* a lock that excludes a checkout's, keeps the invariant.
LEMMA CommitInv ==
  ASSUME CartInv, NEW s \in Sessions, CommitCart(s),
         lines' \in [Rows -> LineRow], orders' \in Seq(OrderRow),
         \A r \in Rows : /\ lines[r].at # "unused" => lines'[r].at # "unused"
                         /\ lines'[r].at = "unused" => lines[r].at = "unused",
         InCart' \subseteq InCart \/ "keyShare" \in sess[s].cartLocks,
         orders' = orders \/ "update" \in sess[s].cartLocks,
         OrderedAtMostOnce'
  PROVE  CartInv'
<1>1. TypeOK /\ sess \in [Sessions -> Session]
  BY DEF CartInv, TypeOK
<1>2. /\ cart' = [exists |-> TRUE,
                  bound |-> IF sess[s].bound = sess[s].loaded THEN cart.bound
                                                              ELSE sess[s].bound]
      /\ sess' = [sess EXCEPT ![s] = Idle]
  BY DEF CommitCart
<1>3. sess'[s] = Idle /\ \A t \in Sessions \ {s} : sess'[t] = sess[t]
  BY <1>1, <1>2
<1>4. TypeOK'
  <2>1. cart' \in CartRow
    BY <1>1, <1>2, Loaded DEF TypeOK, CartRow
  <2>2. sess' \in [Sessions -> Session]
    BY <1>1, <1>2, IdleFits
  <2>. QED  BY <2>1, <2>2 DEF TypeOK
<1>5. LocksExclude'
  BY <1>3, IdleFits DEF CartInv, LocksExclude
<1>6. SessionsFit'
  <2>1. SUFFICES ASSUME NEW t \in Sessions
                 PROVE  Fit(sess[t])'
    BY DEF SessionsFit
  <2>2. CASE t = s
    BY <1>3, <2>2 DEF Fit, Idle
  <2>3. CASE t # s
    <3>1. Fit(sess[t]) /\ sess'[t] = sess[t]
          /\ sess[t].rows \in SUBSET Rows /\ sess[t].target \in Rows \cup {NoRow}
      BY <1>1, <1>3, <2>3, Loaded DEF CartInv, SessionsFit
    <3>2. "update" \in sess[t].cartLocks => InCart' \subseteq InCart /\ orders' = orders
      BY <2>3 DEF CartInv, LocksExclude, Conflict
    <3>3. orders' = orders => \A r : OrdersWith(r)' = OrdersWith(r)
      BY DEF OrdersWith
    <3>. QED  BY <3>1, <3>2, <3>3 DEF Fit
  <2>. QED  BY <2>2, <2>3
<1>. QED
  BY <1>4, <1>5, <1>6 DEF CartInv

\* What Without does to the rows of the cart.
LEMMA WithoutRows ==
  ASSUME TypeOK, NEW removed, lines' = Without(removed)
  PROVE  /\ lines' \in [Rows -> LineRow]
         /\ \A r \in Rows : lines'[r].at = IF r \in removed THEN "gone" ELSE lines[r].at
         /\ InCart' = InCart \ removed
<1>1. lines \in [Rows -> LineRow]
  BY DEF TypeOK
<1>2. \A r \in Rows :
        /\ [lines[r] EXCEPT !.at = "gone"] \in LineRow
        /\ [lines[r] EXCEPT !.at = "gone"].at = "gone"
  BY <1>1 DEF LineRow
<1>3. \A r \in Rows : lines'[r] = IF r \in removed THEN [lines[r] EXCEPT !.at = "gone"]
                                                 ELSE lines[r]
  BY DEF Without
<1>4. lines' \in [Rows -> LineRow]
  BY <1>1, <1>2 DEF Without
<1>5. \A r \in Rows : lines'[r].at = IF r \in removed THEN "gone" ELSE lines[r].at
  BY <1>2, <1>3
<1>. QED
  BY <1>4, <1>5 DEF InCart

\* Rows that leave the cart without an order keep OrderedAtMostOnce.
LEMMA SameOrders ==
  ASSUME CartInv, orders' = orders,
         \A r \in Rows : lines[r].at = "gone" => lines'[r].at = "gone"
  PROVE  OrderedAtMostOnce'
<1>1. \A r : OrdersWith(r)' = OrdersWith(r)
  BY DEF OrdersWith
<1>. QED
  BY <1>1 DEF CartInv, OrderedAtMostOnce

LEMMA CartCommits ==
  ASSUME CartInv, NEW s \in Sessions,
         GetCart(s) \/ AddItem(s) \/ UpdateQuantity(s) \/ RemoveItem(s) \/ ClearCart(s)
  PROVE  CartInv'
<1>1. /\ TypeOK /\ lines \in [Rows -> LineRow] /\ orders \in Seq(OrderRow)
      /\ sess[s] \in Session /\ sess[s].req \in Requests /\ Fit(sess[s])
  BY Loaded DEF CartInv, TypeOK, SessionsFit
<1>2. CASE GetCart(s) \/ UpdateQuantity(s)
  <2>1. CommitCart(s) /\ lines' = lines /\ orders' = orders
    BY <1>2 DEF GetCart, UpdateQuantity
  <2>2. InCart' \subseteq InCart
    BY <2>1 DEF InCart
  <2>. QED  BY <1>1, <2>1, <2>2, SameOrders, CommitInv
<1>3. CASE AddItem(s)
  <2>1. /\ sess[s].pc = "commit" /\ sess[s].req.kind = "add"
        /\ CommitCart(s) /\ orders' = orders
        /\ lines' = [r \in Rows |->
             IF r = sess[s].target /\ lines[r].at = "unused"
               THEN [at |-> "cart", item |-> sess[s].req.item] ELSE lines[r]]
    BY <1>3 DEF AddItem, At
  <2>2. sess[s].req.item \in Items
    BY <1>1, <2>1 DEF Requests, ItemKinds
  <2>3. [at |-> "cart", item |-> sess[s].req.item] \in LineRow
    BY <2>2 DEF LineRow
  <2>4. lines' \in [Rows -> LineRow]
    BY <1>1, <2>1, <2>3
  <2>5. \A r \in Rows : lines'[r] = IF r = sess[s].target /\ lines[r].at = "unused"
                                    THEN [at |-> "cart", item |-> sess[s].req.item]
                                    ELSE lines[r]
    BY <2>1
  <2>6. \A r \in Rows : /\ lines[r].at # "unused" => lines'[r].at # "unused"
                        /\ lines'[r].at = "unused" => lines[r].at = "unused"
                        /\ lines[r].at = "gone" => lines'[r].at = "gone"
    BY <2>5
  <2>7. InCart' \subseteq InCart \/ "keyShare" \in sess[s].cartLocks
    <3>1. CASE /\ sess[s].target \in Rows
               /\ lines[sess[s].target].at = "unused"
      <4>1. sess[s].target # NoRow
        BY <3>1, CartAssumption
      <4>. QED  BY <1>1, <2>1, <3>1, <4>1 DEF Fit
    <3>2. CASE ~(/\ sess[s].target \in Rows
                 /\ lines[sess[s].target].at = "unused")
      BY <2>5, <3>2 DEF InCart
    <3>. QED  BY <3>1, <3>2
  <2>. QED  BY <1>1, <2>1, <2>4, <2>6, <2>7, SameOrders, CommitInv
<1>4. CASE RemoveItem(s) \/ ClearCart(s)
  <2>1. PICK removed : lines' = Without(removed) /\ CommitCart(s) /\ orders' = orders
    BY <1>4 DEF RemoveItem, ClearCart
  <2>2. /\ lines' \in [Rows -> LineRow] /\ InCart' \subseteq InCart
        /\ \A r \in Rows : lines'[r].at = IF r \in removed THEN "gone" ELSE lines[r].at
    BY <1>1, <2>1, WithoutRows
  <2>. QED  BY <1>1, <2>1, <2>2, SameOrders, CommitInv
<1>. QED
  BY <1>2, <1>3, <1>4

\* The order of a checkout takes what it loaded, which nobody has ordered yet.
LEMMA CreateOrderInv ==
  ASSUME CartInv, NEW s \in Sessions, CreateOrder(s)
  PROVE  CartInv' /\ InCart' = {} /\ cart'.bound = NoRestaurant
<1> DEFINE order == [restaurant |-> sess[s].loaded, rows |-> sess[s].rows]
<1>1. /\ sess[s].pc = "delete" /\ sess[s].req.kind = "checkout"
      /\ orders' = Append(orders, order)
      /\ lines' = Without(sess[s].rows) /\ CommitCart(s)
  BY DEF CreateOrder, At
<1>2. /\ TypeOK /\ orders \in Seq(OrderRow) /\ sess[s].rows \in SUBSET Rows
      /\ order \in OrderRow /\ order.rows = sess[s].rows /\ Fit(sess[s])
  BY Loaded DEF CartInv, TypeOK, SessionsFit, OrderRow
<1>. HIDE DEF order
<1>3. /\ "update" \in sess[s].cartLocks /\ InCart \subseteq sess[s].rows
      /\ sess[s].bound = NoRestaurant /\ sess[s].loaded # NoRestaurant
      /\ \A r \in sess[s].rows : lines[r].at # "unused" /\ OrdersWith(r) = {}
  BY <1>1, <1>2 DEF Fit
<1>4. /\ lines' \in [Rows -> LineRow] /\ InCart' = InCart \ sess[s].rows
      /\ \A r \in Rows : lines'[r].at = IF r \in sess[s].rows THEN "gone" ELSE lines[r].at
  BY <1>1, <1>2, WithoutRows
<1>5. orders' \in Seq(OrderRow)
  BY <1>1, <1>2
<1>6. \A r \in Rows : OrdersWith(r)' = IF r \in sess[s].rows THEN {Len(orders) + 1}
                                                            ELSE OrdersWith(r)
  <2>1. /\ DOMAIN orders = 1 .. Len(orders) /\ Len(orders) \in Nat
        /\ DOMAIN orders' = 1 .. (Len(orders) + 1)
        /\ \A i \in 1 .. Len(orders) : orders'[i] = orders[i]
        /\ orders'[Len(orders) + 1] = order
    BY <1>1, <1>2
  <2>2. SUFFICES ASSUME NEW r \in Rows
                 PROVE  OrdersWith(r)' = IF r \in sess[s].rows THEN {Len(orders) + 1}
                                                               ELSE OrdersWith(r)
    OBVIOUS
  <2>3. \A i : i \in OrdersWith(r)' <=>
          \/ i \in OrdersWith(r)
          \/ i = Len(orders) + 1 /\ r \in sess[s].rows
    BY <1>2, <2>1 DEF OrdersWith
  <2>. QED  BY <1>3, <2>3
<1>7. OrderedAtMostOnce'
  BY <1>4, <1>6 DEF CartInv, OrderedAtMostOnce
<1>8. CartInv'
  <2>1. InCart' \subseteq InCart
    BY <1>4
  <2>2. \A r \in Rows : /\ lines[r].at # "unused" => lines'[r].at # "unused"
                        /\ lines'[r].at = "unused" => lines[r].at = "unused"
    BY <1>4
  <2>. QED  BY <1>1, <1>3, <1>4, <1>5, <1>7, <2>1, <2>2, CommitInv
<1>9. InCart' = {}
  BY <1>3, <1>4
<1>10. cart'.bound = NoRestaurant
  BY <1>1, <1>3 DEF CommitCart
<1>. QED
  BY <1>8, <1>9, <1>10

-----------------------------------------------------------------------------
(* What a request holds while it waits                                      *)

\* What a request other than remove_item holds on its way: nothing before it has
\* loaded the cart, at most its lock on the cart before it deletes, and then
\* only rows below those it still has to delete.
Holds(me) ==
  me.req.kind # "remove" =>
    /\ me.pc = "load" \/ (me.pc \in {"items", "create"} /\ me.req.kind # "checkout") =>
         me.cartLocks = {} /\ ~me.created
    /\ me.req.kind = "checkout" => ~me.created
    /\ me.pc \in {"load", "items", "create", "loaded", "write"} => me.rowLocks = {}
    /\ me.pc = "loaded" /\ me.req.kind = "clear" => me.cartLocks = {}
    /\ me.pc = "loaded" /\ me.req.kind = "add" =>
         \/ me.cartLocks = {}
         \/ me.cartLocks = {"noKeyUpdate"} /\ me.bound = RestaurantOf[me.req.item]
    /\ me.pc \in {"create", "write"} => me.req.kind # "checkout"
    /\ me.pc = "delete" => \A r \in me.rowLocks, q \in me.todo : r < q

HoldsFit == \A s \in Sessions : Holds(sess[s])

\* Row ids are numbers, so a set of them has a least one.
LEMMA LeastNumber ==
  ASSUME NEW T \in SUBSET Nat, T # {}
  PROVE  \E n \in T : \A m \in T : n <= m
<1>1. \E n \in T : \A m \in T : ~ (<<m, n>> \in OpToRel(<, Nat))
  BY NatLessThanWellFounded, WFMin
<1>2. \A m, n \in Nat : m < n => <<m, n>> \in OpToRel(<, Nat)
  BY DEF OpToRel
<1>3. \A m, n \in T : n <= m \/ m < n
  OBVIOUS
<1>4. \A m, n \in T : <<m, n>> \in OpToRel(<, Nat) \/ n <= m
  <2>1. \A m, n \in T : m \in Nat /\ n \in Nat
    OBVIOUS
  <2>. QED  BY <1>2, <1>3, <2>1, Zenon
<1>. QED
  BY <1>1, <1>4, Zenon

\* The next row to delete is the least of those to delete.
LEMMA NextRowIsLeast ==
  ASSUME TypeOK, NEW s \in Sessions, Deletes(s)
  PROVE  /\ NextRow(s) \in sess[s].todo /\ NextRow(s) \in Nat
         /\ \A q \in sess[s].todo : NextRow(s) <= q
<1>1. sess[s].todo \in SUBSET Nat /\ sess[s].todo # {}
  BY Loaded, CartAssumption DEF Deletes
<1>2. \E n \in sess[s].todo : \A q \in sess[s].todo : n <= q
  BY <1>1, LeastNumber
<1>3. NextRow(s) \in sess[s].todo /\ \A q \in sess[s].todo : NextRow(s) <= q
  BY <1>2 DEF NextRow
<1>. QED
  BY <1>1, <1>3

LEMMA IdleHolds == Holds(Idle)
BY DEF Holds, Idle

\* The record a statement leaves its session with.
LEMMA HoldsStep ==
  ASSUME TypeOK, HoldsFit, NEW s \in Sessions, NEW local, Holds(local),
         sess' = [sess EXCEPT ![s] = local]
  PROVE  HoldsFit'
<1>1. sess'[s] = local /\ \A t \in Sessions \ {s} : sess'[t] = sess[t]
  BY DEF TypeOK
<1>2. SUFFICES ASSUME NEW t \in Sessions
               PROVE  Holds(sess[t])'
  BY DEF HoldsFit
<1>3. CASE t = s
  BY <1>1, <1>3 DEF Holds
<1>4. CASE t # s
  BY <1>1, <1>4 DEF Holds, HoldsFit
<1>. QED
  BY <1>3, <1>4

LEMMA HoldsNext ==
  ASSUME TypeOK, HoldsFit, [Next]_vars
  PROVE  HoldsFit'
<1>1. ASSUME UNCHANGED vars
      PROVE  HoldsFit'
  BY <1>1 DEF vars, HoldsFit, Holds
<1>2. ASSUME NEW s \in Sessions, sess' = [sess EXCEPT ![s] = Idle]
      PROVE  HoldsFit'
  BY <1>2, IdleHolds, HoldsStep
<1>3. ASSUME NEW s \in Sessions, NEW local, Step(s, local), Holds(local)
      PROVE  HoldsFit'
  BY <1>3, HoldsStep DEF Step
<1>4. ASSUME NEW s \in Sessions, Fail(s)
      PROVE  HoldsFit'
  BY <1>2, <1>4 DEF Fail, Step
<1>5. ASSUME NEW s \in Sessions, NEW q \in Requests, Receive(s, q)
      PROVE  HoldsFit'
  <2> DEFINE local == [Idle EXCEPT !.pc = "load", !.req = q]
  <2>1. /\ local.pc = "load" /\ local.req = q /\ local.cartLocks = {}
        /\ local.rowLocks = {} /\ local.created = FALSE
    BY DEF Idle
  <2>2. Step(s, local)
    BY <1>5 DEF Receive
  <2>. HIDE DEF local
  <2>3. Holds(local)
    BY <2>1 DEF Holds
  <2>. QED  BY <1>3, <2>2, <2>3
<1>6. ASSUME NEW s \in Sessions, Load(s)
      PROVE  HoldsFit'
  <2>1. sess[s] \in Session /\ Holds(sess[s])
    BY Loaded DEF HoldsFit
  <2>2. CASE LoadCart(s)
    <3> DEFINE found   == [sess[s] EXCEPT !.pc = "items", !.loaded = cart.bound,
                                          !.bound = cart.bound]
               missing == [sess[s] EXCEPT !.pc = "create"]
    <3>1. /\ sess[s].pc = "load" /\ sess[s].req.kind # "checkout"
          /\ Step(s, found) \/ Step(s, missing)
      BY <2>2 DEF LoadCart, At
    <3>2. /\ found.pc = "items" /\ found.req = sess[s].req
          /\ found.cartLocks = sess[s].cartLocks /\ found.rowLocks = sess[s].rowLocks
          /\ found.created = sess[s].created
      BY <2>1 DEF Session
    <3>3. /\ missing.pc = "create" /\ missing.req = sess[s].req
          /\ missing.cartLocks = sess[s].cartLocks
          /\ missing.rowLocks = sess[s].rowLocks /\ missing.created = sess[s].created
      BY <2>1 DEF Session
    <3>. HIDE DEF found, missing
    <3>4. Holds(found) /\ Holds(missing)
      BY <2>1, <3>1, <3>2, <3>3 DEF Holds
    <3>. QED  BY <1>3, <3>1, <3>4
  <2>3. CASE LoadCartForUpdate(s)
    <3> DEFINE local == [sess[s] EXCEPT !.pc = "items", !.loaded = cart.bound,
                                        !.bound = cart.bound, !.cartLocks = {"update"}]
    <3>1. /\ sess[s].pc = "load" /\ sess[s].req.kind = "checkout" /\ Step(s, local)
      BY <2>3 DEF LoadCartForUpdate, SelectsForUpdate, At
    <3>2. /\ local.pc = "items" /\ local.req = sess[s].req
          /\ local.rowLocks = sess[s].rowLocks /\ local.created = sess[s].created
      BY <2>1 DEF Session
    <3>. HIDE DEF local
    <3>3. Holds(local)
      BY <2>1, <3>1, <3>2 DEF Holds
    <3>. QED  BY <1>3, <3>1, <3>3
  <2>4. CASE LoadItems(s)
    <3> DEFINE local == [sess[s] EXCEPT !.pc = "loaded",
                                        !.rows = InCart \ {sess[s].target}]
    <3>1. sess[s].pc = "items" /\ Step(s, local)
      BY <2>4 DEF LoadItems
    <3>2. /\ local.pc = "loaded" /\ local.req = sess[s].req
          /\ local.cartLocks = sess[s].cartLocks /\ local.rowLocks = sess[s].rowLocks
          /\ local.created = sess[s].created
      BY <2>1 DEF Session
    <3>. HIDE DEF local
    <3>3. Holds(local)
      BY <2>1, <3>1, <3>2 DEF Holds
    <3>. QED  BY <1>3, <3>1, <3>3
  <2>5. CASE CreateCart(s)
    <3> DEFINE local == [sess[s] EXCEPT !.pc = "loaded", !.created = TRUE]
    <3>1. sess[s].pc = "create" /\ (Fail(s) \/ Step(s, local))
      BY <2>5 DEF CreateCart
    <3>2. /\ local.pc = "loaded" /\ local.req = sess[s].req
          /\ local.cartLocks = sess[s].cartLocks /\ local.rowLocks = sess[s].rowLocks
      BY <2>1 DEF Session
    <3>. HIDE DEF local
    <3>3. Holds(local)
      BY <2>1, <3>1, <3>2 DEF Holds
    <3>. QED  BY <1>3, <1>4, <3>1, <3>3
  <2>. QED  BY <1>6, <2>2, <2>3, <2>4, <2>5 DEF Load
<1>7. ASSUME NEW s \in Sessions, Change(s)
      PROVE  HoldsFit'
  <2>1. sess[s] \in Session /\ Holds(sess[s]) /\ sess[s].rows \in SUBSET Rows
    BY Loaded DEF HoldsFit
  <2>2. CASE BindRestaurant(s)
    <3> DEFINE local == [sess[s] EXCEPT !.bound = ForRestaurant(s),
                                        !.cartLocks = {"noKeyUpdate"}]
    <3>1. sess[s].pc = "loaded" /\ sess[s].req.kind = "add" /\ Step(s, local)
      BY <2>2 DEF BindRestaurant, Binds, At
    <3>2. /\ local.pc = "loaded" /\ local.req = sess[s].req
          /\ local.cartLocks = {"noKeyUpdate"} /\ local.rowLocks = sess[s].rowLocks
          /\ local.bound = RestaurantOf[sess[s].req.item]
      BY <2>1, <3>1 DEF Session, ForRestaurant
    <3>. HIDE DEF local
    <3>3. Holds(local)
      BY <2>1, <3>1, <3>2 DEF Holds
    <3>. QED  BY <1>3, <3>1, <3>3
  <2>3. CASE InsertItem(s)
    <3>1. PICK r \in Unused :
            Step(s, [sess[s] EXCEPT !.pc = "commit", !.target = r, !.rows = {},
                                    !.cartLocks = @ \cup {"keyShare"}])
      BY <2>3 DEF InsertItem
    <3> DEFINE local == [sess[s] EXCEPT !.pc = "commit", !.target = r, !.rows = {},
                           !.cartLocks = sess[s].cartLocks \cup {"keyShare"}]
    <3>2. /\ Step(s, local) /\ sess[s].req.kind = "add"
          /\ local.pc = "commit" /\ local.req = sess[s].req
      BY <2>1, <2>3, <3>1 DEF Session, InsertItem, Inserts, At
    <3>. HIDE DEF local
    <3>3. Holds(local)
      BY <3>2 DEF Holds
    <3>. QED  BY <1>3, <3>2, <3>3
  <2>4. CASE FindItem(s)
    <3> DEFINE done     == [sess[s] EXCEPT !.pc = "commit", !.rows = {}]
               found(r) == [sess[s] EXCEPT !.pc = "write", !.target = r, !.rows = {}]
    <3>1. /\ sess[s].pc = "loaded" /\ sess[s].req.kind \in ItemKinds
          /\ \/ Fail(s) \/ Step(s, done)
             \/ \E r \in InCart : Step(s, found(r))
      BY <2>4 DEF FindItem, At, ItemKinds
    <3>2. done.pc = "commit" /\ done.req = sess[s].req
      BY <2>1 DEF Session
    <3>3. \A r : /\ found(r).pc = "write" /\ found(r).req = sess[s].req
                 /\ found(r).rowLocks = sess[s].rowLocks
      BY <2>1 DEF Session
    <3>. HIDE DEF done, found
    <3>4. Holds(done) /\ \A r : Holds(found(r))
      BY <2>1, <3>1, <3>2, <3>3 DEF Holds, ItemKinds
    <3>. QED  BY <1>3, <1>4, <3>1, <3>4
  <2>5. CASE WriteItem(s)
    <3> DEFINE local == [sess[s] EXCEPT
                 !.pc = IF sess[s].req.kind = "remove" THEN "load" ELSE "commit",
                 !.rowLocks = InCart \cap {sess[s].target}]
    <3>1. sess[s].pc = "write" /\ (Fail(s) \/ Step(s, local))
      BY <2>5 DEF WriteItem
    <3>2. /\ local.req = sess[s].req
          /\ sess[s].req.kind # "remove" => local.pc = "commit"
      BY <2>1 DEF Session
    <3>. HIDE DEF local
    <3>3. Holds(local)
      BY <2>1, <3>1, <3>2 DEF Holds
    <3>. QED  BY <1>3, <1>4, <3>1, <3>3
  <2>6. CASE UnbindRestaurant(s)
    <3> DEFINE local == [sess[s] EXCEPT
                 !.pc = IF sess[s].req.kind = "clear" THEN "delete" ELSE "commit",
                 !.todo = sess[s].rows, !.bound = NoRestaurant,
                 !.cartLocks = {"noKeyUpdate"}]
    <3>1. /\ sess[s].pc = "loaded" /\ sess[s].req.kind \in {"clear", "remove"}
          /\ Step(s, local)
      BY <2>6 DEF UnbindRestaurant, Unbinds
    <3>2. /\ local.req = sess[s].req /\ local.rowLocks = sess[s].rowLocks
          /\ local.pc \in {"delete", "commit"}
      BY <2>1 DEF Session
    <3>. HIDE DEF local
    <3>3. Holds(local)
      BY <2>1, <3>1, <3>2 DEF Holds
    <3>. QED  BY <1>3, <3>1, <3>3
  <2>7. CASE KeepRestaurant(s)
    <3> DEFINE done == [sess[s] EXCEPT !.pc = "commit", !.rows = {}]
               next == [sess[s] EXCEPT !.pc = "delete", !.todo = sess[s].rows]
    <3>1. /\ sess[s].pc = "loaded" /\ sess[s].req.kind \in {"get", "remove", "clear"}
          /\ Step(s, done) \/ Step(s, next)
      BY <2>7 DEF KeepRestaurant
    <3>2. /\ done.pc = "commit" /\ done.req = sess[s].req
          /\ next.pc = "delete" /\ next.req = sess[s].req
          /\ next.rowLocks = sess[s].rowLocks
      BY <2>1 DEF Session
    <3>. HIDE DEF done, next
    <3>3. Holds(done) /\ Holds(next)
      BY <2>1, <3>1, <3>2 DEF Holds
    <3>. QED  BY <1>3, <3>1, <3>3
  <2>8. CASE BeginOrder(s)
    <3> DEFINE local == [sess[s] EXCEPT !.pc = "delete", !.todo = sess[s].rows,
                                        !.bound = NoRestaurant]
    <3>1. /\ sess[s].pc = "loaded" /\ sess[s].req.kind = "checkout" /\ Step(s, local)
      BY <2>8 DEF BeginOrder, At
    <3>2. /\ local.pc = "delete" /\ local.req = sess[s].req
          /\ local.rowLocks = sess[s].rowLocks /\ local.created = sess[s].created
      BY <2>1 DEF Session
    <3>. HIDE DEF local
    <3>3. Holds(local)
      BY <2>1, <3>1, <3>2 DEF Holds
    <3>. QED  BY <1>3, <3>1, <3>3
  <2>9. CASE DeleteItem(s)
    <3> DEFINE local == [sess[s] EXCEPT !.todo = sess[s].todo \ {NextRow(s)},
                 !.rowLocks = sess[s].rowLocks \cup (InCart \cap {NextRow(s)})]
    <3>1. sess[s].pc = "delete" /\ Deletes(s) /\ Step(s, local)
      BY <2>9 DEF DeleteItem, Deletes
    <3>2. /\ local.pc = "delete" /\ local.req = sess[s].req
          /\ local.todo = sess[s].todo \ {NextRow(s)}
          /\ local.rowLocks \subseteq sess[s].rowLocks \cup {NextRow(s)}
          /\ local.created = sess[s].created
      BY <2>1, <3>1 DEF Session
    <3>3. NextRow(s) \in Nat /\ \A q \in sess[s].todo : q \in Nat /\ NextRow(s) <= q
      BY <3>1, NextRowIsLeast, Loaded, CartAssumption
    <3>. HIDE DEF local
    <3>4. \A q \in local.todo : NextRow(s) < q
      BY <3>2, <3>3
    <3>5. sess[s].req.kind # "remove" =>
            \A r \in sess[s].rowLocks, q \in sess[s].todo : r < q
      BY <2>1, <3>1 DEF Holds
    <3>6. sess[s].req.kind # "remove" =>
            \A r \in local.rowLocks, q \in local.todo : r < q
      BY <3>2, <3>4, <3>5
    <3>7. Holds(local)
      BY <2>1, <3>1, <3>2, <3>6 DEF Holds
    <3>. QED  BY <1>3, <3>1, <3>7
  <2>. QED  BY <1>7, <2>2, <2>3, <2>4, <2>5, <2>6, <2>7, <2>8, <2>9 DEF Change
<1>8. ASSUME NEW s \in Sessions, Commit(s)
      PROVE  HoldsFit'
  BY <1>2, <1>8 DEF Commit, CommitCart, GetCart, AddItem, UpdateQuantity, RemoveItem,
                    ClearCart, CreateOrder
<1>. QED
  BY <1>1, <1>4, <1>5, <1>6, <1>7, <1>8
     DEF Next, Work, Refuse, AbortDeadlocked, Crash

\* A session that holds nothing is awaited by nobody, and who waits for a lock on
\* the cart or for the cart to be created is about to take it.
LEMMA AwaitedHolds ==
  ASSUME NEW s, NEW t, s \in Awaited(t)
  PROVE  \/ /\ sess[s].cartLocks # {}
            /\ SelectsForUpdate(t) \/ Binds(t) \/ Unbinds(t) \/ Inserts(t)
         \/ sess[s].created /\ sess[t].pc = "create"
         \/ sess[t].pc = "write" /\ sess[s].rowLocks # {}
         \/ Deletes(t) /\ NextRow(t) \in sess[s].rowLocks
BY DEF Awaited, CartHolders, RowHolders, Creators

\* Without remove_item, every session of a deadlock is deleting rows: who waits
\* for anything else holds nothing that another one of them waits for.
LEMMA DeadlockDeletes ==
  ASSUME TypeOK, HoldsFit, NEW S \in SUBSET Sessions, Deadlocked(S),
         \A s \in S : sess[s].req.kind # "remove"
  PROVE  \A s \in S : Deletes(s)
<1>1. \A s \in S : /\ Holds(sess[s]) /\ Awaited(s) # {}
                   /\ \E t \in S : s \in Awaited(t)
  BY DEF HoldsFit, Deadlocked
<1>2. \A s \in S : /\ sess[s].pc # "create"
                   /\ ~SelectsForUpdate(s)
  <2>1. SUFFICES ASSUME NEW s \in S, sess[s].pc = "create" \/ SelectsForUpdate(s)
                 PROVE  FALSE
    OBVIOUS
  <2>2. sess[s].cartLocks = {} /\ sess[s].rowLocks = {} /\ ~sess[s].created
    BY <1>1, <2>1 DEF Holds, SelectsForUpdate, At
  <2>3. PICK t \in S : s \in Awaited(t)
    BY <1>1
  <2>. QED  BY <2>2, <2>3, AwaitedHolds
<1>3. \A s \in S : ~Binds(s) /\ ~Unbinds(s)
  <2>1. SUFFICES ASSUME NEW s \in S, Binds(s) \/ Unbinds(s)
                 PROVE  FALSE
    OBVIOUS
  <2>2. sess[s].cartLocks = {} /\ sess[s].rowLocks = {}
    BY <1>1, <2>1 DEF Holds, Binds, Unbinds, At, ForRestaurant
  <2>3. PICK t \in S : s \in Awaited(t)
    BY <1>1
  <2>. QED  BY <1>2, <2>2, <2>3, AwaitedHolds
<1>4. \A s \in S : ~Inserts(s)
  <2>1. SUFFICES ASSUME NEW s \in S, Inserts(s)
                 PROVE  FALSE
    OBVIOUS
  <2>2. sess[s].cartLocks \subseteq {"noKeyUpdate"} /\ sess[s].rowLocks = {}
    BY <1>1, <2>1 DEF Holds, Inserts, At
  <2>3. PICK t \in S : s \in Awaited(t)
    BY <1>1
  <2>4. Inserts(t) /\ s \in CartHolders(t, "keyShare")
    BY <1>2, <1>3, <2>2, <2>3 DEF Awaited, RowHolders, Creators
  <2>. QED  BY <2>2, <2>4 DEF CartHolders, Conflict
<1>5. \A s \in S : sess[s].pc # "write"
  <2>1. SUFFICES ASSUME NEW s \in S, sess[s].pc = "write"
                 PROVE  FALSE
    OBVIOUS
  <2>2. sess[s].rowLocks = {}
    BY <1>1, <2>1 DEF Holds
  <2>3. PICK t \in S : s \in Awaited(t)
    BY <1>1
  <2>. QED  BY <1>2, <1>3, <1>4, <2>2, <2>3, AwaitedHolds
<1>. QED
  BY <1>1, <1>2, <1>3, <1>4, <1>5 DEF Awaited

\* Rows are deleted in the order of their ids, so the waits of clear_cart and of
\* checkouts point to ever lower rows and close no cycle.
LEMMA RemovalNeeded ==
  ASSUME TypeOK, HoldsFit
  PROVE  OnlyRemovalDeadlocks
<1>1. SUFFICES ASSUME NEW S \in SUBSET Sessions, S # {}, Deadlocked(S),
                      \A s \in S : sess[s].req.kind # "remove"
               PROVE  FALSE
  BY DEF OnlyRemovalDeadlocks
<1>2. \A s \in S : Deletes(s)
  BY <1>1, DeadlockDeletes
<1>3. \A s \in S : /\ NextRow(s) \in sess[s].todo /\ NextRow(s) \in Nat
                   /\ \A r \in sess[s].rowLocks : r < NextRow(s)
  BY <1>1, <1>2, NextRowIsLeast DEF HoldsFit, Holds, Deletes
<1> DEFINE T == {NextRow(s) : s \in S}
<1>4. T \in SUBSET Nat /\ T # {}
  BY <1>1, <1>3
<1>5. PICK n \in T : \A m \in T : n <= m
  <2>. HIDE DEF T
  <2>. QED  BY <1>4, LeastNumber
<1>6. PICK s \in S : n = NextRow(s)
  BY <1>5
<1>7. PICK t \in S : s \in Awaited(t)
  BY <1>1 DEF Deadlocked
<1>8. NextRow(t) \in sess[s].rowLocks
  <2>1. Deletes(t)
    BY <1>2
  <2>2. /\ ~SelectsForUpdate(t) /\ ~Binds(t) /\ ~Unbinds(t) /\ ~Inserts(t)
        /\ sess[t].pc \notin {"create", "write"}
    BY <2>1 DEF Deletes, SelectsForUpdate, Binds, Unbinds, Inserts, At
  <2>. QED  BY <1>7, <2>2, AwaitedHolds
<1>9. NextRow(t) < n /\ n <= NextRow(t) /\ n \in Nat /\ NextRow(t) \in Nat
  BY <1>3, <1>5, <1>6, <1>8
<1>. QED
  BY <1>9

-----------------------------------------------------------------------------
(* The theorems                                                             *)

LEMMA CartInit == Init => CartInv
<1>. SUFFICES ASSUME Init
              PROVE  CartInv
  OBVIOUS
<1>1. /\ cart = [exists |-> FALSE, bound |-> NoRestaurant] /\ orders = <<>>
      /\ lines = [r \in Rows |-> [at |-> "unused", item |-> NoItem]]
      /\ sess = [s \in Sessions |-> Idle]
  BY DEF Init
<1>2. TypeOK
  BY <1>1, IdleFits DEF TypeOK, CartRow, LineRow, OptRestaurant
<1>3. LocksExclude
  BY <1>1, IdleFits DEF LocksExclude
<1>4. SessionsFit
  BY <1>1, IdleFits DEF SessionsFit
<1>5. OrderedAtMostOnce
  BY <1>1 DEF OrderedAtMostOnce, OrdersWith
<1>. QED
  BY <1>2, <1>3, <1>4, <1>5 DEF CartInv

LEMMA CartNext == CartInv /\ [Next]_vars => CartInv'
<1>. SUFFICES ASSUME CartInv, [Next]_vars
              PROVE  CartInv'
  OBVIOUS
<1>1. CASE UNCHANGED vars
  BY <1>1 DEF vars, CartInv, TypeOK, LocksExclude, SessionsFit, Fit, InCart,
              OrderedAtMostOnce, OrdersWith
<1>2. ASSUME NEW s \in Sessions, NEW q \in Requests, Receive(s, q)
      PROVE  CartInv'
  BY <1>2, ReceiveInv
<1>3. ASSUME NEW s \in Sessions, Work(s)
      PROVE  CartInv'
  BY <1>3, LoadInv, RefuseInv, ChangeInv, CartCommits, CreateOrderInv, FailStep
     DEF Work, Commit, AbortDeadlocked
<1>4. ASSUME NEW s \in Sessions, Crash(s)
      PROVE  CartInv'
  BY <1>4, FailStep DEF Crash
<1>. QED
  BY <1>1, <1>2, <1>3, <1>4 DEF Next

LEMMA CartInvariant == Spec => []CartInv
<1>. QED
  BY CartInit, CartNext, PTL DEF Spec

\* Whatever happens, the cart, its items, the orders and the sessions have their
\* types.
THEOREM CartTypeCorrect == Spec => []TypeOK
<1>1. CartInv => TypeOK
  BY DEF CartInv
<1>. QED
  BY <1>1, CartInvariant, PTL

\* What was ordered is ordered once and is no longer in the cart, for any number
\* of checkouts and edits of the cart that overlap.
THEOREM OrderedOnceCorrect == Spec => []RowOrderedOnce
<1>1. CartInv => RowOrderedOnce
  <2>1. SUFFICES ASSUME CartInv, NEW r \in Rows, NEW i \in OrdersWith(r)
                 PROVE  Cardinality(OrdersWith(r)) = 1 /\ lines[r].at = "gone"
    BY DEF RowOrderedOnce
  <2>2. OrdersWith(r) = {i} /\ lines[r].at = "gone"
    BY <2>1 DEF CartInv, OrderedAtMostOnce
  <2>. QED  BY <2>2, FS_Singleton
<1>. QED
  BY <1>1, CartInvariant, PTL

\* Only the commit of a checkout places an order, and it empties the cart.
LEMMA OrderEmptiesCart ==
  CartInv /\ [Next]_vars =>
    [orders' # orders =>
       /\ \A r \in Rows : lines'[r].at # "cart"
       /\ cart'.bound = NoRestaurant]_vars
<1>. SUFFICES ASSUME CartInv, Next, orders' # orders
              PROVE  /\ \A r \in Rows : lines'[r].at # "cart"
                     /\ cart'.bound = NoRestaurant
  BY DEF vars
<1>1. PICK s \in Sessions :
        (\E q \in Requests : Receive(s, q)) \/ Work(s) \/ Crash(s)
  BY DEF Next
<1>2. ~(\E q \in Requests : Receive(s, q)) /\ ~Crash(s) /\ ~AbortDeadlocked(s)
  BY DEF Receive, Crash, AbortDeadlocked, Fail, Step
<1>3. ~Load(s) /\ ~Refuse(s)
  BY DEF Load, LoadCart, LoadCartForUpdate, LoadItems, CreateCart, Refuse, Fail, Step
<1>4. ~(BindRestaurant(s) \/ InsertItem(s) \/ FindItem(s) \/ WriteItem(s))
  BY DEF BindRestaurant, InsertItem, FindItem, WriteItem, Fail, Step
<1>5. ~(UnbindRestaurant(s) \/ KeepRestaurant(s) \/ BeginOrder(s) \/ DeleteItem(s))
  BY DEF UnbindRestaurant, KeepRestaurant, BeginOrder, DeleteItem, Step
<1>6. ~(GetCart(s) \/ AddItem(s) \/ UpdateQuantity(s) \/ RemoveItem(s) \/ ClearCart(s))
  BY DEF GetCart, AddItem, UpdateQuantity, RemoveItem, ClearCart
<1>7. CreateOrder(s)
  BY <1>1, <1>2, <1>3, <1>4, <1>5, <1>6 DEF Work, Change, Commit
<1>. QED
  BY <1>7, CreateOrderInv DEF InCart

\* A checkout leaves nothing behind in the cart, nor the restaurant it was for.
THEOREM WholeCartCorrect == Spec => CheckoutTakesWholeCart
<1>1. CartInv /\ [Next]_vars =>
        [orders' # orders =>
           /\ \A r \in Rows : lines'[r].at # "cart"
           /\ cart'.bound = NoRestaurant]_vars
  BY OrderEmptiesCart
<1>. QED
  BY <1>1, CartInvariant, PTL DEF Spec, CheckoutTakesWholeCart

\* Handlers wait for each other in a cycle only if one of them is remove_item,
\* for any number of overlapping requests and of rows in the cart.
THEOREM RemovalCorrect == Spec => []OnlyRemovalDeadlocks
<1>1. Init => HoldsFit
  BY IdleHolds DEF Init, HoldsFit
<1>2. TypeOK /\ HoldsFit /\ [Next]_vars => HoldsFit'
  BY HoldsNext
<1>3. TypeOK /\ HoldsFit => OnlyRemovalDeadlocks
  BY RemovalNeeded
<1>. QED
  BY <1>1, <1>2, <1>3, CartTypeCorrect, PTL DEF Spec
=============================================================================
