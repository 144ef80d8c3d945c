-------------------------- MODULE StorefrontProofs --------------------------
(***************************************************************************)
(* For any number of categories, items and overlapping requests: a listed  *)
(* restaurant was verified, only a commit whose check was overtaken breaks *)
(* the approval table or takes an item's category away, and no commit      *)
(* takes back what another wrote.  No lock is taken anywhere, so the       *)
(* argument rests on what never changes back: rows are never unused again, *)
(* verified_at is never cleared, and nobody else inserts a row of one's id.*)
(***************************************************************************)
EXTENDS StorefrontProperties, TLAPS

-----------------------------------------------------------------------------
(* The inductive invariant                                                  *)

\* What a session's record says of the rows, however old it is.
Fit(me) ==
  LET q == me.req IN
  /\ me.pc = "commit" /\ q.kind \in DecisionKinds =>
       /\ me.shop.approval_status \in AllowedFrom(q.kind)
       /\ me.shop.approval_status \in {"APPROVED", "SUSPENDED"} => shop.verified
  /\ me.pc = "check" =>
       \/ q.kind = "delete_category"
       \/ q.kind = "update_item" /\ q.category \in Categories
  /\ me.pc \in {"check", "commit"} /\ q.kind \in ItemKinds => items[q.item].at # "unused"
  /\ me.pc \in {"check", "commit"} /\ q.kind \in CategoryKinds =>
       categories[q.category].at # "unused"
  /\ q.kind = "create_category" => categories[q.category].at = "unused"
  /\ q.kind = "create_item" => items[q.item].at = "unused"
  /\ me.category.at = "live" =>
       q.category \in Categories /\ categories[q.category].at # "unused"
  /\ me.pc = "commit" /\ q.kind = "create_item" => me.category.at = "live"
  /\ me.pc = "commit" /\ q.kind = "update_item" =>
       q.category \in {Keep, me.item.category} \/ me.category.at = "live"

SessionsFit == \A s \in Sessions : Fit(sess[s])

\* Both would insert one row.
SameInsert(p, q) ==
  \/ p.kind = "create_category" /\ q.kind = "create_category" /\ p.category = q.category
  \/ p.kind = "create_item" /\ q.kind = "create_item" /\ p.item = q.item

InsertsDiffer ==
  \A s, t \in Sessions : s # t => ~SameInsert(sess[s].req, sess[t].req)

RowsFit ==
  \A i \in Items :
    /\ items[i].at = "unused" => items[i].is_available
    /\ items[i].at = "live" => /\ items[i].category \in Categories
                               /\ categories[items[i].category].at # "unused"

StoreInv == TypeOK /\ ListedWasVerified /\ SessionsFit /\ InsertsDiffer /\ RowsFit

-----------------------------------------------------------------------------
(* Requests and sessions                                                    *)

\* What the routes let through.
LEMMA RequestFields ==
  ASSUME NEW q \in Requests \cup {NoRequest}
  PROVE  /\ q.kind \in CategoryKinds \cup {"create_category", "create_item"} =>
              q.category \in Categories
         /\ q.kind \in ItemKinds \cup {"create_item"} => q.item \in Items
         /\ q.kind \in {"toggle_item", "delete_item"} => q.category = Keep
         /\ q.kind = "update_item" =>
              q.category \in Categories \cup {Keep} /\ q.value \in BOOLEAN \cup {Keep}
         /\ q.kind \in {"update", "toggle_item"} => q.value \in BOOLEAN
         /\ q.kind \in {"create_category", "update_category", "create_item"} =>
              q.value \in BOOLEAN
<1>. USE DEF Request, CategoryKinds, ItemKinds
<1>1. CASE q \in AdminRequests \/ q = NoRequest
  BY <1>1 DEF AdminRequests, NoRequest
<1>2. CASE q \in OwnerRequests
  BY <1>2 DEF OwnerRequests
<1>3. CASE q \in MenuRequests
  BY <1>3 DEF MenuRequests
<1>. QED
  BY <1>1, <1>2, <1>3 DEF Requests

\* What a session record holds.
LEMMA Loaded ==
  ASSUME TypeOK, NEW s \in Sessions
  PROVE  /\ sess[s] \in Session
         /\ sess[s].req \in Requests \cup {NoRequest}
         /\ sess[s].shop \in Restaurant /\ sess[s].category \in MenuCategory
         /\ sess[s].item \in MenuItem
BY DEF TypeOK, Session

LEMMA IdleFits ==
  /\ Idle \in Session /\ Fit(Idle)
  /\ \A q : ~SameInsert(Idle.req, q) /\ ~SameInsert(q, Idle.req)
<1>1. NoShop \in Restaurant /\ UnusedCategory \in MenuCategory /\ UnusedItem \in MenuItem
  BY DEF NoShop, Restaurant, ApprovalStatus, UnusedCategory, MenuCategory, Life,
         UnusedItem, MenuItem
<1>2. /\ Idle.pc = "idle" /\ Idle.req.kind = "none" /\ Idle.category.at = "unused"
  BY DEF Idle, NoRequest, UnusedCategory
<1>3. Idle \in Session
  BY <1>1 DEF Idle, Session
<1>. QED
  BY <1>2, <1>3 DEF Fit, SameInsert, DecisionKinds, ItemKinds, CategoryKinds

\* A statement that changes nothing but the session keeps the invariant if the new
\* record fits.
LEMMA LocalStep ==
  ASSUME StoreInv, NEW s \in Sessions, NEW local, local \in Session, Fit(local),
         \A t \in Sessions \ {s} : ~SameInsert(local.req, sess[t].req),
         Step(s, local)
  PROVE  StoreInv'
<1>1. /\ sess' = [sess EXCEPT ![s] = local]
      /\ shop' = shop /\ categories' = categories /\ items' = items
  BY DEF Step
<1>2. TypeOK /\ sess \in [Sessions -> Session]
  BY DEF StoreInv, TypeOK
<1>3. sess'[s] = local /\ \A t \in Sessions \ {s} : sess'[t] = sess[t]
  BY <1>1, <1>2
<1>4. TypeOK'
  BY <1>1, <1>2 DEF TypeOK
<1>5. SessionsFit'
  <2>1. SUFFICES ASSUME NEW t \in Sessions
                 PROVE  Fit(sess[t])'
    BY DEF SessionsFit
  <2>2. Fit(sess'[t])
    BY <1>3 DEF StoreInv, SessionsFit
  <2>. QED  BY <1>1, <2>2 DEF Fit
<1>6. InsertsDiffer'
  BY <1>3 DEF StoreInv, InsertsDiffer, SameInsert
<1>7. ListedWasVerified' /\ RowsFit'
  BY <1>1 DEF StoreInv, ListedWasVerified, RowsFit
<1>. QED
  BY <1>4, <1>5, <1>6, <1>7 DEF StoreInv

LEMMA FailStep ==
  ASSUME StoreInv, NEW s \in Sessions, Fail(s)
  PROVE  StoreInv'
BY IdleFits, LocalStep DEF Fail

\* A commit keeps what other sessions know if it clears no verified_at and takes no
\* row that is another's to insert.
LEMMA CommitStep ==
  ASSUME StoreInv, NEW s \in Sessions, Done(s),
         shop' \in Restaurant,
         categories' \in [Categories -> MenuCategory], items' \in [Items -> MenuItem],
         ListedWasVerified', RowsFit',
         shop.verified => shop'.verified,
         \A c \in Categories :
           /\ categories[c].at # "unused" => categories'[c].at # "unused"
           /\ \/ categories'[c].at = categories[c].at
              \/ categories[c].at # "unused"
              \/ sess[s].req.kind = "create_category" /\ sess[s].req.category = c,
         \A i \in Items :
           /\ items[i].at # "unused" => items'[i].at # "unused"
           /\ \/ items'[i].at = items[i].at
              \/ items[i].at # "unused"
              \/ sess[s].req.kind = "create_item" /\ sess[s].req.item = i
  PROVE  StoreInv'
<1>1. TypeOK /\ sess \in [Sessions -> Session] /\ sess' = [sess EXCEPT ![s] = Idle]
  BY DEF StoreInv, TypeOK, Done
<1>2. sess'[s] = Idle /\ \A t \in Sessions \ {s} : sess'[t] = sess[t]
  BY <1>1
<1>3. TypeOK'
  BY <1>1, IdleFits DEF TypeOK
<1>4. SessionsFit'
  <2>1. SUFFICES ASSUME NEW t \in Sessions
                 PROVE  Fit(sess[t])'
    BY DEF SessionsFit
  <2>2. CASE t = s
    <3>1. /\ sess'[t].pc = "idle" /\ sess'[t].req.kind = "none"
          /\ sess'[t].category.at = "unused"
      BY <1>2, <2>2 DEF Idle, NoRequest, UnusedCategory
    <3>. QED  BY <3>1 DEF Fit, DecisionKinds, ItemKinds, CategoryKinds
  <2>3. CASE t # s
    <3> DEFINE q == sess[t].req
    <3>1. sess'[t] = sess[t] /\ Fit(sess[t]) /\ ~SameInsert(sess[s].req, q)
      BY <1>2, <2>3 DEF StoreInv, SessionsFit, InsertsDiffer
    <3>2. /\ q.kind \in CategoryKinds \cup {"create_category"} => q.category \in Categories
          /\ q.kind \in ItemKinds \cup {"create_item"} => q.item \in Items
      BY <1>1, Loaded, RequestFields
    <3>3. q.kind = "create_category" => categories'[q.category].at = "unused"
      BY <3>1, <3>2 DEF Fit, SameInsert
    <3>4. q.kind = "create_item" => items'[q.item].at = "unused"
      BY <3>1, <3>2 DEF Fit, SameInsert
    <3>. QED  BY <3>1, <3>2, <3>3, <3>4 DEF Fit
  <2>. QED  BY <2>2, <2>3
<1>5. InsertsDiffer'
  <2>1. \A q : ~SameInsert(sess'[s].req, q) /\ ~SameInsert(q, sess'[s].req)
    BY <1>2, IdleFits
  <2>. QED  BY <1>2, <2>1 DEF StoreInv, InsertsDiffer, SameInsert
<1>. QED
  BY <1>3, <1>4, <1>5 DEF StoreInv

-----------------------------------------------------------------------------
(* Reading                                                                  *)

LEMMA RestaurantInv ==
  ASSUME StoreInv, NEW s \in Sessions, NEW q \in Requests, LoadRestaurant(s, q)
  PROVE  StoreInv'
<1> DEFINE local == [Idle EXCEPT !.pc = "commit", !.req = q, !.shop = shop]
<1>1. shop \in Restaurant
  BY DEF StoreInv, TypeOK
<1>2. /\ local \in Session /\ local.pc = "commit" /\ local.req = q
      /\ local.shop = shop /\ local.category.at = "unused"
  BY <1>1, IdleFits DEF Session, Idle, UnusedCategory
<1>3. /\ q.kind \in DecisionKinds /\ shop.approval_status \in AllowedFrom(q.kind)
      /\ Step(s, local)
  BY DEF LoadRestaurant
<1>. HIDE DEF local
<1>4. shop.approval_status \in {"APPROVED", "SUSPENDED"} => shop.verified
  BY DEF StoreInv, ListedWasVerified
<1>5. Fit(local)
  BY <1>2, <1>3, <1>4 DEF Fit, DecisionKinds, ItemKinds, CategoryKinds
<1>6. \A p : ~SameInsert(local.req, p)
  BY <1>2, <1>3 DEF SameInsert, DecisionKinds
<1>. QED
  BY <1>2, <1>3, <1>5, <1>6, LocalStep

LEMMA VerifyInv ==
  ASSUME StoreInv, NEW s \in Sessions, NEW q \in Requests, VerifyRestaurantOwner(s, q)
  PROVE  StoreInv'
<1> DEFINE local == [Idle EXCEPT !.req = q,
                       !.pc = IF q.kind = "create_category" THEN "commit" ELSE "load"]
<1>1. /\ local \in Session /\ local.req = q /\ local.category.at = "unused"
      /\ local.pc = IF q.kind = "create_category" THEN "commit" ELSE "load"
  BY IdleFits DEF Session, Idle, UnusedCategory
<1>2. /\ q.kind = "create_category" =>
           categories[q.category].at = "unused" /\ Free(q.kind, q.category)
      /\ q.kind = "create_item" => items[q.item].at = "unused" /\ Free(q.kind, q.item)
      /\ Step(s, local)
  BY DEF VerifyRestaurantOwner
<1>. HIDE DEF local
<1>3. Fit(local)
  BY <1>1, <1>2 DEF Fit, DecisionKinds, ItemKinds, CategoryKinds
<1>4. \A t \in Sessions \ {s} : ~SameInsert(local.req, sess[t].req)
  BY <1>1, <1>2 DEF SameInsert, Free
<1>. QED
  BY <1>1, <1>2, <1>3, <1>4, LocalStep

LEMMA ReadInv ==
  ASSUME StoreInv, NEW s \in Sessions,
         LoadItem(s) \/ LoadCategory(s) \/ CheckNewCategory(s) \/ CountItems(s)
  PROVE  StoreInv'
<1> DEFINE q == sess[s].req
<1>1. /\ TypeOK /\ sess[s] \in Session /\ Fit(sess[s])
      /\ \A t \in Sessions \ {s} : ~SameInsert(q, sess[t].req)
  BY Loaded DEF StoreInv, SessionsFit, InsertsDiffer
<1>2. /\ q.kind \in CategoryKinds \cup {"create_item"} => q.category \in Categories
      /\ q.kind \in ItemKinds => q.item \in Items
      /\ q.kind \in {"toggle_item", "delete_item"} => q.category = Keep
      /\ q.kind = "update_item" => q.category \in Categories \cup {Keep}
  BY <1>1, Loaded, RequestFields
<1>3. CASE LoadItem(s)
  <2> DEFINE local == [sess[s] EXCEPT !.item = items[q.item],
                         !.pc = IF q.category \in {Keep, items[q.item].category}
                                THEN "commit" ELSE "check"]
  <2>1. q.kind \in ItemKinds /\ items[q.item].at = "live" /\ Step(s, local)
    BY <1>3 DEF LoadItem, At
  <2>2. items[q.item] \in MenuItem
    BY <1>1, <1>2, <2>1 DEF TypeOK
  <2>3. /\ local \in Session /\ local.req = q /\ local.category = sess[s].category
        /\ local.item = items[q.item]
        /\ local.pc = IF q.category \in {Keep, items[q.item].category}
                      THEN "commit" ELSE "check"
    BY <1>1, <2>2 DEF Session
  <2>. HIDE DEF local
  <2>4. Fit(local)
    BY <1>1, <1>2, <2>1, <2>3 DEF Fit, DecisionKinds, ItemKinds, CategoryKinds
  <2>. QED  BY <1>1, <2>1, <2>3, <2>4, LocalStep
<1>4. CASE LoadCategory(s)
  <2> DEFINE local == [sess[s] EXCEPT !.category = categories[q.category],
                         !.pc = IF q.kind = "delete_category" THEN "check" ELSE "commit"]
  <2>1. /\ q.kind \in CategoryKinds \cup {"create_item"}
        /\ categories[q.category].at = "live" /\ Step(s, local)
    BY <1>4 DEF LoadCategory, At
  <2>2. categories[q.category] \in MenuCategory
    BY <1>1, <1>2, <2>1 DEF TypeOK
  <2>3. /\ local \in Session /\ local.req = q /\ local.category = categories[q.category]
        /\ local.pc = IF q.kind = "delete_category" THEN "check" ELSE "commit"
    BY <1>1, <2>2 DEF Session
  <2>. HIDE DEF local
  <2>4. Fit(local)
    BY <1>1, <1>2, <2>1, <2>3 DEF Fit, DecisionKinds, ItemKinds, CategoryKinds
  <2>. QED  BY <1>1, <2>1, <2>3, <2>4, LocalStep
<1>5. CASE CheckNewCategory(s)
  <2> DEFINE local == [sess[s] EXCEPT !.pc = "commit", !.category = categories[q.category]]
  <2>1. /\ sess[s].pc = "check" /\ q.kind = "update_item"
        /\ categories[q.category].at = "live" /\ Step(s, local)
    BY <1>5 DEF CheckNewCategory, At
  <2>2. q.category \in Categories /\ categories[q.category] \in MenuCategory
    BY <1>1, <2>1 DEF TypeOK, Fit
  <2>3. /\ local \in Session /\ local.req = q /\ local.pc = "commit"
        /\ local.category = categories[q.category] /\ local.item = sess[s].item
    BY <1>1, <2>2 DEF Session
  <2>. HIDE DEF local
  <2>4. Fit(local)
    BY <1>1, <2>1, <2>2, <2>3 DEF Fit, DecisionKinds, ItemKinds, CategoryKinds
  <2>. QED  BY <1>1, <2>1, <2>3, <2>4, LocalStep
<1>6. CASE CountItems(s)
  <2> DEFINE local == [sess[s] EXCEPT !.pc = "commit"]
  <2>1. sess[s].pc = "check" /\ q.kind = "delete_category" /\ Step(s, local)
    BY <1>6 DEF CountItems, At
  <2>2. /\ local \in Session /\ local.req = q /\ local.pc = "commit"
        /\ local.category = sess[s].category
    BY <1>1 DEF Session
  <2>. HIDE DEF local
  <2>3. Fit(local)
    BY <1>1, <2>1, <2>2 DEF Fit, DecisionKinds, ItemKinds, CategoryKinds
  <2>. QED  BY <1>1, <2>1, <2>2, <2>3, LocalStep
<1>. QED
  BY <1>3, <1>4, <1>5, <1>6

-----------------------------------------------------------------------------
(* Writing                                                                  *)

\* A flush leaves a column as it is or writes what was assigned.
LEMMA WrittenIs ==
  ASSUME NEW loaded, NEW assigned, NEW current
  PROVE  \/ Written(loaded, assigned, current) = current
         \/ /\ Written(loaded, assigned, current) = assigned
            /\ assigned # Keep /\ assigned # loaded
BY DEF Written

\* What a decision does to the restaurant.
LEMMA Decided ==
  ASSUME StoreInv, NEW s \in Sessions, CommitDecision(s)
  PROVE  /\ sess[s].pc = "commit" /\ sess[s].req.kind \in DecisionKinds
         /\ shop' \in Restaurant /\ (shop.verified => shop'.verified)
         /\ \/ shop'.approval_status = shop.approval_status
            \/ /\ shop'.approval_status = Target(sess[s].req.kind)
               /\ sess[s].req.kind # "update"
         /\ sess[s].req.kind \in {"approve", "reject"} => shop'.verified
         /\ \/ shop'.is_open = shop.is_open
            \/ shop'.is_open = AssignedOpen(sess[s].req)
<1> DEFINE q == sess[s].req
           old == sess[s].shop
           status == Written(old.approval_status, Target(q.kind), shop.approval_status)
           open == Written(old.is_open, AssignedOpen(q), shop.is_open)
           reason == Written(old.reason, AssignedReason(q), shop.reason)
<1>1. /\ sess[s].pc = "commit" /\ q.kind \in DecisionKinds
      /\ shop' = [shop EXCEPT !.approval_status = status, !.is_open = open,
                    !.verified = @ \/ q.kind \in {"approve", "reject"}, !.reason = reason]
  BY DEF CommitDecision, At
<1>2. shop \in Restaurant /\ (q.kind = "update" => q.value \in BOOLEAN)
  BY Loaded, RequestFields DEF StoreInv, TypeOK
<1>3. \/ status = shop.approval_status
      \/ status = Target(q.kind) /\ q.kind # "update" /\ status \in ApprovalStatus
  <2>1. q.kind # "update" => Target(q.kind) \in ApprovalStatus
    BY <1>1 DEF Target, DecisionKinds, ApprovalStatus
  <2>2. q.kind = "update" => Target(q.kind) = Keep
    BY DEF Target
  <2>. QED  BY <2>1, <2>2, WrittenIs
<1>4. \/ open = shop.is_open
      \/ open = AssignedOpen(q) /\ open \in BOOLEAN
  <2>1. AssignedOpen(q) \in BOOLEAN \cup {Keep}
    <3>1. /\ q.kind = "approve" => AssignedOpen(q) = TRUE
          /\ q.kind = "suspend" => AssignedOpen(q) = FALSE
          /\ q.kind = "update" => AssignedOpen(q) = q.value
          /\ q.kind \notin {"approve", "suspend", "update"} => AssignedOpen(q) = Keep
      BY DEF AssignedOpen
    <3>. QED  BY <1>2, <3>1, Zenon
  <2>2. \/ open = shop.is_open
        \/ open = AssignedOpen(q) /\ AssignedOpen(q) # Keep
    BY WrittenIs
  <2>. QED  BY <2>1, <2>2, Zenon
<1>5. reason = shop.reason \/ reason \in BOOLEAN
  <2>1. AssignedReason(q) \in BOOLEAN \/ AssignedReason(q) = Keep
    BY DEF AssignedReason
  <2>2. \/ reason = shop.reason
        \/ reason = AssignedReason(q) /\ AssignedReason(q) # Keep
    BY WrittenIs
  <2>. QED  BY <2>1, <2>2, Zenon
<1>. HIDE DEF status, open, reason
<1>6. /\ shop.approval_status \in ApprovalStatus /\ shop.is_open \in BOOLEAN
      /\ shop.verified \in BOOLEAN /\ shop.reason \in BOOLEAN
  BY <1>2 DEF Restaurant
<1>7. /\ shop'.approval_status = status /\ shop'.is_open = open
      /\ shop'.verified = (shop.verified \/ q.kind \in {"approve", "reject"})
  BY <1>1, <1>2 DEF Restaurant
<1>8. shop' \in Restaurant
  BY <1>1, <1>2, <1>3, <1>4, <1>5, <1>6 DEF Restaurant
<1>. QED
  BY <1>1, <1>3, <1>4, <1>7, <1>8

LEMMA DecisionInv ==
  ASSUME StoreInv, NEW s \in Sessions, CommitDecision(s)
  PROVE  StoreInv'
<1>1. Done(s) /\ categories' = categories /\ items' = items
  BY DEF CommitDecision
<1>2. TypeOK /\ Fit(sess[s]) /\ ListedWasVerified /\ RowsFit
  BY DEF StoreInv, SessionsFit
<1>3. ListedWasVerified'
  <2>1. SUFFICES ASSUME shop'.approval_status \in {"APPROVED", "SUSPENDED"}
                 PROVE  shop'.verified
    BY DEF ListedWasVerified
  <2>2. CASE shop'.approval_status = shop.approval_status
    BY <1>2, <2>1, <2>2, Decided DEF ListedWasVerified
  <2>3. CASE sess[s].req.kind \in {"approve", "reject"}
    BY <2>3, Decided
  <2>4. CASE sess[s].req.kind \in {"suspend", "activate"}
    <3>1. sess[s].shop.approval_status \in {"APPROVED", "SUSPENDED"}
      BY <1>2, <2>4, Decided DEF Fit, AllowedFrom
    <3>. QED  BY <1>2, <3>1, Decided DEF Fit
  <2>5. Target("submit") = "PENDING_APPROVAL"
    BY DEF Target
  <2>. QED  BY <2>1, <2>2, <2>3, <2>4, <2>5, Decided DEF DecisionKinds
<1>4. RowsFit'
  BY <1>1, <1>2 DEF RowsFit
<1>5. shop' \in Restaurant /\ (shop.verified => shop'.verified)
  BY Decided
<1>6. /\ categories' \in [Categories -> MenuCategory] /\ items' \in [Items -> MenuItem]
      /\ \A c : categories'[c] = categories[c]
      /\ \A i : items'[i] = items[i]
  BY <1>1, <1>2 DEF TypeOK
<1>. QED
  BY <1>1, <1>3, <1>4, <1>5, <1>6, CommitStep

\* What a commit about an item does to the items.
LEMMA Stored ==
  ASSUME StoreInv, NEW s \in Sessions, CommitItem(s)
  PROVE  LET me == sess[s]  q == sess[s].req  old == items[q.item]  new == items'[q.item] IN
         /\ me.pc = "commit" /\ q.kind \in ItemKinds \cup {"create_item"} /\ q.item \in Items
         /\ items' \in [Items -> MenuItem]
         /\ \A i \in Items \ {q.item} : items'[i] = items[i]
         /\ q.kind = "create_item" =>
              /\ new.at = "live"
              /\ new.category = q.category /\ me.category.at = "live"
         /\ q.kind \in {"update_item", "toggle_item"} =>
              /\ new.at = old.at
              /\ \/ new.category = old.category
                 \/ q.kind = "update_item" /\ new.category = q.category /\ me.category.at = "live"
              /\ new.is_available = old.is_available \/ new.is_available = q.value
         /\ q.kind = "delete_item" => new.at = "deleted" /\ new.is_available = old.is_available
<1> DEFINE me == sess[s]
           q == sess[s].req
           old == items[q.item]
           category == Written(me.item.category, q.category, old.category)
           available == Written(me.item.is_available, q.value, old.is_available)
           created == [at |-> "live", category |-> q.category, is_available |-> q.value]
           updated == [old EXCEPT !.category = category, !.is_available = available]
           deleted == [old EXCEPT !.at = "deleted"]
<1>1. TypeOK /\ Fit(me)
  BY DEF StoreInv, SessionsFit
<1>2. me.pc = "commit" /\ q.kind \in ItemKinds \cup {"create_item"}
  BY DEF CommitItem, At
<1>3. /\ q.item \in Items
      /\ q.kind = "create_item" => q.category \in Categories /\ q.value \in BOOLEAN
      /\ q.kind = "toggle_item" => q.category = Keep /\ q.value \in BOOLEAN
      /\ q.kind = "update_item" =>
           q.category \in Categories \cup {Keep} /\ q.value \in BOOLEAN \cup {Keep}
  BY <1>1, <1>2, Loaded, RequestFields
<1>4. old \in MenuItem /\ items \in [Items -> MenuItem]
  BY <1>1, <1>3 DEF TypeOK
<1>5. CASE q.kind = "create_item"
  <2>1. items' = [items EXCEPT ![q.item] = created]
    BY <1>5 DEF CommitItem
  <2>2. created \in MenuItem /\ me.category.at = "live"
    BY <1>1, <1>2, <1>3, <1>5 DEF MenuItem, Life, Fit
  <2>3. created.at = "live" /\ created.category = q.category
    OBVIOUS
  <2>. HIDE DEF created
  <2>. QED  BY <1>2, <1>3, <1>4, <1>5, <2>1, <2>2, <2>3
<1>6. CASE q.kind \in {"update_item", "toggle_item"}
  <2>1. items' = [items EXCEPT ![q.item] = updated]
    <3> DEFINE row == CASE q.kind = "create_item" -> created
                        [] q.kind \in {"update_item", "toggle_item"} -> updated
                        [] q.kind = "delete_item" -> deleted
    <3>1. items' = [items EXCEPT ![q.item] = row]
      BY Zenon DEF CommitItem, UpdatedItem
    <3>2. row = updated
      <4>. HIDE DEF created, updated, deleted
      <4>. QED  BY <1>6
    <3>. QED  BY <3>1, <3>2, Zenon
  <2>2. \/ category = old.category
        \/ /\ q.kind = "update_item" /\ category = q.category
           /\ q.category \in Categories /\ me.category.at = "live"
    <3>1. \/ category = old.category
          \/ category = q.category /\ q.category # Keep /\ q.category # me.item.category
      BY WrittenIs
    <3>. QED  BY <1>1, <1>2, <1>3, <1>6, <3>1 DEF Fit
  <2>3. \/ available = old.is_available
        \/ available = q.value /\ q.value \in BOOLEAN
    <3>1. \/ available = old.is_available
          \/ available = q.value /\ q.value # Keep
      BY WrittenIs
    <3>2. q.value \in BOOLEAN \/ q.value = Keep
      BY <1>3, <1>6
    <3>. QED  BY <3>1, <3>2, Zenon
  <2>. HIDE DEF category, available
  <2>4. updated \in MenuItem
    BY <1>4, <2>2, <2>3 DEF MenuItem
  <2>5. /\ updated.at = old.at /\ updated.category = category
        /\ updated.is_available = available
    BY <1>4 DEF MenuItem
  <2>. HIDE DEF updated
  <2>. QED  BY <1>2, <1>3, <1>4, <1>6, <2>1, <2>2, <2>3, <2>4, <2>5
<1>7. CASE q.kind = "delete_item"
  <2>1. items' = [items EXCEPT ![q.item] = deleted]
    BY <1>7 DEF CommitItem
  <2>2. /\ deleted \in MenuItem /\ deleted.at = "deleted"
        /\ deleted.is_available = old.is_available
    BY <1>4 DEF MenuItem, Life
  <2>. HIDE DEF deleted
  <2>. QED  BY <1>2, <1>3, <1>4, <1>7, <2>1, <2>2
<1>. QED
  BY <1>2, <1>5, <1>6, <1>7 DEF ItemKinds

LEMMA ItemInv ==
  ASSUME StoreInv, NEW s \in Sessions, CommitItem(s)
  PROVE  StoreInv'
<1> DEFINE me == sess[s]
           q == sess[s].req
<1>1. Done(s) /\ shop' = shop /\ categories' = categories
  BY DEF CommitItem
<1>2. TypeOK /\ Fit(me) /\ ListedWasVerified /\ RowsFit
  BY DEF StoreInv, SessionsFit
<1>3. RowsFit'
  <2>1. SUFFICES ASSUME NEW i \in Items
                 PROVE  /\ items'[i].at = "unused" => items'[i].is_available
                        /\ items'[i].at = "live" =>
                             /\ items'[i].category \in Categories
                             /\ categories[items'[i].category].at # "unused"
    BY <1>1 DEF RowsFit
  <2>2. me.category.at = "live" =>
          q.category \in Categories /\ categories[q.category].at # "unused"
    BY <1>2 DEF Fit
  <2>3. CASE i # q.item
    BY <1>2, <2>3, Stored DEF RowsFit
  <2>4. CASE i = q.item /\ q.kind = "create_item"
    BY <2>2, <2>4, Stored
  <2>5. CASE i = q.item /\ q.kind \in {"update_item", "toggle_item"}
    <3>1. items[i].at # "unused"
      BY <1>2, <2>5, Stored DEF Fit, ItemKinds
    <3>. QED  BY <1>2, <2>2, <2>5, <3>1, Stored DEF RowsFit
  <2>6. CASE i = q.item /\ q.kind = "delete_item"
    BY <2>6, Stored
  <2>. QED  BY <2>3, <2>4, <2>5, <2>6, Stored DEF ItemKinds
<1>4. ASSUME NEW i \in Items
      PROVE  /\ items[i].at # "unused" => items'[i].at # "unused"
             /\ \/ items'[i].at = items[i].at
                \/ items[i].at # "unused"
                \/ q.kind = "create_item" /\ q.item = i
  <2>1. CASE i # q.item
    BY <2>1, Stored
  <2>2. CASE i = q.item /\ q.kind = "create_item"
    BY <2>2, Stored
  <2>3. CASE i = q.item /\ q.kind \in {"update_item", "toggle_item"}
    BY <2>3, Stored
  <2>4. CASE i = q.item /\ q.kind = "delete_item"
    BY <1>2, <2>4, Stored DEF Fit, ItemKinds
  <2>. QED  BY <2>1, <2>2, <2>3, <2>4, Stored DEF ItemKinds
<1>5. /\ shop' \in Restaurant /\ ListedWasVerified' /\ (shop.verified => shop'.verified)
      /\ categories' \in [Categories -> MenuCategory]
      /\ \A c : categories'[c] = categories[c]
  BY <1>1, <1>2 DEF TypeOK, ListedWasVerified
<1>6. items' \in [Items -> MenuItem]
  BY Stored
<1>. QED
  BY <1>1, <1>3, <1>4, <1>5, <1>6, CommitStep

\* What a commit about a category does to the categories.
LEMMA Filed ==
  ASSUME StoreInv, NEW s \in Sessions, CommitCategory(s)
  PROVE  LET q == sess[s].req  old == categories[q.category]  new == categories'[q.category] IN
         /\ sess[s].pc = "commit" /\ q.kind \in CategoryKinds \cup {"create_category"}
         /\ q.category \in Categories
         /\ categories' \in [Categories -> MenuCategory]
         /\ \A c \in Categories \ {q.category} : categories'[c] = categories[c]
         /\ q.kind = "create_category" => old.at = "unused" /\ new.at = "live"
         /\ q.kind = "update_category" => old.at # "unused" /\ new.at = old.at
         /\ q.kind = "delete_category" => old.at # "unused" /\ new.at = "deleted"
<1> DEFINE q == sess[s].req
           old == categories[q.category]
           active == Written(sess[s].category.is_active, q.value, old.is_active)
           created == [at |-> "live", is_active |-> q.value]
           updated == [old EXCEPT !.is_active = active]
           deleted == [old EXCEPT !.at = "deleted"]
<1>1. TypeOK /\ Fit(sess[s])
  BY DEF StoreInv, SessionsFit
<1>2. sess[s].pc = "commit" /\ q.kind \in CategoryKinds \cup {"create_category"}
  BY DEF CommitCategory, At
<1>3. q.category \in Categories /\ (q.kind # "delete_category" => q.value \in BOOLEAN)
  BY <1>1, <1>2, Loaded, RequestFields DEF CategoryKinds
<1>4. old \in MenuCategory /\ categories \in [Categories -> MenuCategory]
  BY <1>1, <1>3 DEF TypeOK
<1>5. /\ q.kind = "create_category" => old.at = "unused"
      /\ q.kind \in CategoryKinds => old.at # "unused"
  BY <1>1, <1>2 DEF Fit
<1>6. CASE q.kind = "create_category"
  <2>1. categories' = [categories EXCEPT ![q.category] = created]
    BY <1>6 DEF CommitCategory
  <2>2. created \in MenuCategory /\ created.at = "live"
    BY <1>3, <1>6 DEF MenuCategory, Life
  <2>. HIDE DEF created
  <2>. QED  BY <1>2, <1>3, <1>4, <1>5, <1>6, <2>1, <2>2
<1>7. CASE q.kind = "update_category"
  <2>1. categories' = [categories EXCEPT ![q.category] = updated]
    <3> DEFINE row == CASE q.kind = "create_category" -> created
                        [] q.kind = "update_category" -> updated
                        [] q.kind = "delete_category" -> deleted
    <3>1. categories' = [categories EXCEPT ![q.category] = row]
      BY Zenon DEF CommitCategory, UpdatedCategory
    <3>2. row = updated
      <4>. HIDE DEF created, updated, deleted
      <4>. QED  BY <1>7
    <3>. QED  BY <3>1, <3>2, Zenon
  <2>2. active \in BOOLEAN
    <3>1. active = old.is_active \/ active = q.value
      BY WrittenIs
    <3>2. old.is_active \in BOOLEAN
      BY <1>4 DEF MenuCategory
    <3>. QED  BY <1>3, <1>7, <3>1, <3>2
  <2>. HIDE DEF active
  <2>3. updated \in MenuCategory /\ updated.at = old.at
    BY <1>4, <2>2 DEF MenuCategory
  <2>. HIDE DEF updated
  <2>. QED  BY <1>2, <1>3, <1>4, <1>5, <1>7, <2>1, <2>3 DEF CategoryKinds
<1>8. CASE q.kind = "delete_category"
  <2>1. categories' = [categories EXCEPT ![q.category] = deleted]
    BY <1>8 DEF CommitCategory
  <2>2. deleted \in MenuCategory /\ deleted.at = "deleted"
    BY <1>4 DEF MenuCategory, Life
  <2>. HIDE DEF deleted
  <2>. QED  BY <1>2, <1>3, <1>4, <1>5, <1>8, <2>1, <2>2 DEF CategoryKinds
<1>. QED
  BY <1>2, <1>6, <1>7, <1>8 DEF CategoryKinds

LEMMA CategoryInv ==
  ASSUME StoreInv, NEW s \in Sessions, CommitCategory(s)
  PROVE  StoreInv'
<1> DEFINE q == sess[s].req
<1>1. Done(s) /\ shop' = shop /\ items' = items
  BY DEF CommitCategory
<1>2. TypeOK /\ ListedWasVerified /\ RowsFit
  BY DEF StoreInv
<1>3. ASSUME NEW c \in Categories
      PROVE  /\ categories[c].at # "unused" => categories'[c].at # "unused"
             /\ \/ categories'[c].at = categories[c].at
                \/ categories[c].at # "unused"
                \/ q.kind = "create_category" /\ q.category = c
  <2>1. CASE c # q.category
    BY <2>1, Filed
  <2>2. CASE c = q.category
    BY <2>2, Filed DEF CategoryKinds
  <2>. QED  BY <2>1, <2>2
<1>4. RowsFit'
  BY <1>1, <1>2, <1>3 DEF RowsFit
<1>5. /\ shop' \in Restaurant /\ ListedWasVerified' /\ (shop.verified => shop'.verified)
      /\ items' \in [Items -> MenuItem] /\ \A i : items'[i] = items[i]
  BY <1>1, <1>2 DEF TypeOK, ListedWasVerified
<1>6. categories' \in [Categories -> MenuCategory]
  BY Filed
<1>. QED
  BY <1>1, <1>3, <1>4, <1>5, <1>6, CommitStep

LEMMA CreateInv ==
  ASSUME StoreInv, NEW s \in Sessions, NEW q \in Requests, CreateRestaurant(s, q)
  PROVE  StoreInv'
<1> DEFINE new == [NoShop EXCEPT !.approval_status = "DRAFT"]
<1>1. /\ shop = NoShop /\ shop' = new
      /\ categories' = categories /\ items' = items /\ sess' = sess
  BY DEF CreateRestaurant
<1>2. /\ new \in Restaurant /\ new.approval_status = "DRAFT"
      /\ NoShop.verified = FALSE
  BY DEF NoShop, Restaurant, ApprovalStatus
<1>. HIDE DEF new
<1>3. TypeOK' /\ ListedWasVerified' /\ InsertsDiffer' /\ RowsFit'
  BY <1>1, <1>2 DEF StoreInv, TypeOK, ListedWasVerified, InsertsDiffer, RowsFit
<1>4. SessionsFit'
  <2>1. SUFFICES ASSUME NEW t \in Sessions
                 PROVE  Fit(sess[t])'
    BY DEF SessionsFit
  <2>2. Fit(sess[t]) /\ ~shop.verified
    BY <1>1, <1>2 DEF StoreInv, SessionsFit
  <2>. QED  BY <1>1, <2>2 DEF Fit
<1>. QED
  BY <1>3, <1>4 DEF StoreInv

\* Nothing but the session changes.
ReadOnly == shop' = shop /\ categories' = categories /\ items' = items

LEMMA ReadsChangeNothing ==
  ASSUME NEW s \in Sessions,
         \/ \E q \in Requests : LoadRestaurant(s, q) \/ VerifyRestaurantOwner(s, q)
         \/ LoadItem(s) \/ LoadCategory(s) \/ CheckNewCategory(s) \/ CountItems(s)
         \/ Abort(s)
  PROVE  ReadOnly
BY DEF LoadRestaurant, VerifyRestaurantOwner, LoadItem, LoadCategory, CheckNewCategory,
       CountItems, Abort, Fail, Step, ReadOnly

\* The steps: a read, the creation of the restaurant, or one of the three commits.
LEMMA KindsOfStep ==
  ASSUME Next
  PROVE  \/ ReadOnly
         \/ \E s \in Sessions : \E q \in Requests : CreateRestaurant(s, q)
         \/ \E s \in Sessions : CommitDecision(s) \/ CommitCategory(s) \/ CommitItem(s)
BY ReadsChangeNothing DEF Next

LEMMA StoreInit == Init => StoreInv
<1>1. SUFFICES ASSUME Init
               PROVE  StoreInv
  OBVIOUS
<1>2. /\ shop = NoShop /\ categories = [c \in Categories |-> UnusedCategory]
      /\ items = [i \in Items |-> UnusedItem] /\ sess = [s \in Sessions |-> Idle]
  BY <1>1 DEF Init
<1>3. /\ NoShop \in Restaurant /\ NoShop.approval_status = "NONE"
      /\ UnusedCategory \in MenuCategory
      /\ UnusedItem \in MenuItem /\ UnusedItem.at = "unused" /\ UnusedItem.is_available
  BY DEF NoShop, Restaurant, ApprovalStatus, UnusedCategory, MenuCategory, Life,
         UnusedItem, MenuItem
<1>4. TypeOK
  BY <1>2, <1>3, IdleFits DEF TypeOK
<1>5. ListedWasVerified /\ RowsFit
  BY <1>2, <1>3 DEF ListedWasVerified, RowsFit
<1>6. SessionsFit /\ InsertsDiffer
  BY <1>2, IdleFits DEF SessionsFit, InsertsDiffer
<1>. QED
  BY <1>4, <1>5, <1>6 DEF StoreInv

LEMMA StoreNext == StoreInv /\ [Next]_vars => StoreInv'
<1>1. SUFFICES ASSUME StoreInv, [Next]_vars
               PROVE  StoreInv'
  OBVIOUS
<1>2. CASE UNCHANGED vars
  BY <1>1, <1>2 DEF vars, StoreInv, TypeOK, ListedWasVerified, SessionsFit, Fit,
                    InsertsDiffer, RowsFit
<1>3. CASE Next
  <2>1. PICK s \in Sessions :
          \/ \E q \in Requests :
               LoadRestaurant(s, q) \/ CreateRestaurant(s, q) \/ VerifyRestaurantOwner(s, q)
          \/ LoadItem(s) \/ LoadCategory(s) \/ CheckNewCategory(s) \/ CountItems(s)
          \/ CommitDecision(s) \/ CommitCategory(s) \/ CommitItem(s)
          \/ Abort(s)
    BY <1>3 DEF Next
  <2>. QED
    BY <1>1, <2>1, RestaurantInv, CreateInv, VerifyInv, ReadInv, DecisionInv,
       CategoryInv, ItemInv, FailStep DEF Abort
<1>. QED
  BY <1>1, <1>2, <1>3

LEMMA StoreInvariant == Spec => []StoreInv
<1>. QED
  BY StoreInit, StoreNext, PTL DEF Spec

\* Whatever requests overlap, the rows and the sessions have their types.
THEOREM StorefrontTypeCorrect == Spec => []TypeOK
<1>1. StoreInv => TypeOK
  BY DEF StoreInv
<1>. QED
  BY <1>1, StoreInvariant, PTL

\* However many admins and owners decide at once, a restaurant that is listed, or
\* was and is suspended, has been verified by an admin.
THEOREM VerifiedCorrect == Spec => []ListedWasVerified
<1>1. StoreInv => ListedWasVerified
  BY DEF StoreInv
<1>. QED
  BY <1>1, StoreInvariant, PTL

-----------------------------------------------------------------------------
(* Checks that are still true at the commit                                 *)

LEMMA DecisionsMove ==
  ASSUME StoreInv, NEW s \in Sessions, CommitDecision(s), ~Outdated(s),
         shop'.approval_status # shop.approval_status
  PROVE  MovesTo(shop.approval_status, shop'.approval_status)
<1> DEFINE k == sess[s].req.kind
<1>1. k \in DecisionKinds /\ shop'.approval_status = Target(k)
  BY Decided
<1>2. sess[s].pc = "commit" /\ Fit(sess[s])
  BY Decided DEF StoreInv, SessionsFit
<1>3. sess[s].shop.approval_status \in AllowedFrom(k)
  BY <1>1, <1>2 DEF Fit
<1>4. sess[s].shop.approval_status = shop.approval_status
  BY <1>1, <1>2 DEF Outdated, At
<1>. QED
  BY <1>1, <1>3, <1>4 DEF MovesTo

LEMMA ItemsKeepCategories ==
  ASSUME StoreInv, NEW s \in Sessions, CommitItem(s), ~Outdated(s)
  PROVE  Orphans' \subseteq Orphans
<1> DEFINE q == sess[s].req
<1>1. SUFFICES ASSUME NEW i \in Items, items'[i].at = "live",
                      items'[i].category \in Categories,
                      categories'[items'[i].category].at # "live"
               PROVE  i \in Orphans
  BY DEF Orphans
<1>2. categories' = categories
  BY DEF CommitItem
<1>3. q.kind \in {"create_item", "update_item"} /\ sess[s].category.at = "live" =>
        categories[q.category].at = "live"
  BY Stored DEF Outdated, At
<1>4. CASE i # q.item
  BY <1>1, <1>2, <1>4, Stored DEF Orphans
<1>5. CASE i = q.item /\ q.kind = "create_item"
  BY <1>1, <1>2, <1>3, <1>5, Stored
<1>6. CASE i = q.item /\ q.kind \in {"update_item", "toggle_item"}
  BY <1>1, <1>2, <1>3, <1>6, Stored DEF Orphans
<1>7. CASE i = q.item /\ q.kind = "delete_item"
  BY <1>1, <1>7, Stored
<1>. QED
  BY <1>4, <1>5, <1>6, <1>7, Stored DEF ItemKinds

LEMMA CategoriesKeepItems ==
  ASSUME StoreInv, NEW s \in Sessions, CommitCategory(s), ~Outdated(s)
  PROVE  Orphans' \subseteq Orphans
<1> DEFINE q == sess[s].req
<1>1. SUFFICES ASSUME NEW i \in Items, items'[i].at = "live",
                      items'[i].category \in Categories,
                      categories'[items'[i].category].at # "live"
               PROVE  i \in Orphans
  BY DEF Orphans
<1>2. items' = items
  BY DEF CommitCategory
<1>3. CASE items[i].category # q.category
  BY <1>1, <1>2, <1>3, Filed DEF Orphans
<1>4. CASE items[i].category = q.category
  <2>1. CASE q.kind = "create_category"
    BY <1>1, <1>2, <1>4, <2>1, Filed
  <2>2. CASE q.kind = "update_category"
    BY <1>1, <1>2, <1>4, <2>2, Filed DEF Orphans
  <2>3. CASE q.kind = "delete_category"
    <3>1. ItemsIn(q.category) = {}
      BY <2>3, Filed DEF Outdated, At
    <3>. QED  BY <1>1, <1>2, <1>4, <3>1 DEF ItemsIn
  <2>. QED  BY <2>1, <2>2, <2>3, Filed DEF CategoryKinds
<1>. QED
  BY <1>3, <1>4

LEMMA ChecksStep ==
  StoreInv /\ [Next]_vars =>
    [\/ /\ Orphans' \subseteq Orphans
        /\ shop'.approval_status # shop.approval_status =>
             MovesTo(shop.approval_status, shop'.approval_status)
     \/ \E s \in Sessions : Outdated(s) /\ sess'[s] = Idle]_vars
<1>1. SUFFICES ASSUME StoreInv, Next
               PROVE  \/ /\ Orphans' \subseteq Orphans
                         /\ shop'.approval_status # shop.approval_status =>
                              MovesTo(shop.approval_status, shop'.approval_status)
                      \/ \E s \in Sessions : Outdated(s) /\ sess'[s] = Idle
  OBVIOUS
<1>2. CASE ReadOnly
  BY <1>2 DEF ReadOnly, Orphans
<1>3. CASE \E s \in Sessions : \E q \in Requests : CreateRestaurant(s, q)
  <2>1. /\ shop = NoShop /\ shop' = [NoShop EXCEPT !.approval_status = "DRAFT"]
        /\ categories' = categories /\ items' = items
    BY <1>3 DEF CreateRestaurant
  <2>2. shop.approval_status = "NONE" /\ shop'.approval_status = "DRAFT"
    BY <2>1 DEF NoShop
  <2>. QED  BY <2>1, <2>2 DEF Orphans, MovesTo
<1>4. ASSUME NEW s \in Sessions, CommitDecision(s) \/ CommitCategory(s) \/ CommitItem(s)
      PROVE  \/ /\ Orphans' \subseteq Orphans
                /\ shop'.approval_status # shop.approval_status =>
                     MovesTo(shop.approval_status, shop'.approval_status)
             \/ Outdated(s) /\ sess'[s] = Idle
  <2>1. sess'[s] = Idle
    BY <1>1, <1>4 DEF CommitDecision, CommitCategory, CommitItem, Done, StoreInv, TypeOK
  <2>2. CASE CommitDecision(s)
    <3>1. Orphans' = Orphans
      BY <2>2 DEF CommitDecision, Orphans
    <3>. QED  BY <1>1, <2>1, <2>2, <3>1, DecisionsMove
  <2>3. CASE CommitCategory(s)
    BY <1>1, <2>1, <2>3, CategoriesKeepItems DEF CommitCategory
  <2>4. CASE CommitItem(s)
    BY <1>1, <2>1, <2>4, ItemsKeepCategories DEF CommitItem
  <2>. QED  BY <1>4, <2>2, <2>3, <2>4
<1>. QED
  BY <1>1, <1>2, <1>3, <1>4, KindsOfStep

\* For any number of categories, items and overlapping requests, only a commit whose
\* check was overtaken takes an item's category away or breaks the approval table.
THEOREM ChecksCorrect == Spec => OnlyOutdatedChecksHarm
<1>. QED
  BY ChecksStep, StoreInvariant, PTL DEF Spec, OnlyOutdatedChecksHarm

-----------------------------------------------------------------------------
(* Writes of others                                                         *)

LEMMA DecisionsTakeNothingBack ==
  ASSUME StoreInv, NEW s \in Sessions, CommitDecision(s)
  PROVE  /\ items' = items /\ categories' = categories
         /\ \A i \in PublicMenu' \ PublicMenu : PutsOnMenu(s, i)
         /\ ~shop.is_open /\ shop'.is_open => AssignedOpen(sess[s].req) = TRUE
<1> DEFINE k == sess[s].req.kind
<1>1. items' = items /\ categories' = categories
  BY DEF CommitDecision
<1>2. ASSUME NEW i \in PublicMenu' \ PublicMenu
      PROVE  PutsOnMenu(s, i)
  <2>1. shop.approval_status # "APPROVED" /\ shop'.approval_status = "APPROVED"
    BY <1>1, <1>2 DEF PublicMenu, Listed, ShownCategory
  <2>2. sess[s].pc = "commit" /\ k \in DecisionKinds /\ Target(k) = "APPROVED"
        /\ k # "update"
    BY <2>1, Decided
  <2>3. k \in {"approve", "activate"}
    BY <2>2 DEF Target, DecisionKinds
  <2>. QED  BY <2>2, <2>3 DEF PutsOnMenu, At
<1>3. ASSUME ~shop.is_open, shop'.is_open
      PROVE  AssignedOpen(sess[s].req) = TRUE
  <2>1. shop' \in Restaurant
    BY Decided
  <2>2. shop'.is_open \in BOOLEAN
    BY <2>1 DEF Restaurant
  <2>3. \/ shop'.is_open = shop.is_open
        \/ shop'.is_open = AssignedOpen(sess[s].req)
    BY Decided
  <2>. QED  BY <1>3, <2>2, <2>3, Zenon
<1>. QED
  BY <1>1, <1>2, <1>3

LEMMA ItemsTakeNothingBack ==
  ASSUME StoreInv, NEW s \in Sessions, CommitItem(s)
  PROVE  /\ shop' = shop /\ categories' = categories
         /\ \A i \in Items : items[i].at = "deleted" => items'[i].at = "deleted"
         /\ \A i \in Items : ~items[i].is_available /\ items'[i].is_available =>
              /\ At(s, "commit", {"update_item", "toggle_item"})
              /\ sess[s].req.item = i /\ sess[s].req.value = TRUE
         /\ \A i \in PublicMenu' \ PublicMenu : PutsOnMenu(s, i)
<1> DEFINE q == sess[s].req
<1>1. shop' = shop /\ categories' = categories
  BY DEF CommitItem
<1>2. TypeOK /\ Fit(sess[s]) /\ RowsFit
  BY DEF StoreInv, SessionsFit
<1>3. /\ sess[s].pc = "commit" /\ q.kind \in ItemKinds \cup {"create_item"}
      /\ q.item \in Items /\ items' \in [Items -> MenuItem]
      /\ \A i \in Items \ {q.item} : items'[i] = items[i]
  BY Stored
<1>4. q.kind = "create_item" => items[q.item].at = "unused" /\ items[q.item].is_available
  BY <1>2, <1>3 DEF Fit, RowsFit
<1>5. ASSUME NEW i \in Items, items[i].at = "deleted"
      PROVE  items'[i].at = "deleted"
  <2>1. CASE i # q.item
    BY <1>3, <1>5, <2>1
  <2>2. CASE i = q.item
    BY <1>3, <1>4, <1>5, <2>2, Stored DEF ItemKinds
  <2>. QED  BY <2>1, <2>2
<1>6. ASSUME NEW i \in Items, ~items[i].is_available, items'[i].is_available
      PROVE  /\ At(s, "commit", {"update_item", "toggle_item"})
             /\ q.item = i /\ q.value = TRUE
  <2>1. i = q.item
    BY <1>3, <1>6
  <2>2. q.kind # "create_item"
    BY <1>4, <1>6, <2>1
  <2>3. q.kind # "delete_item"
    <3>1. q.kind = "delete_item" => items'[i].is_available = items[i].is_available
      BY <2>1, Stored
    <3>. QED  BY <1>6, <3>1, Zenon
  <2>4. q.kind \in {"update_item", "toggle_item"}
    BY <1>3, <2>2, <2>3 DEF ItemKinds
  <2>5. \/ items'[i].is_available = items[i].is_available
        \/ items'[i].is_available = q.value
    BY <2>1, <2>4, Stored
  <2>6. items'[i].is_available \in BOOLEAN
    BY <1>3 DEF MenuItem
  <2>7. q.value = TRUE
    BY <1>6, <2>5, <2>6, Zenon
  <2>. QED  BY <1>3, <2>1, <2>4, <2>7 DEF At
<1>7. ASSUME NEW i \in PublicMenu' \ PublicMenu
      PROVE  PutsOnMenu(s, i)
  <2>1. i \in Items /\ items'[i].at = "live" /\ items'[i] # items[i]
    BY <1>1, <1>7 DEF PublicMenu, Listed, ShownCategory
  <2>2. i = q.item
    BY <1>3, <2>1
  <2>3. q.kind # "delete_item"
    BY <2>1, <2>2, Stored
  <2>. QED  BY <1>3, <2>2, <2>3 DEF PutsOnMenu, At, ItemKinds
<1>. QED
  BY <1>1, <1>5, <1>6, <1>7

LEMMA CategoriesTakeNothingBack ==
  ASSUME StoreInv, NEW s \in Sessions, CommitCategory(s)
  PROVE  /\ shop' = shop /\ items' = items
         /\ \A c \in Categories :
              categories[c].at = "deleted" => categories'[c].at = "deleted"
         /\ \A i \in PublicMenu' \ PublicMenu : PutsOnMenu(s, i)
<1> DEFINE q == sess[s].req
<1>1. shop' = shop /\ items' = items
  BY DEF CommitCategory
<1>2. RowsFit
  BY DEF StoreInv
<1>3. /\ sess[s].pc = "commit" /\ q.kind \in CategoryKinds \cup {"create_category"}
      /\ q.category \in Categories
      /\ \A c \in Categories \ {q.category} : categories'[c] = categories[c]
  BY Filed
<1>4. ASSUME NEW c \in Categories, categories[c].at = "deleted"
      PROVE  categories'[c].at = "deleted"
  <2>1. CASE c # q.category
    BY <1>3, <1>4, <2>1
  <2>2. CASE c = q.category
    BY <1>3, <1>4, <2>2, Filed DEF CategoryKinds
  <2>. QED  BY <2>1, <2>2
<1>5. ASSUME NEW i \in PublicMenu' \ PublicMenu
      PROVE  PutsOnMenu(s, i)
  <2> DEFINE c == items[i].category
  <2>1. /\ i \in Items /\ items[i].at = "live" /\ c \in Categories
        /\ categories'[c].at = "live" /\ categories'[c] # categories[c]
    BY <1>1, <1>5 DEF PublicMenu, Listed, ShownCategory
  <2>2. c = q.category /\ categories[c].at # "unused"
    BY <1>2, <1>3, <2>1 DEF RowsFit
  <2>3. q.kind = "update_category"
    BY <1>3, <2>1, <2>2, Filed DEF CategoryKinds
  <2>. QED  BY <1>3, <2>2, <2>3 DEF PutsOnMenu, At
<1>. QED
  BY <1>1, <1>4, <1>5

LEMMA WritesStep ==
  StoreInv /\ [Next]_vars =>
    [/\ \A i \in Items : items[i].at = "deleted" => items'[i].at = "deleted"
     /\ \A c \in Categories : categories[c].at = "deleted" => categories'[c].at = "deleted"
     /\ \A i \in Items : ~items[i].is_available /\ items'[i].is_available =>
          \E s \in Sessions : /\ At(s, "commit", {"update_item", "toggle_item"})
                              /\ sess[s].req.item = i /\ sess[s].req.value = TRUE
     /\ \A i \in PublicMenu' \ PublicMenu : \E s \in Sessions : PutsOnMenu(s, i)
     /\ ~shop.is_open /\ shop'.is_open =>
          \E s \in Sessions : /\ sess[s].pc = "commit"
                              /\ AssignedOpen(sess[s].req) = TRUE]_vars
<1>. SUFFICES ASSUME StoreInv, Next
              PROVE
     /\ \A i \in Items : items[i].at = "deleted" => items'[i].at = "deleted"
     /\ \A c \in Categories : categories[c].at = "deleted" => categories'[c].at = "deleted"
     /\ \A i \in Items : ~items[i].is_available /\ items'[i].is_available =>
          \E s \in Sessions : /\ At(s, "commit", {"update_item", "toggle_item"})
                              /\ sess[s].req.item = i /\ sess[s].req.value = TRUE
     /\ \A i \in PublicMenu' \ PublicMenu : \E s \in Sessions : PutsOnMenu(s, i)
     /\ ~shop.is_open /\ shop'.is_open =>
          \E s \in Sessions : /\ sess[s].pc = "commit"
                              /\ AssignedOpen(sess[s].req) = TRUE
  OBVIOUS
<1>2. CASE ReadOnly
  <2>1. PublicMenu' = PublicMenu
    BY <1>2 DEF ReadOnly, PublicMenu, Listed, ShownCategory
  <2>. QED  BY <1>2, <2>1 DEF ReadOnly
<1>3. CASE \E s \in Sessions : \E q \in Requests : CreateRestaurant(s, q)
  <2>1. /\ shop' = [NoShop EXCEPT !.approval_status = "DRAFT"]
        /\ categories' = categories /\ items' = items
    BY <1>3 DEF CreateRestaurant
  <2>2. shop'.approval_status # "APPROVED" /\ ~shop'.is_open
    BY <2>1 DEF NoShop
  <2>3. PublicMenu' = {}
    BY <2>2 DEF PublicMenu, Listed
  <2>. QED  BY <2>1, <2>2, <2>3
<1>4. CASE \E s \in Sessions : CommitDecision(s)
  BY <1>4, Decided, DecisionsTakeNothingBack
<1>5. CASE \E s \in Sessions : CommitCategory(s)
  BY <1>5, CategoriesTakeNothingBack
<1>6. CASE \E s \in Sessions : CommitItem(s)
  BY <1>6, ItemsTakeNothingBack
<1>. QED
  BY <1>2, <1>3, <1>4, <1>5, <1>6, KindsOfStep

\* For any number of overlapping requests, nothing deleted comes back, and nothing
\* comes back on sale, onto the menu or open but by a request that says so.
THEOREM WritesCorrect == Spec => OthersWritesStay
<1>. QED
  BY WritesStep, StoreInvariant, PTL DEF Spec, OthersWritesStay
=============================================================================
