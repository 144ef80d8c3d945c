----------------------------- MODULE Storefront -----------------------------
(***************************************************************************)
(* One restaurant as its owner and the admins keep it: its approval        *)
(* (RestaurantService) and its menu (MenuService), each request in a       *)
(* database session of its own.                                            *)
(*                                                                         *)
(* No handler locks what it reads.  Each loads rows, decides on them and   *)
(* writes, in one flush at the end, the columns whose values it changed;   *)
(* an UPDATE waits for another's uncommitted UPDATE of the row and then    *)
(* applies to whatever the row has become.  The flush and the commit are   *)
(* therefore one step, and what can go wrong is that a check is no longer  *)
(* true when its consequence is written.                                   *)
(***************************************************************************)
EXTENDS Naturals, FiniteSets

CONSTANTS
  Categories, \* ids of menu_categories rows; bounds the categories ever created
  Items,      \* ids of menu_items rows
  Sessions,   \* concurrent HTTP requests
  NoCategory, NoItem,
  Keep        \* a field that is not sent, a column that is not written

ASSUME StorefrontAssumption ==
  /\ NoCategory \notin Categories /\ NoItem \notin Items
  /\ Keep \notin Categories /\ Keep \notin BOOLEAN

VARIABLES
  shop,       \* committed restaurants row
  categories, \* committed menu_categories rows
  items,      \* committed menu_items rows
  sess        \* per session: program counter, request, what it loaded

vars == <<shop, categories, items, sess>>

ApprovalStatus ==
  {"NONE", "DRAFT", "PENDING_APPROVAL", "APPROVED", "REJECTED", "SUSPENDED"}

\* NONE: no row yet.  verified: verified_at and verified_by are set, reason:
\* rejection_reason is set.
Restaurant == [approval_status: ApprovalStatus, is_open: BOOLEAN,
               verified: BOOLEAN, reason: BOOLEAN]

Life == {"unused", "live", "deleted"}

MenuCategory == [at: Life, is_active: BOOLEAN]

MenuItem == [at: Life, category: Categories \cup {NoCategory}, is_available: BOOLEAN]

\* The requests of each router; value is the flag sent, category the category an
\* item is put into.
Request(kinds, cats, its, values) ==
  [kind: kinds, category: cats, item: its, value: values]

AdminRequests ==
  Request({"approve", "reject", "suspend", "activate"}, {NoCategory}, {NoItem}, {Keep})

OwnerRequests ==
  Request({"create", "submit"}, {NoCategory}, {NoItem}, {Keep})
    \cup Request({"update"}, {NoCategory}, {NoItem}, BOOLEAN)

MenuRequests ==
  Request({"delete_category"}, Categories, {NoItem}, {Keep})
    \cup Request({"create_category", "update_category"}, Categories, {NoItem}, BOOLEAN)
    \cup Request({"create_item"}, Categories, Items, BOOLEAN)
    \cup Request({"update_item"}, Categories \cup {Keep}, Items, BOOLEAN \cup {Keep})
    \cup Request({"toggle_item"}, {Keep}, Items, BOOLEAN)
    \cup Request({"delete_item"}, {Keep}, Items, {Keep})

Requests == AdminRequests \cup OwnerRequests \cup MenuRequests

NoRequest == [kind |-> "none", category |-> NoCategory, item |-> NoItem, value |-> Keep]

ItemKinds     == {"update_item", "toggle_item", "delete_item"}
CategoryKinds == {"update_category", "delete_category"}
DecisionKinds == {"submit", "approve", "reject", "suspend", "activate", "update"}

\* shop, category and item are the loaded objects.
Session == [pc: {"idle", "load", "check", "commit"}, req: Requests \cup {NoRequest},
            shop: Restaurant, category: MenuCategory, item: MenuItem]

NoShop == [approval_status |-> "NONE", is_open |-> FALSE,
           verified |-> FALSE, reason |-> FALSE]

UnusedCategory == [at |-> "unused", is_active |-> TRUE]

UnusedItem == [at |-> "unused", category |-> NoCategory, is_available |-> TRUE]

Idle == [pc |-> "idle", req |-> NoRequest, shop |-> NoShop,
         category |-> UnusedCategory, item |-> UnusedItem]

TypeOK ==
  /\ shop \in Restaurant
  /\ categories \in [Categories -> MenuCategory]
  /\ items \in [Items -> MenuItem]
  /\ sess \in [Sessions -> Session]

Init ==
  /\ shop = NoShop
  /\ categories = [c \in Categories |-> UnusedCategory]
  /\ items = [i \in Items |-> UnusedItem]
  /\ sess = [s \in Sessions |-> Idle]

-----------------------------------------------------------------------------
(* Sessions                                                                 *)

At(s, pc, kinds) == sess[s].pc = pc /\ sess[s].req.kind \in kinds

Step(s, local) ==
  /\ sess' = [sess EXCEPT ![s] = local]
  /\ UNCHANGED <<shop, categories, items>>

Fail(s) == Step(s, Idle)

Done(s) == sess' = [sess EXCEPT ![s] = Idle]

\* Mutant (for the checks only): a field that was not sent is written as null.
Written_Unsent(loaded, assigned, current) ==
  IF assigned = loaded THEN current ELSE assigned

\* A column is written if the value assigned is not the loaded one.
Written(loaded, assigned, current) ==
  IF assigned = Keep \/ assigned = loaded THEN current ELSE assigned

\* Two requests never insert a row of one id.
Free(kind, id) ==
  \A s \in Sessions : sess[s].req.kind = kind =>
    id \notin {sess[s].req.category, sess[s].req.item}

-----------------------------------------------------------------------------
(* RestaurantService                                                        *)

\* From which status each request may move the restaurant, and where to.
AllowedFrom(kind) ==
  CASE kind = "submit"   -> {"DRAFT", "REJECTED"}
    [] kind \in {"approve", "reject"} -> {"PENDING_APPROVAL"}
    [] kind = "suspend"  -> {"APPROVED"}
    [] kind = "activate" -> {"SUSPENDED"}
    [] OTHER             -> ApprovalStatus \ {"NONE"}

Target(kind) ==
  CASE kind = "submit"   -> "PENDING_APPROVAL"
    [] kind \in {"approve", "activate"} -> "APPROVED"
    [] kind = "reject"   -> "REJECTED"
    [] kind = "suspend"  -> "SUSPENDED"
    [] OTHER             -> Keep

LoadRestaurant(s, q) ==
  /\ sess[s].pc = "idle" /\ q.kind \in DecisionKinds
  /\ shop.approval_status \in AllowedFrom(q.kind)
  /\ Step(s, [Idle EXCEPT !.pc = "commit", !.req = q, !.shop = shop])

\* What each request assigns: the others leave the column alone.
AssignedOpen(q) ==
  CASE q.kind = "approve" -> TRUE
    [] q.kind = "suspend" -> FALSE
    [] q.kind = "update"  -> q.value
    [] OTHER              -> Keep

AssignedReason(q) ==
  CASE q.kind = "approve" -> FALSE
    [] q.kind = "reject"  -> TRUE
    [] OTHER              -> Keep

\* Mutant (for the checks only): an approval without verified_by.
CommitDecision_Unverified(s) ==
  LET q == sess[s].req  old == sess[s].shop IN
  /\ At(s, "commit", DecisionKinds)
  /\ shop' = [shop EXCEPT
       !.approval_status = Written(old.approval_status, Target(q.kind), @),
       !.is_open = Written(old.is_open, AssignedOpen(q), @),
       !.reason = Written(old.reason, AssignedReason(q), @)]
  /\ Done(s) /\ UNCHANGED <<categories, items>>

\* BaseRepository.update; verified_at is a new value each time.
CommitDecision(s) ==
  LET q == sess[s].req  old == sess[s].shop IN
  /\ At(s, "commit", DecisionKinds)
  /\ shop' = [shop EXCEPT
       !.approval_status = Written(old.approval_status, Target(q.kind), @),
       !.is_open = Written(old.is_open, AssignedOpen(q), @),
       !.verified = @ \/ q.kind \in {"approve", "reject"},
       !.reason = Written(old.reason, AssignedReason(q), @)]
  /\ Done(s) /\ UNCHANGED <<categories, items>>

CreateRestaurant(s, q) ==
  /\ sess[s].pc = "idle" /\ q.kind = "create"
  /\ shop = NoShop
  /\ shop' = [NoShop EXCEPT !.approval_status = "DRAFT"]
  /\ UNCHANGED <<categories, items, sess>>

-----------------------------------------------------------------------------
(* MenuService                                                              *)

\* _verify_restaurant_owner, the first thing every menu request does.
VerifyRestaurantOwner(s, q) ==
  /\ sess[s].pc = "idle" /\ q \in MenuRequests
  /\ shop.approval_status = "APPROVED"
  /\ q.kind = "create_category" =>
       categories[q.category].at = "unused" /\ Free(q.kind, q.category)
  /\ q.kind = "create_item" => items[q.item].at = "unused" /\ Free(q.kind, q.item)
  /\ Step(s, [Idle EXCEPT !.req = q,
                !.pc = IF q.kind = "create_category" THEN "commit" ELSE "load"])

\* A deleted row is not found.
LoadItem(s) ==
  LET q == sess[s].req IN
  /\ At(s, "load", ItemKinds)
  /\ items[q.item].at = "live"
  /\ Step(s, [sess[s] EXCEPT !.item = items[q.item],
                !.pc = IF q.category \in {Keep, items[q.item].category}
                       THEN "commit" ELSE "check"])

LoadCategory(s) ==
  LET c == sess[s].req.category IN
  /\ At(s, "load", CategoryKinds \cup {"create_item"})
  /\ categories[c].at = "live"
  /\ Step(s, [sess[s] EXCEPT !.category = categories[c],
                !.pc = IF sess[s].req.kind = "delete_category" THEN "check" ELSE "commit"])

\* Mutant (for the checks only): update_item takes any category id.
CheckNewCategory_Any(s) ==
  /\ At(s, "check", {"update_item"})
  /\ categories[sess[s].req.category].at # "unused"
  /\ Step(s, [sess[s] EXCEPT !.pc = "commit",
                             !.category = categories[sess[s].req.category]])

\* update_item verifies a new category.
CheckNewCategory(s) ==
  /\ At(s, "check", {"update_item"})
  /\ categories[sess[s].req.category].at = "live"
  /\ Step(s, [sess[s] EXCEPT !.pc = "commit",
                             !.category = categories[sess[s].req.category]])

ItemsIn(c) == {i \in Items : items[i].at = "live" /\ items[i].category = c}

\* delete_category: blocked if items exist.
CountItems(s) ==
  /\ At(s, "check", {"delete_category"})
  /\ ItemsIn(sess[s].req.category) = {}
  /\ Step(s, [sess[s] EXCEPT !.pc = "commit"])

\* The row that an update of the loaded category leaves.
UpdatedCategory(loaded, q, row) ==
  [row EXCEPT !.is_active = Written(loaded.is_active, q.value, row.is_active)]

CommitCategory(s) ==
  LET q == sess[s].req IN
  /\ At(s, "commit", CategoryKinds \cup {"create_category"})
  /\ categories' = [categories EXCEPT ![q.category] =
       CASE q.kind = "create_category" -> [at |-> "live", is_active |-> q.value]
         [] q.kind = "update_category" ->
              UpdatedCategory(sess[s].category, q, @)
         [] q.kind = "delete_category" -> [@ EXCEPT !.at = "deleted"]]
  /\ Done(s) /\ UNCHANGED <<shop, items>>

\* The row that an update of the loaded item leaves.
UpdatedItem(loaded, q, row) ==
  [row EXCEPT !.category = Written(loaded.category, q.category, row.category),
              !.is_available = Written(loaded.is_available, q.value, row.is_available)]

\* Mutant (for the checks only): merges the loaded object back as it was.
CommitItem_WholeRow(s) ==
  LET q == sess[s].req  old == sess[s].item IN
  /\ At(s, "commit", ItemKinds \cup {"create_item"})
  /\ items' = [items EXCEPT ![q.item] =
       CASE q.kind = "create_item" ->
              [at |-> "live", category |-> q.category, is_available |-> q.value]
         [] q.kind \in {"update_item", "toggle_item"} ->
              UpdatedItem(old, q, old)
         [] q.kind = "delete_item" -> [@ EXCEPT !.at = "deleted"]]
  /\ Done(s) /\ UNCHANGED <<shop, categories>>

CommitItem(s) ==
  LET q == sess[s].req  old == sess[s].item IN
  /\ At(s, "commit", ItemKinds \cup {"create_item"})
  /\ items' = [items EXCEPT ![q.item] =
       CASE q.kind = "create_item" ->
              [at |-> "live", category |-> q.category, is_available |-> q.value]
         [] q.kind \in {"update_item", "toggle_item"} ->
              UpdatedItem(old, q, @)
         [] q.kind = "delete_item" -> [@ EXCEPT !.at = "deleted"]]
  /\ Done(s) /\ UNCHANGED <<shop, categories>>

-----------------------------------------------------------------------------

\* A check fails, or the database or the process does.
Abort(s) == sess[s].pc # "idle" /\ Fail(s)

Next ==
  \E s \in Sessions :
    \/ \E q \in Requests :
         LoadRestaurant(s, q) \/ CreateRestaurant(s, q) \/ VerifyRestaurantOwner(s, q)
    \/ LoadItem(s) \/ LoadCategory(s) \/ CheckNewCategory(s) \/ CountItems(s)
    \/ CommitDecision(s) \/ CommitCategory(s) \/ CommitItem(s)
    \/ Abort(s)

Spec == Init /\ [][Next]_vars

-----------------------------------------------------------------------------
(* What the public sees                                                     *)

Listed == shop.approval_status = "APPROVED"

\* get_with_items
ShownCategory(c) == categories[c].at = "live" /\ categories[c].is_active

\* get_public_menu
PublicMenu ==
  {i \in Items : /\ Listed
                 /\ items[i].at = "live" /\ items[i].is_available
                 /\ items[i].category \in Categories /\ ShownCategory(items[i].category)}
=============================================================================
