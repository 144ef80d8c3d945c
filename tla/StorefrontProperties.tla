------------------------ MODULE StorefrontProperties ------------------------
(***************************************************************************)
(* What the unlocked handlers of Storefront keep, and what they lose when  *)
(* a check is no longer true at the commit.                                *)
(***************************************************************************)
EXTENDS Storefront

\* What s checked is no longer so: the status it decided on, the category it puts
\* an item into, the emptiness of the category it deletes.
Outdated(s) ==
  LET q == sess[s].req IN
  \/ At(s, "commit", DecisionKinds) /\ shop.approval_status # sess[s].shop.approval_status
  \/ /\ At(s, "commit", {"create_item", "update_item"})
     /\ sess[s].category.at = "live" /\ categories[q.category].at # "live"
  \/ At(s, "commit", {"delete_category"}) /\ ItemsIn(q.category) # {}

\* A live item in a category that is not: it is on no menu although nobody
\* deleted it.
Orphans == {i \in Items : /\ items[i].at = "live"
                          /\ items[i].category \in Categories
                          /\ categories[items[i].category].at # "live"}

\* The approval table.
MovesTo(a, b) ==
  \/ a = "NONE" /\ b = "DRAFT"
  \/ \E k \in DecisionKinds : a \in AllowedFrom(k) /\ b = Target(k)

\* The checks suffice as long as they are still true at the commit: an item
\* loses its category, and an approval status moves off its table, only by a
\* commit whose check was overtaken.
OnlyOutdatedChecksHarm ==
  [][\/ /\ Orphans' \subseteq Orphans
        /\ shop'.approval_status # shop.approval_status =>
             MovesTo(shop.approval_status, shop'.approval_status)
     \/ \E s \in Sessions : Outdated(s) /\ sess'[s] = Idle]_vars

\* A restaurant is listed only after an admin has verified it: in whatever order
\* decisions overlap, an approved or suspended restaurant is a verified one.
ListedWasVerified ==
  shop.approval_status \in {"APPROVED", "SUSPENDED"} => shop.verified

\* The requests that may put i on the public menu.
PutsOnMenu(s, i) ==
  LET q == sess[s].req IN
  \/ At(s, "commit", {"approve", "activate"})
  \/ At(s, "commit", {"update_category"}) /\ q.category = items[i].category
  \/ At(s, "commit", {"create_item", "update_item", "toggle_item"}) /\ q.item = i

\* A request takes back nothing that another did to other columns of the row: what
\* is deleted stays deleted, an item taken off returns only by a request that says
\* so, a closed shop opens only by one that opens it, and nothing comes onto the
\* public menu through a request about something else.
OthersWritesStay ==
  [][/\ \A i \in Items : items[i].at = "deleted" => items'[i].at = "deleted"
     /\ \A c \in Categories : categories[c].at = "deleted" => categories'[c].at = "deleted"
     /\ \A i \in Items : ~items[i].is_available /\ items'[i].is_available =>
          \E s \in Sessions : /\ At(s, "commit", {"update_item", "toggle_item"})
                              /\ sess[s].req.item = i /\ sess[s].req.value = TRUE
     /\ \A i \in PublicMenu' \ PublicMenu : \E s \in Sessions : PutsOnMenu(s, i)
     /\ ~shop.is_open /\ shop'.is_open =>
          \E s \in Sessions : /\ sess[s].pc = "commit"
                              /\ AssignedOpen(sess[s].req) = TRUE]_vars

\* A category that contains items is not deleted.
NoOrphans == Orphans = {}
=============================================================================
