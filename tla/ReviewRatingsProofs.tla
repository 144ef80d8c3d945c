------------------------ MODULE ReviewRatingsProofs ------------------------
(***************************************************************************)
(* For any number of orders, ratings and overlapping requests: the rating  *)
(* follows the visible reviews, edits keep what others wrote, and only new *)
(* reviews wait for each other in a cycle.                                 *)
(*                                                                         *)
(* The rating is never computed here: a commit outside the lock leaves the *)
(* ratings that count as they are (SameShown), so what a session counted   *)
(* under the lock stays the rating of what its own commit leaves.          *)
(***************************************************************************)
EXTENDS ReviewRatingsProperties, FiniteSetTheorems, TLAPS

-----------------------------------------------------------------------------
(* Types                                                                    *)

\* What a session record holds.
LEMMA Loaded ==
  ASSUME TypeOK, NEW s \in Sessions
  PROVE  /\ sess[s] \in Session /\ sess[s].patch \in Patch
         /\ sess[s].req \in Requests \cup {NoRequest}
         /\ sess[s].restaurant \in Aggregate \cup {NoTally}
         /\ sess[s].tally \in Aggregate \cup {NoTally}
BY DEF TypeOK, Session

\* What each kind of request asks for.
LEMMA RequestsType ==
  ASSUME NEW q \in Requests
  PROVE  /\ q.order \in Orders
         /\ q.kind \in {"create", "update", "delete", "reply", "moderate"}
         /\ q.kind = "create" => q.value \in Ratings
         /\ q.kind = "update" => q.value \in Ratings \cup {Keep}
         /\ q.kind = "moderate" => q.value \in BOOLEAN
BY DEF Requests, CustomerRequests, OwnerRequests, AdminRequests

LEMMA NothingType == Nothing \in Patch
BY DEF Nothing, Patch

LEMMA IdleType ==
  /\ Idle \in Session /\ Idle.pc = "idle" /\ Idle.req = NoRequest
  /\ Idle.wrote = FALSE /\ Idle.keyShare = FALSE /\ Idle.update = FALSE
  /\ Idle.restaurant = NoTally /\ Idle.tally = NoTally /\ Idle.patch = Nothing
BY NothingType DEF Idle, Session, PCs

LEMMA SetType ==
  ASSUME NEW row \in Row, NEW patch \in Patch
  PROVE  Set(row, patch) \in Row
BY DEF Set, Row, Patch

\* The rows that a commit by a session with these data leaves of rows.
SeenOver(rows, me) ==
  IF ~me.wrote THEN rows
  ELSE IF me.req.kind = "create"
       THEN [rows EXCEPT ![me.req.order] = me.patch]
       ELSE [rows EXCEPT ![me.req.order] = Set(rows[me.req.order], me.patch)]

LEMMA SeenIsSeenOver ==
  \A me : Seen(me) = SeenOver(reviews, me)
BY DEF Seen, SeenOver

LEMMA SeenAfter ==
  ASSUME NEW t
  PROVE  Seen(sess[t])' = SeenOver(reviews', sess'[t])
BY DEF Seen, SeenOver

\* A session that has written has a request for a row it may write.
LEMMA WriterFits ==
  ASSUME ReviewsInv, NEW s \in Sessions, sess[s].pc \in {"lock", "tally", "commit"}
  PROVE  /\ sess[s].req \in Requests /\ sess[s].req.order \in Orders
         /\ sess[s].req.kind \in {"create", "update", "reply", "moderate"}
         /\ sess[s].patch \in Patch
         /\ sess[s].req.kind = "create" =>
              sess[s].patch \in Row /\ reviews[sess[s].req.order] = NoReview
         /\ sess[s].req.kind # "create" => reviews[sess[s].req.order] \in Row
<1>1. /\ TypeOK /\ LocksFit(sess[s]) /\ CreateFits(sess[s]) /\ EditFits(sess[s])
      /\ sess[s].patch \in Patch
  BY Loaded DEF ReviewsInv, SessionsFit
<1>2. /\ sess[s].req \in Requests /\ sess[s].req.order \in Orders
      /\ sess[s].req.kind \in {"create", "update", "reply", "moderate"}
  BY <1>1, RequestsType DEF LocksFit
<1>3. reviews[sess[s].req.order] \in Row \cup {NoReview}
  BY <1>1, <1>2 DEF TypeOK, Tables
<1>. QED
  BY <1>1, <1>2, <1>3 DEF CreateFits, EditFits

LEMMA SeenType ==
  ASSUME ReviewsInv, NEW s \in Sessions
  PROVE  Seen(sess[s]) \in Tables
<1>1. reviews \in Tables /\ LocksFit(sess[s])
  BY DEF ReviewsInv, TypeOK, SessionsFit
<1>2. CASE ~sess[s].wrote
  BY <1>1, <1>2 DEF Seen
<1>3. CASE sess[s].wrote
  <2>1. sess[s].pc \in {"lock", "tally", "commit"}
    BY <1>1, <1>3 DEF LocksFit
  <2>2. CASE sess[s].req.kind = "create"
    BY <1>1, <1>3, <2>1, <2>2, WriterFits DEF Seen, Tables
  <2>3. CASE sess[s].req.kind # "create"
    <3>1. /\ Set(reviews[sess[s].req.order], sess[s].patch) \in Row
          /\ sess[s].req.order \in Orders
      BY <2>1, <2>3, WriterFits, SetType
    <3>. QED  BY <1>1, <1>3, <2>3, <3>1 DEF Seen, Tables
  <2>. QED  BY <2>2, <2>3
<1>. QED
  BY <1>2, <1>3

LEMMA DistributionType ==
  ASSUME NEW rows \in Tables
  PROVE  Distribution(rows) \in Aggregate
<1>1. /\ Distribution(rows).average \in {0} \cup {Distribution(r).average : r \in Tables}
      /\ Distribution(rows).total \in {0} \cup {Distribution(r).total : r \in Tables}
  OBVIOUS
<1>2. Distribution(rows) = [average |-> Distribution(rows).average,
                            total |-> Distribution(rows).total]
  BY DEF Distribution, Rating
<1>. QED
  BY <1>1, <1>2 DEF Aggregate

-----------------------------------------------------------------------------
(* Ratings that count                                                       *)

\* The same reviews, as far as the rating tells them apart.
SameShown(a, b) ==
  \A o \in Orders :
    /\ a[o] = NoReview <=> b[o] = NoReview
    /\ a[o] # NoReview => a[o].rating = b[o].rating /\ a[o].hidden = b[o].hidden

LEMMA SameRating ==
  ASSUME NEW a, NEW b, SameShown(a, b)
  PROVE  Distribution(a) = Distribution(b)
<1>1. Visible(a) = Visible(b)
  BY DEF SameShown, Visible
<1>2. \A o \in Visible(a) : a[o].rating = b[o].rating
  BY DEF SameShown, Visible
<1>3. Shown(a) = Shown(b)
  BY <1>1, <1>2 DEF Shown
<1>. QED
  BY <1>3 DEF Distribution

\* A session's own write hides a change of the rows below it as well.
LEMMA SeenSame ==
  ASSUME NEW a \in Tables, NEW b \in Tables, SameShown(a, b), NEW me,
         me.req.order \in Orders, me.patch \in Patch
  PROVE  SameShown(SeenOver(a, me), SeenOver(b, me))
<1> DEFINE o == me.req.order
<1>1. CASE ~me.wrote
  BY <1>1 DEF SeenOver
<1>2. CASE me.wrote /\ me.req.kind = "create"
  <2>1. /\ SeenOver(a, me) = [a EXCEPT ![o] = me.patch]
        /\ SeenOver(b, me) = [b EXCEPT ![o] = me.patch]
    BY <1>2 DEF SeenOver
  <2>. QED  BY <2>1 DEF SameShown, Tables
<1>3. CASE me.wrote /\ me.req.kind # "create"
  <2>1. /\ SeenOver(a, me) = [a EXCEPT ![o] = Set(a[o], me.patch)]
        /\ SeenOver(b, me) = [b EXCEPT ![o] = Set(b[o], me.patch)]
    BY <1>3 DEF SeenOver
  <2>2. CASE a[o] = NoReview
    <3>1. a[o] = b[o]
      BY <2>2 DEF SameShown
    <3>. QED  BY <2>1, <3>1 DEF SameShown, Tables
  <2>3. CASE a[o] # NoReview
    <3>1. /\ a[o] \in Row /\ b[o] \in Row
          /\ a[o].rating = b[o].rating /\ a[o].hidden = b[o].hidden
      BY <2>3 DEF SameShown, Tables
    <3>2. /\ Set(a[o], me.patch) \in Row /\ Set(b[o], me.patch) \in Row
          /\ Set(a[o], me.patch).rating = Set(b[o], me.patch).rating
          /\ Set(a[o], me.patch).hidden = Set(b[o], me.patch).hidden
      BY <3>1, SetType DEF Set
    <3>. QED  BY <2>1, <3>2, NoReviewAssumption DEF SameShown, Tables
  <2>. QED  BY <2>2, <2>3
<1>. QED
  BY <1>1, <1>2, <1>3

-----------------------------------------------------------------------------
(* Statements                                                               *)

\* The locks that session s would hold as local exclude nobody else's.
Admissible(s, local) ==
  \A t \in Others(s) :
    /\ ~(local.update /\ sess[t].update)
    /\ local.wrote /\ sess[t].wrote => local.req.order # sess[t].req.order

Fits(me) == LocksFit(me) /\ TallyFits(me) /\ CreateFits(me) /\ EditFits(me)

\* A statement that changes nothing but the session keeps the invariant if the
\* session's new record fits and its locks were free.
LEMMA LocalStep ==
  ASSUME ReviewsInv, NEW s \in Sessions, NEW local, local \in Session,
         Fits(local), Admissible(s, local), Step(s, local)
  PROVE  ReviewsInv'
<1>1. /\ sess' = [sess EXCEPT ![s] = local]
      /\ reviews' = reviews /\ aggregate' = aggregate
  BY DEF Step
<1>2. TypeOK /\ sess \in [Sessions -> Session]
  BY DEF ReviewsInv, TypeOK
<1>3. sess'[s] = local /\ \A t \in Others(s) : sess'[t] = sess[t]
  BY <1>1, <1>2 DEF Others
<1>4. TypeOK'
  BY <1>1, <1>2 DEF TypeOK
<1>5. LocksExclude'
  <2>1. SUFFICES ASSUME NEW u \in Sessions, NEW t \in Sessions, u # t
                 PROVE  /\ ~(sess'[u].update /\ sess'[t].update)
                        /\ sess'[u].wrote /\ sess'[t].wrote =>
                             sess'[u].req.order # sess'[t].req.order
    BY DEF LocksExclude, Others
  <2>2. CASE u = s
    BY <1>3, <2>1, <2>2 DEF Admissible, Others
  <2>3. CASE t = s
    BY <1>3, <2>1, <2>3 DEF Admissible, Others
  <2>4. CASE u # s /\ t # s
    BY <1>3, <2>1, <2>4 DEF ReviewsInv, LocksExclude, Others
  <2>. QED  BY <2>2, <2>3, <2>4
<1>6. SessionsFit'
  <2>1. SUFFICES ASSUME NEW t \in Sessions
                 PROVE  Fits(sess[t])'
    BY DEF SessionsFit, Fits
  <2>2. Fits(local) /\ \A u \in Others(s) : Fits(sess[u])
    BY DEF ReviewsInv, SessionsFit, Fits, Others
  <2>3. sess'[t] = local \/ (t \in Others(s) /\ sess'[t] = sess[t])
    BY <1>3 DEF Others
  <2>4. PICK me : sess'[t] = me /\ Fits(me)
    BY <2>2, <2>3
  <2>5. LocksFit(sess[t])'
    BY <2>4 DEF Fits, LocksFit, Recalculates
  <2>6. Seen(sess[t])' = Seen(me)
    BY <1>1, <2>4, SeenIsSeenOver, SeenAfter
  <2>7. TallyFits(sess[t])'
    BY <1>1, <2>4, <2>6 DEF Fits, TallyFits
  <2>8. CreateFits(sess[t])' /\ EditFits(sess[t])'
    BY <1>1, <2>4 DEF Fits, CreateFits, EditFits
  <2>. QED  BY <2>5, <2>7, <2>8 DEF Fits
<1>. QED
  BY <1>4, <1>5, <1>6 DEF ReviewsInv

LEMMA IdleFits == Fits(Idle)
<1>1. /\ NoRequest.kind = "none"
      /\ Idle.pc = "idle" /\ Idle.req = NoRequest
      /\ Idle.wrote = FALSE /\ Idle.keyShare = FALSE /\ Idle.update = FALSE
      /\ Idle.tally = NoTally
  BY IdleType DEF NoRequest
<1>. HIDE DEF Idle
<1>. QED
  BY <1>1 DEF Fits, LocksFit, TallyFits, CreateFits, EditFits

LEMMA FailStep ==
  ASSUME ReviewsInv, NEW s \in Sessions, Fail(s)
  PROVE  ReviewsInv'
<1>1. Admissible(s, Idle)
  BY IdleType DEF Admissible
<1>. QED
  BY <1>1, IdleFits, IdleType, LocalStep DEF Fail

\* A session that locks nothing more stays admissible.
LEMMA SameLocks ==
  ASSUME ReviewsInv, NEW s \in Sessions, NEW local, local.req.order = sess[s].req.order,
         local.wrote => sess[s].wrote, local.update => sess[s].update
  PROVE  Admissible(s, local)
BY DEF Admissible, ReviewsInv, LocksExclude

LEMMA NoLocks ==
  ASSUME NEW s, NEW local, ~local.wrote, ~local.update
  PROVE  Admissible(s, local)
BY DEF Admissible

\* A request begins with nothing locked.
LEMMA BeginInv ==
  ASSUME ReviewsInv, NEW s \in Sessions, NEW q \in Requests,
         \/ LoadOrder(s, q) \/ UpdateReview(s, q) \/ LoadForDelete(s, q)
         \/ ReplyToReview(s, q) \/ ModerateReview(s, q)
  PROVE  ReviewsInv'
<1>1. /\ q.order \in Orders
      /\ q.kind = "create" => q.value \in Ratings
      /\ q.kind = "update" => q.value \in Ratings \cup {Keep}
      /\ q.kind = "moderate" => q.value \in BOOLEAN
  BY RequestsType
<1>2. /\ reviews \in Tables /\ aggregate \in Aggregate
      /\ reviews[q.order] # NoReview => reviews[q.order] \in Row
  BY <1>1 DEF ReviewsInv, TypeOK, Tables
\* What the kinds of request have in common.
<1>3. ASSUME NEW local, local \in Session, local.req = q, Step(s, local),
             ~local.wrote, ~local.keyShare, ~local.update, local.tally = NoTally,
             local.pc \in {"check", "delete", "write"},
             local.pc = "check" <=> q.kind = "create",
             local.pc = "delete" <=> q.kind = "delete",
             CreateFits(local), EditFits(local)
      PROVE  ReviewsInv'
  <2>1. LocksFit(local) /\ TallyFits(local)
    BY <1>3 DEF LocksFit, TallyFits
  <2>. QED  BY <1>3, <2>1, NoLocks, LocalStep DEF Fits
<1>4. CASE LoadOrder(s, q)
  <2> DEFINE local == [[Idle EXCEPT !.pc = "check", !.restaurant = aggregate]
                         EXCEPT !.req = q]
  <2>1. q.kind = "create" /\ Step(s, local)
    BY <1>4 DEF LoadOrder, Begin
  <2>2. /\ local \in Session /\ local.pc = "check" /\ local.req = q
        /\ local.restaurant = aggregate /\ local.tally = NoTally
        /\ local.wrote = FALSE /\ local.keyShare = FALSE /\ local.update = FALSE
    BY <1>2, IdleType DEF Session, PCs
  <2>. HIDE DEF local
  <2>3. CreateFits(local) /\ EditFits(local)
    BY <1>2, <2>1, <2>2 DEF CreateFits, EditFits
  <2>. QED  BY <1>3, <2>1, <2>2, <2>3
<1>5. CASE LoadForDelete(s, q)
  <2> DEFINE local == [[Idle EXCEPT !.pc = "delete"] EXCEPT !.req = q]
  <2>1. q.kind = "delete" /\ Step(s, local)
    BY <1>5 DEF LoadForDelete, Begin
  <2>2. /\ local \in Session /\ local.pc = "delete" /\ local.req = q
        /\ local.tally = NoTally
        /\ local.wrote = FALSE /\ local.keyShare = FALSE /\ local.update = FALSE
    BY IdleType DEF Session, PCs
  <2>. HIDE DEF local
  <2>3. CreateFits(local) /\ EditFits(local)
    BY <2>1, <2>2 DEF CreateFits, EditFits
  <2>. QED  BY <1>3, <2>1, <2>2, <2>3
\* The edits, given what they assign.
<1>6. ASSUME NEW patch \in Patch, Assign(s, q, patch),
             q.kind \in {"update", "reply", "moderate"}, reviews[q.order] # NoReview,
             patch.rating # Keep => q.kind = "update" /\ q.value # Keep,
             patch.hidden # Keep => q.kind = "moderate",
             patch.replied \in {Keep, TRUE}, patch.edited \in {Keep, TRUE},
             q.kind = "update" /\ patch.edited = Keep => reviews[q.order].edited
      PROVE  ReviewsInv'
  <2> DEFINE local == [[Idle EXCEPT !.pc = "write", !.patch = patch] EXCEPT !.req = q]
  <2>1. Step(s, local)
    BY <1>6 DEF Assign, Begin
  <2>2. /\ local \in Session /\ local.pc = "write" /\ local.req = q
        /\ local.patch = patch /\ local.restaurant = NoTally /\ local.tally = NoTally
        /\ local.wrote = FALSE /\ local.keyShare = FALSE /\ local.update = FALSE
    BY IdleType DEF Session, PCs
  <2>. HIDE DEF local
  <2>3. CreateFits(local)
    BY <1>6, <2>2 DEF CreateFits
  <2>4. EditFits(local)
    BY <1>6, <2>2 DEF EditFits
  <2>. QED  BY <1>3, <1>6, <2>1, <2>2, <2>3, <2>4
<1>7. CASE UpdateReview(s, q)
  <2> DEFINE patch == [Nothing EXCEPT !.rating = Changed(reviews[q.order].rating, q.value),
                                      !.edited = Changed(reviews[q.order].edited, TRUE)]
  <2>1. /\ q.kind = "update" /\ reviews[q.order] # NoReview /\ Assign(s, q, patch)
    BY <1>7 DEF UpdateReview
  <2>2. /\ patch.rating = Changed(reviews[q.order].rating, q.value)
        /\ patch.edited = Changed(reviews[q.order].edited, TRUE)
        /\ patch.hidden = Keep /\ patch.replied = Keep
    BY DEF Nothing
  <2>3. Changed(reviews[q.order].edited, TRUE) \in {Keep, TRUE}
    BY DEF Changed
  <2>4. /\ Changed(reviews[q.order].rating, q.value) \in Ratings \cup {Keep}
        /\ q.value = Keep => Changed(reviews[q.order].rating, q.value) = Keep
    BY <1>1, <2>1 DEF Changed
  <2>5. patch \in Patch
    BY <2>3, <2>4 DEF Nothing, Patch
  <2>6. Keep # TRUE
    BY RatingsAssumption
  <2>7. patch.edited = Keep => reviews[q.order].edited
    BY <2>2, <2>6 DEF Changed
  <2>. HIDE DEF patch
  <2>. QED  BY <1>6, <2>1, <2>2, <2>3, <2>4, <2>5, <2>7
<1>8. CASE ReplyToReview(s, q)
  <2> DEFINE patch == [Nothing EXCEPT !.replied = TRUE]
  <2>1. q.kind = "reply" /\ reviews[q.order] # NoReview /\ Assign(s, q, patch)
    BY <1>8 DEF ReplyToReview, Visible
  <2>2. /\ patch \in Patch /\ patch.rating = Keep /\ patch.edited = Keep
        /\ patch.hidden = Keep /\ patch.replied = TRUE
    BY DEF Nothing, Patch
  <2>. HIDE DEF patch
  <2>. QED  BY <1>6, <2>1, <2>2
<1>9. CASE ModerateReview(s, q)
  <2> DEFINE patch == [Nothing EXCEPT
                         !.hidden = Changed(reviews[q.order].hidden, q.value)]
  <2>1. q.kind = "moderate" /\ reviews[q.order] # NoReview /\ Assign(s, q, patch)
    BY <1>9 DEF ModerateReview
  <2>2. Changed(reviews[q.order].hidden, q.value) \in BOOLEAN \cup {Keep}
    BY <1>1, <2>1 DEF Changed
  <2>3. /\ patch \in Patch /\ patch.rating = Keep /\ patch.edited = Keep
        /\ patch.replied = Keep
    BY <2>2 DEF Nothing, Patch
  <2>. HIDE DEF patch
  <2>. QED  BY <1>6, <2>1, <2>3
<1>. QED
  BY <1>4, <1>5, <1>7, <1>8, <1>9
\* A request goes on: it inserts or flushes its review, locks the restaurant and
\* counts.
LEMMA WorkInv ==
  ASSUME ReviewsInv, NEW s \in Sessions,
         \/ CheckDuplicate(s) \/ InsertReview(s) \/ DeleteReview(s)
         \/ FlushReview(s) \/ LockRestaurant(s) \/ Tally(s)
  PROVE  ReviewsInv'
<1>1. /\ sess[s] \in Session /\ LocksFit(sess[s]) /\ TallyFits(sess[s])
      /\ CreateFits(sess[s]) /\ EditFits(sess[s])
      /\ sess[s].pc # "idle" => sess[s].req \in Requests
  BY Loaded DEF ReviewsInv, SessionsFit, LocksFit
<1>2. aggregate \in Aggregate /\ reviews \in Tables
  BY DEF ReviewsInv, TypeOK
<1>3. CASE CheckDuplicate(s)
  <2> DEFINE row   == [rating |-> sess[s].req.value, hidden |-> FALSE,
                       edited |-> FALSE, replied |-> FALSE]
             local == [sess[s] EXCEPT !.pc = "write", !.patch = row]
  <2>1. sess[s].pc = "check" /\ sess[s].req.kind = "create" /\ Step(s, local)
    BY <1>3 DEF CheckDuplicate, At
  <2>2. row \in Row /\ row \in Patch
    BY <1>1, <2>1, RequestsType DEF Row, Patch
  <2>. HIDE DEF row
  <2>3. /\ local \in Session /\ local.pc = "write" /\ local.req = sess[s].req
        /\ local.patch = row /\ local.restaurant = sess[s].restaurant
        /\ local.tally = sess[s].tally
        /\ local.wrote = sess[s].wrote /\ local.keyShare = sess[s].keyShare
        /\ local.update = sess[s].update
    BY <1>1, <2>2 DEF Session, PCs
  <2>. HIDE DEF local
  <2>4. ~sess[s].wrote /\ ~sess[s].keyShare /\ ~sess[s].update
    BY <1>1, <2>1 DEF LocksFit
  <2>5. LocksFit(local) /\ TallyFits(local)
    BY <1>1, <2>1, <2>3, <2>4 DEF LocksFit, TallyFits
  <2>6. CreateFits(local) /\ EditFits(local)
    BY <1>1, <2>1, <2>2, <2>3 DEF CreateFits, EditFits
  <2>. QED  BY <2>1, <2>3, <2>4, <2>5, <2>6, NoLocks, LocalStep DEF Fits
<1>4. CASE InsertReview(s)
  <2> DEFINE local == [sess[s] EXCEPT !.pc = "lock", !.wrote = TRUE, !.keyShare = TRUE]
  <2>1. /\ sess[s].pc = "write" /\ sess[s].req.kind = "create" /\ Awaited(s) = {}
        /\ reviews[sess[s].req.order] = NoReview /\ Step(s, local)
    BY <1>4 DEF InsertReview, At
  <2>2. /\ local \in Session /\ local.pc = "lock" /\ local.req = sess[s].req
        /\ local.patch = sess[s].patch /\ local.restaurant = sess[s].restaurant
        /\ local.tally = sess[s].tally
        /\ local.wrote = TRUE /\ local.keyShare = TRUE
        /\ local.update = sess[s].update
    BY <1>1 DEF Session, PCs
  <2>. HIDE DEF local
  <2>3. sess[s].patch \in Row /\ ~sess[s].update
    BY <1>1, <2>1 DEF CreateFits, LocksFit
  <2>4. Writes(s)
    <3>1. sess[s].patch.rating # Nothing.rating
      BY <2>3, RatingsAssumption DEF Row, Nothing
    <3>. QED  BY <2>1, <3>1 DEF Writes
  <2>5. RowWriters(s) = {}
    BY <2>1, <2>4 DEF Awaited, RowWriters
  <2>6. Admissible(s, local)
    BY <2>2, <2>3, <2>5 DEF Admissible, RowWriters
  <2>7. LocksFit(local) /\ TallyFits(local)
    BY <1>1, <2>1, <2>2, <2>3 DEF LocksFit, TallyFits, Recalculates
  <2>8. CreateFits(local) /\ EditFits(local)
    BY <1>1, <2>1, <2>2, <2>3 DEF CreateFits, EditFits
  <2>. QED  BY <2>1, <2>2, <2>6, <2>7, <2>8, LocalStep DEF Fits
<1>5. CASE DeleteReview(s)
  BY <1>5, FailStep DEF DeleteReview
<1>6. CASE FlushReview(s)
  <2>1. PICK wrote \in {Writes(s), TRUE} :
          /\ wrote => RowWriters(s) = {}
          /\ Step(s, [sess[s] EXCEPT !.wrote = wrote,
                        !.pc = IF Recalculates(sess[s].req) THEN "lock" ELSE "commit"])
    BY <1>6 DEF FlushReview
  <2> DEFINE local == [sess[s] EXCEPT !.wrote = wrote,
                         !.pc = IF Recalculates(sess[s].req) THEN "lock" ELSE "commit"]
  <2>2. sess[s].pc = "write" /\ sess[s].req.kind \in {"update", "reply", "moderate"}
    BY <1>6 DEF FlushReview, At
  <2>3. wrote \in BOOLEAN
    BY DEF Writes
  <2>4. /\ local \in Session /\ local.req = sess[s].req
        /\ local.pc = IF Recalculates(sess[s].req) THEN "lock" ELSE "commit"
        /\ local.patch = sess[s].patch /\ local.restaurant = sess[s].restaurant
        /\ local.tally = sess[s].tally
        /\ local.wrote = wrote /\ local.keyShare = sess[s].keyShare
        /\ local.update = sess[s].update
    BY <1>1, <2>3 DEF Session, PCs
  <2>5. Step(s, local)
    BY <2>1
  <2>. HIDE DEF local
  <2>6. ~sess[s].update /\ ~sess[s].keyShare
    BY <1>1, <2>2 DEF LocksFit
  <2>7. Admissible(s, local)
    BY <2>1, <2>4, <2>6 DEF Admissible, RowWriters
  <2>8. LocksFit(local)
    BY <1>1, <2>2, <2>4, <2>6 DEF LocksFit
  <2>9. TallyFits(local)
    BY <1>1, <2>2, <2>4, <2>6 DEF TallyFits
  <2>10. CreateFits(local) /\ EditFits(local)
    BY <1>1, <2>2, <2>4 DEF CreateFits, EditFits
  <2>. QED  BY <2>4, <2>5, <2>7, <2>8, <2>9, <2>10, LocalStep DEF Fits
<1>7. CASE LockRestaurant(s)
  <2> DEFINE found == IF sess[s].restaurant = NoTally THEN aggregate
                                                      ELSE sess[s].restaurant
             local == [sess[s] EXCEPT !.pc = "tally", !.update = TRUE,
                                      !.restaurant = found]
  <2>1. sess[s].pc = "lock" /\ Awaited(s) = {} /\ Step(s, local)
    BY <1>7 DEF LockRestaurant
  <2>2. found \in Aggregate
    BY <1>1, <1>2 DEF Session
  <2>3. /\ sess[s].req.kind \in {"create", "update", "moderate"}
        /\ Recalculates(sess[s].req)
    BY <1>1, <2>1 DEF LocksFit, Recalculates
  <2>4. sess[s].req.kind # "create" => found = aggregate
    BY <1>1, <2>1, <2>3 DEF EditFits
  <2>. HIDE DEF found
  <2>5. /\ local \in Session /\ local.pc = "tally" /\ local.req = sess[s].req
        /\ local.patch = sess[s].patch /\ local.restaurant = found
        /\ local.tally = sess[s].tally
        /\ local.wrote = sess[s].wrote /\ local.keyShare = sess[s].keyShare
        /\ local.update = TRUE
    BY <1>1, <2>2 DEF Session, PCs
  <2>. HIDE DEF local
  <2>6. Admissible(s, local)
    <3>1. Updaters(s) = {}
      BY <2>1 DEF Awaited, Updaters
    <3>2. \A t \in Others(s) : ~sess[t].update
      BY <3>1 DEF Updaters
    <3>3. \A t \in Others(s) :
            sess[s].wrote /\ sess[t].wrote => sess[s].req.order # sess[t].req.order
      BY DEF ReviewsInv, LocksExclude
    <3>. QED  BY <2>5, <3>2, <3>3 DEF Admissible
  <2>7. LocksFit(local)
    BY <1>1, <2>1, <2>3, <2>5 DEF LocksFit
  <2>8. TallyFits(local)
    BY <1>1, <2>1, <2>4, <2>5 DEF TallyFits
  <2>9. CreateFits(local) /\ EditFits(local)
    BY <1>1, <2>1, <2>2, <2>3, <2>5 DEF CreateFits, EditFits
  <2>. QED  BY <2>1, <2>5, <2>6, <2>7, <2>8, <2>9, LocalStep DEF Fits
<1>8. CASE Tally(s)
  <2> DEFINE rating == Distribution(Seen(sess[s]))
             local == [sess[s] EXCEPT !.pc = "commit", !.tally = rating]
  <2>1. sess[s].pc = "tally" /\ Step(s, local)
    BY <1>8 DEF Tally
  <2>2. rating \in Aggregate
    BY SeenType, DistributionType
  <2>3. rating = Distribution(SeenOver(reviews, sess[s]))
    BY SeenIsSeenOver
  <2>. HIDE DEF rating
  <2>4. /\ local \in Session /\ local.pc = "commit" /\ local.req = sess[s].req
        /\ local.patch = sess[s].patch /\ local.restaurant = sess[s].restaurant
        /\ local.tally = rating
        /\ local.wrote = sess[s].wrote /\ local.keyShare = sess[s].keyShare
        /\ local.update = sess[s].update
    BY <1>1, <2>2 DEF Session, PCs
  <2>. HIDE DEF local
  <2>5. sess[s].update /\ Recalculates(sess[s].req)
    BY <1>1, <2>1 DEF LocksFit
  <2>6. Admissible(s, local)
    BY <2>4, SameLocks
  <2>7. LocksFit(local)
    BY <1>1, <2>1, <2>4, <2>5 DEF LocksFit
  <2>8. TallyFits(local)
    <3>1. SeenOver(reviews, local) = SeenOver(reviews, sess[s])
      BY <2>4 DEF SeenOver
    <3>2. Seen(local) = SeenOver(reviews, sess[s])
      BY <3>1, SeenIsSeenOver
    <3>. QED  BY <1>1, <2>3, <2>4, <2>5, <3>2 DEF TallyFits
  <2>9. CreateFits(local) /\ EditFits(local)
    BY <1>1, <2>1, <2>4 DEF CreateFits, EditFits
  <2>. QED  BY <2>1, <2>4, <2>6, <2>7, <2>8, <2>9, LocalStep DEF Fits
<1>. QED
  BY <1>3, <1>4, <1>5, <1>6, <1>7, <1>8

-----------------------------------------------------------------------------
(* Commits                                                                  *)

\* The columns of two ratings make a rating.
LEMMA AggregateColumns ==
  ASSUME NEW a \in Aggregate, NEW b \in Aggregate,
         NEW average \in {a.average, b.average}, NEW total \in {a.total, b.total}
  PROVE  [average |-> average, total |-> total] \in Aggregate
BY DEF Aggregate

LEMMA AggregateIsColumns ==
  ASSUME NEW a \in Aggregate
  PROVE  a = [average |-> a.average, total |-> a.total]
BY DEF Aggregate

\* What a commit does to the review of an order.
LEMMA CommittedRow ==
  ASSUME ReviewsInv, NEW s \in Sessions, Commit(s), NEW o \in Orders
  PROVE  \/ reviews'[o] = reviews[o]
         \/ /\ sess[s].wrote /\ sess[s].req.order = o /\ sess[s].req.kind = "create"
            /\ reviews[o] = NoReview /\ reviews'[o] \in Row
         \/ /\ sess[s].wrote /\ sess[s].req.order = o
            /\ sess[s].req.kind \in {"update", "reply", "moderate"}
            /\ reviews[o] \in Row /\ reviews'[o] = Set(reviews[o], sess[s].patch)
            /\ reviews'[o] \in Row
<1>1. /\ sess[s].pc = "commit" /\ reviews' = SeenOver(reviews, sess[s])
      /\ reviews \in Tables
  BY SeenIsSeenOver DEF Commit, ReviewsInv, TypeOK
<1>2. CASE ~sess[s].wrote
  BY <1>1, <1>2 DEF SeenOver
<1>3. CASE sess[s].wrote /\ sess[s].req.kind = "create"
  <2>1. reviews' = [reviews EXCEPT ![sess[s].req.order] = sess[s].patch]
    BY <1>1, <1>3 DEF SeenOver
  <2>. QED  BY <1>1, <1>3, <2>1, WriterFits DEF Tables
<1>4. CASE sess[s].wrote /\ sess[s].req.kind # "create"
  <2> DEFINE row == Set(reviews[sess[s].req.order], sess[s].patch)
  <2>1. reviews' = [reviews EXCEPT ![sess[s].req.order] = row]
    BY <1>1, <1>4 DEF SeenOver
  <2>2. row \in Row /\ reviews[sess[s].req.order] \in Row
    BY <1>1, <1>4, WriterFits, SetType
  <2>3. sess[s].req.kind \in {"update", "reply", "moderate"}
    BY <1>1, <1>4, WriterFits
  <2>4. CASE o = sess[s].req.order
    <3>. HIDE DEF row
    <3>1. reviews'[o] = row
      BY <1>1, <2>1, <2>4 DEF Tables
    <3>. QED  BY <1>4, <2>2, <2>3, <2>4, <3>1 DEF row
  <2>5. CASE o # sess[s].req.order
    <3>. HIDE DEF row
    <3>. QED  BY <1>1, <2>1, <2>5 DEF Tables
  <2>. QED  BY <2>4, <2>5
<1>. QED
  BY <1>2, <1>3, <1>4

\* What the columns of a review become.
LEMMA CommittedColumns ==
  ASSUME ReviewsInv, NEW s \in Sessions, Commit(s), NEW o \in Orders,
         reviews[o] # NoReview
  PROVE  /\ reviews'[o] \in Row /\ reviews[o] \in Row
         /\ reviews'[o].rating # reviews[o].rating =>
              /\ sess[s].req.kind = "update" /\ sess[s].req.value # Keep
              /\ reviews'[o].edited
         /\ reviews[o].edited => reviews'[o].edited
         /\ reviews[o].replied => reviews'[o].replied
         /\ reviews'[o].hidden # reviews[o].hidden =>
              sess[s].req.kind = "moderate" /\ sess[s].req.order = o
<1>1. EditFits(sess[s]) /\ reviews \in Tables
  BY DEF ReviewsInv, SessionsFit, TypeOK
<1>2. reviews[o] \in Row
  BY <1>1 DEF Tables
<1>3. CASE reviews'[o] = reviews[o]
  BY <1>2, <1>3
<1>4. CASE /\ sess[s].wrote /\ sess[s].req.order = o
           /\ sess[s].req.kind \in {"update", "reply", "moderate"}
           /\ reviews[o] \in Row /\ reviews'[o] = Set(reviews[o], sess[s].patch)
           /\ reviews'[o] \in Row
  <2> DEFINE row   == reviews[o]
             patch == sess[s].patch
  <2>1. /\ reviews'[o].rating = IF patch.rating = Keep THEN row.rating ELSE patch.rating
        /\ reviews'[o].hidden = IF patch.hidden = Keep THEN row.hidden ELSE patch.hidden
        /\ reviews'[o].edited = IF patch.edited = Keep THEN row.edited ELSE patch.edited
        /\ reviews'[o].replied =
             IF patch.replied = Keep THEN row.replied ELSE patch.replied
    BY <1>4 DEF Set
  <2>2. /\ patch.rating # Keep => sess[s].req.kind = "update" /\ sess[s].req.value # Keep
        /\ patch.hidden # Keep => sess[s].req.kind = "moderate"
        /\ patch.replied = Keep \/ patch.replied = TRUE
        /\ patch.edited = Keep \/ patch.edited = TRUE
        /\ sess[s].req.kind = "update" /\ patch.edited = Keep => row.edited
    BY <1>1, <1>4 DEF EditFits
  <2>. HIDE DEF row, patch
  <2>3. row.edited => reviews'[o].edited
    BY <2>1, <2>2, Zenon
  <2>4. row.replied => reviews'[o].replied
    BY <2>1, <2>2, Zenon
  <2>5. sess[s].req.kind = "update" => reviews'[o].edited
    BY <2>1, <2>2, Zenon
  <2>. QED  BY <1>4, <2>1, <2>2, <2>3, <2>4, <2>5 DEF row
<1>. QED
  BY <1>3, <1>4, CommittedRow

\* A commit outside the lock changes nothing that the rating counts.
LEMMA CommitEffect ==
  ASSUME ReviewsInv, NEW s \in Sessions, Commit(s)
  PROVE  /\ reviews' \in Tables /\ aggregate' \in Aggregate
         /\ sess' = [sess EXCEPT ![s] = Idle]
         /\ ~sess[s].update => aggregate' = aggregate /\ SameShown(reviews, reviews')
         /\ sess[s].update => /\ sess[s].tally \in Aggregate
                              /\ sess[s].tally = Distribution(reviews')
<1>1. /\ sess[s].pc = "commit" /\ reviews' = Seen(sess[s])
      /\ aggregate' = Written(sess[s]) /\ sess' = [sess EXCEPT ![s] = Idle]
  BY DEF Commit
<1>2. /\ TypeOK /\ aggregate \in Aggregate /\ reviews \in Tables
      /\ LocksFit(sess[s]) /\ TallyFits(sess[s])
      /\ sess[s].tally \in Aggregate \cup {NoTally}
  BY Loaded DEF ReviewsInv, TypeOK, SessionsFit
<1>3. reviews' \in Tables
  BY <1>1, SeenType
<1>4. CASE sess[s].update
  <2>1. sess[s].tally = Distribution(reviews')
    BY <1>1, <1>2, <1>4 DEF TallyFits
  <2>2. sess[s].tally \in Aggregate
    BY <1>3, <2>1, DistributionType
  <2>3. aggregate' \in Aggregate
    <3>1. sess[s].tally # NoTally
      BY <2>2, NoTallyAssumption
    <3>. QED  BY <1>1, <1>2, <2>2, <3>1, AggregateColumns DEF Written
  <2>. QED  BY <1>1, <1>3, <1>4, <2>1, <2>2, <2>3
<1>5. CASE ~sess[s].update
  <2>1. aggregate' = aggregate
    BY <1>1, <1>2, <1>5 DEF TallyFits, Written
  <2>2. ~Recalculates(sess[s].req)
    BY <1>1, <1>2, <1>5 DEF LocksFit
  <2>3. ASSUME NEW o \in Orders
        PROVE  /\ reviews[o] = NoReview <=> reviews'[o] = NoReview
               /\ reviews[o] # NoReview => /\ reviews[o].rating = reviews'[o].rating
                                           /\ reviews[o].hidden = reviews'[o].hidden
    <3>1. CASE reviews[o] = NoReview
      <4>1. reviews'[o] = reviews[o]
        BY <2>2, <3>1, CommittedRow, NoReviewAssumption DEF Recalculates
      <4>. QED  BY <3>1, <4>1
    <3>2. CASE reviews[o] # NoReview
      <4>1. /\ reviews'[o] \in Row
            /\ reviews'[o].rating # reviews[o].rating =>
                 sess[s].req.kind = "update" /\ sess[s].req.value # Keep
            /\ reviews'[o].hidden # reviews[o].hidden => sess[s].req.kind = "moderate"
        BY <3>2, CommittedColumns
      <4>2. reviews'[o] # NoReview
        BY <4>1, NoReviewAssumption
      <4>3. /\ ~(sess[s].req.kind = "update" /\ sess[s].req.value # Keep)
            /\ sess[s].req.kind # "moderate"
        BY <2>2 DEF Recalculates
      <4>. QED  BY <3>2, <4>1, <4>2, <4>3, Zenon
    <3>. QED  BY <3>1, <3>2
  <2>. QED  BY <1>1, <1>2, <1>3, <1>5, <2>1, <2>3 DEF SameShown
<1>. QED
  BY <1>4, <1>5

LEMMA CommitInv ==
  ASSUME ReviewsInv, NEW s \in Sessions, Commit(s)
  PROVE  ReviewsInv'
<1>1. /\ TypeOK /\ reviews \in Tables
      /\ reviews' \in Tables /\ aggregate' \in Aggregate
      /\ sess' = [sess EXCEPT ![s] = Idle]
      /\ ~sess[s].update => aggregate' = aggregate /\ SameShown(reviews, reviews')
  BY CommitEffect DEF ReviewsInv, TypeOK
<1>2. sess'[s] = Idle /\ \A t \in Others(s) : sess'[t] = sess[t]
  BY <1>1 DEF TypeOK, Others
<1>3. TypeOK'
  BY <1>1, IdleType DEF TypeOK
<1>4. LocksExclude'
  <2>1. SUFFICES ASSUME NEW u \in Sessions, NEW t \in Sessions, u # t
                 PROVE  /\ ~(sess'[u].update /\ sess'[t].update)
                        /\ sess'[u].wrote /\ sess'[t].wrote =>
                             sess'[u].req.order # sess'[t].req.order
    BY DEF LocksExclude, Others
  <2>2. CASE u = s \/ t = s
    BY <1>2, <2>2, IdleType
  <2>3. CASE u # s /\ t # s
    BY <1>2, <2>1, <2>3 DEF ReviewsInv, LocksExclude, Others
  <2>. QED  BY <2>2, <2>3
<1>5. SessionsFit'
  <2>1. SUFFICES ASSUME NEW t \in Sessions
                 PROVE  Fits(sess[t])'
    BY DEF SessionsFit, Fits
  <2>2. CASE t = s
    <3>1. /\ NoRequest.kind = "none"
          /\ Idle.pc = "idle" /\ Idle.req = NoRequest
          /\ Idle.wrote = FALSE /\ Idle.keyShare = FALSE /\ Idle.update = FALSE
          /\ Idle.tally = NoTally
      BY IdleType DEF NoRequest
    <3>2. sess'[t] = Idle
      BY <1>2, <2>2
    <3>. HIDE DEF Idle
    <3>. QED  BY <3>1, <3>2 DEF Fits, LocksFit, TallyFits, CreateFits, EditFits
  <2>3. CASE t # s
    <3>1. /\ sess'[t] = sess[t] /\ LocksFit(sess[t]) /\ TallyFits(sess[t])
          /\ CreateFits(sess[t]) /\ EditFits(sess[t])
          /\ sess[t].patch \in Patch
          /\ sess[t].pc # "idle" => sess[t].req.order \in Orders
      BY <1>1, <1>2, <2>3, Loaded, RequestsType
         DEF ReviewsInv, SessionsFit, Others, LocksFit
    <3>2. /\ ~(sess[s].update /\ sess[t].update)
          /\ sess[s].wrote /\ sess[t].wrote => sess[s].req.order # sess[t].req.order
      BY <2>3 DEF ReviewsInv, LocksExclude, Others
    <3>3. LocksFit(sess[t])'
      BY <3>1 DEF LocksFit, Recalculates
    <3>4. TallyFits(sess[t])'
      <4>1. CASE ~sess[t].update
        BY <3>1, <4>1 DEF TallyFits
      <4>2. CASE sess[t].update
        <5>1. aggregate' = aggregate /\ SameShown(reviews, reviews')
          BY <1>1, <3>2, <4>2
        <5>2. sess[t].req.order \in Orders
          BY <3>1, <4>2 DEF LocksFit
        <5>3. SameShown(SeenOver(reviews, sess[t]), SeenOver(reviews', sess[t]))
          BY <1>1, <3>1, <5>1, <5>2, SeenSame
        <5>4. Distribution(Seen(sess[t])) = Distribution(SeenOver(reviews', sess[t]))
          BY <5>3, SameRating, SeenIsSeenOver
        <5>5. Seen(sess[t])' = SeenOver(reviews', sess[t])
          BY <3>1, SeenAfter
        <5>6. Distribution(Seen(sess[t]))' = Distribution(Seen(sess[t])')
          BY DEF Distribution, Shown, Visible
        <5>. QED  BY <3>1, <4>2, <5>1, <5>4, <5>5, <5>6 DEF TallyFits
      <4>. QED  BY <4>1, <4>2
    <3>5. CreateFits(sess[t])'
      <4>1. SUFFICES ASSUME sess[t].req.kind = "create",
                            sess[t].pc \in {"lock", "tally", "commit"}
                     PROVE  reviews'[sess[t].req.order] = NoReview
        BY <3>1 DEF CreateFits
      <4>2. /\ sess[t].wrote /\ reviews[sess[t].req.order] = NoReview
            /\ sess[t].req.order \in Orders
        BY <3>1, <4>1 DEF CreateFits
      <4>3. ~(sess[s].wrote /\ sess[s].req.order = sess[t].req.order)
        BY <3>2, <4>2
      <4>. QED  BY <4>2, <4>3, CommittedRow
    <3>6. EditFits(sess[t])'
      <4>1. SUFFICES ASSUME sess[t].req.kind \in {"update", "reply", "moderate"}
                     PROVE  EditFits(sess[t])'
        BY <3>1 DEF EditFits
      <4>2. sess[t].req.order \in Orders
        <5>1. sess[t].req \in Requests \cup {NoRequest} /\ NoRequest.kind = "none"
          BY <1>1, Loaded DEF NoRequest
        <5>2. sess[t].req \in Requests
          BY <4>1, <5>1
        <5>. QED  BY <5>2, RequestsType
      <4>3. reviews[sess[t].req.order] # NoReview
        BY <3>1, <4>1 DEF EditFits
      <4>4. /\ reviews'[sess[t].req.order] # NoReview
            /\ reviews[sess[t].req.order].edited => reviews'[sess[t].req.order].edited
        BY <4>2, <4>3, CommittedColumns, NoReviewAssumption
      <4>. QED  BY <3>1, <4>1, <4>4 DEF EditFits
    <3>. QED  BY <3>3, <3>4, <3>5, <3>6 DEF Fits
  <2>. QED  BY <2>2, <2>3
<1>. QED
  BY <1>3, <1>4, <1>5 DEF ReviewsInv
-----------------------------------------------------------------------------
(* The invariant                                                            *)

LEMMA ReviewsInit ==
  ASSUME Init
  PROVE  ReviewsInv
<1>1. /\ reviews = [o \in Orders |-> NoReview]
      /\ aggregate = [average |-> 0, total |-> 0]
      /\ sess = [s \in Sessions |-> Idle]
  BY DEF Init
<1>2. aggregate \in Aggregate
  BY <1>1 DEF Aggregate
<1>3. TypeOK
  BY <1>1, <1>2, IdleType DEF TypeOK, Tables
<1>4. LocksExclude
  BY <1>1, IdleType DEF LocksExclude, Others
<1>5. SessionsFit
  <2>1. \A s \in Sessions : sess[s] = Idle
    BY <1>1
  <2>. QED  BY <2>1, IdleFits DEF SessionsFit, Fits
<1>. QED
  BY <1>3, <1>4, <1>5 DEF ReviewsInv

LEMMA ReviewsStutter ==
  ASSUME ReviewsInv, UNCHANGED vars
  PROVE  ReviewsInv'
<1>1. reviews' = reviews /\ aggregate' = aggregate /\ sess' = sess
  BY DEF vars
<1>2. TypeOK' /\ LocksExclude'
  BY <1>1 DEF ReviewsInv, TypeOK, LocksExclude
<1>3. ASSUME NEW s \in Sessions
      PROVE  Fits(sess[s])'
  <2>1. Fits(sess[s]) /\ sess'[s] = sess[s]
    BY <1>1 DEF ReviewsInv, SessionsFit, Fits
  <2>2. Seen(sess[s])' = Seen(sess[s])
    BY <1>1, SeenIsSeenOver, SeenAfter
  <2>3. LocksFit(sess[s])' /\ CreateFits(sess[s])' /\ EditFits(sess[s])'
    BY <1>1, <2>1 DEF Fits, LocksFit, Recalculates, CreateFits, EditFits
  <2>4. TallyFits(sess[s])'
    BY <1>1, <2>1, <2>2 DEF Fits, TallyFits
  <2>. QED  BY <2>3, <2>4 DEF Fits
<1>. QED
  BY <1>2, <1>3 DEF ReviewsInv, SessionsFit, Fits

\* The steps of Next, by what they do to the committed rows: all but a commit
\* leave those alone.
LEMMA StepKinds ==
  ASSUME Next
  PROVE  \E s \in Sessions :
           \/ \E q \in Requests :
                \/ LoadOrder(s, q) \/ UpdateReview(s, q) \/ LoadForDelete(s, q)
                \/ ReplyToReview(s, q) \/ ModerateReview(s, q)
           \/ CheckDuplicate(s) \/ InsertReview(s) \/ FlushReview(s)
           \/ LockRestaurant(s) \/ Tally(s)
           \/ Fail(s)
           \/ Commit(s)
BY DEF Next, DeleteReview, Abort

LEMMA ReviewsNext ==
  ASSUME ReviewsInv, [Next]_vars
  PROVE  ReviewsInv'
<1>1. CASE UNCHANGED vars
  BY <1>1, ReviewsStutter
<1>2. CASE Next
  BY <1>2, StepKinds, BeginInv, WorkInv, FailStep, CommitInv
<1>. QED
  BY <1>1, <1>2

LEMMA Invariance == Spec => []ReviewsInv
<1>1. Init => ReviewsInv
  BY ReviewsInit
<1>2. ReviewsInv /\ [Next]_vars => ReviewsInv'
  BY ReviewsNext
<1>. QED
  BY <1>1, <1>2, PTL DEF Spec

\* Every state has well-formed rows, ratings that some reviews give, and session
\* records as the handlers leave them.
THEOREM ReviewsTypeCorrect == Spec => []TypeOK
<1>1. ReviewsInv => TypeOK
  BY DEF ReviewsInv
<1>. QED
  BY <1>1, Invariance, PTL

-----------------------------------------------------------------------------
(* Commits are the only steps that change the committed rows                *)

LEMMA LocalOrCommit ==
  ASSUME [Next]_vars
  PROVE  \/ reviews' = reviews /\ aggregate' = aggregate
         \/ \E s \in Sessions : Commit(s)
<1>1. CASE UNCHANGED vars
  BY <1>1 DEF vars
<1>2. CASE Next
  <2>1. PICK s \in Sessions :
           \/ \E q \in Requests :
                \/ LoadOrder(s, q) \/ UpdateReview(s, q) \/ LoadForDelete(s, q)
                \/ ReplyToReview(s, q) \/ ModerateReview(s, q)
           \/ CheckDuplicate(s) \/ InsertReview(s) \/ FlushReview(s)
           \/ LockRestaurant(s) \/ Tally(s)
           \/ Fail(s)
           \/ Commit(s)
    BY <1>2, StepKinds
  <2>2. ASSUME NEW q \in Requests,
               \/ LoadOrder(s, q) \/ UpdateReview(s, q) \/ LoadForDelete(s, q)
               \/ ReplyToReview(s, q) \/ ModerateReview(s, q)
        PROVE  reviews' = reviews /\ aggregate' = aggregate
    BY <2>2 DEF LoadOrder, UpdateReview, LoadForDelete, ReplyToReview, ModerateReview,
                Assign, Begin, Step
  <2>3. ASSUME \/ CheckDuplicate(s) \/ InsertReview(s) \/ FlushReview(s)
               \/ LockRestaurant(s) \/ Tally(s)
               \/ Fail(s)
        PROVE  reviews' = reviews /\ aggregate' = aggregate
    BY <2>3 DEF CheckDuplicate, InsertReview, FlushReview, LockRestaurant, Tally,
                Fail, Step
  <2>. QED  BY <2>1, <2>2, <2>3
<1>. QED
  BY <1>1, <1>2

\* A session that counted leaves the rating it counted unless it is a new review
\* on an old restaurant object: a column that it does not write holds that value
\* already.
LEMMA CommitRates ==
  ASSUME ReviewsInv, NEW s \in Sessions, Commit(s), sess[s].update
  PROVE  /\ aggregate' = Distribution(reviews') \/ StaleCreate
         /\ aggregate'.average # aggregate.average =>
              aggregate'.average = Distribution(reviews').average
         /\ aggregate'.total # aggregate.total =>
              aggregate'.total = Distribution(reviews').total
<1> DEFINE me == sess[s]
<1>1. /\ me.tally \in Aggregate /\ me.tally = Distribution(reviews')
      /\ aggregate' \in Aggregate
  BY CommitEffect
<1>2. /\ me.pc = "commit" /\ aggregate' = Written(me) /\ me.tally # NoTally
  BY <1>1, NoTallyAssumption DEF Commit
<1>3. /\ aggregate'.average = IF AverageDiffers(me.restaurant.average, me.tally.average)
                              THEN me.tally.average ELSE aggregate.average
      /\ aggregate'.total = IF me.restaurant.total # me.tally.total
                            THEN me.tally.total ELSE aggregate.total
  BY <1>2 DEF Written
<1>4. ASSUME me.restaurant = aggregate
      PROVE  aggregate' = me.tally
  <2>1. aggregate'.average = me.tally.average
    BY <1>3, <1>4 DEF AverageDiffers
  <2>2. aggregate'.total = me.tally.total
    BY <1>3, <1>4
  <2>. QED  BY <1>1, <2>1, <2>2, AggregateIsColumns
<1>5. me.restaurant # aggregate => StaleCreate
  <2>1. TallyFits(me)
    BY DEF ReviewsInv, SessionsFit
  <2>. QED  BY <1>2, <2>1 DEF TallyFits, StaleCreate, At
<1>6. aggregate' = Distribution(reviews') \/ StaleCreate
  BY <1>1, <1>4, <1>5
<1>. QED
  BY <1>1, <1>3, <1>6

\* Whatever changes the visible reviews leaves the rating that they have, except a
\* new review counted on an old restaurant object; no commit writes a rating that
\* is not that of the reviews it leaves.
THEOREM RatingCorrect == Spec => RatingFollowsReviews
<1>1. ASSUME ReviewsInv, [Next]_vars
      PROVE  /\ Distribution(reviews') # Distribution(reviews) =>
                  aggregate' = Distribution(reviews') \/ StaleCreate
             /\ aggregate'.average # aggregate.average =>
                  aggregate'.average = Distribution(reviews').average
             /\ aggregate'.total # aggregate.total =>
                  aggregate'.total = Distribution(reviews').total
  <2>1. CASE reviews' = reviews /\ aggregate' = aggregate
    BY <2>1
  <2>2. CASE \E s \in Sessions : Commit(s)
    <3>1. PICK s \in Sessions : Commit(s)
      BY <2>2
    <3>2. CASE sess[s].update
      BY <1>1, <3>1, <3>2, CommitRates
    <3>3. CASE ~sess[s].update
      <4>1. aggregate' = aggregate /\ SameShown(reviews, reviews')
        BY <1>1, <3>1, <3>3, CommitEffect
      <4>2. Distribution(reviews) = Distribution(reviews')
        BY <4>1, SameRating
      <4>. QED  BY <4>1, <4>2
    <3>. QED  BY <3>2, <3>3
  <2>. QED  BY <1>1, <2>1, <2>2, LocalOrCommit
<1>. QED
  BY <1>1, Invariance, PTL DEF Spec, RatingFollowsReviews

\* While a review is there, its rating changes only with the mark of an edit, mark
\* and reply stay, and only a moderation shows it again, whatever the sessions
\* loaded before.
THEOREM EditsCorrect == Spec => EditsAreMarked
<1>1. ASSUME ReviewsInv, [Next]_vars
      PROVE  \A o \in Orders : reviews[o] # NoReview /\ reviews'[o] # NoReview =>
               /\ reviews'[o].rating # reviews[o].rating => reviews'[o].edited
               /\ reviews[o].edited => reviews'[o].edited
               /\ reviews[o].replied => reviews'[o].replied
               /\ reviews[o].hidden /\ ~reviews'[o].hidden =>
                    \E s \in Sessions : /\ At(s, "commit", {"moderate"})
                                        /\ sess[s].req.order = o
  <2>1. SUFFICES ASSUME NEW o \in Orders, reviews[o] # NoReview, reviews'[o] # NoReview
                 PROVE  /\ reviews'[o].rating # reviews[o].rating => reviews'[o].edited
                        /\ reviews[o].edited => reviews'[o].edited
                        /\ reviews[o].replied => reviews'[o].replied
                        /\ reviews[o].hidden /\ ~reviews'[o].hidden =>
                             \E s \in Sessions : /\ At(s, "commit", {"moderate"})
                                                 /\ sess[s].req.order = o
    OBVIOUS
  <2>2. CASE reviews' = reviews
    BY <2>1, <2>2
  <2>3. CASE \E s \in Sessions : Commit(s)
    <3>1. PICK s \in Sessions : Commit(s)
      BY <2>3
    <3>2. reviews'[o].rating # reviews[o].rating => reviews'[o].edited
      BY <1>1, <2>1, <3>1, CommittedColumns, NoReviewAssumption
    <3>3. reviews[o].edited => reviews'[o].edited
      BY <1>1, <2>1, <3>1, CommittedColumns
    <3>4. reviews[o].replied => reviews'[o].replied
      BY <1>1, <2>1, <3>1, CommittedColumns
    <3>5. ASSUME reviews[o].hidden, ~reviews'[o].hidden
          PROVE  At(s, "commit", {"moderate"}) /\ sess[s].req.order = o
      <4>1. reviews'[o].hidden # reviews[o].hidden
        BY <3>5
      <4>2. sess[s].req.kind = "moderate" /\ sess[s].req.order = o
        BY <1>1, <2>1, <3>1, <4>1, CommittedColumns
      <4>. QED  BY <3>1, <4>2 DEF Commit, At
    <3>. QED  BY <3>2, <3>3, <3>4, <3>5
  <2>. QED  BY <1>1, <2>2, <2>3, LocalOrCommit
<1>. QED
  BY <1>1, Invariance, PTL DEF Spec, EditsAreMarked

-----------------------------------------------------------------------------
(* Deadlocks                                                                *)

\* Only finitely many requests are under way at a time, however many there may be.
Busy == {s \in Sessions : sess[s].pc # "idle"}

LEMMA BusyIsFinite == Spec => []IsFiniteSet(Busy)
<1>1. Init => IsFiniteSet(Busy)
  <2>1. Init => Busy = {}
    BY IdleType DEF Init, Busy
  <2>. QED  BY <2>1, FS_EmptySet
<1>2. ASSUME ReviewsInv, IsFiniteSet(Busy), [Next]_vars
      PROVE  IsFiniteSet(Busy)'
  <2>1. CASE UNCHANGED vars
    BY <1>2, <2>1 DEF vars, Busy
  <2>2. CASE Next
    <3>1. PICK s \in Sessions : \E local : sess' = [sess EXCEPT ![s] = local]
      BY <2>2, StepKinds
         DEF LoadOrder, UpdateReview, LoadForDelete, ReplyToReview, ModerateReview,
             Assign, Begin, CheckDuplicate, InsertReview, FlushReview, LockRestaurant,
             Tally, Fail, Commit, Step
    <3>2. Busy' \subseteq Busy \cup {s}
      BY <1>2, <3>1 DEF Busy, ReviewsInv, TypeOK
    <3>3. IsFiniteSet(Busy \cup {s})
      BY <1>2, FS_AddElement
    <3>. QED  BY <3>2, <3>3, FS_Subset
  <2>. QED  BY <1>2, <2>1, <2>2
<1>. QED
  BY <1>1, <1>2, Invariance, PTL DEF Spec

\* A session that others wait for, and that waits, has inserted its review and
\* waits for the restaurant.
LEMMA DeadlockedHold ==
  ASSUME ReviewsInv, NEW S \in SUBSET Sessions, Deadlocked(S), NEW s \in S
  PROVE  sess[s].pc = "lock" /\ ~sess[s].update
<1>1. LocksFit(sess[s])
  BY DEF ReviewsInv, SessionsFit
<1>2. sess[s].wrote \/ sess[s].update \/ sess[s].keyShare
  BY DEF Deadlocked, Awaited, RowWriters, Updaters, KeySharers
<1>3. sess[s].pc \in {"write", "lock"}
  BY DEF Deadlocked, Awaited, Writes, At
<1>. QED
  BY <1>1, <1>2, <1>3 DEF LocksFit

LEMMA DeadlockedShare ==
  ASSUME ReviewsInv, NEW S \in SUBSET Sessions, Deadlocked(S), NEW s \in S
  PROVE  sess[s].req.kind = "create"
<1>1. PICK t \in S : s \in Awaited(t)
  BY DEF Deadlocked
<1>2. sess[t].pc = "lock" /\ ~sess[s].update
  BY DeadlockedHold
<1>3. sess[s].keyShare
  BY <1>1, <1>2 DEF Awaited, Writes, At, Updaters, KeySharers
<1>4. LocksFit(sess[s])
  BY DEF ReviewsInv, SessionsFit
<1>. QED
  BY <1>3, <1>4 DEF LocksFit

\* Requests wait for each other in a cycle only if two of them are new reviews.
THEOREM CreatesCorrect == Spec => []OnlyCreatesDeadlock
<1>1. ASSUME ReviewsInv, IsFiniteSet(Busy)
      PROVE  OnlyCreatesDeadlock
  <2>1. SUFFICES ASSUME NEW S \in SUBSET Sessions, S # {}, Deadlocked(S)
                 PROVE  Cardinality({s \in S : sess[s].req.kind = "create"}) >= 2
    BY DEF OnlyCreatesDeadlock
  <2> DEFINE creates == {s \in S : sess[s].req.kind = "create"}
  <2>2. PICK s \in S : TRUE
    BY <2>1
  <2>3. PICK t \in S : t # s
    BY <2>1 DEF Deadlocked, Awaited, Others
  <2>4. {s, t} \subseteq creates
    BY <1>1, <2>1, DeadlockedShare
  <2>5. creates \subseteq Busy
    BY <1>1, <2>1, DeadlockedHold DEF Busy
  <2>6. IsFiniteSet(creates)
    BY <1>1, <2>5, FS_Subset
  <2>7. IsFiniteSet({s, t}) /\ Cardinality({s, t}) = 2
    <3>1. IsFiniteSet({s}) /\ Cardinality({s}) = 1
      BY FS_Singleton
    <3>2. IsFiniteSet({s} \cup {t}) /\ Cardinality({s} \cup {t}) = 1 + 1
      BY <2>3, <3>1, FS_AddElement
    <3>3. {s} \cup {t} = {s, t}
      OBVIOUS
    <3>. QED  BY <3>2, <3>3
  <2>8. /\ Cardinality({s, t}) <= Cardinality(creates)
        /\ Cardinality(creates) \in Nat
    BY <2>4, <2>6, FS_Subset, FS_CardinalityType
  <2>. QED  BY <2>7, <2>8
<1>. QED
  BY <1>1, Invariance, BusyIsFinite, PTL
=============================================================================
