--------------------------- MODULE ReviewRatings ---------------------------
(***************************************************************************)
(* The reviews of one restaurant and the rating it shows: ReviewService    *)
(* (create, update, delete, reply, moderate), each request in a database   *)
(* session of its own.                                                     *)
(*                                                                         *)
(* A handler changes a review row, then locks the restaurant row, counts   *)
(* the visible reviews and assigns the result to the restaurant object.    *)
(* The lock puts the recalculations in an order, but the object may be     *)
(* older than the lock: create_review loads the restaurant together with   *)
(* the order, and a flush writes a column only if the assigned value is    *)
(* not the loaded one.  The insert of a review locks the restaurant too    *)
(* (KEY SHARE, for the foreign key), in a mode that two inserts can hold   *)
(* together and that keeps both from the exclusive lock.                   *)
(***************************************************************************)
EXTENDS Naturals, FiniteSets, Functions

CONSTANTS
  Orders,    \* the restaurant's orders
  Delivered, \* those that have been delivered
  Ratings,   \* ratings customers give
  Sessions,  \* concurrent HTTP requests
  NoReview,  \* the order has no review
  NoTally,   \* no aggregate counted or loaded
  Keep       \* a column that is not written

ASSUME RatingsAssumption ==
  /\ Delivered \subseteq Orders
  /\ Ratings \subseteq 1..5
  /\ Keep \notin Ratings /\ Keep \notin BOOLEAN

VARIABLES
  reviews,   \* committed reviews row of each order
  aggregate, \* committed average_rating (in hundredths) and total_reviews
  sess       \* per session: program counter, request, loaded objects, locks

vars == <<reviews, aggregate, sess>>

\* A text is left out; replied says whether the owner has replied.
Row == [rating: Ratings, hidden: BOOLEAN, edited: BOOLEAN, replied: BOOLEAN]

ASSUME NoReviewAssumption == NoReview \notin Row

-----------------------------------------------------------------------------
(* The rating of a set of reviews                                           *)

Tables == [Orders -> Row \cup {NoReview}]

Visible(rows) == {o \in Orders : rows[o] # NoReview /\ ~rows[o].hidden}

\* The ratings that count.
Shown(rows) == [o \in Visible(rows) |-> rows[o].rating]

\* To the nearest hundredth (halves, which eight reviews and more can give, upwards).
Average(score, total) ==
  IF total = 0 THEN 0 ELSE (100 * score + total \div 2) \div total

Score(shown) == FoldFunction(+, 0, shown)

Rating(shown) ==
  LET total == Cardinality(DOMAIN shown)
  IN  [average |-> Average(Score(shown), total), total |-> total]

Distribution(rows) == Rating(Shown(rows))

\* Each column holds 0 or what some reviews gave.
Aggregate == [average: {0} \cup {Distribution(rows).average : rows \in Tables},
              total: {0} \cup {Distribution(rows).total : rows \in Tables}]

ASSUME NoTallyAssumption == NoTally \notin Aggregate

\* The loaded average is a decimal and the assigned one a float: unless it is a
\* multiple of a quarter, it never equals what was loaded.
AverageDiffers(old, new) == old # new \/ new % 25 # 0

-----------------------------------------------------------------------------
(* Requests                                                                 *)

CustomerRequests ==
  [kind: {"create"}, order: Orders, value: Ratings]
    \cup [kind: {"update"}, order: Orders, value: Ratings \cup {Keep}]
    \cup [kind: {"delete"}, order: Orders, value: {Keep}]

OwnerRequests == [kind: {"reply"}, order: Orders, value: {Keep}]

AdminRequests == [kind: {"moderate"}, order: Orders, value: BOOLEAN]

Requests == CustomerRequests \cup OwnerRequests \cup AdminRequests

NoRequest == [kind |-> "none", order |-> Keep, value |-> Keep]

PCs == {"idle", "check", "delete", "write", "lock", "tally", "commit"}

\* The columns an UPDATE or INSERT sets.
Patch == [rating: Ratings \cup {Keep}, hidden: BOOLEAN \cup {Keep},
          edited: BOOLEAN \cup {Keep}, replied: BOOLEAN \cup {Keep}]

Nothing == [rating |-> Keep, hidden |-> Keep, edited |-> Keep, replied |-> Keep]

\* patch is what the session assigned to the review, wrote whether it was
\* flushed; restaurant is the rating of the restaurant object as loaded, tally as
\* assigned; keyShare and update are the locks on the restaurant row.
Session == [pc: PCs, req: Requests \cup {NoRequest}, patch: Patch, wrote: BOOLEAN,
            restaurant: Aggregate \cup {NoTally}, tally: Aggregate \cup {NoTally},
            keyShare: BOOLEAN, update: BOOLEAN]

Idle == [pc |-> "idle", req |-> NoRequest, patch |-> Nothing, wrote |-> FALSE,
         restaurant |-> NoTally, tally |-> NoTally,
         keyShare |-> FALSE, update |-> FALSE]

TypeOK ==
  /\ reviews \in Tables
  /\ aggregate \in Aggregate
  /\ sess \in [Sessions -> Session]

Init ==
  /\ reviews = [o \in Orders |-> NoReview]
  /\ aggregate = [average |-> 0, total |-> 0]
  /\ sess = [s \in Sessions |-> Idle]

-----------------------------------------------------------------------------
(* Rows, locks and transactions                                             *)

\* Mutant (for the checks only): a rating that was not sent is cleared.
Set_Unsent(row, patch) == [row EXCEPT !.rating = patch.rating]

Set(row, patch) ==
  [rating  |-> IF patch.rating  = Keep THEN row.rating  ELSE patch.rating,
   hidden  |-> IF patch.hidden  = Keep THEN row.hidden  ELSE patch.hidden,
   edited  |-> IF patch.edited  = Keep THEN row.edited  ELSE patch.edited,
   replied |-> IF patch.replied = Keep THEN row.replied ELSE patch.replied]

\* The rows as the statements of a session see them: what is committed and its
\* own write.
Seen(me) ==
  IF ~me.wrote THEN reviews
  ELSE IF me.req.kind = "create"
       THEN [reviews EXCEPT ![me.req.order] = me.patch]
       ELSE [reviews EXCEPT ![me.req.order] = Set(@, me.patch)]

\* A flush writes only what differs from the loaded value.
Changed(old, new) == IF new = old THEN Keep ELSE new

At(s, pc, kinds) == sess[s].pc = pc /\ sess[s].req.kind \in kinds

Others(s) == Sessions \ {s}

\* The sessions whose uncommitted write of the same review s waits for: a lock on
\* the row or on its entry in the unique index on order_id.
RowWriters(s) ==
  {t \in Others(s) : sess[t].wrote /\ sess[t].req.order = sess[s].req.order}

KeySharers(s) == {t \in Others(s) : sess[t].keyShare}

Updaters(s) == {t \in Others(s) : sess[t].update}

Writes(s) == sess[s].pc = "write" /\ sess[s].patch # Nothing

Awaited(s) ==
  {t \in Others(s) :
     \/ Writes(s) /\ t \in RowWriters(s)
     \/ At(s, "write", {"create"}) /\ t \in Updaters(s)
     \/ sess[s].pc = "lock" /\ t \in Updaters(s) \cup KeySharers(s)}

\* Each session of S waits for one of S and is waited for by one of S.
Deadlocked(S) ==
  \A s \in S : Awaited(s) \cap S # {} /\ \E t \in S : s \in Awaited(t)

Step(s, local) ==
  /\ sess' = [sess EXCEPT ![s] = local]
  /\ UNCHANGED <<reviews, aggregate>>

\* An exception leaves the handler: get_session rolls back.
Fail(s) == Step(s, Idle)

\* A request arrives; what it reads first decides how it goes on.
Begin(s, q, local) ==
  /\ sess[s].pc = "idle"
  /\ Step(s, [local EXCEPT !.req = q])

-----------------------------------------------------------------------------
(* create_review                                                            *)

\* get_by_id of the order loads the restaurant with it.
LoadOrder(s, q) ==
  /\ q.kind = "create" /\ q.order \in Delivered
  /\ Begin(s, q, [Idle EXCEPT !.pc = "check", !.restaurant = aggregate])

CheckDuplicate(s) ==
  /\ At(s, "check", {"create"})
  /\ reviews[sess[s].req.order] = NoReview
  /\ Step(s, [sess[s] EXCEPT !.pc = "write",
                !.patch = [rating |-> sess[s].req.value, hidden |-> FALSE,
                           edited |-> FALSE, replied |-> FALSE]])

\* Mutant (for the checks only): without the unique index on order_id.
InsertReview_NoIndex(s) ==
  /\ At(s, "write", {"create"}) /\ Updaters(s) = {}
  /\ Step(s, [sess[s] EXCEPT !.pc = "lock", !.wrote = TRUE, !.keyShare = TRUE])

\* BaseRepository.create: a second review of the order violates the index.
InsertReview(s) ==
  /\ At(s, "write", {"create"}) /\ Awaited(s) = {}
  /\ reviews[sess[s].req.order] = NoReview
  /\ Step(s, [sess[s] EXCEPT !.pc = "lock", !.wrote = TRUE, !.keyShare = TRUE])

-----------------------------------------------------------------------------
(* update_review, delete_review, reply_to_review, moderate_review: each     *)
(* loads the review and assigns its columns in one go.                      *)

Assign(s, q, patch) ==
  Begin(s, q, [Idle EXCEPT !.pc = "write", !.patch = patch])

\* Mutant (for the checks only): writes all columns of the loaded object.
UpdateReview_AllColumns(s, q) ==
  /\ q.kind = "update" /\ reviews[q.order] # NoReview
  /\ Assign(s, q, Set(reviews[q.order],
                      [Nothing EXCEPT !.rating = q.value, !.edited = TRUE]))

\* An edit sets is_edited, and the rating if that is among the fields sent.
UpdateReview(s, q) ==
  /\ q.kind = "update" /\ reviews[q.order] # NoReview
  /\ Assign(s, q,
       [Nothing EXCEPT !.rating = Changed(reviews[q.order].rating, q.value),
                       !.edited = Changed(reviews[q.order].edited, TRUE)])

\* Only a visible review is replied to; owner_reply_at is a new value each time.
ReplyToReview(s, q) ==
  /\ q.kind = "reply" /\ q.order \in Visible(reviews)
  /\ Assign(s, q, [Nothing EXCEPT !.replied = TRUE])

ModerateReview(s, q) ==
  /\ q.kind = "moderate" /\ reviews[q.order] # NoReview
  /\ Assign(s, q,
       [Nothing EXCEPT !.hidden = Changed(reviews[q.order].hidden, q.value)])

LoadForDelete(s, q) ==
  /\ q.kind = "delete" /\ reviews[q.order] # NoReview
  /\ Begin(s, q, [Idle EXCEPT !.pc = "delete"])

\* The id and not the object is given to session.delete, which raises.
DeleteReview(s) == sess[s].pc = "delete" /\ Fail(s)

Recalculates(q) ==
  q.kind \in {"create", "moderate"} \/ (q.kind = "update" /\ q.value # Keep)

\* Mutant (for the checks only): the UPDATE sets restaurant_id as well.
FlushReview_ForeignKey(s) ==
  /\ At(s, "write", {"update", "reply", "moderate"}) /\ Awaited(s) = {}
  /\ Step(s, [sess[s] EXCEPT !.wrote = TRUE, !.keyShare = TRUE,
                !.pc = IF Recalculates(sess[s].req) THEN "lock" ELSE "commit"])

\* BaseRepository.update; with no column changed there is no UPDATE.  One of those
\* left out here (the text, moderated_by) may have changed.
FlushReview(s) ==
  /\ At(s, "write", {"update", "reply", "moderate"})
  /\ \E wrote \in {Writes(s), TRUE} :
       /\ wrote => RowWriters(s) = {}
       /\ Step(s, [sess[s] EXCEPT !.wrote = wrote,
                     !.pc = IF Recalculates(sess[s].req) THEN "lock" ELSE "commit"])

-----------------------------------------------------------------------------
(* _recalculate_restaurant_aggregation                                      *)

\* Mutant (for the checks only): SELECT without FOR UPDATE.
LockRestaurant_Unlocked(s) ==
  /\ sess[s].pc = "lock"
  /\ Step(s, [sess[s] EXCEPT !.pc = "tally",
                !.restaurant = IF @ = NoTally THEN aggregate ELSE @])

\* The locking query returns the object loaded before, as it was loaded.
LockRestaurant(s) ==
  /\ sess[s].pc = "lock" /\ Awaited(s) = {}
  /\ Step(s, [sess[s] EXCEPT !.pc = "tally", !.update = TRUE,
                !.restaurant = IF @ = NoTally THEN aggregate ELSE @])

Tally(s) ==
  /\ sess[s].pc = "tally"
  /\ Step(s, [sess[s] EXCEPT !.pc = "commit", !.tally = Distribution(Seen(sess[s]))])

\* The columns of the restaurant as the commit leaves them.
Written(me) ==
  IF me.tally = NoTally THEN aggregate
  ELSE [average |-> IF AverageDiffers(me.restaurant.average, me.tally.average)
                    THEN me.tally.average ELSE aggregate.average,
        total |-> IF me.restaurant.total # me.tally.total
                  THEN me.tally.total ELSE aggregate.total]

Commit(s) ==
  /\ sess[s].pc = "commit"
  /\ reviews' = Seen(sess[s])
  /\ aggregate' = Written(sess[s])
  /\ sess' = [sess EXCEPT ![s] = Idle]

-----------------------------------------------------------------------------

\* A refusal (not found, not the caller's, not delivered, reviewed already, older
\* than seven days, hidden) or a failure: of a statement, of the process, or of
\* the session that PostgreSQL picks among those that wait for each other.
Abort(s) == sess[s].pc # "idle" /\ Fail(s)

Next ==
  \E s \in Sessions :
    \/ \E q \in Requests :
         \/ LoadOrder(s, q) \/ UpdateReview(s, q) \/ LoadForDelete(s, q)
         \/ ReplyToReview(s, q) \/ ModerateReview(s, q)
    \/ CheckDuplicate(s) \/ InsertReview(s) \/ DeleteReview(s)
    \/ FlushReview(s) \/ LockRestaurant(s) \/ Tally(s) \/ Commit(s)
    \/ Abort(s)

Spec == Init /\ [][Next]_vars
=============================================================================
