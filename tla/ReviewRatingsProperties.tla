----------------------- MODULE ReviewRatingsProperties -----------------------
(***************************************************************************)
(* What the rating of a restaurant promises while reviews are written,     *)
(* edited and moderated at the same time.                                  *)
(***************************************************************************)
EXTENDS ReviewRatings

-----------------------------------------------------------------------------
(* The inductive invariant                                                  *)

\* One session at a time has the exclusive lock on the restaurant, and one at a
\* time has written the review of an order.
LocksExclude ==
  \A s \in Sessions : \A t \in Others(s) :
    /\ ~(sess[s].update /\ sess[t].update)
    /\ sess[s].wrote /\ sess[t].wrote => sess[s].req.order # sess[t].req.order

\* What a session has locked by the time it gets to a statement.
LocksFit(me) ==
  /\ me.pc # "idle" => me.req \in Requests
  /\ me.pc = "check" => me.req.kind = "create"
  /\ me.req.kind = "delete" => me.pc = "delete"
  /\ me.pc \in {"lock", "tally"} => Recalculates(me.req)
  /\ me.update \/ me.pc = "tally" => me.pc \in {"tally", "commit"} /\ me.update
  /\ me.wrote \/ me.keyShare => me.pc \in {"lock", "tally", "commit"}
  /\ me.keyShare => me.req.kind = "create"
  /\ me.pc = "commit" /\ Recalculates(me.req) => me.update

\* A new review in flight: nobody else adds one for its order meanwhile.
CreateFits(me) ==
  me.req.kind = "create" =>
    /\ me.restaurant \in Aggregate
    /\ me.pc \notin {"idle", "check"} => me.patch \in Row
    /\ me.pc \in {"lock", "tally", "commit"} =>
         me.wrote /\ reviews[me.req.order] = NoReview

\* A change of a review in flight: the columns its kind assigns, of a row that is
\* there, marked as edited already where the edit does not mark it.
EditFits(me) ==
  me.req.kind \in {"update", "reply", "moderate"} =>
    /\ reviews[me.req.order] # NoReview
    /\ me.pc \in {"write", "lock"} => me.restaurant = NoTally
    /\ me.patch.rating # Keep => me.req.kind = "update" /\ me.req.value # Keep
    /\ me.patch.hidden # Keep => me.req.kind = "moderate"
    /\ me.patch.replied \in {Keep, TRUE}
    /\ me.patch.edited \in {Keep, TRUE}
    /\ me.req.kind = "update" /\ me.patch.edited = Keep =>
         reviews[me.req.order].edited

\* What a session counted is what its commit leaves, and all but new reviews are
\* counted on the restaurant as it is.
TallyFits(me) ==
  /\ me.update /\ me.req.kind # "create" => me.restaurant = aggregate
  /\ \/ me.pc = "commit" /\ me.update /\ me.tally = Distribution(Seen(me))
     \/ ~(me.pc = "commit" /\ me.update) /\ me.tally = NoTally

SessionsFit ==
  \A s \in Sessions : /\ LocksFit(sess[s]) /\ TallyFits(sess[s])
                      /\ CreateFits(sess[s]) /\ EditFits(sess[s])

ReviewsInv == TypeOK /\ LocksExclude /\ SessionsFit

-----------------------------------------------------------------------------
(* What the rating promises                                                 *)

\* A new review was counted by a session that had loaded the restaurant before
\* another changed its rating.
StaleCreate ==
  \E s \in Sessions :
    At(s, "commit", {"create"}) /\ sess[s].restaurant # aggregate

\* Whatever changes the visible reviews leaves the rating that they have,
\* however requests overlap, except a new review counted on an old restaurant
\* object; and no commit ever writes a rating that is not the rating of the
\* reviews it leaves.
RatingFollowsReviews ==
  [][/\ Distribution(reviews') # Distribution(reviews) =>
          aggregate' = Distribution(reviews') \/ StaleCreate
     /\ aggregate'.average # aggregate.average =>
          aggregate'.average = Distribution(reviews').average
     /\ aggregate'.total # aggregate.total =>
          aggregate'.total = Distribution(reviews').total]_vars

\* As long as a review is there, its rating changes only with the mark of an
\* edit, the mark and the owner's reply stay, and only a moderation shows a hidden
\* review again: requests that loaded the row before another changed it take
\* nothing of that back.
EditsAreMarked ==
  [][\A o \in Orders : reviews[o] # NoReview /\ reviews'[o] # NoReview =>
       /\ reviews'[o].rating # reviews[o].rating => reviews'[o].edited
       /\ reviews[o].edited => reviews'[o].edited
       /\ reviews[o].replied => reviews'[o].replied
       /\ reviews[o].hidden /\ ~reviews'[o].hidden =>
            \E s \in Sessions : /\ At(s, "commit", {"moderate"})
                                /\ sess[s].req.order = o]_vars

\* Requests wait for each other in a cycle only if two of them are new reviews,
\* which share the lock that keeps each from the exclusive one.
OnlyCreatesDeadlock ==
  \A S \in SUBSET Sessions : S # {} /\ Deadlocked(S) =>
    Cardinality({s \in S : sess[s].req.kind = "create"}) >= 2

\* The rating is always that of the visible reviews.
RatingExact == aggregate = Distribution(reviews)
=============================================================================
