------------------------- MODULE AccountsProperties -------------------------
(***************************************************************************)
(* What the tokens and the password of an account promise although nothing *)
(* is locked between a check and what follows from it.                     *)
(***************************************************************************)
EXTENDS Accounts

\* What s has read was as it is to be, and no longer is.
Overtaken(s) ==
  LET me == sess[s] IN
  \/ /\ At(s, "commit", {"login", "change"})
     /\ me.password = me.req.password /\ me.password # account.password
  \/ At(s, "commit", {"login", "refresh"}) /\ me.claim /\ ~account.is_active
  \/ At(s, "commit", {"refresh"}) /\ me.good /\ me.req.refresh \notin Live
  \/ At(s, "commit", {"reset"}) /\ me.good /\ resets[me.req.reset] # "live"

Successors(t) == {u \in Issued : tokens[u].parent = t}

Rotating(t) == {s \in Sessions : At(s, "commit", {"refresh"}) /\ sess[s].req.refresh = t}

\* A refresh token is exchanged once, or by requests that all were under way when
\* the first exchanged it: never more often than requests run at a time, and no
\* exchange is under way or done while the token still counts as unused.
RotationsOverlap ==
  \A t \in Tokens :
    /\ Cardinality(Successors(t)) + Cardinality(Rotating(t)) <= Cardinality(Sessions)
    /\ t \in Live => Successors(t) = {}

\* When a session is ended it stays ended: no token that a completed logout, log-out
\* from all devices, reset or exchange was to end can be exchanged afterwards, even
\* if another request uses or ends it at the same time.  What a reset leaves was
\* issued after the reset had begun.
EndedForGood ==
  [][/\ \A s \in Sessions :
          /\ CommitReset(s) => Live' \cap sess[s].known = {}
          /\ CommitLogout(s) =>
               IF sess[s].req.kind = "logout_all" THEN Live' \cap sess[s].known = {}
               ELSE sess[s].req.refresh \notin Live'
          /\ CommitRefresh(s) => sess[s].req.refresh \notin Live'
     /\ Live' \cap Issued \subseteq Live]_vars

\* A password is replaced only by one who knew that very password, or who holds a
\* reset token that nobody has used, unless it was replaced since the request looked.
\* A deleted account stays deleted.
ReplacedByItsOwner ==
  [][/\ account'.password # account.password =>
          \E s \in Sessions :
            \/ At(s, "commit", {"change"}) /\ sess[s].req.password = account.password
            \/ At(s, "commit", {"reset"}) /\ resets[sess[s].req.reset] = "live"
            \/ Overtaken(s)
     /\ account'.is_active => account.is_active]_vars

\* Tokens that open a session are issued only for an active account, to one who knew
\* its password or exchanged a token that was still good, unless that changed since
\* the request looked.
IssuedInGoodStanding ==
  [][\A t \in Tokens \ Issued : tokens'[t].access =>
       \E s \in Sessions :
         \/ /\ At(s, "commit", {"login"})
            /\ account.is_active /\ sess[s].req.password = account.password
         \/ /\ At(s, "commit", {"refresh"})
            /\ account.is_active /\ sess[s].req.refresh \in Live
         \/ Overtaken(s)]_vars

\* A reset revokes all active sessions and forces every client to log in again.
ResetForcesLogin == [][\A s \in Sessions : CommitReset(s) => Live' = {}]_vars
=============================================================================
