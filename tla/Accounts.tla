------------------------------ MODULE Accounts ------------------------------
(***************************************************************************)
(* One user's account and the sessions it is used in: AuthService (login,  *)
(* refresh_access_token, logout, forgot_password, reset_password,          *)
(* change_password), the deletion of the account (UserService) and the     *)
(* access check of every authenticated request.                            *)
(*                                                                         *)
(* Rows are read without a lock, checked, and written at the end of a      *)
(* transaction of their own; an UPDATE waits for another's uncommitted     *)
(* UPDATE of the row and then writes its own value all the same.  Only     *)
(* reset_password reads on after its first write: it holds the user's row  *)
(* while it looks for the tokens to revoke.  Redis, which knows the        *)
(* revoked access tokens, is written at once and never rolled back.        *)
(*                                                                         *)
(* An access token and the refresh token handed out with it go by one id.  *)
(***************************************************************************)
EXTENDS Naturals, FiniteSets

CONSTANTS
  Tokens,    \* ids of refresh_tokens rows; bounds how many are ever issued
  Resets,    \* ids of password_resets rows; bounds how many are ever issued
  Passwords, \* passwords of the account
  Sessions,  \* concurrent HTTP requests
  NoToken, NoReset, NoPassword

ASSUME AccountsAssumption ==
  NoToken \notin Tokens /\ NoReset \notin Resets /\ NoPassword \notin Passwords

VARIABLES
  account, \* committed users row
  tokens,  \* committed refresh_tokens rows, and the access tokens in Redis' eyes
  resets,  \* committed password_resets rows
  sess     \* per session: program counter, request, what it read

vars == <<account, tokens, resets, sess>>

\* outdated: the hash was made with parameters since replaced.  is_active falls
\* together with the setting of deleted_at.
User == [password: Passwords, outdated: BOOLEAN, is_active: BOOLEAN]

\* refresh is over when revoked or expired, and no query tells these apart but the
\* one that revokes.  access: the access token is accepted, as its is_active claim is
\* set and it is not blacklisted.  parent, never read by the code, is the token it
\* was issued for.
Token == [refresh: {"unissued", "live", "over"},
          access: BOOLEAN,
          parent: Tokens \cup {NoToken}]

UnissuedToken == [refresh |-> "unissued", access |-> FALSE, parent |-> NoToken]

\* over: used or expired.
ResetLife == {"unissued", "live", "over"}

\* access and refresh are the tokens sent along (access is forgotten when it is not
\* looked at again), password is the one the client proves to know and new the one
\* it wants.
Request(kinds, accesses, refreshes, ids, passwords, news) ==
  [kind: kinds, access: accesses, refresh: refreshes, reset: ids,
   password: passwords, new: news]

NoTokens    == {NoToken}
AnyToken    == Tokens \cup {NoToken}
NoPasswords == {NoPassword}

LoginRequests ==
  Request({"login"}, NoTokens, NoTokens, {NoReset}, Passwords, NoPasswords)

RefreshRequests ==
  Request({"refresh"}, NoTokens, Tokens, {NoReset}, NoPasswords, NoPasswords)

LogoutRequests ==
  Request({"logout"}, AnyToken, AnyToken, {NoReset}, NoPasswords, NoPasswords)
    \cup Request({"logout_all"}, AnyToken, NoTokens, {NoReset}, NoPasswords, NoPasswords)

ResetRequests ==
  Request({"reset"}, NoTokens, NoTokens, Resets, NoPasswords, Passwords)

UserRequests ==
  Request({"change"}, AnyToken, NoTokens, {NoReset}, Passwords, Passwords)
    \cup Request({"delete"}, AnyToken, NoTokens, {NoReset}, NoPasswords, NoPasswords)

Requests ==
  LoginRequests \cup RefreshRequests \cup LogoutRequests \cup ResetRequests
    \cup UserRequests

NoRequest == [kind |-> "none", access |-> NoToken, refresh |-> NoToken, reset |-> NoReset,
              password |-> NoPassword, new |-> NoPassword]

PCs == {"idle", "load", "blacklist", "lock", "find", "commit"}

\* What was loaded: password, claim (is_active) and rehash (outdated) of the user,
\* good, whether the token or reset sent along is valid, and found, the tokens to be
\* revoked.  known, never read by the code, are the tokens issued before a request
\* that is to revoke them all.
Session == [pc: PCs, req: Requests \cup {NoRequest}, password: Passwords \cup {NoPassword},
            claim: BOOLEAN, rehash: BOOLEAN, good: BOOLEAN,
            found: SUBSET Tokens, known: SUBSET Tokens]

Idle == [pc |-> "idle", req |-> NoRequest, password |-> NoPassword,
         claim |-> FALSE, rehash |-> FALSE, good |-> FALSE, found |-> {}, known |-> {}]

TypeOK ==
  /\ account \in User
  /\ tokens \in [Tokens -> Token]
  /\ resets \in [Resets -> ResetLife]
  /\ sess \in [Sessions -> Session]

Init ==
  /\ account \in [password: Passwords, outdated: BOOLEAN, is_active: {TRUE}]
  /\ tokens = [t \in Tokens |-> UnissuedToken]
  /\ resets = [r \in Resets |-> "unissued"]
  /\ sess = [s \in Sessions |-> Idle]

-----------------------------------------------------------------------------

At(s, pc, kinds) == sess[s].pc = pc /\ sess[s].req.kind \in kinds

Live == {t \in Tokens : tokens[t].refresh = "live"}

Issued == {t \in Tokens : tokens[t].refresh # "unissued"}

Step(s, local) ==
  /\ sess' = [sess EXCEPT ![s] = local]
  /\ UNCHANGED <<account, tokens, resets>>

Done(s) == sess' = [sess EXCEPT ![s] = Idle]

Begin(s, q, local) ==
  /\ sess[s].pc = "idle"
  /\ Step(s, [local EXCEPT !.req = q,
                !.known = IF q.kind \in {"logout_all", "reset"} THEN Issued ELSE {}])

\* get_current_user: the token and what it claims, not the account.
CurrentUser(q) == q.access \in Tokens /\ tokens[q.access].access

\* No other request holds the users row.
UserRowFree(s) ==
  ~\E r \in Sessions \ {s} : sess[r].req.kind = "reset" /\ sess[r].pc \in {"find", "commit"}

Revoke(all) ==
  [t \in Tokens |-> IF t \in all THEN [tokens[t] EXCEPT !.refresh = "over"] ELSE tokens[t]]

\* A new pair; the claims are those of the loaded user.
Pair(claim, for) ==
  [refresh |-> "live", access |-> claim, parent |-> for]

-----------------------------------------------------------------------------
(* login, refresh_access_token                                              *)

\* get_by_email does not find a deleted account.  The address is taken to have been
\* verified, without which there is no login.
LoadForLogin(s, q) ==
  /\ account.is_active /\ q.password = account.password
  /\ Begin(s, q, [Idle EXCEPT !.pc = "commit", !.password = account.password,
                !.claim = account.is_active, !.rehash = account.outdated])

Rehashes(s) == At(s, "commit", {"login"}) /\ sess[s].rehash

\* A hash with outdated parameters is replaced, and the user loaded again.
CommitLogin(s) ==
  LET me == sess[s] IN
  /\ At(s, "commit", {"login"})
  /\ Rehashes(s) => UserRowFree(s)
  /\ account' = IF Rehashes(s)
                THEN [account EXCEPT !.password = me.req.password, !.outdated = FALSE]
                ELSE account
  /\ \E t \in Tokens \ Issued :
       tokens' = [tokens EXCEPT ![t] =
         Pair(IF Rehashes(s) THEN account.is_active ELSE me.claim, NoToken)]
  /\ Done(s) /\ UNCHANGED resets

\* Mutant (for the checks only): finds the token whether revoked or not.
LoadRefreshToken_Replayed(s, q) ==
  /\ tokens[q.refresh].refresh # "unissued"
  /\ Begin(s, q, [Idle EXCEPT !.pc = "commit", !.claim = account.is_active,
                !.good = q.refresh \in Live])

\* get_refresh_token_by_hash, and the user with it, deleted or not.
LoadRefreshToken(s, q) ==
  /\ tokens[q.refresh].refresh = "live"
  /\ Begin(s, q, [Idle EXCEPT !.pc = "commit", !.claim = account.is_active,
                !.good = q.refresh \in Live])

\* Mutant (for the checks only): issues without revoking.
CommitRefresh_Keeps(s) ==
  LET me == sess[s] IN
  /\ At(s, "commit", {"refresh"})
  /\ \E t \in Tokens \ Issued :
       tokens' = [tokens EXCEPT ![t] = Pair(me.claim, me.req.refresh)]
  /\ Done(s) /\ UNCHANGED <<account, resets>>

CommitRefresh(s) ==
  LET me == sess[s] IN
  /\ At(s, "commit", {"refresh"})
  /\ \E t \in Tokens \ Issued :
       tokens' = [Revoke({me.req.refresh}) EXCEPT ![t] = Pair(me.claim, me.req.refresh)]
  /\ Done(s) /\ UNCHANGED <<account, resets>>

-----------------------------------------------------------------------------
(* logout                                                                   *)

Authenticate(s, q) ==
  /\ CurrentUser(q)
  /\ q.refresh \in Issued \cup {NoToken}
  /\ Begin(s, q, [Idle EXCEPT !.pc = "blacklist"])

BlacklistAccessToken(s) ==
  /\ sess[s].pc = "blacklist"
  /\ tokens' = [tokens EXCEPT ![sess[s].req.access].access = FALSE]
  /\ sess' = [sess EXCEPT ![s].pc = "find", ![s].req.access = NoToken]
  /\ UNCHANGED <<account, resets>>

\* Mutant (for the checks only): looks for the token even if none was sent.
Revocable_NoneSent(q) == IF q.kind = "logout" THEN {q.refresh} ELSE Live

\* What the logout, or the reset, is to revoke: the token sent along if it is still
\* good, or all (an expired one that is revoked is no less over).
Revocable(q) == IF q.kind = "logout" THEN {q.refresh} \cap Live ELSE Live

FindTokens(s) ==
  /\ At(s, "find", {"logout", "logout_all", "reset"})
  /\ Step(s, [sess[s] EXCEPT !.pc = "commit", !.found = Revocable(sess[s].req)])

CommitLogout(s) ==
  /\ At(s, "commit", {"logout", "logout_all"})
  /\ tokens' = Revoke(sess[s].found)
  /\ Done(s) /\ UNCHANGED <<account, resets>>

-----------------------------------------------------------------------------
(* forgot_password, reset_password, change_password                         *)

ForgotPassword ==
  /\ account.is_active
  /\ \E r \in Resets : resets[r] = "unissued" /\ resets' = [resets EXCEPT ![r] = "live"]
  /\ UNCHANGED <<account, tokens, sess>>

\* get_valid_password_reset, then the user, deleted or not.
LoadPasswordReset(s, q) ==
  /\ resets[q.reset] = "live"
  /\ Begin(s, q, [Idle EXCEPT !.pc = "lock", !.good = resets[q.reset] = "live"])

\* The writes of the reset and of the user, not committed.
LockUser(s) ==
  /\ sess[s].pc = "lock" /\ UserRowFree(s)
  /\ Step(s, [sess[s] EXCEPT !.pc = "find"])

CommitReset(s) ==
  LET q == sess[s].req IN
  /\ At(s, "commit", {"reset"})
  /\ account' = [account EXCEPT !.password = q.new, !.outdated = FALSE]
  /\ resets' = [resets EXCEPT ![q.reset] = "over"]
  /\ tokens' = Revoke(sess[s].found)
  /\ Done(s)

\* For change_password and the deletion: the access check, then a query.
AuthenticateForUser(s, q) ==
  /\ CurrentUser(q)
  /\ Begin(s, [q EXCEPT !.access = NoToken], [Idle EXCEPT !.pc = "load"])

\* Mutant (for the checks only): takes any current password.
LoadUser_AnyPassword(s) ==
  /\ sess[s].pc = "load"
  /\ sess[s].req.kind = "delete" => account.is_active
  /\ Step(s, [sess[s] EXCEPT !.pc = "commit", !.password = account.password])

\* change_password finds a deleted account too.
LoadUser(s) ==
  LET q == sess[s].req IN
  /\ sess[s].pc = "load"
  /\ q.kind = "change" => q.password = account.password
  /\ q.kind = "delete" => account.is_active
  /\ Step(s, [sess[s] EXCEPT !.pc = "commit", !.password = account.password])

CommitUser(s) ==
  LET q == sess[s].req IN
  /\ At(s, "commit", {"change", "delete"}) /\ UserRowFree(s)
  /\ account' = IF q.kind = "change"
                THEN [account EXCEPT !.password = q.new, !.outdated = FALSE]
                ELSE [account EXCEPT !.is_active = FALSE]
  /\ Done(s) /\ UNCHANGED <<tokens, resets>>

-----------------------------------------------------------------------------

\* Time passes.  An access token is taken to last: it does no more than allow
\* requests.
ExpireRefresh(t) ==
  /\ tokens[t].refresh = "live"
  /\ tokens' = [tokens EXCEPT ![t].refresh = "over"]
  /\ UNCHANGED <<account, resets, sess>>

ExpireReset(r) ==
  /\ resets[r] = "live"
  /\ resets' = [resets EXCEPT ![r] = "over"]
  /\ UNCHANGED <<account, tokens, sess>>

\* A check fails, or the database or the process does: the transaction is rolled
\* back, what is in Redis stays.
Abort(s) == sess[s].pc # "idle" /\ Step(s, Idle)

Next ==
  \/ \E s \in Sessions :
       \/ \E q \in LoginRequests : LoadForLogin(s, q)
       \/ \E q \in RefreshRequests : LoadRefreshToken(s, q)
       \/ \E q \in LogoutRequests : Authenticate(s, q)
       \/ \E q \in ResetRequests : LoadPasswordReset(s, q)
       \/ \E q \in UserRequests : AuthenticateForUser(s, q)
       \/ BlacklistAccessToken(s) \/ LockUser(s) \/ LoadUser(s) \/ FindTokens(s)
       \/ CommitLogin(s) \/ CommitRefresh(s) \/ CommitLogout(s)
       \/ CommitReset(s) \/ CommitUser(s)
       \/ Abort(s)
  \/ ForgotPassword
  \/ \E t \in Tokens : ExpireRefresh(t)
  \/ \E r \in Resets : ExpireReset(r)

Spec == Init /\ [][Next]_vars
=============================================================================
