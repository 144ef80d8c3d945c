--------------------------- MODULE AccountsProofs ---------------------------
(***************************************************************************)
(* For any number of tokens, passwords and overlapping requests: what was  *)
(* ended stays ended, a token is exchanged only by requests that overlap,  *)
(* and passwords and tokens are given out to whom they belonged when the   *)
(* request looked.  Nothing is locked; the argument is that tokens only    *)
(* ever go from unissued to live and from live to over, so that what a     *)
(* request has found to end covers all it had to end, however long ago it  *)
(* looked.                                                                 *)
(***************************************************************************)
EXTENDS AccountsProperties, FiniteSetTheorems, TLAPS

-----------------------------------------------------------------------------
(* The inductive invariant                                                  *)

\* What a session's record says of its request and of the tokens.
Fit(me) ==
  LET q == me.req IN
  /\ me.pc = "load" => q.kind \in {"change", "delete"}
  /\ me.pc = "lock" => q.kind = "reset"
  /\ me.pc = "blacklist" => q.kind \in {"logout", "logout_all"}
  /\ me.known \subseteq Issued /\ me.found \subseteq Issued
  /\ q.kind = "refresh" => q.refresh \in Issued /\ me.good
  /\ q.kind = "logout" => q.refresh \in Issued \cup {NoToken}
  /\ q.kind = "reset" => me.good
  /\ me.pc = "commit" /\ q.kind \in {"reset", "logout_all"} =>
       Live \cap me.known \subseteq me.found
  /\ me.pc = "commit" /\ q.kind = "logout" => {q.refresh} \cap Live \subseteq me.found
  /\ me.pc = "commit" /\ q.kind \in {"login", "change"} => me.password = q.password
  /\ me.pc = "commit" /\ q.kind = "login" => me.claim

SessionsFit == \A s \in Sessions : Fit(sess[s])

TokensFit ==
  \A t \in Tokens :
    /\ tokens[t].refresh = "unissued" => ~tokens[t].access
    /\ t \in Issued => tokens[t].parent \in Issued \cup {NoToken}

AccountsInv == TypeOK /\ SessionsFit /\ TokensFit

\* The order in which tokens live.
OnlyForward == Issued \subseteq Issued' /\ Live' \cap Issued \subseteq Live

-----------------------------------------------------------------------------
(* Requests and sessions                                                    *)

\* What the routes let through.
LEMMA RequestFields ==
  ASSUME NEW q \in Requests \cup {NoRequest}
  PROVE  /\ q.kind \in {"none", "login", "refresh", "logout", "logout_all", "reset",
                        "change", "delete"}
         /\ q.kind \in {"login", "change"} => q.password \in Passwords
         /\ q.kind \in {"reset", "change"} => q.new \in Passwords
         /\ q.kind = "refresh" => q.refresh \in Tokens
         /\ q.kind = "reset" => q.reset \in Resets
         /\ q.kind \in {"logout", "logout_all"} => q.access \in Tokens \cup {NoToken}
         /\ q.kind \in {"logout", "logout_all", "change", "delete"} =>
              [q EXCEPT !.access = NoToken] \in Requests
<1>. USE DEF Request, NoTokens, AnyToken, NoPasswords
<1>1. CASE q \in LoginRequests \/ q \in RefreshRequests \/ q = NoRequest
  BY <1>1 DEF LoginRequests, RefreshRequests, NoRequest
<1>2. CASE q \in LogoutRequests
  <2>1. [q EXCEPT !.access = NoToken] \in LogoutRequests
    BY <1>2 DEF LogoutRequests
  <2>. QED  BY <1>2, <2>1 DEF LogoutRequests, Requests
<1>3. CASE q \in ResetRequests
  BY <1>3 DEF ResetRequests
<1>4. CASE q \in UserRequests
  <2>1. [q EXCEPT !.access = NoToken] \in UserRequests
    BY <1>4 DEF UserRequests
  <2>. QED  BY <1>4, <2>1 DEF UserRequests, Requests
<1>. QED
  BY <1>1, <1>2, <1>3, <1>4 DEF Requests

\* What a session record holds.
LEMMA Loaded ==
  ASSUME TypeOK, NEW s \in Sessions
  PROVE  /\ sess[s] \in Session
         /\ sess[s].req \in Requests \cup {NoRequest}
         /\ sess[s].found \subseteq Tokens /\ sess[s].claim \in BOOLEAN
BY DEF TypeOK, Session

LEMMA IdleFits ==
  /\ Idle \in Session /\ Fit(Idle)
  /\ Idle.pc = "idle" /\ Idle.req.kind = "none"
  /\ Idle.known = {} /\ Idle.found = {}
<1>1. /\ Idle.pc = "idle" /\ Idle.req.kind = "none"
      /\ Idle.known = {} /\ Idle.found = {}
  BY DEF Idle, NoRequest
<1>2. Idle \in Session
  BY DEF Idle, Session, PCs
<1>. QED
  BY <1>1, <1>2 DEF Fit

\* A record that fits goes on to fit while tokens only go forward.
LEMMA StaysFit ==
  ASSUME NEW s \in Sessions, Fit(sess[s]), sess'[s] = sess[s], OnlyForward
  PROVE  Fit(sess[s])'
<1> DEFINE me == sess[s]
           q == sess[s].req
<1>1. /\ me.known \subseteq Issued' /\ me.found \subseteq Issued'
      /\ Live \cap me.known \subseteq me.found => Live' \cap me.known \subseteq me.found
  BY DEF Fit, OnlyForward
<1>2. /\ q.refresh \in Issued => q.refresh \in Issued'
      /\ q.refresh \in Issued \cup {NoToken} =>
           q.refresh \in Issued' \cup {NoToken} /\ {q.refresh} \cap Live' \subseteq Live
  BY AccountsAssumption DEF OnlyForward, Live
<1>. QED
  BY <1>1, <1>2 DEF Fit

LEMMA LocalStep ==
  ASSUME AccountsInv, NEW s \in Sessions, NEW local, local \in Session, Fit(local),
         Step(s, local)
  PROVE  AccountsInv' /\ OnlyForward
<1>1. /\ sess' = [sess EXCEPT ![s] = local]
      /\ account' = account /\ tokens' = tokens /\ resets' = resets
  BY DEF Step
<1>2. TypeOK /\ sess \in [Sessions -> Session]
  BY DEF AccountsInv, TypeOK
<1>3. Issued' = Issued /\ Live' = Live
  BY <1>1 DEF Issued, Live
<1>4. TypeOK' /\ TokensFit'
  BY <1>1, <1>2, <1>3 DEF AccountsInv, TypeOK, TokensFit
<1>5. SessionsFit'
  <2>1. SUFFICES ASSUME NEW t \in Sessions
                 PROVE  Fit(sess[t])'
    BY DEF SessionsFit
  <2>2. Fit(sess'[t])
    BY <1>1, <1>2 DEF AccountsInv, SessionsFit
  <2>. QED  BY <1>3, <2>2 DEF Fit
<1>. QED
  BY <1>3, <1>4, <1>5 DEF AccountsInv, OnlyForward

\* A step that lets tokens only go forward keeps the invariant, if s is done.
LEMMA CommitStep ==
  ASSUME AccountsInv, NEW s \in Sessions, Done(s),
         account' \in User, tokens' \in [Tokens -> Token],
         resets' \in [Resets -> ResetLife], TokensFit', OnlyForward
  PROVE  AccountsInv'
<1>1. TypeOK /\ sess \in [Sessions -> Session] /\ sess' = [sess EXCEPT ![s] = Idle]
  BY DEF AccountsInv, TypeOK, Done
<1>2. sess'[s] = Idle /\ \A t \in Sessions \ {s} : sess'[t] = sess[t]
  BY <1>1
<1>3. TypeOK'
  BY <1>1, IdleFits DEF TypeOK
<1>4. SessionsFit'
  <2>1. SUFFICES ASSUME NEW t \in Sessions
                 PROVE  Fit(sess[t])'
    BY DEF SessionsFit
  <2>2. CASE t = s
    <3>1. /\ sess'[t].pc = "idle" /\ sess'[t].req.kind = "none"
          /\ sess'[t].known = {} /\ sess'[t].found = {}
      BY <1>2, <2>2, IdleFits
    <3>. QED  BY <3>1 DEF Fit
  <2>3. CASE t # s
    <3>1. Fit(sess[t])
      BY DEF AccountsInv, SessionsFit
    <3>. QED  BY <1>2, <2>3, <3>1, StaysFit
  <2>. QED  BY <2>2, <2>3
<1>. QED
  BY <1>3, <1>4 DEF AccountsInv

-----------------------------------------------------------------------------
(* Reading                                                                  *)

LEMMA BeginInv ==
  ASSUME AccountsInv, NEW s \in Sessions,
         \/ \E q \in LoginRequests : LoadForLogin(s, q)
         \/ \E q \in RefreshRequests : LoadRefreshToken(s, q)
         \/ \E q \in LogoutRequests : Authenticate(s, q)
         \/ \E q \in ResetRequests : LoadPasswordReset(s, q)
         \/ \E q \in UserRequests : AuthenticateForUser(s, q)
  PROVE  AccountsInv' /\ OnlyForward
<1>. USE DEF Request, NoTokens, AnyToken, NoPasswords
<1>1. TypeOK /\ account \in User /\ Issued \subseteq Tokens
  BY DEF AccountsInv, TypeOK, Issued
<1>2. ASSUME NEW q \in LoginRequests, LoadForLogin(s, q)
      PROVE  AccountsInv' /\ OnlyForward
  <2> DEFINE local == [[Idle EXCEPT !.pc = "commit", !.password = account.password,
                          !.claim = account.is_active, !.rehash = account.outdated]
                         EXCEPT !.req = q, !.known = {}]
  <2>1. q.kind = "login" /\ q \in Requests
    BY <1>2 DEF LoginRequests, Requests
  <2>2. account.is_active /\ q.password = account.password /\ Step(s, local)
    BY <1>2, <2>1 DEF LoadForLogin, Begin
  <2>3. /\ local \in Session /\ local.pc = "commit" /\ local.req = q
        /\ local.password = account.password /\ local.claim = account.is_active
        /\ local.known = {} /\ local.found = {}
    BY <1>1, <2>1 DEF Session, Idle, User, PCs
  <2>. HIDE DEF local
  <2>4. Fit(local)
    BY <2>1, <2>2, <2>3 DEF Fit
  <2>. QED  BY <2>2, <2>3, <2>4, LocalStep
<1>3. ASSUME NEW q \in RefreshRequests, LoadRefreshToken(s, q)
      PROVE  AccountsInv' /\ OnlyForward
  <2> DEFINE local == [[Idle EXCEPT !.pc = "commit", !.claim = account.is_active,
                          !.good = q.refresh \in Live]
                         EXCEPT !.req = q, !.known = {}]
  <2>1. q.kind = "refresh" /\ q \in Requests /\ q.refresh \in Tokens
    BY <1>3 DEF RefreshRequests, Requests
  <2>2. tokens[q.refresh].refresh = "live" /\ Step(s, local)
    BY <1>3, <2>1 DEF LoadRefreshToken, Begin
  <2>3. q.refresh \in Live /\ q.refresh \in Issued
    BY <2>1, <2>2 DEF Live, Issued
  <2>4. /\ local \in Session /\ local.pc = "commit" /\ local.req = q
        /\ local.good /\ local.known = {} /\ local.found = {}
    BY <1>1, <2>1, <2>3 DEF Session, Idle, User, PCs
  <2>. HIDE DEF local
  <2>5. Fit(local)
    BY <2>1, <2>3, <2>4 DEF Fit
  <2>. QED  BY <2>2, <2>4, <2>5, LocalStep
<1>4. ASSUME NEW q \in LogoutRequests, Authenticate(s, q)
      PROVE  AccountsInv' /\ OnlyForward
  <2> DEFINE local == [[Idle EXCEPT !.pc = "blacklist"]
                         EXCEPT !.req = q,
                                !.known = IF q.kind \in {"logout_all", "reset"}
                                          THEN Issued ELSE {}]
  <2>1. q.kind \in {"logout", "logout_all"} /\ q \in Requests
    BY <1>4 DEF LogoutRequests, Requests
  <2>2. q.refresh \in Issued \cup {NoToken} /\ Step(s, local)
    BY <1>4 DEF Authenticate, Begin
  <2>3. /\ local \in Session /\ local.pc = "blacklist" /\ local.req = q
        /\ local.known \subseteq Issued /\ local.found = {}
    BY <1>1, <2>1 DEF Session, Idle, PCs
  <2>. HIDE DEF local
  <2>4. Fit(local)
    BY <2>1, <2>2, <2>3 DEF Fit
  <2>. QED  BY <2>2, <2>3, <2>4, LocalStep
<1>5. ASSUME NEW q \in ResetRequests, LoadPasswordReset(s, q)
      PROVE  AccountsInv' /\ OnlyForward
  <2> DEFINE local == [[Idle EXCEPT !.pc = "lock", !.good = resets[q.reset] = "live"]
                         EXCEPT !.req = q, !.known = Issued]
  <2>1. q.kind = "reset" /\ q \in Requests
    BY <1>5 DEF ResetRequests, Requests
  <2>2. resets[q.reset] = "live" /\ Step(s, local)
    BY <1>5, <2>1 DEF LoadPasswordReset, Begin
  <2>3. /\ local \in Session /\ local.pc = "lock" /\ local.req = q
        /\ local.good /\ local.known = Issued /\ local.found = {}
    BY <1>1, <2>1, <2>2 DEF Session, Idle, PCs
  <2>. HIDE DEF local
  <2>4. Fit(local)
    BY <2>1, <2>3 DEF Fit
  <2>. QED  BY <2>2, <2>3, <2>4, LocalStep
<1>6. ASSUME NEW q \in UserRequests, AuthenticateForUser(s, q)
      PROVE  AccountsInv' /\ OnlyForward
  <2> DEFINE p == [q EXCEPT !.access = NoToken]
             local == [[Idle EXCEPT !.pc = "load"] EXCEPT !.req = p, !.known = {}]
  <2>1. q.kind \in {"change", "delete"} /\ q \in Requests
    BY <1>6 DEF UserRequests, Requests
  <2>2. p \in Requests /\ p.kind = q.kind
    <3>1. p.kind = q.kind
      BY <1>6 DEF UserRequests
    <3>. QED  BY <2>1, <3>1, RequestFields
  <2>. HIDE DEF p
  <2>3. Step(s, local)
    BY <1>6, <2>1, <2>2 DEF AuthenticateForUser, Begin, p
  <2>4. /\ local \in Session /\ local.pc = "load" /\ local.req = p
        /\ local.known = {} /\ local.found = {}
    BY <1>1, <2>2 DEF Session, Idle, PCs
  <2>. HIDE DEF local
  <2>5. Fit(local)
    BY <2>1, <2>2, <2>4 DEF Fit
  <2>. QED  BY <2>3, <2>4, <2>5, LocalStep
<1>. QED
  BY <1>2, <1>3, <1>4, <1>5, <1>6

LEMMA ReadInv ==
  ASSUME AccountsInv, NEW s \in Sessions,
         LockUser(s) \/ LoadUser(s) \/ FindTokens(s) \/ Abort(s)
  PROVE  AccountsInv' /\ OnlyForward
<1> DEFINE me == sess[s]
<1>1. TypeOK /\ me \in Session /\ Fit(me) /\ Live \subseteq Issued
  BY Loaded DEF AccountsInv, SessionsFit, Live, Issued
<1>2. CASE LockUser(s)
  <2> DEFINE local == [me EXCEPT !.pc = "find"]
  <2>1. me.pc = "lock" /\ Step(s, local)
    BY <1>2 DEF LockUser
  <2>2. /\ local \in Session /\ local.pc = "find" /\ local.req = me.req
        /\ local.known = me.known /\ local.found = me.found /\ local.good = me.good
    BY <1>1 DEF Session, PCs
  <2>. HIDE DEF local
  <2>3. Fit(local)
    BY <1>1, <2>1, <2>2 DEF Fit
  <2>. QED  BY <2>1, <2>2, <2>3, LocalStep
<1>3. CASE LoadUser(s)
  <2> DEFINE local == [me EXCEPT !.pc = "commit", !.password = account.password]
  <2>1. /\ me.pc = "load" /\ Step(s, local)
        /\ me.req.kind = "change" => me.req.password = account.password
    BY <1>3 DEF LoadUser
  <2>2. account.password \in Passwords
    BY <1>1 DEF TypeOK, User
  <2>3. /\ local \in Session /\ local.pc = "commit" /\ local.req = me.req
        /\ local.known = me.known /\ local.found = me.found
        /\ local.password = account.password
    BY <1>1, <2>2 DEF Session, PCs
  <2>. HIDE DEF local
  <2>4. Fit(local)
    BY <1>1, <2>1, <2>3 DEF Fit
  <2>. QED  BY <2>1, <2>3, <2>4, LocalStep
<1>4. CASE FindTokens(s)
  <2> DEFINE local == [me EXCEPT !.pc = "commit", !.found = Revocable(me.req)]
  <2>1. /\ me.pc = "find" /\ me.req.kind \in {"logout", "logout_all", "reset"}
        /\ Step(s, local)
    BY <1>4 DEF FindTokens, At
  <2>2. /\ Revocable(me.req) \subseteq Live
        /\ me.req.kind = "logout" => Revocable(me.req) = {me.req.refresh} \cap Live
        /\ me.req.kind # "logout" => Revocable(me.req) = Live
    BY DEF Revocable
  <2>3. Live \subseteq Tokens
    BY DEF Live
  <2>4. /\ local \in Session /\ local.pc = "commit" /\ local.req = me.req
        /\ local.known = me.known /\ local.found = Revocable(me.req)
        /\ local.good = me.good
    BY <1>1, <2>2, <2>3 DEF Session, PCs
  <2>. HIDE DEF local
  <2>5. Fit(local)
    BY <1>1, <2>1, <2>2, <2>4 DEF Fit
  <2>. QED  BY <2>1, <2>4, <2>5, LocalStep
<1>5. CASE Abort(s)
  BY <1>5, IdleFits, LocalStep DEF Abort
<1>. QED
  BY <1>2, <1>3, <1>4, <1>5

-----------------------------------------------------------------------------
(* Writing tokens                                                           *)

\* Revoking issued tokens ends them and does nothing else.
LEMMA Revoked ==
  ASSUME TypeOK, TokensFit, NEW all, all \subseteq Issued, tokens' = Revoke(all)
  PROVE  /\ tokens' \in [Tokens -> Token] /\ TokensFit'
         /\ Issued' = Issued /\ Live' = Live \ all /\ OnlyForward
         /\ \A t \in Tokens : /\ tokens'[t].access = tokens[t].access
                              /\ tokens'[t].parent = tokens[t].parent
<1>1. \A t \in Tokens :
        /\ t \in all => tokens'[t] = [tokens[t] EXCEPT !.refresh = "over"]
        /\ t \notin all => tokens'[t] = tokens[t]
  BY DEF Revoke
<1>2. \A t \in Tokens : tokens[t] \in Token
  BY DEF TypeOK
<1>3. \A t \in Tokens : /\ tokens'[t] \in Token
                        /\ tokens'[t].access = tokens[t].access
                        /\ tokens'[t].parent = tokens[t].parent
                        /\ t \in all => tokens'[t].refresh = "over"
                        /\ t \notin all => tokens'[t].refresh = tokens[t].refresh
  BY <1>1, <1>2 DEF Token
<1>4. tokens' \in [Tokens -> Token]
  <2>1. tokens' = [t \in Tokens |-> tokens'[t]]
    BY DEF Revoke
  <2>. QED  BY <1>3, <2>1
<1>5. Issued' = Issued /\ Live' = Live \ all
  BY <1>3 DEF Issued, Live
<1>6. TokensFit'
  BY <1>3, <1>5 DEF TokensFit, Issued
<1>. QED
  BY <1>3, <1>4, <1>5, <1>6 DEF OnlyForward

\* A new pair, perhaps in exchange for an issued token.
LEMMA Paired ==
  ASSUME TypeOK, TokensFit, NEW for \in Issued \cup {NoToken}, NEW claim \in BOOLEAN,
         NEW t \in Tokens \ Issued,
         tokens' = [Revoke({for}) EXCEPT ![t] = Pair(claim, for)]
  PROVE  /\ tokens' \in [Tokens -> Token] /\ TokensFit'
         /\ Issued' = Issued \cup {t} /\ Live' = (Live \ {for}) \cup {t} /\ OnlyForward
         /\ tokens'[t].access = claim /\ tokens'[t].parent = for
         /\ \A u \in Tokens \ {t} : /\ tokens'[u].access = tokens[u].access
                                    /\ tokens'[u].parent = tokens[u].parent
<1>. USE AccountsAssumption
<1>1. Revoke({for}) = [u \in Tokens |-> IF u \in {for}
                                        THEN [tokens[u] EXCEPT !.refresh = "over"]
                                        ELSE tokens[u]]
  BY DEF Revoke
<1>2. for \in Tokens \cup {NoToken} /\ for # t
  BY DEF Issued
<1>3. /\ tokens'[t] = Pair(claim, for)
      /\ \A u \in Tokens \ {t} :
           /\ u = for => tokens'[u] = [tokens[u] EXCEPT !.refresh = "over"]
           /\ u # for => tokens'[u] = tokens[u]
      /\ tokens' = [u \in Tokens |-> tokens'[u]]
  BY <1>1
<1>4. /\ Pair(claim, for) \in Token /\ Pair(claim, for).refresh = "live"
      /\ Pair(claim, for).access = claim /\ Pair(claim, for).parent = for
  BY <1>2 DEF Pair, Token
<1>5. \A u \in Tokens : tokens[u] \in Token
  BY DEF TypeOK
<1>6. \A u \in Tokens \ {t} : /\ tokens'[u] \in Token
                              /\ tokens'[u].access = tokens[u].access
                              /\ tokens'[u].parent = tokens[u].parent
                              /\ u = for => tokens'[u].refresh = "over"
                              /\ u # for => tokens'[u].refresh = tokens[u].refresh
  BY <1>3, <1>5 DEF Token
<1>7. tokens' \in [Tokens -> Token]
  BY <1>3, <1>4, <1>6
<1>8. Issued' = Issued \cup {t}
  <2>1. for \in Tokens => tokens[for].refresh # "unissued"
    BY DEF Issued
  <2>2. \A u \in Tokens \ {t} :
          tokens'[u].refresh = "unissued" <=> tokens[u].refresh = "unissued"
    BY <1>6, <2>1
  <2>. QED  BY <1>3, <1>4, <2>2 DEF Issued
<1>9. Live' = (Live \ {for}) \cup {t}
  BY <1>2, <1>3, <1>4, <1>6 DEF Live
<1>10. TokensFit'
  <2>1. SUFFICES ASSUME NEW u \in Tokens
                 PROVE  /\ tokens'[u].refresh = "unissued" => ~tokens'[u].access
                        /\ u \in Issued' => tokens'[u].parent \in Issued' \cup {NoToken}
    BY DEF TokensFit
  <2>2. CASE u = t
    BY <1>3, <1>4, <1>8, <2>2
  <2>3. CASE u # t
    <3>1. /\ tokens'[u].access = tokens[u].access /\ tokens'[u].parent = tokens[u].parent
          /\ tokens'[u].refresh = "unissued" => tokens[u].refresh = "unissued"
      BY <1>6, <2>3
    <3>2. tokens'[u].refresh = "unissued" => ~tokens'[u].access
      <4>1. tokens[u].refresh = "unissued" => ~tokens[u].access
        BY DEF TokensFit
      <4>. QED  BY <3>1, <4>1, Zenon
    <3>. QED  BY <1>8, <2>3, <3>1, <3>2 DEF TokensFit
  <2>. QED  BY <2>2, <2>3
<1>. QED
  BY <1>3, <1>4, <1>6, <1>7, <1>8, <1>9, <1>10 DEF OnlyForward

-----------------------------------------------------------------------------
(* Commits                                                                  *)

\* What issuing tokens for a session's request rests on.
Entitled(s) ==
  \/ /\ At(s, "commit", {"login"})
     /\ account.is_active /\ sess[s].req.password = account.password
  \/ /\ At(s, "commit", {"refresh"})
     /\ account.is_active /\ sess[s].req.refresh \in Live
  \/ Overtaken(s)

\* What replacing the password rests on.
Replaces(s) ==
  \/ At(s, "commit", {"change"}) /\ sess[s].req.password = account.password
  \/ At(s, "commit", {"reset"}) /\ resets[sess[s].req.reset] = "live"
  \/ Overtaken(s)

\* A new pair is t's, issued for the token "for".
Issues(t, for) ==
  /\ t \in Tokens \ Issued /\ for \in Issued \cup {NoToken}
  /\ Issued' = Issued \cup {t} /\ Live' = (Live \ {for}) \cup {t}
  /\ tokens'[t].parent = for
  /\ \A u \in Tokens \ {t} : /\ tokens'[u].access = tokens[u].access
                             /\ tokens'[u].parent = tokens[u].parent

LEMMA LoginInv ==
  ASSUME AccountsInv, NEW s \in Sessions, CommitLogin(s)
  PROVE  /\ AccountsInv' /\ OnlyForward /\ Entitled(s)
         /\ \E t \in Tokens : Issues(t, NoToken)
         /\ account'.password # account.password => Overtaken(s)
         /\ account'.is_active = account.is_active
<1> DEFINE me == sess[s]
<1>. USE AccountsAssumption
<1>1. /\ TypeOK /\ TokensFit /\ Fit(me) /\ account \in User
      /\ tokens \in [Tokens -> Token]
  BY DEF AccountsInv, SessionsFit, TypeOK
<1>2. /\ me.pc = "commit" /\ me.req.kind = "login" /\ Done(s) /\ resets' = resets
      /\ account' = IF Rehashes(s)
                    THEN [account EXCEPT !.password = me.req.password, !.outdated = FALSE]
                    ELSE account
  BY DEF CommitLogin, At
<1>3. me.password = me.req.password /\ me.claim /\ me.req.password \in Passwords
  BY <1>1, <1>2, Loaded, RequestFields DEF Fit
<1>4. /\ account' \in User /\ account'.is_active = account.is_active
      /\ account'.password # account.password => account'.password = me.req.password
  BY <1>1, <1>2, <1>3 DEF User
<1>5. PICK t \in Tokens \ Issued :
        tokens' = [tokens EXCEPT ![t] =
          Pair(IF Rehashes(s) THEN account.is_active ELSE me.claim, NoToken)]
  BY DEF CommitLogin
<1> DEFINE claim == IF Rehashes(s) THEN account.is_active ELSE me.claim
<1>6. claim \in BOOLEAN
  BY <1>1, Loaded DEF User
<1>7. Revoke({NoToken}) = tokens
  BY <1>1 DEF Revoke
<1>8. tokens' = [Revoke({NoToken}) EXCEPT ![t] = Pair(claim, NoToken)]
  BY <1>5, <1>7
<1>. HIDE DEF claim
<1>9. /\ tokens' \in [Tokens -> Token] /\ TokensFit' /\ OnlyForward /\ Issues(t, NoToken)
  BY <1>1, <1>6, <1>8, Paired DEF Issues
<1>10. resets' \in [Resets -> ResetLife]
  BY <1>1, <1>2 DEF TypeOK
<1>11. AccountsInv'
  BY <1>2, <1>4, <1>9, <1>10, CommitStep
<1>12. Overtaken(s) \/ me.req.password = account.password
  BY <1>2, <1>3 DEF Overtaken, At
<1>13. Overtaken(s) \/ account.is_active
  BY <1>2, <1>3 DEF Overtaken, At
<1>. QED
  BY <1>2, <1>4, <1>9, <1>11, <1>12, <1>13 DEF Entitled, At

LEMMA RefreshInv ==
  ASSUME AccountsInv, NEW s \in Sessions, CommitRefresh(s)
  PROVE  /\ AccountsInv' /\ OnlyForward
         /\ \E t \in Tokens : Issues(t, sess[s].req.refresh)
         /\ \A t \in Tokens \ Issued : tokens'[t].access => Entitled(s)
         /\ sess[s].req.refresh \notin Live'
         /\ sess[s].req.refresh \in Issued /\ account' = account
<1> DEFINE me == sess[s]
           for == sess[s].req.refresh
<1>1. TypeOK /\ TokensFit /\ Fit(me)
  BY DEF AccountsInv, SessionsFit
<1>2. /\ me.pc = "commit" /\ me.req.kind = "refresh" /\ Done(s)
      /\ account' = account /\ resets' = resets
  BY DEF CommitRefresh, At
<1>3. for \in Issued /\ me.good /\ me.claim \in BOOLEAN
  BY <1>1, <1>2, Loaded DEF Fit
<1>4. PICK t \in Tokens \ Issued :
        tokens' = [Revoke({for}) EXCEPT ![t] = Pair(me.claim, for)]
  BY DEF CommitRefresh
<1>5. /\ tokens' \in [Tokens -> Token] /\ TokensFit' /\ OnlyForward /\ Issues(t, for)
      /\ tokens'[t].access = me.claim
  <2> DEFINE claim == me.claim
             parent == for
  <2>1. /\ tokens' = [Revoke({parent}) EXCEPT ![t] = Pair(claim, parent)]
        /\ claim \in BOOLEAN /\ parent \in Issued \cup {NoToken}
    BY <1>3, <1>4
  <2>. HIDE DEF claim, parent
  <2>2. /\ tokens' \in [Tokens -> Token] /\ TokensFit' /\ OnlyForward /\ Issues(t, parent)
    BY <1>1, <2>1, Paired DEF Issues
  <2>3. tokens'[t].access = claim
    BY <1>1, <2>1, Paired, Zenon
  <2>. QED  BY <2>2, <2>3 DEF claim, parent
<1>6. account' \in User /\ resets' \in [Resets -> ResetLife]
  BY <1>1, <1>2 DEF TypeOK
<1>7. AccountsInv'
  BY <1>2, <1>5, <1>6, CommitStep
<1>8. ASSUME NEW u \in Tokens \ Issued, tokens'[u].access
      PROVE  Entitled(s)
  <2>1. me.claim
    <3>1. ~tokens[u].access
      BY <1>1, <1>8 DEF TokensFit, Issued
    <3>2. u # t => tokens'[u].access = tokens[u].access
      BY <1>5, <1>8 DEF Issues
    <3>3. u = t
      BY <1>8, <3>1, <3>2, Zenon
    <3>. QED  BY <1>5, <1>8, <3>3, Zenon
  <2>2. Overtaken(s) \/ account.is_active
    BY <1>2, <2>1 DEF Overtaken, At
  <2>3. Overtaken(s) \/ for \in Live
    BY <1>2, <1>3 DEF Overtaken, At
  <2>. QED  BY <1>2, <2>2, <2>3 DEF Entitled, At
<1>9. for \notin Live'
  BY <1>3, <1>5 DEF Issues
<1>. QED
  BY <1>2, <1>3, <1>5, <1>7, <1>8, <1>9

LEMMA BlacklistInv ==
  ASSUME AccountsInv, NEW s \in Sessions, BlacklistAccessToken(s)
  PROVE  /\ AccountsInv' /\ OnlyForward /\ account' = account /\ Issued' = Issued
         /\ \A t \in Tokens : /\ tokens'[t].access => tokens[t].access
                              /\ tokens'[t].parent = tokens[t].parent
<1> DEFINE me == sess[s]
           k == me.req.access
           request == [me.req EXCEPT !.access = NoToken]
           local == [me EXCEPT !.pc = "find", !.req = request]
<1>1. /\ TypeOK /\ TokensFit /\ me \in Session /\ Fit(me)
      /\ tokens \in [Tokens -> Token] /\ sess \in [Sessions -> Session]
  BY Loaded DEF AccountsInv, SessionsFit, TypeOK
<1>2. /\ me.pc = "blacklist" /\ account' = account /\ resets' = resets
      /\ tokens' = [tokens EXCEPT ![k].access = FALSE]
      /\ sess' = [sess EXCEPT ![s].pc = "find", ![s].req.access = NoToken]
  BY DEF BlacklistAccessToken
<1>3. me.req.kind \in {"logout", "logout_all"}
  BY <1>1, <1>2 DEF Fit
<1>4. request \in Requests /\ me.req \in Requests \cup {NoRequest}
  BY <1>1, <1>3, Loaded, RequestFields
<1>5. request.kind = me.req.kind /\ request.refresh = me.req.refresh
  BY <1>4 DEF Requests, LoginRequests, RefreshRequests, LogoutRequests, ResetRequests,
              UserRequests, Request, NoRequest
<1>6. sess' = [sess EXCEPT ![s] = local]
  BY <1>1, <1>2 DEF Session
<1>. HIDE DEF request
<1>7. /\ local \in Session /\ local.pc = "find" /\ local.req = request
      /\ local.known = me.known /\ local.found = me.found
  BY <1>1, <1>4 DEF Session, PCs
<1>. HIDE DEF local
<1>8. \A t \in Tokens : /\ tokens'[t] \in Token
                        /\ tokens'[t].access => tokens[t].access
                        /\ tokens'[t].refresh = tokens[t].refresh
                        /\ tokens'[t].parent = tokens[t].parent
  <2>1. SUFFICES ASSUME NEW t \in Tokens
                 PROVE  /\ tokens'[t] \in Token
                        /\ tokens'[t].access => tokens[t].access
                        /\ tokens'[t].refresh = tokens[t].refresh
                        /\ tokens'[t].parent = tokens[t].parent
    OBVIOUS
  <2>2. tokens[t] \in Token
    BY <1>1
  <2>3. tokens'[t] = tokens[t] \/ tokens'[t] = [tokens[t] EXCEPT !.access = FALSE]
    BY <1>1, <1>2
  <2>. QED  BY <2>2, <2>3 DEF Token
<1>9. tokens' \in [Tokens -> Token] /\ Issued' = Issued /\ Live' = Live
  BY <1>1, <1>2, <1>8 DEF Issued, Live
<1>10. TokensFit'
  <2>1. SUFFICES ASSUME NEW t \in Tokens
                 PROVE  /\ tokens'[t].refresh = "unissued" => ~tokens'[t].access
                        /\ t \in Issued' => tokens'[t].parent \in Issued' \cup {NoToken}
    BY DEF TokensFit
  <2>2. /\ tokens'[t].access => tokens[t].access
        /\ tokens'[t].refresh = tokens[t].refresh /\ tokens'[t].parent = tokens[t].parent
    BY <1>8
  <2>3. tokens'[t].refresh = "unissued" => ~tokens'[t].access
    BY <1>1, <2>2 DEF TokensFit
  <2>. QED  BY <1>1, <1>9, <2>2, <2>3 DEF TokensFit
<1>11. TypeOK'
  BY <1>1, <1>2, <1>6, <1>7, <1>9 DEF TypeOK
<1>12. SessionsFit'
  <2>1. SUFFICES ASSUME NEW t \in Sessions
                 PROVE  Fit(sess[t])'
    BY DEF SessionsFit
  <2>2. Fit(sess'[t])
    <3>1. CASE t = s
      <4>1. Fit(local)
        BY <1>1, <1>3, <1>5, <1>7 DEF Fit
      <4>. QED  BY <1>1, <1>6, <3>1, <4>1
    <3>2. CASE t # s
      BY <1>1, <1>6, <3>2 DEF AccountsInv, SessionsFit
    <3>. QED  BY <3>1, <3>2
  <2>. QED  BY <1>9, <2>2 DEF Fit
<1>. QED
  BY <1>2, <1>8, <1>9, <1>10, <1>11, <1>12 DEF AccountsInv, OnlyForward

LEMMA LogoutInv ==
  ASSUME AccountsInv, NEW s \in Sessions, CommitLogout(s)
  PROVE  /\ AccountsInv' /\ OnlyForward /\ account' = account /\ Issued' = Issued
         /\ \A t \in Tokens : /\ tokens'[t].access = tokens[t].access
                              /\ tokens'[t].parent = tokens[t].parent
         /\ IF sess[s].req.kind = "logout_all" THEN Live' \cap sess[s].known = {}
            ELSE sess[s].req.refresh \notin Live'
<1> DEFINE me == sess[s]
<1>1. TypeOK /\ TokensFit /\ Fit(me)
  BY DEF AccountsInv, SessionsFit
<1>2. /\ me.pc = "commit" /\ me.req.kind \in {"logout", "logout_all"} /\ Done(s)
      /\ account' = account /\ resets' = resets /\ tokens' = Revoke(me.found)
  BY DEF CommitLogout, At
<1>3. me.found \subseteq Issued
  BY <1>1 DEF Fit
<1>4. /\ tokens' \in [Tokens -> Token] /\ TokensFit'
      /\ Issued' = Issued /\ Live' = Live \ me.found /\ OnlyForward
      /\ \A t \in Tokens : /\ tokens'[t].access = tokens[t].access
                           /\ tokens'[t].parent = tokens[t].parent
  BY <1>1, <1>2, <1>3, Revoked
<1>5. account' \in User /\ resets' \in [Resets -> ResetLife]
  BY <1>1, <1>2 DEF TypeOK
<1>6. AccountsInv'
  BY <1>2, <1>4, <1>5, CommitStep
<1>7. IF me.req.kind = "logout_all" THEN Live' \cap me.known = {}
      ELSE me.req.refresh \notin Live'
  BY <1>1, <1>2, <1>4 DEF Fit
<1>. QED
  BY <1>2, <1>4, <1>6, <1>7

LEMMA ResetInv ==
  ASSUME AccountsInv, NEW s \in Sessions, CommitReset(s)
  PROVE  /\ AccountsInv' /\ OnlyForward /\ Issued' = Issued
         /\ \A t \in Tokens : /\ tokens'[t].access = tokens[t].access
                              /\ tokens'[t].parent = tokens[t].parent
         /\ Live' \cap sess[s].known = {}
         /\ account'.is_active = account.is_active /\ Replaces(s)
<1> DEFINE me == sess[s]
           q == sess[s].req
<1>1. TypeOK /\ TokensFit /\ Fit(me) /\ account \in User /\ resets \in [Resets -> ResetLife]
  BY DEF AccountsInv, SessionsFit, TypeOK
<1>2. /\ me.pc = "commit" /\ q.kind = "reset" /\ Done(s)
      /\ account' = [account EXCEPT !.password = q.new, !.outdated = FALSE]
      /\ resets' = [resets EXCEPT ![q.reset] = "over"] /\ tokens' = Revoke(me.found)
  BY DEF CommitReset, At
<1>3. me.found \subseteq Issued /\ me.good /\ Live \cap me.known \subseteq me.found
  BY <1>1, <1>2 DEF Fit
<1>4. q.new \in Passwords
  BY <1>1, <1>2, Loaded, RequestFields
<1>5. account' \in User /\ account'.is_active = account.is_active
  BY <1>1, <1>2, <1>4 DEF User
<1>6. resets' \in [Resets -> ResetLife]
  BY <1>1, <1>2 DEF ResetLife
<1>7. /\ tokens' \in [Tokens -> Token] /\ TokensFit'
      /\ Issued' = Issued /\ Live' = Live \ me.found /\ OnlyForward
      /\ \A t \in Tokens : /\ tokens'[t].access = tokens[t].access
                           /\ tokens'[t].parent = tokens[t].parent
  BY <1>1, <1>2, <1>3, Revoked
<1>8. AccountsInv'
  BY <1>2, <1>5, <1>6, <1>7, CommitStep
<1>9. Replaces(s)
  BY <1>2, <1>3 DEF Replaces, Overtaken, At
<1>. QED
  BY <1>3, <1>5, <1>7, <1>8, <1>9

LEMMA UserInv ==
  ASSUME AccountsInv, NEW s \in Sessions, CommitUser(s)
  PROVE  /\ AccountsInv' /\ OnlyForward /\ tokens' = tokens
         /\ account'.is_active => account.is_active
         /\ account'.password # account.password => Replaces(s)
<1> DEFINE me == sess[s]
           q == sess[s].req
<1>1. TypeOK /\ TokensFit /\ Fit(me) /\ account \in User
  BY DEF AccountsInv, SessionsFit, TypeOK
<1>2. /\ me.pc = "commit" /\ q.kind \in {"change", "delete"} /\ Done(s)
      /\ tokens' = tokens /\ resets' = resets
      /\ account' = IF q.kind = "change"
                    THEN [account EXCEPT !.password = q.new, !.outdated = FALSE]
                    ELSE [account EXCEPT !.is_active = FALSE]
  BY DEF CommitUser, At
<1>3. q.kind = "change" => q.new \in Passwords /\ me.password = q.password
  BY <1>1, <1>2, Loaded, RequestFields DEF Fit
<1>4. /\ account' \in User
      /\ account'.is_active => account.is_active
      /\ account'.password # account.password => q.kind = "change"
  <2>1. CASE q.kind = "change"
    BY <1>1, <1>2, <1>3, <2>1 DEF User
  <2>2. CASE q.kind = "delete"
    BY <1>1, <1>2, <2>2 DEF User
  <2>. QED  BY <1>2, <2>1, <2>2
<1>5. Issued' = Issued /\ Live' = Live
  BY <1>2 DEF Issued, Live
<1>6. TokensFit' /\ OnlyForward
  BY <1>1, <1>2, <1>5 DEF TokensFit, OnlyForward
<1>7. tokens' \in [Tokens -> Token] /\ resets' \in [Resets -> ResetLife]
  BY <1>1, <1>2 DEF TypeOK
<1>8. AccountsInv'
  BY <1>2, <1>4, <1>6, <1>7, CommitStep
<1>9. q.kind = "change" => Replaces(s)
  BY <1>2, <1>3 DEF Replaces, Overtaken, At
<1>. QED
  BY <1>2, <1>4, <1>6, <1>8, <1>9

\* Time, and the request that issues a reset.
LEMMA ElsewhereInv ==
  ASSUME AccountsInv,
         \/ ForgotPassword
         \/ \E t \in Tokens : ExpireRefresh(t)
         \/ \E r \in Resets : ExpireReset(r)
  PROVE  /\ AccountsInv' /\ OnlyForward /\ Issued' = Issued
         /\ account' = account /\ sess' = sess
         /\ \A t \in Tokens : /\ tokens'[t].access = tokens[t].access
                              /\ tokens'[t].parent = tokens[t].parent
<1>1. /\ TypeOK /\ SessionsFit /\ TokensFit
      /\ tokens \in [Tokens -> Token] /\ resets \in [Resets -> ResetLife]
  BY DEF AccountsInv, TypeOK
<1>2. account' = account /\ sess' = sess
  BY DEF ForgotPassword, ExpireRefresh, ExpireReset
<1>3. /\ tokens' \in [Tokens -> Token] /\ TokensFit' /\ OnlyForward /\ Issued' = Issued
      /\ resets' \in [Resets -> ResetLife]
      /\ \A t \in Tokens : /\ tokens'[t].access = tokens[t].access
                           /\ tokens'[t].parent = tokens[t].parent
  <2>1. ASSUME NEW t \in Tokens, ExpireRefresh(t)
        PROVE  tokens' = Revoke({t}) /\ {t} \subseteq Issued /\ resets' = resets
    <3>1. /\ tokens[t].refresh = "live" /\ resets' = resets
          /\ tokens' = [tokens EXCEPT ![t].refresh = "over"]
      BY <2>1 DEF ExpireRefresh
    <3>. QED  BY <1>1, <3>1 DEF Revoke, Issued
  <2>2. CASE \E t \in Tokens : ExpireRefresh(t)
    BY <1>1, <2>1, <2>2, Revoked
  <2>3. CASE tokens' = tokens /\ resets' \in [Resets -> ResetLife]
    <3>1. Issued' = Issued /\ Live' = Live
      BY <2>3 DEF Issued, Live
    <3>. QED  BY <1>1, <2>3, <3>1 DEF TokensFit, OnlyForward
  <2>4. CASE ForgotPassword \/ \E r \in Resets : ExpireReset(r)
    BY <1>1, <2>3, <2>4 DEF ForgotPassword, ExpireReset, ResetLife
  <2>. QED  BY <2>2, <2>4
<1>4. TypeOK'
  BY <1>1, <1>2, <1>3 DEF TypeOK
<1>5. SessionsFit'
  <2>1. SUFFICES ASSUME NEW s \in Sessions
                 PROVE  Fit(sess[s])'
    BY DEF SessionsFit
  <2>2. Fit(sess[s]) /\ sess'[s] = sess[s]
    BY <1>1, <1>2 DEF SessionsFit
  <2>. QED  BY <1>3, <2>2, StaysFit
<1>. QED
  BY <1>2, <1>3, <1>4, <1>5 DEF AccountsInv

LEMMA AccountsInit == Init => AccountsInv
<1>1. SUFFICES ASSUME Init
               PROVE  AccountsInv
  OBVIOUS
<1>2. /\ tokens = [t \in Tokens |-> UnissuedToken] /\ sess = [s \in Sessions |-> Idle]
      /\ resets = [r \in Resets |-> "unissued"]
  BY <1>1 DEF Init
<1>3. /\ UnissuedToken \in Token /\ UnissuedToken.refresh = "unissued"
      /\ UnissuedToken.access = FALSE
  BY DEF UnissuedToken, Token
<1>4. account \in User
  BY <1>1 DEF Init, User
<1>5. TypeOK
  BY <1>2, <1>3, <1>4, IdleFits DEF TypeOK, ResetLife
<1>6. TokensFit
  BY <1>2, <1>3 DEF TokensFit, Issued
<1>7. SessionsFit
  BY <1>2, IdleFits DEF SessionsFit
<1>. QED
  BY <1>5, <1>6, <1>7 DEF AccountsInv

\* The steps of the system by what they write: nothing but a session, Redis, or the
\* five commits.
Reads(s) ==
  \/ \E q \in LoginRequests : LoadForLogin(s, q)
  \/ \E q \in RefreshRequests : LoadRefreshToken(s, q)
  \/ \E q \in LogoutRequests : Authenticate(s, q)
  \/ \E q \in ResetRequests : LoadPasswordReset(s, q)
  \/ \E q \in UserRequests : AuthenticateForUser(s, q)
  \/ LockUser(s) \/ LoadUser(s) \/ FindTokens(s) \/ Abort(s)

Elsewhere ==
  \/ ForgotPassword
  \/ \E t \in Tokens : ExpireRefresh(t)
  \/ \E r \in Resets : ExpireReset(r)

LEMMA KindsOfStep ==
  ASSUME Next
  PROVE  \/ \E s \in Sessions :
              \/ Reads(s) \/ BlacklistAccessToken(s)
              \/ CommitLogin(s) \/ CommitRefresh(s) \/ CommitLogout(s)
              \/ CommitReset(s) \/ CommitUser(s)
         \/ Elsewhere
BY DEF Next, Reads, Elsewhere

LEMMA ReadsInv ==
  ASSUME AccountsInv, NEW s \in Sessions, Reads(s)
  PROVE  /\ AccountsInv' /\ OnlyForward
         /\ account' = account /\ tokens' = tokens /\ resets' = resets
<1>1. AccountsInv' /\ OnlyForward
  BY BeginInv, ReadInv DEF Reads
<1>. QED
  BY <1>1 DEF Reads, LoadForLogin, LoadRefreshToken, Authenticate, LoadPasswordReset,
              AuthenticateForUser, LockUser, LoadUser, FindTokens, Abort, Begin, Step

LEMMA AccountsNext == AccountsInv /\ [Next]_vars => AccountsInv' /\ OnlyForward
<1>1. SUFFICES ASSUME AccountsInv, [Next]_vars
               PROVE  AccountsInv' /\ OnlyForward
  OBVIOUS
<1>2. CASE UNCHANGED vars
  BY <1>1, <1>2 DEF vars, AccountsInv, TypeOK, SessionsFit, Fit, TokensFit, Issued, Live,
                    OnlyForward
<1>3. CASE Next
  BY <1>1, <1>3, KindsOfStep, ReadsInv, BlacklistInv, LoginInv, RefreshInv, LogoutInv,
     ResetInv, UserInv, ElsewhereInv DEF Elsewhere
<1>. QED
  BY <1>1, <1>2, <1>3

LEMMA AccountsInvariant == Spec => []AccountsInv
<1>1. AccountsInv /\ [Next]_vars => AccountsInv'
  BY AccountsNext
<1>. QED
  BY <1>1, AccountsInit, PTL DEF Spec

\* Whatever requests overlap, the account, its tokens and the sessions have their
\* types.
THEOREM AccountsTypeCorrect == Spec => []TypeOK
<1>1. AccountsInv => TypeOK
  BY DEF AccountsInv
<1>. QED
  BY <1>1, AccountsInvariant, PTL

-----------------------------------------------------------------------------
(* What is ended, replaced and issued                                       *)

LEMMA EndedStep ==
  AccountsInv /\ [Next]_vars =>
    [/\ \A s \in Sessions :
          /\ CommitReset(s) => Live' \cap sess[s].known = {}
          /\ CommitLogout(s) =>
               IF sess[s].req.kind = "logout_all" THEN Live' \cap sess[s].known = {}
               ELSE sess[s].req.refresh \notin Live'
          /\ CommitRefresh(s) => sess[s].req.refresh \notin Live'
     /\ Live' \cap Issued \subseteq Live]_vars
<1>1. SUFFICES ASSUME AccountsInv, [Next]_vars
               PROVE
     /\ \A s \in Sessions :
          /\ CommitReset(s) => Live' \cap sess[s].known = {}
          /\ CommitLogout(s) =>
               IF sess[s].req.kind = "logout_all" THEN Live' \cap sess[s].known = {}
               ELSE sess[s].req.refresh \notin Live'
          /\ CommitRefresh(s) => sess[s].req.refresh \notin Live'
     /\ Live' \cap Issued \subseteq Live
  OBVIOUS
<1>. QED
  BY <1>1, AccountsNext, ResetInv, LogoutInv, RefreshInv DEF OnlyForward

\* For any number of tokens and requests, what a completed logout, reset or exchange
\* was to end cannot be exchanged afterwards.
THEOREM EndedCorrect == Spec => EndedForGood
<1>. QED
  BY EndedStep, AccountsInvariant, PTL DEF Spec, EndedForGood

LEMMA ReplacedStep ==
  AccountsInv /\ [Next]_vars =>
    [/\ account'.password # account.password =>
          \E s \in Sessions :
            \/ At(s, "commit", {"change"}) /\ sess[s].req.password = account.password
            \/ At(s, "commit", {"reset"}) /\ resets[sess[s].req.reset] = "live"
            \/ Overtaken(s)
     /\ account'.is_active => account.is_active]_vars
<1>1. SUFFICES ASSUME AccountsInv, Next
               PROVE  /\ account'.password # account.password =>
                           \E s \in Sessions : Replaces(s)
                      /\ account'.is_active => account.is_active
  BY DEF Replaces
<1>2. \A s \in Sessions : Overtaken(s) => Replaces(s)
  BY DEF Replaces
<1>. QED
  BY <1>1, <1>2, KindsOfStep, ReadsInv, BlacklistInv, LoginInv, RefreshInv, LogoutInv,
     ResetInv, UserInv, ElsewhereInv DEF Elsewhere

\* For any number of requests, a password is replaced only by one who knew it, or held
\* an unused reset, when the request looked, and a deleted account stays deleted.
THEOREM ReplacedCorrect == Spec => ReplacedByItsOwner
<1>. QED
  BY ReplacedStep, AccountsInvariant, PTL DEF Spec, ReplacedByItsOwner

LEMMA IssuedStep ==
  AccountsInv /\ [Next]_vars =>
    [\A t \in Tokens \ Issued : tokens'[t].access =>
       \E s \in Sessions :
         \/ /\ At(s, "commit", {"login"})
            /\ account.is_active /\ sess[s].req.password = account.password
         \/ /\ At(s, "commit", {"refresh"})
            /\ account.is_active /\ sess[s].req.refresh \in Live
         \/ Overtaken(s)]_vars
<1>1. SUFFICES ASSUME AccountsInv, Next, NEW t \in Tokens \ Issued, tokens'[t].access
               PROVE  \E s \in Sessions : Entitled(s)
  BY DEF Entitled
<1>2. ~tokens[t].access
  BY <1>1 DEF AccountsInv, TokensFit, Issued
<1>3. CASE \E s \in Sessions : CommitLogin(s) \/ CommitRefresh(s)
  BY <1>1, <1>3, LoginInv, RefreshInv
<1>4. CASE \E s \in Sessions : Reads(s) \/ CommitUser(s)
  BY <1>1, <1>2, <1>4, ReadsInv, UserInv
<1>5. CASE \/ Elsewhere
           \/ \E s \in Sessions :
                BlacklistAccessToken(s) \/ CommitLogout(s) \/ CommitReset(s)
  <2>1. tokens'[t].access => tokens[t].access
    BY <1>1, <1>5, BlacklistInv, LogoutInv, ResetInv, ElsewhereInv DEF Elsewhere
  <2>. QED  BY <1>1, <1>2, <2>1
<1>. QED
  BY <1>1, <1>3, <1>4, <1>5, KindsOfStep

\* For any number of requests, tokens are issued only for an active account, to one who
\* knew its password or held a live token when the request looked.
THEOREM IssuedCorrect == Spec => IssuedInGoodStanding
<1>. QED
  BY IssuedStep, AccountsInvariant, PTL DEF Spec, IssuedInGoodStanding

-----------------------------------------------------------------------------
(* How often a token is exchanged                                           *)

\* An exchange moves a session from those under way to the tokens they led to, and
\* none gets under way once there is such a token.
Counted(t) ==
  /\ IsFiniteSet(Successors(t))
  /\ Cardinality(Successors(t)) + Cardinality(Rotating(t)) <= Cardinality(Sessions)
  /\ t \in Live => Successors(t) = {}

AllCounted == \A t \in Tokens : Counted(t)

LEMMA RotatingFinite ==
  ASSUME IsFiniteSet(Sessions), NEW t
  PROVE  /\ IsFiniteSet(Rotating(t)) /\ Cardinality(Rotating(t)) \in Nat
         /\ Cardinality(Rotating(t)) <= Cardinality(Sessions)
<1>1. Rotating(t) \in SUBSET Sessions
  BY DEF Rotating
<1>2. IsFiniteSet(Rotating(t)) /\ Cardinality(Rotating(t)) <= Cardinality(Sessions)
  BY <1>1, FS_Subset
<1>. QED
  BY <1>2, FS_CardinalityType

\* What was issued in exchange for no token of this name.
LEMMA SuccessorsStay ==
  ASSUME NEW t \in Tokens, Issued' = Issued,
         \A u \in Tokens : tokens'[u].parent = tokens[u].parent
  PROVE  Successors(t)' = Successors(t)
BY DEF Successors, Issued

LEMMA SuccessorsGrow ==
  ASSUME NEW t \in Tokens, NEW u \in Tokens, NEW for, Issues(u, for)
  PROVE  /\ t # for => Successors(t)' = Successors(t)
         /\ t = for => Successors(t)' = Successors(t) \cup {u} /\ u \notin Successors(t)
BY DEF Issues, Successors, Issued

\* Three things can happen to a token's exchanges: none is added; the first requests
\* come; one of those under way is done.
LEMMA RotationKinds ==
  ASSUME AccountsInv, AllCounted, [Next]_vars, NEW t \in Tokens
  PROVE  \/ /\ Successors(t)' = Successors(t) /\ Rotating(t)' \subseteq Rotating(t)
         \/ Successors(t)' = {}
         \/ /\ \E u \in Tokens : Successors(t)' = Successors(t) \cup {u}
            /\ \E s \in Rotating(t) : Rotating(t)' = Rotating(t) \ {s}
            /\ t \notin Live'
<1>1. /\ TypeOK /\ sess \in [Sessions -> Session] /\ \A s \in Sessions : Fit(sess[s])
  BY DEF AccountsInv, TypeOK, SessionsFit
<1>2. CASE UNCHANGED vars
  BY <1>2 DEF vars, Successors, Issued, Rotating, At
<1>3. ASSUME NEW s \in Sessions, Done(s)
      PROVE  Rotating(t)' = Rotating(t) \ {s}
  <2>1. sess'[s] = Idle /\ \A r \in Sessions \ {s} : sess'[r] = sess[r]
    BY <1>1, <1>3 DEF Done
  <2>. QED  BY <2>1, IdleFits DEF Rotating, At
<1>4. ASSUME NEW s \in Sessions, NEW local, sess' = [sess EXCEPT ![s] = local],
             ~(local.pc = "commit" /\ local.req.kind = "refresh" /\ local.req.refresh = t)
      PROVE  Rotating(t)' \subseteq Rotating(t)
  <2>1. sess'[s] = local /\ \A r \in Sessions \ {s} : sess'[r] = sess[r]
    BY <1>1, <1>4
  <2>. QED  BY <1>4, <2>1 DEF Rotating, At
<1>5. ASSUME NEW s \in Sessions, Reads(s)
      PROVE  \/ Successors(t)' = Successors(t) /\ Rotating(t)' \subseteq Rotating(t)
             \/ Successors(t)' = {}
  <2>1. tokens' = tokens
    BY <1>5, ReadsInv
  <2>2. Successors(t)' = Successors(t)
    BY <2>1, SuccessorsStay DEF Issued
  <2>3. CASE \E q \in RefreshRequests : LoadRefreshToken(s, q)
    <3>1. PICK q \in RefreshRequests : LoadRefreshToken(s, q)
      BY <2>3
    <3>2. CASE q.refresh = t
      <4>1. t \in Live
        BY <3>1, <3>2 DEF LoadRefreshToken, Live
      <4>. QED  BY <2>2, <4>1 DEF AllCounted, Counted
    <3>3. CASE q.refresh # t
      <4> DEFINE local == [[Idle EXCEPT !.pc = "commit", !.claim = account.is_active,
                              !.good = q.refresh \in Live]
                             EXCEPT !.req = q,
                                    !.known = IF q.kind \in {"logout_all", "reset"}
                                              THEN Issued ELSE {}]
      <4>1. sess' = [sess EXCEPT ![s] = local]
        BY <3>1 DEF LoadRefreshToken, Begin, Step
      <4>2. local.req = q
        BY DEF Idle
      <4>. HIDE DEF local
      <4>. QED  BY <1>4, <2>2, <3>3, <4>1, <4>2
    <3>. QED  BY <3>2, <3>3
  <2>4. CASE \E q \in LoginRequests : LoadForLogin(s, q)
    <3>1. PICK q \in LoginRequests : LoadForLogin(s, q)
      BY <2>4
    <3> DEFINE local == [[Idle EXCEPT !.pc = "commit", !.password = account.password,
                            !.claim = account.is_active, !.rehash = account.outdated]
                           EXCEPT !.req = q,
                                  !.known = IF q.kind \in {"logout_all", "reset"}
                                            THEN Issued ELSE {}]
    <3>2. sess' = [sess EXCEPT ![s] = local]
      BY <3>1 DEF LoadForLogin, Begin, Step
    <3>3. local.req = q /\ q.kind = "login"
      BY DEF Idle, LoginRequests, Request
    <3>. HIDE DEF local
    <3>. QED  BY <1>4, <2>2, <3>2, <3>3
  <2>5. CASE \/ \E q \in LogoutRequests : Authenticate(s, q)
             \/ \E q \in ResetRequests : LoadPasswordReset(s, q)
             \/ \E q \in UserRequests : AuthenticateForUser(s, q)
             \/ LockUser(s)
    <3>1. PICK local : sess' = [sess EXCEPT ![s] = local] /\ local.pc # "commit"
      <4>1. CASE \E q \in LogoutRequests : Authenticate(s, q)
        <5>1. PICK q \in LogoutRequests : Authenticate(s, q)
          BY <4>1
        <5> DEFINE local == [[Idle EXCEPT !.pc = "blacklist"]
                               EXCEPT !.req = q,
                                      !.known = IF q.kind \in {"logout_all", "reset"}
                                                THEN Issued ELSE {}]
        <5>2. sess' = [sess EXCEPT ![s] = local]
          BY <5>1 DEF Authenticate, Begin, Step
        <5>3. local.pc # "commit"
          BY DEF Idle
        <5>. QED  BY <5>2, <5>3
      <4>2. CASE \E q \in ResetRequests : LoadPasswordReset(s, q)
        <5>1. PICK q \in ResetRequests : LoadPasswordReset(s, q)
          BY <4>2
        <5> DEFINE local == [[Idle EXCEPT !.pc = "lock", !.good = resets[q.reset] = "live"]
                               EXCEPT !.req = q,
                                      !.known = IF q.kind \in {"logout_all", "reset"}
                                                THEN Issued ELSE {}]
        <5>2. sess' = [sess EXCEPT ![s] = local]
          BY <5>1 DEF LoadPasswordReset, Begin, Step
        <5>3. local.pc # "commit"
          BY DEF Idle
        <5>. QED  BY <5>2, <5>3
      <4>3. CASE \E q \in UserRequests : AuthenticateForUser(s, q)
        <5>1. PICK q \in UserRequests : AuthenticateForUser(s, q)
          BY <4>3
        <5> DEFINE local == [[Idle EXCEPT !.pc = "load"]
                               EXCEPT !.req = [q EXCEPT !.access = NoToken],
                                      !.known = IF [q EXCEPT !.access = NoToken].kind 
                                                     \in {"logout_all", "reset"}
                                                THEN Issued ELSE {}]
        <5>2. sess' = [sess EXCEPT ![s] = local]
          BY <5>1 DEF AuthenticateForUser, Begin, Step
        <5>3. local.pc # "commit"
          BY DEF Idle
        <5>. QED  BY <5>2, <5>3
      <4>4. CASE LockUser(s)
        <5> DEFINE local == [sess[s] EXCEPT !.pc = "find"]
        <5>1. sess' = [sess EXCEPT ![s] = local]
          BY <4>4 DEF LockUser, Step
        <5>2. local.pc # "commit"
          <6>1. sess[s] \in Session
            BY <1>1, Loaded
          <6>. QED  BY <6>1 DEF Session
        <5>. QED  BY <5>1, <5>2
      <4>. QED  BY <2>5, <4>1, <4>2, <4>3, <4>4
    <3>. QED  BY <1>4, <2>2, <3>1
  <2>6. CASE LoadUser(s) \/ FindTokens(s)
    <3>1. PICK local : /\ sess' = [sess EXCEPT ![s] = local]
                       /\ local.req = sess[s].req /\ sess[s].req.kind # "refresh"
      <4>1. sess[s] \in Session /\ Fit(sess[s])
        BY <1>1, Loaded
      <4>2. CASE LoadUser(s)
        <5> DEFINE local == [sess[s] EXCEPT !.pc = "commit", !.password = account.password]
        <5>1. sess' = [sess EXCEPT ![s] = local] /\ sess[s].pc = "load"
          BY <4>2 DEF LoadUser, Step
        <5>2. local.req = sess[s].req
          BY <4>1 DEF Session
        <5>. QED  BY <4>1, <5>1, <5>2 DEF Fit
      <4>3. CASE FindTokens(s)
        <5> DEFINE local == [sess[s] EXCEPT !.pc = "commit",
                                            !.found = Revocable(sess[s].req)]
        <5>1. /\ sess' = [sess EXCEPT ![s] = local]
              /\ sess[s].req.kind \in {"logout", "logout_all", "reset"}
          BY <4>3 DEF FindTokens, Step, At
        <5>2. local.req = sess[s].req
          BY <4>1 DEF Session
        <5>. QED  BY <5>1, <5>2
      <4>. QED  BY <2>6, <4>2, <4>3
    <3>. QED  BY <1>4, <2>2, <3>1
  <2>7. CASE Abort(s)
    <3>1. sess' = [sess EXCEPT ![s] = Idle]
      BY <2>7 DEF Abort, Step
    <3>. QED  BY <1>4, <2>2, <3>1, IdleFits
  <2>. QED
    BY <1>5, <2>3, <2>4, <2>5, <2>6, <2>7 DEF Reads
<1>6. ASSUME NEW s \in Sessions, BlacklistAccessToken(s)
      PROVE  Successors(t)' = Successors(t) /\ Rotating(t)' \subseteq Rotating(t)
  <2>1. Successors(t)' = Successors(t)
    BY <1>6, BlacklistInv, SuccessorsStay
  <2>2. sess' = [sess EXCEPT ![s].pc = "find", ![s].req.access = NoToken]
    BY <1>6 DEF BlacklistAccessToken
  <2>3. sess[s] \in Session
    BY <1>1, Loaded
  <2>4. sess'[s].pc = "find" /\ \A r \in Sessions \ {s} : sess'[r] = sess[r]
    BY <1>1, <2>2, <2>3 DEF Session
  <2>. QED  BY <2>1, <2>4 DEF Rotating, At
<1>7. CASE Elsewhere
  BY <1>7, ElsewhereInv, SuccessorsStay DEF Elsewhere, Rotating, At
<1>8. ASSUME NEW s \in Sessions, CommitLogout(s) \/ CommitReset(s) \/ CommitUser(s)
      PROVE  Successors(t)' = Successors(t) /\ Rotating(t)' \subseteq Rotating(t)
  <2>1. Successors(t)' = Successors(t)
    <3>1. CASE CommitUser(s)
      BY <3>1, UserInv, SuccessorsStay DEF Issued
    <3>. QED  BY <1>8, <3>1, LogoutInv, ResetInv, SuccessorsStay
  <2>2. Done(s)
    BY <1>8 DEF CommitLogout, CommitReset, CommitUser
  <2>. QED  BY <1>3, <2>1, <2>2
<1>9. ASSUME NEW s \in Sessions, CommitLogin(s)
      PROVE  Successors(t)' = Successors(t) /\ Rotating(t)' \subseteq Rotating(t)
  <2>1. PICK u \in Tokens : Issues(u, NoToken)
    BY <1>9, LoginInv
  <2>2. Successors(t)' = Successors(t)
    BY <2>1, SuccessorsGrow, AccountsAssumption
  <2>3. Done(s)
    BY <1>9 DEF CommitLogin
  <2>. QED  BY <1>3, <2>2, <2>3
<1>10. ASSUME NEW s \in Sessions, CommitRefresh(s)
       PROVE  \/ Successors(t)' = Successors(t) /\ Rotating(t)' \subseteq Rotating(t)
              \/ /\ \E u \in Tokens : Successors(t)' = Successors(t) \cup {u}
                 /\ \E r \in Rotating(t) : Rotating(t)' = Rotating(t) \ {r}
                 /\ t \notin Live'
  <2>1. /\ sess[s].req.refresh \notin Live' /\ Done(s)
        /\ At(s, "commit", {"refresh"})
    BY <1>10, RefreshInv DEF CommitRefresh
  <2>2. PICK u \in Tokens : Issues(u, sess[s].req.refresh)
    BY <1>10, RefreshInv
  <2>3. CASE t # sess[s].req.refresh
    BY <1>3, <2>1, <2>2, <2>3, SuccessorsGrow
  <2>4. CASE t = sess[s].req.refresh
    <3>1. s \in Rotating(t)
      BY <2>1, <2>4 DEF Rotating
    <3>2. Successors(t)' = Successors(t) \cup {u}
      BY <2>2, <2>4, SuccessorsGrow
    <3>. QED  BY <1>3, <2>1, <2>4, <3>1, <3>2
  <2>. QED  BY <2>3, <2>4
<1>. QED
  BY <1>2, <1>5, <1>6, <1>7, <1>8, <1>9, <1>10, KindsOfStep

LEMMA RotationNext ==
  ASSUME IsFiniteSet(Sessions), AccountsInv, AllCounted, [Next]_vars
  PROVE  AllCounted'
<1>1. SUFFICES ASSUME NEW t \in Tokens
               PROVE  Counted(t)'
  BY DEF AllCounted
<1> DEFINE before == Cardinality(Successors(t))
           going == Cardinality(Rotating(t))
           all == Cardinality(Sessions)
<1>2. /\ IsFiniteSet(Successors(t)) /\ before + going <= all
      /\ t \in Live => Successors(t) = {}
  BY DEF AllCounted, Counted
<1>3. before \in Nat /\ going \in Nat /\ all \in Nat /\ IsFiniteSet(Rotating(t))
  BY <1>2, RotatingFinite, FS_CardinalityType
<1>4. /\ IsFiniteSet(Rotating(t)') /\ Cardinality(Rotating(t)') \in Nat
      /\ Cardinality(Rotating(t)') <= all
  <2>1. Rotating(t)' \in SUBSET Sessions
    BY DEF Rotating
  <2>. QED  BY <2>1, FS_Subset, FS_CardinalityType
<1>5. t \in Live' => Successors(t) = {}
  <2>1. CASE t \in Issued
    BY <1>2, <2>1, AccountsNext DEF OnlyForward
  <2>2. CASE t \notin Issued
    BY <2>2, AccountsAssumption DEF AccountsInv, TokensFit, Successors, Issued
  <2>. QED  BY <2>1, <2>2
<1>6. CASE Successors(t)' = Successors(t) /\ Rotating(t)' \subseteq Rotating(t)
  <2>1. Cardinality(Rotating(t)') <= going
    BY <1>3, <1>6, FS_Subset
  <2>. QED  BY <1>2, <1>3, <1>4, <1>5, <1>6, <2>1 DEF Counted
<1>7. CASE Successors(t)' = {}
  BY <1>3, <1>4, <1>7, FS_EmptySet DEF Counted
<1>8. CASE /\ \E u \in Tokens : Successors(t)' = Successors(t) \cup {u}
           /\ \E s \in Rotating(t) : Rotating(t)' = Rotating(t) \ {s}
           /\ t \notin Live'
  <2>1. PICK u \in Tokens : Successors(t)' = Successors(t) \cup {u}
    BY <1>8
  <2>2. PICK s \in Rotating(t) : Rotating(t)' = Rotating(t) \ {s}
    BY <1>8
  <2>3. /\ IsFiniteSet(Successors(t)') /\ Cardinality(Successors(t)') \in Nat
        /\ Cardinality(Successors(t)') <= before + 1
    <3> DEFINE grown == Successors(t) \cup {u}
    <3>1. /\ IsFiniteSet(grown)
          /\ Cardinality(grown) = IF u \in Successors(t) THEN before ELSE before + 1
      BY <1>2, FS_AddElement
    <3>2. Cardinality(grown) \in Nat
      BY <3>1, FS_CardinalityType
    <3>. HIDE DEF grown
    <3>3. Successors(t)' = grown
      BY <2>1 DEF grown
    <3>. QED  BY <1>3, <3>1, <3>2, <3>3
  <2>4. Cardinality(Rotating(t)') = going - 1
    BY <1>3, <2>2, FS_RemoveElement
  <2>. QED  BY <1>2, <1>3, <1>4, <1>8, <2>3, <2>4 DEF Counted
<1>. QED
  BY <1>6, <1>7, <1>8, RotationKinds

\* For any number of tokens and any finite number of requests at a time, a refresh
\* token leads to at most as many pairs as requests can overlap, and to none while it
\* still counts as unused.
THEOREM RotationCorrect ==
  ASSUME IsFiniteSet(Sessions)
  PROVE  Spec => []RotationsOverlap
<1>1. Init => AllCounted
  <2>1. SUFFICES ASSUME Init, NEW t \in Tokens
                 PROVE  Counted(t)
    BY DEF AllCounted
  <2>2. Successors(t) = {} /\ Rotating(t) = {}
    BY <2>1, IdleFits DEF Init, UnissuedToken, Successors, Issued, Rotating, At
  <2>3. Cardinality(Sessions) \in Nat
    BY FS_CardinalityType
  <2>. QED  BY <2>2, <2>3, FS_EmptySet DEF Counted
<1>2. AccountsInv /\ AllCounted /\ [Next]_vars => AllCounted'
  BY RotationNext
<1>3. AllCounted => RotationsOverlap
  BY DEF AllCounted, Counted, RotationsOverlap
<1>. QED
  BY <1>1, <1>2, <1>3, AccountsInvariant, PTL DEF Spec
=============================================================================
