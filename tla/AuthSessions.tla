------------------------------ MODULE AuthSessions ------------------------------
(***************************************************************************)
(* Sign-in sessions: login stores a refresh token, logout revokes the one  *)
(* of its cookie, a change of password revokes all of the user's, refresh  *)
(* is meant to rotate one.  The users are those registered before User got *)
(* its names: register and refresh leave them out and end in a TypeError.  *)
(*                                                                         *)
(* Every request is one transaction, committed after the response, which   *)
(* sets or clears the cookies.  A token is known by the request that       *)
(* stores it (uuid4() and token_urlsafe()).                                *)
(***************************************************************************)
EXTENDS Naturals

CONSTANTS
  Requests, Users, Passwords, None,
  Registered   \* the password each user starts with

ASSUME RegisteredAssumption == Registered \in [Users -> Passwords]

VARIABLES
  password,   \* committed: the password whose hash a user has
  tokens,     \* committed refresh tokens: request -> row, or None
  expired,    \* tokens past expires_at
  pc,         \* where a request is
  args,       \* what a request was given and holds
  outcome     \* how a request ended

vars == <<password, tokens, expired, pc, args, outcome>>

Token == [user : Users, revoked : BOOLEAN]

\* NULL is no value of a column, of a request's field or of a response.
ASSUME NoneAssumption ==
  None \notin Requests \cup Users \cup Passwords \cup Token
              \cup {"login", "refresh", "logout", "change", "ok"}

\* Faulty variant: the NULL of revoked_at is kept for the flag.
FaultyNewToken(u) == [user |-> u, revoked |-> None]

NewToken(u) == [user |-> u, revoked |-> FALSE]
Stored == {t \in Requests : tokens[t] # None}
Active(u) == {t \in Stored : tokens[t].user = u /\ ~tokens[t].revoked}

NoArgs == [op |-> None, user |-> None, token |-> None, new |-> None,
           seen |-> {}, older |-> {}]

Init ==
  /\ password = Registered
  /\ tokens = [q \in Requests |-> None]
  /\ expired = {}
  /\ pc = [q \in Requests |-> "new"]
  /\ args = [q \in Requests |-> NoArgs]
  /\ outcome = [q \in Requests |-> None]

Goto(q, from, to) == pc[q] = from /\ pc' = [pc EXCEPT ![q] = to]

\* Of an answered request it is kept what it was.
End(q, o) ==
  /\ pc' = [pc EXCEPT ![q] = "done"]
  /\ outcome' = [outcome EXCEPT ![q] = o]
  /\ args' = [args EXCEPT ![q] =
                IF o = "ok" THEN [@ EXCEPT !.new = None, !.seen = {}, !.older = {}]
                ELSE NoArgs]

Refuse(q, o) ==
  pc[q] = "new" /\ End(q, o) /\ UNCHANGED <<password, tokens, expired>>

Verified(q, given) ==
  /\ Goto(q, "new", "verified")
  /\ args' = [args EXCEPT ![q] = given]
  /\ UNCHANGED <<password, tokens, expired, outcome>>

\* The transaction has written the row of a token or of a user.
HoldsToken(r, t) ==
  \/ pc[r] \in {"revoked", "saved", "answered"} /\ args[r].op \in {"refresh", "logout"}
     /\ args[r].token = t
  \/ pc[r] \in {"saved", "answered"} /\ args[r].op = "change" /\ t \in args[r].seen
HoldsUser(r, u) ==
  /\ pc[r] \in {"revoked", "revoking", "saved", "answered"}
  /\ args[r].op = "change" /\ args[r].user = u
FreeToken(q, t) == \A r \in Requests \ {q} : ~HoldsToken(r, t)
FreeUser(q, u) == \A r \in Requests \ {q} : ~HoldsUser(r, u)

Step(q, op, from, to) ==
  /\ args[q].op = op /\ Goto(q, from, to)
  /\ UNCHANGED <<password, tokens, expired, args, outcome>>

-------------------------------------------------------------------------------
(* POST /auth/register, GET /users/me                                      *)

\* The routes under /users need an access token that is neither missing, forged
\* nor past its expiry.
Unauthenticated(q) == Refuse(q, "NotAuthenticated")

EmailInUse(q) == Refuse(q, "EmailAlreadyExists")

\* User(email, password_hash) lacks its names.
RegisterRaises(q) == Refuse(q, "InternalError")

Register(q) == EmailInUse(q) \/ RegisterRaises(q)

\* UserResponse(id, email) lacks the names it requires.
GetMe(q) == Refuse(q, "InternalError")

(* POST /auth/login                                                        *)

LoginFind(q) ==
  \/ \E u \in Users, p \in Passwords :
       \/ /\ password[u] = p
          /\ Verified(q, [NoArgs EXCEPT !.op = "login", !.user = u])
       \/ password[u] # p /\ Refuse(q, "InvalidCredentials")
  \/ Refuse(q, "InvalidCredentials")

LoginSave(q) == Step(q, "login", "verified", "saved")

(* POST /auth/refresh                                                      *)

\* The cookies that responses have set.
Cookies == {t \in Requests : args[t].op = "login" /\ outcome[t] = "ok"}

RefreshFind(q) ==
  \/ Refuse(q, "RefreshTokenNotFound")
  \/ \E t \in Cookies :
       \/ t \notin Stored /\ Refuse(q, "RefreshTokenNotFound")
       \/ t \in Stored /\ tokens[t].revoked /\ Refuse(q, "RefreshTokenRevoked")
       \/ /\ t \in Stored /\ ~tokens[t].revoked /\ t \in expired
          /\ Refuse(q, "RefreshTokenExpired")
       \/ /\ t \in Stored /\ ~tokens[t].revoked /\ t \notin expired
          /\ Verified(q, [NoArgs EXCEPT !.op = "refresh", !.user = tokens[t].user,
                                        !.token = t])

RefreshRevoke(q) ==
  FreeToken(q, args[q].token) /\ Step(q, "refresh", "verified", "revoked")

RefreshSave(q) == Step(q, "refresh", "revoked", "saved")

\* Faulty variant: the revocation is committed before the new pair is made.
FaultyRefreshKeeps(q) ==
  /\ args[q].op = "refresh" /\ pc[q] = "saved"
  /\ tokens' = [tokens EXCEPT ![args[q].token].revoked = TRUE]
  /\ End(q, "InternalError")
  /\ UNCHANGED <<password, expired>>

\* AuthenticatedSession() lacks the names it requires: rolled back.
RefreshRaises(q) ==
  /\ args[q].op = "refresh" /\ pc[q] = "saved"
  /\ End(q, "InternalError")
  /\ UNCHANGED <<password, tokens, expired>>

(* POST /auth/logout                                                       *)

\* Without a token to revoke the answer is the same.
LogoutFind(q) ==
  \/ Verified(q, [NoArgs EXCEPT !.op = "logout"])
  \/ \E t \in Cookies :
       Verified(q, [NoArgs EXCEPT !.op = "logout",
                      !.token = IF t \in Stored /\ ~tokens[t].revoked THEN t ELSE None])

\* Faulty variant: a logout whose token is revoked meanwhile goes on waiting.
FaultyLogoutWaits(q) ==
  /\ args[q].token # None =>
       FreeToken(q, args[q].token) /\ ~tokens[args[q].token].revoked
  /\ Step(q, "logout", "verified", "saved")

LogoutRevoke(q) ==
  /\ args[q].token # None => FreeToken(q, args[q].token)
  /\ Step(q, "logout", "verified", "saved")

(* PATCH /users/me/password                                                *)

\* Who sends it has an access token, which is kept nowhere and lives on until it
\* expires.  The schema refuses what would be a WeakPassword.

ChangeFind(q) ==
  \E u \in Users, current, new \in Passwords :
    \/ password[u] # current /\ Refuse(q, "InvalidCredentials")
    \/ password[u] = current /\ new = current /\ Refuse(q, "SamePassword")
    \/ /\ password[u] = current /\ new # current
       /\ Verified(q, [NoArgs EXCEPT !.op = "change", !.user = u, !.new = new,
                                     !.older = Active(u)])

ChangeSave(q) ==
  FreeUser(q, args[q].user) /\ Step(q, "change", "verified", "revoked")

\* Faulty variant: only one session, that of the cookie, is revoked.
FaultyRevokeOne(q) ==
  /\ args[q].op = "change"
  /\ Goto(q, "revoked", "revoking")
  /\ \E t \in Requests :
       args' = [args EXCEPT ![q].seen = {t} \cap Active(args[q].user)]
  /\ UNCHANGED <<password, tokens, expired, outcome>>

\* UPDATE refresh_tokens SET revoked_at WHERE user_id AND revoked_at IS NULL
\* sees the tokens that are committed when it starts.
ChangeRevokeAll(q) ==
  /\ args[q].op = "change"
  /\ Goto(q, "revoked", "revoking")
  /\ args' = [args EXCEPT ![q].seen = Active(args[q].user)]
  /\ UNCHANGED <<password, tokens, expired, outcome>>

\* It waits for those that another transaction holds.
ChangeRevokeEnds(q) ==
  /\ \A t \in args[q].seen : FreeToken(q, t)
  /\ Step(q, "change", "revoking", "saved")

-------------------------------------------------------------------------------
Answer(q) ==
  /\ args[q].op # "refresh"
  /\ Goto(q, "saved", "answered")
  /\ outcome' = [outcome EXCEPT ![q] = "ok"]
  /\ UNCHANGED <<password, tokens, expired, args>>

Revoked(q) == args[q].seen \cup (IF args[q].op = "logout" THEN {args[q].token} ELSE {})

Commit(q) ==
  /\ pc[q] = "answered"
  /\ tokens' = [t \in Requests |->
       IF t = q /\ args[q].op = "login" THEN NewToken(args[q].user)
       ELSE IF t \in Revoked(q) \cap Stored THEN [tokens[t] EXCEPT !.revoked = TRUE]
       ELSE tokens[t]]
  /\ password' = IF args[q].op = "change"
                 THEN [password EXCEPT ![args[q].user] = args[q].new] ELSE password
  /\ End(q, "ok")
  /\ UNCHANGED expired

RequestFails(q) ==
  /\ pc[q] \in {"verified", "revoked", "revoking", "saved"}
  /\ End(q, "Failure")
  /\ UNCHANGED <<password, tokens, expired>>

\* The commit fails after the response.
CommitFails(q) ==
  /\ pc[q] = "answered"
  /\ End(q, "ok")
  /\ UNCHANGED <<password, tokens, expired>>

Expire(t) ==
  /\ t \in Stored \ expired
  /\ expired' = expired \cup {t}
  /\ UNCHANGED <<password, tokens, pc, args, outcome>>

LoginStep(q) == LoginFind(q) \/ LoginSave(q)

RefreshStep(q) ==
  RefreshFind(q) \/ RefreshRevoke(q) \/ RefreshSave(q) \/ RefreshRaises(q)

LogoutStep(q) == LogoutFind(q) \/ LogoutRevoke(q)

ChangeStep(q) ==
  ChangeFind(q) \/ ChangeSave(q) \/ ChangeRevokeAll(q) \/ ChangeRevokeEnds(q)

Advance(q) ==
  \/ Register(q) \/ Unauthenticated(q) \/ GetMe(q)
  \/ LoginStep(q) \/ RefreshStep(q) \/ LogoutStep(q) \/ ChangeStep(q)
  \/ Answer(q) \/ Commit(q)

Next ==
  \/ \E q \in Requests : Advance(q) \/ RequestFails(q) \/ CommitFails(q)
  \/ \E t \in Requests : Expire(t)

Spec == Init /\ [][Next]_vars

\* A request that has started goes on; none must start, fail or expire.
Fairness == \A q \in Requests : WF_vars(pc[q] # "new" /\ Advance(q))

FairSpec == Spec /\ Fairness
-------------------------------------------------------------------------------
(* Properties                                                              *)

Places == {"new", "verified", "revoked", "revoking", "saved", "answered", "done"}
Ops == {"login", "refresh", "logout", "change", None}
Outcomes == {"ok", "Failure", "InternalError", "EmailAlreadyExists",
             "NotAuthenticated", "InvalidCredentials", "SamePassword", "RefreshTokenNotFound",
             "RefreshTokenRevoked", "RefreshTokenExpired"}
Args == [op : Ops, user : Users \cup {None}, token : Requests \cup {None},
         new : Passwords \cup {None}, seen : SUBSET Requests, older : SUBSET Requests]

\* Every variable has its type.
TypeOK ==
  /\ password \in [Users -> Passwords]
  /\ tokens \in [Requests -> Token \cup {None}]
  /\ expired \subseteq Stored
  /\ pc \in [Requests -> Places]
  /\ args \in [Requests -> Args]
  /\ outcome \in [Requests -> Outcomes \cup {None}]

\* A session begins with an answered login and ends with an answered logout or
\* change of password: a renewal that breaks off between the revocation and the
\* new token (refresh_session.py:48-72), or any other failure, leaves nothing.
FailureLeavesNothing ==
  \A t \in Stored :
    /\ outcome[t] = "ok" /\ args[t].op = "login"
    /\ tokens[t].revoked =>
         \E q \in Requests :
           /\ outcome[q] = "ok"
           /\ \/ args[q].op = "logout" /\ args[q].token = t
              \/ args[q].op = "change" /\ args[q].user = tokens[t].user

\* A change of password ends every session that was there when it began, however
\* logins, logouts and other changes interleave, and only that user's
\* (change_password.py:50).
ChangeEndsSessions ==
  [][\A q \in Requests :
       /\ args[q].op = "change" /\ pc[q] = "answered" /\ pc'[q] = "done"
       /\ password' # password
       =>
         /\ \A t \in args[q].older : tokens'[t].revoked
         /\ \A t \in Stored :
              tokens'[t] # tokens[t] => tokens[t].user = args[q].user]_vars

\* Every request that has started is over in the end, although a change waits
\* for the tokens of others and they for its own.
EveryRequestEnds == \A q \in Requests : pc[q] # "new" ~> pc[q] = "done"
=============================================================================
