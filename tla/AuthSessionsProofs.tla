--------------------------- MODULE AuthSessionsProofs ---------------------------
(***************************************************************************)
(* Proofs about AuthSessions, for every set of requests, users and         *)
(* passwords.                                                              *)
(***************************************************************************)
EXTENDS AuthSessions, TLAPS

\* What a request holds fits the place it has reached.
RequestOK(q) ==
  /\ pc[q] = "new" => args[q] = NoArgs
  /\ pc[q] = "done" /\ outcome[q] # "ok" => args[q] = NoArgs
  /\ outcome[q] = "ok" <=> pc[q] = "answered" \/ (pc[q] = "done" /\ args[q].op # None)
  /\ pc[q] \notin {"new", "done"} => args[q].op # None
  /\ args[q].op = "refresh" => pc[q] \in {"verified", "revoked", "saved"}
  /\ args[q].op \in {"login", "refresh", "change"} => args[q].user \in Users
  /\ args[q].op = "refresh" => args[q].token \in Stored
  /\ args[q].op = "change" /\ pc[q] # "done" => args[q].new \in Passwords
  /\ args[q].op # "change" => args[q].seen = {} /\ args[q].older = {}
  /\ args[q].op # "change" => pc[q] # "revoking"

\* A change of password holds tokens of its user only, and once its UPDATE has
\* begun every token that was there before it is revoked or among those it revokes.
ChangeOK(q) ==
  args[q].op = "change" =>
    /\ \A t \in args[q].seen \cup args[q].older :
         t \in Stored /\ tokens[t].user = args[q].user
    /\ pc[q] \in {"revoking", "saved", "answered"} =>
         \A t \in args[q].older : t \in args[q].seen \/ tokens[t].revoked

\* A stored token is that of a login that is over.
TokensOK == \A t \in Stored : pc[t] = "done"

IndInv ==
  /\ TypeOK
  /\ \A q \in Requests : RequestOK(q)
  /\ \A q \in Requests : ChangeOK(q)
  /\ TokensOK
  /\ FailureLeavesNothing

-------------------------------------------------------------------------------
(* What a step may do, whatever its action.                                *)

\* Nothing but the request's own entries changes in pc, args and outcome.
Others(q) ==
  /\ pc' = [pc EXCEPT ![q] = pc'[q]]
  /\ args' = [args EXCEPT ![q] = args'[q]]
  /\ outcome' = [outcome EXCEPT ![q] = outcome'[q]]

Keeps == UNCHANGED <<password, tokens, expired>>

\* The request ends without its answer.
Fails(q) ==
  /\ pc[q] \notin {"answered", "done"} /\ Keeps /\ Others(q)
  /\ pc'[q] = "done" /\ outcome'[q] \in Outcomes \ {"ok"} /\ args'[q] = NoArgs

\* It has read what it needs.
Begins(q) ==
  /\ pc[q] = "new" /\ Keeps /\ Others(q)
  /\ pc'[q] = "verified" /\ outcome'[q] = outcome[q] /\ args'[q] \in Args
  /\ args'[q].op # None /\ args'[q].seen = {}
  /\ args'[q].op \in {"login", "refresh", "change"} => args'[q].user \in Users
  /\ args'[q].op = "refresh" => args'[q].token \in Stored
  /\ args'[q].op = "change" =>
       args'[q].new \in Passwords /\ args'[q].older = Active(args'[q].user)
  /\ args'[q].op # "change" => args'[q].older = {}

\* It goes on with what it has.
Moves(q) ==
  /\ Keeps /\ Others(q) /\ args'[q] = args[q]
  /\ pc[q] \notin {"new", "answered", "done"}
  /\ \/ /\ pc'[q] \in {"verified", "revoked", "saved"} /\ outcome'[q] = outcome[q]
        /\ args[q].op = "change" => pc[q] \in {"verified", "revoking"}
        /\ args[q].op = "change" /\ pc[q] = "verified" => pc'[q] = "revoked"
     \/ /\ pc[q] = "saved" /\ args[q].op # "refresh"
        /\ pc'[q] = "answered" /\ outcome'[q] = "ok"

\* Its transaction is over, committed or not.
Closes(q) ==
  /\ pc[q] = "answered" /\ Others(q)
  /\ pc'[q] = "done" /\ outcome'[q] = "ok"
  /\ args'[q] = [args[q] EXCEPT !.new = None, !.seen = {}, !.older = {}]

\* Faulty variants aside, a step of a request is one of these.
RequestKind(q) ==
  \/ Fails(q) \/ Begins(q) \/ Moves(q) \/ ChangeRevokeAll(q)
  \/ Closes(q) /\ Keeps
  \/ Closes(q) /\ Commit(q)

LEMMA EndKind ==
  ASSUME TypeOK, NEW q \in Requests, NEW o, End(q, o)
  PROVE  /\ Others(q) /\ pc'[q] = "done" /\ outcome'[q] = o
         /\ o # "ok" => args'[q] = NoArgs
         /\ o = "ok" => args'[q] = [args[q] EXCEPT !.new = None, !.seen = {}, !.older = {}]
  BY DEF End, Others, TypeOK, Args

LEMMA FailsKind ==
  ASSUME TypeOK, NEW q \in Requests, NEW o \in Outcomes \ {"ok"}, End(q, o), Keeps,
         pc[q] \notin {"answered", "done"}
  PROVE  Fails(q)
  BY EndKind DEF Fails

LEMMA RefuseKind ==
  ASSUME TypeOK, NEW q \in Requests, NEW o \in Outcomes \ {"ok"}, Refuse(q, o)
  PROVE  Fails(q)
<1>1. End(q, o) /\ pc[q] = "new" /\ Keeps
  BY DEF Refuse, Keeps
<1>. QED
  BY <1>1, EndKind DEF Fails

LEMMA VerifiedKind ==
  ASSUME TypeOK, NEW q \in Requests, NEW given, Verified(q, given)
  PROVE  /\ Keeps /\ Others(q) /\ pc[q] = "new" /\ pc'[q] = "verified"
         /\ args'[q] = given /\ outcome'[q] = outcome[q]
  BY DEF Verified, Goto, Keeps, Others, TypeOK, Args

LEMMA StepKind ==
  ASSUME TypeOK, NEW q \in Requests, NEW op, NEW from, NEW to, Step(q, op, from, to)
  PROVE  /\ Keeps /\ Others(q) /\ args'[q] = args[q] /\ outcome'[q] = outcome[q]
         /\ args[q].op = op /\ pc[q] = from /\ pc'[q] = to
  BY DEF Step, Goto, Keeps, Others, TypeOK, Args

LEMMA LoginKind ==
  ASSUME TypeOK, NEW q \in Requests, LoginStep(q)
  PROVE  RequestKind(q)
<1>1. ASSUME NEW u \in Users, Verified(q, [NoArgs EXCEPT !.op = "login", !.user = u])
      PROVE  Begins(q)
  <2>. DEFINE a == [NoArgs EXCEPT !.op = "login", !.user = u]
  <2>1. /\ a \in Args /\ a.op = "login" /\ a.user = u /\ a.seen = {} /\ a.older = {}
    BY DEF NoArgs, Args, Ops
  <2>2. Verified(q, a)
    BY <1>1
  <2>. HIDE DEF a
  <2>. QED BY <2>1, <2>2, VerifiedKind, NoneAssumption DEF Begins
<1>2. ASSUME Refuse(q, "InvalidCredentials")
      PROVE  Fails(q)
  BY <1>2, RefuseKind DEF Outcomes
<1>3. LoginSave(q) => Moves(q)
  BY StepKind DEF LoginSave, Moves
<1>. QED
  BY <1>1, <1>2, <1>3 DEF LoginStep, LoginFind, RequestKind

LEMMA RefreshKind ==
  ASSUME TypeOK, NEW q \in Requests, RefreshStep(q)
  PROVE  RequestKind(q)
<1>1. ASSUME NEW t \in Stored,
             Verified(q, [NoArgs EXCEPT !.op = "refresh", !.user = tokens[t].user,
                                        !.token = t])
      PROVE  Begins(q)
  <2>. DEFINE a == [NoArgs EXCEPT !.op = "refresh", !.user = tokens[t].user, !.token = t]
  <2>0. t \in Requests /\ tokens[t].user \in Users
    BY DEF Stored, TypeOK, Token
  <2>1. /\ a \in Args /\ a.op = "refresh" /\ a.user \in Users /\ a.token = t
        /\ a.seen = {} /\ a.older = {}
    BY <2>0 DEF NoArgs, Args, Ops
  <2>2. Verified(q, a)
    BY <1>1
  <2>. HIDE DEF a
  <2>. QED BY <2>1, <2>2, VerifiedKind, NoneAssumption DEF Begins
<1>2. ASSUME NEW o \in {"RefreshTokenNotFound", "RefreshTokenRevoked", "RefreshTokenExpired"},
             Refuse(q, o)
      PROVE  Fails(q)
  BY <1>2, RefuseKind DEF Outcomes
<1>3. RefreshFind(q) => Begins(q) \/ Fails(q)
  BY <1>1, <1>2 DEF RefreshFind
<1>4. RefreshRevoke(q) \/ RefreshSave(q) => Moves(q)
  BY StepKind DEF RefreshRevoke, RefreshSave, Moves
<1>5. ASSUME RefreshRaises(q)
      PROVE  Fails(q)
  <2>1. End(q, "InternalError") /\ pc[q] = "saved" /\ Keeps
    BY <1>5 DEF RefreshRaises, Keeps
  <2>2. "InternalError" \in Outcomes \ {"ok"}
    BY DEF Outcomes
  <2>. QED BY <2>1, <2>2, FailsKind
<1>. QED
  BY <1>3, <1>4, <1>5 DEF RefreshStep, RequestKind

LEMMA LogoutKind ==
  ASSUME TypeOK, NEW q \in Requests, LogoutStep(q)
  PROVE  RequestKind(q)
<1>1. ASSUME NEW t \in Requests \cup {None},
             Verified(q, [NoArgs EXCEPT !.op = "logout", !.token = t])
      PROVE  Begins(q)
  <2>. DEFINE a == [NoArgs EXCEPT !.op = "logout", !.token = t]
  <2>1. a \in Args /\ a.op = "logout" /\ a.seen = {} /\ a.older = {}
    BY DEF NoArgs, Args, Ops
  <2>2. Verified(q, a)
    BY <1>1
  <2>. HIDE DEF a
  <2>. QED BY <2>1, <2>2, VerifiedKind, NoneAssumption DEF Begins
<1>2. ASSUME Verified(q, [NoArgs EXCEPT !.op = "logout"])
      PROVE  Begins(q)
  <2>. DEFINE a == [NoArgs EXCEPT !.op = "logout"]
  <2>1. Verified(q, a)
    BY <1>2
  <2>2. /\ a \in Args /\ a.op = "logout" /\ a.seen = {} /\ a.older = {}
    BY DEF NoArgs, Args, Ops
  <2>. HIDE DEF a
  <2>. QED BY <2>1, <2>2, VerifiedKind, NoneAssumption DEF Begins
<1>3. LogoutFind(q) => Begins(q)
  <2>1. ASSUME NEW t \in Cookies,
               Verified(q, [NoArgs EXCEPT !.op = "logout",
                              !.token = IF t \in Stored /\ ~tokens[t].revoked THEN t ELSE None])
        PROVE  Begins(q)
    <3>. DEFINE s == IF t \in Stored /\ ~tokens[t].revoked THEN t ELSE None
    <3>1. s \in Requests \cup {None}
      BY DEF Cookies
    <3>2. Verified(q, [NoArgs EXCEPT !.op = "logout", !.token = s])
      BY <2>1
    <3>. HIDE DEF s
    <3>. QED BY <3>1, <3>2, <1>1
  <2>. QED BY <2>1, <1>2 DEF LogoutFind
<1>4. LogoutRevoke(q) => Moves(q)
  BY StepKind DEF LogoutRevoke, Moves
<1>. QED
  BY <1>3, <1>4 DEF LogoutStep, RequestKind

LEMMA ChangeKind ==
  ASSUME TypeOK, NEW q \in Requests, ChangeStep(q)
  PROVE  RequestKind(q)
<1>1. ASSUME NEW u \in Users, NEW new \in Passwords,
             Verified(q, [NoArgs EXCEPT !.op = "change", !.user = u, !.new = new,
                                        !.older = Active(u)])
      PROVE  Begins(q)
  <2>. DEFINE a == [NoArgs EXCEPT !.op = "change", !.user = u, !.new = new,
                                  !.older = Active(u)]
  <2>1. Active(u) \in SUBSET Requests
    BY DEF Active, Stored
  <2>2. /\ a \in Args /\ a.op = "change" /\ a.user = u /\ a.new = new
        /\ a.seen = {} /\ a.older = Active(u)
    BY <2>1 DEF NoArgs, Args, Ops
  <2>3. Verified(q, a)
    BY <1>1
  <2>. HIDE DEF a
  <2>. QED BY <2>2, <2>3, VerifiedKind, NoneAssumption DEF Begins
<1>2. ASSUME NEW o \in {"InvalidCredentials", "SamePassword"}, Refuse(q, o)
      PROVE  Fails(q)
  BY <1>2, RefuseKind DEF Outcomes
<1>3. ChangeFind(q) => Begins(q) \/ Fails(q)
  BY <1>1, <1>2 DEF ChangeFind
<1>4. ChangeSave(q) \/ ChangeRevokeEnds(q) => Moves(q)
  BY StepKind DEF ChangeSave, ChangeRevokeEnds, Moves
<1>. QED
  BY <1>3, <1>4 DEF ChangeStep, RequestKind

LEMMA NextKinds ==
  ASSUME TypeOK, Next
  PROVE  \/ \E q \in Requests : RequestKind(q)
         \/ \E t \in Requests : Expire(t)
<1>1. ASSUME NEW q \in Requests, Register(q) \/ Unauthenticated(q) \/ GetMe(q)
      PROVE  RequestKind(q)
  BY <1>1, RefuseKind
  DEF Register, EmailInUse, RegisterRaises, Unauthenticated, GetMe, Outcomes, RequestKind
<1>2. ASSUME NEW q \in Requests, Answer(q)
      PROVE  RequestKind(q)
  BY <1>2 DEF Answer, Goto, RequestKind, Moves, Keeps, Others, TypeOK, Args
<1>3. ASSUME NEW q \in Requests, Commit(q) \/ CommitFails(q)
      PROVE  RequestKind(q)
  <2>1. End(q, "ok") /\ pc[q] = "answered" /\ (CommitFails(q) => Keeps)
    BY <1>3 DEF Commit, CommitFails, Keeps
  <2>. QED BY <1>3, <2>1, EndKind DEF Closes, RequestKind
<1>4. ASSUME NEW q \in Requests, RequestFails(q)
      PROVE  RequestKind(q)
  <2>1. End(q, "Failure") /\ pc[q] \notin {"answered", "done"} /\ Keeps
    BY <1>4 DEF RequestFails, Keeps
  <2>2. "Failure" \in Outcomes \ {"ok"}
    BY DEF Outcomes
  <2>. QED BY <2>1, <2>2, FailsKind DEF RequestKind
<1>. QED
  BY <1>1, <1>2, <1>3, <1>4, LoginKind, RefreshKind, LogoutKind, ChangeKind
  DEF Next, Advance

-------------------------------------------------------------------------------
(* The parts of the invariant, one by one.                                 *)

\* Other requests are where they were.
LEMMA OthersSame ==
  ASSUME TypeOK, NEW q \in Requests, Others(q), NEW r \in Requests, r # q
  PROVE  pc'[r] = pc[r] /\ args'[r] = args[r] /\ outcome'[r] = outcome[r]
  BY DEF Others, TypeOK

LEMMA RevokeAllSame ==
  ASSUME TypeOK, NEW q \in Requests, ChangeRevokeAll(q)
  PROVE  /\ Keeps /\ Others(q)
         /\ pc[q] = "revoked" /\ pc'[q] = "revoking" /\ outcome'[q] = outcome[q]
         /\ args[q].op = "change"
         /\ args'[q] \in Args
         /\ args'[q].op = "change" /\ args'[q].user = args[q].user
         /\ args'[q].new = args[q].new /\ args'[q].older = args[q].older
         /\ args'[q].seen = Active(args[q].user)
<1>1. Active(args[q].user) \in SUBSET Requests /\ args[q] \in Args
  BY DEF Active, Stored, TypeOK
<1>2. /\ Keeps /\ Others(q)
      /\ pc[q] = "revoked" /\ pc'[q] = "revoking" /\ outcome'[q] = outcome[q]
      /\ args[q].op = "change"
      /\ args'[q] = [args[q] EXCEPT !.seen = Active(args[q].user)]
  BY DEF ChangeRevokeAll, Goto, Keeps, Others, TypeOK
<1>. QED
  BY <1>1, <1>2 DEF Args

LEMMA RequestOthers ==
  ASSUME TypeOK, NEW q \in Requests, RequestKind(q)
  PROVE  Others(q)
  BY RevokeAllSame DEF RequestKind, Fails, Begins, Moves, Closes

\* The arguments of a step are of their type.
LEMMA RequestTypes ==
  ASSUME TypeOK, NEW q \in Requests, RequestOK(q), RequestKind(q)
  PROVE  pc'[q] \in Places /\ args'[q] \in Args /\ outcome'[q] \in Outcomes \cup {None}
<1>1. NoArgs \in Args
  BY DEF NoArgs, Args, Ops
<1>2. args[q] \in Args /\ outcome[q] \in Outcomes \cup {None}
  BY DEF TypeOK
<1>3. [args[q] EXCEPT !.new = None, !.seen = {}, !.older = {}] \in Args
  BY <1>2 DEF Args
<1>4. CASE Fails(q)
  BY <1>4, <1>1 DEF Fails, Places
<1>5. CASE Begins(q)
  BY <1>5, <1>2 DEF Begins, Places
<1>6. CASE Moves(q)
  BY <1>6, <1>2 DEF Moves, Places, Outcomes
<1>7. CASE ChangeRevokeAll(q)
  BY <1>7, <1>2, RevokeAllSame DEF Places
<1>8. CASE Closes(q)
  BY <1>8, <1>3 DEF Closes, Places, Outcomes
<1>. QED
  BY <1>4, <1>5, <1>6, <1>7, <1>8 DEF RequestKind

\* What a commit does to each token: it may add that of its own login, and it
\* revokes those it has found for its user, or the one of its cookie.
LEMMA CommitTokens ==
  ASSUME IndInv, NEW q \in Requests, Commit(q)
  PROVE  /\ tokens' \in [Requests -> Token \cup {None}]
         /\ password' \in [Users -> Passwords]
         /\ expired' = expired
         /\ \A t \in Requests :
              \/ t = q /\ args[q].op = "login" /\ tokens[t] = None
                 /\ tokens'[t].user = args[q].user /\ ~tokens'[t].revoked
                 /\ tokens'[t] \in Token
              \/ t \in Revoked(q) \cap Stored /\ tokens'[t].revoked
                 /\ tokens'[t].user = tokens[t].user /\ tokens'[t] \in Token
              \/ t \notin Revoked(q) \cap Stored /\ tokens'[t] = tokens[t]
<1>1. TypeOK /\ RequestOK(q) /\ TokensOK
  BY DEF IndInv
<1>2. pc[q] = "answered" /\ args[q] \in Args
  BY <1>1 DEF Commit, TypeOK
<1>3. q \notin Stored
  BY <1>1, <1>2 DEF TokensOK
<1>4. args[q].op = "login" => NewToken(args[q].user) \in Token
  BY <1>1 DEF RequestOK, NewToken, Token
<1>5. \A t \in Stored : tokens[t] \in Token /\ [tokens[t] EXCEPT !.revoked = TRUE] \in Token
  BY <1>1 DEF Stored, TypeOK, Token
<1>6. tokens' = [t \in Requests |->
       IF t = q /\ args[q].op = "login" THEN NewToken(args[q].user)
       ELSE IF t \in Revoked(q) \cap Stored THEN [tokens[t] EXCEPT !.revoked = TRUE]
       ELSE tokens[t]]
  BY DEF Commit
<1>7. \A t \in Requests :
        tokens'[t] = IF t = q /\ args[q].op = "login" THEN NewToken(args[q].user)
                     ELSE IF t \in Revoked(q) \cap Stored
                          THEN [tokens[t] EXCEPT !.revoked = TRUE]
                     ELSE tokens[t]
  BY <1>6
<1>8. tokens' \in [Requests -> Token \cup {None}]
  BY <1>1, <1>4, <1>5, <1>6 DEF TypeOK
<1>9. password' \in [Users -> Passwords]
  <2>1. args[q].op = "change" => args[q].new \in Passwords
    BY <1>1, <1>2 DEF RequestOK
  <2>. QED BY <2>1, <1>1 DEF Commit, TypeOK
<1>10. ASSUME NEW t \in Requests
       PROVE  \/ t = q /\ args[q].op = "login" /\ tokens[t] = None
                 /\ tokens'[t].user = args[q].user /\ ~tokens'[t].revoked
                 /\ tokens'[t] \in Token
              \/ t \in Revoked(q) \cap Stored /\ tokens'[t].revoked
                 /\ tokens'[t].user = tokens[t].user /\ tokens'[t] \in Token
              \/ t \notin Revoked(q) \cap Stored /\ tokens'[t] = tokens[t]
  <2>1. CASE t = q /\ args[q].op = "login"
    <3>1. tokens[t] = None
      BY <2>1, <1>3 DEF Stored
    <3>2. tokens'[t] = NewToken(args[q].user)
      BY <2>1, <1>7
    <3>. QED BY <2>1, <3>1, <3>2, <1>4 DEF NewToken
  <2>2. CASE ~(t = q /\ args[q].op = "login") /\ t \in Revoked(q) \cap Stored
    <3>1. tokens'[t] = [tokens[t] EXCEPT !.revoked = TRUE] /\ tokens[t] \in Token
      BY <2>2, <1>5, <1>7
    <3>. QED BY <2>2, <3>1 DEF Token
  <2>3. CASE ~(t = q /\ args[q].op = "login") /\ t \notin Revoked(q) \cap Stored
    BY <2>3, <1>7
  <2>. QED BY <2>1, <2>2, <2>3
<1>. QED
  BY <1>8, <1>9, <1>10 DEF Commit

\* A step of a request: what becomes of the tokens.
LEMMA TokensGrow ==
  ASSUME IndInv, NEW q \in Requests, RequestKind(q)
  PROVE  /\ tokens' \in [Requests -> Token \cup {None}]
         /\ password' \in [Users -> Passwords]
         /\ expired' = expired
         /\ Stored \subseteq Stored'
         /\ \A t \in Stored : /\ tokens'[t].user = tokens[t].user
                              /\ tokens[t].revoked => tokens'[t].revoked
<1>1. CASE Keeps
  BY <1>1 DEF Keeps, IndInv, TypeOK, Stored
<1>2. CASE Commit(q)
  <2>1. \A t \in Stored : t \in Requests /\ tokens[t] # None
    BY DEF Stored
  <2>2. \A t \in Stored : /\ tokens'[t].user = tokens[t].user
                          /\ tokens[t].revoked => tokens'[t].revoked
                          /\ tokens'[t] # None
    BY <1>2, <2>1, CommitTokens, NoneAssumption
  <2>. QED BY <1>2, <2>1, <2>2, CommitTokens DEF Stored
<1>. QED
  BY <1>1, <1>2, RevokeAllSame DEF RequestKind, Fails, Begins, Moves, IndInv

LEMMA NextTypeOK ==
  ASSUME IndInv, [Next]_vars
  PROVE  TypeOK'
<1>1. ASSUME NEW q \in Requests, RequestKind(q)
      PROVE  TypeOK'
  <2>1. TypeOK /\ RequestOK(q) /\ Others(q)
    BY <1>1, RequestOthers DEF IndInv
  <2>2. pc'[q] \in Places /\ args'[q] \in Args /\ outcome'[q] \in Outcomes \cup {None}
    BY <1>1, <2>1, RequestTypes
  <2>3. pc' \in [Requests -> Places] /\ args' \in [Requests -> Args]
        /\ outcome' \in [Requests -> Outcomes \cup {None}]
    BY <2>1, <2>2 DEF Others, TypeOK
  <2>4. expired' \subseteq Stored'
    BY <1>1, <2>1, TokensGrow DEF TypeOK
  <2>. QED BY <1>1, <2>3, <2>4, TokensGrow DEF TypeOK
<1>2. ASSUME NEW t \in Requests, Expire(t)
      PROVE  TypeOK'
  BY <1>2 DEF Expire, TypeOK, IndInv, Stored
<1>3. CASE UNCHANGED vars
  BY <1>3 DEF vars, TypeOK, IndInv, Stored
<1>. QED
  BY <1>1, <1>2, <1>3, NextKinds DEF IndInv

LEMMA NextRequestOK ==
  ASSUME IndInv, NEW q \in Requests, RequestKind(q), NEW r \in Requests
  PROVE  RequestOK(r)'
<1>. USE NoneAssumption
<1>1. TypeOK /\ RequestOK(q) /\ RequestOK(r) /\ Others(q) /\ Stored \subseteq Stored'
  BY RequestOthers, TokensGrow DEF IndInv
<1>2. CASE r # q
  <2>1. pc'[r] = pc[r] /\ args'[r] = args[r] /\ outcome'[r] = outcome[r]
    BY <1>1, <1>2, OthersSame
  <2>. QED BY <1>1, <2>1 DEF RequestOK
<1>. SUFFICES ASSUME r = q PROVE RequestOK(q)'
  BY <1>2
<1>3. /\ NoArgs.op = None /\ NoArgs.seen = {} /\ NoArgs.older = {}
  BY DEF NoArgs
<1>4. args[q] \in Args /\ pc[q] \in Places
  BY <1>1 DEF TypeOK
<1>5. CASE Fails(q)
  BY <1>5, <1>3 DEF Fails, RequestOK
<1>6. CASE Begins(q)
  <2>1. pc[q] = "new" /\ outcome[q] # "ok" /\ args'[q] \in Args
    BY <1>6, <1>1 DEF Begins, RequestOK
  <2>2. args'[q].op = "refresh" => args'[q].token \in Stored'
    BY <1>6, <1>1 DEF Begins
  <2>. QED BY <1>6, <2>1, <2>2 DEF Begins, RequestOK
<1>7. CASE Moves(q)
  <2>1. /\ args'[q] = args[q] /\ pc[q] \notin {"new", "done", "answered"}
        /\ args[q].op # None /\ outcome[q] # "ok"
    BY <1>7, <1>1 DEF Moves, RequestOK
  <2>. QED BY <1>7, <1>1, <2>1 DEF Moves, RequestOK
<1>8. CASE ChangeRevokeAll(q)
  <2>1. /\ pc[q] = "revoked" /\ pc'[q] = "revoking" /\ outcome'[q] = outcome[q]
        /\ args'[q].op = "change" /\ args'[q].user = args[q].user
        /\ args'[q].new = args[q].new /\ args[q].op = "change"
    BY <1>8, <1>1, RevokeAllSame
  <2>. QED BY <1>1, <2>1 DEF RequestOK
<1>9. CASE Closes(q)
  <2>1. /\ pc[q] = "answered" /\ pc'[q] = "done" /\ outcome'[q] = "ok"
        /\ args'[q].op = args[q].op /\ args'[q].user = args[q].user
        /\ args'[q].seen = {} /\ args'[q].older = {}
    BY <1>9, <1>4 DEF Closes, Args
  <2>. QED BY <1>1, <2>1 DEF RequestOK
<1>. QED
  BY <1>5, <1>6, <1>7, <1>8, <1>9 DEF RequestKind

LEMMA ActiveUser ==
  ASSUME NEW u, NEW t \in Active(u)
  PROVE  t \in Stored /\ tokens[t].user = u
  BY DEF Active

LEMMA NextChangeOK ==
  ASSUME IndInv, NEW q \in Requests, RequestKind(q), NEW r \in Requests
  PROVE  ChangeOK(r)'
<1>. USE NoneAssumption
<1>1. /\ TypeOK /\ RequestOK(q) /\ ChangeOK(q) /\ ChangeOK(r) /\ Others(q)
      /\ Stored \subseteq Stored'
      /\ \A t \in Stored : /\ tokens'[t].user = tokens[t].user
                           /\ tokens[t].revoked => tokens'[t].revoked
  BY RequestOthers, TokensGrow DEF IndInv
<1>2. CASE r # q
  <2>1. pc'[r] = pc[r] /\ args'[r] = args[r]
    BY <1>1, <1>2, OthersSame
  <2>. QED BY <1>1, <2>1 DEF ChangeOK
<1>. SUFFICES ASSUME r = q PROVE ChangeOK(q)'
  BY <1>2
<1>3. args[q] \in Args
  BY <1>1 DEF TypeOK
<1>4. CASE Fails(q)
  BY <1>4 DEF Fails, ChangeOK, NoArgs
<1>5. CASE Begins(q)
  <2>1. /\ args'[q].seen = {} /\ pc'[q] = "verified"
        /\ args'[q].op = "change" => args'[q].older = Active(args'[q].user)
    BY <1>5 DEF Begins
  <2>2. args'[q].op = "change" =>
          \A t \in args'[q].older : t \in Stored' /\ tokens'[t].user = args'[q].user
    BY <1>1, <2>1, ActiveUser
  <2>. QED BY <2>1, <2>2 DEF ChangeOK
<1>6. CASE Moves(q)
  <2>1. /\ args'[q] = args[q]
        /\ args[q].op = "change" /\ pc'[q] \in {"revoking", "saved", "answered"} =>
             pc[q] \in {"revoking", "saved"}
    BY <1>6 DEF Moves
  <2>. QED BY <1>1, <2>1 DEF ChangeOK
<1>7. CASE ChangeRevokeAll(q)
  <2>1. /\ args[q].op = "change" /\ args'[q].op = "change"
        /\ args'[q].user = args[q].user /\ args'[q].older = args[q].older
        /\ args'[q].seen = Active(args[q].user)
    BY <1>7, <1>1, RevokeAllSame
  <2>2. \A t \in args'[q].seen \cup args'[q].older :
          t \in Stored /\ tokens[t].user = args'[q].user
    BY <1>1, <2>1, ActiveUser DEF ChangeOK
  <2>3. \A t \in args'[q].older : t \in args'[q].seen \/ tokens[t].revoked
    BY <2>1, <2>2 DEF Active
  <2>. QED BY <1>1, <2>2, <2>3 DEF ChangeOK
<1>8. CASE Closes(q)
  <2>1. args'[q].seen = {} /\ args'[q].older = {}
    BY <1>8, <1>3 DEF Closes, Args
  <2>. QED BY <2>1 DEF ChangeOK
<1>. QED
  BY <1>4, <1>5, <1>6, <1>7, <1>8 DEF RequestKind

\* A token is stored by the commit of the login it is known by.
LEMMA NewlyStored ==
  ASSUME IndInv, NEW q \in Requests, RequestKind(q), NEW t \in Requests,
         t \notin Stored, t \in Stored'
  PROVE  /\ t = q /\ args[q].op = "login" /\ Closes(q)
         /\ ~tokens'[t].revoked
<1>1. tokens'[t] # tokens[t]
  BY DEF Stored
<1>2. Closes(q) /\ Commit(q)
  BY <1>1, RevokeAllSame DEF RequestKind, Fails, Begins, Moves, Keeps, IndInv
<1>. QED
  BY <1>1, <1>2, CommitTokens

LEMMA NextTokensOK ==
  ASSUME IndInv, NEW q \in Requests, RequestKind(q)
  PROVE  TokensOK'
<1>. SUFFICES ASSUME NEW t \in Requests, t \in Stored'
              PROVE  pc'[t] = "done"
  BY DEF TokensOK, Stored
<1>1. TypeOK /\ TokensOK /\ Others(q)
  BY RequestOthers DEF IndInv
<1>2. CASE t \in Stored
  <2>1. pc[t] = "done"
    BY <1>1, <1>2 DEF TokensOK
  <2>2. pc[q] # "done"
    BY <1>1, RevokeAllSame DEF RequestKind, Fails, Begins, Moves, Closes
  <2>. QED BY <1>1, <2>1, <2>2, OthersSame
<1>3. CASE t \notin Stored
  BY <1>3, NewlyStored DEF Closes
<1>. QED
  BY <1>2, <1>3

\* An answered request stays what it is.
LEMMA AnsweredStays ==
  ASSUME IndInv, NEW q \in Requests, RequestKind(q), NEW r \in Requests,
         outcome[r] = "ok"
  PROVE  /\ outcome'[r] = "ok" /\ args'[r].op = args[r].op
         /\ args'[r].user = args[r].user /\ args'[r].token = args[r].token
<1>1. TypeOK /\ RequestOK(r) /\ Others(q)
  BY RequestOthers DEF IndInv
<1>2. CASE r # q
  BY <1>1, <1>2, OthersSame
<1>3. CASE r = q
  <2>1. pc[q] \in {"answered", "done"} /\ args[q] \in Args
    BY <1>1, <1>3 DEF RequestOK, TypeOK
  <2>2. Closes(q)
    BY <1>1, <2>1, RevokeAllSame DEF RequestKind, Fails, Begins, Moves
  <2>. QED BY <1>3, <2>1, <2>2 DEF Closes, Args
<1>. QED
  BY <1>2, <1>3

LEMMA NextFailureLeavesNothing ==
  ASSUME IndInv, NEW q \in Requests, RequestKind(q)
  PROVE  FailureLeavesNothing'
<1>. DEFINE Ender(t, r) ==
       /\ outcome[r] = "ok"
       /\ \/ args[r].op = "logout" /\ args[r].token = t
          \/ args[r].op = "change" /\ args[r].user = tokens[t].user
<1>. SUFFICES ASSUME NEW t \in Requests, t \in Stored'
              PROVE  /\ outcome'[t] = "ok" /\ args'[t].op = "login"
                     /\ tokens'[t].revoked => \E r \in Requests : Ender(t, r)'
  BY DEF FailureLeavesNothing, Stored
<1>1. TypeOK /\ RequestOK(q) /\ ChangeOK(q) /\ Others(q) /\ FailureLeavesNothing
  BY RequestOthers DEF IndInv
<1>2. CASE t \notin Stored
  <2>1. /\ t = q /\ args[q].op = "login" /\ Closes(q) /\ ~tokens'[t].revoked
    BY <1>2, NewlyStored
  <2>2. args[q] \in Args
    BY <1>1 DEF TypeOK
  <2>. QED BY <2>1, <2>2 DEF Closes, Args
<1>3. CASE t \in Stored
  <2>1. outcome'[t] = "ok" /\ args'[t].op = "login"
    BY <1>1, <1>3, AnsweredStays DEF FailureLeavesNothing
  <2>2. tokens'[t].user = tokens[t].user
    BY <1>3, TokensGrow
  <2>3. ASSUME tokens[t].revoked
        PROVE  \E r \in Requests : Ender(t, r)'
    <3>1. PICK r \in Requests : Ender(t, r)
      BY <1>1, <1>3, <2>3 DEF FailureLeavesNothing
    <3>. QED BY <2>2, <3>1, AnsweredStays
  <2>4. ASSUME ~tokens[t].revoked, tokens'[t].revoked
        PROVE  \E r \in Requests : Ender(t, r)'
    <3>1. Closes(q) /\ Commit(q) /\ outcome[q] = "ok" /\ pc[q] = "answered"
      BY <1>1, <2>4, RevokeAllSame
      DEF RequestKind, Fails, Begins, Moves, Keeps, RequestOK, Closes
    <3>2. t \in Revoked(q)
      BY <3>1, <2>4, CommitTokens
    <3>3. Ender(t, q)
      BY <1>1, <3>1, <3>2, NoneAssumption DEF Revoked, RequestOK, ChangeOK
    <3>. QED BY <2>2, <3>1, <3>3, AnsweredStays
  <2>. QED BY <2>1, <2>3, <2>4
<1>. QED
  BY <1>2, <1>3

-------------------------------------------------------------------------------
(* The theorems.                                                           *)

LEMMA InitIndInv == Init => IndInv
<1>. SUFFICES ASSUME Init PROVE IndInv
  OBVIOUS
<1>. USE NoneAssumption, RegisteredAssumption DEF Init
<1>1. NoArgs \in Args
  BY DEF NoArgs, Args, Ops
<1>2. TypeOK /\ Stored = {}
  BY <1>1 DEF TypeOK, Places, Stored
<1>3. \A q \in Requests : RequestOK(q) /\ ChangeOK(q)
  BY DEF RequestOK, ChangeOK, NoArgs
<1>. QED
  BY <1>2, <1>3 DEF IndInv, TokensOK, FailureLeavesNothing

LEMMA NextIndInv ==
  ASSUME IndInv, [Next]_vars
  PROVE  IndInv'
<1>1. TypeOK'
  BY NextTypeOK
<1>2. ASSUME NEW q \in Requests, RequestKind(q)
      PROVE  IndInv'
  BY <1>1, <1>2, NextRequestOK, NextChangeOK, NextTokensOK, NextFailureLeavesNothing
  DEF IndInv
<1>3. CASE UNCHANGED <<password, tokens, pc, args, outcome>>
  <2>1. Stored' = Stored
    BY <1>3 DEF Stored
  <2>. QED
    BY <1>1, <1>3, <2>1
    DEF IndInv, RequestOK, ChangeOK, TokensOK, FailureLeavesNothing
<1>. QED
  BY <1>2, <1>3, NextKinds DEF IndInv, vars, Expire

\* What requests have in hand fits the tokens, in every reachable state: it is what
\* makes the promises below hold at their commits.
THEOREM SpecIndInv == Spec => []IndInv
  BY InitIndInv, NextIndInv, PTL DEF Spec

\* Every variable has its type, in every state that logins, renewals, logouts,
\* changes of password and their failures reach.
THEOREM SpecTypeOK == Spec => []TypeOK
<1>1. IndInv => TypeOK
  BY DEF IndInv
<1>. QED
  BY <1>1, SpecIndInv, PTL

\* A renewal that breaks off, or any other request that fails, leaves every
\* session as it was: sessions come from answered logins and end by answered
\* logouts and changes of password (refresh_session.py:48-72).
THEOREM SpecFailureLeavesNothing == Spec => []FailureLeavesNothing
<1>1. IndInv => FailureLeavesNothing
  BY DEF IndInv
<1>. QED
  BY <1>1, SpecIndInv, PTL

\* A committed change of password ends every session that was there when it
\* began, and none of another user (change_password.py:50).
THEOREM SpecChangeEndsSessions == Spec => ChangeEndsSessions
<1>1. ASSUME IndInv, [Next]_vars, NEW q \in Requests,
             args[q].op = "change", pc[q] = "answered", pc'[q] = "done",
             password' # password
      PROVE  /\ \A t \in args[q].older : tokens'[t].revoked
             /\ \A t \in Stored :
                  tokens'[t] # tokens[t] => tokens[t].user = args[q].user
  <2>1. TypeOK /\ ChangeOK(q)
    BY <1>1 DEF IndInv
  <2>2. ~UNCHANGED vars /\ \A t \in Requests : ~Expire(t)
    BY <1>1 DEF vars, Expire
  <2>3. PICK r \in Requests : RequestKind(r)
    BY <1>1, <2>1, <2>2, NextKinds
  <2>4. Commit(r)
    BY <1>1, <2>1, <2>3, RevokeAllSame DEF RequestKind, Fails, Begins, Moves, Keeps
  <2>5. r = q
    BY <1>1, <2>1, <2>3, OthersSame, RequestOthers
  <2>6. /\ Revoked(q) = args[q].seen
        /\ \A t \in args[q].seen \cup args[q].older :
             t \in Stored /\ tokens[t].user = args[q].user
        /\ \A t \in args[q].older : t \in args[q].seen \/ tokens[t].revoked
    BY <1>1, <2>1 DEF Revoked, ChangeOK
  <2>7. \A t \in Stored :
          \/ t \in args[q].seen /\ tokens'[t].revoked
          \/ t \notin args[q].seen /\ tokens'[t] = tokens[t]
    BY <1>1, <2>4, <2>5, <2>6, CommitTokens DEF Stored
  <2>. QED BY <2>6, <2>7
<1>2. IndInv /\ [Next]_vars =>
        [\A q \in Requests :
           /\ args[q].op = "change" /\ pc[q] = "answered" /\ pc'[q] = "done"
           /\ password' # password
           =>
             /\ \A t \in args[q].older : tokens'[t].revoked
             /\ \A t \in Stored :
                  tokens'[t] # tokens[t] => tokens[t].user = args[q].user]_vars
  BY <1>1
<1>. QED
  BY <1>2, SpecIndInv, PTL DEF Spec, ChangeEndsSessions
=============================================================================
