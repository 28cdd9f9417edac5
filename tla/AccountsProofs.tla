---------------------------- MODULE AccountsProofs ----------------------------
(* Users, sessions and reset tokens, for every number of users, profiles   *)
(* and overlapping requests.                                               *)
EXTENDS Accounts, TLAPS

(* Rows refer to rows, and every user has a way to sign in.                *)
TablesInv ==
    /\ \A e \in Email : users[e] # None /\ users[e].hash = None => HasAccount(e)
    /\ \A p \in Profile : accounts[p] # None => users[accounts[p]] # None
    /\ \A k \in ResetToken : resets[k] # None => users[resets[k].user] # None
    /\ \A k \in mailed : resets[k] # None

KnownUser(r) == call[r].user \in Email /\ users[call[r].user] # None

(* What a request has read still fits the tables when it goes on.          *)
RequestInv(r) ==
    /\ at[r] \in {"create", "find", "create_oauth"} => call[r].user \in Email
    /\ at[r] \in {"verify", "store", "answer", "answered", "torn", "logged_out", "link",
                  "check", "change", "create_token", "reset"} => KnownUser(r)
    /\ at[r] \in {"create", "reset"} => call[r].password \in Password
    /\ at[r] \in {"create", "verify"} => call[r].profile = None
    /\ at[r] \in {"find", "link", "create_oauth"} => call[r].profile \in Profile
    /\ at[r] \in {"store", "answer", "answered", "torn"} =>
           /\ call[r].token \in Token
           /\ call[r].token.user = call[r].user
           /\ call[r].profile # None => accounts[call[r].profile] = call[r].user
    /\ at[r] = "verify" /\ call[r].hash = None => HasAccount(call[r].user)
    /\ at[r] \in {"mail", "reset", "mark", "reset_done"} =>
           call[r].key \in ResetToken /\ resets[call[r].key] # None
    /\ at[r] = "reset_done" => resets[call[r].key].used

AccountsInv ==
    /\ TypeOK
    /\ TablesInv
    /\ \A r \in Request : RequestInv(r)
    /\ StoredTokenIsHeld

(* No row goes away, and none changes its owner.                           *)
Keeps ==
    /\ \A e \in Email : users[e] # None => users'[e] # None
    /\ \A p \in Profile : accounts[p] # None => accounts'[p] = accounts[p]
    /\ \A k \in ResetToken : resets[k] # None =>
           /\ resets'[k] # None
           /\ resets'[k].user = resets[k].user
           /\ resets[k].used => resets'[k].used

Moves(r) ==
    \A q \in Request \ {r} : at'[q] = at[q] /\ call'[q] = call[q]

-----------------------------------------------------------------------------
LEMMA AccountsInitInv == Init => AccountsInv
<1> SUFFICES ASSUME Init
             PROVE  AccountsInv
  OBVIOUS
<1> USE AccountsAssumption DEF Init
<1>1. Blank \in Locals
  BY DEF Blank, Locals
<1>2. TypeOK
  BY <1>1 DEF TypeOK, User, Phase, Over
<1>3. TablesInv
  BY DEF TablesInv
<1>4. \A r \in Request : RequestInv(r)
  BY DEF RequestInv
<1>5. StoredTokenIsHeld
  BY DEF StoredTokenIsHeld
<1> QED
  BY <1>2, <1>3, <1>4, <1>5 DEF AccountsInv

(* What a request relies on survives the steps of the others.              *)
LEMMA OthersKeepInv ==
  ASSUME TypeOK, Keeps, NEW q \in Request, RequestInv(q),
         at'[q] = at[q], call'[q] = call[q]
  PROVE  RequestInv(q)'
<1>1. KnownUser(q) => KnownUser(q)'
  BY DEF Keeps, KnownUser
<1>2. \A e \in Email : HasAccount(e) => HasAccount(e)'
  BY AccountsAssumption DEF Keeps, HasAccount
<1>3. \A p \in Profile : accounts[p] # None => accounts'[p] = accounts[p]
  BY DEF Keeps
<1>4. \A k \in ResetToken : resets[k] # None =>
          resets'[k] # None /\ (resets[k].used => resets'[k].used)
  BY DEF Keeps
<1>5. call[q].profile \in Profile \union {None}
  BY DEF TypeOK, Locals
<1> QED
  BY <1>1, <1>2, <1>3, <1>4, <1>5, AccountsAssumption DEF RequestInv, KnownUser

(* A request that writes no refresh token keeps the sessions as they are.  *)
LEMMA SessionsKept ==
  ASSUME AccountsInv, NEW r \in Request, Moves(r),
         \/ at[r] \notin {"answer", "answered", "torn", "logged_out"}
         \/ at[r] = "answer" /\ at'[r] \in {"answered", "torn"} /\ call'[r] = call[r],
         \A e \in Email :
             IF users[e] # None
             THEN users'[e] # None /\ users'[e].hashedRt = users[e].hashedRt
             ELSE users'[e] # None => users'[e].hashedRt = None
  PROVE  StoredTokenIsHeld'
<1>1. \A q \in Request, e \in Email :
          HasWrittenRt(q, e) => HasWrittenRt(q, e)' /\ call'[q] = call[q]
  BY DEF HasWrittenRt, Moves
<1> QED
  BY <1>1 DEF AccountsInv, StoredTokenIsHeld

LEMMA StepKeepsInv ==
  ASSUME AccountsInv, NEW r \in Request, TypeOK', TablesInv', Keeps, Moves(r),
         RequestInv(r)', StoredTokenIsHeld'
  PROVE  AccountsInv'
<1>1. ASSUME NEW q \in Request \ {r}
      PROVE  RequestInv(q)'
  BY OthersKeepInv DEF AccountsInv, Moves
<1> QED
  BY <1>1 DEF AccountsInv

LEMMA GotoMoves ==
  ASSUME TypeOK, NEW r \in Request, NEW n \in Phase, NEW c \in Locals, Goto(r, n, c)
  PROVE  /\ Moves(r)
         /\ at'[r] = n /\ call'[r] = c
         /\ at' \in [Request -> Phase] /\ call' \in [Request -> Locals]
         /\ mailed' = mailed /\ now' = now
         /\ rtWriters' \in Seq(Request)
BY DEF TypeOK, Goto, Moves

(* A step that only reads.                                                 *)
LEMMA ReadKeepsInv ==
  ASSUME AccountsInv, NEW r \in Request, NEW n \in Phase, NEW c \in Locals,
         Goto(r, n, c), UNCHANGED tables, RequestInv(r)',
         \/ /\ at[r] \notin {"answer", "answered", "torn", "logged_out"}
            /\ n \notin {"answer", "answered"}
         \/ at[r] = "answer" /\ n \in {"answered", "torn"} /\ c = call[r]
  PROVE  AccountsInv'
<1> USE GotoMoves DEF tables
<1>1. TypeOK'
  BY DEF AccountsInv, TypeOK
<1>2. TablesInv' /\ Keeps
  BY DEF AccountsInv, TablesInv, Keeps, HasAccount
<1>3. StoredTokenIsHeld'
  BY SessionsKept DEF AccountsInv
<1> QED
  BY <1>1, <1>2, <1>3, StepKeepsInv DEF AccountsInv

LEMMA RefuseKeepsInv ==
  ASSUME AccountsInv, NEW r \in Request, Refuse(r),
         at[r] \notin {"answer", "answered", "torn", "logged_out"}
  PROVE  AccountsInv'
<1>1. Blank \in Locals /\ "refused" \in Phase
  BY DEF Blank, Locals, Phase, Over
<1>2. Goto(r, "refused", Blank) /\ UNCHANGED tables
  BY DEF Refuse
<1>3. RequestInv(r)'
  BY <1>1, <1>2, GotoMoves DEF AccountsInv, RequestInv
<1> QED
  BY <1>1, <1>2, <1>3, ReadKeepsInv

(* getTokens signs for the user of the request.                            *)
LEMMA IssueTokensGoto ==
  ASSUME TypeOK, NEW r \in Request, NEW c \in Locals, NEW b \in BOOLEAN, c.user \in Email,
         IssueTokens(r, c, b)
  PROVE  \E d \in Locals :
             /\ Goto(r, "store", d)
             /\ d.user = c.user /\ d.profile = c.profile
             /\ d.token \in Token /\ d.token.user = c.user
<1> DEFINE d == [c EXCEPT !.password = None, !.hash = None,
                          !.token = [user |-> c.user, roles |-> b, second |-> now]]
<1>1. Goto(r, "store", d)
  BY DEF IssueTokens
<1>2. [user |-> c.user, roles |-> b, second |-> now] \in Token
  BY DEF TypeOK, Token
<1>3. d \in Locals /\ d.user = c.user /\ d.profile = c.profile
      /\ d.token = [user |-> c.user, roles |-> b, second |-> now]
  BY <1>2 DEF Locals
<1> HIDE DEF d
<1> QED
  BY <1>1, <1>2, <1>3

LEMMA IssueReadKeepsInv ==
  ASSUME AccountsInv, NEW r \in Request, NEW c \in Locals, NEW b \in BOOLEAN,
         IssueTokens(r, c, b), UNCHANGED tables,
         c.user \in Email, users[c.user] # None,
         c.profile # None => accounts[c.profile] = c.user,
         at[r] \notin {"answer", "answered", "torn", "logged_out"}
  PROVE  AccountsInv'
<1>1. PICK d \in Locals :
          /\ Goto(r, "store", d)
          /\ d.user = c.user /\ d.profile = c.profile
          /\ d.token \in Token /\ d.token.user = c.user
  BY IssueTokensGoto DEF AccountsInv
<1>2. "store" \in Phase
  BY DEF Phase
<1>3. at'[r] = "store" /\ call'[r] = d
  BY <1>1, <1>2, GotoMoves DEF AccountsInv
<1>4. users' = users /\ accounts' = accounts
  BY DEF tables
<1>5. RequestInv(r)'
  BY <1>1, <1>3, <1>4 DEF RequestInv, KnownUser
<1> QED
  BY <1>1, <1>2, <1>5, ReadKeepsInv

-----------------------------------------------------------------------------
(* register, login, refresh and logout.                                    *)
LEMMA RegisterInv ==
  ASSUME AccountsInv, NEW r \in Request, NEW e \in Email, NEW p \in Password,
         Register(r, e, p)
  PROVE  AccountsInv'
<1>1. CASE users[e] # None
  BY <1>1, RefuseKeepsInv DEF Register
<1>2. CASE users[e] = None
  <2> DEFINE c == [Blank EXCEPT !.user = e, !.password = p]
  <2>1. Goto(r, "create", c) /\ UNCHANGED tables /\ at[r] = "idle"
    BY <1>2 DEF Register
  <2>2. /\ c \in Locals /\ c.user = e /\ c.password = p /\ c.profile = None
        /\ "create" \in Phase
    BY DEF Blank, Locals, Phase
  <2> HIDE DEF c
  <2>3. RequestInv(r)'
    BY <2>1, <2>2, GotoMoves DEF AccountsInv, RequestInv
  <2> QED
    BY <2>1, <2>2, <2>3, ReadKeepsInv
<1> QED
  BY <1>1, <1>2

(* A row is created only where there is none, so it replaces nobody's.     *)
LEMMA CreateUserInv ==
  ASSUME AccountsInv, NEW r \in Request, CreateUser(r)
  PROVE  AccountsInv'
<1> DEFINE c == call[r]
           u == [hash |-> c.password, hashedRt |-> None]
<1>1. at[r] = "create" /\ c.user \in Email /\ c.password \in Password /\ c \in Locals
  BY DEF CreateUser, AccountsInv, RequestInv, TypeOK
<1>2. CASE users[c.user] # None
  BY <1>1, <1>2, RefuseKeepsInv DEF CreateUser
<1>3. CASE users[c.user] = None
  <2>1. /\ users' = [users EXCEPT ![c.user] = u]
        /\ IssueTokens(r, c, TRUE)
        /\ accounts' = accounts /\ resets' = resets
    BY <1>3 DEF CreateUser
  <2>2. PICK d \in Locals :
            /\ Goto(r, "store", d)
            /\ d.user = c.user /\ d.profile = c.profile
            /\ d.token \in Token /\ d.token.user = c.user
    BY <1>1, <2>1, IssueTokensGoto DEF AccountsInv
  <2>3. /\ Moves(r) /\ at'[r] = "store" /\ call'[r] = d
        /\ at' \in [Request -> Phase] /\ call' \in [Request -> Locals]
        /\ mailed' = mailed /\ now' = now
        /\ rtWriters' \in Seq(Request)
    BY <2>2, GotoMoves DEF AccountsInv, Phase
  <2>4. u \in User /\ u # None /\ u.hash # None /\ u.hashedRt = None
    BY <1>1, AccountsAssumption DEF User
  <2> HIDE DEF u
  <2>5. /\ users' \in [Email -> User \union {None}]
        /\ \A e \in Email : users'[e] = IF e = c.user THEN u ELSE users[e]
    BY <1>1, <2>1, <2>4 DEF AccountsInv, TypeOK
  <2>6. TypeOK'
    BY <2>1, <2>3, <2>5 DEF AccountsInv, TypeOK
  <2>7. TablesInv'
    BY <2>1, <2>3, <2>4, <2>5, AccountsAssumption
    DEF AccountsInv, TypeOK, TablesInv, HasAccount, Reset
  <2>8. Keeps
    BY <2>1, <2>4, <2>5 DEF Keeps
  <2>9. RequestInv(r)'
    BY <1>1, <2>1, <2>2, <2>3, <2>4, <2>5 DEF AccountsInv, RequestInv, KnownUser
  <2>10. StoredTokenIsHeld'
    BY <1>1, <1>3, <2>3, <2>4, <2>5, SessionsKept
  <2> QED
    BY <2>3, <2>6, <2>7, <2>8, <2>9, <2>10, StepKeepsInv
<1> QED
  BY <1>2, <1>3

LEMMA LoginInv ==
  ASSUME AccountsInv, NEW r \in Request, NEW e \in Email, NEW p \in Password,
         Login(r, e, p)
  PROVE  AccountsInv'
<1>1. CASE users[e] = None
  BY <1>1, RefuseKeepsInv DEF Login
<1>2. CASE users[e] # None
  <2> DEFINE c == [Blank EXCEPT !.user = e, !.password = p, !.hash = users[e].hash]
  <2>1. Goto(r, "verify", c) /\ UNCHANGED tables /\ at[r] = "idle"
    BY <1>2 DEF Login
  <2>2. users[e].hash \in Password \union {None}
    BY <1>2 DEF AccountsInv, TypeOK, User
  <2>3. /\ c \in Locals /\ c.user = e /\ c.hash = users[e].hash /\ c.profile = None
        /\ "verify" \in Phase
    BY <2>2 DEF Blank, Locals, Phase
  <2> HIDE DEF c
  <2>4. at'[r] = "verify" /\ call'[r] = c
    BY <2>1, <2>3, GotoMoves DEF AccountsInv
  <2>5. HasAccount(e)' <=> HasAccount(e)
    BY <2>1 DEF tables, HasAccount
  <2>6. RequestInv(r)'
    BY <1>2, <2>1, <2>3, <2>4, <2>5
    DEF AccountsInv, TablesInv, RequestInv, KnownUser, HasAccount, tables
  <2> QED
    BY <2>1, <2>3, <2>6, ReadKeepsInv
<1> QED
  BY <1>1, <1>2

LEMMA VerifyInv ==
  ASSUME AccountsInv, NEW r \in Request, Verify(r)
  PROVE  AccountsInv'
<1>1. /\ call[r] \in Locals /\ call[r].user \in Email /\ users[call[r].user] # None
      /\ at[r] = "verify"
  BY DEF Verify, AccountsInv, RequestInv, KnownUser, TypeOK
<1>2. CASE Refuse(r)
  BY <1>1, <1>2, RefuseKeepsInv
<1>3. CASE IssueTokens(r, call[r], TRUE) /\ UNCHANGED tables
  <2>1. call[r].profile # None => accounts[call[r].profile] = call[r].user
    BY <1>1 DEF AccountsInv, RequestInv
  <2> QED
    BY <1>1, <1>3, <2>1, IssueReadKeepsInv
<1> QED
  BY <1>2, <1>3 DEF Verify

LEMMA RefreshInv ==
  ASSUME AccountsInv, NEW r \in Request, NEW t \in Token, Refresh(r, t)
  PROVE  AccountsInv'
<1>1. at[r] = "idle"
  BY DEF Refresh
<1>2. CASE Refuse(r)
  BY <1>1, <1>2, RefuseKeepsInv
<1>3. CASE IssueTokens(r, [Blank EXCEPT !.user = t.user], TRUE) /\ UNCHANGED tables
  <2> DEFINE c == [Blank EXCEPT !.user = t.user]
  <2>1. t.user \in Email /\ users[t.user] # None
    BY DEF Refresh, AccountsInv, RequestInv, KnownUser
  <2>2. c \in Locals /\ c.user = t.user /\ c.profile = None
    BY <2>1 DEF Blank, Locals
  <2>3. IssueTokens(r, c, TRUE)
    BY <1>3
  <2> HIDE DEF c
  <2> QED
    BY <1>1, <1>3, <2>1, <2>2, <2>3, IssueReadKeepsInv
<1> QED
  BY <1>2, <1>3 DEF Refresh

(* Whoever writes the column remembers what it has written.                *)
LEMMA WriteRtInv ==
  ASSUME AccountsInv, NEW r \in Request, NEW e \in Email, NEW t \in Token \union {None},
         users[e] # None, SetRt(e, t), UNCHANGED <<accounts, resets>>,
         NEW n \in Phase, NEW c \in Locals, Goto(r, n, c), c.user = e,
         \/ n = "answer" /\ c.token = t
         \/ n = "logged_out" /\ t = None,
         at[r] \notin {"answer", "answered", "torn", "logged_out"},
         RequestInv(r)'
  PROVE  AccountsInv'
<1>1. /\ Moves(r) /\ at'[r] = n /\ call'[r] = c
      /\ at' \in [Request -> Phase] /\ call' \in [Request -> Locals]
      /\ mailed' = mailed /\ now' = now
      /\ rtWriters' \in Seq(Request)
  BY GotoMoves DEF AccountsInv
<1>2. /\ users' \in [Email -> User \union {None}]
      /\ users'[e] \in User /\ users'[e].hash = users[e].hash /\ users'[e].hashedRt = t
      /\ \A f \in Email : f # e => users'[f] = users[f]
  BY DEF AccountsInv, TypeOK, SetRt, User
<1>3. \A f \in Email : users'[f] # None <=> users[f] # None
  BY <1>2, AccountsAssumption DEF User
<1>4. TypeOK'
  BY <1>1, <1>2 DEF AccountsInv, TypeOK
<1>5. TablesInv'
  <2>1. \A f \in Email : HasAccount(f)' <=> HasAccount(f)
    BY DEF HasAccount
  <2>2. \A f \in Email : users'[f] # None => users'[f].hash = users[f].hash
    BY <1>2
  <2>3. /\ \A p \in Profile : accounts[p] # None => accounts[p] \in Email
        /\ \A k \in ResetToken : resets[k] # None => resets[k].user \in Email
    BY DEF AccountsInv, TypeOK, Reset
  <2> QED
    BY <1>1, <1>3, <2>1, <2>2, <2>3 DEF AccountsInv, TablesInv
<1>6. Keeps
  BY <1>3 DEF Keeps
<1>7. StoredTokenIsHeld'
  <2>1. \A q \in Request, f \in Email :
            HasWrittenRt(q, f) => q # r /\ HasWrittenRt(q, f)' /\ call'[q] = call[q]
    BY <1>1 DEF HasWrittenRt, Moves
  <2>2. HasWrittenRt(r, e)'
    BY <1>1 DEF HasWrittenRt
  <2>3. ASSUME NEW f \in Email, users'[f] # None, users'[f].hashedRt # None
        PROVE  \E q \in Request : HasWrittenRt(q, f)' /\ call'[q].token = users'[f].hashedRt
    <3>1. CASE f = e
      BY <1>1, <1>2, <2>2, <2>3, <3>1
    <3>2. CASE f # e
      <4>1. users'[f] = users[f]
        BY <1>2, <3>2
      <4>2. PICK q \in Request : HasWrittenRt(q, f) /\ call[q].token = users[f].hashedRt
        BY <2>3, <4>1 DEF AccountsInv, StoredTokenIsHeld
      <4> QED
        BY <2>1, <4>1, <4>2
    <3> QED
      BY <3>1, <3>2
  <2> QED
    BY <2>3 DEF StoredTokenIsHeld
<1> QED
  BY <1>1, <1>4, <1>5, <1>6, <1>7, StepKeepsInv

LEMMA UpdateRtHashInv ==
  ASSUME AccountsInv, NEW r \in Request, UpdateRtHash(r)
  PROVE  AccountsInv'
<1> DEFINE c == call[r]
<1>1. /\ at[r] = "store" /\ c \in Locals /\ c.user \in Email /\ users[c.user] # None
      /\ c.token \in Token /\ c.token.user = c.user
      /\ c.profile # None => accounts[c.profile] = c.user
      /\ Goto(r, "answer", c) /\ SetRt(c.user, c.token) /\ UNCHANGED <<accounts, resets>>
  BY DEF UpdateRtHash, AccountsInv, RequestInv, KnownUser, TypeOK
<1>2. "answer" \in Phase
  BY DEF Phase
<1>3. at'[r] = "answer" /\ call'[r] = c
  BY <1>1, <1>2, GotoMoves DEF AccountsInv
<1>4. users'[c.user] \in User
  BY <1>1 DEF AccountsInv, TypeOK, SetRt, User
<1>5. users'[c.user] # None
  BY <1>4, AccountsAssumption DEF User
<1>6. RequestInv(r)'
  BY <1>1, <1>3, <1>5 DEF RequestInv, KnownUser
<1> QED
  BY <1>1, <1>2, <1>6, WriteRtInv

LEMMA SetCookiesInv ==
  ASSUME AccountsInv, NEW r \in Request, SetCookies(r)
  PROVE  AccountsInv'
<1>1. /\ at[r] = "answer" /\ Goto(r, "answered", call[r]) /\ UNCHANGED tables
      /\ call[r] \in Locals /\ "answered" \in Phase
  BY DEF SetCookies, AccountsInv, TypeOK, Phase, Over
<1>2. at'[r] = "answered" /\ call'[r] = call[r]
  BY <1>1, GotoMoves DEF AccountsInv
<1>3. RequestInv(r)'
  BY <1>1, <1>2 DEF AccountsInv, RequestInv, KnownUser, tables
<1> QED
  BY <1>1, <1>3, ReadKeepsInv

LEMMA LogoutInv ==
  ASSUME AccountsInv, NEW r \in Request, NEW e \in Email, Logout(r, e)
  PROVE  AccountsInv'
<1> DEFINE c == [Blank EXCEPT !.user = e]
<1>1. at[r] = "idle" /\ SetRt(e, None) /\ Goto(r, "logged_out", c)
      /\ UNCHANGED <<accounts, resets>>
  BY DEF Logout
<1>2. users[e] # None
  BY DEF Logout
<1>3. c \in Locals /\ c.user = e /\ "logged_out" \in Phase
  BY DEF Blank, Locals, Phase, Over
<1> HIDE DEF c
<1>4. at'[r] = "logged_out" /\ call'[r] = c
  BY <1>1, <1>3, GotoMoves DEF AccountsInv
<1>5. users'[e] \in User
  BY <1>1, <1>2, AccountsAssumption DEF AccountsInv, TypeOK, SetRt, User
<1>6. users'[e] # None
  BY <1>5, AccountsAssumption DEF User
<1>7. RequestInv(r)'
  BY <1>3, <1>4, <1>6 DEF RequestInv, KnownUser
<1> QED
  BY <1>1, <1>2, <1>3, <1>7, WriteRtInv

-----------------------------------------------------------------------------
(* The three ways of a callback.                                           *)
LEMMA CallbackInv ==
  ASSUME AccountsInv, NEW r \in Request, NEW p \in Profile, NEW e \in Email,
         Callback(r, p, e)
  PROVE  AccountsInv'
<1> DEFINE c == [Blank EXCEPT !.profile = p, !.user = e]
<1>1. at[r] = "idle" /\ UNCHANGED tables
  BY DEF Callback
<1>2. c \in Locals /\ c.user = e /\ c.profile = p
  BY DEF Blank, Locals
<1>3. CASE accounts[p] # None
  <2> DEFINE d == [c EXCEPT !.user = accounts[p]]
  <2>1. IssueTokens(r, d, FALSE)
    BY <1>3 DEF Callback
  <2>2. accounts[p] \in Email /\ users[accounts[p]] # None
    BY <1>3 DEF AccountsInv, TypeOK, TablesInv
  <2>3. d \in Locals /\ d.user = accounts[p] /\ d.profile = p
    BY <1>2, <2>2 DEF Locals
  <2> HIDE DEF d
  <2> QED
    BY <1>1, <2>1, <2>2, <2>3, IssueReadKeepsInv
<1>4. CASE accounts[p] = None
  <2>1. Goto(r, "find", c) /\ "find" \in Phase
    BY <1>4 DEF Callback, Phase
  <2> HIDE DEF c
  <2>2. at'[r] = "find" /\ call'[r] = c
    BY <1>2, <2>1, GotoMoves DEF AccountsInv
  <2>3. RequestInv(r)'
    BY <1>2, <2>2 DEF RequestInv
  <2> QED
    BY <1>1, <1>2, <2>1, <2>3, ReadKeepsInv
<1> QED
  BY <1>3, <1>4

LEMMA FindByEmailInv ==
  ASSUME AccountsInv, NEW r \in Request, FindByEmail(r)
  PROVE  AccountsInv'
<1> DEFINE n == IF users[call[r].user] # None THEN "link" ELSE "create_oauth"
<1>1. /\ at[r] = "find" /\ Goto(r, n, call[r]) /\ UNCHANGED tables
      /\ call[r] \in Locals /\ call[r].user \in Email /\ call[r].profile \in Profile
  BY DEF FindByEmail, AccountsInv, TypeOK, RequestInv
<1>2. n \in Phase /\ n \notin {"answer", "answered"}
  BY DEF Phase
<1>3. at'[r] = n /\ call'[r] = call[r]
  BY <1>1, <1>2, GotoMoves DEF AccountsInv
<1>4. RequestInv(r)'
  BY <1>1, <1>3 DEF RequestInv, KnownUser, tables
<1> HIDE DEF n
<1> QED
  BY <1>1, <1>2, <1>4, ReadKeepsInv

LEMMA LinkOauthUserInv ==
  ASSUME AccountsInv, NEW r \in Request, LinkOauthUser(r)
  PROVE  AccountsInv'
<1> DEFINE c == call[r]
<1>1. /\ at[r] = "link" /\ c \in Locals /\ c.user \in Email /\ users[c.user] # None
      /\ c.profile \in Profile
  BY DEF LinkOauthUser, AccountsInv, RequestInv, KnownUser, TypeOK
<1>2. CASE accounts[c.profile] # None
  BY <1>1, <1>2, RefuseKeepsInv DEF LinkOauthUser
<1>3. CASE accounts[c.profile] = None
  <2>1. /\ accounts' = [accounts EXCEPT ![c.profile] = c.user]
        /\ IssueTokens(r, c, FALSE)
        /\ users' = users /\ resets' = resets
    BY <1>3 DEF LinkOauthUser
  <2>2. PICK d \in Locals :
            /\ Goto(r, "store", d)
            /\ d.user = c.user /\ d.profile = c.profile
            /\ d.token \in Token /\ d.token.user = c.user
    BY <1>1, <2>1, IssueTokensGoto DEF AccountsInv
  <2>3. /\ Moves(r) /\ at'[r] = "store" /\ call'[r] = d
        /\ at' \in [Request -> Phase] /\ call' \in [Request -> Locals]
        /\ mailed' = mailed /\ now' = now
        /\ rtWriters' \in Seq(Request)
    BY <2>2, GotoMoves DEF AccountsInv, Phase
  <2>4. accounts' \in [Profile -> Email \union {None}]
        /\ \A p \in Profile : accounts'[p] = IF p = c.profile THEN c.user ELSE accounts[p]
    BY <1>1, <2>1 DEF AccountsInv, TypeOK
  <2>5. TypeOK'
    BY <2>1, <2>3, <2>4 DEF AccountsInv, TypeOK
  <2>6. \A e \in Email : HasAccount(e) => HasAccount(e)'
    BY <1>1, <1>3, <2>4, AccountsAssumption DEF HasAccount
  <2>7. TablesInv'
    BY <1>1, <2>1, <2>3, <2>4, <2>6 DEF AccountsInv, TablesInv
  <2>8. Keeps
    BY <1>3, <2>1, <2>4 DEF Keeps
  <2>9. RequestInv(r)'
    BY <1>1, <2>1, <2>2, <2>3, <2>4 DEF RequestInv, KnownUser
  <2>10. StoredTokenIsHeld'
    BY <1>1, <2>1, <2>3, SessionsKept
  <2> QED
    BY <2>3, <2>5, <2>7, <2>8, <2>9, <2>10, StepKeepsInv
<1> QED
  BY <1>2, <1>3

(* The user and its account are there at once: no login can find the user  *)
(* with neither a hash nor an account.                                     *)
LEMMA CreateOauthUserInv ==
  ASSUME AccountsInv, NEW r \in Request, CreateOauthUser(r)
  PROVE  AccountsInv'
<1> DEFINE c == call[r]
           u == [hash |-> None, hashedRt |-> None]
<1>1. /\ at[r] = "create_oauth" /\ c \in Locals /\ c.user \in Email /\ c.profile \in Profile
  BY DEF CreateOauthUser, AccountsInv, RequestInv, TypeOK
<1>2. CASE users[c.user] # None \/ accounts[c.profile] # None
  BY <1>1, <1>2, RefuseKeepsInv DEF CreateOauthUser
<1>3. CASE users[c.user] = None /\ accounts[c.profile] = None
  <2>1. /\ users' = [users EXCEPT ![c.user] = u]
        /\ accounts' = [accounts EXCEPT ![c.profile] = c.user]
        /\ IssueTokens(r, c, FALSE)
        /\ resets' = resets
    BY <1>3 DEF CreateOauthUser
  <2>2. PICK d \in Locals :
            /\ Goto(r, "store", d)
            /\ d.user = c.user /\ d.profile = c.profile
            /\ d.token \in Token /\ d.token.user = c.user
    BY <1>1, <2>1, IssueTokensGoto DEF AccountsInv
  <2>3. /\ Moves(r) /\ at'[r] = "store" /\ call'[r] = d
        /\ at' \in [Request -> Phase] /\ call' \in [Request -> Locals]
        /\ mailed' = mailed /\ now' = now
        /\ rtWriters' \in Seq(Request)
    BY <2>2, GotoMoves DEF AccountsInv, Phase
  <2>4. u \in User /\ u # None /\ u.hashedRt = None
    BY AccountsAssumption DEF User
  <2> HIDE DEF u
  <2>5. /\ users' \in [Email -> User \union {None}]
        /\ \A e \in Email : users'[e] = IF e = c.user THEN u ELSE users[e]
    BY <1>1, <2>1, <2>4 DEF AccountsInv, TypeOK
  <2>6. /\ accounts' \in [Profile -> Email \union {None}]
        /\ \A p \in Profile : accounts'[p] = IF p = c.profile THEN c.user ELSE accounts[p]
    BY <1>1, <2>1 DEF AccountsInv, TypeOK
  <2>7. TypeOK'
    BY <2>1, <2>3, <2>5, <2>6 DEF AccountsInv, TypeOK
  <2>8. \A e \in Email : HasAccount(e) => HasAccount(e)'
    BY <1>1, <1>3, <2>6, AccountsAssumption DEF HasAccount
  <2>9. \A e \in Email : e = c.user => HasAccount(e)'
    BY <1>1, <2>6 DEF HasAccount
  <2>10. TablesInv'
    <3>1. \A e \in Email : users'[e] # None /\ users'[e].hash = None => HasAccount(e)'
      BY <2>5, <2>8, <2>9 DEF AccountsInv, TablesInv
    <3>2. \A p \in Profile : accounts'[p] # None => users'[accounts'[p]] # None
      <4>1. ASSUME NEW p \in Profile, accounts'[p] # None
            PROVE  accounts'[p] = c.user \/ (accounts[p] \in Email /\ accounts'[p] = accounts[p])
        BY <2>6, <4>1 DEF AccountsInv, TypeOK
      <4>2. \A e \in Email : e = c.user \/ users[e] # None => users'[e] # None
        BY <2>4, <2>5
      <4> QED
        BY <1>1, <4>1, <4>2 DEF AccountsInv, TablesInv
    <3>3. /\ \A k \in ResetToken : resets'[k] # None => users'[resets'[k].user] # None
          /\ \A k \in mailed' : resets'[k] # None
      BY <2>1, <2>3, <2>4, <2>5 DEF AccountsInv, TypeOK, TablesInv, Reset
    <3> QED
      BY <3>1, <3>2, <3>3 DEF TablesInv
  <2>11. Keeps
    BY <1>3, <2>1, <2>4, <2>5, <2>6 DEF Keeps
  <2>12. RequestInv(r)'
    BY <1>1, <2>1, <2>2, <2>3, <2>4, <2>5, <2>6 DEF RequestInv, KnownUser
  <2>13. StoredTokenIsHeld'
    BY <1>1, <1>3, <2>3, <2>4, <2>5, SessionsKept
  <2> QED
    BY <2>3, <2>7, <2>10, <2>11, <2>12, <2>13, StepKeepsInv
<1> QED
  BY <1>2, <1>3

-----------------------------------------------------------------------------
(* Changed and reset passwords.                                            *)
LEMMA ChangePasswordInv ==
  ASSUME AccountsInv, NEW r \in Request, NEW e \in Email, NEW old \in Password,
         ChangePassword(r, e, old)
  PROVE  AccountsInv'
<1> DEFINE c == [Blank EXCEPT !.user = e, !.password = old, !.hash = users[e].hash]
<1>1. at[r] = "idle" /\ users[e] # None /\ Goto(r, "check", c) /\ UNCHANGED tables
  BY DEF ChangePassword
<1>2. users[e].hash \in Password \union {None}
  BY <1>1 DEF AccountsInv, TypeOK, User
<1>3. c \in Locals /\ c.user = e /\ "check" \in Phase
  BY <1>2 DEF Blank, Locals, Phase
<1> HIDE DEF c
<1>4. at'[r] = "check" /\ call'[r] = c
  BY <1>1, <1>3, GotoMoves DEF AccountsInv
<1>5. RequestInv(r)'
  BY <1>1, <1>3, <1>4 DEF RequestInv, KnownUser, tables
<1> QED
  BY <1>1, <1>3, <1>5, ReadKeepsInv

LEMMA CheckOldPasswordInv ==
  ASSUME AccountsInv, NEW r \in Request, CheckOldPassword(r)
  PROVE  AccountsInv'
<1> DEFINE c == [Blank EXCEPT !.user = call[r].user]
<1>1. at[r] = "check" /\ call[r].user \in Email /\ users[call[r].user] # None
  BY DEF CheckOldPassword, AccountsInv, RequestInv, KnownUser
<1>2. CASE Refuse(r)
  BY <1>1, <1>2, RefuseKeepsInv
<1>3. CASE Goto(r, "change", c) /\ UNCHANGED tables
  <2>1. c \in Locals /\ c.user = call[r].user /\ "change" \in Phase
    BY <1>1 DEF Blank, Locals, Phase
  <2> HIDE DEF c
  <2>2. at'[r] = "change" /\ call'[r] = c
    BY <1>3, <2>1, GotoMoves DEF AccountsInv
  <2>3. RequestInv(r)'
    BY <1>1, <1>3, <2>1, <2>2 DEF RequestInv, KnownUser, tables
  <2> QED
    BY <1>1, <1>3, <2>1, <2>3, ReadKeepsInv
<1> QED
  BY <1>2, <1>3 DEF CheckOldPassword

(* A password is only ever replaced by another one.                        *)
LEMMA SetPasswordInv ==
  ASSUME AccountsInv, NEW r \in Request, NEW e \in Email, NEW p \in Password,
         users[e] # None, SetPassword(e, p), UNCHANGED <<accounts, resets>>,
         NEW n \in Phase, NEW c \in Locals, Goto(r, n, c),
         at[r] \notin {"answer", "answered", "torn", "logged_out"},
         n \notin {"answer", "answered"},
         RequestInv(r)'
  PROVE  AccountsInv'
<1>1. /\ Moves(r) /\ at'[r] = n
      /\ at' \in [Request -> Phase] /\ call' \in [Request -> Locals]
      /\ mailed' = mailed /\ now' = now
      /\ rtWriters' \in Seq(Request)
  BY GotoMoves DEF AccountsInv
<1>2. /\ users' \in [Email -> User \union {None}]
      /\ users'[e] \in User /\ users'[e].hash = p /\ users'[e].hashedRt = users[e].hashedRt
      /\ \A f \in Email : f # e => users'[f] = users[f]
  BY DEF AccountsInv, TypeOK, SetPassword, User
<1>3. \A f \in Email : users'[f] # None <=> users[f] # None
  BY <1>2, AccountsAssumption DEF User
<1>4. TypeOK'
  BY <1>1, <1>2 DEF AccountsInv, TypeOK
<1>5. TablesInv'
  <2>1. \A f \in Email : HasAccount(f)' <=> HasAccount(f)
    BY DEF HasAccount
  <2>2. \A f \in Email : users'[f] # None /\ users'[f].hash = None =>
            users[f] # None /\ users[f].hash = None
    BY <1>2, <1>3, AccountsAssumption
  <2>3. /\ \A q \in Profile : accounts[q] # None => accounts[q] \in Email
        /\ \A k \in ResetToken : resets[k] # None => resets[k].user \in Email
    BY DEF AccountsInv, TypeOK, Reset
  <2> QED
    BY <1>1, <1>3, <2>1, <2>2, <2>3 DEF AccountsInv, TablesInv
<1>6. Keeps
  BY <1>3 DEF Keeps
<1>7. \A f \in Email : IF users[f] # None
                       THEN users'[f] # None /\ users'[f].hashedRt = users[f].hashedRt
                       ELSE users'[f] # None => users'[f].hashedRt = None
  BY <1>2, <1>3
<1>8. StoredTokenIsHeld'
  BY <1>1, <1>7, SessionsKept
<1> QED
  BY <1>1, <1>4, <1>5, <1>6, <1>8, StepKeepsInv

LEMMA ChangePassInv ==
  ASSUME AccountsInv, NEW r \in Request, NEW p \in Password, ChangePass(r, p)
  PROVE  AccountsInv'
<1>1. /\ at[r] = "change" /\ call[r].user \in Email /\ users[call[r].user] # None
      /\ SetPassword(call[r].user, p) /\ Goto(r, "changed", Blank)
      /\ UNCHANGED <<accounts, resets>>
  BY DEF ChangePass, AccountsInv, RequestInv, KnownUser
<1>2. Blank \in Locals /\ "changed" \in Phase
  BY DEF Blank, Locals, Phase, Over
<1>3. RequestInv(r)'
  BY <1>1, <1>2, GotoMoves DEF AccountsInv, RequestInv
<1> QED
  BY <1>1, <1>2, <1>3, SetPasswordInv

LEMMA ForgotPasswordInv ==
  ASSUME AccountsInv, NEW r \in Request, NEW e \in Email, ForgotPassword(r, e)
  PROVE  AccountsInv'
<1> DEFINE n == IF users[e] = None THEN "mail_sent" ELSE "create_token"
           c == IF users[e] = None THEN Blank ELSE [Blank EXCEPT !.user = e]
<1>1. at[r] = "idle" /\ Goto(r, n, c) /\ UNCHANGED tables
  BY DEF ForgotPassword
<1>2. /\ c \in Locals /\ n \in Phase /\ n \notin {"answer", "answered"}
      /\ n = "create_token" => c.user = e /\ users[e] # None
      /\ n \in {"mail_sent", "create_token"}
  BY DEF Blank, Locals, Phase, Over
<1> HIDE DEF n, c
<1>3. at'[r] = n /\ call'[r] = c
  BY <1>1, <1>2, GotoMoves DEF AccountsInv
<1>4. RequestInv(r)'
  BY <1>1, <1>2, <1>3 DEF RequestInv, KnownUser, tables
<1> QED
  BY <1>1, <1>2, <1>4, ReadKeepsInv

(* A row of passwordResetToken is created, or changes what it says of its  *)
(* use.                                                                    *)
LEMMA ResetRowInv ==
  ASSUME AccountsInv, NEW r \in Request, NEW k \in ResetToken, NEW w \in Reset,
         resets' = [resets EXCEPT ![k] = w], UNCHANGED <<users, accounts>>,
         users[w.user] # None,
         resets[k] # None => w.user = resets[k].user /\ (resets[k].used => w.used),
         NEW n \in Phase, NEW c \in Locals, Goto(r, n, c),
         at[r] \notin {"answer", "answered", "torn", "logged_out"},
         n \notin {"answer", "answered"},
         RequestInv(r)'
  PROVE  AccountsInv'
<1>1. /\ Moves(r) /\ at'[r] = n
      /\ at' \in [Request -> Phase] /\ call' \in [Request -> Locals]
      /\ mailed' = mailed /\ now' = now
      /\ rtWriters' \in Seq(Request)
  BY GotoMoves DEF AccountsInv
<1>2. /\ resets' \in [ResetToken -> Reset \union {None}]
      /\ \A j \in ResetToken : resets'[j] = IF j = k THEN w ELSE resets[j]
      /\ w # None
  BY AccountsAssumption DEF AccountsInv, TypeOK, Reset
<1>3. TypeOK'
  BY <1>1, <1>2 DEF AccountsInv, TypeOK
<1>4. TablesInv'
  BY <1>1, <1>2 DEF AccountsInv, TypeOK, TablesInv, HasAccount
<1>5. Keeps
  BY <1>2 DEF Keeps
<1>6. StoredTokenIsHeld'
  <2>1. users' = users
    OBVIOUS
  <2>2. \A e \in Email : IF users[e] # None
                         THEN users'[e] # None /\ users'[e].hashedRt = users[e].hashedRt
                         ELSE users'[e] # None => users'[e].hashedRt = None
    BY <2>1
  <2> QED
    BY <1>1, <2>2, SessionsKept
<1> QED
  BY <1>1, <1>3, <1>4, <1>5, <1>6, StepKeepsInv

LEMMA CreateResetTokenInv ==
  ASSUME AccountsInv, NEW r \in Request, NEW k \in ResetToken, CreateResetToken(r, k)
  PROVE  AccountsInv'
<1> DEFINE w == [user |-> call[r].user, used |-> FALSE, expired |-> FALSE]
           c == [Blank EXCEPT !.key = k]
<1>1. /\ at[r] = "create_token" /\ call[r].user \in Email /\ users[call[r].user] # None
      /\ resets[k] = None /\ resets' = [resets EXCEPT ![k] = w]
      /\ Goto(r, "mail", c) /\ UNCHANGED <<users, accounts>>
  BY DEF CreateResetToken, AccountsInv, RequestInv, KnownUser
<1>2. w \in Reset /\ w.user = call[r].user
  BY <1>1 DEF Reset
<1>3. c \in Locals /\ c.key = k /\ "mail" \in Phase
  BY DEF Blank, Locals, Phase
<1> HIDE DEF w, c
<1>4. at'[r] = "mail" /\ call'[r] = c
  BY <1>1, <1>3, GotoMoves DEF AccountsInv
<1>5. resets'[k] # None
  BY <1>1, <1>2, AccountsAssumption DEF AccountsInv, TypeOK, Reset
<1>6. RequestInv(r)'
  BY <1>3, <1>4, <1>5 DEF RequestInv
<1> QED
  BY <1>1, <1>2, <1>3, <1>6, ResetRowInv

LEMMA SendMailInv ==
  ASSUME AccountsInv, NEW r \in Request, SendMail(r)
  PROVE  AccountsInv'
<1>1. /\ at[r] = "mail" /\ call[r].key \in ResetToken /\ resets[call[r].key] # None
      /\ Blank \in Locals /\ "mail_sent" \in Phase
  BY DEF SendMail, AccountsInv, RequestInv, Blank, Locals, Phase, Over
<1>2. /\ at' \in [Request -> Phase] /\ call' \in [Request -> Locals]
      /\ at'[r] = "mail_sent" /\ call'[r] = Blank /\ Moves(r)
  BY <1>1 DEF SendMail, AccountsInv, TypeOK, Moves
<1>3. mailed' = mailed \union {call[r].key}
      /\ UNCHANGED <<users, accounts, resets, now, rtWriters>>
  BY DEF SendMail, tables
<1>4. TypeOK'
  BY <1>1, <1>2, <1>3 DEF AccountsInv, TypeOK
<1>5. TablesInv' /\ Keeps
  BY <1>1, <1>3 DEF AccountsInv, TablesInv, Keeps, HasAccount
<1>6. RequestInv(r)'
  BY <1>2 DEF RequestInv
<1>7. StoredTokenIsHeld'
  <2>1. users' = users
    BY <1>3
  <2>2. \A e \in Email : IF users[e] # None
                         THEN users'[e] # None /\ users'[e].hashedRt = users[e].hashedRt
                         ELSE users'[e] # None => users'[e].hashedRt = None
    BY <2>1
  <2> QED
    BY <1>1, <1>2, <2>2, SessionsKept
<1> QED
  BY <1>2, <1>4, <1>5, <1>6, <1>7, StepKeepsInv

LEMMA ResetPasswordInv ==
  ASSUME AccountsInv, NEW r \in Request, NEW k \in ResetToken, NEW p \in Password,
         ResetPassword(r, k, p)
  PROVE  AccountsInv'
<1> DEFINE c == [Blank EXCEPT !.user = resets[k].user, !.password = p, !.key = k]
<1>1. at[r] = "idle"
  BY DEF ResetPassword
<1>2. CASE Refuse(r)
  BY <1>1, <1>2, RefuseKeepsInv
<1>3. CASE Goto(r, "reset", c) /\ UNCHANGED tables /\ resets[k] # None
  <2>1. resets[k].user \in Email /\ users[resets[k].user] # None
    BY <1>3 DEF AccountsInv, TypeOK, TablesInv, Reset
  <2>2. /\ c \in Locals /\ c.user = resets[k].user /\ c.password = p /\ c.key = k
        /\ "reset" \in Phase
    BY <2>1 DEF Blank, Locals, Phase
  <2> HIDE DEF c
  <2>3. at'[r] = "reset" /\ call'[r] = c
    BY <1>3, <2>2, GotoMoves DEF AccountsInv
  <2>4. RequestInv(r)'
    BY <1>1, <1>3, <2>1, <2>2, <2>3 DEF RequestInv, KnownUser, tables
  <2> QED
    BY <1>1, <1>3, <2>2, <2>4, ReadKeepsInv
<1> QED
  BY <1>2, <1>3 DEF ResetPassword

LEMMA StoreNewPasswordInv ==
  ASSUME AccountsInv, NEW r \in Request, StoreNewPassword(r)
  PROVE  AccountsInv'
<1> DEFINE c == [Blank EXCEPT !.key = call[r].key]
<1>1. /\ at[r] = "reset" /\ call[r].user \in Email /\ users[call[r].user] # None
      /\ call[r].password \in Password
      /\ call[r].key \in ResetToken /\ resets[call[r].key] # None
      /\ SetPassword(call[r].user, call[r].password) /\ Goto(r, "mark", c)
      /\ UNCHANGED <<accounts, resets>>
  BY DEF StoreNewPassword, AccountsInv, RequestInv, KnownUser
<1>2. c \in Locals /\ c.key = call[r].key /\ "mark" \in Phase
  BY <1>1 DEF Blank, Locals, Phase
<1> HIDE DEF c
<1>3. at'[r] = "mark" /\ call'[r] = c
  BY <1>1, <1>2, GotoMoves DEF AccountsInv
<1>4. RequestInv(r)'
  BY <1>1, <1>2, <1>3 DEF RequestInv
<1> QED
  BY <1>1, <1>2, <1>4, SetPasswordInv

LEMMA MarkTokenUsedInv ==
  ASSUME AccountsInv, NEW r \in Request, MarkTokenUsed(r)
  PROVE  AccountsInv'
<1> DEFINE k == call[r].key
           w == [resets[k] EXCEPT !.used = TRUE]
<1>1. /\ at[r] = "mark" /\ k \in ResetToken /\ resets[k] # None /\ call[r] \in Locals
      /\ resets' = [resets EXCEPT ![k] = w]
      /\ Goto(r, "reset_done", call[r]) /\ UNCHANGED <<users, accounts>>
  BY DEF MarkTokenUsed, AccountsInv, RequestInv, TypeOK
<1>2. /\ w \in Reset /\ w.user = resets[k].user /\ w.used
      /\ users[w.user] # None
  BY <1>1 DEF AccountsInv, TypeOK, TablesInv, Reset
<1>3. "reset_done" \in Phase
  BY DEF Phase, Over
<1> HIDE DEF w
<1>4. at'[r] = "reset_done" /\ call'[r] = call[r]
  BY <1>1, <1>3, GotoMoves DEF AccountsInv
<1>5. resets'[k] = w /\ w # None
  BY <1>1, <1>2, AccountsAssumption DEF AccountsInv, TypeOK, Reset
<1>6. RequestInv(r)'
  BY <1>1, <1>2, <1>4, <1>5 DEF RequestInv
<1> QED
  BY <1>1, <1>2, <1>3, <1>6, ResetRowInv

-----------------------------------------------------------------------------
(* A failure, the end of a token's 15 minutes, and time.                   *)
LEMMA FailInv ==
  ASSUME AccountsInv, NEW r \in Request, Fail(r)
  PROVE  AccountsInv'
<1>1. at[r] \notin {"answered", "torn", "logged_out"} /\ UNCHANGED tables
  BY DEF Fail, Over
<1>2. CASE at[r] = "answer"
  <2>1. Goto(r, "torn", call[r]) /\ call[r] \in Locals /\ "torn" \in Phase
    BY <1>2 DEF Fail, AccountsInv, TypeOK, Phase, Over
  <2>2. at'[r] = "torn" /\ call'[r] = call[r]
    BY <2>1, GotoMoves DEF AccountsInv
  <2>3. RequestInv(r)'
    BY <1>1, <1>2, <2>2 DEF AccountsInv, RequestInv, KnownUser, tables
  <2> QED
    BY <1>1, <1>2, <2>1, <2>3, ReadKeepsInv
<1>3. CASE at[r] # "answer"
  <2>1. Refuse(r)
    BY <1>3 DEF Fail, Refuse
  <2> QED
    BY <1>1, <1>3, <2>1, RefuseKeepsInv
<1> QED
  BY <1>2, <1>3

LEMMA ExpireInv ==
  ASSUME AccountsInv, NEW k \in ResetToken, Expire(k)
  PROVE  AccountsInv'
<1> DEFINE w == [resets[k] EXCEPT !.expired = TRUE]
<1>1. /\ resets[k] # None /\ resets' = [resets EXCEPT ![k] = w]
      /\ UNCHANGED <<users, accounts, mailed, at, call, now, rtWriters>>
  BY DEF Expire
<1>2. /\ w \in Reset /\ w.user = resets[k].user /\ w.used = resets[k].used
      /\ resets[k] \in Reset
  BY <1>1 DEF AccountsInv, TypeOK, Reset
<1> HIDE DEF w
<1>3. /\ resets' \in [ResetToken -> Reset \union {None}]
      /\ \A j \in ResetToken : resets'[j] = IF j = k THEN w ELSE resets[j]
      /\ w # None
  BY <1>1, <1>2, AccountsAssumption DEF AccountsInv, TypeOK, Reset
<1>4. TypeOK'
  BY <1>1, <1>3 DEF AccountsInv, TypeOK
<1>5. TablesInv' /\ Keeps
  BY <1>1, <1>2, <1>3 DEF AccountsInv, TablesInv, Keeps, HasAccount
<1>6. \A q \in Request : RequestInv(q)'
  BY <1>1, <1>5, OthersKeepInv DEF AccountsInv
<1>7. StoredTokenIsHeld'
  BY <1>1 DEF AccountsInv, StoredTokenIsHeld, HasWrittenRt
<1> QED
  BY <1>4, <1>5, <1>6, <1>7 DEF AccountsInv

LEMMA TickInv ==
  ASSUME AccountsInv, Tick \/ UNCHANGED vars
  PROVE  AccountsInv'
<1>1. UNCHANGED <<users, accounts, resets, mailed, at, call, rtWriters>> /\ now' \in 0 .. MaxTime
  BY AccountsAssumption DEF AccountsInv, TypeOK, Tick, tables, vars
<1>2. TypeOK'
  BY <1>1 DEF AccountsInv, TypeOK
<1>3. TablesInv' /\ Keeps
  BY <1>1 DEF AccountsInv, TablesInv, Keeps, HasAccount
<1>4. \A q \in Request : RequestInv(q)'
  BY <1>1, <1>3, OthersKeepInv DEF AccountsInv
<1>5. StoredTokenIsHeld'
  BY <1>1 DEF AccountsInv, StoredTokenIsHeld, HasWrittenRt
<1> QED
  BY <1>2, <1>3, <1>4, <1>5 DEF AccountsInv

LEMMA AccountsStepInv == AccountsInv /\ [Next]_vars => AccountsInv'
<1> SUFFICES ASSUME AccountsInv, [Next]_vars
             PROVE  AccountsInv'
  OBVIOUS
<1>1. ASSUME NEW r \in Request, Arrive(r)
      PROVE  AccountsInv'
  BY <1>1, RegisterInv, LoginInv, ChangePasswordInv, RefreshInv, LogoutInv,
     ForgotPasswordInv, CallbackInv, ResetPasswordInv DEF Arrive
<1>2. ASSUME NEW r \in Request, Continue(r)
      PROVE  AccountsInv'
  BY <1>2, CreateUserInv, VerifyInv, UpdateRtHashInv, SetCookiesInv, FindByEmailInv,
     LinkOauthUserInv, CreateOauthUserInv, CheckOldPasswordInv, ChangePassInv,
     CreateResetTokenInv, SendMailInv, StoreNewPasswordInv, MarkTokenUsedInv, FailInv
  DEF Continue
<1> QED
  BY <1>1, <1>2, ExpireInv, TickInv DEF Next

LEMMA AccountsInvariant == Spec => []AccountsInv
<1> QED
  BY AccountsInitInv, AccountsStepInv, PTL DEF Spec

-----------------------------------------------------------------------------
(* Types of the tables and of what the handlers keep.                      *)
THEOREM AccountsTypeCorrect == Spec => []TypeOK
<1>1. AccountsInv => TypeOK
  BY DEF AccountsInv
<1> QED
  BY <1>1, AccountsInvariant, PTL

(* user.hash! is safe in login: no user ever has neither a password nor an *)
(* account, because a callback creates both rows in one write and nothing  *)
(* unlinks an account or clears a password.                                *)
THEOREM LoginsFindHash == Spec => []LoginFindsHash
<1>1. AccountsInv => LoginFindsHash
  BY DEF AccountsInv, RequestInv, LoginFindsHash
<1> QED
  BY <1>1, AccountsInvariant, PTL

(* A callback signs in the owner of its profile, however callbacks and     *)
(* registrations overlap: the unique column decides between two links.     *)
THEOREM CallbacksSignOwner == Spec => []CallbackSignsOwner
<1>1. AccountsInv => CallbackSignsOwner
  BY DEF AccountsInv, RequestInv, CallbackSignsOwner
<1> QED
  BY <1>1, AccountsInvariant, PTL

(* What is stored was given to a client, or was about to be.               *)
THEOREM StoredTokensAreHeld == Spec => []StoredTokenIsHeld
<1>1. AccountsInv => StoredTokenIsHeld
  BY DEF AccountsInv
<1> QED
  BY <1>1, AccountsInvariant, PTL

(* The only step that starts a reset has just read its token's row.        *)
LEMMA ResetsReadUnused ==
  ASSUME AccountsInv, Next, NEW r \in Request, at[r] = "idle", at'[r] = "reset"
  PROVE  call'[r].key \in ResetToken /\ ~ resets[call'[r].key].used
<1>1. ASSUME NEW q \in Request, Continue(q)
      PROVE  FALSE
  <2>1. at[q] # "idle" /\ \A s \in Request \ {q} : at'[s] = at[s]
    BY <1>1 DEF AccountsInv, TypeOK, Continue, CreateUser, Verify, UpdateRtHash, SetCookies,
                FindByEmail, LinkOauthUser, CreateOauthUser, CheckOldPassword, ChangePass,
                CreateResetToken, SendMail, StoreNewPassword, MarkTokenUsed, Fail,
                Refuse, IssueTokens, Goto
  <2> QED
    BY <2>1
<1>2. PICK q \in Request : Arrive(q)
  BY <1>1 DEF Next, Expire, Tick
<1>3. ASSUME NEW s \in Request
      PROVE  s # q => at'[s] = at[s]
  BY <1>2 DEF AccountsInv, TypeOK, Arrive, Register, Login, ChangePassword, Refresh, Logout,
              ForgotPassword, Callback, ResetPassword, Refuse, IssueTokens, Goto
<1>4. q = r
  BY <1>3
<1>5. \E k \in ResetToken, p \in Password : ResetPassword(r, k, p)
  BY <1>2, <1>4 DEF AccountsInv, TypeOK, Arrive, Register, Login, ChangePassword, Refresh,
              Logout, ForgotPassword, Callback, Refuse, IssueTokens, Goto
<1>6. PICK k \in ResetToken, p \in Password : ResetPassword(r, k, p)
  BY <1>5
<1>7. ~ resets[k].used /\ call'[r].key = k
  BY <1>6 DEF AccountsInv, TypeOK, ResetPassword, Refuse, Goto, Blank
<1> QED
  BY <1>7

(* A reset token is refused once a reset with it has been answered.        *)
THEOREM SpentTokensAreRefused == Spec => SpentTokenIsRefused
<1> DEFINE Refused ==
        \A r \in Request :
            at[r] = "idle" /\ at'[r] = "reset" =>
                \A q \in Request : ~ (at[q] = "reset_done" /\ call[q].key = call'[r].key)
<1>1. AccountsInv /\ Next => Refused
  BY ResetsReadUnused DEF AccountsInv, RequestInv
<1>2. AccountsInv /\ [Next]_vars => [Refused]_vars
  BY <1>1
<1> QED
  BY <1>2, AccountsInvariant, PTL DEF Spec, SpentTokenIsRefused

-----------------------------------------------------------------------------
(* Each request that has written a refresh token is in the history, and    *)
(* what it wrote is there still or was replaced by one after it.           *)
HasWritten(r) == at[r] \in {"answer", "answered", "torn", "logged_out"}

WriterInv ==
    /\ \A i \in DOMAIN rtWriters : HasWritten(rtWriters[i])
    /\ \A r \in Request : HasWritten(r) => SessionStands(r)

(* A step writes a refresh token and is noted, or leaves every refresh     *)
(* token and the history as they are.                                      *)
WritesRt(r) ==
    /\ ~ HasWritten(r) /\ HasWritten(r)' /\ Moves(r)
    /\ call'[r].user \in Email /\ users[call'[r].user] # None
    /\ SetRt(call'[r].user, call'[r].token)
    /\ rtWriters' = Append(rtWriters, r)

KeepsRt ==
    /\ rtWriters' = rtWriters
    /\ \A r \in Request :
          /\ HasWritten(r) => call'[r] = call[r]
          /\ HasWritten(r) <=> HasWritten(r)'
    /\ \A e \in Email : users[e] # None => users'[e].hashedRt = users[e].hashedRt

LEMMA GotoKeepsRt ==
  ASSUME AccountsInv, NEW r \in Request, NEW n, NEW c, Goto(r, n, c),
         \/ ~ HasWritten(r) /\ n \notin {"answer", "answered", "torn", "logged_out"}
         \/ at[r] = "answer" /\ n \in {"answered", "torn"} /\ c = call[r],
         \A e \in Email : users[e] # None => users'[e].hashedRt = users[e].hashedRt
  PROVE  KeepsRt
<1>1. /\ at' = [at EXCEPT ![r] = n] /\ call' = [call EXCEPT ![r] = c]
      /\ rtWriters' = rtWriters
  BY DEF Goto
<1>2. \A q \in Request : q # r => at'[q] = at[q] /\ call'[q] = call[q]
  BY <1>1 DEF AccountsInv, TypeOK
<1>3. at'[r] = n /\ call'[r] = c
  BY <1>1 DEF AccountsInv, TypeOK
<1> QED
  BY <1>1, <1>2, <1>3 DEF KeepsRt, HasWritten

(* An arrival stores no refresh token, unless it is a logout.              *)
LEMMA ArriveKeepsRt ==
  ASSUME AccountsInv, NEW r \in Request, Arrive(r), \A e \in Email : ~ Logout(r, e)
  PROVE  KeepsRt
<1>1. at[r] = "idle" /\ UNCHANGED users
  BY DEF Arrive, Register, Login, ChangePassword, Refresh, ForgotPassword, Callback,
         ResetPassword, Refuse, tables
<1>2. \E n \in {"refused", "create", "verify", "store", "check", "find", "mail_sent",
                "create_token", "reset"} : \E c : Goto(r, n, c)
  BY DEF Arrive, Register, Login, ChangePassword, Refresh, ForgotPassword, Callback,
         ResetPassword, Refuse, IssueTokens
<1> QED
  BY <1>1, <1>2, GotoKeepsRt DEF HasWritten

(* The steps that write users leave the refresh tokens there are.          *)
LEMMA UsersKeepRt ==
  ASSUME AccountsInv, NEW r \in Request, Continue(r), ~ UpdateRtHash(r),
         NEW e \in Email, users[e] # None
  PROVE  users'[e].hashedRt = users[e].hashedRt
<1> USE DEF AccountsInv, TypeOK
<1>1. CASE UNCHANGED users
  BY <1>1
<1>2. CASE CreateUser(r) \/ CreateOauthUser(r)
  BY <1>2 DEF CreateUser, CreateOauthUser, Refuse, tables
<1>3. ASSUME NEW d, NEW p, SetPassword(d, p)
      PROVE  users'[e].hashedRt = users[e].hashedRt
  BY <1>3, AccountsAssumption DEF SetPassword, User
<1>4. CASE StoreNewPassword(r)
  BY <1>3, <1>4 DEF StoreNewPassword
<1>5. ASSUME NEW p \in Password, ChangePass(r, p)
      PROVE  users'[e].hashedRt = users[e].hashedRt
  BY <1>3, <1>5 DEF ChangePass
<1>6. \/ UNCHANGED users
      \/ CreateUser(r) \/ CreateOauthUser(r) \/ StoreNewPassword(r)
      \/ \E p \in Password : ChangePass(r, p)
  BY DEF Continue, Verify, SetCookies, FindByEmail, LinkOauthUser, CheckOldPassword,
         CreateResetToken, SendMail, MarkTokenUsed, Fail, Refuse, tables
<1> QED
  BY <1>1, <1>2, <1>4, <1>5, <1>6

LEMMA ContinueKeepsRt ==
  ASSUME AccountsInv, NEW r \in Request, Continue(r), ~ UpdateRtHash(r)
  PROVE  KeepsRt
<1>1. \A e \in Email : users[e] # None => users'[e].hashedRt = users[e].hashedRt
  BY UsersKeepRt
<1>2. CASE SetCookies(r)
  BY <1>1, <1>2, GotoKeepsRt DEF SetCookies
<1>3. CASE Fail(r)
  <2>1. CASE at[r] = "answer"
    BY <1>1, <1>3, <2>1, GotoKeepsRt DEF Fail
  <2>2. CASE at[r] # "answer"
    <3>1. Goto(r, "refused", Blank) /\ ~ HasWritten(r)
      BY <1>3, <2>2 DEF Fail, Over, HasWritten
    <3> QED
      BY <1>1, <3>1, GotoKeepsRt
  <2> QED
    BY <2>1, <2>2
<1>4. CASE SendMail(r)
  <2>1. /\ at[r] = "mail" /\ rtWriters' = rtWriters
        /\ at' = [at EXCEPT ![r] = "mail_sent"] /\ call' = [call EXCEPT ![r] = Blank]
    BY <1>4 DEF SendMail
  <2>2. \A q \in Request : q # r => at'[q] = at[q] /\ call'[q] = call[q]
    BY <2>1 DEF AccountsInv, TypeOK
  <2>3. at'[r] = "mail_sent"
    BY <2>1 DEF AccountsInv, TypeOK
  <2> QED
    BY <1>1, <2>1, <2>2, <2>3 DEF KeepsRt, HasWritten
<1>5. CASE ~ SetCookies(r) /\ ~ Fail(r) /\ ~ SendMail(r)
  <2>1. ~ HasWritten(r)
    BY <1>5 DEF Continue, CreateUser, Verify, FindByEmail, LinkOauthUser, CreateOauthUser,
                CheckOldPassword, ChangePass, CreateResetToken, StoreNewPassword,
                MarkTokenUsed, HasWritten
  <2>2. \E n \in {"refused", "store", "link", "create_oauth", "change", "changed", "mail",
                  "mark", "reset_done"} : \E c : Goto(r, n, c)
    BY <1>5 DEF Continue, CreateUser, Verify, FindByEmail, LinkOauthUser, CreateOauthUser,
                CheckOldPassword, ChangePass, CreateResetToken, StoreNewPassword,
                MarkTokenUsed, Refuse, IssueTokens
  <2> QED
    BY <1>1, <2>1, <2>2, GotoKeepsRt
<1> QED
  BY <1>2, <1>3, <1>4, <1>5

LEMMA UpdateWritesRt ==
  ASSUME AccountsInv, NEW r \in Request, UpdateRtHash(r)
  PROVE  WritesRt(r)
<1>1. /\ at[r] = "store" /\ Goto(r, "answer", call[r])
      /\ SetRt(call[r].user, call[r].token)
      /\ call[r].user \in Email /\ users[call[r].user] # None
  BY DEF UpdateRtHash, AccountsInv, RequestInv, KnownUser
<1>2. call[r] \in Locals /\ "answer" \in Phase
  BY DEF AccountsInv, TypeOK, Phase
<1>3. Moves(r) /\ at'[r] = "answer" /\ call'[r] = call[r]
  BY <1>1, <1>2, GotoMoves DEF AccountsInv
<1>4. rtWriters' = Append(rtWriters, r)
  BY <1>1 DEF Goto
<1> QED
  BY <1>1, <1>3, <1>4 DEF WritesRt, HasWritten

LEMMA LogoutWritesRt ==
  ASSUME AccountsInv, NEW r \in Request, NEW e \in Email, Logout(r, e)
  PROVE  WritesRt(r)
<1> DEFINE c == [Blank EXCEPT !.user = e]
<1>1. /\ at[r] = "idle" /\ Goto(r, "logged_out", c) /\ SetRt(e, None) /\ users[e] # None
  BY DEF Logout
<1>2. c \in Locals /\ "logged_out" \in Phase /\ c.user = e /\ c.token = None
  BY DEF Blank, Locals, Phase, Over
<1> HIDE DEF c
<1>3. Moves(r) /\ at'[r] = "logged_out" /\ call'[r] = c
  BY <1>1, <1>2, GotoMoves DEF AccountsInv
<1>4. rtWriters' = Append(rtWriters, r)
  BY <1>1 DEF Goto
<1> QED
  BY <1>1, <1>2, <1>3, <1>4 DEF WritesRt, HasWritten

LEMMA KeepsOrWritesRt ==
  ASSUME AccountsInv, [Next]_vars
  PROVE  KeepsRt \/ \E r \in Request : WritesRt(r)
<1>1. CASE (\E k \in ResetToken : Expire(k)) \/ Tick \/ UNCHANGED vars
  BY <1>1 DEF Expire, Tick, tables, vars, KeepsRt, HasWritten
<1>2. ASSUME NEW r \in Request, Arrive(r)
      PROVE  KeepsRt \/ WritesRt(r)
  BY <1>2, ArriveKeepsRt, LogoutWritesRt
<1>3. ASSUME NEW r \in Request, Continue(r)
      PROVE  KeepsRt \/ WritesRt(r)
  BY <1>3, ContinueKeepsRt, UpdateWritesRt
<1> QED
  BY <1>1, <1>2, <1>3 DEF Next

LEMMA WriterStep ==
  ASSUME AccountsInv, WriterInv, [Next]_vars
  PROVE  WriterInv'
<1>1. /\ users \in [Email -> User \union {None}] /\ rtWriters \in Seq(Request)
      /\ \A q \in Request : HasWritten(q) => call[q].user \in Email /\ users[call[q].user] # None
  BY DEF AccountsInv, TypeOK, RequestInv, KnownUser, HasWritten
<1>2. CASE KeepsRt
  <2>1. \A i \in DOMAIN rtWriters : HasWritten(rtWriters[i])' /\ call'[rtWriters[i]] = call[rtWriters[i]]
    BY <1>1, <1>2 DEF WriterInv, KeepsRt
  <2>2. ASSUME NEW r \in Request, HasWritten(r)'
        PROVE  SessionStands(r)'
    <3>1. HasWritten(r) /\ SessionStands(r) /\ call'[r] = call[r]
      BY <1>2, <2>2 DEF WriterInv, KeepsRt
    <3>2. users'[call[r].user].hashedRt = users[call[r].user].hashedRt
      BY <1>1, <1>2, <3>1 DEF KeepsRt
    <3> QED
      BY <1>2, <2>1, <3>1, <3>2 DEF SessionStands, KeepsRt
  <2> QED
    BY <1>2, <2>1, <2>2 DEF WriterInv, KeepsRt
<1>3. ASSUME NEW w \in Request, WritesRt(w)
      PROVE  WriterInv'
  <2> DEFINE last == Len(rtWriters) + 1
  <2>1. /\ DOMAIN rtWriters = 1 .. Len(rtWriters) /\ Len(rtWriters) \in Nat
        /\ DOMAIN rtWriters' = 1 .. last /\ rtWriters'[last] = w
        /\ \A i \in DOMAIN rtWriters : rtWriters'[i] = rtWriters[i] /\ rtWriters[i] \in Request
    BY <1>1, <1>3 DEF WritesRt
  <2>2. \A q \in Request : HasWritten(q) => q # w /\ HasWritten(q)' /\ call'[q] = call[q]
    BY <1>3 DEF WritesRt, Moves, HasWritten
  <2>3. \A i \in DOMAIN rtWriters : HasWritten(rtWriters[i])' /\ call'[rtWriters[i]] = call[rtWriters[i]]
    BY <2>1, <2>2 DEF WriterInv
  <2>4. users'[call'[w].user].hashedRt = call'[w].token
    BY <1>1, <1>3 DEF WritesRt, SetRt, User
  <2>5. SessionStands(w)'
    BY <2>1, <2>4 DEF SessionStands
  <2>6. ASSUME NEW r \in Request, r # w, HasWritten(r)'
        PROVE  SessionStands(r)'
    <3>1. HasWritten(r) /\ SessionStands(r) /\ call'[r] = call[r]
      BY <1>3, <2>6 DEF WritesRt, Moves, HasWritten, WriterInv
    <3>2. PICK i \in DOMAIN rtWriters :
              /\ rtWriters[i] = r
              /\ \/ users[call[r].user].hashedRt = call[r].token
                 \/ \E j \in DOMAIN rtWriters : j > i /\ call[rtWriters[j]].user = call[r].user
      BY <3>1 DEF SessionStands
    <3>3. i \in DOMAIN rtWriters' /\ rtWriters'[i] = r /\ last \in DOMAIN rtWriters' /\ last > i
      BY <2>1, <3>2
    <3>4. CASE call'[w].user = call[r].user
      BY <2>1, <3>1, <3>3, <3>4 DEF SessionStands
    <3>5. CASE call'[w].user # call[r].user
      <4>1. users'[call[r].user] = users[call[r].user]
        BY <1>1, <1>3, <3>1, <3>5 DEF WritesRt, SetRt
      <4>2. CASE users[call[r].user].hashedRt = call[r].token
        BY <3>1, <3>3, <4>1, <4>2 DEF SessionStands
      <4>3. ASSUME NEW j \in DOMAIN rtWriters, j > i, call[rtWriters[j]].user = call[r].user
            PROVE  SessionStands(r)'
        BY <2>1, <2>3, <3>1, <3>3, <4>3 DEF SessionStands
      <4> QED
        BY <3>2, <4>2, <4>3
    <3> QED
      BY <3>4, <3>5
  <2>7. \A i \in DOMAIN rtWriters' :
            at'[rtWriters'[i]] \in {"answer", "answered", "torn", "logged_out"}
    BY <1>3, <2>1, <2>3 DEF WritesRt, HasWritten
  <2> QED
    BY <2>5, <2>6, <2>7 DEF WriterInv, HasWritten
<1> QED
  BY <1>2, <1>3, KeepsOrWritesRt

(* However logins, refreshes, callbacks and logouts overlap: what a client *)
(* was answered about its session holds until another request stores or    *)
(* clears the token after it, and a request that was answered has written. *)
THEOREM AnsweredSessionsStand == Spec => []AnsweredSessionStands
<1>1. Init => WriterInv
  BY DEF Init, WriterInv, HasWritten
<1>2. AccountsInv /\ WriterInv /\ [Next]_vars => WriterInv'
  BY WriterStep
<1>3. WriterInv => AnsweredSessionStands
  BY DEF WriterInv, AnsweredSessionStands, HasWritten
<1> QED
  BY <1>1, <1>2, <1>3, AccountsInvariant, PTL DEF Spec

-----------------------------------------------------------------------------
(* What a request that is about to write a password has to go by: a token  *)
(* that was mailed for the user, or the password the user had.             *)
HasPassword(e) == users[e] # None /\ users[e].hash # None

OwnerInv(r) ==
    /\ at[r] = "reset" =>
           /\ call[r].key \in mailed
           /\ resets[call[r].key].user = call[r].user
           /\ call[r].password \in LongEnough
    /\ at[r] = "check" =>
           /\ call[r].password # None
           /\ call[r].hash # None => HasPassword(call[r].user)
    /\ at[r] = "change" => HasPassword(call[r].user)

(* The requests that write to users, and what they write.                  *)
LEMMA WhoWritesUsers ==
  ASSUME AccountsInv, [Next]_vars
  PROVE  \/ UNCHANGED users
         \/ \E r \in Request : CreateUser(r) \/ CreateOauthUser(r)
         \/ \E e \in Email, t \in Token \union {None} : users[e] # None /\ SetRt(e, t)
         \/ \E r \in Request : StoreNewPassword(r)
         \/ \E r \in Request, p \in Password : ChangePass(r, p)
<1>1. ASSUME NEW r \in Request, Arrive(r)
      PROVE  UNCHANGED users \/ \E e \in Email : users[e] # None /\ SetRt(e, None)
  BY <1>1 DEF Arrive, Register, Login, ChangePassword, Refresh, Logout, ForgotPassword,
              Callback, ResetPassword, Refuse, tables
<1>2. ASSUME NEW r \in Request, Continue(r), ~ UpdateRtHash(r)
      PROVE  \/ UNCHANGED users
             \/ CreateUser(r) \/ CreateOauthUser(r) \/ StoreNewPassword(r)
             \/ \E p \in Password : ChangePass(r, p)
  BY <1>2 DEF Continue, Verify, SetCookies, FindByEmail, LinkOauthUser,
              CheckOldPassword, CreateResetToken, SendMail, MarkTokenUsed, Fail,
              Refuse, tables
<1>3. ASSUME NEW r \in Request, UpdateRtHash(r)
      PROVE  \E e \in Email, t \in Token : users[e] # None /\ SetRt(e, t)
  BY <1>3 DEF UpdateRtHash, AccountsInv, RequestInv, KnownUser
<1>4. CASE (\E k \in ResetToken : Expire(k)) \/ Tick \/ UNCHANGED vars
  BY <1>4 DEF Expire, Tick, tables, vars
<1> QED
  BY <1>1, <1>2, <1>3, <1>4 DEF Next

(* Which step changes the password of a user who is there.                 *)
LEMMA WhoSetsPassword ==
  ASSUME AccountsInv, [Next]_vars, NEW e \in Email, users[e] # None
  PROVE  /\ users'[e] # None
         /\ \/ users'[e].hash = users[e].hash
            \/ \E r \in Request :
                  /\ StoreNewPassword(r) /\ call[r].user = e
                  /\ users'[e].hash = call[r].password
            \/ \E r \in Request, p \in Password :
                  /\ ChangePass(r, p) /\ call[r].user = e
                  /\ users'[e].hash = p
<1>1. users \in [Email -> User \union {None}] /\ users[e] \in User
      /\ \A u \in User : u # None
  BY AccountsAssumption DEF AccountsInv, TypeOK, User
<1>2. ASSUME NEW r \in Request, CreateUser(r) \/ CreateOauthUser(r)
      PROVE  users'[e] = users[e]
  BY <1>1, <1>2 DEF CreateUser, CreateOauthUser, Refuse, tables
<1>3. ASSUME NEW d \in Email, NEW t \in Token \union {None}, SetRt(d, t)
      PROVE  users'[e].hash = users[e].hash /\ users'[e] \in User
  BY <1>1, <1>3 DEF SetRt, User
<1>4. ASSUME NEW d \in Email, NEW p \in Password, SetPassword(d, p)
      PROVE  /\ users'[e] \in User
             /\ IF d = e THEN users'[e].hash = p ELSE users'[e] = users[e]
  BY <1>1, <1>4 DEF SetPassword, User
<1>5. ASSUME NEW r \in Request, StoreNewPassword(r)
      PROVE  /\ call[r].user \in Email /\ call[r].password \in Password
             /\ SetPassword(call[r].user, call[r].password)
  BY <1>5 DEF StoreNewPassword, AccountsInv, RequestInv, KnownUser
<1>6. ASSUME NEW r \in Request, NEW p \in Password, ChangePass(r, p)
      PROVE  call[r].user \in Email /\ SetPassword(call[r].user, p)
  BY <1>6 DEF ChangePass, AccountsInv, RequestInv, KnownUser
<1>7. CASE UNCHANGED users
  BY <1>1, <1>7
<1>8. CASE \E r \in Request : StoreNewPassword(r)
  BY <1>1, <1>4, <1>5, <1>8
<1>9. CASE \E r \in Request, p \in Password : ChangePass(r, p)
  BY <1>1, <1>4, <1>6, <1>9
<1> QED
  BY <1>1, <1>2, <1>3, <1>7, <1>8, <1>9, WhoWritesUsers

(* A password is never cleared, and what was mailed stays mailed, for the  *)
(* same user.                                                              *)
LEMMA OwnersStay ==
  ASSUME AccountsInv, [Next]_vars
  PROVE  /\ \A e \in Email : HasPassword(e) => HasPassword(e)'
         /\ mailed \subseteq mailed'
         /\ \A k \in ResetToken : resets[k] # None => resets'[k].user = resets[k].user
<1>1. ASSUME NEW e \in Email, HasPassword(e)
      PROVE  HasPassword(e)'
  <2>1. \A r \in Request : StoreNewPassword(r) => call[r].password \in Password
    BY DEF StoreNewPassword, AccountsInv, RequestInv
  <2> QED
    BY <1>1, <2>1, WhoSetsPassword, AccountsAssumption DEF HasPassword
<1>2. ASSUME NEW r \in Request, Arrive(r)
      PROVE  UNCHANGED <<mailed, resets>>
  BY <1>2 DEF Arrive, Register, Login, ChangePassword, Refresh, Logout, ForgotPassword,
              Callback, ResetPassword, Refuse, IssueTokens, Goto, tables
<1>3. ASSUME NEW r \in Request, SendMail(r)
      PROVE  mailed \subseteq mailed' /\ UNCHANGED resets
  BY <1>3 DEF SendMail, tables
<1>4. ASSUME NEW r \in Request, NEW k \in ResetToken, CreateResetToken(r, k)
      PROVE  UNCHANGED mailed /\ \A j \in ResetToken : resets[j] # None => resets'[j] = resets[j]
  BY <1>4 DEF CreateResetToken, Goto, AccountsInv, TypeOK
<1>5. ASSUME NEW r \in Request, MarkTokenUsed(r)
      PROVE  UNCHANGED mailed
             /\ \A j \in ResetToken : resets[j] # None => resets'[j].user = resets[j].user
  BY <1>5 DEF MarkTokenUsed, Goto, AccountsInv, TypeOK, Reset
<1>6. ASSUME NEW k \in ResetToken, Expire(k)
      PROVE  UNCHANGED mailed
             /\ \A j \in ResetToken : resets[j] # None => resets'[j].user = resets[j].user
  BY <1>6 DEF Expire, AccountsInv, TypeOK, Reset
<1>7. ASSUME NEW r \in Request, Continue(r), ~ SendMail(r), ~ MarkTokenUsed(r),
             \A k \in ResetToken : ~ CreateResetToken(r, k)
      PROVE  UNCHANGED <<mailed, resets>>
  BY <1>7 DEF Continue, CreateUser, Verify, UpdateRtHash, SetCookies, FindByEmail,
              LinkOauthUser, CreateOauthUser, CheckOldPassword, ChangePass,
              StoreNewPassword, Fail, Refuse, IssueTokens, Goto, tables
<1>8. Tick \/ UNCHANGED vars => UNCHANGED <<mailed, resets>>
  BY DEF Tick, tables, vars
<1>9. \/ UNCHANGED <<mailed, resets>>
      \/ \E r \in Request : SendMail(r) \/ MarkTokenUsed(r)
      \/ \E r \in Request, k \in ResetToken : CreateResetToken(r, k)
      \/ \E k \in ResetToken : Expire(k)
  BY <1>2, <1>7, <1>8 DEF Next
<1>10. /\ mailed \subseteq mailed'
       /\ \A k \in ResetToken : resets[k] # None => resets'[k].user = resets[k].user
  <2>1. CASE UNCHANGED <<mailed, resets>>
    BY <2>1
  <2>2. CASE \E r \in Request : SendMail(r) \/ MarkTokenUsed(r)
    BY <2>2, <1>3, <1>5
  <2>3. CASE \E r \in Request, k \in ResetToken : CreateResetToken(r, k)
    BY <2>3, <1>4
  <2>4. CASE \E k \in ResetToken : Expire(k)
    BY <2>4, <1>6
  <2> QED
    BY <1>9, <2>1, <2>2, <2>3, <2>4
<1> QED
  BY <1>1, <1>10

(* How a request gets where it is about to write a password.               *)
LEMMA WhoEnters ==
  ASSUME AccountsInv, [Next]_vars, NEW r \in Request
  PROVE  \/ at'[r] = at[r] /\ call'[r] = call[r]
         \/ at'[r] \notin {"reset", "check", "change"}
         \/ \E k \in ResetToken, p \in Password : ResetPassword(r, k, p)
         \/ \E e \in Email, p \in Password : ChangePassword(r, e, p)
         \/ CheckOldPassword(r)
<1> DEFINE Elsewhere == {"refused", "create", "verify", "store", "logged_out", "find", "mail_sent",
                         "create_token", "answer", "answered", "torn", "link",
                         "create_oauth", "changed", "mail", "mark", "reset_done"}
<1>1. ASSUME NEW q \in Request, NEW n, NEW c, Goto(q, n, c)
      PROVE  /\ q # r => at'[r] = at[r] /\ call'[r] = call[r]
             /\ q = r => at'[r] = n
  BY <1>1 DEF Goto, AccountsInv, TypeOK
<1>2. ASSUME NEW q \in Request, Arrive(q)
      PROVE  \/ \E n \in Elsewhere : \E c : Goto(q, n, c)
             \/ \E e \in Email, p \in Password : ChangePassword(q, e, p)
             \/ \E k \in ResetToken, p \in Password : ResetPassword(q, k, p)
  BY <1>2 DEF Arrive, Register, Login, Refresh, Logout, ForgotPassword, Callback,
              Refuse, IssueTokens
<1>3. ASSUME NEW q \in Request, Continue(q)
      PROVE  \/ \E n \in Elsewhere : \E c : Goto(q, n, c)
             \/ SendMail(q)
             \/ CheckOldPassword(q)
  BY <1>3 DEF Continue, CreateUser, Verify, UpdateRtHash, SetCookies, FindByEmail,
              LinkOauthUser, CreateOauthUser, ChangePass, CreateResetToken,
              StoreNewPassword, MarkTokenUsed, Fail, Refuse, IssueTokens
<1>4. ASSUME NEW q \in Request,
             \/ \E e \in Email, p \in Password : ChangePassword(q, e, p)
             \/ \E k \in ResetToken, p \in Password : ResetPassword(q, k, p)
             \/ CheckOldPassword(q)
      PROVE  \E n, c : Goto(q, n, c)
  BY <1>4 DEF ChangePassword, ResetPassword, CheckOldPassword, Refuse
<1>5. ASSUME NEW q \in Request, SendMail(q)
      PROVE  /\ q # r => at'[r] = at[r] /\ call'[r] = call[r]
             /\ q = r => at'[r] = "mail_sent"
  BY <1>5 DEF SendMail, AccountsInv, TypeOK
<1>6. CASE (\E k \in ResetToken : Expire(k)) \/ Tick \/ UNCHANGED vars
  BY <1>6 DEF Expire, Tick, vars
<1>7. ASSUME NEW q \in Request, Arrive(q) \/ Continue(q)
      PROVE  \/ at'[r] = at[r] /\ call'[r] = call[r]
             \/ at'[r] \notin {"reset", "check", "change"}
             \/ \E k \in ResetToken, p \in Password : ResetPassword(r, k, p)
             \/ \E e \in Email, p \in Password : ChangePassword(r, e, p)
             \/ CheckOldPassword(r)
  <2>1. CASE \E n \in Elsewhere : \E c : Goto(q, n, c)
    BY <1>1, <2>1
  <2> HIDE DEF Elsewhere
  <2>2. CASE q # r
    BY <1>1, <1>2, <1>3, <1>4, <1>5, <1>7, <2>1, <2>2
  <2>3. CASE q = r
    BY <1>2, <1>3, <1>5, <1>7, <2>1, <2>3
  <2> QED
    BY <2>2, <2>3
<1> QED
  BY <1>6, <1>7 DEF Next

LEMMA OwnerStep ==
  ASSUME AccountsInv, \A r \in Request : OwnerInv(r), [Next]_vars
  PROVE  \A r \in Request : OwnerInv(r)'
<1> SUFFICES ASSUME NEW r \in Request
             PROVE  OwnerInv(r)'
  OBVIOUS
<1> USE DEF AccountsInv, TypeOK
<1>1. CASE at'[r] = at[r] /\ call'[r] = call[r]
  <2>1. at[r] = "reset" => call[r].key \in ResetToken /\ resets[call[r].key] # None
    BY DEF RequestInv
  <2>2. at[r] \in {"check", "change"} => call[r].user \in Email
    BY DEF RequestInv, KnownUser
  <2>3. /\ \A e \in Email : HasPassword(e) => HasPassword(e)'
        /\ mailed \subseteq mailed'
        /\ \A k \in ResetToken : resets[k] # None => resets'[k].user = resets[k].user
    BY OwnersStay
  <2>4. OwnerInv(r)
    OBVIOUS
  <2> QED
    BY ONLY <1>1, <2>1, <2>2, <2>3, <2>4 DEF OwnerInv, HasPassword
<1>2. CASE at'[r] \notin {"reset", "check", "change"}
  BY <1>2 DEF OwnerInv
<1>3. ASSUME NEW k \in ResetToken, NEW p \in Password, ResetPassword(r, k, p),
             at'[r] = "reset"
      PROVE  OwnerInv(r)'
  <2>1. ~ Refuse(r)
    BY <1>3 DEF Refuse, Goto
  <2>2. /\ resets[k] # None /\ p \in LongEnough /\ k \in mailed
        /\ UNCHANGED <<mailed, resets>>
        /\ call'[r] = [Blank EXCEPT !.user = resets[k].user, !.password = p, !.key = k]
    BY <1>3, <2>1 DEF ResetPassword, Goto, tables
  <2>3. /\ call'[r].user = resets[k].user /\ call'[r].password = p /\ call'[r].key = k
    BY <2>2 DEF Blank
  <2> QED
    BY <1>3, <2>2, <2>3 DEF OwnerInv
<1>4. ASSUME NEW e \in Email, NEW p \in Password, ChangePassword(r, e, p)
      PROVE  OwnerInv(r)'
  <2>1. /\ users[e] # None /\ UNCHANGED users /\ at'[r] = "check"
        /\ call'[r].user = e /\ call'[r].hash = users[e].hash /\ call'[r].password = p
    BY <1>4 DEF ChangePassword, Goto, tables, Blank
  <2> QED
    BY <2>1, AccountsAssumption DEF OwnerInv, HasPassword
<1>5. ASSUME CheckOldPassword(r), at'[r] \in {"reset", "check", "change"}
      PROVE  OwnerInv(r)'
  <2>1. ~ Refuse(r)
    BY <1>5 DEF Refuse, Goto
  <2>2. /\ at[r] = "check" /\ call[r].hash = call[r].password
        /\ at'[r] = "change" /\ call'[r].user = call[r].user /\ UNCHANGED users
    BY <1>5, <2>1 DEF CheckOldPassword, Goto, tables, Blank
  <2>3. call[r].hash # None
    BY <2>2 DEF OwnerInv
  <2> QED
    BY <2>2, <2>3 DEF OwnerInv, HasPassword
<1>6. ASSUME NEW k \in ResetToken, NEW p \in Password, ResetPassword(r, k, p)
      PROVE  at'[r] \in {"reset", "refused"}
  BY <1>6 DEF ResetPassword, Refuse, Goto
<1> QED
  BY <1>1, <1>2, <1>3, <1>4, <1>5, <1>6, WhoEnters

(* A password changes only for its owner: no interleaving of resets and    *)
(* changes with logins, callbacks and registrations makes a request store  *)
(* a password for a user it was not mailed for or has not checked.         *)
THEOREM PasswordsChangeByOwner == Spec => PasswordChangesByOwner
<1> DEFINE ByOwner(e) ==
        \E r \in Request :
            /\ call[r].user = e
            /\ \/ /\ at[r] = "reset" /\ call[r].key \in mailed
                  /\ resets[call[r].key].user = e
                  /\ users'[e].hash \in LongEnough
               \/ at[r] = "change" /\ None \notin {users[e].hash, users'[e].hash}
           Owned == \A e \in Email :
                        users[e] # None /\ users'[e].hash # users[e].hash => ByOwner(e)
<1>1. ASSUME AccountsInv, \A r \in Request : OwnerInv(r), [Next]_vars, NEW e \in Email,
             users[e] # None, users'[e].hash # users[e].hash
      PROVE  ByOwner(e)
  <2>1. ASSUME NEW r \in Request, StoreNewPassword(r), call[r].user = e,
               users'[e].hash = call[r].password
        PROVE  ByOwner(e)
    BY <1>1, <2>1 DEF StoreNewPassword, OwnerInv
  <2>2. ASSUME NEW r \in Request, NEW p \in Password, ChangePass(r, p), call[r].user = e,
               users'[e].hash = p
        PROVE  ByOwner(e)
    BY <1>1, <2>2, AccountsAssumption DEF ChangePass, OwnerInv, HasPassword
  <2> QED
    BY <1>1, <2>1, <2>2, WhoSetsPassword
<1>2. AccountsInv /\ (\A r \in Request : OwnerInv(r)) /\ [Next]_vars => Owned
  BY <1>1
<1>3. Init => \A r \in Request : OwnerInv(r)
  BY DEF Init, OwnerInv
<1>4. AccountsInv /\ (\A r \in Request : OwnerInv(r)) /\ [Next]_vars
      => (\A r \in Request : OwnerInv(r))'
  BY OwnerStep
<1> QED
  BY <1>2, <1>3, <1>4, AccountsInvariant, PTL DEF Spec, PasswordChangesByOwner

=============================================================================
