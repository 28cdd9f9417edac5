------------------------------- MODULE Accounts -------------------------------
(***************************************************************************)
(* Users, sessions and passwords: auth.service.ts over users.repository.ts *)
(* and password-reset.repository.ts.                                       *)
(*                                                                         *)
(* Every handler is a sequence of awaited database calls without a         *)
(* transaction, so the handlers of requests interleave between any two of  *)
(* them.  The first action of a request is its arrival with its first      *)
(* read; an action after it goes from the answer of one call to the next.  *)
(*                                                                         *)
(* A user is known by the e-mail (unique, and never updated).  An argon2   *)
(* hash is the value it verifies.  A JWT carries the user, a list of roles *)
(* or, from the Google callback, none (req.user is a database row, with    *)
(* role instead of roles), and the second it was signed in: two tokens     *)
(* that agree in these are the same string.                                *)
(***************************************************************************)
EXTENDS Integers, Sequences

CONSTANTS
    Email,
    Password,
    LongEnough,  \* the passwords of at least 8 characters
    Profile,     \* Google's profile ids
    ResetToken,
    Request,
    None,        \* null
    MaxTime      \* bound: seconds that pass

Token == [user : Email, roles : BOOLEAN, second : 0 .. MaxTime]

ASSUME AccountsAssumption ==
    /\ LongEnough \subseteq Password
    /\ MaxTime \in Nat
    /\ None \notin Email \union Password \union Profile \union ResetToken
    /\ None \notin Token
    /\ None \notin [hash : Password \union {None}, hashedRt : Token \union {None}]
    /\ None \notin [user : Email, used : BOOLEAN, expired : BOOLEAN]

VARIABLES
    users,     \* the row of each e-mail: hash and hashedRt
    accounts,  \* the user each Google profile is linked to
    resets,    \* the rows of passwordResetToken
    mailed,    \* the reset tokens that have been mailed
    at,        \* what each request does next
    call,      \* its arguments and what it has read
    now,
    rtWriters  \* history: who has written a hashedRt, in that order

vars == <<users, accounts, resets, mailed, at, call, now, rtWriters>>

tables == <<users, accounts, resets>>

User == [hash : Password \union {None}, hashedRt : Token \union {None}]

Reset == [user : Email, used : BOOLEAN, expired : BOOLEAN]

Locals == [user : Email \union {None}, password : Password \union {None},
           hash : Password \union {None}, token : Token \union {None},
           key : ResetToken \union {None}, profile : Profile \union {None}]

Blank == [user |-> None, password |-> None, hash |-> None,
          token |-> None, key |-> None, profile |-> None]

HasAccount(e) == \E p \in Profile : accounts[p] = e

-----------------------------------------------------------------------------
(* The database may have users of either kind when the requests begin;     *)
(* their sessions are over.                                                *)
Init ==
    /\ users \in [Email -> {None} \union [hash : Password \union {None}, hashedRt : {None}]]
    /\ accounts \in [Profile -> Email \union {None}]
    /\ \A p \in Profile : accounts[p] # None => users[accounts[p]] # None
    /\ \A e \in Email : users[e] # None /\ users[e].hash = None => HasAccount(e)
    /\ resets = [k \in ResetToken |-> None]
    /\ mailed = {}
    /\ at = [r \in Request |-> "idle"]
    /\ call = [r \in Request |-> Blank]
    /\ now = 0
    /\ rtWriters = <<>>

(* A request gets an answer and goes on to its next call.  (The steps to   *)
(* "answer" and to "logged_out" are those that write hashedRt.)            *)
Goto(r, next, c) ==
    /\ at' = [at EXCEPT ![r] = next]
    /\ call' = [call EXCEPT ![r] = c]
    /\ rtWriters' = IF next \in {"answer", "logged_out"} THEN Append(rtWriters, r) ELSE rtWriters
    /\ UNCHANGED <<mailed, now>>

(* An exception: the request is answered with an error.                    *)
Refuse(r) == Goto(r, "refused", Blank) /\ UNCHANGED tables

(* getTokens; the next call is updateRtHash.                               *)
IssueTokens(r, c, hasRoles) ==
    Goto(r, "store", [c EXCEPT !.password = None, !.hash = None,
                               !.token = [user |-> c.user, roles |-> hasRoles, second |-> now]])

-----------------------------------------------------------------------------
(* register: createUser looks for the e-mail, then creates the row; the    *)
(* unique column decides between two that both found none.                 *)
Register(r, e, p) ==
    /\ at[r] = "idle"
    /\ IF users[e] # None
       THEN Refuse(r)
       ELSE /\ Goto(r, "create", [Blank EXCEPT !.user = e, !.password = p])
            /\ UNCHANGED tables

(* Faulty variant: the row is replaced, as an upsert would.                *)
UpsertUser(r) ==
    LET c == call[r] IN
    /\ at[r] = "create"
    /\ users' = [users EXCEPT ![c.user] = [hash |-> c.password, hashedRt |-> None]]
    /\ IssueTokens(r, c, TRUE)
    /\ UNCHANGED <<accounts, resets>>

CreateUser(r) ==
    LET c == call[r] IN
    /\ at[r] = "create"
    /\ IF users[c.user] # None
       THEN Refuse(r)
       ELSE /\ users' = [users EXCEPT ![c.user] = [hash |-> c.password, hashedRt |-> None]]
            /\ IssueTokens(r, c, TRUE)
            /\ UNCHANGED <<accounts, resets>>

(* login: findUser, then hasAccount in a query of its own.                 *)
Login(r, e, p) ==
    /\ at[r] = "idle"
    /\ IF users[e] = None
       THEN Refuse(r)
       ELSE /\ Goto(r, "verify", [Blank EXCEPT !.user = e, !.password = p,
                                               !.hash = users[e].hash])
            /\ UNCHANGED tables

(* A user with an account and no hash is sent to Google; with neither,     *)
(* argon2.verify throws.                                                   *)
Verify(r) ==
    LET c == call[r] IN
    /\ at[r] = "verify"
    /\ IF (c.hash = None /\ HasAccount(c.user)) \/ c.hash # c.password
       THEN Refuse(r)
       ELSE IssueTokens(r, c, TRUE) /\ UNCHANGED tables

(* refreshTokens: the row is read, and the token compared with that copy.  *)
Refresh(r, t) ==
    /\ at[r] = "idle"
    /\ \E q \in Request : at[q] = "answered" /\ call[q].token = t
    /\ IF users[t.user].hashedRt # t
       THEN Refuse(r)
       ELSE IssueTokens(r, [Blank EXCEPT !.user = t.user], TRUE) /\ UNCHANGED tables

SetRt(e, t) == users' = [users EXCEPT ![e].hashedRt = t]

(* Faulty variant: the update is made conditional on there being no other  *)
(* session, and its count is not looked at.                                *)
UpdateIfUnset(r) ==
    /\ at[r] = "store"
    /\ IF users[call[r].user].hashedRt = None
       THEN SetRt(call[r].user, call[r].token)
       ELSE UNCHANGED users
    /\ Goto(r, "answer", call[r])
    /\ UNCHANGED <<accounts, resets>>

(* updateRtHash, for whatever the column holds by now.                     *)
UpdateRtHash(r) ==
    /\ at[r] = "store"
    /\ SetRt(call[r].user, call[r].token)
    /\ Goto(r, "answer", call[r])
    /\ UNCHANGED <<accounts, resets>>

(* The client gets the cookies.                                            *)
SetCookies(r) ==
    /\ at[r] = "answer"
    /\ Goto(r, "answered", call[r])
    /\ UNCHANGED tables

(* logout: one update, where there is something to clear.  Any user may    *)
(* hold an access token, which AtGuard checks without the database.        *)
Logout(r, e) ==
    /\ at[r] = "idle"
    /\ users[e] # None
    /\ SetRt(e, None)
    /\ Goto(r, "logged_out", [Blank EXCEPT !.user = e])
    /\ UNCHANGED <<accounts, resets>>

-----------------------------------------------------------------------------
(* validateOAuthLogin, for a profile whose e-mail Google has verified: its *)
(* account, else the user of its e-mail, else a new user.  (Updating the   *)
(* account stores Google's own tokens.)                                    *)
Callback(r, p, e) ==
    LET c == [Blank EXCEPT !.profile = p, !.user = e] IN
    /\ at[r] = "idle"
    /\ IF accounts[p] # None
       THEN IssueTokens(r, [c EXCEPT !.user = accounts[p]], FALSE)
       ELSE Goto(r, "find", c)
    /\ UNCHANGED tables

FindByEmail(r) ==
    /\ at[r] = "find"
    /\ Goto(r, IF users[call[r].user] # None THEN "link" ELSE "create_oauth", call[r])
    /\ UNCHANGED tables

(* Faulty variant: the last link wins.                                     *)
LinkOrMove(r) ==
    LET c == call[r] IN
    /\ at[r] = "link"
    /\ accounts' = [accounts EXCEPT ![c.profile] = c.user]
    /\ IssueTokens(r, c, FALSE)
    /\ UNCHANGED <<users, resets>>

(* (provider, providerAccountId) is unique.                                *)
LinkOauthUser(r) ==
    LET c == call[r] IN
    /\ at[r] = "link"
    /\ IF accounts[c.profile] # None
       THEN Refuse(r)
       ELSE /\ accounts' = [accounts EXCEPT ![c.profile] = c.user]
            /\ IssueTokens(r, c, FALSE)
            /\ UNCHANGED <<users, resets>>

(* Faulty variant: the user is created first, its account by a second call. *)
CreateThenLink(r) ==
    LET c == call[r] IN
    /\ at[r] = "create_oauth"
    /\ users[c.user] = None
    /\ users' = [users EXCEPT ![c.user] = [hash |-> None, hashedRt |-> None]]
    /\ Goto(r, "link", c)
    /\ UNCHANGED <<accounts, resets>>

(* One nested create, of the user with its account.                        *)
CreateOauthUser(r) ==
    LET c == call[r] IN
    /\ at[r] = "create_oauth"
    /\ IF users[c.user] # None \/ accounts[c.profile] # None
       THEN Refuse(r)
       ELSE /\ users' = [users EXCEPT ![c.user] = [hash |-> None, hashedRt |-> None]]
            /\ accounts' = [accounts EXCEPT ![c.profile] = c.user]
            /\ IssueTokens(r, c, FALSE)
            /\ UNCHANGED resets

-----------------------------------------------------------------------------
SetPassword(e, p) == users' = [users EXCEPT ![e].hash = p]

(* changePassword: findById, hasAccount, the checks, changePass.           *)
ChangePassword(r, e, old) ==
    /\ at[r] = "idle"
    /\ users[e] # None
    /\ Goto(r, "check", [Blank EXCEPT !.user = e, !.password = old, !.hash = users[e].hash])
    /\ UNCHANGED tables

CheckOldPassword(r) ==
    LET c == call[r] IN
    /\ at[r] = "check"
    /\ IF HasAccount(c.user) \/ c.hash # c.password
       THEN Refuse(r)
       ELSE Goto(r, "change", [Blank EXCEPT !.user = c.user]) /\ UNCHANGED tables

ChangePass(r, p) ==
    /\ at[r] = "change"
    /\ SetPassword(call[r].user, p)
    /\ Goto(r, "changed", Blank)
    /\ UNCHANGED <<accounts, resets>>

(* sendPasswordResetEmail: an unknown e-mail is answered like a known one. *)
ForgotPassword(r, e) ==
    /\ at[r] = "idle"
    /\ IF users[e] = None
       THEN Goto(r, "mail_sent", Blank)
       ELSE Goto(r, "create_token", [Blank EXCEPT !.user = e])
    /\ UNCHANGED tables

CreateResetToken(r, k) ==
    /\ at[r] = "create_token"
    /\ resets[k] = None
    /\ resets' = [resets EXCEPT ![k] = [user |-> call[r].user, used |-> FALSE, expired |-> FALSE]]
    /\ Goto(r, "mail", [Blank EXCEPT !.key = k])
    /\ UNCHANGED <<users, accounts>>

SendMail(r) ==
    /\ at[r] = "mail"
    /\ mailed' = mailed \union {call[r].key}
    /\ at' = [at EXCEPT ![r] = "mail_sent"]
    /\ call' = [call EXCEPT ![r] = Blank]
    /\ UNCHANGED <<tables, now, rtWriters>>

(* Faulty variant: a used token is still good.                             *)
ResetAgain(r, k, p) ==
    /\ at[r] = "idle"
    /\ k \in mailed
    /\ ~ resets[k].expired /\ p \in LongEnough
    /\ Goto(r, "reset", [Blank EXCEPT !.user = resets[k].user, !.password = p, !.key = k])
    /\ UNCHANGED tables

(* resetPassword: validateResetToken reads the row once; the password is   *)
(* stored and the token marked used in two more calls.  The token is one   *)
(* that was mailed, or one that no row has.                                *)
ResetPassword(r, k, p) ==
    /\ at[r] = "idle"
    /\ k \in mailed \/ resets[k] = None
    /\ IF resets[k] = None \/ resets[k].used \/ resets[k].expired \/ p \notin LongEnough
       THEN Refuse(r)
       ELSE /\ Goto(r, "reset", [Blank EXCEPT !.user = resets[k].user, !.password = p,
                                              !.key = k])
            /\ UNCHANGED tables

StoreNewPassword(r) ==
    /\ at[r] = "reset"
    /\ SetPassword(call[r].user, call[r].password)
    /\ Goto(r, "mark", [Blank EXCEPT !.key = call[r].key])
    /\ UNCHANGED <<accounts, resets>>

MarkTokenUsed(r) ==
    /\ at[r] = "mark"
    /\ resets' = [resets EXCEPT ![call[r].key].used = TRUE]
    /\ Goto(r, "reset_done", call[r])
    /\ UNCHANGED <<users, accounts>>

-----------------------------------------------------------------------------
Over == {"refused", "answered", "torn", "logged_out", "changed", "mail_sent", "reset_done"}

(* A call fails, the username of a new user is taken, or the process dies, *)
(* which is as if each of its requests failed: it keeps nothing else.  A   *)
(* stored token may so never reach its client.                             *)
Fail(r) ==
    /\ at[r] \notin Over \union {"idle"}
    /\ IF at[r] = "answer" THEN Goto(r, "torn", call[r]) ELSE Goto(r, "refused", Blank)
    /\ UNCHANGED tables

(* 15 minutes after its creation.                                          *)
Expire(k) ==
    /\ resets[k] # None
    /\ ~ resets[k].expired
    /\ resets' = [resets EXCEPT ![k].expired = TRUE]
    /\ UNCHANGED <<users, accounts, mailed, at, call, now, rtWriters>>

Tick ==
    /\ now < MaxTime
    /\ now' = now + 1
    /\ UNCHANGED <<tables, mailed, at, call, rtWriters>>

Arrive(r) ==
    \/ \E e \in Email, p \in Password :
          Register(r, e, p) \/ Login(r, e, p) \/ ChangePassword(r, e, p)
    \/ \E t \in Token : Refresh(r, t)
    \/ \E e \in Email : Logout(r, e) \/ ForgotPassword(r, e)
    \/ \E g \in Profile, e \in Email : Callback(r, g, e)
    \/ \E k \in ResetToken, p \in Password : ResetPassword(r, k, p)

Continue(r) ==
    \/ CreateUser(r) \/ Verify(r) \/ UpdateRtHash(r) \/ SetCookies(r)
    \/ FindByEmail(r) \/ LinkOauthUser(r) \/ CreateOauthUser(r)
    \/ CheckOldPassword(r) \/ \E p \in Password : ChangePass(r, p)
    \/ \E k \in ResetToken : CreateResetToken(r, k)
    \/ SendMail(r) \/ StoreNewPassword(r) \/ MarkTokenUsed(r)
    \/ Fail(r)

Next ==
    \/ \E r \in Request : Arrive(r) \/ Continue(r)
    \/ \E k \in ResetToken : Expire(k)
    \/ Tick

Spec == Init /\ [][Next]_vars

-----------------------------------------------------------------------------
Phase == {"idle", "create", "verify", "store", "answer", "find", "link", "create_oauth",
          "check", "change", "create_token", "mail", "reset", "mark"} \union Over

(* Types of the tables and of what the handlers keep.                      *)
TypeOK ==
    /\ users \in [Email -> User \union {None}]
    /\ accounts \in [Profile -> Email \union {None}]
    /\ resets \in [ResetToken -> Reset \union {None}]
    /\ mailed \subseteq ResetToken
    /\ at \in [Request -> Phase]
    /\ call \in [Request -> Locals]
    /\ now \in 0 .. MaxTime
    /\ rtWriters \in Seq(Request)

(* The assertion user.hash! of login: whoever gets as far as the password  *)
(* check without a hash has an account, and has been sent to Google, also  *)
(* when the user was created by a callback after the login had begun.      *)
LoginFindsHash ==
    \A r \in Request : at[r] = "verify" /\ call[r].hash = None => HasAccount(call[r].user)

(* A callback gives tokens of the user its profile is linked to, whichever *)
(* of its three ways it takes and whatever other callbacks and             *)
(* registrations do between its queries.                                   *)
CallbackSignsOwner ==
    \A r \in Request :
        at[r] \in {"store", "answer", "answered", "torn"} /\ call[r].profile # None =>
            accounts[call[r].profile] = call[r].user

(* The requests that have written the refresh token of a user.             *)
HasWrittenRt(q, e) ==
    call[q].user = e /\ at[q] \in {"answer", "answered", "torn", "logged_out"}

(* What a client has been answered about its session holds until a request *)
(* of the same user writes after it: the tokens it was given can be        *)
(* refreshed, and after a logout there is nothing to refresh.  So of two   *)
(* refreshes or logins that overlap, whichever stored last is good, and    *)
(* nothing but a later write ends a session.                               *)
SessionStands(r) ==
    \E i \in DOMAIN rtWriters :
        /\ rtWriters[i] = r
        /\ \/ users[call[r].user].hashedRt = call[r].token
           \/ \E j \in DOMAIN rtWriters : j > i /\ call[rtWriters[j]].user = call[r].user

AnsweredSessionStands ==
    \A r \in Request : at[r] \in {"answered", "logged_out"} => SessionStands(r)

(* The token that is stored was made for its user and is with a client, on *)
(* its way to one, or was cut off on that way: no other ends a session.    *)
StoredTokenIsHeld ==
    \A e \in Email :
        users[e] # None /\ users[e].hashedRt # None =>
            \E r \in Request : HasWrittenRt(r, e) /\ call[r].token = users[e].hashedRt

(* A reset that comes after another one with its token was answered is     *)
(* refused: the token is marked before the answer, and stays marked.       *)
SpentTokenIsRefused ==
    [][\A r \in Request :
          at[r] = "idle" /\ at'[r] = "reset" =>
              \A q \in Request : ~ (at[q] = "reset_done" /\ call[q].key = call'[r].key)]_vars

(* A user's password changes only by a reset with a token that was mailed  *)
(* for this user, to one that is long enough, or by a change of a user who *)
(* has one already; what a user who signs in with Google gets is mailed.   *)
PasswordChangesByOwner ==
    [][\A e \in Email :
          users[e] # None /\ users'[e].hash # users[e].hash =>
              \E r \in Request :
                  /\ call[r].user = e
                  /\ \/ /\ at[r] = "reset" /\ call[r].key \in mailed
                        /\ resets[call[r].key].user = e
                        /\ users'[e].hash \in LongEnough
                     \/ at[r] = "change" /\ None \notin {users[e].hash, users'[e].hash}]_vars

=============================================================================
