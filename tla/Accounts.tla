------------------------------ MODULE Accounts ------------------------------
(***************************************************************************)
(* User accounts of platform-core: sign-up, e-mail verification, password   *)
(* reset and the password check behind the login form                       *)
(* (src/internal/application/identity).                                     *)
(*                                                                          *)
(* Every HTTP request is a goroutine.  It owns nothing between two calls    *)
(* but the values it has read; each call to Postgres, Redis or the mailer   *)
(* is one atomic step, and requests interleave between the calls.  A call   *)
(* may fail, with or without having taken effect, and the process may die   *)
(* (Abort, Crash).  No transaction spans two calls.                         *)
(***************************************************************************)
EXTENDS Naturals, FiniteSets

CONSTANTS
  Request,      \* request slots: how many requests are in flight at once
  Address,      \* e-mail addresses as users type them
  Canonical,    \* [Address -> Address]: strings.ToLower(strings.TrimSpace(_))
  Malformed,    \* addresses that are empty or have no "@"
  Password,     \* plaintext passwords
  Weak,         \* passwords shorter than minPasswordLen (8)
  Overlong,     \* passwords bcrypt refuses to hash (more than 72 bytes)
  UserId,       \* user ids (uuid.NewString)
  Token,        \* 32-byte random tokens (crypto/rand)
  None          \* the absent value

Purpose == {"verify_email", "password_reset"}

\* A row of the users table; the columns that carry no rule are left out.  A
\* bcrypt hash is represented by the password it was computed from.
Row == [email : Address, verified : BOOLEAN, hash : Password]

\* What Redis stores under token:<purpose>:<token>.
Grant == [purpose : Purpose, user : UserId]

ASSUME CanonicalAssumption ==
  /\ Canonical \in [Address -> Address]
  /\ \A a \in Address : Canonical[Canonical[a]] = Canonical[a]

ASSUME NoneAssumption ==
  None \notin Row \cup Grant \cup UserId \cup Token \cup Address \cup Password

VARIABLES
  users,    \* the users table: [UserId -> Row or None]
  minted,   \* what each token was issued for: [Token -> Grant or None]
  live,     \* tokens whose key is still in Redis
  sent,     \* tokens whose link was handed to the mailer
  redeemed, \* history: tokens whose key a GETDEL found (a key may also time out)
  req       \* the request in each slot

vars == <<users, minted, live, sent, redeemed, req>>

Op == {"register", "verify", "forgot", "reset", "login"}

\* The call a request makes next; at "reply" only the answer is left.
Pc == {"idle", "lookup", "create", "issue", "send", "consume", "load",
       "update", "reply", "done"}

\* The answers the handlers tell apart; every other error is "error", which
\* the pages show as "Something went wrong. Please try again."
Result == {"pending", "ok", "exists", "invalid", "denied", "unverified", "error"}

ReqState ==
  [op : Op, pc : Pc, res : Result,
   email : Address \cup {None}, password : Password \cup {None},
   token : Token \cup {None}, uid : UserId \cup {None},
   row : Row \cup {None}]

Blank == [op |-> "login", pc |-> "idle", res |-> "pending", email |-> None,
          password |-> None, token |-> None, uid |-> None, row |-> None]

Init ==
  /\ users = [u \in UserId |-> None]
  /\ minted = [t \in Token |-> None]
  /\ live = {}
  /\ sent = {}
  /\ redeemed = {}
  /\ req = [r \in Request |-> Blank]

-----------------------------------------------------------------------------
(* The stores and the rules the use cases apply to them.  A definition      *)
(* named Faulty... is a variant with a plausible bug; nothing uses it but   *)
(* the mutation runs.                                                       *)

Accounts == {u \in UserId : users[u] # None}

\* The users whose row has this address (FindByEmail).
WithEmail(e) == {u \in Accounts : users[u].email = e}

\* The UNIQUE constraint on users.email accepts the insert.
FaultyInsertable(e) == TRUE
Insertable(e) == WithEmail(e) = {}

NewRow(e, p) == [email |-> e, verified |-> FALSE, hash |-> p]

\* The key made of this purpose and this token is in Redis.
FaultyRedeemable(t, purpose) == t \in live
StaleRedeemable(t, purpose) == minted[t].purpose = purpose
Redeemable(t, purpose) == t \in live /\ minted[t].purpose = purpose

\* GETDEL removes the key it read.
FaultyWithoutKey(t) == live
WithoutKey(t) == live \ {t}

\* The full row that VerifyEmail and ResetPassword write back: the one they
\* read, with one field replaced.
FaultyChanged(q) == [q.row EXCEPT !.hash = q.password]
Changed(q) == IF q.op = "verify" THEN [q.row EXCEPT !.verified = TRUE]
                                 ELSE [q.row EXCEPT !.hash = q.password]

\* Authenticate's answer for the row it read.
FaultyVerdict(row, p) == IF row.hash # p THEN "denied" ELSE "ok"
Verdict(row, p) == IF row.hash # p THEN "denied"
                   ELSE IF row.verified THEN "ok" ELSE "unverified"

PurposeOf(op) == IF op \in {"register", "verify"} THEN "verify_email"
                                                  ELSE "password_reset"

-----------------------------------------------------------------------------
(* Requests: arrival, progress and the answer.                              *)

Active(r) == req[r].pc \notin {"idle", "done"}
At(r, op, pc) == req[r].op = op /\ req[r].pc = pc

Goto(r, pc) == req' = [req EXCEPT ![r].pc = pc]

\* The handler answers; what it had read is garbage.  What a success was about is
\* kept for the properties, and whose account a sign-up made.
Answered(q, res) == [q EXCEPT !.pc = "done", !.res = res,
                      !.email = None, !.password = None, !.row = None,
                      !.token = IF res = "ok" /\ q.op \in {"verify", "reset"}
                                 THEN @ ELSE None,
                      !.uid = IF q.op = "forgot" THEN None ELSE @]
Answer(r, res) == req' = [req EXCEPT ![r] = Answered(req[r], res)]

\* Bound: a request that will need a token starts while one is left for it.
TokenToSpare ==
  Cardinality({r \in Request : req[r].pc \in {"lookup", "create", "issue"}
                               /\ req[r].op \in {"register", "forgot"}})
    < Cardinality({t \in Token : minted[t] = None})

\* POST /signup, POST /register: the input is checked before any call.
BeginRegister(r, a, p) ==
  /\ ~ Active(r)
  /\ TokenToSpare
  /\ req' = [req EXCEPT ![r] =
       IF Canonical[a] \in Malformed \/ p \in Weak
       THEN [Blank EXCEPT !.op = "register", !.pc = "done", !.res = "invalid"]
       ELSE [Blank EXCEPT !.op = "register", !.pc = "lookup",
                          !.email = Canonical[a], !.password = p]]
  /\ UNCHANGED <<users, minted, live, sent, redeemed>>

\* POST /forgot-password, POST /password-reset/request
BeginForgot(r, a) ==
  /\ ~ Active(r)
  /\ TokenToSpare
  /\ req' = [req EXCEPT ![r] = [Blank EXCEPT !.op = "forgot", !.pc = "lookup",
                                             !.email = Canonical[a]]]
  /\ UNCHANGED <<users, minted, live, sent, redeemed>>

\* The password check of POST /login
BeginLogin(r, a, p) ==
  /\ ~ Active(r)
  /\ req' = [req EXCEPT ![r] = [Blank EXCEPT !.op = "login", !.pc = "lookup",
                                  !.email = Canonical[a], !.password = p]]
  /\ UNCHANGED <<users, minted, live, sent, redeemed>>

\* GET /verify-email: somebody opens a mailed link, perhaps not for the first
\* time, perhaps with the token of the other kind of link.
BeginVerify(r, t) ==
  /\ ~ Active(r)
  /\ t \in sent
  /\ req' = [req EXCEPT ![r] = [Blank EXCEPT !.op = "verify", !.pc = "consume",
                                             !.token = t]]
  /\ UNCHANGED <<users, minted, live, sent, redeemed>>

\* POST /reset-password, POST /password-reset/confirm
BeginReset(r, t, p) ==
  /\ ~ Active(r)
  /\ t \in sent
  /\ req' = [req EXCEPT ![r] =
       IF p \in Weak
       THEN [Blank EXCEPT !.op = "reset", !.pc = "done", !.res = "invalid"]
       ELSE [Blank EXCEPT !.op = "reset", !.pc = "consume",
                          !.token = t, !.password = p]]
  /\ UNCHANGED <<users, minted, live, sent, redeemed>>

Begin(r) ==
  \/ \E a \in Address, p \in Password : BeginRegister(r, a, p)
  \/ \E a \in Address : BeginForgot(r, a)
  \/ \E a \in Address, p \in Password : BeginLogin(r, a, p)
  \/ \E t \in Token : BeginVerify(r, t)
  \/ \E t \in Token, p \in Password : BeginReset(r, t, p)

-----------------------------------------------------------------------------
(* One action per call.                                                     *)

\* RegisterUser: FindByEmail, then Hash, which is local and refuses an
\* overlong password.
RegisterLookup(r) ==
  /\ At(r, "register", "lookup")
  /\ \/ WithEmail(req[r].email) # {} /\ Answer(r, "exists")
     \/ /\ WithEmail(req[r].email) = {}
        /\ IF req[r].password \in Overlong THEN Answer(r, "error")
                                           ELSE Goto(r, "create")
  /\ UNCHANGED <<users, minted, live, sent, redeemed>>

\* UserRepository.Create under a fresh id; a unique violation is ErrUserExists.
RegisterCreate(r) ==
  /\ At(r, "register", "create")
  /\ \/ /\ ~ Insertable(req[r].email)
        /\ Answer(r, "exists")
        /\ UNCHANGED users
     \/ /\ Insertable(req[r].email)
        /\ \E u \in UserId \ Accounts :
             /\ users' = [users EXCEPT ![u] = NewRow(req[r].email, req[r].password)]
             /\ req' = [req EXCEPT ![r].pc = "issue", ![r].uid = u]
  /\ UNCHANGED <<minted, live, sent, redeemed>>

\* RequestPasswordReset: FindByEmail; an unknown address is answered like a
\* known one.
ForgotLookup(r) ==
  /\ At(r, "forgot", "lookup")
  /\ \/ WithEmail(req[r].email) = {} /\ Answer(r, "ok")
     \/ \E u \in WithEmail(req[r].email) :
          req' = [req EXCEPT ![r].pc = "issue", ![r].uid = u]
  /\ UNCHANGED <<users, minted, live, sent, redeemed>>

\* TokenStore.Issue: SET of a fresh random token with its TTL.
Issue(r) ==
  /\ req[r].pc = "issue"
  /\ \E t \in Token :
       /\ minted[t] = None
       /\ minted' = [minted EXCEPT ![t] = [purpose |-> PurposeOf(req[r].op),
                                           user |-> req[r].uid]]
       /\ live' = live \cup {t}
       /\ req' = [req EXCEPT ![r].pc = "send", ![r].token = t]
  /\ UNCHANGED <<users, sent, redeemed>>

\* Mailer.SendVerification, Mailer.SendPasswordReset
Send(r) ==
  /\ req[r].pc = "send"
  /\ sent' = sent \cup {req[r].token}
  /\ Goto(r, "reply")
  /\ UNCHANGED <<users, minted, live, redeemed>>

\* TokenStore.Consume: one atomic GETDEL.
Consume(r) ==
  /\ req[r].pc = "consume"
  /\ LET t == req[r].token IN
       \/ /\ Redeemable(t, PurposeOf(req[r].op))
          /\ live' = WithoutKey(t)
          /\ redeemed' = redeemed \cup ({t} \cap live)
          /\ req' = [req EXCEPT ![r].pc = "load", ![r].uid = minted[t].user]
       \/ /\ ~ Redeemable(t, PurposeOf(req[r].op))
          /\ Answer(r, "invalid")
          /\ UNCHANGED <<live, redeemed>>
  /\ UNCHANGED <<users, minted, sent>>

\* UserRepository.FindByID; ResetPassword then hashes the new password, after
\* the token is gone.  No code deletes a user, so the row is there.
Load(r) ==
  /\ req[r].pc = "load"
  /\ req[r].uid \in Accounts
  /\ IF req[r].op = "reset" /\ req[r].password \in Overlong
     THEN Answer(r, "error")
     ELSE req' = [req EXCEPT ![r].pc = "update", ![r].row = users[req[r].uid]]
  /\ UNCHANGED <<users, minted, live, sent, redeemed>>

\* UserRepository.Update overwrites every column of the row.
Update(r) ==
  /\ req[r].pc = "update"
  /\ users' = [users EXCEPT ![req[r].uid] = Changed(req[r])]
  /\ req' = [req EXCEPT ![r].pc = "reply", ![r].row = None]
  /\ UNCHANGED <<minted, live, sent, redeemed>>

\* Authenticate: one read, and the answer computed from it.
Login(r) ==
  /\ At(r, "login", "lookup")
  /\ \/ WithEmail(req[r].email) = {} /\ Answer(r, "denied")
     \/ \E u \in WithEmail(req[r].email) :
          req' = [req EXCEPT ![r] = [Answered(req[r],
                                       Verdict(users[u], req[r].password))
                                     EXCEPT !.uid = u]]
  /\ UNCHANGED <<users, minted, live, sent, redeemed>>

\* Every call succeeded.
Reply(r) ==
  /\ req[r].pc = "reply"
  /\ Answer(r, "ok")
  /\ UNCHANGED <<users, minted, live, sent, redeemed>>

Step(r) ==
  \/ RegisterLookup(r) \/ RegisterCreate(r) \/ ForgotLookup(r) \/ Login(r)
  \/ Issue(r) \/ Send(r) \/ Consume(r) \/ Load(r) \/ Update(r) \/ Reply(r)

-----------------------------------------------------------------------------
(* What the surroundings may do.                                            *)

\* The call a request is waiting for fails, or its reply is lost: the handler
\* returns the error.  A lost reply is the call's own step followed by Abort.
\* The page behind "forgot your password?" confirms all the same; its JSON twin
\* reports the error.
Abort(r) ==
  /\ Active(r)
  /\ \/ Answer(r, "error")
     \/ req[r].op = "forgot" /\ Answer(r, "ok")
  /\ UNCHANGED <<users, minted, live, sent, redeemed>>

\* The process dies: nobody is answered, the stores stay.
Crash ==
  /\ \E r \in Request : Active(r)
  /\ req' = [r \in Request |-> IF Active(r) THEN Blank ELSE req[r]]
  /\ UNCHANGED <<users, minted, live, sent, redeemed>>

\* A key's TTL (24 h, 1 h) runs out.
Expire(t) ==
  /\ t \in live
  /\ live' = live \ {t}
  /\ UNCHANGED <<users, minted, sent, redeemed, req>>

Next ==
  \/ \E r \in Request : Begin(r) \/ Step(r) \/ Abort(r)
  \/ Crash
  \/ \E t \in Token : Expire(t)

Spec == Init /\ [][Next]_vars

\* A goroutine that is not stopped makes its next call, and every call returns
\* (the code sets no limit on how often a client comes back).
Fairness == \A r \in Request : WF_vars(Step(r))
FairSpec == Spec /\ Fairness

-----------------------------------------------------------------------------
(* Properties.                                                              *)

TypeOK ==
  /\ users \in [UserId -> Row \cup {None}]
  /\ minted \in [Token -> Grant \cup {None}]
  /\ live \subseteq Token
  /\ sent \subseteq Token
  /\ redeemed \subseteq Token
  /\ req \in [Request -> ReqState]

\* Two sign-ups of one address, however spelled and however interleaved
\* between the look-up and the insert, leave at most one account.
OneAccountPerAddress ==
  \A u, v \in Accounts :
    Canonical[users[u].email] = Canonical[users[v].email] => u = v

\* The request has redeemed its token and may change, or has changed, a row.
HasRedeemed(r) ==
  /\ req[r].op \in {"verify", "reset"}
  /\ \/ req[r].pc \in {"load", "update", "reply"}
     \/ req[r].pc = "done" /\ req[r].res = "ok"

\* A mailed link works for one request only, however many open it at once.
LinkRedeemedOnce ==
  \A r, s \in Request :
    HasRedeemed(r) /\ HasRedeemed(s) /\ req[r].token = req[s].token => r = s

\* Somebody opened the verification link mailed to this user while it was good: a
\* link that only timed out proves nothing.
Proved(u) ==
  \E t \in sent \cap redeemed :
    minted[t] = [purpose |-> "verify_email", user |-> u]

\* A successful password check is only ever given to a user whose verification
\* link was opened before it ran out, through every stale write of the row.
LoginNeedsProof ==
  \A r \in Request :
    At(r, "login", "done") /\ req[r].res = "ok" => Proved(req[r].uid)

\* A step changes the row of an existing account only on behalf of a request
\* that redeemed a link of the right kind mailed to that very user.
ChangeNeedsOwnLink ==
  [][\A u \in Accounts :
       users'[u] # users[u] =>
         \E r \in Request :
           /\ HasRedeemed(r)
           /\ req[r].token \in sent \cap redeemed
           /\ minted[req[r].token] =
                [purpose |-> PurposeOf(req[r].op), user |-> u]]_vars

\* Seen from outside, a link is valid, taken by a request that may still have
\* its effect, spent by one that is over, or lapsed: it ran out untaken.
ASSUME LinkAssumption ==
  None \notin [purpose : Purpose, user : UserId,
               st : {"valid", "taken", "spent", "lapsed"}]

Held(t) ==
  \E r \in Request : req[r].token = t /\ req[r].pc \in {"load", "update"}
Stage(t) ==
  IF t \in live THEN "valid"
  ELSE IF t \notin redeemed THEN "lapsed" ELSE IF Held(t) THEN "taken" ELSE "spent"
LinkOf(t) ==
  IF minted[t] = None THEN None
  ELSE [purpose |-> minted[t].purpose, user |-> minted[t].user, st |-> Stage(t)]

\* Calls, retries, failures and stale rows do not show: links and accounts behave
\* like those of AccountBook, where a link is taken once and changes the account
\* it was issued for once.
Book == INSTANCE AccountBook WITH
          Link <- Token, links <- [t \in Token |-> LinkOf(t)]
LinksWorkOnce == Book!Spec

\* A link that was redeemed is never lost in silence: the account becomes
\* verified, or gets the new password, or the request ends without reporting
\* success.
RedeemedLinkIsSettled ==
  \A r \in Request, u \in UserId :
    /\ At(r, "verify", "load") /\ req[r].uid = u
         ~> \/ users[u] # None /\ users[u].verified
            \/ ~ Active(r) /\ req[r].res # "ok"
    /\ \A p \in Password :
         At(r, "reset", "load") /\ req[r].uid = u /\ req[r].password = p
           ~> \/ users[u] # None /\ users[u].hash = p
              \/ ~ Active(r) /\ req[r].res # "ok"

\* Public pages: "Your email has been verified.", "Your password has been
\* updated."  What was confirmed lasts: a verification leaves the password alone,
\* a reset leaves the verification alone.
OtherFieldIsKept ==
  [][\A r \in Request :
       req[r].pc = "update" /\ req'[r].pc = "reply" =>
         LET u == req[r].uid IN
         IF req[r].op = "verify" THEN users'[u].hash = users[u].hash
                                 ELSE users'[u].verified = users[u].verified]_vars

\* Public page after a failure: "Something went wrong. Please try again."  A
\* sign-up that is told so has left no account that would refuse the retry.
FailedSignupLeavesNoAccount ==
  \A r \in Request :
    At(r, "register", "done") /\ req[r].res = "error" => req[r].uid = None

=============================================================================
