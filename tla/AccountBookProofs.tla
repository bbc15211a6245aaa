------------------------- MODULE AccountBookProofs --------------------------
(***************************************************************************)
(* Accounts implements AccountBook, for every set of requests, addresses,   *)
(* passwords, users and tokens: every step of a request either shows        *)
(* nothing, or is one step of the book.                                     *)
(***************************************************************************)
EXTENDS AccountsProofs

\* What the book shows of a link.
LEMMA LinkShape ==
  ASSUME IInv, NEW t \in Token, minted[t] # None
  PROVE  /\ LinkOf(t) = [purpose |-> minted[t].purpose, user |-> minted[t].user,
                         st |-> Stage(t)]
         /\ LinkOf(t) # None
<1>1. minted[t] \in Grant
  BY DEF IInv, TypeOK
<1>2. LinkOf(t) \in [purpose : Purpose, user : UserId,
                    st : {"valid", "taken", "spent", "lapsed"}]
  BY <1>1 DEF LinkOf, Stage, Grant
<1> QED
  BY <1>2, LinkAssumption DEF LinkOf

\* Only a request that redeemed a link holds it, and there is one.
LEMMA HolderOfLink ==
  ASSUME IInv, NEW r \in Request, req[r].pc \in {"load", "update"}
  PROVE  /\ req[r].token \in Token \ live /\ req[r].token \in redeemed
         /\ minted[req[r].token] =
              [purpose |-> PurposeOf(req[r].op), user |-> req[r].uid]
         /\ minted[req[r].token] # None
         /\ req[r].op \in {"verify", "reset"} /\ req[r].uid \in Accounts
         /\ \A s \in Request \ {r} :
              ~ (req[s].token = req[r].token /\ req[s].pc \in {"load", "update"})
<1>1. \A s \in Request : req[s].pc \in {"load", "update"} => HasRedeemed(s)
  BY DEF IInv, RequestInv, HasRedeemed
<1>2. HasRedeemed(r) /\ RequestInv(r)
  BY <1>1 DEF IInv
<1>3. /\ req[r].token \in sent /\ req[r].token \in Token
      /\ req[r].token \in redeemed /\ req[r].token \notin live
  BY <1>2 DEF RequestInv, IInv, TypeOK, StoreInv
<1>4. minted[req[r].token] # None
  BY <1>3 DEF IInv, StoreInv
<1>5. minted[req[r].token] = [purpose |-> PurposeOf(req[r].op), user |-> req[r].uid]
  BY <1>2 DEF RequestInv
<1>6. req[r].uid \in Accounts
  BY <1>3, <1>4, <1>5 DEF IInv, StoreInv
<1> QED
  BY <1>1, <1>2, <1>3, <1>4, <1>5, <1>6 DEF IInv, LinkRedeemedOnce, RequestInv

\* Requests that let go of links waste them.
LEMMA WasteStep ==
  ASSUME IInv, UNCHANGED <<users, minted, live, redeemed>>,
         \A t \in Token : Held(t)' => Held(t)
  PROVE  Book!Next
<1> DEFINE S == {t \in Token : LinkOf(t)' # LinkOf(t)}
<1>1. ASSUME NEW t \in Token, LinkOf(t)' # LinkOf(t)
      PROVE  /\ LinkOf(t) # None /\ LinkOf(t).st = "taken"
             /\ LinkOf(t)' = [LinkOf(t) EXCEPT !.st = "spent"]
  <2>1. minted[t] # None
    BY <1>1 DEF LinkOf
  <2>2. LinkOf(t) = [purpose |-> minted[t].purpose, user |-> minted[t].user,
                     st |-> Stage(t)]
    BY <2>1, LinkShape
  <2>3. LinkOf(t)' = [purpose |-> minted[t].purpose, user |-> minted[t].user,
                      st |-> Stage(t)']
    BY <2>1 DEF LinkOf
  <2>4. Stage(t) = "taken" /\ Stage(t)' = "spent"
    BY <1>1, <2>2, <2>3 DEF Stage
  <2> QED
    BY <2>1, <2>2, <2>3, <2>4, LinkShape
<1>2. Book!Waste
  <2> DEFINE before == [t \in Token |-> LinkOf(t)]
             after == [t \in Token |-> LinkOf(t)']
  <2>1. after = [t \in Token |-> IF t \in S THEN [before[t] EXCEPT !.st = "spent"]
                                             ELSE before[t]]
    BY <1>1
  <2>2. S \in SUBSET Token /\ \A t \in S : before[t] # None /\ before[t].st = "taken"
    BY <1>1
  <2>3. before' = after
    OBVIOUS
  <2> HIDE DEF S, after
  <2> QED
    BY <2>1, <2>2, <2>3 DEF Book!Waste
<1> QED
  BY <1>2 DEF Book!Next

\* A key that times out is a link that lapses.
LEMMA LapseStep ==
  ASSUME IInv, NEW t \in Token, Expire(t)
  PROVE  Book!Next
<1>1. t \in live /\ live' = live \ {t} /\ UNCHANGED <<users, minted, redeemed, req>>
  BY DEF Expire
<1>2. t \notin redeemed /\ minted[t] # None
  BY <1>1 DEF IInv, StoreInv
<1>3. \A x \in Token : Held(x)' <=> Held(x)
  BY <1>1 DEF Held
<1>4. \A x \in Token \ {t} : LinkOf(x)' = LinkOf(x)
  BY <1>1, <1>3 DEF LinkOf, Stage
<1>5. /\ LinkOf(t) = [purpose |-> minted[t].purpose, user |-> minted[t].user,
                      st |-> "valid"]
      /\ LinkOf(t) # None
  BY <1>1, <1>2, LinkShape DEF Stage
<1>6. LinkOf(t)' = [LinkOf(t) EXCEPT !.st = "lapsed"]
  BY <1>1, <1>2, <1>5 DEF LinkOf, Stage
<1>7. Book!Lapse(t)
  <2>1. [x \in Token |-> LinkOf(x)]'
          = [[x \in Token |-> LinkOf(x)] EXCEPT ![t].st = "lapsed"]
    BY <1>4, <1>6
  <2> QED
    BY <1>1, <1>5, <2>1 DEF Book!Lapse
<1> QED
  BY <1>7 DEF Book!Next

\* A step of one request that leaves the stores alone and takes no link.
LEMMA LetGo ==
  ASSUME IInv, UNCHANGED <<users, minted, live, redeemed>>, NEW r \in Request, NEW q,
         req' = [req EXCEPT ![r] = q],
         q.pc \in {"load", "update"} =>
           req[r].pc \in {"load", "update"} /\ q.token = req[r].token
  PROVE  Book!Next
<1>1. \A s \in Request : req'[s] = IF s = r THEN q ELSE req[s]
  BY DEF IInv, TypeOK
<1>2. \A t \in Token : Held(t)' => Held(t)
  BY <1>1 DEF Held
<1> QED
  BY <1>2, WasteStep

LEMMA AnswerHolds ==
  ASSUME IInv, NEW r \in Request, NEW res, Answer(r, res),
         UNCHANGED <<users, minted, live, redeemed>>
  PROVE  Book!Next
<1>1. Answered(req[r], res).pc = "done"
  BY DEF IInv, TypeOK, ReqState, Answered
<1> QED
  BY <1>1, LetGo DEF Answer

LEMMA OpenStep ==
  ASSUME IInv, NEW r \in Request, RegisterCreate(r)
  PROVE  Book!Next
<1> USE DEF IInv
<1>1. CASE Answer(r, "exists") /\ UNCHANGED users
  BY <1>1, AnswerHolds DEF RegisterCreate
<1>2. CASE ~ (Answer(r, "exists") /\ UNCHANGED users)
  <2>1. PICK u \in UserId \ Accounts :
          /\ users' = [users EXCEPT ![u] = NewRow(req[r].email, req[r].password)]
          /\ req' = [req EXCEPT ![r].pc = "issue", ![r].uid = u]
    BY <1>2 DEF RegisterCreate
  <2>2. WithEmail(req[r].email) = {} /\ UNCHANGED <<minted, live, redeemed>> /\ req[r].pc = "create"
    BY <1>2 DEF RegisterCreate, Insertable, At
  <2>3. req[r].email \in Address /\ req[r].password \in Password
    BY DEF RegisterCreate, RequestInv
  <2>4. \A s \in Request : /\ req'[s].pc = (IF s = r THEN "issue" ELSE req[s].pc)
                           /\ req'[s].token = req[s].token
    BY <2>1 DEF TypeOK, ReqState
  <2>5. \A t \in Token : Held(t)' <=> Held(t)
    BY <2>2, <2>4 DEF Held
  <2>6. \A t \in Token : LinkOf(t)' = LinkOf(t)
    BY <2>2, <2>5 DEF LinkOf, Stage
  <2>7. Book!Open
    BY <2>1, <2>2, <2>3, <2>6 DEF Book!Open, NewRow, WithEmail, Accounts
  <2> QED
    BY <2>7 DEF Book!Next
<1> QED
  BY <1>1, <1>2

LEMMA IssueStep ==
  ASSUME IInv, NEW r \in Request, Issue(r)
  PROVE  Book!Next
<1> USE DEF IInv
<1>1. PICK t \in Token :
        /\ minted[t] = None
        /\ minted' = [minted EXCEPT ![t] = [purpose |-> PurposeOf(req[r].op),
                                            user |-> req[r].uid]]
        /\ live' = live \cup {t}
        /\ req' = [req EXCEPT ![r].pc = "send", ![r].token = t]
        /\ req[r].pc = "issue" /\ UNCHANGED <<users, redeemed>>
  BY DEF Issue
<1> DEFINE g == [purpose |-> PurposeOf(req[r].op), user |-> req[r].uid]
<1>2. req[r].uid \in Accounts /\ g \in Grant /\ g # None
  <2>1. req[r].uid \in Accounts /\ req[r].uid \in UserId
    BY <1>1 DEF RequestInv, Accounts
  <2>2. PurposeOf(req[r].op) \in Purpose
    BY DEF PurposeOf, Purpose
  <2>3. g \in Grant
    BY <2>1, <2>2 DEF Grant
  <2> QED
    BY <2>1, <2>3, NoneAssumption
<1>3. /\ minted'[t] = g /\ \A x \in Token \ {t} : minted'[x] = minted[x]
      /\ t \in live' /\ \A x \in Token \ {t} : x \in live' <=> x \in live
  BY <1>1 DEF TypeOK
<1>4. \A s \in Request :
        /\ req'[s].pc = (IF s = r THEN "send" ELSE req[s].pc)
        /\ req'[s].token = (IF s = r THEN t ELSE req[s].token)
  BY <1>1 DEF TypeOK, ReqState
<1>5. \A x \in Token \ {t} : Held(x)' <=> Held(x)
  BY <1>1, <1>4 DEF Held
<1>6. \A x \in Token \ {t} : LinkOf(x)' = LinkOf(x)
  BY <1>1, <1>3, <1>5 DEF LinkOf, Stage
<1>7. LinkOf(t) = None
  BY <1>1 DEF LinkOf
<1>8. LinkOf(t)' = [st |-> "valid", purpose |-> g.purpose, user |-> g.user]
  BY <1>2, <1>3 DEF LinkOf, Stage
<1>9. Book!Issue(t)
  <2>1. users[req[r].uid] # None /\ req[r].uid \in UserId /\ PurposeOf(req[r].op) \in Purpose
    BY <1>2 DEF Accounts, Grant
  <2>2. Book!Purpose = Purpose
    BY DEF Purpose, Book!Purpose
  <2>3. [x \in Token |-> LinkOf(x)]'
          = [[x \in Token |-> LinkOf(x)] EXCEPT
               ![t] = [st |-> "valid", purpose |-> g.purpose, user |-> g.user]]
    BY <1>6, <1>8
  <2> QED
    BY <1>1, <1>7, <2>1, <2>2, <2>3 DEF Book!Issue
<1> QED
  BY <1>1, <1>9 DEF Book!Next

LEMMA TakeStep ==
  ASSUME IInv, NEW r \in Request, Consume(r)
  PROVE  Book!Next
<1> USE DEF IInv
<1> PICK t : t = req[r].token
  OBVIOUS
<1>1. CASE Answer(r, "invalid") /\ UNCHANGED <<live, redeemed>>
  BY <1>1, AnswerHolds DEF Consume
<1>2. CASE ~ (Answer(r, "invalid") /\ UNCHANGED <<live, redeemed>>)
  <2>1. /\ t \in live /\ live' = live \ {t} /\ redeemed' = redeemed \cup {t}
        /\ UNCHANGED <<users, minted>>
        /\ req' = [req EXCEPT ![r].pc = "load", ![r].uid = minted[t].user]
        /\ req[r].pc = "consume"
    BY <1>2 DEF Consume, Redeemable, WithoutKey
  <2>2. t \in Token /\ minted[t] # None
    BY <2>1 DEF TypeOK, StoreInv
  <2>3. \A s \in Request : /\ req'[s].pc = (IF s = r THEN "load" ELSE req[s].pc)
                           /\ req'[s].token = req[s].token
    BY <2>1 DEF TypeOK, ReqState
  <2>4. Held(t)' /\ \A x \in Token \ {t} : Held(x)' <=> Held(x)
    BY <2>1, <2>3 DEF Held
  <2>5. \A x \in Token \ {t} : LinkOf(x)' = LinkOf(x)
    BY <2>1, <2>4 DEF LinkOf, Stage
  <2>6. /\ LinkOf(t) = [purpose |-> minted[t].purpose, user |-> minted[t].user,
                        st |-> "valid"]
        /\ LinkOf(t) # None
    BY <2>1, <2>2, LinkShape DEF Stage
  <2>7. LinkOf(t)' = [LinkOf(t) EXCEPT !.st = "taken"]
    BY <2>1, <2>2, <2>4, <2>6 DEF LinkOf, Stage
  <2>8. Book!Take(t)
    BY <2>1, <2>2, <2>5, <2>6, <2>7 DEF Book!Take
  <2> QED
    BY <2>2, <2>8 DEF Book!Next
<1> QED
  BY <1>1, <1>2

LEMMA ChangeStep ==
  ASSUME IInv, NEW r \in Request, Update(r)
  PROVE  Book!Next
<1> USE DEF IInv
<1> PICK t, u, new : t = req[r].token /\ u = req[r].uid /\ new = Changed(req[r])
  OBVIOUS
<1>1. /\ req[r].pc = "update" /\ UNCHANGED <<minted, live, redeemed>>
      /\ users' = [users EXCEPT ![u] = new]
      /\ req' = [req EXCEPT ![r].pc = "reply", ![r].row = None]
  BY DEF Update
<1>2. /\ t \in Token \ live /\ t \in redeemed /\ minted[t] # None
      /\ minted[t] = [purpose |-> PurposeOf(req[r].op), user |-> u]
      /\ req[r].op \in {"verify", "reset"} /\ u \in Accounts
      /\ \A s \in Request \ {r} : ~ (req[s].token = t /\ req[s].pc \in {"load", "update"})
  BY <1>1, HolderOfLink
<1>3. /\ req[r].row \in Row /\ req[r].row.email = users[u].email
      /\ req[r].row.verified => Proved(u)
      /\ req[r].op = "reset" => req[r].password \in Password
  BY <1>1 DEF RequestInv
<1>4. \A s \in Request : /\ req'[s].pc = (IF s = r THEN "reply" ELSE req[s].pc)
                         /\ req'[s].token = req[s].token
  BY <1>1 DEF TypeOK, ReqState
<1>5. ~ Held(t)' /\ Held(t) /\ \A x \in Token \ {t} : Held(x)' <=> Held(x)
  <2>1. Held(t)
    BY <1>1 DEF Held
  <2>2. ~ Held(t)'
    <3>1. req'[r].pc = "reply"
      BY <1>4
    <3>2. \A s \in Request \ {r} : ~ (req'[s].token = t /\ req'[s].pc \in {"load", "update"})
      BY <1>2, <1>4
    <3> QED
      BY <3>1, <3>2 DEF Held
  <2>3. \A s \in Request \ {r} : req'[s].pc = req[s].pc /\ req'[s].token = req[s].token
    BY <1>4
  <2>4. req'[r].token = t /\ req[r].token = t
    BY <1>4
  <2>5. \A x \in Token \ {t} : Held(x)' <=> Held(x)
    BY <2>3, <2>4 DEF Held
  <2> QED
    BY <2>1, <2>2, <2>5
<1>6. \A x \in Token \ {t} : LinkOf(x)' = LinkOf(x)
  BY <1>1, <1>5 DEF LinkOf, Stage
<1>7. /\ LinkOf(t) = [purpose |-> PurposeOf(req[r].op), user |-> u, st |-> "taken"]
      /\ LinkOf(t) # None
  BY <1>2, <1>5, LinkShape DEF Stage
<1>8. LinkOf(t)' = [LinkOf(t) EXCEPT !.st = "spent"]
  BY <1>1, <1>2, <1>5, <1>7 DEF LinkOf, Stage
<1>9. /\ new.verified \in BOOLEAN /\ new.hash \in Password
      /\ new = [email |-> users[u].email, verified |-> new.verified, hash |-> new.hash]
      /\ req[r].op = "verify" => new.verified
      /\ req[r].op = "reset" => new.verified = req[r].row.verified
  BY <1>2, <1>3 DEF Changed, Row
<1>10. users[u] \in Row
  BY <1>2 DEF TypeOK, Accounts
<1>11. users' = [users EXCEPT ![u].verified = new.verified, ![u].hash = new.hash]
  <2>1. new = [users[u] EXCEPT !.verified = new.verified, !.hash = new.hash]
    <3>1. PICK e, v, h : users[u] = [email |-> e, verified |-> v, hash |-> h]
      BY <1>10 DEF Row
    <3>2. PICK w, p : w = new.verified /\ p = new.hash
      OBVIOUS
    <3>3. new = [email |-> e, verified |-> w, hash |-> p]
      BY <1>9, <3>1, <3>2
    <3> DEFINE marked == [email |-> e, verified |-> w, hash |-> h]
    <3>4. [users[u] EXCEPT !.verified = w] = marked /\ [marked EXCEPT !.hash = p] = new
      <4>1. [users[u] EXCEPT !.verified = w] = marked
        BY <3>1
      <4>2. [marked EXCEPT !.hash = p] = new
        BY <3>3
      <4> QED
        BY <4>1, <4>2
    <3>5. [users[u] EXCEPT !.verified = w, !.hash = p] = new
      BY <3>4
    <3> QED
      BY <3>2, <3>5
  <2> QED
    BY <1>1, <1>2, <2>1 DEF TypeOK, Accounts
<1>12. new.verified => Book!Proved(u)
  <2>1. CASE req[r].op = "verify"
    BY <1>2, <1>7, <2>1 DEF Book!Proved, PurposeOf
  <2>2. CASE req[r].op = "reset" /\ req[r].row.verified
    <3>1. PICK x \in sent \cap redeemed : minted[x] = [purpose |-> "verify_email", user |-> u]
      BY <1>3, <2>2 DEF Proved
    <3>2. x \in Token /\ minted[x] # None /\ x \notin live
      BY <3>1 DEF TypeOK, StoreInv
    <3>3. /\ LinkOf(x) # None /\ LinkOf(x).purpose = "verify_email"
          /\ LinkOf(x).user = u /\ LinkOf(x).st \in {"taken", "spent"}
      BY <3>1, <3>2, LinkShape DEF Stage
    <3> QED
      BY <3>2, <3>3 DEF Book!Proved
  <2> QED
    BY <1>2, <1>9, <2>1, <2>2
<1>13. Book!Change(t)
  <2>1. [x \in Token |-> LinkOf(x)]'
          = [[x \in Token |-> LinkOf(x)] EXCEPT ![t].st = "spent"]
    BY <1>2, <1>6, <1>8
  <2>2. LinkOf(t).purpose = "verify_email" => new.verified
    BY <1>2, <1>7, <1>9 DEF PurposeOf
  <2>3. LinkOf(t) # None /\ LinkOf(t).st = "taken" /\ LinkOf(t).user = u
    BY <1>7
  <2>4. [x \in Token |-> LinkOf(x)][t] = LinkOf(t)
    BY <1>2
  <2>5. new.verified \in BOOLEAN /\ new.hash \in Password
    BY <1>9
  <2> QED
    <3> DEFINE links == [x \in Token |-> LinkOf(x)]
    <3>1. links[t] # None /\ links[t].st = "taken" /\ links[t].user = u
      BY <2>3, <2>4
    <3>2. links[t].purpose = "verify_email" => new.verified
      BY <2>2, <2>4
    <3>3. links' = [links EXCEPT ![t].st = "spent"]
      BY <2>1
    <3> HIDE DEF links
    <3>4. \E verified \in BOOLEAN, p \in Password :
            /\ links[t].purpose = "verify_email" => verified
            /\ verified => Book!Proved(u)
            /\ users' = [users EXCEPT ![u].verified = verified, ![u].hash = p]
      BY <1>11, <1>12, <2>5, <3>2
    <3>5. \E verified \in BOOLEAN, p \in Password :
            /\ links[t].purpose = "verify_email" => verified
            /\ verified => Book!Proved(links[t].user)
            /\ users' = [users EXCEPT ![links[t].user].verified = verified,
                                     ![links[t].user].hash = p]
      BY <3>1, <3>4
    <3> QED
      BY <3>1, <3>3, <3>5 DEF links, Book!Change
<1> QED
  BY <1>2, <1>13 DEF Book!Next

LEMMA BeginHolds ==
  ASSUME IInv, NEW r \in Request, Begin(r)
  PROVE  Book!Next
<1>1. UNCHANGED <<users, minted, live, redeemed>>
  BY DEF Begin, BeginRegister, BeginForgot, BeginLogin, BeginVerify, BeginReset
<1>2. \E q : req' = [req EXCEPT ![r] = q] /\ q.pc \in {"done", "lookup", "consume"}
  <2> DEFINE Fresh(q) == q.pc \in {"done", "lookup", "consume"}
             Sets == \E q : Fresh(q) /\ req' = [req EXCEPT ![r] = q]
  <2>1. ASSUME NEW a \in Address, NEW p \in Password, BeginRegister(r, a, p) PROVE Sets
    <3> DEFINE q1 == [Blank EXCEPT !.op = "register", !.pc = "done", !.res = "invalid"]
               q2 == [Blank EXCEPT !.op = "register", !.pc = "lookup",
                                   !.email = Canonical[a], !.password = p]
    <3>1. Fresh(q1) /\ Fresh(q2)
      BY DEF Blank
    <3>2. req' = [req EXCEPT ![r] = q1] \/ req' = [req EXCEPT ![r] = q2]
      BY <2>1 DEF BeginRegister
    <3> HIDE DEF q1, q2, Fresh
    <3> QED
      BY <3>1, <3>2
  <2>2. ASSUME NEW a \in Address, BeginForgot(r, a) PROVE Sets
    <3> DEFINE q == [Blank EXCEPT !.op = "forgot", !.pc = "lookup", !.email = Canonical[a]]
    <3>1. Fresh(q) /\ req' = [req EXCEPT ![r] = q]
      BY <2>2 DEF BeginForgot, Blank
    <3> HIDE DEF q, Fresh
    <3> QED
      BY <3>1
  <2>3. ASSUME NEW a \in Address, NEW p \in Password, BeginLogin(r, a, p) PROVE Sets
    <3> DEFINE q == [Blank EXCEPT !.op = "login", !.pc = "lookup",
                                  !.email = Canonical[a], !.password = p]
    <3>1. Fresh(q) /\ req' = [req EXCEPT ![r] = q]
      BY <2>3 DEF BeginLogin, Blank
    <3> HIDE DEF q, Fresh
    <3> QED
      BY <3>1
  <2>4. ASSUME NEW t \in Token, BeginVerify(r, t) PROVE Sets
    <3> DEFINE q == [Blank EXCEPT !.op = "verify", !.pc = "consume", !.token = t]
    <3>1. Fresh(q) /\ req' = [req EXCEPT ![r] = q]
      BY <2>4 DEF BeginVerify, Blank
    <3> HIDE DEF q, Fresh
    <3> QED
      BY <3>1
  <2>5. ASSUME NEW t \in Token, NEW p \in Password, BeginReset(r, t, p) PROVE Sets
    <3> DEFINE q1 == [Blank EXCEPT !.op = "reset", !.pc = "done", !.res = "invalid"]
               q2 == [Blank EXCEPT !.op = "reset", !.pc = "consume",
                                   !.token = t, !.password = p]
    <3>1. Fresh(q1) /\ Fresh(q2)
      BY DEF Blank
    <3>2. req' = [req EXCEPT ![r] = q1] \/ req' = [req EXCEPT ![r] = q2]
      BY <2>5 DEF BeginReset
    <3> HIDE DEF q1, q2, Fresh
    <3> QED
      BY <3>1, <3>2
  <2> QED
    BY <2>1, <2>2, <2>3, <2>4, <2>5 DEF Begin
<1> QED
  <2>1. PICK q : req' = [req EXCEPT ![r] = q] /\ q.pc \in {"done", "lookup", "consume"}
    BY <1>2
  <2> QED
    BY <1>1, <2>1, LetGo

\* The calls that neither take a link nor change an account.
LEMMA QuietStep ==
  ASSUME IInv, NEW r \in Request,
         RegisterLookup(r) \/ ForgotLookup(r) \/ Login(r) \/ Send(r) \/ Load(r) \/ Reply(r)
  PROVE  Book!Next
<1>1. UNCHANGED <<users, minted, live, redeemed>>
  BY DEF RegisterLookup, ForgotLookup, Login, Send, Load, Reply
<1>2. CASE \E res : Answer(r, res)
  BY <1>1, <1>2, AnswerHolds
<1>3. CASE ~ \E res : Answer(r, res)
  <2>1. req[r] \in ReqState
    BY DEF IInv, TypeOK
  <2>2. CASE RegisterLookup(r)
    BY <1>1, <1>3, <2>1, <2>2, LetGo DEF RegisterLookup, Goto, ReqState
  <2>3. CASE ForgotLookup(r)
    BY <1>1, <1>3, <2>1, <2>3, LetGo DEF ForgotLookup, ReqState
  <2>4. CASE Login(r)
    <3>1. PICK u : req' = [req EXCEPT ![r] = [Answered(req[r],
                             Verdict(users[u], req[r].password)) EXCEPT !.uid = u]]
      BY <1>3, <2>4 DEF Login
    <3>2. PICK q : q = [Answered(req[r], Verdict(users[u], req[r].password))
                        EXCEPT !.uid = u]
      OBVIOUS
    <3>3. q.pc = "done"
      BY <2>1, <3>2 DEF Answered, ReqState
    <3> QED
      BY <1>1, <3>1, <3>2, <3>3, LetGo
  <2>5. CASE Send(r)
    BY <1>1, <2>1, <2>5, LetGo DEF Send, Goto, ReqState
  <2>6. CASE Load(r)
    BY <1>1, <1>3, <2>1, <2>6, LetGo DEF Load, ReqState
  <2> QED
    BY <1>3, <2>2, <2>3, <2>4, <2>5, <2>6 DEF Reply
<1> QED
  BY <1>2, <1>3

LEMMA NextStep ==
  ASSUME IInv, [Next]_vars
  PROVE  [Book!Next]_(Book!vars)
<1>1. ASSUME NEW r \in Request, Begin(r) \/ Step(r) \/ Abort(r) PROVE Book!Next
  BY <1>1, BeginHolds, QuietStep, OpenStep, IssueStep, TakeStep, ChangeStep, AnswerHolds
     DEF Step, Abort
<1>2. CASE Crash
  <2>1. \A s \in Request : req'[s] = IF Active(s) THEN Blank ELSE req[s]
    BY <1>2 DEF Crash
  <2>2. \A t \in Token : Held(t)' => Held(t)
    BY <2>1 DEF Held, Blank
  <2> QED
    BY <1>2, <2>2, WasteStep DEF Crash
<1>3. ASSUME NEW t \in Token, Expire(t) PROVE Book!Next
  BY <1>3, LapseStep
<1>4. CASE UNCHANGED vars
  <2>1. [t \in Token |-> LinkOf(t)]' = [t \in Token |-> LinkOf(t)]
    BY <1>4 DEF vars, LinkOf, Stage, Held
  <2> QED
    BY <1>4, <2>1 DEF vars, Book!vars
<1> QED
  BY <1>1, <1>2, <1>3, <1>4 DEF Next

-----------------------------------------------------------------------------
\* Links work once, for the account and in the way they were issued for; accounts
\* change in no other way: what register_user.go, verify_email.go and
\* reset_password.go do call by call is what AccountBook does at once.
THEOREM Refinement == Spec => LinksWorkOnce
<1>1. Init => Book!Init
  BY DEF Init, Book!Init, LinkOf
<1>2. IInv /\ [Next]_vars => [Book!Next]_(Book!vars)
  BY NextStep
<1> QED
  BY <1>1, <1>2, SpecInv, PTL DEF Spec, LinksWorkOnce, Book!Spec
=============================================================================
