--------------------------- MODULE AccountsProofs ---------------------------
(***************************************************************************)
(* Proofs about Accounts, for every set of requests, addresses, passwords,  *)
(* users and tokens.                                                        *)
(***************************************************************************)
EXTENDS Accounts, TLAPS

\* What a request may rely on at each of its calls.
RequestInv(r) ==
  /\ At(r, "register", "lookup") \/ At(r, "register", "create")
       => /\ req[r].email \in Address
          /\ Canonical[req[r].email] = req[r].email
          /\ req[r].password \in Password
  /\ req[r].pc \in {"issue", "send", "reply"} => req[r].op # "login"
  /\ req[r].pc \in {"issue", "send"} => req[r].op \notin {"verify", "reset"}
  /\ req[r].pc = "issue" => req[r].uid \in Accounts
  /\ req[r].pc = "send" => req[r].token \in Token /\ minted[req[r].token] # None
  /\ req[r].pc \in {"consume", "load", "update"}
       => /\ req[r].op \in {"verify", "reset"}
          /\ req[r].token \in sent
          /\ req[r].op = "reset" => req[r].password \in Password
  /\ HasRedeemed(r)
       => /\ req[r].token \in sent \cap redeemed
          /\ req[r].uid \in UserId
          /\ minted[req[r].token] =
               [purpose |-> PurposeOf(req[r].op), user |-> req[r].uid]
  /\ req[r].pc = "update"
       => /\ req[r].row \in Row
          /\ users[req[r].uid] # None
          /\ req[r].row.email = users[req[r].uid].email
          /\ req[r].row.verified => Proved(req[r].uid)

\* What the stores hold between any two steps.
StoreInv ==
  /\ \A t \in live \cup sent \cup redeemed : minted[t] # None
  /\ live \cap redeemed = {}
  /\ \A t \in Token : minted[t] # None => minted[t].user \in Accounts
  /\ \A u \in Accounts : Canonical[users[u].email] = users[u].email
  /\ \A u \in Accounts : users[u].verified => Proved(u)

IInv ==
  /\ TypeOK
  /\ StoreInv
  /\ \A r \in Request : RequestInv(r)
  /\ OneAccountPerAddress
  /\ LinkRedeemedOnce
  /\ LoginNeedsProof

-----------------------------------------------------------------------------
(* How the stores evolve in any step, whoever takes it.                     *)

StoresGrow ==
  /\ \A u \in Accounts : users'[u] # None /\ users'[u].email = users[u].email
  /\ \A t \in Token : minted[t] # None => minted'[t] = minted[t]
  /\ sent \subseteq sent' /\ redeemed \subseteq redeemed'

\* A user who opened a verification link has opened it for good: tokens are
\* not minted again.
LEMMA ProvedStays ==
  ASSUME TypeOK, StoreInv, StoresGrow, NEW u, Proved(u)
  PROVE  Proved(u)'
<1>1. PICK t \in sent \cap redeemed :
        minted[t] = [purpose |-> "verify_email", user |-> u]
  BY DEF Proved
<1>2. minted[t] # None /\ t \in Token
  BY <1>1 DEF TypeOK, StoreInv
<1>3. t \in sent' \cap redeemed'
  BY <1>1, <1>2 DEF StoresGrow
<1>4. minted'[t] = minted[t]
  BY <1>2 DEF StoresGrow
<1> QED
  BY <1>1, <1>3, <1>4 DEF Proved

\* The steps of other requests leave a request what it relies on.
LEMMA RequestInvFrame ==
  ASSUME TypeOK, StoreInv, StoresGrow, TypeOK',
         NEW s \in Request, RequestInv(s), req'[s] = req[s]
  PROVE  RequestInv(s)'
<1>1. req[s].uid \in Accounts => (req[s].uid \in Accounts)'
  BY DEF StoresGrow, Accounts
<1>2. \A t \in sent : minted[t] # None /\ t \in Token /\ minted'[t] = minted[t]
  BY DEF StoresGrow, StoreInv, TypeOK
<1>3. \A t \in sent \cap redeemed : t \in sent' \cap redeemed'
  BY DEF StoresGrow
<1>4. HasRedeemed(s)' = HasRedeemed(s)
  BY DEF HasRedeemed
<1>5. HasRedeemed(s)
        => /\ req'[s].token \in sent' \cap redeemed'
           /\ minted'[req'[s].token] =
                [purpose |-> PurposeOf(req'[s].op), user |-> req'[s].uid]
  BY <1>2, <1>3 DEF RequestInv
<1>6. CASE req[s].pc = "update"
  <2>1. PICK u \in Accounts : u = req[s].uid
    BY <1>6 DEF RequestInv, HasRedeemed, Accounts
  <2>2. users'[u] # None /\ users'[u].email = users[u].email
    BY DEF StoresGrow
  <2>3. req[s].row.verified => Proved(u)
    BY <1>6, <2>1 DEF RequestInv
  <2>4. req[s].row.verified => Proved(u)'
    BY <2>3, ProvedStays
  <2>5. req'[s].row.verified => Proved(req[s].uid)'
    BY <2>1, <2>4 DEF Proved
  <2>6. /\ req[s].row \in Row
        /\ users'[req[s].uid] # None
        /\ req[s].row.email = users'[req[s].uid].email
    BY <1>6, <2>1, <2>2 DEF RequestInv
  <2>7. /\ req[s].op \in {"verify", "reset"}
        /\ req[s].token \in sent'
        /\ req[s].op = "reset" => req[s].password \in Password
    BY <1>6 DEF RequestInv, StoresGrow
  <2> QED
    BY <1>4, <1>5, <1>6, <2>5, <2>6, <2>7 DEF RequestInv, At, Proved
<1>7. CASE req[s].pc # "update"
  <2>1. req[s].pc = "send" => minted'[req[s].token] # None
    BY DEF StoresGrow, RequestInv
  <2> QED
    BY <1>1, <1>4, <1>5, <1>7, <2>1, <1>2 DEF RequestInv, At, StoresGrow
<1> QED
  BY <1>6, <1>7

-----------------------------------------------------------------------------
(* The invariant: the initial state, one lemma per kind of step.            *)

LEMMA InitInv == Init => IInv
<1> SUFFICES ASSUME Init PROVE IInv
  OBVIOUS
<1>1. TypeOK
  BY DEF Init, TypeOK, Blank, ReqState, Op, Pc, Result
<1>2. StoreInv
  BY DEF Init, StoreInv, Accounts
<1>3. \A r \in Request : RequestInv(r)
  BY DEF Init, RequestInv, Blank, At, HasRedeemed
<1>4. OneAccountPerAddress
  BY DEF Init, OneAccountPerAddress, Accounts
<1>5. LinkRedeemedOnce /\ LoginNeedsProof
  BY DEF Init, LinkRedeemedOnce, LoginNeedsProof, Blank, HasRedeemed, At
<1> QED
  BY <1>1, <1>2, <1>3, <1>4, <1>5 DEF IInv

\* A step that leaves the tables alone and only moves one request, to a state
\* that has redeemed nothing new, keeps the invariant as soon as that request
\* keeps its own part of it.
LEMMA MoveInv ==
  ASSUME IInv, NEW r \in Request, NEW q \in ReqState,
         req' = [req EXCEPT ![r] = q],
         UNCHANGED <<users, minted, live, sent, redeemed>>,
         RequestInv(r)',
         HasRedeemed(r)' => HasRedeemed(r) /\ q.token = req[r].token,
         q.op = "login" /\ q.pc = "done" /\ q.res = "ok" => Proved(q.uid)
  PROVE  IInv'
<1>1. TypeOK'
  BY DEF IInv, TypeOK
<1>2. StoresGrow
  BY DEF StoresGrow, Accounts
<1>3. StoreInv'
  BY DEF IInv, StoreInv, Accounts, Proved
<1>4. \A s \in Request : s # r => req'[s] = req[s]
  BY DEF IInv, TypeOK
<1>5. req'[r] = q
  BY DEF IInv, TypeOK
<1>6. \A s \in Request : RequestInv(s)'
  BY <1>1, <1>2, <1>4, RequestInvFrame DEF IInv
<1>7. OneAccountPerAddress'
  BY DEF IInv, OneAccountPerAddress, Accounts
<1>8. LinkRedeemedOnce'
  BY <1>4, <1>5 DEF IInv, LinkRedeemedOnce, HasRedeemed
<1>9. LoginNeedsProof'
  BY <1>4, <1>5 DEF IInv, LoginNeedsProof, At, Proved
<1> QED
  BY <1>1, <1>3, <1>6, <1>7, <1>8, <1>9 DEF IInv

LEMMA BeginInv ==
  ASSUME IInv, NEW r \in Request, Begin(r)
  PROVE  IInv'
<1> USE DEF ReqState, Op, Pc, Result, Blank
<1>0. ~ Active(r) /\ UNCHANGED <<users, minted, live, sent, redeemed>>
  BY DEF Begin, BeginRegister, BeginForgot, BeginLogin, BeginVerify, BeginReset
<1>1. CASE \E a \in Address, p \in Password : BeginRegister(r, a, p)
  <2>1. PICK a \in Address, p \in Password : BeginRegister(r, a, p)
    BY <1>1
  <2>2. Canonical[a] \in Address /\ Canonical[Canonical[a]] = Canonical[a]
    BY CanonicalAssumption
  <2>3. CASE Canonical[a] \in Malformed \/ p \in Weak
    <3> DEFINE q == [Blank EXCEPT !.op = "register", !.pc = "done", !.res = "invalid"]
    <3>1. q \in ReqState /\ req' = [req EXCEPT ![r] = q]
      BY <2>1, <2>3 DEF BeginRegister
    <3>2. req'[r] = q
      BY <3>1 DEF IInv, TypeOK
    <3>3. RequestInv(r)' /\ ~ HasRedeemed(r)'
      BY <3>2 DEF RequestInv, HasRedeemed, At
    <3> QED
      BY <1>0, <3>1, <3>3, MoveInv
  <2>4. CASE ~ (Canonical[a] \in Malformed \/ p \in Weak)
    <3> DEFINE q == [Blank EXCEPT !.op = "register", !.pc = "lookup",
                                  !.email = Canonical[a], !.password = p]
    <3>1. q \in ReqState /\ req' = [req EXCEPT ![r] = q]
      BY <2>1, <2>2, <2>4 DEF BeginRegister
    <3>2. req'[r] = q
      BY <3>1 DEF IInv, TypeOK
    <3>3. RequestInv(r)' /\ ~ HasRedeemed(r)'
      BY <2>2, <3>2 DEF RequestInv, HasRedeemed, At
    <3> QED
      BY <1>0, <3>1, <3>3, MoveInv
  <2> QED
    BY <2>3, <2>4
<1>2. CASE \E a \in Address : BeginForgot(r, a)
  <2>1. PICK a \in Address : BeginForgot(r, a)
    BY <1>2
  <2> DEFINE q == [Blank EXCEPT !.op = "forgot", !.pc = "lookup",
                                !.email = Canonical[a]]
  <2>2. q \in ReqState /\ req' = [req EXCEPT ![r] = q]
    BY <2>1, CanonicalAssumption DEF BeginForgot
  <2>3. req'[r] = q
    BY <2>2 DEF IInv, TypeOK
  <2>4. RequestInv(r)' /\ ~ HasRedeemed(r)'
    BY <2>3 DEF RequestInv, HasRedeemed, At
  <2> QED
    BY <1>0, <2>2, <2>4, MoveInv
<1>3. CASE \E a \in Address, p \in Password : BeginLogin(r, a, p)
  <2>1. PICK a \in Address, p \in Password : BeginLogin(r, a, p)
    BY <1>3
  <2> DEFINE q == [Blank EXCEPT !.op = "login", !.pc = "lookup",
                                !.email = Canonical[a], !.password = p]
  <2>2. q \in ReqState /\ req' = [req EXCEPT ![r] = q]
    BY <2>1, CanonicalAssumption DEF BeginLogin
  <2>3. req'[r] = q
    BY <2>2 DEF IInv, TypeOK
  <2>4. RequestInv(r)' /\ ~ HasRedeemed(r)'
    BY <2>3 DEF RequestInv, HasRedeemed, At
  <2> QED
    BY <1>0, <2>2, <2>4, MoveInv
<1>4. CASE \E t \in Token : BeginVerify(r, t)
  <2>1. PICK t \in Token : BeginVerify(r, t)
    BY <1>4
  <2> DEFINE q == [Blank EXCEPT !.op = "verify", !.pc = "consume", !.token = t]
  <2>2. q \in ReqState /\ req' = [req EXCEPT ![r] = q]
    BY <2>1 DEF BeginVerify
  <2>3. req'[r] = q
    BY <2>2 DEF IInv, TypeOK
  <2>4. t \in sent'
    BY <2>1 DEF BeginVerify
  <2>5. RequestInv(r)' /\ ~ HasRedeemed(r)'
    BY <2>3, <2>4 DEF RequestInv, HasRedeemed, At
  <2> QED
    BY <1>0, <2>2, <2>5, MoveInv
<1>5. CASE \E t \in Token, p \in Password : BeginReset(r, t, p)
  <2>1. PICK t \in Token, p \in Password : BeginReset(r, t, p)
    BY <1>5
  <2>2. CASE p \in Weak
    <3> DEFINE q == [Blank EXCEPT !.op = "reset", !.pc = "done", !.res = "invalid"]
    <3>1. q \in ReqState /\ req' = [req EXCEPT ![r] = q]
      BY <2>1, <2>2 DEF BeginReset
    <3>2. req'[r] = q
      BY <3>1 DEF IInv, TypeOK
    <3>3. RequestInv(r)' /\ ~ HasRedeemed(r)'
      BY <3>2 DEF RequestInv, HasRedeemed, At
    <3> QED
      BY <1>0, <3>1, <3>3, MoveInv
  <2>3. CASE p \notin Weak
    <3> DEFINE q == [Blank EXCEPT !.op = "reset", !.pc = "consume",
                                  !.token = t, !.password = p]
    <3>1. q \in ReqState /\ req' = [req EXCEPT ![r] = q]
      BY <2>1, <2>3 DEF BeginReset
    <3>2. req'[r] = q
      BY <3>1 DEF IInv, TypeOK
    <3>3. t \in sent'
      BY <2>1 DEF BeginReset
    <3>4. RequestInv(r)' /\ ~ HasRedeemed(r)'
      BY <3>2, <3>3 DEF RequestInv, HasRedeemed, At
    <3> QED
      BY <1>0, <3>1, <3>4, MoveInv
  <2> QED
    BY <2>2, <2>3
<1> QED
  BY <1>1, <1>2, <1>3, <1>4, <1>5 DEF Begin

\* Answering is harmless: what a request redeemed before, it may keep.
LEMMA AnswerInv ==
  ASSUME IInv, NEW r \in Request, NEW res \in Result, Answer(r, res),
         UNCHANGED <<users, minted, live, sent, redeemed>>,
         res = "ok" => req[r].op = "forgot" \/ req[r].pc = "reply"
  PROVE  IInv'
<1> DEFINE q == Answered(req[r], res)
<1>1. /\ q \in ReqState
      /\ q.op = req[r].op /\ q.pc = "done" /\ q.res = res
      /\ res = "ok" /\ req[r].op \in {"verify", "reset"}
           => q.token = req[r].token /\ q.uid = req[r].uid
  BY DEF IInv, TypeOK, ReqState, Pc, Answered
<1>2. req' = [req EXCEPT ![r] = q] /\ req'[r] = q
  BY DEF Answer, IInv, TypeOK
<1>3. RequestInv(r)
  BY DEF IInv
<1>4. HasRedeemed(r)' => HasRedeemed(r) /\ q.token = req[r].token /\ q.uid = req[r].uid
  BY <1>1, <1>2 DEF HasRedeemed
<1>5. HasRedeemed(r)'
        => /\ q.token \in sent' \cap redeemed'
           /\ q.uid \in UserId
           /\ minted'[q.token] = [purpose |-> PurposeOf(q.op), user |-> q.uid]
  BY <1>1, <1>3, <1>4 DEF RequestInv
<1>6. RequestInv(r)'
  <2> HIDE DEF q
  <2> QED
    BY <1>1, <1>2, <1>5 DEF RequestInv, At
<1>7. ~ (q.op = "login" /\ q.res = "ok")
  BY <1>1, <1>3 DEF RequestInv
<1> QED
  BY <1>1, <1>2, <1>4, <1>6, <1>7, MoveInv

LEMMA RegisterLookupInv ==
  ASSUME IInv, NEW r \in Request, RegisterLookup(r)
  PROVE  IInv'
<1>1. At(r, "register", "lookup") /\ UNCHANGED <<users, minted, live, sent, redeemed>>
  BY DEF RegisterLookup
<1>2. CASE Answer(r, "exists") \/ Answer(r, "error")
  BY <1>1, <1>2, AnswerInv DEF Result
<1>3. CASE Goto(r, "create")
  <2> DEFINE q == [req[r] EXCEPT !.pc = "create"]
  <2>1. /\ q \in ReqState /\ q.op = "register" /\ q.pc = "create"
        /\ q.email = req[r].email /\ q.password = req[r].password
    BY <1>1 DEF IInv, TypeOK, ReqState, Pc, At
  <2>2. req' = [req EXCEPT ![r] = q] /\ req'[r] = q
    BY <1>3 DEF Goto, IInv, TypeOK
  <2>3. RequestInv(r)
    BY DEF IInv
  <2>4. RequestInv(r)' /\ ~ HasRedeemed(r)'
    <3> HIDE DEF q
    <3> QED
      BY <1>1, <2>1, <2>2, <2>3 DEF RequestInv, HasRedeemed, At
  <2> QED
    BY <1>1, <2>1, <2>2, <2>4, MoveInv
<1> QED
  BY <1>2, <1>3 DEF RegisterLookup

LEMMA ForgotLookupInv ==
  ASSUME IInv, NEW r \in Request, ForgotLookup(r)
  PROVE  IInv'
<1>1. At(r, "forgot", "lookup") /\ UNCHANGED <<users, minted, live, sent, redeemed>>
  BY DEF ForgotLookup
<1>2. CASE Answer(r, "ok")
  BY <1>1, <1>2, AnswerInv DEF Result, At
<1>3. CASE \E u \in WithEmail(req[r].email) :
             req' = [req EXCEPT ![r].pc = "issue", ![r].uid = u]
  <2>1. PICK u \in Accounts : req' = [req EXCEPT ![r].pc = "issue", ![r].uid = u]
    BY <1>3 DEF WithEmail
  <2> DEFINE q == [req[r] EXCEPT !.pc = "issue", !.uid = u]
  <2>2. q \in ReqState /\ q.op = "forgot" /\ q.pc = "issue" /\ q.uid = u
    BY <1>1 DEF IInv, TypeOK, ReqState, Pc, At, Accounts
  <2>3. req' = [req EXCEPT ![r] = q] /\ req'[r] = q
    BY <2>1 DEF IInv, TypeOK
  <2>4. RequestInv(r)' /\ ~ HasRedeemed(r)'
    <3> HIDE DEF q
    <3> QED
      BY <1>1, <2>2, <2>3 DEF RequestInv, HasRedeemed, At, Accounts
  <2> QED
    BY <1>1, <2>2, <2>3, <2>4, MoveInv
<1> QED
  BY <1>2, <1>3 DEF ForgotLookup

\* The one place that says "ok" to a login, and only for a verified row.
LEMMA LoginInv ==
  ASSUME IInv, NEW r \in Request, Login(r)
  PROVE  IInv'
<1>1. At(r, "login", "lookup") /\ UNCHANGED <<users, minted, live, sent, redeemed>>
  BY DEF Login
<1>2. CASE Answer(r, "denied")
  BY <1>1, <1>2, AnswerInv DEF Result
<1>3. CASE \E u \in WithEmail(req[r].email) :
             req' = [req EXCEPT ![r] =
               [Answered(req[r], Verdict(users[u], req[r].password))
                EXCEPT !.uid = u]]
  <2>1. PICK u \in Accounts :
          req' = [req EXCEPT ![r] =
            [Answered(req[r], Verdict(users[u], req[r].password))
             EXCEPT !.uid = u]]
    BY <1>3 DEF WithEmail
  <2> DEFINE verdict == Verdict(users[u], req[r].password)
             q == [Answered(req[r], verdict) EXCEPT !.uid = u]
  <2>2. verdict \in Result
    BY DEF Verdict, Result
  <2>3. /\ q \in ReqState
        /\ q.op = "login" /\ q.pc = "done" /\ q.uid = u /\ q.res = verdict
    <3> HIDE DEF verdict
    <3> QED
      BY <1>1, <2>2 DEF IInv, TypeOK, ReqState, Pc, At, Accounts, Answered
  <2>4. req' = [req EXCEPT ![r] = q] /\ req'[r] = q
    BY <2>1 DEF IInv, TypeOK
  <2>5. verdict = "ok" => Proved(u)
    BY DEF IInv, StoreInv, Verdict
  <2>6. RequestInv(r)' /\ ~ HasRedeemed(r)'
    <3> HIDE DEF q
    <3> QED
      BY <2>3, <2>4 DEF RequestInv, HasRedeemed, At
  <2>7. q.res = "ok" => Proved(q.uid)
    <3> HIDE DEF q, verdict
    <3> QED
      BY <2>3, <2>5 DEF Proved
  <2> QED
    <3> HIDE DEF q
    <3> QED
      BY <1>1, <2>3, <2>4, <2>6, <2>7, MoveInv
<1> QED
  BY <1>2, <1>3 DEF Login

LEMMA LoadInv ==
  ASSUME IInv, NEW r \in Request, Load(r)
  PROVE  IInv'
<1>1. /\ req[r].pc = "load" /\ req[r].uid \in Accounts
      /\ UNCHANGED <<users, minted, live, sent, redeemed>>
  BY DEF Load
<1>2. CASE Answer(r, "error")
  BY <1>1, <1>2, AnswerInv DEF Result
<1>3. CASE req' = [req EXCEPT ![r].pc = "update", ![r].row = users[req[r].uid]]
  <2>1. PICK u \in Accounts : u = req[r].uid
    BY <1>1
  <2>2. users[u] \in Row /\ (users[u].verified => Proved(u))
    BY DEF IInv, TypeOK, StoreInv, Accounts
  <2> DEFINE q == [req[r] EXCEPT !.pc = "update", !.row = users[u]]
  <2>3. /\ q \in ReqState /\ q.op = req[r].op /\ q.pc = "update"
        /\ q.token = req[r].token /\ q.uid = u /\ q.row = users[u]
        /\ q.password = req[r].password
    BY <2>1, <2>2 DEF IInv, TypeOK, ReqState, Pc
  <2>4. req' = [req EXCEPT ![r] = q] /\ req'[r] = q
    BY <1>3, <2>1 DEF IInv, TypeOK
  <2>5. RequestInv(r)
    BY DEF IInv
  <2>6. HasRedeemed(r) /\ req[r].op \in {"verify", "reset"}
    BY <1>1, <2>5 DEF RequestInv, HasRedeemed
  <2>7. Proved(u)' = Proved(u)
    BY <1>1 DEF Proved
  <2>8. RequestInv(r)'
    <3> HIDE DEF q
    <3>1. /\ q.op \in {"verify", "reset"}
          /\ q.token \in sent'
          /\ q.op = "reset" => q.password \in Password
      BY <1>1, <2>3, <2>5 DEF RequestInv
    <3>2. /\ q.token \in sent' \cap redeemed'
          /\ q.uid \in UserId
          /\ minted'[q.token] = [purpose |-> PurposeOf(q.op), user |-> q.uid]
      BY <1>1, <2>1, <2>3, <2>5, <2>6 DEF RequestInv
    <3>3. q.row.verified => Proved(u)'
      BY <2>2, <2>3, <2>7
    <3>4. users'[q.uid] # None /\ q.row \in Row /\ q.row.email = users'[q.uid].email
      BY <1>1, <2>2, <2>3 DEF Accounts
    <3> QED
      BY <2>3, <2>4, <3>1, <3>2, <3>3, <3>4 DEF RequestInv, At, Proved
  <2> QED
    <3> HIDE DEF q
    <3> QED
      BY <1>1, <2>3, <2>4, <2>6, <2>8, MoveInv
<1> QED
  BY <1>2, <1>3 DEF Load

\* A step that writes a store.  It may redeem the token its request carries,
\* which was live, so that no other request had redeemed it.
LEMMA GrowInv ==
  ASSUME IInv, TypeOK', StoresGrow, StoreInv', OneAccountPerAddress',
         NEW r \in Request, NEW q, req' = [req EXCEPT ![r] = q],
         RequestInv(r)', q.pc # "done",
         HasRedeemed(r)' => /\ q.token = req[r].token
                            /\ HasRedeemed(r) \/ req[r].token \in live
  PROVE  IInv'
<1>1. \A s \in Request : s # r => req'[s] = req[s]
  BY DEF IInv, TypeOK
<1>2. req'[r] = q
  BY DEF IInv, TypeOK
<1>3. \A s \in Request : RequestInv(s)'
  BY <1>1, RequestInvFrame DEF IInv
<1>4. LinkRedeemedOnce'
  <2>1. \A s \in Request : s # r => HasRedeemed(s)' = HasRedeemed(s)
    BY <1>1 DEF HasRedeemed
  <2>2. ASSUME NEW s \in Request, s # r, HasRedeemed(s)', HasRedeemed(r)'
        PROVE  req'[s].token # req'[r].token
    <3>1. HasRedeemed(s) /\ req'[s] = req[s]
      BY <1>1, <2>1, <2>2
    <3>2. req[s].token \notin live
      BY <3>1 DEF IInv, RequestInv, StoreInv
    <3>3. CASE HasRedeemed(r)
      BY <1>2, <2>2, <3>1, <3>3 DEF IInv, LinkRedeemedOnce
    <3>4. CASE req[r].token \in live
      BY <1>2, <2>2, <3>1, <3>2, <3>4
    <3> QED
      BY <2>2, <3>3, <3>4
  <2>3. \A s, t \in Request :
          s # r /\ t # r /\ HasRedeemed(s)' /\ HasRedeemed(t)'
            /\ req'[s].token = req'[t].token => s = t
    BY <1>1, <2>1 DEF IInv, LinkRedeemedOnce
  <2> QED
    BY <2>2, <2>3 DEF LinkRedeemedOnce
<1>5. LoginNeedsProof'
  <2> SUFFICES ASSUME NEW s \in Request, At(s, "login", "done")', req'[s].res = "ok"
               PROVE  \E t \in sent' \cap redeemed' :
                        minted'[t] = [purpose |-> "verify_email", user |-> req'[s].uid]
    BY DEF LoginNeedsProof, Proved
  <2>1. s # r /\ req'[s] = req[s]
    BY <1>1, <1>2 DEF At
  <2>2. PICK u : u = req[s].uid
    OBVIOUS
  <2>3. Proved(u)
    BY <2>1, <2>2 DEF IInv, LoginNeedsProof, At
  <2>4. Proved(u)'
    BY <2>3, ProvedStays DEF IInv
  <2> QED
    BY <2>1, <2>2, <2>4 DEF Proved
<1> QED
  BY <1>3, <1>4, <1>5 DEF IInv

\* The UNIQUE constraint is what keeps two accounts of one address apart.
LEMMA RegisterCreateInv ==
  ASSUME IInv, NEW r \in Request, RegisterCreate(r)
  PROVE  IInv'
<1>1. At(r, "register", "create") /\ UNCHANGED <<minted, live, sent, redeemed>>
  BY DEF RegisterCreate
<1>2. CASE Answer(r, "exists") /\ UNCHANGED users
  BY <1>1, <1>2, AnswerInv DEF Result
<1>3. CASE /\ Insertable(req[r].email)
           /\ \E u \in UserId \ Accounts :
                /\ users' = [users EXCEPT ![u] = NewRow(req[r].email, req[r].password)]
                /\ req' = [req EXCEPT ![r].pc = "issue", ![r].uid = u]
  <2>1. PICK u \in UserId \ Accounts :
          /\ users' = [users EXCEPT ![u] = NewRow(req[r].email, req[r].password)]
          /\ req' = [req EXCEPT ![r].pc = "issue", ![r].uid = u]
    BY <1>3
  <2> DEFINE q == [req[r] EXCEPT !.pc = "issue", !.uid = u]
             row == NewRow(req[r].email, req[r].password)
  <2>2. q \in ReqState /\ q.op = "register" /\ q.pc = "issue" /\ q.uid = u
    BY <1>1 DEF IInv, TypeOK, ReqState, Pc, At
  <2>3. req' = [req EXCEPT ![r] = q] /\ req'[r] = q
    BY <2>1 DEF IInv, TypeOK
  <2>4. /\ row \in Row /\ ~ row.verified
        /\ row.email = req[r].email /\ Canonical[row.email] = row.email
    BY <1>1 DEF IInv, RequestInv, NewRow, Row
  <2>5. row # None
    BY <2>4, NoneAssumption
  <2>6. /\ users'[u] = row
        /\ \A v \in UserId : v # u => users'[v] = users[v]
    BY <2>1 DEF IInv, TypeOK
  <2>7. Accounts' = Accounts \cup {u}
    BY <2>5, <2>6 DEF Accounts
  <2> HIDE DEF q, row
  <2>8. TypeOK'
    BY <1>1, <2>1, <2>2, <2>3, <2>4 DEF IInv, TypeOK, row
  <2>9. StoresGrow
    BY <1>1, <2>6 DEF StoresGrow, Accounts
  <2>10. StoreInv'
    <3>1. \A v \in Accounts : v # u /\ users'[v] = users[v]
      BY <2>6 DEF Accounts
    <3>2. \A v \in Accounts' : users'[v].verified => v \in Accounts /\ Proved(v)
      BY <2>4, <2>6, <2>7, <3>1 DEF IInv, StoreInv
    <3>3. \A v \in Accounts' : users'[v].verified => Proved(v)'
      BY <1>1, <3>2 DEF Proved
    <3>4. \A v \in Accounts' : Canonical[users'[v].email] = users'[v].email
      BY <2>4, <2>6, <2>7, <3>1 DEF IInv, StoreInv
    <3>5. (\A t \in live' \cup sent' \cup redeemed' : minted'[t] # None)
            /\ live' \cap redeemed' = {}
      BY <1>1 DEF IInv, StoreInv
    <3>6. \A t \in Token : minted'[t] # None => minted'[t].user \in Accounts'
      BY <1>1, <2>7 DEF IInv, StoreInv
    <3> QED
      BY <3>3, <3>4, <3>5, <3>6 DEF StoreInv
  <2>11. \A v \in Accounts : users[v].email # row.email
    BY <1>3, <2>4 DEF Insertable, WithEmail
  <2>12. OneAccountPerAddress'
    <3>1. \A v \in Accounts : Canonical[users[v].email] = users[v].email /\ v # u
      BY DEF IInv, StoreInv
    <3>2. \A v \in Accounts : Canonical[users'[v].email] # Canonical[users'[u].email]
      BY <2>4, <2>6, <2>11, <3>1 DEF Accounts
    <3>3. \A v \in Accounts : users'[v] = users[v]
      BY <2>6, <3>1 DEF Accounts
    <3> QED
      BY <2>7, <3>2, <3>3 DEF IInv, OneAccountPerAddress
  <2>13. RequestInv(r)' /\ ~ HasRedeemed(r)'
    BY <2>2, <2>3, <2>7 DEF RequestInv, HasRedeemed, At
  <2> QED
    BY <2>2, <2>3, <2>8, <2>9, <2>10, <2>12, <2>13, GrowInv
<1> QED
  BY <1>2, <1>3 DEF RegisterCreate

LEMMA IssueInv ==
  ASSUME IInv, NEW r \in Request, Issue(r)
  PROVE  IInv'
<1>1. req[r].pc = "issue" /\ UNCHANGED <<users, sent, redeemed>>
  BY DEF Issue
<1>2. PICK t \in Token :
        /\ minted[t] = None
        /\ minted' = [minted EXCEPT ![t] = [purpose |-> PurposeOf(req[r].op),
                                            user |-> req[r].uid]]
        /\ live' = live \cup {t}
        /\ req' = [req EXCEPT ![r].pc = "send", ![r].token = t]
  BY DEF Issue
<1>3. PICK u \in Accounts : u = req[r].uid
  BY <1>1 DEF IInv, RequestInv
<1>4. RequestInv(r)
  BY DEF IInv
<1> DEFINE q == [req[r] EXCEPT !.pc = "send", !.token = t]
           g == [purpose |-> PurposeOf(req[r].op), user |-> u]
<1>5. g \in Grant /\ g # None
  BY <1>3, NoneAssumption DEF Grant, Purpose, PurposeOf, Accounts
<1>6. q \in ReqState /\ q.op = req[r].op /\ q.pc = "send" /\ q.token = t
  BY DEF IInv, TypeOK, ReqState, Pc
<1>7. req' = [req EXCEPT ![r] = q] /\ req'[r] = q
  BY <1>2 DEF IInv, TypeOK
<1>8. /\ minted'[t] = g
      /\ \A s \in Token : s # t => minted'[s] = minted[s]
      /\ minted' = [minted EXCEPT ![t] = g]
  BY <1>2, <1>3 DEF IInv, TypeOK
<1>9. g.user = u
  OBVIOUS
<1>10. Accounts' = Accounts
  BY <1>1 DEF Accounts
<1> HIDE DEF q, g
<1>11. TypeOK'
  BY <1>1, <1>2, <1>5, <1>6, <1>7, <1>8 DEF IInv, TypeOK
<1>12. StoresGrow
  BY <1>1, <1>2, <1>8 DEF StoresGrow, Accounts
<1>13. StoreInv'
  <2>1. \A s \in live' \cup sent' \cup redeemed' : minted'[s] # None
    BY <1>1, <1>2, <1>5, <1>8 DEF IInv, StoreInv, TypeOK
  <2>5. live' \cap redeemed' = {}
    BY <1>1, <1>2 DEF IInv, StoreInv
  <2>2. \A s \in Token : minted'[s] # None => minted'[s].user \in Accounts'
    BY <1>3, <1>8, <1>9, <1>10 DEF IInv, StoreInv
  <2>3. \A v \in Accounts' : users'[v].verified => Proved(v)'
    BY <1>1, <1>10, <1>12, ProvedStays DEF IInv, StoreInv
  <2>4. \A v \in Accounts' : Canonical[users'[v].email] = users'[v].email
    BY <1>1, <1>10 DEF IInv, StoreInv
  <2> QED
    BY <2>1, <2>2, <2>3, <2>4, <2>5 DEF StoreInv
<1>14. OneAccountPerAddress'
  BY <1>1, <1>10 DEF IInv, OneAccountPerAddress
<1>15. RequestInv(r)' /\ ~ HasRedeemed(r)'
  BY <1>1, <1>4, <1>5, <1>6, <1>7, <1>8 DEF RequestInv, HasRedeemed, At
<1> QED
  BY <1>6, <1>7, <1>11, <1>12, <1>13, <1>14, <1>15, GrowInv

LEMMA SendInv ==
  ASSUME IInv, NEW r \in Request, Send(r)
  PROVE  IInv'
<1>1. /\ req[r].pc = "send" /\ UNCHANGED <<users, minted, live, redeemed>>
      /\ sent' = sent \cup {req[r].token}
      /\ req' = [req EXCEPT ![r].pc = "reply"]
  BY DEF Send, Goto
<1>2. RequestInv(r)
  BY DEF IInv
<1>3. req[r].token \in Token /\ minted[req[r].token] # None
  BY <1>1, <1>2 DEF RequestInv
<1> DEFINE q == [req[r] EXCEPT !.pc = "reply"]
<1>4. q \in ReqState /\ q.op = req[r].op /\ q.pc = "reply"
  BY DEF IInv, TypeOK, ReqState, Pc
<1>5. req' = [req EXCEPT ![r] = q] /\ req'[r] = q
  BY <1>1 DEF IInv, TypeOK
<1> HIDE DEF q
<1>6. TypeOK'
  BY <1>1, <1>3, <1>4, <1>5 DEF IInv, TypeOK
<1>7. StoresGrow
  BY <1>1 DEF StoresGrow, Accounts
<1>8. StoreInv'
  <2>1. \A v \in Accounts' : users'[v].verified => Proved(v)'
    BY <1>1, <1>7, ProvedStays DEF IInv, StoreInv, Accounts
  <2> QED
    BY <1>1, <1>3, <2>1 DEF IInv, StoreInv, Accounts
<1>9. OneAccountPerAddress'
  BY <1>1 DEF IInv, OneAccountPerAddress, Accounts
<1>10. RequestInv(r)' /\ ~ HasRedeemed(r)'
  BY <1>1, <1>2, <1>4, <1>5 DEF RequestInv, HasRedeemed, At
<1> QED
  BY <1>4, <1>5, <1>6, <1>7, <1>8, <1>9, <1>10, GrowInv

\* GETDEL takes the key away from every other request.
LEMMA ConsumeInv ==
  ASSUME IInv, NEW r \in Request, Consume(r)
  PROVE  IInv'
<1>1. req[r].pc = "consume" /\ UNCHANGED <<users, minted, sent>>
  BY DEF Consume
<1>2. CASE Answer(r, "invalid") /\ UNCHANGED <<live, redeemed>>
  BY <1>1, <1>2, AnswerInv DEF Result
<1>3. CASE /\ Redeemable(req[r].token, PurposeOf(req[r].op))
           /\ live' = WithoutKey(req[r].token)
           /\ redeemed' = redeemed \cup ({req[r].token} \cap live)
           /\ req' = [req EXCEPT ![r].pc = "load",
                                 ![r].uid = minted[req[r].token].user]
  <2>1. RequestInv(r)
    BY DEF IInv
  <2>2. PICK t \in Token : t = req[r].token
    BY <1>1, <2>1 DEF RequestInv, IInv, TypeOK
  <2>3. /\ t \in sent /\ t \in live /\ minted[t] # None
        /\ minted[t].purpose = PurposeOf(req[r].op)
        /\ live' = live \ {t} /\ redeemed' = redeemed \cup {t}
    BY <1>1, <1>3, <2>1, <2>2 DEF RequestInv, IInv, StoreInv, Redeemable, WithoutKey
  <2>4. PICK u \in Accounts : u = minted[t].user
    BY <2>3 DEF IInv, StoreInv
  <2>5. minted[t] = [purpose |-> PurposeOf(req[r].op), user |-> u]
    BY <2>3, <2>4 DEF IInv, TypeOK, Grant
  <2> DEFINE q == [req[r] EXCEPT !.pc = "load", !.uid = u]
  <2>6. /\ q \in ReqState /\ q.op = req[r].op /\ q.pc = "load" /\ q.uid = u
        /\ q.token = t /\ q.password = req[r].password
    BY <2>2 DEF IInv, TypeOK, ReqState, Pc, Accounts
  <2>7. req' = [req EXCEPT ![r] = q] /\ req'[r] = q
    BY <1>3, <2>2, <2>4 DEF IInv, TypeOK
  <2> HIDE DEF q
  <2>8. TypeOK'
    BY <1>1, <2>3, <2>6, <2>7 DEF IInv, TypeOK
  <2>9. StoresGrow
    BY <1>1, <2>3 DEF StoresGrow, Accounts
  <2>10. StoreInv'
    <3>1. \A v \in Accounts' : users'[v].verified => Proved(v)'
      BY <1>1, <2>9, ProvedStays DEF IInv, StoreInv, Accounts
    <3> QED
      BY <1>1, <2>3, <3>1 DEF IInv, StoreInv, Accounts
  <2>11. OneAccountPerAddress'
    BY <1>1 DEF IInv, OneAccountPerAddress, Accounts
  <2>12. RequestInv(r)'
    <3>1. /\ q.op \in {"verify", "reset"}
          /\ q.op = "reset" => q.password \in Password
      BY <1>1, <2>1, <2>6 DEF RequestInv
    <3>2. /\ q.token \in sent' \cap redeemed'
          /\ q.uid \in UserId
          /\ minted'[q.token] = [purpose |-> PurposeOf(q.op), user |-> q.uid]
      BY <1>1, <2>3, <2>5, <2>6 DEF Accounts
    <3> QED
      BY <2>6, <2>7, <3>1, <3>2 DEF RequestInv, At
  <2>13. q.token = req[r].token /\ req[r].token \in live
    BY <2>2, <2>3, <2>6
  <2> QED
    BY <2>6, <2>7, <2>8, <2>9, <2>10, <2>11, <2>12, <2>13, GrowInv
<1> QED
  BY <1>2, <1>3 DEF Consume

\* The row written back is stale, but its address never is, and it is only
\* marked verified when it was read so or when the link was opened.
LEMMA UpdateInv ==
  ASSUME IInv, NEW r \in Request, Update(r)
  PROVE  IInv'
<1>1. /\ req[r].pc = "update" /\ UNCHANGED <<minted, live, sent, redeemed>>
      /\ users' = [users EXCEPT ![req[r].uid] = Changed(req[r])]
      /\ req' = [req EXCEPT ![r].pc = "reply", ![r].row = None]
  BY DEF Update
<1>2. RequestInv(r)
  BY DEF IInv
<1>3. HasRedeemed(r) /\ req[r].op \in {"verify", "reset"}
  BY <1>1, <1>2 DEF HasRedeemed, RequestInv
<1>4. PICK u \in Accounts : u = req[r].uid
  BY <1>1, <1>2, <1>3 DEF RequestInv, Accounts
<1>5. /\ req[r].row \in Row
      /\ req[r].row.email = users[u].email
      /\ req[r].row.verified => Proved(u)
  BY <1>1, <1>2, <1>4 DEF RequestInv
<1> DEFINE row == Changed(req[r])
           q == [req[r] EXCEPT !.pc = "reply", !.row = None]
<1>6. row \in Row /\ row.email = users[u].email
  BY <1>1, <1>2, <1>3, <1>5 DEF Changed, Row, RequestInv
<1>7. row.verified => Proved(u)
  <2>1. CASE req[r].op = "verify"
    BY <1>2, <1>3, <1>4, <2>1 DEF RequestInv, Proved, PurposeOf
  <2>2. CASE req[r].op = "reset"
    BY <1>5, <2>2 DEF Changed, Row
  <2> QED
    BY <1>3, <2>1, <2>2
<1>8. row # None
  BY <1>6, NoneAssumption
<1>9. /\ q \in ReqState /\ q.op = req[r].op /\ q.pc = "reply"
      /\ q.uid = req[r].uid /\ q.token = req[r].token
  BY DEF IInv, TypeOK, ReqState, Pc
<1>10. req' = [req EXCEPT ![r] = q] /\ req'[r] = q
  BY <1>1 DEF IInv, TypeOK
<1>11. users' = [users EXCEPT ![u] = row]
  BY <1>1, <1>4
<1> HIDE DEF q, row
<1>12. /\ users'[u] = row
       /\ \A v \in UserId : v # u => users'[v] = users[v]
       /\ Accounts' = Accounts
  BY <1>4, <1>8, <1>11 DEF IInv, TypeOK, Accounts
<1>13. TypeOK'
  <2>1. users' \in [UserId -> Row \cup {None}]
    BY <1>6, <1>11 DEF IInv, TypeOK
  <2>2. req' \in [Request -> ReqState]
    BY <1>9, <1>10 DEF IInv, TypeOK
  <2> QED
    BY <1>1, <2>1, <2>2 DEF IInv, TypeOK
<1>14. \A v \in Accounts : users'[v].email = users[v].email
  BY <1>6, <1>12 DEF Accounts
<1>15. StoresGrow
  BY <1>1, <1>12, <1>14 DEF StoresGrow, Accounts
<1>16. StoreInv'
  <2>1. \A v \in Accounts : users'[v].verified => Proved(v)
    BY <1>7, <1>12 DEF IInv, StoreInv, Accounts
  <2>2. \A v \in Accounts : users'[v].verified => Proved(v)'
    BY <1>1, <2>1 DEF Proved
  <2> QED
    BY <1>1, <1>12, <1>14, <2>2 DEF IInv, StoreInv
<1>17. OneAccountPerAddress'
  BY <1>12, <1>14 DEF IInv, OneAccountPerAddress
<1>18. RequestInv(r)'
  <2>1. /\ q.token \in sent' \cap redeemed'
        /\ q.uid \in UserId
        /\ minted'[q.token] = [purpose |-> PurposeOf(q.op), user |-> q.uid]
    BY <1>1, <1>2, <1>3, <1>9 DEF RequestInv
  <2> QED
    BY <1>3, <1>9, <1>10, <2>1 DEF RequestInv, At
<1> QED
  BY <1>3, <1>9, <1>10, <1>13, <1>15, <1>16, <1>17, <1>18, GrowInv

LEMMA CrashInv ==
  ASSUME IInv, Crash
  PROVE  IInv'
<1>1. /\ req' = [r \in Request |-> IF Active(r) THEN Blank ELSE req[r]]
      /\ UNCHANGED <<users, minted, live, sent, redeemed>>
  BY DEF Crash
<1>2. \A r \in Request : req'[r] = req[r] \/ req'[r] = Blank
  BY <1>1
<1>3. TypeOK'
  <2>1. Blank \in ReqState
    BY DEF Blank, ReqState, Op, Pc, Result
  <2> QED
    BY <1>1, <2>1 DEF IInv, TypeOK
<1>4. StoresGrow
  BY <1>1 DEF StoresGrow, Accounts
<1>5. StoreInv' /\ OneAccountPerAddress'
  BY <1>1 DEF IInv, StoreInv, OneAccountPerAddress, Accounts, Proved
<1>6. ASSUME NEW r \in Request
      PROVE  RequestInv(r)'
  <2>1. CASE req'[r] = req[r]
    BY <1>3, <1>4, <2>1, RequestInvFrame DEF IInv
  <2>2. CASE req'[r] = Blank
    BY <2>2 DEF Blank, RequestInv, HasRedeemed, At
  <2> QED
    BY <1>2, <2>1, <2>2
<1>7. LinkRedeemedOnce'
  <2>1. \A r \in Request : HasRedeemed(r)' => HasRedeemed(r) /\ req'[r] = req[r]
    BY <1>2 DEF HasRedeemed, Blank
  <2> QED
    BY <2>1 DEF IInv, LinkRedeemedOnce
<1>8. LoginNeedsProof'
  BY <1>1, <1>2 DEF IInv, LoginNeedsProof, At, Blank, Proved
<1> QED
  BY <1>3, <1>5, <1>6, <1>7, <1>8 DEF IInv

LEMMA ExpireInv ==
  ASSUME IInv, NEW t \in Token, Expire(t)
  PROVE  IInv'
<1>1. live' = live \ {t} /\ UNCHANGED <<users, minted, sent, redeemed, req>>
  BY DEF Expire
<1>2. TypeOK'
  BY <1>1 DEF IInv, TypeOK
<1>3. StoresGrow
  BY <1>1 DEF StoresGrow, Accounts
<1>4. StoreInv'
  <2>1. \A v \in Accounts' : users'[v].verified => Proved(v)'
    BY <1>1, <1>3, ProvedStays DEF IInv, StoreInv, Accounts
  <2> QED
    BY <1>1, <2>1 DEF IInv, StoreInv, Accounts
<1>5. \A r \in Request : RequestInv(r)'
  BY <1>1, <1>2, <1>3, RequestInvFrame DEF IInv
<1>6. OneAccountPerAddress' /\ LinkRedeemedOnce'
  BY <1>1 DEF IInv, OneAccountPerAddress, Accounts, LinkRedeemedOnce, HasRedeemed
<1>7. LoginNeedsProof'
  BY <1>1 DEF IInv, LoginNeedsProof, At, Proved
<1> QED
  BY <1>2, <1>4, <1>5, <1>6, <1>7 DEF IInv

LEMMA NextInv == IInv /\ [Next]_vars => IInv'
<1> SUFFICES ASSUME IInv, [Next]_vars PROVE IInv'
  OBVIOUS
<1>1. ASSUME NEW r \in Request, Step(r) PROVE IInv'
  <2>1. CASE Reply(r)
    <3>1. /\ req[r].pc = "reply" /\ Answer(r, "ok") /\ "ok" \in Result
          /\ UNCHANGED <<users, minted, live, sent, redeemed>>
      BY <2>1 DEF Reply, Result
    <3> QED
      BY <3>1, AnswerInv
  <2> QED
    BY <1>1, <2>1, RegisterLookupInv, RegisterCreateInv, ForgotLookupInv,
       LoginInv, IssueInv, SendInv, ConsumeInv, LoadInv, UpdateInv DEF Step
<1>2. ASSUME NEW r \in Request, Abort(r) PROVE IInv'
  <2>1. /\ Answer(r, "error") \/ (req[r].op = "forgot" /\ Answer(r, "ok"))
        /\ UNCHANGED <<users, minted, live, sent, redeemed>>
    BY <1>2 DEF Abort
  <2>2. "error" \in Result /\ "ok" \in Result
    BY DEF Result
  <2> QED
    BY <2>1, <2>2, AnswerInv
<1>3. CASE UNCHANGED vars
  BY <1>3 DEF vars, IInv, TypeOK, StoreInv, RequestInv, Accounts, Proved,
     HasRedeemed, At, OneAccountPerAddress, LinkRedeemedOnce, LoginNeedsProof
<1> QED
  BY <1>1, <1>2, <1>3, BeginInv, CrashInv, ExpireInv DEF Next

LEMMA SpecInv == Spec => []IInv
  BY InitInv, NextInv, PTL DEF Spec

-----------------------------------------------------------------------------
(* The results.                                                             *)

\* Every variable keeps its type: no table, key or request is ever malformed,
\* however the calls of the requests interleave, fail or are cut off.
THEOREM TypeCorrect == Spec => []TypeOK
  BY SpecInv, PTL DEF IInv

\* RegisterUser's look-up and insert do not form a transaction; still two rows
\* never carry the same mailbox (user_repository.go, UNIQUE email).
THEOREM UniqueAccounts == Spec => []OneAccountPerAddress
  BY SpecInv, PTL DEF IInv

\* A mailed link changes an account at most once (token_store.go, GETDEL).
THEOREM SingleUseLinks == Spec => []LinkRedeemedOnce
  BY SpecInv, PTL DEF IInv

\* Authenticate accepts only users whose verification link was opened while it was
\* good: a link that ran out verifies nobody, and stale rows written back over
\* fresh ones make no verification up.
THEOREM VerifiedLogins == Spec => []LoginNeedsProof
  BY SpecInv, PTL DEF IInv

LEMMA RowWriter ==
  ASSUME IInv, Next, NEW u \in Accounts, users'[u] # users[u]
  PROVE  \E r \in Request : Update(r) /\ req[r].uid = u
<1>1. PICK r \in Request : Step(r)
  BY DEF Next, Begin, BeginRegister, BeginForgot, BeginLogin, BeginVerify,
     BeginReset, Abort, Crash, Expire
<1>2. CASE RegisterCreate(r)
  <2>1. PICK v \in UserId \ Accounts :
          users' = [users EXCEPT ![v] = NewRow(req[r].email, req[r].password)]
    BY <1>2 DEF RegisterCreate
  <2> QED
    BY <2>1 DEF IInv, TypeOK
<1>3. CASE Update(r)
  <2>1. req[r].uid = u
    BY <1>3 DEF Update, IInv, TypeOK
  <2> QED
    BY <1>3, <2>1
<1>4. CASE UNCHANGED users
  BY <1>4
<1>5. RegisterCreate(r) \/ Update(r) \/ UNCHANGED users
  BY <1>1 DEF Step, RegisterLookup, ForgotLookup, Login, Issue, Send, Consume, Load, Reply
<1> QED
  BY <1>2, <1>3, <1>4, <1>5

\* Nobody's row changes but through a link mailed to that user (verify_email.go,
\* reset_password.go).
THEOREM OnlyOwnLinksChange == Spec => ChangeNeedsOwnLink
<1> DEFINE Own == \A u \in Accounts :
                    users'[u] # users[u] =>
                      \E r \in Request :
                        /\ HasRedeemed(r)
                        /\ req[r].token \in sent \cap redeemed
                        /\ minted[req[r].token] =
                             [purpose |-> PurposeOf(req[r].op), user |-> u]
<1>1. IInv /\ [Next]_vars => [Own]_vars
  <2> SUFFICES ASSUME IInv, Next, NEW u \in Accounts, users'[u] # users[u]
               PROVE  \E r \in Request :
                        /\ HasRedeemed(r)
                        /\ req[r].token \in sent \cap redeemed
                        /\ minted[req[r].token] =
                             [purpose |-> PurposeOf(req[r].op), user |-> u]
    BY DEF vars
  <2>1. PICK r \in Request : Update(r) /\ req[r].uid = u
    BY RowWriter
  <2>2. HasRedeemed(r)
    BY <2>1 DEF Update, IInv, RequestInv, HasRedeemed
  <2> QED
    BY <2>1, <2>2 DEF IInv, RequestInv
<1> QED
  BY <1>1, SpecInv, PTL DEF Spec, ChangeNeedsOwnLink
\* What a confirmation needs to last (verify_email.go, reset_password.go): that
\* no other request of the user stands between the read and the write of the
\* row.  The row written back is then the one in the table, one field replaced.
OneWriterPerUser ==
  \A r, s \in Request :
    req[r].pc = "update" /\ req[s].pc = "update" /\ req[r].uid = req[s].uid => r = s

LEMMA AnswerEnds ==
  ASSUME IInv, NEW r \in Request, NEW res, Answer(r, res)
  PROVE  req'[r].pc = "done"
<1>1. req[r] \in ReqState /\ req'[r] = Answered(req[r], res)
  BY DEF Answer, IInv, TypeOK
<1> QED
  BY <1>1 DEF Answered, ReqState

LEMMA WhoMoves ==
  ASSUME IInv, Next, NEW r \in Request, req'[r].pc = "update" \/ req[r].pc = "update",
         req'[r] # req[r]
  PROVE  Load(r) \/ Update(r) \/ req'[r].pc \in {"done", "idle"}
<1>1. ASSUME NEW s \in Request \ {r}, Begin(s) \/ Step(s) \/ Abort(s) PROVE req'[r] = req[r]
  BY <1>1
     DEF Begin, BeginRegister, BeginForgot, BeginLogin, BeginVerify, BeginReset, Step,
         RegisterLookup, RegisterCreate, ForgotLookup, Login, Issue, Send, Consume, Load,
         Update, Reply, Abort, Answer, Goto, IInv, TypeOK
<1>2. ASSUME NEW res, Answer(r, res) PROVE req'[r].pc = "done"
  BY <1>2, AnswerEnds
<1>3. CASE Begin(r)
  BY <1>3
     DEF Begin, BeginRegister, BeginForgot, BeginLogin, BeginVerify, BeginReset, Blank,
         Active, IInv, TypeOK
<1>4. CASE Abort(r) \/ Reply(r)
  BY <1>2, <1>4 DEF Abort, Reply
<1>5. CASE Crash
  BY <1>5 DEF Crash, Blank
<1>6. CASE Step(r) /\ ~ Reply(r) /\ ~ Load(r) /\ ~ Update(r)
  <2>1. req[r].pc # "update"
    BY <1>6
       DEF Step, RegisterLookup, RegisterCreate, ForgotLookup, Login, Issue, Send, Consume, At
  <2>2. req[r] \in ReqState /\ req \in [Request -> ReqState]
    BY DEF IInv, TypeOK
  <2>3. ASSUME NEW pc \in Pc \ {"update"}, Goto(r, pc) PROVE FALSE
    BY <2>1, <2>2, <2>3 DEF Goto, ReqState
  <2>4. CASE RegisterLookup(r) \/ Send(r)
    BY <1>2, <2>3, <2>4 DEF RegisterLookup, Send, Pc
  <2>5. CASE RegisterCreate(r) \/ ForgotLookup(r) \/ Consume(r)
    BY <1>2, <2>1, <2>2, <2>5 DEF RegisterCreate, ForgotLookup, Consume, ReqState
  <2>6. CASE Issue(r)
    BY <2>1, <2>2, <2>6 DEF Issue, ReqState
  <2>7. CASE Login(r)
    BY <1>2, <2>2, <2>7 DEF Login, Answered, ReqState
  <2> QED
    BY <1>6, <2>4, <2>5, <2>6, <2>7 DEF Step
<1>7. CASE Begin(r) \/ Step(r) \/ Abort(r)
  BY <1>3, <1>4, <1>6, <1>7
<1>8. CASE \E t \in Token : Expire(t)
  BY <1>8 DEF Expire
<1>9. CASE \E s \in Request : Begin(s) \/ Step(s) \/ Abort(s)
  <2>1. PICK s \in Request : Begin(s) \/ Step(s) \/ Abort(s)
    BY <1>9
  <2>2. s = r
    BY <1>1, <2>1
  <2> QED
    BY <1>7, <2>1, <2>2
<1> QED
  BY <1>5, <1>8, <1>9 DEF Next

LEMMA ReplyNext == ASSUME IInv, NEW r \in Request, Update(r) PROVE req'[r].pc = "reply"
<1>1. req[r] \in ReqState /\ req' = [req EXCEPT ![r].pc = "reply", ![r].row = None]
  BY DEF Update, IInv, TypeOK
<1>2. req'[r] = [req[r] EXCEPT !.pc = "reply", !.row = None]
  BY <1>1 DEF IInv, TypeOK
<1> QED
  BY <1>1, <1>2 DEF ReqState

THEOREM OneWriterIsEnough == Spec /\ []OneWriterPerUser => OtherFieldIsKept
<1> DEFINE Fresh == \A r \in Request :
                      req[r].pc = "update" => req[r].row = users[req[r].uid]
           Kept == \A r \in Request :
                     req[r].pc = "update" /\ req'[r].pc = "reply" =>
                       LET u == req[r].uid IN
                       IF req[r].op = "verify" THEN users'[u].hash = users[u].hash
                                               ELSE users'[u].verified = users[u].verified
<1>1. Init => Fresh
  BY DEF Init, Blank
<1>2. IInv /\ OneWriterPerUser /\ Fresh /\ [Next]_vars => Fresh'
  <2> SUFFICES ASSUME IInv, OneWriterPerUser, Fresh, [Next]_vars, NEW r \in Request,
                      req'[r].pc = "update"
               PROVE  req'[r].row = users'[req'[r].uid]
    OBVIOUS
  <2>1. CASE Load(r)
    <3>1. ~ Answer(r, "error")
      BY AnswerEnds
    <3>2. /\ req' = [req EXCEPT ![r].pc = "update", ![r].row = users[req[r].uid]]
          /\ UNCHANGED users
      BY <2>1, <3>1 DEF Load
    <3> QED
      BY <3>2 DEF IInv, TypeOK, ReqState
  <2>2. CASE req'[r] = req[r]
    <3>1. req[r].pc = "update" /\ req[r].row = users[req[r].uid] /\ req[r].uid \in Accounts
      BY <2>2 DEF IInv, RequestInv, HasRedeemed, Accounts
    <3>2. CASE users'[req[r].uid] = users[req[r].uid]
      BY <2>2, <3>1, <3>2
    <3>3. CASE users'[req[r].uid] # users[req[r].uid]
      <4>1. PICK s \in Request : Update(s) /\ req[s].uid = req[r].uid
        BY <3>1, <3>3, RowWriter DEF vars
      <4>2. s = r
        BY <3>1, <4>1 DEF Update, OneWriterPerUser
      <4>3. req'[r].pc = "reply"
        BY <4>1, <4>2, ReplyNext
      <4> QED
        BY <4>3
    <3> QED
      BY <3>2, <3>3
  <2>3. CASE Update(r)
    BY <2>3, ReplyNext
  <2> QED
    BY <2>1, <2>2, <2>3, WhoMoves DEF vars
<1>3. IInv /\ Fresh /\ [Next]_vars => [Kept]_vars
  <2> SUFFICES ASSUME IInv, Fresh, Next, NEW r \in Request,
                      req[r].pc = "update", req'[r].pc = "reply"
               PROVE  LET u == req[r].uid IN
                      IF req[r].op = "verify" THEN users'[u].hash = users[u].hash
                                              ELSE users'[u].verified = users[u].verified
    BY DEF vars
  <2>1. Update(r)
    BY WhoMoves DEF Load
  <2>2. /\ req[r].row \in Row /\ req[r].row = users[req[r].uid] /\ req[r].uid \in UserId
        /\ users'[req[r].uid] = Changed(req[r])
    BY <2>1 DEF Update, IInv, TypeOK, RequestInv, HasRedeemed
  <2> QED
    BY <2>2 DEF Changed, Row
<1> QED
  BY <1>1, <1>2, <1>3, SpecInv, PTL DEF Spec, OtherFieldIsKept
=============================================================================
