--------------------------- MODULE HubAuthProofs ----------------------------
(***************************************************************************)
(* Proofs about HubAuth, for any browsers, users, flows, session ids and    *)
(* requests.                                                                *)
(*                                                                          *)
(* A session reaches a browser only through the state cookie, and a cookie  *)
(* only through a login of the same browser.  IInv carries "of this browser" *)
(* from the drawing of the state through every request under way, and       *)
(* through the code that came along with it, to the page.                   *)
(***************************************************************************)
EXTENDS HubAuth, TLAPS

OwnFlow(b, f) == f \in Flow /\ flows[f].st # "none" /\ flows[f].browser = b

\* The code of c was exchanged along with a state of browser b.
TakenBy(b, c) == c \in Flow /\ flows[c].st = "spent" /\ OwnFlow(b, flows[c].with)

OwnSession(b, h) ==
  h \in HubId /\ sessions[h] # None /\ TakenBy(b, sessions[h].flow)

\* Somebody signed in as u in a login that browser b took up.
SignedIn(b, u) == \E c \in Flow : TakenBy(b, c) /\ flows[c].user = u

JarInv(b) ==
  /\ stateJar[b] # None => OwnFlow(b, stateJar[b])
  /\ sessionJar[b] # None => OwnSession(b, sessionJar[b])

\* A session is of whoever signed in for the flow it came from.
SessionInv(h) ==
  sessions[h] # None =>
    flows[sessions[h].flow].st = "spent" /\ flows[sessions[h].flow].user = sessions[h].subject

FlowInv(f) ==
  /\ flows[f].st # "none" => flows[f].browser \in Browser
  /\ flows[f].st \in {"code", "spent"} => flows[f].user \in User
  /\ flows[f].st \notin {"code", "spent"} => flows[f].user = None
  /\ flows[f].st = "spent" <=> flows[f].with # None

RequestInv(r) ==
  LET q == req[r] IN
  /\ Active(r) => q.browser \in Browser
  /\ ~ At(r, "page", "reply")
  /\ At(r, "login", "reply") => OwnFlow(q.browser, q.flow) /\ flows[q.flow].st = "drawn"
  /\ q.pc \in {"exchange", "create"} =>
       q.op = "callback" /\ OwnFlow(q.browser, q.flow)
  /\ q.pc = "create" => TakenBy(q.browser, q.code) /\ q.user = flows[q.code].user
  /\ At(r, "callback", "reply") => OwnSession(q.browser, q.id)
  /\ q.pc = "subject" => q.op = "page" /\ OwnSession(q.browser, q.id)
  /\ q.pc = "delete" => q.op = "logout" /\ q.id \in HubId
  /\ At(r, "page", "done") /\ q.res = "ok" => SignedIn(q.browser, q.user)

\* Two logins do not share a flow.
LoginsApart ==
  \A r, s \in Request :
    At(r, "login", "reply") /\ At(s, "login", "reply") /\ r # s =>
      req[r].flow # req[s].flow

IInv ==
  /\ TypeOK
  /\ \A r \in Request : RequestInv(r)
  /\ \A b \in Browser : JarInv(b)
  /\ \A h \in HubId : SessionInv(h)
  /\ \A f \in Flow : FlowInv(f)
  /\ \A h \in live : sessions[h] # None
  /\ LoginsApart

\* Flows only go on and keep what is known of them; sessions are stored once.
Grown ==
  /\ \A f \in Flow :
       /\ flows[f].st # "none" =>
            flows'[f].st # "none" /\ flows'[f].browser = flows[f].browser
       /\ flows[f].st = "spent" =>
            /\ flows'[f].st = "spent" /\ flows'[f].user = flows[f].user
            /\ flows'[f].with = flows[f].with
  /\ \A h \in HubId : sessions[h] # None => sessions'[h] = sessions[h]

-----------------------------------------------------------------------------
LEMMA OwnIsStable ==
  ASSUME IInv, Grown, NEW b \in Browser
  PROVE  /\ \A f \in Flow : OwnFlow(b, f) => OwnFlow(b, f)'
         /\ \A f \in Flow : TakenBy(b, f) => TakenBy(b, f)'
         /\ \A h \in HubId : OwnSession(b, h) => OwnSession(b, h)'
         /\ \A u \in User : SignedIn(b, u) => SignedIn(b, u)'
<1>1. \A f \in Flow : OwnFlow(b, f) => OwnFlow(b, f)'
  BY DEF OwnFlow, Grown
<1>2. ASSUME NEW c \in Flow, TakenBy(b, c) PROVE TakenBy(b, c)'
  BY <1>2 DEF TakenBy, OwnFlow, Grown
<1>3. ASSUME NEW h \in HubId, OwnSession(b, h) PROVE OwnSession(b, h)'
  <2>1. sessions'[h] = sessions[h] /\ sessions[h].flow \in Flow
    BY <1>3 DEF OwnSession, TakenBy, Grown
  <2> QED
    BY <1>2, <1>3, <2>1 DEF OwnSession, TakenBy, OwnFlow
<1>4. ASSUME NEW u \in User, SignedIn(b, u) PROVE SignedIn(b, u)'
  <2>1. PICK c \in Flow : TakenBy(b, c) /\ flows[c].user = u
    BY <1>4 DEF SignedIn
  <2>2. TakenBy(b, c)' /\ flows'[c].user = u
    BY <1>2, <2>1 DEF TakenBy, Grown
  <2> QED
    BY <2>2 DEF SignedIn
<1> QED
  BY <1>1, <1>2, <1>3, <1>4

\* Requests that do not move keep what they know; a login keeps its flow to itself.
LEMMA RequestIsStable ==
  ASSUME IInv, Grown, NEW r \in Request, req'[r] = req[r],
         At(r, "login", "reply") => flows'[req[r].flow] = flows[req[r].flow]
  PROVE  RequestInv(r)'
<1>1. RequestInv(r) /\ req[r] \in ReqState
  BY DEF IInv, TypeOK
<1>2. Active(r)' = Active(r) /\ \A op, pc : At(r, op, pc)' = At(r, op, pc)
  BY DEF Active, At
<1>3. CASE Active(r)
  <2> DEFINE q == req[r]
  <2>1. q.browser \in Browser
    BY <1>1, <1>3 DEF RequestInv
  <2>2. OwnFlow(q.browser, q.flow) =>
          q.flow \in Flow /\ flows'[q.flow].st # "none" /\ flows'[q.flow].browser = q.browser
    BY DEF OwnFlow, Grown
  <2>3. TakenBy(q.browser, q.code) =>
          /\ q.code \in Flow /\ flows'[q.code].st = "spent"
          /\ flows'[q.code].user = flows[q.code].user
          /\ flows'[q.code].with = flows[q.code].with
          /\ flows[q.code].with \in Flow /\ flows'[flows[q.code].with].st # "none"
          /\ flows'[flows[q.code].with].browser = q.browser
    BY DEF TakenBy, OwnFlow, Grown
  <2>4. OwnSession(q.browser, q.id) =>
          /\ q.id \in HubId /\ sessions'[q.id] # None
          /\ LET c == sessions'[q.id].flow IN
             /\ c \in Flow /\ flows'[c].st = "spent"
             /\ flows'[c].with \in Flow /\ flows'[flows'[c].with].st # "none"
             /\ flows'[flows'[c].with].browser = q.browser
    BY DEF OwnSession, TakenBy, OwnFlow, Grown
  <2> QED
    BY <1>1, <1>3, <2>1, <2>2, <2>3, <2>4
       DEF RequestInv, Active, At, OwnFlow, OwnSession, TakenBy
<1>4. CASE ~ Active(r)
  <2>1. At(r, "page", "done") /\ req[r].res = "ok" => SignedIn(req[r].browser, req[r].user)
    BY <1>1 DEF RequestInv
  <2>2. SignedIn(req[r].browser, req[r].user) =>
          \E c \in Flow : /\ flows'[c].st = "spent" /\ flows'[c].user = req[r].user
                          /\ flows'[c].with \in Flow /\ flows'[flows'[c].with].st # "none"
                          /\ flows'[flows'[c].with].browser = req[r].browser
    BY DEF SignedIn, TakenBy, OwnFlow, Grown
  <2> QED
    BY <1>4, <2>1, <2>2 DEF RequestInv, Active, At, SignedIn, TakenBy, OwnFlow
<1> QED
  BY <1>3, <1>4

\* One request moves, or none; flows and sessions go on; jars are looked at apart.
LEMMA StepInv ==
  ASSUME IInv, Grown, TypeOK',
         \A b \in Browser : JarInv(b)',
         \A h \in HubId : SessionInv(h)',
         \A f \in Flow : FlowInv(f)',
         \A h \in live' : sessions'[h] # None,
         NEW r \in Request, RequestInv(r)',
         \A s \in Request \ {r} :
           /\ req'[s] = req[s]
           /\ At(s, "login", "reply") =>
                /\ flows'[req[s].flow] = flows[req[s].flow]
                /\ At(r, "login", "reply")' => req'[r].flow # req[s].flow
  PROVE  Grown /\ IInv'
<1>1. \A s \in Request : RequestInv(s)'
  BY RequestIsStable
<1>2. LoginsApart'
  BY DEF LoginsApart, At, IInv
<1> QED
  BY <1>1, <1>2 DEF IInv

\* Where nothing but the requests changes.
LEMMA SameStores ==
  ASSUME IInv, UNCHANGED <<jars, flows, sessions>>, live' \subseteq live
  PROVE  /\ Grown
         /\ \A b \in Browser : JarInv(b)'
         /\ \A h \in HubId : SessionInv(h)'
         /\ \A f \in Flow : FlowInv(f)'
         /\ \A h \in live' : sessions'[h] # None
<1>1. Grown
  BY DEF Grown
<1> QED
  BY <1>1 DEF IInv, JarInv, SessionInv, FlowInv, OwnFlow, OwnSession, TakenBy, jars

\* A request that goes nowhere near a flow of its own: what it answers with
\* carries nothing.
LEMMA AnswerInv ==
  ASSUME IInv, Grown, NEW r \in Request, NEW res \in Result, Answer(r, res),
         TypeOK',
         \A b \in Browser : JarInv(b)',
         \A h \in HubId : SessionInv(h)',
         \A f \in Flow : FlowInv(f)',
         \A h \in live' : sessions'[h] # None,
         res # "ok",
         \A s \in Request \ {r} :
           At(s, "login", "reply") => flows'[req[s].flow] = flows[req[s].flow]
  PROVE  Grown /\ IInv'
<1>1. req'[r] = [Blank EXCEPT !.op = req[r].op, !.pc = "done", !.res = res]
  BY DEF Answer, IInv, TypeOK
<1>2. req'[r].pc = "done" /\ req'[r].res = res
  BY <1>1 DEF Blank
<1>3. RequestInv(r)'
  BY <1>2 DEF RequestInv, Active, At
<1>4. \A s \in Request \ {r} : req'[s] = req[s]
  BY DEF Answer, IInv, TypeOK
<1> QED
  BY <1>2, <1>3, <1>4, StepInv DEF At

LEMMA AnswerType ==
  ASSUME IInv, NEW r \in Request, NEW res \in Result, Answer(r, res)
  PROVE  req' \in [Request -> ReqState]
  BY DEF Answer, IInv, TypeOK, Blank, ReqState, Pc

-----------------------------------------------------------------------------
LEMMA BeginLoginInv ==
  ASSUME IInv, NEW r \in Request, NEW b \in Browser, BeginLogin(r, b)
  PROVE  Grown /\ IInv'
<1>1. PICK f \in Flow :
        /\ flows[f].st = "none"
        /\ flows' = [flows EXCEPT ![f].st = "drawn", ![f].browser = b]
        /\ req' = [req EXCEPT ![r] = [Blank EXCEPT !.op = "login", !.pc = "reply",
                                        !.browser = b, !.flow = f]]
  BY DEF BeginLogin
<1>2. UNCHANGED <<jars, sessions, live>>
  BY DEF BeginLogin, store
<1>3. /\ req'[r].op = "login" /\ req'[r].pc = "reply" /\ req'[r].browser = b
      /\ req'[r].flow = f /\ req'[r] \in ReqState
  BY <1>1 DEF IInv, TypeOK, Blank, ReqState, Op, Pc, Result
<1>4. /\ flows'[f].st = "drawn" /\ flows'[f].browser = b /\ flows'[f].user = flows[f].user
      /\ flows'[f].with = flows[f].with /\ flows'[f] \in FlowRec
      /\ \A g \in Flow \ {f} : flows'[g] = flows[g]
      /\ flows' \in [Flow -> FlowRec]
  BY <1>1 DEF IInv, TypeOK, FlowRec, FlowState
<1>5. Grown
  BY <1>1, <1>2, <1>4 DEF Grown
<1>6. TypeOK'
  BY <1>1, <1>2, <1>3, <1>4 DEF IInv, TypeOK, jars
<1>7. ASSUME NEW c \in Browser PROVE JarInv(c)'
  <2>1. JarInv(c)
    BY DEF IInv
  <2>2. stateJar'[c] = stateJar[c] /\ sessionJar'[c] = sessionJar[c]
    BY <1>2 DEF jars
  <2> QED
    BY <1>5, <2>1, <2>2, OwnIsStable DEF JarInv, OwnFlow, OwnSession, TakenBy
<1>8. ASSUME NEW h \in HubId PROVE SessionInv(h)'
  BY <1>1, <1>2, <1>4 DEF IInv, SessionInv, TypeOK, HubSession
<1>9. ASSUME NEW g \in Flow PROVE FlowInv(g)'
  BY <1>1, <1>4 DEF IInv, FlowInv
<1>10. RequestInv(r)'
  BY <1>3, <1>4 DEF RequestInv, Active, At, OwnFlow
<1>11. ASSUME NEW s \in Request \ {r}
       PROVE  /\ req'[s] = req[s]
              /\ At(s, "login", "reply") =>
                   /\ flows'[req[s].flow] = flows[req[s].flow]
                   /\ req'[r].flow # req[s].flow
  <2>1. req'[s] = req[s]
    BY <1>1 DEF IInv, TypeOK
  <2>2. At(s, "login", "reply") => req[s].flow \in Flow /\ flows[req[s].flow].st = "drawn"
    BY DEF IInv, RequestInv, OwnFlow
  <2> QED
    BY <1>1, <1>3, <1>4, <2>1, <2>2
<1>12. \A h \in live' : sessions'[h] # None
  BY <1>2 DEF IInv
<1> QED
  BY <1>5, <1>6, <1>7, <1>8, <1>9, <1>10, <1>11, <1>12, StepInv

\* The other requests only look at the jars and the flows when they begin.
LEMMA BeginInv ==
  ASSUME IInv, NEW r \in Request, Begin(r)
  PROVE  Grown /\ IInv'
<1> PICK b \in Browser :
      \/ BeginLogin(r, b) \/ BeginLogout(r, b) \/ BeginPage(r, b)
      \/ \E f \in States, c \in Codes : BeginCallback(r, b, f, c)
  BY DEF Begin
<1>1. ASSUME NEW q \in ReqState, req' = [req EXCEPT ![r] = q],
             UNCHANGED <<jars, flows, sessions, live>>,
             ~ (q.op = "login" /\ q.pc = "reply"), RequestInv(r)'
      PROVE  Grown /\ IInv'
  <2>1. TypeOK'
    BY <1>1 DEF IInv, TypeOK, jars
  <2>2. req'[r] = q /\ \A s \in Request \ {r} : req'[s] = req[s]
    BY <1>1 DEF IInv, TypeOK
  <2> QED
    BY <1>1, <2>1, <2>2, SameStores, StepInv DEF At
<1>2. CASE BeginLogout(r, b)
  <2> DEFINE q == [Blank EXCEPT !.op = "logout", !.browser = b, !.id = sessionJar[b],
                     !.pc = IF sessionJar[b] = None THEN "reply" ELSE "delete"]
  <2>1. req' = [req EXCEPT ![r] = q] /\ UNCHANGED <<jars, flows, sessions, live>>
    BY <1>2 DEF BeginLogout, store
  <2>2. /\ q.op = "logout" /\ q.browser = b /\ q.id = sessionJar[b]
        /\ q.pc = (IF sessionJar[b] = None THEN "reply" ELSE "delete")
        /\ sessionJar[b] \in HubId \cup {None} /\ q \in ReqState
    BY DEF IInv, TypeOK, Blank, ReqState, Op, Pc, Result
  <2>3. req'[r] = q
    BY <2>1 DEF IInv, TypeOK
  <2> HIDE DEF q
  <2>4. RequestInv(r)'
    BY <2>2, <2>3 DEF RequestInv, Active, At
  <2> QED
    BY <1>1, <2>1, <2>2, <2>4
<1>3. CASE BeginPage(r, b)
  <2> DEFINE q == IF sessionJar[b] = None
                  THEN [Blank EXCEPT !.pc = "done", !.res = "redirect"]
                  ELSE [Blank EXCEPT !.pc = "subject", !.browser = b, !.id = sessionJar[b]]
  <2>1. req' = [req EXCEPT ![r] = q] /\ UNCHANGED <<jars, flows, sessions, live>>
    BY <1>3 DEF BeginPage, store
  <2>2. /\ q.op = "page" /\ sessionJar[b] \in HubId \cup {None} /\ q \in ReqState
        /\ sessionJar[b] = None => q.pc = "done" /\ q.res = "redirect"
        /\ sessionJar[b] # None => q.pc = "subject" /\ q.browser = b /\ q.id = sessionJar[b]
    BY DEF IInv, TypeOK, Blank, ReqState, Op, Pc, Result
  <2>3. req'[r] = q
    BY <2>1 DEF IInv, TypeOK
  <2>4. sessionJar[b] # None => OwnSession(b, sessionJar[b])
    BY DEF IInv, JarInv
  <2> HIDE DEF q
  <2>5. RequestInv(r)'
    BY <2>1, <2>2, <2>3, <2>4 DEF RequestInv, Active, At, OwnSession, OwnFlow, TakenBy, jars
  <2> QED
    BY <1>1, <2>1, <2>2, <2>5
<1>4. CASE \E f \in States, c \in Codes : BeginCallback(r, b, f, c)
  <2> PICK f \in States, c \in Codes : BeginCallback(r, b, f, c)
    BY <1>4
  <2>0. f \in Flow \cup {None} /\ c \in Flow \cup {None}
    BY DEF States, Codes
  <2> DEFINE q == IF StateMatches(stateJar[b], f)
                  THEN [Blank EXCEPT !.op = "callback", !.pc = "exchange", !.browser = b,
                                     !.flow = f, !.code = c]
                  ELSE [Blank EXCEPT !.op = "callback", !.pc = "done", !.res = "invalid"]
  <2>1. req' = [req EXCEPT ![r] = q] /\ UNCHANGED <<jars, flows, sessions, live>>
    BY DEF BeginCallback, store
  <2>2. /\ q.op = "callback" /\ q \in ReqState
        /\ StateMatches(stateJar[b], f) =>
             q.pc = "exchange" /\ q.browser = b /\ q.flow = f
        /\ ~ StateMatches(stateJar[b], f) => q.pc = "done"
    BY <2>0 DEF Blank, ReqState, Op, Pc, Result
  <2>3. req'[r] = q
    BY <2>1 DEF IInv, TypeOK
  <2>4. StateMatches(stateJar[b], f) => OwnFlow(b, f)
    BY DEF IInv, JarInv, StateMatches
  <2> HIDE DEF q
  <2>5. RequestInv(r)'
    BY <2>1, <2>2, <2>3, <2>4 DEF RequestInv, Active, At, OwnFlow
  <2> QED
    BY <1>1, <2>1, <2>2, <2>5
<1> QED
  BY <1>2, <1>3, <1>4, BeginLoginInv

-----------------------------------------------------------------------------
\* An exchange spends a code: no login is on its way with that flow.
LEMMA ExchangeInv ==
  ASSUME IInv, NEW r \in Request, Exchange(r)
  PROVE  Grown /\ IInv'
<1> PICK f, c : f = req[r].flow /\ c = req[r].code
  OBVIOUS
<1>1. /\ f \in Flow /\ req[r].op = "callback" /\ req[r].browser \in Browser
      /\ OwnFlow(req[r].browser, f)
      /\ UNCHANGED <<jars, sessions, live>>
  BY DEF IInv, RequestInv, Exchange, OwnFlow, Active, store
<1>2. req[r] \in ReqState /\ flows \in [Flow -> FlowRec] /\ c \in Flow \cup {None}
  BY DEF IInv, TypeOK, ReqState
<1>3. CASE ~ (c # None /\ flows[c].st = "code")
  <2>1. Answer(r, "error") /\ UNCHANGED flows
    BY <1>3 DEF Exchange
  <2>2. TypeOK'
    BY <1>1, <2>1, AnswerType DEF IInv, TypeOK, jars, Result
  <2> QED
    BY <1>1, <2>1, <2>2, SameStores, AnswerInv DEF Result
<1>4. CASE c # None /\ flows[c].st = "code"
  <2>0. c \in Flow
    BY <1>2, <1>4
  <2>1. PICK subject \in {flows[c].user, None} :
          /\ flows' = [flows EXCEPT ![c].st = "spent", ![c].with = f]
          /\ IF Accepted(subject)
             THEN req' = [req EXCEPT ![r].pc = "create", ![r].user = subject]
             ELSE Answer(r, "error")
    BY <1>4 DEF Exchange
  <2>2. /\ flows'[c].st = "spent" /\ flows'[c].browser = flows[c].browser
        /\ flows'[c].user = flows[c].user /\ flows'[c].with = f
        /\ \A g \in Flow \ {c} : flows'[g] = flows[g]
        /\ flows' \in [Flow -> FlowRec]
    <3> DEFINE gone == [flows[c] EXCEPT !.st = "spent", !.with = f]
    <3>1. flows' = [flows EXCEPT ![c] = gone]
      BY <2>0, <2>1, <1>2
    <3>2. /\ gone \in FlowRec /\ gone.st = "spent" /\ gone.browser = flows[c].browser
          /\ gone.user = flows[c].user /\ gone.with = f
      <4> DEFINE spent == [flows[c] EXCEPT !.st = "spent"]
      <4>1. /\ spent \in FlowRec /\ spent.st = "spent" /\ spent.user = flows[c].user
            /\ spent.browser = flows[c].browser
        BY <1>2, <2>0 DEF FlowRec, FlowState
      <4>2. gone = [spent EXCEPT !.with = f]
        BY <1>2, <2>0 DEF FlowRec
      <4> HIDE DEF spent, gone
      <4> QED
        BY <1>1, <4>1, <4>2 DEF FlowRec
    <3> HIDE DEF gone
    <3> QED
      BY <1>2, <2>0, <3>1, <3>2
  <2>3. Grown
    BY <1>1, <1>4, <2>0, <2>2 DEF Grown
  <2>4. ASSUME NEW b \in Browser PROVE JarInv(b)'
    <3>1. JarInv(b) /\ stateJar'[b] = stateJar[b] /\ sessionJar'[b] = sessionJar[b]
      BY <1>1 DEF IInv, jars
    <3> QED
      BY <2>3, <3>1, OwnIsStable DEF JarInv, OwnFlow, OwnSession, TakenBy
  <2>5. ASSUME NEW h \in HubId PROVE SessionInv(h)'
    BY <1>1, <1>4, <2>2 DEF IInv, SessionInv, TypeOK, HubSession
  <2>6. ASSUME NEW g \in Flow PROVE FlowInv(g)'
    BY <1>1, <1>4, <2>0, <2>2, NoneAssumption DEF IInv, FlowInv
  <2>7. \A h \in live' : sessions'[h] # None
    BY <1>1 DEF IInv
  <2>8. \A s \in Request \ {r} :
          At(s, "login", "reply") => flows'[req[s].flow] = flows[req[s].flow]
    BY <1>4, <2>2 DEF IInv, RequestInv, OwnFlow
  <2>9. CASE Accepted(subject)
    <3> DEFINE q == [req[r] EXCEPT !.pc = "create", !.user = subject]
    <3>1. subject = flows[c].user /\ subject \in User
      BY <1>4, <2>0, <2>9 DEF Accepted, IInv, FlowInv
    <3>2. /\ q \in ReqState /\ q.pc = "create" /\ q.op = "callback" /\ q.user = subject
          /\ q.flow = f /\ q.code = c /\ q.browser = req[r].browser
      BY <1>1, <1>2, <3>1 DEF ReqState, Pc
    <3>3. req'[r] = q /\ req' = [req EXCEPT ![r] = q] /\ \A s \in Request \ {r} : req'[s] = req[s]
      BY <2>1, <2>9, <1>2 DEF IInv, TypeOK
    <3> HIDE DEF q
    <3>4. TypeOK'
      BY <1>1, <2>2, <3>2, <3>3 DEF IInv, TypeOK, jars
    <3>5. RequestInv(r)'
      <4>1. flows'[f].st # "none" /\ flows'[f].browser = req[r].browser
        BY <1>1, <2>3 DEF Grown, OwnFlow
      <4> QED
        BY <1>1, <2>0, <2>2, <3>1, <3>2, <3>3, <4>1
           DEF RequestInv, Active, At, OwnFlow, TakenBy
    <3>6. ~ At(r, "login", "reply")'
      BY <3>2, <3>3 DEF At
    <3> QED
      BY <2>3, <2>4, <2>5, <2>6, <2>7, <2>8, <3>3, <3>4, <3>5, <3>6, StepInv
  <2>10. CASE ~ Accepted(subject)
    <3>1. Answer(r, "error")
      BY <2>1, <2>10
    <3>2. TypeOK'
      BY <1>1, <2>2, <3>1, AnswerType DEF IInv, TypeOK, jars, Result
    <3> QED
      BY <2>3, <2>4, <2>5, <2>6, <2>7, <2>8, <3>1, <3>2, AnswerInv DEF Result
  <2> QED
    BY <2>9, <2>10
<1> QED
  BY <1>3, <1>4

LEMMA CreateInv ==
  ASSUME IInv, NEW r \in Request, Create(r)
  PROVE  Grown /\ IInv'
<1> DEFINE f == req[r].code
           new == [subject |-> req[r].user, flow |-> f]
<1>1. PICK h \in HubId :
        /\ sessions[h] = None
        /\ sessions' = [sessions EXCEPT ![h] = new]
        /\ live' = live \cup {h}
        /\ req' = [req EXCEPT ![r].pc = "reply", ![r].id = h, ![r].user = None]
  BY DEF Create
<1>2. req[r].pc = "create" /\ UNCHANGED <<jars, flows>>
  BY DEF Create
<1>3. /\ f \in Flow /\ req[r].op = "callback" /\ req[r].browser \in Browser
      /\ TakenBy(req[r].browser, f) /\ flows[f].st = "spent"
      /\ req[r].user = flows[f].user /\ req[r].user \in User /\ req[r] \in ReqState
  BY <1>2 DEF IInv, RequestInv, TakenBy, Active, FlowInv, TypeOK
<1>4. new \in HubSession /\ new # None /\ new.flow = f /\ new.subject = flows[f].user
  BY <1>3, NoneAssumption DEF HubSession
<1> DEFINE q == [req[r] EXCEPT !.pc = "reply", !.id = h, !.user = None]
<1>5. /\ q \in ReqState /\ q.pc = "reply" /\ q.op = "callback" /\ q.id = h
      /\ q.browser = req[r].browser
  BY <1>3 DEF ReqState, Pc
<1>6. req'[r] = q /\ req' = [req EXCEPT ![r] = q] /\ \A s \in Request \ {r} : req'[s] = req[s]
  BY <1>1, <1>3 DEF IInv, TypeOK
<1> HIDE DEF q, new
<1>7. sessions'[h] = new /\ \A g \in HubId \ {h} : sessions'[g] = sessions[g]
  BY <1>1 DEF IInv, TypeOK
<1>8. Grown
  BY <1>1, <1>2, <1>7 DEF Grown
<1>9. TypeOK'
  BY <1>1, <1>2, <1>4, <1>5, <1>6 DEF IInv, TypeOK, jars
<1>10. ASSUME NEW b \in Browser PROVE JarInv(b)'
  <2>1. JarInv(b) /\ stateJar'[b] = stateJar[b] /\ sessionJar'[b] = sessionJar[b]
    BY <1>2 DEF IInv, jars
  <2> QED
    BY <1>8, <2>1, OwnIsStable DEF JarInv, OwnFlow, OwnSession, TakenBy
<1>11. ASSUME NEW g \in HubId PROVE SessionInv(g)'
  BY <1>2, <1>3, <1>4, <1>7 DEF IInv, SessionInv
<1>12. \A g \in Flow : FlowInv(g)'
  BY <1>2 DEF IInv, FlowInv
<1>13. \A g \in live' : sessions'[g] # None
  BY <1>1, <1>4, <1>7 DEF IInv, TypeOK
<1>14. RequestInv(r)'
  BY <1>2, <1>3, <1>4, <1>5, <1>6, <1>7 DEF RequestInv, Active, At, OwnSession, OwnFlow, TakenBy
<1>15. ~ At(r, "login", "reply")'
  BY <1>5, <1>6 DEF At
<1> QED
  BY <1>2, <1>6, <1>8, <1>9, <1>10, <1>11, <1>12, <1>13, <1>14, <1>15, StepInv

LEMMA DeleteInv ==
  ASSUME IInv, NEW r \in Request, Delete(r)
  PROVE  Grown /\ IInv'
<1> DEFINE q == [req[r] EXCEPT !.pc = "reply"]
<1>1. req[r].pc = "delete" /\ live' \subseteq live /\ UNCHANGED <<jars, flows, sessions>>
  BY DEF Delete
<1>2. req[r].op = "logout" /\ req[r].browser \in Browser /\ req[r] \in ReqState
  BY <1>1 DEF IInv, RequestInv, Active, TypeOK
<1>3. q \in ReqState /\ q.pc = "reply" /\ q.op = "logout" /\ q.browser = req[r].browser
  BY <1>2 DEF ReqState, Pc
<1>4. req'[r] = q /\ req' = [req EXCEPT ![r] = q] /\ \A s \in Request \ {r} : req'[s] = req[s]
  BY <1>2 DEF Delete, Goto, IInv, TypeOK
<1> HIDE DEF q
<1>5. TypeOK'
  BY <1>1, <1>3, <1>4 DEF IInv, TypeOK, jars
<1>6. RequestInv(r)' /\ ~ At(r, "login", "reply")'
  BY <1>2, <1>3, <1>4 DEF RequestInv, Active, At
<1> QED
  BY <1>1, <1>4, <1>5, <1>6, SameStores, StepInv

LEMMA GuardInv ==
  ASSUME IInv, NEW r \in Request, Guard(r)
  PROVE  Grown /\ IInv'
<1>1. req[r].pc = "subject" /\ UNCHANGED <<jars, flows, sessions, live>>
  BY DEF Guard, store
<1>2. /\ req[r].op = "page" /\ req[r].browser \in Browser /\ req[r] \in ReqState
      /\ OwnSession(req[r].browser, req[r].id)
  BY <1>1 DEF IInv, RequestInv, Active, TypeOK
<1>3. CASE Answer(r, "redirect")
  <2>1. TypeOK'
    BY <1>1, <1>3, AnswerType DEF IInv, TypeOK, jars, Result
  <2> QED
    BY <1>1, <1>3, <2>1, SameStores, AnswerInv DEF Result
<1>4. CASE ~ Answer(r, "redirect")
  <2> DEFINE u == sessions[req[r].id].subject
             q == [req[r] EXCEPT !.pc = "done", !.res = "ok", !.user = u]
  <2>1. req' = [req EXCEPT ![r].pc = "done", ![r].res = "ok", ![r].user = u]
    BY <1>4 DEF Guard, Subject
  <2>2. u \in User /\ SignedIn(req[r].browser, u)
    <3>1. sessions[req[r].id] \in HubSession /\ SessionInv(req[r].id)
      BY <1>2 DEF IInv, TypeOK, OwnSession
    <3> QED
      BY <1>2, <3>1 DEF SessionInv, SignedIn, OwnSession, TakenBy, HubSession
  <2>3. /\ q \in ReqState /\ q.pc = "done" /\ q.op = "page" /\ q.user = u
        /\ q.browser = req[r].browser
    BY <1>2, <2>2 DEF ReqState, Pc, Result
  <2>4. req'[r] = q /\ req' = [req EXCEPT ![r] = q] /\ \A s \in Request \ {r} : req'[s] = req[s]
    BY <1>2, <2>1 DEF IInv, TypeOK
  <2> HIDE DEF q, u
  <2>5. TypeOK'
    BY <1>1, <2>3, <2>4 DEF IInv, TypeOK, jars
  <2>6. RequestInv(r)' /\ ~ At(r, "login", "reply")'
    BY <1>1, <2>2, <2>3, <2>4 DEF RequestInv, Active, At, SignedIn, TakenBy, OwnFlow
  <2> QED
    BY <1>1, <2>4, <2>5, <2>6, SameStores, StepInv
<1> QED
  BY <1>3, <1>4

\* The answer of a login brings a flow of this browser, that of a callback a
\* session of this browser.
LEMMA DeliverInv ==
  ASSUME IInv, NEW r \in Request, Deliver(r)
  PROVE  Grown /\ IInv'
<1> PICK b, f : b = req[r].browser /\ f = req[r].flow
  OBVIOUS
<1> DEFINE q == [Blank EXCEPT !.op = req[r].op, !.pc = "done", !.res = "ok"]
<1>1. req[r].pc = "reply" /\ UNCHANGED <<sessions, live>>
  BY DEF Deliver, store
<1>2. b \in Browser /\ req[r] \in ReqState /\ RequestInv(r)
  BY <1>1 DEF IInv, RequestInv, Active, TypeOK
<1>3. q \in ReqState /\ q.pc = "done" /\ q.op = req[r].op
  BY <1>2 DEF ReqState, Pc, Result, Blank
<1>4. req'[r] = q /\ req' = [req EXCEPT ![r] = q] /\ \A s \in Request \ {r} : req'[s] = req[s]
  BY DEF Deliver, IInv, TypeOK
<1>5. req[r].op # "page"
  BY <1>1, <1>2 DEF RequestInv, At
<1> HIDE DEF q
<1>6. RequestInv(r)' /\ ~ At(r, "login", "reply")'
  BY <1>3, <1>4, <1>5 DEF RequestInv, Active, At
<1>7. CASE req[r].op = "login"
  <2>1. f \in Flow /\ flows[f].st = "drawn" /\ flows[f].browser = b
    BY <1>1, <1>2, <1>7 DEF RequestInv, At, OwnFlow
  <2>2. /\ stateJar' = [stateJar EXCEPT ![b] = f] /\ sessionJar' = sessionJar
        /\ flows' = [flows EXCEPT ![f].st = "begun"]
    BY <1>7 DEF Deliver, IInv, TypeOK
  <2>3. /\ flows'[f].st = "begun" /\ flows'[f].browser = b /\ flows'[f].user = flows[f].user
        /\ flows'[f].with = flows[f].with
        /\ \A g \in Flow \ {f} : flows'[g] = flows[g]
        /\ flows' \in [Flow -> FlowRec]
    BY <2>1, <2>2 DEF FlowRec, FlowState, IInv, TypeOK
  <2>4. Grown
    BY <1>1, <2>1, <2>3 DEF Grown
  <2>5. TypeOK'
    BY <1>1, <1>2, <1>3, <1>4, <2>1, <2>2, <2>3 DEF IInv, TypeOK
  <2>6. ASSUME NEW c \in Browser PROVE JarInv(c)'
    <3>1. JarInv(c) /\ sessionJar'[c] = sessionJar[c]
      BY <2>2 DEF IInv
    <3>2. stateJar'[c] = IF c = b THEN f ELSE stateJar[c]
      BY <2>2 DEF IInv, TypeOK
    <3>3. PICK g, h : g = stateJar[c] /\ h = sessionJar[c]
      OBVIOUS
    <3>4. h # None => OwnSession(c, h)'
      BY <2>4, <3>1, <3>3, OwnIsStable DEF JarInv, OwnSession
    <3>5. g # None => OwnFlow(c, g)'
      BY <2>4, <3>1, <3>3, OwnIsStable DEF JarInv, OwnFlow
    <3>6. OwnFlow(b, f)'
      BY <2>1, <2>3 DEF OwnFlow
    <3> QED
      BY <3>1, <3>2, <3>3, <3>4, <3>5, <3>6 DEF JarInv, OwnFlow, OwnSession, TakenBy
  <2>7. ASSUME NEW h \in HubId PROVE SessionInv(h)'
    BY <1>1, <2>1, <2>3 DEF IInv, SessionInv, TypeOK, HubSession
  <2>8. ASSUME NEW g \in Flow PROVE FlowInv(g)'
    BY <1>2, <2>1, <2>3 DEF IInv, FlowInv
  <2>9. \A s \in Request \ {r} :
          At(s, "login", "reply") => flows'[req[s].flow] = flows[req[s].flow]
    <3>1. ASSUME NEW s \in Request \ {r}, At(s, "login", "reply")
          PROVE  req[s].flow \in Flow \ {f}
      BY <1>1, <1>7, <3>1 DEF IInv, RequestInv, OwnFlow, LoginsApart, At
    <3> QED
      BY <2>3, <3>1
  <2>10. \A h \in live' : sessions'[h] # None
    BY <1>1 DEF IInv
  <2> QED
    BY <1>4, <1>6, <2>4, <2>5, <2>6, <2>7, <2>8, <2>9, <2>10, StepInv
<1>8. CASE req[r].op # "login"
  <2>1. /\ flows' = flows
        /\ \A c \in Browser :
             /\ stateJar'[c] \in {stateJar[c], None}
             /\ sessionJar'[c] \in {sessionJar[c], None}
                  \/ (c = b /\ req[r].op = "callback" /\ sessionJar'[c] = req[r].id)
        /\ stateJar' \in [Browser -> Flow \cup {None}]
        /\ sessionJar' \in [Browser -> HubId \cup {None}]
    BY <1>2, <1>8 DEF Deliver, IInv, TypeOK, ReqState
  <2>2. Grown
    BY <1>1, <2>1 DEF Grown
  <2>3. TypeOK'
    BY <1>1, <1>3, <1>4, <2>1 DEF IInv, TypeOK
  <2>4. ASSUME NEW c \in Browser PROVE JarInv(c)'
    <3>1. JarInv(c)
      BY DEF IInv
    <3>2. req[r].op = "callback" => OwnSession(b, req[r].id)
      BY <1>1, <1>2 DEF RequestInv, At
    <3> QED
      BY <1>1, <2>1, <3>1, <3>2 DEF JarInv, OwnFlow, OwnSession, TakenBy
  <2>5. /\ \A h \in HubId : SessionInv(h)'
        /\ \A g \in Flow : FlowInv(g)'
        /\ \A h \in live' : sessions'[h] # None
    BY <1>1, <2>1 DEF IInv, SessionInv, FlowInv
  <2> QED
    BY <1>4, <1>6, <2>1, <2>2, <2>3, <2>4, <2>5, StepInv
<1> QED
  BY <1>7, <1>8

LEMMA AbortInv ==
  ASSUME IInv, NEW r \in Request, Abort(r)
  PROVE  Grown /\ IInv'
<1>1. Answer(r, "error") /\ UNCHANGED <<jars, flows, sessions, live>>
  BY DEF Abort, store
<1>2. TypeOK'
  BY <1>1, AnswerType DEF IInv, TypeOK, jars, Result
<1> QED
  BY <1>1, <1>2, SameStores, AnswerInv DEF Result

\* What happens around the requests.
LEMMA SurroundingsInv ==
  ASSUME IInv,
         \/ \E f \in Flow, u \in User : SignIn(f, u)
         \/ \E h \in HubId : Expire(h)
         \/ \E b \in Browser : Forget(b)
  PROVE  Grown /\ IInv'
<1>1. ASSUME NEW f \in Flow, NEW u \in User, SignIn(f, u) PROVE Grown /\ IInv'
  <2>1. flows[f].st = "begun" /\ UNCHANGED <<jars, sessions, live, req>>
    BY <1>1 DEF SignIn, store
  <2>2. /\ flows'[f].st = "code" /\ flows'[f].browser = flows[f].browser
        /\ flows'[f].user = u /\ flows'[f].with = flows[f].with
        /\ \A g \in Flow \ {f} : flows'[g] = flows[g]
        /\ flows' \in [Flow -> FlowRec]
    BY <1>1 DEF SignIn, FlowRec, FlowState, IInv, TypeOK
  <2>3. Grown
    BY <2>1, <2>2 DEF Grown
  <2>4. TypeOK'
    BY <2>1, <2>2 DEF IInv, TypeOK, jars
  <2>5. ASSUME NEW b \in Browser PROVE JarInv(b)'
    <3>1. JarInv(b) /\ stateJar'[b] = stateJar[b] /\ sessionJar'[b] = sessionJar[b]
      BY <2>1 DEF IInv, jars
    <3> QED
      BY <2>3, <3>1, OwnIsStable DEF JarInv, OwnFlow, OwnSession, TakenBy
  <2>6. ASSUME NEW h \in HubId PROVE SessionInv(h)'
    BY <2>1, <2>2 DEF IInv, SessionInv, TypeOK, HubSession
  <2>7. ASSUME NEW g \in Flow PROVE FlowInv(g)'
    BY <2>1, <2>2 DEF IInv, FlowInv
  <2>8. ASSUME NEW r \in Request PROVE RequestInv(r)'
    <3>1. At(r, "login", "reply") => flows'[req[r].flow] = flows[req[r].flow]
      BY <2>1, <2>2 DEF IInv, RequestInv, OwnFlow
    <3> QED
      BY <2>1, <2>3, <3>1, RequestIsStable
  <2>9. LoginsApart' /\ \A h \in live' : sessions'[h] # None
    BY <2>1 DEF IInv, LoginsApart, At
  <2> QED
    BY <2>3, <2>4, <2>5, <2>6, <2>7, <2>8, <2>9 DEF IInv
<1>2. ASSUME UNCHANGED <<flows, sessions, req>>, live' \subseteq live,
             \A b \in Browser :
               stateJar'[b] \in {stateJar[b], None} /\ sessionJar'[b] \in {sessionJar[b], None},
             stateJar' \in [Browser -> Flow \cup {None}],
             sessionJar' \in [Browser -> HubId \cup {None}]
      PROVE  Grown /\ IInv'
  <2>1. Grown /\ TypeOK'
    BY <1>2 DEF Grown, IInv, TypeOK
  <2>2. \A r \in Request : RequestInv(r)'
    BY <1>2, <2>1, RequestIsStable
  <2>3. \A b \in Browser : JarInv(b)'
    BY <1>2 DEF IInv, JarInv, OwnFlow, OwnSession, TakenBy
  <2> QED
    BY <1>2, <2>1, <2>2, <2>3 DEF IInv, SessionInv, FlowInv, LoginsApart, At
<1>3. ASSUME NEW h \in HubId, Expire(h) PROVE Grown /\ IInv'
  BY <1>2, <1>3 DEF Expire, jars, IInv, TypeOK
<1>4. ASSUME NEW b \in Browser, Forget(b) PROVE Grown /\ IInv'
  BY <1>2, <1>4 DEF Forget, store, IInv, TypeOK
<1> QED
  BY <1>1, <1>3, <1>4

LEMMA CrashInv == ASSUME IInv, Crash PROVE Grown /\ IInv'
<1>1. /\ req' = [r \in Request |-> IF Active(r) THEN Blank ELSE req[r]]
      /\ UNCHANGED <<jars, flows, sessions, live>>
  BY DEF Crash, store
<1>2. Blank \in ReqState /\ Blank.pc = "idle"
  BY DEF Blank, ReqState, Op, Pc, Result
<1>3. TypeOK'
  BY <1>1, <1>2 DEF IInv, TypeOK, jars
<1>4. ASSUME NEW r \in Request PROVE RequestInv(r)' /\ ~ At(r, "login", "reply")'
  <2>1. CASE Active(r)
    BY <1>1, <1>2, <2>1 DEF RequestInv, Active, At
  <2>2. CASE ~ Active(r)
    <3>1. req'[r] = req[r]
      BY <1>1, <2>2
    <3> QED
      BY <1>1, <2>2, <3>1, SameStores, RequestIsStable DEF Active, At
  <2> QED
    BY <2>1, <2>2
<1> QED
  BY <1>1, <1>3, <1>4, SameStores DEF IInv, LoginsApart

-----------------------------------------------------------------------------
LEMMA InitInv == Init => IInv
<1> SUFFICES ASSUME Init PROVE IInv
  OBVIOUS
<1>1. TypeOK
  BY DEF Init, TypeOK, FlowRec, FlowState, Blank, ReqState, Op, Pc, Result
<1>2. \A r \in Request : RequestInv(r) /\ ~ At(r, "login", "reply")
  BY DEF Init, RequestInv, Active, At, Blank
<1> QED
  BY <1>1, <1>2 DEF Init, IInv, JarInv, SessionInv, FlowInv, LoginsApart

LEMMA NextInv == IInv /\ [Next]_vars => Grown /\ IInv'
<1> SUFFICES ASSUME IInv, [Next]_vars PROVE Grown /\ IInv'
  OBVIOUS
<1>1. CASE UNCHANGED vars
  <2>1. UNCHANGED <<jars, flows, sessions, live, req>>
    BY <1>1 DEF vars, jars
  <2>2. TypeOK' /\ LoginsApart'
    BY <2>1 DEF IInv, TypeOK, LoginsApart, At, jars
  <2>3. \A r \in Request : RequestInv(r)'
    BY <2>1, SameStores, RequestIsStable
  <2> QED
    BY <2>1, <2>2, <2>3, SameStores DEF IInv
<1>2. ASSUME NEW r \in Request, Begin(r) \/ Step(r) \/ Abort(r) PROVE Grown /\ IInv'
  BY <1>2, BeginInv, ExchangeInv, CreateInv, DeleteInv, GuardInv, DeliverInv, AbortInv
     DEF Step
<1> QED
  BY <1>1, <1>2, SurroundingsInv, CrashInv DEF Next

\* The invariant every theorem below follows from.
LEMMA Invariance == Spec => []IInv
  BY InitInv, NextInv, PTL DEF Spec

\* Every reachable state has its type.
THEOREM TypeCorrect == Spec => []TypeOK
<1>1. IInv => TypeOK
  BY DEF IInv
<1> QED
  BY <1>1, Invariance, PTL

\* A browser only holds sessions that a state of its own brought
\* (hub_auth_handlers.go).
THEOREM OwnSessions == Spec => []SessionIsOwn
<1>1. IInv => SessionIsOwn
  BY DEF IInv, JarInv, OwnSession, TakenBy, OwnFlow, SessionIsOwn, Taker
<1> QED
  BY <1>1, Invariance, PTL

\* Pages are shown only as users who signed in for logins this browser took up
\* (hub_middleware.go).
THEOREM OwnPages == Spec => []PageIsOwn
<1>1. IInv => PageIsOwn
  BY DEF IInv, RequestInv, SignedIn, TakenBy, OwnFlow, PageIsOwn, Taker
<1> QED
  BY <1>1, Invariance, PTL

-----------------------------------------------------------------------------
(* What the hub leaves to the URL: that the code belongs to the state.      *)

\* Every callback whose code is exchanged came by a URL as Hydra made it out, its
\* state and its code of one flow.
IntactUrls ==
  \A r \in Request :
    At(r, "callback", "exchange") /\ req[r].code # None => req[r].code = req[r].flow

\* A browser only holds sessions of logins it began itself.
LoginIsOwn ==
  \A b \in Browser :
    sessionJar[b] # None => flows[sessions[sessionJar[b]].flow].browser = b

\* Each code was exchanged along with the state of its own flow.
InStep == \A f \in Flow : flows[f].st = "spent" => flows[f].with = f

LEMMA InStepNext == IInv /\ InStep /\ IntactUrls /\ [Next]_vars => InStep'
<1> SUFFICES ASSUME IInv, InStep, IntactUrls, [Next]_vars PROVE InStep'
  OBVIOUS
<1> flows \in [Flow -> FlowRec]
  BY DEF IInv, TypeOK
<1>1. ASSUME NEW r \in Request, Exchange(r) PROVE InStep'
  <2>1. At(r, "callback", "exchange")
    BY <1>1 DEF Exchange, IInv, RequestInv, At
  <2>2. CASE UNCHANGED flows
    BY <2>2 DEF InStep
  <2>3. CASE ~ UNCHANGED flows
    <3>1. PICK c : /\ c = req[r].code /\ c = req[r].flow
                   /\ flows' = [flows EXCEPT ![c].st = "spent", ![c].with = c]
      BY <1>1, <2>1, <2>3 DEF Exchange, IntactUrls
    <3> QED
      BY <3>1 DEF InStep, FlowRec
  <2> QED
    BY <2>2, <2>3
<1>2. ASSUME NEW r \in Request, NEW b \in Browser, BeginLogin(r, b) PROVE InStep'
  BY <1>2 DEF BeginLogin, InStep, FlowRec
<1>3. ASSUME NEW r \in Request, Deliver(r) PROVE InStep'
  BY <1>3 DEF Deliver, InStep, FlowRec
<1>4. ASSUME NEW f \in Flow, NEW u \in User, SignIn(f, u) PROVE InStep'
  BY <1>4 DEF SignIn, InStep, FlowRec
<1>5. CASE UNCHANGED flows
  BY <1>5 DEF InStep
<1> QED
  BY <1>1, <1>2, <1>3, <1>4, <1>5
     DEF Next, vars, Begin, BeginLogout, BeginPage, BeginCallback, Step, Create, Delete,
         Guard, Abort, Expire, Forget, Crash

\* As long as callback URLs arrive as they were made out, which the hub cannot
\* tell (hub_auth_handlers.go compares the state and hands on the code), browsers
\* only hold sessions of logins they began.
THEOREM OwnLogins == Spec /\ []IntactUrls => []LoginIsOwn
<1>1. Init => InStep
  BY DEF Init, InStep
<1>2. IInv /\ InStep => LoginIsOwn
  BY DEF IInv, JarInv, OwnSession, TakenBy, OwnFlow, InStep, LoginIsOwn
<1> QED
  BY <1>1, <1>2, InStepNext, Invariance, PTL DEF Spec

=============================================================================
