--------------------------- MODULE SessionsProofs ---------------------------
(***************************************************************************)
(* Proofs about Sessions, for any users, flows, login sessions, rows and    *)
(* requests.                                                                *)
(*                                                                          *)
(* Two facts carry the argument: a row names a login session of its own     *)
(* user, and a login session that Hydra has revoked never comes back.  What *)
(* a request has ended, in Hydra or in the table, is therefore still ended  *)
(* when it answers, and after.                                              *)
(***************************************************************************)
EXTENDS Sessions, TLAPS

\* The user has signed in for the flow.
SignedIn(f) == flows[f].st \notin {"none", "login"}

\* A flow names a login session of the user it is for.
FlowInv(f) ==
  /\ flows[f].sid # None => owner[flows[f].sid] # None
  /\ SignedIn(f) => flows[f].user \in User /\ flows[f].sid \in Sid
                    /\ owner[flows[f].sid] = flows[f].user

RowInv(i) ==
  rows[i] # None /\ rows[i].sid # None => owner[rows[i].sid] = rows[i].user

\* The row is over in Hydra; in the table, too.
Dead(i) == rows[i].sid \notin live
Over(i) == rows[i].ended /\ Dead(i)

\* Logins there were, and are not any more.
Gone(logins) == \A s \in logins : owner[s] # None /\ s \notin live

RequestInv(r) ==
  LET q == req[r] IN
  /\ Active(r) => q.user \in User
  /\ q.pc = "acceptLogin" =>
       /\ q.op = "login" /\ q.flow \in Flow /\ flows[q.flow].st # "none"
       /\ flows[q.flow].st = "login" /\ flows[q.flow].sid # None =>
            q.user = owner[flows[q.flow].sid]
  /\ q.pc \in {"accept", "reject", "record"} =>
       /\ q.op = "consent" /\ q.flow \in Flow /\ SignedIn(q.flow)
       /\ q.user = flows[q.flow].user
       /\ q.sid # None => owner[q.sid] = q.user
  /\ q.pc = "find" => q.op = "terminate" /\ q.row \in RowId
  /\ q.pc \in {"revoke", "mark"} =>
       q.op = "terminate" /\ Mine(q.row, q.user) /\ q.sid = rows[q.row].sid
  /\ q.pc = "revoke" => q.sid \in Sid
  /\ q.pc = "mark" => Dead(q.row)
  /\ q.pc = "reply" => q.op \in {"terminate", "logoutAll"}
  /\ At(r, "terminate", "reply") \/ (At(r, "terminate", "done") /\ q.res = "ok") =>
       Mine(q.row, q.user) /\ Over(q.row) /\ q.sid = rows[q.row].sid
  /\ q.pc \in {"revokeAll", "markAll"} =>
       q.op = "logoutAll" /\ \A i \in q.scope : Mine(i, q.user)
  /\ q.pc = "revokeAll" => \A s \in q.logins : owner[s] = q.user
  /\ q.pc = "markAll" => Gone(q.logins) /\ \A i \in q.scope : Dead(i)
  /\ At(r, "logoutAll", "reply") \/ (At(r, "logoutAll", "done") /\ q.res = "ok") =>
       /\ \A i \in q.scope : Mine(i, q.user) /\ Over(i)
       /\ Gone(q.logins)

StoresInv ==
  /\ owner \in [Sid -> User \cup {None}]
  /\ live \subseteq Sid
  /\ flows \in [Flow -> FlowRec]
  /\ rows \in [RowId -> SessionRow \cup {None}]
  /\ \A s \in live : owner[s] # None
  /\ \A f \in Flow : FlowInv(f)
  /\ \A i \in RowId : RowInv(i)

IInv ==
  /\ StoresInv
  /\ req \in [Request -> ReqState]
  /\ \A r \in Request : RequestInv(r)

\* Nothing changes its owner, nothing that is over starts again.
Grown ==
  /\ \A s \in Sid : owner[s] # None =>
       owner'[s] = owner[s] /\ (s \in live' => s \in live)
  /\ \A f \in Flow :
       /\ flows[f].st = "login" => flows'[f] = flows[f] \/ SignedIn(f)'
       /\ SignedIn(f) => /\ SignedIn(f)'
                         /\ flows'[f].user = flows[f].user
                         /\ flows'[f].sid = flows[f].sid
  /\ \A i \in RowId : rows[i] # None =>
       /\ rows'[i] # None
       /\ rows'[i].user = rows[i].user /\ rows'[i].sid = rows[i].sid
       /\ rows[i].ended => rows'[i].ended

-----------------------------------------------------------------------------
LEMMA DeadStaysDead ==
  ASSUME IInv, Grown, StoresInv', NEW i \in RowId, rows[i] # None
  PROVE  /\ Dead(i) => rows'[i].sid \notin live'
         /\ Over(i) => rows'[i].ended
<1>1. rows[i] \in SessionRow /\ RowInv(i)
  BY DEF IInv, StoresInv
<1>2. rows'[i].sid = rows[i].sid /\ (rows[i].ended => rows'[i].ended)
  BY DEF Grown
<1>3. CASE rows[i].sid = None
  BY <1>2, <1>3, NoneAssumption DEF Over, Dead, IInv, StoresInv, Grown
<1>4. CASE rows[i].sid # None
  <2>1. rows[i].sid \in Sid /\ owner[rows[i].sid] # None
    BY <1>1, <1>4, NoneAssumption DEF RowInv, SessionRow
  <2> QED
    BY <1>2, <2>1 DEF Over, Dead, Grown
<1> QED
  BY <1>3, <1>4

LEMMA RequestIsStable ==
  ASSUME IInv, Grown, StoresInv', NEW r \in Request, req'[r] = req[r]
  PROVE  RequestInv(r)'
<1> DEFINE q == req[r]
<1>1. RequestInv(r) /\ q \in ReqState
  BY DEF IInv
<1>2. Active(r)' = Active(r) /\ \A op, pc : At(r, op, pc)' = At(r, op, pc)
  BY DEF Active, At
<1>3. \A i : Mine(i, q.user) =>
        /\ i \in RowId /\ rows'[i] # None /\ rows'[i].user = q.user
        /\ rows'[i].sid = rows[i].sid
        /\ rows[i].sid \notin live => rows'[i].sid \notin live'
        /\ Over(i) => rows'[i].ended /\ rows'[i].sid \notin live'
  BY DeadStaysDead DEF Mine, Rows, Grown, Dead, Over
<1>6. q.pc = "acceptLogin" =>
        /\ q.op = "login" /\ q.flow \in Flow /\ flows'[q.flow].st # "none"
        /\ flows'[q.flow].st = "login" /\ flows'[q.flow].sid # None =>
             q.user = owner'[flows'[q.flow].sid]
  <2> SUFFICES ASSUME q.pc = "acceptLogin"
               PROVE  /\ q.op = "login" /\ q.flow \in Flow /\ flows'[q.flow].st # "none"
                      /\ flows'[q.flow].st = "login" /\ flows'[q.flow].sid # None =>
                           q.user = owner'[flows'[q.flow].sid]
    OBVIOUS
  <2>1. q.op = "login" /\ q.flow \in Flow /\ flows[q.flow].st # "none"
    BY <1>1 DEF RequestInv
  <2>2. flows'[q.flow].st # "none"
    BY <2>1 DEF Grown, SignedIn
  <2>3. ASSUME flows'[q.flow].st = "login", flows'[q.flow].sid # None
        PROVE  q.user = owner'[flows'[q.flow].sid]
    <3>1. flows'[q.flow] = flows[q.flow]
      BY <2>1, <2>3 DEF Grown, SignedIn
    <3>2. FlowInv(q.flow) /\ flows[q.flow].sid \in Sid \cup {None}
      BY <2>1 DEF IInv, StoresInv, FlowRec
    <3> QED
      BY <1>1, <2>1, <2>3, <3>1, <3>2 DEF RequestInv, FlowInv, Grown
  <2> QED
    BY <2>1, <2>2, <2>3
<1>7. q.pc \in {"accept", "reject", "record"} =>
        /\ q.op = "consent" /\ q.flow \in Flow /\ SignedIn(q.flow)
        /\ flows'[q.flow].st \notin {"none", "login"}
        /\ q.user = flows'[q.flow].user
        /\ q.sid # None => owner'[q.sid] = q.user
  <2>1. q.pc \in {"accept", "reject", "record"} /\ q.sid # None =>
          q.sid \in Sid /\ owner[q.sid] # None
    BY <1>1, NoneAssumption DEF RequestInv, Active, ReqState
  <2> QED
    BY <1>1, <2>1 DEF RequestInv, Grown, SignedIn
<1>8. /\ q.pc = "find" => q.op = "terminate" /\ q.row \in RowId
      /\ q.pc \in {"revoke", "mark"} =>
           /\ q.op = "terminate" /\ q.row \in RowId /\ rows'[q.row] # None
           /\ rows'[q.row].user = q.user /\ q.sid = rows'[q.row].sid
      /\ q.pc = "revoke" => q.sid \in Sid
      /\ q.pc = "mark" => rows'[q.row].sid \notin live'
  BY <1>1, <1>3 DEF RequestInv, Dead
<1>9. At(r, "terminate", "reply") \/ (At(r, "terminate", "done") /\ q.res = "ok") =>
        /\ q.row \in RowId /\ rows'[q.row] # None /\ rows'[q.row].user = q.user
        /\ rows'[q.row].ended /\ rows'[q.row].sid \notin live'
        /\ q.sid = rows'[q.row].sid
  BY <1>1, <1>3 DEF RequestInv
<1>10. /\ q.pc \in {"revokeAll", "markAll"} =>
            q.op = "logoutAll" /\ \A i \in q.scope :
              i \in RowId /\ rows'[i] # None /\ rows'[i].user = q.user
       /\ q.pc = "markAll" => \A i \in q.scope : rows'[i].sid \notin live'
  BY <1>1, <1>3 DEF RequestInv, Dead
<1>11. At(r, "logoutAll", "reply") \/ (At(r, "logoutAll", "done") /\ q.res = "ok") =>
         \A i \in q.scope :
           /\ i \in RowId /\ rows'[i] # None /\ rows'[i].user = q.user
           /\ rows'[i].ended /\ rows'[i].sid \notin live'
  BY <1>1, <1>3 DEF RequestInv
<1>12. \A s \in q.logins :
         /\ s \in Sid
         /\ owner[s] # None => owner'[s] = owner[s]
         /\ owner[s] # None /\ s \notin live => s \notin live'
  BY <1>1 DEF ReqState, Grown
<1>13. /\ q.pc = "revokeAll" => \A s \in q.logins : owner'[s] = q.user
       /\ q.pc = "markAll" \/ At(r, "logoutAll", "reply")
            \/ (At(r, "logoutAll", "done") /\ q.res = "ok") =>
          \A s \in q.logins : owner'[s] # None /\ s \notin live'
  BY <1>1, <1>12, NoneAssumption DEF RequestInv, Gone, Active
<1>14. /\ Active(r) => q.user \in User
       /\ q.pc = "reply" => q.op \in {"terminate", "logoutAll"}
  BY <1>1 DEF RequestInv
<1>15. req'[r] = q
  OBVIOUS
<1> HIDE DEF q
<1> QED
  BY <1>2, <1>6, <1>7, <1>8, <1>9, <1>10, <1>11, <1>13, <1>14, <1>15
     DEF RequestInv, Mine, Rows, Over, Dead, SignedIn, Gone

\* One request moves, or none.
LEMMA StepInv ==
  ASSUME IInv, Grown, StoresInv', NEW r \in Request, NEW q \in ReqState,
         req' = [req EXCEPT ![r] = q], RequestInv(r)'
  PROVE  Grown /\ IInv'
<1>1. ASSUME NEW s \in Request PROVE RequestInv(s)'
  <2>1. CASE s # r
    BY <2>1, RequestIsStable DEF IInv
  <2> QED
    BY <2>1
<1> QED
  BY <1>1 DEF IInv

LEMMA SameStores ==
  ASSUME IInv, UNCHANGED <<hydra, rows>>
  PROVE  Grown /\ StoresInv'
<1>1. UNCHANGED <<owner, live, flows, rows>>
  BY DEF hydra
<1> QED
  BY <1>1 DEF IInv, Grown, StoresInv, FlowInv, RowInv, SignedIn

\* An answer reports what the request has done.
LEMMA AnswerInv ==
  ASSUME IInv, Grown, StoresInv', NEW r \in Request, NEW res \in Result,
         Answer(r, res), req[r].pc = "reply" \/ res # "ok"
                         \/ req[r].op \in {"login", "consent"}
  PROVE  Grown /\ IInv'
<1> DEFINE old == req[r]
           q == Answered(old, res)
<1>1. old \in ReqState /\ RequestInv(r)
  BY DEF IInv
<1>2. /\ q \in ReqState /\ q.pc = "done" /\ q.op = old.op /\ q.res = res
      /\ res = "ok" /\ old.op \in {"terminate", "logoutAll"} =>
           /\ q.user = old.user /\ q.row = old.row /\ q.sid = old.sid
           /\ q.scope = old.scope /\ q.logins = old.logins
  BY <1>1 DEF Answered, Blank, ReqState, Pc
<1>3. req' = [req EXCEPT ![r] = q] /\ req'[r] = q
  BY DEF Answer, IInv
<1> HIDE DEF q
<1>4. RequestInv(r)'
  <2>1. CASE res = "ok" /\ old.op \in {"terminate", "logoutAll"}
    <3>1. old.pc = "reply"
      BY <2>1
    <3>2. \A i : Mine(i, old.user) =>
            /\ i \in RowId /\ rows'[i] # None /\ rows'[i].user = old.user
            /\ rows'[i].sid = rows[i].sid
            /\ Over(i) => rows'[i].ended /\ rows'[i].sid \notin live'
      BY DeadStaysDead DEF Mine, Rows, Grown, Over
    <3>3. At(r, "terminate", "reply") =>
            Mine(old.row, old.user) /\ Over(old.row) /\ old.sid = rows[old.row].sid
      BY <1>1 DEF RequestInv
    <3>4. At(r, "logoutAll", "reply") => \A i \in old.scope : Mine(i, old.user) /\ Over(i)
      BY <1>1 DEF RequestInv
    <3>5. At(r, "logoutAll", "reply") =>
            \A s \in old.logins : owner'[s] # None /\ s \notin live'
      BY <1>1 DEF RequestInv, Gone, ReqState, Grown
    <3> QED
      BY <1>2, <1>3, <2>1, <3>1, <3>2, <3>3, <3>4, <3>5
         DEF RequestInv, Active, At, Mine, Rows, Over, Dead, Gone
  <2>2. CASE ~ (res = "ok" /\ old.op \in {"terminate", "logoutAll"})
    BY <1>2, <1>3, <2>2 DEF RequestInv, Active, At
  <2> QED
    BY <2>1, <2>2
<1> QED
  BY <1>2, <1>3, <1>4, StepInv

\* Where the stores stay as they are, a request only has to know what it knows.
LEMMA QuietInv ==
  ASSUME IInv, UNCHANGED <<hydra, rows>>, NEW r \in Request, NEW q \in ReqState,
         req' = [req EXCEPT ![r] = q], RequestInv(r)'
  PROVE  Grown /\ IInv'
  BY SameStores, StepInv

-----------------------------------------------------------------------------
LEMMA BeginInv == ASSUME IInv, NEW r \in Request, Begin(r) PROVE Grown /\ IInv'
<1> USE DEF Blank, ReqState, Op, Pc, Result
<1>0. UNCHANGED <<owner, live, flows, rows>> /\ UNCHANGED <<hydra, rows>>
  BY DEF Begin, BeginLogin, BeginConsent, BeginTerminate, BeginLogoutAll, hydra
<1>1. ASSUME NEW f \in Flow, NEW u \in User, BeginLogin(r, f, u) PROVE Grown /\ IInv'
  <2> DEFINE q == [Blank EXCEPT !.op = "login", !.flow = f, !.pc = "acceptLogin", !.user = u]
  <2>1. req' = [req EXCEPT ![r] = q] /\ req'[r] = q
    BY <1>1 DEF BeginLogin, IInv
  <2>2. q \in ReqState /\ q.op = "login" /\ q.flow = f /\ q.pc = "acceptLogin" /\ q.user = u
    OBVIOUS
  <2> HIDE DEF q
  <2>3. RequestInv(r)'
    BY <1>0, <1>1, <2>1, <2>2 DEF RequestInv, Active, At, BeginLogin
  <2> QED
    BY <1>0, <2>1, <2>2, <2>3, QuietInv
<1>2. ASSUME NEW f \in Flow, BeginConsent(r, f) PROVE Grown /\ IInv'
  <2>1. SignedIn(f) /\ flows[f].user \in User /\ flows[f].sid \in Sid
        /\ owner[flows[f].sid] = flows[f].user
    BY <1>2 DEF BeginConsent, Answering, SignedIn, IInv, StoresInv, FlowInv
  <2>2. PICK s \in {flows[f].sid, None} :
          req' = [req EXCEPT ![r] =
            [Blank EXCEPT !.op = "consent", !.flow = f, !.user = flows[f].user, !.sid = s,
               !.pc = IF flows[f].client \in Trusted THEN "accept" ELSE "reject"]]
    BY <1>2 DEF BeginConsent, ReportedSid, SubjectOf
  <2> DEFINE q == [Blank EXCEPT !.op = "consent", !.flow = f, !.user = flows[f].user, !.sid = s,
                     !.pc = IF flows[f].client \in Trusted THEN "accept" ELSE "reject"]
  <2>3. /\ q \in ReqState /\ q.op = "consent" /\ q.flow = f /\ q.user = flows[f].user
        /\ q.sid = s /\ q.pc \in {"accept", "reject"}
    BY <2>1
  <2>4. req' = [req EXCEPT ![r] = q] /\ req'[r] = q
    BY <2>2 DEF IInv
  <2> HIDE DEF q
  <2>5. RequestInv(r)'
    BY <1>0, <2>1, <2>2, <2>3, <2>4 DEF RequestInv, Active, At, SignedIn
  <2> QED
    BY <1>0, <2>3, <2>4, <2>5, QuietInv
<1>3. ASSUME NEW u \in User, NEW i \in RowId, BeginTerminate(r, u, i) PROVE Grown /\ IInv'
  <2> DEFINE q == [Blank EXCEPT !.op = "terminate", !.pc = "find", !.user = u, !.row = i,
                                !.scope = ActiveRows(u)]
  <2>1. req' = [req EXCEPT ![r] = q] /\ req'[r] = q
    BY <1>3 DEF BeginTerminate, IInv
  <2>2. ActiveRows(u) \subseteq RowId
    BY DEF ActiveRows, Rows
  <2>3. /\ q \in ReqState /\ q.op = "terminate" /\ q.pc = "find" /\ q.user = u /\ q.row = i
    BY <2>2
  <2> HIDE DEF q
  <2>4. RequestInv(r)'
    BY <2>1, <2>3 DEF RequestInv, Active, At
  <2> QED
    BY <1>0, <2>1, <2>3, <2>4, QuietInv
<1>4. ASSUME NEW u \in User, BeginLogoutAll(r, u) PROVE Grown /\ IInv'
  <2> DEFINE q == [Blank EXCEPT !.op = "logoutAll", !.pc = "revokeAll", !.user = u,
                                !.scope = ActiveRows(u), !.logins = LoginsOf(u)]
  <2>1. req' = [req EXCEPT ![r] = q] /\ req'[r] = q
    BY <1>4 DEF BeginLogoutAll, IInv
  <2>2. /\ ActiveRows(u) \subseteq RowId /\ \A i \in ActiveRows(u) : Mine(i, u)
        /\ LoginsOf(u) \subseteq Sid /\ \A s \in LoginsOf(u) : owner[s] = u
    BY DEF ActiveRows, Rows, Mine, LoginsOf, IInv, StoresInv
  <2>3. /\ q \in ReqState /\ q.op = "logoutAll" /\ q.pc = "revokeAll" /\ q.user = u
        /\ q.scope = ActiveRows(u) /\ q.logins = LoginsOf(u)
    BY <2>2
  <2> HIDE DEF q
  <2>4. /\ \A i \in q.scope : i \in RowId /\ rows'[i] # None /\ rows'[i].user = u
        /\ \A s \in q.logins : owner'[s] = u
    BY <1>0, <2>2, <2>3 DEF Mine, Rows, hydra
  <2>5. RequestInv(r)'
    BY <2>1, <2>3, <2>4 DEF RequestInv, Active, At, Mine, Rows
  <2> QED
    BY <1>0, <2>1, <2>3, <2>5, QuietInv
<1> QED
  BY <1>1, <1>2, <1>3, <1>4 DEF Begin

\* A login session gets its owner when it is created.
LEMMA AcceptLoginInv == ASSUME IInv, NEW r \in Request, AcceptLogin(r) PROVE Grown /\ IInv'
<1> PICK f \in Flow : f = req[r].flow
  BY DEF IInv, AcceptLogin, RequestInv
<1> DEFINE u == req[r].user
<1>1. /\ u \in User /\ req[r].op = "login" /\ req[r].pc = "acceptLogin"
      /\ flows[f].st = "login" /\ flows[f].sid # None => u = owner[flows[f].sid]
      /\ flows[f] \in FlowRec /\ FlowInv(f) /\ UNCHANGED rows
  BY DEF IInv, StoresInv, AcceptLogin, RequestInv, Active
<1>2. CASE flows[f].st # "login"
  BY <1>1, <1>2, SameStores, AnswerInv DEF AcceptLogin, Result
<1>3. CASE flows[f].st = "login" /\ flows[f].sid # None
  <2>1. /\ flows' = [flows EXCEPT ![f].st = "consent", ![f].user = u]
        /\ Answer(r, "ok") /\ UNCHANGED <<owner, live, rows>>
    BY <1>1, <1>3 DEF AcceptLogin
  <2>2. /\ flows'[f].st = "consent" /\ flows'[f].user = u /\ flows'[f].sid = flows[f].sid
        /\ flows'[f] \in FlowRec /\ flows' \in [Flow -> FlowRec]
        /\ \A g \in Flow \ {f} : flows'[g] = flows[g]
    BY <1>1, <2>1 DEF IInv, StoresInv, FlowRec, FlowState
  <2>3. Grown
    BY <1>3, <2>1, <2>2 DEF Grown, SignedIn
  <2>4. FlowInv(f)'
    BY <1>1, <1>3, <2>1, <2>2, NoneAssumption DEF FlowInv, SignedIn, FlowRec
  <2>5. \A g \in Flow : FlowInv(g)'
    BY <2>1, <2>2, <2>4 DEF IInv, StoresInv, FlowInv, SignedIn
  <2>6. StoresInv'
    BY <2>1, <2>2, <2>5 DEF IInv, StoresInv, RowInv
  <2> QED
    BY <1>1, <2>1, <2>3, <2>6, AnswerInv DEF Result
<1>4. CASE flows[f].st = "login" /\ flows[f].sid = None
  <2>1. PICK s \in Sid :
          /\ owner[s] = None
          /\ owner' = [owner EXCEPT ![s] = u]
          /\ live' = live \cup {s}
          /\ flows' = [flows EXCEPT ![f].st = "consent", ![f].sid = s, ![f].user = u]
    BY <1>4 DEF AcceptLogin
  <2>2. Answer(r, "ok")
    BY <1>4 DEF AcceptLogin
  <2>3. /\ flows'[f].st = "consent" /\ flows'[f].user = u /\ flows'[f].sid = s
        /\ flows'[f] \in FlowRec /\ flows' \in [Flow -> FlowRec]
        /\ \A g \in Flow \ {f} : flows'[g] = flows[g]
    BY <1>1, <2>1 DEF IInv, StoresInv, FlowRec, FlowState
  <2>4. /\ owner'[s] = u /\ u # None /\ owner' \in [Sid -> User \cup {None}]
        /\ \A t \in Sid \ {s} : owner'[t] = owner[t]
    BY <1>1, <2>1, NoneAssumption DEF IInv, StoresInv
  <2>5. Grown
    BY <1>1, <1>4, <2>1, <2>3, <2>4 DEF Grown, SignedIn
  <2>6. ASSUME NEW g \in Flow \ {f} PROVE FlowInv(g)'
    <3>1. FlowInv(g) /\ flows'[g] = flows[g] /\ flows[g].sid \in Sid \cup {None}
          /\ flows[g].user \in User \cup {None}
      BY <2>3 DEF IInv, StoresInv, FlowRec
    <3>2. flows[g].sid # None => flows[g].sid \in Sid \ {s}
      BY <2>1, <3>1 DEF FlowInv
    <3> QED
      BY <2>4, <3>1, <3>2, NoneAssumption DEF FlowInv, SignedIn
  <2>7. FlowInv(f)'
    BY <1>1, <2>3, <2>4 DEF FlowInv
  <2>8. ASSUME NEW i \in RowId PROVE RowInv(i)'
    <3>1. RowInv(i) /\ rows'[i] = rows[i] /\ rows[i] \in SessionRow \cup {None}
      BY <1>1 DEF IInv, StoresInv
    <3> QED
      BY <2>1, <2>4, <3>1, NoneAssumption DEF RowInv, SessionRow
  <2>9. StoresInv'
    BY <1>1, <2>1, <2>3, <2>4, <2>6, <2>7, <2>8 DEF IInv, StoresInv
  <2> QED
    BY <1>1, <2>2, <2>5, <2>9, AnswerInv DEF Result
<1> QED
  BY <1>2, <1>3, <1>4

\* A flow whose user has signed in goes on with the same user and login session.
LEMMA FlowMoves ==
  ASSUME IInv, NEW f \in Flow, NEW st \in FlowState \ {"none", "login"}, SignedIn(f),
         flows' = [flows EXCEPT ![f].st = st], UNCHANGED <<owner, live, rows>>
  PROVE  Grown /\ StoresInv' /\ flows'[f].user = flows[f].user /\ SignedIn(f)'
<1>1. /\ flows'[f].st = st /\ flows'[f].user = flows[f].user /\ flows'[f].sid = flows[f].sid
      /\ flows' \in [Flow -> FlowRec]
      /\ \A g \in Flow \ {f} : flows'[g] = flows[g]
  BY DEF IInv, StoresInv, FlowRec
<1>2. Grown /\ SignedIn(f)'
  BY <1>1 DEF Grown, SignedIn
<1>3. \A g \in Flow : FlowInv(g)'
  BY <1>1 DEF IInv, StoresInv, FlowInv, SignedIn
<1> QED
  BY <1>1, <1>2, <1>3 DEF IInv, StoresInv, RowInv

LEMMA ConsentInv ==
  ASSUME IInv, NEW r \in Request, RejectConsent(r) \/ AcceptConsent(r)
  PROVE  Grown /\ IInv'
<1> PICK f \in Flow : f = req[r].flow
  BY DEF IInv, RejectConsent, AcceptConsent, RequestInv
<1> DEFINE old == req[r]
<1>1. /\ old \in ReqState /\ old.pc \in {"accept", "reject"} /\ old.op = "consent"
      /\ SignedIn(f) /\ old.user \in User /\ old.user = flows[f].user
      /\ old.sid # None => owner[old.sid] = old.user
      /\ UNCHANGED <<owner, live, rows>>
  BY DEF IInv, RejectConsent, AcceptConsent, RequestInv, Active
<1>2. CASE RejectConsent(r)
  BY <1>1, <1>2, FlowMoves, AnswerInv DEF RejectConsent, FlowState, Result
<1>3. CASE AcceptConsent(r) /\ ~ Answering(f)
  BY <1>1, <1>3, SameStores, AnswerInv DEF AcceptConsent, hydra, Result
<1>4. CASE AcceptConsent(r) /\ Answering(f)
  <2> DEFINE q == [old EXCEPT !.pc = "record"]
  <2>1. /\ q \in ReqState /\ q.pc = "record" /\ q.op = "consent" /\ q.user = old.user
        /\ q.flow = f /\ q.sid = old.sid
    BY <1>1 DEF ReqState, Pc
  <2>2. /\ req' = [req EXCEPT ![r] = q] /\ req'[r] = q
        /\ flows' = [flows EXCEPT ![f].st = "granted"]
    BY <1>4 DEF AcceptConsent, Goto, IInv
  <2> HIDE DEF q
  <2>3. Grown /\ StoresInv' /\ flows'[f].user = flows[f].user /\ SignedIn(f)'
    BY <1>1, <2>2, FlowMoves DEF FlowState
  <2>4. RequestInv(r)'
    BY <1>1, <2>1, <2>2, <2>3 DEF RequestInv, Active, At, SignedIn
  <2> QED
    BY <2>1, <2>2, <2>3, <2>4, StepInv
<1> QED
  BY <1>2, <1>3, <1>4

\* The new row names the login session the consent was for.
LEMMA RecordInv == ASSUME IInv, NEW r \in Request, RecordSession(r) PROVE Grown /\ IInv'
<1> DEFINE row == [user |-> req[r].user, sid |-> req[r].sid, ended |-> FALSE]
<1>1. /\ req[r] \in ReqState /\ req[r].op = "consent" /\ req[r].user \in User
      /\ req[r].sid # None => owner[req[r].sid] = req[r].user
      /\ UNCHANGED <<owner, live, flows>> /\ UNCHANGED hydra /\ Answer(r, "ok")
  BY DEF IInv, RecordSession, RequestInv, Active, hydra
<1>2. CASE UNCHANGED rows
  BY <1>1, <1>2, SameStores, AnswerInv DEF Result
<1>3. CASE \E i \in RowId \ Rows : rows' = [rows EXCEPT ![i] = row]
  <2>1. PICK i \in RowId \ Rows : rows' = [rows EXCEPT ![i] = row]
    BY <1>3
  <2>2. row \in SessionRow /\ row.user = req[r].user /\ row.sid = req[r].sid
    BY <1>1 DEF SessionRow, ReqState
  <2> HIDE DEF row
  <2>3. /\ rows[i] = None /\ rows'[i] = row /\ rows' \in [RowId -> SessionRow \cup {None}]
        /\ \A j \in RowId \ {i} : rows'[j] = rows[j]
    BY <2>1, <2>2 DEF Rows, IInv, StoresInv
  <2>4. Grown
    BY <1>1, <2>3 DEF Grown, SignedIn
  <2>5. \A j \in RowId : RowInv(j)'
    BY <1>1, <2>2, <2>3 DEF IInv, StoresInv, RowInv
  <2>6. StoresInv'
    BY <1>1, <2>3, <2>5 DEF IInv, StoresInv, FlowInv, SignedIn
  <2> QED
    BY <1>1, <2>4, <2>6, AnswerInv DEF Result
<1> QED
  BY <1>2, <1>3 DEF RecordSession

-----------------------------------------------------------------------------
LEMMA FindRowInv == ASSUME IInv, NEW r \in Request, FindRow(r) PROVE Grown /\ IInv'
<1> DEFINE i == req[r].row
           old == req[r]
<1>1. /\ old \in ReqState /\ old.op = "terminate" /\ old.user \in User /\ i \in RowId
      /\ UNCHANGED <<owner, live, flows, rows>> /\ UNCHANGED <<hydra, rows>>
  BY DEF IInv, FindRow, RequestInv, Active, hydra
<1>2. CASE Answer(r, "notfound")
  BY <1>1, <1>2, SameStores, AnswerInv DEF Result
<1>3. CASE ~ Answer(r, "notfound")
  <2> DEFINE q == [old EXCEPT !.pc = AfterFind(i), !.sid = rows[i].sid]
  <2>1. /\ Mine(i, old.user) /\ rows[i] \in SessionRow
        /\ req' = [req EXCEPT ![r] = q] /\ req'[r] = q
    BY <1>1, <1>3 DEF FindRow, IInv, StoresInv, Mine, Rows
  <2>2. /\ q \in ReqState /\ q.pc = AfterFind(i) /\ q.op = "terminate" /\ q.user = old.user
        /\ q.row = i /\ q.sid = rows[i].sid
    BY <1>1, <2>1 DEF ReqState, Pc, AfterFind, SessionRow
  <2> HIDE DEF q
  <2>3. \/ q.pc = "revoke" /\ rows[i].sid \in Sid
        \/ q.pc = "mark" /\ rows[i].sid \notin live
    BY <2>1, <2>2, NoneAssumption DEF AfterFind, SessionRow, IInv, StoresInv
  <2>4. RequestInv(r)'
    BY <1>1, <2>1, <2>2, <2>3 DEF RequestInv, Active, At, Mine, Rows, Dead
  <2> QED
    BY <1>1, <2>1, <2>2, <2>4, QuietInv
<1> QED
  BY <1>2, <1>3

\* Ending a set of rows.
LEMMA EndRows ==
  ASSUME IInv, NEW ids \in SUBSET Rows, rows' = Ended(ids), UNCHANGED <<owner, live, flows>>
  PROVE  /\ Grown /\ StoresInv'
         /\ \A i \in ids : rows'[i].ended
<1>1. ASSUME NEW i \in RowId
      PROVE  /\ i \in ids => rows'[i] \in SessionRow /\ rows'[i].user = rows[i].user
                             /\ rows'[i].sid = rows[i].sid /\ rows'[i].ended
             /\ i \notin ids => rows'[i] = rows[i]
  BY DEF Ended, Rows, IInv, StoresInv, SessionRow
<1>2. rows' \in [RowId -> SessionRow \cup {None}] /\ ids \subseteq RowId
  BY <1>1 DEF Ended, IInv, StoresInv, Rows
<1>3. Grown
  BY <1>1, <1>2, NoneAssumption DEF Grown, SignedIn
<1>4. ASSUME NEW i \in RowId PROVE RowInv(i)'
  BY <1>1 DEF IInv, StoresInv, RowInv, Rows
<1> QED
  BY <1>1, <1>2, <1>3, <1>4 DEF IInv, StoresInv, FlowInv, SignedIn

\* Revoking logins.
LEMMA Revoke ==
  ASSUME IInv, live' \subseteq live, UNCHANGED <<owner, flows, rows>>
  PROVE  Grown /\ StoresInv'
  BY DEF IInv, StoresInv, Grown, FlowInv, RowInv, SignedIn

LEMMA RevokeSidInv == ASSUME IInv, NEW r \in Request, RevokeSid(r) PROVE Grown /\ IInv'
<1> DEFINE old == req[r]
           q == [old EXCEPT !.pc = "mark"]
<1>1. /\ old \in ReqState /\ old.op = "terminate" /\ old.user \in User
      /\ Mine(old.row, old.user) /\ old.sid = rows[old.row].sid
      /\ live' = live \ {old.sid} /\ UNCHANGED <<owner, flows, rows>>
  BY DEF IInv, RevokeSid, RequestInv, Active, WithoutSid
<1>2. /\ q \in ReqState /\ q.pc = "mark" /\ q.op = "terminate" /\ q.user = old.user
      /\ q.row = old.row /\ q.sid = old.sid
  BY <1>1 DEF ReqState, Pc
<1>3. req' = [req EXCEPT ![r] = q] /\ req'[r] = q
  BY DEF RevokeSid, Goto, IInv
<1> HIDE DEF q
<1>4. RequestInv(r)'
  BY <1>1, <1>2, <1>3 DEF RequestInv, Active, At, Mine, Rows, Dead
<1> QED
  BY <1>1, <1>2, <1>3, <1>4, Revoke, StepInv

LEMMA MarkEndedInv == ASSUME IInv, NEW r \in Request, MarkEnded(r) PROVE Grown /\ IInv'
<1> DEFINE old == req[r]
           q == [old EXCEPT !.pc = "reply"]
<1>1. /\ old \in ReqState /\ old.op = "terminate" /\ old.user \in User
      /\ Mine(old.row, old.user) /\ Dead(old.row) /\ old.sid = rows[old.row].sid
      /\ rows' = Ended({old.row}) /\ UNCHANGED <<owner, live, flows>>
  BY DEF IInv, MarkEnded, RequestInv, Active, hydra
<1>2. /\ q \in ReqState /\ q.pc = "reply" /\ q.op = "terminate" /\ q.user = old.user
      /\ q.row = old.row /\ q.sid = old.sid
  BY <1>1 DEF ReqState, Pc
<1>3. req' = [req EXCEPT ![r] = q] /\ req'[r] = q
  BY DEF MarkEnded, Goto, IInv
<1> HIDE DEF q
<1>4. Grown /\ StoresInv' /\ rows'[old.row].ended
  BY <1>1, EndRows DEF Mine
<1>5. /\ old.row \in RowId /\ rows'[old.row] # None /\ rows'[old.row].user = old.user
      /\ rows'[old.row].sid \notin live' /\ rows'[old.row].sid = old.sid
  BY <1>1, <1>4 DEF Mine, Rows, Grown, Dead
<1>6. RequestInv(r)'
  BY <1>1, <1>2, <1>3, <1>4, <1>5 DEF RequestInv, Active, At, Mine, Rows, Over, Dead
<1> QED
  BY <1>2, <1>3, <1>4, <1>6, StepInv

LEMMA RevokeAllInv == ASSUME IInv, NEW r \in Request, RevokeAll(r) PROVE Grown /\ IInv'
<1> DEFINE old == req[r]
           q == [old EXCEPT !.pc = "markAll"]
<1>1. /\ old \in ReqState /\ old.op = "logoutAll" /\ old.user \in User
      /\ \A i \in old.scope : Mine(i, old.user)
      /\ \A s \in old.logins : owner[s] = old.user
      /\ live' = {s \in live : owner[s] # old.user} /\ UNCHANGED <<owner, flows, rows>>
  BY DEF IInv, RevokeAll, RequestInv, Active, BySubject, LoginsOf
<1>2. /\ q \in ReqState /\ q.pc = "markAll" /\ q.op = "logoutAll" /\ q.user = old.user
      /\ q.scope = old.scope /\ q.logins = old.logins
  BY <1>1 DEF ReqState, Pc
<1>3. req' = [req EXCEPT ![r] = q] /\ req'[r] = q
  BY DEF RevokeAll, Goto, IInv
<1> HIDE DEF q
<1>4. ASSUME NEW i \in old.scope PROVE rows[i].sid \notin live'
  <2>1. i \in RowId /\ rows[i] # None /\ rows[i].user = old.user /\ RowInv(i)
    BY <1>1 DEF Mine, Rows, IInv, StoresInv
  <2>2. None \notin live
    BY NoneAssumption DEF IInv, StoresInv
  <2> QED
    BY <1>1, <2>1, <2>2 DEF RowInv
<1>5. \A s \in q.logins : owner'[s] # None /\ s \notin live'
  BY <1>1, <1>2, NoneAssumption
<1>6. RequestInv(r)'
  BY <1>1, <1>2, <1>3, <1>4, <1>5 DEF RequestInv, Active, At, Mine, Rows, Dead, Gone
<1> QED
  BY <1>1, <1>2, <1>3, <1>6, Revoke, StepInv

LEMMA MarkAllEndedInv == ASSUME IInv, NEW r \in Request, MarkAllEnded(r) PROVE Grown /\ IInv'
<1> DEFINE old == req[r]
           q == [old EXCEPT !.pc = "reply"]
<1>1. /\ old \in ReqState /\ old.op = "logoutAll" /\ old.user \in User
      /\ \A i \in old.scope : Mine(i, old.user) /\ Dead(i)
      /\ Gone(old.logins)
      /\ rows' = Ended(ActiveRows(old.user)) /\ UNCHANGED <<owner, live, flows>>
  BY DEF IInv, MarkAllEnded, RequestInv, Active, hydra, AllOf
<1>2. /\ q \in ReqState /\ q.pc = "reply" /\ q.op = "logoutAll" /\ q.user = old.user
      /\ q.scope = old.scope /\ q.logins = old.logins
  BY <1>1 DEF ReqState, Pc
<1>3. req' = [req EXCEPT ![r] = q] /\ req'[r] = q
  BY DEF MarkAllEnded, Goto, IInv
<1> HIDE DEF q
<1>4. Grown /\ StoresInv' /\ \A i \in ActiveRows(old.user) : rows'[i].ended
  BY <1>1, EndRows DEF ActiveRows
<1>5. ASSUME NEW i \in old.scope
      PROVE  /\ i \in RowId /\ rows'[i] # None /\ rows'[i].user = old.user
             /\ rows'[i].ended /\ rows'[i].sid \notin live'
  BY <1>1, <1>4 DEF Mine, Rows, Grown, Dead, ActiveRows
<1>6. RequestInv(r)'
  BY <1>1, <1>2, <1>3, <1>5 DEF RequestInv, Active, At, Mine, Rows, Over, Dead, Gone
<1> QED
  BY <1>2, <1>3, <1>4, <1>6, StepInv

-----------------------------------------------------------------------------
LEMMA ReplyInv == ASSUME IInv, NEW r \in Request, Reply(r) \/ Abort(r) PROVE Grown /\ IInv'
  BY SameStores, AnswerInv DEF Reply, Abort, Result

LEMMA CrashInv == ASSUME IInv, Crash PROVE Grown /\ IInv'
<1>1. /\ req' = [r \in Request |-> IF Active(r) THEN Blank ELSE req[r]]
      /\ UNCHANGED <<hydra, rows>>
  BY DEF Crash
<1>2. Blank \in ReqState /\ Blank.pc = "idle"
  BY DEF Blank, ReqState, Op, Pc, Result
<1>3. ASSUME NEW r \in Request PROVE RequestInv(r)'
  <2>1. CASE Active(r)
    BY <1>1, <1>2, <2>1 DEF RequestInv, Active, At
  <2>2. CASE ~ Active(r)
    BY <1>1, <2>2, SameStores, RequestIsStable
  <2> QED
    BY <2>1, <2>2
<1> QED
  BY <1>1, <1>2, <1>3, SameStores DEF IInv

\* A new flow may only be given a login session that is alive.
LEMMA FlowInvs ==
  ASSUME IInv, NEW f \in Flow, (\E c \in Client : StartFlow(f, c)) \/ FollowRedirect(f)
  PROVE  Grown /\ IInv'
<1>1. CASE FollowRedirect(f)
  <2>1. SignedIn(f) /\ UNCHANGED <<owner, live, rows, req>>
    BY <1>1 DEF FollowRedirect, SignedIn
  <2>2. Grown /\ StoresInv'
    BY <1>1, <2>1, FlowMoves DEF FollowRedirect, FlowState
  <2> QED
    BY <2>1, <2>2, RequestIsStable DEF IInv
<1>2. CASE \E c \in Client : StartFlow(f, c)
  <2>1. PICK c \in Client, s \in live \cup {None} :
          flows' = [flows EXCEPT ![f].st = "login", ![f].client = c, ![f].sid = s]
    BY <1>2 DEF StartFlow
  <2>2. flows[f].st = "none" /\ UNCHANGED <<owner, live, rows, req>>
    BY <1>2 DEF StartFlow
  <2>3. s \in Sid \cup {None} /\ (s # None => owner[s] # None)
    BY DEF IInv, StoresInv
  <2>4. /\ flows'[f].st = "login" /\ flows'[f].sid = s
        /\ flows' \in [Flow -> FlowRec]
        /\ \A g \in Flow \ {f} : flows'[g] = flows[g]
    <3> DEFINE new == [flows[f] EXCEPT !.st = "login", !.client = c, !.sid = s]
    <3>1. flows \in [Flow -> FlowRec] /\ flows' = [flows EXCEPT ![f] = new]
      BY <2>1 DEF IInv, StoresInv
    <3>2. new \in FlowRec /\ new.st = "login" /\ new.sid = s
      BY <2>3, <3>1 DEF FlowRec, FlowState
    <3> HIDE DEF new
    <3> QED
      BY <3>1, <3>2
  <2>5. Grown
    BY <2>2, <2>4 DEF Grown, SignedIn
  <2>6. ASSUME NEW g \in Flow PROVE FlowInv(g)'
    BY <2>2, <2>3, <2>4 DEF IInv, StoresInv, FlowInv, SignedIn
  <2>7. StoresInv'
    BY <2>2, <2>4, <2>6 DEF IInv, StoresInv, RowInv
  <2> QED
    BY <2>2, <2>5, <2>7, RequestIsStable DEF IInv
<1> QED
  BY <1>1, <1>2

LEMMA InitInv == Init => IInv
<1> SUFFICES ASSUME Init PROVE IInv
  OBVIOUS
<1>1. StoresInv
  BY DEF Init, StoresInv, FlowInv, RowInv, SignedIn, FlowRec, FlowState
<1>2. req \in [Request -> ReqState] /\ \A r \in Request : req[r].pc = "idle"
  BY DEF Init, Blank, ReqState, Op, Pc, Result
<1> QED
  BY <1>1, <1>2 DEF IInv, RequestInv, Active, At

LEMMA NextInv == IInv /\ [Next]_vars => Grown /\ IInv'
<1> SUFFICES ASSUME IInv, [Next]_vars PROVE Grown /\ IInv'
  OBVIOUS
<1>1. CASE UNCHANGED vars
  BY <1>1, SameStores, RequestIsStable DEF vars, hydra, IInv
<1>2. ASSUME NEW r \in Request, Begin(r) \/ Step(r) \/ Abort(r) PROVE Grown /\ IInv'
  BY <1>2, BeginInv, AcceptLoginInv, ConsentInv, RecordInv, FindRowInv, RevokeSidInv,
     MarkEndedInv, RevokeAllInv, MarkAllEndedInv, ReplyInv DEF Step
<1> QED
  BY <1>1, <1>2, FlowInvs, CrashInv DEF Next

\* The invariant every theorem below follows from.
LEMMA Invariance == Spec => []IInv
  BY InitInv, NextInv, PTL DEF Spec

\* Every reachable state has its type.
THEOREM TypeCorrect == Spec => []TypeOK
<1>1. IInv => TypeOK
  BY DEF IInv, StoresInv, TypeOK
<1> QED
  BY <1>1, Invariance, PTL

\* A termination that was reported stays true (sessions_admin.go).
THEOREM StaysDown == Spec => []TerminatedStaysDown
<1>1. IInv => TerminatedStaysDown
  BY DEF IInv, RequestInv, Over, Dead, TerminatedStaysDown
<1> QED
  BY <1>1, Invariance, PTL

\* A row is ended by a "terminate" that has revoked its login, or by a "logout
\* everywhere" of its user; it is made by the record of a consent.
LEMMA EndedBy ==
  ASSUME IInv, [Next]_vars, NEW i \in Rows, ~ rows[i].ended, rows'[i].ended
  PROVE  \/ rows[i].sid \notin live
         \/ \E r \in Request : At(r, "logoutAll", "markAll") /\ req[r].user = rows[i].user
<1>0. i \in RowId /\ rows[i] # None /\ rows'[i] # rows[i]
  BY DEF Rows
<1>1. \E r \in Request : MarkEnded(r) \/ MarkAllEnded(r)
  <2>1. ASSUME NEW r \in Request, RecordSession(r) PROVE FALSE
    BY <1>0, <2>1 DEF RecordSession, Rows, IInv, StoresInv
  <2> QED
    BY <1>0, <2>1
       DEF Next, vars, hydra, Begin, BeginLogin, BeginConsent, BeginTerminate,
           BeginLogoutAll, Step, AcceptLogin, RejectConsent, AcceptConsent,
           FindRow, RevokeSid, RevokeAll, Reply, StartFlow, FollowRedirect, Abort, Crash
<1>2. ASSUME NEW r \in Request, MarkEnded(r) PROVE rows[i].sid \notin live
  <2>1. i = req[r].row
    BY <1>0, <1>2 DEF MarkEnded, Ended
  <2> QED
    BY <1>2, <2>1 DEF MarkEnded, IInv, RequestInv, Dead
<1>3. ASSUME NEW r \in Request, MarkAllEnded(r)
      PROVE  At(r, "logoutAll", "markAll") /\ req[r].user = rows[i].user
  <2>1. i \in ActiveRows(req[r].user)
    BY <1>0, <1>3 DEF MarkAllEnded, Ended, AllOf
  <2> QED
    BY <1>3, <2>1 DEF MarkAllEnded, ActiveRows, IInv, RequestInv, At
<1> QED
  BY <1>1, <1>2, <1>3

LEMMA FreshRow ==
  ASSUME IInv, [Next]_vars, NEW i \in RowId, rows[i] = None, rows'[i] # None
  PROVE  \E r \in Request : RecordSession(r)
<1>1. ASSUME NEW ids \in SUBSET Rows, rows' = Ended(ids) PROVE FALSE
  BY <1>1 DEF Ended, Rows
<1>2. ASSUME NEW r \in Request, MarkEnded(r) \/ MarkAllEnded(r) PROVE FALSE
  BY <1>1, <1>2
     DEF MarkEnded, MarkAllEnded, AllOf, ActiveRows, IInv, RequestInv, Mine, Rows
<1> QED
  BY <1>2
     DEF Next, vars, hydra, Begin, BeginLogin, BeginConsent, BeginTerminate, BeginLogoutAll,
         Step, AcceptLogin, RejectConsent, AcceptConsent, FindRow, RevokeSid,
         RevokeAll, Reply, StartFlow, FollowRedirect, Abort, Crash

\* A request keeps the scope it came with.
LEMMA ScopeFrom ==
  ASSUME IInv, [Next]_vars, NEW r \in Request
  PROVE  \/ req'[r].scope \in {req[r].scope, {}}
         \/ \E u \in User : req'[r].scope = ActiveRows(u)
<1> DEFINE Kept(s) == \/ req'[s].scope \in {req[s].scope, {}}
                      \/ \E u \in User : req'[s].scope = ActiveRows(u)
<1>1. CASE req'[r] = req[r]
  BY <1>1
<1>2. ASSUME NEW s \in Request, NEW res, Answer(s, res) PROVE Kept(s)
  BY <1>2 DEF Answer, Answered, Blank, IInv, ReqState
<1>3. ASSUME NEW s \in Request, NEW pc, Goto(s, pc) PROVE Kept(s)
  BY <1>3 DEF Goto, IInv, ReqState
<1>4. ASSUME NEW s \in Request, Begin(s) PROVE Kept(s)
  BY <1>4 DEF Begin, BeginLogin, BeginConsent, BeginTerminate, BeginLogoutAll, Blank, IInv
<1>5. ASSUME NEW s \in Request, FindRow(s) PROVE Kept(s)
  BY <1>2, <1>5 DEF FindRow, IInv, ReqState
<1>6. CASE Crash
  BY <1>6 DEF Crash, Blank
<1>7. ASSUME NEW s \in Request, Begin(s) \/ Step(s) \/ Abort(s) PROVE Kept(s)
  BY <1>2, <1>3, <1>4, <1>5, <1>7
     DEF Step, AcceptLogin, RejectConsent, AcceptConsent, RecordSession, RevokeSid, MarkEnded,
         RevokeAll, MarkAllEnded, Reply, Abort
<1>8. ASSUME NEW s \in Request \ {r}, Begin(s) \/ Step(s) \/ Abort(s) PROVE req'[r] = req[r]
  BY <1>8
     DEF Begin, BeginLogin, BeginConsent, BeginTerminate, BeginLogoutAll, Step, AcceptLogin,
         RejectConsent, AcceptConsent, RecordSession, FindRow, RevokeSid, MarkEnded,
         RevokeAll, MarkAllEnded, Reply, Abort, Answer, Goto, IInv
<1> QED
  BY <1>1, <1>6, <1>7, <1>8 DEF Next, vars, StartFlow, FollowRedirect

\* What the list of sessions needs for "terminate" to do what it says
\* (sessions_admin.go): that no two of its rows show one login session.  The
\* login session is over in Hydra in any case.
RowsApart ==
  \A i, j \in Rows : rows[i].sid = rows[j].sid /\ rows[i].sid # None => i = j

THEOREM TerminateIsEnough == Spec => [](RowsApart => TerminateEndsTheSession)
<1> DEFINE Shown == \A r \in Request : req[r].scope \subseteq Rows
<1>1. IInv /\ Shown => (RowsApart => TerminateEndsTheSession)
  <2> SUFFICES ASSUME IInv, Shown, RowsApart, NEW r \in Request, NEW i \in req[r].scope,
                      At(r, "terminate", "done"), req[r].res = "ok", req[r].sid # None,
                      rows[i].sid = req[r].sid
               PROVE  rows[i].ended
    BY DEF TerminateEndsTheSession
  <2>1. /\ Mine(req[r].row, req[r].user) /\ Over(req[r].row)
        /\ req[r].sid = rows[req[r].row].sid
    BY DEF IInv, RequestInv
  <2> QED
    BY <2>1 DEF RowsApart, Mine, Over
<1>2. Init => Shown
  BY DEF Init, Blank
<1>3. IInv /\ Shown /\ [Next]_vars => Shown'
  <2> SUFFICES ASSUME IInv, Shown, [Next]_vars, NEW r \in Request
               PROVE  req'[r].scope \subseteq Rows'
    OBVIOUS
  <2>1. Rows \subseteq Rows'
    BY NextInv DEF Grown, Rows
  <2>2. req'[r].scope \in {req[r].scope, {}} \/ \E u \in User : req'[r].scope = ActiveRows(u)
    BY ScopeFrom
  <2> QED
    BY <2>1, <2>2 DEF ActiveRows
<1> QED
  BY <1>1, <1>2, <1>3, Invariance, PTL DEF Spec

\* "Logout everywhere" covers what there was when it was asked for.
THEOREM CoversScope == Spec => []LogoutAllCoversScope
<1>1. IInv => LogoutAllCoversScope
  BY DEF IInv, RequestInv, Over, Dead, LogoutAllCoversScope
<1> QED
  BY <1>1, Invariance, PTL

\* It also covers the logins no row shows: Hydra is asked by user
\* (TerminateAllSessions.Execute).
THEOREM CoversLogins == Spec => []LogoutAllCoversLogins
<1>1. IInv => LogoutAllCoversLogins
  BY DEF IInv, RequestInv, Gone, LogoutAllCoversLogins
<1> QED
  BY <1>1, Invariance, PTL

\* What "logout everywhere" needs (TerminateAllSessions.Execute): that the user
\* signs in nowhere between its two statements.  Then no row that has ended is a
\* login in Hydra, whatever ended it and however requests interleave.
QuietLogout ==
  \A r \in Request : At(r, "logoutAll", "markAll") => \A s \in live : owner[s] # req[r].user

THEOREM QuietLogoutIsEnough ==
  Spec /\ []QuietLogout => []LogoutAllEndsEverySession
<1> DEFINE EndedIsDead == \A i \in Rows : rows[i].ended => Dead(i)
<1>1. Init => EndedIsDead
  BY DEF Init, Rows
<1>2. IInv /\ IInv' /\ QuietLogout /\ EndedIsDead /\ [Next]_vars => EndedIsDead'
  <2> SUFFICES ASSUME IInv, IInv', QuietLogout, EndedIsDead, [Next]_vars,
                      NEW i \in RowId, rows'[i] # None, rows'[i].ended
               PROVE  rows'[i].sid \notin live'
    BY DEF Rows, Dead
  <2>1. CASE i \in Rows /\ Dead(i)
    BY <2>1, NextInv, DeadStaysDead DEF IInv, Rows
  <2>2. CASE i \notin Rows
    <3>1. PICK r \in Request : RecordSession(r)
      BY <2>2, FreshRow DEF Rows
    <3> QED
      BY <2>2, <3>1 DEF RecordSession, Rows, IInv, StoresInv
  <2>3. CASE i \in Rows /\ ~ rows[i].ended /\ ~ Dead(i)
    <3>1. PICK r \in Request : At(r, "logoutAll", "markAll") /\ req[r].user = rows[i].user
      BY <2>3, EndedBy DEF Dead
    <3>2. rows[i].sid \in live /\ owner[rows[i].sid] = rows[i].user
      BY <2>3, NoneAssumption DEF Dead, Rows, IInv, StoresInv, RowInv
    <3> QED
      BY <3>1, <3>2 DEF QuietLogout
  <2> QED
    BY <2>1, <2>2, <2>3
<1>3. EndedIsDead => LogoutAllEndsEverySession
  BY DEF LogoutAllEndsEverySession, Dead
<1> QED
  BY <1>1, <1>2, <1>3, Invariance, PTL DEF Spec

\* Only a user's own requests end his logins in Hydra.
THEOREM OwnRevocations == Spec => OnlyOwnerRevokes
<1>1. ASSUME IInv, [Next]_vars, NEW s \in live, s \notin live'
      PROVE  \E r \in Request : req[r].pc \in {"revoke", "revokeAll"} /\ req[r].user = owner[s]
  <2>1. \E r \in Request : RevokeSid(r) \/ RevokeAll(r)
    BY <1>1
       DEF Next, vars, hydra, Begin, BeginLogin, BeginConsent, BeginTerminate,
           BeginLogoutAll, Step, AcceptLogin, RejectConsent, AcceptConsent, RecordSession,
           FindRow, MarkEnded, MarkAllEnded, Reply, StartFlow, FollowRedirect, Abort, Crash
  <2>2. ASSUME NEW r \in Request, RevokeAll(r)
        PROVE  req[r].pc = "revokeAll" /\ req[r].user = owner[s]
    BY <1>1, <2>2 DEF RevokeAll, BySubject, LoginsOf
  <2>3. ASSUME NEW r \in Request, RevokeSid(r)
        PROVE  req[r].pc = "revoke" /\ req[r].user = owner[s]
    <3>1. s = req[r].sid /\ req[r].pc = "revoke"
      BY <1>1, <2>3 DEF RevokeSid, WithoutSid
    <3>2. Mine(req[r].row, req[r].user) /\ req[r].sid = rows[req[r].row].sid /\ req[r].sid \in Sid
      BY <1>1, <3>1 DEF IInv, RequestInv
    <3> QED
      BY <1>1, <3>1, <3>2, NoneAssumption DEF Mine, Rows, IInv, StoresInv, RowInv
  <2> QED
    BY <2>1, <2>2, <2>3
<1>2. IInv /\ [Next]_vars =>
        [\A s \in live :
           s \notin live' =>
             \E r \in Request : /\ req[r].pc \in {"revoke", "revokeAll"}
                                /\ req[r].user = owner[s]]_vars
  BY <1>1
<1> QED
  BY <1>2, Invariance, PTL DEF Spec, OnlyOwnerRevokes

\* Hydra first, the row second (TerminateSession.Execute).
THEOREM HydraFirst == Spec => RevokedBeforeEnded
<1>1. ASSUME IInv, [Next]_vars, NEW i \in Rows, ~ rows[i].ended, rows'[i].ended
      PROVE  \/ rows[i].sid \notin live
             \/ \E r \in Request : At(r, "logoutAll", "markAll") /\ req[r].user = rows[i].user
  BY <1>1, EndedBy
<1>2. IInv /\ [Next]_vars =>
        [\A i \in Rows :
           ~ rows[i].ended /\ rows'[i].ended =>
             \/ rows[i].sid \notin live
             \/ \E r \in Request : At(r, "logoutAll", "markAll")
                                   /\ req[r].user = rows[i].user]_vars
  BY <1>1
<1> QED
  BY <1>2, Invariance, PTL DEF Spec, RevokedBeforeEnded

=============================================================================
