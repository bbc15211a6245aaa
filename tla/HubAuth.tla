------------------------------ MODULE HubAuth -------------------------------
(***************************************************************************)
(* The account hub of platform-core as an OIDC client of Hydra: the login   *)
(* redirect, the callback, the hub sessions kept in Redis, logout and the   *)
(* guard in front of the hub pages (hub_auth_handlers.go,                   *)
(* hub_middleware.go).                                                      *)
(*                                                                          *)
(* The state is in two places that only messages connect: the cookies in    *)
(* each browser and the sessions in Redis.  A request carries the cookies   *)
(* of the moment it was sent; its answer changes them when it arrives, after *)
(* the answers of other tabs, or never.  Hydra is external: it signs        *)
(* somebody in and hands out a code that can be exchanged once.  The URL it *)
(* redirects to names a state and a code; the hub looks at each by itself.  *)
(***************************************************************************)
EXTENDS Naturals, FiniteSets

CONSTANTS
  Request,      \* request slots: requests and answers under way at once
  Browser,      \* browsers
  User,         \* subjects (user ids)
  Flow,         \* authorization flows, each with its random state
  HubId,        \* hub session ids
  None          \* the absent value: no cookie, an empty subject

\* What Redis stores under hubsession:<id>.  "flow" is a history field: the
\* flow whose code the session was created for.
HubSession == [subject : User, flow : Flow]

\* A flow from the drawing of its state to the exchange of its code; it is begun
\* once the redirect has reached the browser.  "with" is a history field: the flow
\* whose state the code was exchanged along with.
FlowState == {"none", "drawn", "begun", "code", "spent"}
FlowRec == [st : FlowState, browser : Browser \cup {None}, user : User \cup {None},
            with : Flow \cup {None}]

ASSUME NoneAssumption ==
  None \notin HubSession \cup Browser \cup User \cup Flow \cup HubId

VARIABLES
  stateJar,     \* the hub_oauth_state cookie of each browser
  sessionJar,   \* the hub_session cookie of each browser
  flows,        \* Hydra's authorization flows: [Flow -> FlowRec]
  sessions,     \* the sessions ever stored: [HubId -> HubSession or None]
  live,         \* ids whose key is still in Redis
  req           \* the request in each slot

vars == <<stateJar, sessionJar, flows, sessions, live, req>>
jars == <<stateJar, sessionJar>>
store == <<sessions, live>>

Op == {"login", "callback", "logout", "page"}

\* The call a request makes next; at "reply" its answer is on the way.
Pc == {"idle", "exchange", "create", "delete", "subject", "reply", "done"}

Result == {"pending", "ok", "invalid", "redirect", "error"}

\* "flow" is the state a login drew or a callback named, "code" the flow of the
\* code it named; "id" is the session a request was sent with, or has created.
ReqState ==
  [op : Op, pc : Pc, res : Result, browser : Browser \cup {None},
   flow : Flow \cup {None}, code : Flow \cup {None},
   user : User \cup {None}, id : HubId \cup {None}]

Blank == [op |-> "page", pc |-> "idle", res |-> "pending", browser |-> None,
          flow |-> None, code |-> None, user |-> None, id |-> None]

Init ==
  /\ stateJar = [b \in Browser |-> None]
  /\ sessionJar = [b \in Browser |-> None]
  /\ flows = [f \in Flow |->
       [st |-> "none", browser |-> None, user |-> None, with |-> None]]
  /\ sessions = [h \in HubId |-> None]
  /\ live = {}
  /\ req = [r \in Request |-> Blank]

-----------------------------------------------------------------------------
(* The rules of the handlers.  A definition named Faulty... is a variant    *)
(* with a plausible bug; nothing uses it but the mutation runs.             *)

\* callback: there is a state cookie and it is the state of the URL.
FaultyStateMatches(cookie, f) == cookie # None /\ f # None
StateMatches(cookie, f) == cookie # None /\ cookie = f

\* ExchangeForSubject fails for an inactive token and for an empty subject.
FaultyAccepted(subject) == TRUE
Accepted(subject) == subject # None

\* The keys a logout with this cookie removes.
FaultyRemoved(h) == {i \in live : sessions[i].subject = sessions[h].subject}
Removed(h) == {h}

\* Whom the guard lets a request through as.
Subject(h) == IF h \in live THEN {sessions[h].subject} ELSE {}

-----------------------------------------------------------------------------
(* Requests.                                                                *)

Active(r) == req[r].pc \notin {"idle", "done"}
At(r, op, pc) == req[r].op = op /\ req[r].pc = pc

Goto(r, pc) == req' = [req EXCEPT ![r].pc = pc]

\* An answer that sets no cookie; what the request carried is garbage.
Answer(r, res) ==
  req' = [req EXCEPT ![r] = [Blank EXCEPT !.op = req[r].op, !.pc = "done",
                                          !.res = res]]

\* Bound: a callback starts while a session id is left for it.
IdToSpare ==
  Cardinality({r \in Request : req[r].pc \in {"exchange", "create"}})
    < Cardinality({h \in HubId : sessions[h] = None})

\* GET /auth/login: a fresh state; the cookie and the redirect are one answer.
BeginLogin(r, b) ==
  /\ ~ Active(r)
  /\ \E f \in Flow :
       /\ flows[f].st = "none"
       /\ flows' = [flows EXCEPT ![f].st = "drawn", ![f].browser = b]
       /\ req' = [req EXCEPT ![r] = [Blank EXCEPT !.op = "login", !.pc = "reply",
                                       !.browser = b, !.flow = f]]
  /\ UNCHANGED <<jars, store>>

\* Values the URL of a callback can name; None is one nobody handed out.
States == {f \in Flow : flows[f].st \notin {"none", "drawn"}} \cup {None}
Codes == {c \in Flow : flows[c].st \in {"code", "spent"}} \cup {None}

\* GET /auth/callback?code=&state=: any browser may open any URL, again too.
BeginCallback(r, b, f, c) ==
  /\ ~ Active(r)
  /\ IdToSpare
  /\ req' = [req EXCEPT ![r] =
       IF StateMatches(stateJar[b], f)
       THEN [Blank EXCEPT !.op = "callback", !.pc = "exchange", !.browser = b,
                          !.flow = f, !.code = c]
       ELSE [Blank EXCEPT !.op = "callback", !.pc = "done", !.res = "invalid"]]
  /\ UNCHANGED <<jars, flows, store>>

\* GET /auth/logout: with no cookie there is nothing to delete.
BeginLogout(r, b) ==
  /\ ~ Active(r)
  /\ req' = [req EXCEPT ![r] =
       [Blank EXCEPT !.op = "logout", !.browser = b, !.id = sessionJar[b],
                     !.pc = IF sessionJar[b] = None THEN "reply" ELSE "delete"]]
  /\ UNCHANGED <<jars, flows, store>>

\* Any page behind RequireHubSession
BeginPage(r, b) ==
  /\ ~ Active(r)
  /\ req' = [req EXCEPT ![r] =
       IF sessionJar[b] = None
       THEN [Blank EXCEPT !.pc = "done", !.res = "redirect"]
       ELSE [Blank EXCEPT !.pc = "subject", !.browser = b, !.id = sessionJar[b]]]
  /\ UNCHANGED <<jars, flows, store>>

Begin(r) ==
  \E b \in Browser :
    \/ BeginLogin(r, b) \/ BeginLogout(r, b) \/ BeginPage(r, b)
    \/ \E f \in States, c \in Codes : BeginCallback(r, b, f, c)

-----------------------------------------------------------------------------
(* One action per call, and one for the answer that sets cookies.           *)

\* ExchangeForSubject: the code, whosever it is, is spent, and the token names
\* who signed in for it, or nobody when it is not active any more.
Exchange(r) ==
  LET c == req[r].code
      good == c # None /\ flows[c].st = "code" IN
  /\ req[r].pc = "exchange"
  /\ \/ /\ ~ good
        /\ Answer(r, "error")
        /\ UNCHANGED flows
     \/ /\ good
        /\ flows' = [flows EXCEPT ![c].st = "spent", ![c].with = req[r].flow]
        /\ \E subject \in {flows[c].user, None} :
             IF Accepted(subject)
             THEN req' = [req EXCEPT ![r].pc = "create", ![r].user = subject]
             ELSE Answer(r, "error")
  /\ UNCHANGED <<jars, store>>

\* HubSessionStore.Create: SET of a fresh random id with its TTL.
Create(r) ==
  /\ req[r].pc = "create"
  /\ \E h \in HubId :
       /\ sessions[h] = None
       /\ sessions' = [sessions EXCEPT ![h] = [subject |-> req[r].user,
                                               flow |-> req[r].code]]
       /\ live' = live \cup {h}
       /\ req' = [req EXCEPT ![r].pc = "reply", ![r].id = h, ![r].user = None]
  /\ UNCHANGED <<jars, flows>>

\* HubSessionStore.Delete; the handler ignores its error.
Delete(r) ==
  /\ req[r].pc = "delete"
  /\ live' \in {live \ Removed(req[r].id), live}
  /\ Goto(r, "reply")
  /\ UNCHANGED <<jars, flows, sessions>>

\* RequireHubSession: the page is served as the subject of the session, or the
\* browser is sent to the login.
Guard(r) ==
  LET s == Subject(req[r].id) IN
  /\ req[r].pc = "subject"
  /\ \/ s = {} /\ Answer(r, "redirect")
     \/ \E u \in s :
          req' = [req EXCEPT ![r].pc = "done", ![r].res = "ok", ![r].user = u]
  /\ UNCHANGED <<jars, flows, store>>

\* The answer reaches the browser.
Deliver(r) ==
  LET b == req[r].browser IN
  /\ req[r].pc = "reply"
  /\ stateJar' = [stateJar EXCEPT ![b] =
       CASE req[r].op = "login" -> req[r].flow
         [] req[r].op = "callback" -> None
         [] OTHER -> @]
  /\ sessionJar' = [sessionJar EXCEPT ![b] =
       CASE req[r].op = "callback" -> req[r].id
         [] req[r].op = "logout" -> None
         [] OTHER -> @]
  /\ req' = [req EXCEPT ![r] =
       [Blank EXCEPT !.op = req[r].op, !.pc = "done", !.res = "ok"]]
  /\ flows' = IF req[r].op = "login"
              THEN [flows EXCEPT ![req[r].flow].st = "begun"]
              ELSE flows
  /\ UNCHANGED store

Step(r) == Exchange(r) \/ Create(r) \/ Delete(r) \/ Guard(r) \/ Deliver(r)

-----------------------------------------------------------------------------
(* What the surroundings may do.                                            *)

\* Somebody signs in at Hydra, which redirects back with a code.
SignIn(f, u) ==
  /\ flows[f].st = "begun"
  /\ flows' = [flows EXCEPT ![f].st = "code", ![f].user = u]
  /\ UNCHANGED <<jars, store, req>>

\* A call fails and the handler says so, or the answer is lost.
Abort(r) ==
  /\ Active(r)
  /\ Answer(r, "error")
  /\ UNCHANGED <<jars, flows, store>>

\* The process dies: nobody is answered, Redis stays.
Crash ==
  /\ \E r \in Request : Active(r)
  /\ req' = [r \in Request |-> IF Active(r) THEN Blank ELSE req[r]]
  /\ UNCHANGED <<jars, flows, store>>

\* A session's TTL (24 h) runs out.
Expire(h) ==
  /\ h \in live
  /\ live' = live \ {h}
  /\ UNCHANGED <<jars, flows, sessions, req>>

\* The state cookie's 300 s run out; the session cookie, which names no time,
\* ends with the browser's session.
Forget(b) ==
  /\ \/ stateJar' = [stateJar EXCEPT ![b] = None] /\ UNCHANGED sessionJar
     \/ sessionJar' = [sessionJar EXCEPT ![b] = None] /\ UNCHANGED stateJar
  /\ UNCHANGED <<flows, store, req>>

Next ==
  \/ \E r \in Request : Begin(r) \/ Step(r) \/ Abort(r)
  \/ \E f \in Flow, u \in User : SignIn(f, u)
  \/ \E h \in HubId : Expire(h)
  \/ \E b \in Browser : Forget(b)
  \/ Crash

Spec == Init /\ [][Next]_vars

-----------------------------------------------------------------------------
(* Properties.                                                              *)

TypeOK ==
  /\ stateJar \in [Browser -> Flow \cup {None}]
  /\ sessionJar \in [Browser -> HubId \cup {None}]
  /\ flows \in [Flow -> FlowRec]
  /\ sessions \in [HubId -> HubSession \cup {None}]
  /\ live \subseteq HubId
  /\ req \in [Request -> ReqState]

\* The browser that took up the login of this code, by the state it came with.
Taker(c) == flows[flows[c].with].browser

\* A browser only ever holds a session that a callback with a state of its own
\* brought, whoever opens a callback URL where, and in whatever order the answers
\* of its tabs arrive.  Whose login the code was of, the hub does not ask.
SessionIsOwn ==
  \A b \in Browser :
    sessionJar[b] # None => Taker(sessions[sessionJar[b]].flow) = b

\* A page is shown to a browser only as a user who signed in for a login that
\* this browser took up, with a state of its own.
PageIsOwn ==
  \A r \in Request :
    At(r, "page", "done") /\ req[r].res = "ok" =>
      \E c \in Flow : /\ flows[c].st = "spent"
                      /\ Taker(c) = req[r].browser
                      /\ flows[c].user = req[r].user

\* Seen from outside, a login is begun, completed, taken up by a callback as long
\* as that is under way, and used.
Seen == [browser : Browser, user : User \cup {None}, with : Flow \cup {None},
         st : {"begun", "completed", "taken", "used"}]

ASSUME SeenAssumption == None \notin Seen

Carried(f) ==
  \E r \in Request :
    req[r].op = "callback" /\ req[r].pc \in {"create", "reply"} /\ req[r].code = f
Stage(f) ==
  CASE flows[f].st \in {"drawn", "begun"} -> "begun"
    [] flows[f].st = "code" -> "completed"
    [] OTHER -> IF Carried(f) THEN "taken" ELSE "used"
LoginOf(f) ==
  IF flows[f].st = "none" THEN None
  ELSE [browser |-> flows[f].browser, user |-> flows[f].user,
        with |-> flows[f].with, st |-> Stage(f)]

\* Whom the guard would let the browser through as.
GuestOf(b) == IF sessionJar[b] \in live THEN sessions[sessionJar[b]].subject ELSE None

\* Whatever order redirects, callbacks, logouts and their answers come in, and
\* whatever callback URLs are opened where, browsers are signed in and out as in
\* HubDoor: one at a time, and once for each login.
Door == INSTANCE HubDoor WITH
          Login <- Flow, logins <- [f \in Flow |-> LoginOf(f)],
          signedIn <- [b \in Browser |-> GuestOf(b)]
OneEntryPerLogin == Door!Spec

=============================================================================
