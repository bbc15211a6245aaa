------------------------------ MODULE Sessions ------------------------------
(***************************************************************************)
(* Login sessions of platform-core: the login and consent providers Ory     *)
(* Hydra calls back (auth_handlers.go), the sessions table that records     *)
(* each granted consent, and the two ways to end sessions                   *)
(* (sessions_admin.go).                                                     *)
(*                                                                          *)
(* A session exists twice: as a login session inside Hydra, named by its    *)
(* sid, and as rows of the sessions table that carry that sid.  No call     *)
(* touches both, so requests that overlap, and requests that stop half way, *)
(* decide how far the two may drift apart.  Hydra is external: its state is *)
(* modelled from what the handlers ask of it and read back.                 *)
(***************************************************************************)
EXTENDS Naturals, FiniteSets

CONSTANTS
  Request,      \* request slots: how many requests are in flight at once
  User,         \* subjects (user ids)
  Client,       \* OAuth clients
  Trusted,      \* the clients listed as first-party: their consent is implied
  Flow,         \* authorization flows (login and consent challenges)
  Sid,          \* Hydra login sessions
  RowId,        \* ids of rows of the sessions table
  Reload,       \* whether Hydra answers an accepted consent challenge again
                \* until the browser has followed the redirect
  None          \* the absent value

SessionRow == [user : User, sid : Sid \cup {None}, ended : BOOLEAN]

FlowState == {"none", "login", "consent", "granted", "followed", "denied"}

FlowRec == [st : FlowState, client : Client \cup {None},
            user : User \cup {None}, sid : Sid \cup {None}]

ASSUME ParameterAssumption == Trusted \subseteq Client /\ Reload \in BOOLEAN

ASSUME NoneAssumption == None \notin SessionRow \cup User \cup Client \cup Sid \cup RowId

VARIABLES
  owner,    \* whom each Hydra login session authenticates: [Sid -> User or None]
  live,     \* login sessions Hydra has not revoked
  flows,    \* Hydra's authorization flows: [Flow -> FlowRec]
  rows,     \* the sessions table: [RowId -> SessionRow or None]
  req       \* the request in each slot

vars == <<owner, live, flows, rows, req>>
hydra == <<owner, live, flows>>

Op == {"login", "consent", "terminate", "logoutAll"}

\* The call a request makes next; at "reply" only the answer is left.
Pc == {"idle", "acceptLogin", "accept", "reject", "record", "find", "revoke",
       "mark", "revokeAll", "markAll", "reply", "done"}

Result == {"pending", "ok", "notfound", "error"}

\* "scope" and "logins" are history variables: the user's active rows, and for
\* a logout everywhere the user's login sessions, when the request came.
ReqState ==
  [op : Op, pc : Pc, res : Result, user : User \cup {None},
   flow : Flow \cup {None}, sid : Sid \cup {None}, row : RowId \cup {None},
   scope : SUBSET RowId, logins : SUBSET Sid]

Blank == [op |-> "login", pc |-> "idle", res |-> "pending", user |-> None,
          flow |-> None, sid |-> None, row |-> None, scope |-> {},
          logins |-> {}]

Init ==
  /\ owner = [s \in Sid |-> None]
  /\ live = {}
  /\ flows = [f \in Flow |->
                [st |-> "none", client |-> None, user |-> None, sid |-> None]]
  /\ rows = [i \in RowId |-> None]
  /\ req = [r \in Request |-> Blank]

-----------------------------------------------------------------------------
(* The stores and the rules the use cases apply to them.  A definition      *)
(* named Faulty... is a variant with a plausible bug; nothing uses it but   *)
(* the mutation runs.                                                       *)

Rows == {i \in RowId : rows[i] # None}

\* The rows ListActiveByUser returns.
ActiveRows(u) == {i \in Rows : rows[i].user = u /\ ~ rows[i].ended}

\* TerminateSession goes on only for a row of the caller.
FaultyMine(i, u) == i \in Rows
Mine(i, u) == i \in Rows /\ rows[i].user = u

\* TerminateSession revokes in Hydra first, when the row has a sid to name.
FaultyAfterFind(i) == "mark"
AfterFind(i) == IF rows[i].sid # None THEN "revoke" ELSE "mark"

LoginsOf(u) == {s \in live : owner[s] = u}

\* RevokeLoginSessionsBySubject: it names the user, not what the table lists.
FaultyBySubject(u) == {s \in live : \E i \in ActiveRows(u) : rows[i].sid = s}
BySubject(u) == LoginsOf(u)

\* RevokeLoginSessionByID
FaultyWithoutSid(s) == live
WithoutSid(s) == live \ {s}

\* MarkEnded, MarkAllEndedByUser: the rows that get an ended_at.
Ended(ids) == [i \in RowId |-> IF i \in ids THEN [rows[i] EXCEPT !.ended = TRUE]
                                            ELSE rows[i]]
FaultyAllOf(u) == {i \in ActiveRows(u) : rows[i].sid \in live}
AllOf(u) == ActiveRows(u)

-----------------------------------------------------------------------------
(* Requests.                                                                *)

Active(r) == req[r].pc \notin {"idle", "done"}
At(r, op, pc) == req[r].op = op /\ req[r].pc = pc

Goto(r, pc) == req' = [req EXCEPT ![r].pc = pc]

\* The handler answers.  What it had read is garbage, except that a success
\* reported to the user stays on record.
Answered(q, res) ==
  IF res = "ok" /\ q.op \in {"terminate", "logoutAll"}
  THEN [q EXCEPT !.pc = "done", !.res = res]
  ELSE [Blank EXCEPT !.op = q.op, !.pc = "done", !.res = res]
Answer(r, res) == req' = [req EXCEPT ![r] = Answered(req[r], res)]

\* GET /login with skip, or POST /login after Authenticate accepted u.  Hydra
\* offers skip when the browser holds a login session; should that be revoked
\* meanwhile, Hydra may go on (AcceptLogin) or refuse (Abort).
BeginLogin(r, f, u) ==
  /\ ~ Active(r)
  /\ flows[f].st = "login"
  /\ flows[f].sid # None => u = owner[flows[f].sid]
  /\ req' = [req EXCEPT ![r] = [Blank EXCEPT !.op = "login", !.flow = f,
                                             !.pc = "acceptLogin", !.user = u]]
  /\ UNCHANGED <<hydra, rows>>

\* What Hydra may report as login_session_id of a consent request: nothing,
\* perhaps, once the login session is revoked.
ReportedSid(f) == IF flows[f].sid \in live THEN {flows[f].sid}
                                           ELSE {flows[f].sid, None}

\* Bound: a consent starts while a row is left for it.
RowToSpare ==
  Cardinality({r \in Request : req[r].op = "consent" /\ Active(r)})
    < Cardinality(RowId \ Rows)

\* The subject a consent request may go on with: an empty one is refused (Abort).
FaultySubjectOf(f) == {flows[f].user, None}
SubjectOf(f) == {flows[f].user}

\* The consent challenge of the flow still answers.
Answering(f) == flows[f].st = "consent" \/ (Reload /\ flows[f].st = "granted")

\* GET /consent: GetConsentRequest, then the decision by client.
BeginConsent(r, f) ==
  /\ ~ Active(r)
  /\ Answering(f)
  /\ RowToSpare
  /\ \E s \in ReportedSid(f), u \in SubjectOf(f) :
       req' = [req EXCEPT ![r] =
         [Blank EXCEPT !.op = "consent", !.flow = f, !.user = u, !.sid = s,
            !.pc = IF flows[f].client \in Trusted THEN "accept" ELSE "reject"]]
  /\ UNCHANGED <<hydra, rows>>

\* The caller has an access token or a hub session, which nothing in this
\* module takes away: the user has been through a flow once.
Caller(u) == \E f \in Flow : flows[f].st \in {"granted", "followed"} /\ flows[f].user = u

\* DELETE /api/sessions/{id}, POST /account/sessions/{id}/terminate, with any
\* id in the path.
BeginTerminate(r, u, i) ==
  /\ ~ Active(r)
  /\ Caller(u)
  /\ req' = [req EXCEPT ![r] = [Blank EXCEPT !.op = "terminate", !.pc = "find",
                                             !.user = u, !.row = i,
                                             !.scope = ActiveRows(u)]]
  /\ UNCHANGED <<hydra, rows>>

\* POST /api/sessions/logout-all, POST /account/sessions/logout-all
BeginLogoutAll(r, u) ==
  /\ ~ Active(r)
  /\ Caller(u)
  /\ req' = [req EXCEPT ![r] = [Blank EXCEPT !.op = "logoutAll",
                                  !.pc = "revokeAll", !.user = u,
                                  !.scope = ActiveRows(u),
                                  !.logins = LoginsOf(u)]]
  /\ UNCHANGED <<hydra, rows>>

Begin(r) ==
  \/ \E f \in Flow, u \in User : BeginLogin(r, f, u)
  \/ \E f \in Flow : BeginConsent(r, f)
  \/ \E u \in User, i \in RowId : BeginTerminate(r, u, i)
  \/ \E u \in User : BeginLogoutAll(r, u)

-----------------------------------------------------------------------------
(* One action per call.                                                     *)

\* AcceptLoginRequest (remember): without skip a login session is created.  A
\* challenge that was accepted before is refused.
AcceptLogin(r) ==
  LET f == req[r].flow IN
  /\ req[r].pc = "acceptLogin"
  /\ \/ /\ flows[f].st # "login"
        /\ Answer(r, "error")
        /\ UNCHANGED hydra
     \/ /\ flows[f].st = "login" /\ flows[f].sid # None
        /\ flows' = [flows EXCEPT ![f].st = "consent", ![f].user = req[r].user]
        /\ Answer(r, "ok")
        /\ UNCHANGED <<owner, live>>
     \/ /\ flows[f].st = "login" /\ flows[f].sid = None
        /\ \E s \in Sid :
             /\ owner[s] = None
             /\ owner' = [owner EXCEPT ![s] = req[r].user]
             /\ live' = live \cup {s}
             /\ flows' = [flows EXCEPT ![f].st = "consent", ![f].sid = s,
                                       ![f].user = req[r].user]
        /\ Answer(r, "ok")
  /\ UNCHANGED rows

\* RejectConsentRequest, for a client that is not first-party.
RejectConsent(r) ==
  /\ req[r].pc = "reject"
  /\ flows' = [flows EXCEPT ![req[r].flow].st = "denied"]
  /\ Answer(r, "ok")
  /\ UNCHANGED <<owner, live, rows>>

\* AcceptConsentRequest; refused when the challenge no longer answers.
AcceptConsent(r) ==
  LET f == req[r].flow IN
  /\ req[r].pc = "accept"
  /\ \/ /\ Answering(f)
        /\ flows' = [flows EXCEPT ![f].st = "granted"]
        /\ Goto(r, "record")
     \/ /\ ~ Answering(f)
        /\ Answer(r, "error")
        /\ UNCHANGED flows
  /\ UNCHANGED <<owner, live, rows>>

\* SessionRepository.Create with the subject and sid read at the beginning; a
\* failure is logged and the browser redirected all the same.
RecordSession(r) ==
  /\ req[r].pc = "record"
  /\ \/ \E i \in RowId \ Rows :
          rows' = [rows EXCEPT ![i] = [user |-> req[r].user, sid |-> req[r].sid,
                                       ended |-> FALSE]]
     \/ UNCHANGED rows
  /\ Answer(r, "ok")
  /\ UNCHANGED hydra

\* TerminateSession: FindByID and the ownership check.
FindRow(r) ==
  LET i == req[r].row IN
  /\ req[r].pc = "find"
  /\ \/ ~ Mine(i, req[r].user) /\ Answer(r, "notfound")
     \/ /\ Mine(i, req[r].user)
        /\ req' = [req EXCEPT ![r].pc = AfterFind(i), ![r].sid = rows[i].sid]
  /\ UNCHANGED <<hydra, rows>>

RevokeSid(r) ==
  /\ req[r].pc = "revoke"
  /\ live' = WithoutSid(req[r].sid)
  /\ Goto(r, "mark")
  /\ UNCHANGED <<owner, flows, rows>>

MarkEnded(r) ==
  /\ req[r].pc = "mark"
  /\ rows' = Ended({req[r].row})
  /\ Goto(r, "reply")
  /\ UNCHANGED hydra

\* TerminateAllSessions: RevokeLoginSessionsBySubject, then MarkAllEndedByUser.
RevokeAll(r) ==
  /\ req[r].pc = "revokeAll"
  /\ live' = live \ BySubject(req[r].user)
  /\ Goto(r, "markAll")
  /\ UNCHANGED <<owner, flows, rows>>

MarkAllEnded(r) ==
  /\ req[r].pc = "markAll"
  /\ rows' = Ended(AllOf(req[r].user))
  /\ Goto(r, "reply")
  /\ UNCHANGED hydra

Reply(r) ==
  /\ req[r].pc = "reply"
  /\ Answer(r, "ok")
  /\ UNCHANGED <<hydra, rows>>

Step(r) ==
  \/ AcceptLogin(r) \/ RejectConsent(r) \/ AcceptConsent(r) \/ RecordSession(r)
  \/ FindRow(r) \/ RevokeSid(r) \/ MarkEnded(r)
  \/ RevokeAll(r) \/ MarkAllEnded(r) \/ Reply(r)

-----------------------------------------------------------------------------
(* What the surroundings may do.                                            *)

\* A product sends a browser to Hydra, which asks for a login; a browser that
\* holds a live login session is recognised.
StartFlow(f, c) ==
  /\ flows[f].st = "none"
  /\ \E s \in live \cup {None} :
       flows' = [flows EXCEPT ![f].st = "login", ![f].client = c, ![f].sid = s]
  /\ UNCHANGED <<owner, live, rows, req>>

\* The browser follows the redirect of an accepted consent.
FollowRedirect(f) ==
  /\ flows[f].st = "granted"
  /\ flows' = [flows EXCEPT ![f].st = "followed"]
  /\ UNCHANGED <<owner, live, rows, req>>

\* A call fails, or its reply is lost, and the handler returns the error.
Abort(r) ==
  /\ Active(r)
  /\ Answer(r, "error")
  /\ UNCHANGED <<hydra, rows>>

\* The process dies: nobody is answered, the stores stay.
Crash ==
  /\ \E r \in Request : Active(r)
  /\ req' = [r \in Request |-> IF Active(r) THEN Blank ELSE req[r]]
  /\ UNCHANGED <<hydra, rows>>

Next ==
  \/ \E r \in Request : Begin(r) \/ Step(r) \/ Abort(r)
  \/ \E f \in Flow, c \in Client : StartFlow(f, c)
  \/ \E f \in Flow : FollowRedirect(f)
  \/ Crash

Spec == Init /\ [][Next]_vars

-----------------------------------------------------------------------------
(* Properties.                                                              *)

TypeOK ==
  /\ owner \in [Sid -> User \cup {None}]
  /\ live \subseteq Sid
  /\ flows \in [Flow -> FlowRec]
  /\ rows \in [RowId -> SessionRow \cup {None}]
  /\ req \in [Request -> ReqState]

\* Whatever id is in the path, and however consents, logins and terminations
\* overlap, a login session of Hydra ends only for a request of its own user.
OnlyOwnerRevokes ==
  [][\A s \in live :
       s \notin live' =>
         \E r \in Request : /\ req[r].pc \in {"revoke", "revokeAll"}
                            /\ req[r].user = owner[s]]_vars

\* Ending one session stops in between on the safe side: a row ends while Hydra
\* still honours its login in a "logout everywhere" at most.
RevokedBeforeEnded ==
  [][\A i \in Rows :
       ~ rows[i].ended /\ rows'[i].ended =>
         \/ rows[i].sid \notin live
         \/ \E r \in Request : At(r, "logoutAll", "markAll")
                               /\ req[r].user = rows[i].user]_vars

\* What a termination reported stays true: the row is ended and no later login
\* or consent brings the Hydra session back.
TerminatedStaysDown ==
  \A r \in Request :
    At(r, "terminate", "done") /\ req[r].res = "ok"
      => rows[req[r].row].ended /\ rows[req[r].row].sid \notin live

\* After "logout everywhere" every session the user had when asking for it is
\* over, in the table and in Hydra.
LogoutAllCoversScope ==
  \A r \in Request :
    At(r, "logoutAll", "done") /\ req[r].res = "ok"
      => \A i \in req[r].scope : rows[i].ended /\ rows[i].sid \notin live

\* So is every login the user had then, whether or not a row could be stored for
\* it, and whatever consents and logins go on meanwhile.
LogoutAllCoversLogins ==
  \A r \in Request :
    At(r, "logoutAll", "done") /\ req[r].res = "ok" => req[r].logins \cap live = {}

\* "TerminateSession ends one of the user's own sessions (revokes it in Hydra
\* too)": once it has answered, none of the rows that showed that session when
\* the request came still shows it as active.
TerminateEndsTheSession ==
  \A r \in Request :
    At(r, "terminate", "done") /\ req[r].res = "ok" /\ req[r].sid # None
      => \A i \in req[r].scope : rows[i].sid = req[r].sid => rows[i].ended

\* "TerminateAllSessions ends every session of the user": of the sessions whose
\* rows it has ended, none is still a login in Hydra.
LogoutAllEndsEverySession ==
  \A r \in Request :
    At(r, "logoutAll", "done") /\ req[r].res = "ok"
      => \A i \in Rows : rows[i].user = req[r].user /\ rows[i].ended
                           => rows[i].sid \notin live

=============================================================================
