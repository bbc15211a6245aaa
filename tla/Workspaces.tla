----------------------------- MODULE Workspaces -----------------------------
(***************************************************************************)
(* Workspaces of platform-core and who belongs to them: creating a          *)
(* workspace, inviting by e-mail and accepting an invitation                *)
(* (src/internal/application/workspace).                                    *)
(*                                                                          *)
(* As in Accounts, a request makes one call at a time, each call is one     *)
(* statement of Postgres or one mail, and no transaction spans two calls.   *)
(* No code deletes a workspace or a member, or changes a role.              *)
(***************************************************************************)
EXTENDS Naturals, FiniteSets

CONSTANTS
  Request,      \* request slots: how many requests are in flight at once
  User,         \* logged-in users
  Workspace,    \* workspace ids
  Slug,         \* slugs a creation may draw: the slugified name and 8 hex digits
  Invite,       \* invitation ids, each with its random token
  OtherRole,    \* a role name outside the three the platform knows
  None          \* the absent value

Role == {"owner", "admin", "member"}

WorkspaceRow == [slug : Slug, createdBy : User]

\* "via" is a history field: the invitation a membership came from.
Member == [ws : Workspace, user : User, role : Role, via : Invite \cup {None}]

\* "by" is a history field: who sent the invitation.  "mailed" tells whether
\* anybody but the server knows the token.
InviteRow == [ws : Workspace, role : Role, by : User,
              mailed : BOOLEAN, accepted : BOOLEAN, expired : BOOLEAN]

ASSUME NoneAssumption ==
  None \notin WorkspaceRow \cup InviteRow \cup Workspace \cup Slug
                \cup Invite \cup User \cup Role

ASSUME OtherRoleAssumption == OtherRole \notin Role

VARIABLES
  workspaces,   \* the workspaces table: [Workspace -> WorkspaceRow or None]
  members,      \* the workspace_members table: a set of Member rows
  invites,      \* the workspace_invites table: [Invite -> InviteRow or None]
  req           \* the request in each slot

vars == <<workspaces, members, invites, req>>

Op == {"create", "invite", "accept"}

\* The call a request makes next; at "reply" only the answer is left.
Pc == {"idle", "slug", "insert", "own", "check", "store", "mail", "find",
       "join", "close", "reply", "done"}

\* "refused" stands for ErrNotMember and ErrForbidden.
Result == {"pending", "ok", "invalid", "refused", "notfound", "already", "error"}

\* "late" is a history variable: the invitation had been accepted when the
\* request to accept it came.
ReqState ==
  [op : Op, pc : Pc, res : Result, user : User \cup {None},
   ws : Workspace \cup {None}, slug : Slug \cup {None},
   role : Role \cup {None}, invite : Invite \cup {None}, late : BOOLEAN]

Blank == [op |-> "create", pc |-> "idle", res |-> "pending", user |-> None,
          ws |-> None, slug |-> None, role |-> None, invite |-> None,
          late |-> FALSE]

Init ==
  /\ workspaces = [w \in Workspace |-> None]
  /\ members = {}
  /\ invites = [i \in Invite |-> None]
  /\ req = [r \in Request |-> Blank]

-----------------------------------------------------------------------------
(* The tables and the rules the use cases apply to them.  A definition      *)
(* named Faulty... is a variant with a plausible bug; nothing uses it but   *)
(* the mutation runs.                                                       *)

Workspaces == {w \in Workspace : workspaces[w] # None}
Invites == {i \in Invite : invites[i] # None}

\* MemberRepository.Find
Membership(w, u) == {m \in members : m.ws = w /\ m.user = u}

\* InviteMember goes on for an owner or an admin only (CanManageMembers).
UncheckedManages(w, u) == w \in Workspaces
FaultyManages(w, u) == Membership(w, u) # {}
Manages(w, u) == \E m \in Membership(w, u) : m.role \in {"owner", "admin"}

FaultyValidRole(role) == TRUE
ValidRole(role) == role \in Role

SlugExists(s) == \E w \in Workspaces : workspaces[w].slug = s

\* The constraints UNIQUE (slug) and UNIQUE (workspace_id, user_id) accept the
\* insert.
SlugFree(s) == ~ SlugExists(s)
FaultyInsertable(w, u) == TRUE
Insertable(w, u) == Membership(w, u) = {}

\* FindByToken: not accepted, not expired.
FaultyOpen(i) == ~ invites[i].expired
Open(i) == ~ invites[i].accepted /\ ~ invites[i].expired

-----------------------------------------------------------------------------
(* Requests.                                                                *)

Active(r) == req[r].pc \notin {"idle", "done"}
At(r, op, pc) == req[r].op = op /\ req[r].pc = pc

Goto(r, pc) == req' = [req EXCEPT ![r].pc = pc]

\* The handler answers; what it had read is garbage.
Answered(q, res) ==
  [Blank EXCEPT !.op = q.op, !.pc = "done", !.res = res, !.late = q.late]
Answer(r, res) == req' = [req EXCEPT ![r] = Answered(req[r], res)]

\* Bounds: a creation or an invitation starts while an id is left for it.
WorkspaceToSpare ==
  Cardinality({r \in Request : req[r].pc \in {"slug", "insert"}})
    < Cardinality(Workspace \ Workspaces)
InviteToSpare ==
  Cardinality({r \in Request : req[r].pc \in {"check", "store"}})
    < Cardinality(Invite \ Invites)

\* POST /workspaces, POST /account/workspaces, with or without a name
BeginCreate(r, u) ==
  /\ ~ Active(r)
  /\ WorkspaceToSpare
  /\ \/ req' = [req EXCEPT ![r] = [Blank EXCEPT !.pc = "done", !.res = "invalid"]]
     \/ req' = [req EXCEPT ![r] = [Blank EXCEPT !.pc = "slug", !.user = u]]
  /\ UNCHANGED <<workspaces, members, invites>>

\* POST /workspaces/{id}/invites, POST /account/workspaces/{id}/invites, with
\* any workspace id in the path.
BeginInvite(r, u, w, role) ==
  /\ ~ Active(r)
  /\ InviteToSpare
  /\ req' = [req EXCEPT ![r] =
       IF ValidRole(role)
       THEN [Blank EXCEPT !.op = "invite", !.pc = "check", !.user = u,
                          !.ws = w, !.role = role]
       ELSE [Blank EXCEPT !.op = "invite", !.pc = "done", !.res = "invalid"]]
  /\ UNCHANGED <<workspaces, members, invites>>

\* POST /invites/{token}/accept, by anybody who got hold of the link
BeginAccept(r, u, i) ==
  /\ ~ Active(r)
  /\ i \in Invites /\ invites[i].mailed
  /\ req' = [req EXCEPT ![r] =
       [Blank EXCEPT !.op = "accept", !.pc = "find", !.user = u, !.invite = i,
                     !.late = invites[i].accepted]]
  /\ UNCHANGED <<workspaces, members, invites>>

Begin(r) ==
  \E u \in User :
    \/ BeginCreate(r, u)
    \/ \E w \in Workspace, role \in Role \cup {OtherRole} : BeginInvite(r, u, w, role)
    \/ \E i \in Invite : BeginAccept(r, u, i)

-----------------------------------------------------------------------------
(* One action per call.                                                     *)

\* SlugExists; a slug that is taken is drawn anew, once and unchecked.
DrawSlug(r) ==
  /\ req[r].pc = "slug"
  /\ \E s, t \in Slug :
       req' = [req EXCEPT ![r].pc = "insert",
                          ![r].slug = IF SlugExists(s) THEN t ELSE s]
  /\ UNCHANGED <<workspaces, members, invites>>

\* WorkspaceRepository.Create under a fresh id
InsertWorkspace(r) ==
  /\ req[r].pc = "insert"
  /\ \/ /\ ~ SlugFree(req[r].slug)
        /\ Answer(r, "error")
        /\ UNCHANGED workspaces
     \/ /\ SlugFree(req[r].slug)
        /\ \E w \in Workspace \ Workspaces :
             /\ workspaces' = [workspaces EXCEPT ![w] =
                  [slug |-> req[r].slug, createdBy |-> req[r].user]]
             /\ req' = [req EXCEPT ![r].pc = "own", ![r].ws = w, ![r].slug = None]
  /\ UNCHANGED <<members, invites>>

\* MemberRepository.Create; a unique violation is ErrAlreadyMember.
Join(r, role, next) ==
  LET w == req[r].ws
      u == req[r].user
  IN \/ /\ ~ Insertable(w, u)
        /\ Answer(r, "already")
        /\ UNCHANGED members
     \/ /\ Insertable(w, u)
        /\ members' = members \cup
             {[ws |-> w, user |-> u, role |-> role, via |-> req[r].invite]}
        /\ Goto(r, next)

\* CreateWorkspace: the creator becomes the owner, in a second statement.
InsertOwner(r) ==
  /\ req[r].pc = "own"
  /\ Join(r, "owner", "reply")
  /\ UNCHANGED <<workspaces, invites>>

\* InviteMember: Find and CanManageMembers.
CheckInviter(r) ==
  /\ req[r].pc = "check"
  /\ IF Manages(req[r].ws, req[r].user) THEN Goto(r, "store")
                                        ELSE Answer(r, "refused")
  /\ UNCHANGED <<workspaces, members, invites>>

\* FindByID, which a workspace with a member cannot fail, and
\* InviteRepository.Create with a fresh token
StoreInvite(r) ==
  /\ req[r].pc = "store"
  /\ \E i \in Invite \ Invites :
       /\ invites' = [invites EXCEPT ![i] =
            [ws |-> req[r].ws, role |-> req[r].role, by |-> req[r].user,
             mailed |-> FALSE, accepted |-> FALSE, expired |-> FALSE]]
       /\ req' = [req EXCEPT ![r].pc = "mail", ![r].invite = i]
  /\ UNCHANGED <<workspaces, members>>

\* SendWorkspaceInvite
MailInvite(r) ==
  /\ req[r].pc = "mail"
  /\ invites' = [invites EXCEPT ![req[r].invite].mailed = TRUE]
  /\ Goto(r, "reply")
  /\ UNCHANGED <<workspaces, members>>

\* AcceptInvite: FindByToken.
FindInvite(r) ==
  LET i == req[r].invite IN
  /\ req[r].pc = "find"
  /\ \/ ~ Open(i) /\ Answer(r, "notfound")
     \/ /\ Open(i)
        /\ req' = [req EXCEPT ![r].pc = "join", ![r].ws = invites[i].ws,
                              ![r].role = invites[i].role]
  /\ UNCHANGED <<workspaces, members, invites>>

\* AcceptInvite: the caller becomes a member, whatever became of the invitation
\* since it was read.
JoinAsInvited(r) ==
  /\ req[r].pc = "join"
  /\ Join(r, req[r].role, "close")
  /\ UNCHANGED <<workspaces, invites>>

\* MarkAccepted, unconditionally
CloseInvite(r) ==
  /\ req[r].pc = "close"
  /\ invites' = [invites EXCEPT ![req[r].invite].accepted = TRUE]
  /\ Goto(r, "reply")
  /\ UNCHANGED <<workspaces, members>>

Reply(r) ==
  /\ req[r].pc = "reply"
  /\ Answer(r, "ok")
  /\ UNCHANGED <<workspaces, members, invites>>

Step(r) ==
  \/ DrawSlug(r) \/ InsertWorkspace(r) \/ InsertOwner(r)
  \/ CheckInviter(r) \/ StoreInvite(r) \/ MailInvite(r)
  \/ FindInvite(r) \/ JoinAsInvited(r) \/ CloseInvite(r) \/ Reply(r)

-----------------------------------------------------------------------------
(* What the surroundings may do.                                            *)

\* A call fails, or its reply is lost, and the handler returns the error.
Abort(r) ==
  /\ Active(r)
  /\ Answer(r, "error")
  /\ UNCHANGED <<workspaces, members, invites>>

\* The process dies: nobody is answered, the tables stay.
Crash ==
  /\ \E r \in Request : Active(r)
  /\ req' = [r \in Request |-> IF Active(r) THEN Blank ELSE req[r]]
  /\ UNCHANGED <<workspaces, members, invites>>

\* expires_at passes, seven days after the invitation was made.
Expire(i) ==
  /\ i \in Invites
  /\ ~ invites[i].expired
  /\ invites' = [invites EXCEPT ![i].expired = TRUE]
  /\ UNCHANGED <<workspaces, members, req>>

Next ==
  \/ \E r \in Request : Begin(r) \/ Step(r) \/ Abort(r)
  \/ \E i \in Invite : Expire(i)
  \/ Crash

Spec == Init /\ [][Next]_vars

-----------------------------------------------------------------------------
(* Properties.                                                              *)

TypeOK ==
  /\ workspaces \in [Workspace -> WorkspaceRow \cup {None}]
  /\ members \subseteq Member
  /\ invites \in [Invite -> InviteRow \cup {None}]
  /\ req \in [Request -> ReqState]

\* A user who accepts two invitations at once, or one invitation twice, has one
\* role in the workspace afterwards.
OneRolePerMember ==
  \A m, n \in members : m.ws = n.ws /\ m.user = n.user => m = n

\* Members who were let in by nobody but one another.
SelfInvited(group) ==
  /\ group # {}
  /\ \A m \in group :
       /\ m.via # None
       /\ \E n \in group : n.ws = m.ws /\ n.user = invites[m.via].by

\* Every membership goes back, invitation by invitation, to the creator of the
\* workspace.  In particular nobody ever gets into a workspace whose creation
\* stopped before its owner was stored.
MembershipIsRooted ==
  /\ \A group \in SUBSET members : ~ SelfInvited(group)
  /\ \A m \in members :
       IF m.via = None THEN workspaces[m.ws].createdBy = m.user
                       ELSE Membership(m.ws, invites[m.via].by) # {}

\* Nobody changes a workspace's team without the role for it: the sender of an
\* invitation has it, and the invited get the workspace and role it names even
\* when it is accepted, expires or is accepted again meanwhile.
AuthorityIsDelegated ==
  /\ \A i \in Invites : \E m \in members :
       m.ws = invites[i].ws /\ m.user = invites[i].by /\ m.role # "member"
  /\ \A m \in members : m.via # None =>
       m.ws = invites[m.via].ws /\ m.role = invites[m.via].role

\* An invitation that was accepted before a request came admits nobody more;
\* only requests that overlap can use it twice.
AcceptedInviteStaysClosed ==
  \A r \in Request :
    At(r, "accept", "done") /\ req[r].late => req[r].res \in {"notfound", "error"}

\* A workspace whose creator never became its owner stays empty: wherever there
\* is a team, the creator is in it and owns the workspace.
TeamHasItsOwner ==
  \A m \in members : \E n \in members :
    n.ws = m.ws /\ n.role = "owner" /\ n.user = workspaces[m.ws].createdBy

\* Invitations do not show: workspaces get their members as in Membership, the
\* founder first and everybody else while somebody manages the workspace.
RoleOf(w, u) == LET own == Membership(w, u) IN
  IF own = {} THEN None ELSE (CHOOSE m \in own : TRUE).role
Team == INSTANCE Membership WITH
          founder <- [w \in Workspace |-> IF workspaces[w] = None THEN None
                                          ELSE workspaces[w].createdBy],
          team <- [w \in Workspace |-> [u \in User |-> RoleOf(w, u)]]
MembersAreLetIn == Team!Spec

\* Design, 4.4: creating a workspace makes the creator its owner.  A workspace
\* that no request is still creating has its creator as an owner.
CreatorIsOwner ==
  \A w \in Workspaces :
    \/ \E m \in members : /\ m.ws = w /\ m.role = "owner"
                          /\ m.user = workspaces[w].createdBy
    \/ \E r \in Request : At(r, "create", "own") /\ req[r].ws = w

=============================================================================
