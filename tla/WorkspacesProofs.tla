-------------------------- MODULE WorkspacesProofs --------------------------
(***************************************************************************)
(* Proofs about Workspaces, for any users, workspaces, invitations and      *)
(* requests.                                                                *)
(*                                                                          *)
(* The tables only grow, so what a request read stays true; and a workspace *)
(* gets an invitation only from somebody in it.  As long as its owner is not *)
(* stored it therefore has no invitation and no member, and whoever joins   *)
(* later was invited by somebody who was there before him.                  *)
(***************************************************************************)
EXTENDS Workspaces, TLAPS

\* A row agrees with where it comes from.
MemberInv(m) ==
  /\ workspaces[m.ws] # None
  /\ m.via = None => m.role = "owner" /\ workspaces[m.ws].createdBy = m.user
  /\ m.via # None =>
       /\ invites[m.via] # None
       /\ invites[m.via].ws = m.ws /\ invites[m.via].role = m.role
       /\ Membership(m.ws, invites[m.via].by) # {}

InviteInv(i) == invites[i] # None => Manages(invites[i].ws, invites[i].by)

Known(i) == i \in Invite /\ invites[i] # None

RequestInv(r) ==
  LET q == req[r] IN
  /\ Active(r) => q.user \in User
  /\ q.pc \in {"slug", "insert", "own"} => q.op = "create" /\ q.invite = None
  /\ q.pc = "insert" => q.slug \in Slug
  /\ q.pc = "own" =>
       /\ q.ws \in Workspace /\ workspaces[q.ws] # None
       /\ workspaces[q.ws].createdBy = q.user
       /\ \A m \in members : m.ws # q.ws
  /\ q.pc \in {"check", "store"} => q.op = "invite" /\ q.ws \in Workspace /\ q.role \in Role
  /\ q.pc = "store" => Manages(q.ws, q.user)
  /\ q.pc = "mail" => q.op = "invite" /\ Known(q.invite)
  /\ q.pc \in {"find", "join", "close"} => q.op = "accept" /\ Known(q.invite)
  /\ q.pc = "join" => q.ws = invites[q.invite].ws /\ q.role = invites[q.invite].role
  /\ q.late => \/ At(r, "accept", "find") /\ invites[q.invite].accepted
               \/ At(r, "accept", "done") /\ q.res \in {"notfound", "error"}

\* Two creations do not share a workspace.
OwnersApart ==
  \A r, s \in Request :
    req[r].pc = "own" /\ req[s].pc = "own" /\ r # s => req[r].ws # req[s].ws

Rooted == \A group \in SUBSET members : ~ SelfInvited(group)

TablesInv ==
  /\ workspaces \in [Workspace -> WorkspaceRow \cup {None}]
  /\ members \subseteq Member
  /\ invites \in [Invite -> InviteRow \cup {None}]
  /\ \A m \in members : MemberInv(m)
  /\ \A i \in Invite : InviteInv(i)
  /\ OneRolePerMember
  /\ Rooted

IInv ==
  /\ TablesInv
  /\ req \in [Request -> ReqState]
  /\ \A r \in Request : RequestInv(r)
  /\ OwnersApart

\* Rows stay; of an invitation only its marks change, and none is unmarked.
Grown ==
  /\ \A w \in Workspace : workspaces[w] # None => workspaces'[w] = workspaces[w]
  /\ members \subseteq members'
  /\ \A i \in Invite : invites[i] # None =>
       /\ invites'[i] # None
       /\ invites'[i].ws = invites[i].ws /\ invites'[i].role = invites[i].role
       /\ invites'[i].by = invites[i].by
       /\ invites[i].accepted => invites'[i].accepted

\* Nobody joins the workspace a request is about to give its owner.
Apart(r) == req[r].pc = "own" => \A m \in members' \ members : m.ws # req[r].ws

-----------------------------------------------------------------------------
LEMMA RequestIsStable ==
  ASSUME IInv, Grown, NEW r \in Request, req'[r] = req[r], Apart(r)
  PROVE  RequestInv(r)'
<1> DEFINE q == req[r]
<1>1. RequestInv(r) /\ q \in ReqState
  BY DEF IInv
<1>2. Active(r)' = Active(r) /\ \A op, pc : At(r, op, pc)' = At(r, op, pc)
  BY DEF Active, At
<1>3. q.pc = "own" =>
        /\ workspaces'[q.ws] = workspaces[q.ws]
        /\ \A m \in members' : m.ws # q.ws
  BY <1>1 DEF RequestInv, Grown, Apart
<1>4. Manages(q.ws, q.user) =>
        \E m \in members' : m.ws = q.ws /\ m.user = q.user /\ m.role \in {"owner", "admin"}
  BY DEF Manages, Membership, Grown
<1>5. Known(q.invite) =>
        /\ q.invite \in Invite /\ invites'[q.invite] # None
        /\ invites'[q.invite].ws = invites[q.invite].ws
        /\ invites'[q.invite].role = invites[q.invite].role
        /\ invites[q.invite].accepted => invites'[q.invite].accepted
  BY DEF Known, Grown
<1>6. At(r, "accept", "find") => Known(q.invite)
  BY <1>1 DEF RequestInv, At
<1> QED
  BY <1>1, <1>2, <1>3, <1>4, <1>5, <1>6 DEF RequestInv, Known, Manages, Membership

\* One request moves, or none.
LEMMA StepInv ==
  ASSUME IInv, Grown, TablesInv', NEW r \in Request, NEW q \in ReqState,
         req' = [req EXCEPT ![r] = q], RequestInv(r)',
         \A s \in Request \ {r} : Apart(s),
         q.pc = "own" => \A s \in Request \ {r} : req[s].pc = "own" => req[s].ws # q.ws
  PROVE  IInv'
<1>1. req'[r] = q /\ \A s \in Request \ {r} : req'[s] = req[s]
  BY DEF IInv
<1>2. \A s \in Request : RequestInv(s)'
  BY <1>1, RequestIsStable
<1>3. OwnersApart'
  BY <1>1 DEF OwnersApart, IInv
<1> QED
  BY <1>1, <1>2, <1>3 DEF IInv

LEMMA SameTables ==
  ASSUME IInv, UNCHANGED <<workspaces, members, invites>>
  PROVE  Grown /\ TablesInv' /\ \A r \in Request : Apart(r)
  BY DEF IInv, Grown, Apart, TablesInv, MemberInv, InviteInv, Membership, Manages,
         OneRolePerMember, Rooted, SelfInvited

\* An answer carries nothing but the outcome.
LEMMA AnswerInv ==
  ASSUME IInv, Grown, TablesInv', NEW r \in Request, NEW res \in Result, Answer(r, res),
         \A s \in Request \ {r} : Apart(s),
         req[r].late => res \in {"notfound", "error"}
  PROVE  IInv'
<1> DEFINE q == Answered(req[r], res)
<1>1. req[r] \in ReqState /\ RequestInv(r)
  BY DEF IInv
<1>2. /\ q \in ReqState /\ q.pc = "done" /\ q.op = req[r].op /\ q.res = res
      /\ q.late = req[r].late
  BY <1>1 DEF Answered, Blank, ReqState, Pc
<1>3. req' = [req EXCEPT ![r] = q] /\ req'[r] = q
  BY DEF Answer, IInv
<1> HIDE DEF q
<1>4. RequestInv(r)'
  BY <1>1, <1>2, <1>3 DEF RequestInv, Active, At
<1> QED
  BY <1>2, <1>3, <1>4, StepInv

\* Where no table changes, a request only has to know what it knows.
LEMMA QuietInv ==
  ASSUME IInv, UNCHANGED <<workspaces, members, invites>>,
         NEW r \in Request, NEW q \in ReqState, req' = [req EXCEPT ![r] = q],
         RequestInv(r)', q.pc # "own"
  PROVE  IInv'
  BY SameTables, StepInv

-----------------------------------------------------------------------------
(* Steps that leave the tables alone.                                       *)

LEMMA BeginInv ==
  ASSUME IInv, NEW r \in Request, Begin(r)
  PROVE  IInv'
<1> PICK u \in User :
      \/ BeginCreate(r, u)
      \/ \E w \in Workspace, role \in Role \cup {OtherRole} : BeginInvite(r, u, w, role)
      \/ \E i \in Invite : BeginAccept(r, u, i)
  BY DEF Begin
<1> USE DEF Blank, ReqState, Op, Pc, Result
<1>1. CASE BeginCreate(r, u)
  <2>1. PICK q \in {[Blank EXCEPT !.pc = "done", !.res = "invalid"],
                    [Blank EXCEPT !.pc = "slug", !.user = u]} :
          req' = [req EXCEPT ![r] = q]
    BY <1>1 DEF BeginCreate
  <2>2. /\ q \in ReqState /\ q.op = "create" /\ ~ q.late /\ q.invite = None
        /\ q.pc = "done" \/ (q.pc = "slug" /\ q.user = u)
    BY <2>1
  <2>3. req'[r] = q
    BY <2>1 DEF IInv
  <2>4. RequestInv(r)'
    BY <2>2, <2>3 DEF RequestInv, Active, At
  <2> QED
    BY <1>1, <2>1, <2>2, <2>4, QuietInv DEF BeginCreate
<1>2. ASSUME NEW w \in Workspace, NEW role \in Role \cup {OtherRole}, BeginInvite(r, u, w, role)
      PROVE  IInv'
  <2> DEFINE q == IF ValidRole(role)
                  THEN [Blank EXCEPT !.op = "invite", !.pc = "check", !.user = u,
                                     !.ws = w, !.role = role]
                  ELSE [Blank EXCEPT !.op = "invite", !.pc = "done", !.res = "invalid"]
  <2>1. req' = [req EXCEPT ![r] = q] /\ req'[r] = q
    BY <1>2 DEF BeginInvite, IInv
  <2>2. /\ q \in ReqState /\ q.op = "invite" /\ ~ q.late
        /\ \/ q.pc = "done"
           \/ q.pc = "check" /\ q.user = u /\ q.ws = w /\ q.role \in Role
    BY DEF ValidRole
  <2> HIDE DEF q
  <2>3. RequestInv(r)'
    BY <2>1, <2>2 DEF RequestInv, Active, At
  <2> QED
    BY <1>2, <2>1, <2>2, <2>3, QuietInv DEF BeginInvite
<1>3. ASSUME NEW i \in Invite, BeginAccept(r, u, i) PROVE IInv'
  <2> DEFINE q == [Blank EXCEPT !.op = "accept", !.pc = "find", !.user = u, !.invite = i,
                     !.late = invites[i].accepted]
  <2>1. req' = [req EXCEPT ![r] = q] /\ req'[r] = q
    BY <1>3 DEF BeginAccept, IInv
  <2>2. Known(i) /\ invites[i].accepted \in BOOLEAN
    BY <1>3 DEF BeginAccept, Known, Invites, IInv, TablesInv, InviteRow
  <2>3. /\ q \in ReqState /\ q.op = "accept" /\ q.pc = "find" /\ q.user = u
        /\ q.invite = i /\ q.late = invites[i].accepted
    BY <2>2
  <2> HIDE DEF q
  <2>4. RequestInv(r)'
    BY <1>3, <2>1, <2>2, <2>3 DEF RequestInv, Active, At, Known, BeginAccept
  <2> QED
    BY <1>3, <2>1, <2>3, <2>4, QuietInv DEF BeginAccept
<1> QED
  BY <1>1, <1>2, <1>3

LEMMA DrawSlugInv == ASSUME IInv, NEW r \in Request, DrawSlug(r) PROVE IInv'
<1>1. PICK t \in Slug : req' = [req EXCEPT ![r].pc = "insert", ![r].slug = t]
  BY DEF DrawSlug
<1> DEFINE q == [req[r] EXCEPT !.pc = "insert", !.slug = t]
<1>2. req[r] \in ReqState /\ RequestInv(r) /\ req[r].pc = "slug"
  BY DEF IInv, DrawSlug
<1>3. /\ q \in ReqState /\ q.pc = "insert" /\ q.slug = t /\ q.op = req[r].op
      /\ q.invite = req[r].invite /\ q.user = req[r].user /\ q.late = req[r].late
  BY <1>2 DEF ReqState, Pc
<1>4. req' = [req EXCEPT ![r] = q] /\ req'[r] = q
  BY <1>1, <1>2 DEF IInv
<1> HIDE DEF q
<1>5. RequestInv(r)'
  BY <1>2, <1>3, <1>4 DEF RequestInv, Active, At
<1> QED
  BY <1>3, <1>4, <1>5, QuietInv DEF DrawSlug

LEMMA CheckInviterInv == ASSUME IInv, NEW r \in Request, CheckInviter(r) PROVE IInv'
<1>1. req[r] \in ReqState /\ RequestInv(r) /\ req[r].pc = "check" /\ ~ req[r].late
  BY DEF IInv, CheckInviter, RequestInv, At
<1>2. CASE Manages(req[r].ws, req[r].user)
  <2> DEFINE q == [req[r] EXCEPT !.pc = "store"]
  <2>1. /\ q \in ReqState /\ q.pc = "store" /\ q.op = req[r].op /\ q.user = req[r].user
        /\ q.ws = req[r].ws /\ q.role = req[r].role /\ q.late = req[r].late
    BY <1>1 DEF ReqState, Pc
  <2>2. req' = [req EXCEPT ![r] = q] /\ req'[r] = q
    BY <1>1, <1>2 DEF CheckInviter, Goto, IInv
  <2> HIDE DEF q
  <2>3. UNCHANGED members
    BY DEF CheckInviter
  <2>4. RequestInv(r)'
    BY <1>1, <1>2, <2>1, <2>2, <2>3 DEF RequestInv, Active, At, Manages, Membership
  <2> QED
    BY <2>1, <2>2, <2>4, QuietInv DEF CheckInviter
<1>3. CASE ~ Manages(req[r].ws, req[r].user)
  BY <1>1, <1>3, SameTables, AnswerInv DEF CheckInviter, Result
<1> QED
  BY <1>2, <1>3

LEMMA FindInviteInv == ASSUME IInv, NEW r \in Request, FindInvite(r) PROVE IInv'
<1> DEFINE i == req[r].invite
<1>1. /\ req[r] \in ReqState /\ RequestInv(r) /\ req[r].pc = "find"
      /\ Known(i) /\ invites[i] \in InviteRow
  BY DEF IInv, TablesInv, FindInvite, RequestInv, Known
<1>2. CASE Answer(r, "notfound")
  BY <1>2, SameTables, AnswerInv DEF FindInvite, Result
<1>3. CASE ~ Answer(r, "notfound")
  <2> DEFINE q == [req[r] EXCEPT !.pc = "join", !.ws = invites[i].ws, !.role = invites[i].role]
  <2>1. /\ q \in ReqState /\ q.pc = "join" /\ q.op = req[r].op /\ q.user = req[r].user
        /\ q.ws = invites[i].ws /\ q.role = invites[i].role /\ q.invite = i
        /\ q.late = req[r].late
    BY <1>1 DEF ReqState, Pc, InviteRow
  <2>2. req' = [req EXCEPT ![r] = q] /\ req'[r] = q /\ Open(i)
    BY <1>1, <1>3 DEF FindInvite, IInv
  <2> HIDE DEF q
  <2>3. UNCHANGED invites /\ ~ req[r].late
    BY <1>1, <2>2 DEF FindInvite, RequestInv, At, Open
  <2>4. RequestInv(r)'
    BY <1>1, <2>1, <2>2, <2>3 DEF RequestInv, Active, At, Known
  <2> QED
    BY <2>1, <2>2, <2>4, QuietInv DEF FindInvite
<1> QED
  BY <1>2, <1>3

LEMMA ReplyInv == ASSUME IInv, NEW r \in Request, Reply(r) PROVE IInv'
<1>1. ~ req[r].late
  BY DEF IInv, Reply, RequestInv, At
<1> QED
  BY <1>1, SameTables, AnswerInv DEF Reply, Result

LEMMA AbortInv == ASSUME IInv, NEW r \in Request, Abort(r) PROVE IInv'
  BY SameTables, AnswerInv DEF Abort, Result

LEMMA CrashInv == ASSUME IInv, Crash PROVE IInv'
<1>1. /\ req' = [r \in Request |-> IF Active(r) THEN Blank ELSE req[r]]
      /\ UNCHANGED <<workspaces, members, invites>>
  BY DEF Crash
<1>2. Blank \in ReqState /\ Blank.pc = "idle" /\ ~ Blank.late
  BY DEF Blank, ReqState, Op, Pc, Result
<1>3. ASSUME NEW r \in Request PROVE RequestInv(r)'
  <2>1. CASE Active(r)
    BY <1>1, <1>2, <2>1 DEF RequestInv, Active, At
  <2>2. CASE ~ Active(r)
    BY <1>1, <2>2, SameTables, RequestIsStable
  <2> QED
    BY <2>1, <2>2
<1>4. OwnersApart' /\ req' \in [Request -> ReqState]
  BY <1>1, <1>2 DEF OwnersApart, Active, IInv
<1> QED
  BY <1>1, <1>3, <1>4, SameTables DEF IInv

-----------------------------------------------------------------------------
(* Steps that change a table.                                               *)

\* The roles of the team, as the refinement mapping reads them off the rows.
LEMMA RoleOfMember ==
  ASSUME OneRolePerMember, NEW m \in members
  PROVE  RoleOf(m.ws, m.user) = m.role
<1>1. Membership(m.ws, m.user) = {m}
  BY DEF Membership, OneRolePerMember
<1> QED
  BY <1>1 DEF RoleOf

LEMMA RoleOfNobody ==
  ASSUME NEW w, NEW u, Membership(w, u) = {}
  PROVE  RoleOf(w, u) = None
  BY DEF RoleOf

\* One more member leaves the others' roles alone.
LEMMA RoleOfGrown ==
  ASSUME NEW new, Membership(new.ws, new.user) = {}, members' = members \cup {new}
  PROVE  \A w \in Workspace, u \in User :
           RoleOf(w, u)' = IF w = new.ws /\ u = new.user THEN new.role ELSE RoleOf(w, u)
<1> TAKE w \in Workspace, u \in User
<1>1. CASE w = new.ws /\ u = new.user
  <2>1. Membership(w, u)' = {new}
    BY <1>1 DEF Membership
  <2> QED
    BY <1>1, <2>1 DEF RoleOf
<1>2. CASE ~ (w = new.ws /\ u = new.user)
  <2>1. Membership(w, u)' = Membership(w, u)
    BY <1>2 DEF Membership
  <2> QED
    BY <1>2, <2>1 DEF RoleOf
<1> QED
  BY <1>1, <1>2

\* Whoever joins was invited by somebody who was there: a group that invited
\* itself would have done so without him.
LEMMA AddMember ==
  ASSUME TablesInv, NEW new \in Member, Insertable(new.ws, new.user),
         members' = members \cup {new}, UNCHANGED <<workspaces, invites>>,
         MemberInv(new)
  PROVE  Grown /\ TablesInv'
<1> USE DEF TablesInv
<1>1. \A m \in members : ~ (m.ws = new.ws /\ m.user = new.user)
  BY DEF Insertable, Membership
<1>2. Grown
  BY DEF Grown
<1>3. \A m \in members' : MemberInv(m)'
  BY DEF MemberInv, Membership
<1>4. \A i \in Invite : InviteInv(i)'
  BY DEF InviteInv, Manages, Membership
<1>5. OneRolePerMember'
  BY <1>1 DEF OneRolePerMember
<1>6. Rooted'
  <2> SUFFICES ASSUME NEW group \in SUBSET (members \cup {new}), SelfInvited(group)
               PROVE  FALSE
    BY DEF Rooted, SelfInvited
  <2> DEFINE old == group \ {new}
  <2>1. ASSUME NEW m \in group
        PROVE  \E n \in old : n.ws = m.ws /\ n.user = invites[m.via].by
    <3>1. PICK n \in group : n.ws = m.ws /\ n.user = invites[m.via].by
      BY <2>1 DEF SelfInvited
    <3>2. MemberInv(m) /\ m.via # None
      BY <2>1 DEF SelfInvited
    <3>3. Membership(m.ws, invites[m.via].by) # {}
      BY <3>2 DEF MemberInv
    <3>4. n # new
      BY <1>1, <3>1, <3>3 DEF Membership
    <3> QED
      BY <3>1, <3>4
  <2>2. old # {} /\ old \in SUBSET members
    BY <2>1 DEF SelfInvited
  <2>3. SelfInvited(old)
    BY <2>1, <2>2 DEF SelfInvited
  <2> QED
    BY <2>2, <2>3 DEF Rooted
<1> QED
  BY <1>2, <1>3, <1>4, <1>5, <1>6

\* An insert into workspace_members: of the owner, or of somebody invited.
LEMMA JoinInv ==
  ASSUME IInv, NEW r \in Request, NEW role \in Role, NEW next \in {"reply", "close"},
         Join(r, role, next), UNCHANGED <<workspaces, invites>>,
         req[r].ws \in Workspace, req[r].user \in User, ~ req[r].late,
         MemberInv([ws |-> req[r].ws, user |-> req[r].user, role |-> role,
                    via |-> req[r].invite]),
         next = "close" => req[r].op = "accept" /\ Known(req[r].invite),
         \A s \in Request \ {r} : req[s].pc = "own" => req[s].ws # req[r].ws
  PROVE  IInv'
<1> DEFINE new == [ws |-> req[r].ws, user |-> req[r].user, role |-> role,
                   via |-> req[r].invite]
<1>1. req[r] \in ReqState
  BY DEF IInv
<1>2. CASE Answer(r, "already") /\ UNCHANGED members
  BY <1>2, SameTables, AnswerInv DEF Result
<1>3. CASE ~ (Answer(r, "already") /\ UNCHANGED members)
  <2>1. /\ Insertable(req[r].ws, req[r].user) /\ members' = members \cup {new}
        /\ req' = [req EXCEPT ![r].pc = next]
    BY <1>3 DEF Join, Goto
  <2>2. new \in Member /\ new.ws = req[r].ws /\ new.user = req[r].user
    BY <1>1 DEF Member, ReqState
  <2> DEFINE q == [req[r] EXCEPT !.pc = next]
  <2>3. /\ q \in ReqState /\ q.pc = next /\ q.op = req[r].op /\ q.user = req[r].user
        /\ q.invite = req[r].invite /\ q.late = req[r].late
    BY <1>1 DEF ReqState, Pc
  <2>4. req' = [req EXCEPT ![r] = q] /\ req'[r] = q
    BY <1>1, <2>1 DEF IInv
  <2> HIDE DEF q, new
  <2>5. Grown /\ TablesInv'
    BY <2>1, <2>2, AddMember DEF IInv, new
  <2>6. \A s \in Request \ {r} : Apart(s)
    BY <2>1, <2>2 DEF Apart
  <2>7. RequestInv(r)'
    BY <2>3, <2>4 DEF RequestInv, Active, At, Known
  <2> QED
    BY <2>3, <2>4, <2>5, <2>6, <2>7, StepInv
<1> QED
  BY <1>2, <1>3

\* ... and a step of Membership.
LEMMA JoinTeam ==
  ASSUME IInv, NEW new \in Member, Insertable(new.ws, new.user),
         members' = members \cup {new}, UNCHANGED workspaces,
         \/ /\ new.role = "owner" /\ workspaces[new.ws] # None
            /\ workspaces[new.ws].createdBy = new.user
            /\ \A m \in members : m.ws # new.ws
         \/ \E m \in members : m.ws = new.ws /\ m.role \in {"owner", "admin"}
  PROVE  Team!Next
<1> DEFINE w == new.ws
           u == new.user
           before == [v \in Workspace |-> [x \in User |-> RoleOf(v, x)]]
           after == [v \in Workspace |-> [x \in User |-> RoleOf(v, x)']]
<1>1. w \in Workspace /\ u \in User /\ new.role \in Role
  BY DEF Member
<1>2. \A v \in Workspace, x \in User :
        RoleOf(v, x)' = IF v = w /\ x = u THEN new.role ELSE RoleOf(v, x)
  BY RoleOfGrown DEF Insertable
<1>3. RoleOf(w, u) = None
  BY RoleOfNobody DEF Insertable
<1>4. after = [before EXCEPT ![w][u] = new.role]
  BY <1>1, <1>2
<1>5. CASE \E m \in members : m.ws = w /\ m.role \in {"owner", "admin"}
  <2>1. PICK m \in members : m.ws = w /\ m.role \in {"owner", "admin"}
    BY <1>5
  <2>2. RoleOf(w, m.user) \in {"owner", "admin"} /\ m.user \in User
    BY <2>1, RoleOfMember DEF IInv, TablesInv, Member
  <2>3. Team!Admit(w, u)
    BY <1>1, <1>3, <1>4, <2>2 DEF Team!Admit, Team!Role, Role
  <2> QED
    BY <1>1, <2>3 DEF Team!Next
<1>6. CASE ~ (\E m \in members : m.ws = w /\ m.role \in {"owner", "admin"})
  <2>1. /\ new.role = "owner" /\ workspaces[w] # None /\ workspaces[w].createdBy = u
        /\ \A m \in members : m.ws # w
    BY <1>6
  <2>2. \A x \in User : RoleOf(w, x) = None
    BY <2>1, RoleOfNobody DEF Membership
  <2>3. u # None
    BY <1>1, NoneAssumption
  <2>4. Team!Own(w)
    BY <1>1, <1>4, <2>1, <2>2, <2>3 DEF Team!Own
  <2> QED
    BY <1>1, <2>4 DEF Team!Next
<1> QED
  BY <1>5, <1>6

\* Two roots: nobody is in a workspace whose owner is about to be stored ...
LEMMA InsertOwnerStep ==
  ASSUME IInv, NEW r \in Request, InsertOwner(r)
  PROVE  IInv' /\ [Team!Next]_(Team!vars)
<1> DEFINE new == [ws |-> req[r].ws, user |-> req[r].user, role |-> "owner",
                   via |-> req[r].invite]
<1>1. req[r] \in ReqState /\ RequestInv(r) /\ req[r].pc = "own"
  BY DEF IInv, InsertOwner
<1>2. /\ req[r].ws \in Workspace /\ req[r].user \in User /\ ~ req[r].late
      /\ workspaces[req[r].ws] # None /\ workspaces[req[r].ws].createdBy = req[r].user
      /\ \A m \in members : m.ws # req[r].ws
      /\ req[r].invite = None
  BY <1>1 DEF RequestInv, Active, At
<1>3. MemberInv(new)
  BY <1>2 DEF MemberInv
<1>4. \A s \in Request \ {r} : req[s].pc = "own" => req[s].ws # req[r].ws
  BY <1>1 DEF IInv, OwnersApart
<1>5. IInv'
  BY <1>2, <1>3, <1>4, JoinInv DEF InsertOwner, Role
<1>6. new \in Member /\ new.ws = req[r].ws /\ new.user = req[r].user /\ new.role = "owner"
  BY <1>2 DEF Member, Role
<1>7. \/ UNCHANGED <<members, workspaces>>
      \/ /\ Insertable(new.ws, new.user) /\ members' = members \cup {new}
         /\ UNCHANGED workspaces
  BY DEF InsertOwner, Join
<1> HIDE DEF new
<1>8. CASE UNCHANGED <<members, workspaces>>
  BY <1>5, <1>8 DEF Team!vars, RoleOf, Membership
<1>9. CASE /\ Insertable(new.ws, new.user) /\ members' = members \cup {new}
           /\ UNCHANGED workspaces
  BY <1>2, <1>5, <1>6, <1>9, JoinTeam
<1> QED
  BY <1>7, <1>8, <1>9

\* ... and an invitation comes from somebody who manages the workspace.
LEMMA JoinAsInvitedStep ==
  ASSUME IInv, NEW r \in Request, JoinAsInvited(r)
  PROVE  IInv' /\ [Team!Next]_(Team!vars)
<1> DEFINE i == req[r].invite
           new == [ws |-> req[r].ws, user |-> req[r].user, role |-> req[r].role, via |-> i]
<1>1. req[r] \in ReqState /\ RequestInv(r) /\ req[r].pc = "join"
  BY DEF IInv, JoinAsInvited
<1>2. /\ Known(i) /\ req[r].user \in User /\ req[r].op = "accept" /\ ~ req[r].late
      /\ invites[i] \in InviteRow
      /\ req[r].ws = invites[i].ws /\ req[r].role = invites[i].role
  BY <1>1 DEF RequestInv, Active, At, Known, IInv, TablesInv
<1>3. Manages(req[r].ws, invites[i].by) /\ req[r].ws \in Workspace /\ req[r].role \in Role
  BY <1>2 DEF IInv, TablesInv, InviteInv, Known, InviteRow
<1>4. PICK m \in members :
        m.ws = req[r].ws /\ m.user = invites[i].by /\ m.role \in {"owner", "admin"}
  BY <1>3 DEF Manages, Membership
<1>5. MemberInv(new)
  <2>1. MemberInv(m)
    BY DEF IInv, TablesInv
  <2>2. workspaces[req[r].ws] # None /\ Membership(req[r].ws, invites[i].by) # {}
    BY <1>4, <2>1 DEF MemberInv, Membership
  <2>3. i # None
    BY <1>2, NoneAssumption DEF Known
  <2> QED
    BY <1>2, <2>2, <2>3 DEF MemberInv, Known
<1>6. \A s \in Request \ {r} : req[s].pc = "own" => req[s].ws # req[r].ws
  BY <1>4 DEF IInv, RequestInv
<1>7. IInv'
  BY <1>2, <1>3, <1>5, <1>6, JoinInv DEF JoinAsInvited
<1>8. new \in Member /\ new.ws = req[r].ws /\ new.user = req[r].user
  BY <1>2, <1>3 DEF Member, Known
<1>9. \/ UNCHANGED <<members, workspaces>>
      \/ /\ Insertable(new.ws, new.user) /\ members' = members \cup {new}
         /\ UNCHANGED workspaces
  BY DEF JoinAsInvited, Join
<1> HIDE DEF new
<1>10. CASE UNCHANGED <<members, workspaces>>
  BY <1>7, <1>10 DEF Team!vars, RoleOf, Membership
<1>11. CASE /\ Insertable(new.ws, new.user) /\ members' = members \cup {new}
            /\ UNCHANGED workspaces
  BY <1>4, <1>7, <1>8, <1>11, JoinTeam
<1> QED
  BY <1>9, <1>10, <1>11

\* A fresh workspace has no members.
LEMMA InsertWorkspaceStep ==
  ASSUME IInv, NEW r \in Request, InsertWorkspace(r)
  PROVE  IInv' /\ [Team!Next]_(Team!vars)
<1>1. /\ req[r] \in ReqState /\ RequestInv(r) /\ req[r].pc = "insert" /\ ~ req[r].late
      /\ req[r].user \in User /\ req[r].slug \in Slug
      /\ UNCHANGED <<members, invites>>
  BY DEF IInv, InsertWorkspace, RequestInv, At, Active
<1>2. CASE Answer(r, "error") /\ UNCHANGED workspaces
  BY <1>1, <1>2, SameTables, AnswerInv DEF Result, Team!vars, RoleOf, Membership
<1>3. CASE ~ (Answer(r, "error") /\ UNCHANGED workspaces)
  <2> DEFINE row == [slug |-> req[r].slug, createdBy |-> req[r].user]
  <2>1. PICK w \in Workspace \ Workspaces :
          /\ workspaces' = [workspaces EXCEPT ![w] = row]
          /\ req' = [req EXCEPT ![r].pc = "own", ![r].ws = w, ![r].slug = None]
    BY <1>3 DEF InsertWorkspace
  <2>2. row \in WorkspaceRow /\ row # None /\ row.createdBy = req[r].user
    BY <1>1, NoneAssumption DEF WorkspaceRow
  <2> DEFINE q == [req[r] EXCEPT !.pc = "own", !.ws = w, !.slug = None]
  <2>3. /\ q \in ReqState /\ q.pc = "own" /\ q.op = req[r].op /\ q.user = req[r].user
        /\ q.invite = req[r].invite /\ q.late = req[r].late /\ q.ws = w
    BY <1>1 DEF ReqState, Pc
  <2>4. req' = [req EXCEPT ![r] = q] /\ req'[r] = q
    BY <1>1, <2>1 DEF IInv
  <2> HIDE DEF q, row
  <2>5. /\ workspaces[w] = None /\ workspaces'[w] = row
        /\ \A v \in Workspace \ {w} : workspaces'[v] = workspaces[v]
    BY <2>1 DEF Workspaces, IInv, TablesInv
  <2>6. Grown
    BY <1>1, <2>5 DEF Grown
  <2>7. \A m \in members : m.ws # w
    BY <2>5 DEF IInv, TablesInv, MemberInv
  <2>8. TablesInv'
    <3>1. \A m \in members' : MemberInv(m)'
      BY <1>1, <2>5, <2>7 DEF IInv, TablesInv, MemberInv, Membership, Member
    <3>2. workspaces' \in [Workspace -> WorkspaceRow \cup {None}]
      BY <2>1, <2>2 DEF IInv, TablesInv
    <3> QED
      BY <1>1, <3>1, <3>2
         DEF IInv, TablesInv, InviteInv, Manages, Membership, OneRolePerMember, Rooted,
             SelfInvited
  <2>9. RequestInv(r)'
    BY <1>1, <2>2, <2>3, <2>4, <2>5, <2>7 DEF RequestInv, Active, At
  <2>10. \A s \in Request \ {r} : Apart(s) /\ (req[s].pc = "own" => req[s].ws # q.ws)
    BY <1>1, <2>3, <2>5 DEF Apart, IInv, RequestInv
  <2>11. IInv'
    BY <2>3, <2>4, <2>6, <2>8, <2>9, <2>10, StepInv
  <2>12. Team!Found(w)
    <3> DEFINE before == [v \in Workspace |-> IF workspaces[v] = None THEN None
                                              ELSE workspaces[v].createdBy]
               after == [v \in Workspace |-> IF workspaces'[v] = None THEN None
                                             ELSE workspaces'[v].createdBy]
    <3>1. after = [before EXCEPT ![w] = req[r].user]
      BY <2>2, <2>5
    <3>2. before[w] = None
      BY <2>1, <2>5
    <3>3. [v \in Workspace |-> [u \in User |-> RoleOf(v, u)]]'
            = [v \in Workspace |-> [u \in User |-> RoleOf(v, u)]]
      BY <1>1 DEF RoleOf, Membership
    <3> QED
      BY <1>1, <3>1, <3>2, <3>3 DEF Team!Found
  <2> QED
    BY <2>1, <2>11, <2>12 DEF Team!Next
<1> QED
  BY <1>2, <1>3

\* Changes of the invitations that keep what is known of each.
LEMMA InvitesInv ==
  ASSUME TablesInv, Grown, UNCHANGED <<workspaces, members>>,
         invites' \in [Invite -> InviteRow \cup {None}],
         \A i \in Invite : invites'[i] # None /\ invites[i] = None =>
           Manages(invites'[i].ws, invites'[i].by)
  PROVE  TablesInv' /\ \A r \in Request : Apart(r)
<1> USE DEF TablesInv
<1>1. \A m \in members : m.via # None => m.via \in Invite /\ invites[m.via] # None
  BY DEF MemberInv, Member
<1>2. \A m \in members' : MemberInv(m)'
  BY <1>1 DEF MemberInv, Membership, Grown
<1>3. ASSUME NEW i \in Invite PROVE InviteInv(i)'
  <2>1. InviteInv(i)
    OBVIOUS
  <2>2. invites'[i] # None => Manages(invites'[i].ws, invites'[i].by)
    BY <2>1 DEF InviteInv, Grown
  <2> QED
    BY <2>2 DEF InviteInv, Manages, Membership
<1>4. Rooted'
  BY <1>1 DEF Rooted, SelfInvited, Grown
<1> QED
  BY <1>2, <1>3, <1>4 DEF OneRolePerMember, Apart

LEMMA StoreInviteInv == ASSUME IInv, NEW r \in Request, StoreInvite(r) PROVE IInv'
<1> DEFINE row == [ws |-> req[r].ws, role |-> req[r].role, by |-> req[r].user,
                   mailed |-> FALSE, accepted |-> FALSE, expired |-> FALSE]
<1>1. PICK i \in Invite \ Invites :
        /\ invites' = [invites EXCEPT ![i] = row]
        /\ req' = [req EXCEPT ![r].pc = "mail", ![r].invite = i]
  BY DEF StoreInvite
<1>2. /\ req[r] \in ReqState /\ RequestInv(r) /\ req[r].pc = "store" /\ ~ req[r].late
      /\ UNCHANGED <<workspaces, members>>
  BY DEF IInv, StoreInvite, RequestInv, At
<1>3. row \in InviteRow /\ row # None /\ Manages(row.ws, row.by)
  <2>1. /\ req[r].user \in User /\ req[r].ws \in Workspace /\ req[r].role \in Role
        /\ Manages(req[r].ws, req[r].user)
    BY <1>2 DEF RequestInv, Active
  <2>2. row \in InviteRow /\ row.ws = req[r].ws /\ row.by = req[r].user
    BY <2>1 DEF InviteRow
  <2>3. row # None
    BY <2>2, NoneAssumption
  <2> QED
    BY <2>1, <2>2, <2>3
<1> DEFINE q == [req[r] EXCEPT !.pc = "mail", !.invite = i]
<1>4. /\ q \in ReqState /\ q.pc = "mail" /\ q.op = req[r].op /\ q.user = req[r].user
      /\ q.invite = i /\ q.late = req[r].late
  BY <1>2 DEF ReqState, Pc
<1>5. req' = [req EXCEPT ![r] = q] /\ req'[r] = q
  BY <1>1, <1>2 DEF IInv
<1> HIDE DEF q, row
<1>6. /\ invites[i] = None /\ invites'[i] = row
      /\ \A j \in Invite \ {i} : invites'[j] = invites[j]
      /\ invites' \in [Invite -> InviteRow \cup {None}]
  BY <1>1, <1>3 DEF Invites, IInv, TablesInv
<1>7. Grown
  BY <1>2, <1>6 DEF Grown
<1>8. TablesInv' /\ \A s \in Request : Apart(s)
  BY <1>2, <1>3, <1>6, <1>7, InvitesInv DEF IInv
<1>9. RequestInv(r)'
  BY <1>2, <1>3, <1>4, <1>5, <1>6 DEF RequestInv, Active, At, Known
<1> QED
  BY <1>4, <1>5, <1>7, <1>8, <1>9, StepInv

LEMMA MarkedRow ==
  ASSUME NEW old \in InviteRow,
         NEW row \in {[old EXCEPT !.mailed = TRUE], [old EXCEPT !.accepted = TRUE]}
  PROVE  /\ row \in InviteRow
         /\ row.ws = old.ws /\ row.role = old.role /\ row.by = old.by
         /\ old.accepted => row.accepted
<1>1. CASE row = [old EXCEPT !.mailed = TRUE]
  BY <1>1 DEF InviteRow
<1>2. CASE row = [old EXCEPT !.accepted = TRUE]
  BY <1>2 DEF InviteRow
<1> QED
  BY <1>1, <1>2

\* MailInvite and CloseInvite set a mark and move on.
LEMMA MarkInv ==
  ASSUME IInv, NEW r \in Request, MailInvite(r) \/ CloseInvite(r)
  PROVE  IInv'
<1> DEFINE i == req[r].invite
           q == [req[r] EXCEPT !.pc = "reply"]
<1>1. /\ req[r] \in ReqState /\ RequestInv(r) /\ req[r].pc \in {"mail", "close"}
      /\ ~ req[r].late /\ Known(i) /\ UNCHANGED <<workspaces, members>>
      /\ \/ invites' = [invites EXCEPT ![i].mailed = TRUE]
         \/ invites' = [invites EXCEPT ![i].accepted = TRUE]
  BY DEF IInv, MailInvite, CloseInvite, RequestInv, At
<1>2. /\ q \in ReqState /\ q.pc = "reply" /\ q.op = req[r].op /\ q.user = req[r].user
      /\ q.late = req[r].late
  BY <1>1 DEF ReqState, Pc
<1>3. req' = [req EXCEPT ![r] = q] /\ req'[r] = q
  BY <1>1 DEF MailInvite, CloseInvite, Goto, IInv
<1> HIDE DEF q
<1>4. invites \in [Invite -> InviteRow \cup {None}] /\ invites[i] \in InviteRow
  BY <1>1 DEF IInv, TablesInv, Known
<1>5. /\ Grown
      /\ invites' \in [Invite -> InviteRow \cup {None}]
      /\ \A j \in Invite : invites[j] = None => invites'[j] = None
  <2>1. \A j \in Invite \ {i} : invites'[j] = invites[j]
    BY <1>1, <1>4
  <2>2. /\ invites'[i] \in InviteRow
        /\ invites'[i].ws = invites[i].ws /\ invites'[i].role = invites[i].role
        /\ invites'[i].by = invites[i].by
        /\ invites[i].accepted => invites'[i].accepted
    <3>1. \/ invites'[i] = [invites[i] EXCEPT !.mailed = TRUE]
          \/ invites'[i] = [invites[i] EXCEPT !.accepted = TRUE]
      BY <1>1, <1>4 DEF Known
    <3> QED
      BY <1>4, <3>1, MarkedRow
  <2>3. invites' \in [Invite -> InviteRow \cup {None}]
    BY <1>1, <1>4, <2>1, <2>2
  <2>4. invites[i] # None /\ invites'[i] # None
    BY <1>1, <2>2, NoneAssumption DEF Known
  <2> QED
    BY <1>1, <2>1, <2>2, <2>3, <2>4 DEF Grown
<1>6. TablesInv' /\ \A s \in Request : Apart(s)
  BY <1>1, <1>5, InvitesInv DEF IInv
<1>7. RequestInv(r)'
  BY <1>1, <1>2, <1>3 DEF RequestInv, Active, At
<1> QED
  BY <1>2, <1>3, <1>5, <1>6, <1>7, StepInv

LEMMA ExpireInv == ASSUME IInv, NEW i \in Invite, Expire(i) PROVE IInv'
<1>1. /\ invites' = [invites EXCEPT ![i].expired = TRUE] /\ invites[i] # None
      /\ UNCHANGED <<workspaces, members, req>>
  BY DEF Expire, Invites
<1>2. invites \in [Invite -> InviteRow \cup {None}] /\ invites[i] \in InviteRow
  BY <1>1 DEF IInv, TablesInv
<1>3. /\ Grown
      /\ invites' \in [Invite -> InviteRow \cup {None}]
      /\ \A j \in Invite : invites[j] = None => invites'[j] = None
  BY <1>1, <1>2, NoneAssumption DEF Grown, InviteRow
<1>4. TablesInv' /\ \A s \in Request : Apart(s)
  BY <1>1, <1>3, InvitesInv DEF IInv
<1>5. \A r \in Request : RequestInv(r)'
  BY <1>1, <1>3, <1>4, RequestIsStable
<1> QED
  BY <1>1, <1>4, <1>5 DEF IInv, OwnersApart

-----------------------------------------------------------------------------
LEMMA InitInv == Init => IInv /\ Team!Init
<1> SUFFICES ASSUME Init PROVE IInv /\ Team!Init
  OBVIOUS
<1>1. TablesInv
  BY DEF Init, TablesInv, InviteInv, OneRolePerMember, Rooted, SelfInvited
<1>2. req \in [Request -> ReqState] /\ \A r \in Request : req[r].pc = "idle" /\ ~ req[r].late
  BY DEF Init, Blank, ReqState, Op, Pc, Result
<1>3. IInv
  BY <1>1, <1>2 DEF IInv, RequestInv, OwnersApart, Active, At
<1>4. Team!Init
  BY RoleOfNobody DEF Init, Team!Init, Membership
<1> QED
  BY <1>3, <1>4

LEMMA NextStep ==
  ASSUME IInv, [Next]_vars
  PROVE  IInv' /\ [Team!Next]_(Team!vars)
<1>1. CASE UNCHANGED <<workspaces, members>>
  <2>1. Team!vars' = Team!vars
    BY <1>1 DEF Team!vars, RoleOf, Membership
  <2>2. CASE UNCHANGED vars
    BY <2>1, <2>2, SameTables, RequestIsStable DEF vars, IInv, OwnersApart
  <2>3. ASSUME NEW r \in Request, Begin(r) \/ Step(r) \/ Abort(r) PROVE IInv'
    BY <2>3, BeginInv, DrawSlugInv, InsertWorkspaceStep, InsertOwnerStep, CheckInviterInv,
       StoreInviteInv, MarkInv, FindInviteInv, JoinAsInvitedStep, ReplyInv, AbortInv
       DEF Step
  <2> QED
    BY <2>1, <2>2, <2>3, ExpireInv, CrashInv DEF Next
<1>2. CASE ~ UNCHANGED <<workspaces, members>>
  <2>1. \E r \in Request : InsertWorkspace(r) \/ InsertOwner(r) \/ JoinAsInvited(r)
    BY <1>2
       DEF Next, vars, Begin, BeginCreate, BeginInvite, BeginAccept, Step, DrawSlug,
           CheckInviter, StoreInvite, MailInvite, FindInvite, CloseInvite, Reply, Abort,
           Expire, Crash
  <2> QED
    BY <2>1, InsertWorkspaceStep, InsertOwnerStep, JoinAsInvitedStep
<1> QED
  BY <1>1, <1>2

\* The invariant every theorem below follows from.
LEMMA Invariance == Spec => []IInv
<1>1. Init => IInv
  BY InitInv
<1>2. IInv /\ [Next]_vars => IInv'
  BY NextStep
<1> QED
  BY <1>1, <1>2, PTL DEF Spec

\* Every reachable state has its type.
THEOREM TypeCorrect == Spec => []TypeOK
<1>1. IInv => TypeOK
  BY DEF IInv, TablesInv, TypeOK
<1> QED
  BY <1>1, Invariance, PTL

\* Nobody has two roles in a workspace, however acceptances interleave.
THEOREM OneRole == Spec => []OneRolePerMember
<1>1. IInv => OneRolePerMember
  BY DEF IInv, TablesInv
<1> QED
  BY <1>1, Invariance, PTL

\* Chains of invitations start at the creator (create_workspace.go,
\* invite_member.go, accept_invite.go).
THEOREM RootedTeams == Spec => []MembershipIsRooted
<1>1. IInv => MembershipIsRooted
  BY DEF IInv, TablesInv, MembershipIsRooted, Rooted, MemberInv
<1> QED
  BY <1>1, Invariance, PTL

\* What becomes of a workspace whose creation stopped half-way
\* (create_workspace.go): until its owner is stored it has no team at all.  A
\* team without him would have invited itself.
THEOREM OwnedTeams == Spec => []TeamHasItsOwner
<1>1. IInv => TeamHasItsOwner
  <2> SUFFICES ASSUME IInv, NEW m \in members
               PROVE  \E n \in members :
                        n.ws = m.ws /\ n.role = "owner" /\ n.user = workspaces[m.ws].createdBy
    BY DEF TeamHasItsOwner
  <2> DEFINE group == {n \in members : n.ws = m.ws}
  <2>1. ~ SelfInvited(group) /\ m \in group
    BY DEF IInv, TablesInv, Rooted
  <2>2. \A n \in group : n \in members /\ n.ws = m.ws /\ MemberInv(n)
    BY DEF IInv, TablesInv
  <2>3. PICK n \in group : n.via = None
    <3> SUFFICES ASSUME \A n \in group : n.via # None PROVE FALSE
      OBVIOUS
    <3>1. ASSUME NEW n \in group
          PROVE  \E p \in group : p.ws = n.ws /\ p.user = invites[n.via].by
      BY <2>2 DEF MemberInv, Membership
    <3> QED
      BY <2>1, <3>1 DEF SelfInvited
  <2> QED
    BY <2>2, <2>3 DEF MemberInv
<1> QED
  BY <1>1, Invariance, PTL

\* Invitations come from managers, and admit to what they name.
THEOREM Delegation == Spec => []AuthorityIsDelegated
<1>1. IInv => AuthorityIsDelegated
  <2> SUFFICES ASSUME IInv PROVE AuthorityIsDelegated
    OBVIOUS
  <2>1. ASSUME NEW i \in Invites
        PROVE  \E m \in members :
                 m.ws = invites[i].ws /\ m.user = invites[i].by /\ m.role # "member"
    BY <2>1 DEF IInv, TablesInv, InviteInv, Invites, Manages, Membership
  <2>2. \A m \in members : m.via # None =>
          m.ws = invites[m.via].ws /\ m.role = invites[m.via].role
    BY DEF IInv, TablesInv, MemberInv
  <2> QED
    BY <2>1, <2>2 DEF AuthorityIsDelegated
<1> QED
  BY <1>1, Invariance, PTL

\* An accepted invitation admits nobody who comes later.
THEOREM ClosedInvites == Spec => []AcceptedInviteStaysClosed
<1>1. IInv => AcceptedInviteStaysClosed
  BY DEF IInv, RequestInv, AcceptedInviteStaysClosed, At
<1> QED
  BY <1>1, Invariance, PTL

\* Workspaces get their members as Membership says.
THEOREM Refinement == Spec => MembersAreLetIn
<1>1. Init => Team!Init
  BY InitInv
<1>2. IInv /\ [Next]_vars => [Team!Next]_(Team!vars)
  BY NextStep
<1> QED
  BY <1>1, <1>2, Invariance, PTL DEF Spec, MembersAreLetIn, Team!Spec

=============================================================================
