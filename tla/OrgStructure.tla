---------------------------- MODULE OrgStructure ----------------------------
(***************************************************************************)
(* Org units, positions, assignments of members to them, and the products a *)
(* workspace has switched on (org_structure.go, products.go).               *)
(*                                                                          *)
(* Each operation asks the database for the requester's role and for each   *)
(* thing it refers to, one statement after the other, and writes in a last  *)
(* one; there is no transaction.  The foreign keys say that what is referred *)
(* to exists; that it belongs to the same workspace is what the statements   *)
(* before check.  Membership itself is the business of module Workspaces:   *)
(* here members only join.                                                  *)
(*                                                                          *)
(* A change whose answer tells nothing (the hub's forms drop every error) is *)
(* seen on the page of the workspace, which reads list after list and takes  *)
(* a list it cannot read for an empty one.                                   *)
(***************************************************************************)
EXTENDS Naturals

CONSTANTS
  Request,      \* request slots
  Workspace,    \* workspaces
  User,         \* users
  Unit,         \* org unit ids
  Position,     \* position ids
  Product,      \* product keys a request may name
  Registry,     \* the keys in the products table
  JoinRole,     \* bound: the roles new members come with
  MaxRequests,  \* bound: requests that are ever begun
  None          \* the absent value: no parent, no unit, no position, no member

ASSUME RegistryAssumption == Registry \subseteq Product

ASSUME JoinRoleAssumption == JoinRole \subseteq {"owner", "admin", "member"}

ASSUME MaxRequestsAssumption == MaxRequests \in Nat

ASSUME NoneAssumption ==
  None \notin Workspace \cup User \cup Unit \cup Position \cup Product
             \cup {"owner", "admin", "member"}

ASSUME IdsAssumption == Unit \cap Position = {}

VARIABLES
  role,         \* workspace_members.role: [Workspace -> [User -> Role or None]]
  units,        \* org_units: [Unit -> UnitRow or None]
  positions,    \* positions.workspace_id: [Position -> Workspace or None]
  placed,       \* workspace_members.org_unit_id and .position_id
  enabled,      \* workspace_products: [Workspace -> SUBSET Product]
  req,          \* the request in each slot
  begun         \* requests begun so far

vars == <<role, units, positions, placed, enabled, req, begun>>
tables == <<role, units, positions, placed, enabled>>

Role == {"owner", "admin", "member"}

\* org_units; names and the sort order carry no rule
UnitRow == [ws : Workspace, parent : Unit \cup {None}]

Placement == [unit : Unit \cup {None}, position : Position \cup {None}]

Op == {"unit", "position", "assign", "enable", "disable", "page"}

\* The statement a request executes next
Pc == {"idle", "role", "target", "unit", "position", "product", "write",
       "members", "units", "positions", "products"}

\* "unit" is the parent of a new unit, or the unit of an assignment.  "owed" is
\* a history field: what the workspace had when a page was asked for, as far as
\* the page has not listed it or failed to.
ReqState ==
  [op : Op, pc : Pc, ws : Workspace \cup {None}, user : User \cup {None},
   target : User \cup {None}, unit : Unit \cup {None},
   position : Position \cup {None}, product : Product \cup {None},
   owed : SUBSET (Unit \cup Position)]

Blank == [op |-> "unit", pc |-> "idle", ws |-> None, user |-> None,
          target |-> None, unit |-> None, position |-> None, product |-> None,
          owed |-> {}]

Nowhere == [unit |-> None, position |-> None]

Init ==
  /\ role = [w \in Workspace |-> [u \in User |-> None]]
  /\ units = [n \in Unit |-> None]
  /\ positions = [p \in Position |-> None]
  /\ placed = [w \in Workspace |-> [u \in User |-> Nowhere]]
  /\ enabled = [w \in Workspace |-> {}]
  /\ req = [r \in Request |-> Blank]
  /\ begun = 0

-----------------------------------------------------------------------------
(* The rules of the use cases and the statements.  A definition named       *)
(* Faulty... is a variant with a plausible bug; nothing uses it but the     *)
(* mutation runs.                                                           *)

\* requireManager
FaultyManages(w, u) == role[w][u] # None
Manages(w, u) == role[w][u] \in {"owner", "admin"}

\* OrgUnitRepository.Exists and PositionRepository.Exists
FaultyUnitExists(w, n) == units[n] # None
UnitExists(w, n) == units[n] # None /\ units[n].ws = w
PositionExists(w, p) == positions[p] = w

\* ProductRepository.Exists
ProductExists(k) == k \in Registry

\* OrgUnitRepository.ListByWorkspace and PositionRepository.ListByWorkspace
FaultyUnitsOf(w) == {n \in Unit : UnitExists(w, n) /\ units[n].parent = None}
UnitsOf(w) == {n \in Unit : UnitExists(w, n)}
PositionsOf(w) == {p \in Position : positions[p] = w}

\* The foreign keys of org_units, workspace_members and workspace_products
UnitKey(n) == n # None => units[n] # None
PositionKey(p) == p # None => positions[p] # None
ProductKey(k) == k \in Registry

\* The statement after the one at q.pc: optional references are looked up only
\* when they are given.
After(q) ==
  CASE q.pc = "members" -> "units"
    [] q.pc = "units" -> "positions"
    [] q.pc = "positions" -> "products"
    [] q.pc = "role" /\ q.op = "assign" -> "target"
    [] q.pc = "role" /\ q.op = "enable" -> "product"
    [] OTHER -> IF q.pc \in {"role", "target"} /\ q.unit # None THEN "unit"
                ELSE IF q.pc # "position" /\ q.position # None THEN "position"
                ELSE "write"

-----------------------------------------------------------------------------
(* Requests.                                                                *)

Active(r) == req[r].pc # "idle"
Writes(r, op) == req[r].pc = "write" /\ req[r].op = op

Done(r) == req' = [req EXCEPT ![r] = Blank] /\ UNCHANGED begun

\* On to the next statement
Proceed(r) == req' = [req EXCEPT ![r].pc = After(req[r])] /\ UNCHANGED begun

Start(r, q) ==
  /\ ~ Active(r)
  /\ begun < MaxRequests
  /\ begun' = begun + 1
  /\ req' = [req EXCEPT ![r] = q]
  /\ UNCHANGED tables

\* The handlers pass workspace and requester, both strings, in this order.
FaultyCall(op, w, u) == [Blank EXCEPT !.op = op, !.pc = "role", !.ws = u, !.user = w]
Call(op, w, u) == [Blank EXCEPT !.op = op, !.pc = "role", !.ws = w, !.user = u]

\* Ids come from the client: they may be unknown or another workspace's.
CreateOrgUnit(r, w, u) ==
  \E n \in Unit \cup {None} : Start(r, [Call("unit", w, u) EXCEPT !.unit = n])

CreatePosition(r, w, u) == Start(r, Call("position", w, u))

AssignMember(r, w, u) ==
  \E t \in User, n \in Unit \cup {None}, p \in Position \cup {None} :
    Start(r, [Call("assign", w, u) EXCEPT !.target = t, !.unit = n, !.position = p])

SwitchProduct(r, w, u) ==
  \E k \in Product, op \in {"enable", "disable"} :
    Start(r, [Call(op, w, u) EXCEPT !.product = k])

\* What a page asked for now owes its reader.
Had(w) == {n \in Unit : units[n] # None /\ units[n].ws = w}
            \cup {p \in Position : positions[p] = w}

\* GET /account/workspaces/{id}
Detail(r, w, u) ==
  Start(r, [Call("page", w, u) EXCEPT !.pc = "members",
                                      !.owed = Had(w)])

Begin(r) ==
  \E w \in Workspace, u \in User :
    \/ CreateOrgUnit(r, w, u) \/ CreatePosition(r, w, u)
    \/ AssignMember(r, w, u) \/ SwitchProduct(r, w, u)
    \/ Detail(r, w, u)

-----------------------------------------------------------------------------
(* The statements, one action each.                                         *)

\* A look-up: the request goes on when it finds what it looked for.
Look(r, found) ==
  /\ IF found THEN Proceed(r) ELSE Done(r)
  /\ UNCHANGED tables

CheckManager(r) ==
  req[r].pc = "role" /\ Look(r, Manages(req[r].ws, req[r].user))

CheckTarget(r) ==
  req[r].pc = "target" /\ Look(r, role[req[r].ws][req[r].target] # None)

CheckUnit(r) ==
  req[r].pc = "unit" /\ Look(r, UnitExists(req[r].ws, req[r].unit))

CheckPosition(r) ==
  req[r].pc = "position" /\ Look(r, PositionExists(req[r].ws, req[r].position))

CheckProduct(r) ==
  req[r].pc = "product" /\ Look(r, ProductExists(req[r].product))

\* OrgUnitRepository.Create, under a fresh random id
InsertUnit(r) ==
  /\ Writes(r, "unit")
  /\ UnitKey(req[r].unit)
  /\ \E n \in Unit :
       /\ units[n] = None
       /\ units' = [units EXCEPT ![n] = [ws |-> req[r].ws, parent |-> req[r].unit]]
  /\ Done(r)
  /\ UNCHANGED <<role, positions, placed, enabled>>

\* PositionRepository.Create
InsertPosition(r) ==
  /\ Writes(r, "position")
  /\ \E p \in Position :
       positions[p] = None /\ positions' = [positions EXCEPT ![p] = req[r].ws]
  /\ Done(r)
  /\ UNCHANGED <<role, units, placed, enabled>>

\* MemberRepository.Assign: UPDATE ... WHERE, of a row or of none; what is not
\* given is cleared.
UpdateMember(r) ==
  LET q == req[r] IN
  /\ Writes(r, "assign")
  /\ UnitKey(q.unit) /\ PositionKey(q.position)
  /\ placed' = IF role[q.ws][q.target] = None THEN placed
               ELSE [placed EXCEPT ![q.ws][q.target] =
                       [unit |-> q.unit, position |-> q.position]]
  /\ Done(r)
  /\ UNCHANGED <<role, units, positions, enabled>>

\* WorkspaceProductRepository.Enable (ON CONFLICT DO NOTHING) and Disable
UpdateProducts(r) ==
  LET q == req[r] IN
  /\ \/ /\ Writes(r, "enable")
        /\ ProductKey(q.product)
        /\ enabled' = [enabled EXCEPT ![q.ws] = @ \cup {q.product}]
     \/ /\ Writes(r, "disable")
        /\ enabled' = [enabled EXCEPT ![q.ws] = @ \ {q.product}]
  /\ Done(r)
  /\ UNCHANGED <<role, units, positions, placed>>

\* The page of a workspace, list after list.  Each listing looks up the reader's
\* membership again; that is final, and only the first look-up is kept.
ListMembers(r) ==
  req[r].pc = "members" /\ Look(r, role[req[r].ws][req[r].user] # None)

\* A list is shown, or it cannot be read and an empty one is: what the page lists
\* or has failed to list is not owed any more.
List(r, all, found) ==
  /\ \E ids \in {found, all} :
       req' = [req EXCEPT ![r].pc = After(req[r]), ![r].owed = @ \ ids]
  /\ UNCHANGED <<tables, begun>>

ListOrgUnits(r) == req[r].pc = "units" /\ List(r, Unit, UnitsOf(req[r].ws))

ListPositions(r) ==
  req[r].pc = "positions" /\ List(r, Position, PositionsOf(req[r].ws))

\* ListEnabledProducts and ListProducts; what they list is not followed.
ListProducts(r) == req[r].pc = "products" /\ Done(r) /\ UNCHANGED tables

Step(r) ==
  \/ ListMembers(r) \/ ListOrgUnits(r) \/ ListPositions(r) \/ ListProducts(r)
  \/ CheckManager(r) \/ CheckTarget(r) \/ CheckUnit(r) \/ CheckPosition(r)
  \/ CheckProduct(r)
  \/ InsertUnit(r) \/ InsertPosition(r) \/ UpdateMember(r) \/ UpdateProducts(r)

\* A blank name or title, a failing statement, a violated foreign key, a client
\* that goes away, the death of the process.
Stop(r) ==
  /\ Active(r)
  /\ Done(r)
  /\ UNCHANGED tables

\* The creator or an invited user becomes a member (module Workspaces).
Join(w, u, q) ==
  /\ role[w][u] = None
  /\ role' = [role EXCEPT ![w][u] = q]
  /\ UNCHANGED <<units, positions, placed, enabled, req, begun>>

Next ==
  \/ \E r \in Request : Begin(r) \/ Step(r) \/ Stop(r)
  \/ \E w \in Workspace, u \in User, q \in JoinRole : Join(w, u, q)

Spec == Init /\ [][Next]_vars

-----------------------------------------------------------------------------
(* Properties.                                                              *)

TypeOK ==
  /\ role \in [Workspace -> [User -> Role \cup {None}]]
  /\ units \in [Unit -> UnitRow \cup {None}]
  /\ positions \in [Position -> Workspace \cup {None}]
  /\ placed \in [Workspace -> [User -> Placement]]
  /\ enabled \in [Workspace -> SUBSET Registry]
  /\ req \in [Request -> ReqState]
  /\ begun \in 0 .. MaxRequests

\* The org structure of a workspace never reaches into another one: a unit's
\* parent, and the unit and position a member is placed in, are of the same
\* workspace, although the foreign keys would allow any.
ReferencesStayInside ==
  /\ \A n \in Unit :
       units[n] # None /\ units[n].parent # None =>
         units[units[n].parent] # None /\ units[units[n].parent].ws = units[n].ws
  /\ \A w \in Workspace, u \in User :
       LET at == placed[w][u] IN
       /\ at.unit # None => units[at.unit] # None /\ units[at.unit].ws = w
       /\ at.position # None => positions[at.position] = w

\* The hub's forms say nothing of their outcome; the page that follows does.  A
\* page shows every unit and position that was stored before it was asked for,
\* except where a list could not be read.
PageShowsWhatWasThere ==
  \A r \in Request : req[r].op = "page" =>
    /\ req[r].pc \in {"positions", "products"} => req[r].owed \cap Unit = {}
    /\ req[r].pc = "products" => req[r].owed = {}

Order == [op : Op \ {"page"}, ws : Workspace, user : User, target : User \cup {None},
          unit : Unit \cup {None}, position : Position \cup {None},
          product : Product \cup {None}]

ASSUME OrderAssumption == None \notin Order

\* The order a request stands for, from its first statement to its last.
OrderOf(r) ==
  LET q == req[r] IN
  IF q.pc = "idle" \/ q.op = "page" THEN None
  ELSE [op |-> q.op, ws |-> q.ws, user |-> q.user, target |-> q.target,
        unit |-> q.unit, position |-> q.position, product |-> q.product]

\* Checks made in earlier statements still hold when the last one writes, so
\* that every change looks like a single step that checks and writes at once:
\* whoever asked for it manages the workspace, only members are placed, all that
\* is referred to is there, and what is written is what was asked for.
Book == INSTANCE OrgBook WITH
          Slot <- Request, orders <- [r \in Request |-> OrderOf(r)]
ChecksHoldAtTheWrite == Book!Spec

=============================================================================
