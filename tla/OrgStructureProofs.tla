------------------------- MODULE OrgStructureProofs -------------------------
(***************************************************************************)
(* Proofs about OrgStructure, for any workspaces, users, units, positions   *)
(* and requests.                                                            *)
(*                                                                          *)
(* The argument is stability: nobody leaves, nobody changes role, and no    *)
(* unit or position goes away or moves.  What one statement of a request has *)
(* found is therefore still so when its last statement writes; IInv says at  *)
(* each pc what has been found by then.                                     *)
(***************************************************************************)
EXTENDS OrgStructure, TLAPS

Lists == {"members", "units", "positions", "products"}

\* What request r has found out by now.
Found(r) ==
  LET q == req[r] IN
  /\ q.pc \in {"target", "unit", "position", "product", "write"} => Manages(q.ws, q.user)
  /\ q.op = "assign" /\ q.pc \in {"unit", "position", "write"} =>
       role[q.ws][q.target] # None
  /\ q.pc \in {"position", "write"} /\ q.unit # None => UnitExists(q.ws, q.unit)
  /\ q.pc = "write" /\ q.position # None => PositionExists(q.ws, q.position)
  /\ q.pc = "write" /\ q.op = "enable" => q.product \in Registry

\* What the lists a page has still to show contain.
Owes(r) ==
  LET q == req[r] IN
  /\ q.pc \in {"members", "units"} => q.owed \subseteq Had(q.ws)
  /\ q.pc = "positions" => q.owed \subseteq PositionsOf(q.ws)
  /\ q.pc = "products" => q.owed = {}

\* Which fields are given where.
Shape(r) ==
  LET q == req[r] IN
  /\ q.pc # "idle" => q.ws \in Workspace /\ q.user \in User
  /\ q.pc # "idle" => (q.op = "page" <=> q.pc \in Lists)
  /\ q.op = "assign" /\ q.pc # "idle" => q.target \in User
  /\ q.op \in {"enable", "disable"} /\ q.pc # "idle" =>
       /\ q.product \in Product /\ q.unit = None /\ q.position = None
       /\ q.pc \notin {"unit", "position", "target"}
  /\ q.pc = "target" => q.op = "assign"
  /\ q.pc = "unit" => q.unit # None
  /\ q.pc = "position" => q.position # None
  /\ q.pc = "product" => q.op = "enable"

RequestInv(r) == Shape(r) /\ Found(r) /\ Owes(r)

TablesOK ==
  /\ role \in [Workspace -> [User -> Role \cup {None}]]
  /\ units \in [Unit -> UnitRow \cup {None}]
  /\ positions \in [Position -> Workspace \cup {None}]
  /\ placed \in [Workspace -> [User -> Placement]]
  /\ enabled \in [Workspace -> SUBSET Registry]
  /\ begun \in 0 .. MaxRequests

IInv ==
  /\ TablesOK
  /\ req \in [Request -> ReqState]
  /\ \A r \in Request : RequestInv(r)
  /\ ReferencesStayInside

\* The tables only grow.
Grown ==
  /\ \A w \in Workspace, u \in User : role[w][u] # None => role'[w][u] = role[w][u]
  /\ \A n \in Unit : units[n] # None => units'[n] = units[n]
  /\ \A p \in Position : positions[p] # None => positions'[p] = positions[p]

-----------------------------------------------------------------------------
\* What was found stays found.
LEMMA FoundIsStable ==
  ASSUME IInv, Grown, NEW r \in Request, req'[r] = req[r]
  PROVE  RequestInv(r)'
<1> USE NoneAssumption DEF RequestInv
<1>0. req[r] \in ReqState /\ RequestInv(r)
  BY DEF IInv
<1>1. Shape(r)'
  BY <1>0 DEF Shape
<1>2. Found(r)'
  <2>1. ASSUME NEW w \in Workspace, NEW u \in User, Manages(w, u) PROVE Manages(w, u)'
    BY <2>1 DEF Manages, Grown
  <2>2. ASSUME NEW w \in Workspace, NEW n \in Unit, UnitExists(w, n)
        PROVE  UnitExists(w, n)'
    BY <2>2 DEF UnitExists, Grown
  <2>3. ASSUME NEW w \in Workspace, NEW p \in Position, PositionExists(w, p)
        PROVE  PositionExists(w, p)'
    BY <2>3 DEF PositionExists, Grown
  <2>4. ASSUME NEW w \in Workspace, NEW u \in User, role[w][u] # None
        PROVE  role'[w][u] # None
    BY <2>4 DEF Grown
  <2>5. req[r].pc # "idle" => req[r].ws \in Workspace /\ req[r].user \in User
    BY <1>0 DEF Shape
  <2>6. req[r].pc \in {"target", "unit", "position", "product", "write"} =>
          Manages(req[r].ws, req[r].user)'
    BY <1>0, <2>1, <2>5 DEF Found
  <2>7. req[r].op = "assign" /\ req[r].pc \in {"unit", "position", "write"} =>
          role'[req[r].ws][req[r].target] # None
    BY <1>0, <2>4, <2>5 DEF Found, Shape
  <2>8. req[r].pc \in {"position", "write"} /\ req[r].unit # None =>
          UnitExists(req[r].ws, req[r].unit)'
    BY <1>0, <2>2, <2>5 DEF Found, ReqState
  <2>9. req[r].pc = "write" /\ req[r].position # None =>
          PositionExists(req[r].ws, req[r].position)'
    BY <1>0, <2>3, <2>5 DEF Found, ReqState
  <2> QED
    BY <1>0, <2>6, <2>7, <2>8, <2>9 DEF Found, Manages, UnitExists, PositionExists
<1>3. Owes(r)'
  <2>1. ASSUME NEW w \in Workspace
        PROVE  Had(w) \subseteq Had(w)' /\ PositionsOf(w) \subseteq PositionsOf(w)'
    BY DEF Had, PositionsOf, Grown
  <2> QED
    BY <1>0, <2>1 DEF Owes, Shape, Had, PositionsOf
<1> QED
  BY <1>1, <1>2, <1>3

\* A step in which at most one request moves and the tables only grow.
LEMMA RequestsInv ==
  ASSUME IInv, Grown, TablesOK', ReferencesStayInside',
         NEW r \in Request, NEW q \in ReqState, req' = [req EXCEPT ![r] = q],
         RequestInv(r)'
  PROVE  IInv'
<1>1. ASSUME NEW s \in Request PROVE RequestInv(s)'
  <2>1. CASE s # r
    BY <2>1, FoundIsStable DEF IInv
  <2> QED
    BY <2>1
<1> QED
  BY <1>1 DEF IInv

LEMMA SameTables ==
  ASSUME IInv, UNCHANGED tables
  PROVE  Grown /\ (begun' \in 0 .. MaxRequests => TablesOK') /\ ReferencesStayInside'
  BY DEF IInv, tables, Grown, TablesOK, ReferencesStayInside

\* A request ends.
LEMMA DoneInv ==
  ASSUME IInv, Grown, TablesOK', ReferencesStayInside', NEW r \in Request, Done(r)
  PROVE  IInv'
<1>1. Blank \in ReqState
  BY DEF Blank, ReqState, Op, Pc
<1>2. req'[r] = Blank /\ req' = [req EXCEPT ![r] = Blank]
  BY DEF Done, IInv
<1>3. RequestInv(r)'
  BY <1>2 DEF RequestInv, Shape, Found, Owes, Blank, Lists
<1> QED
  BY <1>1, <1>2, <1>3, RequestsInv

\* A request begins.
LEMMA StartInv ==
  ASSUME IInv, NEW r \in Request, NEW q \in ReqState, Start(r, q),
         q.ws \in Workspace, q.user \in User,
         IF q.op = "page" THEN q.pc = "members" /\ q.owed = Had(q.ws)
                          ELSE q.pc = "role",
         q.op = "assign" => q.target \in User,
         q.op \in {"enable", "disable"} =>
           q.product \in Product /\ q.unit = None /\ q.position = None
  PROVE  IInv'
<1>1. UNCHANGED tables /\ begun' \in 0 .. MaxRequests
  BY MaxRequestsAssumption DEF Start, IInv, TablesOK
<1>2. Grown /\ TablesOK' /\ ReferencesStayInside'
  BY <1>1, SameTables
<1>3. req'[r] = q /\ req' = [req EXCEPT ![r] = q]
  BY DEF Start, IInv
<1>4. RequestInv(r)'
  <2>1. Shape(r)' /\ Found(r)'
    BY <1>3 DEF Shape, Found, Lists
  <2>2. q.owed \in SUBSET (Unit \cup Position)
    BY DEF ReqState
  <2>3. Owes(r)'
    BY <1>1, <1>3 DEF Owes, Had, tables
  <2> QED
    BY <2>1, <2>3 DEF RequestInv
<1> QED
  BY <1>2, <1>3, <1>4, RequestsInv

LEMMA BeginInv == ASSUME IInv, NEW r \in Request, Begin(r) PROVE IInv'
<1> PICK w \in Workspace, u \in User :
      \/ CreateOrgUnit(r, w, u) \/ CreatePosition(r, w, u)
      \/ AssignMember(r, w, u) \/ SwitchProduct(r, w, u)
      \/ Detail(r, w, u)
  BY DEF Begin
<1> USE DEF Call, Blank, ReqState, Op, Pc
<1>1. CASE CreateOrgUnit(r, w, u)
  <2>1. PICK n \in Unit \cup {None} : Start(r, [Call("unit", w, u) EXCEPT !.unit = n])
    BY <1>1 DEF CreateOrgUnit
  <2> DEFINE q == [Call("unit", w, u) EXCEPT !.unit = n]
  <2>2. q \in ReqState /\ q.ws = w /\ q.user = u /\ q.op = "unit" /\ q.pc = "role"
    OBVIOUS
  <2> QED
    BY <2>1, <2>2, StartInv
<1>2. CASE CreatePosition(r, w, u)
  <2> DEFINE q == Call("position", w, u)
  <2>1. q \in ReqState /\ q.ws = w /\ q.user = u /\ q.op = "position" /\ q.pc = "role"
    OBVIOUS
  <2> QED
    BY <1>2, <2>1, StartInv DEF CreatePosition
<1>3. CASE AssignMember(r, w, u)
  <2>1. PICK t \in User, n \in Unit \cup {None}, p \in Position \cup {None} :
          Start(r, [Call("assign", w, u) EXCEPT !.target = t, !.unit = n, !.position = p])
    BY <1>3 DEF AssignMember
  <2> DEFINE q == [Call("assign", w, u) EXCEPT !.target = t, !.unit = n, !.position = p]
  <2>2. /\ q \in ReqState /\ q.ws = w /\ q.user = u
        /\ q.op = "assign" /\ q.pc = "role" /\ q.target = t
    OBVIOUS
  <2> QED
    BY <2>1, <2>2, StartInv
<1>4. CASE SwitchProduct(r, w, u)
  <2>1. PICK k \in Product, op \in {"enable", "disable"} :
          Start(r, [Call(op, w, u) EXCEPT !.product = k])
    BY <1>4 DEF SwitchProduct
  <2> DEFINE q == [Call(op, w, u) EXCEPT !.product = k]
  <2>2. /\ q \in ReqState /\ q.ws = w /\ q.user = u /\ q.op = op /\ q.pc = "role"
        /\ q.product = k /\ q.unit = None /\ q.position = None
    OBVIOUS
  <2> QED
    BY <2>1, <2>2, StartInv
<1>5. CASE Detail(r, w, u)
  <2> DEFINE q == [Call("page", w, u) EXCEPT !.pc = "members", !.owed = Had(w)]
  <2>1. Had(w) \subseteq Unit \cup Position
    BY DEF Had
  <2>2. /\ q \in ReqState /\ q.ws = w /\ q.user = u
        /\ q.op = "page" /\ q.pc = "members" /\ q.owed = Had(w)
    BY <2>1
  <2> QED
    BY <1>5, <2>2, StartInv DEF Detail
<1> QED
  BY <1>1, <1>2, <1>3, <1>4, <1>5

\* A look-up that finds what it looked for adds that to what was found.
LEMMA ProceedInv ==
  ASSUME IInv, NEW r \in Request, UNCHANGED tables, Proceed(r),
         \/ req[r].pc = "members"
         \/ req[r].pc = "role" /\ Manages(req[r].ws, req[r].user)
         \/ req[r].pc = "target" /\ role[req[r].ws][req[r].target] # None
         \/ req[r].pc = "unit" /\ UnitExists(req[r].ws, req[r].unit)
         \/ req[r].pc = "position" /\ PositionExists(req[r].ws, req[r].position)
         \/ req[r].pc = "product" /\ ProductExists(req[r].product)
  PROVE  IInv'
<1> DEFINE old == req[r]
           q == [old EXCEPT !.pc = After(old)]
<1>1. Grown /\ TablesOK' /\ ReferencesStayInside'
  BY SameTables DEF Proceed, IInv, TablesOK
<1>2. old \in ReqState /\ Shape(r) /\ Found(r) /\ Owes(r)
  BY DEF IInv, RequestInv
<1>3. /\ req'[r] = q /\ req' = [req EXCEPT ![r] = q] /\ q.pc = After(old)
      /\ q.op = old.op /\ q.ws = old.ws /\ q.user = old.user /\ q.target = old.target /\ q.unit = old.unit
      /\ q.position = old.position /\ q.product = old.product /\ q.owed = old.owed
  BY <1>2 DEF Proceed, IInv, ReqState
<1>4. After(old) \in {"target", "unit", "position", "product", "write", "units"}
  BY <1>2 DEF After, Shape, Lists
<1>5. q \in ReqState
  BY <1>2, <1>4 DEF ReqState, Pc
<1>6. Manages(old.ws, old.user) \/ old.pc = "members"
  BY <1>2 DEF Found, Shape, Lists
<1> HIDE DEF q
<1>7. Shape(r)'
  BY <1>2, <1>3 DEF Shape, After, Lists
<1>8. Found(r)'
  <2>1. q.pc \in {"target", "unit", "position", "product", "write"} => Manages(q.ws, q.user)
    BY <1>2, <1>3, <1>6 DEF After
  <2>2. q.op = "assign" /\ q.pc \in {"unit", "position", "write"} =>
          role[q.ws][q.target] # None
    <3>1. CASE old.pc \in {"members", "role", "product"}
      BY <1>2, <1>3, <3>1 DEF After, Shape, Lists
    <3>2. CASE old.pc = "target"
      BY <1>3, <3>2
    <3>3. CASE old.pc \in {"unit", "position"}
      BY <1>2, <1>3, <3>3 DEF Found
    <3> QED
      BY <3>1, <3>2, <3>3
  <2>3. q.pc \in {"position", "write"} /\ q.unit # None => UnitExists(q.ws, q.unit)
    <3>1. CASE old.pc \in {"members", "role", "product"}
      BY <1>2, <1>3, <3>1 DEF After, Shape, Lists
    <3>2. CASE old.pc = "target"
      BY <1>3, <3>2 DEF After
    <3>3. CASE old.pc = "unit"
      BY <1>3, <3>3
    <3>4. CASE old.pc = "position"
      BY <1>2, <1>3, <3>4 DEF Found
    <3> QED
      BY <3>1, <3>2, <3>3, <3>4
  <2>4. q.pc = "write" /\ q.position # None => PositionExists(q.ws, q.position)
    BY <1>2, <1>3 DEF After, Shape, Found, Lists
  <2>5. q.pc = "write" /\ q.op = "enable" => q.product \in Registry
    BY <1>2, <1>3 DEF After, Shape, Found, Lists, ProductExists
  <2> QED
    BY <1>3, <2>1, <2>2, <2>3, <2>4, <2>5
       DEF Found, Manages, UnitExists, PositionExists, tables
<1>9. Owes(r)'
  BY <1>2, <1>3, <1>4 DEF Owes, Had, After, tables, Shape, Lists
<1> QED
  BY <1>1, <1>3, <1>5, <1>7, <1>8, <1>9, RequestsInv DEF RequestInv

LEMMA LookInv ==
  ASSUME IInv, NEW r \in Request,
         \/ ListMembers(r) \/ CheckManager(r) \/ CheckTarget(r) \/ CheckUnit(r)
         \/ CheckPosition(r) \/ CheckProduct(r)
  PROVE  IInv'
<1>1. UNCHANGED tables /\ (Proceed(r) \/ Done(r))
  BY DEF ListMembers, CheckManager, CheckTarget, CheckUnit, CheckPosition,
         CheckProduct, Look
<1>2. CASE Done(r)
  BY <1>1, <1>2, SameTables, DoneInv DEF Done, IInv, TablesOK
<1>3. CASE ~ Done(r)
  BY <1>1, <1>3, ProceedInv
     DEF ListMembers, CheckManager, CheckTarget, CheckUnit, CheckPosition,
         CheckProduct, Look
<1> QED
  BY <1>2, <1>3

\* A page moves on by a list: what that list had is not owed any more.
LEMMA ListInv ==
  ASSUME IInv, NEW r \in Request,
         ListOrgUnits(r) \/ ListPositions(r) \/ ListProducts(r)
  PROVE  IInv'
<1>1. CASE ListProducts(r)
  BY <1>1, SameTables, DoneInv DEF ListProducts, Done, IInv, TablesOK
<1>2. CASE ListOrgUnits(r) \/ ListPositions(r)
  <2> DEFINE old == req[r]
  <2>1. PICK ids :
          /\ req' = [req EXCEPT ![r].pc = After(req[r]), ![r].owed = @ \ ids]
          /\ UNCHANGED <<tables, begun>>
          /\ \/ old.pc = "units" /\ ids \in {UnitsOf(old.ws), Unit}
             \/ old.pc = "positions" /\ ids \in {PositionsOf(old.ws), Position}
    BY <1>2 DEF ListOrgUnits, ListPositions, List
  <2> DEFINE q == [old EXCEPT !.pc = After(old), !.owed = @ \ ids]
  <2>2. Grown /\ TablesOK' /\ ReferencesStayInside'
    BY <2>1, SameTables DEF IInv, TablesOK
  <2>3. old \in ReqState /\ Shape(r) /\ Found(r) /\ Owes(r)
    BY DEF IInv, RequestInv
  <2>4. /\ req'[r] = q /\ req' = [req EXCEPT ![r] = q] /\ q.pc = After(old)
        /\ q.op = old.op /\ q.ws = old.ws /\ q.user = old.user
        /\ q.owed = old.owed \ ids
    BY <2>1, <2>3 DEF IInv, ReqState
  <2>5. \/ old.pc = "units" /\ q.pc = "positions"
        \/ old.pc = "positions" /\ q.pc = "products"
    BY <2>1, <2>4 DEF After
  <2>6. q \in ReqState
    BY <2>3, <2>5 DEF ReqState, Pc
  <2>7. old.ws \in Workspace /\ old.user \in User /\ old.op = "page"
    BY <2>1, <2>3 DEF Shape, Lists
  <2> HIDE DEF q
  <2>8. Shape(r)' /\ Found(r)'
    BY <2>4, <2>5, <2>7 DEF Shape, Found, Lists
  <2>9. Owes(r)'
    <3>1. UnitsOf(old.ws) \cup PositionsOf(old.ws) = Had(old.ws)
      BY DEF UnitsOf, PositionsOf, UnitExists, Had
    <3>2. positions' = positions
      BY <2>1 DEF tables
    <3>3. CASE old.pc = "units"
      <4>1. UnitsOf(old.ws) \subseteq Unit
        BY DEF UnitsOf
      <4>2. UnitsOf(old.ws) \subseteq ids
        BY <2>1, <3>3, <4>1
      <4>3. q.owed \subseteq PositionsOf(old.ws)
        BY <2>3, <2>4, <3>1, <3>3, <4>2 DEF Owes
      <4> QED
        BY <2>4, <2>5, <3>2, <3>3, <4>3 DEF Owes, PositionsOf
    <3>4. CASE old.pc = "positions"
      <4>1. PositionsOf(old.ws) \subseteq ids
        BY <2>1, <3>4 DEF PositionsOf
      <4>2. q.owed = {}
        BY <2>3, <2>4, <3>4, <4>1 DEF Owes
      <4> QED
        BY <2>4, <2>5, <3>4, <4>2 DEF Owes
    <3> QED
      BY <2>5, <3>3, <3>4
  <2> QED
    BY <2>2, <2>4, <2>6, <2>8, <2>9, RequestsInv DEF RequestInv
<1> QED
  BY <1>1, <1>2

-----------------------------------------------------------------------------
\* Where a request stands for an order.
LEMMA OrderShape ==
  ASSUME IInv, NEW r \in Request, req[r].pc # "idle", req[r].op # "page"
  PROVE  /\ OrderOf(r) \in Order /\ OrderOf(r) # None
         /\ OrderOf(r).op = req[r].op /\ OrderOf(r).ws = req[r].ws
         /\ OrderOf(r).user = req[r].user /\ OrderOf(r).target = req[r].target
         /\ OrderOf(r).unit = req[r].unit /\ OrderOf(r).position = req[r].position
         /\ OrderOf(r).product = req[r].product
<1>1. req[r] \in ReqState /\ req[r].ws \in Workspace /\ req[r].user \in User
  BY DEF IInv, RequestInv, Shape
<1>2. OrderOf(r) \in Order
  BY <1>1 DEF OrderOf, Order, ReqState, Op
<1> QED
  BY <1>2, OrderAssumption DEF OrderOf

\* A request that ends takes its order along.
LEMMA OrderEnds ==
  ASSUME IInv, NEW r \in Request, Done(r)
  PROVE  /\ [s \in Request |-> OrderOf(s)]' = [[s \in Request |-> OrderOf(s)] EXCEPT ![r] = None]
         /\ UNCHANGED tables => Book!Drop(r)
<1>1. req'[r] = Blank /\ \A s \in Request \ {r} : req'[s] = req[s]
  BY DEF Done, IInv
<1>2. OrderOf(r)' = None /\ \A s \in Request \ {r} : OrderOf(s)' = OrderOf(s)
  BY <1>1 DEF OrderOf, Blank
<1>3. [s \in Request |-> OrderOf(s)]' = [[s \in Request |-> OrderOf(s)] EXCEPT ![r] = None]
  BY <1>2
<1> QED
  BY <1>3 DEF tables, Book!Drop, Book!tables

\* A request that begins is asked for, unless it is a page; one that goes on
\* is still the same order.
LEMMA OrderBegins ==
  ASSUME IInv, IInv', NEW r \in Request, Begin(r)
  PROVE  Book!Next
<1>1. /\ UNCHANGED tables /\ req[r].pc = "idle"
      /\ \A s \in Request \ {r} : req'[s] = req[s]
  BY DEF Begin, CreateOrgUnit, CreatePosition, AssignMember, SwitchProduct, Detail, Start,
         Active, IInv
<1>2. OrderOf(r) = None /\ \A s \in Request \ {r} : OrderOf(s)' = OrderOf(s)
  BY <1>1 DEF OrderOf
<1>3. OrderOf(r)' \in Order \cup {None}
  <2>1. req'[r] \in ReqState /\ Shape(r)'
    BY DEF IInv, RequestInv
  <2> QED
    BY <2>1 DEF OrderOf, Order, ReqState, Op, Shape
<1>4. ASSUME NEW s \in Request PROVE OrderOf(s) \in Order \cup {None}
  BY OrderShape DEF OrderOf
<1>5. ASSUME NEW s \in Request PROVE OrderOf(s)' \in Book!Order \cup {None}
  BY <1>2, <1>3, <1>4 DEF Book!Order, Order, Op
<1>6. Book!Ask(r)
  BY <1>1, <1>2, <1>5 DEF Book!Ask, tables, Book!tables
<1> QED
  BY <1>6 DEF Book!Next

LEMMA OrderGoesOn ==
  ASSUME IInv, NEW r \in Request, req[r].pc # "idle", UNCHANGED tables,
         \A s \in Request \ {r} : req'[s] = req[s],
         NEW pc \in Pc \ {"idle"}, NEW owed,
         req'[r] = [req[r] EXCEPT !.pc = pc, !.owed = owed]
  PROVE  UNCHANGED Book!vars
<1>1. req[r] \in ReqState
  BY DEF IInv
<1>2. OrderOf(r)' = OrderOf(r)
  BY <1>1 DEF OrderOf, ReqState
<1>3. \A s \in Request : OrderOf(s)' = OrderOf(s)
  BY <1>2 DEF OrderOf
<1> QED
  BY <1>3 DEF tables, Book!vars, Book!tables

\* The last statements.  Each finds the tables as the statements before left
\* them or grown, and is therefore a step of OrgBook.
LEMMA WriteFound ==
  ASSUME IInv, NEW r \in Request, req[r].pc = "write"
  PROVE  /\ req[r] \in ReqState /\ req[r].ws \in Workspace
         /\ Book!Manages(req[r].ws, req[r].user)
         /\ req[r].unit # None =>
              /\ req[r].unit \in Unit /\ units[req[r].unit] # None
              /\ units[req[r].unit].ws = req[r].ws
         /\ req[r].position # None =>
              req[r].position \in Position /\ positions[req[r].position] = req[r].ws
         /\ req[r].op = "assign" =>
              req[r].target \in User /\ role[req[r].ws][req[r].target] # None
         /\ req[r].op \in {"enable", "disable"} => req[r].product \in Product
         /\ req[r].op = "enable" => req[r].product \in Registry
  BY DEF IInv, RequestInv, Shape, Found, ReqState, Manages, Book!Manages,
         UnitExists, PositionExists

\* A write that carries out the order of its request changes the book.
LEMMA WriteChanges ==
  ASSUME IInv, NEW r \in Request, Done(r), req[r].pc = "write",
         NEW o, o = OrderOf(r), o # None, Book!Manages(o.ws, o.user),
         Book!AddUnit(o) \/ Book!AddPosition(o) \/ Book!Assign(o) \/ Book!Switch(o)
  PROVE  Book!Next
<1>1. [s \in Request |-> OrderOf(s)]' = [[s \in Request |-> OrderOf(s)] EXCEPT ![r] = None]
  BY OrderEnds
<1>2. [s \in Request |-> OrderOf(s)][r] = o
  OBVIOUS
<1>3. Book!Change(r)
  BY <1>1, <1>2, Zenon DEF Book!Change
<1> QED
  BY <1>3 DEF Book!Next

LEMMA InsertUnitStep ==
  ASSUME IInv, NEW r \in Request, InsertUnit(r)
  PROVE  IInv' /\ Book!Next
<1> PICK q : q = req[r]
  OBVIOUS
<1> PICK o : o = OrderOf(r)
  OBVIOUS
<1>0. /\ q.pc = "write" /\ o # None /\ o.op = q.op /\ o.ws = q.ws /\ o.user = q.user
      /\ o.target = q.target /\ o.unit = q.unit /\ o.position = q.position
      /\ o.product = q.product /\ q.op = "unit"
  BY OrderShape DEF InsertUnit, Writes
<1>1. PICK n \in Unit :
        /\ units[n] = None
        /\ units' = [units EXCEPT ![n] = [ws |-> q.ws, parent |-> q.unit]]
  BY DEF InsertUnit
<1>2. UNCHANGED <<role, positions, placed, enabled, begun>> /\ Done(r)
  BY DEF InsertUnit, Done
<1>3. q.ws \in Workspace /\ Book!Manages(q.ws, q.user) /\ q.unit \in Book!UnitsOf(q.ws) \cup {None}
  BY WriteFound DEF InsertUnit, Writes, Book!UnitsOf
<1>4. q.unit # None => q.unit \in Unit /\ units[q.unit] # None /\ units[q.unit].ws = q.ws
  BY <1>3 DEF Book!UnitsOf
<1>5. [ws |-> q.ws, parent |-> q.unit] \in UnitRow /\ units \in [Unit -> UnitRow \cup {None}]
  BY <1>3, <1>4 DEF UnitRow, IInv, TablesOK
<1>7. Grown /\ TablesOK'
  BY <1>1, <1>2, <1>5 DEF Grown, TablesOK, IInv
<1>8. ReferencesStayInside'
  BY <1>1, <1>2, <1>4, <1>5 DEF ReferencesStayInside, IInv, UnitRow
<1>9. IInv'
  BY <1>2, <1>7, <1>8, DoneInv
<1>10. Book!AddUnit(o)
  BY <1>0, <1>1, <1>2, <1>3 DEF Book!AddUnit
<1> QED
  BY <1>0, <1>2, <1>3, <1>9, <1>10, WriteChanges

LEMMA InsertPositionStep ==
  ASSUME IInv, NEW r \in Request, InsertPosition(r)
  PROVE  IInv' /\ Book!Next
<1> PICK q : q = req[r]
  OBVIOUS
<1> PICK o : o = OrderOf(r)
  OBVIOUS
<1>0. /\ q.pc = "write" /\ o # None /\ o.op = q.op /\ o.ws = q.ws /\ o.user = q.user
      /\ o.target = q.target /\ o.unit = q.unit /\ o.position = q.position
      /\ o.product = q.product /\ q.op = "position"
  BY OrderShape DEF InsertPosition, Writes
<1>1. PICK p \in Position :
        positions[p] = None /\ positions' = [positions EXCEPT ![p] = q.ws]
  BY DEF InsertPosition
<1>2. UNCHANGED <<role, units, placed, enabled, begun>> /\ Done(r)
  BY DEF InsertPosition, Done
<1>3. q.ws \in Workspace /\ Book!Manages(q.ws, q.user)
  BY WriteFound DEF InsertPosition, Writes
<1>4. Grown /\ TablesOK'
  BY <1>1, <1>2, <1>3 DEF Grown, TablesOK, IInv
<1>5. ReferencesStayInside'
  BY <1>1, <1>2, NoneAssumption DEF ReferencesStayInside, IInv, TablesOK, Placement
<1>6. IInv'
  BY <1>2, <1>4, <1>5, DoneInv
<1>7. Book!AddPosition(o)
  BY <1>0, <1>1, <1>2 DEF Book!AddPosition
<1> QED
  BY <1>0, <1>2, <1>3, <1>6, <1>7, WriteChanges

LEMMA UpdateMemberStep ==
  ASSUME IInv, NEW r \in Request, UpdateMember(r)
  PROVE  IInv' /\ Book!Next
<1> PICK q : q = req[r]
  OBVIOUS
<1> PICK o : o = OrderOf(r)
  OBVIOUS
<1>0. /\ q.pc = "write" /\ o # None /\ o.op = q.op /\ o.ws = q.ws /\ o.user = q.user
      /\ o.target = q.target /\ o.unit = q.unit /\ o.position = q.position
      /\ o.product = q.product /\ q.op = "assign"
  BY OrderShape DEF UpdateMember, Writes
<1> DEFINE at == [unit |-> q.unit, position |-> q.position]
<1>1. /\ q.ws \in Workspace /\ Book!Manages(q.ws, q.user)
      /\ q.target \in User /\ role[q.ws][q.target] # None
      /\ q.unit \in Book!UnitsOf(q.ws) \cup {None}
      /\ q.position \in Book!PositionsOf(q.ws) \cup {None}
  BY WriteFound DEF UpdateMember, Writes, Book!UnitsOf, Book!PositionsOf
<1>2. placed' = [placed EXCEPT ![q.ws][q.target] = at]
  BY <1>1 DEF UpdateMember
<1>3. UNCHANGED <<role, units, positions, enabled, begun>> /\ Done(r)
  BY DEF UpdateMember, Done
<1>4. at \in Placement
  BY <1>1 DEF Placement, Book!UnitsOf, Book!PositionsOf
<1>5. Grown /\ TablesOK'
  BY <1>2, <1>3, <1>4 DEF Grown, TablesOK, IInv
<1>6. ReferencesStayInside'
  <2>1. ASSUME NEW w \in Workspace, NEW u \in User
        PROVE  placed'[w][u] = IF w = q.ws /\ u = q.target THEN at ELSE placed[w][u]
    BY <1>2 DEF IInv, TablesOK
  <2> QED
    BY <1>1, <1>3, <2>1 DEF ReferencesStayInside, IInv, Book!UnitsOf, Book!PositionsOf
<1>7. IInv'
  BY <1>3, <1>5, <1>6, DoneInv
<1>8. Book!Assign(o)
  BY <1>0, <1>1, <1>2, <1>3 DEF Book!Assign
<1> QED
  BY <1>0, <1>1, <1>3, <1>7, <1>8, WriteChanges

LEMMA UpdateProductsStep ==
  ASSUME IInv, NEW r \in Request, UpdateProducts(r)
  PROVE  IInv' /\ Book!Next
<1> PICK q : q = req[r]
  OBVIOUS
<1> PICK o : o = OrderOf(r)
  OBVIOUS
<1>0. /\ q.pc = "write" /\ o # None /\ o.op = q.op /\ o.ws = q.ws /\ o.user = q.user
      /\ o.target = q.target /\ o.unit = q.unit /\ o.position = q.position
      /\ o.product = q.product /\ q.op \in {"enable", "disable"}
  BY OrderShape DEF UpdateProducts, Writes
<1>1. UNCHANGED <<role, units, positions, placed, begun>> /\ Done(r)
  BY DEF UpdateProducts, Done
<1>2. q.ws \in Workspace /\ Book!Manages(q.ws, q.user) /\ q.product \in Product
  BY WriteFound DEF UpdateProducts, Writes
<1>3. \/ /\ q.op = "enable" /\ q.product \in Registry
         /\ enabled' = [enabled EXCEPT ![q.ws] = @ \cup {q.product}]
      \/ q.op = "disable" /\ enabled' = [enabled EXCEPT ![q.ws] = @ \ {q.product}]
  BY DEF UpdateProducts, ProductKey, Writes
<1>4. Grown /\ ReferencesStayInside'
  BY <1>1 DEF Grown, ReferencesStayInside, IInv
<1>5. enabled' \in [Workspace -> SUBSET Registry]
  <2>1. enabled \in [Workspace -> SUBSET Registry]
    BY DEF IInv, TablesOK
  <2>2. CASE q.op = "enable"
    BY <1>2, <1>3, <2>1, <2>2
  <2>3. CASE q.op = "disable"
    BY <1>2, <1>3, <2>1, <2>3
  <2> QED
    BY <1>3, <2>2, <2>3
<1>6. IInv'
  BY <1>1, <1>4, <1>5, DoneInv DEF IInv, TablesOK
<1>7. Book!Switch(o)
  BY <1>0, <1>1, <1>2, <1>3 DEF Book!Switch
<1> QED
  BY <1>0, <1>1, <1>2, <1>6, <1>7, WriteChanges

LEMMA JoinStep ==
  ASSUME IInv, NEW w \in Workspace, NEW u \in User, NEW q \in JoinRole, Join(w, u, q)
  PROVE  IInv' /\ Book!Next
<1>1. q \in Role /\ UNCHANGED <<units, positions, placed, enabled, req, begun>>
  BY JoinRoleAssumption DEF Join, Role
<1>2. role[w][u] = None /\ role' = [role EXCEPT ![w][u] = q]
  BY DEF Join
<1>3. Grown /\ TablesOK' /\ ReferencesStayInside'
  BY <1>1, <1>2 DEF Grown, TablesOK, ReferencesStayInside, IInv
<1>4. IInv'
  BY <1>1, <1>3, FoundIsStable DEF IInv
<1>5. \A r \in Request : OrderOf(r)' = OrderOf(r)
  BY <1>1 DEF OrderOf
<1>6. Book!Join
  BY <1>1, <1>2, <1>5 DEF Book!Join, Book!Role, Role
<1> QED
  BY <1>4, <1>6 DEF Book!Next

-----------------------------------------------------------------------------
LEMMA InitInv == Init => IInv /\ Book!Init
<1> SUFFICES ASSUME Init PROVE IInv /\ Book!Init
  OBVIOUS
<1>1. TablesOK
  BY MaxRequestsAssumption DEF Init, TablesOK, Placement, Nowhere
<1>2. req \in [Request -> ReqState]
  BY DEF Init, Blank, ReqState, Op, Pc
<1>3. ASSUME NEW r \in Request PROVE RequestInv(r)
  BY DEF Init, Blank, RequestInv, Shape, Found, Owes, Lists
<1>4. ReferencesStayInside
  BY DEF Init, ReferencesStayInside, Nowhere
<1>5. Book!Init
  BY DEF Init, Book!Init, Nowhere, Book!Nowhere, OrderOf, Blank
<1> QED
  BY <1>1, <1>2, <1>3, <1>4, <1>5 DEF IInv

LEMMA NextStep ==
  ASSUME IInv, [Next]_vars
  PROVE  IInv' /\ [Book!Next]_(Book!vars)
<1>1. CASE UNCHANGED vars
  <2>1. IInv'
    BY <1>1 DEF IInv, vars, TablesOK, RequestInv, Shape, Found, Owes, Manages,
                UnitExists, PositionExists, Had, PositionsOf, ReferencesStayInside
  <2> QED
    BY <1>1, <2>1 DEF vars, Book!vars, Book!tables, OrderOf
<1>2. ASSUME NEW r \in Request, UNCHANGED tables, Done(r) PROVE IInv' /\ Book!Next
  <2>1. IInv'
    BY <1>2, SameTables, DoneInv DEF Done, IInv, TablesOK
  <2> QED
    BY <1>2, <2>1, OrderEnds DEF Book!Next
<1>3. ASSUME NEW r \in Request, Begin(r) PROVE IInv' /\ Book!Next
  BY <1>3, BeginInv, OrderBegins
<1>4. ASSUME NEW r \in Request,
             \/ ListMembers(r) \/ CheckManager(r) \/ CheckTarget(r) \/ CheckUnit(r)
             \/ CheckPosition(r) \/ CheckProduct(r)
      PROVE  IInv' /\ [Book!Next]_(Book!vars)
  <2>1. UNCHANGED tables /\ (Proceed(r) \/ Done(r)) /\ req[r].pc # "idle"
    BY <1>4 DEF ListMembers, CheckManager, CheckTarget, CheckUnit, CheckPosition,
                CheckProduct, Look
  <2>2. IInv'
    BY <1>4, LookInv
  <2>3. CASE Done(r)
    BY <1>2, <2>1, <2>3
  <2>4. CASE Proceed(r)
    <3>1. After(req[r]) \in Pc \ {"idle"}
      BY DEF After, Pc
    <3>2. /\ req'[r] = [req[r] EXCEPT !.pc = After(req[r]), !.owed = req[r].owed]
          /\ \A s \in Request \ {r} : req'[s] = req[s]
      BY <2>4 DEF Proceed, IInv, ReqState
    <3> QED
      BY <2>1, <2>2, <3>1, <3>2, OrderGoesOn
  <2> QED
    BY <2>1, <2>3, <2>4
<1>5. ASSUME NEW r \in Request, ListOrgUnits(r) \/ ListPositions(r)
      PROVE  IInv' /\ [Book!Next]_(Book!vars)
  <2>1. IInv' /\ UNCHANGED tables /\ req[r].pc # "idle"
    BY <1>5, ListInv DEF ListOrgUnits, ListPositions, List
  <2>2. PICK ids : req' = [req EXCEPT ![r].pc = After(req[r]), ![r].owed = @ \ ids]
    BY <1>5 DEF ListOrgUnits, ListPositions, List
  <2>3. PICK pc, owed : pc = After(req[r]) /\ owed = req[r].owed \ ids
    OBVIOUS
  <2>4. pc \in Pc \ {"idle"}
    BY <2>3 DEF After, Pc
  <2>5. /\ req'[r] = [req[r] EXCEPT !.pc = pc, !.owed = owed]
        /\ \A s \in Request \ {r} : req'[s] = req[s]
    BY <2>2, <2>3 DEF IInv, ReqState
  <2>6. UNCHANGED Book!vars
    BY <2>1, <2>4, <2>5, OrderGoesOn
  <2> QED
    BY <2>1, <2>6
<1>6. ASSUME NEW r \in Request, ListProducts(r) \/ Stop(r) PROVE IInv' /\ Book!Next
  BY <1>2, <1>6 DEF ListProducts, Stop
<1>7. ASSUME NEW r \in Request,
             InsertUnit(r) \/ InsertPosition(r) \/ UpdateMember(r) \/ UpdateProducts(r)
      PROVE  IInv' /\ Book!Next
  BY <1>7, InsertUnitStep, InsertPositionStep, UpdateMemberStep, UpdateProductsStep
<1>8. ASSUME NEW w \in Workspace, NEW u \in User, NEW q \in JoinRole, Join(w, u, q)
      PROVE  IInv' /\ Book!Next
  BY <1>8, JoinStep
<1> QED
  BY <1>1, <1>3, <1>4, <1>5, <1>6, <1>7, <1>8 DEF Next, Step

LEMMA Invariance == Spec => []IInv
<1>1. Init => IInv
  BY InitInv
<1>2. IInv /\ [Next]_vars => IInv'
  BY NextStep
<1> QED
  BY <1>1, <1>2, PTL DEF Spec

\* Every reachable state has its type.
THEOREM TypeCorrect == Spec => []TypeOK
<1>1. IInv => TypeOK
  BY DEF IInv, TablesOK, TypeOK
<1> QED
  BY <1>1, Invariance, PTL

\* No parent, unit or position is of another workspace (org_structure.go),
\* although the tables are checked and written in separate statements.
THEOREM Inside == Spec => []ReferencesStayInside
<1>1. IInv => ReferencesStayInside
  BY DEF IInv
<1> QED
  BY <1>1, Invariance, PTL

\* A page (hub_workspace_detail.go) shows what was there when it was asked for.
THEOREM Shown == Spec => []PageShowsWhatWasThere
<1>1. IInv => PageShowsWhatWasThere
  <2> SUFFICES ASSUME IInv, NEW r \in Request
               PROVE  /\ req[r].pc \in {"positions", "products"} =>
                           req[r].owed \cap Unit = {}
                      /\ req[r].pc = "products" => req[r].owed = {}
    BY DEF PageShowsWhatWasThere
  <2>1. Owes(r)
    BY DEF IInv, RequestInv
  <2>2. PositionsOf(req[r].ws) \cap Unit = {}
    BY IdsAssumption DEF PositionsOf
  <2> QED
    BY <2>1, <2>2 DEF Owes
<1> QED
  BY <1>1, Invariance, PTL

\* The operations of org_structure.go and products.go, statement by statement,
\* implement the one-step operations of OrgBook: each change carries out, once,
\* what a user asked for who manages the workspace when it is written.
THEOREM Refinement == Spec => ChecksHoldAtTheWrite
<1>1. Init => Book!Init
  BY InitInv
<1>2. IInv /\ [Next]_vars => [Book!Next]_(Book!vars)
  BY NextStep
<1> QED
  BY <1>1, <1>2, Invariance, PTL DEF Spec, ChecksHoldAtTheWrite, Book!Spec

=============================================================================
