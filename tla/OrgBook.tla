------------------------------ MODULE OrgBook -------------------------------
(***************************************************************************)
(* What the organisation structure of a workspace promises: every change is *)
(* one step that carries out one order, of a user who manages the workspace *)
(* at that moment; it does what was ordered, once, and refers to nothing but *)
(* what that workspace has at that moment.  An order may also come to        *)
(* nothing.  OrgStructure, which checks and writes in separate statements,   *)
(* implements this.                                                          *)
(***************************************************************************)
CONSTANTS Slot, Workspace, User, Unit, Position, Product, Registry, None

VARIABLES
  role, units, positions, placed, enabled,
  orders        \* the order under way in each slot: [Slot -> Order or None]

tables == <<role, units, positions, placed, enabled>>
vars == <<tables, orders>>

Role == {"owner", "admin", "member"}

Order == [op : {"unit", "position", "assign", "enable", "disable"},
          ws : Workspace, user : User, target : User \cup {None},
          unit : Unit \cup {None}, position : Position \cup {None},
          product : Product \cup {None}]

Nowhere == [unit |-> None, position |-> None]

Init ==
  /\ role = [w \in Workspace |-> [u \in User |-> None]]
  /\ units = [n \in Unit |-> None]
  /\ positions = [p \in Position |-> None]
  /\ placed = [w \in Workspace |-> [u \in User |-> Nowhere]]
  /\ enabled = [w \in Workspace |-> {}]
  /\ orders = [s \in Slot |-> None]

Manages(w, u) == role[w][u] \in {"owner", "admin"}

\* What a member of w, or a unit of w, may be attached to.
UnitsOf(w) == {n \in Unit : units[n] # None /\ units[n].ws = w}
PositionsOf(w) == {p \in Position : positions[p] = w}

\* Membership comes from elsewhere; nobody leaves or changes role.
Join ==
  /\ \E w \in Workspace, u \in User, q \in Role :
       role[w][u] = None /\ role' = [role EXCEPT ![w][u] = q]
  /\ UNCHANGED <<units, positions, placed, enabled, orders>>

Ask(s) ==
  /\ orders[s] = None
  /\ orders' \in [Slot -> Order \cup {None}]
  /\ \A t \in Slot \ {s} : orders'[t] = orders[t]
  /\ UNCHANGED tables

Drop(s) == orders' = [orders EXCEPT ![s] = None] /\ UNCHANGED tables

AddUnit(o) ==
  /\ o.op = "unit" /\ o.unit \in UnitsOf(o.ws) \cup {None}
  /\ \E n \in Unit :
       /\ units[n] = None
       /\ units' = [units EXCEPT ![n] = [ws |-> o.ws, parent |-> o.unit]]
  /\ UNCHANGED <<role, positions, placed, enabled>>

AddPosition(o) ==
  /\ o.op = "position"
  /\ \E p \in Position :
       positions[p] = None /\ positions' = [positions EXCEPT ![p] = o.ws]
  /\ UNCHANGED <<role, units, placed, enabled>>

Assign(o) ==
  /\ o.op = "assign" /\ role[o.ws][o.target] # None
  /\ o.unit \in UnitsOf(o.ws) \cup {None}
  /\ o.position \in PositionsOf(o.ws) \cup {None}
  /\ placed' = [placed EXCEPT ![o.ws][o.target] =
       [unit |-> o.unit, position |-> o.position]]
  /\ UNCHANGED <<role, units, positions, enabled>>

Switch(o) ==
  /\ \/ /\ o.op = "enable" /\ o.product \in Registry
        /\ enabled' = [enabled EXCEPT ![o.ws] = @ \cup {o.product}]
     \/ /\ o.op = "disable"
        /\ enabled' = [enabled EXCEPT ![o.ws] = @ \ {o.product}]
  /\ UNCHANGED <<role, units, positions, placed>>

\* An order is carried out, and is not under way any more.
Change(s) ==
  LET o == orders[s] IN
  /\ o # None
  /\ Manages(o.ws, o.user)
  /\ AddUnit(o) \/ AddPosition(o) \/ Assign(o) \/ Switch(o)
  /\ orders' = [orders EXCEPT ![s] = None]

Next == Join \/ \E s \in Slot : Ask(s) \/ Drop(s) \/ Change(s)

Spec == Init /\ [][Next]_vars
=============================================================================
