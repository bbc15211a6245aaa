---------------------------- MODULE Membership ------------------------------
(***************************************************************************)
(* What membership of a workspace promises: the founder is the first member *)
(* and owns it; everybody else is let in while somebody manages it, once,   *)
(* and keeps the role he came with.  Workspaces, which gets there by way of  *)
(* invitations, implements this.                                            *)
(***************************************************************************)
CONSTANTS Workspace, User, None

VARIABLES
  founder,      \* [Workspace -> User or None]
  team          \* [Workspace -> [User -> Role or None]]

vars == <<founder, team>>

Role == {"owner", "admin", "member"}

Init ==
  /\ founder = [w \in Workspace |-> None]
  /\ team = [w \in Workspace |-> [u \in User |-> None]]

Found(w) ==
  /\ founder[w] = None
  /\ \E u \in User : founder' = [founder EXCEPT ![w] = u]
  /\ UNCHANGED team

\* The founder takes his place, before anybody else.
Own(w) ==
  /\ founder[w] # None
  /\ \A u \in User : team[w][u] = None
  /\ team' = [team EXCEPT ![w][founder[w]] = "owner"]
  /\ UNCHANGED founder

Admit(w, u) ==
  /\ team[w][u] = None
  /\ \E v \in User : team[w][v] \in {"owner", "admin"}
  /\ \E q \in Role : team' = [team EXCEPT ![w][u] = q]
  /\ UNCHANGED founder

Next == \E w \in Workspace : Found(w) \/ Own(w) \/ \E u \in User : Admit(w, u)

Spec == Init /\ [][Next]_vars
=============================================================================
