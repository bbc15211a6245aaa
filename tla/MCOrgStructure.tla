--------------------------- MODULE MCOrgStructure ---------------------------
(* A small instance of OrgStructure for TLC.                                *)
EXTENDS OrgStructure, TLC

Symmetry == Permutations(Request) \cup Permutations(Workspace) \cup Permutations(User)
              \cup Permutations(Unit)
=============================================================================
