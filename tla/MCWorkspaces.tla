---------------------------- MODULE MCWorkspaces ----------------------------
(* Small instances of Workspaces for TLC.                                   *)
EXTENDS Workspaces, TLC

Symmetry == Permutations(Request) \cup Permutations(User) \cup Permutations(Workspace)
              \cup Permutations(Slug) \cup Permutations(Invite)
=============================================================================
