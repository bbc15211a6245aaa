----------------------------- MODULE MCHubAuth ------------------------------
(* A small instance of HubAuth for TLC.                                     *)
EXTENDS HubAuth, TLC

Symmetry == Permutations(Request) \cup Permutations(Browser) \cup Permutations(User)
              \cup Permutations(Flow) \cup Permutations(HubId)
=============================================================================
