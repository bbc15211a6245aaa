----------------------------- MODULE MCSessions -----------------------------
(* Small instances of Sessions for TLC.                                     *)
EXTENDS Sessions, TLC

Symmetry == Permutations(Request) \cup Permutations(User) \cup Permutations(Flow)
              \cup Permutations(Sid) \cup Permutations(RowId)
=============================================================================
