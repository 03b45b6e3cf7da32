---------------------------- MODULE MCSessions ----------------------------
(* Instances of Sessions for TLC: an administrator and a name to create. *)
EXTENDS Sessions, TLC

CONSTANTS admin, bob

AdminOnly == (admin :> "admin")
BothRoles == {"viewer", "operator"}
Symmetry == Permutations(Clients) \cup Permutations(Sids)
=============================================================================
