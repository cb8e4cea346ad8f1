------------------------- MODULE MCGroupMembership -------------------------
(***************************************************************************)
(* GroupMembership on small instances.  User, handler and request ids are  *)
(* only ever compared, so permuting them maps behaviours to behaviours.    *)
(***************************************************************************)
EXTENDS GroupMembership, TLC

Symmetry == Permutations(Users) \cup Permutations(Handlers) \cup Permutations(Requests)
=============================================================================
