---------------------------- MODULE MCAdminUsers ----------------------------
(* Small instances of AdminUsers: which requests are interchangeable. *)
EXTENDS AdminUsers, TLC

RequestSymmetry == Permutations(Request)
=============================================================================
