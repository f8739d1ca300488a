--------------------------- MODULE MCWindowLimiter ---------------------------
(* Small instances of WindowLimiter: which checks are interchangeable. *)
EXTENDS WindowLimiter, TLC

CheckSymmetry == Permutations(Check)
=============================================================================
