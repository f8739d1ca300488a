--------------------------- MODULE MCToolHandlers ---------------------------
(* Small instances of ToolHandlers: which calls are interchangeable. *)
EXTENDS ToolHandlers, TLC

CallSymmetry == Permutations(Call)
=============================================================================
