------------------------------ MODULE MCSources ------------------------------
(* An instance of Sources for TLC: files and texts as model values. *)
EXTENDS Sources

CONSTANTS f1, f2, A, B
=============================================================================
