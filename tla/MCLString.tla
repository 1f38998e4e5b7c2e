----------------------------- MODULE MCLString -----------------------------
(* LString for TLC: the constants are model values given by the .cfg.  No   *)
(* symmetry is declared, because the run checks liveness.                   *)
EXTENDS LString
=============================================================================
