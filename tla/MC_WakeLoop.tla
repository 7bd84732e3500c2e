------------------------------ MODULE MC_WakeLoop ------------------------------
(* Two events, two callers of Close.                                         *)
EXTENDS WakeLoop

CONSTANTS e1, e2, c1, c2

===============================================================================
