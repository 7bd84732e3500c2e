---------------------------- MODULE MC_Serving ----------------------------
EXTENDS Serving
CONSTANTS p1, s1, s2
=============================================================================
