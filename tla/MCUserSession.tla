---------------------------- MODULE MCUserSession ----------------------------
(* A small instance of UserSession: one unit of time is one minute.          *)
EXTENDS UserSession, TLC

CONSTANTS t1, t2, t3, t4, r1, r2

Interchangeable == Permutations({t1, t2, t3, t4}) \cup Permutations({r1, r2})
==============================================================================
