----------------------------- MODULE LatestLoad -----------------------------
(***************************************************************************)
(* What a table of rows promises: a question may be asked at any time, and *)
(* whatever is then shown is the answer to the question asked last, or no  *)
(* rows after a failure, never the answer to an earlier one.  The tabs of  *)
(* the detail pages implement it (DetailTab.tla).                          *)
(***************************************************************************)
CONSTANTS Query,     \* what the server can be asked
          Empty      \* a table without rows

VARIABLES asked,     \* the last question, Empty before the first
          rows,      \* the question whose answer is shown, or Empty
          loading    \* the spinner is shown

vars == <<asked, rows, loading>>

Init == asked = Empty /\ rows = Empty /\ loading = TRUE

Ask(q) ==
  /\ asked' = q
  /\ loading' = TRUE
  /\ UNCHANGED rows

Show ==
  /\ asked # Empty
  /\ rows' = asked
  /\ loading' = FALSE
  /\ UNCHANGED asked

Fail ==
  /\ asked # Empty
  /\ rows' = Empty
  /\ loading' = FALSE
  /\ UNCHANGED asked

Next == (\E q \in Query : Ask(q)) \/ Show \/ Fail

Spec == Init /\ [][Next]_vars
=============================================================================
