------------------------------ MODULE TestRun ------------------------------
(***************************************************************************)
(* What run_all_tests of scripts/test_disk_images.py promises, abstractly: *)
(* it takes the test cases one at a time in their order, never returns to *)
(* an earlier one and never skips one; each of its steps logs at most one *)
(* finding, so tests_passed and tests_failed only grow, by one at a time; *)
(* after the last case the run is over and the counters are final.  The  *)
(* run may also end early by an exception.                                *)
(***************************************************************************)
EXTENDS Naturals

CONSTANT NCases   \* the number of test cases

VARIABLES
  cur,      \* the test case being run
  state,    \* "running", "done" (summary reached) or "aborted"
  passed,   \* tests_passed
  failed    \* tests_failed

vars == <<cur, state, passed, failed>>

Init == cur = 1 /\ state = "running" /\ passed = 0 /\ failed = 0

\* log(..., 'PASS'), log(..., 'FAIL'), or no counted finding.
Record ==
  \/ passed' = passed + 1 /\ UNCHANGED failed
  \/ failed' = failed + 1 /\ UNCHANGED passed
  \/ UNCHANGED <<passed, failed>>

\* The run stays in its case, goes on to the next one, reaches the summary
\* after the last one, or is ended by an exception.
Move ==
  \/ UNCHANGED <<cur, state>>
  \/ cur < NCases /\ cur' = cur + 1 /\ UNCHANGED state
  \/ cur = NCases /\ state' = "done" /\ UNCHANGED cur
  \/ state' = "aborted" /\ UNCHANGED cur

\* One statement of the running loop.
Step == state = "running" /\ Record /\ Move

Spec == Init /\ [][Step]_vars
=============================================================================
