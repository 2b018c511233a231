----------------------------- MODULE PFRunSpec ------------------------------
(***************************************************************************)
(* What a run of a suite promises to the user who reads its summary line   *)
(* and its exit status: the tests the filter selects get their verdicts    *)
(* one after the other in the order of the suite, each exactly one, an     *)
(* ignored test is never passed or failed, and the run reports failure     *)
(* exactly when some test failed.                                          *)
(***************************************************************************)
EXTENDS Naturals, Sequences

CONSTANTS Suite, Filters, Selects(_, _), Ignored

VARIABLES
  filter,
  pending,   \* the positions of the tests that have no verdict yet
  counts, result

vars == <<filter, pending, counts, result>>

Init ==
  /\ filter \in Filters
  /\ pending = {i \in 1..Len(Suite) : Selects(filter, Suite[i])}
  /\ counts = [passed |-> 0, failed |-> 0, ignored |-> 0]
  /\ result = "running"

Verdicts(t) == IF t \in Ignored THEN {"ignored"} ELSE {"passed", "failed"}

\* The first of the tests that are left, by its position in the suite.
Finish ==
  \E i \in pending :
    /\ \A j \in pending : i <= j
    /\ \E v \in Verdicts(Suite[i]) : counts' = [counts EXCEPT ![v] = @ + 1]
    /\ pending' = pending \ {i}
    /\ UNCHANGED <<filter, result>>

Return ==
  /\ pending = {}
  /\ result = "running"
  /\ result' = IF counts.failed = 0 THEN "success" ELSE "failure"
  /\ UNCHANGED <<filter, pending, counts>>

Next == Finish \/ Return

Safe == Init /\ [][Next]_vars

Spec == Safe /\ WF_vars(Next)
=============================================================================
