---------------------------- MODULE MCSnapshots ----------------------------
(* Snapshots with names and contents interchangeable, and a bound on the    *)
(* calls made.                                                              *)
EXTENDS Snapshots, TLC

CONSTANT MaxCalls   \* calls of Snapshot, DeleteSnapshot and Restore

VARIABLE calls

BoundedInit == Init /\ calls = 0

BoundedNext ==
  \/ calls < MaxCalls /\ Call /\ calls' = calls + 1
  \/ (Step \/ Environment) /\ UNCHANGED calls

BoundedSpec == BoundedInit /\ [][BoundedNext]_<<vars, calls>>

FairBoundedSpec == BoundedSpec /\ WF_vars(Step \/ Fail)

Symmetry == Permutations(Turns) \cup Permutations(PreRestores) \cup Permutations(Contents)
============================================================================
