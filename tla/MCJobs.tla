------------------------------- MODULE MCJobs -------------------------------
EXTENDS Jobs, TLC

Symmetry == Permutations(Jobs)
=============================================================================
