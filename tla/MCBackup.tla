------------------------------ MODULE MCBackup ------------------------------
EXTENDS Backup, TLC

Symmetry == Permutations(Envs) \cup Permutations(Backers)
=============================================================================
