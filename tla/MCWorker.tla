------------------------------ MODULE MCWorker ------------------------------
EXTENDS Worker, TLC
JobSymmetry == Permutations(Jobs)
=============================================================================
