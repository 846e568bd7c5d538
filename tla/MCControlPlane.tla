--------------------------- MODULE MCControlPlane ---------------------------
EXTENDS ControlPlane, TLC

ThreadSymmetry == Permutations(Threads)
=============================================================================
