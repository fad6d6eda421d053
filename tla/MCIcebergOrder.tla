---------------------------- MODULE MCIcebergOrder ----------------------------
EXTENDS IcebergOrder, TLC

CallSymmetry == Permutations(Checks) \cup Permutations(Cancels)
=============================================================================
