------------------------------ MODULE MCOcoOrder ------------------------------
EXTENDS OcoOrder, TLC

CallSymmetry == Permutations(Checks) \cup Permutations(Cancels)
=============================================================================
