--------------------------- MODULE MCPositionClose ---------------------------
(* Small instances of PositionClose for TLC. *)
EXTENDS PositionClose, TLC

CallSymmetry == Permutations(Closers) \cup Permutations(Partials)
=============================================================================
