----------------------------- MODULE MCTreadmill -----------------------------
(* Treadmill instantiated for TLC. *)
EXTENDS Treadmill, TLC

\* The threads run the same code and the objects are alike.
Symmetry == Permutations(Threads) \cup Permutations(Objects)
=============================================================================
