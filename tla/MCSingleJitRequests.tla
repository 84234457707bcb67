------------------------ MODULE MCSingleJitRequests ------------------------
(***************************************************************************)
(* SingleJitRequests for TLC.                                              *)
(***************************************************************************)
EXTENDS SingleJitRequests, TLC

\* Threads are interchangeable, and so are Funcs.
Symmetry == Permutations(Threads) \cup Permutations(Funcs)
MCAny == BOOLEAN \X BOOLEAN
=============================================================================
