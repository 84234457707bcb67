----------------------- MODULE MCExternalThreadEvents -----------------------
(* Model checking of ExternalThreadEvents.                                 *)
EXTENDS ExternalThreadEvents, TLC

CONSTANTS e1, e2, e3

\* Events are interchangeable in the safety runs.
Symmetry == Permutations(Events)
=============================================================================
