-------------------------- MODULE MCAsioScheduler --------------------------
(* Instances of AsioScheduler for TLC; the bounds are in the cfg files.    *)
EXTENDS AsioScheduler
=============================================================================
