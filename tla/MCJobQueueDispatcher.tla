------------------------ MODULE MCJobQueueDispatcher ------------------------
(***************************************************************************)
(* Instances of JobQueueDispatcher for TLC.                                *)
(***************************************************************************)
EXTENDS JobQueueDispatcher

CONSTANTS j1, j2, j3

\* One job of the lowest priority, the others of the highest.
MCPriority == [j \in Jobs |-> IF j = j1 THEN 0 ELSE NumPriorities - 1]

=============================================================================
