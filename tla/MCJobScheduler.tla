--------------------------- MODULE MCJobScheduler ---------------------------
(* Instances of JobScheduler for TLC.                                        *)
EXTENDS JobScheduler, TLC

CONSTANTS j1, j2, j3

\* The third job is urgent, the others are equal.
MCPriority == [id \in JobIds |-> IF id = j3 THEN 2 ELSE 1]

\* The handler of j2 never declares itself safe to repeat.
MCReplaySafe == JobIds \ {j2}
=============================================================================
