------------------------- MODULE MCJournalJobStore -------------------------
(* Instances of JournalJobStore for TLC.                                     *)
EXTENDS JournalJobStore, TLC

CONSTANTS j1, j2

MCPriority == [id \in JobIds |-> 1]

\* One record of each kind that open, retention and the scan tell apart.
MCRecords == {[status |-> s, retry |-> 0, resolution |-> "none"] :
                s \in {"Running", "Completed"}}
             \cup {[status |-> "Resolved", retry |-> 0, resolution |-> "effectAbsent"]}
=============================================================================
