---------------------------- MODULE JobStoreSpec ----------------------------
(***************************************************************************)
(* What the journal store promises its callers, as a specification over the  *)
(* store values of JobStore: the abstract side of the refinement checked for *)
(* JournalJobStore, and the steps JobScheduler takes on its store variable.   *)
(***************************************************************************)
EXTENDS JobStore

CONSTANT Records    \* the job records callers write

VARIABLE store

\* A caller's record reaches the store, or fails to, in one of the known ways.
AppendStep ==
    \E id \in JobIds, job \in Records, o \in Acknowledged \cup WriteFaults :
        store' = append(store, id, job, o)

PruneStep == \E o \in {"ok", "compaction"} : store' \in prune_store_terminal(store, o)

\* The process stops, possibly inside a write.
CrashStep == \E inWrite \in BOOLEAN : store' = Closed(store, inWrite)

\* Opening recovers the scanned jobs; an oversized journal also sheds terminal ones.
OpenStep ==
    \E gone \in SUBSET Terminal(open(store).index) :
        store' = Snapshot(Without(open(store).index, gone))

\* The process stops after a damaged file was archived and before it is replaced.
ArchiveStep == MustArchive(store) /\ store' = Snapshot(NoJobs)

Init == store = Snapshot(NoJobs)

Next == AppendStep \/ PruneStep \/ CrashStep \/ OpenStep \/ ArchiveStep

Spec == Init /\ [][Next]_store
=============================================================================
