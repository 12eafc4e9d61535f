------------------------- MODULE MCSchedulerDurable -------------------------
(***************************************************************************)
(* An instance of JobSchedulerArchive.                                       *)
(***************************************************************************)
EXTENDS JobSchedulerArchive, MCJobScheduler

\* Jobs of one priority that are never retried differ in nothing but their ids.
Interchangeable == Permutations(JobIds)
=============================================================================
