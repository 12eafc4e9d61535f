-------------------------------- MODULE Jobs --------------------------------
(***************************************************************************)
(* Job records and their transitions, from crates/task-scheduler/src/job.rs. *)
(* A job is kept as the three fields the scheduler branches on: its status,  *)
(* its retry count and the decision of its resolution receipt.  Priority and *)
(* the replay guarantee of the job's handler never change after submission, *)
(* so they are functions of the job id.  Names, payloads, timestamps and     *)
(* error texts are left out.                                                 *)
(*                                                                           *)
(* Definitions whose name continues that of the definition after them (as in *)
(* prepare_retry_uncounted) are plausible mistakes in the code; PROJECT.json *)
(* names the property that catches each.                                     *)
(***************************************************************************)
EXTENDS Naturals, FiniteSets

CONSTANTS
    JobIds,             \* ids that Job::new may mint; an id is minted once
    Priority,           \* JobIds -> Nat, the priority each job is submitted with
    ReplaySafe,         \* jobs whose handler opts in with safe_to_retry()
    MaxRetries,         \* max_retries of every job
    RetainedTerminal    \* SchedulerConfig::retained_terminal_jobs

ASSUME JobsAssumption ==
    /\ IsFiniteSet(JobIds)
    /\ Priority \in [JobIds -> Nat]
    /\ ReplaySafe \subseteq JobIds
    /\ MaxRetries \in Nat
    /\ RetainedTerminal \in Nat

-----------------------------------------------------------------------------

TerminalStatus == {"Completed", "Failed", "Cancelled", "Resolved"}

JobStatus == TerminalStatus \cup {"Pending", "Running", "ReconciliationRequired"}

\* The two attestations an operator may record (JobResolutionDecision).
Decisions == {"effectObserved", "effectAbsent"}

Job == [status : JobStatus \cup {"Absent"},
        retry : 0..MaxRetries,
        resolution : Decisions \cup {"none"}]

\* Stands for "the map has no entry for this id".
NoJob == [status |-> "Absent", retry |-> 0, resolution |-> "none"]

JobMaps == [JobIds -> Job]

NoJobs == [id \in JobIds |-> NoJob]

NewJob == [status |-> "Pending", retry |-> 0, resolution |-> "none"]

start(job) == [job EXCEPT !.status = "Running"]

complete(job) == [job EXCEPT !.status = "Completed"]

fail(job) == [job EXCEPT !.status = "Failed"]

cancel(job) == [job EXCEPT !.status = "Cancelled"]

require_reconciliation(job) == [job EXCEPT !.status = "ReconciliationRequired"]

resolve(job, decision) == [job EXCEPT !.status = "Resolved", !.resolution = decision]

can_retry(job) == job.retry < MaxRetries

prepare_retry_uncounted(job) == [job EXCEPT !.status = "Pending"]

prepare_retry(job) == [job EXCEPT !.status = "Pending", !.retry = @ + 1]

-----------------------------------------------------------------------------
(* Retention.  The code drops the oldest excess terminal jobs, ordering them *)
(* by Utc::now() stamps; a wall clock can step back, so here any excess      *)
(* terminal jobs may be the ones that go.                                    *)

Terminal(jobs) == {id \in JobIds : jobs[id].status \in TerminalStatus}

Excess(jobs) == LET n == Cardinality(Terminal(jobs))
                IN  IF n > RetainedTerminal THEN n - RetainedTerminal ELSE 0

Without(jobs, gone) == [id \in JobIds |-> IF id \in gone THEN NoJob ELSE jobs[id]]

prune_terminal(jobs) ==
    {Without(jobs, gone) :
        gone \in {ids \in SUBSET Terminal(jobs) : Cardinality(ids) = Excess(jobs)}}
=============================================================================
