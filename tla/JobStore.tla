------------------------------ MODULE JobStore ------------------------------
(***************************************************************************)
(* The durable job store (crates/task-scheduler/src/store.rs) as its callers *)
(* see it: a value that every append or compaction maps to a new value.      *)
(*                                                                           *)
(*   disk     the jobs a scan of the journal file would return               *)
(*   index    the in-memory map, which get_job and compaction read           *)
(*   torn     the file ends in an unterminated line                          *)
(*   reused   the next sequence number to be written is already in the file  *)
(*   damaged  the file holds a line that a scan rejects                      *)
(*                                                                           *)
(* JournalJobStore models the file line by line and implements this module.  *)
(***************************************************************************)
EXTENDS Jobs

Store == [disk : JobMaps, index : JobMaps,
          torn : BOOLEAN, reused : BOOLEAN, damaged : BOOLEAN]

(* How one append can end.  "ok" and "compacted" (the append crossed the     *)
(* compaction threshold) are acknowledged.  The others reach the caller as   *)
(* an error or, for "detached", not at all: "lost" wrote nothing, "partial"  *)
(* wrote part of the line, "unsynced" wrote the line and failed in           *)
(* sync_data, "detached" succeeded in its own task after the calling future  *)
(* was dropped or with a compaction that failed after the record was synced. *)
Acknowledged == {"ok", "compacted"}

WriteFaults == {"lost", "partial", "unsynced", "detached"}

\* A journal file holding exactly the given jobs, one valid line for each.
Snapshot(jobs) ==
    [disk |-> jobs, index |-> jobs, torn |-> FALSE, reused |-> FALSE, damaged |-> FALSE]

\* A whole line reaches the file.  After a torn line it is glued to it, and a
\* reused sequence number does not increase: a scan rejects both.
LineWritten(s, id, job) ==
    IF s.torn \/ s.reused THEN [s EXCEPT !.torn = FALSE, !.damaged = TRUE]
                          ELSE [s EXCEPT !.disk[id] = job]

LineSynced_memory_only(s, id, job) == [s EXCEPT !.index[id] = job]

\* The line is synced: the sequence number advances and the index follows.
LineSynced(s, id, job) ==
    [LineWritten(s, id, job) EXCEPT !.index[id] = job, !.reused = FALSE]

\* The line is in the file but the sequence number stays where it was.  A glued
\* line does not decode, so a scan does not see its number.
LineUnsynced(s, id, job) ==
    [LineWritten(s, id, job) EXCEPT !.reused = @ \/ ~s.torn]

append(s, id, job, outcome) ==
    CASE outcome \in {"ok", "detached"} -> LineSynced(s, id, job)
      [] outcome = "compacted" -> Snapshot([s.index EXCEPT ![id] = job])
      [] outcome = "lost" -> s
      [] outcome = "partial" -> [s EXCEPT !.torn = TRUE]
      [] outcome = "unsynced" -> LineUnsynced(s, id, job)

\* A prune whose compaction failed before its rename still reopens and rescans
\* the old file, and takes its index and sequence number from the scan.
Rescanned(s) ==
    [s EXCEPT !.index = s.disk, !.reused = FALSE]

\* The stores prune_terminal can leave; "compaction" is the outcome of a failed one.
prune_store_terminal(s, outcome) ==
    IF Excess(s.index) = 0 THEN {s}
    ELSE IF outcome = "compaction" THEN {Rescanned(s)}
    ELSE {Snapshot(jobs) : jobs \in prune_terminal(s.index)}

-----------------------------------------------------------------------------
(* Losing the process and opening the journal again.                         *)

\* The process is gone: its index and sequence number with it, and a write that
\* was under way may leave a torn line.
Closed(s, inWrite) ==
    [s EXCEPT !.index = NoJobs, !.reused = FALSE, !.torn = @ \/ inWrite]

MustArchive_always(s) == TRUE

MustArchive(s) == s.damaged \/ s.torn

Reopened_resumes(s, job) ==
    IF job.status = "Running" THEN [job EXCEPT !.status = "Pending"] ELSE job

\* What open makes of a scanned job: after damage every job needs
\* reconciliation and loses its receipt, else only the interrupted ones.
Reopened(s, job) ==
    IF job = NoJob THEN NoJob
    ELSE IF MustArchive(s) THEN [require_reconciliation(job) EXCEPT !.resolution = "none"]
    ELSE IF job.status = "Running" THEN require_reconciliation(job)
    ELSE job

open(s) == Snapshot([id \in JobIds |-> Reopened(s, s.disk[id])])
=============================================================================
