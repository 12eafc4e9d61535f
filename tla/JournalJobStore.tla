--------------------------- MODULE JournalJobStore ---------------------------
(***************************************************************************)
(* The JSONL job journal (crates/task-scheduler/src/store.rs, with the line  *)
(* scanner of crates/workflow-journal/src/health.rs), line by line: sequence *)
(* numbers, torn and glued lines, online compaction, retention and recovery. *)
(* A line is a record with its sequence number or an unreadable line; the    *)
(* JSON text, the event (always the one of the job's status) and timestamps  *)
(* are left out.                                                             *)
(***************************************************************************)
EXTENDS JobStore, Integers, Sequences

CONSTANTS
    Records,            \* the job records callers write
    CompactThreshold,   \* COMPACT_THRESHOLD
    CompactRetained,    \* COMPACT_RETAINED_TERMINAL
    MaxLines,           \* bound on the lines of the file
    MaxFailures         \* bound on failed and interrupted writes and compactions

ASSUME JournalAssumption ==
    /\ Records \subseteq Job
    /\ CompactThreshold \in Nat /\ CompactRetained \in Nat
    /\ MaxLines \in Nat /\ MaxFailures \in Nat

VARIABLES
    file,       \* the complete lines of the journal
    torn,       \* the file ends in an unterminated line
    index,      \* the in-memory map of the open store
    next,       \* WriterState::next_sequence
    isOpen,     \* a process has the store open
    failures    \* failures so far

jvars == <<file, torn, index, next, isOpen, failures>>

Unreadable == [sequence |-> -1, id |-> "none", job |-> NoJob]

Line(sequence, id, job) == [sequence |-> sequence, id |-> id, job |-> job]

ScanLine_accepts_equal(scan, line) ==
    IF line # Unreadable /\ line.sequence >= scan.max
    THEN [scan EXCEPT !.jobs[line.id] = line.job, !.max = line.sequence]
    ELSE [scan EXCEPT !.incompatible = TRUE]

\* One step of the scan: a line that decodes and whose sequence number increases
\* is applied, any other line counts as incompatible.
ScanLine(scan, line) ==
    IF line # Unreadable /\ line.sequence > scan.max
    THEN [scan EXCEPT !.jobs[line.id] = line.job, !.max = line.sequence]
    ELSE [scan EXCEPT !.incompatible = TRUE]

scan_path(lines) ==
    LET scan[n \in 0..Len(lines)] ==
            IF n = 0 THEN [jobs |-> NoJobs, max |-> -1, incompatible |-> FALSE]
            ELSE ScanLine(scan[n - 1], lines[n])
    IN  scan[Len(lines)]

Present(jobs) == {id \in JobIds : jobs[id] # NoJob}

OnePerJob(jobs, ids, first) ==
    LET n == Cardinality(ids)
        order == CHOOSE q \in [1..n -> ids] : \A id \in ids : \E i \in 1..n : q[i] = id
    IN  [i \in 1..n |-> Line(first + i - 1, order[i], jobs[order[i]])]

compact_journal_drops_terminal(jobs) == OnePerJob(jobs, Present(jobs) \ Terminal(jobs), 0)

\* One line per job, numbered from zero.
compact_journal(jobs) == OnePerJob(jobs, Present(jobs), 0)

Init ==
    /\ file = <<>>
    /\ torn = FALSE
    /\ index = NoJobs
    /\ next = 0
    /\ isOpen = TRUE
    /\ failures = 0

Fail == failures < MaxFailures /\ failures' = failures + 1

-----------------------------------------------------------------------------
(* append.                                                                   *)

\* The file after the bytes of a whole line, which complete a torn line if any.
Written(id, job) == Append(file, IF torn THEN Unreadable ELSE Line(next, id, job))

\* The record is synced.  A journal that has grown past its live jobs by the
\* threshold is compacted, and the writer continues on what is then published.
append_synced(id, job, compacts) ==
    LET jobs == [index EXCEPT ![id] = job]
        due == next + 1 >= Cardinality(Present(jobs)) + CompactThreshold
        published == IF due /\ compacts THEN compact_journal(jobs) ELSE Written(id, job)
    IN  /\ isOpen
        /\ Len(file) < MaxLines
        /\ IF compacts THEN UNCHANGED failures ELSE due /\ Fail
        /\ file' = published
        /\ torn' = FALSE
        /\ index' = jobs
        /\ next' = IF due THEN scan_path(published).max + 1 ELSE next + 1
        /\ UNCHANGED isOpen

\* write_all, flush or sync_data fails: with the whole line written, or a part.
append_failed(id, job) ==
    /\ isOpen
    /\ Len(file) < MaxLines
    /\ Fail
    /\ \/ file' = Written(id, job) /\ torn' = FALSE
       \/ torn' = TRUE /\ UNCHANGED file
    /\ UNCHANGED <<index, next, isOpen>>

-----------------------------------------------------------------------------
(* prune_terminal, and the process around the store.                         *)

\* The excess terminal jobs leave the file; the writer and the index continue
\* from a scan of whatever file is there, also when the compaction failed.
prune_journal(compacts) ==
    /\ isOpen
    /\ Excess(index) > 0
    /\ \E jobs \in prune_terminal(index) :
        LET published == IF compacts THEN compact_journal(jobs) ELSE file
            scan == scan_path(published)
        IN  /\ file' = published
            /\ torn' = (torn /\ ~compacts)
            /\ index' = scan.jobs
            /\ next' = scan.max + 1
    /\ IF compacts THEN UNCHANGED failures ELSE Fail
    /\ UNCHANGED isOpen

\* The process stops; inside a write this leaves a torn line.
crash(inWrite) ==
    /\ isOpen
    /\ IF inWrite THEN Fail ELSE UNCHANGED failures
    /\ isOpen' = FALSE
    /\ torn' = (torn \/ inWrite)
    /\ index' = NoJobs
    /\ next' = 0
    /\ UNCHANGED file

IsDamaged == torn \/ scan_path(file).incompatible

\* The job as open enters it in the index.
Recovered(job) ==
    IF job = NoJob THEN NoJob
    ELSE IF IsDamaged THEN [require_reconciliation(job) EXCEPT !.resolution = "none"]
    ELSE IF job.status = "Running" THEN require_reconciliation(job)
    ELSE job

RecoveredLines_reuse_number(scanned, jobs, first) ==
    OnePerJob(jobs, {id \in JobIds : scanned[id].status = "Running"}, first - 1)

\* The lines that open appends for the interrupted jobs of an intact journal.
RecoveredLines(scanned, jobs, first) ==
    OnePerJob(jobs, {id \in JobIds : scanned[id].status = "Running"}, first)

\* A damaged journal is archived and replaced by its jobs, all uncertain.  An
\* oversized one is pruned and compacted, any other is kept and appended to.
open_journal(gone) ==
    LET scan == scan_path(file)
        jobs == Without([id \in JobIds |-> Recovered(scan.jobs[id])], gone)
        oversized == scan.max >= CompactThreshold
        base == IF IsDamaged \/ oversized THEN compact_journal(jobs) ELSE file
        first == scan_path(base).max + 1
        lines == IF IsDamaged THEN <<>> ELSE RecoveredLines(scan.jobs, jobs, first)
        excess == Cardinality(Terminal(scan.jobs)) - CompactRetained
    IN  /\ ~isOpen
        /\ gone \subseteq Terminal(scan.jobs)
        /\ Cardinality(gone) = IF ~IsDamaged /\ oversized /\ excess > 0 THEN excess ELSE 0
        /\ file' = base \o lines
        /\ torn' = FALSE
        /\ index' = jobs
        /\ next' = first + Len(lines)
        /\ isOpen' = TRUE
        /\ UNCHANGED failures

\* The process dies in open between the archiving rename and the new file.
archive_crash ==
    /\ ~isOpen
    /\ IsDamaged
    /\ Fail
    /\ file' = <<>>
    /\ torn' = FALSE
    /\ UNCHANGED <<index, next, isOpen>>

Next ==
    \/ \E id \in JobIds, job \in Records :
        \/ \E compacts \in BOOLEAN : append_synced(id, job, compacts)
        \/ append_failed(id, job)
    \/ \E compacts \in BOOLEAN : prune_journal(compacts)
    \/ \E inWrite \in BOOLEAN : crash(inWrite)
    \/ \E gone \in SUBSET JobIds : open_journal(gone)
    \/ archive_crash

Spec == Init /\ [][Next]_jvars

-----------------------------------------------------------------------------
(* Properties.                                                               *)

TypeOK ==
    /\ file \in Seq([sequence : Nat, id : JobIds, job : Job] \cup {Unreadable})
    /\ torn \in BOOLEAN /\ isOpen \in BOOLEAN
    /\ index \in JobMaps
    /\ next \in Nat
    /\ failures \in 0..MaxFailures

\* The journal, read as the store value a scan of its file gives, does only what
\* JobStoreSpec allows: append, prune_terminal, open and a crash at any point
\* change the recoverable jobs, the index and the damage flags in no other way.
Abstract == INSTANCE JobStoreSpec WITH
    store <- [disk |-> scan_path(file).jobs, index |-> index, torn |-> torn,
              reused |-> isOpen /\ next <= scan_path(file).max,
              damaged |-> scan_path(file).incompatible]

ImplementsJobStore == Abstract!Spec

\* In an open store whose file a scan accepts and whose next number is unused, the
\* file gives back exactly the acknowledged jobs: append, prune_terminal and open
\* lose and invent nothing without leaving a mark that open will see.
IndexIsDurable ==
    isOpen /\ ~IsDamaged /\ next > scan_path(file).max => index = scan_path(file).jobs

\* open leaves a file that the next open accepts: recovering is idempotent, and a
\* job in it is not Running.
RecoveryIsStable ==
    [][~isOpen /\ isOpen' =>
        /\ ~scan_path(file').incompatible
        /\ scan_path(file').jobs = index'
        /\ \A id \in JobIds : index'[id].status # "Running"]_jvars
=============================================================================
