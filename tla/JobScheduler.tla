---------------------------- MODULE JobScheduler ----------------------------
(***************************************************************************)
(* The journal-backed job scheduler (crates/task-scheduler/src/scheduler.rs  *)
(* and queue.rs): clients that submit, cancel and resolve jobs, the run loop  *)
(* that dispatches them, one task per dispatched job, and a process that can  *)
(* stop at any moment and be reopened on its journal.                         *)
(*                                                                           *)
(* transition_lock serialises every handler but submit, and submit holds the  *)
(* queue lock from its capacity check to its insertion, so each handler is    *)
(* one action.  Where the code gives a lock up between two decisions the      *)
(* action is split: the run loop reads the shutdown flag before it takes the  *)
(* lock, and abort_all_running persists one job after the other.              *)
(***************************************************************************)
EXTENDS JobStore, Sequences

CONSTANTS
    MaxConcurrent,      \* permits of the semaphore
    MaxQueue,           \* SchedulerConfig::max_queue_size
    Faults,             \* the kinds of failure that can happen in this instance
    MaxFaults,          \* bound on how many of them happen
    MaxCrashes          \* bound on how often the process dies

FaultKinds == WriteFaults \cup {"compaction", "tornCrash", "archiveCrash"}

ASSUME SchedulerAssumption ==
    /\ MaxConcurrent \in Nat \ {0}
    /\ MaxQueue \in Nat
    /\ Faults \subseteq FaultKinds
    /\ MaxFaults \in Nat
    /\ MaxCrashes \in Nat

VARIABLES
    loop,       \* where run_with_drain is; "down" when there is no process
    shutdown,   \* the shutdown watch channel
    denied,     \* admission_integrity_issue is set
    registry,   \* job_registry
    resolving,  \* jobs with resolution_pending set
    queue,      \* JobQueue: the queued ids in order of arrival
    task,       \* the task spawned for each job
    store,      \* the journal store
    faults,     \* failures so far
    crashes     \* process deaths so far

\* History: what clients were told and what handlers did, across restarts.
VARIABLES
    used,       \* ids minted so far
    acked,      \* jobs whose submit returned Ok
    cancelled,  \* jobs whose cancellation as a pending job returned Ok
    receipts,   \* decisions acknowledged by resolve_job, for each job
    attempt,    \* how the latest execution of each job's handler ended
    runs,       \* how often each job's handler was started
    retired     \* jobs that retention dropped from the registry or the store

process == <<loop, shutdown, denied, registry, resolving, queue, task>>
history == <<used, acked, cancelled, receipts, attempt, runs, retired>>
vars == <<process, store, faults, crashes, history>>

LoopStates == {"top", "dispatch", "failing", "failAbort", "drainAbort", "joining",
               "stopped", "down"}

TaskStates == {"none", "executing", "aborting", "backoff"}

Up == loop # "down"

\* abort_all_running holds transition_lock and the registry while it persists.
TransitionFree == loop \notin {"failAbort", "drainAbort"}

Busy == {id \in JobIds : task[id] \in {"executing", "aborting"}}

Outcomes == Acknowledged \cup (Faults \cap WriteFaults)

PruneOutcomes == {"ok"} \cup (Faults \cap {"compaction"})

Charge(outcomes) ==
    LET bad(n) == IF n > Len(outcomes) \/ outcomes[n] \in Acknowledged THEN 0 ELSE 1
        cost == bad(1) + bad(2) + bad(3)
    IN  /\ faults + cost <= MaxFaults
        /\ faults' = faults + cost

\* The terminal jobs that retention drops between two versions of a job map.
Dropped(before, after) == {id \in Terminal(before) : after[id] = NoJob}

Init ==
    /\ loop = "top"
    /\ shutdown = FALSE
    /\ denied = FALSE
    /\ registry = NoJobs
    /\ resolving = {}
    /\ queue = <<>>
    /\ task = [id \in JobIds |-> "none"]
    /\ store = Snapshot(NoJobs)
    /\ faults = 0
    /\ crashes = 0
    /\ used = {}
    /\ acked = {}
    /\ cancelled = {}
    /\ receipts = [id \in JobIds |-> {}]
    /\ attempt = [id \in JobIds |-> "none"]
    /\ runs = [id \in JobIds |-> 0]
    /\ retired = {}

-----------------------------------------------------------------------------
(* The ready queue.                                                          *)

\* Position i holds the job that next_job takes: the highest priority, and the
\* earliest among equals.
IsNext(i) ==
    /\ \A k \in DOMAIN queue : Priority[queue[k]] <= Priority[queue[i]]
    /\ \A k \in DOMAIN queue : k < i => Priority[queue[k]] < Priority[queue[i]]

RemoveAt(q, i) == SubSeq(q, 1, i - 1) \o SubSeq(q, i + 1, Len(q))

Dequeue_forgotten(q, id) == q

Dequeue(q, id) ==
    IF \E i \in DOMAIN q : q[i] = id
    THEN RemoveAt(q, CHOOSE i \in DOMAIN q : q[i] = id)
    ELSE q

-----------------------------------------------------------------------------
(* Clients.                                                                  *)

\* A submission is persisted before it becomes runnable; when the append fails
\* the caller gets AdmissionUncertain and the job stays out of the registry.  It
\* takes no transition_lock, but abort_all_running holds the registry it inserts in.
submit(id, o) ==
    /\ Up /\ TransitionFree
    /\ id \notin used
    /\ ~denied
    /\ Len(queue) < MaxQueue
    /\ Charge(<<o>>)
    /\ used' = used \cup {id}
    /\ store' = append(store, id, NewJob, o)
    /\ IF o \in Acknowledged
       THEN /\ queue' = Append(queue, id)
            /\ registry' = [registry EXCEPT ![id] = NewJob]
            /\ acked' = acked \cup {id}
       ELSE UNCHANGED <<queue, registry, acked>>
    /\ UNCHANGED <<loop, shutdown, denied, resolving, task, crashes,
                   cancelled, receipts, attempt, runs, retired>>

\* The terminal state just persisted is followed by a prune of the registry and
\* then of the store.
Settle(jobs, s, o) ==
    /\ registry' \in prune_terminal(jobs)
    /\ store' \in prune_store_terminal(s, o)
    /\ retired' = retired \cup Dropped(jobs, registry') \cup Dropped(s.index, store'.index)

\* Cancelling a pending job is persisted first; on an error it stays runnable.
cancel_pending(id, o, p) ==
    LET job == cancel(registry[id])
        s == append(store, id, job, o)
    IN  /\ Up /\ TransitionFree
        /\ registry[id].status = "Pending"
        /\ Charge(<<o, p>>)
        /\ IF o \in Acknowledged
           THEN /\ Settle([registry EXCEPT ![id] = job], s, p)
                /\ queue' = Dequeue(queue, id)
                /\ cancelled' = cancelled \cup {id}
           ELSE /\ p = "ok"
                /\ store' = s
                /\ UNCHANGED <<registry, queue, cancelled, retired>>
        /\ UNCHANGED <<loop, shutdown, denied, resolving, task, crashes,
                       used, acked, receipts, attempt, runs>>

\* Cancelling a running job aborts its task; its effect stays uncertain.
cancel_running(id, o) ==
    LET job == require_reconciliation(registry[id])
    IN  /\ Up /\ TransitionFree
        /\ registry[id].status = "Running"
        /\ Charge(<<o>>)
        /\ registry' = [registry EXCEPT ![id] = job]
        /\ task' = [task EXCEPT ![id] = "aborting"]
        /\ store' = append(store, id, job, o)
        /\ UNCHANGED <<loop, shutdown, denied, resolving, queue, crashes, history>>

resolve_job_unguarded(id, decision, o, p) ==
    LET job == resolve(registry[id], decision)
        s == append(store, id, job, o)
    IN  /\ Up /\ TransitionFree
        /\ registry[id].status = "ReconciliationRequired"
        /\ Charge(<<o, p>>)
        /\ IF o \in Acknowledged
           THEN /\ Settle([registry EXCEPT ![id] = job], s, p)
                /\ receipts' = [receipts EXCEPT ![id] = @ \cup {decision}]
           ELSE /\ p = "ok"
                /\ store' = s
                /\ UNCHANGED <<registry, receipts, retired>>
        /\ UNCHANGED <<loop, shutdown, denied, resolving, queue, task, crashes,
                       used, acked, cancelled, attempt, runs>>

\* An operator attests what happened.  resolution_pending is set before the
\* append and only an acknowledged append clears it.
resolve_job(id, decision, o, p) ==
    LET job == resolve(registry[id], decision)
        s == append(store, id, job, o)
    IN  /\ Up /\ TransitionFree
        /\ registry[id].status = "ReconciliationRequired"
        /\ id \notin resolving
        /\ Charge(<<o, p>>)
        /\ IF o \in Acknowledged
           THEN /\ Settle([registry EXCEPT ![id] = job], s, p)
                /\ receipts' = [receipts EXCEPT ![id] = @ \cup {decision}]
                /\ UNCHANGED resolving
           ELSE /\ p = "ok"
                /\ store' = s
                /\ resolving' = resolving \cup {id}
                /\ UNCHANGED <<registry, receipts, retired>>
        /\ UNCHANGED <<loop, shutdown, denied, queue, task, crashes,
                       used, acked, cancelled, attempt, runs>>

\* Repeating the decision of a resolved job returns its receipt; another
\* decision is a conflict and changes nothing.
resolve_again(id) ==
    /\ Up /\ TransitionFree
    /\ registry[id].resolution # "none"
    /\ receipts' = [receipts EXCEPT ![id] = @ \cup {registry[id].resolution}]
    /\ UNCHANGED <<process, store, faults, crashes,
                   used, acked, cancelled, attempt, runs, retired>>

request_shutdown ==
    /\ Up
    /\ shutdown' = TRUE
    /\ UNCHANGED <<loop, denied, registry, resolving, queue, task, store, faults, crashes,
                   history>>

deny_admission ==
    /\ Up
    /\ denied' = TRUE
    /\ UNCHANGED <<loop, shutdown, registry, resolving, queue, task, store, faults, crashes,
                   history>>

-----------------------------------------------------------------------------
(* The run loop.                                                             *)

\* The loop sees no shutdown and takes a permit.  A shutdown requested after this
\* read does not stop the dispatch that follows.
acquire_permit ==
    /\ loop = "top"
    /\ ~shutdown
    /\ Cardinality(Busy) < MaxConcurrent
    /\ loop' = "dispatch"
    /\ UNCHANGED <<shutdown, denied, registry, resolving, queue, task, store, faults, crashes,
                   history>>

dispatch_idle ==
    /\ loop = "dispatch"
    /\ queue = <<>>
    /\ loop' = "top"
    /\ UNCHANGED <<shutdown, denied, registry, resolving, queue, task, store, faults, crashes,
                   history>>

\* The next job is marked Running, and its task is spawned once that is durable.
\* A failed append returns it to the back of the queue and ends the loop.  The
\* code also drops an entry whose registered job was cancelled; QueuedIsPending
\* says that there is none.
dispatch(i, o) ==
    LET id == queue[i]
        job == start(registry[id])
    IN  /\ loop = "dispatch"
        /\ IsNext(i)
        /\ registry[id].status # "Cancelled"
        /\ Charge(<<o>>)
        /\ store' = append(store, id, job, o)
        /\ IF o \in Acknowledged
           THEN /\ registry' = [registry EXCEPT ![id] = job]
                /\ queue' = RemoveAt(queue, i)
                /\ task' = [task EXCEPT ![id] = "executing"]
                /\ attempt' = [attempt EXCEPT ![id] = "begun"]
                /\ runs' = [runs EXCEPT ![id] = @ + 1]
                /\ loop' = "top"
           ELSE /\ queue' = Append(RemoveAt(queue, i), id)
                /\ loop' = "failing"
                /\ UNCHANGED <<registry, task, attempt, runs>>
        /\ UNCHANGED <<shutdown, denied, resolving, crashes,
                       used, acked, cancelled, receipts, retired>>

\* abort_all_running takes transition_lock and aborts every task that has an
\* abort handle, after a failed dispatch or when the drain deadline passes.
abort_handles ==
    /\ \/ loop = "failing" /\ loop' = "failAbort"
       \/ loop = "top" /\ shutdown /\ (\E id \in JobIds : task[id] # "none")
          /\ loop' = "drainAbort"
    /\ task' = [id \in JobIds |-> IF task[id] = "executing" THEN "aborting" ELSE task[id]]
    /\ UNCHANGED <<shutdown, denied, registry, resolving, queue, store, faults, crashes, history>>

\* It then records each running job as uncertain.
abort_running(id, o) ==
    LET job == require_reconciliation(registry[id])
    IN  /\ ~TransitionFree
        /\ registry[id].status = "Running"
        /\ Charge(<<o>>)
        /\ registry' = [registry EXCEPT ![id] = job]
        /\ store' = append(store, id, job, o)
        /\ UNCHANGED <<loop, shutdown, denied, resolving, queue, task, crashes, history>>

\* Returning from a failed dispatch drops the JoinSet and the retry timers in it.
abort_done ==
    /\ ~TransitionFree
    /\ \A id \in JobIds : registry[id].status # "Running"
    /\ \/ /\ loop = "failAbort"
          /\ loop' = "stopped"
          /\ task' = [id \in JobIds |-> "none"]
       \/ /\ loop = "drainAbort"
          /\ loop' = "joining"
          /\ UNCHANGED task
    /\ UNCHANGED <<shutdown, denied, registry, resolving, queue, store, faults, crashes, history>>

\* Every task has been joined: after a drain in time, or after the abort.
drained ==
    /\ loop = "joining" \/ (loop = "top" /\ shutdown)
    /\ \A id \in JobIds : task[id] = "none"
    /\ loop' = "stopped"
    /\ UNCHANGED <<shutdown, denied, registry, resolving, queue, task, store, faults, crashes,
                   history>>

-----------------------------------------------------------------------------
(* The task of one job.                                                      *)

Retries(id, result) ==
    result = "error" /\ can_retry(registry[id]) /\ id \in ReplaySafe

Finished_timeout_fails(id, result) ==
    IF result = "success" THEN complete(registry[id]) ELSE fail(registry[id])

Finished(id, result) ==
    LET job == registry[id]
    IN  IF result = "timeout" THEN require_reconciliation(job)
        ELSE IF result = "success" THEN complete(job)
        ELSE IF Retries(id, result) THEN prepare_retry(fail(job))
        ELSE fail(job)

\* persist_or_reconcile: a transition whose append fails becomes uncertain in the
\* registry, and a second append tries to record that.
Persisted(id, job, o) ==
    IF o \in Acknowledged THEN job ELSE require_reconciliation(job)

PersistedStore(id, job, o1, o2) ==
    IF o1 \in Acknowledged THEN append(store, id, job, o1)
    ELSE append(append(store, id, job, o1), id, require_reconciliation(job), o2)

\* The handler returned or timed out.  o1 and o2 are the outcomes of the appends
\* and p that of the prune; what the code does not reach counts as "ok".
finish_job(id, result, o1, o2, p) ==
    LET job == Persisted(id, Finished(id, result), o1)
        jobs == [registry EXCEPT ![id] = job]
        s == PersistedStore(id, Finished(id, result), o1, o2)
        terminal == job.status \in TerminalStatus
    IN  /\ TransitionFree
        /\ task[id] = "executing"
        /\ o1 \in Acknowledged => o2 = "ok"
        /\ Charge(<<o1, o2, p>>)
        /\ IF terminal
           THEN Settle(jobs, s, p)
           ELSE /\ p = "ok"
                /\ registry' = jobs
                /\ store' = s
                /\ UNCHANGED retired
        /\ task' = [task EXCEPT ![id] = IF job.status = "Pending" THEN "backoff" ELSE "none"]
        /\ attempt' = [attempt EXCEPT ![id] = IF result = "timeout" THEN @ ELSE result]
        /\ UNCHANGED <<loop, shutdown, denied, resolving, queue, crashes,
                       used, acked, cancelled, receipts, runs>>

\* An aborted task is dropped, and PermitGuard gives its permit back.
task_aborted(id) ==
    /\ task[id] = "aborting"
    /\ task' = [task EXCEPT ![id] = "none"]
    /\ UNCHANGED <<loop, shutdown, denied, registry, resolving, queue, store, faults, crashes,
                   history>>

requeue_after_backoff_forgets(id) ==
    /\ TransitionFree
    /\ task[id] = "backoff"
    /\ ~shutdown
    /\ task' = [task EXCEPT ![id] = "none"]
    /\ UNCHANGED <<loop, shutdown, denied, registry, resolving, queue, store, faults, crashes,
                   history>>

\* The retry timer fires and the job goes back to the ready queue.
requeue_after_backoff(id) ==
    /\ TransitionFree
    /\ task[id] = "backoff"
    /\ ~shutdown
    /\ registry[id].status = "Pending"
    /\ Len(queue) < MaxQueue
    /\ queue' = Append(queue, id)
    /\ task' = [task EXCEPT ![id] = "none"]
    /\ UNCHANGED <<loop, shutdown, denied, registry, resolving, store, faults, crashes, history>>

retry_dropped_late(id) ==
    /\ TransitionFree
    /\ task[id] = "backoff"
    /\ registry[id].status # "Pending"
    /\ task' = [task EXCEPT ![id] = "none"]
    /\ UNCHANGED <<loop, shutdown, denied, registry, resolving, queue, store, faults, crashes,
                   history>>

\* The timer ends without effect: at shutdown, or when the job was cancelled.
retry_dropped(id) ==
    /\ TransitionFree
    /\ task[id] = "backoff"
    /\ shutdown \/ registry[id].status # "Pending"
    /\ task' = [task EXCEPT ![id] = "none"]
    /\ UNCHANGED <<loop, shutdown, denied, registry, resolving, queue, store, faults, crashes,
                   history>>

\* The queue has no room for the retry: the job fails.  Only the store is pruned.
requeue_refused(id, o1, o2, p) ==
    LET job == Persisted(id, fail(registry[id]), o1)
        s == PersistedStore(id, fail(registry[id]), o1, o2)
    IN  /\ TransitionFree
        /\ task[id] = "backoff"
        /\ ~shutdown
        /\ registry[id].status = "Pending"
        /\ Len(queue) >= MaxQueue
        /\ o1 \in Acknowledged => o2 = "ok"
        /\ Charge(<<o1, o2, p>>)
        /\ registry' = [registry EXCEPT ![id] = job]
        /\ IF o1 \in Acknowledged
           THEN /\ store' \in prune_store_terminal(s, p)
                /\ retired' = retired \cup Dropped(s.index, store'.index)
           ELSE /\ p = "ok"
                /\ store' = s
                /\ UNCHANGED retired
        /\ task' = [task EXCEPT ![id] = "none"]
        /\ UNCHANGED <<loop, shutdown, denied, resolving, queue, crashes,
                       used, acked, cancelled, receipts, attempt, runs>>

-----------------------------------------------------------------------------
(* The process.                                                              *)

ProcessGone ==
    /\ loop' = "down"
    /\ shutdown' = FALSE
    /\ denied' = FALSE
    /\ registry' = NoJobs
    /\ resolving' = {}
    /\ queue' = <<>>
    /\ task' = [id \in JobIds |-> "none"]

\* The process dies between two handlers, or inside one: before an append (as if
\* the handler had not begun), after it, or in its middle, leaving a torn line.
crash(torn) ==
    /\ Up
    /\ torn => "tornCrash" \in Faults
    /\ crashes < MaxCrashes
    /\ crashes' = crashes + 1
    /\ ProcessGone
    /\ store' = Closed(store, torn)
    /\ UNCHANGED <<faults, history>>

\* The service exits once its scheduler has stopped.
exit ==
    /\ loop = "stopped" /\ shutdown
    /\ ProcessGone
    /\ store' = Closed(store, FALSE)
    /\ UNCHANGED <<faults, crashes, history>>

PendingIn(jobs) == {id \in JobIds : jobs[id].status = "Pending"}

\* hydrate inserts the pending jobs in the iteration order of a HashMap.
Orderings(ids) ==
    {q \in UNION {[1..n -> ids] : n \in 0..MaxQueue} :
        \A id \in ids : \E i \in DOMAIN q : \A k \in DOMAIN q : q[k] = id <=> k = i}

\* open_journal, then hydrate, then run.  hydrate fails with QueueFull when the
\* pending jobs do not fit the queue, and the service does not start.
open_journal ==
    LET s == open(store)
    IN  /\ ~Up
        /\ store' \in prune_store_terminal(s, "ok")
        /\ retired' = retired \cup Dropped(s.index, store'.index)
        /\ IF Cardinality(PendingIn(store'.index)) <= MaxQueue
           THEN /\ registry' = store'.index
                /\ queue' \in Orderings(PendingIn(store'.index))
                /\ loop' = "top"
           ELSE UNCHANGED <<registry, queue, loop>>
        /\ UNCHANGED <<shutdown, denied, resolving, task, faults, crashes,
                       used, acked, cancelled, receipts, attempt, runs>>

\* The process dies in open, after the damaged journal was renamed to its archive
\* and before the file that replaces it is published.
archive_crash ==
    /\ ~Up
    /\ "archiveCrash" \in Faults
    /\ MustArchive(store)
    /\ crashes < MaxCrashes
    /\ crashes' = crashes + 1
    /\ store' = Snapshot(NoJobs)
    /\ UNCHANGED <<process, faults, history>>

-----------------------------------------------------------------------------

Results == {"success", "error", "timeout"}

Client ==
    \/ \E id \in JobIds, o \in Outcomes :
        \/ submit(id, o)
        \/ cancel_running(id, o)
        \/ \E p \in PruneOutcomes : cancel_pending(id, o, p)
        \/ \E d \in Decisions, p \in PruneOutcomes : resolve_job(id, d, o, p)
    \/ \E id \in JobIds : resolve_again(id)
    \/ request_shutdown
    \/ deny_admission

RunLoop ==
    \/ acquire_permit
    \/ dispatch_idle
    \/ \E i \in DOMAIN queue, o \in Outcomes : dispatch(i, o)
    \/ abort_handles
    \/ \E id \in JobIds, o \in Outcomes : abort_running(id, o)
    \/ abort_done
    \/ drained

JobTask(id) ==
    \/ \E r \in Results, o1 \in Outcomes, o2 \in Outcomes, p \in PruneOutcomes :
        finish_job(id, r, o1, o2, p)
    \/ task_aborted(id)
    \/ requeue_after_backoff(id)
    \/ retry_dropped(id)
    \/ \E o1 \in Outcomes, o2 \in Outcomes, p \in PruneOutcomes :
        requeue_refused(id, o1, o2, p)

Process ==
    \/ \E torn \in BOOLEAN : crash(torn)
    \/ exit
    \/ open_journal
    \/ archive_crash

Next == Client \/ RunLoop \/ (\E id \in JobIds : JobTask(id)) \/ Process

Spec == Init /\ [][Next]_vars

(* Fairness.  The loop polls at least every 100 ms, handlers run under a      *)
(* timeout, aborted tasks are dropped at their next await and retry timers    *)
(* are finite; tokio's mutexes are fair.  Clients, crashes and restarts are   *)
(* not assumed to happen.                                                     *)
FairSpec == Spec /\ WF_vars(RunLoop) /\ \A id \in JobIds : WF_vars(JobTask(id))

-----------------------------------------------------------------------------
(* Properties.                                                               *)

TypeOK ==
    /\ loop \in LoopStates
    /\ shutdown \in BOOLEAN /\ denied \in BOOLEAN
    /\ registry \in JobMaps
    /\ resolving \in SUBSET JobIds
    /\ queue \in Seq(JobIds)
    /\ task \in [JobIds -> TaskStates]
    /\ store \in Store
    /\ faults \in 0..MaxFaults
    /\ crashes \in 0..MaxCrashes
    /\ used \in SUBSET JobIds /\ acked \in SUBSET JobIds
    /\ cancelled \in SUBSET JobIds /\ retired \in SUBSET JobIds
    /\ receipts \in [JobIds -> SUBSET Decisions]
    /\ attempt \in [JobIds -> {"none", "begun", "error", "success"}]
    /\ runs \in [JobIds -> Nat]

\* Nothing is known to forbid running the job's handler: no client was told that
\* the job is cancelled or resolved, and its handler either never started or last
\* returned an error and declares itself safe to repeat.
Startable(id) ==
    /\ id \notin cancelled
    /\ receipts[id] = {}
    /\ attempt[id] = "none" \/ (attempt[id] = "error" /\ id \in ReplaySafe)

\* A handler is started only when that is harmless, whatever failed and however
\* often the process was restarted: never after an attempt that was interrupted,
\* timed out, was cancelled or succeeded, never after an acknowledged
\* cancellation or resolution (run_with_drain dispatching what finish_job,
\* cancel_job, resolve_job and JournalJobStore::open left pending).
NoUncertainReplay ==
    [][\A id \in JobIds :
        task[id] # "executing" /\ task'[id] = "executing" => Startable(id)]_vars

\* A handler is started at most once more than max_retries allows retries, counted
\* over all restarts (finish_job with can_retry and prepare_retry).
RunsBounded == \A id \in JobIds : runs[id] <= MaxRetries + 1

\* A queued job is queued once, is pending and has no task: a retry timer, a failed
\* dispatch, a cancellation and hydrate never put a job in two places.
QueuedIsPending ==
    /\ \A i, k \in DOMAIN queue : queue[i] = queue[k] => i = k
    /\ \A i \in DOMAIN queue : registry[queue[i]].status = "Pending" /\ task[queue[i]] = "none"

\* Outside abort_all_running the registry shows a job as Running exactly while its
\* handler executes under an abort handle, so cancel_job always finds the task.
RunningHasTask ==
    TransitionFree =>
        \A id \in JobIds : registry[id].status = "Running" <=> task[id] = "executing"

\* A pending job of a serving scheduler is queued or waits for its retry: it is
\* never left where neither the run loop nor a timer will pick it up.
PendingIsScheduled ==
    loop \in {"top", "dispatch"} /\ ~shutdown =>
        \A id \in JobIds : registry[id].status = "Pending" =>
            task[id] = "backoff" \/ \E i \in DOMAIN queue : queue[i] = id

\* Registry, queue and tasks agree on every job: each is where the run loop, its
\* timer or cancel_job will find it, and in one place only.
JobsAreAccountedFor == QueuedIsPending /\ RunningHasTask /\ PendingIsScheduled

\* A job whose handler was started and never seen to return is shown as needing
\* reconciliation until an operator resolves it, in this process and after every
\* restart, or was retired.  Since any excess terminal job may be retired, with room
\* for one terminal job a wrong terminal status would be seen before it is dropped.
UncertaintyIsVisible ==
    Up /\ TransitionFree => \A id \in JobIds :
        attempt[id] = "begun" /\ task[id] \in {"none", "backoff"} =>
            \/ registry[id].status \in {"ReconciliationRequired", "Resolved"}
            \/ registry[id] = NoJob /\ id \in retired

\* A job whose submission was acknowledged is in the registry of every later
\* process until retention drops it (submit's put before Ok, then hydrate).
AckedIsKept == Up => \A id \in acked \ retired : registry[id] # NoJob

\* A decision that may be in the journal is never overwritten by another one: after
\* a failed or abandoned append resolve_job refuses further attestations.
DurableReceiptIsFinal ==
    [][\A id \in JobIds :
        LET before == store.disk[id].resolution
            after == store'.disk[id].resolution
        IN  before # "none" /\ after # "none" => before = after]_vars

\* Once shutdown is requested the run loop ends, by draining or by aborting.
ShutdownEnds == (Up /\ shutdown) ~> (loop \in {"stopped", "down"})

\* Every accepted job comes to rest while the scheduler serves: it completes,
\* fails, is cancelled or needs reconciliation.
JobsSettle ==
    \A id \in JobIds :
        registry[id].status \in {"Pending", "Running"} ~>
            \/ registry[id].status \notin {"Pending", "Running"}
            \/ loop \notin {"top", "dispatch"} \/ shutdown
=============================================================================
