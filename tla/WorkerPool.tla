----------------------------- MODULE WorkerPool -----------------------------
(***************************************************************************)
(* The pool of browser workers (crates/worker-pool/src/lib.rs): at most one   *)
(* entry per session, a fair read/write gate per session, and a semaphore     *)
(* that bounds the leases in use.                                             *)
(*                                                                           *)
(* lease takes the gate shared, then a permit, then hands both to a spawned   *)
(* task that fills the entry's once-cell; the guard and the permit come back  *)
(* with the worker.  The clean-ups take the gate exclusively in a task of     *)
(* their own, so that they finish whatever becomes of their caller.  A caller *)
(* is a future: it can be dropped at any of its awaits.                       *)
(*                                                                           *)
(* Identifiers of entries, tasks, clean-ups and workers are reused once       *)
(* nothing refers to them, as an address is.                                  *)
(***************************************************************************)
EXTENDS Naturals, FiniteSets, Sequences

CONSTANTS
    Sessions,       \* session ids
    Calls,          \* callers of the pool
    Tasks,          \* launch tasks that can exist at once
    Cleanups,       \* clean-up tasks that can exist at once
    Entries,        \* Arc<WorkerEntry>s that can exist at once
    Workers,        \* browser workers that can exist at once
    MaxActive,      \* permits of the semaphore
    MaxFaults,      \* bound on crashes, launch deadlines and dropped callers
    None            \* no entry, no worker, no task

ASSUME PoolAssumption ==
    /\ MaxActive \in Nat \ {0}
    /\ MaxFaults \in Nat
    /\ None \notin Sessions \cup Calls \cup Tasks \cup Cleanups \cup Entries \cup Workers
    /\ Calls \cap Tasks = {}
    /\ Calls \cap Cleanups = {}
    /\ Tasks \cap Cleanups = {}

VARIABLES
    entries,    \* PoolInner::entries
    cell,       \* the once-cell of each entry
    queue,      \* who waits for each session's gate, in order of arrival
    call,       \* where each caller is
    task,       \* the launch tasks
    cleanup,    \* the clean-up tasks
    crashed,    \* workers whose browser died
    faults      \* faults so far

poolVars == <<entries, cell, queue, call, task, cleanup, crashed, faults>>

NoCall == [at |-> "out", session |-> None, task |-> None, worker |-> None,
           cleanup |-> None]

NoTask == [at |-> "free", session |-> None, entry |-> None, worker |-> None,
           waiter |-> "nobody"]

NoCleanup == [at |-> "free", session |-> None, target |-> None, worker |-> None,
              awaited |-> FALSE]

\* A caller "failed" has its lease's error in hand; one that is "dead" let go of
\* a lease of a dead worker and knows that worker's id.
CallStates == {"out", "gate", "permit", "launch", "leased", "failed", "dead", "cleanup"}

\* The stages in which a launch task owns the permit and the shared guard.
Holding == {"init", "launching", "terminating", "failed", "ok"}

TaskStates == Holding \cup {"free", "err", "reaping"}

CleanupStates == {"free", "queued", "closing", "done"}

CallRecord ==
    [at : CallStates, session : Sessions \cup {None}, task : Tasks \cup {None},
     worker : Workers \cup {None}, cleanup : Cleanups \cup {None}]

TaskRecord ==
    [at : TaskStates, session : Sessions \cup {None}, entry : Entries \cup {None},
     worker : Workers \cup {None}, waiter : {"caller", "reaper", "nobody"}]

CleanupRecord ==
    [at : CleanupStates, session : Sessions \cup {None}, target : Workers \cup {None},
     worker : Workers \cup {None}, awaited : BOOLEAN]

PoolInit ==
    /\ entries = [s \in Sessions |-> None]
    /\ cell = [e \in Entries |-> None]
    /\ queue = [s \in Sessions |-> <<>>]
    /\ call = [c \in Calls |-> NoCall]
    /\ task = [t \in Tasks |-> NoTask]
    /\ cleanup = [k \in Cleanups |-> NoCleanup]
    /\ crashed = {}
    /\ faults = 0

-----------------------------------------------------------------------------
(* What is held and what is in use.                                          *)

\* Shared holders of a session's gate.
Readers(s) ==
    {c \in Calls : call[c].session = s /\ call[c].at \in {"permit", "leased"}}
    \cup {t \in Tasks : task[t].session = s /\ task[t].at \in Holding}

\* Exclusive holders of a session's gate.
Writers(s) == {k \in Cleanups : cleanup[k].session = s /\ cleanup[k].at = "closing"}

Permits ==
    {c \in Calls : call[c].at = "leased"} \cup {t \in Tasks : task[t].at \in Holding}

\* Entries and workers that some part of the program refers to.  The browser of
\* a worker that nothing refers to is killed with the last handle.
LiveEntries == {entries[s] : s \in Sessions} \cup {task[t].entry : t \in Tasks}

HeldWorkers ==
    {cell[e] : e \in LiveEntries \ {None}}
    \cup {task[t].worker : t \in Tasks}
    \cup {call[c].worker : c \in Calls}
    \cup {cleanup[k].worker : k \in Cleanups}
    \cup {cleanup[k].target : k \in Cleanups}

\* The workers with a browser for session s that has not died.
Browsers(s) ==
    {w \in Workers \ crashed :
        \/ \E e \in Entries : entries[s] = e /\ cell[e] = w
        \/ \E t \in Tasks : /\ task[t].session = s
                            /\ \/ task[t].worker = w
                               \/ \E e \in Entries : task[t].entry = e /\ cell[e] = w
        \/ \E c \in Calls : call[c].session = s /\ call[c].worker = w
        \/ \E k \in Cleanups : cleanup[k].session = s /\ cleanup[k].worker = w}

\* What nothing refers to any more is gone.
Reclaim ==
    /\ cell' = [e \in Entries |-> IF e \in LiveEntries' THEN cell[e] ELSE None]
    /\ crashed' = crashed \cap HeldWorkers'

Freed(set, inUse) == CHOOSE x \in set : x \notin inUse

Fault == faults < MaxFaults /\ faults' = faults + 1

FreeTasks == {t \in Tasks : task[t] = NoTask}

FreeCleanups == {k \in Cleanups : cleanup[k] = NoCleanup}

-----------------------------------------------------------------------------
(* lease: the caller's side.                                                 *)

\* The bound on leases: each one that is under way has a task to come.
TaskRoom ==
    Cardinality(Tasks \ FreeTasks) + Cardinality({c \in Calls : call[c].at \in {"gate", "permit"}})
        < Cardinality(Tasks)

\* The future of a lease starts by queueing for the gate.
Lease(c, s) ==
    /\ call[c].at = "out"
    /\ TaskRoom
    /\ call' = [call EXCEPT ![c] = [NoCall EXCEPT !.at = "gate", !.session = s]]
    /\ queue' = [queue EXCEPT ![s] = Append(@, c)]
    /\ UNCHANGED <<entries, cell, task, cleanup, crashed, faults>>

EnterShared(c) ==
    LET s == call[c].session
    IN  /\ call[c].at = "gate"
        /\ Head(queue[s]) = c
        /\ Writers(s) = {}
        /\ call' = [call EXCEPT ![c].at = "permit"]
        /\ queue' = [queue EXCEPT ![s] = Tail(@)]
        /\ UNCHANGED <<entries, cell, task, cleanup, crashed, faults>>

\* With the permit in hand: the session's entry, or a new one, and the task.
TakePermit(c) ==
    LET s == call[c].session
        e == IF entries[s] = None THEN Freed(Entries, LiveEntries) ELSE entries[s]
        t == CHOOSE t \in FreeTasks : TRUE
    IN  /\ call[c].at = "permit"
        /\ Cardinality(Permits) < MaxActive
        /\ FreeTasks # {}
        /\ entries[s] # None \/ Entries \ LiveEntries # {}
        /\ entries' = [entries EXCEPT ![s] = e]
        /\ task' = [task EXCEPT ![t] = [NoTask EXCEPT !.at = "init", !.session = s,
                                                      !.entry = e, !.waiter = "caller"]]
        /\ call' = [call EXCEPT ![c].at = "launch", ![c].task = t]
        /\ UNCHANGED <<cell, queue, cleanup, crashed, faults>>

\* The task is polled before the deadline is, so a task that ended is joined.
Join(c) ==
    LET t == call[c].task
    IN  /\ call[c].at = "launch"
        /\ task[t].at \in {"ok", "err"}
        /\ call' = [call EXCEPT
                      ![c] = [@ EXCEPT !.at = IF task[t].at = "ok" THEN "leased" ELSE "failed",
                                       !.task = None, !.worker = task[t].worker]]
        /\ task' = [task EXCEPT ![t] = NoTask]
        /\ UNCHANGED <<entries, queue, cleanup, faults>>
        /\ Reclaim

\* lease_launch_timeout: the caller gets its error, the launch goes on with the
\* cancellation flag set, and reap_hung_launch watches it.
LeaseTimesOut(c) ==
    LET t == call[c].task
    IN  /\ call[c].at = "launch"
        /\ task[t].at \notin {"ok", "err"}
        /\ call' = [call EXCEPT ![c].at = "failed", ![c].task = None]
        /\ task' = [task EXCEPT ![t].waiter = "reaper"]
        /\ Fault
        /\ UNCHANGED <<entries, cell, queue, cleanup, crashed>>

\* A lease that failed returns its error; the last clone of a lease is dropped.
Return(c) ==
    /\ call[c].at \in {"failed", "leased"}
    /\ call' = [call EXCEPT ![c] = NoCall]
    /\ UNCHANGED <<entries, queue, task, cleanup, faults>>
    /\ Reclaim

\* The browser under the lease turned out to be dead.
LetGo(c) ==
    /\ call[c].at = "leased"
    /\ call[c].worker \in crashed
    /\ call' = [call EXCEPT ![c].at = "dead"]
    /\ UNCHANGED <<entries, cell, queue, task, cleanup, crashed, faults>>

-----------------------------------------------------------------------------
(* lease: the launch task.                                                   *)

\* get_or_try_init runs one initialiser at a time for each cell.
Initialize(t) ==
    /\ task[t].at = "init"
    /\ cell[task[t].entry] = None
    /\ \A u \in Tasks : task[u].entry = task[t].entry
                            => task[u].at \notin {"launching", "terminating"}
    /\ task' = [task EXCEPT ![t].at = "launching"]
    /\ UNCHANGED <<entries, cell, queue, call, cleanup, crashed, faults>>

FindInitialized(t) ==
    /\ task[t].at = "init"
    /\ cell[task[t].entry] # None
    /\ task' = [task EXCEPT ![t].at = "ok", ![t].worker = cell[task[t].entry]]
    /\ UNCHANGED <<entries, cell, queue, call, cleanup, crashed, faults>>

\* The browser is up.  The flag is read once, after the launch: a worker whose
\* caller is gone by then is terminated, any other fills the cell.
Launched(t) ==
    LET w == Freed(Workers, HeldWorkers)
        cancelled == task[t].waiter # "caller"
    IN  /\ task[t].at = "launching"
        /\ Workers \ HeldWorkers # {}
        /\ task' = [task EXCEPT ![t].at = IF cancelled THEN "terminating" ELSE "ok",
                                ![t].worker = w]
        /\ cell' = [cell EXCEPT ![task[t].entry] = IF cancelled THEN @ ELSE w]
        /\ UNCHANGED <<entries, queue, call, cleanup, crashed, faults>>

LaunchFails(t) ==
    /\ task[t].at = "launching"
    /\ task' = [task EXCEPT ![t].at = "failed"]
    /\ UNCHANGED <<entries, cell, queue, call, cleanup, crashed, faults>>

Terminated(t) ==
    /\ task[t].at = "terminating"
    /\ task' = [task EXCEPT ![t].at = "failed", ![t].worker = None]
    /\ UNCHANGED <<entries, queue, call, cleanup, faults>>
    /\ Reclaim

\* The failed launch takes its own entry out of the map and releases the
\* session in the factory before it lets go of the guard and the permit.
RollBack(t) ==
    LET s == task[t].session
    IN  /\ task[t].at = "failed"
        /\ entries' = [entries EXCEPT ![s] = IF @ = task[t].entry THEN None ELSE @]
        /\ task' = [task EXCEPT ![t].at = "err"]
        /\ UNCHANGED <<queue, call, cleanup, faults>>
        /\ Reclaim

\* What a task nobody waits for, or only the reaper, returns is dropped.
Discard(t) ==
    /\ task[t].at \in {"ok", "err"}
    /\ task[t].waiter # "caller"
    /\ task' = [task EXCEPT ![t] = NoTask]
    /\ UNCHANGED <<entries, queue, call, cleanup, faults>>
    /\ Reclaim

Abort_waits(t) ==
    LET s == task[t].session
    IN  /\ task[t].waiter = "reaper"
        /\ task[t].at = "failed"
        /\ task' = [task EXCEPT ![t].at = "reaping", ![t].worker = None]
        /\ queue' = [queue EXCEPT ![s] = Append(@, t)]
        /\ UNCHANGED <<entries, call, cleanup, faults>>
        /\ Reclaim

\* The reaper's second deadline: the task is aborted wherever it is, which
\* drops the launch, the guard and the permit, and the reaper queues for the
\* gate.
Abort(t) ==
    LET s == task[t].session
    IN  /\ task[t].waiter = "reaper"
        /\ task[t].at \in Holding \ {"ok"}
        /\ task' = [task EXCEPT ![t].at = "reaping", ![t].worker = None]
        /\ queue' = [queue EXCEPT ![s] = Append(@, t)]
        /\ UNCHANGED <<entries, call, cleanup, faults>>
        /\ Reclaim

\* With the gate held exclusively, an entry that is still uninitialised goes.
Scrub(t) ==
    LET s == task[t].session
    IN  /\ task[t].at = "reaping"
        /\ Head(queue[s]) = t
        /\ Readers(s) = {}
        /\ Writers(s) = {}
        /\ entries' = [entries EXCEPT
                         ![s] = IF @ = task[t].entry /\ cell[task[t].entry] = None
                                THEN None ELSE @]
        /\ task' = [task EXCEPT ![t] = NoTask]
        /\ queue' = [queue EXCEPT ![s] = Tail(@)]
        /\ UNCHANGED <<call, cleanup, faults>>
        /\ Reclaim

-----------------------------------------------------------------------------
(* The clean-ups.                                                            *)

\* release_session, invalidate_session and replace_session clean up whatever
\* worker the session has (target None); invalidate_session_if_worker only the
\* worker it names.
StartCleanup(c, s, target) ==
    LET k == CHOOSE k \in FreeCleanups : TRUE
    IN  /\ call[c].at \in {"out", "dead"}
        /\ FreeCleanups # {}
        /\ cleanup' = [cleanup EXCEPT
                         ![k] = [NoCleanup EXCEPT !.at = "queued", !.session = s,
                                                  !.target = target, !.awaited = TRUE]]
        /\ queue' = [queue EXCEPT ![s] = Append(@, k)]
        /\ call' = [call EXCEPT ![c] = [NoCall EXCEPT !.at = "cleanup", !.cleanup = k]]
        /\ UNCHANGED <<entries, cell, task, crashed, faults>>

Ended(k) == IF cleanup[k].awaited THEN [NoCleanup EXCEPT !.at = "done", !.awaited = TRUE]
            ELSE NoCleanup

Matches_any(k) == entries[cleanup[k].session] # None

Matches(k) ==
    LET e == entries[cleanup[k].session]
    IN  /\ e # None
        /\ cleanup[k].target \in {None, cell[e]}

EnterExclusive_early(k) ==
    LET s == cleanup[k].session
    IN  /\ cleanup[k].at = "queued"
        /\ Head(queue[s]) = k
        /\ Writers(s) = {}
        /\ queue' = [queue EXCEPT ![s] = Tail(@)]
        /\ IF Matches(k)
           THEN /\ cleanup' = [cleanup EXCEPT ![k].at = "closing",
                                              ![k].worker = cell[entries[s]]]
                /\ entries' = [entries EXCEPT ![s] = None]
           ELSE /\ cleanup' = [cleanup EXCEPT ![k] = Ended(k)]
                /\ UNCHANGED entries
        /\ UNCHANGED <<call, task, faults>>
        /\ Reclaim

\* The entry leaves the map as soon as the gate is held; a clean-up that names
\* another worker than the entry's has nothing to do.
EnterExclusive(k) ==
    LET s == cleanup[k].session
    IN  /\ cleanup[k].at = "queued"
        /\ Head(queue[s]) = k
        /\ Readers(s) = {}
        /\ Writers(s) = {}
        /\ queue' = [queue EXCEPT ![s] = Tail(@)]
        /\ IF Matches(k)
           THEN /\ cleanup' = [cleanup EXCEPT ![k].at = "closing",
                                              ![k].worker = cell[entries[s]]]
                /\ entries' = [entries EXCEPT ![s] = None]
           ELSE /\ cleanup' = [cleanup EXCEPT ![k] = Ended(k)]
                /\ UNCHANGED entries
        /\ UNCHANGED <<call, task, faults>>
        /\ Reclaim

\* The worker was closed or terminated and the factory released the session.
Closed(k) ==
    /\ cleanup[k].at = "closing"
    /\ cleanup' = [cleanup EXCEPT ![k] = Ended(k)]
    /\ UNCHANGED <<entries, queue, call, task, faults>>
    /\ Reclaim

CleanupReturns(c) ==
    /\ call[c].at = "cleanup"
    /\ cleanup[call[c].cleanup].at = "done"
    /\ cleanup' = [cleanup EXCEPT ![call[c].cleanup] = NoCleanup]
    /\ call' = [call EXCEPT ![c] = NoCall]
    /\ UNCHANGED <<entries, cell, queue, task, crashed, faults>>

-----------------------------------------------------------------------------
(* Faults.                                                                   *)

\* The caller's future is dropped at one of its awaits: its place in the queue,
\* its guard, its permit or its lease go with it, and so does the armed
\* cancellation of a launch, but spawned tasks go on.
Drop(c) ==
    /\ call[c].at # "out"
    /\ call' = [call EXCEPT ![c] = NoCall]
    /\ queue' = IF call[c].at = "gate"
                THEN [queue EXCEPT ![call[c].session] = SelectSeq(@, LAMBDA x : x # c)]
                ELSE queue
    /\ task' = [t \in Tasks |->
                  IF t = call[c].task THEN [task[t] EXCEPT !.waiter = "nobody"] ELSE task[t]]
    /\ cleanup' = [k \in Cleanups |->
                     IF k # call[c].cleanup THEN cleanup[k]
                     ELSE IF cleanup[k].at = "done" THEN NoCleanup
                     ELSE [cleanup[k] EXCEPT !.awaited = FALSE]]
    /\ UNCHANGED entries
    /\ Reclaim

\* A browser dies under a worker the pool still has.
Crash(w) ==
    /\ w \in HeldWorkers \ (crashed \cup {None})
    /\ Fault
    /\ crashed' = crashed \cup {w}
    /\ UNCHANGED <<entries, cell, queue, call, task, cleanup>>

-----------------------------------------------------------------------------
(* The pool with callers that use it in every order its interface allows.     *)

release_session(c, s) == call[c].at = "out" /\ StartCleanup(c, s, None)

invalidate_session_if_worker(c) ==
    call[c].at = "dead" /\ StartCleanup(c, call[c].session, call[c].worker)

PoolStep ==
    \/ \E c \in Calls : EnterShared(c) \/ TakePermit(c) \/ Join(c) \/ LeaseTimesOut(c)
    \/ \E t \in Tasks : \/ Initialize(t) \/ FindInitialized(t) \/ Launched(t)
                        \/ LaunchFails(t) \/ Terminated(t) \/ RollBack(t)
                        \/ Discard(t) \/ Abort(t) \/ Scrub(t)
    \/ \E k \in Cleanups : EnterExclusive(k) \/ Closed(k)
    \/ \E w \in Workers : Crash(w)

CallerStep ==
    \E c \in Calls :
        \/ \E s \in Sessions : Lease(c, s) \/ release_session(c, s)
        \/ Return(c)
        \/ LetGo(c)
        \/ invalidate_session_if_worker(c)
        \/ CleanupReturns(c)
        \/ Fault /\ Drop(c)

PoolNext == PoolStep \/ CallerStep

PoolSpec == PoolInit /\ [][PoolNext]_poolVars

\* The runtime polls every future that can go on.  The permits are granted in
\* order, so a caller that keeps waiting for one gets it.  A launch that its
\* caller's deadline has given up on may hang for ever; any other one ends, if
\* only because the factory has deadlines of its own.
LaunchEnds(t) == task[t].waiter # "reaper" /\ (Launched(t) \/ LaunchFails(t))

\* At most one of these is enabled at a time, by the stage the caller, the task
\* or the clean-up is at.
CallGoesOn(c) == EnterShared(c) \/ Join(c)

TaskGoesOn(t) ==
    \/ Initialize(t) \/ FindInitialized(t) \/ LaunchEnds(t) \/ Terminated(t)
    \/ RollBack(t) \/ Discard(t) \/ Scrub(t)

CleanupGoesOn(k) == EnterExclusive(k) \/ Closed(k)

\* Commands run under a deadline, so leases are returned.
CallerGoesOn(c) == CallGoesOn(c) \/ Return(c) \/ CleanupReturns(c)

PoolFairness ==
    /\ \A c \in Calls : WF_poolVars(CallerGoesOn(c)) /\ SF_poolVars(TakePermit(c))
    /\ \A t \in Tasks : WF_poolVars(TaskGoesOn(t)) /\ WF_poolVars(Abort(t))
    /\ \A k \in Cleanups : WF_poolVars(CleanupGoesOn(k))

FairPoolSpec == PoolSpec /\ PoolFairness

-----------------------------------------------------------------------------
(* Properties.                                                               *)

\* The types of the pool's state; a launch task that expects to be joined has
\* its caller, and a caller that joins has its task.
PoolTypeOK ==
    /\ entries \in [Sessions -> Entries \cup {None}]
    /\ cell \in [Entries -> Workers \cup {None}]
    /\ queue \in [Sessions -> Seq(Calls \cup Tasks \cup Cleanups)]
    /\ call \in [Calls -> CallRecord]
    /\ task \in [Tasks -> TaskRecord]
    /\ cleanup \in [Cleanups -> CleanupRecord]
    /\ crashed \subseteq Workers
    /\ faults \in 0..MaxFaults
    /\ \A c \in Calls : call[c].at = "launch"
                          <=> \E t \in Tasks : call[c].task = t /\ task[t].waiter = "caller"
    /\ \A t \in Tasks : task[t].waiter = "caller" => \E c \in Calls : call[c].task = t

\* A worker is not closed or terminated under a lease: a clean-up waits for the
\* last lease of the session and keeps new ones out (lib.rs, the session gate).
LeasedWorkerStaysOpen ==
    \A c \in Calls, k \in Cleanups :
        call[c].at = "leased" /\ cleanup[k].at = "closing"
            => call[c].worker # cleanup[k].worker

\* A recovery that arrives late leaves the healthy replacement alone: a worker
\* whose browser is alive is closed only when the session is released
\* (lib.rs, invalidate_session_if_worker).
HealthyWorkerIsKept ==
    [][\A k \in Cleanups :
          cleanup[k].at = "queued" /\ cleanup'[k].at = "closing"
              => cleanup[k].target = None \/ cleanup'[k].worker \in crashed]_poolVars

\* Every lease is answered, whoever is dropped, launches, hangs or cleans up
\* meanwhile: gate, permit and launch never wait for each other (lib.rs, the
\* lock order session gate -> lease permit -> entries).
LeaseIsAnswered ==
    \A c \in Calls :
        call[c].at \in {"gate", "permit", "launch"}
            ~> call[c].at \notin {"gate", "permit", "launch"}

\* Every clean-up ends: the readers in front of it go, and the launch of a
\* dropped caller does not keep the gate.
CleanupEnds ==
    \A k \in Cleanups : cleanup[k].at \in {"queued", "closing"}
                            ~> cleanup[k].at \notin {"queued", "closing"}

\* Two commands that lease one session never have two browsers on one profile
\* directory (selection.rs, PreferenceWorkerFactory::launching).
OneBrowserPerSession == \A s \in Sessions : Cardinality(Browsers(s)) <= 1

=============================================================================
