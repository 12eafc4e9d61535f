-------------------------- MODULE WorkerPoolProofs --------------------------
(***************************************************************************)
(* Why no worker is closed under a lease, and no healthy one by a late        *)
(* recovery.  The gate keeps a clean-up and the leases of one session apart;  *)
(* that they never meet on one worker needs, besides, that the entries and    *)
(* workers of different sessions are different, whatever is handed from the   *)
(* map to a task, from a task to its caller and from the map to a clean-up.   *)
(***************************************************************************)
EXTENDS WorkerPool, TLAPS

PoolTypes ==
    /\ entries \in [Sessions -> Entries \cup {None}]
    /\ cell \in [Entries -> Workers \cup {None}]
    /\ call \in [Calls -> CallRecord]
    /\ task \in [Tasks -> TaskRecord]
    /\ cleanup \in [Cleanups -> CleanupRecord]
    /\ crashed \subseteq Workers

\* A caller has a session while it is in the pool, a worker while it has a lease,
\* and a task, which waits for it, exactly while it waits for a launch.
CallInOrder(c) ==
    /\ call[c].at \in {"gate", "permit", "launch", "leased", "dead"}
          => call[c].session \in Sessions
    /\ call[c].at = "leased" => call[c].worker \in Workers
    /\ call[c].at = "dead" => call[c].worker \in crashed
    /\ call[c].at # "launch" => call[c].task = None
    /\ call[c].at = "launch" => /\ call[c].task \in Tasks
                                /\ task[call[c].task].waiter = "caller"
                                /\ task[call[c].task].session = call[c].session

OneCaller ==
    \A c, d \in Calls : call[c].task = call[d].task /\ call[c].task # None => c = d

TaskInOrder(t) ==
    /\ task[t].at = "free" => task[t] = NoTask
    /\ task[t].at # "free" => task[t].session \in Sessions /\ task[t].entry \in Entries
    /\ task[t].at = "ok" => task[t].worker \in Workers
    /\ task[t].at = "reaping" => task[t].waiter # "caller"

CleanupInOrder(k) ==
    /\ cleanup[k].at \in {"queued", "closing"} => cleanup[k].session \in Sessions
    /\ cleanup[k].target # None => cleanup[k].target \in crashed

PoolStages ==
    /\ \A c \in Calls : CallInOrder(c)
    /\ OneCaller
    /\ \A t \in Tasks : TaskInOrder(t)
    /\ \A k \in Cleanups : CleanupInOrder(k)

\* The gate: whoever closes a session's worker is alone.
GateHolds ==
    \A k \in Cleanups : cleanup[k].at = "closing" =>
        /\ \A c \in Calls : call[c].at \in {"permit", "leased"}
                                => call[c].session # cleanup[k].session
        /\ \A t \in Tasks : task[t].at \in Holding
                                => task[t].session # cleanup[k].session

\* Session s has entry e, has worker w.
HasEntry(s, e) ==
    entries[s] = e \/ \E t \in Tasks : task[t].session = s /\ task[t].entry = e

HasWorker(s, w) ==
    \/ \E e \in Entries : HasEntry(s, e) /\ cell[e] = w
    \/ \E t \in Tasks : task[t].session = s /\ task[t].worker = w
    \/ \E c \in Calls : call[c].session = s /\ call[c].worker = w
    \/ \E k \in Cleanups : cleanup[k].session = s /\ cleanup[k].worker = w

\* Nothing belongs to two sessions, and an entry that is gone is empty.
Apart ==
    /\ \A e \in Entries : \A r, s \in Sessions : HasEntry(r, e) /\ HasEntry(s, e) => r = s
    /\ \A w \in Workers : \A r, s \in Sessions : HasWorker(r, w) /\ HasWorker(s, w) => r = s
    /\ \A e \in Entries : e \notin LiveEntries => cell[e] = None

PoolInv == PoolTypes /\ PoolStages /\ GateHolds /\ Apart

\* The invariant is strong enough.
LEMMA PoolInvImplies == PoolInv => LeasedWorkerStaysOpen
<1> SUFFICES ASSUME PoolInv, NEW c \in Calls, NEW k \in Cleanups,
                    call[c].at = "leased", cleanup[k].at = "closing",
                    call[c].worker = cleanup[k].worker
             PROVE  FALSE
  BY DEF LeasedWorkerStaysOpen
<1>1. call[c].worker \in Workers /\ call[c].session \in Sessions /\ cleanup[k].session \in Sessions
  BY DEF PoolInv, PoolStages, CallInOrder, CleanupInOrder
<1>2. HasWorker(call[c].session, call[c].worker) /\ HasWorker(cleanup[k].session, call[c].worker)
  BY DEF HasWorker
<1>3. call[c].session = cleanup[k].session
  BY <1>1, <1>2 DEF PoolInv, Apart
<1> QED
  BY <1>3 DEF PoolInv, GateHolds

\* An empty pool satisfies it.
LEMMA InitPool == PoolInit => PoolInv
<1> SUFFICES ASSUME PoolInit PROVE PoolInv
  OBVIOUS
<1> USE PoolAssumption DEF PoolInit, NoCall, NoTask, NoCleanup
<1>1. PoolTypes
  BY DEF PoolTypes, CallRecord, TaskRecord, CleanupRecord, CallStates, TaskStates,
         CleanupStates
<1>2. PoolStages
  BY DEF PoolStages, CallInOrder, OneCaller, TaskInOrder, CleanupInOrder
<1>3. GateHolds
  BY DEF GateHolds
<1>4. Apart
  BY DEF Apart, HasEntry, HasWorker, LiveEntries
<1> QED
  BY <1>1, <1>2, <1>3, <1>4 DEF PoolInv

\* Nothing comes to belong to a session that did not belong to it.
EntriesShrink == \A s \in Sessions, e \in Entries : HasEntry(s, e)' => HasEntry(s, e)

WorkersShrink == \A s \in Sessions, w \in Workers : HasWorker(s, w)' => HasWorker(s, w)

GoneIsEmpty == \A e \in Entries : e \notin LiveEntries => cell[e] = None

\* A step that gives no session anything keeps the sessions apart.
LEMMA ApartKept ==
    ASSUME Apart, EntriesShrink, WorkersShrink, GoneIsEmpty'
    PROVE  Apart'
  BY DEF Apart, EntriesShrink, WorkersShrink, GoneIsEmpty


\* What reclaiming leaves: the deaths of workers somebody still refers to, and
\* the contents of entries that are not gone.
Cleared ==
    /\ crashed' \subseteq Workers
    /\ crashed' \subseteq crashed
    /\ \A c \in Calls : call'[c].worker \in crashed => call'[c].worker \in crashed'
    /\ \A k \in Cleanups : cleanup'[k].target \in crashed => cleanup'[k].target \in crashed'
    /\ cell' \in [Entries -> Workers \cup {None}]
    /\ \A e \in Entries : cell'[e] \in {cell[e], None}
    /\ GoneIsEmpty'

\* Reclaiming is no more than that.
LEMMA Reclaimed == PoolTypes /\ Reclaim => Cleared
<1> SUFFICES ASSUME PoolTypes, Reclaim PROVE Cleared
  OBVIOUS
<1>1. crashed' \subseteq Workers /\ crashed' \subseteq crashed
  BY DEF PoolTypes, Reclaim
<1>2. \A c \in Calls : call'[c].worker \in crashed => call'[c].worker \in crashed'
  BY DEF Reclaim, HeldWorkers
<1>3. \A k \in Cleanups : cleanup'[k].target \in crashed => cleanup'[k].target \in crashed'
  BY DEF Reclaim, HeldWorkers
<1>4. /\ cell' \in [Entries -> Workers \cup {None}]
      /\ \A e \in Entries : cell'[e] \in {cell[e], None}
      /\ GoneIsEmpty'
  BY DEF PoolTypes, Reclaim, GoneIsEmpty
<1> QED
  BY <1>1, <1>2, <1>3, <1>4 DEF Cleared

\* A step that hands no worker on gives no session one.
KeepsWorkers ==
    /\ \A t \in Tasks : task'[t].worker \in Workers
           => task'[t].session = task[t].session /\ task'[t].worker = task[t].worker
    /\ \A c \in Calls : call'[c].worker \in Workers
           => call'[c].session = call[c].session /\ call'[c].worker = call[c].worker
    /\ \A k \in Cleanups : cleanup'[k].worker \in Workers
           => cleanup'[k].session = cleanup[k].session /\ cleanup'[k].worker = cleanup[k].worker

\* Such a step keeps what the sessions have.
LEMMA WorkersKept ==
    ASSUME EntriesShrink, KeepsWorkers, None \notin Workers,
           \A e \in Entries : cell'[e] \in {cell[e], None}
    PROVE  WorkersShrink
<1> SUFFICES ASSUME NEW s \in Sessions, NEW w \in Workers, HasWorker(s, w)'
             PROVE  HasWorker(s, w)
  BY DEF WorkersShrink
<1>1. CASE \E e \in Entries : HasEntry(s, e)' /\ cell'[e] = w
  BY <1>1 DEF EntriesShrink, HasWorker
<1>2. CASE \E t \in Tasks : task'[t].session = s /\ task'[t].worker = w
  BY <1>2 DEF KeepsWorkers, HasWorker
<1>3. CASE \E c \in Calls : call'[c].session = s /\ call'[c].worker = w
  BY <1>3 DEF KeepsWorkers, HasWorker
<1>4. CASE \E k \in Cleanups : cleanup'[k].session = s /\ cleanup'[k].worker = w
  BY <1>4 DEF KeepsWorkers, HasWorker
<1> QED
  BY <1>1, <1>2, <1>3, <1>4 DEF HasWorker

\* A caller that queues for the gate holds nothing yet.
LEMMA PoolLease ==
    ASSUME PoolInv, NEW c \in Calls, NEW s \in Sessions, Lease(c, s)
    PROVE  PoolInv'
<1> USE PoolAssumption DEF Lease, NoCall, PoolInv
<1>1. PoolTypes'
  BY Zenon DEF PoolTypes, CallRecord, TaskRecord, CleanupRecord, CallStates, TaskStates,
         CleanupStates, Holding
<1>2. PoolStages'
  BY DEF PoolTypes, CallRecord, TaskRecord, CleanupRecord, PoolStages, CallInOrder,
         OneCaller, TaskInOrder, CleanupInOrder, HeldWorkers
<1>3. GateHolds'
  BY DEF PoolTypes, CallRecord, TaskRecord, CleanupRecord, PoolStages, CallInOrder,
         TaskInOrder, CleanupInOrder, GateHolds, Readers, Writers, Holding
<1>4. EntriesShrink
  BY DEF PoolTypes, TaskRecord, PoolStages, TaskInOrder, EntriesShrink, HasEntry
<1>5. WorkersShrink
  BY <1>4 DEF PoolTypes, CallRecord, TaskRecord, CleanupRecord, PoolStages, CallInOrder,
              TaskInOrder, EntriesShrink, WorkersShrink, HasWorker
<1>6. GoneIsEmpty'
  BY DEF Apart, GoneIsEmpty, LiveEntries, PoolTypes, TaskRecord
<1> QED
  BY <1>1, <1>2, <1>3, <1>4, <1>5, <1>6, ApartKept

\* A caller enters the gate when nobody closes the session's worker.
LEMMA PoolEnterShared ==
    ASSUME PoolInv, NEW c \in Calls, EnterShared(c)
    PROVE  PoolInv'
<1> USE PoolAssumption DEF EnterShared, PoolInv
<1>1. PoolTypes'
  <2>1. call' \in [Calls -> CallRecord]
    <3>1. call[c] \in CallRecord /\ "permit" \in CallStates
      BY DEF PoolTypes, CallStates
    <3>2. [call[c] EXCEPT !.at = "permit"] \in CallRecord
      BY <3>1 DEF CallRecord
    <3> QED
      BY <3>2 DEF PoolTypes
  <2> QED
    BY <2>1 DEF PoolTypes
<1>2. PoolStages'
  BY DEF PoolTypes, CallRecord, TaskRecord, CleanupRecord, PoolStages, CallInOrder,
         OneCaller, TaskInOrder, CleanupInOrder, HeldWorkers
<1>3. GateHolds'
  BY DEF PoolTypes, CallRecord, TaskRecord, CleanupRecord, PoolStages, CallInOrder,
         TaskInOrder, CleanupInOrder, GateHolds, Readers, Writers, Holding
<1>4. EntriesShrink
  BY DEF PoolTypes, TaskRecord, PoolStages, TaskInOrder, EntriesShrink, HasEntry
<1>5. WorkersShrink
  BY <1>4 DEF PoolTypes, CallRecord, TaskRecord, CleanupRecord, PoolStages, CallInOrder,
              TaskInOrder, EntriesShrink, WorkersShrink, HasWorker
<1>6. GoneIsEmpty'
  BY DEF Apart, GoneIsEmpty, LiveEntries, PoolTypes, TaskRecord
<1> QED
  BY <1>1, <1>2, <1>3, <1>4, <1>5, <1>6, ApartKept

\* A caller that gives up leaves its task to the reaper.
LEMMA PoolLeaseTimesOut ==
    ASSUME PoolInv, NEW c \in Calls, LeaseTimesOut(c)
    PROVE  PoolInv'
<1> USE PoolAssumption DEF LeaseTimesOut, NoTask, PoolInv
<1>1. PoolTypes'
  <2>1. call' \in [Calls -> CallRecord]
    <3>1. call[c] \in CallRecord /\ "failed" \in CallStates
      BY DEF PoolTypes, CallStates
    <3>2. [call[c] EXCEPT !.at = "failed", !.task = None] \in CallRecord
      BY <3>1, Zenon DEF CallRecord
    <3> QED
      BY <3>2 DEF PoolTypes
  <2>2. task' \in [Tasks -> TaskRecord]
    <3>1. \A u \in Tasks : [task[u] EXCEPT !.waiter = "reaper"] \in TaskRecord
      BY DEF PoolTypes, TaskRecord
    <3> QED
      BY <3>1, Zenon DEF PoolTypes
  <2> QED
    BY <2>1, <2>2 DEF PoolTypes
<1>2. PoolStages'
  <2>1. \A d \in Calls : CallInOrder(d)'
    BY DEF PoolTypes, CallRecord, TaskRecord, PoolStages, CallInOrder, OneCaller,
           TaskInOrder, HeldWorkers
  <2>2. OneCaller'
    BY DEF PoolTypes, CallRecord, PoolStages, OneCaller
  <2>3. \A u \in Tasks : TaskInOrder(u)'
    BY DEF PoolTypes, CallRecord, TaskRecord, PoolStages, CallInOrder, OneCaller, TaskInOrder
  <2>4. \A l \in Cleanups : CleanupInOrder(l)'
    BY DEF PoolTypes, CleanupRecord, PoolStages, CleanupInOrder, HeldWorkers
  <2> QED
    BY <2>1, <2>2, <2>3, <2>4 DEF PoolStages
<1>3. GateHolds'
  BY DEF PoolTypes, CallRecord, TaskRecord, CleanupRecord, PoolStages, CallInOrder,
         TaskInOrder, CleanupInOrder, GateHolds, Readers, Writers, Holding
<1>4. EntriesShrink
  BY DEF PoolTypes, TaskRecord, PoolStages, TaskInOrder, EntriesShrink, HasEntry
<1>5. WorkersShrink
  BY <1>4 DEF PoolTypes, CallRecord, TaskRecord, CleanupRecord, PoolStages, CallInOrder,
              TaskInOrder, EntriesShrink, WorkersShrink, HasWorker
<1>6. GoneIsEmpty'
  BY DEF Apart, GoneIsEmpty, LiveEntries, PoolTypes, TaskRecord
<1> QED
  BY <1>1, <1>2, <1>3, <1>4, <1>5, <1>6, ApartKept

\* A caller lets go of a lease of a dead worker and keeps its name.
LEMMA PoolLetGo ==
    ASSUME PoolInv, NEW c \in Calls, LetGo(c)
    PROVE  PoolInv'
<1> USE PoolAssumption DEF LetGo, PoolInv
<1>1. PoolTypes'
  <2>1. call' \in [Calls -> CallRecord]
    <3>1. [call[c] EXCEPT !.at = "dead"] \in CallRecord
      BY DEF PoolTypes, CallRecord, CallStates
    <3> QED
      BY <3>1 DEF PoolTypes
  <2> QED
    BY <2>1 DEF PoolTypes
<1>2. PoolStages'
  BY DEF PoolTypes, CallRecord, TaskRecord, CleanupRecord, PoolStages, CallInOrder,
         OneCaller, TaskInOrder, CleanupInOrder, HeldWorkers
<1>3. GateHolds'
  BY DEF PoolTypes, CallRecord, TaskRecord, CleanupRecord, PoolStages, CallInOrder,
         TaskInOrder, CleanupInOrder, GateHolds, Readers, Writers, Holding
<1>4. EntriesShrink
  BY DEF PoolTypes, TaskRecord, PoolStages, TaskInOrder, EntriesShrink, HasEntry
<1>5. WorkersShrink
  BY <1>4 DEF PoolTypes, CallRecord, TaskRecord, CleanupRecord, PoolStages, CallInOrder,
              TaskInOrder, EntriesShrink, WorkersShrink, HasWorker
<1>6. GoneIsEmpty'
  BY DEF Apart, GoneIsEmpty, LiveEntries, PoolTypes, TaskRecord
<1> QED
  BY <1>1, <1>2, <1>3, <1>4, <1>5, <1>6, ApartKept

\* A task that starts to launch changes no owner.
LEMMA PoolInitialize ==
    ASSUME PoolInv, NEW t \in Tasks, Initialize(t)
    PROVE  PoolInv'
<1> USE PoolAssumption DEF Initialize, NoTask, PoolInv
<1>1. PoolTypes'
  <2>1. task' \in [Tasks -> TaskRecord]
    BY DEF PoolTypes, TaskRecord, TaskStates, Holding
  <2> QED
    BY <2>1 DEF PoolTypes
<1>2. PoolStages'
  BY DEF PoolTypes, CallRecord, TaskRecord, CleanupRecord, PoolStages, CallInOrder,
         OneCaller, TaskInOrder, CleanupInOrder, HeldWorkers
<1>3. GateHolds'
  BY DEF PoolTypes, CallRecord, TaskRecord, CleanupRecord, PoolStages, CallInOrder,
         TaskInOrder, CleanupInOrder, GateHolds, Readers, Writers, Holding
<1>4. EntriesShrink
  BY DEF PoolTypes, TaskRecord, PoolStages, TaskInOrder, EntriesShrink, HasEntry
<1>5. WorkersShrink
  BY <1>4 DEF PoolTypes, CallRecord, TaskRecord, CleanupRecord, PoolStages, CallInOrder,
              TaskInOrder, EntriesShrink, WorkersShrink, HasWorker
<1>6. GoneIsEmpty'
  BY DEF Apart, GoneIsEmpty, LiveEntries, PoolTypes, TaskRecord
<1> QED
  BY <1>1, <1>2, <1>3, <1>4, <1>5, <1>6, ApartKept

\* A task takes the worker of its own session's entry.
LEMMA PoolFindInitialized ==
    ASSUME PoolInv, NEW t \in Tasks, FindInitialized(t)
    PROVE  PoolInv'
<1> USE PoolAssumption DEF FindInitialized, NoTask, PoolInv
<1>1. PoolTypes'
  <2>1. task' \in [Tasks -> TaskRecord]
    <3>1. cell[task[t].entry] \in Workers
      BY DEF PoolTypes, PoolStages, TaskInOrder
    <3>2. task[t] \in TaskRecord /\ "ok" \in TaskStates
      BY DEF PoolTypes, TaskStates, Holding
    <3>3. \A w \in Workers : [task[t] EXCEPT !.at = "ok", !.worker = w] \in TaskRecord
      BY <3>2, Zenon DEF TaskRecord
    <3> QED
      BY <3>1, <3>3, Zenon DEF PoolTypes
  <2> QED
    BY <2>1 DEF PoolTypes
<1>2. PoolStages'
  BY DEF PoolTypes, CallRecord, TaskRecord, CleanupRecord, PoolStages, CallInOrder,
         OneCaller, TaskInOrder, CleanupInOrder, HeldWorkers
<1>3. GateHolds'
  BY DEF PoolTypes, CallRecord, TaskRecord, CleanupRecord, PoolStages, CallInOrder,
         TaskInOrder, CleanupInOrder, GateHolds, Readers, Writers, Holding
<1>4. EntriesShrink
  BY DEF PoolTypes, TaskRecord, PoolStages, TaskInOrder, EntriesShrink, HasEntry
<1>5. WorkersShrink
  BY <1>4 DEF PoolTypes, CallRecord, TaskRecord, CleanupRecord, PoolStages, CallInOrder,
              TaskInOrder, EntriesShrink, WorkersShrink, HasWorker
<1>6. GoneIsEmpty'
  <2>1. \A u \in Tasks : task'[u].entry = task[u].entry
    BY DEF PoolTypes, TaskRecord
  <2>2. LiveEntries' = LiveEntries
    BY <2>1, Zenon DEF LiveEntries
  <2> QED
    BY <2>2 DEF Apart, GoneIsEmpty
<1> QED
  BY <1>1, <1>2, <1>3, <1>4, <1>5, <1>6, ApartKept

\* A launch that fails brings no worker.
LEMMA PoolLaunchFails ==
    ASSUME PoolInv, NEW t \in Tasks, LaunchFails(t)
    PROVE  PoolInv'
<1> USE PoolAssumption DEF LaunchFails, NoTask, PoolInv
<1>1. PoolTypes'
  <2>1. task' \in [Tasks -> TaskRecord]
    BY DEF PoolTypes, TaskRecord, TaskStates, Holding
  <2> QED
    BY <2>1 DEF PoolTypes
<1>2. PoolStages'
  BY DEF PoolTypes, CallRecord, TaskRecord, CleanupRecord, PoolStages, CallInOrder,
         OneCaller, TaskInOrder, CleanupInOrder, HeldWorkers
<1>3. GateHolds'
  BY DEF PoolTypes, CallRecord, TaskRecord, CleanupRecord, PoolStages, CallInOrder,
         TaskInOrder, CleanupInOrder, GateHolds, Readers, Writers, Holding
<1>4. EntriesShrink
  BY DEF PoolTypes, TaskRecord, PoolStages, TaskInOrder, EntriesShrink, HasEntry
<1>5. WorkersShrink
  BY <1>4 DEF PoolTypes, CallRecord, TaskRecord, CleanupRecord, PoolStages, CallInOrder,
              TaskInOrder, EntriesShrink, WorkersShrink, HasWorker
<1>6. GoneIsEmpty'
  BY DEF Apart, GoneIsEmpty, LiveEntries, PoolTypes, TaskRecord
<1> QED
  BY <1>1, <1>2, <1>3, <1>4, <1>5, <1>6, ApartKept

\* A browser that dies changes no owner.
LEMMA PoolCrash ==
    ASSUME PoolInv, NEW w \in Workers, Crash(w)
    PROVE  PoolInv'
<1> USE PoolAssumption DEF Crash, PoolInv
<1>1. PoolTypes'
  BY DEF PoolTypes, CallRecord, TaskRecord, CleanupRecord, CallStates, TaskStates,
         CleanupStates, Holding
<1>2. PoolStages'
  BY DEF PoolTypes, CallRecord, TaskRecord, CleanupRecord, PoolStages, CallInOrder,
         OneCaller, TaskInOrder, CleanupInOrder, HeldWorkers
<1>3. GateHolds'
  BY DEF PoolTypes, CallRecord, TaskRecord, CleanupRecord, PoolStages, CallInOrder,
         TaskInOrder, CleanupInOrder, GateHolds, Readers, Writers, Holding
<1>4. EntriesShrink
  BY DEF PoolTypes, TaskRecord, PoolStages, TaskInOrder, EntriesShrink, HasEntry
<1>5. WorkersShrink
  BY <1>4 DEF PoolTypes, CallRecord, TaskRecord, CleanupRecord, PoolStages, CallInOrder,
              TaskInOrder, EntriesShrink, WorkersShrink, HasWorker
<1>6. GoneIsEmpty'
  BY DEF Apart, GoneIsEmpty, LiveEntries, PoolTypes, TaskRecord
<1> QED
  BY <1>1, <1>2, <1>3, <1>4, <1>5, <1>6, ApartKept

\* A caller learns that its clean-up ended.
LEMMA PoolCleanupReturns ==
    ASSUME PoolInv, NEW c \in Calls, CleanupReturns(c)
    PROVE  PoolInv'
<1> USE PoolAssumption DEF CleanupReturns, NoCall, NoCleanup, PoolInv
<1>1. PoolTypes'
  BY Zenon DEF PoolTypes, CallRecord, TaskRecord, CleanupRecord, CallStates, TaskStates,
         CleanupStates, Holding
<1>2. PoolStages'
  BY DEF PoolTypes, CallRecord, TaskRecord, CleanupRecord, PoolStages, CallInOrder,
         OneCaller, TaskInOrder, CleanupInOrder, HeldWorkers
<1>3. GateHolds'
  BY DEF PoolTypes, CallRecord, TaskRecord, CleanupRecord, PoolStages, CallInOrder,
         TaskInOrder, CleanupInOrder, GateHolds, Readers, Writers, Holding
<1>4. EntriesShrink
  BY DEF PoolTypes, TaskRecord, PoolStages, TaskInOrder, EntriesShrink, HasEntry
<1>5. WorkersShrink
  BY <1>4 DEF PoolTypes, CallRecord, TaskRecord, CleanupRecord, PoolStages, CallInOrder,
              TaskInOrder, EntriesShrink, WorkersShrink, HasWorker
<1>6. GoneIsEmpty'
  BY DEF Apart, GoneIsEmpty, LiveEntries, PoolTypes, TaskRecord
<1> QED
  BY <1>1, <1>2, <1>3, <1>4, <1>5, <1>6, ApartKept

\* The worker goes from the task to the caller of the same session, and the guard with it.
LEMMA PoolJoin ==
    ASSUME PoolInv, NEW c \in Calls, Join(c)
    PROVE  PoolInv'
<1> USE PoolAssumption DEF Join, NoTask, PoolInv
<1>0. Cleared
  BY Reclaimed
<1>1. PoolTypes'
  <2>1. entries' \in [Sessions -> Entries \cup {None}]
    BY DEF PoolTypes
  <2>2. call' \in [Calls -> CallRecord]
    <3>1. task[call[c].task].worker \in Workers \cup {None}
      BY DEF PoolTypes, TaskRecord, PoolStages, CallInOrder
    <3>2. call[c] \in CallRecord /\ {"leased", "failed"} \subseteq CallStates
      BY DEF PoolTypes, CallStates
    <3>3. \A a \in CallStates, w \in Workers \cup {None} :
             [call[c] EXCEPT !.at = a, !.task = None, !.worker = w] \in CallRecord
      BY <3>2, Zenon DEF CallRecord
    <3> QED
      BY <3>1, <3>2, <3>3, Zenon DEF PoolTypes
  <2>3. task' \in [Tasks -> TaskRecord]
    BY Zenon DEF PoolTypes, TaskRecord, TaskStates, Holding
  <2> QED
    BY <1>0, <2>1, <2>2, <2>3 DEF Cleared, PoolTypes
<1>2. PoolStages'
  <2>1. \A d \in Calls : CallInOrder(d)'
    BY <1>0 DEF Cleared, PoolTypes, CallRecord, TaskRecord, PoolStages, CallInOrder, OneCaller,
                TaskInOrder
  <2>2. OneCaller'
    BY DEF PoolTypes, CallRecord, PoolStages, OneCaller
  <2>3. \A u \in Tasks : TaskInOrder(u)'
    BY DEF PoolTypes, CallRecord, TaskRecord, PoolStages, CallInOrder, OneCaller, TaskInOrder
  <2>4. \A l \in Cleanups : CleanupInOrder(l)'
    BY <1>0 DEF Cleared, PoolTypes, CleanupRecord, PoolStages, CleanupInOrder
  <2> QED
    BY <2>1, <2>2, <2>3, <2>4 DEF PoolStages
<1>3. GateHolds'
  BY DEF PoolTypes, CallRecord, TaskRecord, CleanupRecord, PoolStages, CallInOrder,
         TaskInOrder, CleanupInOrder, GateHolds, Readers, Writers, Holding
<1>4. EntriesShrink
  BY DEF PoolTypes, TaskRecord, PoolStages, TaskInOrder, EntriesShrink, HasEntry
<1>5. WorkersShrink
  BY <1>0, <1>4 DEF Cleared, PoolTypes, CallRecord, TaskRecord, CleanupRecord, PoolStages, CallInOrder,
              TaskInOrder, EntriesShrink, WorkersShrink, HasWorker
<1> QED
  BY <1>0, <1>1, <1>2, <1>3, <1>4, <1>5, ApartKept DEF Cleared

\* A lease is returned.
LEMMA PoolReturn ==
    ASSUME PoolInv, NEW c \in Calls, Return(c)
    PROVE  PoolInv'
<1> USE PoolAssumption DEF Return, NoCall, PoolInv
<1>0. Cleared
  BY Reclaimed
<1>1. PoolTypes'
  BY <1>0 DEF Cleared, PoolTypes, CallRecord, TaskRecord, CleanupRecord, CallStates, TaskStates,
         CleanupStates, Holding
<1>2. PoolStages'
  <2>1. \A d \in Calls : CallInOrder(d)'
    BY <1>0 DEF Cleared, PoolTypes, CallRecord, TaskRecord, PoolStages, CallInOrder, OneCaller,
                TaskInOrder
  <2>2. OneCaller'
    BY DEF PoolTypes, CallRecord, PoolStages, OneCaller
  <2>3. \A u \in Tasks : TaskInOrder(u)'
    BY DEF PoolTypes, CallRecord, TaskRecord, PoolStages, CallInOrder, OneCaller, TaskInOrder
  <2>4. \A l \in Cleanups : CleanupInOrder(l)'
    BY <1>0 DEF Cleared, PoolTypes, CleanupRecord, PoolStages, CleanupInOrder
  <2> QED
    BY <2>1, <2>2, <2>3, <2>4 DEF PoolStages
<1>3. GateHolds'
  BY DEF PoolTypes, CallRecord, TaskRecord, CleanupRecord, PoolStages, CallInOrder,
         TaskInOrder, CleanupInOrder, GateHolds, Readers, Writers, Holding
<1>4. EntriesShrink
  BY DEF PoolTypes, TaskRecord, PoolStages, TaskInOrder, EntriesShrink, HasEntry
<1>5. WorkersShrink
  <2>1. KeepsWorkers
    BY DEF KeepsWorkers, PoolTypes, CallRecord
  <2> QED
    BY <1>0, <1>4, <2>1, WorkersKept DEF Cleared
<1> QED
  BY <1>0, <1>1, <1>2, <1>3, <1>4, <1>5, ApartKept DEF Cleared

\* A worker whose caller gave up is gone.
LEMMA PoolTerminated ==
    ASSUME PoolInv, NEW t \in Tasks, Terminated(t)
    PROVE  PoolInv'
<1> USE PoolAssumption DEF Terminated, NoTask, PoolInv
<1>0. Cleared
  BY Reclaimed
<1>1. PoolTypes'
  <2>1. entries' \in [Sessions -> Entries \cup {None}]
    BY DEF PoolTypes
  <2>2. task' \in [Tasks -> TaskRecord]
    <3>1. task[t] \in TaskRecord /\ "failed" \in TaskStates
      BY DEF PoolTypes, TaskStates, Holding
    <3>2. [task[t] EXCEPT !.at = "failed", !.worker = None] \in TaskRecord
      BY <3>1, Zenon DEF TaskRecord
    <3> QED
      BY <3>2 DEF PoolTypes
  <2> QED
    BY <1>0, <2>1, <2>2 DEF Cleared, PoolTypes
<1>2. PoolStages'
  <2>1. \A d \in Calls : CallInOrder(d)'
    BY <1>0 DEF Cleared, PoolTypes, CallRecord, TaskRecord, PoolStages, CallInOrder, OneCaller,
                TaskInOrder
  <2>2. OneCaller'
    BY DEF PoolTypes, CallRecord, PoolStages, OneCaller
  <2>3. \A u \in Tasks : TaskInOrder(u)'
    BY DEF PoolTypes, CallRecord, TaskRecord, PoolStages, CallInOrder, OneCaller, TaskInOrder
  <2>4. \A l \in Cleanups : CleanupInOrder(l)'
    BY <1>0 DEF Cleared, PoolTypes, CleanupRecord, PoolStages, CleanupInOrder
  <2> QED
    BY <2>1, <2>2, <2>3, <2>4 DEF PoolStages
<1>3. GateHolds'
  BY DEF PoolTypes, CallRecord, TaskRecord, CleanupRecord, PoolStages, CallInOrder,
         TaskInOrder, CleanupInOrder, GateHolds, Readers, Writers, Holding
<1>4. EntriesShrink
  BY DEF PoolTypes, TaskRecord, PoolStages, TaskInOrder, EntriesShrink, HasEntry
<1>5. WorkersShrink
  <2>1. KeepsWorkers
    BY DEF KeepsWorkers, PoolTypes, TaskRecord
  <2> QED
    BY <1>0, <1>4, <2>1, WorkersKept DEF Cleared
<1> QED
  BY <1>0, <1>1, <1>2, <1>3, <1>4, <1>5, ApartKept DEF Cleared

\* A failed launch takes its entry out of the map.
LEMMA PoolRollBack ==
    ASSUME PoolInv, NEW t \in Tasks, RollBack(t)
    PROVE  PoolInv'
<1> USE PoolAssumption DEF RollBack, NoTask, PoolInv
<1>0. Cleared
  BY Reclaimed
<1>1. PoolTypes'
  <2>1. entries' \in [Sessions -> Entries \cup {None}]
    BY Zenon DEF PoolTypes
  <2>2. task' \in [Tasks -> TaskRecord]
    BY DEF PoolTypes, TaskRecord, TaskStates
  <2> QED
    BY <1>0, <2>1, <2>2 DEF Cleared, PoolTypes
<1>2. PoolStages'
  <2>1. \A d \in Calls : CallInOrder(d)'
    BY <1>0 DEF Cleared, PoolTypes, CallRecord, TaskRecord, PoolStages, CallInOrder, OneCaller,
                TaskInOrder
  <2>2. OneCaller'
    BY DEF PoolTypes, CallRecord, PoolStages, OneCaller
  <2>3. \A u \in Tasks : TaskInOrder(u)'
    BY DEF PoolTypes, CallRecord, TaskRecord, PoolStages, CallInOrder, OneCaller, TaskInOrder
  <2>4. \A l \in Cleanups : CleanupInOrder(l)'
    BY <1>0 DEF Cleared, PoolTypes, CleanupRecord, PoolStages, CleanupInOrder
  <2> QED
    BY <2>1, <2>2, <2>3, <2>4 DEF PoolStages
<1>3. GateHolds'
  BY DEF PoolTypes, TaskRecord, GateHolds, Holding
<1>4. EntriesShrink
  BY DEF PoolTypes, TaskRecord, PoolStages, TaskInOrder, EntriesShrink, HasEntry
<1>5. WorkersShrink
  <2>1. KeepsWorkers
    BY DEF KeepsWorkers, PoolTypes, TaskRecord
  <2> QED
    BY <1>0, <1>4, <2>1, WorkersKept DEF Cleared
<1> QED
  BY <1>0, <1>1, <1>2, <1>3, <1>4, <1>5, ApartKept DEF Cleared

\* The result of a task without a caller is dropped.
LEMMA PoolDiscard ==
    ASSUME PoolInv, NEW t \in Tasks, Discard(t)
    PROVE  PoolInv'
<1> USE PoolAssumption DEF Discard, NoTask, PoolInv
<1>0. Cleared
  BY Reclaimed
<1>1. PoolTypes'
  BY <1>0 DEF Cleared, PoolTypes, CallRecord, TaskRecord, CleanupRecord, CallStates, TaskStates,
         CleanupStates, Holding
<1>2. PoolStages'
  <2>1. \A d \in Calls : CallInOrder(d)'
    BY <1>0 DEF Cleared, PoolTypes, CallRecord, TaskRecord, PoolStages, CallInOrder, OneCaller,
                TaskInOrder
  <2>2. OneCaller'
    BY DEF PoolTypes, CallRecord, PoolStages, OneCaller
  <2>3. \A u \in Tasks : TaskInOrder(u)'
    BY DEF PoolTypes, CallRecord, TaskRecord, PoolStages, CallInOrder, OneCaller, TaskInOrder
  <2>4. \A l \in Cleanups : CleanupInOrder(l)'
    BY <1>0 DEF Cleared, PoolTypes, CleanupRecord, PoolStages, CleanupInOrder
  <2> QED
    BY <2>1, <2>2, <2>3, <2>4 DEF PoolStages
<1>3. GateHolds'
  BY DEF PoolTypes, CallRecord, TaskRecord, CleanupRecord, PoolStages, CallInOrder,
         TaskInOrder, CleanupInOrder, GateHolds, Readers, Writers, Holding
<1>4. EntriesShrink
  BY DEF PoolTypes, TaskRecord, PoolStages, TaskInOrder, EntriesShrink, HasEntry
<1>5. WorkersShrink
  <2>1. KeepsWorkers
    BY DEF KeepsWorkers, PoolTypes, TaskRecord
  <2> QED
    BY <1>0, <1>4, <2>1, WorkersKept DEF Cleared
<1> QED
  BY <1>0, <1>1, <1>2, <1>3, <1>4, <1>5, ApartKept DEF Cleared

\* The reaper aborts a task, which had no caller any more.
LEMMA PoolAbort ==
    ASSUME PoolInv, NEW t \in Tasks, Abort(t)
    PROVE  PoolInv'
<1> USE PoolAssumption DEF Abort, NoTask, PoolInv
<1>0. Cleared
  BY Reclaimed
<1>1. PoolTypes'
  <2>1. entries' \in [Sessions -> Entries \cup {None}]
    BY DEF PoolTypes
  <2>2. task' \in [Tasks -> TaskRecord]
    <3>1. task[t] \in TaskRecord /\ "reaping" \in TaskStates
      BY DEF PoolTypes, TaskStates, Holding
    <3>2. [task[t] EXCEPT !.at = "reaping", !.worker = None] \in TaskRecord
      BY <3>1, Zenon DEF TaskRecord
    <3> QED
      BY <3>2 DEF PoolTypes
  <2> QED
    BY <1>0, <2>1, <2>2 DEF Cleared, PoolTypes
<1>2. PoolStages'
  <2>1. \A d \in Calls : CallInOrder(d)'
    BY <1>0 DEF Cleared, PoolTypes, CallRecord, TaskRecord, PoolStages, CallInOrder, OneCaller,
                TaskInOrder
  <2>2. OneCaller'
    BY DEF PoolTypes, CallRecord, PoolStages, OneCaller
  <2>3. \A u \in Tasks : TaskInOrder(u)'
    BY DEF PoolTypes, CallRecord, TaskRecord, PoolStages, CallInOrder, OneCaller, TaskInOrder
  <2>4. \A l \in Cleanups : CleanupInOrder(l)'
    BY <1>0 DEF Cleared, PoolTypes, CleanupRecord, PoolStages, CleanupInOrder
  <2> QED
    BY <2>1, <2>2, <2>3, <2>4 DEF PoolStages
<1>3. GateHolds'
  BY DEF PoolTypes, CallRecord, TaskRecord, CleanupRecord, PoolStages, CallInOrder,
         TaskInOrder, CleanupInOrder, GateHolds, Readers, Writers, Holding
<1>4. EntriesShrink
  BY DEF PoolTypes, TaskRecord, PoolStages, TaskInOrder, EntriesShrink, HasEntry
<1>5. WorkersShrink
  <2>1. KeepsWorkers
    BY DEF KeepsWorkers, PoolTypes, TaskRecord
  <2> QED
    BY <1>0, <1>4, <2>1, WorkersKept DEF Cleared
<1> QED
  BY <1>0, <1>1, <1>2, <1>3, <1>4, <1>5, ApartKept DEF Cleared

\* The reaper removes what the aborted task left.
LEMMA PoolScrub ==
    ASSUME PoolInv, NEW t \in Tasks, Scrub(t)
    PROVE  PoolInv'
<1> USE PoolAssumption DEF Scrub, NoTask, PoolInv
<1>0. Cleared
  BY Reclaimed
<1>1. PoolTypes'
  BY <1>0, Zenon DEF Cleared, PoolTypes, CallRecord, TaskRecord, CleanupRecord, CallStates, TaskStates,
         CleanupStates, Holding
<1>2. PoolStages'
  <2>1. \A d \in Calls : CallInOrder(d)'
    <3>1. \A d \in Calls : call[d].task # t
      BY DEF PoolStages, CallInOrder, TaskInOrder
    <3> QED
      BY <1>0, <3>1 DEF Cleared, PoolTypes, PoolStages, CallInOrder
  <2>2. OneCaller'
    BY DEF PoolTypes, CallRecord, PoolStages, OneCaller
  <2>3. \A u \in Tasks : TaskInOrder(u)'
    BY DEF PoolTypes, CallRecord, TaskRecord, PoolStages, CallInOrder, OneCaller, TaskInOrder
  <2>4. \A l \in Cleanups : CleanupInOrder(l)'
    BY <1>0 DEF Cleared, PoolTypes, CleanupRecord, PoolStages, CleanupInOrder
  <2> QED
    BY <2>1, <2>2, <2>3, <2>4 DEF PoolStages
<1>3. GateHolds'
  BY DEF PoolTypes, TaskRecord, GateHolds, Holding
<1>4. EntriesShrink
  BY DEF PoolTypes, TaskRecord, PoolStages, TaskInOrder, EntriesShrink, HasEntry
<1>5. WorkersShrink
  <2>1. KeepsWorkers
    BY DEF KeepsWorkers, PoolTypes, TaskRecord
  <2> QED
    BY <1>0, <1>4, <2>1, WorkersKept DEF Cleared
<1> QED
  BY <1>0, <1>1, <1>2, <1>3, <1>4, <1>5, ApartKept DEF Cleared

\* A clean-up enters the gate when the session has no reader, and takes over the
\* worker of the session's own entry.
LEMMA PoolEnterExclusive ==
    ASSUME PoolInv, NEW k \in Cleanups, EnterExclusive(k)
    PROVE  PoolInv'
<1> DEFINE s == cleanup[k].session
           e == entries[s]
<1> USE PoolAssumption DEF PoolInv
<1>1. s \in Sessions /\ Readers(s) = {} /\ call' = call /\ task' = task
  BY DEF EnterExclusive, PoolStages, CleanupInOrder
<1>0. Cleared
  BY Reclaimed DEF EnterExclusive
<1>2. CASE Matches(k)
  <2>1. e \in Entries /\ cell[e] \in Workers \cup {None}
    BY <1>1, <1>2 DEF Matches, PoolTypes
  <2>2. /\ cleanup' = [cleanup EXCEPT ![k] = [@ EXCEPT !.at = "closing", !.worker = cell[e]]]
        /\ entries' = [entries EXCEPT ![s] = None]
    BY <1>2, Zenon DEF EnterExclusive, PoolTypes, CleanupRecord
  <2> HIDE DEF e
  <2>3. [cleanup[k] EXCEPT !.at = "closing", !.worker = cell[e]] \in CleanupRecord
    <3>1. cleanup[k] \in CleanupRecord /\ "closing" \in CleanupStates
      BY DEF PoolTypes, CleanupStates
    <3> QED
      BY <2>1, <3>1, Zenon DEF CleanupRecord
  <2>4. PoolTypes'
    BY <1>0, <1>1, <2>1, <2>2, <2>3 DEF Cleared, PoolTypes
  <2>5. PoolStages'
    <3>1. \A d \in Calls : CallInOrder(d)'
      BY <1>0, <1>1 DEF Cleared, PoolStages, CallInOrder
    <3>2. OneCaller' /\ \A u \in Tasks : TaskInOrder(u)'
      BY <1>1 DEF PoolStages, OneCaller, TaskInOrder
    <3>3. \A l \in Cleanups : CleanupInOrder(l)'
      BY <1>0, <1>1, <2>1, <2>2 DEF Cleared, PoolTypes, CleanupRecord, PoolStages, CleanupInOrder
    <3> QED
      BY <3>1, <3>2, <3>3 DEF PoolStages
  <2>6. GateHolds'
    BY <1>1, <2>2 DEF PoolTypes, CallRecord, TaskRecord, CleanupRecord, GateHolds, Readers
  <2>7. EntriesShrink
    BY <1>1, <2>2 DEF PoolTypes, EntriesShrink, HasEntry
  <2>8. WorkersShrink
    <3>1. \A r \in Sessions, w \in Workers :
             (\E x \in Entries : HasEntry(r, x)' /\ cell'[x] = w)
                 => \E x \in Entries : HasEntry(r, x) /\ cell[x] = w
      BY <1>0, <2>7 DEF Cleared, PoolTypes, EntriesShrink
    <3>2. HasEntry(s, e) /\ e \in Entries
      BY <2>1 DEF HasEntry, e
    <3>3. \A r \in Sessions, w \in Workers :
             (\E l \in Cleanups : cleanup'[l].session = r /\ cleanup'[l].worker = w)
                 => \/ \E l \in Cleanups : cleanup[l].session = r /\ cleanup[l].worker = w
                    \/ r = s /\ cell[e] = w
      BY <2>2 DEF PoolTypes, CleanupRecord
    <3> QED
      BY <1>1, <3>1, <3>2, <3>3 DEF WorkersShrink, HasWorker
  <2>9. GoneIsEmpty'
    BY <1>0 DEF Cleared
  <2> QED
    BY <2>4, <2>5, <2>6, <2>7, <2>8, <2>9, ApartKept
<1>3. CASE ~Matches(k)
  <2>1. cleanup' = [cleanup EXCEPT ![k] = Ended(k)] /\ entries' = entries
    BY <1>3 DEF EnterExclusive
  <2>2. /\ Ended(k) \in CleanupRecord
        /\ Ended(k).at \in {"done", "free"} /\ Ended(k).target = None /\ Ended(k).worker = None
    BY Zenon DEF Ended, NoCleanup, CleanupRecord, CleanupStates
  <2>3. PoolTypes'
    BY <1>0, <1>1, <2>1, <2>2 DEF Cleared, PoolTypes
  <2>4. PoolStages'
    <3>1. \A d \in Calls : CallInOrder(d)'
      BY <1>0, <1>1 DEF Cleared, PoolStages, CallInOrder
    <3>2. OneCaller' /\ \A u \in Tasks : TaskInOrder(u)'
      BY <1>1 DEF PoolStages, OneCaller, TaskInOrder
    <3>3. \A l \in Cleanups : CleanupInOrder(l)'
      BY <1>0, <2>1, <2>2 DEF Cleared, PoolTypes, CleanupRecord, PoolStages, CleanupInOrder
    <3> QED
      BY <3>1, <3>2, <3>3 DEF PoolStages
  <2>5. GateHolds'
    BY <1>1, <2>1, <2>2 DEF PoolTypes, GateHolds
  <2>6. EntriesShrink
    BY <1>1, <2>1 DEF EntriesShrink, HasEntry
  <2>7. WorkersShrink
    <3>1. \A r \in Sessions, w \in Workers :
             (\E x \in Entries : HasEntry(r, x)' /\ cell'[x] = w)
                 => \E x \in Entries : HasEntry(r, x) /\ cell[x] = w
      BY <1>0, <2>6 DEF Cleared, PoolTypes, EntriesShrink
    <3>2. \A r \in Sessions, w \in Workers :
             (\E l \in Cleanups : cleanup'[l].session = r /\ cleanup'[l].worker = w)
                 => \E l \in Cleanups : cleanup[l].session = r /\ cleanup[l].worker = w
      BY <2>1, <2>2 DEF PoolTypes
    <3> QED
      BY <1>1, <3>1, <3>2 DEF WorkersShrink, HasWorker
  <2>8. GoneIsEmpty'
    BY <1>0 DEF Cleared
  <2> QED
    BY <2>3, <2>4, <2>5, <2>6, <2>7, <2>8, ApartKept
<1> QED
  BY <1>2, <1>3

\* A clean-up that ends lets go of the worker.
LEMMA PoolClosed ==
    ASSUME PoolInv, NEW k \in Cleanups, Closed(k)
    PROVE  PoolInv'
<1> USE PoolAssumption DEF Closed, PoolInv, Ended, NoCleanup
<1>0. Cleared
  BY Reclaimed
<1>1. PoolTypes'
  BY <1>0, Zenon DEF Cleared, PoolTypes, CallRecord, TaskRecord, CleanupRecord, CallStates, TaskStates,
         CleanupStates, Holding
<1>2. PoolStages'
  <2>1. \A d \in Calls : CallInOrder(d)'
    BY <1>0 DEF Cleared, PoolTypes, CallRecord, PoolStages, CallInOrder
  <2>2. OneCaller' /\ \A u \in Tasks : TaskInOrder(u)'
    BY DEF PoolStages, OneCaller, TaskInOrder
  <2>3. \A l \in Cleanups : CleanupInOrder(l)'
    BY <1>0 DEF Cleared, PoolTypes, CleanupRecord, PoolStages, CleanupInOrder
  <2> QED
    BY <2>1, <2>2, <2>3 DEF PoolStages
<1>3. GateHolds'
  BY DEF PoolTypes, CallRecord, TaskRecord, CleanupRecord, PoolStages, CallInOrder,
         TaskInOrder, CleanupInOrder, GateHolds, Readers, Writers, Holding
<1>4. EntriesShrink
  BY DEF PoolTypes, TaskRecord, PoolStages, TaskInOrder, EntriesShrink, HasEntry
<1>5. WorkersShrink
  <2>1. KeepsWorkers
    BY DEF KeepsWorkers, PoolTypes, CleanupRecord
  <2> QED
    BY <1>0, <1>4, <2>1, WorkersKept DEF Cleared
<1> QED
  BY <1>0, <1>1, <1>2, <1>3, <1>4, <1>5, ApartKept DEF Cleared

\* A caller that is dropped leaves everything it held.
LEMMA PoolDrop ==
    ASSUME PoolInv, NEW c \in Calls, Drop(c)
    PROVE  PoolInv'
<1> USE PoolAssumption DEF Drop, NoCall, NoCleanup, NoTask, PoolInv
<1>0. Cleared
  BY Reclaimed
<1>1. PoolTypes'
  <2>1. entries' \in [Sessions -> Entries \cup {None}]
    BY DEF PoolTypes
  <2>2. call' \in [Calls -> CallRecord]
    BY DEF PoolTypes, CallRecord, CallStates, TaskRecord
  <2>3. task' \in [Tasks -> TaskRecord]
    BY DEF PoolTypes, TaskRecord, TaskStates, Holding
  <2>4. cleanup' \in [Cleanups -> CleanupRecord]
    <3>1. \A r \in CleanupRecord : [r EXCEPT !.awaited = FALSE] \in CleanupRecord
      BY Zenon DEF CleanupRecord
    <3>2. NoCleanup \in CleanupRecord
      BY DEF CleanupRecord, CleanupStates
    <3> QED
      BY <3>1, <3>2 DEF PoolTypes
  <2> QED
    BY <1>0, <2>1, <2>2, <2>3, <2>4, Zenon DEF Cleared, PoolTypes
<1>2. PoolStages'
  <2>1. \A d \in Calls : CallInOrder(d)'
    BY <1>0 DEF Cleared, PoolTypes, CallRecord, TaskRecord, PoolStages, CallInOrder, OneCaller
  <2>2. OneCaller'
    BY DEF PoolTypes, CallRecord, PoolStages, OneCaller
  <2>3. \A u \in Tasks : TaskInOrder(u)'
    BY DEF PoolTypes, TaskRecord, PoolStages, TaskInOrder
  <2>4. \A l \in Cleanups : CleanupInOrder(l)'
    BY <1>0 DEF Cleared, PoolTypes, CleanupRecord, PoolStages, CleanupInOrder
  <2> QED
    BY <2>1, <2>2, <2>3, <2>4 DEF PoolStages
<1>3. GateHolds'
  BY DEF PoolTypes, CallRecord, TaskRecord, CleanupRecord, PoolStages, CallInOrder,
         TaskInOrder, CleanupInOrder, GateHolds, Readers, Writers, Holding
<1>4. EntriesShrink
  BY DEF PoolTypes, TaskRecord, PoolStages, TaskInOrder, EntriesShrink, HasEntry
<1>5. WorkersShrink
  <2>1. KeepsWorkers
    BY DEF KeepsWorkers, PoolTypes, TaskRecord, CleanupRecord
  <2> QED
    BY <1>0, <1>4, <2>1, WorkersKept DEF Cleared
<1> QED
  BY <1>0, <1>1, <1>2, <1>3, <1>4, <1>5, ApartKept DEF Cleared

\* A new entry belongs to nobody yet and holds no worker.
LEMMA PoolTakePermit ==
    ASSUME PoolInv, NEW c \in Calls, TakePermit(c)
    PROVE  PoolInv'
<1> DEFINE s == call[c].session
           e == IF entries[s] = None THEN Freed(Entries, LiveEntries) ELSE entries[s]
           t == CHOOSE u \in FreeTasks : TRUE
           r == [NoTask EXCEPT !.at = "init", !.session = s, !.entry = e, !.waiter = "caller"]
<1> USE PoolAssumption DEF PoolInv
<1>1. /\ call[c].at = "permit" /\ s \in Sessions
      /\ entries' = [entries EXCEPT ![s] = e]
      /\ task' = [task EXCEPT ![t] = r]
      /\ call' = [call EXCEPT ![c] = [@ EXCEPT !.at = "launch", !.task = t]]
      /\ cell' = cell /\ cleanup' = cleanup /\ crashed' = crashed
  BY Zenon DEF TakePermit, PoolStages, CallInOrder, PoolTypes, CallRecord
<1>2. t \in Tasks /\ task[t] = NoTask
  BY DEF TakePermit, FreeTasks
<1>3. e \in Entries /\ (entries[s] = e \/ (entries[s] = None /\ e \notin LiveEntries))
  BY <1>1, Zenon DEF TakePermit, Freed, PoolTypes
<1> HIDE DEF e, t
<1>4. /\ r \in TaskRecord
      /\ r.at = "init" /\ r.session = s /\ r.entry = e /\ r.worker = None /\ r.waiter = "caller"
  BY <1>1, <1>3, Zenon DEF NoTask, TaskRecord, TaskStates, Holding
<1> HIDE DEF r
<1>5. PoolTypes'
  <2>1. call[c] \in CallRecord /\ "launch" \in CallStates
    BY DEF PoolTypes, CallStates
  <2>2. [call[c] EXCEPT !.at = "launch", !.task = t] \in CallRecord
    BY <1>2, <2>1, Zenon DEF CallRecord
  <2> QED
    BY <1>1, <1>2, <1>3, <1>4, <2>2 DEF PoolTypes
<1>6. PoolStages'
  <2>1. \A d \in Calls : d # c /\ call[d].at = "launch" => call[d].task # t
    BY <1>2 DEF PoolStages, CallInOrder, NoTask
  <2>2. \A d \in Calls : CallInOrder(d)'
    BY <1>1, <1>2, <1>4, <2>1 DEF PoolTypes, CallRecord, PoolStages, CallInOrder
  <2>3. OneCaller'
    BY <1>1, <1>2, <2>1 DEF PoolTypes, CallRecord, PoolStages, CallInOrder, OneCaller
  <2>4. \A u \in Tasks : TaskInOrder(u)'
    BY <1>1, <1>2, <1>3, <1>4 DEF PoolTypes, PoolStages, TaskInOrder
  <2>5. \A k \in Cleanups : CleanupInOrder(k)'
    BY <1>1 DEF PoolStages, CleanupInOrder
  <2> QED
    BY <2>2, <2>3, <2>4, <2>5 DEF PoolStages
<1>7. GateHolds'
  BY <1>1, <1>2, <1>4 DEF PoolTypes, CallRecord, GateHolds
<1>8. \A q \in Sessions, x \in Entries : HasEntry(q, x)' => HasEntry(q, x) \/ (q = s /\ x = e)
  BY <1>1, <1>2, <1>4 DEF PoolTypes, HasEntry
<1>9. e \notin LiveEntries => cell[e] = None /\ \A q \in Sessions : ~HasEntry(q, e)
  BY <1>3 DEF Apart, LiveEntries, HasEntry
<1>10. entries[s] = e => HasEntry(s, e)
  BY DEF HasEntry
<1>11. WorkersShrink
  <2>1. \A q \in Sessions, w \in Workers :
           (\E x \in Entries : HasEntry(q, x)' /\ cell'[x] = w)
               => \E x \in Entries : HasEntry(q, x) /\ cell[x] = w
    BY <1>1, <1>3, <1>8, <1>9, <1>10
  <2>2. \A q \in Sessions, w \in Workers :
           (\E u \in Tasks : task'[u].session = q /\ task'[u].worker = w)
               => \E u \in Tasks : task[u].session = q /\ task[u].worker = w
    BY <1>1, <1>2, <1>4 DEF PoolTypes
  <2>3. \A d \in Calls : call'[d].session = call[d].session /\ call'[d].worker = call[d].worker
    BY <1>1 DEF PoolTypes, CallRecord
  <2> QED
    BY <1>1, <2>1, <2>2, <2>3 DEF WorkersShrink, HasWorker
<1>12. Apart'
  <2>1. \A x \in Entries : \A p, q \in Sessions : HasEntry(p, x)' /\ HasEntry(q, x)' => p = q
    BY <1>1, <1>3, <1>8, <1>9, <1>10 DEF Apart
  <2>2. \A w \in Workers : \A p, q \in Sessions : HasWorker(p, w)' /\ HasWorker(q, w)' => p = q
    BY <1>11 DEF Apart, WorkersShrink
  <2>3. \A x \in Entries : x \in LiveEntries => x \in LiveEntries'
    BY <1>1, <1>2, <1>3 DEF PoolTypes, LiveEntries, NoTask
  <2> QED
    BY <1>1, <2>1, <2>2, <2>3 DEF Apart
<1> QED
  BY <1>5, <1>6, <1>7, <1>12

\* A new worker is one that nobody has.
LEMMA PoolLaunched ==
    ASSUME PoolInv, NEW t \in Tasks, Launched(t)
    PROVE  PoolInv'
<1> DEFINE w == Freed(Workers, HeldWorkers)
           s == task[t].session
           e == task[t].entry
<1> USE PoolAssumption DEF PoolInv
<1>1. w \in Workers /\ w \notin HeldWorkers
  BY DEF Launched, Freed
<1>2. /\ task[t].at = "launching" /\ s \in Sessions /\ e \in Entries
      /\ entries' = entries /\ call' = call /\ cleanup' = cleanup /\ crashed' = crashed
  BY DEF Launched, PoolStages, TaskInOrder
<1>3. \E a \in {"terminating", "ok"} :
         task' = [task EXCEPT ![t] = [@ EXCEPT !.at = a, !.worker = w]]
  BY Zenon DEF Launched, PoolTypes, TaskRecord
<1>4. cell' = cell \/ cell' = [cell EXCEPT ![e] = w]
  BY Zenon DEF Launched, PoolTypes
<1> HIDE DEF w
<1>5. PICK a \in {"terminating", "ok"} :
         task' = [task EXCEPT ![t] = [@ EXCEPT !.at = a, !.worker = w]]
  BY <1>3, Zenon
<1>6. PoolTypes'
  <2>1. task[t] \in TaskRecord /\ a \in TaskStates
    BY DEF PoolTypes, TaskStates, Holding
  <2>2. [task[t] EXCEPT !.at = a, !.worker = w] \in TaskRecord
    BY <1>1, <2>1, Zenon DEF TaskRecord
  <2> QED
    BY <1>1, <1>2, <1>4, <1>5, <2>2 DEF PoolTypes
<1>7. PoolStages'
  BY <1>1, <1>2, <1>5 DEF PoolTypes, CallRecord, TaskRecord, CleanupRecord, PoolStages,
                          CallInOrder, OneCaller, TaskInOrder, CleanupInOrder
<1>8. GateHolds'
  BY <1>2, <1>5 DEF PoolTypes, TaskRecord, GateHolds, Holding
<1>9. \A q \in Sessions, x \in Entries : HasEntry(q, x)' <=> HasEntry(q, x)
  BY <1>2, <1>5 DEF PoolTypes, TaskRecord, HasEntry
<1>10. \A q \in Sessions, v \in Workers : HasWorker(q, v)' => HasWorker(q, v) \/ (q = s /\ v = w)
  <2>1. HasEntry(s, e)
    BY DEF HasEntry
  <2>2. \A q \in Sessions, v \in Workers :
           (\E x \in Entries : HasEntry(q, x)' /\ cell'[x] = v)
               => \/ \E x \in Entries : HasEntry(q, x) /\ cell[x] = v
                  \/ q = s /\ v = w
    <3>1. \A q \in Sessions : HasEntry(q, e) => q = s
      BY <1>2, <2>1 DEF Apart
    <3>2. \A x \in Entries : cell'[x] = cell[x] \/ (x = e /\ cell'[x] = w)
      BY <1>2, <1>4 DEF PoolTypes
    <3> QED
      BY <1>9, <3>1, <3>2
  <2>3. \A q \in Sessions, v \in Workers :
           (\E u \in Tasks : task'[u].session = q /\ task'[u].worker = v)
               => \/ \E u \in Tasks : task[u].session = q /\ task[u].worker = v
                  \/ q = s /\ v = w
    BY <1>5 DEF PoolTypes, TaskRecord
  <2> QED
    <3> SUFFICES ASSUME NEW q \in Sessions, NEW v \in Workers, HasWorker(q, v)',
                        ~(q = s /\ v = w)
                 PROVE  HasWorker(q, v)
      OBVIOUS
    <3>1. CASE \E x \in Entries : HasEntry(q, x)' /\ cell'[x] = v
      BY <2>2, <3>1 DEF HasWorker
    <3>2. CASE \E u \in Tasks : task'[u].session = q /\ task'[u].worker = v
      BY <2>3, <3>2 DEF HasWorker
    <3>3. CASE \/ \E c \in Calls : call'[c].session = q /\ call'[c].worker = v
               \/ \E k \in Cleanups : cleanup'[k].session = q /\ cleanup'[k].worker = v
      BY <1>2, <3>3 DEF HasWorker
    <3> QED
      BY <3>1, <3>2, <3>3 DEF HasWorker
<1>11. \A q \in Sessions : ~HasWorker(q, w)
  <2>1. \A q \in Sessions, x \in Entries : HasEntry(q, x) => x \in LiveEntries \ {None}
    BY DEF HasEntry, LiveEntries
  <2> QED
    BY <1>1, <2>1 DEF HasWorker, HeldWorkers
<1>12. Apart'
  <2>1. LiveEntries' = LiveEntries
    BY <1>2, <1>5 DEF PoolTypes, TaskRecord, LiveEntries
  <2>2. e \in LiveEntries
    BY DEF LiveEntries
  <2>3. \A v \in Workers : \A p, q \in Sessions : HasWorker(p, v)' /\ HasWorker(q, v)' => p = q
    BY <1>10, <1>11 DEF Apart
  <2> QED
    BY <1>4, <1>9, <2>1, <2>2, <2>3 DEF Apart, PoolTypes
<1> QED
  BY <1>6, <1>7, <1>8, <1>12

\* A clean-up that is queued holds nothing, and names no worker but a dead one.
LEMMA PoolStartCleanup ==
    ASSUME PoolInv, NEW c \in Calls, NEW s \in Sessions, NEW x \in crashed \cup {None},
           StartCleanup(c, s, x)
    PROVE  PoolInv'
<1> DEFINE k == CHOOSE l \in FreeCleanups : TRUE
           r == [NoCleanup EXCEPT !.at = "queued", !.session = s, !.target = x, !.awaited = TRUE]
           d == [NoCall EXCEPT !.at = "cleanup", !.cleanup = k]
<1> USE PoolAssumption DEF PoolInv
<1>1. k \in Cleanups
  BY DEF StartCleanup, FreeCleanups
<1>2. /\ cleanup' = [cleanup EXCEPT ![k] = r] /\ call' = [call EXCEPT ![c] = d]
      /\ call[c].at \in {"out", "dead"}
      /\ entries' = entries /\ cell' = cell /\ task' = task /\ crashed' = crashed
  BY DEF StartCleanup
<1> HIDE DEF k
<1>3. /\ r \in CleanupRecord /\ d \in CallRecord
      /\ r.at = "queued" /\ r.session = s /\ r.target = x /\ r.worker = None
      /\ d.at = "cleanup" /\ d.session = None /\ d.task = None /\ d.worker = None
  BY <1>1, Zenon DEF NoCleanup, NoCall, CleanupRecord, CleanupStates, CallRecord, CallStates,
              PoolTypes
<1> HIDE DEF r, d
<1>4. PoolTypes'
  BY <1>1, <1>2, <1>3 DEF PoolTypes
<1>5. PoolStages'
  <2>1. (\A q \in Calls : CallInOrder(q)') /\ OneCaller'
    BY <1>1, <1>2, <1>3, ZenonT(30) DEF PoolTypes, PoolStages, CallInOrder, OneCaller
  <2>2. \A u \in Tasks : TaskInOrder(u)'
    BY <1>2 DEF PoolStages, TaskInOrder
  <2>3. \A l \in Cleanups : CleanupInOrder(l)'
    BY <1>1, <1>2, <1>3 DEF PoolTypes, PoolStages, CleanupInOrder
  <2> QED
    BY <2>1, <2>2, <2>3 DEF PoolStages
<1>6. GateHolds'
  BY <1>1, <1>2, <1>3 DEF PoolTypes, GateHolds
<1>7. EntriesShrink
  BY <1>2 DEF EntriesShrink, HasEntry
<1>8. WorkersShrink
  BY <1>1, <1>2, <1>3, <1>7 DEF PoolTypes, EntriesShrink, WorkersShrink, HasWorker
<1>9. GoneIsEmpty'
  BY <1>2 DEF Apart, GoneIsEmpty, LiveEntries
<1> QED
  BY <1>4, <1>5, <1>6, <1>7, <1>8, <1>9, ApartKept

\* Every step of the pool keeps the invariant.
LEMMA PoolStepKeeps == PoolInv /\ [PoolNext]_poolVars => PoolInv'
<1> SUFFICES ASSUME PoolInv, [PoolNext]_poolVars PROVE PoolInv'
  OBVIOUS
<1>1. CASE UNCHANGED poolVars
  <2>1. PoolTypes' /\ GateHolds'
    BY <1>1 DEF poolVars, PoolInv, PoolTypes, GateHolds
  <2>2. PoolStages'
    BY <1>1 DEF poolVars, PoolInv, PoolStages, CallInOrder, OneCaller, TaskInOrder, CleanupInOrder
  <2>3. EntriesShrink /\ GoneIsEmpty'
    BY <1>1 DEF poolVars, PoolInv, Apart, EntriesShrink, GoneIsEmpty, HasEntry, LiveEntries
  <2>4. WorkersShrink
    BY <1>1, <2>3, WorkersKept, PoolAssumption DEF poolVars, KeepsWorkers
  <2> QED
    BY <2>1, <2>2, <2>3, <2>4, ApartKept DEF PoolInv
<1>2. ASSUME NEW c \in Calls, EnterShared(c) \/ TakePermit(c) \/ Join(c) \/ LeaseTimesOut(c)
      PROVE  PoolInv'
  BY <1>2, PoolEnterShared, PoolTakePermit, PoolJoin, PoolLeaseTimesOut
<1>3. ASSUME NEW t \in Tasks,
             \/ Initialize(t) \/ FindInitialized(t) \/ Launched(t) \/ LaunchFails(t)
             \/ Terminated(t) \/ RollBack(t) \/ Discard(t) \/ Abort(t) \/ Scrub(t)
      PROVE  PoolInv'
  BY <1>3, PoolInitialize, PoolFindInitialized, PoolLaunched, PoolLaunchFails, PoolTerminated,
     PoolRollBack, PoolDiscard, PoolAbort, PoolScrub
<1>4. ASSUME NEW k \in Cleanups, EnterExclusive(k) \/ Closed(k) PROVE PoolInv'
  BY <1>4, PoolEnterExclusive, PoolClosed
<1>5. ASSUME NEW w \in Workers, Crash(w) PROVE PoolInv'
  BY <1>5, PoolCrash
<1>6. ASSUME NEW c \in Calls, NEW s \in Sessions, Lease(c, s) \/ release_session(c, s)
      PROVE  PoolInv'
  BY <1>6, PoolLease, PoolStartCleanup DEF release_session
<1>7. ASSUME NEW c \in Calls, invalidate_session_if_worker(c) PROVE PoolInv'
  <2>1. call[c].session \in Sessions /\ call[c].worker \in crashed
    BY <1>7 DEF invalidate_session_if_worker, PoolInv, PoolStages, CallInOrder
  <2> QED
    BY <1>7, <2>1, PoolStartCleanup DEF invalidate_session_if_worker
<1>8. ASSUME NEW c \in Calls, Return(c) \/ LetGo(c) \/ CleanupReturns(c) \/ Drop(c)
      PROVE  PoolInv'
  BY <1>8, PoolReturn, PoolLetGo, PoolCleanupReturns, PoolDrop
<1> QED
  BY <1>1, <1>2, <1>3, <1>4, <1>5, <1>6, <1>7, <1>8 DEF PoolNext, PoolStep, CallerStep

\* The invariant holds in every reachable state of the pool.
THEOREM PoolInvariant == PoolSpec => []PoolInv
  BY InitPool, PoolStepKeeps, PTL DEF PoolSpec

\* No worker is closed or terminated under a lease, for any number of sessions,
\* callers, permits and workers (lib.rs, the session gate).
THEOREM LeasesAreSafe == PoolSpec => []LeasedWorkerStaysOpen
  BY PoolInvariant, PoolInvImplies, PTL

\* Only EnterExclusive starts to close a worker.
LEMMA ClosingStarts ==
    ASSUME PoolInv, [PoolNext]_poolVars, NEW k \in Cleanups,
           cleanup[k].at = "queued", cleanup'[k].at = "closing"
    PROVE  EnterExclusive(k)
<1> USE DEF PoolInv, PoolTypes, CleanupRecord, NoCleanup
<1>1. CASE cleanup' = cleanup
  BY <1>1
<1>2. ASSUME NEW l \in Cleanups, EnterExclusive(l) \/ Closed(l) PROVE EnterExclusive(k)
  BY <1>2 DEF EnterExclusive, Closed, Ended
<1>3. ASSUME NEW c \in Calls, NEW s, NEW x, StartCleanup(c, s, x) PROVE FALSE
  <2> DEFINE l == CHOOSE m \in FreeCleanups : TRUE
  <2>1. l \in Cleanups
    BY <1>3 DEF StartCleanup, FreeCleanups
  <2>2. cleanup'[k] = cleanup[k] \/ cleanup'[k].at = "queued"
    BY <1>3, <2>1 DEF StartCleanup
  <2> QED
    BY <2>2
<1>4. ASSUME NEW c \in Calls, CleanupReturns(c) \/ Drop(c) PROVE FALSE
  <2>1. CASE CleanupReturns(c)
    BY <2>1 DEF CleanupReturns
  <2>2. CASE Drop(c)
    BY <2>2 DEF Drop
  <2> QED
    BY <1>4, <2>1, <2>2
<1>5. \/ cleanup' = cleanup
      \/ \E l \in Cleanups : EnterExclusive(l) \/ Closed(l)
      \/ \E c \in Calls : (\E s, x : StartCleanup(c, s, x)) \/ CleanupReturns(c) \/ Drop(c)
  BY Zenon DEF PoolNext, PoolStep, CallerStep, poolVars, EnterShared, TakePermit, Join, LeaseTimesOut,
         Initialize, FindInitialized, Launched, LaunchFails, Terminated, RollBack, Discard, Abort,
         Scrub, Crash, Lease, release_session, Return, LetGo, invalidate_session_if_worker
<1> QED
  BY <1>1, <1>2, <1>3, <1>4, <1>5

\* A late recovery closes no healthy worker, for any number of sessions, callers
\* and workers: the worker that invalidate_session_if_worker names is dead and is
\* not another one by the time the gate is held (lib.rs, invalidate_session_if_worker).
THEOREM HealthyWorkersAreKept == PoolSpec => HealthyWorkerIsKept
<1> DEFINE Kept == \A k \in Cleanups :
                      cleanup[k].at = "queued" /\ cleanup'[k].at = "closing"
                          => cleanup[k].target = None \/ cleanup'[k].worker \in crashed
<1>1. ASSUME PoolInv, [PoolNext]_poolVars PROVE Kept
  <2> SUFFICES ASSUME NEW k \in Cleanups,
                      cleanup[k].at = "queued", cleanup'[k].at = "closing", cleanup[k].target # None
               PROVE  cleanup'[k].worker \in crashed
    OBVIOUS
  <2>1. EnterExclusive(k)
    BY <1>1, ClosingStarts
  <2>2. Matches(k) /\ cleanup'[k].worker = cell[entries[cleanup[k].session]]
    <3>1. Ended(k).at # "closing"
      BY DEF Ended, NoCleanup
    <3>2. cleanup[k] \in CleanupRecord /\ cleanup \in [Cleanups -> CleanupRecord]
      BY <1>1 DEF PoolInv, PoolTypes
    <3>3. Matches(k)
      BY <2>1, <3>1, <3>2 DEF EnterExclusive
    <3> QED
      BY <2>1, <3>2, <3>3 DEF EnterExclusive, CleanupRecord
  <2>3. cleanup'[k].worker = cleanup[k].target
    BY <2>2 DEF Matches
  <2> QED
    BY <1>1, <2>3 DEF PoolInv, PoolStages, CleanupInOrder
<1>2. PoolSpec => [][Kept]_poolVars
  BY PoolInvariant, <1>1, PTL DEF PoolSpec
<1> QED
  BY <1>2 DEF HealthyWorkerIsKept

=============================================================================
