-------------------------- MODULE JobSchedulerProofs --------------------------
(***************************************************************************)
(* The theorems about JobScheduler, for every set of jobs, every capacity and *)
(* every bound on failures and crashes:                                       *)
(*                                                                           *)
(*   TypeCorrect and BookkeepingCorrect, whatever fails;                      *)
(*   ReplaySafety and RetriesAreBounded, unless both a compaction of          *)
(*   retention and the writing of a line can fail, for then the index may be  *)
(*   taken from a damaged file;                                               *)
(*   DurableCorrect and its consequences, as long as a line of the journal is *)
(*   written whole or not at all.                                             *)
(***************************************************************************)
EXTENDS JobSchedulerArchive, Integers, TLAPS

-----------------------------------------------------------------------------
(* Jobs and job maps.                                                        *)

\* Every transition of job.rs yields a well-typed job.
LEMMA TransitionTypes ==
    ASSUME NEW job \in Job
    PROVE  /\ start(job) \in Job
           /\ complete(job) \in Job
           /\ fail(job) \in Job
           /\ cancel(job) \in Job
           /\ require_reconciliation(job) \in Job
           /\ \A d \in Decisions : resolve(job, d) \in Job
           /\ can_retry(job) => prepare_retry(job) \in Job
<1> USE DEF Job, JobStatus, TerminalStatus, Decisions
<1>1. start(job) \in Job /\ complete(job) \in Job /\ fail(job) \in Job /\ cancel(job) \in Job
  BY Zenon DEF start, complete, fail, cancel
<1>2. require_reconciliation(job) \in Job
  BY Zenon DEF require_reconciliation
<1>3. \A d \in Decisions : resolve(job, d) \in Job
  BY Zenon DEF resolve
<1>4. can_retry(job) => prepare_retry(job) \in Job
  <2>1. can_retry(job) => job.retry + 1 \in 0..MaxRetries
    BY JobsAssumption DEF JobsAssumption, can_retry
  <2> QED
    BY <2>1, Zenon DEF prepare_retry
<1> QED
  BY <1>1, <1>2, <1>3, <1>4, Zenon

\* The fields that each transition sets and keeps.
LEMMA TransitionFields ==
    ASSUME NEW job \in Job
    PROVE  /\ start(job).status = "Running"
           /\ start(job).retry = job.retry
           /\ start(job).resolution = job.resolution
           /\ complete(job).status = "Completed"
           /\ complete(job).resolution = job.resolution
           /\ fail(job).status = "Failed"
           /\ fail(job).retry = job.retry
           /\ fail(job).resolution = job.resolution
           /\ cancel(job).status = "Cancelled"
           /\ cancel(job).resolution = job.resolution
           /\ require_reconciliation(job).status = "ReconciliationRequired"
           /\ require_reconciliation(job).resolution = job.resolution
           /\ \A d \in Decisions : resolve(job, d).status = "Resolved"
           /\ prepare_retry(job).status = "Pending"
           /\ prepare_retry(job).retry = job.retry + 1
           /\ prepare_retry(job).resolution = job.resolution
<1> USE DEF Job
<1>1. /\ start(job).status = "Running" /\ start(job).retry = job.retry
      /\ start(job).resolution = job.resolution
  BY Zenon DEF start
<1>2. complete(job).status = "Completed" /\ complete(job).resolution = job.resolution
  BY Zenon DEF complete
<1>3. /\ fail(job).status = "Failed" /\ fail(job).retry = job.retry
      /\ fail(job).resolution = job.resolution
  BY Zenon DEF fail
<1>4. cancel(job).status = "Cancelled" /\ cancel(job).resolution = job.resolution
  BY Zenon DEF cancel
<1>5. /\ require_reconciliation(job).status = "ReconciliationRequired"
      /\ require_reconciliation(job).resolution = job.resolution
  BY Zenon DEF require_reconciliation
<1>6. \A d \in Decisions : resolve(job, d).status = "Resolved"
  BY Zenon DEF resolve
<1>7. /\ prepare_retry(job).status = "Pending" /\ prepare_retry(job).retry = job.retry + 1
      /\ prepare_retry(job).resolution = job.resolution
  BY Zenon DEF prepare_retry
<1> QED
  BY <1>1, <1>2, <1>3, <1>4, <1>5, <1>6, <1>7, Zenon

\* NewJob and the absent job are well typed.
LEMMA ConstantJobTypes == NewJob \in Job /\ NoJob \in Job /\ NoJobs \in JobMaps
  BY JobsAssumption DEF JobsAssumption, NewJob, NoJob, NoJobs, JobMaps, Job, JobStatus, TerminalStatus, Decisions

\* Retention keeps or drops whole entries, and drops only terminal ones.
LEMMA PruneFacts ==
    ASSUME NEW jobs \in JobMaps, NEW kept \in prune_terminal(jobs)
    PROVE  /\ kept \in JobMaps
           /\ \A id \in JobIds :
                \/ kept[id] = jobs[id]
                \/ kept[id] = NoJob /\ jobs[id].status \in TerminalStatus
<1>1. PICK gone \in SUBSET Terminal(jobs) : kept = Without(jobs, gone)
  BY Zenon DEF prune_terminal
<1>2. kept \in JobMaps
  BY <1>1, ConstantJobTypes, Zenon DEF Without, JobMaps
<1>3. \A id \in gone : jobs[id].status \in TerminalStatus
  BY <1>1, Zenon DEF Terminal
<1> QED
  BY <1>1, <1>2, <1>3, Zenon DEF Without

-----------------------------------------------------------------------------
(* The store.                                                                *)

\* A snapshot of a job map is a well-typed store.
LEMMA SnapshotType == \A jobs \in JobMaps : Snapshot(jobs) \in Store
  BY Zenon DEF Snapshot, Store

\* Every way an append can end leaves a well-typed store.
LEMMA AppendType ==
    ASSUME NEW s \in Store, NEW id \in JobIds, NEW job \in Job,
           NEW o \in Acknowledged \cup WriteFaults
    PROVE  append(s, id, job, o) \in Store
<1>1. LineWritten(s, id, job) \in Store
  BY Zenon DEF LineWritten, Store, JobMaps
<1>2. LineSynced(s, id, job) \in Store
  BY <1>1, Zenon DEF LineSynced, Store, JobMaps
<1>3. LineUnsynced(s, id, job) \in Store
  BY <1>1, Zenon DEF LineUnsynced, Store, JobMaps
<1>4. Snapshot([s.index EXCEPT ![id] = job]) \in Store
  BY SnapshotType, Zenon DEF Store, JobMaps
<1>5. [s EXCEPT !.torn = TRUE] \in Store
  BY Zenon DEF Store
<1> QED
  BY <1>2, <1>3, <1>4, <1>5, Zenon DEF append, Acknowledged, WriteFaults

\* Pruning, closing and opening the store leave a well-typed store.
LEMMA StoreTypes ==
    ASSUME NEW s \in Store
    PROVE  /\ \A o : prune_store_terminal(s, o) \subseteq Store
           /\ \A inWrite \in BOOLEAN : Closed(s, inWrite) \in Store
           /\ open(s) \in Store
<1>1. \A o : prune_store_terminal(s, o) \subseteq Store
  <2>1. Rescanned(s) \in Store
    BY Zenon DEF Rescanned, Store
  <2>2. \A jobs \in prune_terminal(s.index) : Snapshot(jobs) \in Store
    BY PruneFacts, SnapshotType, Zenon DEF Store
  <2> QED
    BY <2>1, <2>2, Zenon DEF prune_store_terminal
<1>2. \A inWrite \in BOOLEAN : Closed(s, inWrite) \in Store
  BY ConstantJobTypes, Zenon DEF Closed, Store
<1>3. open(s) \in Store
  <2>1. \A id \in JobIds : Reopened(s, s.disk[id]) \in Job
    <3> TAKE id \in JobIds
    <3>1. s.disk[id] \in Job /\ require_reconciliation(s.disk[id]) \in Job
      BY TransitionTypes, Zenon DEF Store, JobMaps
    <3>2. [require_reconciliation(s.disk[id]) EXCEPT !.resolution = "none"] \in Job
      BY <3>1, Zenon DEF Job
    <3> QED
      BY <3>1, <3>2, ConstantJobTypes, Zenon DEF Reopened
  <2> QED
    BY <2>1, SnapshotType, Zenon DEF open, JobMaps
<1> QED
  BY <1>1, <1>2, <1>3, Zenon

-----------------------------------------------------------------------------
(* The ready queue.                                                          *)

\* No job is in the queue twice.
Distinct(q) == \A i, k \in DOMAIN q : q[i] = q[k] => i = k

InQueue(q, id) == \E i \in DOMAIN q : q[i] = id

\* Concatenation, by length and by element.
LEMMA ConcatFacts ==
    ASSUME NEW S, NEW s \in Seq(S), NEW t \in Seq(S)
    PROVE  /\ s \o t \in Seq(S)
           /\ Len(s \o t) = Len(s) + Len(t)
           /\ \A k \in 1..(Len(s) + Len(t)) :
                 (s \o t)[k] = IF k <= Len(s) THEN s[k] ELSE t[k - Len(s)]
<1>1. s \o t \in Seq(S)
  OBVIOUS
<1>2. Len(s \o t) = Len(s) + Len(t)
  OBVIOUS
<1>3. ASSUME NEW k \in 1..(Len(s) + Len(t))
      PROVE  (s \o t)[k] = IF k <= Len(s) THEN s[k] ELSE t[k - Len(s)]
  <2>1. CASE k <= Len(s)
    BY <2>1
  <2>2. CASE ~(k <= Len(s))
    BY <2>2
  <2> QED
    BY <2>1, <2>2, Zenon
<1> QED
  BY <1>1, <1>2, <1>3, Zenon

\* RemoveAt closes the gap at position i.
LEMMA RemoveAtShape ==
    ASSUME NEW q \in Seq(JobIds), NEW i \in DOMAIN q
    PROVE  /\ RemoveAt(q, i) \in Seq(JobIds)
           /\ Len(RemoveAt(q, i)) = Len(q) - 1
           /\ \A k \in 1..(Len(q) - 1) : RemoveAt(q, i)[k] = IF k < i THEN q[k] ELSE q[k + 1]
<1> DEFINE left == SubSeq(q, 1, i - 1)
           right == SubSeq(q, i + 1, Len(q))
<1>1. Len(q) \in Nat /\ i \in 1..Len(q) /\ \A k \in 1..Len(q) : q[k] \in JobIds
  OBVIOUS
<1>2. /\ left \in Seq(JobIds)
      /\ Len(left) = i - 1
      /\ \A k \in 1..(i - 1) : left[k] = q[k]
  <2>1. \A k \in 1..(i - 1) : q[k] \in JobIds
    BY <1>1
  <2> QED
    BY <1>1, <2>1
<1>3. /\ right \in Seq(JobIds)
      /\ Len(right) = Len(q) - i
      /\ \A k \in 1..(Len(q) - i) : right[k] = q[i + k]
  <2>1. \A k \in (i + 1)..Len(q) : q[k] \in JobIds
    BY <1>1
  <2>2. /\ right \in Seq(JobIds)
        /\ Len(right) = IF i + 1 <= Len(q) THEN Len(q) - (i + 1) + 1 ELSE 0
        /\ \A k \in 1..(Len(q) - (i + 1) + 1) : right[k] = q[(i + 1) + k - 1]
    BY <1>1, <2>1
  <2> QED
    BY <1>1, <2>2
<1>4. RemoveAt(q, i) = left \o right
  BY Zenon DEF RemoveAt
<1> HIDE DEF left, right
<1>5. /\ left \o right \in Seq(JobIds)
      /\ Len(left \o right) = Len(left) + Len(right)
      /\ \A k \in 1..(Len(left) + Len(right)) :
            (left \o right)[k] = IF k <= Len(left) THEN left[k] ELSE right[k - Len(left)]
  BY <1>2, <1>3, ConcatFacts, Zenon
<1>6. Len(RemoveAt(q, i)) = Len(q) - 1
  BY <1>1, <1>2, <1>3, <1>4, <1>5
<1>7. ASSUME NEW k \in 1..(Len(q) - 1)
      PROVE  RemoveAt(q, i)[k] = IF k < i THEN q[k] ELSE q[k + 1]
  <2>1. k \in Int /\ i \in Int /\ k \in 1..(Len(left) + Len(right))
    BY <1>1, <1>2, <1>3
  <2>2. CASE k < i
    BY <1>1, <1>2, <1>4, <1>5, <2>1, <2>2
  <2>3. CASE ~(k < i)
    <3>1. ~(k <= Len(left)) /\ k - Len(left) \in 1..(Len(q) - i) /\ i + (k - Len(left)) = k + 1
      BY <1>1, <1>2, <2>1, <2>3
    <3>2. RemoveAt(q, i)[k] = right[k - Len(left)]
      BY <1>4, <1>5, <2>1, <3>1, Zenon
    <3> QED
      BY <1>3, <2>3, <3>1, <3>2, Zenon
  <2> QED
    BY <2>2, <2>3, Zenon
<1> QED
  BY <1>4, <1>5, <1>6, <1>7, Zenon

\* Taking one entry out of a queue without repetitions keeps the other entries, once each.
LEMMA RemoveAtMembers ==
    ASSUME NEW q \in Seq(JobIds), NEW i \in DOMAIN q, Distinct(q)
    PROVE  /\ Distinct(RemoveAt(q, i))
           /\ \A id : InQueue(RemoveAt(q, i), id) <=> InQueue(q, id) /\ id # q[i]
<1> DEFINE r == RemoveAt(q, i)
<1>1. /\ r \in Seq(JobIds)
      /\ Len(r) = Len(q) - 1
      /\ \A k \in 1..(Len(q) - 1) : r[k] = IF k < i THEN q[k] ELSE q[k + 1]
  BY RemoveAtShape, Zenon
<1>2. Len(q) \in Nat /\ i \in 1..Len(q) /\ DOMAIN q = 1..Len(q)
  OBVIOUS
<1> HIDE DEF r
<1>3. DOMAIN r = 1..(Len(q) - 1)
  BY <1>1, <1>2
<1>4. Distinct(r)
  <2> SUFFICES ASSUME NEW k \in 1..(Len(q) - 1), NEW l \in 1..(Len(q) - 1), r[k] = r[l]
               PROVE  k = l
    BY <1>3, Zenon DEF Distinct
  <2> DEFINE old(n) == IF n < i THEN n ELSE n + 1
  <2>1. old(k) \in 1..Len(q) /\ old(l) \in 1..Len(q)
    BY <1>2
  <2>2. r[k] = q[old(k)] /\ r[l] = q[old(l)]
    BY <1>1, Zenon
  <2>3. old(k) = old(l)
    BY <1>2, <2>1, <2>2, Zenon DEF Distinct
  <2> QED
    BY <1>2, <2>3
<1>5. ASSUME NEW id, InQueue(r, id) PROVE InQueue(q, id) /\ id # q[i]
  <2>1. PICK k \in 1..(Len(q) - 1) : r[k] = id
    BY <1>3, <1>5, Zenon DEF InQueue
  <2>2. CASE k < i
    BY <1>1, <1>2, <2>1, <2>2 DEF InQueue, Distinct
  <2>3. CASE ~(k < i)
    BY <1>1, <1>2, <2>1, <2>3 DEF InQueue, Distinct
  <2> QED
    BY <2>2, <2>3, Zenon
<1>6. ASSUME NEW id, InQueue(q, id), id # q[i] PROVE InQueue(r, id)
  <2>1. PICK k \in 1..Len(q) : q[k] = id
    BY <1>2, <1>6, Zenon DEF InQueue
  <2>2. CASE k < i
    BY <1>1, <1>2, <1>3, <2>1, <2>2 DEF InQueue
  <2>3. CASE k > i
    <3>1. k - 1 \in 1..(Len(q) - 1) /\ r[k - 1] = q[k]
      BY <1>1, <1>2, <2>1, <2>3
    <3> QED
      BY <1>3, <2>1, <3>1, Zenon DEF InQueue
  <2> QED
    BY <1>2, <1>6, <2>1, <2>2, <2>3
<1> QED
  BY <1>4, <1>5, <1>6, Zenon DEF r

\* cancel_job takes the cancelled job out of the queue and leaves the others.
LEMMA DequeueMembers ==
    ASSUME NEW q \in Seq(JobIds), NEW id
    PROVE  /\ Dequeue(q, id) \in Seq(JobIds)
           /\ Distinct(q) =>
                /\ Distinct(Dequeue(q, id))
                /\ \A k : InQueue(Dequeue(q, id), k) <=> InQueue(q, k) /\ k # id
<1>1. CASE \E i \in DOMAIN q : q[i] = id
  <2>1. PICK i \in DOMAIN q : q[i] = id /\ Dequeue(q, id) = RemoveAt(q, i)
    BY <1>1, Zenon DEF Dequeue
  <2> QED
    BY <2>1, RemoveAtShape, RemoveAtMembers
<1>2. CASE ~\E i \in DOMAIN q : q[i] = id
  BY <1>2, Zenon DEF Dequeue, InQueue
<1> QED
  BY <1>1, <1>2, Zenon

\* Appending a job that is not in the queue adds exactly that job.
LEMMA AppendMembers ==
    ASSUME NEW q \in Seq(JobIds), NEW id \in JobIds
    PROVE  /\ Append(q, id) \in Seq(JobIds)
           /\ \A k : InQueue(Append(q, id), k) <=> InQueue(q, k) \/ k = id
           /\ Distinct(q) /\ ~InQueue(q, id) => Distinct(Append(q, id))
<1> DEFINE r == Append(q, id)
<1>1. /\ r \in Seq(JobIds)
      /\ Len(q) \in Nat /\ DOMAIN q = 1..Len(q)
      /\ DOMAIN r = 1..(Len(q) + 1)
      /\ \A k \in 1..Len(q) : r[k] = q[k]
      /\ r[Len(q) + 1] = id
  OBVIOUS
<1> HIDE DEF r
<1>2. ASSUME NEW k PROVE InQueue(r, k) <=> InQueue(q, k) \/ k = id
  BY <1>1 DEF InQueue
<1>3. Distinct(q) /\ ~InQueue(q, id) => Distinct(r)
  BY <1>1 DEF Distinct, InQueue
<1> QED
  BY <1>1, <1>2, <1>3, Zenon DEF r

-----------------------------------------------------------------------------
(* Type correctness.                                                         *)

\* Charging failures keeps their number within the bound.
LEMMA ChargeType ==
    ASSUME NEW outcomes, faults \in 0..MaxFaults, Charge(outcomes)
    PROVE  faults' \in 0..MaxFaults
  BY SchedulerAssumption DEF SchedulerAssumption, Charge

\* The outcomes of an instance are outcomes of append.
LEMMA OutcomeTypes == \A o \in Outcomes : o \in Acknowledged \cup WriteFaults
  BY Zenon DEF Outcomes

\* The orderings that hydrate may produce hold every given job exactly once.
LEMMA OrderingsFacts ==
    ASSUME NEW ids \in SUBSET JobIds, NEW q \in Orderings(ids)
    PROVE  /\ q \in Seq(JobIds)
           /\ Distinct(q)
           /\ \A id : InQueue(q, id) <=> id \in ids
<1>1. PICK n \in 0..MaxQueue : q \in [1..n -> ids]
  BY Zenon DEF Orderings
<1>2. n \in Nat /\ DOMAIN q = 1..n
  BY <1>1, SchedulerAssumption DEF SchedulerAssumption
<1>3. q \in Seq(JobIds)
  BY <1>1, <1>2
<1>4. \A id \in ids : \E i \in DOMAIN q : \A k \in DOMAIN q : q[k] = id <=> k = i
  BY Zenon DEF Orderings
<1>5. Distinct(q)
  BY <1>1, <1>2, <1>4 DEF Distinct
<1>6. \A id : InQueue(q, id) <=> id \in ids
  BY <1>1, <1>2, <1>4, Zenon DEF InQueue
<1> QED
  BY <1>3, <1>5, <1>6, Zenon

\* The job that finish_job and requeue_refused record, and the store they leave.
LEMMA PersistedType ==
    ASSUME TypeOK, NEW id \in JobIds, NEW job \in Job, NEW o1 \in Outcomes, NEW o2 \in Outcomes
    PROVE  /\ Persisted(id, job, o1) \in Job
           /\ PersistedStore(id, job, o1, o2) \in Store
<1>1. require_reconciliation(job) \in Job
  BY TransitionTypes, Zenon
<1>2. append(store, id, job, o1) \in Store
  BY AppendType, OutcomeTypes, Zenon DEF TypeOK
<1>3. append(append(store, id, job, o1), id, require_reconciliation(job), o2) \in Store
  BY <1>1, <1>2, AppendType, OutcomeTypes, Zenon
<1> QED
  BY <1>1, <1>2, <1>3, Zenon DEF Persisted, PersistedStore

\* What a finished handler makes of its job is a well-typed job.
LEMMA FinishedType ==
    ASSUME TypeOK, NEW id \in JobIds, NEW result
    PROVE  Finished(id, result) \in Job
<1>1. registry[id] \in Job
  BY Zenon DEF TypeOK, JobMaps
<1>2. fail(registry[id]) \in Job /\ fail(registry[id]).retry = registry[id].retry
  BY <1>1, TransitionTypes DEF fail, Job
<1>3. Retries(id, result) => prepare_retry(fail(registry[id])) \in Job
  BY <1>1, <1>2, TransitionTypes, Zenon DEF Retries, can_retry
<1> QED
  BY <1>1, <1>2, <1>3, TransitionTypes, Zenon DEF Finished

\* Settle leaves a well-typed registry, store and set of retired jobs.
LEMMA SettleType ==
    ASSUME TypeOK, NEW jobs \in JobMaps, NEW s \in Store, NEW p, Settle(jobs, s, p)
    PROVE  registry' \in JobMaps /\ store' \in Store /\ retired' \in SUBSET JobIds
<1>1. registry' \in JobMaps
  BY PruneFacts, Zenon DEF Settle
<1>2. store' \in Store
  BY StoreTypes, Zenon DEF Settle
<1>3. retired' \in SUBSET JobIds
  BY Zenon DEF Settle, Dropped, Terminal, TypeOK
<1> QED
  BY <1>1, <1>2, <1>3, Zenon

\* Init is well typed.
LEMMA InitType == Init => TypeOK
<1> SUFFICES ASSUME Init PROVE TypeOK
  BY Zenon
<1>1. registry \in JobMaps /\ store \in Store
  BY ConstantJobTypes, SnapshotType, Zenon DEF Init
<1>2. faults \in 0..MaxFaults /\ crashes \in 0..MaxCrashes
  BY SchedulerAssumption DEF Init, SchedulerAssumption
<1>3. queue \in Seq(JobIds) /\ task \in [JobIds -> TaskStates]
  BY DEF Init, TaskStates
<1>4. /\ receipts \in [JobIds -> SUBSET Decisions]
      /\ attempt \in [JobIds -> {"none", "begun", "error", "success"}]
      /\ runs \in [JobIds -> Nat]
  BY Zenon DEF Init
<1> QED
  BY <1>1, <1>2, <1>3, <1>4, Zenon DEF Init, TypeOK, LoopStates

\* A client's call keeps the types.
LEMMA ClientType == ASSUME TypeOK, Client PROVE TypeOK'
<1> USE DEF history, process
<1>0. /\ \A id \in JobIds : registry[id] \in Job
      /\ \A id \in JobIds, job \in Job : [registry EXCEPT ![id] = job] \in JobMaps
      /\ \A id \in JobIds, job \in Job, o \in Outcomes : append(store, id, job, o) \in Store
  BY AppendType, OutcomeTypes, Zenon DEF TypeOK, JobMaps
<1>1. ASSUME NEW id \in JobIds, NEW o \in Outcomes, submit(id, o) PROVE TypeOK'
  <2>1. faults' \in 0..MaxFaults
    BY <1>1, ChargeType, Zenon DEF submit, TypeOK
  <2>2. store' \in Store /\ registry' \in JobMaps
    BY <1>0, <1>1, ConstantJobTypes DEF submit, TypeOK
  <2>3. queue' \in Seq(JobIds)
    BY <1>1, AppendMembers, Zenon DEF submit, TypeOK
  <2> QED
    BY <1>1, <2>1, <2>2, <2>3, Zenon DEF submit, TypeOK
<1>2. ASSUME NEW id \in JobIds, NEW o \in Outcomes, cancel_running(id, o) PROVE TypeOK'
  <2>1. faults' \in 0..MaxFaults
    BY <1>2, ChargeType, Zenon DEF cancel_running, TypeOK
  <2>2. store' \in Store /\ registry' \in JobMaps
    BY <1>0, <1>2, TransitionTypes, Zenon DEF cancel_running, TypeOK
  <2> QED
    BY <1>2, <2>1, <2>2, Zenon DEF cancel_running, TypeOK, TaskStates
<1>3. ASSUME NEW id \in JobIds, NEW o \in Outcomes, NEW p \in PruneOutcomes, cancel_pending(id, o, p)
      PROVE TypeOK'
  <2> DEFINE job == cancel(registry[id])
  <2>1. faults' \in 0..MaxFaults
    BY <1>3, ChargeType, Zenon DEF cancel_pending, TypeOK
  <2>2. append(store, id, job, o) \in Store /\ [registry EXCEPT ![id] = job] \in JobMaps
    BY <1>0, TransitionTypes, Zenon
  <2>3. store' \in Store /\ registry' \in JobMaps /\ retired' \in SUBSET JobIds
    BY <1>3, <2>2, SettleType, Zenon DEF cancel_pending, TypeOK
  <2>4. queue' \in Seq(JobIds)
    BY <1>3, DequeueMembers DEF cancel_pending, TypeOK
  <2> QED
    BY <1>3, <2>1, <2>3, <2>4, Zenon DEF cancel_pending, TypeOK
<1>4. ASSUME NEW id \in JobIds, NEW o \in Outcomes, NEW d \in Decisions, NEW p \in PruneOutcomes,
             resolve_job(id, d, o, p)
      PROVE TypeOK'
  <2> DEFINE job == resolve(registry[id], d)
  <2>1. faults' \in 0..MaxFaults
    BY <1>4, ChargeType, Zenon DEF resolve_job, TypeOK
  <2>2. append(store, id, job, o) \in Store /\ [registry EXCEPT ![id] = job] \in JobMaps
    BY <1>0, TransitionTypes, Zenon
  <2>3. store' \in Store /\ registry' \in JobMaps /\ retired' \in SUBSET JobIds
    BY <1>4, <2>2, SettleType, Zenon DEF resolve_job, TypeOK
  <2>4. resolving' \in SUBSET JobIds
    BY <1>4, Zenon DEF resolve_job, TypeOK
  <2>5. receipts' \in [JobIds -> SUBSET Decisions]
    <3>1. receipts' = receipts \/ receipts' = [receipts EXCEPT ![id] = @ \cup {d}]
      BY <1>4, Zenon DEF resolve_job
    <3> QED
      BY <3>1 DEF TypeOK
  <2> QED
    BY <1>4, <2>1, <2>3, <2>4, <2>5, Zenon DEF resolve_job, TypeOK
<1>5. ASSUME NEW id \in JobIds, resolve_again(id) PROVE TypeOK'
  <2>1. receipts' \in [JobIds -> SUBSET Decisions]
    BY <1>0, <1>5 DEF resolve_again, TypeOK, Job
  <2> QED
    BY <1>5, <2>1, Zenon DEF resolve_again, TypeOK
<1>6. CASE request_shutdown \/ deny_admission
  BY <1>6, Zenon DEF request_shutdown, deny_admission, TypeOK
<1> QED
  BY <1>1, <1>2, <1>3, <1>4, <1>5, <1>6, Zenon DEF Client

\* A step of the run loop keeps the types.
LEMMA RunLoopType == ASSUME TypeOK, RunLoop PROVE TypeOK'
<1> USE DEF history, process, LoopStates, TaskStates
<1>0. /\ \A id \in JobIds : registry[id] \in Job
      /\ \A id \in JobIds, job \in Job : [registry EXCEPT ![id] = job] \in JobMaps
      /\ \A id \in JobIds, job \in Job, o \in Outcomes : append(store, id, job, o) \in Store
  BY AppendType, OutcomeTypes, Zenon DEF TypeOK, JobMaps
<1>1. CASE acquire_permit \/ dispatch_idle \/ drained
  BY <1>1 DEF acquire_permit, dispatch_idle, drained, TypeOK
<1>2. ASSUME NEW i \in DOMAIN queue, NEW o \in Outcomes, dispatch(i, o) PROVE TypeOK'
  <2>1. faults' \in 0..MaxFaults
    BY <1>2, ChargeType, Zenon DEF dispatch, TypeOK
  <2>2. queue \in Seq(JobIds) /\ queue[i] \in JobIds
    BY DEF TypeOK
  <2>3. store' \in Store /\ registry' \in JobMaps
    <3> DEFINE job == start(registry[queue[i]])
    <3>1. job \in Job
      BY <1>0, <2>2, TransitionTypes, Zenon
    <3>2. store' = append(store, queue[i], job, o)
      BY <1>2, Zenon DEF dispatch
    <3>3. registry' = registry \/ registry' = [registry EXCEPT ![queue[i]] = job]
      BY <1>2, Zenon DEF dispatch
    <3>4. registry \in JobMaps
      BY Zenon DEF TypeOK
    <3> HIDE DEF job
    <3> QED
      BY <1>0, <2>2, <3>1, <3>2, <3>3, <3>4
  <2>4. queue' \in Seq(JobIds)
    <3>1. RemoveAt(queue, i) \in Seq(JobIds)
      BY <2>2, RemoveAtShape, Zenon
    <3>2. queue' = RemoveAt(queue, i) \/ queue' = Append(RemoveAt(queue, i), queue[i])
      BY <1>2, Zenon DEF dispatch
    <3> QED
      BY <2>2, <3>1, <3>2, AppendMembers
  <2>5. /\ task' \in [JobIds -> TaskStates]
        /\ attempt' \in [JobIds -> {"none", "begun", "error", "success"}]
        /\ runs' \in [JobIds -> Nat]
    <3>1. CASE o \in Acknowledged
      <4>1. /\ task' = [task EXCEPT ![queue[i]] = "executing"]
            /\ attempt' = [attempt EXCEPT ![queue[i]] = "begun"]
            /\ runs' = [runs EXCEPT ![queue[i]] = @ + 1]
        BY <1>2, <3>1, Zenon DEF dispatch
      <4> QED
        BY <2>2, <4>1 DEF TypeOK
    <3>2. CASE o \notin Acknowledged
      BY <1>2, <3>2, Zenon DEF dispatch, TypeOK
    <3> QED
      BY <3>1, <3>2, Zenon
  <2> QED
    BY <1>2, <2>1, <2>3, <2>4, <2>5, Zenon DEF dispatch, TypeOK
<1>3. CASE abort_handles
  BY <1>3, Zenon DEF abort_handles, TypeOK
<1>4. ASSUME NEW id \in JobIds, NEW o \in Outcomes, abort_running(id, o) PROVE TypeOK'
  <2>1. faults' \in 0..MaxFaults
    BY <1>4, ChargeType, Zenon DEF abort_running, TypeOK
  <2>2. store' \in Store /\ registry' \in JobMaps
    BY <1>0, <1>4, TransitionTypes, Zenon DEF abort_running, TypeOK
  <2> QED
    BY <1>4, <2>1, <2>2, Zenon DEF abort_running, TypeOK
<1>5. CASE abort_done
  BY <1>5, Zenon DEF abort_done, TypeOK
<1> QED
  BY <1>1, <1>2, <1>3, <1>4, <1>5, Zenon DEF RunLoop

\* A step of a job's task keeps the types.
LEMMA JobTaskType == ASSUME TypeOK, NEW id \in JobIds, JobTask(id) PROVE TypeOK'
<1> USE DEF history, process, TaskStates
<1>0. registry[id] \in Job /\ \A job \in Job : [registry EXCEPT ![id] = job] \in JobMaps
  BY Zenon DEF TypeOK, JobMaps
<1>1. ASSUME NEW r \in Results, NEW o1 \in Outcomes, NEW o2 \in Outcomes, NEW p \in PruneOutcomes,
             finish_job(id, r, o1, o2, p)
      PROVE  TypeOK'
  <2> DEFINE job == Persisted(id, Finished(id, r), o1)
             s == PersistedStore(id, Finished(id, r), o1, o2)
  <2>1. faults' \in 0..MaxFaults
    BY <1>1, ChargeType, Zenon DEF finish_job, TypeOK
  <2>2. job \in Job /\ s \in Store
    BY FinishedType, PersistedType, Zenon
  <2>3. store' \in Store /\ registry' \in JobMaps /\ retired' \in SUBSET JobIds
    BY <1>0, <1>1, <2>2, SettleType, Zenon DEF finish_job, TypeOK
  <2>4. task' \in [JobIds -> TaskStates]
    BY <1>1, Zenon DEF finish_job, TypeOK
  <2>5. attempt' \in [JobIds -> {"none", "begun", "error", "success"}]
    BY <1>1, Zenon DEF finish_job, TypeOK, Results
  <2> QED
    BY <1>1, <2>1, <2>3, <2>4, <2>5, Zenon DEF finish_job, TypeOK
<1>2. CASE task_aborted(id) \/ retry_dropped(id)
  BY <1>2, Zenon DEF task_aborted, retry_dropped, TypeOK
<1>3. CASE requeue_after_backoff(id)
  BY <1>3, AppendMembers, Zenon DEF requeue_after_backoff, TypeOK
<1>4. ASSUME NEW o1 \in Outcomes, NEW o2 \in Outcomes, NEW p \in PruneOutcomes,
             requeue_refused(id, o1, o2, p)
      PROVE  TypeOK'
  <2> DEFINE job == Persisted(id, fail(registry[id]), o1)
             s == PersistedStore(id, fail(registry[id]), o1, o2)
  <2>1. faults' \in 0..MaxFaults
    BY <1>4, ChargeType, Zenon DEF requeue_refused, TypeOK
  <2>2. job \in Job /\ s \in Store
    BY <1>0, TransitionTypes, PersistedType, Zenon
  <2>3. store' \in Store /\ registry' \in JobMaps
    BY <1>0, <1>4, <2>2, StoreTypes, Zenon DEF requeue_refused
  <2>4. retired' \in SUBSET JobIds
    BY <1>4, Zenon DEF requeue_refused, TypeOK, Dropped, Terminal
  <2> QED
    BY <1>4, <2>1, <2>3, <2>4, Zenon DEF requeue_refused, TypeOK
<1> QED
  BY <1>1, <1>2, <1>3, <1>4, Zenon DEF JobTask

\* The end of a process and its restart keep the types.
LEMMA ProcessType == ASSUME TypeOK, Process PROVE TypeOK'
<1> USE DEF history, process, LoopStates, TaskStates
<1>1. ProcessGone => /\ loop' \in LoopStates /\ shutdown' \in BOOLEAN /\ denied' \in BOOLEAN
                     /\ registry' \in JobMaps /\ resolving' \in SUBSET JobIds
                     /\ queue' \in Seq(JobIds) /\ task' \in [JobIds -> TaskStates]
  <2> SUFFICES ASSUME ProcessGone
               PROVE  queue' \in Seq(JobIds) /\ task' \in [JobIds -> TaskStates]
    BY ConstantJobTypes, Zenon DEF ProcessGone
  <2>1. queue' = <<>> /\ task' = [id \in JobIds |-> "none"]
    BY Zenon DEF ProcessGone
  <2> QED
    BY <2>1
<1>2. ASSUME NEW torn \in BOOLEAN, crash(torn) PROVE TypeOK'
  <2>1. crashes' \in 0..MaxCrashes
    BY <1>2, SchedulerAssumption DEF crash, TypeOK, SchedulerAssumption
  <2>2. store' \in Store
    BY <1>2, StoreTypes, Zenon DEF crash, TypeOK
  <2> QED
    BY <1>1, <1>2, <2>1, <2>2, Zenon DEF crash, TypeOK
<1>3. CASE exit
  BY <1>1, <1>3, StoreTypes, Zenon DEF exit, TypeOK
<1>4. CASE open_journal
  <2>1. open(store) \in Store
    BY StoreTypes, Zenon DEF TypeOK
  <2>2. store' \in Store
    BY <1>4, <2>1, StoreTypes, Zenon DEF open_journal
  <2>3. registry' \in JobMaps
    BY <1>4, <2>2, Zenon DEF open_journal, TypeOK, Store
  <2>4. queue' \in Seq(JobIds)
    <3>1. queue' = queue \/ queue' \in Orderings(PendingIn(store'.index))
      BY <1>4, Zenon DEF open_journal
    <3>2. PendingIn(store'.index) \in SUBSET JobIds
      BY Zenon DEF PendingIn
    <3> QED
      BY <3>1, <3>2, OrderingsFacts, Zenon DEF TypeOK
  <2>5. retired' \in SUBSET JobIds
    BY <1>4, Zenon DEF open_journal, TypeOK, Dropped, Terminal
  <2>6. loop' \in LoopStates
    BY <1>4, Zenon DEF open_journal, TypeOK
  <2> QED
    BY <1>4, <2>2, <2>3, <2>4, <2>5, <2>6, Zenon DEF open_journal, TypeOK
<1>5. CASE archive_crash
  <2>1. crashes' \in 0..MaxCrashes
    BY <1>5, SchedulerAssumption DEF archive_crash, TypeOK, SchedulerAssumption
  <2>2. store' \in Store
    BY <1>5, ConstantJobTypes, SnapshotType, Zenon DEF archive_crash
  <2> QED
    BY <1>5, <2>1, <2>2, Zenon DEF archive_crash, TypeOK
<1> QED
  BY <1>2, <1>3, <1>4, <1>5, Zenon DEF Process

\* Every step keeps the types.
LEMMA TypeStep == TypeOK /\ [Next]_vars => TypeOK'
<1> SUFFICES ASSUME TypeOK, [Next]_vars PROVE TypeOK'
  BY Zenon
<1>1. CASE UNCHANGED vars
  BY <1>1, Zenon DEF vars, process, history, TypeOK
<1> QED
  BY <1>1, ClientType, RunLoopType, JobTaskType, ProcessType, Zenon DEF Next

\* Type correctness: whatever fails, every variable of the scheduler keeps its
\* type, in particular retry counts stay within max_retries.
THEOREM TypeCorrect == Spec => []TypeOK
  BY InitType, TypeStep, PTL DEF Spec

-----------------------------------------------------------------------------
(* Registry, ready queue and tasks agree.                                     *)

\* The store holds no record of the job.
Blank(s, id) == s.index[id] = NoJob /\ s.disk[id] = NoJob

\* One job is in order: a queued job is pending and has no task, it is Running
\* exactly while its handler executes (outside abort_all_running, which works with
\* no handler executing), a pending job of a serving scheduler will be picked up, an
\* aborted task's job is not pending, and an id that was never minted appears nowhere.
InOrder(id) ==
    /\ InQueue(queue, id) => registry[id].status = "Pending" /\ task[id] = "none"
    /\ TransitionFree => (registry[id].status = "Running" <=> task[id] = "executing")
    /\ ~TransitionFree => task[id] # "executing"
    /\ loop \in {"top", "dispatch"} /\ ~shutdown /\ registry[id].status = "Pending" =>
          task[id] = "backoff" \/ InQueue(queue, id)
    /\ task[id] = "aborting" => registry[id].status # "Pending"
    /\ id \notin used => registry[id] = NoJob /\ task[id] = "none" /\ Blank(store, id)

\* What a process that is gone has left behind in memory: nothing.
DownIsEmpty ==
    ~Up => registry = NoJobs /\ queue = <<>> /\ ~shutdown /\ \A id \in JobIds : task[id] = "none"

\* The inductive strengthening of QueuedIsPending, RunningHasTask and
\* PendingIsScheduled.
Bookkeeping == DownIsEmpty /\ Distinct(queue) /\ \A id \in JobIds : InOrder(id)

\* Bookkeeping says what the three invariants say.
LEMMA BookkeepingImplies ==
    TypeOK /\ Bookkeeping => JobsAreAccountedFor
<1> SUFFICES ASSUME TypeOK, Bookkeeping PROVE JobsAreAccountedFor
  BY Zenon
<1>1. QueuedIsPending
  BY DEF TypeOK, Bookkeeping, QueuedIsPending, InOrder, Distinct, InQueue
<1>2. RunningHasTask
  BY Zenon DEF Bookkeeping, RunningHasTask, InOrder
<1>3. PendingIsScheduled
  BY Zenon DEF Bookkeeping, PendingIsScheduled, InOrder, InQueue
<1> QED
  BY <1>1, <1>2, <1>3, Zenon DEF JobsAreAccountedFor

\* No operation of the store makes up a record of another job.
LEMMA BlankFrame ==
    ASSUME NEW s \in Store, NEW k \in JobIds, Blank(s, k)
    PROVE  /\ \A id \in JobIds, job \in Job, o \in Acknowledged \cup WriteFaults :
                id # k => Blank(append(s, id, job, o), k)
           /\ \A o : \A t \in prune_store_terminal(s, o) : Blank(t, k)
           /\ \A inWrite \in BOOLEAN : Blank(Closed(s, inWrite), k)
           /\ Blank(open(s), k)
<1>1. ASSUME NEW id \in JobIds, NEW job \in Job, NEW o \in Acknowledged \cup WriteFaults, id # k
      PROVE  Blank(append(s, id, job, o), k)
  <2>1. LineWritten(s, id, job) \in Store /\ Blank(LineWritten(s, id, job), k)
    BY <1>1, Zenon DEF LineWritten, Store, JobMaps, Blank
  <2>2. Blank(LineSynced(s, id, job), k)
    BY <1>1, <2>1, Zenon DEF LineSynced, Store, JobMaps, Blank
  <2>3. Blank(LineUnsynced(s, id, job), k)
    BY <2>1, Zenon DEF LineUnsynced, Store, Blank
  <2>4. Blank(Snapshot([s.index EXCEPT ![id] = job]), k)
    BY <1>1, Zenon DEF Snapshot, Store, JobMaps, Blank
  <2>5. Blank([s EXCEPT !.torn = TRUE], k)
    BY Zenon DEF Store, Blank
  <2> QED
    BY <2>2, <2>3, <2>4, <2>5, Zenon DEF append, Acknowledged, WriteFaults
<1>2. ASSUME NEW o, NEW t \in prune_store_terminal(s, o) PROVE Blank(t, k)
  <2>1. Blank(Rescanned(s), k)
    BY Zenon DEF Rescanned, Store, Blank
  <2>2. \A jobs \in prune_terminal(s.index) : Blank(Snapshot(jobs), k)
    BY PruneFacts, Zenon DEF Store, Snapshot, Blank
  <2> QED
    BY <1>2, <2>1, <2>2, Zenon DEF prune_store_terminal
<1>3. \A inWrite \in BOOLEAN : Blank(Closed(s, inWrite), k)
  BY Zenon DEF Closed, Store, NoJobs, Blank
<1>4. Blank(open(s), k)
  BY Zenon DEF open, Snapshot, Reopened, Blank
<1> QED
  BY <1>1, <1>2, <1>3, <1>4, Zenon

\* The same for the one or two appends of persist_or_reconcile.
LEMMA PersistedBlank ==
    ASSUME TypeOK, NEW id \in JobIds, NEW job \in Job, NEW o1 \in Outcomes, NEW o2 \in Outcomes,
           NEW k \in JobIds, k # id, Blank(store, k)
    PROVE  Blank(PersistedStore(id, job, o1, o2), k)
<1>1. /\ append(store, id, job, o1) \in Store
      /\ Blank(append(store, id, job, o1), k)
  BY AppendType, BlankFrame, OutcomeTypes, Zenon DEF TypeOK
<1>2. require_reconciliation(job) \in Job
  BY TransitionTypes, Zenon
<1>3. Blank(append(append(store, id, job, o1), id, require_reconciliation(job), o2), k)
  BY <1>1, <1>2, BlankFrame, OutcomeTypes, Zenon
<1> QED
  BY <1>1, <1>3, Zenon DEF PersistedStore

\* Settling a job that has ended leaves the other jobs alone, but for retention.
LEMMA SettleFacts ==
    ASSUME TypeOK, NEW id \in JobIds, NEW job \in Job, job.status \notin {"Pending", "Running"},
           NEW s \in Store, NEW p, Settle([registry EXCEPT ![id] = job], s, p)
    PROVE  \A k \in JobIds :
             /\ k # id => \/ registry'[k] = registry[k]
                          \/ registry'[k] = NoJob /\ registry[k].status \in TerminalStatus
             /\ k = id => registry'[k] \in {job, NoJob}
             /\ Blank(s, k) => Blank(store', k)
<1> DEFINE jobs == [registry EXCEPT ![id] = job]
<1>1. jobs \in JobMaps /\ \A k \in JobIds : jobs[k] = IF k = id THEN job ELSE registry[k]
  BY Zenon DEF TypeOK, JobMaps
<1>2. Settle(jobs, s, p)
  BY Zenon
<1> HIDE DEF jobs
<1>3. \A k \in JobIds :
        \/ registry'[k] = jobs[k]
        \/ registry'[k] = NoJob /\ jobs[k].status \in TerminalStatus
  BY <1>1, <1>2, PruneFacts, Zenon DEF Settle
<1>4. \A k \in JobIds : Blank(s, k) => Blank(store', k)
  BY <1>2, BlankFrame, Zenon DEF Settle
<1> QED
  BY <1>1, <1>3, <1>4, Zenon

\* A job that a step does not act on stays in order when the run loop stays where it
\* is: its registry entry is kept or, when terminal, dropped by retention.
LEMMA OthersStayInOrder ==
    ASSUME NEW k \in JobIds, InOrder(k),
           loop' = loop, shutdown' = shutdown, k \in used <=> k \in used', task'[k] = task[k],
           InQueue(queue', k) <=> InQueue(queue, k),
           \/ registry'[k] = registry[k]
           \/ registry'[k] = NoJob /\ registry[k].status \in TerminalStatus,
           Blank(store, k) => Blank(store', k)
    PROVE  InOrder(k)'
  BY DEF InOrder, TransitionFree, TerminalStatus, NoJob

\* A client's call preserves the bookkeeping.
LEMMA ClientBookkeeping == ASSUME TypeOK, TypeOK', Bookkeeping, Client PROVE Bookkeeping'
<1>0. /\ NoJob.status = "Absent" /\ NewJob.status = "Pending"
      /\ \A k \in JobIds : registry[k] \in Job
      /\ \A k \in JobIds : InOrder(k)
      /\ \A k \in JobIds : registry[k] # NoJob => k \in used
      /\ queue \in Seq(JobIds) /\ Distinct(queue)
  BY Zenon DEF NoJob, NewJob, TypeOK, JobMaps, Bookkeeping, InOrder
<1>1. ASSUME NEW id \in JobIds, NEW o \in Outcomes, submit(id, o) PROVE Bookkeeping'
  <2>1. id \notin used /\ registry[id] = NoJob /\ task[id] = "none" /\ ~InQueue(queue, id)
    BY <1>0, <1>1, Zenon DEF submit, InOrder
  <2>2. /\ loop # "down" /\ TransitionFree /\ used' = used \cup {id}
        /\ loop' = loop /\ shutdown' = shutdown /\ task' = task
    BY <1>1, Zenon DEF submit, Up
  <2>3. \A k \in JobIds \ {id} : Blank(store, k) => Blank(store', k)
    BY <1>1, BlankFrame, OutcomeTypes, ConstantJobTypes, Zenon DEF submit, TypeOK
  <2>4. CASE o \in Acknowledged
    <3>1. queue' = Append(queue, id) /\ registry' = [registry EXCEPT ![id] = NewJob]
      BY <1>1, <2>4, Zenon DEF submit
    <3>2. Distinct(queue') /\ \A k : InQueue(queue', k) <=> InQueue(queue, k) \/ k = id
      BY <1>0, <2>1, <3>1, AppendMembers, Zenon
    <3>3. registry'[id] = NewJob /\ \A k \in JobIds \ {id} : registry'[k] = registry[k]
      BY <3>1, Zenon DEF TypeOK, JobMaps
    <3>4. \A k \in JobIds \ {id} : InOrder(k)'
      BY <1>0, <2>2, <2>3, <3>2, <3>3, OthersStayInOrder, Zenon
    <3>5. InOrder(id)'
      BY <1>0, <2>1, <2>2, <3>2, <3>3, Zenon DEF InOrder, TransitionFree
    <3> QED
      BY <2>2, <3>2, <3>4, <3>5, Zenon DEF Bookkeeping, DownIsEmpty, Up
  <2>5. CASE o \notin Acknowledged
    <3>1. queue' = queue /\ registry' = registry
      BY <1>1, <2>5, Zenon DEF submit
    <3>2. \A k \in JobIds \ {id} : InOrder(k)'
      BY <1>0, <2>2, <2>3, <3>1, OthersStayInOrder, Zenon
    <3>3. InOrder(id)'
      BY <1>0, <2>1, <2>2, <3>1, Zenon DEF InOrder, TransitionFree
    <3> QED
      BY <1>0, <2>2, <3>1, <3>2, <3>3, Zenon DEF Bookkeeping, DownIsEmpty, Up
  <2> QED
    BY <2>4, <2>5, Zenon
<1>2. ASSUME NEW id \in JobIds, NEW o \in Outcomes, cancel_running(id, o) PROVE Bookkeeping'
  <2> DEFINE job == require_reconciliation(registry[id])
  <2>1. job \in Job /\ job.status = "ReconciliationRequired"
    BY <1>0, TransitionTypes, TransitionFields, Zenon
  <2>2. /\ loop # "down" /\ TransitionFree /\ registry[id].status = "Running" /\ id \in used
        /\ loop' = loop /\ shutdown' = shutdown /\ used' = used /\ queue' = queue
    BY <1>0, <1>2, Zenon DEF cancel_running, Up, history
  <2>3. \A k \in JobIds \ {id} : Blank(store, k) => Blank(store', k)
    BY <1>2, <2>1, BlankFrame, OutcomeTypes, Zenon DEF cancel_running, TypeOK
  <2>4. /\ registry'[id] = job /\ \A k \in JobIds \ {id} : registry'[k] = registry[k]
        /\ task'[id] = "aborting" /\ \A k \in JobIds \ {id} : task'[k] = task[k]
    BY <1>2, Zenon DEF cancel_running, TypeOK, JobMaps
  <2> HIDE DEF job
  <2>5. \A k \in JobIds \ {id} : InOrder(k)'
    BY <1>0, <2>2, <2>3, <2>4, OthersStayInOrder, Zenon
  <2>6. InOrder(id)'
    BY <1>0, <2>1, <2>2, <2>4, Zenon DEF InOrder, TransitionFree
  <2> QED
    BY <1>0, <2>2, <2>5, <2>6, Zenon DEF Bookkeeping, DownIsEmpty, Up
<1>3. ASSUME NEW id \in JobIds, NEW o \in Outcomes, NEW p \in PruneOutcomes, cancel_pending(id, o, p)
      PROVE Bookkeeping'
  <2> DEFINE job == cancel(registry[id])
             s == append(store, id, job, o)
  <2>1. job \in Job /\ job.status = "Cancelled"
    BY <1>0, TransitionTypes, TransitionFields, Zenon
  <2>2. /\ loop # "down" /\ TransitionFree /\ registry[id].status = "Pending" /\ id \in used
        /\ loop' = loop /\ shutdown' = shutdown /\ used' = used /\ task' = task
    BY <1>0, <1>3, Zenon DEF cancel_pending, Up
  <2>3. s \in Store /\ \A k \in JobIds \ {id} : Blank(store, k) => Blank(s, k)
    BY <2>1, AppendType, BlankFrame, OutcomeTypes, Zenon DEF TypeOK
  <2>4. CASE o \in Acknowledged
    <3>1. Settle([registry EXCEPT ![id] = job], s, p) /\ queue' = Dequeue(queue, id)
      BY <1>3, <2>4, Zenon DEF cancel_pending
    <3> HIDE DEF s, job
    <3>2. \A k \in JobIds :
            /\ k # id => \/ registry'[k] = registry[k]
                         \/ registry'[k] = NoJob /\ registry[k].status \in TerminalStatus
            /\ k = id => registry'[k] \in {job, NoJob}
            /\ Blank(s, k) => Blank(store', k)
      BY <2>1, <2>3, <3>1, SettleFacts, Zenon
    <3>3. Distinct(queue') /\ \A k : InQueue(queue', k) <=> InQueue(queue, k) /\ k # id
      BY <1>0, <3>1, DequeueMembers, Zenon
    <3>4. \A k \in JobIds \ {id} : InOrder(k)'
      BY <1>0, <2>2, <2>3, <3>2, <3>3, OthersStayInOrder, Zenon
    <3>5. registry'[id].status \notin {"Pending", "Running"}
      BY <1>0, <2>1, <3>2, Zenon
    <3>6. InOrder(id)'
      BY <1>0, <2>2, <3>3, <3>5, Zenon DEF InOrder, TransitionFree
    <3> QED
      BY <2>2, <3>3, <3>4, <3>6, Zenon DEF Bookkeeping, DownIsEmpty, Up
  <2>5. CASE o \notin Acknowledged
    <3>1. registry' = registry /\ queue' = queue /\ store' = s
      BY <1>3, <2>5, Zenon DEF cancel_pending
    <3>2. \A k \in JobIds \ {id} : InOrder(k)'
      BY <1>0, <2>2, <2>3, <3>1, OthersStayInOrder, Zenon
    <3>3. InOrder(id)'
      BY <1>0, <2>2, <3>1, Zenon DEF InOrder, TransitionFree
    <3> QED
      BY <1>0, <2>2, <3>1, <3>2, <3>3, Zenon DEF Bookkeeping, DownIsEmpty, Up
  <2> QED
    BY <2>4, <2>5, Zenon
<1>4. ASSUME NEW id \in JobIds, NEW o \in Outcomes, NEW d \in Decisions, NEW p \in PruneOutcomes,
             resolve_job(id, d, o, p)
      PROVE Bookkeeping'
  <2> DEFINE job == resolve(registry[id], d)
             s == append(store, id, job, o)
  <2>1. job \in Job /\ job.status = "Resolved"
    BY <1>0, TransitionTypes, TransitionFields, Zenon
  <2>2. /\ loop # "down" /\ TransitionFree /\ registry[id].status = "ReconciliationRequired"
        /\ loop' = loop /\ shutdown' = shutdown /\ used' = used /\ task' = task /\ queue' = queue
        /\ id \in used
    BY <1>0, <1>4, Zenon DEF resolve_job, Up
  <2>3. s \in Store /\ \A k \in JobIds \ {id} : Blank(store, k) => Blank(s, k)
    BY <2>1, AppendType, BlankFrame, OutcomeTypes, Zenon DEF TypeOK
  <2>4. CASE o \in Acknowledged
    <3>1. Settle([registry EXCEPT ![id] = job], s, p)
      BY <1>4, <2>4, Zenon DEF resolve_job
    <3> HIDE DEF s, job
    <3>2. \A k \in JobIds :
            /\ k # id => \/ registry'[k] = registry[k]
                         \/ registry'[k] = NoJob /\ registry[k].status \in TerminalStatus
            /\ k = id => registry'[k] \in {job, NoJob}
            /\ Blank(s, k) => Blank(store', k)
      BY <2>1, <2>3, <3>1, SettleFacts, Zenon
    <3>3. \A k \in JobIds \ {id} : InOrder(k)'
      BY <1>0, <2>2, <2>3, <3>2, OthersStayInOrder, Zenon
    <3>4. registry'[id].status \notin {"Pending", "Running"}
      BY <1>0, <2>1, <3>2, Zenon
    <3>5. InOrder(id)'
      BY <1>0, <2>2, <3>4, Zenon DEF InOrder, TransitionFree
    <3> QED
      BY <1>0, <2>2, <3>3, <3>5, Zenon DEF Bookkeeping, DownIsEmpty, Up
  <2>5. CASE o \notin Acknowledged
    <3>1. registry' = registry /\ store' = s
      BY <1>4, <2>5, Zenon DEF resolve_job
    <3>2. \A k \in JobIds \ {id} : InOrder(k)'
      BY <1>0, <2>2, <2>3, <3>1, OthersStayInOrder, Zenon
    <3>3. InOrder(id)'
      BY <1>0, <2>2, <3>1, Zenon DEF InOrder, TransitionFree
    <3> QED
      BY <1>0, <2>2, <3>2, <3>3, Zenon DEF Bookkeeping, DownIsEmpty, Up
  <2> QED
    BY <2>4, <2>5, Zenon
<1>5. ASSUME NEW id \in JobIds, resolve_again(id) PROVE Bookkeeping'
  BY <1>5 DEF resolve_again, process, Bookkeeping, DownIsEmpty, InOrder, Up, TransitionFree
<1>6. CASE request_shutdown \/ deny_admission
  <2>1. /\ loop # "down" /\ loop' = loop /\ (shutdown => shutdown')
        /\ registry' = registry /\ queue' = queue /\ task' = task /\ store' = store /\ used' = used
    BY <1>6 DEF request_shutdown, deny_admission, Up, history
  <2>2. \A k \in JobIds : InOrder(k)'
    BY <1>0, <2>1 DEF InOrder, TransitionFree
  <2> QED
    BY <1>0, <2>1, <2>2, Zenon DEF Bookkeeping, DownIsEmpty, Up
<1> QED
  BY <1>1, <1>2, <1>3, <1>4, <1>5, <1>6, Zenon DEF Client

\* A step of the run loop preserves the bookkeeping.
LEMMA RunLoopBookkeeping == ASSUME TypeOK, TypeOK', Bookkeeping, RunLoop PROVE Bookkeeping'
<1>0. /\ NoJob.status = "Absent"
      /\ \A k \in JobIds : registry[k] \in Job
      /\ \A k \in JobIds : InOrder(k)
      /\ \A k \in JobIds : registry[k] # NoJob => k \in used
      /\ queue \in Seq(JobIds) /\ Distinct(queue)
  BY Zenon DEF NoJob, TypeOK, JobMaps, Bookkeeping, InOrder
<1>1. CASE acquire_permit \/ dispatch_idle \/ drained
  <2>1. /\ loop \in {"top", "dispatch", "joining"} /\ shutdown' = shutdown
        /\ loop' \in {"top", "dispatch", "stopped"}
        /\ loop' \in {"top", "dispatch"} => loop \in {"top", "dispatch"}
        /\ registry' = registry /\ queue' = queue /\ task' = task /\ store' = store /\ used' = used
    BY <1>1, Zenon DEF acquire_permit, dispatch_idle, drained, history
  <2>2. \A k \in JobIds : InOrder(k)'
    BY <1>0, <2>1 DEF InOrder, TransitionFree
  <2> QED
    BY <1>0, <2>1, <2>2, Zenon DEF Bookkeeping, DownIsEmpty, Up
<1>2. ASSUME NEW i \in DOMAIN queue, NEW o \in Outcomes, dispatch(i, o) PROVE Bookkeeping'
  <2>1. PICK id \in JobIds : id = queue[i] /\ InQueue(queue, id)
    BY <1>0 DEF InQueue
  <2> DEFINE job == start(registry[id])
  <2>2. registry[id].status = "Pending" /\ task[id] = "none" /\ id \in used
    BY <1>0, <2>1, Zenon DEF InOrder
  <2>3. job \in Job /\ job.status = "Running"
    BY <1>0, <2>1, TransitionTypes, TransitionFields, Zenon
  <2>4. \A k \in JobIds \ {id} : Blank(store, k) => Blank(store', k)
    BY <1>2, <2>1, <2>3, BlankFrame, OutcomeTypes, Zenon DEF dispatch, TypeOK
  <2>5. /\ Distinct(RemoveAt(queue, i)) /\ RemoveAt(queue, i) \in Seq(JobIds)
        /\ \A k : InQueue(RemoveAt(queue, i), k) <=> InQueue(queue, k) /\ k # id
    BY <1>0, <2>1, RemoveAtShape, RemoveAtMembers
  <2>6. CASE o \in Acknowledged
    <3>1. /\ registry' = [registry EXCEPT ![id] = job] /\ task' = [task EXCEPT ![id] = "executing"]
          /\ queue' = RemoveAt(queue, i)
          /\ loop = "dispatch" /\ loop' = "top" /\ shutdown' = shutdown /\ used' = used
      BY <1>2, <2>1, <2>6, Zenon DEF dispatch
    <3>2. /\ registry'[id] = job /\ \A k \in JobIds \ {id} : registry'[k] = registry[k]
          /\ task'[id] = "executing" /\ \A k \in JobIds \ {id} : task'[k] = task[k]
      BY <2>1, <3>1 DEF TypeOK, JobMaps
    <3> HIDE DEF job
    <3>3. ASSUME NEW k \in JobIds \ {id} PROVE InOrder(k)'
      BY <1>0, <2>4, <2>5, <3>1, <3>2 DEF InOrder, TransitionFree
    <3>4. InOrder(id)'
      BY <2>1, <2>2, <2>3, <2>5, <3>1, <3>2, Zenon DEF InOrder, TransitionFree
    <3> QED
      BY <2>5, <3>1, <3>3, <3>4, Zenon DEF Bookkeeping, DownIsEmpty, Up
  <2>7. CASE o \notin Acknowledged
    <3>1. /\ queue' = Append(RemoveAt(queue, i), id) /\ registry' = registry /\ task' = task
          /\ loop = "dispatch" /\ loop' = "failing" /\ shutdown' = shutdown /\ used' = used
      BY <1>2, <2>1, <2>7, Zenon DEF dispatch
    <3>2. Distinct(queue') /\ \A k : InQueue(queue', k) <=> InQueue(queue, k)
      BY <2>1, <2>5, <3>1, AppendMembers, Zenon
    <3>3. ASSUME NEW k \in JobIds PROVE InOrder(k)'
      BY <1>0, <2>2, <2>4, <3>1, <3>2, Zenon DEF InOrder, TransitionFree
    <3> QED
      BY <3>1, <3>2, <3>3, Zenon DEF Bookkeeping, DownIsEmpty, Up
  <2> QED
    BY <2>6, <2>7, Zenon
<1>3. CASE abort_handles
  <2>1. /\ loop \in {"top", "failing"} /\ loop' \in {"failAbort", "drainAbort"}
        /\ registry' = registry /\ queue' = queue /\ store' = store /\ used' = used
        /\ \A k \in JobIds : task'[k] = IF task[k] = "executing" THEN "aborting" ELSE task[k]
    BY <1>3, Zenon DEF abort_handles, history
  <2>2. ASSUME NEW k \in JobIds PROVE InOrder(k)'
    BY <1>0, <2>1 DEF InOrder, TransitionFree
  <2> QED
    BY <1>0, <2>1, <2>2, Zenon DEF Bookkeeping, DownIsEmpty, Up
<1>4. ASSUME NEW id \in JobIds, NEW o \in Outcomes, abort_running(id, o) PROVE Bookkeeping'
  <2> DEFINE job == require_reconciliation(registry[id])
  <2>1. job \in Job /\ job.status = "ReconciliationRequired"
    BY <1>0, TransitionTypes, TransitionFields, Zenon
  <2>2. /\ ~TransitionFree /\ registry[id].status = "Running" /\ id \in used
        /\ loop' = loop /\ shutdown' = shutdown /\ used' = used /\ queue' = queue /\ task' = task
    BY <1>0, <1>4, Zenon DEF abort_running, history
  <2>3. \A k \in JobIds \ {id} : Blank(store, k) => Blank(store', k)
    BY <1>4, <2>1, BlankFrame, OutcomeTypes, Zenon DEF abort_running, TypeOK
  <2>4. registry'[id] = job /\ \A k \in JobIds \ {id} : registry'[k] = registry[k]
    BY <1>4, Zenon DEF abort_running, TypeOK, JobMaps
  <2> HIDE DEF job
  <2>5. \A k \in JobIds \ {id} : InOrder(k)'
    BY <1>0, <2>2, <2>3, <2>4, OthersStayInOrder, Zenon
  <2>6. InOrder(id)'
    BY <1>0, <2>1, <2>2, <2>4, Zenon DEF InOrder, TransitionFree
  <2> QED
    BY <1>0, <2>2, <2>5, <2>6, Zenon DEF Bookkeeping, DownIsEmpty, Up, TransitionFree
<1>5. CASE abort_done
  <2>1. /\ ~TransitionFree /\ loop' \in {"stopped", "joining"}
        /\ \A k \in JobIds : registry[k].status # "Running"
        /\ \A k \in JobIds : task'[k] \in {task[k], "none"}
        /\ registry' = registry /\ queue' = queue /\ store' = store /\ used' = used
    BY <1>5, Zenon DEF abort_done, history
  <2>2. ASSUME NEW k \in JobIds PROVE InOrder(k)'
    BY <1>0, <2>1 DEF InOrder, TransitionFree
  <2> QED
    BY <1>0, <2>1, <2>2, Zenon DEF Bookkeeping, DownIsEmpty, Up
<1> QED
  BY <1>1, <1>2, <1>3, <1>4, <1>5, Zenon DEF RunLoop

\* A finished handler's job has ended, or is pending for a retry.
LEMMA FinishedFields ==
    ASSUME TypeOK, NEW id \in JobIds, NEW result, NEW o \in Outcomes
    PROVE  LET job == Persisted(id, Finished(id, result), o)
           IN  /\ job.status \in TerminalStatus \cup {"Pending", "ReconciliationRequired"}
               /\ job.resolution = registry[id].resolution
               /\ job.status = "Pending" =>
                    /\ o \in Acknowledged
                    /\ Retries(id, result)
                    /\ job.retry = registry[id].retry + 1
<1> DEFINE old == registry[id]
           job == Finished(id, result)
<1>1. old \in Job /\ fail(old) \in Job /\ job \in Job
  BY TransitionTypes, FinishedType, Zenon DEF TypeOK, JobMaps
<1>2. /\ job.status \in TerminalStatus \cup {"Pending", "ReconciliationRequired"}
      /\ job.resolution = old.resolution
      /\ job.status = "Pending" => Retries(id, result) /\ job.retry = old.retry + 1
  BY <1>1, TransitionFields DEF Finished, TerminalStatus
<1>3. /\ require_reconciliation(job).status = "ReconciliationRequired"
      /\ require_reconciliation(job).resolution = job.resolution
  BY <1>1, TransitionFields, Zenon
<1> HIDE DEF job
<1> QED
  BY <1>2, <1>3, Zenon DEF Persisted, job

\* A step of a job's task preserves the bookkeeping.
LEMMA JobTaskBookkeeping ==
    ASSUME TypeOK, TypeOK', Bookkeeping, NEW id \in JobIds, JobTask(id) PROVE Bookkeeping'
<1>0. /\ NoJob.status = "Absent"
      /\ \A k \in JobIds : registry[k] \in Job
      /\ \A k \in JobIds : InOrder(k)
      /\ task[id] # "none" => id \in used /\ loop # "down" /\ ~InQueue(queue, id)
      /\ queue \in Seq(JobIds) /\ Distinct(queue)
  BY Zenon DEF NoJob, TypeOK, JobMaps, Bookkeeping, DownIsEmpty, InOrder, Up
<1>1. ASSUME NEW r \in Results, NEW o1 \in Outcomes, NEW o2 \in Outcomes, NEW p \in PruneOutcomes,
             finish_job(id, r, o1, o2, p)
      PROVE  Bookkeeping'
  <2> DEFINE job == Persisted(id, Finished(id, r), o1)
             s == PersistedStore(id, Finished(id, r), o1, o2)
  <2>1. job \in Job /\ s \in Store
    BY FinishedType, PersistedType, Zenon
  <2>2. job.status \in TerminalStatus \cup {"Pending", "ReconciliationRequired"}
    BY FinishedFields, Zenon
  <2>3. /\ task[id] = "executing" /\ TransitionFree
        /\ loop' = loop /\ shutdown' = shutdown /\ used' = used /\ queue' = queue
    BY <1>1, Zenon DEF finish_job
  <2>4. \A k \in JobIds \ {id} : Blank(store, k) => Blank(s, k)
    BY FinishedType, PersistedBlank, Zenon
  <2>5. /\ task'[id] = IF job.status = "Pending" THEN "backoff" ELSE "none"
        /\ \A k \in JobIds \ {id} : task'[k] = task[k]
    BY <1>1 DEF finish_job, TypeOK
  <2>6. CASE job.status \in TerminalStatus
    <3>1. Settle([registry EXCEPT ![id] = job], s, p)
      BY <1>1, <2>6, Zenon DEF finish_job
    <3> HIDE DEF s, job
    <3>2. \A k \in JobIds :
            /\ k # id => \/ registry'[k] = registry[k]
                         \/ registry'[k] = NoJob /\ registry[k].status \in TerminalStatus
            /\ k = id => registry'[k] \in {job, NoJob}
            /\ Blank(s, k) => Blank(store', k)
      BY <2>1, <2>6, <3>1, SettleFacts, Zenon DEF TerminalStatus
    <3>3. \A k \in JobIds \ {id} : InOrder(k)'
      BY <1>0, <2>3, <2>4, <2>5, <3>2, OthersStayInOrder, Zenon
    <3>4. registry'[id].status \notin {"Pending", "Running"} /\ task'[id] = "none"
      BY <1>0, <2>5, <2>6, <3>2, Zenon DEF TerminalStatus
    <3>5. InOrder(id)'
      BY <1>0, <2>3, <3>4, Zenon DEF InOrder, TransitionFree
    <3> QED
      BY <1>0, <2>3, <3>3, <3>5, Zenon DEF Bookkeeping, DownIsEmpty, Up
  <2>7. CASE job.status \notin TerminalStatus
    <3>1. registry' = [registry EXCEPT ![id] = job] /\ store' = s
      BY <1>1, <2>7, Zenon DEF finish_job
    <3> HIDE DEF s, job
    <3>2. registry'[id] = job /\ \A k \in JobIds \ {id} : registry'[k] = registry[k]
      BY <3>1, Zenon DEF TypeOK, JobMaps
    <3>3. \A k \in JobIds \ {id} : InOrder(k)'
      BY <1>0, <2>3, <2>4, <2>5, <3>1, <3>2, OthersStayInOrder, Zenon
    <3>4. InOrder(id)'
      BY <1>0, <2>2, <2>3, <2>5, <2>7, <3>2, Zenon DEF InOrder, TransitionFree
    <3> QED
      BY <1>0, <2>3, <3>3, <3>4, Zenon DEF Bookkeeping, DownIsEmpty, Up
  <2> QED
    BY <2>6, <2>7, Zenon
<1>2. ASSUME task_aborted(id) \/ retry_dropped(id) PROVE Bookkeeping'
  <2>1. /\ loop' = loop /\ shutdown' = shutdown /\ used' = used
        /\ registry' = registry /\ queue' = queue /\ store' = store
    BY <1>2, Zenon DEF task_aborted, retry_dropped, history
  <2>2. task'[id] = "none" /\ \A k \in JobIds \ {id} : task'[k] = task[k]
    BY <1>2 DEF task_aborted, retry_dropped, TypeOK
  <2>3. /\ task[id] \in {"aborting", "backoff"}
        /\ task[id] = "backoff" => shutdown \/ registry[id].status # "Pending"
    BY <1>2, Zenon DEF task_aborted, retry_dropped
  <2>4. \A k \in JobIds \ {id} : InOrder(k)'
    BY <1>0, <2>1, <2>2, OthersStayInOrder, Zenon
  <2>5. InOrder(id)'
    BY <1>0, <2>1, <2>2, <2>3, Zenon DEF InOrder, TransitionFree
  <2> QED
    BY <1>0, <2>1, <2>3, <2>4, <2>5, Zenon DEF Bookkeeping, DownIsEmpty, Up
<1>3. CASE requeue_after_backoff(id)
  <2>1. /\ loop' = loop /\ shutdown' = shutdown /\ used' = used /\ registry' = registry
        /\ store' = store /\ queue' = Append(queue, id)
        /\ TransitionFree /\ task[id] = "backoff" /\ registry[id].status = "Pending"
    BY <1>3, Zenon DEF requeue_after_backoff, history
  <2>2. task'[id] = "none" /\ \A k \in JobIds \ {id} : task'[k] = task[k]
    BY <1>3, Zenon DEF requeue_after_backoff, TypeOK
  <2>3. Distinct(queue') /\ \A k : InQueue(queue', k) <=> InQueue(queue, k) \/ k = id
    BY <1>0, <2>1, AppendMembers, Zenon
  <2>4. \A k \in JobIds \ {id} : InOrder(k)'
    BY <1>0, <2>1, <2>2, <2>3, OthersStayInOrder, Zenon
  <2>5. InOrder(id)'
    BY <1>0, <2>1, <2>2, <2>3, Zenon DEF InOrder, TransitionFree
  <2> QED
    BY <1>0, <2>1, <2>3, <2>4, <2>5, Zenon DEF Bookkeeping, DownIsEmpty, Up
<1>4. ASSUME NEW o1 \in Outcomes, NEW o2 \in Outcomes, NEW p \in PruneOutcomes,
             requeue_refused(id, o1, o2, p)
      PROVE  Bookkeeping'
  <2> DEFINE job == Persisted(id, fail(registry[id]), o1)
             s == PersistedStore(id, fail(registry[id]), o1, o2)
  <2>1. fail(registry[id]) \in Job /\ job \in Job /\ s \in Store
    BY <1>0, TransitionTypes, PersistedType, Zenon
  <2>2. job.status \in {"Failed", "ReconciliationRequired"}
    BY <1>0, <2>1, TransitionFields DEF Persisted
  <2>3. /\ task[id] = "backoff" /\ TransitionFree
        /\ loop' = loop /\ shutdown' = shutdown /\ used' = used /\ queue' = queue
        /\ store' = s \/ store' \in prune_store_terminal(s, p)
    BY <1>4, Zenon DEF requeue_refused
  <2>4. /\ task'[id] = "none" /\ \A k \in JobIds \ {id} : task'[k] = task[k]
        /\ registry'[id] = job /\ \A k \in JobIds \ {id} : registry'[k] = registry[k]
    BY <1>4 DEF requeue_refused, TypeOK, JobMaps
  <2>5. \A k \in JobIds \ {id} : Blank(store, k) => Blank(store', k)
    <3>1. \A k \in JobIds \ {id} : Blank(store, k) => Blank(s, k)
      BY <2>1, PersistedBlank, Zenon
    <3> HIDE DEF s
    <3> QED
      BY <2>1, <2>3, <3>1, BlankFrame, Zenon
  <2> HIDE DEF s, job
  <2>6. \A k \in JobIds \ {id} : InOrder(k)'
    BY <1>0, <2>3, <2>4, <2>5, OthersStayInOrder, Zenon
  <2>7. InOrder(id)'
    BY <1>0, <2>2, <2>3, <2>4, Zenon DEF InOrder, TransitionFree
  <2> QED
    BY <1>0, <2>3, <2>6, <2>7, Zenon DEF Bookkeeping, DownIsEmpty, Up
<1> QED
  BY <1>1, <1>2, <1>3, <1>4, Zenon DEF JobTask

\* The end of a process and its restart preserve the bookkeeping.
LEMMA ProcessBookkeeping == ASSUME TypeOK, TypeOK', Bookkeeping, Process PROVE Bookkeeping'
<1>0. /\ NoJob.status = "Absent"
      /\ \A k \in JobIds : NoJobs[k] = NoJob
      /\ \A k \in JobIds : k \notin used => Blank(store, k)
      /\ Distinct(<<>>) /\ \A k : ~InQueue(<<>>, k)
      /\ \A k \in JobIds : InOrder(k)
  <2>1. NoJob.status = "Absent" /\ \A k \in JobIds : NoJobs[k] = NoJob
    BY Zenon DEF NoJob, NoJobs
  <2>2. Distinct(<<>>) /\ \A k : ~InQueue(<<>>, k)
    BY DEF Distinct, InQueue
  <2>3. \A k \in JobIds : InOrder(k)
    BY Zenon DEF Bookkeeping
  <2>4. \A k \in JobIds : k \notin used => Blank(store, k)
    BY <2>3, Zenon DEF InOrder
  <2> QED
    BY <2>1, <2>2, <2>3, <2>4, Zenon
<1>1. ASSUME ProcessGone, used' = used, NEW torn \in BOOLEAN, store' = Closed(store, torn)
      PROVE  Bookkeeping'
  <2>1. \A k \in JobIds : k \notin used => Blank(store', k)
    BY <1>0, <1>1, BlankFrame, Zenon DEF TypeOK
  <2>2. /\ loop' = "down" /\ shutdown' = FALSE /\ registry' = NoJobs /\ queue' = <<>>
        /\ \A k \in JobIds : task'[k] = "none"
    BY <1>1, Zenon DEF ProcessGone
  <2>3. ASSUME NEW k \in JobIds PROVE InOrder(k)'
    BY <1>0, <1>1, <2>1, <2>2, Zenon DEF InOrder, TransitionFree
  <2> QED
    BY <1>0, <2>2, <2>3, Zenon DEF Bookkeeping, DownIsEmpty, Up
<1>2. ASSUME NEW torn \in BOOLEAN, crash(torn) PROVE Bookkeeping'
  BY <1>1, <1>2, Zenon DEF crash, history
<1>3. CASE exit
  BY <1>1, <1>3, Zenon DEF exit, history
<1>4. CASE open_journal
  <2> DEFINE s == open(store)
  <2>1. s \in Store /\ \A k \in JobIds : s.index[k].status # "Running"
    <3>1. s \in Store
      BY StoreTypes, Zenon DEF TypeOK
    <3>2. \A k \in JobIds : Reopened(store, store.disk[k]).status # "Running"
      <4> TAKE k \in JobIds
      <4>1. store.disk[k] \in Job /\ require_reconciliation(store.disk[k]) \in Job
        BY TransitionTypes, Zenon DEF TypeOK, Store, JobMaps
      <4>2. /\ require_reconciliation(store.disk[k]).status = "ReconciliationRequired"
            /\ [require_reconciliation(store.disk[k]) EXCEPT !.resolution = "none"].status
                 = "ReconciliationRequired"
        BY <4>1, TransitionFields, Zenon DEF Job
      <4> QED
        BY <1>0, <4>2, Zenon DEF Reopened
    <3> QED
      BY <3>1, <3>2, Zenon DEF open, Snapshot
  <2>2. \A k \in JobIds : k \notin used => Blank(s, k)
    BY <1>0, BlankFrame, Zenon DEF TypeOK
  <2>3. store' \in prune_store_terminal(s, "ok")
    BY <1>4, Zenon DEF open_journal
  <2>4. \A k \in JobIds : k \notin used => Blank(store', k)
    BY <2>1, <2>2, <2>3, BlankFrame, Zenon
  <2>5. /\ loop = "down" /\ registry = NoJobs /\ queue = <<>> /\ ~shutdown
        /\ \A k \in JobIds : task[k] = "none"
        /\ shutdown' = shutdown /\ task' = task /\ used' = used
    BY <1>4, Zenon DEF open_journal, Bookkeeping, DownIsEmpty, Up
  <2>6. CASE registry' = registry /\ queue' = queue /\ loop' = loop
    <3>1. ASSUME NEW k \in JobIds PROVE InOrder(k)'
      BY <1>0, <2>4, <2>5, <2>6, Zenon DEF InOrder, TransitionFree
    <3> QED
      BY <1>0, <2>5, <2>6, <3>1, Zenon DEF Bookkeeping, DownIsEmpty, Up
  <2>7. CASE /\ registry' = store'.index /\ loop' = "top"
             /\ queue' \in Orderings(PendingIn(store'.index))
    <3>1. \A k \in JobIds : registry'[k].status # "Running"
      <4>1. store' = s \/ \E jobs \in prune_terminal(s.index) : store' = Snapshot(jobs)
        BY <2>3, Zenon DEF prune_store_terminal
      <4>2. \A jobs \in prune_terminal(s.index) : \A k \in JobIds : jobs[k].status # "Running"
        BY <1>0, <2>1, PruneFacts, Zenon DEF Store
      <4>3. registry' = store'.index
        BY <2>7, Zenon
      <4> HIDE DEF s
      <4>4. CASE store' = s
        BY <2>1, <4>3, <4>4, Zenon
      <4>5. ASSUME NEW jobs \in prune_terminal(s.index), store' = Snapshot(jobs)
            PROVE  \A k \in JobIds : registry'[k].status # "Running"
        <5>1. registry' = jobs
          BY <4>3, <4>5, Zenon DEF Snapshot
        <5> QED
          BY <4>2, <5>1, Zenon
      <4> QED
        BY <4>1, <4>4, <4>5, Zenon
    <3>2. /\ Distinct(queue')
          /\ \A k \in JobIds : InQueue(queue', k) <=> registry'[k].status = "Pending"
      <4>1. PendingIn(registry') \in SUBSET JobIds
        BY Zenon DEF PendingIn
      <4> QED
        BY <2>7, <4>1, OrderingsFacts DEF PendingIn
    <3>3. \A k \in JobIds : k \notin used => registry'[k] = NoJob
      BY <2>4, <2>7, Zenon DEF Blank
    <3> HIDE DEF s
    <3>4. ASSUME NEW k \in JobIds PROVE InOrder(k)'
      BY <2>4, <2>5, <2>7, <3>1, <3>2, <3>3, Zenon DEF InOrder, TransitionFree
    <3> QED
      BY <2>7, <3>2, <3>4, Zenon DEF Bookkeeping, DownIsEmpty, Up
  <2> QED
    BY <1>4, <2>6, <2>7, Zenon DEF open_journal
<1>5. CASE archive_crash
  <2>1. \A k \in JobIds : Blank(store', k)
    BY <1>0, <1>5, Zenon DEF archive_crash, Snapshot, Blank
  <2>2. /\ loop' = loop /\ shutdown' = shutdown /\ used' = used /\ registry' = registry
        /\ queue' = queue /\ task' = task
    BY <1>5, Zenon DEF archive_crash, process, history
  <2>3. \A k \in JobIds : InOrder(k)'
    BY <1>0, <2>1, <2>2, OthersStayInOrder, Zenon
  <2> QED
    BY <2>2, <2>3, Zenon DEF Bookkeeping, DownIsEmpty, Up
<1> QED
  BY <1>2, <1>3, <1>4, <1>5, Zenon DEF Process

\* Bookkeeping is inductive.
LEMMA BookkeepingStep == TypeOK /\ TypeOK' /\ Bookkeeping /\ [Next]_vars => Bookkeeping'
<1> SUFFICES ASSUME TypeOK, TypeOK', Bookkeeping, [Next]_vars PROVE Bookkeeping'
  BY Zenon
<1>1. CASE UNCHANGED vars
  BY <1>1 DEF vars, process, history, Bookkeeping, DownIsEmpty, InOrder, Up, TransitionFree
<1> QED
  BY <1>1, ClientBookkeeping, RunLoopBookkeeping, JobTaskBookkeeping, ProcessBookkeeping, Zenon DEF Next

\* The initial state is in order.
LEMMA BookkeepingInit == Init => Bookkeeping
<1> SUFFICES ASSUME Init PROVE Bookkeeping
  BY Zenon
<1>1. \A k \in JobIds : registry[k] = NoJob /\ task[k] = "none" /\ Blank(store, k)
  BY Zenon DEF Init, NoJobs, Snapshot, Blank
<1>2. Distinct(queue) /\ \A k : ~InQueue(queue, k)
  BY DEF Init, Distinct, InQueue
<1>3. loop = "top" /\ NoJob.status = "Absent"
  BY Zenon DEF Init, NoJob
<1>4. ASSUME NEW k \in JobIds PROVE InOrder(k)
  BY <1>1, <1>2, <1>3, Zenon DEF InOrder, TransitionFree
<1> QED
  BY <1>2, <1>3, <1>4, Zenon DEF Bookkeeping, DownIsEmpty, Up

\* Registry, queue and tasks agree in every reachable state, whatever fails:
\* a queued job is queued once, pending and without a task; the registry says
\* Running exactly while the handler executes; a pending job of a serving scheduler
\* is queued or waits for its retry timer.
THEOREM BookkeepingCorrect == Spec => []JobsAreAccountedFor
<1>1. Spec => []Bookkeeping
  BY TypeCorrect, BookkeepingInit, BookkeepingStep, PTL DEF Spec
<1> QED
  BY <1>1, TypeCorrect, BookkeepingImplies, PTL

-----------------------------------------------------------------------------
(* No handler is started when that could repeat an effect.                    *)

\* The records of a job that can come back into force: the one in the index, and
\* the one in the file unless the file is damaged, for then open discards it.
Versions(s, id) == {s.index[id]} \cup (IF s.damaged THEN {} ELSE {s.disk[id]})

\* A record that says Pending is right to say so, and only Resolved ones carry a
\* receipt.
Sound(id, job) ==
    /\ job.status = "Pending" => Startable(id) /\ runs[id] = job.retry
    /\ job.resolution # "none" => job.status = "Resolved"

\* What makes the next start of a job harmless.
Accounted(id) ==
    /\ Sound(id, registry[id])
    /\ \A job \in Versions(store, id) : Sound(id, job)
    /\ registry[id].status = "Running" =>
          /\ attempt[id] = "begun" /\ runs[id] = registry[id].retry + 1
          /\ id \notin cancelled /\ receipts[id] = {}
    /\ registry[id].resolution # "none" =>
          \A job \in Versions(store, id) : job.status # "Pending"
    /\ id \notin used => Startable(id) /\ runs[id] = 0
    /\ runs[id] <= MaxRetries + 1

\* The inductive strengthening of NoUncertainReplay and RunsBounded.
ReplayInv == \A id \in JobIds : Accounted(id)

-----------------------------------------------------------------------------
(* What the operations of the store do to the versions of a job.              *)

\* An append leaves the other jobs' versions alone.  It adds the appended record
\* and, when it is acknowledged, leaves no other.
LEMMA AppendVersions ==
    ASSUME NEW s \in Store, NEW id \in JobIds, NEW job \in Job,
           NEW o \in Acknowledged \cup WriteFaults, NEW k \in JobIds
    PROVE  /\ k # id => Versions(append(s, id, job, o), k) \subseteq Versions(s, k)
           /\ Versions(append(s, id, job, o), id) \subseteq Versions(s, id) \cup {job}
           /\ o \in Acknowledged => Versions(append(s, id, job, o), id) \subseteq {job}
<1> USE DEF Store, JobMaps
<1>1. CASE o = "lost"
  <2>1. append(s, id, job, o) = s
    BY <1>1, Zenon DEF append
  <2> QED
    BY <1>1, <2>1, Zenon DEF Acknowledged
<1>2. CASE o = "compacted"
  <2> DEFINE jobs == [s.index EXCEPT ![id] = job]
  <2>1. append(s, id, job, o) = Snapshot(jobs)
    BY <1>2, Zenon DEF append
  <2>2. \A n \in JobIds : Versions(Snapshot(jobs), n) = {jobs[n]}
    BY Zenon DEF Versions, Snapshot
  <2>3. jobs[id] = job /\ (k # id => jobs[k] = s.index[k])
    BY Zenon
  <2> HIDE DEF jobs
  <2> QED
    BY <2>1, <2>2, <2>3 DEF Versions
<1>3. CASE o = "partial"
  <2>1. append(s, id, job, o) = [s EXCEPT !.torn = TRUE]
    BY <1>3, Zenon DEF append
  <2>2. \A n \in JobIds : Versions([s EXCEPT !.torn = TRUE], n) = Versions(s, n)
    BY Zenon DEF Versions
  <2> QED
    BY <1>3, <2>1, <2>2, Zenon DEF Acknowledged
<1>4. /\ LineWritten(s, id, job) \in Store
      /\ LineWritten(s, id, job).index = s.index
      /\ \/ LineWritten(s, id, job).damaged
         \/ /\ ~s.damaged /\ ~LineWritten(s, id, job).damaged
            /\ LineWritten(s, id, job).disk = [s.disk EXCEPT ![id] = job]
  BY Zenon DEF LineWritten
<1> DEFINE w == LineWritten(s, id, job)
<1>5. CASE o \in {"ok", "detached"}
  <2> DEFINE t == [w EXCEPT !.index[id] = job, !.reused = FALSE]
  <2>1. append(s, id, job, o) = t
    BY <1>5, Zenon DEF append, LineSynced
  <2>2. /\ t.index = [s.index EXCEPT ![id] = job]
        /\ t.damaged \/ (~s.damaged /\ t.disk = [s.disk EXCEPT ![id] = job])
    <3> HIDE DEF w
    <3> QED
      BY <1>4, Zenon DEF w
  <2>3. t.index[id] = job /\ (~t.damaged => t.disk[id] = job)
    BY <2>2
  <2>4. k # id => t.index[k] = s.index[k] /\ (~t.damaged => ~s.damaged /\ t.disk[k] = s.disk[k])
    BY <2>2
  <2> HIDE DEF t
  <2> QED
    BY <2>1, <2>3, <2>4, Zenon DEF Versions
<1>6. CASE o = "unsynced"
  <2> DEFINE t == [w EXCEPT !.reused = @ \/ ~s.torn]
  <2>1. append(s, id, job, o) = t
    BY <1>6, Zenon DEF append, LineUnsynced
  <2>2. /\ t.index = s.index
        /\ t.damaged \/ (~s.damaged /\ t.disk = [s.disk EXCEPT ![id] = job])
    <3> HIDE DEF w
    <3> QED
      BY <1>4, Zenon DEF w
  <2>3. ~t.damaged => t.disk[id] = job
    BY <2>2, Zenon
  <2>4. k # id => (~t.damaged => ~s.damaged /\ t.disk[k] = s.disk[k])
    BY <2>2, Zenon
  <2> HIDE DEF t
  <2> QED
    BY <1>6, <2>1, <2>2, <2>3, <2>4, Zenon DEF Versions, Acknowledged
<1> QED
  BY <1>1, <1>2, <1>3, <1>5, <1>6, Zenon DEF Acknowledged, WriteFaults

\* A prune, unless its compaction fails over a damaged file, and the end of the
\* process can only take versions away.
LEMMA PruneVersions ==
    ASSUME NEW s \in Store, NEW k \in JobIds
    PROVE  /\ \A p : p # "compaction" \/ ~s.damaged =>
                \A t \in prune_store_terminal(s, p) : Versions(t, k) \subseteq Versions(s, k) \cup {NoJob}
           /\ \A inWrite \in BOOLEAN : Versions(Closed(s, inWrite), k) \subseteq Versions(s, k) \cup {NoJob}
<1>1. ASSUME NEW p, p # "compaction" \/ ~s.damaged, NEW t \in prune_store_terminal(s, p)
      PROVE  Versions(t, k) \subseteq Versions(s, k) \cup {NoJob}
  <2>1. \/ t = s \/ (\E jobs \in prune_terminal(s.index) : t = Snapshot(jobs))
        \/ ~s.damaged /\ t = Rescanned(s)
    BY <1>1, Zenon DEF prune_store_terminal
  <2>3. ASSUME ~s.damaged, t = Rescanned(s)
        PROVE  Versions(t, k) \subseteq Versions(s, k) \cup {NoJob}
    <3>1. t.index = s.disk /\ t.disk = s.disk
      BY <2>3, Zenon DEF Rescanned, Store
    <3> QED
      BY <2>3, <3>1, Zenon DEF Versions
  <2>2. ASSUME NEW jobs \in prune_terminal(s.index), t = Snapshot(jobs)
        PROVE  Versions(t, k) \subseteq Versions(s, k) \cup {NoJob}
    <3>1. Versions(t, k) = {jobs[k]}
      BY <2>2, Zenon DEF Versions, Snapshot
    <3>2. jobs[k] \in {s.index[k], NoJob}
      BY <2>2, PruneFacts DEF Store
    <3> QED
      BY <3>1, <3>2, Zenon DEF Versions
  <2> QED
    BY <2>1, <2>2, <2>3, Zenon
<1>2. ASSUME NEW inWrite \in BOOLEAN
      PROVE  Versions(Closed(s, inWrite), k) \subseteq Versions(s, k) \cup {NoJob}
  <2>1. /\ Closed(s, inWrite).index = NoJobs
        /\ Closed(s, inWrite).disk = s.disk
        /\ Closed(s, inWrite).damaged = s.damaged
    BY Zenon DEF Closed, Store
  <2> QED
    BY <2>1, Zenon DEF Versions, NoJobs
<1> QED
  BY <1>1, <1>2, Zenon

\* The one or two appends of persist_or_reconcile.
LEMMA PersistedVersions ==
    ASSUME TypeOK, NEW id \in JobIds, NEW job \in Job, NEW o1 \in Outcomes, NEW o2 \in Outcomes,
           NEW k \in JobIds
    PROVE  LET s == PersistedStore(id, job, o1, o2)
           IN  /\ k # id => Versions(s, k) \subseteq Versions(store, k)
               /\ Versions(s, id) \subseteq
                    Versions(store, id) \cup {job, require_reconciliation(job)}
               /\ o1 \in Acknowledged => Versions(s, id) \subseteq {job}
<1> DEFINE t == append(store, id, job, o1)
           u == append(t, id, require_reconciliation(job), o2)
<1>1. store \in Store /\ t \in Store /\ require_reconciliation(job) \in Job
  BY AppendType, OutcomeTypes, TransitionTypes, Zenon DEF TypeOK
<1>2. /\ k # id => Versions(t, k) \subseteq Versions(store, k)
      /\ Versions(t, id) \subseteq Versions(store, id) \cup {job}
      /\ o1 \in Acknowledged => Versions(t, id) \subseteq {job}
  BY <1>1, AppendVersions, OutcomeTypes, Zenon
<1> HIDE DEF t
<1>3. /\ k # id => Versions(u, k) \subseteq Versions(t, k)
      /\ Versions(u, id) \subseteq Versions(t, id) \cup {require_reconciliation(job)}
  BY <1>1, AppendVersions, OutcomeTypes
<1>4. PersistedStore(id, job, o1, o2) = IF o1 \in Acknowledged THEN t ELSE u
  BY Zenon DEF PersistedStore, t
<1> HIDE DEF u
<1> QED
  BY <1>2, <1>3, <1>4, Zenon

-----------------------------------------------------------------------------
(* The invariant is inductive.                                                *)

\* A record that starts nothing when it comes back into force.
Harmless(job) ==
    job.status # "Pending" /\ (job.resolution # "none" => job.status = "Resolved")

\* A job stays accounted for when its history is kept, harmless records may be added
\* and its registry entry stays or becomes harmless and unresolved.
LEMMA HarmlessAdded ==
    ASSUME NEW k \in JobIds, Accounted(k),
           \A job \in Versions(store', k) : job \in Versions(store, k) \/ Harmless(job),
           \/ registry'[k] = registry[k]
           \/ /\ Harmless(registry'[k]) /\ registry'[k].status # "Running"
              /\ registry'[k].resolution = "none",
           k \in used <=> k \in used', k \in cancelled <=> k \in cancelled',
           receipts'[k] = receipts[k], attempt'[k] = attempt[k], runs'[k] = runs[k]
    PROVE  Accounted(k)'
<1>1. \A job : Sound(k, job)' <=> Sound(k, job)
  BY Zenon DEF Sound, Startable
<1>2. \A job : Harmless(job) => Sound(k, job)
  BY Zenon DEF Harmless, Sound
<1>3. \A job \in Versions(store', k) : Sound(k, job)'
  BY <1>1, <1>2, Zenon DEF Accounted
<1>4. Sound(k, registry[k])'
  BY <1>1, <1>2, Zenon DEF Accounted, Sound, Startable
<1>5. k \notin used' => Startable(k)' /\ runs'[k] = 0
  BY Zenon DEF Accounted, Startable
<1>6. registry'[k].resolution # "none" => \A job \in Versions(store', k) : job.status # "Pending"
  BY Zenon DEF Accounted, Harmless
<1>7. registry'[k].status = "Running" =>
        /\ attempt'[k] = "begun" /\ runs'[k] = registry'[k].retry + 1
        /\ k \notin cancelled' /\ receipts'[k] = {}
  BY Zenon DEF Accounted
<1> QED
  BY <1>3, <1>4, <1>5, <1>6, <1>7, Zenon DEF Accounted

\* A job all of whose records are harmless is accounted for, whatever its history.
LEMMA OnlyHarmless ==
    ASSUME NEW k \in JobIds, \A job \in Versions(store', k) : Harmless(job),
           Harmless(registry'[k]), registry'[k].status # "Running",
           k \in used', runs'[k] <= MaxRetries + 1
    PROVE  Accounted(k)'
  BY Zenon DEF Accounted, Harmless, Sound

\* What Settle leaves of the versions of each job.
LEMMA SettleVersions ==
    ASSUME NEW jobs, NEW s \in Store, NEW p, Settle(jobs, s, p), p # "compaction" \/ ~s.damaged,
           NEW k \in JobIds
    PROVE  Versions(store', k) \subseteq Versions(s, k) \cup {NoJob}
  BY PruneVersions, Zenon DEF Settle

-----------------------------------------------------------------------------
(* A prune whose compaction fails takes the index back to what a scan returns, *)
(* which is harmless as long as the scan returns every record.                 *)

LinesAreClean == Faults \cap {"partial", "unsynced"} = {}

PrunesAreSafe == "compaction" \notin Faults \/ LinesAreClean

Clean(s) == ~s.torn /\ ~s.reused /\ ~s.damaged

Readable == LinesAreClean /\ Up => Clean(store)

\* An append leaves a clean file clean unless it tears a line or fails to sync one.
LEMMA CleanAppend ==
    ASSUME LinesAreClean, NEW s \in Store, Clean(s), NEW id \in JobIds, NEW job \in Job, NEW o \in Outcomes
    PROVE  Clean(append(s, id, job, o))
<1>0. o \in {"ok", "compacted", "lost", "detached"}
  BY Zenon DEF Outcomes, LinesAreClean, Acknowledged, WriteFaults
<1>1. CASE o \in {"ok", "detached"}
  <2>1. append(s, id, job, o) = LineSynced(s, id, job)
    BY <1>1, Zenon DEF append
  <2>2. LineWritten(s, id, job) = [s EXCEPT !.disk[id] = job]
    BY Zenon DEF LineWritten, Clean
  <2> DEFINE t == [[s EXCEPT !.disk[id] = job] EXCEPT !.index[id] = job, !.reused = FALSE]
  <2>3. ~t.torn /\ ~t.reused /\ ~t.damaged
    BY Zenon DEF Clean, Store
  <2>4. append(s, id, job, o) = t
    BY <2>1, <2>2, Zenon DEF LineSynced
  <2> HIDE DEF t
  <2> QED
    BY <2>3, <2>4, Zenon DEF Clean
<1>2. CASE o = "compacted"
  BY <1>2, Zenon DEF append, Snapshot, Clean
<1>3. CASE o = "lost"
  BY <1>3, Zenon DEF append
<1> QED
  BY <1>0, <1>1, <1>2, <1>3, Zenon

\* So do the one or two appends of persist_or_reconcile.
LEMMA CleanPersisted ==
    ASSUME LinesAreClean, TypeOK, Clean(store), NEW id \in JobIds, NEW job \in Job,
           NEW o1 \in Outcomes, NEW o2 \in Outcomes
    PROVE  Clean(PersistedStore(id, job, o1, o2))
<1> DEFINE t == append(store, id, job, o1)
<1>1. store \in Store /\ t \in Store /\ require_reconciliation(job) \in Job
  BY AppendType, OutcomeTypes, TransitionTypes, Zenon DEF TypeOK
<1>2. Clean(t)
  BY <1>1, CleanAppend, Zenon
<1>3. PersistedStore(id, job, o1, o2) =
        IF o1 \in Acknowledged THEN t ELSE append(t, id, require_reconciliation(job), o2)
  BY Zenon DEF PersistedStore
<1> HIDE DEF t
<1>4. Clean(append(t, id, require_reconciliation(job), o2))
  BY <1>1, <1>2, CleanAppend, Zenon
<1> QED
  BY <1>2, <1>3, <1>4, Zenon

\* So does a prune, whether its compaction fails or not.
LEMMA CleanPrune ==
    ASSUME NEW s \in Store, Clean(s), NEW p, NEW t \in prune_store_terminal(s, p)
    PROVE  Clean(t)
<1>1. Clean(Rescanned(s))
  BY Zenon DEF Rescanned, Clean, Store
<1>2. \A jobs : Clean(Snapshot(jobs))
  BY Zenon DEF Snapshot, Clean
<1> QED
  BY <1>1, <1>2, Zenon DEF prune_store_terminal

\* While a job has a task, the process is alive.
LEMMA TaskIsUp == ASSUME Bookkeeping, NEW id \in JobIds, task[id] # "none" PROVE Up
  BY Zenon DEF Bookkeeping, DownIsEmpty

\* A client's call preserves the invariant.
LEMMA ClientReplay ==
    ASSUME PrunesAreSafe, Readable, TypeOK, Bookkeeping, ReplayInv, Client
    PROVE  ReplayInv'
<1>0. /\ NoJob.status = "Absent" /\ NoJob.resolution = "none" /\ Harmless(NoJob)
      /\ NewJob.status = "Pending" /\ NewJob.retry = 0 /\ NewJob.resolution = "none"
      /\ \A k \in JobIds : registry[k] \in Job
      /\ \A k \in JobIds : Accounted(k) /\ InOrder(k)
      /\ \A k \in JobIds : registry[k] # NoJob => k \in used
      /\ \A k \in JobIds : runs[k] <= MaxRetries + 1
      /\ \A k \in JobIds : registry[k].resolution # "none" => registry[k].status = "Resolved"
      /\ store \in Store
  BY DEF NoJob, NewJob, Harmless, TypeOK, JobMaps, ReplayInv, Accounted, Sound, Bookkeeping, InOrder
<1>1. ASSUME NEW id \in JobIds, NEW o \in Outcomes, submit(id, o) PROVE ReplayInv'
  <2>1. /\ id \notin used /\ used' = used \cup {id} /\ registry[id] = NoJob
        /\ cancelled' = cancelled /\ receipts' = receipts /\ attempt' = attempt /\ runs' = runs
        /\ store' = append(store, id, NewJob, o)
        /\ registry' = registry \/ registry' = [registry EXCEPT ![id] = NewJob]
    BY <1>0, <1>1, Zenon DEF submit, InOrder
  <2>2. /\ Versions(store', id) \subseteq Versions(store, id) \cup {NewJob}
        /\ \A k \in JobIds \ {id} : Versions(store', k) \subseteq Versions(store, k)
    BY <1>0, <2>1, AppendVersions, OutcomeTypes, ConstantJobTypes
  <2>3. registry'[id] \in {NoJob, NewJob} /\ \A k \in JobIds \ {id} : registry'[k] = registry[k]
    BY <2>1, Zenon DEF TypeOK, JobMaps
  <2>4. \A k \in JobIds \ {id} : Accounted(k)'
    BY <1>0, <2>1, <2>2, <2>3, HarmlessAdded, Zenon
  <2>5. Accounted(id)'
    <3>1. /\ Startable(id) /\ Startable(id)' /\ runs'[id] = 0
          /\ \A job : Sound(id, job)' <=> Sound(id, job)
      BY <1>0, <2>1 DEF Accounted, Startable, Sound
    <3>2. Sound(id, NewJob) /\ Sound(id, NoJob)
      BY <1>0, <2>1, <3>1, Zenon DEF Sound
    <3>3. Sound(id, registry[id])' /\ \A job \in Versions(store', id) : Sound(id, job)'
      <4>1. \A job \in Versions(store', id) : Sound(id, job)'
        BY <1>0, <2>2, <3>1, <3>2, Zenon DEF Accounted
      <4>2. \A job \in {NoJob, NewJob} : Sound(id, job)'
        BY <3>1, <3>2, Zenon
      <4> QED
        BY <2>3, <4>1, <4>2, Zenon DEF Sound, Startable
    <3> QED
      BY <1>0, <2>1, <2>3, <3>1, <3>3, Zenon DEF Accounted
  <2> QED
    BY <2>4, <2>5, Zenon DEF ReplayInv
<1>2. ASSUME NEW id \in JobIds, NEW o \in Outcomes, cancel_running(id, o) PROVE ReplayInv'
  <2> DEFINE job == require_reconciliation(registry[id])
  <2>1. /\ job \in Job /\ job.status = "ReconciliationRequired"
        /\ job.resolution = registry[id].resolution /\ registry[id].status = "Running"
    BY <1>0, <1>2, TransitionTypes, TransitionFields, Zenon DEF cancel_running
  <2>2. /\ cancelled' = cancelled /\ receipts' = receipts /\ attempt' = attempt /\ runs' = runs
        /\ used' = used
        /\ store' = append(store, id, job, o) /\ registry' = [registry EXCEPT ![id] = job]
    BY <1>2, Zenon DEF cancel_running, history
  <2> HIDE DEF job
  <2>3. Harmless(job) /\ job.resolution = "none"
    BY <1>0, <2>1, Zenon DEF Harmless
  <2>4. /\ Versions(store', id) \subseteq Versions(store, id) \cup {job}
        /\ \A k \in JobIds \ {id} : Versions(store', k) \subseteq Versions(store, k)
    BY <1>0, <2>1, <2>2, AppendVersions, OutcomeTypes, Zenon
  <2>5. registry'[id] = job /\ \A k \in JobIds \ {id} : registry'[k] = registry[k]
    BY <2>2, Zenon DEF TypeOK, JobMaps
  <2>6. \A k \in JobIds : Accounted(k)'
    BY <1>0, <2>1, <2>2, <2>3, <2>4, <2>5, HarmlessAdded, Zenon
  <2> QED
    BY <2>6, Zenon DEF ReplayInv
<1>3. ASSUME NEW id \in JobIds, NEW o \in Outcomes, NEW p \in PruneOutcomes, cancel_pending(id, o, p)
      PROVE ReplayInv'
  <2> DEFINE job == cancel(registry[id])
             s == append(store, id, job, o)
  <2>1. /\ job \in Job /\ job.status = "Cancelled" /\ job.resolution = registry[id].resolution
        /\ registry[id].status = "Pending" /\ Up /\ id \in used
    BY <1>0, <1>3, TransitionTypes, TransitionFields, Zenon DEF cancel_pending
  <2>2. /\ receipts' = receipts /\ attempt' = attempt /\ runs' = runs /\ used' = used
        /\ \A k \in JobIds \ {id} : k \in cancelled <=> k \in cancelled'
    BY <1>3, Zenon DEF cancel_pending
  <2>3. /\ s \in Store /\ Versions(s, id) \subseteq Versions(store, id) \cup {job}
        /\ o \in Acknowledged => Versions(s, id) \subseteq {job}
        /\ \A k \in JobIds \ {id} : Versions(s, k) \subseteq Versions(store, k)
    BY <1>0, <2>1, AppendType, AppendVersions, OutcomeTypes, Zenon
  <2>4. Harmless(job)
    BY <1>0, <2>1, Zenon DEF Harmless
  <2>5. CASE o \in Acknowledged
    <3>1. Settle([registry EXCEPT ![id] = job], s, p)
      BY <1>3, <2>1, <2>5, Zenon DEF cancel_pending
    <3>p. p # "compaction" \/ ~s.damaged
      <4>1. LinesAreClean => Clean(s)
        BY <1>0, <2>1, CleanAppend, Zenon DEF Readable
      <4> QED
        BY <4>1, Zenon DEF PrunesAreSafe, PruneOutcomes, Clean
    <3> HIDE DEF job, s
    <3>2. \A k \in JobIds : /\ k # id => registry'[k] \in {registry[k], NoJob}
                            /\ k = id => registry'[k] \in {job, NoJob}
      BY <2>1, <2>3, <3>1, SettleFacts
    <3>3. \A k \in JobIds : Versions(store', k) \subseteq Versions(s, k) \cup {NoJob}
      BY <2>3, <3>1, <3>p, SettleVersions, Zenon
    <3>4. \A k \in JobIds \ {id} : Accounted(k)'
      BY <1>0, <2>2, <2>3, <3>2, <3>3, HarmlessAdded
    <3>5. Accounted(id)'
      BY <1>0, <2>1, <2>2, <2>3, <2>4, <2>5, <3>2, <3>3, OnlyHarmless, Zenon
    <3> QED
      BY <3>4, <3>5, Zenon DEF ReplayInv
  <2>6. CASE o \notin Acknowledged
    <3>1. store' = s /\ registry' = registry /\ cancelled' = cancelled
      BY <1>3, <2>6, Zenon DEF cancel_pending
    <3> HIDE DEF job, s
    <3>2. \A k \in JobIds : Accounted(k)'
      BY <1>0, <2>2, <2>3, <2>4, <3>1, HarmlessAdded, Zenon
    <3> QED
      BY <3>2, Zenon DEF ReplayInv
  <2> QED
    BY <2>5, <2>6, Zenon
<1>4. ASSUME NEW id \in JobIds, NEW o \in Outcomes, NEW d \in Decisions, NEW p \in PruneOutcomes,
             resolve_job(id, d, o, p)
      PROVE ReplayInv'
  <2> DEFINE job == resolve(registry[id], d)
             s == append(store, id, job, o)
  <2>1. /\ job \in Job /\ job.status = "Resolved" /\ Up /\ id \in used
        /\ registry[id].status = "ReconciliationRequired"
    BY <1>0, <1>4, TransitionTypes, TransitionFields, Zenon DEF resolve_job
  <2>2. /\ cancelled' = cancelled /\ attempt' = attempt /\ runs' = runs /\ used' = used
        /\ \A k \in JobIds \ {id} : receipts'[k] = receipts[k]
    BY <1>4, Zenon DEF resolve_job, TypeOK
  <2>3. /\ s \in Store /\ Versions(s, id) \subseteq Versions(store, id) \cup {job}
        /\ o \in Acknowledged => Versions(s, id) \subseteq {job}
        /\ \A k \in JobIds \ {id} : Versions(s, k) \subseteq Versions(store, k)
    BY <1>0, <2>1, AppendType, AppendVersions, OutcomeTypes, Zenon
  <2>4. Harmless(job)
    BY <2>1, Zenon DEF Harmless
  <2>5. CASE o \in Acknowledged
    <3>1. Settle([registry EXCEPT ![id] = job], s, p)
      BY <1>4, <2>1, <2>5, Zenon DEF resolve_job
    <3>p. p # "compaction" \/ ~s.damaged
      <4>1. LinesAreClean => Clean(s)
        BY <1>0, <2>1, CleanAppend, Zenon DEF Readable
      <4> QED
        BY <4>1, Zenon DEF PrunesAreSafe, PruneOutcomes, Clean
    <3> HIDE DEF job, s
    <3>2. \A k \in JobIds : /\ k # id => registry'[k] \in {registry[k], NoJob}
                            /\ k = id => registry'[k] \in {job, NoJob}
      BY <2>1, <2>3, <3>1, SettleFacts, Zenon
    <3>3. \A k \in JobIds : Versions(store', k) \subseteq Versions(s, k) \cup {NoJob}
      BY <2>3, <3>1, <3>p, SettleVersions, ZenonT(30)
    <3>4. \A k \in JobIds \ {id} : Accounted(k)'
      BY <1>0, <2>2, <2>3, <3>2, <3>3, HarmlessAdded
    <3>5. Accounted(id)'
      BY <1>0, <2>1, <2>2, <2>3, <2>4, <2>5, <3>2, <3>3, OnlyHarmless, Zenon
    <3> QED
      BY <3>4, <3>5, Zenon DEF ReplayInv
  <2>6. CASE o \notin Acknowledged
    <3>1. store' = s /\ registry' = registry /\ receipts' = receipts
      BY <1>4, <2>6, Zenon DEF resolve_job
    <3> HIDE DEF job, s
    <3>2. \A k \in JobIds : Accounted(k)'
      BY <1>0, <2>2, <2>3, <2>4, <3>1, HarmlessAdded, Zenon
    <3> QED
      BY <3>2, Zenon DEF ReplayInv
  <2> QED
    BY <2>5, <2>6, Zenon
<1>5. ASSUME NEW id \in JobIds, resolve_again(id) PROVE ReplayInv'
  <2>1. /\ registry' = registry /\ store' = store /\ used' = used /\ cancelled' = cancelled
        /\ attempt' = attempt /\ runs' = runs /\ registry[id].resolution # "none"
        /\ \A k \in JobIds \ {id} : receipts'[k] = receipts[k]
    BY <1>5, Zenon DEF resolve_again, process, TypeOK
  <2>2. \A k \in JobIds \ {id} : Accounted(k)'
    BY <1>0, <2>1, HarmlessAdded, Zenon
  <2>3. \A job \in Versions(store, id) : Harmless(job)
    BY <1>0, <2>1, Zenon DEF Accounted, Harmless, Sound
  <2>4. Accounted(id)'
    BY <1>0, <2>1, <2>3, OnlyHarmless, Zenon DEF Harmless
  <2> QED
    BY <2>2, <2>4, Zenon DEF ReplayInv
<1>6. CASE request_shutdown \/ deny_admission
  <2>1. registry' = registry /\ store' = store /\ history' = history
    BY <1>6, Zenon DEF request_shutdown, deny_admission
  <2>2. \A k \in JobIds : Accounted(k)'
    BY <1>0, <2>1, HarmlessAdded, Zenon DEF history
  <2> QED
    BY <2>2, Zenon DEF ReplayInv
<1> QED
  BY <1>1, <1>2, <1>3, <1>4, <1>5, <1>6, Zenon DEF Client

\* A step of the run loop preserves the invariant.
LEMMA RunLoopReplay == ASSUME TypeOK, Bookkeeping, ReplayInv, RunLoop PROVE ReplayInv'
<1>0. /\ \A k \in JobIds : registry[k] \in Job
      /\ \A k \in JobIds : Accounted(k) /\ InOrder(k)
      /\ \A k \in JobIds : registry[k].resolution # "none" => registry[k].status = "Resolved"
      /\ store \in Store
  BY DEF TypeOK, JobMaps, ReplayInv, Accounted, Sound, Bookkeeping
<1>1. ASSUME registry' = registry, store' = store, history' = history PROVE ReplayInv'
  <2>1. \A k \in JobIds : Accounted(k)'
    BY <1>0, <1>1, HarmlessAdded, Zenon DEF history
  <2> QED
    BY <2>1, Zenon DEF ReplayInv
<1>2. ASSUME NEW i \in DOMAIN queue, NEW o \in Outcomes, dispatch(i, o) PROVE ReplayInv'
  <2>1. PICK id \in JobIds : id = queue[i] /\ InQueue(queue, id)
    BY DEF InQueue, TypeOK
  <2> DEFINE old == registry[id]
             job == start(old)
  <2>2. old.status = "Pending" /\ id \in used
    <3>1. NoJob.status = "Absent"
      BY Zenon DEF NoJob
    <3> QED
      BY <1>0, <2>1, <3>1, Zenon DEF InOrder
  <2>3. Startable(id) /\ runs[id] = old.retry /\ old.resolution = "none"
    BY <1>0, <2>2, Zenon DEF Accounted, Sound
  <2>4. /\ job \in Job /\ job.status = "Running" /\ job.retry = old.retry
        /\ job.resolution = "none" /\ Harmless(job)
    BY <1>0, <2>3, TransitionTypes, TransitionFields, Zenon DEF Harmless
  <2>5. /\ store' = append(store, id, job, o) /\ cancelled' = cancelled /\ receipts' = receipts
        /\ used' = used
    BY <1>2, <2>1, Zenon DEF dispatch
  <2>6. /\ Versions(store', id) \subseteq Versions(store, id) \cup {job}
        /\ o \in Acknowledged => Versions(store', id) \subseteq {job}
        /\ \A k \in JobIds \ {id} : Versions(store', k) \subseteq Versions(store, k)
    BY <1>0, <2>4, <2>5, AppendVersions, OutcomeTypes
  <2>7. CASE o \in Acknowledged
    <3>1. /\ registry' = [registry EXCEPT ![id] = job]
          /\ attempt' = [attempt EXCEPT ![id] = "begun"] /\ runs' = [runs EXCEPT ![id] = @ + 1]
      BY <1>2, <2>1, <2>7, Zenon DEF dispatch
    <3> HIDE DEF job
    <3>2. /\ registry'[id] = job /\ attempt'[id] = "begun" /\ runs'[id] = runs[id] + 1
          /\ \A k \in JobIds \ {id} :
               registry'[k] = registry[k] /\ attempt'[k] = attempt[k] /\ runs'[k] = runs[k]
      BY <3>1, Zenon DEF TypeOK, JobMaps
    <3>3. \A k \in JobIds \ {id} : Accounted(k)'
      BY <1>0, <2>5, <2>6, <3>2, HarmlessAdded, Zenon
    <3>4. runs'[id] <= MaxRetries + 1 /\ runs'[id] = job.retry + 1
      <4>1. old.retry \in 0..MaxRetries
        BY <1>0, Zenon DEF Job
      <4>2. runs'[id] = old.retry + 1 /\ job.retry = old.retry
        BY <2>3, <2>4, <3>2, Zenon
      <4> HIDE DEF old
      <4> QED
        BY <4>1, <4>2, JobsAssumption DEF JobsAssumption
    <3>5. \A v \in Versions(store', id) : v = job
      BY <2>6, <2>7, Zenon
    <3>6. \A v : Harmless(v) => Sound(id, v)'
      BY Zenon DEF Harmless, Sound
    <3>7. Sound(id, registry[id])'
      BY <2>4, <3>2, Zenon DEF Sound
    <3> QED
      <4>1. Accounted(id)'
        BY <2>2, <2>3, <2>4, <2>5, <3>2, <3>4, <3>5, <3>6, <3>7, Zenon DEF Accounted, Startable
      <4> QED
        BY <3>3, <4>1, Zenon DEF ReplayInv
  <2>8. CASE o \notin Acknowledged
    <3>1. registry' = registry /\ attempt' = attempt /\ runs' = runs
      BY <1>2, <2>8, Zenon DEF dispatch
    <3> HIDE DEF job
    <3>2. \A k \in JobIds : Accounted(k)'
      BY <1>0, <2>4, <2>5, <2>6, <3>1, HarmlessAdded, Zenon
    <3> QED
      BY <3>2, Zenon DEF ReplayInv
  <2> QED
    BY <2>7, <2>8, Zenon
<1>3. ASSUME NEW id \in JobIds, NEW o \in Outcomes, abort_running(id, o) PROVE ReplayInv'
  <2> DEFINE job == require_reconciliation(registry[id])
  <2>1. /\ job \in Job /\ job.status = "ReconciliationRequired"
        /\ job.resolution = registry[id].resolution /\ registry[id].status = "Running"
    BY <1>0, <1>3, TransitionTypes, TransitionFields, Zenon DEF abort_running
  <2>2. /\ history' = history
        /\ store' = append(store, id, job, o) /\ registry' = [registry EXCEPT ![id] = job]
    BY <1>3, Zenon DEF abort_running
  <2> HIDE DEF job
  <2>3. Harmless(job) /\ job.resolution = "none"
    BY <1>0, <2>1, Zenon DEF Harmless
  <2>4. /\ Versions(store', id) \subseteq Versions(store, id) \cup {job}
        /\ \A k \in JobIds \ {id} : Versions(store', k) \subseteq Versions(store, k)
    BY <1>0, <2>1, <2>2, AppendVersions, OutcomeTypes
  <2>5. registry'[id] = job /\ \A k \in JobIds \ {id} : registry'[k] = registry[k]
    BY <2>2, Zenon DEF TypeOK, JobMaps
  <2>6. \A k \in JobIds : Accounted(k)'
    BY <1>0, <2>1, <2>2, <2>3, <2>4, <2>5, HarmlessAdded DEF history
  <2> QED
    BY <2>6, Zenon DEF ReplayInv
<1>4. CASE acquire_permit \/ dispatch_idle \/ abort_handles \/ abort_done \/ drained
  BY <1>1, <1>4, Zenon DEF acquire_permit, dispatch_idle, abort_handles, abort_done, drained
<1> QED
  BY <1>2, <1>3, <1>4, Zenon DEF RunLoop

\* A step of a job's task preserves the invariant.
LEMMA JobTaskReplay ==
    ASSUME PrunesAreSafe, Readable, TypeOK, Bookkeeping, ReplayInv, NEW id \in JobIds, JobTask(id)
    PROVE  ReplayInv'
<1>0. /\ NoJob.status = "Absent" /\ NoJob.resolution = "none" /\ Harmless(NoJob)
      /\ \A k \in JobIds : registry[k] \in Job
      /\ \A k \in JobIds : Accounted(k) /\ InOrder(k)
      /\ registry[id] # NoJob => id \in used
      /\ \A k \in JobIds : registry[k].resolution # "none" => registry[k].status = "Resolved"
      /\ store \in Store
  BY DEF NoJob, Harmless, TypeOK, JobMaps, ReplayInv, Accounted, Sound, Bookkeeping, InOrder
<1>1. ASSUME NEW r \in Results, NEW o1 \in Outcomes, NEW o2 \in Outcomes, NEW p \in PruneOutcomes,
             finish_job(id, r, o1, o2, p)
      PROVE  ReplayInv'
  <2> DEFINE old == registry[id]
             ended == Finished(id, r)
             job == Persisted(id, ended, o1)
             s == PersistedStore(id, ended, o1, o2)
  <2>1. /\ old.status = "Running" /\ id \in used /\ task[id] # "none" /\ old.resolution = "none"
        /\ cancelled' = cancelled /\ receipts' = receipts /\ runs' = runs /\ used' = used
    BY <1>0, <1>1, Zenon DEF finish_job, InOrder
  <2>2. /\ attempt[id] = "begun" /\ runs[id] = old.retry + 1 /\ runs[id] <= MaxRetries + 1
        /\ id \notin cancelled /\ receipts[id] = {} /\ ~Startable(id)
    BY <1>0, <2>1, Zenon DEF Accounted, Startable
  <2>3. /\ attempt'[id] = IF r = "timeout" THEN attempt[id] ELSE r
        /\ \A k \in JobIds \ {id} : attempt'[k] = attempt[k]
    BY <1>1, Zenon DEF finish_job, TypeOK
  <2>4. /\ ended \in Job /\ job \in Job /\ s \in Store /\ require_reconciliation(ended) \in Job
        /\ job \in {ended, require_reconciliation(ended)}
        /\ job.status \in TerminalStatus \cup {"Pending", "ReconciliationRequired"}
    BY FinishedType, PersistedType, FinishedFields, TransitionTypes, Zenon DEF Persisted
  <2>5. /\ ended.resolution = "none"
        /\ ended.status = "Pending" => Retries(id, r) /\ ended.retry = old.retry + 1
    <3>1. "ok" \in Outcomes /\ "ok" \in Acknowledged
      BY Zenon DEF Outcomes, Acknowledged
    <3>2. Persisted(id, ended, "ok") = ended
      BY <3>1, Zenon DEF Persisted
    <3>3. LET last == Persisted(id, ended, "ok")
          IN  /\ last.resolution = old.resolution
              /\ last.status = "Pending" => Retries(id, r) /\ last.retry = old.retry + 1
      BY <3>1, FinishedFields
    <3> HIDE DEF ended, old
    <3> QED
      BY <2>1, <3>2, <3>3, Zenon
  <2>6. /\ Versions(s, id) \subseteq Versions(store, id) \cup {ended, require_reconciliation(ended)}
        /\ \A k \in JobIds \ {id} : Versions(s, k) \subseteq Versions(store, k)
    BY <2>4, PersistedVersions
  <2>7. /\ require_reconciliation(ended).status = "ReconciliationRequired"
        /\ require_reconciliation(ended).resolution = "none"
    BY <2>4, <2>5, TransitionFields
  <2>8. /\ \A k \in JobIds \ {id} : registry'[k] \in {registry[k], NoJob}
        /\ registry'[id] \in {job, NoJob}
        /\ \A k \in JobIds : Versions(store', k) \subseteq Versions(s, k) \cup {NoJob}
    <3>1. CASE job.status \in TerminalStatus
      <4>1. Settle([registry EXCEPT ![id] = job], s, p)
        BY <1>1, <2>1, <3>1, Zenon DEF finish_job
      <4>2. LinesAreClean => Clean(s)
        BY <2>1, <2>4, TaskIsUp, CleanPersisted, Zenon DEF Readable
      <4>3. p # "compaction" \/ ~s.damaged
        BY <4>2, Zenon DEF PrunesAreSafe, PruneOutcomes, Clean
      <4> HIDE DEF job, s
      <4> QED
        BY <2>4, <3>1, <4>1, <4>3, SettleFacts, SettleVersions DEF TerminalStatus
    <3>2. CASE job.status \notin TerminalStatus
      <4>1. registry' = [registry EXCEPT ![id] = job] /\ store' = s
        BY <1>1, <3>2, Zenon DEF finish_job
      <4> HIDE DEF job, s
      <4> QED
        BY <4>1, Zenon DEF TypeOK, JobMaps
    <3> QED
      BY <3>1, <3>2, Zenon
  <2>9. \A k \in JobIds \ {id} : Accounted(k)'
    <3> HIDE DEF ended, job, s
    <3> QED
      BY <1>0, <2>1, <2>3, <2>6, <2>8, HarmlessAdded, Zenon
  <2>10. ended.status = "Pending" => Startable(id)' /\ runs'[id] = ended.retry
    <3> HIDE DEF ended
    <3> QED
      BY <2>1, <2>2, <2>3, <2>5, Zenon DEF Retries, Startable
  <2>11. \A v \in Versions(store, id) \cup {ended, require_reconciliation(ended), NoJob} :
           Sound(id, v)'
    <3> HIDE DEF ended
    <3>1. \A v : Harmless(v) => Sound(id, v)'
      BY Zenon DEF Harmless, Sound
    <3>2. \A v \in Versions(store, id) : Harmless(v)
      BY <1>0, <2>2, Zenon DEF Accounted, Sound, Harmless
    <3>3. Harmless(require_reconciliation(ended))
      BY <2>7, Zenon DEF Harmless
    <3> QED
      BY <1>0, <2>5, <2>10, <3>1, <3>2, <3>3, Zenon DEF Sound
  <2>12. Accounted(id)'
    <3> HIDE DEF ended, job, s
    <3>1. \A v \in Versions(store', id) : Sound(id, v)'
      BY <2>6, <2>8, <2>11
    <3>2. registry'[id].status # "Running" /\ registry'[id].resolution = "none"
      BY <1>0, <2>4, <2>5, <2>7, <2>8, Zenon DEF TerminalStatus
    <3>3. \A v : v = registry'[id] => Sound(id, v)'
      BY <2>4, <2>8, <2>11, Zenon
    <3>4. Sound(id, registry[id])'
      BY <3>3, Zenon DEF Sound, Startable
    <3> QED
      BY <2>1, <2>2, <3>1, <3>2, <3>4, Zenon DEF Accounted
  <2> QED
    BY <2>9, <2>12, Zenon DEF ReplayInv
<1>2. CASE task_aborted(id) \/ retry_dropped(id) \/ requeue_after_backoff(id)
  <2>1. registry' = registry /\ store' = store /\ history' = history
    BY <1>2, Zenon DEF task_aborted, retry_dropped, requeue_after_backoff
  <2>2. \A k \in JobIds : Accounted(k)'
    BY <1>0, <2>1, HarmlessAdded, Zenon DEF history
  <2> QED
    BY <2>2, Zenon DEF ReplayInv
<1>3. ASSUME NEW o1 \in Outcomes, NEW o2 \in Outcomes, NEW p \in PruneOutcomes,
             requeue_refused(id, o1, o2, p)
      PROVE  ReplayInv'
  <2> DEFINE ended == fail(registry[id])
             job == Persisted(id, ended, o1)
             s == PersistedStore(id, ended, o1, o2)
  <2>1. /\ registry[id].status = "Pending" /\ registry[id].resolution = "none" /\ task[id] # "none"
        /\ cancelled' = cancelled /\ receipts' = receipts /\ runs' = runs /\ used' = used
        /\ attempt' = attempt /\ registry' = [registry EXCEPT ![id] = job]
        /\ store' = s \/ store' \in prune_store_terminal(s, p)
    BY <1>0, <1>3, Zenon DEF requeue_refused
  <2>2. /\ ended \in Job /\ s \in Store
        /\ ended.status = "Failed" /\ ended.resolution = "none"
    BY <1>0, <2>1, TransitionTypes, TransitionFields, PersistedType, Zenon
  <2>3. /\ require_reconciliation(ended).status = "ReconciliationRequired"
        /\ require_reconciliation(ended).resolution = "none"
    BY <2>2, TransitionFields, Zenon
  <2>4. /\ Versions(s, id) \subseteq Versions(store, id) \cup {ended, require_reconciliation(ended)}
        /\ \A k \in JobIds \ {id} : Versions(s, k) \subseteq Versions(store, k)
    BY <2>2, PersistedVersions
  <2>5. Harmless(ended) /\ Harmless(require_reconciliation(ended))
    BY <2>2, <2>3, Zenon DEF Harmless
  <2>6. job \in {ended, require_reconciliation(ended)}
    BY Zenon DEF Persisted
  <2>p. p # "compaction" \/ ~s.damaged
    <3>1. LinesAreClean => Clean(s)
      BY <2>1, <2>2, TaskIsUp, CleanPersisted, Zenon DEF Readable
    <3> QED
      BY <3>1, Zenon DEF PrunesAreSafe, PruneOutcomes, Clean
  <2> HIDE DEF ended, job, s
  <2>7. \A k \in JobIds : Versions(store', k) \subseteq Versions(s, k) \cup {NoJob}
    BY <2>1, <2>2, <2>p, PruneVersions, Zenon
  <2>8. registry'[id] = job /\ \A k \in JobIds \ {id} : registry'[k] = registry[k]
    BY <2>1, Zenon DEF TypeOK, JobMaps
  <2>9. \A k \in JobIds : Accounted(k)'
    BY <1>0, <2>1, <2>2, <2>3, <2>4, <2>5, <2>6, <2>7, <2>8, HarmlessAdded
  <2> QED
    BY <2>9, Zenon DEF ReplayInv
<1> QED
  BY <1>1, <1>2, <1>3, Zenon DEF JobTask

\* The end of a process and its restart preserve the invariant.
LEMMA ProcessReplay == ASSUME TypeOK, Bookkeeping, ReplayInv, Process PROVE ReplayInv'
<1>0. /\ NoJob.status = "Absent" /\ NoJob.resolution = "none" /\ Harmless(NoJob)
      /\ \A k \in JobIds : NoJobs[k] = NoJob
      /\ \A k \in JobIds : Accounted(k)
      /\ store \in Store
  BY Zenon DEF NoJob, NoJobs, Harmless, TypeOK, ReplayInv
<1>1. ASSUME ProcessGone, history' = history, NEW torn \in BOOLEAN, store' = Closed(store, torn)
      PROVE  ReplayInv'
  <2>1. registry' = NoJobs /\ \A k \in JobIds : Versions(store', k) \subseteq Versions(store, k) \cup {NoJob}
    BY <1>0, <1>1, PruneVersions, Zenon DEF ProcessGone
  <2>2. \A k \in JobIds : Accounted(k)'
    BY <1>0, <1>1, <2>1, HarmlessAdded, Zenon DEF history
  <2> QED
    BY <2>2, Zenon DEF ReplayInv
<1>2. ASSUME NEW torn \in BOOLEAN, crash(torn) PROVE ReplayInv'
  BY <1>1, <1>2, Zenon DEF crash
<1>3. CASE exit
  BY <1>1, <1>3, Zenon DEF exit
<1>4. CASE open_journal
  <2> DEFINE s == open(store)
             back(k) == Reopened(store, store.disk[k])
  <2>1. /\ used' = used /\ cancelled' = cancelled /\ receipts' = receipts /\ attempt' = attempt
        /\ runs' = runs /\ store' \in prune_store_terminal(s, "ok")
        /\ registry' = store'.index \/ registry' = registry
        /\ registry = NoJobs
    BY <1>4, Zenon DEF open_journal, Bookkeeping, DownIsEmpty
  <2>2. s \in Store /\ s = Snapshot(s.index) /\ \A k \in JobIds : s.index[k] = back(k)
    BY <1>0, StoreTypes, Zenon DEF open, Snapshot
  <2>3. ASSUME NEW k \in JobIds
        PROVE  /\ back(k) \in Versions(store, k) \/ Harmless(back(k))
               /\ back(k).status # "Running"
    <3>1. store.disk[k] \in Job
      BY <1>0, Zenon DEF Store, JobMaps
    <3>2. /\ require_reconciliation(store.disk[k]) \in Job
          /\ require_reconciliation(store.disk[k]).status = "ReconciliationRequired"
          /\ require_reconciliation(store.disk[k]).resolution = store.disk[k].resolution
      BY <3>1, TransitionTypes, TransitionFields, Zenon
    <3>3. CASE MustArchive(store)
      <4>1. back(k) = NoJob \/ back(k) = [require_reconciliation(store.disk[k]) EXCEPT !.resolution = "none"]
        BY <3>3, Zenon DEF Reopened
      <4>2. /\ [require_reconciliation(store.disk[k]) EXCEPT !.resolution = "none"].resolution = "none"
            /\ [require_reconciliation(store.disk[k]) EXCEPT !.resolution = "none"].status
                 = "ReconciliationRequired"
        BY <3>2, Zenon DEF Job
      <4> HIDE DEF back
      <4> QED
        BY <1>0, <4>1, <4>2, Zenon DEF Harmless
    <3>4. CASE ~MustArchive(store)
      <4>1. store.disk[k] \in Versions(store, k) /\ Sound(k, store.disk[k])
        BY <1>0, <3>4, Zenon DEF MustArchive, Versions, Accounted
      <4>2. CASE store.disk[k].status = "Running"
        <5>1. back(k) = require_reconciliation(store.disk[k]) \/ back(k) = NoJob
          BY <3>4, <4>2, Zenon DEF Reopened
        <5>2. store.disk[k].resolution = "none"
          BY <4>1, <4>2, Zenon DEF Sound
        <5> HIDE DEF back
        <5> QED
          BY <1>0, <3>2, <5>1, <5>2, Zenon DEF Harmless
      <4>3. CASE store.disk[k].status # "Running"
        BY <1>0, <3>4, <4>1, <4>3, Zenon DEF Reopened
      <4> QED
        BY <4>2, <4>3, Zenon
    <3> QED
      BY <3>3, <3>4, Zenon
  <2>4. ASSUME NEW k \in JobIds
        PROVE  Versions(store', k) = {store'.index[k]} /\ store'.index[k] \in {back(k), NoJob}
    <3> HIDE DEF s, back
    <3>1. store' = s \/ \E jobs \in prune_terminal(s.index) : store' = Snapshot(jobs)
      BY <2>1, Zenon DEF prune_store_terminal
    <3>2. \A jobs : Versions(Snapshot(jobs), k) = {jobs[k]} /\ Snapshot(jobs).index = jobs
      BY Zenon DEF Versions, Snapshot
    <3>3. \A jobs \in prune_terminal(s.index) : jobs[k] \in {s.index[k], NoJob}
      BY <2>2, PruneFacts, Zenon DEF Store
    <3> QED
      BY <2>2, <3>1, <3>2, <3>3
  <2>5. ASSUME NEW k \in JobIds PROVE Accounted(k)'
    <3> HIDE DEF s, back
    <3>1. \A v : Sound(k, v)' <=> Sound(k, v)
      BY <2>1, Zenon DEF Sound, Startable
    <3>2. Sound(k, back(k)) /\ Sound(k, NoJob)
      BY <1>0, <2>3 DEF Accounted, Harmless, Sound
    <3>3. \A v \in Versions(store', k) : Sound(k, v)' /\ Sound(k, v)
      BY <2>4, <3>1, <3>2, Zenon
    <3>4. registry'[k] \in Versions(store', k) \/ registry'[k] = NoJob
      BY <1>0, <2>1, <2>4, Zenon
    <3>5. registry'[k].status # "Running" /\ Sound(k, registry'[k])
      BY <1>0, <2>3, <2>4, <3>2, <3>3, <3>4, Zenon
    <3>6. Sound(k, registry[k])'
      BY <2>1, <3>5, Zenon DEF Sound, Startable
    <3>7. registry'[k].resolution # "none" => \A v \in Versions(store', k) : v.status # "Pending"
      BY <1>0, <2>4, <3>4, <3>5, Zenon DEF Sound
    <3>8. (k \notin used' => Startable(k)' /\ runs'[k] = 0) /\ runs'[k] <= MaxRetries + 1
      BY <1>0, <2>1, Zenon DEF Accounted, Startable
    <3> QED
      BY <3>3, <3>5, <3>6, <3>7, <3>8, Zenon DEF Accounted
  <2> QED
    BY <2>5, Zenon DEF ReplayInv
<1>5. CASE archive_crash
  <2>1. registry' = registry /\ history' = history /\ store' = Snapshot(NoJobs)
    BY <1>5, Zenon DEF archive_crash, process
  <2>2. \A k \in JobIds : Versions(store', k) = {NoJob}
    BY <1>0, <2>1, Zenon DEF Versions, Snapshot
  <2>3. \A k \in JobIds : Accounted(k)'
    BY <1>0, <2>1, <2>2, HarmlessAdded, Zenon DEF history
  <2> QED
    BY <2>3, Zenon DEF ReplayInv
<1> QED
  BY <1>2, <1>3, <1>4, <1>5, Zenon DEF Process

\* The initial state has no history.
LEMMA ReplayInit == Init => ReplayInv
<1> SUFFICES ASSUME Init, NEW k \in JobIds PROVE Accounted(k)
  BY Zenon DEF ReplayInv
<1>1. registry[k] = NoJob /\ Versions(store, k) = {NoJob}
  BY Zenon DEF Init, NoJobs, Snapshot, Versions
<1>2. NoJob.status = "Absent" /\ NoJob.resolution = "none"
  BY Zenon DEF NoJob
<1>3. Startable(k) /\ runs[k] = 0
  BY Zenon DEF Init, Startable
<1>4. 0 <= MaxRetries + 1
  BY JobsAssumption DEF JobsAssumption
<1> QED
  BY <1>1, <1>2, <1>3, <1>4, Zenon DEF Accounted, Sound

\* The file stays clean while the process lives.
LEMMA ReadableStep == ASSUME TypeOK, Bookkeeping, Readable, [Next]_vars PROVE Readable'
<1> SUFFICES ASSUME LinesAreClean, Up' PROVE Clean(store)'
  BY Zenon DEF Readable
<1>0. /\ \A k \in JobIds : registry[k] \in Job
      /\ store \in Store /\ NewJob \in Job
  BY ConstantJobTypes, Zenon DEF TypeOK, JobMaps
<1>1. ASSUME Up, store' = store PROVE Clean(store)'
  BY <1>1, Zenon DEF Readable, Clean
<1>2. ASSUME Up, NEW id \in JobIds, NEW job \in Job, NEW o \in Outcomes, NEW s, s = append(store, id, job, o),
             store' = s \/ \E p : store' \in prune_store_terminal(s, p)
      PROVE  Clean(store)'
  <2>1. s \in Store /\ Clean(s)
    BY <1>0, <1>2, CleanAppend, AppendType, OutcomeTypes, Zenon DEF Readable
  <2>2. \A p : \A t \in prune_store_terminal(s, p) : Clean(t)
    BY <2>1, CleanPrune, Zenon
  <2>3. \A t : t = store' /\ Clean(t) => Clean(store)'
    BY Zenon DEF Clean
  <2> QED
    BY <1>2, <2>1, <2>2, <2>3, Zenon
<1>3. ASSUME NEW id \in JobIds, task[id] # "none", NEW job \in Job, NEW o1 \in Outcomes, NEW o2 \in Outcomes,
             NEW s, s = PersistedStore(id, job, o1, o2),
             store' = s \/ \E p : store' \in prune_store_terminal(s, p)
      PROVE  Clean(store)'
  <2>1. s \in Store /\ Clean(s)
    BY <1>3, CleanPersisted, PersistedType, TaskIsUp, Zenon DEF Readable
  <2>2. \A p : \A t \in prune_store_terminal(s, p) : Clean(t)
    BY <2>1, CleanPrune, Zenon
  <2>3. \A t : t = store' /\ Clean(t) => Clean(store)'
    BY Zenon DEF Clean
  <2> QED
    BY <1>3, <2>1, <2>2, <2>3, Zenon
<1>4. CASE UNCHANGED vars
  <2>1. Up /\ store' = store
    BY <1>4, Zenon DEF vars, process, Up
  <2> QED
    BY <1>1, <2>1, Zenon
<1>5. CASE Client
  <2>1. ASSUME NEW id \in JobIds, NEW o \in Outcomes, submit(id, o) PROVE Clean(store)'
    BY <1>0, <1>2, <2>1, Zenon DEF submit
  <2>2. ASSUME NEW id \in JobIds, NEW o \in Outcomes, NEW p \in PruneOutcomes, cancel_pending(id, o, p)
        PROVE  Clean(store)'
    <3>1. cancel(registry[id]) \in Job
      BY <1>0, TransitionTypes, Zenon
    <3> QED
      BY <1>2, <2>2, <3>1, Zenon DEF cancel_pending, Settle
  <2>3. ASSUME NEW id \in JobIds, NEW o \in Outcomes, cancel_running(id, o) PROVE Clean(store)'
    <3>1. require_reconciliation(registry[id]) \in Job
      BY <1>0, TransitionTypes, Zenon
    <3> QED
      BY <1>2, <2>3, <3>1, Zenon DEF cancel_running
  <2>4. ASSUME NEW id \in JobIds, NEW d \in Decisions, NEW o \in Outcomes, NEW p \in PruneOutcomes,
               resolve_job(id, d, o, p)
        PROVE  Clean(store)'
    <3>1. resolve(registry[id], d) \in Job
      BY <1>0, TransitionTypes, Zenon
    <3> QED
      BY <1>2, <2>4, <3>1, Zenon DEF resolve_job, Settle
  <2>5. ASSUME (\E id \in JobIds : resolve_again(id)) \/ request_shutdown \/ deny_admission
        PROVE  Clean(store)'
    BY <1>1, <2>5, Zenon DEF resolve_again, request_shutdown, deny_admission, process, Up
  <2> QED
    BY <1>5, <2>1, <2>2, <2>3, <2>4, <2>5, Zenon DEF Client
<1>6. CASE RunLoop
  <2>1. ASSUME NEW i \in DOMAIN queue, NEW o \in Outcomes, dispatch(i, o) PROVE Clean(store)'
    <3>1. Up /\ queue[i] \in JobIds /\ start(registry[queue[i]]) \in Job
      BY <1>0, <2>1, TransitionTypes DEF dispatch, Up, TypeOK
    <3>2. store' = append(store, queue[i], start(registry[queue[i]]), o)
      BY <2>1, Zenon DEF dispatch
    <3> QED
      BY <1>2, <3>1, <3>2, Zenon
  <2>2. ASSUME NEW id \in JobIds, NEW o \in Outcomes, abort_running(id, o) PROVE Clean(store)'
    <3>1. Up /\ require_reconciliation(registry[id]) \in Job
      BY <1>0, <2>2, TransitionTypes, Zenon DEF abort_running, TransitionFree, Up
    <3>2. store' = append(store, id, require_reconciliation(registry[id]), o)
      BY <2>2, Zenon DEF abort_running
    <3> QED
      BY <1>2, <3>1, <3>2, Zenon
  <2>3. ASSUME acquire_permit \/ dispatch_idle \/ abort_handles \/ abort_done \/ drained
        PROVE  Clean(store)'
    <3>1. Up /\ store' = store
      BY <2>3, Zenon DEF acquire_permit, dispatch_idle, abort_handles, abort_done, drained, Up, TransitionFree
    <3> QED
      BY <1>1, <3>1, Zenon
  <2> QED
    BY <1>6, <2>1, <2>2, <2>3, Zenon DEF RunLoop
<1>7. ASSUME NEW id \in JobIds, JobTask(id) PROVE Clean(store)'
  <2>1. ASSUME NEW r \in Results, NEW o1 \in Outcomes, NEW o2 \in Outcomes, NEW p \in PruneOutcomes,
               finish_job(id, r, o1, o2, p)
        PROVE  Clean(store)'
    <3>1. Finished(id, r) \in Job /\ task[id] # "none"
      BY <2>1, FinishedType, Zenon DEF finish_job
    <3>2. LET s == PersistedStore(id, Finished(id, r), o1, o2)
          IN  store' = s \/ store' \in prune_store_terminal(s, p)
      BY <2>1, Zenon DEF finish_job, Settle
    <3> QED
      BY <1>3, <3>1, <3>2, Zenon
  <2>2. ASSUME NEW o1 \in Outcomes, NEW o2 \in Outcomes, NEW p \in PruneOutcomes,
               requeue_refused(id, o1, o2, p)
        PROVE  Clean(store)'
    <3>1. fail(registry[id]) \in Job /\ task[id] # "none"
      BY <1>0, <2>2, TransitionTypes, Zenon DEF requeue_refused
    <3>2. LET s == PersistedStore(id, fail(registry[id]), o1, o2)
          IN  store' = s \/ store' \in prune_store_terminal(s, p)
      BY <2>2, Zenon DEF requeue_refused
    <3> QED
      BY <1>3, <3>1, <3>2, Zenon
  <2>3. ASSUME task_aborted(id) \/ requeue_after_backoff(id) \/ retry_dropped(id) PROVE Clean(store)'
    <3>1. task[id] # "none" /\ store' = store
      BY <2>3, Zenon DEF task_aborted, requeue_after_backoff, retry_dropped
    <3> QED
      BY <1>1, <3>1, TaskIsUp, Zenon
  <2> QED
    BY <1>7, <2>1, <2>2, <2>3, Zenon DEF JobTask
<1>8. CASE Process
  <2>1. CASE open_journal
    <3>1. open(store) \in Store /\ Clean(open(store)) /\ store' \in prune_store_terminal(open(store), "ok")
      BY <1>0, <2>1, StoreTypes, Zenon DEF open, Snapshot, Clean, open_journal
    <3>2. \A t \in prune_store_terminal(open(store), "ok") : Clean(t)
      BY <3>1, CleanPrune, Zenon
    <3> QED
      BY <3>1, <3>2, Zenon DEF Clean
  <2>2. ASSUME (\E torn \in BOOLEAN : crash(torn)) \/ exit \/ archive_crash PROVE FALSE
    BY <2>2, Zenon DEF crash, exit, archive_crash, ProcessGone, process, Up
  <2> QED
    BY <1>8, <2>1, <2>2, Zenon DEF Process
<1> QED
  BY <1>4, <1>5, <1>6, <1>7, <1>8, Zenon DEF Next

\* The invariant is inductive unless a failed compaction can meet a damaged file.
LEMMA ReplayStep ==
    ASSUME PrunesAreSafe, Readable, TypeOK, Bookkeeping, ReplayInv, [Next]_vars
    PROVE  ReplayInv'
<1>1. CASE UNCHANGED vars
  <2>1. registry' = registry /\ store' = store /\ history' = history
    BY <1>1, Zenon DEF vars, process, history
  <2>2. ASSUME NEW k \in JobIds PROVE Accounted(k)'
    <3>1. Accounted(k)
      BY Zenon DEF ReplayInv
    <3> QED
      BY <2>1, <3>1, HarmlessAdded, Zenon DEF history
  <2> QED
    BY <2>2, Zenon DEF ReplayInv
<1> QED
  BY <1>1, ClientReplay, RunLoopReplay, JobTaskReplay, ProcessReplay, Zenon DEF Next

\* Only the run loop's dispatch of a queued job starts a handler.
LEMMA OnlyDispatchStarts ==
    ASSUME TypeOK, [Next]_vars, NEW id \in JobIds, task[id] # "executing", task'[id] = "executing"
    PROVE  InQueue(queue, id)
<1>1. ASSUME NEW i \in DOMAIN queue, NEW o \in Outcomes, dispatch(i, o) PROVE InQueue(queue, id)
  <2>1. task' = task \/ task' = [task EXCEPT ![queue[i]] = "executing"]
    BY <1>1, Zenon DEF dispatch
  <2>2. queue[i] = id
    BY <2>1, Zenon DEF TypeOK
  <2> QED
    BY <2>2, Zenon DEF InQueue
<1>2. CASE UNCHANGED vars
  BY <1>2, Zenon DEF vars, process
<1>3. CASE Client
  <2>1. ASSUME NEW k \in JobIds, NEW o \in Outcomes, cancel_running(k, o) PROVE FALSE
    BY <2>1, Zenon DEF cancel_running, TypeOK
  <2>2. \A k, o : submit(k, o) => task' = task
    BY Zenon DEF submit
  <2>3. \A k, o, p : cancel_pending(k, o, p) => task' = task
    BY DEF cancel_pending
  <2>4. \A k, d, o, p : resolve_job(k, d, o, p) => task' = task
    BY DEF resolve_job
  <2>5. (\E k \in JobIds : resolve_again(k)) \/ request_shutdown \/ deny_admission
          => task' = task
    BY Zenon DEF resolve_again, request_shutdown, deny_admission, process
  <2> QED
    BY <1>3, <2>1, <2>2, <2>3, <2>4, <2>5, Zenon DEF Client
<1>4. CASE \/ acquire_permit \/ dispatch_idle \/ abort_handles \/ abort_done \/ drained
           \/ \E k \in JobIds, o \in Outcomes : abort_running(k, o)
  BY <1>4, Zenon DEF acquire_permit, dispatch_idle, abort_handles, abort_running, abort_done, drained
<1>5. ASSUME NEW k \in JobIds, JobTask(k) PROVE FALSE
  <2>1. \E t \in {"none", "backoff"} : task' = [task EXCEPT ![k] = t]
    <3>1. \A r, o1, o2, p : finish_job(k, r, o1, o2, p) =>
            \E t \in {"none", "backoff"} : task' = [task EXCEPT ![k] = t]
      BY DEF finish_job
    <3>2. task_aborted(k) \/ requeue_after_backoff(k) \/ retry_dropped(k) =>
            task' = [task EXCEPT ![k] = "none"]
      BY Zenon DEF task_aborted, requeue_after_backoff, retry_dropped
    <3>3. \A o1, o2, p : requeue_refused(k, o1, o2, p) => task' = [task EXCEPT ![k] = "none"]
      BY DEF requeue_refused
    <3> QED
      BY <1>5, <3>1, <3>2, <3>3, Zenon DEF JobTask
  <2> QED
    BY <2>1, Zenon DEF TypeOK
<1>6. CASE Process
  BY <1>6, Zenon DEF Process, crash, exit, open_journal, archive_crash, ProcessGone, process
<1> QED
  BY <1>1, <1>2, <1>3, <1>4, <1>5, <1>6, Zenon DEF Next, RunLoop

\* A handler is started only when that is harmless, over any number of failed
\* appends, crashes, torn writes and restarts (run_with_drain dispatching what
\* finish_job, cancel_job, resolve_job and JournalJobStore::open left pending).
THEOREM ReplaySafety == ASSUME PrunesAreSafe PROVE Spec => NoUncertainReplay
<1>1. Init => TypeOK /\ Bookkeeping /\ Readable /\ ReplayInv
  BY InitType, BookkeepingInit, ReplayInit DEF Init, Readable, Clean, Snapshot
<1>2. TypeOK /\ Bookkeeping /\ Readable /\ ReplayInv /\ [Next]_vars =>
        (TypeOK /\ Bookkeeping /\ Readable /\ ReplayInv)'
  BY TypeStep, BookkeepingStep, ReadableStep, ReplayStep, Zenon
<1>3. TypeOK /\ Bookkeeping /\ ReplayInv /\ [Next]_vars =>
        [\A id \in JobIds :
            task[id] # "executing" /\ task'[id] = "executing" => Startable(id)]_vars
  BY OnlyDispatchStarts, Zenon DEF Bookkeeping, InOrder, ReplayInv, Accounted, Sound
<1> QED
  BY <1>1, <1>2, <1>3, PTL DEF Spec, NoUncertainReplay

\* No handler is started more than max_retries + 1 times, over all restarts
\* (finish_job with can_retry and prepare_retry, and the retry count that the
\* journal keeps).
THEOREM RetriesAreBounded == ASSUME PrunesAreSafe PROVE Spec => []RunsBounded
<1>1. Init => TypeOK /\ Bookkeeping /\ Readable /\ ReplayInv
  BY InitType, BookkeepingInit, ReplayInit DEF Init, Readable, Clean, Snapshot
<1>2. TypeOK /\ Bookkeeping /\ Readable /\ ReplayInv /\ [Next]_vars =>
        (TypeOK /\ Bookkeeping /\ Readable /\ ReplayInv)'
  BY TypeStep, BookkeepingStep, ReadableStep, ReplayStep, Zenon
<1>3. ReplayInv => RunsBounded
  BY Zenon DEF ReplayInv, Accounted, RunsBounded
<1> QED
  BY <1>1, <1>2, <1>3, PTL DEF Spec

-----------------------------------------------------------------------------
(* What outlives the process.  A line of the journal is whole or not written  *)
(* at all (no partial write, no failing sync, no crash in the middle of        *)
(* archiving): a handler that may have had an effect is then never taken for   *)
(* one that did not run, no acknowledged job is lost and no decision changed.  *)

\* The file is what the index says, and can be appended to.
Whole(s) == ~s.torn /\ ~s.reused /\ ~s.damaged /\ s.index = s.disk

Intact == Up => Whole(store)

WholeLines == Faults \cap {"partial", "unsynced", "archiveCrash"} = {}

\* What this process takes the job to be, or the next one before it reads on.
Entry(k) == IF Up THEN registry[k] ELSE store.disk[k]

\* Nobody will take the attempt for one that never happened.
Shown(k, job) ==
    \/ job.status \in {"Running", "ReconciliationRequired", "Resolved"}
    \/ job = NoJob /\ k \in retired

JobSafe(k) ==
    LET j == Entry(k)
        f == store.disk[k]
    IN  /\ j.resolution # "none" => j.status = "Resolved" /\ (f = NoJob \/ f.resolution = j.resolution)
        /\ f.resolution # "none" =>
              /\ f.status = "Resolved"
              /\ \/ j = NoJob \/ j.resolution = f.resolution
                 \/ j.status = "ReconciliationRequired" /\ k \in resolving
        /\ k \in acked /\ k \notin retired => j # NoJob /\ f # NoJob
        /\ attempt[k] = "begun" => Shown(k, j) /\ Shown(k, f)
        /\ k \notin used => attempt[k] = "none" /\ k \notin acked /\ receipts[k] = {}

\* The receipts are one decision, and it is on record wherever the job is.
Receipted(k) ==
    ~archived => \A d \in receipts[k] :
        /\ Entry(k) = NoJob \/ Entry(k).resolution = d
        /\ store.disk[k] = NoJob \/ store.disk[k].resolution = d
        /\ \A e \in receipts[k] : e = d

\* A decision in the file stays until the file forgets the job.
Final(k) ==
    store.disk[k].resolution # "none" => store'.disk[k].resolution \in {store.disk[k].resolution, "none"}

\* What a step must do for job k.
Kept(k) ==
    /\ JobSafe(k)'
    /\ Final(k)
    /\ Receipted(k) /\ archived' = (archived \/ (~Up /\ Unreadable)) => Receipted(k)'

\* A job leaves the registry or the store when it has ended.
Gone(k, before, after) == after = NoJob /\ before.status \in TerminalStatus /\ k \in retired'

SameHistory(k) ==
    /\ k \in used' <=> k \in used
    /\ k \in acked' <=> k \in acked
    /\ receipts'[k] = receipts[k]
    /\ retired \subseteq retired'

\* The four ways a step can concern a job: it passes it by, ...
Passes(k) ==
    /\ Up /\ Up' /\ SameHistory(k) /\ attempt'[k] = attempt[k]
    /\ k \in resolving' <=> k \in resolving
    /\ registry'[k] = registry[k] \/ Gone(k, registry[k], registry'[k])
    /\ store'.disk[k] = store.disk[k] \/ Gone(k, store.disk[k], store'.disk[k])

\* ... moves it from Pending or Running to another state, ...
Undecided(job) == job # NoJob /\ job.resolution = "none"

Acts(k) ==
    /\ Up /\ Up' /\ SameHistory(k)
    /\ registry[k].status \in {"Pending", "Running"} /\ k \in used
    /\ Undecided(registry'[k]) \/ (registry'[k] = NoJob /\ k \in retired')
    /\ \/ store'.disk[k] = store.disk[k] \/ Undecided(store'.disk[k])
       \/ store'.disk[k] = NoJob /\ k \in retired'
    /\ attempt'[k] = "begun" => Shown(k, registry[k])' /\ Shown(k, store.disk[k])'

\* ... records a decision about it, ...
Decides(k, d) ==
    /\ Up /\ Up'
    /\ registry[k].status = "ReconciliationRequired" /\ k \notin resolving
    /\ k \in used /\ k \in used'
    /\ k \in acked' <=> k \in acked
    /\ retired \subseteq retired' /\ attempt'[k] = attempt[k]
    /\ \/ /\ receipts'[k] = receipts[k] \cup {d}
          /\ registry'[k] = resolve(registry[k], d) \/ (registry'[k] = NoJob /\ k \in retired')
          /\ store'.disk[k] = resolve(registry[k], d) \/ (store'.disk[k] = NoJob /\ k \in retired')
       \/ /\ receipts'[k] = receipts[k]
          /\ registry'[k] = registry[k] /\ k \in resolving'
          /\ store'.disk[k] \in {store.disk[k], resolve(registry[k], d)}

\* ... or takes it from the file into the next process.
Restarts(k) ==
    /\ SameHistory(k) /\ attempt'[k] = attempt[k]
    /\ Entry(k)' = store'.disk[k]
    /\ \/ store'.disk[k] = store.disk[k]
       \/ store'.disk[k] = NoJob /\ k \in retired'
       \/ /\ store.disk[k] # NoJob /\ Undecided(store'.disk[k])
          /\ store'.disk[k].status = "ReconciliationRequired"
          /\ (~Up /\ Unreadable) \/ store.disk[k].status = "Running"

\* The absent job has ended nothing and decided nothing.
LEMMA Absent == NoJob.status = "Absent" /\ NoJob.resolution = "none"
  BY Zenon DEF NoJob

\* A decided job is Resolved and carries the decision.
LEMMA DecidedFields ==
    \A job \in Job : \A d \in Decisions :
        resolve(job, d).status = "Resolved" /\ resolve(job, d).resolution = d
  BY Zenon DEF resolve, Job

\* Passing a job by keeps it safe: at most it goes as a whole.
LEMMA PassesKept == ASSUME TypeOK, NEW k \in JobIds, JobSafe(k), Passes(k) PROVE Kept(k)
<1>e. Entry(k) = registry[k] /\ Entry(k)' = registry'[k]
  BY Zenon DEF Entry, Passes
<1>1. JobSafe(k)'
  <2>1. Entry(k)'.resolution # "none" =>
          /\ Entry(k)'.status = "Resolved"
          /\ store'.disk[k] = NoJob \/ store'.disk[k].resolution = Entry(k)'.resolution
    BY <1>e, Absent DEF JobSafe, Passes, Gone
  <2>2. store'.disk[k].resolution # "none" =>
          /\ store'.disk[k].status = "Resolved"
          /\ \/ Entry(k)' = NoJob \/ Entry(k)'.resolution = store'.disk[k].resolution
             \/ Entry(k)'.status = "ReconciliationRequired" /\ k \in resolving'
    BY <1>e, Absent DEF JobSafe, Passes, Gone
  <2>3. k \in acked' /\ k \notin retired' => Entry(k)' # NoJob /\ store'.disk[k] # NoJob
    BY <1>e, Zenon DEF JobSafe, Passes, Gone, SameHistory
  <2>4. attempt'[k] = "begun" => Shown(k, Entry(k))' /\ Shown(k, store.disk[k])'
    BY <1>e, Zenon DEF JobSafe, Passes, Gone, Shown, SameHistory
  <2>5. k \notin used' => attempt'[k] = "none" /\ k \notin acked' /\ receipts'[k] = {}
    BY Zenon DEF JobSafe, Passes, SameHistory
  <2> QED
    BY <2>1, <2>2, <2>3, <2>4, <2>5, Zenon DEF JobSafe, Shown
<1>2. Final(k)
  BY Absent, Zenon DEF Final, Passes, Gone
<1>3. ASSUME Receipted(k), archived' = (archived \/ (~Up /\ Unreadable)) PROVE Receipted(k)'
  BY <1>3, <1>e, Zenon DEF Receipted, Passes, Gone, SameHistory
<1> QED
  BY <1>1, <1>2, <1>3, Zenon DEF Kept

\* A job that is Pending or Running has no decision anywhere, and gets none.
LEMMA ActsKept == ASSUME TypeOK, NEW k \in JobIds, JobSafe(k), Acts(k) PROVE Kept(k)
<1>e. Entry(k) = registry[k] /\ Entry(k)' = registry'[k]
  BY Zenon DEF Entry, Acts
<1>0. /\ registry[k].status \in {"Pending", "Running"} /\ registry[k] # NoJob
      /\ registry[k].resolution = "none" /\ store.disk[k].resolution = "none"
  BY <1>e, Absent, Zenon DEF JobSafe, Acts
<1>1. registry'[k].resolution = "none" /\ store'.disk[k].resolution = "none"
  BY <1>0, Absent, Zenon DEF Acts, Undecided
<1>2. JobSafe(k)'
  <2>1. k \in acked' /\ k \notin retired' => registry'[k] # NoJob /\ store'.disk[k] # NoJob
    BY <1>e, Zenon DEF JobSafe, Acts, Undecided, SameHistory
  <2>2. attempt'[k] = "begun" => Shown(k, registry[k])' /\ Shown(k, store.disk[k])'
    BY Zenon DEF Acts
  <2>3. k \in used'
    BY Zenon DEF Acts, SameHistory
  <2> QED
    BY <1>1, <1>e, <2>1, <2>2, <2>3, Zenon DEF JobSafe, Shown
<1>3. Final(k)
  BY <1>0, Zenon DEF Final
<1>4. ASSUME Receipted(k), archived' = (archived \/ (~Up /\ Unreadable)) PROVE Receipted(k)'
  <2>1. \A d \in receipts[k] : d # "none"
    BY Zenon DEF TypeOK, Decisions
  <2>2. ~archived' => receipts[k] = {}
    BY <1>0, <1>4, <1>e, <2>1, Zenon DEF Receipted
  <2> QED
    BY <2>2, Zenon DEF Receipted, Acts, SameHistory
<1> QED
  BY <1>2, <1>3, <1>4, Zenon DEF Kept

\* The first decision about a job is the only one on record.
LEMMA DecidesKept ==
    ASSUME TypeOK, NEW k \in JobIds, NEW d \in Decisions, JobSafe(k), Decides(k, d)
    PROVE  Kept(k)
<1> DEFINE new == resolve(registry[k], d)
<1>e. Entry(k) = registry[k] /\ Entry(k)' = registry'[k]
  BY Zenon DEF Entry, Decides
<1>0. /\ registry[k] # NoJob /\ registry[k].resolution = "none" /\ store.disk[k].resolution = "none"
      /\ registry[k].status = "ReconciliationRequired"
  BY <1>e, Absent, Zenon DEF JobSafe, Decides
<1>n. new.status = "Resolved" /\ new.resolution = d /\ new # NoJob /\ d # "none"
  BY Absent, DecidedFields DEF TypeOK, JobMaps, Decisions
<1>u. k \in used' /\ retired \subseteq retired' /\ attempt'[k] = attempt[k] /\ (k \in acked' <=> k \in acked)
  BY Zenon DEF Decides
<1>r. ~archived /\ Receipted(k) => receipts[k] = {}
  <2>1. \A e \in receipts[k] : e # "none"
    BY Zenon DEF TypeOK, Decisions
  <2> QED
    BY <1>0, <1>e, <2>1, Zenon DEF Receipted
<1>f. Final(k)
  BY <1>0, Zenon DEF Final
<1>1. CASE /\ receipts'[k] = receipts[k] \cup {d}
           /\ registry'[k] = new \/ (registry'[k] = NoJob /\ k \in retired')
           /\ store'.disk[k] = new \/ (store'.disk[k] = NoJob /\ k \in retired')
  <2> HIDE DEF new
  <2>1. JobSafe(k)'
    BY <1>1, <1>e, <1>n, <1>u, Absent DEF JobSafe, Shown
  <2>2. ASSUME Receipted(k), archived' = (archived \/ (~Up /\ Unreadable)) PROVE Receipted(k)'
    BY <1>1, <1>e, <1>n, <1>r, <2>2, Zenon DEF Receipted
  <2> QED
    BY <1>f, <2>1, <2>2, Zenon DEF Kept
<1>2. CASE /\ receipts'[k] = receipts[k]
           /\ registry'[k] = registry[k] /\ k \in resolving'
           /\ store'.disk[k] \in {store.disk[k], new}
  <2> HIDE DEF new
  <2>1. JobSafe(k)'
    BY <1>0, <1>2, <1>e, <1>n, <1>u DEF JobSafe, Shown
  <2>2. ASSUME Receipted(k), archived' = (archived \/ (~Up /\ Unreadable)) PROVE Receipted(k)'
    BY <1>2, <1>r, <2>2, Zenon DEF Receipted
  <2> QED
    BY <1>f, <2>1, <2>2, Zenon DEF Kept
<1> QED
  BY <1>1, <1>2, Zenon DEF Decides

\* The next process takes over what is in the file, or asks for reconciliation.
LEMMA RestartsKept == ASSUME TypeOK, NEW k \in JobIds, JobSafe(k), Restarts(k) PROVE Kept(k)
<1> DEFINE f == store.disk[k]
           g == store'.disk[k]
<1>u. /\ retired \subseteq retired' /\ attempt'[k] = attempt[k] /\ receipts'[k] = receipts[k]
      /\ k \in acked' <=> k \in acked
      /\ k \in used' <=> k \in used
  BY Zenon DEF Restarts, SameHistory
<1>1. /\ Entry(k)' = g
      /\ g = f \/ (g = NoJob /\ k \in retired') \/ (f # NoJob /\ Undecided(g) /\ g.status = "ReconciliationRequired")
  BY Zenon DEF Restarts
<1>2. f.resolution # "none" => f.status = "Resolved"
  BY Zenon DEF JobSafe
<1>3. JobSafe(k)'
  <2>1. g.resolution # "none" => g.status = "Resolved"
    BY <1>1, <1>2, Absent, Zenon DEF Undecided
  <2>2. k \in acked' /\ k \notin retired' => g # NoJob
    BY <1>1, <1>u, Zenon DEF JobSafe, Undecided
  <2>3. attempt'[k] = "begun" =>
          \/ g.status \in {"Running", "ReconciliationRequired", "Resolved"}
          \/ g = NoJob /\ k \in retired'
    BY <1>1, <1>u, Zenon DEF JobSafe, Shown
  <2>4. k \notin used' => attempt'[k] = "none" /\ k \notin acked' /\ receipts'[k] = {}
    BY <1>u, Zenon DEF JobSafe
  <2> QED
    BY <1>1, <2>1, <2>2, <2>3, <2>4, Zenon DEF JobSafe, Shown
<1>4. Final(k)
  BY <1>1, Absent, Zenon DEF Final, Undecided
<1>5. ASSUME Receipted(k), archived' = (archived \/ (~Up /\ Unreadable)) PROVE Receipted(k)'
  <2> SUFFICES ASSUME ~archived', NEW d \in receipts[k]
               PROVE  (g = NoJob \/ g.resolution = d) /\ \A e \in receipts[k] : e = d
    BY <1>1, <1>u, Zenon DEF Receipted
  <2>1. ~archived /\ ~(~Up /\ Unreadable)
    BY <1>5, Zenon
  <2>2. (f = NoJob \/ f.resolution = d) /\ \A e \in receipts[k] : e = d
    BY <1>5, <2>1, Zenon DEF Receipted
  <2>3. d # "none"
    BY Zenon DEF TypeOK, Decisions
  <2>4. f # NoJob => f.status # "Running"
    BY <1>2, <2>2, <2>3, Zenon
  <2> QED
    BY <2>1, <2>2, <2>4, Zenon DEF Restarts
<1> QED
  BY <1>3, <1>4, <1>5, Zenon DEF Kept

-----------------------------------------------------------------------------
(* A store whose file is whole stays so.                                      *)

\* An append writes a whole line or none.
LEMMA WholeAppend ==
    ASSUME WholeLines, NEW s \in Store, Whole(s), NEW id \in JobIds, NEW job \in Job, NEW o \in Outcomes
    PROVE  /\ Whole(append(s, id, job, o))
           /\ \A k \in JobIds :
                append(s, id, job, o).disk[k] = IF k = id /\ o # "lost" THEN job ELSE s.disk[k]
<1>0. o \in {"ok", "compacted", "lost", "detached"}
  BY Zenon DEF Outcomes, WholeLines, Acknowledged, WriteFaults
<1>1. CASE o = "lost"
  BY <1>1, Zenon DEF append
<1>2. CASE o = "compacted"
  <2> DEFINE jobs == [s.index EXCEPT ![id] = job]
  <2>1. append(s, id, job, o) = Snapshot(jobs)
    BY <1>2, Zenon DEF append
  <2>2. \A k \in JobIds : jobs[k] = IF k = id THEN job ELSE s.disk[k]
    BY Zenon DEF Whole, Store, JobMaps
  <2> HIDE DEF jobs
  <2> QED
    BY <1>2, <2>1, <2>2 DEF Snapshot, Whole
<1>3. CASE o \in {"ok", "detached"}
  <2> DEFINE w == [s EXCEPT !.disk[id] = job]
  <2>1. append(s, id, job, o) = [w EXCEPT !.index[id] = job, !.reused = FALSE]
    BY <1>3, Zenon DEF append, LineSynced, LineWritten, Whole
  <2>2. /\ w \in Store /\ w.index = s.index /\ w.disk = [s.disk EXCEPT ![id] = job]
        /\ w.torn = s.torn /\ w.damaged = s.damaged
    BY Zenon DEF Store, JobMaps
  <2> HIDE DEF w
  <2> DEFINE t == [w EXCEPT !.index[id] = job, !.reused = FALSE]
  <2>3. /\ t.index = [s.index EXCEPT ![id] = job] /\ t.disk = [s.disk EXCEPT ![id] = job]
        /\ ~t.torn /\ ~t.damaged /\ ~t.reused
    BY <2>2, Zenon DEF Store, Whole
  <2>4. append(s, id, job, o) = t
    BY <2>1, Zenon
  <2>5. \A k \in JobIds : [s.disk EXCEPT ![id] = job][k] = IF k = id THEN job ELSE s.disk[k]
    BY Zenon DEF Store, JobMaps
  <2> HIDE DEF t
  <2>6. Whole(t)
    BY <2>3, Zenon DEF Whole
  <2> QED
    BY <1>3, <2>3, <2>4, <2>5, <2>6, Zenon
<1> QED
  BY <1>0, <1>1, <1>2, <1>3, Zenon

\* A prune drops ended jobs from the file and from the index alike.
LEMMA WholePrune ==
    ASSUME NEW s \in Store, Whole(s), NEW o, NEW t \in prune_store_terminal(s, o)
    PROVE  /\ Whole(t)
           /\ \A k \in JobIds :
                \/ t.disk[k] = s.disk[k]
                \/ t.disk[k] = NoJob /\ s.disk[k].status \in TerminalStatus /\ k \in Dropped(s.index, t.index)
<1>1. CASE t = s
  BY <1>1, Zenon
<1>2. CASE t = Rescanned(s)
  <2>1. t.index = s.disk /\ t.disk = s.disk /\ ~t.reused /\ t.torn = s.torn /\ t.damaged = s.damaged
    BY <1>2, Zenon DEF Rescanned, Store
  <2> QED
    BY <2>1, Zenon DEF Whole
<1>3. ASSUME NEW jobs \in prune_terminal(s.index), t = Snapshot(jobs)
      PROVE  /\ Whole(t)
             /\ \A k \in JobIds :
                  \/ t.disk[k] = s.disk[k]
                  \/ t.disk[k] = NoJob /\ s.disk[k].status \in TerminalStatus /\ k \in Dropped(s.index, t.index)
  <2>1. t.disk = jobs /\ t.index = jobs /\ Whole(t)
    BY <1>3, Zenon DEF Snapshot, Whole
  <2>2. \A k \in JobIds : jobs[k] = s.index[k] \/ (jobs[k] = NoJob /\ s.index[k].status \in TerminalStatus)
    BY <1>3, PruneFacts, Zenon DEF Store
  <2>3. s.index = s.disk
    BY Zenon DEF Whole
  <2> QED
    BY <2>1, <2>2, <2>3, Zenon DEF Dropped, Terminal
<1> QED
  BY <1>1, <1>2, <1>3, Zenon DEF prune_store_terminal

\* The one or two appends of persist_or_reconcile.
LEMMA WholePersisted ==
    ASSUME WholeLines, TypeOK, Whole(store), NEW id \in JobIds, NEW job \in Job,
           NEW o1 \in Outcomes, NEW o2 \in Outcomes
    PROVE  LET s == PersistedStore(id, job, o1, o2)
           IN  /\ s \in Store /\ Whole(s)
               /\ \A k \in JobIds : k # id => s.disk[k] = store.disk[k]
               /\ s.disk[id] \in {store.disk[id], job, require_reconciliation(job)}
               /\ o1 \in Acknowledged => s.disk[id] = job
<1> DEFINE t == append(store, id, job, o1)
           u == append(t, id, require_reconciliation(job), o2)
<1>1. store \in Store /\ t \in Store /\ require_reconciliation(job) \in Job
  BY AppendType, OutcomeTypes, TransitionTypes, Zenon DEF TypeOK
<1>2. Whole(t) /\ \A k \in JobIds : t.disk[k] = IF k = id /\ o1 # "lost" THEN job ELSE store.disk[k]
  BY <1>1, WholeAppend
<1>3. PersistedStore(id, job, o1, o2) = IF o1 \in Acknowledged THEN t ELSE u
  BY Zenon DEF PersistedStore
<1> HIDE DEF t
<1>4. Whole(u) /\ \A k \in JobIds : u.disk[k] = IF k = id /\ o2 # "lost" THEN require_reconciliation(job) ELSE t.disk[k]
  BY <1>1, <1>2, WholeAppend
<1>5. u \in Store
  BY <1>1, AppendType, OutcomeTypes, Zenon
<1> HIDE DEF u
<1> QED
  BY <1>1, <1>2, <1>3, <1>4, <1>5, Zenon DEF Acknowledged

\* Settling a job whose record is in the file.
LEMMA WholeSettle ==
    ASSUME TypeOK, NEW id \in JobIds, NEW job \in Job, NEW s \in Store, Whole(s), NEW p,
           Settle([registry EXCEPT ![id] = job], s, p)
    PROVE  /\ Whole(store') /\ retired \subseteq retired'
           /\ \A k \in JobIds :
                /\ k # id => registry'[k] = registry[k] \/ Gone(k, registry[k], registry'[k])
                /\ k = id => registry'[k] = job \/ (registry'[k] = NoJob /\ k \in retired')
                /\ store'.disk[k] = s.disk[k] \/ Gone(k, s.disk[k], store'.disk[k])
<1> DEFINE jobs == [registry EXCEPT ![id] = job]
<1>1. jobs \in JobMaps /\ \A k \in JobIds : jobs[k] = IF k = id THEN job ELSE registry[k]
  BY Zenon DEF TypeOK, JobMaps
<1>2. /\ registry' \in prune_terminal(jobs)
      /\ store' \in prune_store_terminal(s, p)
      /\ retired' = retired \cup Dropped(jobs, registry') \cup Dropped(s.index, store'.index)
  BY Zenon DEF Settle
<1> HIDE DEF jobs
<1>3. \A k \in JobIds :
        \/ registry'[k] = jobs[k]
        \/ registry'[k] = NoJob /\ jobs[k].status \in TerminalStatus /\ k \in retired'
  BY <1>1, <1>2, PruneFacts DEF Dropped, Terminal
<1>4. /\ Whole(store')
      /\ \A k \in JobIds : store'.disk[k] = s.disk[k] \/ Gone(k, s.disk[k], store'.disk[k])
  BY <1>2, WholePrune, Zenon DEF Gone
<1> QED
  BY <1>1, <1>2, <1>3, <1>4, Zenon DEF Gone

-----------------------------------------------------------------------------
(* Every step keeps every job.                                                *)

DurableInv == Intact /\ \A k \in JobIds : JobSafe(k)

\* A step that touches neither a job nor its history.
LEMMA QuietKept ==
    ASSUME TypeOK, DurableInv, Up' = Up, UNCHANGED <<registry, store, resolving, history>>
    PROVE  Intact' /\ \A k \in JobIds : Kept(k)
<1>1. Intact'
  BY Zenon DEF DurableInv, Intact
<1>2. ASSUME NEW k \in JobIds PROVE Kept(k)
  <2>1. SameHistory(k) /\ attempt'[k] = attempt[k]
    BY Zenon DEF SameHistory, history
  <2>2. CASE Up
    <3>1. Passes(k)
      BY <2>1, <2>2, Zenon DEF Passes
    <3> QED
      BY <3>1, PassesKept, Zenon DEF DurableInv
  <2>3. CASE ~Up
    <3>1. Restarts(k)
      BY <2>1, <2>3, Zenon DEF Restarts, Entry
    <3> QED
      BY <3>1, RestartsKept, Zenon DEF DurableInv
  <2> QED
    BY <2>2, <2>3, Zenon
<1> QED
  BY <1>1, <1>2, Zenon

\* A submission is on record in the file before it is in the registry.
LEMMA SubmitKept ==
    ASSUME WholeLines, TypeOK, Bookkeeping, DurableInv, NEW id \in JobIds, NEW o \in Outcomes, submit(id, o)
    PROVE  Intact' /\ \A k \in JobIds : Kept(k)
<1>1. /\ Up /\ Up' /\ id \notin used /\ used' = used \cup {id} /\ store' = append(store, id, NewJob, o)
      /\ UNCHANGED <<resolving, receipts, attempt, retired>>
      /\ IF o \in Acknowledged
         THEN registry' = [registry EXCEPT ![id] = NewJob] /\ acked' = acked \cup {id}
         ELSE UNCHANGED <<registry, acked>>
  BY Zenon DEF submit, Up
<1>2. store \in Store /\ Whole(store)
  BY <1>1, Zenon DEF TypeOK, DurableInv, Intact
<1>3. /\ Whole(store')
      /\ \A k \in JobIds : store'.disk[k] = IF k = id /\ o # "lost" THEN NewJob ELSE store.disk[k]
  BY <1>1, <1>2, WholeAppend, ConstantJobTypes
<1>4. ASSUME NEW k \in JobIds, k # id PROVE Kept(k)
  <2>1. registry'[k] = registry[k] /\ (k \in acked' <=> k \in acked) /\ (k \in used' <=> k \in used)
    BY <1>1, <1>4, Zenon DEF TypeOK, JobMaps
  <2>2. Passes(k)
    BY <1>1, <1>3, <1>4, <2>1, Zenon DEF Passes, SameHistory
  <2> QED
    BY <2>2, PassesKept, Zenon DEF DurableInv
<1>5. Kept(id)
  <2>1. store.disk[id] = NoJob /\ registry[id] = NoJob
    BY <1>1, Zenon DEF Bookkeeping, InOrder, Blank
  <2>2. attempt[id] = "none" /\ id \notin acked /\ receipts[id] = {}
    BY <1>1, Zenon DEF DurableInv, JobSafe
  <2>3. /\ registry'[id] \in {NoJob, NewJob} /\ store'.disk[id] \in {NoJob, NewJob}
        /\ id \in acked' => registry'[id] = NewJob /\ store'.disk[id] = NewJob
    BY <1>1, <1>3, <2>1, <2>2, Zenon DEF TypeOK, JobMaps, Acknowledged
  <2>4. NewJob # NoJob /\ NewJob.resolution = "none"
    BY Zenon DEF NewJob, NoJob
  <2>5. Entry(id)' = registry'[id]
    BY <1>1, Zenon DEF Entry
  <2>6. id \in used' /\ attempt'[id] = "none" /\ receipts'[id] = {}
    BY <1>1, <2>2, Zenon
  <2>7. JobSafe(id)'
    BY <2>3, <2>4, <2>5, <2>6, Absent, Zenon DEF JobSafe
  <2> QED
    BY <2>1, <2>6, <2>7, Absent, Zenon DEF Kept, Final, Receipted
<1> QED
  BY <1>1, <1>3, <1>4, <1>5, Zenon DEF Intact

\* A running job becomes uncertain in the registry, and in the file if the append
\* gets there (cancel_running and abort_all_running).
LEMMA UncertainKept ==
    ASSUME WholeLines, TypeOK, Bookkeeping, DurableInv, NEW id \in JobIds, NEW o \in Outcomes,
           Up, Up', registry[id].status = "Running",
           registry' = [registry EXCEPT ![id] = require_reconciliation(registry[id])],
           store' = append(store, id, require_reconciliation(registry[id]), o),
           UNCHANGED <<resolving, history>>
    PROVE  Intact' /\ \A k \in JobIds : Kept(k)
<1> DEFINE job == require_reconciliation(registry[id])
<1>0. registry[id] \in Job /\ job \in Job
  BY TransitionTypes, Zenon DEF TypeOK, JobMaps
<1>1. job.status = "ReconciliationRequired" /\ job.resolution = registry[id].resolution
  BY <1>0, TransitionFields, Zenon
<1>2. store \in Store /\ Whole(store)
  BY Zenon DEF TypeOK, DurableInv, Intact
<1>3. Whole(store') /\ \A k \in JobIds : store'.disk[k] = IF k = id /\ o # "lost" THEN job ELSE store.disk[k]
  BY <1>0, <1>2, WholeAppend
<1>4. \A k \in JobIds : registry'[k] = IF k = id THEN job ELSE registry[k]
  BY Zenon DEF TypeOK, JobMaps
<1> HIDE DEF job
<1>5. ASSUME NEW k \in JobIds, k # id PROVE Kept(k)
  <2>1. Passes(k)
    BY <1>3, <1>4, <1>5, Zenon DEF Passes, SameHistory, history
  <2> QED
    BY <2>1, PassesKept, Zenon DEF DurableInv
<1>6. Kept(id)
  <2>1. id \in used
    BY Absent, Zenon DEF Bookkeeping, InOrder
  <2>2. registry[id].resolution = "none"
    BY Zenon DEF DurableInv, JobSafe, Entry
  <2>3. Undecided(job)
    BY <1>1, <2>2, Absent, Zenon DEF Undecided
  <2>4. attempt[id] = "begun" => Shown(id, store.disk[id])
    BY Zenon DEF DurableInv, JobSafe
  <2>5. attempt'[id] = "begun" => Shown(id, registry[id])' /\ Shown(id, store.disk[id])'
    BY <1>1, <1>3, <1>4, <2>4, Zenon DEF Shown, history
  <2>6. Acts(id)
    BY <1>3, <1>4, <2>1, <2>3, <2>5, Zenon DEF Acts, SameHistory, history
  <2> QED
    BY <2>6, ActsKept, Zenon DEF DurableInv
<1> QED
  BY <1>3, <1>5, <1>6, Zenon DEF Intact

\* A job is Running in the file before its handler starts.
LEMMA DispatchKept ==
    ASSUME WholeLines, TypeOK, Bookkeeping, DurableInv, NEW i \in DOMAIN queue, NEW o \in Outcomes, dispatch(i, o)
    PROVE  Intact' /\ \A k \in JobIds : Kept(k)
<1>0. PICK id \in JobIds : id = queue[i]
  BY DEF TypeOK
<1> DEFINE job == start(registry[id])
<1>1. /\ loop = "dispatch" /\ loop' # "down" /\ store' = append(store, id, job, o)
      /\ UNCHANGED <<resolving, used, acked, receipts, retired>>
      /\ IF o \in Acknowledged
         THEN registry' = [registry EXCEPT ![id] = job] /\ attempt' = [attempt EXCEPT ![id] = "begun"]
         ELSE UNCHANGED <<registry, attempt>>
  BY <1>0, Zenon DEF dispatch
<1>2. id \in JobIds /\ InQueue(queue, id)
  BY <1>0, Zenon DEF InQueue
<1>3. registry[id].status = "Pending" /\ registry[id] # NoJob /\ id \in used
  BY <1>2, Absent, Zenon DEF Bookkeeping, InOrder
<1>4. registry[id] \in Job /\ job \in Job
  BY <1>2, TransitionTypes, Zenon DEF TypeOK, JobMaps
<1>5. job.status = "Running" /\ job.resolution = registry[id].resolution
  BY <1>4, TransitionFields, Zenon
<1>6. Up /\ Up' /\ store \in Store /\ Whole(store)
  BY <1>1, Zenon DEF TypeOK, DurableInv, Intact, Up
<1>7. Whole(store') /\ \A k \in JobIds : store'.disk[k] = IF k = id /\ o # "lost" THEN job ELSE store.disk[k]
  BY <1>1, <1>2, <1>4, <1>6, WholeAppend
<1>8. \A k \in JobIds :
        /\ registry'[k] = IF k = id /\ o \in Acknowledged THEN job ELSE registry[k]
        /\ attempt'[k] = IF k = id /\ o \in Acknowledged THEN "begun" ELSE attempt[k]
  BY <1>1, Zenon DEF TypeOK, JobMaps
<1> HIDE DEF job
<1>9. ASSUME NEW k \in JobIds, k # id PROVE Kept(k)
  <2>1. Passes(k)
    BY <1>1, <1>6, <1>7, <1>8, <1>9, Zenon DEF Passes, SameHistory
  <2> QED
    BY <2>1, PassesKept, Zenon DEF DurableInv
<1>10. Kept(id)
  <2>2. registry[id].resolution = "none"
    BY <1>2, <1>3, <1>6, Zenon DEF DurableInv, JobSafe, Entry
  <2>3. Undecided(job) /\ Undecided(registry[id])
    BY <1>3, <1>5, <2>2, Absent, Zenon DEF Undecided
  <2>4. attempt[id] # "begun"
    BY <1>2, <1>3, <1>6, Zenon DEF DurableInv, JobSafe, Entry, Shown
  <2>5. attempt'[id] = "begun" => registry'[id].status = "Running" /\ store'.disk[id].status = "Running"
    BY <1>2, <1>5, <1>7, <1>8, <2>4, Zenon DEF Acknowledged
  <2>6. Undecided(registry'[id]) /\ (store'.disk[id] = store.disk[id] \/ Undecided(store'.disk[id]))
    BY <1>2, <1>7, <1>8, <2>3, Zenon
  <2>7. attempt'[id] = "begun" => Shown(id, registry[id])' /\ Shown(id, store.disk[id])'
    BY <2>5, Zenon DEF Shown
  <2>8. SameHistory(id)
    BY <1>1, Zenon DEF SameHistory
  <2>9. Acts(id)
    BY <1>3, <1>6, <2>6, <2>7, <2>8, Zenon DEF Acts
  <2> QED
    BY <1>2, <2>9, ActsKept, Zenon DEF DurableInv
<1> QED
  BY <1>2, <1>7, <1>9, <1>10, Zenon DEF Intact

\* What a settled step is for the jobs it is not about.
LEMMA OthersKept ==
    ASSUME TypeOK, DurableInv, NEW k \in JobIds, Up, Up', SameHistory(k), attempt'[k] = attempt[k],
           k \in resolving' <=> k \in resolving,
           registry'[k] = registry[k] \/ Gone(k, registry[k], registry'[k]),
           store'.disk[k] = store.disk[k] \/ Gone(k, store.disk[k], store'.disk[k])
    PROVE  Kept(k)
<1>1. Passes(k)
  BY Zenon DEF Passes
<1> QED
  BY <1>1, PassesKept, Zenon DEF DurableInv

\* A cancellation is in the file before the job leaves the queue.
LEMMA CancelKept ==
    ASSUME WholeLines, TypeOK, Bookkeeping, DurableInv, NEW id \in JobIds, NEW o \in Outcomes,
           NEW p \in PruneOutcomes, cancel_pending(id, o, p)
    PROVE  Intact' /\ \A k \in JobIds : Kept(k)
<1> DEFINE job == cancel(registry[id])
           s == append(store, id, job, o)
<1>1. /\ Up /\ Up' /\ registry[id].status = "Pending"
      /\ UNCHANGED <<resolving, used, acked, receipts, attempt>>
      /\ IF o \in Acknowledged THEN Settle([registry EXCEPT ![id] = job], s, p)
         ELSE store' = s /\ UNCHANGED <<registry, retired>>
  BY Zenon DEF cancel_pending, Up
<1>2. registry[id] \in Job /\ job \in Job
  BY TransitionTypes, Zenon DEF TypeOK, JobMaps
<1>3. job.status = "Cancelled" /\ job.resolution = registry[id].resolution
  BY <1>2, TransitionFields, Zenon
<1>4. store \in Store /\ Whole(store)
  BY <1>1, Zenon DEF TypeOK, DurableInv, Intact
<1>5. s \in Store /\ Whole(s) /\ \A k \in JobIds : s.disk[k] = IF k = id /\ o # "lost" THEN job ELSE store.disk[k]
  BY <1>2, <1>4, WholeAppend, AppendType, OutcomeTypes
<1> HIDE DEF s, job
<1>6. /\ Whole(store') /\ retired \subseteq retired'
      /\ \A k \in JobIds :
           /\ k # id => registry'[k] = registry[k] \/ Gone(k, registry[k], registry'[k])
           /\ k = id => registry'[k] \in {registry[id], job} \/ (registry'[k] = NoJob /\ k \in retired')
           /\ store'.disk[k] = s.disk[k] \/ Gone(k, s.disk[k], store'.disk[k])
  <2>1. CASE o \in Acknowledged
    BY <1>1, <1>2, <1>5, <2>1, WholeSettle
  <2>2. CASE o \notin Acknowledged
    BY <1>1, <1>5, <2>2, Zenon
  <2> QED
    BY <2>1, <2>2, Zenon
<1>7. ASSUME NEW k \in JobIds, k # id PROVE Kept(k)
  BY <1>1, <1>5, <1>6, <1>7, OthersKept, Zenon DEF SameHistory
<1>8. Kept(id)
  <2>1. registry[id] # NoJob /\ id \in used
    BY <1>1, Absent, Zenon DEF Bookkeeping, InOrder
  <2>2. registry[id].resolution = "none" /\ attempt[id] # "begun"
    BY <1>1, <2>1, Zenon DEF DurableInv, JobSafe, Entry, Shown
  <2>3. Undecided(job) /\ Undecided(registry[id])
    BY <1>3, <2>1, <2>2, Absent, Zenon DEF Undecided
  <2>4. Acts(id)
    BY <1>1, <1>5, <1>6, <2>1, <2>2, <2>3, Zenon DEF Acts, SameHistory, Gone
  <2> QED
    BY <2>4, ActsKept, Zenon DEF DurableInv
<1> QED
  BY <1>6, <1>7, <1>8, Zenon DEF Intact

\* A decision is in the file before it is acknowledged, and otherwise pending.
LEMMA ResolveKept ==
    ASSUME WholeLines, TypeOK, Bookkeeping, DurableInv, NEW id \in JobIds, NEW d \in Decisions,
           NEW o \in Outcomes, NEW p \in PruneOutcomes, resolve_job(id, d, o, p)
    PROVE  Intact' /\ \A k \in JobIds : Kept(k)
<1> DEFINE job == resolve(registry[id], d)
           s == append(store, id, job, o)
<1>1. /\ Up /\ Up' /\ registry[id].status = "ReconciliationRequired" /\ id \notin resolving
      /\ UNCHANGED <<used, acked, attempt>>
      /\ IF o \in Acknowledged
         THEN /\ Settle([registry EXCEPT ![id] = job], s, p)
              /\ receipts' = [receipts EXCEPT ![id] = @ \cup {d}] /\ UNCHANGED resolving
         ELSE /\ store' = s /\ resolving' = resolving \cup {id} /\ UNCHANGED <<registry, receipts, retired>>
  BY Zenon DEF resolve_job, Up
<1>2. registry[id] \in Job /\ job \in Job
  BY TransitionTypes, Zenon DEF TypeOK, JobMaps
<1>4. store \in Store /\ Whole(store)
  BY <1>1, Zenon DEF TypeOK, DurableInv, Intact
<1>5. s \in Store /\ Whole(s) /\ \A k \in JobIds : s.disk[k] = IF k = id /\ o # "lost" THEN job ELSE store.disk[k]
  BY <1>2, <1>4, WholeAppend, AppendType, OutcomeTypes
<1>u. id \in used
  BY <1>1, Absent, Zenon DEF Bookkeeping, InOrder
<1> HIDE DEF s, job
<1>6. CASE o \in Acknowledged
  <2>1. /\ Whole(store') /\ retired \subseteq retired'
        /\ \A k \in JobIds :
             /\ k # id => registry'[k] = registry[k] \/ Gone(k, registry[k], registry'[k])
             /\ k = id => registry'[k] = job \/ (registry'[k] = NoJob /\ k \in retired')
             /\ store'.disk[k] = s.disk[k] \/ Gone(k, s.disk[k], store'.disk[k])
    BY <1>1, <1>2, <1>5, <1>6, WholeSettle, Zenon
  <2>2. s.disk[id] = job
    BY <1>5, <1>6, Zenon DEF Acknowledged
  <2>3. \A k \in JobIds : receipts'[k] = IF k = id THEN receipts[k] \cup {d} ELSE receipts[k]
    BY <1>1, <1>6, Zenon DEF TypeOK
  <2>4. ASSUME NEW k \in JobIds, k # id PROVE Kept(k)
    <3>1. SameHistory(k) /\ attempt'[k] = attempt[k] /\ (k \in resolving' <=> k \in resolving)
      BY <1>1, <1>6, <2>1, <2>3, <2>4, Zenon DEF SameHistory
    <3> QED
      BY <1>1, <1>5, <2>1, <2>4, <3>1, OthersKept, Zenon
  <2>5. Decides(id, d)
    BY <1>1, <1>6, <1>u, <2>1, <2>2, <2>3, Zenon DEF Decides, Gone, job
  <2>6. Kept(id)
    BY <2>5, DecidesKept, Zenon DEF DurableInv
  <2> QED
    BY <2>1, <2>4, <2>6, Zenon DEF Intact
<1>7. CASE o \notin Acknowledged
  <2>1. ASSUME NEW k \in JobIds, k # id PROVE Kept(k)
    BY <1>1, <1>5, <1>7, <2>1, OthersKept, Zenon DEF SameHistory
  <2>2. Decides(id, d)
    BY <1>1, <1>5, <1>7, <1>u, Zenon DEF Decides, job
  <2>3. Kept(id)
    BY <2>2, DecidesKept, Zenon DEF DurableInv
  <2> QED
    BY <1>1, <1>5, <1>7, <2>1, <2>3, Zenon DEF Intact
<1> QED
  BY <1>6, <1>7, Zenon

\* A repeated attestation is answered from the receipt.
LEMMA AgainKept ==
    ASSUME TypeOK, Bookkeeping, DurableInv, NEW id \in JobIds, resolve_again(id)
    PROVE  Intact' /\ \A k \in JobIds : Kept(k)
<1>1. /\ Up /\ Up' /\ registry[id].resolution # "none"
      /\ receipts' = [receipts EXCEPT ![id] = @ \cup {registry[id].resolution}]
      /\ UNCHANGED <<registry, resolving, store, used, acked, attempt, retired>>
  BY Zenon DEF resolve_again, process, Up
<1>2. \A k \in JobIds : receipts'[k] = IF k = id THEN receipts[k] \cup {registry[id].resolution} ELSE receipts[k]
  BY <1>1, Zenon DEF TypeOK
<1>3. ASSUME NEW k \in JobIds, k # id PROVE Kept(k)
  <2>1. SameHistory(k)
    BY <1>1, <1>2, <1>3, Zenon DEF SameHistory
  <2> QED
    BY <1>1, <2>1, OthersKept, Zenon
<1>4. Kept(id)
  <2>1. id \in used
    BY <1>1, Absent, Zenon DEF Bookkeeping, InOrder
  <2>2. Entry(id) = registry[id] /\ Entry(id)' = registry[id]
    BY <1>1, Zenon DEF Entry
  <2>3. JobSafe(id)'
    BY <1>1, <2>1, <2>2 DEF DurableInv, JobSafe, Shown
  <2>4. registry[id] # NoJob /\ (store.disk[id] = NoJob \/ store.disk[id].resolution = registry[id].resolution)
    BY <1>1, <2>2, Absent, Zenon DEF DurableInv, JobSafe
  <2>5. ASSUME Receipted(id), archived' = (archived \/ (~Up /\ Unreadable)) PROVE Receipted(id)'
    <3>1. ~archived' => ~archived /\ \A d \in receipts[id] : d = registry[id].resolution
      BY <2>2, <2>4, <2>5, Zenon DEF Receipted
    <3> QED
      BY <1>1, <1>2, <2>2, <2>4, <3>1 DEF Receipted
  <2> QED
    BY <1>1, <2>3, <2>5, Zenon DEF Kept, Final
<1> QED
  BY <1>1, <1>3, <1>4, Zenon DEF Intact, DurableInv

\* What persist_or_reconcile makes of an undecided job is undecided.
LEMMA PersistedFields ==
    ASSUME NEW id, NEW job \in Job, NEW o, job.resolution = "none", job # NoJob
    PROVE  /\ Undecided(job) /\ Undecided(require_reconciliation(job)) /\ Undecided(Persisted(id, job, o))
           /\ require_reconciliation(job).status = "ReconciliationRequired"
<1>1. /\ require_reconciliation(job).resolution = "none"
      /\ require_reconciliation(job).status = "ReconciliationRequired"
  BY TransitionFields, Zenon
<1> QED
  BY <1>1, Absent, Zenon DEF Undecided, Persisted

\* A handler's result is recorded, or the job is uncertain.
LEMMA FinishKept ==
    ASSUME WholeLines, TypeOK, Bookkeeping, DurableInv, NEW id \in JobIds, NEW r \in Results,
           NEW o1 \in Outcomes, NEW o2 \in Outcomes, NEW p \in PruneOutcomes, finish_job(id, r, o1, o2, p)
    PROVE  Intact' /\ \A k \in JobIds : Kept(k)
<1> DEFINE fin == Finished(id, r)
           job == Persisted(id, fin, o1)
           s == PersistedStore(id, fin, o1, o2)
<1>1. /\ TransitionFree /\ task[id] = "executing" /\ loop' = loop
      /\ UNCHANGED <<resolving, used, acked, receipts>>
      /\ IF job.status \in TerminalStatus
         THEN Settle([registry EXCEPT ![id] = job], s, p)
         ELSE registry' = [registry EXCEPT ![id] = job] /\ store' = s /\ UNCHANGED retired
      /\ attempt' = [attempt EXCEPT ![id] = IF r = "timeout" THEN @ ELSE r]
  BY Zenon DEF finish_job
<1>2. Up /\ Up' /\ registry[id].status = "Running" /\ id \in used
  BY <1>1, Zenon DEF Bookkeeping, InOrder, DownIsEmpty, Up
<1>3. fin \in Job /\ registry[id] \in Job /\ job \in Job
  BY FinishedType, PersistedType, Zenon DEF TypeOK, JobMaps
<1>4. store \in Store /\ Whole(store)
  BY <1>2, Zenon DEF TypeOK, DurableInv, Intact
<1>5. registry[id].resolution = "none" /\ (attempt[id] = "begun" => Shown(id, store.disk[id]))
  BY <1>2, Zenon DEF DurableInv, JobSafe, Entry
<1>6. fin.resolution = "none" /\ fin # NoJob /\ (r = "timeout" => fin.status = "ReconciliationRequired")
  <2>1. fail(registry[id]) \in Job
    BY <1>3, TransitionTypes, Zenon
  <2> QED
    BY <1>3, <1>5, <2>1, TransitionFields, Absent, ZenonT(30) DEF Finished
<1>7. /\ s \in Store /\ Whole(s)
      /\ \A k \in JobIds : k # id => s.disk[k] = store.disk[k]
      /\ s.disk[id] \in {store.disk[id], fin, require_reconciliation(fin)}
  BY <1>3, <1>4, WholePersisted
<1>8. /\ Undecided(fin) /\ Undecided(require_reconciliation(fin)) /\ Undecided(job)
      /\ require_reconciliation(fin).status = "ReconciliationRequired"
  BY <1>3, <1>6, PersistedFields, Zenon
<1>9. r = "timeout" => job.status = "ReconciliationRequired"
  BY <1>6, <1>8, Zenon DEF Persisted
<1> HIDE DEF fin, job, s
<1>10. /\ Whole(store') /\ retired \subseteq retired'
       /\ \A k \in JobIds :
            /\ k # id => registry'[k] = registry[k] \/ Gone(k, registry[k], registry'[k])
            /\ k = id => registry'[k] = job \/ (registry'[k] = NoJob /\ k \in retired')
            /\ store'.disk[k] = s.disk[k] \/ Gone(k, s.disk[k], store'.disk[k])
  <2>1. CASE job.status \in TerminalStatus
    BY <1>1, <1>3, <1>7, <2>1, WholeSettle, Zenon
  <2>2. CASE job.status \notin TerminalStatus
    BY <1>1, <1>7, <2>2, Zenon DEF TypeOK, JobMaps
  <2> QED
    BY <2>1, <2>2, Zenon
<1>11. \A k \in JobIds : attempt'[k] = IF k = id /\ r # "timeout" THEN r ELSE attempt[k]
  BY <1>1, Zenon DEF TypeOK
<1>12. \A k \in JobIds : SameHistory(k)
  BY <1>1, <1>10, Zenon DEF SameHistory
<1>13. ASSUME NEW k \in JobIds, k # id PROVE Kept(k)
  BY <1>1, <1>2, <1>7, <1>10, <1>11, <1>12, <1>13, OthersKept
<1>14. Kept(id)
  <2>1. Undecided(registry'[id]) \/ (registry'[id] = NoJob /\ id \in retired')
    BY <1>8, <1>10, Zenon
  <2>2. \/ store'.disk[id] = store.disk[id] \/ Undecided(store'.disk[id])
        \/ store'.disk[id] = NoJob /\ id \in retired'
    BY <1>7, <1>8, <1>10, Zenon DEF Gone
  <2>3. ASSUME attempt'[id] = "begun"
        PROVE  Shown(id, registry[id])' /\ Shown(id, store.disk[id])'
    <3>1. r = "timeout" /\ attempt[id] = "begun"
      BY <1>11, <2>3, Zenon DEF Results
    <3>2. Shown(id, s.disk[id])
      BY <1>5, <1>6, <1>7, <1>8, <3>1, Zenon DEF Shown
    <3> QED
      BY <1>9, <1>10, <3>1, <3>2, Zenon DEF Shown, Gone
  <2>4. Acts(id)
    BY <1>2, <1>12, <2>1, <2>2, <2>3, Zenon DEF Acts
  <2> QED
    BY <2>4, ActsKept, Zenon DEF DurableInv
<1> QED
  BY <1>10, <1>13, <1>14, Zenon DEF Intact

\* A retry that does not fit the queue fails the job, or leaves it uncertain.
LEMMA RefusedKept ==
    ASSUME WholeLines, TypeOK, Bookkeeping, DurableInv, NEW id \in JobIds,
           NEW o1 \in Outcomes, NEW o2 \in Outcomes, NEW p \in PruneOutcomes, requeue_refused(id, o1, o2, p)
    PROVE  Intact' /\ \A k \in JobIds : Kept(k)
<1> DEFINE fin == fail(registry[id])
           job == Persisted(id, fin, o1)
           s == PersistedStore(id, fin, o1, o2)
<1>1. /\ task[id] = "backoff" /\ loop' = loop /\ registry[id].status = "Pending"
      /\ UNCHANGED <<resolving, used, acked, receipts, attempt>>
      /\ registry' = [registry EXCEPT ![id] = job]
      /\ IF o1 \in Acknowledged
         THEN store' \in prune_store_terminal(s, p) /\ retired' = retired \cup Dropped(s.index, store'.index)
         ELSE store' = s /\ UNCHANGED retired
  BY Zenon DEF requeue_refused
<1>2. Up /\ Up' /\ id \in used /\ registry[id] # NoJob
  BY <1>1, Absent, Zenon DEF Bookkeeping, InOrder, DownIsEmpty, Up
<1>3. fin \in Job /\ registry[id] \in Job
  BY TransitionTypes, Zenon DEF TypeOK, JobMaps
<1>4. store \in Store /\ Whole(store)
  BY <1>2, Zenon DEF TypeOK, DurableInv, Intact
<1>5. registry[id].resolution = "none" /\ attempt[id] # "begun"
  BY <1>1, <1>2, Zenon DEF DurableInv, JobSafe, Entry, Shown
<1>6. fin.resolution = "none" /\ fin # NoJob
  BY <1>3, <1>5, TransitionFields, Absent, ZenonT(30)
<1>7. /\ s \in Store /\ Whole(s)
      /\ \A k \in JobIds : k # id => s.disk[k] = store.disk[k]
      /\ s.disk[id] \in {store.disk[id], fin, require_reconciliation(fin)}
  BY <1>3, <1>4, WholePersisted
<1>8. Undecided(fin) /\ Undecided(require_reconciliation(fin)) /\ Undecided(job)
  BY <1>3, <1>6, PersistedFields, Zenon
<1> HIDE DEF fin, job, s
<1>10. /\ Whole(store') /\ retired \subseteq retired'
       /\ \A k \in JobIds :
            /\ registry'[k] = IF k = id THEN job ELSE registry[k]
            /\ store'.disk[k] = s.disk[k] \/ Gone(k, s.disk[k], store'.disk[k])
  <2>1. \A k \in JobIds : registry'[k] = IF k = id THEN job ELSE registry[k]
    BY <1>1, Zenon DEF TypeOK, JobMaps
  <2>2. CASE o1 \in Acknowledged
    <3>1. store' \in prune_store_terminal(s, p) /\ retired' = retired \cup Dropped(s.index, store'.index)
      BY <1>1, <2>2, Zenon
    <3>2. /\ Whole(store')
          /\ \A k \in JobIds :
               \/ store'.disk[k] = s.disk[k]
               \/ /\ store'.disk[k] = NoJob /\ s.disk[k].status \in TerminalStatus
                  /\ k \in Dropped(s.index, store'.index)
      BY <1>7, <3>1, WholePrune, Zenon
    <3>3. \A k \in JobIds : store'.disk[k] = s.disk[k] \/ Gone(k, s.disk[k], store'.disk[k])
      BY <3>1, <3>2, Zenon DEF Gone
    <3> QED
      BY <2>1, <3>1, <3>2, <3>3, Zenon
  <2>3. CASE o1 \notin Acknowledged
    BY <1>1, <1>7, <2>1, <2>3, Zenon
  <2> QED
    BY <2>2, <2>3, Zenon
<1>12. \A k \in JobIds : SameHistory(k)
  BY <1>1, <1>10, Zenon DEF SameHistory
<1>13. ASSUME NEW k \in JobIds, k # id PROVE Kept(k)
  BY <1>1, <1>2, <1>7, <1>10, <1>12, <1>13, OthersKept, Zenon
<1>14. Kept(id)
  <2>1. \/ store'.disk[id] = store.disk[id] \/ Undecided(store'.disk[id])
        \/ store'.disk[id] = NoJob /\ id \in retired'
    BY <1>7, <1>8, <1>10, Zenon DEF Gone
  <2>2. Acts(id)
    BY <1>1, <1>2, <1>5, <1>8, <1>10, <1>12, <2>1, Zenon DEF Acts
  <2> QED
    BY <2>2, ActsKept, Zenon DEF DurableInv
<1> QED
  BY <1>10, <1>13, <1>14, Zenon DEF Intact

\* The process ends: what is in the file is what remains.
LEMMA GoneKept ==
    ASSUME TypeOK, DurableInv, NEW torn \in BOOLEAN, loop' = "down", store' = Closed(store, torn), UNCHANGED history
    PROVE  Intact' /\ \A k \in JobIds : Kept(k)
<1>1. ~Up' /\ store'.disk = store.disk
  BY Zenon DEF Up, Closed, TypeOK, Store
<1>2. ASSUME NEW k \in JobIds PROVE Kept(k)
  <2>1. Restarts(k)
    BY <1>1, Zenon DEF Restarts, SameHistory, history, Entry
  <2> QED
    BY <2>1, RestartsKept, Zenon DEF DurableInv
<1> QED
  BY <1>1, <1>2, Zenon DEF Intact

\* open keeps the jobs of the file, the interrupted ones as uncertain.
LEMMA OpenKept ==
    ASSUME TypeOK, DurableInv, open_journal
    PROVE  Intact' /\ \A k \in JobIds : Kept(k)
<1> DEFINE s == open(store)
<1>1. /\ ~Up /\ store' \in prune_store_terminal(s, "ok") /\ UNCHANGED <<used, acked, receipts, attempt>>
      /\ retired' = retired \cup Dropped(s.index, store'.index)
      /\ (loop' = "top" /\ registry' = store'.index) \/ UNCHANGED loop
  BY Zenon DEF open_journal
<1>2. s \in Store /\ Whole(s) /\ \A k \in JobIds : s.disk[k] = Reopened(store, store.disk[k])
  BY StoreTypes, Zenon DEF TypeOK, open, Snapshot, Whole
<1> HIDE DEF s
<1>3. /\ Whole(store')
      /\ \A k \in JobIds : store'.disk[k] = s.disk[k] \/ (store'.disk[k] = NoJob /\ k \in retired')
  BY <1>1, <1>2, WholePrune, Zenon
<1>4. ASSUME NEW k \in JobIds PROVE Kept(k)
  <2> DEFINE f == store.disk[k]
             g == Reopened(store, f)
  <2>0. f \in Job /\ (f.status = "Running" => f.resolution = "none")
    BY Zenon DEF TypeOK, Store, JobMaps, DurableInv, JobSafe
  <2>1. \/ g = f
        \/ /\ f # NoJob /\ Undecided(g) /\ g.status = "ReconciliationRequired"
           /\ (~Up /\ Unreadable) \/ f.status = "Running"
    <3>1. /\ require_reconciliation(f) \in Job /\ require_reconciliation(f).resolution = f.resolution
          /\ require_reconciliation(f).status = "ReconciliationRequired"
      BY <2>0, TransitionTypes, TransitionFields, Zenon
    <3>2. /\ [require_reconciliation(f) EXCEPT !.resolution = "none"].resolution = "none"
          /\ [require_reconciliation(f) EXCEPT !.resolution = "none"].status = "ReconciliationRequired"
      BY <3>1, Zenon DEF Job
    <3> HIDE DEF f
    <3> QED
      BY <1>1, <2>0, <3>1, <3>2, Absent, Zenon DEF Reopened, Undecided, Unreadable, MustArchive
  <2>2. Entry(k)' = store'.disk[k]
    BY <1>1, <1>3, Zenon DEF Entry, Up, Whole
  <2>3. SameHistory(k) /\ attempt'[k] = attempt[k]
    BY <1>1, Zenon DEF SameHistory
  <2>4. store'.disk[k] = g \/ (store'.disk[k] = NoJob /\ k \in retired')
    BY <1>2, <1>3, Zenon
  <2>5. Restarts(k)
    <3> HIDE DEF g
    <3> QED
      BY <2>1, <2>2, <2>3, <2>4, Zenon DEF Restarts
  <2> QED
    BY <2>5, RestartsKept, Zenon DEF DurableInv
<1> QED
  BY <1>3, <1>4, Zenon DEF Intact

\* Every step keeps every job.
LEMMA DurableStep ==
    ASSUME WholeLines, TypeOK, Bookkeeping, DurableInv, [Next]_vars
    PROVE  Intact' /\ \A k \in JobIds : Kept(k)
<1>1. CASE UNCHANGED vars
  BY <1>1, QuietKept, Zenon DEF vars, process, Up
<1>2. CASE Client
  <2>1. CASE \E id \in JobIds, o \in Outcomes : submit(id, o)
    BY <2>1, SubmitKept, Zenon
  <2>2. CASE \E id \in JobIds, o \in Outcomes : cancel_running(id, o)
    <3>1. PICK id \in JobIds, o \in Outcomes : cancel_running(id, o)
      BY <2>2, Zenon
    <3> QED
      BY <3>1, UncertainKept, Zenon DEF cancel_running, Up
  <2>3. CASE \E id \in JobIds, o \in Outcomes, p \in PruneOutcomes : cancel_pending(id, o, p)
    BY <2>3, CancelKept, Zenon
  <2>4. CASE \E id \in JobIds, o \in Outcomes, d \in Decisions, p \in PruneOutcomes : resolve_job(id, d, o, p)
    BY <2>4, ResolveKept, Zenon
  <2>5. CASE \E id \in JobIds : resolve_again(id)
    BY <2>5, AgainKept, Zenon
  <2>6. CASE request_shutdown \/ deny_admission
    BY <2>6, QuietKept, Zenon DEF request_shutdown, deny_admission, Up
  <2> QED
    BY <1>2, <2>1, <2>2, <2>3, <2>4, <2>5, <2>6, Zenon DEF Client
<1>3. CASE RunLoop
  <2>1. CASE acquire_permit \/ dispatch_idle \/ drained
    BY <2>1, QuietKept, Zenon DEF acquire_permit, dispatch_idle, drained, Up
  <2>2. CASE abort_handles \/ abort_done
    BY <2>2, QuietKept, Zenon DEF abort_handles, abort_done, Up
  <2>3. CASE \E i \in DOMAIN queue, o \in Outcomes : dispatch(i, o)
    BY <2>3, DispatchKept, Zenon
  <2>4. CASE \E id \in JobIds, o \in Outcomes : abort_running(id, o)
    <3>1. PICK id \in JobIds, o \in Outcomes : abort_running(id, o)
      BY <2>4, Zenon
    <3> QED
      BY <3>1, UncertainKept, Zenon DEF abort_running, Up, TransitionFree
  <2> QED
    BY <1>3, <2>1, <2>2, <2>3, <2>4, Zenon DEF RunLoop
<1>4. ASSUME NEW id \in JobIds, JobTask(id) PROVE Intact' /\ \A k \in JobIds : Kept(k)
  <2>1. CASE \E r \in Results, o1 \in Outcomes, o2 \in Outcomes, p \in PruneOutcomes : finish_job(id, r, o1, o2, p)
    BY <2>1, FinishKept, Zenon
  <2>2. CASE \E o1 \in Outcomes, o2 \in Outcomes, p \in PruneOutcomes : requeue_refused(id, o1, o2, p)
    BY <2>2, RefusedKept, Zenon
  <2>3. CASE task_aborted(id) \/ requeue_after_backoff(id) \/ retry_dropped(id)
    BY <2>3, QuietKept, Zenon DEF task_aborted, requeue_after_backoff, retry_dropped, Up
  <2> QED
    BY <1>4, <2>1, <2>2, <2>3, Zenon DEF JobTask
<1>5. CASE Process
  <2>1. CASE \E torn \in BOOLEAN : crash(torn)
    BY <2>1, GoneKept, Zenon DEF crash, ProcessGone
  <2>2. CASE exit
    BY <2>2, GoneKept, Zenon DEF exit, ProcessGone
  <2>3. CASE open_journal
    BY <2>3, OpenKept, Zenon
  <2>4. CASE archive_crash
    BY <2>4, Zenon DEF archive_crash, WholeLines
  <2> QED
    BY <1>5, <2>1, <2>2, <2>3, <2>4, Zenon DEF Process
<1> QED
  BY <1>1, <1>2, <1>3, <1>4, <1>5, Zenon DEF Next

\* Nothing is on record at first.
LEMMA DurableStart == Init => DurableInv
<1> SUFFICES ASSUME Init PROVE DurableInv
  BY Zenon
<1>1. Whole(store) /\ \A k \in JobIds : store.disk[k] = NoJob /\ registry[k] = NoJob
  BY Zenon DEF Init, Snapshot, Whole, NoJobs
<1>2. \A k \in JobIds : JobSafe(k)
  BY <1>1, Absent, Zenon DEF Init, JobSafe, Entry
<1> QED
  BY <1>1, <1>2, Zenon DEF DurableInv, Intact

\* What the code relies on after a restart: as long as lines are written whole, every
\* job is at least as far along in the file as its handler and its operator have got.
THEOREM DurableCorrect == ASSUME WholeLines PROVE Spec => [](TypeOK /\ Bookkeeping /\ DurableInv)
<1>1. Init => TypeOK /\ Bookkeeping /\ DurableInv
  BY InitType, BookkeepingInit, DurableStart, Zenon
<1>2. TypeOK /\ Bookkeeping /\ DurableInv /\ [Next]_vars => (TypeOK /\ Bookkeeping /\ DurableInv)'
  BY TypeStep, BookkeepingStep, DurableStep, Zenon DEF DurableInv, Kept
<1> QED
  BY <1>1, <1>2, PTL DEF Spec

\* An acknowledged submission is never lost, through any number of crashes, failed
\* appends and failed compactions (submit, JournalJobStore::open and hydrate).
THEOREM AcknowledgedJobsStay == ASSUME WholeLines PROVE Spec => []AckedIsKept
<1>1. TypeOK /\ DurableInv => AckedIsKept
  BY Zenon DEF TypeOK, DurableInv, JobSafe, Entry, AckedIsKept
<1> QED
  BY <1>1, DurableCorrect, PTL

\* A job whose handler was started and never seen to return waits for an operator, in
\* this process and in every later one (finish_job, abort_all_running and open).
THEOREM UncertaintyShows == ASSUME WholeLines PROVE Spec => []UncertaintyIsVisible
<1>1. ASSUME Bookkeeping, DurableInv PROVE UncertaintyIsVisible
  <2> SUFFICES ASSUME Up, TransitionFree, NEW id \in JobIds, attempt[id] = "begun", task[id] \in {"none", "backoff"}
               PROVE  \/ registry[id].status \in {"ReconciliationRequired", "Resolved"}
                      \/ registry[id] = NoJob /\ id \in retired
    BY Zenon DEF UncertaintyIsVisible
  <2>1. registry[id].status # "Running"
    BY <1>1, Zenon DEF Bookkeeping, InOrder
  <2>2. Shown(id, registry[id])
    BY <1>1, Zenon DEF DurableInv, JobSafe, Entry
  <2> QED
    BY <2>1, <2>2, Zenon DEF Shown
<1> QED
  BY <1>1, DurableCorrect, PTL

\* A decision that reached the file is never replaced by another (resolve_job keeps an
\* attestation whose append failed pending until the journal is read again).
THEOREM ReceiptsAreFinal == ASSUME WholeLines PROVE Spec => DurableReceiptIsFinal
<1> DEFINE Stays == \A id \in JobIds :
             LET before == store.disk[id].resolution
                 after == store'.disk[id].resolution
             IN  before # "none" /\ after # "none" => before = after
<1>1. TypeOK /\ Bookkeeping /\ DurableInv /\ [Next]_vars => [Stays]_vars
  BY DurableStep, Zenon DEF Kept, Final
<1> HIDE DEF Stays
<1>2. Spec => [][Stays]_vars
  BY <1>1, DurableCorrect, PTL DEF Spec
<1> QED
  BY <1>2, Zenon DEF Stays, DurableReceiptIsFinal

\* Until a torn journal is put away, no two different decisions about one job are ever
\* acknowledged, by this process or by two of them (resolve_job and its receipts).
THEOREM DecisionsAgree == ASSUME WholeLines PROVE DurableSpec => []ReceiptsAgree
<1> DEFINE Inv == TypeOK /\ Bookkeeping /\ DurableInv /\ \A k \in JobIds : Receipted(k)
<1>1. DurableInit => Inv
  <2>1. DurableInit => \A k \in JobIds : Receipted(k)
    BY Zenon DEF DurableInit, Init, Receipted
  <2> QED
    BY <2>1, InitType, BookkeepingInit, DurableStart, Zenon DEF DurableInit
<1>2. ASSUME Inv, DurableNext PROVE Inv'
  <2>1. [Next]_vars /\ archived' = (archived \/ (~Up /\ Unreadable))
    BY <1>2, Zenon DEF DurableNext
  <2>2. TypeOK' /\ Bookkeeping'
    BY <1>2, <2>1, TypeStep, BookkeepingStep, Zenon
  <2>3. Intact' /\ \A k \in JobIds : Kept(k)
    BY <1>2, <2>1, DurableStep, Zenon
  <2> QED
    BY <1>2, <2>1, <2>2, <2>3, Zenon DEF Kept, DurableInv
<1>3. ASSUME Inv, UNCHANGED durableVars PROVE Inv'
  <2>1. [Next]_vars /\ UNCHANGED <<registry, store, receipts, archived, loop>>
    BY <1>3, Zenon DEF durableVars, vars, process, history
  <2>2. TypeOK' /\ Bookkeeping'
    BY <1>3, <2>1, TypeStep, BookkeepingStep, Zenon
  <2>3. Intact' /\ \A k \in JobIds : Kept(k)
    BY <1>3, <2>1, DurableStep, Zenon
  <2>4. ASSUME NEW k \in JobIds PROVE Receipted(k)'
    BY <1>3, <2>1, Zenon DEF Receipted, Entry, Up
  <2> QED
    BY <2>2, <2>3, <2>4, Zenon DEF Kept, DurableInv
<1>4. Inv => ReceiptsAgree
  BY Zenon DEF Receipted, ReceiptsAgree
<1> HIDE DEF Inv
<1> QED
  BY <1>1, <1>2, <1>3, <1>4, PTL DEF DurableSpec
=============================================================================
