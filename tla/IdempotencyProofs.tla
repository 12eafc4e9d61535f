-------------------------- MODULE IdempotencyProofs --------------------------
(***************************************************************************)
(* What the idempotency store promises, for any number of requests, keys,     *)
(* principals, crashes and failed writes: an operation with a possible effect *)
(* is not run again, a replayed outcome is the true one, the ledger keeps up  *)
(* with memory and stays readable, and it never outgrows its capacity.        *)
(***************************************************************************)
EXTENDS IdempotencyStore, FiniteSetTheorems, TLAPS

-----------------------------------------------------------------------------
(* The inductive invariant.                                                  *)

\* No effect of an operation for k is one that its client may still ask for.
Clear(k) ==
    \/ effect[k].what \in {"none", "released"}
    \/ effect[k].what = "completed" /\ lapsed[k] # "no"

\* A retained entry of k tells what the latest operation for k did, and expires only
\* if that completed.
Truthful(e, k) ==
    e.state = "Retained" =>
        /\ e.outcome # "released"
        /\ e.expires = Never \/ e.outcome = "completed"
        /\ effect[k] = [by |-> e.by, what |-> e.outcome]

\* A key is free only if its operation may be run.
Guards(e, k) == e = NoEntry => Clear(k)

KeyInv(k) ==
    /\ Truthful(entries[k], k)
    /\ entries[k].state = "Reserved" =>
          KeyOf[entries[k].by] = k /\ pc[entries[k].by] \in Holding

RequestInv(c) ==
    /\ pc[c] \in Holding => Holds(c)
    /\ pc[c] = "running" => effect[KeyOf[c]] = [by |-> c, what |-> "possible"]
    /\ pc[c] = "finishing" =>
          result[c] \in Outcomes /\ effect[KeyOf[c]] = [by |-> c, what |-> result[c]]
    /\ pc[c] = "waiting" /\ signal[c] = "pending" =>
          /\ entries[KeyOf[c]].state = "Reserved"
          /\ Body[c] = Body[entries[KeyOf[c]].by]
    /\ pc[c] # "idle" => answer[c] = "none"

DownInv == ~up => entries = Empty /\ dirty = {} /\ ~blocked /\ \A c \in Requests : pc[c] = "idle"

MemoryInv == DownInv /\ (\A k \in Keys : KeyInv(k)) /\ (\A c \in Requests : RequestInv(c))

\* What a readable ledger says of k.
DiskInv(k) ==
    ~ledger.torn =>
        /\ Truthful(ledger.disk[k], k)
        /\ Durable => Guards(ledger.disk[k], k)
        /\ Durable /\ entries[k].state = "Reserved" => ledger.disk[k] = entries[k]

\* How it relates to memory while it is written.
LiveInv(k) ==
    Durable /\ up /\ ~blocked =>
        /\ Guards(entries[k], k)
        /\ ledger.disk[k] # NoEntry <=> entries[k] # NoEntry \/ k \in dirty
        /\ entries[k].state = "Retained" => ledger.disk[k] = entries[k]

LedgerInv ==
    /\ ~Durable => ledger.disk = Empty
    /\ up /\ ~blocked => ~ledger.torn
    /\ \A k \in Keys : DiskInv(k) /\ LiveInv(k)
    /\ Durable => \A c \in Requests : pc[c] = "permitted" => Clear(KeyOf[c])

Fits(table) ==
    /\ Cardinality(Present(table)) <= Global
    /\ \A k \in Keys :
        Cardinality(OfPrincipal(Present(table), PrincipalOf[k])) <= PerPrincipal

CapacityInv == Fits(entries) /\ (~ledger.torn => Fits(ledger.disk))

IdempotencyInv == TypeOK /\ MemoryInv /\ LedgerInv
-----------------------------------------------------------------------------
(* Entries and tables.                                                       *)

\* Times are natural numbers, and no reading of the clock reaches Never.
LEMMA NeverIsLate ==
    /\ Never \in Nat /\ Never \in Times
    /\ \A t \in 0..MaxClock : t \in Nat /\ t + Ttl \in Times /\ ~(Never <= t)
BY IdempotencyAssumption DEF Never, Times

\* The constructors make entries, and their fields are what they say.
LEMMA Constructors ==
    /\ NoEntry \in Entry /\ NoEntry.state = "None" /\ NoEntry.expires = Never
    /\ \A c \in Requests :
        /\ ReservedFor(c) \in Entry /\ UnresolvedFor(c) \in Entry
        /\ ReservedFor(c).state = "Reserved" /\ ReservedFor(c).by = c
        /\ ReservedFor(c).expires = Never
        /\ UnresolvedFor(c).state = "Unresolved" /\ UnresolvedFor(c).by = c
        /\ UnresolvedFor(c).expires = Never
    /\ \A c \in Requests, o \in Outcomes, t \in Times :
        /\ RetainedFor(c, o, t) \in Entry /\ RetainedFor(c, o, t).state = "Retained"
        /\ RetainedFor(c, o, t).by = c /\ RetainedFor(c, o, t).outcome = o
        /\ RetainedFor(c, o, t).expires = t
<1>1. NoEntry \in Entry /\ NoEntry.state = "None" /\ NoEntry.expires = Never
  BY DEF NoEntry, Entry
<1>2. ASSUME NEW c \in Requests
      PROVE  /\ ReservedFor(c) \in Entry /\ UnresolvedFor(c) \in Entry
             /\ ReservedFor(c).state = "Reserved" /\ ReservedFor(c).by = c
             /\ ReservedFor(c).expires = Never
             /\ UnresolvedFor(c).state = "Unresolved" /\ UnresolvedFor(c).by = c
             /\ UnresolvedFor(c).expires = Never
  <2>1. ReservedFor(c) \in Entry /\ UnresolvedFor(c) \in Entry
    BY DEF Entry
  <2> QED
    BY <2>1, Zenon DEF ReservedFor, UnresolvedFor, NoEntry
<1>3. ASSUME NEW c \in Requests, NEW o \in Outcomes, NEW t \in Times
      PROVE  /\ RetainedFor(c, o, t) \in Entry /\ RetainedFor(c, o, t).state = "Retained"
             /\ RetainedFor(c, o, t).by = c /\ RetainedFor(c, o, t).outcome = o
             /\ RetainedFor(c, o, t).expires = t
  <2>1. RetainedFor(c, o, t) \in Entry
    BY DEF Entry
  <2> QED
    BY <2>1, Zenon DEF RetainedFor
<1> QED
  BY <1>1, <1>2, <1>3, Zenon

\* The state of an entry tells which constructor made it.
LEMMA EntryCases ==
    ASSUME NEW e \in Entry
    PROVE  /\ e.state \in {"None", "Reserved", "Unresolved", "Retained"}
           /\ e.state = "None" <=> e = NoEntry
           /\ e.state = "Reserved" => e.by \in Requests /\ e = ReservedFor(e.by)
           /\ e.state = "Unresolved" => e.by \in Requests /\ e = UnresolvedFor(e.by)
           /\ e.state = "Retained" =>
                 e.by \in Requests /\ e.outcome \in Outcomes /\ e.expires \in Times
           /\ e.state # "Retained" => e.expires = Never
<1>1. CASE e = NoEntry
  BY <1>1, Constructors, Zenon
<1>2. CASE \E c \in Requests : e = ReservedFor(c)
  BY <1>2, Constructors
<1>3. CASE \E c \in Requests : e = UnresolvedFor(c)
  BY <1>3, Constructors
<1>4. CASE \E c \in Requests, o \in Outcomes, t \in Times : e = RetainedFor(c, o, t)
  BY <1>4, Constructors
<1> QED
  BY <1>1, <1>2, <1>3, <1>4 DEF Entry

\* Only a retained entry is ever expired.
LEMMA ExpiredIsRetained ==
    ASSUME NEW table \in [Keys -> Entry], NEW time \in 0..MaxClock, NEW k \in Expired(table, time)
    PROVE  k \in Keys /\ table[k] # NoEntry /\ table[k].state = "Retained" /\ table[k].expires # Never
<1>1. k \in Keys /\ table[k].expires <= time
  BY Zenon DEF Expired
<1>2. table[k].expires # Never
  BY <1>1, NeverIsLate, Zenon
<1> QED
  BY <1>1, <1>2, EntryCases, Constructors, Zenon

\* Dropping keys from a table drops nothing else.
LEMMA WithoutTable ==
    ASSUME NEW table \in [Keys -> Entry], NEW gone
    PROVE  /\ Without(table, gone) \in [Keys -> Entry]
           /\ \A k \in Keys : Without(table, gone)[k] = IF k \in gone THEN NoEntry ELSE table[k]
BY Constructors, Zenon DEF Without

-----------------------------------------------------------------------------
(* Writes, expiry and eviction.                                              *)

\* A write keeps the types.
LEMMA PersistTypes ==
    ASSUME TypeOK, NEW table \in [Keys -> Entry], NEW changed \in SUBSET Keys,
           NEW w \in Writes \cup WriteFaults, persist_locked(table, changed, w)
    PROVE  /\ ledger' \in [disk : [Keys -> Entry], log : BOOLEAN, torn : BOOLEAN]
           /\ blocked' \in BOOLEAN /\ dirty' \in SUBSET Keys /\ failures' \in 0..MaxFailures
<1> USE DEF TypeOK, persist_locked
<1>1. CASE blocked \/ ~Durable
  BY <1>1, Zenon
<1>2. CASE ~blocked /\ Durable
  <2>1. ledger' = Image(table, changed, w)
    BY <1>2, Zenon
  <2>2. ledger' \in [disk : [Keys -> Entry], log : BOOLEAN, torn : BOOLEAN]
    <3>1. CASE w \in {"append", "unsynced"}
      BY <2>1, <3>1, Zenon DEF Image, RemovesUnknown
    <3>2. CASE w \in {"checkpoint", "unpublished"}
      BY <2>1, <3>2, Zenon DEF Image
    <3>3. CASE w \in {"partial", "lost"}
      BY <2>1, <3>3, Zenon DEF Image
    <3> QED
      BY <3>1, <3>2, <3>3, Zenon DEF Writes, WriteFaults
  <2>3. blocked' \in BOOLEAN /\ dirty' \in SUBSET Keys
    BY <1>2
  <2>4. failures' \in 0..MaxFailures
    BY <1>2, IdempotencyAssumption
  <2> QED
    BY <2>2, <2>3, <2>4, Zenon
<1> QED
  BY <1>1, <1>2, Zenon

\* The file now holds what table says of the changed keys, and what it held or what
\* table says of the others.
Updated(table, changed) ==
    \A k \in Keys : \/ ledger'.disk[k] = table[k]
                    \/ k \notin changed /\ ledger'.disk[k] = ledger.disk[k]

\* A write that removes only keys the file knows leaves it readable and up to date,
\* or fails, blocks the store and, unless it left a torn record, leaves the file
\* up to date or as it was.
LEMMA PersistDisk ==
    ASSUME TypeOK, NEW table \in [Keys -> Entry], NEW changed \in SUBSET Keys,
           NEW w \in Writes \cup WriteFaults, persist_locked(table, changed, w),
           Durable, ~blocked, ~ledger.torn,
           \A k \in changed : table[k] = NoEntry => ledger.disk[k] # NoEntry
    PROVE  /\ w \in Writes => ~ledger'.torn /\ ~blocked' /\ dirty' = {} /\ Updated(table, changed)
           /\ w \notin Writes =>
                 /\ blocked' /\ dirty' = changed
                 /\ ledger'.torn \/ ledger'.disk = ledger.disk \/ Updated(table, changed)
           /\ ledger'.torn => failures' > failures
<1> USE DEF TypeOK, persist_locked
<1>1. ledger' = Image(table, changed, w)
  BY Zenon
<1>2. ~RemovesUnknown(table, changed)
  BY Zenon DEF RemovesUnknown
<1>3. w \notin Writes => w \in WriteFaults
  BY Zenon
<1>4. w \in Writes => w \notin WriteFaults
  BY Zenon DEF Writes, WriteFaults
<1>5. w \in Writes => ~blocked' /\ dirty' = {}
  BY <1>4, Zenon
<1>6. w \notin Writes => blocked' /\ dirty' = changed /\ failures' > failures
  <2>1. failures \in Nat
    BY IdempotencyAssumption
  <2>2. w \notin Writes => blocked' /\ dirty' = changed /\ failures' = failures + 1
    BY <1>3, Zenon
  <2> QED
    BY <2>1, <2>2
<1>7. CASE w \in {"append", "unsynced"}
  <2>1. /\ ~ledger'.torn
        /\ ledger'.disk = [k \in Keys |-> IF k \in changed THEN table[k] ELSE ledger.disk[k]]
    BY <1>1, <1>2, <1>7, Zenon DEF Image
  <2>2. Updated(table, changed)
    BY <2>1, Zenon DEF Updated
  <2> QED
    BY <1>5, <1>6, <2>1, <2>2, Zenon
<1>8. CASE w \in {"checkpoint", "unpublished"}
  <2>1. ~ledger'.torn /\ ledger'.disk = table
    BY <1>1, <1>8, Zenon DEF Image
  <2>2. Updated(table, changed)
    BY <2>1, Zenon DEF Updated
  <2> QED
    BY <1>5, <1>6, <2>1, <2>2, Zenon
<1>9. CASE w = "partial"
  <2>1. ledger'.torn
    BY <1>1, <1>9, Zenon DEF Image
  <2> QED
    BY <1>6, <1>9, <2>1, Zenon DEF Writes
<1>10. CASE w = "lost"
  <2>1. ledger' = ledger
    BY <1>1, <1>10, Zenon DEF Image
  <2> QED
    BY <1>6, <1>10, <2>1, Zenon DEF Writes
<1> QED
  BY <1>7, <1>8, <1>9, <1>10, Zenon DEF Writes, WriteFaults

\* What a request finds expired is retained, and its operation completed.
LEMMA GoneFacts ==
    ASSUME IdempotencyInv, NEW c \in Requests, NEW q \in Expired(entries, now[c])
    PROVE  q \in Keys /\ entries[q].state = "Retained" /\ effect[q].what = "completed"
<1>1. entries \in [Keys -> Entry] /\ now[c] \in 0..MaxClock
  BY Zenon DEF IdempotencyInv, TypeOK
<1>2. q \in Keys /\ entries[q].state = "Retained" /\ entries[q].expires # Never
  BY <1>1, ExpiredIsRetained, Zenon
<1>3. Truthful(entries[q], q)
  BY <1>2, Zenon DEF IdempotencyInv, MemoryInv, KeyInv
<1> QED
  BY <1>2, <1>3 DEF Truthful

\* Room is made by dropping evictable entries only.
LEMMA RoomsAreEvictable ==
    ASSUME NEW table, NEW key, NEW evicted \in Rooms(table, key)
    PROVE  \A q \in evicted : q \in Keys /\ entry_is_evictable(table[q])
<1>1. ASSUME NEW ks, ks \subseteq Keys, NEW capacity, NEW gone \in Evictions(ks, table, capacity)
      PROVE  gone \subseteq {k \in ks : entry_is_evictable(table[k])}
  BY <1>1, Zenon DEF Evictions
<1> DEFINE mine == OfPrincipal(Present(table), PrincipalOf[key])
<1>2. PICK gone \in Evictions(mine, table, PerPrincipal) :
        evicted \in {gone \cup more : more \in Evictions(Present(table) \ gone, table, Global)}
  BY Zenon DEF Rooms
<1>3. PICK more \in Evictions(Present(table) \ gone, table, Global) : evicted = gone \cup more
  BY <1>2, Zenon
<1>4. mine \subseteq Keys /\ Present(table) \ gone \subseteq Keys
  BY Zenon DEF OfPrincipal, Present
<1> HIDE DEF mine
<1>5. gone \subseteq {k \in mine : entry_is_evictable(table[k])}
  BY <1>1, <1>4, Zenon
<1>6. more \subseteq {k \in Present(table) \ gone : entry_is_evictable(table[k])}
  BY <1>1, <1>4, Zenon
<1> QED
  BY <1>3, <1>4, <1>5, <1>6, Zenon

\* The entries without the expired and the evicted ones: what is missing was
\* retained, and its operation completed.
LEMMA RoomFacts ==
    ASSUME IdempotencyInv, NEW c \in Requests,
           NEW evicted \in Rooms(Without(entries, Expired(entries, now[c])), KeyOf[c])
    PROVE  LET gone == Expired(entries, now[c])
               room == Without(Without(entries, gone), evicted)
           IN  /\ room \in [Keys -> Entry] /\ gone \subseteq Keys /\ evicted \subseteq Keys
               /\ \A q \in Keys :
                    IF q \in gone \cup evicted
                    THEN /\ room[q] = NoEntry /\ entries[q].state = "Retained"
                         /\ effect[q].what = "completed"
                    ELSE room[q] = entries[q]
<1> DEFINE gone == Expired(entries, now[c])
           fresh == Without(entries, gone)
           room == Without(fresh, evicted)
<1>1. entries \in [Keys -> Entry] /\ gone \subseteq Keys
  BY Zenon DEF IdempotencyInv, TypeOK, Expired
<1>2. \A q \in evicted : q \in Keys /\ entry_is_evictable(fresh[q])
  BY RoomsAreEvictable, Zenon
<1>3. \A q \in gone : entries[q].state = "Retained" /\ effect[q].what = "completed"
  BY GoneFacts, Zenon
<1>4. /\ fresh \in [Keys -> Entry]
      /\ \A q \in Keys : fresh[q] = IF q \in gone THEN NoEntry ELSE entries[q]
  <2> HIDE DEF gone
  <2> QED
    BY <1>1, WithoutTable
<1> HIDE DEF gone, fresh
<1>5. /\ room \in [Keys -> Entry]
      /\ \A q \in Keys : room[q] = IF q \in evicted THEN NoEntry ELSE fresh[q]
  BY <1>4, WithoutTable
<1>6. ASSUME NEW q \in evicted, q \notin gone
      PROVE  entries[q].state = "Retained" /\ effect[q].what = "completed"
  <2>1. q \in Keys /\ entry_is_evictable(entries[q])
    BY <1>2, <1>4, <1>6, Zenon
  <2>2. Truthful(entries[q], q)
    BY <2>1, Zenon DEF IdempotencyInv, MemoryInv, KeyInv
  <2>3. entries[q].state = "Retained" => entries[q].outcome \in OutcomeKinds
    BY <1>1, <2>1, EntryCases, IdempotencyAssumption, Zenon
  <2> QED
    BY <2>1, <2>2, <2>3 DEF entry_is_evictable, safety_relevant, Truthful, OutcomeKinds
<1> HIDE DEF room
<1>7. ASSUME NEW q \in Keys
      PROVE  IF q \in gone \cup evicted
             THEN room[q] = NoEntry /\ entries[q].state = "Retained" /\ effect[q].what = "completed"
             ELSE room[q] = entries[q]
  BY <1>3, <1>4, <1>5, <1>6, Zenon
<1> QED
  BY <1>1, <1>2, <1>5, <1>7, Zenon DEF gone, fresh, room

-----------------------------------------------------------------------------
(* The initial state and the steps that leave the store alone.               *)

\* The invariant holds when the first process opens an empty store.
LEMMA InitInv == Init => IdempotencyInv
<1> SUFFICES ASSUME Init
             PROVE  IdempotencyInv
  BY Zenon
<1>1. Empty \in [Keys -> Entry] /\ \A k \in Keys : Empty[k] = NoEntry
  BY Constructors, Zenon DEF Empty
<1>2. TypeOK
  <2>1. ledger \in [disk : [Keys -> Entry], log : BOOLEAN, torn : BOOLEAN]
    BY <1>1, Zenon DEF Init
  <2>2. effect \in [Keys -> [by : Requests \cup {NoRequest}, what : {"none", "possible"} \cup Outcomes]]
    BY Zenon DEF Init
  <2>3. 0 \in 0..MaxClock /\ 0 \in 0..MaxFailures /\ 0 \in 0..MaxCrashes
    BY IdempotencyAssumption
  <2> QED
    BY <1>1, <2>1, <2>2, <2>3, Zenon DEF Init, TypeOK, Steps
<1>3. \A k \in Keys : entries[k] = NoEntry /\ ledger.disk[k] = NoEntry
  BY <1>1, Zenon DEF Init
<1>4. NoEntry.state = "None"
  BY Constructors, Zenon
<1>5. MemoryInv
  BY <1>3, <1>4, Zenon DEF Init, MemoryInv, DownInv, KeyInv, RequestInv, Truthful, Holding
<1>6. \A k \in Keys : Clear(k)
  BY Zenon DEF Init, Clear
<1>7. LedgerInv
  BY <1>3, <1>4, <1>6, Zenon DEF Init, LedgerInv, DiskInv, LiveInv, Guards, Truthful
<1> QED
  BY <1>2, <1>5, <1>7, Zenon DEF IdempotencyInv

\* A request that holds nothing may move on to a step at which it neither holds nor
\* waits.
LEMMA QuietStep ==
    ASSUME IdempotencyInv, NEW c \in Requests, NEW s \in Steps \ (Holding \cup {"waiting"}),
           up, pc[c] \notin Holding, pc' = [pc EXCEPT ![c] = s],
           UNCHANGED <<store, effect, lapsed>>,
           \A d \in Requests \ {c} :
                signal'[d] = signal[d] /\ result'[d] = result[d] /\ answer'[d] = answer[d],
           s # "idle" => answer'[c] = "none"
    PROVE  MemoryInv' /\ LedgerInv'
<1>1. pc \in [Requests -> Steps] /\ entries \in [Keys -> Entry]
  BY Zenon DEF IdempotencyInv, TypeOK
<1>2. up' = up /\ entries' = entries /\ dirty' = dirty /\ blocked' = blocked /\ ledger' = ledger
      /\ effect' = effect /\ lapsed' = lapsed
  BY Zenon DEF store
<1>3. pc'[c] = s /\ \A d \in Requests \ {c} : pc'[d] = pc[d]
  BY <1>1, Zenon
<1>4. \A d \in Requests : pc'[d] \in Holding <=> pc[d] \in Holding
  BY <1>3, Zenon
<1>5. ASSUME NEW k \in Keys
      PROVE  KeyInv(k)'
  <2>1. KeyInv(k)
    BY Zenon DEF IdempotencyInv, MemoryInv
  <2>2. entries[k].state = "Reserved" => entries[k].by \in Requests
    BY <1>1, EntryCases, Zenon
  <2> QED
    BY <1>2, <1>4, <2>1, <2>2, Zenon DEF KeyInv, Truthful
<1>6. ASSUME NEW d \in Requests
      PROVE  RequestInv(d)'
  <2>1. RequestInv(d)
    BY Zenon DEF IdempotencyInv, MemoryInv
  <2>2. CASE d = c
    BY <1>3, <2>2, Zenon DEF RequestInv, Holding
  <2>3. CASE d # c
    BY <1>2, <1>3, <2>1, <2>3, Zenon DEF RequestInv, Holds
  <2> QED
    BY <2>2, <2>3, Zenon
<1>7. MemoryInv'
  BY <1>2, <1>5, <1>6, Zenon DEF MemoryInv, DownInv
<1>8. LedgerInv
  BY Zenon DEF IdempotencyInv
<1>9. \A k \in Keys : DiskInv(k)' /\ LiveInv(k)'
  BY <1>2, <1>8 DEF LedgerInv, DiskInv, LiveInv, Truthful, Guards, Clear
<1>10. \A d \in Requests : pc'[d] = "permitted" => pc[d] = "permitted"
  BY <1>3, <1>4, Zenon DEF Holding
<1> QED
  BY <1>2, <1>7, <1>8, <1>9, <1>10, Zenon DEF LedgerInv, Clear

\* begin keeps the invariant.
LEMMA BeginInv ==
    ASSUME IdempotencyInv, NEW c \in Requests, begin(c)
    PROVE  IdempotencyInv'
<1> DEFINE s == IF blocked THEN "idle" ELSE "lookup"
<1>1. TypeOK'
  BY Zenon DEF IdempotencyInv, TypeOK, begin, store, Steps
<1>2. s \in Steps \ (Holding \cup {"waiting"}) /\ pc' = [pc EXCEPT ![c] = s]
      /\ pc[c] \notin Holding
  BY Zenon DEF begin, Steps, Holding
<1>3. s # "idle" => answer'[c] = "none"
  BY Zenon DEF IdempotencyInv, TypeOK, begin
<1>4. \A d \in Requests \ {c} :
        signal'[d] = signal[d] /\ result'[d] = result[d] /\ answer'[d] = answer[d]
  BY Zenon DEF IdempotencyInv, TypeOK, begin
<1>5. up /\ UNCHANGED <<store, effect, lapsed>>
  BY Zenon DEF begin
<1> HIDE DEF s
<1> QED
  BY <1>1, <1>2, <1>3, <1>4, <1>5, QuietStep, Zenon DEF IdempotencyInv

\* wake keeps the invariant.
LEMMA WakeInv ==
    ASSUME IdempotencyInv, NEW c \in Requests, wake(c)
    PROVE  IdempotencyInv'
<1> DEFINE s == IF signal[c] = "retry" THEN "lookup" ELSE "idle"
<1>1. up /\ pc[c] = "waiting" /\ UNCHANGED <<store, clock, result, failures, crashes, effect, lapsed>>
  BY Zenon DEF wake
<1>2. TypeOK
  BY Zenon DEF IdempotencyInv
<1>3. pc' = [pc EXCEPT ![c] = s]
  BY Zenon DEF wake, Goes, Ends
<1>4. now' \in [Requests -> 0..MaxClock]
  BY <1>2, Zenon DEF wake, TypeOK
<1>5. \/ signal[c] = "retry" /\ answer' = answer
      \/ signal[c] # "retry" /\ \E told \in {"refused"} \cup Outcomes : answer' = [answer EXCEPT ![c] = told]
  BY <1>2, Zenon DEF wake, TypeOK, Goes, Ends
<1>6. signal' = [signal EXCEPT ![c] = "pending"]
  BY Zenon DEF wake
<1>7. TypeOK'
  BY <1>1, <1>2, <1>3, <1>4, <1>5, <1>6 DEF TypeOK, store, Steps
<1>8. answer[c] = "none"
  BY <1>1, Zenon DEF IdempotencyInv, MemoryInv, RequestInv
<1>9. s # "idle" => answer'[c] = "none"
  BY <1>5, <1>8, Zenon
<1>10. \A d \in Requests \ {c} :
        signal'[d] = signal[d] /\ result'[d] = result[d] /\ answer'[d] = answer[d]
  BY <1>1, <1>2, <1>5, <1>6, Zenon DEF TypeOK
<1>11. s \in Steps \ (Holding \cup {"waiting"}) /\ pc[c] \notin Holding
  BY <1>1, Zenon DEF Steps, Holding
<1> HIDE DEF s
<1> QED
  BY <1>1, <1>3, <1>7, <1>9, <1>10, <1>11, QuietStep, Zenon DEF IdempotencyInv

\* A request that gives up waiting, or is refused a key, keeps the invariant.
LEMMA GiveUpInv ==
    ASSUME IdempotencyInv, NEW c \in Requests, deadline(c) \/ acquire_refused(c)
    PROVE  IdempotencyInv'
<1>1. /\ up /\ pc[c] \in {"waiting", "acquire"} /\ UNCHANGED <<store, effect, lapsed, result>>
      /\ pc' = [pc EXCEPT ![c] = "idle"] /\ answer' = [answer EXCEPT ![c] = "refused"]
      /\ signal' = [signal EXCEPT ![c] = "pending"] \/ signal' = signal
  BY Zenon DEF deadline, acquire_refused, Ends
<1>2. TypeOK'
  BY <1>1, Zenon DEF IdempotencyInv, TypeOK, deadline, acquire_refused, store, Steps
<1>3. \A d \in Requests \ {c} :
        signal'[d] = signal[d] /\ result'[d] = result[d] /\ answer'[d] = answer[d]
  BY <1>1, Zenon DEF IdempotencyInv, TypeOK
<1>4. "idle" \in Steps \ (Holding \cup {"waiting"}) /\ pc[c] \notin Holding
  BY <1>1, Zenon DEF Steps, Holding
<1>5. MemoryInv' /\ LedgerInv'
  BY <1>1, <1>3, <1>4, QuietStep, Zenon
<1> QED
  BY <1>2, <1>5, Zenon DEF IdempotencyInv

\* tick keeps the invariant, and so does a step that changes nothing.
LEMMA TickInv ==
    ASSUME IdempotencyInv, tick \/ UNCHANGED vars
    PROVE  IdempotencyInv'
<1>1. UNCHANGED <<store, pc, now, signal, result, failures, crashes, effect, lapsed, answer>>
  BY Zenon DEF tick, vars
<1>2. clock' \in 0..MaxClock
  BY IdempotencyAssumption DEF tick, vars, IdempotencyInv, TypeOK
<1>3. TypeOK'
  BY <1>1, <1>2, Zenon DEF IdempotencyInv, TypeOK, store
<1>4. MemoryInv'
  BY <1>1, Zenon DEF IdempotencyInv, MemoryInv, DownInv, KeyInv, RequestInv, Truthful, Holds, store
<1>5. LedgerInv'
  BY <1>1, Zenon DEF IdempotencyInv, LedgerInv, DiskInv, LiveInv, Guards, Clear, Truthful, store
<1> QED
  BY <1>3, <1>4, <1>5, Zenon DEF IdempotencyInv

-----------------------------------------------------------------------------
(* Looking a key up.                                                         *)

\* Dropping what a request finds expired, and marking it with some present keys as
\* changed, keeps what the invariant says of keys and of the other requests.
LEMMA DropExpired ==
    ASSUME IdempotencyInv, NEW c \in Requests, up, pc[c] \notin Holding, pc'[c] \notin Holding,
           NEW present \in SUBSET Present(entries),
           entries' = Without(entries, Expired(entries, now[c])),
           lapsed' = Lapses(Expired(entries, now[c]), "expired"),
           dirty' = dirty \cup Expired(entries, now[c]) \cup present,
           UNCHANGED <<up, blocked, ledger, signal, result, effect>>,
           \A d \in Requests \ {c} : pc'[d] = pc[d] /\ answer'[d] = answer[d]
    PROVE  /\ DownInv' /\ LedgerInv'
           /\ \A k \in Keys : KeyInv(k)'
           /\ \A d \in Requests \ {c} : RequestInv(d)'
           /\ entries' \in [Keys -> Entry] /\ dirty' \subseteq Keys
           /\ lapsed' \in [Keys -> {"no", "expired", "evicted"}]
<1> DEFINE gone == Expired(entries, now[c])
<1>1. /\ entries \in [Keys -> Entry] /\ dirty \subseteq Keys /\ gone \subseteq Keys
      /\ lapsed \in [Keys -> {"no", "expired", "evicted"}]
  BY Zenon DEF IdempotencyInv, TypeOK, Expired
<1>2. \A q \in gone : entries[q].state = "Retained" /\ effect[q].what = "completed"
  BY GoneFacts, Zenon
<1>3. /\ entries' \in [Keys -> Entry]
      /\ \A k \in Keys : entries'[k] = IF k \in gone THEN NoEntry ELSE entries[k]
  <2> HIDE DEF gone
  <2> QED
    BY <1>1, WithoutTable DEF gone
<1> HIDE DEF gone
<1>4. /\ lapsed' \in [Keys -> {"no", "expired", "evicted"}]
      /\ \A k \in Keys : lapsed'[k] = IF k \in gone THEN "expired" ELSE lapsed[k]
  BY <1>1, Zenon DEF Lapses, gone
<1>5. dirty' \subseteq Keys /\ \A k \in present : k \in Keys /\ entries[k] # NoEntry
  BY <1>1, Zenon DEF Present, gone
<1>6. NoEntry.state = "None"
  BY Constructors, Zenon
<1>7. \A d \in Requests : pc'[d] \in Holding <=> pc[d] \in Holding
  BY Zenon
<1>8. ASSUME NEW k \in Keys
      PROVE  KeyInv(k)'
  <2>1. KeyInv(k)
    BY Zenon DEF IdempotencyInv, MemoryInv
  <2>2. entries[k].state = "Reserved" => entries[k].by \in Requests
    BY <1>1, EntryCases, Zenon
  <2> QED
    BY <1>3, <1>6, <1>7, <2>1, <2>2, Zenon DEF KeyInv, Truthful
<1>9. ASSUME NEW d \in Requests \ {c}
      PROVE  RequestInv(d)'
  <2>1. RequestInv(d) /\ KeyOf[d] \in Keys
    BY IdempotencyAssumption, Zenon DEF IdempotencyInv, MemoryInv
  <2>2. entries[KeyOf[d]].state = "Reserved" => entries'[KeyOf[d]] = entries[KeyOf[d]]
    BY <1>2, <1>3, <2>1, Zenon
  <2>3. ReservedFor(d).state = "Reserved"
    BY Constructors, Zenon
  <2> QED
    BY <2>1, <2>2, <2>3, Zenon DEF RequestInv, Holds
<1>10. LedgerInv /\ TypeOK
  BY Zenon DEF IdempotencyInv
<1>11. \A k \in Keys : Clear(k) => Clear(k)'
  BY <1>2, <1>4, Zenon DEF Clear
<1>12. \A k \in gone : Clear(k)'
  BY <1>1, <1>2, <1>4, Zenon DEF Clear
<1>13. ASSUME NEW k \in Keys
       PROVE  DiskInv(k)'
  <2>1. DiskInv(k)
    BY <1>10, Zenon DEF LedgerInv
  <2> QED
    BY <1>3, <1>6, <1>11, <2>1, Zenon DEF DiskInv, Truthful, Guards
<1>14. ASSUME NEW k \in Keys
       PROVE  LiveInv(k)'
  <2>1. LiveInv(k)
    BY <1>10, Zenon DEF LedgerInv
  <2>2. dirty' = dirty \cup gone \cup present
    BY Zenon DEF gone
  <2>3. CASE k \in gone
    BY <1>2, <1>3, <1>6, <1>12, <2>1, <2>2, <2>3, Zenon DEF LiveInv, Guards
  <2>4. CASE k \notin gone
    BY <1>3, <1>5, <1>11, <2>1, <2>2, <2>4, Zenon DEF LiveInv, Guards
  <2> QED
    BY <2>3, <2>4, Zenon
<1>15. ASSUME NEW d \in Requests, pc'[d] = "permitted"
       PROVE  pc[d] = "permitted" /\ KeyOf[d] \in Keys
  BY <1>7, <1>15, IdempotencyAssumption, Zenon DEF Holding
<1>16. LedgerInv'
  BY <1>10, <1>11, <1>13, <1>14, <1>15, Zenon DEF LedgerInv
<1> QED
  BY <1>3, <1>4, <1>5, <1>8, <1>9, <1>16, Zenon DEF DownInv

\* lookup keeps the invariant.
LEMMA LookupInv ==
    ASSUME IdempotencyInv, NEW c \in Requests, lookup(c)
    PROVE  IdempotencyInv'
<1> DEFINE k == KeyOf[c]
           gone == Expired(entries, now[c])
           e == Without(entries, gone)[k]
           present == IF SameBody(c, e) THEN {k} ELSE {}
<1>1. TypeOK /\ k \in Keys
  BY IdempotencyAssumption, Zenon DEF IdempotencyInv
<1>2. e \in Entry /\ (e # NoEntry => e = entries[k])
  <2>1. entries \in [Keys -> Entry]
    BY <1>1, Zenon DEF TypeOK
  <2> HIDE DEF gone
  <2> QED
    BY <1>1, <2>1, WithoutTable
<1>3. present \in SUBSET Present(entries)
  BY <1>1, <1>2, Zenon DEF SameBody, Present
<1>4. /\ up /\ pc[c] = "lookup"
      /\ entries' = Without(entries, Expired(entries, now[c]))
      /\ lapsed' = Lapses(Expired(entries, now[c]), "expired")
      /\ dirty' = dirty \cup Expired(entries, now[c]) \cup present
      /\ UNCHANGED <<up, blocked, ledger, signal, result, effect>>
      /\ UNCHANGED <<clock, now, failures, crashes>>
  BY Zenon DEF lookup
<1>5. \/ e = NoEntry /\ Goes(c, "acquire")
      \/ SameBody(c, e) /\ e.state = "Reserved" /\ Goes(c, "waiting")
      \/ SameBody(c, e) /\ e.state = "Retained" /\ Ends(c, e.outcome)
      \/ Ends(c, "refused")
  BY Zenon DEF lookup
<1> HIDE DEF e, gone, present
<1>6. e.state = "Retained" => e.outcome \in Outcomes
  BY <1>2, EntryCases, Zenon
<1>7. pc' \in [Requests -> Steps] /\ answer' \in [Requests -> {"none", "refused"} \cup Outcomes]
  BY <1>1, <1>5, <1>6, Zenon DEF TypeOK, Steps, Goes, Ends
<1>8. \A d \in Requests \ {c} : pc'[d] = pc[d] /\ answer'[d] = answer[d]
  BY <1>1, <1>5, Zenon DEF TypeOK, Goes, Ends
<1>9. pc[c] \notin Holding /\ pc'[c] \in {"acquire", "waiting", "idle"}
  BY <1>1, <1>4, <1>5 DEF TypeOK, Goes, Ends, Holding
<1>10. pc'[c] \notin Holding
  BY <1>9, Zenon DEF Holding
<1>11. /\ DownInv' /\ LedgerInv'
       /\ \A q \in Keys : KeyInv(q)'
       /\ \A d \in Requests \ {c} : RequestInv(d)'
       /\ entries' \in [Keys -> Entry] /\ dirty' \subseteq Keys
       /\ lapsed' \in [Keys -> {"no", "expired", "evicted"}]
  BY <1>3, <1>4, <1>8, <1>9, <1>10, DropExpired, Zenon
<1>12. TypeOK'
  BY <1>1, <1>4, <1>7, <1>11, Zenon DEF TypeOK
<1>13. RequestInv(c)'
  <2>1. answer[c] = "none"
    BY <1>4, Zenon DEF IdempotencyInv, MemoryInv, RequestInv
  <2>2. CASE e = NoEntry /\ Goes(c, "acquire")
    BY <1>1, <2>1, <2>2, Zenon DEF RequestInv, Goes, TypeOK, Holding
  <2>3. CASE SameBody(c, e) /\ e.state = "Reserved" /\ Goes(c, "waiting")
    <3>1. entries'[k] = e
      BY <1>4, Zenon DEF e, gone
    <3>2. pc'[c] = "waiting" /\ answer'[c] = "none"
      BY <1>1, <2>1, <2>3, Zenon DEF Goes, TypeOK
    <3> QED
      BY <2>3, <3>1, <3>2, Zenon DEF RequestInv, SameBody, Holding
  <2>4. CASE \E told : Ends(c, told)
    <3>1. pc'[c] = "idle"
      BY <1>1, <2>4 DEF Ends, TypeOK
    <3> QED
      BY <3>1, Zenon DEF RequestInv, Holding
  <2> QED
    BY <1>5, <2>2, <2>3, <2>4, Zenon
<1> QED
  BY <1>11, <1>12, <1>13, Zenon DEF IdempotencyInv, MemoryInv

\* acquire_taken keeps the invariant.
LEMMA AcquireTakenInv ==
    ASSUME IdempotencyInv, NEW c \in Requests, acquire_taken(c)
    PROVE  IdempotencyInv'
<1>1. TypeOK
  BY Zenon DEF IdempotencyInv
<1>2. /\ up /\ pc[c] = "acquire"
      /\ entries' = Without(entries, Expired(entries, now[c]))
      /\ lapsed' = Lapses(Expired(entries, now[c]), "expired")
      /\ dirty' = dirty \cup Expired(entries, now[c]) \cup {}
      /\ UNCHANGED <<up, blocked, ledger, signal, result, effect>>
      /\ UNCHANGED <<clock, now, failures, crashes, answer>>
      /\ pc' = [pc EXCEPT ![c] = "lookup"]
  BY Zenon DEF acquire_taken, Goes
<1>3. pc' \in [Requests -> Steps] /\ pc'[c] = "lookup"
      /\ \A d \in Requests \ {c} : pc'[d] = pc[d] /\ answer'[d] = answer[d]
  BY <1>1, <1>2, Zenon DEF TypeOK, Steps
<1>4. pc[c] \notin Holding /\ pc'[c] \notin Holding
  BY <1>2, <1>3, Zenon DEF Holding
<1>5. {} \in SUBSET Present(entries)
  BY Zenon
<1>6. /\ DownInv' /\ LedgerInv'
      /\ \A q \in Keys : KeyInv(q)'
      /\ \A d \in Requests \ {c} : RequestInv(d)'
      /\ entries' \in [Keys -> Entry] /\ dirty' \subseteq Keys
      /\ lapsed' \in [Keys -> {"no", "expired", "evicted"}]
  BY <1>2, <1>3, <1>4, <1>5, DropExpired, Zenon
<1>7. TypeOK'
  BY <1>1, <1>2, <1>3, <1>6, Zenon DEF TypeOK
<1>8. answer[c] = "none"
  BY <1>2, Zenon DEF IdempotencyInv, MemoryInv, RequestInv
<1>9. RequestInv(c)'
  BY <1>2, <1>3, <1>8, Zenon DEF RequestInv, Holding
<1> QED
  BY <1>6, <1>7, <1>9, Zenon DEF IdempotencyInv, MemoryInv

-----------------------------------------------------------------------------
(* Taking a key.                                                             *)

\* A write of a table that the file agrees with outside the changed keys, and that
\* becomes what memory holds if it succeeds, keeps the ledger's part of the
\* invariant, and makes the ledger unreadable only by failing.
LEMMA WriteLedger ==
    ASSUME TypeOK, NEW table \in [Keys -> Entry], NEW changed \in SUBSET Keys,
           NEW w \in Writes \cup WriteFaults, persist_locked(table, changed, w),
           Durable, ~blocked, ~ledger.torn, effect' = effect,
           \A q \in changed : table[q] = NoEntry => ledger.disk[q] # NoEntry,
           \A q \in Keys \ changed :
                /\ ledger.disk[q] = NoEntry <=> table[q] = NoEntry
                /\ table[q].state \in {"Retained", "Reserved"} => ledger.disk[q] = table[q],
           \A q \in Keys :
                /\ Truthful(table[q], q) /\ (table[q] = NoEntry => Clear(q)')
                /\ Truthful(ledger.disk[q], q) /\ (ledger.disk[q] = NoEntry => Clear(q)'),
           w \in Writes => entries' = table,
           w \notin Writes => \A q \in Keys : entries'[q].state = "Reserved" =>
                                entries'[q] = table[q] /\ entries'[q] = ledger.disk[q]
    PROVE  /\ up' /\ ~blocked' => ~ledger'.torn
           /\ \A q \in Keys : DiskInv(q)' /\ LiveInv(q)'
           /\ ledger'.torn => failures' > failures
<1>1. /\ w \in Writes => ~ledger'.torn /\ ~blocked' /\ dirty' = {} /\ Updated(table, changed)
      /\ w \notin Writes =>
            /\ blocked'
            /\ ledger'.torn \/ ledger'.disk = ledger.disk \/ Updated(table, changed)
      /\ ledger'.torn => failures' > failures
  BY PersistDisk, Zenon
<1>2. ASSUME NEW q \in Keys, Updated(table, changed)
      PROVE  /\ Truthful(ledger'.disk[q], q)
             /\ ledger'.disk[q] = NoEntry => Clear(q)'
             /\ ledger'.disk[q] = NoEntry <=> table[q] = NoEntry
             /\ table[q].state \in {"Retained", "Reserved"} => ledger'.disk[q] = table[q]
  BY <1>2, Zenon DEF Updated
<1>3. ASSUME NEW q \in Keys
      PROVE  DiskInv(q)' /\ LiveInv(q)'
  <2>1. CASE w \in Writes
    BY <1>1, <1>2, <2>1, Zenon DEF DiskInv, LiveInv, Truthful, Guards
  <2>2. CASE w \notin Writes /\ Updated(table, changed)
    <3>1. LiveInv(q)'
      BY <1>1, <2>2, Zenon DEF LiveInv
    <3>2. DiskInv(q)'
      BY <1>2, <2>2, Zenon DEF DiskInv, Truthful, Guards
    <3> QED
      BY <3>1, <3>2, Zenon
  <2>3. CASE w \notin Writes /\ (ledger'.torn \/ ledger'.disk = ledger.disk)
    <3>1. LiveInv(q)'
      BY <1>1, <2>3, Zenon DEF LiveInv
    <3>2. DiskInv(q)'
      BY <2>3, Zenon DEF DiskInv, Truthful, Guards
    <3> QED
      BY <3>1, <3>2, Zenon
  <2> QED
    BY <1>1, <2>1, <2>2, <2>3, Zenon
<1> QED
  BY <1>1, <1>3, Zenon

\* acquire keeps the invariant, and only a failed write makes the ledger unreadable.
LEMMA AcquireInv ==
    ASSUME IdempotencyInv, NEW c \in Requests, NEW w \in Writes \cup WriteFaults, acquire(c, w)
    PROVE  IdempotencyInv' /\ (~ledger.torn /\ ledger'.torn => failures' > failures)
<1> DEFINE k == KeyOf[c]
           gone == Expired(entries, now[c])
           fresh == Without(entries, gone)
<1>1. /\ up /\ pc[c] = "acquire" /\ ~blocked /\ fresh[k] = NoEntry
      /\ UNCHANGED <<up, clock, now, signal, result, crashes, effect>>
  BY Zenon DEF acquire
<1>2. PICK evicted \in Rooms(fresh, k) :
        LET room == Without(fresh, evicted)
            removed == dirty \cup gone \cup evicted
        IN  /\ lapsed' = [q \in Keys |-> IF q \in evicted THEN "evicted"
                                         ELSE IF q \in gone THEN "expired" ELSE lapsed[q]]
            /\ IF HasRoom(room, k)
               THEN /\ persist_locked([room EXCEPT ![k] = ReservedFor(c)], removed \cup {k}, w)
                    /\ IF Written(w)
                       THEN entries' = [room EXCEPT ![k] = ReservedFor(c)] /\ Goes(c, "permitted")
                       ELSE entries' = [room EXCEPT ![k] = UnresolvedFor(c)] /\ Ends(c, "refused")
               ELSE /\ entries' = room
                    /\ dirty' = removed
                    /\ Ends(c, "refused")
                    /\ UNCHANGED <<blocked, ledger, failures>>
  BY Zenon DEF acquire
<1> DEFINE room == Without(fresh, evicted)
           removed == dirty \cup gone \cup evicted
           table == [room EXCEPT ![k] = ReservedFor(c)]
<1>3. TypeOK /\ MemoryInv /\ LedgerInv /\ k \in Keys
  BY IdempotencyAssumption, Zenon DEF IdempotencyInv
<1>4. /\ room \in [Keys -> Entry] /\ gone \subseteq Keys /\ evicted \subseteq Keys
      /\ \A q \in Keys : IF q \in gone \cup evicted
                         THEN /\ room[q] = NoEntry /\ entries[q].state = "Retained"
                              /\ effect[q].what = "completed"
                         ELSE room[q] = entries[q]
  BY RoomFacts
<1>5. (entries[k] = NoEntry \/ entries[k].state = "Retained") /\ room[k] = NoEntry
  <2>1. entries \in [Keys -> Entry]
    BY <1>3, Zenon DEF TypeOK
  <2>2. fresh[k] = IF k \in gone THEN NoEntry ELSE entries[k]
    <3> HIDE DEF gone
    <3> QED
      BY <1>3, <2>1, WithoutTable
  <2> HIDE DEF room, fresh, gone
  <2> QED
    BY <1>1, <1>3, <1>4, <2>2
<1>6. \A q \in Keys : lapsed'[q] = lapsed[q] \/ lapsed'[q] # "no"
  BY <1>2, Zenon
<1>7. \A q \in gone \cup evicted : lapsed'[q] # "no" /\ effect[q].what = "completed"
  BY <1>2, <1>4, Zenon
<1>8. lapsed' \in [Keys -> {"no", "expired", "evicted"}]
  BY <1>2, <1>3, Zenon DEF TypeOK
<1>9. \/ /\ HasRoom(room, k) /\ persist_locked(table, removed \cup {k}, w)
         /\ Written(w) /\ entries' = table /\ Goes(c, "permitted")
      \/ /\ HasRoom(room, k) /\ persist_locked(table, removed \cup {k}, w)
         /\ ~Written(w) /\ entries' = [room EXCEPT ![k] = UnresolvedFor(c)] /\ Ends(c, "refused")
      \/ /\ ~HasRoom(room, k) /\ entries' = room /\ dirty' = removed /\ Ends(c, "refused")
         /\ UNCHANGED <<blocked, ledger, failures>>
  BY <1>2, Zenon
<1> HIDE DEF k, gone, fresh, room, removed
<1>10. /\ entries \in [Keys -> Entry] /\ dirty \subseteq Keys /\ pc \in [Requests -> Steps]
       /\ removed \cup {k} \in SUBSET Keys /\ table \in [Keys -> Entry]
       /\ table[k] = ReservedFor(c) /\ \A q \in Keys \ {k} : table[q] = room[q]
  BY <1>3, <1>4, Constructors DEF TypeOK, removed
<1> HIDE DEF table
<1>11. /\ entries' \in [Keys -> Entry]
       /\ \A q \in Keys \ {k} : entries'[q] = room[q]
       /\ \/ entries'[k] = ReservedFor(c) /\ Goes(c, "permitted")
          \/ entries'[k].state \in {"None", "Unresolved"} /\ Ends(c, "refused")
  BY <1>3, <1>4, <1>5, <1>9, <1>10, Constructors
<1>12. /\ pc' \in [Requests -> Steps] /\ answer' \in [Requests -> {"none", "refused"} \cup Outcomes]
       /\ \A d \in Requests \ {c} : pc'[d] = pc[d] /\ answer'[d] = answer[d]
  BY <1>3, <1>11, Zenon DEF Goes, Ends, TypeOK, Steps
<1>13. TypeOK'
  <2>1. /\ ledger' \in [disk : [Keys -> Entry], log : BOOLEAN, torn : BOOLEAN]
        /\ blocked' \in BOOLEAN /\ dirty' \in SUBSET Keys /\ failures' \in 0..MaxFailures
    <3>1. CASE persist_locked(table, removed \cup {k}, w)
      BY <1>3, <1>10, <3>1, PersistTypes, Zenon
    <3>2. CASE dirty' = removed /\ UNCHANGED <<blocked, ledger, failures>>
      BY <1>3, <1>10, <3>2, Zenon DEF TypeOK
    <3> QED
      BY <1>9, <3>1, <3>2, Zenon
  <2> QED
    BY <1>1, <1>3, <1>8, <1>11, <1>12, <2>1, Zenon DEF TypeOK
<1>14. \A q \in Keys : room[q] = entries[q] \/ room[q].state = "None"
  BY <1>4, Constructors, Zenon
<1>15. ASSUME NEW q \in Keys
       PROVE  KeyInv(q)'
  <2>1. KeyInv(q)
    BY <1>3, Zenon DEF MemoryInv
  <2>2. CASE q = k /\ entries'[k] = ReservedFor(c) /\ Goes(c, "permitted")
    <3>1. pc'[c] = "permitted"
      BY <1>10, <2>2, Zenon DEF Goes
    <3> QED
      BY <2>2, <3>1, Constructors DEF KeyInv, Truthful, k, Holding
  <2>3. CASE q = k /\ entries'[k].state \in {"None", "Unresolved"}
    BY <2>3, Zenon DEF KeyInv, Truthful
  <2>4. CASE q # k
    <3>1. entries'[q] = room[q]
      BY <1>11, <2>4, Zenon
    <3>2. Truthful(entries[q], q)
      BY <2>1, Zenon DEF KeyInv
    <3>3. Truthful(entries'[q], q)
      BY <1>14, <3>1, <3>2, Zenon DEF Truthful
    <3>4. Truthful(entries[q], q)'
      BY <1>1, <3>3, Zenon DEF Truthful
    <3>5. ASSUME entries'[q].state = "Reserved"
          PROVE  KeyOf[entries'[q].by] = q /\ pc'[entries'[q].by] \in Holding
      <4>1. entries'[q] = entries[q]
        BY <1>14, <3>1, <3>5, Zenon
      <4>2. entries[q].by \in Requests
        BY <1>10, <3>5, <4>1, EntryCases, Zenon
      <4>3. pc[entries[q].by] \in Holding /\ KeyOf[entries[q].by] = q
        BY <2>1, <3>5, <4>1, Zenon DEF KeyInv
      <4>4. entries[q].by # c
        BY <1>1, <4>3, Zenon DEF Holding
      <4> QED
        BY <1>12, <4>1, <4>2, <4>3, <4>4, Zenon
    <3> QED
      BY <3>4, <3>5, Zenon DEF KeyInv
  <2> QED
    BY <1>11, <2>2, <2>3, <2>4, Zenon
<1>16. ASSUME NEW d \in Requests \ {c}
       PROVE  RequestInv(d)'
  <2>1. RequestInv(d) /\ KeyOf[d] \in Keys
    BY <1>3, IdempotencyAssumption, Zenon DEF MemoryInv
  <2>2. entries[KeyOf[d]].state = "Reserved" => entries'[KeyOf[d]] = entries[KeyOf[d]]
    BY <1>4, <1>5, <1>11, <2>1, Constructors
  <2>3. ReservedFor(d).state = "Reserved"
    BY Constructors, Zenon
  <2> QED
    BY <1>1, <1>12, <2>1, <2>2, <2>3, Zenon DEF RequestInv, Holds
<1>17. RequestInv(c)'
  <2>1. answer[c] = "none"
    BY <1>1, <1>3, Zenon DEF MemoryInv, RequestInv
  <2>2. CASE entries'[k] = ReservedFor(c) /\ Goes(c, "permitted")
    <3>1. pc'[c] = "permitted" /\ answer'[c] = "none"
      BY <1>10, <2>1, <2>2, Zenon DEF Goes
    <3> QED
      BY <2>2, <3>1, Zenon DEF RequestInv, Holds, k
  <2>3. CASE Ends(c, "refused")
    <3>1. pc'[c] = "idle"
      BY <1>10, <2>3, Zenon DEF Ends
    <3> QED
      BY <3>1, Zenon DEF RequestInv, Holding
  <2> QED
    BY <1>11, <2>2, <2>3, Zenon
<1>18. MemoryInv'
  BY <1>1, <1>15, <1>16, <1>17, Zenon DEF MemoryInv, DownInv
<1>19. \A q \in Keys : (Clear(q) => Clear(q)') /\ (q \in gone \cup evicted => Clear(q)')
  BY <1>1, <1>6, <1>7, Zenon DEF Clear
<1>20. CASE ~Durable
  <2>1. ledger' = ledger /\ blocked' = blocked
    BY <1>9, <1>20, Zenon DEF persist_locked
  <2>2. LedgerInv'
    BY <1>1, <1>3, <1>20, <2>1, Zenon DEF LedgerInv, DiskInv, LiveInv, Truthful
  <2> QED
    BY <1>13, <1>18, <2>1, <2>2, Zenon DEF IdempotencyInv
<1>21. CASE Durable
  <2>1. ~ledger.torn /\ \A q \in Keys : DiskInv(q) /\ LiveInv(q)
    BY <1>1, <1>3, Zenon DEF LedgerInv
  <2>2. \A q \in Keys :
          /\ entries[q] = NoEntry => Clear(q)
          /\ ledger.disk[q] # NoEntry <=> entries[q] # NoEntry \/ q \in dirty
          /\ entries[q].state = "Retained" => ledger.disk[q] = entries[q]
    BY <1>1, <1>21, <2>1, Zenon DEF LiveInv, Guards
  <2>3. \A q \in Keys :
          /\ Truthful(ledger.disk[q], q)
          /\ ledger.disk[q] = NoEntry => Clear(q)
          /\ entries[q].state = "Reserved" => ledger.disk[q] = entries[q]
    BY <1>21, <2>1, Zenon DEF DiskInv, Guards
  <2>4. NoEntry.state = "None"
    BY Constructors, Zenon
  <2>5. \A q \in Keys : q \in removed => ledger.disk[q] # NoEntry
    BY <1>4, <2>2, <2>4, Zenon DEF removed
  <2>6. \A q \in Keys : room[q] = NoEntry => Clear(q)'
    BY <1>4, <1>19, <2>2, Zenon
  <2>7. Clear(k)'
    BY <1>3, <1>5, <2>6, Zenon
  <2>8. \A d \in Requests : pc'[d] = "permitted" => Clear(KeyOf[d])'
    <3>1. ASSUME NEW d \in Requests, pc'[d] = "permitted"
          PROVE  Clear(KeyOf[d])'
      <4>1. CASE d = c
        BY <2>7, <4>1, Zenon DEF k
      <4>2. CASE d # c
        <5>1. pc[d] = "permitted" /\ KeyOf[d] \in Keys
          BY <1>12, <3>1, <4>2, IdempotencyAssumption, Zenon
        <5> QED
          BY <1>3, <1>19, <1>21, <5>1, Zenon DEF LedgerInv
      <4> QED
        BY <4>1, <4>2, Zenon
    <3> QED
      BY <3>1, Zenon
  <2>9. CASE HasRoom(room, k) /\ persist_locked(table, removed \cup {k}, w)
    <3>1. Written(w) <=> w \in Writes
      BY <1>1, <1>21, Zenon DEF Written
    <3>2. \A q \in removed \cup {k} : table[q] = NoEntry => ledger.disk[q] # NoEntry
      BY <1>10, <2>4, <2>5, Constructors
    <3>3. ASSUME NEW q \in Keys \ (removed \cup {k})
          PROVE  /\ ledger.disk[q] = NoEntry <=> table[q] = NoEntry
                 /\ table[q].state \in {"Retained", "Reserved"} => ledger.disk[q] = table[q]
      <4>1. table[q] = entries[q] /\ q \notin dirty
        BY <1>4, <1>10, Zenon DEF removed
      <4> QED
        BY <2>2, <2>3, <4>1, Zenon
    <3>4. ASSUME NEW q \in Keys
          PROVE  Truthful(table[q], q) /\ (table[q] = NoEntry => Clear(q)')
      <4>1. CASE q = k
        BY <1>10, <2>7, <4>1, Constructors, Zenon DEF Truthful
      <4>2. CASE q # k
        <5>1. Truthful(entries[q], q)
          BY <1>3, Zenon DEF MemoryInv, KeyInv
        <5> QED
          BY <1>10, <1>14, <2>6, <4>2, <5>1, Zenon DEF Truthful
      <4> QED
        BY <4>1, <4>2, Zenon
    <3>5. \A q \in Keys :
            /\ Truthful(table[q], q) /\ (table[q] = NoEntry => Clear(q)')
            /\ Truthful(ledger.disk[q], q) /\ (ledger.disk[q] = NoEntry => Clear(q)')
      BY <1>19, <2>3, <3>4, Zenon
    <3>6. w \in Writes => entries' = table
      BY <1>5, <1>9, <2>9, <3>1, Zenon
    <3>7. w \notin Writes => \A q \in Keys : entries'[q].state = "Reserved" =>
                                entries'[q] = table[q] /\ entries'[q] = ledger.disk[q]
      <4> SUFFICES ASSUME w \notin Writes, NEW q \in Keys, entries'[q].state = "Reserved"
                   PROVE  entries'[q] = table[q] /\ entries'[q] = ledger.disk[q]
        BY Zenon
      <4>1. q # k
        BY <1>3, <1>4, <1>5, <1>9, <2>4, <3>1, Constructors
      <4>2. entries'[q] = entries[q] /\ table[q] = entries'[q]
        BY <1>10, <1>11, <1>14, <4>1, Zenon
      <4> QED
        BY <2>3, <4>2, Zenon
    <3>8. /\ up' /\ ~blocked' => ~ledger'.torn
          /\ \A q \in Keys : DiskInv(q)' /\ LiveInv(q)'
          /\ ledger'.torn => failures' > failures
      BY <1>1, <1>3, <1>10, <1>21, <2>1, <2>9, <3>2, <3>3, <3>5, <3>6, <3>7, WriteLedger, Zenon
    <3> QED
      BY <1>13, <1>18, <1>21, <2>8, <3>8, Zenon DEF IdempotencyInv, LedgerInv
  <2>10. CASE entries' = room /\ dirty' = removed /\ UNCHANGED <<blocked, ledger, failures>>
    <3>1. ASSUME NEW q \in Keys
          PROVE  DiskInv(q)' /\ LiveInv(q)'
      <4>1. CASE q \in gone \cup evicted
        <5>1. entries'[q] = NoEntry /\ Clear(q)' /\ ledger.disk[q] # NoEntry /\ q \in removed
          BY <1>4, <1>19, <2>4, <2>2, <2>10, <4>1, Zenon DEF removed
        <5> QED
          BY <1>1, <2>3, <2>4, <2>10, <5>1, Zenon DEF DiskInv, LiveInv, Truthful, Guards
      <4>2. CASE q \notin gone \cup evicted
        <5>1. entries'[q] = entries[q] /\ (q \in removed <=> q \in dirty)
          BY <1>4, <2>10, <4>2, Zenon DEF removed
        <5> QED
          BY <1>1, <1>19, <2>2, <2>3, <2>10, <5>1, Zenon DEF DiskInv, LiveInv, Truthful, Guards
      <4> QED
        BY <4>1, <4>2, Zenon
    <3> QED
      BY <1>1, <1>13, <1>18, <1>21, <2>1, <2>8, <2>10, <3>1, Zenon DEF IdempotencyInv, LedgerInv
  <2> QED
    BY <1>9, <2>9, <2>10, Zenon
<1> QED
  BY <1>3, <1>20, <1>21, Zenon DEF TypeOK, IdempotencyInv

-----------------------------------------------------------------------------
(* Running the operation.                                                    *)

\* No two requests hold permits for one key.
LEMMA OneHolder ==
    ASSUME IdempotencyInv, NEW c \in Requests, NEW d \in Requests,
           pc[c] \in Holding, pc[d] \in Holding, KeyOf[c] = KeyOf[d]
    PROVE  c = d
<1>1. entries[KeyOf[c]] = ReservedFor(c) /\ entries[KeyOf[c]] = ReservedFor(d)
  BY Zenon DEF IdempotencyInv, MemoryInv, RequestInv, Holds
<1>2. ReservedFor(c).by = c /\ ReservedFor(d).by = d
  BY Constructors, Zenon
<1> QED
  BY <1>1, <1>2, Zenon

\* dispatch and complete change what the latest operation for the key of c did, while
\* the reservation of c stands in memory and in the ledger.
LEMMA OperateInv ==
    ASSUME IdempotencyInv, NEW c \in Requests, dispatch(c) \/ complete(c)
    PROVE  IdempotencyInv'
<1> DEFINE k == KeyOf[c]
<1>1. TypeOK /\ MemoryInv /\ LedgerInv /\ k \in Keys
  BY IdempotencyAssumption, Zenon DEF IdempotencyInv
<1>2. /\ up /\ pc[c] \in Holding /\ UNCHANGED <<store, clock, now, signal, failures, crashes, answer>>
      /\ pc' \in [Requests -> Steps] /\ pc'[c] \in {"running", "finishing"}
      /\ \A d \in Requests \ {c} : pc'[d] = pc[d] /\ result'[d] = result[d]
      /\ \A q \in Keys \ {k} : effect'[q] = effect[q] /\ lapsed'[q] = lapsed[q]
      /\ lapsed' \in [Keys -> {"no", "expired", "evicted"}]
  <2>1. CASE dispatch(c)
    BY <1>1, <2>1, Zenon DEF dispatch, Goes, TypeOK, Steps, Holding
  <2>2. CASE complete(c)
    BY <1>1, <2>2, Zenon DEF complete, Goes, TypeOK, Steps, Holding
  <2> QED
    BY <2>1, <2>2, Zenon
<1>3. /\ effect' \in [Keys -> [by : Requests \cup {NoRequest}, what : {"none", "possible"} \cup Outcomes]]
      /\ result' \in [Requests -> {"none", "error"} \cup Outcomes]
      /\ pc'[c] = "running" => effect'[k] = [by |-> c, what |-> "possible"]
      /\ pc'[c] = "finishing" => result'[c] \in Outcomes /\ effect'[k] = [by |-> c, what |-> result'[c]]
  <2>1. CASE dispatch(c)
    BY <1>1, <2>1, Zenon DEF dispatch, Goes, TypeOK
  <2>2. CASE complete(c)
    <3>1. effect[k] = [by |-> c, what |-> "possible"]
      BY <1>1, <2>2, Zenon DEF MemoryInv, RequestInv, complete
    <3>2. PICK outcome \in Outcomes : /\ result' = [result EXCEPT ![c] = outcome]
                                      /\ effect' = [effect EXCEPT ![k].what = outcome]
      BY <2>2, Zenon DEF complete
    <3>3. effect'[k] = [by |-> c, what |-> outcome]
      BY <1>1, <3>1, <3>2 DEF TypeOK
    <3>4. effect' = [q \in Keys |-> IF q = k THEN [by |-> c, what |-> outcome] ELSE effect[q]]
      BY <1>1, <3>2, <3>3, Zenon DEF TypeOK
    <3>5. \A q \in Keys : effect[q] \in [by : Requests \cup {NoRequest}, what : {"none", "possible"} \cup Outcomes]
      BY <1>1, Zenon DEF TypeOK
    <3>6. effect' \in [Keys -> [by : Requests \cup {NoRequest}, what : {"none", "possible"} \cup Outcomes]]
      BY <3>4, <3>5, Zenon
    <3>7. result' \in [Requests -> {"none", "error"} \cup Outcomes] /\ result'[c] = outcome
      BY <1>1, <3>2, Zenon DEF TypeOK
    <3>8. pc'[c] = "finishing"
      BY <1>1, <2>2, Zenon DEF complete, Goes, TypeOK
    <3> QED
      BY <3>3, <3>6, <3>7, <3>8, Zenon
  <2> QED
    BY <2>1, <2>2, Zenon
<1>4. up' = up /\ entries' = entries /\ dirty' = dirty /\ blocked' = blocked /\ ledger' = ledger
  BY <1>2, Zenon DEF store
<1>5. TypeOK'
  BY <1>1, <1>2, <1>3, <1>4, Zenon DEF TypeOK
<1>6. entries[k] = ReservedFor(c) /\ entries[k].state = "Reserved" /\ entries[k].by = c
  <2>1. entries[k] = ReservedFor(c)
    BY <1>1, <1>2, Zenon DEF MemoryInv, RequestInv, Holds
  <2>2. ReservedFor(c).state = "Reserved" /\ ReservedFor(c).by = c
    BY Constructors, Zenon
  <2> QED
    BY <2>1, <2>2, Zenon
<1>7. ASSUME NEW q \in Keys
      PROVE  KeyInv(q)'
  <2>1. KeyInv(q)
    BY <1>1, Zenon DEF MemoryInv
  <2>2. CASE q = k
    BY <1>2, <1>4, <1>6, <2>2, Zenon DEF KeyInv, Truthful, Holding
  <2>3. CASE q # k
    <3>1. entries[q].state = "Reserved" => entries[q].by \in Requests /\ entries[q].by # c
      BY <1>1, <2>1, <2>3, EntryCases, Zenon DEF KeyInv, TypeOK
    <3> QED
      BY <1>2, <1>4, <2>1, <2>3, <3>1, Zenon DEF KeyInv, Truthful
  <2> QED
    BY <2>2, <2>3, Zenon
<1>8. ASSUME NEW d \in Requests
      PROVE  RequestInv(d)'
  <2>1. RequestInv(d) /\ KeyOf[d] \in Keys
    BY <1>1, IdempotencyAssumption, Zenon DEF MemoryInv
  <2>2. CASE d = c
    <3>1. answer[c] = "none"
      BY <1>1, <1>2, Zenon DEF MemoryInv, RequestInv, Holding
    <3> QED
      BY <1>2, <1>3, <1>4, <1>6, <2>2, <3>1, Zenon DEF RequestInv, Holds
  <2>3. CASE d # c
    <3>1. pc[d] \in Holding => KeyOf[d] # k
      BY <1>2, <2>3, OneHolder, Zenon
    <3>2. pc[d] \in Holding => effect'[KeyOf[d]] = effect[KeyOf[d]]
      BY <1>2, <2>1, <3>1, Zenon
    <3>3. pc[d] \in {"running", "finishing"} => pc[d] \in Holding
      BY Zenon DEF Holding
    <3> QED
      BY <1>2, <1>4, <2>1, <2>3, <3>2, <3>3, Zenon DEF RequestInv, Holds
  <2> QED
    BY <2>2, <2>3, Zenon
<1>9. MemoryInv'
  BY <1>2, <1>4, <1>7, <1>8, Zenon DEF MemoryInv, DownInv
<1>10. ASSUME NEW q \in Keys
       PROVE  DiskInv(q)' /\ LiveInv(q)'
  <2>1. DiskInv(q) /\ LiveInv(q)
    BY <1>1, Zenon DEF LedgerInv
  <2>2. CASE q = k
    <3>1. ReservedFor(c) # NoEntry
      BY Constructors, Zenon
    <3>2. CASE Durable
      BY <1>4, <1>6, <2>1, <2>2, <3>1, <3>2, Zenon DEF DiskInv, LiveInv, Truthful, Guards
    <3>3. CASE ~Durable
      <4>1. ledger.disk[q] = NoEntry
        BY <1>1, <3>3, Zenon DEF LedgerInv, Empty
      <4> QED
        BY <1>4, <3>3, <4>1, Constructors, Zenon DEF DiskInv, LiveInv, Truthful
    <3> QED
      BY <3>2, <3>3, Zenon
  <2>3. CASE q # k
    BY <1>2, <1>4, <2>1, <2>3, Zenon DEF DiskInv, LiveInv, Truthful, Guards, Clear
  <2> QED
    BY <2>2, <2>3, Zenon
<1>11. ASSUME Durable, NEW d \in Requests, pc'[d] = "permitted"
       PROVE  Clear(KeyOf[d])'
  <2>1. d # c /\ pc[d] = "permitted" /\ KeyOf[d] \in Keys
    BY <1>2, <1>11, IdempotencyAssumption, Zenon
  <2>2. KeyOf[d] # k
    BY <1>2, <2>1, OneHolder, Zenon DEF Holding
  <2> QED
    BY <1>1, <1>2, <1>11, <2>1, <2>2, Zenon DEF LedgerInv, Clear
<1>12. LedgerInv'
  BY <1>1, <1>4, <1>10, <1>11, Zenon DEF LedgerInv
<1> QED
  BY <1>5, <1>9, <1>12, Zenon DEF IdempotencyInv

-----------------------------------------------------------------------------
(* Giving the permit back.                                                   *)

\* What the invariant says of memory stays true when the entry of a request that ends
\* is replaced and those that wait on it are told.
LEMMA ReleaseMemory ==
    ASSUME IdempotencyInv, NEW c \in Requests, up, pc[c] \in Holding,
           NEW x \in Entry, x.state # "Reserved", Truthful(x, KeyOf[c]),
           NEW told \in {"retry", "unresolved"} \cup Outcomes, Tell(c, told),
           NEW answered \in {"refused"} \cup Outcomes, Ends(c, answered),
           entries' = [entries EXCEPT ![KeyOf[c]] = x],
           UNCHANGED <<up, effect, lapsed>>,
           \A d \in Requests \ {c} : result'[d] = result[d]
    PROVE  /\ MemoryInv' /\ entries' \in [Keys -> Entry]
           /\ pc' \in [Requests -> Steps] /\ answer' \in [Requests -> {"none", "refused"} \cup Outcomes]
           /\ signal' \in [Requests -> {"pending", "retry", "unresolved"} \cup Outcomes]
           /\ \A d \in Requests : pc'[d] = "permitted" => pc[d] = "permitted"
<1> DEFINE k == KeyOf[c]
<1>1. TypeOK /\ MemoryInv /\ k \in Keys
  BY IdempotencyAssumption, Zenon DEF IdempotencyInv
<1>2. /\ entries \in [Keys -> Entry] /\ entries' \in [Keys -> Entry]
      /\ entries'[k] = x /\ \A q \in Keys \ {k} : entries'[q] = entries[q]
  BY <1>1, Zenon DEF TypeOK
<1>3. /\ pc' \in [Requests -> Steps] /\ answer' \in [Requests -> {"none", "refused"} \cup Outcomes]
      /\ pc'[c] = "idle" /\ \A d \in Requests \ {c} : pc'[d] = pc[d] /\ answer'[d] = answer[d]
  BY <1>1, Zenon DEF TypeOK, Ends, Steps
<1>4. signal' \in [Requests -> {"pending", "retry", "unresolved"} \cup Outcomes]
  BY <1>1, Zenon DEF TypeOK, Tell
<1>5. told # "pending"
  BY IdempotencyAssumption, Zenon DEF OutcomeKinds
<1>6. \A d \in Requests : pc[d] = "waiting" /\ signal'[d] = "pending" =>
        signal[d] = "pending" /\ KeyOf[d] # k
  BY <1>5, Zenon DEF Tell
<1>7. ASSUME NEW q \in Keys
      PROVE  KeyInv(q)'
  <2>1. KeyInv(q)
    BY <1>1, Zenon DEF MemoryInv
  <2>2. CASE q = k
    BY <1>2, <2>2, Zenon DEF KeyInv, Truthful
  <2>3. CASE q # k
    <3>1. entries[q].state = "Reserved" => entries[q].by \in Requests /\ entries[q].by # c
      BY <1>2, <2>1, <2>3, EntryCases, Zenon DEF KeyInv
    <3> QED
      BY <1>2, <1>3, <2>1, <2>3, <3>1, Zenon DEF KeyInv, Truthful
  <2> QED
    BY <2>2, <2>3, Zenon
<1>8. ASSUME NEW d \in Requests
      PROVE  RequestInv(d)'
  <2>1. RequestInv(d) /\ KeyOf[d] \in Keys
    BY <1>1, IdempotencyAssumption, Zenon DEF MemoryInv
  <2>2. CASE d = c
    BY <1>3, <2>2, Zenon DEF RequestInv, Holding
  <2>3. CASE d # c
    <3>1. pc[d] \in Holding => KeyOf[d] # k
      BY <2>3, OneHolder, Zenon
    <3>2. /\ pc'[d] = pc[d] /\ answer'[d] = answer[d] /\ result'[d] = result[d]
          /\ effect' = effect
          /\ KeyOf[d] # k => entries'[KeyOf[d]] = entries[KeyOf[d]]
      BY <1>2, <1>3, <2>1, <2>3, Zenon
    <3> QED
      BY <1>6, <2>1, <3>1, <3>2, Zenon DEF RequestInv, Holds
  <2> QED
    BY <2>2, <2>3, Zenon
<1>9. MemoryInv'
  BY <1>7, <1>8, Zenon DEF MemoryInv, DownInv
<1>10. \A d \in Requests : pc'[d] = "permitted" => pc[d] = "permitted"
  BY <1>3, Zenon
<1> QED
  BY <1>2, <1>3, <1>4, <1>9, <1>10, Zenon

\* The ledger's part stays true when the new entry is written, or could not be.
LEMMA ReleaseWritten ==
    ASSUME IdempotencyInv, NEW c \in Requests, up, ~blocked, Durable, pc[c] \in Holding,
           NEW x \in Entry, x.state # "Reserved", Truthful(x, KeyOf[c]),
           x = NoEntry => Clear(KeyOf[c]),
           NEW w \in Writes \cup WriteFaults,
           persist_locked([entries EXCEPT ![KeyOf[c]] = x], dirty \cup {KeyOf[c]}, w),
           entries' = IF w \in Writes THEN [entries EXCEPT ![KeyOf[c]] = x]
                      ELSE [entries EXCEPT ![KeyOf[c]] = UnresolvedFor(c)],
           UNCHANGED <<up, effect, lapsed>>,
           \A d \in Requests : pc'[d] = "permitted" => pc[d] = "permitted"
    PROVE  LedgerInv' /\ (ledger'.torn => failures' > failures)
<1> DEFINE k == KeyOf[c]
           table == [entries EXCEPT ![k] = x]
<1>1. TypeOK /\ MemoryInv /\ LedgerInv /\ k \in Keys
  BY IdempotencyAssumption, Zenon DEF IdempotencyInv
<1>2. /\ table \in [Keys -> Entry] /\ dirty \cup {k} \in SUBSET Keys
      /\ table[k] = x /\ \A q \in Keys \ {k} : table[q] = entries[q]
  BY <1>1, Zenon DEF TypeOK
<1>3. \A q \in Keys : Clear(q)' <=> Clear(q)
  BY Zenon DEF Clear
<1>4. /\ ~ledger.torn
      /\ \A q \in Keys :
            /\ Truthful(ledger.disk[q], q) /\ (ledger.disk[q] = NoEntry => Clear(q))
            /\ entries[q].state = "Reserved" => ledger.disk[q] = entries[q]
            /\ entries[q] = NoEntry => Clear(q)
            /\ ledger.disk[q] # NoEntry <=> entries[q] # NoEntry \/ q \in dirty
            /\ entries[q].state = "Retained" => ledger.disk[q] = entries[q]
  BY <1>1, Zenon DEF LedgerInv, DiskInv, LiveInv, Guards
<1>5. entries[k] = ReservedFor(c)
  BY <1>1, Zenon DEF MemoryInv, RequestInv, Holds
<1>6. ReservedFor(c) # NoEntry /\ UnresolvedFor(c).state = "Unresolved"
  BY Constructors, Zenon
<1> HIDE DEF table
<1>7. \A q \in dirty \cup {k} : table[q] = NoEntry => ledger.disk[q] # NoEntry
  BY <1>1, <1>2, <1>4, <1>5, <1>6, Zenon
<1>8. ASSUME NEW q \in Keys \ (dirty \cup {k})
      PROVE  /\ ledger.disk[q] = NoEntry <=> table[q] = NoEntry
             /\ table[q].state \in {"Retained", "Reserved"} => ledger.disk[q] = table[q]
  BY <1>2, <1>4, Zenon
<1>9. ASSUME NEW q \in Keys
      PROVE  /\ Truthful(table[q], q) /\ (table[q] = NoEntry => Clear(q)')
             /\ Truthful(ledger.disk[q], q) /\ (ledger.disk[q] = NoEntry => Clear(q)')
  <2>1. Truthful(entries[q], q)
    BY <1>1, Zenon DEF MemoryInv, KeyInv
  <2>2. CASE q = k
    BY <1>2, <1>3, <1>4, <2>2, Zenon
  <2>3. CASE q # k
    BY <1>2, <1>3, <1>4, <2>1, <2>3, Zenon
  <2> QED
    BY <2>2, <2>3, Zenon
<1>10. w \in Writes => entries' = table
  BY Zenon DEF table
<1>11. w \notin Writes => \A q \in Keys : entries'[q].state = "Reserved" =>
                                entries'[q] = table[q] /\ entries'[q] = ledger.disk[q]
  <2> SUFFICES ASSUME w \notin Writes, NEW q \in Keys, entries'[q].state = "Reserved"
               PROVE  entries'[q] = table[q] /\ entries'[q] = ledger.disk[q]
    BY Zenon
  <2>1. entries' = [entries EXCEPT ![k] = UnresolvedFor(c)]
    BY Zenon
  <2>2. q # k
    BY <1>1, <1>6, <2>1, Zenon DEF TypeOK
  <2>3. entries'[q] = entries[q]
    BY <1>1, <2>1, <2>2 DEF TypeOK
  <2> QED
    BY <1>2, <1>4, <2>2, <2>3, Zenon
<1>12. persist_locked(table, dirty \cup {k}, w) /\ effect' = effect
  BY Zenon DEF table
<1>13. /\ up' /\ ~blocked' => ~ledger'.torn
       /\ \A q \in Keys : DiskInv(q)' /\ LiveInv(q)'
       /\ ledger'.torn => failures' > failures
  BY <1>1, <1>2, <1>4, <1>7, <1>8, <1>9, <1>10, <1>11, <1>12, WriteLedger
<1>14. \A d \in Requests : pc'[d] = "permitted" => Clear(KeyOf[d])'
  BY <1>1, <1>3, IdempotencyAssumption, Zenon DEF LedgerInv
<1> QED
  BY <1>13, <1>14, Zenon DEF LedgerInv

\* It stays true, too, when nothing is written and, with a ledger, the key is unresolved
\* and marked as changed.
LEMMA ReleaseUnwritten ==
    ASSUME IdempotencyInv, NEW c \in Requests, up, pc[c] \in Holding,
           NEW x \in Entry, x.state # "Reserved", Durable => x = UnresolvedFor(c),
           entries' = [entries EXCEPT ![KeyOf[c]] = x],
           Durable /\ ~blocked => dirty' = dirty \cup {KeyOf[c]},
           UNCHANGED <<up, blocked, ledger, effect, lapsed>>,
           \A d \in Requests : pc'[d] = "permitted" => pc[d] = "permitted"
    PROVE  LedgerInv'
<1> DEFINE k == KeyOf[c]
<1>1. TypeOK /\ MemoryInv /\ LedgerInv /\ k \in Keys
  BY IdempotencyAssumption, Zenon DEF IdempotencyInv
<1>2. entries'[k] = x /\ \A q \in Keys \ {k} : entries'[q] = entries[q]
  BY <1>1, Zenon DEF TypeOK
<1>3. \A q \in Keys : Clear(q)' <=> Clear(q)
  BY Zenon DEF Clear
<1>4. entries[k] = ReservedFor(c)
  BY <1>1, Zenon DEF MemoryInv, RequestInv, Holds
<1>5. /\ ReservedFor(c) # NoEntry /\ UnresolvedFor(c).state = "Unresolved"
      /\ NoEntry.state = "None"
  BY Constructors, Zenon
<1>6. ASSUME NEW q \in Keys
      PROVE  DiskInv(q)' /\ LiveInv(q)'
  <2>1. DiskInv(q) /\ LiveInv(q)
    BY <1>1, Zenon DEF LedgerInv
  <2>2. CASE q = k
    BY <1>2, <1>3, <1>4, <1>5, <2>1, <2>2 DEF DiskInv, LiveInv, Truthful, Guards
  <2>3. CASE q # k
    BY <1>2, <1>3, <2>1, <2>3, Zenon DEF DiskInv, LiveInv, Truthful, Guards
  <2> QED
    BY <2>2, <2>3, Zenon
<1>7. Durable => \A d \in Requests : pc'[d] = "permitted" => Clear(KeyOf[d])'
  BY <1>1, <1>3, IdempotencyAssumption, Zenon DEF LedgerInv
<1> QED
  BY <1>1, <1>6, <1>7, Zenon DEF LedgerInv

\* Both together: the entry is replaced by x if persist_locked succeeds, and is
\* unresolved if not.
LEMMA ReleaseLedger ==
    ASSUME IdempotencyInv, NEW c \in Requests, up, pc[c] \in Holding,
           NEW x \in Entry, x.state # "Reserved", Truthful(x, KeyOf[c]),
           Durable /\ x = NoEntry => Clear(KeyOf[c]),
           NEW w \in Writes \cup WriteFaults,
           persist_locked([entries EXCEPT ![KeyOf[c]] = x], dirty \cup {KeyOf[c]}, w),
           entries' = IF Written(w) THEN [entries EXCEPT ![KeyOf[c]] = x]
                      ELSE [entries EXCEPT ![KeyOf[c]] = UnresolvedFor(c)],
           UNCHANGED <<up, effect, lapsed>>,
           \A d \in Requests : pc'[d] = "permitted" => pc[d] = "permitted"
    PROVE  /\ LedgerInv' /\ (~ledger.torn /\ ledger'.torn => failures' > failures)
           /\ ledger' \in [disk : [Keys -> Entry], log : BOOLEAN, torn : BOOLEAN]
           /\ blocked' \in BOOLEAN /\ dirty' \in SUBSET Keys /\ failures' \in 0..MaxFailures
<1> DEFINE k == KeyOf[c]
           table == [entries EXCEPT ![k] = x]
<1>1. TypeOK /\ k \in Keys
  BY IdempotencyAssumption, Zenon DEF IdempotencyInv
<1>2. table \in [Keys -> Entry] /\ dirty \cup {k} \in SUBSET Keys
  BY <1>1, Zenon DEF TypeOK
<1>3. /\ ledger' \in [disk : [Keys -> Entry], log : BOOLEAN, torn : BOOLEAN]
      /\ blocked' \in BOOLEAN /\ dirty' \in SUBSET Keys /\ failures' \in 0..MaxFailures
  <2> HIDE DEF table
  <2> QED
    BY <1>1, <1>2, PersistTypes, Zenon DEF table
<1>4. CASE Durable /\ ~blocked
  <2>1. Written(w) <=> w \in Writes
    BY <1>4, Zenon DEF Written
  <2>2. LedgerInv' /\ (ledger'.torn => failures' > failures)
    BY <1>4, <2>1, ReleaseWritten, Zenon
  <2> QED
    BY <1>3, <2>2, Zenon
<1>5. CASE ~(Durable /\ ~blocked)
  <2> DEFINE y == IF Written(w) THEN x ELSE UnresolvedFor(c)
  <2>1. UNCHANGED <<ledger, blocked>>
    BY <1>5, Zenon DEF persist_locked
  <2>2. UnresolvedFor(c) \in Entry /\ UnresolvedFor(c).state = "Unresolved"
    BY Constructors, Zenon
  <2>3. y \in Entry /\ y.state # "Reserved" /\ entries' = [entries EXCEPT ![k] = y]
    BY <2>2, Zenon
  <2>4. Durable => y = UnresolvedFor(c)
    BY <1>5, Zenon DEF Written
  <2> HIDE DEF y
  <2>5. LedgerInv'
    BY <1>5, <2>1, <2>3, <2>4, ReleaseUnwritten, Zenon
  <2> QED
    BY <1>3, <2>1, <2>5, Zenon
<1> QED
  BY <1>4, <1>5, Zenon

\* The entry that finish records is a true one, and frees the key only after a
\* retryable failure.
LEMMA FinishedFacts ==
    ASSUME IdempotencyInv, NEW c \in Requests, pc[c] = "finishing"
    PROVE  /\ Finished(c) \in Entry /\ Finished(c).state # "Reserved"
           /\ Truthful(Finished(c), KeyOf[c])
           /\ Finished(c) = NoEntry => Clear(KeyOf[c])
           /\ result[c] \in Outcomes
<1>1. result[c] \in Outcomes /\ effect[KeyOf[c]] = [by |-> c, what |-> result[c]]
  BY Zenon DEF IdempotencyInv, MemoryInv, RequestInv
<1>2. clock \in 0..MaxClock
  BY Zenon DEF IdempotencyInv, TypeOK
<1>3. CASE releases_reservation(result[c])
  <2>1. Finished(c) = NoEntry /\ result[c] = "released"
    BY <1>3, Zenon DEF Finished, releases_reservation
  <2> QED
    BY <1>1, <2>1, Constructors DEF Truthful, Clear
<1>4. CASE ~releases_reservation(result[c])
  <2> DEFINE t == IF safety_relevant(result[c]) THEN Never ELSE clock + Ttl
  <2>1. Finished(c) = RetainedFor(c, result[c], t)
    BY <1>4, Zenon DEF Finished
  <2>2. t \in Times
    BY <1>2, NeverIsLate, Zenon
  <2>3. result[c] # "released" /\ (t = Never \/ result[c] = "completed")
    BY <1>1, <1>4, IdempotencyAssumption, Zenon DEF releases_reservation, safety_relevant, OutcomeKinds
  <2> HIDE DEF t
  <2>4. /\ Finished(c) \in Entry /\ Finished(c).state = "Retained" /\ Finished(c).by = c
        /\ Finished(c).outcome = result[c] /\ Finished(c).expires = t
    BY <1>1, <2>1, <2>2, Constructors
  <2>5. Finished(c) # NoEntry
    BY <2>4, Constructors, Zenon
  <2> QED
    BY <1>1, <2>3, <2>4, <2>5, Zenon DEF Truthful
<1> QED
  BY <1>3, <1>4, Zenon

\* finish keeps the invariant, and only a failed write makes the ledger unreadable.
LEMMA FinishInv ==
    ASSUME IdempotencyInv, NEW c \in Requests,
           NEW w \in Writes \cup WriteFaults \cup {"rejected"}, finish(c, w)
    PROVE  IdempotencyInv' /\ (~ledger.torn /\ ledger'.torn => failures' > failures)
<1> DEFINE k == KeyOf[c]
           table == [entries EXCEPT ![k] = Finished(c)]
           told == IF releases_reservation(result[c]) THEN "retry" ELSE result[c]
<1>1. TypeOK /\ MemoryInv /\ k \in Keys
  BY IdempotencyAssumption, Zenon DEF IdempotencyInv
<1>2. /\ up /\ pc[c] = "finishing" /\ pc[c] \in Holding
      /\ UNCHANGED <<up, clock, now, result, crashes, effect, lapsed>>
  BY Zenon DEF finish, Holding
<1>3. Holds(c)
  BY <1>1, <1>2, Zenon DEF MemoryInv, RequestInv
<1>4. /\ Finished(c) \in Entry /\ Finished(c).state # "Reserved" /\ Truthful(Finished(c), k)
      /\ Finished(c) = NoEntry => Clear(k)
      /\ result[c] \in Outcomes
  BY <1>2, FinishedFacts, Zenon
<1>5. told \in {"retry", "unresolved"} \cup Outcomes
  BY <1>4, Zenon
<1>6. /\ UnresolvedFor(c) \in Entry /\ UnresolvedFor(c).state = "Unresolved"
      /\ Truthful(UnresolvedFor(c), k)
  BY Constructors, Zenon DEF Truthful
<1>7. CASE w = "rejected"
  <2>1. /\ dirty' = dirty \cup {k} /\ UNCHANGED <<ledger, blocked, failures>>
        /\ entries' = [entries EXCEPT ![k] = UnresolvedFor(c)]
        /\ Tell(c, "unresolved") /\ Ends(c, "refused")
    BY <1>3, <1>7, Zenon DEF finish
  <2>2. /\ MemoryInv' /\ entries' \in [Keys -> Entry]
        /\ pc' \in [Requests -> Steps] /\ answer' \in [Requests -> {"none", "refused"} \cup Outcomes]
        /\ signal' \in [Requests -> {"pending", "retry", "unresolved"} \cup Outcomes]
        /\ \A d \in Requests : pc'[d] = "permitted" => pc[d] = "permitted"
    BY <1>2, <1>6, <2>1, ReleaseMemory, Zenon
  <2>3. TypeOK'
    BY <1>1, <1>2, <2>1, <2>2, Zenon DEF TypeOK
  <2>4. LedgerInv'
    BY <1>2, <1>6, <2>1, <2>2, ReleaseUnwritten, Zenon
  <2> QED
    BY <1>1, <2>1, <2>2, <2>3, <2>4, Zenon DEF IdempotencyInv
<1>8. CASE w # "rejected"
  <2> DEFINE y == IF Written(w) THEN Finished(c) ELSE UnresolvedFor(c)
             news == IF Written(w) THEN told ELSE "unresolved"
             reply == IF Written(w) THEN result[c] ELSE "refused"
  <2>1. w \in Writes \cup WriteFaults
    BY <1>8, Zenon
  <2>2. /\ persist_locked(table, dirty \cup {k}, w)
        /\ entries' = [entries EXCEPT ![k] = y] /\ Tell(c, news) /\ Ends(c, reply)
    BY <1>3, <1>8, Zenon DEF finish
  <2>3. /\ y \in Entry /\ y.state # "Reserved" /\ Truthful(y, k)
        /\ news \in {"retry", "unresolved"} \cup Outcomes /\ reply \in {"refused"} \cup Outcomes
    BY <1>4, <1>5, <1>6, Zenon
  <2>4. entries' = IF Written(w) THEN table ELSE [entries EXCEPT ![k] = UnresolvedFor(c)]
    BY <2>2, Zenon
  <2> HIDE DEF y, news, reply, told
  <2>5. /\ MemoryInv' /\ entries' \in [Keys -> Entry]
        /\ pc' \in [Requests -> Steps] /\ answer' \in [Requests -> {"none", "refused"} \cup Outcomes]
        /\ signal' \in [Requests -> {"pending", "retry", "unresolved"} \cup Outcomes]
        /\ \A d \in Requests : pc'[d] = "permitted" => pc[d] = "permitted"
    BY <1>2, <2>2, <2>3, ReleaseMemory, Zenon
  <2>6. /\ LedgerInv' /\ (~ledger.torn /\ ledger'.torn => failures' > failures)
        /\ ledger' \in [disk : [Keys -> Entry], log : BOOLEAN, torn : BOOLEAN]
        /\ blocked' \in BOOLEAN /\ dirty' \in SUBSET Keys /\ failures' \in 0..MaxFailures
    BY <1>2, <1>4, <2>1, <2>2, <2>4, <2>5, ReleaseLedger, Zenon
  <2>7. TypeOK'
    BY <1>1, <1>2, <2>5, <2>6, Zenon DEF TypeOK
  <2> QED
    BY <2>5, <2>6, <2>7, Zenon DEF IdempotencyInv
<1> QED
  BY <1>7, <1>8, Zenon

\* abandon keeps the invariant, and only a failed write makes the ledger unreadable.
LEMMA AbandonInv ==
    ASSUME IdempotencyInv, NEW c \in Requests, NEW w \in Writes \cup WriteFaults, abandon(c, w)
    PROVE  IdempotencyInv' /\ (~ledger.torn /\ ledger'.torn => failures' > failures)
<1> DEFINE k == KeyOf[c]
           y == IF Written(w) THEN NoEntry ELSE UnresolvedFor(c)
<1>1. TypeOK /\ k \in Keys
  BY IdempotencyAssumption, Zenon DEF IdempotencyInv
<1>2. /\ up /\ pc[c] = "permitted" /\ pc[c] \in Holding
      /\ UNCHANGED <<up, clock, now, result, crashes, effect, lapsed>>
      /\ persist_locked([entries EXCEPT ![k] = NoEntry], dirty \cup {k}, w)
      /\ entries' = IF Written(w) THEN [entries EXCEPT ![k] = NoEntry]
                    ELSE [entries EXCEPT ![k] = UnresolvedFor(c)]
      /\ Tell(c, "retry") /\ Ends(c, "refused")
  BY Zenon DEF abandon, Holding
<1>3. /\ NoEntry \in Entry /\ NoEntry.state # "Reserved" /\ Truthful(NoEntry, k)
      /\ UnresolvedFor(c) \in Entry /\ UnresolvedFor(c).state # "Reserved"
      /\ Truthful(UnresolvedFor(c), k)
  BY Constructors, Zenon DEF Truthful
<1>4. y \in Entry /\ y.state # "Reserved" /\ Truthful(y, k) /\ entries' = [entries EXCEPT ![k] = y]
  BY <1>2, <1>3, Zenon
<1>5. Durable => Clear(k)
  BY <1>2, Zenon DEF IdempotencyInv, LedgerInv
<1> HIDE DEF y
<1>6. /\ MemoryInv' /\ entries' \in [Keys -> Entry]
      /\ pc' \in [Requests -> Steps] /\ answer' \in [Requests -> {"none", "refused"} \cup Outcomes]
      /\ signal' \in [Requests -> {"pending", "retry", "unresolved"} \cup Outcomes]
      /\ \A d \in Requests : pc'[d] = "permitted" => pc[d] = "permitted"
  BY <1>2, <1>4, ReleaseMemory, Zenon
<1>7. /\ LedgerInv' /\ (~ledger.torn /\ ledger'.torn => failures' > failures)
      /\ ledger' \in [disk : [Keys -> Entry], log : BOOLEAN, torn : BOOLEAN]
      /\ blocked' \in BOOLEAN /\ dirty' \in SUBSET Keys /\ failures' \in 0..MaxFailures
  BY <1>2, <1>3, <1>5, <1>6, ReleaseLedger, Zenon
<1>8. TypeOK'
  BY <1>1, <1>2, <1>6, <1>7, Zenon DEF TypeOK
<1> QED
  BY <1>6, <1>7, <1>8, Zenon DEF IdempotencyInv

\* Dropping a permit keeps the invariant.
LEMMA DropPermitInv ==
    ASSUME IdempotencyInv, NEW c \in Requests, cancelled(c) \/ call_failed(c)
    PROVE  IdempotencyInv' /\ ledger' = ledger
<1> DEFINE k == KeyOf[c]
           y == IF Durable THEN UnresolvedFor(c) ELSE NoEntry
           news == IF Durable THEN "unresolved" ELSE "retry"
<1>1. TypeOK /\ MemoryInv /\ k \in Keys
  BY IdempotencyAssumption, Zenon DEF IdempotencyInv
<1>2. up /\ pc[c] \in Holding /\ DropPermit(c)
  BY Zenon DEF cancelled, call_failed, Holding
<1>3. /\ result' \in [Requests -> {"none", "error"} \cup Outcomes]
      /\ \A d \in Requests \ {c} : result'[d] = result[d]
  BY <1>1, Zenon DEF cancelled, call_failed, TypeOK
<1>4. Holds(c)
  BY <1>1, <1>2, Zenon DEF MemoryInv, RequestInv
<1>5. /\ entries' = [entries EXCEPT ![k] = y] /\ dirty' = dirty \cup {k}
      /\ Tell(c, news) /\ Ends(c, "refused")
      /\ UNCHANGED <<up, blocked, ledger, clock, now, failures, crashes, effect, lapsed>>
  BY <1>2, <1>4, Zenon DEF DropPermit
<1>6. /\ y \in Entry /\ y.state # "Reserved" /\ Truthful(y, k)
      /\ news \in {"retry", "unresolved"} \cup Outcomes
      /\ Durable => y = UnresolvedFor(c)
  BY Constructors, Zenon DEF Truthful
<1> HIDE DEF y, news
<1>7. /\ MemoryInv' /\ entries' \in [Keys -> Entry]
      /\ pc' \in [Requests -> Steps] /\ answer' \in [Requests -> {"none", "refused"} \cup Outcomes]
      /\ signal' \in [Requests -> {"pending", "retry", "unresolved"} \cup Outcomes]
      /\ \A d \in Requests : pc'[d] = "permitted" => pc[d] = "permitted"
  BY <1>2, <1>3, <1>5, <1>6, ReleaseMemory, Zenon
<1>8. LedgerInv'
  BY <1>2, <1>5, <1>6, <1>7, ReleaseUnwritten, Zenon
<1>9. TypeOK'
  BY <1>1, <1>3, <1>5, <1>7, Zenon DEF TypeOK
<1> QED
  BY <1>5, <1>7, <1>8, <1>9, Zenon DEF IdempotencyInv

-----------------------------------------------------------------------------
(* The process.                                                              *)

\* crash keeps the invariant.
LEMMA CrashInv ==
    ASSUME IdempotencyInv, NEW torn \in BOOLEAN, crash(torn)
    PROVE  IdempotencyInv' /\ crashes' > crashes
<1>1. TypeOK /\ LedgerInv
  BY Zenon DEF IdempotencyInv
<1>2. /\ up' = FALSE /\ blocked' = FALSE /\ entries' = Empty /\ dirty' = {}
      /\ ledger' = IF Durable THEN [ledger EXCEPT !.torn = @ \/ torn] ELSE ledger
      /\ pc' = [c \in Requests |-> "idle"] /\ signal' = [c \in Requests |-> "pending"]
      /\ answer' = [c \in Requests |-> IF pc[c] = "idle" THEN answer[c] ELSE "refused"]
      /\ UNCHANGED <<clock, now, result, failures, effect, lapsed>>
      /\ crashes < MaxCrashes /\ crashes' = crashes + 1
  BY Zenon DEF crash
<1>3. crashes' > crashes /\ crashes' \in 0..MaxCrashes
  BY <1>1, <1>2, IdempotencyAssumption DEF TypeOK
<1>4. Empty \in [Keys -> Entry] /\ (\A k \in Keys : Empty[k] = NoEntry) /\ NoEntry.state = "None"
  BY Constructors, Zenon DEF Empty
<1>5. /\ ledger' \in [disk : [Keys -> Entry], log : BOOLEAN, torn : BOOLEAN]
      /\ ledger'.disk = ledger.disk /\ (ledger.torn => ledger'.torn)
  BY <1>1, <1>2, Zenon DEF TypeOK
<1>6. TypeOK'
  BY <1>1, <1>2, <1>3, <1>4, <1>5, Zenon DEF TypeOK, Steps
<1>7. \A k \in Keys : KeyInv(k)'
  BY <1>2, <1>4, Zenon DEF KeyInv, Truthful
<1>8. \A c \in Requests : RequestInv(c)'
  BY <1>2, Zenon DEF RequestInv, Holding
<1>9. MemoryInv'
  BY <1>2, <1>7, <1>8, Zenon DEF MemoryInv, DownInv
<1>10. ASSUME NEW k \in Keys
       PROVE  DiskInv(k)' /\ LiveInv(k)'
  <2>1. DiskInv(k)
    BY <1>1, Zenon DEF LedgerInv
  <2>2. entries'[k].state # "Reserved"
    BY <1>2, <1>4, Zenon
  <2> QED
    BY <1>2, <1>5, <2>1, <2>2, Zenon DEF DiskInv, LiveInv, Truthful, Guards, Clear
<1>11. LedgerInv'
  BY <1>1, <1>2, <1>5, <1>10, Zenon DEF LedgerInv
<1> QED
  BY <1>3, <1>6, <1>9, <1>11, Zenon DEF IdempotencyInv

\* What open restores: no key is reserved, every key of the file that did not expire is
\* known, and a retained outcome is the one in the file.
LEMMA RestoredFacts ==
    ASSUME IdempotencyInv, ~ledger.torn, NEW missing,
           NEW q \in Keys
    PROVE  LET gone == Expired(ledger.disk, clock)
               table == Without([k \in Keys |-> Restored(ledger.disk[k], k \in missing)], gone)
           IN  /\ table \in [Keys -> Entry] /\ gone \subseteq Keys
               /\ table[q].state # "Reserved"
               /\ q \in gone => /\ table[q] = NoEntry /\ ledger.disk[q] # NoEntry
                                /\ effect[q].what = "completed"
               /\ q \notin gone => (table[q] = NoEntry <=> ledger.disk[q] = NoEntry)
               /\ table[q].state = "Retained" => table[q] = ledger.disk[q]
<1> DEFINE gone == Expired(ledger.disk, clock)
           all == [k \in Keys |-> Restored(ledger.disk[k], k \in missing)]
           table == Without(all, gone)
<1>1. ledger.disk \in [Keys -> Entry] /\ clock \in 0..MaxClock /\ gone \subseteq Keys
  BY Zenon DEF IdempotencyInv, TypeOK, Expired
<1>2. ASSUME NEW k \in Keys
      PROVE  /\ all[k] \in Entry /\ all[k].state # "Reserved"
             /\ all[k] = NoEntry <=> ledger.disk[k] = NoEntry
             /\ all[k].state = "Retained" => all[k] = ledger.disk[k]
  <2> DEFINE d == ledger.disk[k]
  <2>1. d \in Entry /\ all[k] = Restored(d, k \in missing)
    BY <1>1, Zenon
  <2> HIDE DEF d, all
  <2>2. CASE d.state = "None"
    <3>1. all[k] = NoEntry
      BY <2>1, <2>2, Zenon DEF Restored
    <3> QED
      BY <2>1, <2>2, <3>1, EntryCases, Constructors, Zenon DEF d
  <2>3. CASE d.state \in {"Reserved", "Unresolved"}
    <3>1. all[k] = UnresolvedFor(d.by)
      BY <2>1, <2>3, Zenon DEF Restored
    <3>2. d.by \in Requests /\ d # NoEntry
      BY <2>1, <2>3, EntryCases, Zenon
    <3>3. UnresolvedFor(d.by) \in Entry /\ UnresolvedFor(d.by).state = "Unresolved"
      BY <3>2, Constructors, Zenon
    <3> QED
      BY <3>1, <3>2, <3>3, Constructors, Zenon DEF d
  <2>4. CASE d.state = "Retained"
    <3>1. all[k] = IF k \in missing THEN UnresolvedFor(d.by) ELSE d
      BY <2>1, <2>4, Zenon DEF Restored
    <3>2. d.by \in Requests /\ d # NoEntry
      BY <2>1, <2>4, EntryCases, Zenon
    <3>3. UnresolvedFor(d.by) \in Entry /\ UnresolvedFor(d.by).state = "Unresolved"
      BY <3>2, Constructors, Zenon
    <3> QED
      BY <2>1, <2>4, <3>1, <3>2, <3>3, Constructors DEF d
  <2> QED
    BY <2>1, <2>2, <2>3, <2>4, EntryCases, Zenon
<1>3. all \in [Keys -> Entry]
  BY <1>2, Zenon
<1> HIDE DEF all
<1>4. /\ table \in [Keys -> Entry]
      /\ table[q] = IF q \in gone THEN NoEntry ELSE all[q]
  <2> HIDE DEF gone
  <2> QED
    BY <1>3, WithoutTable
<1>5. ASSUME q \in gone
      PROVE  ledger.disk[q] # NoEntry /\ effect[q].what = "completed"
  <2>1. /\ ledger.disk[q] # NoEntry /\ ledger.disk[q].state = "Retained"
        /\ ledger.disk[q].expires # Never
    BY <1>1, <1>5, ExpiredIsRetained, Zenon
  <2>2. Truthful(ledger.disk[q], q)
    BY Zenon DEF IdempotencyInv, LedgerInv, DiskInv
  <2> QED
    BY <2>1, <2>2 DEF Truthful
<1> HIDE DEF gone, table
<1>6. /\ table[q].state # "Reserved"
      /\ q \in gone => table[q] = NoEntry /\ ledger.disk[q] # NoEntry /\ effect[q].what = "completed"
      /\ q \notin gone => (table[q] = NoEntry <=> ledger.disk[q] = NoEntry)
      /\ table[q].state = "Retained" => table[q] = ledger.disk[q]
  BY <1>2, <1>4, <1>5, Constructors
<1> QED
  BY <1>1, <1>4, <1>6, Zenon DEF gone, table, all

\* open keeps the invariant, and only a failed write makes the ledger unreadable.
LEMMA OpenInv ==
    ASSUME IdempotencyInv, NEW w \in Writes \cup WriteFaults, open(w)
    PROVE  IdempotencyInv' /\ (~ledger.torn /\ ledger'.torn => failures' > failures)
<1>1. TypeOK /\ MemoryInv /\ LedgerInv
  BY Zenon DEF IdempotencyInv
<1>2. /\ ~up /\ up' = TRUE /\ ~blocked /\ dirty = {} /\ \A c \in Requests : pc[c] = "idle"
      /\ UNCHANGED <<clock, pc, now, signal, result, crashes, effect, answer>>
  BY <1>1, Zenon DEF open, MemoryInv, DownInv
<1>3. \A c \in Requests : RequestInv(c)'
  BY <1>2, Zenon DEF RequestInv, Holding
<1>4. CASE ledger.torn
  <2>1. entries' = Empty /\ blocked' = TRUE /\ UNCHANGED <<dirty, ledger, failures, lapsed>>
    BY <1>4, Zenon DEF open
  <2>2. Empty \in [Keys -> Entry] /\ (\A k \in Keys : Empty[k] = NoEntry) /\ NoEntry.state = "None"
    BY Constructors, Zenon DEF Empty
  <2>3. TypeOK'
    BY <1>1, <1>2, <2>1, <2>2, Zenon DEF TypeOK
  <2>4. \A k \in Keys : KeyInv(k)'
    BY <2>1, <2>2, Zenon DEF KeyInv, Truthful
  <2>5. LedgerInv'
    BY <1>1, <1>2, <1>4, <2>1, Zenon DEF LedgerInv, DiskInv, LiveInv
  <2> QED
    BY <1>2, <1>3, <1>4, <2>3, <2>4, <2>5, Zenon DEF IdempotencyInv, MemoryInv, DownInv
<1>5. CASE ~ledger.torn
  <2> DEFINE gone == Expired(ledger.disk, clock)
             Table(missing) == Without([k \in Keys |-> Restored(ledger.disk[k], k \in missing)], gone)
             Protect(missing) == {k \in missing \ gone : ledger.disk[k].expires # Never}
  <2>1. PICK missing \in SUBSET {k \in Keys : Forgets /\ ledger.disk[k].state = "Retained"} :
          /\ entries' = Table(missing)
          /\ lapsed' = [k \in Keys |-> IF k \in gone THEN "expired"
                                       ELSE IF Table(missing)[k] # NoEntry THEN "no" ELSE lapsed[k]]
          /\ IF Protect(missing) # {} THEN persist_locked(Table(missing), gone \cup Protect(missing), w)
             ELSE dirty' = gone /\ UNCHANGED <<ledger, blocked, failures>>
    BY <1>5, Zenon DEF open
  <2> DEFINE table == Table(missing)
             protect == Protect(missing)
  <2>2. gone \subseteq Keys /\ missing \subseteq Keys
    BY Zenon DEF Expired
  <2>3. ASSUME NEW q \in Keys
        PROVE  /\ table \in [Keys -> Entry]
               /\ table[q].state # "Reserved"
               /\ q \in gone => /\ table[q] = NoEntry /\ ledger.disk[q] # NoEntry
                                /\ effect[q].what = "completed"
               /\ q \notin gone => (table[q] = NoEntry <=> ledger.disk[q] = NoEntry)
               /\ table[q].state = "Retained" => table[q] = ledger.disk[q]
    BY <1>5, RestoredFacts, Zenon
  <2>4. table \in [Keys -> Entry]
    <3>1. CASE Keys = {}
      BY <3>1, Zenon DEF Without
    <3>2. CASE Keys # {}
      BY <2>3, <3>2, Zenon
    <3> QED
      BY <3>1, <3>2, Zenon
  <2>5. gone \cup protect \in SUBSET Keys
    BY <2>2, Zenon
  <2>6. \A q \in protect : ledger.disk[q] # NoEntry
    BY Constructors, Zenon
  <2> HIDE DEF gone, table, protect, Table, Protect
  <2>7. /\ lapsed' \in [Keys -> {"no", "expired", "evicted"}]
        /\ \A q \in Keys : lapsed'[q] = IF q \in gone THEN "expired"
                                        ELSE IF table[q] # NoEntry THEN "no" ELSE lapsed[q]
    BY <1>1, <2>1, Zenon DEF TypeOK, table
  <2>8. \/ persist_locked(table, gone \cup protect, w)
        \/ dirty' = gone /\ UNCHANGED <<ledger, blocked, failures>>
    BY <2>1, Zenon DEF table, protect
  <2>9. entries' = table
    BY <2>1, Zenon DEF table
  <2>10. TypeOK'
    <3>1. /\ ledger' \in [disk : [Keys -> Entry], log : BOOLEAN, torn : BOOLEAN]
          /\ blocked' \in BOOLEAN /\ dirty' \in SUBSET Keys /\ failures' \in 0..MaxFailures
      <4>1. CASE persist_locked(table, gone \cup protect, w)
        BY <1>1, <2>4, <2>5, <4>1, PersistTypes, Zenon
      <4>2. CASE dirty' = gone /\ UNCHANGED <<ledger, blocked, failures>>
        BY <1>1, <2>2, <4>2, Zenon DEF TypeOK
      <4> QED
        BY <2>8, <4>1, <4>2, Zenon
    <3> QED
      BY <1>1, <1>2, <2>4, <2>7, <2>9, <3>1, Zenon DEF TypeOK
  <2>11. \A q \in Keys : Truthful(ledger.disk[q], q)
    BY <1>1, <1>5, Zenon DEF LedgerInv, DiskInv
  <2>12. \A q \in Keys : Truthful(table[q], q)
    BY <2>3, <2>11, Zenon DEF Truthful
  <2>13. \A q \in Keys : KeyInv(q)'
    BY <1>2, <2>3, <2>9, <2>12, Zenon DEF KeyInv, Truthful
  <2>14. MemoryInv'
    BY <1>2, <1>3, <2>13, Zenon DEF MemoryInv, DownInv
  <2>15. CASE ~Durable
    <3>1. ledger' = ledger
      BY <2>8, <2>15, Zenon DEF persist_locked
    <3>2. LedgerInv'
      BY <1>1, <1>2, <1>5, <2>11, <2>15, <3>1, Zenon DEF LedgerInv, DiskInv, LiveInv, Truthful
    <3> QED
      BY <1>5, <2>10, <2>14, <3>1, <3>2, Zenon DEF IdempotencyInv
  <2>16. CASE Durable
    <3>1. ASSUME NEW q \in Keys, table[q] = NoEntry
          PROVE  Clear(q)'
      <4>1. CASE q \in gone
        BY <1>2, <2>3, <2>7, <4>1, Zenon DEF Clear
      <4>2. CASE q \notin gone
        <5>1. ledger.disk[q] = NoEntry /\ lapsed'[q] = lapsed[q]
          BY <2>3, <2>7, <3>1, <4>2, Zenon
        <5>2. Clear(q)
          BY <1>1, <1>5, <2>16, <5>1, Zenon DEF LedgerInv, DiskInv, Guards
        <5> QED
          BY <1>2, <5>1, <5>2, Zenon DEF Clear
      <4> QED
        BY <4>1, <4>2, Zenon
    <3>2. \A q \in Keys : ledger.disk[q] = NoEntry => table[q] = NoEntry
      BY <2>3, Zenon
    <3>3. \A c \in Requests : pc'[c] # "permitted"
      BY <1>2, Zenon
    <3>4. CASE persist_locked(table, gone \cup protect, w)
      <4>1. \A q \in gone \cup protect : table[q] = NoEntry => ledger.disk[q] # NoEntry
        BY <2>2, <2>3, <2>6, Zenon
      <4>2. \A q \in Keys \ (gone \cup protect) :
                /\ ledger.disk[q] = NoEntry <=> table[q] = NoEntry
                /\ table[q].state \in {"Retained", "Reserved"} => ledger.disk[q] = table[q]
        BY <2>3, Zenon
      <4>3. \A q \in Keys :
                /\ Truthful(table[q], q) /\ (table[q] = NoEntry => Clear(q)')
                /\ Truthful(ledger.disk[q], q) /\ (ledger.disk[q] = NoEntry => Clear(q)')
        BY <2>11, <2>12, <3>1, <3>2, Zenon
      <4>4. w \notin Writes => \A q \in Keys : entries'[q].state = "Reserved" =>
                                  entries'[q] = table[q] /\ entries'[q] = ledger.disk[q]
        BY <2>3, <2>9, Zenon
      <4>5. /\ up' /\ ~blocked' => ~ledger'.torn
            /\ \A q \in Keys : DiskInv(q)' /\ LiveInv(q)'
            /\ ledger'.torn => failures' > failures
        BY <1>1, <1>2, <1>5, <2>4, <2>5, <2>9, <2>16, <3>4, <4>1, <4>2, <4>3, <4>4, WriteLedger, Zenon
      <4>6. LedgerInv'
        BY <2>16, <3>3, <4>5, Zenon DEF LedgerInv
      <4> QED
        BY <2>10, <2>14, <4>5, <4>6, Zenon DEF IdempotencyInv
    <3>5. CASE dirty' = gone /\ UNCHANGED <<ledger, blocked, failures>>
      <4>1. ASSUME NEW q \in Keys
            PROVE  DiskInv(q)' /\ LiveInv(q)'
        BY <1>2, <2>3, <2>9, <2>11, <3>1, <3>2, <3>5, Zenon DEF DiskInv, LiveInv, Truthful, Guards
      <4>2. LedgerInv'
        BY <1>5, <2>16, <3>3, <3>5, <4>1, Zenon DEF LedgerInv
      <4> QED
        BY <1>5, <2>10, <2>14, <3>5, <4>2, Zenon DEF IdempotencyInv
    <3> QED
      BY <2>8, <3>4, <3>5, Zenon
  <2> QED
    BY <2>15, <2>16, Zenon
<1> QED
  BY <1>4, <1>5, Zenon

-----------------------------------------------------------------------------
(* Every step keeps the invariant; what follows from it.                      *)

\* Every step keeps the invariant, and makes the ledger unreadable only by a failed
\* write or a crash.
LEMMA NextInv ==
    ASSUME IdempotencyInv, [Next]_vars
    PROVE  /\ IdempotencyInv'
           /\ ~ledger.torn /\ ledger'.torn => failures' > failures \/ crashes' > crashes
<1>1. CASE tick \/ UNCHANGED vars
  <2>1. ledger' = ledger
    BY <1>1, Zenon DEF tick, vars, store
  <2> QED
    BY <1>1, <2>1, TickInv, Zenon
<1>2. ASSUME NEW c \in Requests, Reserve(c)
      PROVE  IdempotencyInv' /\ (~ledger.torn /\ ledger'.torn => failures' > failures)
  <2>1. CASE begin(c)
    BY <2>1, BeginInv, Zenon DEF begin, store
  <2>2. CASE lookup(c)
    BY <2>2, LookupInv, Zenon DEF lookup
  <2>3. CASE wake(c)
    BY <2>3, WakeInv, Zenon DEF wake, store
  <2>4. CASE deadline(c) \/ acquire_refused(c)
    BY <2>4, GiveUpInv, Zenon DEF deadline, acquire_refused, store
  <2>5. CASE acquire_taken(c)
    BY <2>5, AcquireTakenInv, Zenon DEF acquire_taken
  <2>6. CASE \E w \in Writes \cup WriteFaults : acquire(c, w)
    BY <2>6, AcquireInv, Zenon
  <2> QED
    BY <1>2, <2>1, <2>2, <2>3, <2>4, <2>5, <2>6, Zenon DEF Reserve
<1>3. ASSUME NEW c \in Requests, Operate(c)
      PROVE  IdempotencyInv' /\ (~ledger.torn /\ ledger'.torn => failures' > failures)
  <2>1. CASE dispatch(c) \/ complete(c)
    BY <2>1, OperateInv, Zenon DEF dispatch, complete, store
  <2>2. CASE \E w \in Writes \cup WriteFaults \cup {"rejected"} : finish(c, w)
    BY <2>2, FinishInv, Zenon
  <2>3. CASE \E w \in Writes \cup WriteFaults : abandon(c, w)
    BY <2>3, AbandonInv, Zenon
  <2>4. CASE cancelled(c) \/ call_failed(c)
    BY <2>4, DropPermitInv, Zenon
  <2> QED
    BY <1>3, <2>1, <2>2, <2>3, <2>4, Zenon DEF Operate
<1>4. CASE \E torn \in BOOLEAN : crash(torn)
  BY <1>4, CrashInv, Zenon
<1>5. CASE \E w \in Writes \cup WriteFaults : open(w)
  BY <1>5, OpenInv, Zenon
<1> QED
  BY <1>1, <1>2, <1>3, <1>4, <1>5, Zenon DEF Next, Process

\* The inductive invariant holds in every behaviour of the store.
THEOREM IdempotencyInvariant == Spec => []IdempotencyInv
<1>1. IdempotencyInv /\ [Next]_vars => IdempotencyInv'
  BY NextInv, Zenon
<1> QED
  BY <1>1, InitInv, PTL DEF Spec

\* Every reservation has exactly one live request behind it: no crash, failed write,
\* dropped future or late finish leaves a key reserved for nobody or for two.
THEOREM ReservationsAreHeld == Spec => []ReservationHasHolder
<1>1. IdempotencyInv => ReservationHasHolder
  BY Zenon DEF IdempotencyInv, MemoryInv, KeyInv, RequestInv, ReservationHasHolder
<1> QED
  BY <1>1, IdempotencyInvariant, PTL

\* With a ledger, no operation is started for a key while an effect of an earlier one is
\* possible that its client may still ask for, whatever crashed, was cancelled or
\* could not be written.
THEOREM EffectsAreNotRepeated ==
    ASSUME Durable
    PROVE  Spec => NoDuplicateEffect
<1>1. IdempotencyInv /\ [Next]_vars =>
        [\A c \in Requests :
            pc[c] = "permitted" /\ pc'[c] = "running" =>
                LET last == effect[KeyOf[c]]
                IN  \/ last.what \in {"none", "released"}
                    \/ last.what = "completed" /\ lapsed[KeyOf[c]] # "no"]_vars
  BY Zenon DEF IdempotencyInv, LedgerInv, Clear
<1> QED
  BY <1>1, IdempotencyInvariant, PTL DEF Spec, NoDuplicateEffect

\* What the ledger says of a key that is not marked dirty is what memory says, in every
\* state in which the ledger accepts writes.
THEOREM LedgerFollowsMemory == Spec => []LedgerKeepsUp
<1>1. ASSUME IdempotencyInv
      PROVE  LedgerKeepsUp
  BY <1>1, Zenon DEF IdempotencyInv, LedgerInv, LiveInv, LedgerKeepsUp
<1> QED
  BY <1>1, IdempotencyInvariant, PTL

\* No record written in full removes a key the reader does not know: only a failed write
\* or a crash makes the ledger unreadable.
THEOREM LedgerIsReadable == Spec => LedgerStaysReadable
<1>1. IdempotencyInv /\ [Next]_vars =>
        [~ledger.torn /\ ledger'.torn => failures' > failures \/ crashes' > crashes]_vars
  BY NextInv, Zenon
<1> QED
  BY <1>1, IdempotencyInvariant, PTL DEF Spec, LedgerStaysReadable

\* What a step tells a request, directly or through the watch channel.
Told(c) ==
    LET last == effect[KeyOf[c]]
        Mine(outcome) == last.what = outcome /\ Body[last.by] = Body[c]
    IN  /\ pc[c] = "lookup" /\ answer'[c] \in Outcomes => Mine(answer'[c])
        /\ signal'[c] # signal[c] /\ signal'[c] \in Outcomes => Mine(signal'[c])

\* A request at its look-up is answered only by that look-up, with the outcome in the
\* entry; the watch channel carries an outcome only from a finish.
LEMMA TellsTheTruth ==
    ASSUME IdempotencyInv, [Next]_vars, NEW d \in Requests
    PROVE  Told(d)
<1>1. /\ TypeOK /\ RequestInv(d) /\ KeyOf[d] \in Keys
      /\ \A o \in Outcomes : o \notin {"none", "refused", "pending", "retry", "unresolved"}
  BY IdempotencyAssumption, Zenon DEF IdempotencyInv, MemoryInv, OutcomeKinds
<1>2. pc[d] = "lookup" => answer[d] \notin Outcomes
  BY <1>1, Zenon DEF RequestInv
<1>3. SUFFICES ASSUME \/ answer'[d] # answer[d] /\ pc[d] = "lookup" /\ answer'[d] # "refused"
                      \/ signal'[d] # signal[d] /\ signal'[d] \in Outcomes
               PROVE  Told(d)
  BY <1>1, <1>2, Zenon DEF Told
<1>4. CASE tick \/ UNCHANGED vars
  BY <1>3, <1>4, Zenon DEF tick, vars
<1>5. CASE (\E torn \in BOOLEAN : crash(torn)) \/ \E w \in Writes \cup WriteFaults : open(w)
  BY <1>1, <1>3, <1>5, Zenon DEF crash, open
<1>6. ASSUME NEW c \in Requests, lookup(c)
      PROVE  Told(d)
  <2> DEFINE k == KeyOf[c]
             gone == Expired(entries, now[c])
             e == Without(entries, gone)[k]
  <2>1. k \in Keys /\ entries \in [Keys -> Entry]
    BY <1>1, IdempotencyAssumption, Zenon DEF TypeOK
  <2>2. e \in Entry /\ (e # NoEntry => e = entries[k])
    <3> HIDE DEF gone
    <3> QED
      BY <2>1, WithoutTable
  <2>3. /\ signal' = signal /\ effect' = effect
        /\ \/ answer' = answer
           \/ SameBody(c, e) /\ e.state = "Retained" /\ answer' = [answer EXCEPT ![c] = e.outcome]
           \/ answer' = [answer EXCEPT ![c] = "refused"]
    BY <1>6, Zenon DEF lookup, Goes, Ends
  <2> HIDE DEF e, gone
  <2>4. d = c /\ SameBody(d, e) /\ e.state = "Retained" /\ answer'[d] = e.outcome
    BY <1>1, <1>3, <2>3, Zenon DEF TypeOK
  <2>5. Truthful(entries[k], k) /\ entries[k] = e
    BY <2>1, <2>2, <2>4, Zenon DEF IdempotencyInv, MemoryInv, KeyInv, SameBody
  <2> QED
    BY <2>3, <2>4, <2>5 DEF Told, Truthful, SameBody
<1>7. ASSUME NEW c \in Requests,
             begin(c) \/ wake(c) \/ deadline(c) \/ acquire_refused(c) \/ dispatch(c) \/ complete(c)
             \/ acquire_taken(c)
      PROVE  FALSE
  <2>1. /\ pc[c] # "lookup"
        /\ \A x \in Requests \ {c} : answer'[x] = answer[x]
        /\ \A x \in Requests : signal'[x] = signal[x] \/ signal'[x] = "pending"
    BY <1>1, <1>7 DEF TypeOK, begin, wake, deadline, acquire_refused, dispatch, complete,
                      acquire_taken, Goes, Ends
  <2> QED
    BY <1>1, <1>3, <2>1, Zenon
<1>8. ASSUME NEW c \in Requests, NEW w, acquire(c, w)
      PROVE  FALSE
  <2>1. /\ pc[c] # "lookup" /\ signal' = signal
        /\ answer' = answer \/ answer' = [answer EXCEPT ![c] = "refused"]
    BY <1>8, Zenon DEF acquire, Goes, Ends
  <2> QED
    BY <1>1, <1>3, <2>1, Zenon DEF TypeOK
<1>9. ASSUME NEW c \in Requests, (\E w : abandon(c, w)) \/ cancelled(c) \/ call_failed(c)
      PROVE  FALSE
  <2>1. /\ pc[c] # "lookup" /\ answer' = [answer EXCEPT ![c] = "refused"]
        /\ signal' = signal \/ \E what \in {"retry", "unresolved"} : Tell(c, what)
    BY <1>9, Zenon DEF abandon, cancelled, call_failed, DropPermit, Ends
  <2>2. \A x \in Requests : signal'[x] = signal[x] \/ signal'[x] \in {"retry", "unresolved"}
    BY <2>1, Zenon DEF Tell
  <2>3. \A x \in Requests \ {c} : answer'[x] = answer[x]
    BY <1>1, <2>1, Zenon DEF TypeOK
  <2> QED
    BY <1>1, <1>3, <2>1, <2>2, <2>3, Zenon
<1>10. ASSUME NEW c \in Requests, NEW w, finish(c, w)
       PROVE  Told(d)
  <2>1. /\ pc[c] = "finishing" /\ effect' = effect
        /\ \E told : answer' = [answer EXCEPT ![c] = told]
        /\ signal' = signal \/ \E what \in {"retry", "unresolved", result[c]} : Tell(c, what)
    BY <1>10, Zenon DEF finish, Ends
  <2>2. \A x \in Requests \ {c} : answer'[x] = answer[x]
    BY <1>1, <2>1, Zenon DEF TypeOK
  <2>3. signal'[d] # signal[d] /\ signal'[d] \in Outcomes
    BY <1>3, <2>1, <2>2, Zenon
  <2>4. /\ pc[d] = "waiting" /\ signal[d] = "pending" /\ KeyOf[d] = KeyOf[c]
        /\ signal'[d] = result[c]
    BY <1>1, <2>1, <2>3, Zenon DEF Tell
  <2>5. effect[KeyOf[c]] = [by |-> c, what |-> result[c]] /\ entries[KeyOf[c]] = ReservedFor(c)
    BY <2>1, Zenon DEF IdempotencyInv, MemoryInv, RequestInv, Holds, Holding
  <2>6. Body[d] = Body[entries[KeyOf[c]].by] /\ ReservedFor(c).by = c
    BY <1>1, <2>4, Constructors, Zenon DEF RequestInv
  <2> QED
    BY <2>4, <2>5, <2>6 DEF Told
<1> QED
  BY <1>4, <1>5, <1>6, <1>7, <1>8, <1>9, <1>10, Zenon DEF Next, Reserve, Operate, Process

\* A stored outcome that a request is handed is that of the latest operation for its key,
\* and that operation had its payload.
THEOREM ReplaysAreTrue == Spec => ReplayIsTrue
<1>1. IdempotencyInv /\ [Next]_vars => [\A c \in Requests : Told(c)]_vars
  BY TellsTheTruth, Zenon
<1> QED
  BY <1>1, IdempotencyInvariant, PTL DEF Spec, ReplayIsTrue, Told

-----------------------------------------------------------------------------
(* Capacity.                                                                 *)

\* A table with no more keys than one that fits also fits.
LEMMA FewerFit ==
    ASSUME NEW table, NEW less, Fits(table), Present(less) \subseteq Present(table)
    PROVE  Fits(less)
<1>1. ASSUME NEW S, NEW T, S \subseteq T, T \subseteq Keys
      PROVE  Cardinality(S) \in Nat /\ Cardinality(T) \in Nat /\ Cardinality(S) <= Cardinality(T)
  <2>1. IsFiniteSet(T)
    BY <1>1, FS_Subset, IdempotencyAssumption, Zenon
  <2>2. IsFiniteSet(S) /\ Cardinality(S) <= Cardinality(T)
    BY <1>1, <2>1, FS_Subset, Zenon
  <2> QED
    BY <2>1, <2>2, FS_CardinalityType, Zenon
<1>2. Present(table) \subseteq Keys
  BY Zenon DEF Present
<1>3. Cardinality(Present(less)) <= Global
  <2>1. /\ Cardinality(Present(less)) \in Nat /\ Cardinality(Present(table)) \in Nat
        /\ Cardinality(Present(less)) <= Cardinality(Present(table))
    BY <1>1, <1>2, Zenon
  <2> QED
    BY <2>1, IdempotencyAssumption DEF Fits
<1>4. ASSUME NEW k \in Keys
      PROVE  Cardinality(OfPrincipal(Present(less), PrincipalOf[k])) <= PerPrincipal
  <2> DEFINE S == OfPrincipal(Present(less), PrincipalOf[k])
             T == OfPrincipal(Present(table), PrincipalOf[k])
  <2>1. S \subseteq T /\ T \subseteq Keys
    BY <1>2, Zenon DEF OfPrincipal
  <2>2. Cardinality(T) <= PerPrincipal
    BY Zenon DEF Fits
  <2> HIDE DEF S, T
  <2>3. Cardinality(S) \in Nat /\ Cardinality(T) \in Nat /\ Cardinality(S) <= Cardinality(T)
    BY <1>1, <2>1, Zenon
  <2>4. Cardinality(S) <= PerPrincipal
    BY <2>2, <2>3, IdempotencyAssumption
  <2> QED
    BY <2>4, Zenon DEF S
<1> QED
  BY <1>3, <1>4, Zenon DEF Fits

\* A key for which there is room still fits.
LEMMA OneMoreFits ==
    ASSUME NEW room, NEW k \in Keys, Fits(room), HasRoom(room, k),
           NEW table, Present(table) \subseteq Present(room) \cup {k}
    PROVE  Fits(table)
<1>1. ASSUME NEW S, S \subseteq Keys, NEW T, T \subseteq S \cup {k}, NEW n \in Nat, Cardinality(S) < n
      PROVE  Cardinality(T) <= n
  <2>1. IsFiniteSet(S)
    BY <1>1, FS_Subset, IdempotencyAssumption, Zenon
  <2>2. /\ IsFiniteSet(S \cup {k}) /\ Cardinality(S) \in Nat
        /\ Cardinality(S \cup {k}) = Cardinality(S) \/ Cardinality(S \cup {k}) = Cardinality(S) + 1
    BY <2>1, FS_AddElement, FS_CardinalityType, Zenon
  <2>3. IsFiniteSet(T) /\ Cardinality(T) <= Cardinality(S \cup {k})
    BY <1>1, <2>2, FS_Subset, Zenon
  <2>4. Cardinality(T) \in Nat
    BY <2>3, FS_CardinalityType, Zenon
  <2> QED
    BY <1>1, <2>2, <2>3, <2>4
<1>2. Present(room) \subseteq Keys
  BY Zenon DEF Present
<1>3. Cardinality(Present(table)) <= Global
  BY <1>1, <1>2, IdempotencyAssumption, Zenon DEF HasRoom
<1>4. ASSUME NEW q \in Keys
      PROVE  Cardinality(OfPrincipal(Present(table), PrincipalOf[q])) <= PerPrincipal
  <2> DEFINE S == OfPrincipal(Present(room), PrincipalOf[q])
             T == OfPrincipal(Present(table), PrincipalOf[q])
  <2>1. S \subseteq Keys
    BY <1>2, Zenon DEF OfPrincipal
  <2>2. CASE PrincipalOf[q] = PrincipalOf[k]
    <3>1. T \subseteq S \cup {k} /\ Cardinality(S) < PerPrincipal
      BY <2>2, Zenon DEF OfPrincipal, HasRoom
    <3> QED
      BY <1>1, <2>1, <3>1, IdempotencyAssumption, Zenon
  <2>3. CASE PrincipalOf[q] # PrincipalOf[k]
    <3>1. T \subseteq S
      BY <2>3, Zenon DEF OfPrincipal
    <3>2. Cardinality(S) <= PerPrincipal
      BY Zenon DEF Fits
    <3> HIDE DEF S, T
    <3>3. IsFiniteSet(S)
      BY <2>1, FS_Subset, IdempotencyAssumption, Zenon
    <3>4. IsFiniteSet(T) /\ Cardinality(T) <= Cardinality(S)
      BY <3>1, <3>3, FS_Subset, Zenon
    <3>5. Cardinality(S) \in Nat /\ Cardinality(T) \in Nat
      BY <3>3, <3>4, FS_CardinalityType, Zenon
    <3>6. Cardinality(T) <= PerPrincipal
      BY <3>2, <3>4, <3>5, IdempotencyAssumption
    <3> QED
      BY <3>6, Zenon DEF T
  <2> QED
    BY <2>2, <2>3, Zenon
<1> QED
  BY <1>3, <1>4, Zenon DEF Fits

\* A write leaves no more keys in a readable file than the table or the file had.
LEMMA PersistFits ==
    ASSUME TypeOK, NEW table \in [Keys -> Entry], NEW changed \in SUBSET Keys,
           NEW w \in Writes \cup WriteFaults, persist_locked(table, changed, w),
           ~ledger.torn, Fits(ledger.disk), Fits(table),
           Durable /\ ~blocked =>
                /\ \A q \in changed : table[q] = NoEntry => ledger.disk[q] # NoEntry
                /\ \A q \in Keys \ changed : table[q] = NoEntry => ledger.disk[q] = NoEntry
    PROVE  ~ledger'.torn => Fits(ledger'.disk)
<1>1. CASE Durable /\ ~blocked
  <2>1. ledger'.torn \/ ledger'.disk = ledger.disk \/ Updated(table, changed)
    BY <1>1, PersistDisk, Zenon
  <2>2. CASE Updated(table, changed)
    <3>1. Present(ledger'.disk) \subseteq Present(table)
      BY <1>1, <2>2, Zenon DEF Updated, Present
    <3> QED
      BY <3>1, FewerFit, Zenon
  <2> QED
    BY <2>1, <2>2, Zenon
<1>2. CASE ~(Durable /\ ~blocked)
  BY <1>2, Zenon DEF persist_locked
<1> QED
  BY <1>1, <1>2, Zenon

\* Replacing the entry of a request that ends, in memory and in the file, adds no key.
LEMMA ReleaseFits ==
    ASSUME IdempotencyInv, CapacityInv, NEW c \in Requests, up, pc[c] \in Holding,
           NEW x \in Entry, NEW w \in Writes \cup WriteFaults,
           persist_locked([entries EXCEPT ![KeyOf[c]] = x], dirty \cup {KeyOf[c]}, w)
    PROVE  ~ledger'.torn => Fits(ledger'.disk)
<1> DEFINE k == KeyOf[c]
           table == [entries EXCEPT ![k] = x]
<1>1. TypeOK /\ LedgerInv /\ k \in Keys
  BY IdempotencyAssumption, Zenon DEF IdempotencyInv
<1>2. entries[k] # NoEntry
  <2>1. entries[k] = ReservedFor(c)
    BY Zenon DEF IdempotencyInv, MemoryInv, RequestInv, Holds
  <2>2. ReservedFor(c) # NoEntry
    BY Constructors, Zenon
  <2> QED
    BY <2>1, <2>2, Zenon
<1>3. /\ table \in [Keys -> Entry] /\ dirty \cup {k} \in SUBSET Keys
      /\ \A q \in Keys \ {k} : table[q] = entries[q]
  BY <1>1, Zenon DEF TypeOK
<1>4. Present(table) \subseteq Present(entries)
  BY <1>1, <1>2, <1>3, Zenon DEF Present
<1>5. Fits(table)
  BY <1>4, FewerFit, Zenon DEF CapacityInv
<1>6. Durable /\ ~blocked =>
        /\ \A q \in dirty \cup {k} : table[q] = NoEntry => ledger.disk[q] # NoEntry
        /\ \A q \in Keys \ (dirty \cup {k}) : table[q] = NoEntry => ledger.disk[q] = NoEntry
  <2> HIDE DEF table
  <2> QED
    BY <1>1, <1>2, <1>3, Zenon DEF LedgerInv, LiveInv
<1>7. CASE ledger.torn
  <2>1. blocked
    BY <1>1, <1>7, Zenon DEF LedgerInv
  <2> QED
    BY <1>7, <2>1, Zenon DEF persist_locked
<1>8. CASE ~ledger.torn
  <2>1. Fits(ledger.disk) /\ persist_locked(table, dirty \cup {k}, w)
    BY <1>8, Zenon DEF CapacityInv
  <2> HIDE DEF table
  <2> QED
    BY <1>1, <1>3, <1>5, <1>6, <1>8, <2>1, PersistFits, Zenon
<1> QED
  BY <1>7, <1>8, Zenon

\* acquire keeps memory and file within the capacities.
LEMMA AcquireFits ==
    ASSUME IdempotencyInv, CapacityInv, NEW c \in Requests, NEW w \in Writes \cup WriteFaults,
           acquire(c, w)
    PROVE  CapacityInv'
<1> DEFINE k == KeyOf[c]
           gone == Expired(entries, now[c])
           fresh == Without(entries, gone)
<1>1. TypeOK /\ LedgerInv /\ k \in Keys /\ up /\ ~blocked
  BY IdempotencyAssumption, Zenon DEF IdempotencyInv, acquire
<1>2. PICK evicted \in Rooms(fresh, k) :
        LET room == Without(fresh, evicted)
            removed == dirty \cup gone \cup evicted
        IN  IF HasRoom(room, k)
            THEN /\ persist_locked([room EXCEPT ![k] = ReservedFor(c)], removed \cup {k}, w)
                 /\ \/ entries' = [room EXCEPT ![k] = ReservedFor(c)]
                    \/ entries' = [room EXCEPT ![k] = UnresolvedFor(c)]
            ELSE entries' = room /\ UNCHANGED ledger
  BY Zenon DEF acquire
<1> DEFINE room == Without(fresh, evicted)
           removed == dirty \cup gone \cup evicted
           table == [room EXCEPT ![k] = ReservedFor(c)]
<1>3. /\ room \in [Keys -> Entry] /\ gone \subseteq Keys /\ evicted \subseteq Keys
      /\ \A q \in Keys : IF q \in gone \cup evicted
                         THEN /\ room[q] = NoEntry /\ entries[q].state = "Retained"
                              /\ effect[q].what = "completed"
                         ELSE room[q] = entries[q]
  BY RoomFacts
<1>4. \/ /\ HasRoom(room, k) /\ persist_locked(table, removed \cup {k}, w)
         /\ entries' = table \/ entries' = [room EXCEPT ![k] = UnresolvedFor(c)]
      \/ entries' = room /\ ledger' = ledger
  BY <1>2, Zenon
<1> HIDE DEF k, gone, fresh, room, removed
<1>5. NoEntry.state = "None" /\ ReservedFor(c) \in Entry /\ ReservedFor(c) # NoEntry
  BY Constructors, Zenon
<1>6. Present(room) \subseteq Present(entries)
  BY <1>3, <1>5, Zenon DEF Present
<1>7. Fits(room)
  BY <1>6, FewerFit, Zenon DEF CapacityInv
<1>8. CASE entries' = room /\ ledger' = ledger
  BY <1>7, <1>8, Zenon DEF CapacityInv, Fits
<1>9. CASE /\ HasRoom(room, k) /\ persist_locked(table, removed \cup {k}, w)
           /\ entries' = table \/ entries' = [room EXCEPT ![k] = UnresolvedFor(c)]
  <2>1. Present(table) \subseteq Present(room) \cup {k} /\ Present(entries') \subseteq Present(room) \cup {k}
    BY <1>1, <1>3, <1>9, Zenon DEF Present
  <2>2. /\ table \in [Keys -> Entry] /\ removed \cup {k} \in SUBSET Keys
        /\ table[k] # NoEntry /\ \A q \in Keys \ {k} : table[q] = room[q]
    BY <1>1, <1>3, <1>5, Zenon DEF TypeOK, removed
  <2> HIDE DEF table
  <2>3. Fits(table) /\ Fits(entries')
    BY <1>1, <1>7, <1>9, <2>1, OneMoreFits, Zenon
  <2>4. ~ledger.torn /\ Fits(ledger.disk)
    BY <1>1, Zenon DEF LedgerInv, CapacityInv
  <2>5. Durable => \A q \in Keys : ledger.disk[q] # NoEntry <=> entries[q] # NoEntry \/ q \in dirty
    BY <1>1, Zenon DEF LedgerInv, LiveInv
  <2>6. Durable =>
          /\ \A q \in removed \cup {k} : table[q] = NoEntry => ledger.disk[q] # NoEntry
          /\ \A q \in Keys \ (removed \cup {k}) : table[q] = NoEntry => ledger.disk[q] = NoEntry
    BY <1>3, <1>5, <2>2, <2>5, Zenon DEF removed
  <2>7. ~ledger'.torn => Fits(ledger'.disk)
    BY <1>1, <1>9, <2>2, <2>3, <2>4, <2>6, PersistFits, Zenon
  <2> QED
    BY <2>3, <2>7, Zenon DEF CapacityInv, Fits
<1> QED
  BY <1>4, <1>8, <1>9, Zenon

\* open takes no more keys into memory than the file holds.
LEMMA OpenFits ==
    ASSUME IdempotencyInv, CapacityInv, NEW w \in Writes \cup WriteFaults, open(w)
    PROVE  CapacityInv'
<1>1. TypeOK /\ LedgerInv /\ ~blocked
  BY Zenon DEF IdempotencyInv, MemoryInv, DownInv, open
<1>2. CASE ledger.torn
  <2>1. entries' = Empty /\ ledger' = ledger
    BY <1>2, Zenon DEF open
  <2>2. Present(Empty) \subseteq Present(entries)
    BY Zenon DEF Present, Empty
  <2>3. Fits(Empty)
    BY <2>2, FewerFit, Zenon DEF CapacityInv
  <2> QED
    BY <1>2, <2>1, <2>3, Zenon DEF CapacityInv, Fits
<1>3. CASE ~ledger.torn
  <2> DEFINE gone == Expired(ledger.disk, clock)
             Table(missing) == Without([k \in Keys |-> Restored(ledger.disk[k], k \in missing)], gone)
             Protect(missing) == {k \in missing \ gone : ledger.disk[k].expires # Never}
  <2>1. PICK missing \in SUBSET {k \in Keys : Forgets /\ ledger.disk[k].state = "Retained"} :
          /\ entries' = Table(missing)
          /\ IF Protect(missing) # {} THEN persist_locked(Table(missing), gone \cup Protect(missing), w)
             ELSE ledger' = ledger
    BY <1>3, Zenon DEF open
  <2> DEFINE table == Table(missing)
             protect == Protect(missing)
  <2>2. gone \cup protect \in SUBSET Keys
    BY Zenon DEF Expired
  <2>3. ASSUME NEW q \in Keys
        PROVE  /\ table \in [Keys -> Entry]
               /\ q \in gone => table[q] = NoEntry /\ ledger.disk[q] # NoEntry
               /\ q \notin gone => (table[q] = NoEntry <=> ledger.disk[q] = NoEntry)
    BY <1>3, RestoredFacts, Zenon
  <2>4. table \in [Keys -> Entry]
    <3>1. CASE Keys = {}
      BY <3>1, Zenon DEF Without
    <3>2. CASE Keys # {}
      BY <2>3, <3>2, Zenon
    <3> QED
      BY <3>1, <3>2, Zenon
  <2>5. \A q \in protect : ledger.disk[q] # NoEntry
    BY Constructors, Zenon
  <2>6. entries' = table /\ (persist_locked(table, gone \cup protect, w) \/ ledger' = ledger)
    BY <2>1, Zenon
  <2> HIDE DEF gone, table, protect, Table, Protect
  <2>7. Present(table) \subseteq Present(ledger.disk)
    BY <2>3, Zenon DEF Present
  <2>8. Fits(ledger.disk) /\ Fits(table)
    BY <1>3, <2>7, FewerFit, Zenon DEF CapacityInv
  <2>9. ~ledger'.torn => Fits(ledger'.disk)
    <3>1. CASE persist_locked(table, gone \cup protect, w)
      <4>1. /\ \A q \in gone \cup protect : table[q] = NoEntry => ledger.disk[q] # NoEntry
            /\ \A q \in Keys \ (gone \cup protect) : table[q] = NoEntry => ledger.disk[q] = NoEntry
        BY <2>2, <2>3, <2>5, Zenon
      <4> QED
        BY <1>1, <1>3, <2>2, <2>4, <2>8, <3>1, <4>1, PersistFits, Zenon
    <3>2. CASE ledger' = ledger
      BY <2>8, <3>2, Zenon
    <3> QED
      BY <2>6, <3>1, <3>2, Zenon
  <2> QED
    BY <2>6, <2>8, <2>9, Zenon DEF CapacityInv, Fits
<1> QED
  BY <1>2, <1>3, Zenon

\* Every step keeps memory and a readable file within the capacities.
LEMMA NextFits ==
    ASSUME IdempotencyInv, CapacityInv, [Next]_vars
    PROVE  CapacityInv'
<1>1. TypeOK /\ MemoryInv
  BY Zenon DEF IdempotencyInv
<1>2. ASSUME Present(entries') \subseteq Present(entries), ~ledger'.torn => Fits(ledger'.disk)
      PROVE  CapacityInv'
  <2>1. Fits(entries')
    BY <1>2, FewerFit, Zenon DEF CapacityInv
  <2> QED
    BY <1>2, <2>1, Zenon DEF CapacityInv, Fits
<1>3. ASSUME NEW c \in Requests, pc[c] \in Holding, NEW x,
             entries' = entries \/ entries' = [entries EXCEPT ![KeyOf[c]] = x]
      PROVE  Present(entries') \subseteq Present(entries)
  <2>1. entries[KeyOf[c]] = ReservedFor(c) /\ entries \in [Keys -> Entry]
    BY <1>1, <1>3, Zenon DEF MemoryInv, RequestInv, Holds, TypeOK
  <2>2. ReservedFor(c) # NoEntry
    BY Constructors, Zenon
  <2> QED
    BY <1>3, <2>1, <2>2, Zenon DEF Present
<1>4. CASE entries' = entries /\ ledger' = ledger
  BY <1>2, <1>4, Zenon DEF CapacityInv
<1>5. ASSUME NEW c \in Requests, lookup(c) \/ acquire_taken(c)
      PROVE  CapacityInv'
  <2>1. entries' = Without(entries, Expired(entries, now[c])) /\ ledger' = ledger
    BY <1>5, Zenon DEF lookup, acquire_taken
  <2>2. Present(entries') \subseteq Present(entries)
    BY <2>1, Zenon DEF Present, Without
  <2> QED
    BY <1>2, <2>1, <2>2, Zenon DEF CapacityInv
<1>6. ASSUME NEW c \in Requests, NEW w \in Writes \cup WriteFaults \cup {"rejected"}, finish(c, w)
      PROVE  CapacityInv'
  <2>1. up /\ pc[c] = "finishing" /\ pc[c] \in Holding
    BY <1>6, Zenon DEF finish, Holding
  <2>2. Finished(c) \in Entry
    BY <2>1, FinishedFacts, Zenon
  <2>3. /\ \E x : entries' = entries \/ entries' = [entries EXCEPT ![KeyOf[c]] = x]
        /\ \/ ledger' = ledger
           \/ /\ w \in Writes \cup WriteFaults
              /\ persist_locked([entries EXCEPT ![KeyOf[c]] = Finished(c)], dirty \cup {KeyOf[c]}, w)
    BY <1>6, Zenon DEF finish
  <2>4. ~ledger'.torn => Fits(ledger'.disk)
    BY <2>1, <2>2, <2>3, ReleaseFits, Zenon DEF CapacityInv
  <2> QED
    BY <1>2, <1>3, <2>1, <2>3, <2>4, Zenon
<1>7. ASSUME NEW c \in Requests, NEW w \in Writes \cup WriteFaults, abandon(c, w)
      PROVE  CapacityInv'
  <2>1. /\ up /\ pc[c] \in Holding
        /\ \E x : entries' = [entries EXCEPT ![KeyOf[c]] = x]
        /\ persist_locked([entries EXCEPT ![KeyOf[c]] = NoEntry], dirty \cup {KeyOf[c]}, w)
    BY <1>7, Zenon DEF abandon, Holding
  <2>2. ~ledger'.torn => Fits(ledger'.disk)
    BY <2>1, ReleaseFits, Constructors, Zenon
  <2> QED
    BY <1>2, <1>3, <2>1, <2>2, Zenon
<1>8. ASSUME NEW c \in Requests, cancelled(c) \/ call_failed(c)
      PROVE  CapacityInv'
  <2>1. /\ pc[c] \in Holding /\ ledger' = ledger
        /\ \E x : entries' = entries \/ entries' = [entries EXCEPT ![KeyOf[c]] = x]
    BY <1>8, Zenon DEF cancelled, call_failed, DropPermit, Holding
  <2> QED
    BY <1>2, <1>3, <2>1, Zenon DEF CapacityInv
<1>9. ASSUME NEW torn \in BOOLEAN, crash(torn)
      PROVE  CapacityInv'
  <2>1. /\ entries' = Empty
        /\ ledger' = IF Durable THEN [ledger EXCEPT !.torn = @ \/ torn] ELSE ledger
    BY <1>9, Zenon DEF crash
  <2>2. ledger'.disk = ledger.disk /\ (ledger.torn => ledger'.torn)
    BY <1>1, <2>1, Zenon DEF TypeOK
  <2>3. Present(entries') \subseteq Present(entries)
    BY <2>1, Zenon DEF Present, Empty
  <2> QED
    BY <1>2, <2>2, <2>3, Zenon DEF CapacityInv
<1>10. ASSUME NEW c \in Requests,
              begin(c) \/ wake(c) \/ deadline(c) \/ acquire_refused(c) \/ dispatch(c) \/ complete(c)
       PROVE  entries' = entries /\ ledger' = ledger
  BY <1>10, Zenon DEF begin, wake, deadline, acquire_refused, dispatch, complete, store
<1>11. CASE tick \/ UNCHANGED vars
  BY <1>4, <1>11, Zenon DEF tick, vars, store
<1> QED
  BY <1>4, <1>5, <1>6, <1>7, <1>8, <1>9, <1>10, <1>11, AcquireFits, OpenFits, Zenon
     DEF Next, Reserve, Operate, Process

\* No sequence of reservations, evictions, failed writes and restarts takes the store over
\* its global or per-principal capacity.
THEOREM CapacityIsKept == Spec => []WithinCapacity
<1>1. Init => CapacityInv
  <2> SUFFICES ASSUME Init
               PROVE  CapacityInv
    BY Zenon
  <2>1. entries = Empty /\ ledger.disk = Empty
    BY Zenon DEF Init
  <2>2. Present(Empty) = {} /\ \A p : OfPrincipal({}, p) = {}
    BY Zenon DEF Present, Empty, OfPrincipal
  <2>3. Cardinality({}) = 0
    BY FS_EmptySet, Zenon
  <2>4. Fits(Empty)
    BY <2>2, <2>3, IdempotencyAssumption DEF Fits
  <2> QED
    BY <2>1, <2>4, Zenon DEF CapacityInv
<1>2. IdempotencyInv /\ CapacityInv /\ [Next]_vars => CapacityInv'
  BY NextFits, Zenon
<1>3. CapacityInv => WithinCapacity
  BY Zenon DEF CapacityInv, Fits, WithinCapacity
<1> QED
  BY <1>1, <1>2, <1>3, IdempotencyInvariant, PTL DEF Spec
=============================================================================
