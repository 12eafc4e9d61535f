-------------------------- MODULE IdempotencyStore --------------------------
(***************************************************************************)
(* The idempotency store (crates/interface-core/src/idempotency.rs and       *)
(* idempotency/durable.rs) with the requests that use it as                  *)
(* AuthenticatedRuntime (crates/sdk-core/src/interface.rs) and the job route *)
(* (crates/broker/src/routes.rs) do: reserve a key, run the operation, finish*)
(* or give the permit back.                                                  *)
(*                                                                           *)
(* Reserving, finishing and abandoning run in spawned tasks that hold the    *)
(* state lock over their write, so each is one action; between the look-up   *)
(* and the acquisition of a key the lock is free.  A permit's generation is  *)
(* the request it was given to.  A key stands for a principal and a key.     *)
(***************************************************************************)
EXTENDS Naturals, FiniteSets

CONSTANTS
    Requests,       \* calls of clients; a client may make one again once it ended
    Keys,           \* pairs of a principal and an idempotency key
    KeyOf,          \* Requests -> Keys
    Body,           \* Requests -> operation and payload digest
    PrincipalOf,    \* Keys -> principals
    Outcomes,       \* the kinds of outcome the stored type has
    ByValue,        \* sessions, checkpoints, jobs: the ledger holds the outcome, not the id of a
                    \* command, and the operation can return an error instead of an outcome
    Forgets,        \* the operation's own store can lose an outcome (torn journal, pruned job)
    Durable,        \* the store has a ledger on disk
    PerPrincipal,   \* per_principal_capacity
    Global,         \* global_capacity
    Ttl,            \* ttl, in ticks of the clock
    MaxClock,       \* bound on the clock
    MaxFailures,    \* bound on failed writes
    MaxCrashes      \* bound on process deaths

(* Kinds of outcome: "completed" is retained for ttl, "final" (a failure that *)
(* is not retryable) and "uncertain" (NeedsReconciliation) are retained for   *)
(* good, "released" (a retryable failure) frees the key.                      *)
OutcomeKinds == {"completed", "final", "uncertain", "released"}

ASSUME IdempotencyAssumption ==
    /\ IsFiniteSet(Keys)
    /\ KeyOf \in [Requests -> Keys]
    /\ Outcomes \subseteq OutcomeKinds
    /\ ByValue \in BOOLEAN /\ Forgets \in BOOLEAN /\ Durable \in BOOLEAN
    /\ PerPrincipal \in Nat /\ Global \in Nat
    /\ Ttl \in Nat /\ MaxClock \in Nat /\ MaxFailures \in Nat /\ MaxCrashes \in Nat

VARIABLES
    up,         \* a process has the store open
    entries,    \* StoreState::entries
    dirty,      \* keys whose entry changed since the last write
    blocked,    \* integrity_issue(): found at open, or a write failed
    ledger,     \* the ledger file: the entries it holds, whether a log, whether torn
    clock,      \* wall clock
    pc,         \* where each request is
    now,        \* the time each request reads the entries with
    signal,     \* what the watch channel a request waits on carries
    result,     \* how the operation of a request ended
    failures,   \* failed writes so far
    crashes     \* process deaths so far

\* History: what operations did and what callers were told.
VARIABLES
    effect,     \* the latest operation run for each key: of which request, how it ended
    lapsed,     \* how the retained outcome of each key was dropped, if it was
    answer      \* what each request was answered

store == <<up, entries, dirty, blocked, ledger>>
vars == <<store, clock, pc, now, signal, result, failures, crashes, effect, lapsed, answer>>

NoRequest == "none"

\* No expiry: a time after every other.
Never == MaxClock + Ttl + 1

NoEntry == [state |-> "None", by |-> NoRequest, outcome |-> "none", expires |-> Never]

ReservedFor(c) == [NoEntry EXCEPT !.state = "Reserved", !.by = c]

UnresolvedFor(c) == [NoEntry EXCEPT !.state = "Unresolved", !.by = c]

RetainedFor(c, outcome, expires) ==
    [state |-> "Retained", by |-> c, outcome |-> outcome, expires |-> expires]

Empty == [k \in Keys |-> NoEntry]

Times == 0..Never

Entry == {NoEntry}
         \cup {ReservedFor(c) : c \in Requests} \cup {UnresolvedFor(c) : c \in Requests}
         \cup {RetainedFor(c, o, t) : c \in Requests, o \in Outcomes, t \in Times}

Steps == {"idle", "lookup", "waiting", "acquire", "permitted", "running", "finishing"}

\* A request that holds a permit.
Holding == {"permitted", "running", "finishing"}

Writable == up /\ ~blocked

Init ==
    /\ up = TRUE
    /\ entries = Empty
    /\ dirty = {}
    /\ blocked = FALSE
    /\ ledger = [disk |-> Empty, log |-> FALSE, torn |-> FALSE]
    /\ clock = 0
    /\ pc = [c \in Requests |-> "idle"]
    /\ now = [c \in Requests |-> 0]
    /\ signal = [c \in Requests |-> "pending"]
    /\ result = [c \in Requests |-> "none"]
    /\ failures = 0
    /\ crashes = 0
    /\ effect = [k \in Keys |-> [by |-> NoRequest, what |-> "none"]]
    /\ lapsed = [k \in Keys |-> "no"]
    /\ answer = [c \in Requests |-> "none"]

-----------------------------------------------------------------------------
(* Expiry and eviction.                                                      *)

safety_relevant(outcome) == outcome \in {"final", "uncertain"}

releases_reservation(outcome) == outcome = "released"

\* cleanup_expired drops these.
Expired(table, time) == {k \in Keys : table[k].expires <= time}

entry_is_evictable(e) == e.state = "Retained" /\ ~safety_relevant(e.outcome)

Present(table) == {k \in Keys : table[k] # NoEntry}

OfPrincipal(ks, p) == {k \in ks : PrincipalOf[k] = p}

\* The sets of evictable entries that make room for one more: as many as exceed
\* the capacity, or all there are.  The code takes the least recently used.
Evictions(ks, table, capacity) ==
    LET old == {k \in ks : entry_is_evictable(table[k])}
        size == Cardinality(ks)
    IN  {gone \in SUBSET old :
            IF size + 1 <= capacity THEN gone = {}
            ELSE IF size + 1 - capacity <= Cardinality(old)
                 THEN Cardinality(gone) = size + 1 - capacity
                 ELSE gone = old}

Without(table, gone) == [k \in Keys |-> IF k \in gone THEN NoEntry ELSE table[k]]

\* make_principal_room, then make_global_room.
Rooms(table, key) ==
    LET mine == OfPrincipal(Present(table), PrincipalOf[key])
    IN  UNION {{gone \cup more : more \in Evictions(Present(table) \ gone, table, Global)} :
                gone \in Evictions(mine, table, PerPrincipal)}

HasRoom_off_by_one(table, key) ==
    /\ Cardinality(OfPrincipal(Present(table), PrincipalOf[key])) <= PerPrincipal
    /\ Cardinality(Present(table)) <= Global

HasRoom(table, key) ==
    /\ Cardinality(OfPrincipal(Present(table), PrincipalOf[key])) < PerPrincipal
    /\ Cardinality(Present(table)) < Global

\* History: the keys in ks lose their retained outcome.
Lapses(ks, how) == [k \in Keys |-> IF k \in ks THEN how ELSE lapsed[k]]

-----------------------------------------------------------------------------
(* The ledger.                                                               *)

\* How a write ends.  "append" adds a record of the changed entries and
\* "checkpoint" replaces the file by one of all entries.  The others fail: before
\* anything was written ("lost"), in the middle of a record ("partial"), or after
\* the record ("unsynced") or the new file ("unpublished") was in place.
Writes == {"append", "checkpoint"}

WriteFaults == {"lost", "partial", "unsynced", "unpublished"}

\* As Image, but the removals are left out of a record.
Image_without_removals(table, changed, w) ==
    CASE w \in {"append", "unsynced"} ->
            [ledger EXCEPT !.disk = [k \in Keys |-> IF k \in changed /\ table[k] # NoEntry
                                                   THEN table[k] ELSE @[k]]]
      [] w \in {"checkpoint", "unpublished"} -> [disk |-> table, log |-> TRUE, torn |-> FALSE]
      [] w = "partial" -> [ledger EXCEPT !.torn = TRUE]
      [] w = "lost" -> ledger

\* The reader refuses a record that removes a key it does not know, and with it the
\* file.
RemovesUnknown(table, changed) ==
    \E k \in changed : table[k] = NoEntry /\ ledger.disk[k] = NoEntry

\* What the file then holds.
Image(table, changed, w) ==
    CASE w \in {"append", "unsynced"} ->
            [ledger EXCEPT
                !.disk = [k \in Keys |-> IF k \in changed THEN table[k] ELSE @[k]],
                !.torn = RemovesUnknown(table, changed)]
      [] w \in {"checkpoint", "unpublished"} -> [disk |-> table, log |-> TRUE, torn |-> FALSE]
      [] w = "partial" -> [ledger EXCEPT !.torn = TRUE]
      [] w = "lost" -> ledger

\* persist_locked returns Ok.
Written(w) == ~blocked /\ (Durable => w \in Writes)

\* As persist_locked, but the changes stay marked after they were written.
persist_locked_keeps_dirty(table, changed, w) ==
    IF blocked \/ ~Durable
    THEN dirty' = changed /\ UNCHANGED <<ledger, blocked, failures>>
    ELSE /\ w \in {"append", "partial", "unsynced"} => ledger.log
         /\ w \in WriteFaults => failures < MaxFailures
         /\ failures' = IF w \in WriteFaults THEN failures + 1 ELSE failures
         /\ blocked' = (w \in WriteFaults)
         /\ ledger' = Image(table, changed, w)
         /\ dirty' = changed

\* persist_locked: nothing is written once a write has failed, which a failed write
\* sees to until the store is opened again.  Only a log is appended to.
persist_locked(table, changed, w) ==
    IF blocked \/ ~Durable
    THEN /\ dirty' = (IF blocked THEN changed ELSE {})
         /\ UNCHANGED <<ledger, blocked, failures>>
    ELSE /\ w \in {"append", "partial", "unsynced"} => ledger.log
         /\ w \in WriteFaults => failures < MaxFailures
         /\ failures' = IF w \in WriteFaults THEN failures + 1 ELSE failures
         /\ blocked' = (w \in WriteFaults)
         /\ ledger' = Image(table, changed, w)
         /\ dirty' = IF w \in Writes THEN {} ELSE changed

-----------------------------------------------------------------------------
(* reserve.                                                                  *)

Ends(c, told) == pc' = [pc EXCEPT ![c] = "idle"] /\ answer' = [answer EXCEPT ![c] = told]

Goes(c, step) == pc' = [pc EXCEPT ![c] = step] /\ UNCHANGED answer

\* A request arrives: ensure_writable, and the clock is read.
begin(c) ==
    /\ up /\ pc[c] = "idle"
    /\ pc' = [pc EXCEPT ![c] = IF blocked THEN "idle" ELSE "lookup"]
    /\ answer' = [answer EXCEPT ![c] = IF blocked THEN "refused" ELSE "none"]
    /\ now' = [now EXCEPT ![c] = clock]
    /\ result' = [result EXCEPT ![c] = "none"]
    /\ UNCHANGED <<store, clock, signal, failures, crashes, effect, lapsed>>

SameBody_any(c, e) == e # NoEntry

\* The key was used for the same operation and payload.
SameBody(c, e) == e # NoEntry /\ Body[c] = Body[e.by]

\* Under the lock: drop what expired, then decide by the entry.
lookup(c) ==
    LET gone == Expired(entries, now[c])
        table == Without(entries, gone)
        e == table[KeyOf[c]]
    IN  /\ up /\ pc[c] = "lookup"
        /\ entries' = table
        /\ lapsed' = Lapses(gone, "expired")
        /\ dirty' = dirty \cup gone \cup (IF SameBody(c, e) THEN {KeyOf[c]} ELSE {})
        /\ \/ e = NoEntry /\ Goes(c, "acquire") /\ UNCHANGED signal
           \/ /\ SameBody(c, e) /\ e.state = "Reserved"
              /\ Goes(c, "waiting") /\ UNCHANGED signal
           \/ SameBody(c, e) /\ e.state = "Retained" /\ Ends(c, e.outcome) /\ UNCHANGED signal
           \/ SameBody(c, e) /\ e.state = "Unresolved" /\ Ends(c, "refused") /\ UNCHANGED signal
           \/ e # NoEntry /\ ~SameBody(c, e) /\ Ends(c, "refused") /\ UNCHANGED signal
        /\ UNCHANGED <<up, blocked, ledger, clock, now, result, failures, crashes, effect>>

\* The watch channel changed: the outcome, an error, or another attempt.
wake(c) ==
    /\ up /\ pc[c] = "waiting" /\ signal[c] # "pending"
    /\ CASE signal[c] = "retry" -> Goes(c, "lookup") /\ now' = [now EXCEPT ![c] = clock]
         [] signal[c] = "unresolved" -> Ends(c, "refused") /\ UNCHANGED now
         [] OTHER -> Ends(c, signal[c]) /\ UNCHANGED now
    /\ signal' = [signal EXCEPT ![c] = "pending"]
    /\ UNCHANGED <<store, clock, result, failures, crashes, effect, lapsed>>

\* The caller's deadline passes while it waits.
deadline(c) ==
    /\ up /\ pc[c] = "waiting"
    /\ Ends(c, "refused")
    /\ signal' = [signal EXCEPT ![c] = "pending"]
    /\ UNCHANGED <<store, clock, now, result, failures, crashes, effect, lapsed>>

\* The spawned task that takes a key: it looks again, with the time of the look-up.
acquire_taken(c) ==
    LET gone == Expired(entries, now[c])
    IN  /\ up /\ pc[c] = "acquire"
        /\ ~blocked /\ Without(entries, gone)[KeyOf[c]] # NoEntry
        /\ entries' = Without(entries, gone)
        /\ dirty' = dirty \cup gone
        /\ lapsed' = Lapses(gone, "expired")
        /\ Goes(c, "lookup")
        /\ UNCHANGED <<up, blocked, ledger, clock, now, signal, result, failures, crashes, effect>>

acquire_refused(c) ==
    /\ up /\ pc[c] = "acquire" /\ blocked
    /\ Ends(c, "refused")
    /\ UNCHANGED <<store, clock, now, signal, result, failures, crashes, effect, lapsed>>

\* It makes room, inserts the reservation and writes it.
acquire(c, w) ==
    LET k == KeyOf[c]
        gone == Expired(entries, now[c])
        fresh == Without(entries, gone)
    IN  /\ up /\ pc[c] = "acquire"
        /\ ~blocked /\ fresh[k] = NoEntry
        /\ \E evicted \in Rooms(fresh, k) :
            LET room == Without(fresh, evicted)
                removed == dirty \cup gone \cup evicted
            IN  /\ lapsed' = [q \in Keys |-> IF q \in evicted THEN "evicted"
                                             ELSE IF q \in gone THEN "expired" ELSE lapsed[q]]
                /\ IF HasRoom(room, k)
                   THEN /\ persist_locked([room EXCEPT ![k] = ReservedFor(c)], removed \cup {k}, w)
                        /\ IF Written(w)
                           THEN entries' = [room EXCEPT ![k] = ReservedFor(c)] /\ Goes(c, "permitted")
                           ELSE entries' = [room EXCEPT ![k] = UnresolvedFor(c)] /\ Ends(c, "refused")
                   ELSE /\ entries' = room
                        /\ dirty' = removed
                        /\ Ends(c, "refused")
                        /\ UNCHANGED <<blocked, ledger, failures>>
        /\ UNCHANGED <<up, clock, now, signal, result, crashes, effect>>

-----------------------------------------------------------------------------
(* The operation and its permit.                                             *)

\* The entry is still the reservation the permit was given for.
Holds(c) == entries[KeyOf[c]] = ReservedFor(c)

Tell_outcomes_only(c, what) ==
    signal' = [d \in Requests |->
                IF pc[d] = "waiting" /\ signal[d] = "pending" /\ KeyOf[d] = KeyOf[c]
                   /\ what \notin {"retry", "unresolved"}
                THEN what ELSE signal[d]]

\* What the sender in the entry of c tells the requests that wait on it.
Tell(c, what) ==
    signal' = [d \in Requests |->
                IF pc[d] = "waiting" /\ signal[d] = "pending" /\ KeyOf[d] = KeyOf[c]
                THEN what ELSE signal[d]]

\* The request starts its operation.
dispatch(c) ==
    /\ up /\ pc[c] = "permitted"
    /\ Goes(c, "running")
    /\ effect' = [effect EXCEPT ![KeyOf[c]] = [by |-> c, what |-> "possible"]]
    /\ lapsed' = [lapsed EXCEPT ![KeyOf[c]] = "no"]
    /\ UNCHANGED <<store, clock, now, signal, result, failures, crashes>>

\* The operation ends with an outcome, which its own journal keeps.
complete(c) ==
    /\ up /\ pc[c] = "running"
    /\ \E outcome \in Outcomes :
        /\ result' = [result EXCEPT ![c] = outcome]
        /\ effect' = [effect EXCEPT ![KeyOf[c]].what = outcome]
    /\ Goes(c, "finishing")
    /\ UNCHANGED <<store, clock, now, signal, failures, crashes, lapsed>>

\* The entry after finish has recorded the outcome.
Finished(c) ==
    IF releases_reservation(result[c]) THEN NoEntry
    ELSE RetainedFor(c, result[c],
                     IF safety_relevant(result[c]) THEN Never ELSE clock + Ttl)

\* finish.  An outcome too large for the ledger ("rejected") is an error that does
\* not block the store.
finish(c, w) ==
    LET k == KeyOf[c]
        table == [entries EXCEPT ![k] = Finished(c)]
        told == IF releases_reservation(result[c]) THEN "retry" ELSE result[c]
    IN  /\ up /\ pc[c] = "finishing"
        /\ IF ~Holds(c)
           THEN Ends(c, "refused") /\ UNCHANGED <<entries, dirty, blocked, ledger, signal, failures>>
           ELSE /\ IF w = "rejected"
                   THEN /\ ByValue /\ Durable /\ ~blocked /\ ~releases_reservation(result[c])
                        /\ dirty' = dirty \cup {k}
                        /\ UNCHANGED <<ledger, blocked, failures>>
                   ELSE persist_locked(table, dirty \cup {k}, w)
                /\ IF w # "rejected" /\ Written(w)
                   THEN entries' = table /\ Tell(c, told) /\ Ends(c, result[c])
                   ELSE /\ entries' = [entries EXCEPT ![k] = UnresolvedFor(c)]
                        /\ Tell(c, "unresolved")
                        /\ Ends(c, "refused")
        /\ UNCHANGED <<up, clock, now, result, crashes, effect, lapsed>>

\* abandon: nothing ran (authorization was withdrawn, the queue was full, the
\* checkpoint could not be saved); waiting requests may try before the write ends.
abandon(c, w) ==
    LET k == KeyOf[c]
        table == [entries EXCEPT ![k] = NoEntry]
    IN  /\ up /\ pc[c] = "permitted" /\ Holds(c)
        /\ persist_locked(table, dirty \cup {k}, w)
        /\ entries' = IF Written(w) THEN table ELSE [entries EXCEPT ![k] = UnresolvedFor(c)]
        /\ Tell(c, "retry")
        /\ Ends(c, "refused")
        /\ UNCHANGED <<up, clock, now, result, crashes, effect, lapsed>>

\* As DropPermit, but the reservation stays.
DropPermit_wedges(c) ==
    /\ Ends(c, "refused")
    /\ UNCHANGED <<store, clock, now, signal, failures, crashes, effect, lapsed>>

\* Drop of an armed permit: with a ledger the key is unresolved, without one it is
\* free.  Nothing is written.
DropPermit(c) ==
    /\ entries' = IF ~Holds(c) THEN entries
                  ELSE [entries EXCEPT ![KeyOf[c]] = IF Durable THEN UnresolvedFor(c) ELSE NoEntry]
    /\ dirty' = dirty \cup (IF Holds(c) THEN {KeyOf[c]} ELSE {})
    /\ IF Holds(c) THEN Tell(c, IF Durable THEN "unresolved" ELSE "retry") ELSE UNCHANGED signal
    /\ Ends(c, "refused")
    /\ UNCHANGED <<up, blocked, ledger, clock, now, failures, crashes, effect, lapsed>>

\* The caller goes away and its future is dropped.
cancelled(c) ==
    /\ up /\ pc[c] \in {"permitted", "running"}
    /\ DropPermit(c)
    /\ UNCHANGED result

\* The operation returns an error; the caller drops the permit.
call_failed(c) ==
    /\ ByValue
    /\ up /\ pc[c] = "running"
    /\ DropPermit(c)
    /\ result' = [result EXCEPT ![c] = "error"]

-----------------------------------------------------------------------------
(* The process.                                                              *)

tick ==
    /\ clock < MaxClock
    /\ clock' = clock + 1
    /\ UNCHANGED <<store, pc, now, signal, result, failures, crashes, effect, lapsed, answer>>

\* A write is under way in some task.
Writing == Durable /\ ~blocked /\ ledger.log /\ \E c \in Requests : pc[c] \in {"acquire", "permitted", "finishing"}

\* The process dies, possibly within a write.
crash(torn) ==
    /\ up /\ crashes < MaxCrashes
    /\ torn => Writing
    /\ crashes' = crashes + 1
    /\ up' = FALSE /\ blocked' = FALSE /\ entries' = Empty /\ dirty' = {}
    /\ ledger' = IF Durable THEN [ledger EXCEPT !.torn = @ \/ torn] ELSE ledger
    /\ pc' = [c \in Requests |-> "idle"]
    /\ answer' = [c \in Requests |-> IF pc[c] = "idle" THEN answer[c] ELSE "refused"]
    /\ signal' = [c \in Requests |-> "pending"]
    /\ UNCHANGED <<clock, now, result, failures, effect, lapsed>>

Restored_frees(d, missing) ==
    CASE d.state \in {"Reserved", "None"} -> NoEntry
      [] d.state = "Unresolved" -> UnresolvedFor(d.by)
      [] d.state = "Retained" -> IF missing THEN UnresolvedFor(d.by) ELSE d

\* The entry that open_durable restores from d, if the operation's own store still
\* knows the outcome or does not (missing).
Restored(d, missing) ==
    CASE d.state \in {"Reserved", "Unresolved"} -> UnresolvedFor(d.by)
      [] d.state = "Retained" -> IF missing THEN UnresolvedFor(d.by) ELSE d
      [] d.state = "None" -> NoEntry

\* open_durable (or a new store in memory).  An unreadable ledger, or uncertainty
\* that cannot be written, blocks the store.
open(w) ==
    /\ ~up
    /\ up' = TRUE
    /\ IF ledger.torn
       THEN entries' = Empty /\ blocked' = TRUE /\ UNCHANGED <<dirty, ledger, failures, lapsed>>
       ELSE \E missing \in SUBSET {k \in Keys : Forgets /\ ledger.disk[k].state = "Retained"} :
             LET gone == Expired(ledger.disk, clock)
                 table == Without([k \in Keys |-> Restored(ledger.disk[k], k \in missing)], gone)
                 protect == {k \in missing \ gone : ledger.disk[k].expires # Never}
             IN  /\ entries' = table
                 /\ lapsed' = [k \in Keys |-> IF k \in gone THEN "expired"
                                              ELSE IF table[k] # NoEntry THEN "no" ELSE lapsed[k]]
                 /\ IF protect # {} THEN persist_locked(table, gone \cup protect, w)
                                    ELSE dirty' = gone /\ UNCHANGED <<ledger, blocked, failures>>
    /\ UNCHANGED <<clock, pc, now, signal, result, crashes, effect, answer>>

-----------------------------------------------------------------------------

Reserve(c) ==
    \/ begin(c) \/ lookup(c) \/ wake(c) \/ deadline(c)
    \/ acquire_taken(c) \/ acquire_refused(c)
    \/ \E w \in Writes \cup WriteFaults : acquire(c, w)

Operate(c) ==
    \/ dispatch(c) \/ complete(c)
    \/ \E w \in Writes \cup WriteFaults \cup {"rejected"} : finish(c, w)
    \/ \E w \in Writes \cup WriteFaults : abandon(c, w)
    \/ cancelled(c) \/ call_failed(c)

Process ==
    \/ tick
    \/ \E torn \in BOOLEAN : crash(torn)
    \/ \E w \in Writes \cup WriteFaults : open(w)

Next == (\E c \in Requests : Reserve(c) \/ Operate(c)) \/ Process

Spec == Init /\ [][Next]_vars

\* What tokio runs to its end: the look-up and the spawned tasks once they have
\* the lock, and the operation itself, which is bounded by its own deadline.
\* Nothing is assumed of clients, deadlines, crashes and restarts.
Advance(c) ==
    \/ lookup(c) \/ wake(c) \/ acquire_taken(c) \/ acquire_refused(c)
    \/ \E w \in Writes \cup WriteFaults : acquire(c, w)
    \/ dispatch(c) \/ complete(c)
    \/ \E w \in Writes \cup WriteFaults : finish(c, w)

FairSpec == Spec /\ \A c \in Requests : WF_vars(Advance(c))

-----------------------------------------------------------------------------
(* Properties.                                                               *)

\* Every variable keeps its type.
TypeOK ==
    /\ up \in BOOLEAN /\ blocked \in BOOLEAN
    /\ entries \in [Keys -> Entry]
    /\ dirty \subseteq Keys
    /\ ledger \in [disk : [Keys -> Entry], log : BOOLEAN, torn : BOOLEAN]
    /\ clock \in 0..MaxClock
    /\ pc \in [Requests -> Steps]
    /\ now \in [Requests -> 0..MaxClock]
    /\ signal \in [Requests -> {"pending", "retry", "unresolved"} \cup Outcomes]
    /\ result \in [Requests -> {"none", "error"} \cup Outcomes]
    /\ failures \in 0..MaxFailures /\ crashes \in 0..MaxCrashes
    /\ effect \in [Keys -> [by : Requests \cup {NoRequest},
                            what : {"none", "possible"} \cup Outcomes]]
    /\ lapsed \in [Keys -> {"no", "expired", "evicted"}]
    /\ answer \in [Requests -> {"none", "refused"} \cup Outcomes]

\* An operation is run for a key only if no earlier one can have had an effect that
\* its client may still ask for: none ran, the last ended with a
\* retryable failure, or its completed outcome expired or was evicted.  Whatever
\* was cancelled, crashed or could not be recorded is never run again.
NoDuplicateEffect ==
    [][\A c \in Requests :
        pc[c] = "permitted" /\ pc'[c] = "running" =>
            LET last == effect[KeyOf[c]]
            IN  \/ last.what \in {"none", "released"}
                \/ last.what = "completed" /\ lapsed[KeyOf[c]] # "no"]_vars

\* A reservation has exactly one live request behind it: none is left behind by a
\* request that ended, and no request works on a key another one took.
ReservationHasHolder ==
    /\ \A k \in Keys : entries[k].state = "Reserved" =>
            KeyOf[entries[k].by] = k /\ pc[entries[k].by] \in Holding
    /\ \A c \in Requests : pc[c] \in Holding => Holds(c)

\* While the ledger accepts writes, what it says of a key that is not marked dirty is
\* what memory says: the key is in both or in neither, and a retained outcome is
\* the same with the same expiry.
LedgerKeepsUp ==
    Durable /\ up /\ ~blocked =>
        \A k \in Keys \ dirty :
            /\ entries[k] = NoEntry <=> ledger.disk[k] = NoEntry
            /\ entries[k].state = "Retained" => ledger.disk[k] = entries[k]

\* Only an interrupted or failed write makes the ledger unreadable: no record that
\* was written in full removes a key the reader of the ledger does not know.
LedgerStaysReadable ==
    [][~ledger.torn /\ ledger'.torn => failures' > failures \/ crashes' > crashes]_vars

\* A stored outcome that a request is handed, from the entry or through the watch
\* channel, is that of the latest operation run for its key, and that operation
\* had its payload.
ReplayIsTrue ==
    [][\A c \in Requests :
        LET last == effect[KeyOf[c]]
            Mine(outcome) == last.what = outcome /\ Body[last.by] = Body[c]
        IN  /\ pc[c] = "lookup" /\ answer'[c] \in Outcomes => Mine(answer'[c])
            /\ signal'[c] # signal[c] /\ signal'[c] \in Outcomes => Mine(signal'[c])]_vars

\* No sequence of reservations, failures and restarts takes the store over its
\* capacities.
WithinCapacity ==
    /\ Cardinality(Present(entries)) <= Global
    /\ \A k \in Keys :
        Cardinality(OfPrincipal(Present(entries), PrincipalOf[k])) <= PerPrincipal

\* A request that waits for another one's outcome stops waiting, without help from its
\* own deadline: no wake-up is lost.
WaitersAreWoken == \A c \in Requests : pc[c] = "waiting" ~> pc[c] # "waiting"
=============================================================================
