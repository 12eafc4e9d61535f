--------------------------- MODULE CompanionSession ---------------------------
(***************************************************************************)
(* The session coordinator of the Firefox companion                          *)
(* (crates/companion-core/src/session.rs), with the socket loop that feeds it *)
(* (server.rs), the attachment leases of the registry (registry.rs) and the   *)
(* worker's retry of an action (firefox-companion/src/worker.rs).            *)
(*                                                                           *)
(* One profile, hence one companion: the registry never pairs a profile with  *)
(* a second companion.  The companion may open a connection while an earlier  *)
(* one is still being served.  What the coordinator knows is under one mutex, *)
(* so every hold of it is one step; grant_updates is held across sends and is *)
(* the variable gate.                                                        *)
(***************************************************************************)
EXTENDS Naturals, FiniteSets

CONSTANTS
    Connections,    \* connection ids
    Attachments,    \* attachment ids
    Pages,          \* page ids
    Targets,        \* browser targets (tabs)
    Calls,          \* callers; the command id or the binding nonce of a call is the call
    Reports,        \* the sets of targets the companion may discover
    Work,           \* what the calls may be for: functions from Calls to an operation,
                    \* an attachment and a page
    MaxPending,     \* MAX_PENDING_COMMANDS
    MaxBindings,    \* MAX_PENDING_BINDINGS
    MaxPages,       \* MAX_DISCOVERED_TARGETS, the pages of one grant
    None

VARIABLES
    state,      \* SessionState, the coordinator's maps
    gate,       \* who holds grant_updates
    lease,      \* the registry's attachment leases
    sockets,    \* the connections: their serve_socket task and outbound queue
    requests,   \* the actions the extension was sent and has not answered
    calls,      \* the calls of the workers
    owned,      \* the release tasks, named by the call that started each
    releases    \* binding_releases: the current release of an attachment's page

vars == <<state, gate, lease, sockets, requests, calls, owned, releases>>

-----------------------------------------------------------------------------
(* Types *)

Keys == Attachments \X Pages

GrantedPages == [target : Targets, page : Pages]

DiscoveryRecord == [conn : Connections, targets : SUBSET Targets]

GrantRecord == [conn : Connections, pages : SUBSET GrantedPages, live : BOOLEAN]

PendingCommand == [conn : Connections, heard : BOOLEAN, lapsed : BOOLEAN]

PendingBinding == [conn : Connections, att : Attachments, page : Pages, known : SUBSET Targets]

SessionState ==
    [session   : Connections \cup {None},
     discovery : DiscoveryRecord \cup {None},
     grants    : [Attachments -> GrantRecord \cup {None}],
     orphaned  : [Attachments -> GrantRecord \cup {None}],
     pending   : [Calls -> PendingCommand \cup {None}],
     bindings  : [Calls -> PendingBinding \cup {None}]]

\* The grant a report changed, until it is sent.
Publication == [call : Calls, att : Attachments, before : SUBSET GrantedPages,
                after : SUBSET GrantedPages]

\* queue: room, no room, a Close message in it, or no writer behind it.
SocketRecord ==
    [stage : {"new", "registering", "closingPrevious", "resending", "serving",
              "publishing", "erring", "leaving", "gone"},
     queue : {"open", "full", "closing", "closed"},
     previous : Connections \cup {None},
     binding : Publication \cup {None}]

Answers == [kind : {"answered", "bound", "closed", "expired", "refused", "released"},
            attempt : 0..3]

Operations == {"dispatch", "bind", "release", "grant", "renew", "discover"}

CallRecord ==
    [op : Operations,
     stage : {"discovering", "unseen", "resolve", "check", "asleep", "ready", "sending", "awaiting",
              "granting", "grantSending", "renewing", "renewSending",
              "begin", "ticket", "removing", "release", "joined", "done"},
     att : Attachments \cup {None},
     page : Pages \cup {None},
     conn : Connections \cup {None},
     pages : SUBSET GrantedPages,
     inTime : BOOLEAN,
     attempt : 1..3,
     on : Calls \cup {None},
     answer : Answers \cup {None}]

\* cleared is history: the page was taken out and has not been asked for since.
ReleaseRecord ==
    [stage : {"none", "bind", "seen", "gate", "publish", "reap", "ended"},
     key : Keys \cup {None},
     conn : Connections \cup {None},
     seen : Connections \cup {None},
     republish : BOOLEAN,
     cleared : BOOLEAN,
     result : {"ok", "err"} \cup {None}]

\* Ids of different kinds are different, and None is nothing of what it stands in for.
ASSUME CompanionAssumption ==
    /\ Connections \cap Calls = {}
    /\ None \notin Connections \cup Attachments \cup Pages \cup Calls
    /\ None \notin DiscoveryRecord
    /\ None \notin GrantRecord
    /\ None \notin PendingCommand
    /\ None \notin PendingBinding
    /\ None \notin Publication
    /\ None \notin Answers
    /\ None \notin Keys
    /\ Work \subseteq [Calls -> [op : Operations, att : Attachments, page : Pages]]
    /\ Reports \subseteq SUBSET Targets

\* Who may hold grant_updates: a report's, a grant's or a release's sender.
Senders == {k \in Connections : sockets[k].stage = "publishing"}
           \cup {c \in Calls : calls[c].stage \in {"grantSending", "renewSending"}
                                \/ owned[c].stage = "publish"}

TypeOK ==
    /\ state \in SessionState
    /\ gate \in Senders \cup {None}
    /\ lease \in [Attachments -> {"none", "live", "expired"}]
    /\ sockets \in [Connections -> SocketRecord]
    /\ requests \subseteq [conn : Connections, call : Calls, attempt : 1..3, late : BOOLEAN]
    /\ calls \in [Calls -> CallRecord]
    /\ owned \in [Calls -> ReleaseRecord]
    /\ releases \in [Keys -> Calls \cup {None}]

-----------------------------------------------------------------------------
(* Functions of the coordinator's state *)

Of(record, k) == record # None /\ record.conn = k

PagesOf(grant) == IF grant = None THEN {} ELSE grant.pages

BoundPages == UNION {PagesOf(state.grants[a]) : a \in Attachments}

HasPage(pages, p) == \E g \in pages : g.page = p

remove_all_but_bindings(s, k) ==
    [s EXCEPT
        !.discovery = IF Of(@, k) THEN None ELSE @,
        !.grants    = [a \in Attachments |-> IF Of(@[a], k) THEN None ELSE @[a]],
        !.orphaned  = [a \in Attachments |-> IF Of(s.grants[a], k) THEN s.grants[a] ELSE @[a]],
        !.pending   = [c \in Calls |-> IF Of(@[c], k) THEN None ELSE @[c]]]

\* Everything of a connection goes, except its grants, which are kept for the
\* companion's next connection.
remove_connection_state(s, k) ==
    [s EXCEPT
        !.discovery = IF Of(@, k) THEN None ELSE @,
        !.grants    = [a \in Attachments |-> IF Of(@[a], k) THEN None ELSE @[a]],
        !.orphaned  = [a \in Attachments |-> IF Of(s.grants[a], k) THEN s.grants[a] ELSE @[a]],
        !.pending   = [c \in Calls |-> IF Of(@[c], k) THEN None ELSE @[c]],
        !.bindings  = [c \in Calls |-> IF Of(@[c], k) THEN None ELSE @[c]]]

readopt_grants(s, k) ==
    [s EXCEPT
        !.grants   = [a \in Attachments |->
                        IF s.orphaned[a] # None /\ s.orphaned[a].live
                        THEN [s.orphaned[a] EXCEPT !.conn = k] ELSE @[a]],
        !.orphaned = [a \in Attachments |-> None]]

purge_expired_pending(s) ==
    [s EXCEPT !.pending = [c \in Calls |->
        IF @[c] # None /\ @[c].lapsed /\ ~@[c].heard THEN None ELSE @[c]]]

forget_pending(s, c, k) ==
    [s EXCEPT !.pending[c] = IF Of(@, k) THEN None ELSE @]

abandon_pending(s, c, k) ==
    LET p == purge_expired_pending(s)
    IN  IF Of(p.pending[c], k)
        THEN [p EXCEPT !.pending[c].heard = FALSE, !.pending[c].lapsed = FALSE]
        ELSE p

\* The bindings that wait for a page of an attachment.
Awaited(key) ==
    {c \in Calls : /\ state.bindings[c] # None
                   /\ <<state.bindings[c].att, state.bindings[c].page>> = key}

expire_page_bindings(s, key) ==
    [s EXCEPT !.bindings = [c \in Calls |-> IF c \in Awaited(key) THEN None ELSE @[c]]]

\* What the calls in S are told through their channels.
Told(S, kind, n) ==
    [c \in Calls |-> IF c \in S THEN [calls[c] EXCEPT !.answer = [kind |-> kind, attempt |-> n]]
                     ELSE calls[c]]

\* The callers that still listen to a connection.
Listeners(k) == {c \in Calls : \/ Of(state.bindings[c], k)
                               \/ Of(state.pending[c], k) /\ state.pending[c].heard}

\* notify_waiters of discovery_changed.
Woken(cs) == [c \in Calls |-> IF cs[c].stage = "asleep" THEN [cs[c] EXCEPT !.stage = "check"] ELSE cs[c]]

\* A send that is bounded by GRANT_PUBLICATION_TIMEOUT.
Accepts(k) == sockets[k].queue \in {"open", "closing"}

Ended(c) == [calls EXCEPT ![c].stage = "done", ![c].conn = None, ![c].inTime = FALSE]

-----------------------------------------------------------------------------
(* Connections *)

FirstStage == [discover |-> "discovering", dispatch |-> "resolve", bind |-> "begin",
               release |-> "release", grant |-> "granting", renew |-> "renewing"]

Asked(w) == [op |-> w.op, stage |-> FirstStage[w.op], att |-> w.att, page |-> w.page,
             conn |-> None, pages |-> {}, inTime |-> FALSE, attempt |-> 1,
             on |-> None, answer |-> None]

NoRelease == [stage |-> "none", key |-> None, conn |-> None, seen |-> None,
              republish |-> FALSE, cleared |-> FALSE, result |-> None]

NewSocket == [stage |-> "new", queue |-> "open", previous |-> None,
              binding |-> None]

EmptyState == [session |-> None, discovery |-> None,
               grants |-> [a \in Attachments |-> None],
               orphaned |-> [a \in Attachments |-> None],
               pending |-> [c \in Calls |-> None],
               bindings |-> [c \in Calls |-> None]]

Init ==
    /\ state = EmptyState
    /\ gate = None
    /\ lease = [a \in Attachments |-> "none"]
    /\ sockets = [k \in Connections |-> NewSocket]
    /\ requests = {}
    /\ \E w \in Work : calls = [c \in Calls |-> Asked(w[c])]
    /\ owned = [c \in Calls |-> NoRelease]
    /\ releases = [key \in Keys |-> None]

\* The companion connects and is authenticated.
Connect(k) ==
    /\ sockets[k].stage = "new"
    /\ sockets' = [sockets EXCEPT ![k].stage = "registering"]
    /\ UNCHANGED <<state, gate, lease, requests, calls, owned, releases>>

\* The releases that are tied to connection k are answered and forgotten; a task
\* that works on one goes on.
Retired(k) == {key \in Keys : releases[key] # None /\ owned[releases[key]].conn = k}

retire_binding_releases(k) ==
    /\ owned' = [d \in Calls |-> IF \E key \in Retired(k) : releases[key] = d
                                 THEN [owned[d] EXCEPT !.result = "err"] ELSE owned[d]]
    /\ releases' = [key \in Keys |-> IF key \in Retired(k) THEN None ELSE releases[key]]

register(k) ==
    LET previous == state.session
        cleared  == remove_connection_state(state, previous)
    IN  /\ sockets[k].stage = "registering"
        /\ gate = None
        /\ state' = [readopt_grants(cleared, k) EXCEPT !.session = k]
        /\ calls' = Told(Listeners(previous), "closed", 0)
        /\ retire_binding_releases(previous)
        /\ sockets' = [sockets EXCEPT ![k].stage = "closingPrevious",
                                      ![k].previous = previous]
        /\ UNCHANGED <<gate, lease, requests>>

ClosePreviousOpen(k) ==
    LET j == sockets[k].previous
    IN  /\ sockets[k].stage = "closingPrevious"
        /\ j # None => sockets[j].queue \in {"open", "closing"}
        /\ sockets' = [i \in Connections |->
                          IF i = k THEN [sockets[k] EXCEPT !.stage = "resending", !.previous = None]
                          ELSE IF i = j THEN [sockets[j] EXCEPT !.queue = "closing"] ELSE sockets[i]]
        /\ UNCHANGED <<state, gate, lease, requests, calls, owned, releases>>

\* The Close for the replaced connection waits for room in its queue.
ClosePrevious(k) ==
    LET j == sockets[k].previous
    IN  /\ sockets[k].stage = "closingPrevious"
        /\ j # None => sockets[j].queue # "full"
        /\ sockets' = [i \in Connections |->
                          IF i = k THEN [sockets[k] EXCEPT !.stage = "resending", !.previous = None]
                          ELSE IF i = j /\ sockets[j].queue = "open"
                          THEN [sockets[j] EXCEPT !.queue = "closing"] ELSE sockets[i]]
        /\ UNCHANGED <<state, gate, lease, requests, calls, owned, releases>>

\* The adopted grants are sent again, each within GRANT_PUBLICATION_TIMEOUT and
\* whether or not that works; then the waiting calls are woken.
ResendGrants(k) ==
    /\ sockets[k].stage = "resending"
    /\ sockets' = [sockets EXCEPT ![k].stage = "serving"]
    /\ calls' = Woken(calls)
    /\ UNCHANGED <<state, gate, lease, requests, owned, releases>>

\* The peer closes or the read fails, or the server lets its clients or a revoked
\* companion go, with a Close.
SocketEnds(k) ==
    /\ sockets[k].stage = "serving"
    /\ \E stage \in {"leaving", "erring"} : sockets' = [sockets EXCEPT ![k].stage = stage]
    /\ UNCHANGED <<state, gate, lease, requests, calls, owned, releases>>

\* send_error_and_close waits for room in the queue as well.
SendErrorAndClose(k) ==
    /\ sockets[k].stage = "erring"
    /\ sockets[k].queue # "full"
    /\ sockets' = [sockets EXCEPT ![k].stage = "leaving",
                                  ![k].queue = IF @ = "open" THEN "closing" ELSE @]
    /\ UNCHANGED <<state, gate, lease, requests, calls, owned, releases>>

unregister(k) ==
    LET s == IF state.session = k THEN [state EXCEPT !.session = None] ELSE state
    IN  /\ sockets[k].stage = "leaving"
        /\ gate = None
        /\ state' = remove_connection_state(s, k)
        /\ calls' = Told(Listeners(k), "closed", 0)
        /\ retire_binding_releases(k)
        /\ sockets' = [sockets EXCEPT ![k].stage = "gone"]
        /\ requests' = {r \in requests : r.conn # k}
        /\ UNCHANGED <<gate, lease>>

\* write_socket: the peer stops reading and reads again; the writer ends after a
\* Close, or when the socket breaks.
QueueFills(k) ==
    /\ sockets[k].stage \notin {"new", "gone"}
    /\ sockets[k].queue = "open"
    /\ sockets' = [sockets EXCEPT ![k].queue = "full"]
    /\ UNCHANGED <<state, gate, lease, requests, calls, owned, releases>>

QueueDrains(k) ==
    /\ sockets[k].queue = "full"
    /\ sockets' = [sockets EXCEPT ![k].queue = "open"]
    /\ UNCHANGED <<state, gate, lease, requests, calls, owned, releases>>

WriterEnds(k) ==
    /\ sockets[k].queue = "closing"
    /\ sockets' = [sockets EXCEPT ![k].queue = "closed"]
    /\ UNCHANGED <<state, gate, lease, requests, calls, owned, releases>>

SocketBreaks(k) ==
    /\ sockets[k].stage # "new"
    /\ sockets[k].queue \in {"open", "full"}
    /\ sockets' = [sockets EXCEPT ![k].queue = "closed"]
    /\ UNCHANGED <<state, gate, lease, requests, calls, owned, releases>>

-----------------------------------------------------------------------------
(* consume_event *)

record_discovery(k, T) ==
    /\ sockets[k].stage = "serving"
    /\ \/ /\ state.session = k
          /\ state' = [state EXCEPT !.discovery = [conn |-> k, targets |-> T]]
          /\ calls' = Woken(calls)
          /\ UNCHANGED sockets
       \/ /\ state.session # k
          /\ sockets' = [sockets EXCEPT ![k].stage = "erring"]
          /\ UNCHANGED <<state, calls>>
    /\ UNCHANGED <<gate, lease, requests, owned, releases>>

complete_any_command(k, r) ==
    LET s == purge_expired_pending(state)
    IN  /\ sockets[k].stage = "serving"
        /\ r \in requests
        /\ r.conn = k
        /\ requests' = requests \ {r}
        /\ \/ /\ s.pending[r.call] # None
              /\ state' = [s EXCEPT !.pending[r.call] = None]
              /\ calls' = Told({c \in {r.call} : s.pending[c].heard}, "answered", r.attempt)
              /\ UNCHANGED sockets
           \/ /\ s.pending[r.call] = None
              /\ state' = s
              /\ sockets' = [sockets EXCEPT ![k].stage = "erring"]
              /\ UNCHANGED calls
        /\ UNCHANGED <<gate, lease, owned, releases>>

\* The extension answers an action it was sent on this connection.  An answer that
\* nobody expects ends the connection.
complete_command(k, r) ==
    LET s == purge_expired_pending(state)
    IN  /\ sockets[k].stage = "serving"
        /\ r \in requests
        /\ r.conn = k
        /\ requests' = requests \ {r}
        /\ \/ /\ Of(s.pending[r.call], k)
              /\ state' = [s EXCEPT !.pending[r.call] = None]
              /\ calls' = Told({c \in {r.call} : s.pending[c].heard}, "answered", r.attempt)
              /\ UNCHANGED sockets
           \/ /\ ~Of(s.pending[r.call], k)
              /\ state' = s
              /\ sockets' = [sockets EXCEPT ![k].stage = "erring"]
              /\ UNCHANGED calls
        /\ UNCHANGED <<gate, lease, owned, releases>>

\* A report for binding c that arrives while grant_updates is taken gives up.
RecordBindingGivesUp(k, c) ==
    /\ sockets[k].stage = "serving"
    /\ calls[c].op = "bind" /\ calls[c].stage # "begin"
    /\ gate # None
    /\ state' = [state EXCEPT !.bindings[c] = IF Of(@, k) THEN None ELSE @]
    /\ calls' = Told({d \in {c} : Of(state.bindings[d], k)}, "refused", 0)
    /\ sockets' = [sockets EXCEPT ![k].stage = "erring"]
    /\ UNCHANGED <<gate, lease, requests, owned, releases>>

ReportableTwice(k, c, t) ==
    /\ Of(state.discovery, k)
    /\ t \in state.discovery.targets
    /\ t \notin state.bindings[c].known

\* A report whose target is not a newly discovered, unbound page is refused and
\* the binding goes on waiting.
Reportable(k, c, t) ==
    /\ Of(state.discovery, k)
    /\ t \in state.discovery.targets
    /\ t \notin state.bindings[c].known
    /\ \A g \in BoundPages : g.target # t

RecordedPages(b, t) ==
    {g \in PagesOf(state.grants[b.att]) : g.target # t /\ g.page # b.page}
        \cup {[target |-> t, page |-> b.page]}

\* The grant may be gone, expired and dropped by a later one.  That it belongs to
\* another connection than its binding cannot be (OneConnectionServes).
record_page_binding(k, c, t) ==
    LET b == state.bindings[c]
        pages == RecordedPages(b, t)
        forgotten == [state EXCEPT !.bindings[c] = None]
    IN  /\ sockets[k].stage = "serving"
        /\ gate = None
        /\ b # None
        /\ \/ /\ b.conn # k
              /\ sockets' = [sockets EXCEPT ![k].stage = "erring"]
              /\ UNCHANGED <<state, gate, calls>>
           \/ /\ b.conn = k
              /\ Reportable(k, c, t)
              /\ state.grants[b.att] = None \/ Cardinality(pages) > MaxPages
              /\ state' = forgotten
              /\ calls' = Told({c}, "refused", 0)
              /\ UNCHANGED <<gate, sockets>>
           \/ /\ b.conn = k
              /\ Reportable(k, c, t)
              /\ Of(state.grants[b.att], k)
              /\ state.session = k
              /\ Cardinality(pages) <= MaxPages
              /\ state' = [forgotten EXCEPT !.grants[b.att].pages = pages]
              /\ gate' = k
              /\ sockets' = [sockets EXCEPT
                                ![k].stage = "publishing",
                                ![k].binding = [call |-> c, att |-> b.att, after |-> pages,
                                                before |-> state.grants[b.att].pages]]
              /\ UNCHANGED calls
        /\ UNCHANGED <<lease, requests, owned, releases>>

PublishBindingOnly(k) ==
    LET b == sockets[k].binding
    IN  /\ sockets[k].stage = "publishing"
        /\ gate' = None
        /\ \/ /\ Accepts(k)
              /\ calls' = Told({b.call}, "bound", 0)
              /\ sockets' = [sockets EXCEPT ![k].stage = "serving", ![k].binding = None]
           \/ /\ ~Accepts(k)
              /\ calls' = Told({b.call}, "refused", 0)
              /\ sockets' = [sockets EXCEPT ![k].stage = "erring", ![k].binding = None]
        /\ UNCHANGED <<state, lease, requests, owned, releases>>

\* The grant with the new page is sent; when that fails the page is taken out again.
PublishBinding(k) ==
    LET b == sockets[k].binding
    IN  /\ sockets[k].stage = "publishing"
        /\ gate' = None
        /\ \/ /\ Accepts(k)
              /\ calls' = Told({b.call}, "bound", 0)
              /\ sockets' = [sockets EXCEPT ![k].stage = "serving", ![k].binding = None]
              /\ UNCHANGED state
           \/ /\ ~Accepts(k)
              /\ state' = [state EXCEPT !.grants[b.att] =
                              IF Of(@, k) /\ @.pages = b.after
                              THEN [@ EXCEPT !.pages = b.before] ELSE @]
              /\ calls' = Told({b.call}, "refused", 0)
              /\ sockets' = [sockets EXCEPT ![k].stage = "erring", ![k].binding = None]
        /\ UNCHANGED <<lease, requests, owned, releases>>

-----------------------------------------------------------------------------
(* Time *)

\* The retention of an abandoned command passes.
PendingLapses(c) ==
    /\ state.pending[c] # None
    /\ ~state.pending[c].heard
    /\ ~state.pending[c].lapsed
    /\ state' = [state EXCEPT !.pending[c].lapsed = TRUE]
    /\ requests' = {[r EXCEPT !.late = @ \/ (r.call = c /\ r.conn = state.pending[c].conn)] : r \in requests}
    /\ UNCHANGED <<gate, lease, sockets, calls, owned, releases>>

GrantExpires(a) ==
    /\ \/ /\ state.grants[a] # None /\ state.grants[a].live
          /\ state' = [state EXCEPT !.grants[a].live = FALSE]
       \/ /\ state.orphaned[a] # None /\ state.orphaned[a].live
          /\ state' = [state EXCEPT !.orphaned[a].live = FALSE]
    /\ UNCHANGED <<gate, lease, sockets, requests, calls, owned, releases>>

\* The lease expires, or its companion is revoked.
LeaseEnds(a) ==
    /\ lease[a] = "live"
    /\ lease' = [lease EXCEPT ![a] = "expired"]
    /\ UNCHANGED <<state, gate, sockets, requests, calls, owned, releases>>

-----------------------------------------------------------------------------
(* wait_for_discovery *)

\* The targets are there, or are not when the time is up.
wait_for_discovery(c) ==
    /\ calls[c].stage = "discovering"
    /\ calls' = IF state.discovery # None THEN Ended(c) ELSE [calls EXCEPT ![c].stage = "unseen"]
    /\ UNCHANGED <<state, gate, lease, sockets, requests, owned, releases>>

\* In another hold of the state: a discovery that came in between is replaced.
synthesize_empty_if_paired(c) ==
    /\ calls[c].stage = "unseen"
    /\ state' = IF state.session = None THEN state
                ELSE [state EXCEPT !.discovery = [conn |-> state.session, targets |-> {}]]
    /\ calls' = Ended(c)
    /\ UNCHANGED <<gate, lease, sockets, requests, owned, releases>>

-----------------------------------------------------------------------------
(* Actions of the extension: dispatch_action, and its retry by the worker *)

Unanswered(c, stage) == [calls EXCEPT ![c].stage = stage, ![c].answer = None]

\* The worker sends the same command again when its connection closed under it,
\* and once more under a new attachment when the old one is gone.
Retry(c, error) ==
    CASE error = "ConnectionClosed" /\ calls[c].attempt = 1 ->
            [Unanswered(c, "resolve") EXCEPT ![c].attempt = 2]
      [] error = "GrantUnavailable" /\ calls[c].attempt = 2 -> Unanswered(c, "granting")
      [] OTHER -> Ended(c)

Live(grant) == grant # None /\ grant.live

\* The grant's expiry will be compared with the time at which the call began.
resolve_attachment(c) ==
    LET a == calls[c].att
    IN  /\ calls[c].stage = "resolve"
        /\ calls' = IF lease[a] = "live"
                    THEN [calls EXCEPT ![c].stage = "check",
                                       ![c].inTime = Live(state.grants[a]) \/ Live(state.orphaned[a])]
                    ELSE Ended(c)
        /\ UNCHANGED <<state, gate, lease, sockets, requests, owned, releases>>

\* A call whose grant is orphaned sleeps until discovery_changed, or gives up.
wait_for_readopted_grant(c) ==
    /\ \/ /\ calls[c].stage = "check"
          /\ calls' = [calls EXCEPT ![c].stage =
                          IF state.orphaned[calls[c].att] = None THEN "ready" ELSE "asleep"]
       \/ /\ calls[c].stage = "asleep"
          /\ calls' = Ended(c)
    /\ UNCHANGED <<state, gate, lease, sockets, requests, owned, releases>>

Submit(c) ==
    LET s == purge_expired_pending(state)
        grant == s.grants[calls[c].att]
        available == grant # None /\ (grant.live \/ calls[c].inTime)
        refused == \/ ~HasPage(grant.pages, calls[c].page)
                   \/ s.session = None
                   \/ s.pending[c] # None
                   \/ Cardinality({d \in Calls : s.pending[d] # None}) >= MaxPending
    IN  /\ calls[c].stage = "ready"
        /\ \/ /\ ~available
              /\ state' = s
              /\ calls' = Retry(c, "GrantUnavailable")
           \/ /\ available
              /\ refused
              /\ state' = s
              /\ calls' = Ended(c)
           \/ /\ available
              /\ ~refused
              /\ s.session = grant.conn
              /\ state' = [s EXCEPT !.pending[c] = [conn |-> s.session, heard |-> TRUE,
                                                    lapsed |-> FALSE]]
              /\ calls' = [calls EXCEPT ![c].stage = "sending", ![c].conn = s.session]
        /\ UNCHANGED <<gate, lease, sockets, requests, owned, releases>>

remove_pending(c) ==
    [state EXCEPT !.pending[c] = IF Of(@, calls[c].conn) THEN None ELSE @]

\* The request waits for room in the queue.
SendAction(c) ==
    LET k == calls[c].conn
    IN  /\ calls[c].stage = "sending"
        /\ \/ /\ sockets[k].queue = "open"
              /\ requests' = requests \cup {[conn |-> k, call |-> c, attempt |-> calls[c].attempt,
                                         late |-> FALSE]}
              /\ calls' = [calls EXCEPT ![c].stage = "awaiting"]
              /\ UNCHANGED state
           \/ /\ sockets[k].queue = "closing"
              /\ calls' = [calls EXCEPT ![c].stage = "awaiting"]
              /\ UNCHANGED <<state, requests>>
           \/ /\ sockets[k].queue = "closed"
              /\ state' = remove_pending(c)
              /\ calls' = Ended(c)
              /\ UNCHANGED requests
        /\ UNCHANGED <<gate, lease, sockets, owned, releases>>

ReceiveAnswer(c) ==
    /\ calls[c].stage = "awaiting"
    /\ calls[c].answer # None
    /\ calls' = IF calls[c].answer.kind = "closed" THEN Retry(c, "ConnectionClosed") ELSE Ended(c)
    /\ UNCHANGED <<state, gate, lease, sockets, requests, owned, releases>>

\* The wait runs out, or the caller is dropped: the guard leaves a tombstone that
\* takes in a late answer.
AbandonAction(c) ==
    /\ calls[c].stage \in {"sending", "awaiting"}
    /\ state' = abandon_pending(state, c, calls[c].conn)
    /\ calls' = Ended(c)
    /\ UNCHANGED <<gate, lease, sockets, requests, owned, releases>>

-----------------------------------------------------------------------------
(* Grants: grant_attachment and renew_grant hold grant_updates over their send *)

\* acquire_grant_update runs out of time.
GateTimesOut(c) ==
    /\ calls[c].stage \in {"granting", "renewing"}
    /\ gate # None
    /\ calls' = Ended(c)
    /\ UNCHANGED <<state, gate, lease, sockets, requests, owned, releases>>

\* Bound: there are as many attachments as Attachments has.
grant_attachment(c) ==
    /\ calls[c].stage = "granting"
    /\ gate = None
    /\ \/ /\ state.session # None
          /\ Of(state.discovery, state.session)
          /\ \E a \in Attachments :
                /\ lease[a] = "none"
                /\ lease' = [lease EXCEPT ![a] = "live"]
                /\ calls' = [calls EXCEPT ![c].stage = "grantSending", ![c].att = a,
                                          ![c].conn = state.session]
          /\ gate' = c
       \/ /\ \/ state.session = None
             \/ state.discovery = None
             \/ \A a \in Attachments : lease[a] # "none"
          /\ calls' = Ended(c)
          /\ UNCHANGED <<gate, lease>>
    /\ UNCHANGED <<state, sockets, requests, owned, releases>>

\* The grants of the connection that have expired make way.
Granted(a, k) ==
    [state EXCEPT !.grants =
        [b \in Attachments |->
            IF b = a THEN [conn |-> k, pages |-> {}, live |-> TRUE]
            ELSE IF Of(@[b], k) /\ ~@[b].live THEN None ELSE @[b]]]

PublishGrant(c) ==
    LET k == calls[c].conn
    IN  /\ calls[c].stage = "grantSending"
        /\ gate' = None
        /\ \/ /\ Accepts(k)
              /\ state.session = k
              /\ state' = Granted(calls[c].att, k)
              /\ calls' = IF calls[c].op = "dispatch"
                          THEN [calls EXCEPT ![c].stage = "resolve", ![c].attempt = 3]
                          ELSE Ended(c)
           \/ /\ ~Accepts(k)
              /\ calls' = Ended(c)
              /\ UNCHANGED state
        /\ UNCHANGED <<lease, sockets, requests, owned, releases>>

renew_unlocked(c) ==
    LET grant == state.grants[calls[c].att]
        renewable == grant # None /\ Of(grant, state.session) /\ lease[calls[c].att] = "live"
    IN  /\ calls[c].stage = "renewing"
        /\ \/ /\ renewable
              /\ calls' = [calls EXCEPT ![c].stage = "renewSending", ![c].conn = grant.conn,
                                        ![c].pages = grant.pages]
           \/ /\ ~renewable
              /\ calls' = Ended(c)
        /\ UNCHANGED <<state, gate, lease, sockets, requests, owned, releases>>

renew_grant(c) ==
    LET grant == state.grants[calls[c].att]
        renewable == grant # None /\ Of(grant, state.session) /\ lease[calls[c].att] = "live"
    IN  /\ calls[c].stage = "renewing"
        /\ gate = None
        /\ \/ /\ renewable
              /\ gate' = c
              /\ calls' = [calls EXCEPT ![c].stage = "renewSending", ![c].conn = grant.conn,
                                        ![c].pages = grant.pages]
           \/ /\ ~renewable
              /\ calls' = Ended(c)
              /\ UNCHANGED gate
        /\ UNCHANGED <<state, lease, sockets, requests, owned, releases>>

\* The grant is stored as it was read before the send, with its new expiry.
PublishRenewal(c) ==
    LET k == calls[c].conn
        a == calls[c].att
    IN  /\ calls[c].stage = "renewSending"
        /\ gate' = None
        /\ state' = IF Accepts(k) /\ state.session = k /\ Of(state.grants[a], k)
                    THEN [state EXCEPT !.grants[a].pages = calls[c].pages, !.grants[a].live = TRUE]
                    ELSE state
        /\ calls' = [Ended(c) EXCEPT ![c].pages = {}]
        /\ UNCHANGED <<lease, sockets, requests, owned, releases>>

-----------------------------------------------------------------------------
(* Page bindings *)

begin_page_binding(c) ==
    LET a == calls[c].att
        p == calls[c].page
        allowed == /\ lease[a] = "live"
                   /\ Cardinality({d \in Calls : state.bindings[d] # None}) < MaxBindings
                   /\ state.grants[a] # None /\ state.grants[a].live
                   /\ ~HasPage(BoundPages, p)
                   /\ \A d \in Calls : state.bindings[d] # None => state.bindings[d].page # p
                   /\ Of(state.discovery, state.grants[a].conn)
    IN  /\ calls[c].stage = "begin"
        /\ \/ /\ allowed
              /\ state' = [state EXCEPT !.bindings[c] =
                              [conn |-> state.session, att |-> a, page |-> p,
                               known |-> state.discovery.targets]]
              /\ calls' = [calls EXCEPT ![c].stage = "ticket", ![c].conn = state.session]
              /\ owned' = [d \in Calls |-> IF owned[d].key = <<a, p>>
                                            THEN [owned[d] EXCEPT !.cleared = FALSE] ELSE owned[d]]
           \/ /\ ~allowed
              /\ calls' = Ended(c)
              /\ UNCHANGED <<state, owned>>
        /\ UNCHANGED <<gate, lease, sockets, requests, releases>>

TicketAnswered(c) ==
    /\ calls[c].stage = "ticket"
    /\ calls[c].answer # None
    /\ calls' = Ended(c)
    /\ UNCHANGED <<state, gate, lease, sockets, requests, owned, releases>>

\* The ticket's time is up or its holder goes away; the binding is removed at the
\* next hold of the state, and a report may come first.
TicketEnds(c) ==
    /\ calls[c].stage = "ticket"
    /\ calls' = [calls EXCEPT ![c].stage = "removing"]
    /\ UNCHANGED <<state, gate, lease, sockets, requests, owned, releases>>

remove_binding(c) ==
    /\ calls[c].stage = "removing"
    /\ state' = [state EXCEPT !.bindings[c] = IF Of(@, calls[c].conn) THEN None ELSE @]
    /\ calls' = Ended(c)
    /\ UNCHANGED <<gate, lease, sockets, requests, owned, releases>>

\* A page has one release at a time: a call joins it, or starts the next one when
\* it has failed, tied to the same connection.
release_page_binding(c) ==
    LET key == <<calls[c].att, calls[c].page>>
        current == releases[key]
        failed == current # None /\ owned[current].result = "err"
    IN  /\ calls[c].stage = "release"
        /\ \/ /\ current # None
              /\ ~failed
              /\ calls' = [calls EXCEPT ![c].stage = "joined", ![c].on = current]
              /\ UNCHANGED <<owned, releases>>
           \/ /\ current = None \/ failed
              /\ calls' = [calls EXCEPT ![c].stage = "joined", ![c].on = c]
              /\ owned' = [owned EXCEPT ![c] =
                              [NoRelease EXCEPT !.stage = "bind", !.key = key,
                                                !.republish = failed,
                                                !.conn = IF failed THEN owned[current].conn ELSE None]]
              /\ releases' = [releases EXCEPT ![key] = c]
        /\ UNCHANGED <<state, gate, lease, sockets, requests>>

ReleaseAnswered(c) ==
    /\ calls[c].stage = "joined"
    /\ owned[calls[c].on].result # None
    /\ calls' = [Ended(c) EXCEPT ![c].answer =
                    [kind |-> IF owned[calls[c].on].result = "ok" THEN "released" ELSE "refused",
                     attempt |-> 0]]
    /\ UNCHANGED <<state, gate, lease, sockets, requests, owned, releases>>

(* release_page_binding_owned, a task of its own *)

\* Without a connection yet, the release is tied to that of the grant; a missing
\* grant has nothing to release.
ReleaseLooksUp(d) ==
    LET key == owned[d].key
        grant == state.grants[key[1]]
    IN  /\ owned[d].stage = "bind"
        /\ \/ /\ owned[d].conn # None
              /\ owned' = [owned EXCEPT ![d].stage = "gate"]
              /\ UNCHANGED <<state, calls>>
           \/ /\ owned[d].conn = None
              /\ grant # None
              /\ owned' = [owned EXCEPT ![d].stage = "seen", ![d].seen = grant.conn]
              /\ UNCHANGED <<state, calls>>
           \/ /\ owned[d].conn = None
              /\ grant = None
              /\ state' = expire_page_bindings(state, key)
              /\ calls' = Told(Awaited(key), "expired", 0)
              /\ owned' = [owned EXCEPT ![d].stage = "reap", ![d].result = "ok"]
        /\ UNCHANGED <<gate, lease, sockets, requests, releases>>

ReleaseIsTied(d) ==
    /\ owned[d].stage = "seen"
    /\ owned' = [owned EXCEPT ![d].stage = "gate", ![d].conn = owned[d].seen, ![d].seen = None]
    /\ UNCHANGED <<state, gate, lease, sockets, requests, calls, releases>>

ReleaseGoesSilent(d) ==
    /\ owned[d].stage = "gate"
    /\ gate # None
    /\ owned' = [owned EXCEPT ![d].stage = "ended"]
    /\ UNCHANGED <<state, gate, lease, sockets, requests, calls, releases>>

ReleaseGivesUp(d) ==
    /\ owned[d].stage = "gate"
    /\ gate # None
    /\ owned' = [owned EXCEPT ![d].stage = "ended", ![d].result = "err"]
    /\ UNCHANGED <<state, gate, lease, sockets, requests, calls, releases>>

\* The release takes the page out of the grant and holds grant_updates until the
\* grant is sent.
ReleasePage(d) ==
    LET key == owned[d].key
        grant == state.grants[key[1]]
        s == expire_page_bindings(state, key)
        finished(result) == [owned EXCEPT ![d].result = result,
                                          ![d].stage = IF result = "ok" THEN "reap" ELSE "ended"]
    IN  /\ owned[d].stage = "gate"
        /\ gate = None
        /\ calls' = Told(Awaited(key), "expired", 0)
        /\ \/ /\ grant = None
              /\ owned' = finished(IF owned[d].republish THEN "err" ELSE "ok")
              /\ state' = s
              /\ UNCHANGED gate
           \/ /\ grant # None
              /\ grant.conn # owned[d].conn
              /\ owned' = finished("err")
              /\ state' = s
              /\ UNCHANGED gate
           \/ /\ Of(grant, owned[d].conn)
              /\ ~HasPage(grant.pages, key[2])
              /\ ~owned[d].republish
              /\ owned' = [finished("ok") EXCEPT ![d].cleared = TRUE]
              /\ state' = s
              /\ UNCHANGED gate
           \/ /\ Of(grant, owned[d].conn)
              /\ HasPage(grant.pages, key[2]) \/ owned[d].republish
              /\ state.session = grant.conn
              /\ owned' = [owned EXCEPT ![d].stage = "publish", ![d].cleared = TRUE]
              /\ state' = [s EXCEPT !.grants[key[1]].pages = {g \in @ : g.page # key[2]}]
              /\ gate' = d
        /\ UNCHANGED <<lease, sockets, requests, releases>>

PublishRelease(d) ==
    /\ owned[d].stage = "publish"
    /\ gate' = None
    /\ owned' = [owned EXCEPT ![d].stage = IF Accepts(owned[d].conn) THEN "reap" ELSE "ended",
                              ![d].result = IF Accepts(owned[d].conn) THEN "ok" ELSE "err"]
    /\ UNCHANGED <<state, lease, sockets, requests, calls, releases>>

\* A release that worked is forgotten, if it is still the current one.
ReapRelease(d) ==
    /\ owned[d].stage = "reap"
    /\ owned' = [owned EXCEPT ![d].stage = "ended"]
    /\ releases' = [releases EXCEPT ![owned[d].key] = IF @ = d THEN None ELSE @]
    /\ UNCHANGED <<state, gate, lease, sockets, requests, calls>>

-----------------------------------------------------------------------------
SocketStep(k) ==
    \/ register(k) \/ ClosePrevious(k) \/ ResendGrants(k)
    \/ SendErrorAndClose(k) \/ unregister(k) \/ PublishBinding(k)

SocketEvent(k) ==
    \/ QueueDrains(k) \/ WriterEnds(k)
    \/ \E T \in Reports : record_discovery(k, T)
    \/ \E r \in requests : complete_command(k, r)
    \/ \E c \in Calls : RecordBindingGivesUp(k, c)
    \/ \E c \in Calls, t \in Targets : record_page_binding(k, c, t)

CallStep(c) ==
    \/ wait_for_discovery(c) \/ synthesize_empty_if_paired(c)
    \/ resolve_attachment(c) \/ wait_for_readopted_grant(c) \/ Submit(c) \/ SendAction(c)
    \/ ReceiveAnswer(c) \/ AbandonAction(c)
    \/ GateTimesOut(c) \/ grant_attachment(c) \/ PublishGrant(c)
    \/ renew_grant(c) \/ PublishRenewal(c)
    \/ begin_page_binding(c) \/ TicketAnswered(c) \/ TicketEnds(c) \/ remove_binding(c)
    \/ release_page_binding(c) \/ ReleaseAnswered(c)

ReleaseStep(d) ==
    \/ ReleaseLooksUp(d) \/ ReleaseIsTied(d) \/ ReleaseGivesUp(d) \/ ReleasePage(d)
    \/ PublishRelease(d) \/ ReapRelease(d)

Disturbance ==
    \/ \E k \in Connections : Connect(k) \/ SocketEnds(k) \/ QueueFills(k) \/ SocketBreaks(k)
    \/ \E c \in Calls : PendingLapses(c)
    \/ \E a \in Attachments : GrantExpires(a) \/ LeaseEnds(a)

Step ==
    \/ \E k \in Connections : SocketStep(k) \/ SocketEvent(k)
    \/ \E c \in Calls : CallStep(c) \/ ReleaseStep(c)

Next == Disturbance \/ Step

\* The runtime polls every task: a socket's task and a release go on when they can,
\* and the mutex and the queue serve their waiters in order (strong fairness); a
\* call's wait ends at its deadline.
Fairness ==
    /\ \A k \in Connections : SF_vars(SocketStep(k)) /\ WF_vars(QueueDrains(k) \/ WriterEnds(k))
    /\ \A c \in Calls : WF_vars(CallStep(c)) /\ WF_vars(ReleaseStep(c))

Spec == Init /\ [][Next]_vars /\ Fairness

-----------------------------------------------------------------------------
(* Properties *)

\* One connection serves the profile: the discovery, the grants, the commands and
\* the bindings the coordinator works with are all of the registered connection
\* (register and unregister take everything of another one away), and no grant is
\* left behind while there is one.
OneConnectionServes ==
    LET s == state
    IN  /\ s.discovery = None \/ Of(s.discovery, s.session)
        /\ \A a \in Attachments :
              /\ s.grants[a] = None \/ Of(s.grants[a], s.session)
              /\ s.orphaned[a] # None => s.session = None /\ s.grants[a] = None
        /\ \A c \in Calls : /\ s.pending[c] = None \/ Of(s.pending[c], s.session)
                            /\ s.bindings[c] = None \/ Of(s.bindings[c], s.session)

AllPages == {x \in Attachments \X GrantedPages :
                x[2] \in PagesOf(state.grants[x[1]]) \cup PagesOf(state.orphaned[x[1]])}

\* A tab is bound to one page of one attachment and a page to one tab, whatever
\* reports, releases, renewals and reconnections come in between.
PageBoundOnce ==
    \A x, y \in AllPages : (x[2].target = y[2].target \/ x[2].page = y[2].page) => x = y

\* A call that sends its command again over a new connection never takes the late
\* answer to the earlier attempt (complete_command compares the connection).
AnswerIsForThisAttempt ==
    \A c \in Calls : LET answer == calls[c].answer
                     IN  answer # None /\ answer.kind = "answered"
                             => answer.attempt = calls[c].attempt

\* The answer to an action whose caller gave up does not cost the companion its
\* connection while the tombstone is kept (abandon_pending).
LateAnswerIsHarmless ==
    [][\A r \in requests :
          (/\ r.conn = state.session /\ sockets[r.conn].stage = "serving"
           /\ ~r.late
           /\ \A q \in requests' : <<q.call, q.conn>> # <<r.call, r.conn>>)
              => sockets'[r.conn].stage = "serving"]_vars

Binders(p) == {c \in Calls : calls[c].op = "bind" /\ calls[c].page = p}

\* A binding that is answered with an error leaves no page in a grant, even when
\* the page had been entered and its publication failed: a page that was asked for
\* is there for a binding that worked or is not answered yet.
FailedBindingLeavesNoPage ==
    \A x \in AllPages :
        Binders(x[2].page) # {}
            => \E c \in Binders(x[2].page) : calls[c].answer = None \/ calls[c].answer.kind = "bound"

\* A page that a release took out of its grant does not come back: not with a late
\* report, not with a renewal that had read the grant before.
ReleasedPageStaysUnbound ==
    \A d \in Calls : owned[d].cleared
                        => \A x \in AllPages : <<x[1], x[2].page>> # owned[d].key

\* Every call returns, whatever becomes of its connection.
CallsReturn == <>(\A c \in Calls : calls[c].stage = "done")

\* A companion that connects comes to be served and a connection that ends is cleaned
\* up: nobody waits for grant_updates or for a dead connection's queue for ever.
SocketsSettle == []<>(\A k \in Connections : sockets[k].stage \in {"new", "serving", "gone"})
=============================================================================
