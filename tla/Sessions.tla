------------------------------ MODULE Sessions ------------------------------
(***************************************************************************)
(* Sessions from their creation to their end, over the worker pool: the       *)
(* session registry (crates/session-manager), session ownership               *)
(* (crates/interface-core/src/session_ownership.rs), the page registry        *)
(* (crates/page-runtime/src/lib.rs), the authenticated operations that use    *)
(* them (crates/sdk-core/src/interface.rs) and the sessions of an MCP         *)
(* connection (crates/mcp-gateway/src/server/connection_sessions.rs).         *)
(*                                                                           *)
(* A request is a future of one principal: it comes over HTTP, or over the    *)
(* one MCP connection, and it is dropped when its client goes or cancels it.  *)
(* What the server does for itself (the task of an MCP session_create, the    *)
(* deletes after a disconnect) is spawned and is not dropped.  Each await is  *)
(* the end of a step.                                                         *)
(***************************************************************************)
EXTENDS WorkerPool

CONSTANTS
    Capacity,       \* capacity of the ownership registry
    Pages,          \* pages that can exist at once
    Clients         \* where requests come from: "http", "mcp"

ASSUME SessionsAssumption ==
    /\ IsFiniteSet(Calls)
    /\ Capacity \in Nat \ {0}
    /\ None \notin Pages
    /\ Clients \subseteq {"http", "mcp"}

VARIABLES
    registered,     \* SessionManager::inner
    owned,          \* RegistryState::owners
    pages,          \* the pages of each session in PageRuntime::inner
    op,             \* the operation each request is in
    conn,           \* the MCP connection: "open", "draining" or "closing"
    ids,            \* ConnectionSessions: the ids it recorded
    toClose         \* the ids DisconnectGuard took and has not dealt with

\* History.
VARIABLES
    minted,         \* session ids that were made up
    byConn          \* sessions that the MCP connection created

sessionVars == <<registered, owned, pages, op, conn, ids, toClose,
                 minted, byConn>>
vars == <<poolVars, sessionVars>>

NoOp == [kind |-> "none", at |-> "none", via |-> "none", session |-> None,
         page |-> None]

Vias == {"http", "mcp", "server"}

Stages == [create |-> {"lease", "insert", "record"},
           open   |-> {"lease", "use", "revive", "invalidate", "relaunch", "again", "retry"},
           delete |-> {"release", "unregister", "pages", "disown"}]

Init ==
    /\ PoolInit
    /\ registered = {}
    /\ owned = {}
    /\ pages = [s \in Sessions |-> {}]
    /\ op = [c \in Calls |-> NoOp]
    /\ conn = "open"
    /\ ids = {}
    /\ toClose = {}
    /\ minted = {}
    /\ byConn = {}

At(c, kind, stage) == op[c].kind = kind /\ op[c].at = stage

Go(c, stage) == op' = [op EXCEPT ![c].at = stage]

End(c) == op' = [op EXCEPT ![c] = NoOp]

Begin(c, kind, stage, via, s) ==
    /\ op[c] = NoOp
    /\ op' = [op EXCEPT ![c] = [kind |-> kind, at |-> stage, via |-> via,
                                 session |-> s, page |-> None]]

\* Requests reach the server until the connection's input ends.
Arrives(via) == via = "mcp" => conn = "open"

-----------------------------------------------------------------------------
(* create_session.                                                           *)

Reservations == {c \in Calls : op[c].kind = "create" /\ op[c].at \in {"lease", "insert"}}

HasCapacity_owners == Cardinality(owned) < Capacity

\* SessionOwnershipRecorder::reserve.
HasCapacity == Cardinality(owned) + Cardinality(Reservations) < Capacity

\* The ownership reservation, then the new session's first lease.  An MCP
\* session_create runs in a spawned task.
create_session(c, via) ==
    /\ Arrives(via)
    /\ HasCapacity
    /\ \E s \in Sessions \ minted :
        /\ Begin(c, "create", "lease", IF via = "mcp" THEN "server" ELSE via, s)
        /\ Lease(c, s)
        /\ minted' = minted \cup {s}
        /\ byConn' = IF via = "mcp" THEN byConn \cup {s} ELSE byConn
    /\ UNCHANGED <<registered, owned, pages, conn, ids, toClose>>

\* The lease only warms the worker up: it is dropped before the session is
\* inserted.  Without it the session is not created.
created(c) ==
    /\ At(c, "create", "lease")
    /\ Return(c)
    /\ IF call[c].at = "leased" THEN Go(c, "insert") ELSE End(c)
    /\ UNCHANGED <<registered, owned, pages, conn, ids, toClose, minted, byConn>>

\* The insertion and the finalisation of the reservation, with no await between.
insert(c) ==
    LET s == op[c].session
    IN  /\ At(c, "create", "insert")
        /\ registered' = registered \cup {s}
        /\ owned' = owned \cup {s}
        /\ IF op[c].via = "server" THEN Go(c, "record") ELSE End(c)
        /\ UNCHANGED <<poolVars, pages, conn, ids, toClose, minted, byConn>>

record_late(c) ==
    /\ At(c, "create", "record")
    /\ ids' = ids \cup {op[c].session}
    /\ End(c)
    /\ UNCHANGED <<poolVars, registered, owned, pages, conn, toClose, minted, byConn>>

\* What delete_session needs: the caller owns the session and it is registered.
Deletable(s) == s \in owned /\ s \in registered

\* create_recorded_session: the connection takes the session, or, when it is
\* closing, the creator deletes it.
record(c) ==
    LET s == op[c].session
    IN  /\ At(c, "create", "record")
        /\ IF conn # "closing"
           THEN /\ ids' = ids \cup {s}
                /\ End(c)
                /\ UNCHANGED poolVars
           ELSE /\ IF Deletable(s)
                   THEN /\ release_session(c, s)
                        /\ op' = [op EXCEPT ![c].kind = "delete", ![c].at = "release"]
                   ELSE End(c) /\ UNCHANGED poolVars
                /\ UNCHANGED ids
        /\ UNCHANGED <<registered, owned, pages, conn, toClose, minted, byConn>>

-----------------------------------------------------------------------------
(* delete_session.                                                           *)

delete_session(c, s, via) ==
    /\ Arrives(via)
    /\ Deletable(s)
    /\ Begin(c, "delete", "release", via, s)
    /\ release_session(c, s)
    /\ UNCHANGED <<registered, owned, pages, conn, ids, toClose, minted, byConn>>

\* The worker was released, or release_timeout is over and the clean-up goes on
\* alone.
released(c) ==
    /\ At(c, "delete", "release")
    /\ CleanupReturns(c) \/ (Fault /\ Drop(c))
    /\ Go(c, "unregister")
    /\ UNCHANGED <<registered, owned, pages, conn, ids, toClose, minted, byConn>>

unregister(c) ==
    /\ At(c, "delete", "unregister")
    /\ registered' = registered \ {op[c].session}
    /\ Go(c, "pages")
    /\ UNCHANGED <<poolVars, owned, pages, conn, ids, toClose, minted, byConn>>

remove_session_pages(c) ==
    /\ At(c, "delete", "pages")
    /\ pages' = [pages EXCEPT ![op[c].session] = {}]
    /\ Go(c, "disown")
    /\ UNCHANGED <<poolVars, registered, owned, conn, ids, toClose, minted, byConn>>

\* After the promotions are flushed: the ownership is released, and an MCP
\* session_close forgets the session.
disown(c) ==
    /\ At(c, "delete", "disown")
    /\ owned' = owned \ {op[c].session}
    /\ ids' = IF op[c].via = "mcp" THEN ids \ {op[c].session} ELSE ids
    /\ End(c)
    /\ UNCHANGED <<poolVars, registered, pages, conn, toClose, minted, byConn>>

-----------------------------------------------------------------------------
(* open_page.                                                                *)

LivePages == UNION {pages[s] : s \in Sessions} \cup {op[c].page : c \in Calls}

\* The bound on pages: each open_page that is under way has one to come.
PageRoom ==
    Cardinality(LivePages \ {None}) + Cardinality({c \in Calls : At(c, "open", "lease")})
        < Cardinality(Pages)

open_page(c, s, via) ==
    /\ Arrives(via)
    /\ s \in owned
    /\ s \in registered
    /\ PageRoom
    /\ Begin(c, "open", "lease", via, s)
    /\ Lease(c, s)
    /\ UNCHANGED <<registered, owned, pages, conn, ids, toClose, minted, byConn>>

remove_page(c) == pages' = [pages EXCEPT ![op[c].session] = @ \ {op[c].page}]

\* open_browser registers the page under the lease.
register_page(c) ==
    /\ At(c, "open", "lease")
    /\ \/ /\ call[c].at = "leased"
          /\ \E p \in Pages \ LivePages :
                /\ pages' = [pages EXCEPT ![op[c].session] = @ \cup {p}]
                /\ op' = [op EXCEPT ![c].at = "use", ![c].page = p]
          /\ UNCHANGED poolVars
       \/ /\ call[c].at = "failed"
          /\ Return(c)
          /\ End(c)
          /\ UNCHANGED pages
    /\ UNCHANGED <<registered, owned, conn, ids, toClose, minted, byConn>>

\* The worker opens the page, refuses to, or turns out to be dead; on the retry
\* a dead worker is an error like any other.
use(c) ==
    /\ At(c, "open", "use") \/ At(c, "open", "retry")
    /\ \/ /\ call[c].worker \notin crashed
          /\ Return(c)
          /\ End(c)
          /\ UNCHANGED pages \/ remove_page(c)
       \/ /\ op[c].at = "use"
          /\ LetGo(c)
          /\ Go(c, "revive")
          /\ UNCHANGED pages
       \/ /\ op[c].at = "retry"
          /\ call[c].worker \in crashed
          /\ Return(c)
          /\ End(c)
          /\ remove_page(c)
    /\ UNCHANGED <<registered, owned, conn, ids, toClose, minted, byConn>>

revive(c) ==
    /\ \/ /\ At(c, "open", "revive")
          /\ invalidate_session_if_worker(c)
          /\ Go(c, "invalidate")
       \/ /\ At(c, "open", "invalidate")
          /\ CleanupReturns(c)
          /\ Go(c, "relaunch")
       \/ /\ At(c, "open", "relaunch")
          /\ Lease(c, op[c].session)
          /\ Go(c, "again")
    /\ UNCHANGED <<registered, owned, pages, conn, ids, toClose, minted, byConn>>

revived(c) ==
    /\ At(c, "open", "again")
    /\ \/ /\ call[c].at = "leased"
          /\ Go(c, "retry")
          /\ UNCHANGED <<poolVars, pages>>
       \/ /\ call[c].at = "failed"
          /\ Return(c)
          /\ remove_page(c)
          /\ End(c)
    /\ UNCHANGED <<registered, owned, conn, ids, toClose, minted, byConn>>

-----------------------------------------------------------------------------
(* The end of requests and of the connection.                                *)

\* The request's client goes, or cancels it: the future is dropped at an await.
drop(c) ==
    /\ op[c].via \in {"http", "mcp"}
    /\ \/ op[c].via = "mcp" /\ conn = "draining" /\ UNCHANGED faults
       \/ Fault
    /\ \/ Drop(c)
       \/ call[c].at = "out" /\ UNCHANGED <<entries, cell, queue, call, task, cleanup, crashed>>
    /\ End(c)
    /\ UNCHANGED <<registered, owned, pages, conn, ids, toClose, minted, byConn>>

\* The input ends: no more requests, and those in flight are cancelled.
eof ==
    /\ conn = "open"
    /\ conn' = "draining"
    /\ UNCHANGED <<poolVars, registered, owned, pages, op, ids, toClose, minted, byConn>>

\* No request of the connection is left and the guard takes the recorded ids.
disconnect ==
    /\ conn = "draining"
    /\ \A c \in Calls : op[c].via # "mcp"
    /\ conn' = "closing"
    /\ toClose' = ids
    /\ ids' = {}
    /\ UNCHANGED <<poolVars, registered, owned, pages, op, minted, byConn>>

\* delete_session_quietly: a session that is not there any more is closed.
delete_session_quietly(c, s) ==
    /\ s \in toClose
    /\ op[c] = NoOp
    /\ toClose' = toClose \ {s}
    /\ IF Deletable(s)
       THEN Begin(c, "delete", "release", "server", s) /\ release_session(c, s)
       ELSE UNCHANGED <<op, poolVars>>
    /\ UNCHANGED <<registered, owned, pages, conn, ids, minted, byConn>>

-----------------------------------------------------------------------------

Request(c) ==
    \E via \in Clients :
        \/ create_session(c, via)
        \/ \E s \in Sessions : delete_session(c, s, via) \/ open_page(c, s, via)

Progress(c) ==
    \/ created(c) \/ insert(c) \/ record(c)
    \/ released(c) \/ unregister(c) \/ remove_session_pages(c) \/ disown(c)
    \/ register_page(c) \/ use(c) \/ revive(c) \/ revived(c)

Next ==
    \/ PoolStep /\ UNCHANGED sessionVars
    \/ \E c \in Calls : Request(c) \/ Progress(c) \/ drop(c)
    \/ "mcp" \in Clients /\ eof
    \/ disconnect
    \/ \E c \in Calls, s \in Sessions : delete_session_quietly(c, s)

Spec == Init /\ [][Next]_vars

\* The pool's own fairness; every operation goes on; and after the end of the
\* input the connection's requests are dropped and its sessions are closed.
Quiet(A) == A /\ UNCHANGED sessionVars

Fairness ==
    /\ \A c \in Calls : /\ WF_vars(Quiet(CallGoesOn(c)) \/ Progress(c))
                        /\ SF_vars(Quiet(TakePermit(c)))
                        /\ WF_vars(conn = "draining" /\ op[c].via = "mcp" /\ drop(c))
    /\ \A t \in Tasks : WF_vars(Quiet(TaskGoesOn(t))) /\ WF_vars(Quiet(Abort(t)))
    /\ \A k \in Cleanups : WF_vars(Quiet(CleanupGoesOn(k)))
    /\ WF_vars(disconnect)
    /\ \A s \in Sessions : SF_vars(\E c \in Calls : delete_session_quietly(c, s))

FairSpec == Spec /\ Fairness

-----------------------------------------------------------------------------
(* Properties.                                                               *)

\* The types of the state of the sessions and of the pool; a request that is
\* over holds nothing of the pool.
TypeOK ==
    /\ PoolTypeOK
    /\ registered \subseteq Sessions
    /\ owned \subseteq Sessions
    /\ pages \in [Sessions -> SUBSET Pages]
    /\ \A c \in Calls :
        \/ op[c] = NoOp
        \/ /\ op[c].kind \in DOMAIN Stages
           /\ op[c].at \in Stages[op[c].kind]
           /\ op[c].via \in Vias
           /\ op[c].session \in Sessions
           /\ op[c].page \in Pages \cup {None}
    /\ \A c \in Calls :
        \/ call[c].at = "out"
        \/ op[c].at \in {"lease", "again"} /\ call[c].session = op[c].session
        \/ op[c].at \in {"use", "retry"} /\ call[c].at = "leased"
        \/ op[c].at = "revive" /\ call[c].at = "dead"
        \/ op[c].at \in {"release", "invalidate"} /\ call[c].at = "cleanup"
    /\ conn \in {"open", "draining", "closing"}
    /\ ids \subseteq Sessions
    /\ toClose \subseteq Sessions
    /\ minted \subseteq Sessions
    /\ byConn \subseteq minted

\* Whoever is registered is owned, and the sessions that are owned or being
\* created never exceed the capacity, whatever is dropped between the
\* reservation and its finalisation (session_ownership.rs, reserve/finalize).
OwnershipCoversSessions ==
    /\ registered \subseteq owned
    /\ Cardinality(owned) + Cardinality(Reservations) <= Capacity

\* A connection that ends leaves none of its sessions registered, not even one
\* whose creation was still under way (connection_sessions.rs).
ConnectionLeavesNoSession ==
    \A s \in Sessions :
        (s \in byConn /\ s \in registered /\ conn = "closing") ~> s \notin registered

=============================================================================
