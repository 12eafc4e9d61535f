-------------------------- MODULE CompanionCommands --------------------------
(***************************************************************************)
(* The inductive invariant of CompanionSession, what its operators do, and    *)
(* that the steps of the connections' sockets and of the extension's commands *)
(* keep it.  CompanionBindings and CompanionProofs have the other steps, and   *)
(* the theorems.                                                              *)
(***************************************************************************)
EXTENDS CompanionSession, TLAPS

-----------------------------------------------------------------------------
(* The inductive invariant.                                                  *)

Types ==
    /\ state \in SessionState
    /\ gate \in Connections \cup Calls \cup {None}
    /\ lease \in [Attachments -> {"none", "live", "expired"}]
    /\ sockets \in [Connections -> SocketRecord]
    /\ requests \subseteq [conn : Connections, call : Calls, attempt : 1..3, late : BOOLEAN]
    /\ calls \in [Calls -> CallRecord]
    /\ owned \in [Calls -> ReleaseRecord]
    /\ releases \in [Keys -> Calls \cup {None}]

\* The connection has been registered, now or before.
Past(k) == sockets[k].stage \notin {"new", "registering"}

\* The registered connection is past its registration, so it cannot be registered again.
ServeInv == OneConnectionServes /\ (state.session # None => Past(state.session))

\* The steps of each operation.
StagesOf(op) ==
    CASE op = "dispatch" -> {"resolve", "check", "asleep", "ready", "sending", "awaiting",
                             "granting", "grantSending", "done"}
      [] op = "bind" -> {"begin", "ticket", "removing", "done"}
      [] op = "release" -> {"release", "joined", "done"}
      [] op = "grant" -> {"granting", "grantSending", "done"}
      [] op = "renew" -> {"renewing", "renewSending", "done"}
      [] op = "discover" -> {"discovering", "unseen", "done"}

\* What a call or a release has at each of its steps.
PathInv(c) ==
    /\ calls[c].att \in Attachments /\ calls[c].page \in Pages
    /\ calls[c].stage \in StagesOf(calls[c].op)
    /\ calls[c].stage \in {"sending", "awaiting", "grantSending", "renewSending",
                           "ticket", "removing"} => calls[c].conn \in Connections
    /\ owned[c].stage # "none"
          => calls[c].op = "release" /\ calls[c].stage # "release" /\ owned[c].key \in Keys
    /\ owned[c].stage \in {"gate", "publish"} => owned[c].conn \in Connections
    /\ owned[c].stage = "seen" => owned[c].seen \in Connections

\* grant_updates is held by whoever is about to send a grant, and by nobody else.
GateInv ==
    /\ \A k \in Connections : sockets[k].stage = "publishing" <=> gate = k
    /\ \A c \in Calls : (\/ calls[c].stage \in {"grantSending", "renewSending"}
                         \/ owned[c].stage = "publish") <=> gate = c

\* A command that is expected and heard is that of a call on the same connection which
\* has no answer; a call that was told its connection closed is not on the one that
\* serves.
DispatchInv(c) ==
    LET x == calls[c]
        p == state.pending[c]
    IN  /\ p # None => x.op = "dispatch"
        /\ p # None /\ p.heard
              => x.stage \in {"sending", "awaiting"} /\ x.conn = p.conn /\ x.answer = None
        /\ x.op = "dispatch" /\ x.stage \notin {"sending", "awaiting", "done"} => x.answer = None
        /\ x.op = "dispatch" /\ x.stage \in {"granting", "grantSending"} => x.attempt = 2
        /\ x.stage \in {"sending", "awaiting"} => Past(x.conn)
        /\ x.stage = "sending" /\ x.conn = state.session => p # None /\ p.heard
        /\ x.stage \in {"sending", "awaiting"} /\ x.answer # None /\ x.answer.kind = "closed"
              => x.conn # state.session
        /\ x.answer # None /\ x.answer.kind = "answered" => x.answer.attempt = x.attempt

\* A request of an earlier attempt is on a connection that no longer serves; a request
\* on the one that serves is expected until its retention has passed.
RequestInv(r) ==
    LET x == calls[r.call]
        p == state.pending[r.call]
    IN  /\ x.op = "dispatch" /\ Past(r.conn) /\ r.attempt <= x.attempt
        /\ r.attempt < x.attempt => r.conn # state.session
        /\ r.attempt = x.attempt
              => x.stage \in {"awaiting", "done"} /\ (x.stage = "awaiting" => x.conn = r.conn)
        /\ r.conn = state.session /\ ~r.late => Of(p, r.conn) /\ (p.heard \/ ~p.lapsed)
        /\ \A q \in requests : q.call = r.call /\ q.attempt = r.attempt => q = r

PagesAt(a) == PagesOf(state.grants[a]) \cup PagesOf(state.orphaned[a])

\* While a report's grant is being sent the grant is as the report left it, and differs
\* from what it was by the page of the call that asked for it.
PublishInv(k) ==
    LET b == sockets[k].binding
        page == calls[b.call].page
    IN  sockets[k].stage = "publishing" =>
          /\ b # None
          /\ Of(state.grants[b.att], k) /\ state.grants[b.att].pages = b.after
          /\ b.before \subseteq b.after
          /\ \A g \in b.before : g.page # page
          /\ \A g \in b.after \ b.before : g.page = page
          /\ HasPage(b.after, page)
          /\ calls[b.call].op = "bind" /\ calls[b.call].stage # "begin"
          /\ calls[b.call].answer = None /\ state.bindings[b.call] = None

\* A renewal stores the pages that are there.
RenewInv(c) ==
    calls[c].stage = "renewSending" /\ Of(state.grants[calls[c].att], calls[c].conn)
        => state.grants[calls[c].att].pages = calls[c].pages

\* A binding waits for a page that is nowhere bound, that no other binding waits for and
\* that no release has taken out since it was asked for.
BindInv(c) ==
    LET x == calls[c]
        b == state.bindings[c]
    IN  /\ x.op = "bind" /\ x.stage = "begin" => x.answer = None
        /\ b # None =>
              /\ x.op = "bind" /\ x.stage \in {"ticket", "removing"} /\ x.answer = None
              /\ b.att = x.att /\ b.page = x.page /\ b.conn = x.conn
              /\ \A a \in Attachments : ~HasPage(PagesAt(a), b.page)
              /\ \A d \in Calls \ {c} : state.bindings[d] # None => state.bindings[d].page # b.page
              /\ \A d \in Calls : owned[d].cleared => owned[d].key # <<b.att, b.page>>

\* The call a bound page is there for, if some call asked for it, was told so or is about
\* to be.
Answerable(c) ==
    \/ calls[c].answer # None /\ calls[c].answer.kind = "bound"
    \/ /\ calls[c].answer = None
       /\ \E k \in Connections : sockets[k].stage = "publishing" /\ sockets[k].binding.call = c

PagesInv ==
    /\ \A a, b \in Attachments : \A g \in PagesAt(a), h \in PagesAt(b) :
          g.target = h.target \/ g.page = h.page => a = b /\ g = h
    /\ \A a \in Attachments : \A g \in PagesAt(a) :
          Binders(g.page) # {} => \E c \in Binders(g.page) : Answerable(c)
    /\ \A d \in Calls : owned[d].cleared
          => \A a \in Attachments : \A g \in PagesAt(a) : owned[d].key # <<a, g.page>>

CompanionInv ==
    /\ Types /\ ServeInv /\ GateInv /\ PagesInv
    /\ \A c \in Calls : PathInv(c) /\ DispatchInv(c) /\ RenewInv(c) /\ BindInv(c)
    /\ \A k \in Connections : PublishInv(k)
    /\ \A r \in requests : RequestInv(r)

-----------------------------------------------------------------------------
(* What the operators on the calls do.                                       *)

CallsType == [Calls -> CallRecord]

\* cs is calls but for call c, which keeps what it is for.
Only(c, cs) ==
    /\ cs \in CallsType
    /\ \A d \in Calls \ {c} : cs[d] = calls[d]
    /\ cs[c].op = calls[c].op /\ cs[c].page = calls[c].page

\* ... and its attachment, its pages, its attempt and its answer.
Keeps(c, cs) ==
    /\ cs[c].att = calls[c].att /\ cs[c].attempt = calls[c].attempt
    /\ cs[c].answer = calls[c].answer

LEMMA EndedFields ==
    ASSUME Types, NEW c \in Calls
    PROVE  Only(c, Ended(c)) /\ Keeps(c, Ended(c)) /\ Ended(c)[c].stage = "done"
  <1>1. calls[c] \in CallRecord /\ calls \in CallsType BY Zenon DEF Types, CallsType
  <1> DEFINE r == [calls[c] EXCEPT !.stage = "done", !.conn = None, !.inTime = FALSE]
  <1>2. Ended(c) = [calls EXCEPT ![c] = r] BY <1>1, Zenon DEF Ended, CallsType
  <1>3. r \in CallRecord BY <1>1, Zenon DEF CallRecord
  <1>4. /\ r.stage = "done" /\ r.op = calls[c].op /\ r.page = calls[c].page
        /\ r.att = calls[c].att /\ r.attempt = calls[c].attempt /\ r.answer = calls[c].answer
    BY <1>1, Zenon DEF CallRecord
  <1> HIDE DEF r
  <1> QED BY <1>1, <1>2, <1>3, <1>4, Zenon DEF Only, Keeps, CallsType

\* The calls of S are told the same, and nothing else of a call changes.
SameBut(x, y) ==
    /\ x.op = y.op /\ x.stage = y.stage /\ x.att = y.att /\ x.page = y.page /\ x.conn = y.conn
    /\ x.pages = y.pages /\ x.attempt = y.attempt

Hear(S, kind, n, cs) ==
    /\ cs \in CallsType
    /\ \A d \in Calls \ S : cs[d] = calls[d]
    /\ \A d \in Calls : SameBut(cs[d], calls[d])
    /\ \A d \in Calls \cap S : cs[d].answer # None /\ cs[d].answer.kind = kind
                                /\ cs[d].answer.attempt = n

LEMMA ToldFields ==
    ASSUME Types, NEW S, NEW n \in 0..3,
           NEW kind \in {"answered", "bound", "closed", "expired", "refused", "released"}
    PROVE  Hear(S, kind, n, Told(S, kind, n))
  <1> DEFINE v == [kind |-> kind, attempt |-> n]
  <1>1. v \in Answers /\ v # None BY CompanionAssumption DEF Answers
  <1>v. v.kind = kind /\ v.attempt = n BY Zenon
  <1> HIDE DEF v
  <1>2. calls \in CallsType BY Zenon DEF Types, CallsType
  <1>3. ASSUME NEW d \in Calls
        PROVE  /\ [calls[d] EXCEPT !.answer = v] \in CallRecord
               /\ [calls[d] EXCEPT !.answer = v].answer = v
               /\ SameBut([calls[d] EXCEPT !.answer = v], calls[d])
    <2>1. calls[d] \in CallRecord BY <1>2, Zenon DEF CallsType
    <2> QED BY <1>1, <2>1, Zenon DEF CallRecord, SameBut
  <1>4. Told(S, kind, n) = [c \in Calls |-> IF c \in S THEN [calls[c] EXCEPT !.answer = v] ELSE calls[c]]
    BY Zenon DEF Told, v
  <1>5. Told(S, kind, n) \in CallsType BY <1>2, <1>3, <1>4, Zenon DEF CallsType
  <1>6. ASSUME NEW d \in Calls PROVE SameBut(Told(S, kind, n)[d], calls[d])
    BY <1>3, <1>4 DEF SameBut
  <1> QED BY <1>1, <1>v, <1>3, <1>4, <1>5, <1>6, Zenon DEF Hear

\* A call that sleeps is awake.
Wake(cs) ==
    /\ cs \in CallsType
    /\ \A d \in Calls :
          \/ cs[d] = calls[d]
          \/ /\ calls[d].stage = "asleep" /\ cs[d].stage = "check"
             /\ cs[d].op = calls[d].op /\ cs[d].att = calls[d].att /\ cs[d].page = calls[d].page
             /\ cs[d].attempt = calls[d].attempt /\ cs[d].answer = calls[d].answer

LEMMA WokenFields == ASSUME Types PROVE Wake(Woken(calls))
  <1>2. calls \in CallsType BY Zenon DEF Types, CallsType
  <1>3. ASSUME NEW d \in Calls
        PROVE  LET r == [calls[d] EXCEPT !.stage = "check"]
               IN  /\ r \in CallRecord /\ r.stage = "check" /\ r.op = calls[d].op
                   /\ r.att = calls[d].att /\ r.page = calls[d].page
                   /\ r.attempt = calls[d].attempt /\ r.answer = calls[d].answer
    <2>1. calls[d] \in CallRecord BY <1>2, Zenon DEF CallsType
    <2> QED BY <2>1, Zenon DEF CallRecord
  <1>4. Woken(calls) \in CallsType BY <1>2, <1>3, Zenon DEF CallsType, Woken
  <1>5. ASSUME NEW d \in Calls
        PROVE  Woken(calls)[d] = IF calls[d].stage = "asleep" THEN [calls[d] EXCEPT !.stage = "check"]
                                 ELSE calls[d]
    BY Zenon DEF Woken
  <1> QED BY <1>3, <1>4, <1>5, Zenon DEF Wake

\* What becomes of a command that is refused or whose connection closed.
LEMMA RetryFields ==
    ASSUME Types, NEW c \in Calls, NEW e \in {"ConnectionClosed", "GrantUnavailable"}
    PROVE  LET cs == Retry(c, e)
           IN  /\ Only(c, cs)
               /\ \/ /\ e = "ConnectionClosed" /\ calls[c].attempt = 1 /\ cs[c].attempt = 2
                     /\ cs[c].stage = "resolve" /\ cs[c].answer = None /\ cs[c].att = calls[c].att
                  \/ /\ e = "GrantUnavailable" /\ calls[c].attempt = 2 /\ cs[c].attempt = 2
                     /\ cs[c].stage = "granting" /\ cs[c].answer = None /\ cs[c].att = calls[c].att
                  \/ cs[c].stage = "done" /\ Keeps(c, cs)
  <1>1. calls[c] \in CallRecord /\ calls \in CallsType BY Zenon DEF Types, CallsType
  <1>2. CASE e = "ConnectionClosed" /\ calls[c].attempt = 1
    <2> DEFINE r == [calls[c] EXCEPT !.stage = "resolve", !.answer = None, !.attempt = 2]
    <2>1. Retry(c, e) = [calls EXCEPT ![c] = r] BY <1>1, <1>2, Zenon DEF Retry, Unanswered, CallsType
    <2>a. 2 \in 1..3 OBVIOUS
    <2>2. r \in CallRecord BY <1>1, <2>a, Zenon DEF CallRecord
    <2>3. /\ r.stage = "resolve" /\ r.op = calls[c].op /\ r.page = calls[c].page
          /\ r.att = calls[c].att /\ r.attempt = 2 /\ r.answer = None
      BY <1>1, Zenon DEF CallRecord
    <2> HIDE DEF r
    <2> QED BY <1>1, <1>2, <2>1, <2>2, <2>3, Zenon DEF Only, Keeps, CallsType
  <1>3. CASE e = "GrantUnavailable" /\ calls[c].attempt = 2
    <2> DEFINE r == [calls[c] EXCEPT !.stage = "granting", !.answer = None]
    <2>1. Retry(c, e) = [calls EXCEPT ![c] = r] BY <1>1, <1>3, Zenon DEF Retry, Unanswered, CallsType
    <2>2. r \in CallRecord BY <1>1, Zenon DEF CallRecord
    <2>3. /\ r.stage = "granting" /\ r.op = calls[c].op /\ r.page = calls[c].page
          /\ r.att = calls[c].att /\ r.attempt = 2 /\ r.answer = None
      BY <1>1, <1>3, Zenon DEF CallRecord
    <2> HIDE DEF r
    <2> QED BY <1>1, <1>3, <2>1, <2>2, <2>3, Zenon DEF Only, Keeps, CallsType
  <1>4. CASE ~(e = "ConnectionClosed" /\ calls[c].attempt = 1)
             /\ ~(e = "GrantUnavailable" /\ calls[c].attempt = 2)
    <2>1. Retry(c, e) = Ended(c) BY <1>4, Zenon DEF Retry
    <2> QED BY <2>1, EndedFields, Zenon
  <1> QED BY <1>2, <1>3, <1>4, Zenon

-----------------------------------------------------------------------------
(* What the operators on the coordinator's state do.                         *)

LEMMA StateFields ==
    ASSUME NEW s \in SessionState
    PROVE  /\ s.session \in Connections \cup {None}
           /\ s.discovery \in DiscoveryRecord \cup {None}
           /\ s.grants \in [Attachments -> GrantRecord \cup {None}]
           /\ s.orphaned \in [Attachments -> GrantRecord \cup {None}]
           /\ s.pending \in [Calls -> PendingCommand \cup {None}]
           /\ s.bindings \in [Calls -> PendingBinding \cup {None}]
           /\ \A a \in Attachments : s.grants[a] \in GrantRecord \cup {None}
           /\ \A a \in Attachments : s.orphaned[a] \in GrantRecord \cup {None}
           /\ \A c \in Calls : s.pending[c] \in PendingCommand \cup {None}
           /\ \A c \in Calls : s.bindings[c] \in PendingBinding \cup {None}
  BY Zenon DEF SessionState

LEMMA RemoveFields ==
    ASSUME NEW s \in SessionState, NEW k
    PROVE  LET t == remove_connection_state(s, k)
           IN  /\ t \in SessionState /\ t.session = s.session
               /\ t.discovery = IF Of(s.discovery, k) THEN None ELSE s.discovery
               /\ \A a \in Attachments :
                     /\ t.grants[a] = IF Of(s.grants[a], k) THEN None ELSE s.grants[a]
                     /\ t.orphaned[a] = IF Of(s.grants[a], k) THEN s.grants[a] ELSE s.orphaned[a]
               /\ \A c \in Calls :
                     /\ t.pending[c] = IF Of(s.pending[c], k) THEN None ELSE s.pending[c]
                     /\ t.bindings[c] = IF Of(s.bindings[c], k) THEN None ELSE s.bindings[c]
  <1> DEFINE t == remove_connection_state(s, k)
             dis == IF Of(s.discovery, k) THEN None ELSE s.discovery
             gra == [a \in Attachments |-> IF Of(s.grants[a], k) THEN None ELSE s.grants[a]]
             orp == [a \in Attachments |-> IF Of(s.grants[a], k) THEN s.grants[a] ELSE s.orphaned[a]]
             pen == [c \in Calls |-> IF Of(s.pending[c], k) THEN None ELSE s.pending[c]]
             bin == [c \in Calls |-> IF Of(s.bindings[c], k) THEN None ELSE s.bindings[c]]
  <1>1. /\ s.session \in Connections \cup {None}
        /\ dis \in DiscoveryRecord \cup {None}
        /\ gra \in [Attachments -> GrantRecord \cup {None}]
        /\ orp \in [Attachments -> GrantRecord \cup {None}]
        /\ pen \in [Calls -> PendingCommand \cup {None}]
        /\ bin \in [Calls -> PendingBinding \cup {None}]
    BY StateFields, Zenon
  <1>2. t = [s EXCEPT !.session = s.session, !.discovery = dis, !.grants = gra,
                                !.orphaned = orp, !.pending = pen, !.bindings = bin]
    BY Zenon DEF remove_connection_state, SessionState
  <1>3. /\ \A a \in Attachments :
              /\ gra[a] = IF Of(s.grants[a], k) THEN None ELSE s.grants[a]
              /\ orp[a] = IF Of(s.grants[a], k) THEN s.grants[a] ELSE s.orphaned[a]
        /\ \A c \in Calls :
              /\ pen[c] = IF Of(s.pending[c], k) THEN None ELSE s.pending[c]
              /\ bin[c] = IF Of(s.bindings[c], k) THEN None ELSE s.bindings[c]
    BY Zenon
  <1>4. dis = IF Of(s.discovery, k) THEN None ELSE s.discovery BY Zenon
  <1> HIDE DEF t, dis, gra, orp, pen, bin
  <1>5. /\ t \in SessionState
        /\ t.session = s.session /\ t.discovery = dis /\ t.grants = gra /\ t.orphaned = orp
        /\ t.pending = pen /\ t.bindings = bin
    BY <1>1, <1>2, Zenon DEF SessionState
  <1>6. /\ t.discovery = IF Of(s.discovery, k) THEN None ELSE s.discovery
        /\ \A a \in Attachments :
              /\ t.grants[a] = IF Of(s.grants[a], k) THEN None ELSE s.grants[a]
              /\ t.orphaned[a] = IF Of(s.grants[a], k) THEN s.grants[a] ELSE s.orphaned[a]
        /\ \A c \in Calls :
              /\ t.pending[c] = IF Of(s.pending[c], k) THEN None ELSE s.pending[c]
              /\ t.bindings[c] = IF Of(s.bindings[c], k) THEN None ELSE s.bindings[c]
    BY <1>3, <1>4, <1>5, Zenon
  <1> QED BY <1>5, <1>6, Zenon DEF t

LEMMA ReadoptFields ==
    ASSUME NEW s \in SessionState, NEW k \in Connections
    PROVE  LET t == [readopt_grants(s, k) EXCEPT !.session = k]
           IN  /\ t \in SessionState /\ t.session = k
               /\ t.discovery = s.discovery /\ t.pending = s.pending /\ t.bindings = s.bindings
               /\ \A a \in Attachments :
                     /\ t.orphaned[a] = None
                     /\ \/ /\ s.orphaned[a] # None /\ t.grants[a] # None /\ t.grants[a].conn = k
                           /\ t.grants[a].pages = s.orphaned[a].pages
                        \/ t.grants[a] = s.grants[a]
  <1> DEFINE t == [readopt_grants(s, k) EXCEPT !.session = k]
             gra == [a \in Attachments |->
                        IF s.orphaned[a] # None /\ s.orphaned[a].live
                        THEN [s.orphaned[a] EXCEPT !.conn = k] ELSE s.grants[a]]
             orp == [a \in Attachments |-> None]
  <1>1. ASSUME NEW a \in Attachments, s.orphaned[a] # None
        PROVE  /\ [s.orphaned[a] EXCEPT !.conn = k] \in GrantRecord
               /\ [s.orphaned[a] EXCEPT !.conn = k].conn = k
               /\ [s.orphaned[a] EXCEPT !.conn = k].pages = s.orphaned[a].pages
    <2>1. s.orphaned[a] \in GrantRecord BY <1>1, StateFields, Zenon
    <2> QED BY <2>1, Zenon DEF GrantRecord
  <1>2. /\ s.discovery \in DiscoveryRecord \cup {None}
        /\ gra \in [Attachments -> GrantRecord \cup {None}]
        /\ orp \in [Attachments -> GrantRecord \cup {None}]
        /\ s.pending \in [Calls -> PendingCommand \cup {None}]
        /\ s.bindings \in [Calls -> PendingBinding \cup {None}]
    BY <1>1, StateFields, Zenon
  <1>3. t = [s EXCEPT !.session = k, !.discovery = s.discovery, !.grants = gra,
                      !.orphaned = orp, !.pending = s.pending, !.bindings = s.bindings]
    BY Zenon DEF readopt_grants, SessionState
  <1>4. ASSUME NEW a \in Attachments
        PROVE  /\ orp[a] = None
               /\ \/ /\ s.orphaned[a] # None /\ gra[a] # None /\ gra[a].conn = k
                     /\ gra[a].pages = s.orphaned[a].pages
                  \/ gra[a] = s.grants[a]
    BY <1>1, CompanionAssumption, Zenon
  <1> HIDE DEF t, gra, orp
  <1>5. /\ t \in SessionState
        /\ t.session = k /\ t.discovery = s.discovery /\ t.grants = gra /\ t.orphaned = orp
        /\ t.pending = s.pending /\ t.bindings = s.bindings
    BY <1>2, <1>3, Zenon DEF SessionState
  <1> QED BY <1>4, <1>5, Zenon DEF t

LEMMA PurgeFields ==
    ASSUME NEW s \in SessionState
    PROVE  LET t == purge_expired_pending(s)
           IN  /\ t \in SessionState
               /\ t.session = s.session /\ t.discovery = s.discovery
               /\ t.grants = s.grants /\ t.orphaned = s.orphaned /\ t.bindings = s.bindings
               /\ \A c \in Calls :
                     t.pending[c] = IF s.pending[c] # None /\ s.pending[c].lapsed /\ ~s.pending[c].heard
                                    THEN None ELSE s.pending[c]
  <1> DEFINE t == purge_expired_pending(s)
             pen == [c \in Calls |->
                        IF s.pending[c] # None /\ s.pending[c].lapsed /\ ~s.pending[c].heard
                        THEN None ELSE s.pending[c]]
  <1>1. pen \in [Calls -> PendingCommand \cup {None}] BY StateFields, Zenon
  <1>2. t = [s EXCEPT !.pending = pen] BY Zenon DEF purge_expired_pending
  <1>3. \A c \in Calls : pen[c] = IF s.pending[c] # None /\ s.pending[c].lapsed /\ ~s.pending[c].heard
                                  THEN None ELSE s.pending[c]
    BY Zenon
  <1> HIDE DEF t, pen
  <1>4. /\ t \in SessionState /\ t.session = s.session /\ t.discovery = s.discovery
        /\ t.grants = s.grants /\ t.orphaned = s.orphaned /\ t.bindings = s.bindings
        /\ t.pending = pen
    BY <1>1, <1>2, Zenon DEF SessionState
  <1> QED BY <1>3, <1>4, Zenon DEF t

\* One entry of the pending commands, or of the bindings, or of the grants is replaced.
LEMMA PendingSet ==
    ASSUME NEW s \in SessionState, NEW c \in Calls, NEW v \in PendingCommand \cup {None}
    PROVE  LET t == [s EXCEPT !.pending[c] = v]
           IN  /\ t \in SessionState
               /\ t.session = s.session /\ t.discovery = s.discovery
               /\ t.grants = s.grants /\ t.orphaned = s.orphaned /\ t.bindings = s.bindings
               /\ t.pending[c] = v /\ \A d \in Calls \ {c} : t.pending[d] = s.pending[d]
  BY Zenon DEF SessionState

LEMMA BindingSet ==
    ASSUME NEW s \in SessionState, NEW c \in Calls, NEW v \in PendingBinding \cup {None}
    PROVE  LET t == [s EXCEPT !.bindings[c] = v]
           IN  /\ t \in SessionState
               /\ t.session = s.session /\ t.discovery = s.discovery
               /\ t.grants = s.grants /\ t.orphaned = s.orphaned /\ t.pending = s.pending
               /\ t.bindings[c] = v /\ \A d \in Calls \ {c} : t.bindings[d] = s.bindings[d]
  BY Zenon DEF SessionState

LEMMA GrantSet ==
    ASSUME NEW s \in SessionState, NEW a \in Attachments, NEW v \in GrantRecord \cup {None}
    PROVE  LET t == [s EXCEPT !.grants[a] = v]
           IN  /\ t \in SessionState
               /\ t.session = s.session /\ t.discovery = s.discovery
               /\ t.bindings = s.bindings /\ t.orphaned = s.orphaned /\ t.pending = s.pending
               /\ t.grants[a] = v /\ \A b \in Attachments \ {a} : t.grants[b] = s.grants[b]
  BY Zenon DEF SessionState

LEMMA DiscoverySet ==
    ASSUME NEW s \in SessionState, NEW v \in DiscoveryRecord \cup {None}
    PROVE  LET t == [s EXCEPT !.discovery = v]
           IN  /\ t \in SessionState /\ t.session = s.session /\ t.discovery = v
               /\ t.bindings = s.bindings /\ t.orphaned = s.orphaned /\ t.pending = s.pending
               /\ t.grants = s.grants
  BY Zenon DEF SessionState

LEMMA ExpireFields ==
    ASSUME NEW key, state \in SessionState
    PROVE  LET t == expire_page_bindings(state, key)
           IN  /\ t \in SessionState
               /\ t.session = state.session /\ t.discovery = state.discovery
               /\ t.grants = state.grants /\ t.orphaned = state.orphaned
               /\ t.pending = state.pending
               /\ \A c \in Calls : t.bindings[c] = IF c \in Awaited(key) THEN None ELSE state.bindings[c]
  <1> DEFINE t == expire_page_bindings(state, key)
             bin == [c \in Calls |-> IF c \in Awaited(key) THEN None ELSE state.bindings[c]]
  <1>1. bin \in [Calls -> PendingBinding \cup {None}] BY StateFields, Zenon
  <1>2. t = [state EXCEPT !.bindings = bin] BY Zenon DEF expire_page_bindings
  <1>3. \A c \in Calls : bin[c] = IF c \in Awaited(key) THEN None ELSE state.bindings[c]
    BY Zenon
  <1> HIDE DEF t, bin
  <1>4. /\ t \in SessionState /\ t.session = state.session /\ t.discovery = state.discovery
        /\ t.grants = state.grants /\ t.orphaned = state.orphaned /\ t.bindings = bin
        /\ t.pending = state.pending
    BY <1>1, <1>2, Zenon DEF SessionState
  <1> QED BY <1>3, <1>4, Zenon DEF t

-----------------------------------------------------------------------------
(* Steps that leave a part of the invariant alone.                           *)

PastStays == \A k \in Connections : Past(k) => Past(k)'

LEMMA ServeKept ==
    ASSUME Types, Types', ServeInv, PastStays, state'.session = state.session,
           state'.discovery = None \/ Of(state'.discovery, state.session),
           \A a \in Attachments :
              /\ state'.grants[a] = None \/ Of(state'.grants[a], state.session)
              /\ state'.orphaned[a] # None => state.orphaned[a] # None,
           \A c \in Calls :
              /\ state'.pending[c] = None \/ Of(state'.pending[c], state.session)
              /\ state'.bindings[c] = None \/ Of(state'.bindings[c], state.session)
    PROVE  ServeInv'
  <1>1. state \in SessionState /\ state' \in SessionState BY Zenon DEF Types
  <1>2. ASSUME NEW a \in Attachments, state'.orphaned[a] # None
        PROVE  state'.session = None /\ state'.grants[a] = None
    <2>1. state.session = None BY <1>2, Zenon DEF ServeInv, OneConnectionServes
    <2>2. state'.grants[a] \in GrantRecord \cup {None} BY <1>1, StateFields, Zenon
    <2>3. state'.grants[a] # None => state'.grants[a].conn # None
      BY <2>2, CompanionAssumption, Zenon DEF GrantRecord
    <2> QED BY <2>1, <2>3, Zenon DEF Of
  <1>3. (state.session # None => Past(state.session))'
    <2>1. state.session \in Connections \cup {None} BY <1>1, StateFields, Zenon
    <2>2. ASSUME state.session # None PROVE sockets'[state.session].stage \notin {"new", "registering"}
      BY <2>1, <2>2, Zenon DEF ServeInv, PastStays, Past
    <2> QED BY <2>2, Zenon DEF Past
  <1>4. OneConnectionServes' BY <1>2, Zenon DEF OneConnectionServes, Of
  <1> QED BY <1>3, <1>4, Zenon DEF ServeInv

LEMMA ServeSame ==
    ASSUME Types, ServeInv, PastStays, state' = state
    PROVE  ServeInv'
  <1>1. state.session \in Connections \cup {None} BY StateFields, Zenon DEF Types
  <1>2. OneConnectionServes' BY Zenon DEF ServeInv, OneConnectionServes, Of
  <1>3. state.session # None => Past(state.session)' BY <1>1, Zenon DEF ServeInv, PastStays
  <1> QED BY <1>2, <1>3, Zenon DEF ServeInv

Sends(c) == calls[c].stage \in {"grantSending", "renewSending"} \/ owned[c].stage = "publish"

LEMMA GateKept ==
    ASSUME GateInv, gate' = gate,
           \A k \in Connections : sockets'[k].stage = "publishing" <=> sockets[k].stage = "publishing",
           \A c \in Calls : Sends(c)' <=> Sends(c)
    PROVE  GateInv'
  BY Zenon DEF GateInv, Sends

Idle == {"resolve", "check", "asleep", "ready"}

\* For the commands, nothing has happened to call c.
NoDispatch(c) ==
    /\ calls'[c].op = calls[c].op /\ calls'[c].attempt = calls[c].attempt
    /\ calls[c].op = "dispatch" =>
          /\ calls'[c].answer = calls[c].answer
          /\ \/ calls'[c].stage = calls[c].stage /\ calls'[c].conn = calls[c].conn
             \/ calls'[c].stage \in Idle /\ calls[c].stage \in Idle
    /\ calls[c].op # "dispatch" =>
          /\ calls'[c].stage \notin {"sending", "awaiting"}
          /\ \/ calls'[c].answer = calls[c].answer
             \/ calls'[c].answer = None
             \/ calls'[c].answer.kind # "answered"

LEMMA DispatchKept ==
    ASSUME NEW c \in Calls, Types, PathInv(c), DispatchInv(c), NoDispatch(c), PastStays,
           state'.session = state.session, state'.pending[c] = state.pending[c]
    PROVE  DispatchInv(c)'
  <1>1. CASE calls[c].op # "dispatch"
    BY <1>1, Zenon DEF NoDispatch, DispatchInv
  <1>2. CASE calls[c].op = "dispatch" /\ calls'[c].stage = calls[c].stage /\ calls'[c].conn = calls[c].conn
    <2>1. calls[c].stage \in {"sending", "awaiting"} => calls[c].conn \in Connections BY Zenon DEF PathInv
    <2> QED BY <1>2, <2>1, Zenon DEF NoDispatch, DispatchInv, PastStays
  <1>3. CASE calls[c].op = "dispatch" /\ calls'[c].stage \in Idle /\ calls[c].stage \in Idle
    BY <1>3, Zenon DEF NoDispatch, DispatchInv, Idle
  <1> QED BY <1>1, <1>2, <1>3, Zenon DEF NoDispatch

LEMMA RequestKept ==
    ASSUME NEW r \in requests, Types, RequestInv(r), NoDispatch(r.call), PastStays,
           state'.session = state.session, state'.pending[r.call] = state.pending[r.call],
           requests' \subseteq requests
    PROVE  RequestInv(r)'
  <1>1. r.conn \in Connections BY Zenon DEF Types
  <1>2. calls[r.call].op = "dispatch" BY Zenon DEF RequestInv
  <1>3. Past(r.conn)' BY <1>1, Zenon DEF RequestInv, PastStays
  <1>4. calls[r.call].stage \in Idle => r.attempt # calls[r.call].attempt BY Zenon DEF RequestInv, Idle
  <1> QED BY <1>2, <1>3, <1>4, Zenon DEF RequestInv, NoDispatch, Of

LEMMA DispatchQuiet ==
    ASSUME CompanionInv, \A c \in Calls : NoDispatch(c), PastStays,
           state'.session = state.session, state'.pending = state.pending, requests' = requests
    PROVE  (\A c \in Calls : DispatchInv(c)') /\ (\A r \in requests' : RequestInv(r)')
  <1>1. ASSUME NEW c \in Calls PROVE DispatchInv(c)'
    BY DispatchKept, Zenon DEF CompanionInv
  <1>2. ASSUME NEW r \in requests' PROVE RequestInv(r)'
    <2>1. r \in requests /\ r.call \in Calls BY Zenon DEF CompanionInv, Types
    <2> QED BY <2>1, RequestKept, Zenon DEF CompanionInv
  <1> QED BY <1>1, <1>2, Zenon

\* For the pages, nothing has happened to call c.
NoBinding(c) ==
    /\ calls'[c].op = calls[c].op /\ calls'[c].page = calls[c].page
    /\ calls[c].op = "bind" =>
          /\ calls'[c].stage = calls[c].stage /\ calls'[c].att = calls[c].att
          /\ calls'[c].conn = calls[c].conn /\ calls'[c].answer = calls[c].answer
    /\ \/ calls'[c].stage # "renewSending"
       \/ /\ calls'[c].stage = calls[c].stage /\ calls'[c].att = calls[c].att
          /\ calls'[c].conn = calls[c].conn /\ calls'[c].pages = calls[c].pages

SameGrant(g, h) ==
    /\ g = None <=> h = None
    /\ g # None => g.conn = h.conn /\ g.pages = h.pages

SameSending(k) ==
    /\ sockets'[k].stage = "publishing" <=> sockets[k].stage = "publishing"
    /\ sockets[k].stage = "publishing" => sockets'[k].binding = sockets[k].binding

NotCleared(d) == owned'[d].cleared => owned[d].cleared /\ owned'[d].key = owned[d].key

PageSide ==
    /\ PagesInv /\ (\A c \in Calls : RenewInv(c) /\ BindInv(c))
    /\ \A k \in Connections : PublishInv(k)

LEMMA SamePages ==
    ASSUME NEW a, SameGrant(state'.grants[a], state.grants[a]),
           SameGrant(state'.orphaned[a], state.orphaned[a])
    PROVE  PagesAt(a)' = PagesAt(a)
  BY Zenon DEF SameGrant, PagesAt, PagesOf

LEMMA PagesQuiet ==
    ASSUME CompanionInv, \A c \in Calls : NoBinding(c), \A k \in Connections : SameSending(k),
           \A d \in Calls : NotCleared(d), state'.bindings = state.bindings,
           \A a \in Attachments : /\ SameGrant(state'.grants[a], state.grants[a])
                                  /\ SameGrant(state'.orphaned[a], state.orphaned[a])
    PROVE  PageSide'
  <1>1. \A a \in Attachments : PagesAt(a)' = PagesAt(a) BY SamePages, Zenon
  <1>2. \A c \in Calls : calls[c].op = "bind" => (Answerable(c) => Answerable(c)')
    BY Zenon DEF Answerable, NoBinding, SameSending
  <1>3. \A p : Binders(p)' = Binders(p) BY Zenon DEF Binders, NoBinding
  <1>4. PagesInv'
    <2>1. /\ \A a, b \in Attachments : \A g \in PagesAt(a)', h \in PagesAt(b)' :
               g.target = h.target \/ g.page = h.page => a = b /\ g = h
      BY <1>1 DEF CompanionInv, PagesInv
    <2>2. ASSUME NEW a \in Attachments, NEW g \in PagesAt(a)', Binders(g.page)' # {}
          PROVE  \E c \in Binders(g.page)' : Answerable(c)'
      <3>1. g \in PagesAt(a) /\ Binders(g.page) # {} BY <1>1, <1>3, <2>2, Zenon
      <3>2. PICK c \in Binders(g.page) : Answerable(c) BY <3>1, Zenon DEF CompanionInv, PagesInv
      <3>3. c \in Calls /\ calls[c].op = "bind" BY <3>2, Zenon DEF Binders
      <3>4. Answerable(c)' BY <1>2, <3>2, <3>3, Zenon
      <3> QED BY <1>3, <3>2, <3>4, Zenon
    <2>3. ASSUME NEW d \in Calls, owned'[d].cleared, NEW a \in Attachments, NEW g \in PagesAt(a)'
          PROVE  owned'[d].key # <<a, g.page>>
      <3>1. owned[d].cleared /\ owned'[d].key = owned[d].key BY <2>3, Zenon DEF NotCleared
      <3> QED BY <1>1, <2>3, <3>1, Zenon DEF CompanionInv, PagesInv
    <2> QED BY <2>1, <2>2, <2>3, Zenon DEF PagesInv
  <1>5. ASSUME NEW c \in Calls PROVE RenewInv(c)'
    <2>1. SUFFICES ASSUME calls'[c].stage = "renewSending",
                          Of(state'.grants[calls'[c].att], calls'[c].conn)
                   PROVE  state'.grants[calls'[c].att].pages = calls'[c].pages
      BY Zenon DEF RenewInv
    <2>2. /\ calls'[c].stage = calls[c].stage /\ calls'[c].att = calls[c].att
          /\ calls'[c].conn = calls[c].conn /\ calls'[c].pages = calls[c].pages
      BY <2>1, Zenon DEF NoBinding
    <2>3. RenewInv(c) /\ calls[c].att \in Attachments BY Zenon DEF CompanionInv, PathInv
    <2> QED BY <2>1, <2>2, <2>3, Zenon DEF RenewInv, SameGrant, Of
  <1>6. ASSUME NEW c \in Calls PROVE BindInv(c)'
    <2>1. BindInv(c) BY Zenon DEF CompanionInv
    <2>2. state.bindings[c] # None => calls[c].op = "bind" BY <2>1, Zenon DEF BindInv
    <2>3. /\ calls'[c].op = "bind" /\ calls'[c].stage = "begin" => calls'[c].answer = None
      BY <2>1, Zenon DEF BindInv, NoBinding
    <2>4. ASSUME state'.bindings[c] # None
          PROVE  /\ calls'[c].op = "bind" /\ calls'[c].stage \in {"ticket", "removing"}
                 /\ calls'[c].answer = None
                 /\ state'.bindings[c].att = calls'[c].att /\ state'.bindings[c].page = calls'[c].page
                 /\ state'.bindings[c].conn = calls'[c].conn
      BY <2>1, <2>2, <2>4, Zenon DEF BindInv, NoBinding
    <2>5. ASSUME state'.bindings[c] # None
          PROVE  /\ \A a \in Attachments : ~HasPage(PagesAt(a)', state'.bindings[c].page)
                 /\ \A d \in Calls \ {c} : state'.bindings[d] # None
                                              => state'.bindings[d].page # state'.bindings[c].page
      BY <1>1, <2>1, <2>5, Zenon DEF BindInv
    <2>6. ASSUME state'.bindings[c] # None, NEW d \in Calls, owned'[d].cleared
          PROVE  owned'[d].key # <<state'.bindings[c].att, state'.bindings[c].page>>
      BY <2>1, <2>6 DEF BindInv, NotCleared
    <2> QED BY <2>3, <2>4, <2>5, <2>6, Zenon DEF BindInv, HasPage
  <1>7. ASSUME NEW k \in Connections PROVE PublishInv(k)'
    <2>1. PublishInv(k) BY Zenon DEF CompanionInv
    <2>2. SUFFICES ASSUME sockets'[k].stage = "publishing" PROVE PublishInv(k)' BY Zenon DEF PublishInv
    <2>3. sockets[k].stage = "publishing" /\ sockets'[k].binding = sockets[k].binding
      BY <2>2, Zenon DEF SameSending
    <2> DEFINE b == sockets[k].binding
    <2>4. b # None /\ sockets[k] \in SocketRecord BY <2>1, <2>3, Zenon DEF PublishInv, CompanionInv, Types
    <2>5. b.call \in Calls /\ b.att \in Attachments BY <2>4, Zenon DEF SocketRecord, Publication
    <2>6. /\ calls'[b.call].op = calls[b.call].op /\ calls'[b.call].page = calls[b.call].page
          /\ calls'[b.call].stage = calls[b.call].stage /\ calls'[b.call].answer = calls[b.call].answer
      BY <2>1, <2>3, <2>5, Zenon DEF PublishInv, NoBinding
    <2>7. SameGrant(state'.grants[b.att], state.grants[b.att]) BY <2>5, Zenon
    <2>8. /\ Of(state'.grants[b.att], k) /\ state'.grants[b.att].pages = b.after
      BY <2>1, <2>3, <2>7, Zenon DEF PublishInv, SameGrant, Of
    <2>9. /\ b.before \subseteq b.after
          /\ \A g \in b.before : g.page # calls'[b.call].page
          /\ \A g \in b.after \ b.before : g.page = calls'[b.call].page
          /\ HasPage(b.after, calls'[b.call].page)
      BY <2>1, <2>3, <2>6, Zenon DEF PublishInv
    <2>10. /\ calls'[b.call].op = "bind" /\ calls'[b.call].stage # "begin"
           /\ calls'[b.call].answer = None /\ state'.bindings[b.call] = None
      BY <2>1, <2>3, <2>6, Zenon DEF PublishInv
    <2> QED BY <2>3, <2>4, <2>8, <2>9, <2>10, Zenon DEF PublishInv, HasPage
  <1> QED BY <1>4, <1>5, <1>6, <1>7, Zenon DEF PageSide

\* The parts of the invariant make the invariant.
LEMMA Assembled ==
    ASSUME Types', ServeInv', GateInv', \A c \in Calls : PathInv(c)',
           \A c \in Calls : DispatchInv(c)', \A r \in requests' : RequestInv(r)', PageSide'
    PROVE  CompanionInv'
  BY Zenon DEF CompanionInv, PageSide

-----------------------------------------------------------------------------
(* Steps of the sockets alone.                                               *)

LEMMA SocketsOnly ==
    ASSUME CompanionInv, UNCHANGED <<state, gate, requests, calls, owned, releases>>,
           lease' \in [Attachments -> {"none", "live", "expired"}],
           sockets' \in [Connections -> SocketRecord], PastStays,
           \A k \in Connections : SameSending(k)
    PROVE  CompanionInv'
  <1>1. Types' BY Zenon DEF CompanionInv, Types
  <1>2. ServeInv' BY ServeSame, Zenon DEF CompanionInv
  <1>3. GateInv'
    <2>1. \A c \in Calls : Sends(c)' <=> Sends(c) BY Zenon DEF Sends
    <2> QED BY <2>1, GateKept, Zenon DEF CompanionInv, SameSending
  <1>4. ASSUME NEW c \in Calls PROVE PathInv(c)'
    <2>1. PathInv(c) BY Zenon DEF CompanionInv
    <2> QED BY <2>1, Zenon DEF PathInv
  <1>5. \A c \in Calls : NoDispatch(c)
    <2>1. ASSUME NEW c \in Calls, calls[c].op # "dispatch"
          PROVE  calls[c].stage \notin {"sending", "awaiting"}
      <3>1. calls[c].stage \in StagesOf(calls[c].op) /\ calls[c].op \in Operations
        BY Zenon DEF CompanionInv, PathInv, Types, CallRecord
      <3> QED BY <2>1, <3>1, Zenon DEF StagesOf, Operations
    <2> QED BY <2>1, Zenon DEF NoDispatch
  <1>6. (\A c \in Calls : DispatchInv(c)') /\ (\A r \in requests' : RequestInv(r)')
    BY <1>5, DispatchQuiet, Zenon
  <1>7. PageSide'
    <2>1. \A c \in Calls : NoBinding(c) BY Zenon DEF NoBinding
    <2>2. \A d \in Calls : NotCleared(d) BY Zenon DEF NotCleared
    <2>3. \A a \in Attachments : /\ SameGrant(state'.grants[a], state.grants[a])
                                 /\ SameGrant(state'.orphaned[a], state.orphaned[a])
      BY Zenon DEF SameGrant
    <2> QED BY <2>1, <2>2, <2>3, PagesQuiet, Zenon
  <1> QED BY <1>1, <1>2, <1>3, <1>4, <1>6, <1>7, Assembled, Zenon

\* One socket changes, and neither starts nor ends the publication of a report's grant.
LEMMA OneSocket ==
    ASSUME Types, NEW k \in Connections, NEW r \in SocketRecord,
           sockets' = [sockets EXCEPT ![k] = r],
           Past(k) => r.stage \notin {"new", "registering"},
           r.stage = "publishing" <=> sockets[k].stage = "publishing",
           r.stage = "publishing" => r.binding = sockets[k].binding
    PROVE  /\ sockets' \in [Connections -> SocketRecord] /\ PastStays
           /\ \A i \in Connections : SameSending(i)
  <1>1. sockets \in [Connections -> SocketRecord] BY Zenon DEF Types
  <1>2. sockets'[k] = r /\ \A i \in Connections \ {k} : sockets'[i] = sockets[i] BY <1>1, Zenon
  <1>3. PastStays BY <1>2, Zenon DEF PastStays, Past
  <1>4. \A i \in Connections : SameSending(i) BY <1>2, Zenon DEF SameSending
  <1> QED BY <1>1, <1>3, <1>4, Zenon

LEMMA QueueMoves ==
    ASSUME CompanionInv, NEW k \in Connections, NEW q \in {"open", "full", "closing", "closed"},
           sockets' = [sockets EXCEPT ![k].queue = q],
           UNCHANGED <<state, gate, lease, requests, calls, owned, releases>>
    PROVE  CompanionInv'
  <1> DEFINE r == [sockets[k] EXCEPT !.queue = q]
  <1>1. sockets[k] \in SocketRecord /\ Types BY Zenon DEF Types, CompanionInv
  <1>2. r \in SocketRecord /\ r.stage = sockets[k].stage /\ r.binding = sockets[k].binding
    BY <1>1, Zenon DEF SocketRecord
  <1>3. sockets' = [sockets EXCEPT ![k] = r] BY <1>1, Zenon
  <1> HIDE DEF r
  <1>4. Past(k) => r.stage \notin {"new", "registering"} BY <1>2, Zenon DEF Past
  <1>5. /\ sockets' \in [Connections -> SocketRecord] /\ PastStays
        /\ \A i \in Connections : SameSending(i)
    BY <1>1, <1>2, <1>3, <1>4, OneSocket, Zenon
  <1> QED BY <1>1, <1>5, SocketsOnly, Zenon DEF Types

\* The queue of a socket fills, drains or ends.
LEMMA QueueInv ==
    ASSUME CompanionInv, NEW k \in Connections,
           QueueFills(k) \/ QueueDrains(k) \/ WriterEnds(k) \/ SocketBreaks(k)
    PROVE  CompanionInv'
  <1>1. UNCHANGED <<state, gate, lease, requests, calls, owned, releases>>
    BY Zenon DEF QueueFills, QueueDrains, WriterEnds, SocketBreaks
  <1>2. CASE QueueFills(k)
    <2>1. sockets' = [sockets EXCEPT ![k].queue = "full"] BY <1>2, Zenon DEF QueueFills
    <2> QED BY <1>1, <2>1, QueueMoves, Zenon
  <1>3. CASE QueueDrains(k)
    <2>1. sockets' = [sockets EXCEPT ![k].queue = "open"] BY <1>3, Zenon DEF QueueDrains
    <2> QED BY <1>1, <2>1, QueueMoves, Zenon
  <1>4. CASE WriterEnds(k) \/ SocketBreaks(k)
    <2>1. sockets' = [sockets EXCEPT ![k].queue = "closed"] BY <1>4, Zenon DEF WriterEnds, SocketBreaks
    <2> QED BY <1>1, <2>1, QueueMoves, Zenon
  <1> QED BY <1>2, <1>3, <1>4, Zenon

\* A socket connects, ends, or sends its error.
LEMMA SocketInv ==
    ASSUME CompanionInv, NEW k \in Connections,
           Connect(k) \/ SocketEnds(k) \/ SendErrorAndClose(k)
    PROVE  CompanionInv'
  <1>1. UNCHANGED <<state, gate, lease, requests, calls, owned, releases>>
    BY Zenon DEF Connect, SocketEnds, SendErrorAndClose
  <1>2. sockets[k] \in SocketRecord /\ sockets \in [Connections -> SocketRecord] /\ Types
    BY Zenon DEF CompanionInv, Types
  <1> DEFINE Move(st, q) == [sockets EXCEPT ![k] = [sockets[k] EXCEPT !.stage = st, !.queue = q,
                                                            !.previous = sockets[k].previous]]
  <1>3. /\ sockets[k].queue \in {"open", "full", "closing", "closed"}
        /\ sockets[k].previous \in Connections \cup {None}
    BY <1>2, Zenon DEF SocketRecord
  <1>s. \A st : [sockets EXCEPT ![k].stage = st] = Move(st, sockets[k].queue)
    BY <1>2, Zenon DEF SocketRecord
  <1>4. ASSUME NEW st \in {"registering", "erring", "leaving"},
               NEW q \in {"open", "full", "closing", "closed"}, sockets' = Move(st, q),
               sockets[k].stage # "publishing", Past(k) => st # "registering"
        PROVE  CompanionInv'
    <2> DEFINE r == [sockets[k] EXCEPT !.stage = st, !.queue = q, !.previous = sockets[k].previous]
    <2>2. r \in SocketRecord /\ r.stage = st BY <1>2, <1>3, Zenon DEF SocketRecord
    <2>3. sockets' = [sockets EXCEPT ![k] = r] BY <1>4, Zenon
    <2> HIDE DEF r, Move
    <2>4. /\ Past(k) => r.stage \notin {"new", "registering"}
          /\ r.stage # "publishing"
      BY <1>4, <2>2, Zenon
    <2>1. /\ sockets' \in [Connections -> SocketRecord] /\ PastStays
          /\ \A i \in Connections : SameSending(i)
      BY <1>2, <1>4, <2>2, <2>3, <2>4, OneSocket, Zenon
    <2> QED BY <1>1, <1>2, <2>1, SocketsOnly, Zenon DEF Types
  <1>5. CASE Connect(k)
    <2>1. /\ sockets' = Move("registering", sockets[k].queue) /\ ~Past(k)
          /\ sockets[k].stage # "publishing"
      BY <1>5, <1>s, Zenon DEF Connect, Past
    <2> QED BY <1>3, <1>4, <2>1, Zenon
  <1>6. CASE SocketEnds(k)
    <2>1. PICK st \in {"leaving", "erring"} : sockets' = [sockets EXCEPT ![k].stage = st]
      BY <1>6, Zenon DEF SocketEnds
    <2>2. sockets' = Move(st, sockets[k].queue) /\ sockets[k].stage = "serving"
      BY <1>6, <1>s, <2>1, Zenon DEF SocketEnds
    <2> HIDE DEF Move
    <2> QED BY <1>3, <1>4, <2>2, Zenon
  <1>7. CASE SendErrorAndClose(k)
    <2> DEFINE q == IF sockets[k].queue = "open" THEN "closing" ELSE sockets[k].queue
    <2>1. sockets' = Move("leaving", q) /\ sockets[k].stage = "erring"
      BY <1>2, <1>7, Zenon DEF SendErrorAndClose, SocketRecord
    <2>2. q \in {"open", "full", "closing", "closed"} BY <1>3, Zenon
    <2> HIDE DEF Move, q
    <2> QED BY <1>4, <2>1, <2>2, Zenon
  <1> QED BY <1>5, <1>6, <1>7, Zenon

\* ClosePrevious
LEMMA ClosePreviousInv ==
    ASSUME CompanionInv, NEW k \in Connections, ClosePrevious(k)
    PROVE  CompanionInv'
  <1> DEFINE j == sockets[k].previous
             r == [sockets[k] EXCEPT !.stage = "resending", !.previous = None]
             q(i) == [sockets[i] EXCEPT !.queue = "closing"]
  <1>1. /\ UNCHANGED <<state, gate, lease, requests, calls, owned, releases>>
        /\ sockets[k].stage = "closingPrevious"
        /\ sockets' = [i \in Connections |->
                          IF i = k THEN r
                          ELSE IF i = j /\ sockets[j].queue = "open" THEN q(j) ELSE sockets[i]]
    BY Zenon DEF ClosePrevious
  <1>2. sockets \in [Connections -> SocketRecord] /\ Types BY Zenon DEF CompanionInv, Types
  <1>3. r \in SocketRecord /\ r.stage = "resending" BY <1>2, Zenon DEF SocketRecord
  <1>4. ASSUME NEW i \in Connections
        PROVE  q(i) \in SocketRecord /\ q(i).stage = sockets[i].stage /\ q(i).binding = sockets[i].binding
    <2>1. sockets[i] \in SocketRecord BY <1>2, Zenon
    <2> QED BY <2>1, Zenon DEF SocketRecord
  <1> HIDE DEF r, q
  <1>5. sockets' \in [Connections -> SocketRecord] BY <1>1, <1>2, <1>3, <1>4, Zenon
  <1>6. ASSUME NEW i \in Connections
        PROVE  (Past(i) => Past(i)') /\ SameSending(i)
    <2>1. CASE i = k
      <3>1. sockets'[i] = r BY <1>1, <2>1, Zenon
      <3> QED BY <1>1, <1>3, <2>1, <3>1, Zenon DEF Past, SameSending
    <2>2. CASE i # k
      <3>1. sockets'[i] = q(i) \/ sockets'[i] = sockets[i] BY <1>1, <2>2, Zenon
      <3> QED BY <1>4, <3>1, Zenon DEF Past, SameSending
    <2> QED BY <2>1, <2>2, Zenon
  <1> QED BY <1>1, <1>2, <1>5, <1>6, SocketsOnly, Zenon DEF PastStays, Types

\* LeaseEnds
LEMMA LeaseEndsInv ==
    ASSUME CompanionInv, NEW a \in Attachments, LeaseEnds(a)
    PROVE  CompanionInv'
  <1>1. UNCHANGED <<state, gate, sockets, requests, calls, owned, releases>> BY Zenon DEF LeaseEnds
  <1>2. lease' \in [Attachments -> {"none", "live", "expired"}]
    BY Zenon DEF LeaseEnds, CompanionInv, Types
  <1>3. sockets' \in [Connections -> SocketRecord] BY <1>1, Zenon DEF CompanionInv, Types
  <1>4. PastStays /\ \A k \in Connections : SameSending(k) BY <1>1, Zenon DEF PastStays, Past, SameSending
  <1> QED BY <1>1, <1>2, <1>3, <1>4, SocketsOnly, Zenon

-----------------------------------------------------------------------------
(* Steps of one call that leave the grants, the pending commands and the      *)
(* bindings alone.                                                            *)

SameState ==
    /\ state' \in SessionState
    /\ state'.session = state.session /\ state'.grants = state.grants
    /\ state'.orphaned = state.orphaned /\ state'.pending = state.pending
    /\ state'.bindings = state.bindings
    /\ state'.discovery = None \/ Of(state'.discovery, state.session)

LEMMA StateStays == ASSUME Types, ServeInv, state' = state PROVE SameState
  BY Zenon DEF SameState, Types, ServeInv, OneConnectionServes

LEMMA ServeStays ==
    ASSUME Types, Types', ServeInv, SameState, UNCHANGED sockets PROVE ServeInv'
  <1>1. PastStays BY Zenon DEF PastStays, Past
  <1>2. /\ \A a \in Attachments :
              /\ state'.grants[a] = None \/ Of(state'.grants[a], state.session)
              /\ state'.orphaned[a] # None => state.orphaned[a] # None
        /\ \A c \in Calls :
              /\ state'.pending[c] = None \/ Of(state'.pending[c], state.session)
              /\ state'.bindings[c] = None \/ Of(state'.bindings[c], state.session)
    BY DEF SameState, ServeInv, OneConnectionServes
  <1>3. /\ state'.session = state.session
        /\ state'.discovery = None \/ Of(state'.discovery, state.session)
    BY Zenon DEF SameState
  <1> QED BY <1>1, <1>2, <1>3, ServeKept, Zenon

\* Calls that are not commands do not wait for an answer of the browser.
LEMMA NotAwaiting ==
    ASSUME CompanionInv, NEW c \in Calls, calls[c].op # "dispatch"
    PROVE  calls[c].stage \notin {"sending", "awaiting"}
  <1>1. calls[c].stage \in StagesOf(calls[c].op) /\ calls[c].op \in Operations
    BY Zenon DEF CompanionInv, PathInv, Types, CallRecord
  <1> QED BY <1>1, Zenon DEF StagesOf, Operations

\* For a call that does not change nothing has happened.
LEMMA SameCallQuiet ==
    ASSUME CompanionInv, NEW d \in Calls, calls'[d] = calls[d]
    PROVE  NoDispatch(d) /\ NoBinding(d)
  BY NotAwaiting, Zenon DEF NoDispatch, NoBinding

LEMMA CallAlone ==
    ASSUME CompanionInv, NEW c \in Calls, Only(c, calls'), SameState,
           UNCHANGED <<sockets, requests, owned, releases>>,
           lease' \in [Attachments -> {"none", "live", "expired"}],
           gate' \in Connections \cup Calls \cup {None}, GateInv',
           PathInv(c)', DispatchInv(c)', \A r \in requests : r.call = c => RequestInv(r)',
           NoBinding(c) \/ PageSide'
    PROVE  CompanionInv'
  <1>1. Types' BY Zenon DEF CompanionInv, Types, Only, CallsType, SameState
  <1>2. ServeInv' BY <1>1, ServeStays, Zenon DEF CompanionInv
  <1>3. \A d \in Calls \ {c} : calls'[d] = calls[d] BY Zenon DEF Only
  <1>p. PastStays BY Zenon DEF PastStays, Past
  <1>4. ASSUME NEW d \in Calls \ {c} PROVE PathInv(d)' /\ DispatchInv(d)' /\ NoBinding(d)
    <2>1. calls'[d] = calls[d] /\ PathInv(d) /\ DispatchInv(d) /\ Types BY <1>3, Zenon DEF CompanionInv
    <2>2. NoDispatch(d) /\ NoBinding(d) BY <2>1, SameCallQuiet, Zenon
    <2>3. DispatchInv(d)' BY <1>p, <2>1, <2>2, DispatchKept, Zenon DEF SameState
    <2>4. PathInv(d)' BY <2>1, Zenon DEF PathInv
    <2> QED BY <2>2, <2>3, <2>4, Zenon
  <1>5. ASSUME NEW r \in requests' PROVE RequestInv(r)'
    <2>1. r \in requests /\ r.call \in Calls /\ RequestInv(r) /\ Types BY Zenon DEF CompanionInv, Types
    <2>2. CASE r.call # c
      <3>1. NoDispatch(r.call) BY <1>3, <2>1, <2>2, SameCallQuiet, Zenon
      <3> QED BY <1>p, <2>1, <3>1, RequestKept, Zenon DEF SameState
    <2> QED BY <2>1, <2>2, Zenon
  <1>6. PageSide'
    <2>1. SUFFICES ASSUME NoBinding(c) PROVE PageSide' BY Zenon
    <2>2. \A d \in Calls : NoBinding(d) /\ NotCleared(d) BY <1>4, <2>1, Zenon DEF NotCleared
    <2>3. /\ \A a \in Attachments : /\ SameGrant(state'.grants[a], state.grants[a])
                                    /\ SameGrant(state'.orphaned[a], state.orphaned[a])
          /\ \A k \in Connections : SameSending(k)
      BY Zenon DEF SameGrant, SameState, SameSending
    <2> QED BY <2>2, <2>3, PagesQuiet, Zenon DEF SameState
  <1> QED BY <1>1, <1>2, <1>4, <1>5, <1>6, Assembled, Zenon

\* A call that is neither a command nor a binding moves on, without grant_updates.
LEMMA OtherCall ==
    ASSUME CompanionInv, NEW c \in Calls, Only(c, calls'), SameState,
           UNCHANGED <<sockets, requests, owned, releases, lease, gate>>,
           calls[c].op \notin {"dispatch", "bind"},
           calls'[c].att = calls[c].att, calls'[c].attempt = calls[c].attempt,
           \/ calls'[c].answer = calls[c].answer
           \/ calls'[c].answer # None /\ calls'[c].answer.kind # "answered",
           calls'[c].stage \in StagesOf(calls[c].op),
           calls'[c].stage \notin {"release", "grantSending", "renewSending"},
           calls[c].stage \notin {"grantSending", "renewSending"}
    PROVE  CompanionInv'
  <1>1. calls'[c].op = calls[c].op /\ calls'[c].page = calls[c].page BY Zenon DEF Only
  <1>2. Types /\ PathInv(c) /\ DispatchInv(c) /\ GateInv BY Zenon DEF CompanionInv
  <1>3. calls[c].op \in Operations BY <1>2, Zenon DEF Types, CallRecord
  <1>4. calls'[c].stage \notin {"sending", "awaiting", "ticket", "removing"}
    BY <1>3, Zenon DEF StagesOf, Operations
  <1>5. PathInv(c)' BY <1>1, <1>2, <1>4, Zenon DEF PathInv
  <1>6. NoDispatch(c) BY <1>1, <1>4, Zenon DEF NoDispatch
  <1>7. DispatchInv(c)'
    <2>1. PastStays BY Zenon DEF PastStays, Past
    <2> QED BY <1>2, <1>6, <2>1, DispatchKept, Zenon DEF SameState
  <1>8. \A r \in requests : r.call # c
    BY Zenon DEF CompanionInv, RequestInv
  <1>9. NoBinding(c) BY <1>1, Zenon DEF NoBinding
  <1>10. GateInv'
    <2>1. ASSUME NEW d \in Calls PROVE Sends(d)' <=> Sends(d)
      <3>1. CASE d = c BY <3>1, Zenon DEF Sends
      <3>2. CASE d # c
        <4>1. calls'[d] = calls[d] BY <3>2, Zenon DEF Only
        <4> QED BY <4>1, Zenon DEF Sends
      <3> QED BY <3>1, <3>2, Zenon
    <2> QED BY <1>2, <2>1, GateKept, Zenon
  <1>11. /\ lease' \in [Attachments -> {"none", "live", "expired"}]
         /\ gate' \in Connections \cup Calls \cup {None}
    BY <1>2, Zenon DEF Types
  <1> QED BY <1>5, <1>7, <1>8, <1>9, <1>10, <1>11, CallAlone, Zenon

\* A command that nobody hears moves on, keeps its attempt and its answer, and does not
\* yet ask the browser.
LEMMA QuietCommand ==
    ASSUME CompanionInv, NEW c \in Calls, Only(c, calls'), SameState,
           UNCHANGED <<sockets, requests, owned, releases, lease, gate>>,
           calls[c].op = "dispatch", Keeps(c, calls'),
           \/ calls'[c].stage \in Idle /\ calls[c].stage \in Idle
           \/ calls'[c].stage = "done" /\ calls[c].stage # "grantSending",
           ~(state.pending[c] # None /\ state.pending[c].heard)
    PROVE  CompanionInv'
  <1>1. calls'[c].op = calls[c].op /\ calls'[c].page = calls[c].page BY Zenon DEF Only
  <1>2. Types /\ PathInv(c) /\ DispatchInv(c) /\ GateInv BY Zenon DEF CompanionInv
  <1>3. calls[c].stage \in StagesOf("dispatch") BY <1>2, Zenon DEF PathInv
  <1>4. calls'[c].stage \notin {"sending", "awaiting", "ticket", "removing", "grantSending",
                                "renewSending", "granting"} /\ calls[c].stage # "grantSending"
    BY <1>3, Zenon DEF Idle, StagesOf
  <1>5. PathInv(c)' BY <1>1, <1>2, <1>4, Zenon DEF PathInv, Keeps, StagesOf, Idle
  <1>6. DispatchInv(c)'
    BY <1>1, <1>2, <1>4, Zenon DEF DispatchInv, Keeps, SameState, Idle
  <1>7. ASSUME NEW r \in requests, r.call = c PROVE RequestInv(r)'
    <2>1. RequestInv(r) BY Zenon DEF CompanionInv
    <2>2. calls[c].stage \in Idle => r.attempt # calls[c].attempt BY <1>7, <2>1, Zenon DEF RequestInv, Idle
    <2>3. Past(r.conn)' BY <2>1, Zenon DEF RequestInv, Past
    <2> QED BY <1>1, <1>7, <2>1, <2>2, <2>3, Zenon DEF RequestInv, Keeps, SameState, Of
  <1>8. NoBinding(c) BY <1>1, <1>4, Zenon DEF NoBinding
  <1>9. GateInv'
    <2>1. ASSUME NEW d \in Calls PROVE Sends(d)' <=> Sends(d)
      <3>1. CASE d = c
        <4>1. calls[c].stage # "renewSending" BY <1>3, Zenon DEF StagesOf
        <4> QED BY <1>4, <3>1, <4>1, Zenon DEF Sends
      <3>2. CASE d # c
        <4>1. calls'[d] = calls[d] BY <3>2, Zenon DEF Only
        <4> QED BY <4>1, Zenon DEF Sends
      <3> QED BY <3>1, <3>2, Zenon
    <2> QED BY <1>2, <2>1, GateKept, Zenon
  <1>10. /\ lease' \in [Attachments -> {"none", "live", "expired"}]
         /\ gate' \in Connections \cup Calls \cup {None}
    BY <1>2, Zenon DEF Types
  <1> QED BY <1>5, <1>6, <1>7, <1>8, <1>9, <1>10, CallAlone, Zenon

\* The operation of a call can be told from where it is.
LEMMA StageOp ==
    ASSUME CompanionInv, NEW c \in Calls
    PROVE  LET st == calls[c].stage
               op == calls[c].op
           IN  /\ st \in {"discovering", "unseen"} => op = "discover"
               /\ st \in Idle \cup {"sending", "awaiting"} => op = "dispatch"
               /\ st \in {"begin", "ticket", "removing"} => op = "bind"
               /\ st \in {"release", "joined"} => op = "release"
               /\ st \in {"renewing", "renewSending"} => op = "renew"
               /\ st \in {"granting", "grantSending"} => op \in {"dispatch", "grant"}
  <1>1. calls[c].stage \in StagesOf(calls[c].op) /\ calls[c].op \in Operations
    BY Zenon DEF CompanionInv, PathInv, Types, CallRecord
  <1> QED BY <1>1, Zenon DEF StagesOf, Operations, Idle

\* A call's record is replaced: what the other calls have stays.
LEMMA OneCall ==
    ASSUME Types, NEW c \in Calls, NEW r \in CallRecord, calls' = [calls EXCEPT ![c] = r],
           r.op = calls[c].op, r.page = calls[c].page
    PROVE  Only(c, calls') /\ calls'[c] = r
  <1>1. calls \in CallsType BY Zenon DEF Types, CallsType
  <1> QED BY <1>1, Zenon DEF Only, CallsType

\* wait_for_discovery
LEMMA WaitForDiscoveryInv ==
    ASSUME CompanionInv, NEW c \in Calls, wait_for_discovery(c)
    PROVE  CompanionInv'
  <1>1. /\ UNCHANGED <<state, gate, lease, sockets, requests, owned, releases>>
        /\ calls[c].stage = "discovering"
        /\ calls' = Ended(c) \/ calls' = [calls EXCEPT ![c].stage = "unseen"]
    BY Zenon DEF wait_for_discovery
  <1>2. calls[c].op = "discover" BY <1>1, StageOp, Zenon
  <1>t. Types /\ ServeInv /\ calls[c] \in CallRecord BY Zenon DEF CompanionInv, Types
  <1>3. SameState BY <1>1, <1>t, StateStays, Zenon
  <1>4. Only(c, calls') /\ Keeps(c, calls') /\ calls'[c].stage \in {"done", "unseen"}
    <2>1. CASE calls' = Ended(c) BY <1>t, <2>1, EndedFields, Zenon
    <2>2. CASE calls' = [calls EXCEPT ![c].stage = "unseen"]
      <3> DEFINE r == [calls[c] EXCEPT !.stage = "unseen"]
      <3>1. calls' = [calls EXCEPT ![c] = r] BY <2>2, Zenon
      <3>2. /\ r \in CallRecord /\ r.op = calls[c].op /\ r.page = calls[c].page /\ r.stage = "unseen"
            /\ r.att = calls[c].att /\ r.attempt = calls[c].attempt /\ r.answer = calls[c].answer
        BY <1>t, Zenon DEF CallRecord
      <3> HIDE DEF r
      <3>3. Only(c, calls') /\ calls'[c] = r BY <1>t, <3>1, <3>2, OneCall, Zenon
      <3> QED BY <3>2, <3>3, Zenon DEF Keeps
    <2> QED BY <1>1, <2>1, <2>2, Zenon
  <1>5. calls'[c].stage \in StagesOf(calls[c].op) BY <1>2, <1>4, Zenon DEF StagesOf
  <1> QED BY <1>1, <1>2, <1>3, <1>4, <1>5, OtherCall, Zenon DEF Keeps

\* synthesize_empty_if_paired
LEMMA SynthesizeInv ==
    ASSUME CompanionInv, NEW c \in Calls, synthesize_empty_if_paired(c)
    PROVE  CompanionInv'
  <1>1. /\ UNCHANGED <<gate, lease, sockets, requests, owned, releases>>
        /\ calls[c].stage = "unseen" /\ calls' = Ended(c)
    BY Zenon DEF synthesize_empty_if_paired
  <1>2. calls[c].op = "discover" BY <1>1, StageOp, Zenon
  <1>t. Types /\ ServeInv /\ state \in SessionState BY Zenon DEF CompanionInv, Types
  <1>3. SameState
    <2>1. CASE state.session = None
      <3>1. state' = state BY <2>1, Zenon DEF synthesize_empty_if_paired
      <3> QED BY <1>t, <3>1, StateStays, Zenon
    <2>2. CASE state.session # None
      <3> DEFINE v == [conn |-> state.session, targets |-> {}]
      <3>1. v \in DiscoveryRecord BY <1>t, <2>2, StateFields, Zenon DEF DiscoveryRecord
      <3>2. v.conn = state.session /\ v # None BY <3>1, CompanionAssumption, Zenon
      <3>3. state' = [state EXCEPT !.discovery = v] BY <2>2, Zenon DEF synthesize_empty_if_paired
      <3> HIDE DEF v
      <3> QED BY <1>t, <3>1, <3>2, <3>3, DiscoverySet, Zenon DEF SameState, Of
    <2> QED BY <2>1, <2>2, Zenon
  <1>4. Only(c, calls') /\ Keeps(c, calls') /\ calls'[c].stage = "done" BY <1>1, <1>t, EndedFields, Zenon
  <1>5. calls'[c].stage \in StagesOf(calls[c].op) BY <1>2, <1>4, Zenon DEF StagesOf
  <1> QED BY <1>1, <1>2, <1>3, <1>4, <1>5, OtherCall, Zenon DEF Keeps

\* A command that waits for its grant is not expected.
LEMMA IdleUnheard ==
    ASSUME CompanionInv, NEW c \in Calls, calls[c].stage \notin {"sending", "awaiting"}
    PROVE  ~(state.pending[c] # None /\ state.pending[c].heard)
  BY Zenon DEF CompanionInv, DispatchInv

\* resolve_attachment
LEMMA ResolveInv ==
    ASSUME CompanionInv, NEW c \in Calls, resolve_attachment(c)
    PROVE  CompanionInv'
  <1> DEFINE v == Live(state.grants[calls[c].att]) \/ Live(state.orphaned[calls[c].att])
  <1>1. /\ UNCHANGED <<state, gate, lease, sockets, requests, owned, releases>>
        /\ calls[c].stage = "resolve"
        /\ calls' = Ended(c) \/ calls' = [calls EXCEPT ![c].stage = "check", ![c].inTime = v]
    BY Zenon DEF resolve_attachment
  <1>2. calls[c].op = "dispatch" BY <1>1, StageOp, Zenon DEF Idle
  <1>t. Types /\ ServeInv /\ calls[c] \in CallRecord BY Zenon DEF CompanionInv, Types
  <1>3. SameState BY <1>1, <1>t, StateStays, Zenon
  <1>v. v \in BOOLEAN BY Zenon
  <1> HIDE DEF v
  <1>4. Only(c, calls') /\ Keeps(c, calls') /\ calls'[c].stage \in {"done", "check"}
    <2>1. CASE calls' = Ended(c) BY <1>t, <2>1, EndedFields, Zenon
    <2>2. CASE calls' = [calls EXCEPT ![c].stage = "check", ![c].inTime = v]
      <3> DEFINE r == [calls[c] EXCEPT !.stage = "check", !.inTime = v]
      <3>1. calls' = [calls EXCEPT ![c] = r] BY <1>t, <2>2, Zenon DEF Types
      <3>2. /\ r \in CallRecord /\ r.op = calls[c].op /\ r.page = calls[c].page /\ r.stage = "check"
            /\ r.att = calls[c].att /\ r.attempt = calls[c].attempt /\ r.answer = calls[c].answer
        BY <1>t, <1>v, Zenon DEF CallRecord
      <3> HIDE DEF r
      <3>3. Only(c, calls') /\ calls'[c] = r BY <1>t, <3>1, <3>2, OneCall, Zenon
      <3> QED BY <3>2, <3>3, Zenon DEF Keeps
    <2> QED BY <1>1, <2>1, <2>2, Zenon
  <1>5. ~(state.pending[c] # None /\ state.pending[c].heard) BY <1>1, IdleUnheard, Zenon
  <1> QED BY <1>1, <1>2, <1>3, <1>4, <1>5, QuietCommand, Zenon DEF Idle

\* wait_for_readopted_grant
LEMMA WaitForGrantInv ==
    ASSUME CompanionInv, NEW c \in Calls, wait_for_readopted_grant(c)
    PROVE  CompanionInv'
  <1>1. UNCHANGED <<state, gate, lease, sockets, requests, owned, releases>>
    BY Zenon DEF wait_for_readopted_grant
  <1>t. Types /\ ServeInv /\ calls[c] \in CallRecord BY Zenon DEF CompanionInv, Types
  <1>3. SameState BY <1>1, <1>t, StateStays, Zenon
  <1>m. PICK st \in {"ready", "asleep"} :
            \/ calls[c].stage = "check" /\ calls' = [calls EXCEPT ![c].stage = st]
            \/ calls[c].stage = "asleep" /\ calls' = Ended(c)
    BY Zenon DEF wait_for_readopted_grant
  <1>2. calls[c].op = "dispatch" /\ calls[c].stage \in Idle BY <1>m, StageOp, Zenon DEF Idle
  <1>4. Only(c, calls') /\ Keeps(c, calls') /\ calls'[c].stage \in {"done", "ready", "asleep"}
    <2>1. CASE calls' = Ended(c) BY <1>t, <2>1, EndedFields, Zenon
    <2>2. CASE calls' = [calls EXCEPT ![c].stage = st]
      <3> DEFINE r == [calls[c] EXCEPT !.stage = st]
      <3>1. calls' = [calls EXCEPT ![c] = r] BY <2>2, Zenon
      <3>2. /\ r \in CallRecord /\ r.op = calls[c].op /\ r.page = calls[c].page /\ r.stage = st
            /\ r.att = calls[c].att /\ r.attempt = calls[c].attempt /\ r.answer = calls[c].answer
        BY <1>t DEF CallRecord
      <3> HIDE DEF r
      <3>3. Only(c, calls') /\ calls'[c] = r BY <1>t, <3>1, <3>2, OneCall, Zenon
      <3> QED BY <3>2, <3>3, Zenon DEF Keeps
    <2> QED BY <1>m, <2>1, <2>2, Zenon
  <1>5. ~(state.pending[c] # None /\ state.pending[c].heard) BY <1>2, IdleUnheard, Zenon DEF Idle
  <1> QED BY <1>1, <1>2, <1>3, <1>4, <1>5, QuietCommand, Zenon DEF Idle

\* ReleaseAnswered
LEMMA ReleaseAnsweredInv ==
    ASSUME CompanionInv, NEW c \in Calls, ReleaseAnswered(c)
    PROVE  CompanionInv'
  <1> DEFINE v == [kind |-> IF owned[calls[c].on].result = "ok" THEN "released" ELSE "refused",
                   attempt |-> 0]
             r == [calls[c] EXCEPT !.stage = "done", !.conn = None, !.inTime = FALSE, !.answer = v]
  <1>1. /\ UNCHANGED <<state, gate, lease, sockets, requests, owned, releases>>
        /\ calls[c].stage = "joined" /\ calls' = [Ended(c) EXCEPT ![c].answer = v]
    BY Zenon DEF ReleaseAnswered
  <1>2. calls[c].op = "release" BY <1>1, StageOp, Zenon
  <1>t. Types /\ ServeInv /\ calls[c] \in CallRecord /\ calls \in [Calls -> CallRecord]
    BY Zenon DEF CompanionInv, Types
  <1>3. SameState BY <1>1, <1>t, StateStays, Zenon
  <1>a. 0 \in 0..3 OBVIOUS
  <1>v. v \in Answers /\ v # None /\ v.kind # "answered" BY <1>a, CompanionAssumption DEF Answers
  <1> HIDE DEF v
  <1>4. calls' = [calls EXCEPT ![c] = r] BY <1>1, <1>t, Zenon DEF Ended
  <1>5. /\ r \in CallRecord /\ r.op = calls[c].op /\ r.page = calls[c].page /\ r.stage = "done"
        /\ r.att = calls[c].att /\ r.attempt = calls[c].attempt /\ r.answer = v
    BY <1>t, <1>v, Zenon DEF CallRecord
  <1> HIDE DEF r
  <1>6. Only(c, calls') /\ calls'[c] = r BY <1>t, <1>4, <1>5, OneCall, Zenon
  <1>7. calls'[c].stage \in StagesOf(calls[c].op) BY <1>2, <1>5, <1>6, Zenon DEF StagesOf
  <1> QED BY <1>1, <1>2, <1>3, <1>v, <1>5, <1>6, <1>7, OtherCall, Zenon

\* ReceiveAnswer: a call whose connection closed tries again.  The request of its first
\* attempt is on that connection.
LEMMA ReceiveAnswerInv ==
    ASSUME CompanionInv, NEW c \in Calls, ReceiveAnswer(c)
    PROVE  CompanionInv'
  <1>1. /\ UNCHANGED <<state, gate, lease, sockets, requests, owned, releases>>
        /\ calls[c].stage = "awaiting" /\ calls[c].answer # None
        /\ \/ calls[c].answer.kind = "closed" /\ calls' = Retry(c, "ConnectionClosed")
           \/ calls' = Ended(c)
    BY Zenon DEF ReceiveAnswer
  <1>2. calls[c].op = "dispatch" BY <1>1, StageOp, Zenon
  <1>t. Types /\ ServeInv /\ DispatchInv(c) /\ PathInv(c) /\ GateInv BY Zenon DEF CompanionInv
  <1>3. SameState BY <1>1, <1>t, StateStays, Zenon
  <1>4. ~(state.pending[c] # None /\ state.pending[c].heard) BY <1>1, <1>t, Zenon DEF DispatchInv
  <1>5. CASE calls'[c].stage = "done" /\ Only(c, calls') /\ Keeps(c, calls')
    BY <1>1, <1>2, <1>3, <1>4, <1>5, QuietCommand, Zenon
  <1>6. CASE /\ calls[c].answer.kind = "closed" /\ calls[c].attempt = 1 /\ calls'[c].attempt = 2
             /\ calls'[c].stage = "resolve" /\ calls'[c].answer = None /\ calls'[c].att = calls[c].att
             /\ Only(c, calls')
    <2>1. calls'[c].op = calls[c].op /\ calls'[c].page = calls[c].page BY <1>6, Zenon DEF Only
    <2>2. PathInv(c)' BY <1>1, <1>2, <1>6, <1>t, <2>1, Zenon DEF PathInv, StagesOf
    <2>3. DispatchInv(c)' BY <1>1, <1>2, <1>4, <1>6, <1>t, <2>1, Zenon DEF DispatchInv
    <2>4. ASSUME NEW r \in requests, r.call = c PROVE RequestInv(r)'
      <3>1. RequestInv(r) BY Zenon DEF CompanionInv
      <3>2. r.attempt \in 1..3 BY <1>t, Zenon DEF Types
      <3>3. r.attempt = calls[c].attempt BY <1>6, <2>4, <3>1, <3>2 DEF RequestInv
      <3>4. r.conn = calls[c].conn BY <1>1, <2>4, <3>1, <3>3, Zenon DEF RequestInv
      <3>5. r.conn # state.session BY <1>1, <1>6, <1>t, <3>4, Zenon DEF DispatchInv
      <3>6. Past(r.conn)' BY <1>1, <3>1, Zenon DEF RequestInv, Past
      <3> QED BY <1>1, <1>2, <1>6, <2>1, <2>4, <3>1, <3>3, <3>5, <3>6 DEF RequestInv
    <2>5. NoBinding(c) BY <1>2, <1>6, <2>1, Zenon DEF NoBinding
    <2>6. GateInv'
      <3>1. ASSUME NEW d \in Calls PROVE Sends(d)' <=> Sends(d)
        <4>1. CASE d = c BY <1>1, <1>6, <4>1, Zenon DEF Sends
        <4>2. CASE d # c
          <5>1. calls'[d] = calls[d] BY <1>6, <4>2, Zenon DEF Only
          <5> QED BY <1>1, <5>1, Zenon DEF Sends
        <4> QED BY <4>1, <4>2, Zenon
      <3> QED BY <1>1, <1>t, <3>1, GateKept, Zenon
    <2>7. /\ lease' \in [Attachments -> {"none", "live", "expired"}]
          /\ gate' \in Connections \cup Calls \cup {None}
      BY <1>1, <1>t, Zenon DEF Types
    <2> QED BY <1>1, <1>3, <1>6, <2>2, <2>3, <2>4, <2>5, <2>6, <2>7, CallAlone, Zenon
  <1>7. CASE calls' = Ended(c) BY <1>5, <1>7, <1>t, EndedFields, Zenon
  <1>8. CASE calls[c].answer.kind = "closed" /\ calls' = Retry(c, "ConnectionClosed")
    <2>1. /\ Only(c, calls')
          /\ \/ /\ calls[c].attempt = 1 /\ calls'[c].attempt = 2
                /\ calls'[c].stage = "resolve" /\ calls'[c].answer = None
                /\ calls'[c].att = calls[c].att
             \/ calls'[c].stage = "done" /\ Keeps(c, calls')
      BY <1>8, <1>t, RetryFields, Zenon
    <2> QED BY <1>5, <1>6, <1>8, <2>1, Zenon
  <1> QED BY <1>1, <1>7, <1>8, Zenon

-----------------------------------------------------------------------------
(* Steps that wake the calls.                                                *)

SocketsMove ==
    /\ sockets' \in [Connections -> SocketRecord] /\ PastStays
    /\ \A k \in Connections : SameSending(k)

LEMMA SocketsStay == ASSUME Types, UNCHANGED sockets PROVE SocketsMove
  BY Zenon DEF Types, SocketsMove, PastStays, Past, SameSending

\* The stage of a socket changes, between steps that hold no grant_updates.
LEMMA StageMoves ==
    ASSUME Types, NEW k \in Connections, NEW st \in {"serving", "erring"},
           sockets[k].stage # "publishing", sockets' = [sockets EXCEPT ![k].stage = st]
    PROVE  SocketsMove
  <1> DEFINE r == [sockets[k] EXCEPT !.stage = st]
  <1>1. sockets[k] \in SocketRecord BY Zenon DEF Types
  <1>2. r \in SocketRecord /\ r.stage = st BY <1>1, Zenon DEF SocketRecord
  <1>3. sockets' = [sockets EXCEPT ![k] = r] BY Zenon
  <1> HIDE DEF r
  <1>4. /\ Past(k) => r.stage \notin {"new", "registering"}
        /\ r.stage # "publishing"
    BY <1>2, Zenon
  <1> QED BY <1>2, <1>3, <1>4, OneSocket, Zenon DEF SocketsMove

LEMMA WakeInv ==
    ASSUME CompanionInv, Wake(calls') \/ calls' = calls, SameState, SocketsMove,
           UNCHANGED <<requests, owned, releases, lease, gate>>
    PROVE  CompanionInv'
  <1>t. Types /\ ServeInv /\ GateInv BY Zenon DEF CompanionInv
  <1>1. ASSUME NEW d \in Calls
        PROVE  \/ calls'[d] = calls[d]
               \/ /\ calls[d].stage = "asleep" /\ calls'[d].stage = "check"
                  /\ calls'[d].op = calls[d].op /\ calls'[d].att = calls[d].att
                  /\ calls'[d].page = calls[d].page /\ calls'[d].attempt = calls[d].attempt
                  /\ calls'[d].answer = calls[d].answer /\ calls[d].op = "dispatch"
    BY StageOp, Zenon DEF Wake, Idle
  <1>2. calls' \in [Calls -> CallRecord] BY <1>t, Zenon DEF Wake, CallsType, Types
  <1>3. Types' BY <1>2, <1>t, Zenon DEF Types, SameState, SocketsMove
  <1>4. ServeInv'
    <2>1. /\ \A a \in Attachments :
                /\ state'.grants[a] = None \/ Of(state'.grants[a], state.session)
                /\ state'.orphaned[a] # None => state.orphaned[a] # None
          /\ \A c \in Calls :
                /\ state'.pending[c] = None \/ Of(state'.pending[c], state.session)
                /\ state'.bindings[c] = None \/ Of(state'.bindings[c], state.session)
      BY <1>t DEF SameState, ServeInv, OneConnectionServes
    <2>2. /\ state'.session = state.session
          /\ state'.discovery = None \/ Of(state'.discovery, state.session)
      BY Zenon DEF SameState
    <2> QED BY <1>3, <1>t, <2>1, <2>2, ServeKept, Zenon DEF SocketsMove
  <1>5. GateInv'
    <2>1. \A c \in Calls : Sends(c)' <=> Sends(c) BY <1>1, Zenon DEF Sends
    <2> QED BY <1>t, <2>1, GateKept, Zenon DEF SocketsMove, SameSending
  <1>6. ASSUME NEW c \in Calls PROVE PathInv(c)'
    <2>1. PathInv(c) BY Zenon DEF CompanionInv
    <2> QED BY <1>1, <2>1, Zenon DEF PathInv, StagesOf
  <1>7. ASSUME NEW c \in Calls PROVE NoDispatch(c) /\ NoBinding(c)
    <2>1. CASE calls'[c] = calls[c] BY <2>1, SameCallQuiet, Zenon
    <2>2. CASE calls'[c] # calls[c]
      BY <1>1, <2>2, Zenon DEF NoDispatch, NoBinding, Idle
    <2> QED BY <2>1, <2>2, Zenon
  <1>8. (\A c \in Calls : DispatchInv(c)') /\ (\A r \in requests' : RequestInv(r)')
    BY <1>7, DispatchQuiet, Zenon DEF SameState, SocketsMove
  <1>9. PageSide'
    <2>2. \A d \in Calls : NotCleared(d) BY Zenon DEF NotCleared
    <2>3. \A a \in Attachments : /\ SameGrant(state'.grants[a], state.grants[a])
                                 /\ SameGrant(state'.orphaned[a], state.orphaned[a])
      BY Zenon DEF SameGrant, SameState
    <2> QED BY <1>7, <2>2, <2>3, PagesQuiet, Zenon DEF SameState, SocketsMove
  <1> QED BY <1>3, <1>4, <1>5, <1>6, <1>8, <1>9, Assembled, Zenon

\* ResendGrants
LEMMA ResendGrantsInv ==
    ASSUME CompanionInv, NEW k \in Connections, ResendGrants(k)
    PROVE  CompanionInv'
  <1>t. Types /\ ServeInv BY Zenon DEF CompanionInv
  <1>1. /\ UNCHANGED <<state, gate, lease, requests, owned, releases>>
        /\ calls' = Woken(calls) /\ sockets[k].stage # "publishing"
        /\ sockets' = [sockets EXCEPT ![k].stage = "serving"]
    BY Zenon DEF ResendGrants
  <1>2. SameState BY <1>1, <1>t, StateStays, Zenon
  <1>3. SocketsMove BY <1>1, <1>t, StageMoves, Zenon
  <1>4. Wake(calls') BY <1>1, <1>t, WokenFields, Zenon
  <1> QED BY <1>1, <1>2, <1>3, <1>4, WakeInv, Zenon

\* record_discovery
LEMMA RecordDiscoveryInv ==
    ASSUME CompanionInv, NEW k \in Connections, NEW T \in Reports, record_discovery(k, T)
    PROVE  CompanionInv'
  <1>t. Types /\ ServeInv /\ state \in SessionState BY Zenon DEF CompanionInv, Types
  <1>1. UNCHANGED <<gate, lease, requests, owned, releases>> /\ sockets[k].stage = "serving"
    BY Zenon DEF record_discovery
  <1>2. CASE /\ state.session = k /\ state' = [state EXCEPT !.discovery = [conn |-> k, targets |-> T]]
             /\ calls' = Woken(calls) /\ UNCHANGED sockets
    <2> DEFINE v == [conn |-> k, targets |-> T]
    <2>1. v \in DiscoveryRecord BY CompanionAssumption, Zenon DEF DiscoveryRecord
    <2>2. v.conn = k /\ v # None BY <2>1, CompanionAssumption, Zenon
    <2>3. state' = [state EXCEPT !.discovery = v] BY <1>2, Zenon
    <2> HIDE DEF v
    <2>4. SameState BY <1>2, <1>t, <2>1, <2>2, <2>3, DiscoverySet DEF SameState, Of
    <2>5. Wake(calls') BY <1>2, <1>t, WokenFields, Zenon
    <2>6. SocketsMove BY <1>2, <1>t, SocketsStay, Zenon
    <2> QED BY <1>1, <2>4, <2>5, <2>6, WakeInv, Zenon
  <1>3. CASE sockets' = [sockets EXCEPT ![k].stage = "erring"] /\ UNCHANGED <<state, calls>>
    <2>1. SocketsMove BY <1>1, <1>3, <1>t, StageMoves, Zenon
    <2>2. SameState BY <1>3, <1>t, StateStays, Zenon
    <2> QED BY <1>1, <1>3, <2>1, <2>2, WakeInv, Zenon
  <1> QED BY <1>2, <1>3, Zenon DEF record_discovery

-----------------------------------------------------------------------------
(* Steps of the commands.                                                    *)

\* Only the expected commands change.
PendingOnly ==
    /\ state' \in SessionState
    /\ state'.session = state.session /\ state'.discovery = state.discovery
    /\ state'.grants = state.grants /\ state'.orphaned = state.orphaned
    /\ state'.bindings = state.bindings
    /\ \A c \in Calls : state'.pending[c] = None \/ Of(state'.pending[c], state.session)

\* ... and of the calls only c, a command; PathInv(c) without what owned says.
CommandMoves(c) ==
    /\ Only(c, calls')
    /\ calls[c].op = "dispatch"
    /\ calls'[c].att = calls[c].att
    /\ calls'[c].stage \in StagesOf("dispatch") \ {"grantSending"}
    /\ calls[c].stage # "grantSending"
    /\ calls'[c].stage \in {"sending", "awaiting"} => calls'[c].conn \in Connections

LEMMA CommandStep ==
    ASSUME CompanionInv, PendingOnly, SocketsMove, UNCHANGED <<lease, gate, owned, releases>>,
           \/ calls' = calls
           \/ \E c \in Calls : CommandMoves(c),
           requests' \subseteq [conn : Connections, call : Calls, attempt : 1..3, late : BOOLEAN],
           \A c \in Calls : DispatchInv(c)', \A r \in requests' : RequestInv(r)'
    PROVE  CompanionInv'
  <1>t. Types /\ ServeInv /\ GateInv BY Zenon DEF CompanionInv
  <1>2. calls' \in [Calls -> CallRecord] BY <1>t, Zenon DEF CommandMoves, Only, CallsType, Types
  <1>3. Types' BY <1>2, <1>t, Zenon DEF Types, PendingOnly, SocketsMove
  <1>4. ServeInv'
    <2>1. /\ state'.discovery = None \/ Of(state'.discovery, state.session)
          /\ \A a \in Attachments :
                /\ state'.grants[a] = None \/ Of(state'.grants[a], state.session)
                /\ state'.orphaned[a] # None => state.orphaned[a] # None
          /\ \A c \in Calls :
                /\ state'.pending[c] = None \/ Of(state'.pending[c], state.session)
                /\ state'.bindings[c] = None \/ Of(state'.bindings[c], state.session)
      BY <1>t DEF PendingOnly, ServeInv, OneConnectionServes
    <2>2. state'.session = state.session BY Zenon DEF PendingOnly
    <2> QED BY <1>3, <1>t, <2>1, <2>2, ServeKept, Zenon DEF SocketsMove
  <1>5. ASSUME NEW d \in Calls
        PROVE  PathInv(d)' /\ NoBinding(d) /\ (Sends(d)' <=> Sends(d))
    <2>1. PathInv(d) BY Zenon DEF CompanionInv
    <2>2. CASE calls'[d] = calls[d] BY <2>1, <2>2, Zenon DEF PathInv, NoBinding, Sends
    <2>3. CASE CommandMoves(d)
      <3>1. calls'[d].op = "dispatch" /\ calls'[d].page = calls[d].page BY <2>3, Zenon DEF CommandMoves, Only
      <3>2. calls'[d].stage \notin {"grantSending", "renewSending", "ticket", "removing"}
        BY <2>3, Zenon DEF CommandMoves, StagesOf
      <3>3. calls[d].stage \notin {"grantSending", "renewSending"}
        BY <2>1, <2>3, Zenon DEF CommandMoves, PathInv, StagesOf
      <3>4. PathInv(d)' BY <2>1, <2>3, <3>1, <3>2, Zenon DEF PathInv, CommandMoves
      <3>5. NoBinding(d) BY <2>3, <3>1, <3>2, Zenon DEF NoBinding, CommandMoves
      <3>6. Sends(d)' <=> Sends(d) BY <3>2, <3>3, Zenon DEF Sends
      <3> QED BY <3>4, <3>5, <3>6, Zenon
    <2> QED BY <2>2, <2>3, Zenon DEF CommandMoves, Only
  <1>6. GateInv' BY <1>5, <1>t, GateKept, Zenon DEF SocketsMove, SameSending
  <1>7. PageSide'
    <2>2. \A d \in Calls : NotCleared(d) BY Zenon DEF NotCleared
    <2>3. \A a \in Attachments : /\ SameGrant(state'.grants[a], state.grants[a])
                                 /\ SameGrant(state'.orphaned[a], state.orphaned[a])
      BY Zenon DEF SameGrant, PendingOnly
    <2> QED BY <1>5, <2>2, <2>3, PagesQuiet, Zenon DEF PendingOnly, SocketsMove
  <1> QED BY <1>3, <1>4, <1>5, <1>6, <1>7, Assembled, Zenon

\* A command whose retention has passed may be forgotten.
Purged(d) ==
    \/ state'.pending[d] = state.pending[d]
    \/ /\ state.pending[d] # None /\ state.pending[d].lapsed /\ ~state.pending[d].heard
       /\ state'.pending[d] = None

LEMMA PurgedDispatch ==
    ASSUME CompanionInv, NEW d \in Calls, calls'[d] = calls[d], Purged(d), PastStays,
           state'.session = state.session
    PROVE  DispatchInv(d)'
  <1>1. DispatchInv(d) /\ PathInv(d) BY Zenon DEF CompanionInv
  <1>2. calls[d].stage \in {"sending", "awaiting"} => calls[d].conn \in Connections
    BY <1>1, Zenon DEF PathInv
  <1> QED BY <1>1, <1>2, Zenon DEF DispatchInv, Purged, PastStays

LEMMA PurgedRequest ==
    ASSUME CompanionInv, NEW r \in requests, calls'[r.call] = calls[r.call], Purged(r.call), PastStays,
           state'.session = state.session,
           \A q \in requests' : q.call = r.call /\ q.attempt = r.attempt => q = r
    PROVE  RequestInv(r)'
  <1>1. RequestInv(r) /\ r.conn \in Connections BY Zenon DEF CompanionInv, Types
  <1>2. Past(r.conn)' BY <1>1, Zenon DEF RequestInv, PastStays
  <1> QED BY <1>1, <1>2, Zenon DEF RequestInv, Purged, Of

\* The command of a call that has not sent it again has no request of this attempt.
LEMMA EarlierRequest ==
    ASSUME CompanionInv, NEW r \in requests, calls[r.call].stage \notin {"awaiting", "done"}
    PROVE  r.attempt < calls[r.call].attempt /\ r.conn # state.session
  <1>1. RequestInv(r) /\ r.attempt \in 1..3 /\ r.call \in Calls BY Zenon DEF CompanionInv, Types
  <1>2. calls[r.call].attempt \in 1..3 BY <1>1, Zenon DEF CompanionInv, Types, CallRecord
  <1> QED BY <1>1, <1>2 DEF RequestInv

LEMMA EarlierKept ==
    ASSUME CompanionInv, NEW r \in requests, r.attempt < calls[r.call].attempt,
           calls'[r.call].op = calls[r.call].op, calls'[r.call].attempt = calls[r.call].attempt,
           state'.session = state.session, PastStays,
           \A q \in requests' : q.call = r.call /\ q.attempt = r.attempt => q = r
    PROVE  RequestInv(r)'
  <1>1. RequestInv(r) /\ r.attempt \in 1..3 /\ r.call \in Calls /\ r.conn \in Connections
    BY Zenon DEF CompanionInv, Types
  <1>2. calls[r.call].attempt \in 1..3 BY <1>1, Zenon DEF CompanionInv, Types, CallRecord
  <1>3. Past(r.conn)' BY <1>1, Zenon DEF RequestInv, PastStays
  <1> QED BY <1>1, <1>2, <1>3 DEF RequestInv

\* What purge_expired_pending leaves is of the connection that serves.
LEMMA PurgeOnly ==
    ASSUME CompanionInv
    PROVE  LET s == purge_expired_pending(state)
           IN  /\ s \in SessionState
               /\ s.session = state.session /\ s.discovery = state.discovery
               /\ s.grants = state.grants /\ s.orphaned = state.orphaned
               /\ s.bindings = state.bindings
               /\ \A d \in Calls :
                     /\ \/ s.pending[d] = state.pending[d]
                        \/ /\ state.pending[d] # None /\ state.pending[d].lapsed
                           /\ ~state.pending[d].heard /\ s.pending[d] = None
                     /\ s.pending[d] = None \/ Of(s.pending[d], state.session)
  <1>1. state \in SessionState BY Zenon DEF CompanionInv, Types
  <1>2. \A d \in Calls : state.pending[d] = None \/ Of(state.pending[d], state.session)
    BY Zenon DEF CompanionInv, ServeInv, OneConnectionServes
  <1> QED BY <1>1, <1>2, PurgeFields, Zenon

\* Submit
LEMMA SubmitInv ==
    ASSUME CompanionInv, NEW c \in Calls, Submit(c)
    PROVE  CompanionInv'
  <1> DEFINE s == purge_expired_pending(state)
             v == [conn |-> s.session, heard |-> TRUE, lapsed |-> FALSE]
  <1>1. /\ UNCHANGED <<gate, lease, sockets, requests, owned, releases>>
        /\ calls[c].stage = "ready"
    BY Zenon DEF Submit
  <1>m. \/ state' = s /\ (calls' = Retry(c, "GrantUnavailable") \/ calls' = Ended(c))
        \/ /\ state' = [s EXCEPT !.pending[c] = v] /\ s.session # None
           /\ calls' = [calls EXCEPT ![c].stage = "sending", ![c].conn = s.session]
    BY Zenon DEF Submit
  <1>t. Types /\ ServeInv /\ DispatchInv(c) /\ calls[c] \in CallRecord BY Zenon DEF CompanionInv, Types
  <1>2. calls[c].op = "dispatch" BY <1>1, StageOp, Zenon DEF Idle
  <1>p. /\ s \in SessionState
        /\ s.session = state.session /\ s.discovery = state.discovery
        /\ s.grants = state.grants /\ s.orphaned = state.orphaned /\ s.bindings = state.bindings
        /\ \A d \in Calls :
              /\ \/ s.pending[d] = state.pending[d]
                 \/ /\ state.pending[d] # None /\ state.pending[d].lapsed
                    /\ ~state.pending[d].heard /\ s.pending[d] = None
              /\ s.pending[d] = None \/ Of(s.pending[d], state.session)
    BY PurgeOnly, Zenon
  <1>s. SocketsMove /\ PastStays BY <1>1, <1>t, SocketsStay, Zenon DEF SocketsMove
  <1>n. ~(state.pending[c] # None /\ state.pending[c].heard) BY <1>1, IdleUnheard, Zenon
  <1>c. s.session # None => s.session \in Connections BY <1>p, StateFields, Zenon
  <1>v. s.session # None => v \in PendingCommand /\ v # None /\ v.conn = s.session /\ v.heard
    <2>1. v.conn = s.session /\ v.heard BY Zenon
    <2>2. s.session \in Connections => v \in PendingCommand BY Zenon DEF PendingCommand
    <2> QED BY <1>c, <2>1, <2>2, CompanionAssumption, Zenon
  <1> HIDE DEF s, v
  <1>3. /\ CommandMoves(c) /\ calls'[c].attempt = calls[c].attempt
        /\ \/ calls'[c].answer = None
           \/ Keeps(c, calls') /\ calls'[c].stage = "done"
        /\ state' = s => /\ calls'[c].stage \in {"granting", "done"}
                         /\ calls'[c].stage = "granting" => calls'[c].attempt = 2
        /\ state' # s => calls'[c].stage = "sending" /\ calls'[c].conn = s.session
    <2>1. CASE state' = s /\ calls' = Ended(c)
      <3>1. Only(c, calls') /\ Keeps(c, calls') /\ calls'[c].stage = "done" BY <1>t, <2>1, EndedFields, Zenon
      <3> QED BY <1>1, <1>2, <2>1, <3>1, Zenon DEF CommandMoves, Keeps, StagesOf
    <2>2. CASE state' = s /\ calls' = Retry(c, "GrantUnavailable")
      <3>1. /\ Only(c, calls')
            /\ \/ /\ calls[c].attempt = 2 /\ calls'[c].attempt = 2
                  /\ calls'[c].stage = "granting" /\ calls'[c].answer = None
                  /\ calls'[c].att = calls[c].att
               \/ calls'[c].stage = "done" /\ Keeps(c, calls')
        BY <1>t, <2>2, RetryFields, Zenon
      <3> QED BY <1>1, <1>2, <2>2, <3>1, Zenon DEF CommandMoves, Keeps, StagesOf
    <2>3. CASE /\ state' = [s EXCEPT !.pending[c] = v] /\ s.session # None
               /\ calls' = [calls EXCEPT ![c].stage = "sending", ![c].conn = s.session]
      <3> DEFINE r == [calls[c] EXCEPT !.stage = "sending", !.conn = s.session]
      <3>1. calls' = [calls EXCEPT ![c] = r] BY <1>t, <2>3, Zenon DEF Types
      <3>c. s.session \in Connections BY <1>p, <2>3, StateFields, Zenon
      <3>2. /\ r \in CallRecord /\ r.op = calls[c].op /\ r.page = calls[c].page /\ r.stage = "sending"
            /\ r.att = calls[c].att /\ r.attempt = calls[c].attempt /\ r.answer = calls[c].answer
            /\ r.conn = s.session
        BY <1>t, <3>c, Zenon DEF CallRecord
      <3> HIDE DEF r
      <3>3. Only(c, calls') /\ calls'[c] = r BY <1>t, <3>1, <3>2, OneCall, Zenon
      <3>4. calls[c].answer = None BY <1>1, <1>2, <1>t, Zenon DEF DispatchInv
      <3>5. CommandMoves(c) BY <1>1, <1>2, <3>2, <3>3, <3>c, Zenon DEF CommandMoves, StagesOf
      <3>6. state' # s
        <4>1. state'.pending[c] = v BY <1>p, <1>v, <2>3, PendingSet
        <4>2. ~(s.pending[c] # None /\ s.pending[c].heard) BY <1>p, <1>n, Zenon
        <4> QED BY <1>v, <2>3, <4>1, <4>2, Zenon
      <3> QED BY <3>2, <3>3, <3>4, <3>5, <3>6, Zenon
    <2> QED BY <1>m, <2>1, <2>2, <2>3, Zenon
  <1>4. /\ PendingOnly
        /\ \A d \in Calls \ {c} : Purged(d)
        /\ state' = s \/ (s.session # None /\ state'.pending[c] = v)
    <2>1. CASE state' = s BY <1>p, <2>1, Zenon DEF PendingOnly, Purged
    <2>2. CASE state' = [s EXCEPT !.pending[c] = v] /\ s.session # None
      <3>1. /\ state' \in SessionState
            /\ state'.session = s.session /\ state'.discovery = s.discovery
            /\ state'.grants = s.grants /\ state'.orphaned = s.orphaned
            /\ state'.bindings = s.bindings
            /\ state'.pending[c] = v /\ \A d \in Calls \ {c} : state'.pending[d] = s.pending[d]
        BY <1>p, <1>v, <2>2, PendingSet
      <3>2. Of(state'.pending[c], state.session) BY <1>p, <1>v, <2>2, <3>1, Zenon DEF Of
      <3> QED BY <1>p, <2>2, <3>1, <3>2 DEF PendingOnly, Purged
    <2> QED BY <1>m, <2>1, <2>2, Zenon
  <1>5. DispatchInv(c)'
    <2>o. calls'[c].op = "dispatch" BY <1>2, <1>3, Zenon DEF CommandMoves, Only
    <2>1. CASE state' = s
      <3>1. ~(state'.pending[c] # None /\ state'.pending[c].heard) BY <1>n, <1>p, <2>1, Zenon
      <3>2. calls'[c].stage \in {"granting", "done"} BY <1>3, <2>1, Zenon
      <3>3. calls'[c].stage = "granting" => calls'[c].answer = None /\ calls'[c].attempt = 2
        BY <1>3, <2>1, Zenon
      <3>4. calls'[c].answer # None /\ calls'[c].answer.kind = "answered"
               => calls'[c].answer.attempt = calls'[c].attempt
        BY <1>3, <1>t, Zenon DEF Keeps, DispatchInv
      <3> QED BY <2>o, <3>1, <3>2, <3>3, <3>4, Zenon DEF DispatchInv
    <2>2. CASE state' # s
      <3>1. s.session # None /\ state'.pending[c] = v BY <1>4, <2>2, Zenon
      <3>2. calls'[c].stage = "sending" /\ calls'[c].conn = s.session /\ calls'[c].answer = None
        BY <1>3, <2>2, Zenon
      <3>3. sockets'[s.session].stage \notin {"new", "registering"}
        BY <1>1, <1>p, <1>t, <3>1, Zenon DEF ServeInv, Past
      <3>4. (Past(calls[c].conn))' BY <3>2, <3>3, Zenon DEF Past
      <3>5. state'.pending[c] # None /\ state'.pending[c].heard /\ state'.pending[c].conn = s.session
        BY <1>v, <3>1, Zenon
      <3> QED BY <2>o, <3>2, <3>4, <3>5, Zenon DEF DispatchInv
    <2> QED BY <2>1, <2>2, Zenon
  <1>6. ASSUME NEW d \in Calls PROVE DispatchInv(d)'
    <2>1. CASE d # c
      <3>1. calls'[d] = calls[d] BY <1>3, <2>1, Zenon DEF CommandMoves, Only
      <3> QED BY <1>4, <1>s, <2>1, <3>1, PurgedDispatch, Zenon DEF PendingOnly
    <2> QED BY <1>5, <2>1, Zenon
  <1>u. \A r, q \in requests : q.call = r.call /\ q.attempt = r.attempt => q = r
    BY Zenon DEF CompanionInv, RequestInv
  <1>7. ASSUME NEW r \in requests' PROVE RequestInv(r)'
    <2>0. r \in requests /\ r.call \in Calls BY <1>1, <1>t, Zenon DEF Types
    <2>1. CASE r.call # c
      <3>1. calls'[r.call] = calls[r.call] BY <1>3, <2>0, <2>1, Zenon DEF CommandMoves, Only
      <3> QED BY <1>1, <1>4, <1>s, <1>u, <2>0, <2>1, <3>1, PurgedRequest, Zenon DEF PendingOnly
    <2>2. CASE r.call = c
      <3>1. r.attempt < calls[r.call].attempt BY <1>1, <2>0, <2>2, EarlierRequest, Zenon
      <3>2. calls'[c].op = calls[c].op /\ calls'[c].attempt = calls[c].attempt
        BY <1>3, Zenon DEF CommandMoves, Only, Keeps
      <3> QED BY <1>1, <1>4, <1>s, <1>u, <2>0, <2>2, <3>1, <3>2, EarlierKept, Zenon DEF PendingOnly
    <2> QED BY <2>1, <2>2, Zenon
  <1>8. requests' \subseteq [conn : Connections, call : Calls, attempt : 1..3, late : BOOLEAN]
    BY <1>1, <1>t, Zenon DEF Types
  <1>9. CommandMoves(c) BY <1>3, Zenon
  <1> QED BY <1>1, <1>4, <1>6, <1>7, <1>8, <1>9, <1>s, CommandStep, Zenon

\* SendAction
LEMMA SendActionInv ==
    ASSUME CompanionInv, NEW c \in Calls, SendAction(c)
    PROVE  CompanionInv'
  <1> DEFINE k == calls[c].conn
             q0 == [conn |-> k, call |-> c, attempt |-> calls[c].attempt, late |-> FALSE]
             w == IF Of(state.pending[c], k) THEN None ELSE state.pending[c]
             x == [calls[c] EXCEPT !.stage = "awaiting"]
  <1>1. UNCHANGED <<gate, lease, sockets, owned, releases>> /\ calls[c].stage = "sending"
    BY Zenon DEF SendAction
  <1>t. /\ Types /\ ServeInv /\ DispatchInv(c) /\ PathInv(c) /\ calls[c] \in CallRecord
        /\ state \in SessionState
    BY Zenon DEF CompanionInv, Types
  <1>m. \/ requests' = requests \cup {q0} /\ calls' = [calls EXCEPT ![c] = x] /\ state' = state
        \/ requests' = requests /\ calls' = [calls EXCEPT ![c] = x] /\ state' = state
        \/ requests' = requests /\ calls' = Ended(c) /\ state' = [state EXCEPT !.pending[c] = w]
    BY <1>t, Zenon DEF SendAction, remove_pending, Types, SessionState
  <1>2. calls[c].op = "dispatch" BY <1>1, StageOp, Zenon
  <1>k. k \in Connections BY <1>1, <1>t, Zenon DEF PathInv
  <1>s. SocketsMove /\ PastStays BY <1>1, <1>t, SocketsStay, Zenon DEF SocketsMove
  <1>x. /\ x \in CallRecord /\ x.op = calls[c].op /\ x.page = calls[c].page /\ x.stage = "awaiting"
        /\ x.att = calls[c].att /\ x.attempt = calls[c].attempt /\ x.answer = calls[c].answer
        /\ x.conn = k
    BY <1>t DEF CallRecord
  <1>q. /\ q0 \in [conn : Connections, call : Calls, attempt : 1..3, late : BOOLEAN]
        /\ q0.conn = k /\ q0.call = c /\ q0.attempt = calls[c].attempt /\ ~q0.late
    BY <1>k, <1>t, Zenon DEF CallRecord
  <1>w. w \in PendingCommand \cup {None} /\ (w = state.pending[c] \/ w = None)
        /\ ~Of(w, k)
    BY <1>t, StateFields, Zenon DEF Of
  <1>h. state.pending[c] # None /\ state.pending[c].heard => Of(state.pending[c], k)
    BY <1>t, Zenon DEF DispatchInv, Of
  <1> HIDE DEF x, q0, w
  <1>3. /\ CommandMoves(c) /\ Keeps(c, calls')
        /\ \/ calls'[c].stage = "awaiting" /\ calls'[c].conn = k /\ state' = state
           \/ calls'[c].stage = "done" /\ state' = [state EXCEPT !.pending[c] = w] /\ requests' = requests
    <2>1. CASE calls' = [calls EXCEPT ![c] = x] /\ state' = state
      <3>1. Only(c, calls') /\ calls'[c] = x BY <1>t, <1>x, <2>1, OneCall, Zenon
      <3> QED BY <1>1, <1>2, <1>k, <1>x, <2>1, <3>1 DEF CommandMoves, Keeps, StagesOf
    <2>2. CASE calls' = Ended(c) /\ state' = [state EXCEPT !.pending[c] = w] /\ requests' = requests
      <3>1. Only(c, calls') /\ Keeps(c, calls') /\ calls'[c].stage = "done" BY <1>t, <2>2, EndedFields, Zenon
      <3> QED BY <1>1, <1>2, <2>2, <3>1, Zenon DEF CommandMoves, Keeps, StagesOf
    <2> QED BY <1>m, <2>1, <2>2, Zenon
  <1>4. /\ PendingOnly /\ \A d \in Calls \ {c} : Purged(d)
        /\ state' # state => state'.pending[c] = w
    <2>0. \A d \in Calls : state.pending[d] = None \/ Of(state.pending[d], state.session)
      BY <1>t, Zenon DEF ServeInv, OneConnectionServes
    <2>1. CASE state' = state BY <1>t, <2>0, <2>1, Zenon DEF PendingOnly, Purged
    <2>2. CASE state' = [state EXCEPT !.pending[c] = w]
      <3>1. /\ state' \in SessionState
            /\ state'.session = state.session /\ state'.discovery = state.discovery
            /\ state'.grants = state.grants /\ state'.orphaned = state.orphaned
            /\ state'.bindings = state.bindings
            /\ state'.pending[c] = w /\ \A d \in Calls \ {c} : state'.pending[d] = state.pending[d]
        BY <1>t, <1>w, <2>2, PendingSet
      <3>2. w = None \/ Of(w, state.session) BY <1>w, <2>0, Zenon
      <3> QED BY <2>0, <3>1, <3>2, Zenon DEF PendingOnly, Purged
    <2> QED BY <1>m, <2>1, <2>2, Zenon
  <1>5. DispatchInv(c)'
    <2>o. calls'[c].op = "dispatch" BY <1>2, <1>3, Zenon DEF CommandMoves, Only
    <2>1. CASE calls'[c].stage = "awaiting" /\ calls'[c].conn = k /\ state' = state
      <3>1. (Past(calls[c].conn))' BY <1>1, <1>t, <2>1, Zenon DEF DispatchInv, Past
      <3> QED BY <1>1, <1>2, <1>3, <1>t, <2>o, <2>1, <3>1, Zenon DEF DispatchInv, Keeps
    <2>2. CASE calls'[c].stage = "done" /\ state' = [state EXCEPT !.pending[c] = w]
      <3>1. state'.pending[c] = w BY <1>t, <1>w, <2>2, PendingSet, Zenon
      <3>2. ~(w # None /\ w.heard) BY <1>h, <1>w, Zenon
      <3> QED BY <1>2, <1>3, <1>t, <2>o, <2>2, <3>1, <3>2, Zenon DEF DispatchInv, Keeps
    <2> QED BY <1>3, <2>1, <2>2, Zenon
  <1>6. ASSUME NEW d \in Calls PROVE DispatchInv(d)'
    <2>1. CASE d # c
      <3>1. calls'[d] = calls[d] BY <1>3, <2>1, Zenon DEF CommandMoves, Only
      <3> QED BY <1>4, <1>s, <2>1, <3>1, PurgedDispatch, Zenon DEF PendingOnly
    <2> QED BY <1>5, <2>1, Zenon
  <1>e. \A r \in requests : r.call = c => r.attempt < calls[c].attempt
    BY <1>1, EarlierRequest, Zenon
  <1>n. calls[c].attempt \in 1..3 BY <1>t, Zenon DEF CallRecord
  <1>u. ASSUME NEW r \in requests', NEW q \in requests', q.call = r.call, q.attempt = r.attempt
        PROVE  q = r
    <2>1. \A y, z \in requests : y.call = z.call /\ y.attempt = z.attempt => y = z
      BY Zenon DEF CompanionInv, RequestInv
    <2>2. \A y \in requests' : y \in requests \/ y = q0 BY <1>m, Zenon
    <2>3. \A y \in requests : ~(y.call = q0.call /\ y.attempt = q0.attempt) BY <1>e, <1>q, <1>n
    <2> QED BY <1>u, <2>1, <2>2, <2>3, Zenon
  <1>7. ASSUME NEW r \in requests' PROVE RequestInv(r)'
    <2>1. CASE r \in requests /\ r.call # c
      <3>0. r.call \in Calls BY <1>t, <2>1, Zenon DEF Types
      <3>1. calls'[r.call] = calls[r.call] BY <1>3, <2>1, <3>0, Zenon DEF CommandMoves, Only
      <3> QED BY <1>4, <1>s, <1>u, <2>1, <3>0, <3>1, PurgedRequest, Zenon DEF PendingOnly
    <2>2. CASE r \in requests /\ r.call = c
      <3>2. calls'[c].op = calls[c].op /\ calls'[c].attempt = calls[c].attempt
        BY <1>3, Zenon DEF CommandMoves, Only, Keeps
      <3> QED BY <1>4, <1>e, <1>s, <1>u, <2>2, <3>2, EarlierKept, Zenon DEF PendingOnly
    <2>3. CASE r \notin requests
      <3>1. r = q0 /\ calls'[c].stage = "awaiting" /\ calls'[c].conn = k /\ state' = state
        BY <1>3, <1>m, <2>3, Zenon
      <3>2. calls'[c].op = "dispatch" /\ calls'[c].attempt = calls[c].attempt
        BY <1>2, <1>3, Zenon DEF CommandMoves, Only, Keeps
      <3>3. Past(r.conn)' BY <1>1, <1>q, <1>t, <3>1, Zenon DEF DispatchInv, Past
      <3>4. k = state.session => Of(state.pending[c], k) /\ state.pending[c].heard
        BY <1>1, <1>t, <1>h, Zenon DEF DispatchInv
      <3>5. \A q \in requests' : q.call = r.call /\ q.attempt = r.attempt => q = r BY <1>u, Zenon
      <3> QED BY <1>n, <1>q, <3>1, <3>2, <3>3, <3>4, <3>5 DEF RequestInv
    <2> QED BY <2>1, <2>2, <2>3, Zenon
  <1>8. requests' \subseteq [conn : Connections, call : Calls, attempt : 1..3, late : BOOLEAN]
    BY <1>m, <1>q, <1>t, Zenon DEF Types
  <1> QED BY <1>1, <1>3, <1>4, <1>6, <1>7, <1>8, <1>s, CommandStep, Zenon

\* AbandonAction: the tombstone that is left is for the request that was sent.
LEMMA AbandonInv ==
    ASSUME CompanionInv, NEW c \in Calls, AbandonAction(c)
    PROVE  CompanionInv'
  <1> DEFINE k == calls[c].conn
             s == purge_expired_pending(state)
             v == [s.pending[c] EXCEPT !.heard = FALSE, !.lapsed = FALSE]
  <1>1. /\ UNCHANGED <<gate, lease, sockets, requests, owned, releases>>
        /\ calls[c].stage \in {"sending", "awaiting"} /\ calls' = Ended(c)
    BY Zenon DEF AbandonAction
  <1>t. /\ Types /\ ServeInv /\ DispatchInv(c) /\ PathInv(c) /\ calls[c] \in CallRecord
        /\ state \in SessionState
    BY Zenon DEF CompanionInv, Types
  <1>2. calls[c].op = "dispatch" BY <1>1, StageOp, Zenon
  <1>p. /\ s \in SessionState
        /\ s.session = state.session /\ s.discovery = state.discovery
        /\ s.grants = state.grants /\ s.orphaned = state.orphaned /\ s.bindings = state.bindings
        /\ \A d \in Calls :
              /\ \/ s.pending[d] = state.pending[d]
                 \/ /\ state.pending[d] # None /\ state.pending[d].lapsed
                    /\ ~state.pending[d].heard /\ s.pending[d] = None
              /\ s.pending[d] = None \/ Of(s.pending[d], state.session)
    BY PurgeOnly, Zenon
  <1>m. \/ Of(s.pending[c], k) /\ state' = [s EXCEPT !.pending[c] = v]
        \/ ~Of(s.pending[c], k) /\ state' = s
    <2>1. s \in SessionState /\ state' = abandon_pending(state, c, k) BY <1>p, Zenon DEF AbandonAction
    <2>2. CASE Of(s.pending[c], k)
      <3>1. state' = [s EXCEPT !.pending[c].heard = FALSE, !.pending[c].lapsed = FALSE]
        BY <2>1, <2>2, Zenon DEF abandon_pending
      <3> HIDE DEF s
      <3> QED BY <2>1, <2>2, <3>1, Zenon DEF SessionState
    <2>3. CASE ~Of(s.pending[c], k) BY <2>1, <2>3, Zenon DEF abandon_pending
    <2> QED BY <2>2, <2>3, Zenon
  <1>v. Of(s.pending[c], k) => /\ v \in PendingCommand /\ v # None /\ v.conn = s.pending[c].conn
                               /\ v.conn = k /\ ~v.heard /\ ~v.lapsed
    <2>1. SUFFICES ASSUME Of(s.pending[c], k)
                   PROVE  /\ v \in PendingCommand /\ v.conn = s.pending[c].conn
                          /\ ~v.heard /\ ~v.lapsed
      BY CompanionAssumption, Zenon DEF Of
    <2>2. s.pending[c] \in PendingCommand BY <1>p, <2>1, StateFields DEF Of
    <2> QED BY <2>2, Zenon DEF PendingCommand
  <1>s. SocketsMove /\ PastStays BY <1>1, <1>t, SocketsStay, Zenon DEF SocketsMove
  <1> HIDE DEF s, v
  <1>3. Only(c, calls') /\ Keeps(c, calls') /\ calls'[c].stage = "done" BY <1>1, <1>t, EndedFields, Zenon
  <1>9. CommandMoves(c) BY <1>1, <1>2, <1>3, Zenon DEF CommandMoves, Keeps, StagesOf
  <1>4. /\ PendingOnly
        /\ \A d \in Calls \ {c} : Purged(d)
        /\ state'.pending[c] = IF Of(s.pending[c], k) THEN v ELSE s.pending[c]
    <2>1. CASE ~Of(s.pending[c], k) /\ state' = s BY <1>p, <2>1, Zenon DEF PendingOnly, Purged
    <2>2. CASE Of(s.pending[c], k) /\ state' = [s EXCEPT !.pending[c] = v]
      <3>1. /\ state' \in SessionState
            /\ state'.session = s.session /\ state'.discovery = s.discovery
            /\ state'.grants = s.grants /\ state'.orphaned = s.orphaned
            /\ state'.bindings = s.bindings
            /\ state'.pending[c] = v /\ \A d \in Calls \ {c} : state'.pending[d] = s.pending[d]
        BY <1>p, <1>v, <2>2, PendingSet
      <3>2. Of(state'.pending[c], state.session) BY <1>p, <1>v, <2>2, <3>1, Zenon DEF Of
      <3> QED BY <1>p, <2>2, <3>1, <3>2 DEF PendingOnly, Purged
    <2> QED BY <1>m, <2>1, <2>2, Zenon
  <1>5. DispatchInv(c)'
    <2>o. calls'[c].op = "dispatch" BY <1>2, <1>3, Zenon DEF Only
    <2>1. ~(state'.pending[c] # None /\ state'.pending[c].heard)
      BY <1>4, <1>p, <1>t, <1>v DEF DispatchInv, Of
    <2> QED BY <1>3, <1>t, <2>o, <2>1, Zenon DEF DispatchInv, Keeps
  <1>6. ASSUME NEW d \in Calls PROVE DispatchInv(d)'
    <2>1. CASE d # c
      <3>1. calls'[d] = calls[d] BY <1>3, <2>1, Zenon DEF Only
      <3> QED BY <1>4, <1>s, <2>1, <3>1, PurgedDispatch, Zenon DEF PendingOnly
    <2> QED BY <1>5, <2>1, Zenon
  <1>u. \A r, q \in requests : q.call = r.call /\ q.attempt = r.attempt => q = r
    BY Zenon DEF CompanionInv, RequestInv
  <1>o. calls'[c].op = calls[c].op /\ calls'[c].attempt = calls[c].attempt BY <1>3, Zenon DEF Only, Keeps
  <1>7. ASSUME NEW r \in requests' PROVE RequestInv(r)'
    <2>0. r \in requests /\ r.call \in Calls /\ r.attempt \in 1..3 /\ RequestInv(r)
      BY <1>1, <1>t, Zenon DEF Types, CompanionInv
    <2>1. CASE r.call # c
      <3>1. calls'[r.call] = calls[r.call] BY <1>3, <2>0, <2>1, Zenon DEF Only
      <3> QED BY <1>1, <1>4, <1>s, <1>u, <2>0, <2>1, <3>1, PurgedRequest, Zenon DEF PendingOnly
    <2>2. CASE r.call = c /\ r.attempt < calls[c].attempt
      BY <1>1, <1>4, <1>o, <1>s, <1>u, <2>0, <2>2, EarlierKept, Zenon DEF PendingOnly
    <2>3. CASE r.call = c /\ ~(r.attempt < calls[c].attempt)
      <3>0. calls[c].attempt \in 1..3 BY <1>t, Zenon DEF CallRecord
      <3>1. r.attempt = calls[c].attempt BY <2>0, <2>3, <3>0 DEF RequestInv
      <3>2. r.conn = k BY <1>1, <2>0, <2>3, <3>1, Zenon DEF RequestInv
      <3>3. ASSUME r.conn = state.session, ~r.late
            PROVE  Of(state'.pending[c], r.conn) /\ ~state'.pending[c].lapsed
        <4>1. Of(state.pending[c], r.conn) /\ (state.pending[c].heard \/ ~state.pending[c].lapsed)
          BY <2>0, <2>3, <3>3, Zenon DEF RequestInv
        <4>2. s.pending[c] = state.pending[c] BY <1>p, <4>1, Zenon
        <4> QED BY <1>4, <1>v, <3>2, <4>1, <4>2, Zenon DEF Of
      <3>4. Past(r.conn)' BY <1>1, <2>0, Zenon DEF RequestInv, Past
      <3>5. \A q \in requests' : q.call = r.call /\ q.attempt = r.attempt => q = r
        BY <1>1, <1>u, <2>0, Zenon
      <3>6. state'.session = state.session BY <1>4, Zenon DEF PendingOnly
      <3> QED BY <1>2, <1>3, <1>o, <2>3, <3>0, <3>1, <3>3, <3>4, <3>5, <3>6 DEF RequestInv
    <2> QED BY <2>1, <2>2, <2>3, Zenon
  <1>8. requests' \subseteq [conn : Connections, call : Calls, attempt : 1..3, late : BOOLEAN]
    BY <1>1, <1>t, Zenon DEF Types
  <1> QED BY <1>1, <1>4, <1>6, <1>7, <1>8, <1>9, <1>s, CommandStep, Zenon

\* PendingLapses
LEMMA PendingLapsesInv ==
    ASSUME CompanionInv, NEW c \in Calls, PendingLapses(c)
    PROVE  CompanionInv'
  <1> DEFINE v == [state.pending[c] EXCEPT !.lapsed = TRUE]
             Aged(r) == [r EXCEPT !.late = @ \/ (r.call = c /\ r.conn = state.pending[c].conn)]
  <1>t. Types /\ ServeInv /\ state \in SessionState /\ DispatchInv(c) /\ PathInv(c)
    BY Zenon DEF CompanionInv, Types
  <1>1. /\ UNCHANGED <<gate, lease, sockets, calls, owned, releases>>
        /\ state.pending[c] # None /\ ~state.pending[c].heard
        /\ state' = [state EXCEPT !.pending[c] = v]
        /\ requests' = {Aged(r) : r \in requests}
    BY <1>t, Zenon DEF PendingLapses, SessionState
  <1>v. v \in PendingCommand /\ v # None /\ v.conn = state.pending[c].conn /\ ~v.heard
    <2>1. state.pending[c] \in PendingCommand BY <1>1, <1>t, StateFields, Zenon
    <2>2. v \in PendingCommand /\ v.conn = state.pending[c].conn /\ ~v.heard
      BY <1>1, <2>1, Zenon DEF PendingCommand
    <2> QED BY <2>2, CompanionAssumption, Zenon
  <1>a. ASSUME NEW r \in requests
        PROVE  /\ Aged(r) \in [conn : Connections, call : Calls, attempt : 1..3, late : BOOLEAN]
               /\ Aged(r).conn = r.conn /\ Aged(r).call = r.call /\ Aged(r).attempt = r.attempt
               /\ ~Aged(r).late => ~r.late /\ ~(r.call = c /\ r.conn = state.pending[c].conn)
    <2>1. r \in [conn : Connections, call : Calls, attempt : 1..3, late : BOOLEAN] BY <1>t, Zenon DEF Types
    <2> QED BY <2>1, Zenon
  <1> HIDE DEF v, Aged
  <1>p. \A d \in Calls : state.pending[d] = None \/ Of(state.pending[d], state.session)
    BY <1>t, Zenon DEF ServeInv, OneConnectionServes
  <1>2. /\ state' \in SessionState
        /\ state'.session = state.session /\ state'.discovery = state.discovery
        /\ state'.grants = state.grants /\ state'.orphaned = state.orphaned
        /\ state'.bindings = state.bindings
        /\ state'.pending[c] = v /\ \A d \in Calls \ {c} : state'.pending[d] = state.pending[d]
    BY <1>1, <1>t, <1>v, PendingSet
  <1>3. PendingOnly
    <2>1. Of(v, state.session) BY <1>1, <1>p, <1>v, Zenon DEF Of
    <2> QED BY <1>2, <1>p, <2>1, Zenon DEF PendingOnly
  <1>s. SocketsMove /\ PastStays BY <1>1, <1>t, SocketsStay, Zenon DEF SocketsMove
  <1>4. ASSUME NEW d \in Calls PROVE DispatchInv(d)'
    <2>1. CASE d # c BY <1>1, <1>2, <1>s, <2>1, PurgedDispatch, Zenon DEF Purged
    <2>2. CASE d = c
      <3>1. calls[c].stage \in {"sending", "awaiting"} => calls[c].conn \in Connections
        BY <1>t, Zenon DEF PathInv
      <3> QED BY <1>1, <1>2, <1>s, <1>t, <1>v, <2>2, <3>1 DEF DispatchInv, PastStays
    <2> QED BY <2>1, <2>2, Zenon
  <1>5. ASSUME NEW z \in requests' PROVE RequestInv(z)'
    <2>1. PICK r \in requests : z = Aged(r) BY <1>1, Zenon
    <2>2. RequestInv(r) /\ r.call \in Calls BY <1>t, Zenon DEF CompanionInv, Types
    <2>3. z.conn = r.conn /\ z.call = r.call /\ z.attempt = r.attempt BY <1>a, <2>1, Zenon
    <2>4. ~z.late => ~r.late /\ ~(r.call = c /\ r.conn = state.pending[c].conn) BY <1>a, <2>1, Zenon
    <2>5. ASSUME NEW q \in requests', q.call = z.call, q.attempt = z.attempt PROVE q = z
      <3>1. PICK y \in requests : q = Aged(y) BY <1>1, Zenon
      <3>2. y.call = r.call /\ y.attempt = r.attempt BY <1>a, <2>3, <2>5, <3>1, Zenon
      <3>3. y = r BY <2>2, <3>2, Zenon DEF RequestInv
      <3> QED BY <2>1, <3>1, <3>3, Zenon
    <2>6. ASSUME z.conn = state.session, ~z.late
          PROVE  /\ Of(state'.pending[z.call], z.conn)
                 /\ state'.pending[z.call].heard \/ ~state'.pending[z.call].lapsed
      <3>1. ~r.late /\ ~(r.call = c /\ r.conn = state.pending[c].conn) BY <2>4, <2>6, Zenon
      <3>2. Of(state.pending[r.call], r.conn)
            /\ (state.pending[r.call].heard \/ ~state.pending[r.call].lapsed)
        BY <2>2, <2>3, <2>6, <3>1, Zenon DEF RequestInv
      <3>3. r.call # c BY <3>1, <3>2, Zenon DEF Of
      <3> QED BY <1>2, <2>2, <2>3, <3>2, <3>3
    <2>7. Past(z.conn)' BY <1>1, <2>2, <2>3, Zenon DEF RequestInv, Past
    <2> QED BY <1>1, <1>2, <2>2, <2>3, <2>5, <2>6, <2>7, Zenon DEF RequestInv
  <1>6. requests' \subseteq [conn : Connections, call : Calls, attempt : 1..3, late : BOOLEAN]
    BY <1>1, <1>a
  <1> QED BY <1>1, <1>3, <1>4, <1>5, <1>6, <1>s, CommandStep, Zenon

\* complete_command: an answer that is expected is the answer to this attempt.
LEMMA CompleteInv ==
    ASSUME CompanionInv, NEW k \in Connections, NEW r \in requests, complete_command(k, r)
    PROVE  CompanionInv'
  <1> DEFINE s == purge_expired_pending(state)
             c == r.call
             S == {d \in {r.call} : s.pending[d].heard}
  <1>1. /\ UNCHANGED <<gate, lease, owned, releases>>
        /\ sockets[k].stage = "serving" /\ r.conn = k /\ requests' = requests \ {r}
    BY Zenon DEF complete_command
  <1>m. \/ /\ Of(s.pending[c], k) /\ state' = [s EXCEPT !.pending[c] = None]
           /\ calls' = Told(S, "answered", r.attempt) /\ UNCHANGED sockets
        \/ /\ ~Of(s.pending[c], k) /\ state' = s
           /\ sockets' = [sockets EXCEPT ![k].stage = "erring"] /\ UNCHANGED calls
    BY Zenon DEF complete_command
  <1>t. /\ Types /\ ServeInv /\ state \in SessionState /\ c \in Calls /\ RequestInv(r)
        /\ r.attempt \in 1..3
    BY Zenon DEF CompanionInv, Types
  <1>p. /\ s \in SessionState
        /\ s.session = state.session /\ s.discovery = state.discovery
        /\ s.grants = state.grants /\ s.orphaned = state.orphaned /\ s.bindings = state.bindings
        /\ \A d \in Calls :
              /\ \/ s.pending[d] = state.pending[d]
                 \/ /\ state.pending[d] # None /\ state.pending[d].lapsed
                    /\ ~state.pending[d].heard /\ s.pending[d] = None
              /\ s.pending[d] = None \/ Of(s.pending[d], state.session)
    BY PurgeOnly, Zenon
  <1> HIDE DEF s
  <1>u. \A y, q \in requests : q.call = y.call /\ q.attempt = y.attempt => q = y
    BY Zenon DEF CompanionInv, RequestInv
  <1>2. requests' \subseteq [conn : Connections, call : Calls, attempt : 1..3, late : BOOLEAN]
    BY <1>1, <1>t, Zenon DEF Types
  <1>3. CASE /\ ~Of(s.pending[c], k) /\ state' = s
             /\ sockets' = [sockets EXCEPT ![k].stage = "erring"] /\ UNCHANGED calls
    <2>1. SocketsMove /\ PastStays BY <1>1, <1>3, <1>t, StageMoves, Zenon DEF SocketsMove
    <2>2. PendingOnly /\ \A d \in Calls : Purged(d) BY <1>3, <1>p, Zenon DEF PendingOnly, Purged
    <2>3. \A d \in Calls : DispatchInv(d)' BY <1>3, <2>1, <2>2, PurgedDispatch, Zenon DEF PendingOnly
    <2>4. ASSUME NEW q \in requests' PROVE RequestInv(q)'
      <3>1. q \in requests /\ q.call \in Calls BY <1>1, <1>t, Zenon DEF Types
      <3> QED BY <1>1, <1>3, <1>u, <2>1, <2>2, <3>1, PurgedRequest, Zenon DEF PendingOnly
    <2> QED BY <1>1, <1>2, <1>3, <2>1, <2>2, <2>3, <2>4, CommandStep, Zenon
  <1>4. CASE /\ Of(s.pending[c], k) /\ state' = [s EXCEPT !.pending[c] = None]
             /\ calls' = Told(S, "answered", r.attempt) /\ UNCHANGED sockets
    <2>1. SocketsMove /\ PastStays BY <1>4, <1>t, SocketsStay, Zenon DEF SocketsMove
    <2>2. /\ state' \in SessionState
          /\ state'.session = s.session /\ state'.discovery = s.discovery
          /\ state'.grants = s.grants /\ state'.orphaned = s.orphaned
          /\ state'.bindings = s.bindings
          /\ state'.pending[c] = None /\ \A d \in Calls \ {c} : state'.pending[d] = s.pending[d]
      BY <1>4, <1>p, <1>t, PendingSet
    <2>3. PendingOnly /\ \A d \in Calls \ {c} : Purged(d) BY <1>p, <2>2 DEF PendingOnly, Purged
    <2>a. r.attempt \in 0..3 BY <1>t
    <2>4. Hear(S, "answered", r.attempt, calls') BY <1>4, <1>t, <2>a, ToldFields, Zenon
    <2>5. /\ Only(c, calls') /\ SameBut(calls'[c], calls[c])
          /\ \/ calls'[c] = calls[c]
             \/ /\ calls'[c].answer # None /\ calls'[c].answer.kind = "answered"
                /\ calls'[c].answer.attempt = r.attempt
      <3>1. \A d \in Calls \ {c} : calls'[d] = calls[d] BY <2>4, Zenon DEF Hear
      <3>2. SameBut(calls'[c], calls[c]) BY <1>t, <2>4, Zenon DEF Hear
      <3>3. c \in S \/ calls'[c] = calls[c] BY <1>t, <2>4, Zenon DEF Hear
      <3> QED BY <1>t, <2>4, <3>1, <3>2, <3>3, Zenon DEF Hear, Only, SameBut
    <2>6. s.pending[c] = state.pending[c] /\ k = state.session BY <1>4, <1>p, <1>t, Zenon DEF Of
    <2>n. calls[c].attempt \in 1..3 /\ DispatchInv(c) /\ PathInv(c)
      BY <1>t, Zenon DEF CompanionInv, Types, CallRecord
    <2>7. /\ r.attempt = calls[c].attempt /\ calls[c].stage \in {"awaiting", "done"}
          /\ calls[c].op = "dispatch"
      BY <1>1, <1>t, <2>6, <2>n DEF RequestInv
    <2>8. CommandMoves(c)
      BY <2>5, <2>7, <2>n, Zenon DEF CommandMoves, SameBut, PathInv, StagesOf
    <2>9. DispatchInv(c)'
      <3>1. (calls[c].stage \in {"sending", "awaiting"} => Past(calls[c].conn))'
        BY <1>4, <2>5, <2>n, Zenon DEF SameBut, DispatchInv, Past
      <3> QED BY <2>2, <2>5, <2>7, <2>n, <3>1, <1>p, ZenonT(30) DEF DispatchInv, SameBut
    <2>10. ASSUME NEW d \in Calls PROVE DispatchInv(d)'
      <3>1. CASE d # c
        <4>1. calls'[d] = calls[d] BY <2>5, <3>1, Zenon DEF Only
        <4> QED BY <2>1, <2>3, <3>1, <4>1, PurgedDispatch, Zenon DEF PendingOnly
      <3> QED BY <2>9, <3>1, Zenon
    <2>11. ASSUME NEW q \in requests' PROVE RequestInv(q)'
      <3>0. q \in requests /\ q.call \in Calls /\ q # r /\ q.attempt \in 1..3 /\ RequestInv(q)
        BY <1>1, <1>t, Zenon DEF Types, CompanionInv
      <3>u. \A y \in requests' : y.call = q.call /\ y.attempt = q.attempt => y = q
        BY <1>1, <1>u, <3>0, Zenon
      <3>1. CASE q.call # c
        <4>1. calls'[q.call] = calls[q.call] BY <2>5, <3>0, <3>1, Zenon DEF Only
        <4> QED BY <2>1, <2>3, <3>0, <3>1, <3>u, <4>1, PurgedRequest, Zenon DEF PendingOnly
      <3>2. CASE q.call = c
        <4>1. q.attempt < calls[q.call].attempt
          BY <1>u, <2>7, <2>n, <3>0, <3>2 DEF RequestInv
        <4>2. calls'[q.call].op = calls[q.call].op /\ calls'[q.call].attempt = calls[q.call].attempt
          BY <2>5, <3>2, Zenon DEF SameBut
        <4> QED BY <2>1, <2>3, <3>0, <3>u, <4>1, <4>2, EarlierKept, Zenon DEF PendingOnly
      <3> QED BY <3>1, <3>2, Zenon
    <2> QED BY <1>1, <1>2, <1>t, <2>1, <2>3, <2>8, <2>10, <2>11, CommandStep, Zenon
  <1> QED BY <1>m, <1>3, <1>4, Zenon

=============================================================================
