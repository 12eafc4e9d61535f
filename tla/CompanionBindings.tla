-------------------------- MODULE CompanionBindings --------------------------
(***************************************************************************)
(* The steps of CompanionSession that grant attachments and bind pages keep    *)
(* the invariant of CompanionCommands.  CompanionProofs has the releases, the  *)
(* registrations and the theorems.                                            *)
(***************************************************************************)
EXTENDS CompanionCommands

-----------------------------------------------------------------------------
(* Steps of the grants and the pages.                                        *)

\* The commands are left alone; the rest is of the connection that serves.
PagesOnly ==
    /\ state' \in SessionState
    /\ state'.session = state.session /\ state'.pending = state.pending
    /\ state'.discovery = state.discovery /\ state'.orphaned = state.orphaned
    /\ \A a \in Attachments : state'.grants[a] = None \/ Of(state'.grants[a], state.session)
    /\ \A c \in Calls : state'.bindings[c] = None \/ Of(state'.bindings[c], state.session)

LEMMA PageStep ==
    ASSUME CompanionInv, Types', PagesOnly, PastStays, UNCHANGED requests,
           \A c \in Calls : NoDispatch(c), GateInv', \A c \in Calls : PathInv(c)', PageSide'
    PROVE  CompanionInv'
  <1>t. Types /\ ServeInv BY Zenon DEF CompanionInv
  <1>1. ServeInv'
    <2>1. /\ state'.discovery = None \/ Of(state'.discovery, state.session)
          /\ \A a \in Attachments :
                /\ state'.grants[a] = None \/ Of(state'.grants[a], state.session)
                /\ state'.orphaned[a] # None => state.orphaned[a] # None
          /\ \A c \in Calls :
                /\ state'.pending[c] = None \/ Of(state'.pending[c], state.session)
                /\ state'.bindings[c] = None \/ Of(state'.bindings[c], state.session)
      BY <1>t DEF PagesOnly, ServeInv, OneConnectionServes
    <2>2. state'.session = state.session BY Zenon DEF PagesOnly
    <2> QED BY <1>t, <2>1, <2>2, ServeKept, Zenon
  <1>2. (\A c \in Calls : DispatchInv(c)') /\ (\A r \in requests' : RequestInv(r)')
    BY DispatchQuiet, Zenon DEF PagesOnly
  <1> QED BY <1>1, <1>2, Assembled, Zenon

LEMMA StateOnly == ASSUME CompanionInv, state' = state PROVE PagesOnly
  BY Zenon DEF CompanionInv, Types, ServeInv, OneConnectionServes, PagesOnly

\* A binding that is still waited for is waited for as before.
BindKept(c) ==
    /\ calls'[c].op = calls[c].op /\ calls'[c].page = calls[c].page
    /\ calls'[c].op = "bind" /\ calls'[c].stage = "begin" => calls'[c].answer = None
    /\ state'.bindings[c] # None =>
          /\ state'.bindings[c] = state.bindings[c]
          /\ calls'[c].stage \in {"ticket", "removing"} /\ calls'[c].att = calls[c].att
          /\ calls'[c].conn = calls[c].conn /\ calls'[c].answer = calls[c].answer

LEMMA SameBindKept ==
    ASSUME CompanionInv, NEW c \in Calls, calls'[c] = calls[c],
           state'.bindings[c] = state.bindings[c] \/ state'.bindings[c] = None
    PROVE  BindKept(c)
  BY Zenon DEF CompanionInv, BindInv, BindKept

\* A release is cleared as before, or of a page that is not bound and not waited for.
ClearedKept(d) ==
    owned'[d].cleared =>
        \/ owned[d].cleared /\ owned'[d].key = owned[d].key
        \/ /\ \A a \in Attachments : \A g \in PagesAt(a)' : owned'[d].key # <<a, g.page>>
           /\ \A c \in Calls : state'.bindings[c] # None =>
                 owned'[d].key # <<state'.bindings[c].att, state'.bindings[c].page>>

\* Nothing new is bound, and what is bound is there for a call as before.
LEMMA PagesShrink ==
    ASSUME CompanionInv, \A c \in Calls : BindKept(c), \A d \in Calls : ClearedKept(d),
           \A a \in Attachments : PagesAt(a)' \subseteq PagesAt(a),
           \A a \in Attachments : \A g \in PagesAt(a)' : \A c \in Binders(g.page) :
              Answerable(c) => Answerable(c)',
           \A c \in Calls : RenewInv(c)', \A k \in Connections : PublishInv(k)'
    PROVE  PageSide'
  <1>1. \A p : Binders(p)' = Binders(p) BY Zenon DEF Binders, BindKept
  <1>2. PagesInv'
    <2>1. /\ \A a, b \in Attachments : \A g \in PagesAt(a)', h \in PagesAt(b)' :
               g.target = h.target \/ g.page = h.page => a = b /\ g = h
      BY Zenon DEF CompanionInv, PagesInv
    <2>2. ASSUME NEW a \in Attachments, NEW g \in PagesAt(a)', Binders(g.page)' # {}
          PROVE  \E c \in Binders(g.page)' : Answerable(c)'
      <3>1. g \in PagesAt(a) /\ Binders(g.page) # {} BY <1>1, <2>2, Zenon
      <3>2. PICK c \in Binders(g.page) : Answerable(c) BY <3>1, Zenon DEF CompanionInv, PagesInv
      <3>3. Answerable(c)' BY <2>2, <3>2, Zenon
      <3> QED BY <1>1, <3>2, <3>3, Zenon
    <2>3. ASSUME NEW d \in Calls, owned'[d].cleared, NEW a \in Attachments, NEW g \in PagesAt(a)'
          PROVE  owned'[d].key # <<a, g.page>>
      <3>1. CASE owned[d].cleared /\ owned'[d].key = owned[d].key
        BY <2>3, <3>1, Zenon DEF CompanionInv, PagesInv
      <3> QED BY <2>3, <3>1, Zenon DEF ClearedKept
    <2> QED BY <2>1, <2>2, <2>3, Zenon DEF PagesInv
  <1>3. ASSUME NEW c \in Calls PROVE BindInv(c)'
    <2>1. BindInv(c) BY Zenon DEF CompanionInv
    <2>2. calls'[c].op = "bind" /\ calls'[c].stage = "begin" => calls'[c].answer = None
      BY Zenon DEF BindKept
    <2>3. SUFFICES ASSUME state'.bindings[c] # None PROVE BindInv(c)' BY <2>2, Zenon DEF BindInv
    <2>4. /\ state'.bindings[c] = state.bindings[c]
          /\ calls'[c].stage \in {"ticket", "removing"} /\ calls'[c].att = calls[c].att
          /\ calls'[c].conn = calls[c].conn /\ calls'[c].answer = calls[c].answer
          /\ calls'[c].op = calls[c].op /\ calls'[c].page = calls[c].page
      BY <2>3, Zenon DEF BindKept
    <2>5. /\ calls'[c].op = "bind" /\ calls'[c].answer = None
          /\ state'.bindings[c].att = calls'[c].att /\ state'.bindings[c].page = calls'[c].page
          /\ state'.bindings[c].conn = calls'[c].conn
      BY <2>1, <2>3, <2>4, Zenon DEF BindInv
    <2>6. \A a \in Attachments : ~HasPage(PagesAt(a)', state'.bindings[c].page)
      BY <2>1, <2>3, <2>4, Zenon DEF BindInv, HasPage
    <2>7. ASSUME NEW d \in Calls \ {c}, state'.bindings[d] # None
          PROVE  state'.bindings[d].page # state'.bindings[c].page
      <3>1. state'.bindings[d] = state.bindings[d] BY <2>7, Zenon DEF BindKept
      <3> QED BY <2>1, <2>3, <2>4, <2>7, <3>1, Zenon DEF BindInv
    <2>8. ASSUME NEW d \in Calls, owned'[d].cleared
          PROVE  owned'[d].key # <<state'.bindings[c].att, state'.bindings[c].page>>
      <3>1. CASE owned[d].cleared /\ owned'[d].key = owned[d].key
        BY <2>1, <2>3, <2>4, <2>8, <3>1, Zenon DEF BindInv
      <3> QED BY <2>3, <2>8, <3>1, Zenon DEF ClearedKept
    <2> QED BY <2>3, <2>4, <2>5, <2>6, <2>7, <2>8, Zenon DEF BindInv, HasPage
  <1> QED BY <1>2, <1>3, Zenon DEF PageSide

\* Nobody is about to send a grant while grant_updates is free.
LEMMA NobodySends ==
    ASSUME GateInv, gate = None
    PROVE  /\ \A k \in Connections : sockets[k].stage # "publishing"
           /\ \A c \in Calls : ~Sends(c)
  BY CompanionAssumption, Zenon DEF GateInv, Sends

\* ... and only its holder is while it is held.
LEMMA HolderSends ==
    ASSUME GateInv
    PROVE  /\ \A k \in Connections : gate = k =>
                 /\ \A j \in Connections \ {k} : sockets[j].stage # "publishing"
                 /\ \A c \in Calls : ~Sends(c)
           /\ \A c \in Calls : gate = c =>
                 /\ \A k \in Connections : sockets[k].stage # "publishing"
                 /\ \A d \in Calls \ {c} : ~Sends(d)
  BY CompanionAssumption, Zenon DEF GateInv, Sends

\* A call c takes grant_updates that was free, and is the one to send.
LEMMA GateTaken ==
    ASSUME GateInv, gate = None, NEW c \in Calls, gate' = c, Sends(c)',
           \A k \in Connections : sockets'[k].stage = "publishing" <=> sockets[k].stage = "publishing",
           \A d \in Calls \ {c} : Sends(d)' => Sends(d)
    PROVE  GateInv'
  <1>1. /\ \A k \in Connections : sockets'[k].stage # "publishing"
        /\ \A d \in Calls \ {c} : ~Sends(d)'
    BY NobodySends, Zenon
  <1> QED BY <1>1, CompanionAssumption, Zenon DEF GateInv, Sends

\* It is free again when its holder does not send any more.
LEMMA GateFreed ==
    ASSUME gate' = None, \A k \in Connections : sockets'[k].stage # "publishing",
           \A c \in Calls : ~Sends(c)'
    PROVE  GateInv'
  BY CompanionAssumption, Zenon DEF GateInv, Sends

LEMMA NoRelease1 ==
    ASSUME CompanionInv, NEW c \in Calls, calls[c].op # "release"
    PROVE  owned[c].stage = "none"
  BY Zenon DEF CompanionInv, PathInv

\* GrantExpires
LEMMA GrantExpiresInv ==
    ASSUME CompanionInv, NEW a \in Attachments, GrantExpires(a)
    PROVE  CompanionInv'
  <1>1. UNCHANGED <<gate, lease, sockets, requests, calls, owned, releases>> BY Zenon DEF GrantExpires
  <1>t. Types /\ ServeInv /\ GateInv /\ state \in SessionState BY Zenon DEF CompanionInv, Types
  <1>2. /\ state' \in SessionState
        /\ state'.session = state.session /\ state'.pending = state.pending
        /\ state'.discovery = state.discovery /\ state'.bindings = state.bindings
        /\ \A b \in Attachments : /\ SameGrant(state'.grants[b], state.grants[b])
                                  /\ SameGrant(state'.orphaned[b], state.orphaned[b])
    <2>1. CASE state.grants[a] # None /\ state' = [state EXCEPT !.grants[a].live = FALSE]
      <3> DEFINE v == [state.grants[a] EXCEPT !.live = FALSE]
      <3>1. state.grants[a] \in GrantRecord BY <1>t, <2>1, StateFields, Zenon
      <3>2. v \in GrantRecord /\ v.conn = state.grants[a].conn /\ v.pages = state.grants[a].pages
        BY <3>1, Zenon DEF GrantRecord
      <3>3. state' = [state EXCEPT !.grants[a] = v] BY <1>t, <2>1, Zenon DEF SessionState
      <3>4. v # None BY <3>2, CompanionAssumption, Zenon
      <3> HIDE DEF v
      <3>5. /\ state' \in SessionState
            /\ state'.session = state.session /\ state'.pending = state.pending
            /\ state'.discovery = state.discovery /\ state'.bindings = state.bindings
            /\ state'.orphaned = state.orphaned
            /\ state'.grants[a] = v /\ \A b \in Attachments \ {a} : state'.grants[b] = state.grants[b]
        BY <1>t, <3>2, <3>3, GrantSet
      <3> QED BY <2>1, <3>2, <3>4, <3>5, Zenon DEF SameGrant
    <2>2. CASE state.orphaned[a] # None /\ state' = [state EXCEPT !.orphaned[a].live = FALSE]
      <3> DEFINE v == [state.orphaned[a] EXCEPT !.live = FALSE]
      <3>1. state.orphaned[a] \in GrantRecord BY <1>t, <2>2, StateFields, Zenon
      <3>2. v \in GrantRecord /\ v.conn = state.orphaned[a].conn /\ v.pages = state.orphaned[a].pages
        BY <3>1, Zenon DEF GrantRecord
      <3>3. state' = [state EXCEPT !.orphaned[a] = v] BY <1>t, <2>2, Zenon DEF SessionState
      <3>4. v # None BY <3>2, CompanionAssumption, Zenon
      <3> HIDE DEF v
      <3>5. /\ state' \in SessionState
            /\ state'.session = state.session /\ state'.pending = state.pending
            /\ state'.discovery = state.discovery /\ state'.bindings = state.bindings
            /\ state'.grants = state.grants
            /\ state'.orphaned[a] = v /\ \A b \in Attachments \ {a} : state'.orphaned[b] = state.orphaned[b]
        BY <1>t, <3>2, <3>3, Zenon DEF SessionState
      <3> QED BY <2>2, <3>2, <3>4, <3>5, Zenon DEF SameGrant
    <2> QED BY <2>1, <2>2, Zenon DEF GrantExpires
  <1>3. Types' BY <1>1, <1>2, <1>t, Zenon DEF Types
  <1>4. PastStays /\ \A k \in Connections : SameSending(k) BY <1>1, Zenon DEF PastStays, Past, SameSending
  <1>5. ServeInv'
    <2>1. /\ state'.discovery = None \/ Of(state'.discovery, state.session)
          /\ \A b \in Attachments :
                /\ state'.grants[b] = None \/ Of(state'.grants[b], state.session)
                /\ state'.orphaned[b] # None => state.orphaned[b] # None
          /\ \A c \in Calls :
                /\ state'.pending[c] = None \/ Of(state'.pending[c], state.session)
                /\ state'.bindings[c] = None \/ Of(state'.bindings[c], state.session)
      BY <1>2, <1>t DEF ServeInv, OneConnectionServes, SameGrant, Of
    <2> QED BY <1>2, <1>3, <1>4, <1>t, <2>1, ServeKept, Zenon
  <1>6. GateInv' BY <1>1, <1>t, Zenon DEF GateInv
  <1>7. ASSUME NEW c \in Calls PROVE PathInv(c)' /\ NoDispatch(c) /\ NoBinding(c) /\ NotCleared(c)
    <2>1. PathInv(c) BY Zenon DEF CompanionInv
    <2> QED BY <1>1, <2>1, SameCallQuiet, Zenon DEF PathInv, NotCleared
  <1>8. (\A c \in Calls : DispatchInv(c)') /\ (\A r \in requests' : RequestInv(r)')
    BY <1>1, <1>2, <1>4, <1>7, DispatchQuiet, Zenon
  <1>9. PageSide' BY <1>2, <1>4, <1>7, PagesQuiet, Zenon
  <1> QED BY <1>3, <1>5, <1>6, <1>7, <1>8, <1>9, Assembled, Zenon

\* A call ends before it has taken grant_updates.
LEMMA GrantingEnds ==
    ASSUME CompanionInv, NEW c \in Calls, calls[c].stage \in {"granting", "renewing"},
           calls' = Ended(c), UNCHANGED <<state, gate, lease, sockets, requests, owned, releases>>
    PROVE  CompanionInv'
  <1>t. Types /\ ServeInv BY Zenon DEF CompanionInv
  <1>2. SameState BY <1>t, StateStays, Zenon
  <1>3. Only(c, calls') /\ Keeps(c, calls') /\ calls'[c].stage = "done" BY <1>t, EndedFields, Zenon
  <1>4. CASE calls[c].op = "dispatch"
    <2>1. ~(state.pending[c] # None /\ state.pending[c].heard) BY IdleUnheard, Zenon
    <2> QED BY <1>2, <1>3, <1>4, <2>1, QuietCommand, Zenon
  <1>5. CASE calls[c].op # "dispatch"
    <2>1. calls[c].op \in {"grant", "renew"} BY <1>5, StageOp, Zenon
    <2>2. calls'[c].stage \in StagesOf(calls[c].op) BY <1>3, <2>1, Zenon DEF StagesOf
    <2> QED BY <1>2, <1>3, <2>1, <2>2, OtherCall, Zenon DEF Keeps
  <1> QED BY <1>4, <1>5, Zenon

\* GateTimesOut
LEMMA GateTimesOutInv ==
    ASSUME CompanionInv, NEW c \in Calls, GateTimesOut(c)
    PROVE  CompanionInv'
  BY GrantingEnds, Zenon DEF GateTimesOut

\* grant_attachment
LEMMA GrantAttachmentInv ==
    ASSUME CompanionInv, NEW c \in Calls, grant_attachment(c)
    PROVE  CompanionInv'
  <1>1. UNCHANGED <<state, sockets, requests, owned, releases>> /\ calls[c].stage = "granting"
        /\ gate = None
    BY Zenon DEF grant_attachment
  <1>2. CASE calls' = Ended(c) /\ UNCHANGED <<gate, lease>> BY <1>1, <1>2, GrantingEnds, Zenon
  <1>3. CASE /\ state.session # None /\ gate' = c
             /\ \E a \in Attachments :
                   /\ lease[a] = "none"
                   /\ lease' = [lease EXCEPT ![a] = "live"]
                   /\ calls' = [calls EXCEPT ![c].stage = "grantSending", ![c].att = a,
                                             ![c].conn = state.session]
    <2>1. PICK a \in Attachments :
             /\ lease' = [lease EXCEPT ![a] = "live"]
             /\ calls' = [calls EXCEPT ![c].stage = "grantSending", ![c].att = a,
                                       ![c].conn = state.session]
      BY <1>3, Zenon
    <2>t. /\ Types /\ ServeInv /\ GateInv /\ calls[c] \in CallRecord /\ state \in SessionState
          /\ DispatchInv(c) /\ PathInv(c)
      BY Zenon DEF CompanionInv, Types
    <2>k. state.session \in Connections BY <1>3, <2>t, StateFields, Zenon
    <2>2. calls[c].op \in {"dispatch", "grant"} BY <1>1, StageOp, Zenon
    <2> DEFINE r == [calls[c] EXCEPT !.stage = "grantSending", !.att = a, !.conn = state.session]
    <2>3. calls' = [calls EXCEPT ![c] = r] BY <2>1, <2>t, Zenon DEF Types
    <2>4. /\ r \in CallRecord /\ r.op = calls[c].op /\ r.page = calls[c].page
          /\ r.stage = "grantSending" /\ r.att = a /\ r.attempt = calls[c].attempt
          /\ r.answer = calls[c].answer /\ r.conn = state.session
      BY <2>k, <2>t, Zenon DEF CallRecord
    <2> HIDE DEF r
    <2>5. Only(c, calls') /\ calls'[c] = r BY <2>t, <2>3, <2>4, OneCall, Zenon
    <2>6. SameState BY <1>1, <2>t, StateStays, Zenon
    <2>7. PathInv(c)'
      <3>1. calls'[c].stage \in StagesOf(calls'[c].op) BY <2>2, <2>4, <2>5, Zenon DEF StagesOf
      <3>2. owned[c].stage = "none" BY <2>2, NoRelease1, Zenon
      <3> QED BY <1>1, <2>4, <2>5, <2>k, <2>t, <3>1, <3>2, Zenon DEF PathInv
    <2>8. DispatchInv(c)'
      <3>1. CASE calls[c].op = "dispatch"
        BY <1>1, <2>4, <2>5, <2>t, <3>1, Zenon DEF DispatchInv
      <3>2. CASE calls[c].op # "dispatch"
        BY <1>1, <2>4, <2>5, <2>t, <3>2, Zenon DEF DispatchInv
      <3> QED BY <3>1, <3>2, Zenon
    <2>9. ASSUME NEW q \in requests, q.call = c PROVE RequestInv(q)'
      <3>1. q.attempt < calls[q.call].attempt BY <1>1, <2>9, EarlierRequest, Zenon
      <3>2. \A y \in requests' : y.call = q.call /\ y.attempt = q.attempt => y = q
        BY <1>1, Zenon DEF CompanionInv, RequestInv
      <3>3. PastStays BY <1>1, Zenon DEF PastStays, Past
      <3> QED BY <1>1, <2>4, <2>5, <2>9, <3>1, <3>2, <3>3, EarlierKept, Zenon
    <2>10. NoBinding(c) BY <2>2, <2>4, <2>5, Zenon DEF NoBinding
    <2>11. GateInv'
      <3>1. Sends(c)' BY <2>4, <2>5, Zenon DEF Sends
      <3>2. \A d \in Calls \ {c} : Sends(d)' => Sends(d)
        BY <1>1, <2>5, Zenon DEF Sends, Only
      <3> QED BY <1>1, <1>3, <2>t, <3>1, <3>2, GateTaken, Zenon
    <2>12. /\ lease' \in [Attachments -> {"none", "live", "expired"}]
           /\ gate' \in Connections \cup Calls \cup {None}
      BY <1>3, <2>1, <2>t, Zenon DEF Types
    <2> QED BY <1>1, <2>5, <2>6, <2>7, <2>8, <2>9, <2>10, <2>11, <2>12, CallAlone, Zenon
  <1> QED BY <1>2, <1>3, Zenon DEF grant_attachment

\* The holder c of grant_updates, no release, goes on without it.
LEMMA SenderEnds ==
    ASSUME CompanionInv, NEW c \in Calls, calls[c].stage \in {"grantSending", "renewSending"},
           gate' = None, Only(c, calls'), calls'[c].stage \notin {"grantSending", "renewSending"},
           UNCHANGED <<sockets, owned>>
    PROVE  /\ GateInv' /\ calls[c].op # "release" /\ owned[c].stage = "none"
           /\ \A k \in Connections : sockets[k].stage # "publishing"
           /\ \A d \in Calls : calls'[d].stage # "renewSending"
  <1>t. GateInv BY Zenon DEF CompanionInv
  <1>1. gate = c BY <1>t, Zenon DEF GateInv
  <1>2. calls[c].op # "release" BY StageOp, Zenon
  <1>3. owned[c].stage = "none" BY <1>2, NoRelease1, Zenon
  <1>4. /\ \A k \in Connections : sockets[k].stage # "publishing"
        /\ \A d \in Calls \ {c} : ~Sends(d)
    BY <1>1, <1>t, HolderSends, Zenon
  <1>5. \A d \in Calls : ~Sends(d)' BY <1>3, <1>4, Zenon DEF Sends, Only
  <1>6. GateInv' BY <1>4, <1>5, GateFreed, Zenon
  <1> QED BY <1>2, <1>3, <1>4, <1>5, <1>6, Zenon DEF Sends

\* PublishGrant: the new grant has no pages.
LEMMA PublishGrantInv ==
    ASSUME CompanionInv, NEW c \in Calls, PublishGrant(c)
    PROVE  CompanionInv'
  <1> DEFINE k == calls[c].conn
             x == [calls[c] EXCEPT !.stage = "resolve", !.attempt = 3]
  <1>1. /\ UNCHANGED <<lease, sockets, requests, owned, releases>> /\ gate' = None
        /\ calls[c].stage = "grantSending"
        /\ state' = state \/ (state.session = k /\ state' = Granted(calls[c].att, k))
        /\ \/ calls' = Ended(c)
           \/ calls[c].op = "dispatch" /\ calls' = [calls EXCEPT ![c].stage = "resolve", ![c].attempt = 3]
    BY Zenon DEF PublishGrant
  <1>t. /\ Types /\ ServeInv /\ GateInv /\ calls[c] \in CallRecord /\ state \in SessionState
        /\ DispatchInv(c) /\ PathInv(c)
    BY Zenon DEF CompanionInv, Types
  <1>k. k \in Connections /\ calls[c].att \in Attachments BY <1>1, <1>t, Zenon DEF PathInv
  <1>2. calls[c].op \in {"dispatch", "grant"} BY <1>1, StageOp, Zenon
  <1>3. /\ Only(c, calls') /\ calls'[c].att = calls[c].att /\ calls'[c].answer = calls[c].answer
        /\ \/ calls'[c].stage = "done" /\ calls'[c].attempt = calls[c].attempt
           \/ calls[c].op = "dispatch" /\ calls'[c].stage = "resolve" /\ calls'[c].attempt = 3
    <2>1. CASE calls' = Ended(c) BY <1>t, <2>1, EndedFields, Zenon DEF Keeps
    <2>2. CASE /\ calls[c].op = "dispatch"
               /\ calls' = [calls EXCEPT ![c].stage = "resolve", ![c].attempt = 3]
      <3>1. calls' = [calls EXCEPT ![c] = x] BY <1>t, <2>2, Zenon DEF Types
      <3>a. 3 \in 1..3 OBVIOUS
      <3>2. /\ x \in CallRecord /\ x.op = calls[c].op /\ x.page = calls[c].page
            /\ x.stage = "resolve" /\ x.att = calls[c].att /\ x.attempt = 3
            /\ x.answer = calls[c].answer
        BY <1>t, <3>a, Zenon DEF CallRecord
      <3> HIDE DEF x
      <3>3. Only(c, calls') /\ calls'[c] = x BY <1>t, <3>1, <3>2, OneCall, Zenon
      <3> QED BY <2>2, <3>2, <3>3, Zenon
    <2> QED BY <1>1, <2>1, <2>2, Zenon
  <1>g. /\ GateInv' /\ calls[c].op # "release" /\ owned[c].stage = "none"
        /\ \A j \in Connections : sockets[j].stage # "publishing"
        /\ \A d \in Calls : calls'[d].stage # "renewSending"
    BY <1>1, <1>3, SenderEnds, Zenon
  <1>4. /\ state' \in SessionState
        /\ state'.session = state.session /\ state'.pending = state.pending
        /\ state'.discovery = state.discovery /\ state'.orphaned = state.orphaned
        /\ state'.bindings = state.bindings
        /\ \A a \in Attachments : /\ state'.grants[a] = None \/ Of(state'.grants[a], state.session)
                                  /\ PagesOf(state'.grants[a]) \subseteq PagesOf(state.grants[a])
    <2>0. \A a \in Attachments : state.grants[a] = None \/ Of(state.grants[a], state.session)
      BY <1>t, Zenon DEF ServeInv, OneConnectionServes
    <2>1. CASE state' = state BY <1>t, <2>0, <2>1, Zenon
    <2>2. CASE state.session = k /\ state' = Granted(calls[c].att, k)
      <3> DEFINE n == [conn |-> k, pages |-> {}, live |-> TRUE]
                 gra == [b \in Attachments |->
                           IF b = calls[c].att THEN n
                           ELSE IF Of(state.grants[b], k) /\ ~state.grants[b].live THEN None
                           ELSE state.grants[b]]
      <3>1. n \in GrantRecord /\ n.pages = {} /\ n.conn = k BY <1>k, Zenon DEF GrantRecord
      <3>2. n # None BY <3>1, CompanionAssumption, Zenon
      <3>3. gra \in [Attachments -> GrantRecord \cup {None}] BY <1>t, <3>1, StateFields, Zenon
      <3>4. state' = [state EXCEPT !.grants = gra] BY <2>2, Zenon DEF Granted
      <3>5. ASSUME NEW a \in Attachments
            PROVE  gra[a] \in {n, None, state.grants[a]}
        BY Zenon
      <3> HIDE DEF gra, n
      <3>6. /\ state' \in SessionState
            /\ state'.session = state.session /\ state'.pending = state.pending
            /\ state'.discovery = state.discovery /\ state'.orphaned = state.orphaned
            /\ state'.bindings = state.bindings /\ state'.grants = gra
        BY <1>t, <3>3, <3>4, Zenon DEF SessionState
      <3>7. ASSUME NEW a \in Attachments
            PROVE  /\ state'.grants[a] = None \/ Of(state'.grants[a], state.session)
                   /\ PagesOf(state'.grants[a]) \subseteq PagesOf(state.grants[a])
        BY <2>0, <2>2, <3>1, <3>2, <3>5, <3>6, Zenon DEF Of, PagesOf
      <3> QED BY <3>6, <3>7, Zenon
    <2> QED BY <1>1, <2>1, <2>2, Zenon
  <1>5. Types' BY <1>1, <1>3, <1>4, <1>t, Zenon DEF Types, Only, CallsType
  <1>p. PastStays BY <1>1, Zenon DEF PastStays, Past
  <1>6. ServeInv'
    <2>1. /\ state'.discovery = None \/ Of(state'.discovery, state.session)
          /\ \A a \in Attachments :
                /\ state'.grants[a] = None \/ Of(state'.grants[a], state.session)
                /\ state'.orphaned[a] # None => state.orphaned[a] # None
          /\ \A d \in Calls :
                /\ state'.pending[d] = None \/ Of(state'.pending[d], state.session)
                /\ state'.bindings[d] = None \/ Of(state'.bindings[d], state.session)
      BY <1>4, <1>t DEF ServeInv, OneConnectionServes
    <2> QED BY <1>4, <1>5, <1>p, <1>t, <2>1, ServeKept, Zenon
  <1>7. ASSUME NEW d \in Calls PROVE PathInv(d)' /\ DispatchInv(d)' /\ BindKept(d)
    <2>1. CASE d # c
      <3>1. calls'[d] = calls[d] /\ PathInv(d) BY <1>3, <2>1, Zenon DEF Only, CompanionInv
      <3>2. BindKept(d) BY <1>4, <3>1, SameBindKept, Zenon
      <3>3. DispatchInv(d)' BY <1>4, <1>p, <3>1, PurgedDispatch, Zenon DEF Purged
      <3>4. PathInv(d)' BY <1>1, <3>1, Zenon DEF PathInv
      <3> QED BY <3>2, <3>3, <3>4, Zenon
    <2>2. CASE d = c
      <3>0. calls'[c].op = calls[c].op /\ calls'[c].page = calls[c].page BY <1>3, Zenon DEF Only
      <3>1. PathInv(c)' BY <1>1, <1>2, <1>3, <1>g, <1>t, <3>0, Zenon DEF PathInv, StagesOf
      <3>2. state.bindings[c] = None BY <1>2, Zenon DEF CompanionInv, BindInv
      <3>3. BindKept(c) BY <1>2, <1>4, <3>0, <3>2, Zenon DEF BindKept
      <3>4. DispatchInv(c)'
        <4>1. ~(state.pending[c] # None /\ state.pending[c].heard) BY <1>1, IdleUnheard, Zenon
        <4>2. calls[c].op = "dispatch" => calls[c].answer = None BY <1>1, <1>t, Zenon DEF DispatchInv
        <4> QED BY <1>1, <1>3, <1>4, <1>t, <3>0, <4>1, <4>2, Zenon DEF DispatchInv
      <3> QED BY <2>2, <3>1, <3>3, <3>4, Zenon
    <2> QED BY <2>1, <2>2, Zenon
  <1>8. ASSUME NEW r \in requests' PROVE RequestInv(r)'
    <2>0. r \in requests /\ r.call \in Calls /\ RequestInv(r) /\ r.attempt \in 1..3
      BY <1>1, <1>t, Zenon DEF Types, CompanionInv
    <2>u. \A q \in requests' : q.call = r.call /\ q.attempt = r.attempt => q = r
      BY <1>1, <2>0, Zenon DEF RequestInv
    <2>1. CASE r.call # c
      <3>1. calls'[r.call] = calls[r.call] BY <1>3, <2>0, <2>1, Zenon DEF Only
      <3> QED BY <1>4, <1>p, <2>0, <2>u, <3>1, PurgedRequest, Zenon DEF Purged
    <2>2. CASE r.call = c
      <3>1. r.attempt < calls[c].attempt /\ r.conn # state.session
        BY <1>1, <2>0, <2>2, EarlierRequest, Zenon
      <3>2. calls'[c].op = calls[c].op /\ calls[c].op = "dispatch" BY <1>3, <2>0, <2>2, Zenon DEF Only, RequestInv
      <3>3. calls[c].attempt \in 1..3 BY <1>t, Zenon DEF CallRecord
      <3>4. r.attempt < calls'[c].attempt BY <1>3, <2>0, <3>1, <3>3
      <3>5. Past(r.conn)' BY <1>1, <2>0, Zenon DEF RequestInv, Past
      <3>6. calls'[c].attempt \in 1..3 BY <1>3, <3>3
      <3> QED BY <1>4, <2>0, <2>2, <2>u, <3>1, <3>2, <3>4, <3>5, <3>6 DEF RequestInv
    <2> QED BY <2>1, <2>2, Zenon
  <1>9. PageSide'
    <2>1. \A a \in Attachments : PagesAt(a)' \subseteq PagesAt(a) BY <1>4, Zenon DEF PagesAt
    <2>2. \A d \in Calls : ClearedKept(d) BY <1>1, Zenon DEF ClearedKept
    <2>3. ASSUME NEW d \in Calls, Answerable(d) PROVE Answerable(d)'
      BY <1>1, <1>3, <1>g, <2>3 DEF Answerable, Only
    <2>4. \A d \in Calls : RenewInv(d)' BY <1>g, Zenon DEF RenewInv
    <2>5. \A j \in Connections : PublishInv(j)' BY <1>1, <1>g, Zenon DEF PublishInv
    <2>6. \A p : Binders(p) \subseteq Calls BY Zenon DEF Binders
    <2> QED BY <1>7, <2>1, <2>2, <2>3, <2>4, <2>5, <2>6, PagesShrink, Zenon
  <1> QED BY <1>5, <1>6, <1>7, <1>8, <1>9, <1>g, Assembled, Zenon

\* While nothing of it changes, a report's publication goes on as it was.
LEMMA PublishKept ==
    ASSUME CompanionInv, NEW k \in Connections, SameSending(k),
           LET b == sockets[k].binding
           IN  sockets[k].stage = "publishing" =>
                 /\ SameGrant(state'.grants[b.att], state.grants[b.att])
                 /\ calls'[b.call].op = calls[b.call].op /\ calls'[b.call].page = calls[b.call].page
                 /\ calls'[b.call].stage # "begin" /\ calls'[b.call].answer = calls[b.call].answer
                 /\ state'.bindings[b.call] = None
    PROVE  PublishInv(k)'
  <1>1. PublishInv(k) BY Zenon DEF CompanionInv
  <1>2. SUFFICES ASSUME sockets'[k].stage = "publishing" PROVE PublishInv(k)' BY Zenon DEF PublishInv
  <1>3. sockets[k].stage = "publishing" /\ sockets'[k].binding = sockets[k].binding
    BY <1>2, Zenon DEF SameSending
  <1> DEFINE b == sockets[k].binding
  <1>4. /\ SameGrant(state'.grants[b.att], state.grants[b.att])
        /\ calls'[b.call].op = calls[b.call].op /\ calls'[b.call].page = calls[b.call].page
        /\ calls'[b.call].stage # "begin" /\ calls'[b.call].answer = calls[b.call].answer
        /\ state'.bindings[b.call] = None
    BY <1>3, Zenon
  <1>5. Of(state'.grants[b.att], k) /\ state'.grants[b.att].pages = b.after
    BY <1>1, <1>3, <1>4, Zenon DEF PublishInv, SameGrant, Of
  <1>6. /\ b # None /\ b.before \subseteq b.after
        /\ \A g \in b.before : g.page # calls'[b.call].page
        /\ \A g \in b.after \ b.before : g.page = calls'[b.call].page
        /\ HasPage(b.after, calls'[b.call].page)
    BY <1>1, <1>3, <1>4, Zenon DEF PublishInv
  <1>7. calls'[b.call].op = "bind" /\ calls'[b.call].answer = None BY <1>1, <1>3, <1>4, Zenon DEF PublishInv
  <1> QED BY <1>3, <1>4, <1>5, <1>6, <1>7, Zenon DEF PublishInv, HasPage

\* The call a report is published for.
LEMMA PublishedCall ==
    ASSUME CompanionInv, NEW k \in Connections, sockets[k].stage = "publishing"
    PROVE  LET b == sockets[k].binding
           IN  /\ b.call \in Calls /\ b.att \in Attachments
               /\ calls[b.call].op = "bind" /\ calls[b.call].stage # "begin"
               /\ calls[b.call].answer = None /\ state.bindings[b.call] = None
  <1>1. PublishInv(k) /\ sockets[k] \in SocketRecord BY Zenon DEF CompanionInv, Types
  <1>2. sockets[k].binding # None BY <1>1, Zenon DEF PublishInv
  <1> QED BY <1>1, <1>2, Zenon DEF PublishInv, SocketRecord, Publication

\* A call moves that neither is waited for as a binding nor starts one, and no grant does.
LEMMA CallPages ==
    ASSUME CompanionInv, NEW c \in Calls, Only(c, calls'), UNCHANGED <<sockets, owned>>,
           state'.grants = state.grants, state'.orphaned = state.orphaned,
           \A d \in Calls : state'.bindings[d] = state.bindings[d] \/ state'.bindings[d] = None,
           BindKept(c), calls'[c].answer = calls[c].answer, calls'[c].stage # "begin", RenewInv(c)'
    PROVE  PageSide'
  <1>1. \A d \in Calls \ {c} : calls'[d] = calls[d] BY Zenon DEF Only
  <1>2. \A d \in Calls : BindKept(d) BY <1>1, SameBindKept, Zenon
  <1>3. \A d \in Calls : ClearedKept(d) BY Zenon DEF ClearedKept
  <1>4. \A a \in Attachments : PagesAt(a)' \subseteq PagesAt(a) BY Zenon DEF PagesAt
  <1>5. \A d \in Calls : Answerable(d) => Answerable(d)' BY <1>1, Zenon DEF Answerable
  <1>6. \A p : Binders(p) \subseteq Calls BY Zenon DEF Binders
  <1>7. ASSUME NEW d \in Calls PROVE RenewInv(d)'
    <2>1. CASE d # c
      <3>1. calls'[d] = calls[d] /\ RenewInv(d) BY <1>1, <2>1, Zenon DEF CompanionInv
      <3> QED BY <3>1, Zenon DEF RenewInv
    <2> QED BY <2>1, Zenon
  <1>8. ASSUME NEW k \in Connections PROVE PublishInv(k)'
    <2>1. SameSending(k) BY Zenon DEF SameSending
    <2>2. ASSUME sockets[k].stage = "publishing"
          PROVE  LET b == sockets[k].binding
                 IN  /\ SameGrant(state'.grants[b.att], state.grants[b.att])
                     /\ calls'[b.call].op = calls[b.call].op /\ calls'[b.call].page = calls[b.call].page
                     /\ calls'[b.call].stage # "begin" /\ calls'[b.call].answer = calls[b.call].answer
                     /\ state'.bindings[b.call] = None
      <3> DEFINE b == sockets[k].binding
      <3>1. /\ b.call \in Calls /\ calls[b.call].stage # "begin" /\ state.bindings[b.call] = None
        BY <2>2, PublishedCall, Zenon
      <3>2. CASE b.call = c BY <3>1, <3>2, Zenon DEF SameGrant, Only
      <3>3. CASE b.call # c
        <4>1. calls'[b.call] = calls[b.call] BY <1>1, <3>1, <3>3, Zenon
        <4> QED BY <3>1, <4>1, Zenon DEF SameGrant
      <3> QED BY <3>2, <3>3, Zenon
    <2> QED BY <2>1, <2>2, PublishKept, Zenon
  <1> QED BY <1>2, <1>3, <1>4, <1>5, <1>6, <1>7, <1>8, PagesShrink, Zenon

\* renew_grant
LEMMA RenewGrantInv ==
    ASSUME CompanionInv, NEW c \in Calls, renew_grant(c)
    PROVE  CompanionInv'
  <1> DEFINE grant == state.grants[calls[c].att]
             r == [calls[c] EXCEPT !.stage = "renewSending", !.conn = grant.conn, !.pages = grant.pages]
  <1>1. UNCHANGED <<state, lease, sockets, requests, owned, releases>> /\ calls[c].stage = "renewing"
        /\ gate = None
    BY Zenon DEF renew_grant
  <1>2. CASE calls' = Ended(c) /\ UNCHANGED gate BY <1>1, <1>2, GrantingEnds, Zenon
  <1>3. CASE /\ grant # None /\ gate' = c
             /\ calls' = [calls EXCEPT ![c].stage = "renewSending", ![c].conn = grant.conn,
                                       ![c].pages = grant.pages]
    <2>t. /\ Types /\ ServeInv /\ GateInv /\ calls[c] \in CallRecord /\ state \in SessionState
          /\ DispatchInv(c) /\ PathInv(c) /\ BindInv(c)
      BY Zenon DEF CompanionInv, Types
    <2>1. calls[c].op = "renew" BY <1>1, StageOp, Zenon
    <2>2. grant \in GrantRecord BY <1>3, <2>t, StateFields, Zenon DEF PathInv
    <2>g. grant.conn \in Connections /\ grant.pages \in SUBSET GrantedPages BY <2>2, Zenon DEF GrantRecord
    <2>3. calls' = [calls EXCEPT ![c] = r] BY <1>3, <2>t, Zenon DEF Types
    <2>4. /\ r \in CallRecord /\ r.op = calls[c].op /\ r.page = calls[c].page
          /\ r.stage = "renewSending" /\ r.att = calls[c].att /\ r.attempt = calls[c].attempt
          /\ r.answer = calls[c].answer /\ r.conn = grant.conn /\ r.pages = grant.pages
      BY <2>g, <2>t, Zenon DEF CallRecord
    <2> HIDE DEF r
    <2>5. Only(c, calls') /\ calls'[c] = r BY <2>t, <2>3, <2>4, OneCall, Zenon
    <2>6. SameState BY <1>1, <2>t, StateStays, Zenon
    <2>7. PathInv(c)'
      <3>1. calls'[c].stage \in StagesOf(calls'[c].op) BY <2>1, <2>4, <2>5, Zenon DEF StagesOf
      <3>2. owned[c].stage = "none" BY <2>1, NoRelease1, Zenon
      <3> QED BY <1>1, <2>4, <2>5, <2>g, <2>t, <3>1, <3>2, Zenon DEF PathInv
    <2>8. DispatchInv(c)' BY <1>1, <2>1, <2>4, <2>5, <2>t, Zenon DEF DispatchInv
    <2>9. \A q \in requests : q.call # c BY <2>1, Zenon DEF CompanionInv, RequestInv
    <2>10. RenewInv(c)' BY <1>1, <2>4, <2>5, Zenon DEF RenewInv
    <2>11. BindKept(c) BY <1>1, <2>1, <2>4, <2>5, <2>t, Zenon DEF BindKept, BindInv
    <2>12. PageSide' BY <1>1, <2>4, <2>5, <2>10, <2>11, CallPages, Zenon
    <2>13. GateInv'
      <3>1. Sends(c)' BY <2>4, <2>5, Zenon DEF Sends
      <3>2. \A d \in Calls \ {c} : Sends(d)' => Sends(d)
        BY <1>1, <2>5, Zenon DEF Sends, Only
      <3> QED BY <1>1, <1>3, <2>t, <3>1, <3>2, GateTaken, Zenon
    <2>14. /\ lease' \in [Attachments -> {"none", "live", "expired"}]
           /\ gate' \in Connections \cup Calls \cup {None}
      BY <1>1, <1>3, <2>t, Zenon DEF Types
    <2> QED BY <1>1, <2>5, <2>6, <2>7, <2>8, <2>9, <2>12, <2>13, <2>14, CallAlone, Zenon
  <1> QED BY <1>2, <1>3, Zenon DEF renew_grant

\* PublishRenewal: what the renewal had read is what it writes back.
LEMMA PublishRenewalInv ==
    ASSUME CompanionInv, NEW c \in Calls, PublishRenewal(c)
    PROVE  CompanionInv'
  <1> DEFINE k == calls[c].conn
             a == calls[c].att
             x == [calls[c] EXCEPT !.stage = "done", !.conn = None, !.inTime = FALSE, !.pages = {}]
             v == [state.grants[a] EXCEPT !.pages = calls[c].pages, !.live = TRUE]
  <1>1. /\ UNCHANGED <<lease, sockets, requests, owned, releases>> /\ gate' = None
        /\ calls[c].stage = "renewSending" /\ calls' = [Ended(c) EXCEPT ![c].pages = {}]
    BY Zenon DEF PublishRenewal
  <1>t. /\ Types /\ ServeInv /\ GateInv /\ calls[c] \in CallRecord /\ state \in SessionState
        /\ DispatchInv(c) /\ PathInv(c) /\ RenewInv(c) /\ calls \in [Calls -> CallRecord]
    BY Zenon DEF CompanionInv, Types
  <1>a. a \in Attachments BY <1>t, Zenon DEF PathInv
  <1>m. state' = state \/ (Of(state.grants[a], k) /\ state' = [state EXCEPT !.grants[a] = v])
    BY <1>t, <1>a, Zenon DEF PublishRenewal, SessionState
  <1>2. calls[c].op = "renew" BY <1>1, StageOp, Zenon
  <1>3. /\ Only(c, calls') /\ calls'[c].stage = "done" /\ calls'[c].answer = calls[c].answer
        /\ calls'[c].att = calls[c].att /\ calls'[c].attempt = calls[c].attempt
    <2>1. calls' = [calls EXCEPT ![c] = x] BY <1>1, <1>t, Zenon DEF Ended
    <2>2. /\ x \in CallRecord /\ x.op = calls[c].op /\ x.page = calls[c].page /\ x.stage = "done"
          /\ x.answer = calls[c].answer /\ x.att = calls[c].att /\ x.attempt = calls[c].attempt
      BY <1>t, Zenon DEF CallRecord
    <2> HIDE DEF x
    <2>3. Only(c, calls') /\ calls'[c] = x BY <1>t, <2>1, <2>2, OneCall, Zenon
    <2> QED BY <2>2, <2>3, Zenon
  <1>g. GateInv' /\ owned[c].stage = "none" BY <1>1, <1>3, SenderEnds, Zenon
  <1>4. /\ state' \in SessionState
        /\ state'.session = state.session /\ state'.pending = state.pending
        /\ state'.discovery = state.discovery /\ state'.orphaned = state.orphaned
        /\ state'.bindings = state.bindings
        /\ \A b \in Attachments : SameGrant(state'.grants[b], state.grants[b])
    <2>1. CASE state' = state BY <1>t, <2>1, Zenon DEF SameGrant
    <2>2. CASE Of(state.grants[a], k) /\ state' = [state EXCEPT !.grants[a] = v]
      <3>1. state.grants[a] \in GrantRecord BY <1>a, <1>t, <2>2, StateFields, Zenon DEF Of
      <3>p. calls[c].pages \in SUBSET GrantedPages BY <1>t, Zenon DEF CallRecord
      <3>2. v \in GrantRecord /\ v.conn = state.grants[a].conn /\ v.pages = calls[c].pages
        BY <3>1, <3>p, Zenon DEF GrantRecord
      <3>3. v # None BY <3>2, CompanionAssumption, Zenon
      <3>4. v.pages = state.grants[a].pages BY <1>1, <1>t, <2>2, <3>2, Zenon DEF RenewInv
      <3> HIDE DEF v
      <3>5. /\ state' \in SessionState
            /\ state'.session = state.session /\ state'.pending = state.pending
            /\ state'.discovery = state.discovery /\ state'.orphaned = state.orphaned
            /\ state'.bindings = state.bindings
            /\ state'.grants[a] = v /\ \A b \in Attachments \ {a} : state'.grants[b] = state.grants[b]
        BY <1>a, <1>t, <2>2, <3>2, GrantSet
      <3> QED BY <2>2, <3>2, <3>3, <3>4, <3>5, Zenon DEF SameGrant, Of
    <2> QED BY <1>m, <2>1, <2>2, Zenon
  <1>5. Types' BY <1>1, <1>3, <1>4, <1>t, Zenon DEF Types, Only, CallsType
  <1>p. PastStays /\ \A j \in Connections : SameSending(j) BY <1>1, Zenon DEF PastStays, Past, SameSending
  <1>6. PagesOnly
    <2>1. \A b \in Attachments : state'.grants[b] = None \/ Of(state'.grants[b], state.session)
      BY <1>4, <1>t, Zenon DEF ServeInv, OneConnectionServes, SameGrant, Of
    <2> QED BY <1>4, <1>t, <2>1 DEF PagesOnly, ServeInv, OneConnectionServes
  <1>7. ASSUME NEW d \in Calls PROVE PathInv(d)' /\ NoDispatch(d) /\ NoBinding(d)
    <2>1. CASE d # c
      <3>1. calls'[d] = calls[d] /\ PathInv(d) BY <1>3, <2>1, Zenon DEF Only, CompanionInv
      <3>2. PathInv(d)' BY <1>1, <3>1, Zenon DEF PathInv
      <3> QED BY <3>1, <3>2, SameCallQuiet, Zenon
    <2>2. CASE d = c
      <3>0. calls'[c].op = calls[c].op /\ calls'[c].page = calls[c].page BY <1>3, Zenon DEF Only
      <3>1. PathInv(c)' BY <1>1, <1>2, <1>3, <1>g, <1>t, <3>0 DEF PathInv, StagesOf
      <3>2. NoDispatch(c) /\ NoBinding(c) BY <1>2, <1>3, <3>0, Zenon DEF NoDispatch, NoBinding
      <3> QED BY <2>2, <3>1, <3>2, Zenon
    <2> QED BY <2>1, <2>2, Zenon
  <1>8. PageSide'
    <2>1. \A d \in Calls : NotCleared(d) BY <1>1, Zenon DEF NotCleared
    <2>2. \A b \in Attachments : SameGrant(state'.orphaned[b], state.orphaned[b]) BY <1>4, Zenon DEF SameGrant
    <2> QED BY <1>4, <1>7, <1>p, <2>1, <2>2, PagesQuiet, Zenon
  <1> QED BY <1>1, <1>5, <1>6, <1>7, <1>8, <1>g, <1>p, PageStep, Zenon

\* A call whose binding is waited for has not been told anything.
LEMMA AwaitedCall ==
    ASSUME CompanionInv, NEW c \in Calls, state.bindings[c] # None
    PROVE  /\ calls[c].op = "bind" /\ calls[c].stage \in {"ticket", "removing"}
           /\ calls[c].answer = None /\ ~Answerable(c)
           /\ \A k \in Connections : ~(sockets[k].stage = "publishing" /\ sockets[k].binding.call = c)
  <1>1. /\ calls[c].op = "bind" /\ calls[c].stage \in {"ticket", "removing"}
        /\ calls[c].answer = None
    BY Zenon DEF CompanionInv, BindInv
  <1>2. \A k \in Connections : ~(sockets[k].stage = "publishing" /\ sockets[k].binding.call = c)
    BY PublishedCall, Zenon
  <1> QED BY <1>1, <1>2, Zenon DEF Answerable

\* The bindings of S are given up and their calls hear of it.
LEMMA HeardBindings ==
    ASSUME CompanionInv, NEW S, NEW kind, NEW n, Hear(S, kind, n, calls'),
           \A c \in Calls \cap S : calls[c].op = "bind" => state.bindings[c] # None,
           \A c \in Calls : state'.bindings[c] = None
                              \/ (c \notin S /\ state'.bindings[c] = state.bindings[c]),
           \A k \in Connections : SameSending(k)
    PROVE  \A c \in Calls : /\ BindKept(c)
                            /\ calls[c].op = "bind" /\ Answerable(c) => Answerable(c)'
  <1> SUFFICES ASSUME NEW c \in Calls
               PROVE  BindKept(c) /\ (calls[c].op = "bind" /\ Answerable(c) => Answerable(c)')
    BY Zenon
  <1>1. BindInv(c) BY Zenon DEF CompanionInv
  <1>2. CASE c \in S
    <2>1. SameBut(calls'[c], calls[c]) BY Zenon DEF Hear
    <2>2. calls[c].op = "bind" => state.bindings[c] # None BY <1>2, Zenon
    <2>3. calls[c].op = "bind" => calls[c].stage # "begin" /\ ~Answerable(c) BY <2>2, AwaitedCall, Zenon
    <2> QED BY <1>2, <2>1, <2>3, Zenon DEF BindKept, SameBut
  <1>3. CASE c \notin S
    <2>1. calls'[c] = calls[c] BY <1>3, Zenon DEF Hear
    <2>2. BindKept(c) BY <2>1, SameBindKept, Zenon
    <2>3. Answerable(c) => Answerable(c)' BY <2>1, Zenon DEF Answerable, SameSending
    <2> QED BY <2>2, <2>3, Zenon
  <1> QED BY <1>2, <1>3, Zenon

BindingsMove(S) ==
    /\ state' \in SessionState
    /\ state'.session = state.session /\ state'.pending = state.pending
    /\ state'.discovery = state.discovery /\ state'.orphaned = state.orphaned
    /\ \A c \in Calls : state'.bindings[c] = None
                           \/ (c \notin S /\ state'.bindings[c] = state.bindings[c])
    /\ \A a \in Attachments : /\ state'.grants[a] = None \/ Of(state'.grants[a], state.session)
                              /\ PagesOf(state'.grants[a]) \subseteq PagesOf(state.grants[a])
    /\ \/ gate = None
       \/ state'.grants = state.grants

LEMMA BindingStep ==
    ASSUME CompanionInv, NEW S, NEW kind, NEW n, Hear(S, kind, n, calls'), kind # "answered",
           \A c \in Calls \cap S : state.bindings[c] # None, BindingsMove(S), SocketsMove,
           UNCHANGED <<requests, lease>>,
           owned' \in [Calls -> ReleaseRecord], releases' \in [Keys -> Calls \cup {None}],
           gate' \in Connections \cup Calls \cup {None}, GateInv',
           \A d \in Calls : ClearedKept(d) /\ PathInv(d)'
    PROVE  CompanionInv'
  <1>t. Types /\ ServeInv /\ GateInv BY Zenon DEF CompanionInv
  <1>1. Types' BY <1>t, Zenon DEF Types, Hear, CallsType, BindingsMove, SocketsMove
  <1>2. PagesOnly
    <2>1. \A c \in Calls : state'.bindings[c] = None \/ Of(state'.bindings[c], state.session)
      BY <1>t, Zenon DEF BindingsMove, ServeInv, OneConnectionServes
    <2> QED BY <2>1, Zenon DEF BindingsMove, PagesOnly
  <1>3. ASSUME NEW c \in Calls PROVE NoDispatch(c)
    <2>1. CASE c \in S
      <3>1. calls[c].op = "bind" /\ calls[c].stage \in {"ticket", "removing"} BY <2>1, AwaitedCall, Zenon
      <3>2. SameBut(calls'[c], calls[c]) /\ calls'[c].answer.kind = kind BY <2>1, Zenon DEF Hear
      <3> QED BY <3>1, <3>2, Zenon DEF NoDispatch, SameBut
    <2>2. CASE c \notin S
      <3>1. calls'[c] = calls[c] BY <2>2, Zenon DEF Hear
      <3> QED BY <3>1, SameCallQuiet, Zenon
    <2> QED BY <2>1, <2>2, Zenon
  <1>4. \A c \in Calls : BindKept(c) /\ (calls[c].op = "bind" /\ Answerable(c) => Answerable(c)')
    BY HeardBindings, Zenon DEF BindingsMove, SocketsMove
  <1>5. \A p : \A c \in Binders(p) : c \in Calls /\ calls[c].op = "bind" BY Zenon DEF Binders
  <1>6. \A a \in Attachments : PagesAt(a)' \subseteq PagesAt(a) BY Zenon DEF PagesAt, BindingsMove
  <1>7. ASSUME NEW c \in Calls PROVE RenewInv(c)'
    <2>1. SameBut(calls'[c], calls[c]) /\ RenewInv(c) BY Zenon DEF Hear, CompanionInv
    <2>2. CASE gate = None
      <3>1. calls[c].stage # "renewSending" BY <1>t, <2>2, NobodySends, Zenon DEF Sends
      <3> QED BY <2>1, <3>1, Zenon DEF RenewInv, SameBut
    <2>3. CASE state'.grants = state.grants BY <2>1, <2>3, Zenon DEF RenewInv, SameBut
    <2> QED BY <2>2, <2>3, Zenon DEF BindingsMove
  <1>8. ASSUME NEW k \in Connections PROVE PublishInv(k)'
    <2>1. SameSending(k) BY Zenon DEF SocketsMove
    <2>2. CASE sockets[k].stage # "publishing" BY <2>1, <2>2, Zenon DEF PublishInv, SameSending
    <2>3. CASE sockets[k].stage = "publishing"
      <3>1. state'.grants = state.grants BY <1>t, <2>3, NobodySends, Zenon DEF BindingsMove
      <3>2. LET b == sockets[k].binding
            IN  /\ b.call \in Calls /\ state.bindings[b.call] = None /\ calls[b.call].stage # "begin"
        BY <2>3, PublishedCall, Zenon
      <3>3. LET b == sockets[k].binding
            IN  calls'[b.call] = calls[b.call] /\ state'.bindings[b.call] = None
        BY <3>2, Zenon DEF Hear, BindingsMove
      <3>4. LET b == sockets[k].binding
            IN  SameGrant(state'.grants[b.att], state.grants[b.att])
        BY <3>1, Zenon DEF SameGrant
      <3> QED BY <2>1, <3>2, <3>3, <3>4, PublishKept, Zenon
    <2> QED BY <2>2, <2>3, Zenon
  <1>9. PageSide' BY <1>4, <1>5, <1>6, <1>7, <1>8, PagesShrink, Zenon
  <1>10. PastStays BY Zenon DEF SocketsMove
  <1> QED BY <1>1, <1>2, <1>3, <1>9, <1>10, PageStep, Zenon

\* When the releases are left alone.
LEMMA BindingsEnd ==
    ASSUME CompanionInv, NEW S, NEW kind, NEW n, Hear(S, kind, n, calls'), kind # "answered",
           \A c \in Calls \cap S : state.bindings[c] # None, BindingsMove(S), SocketsMove,
           UNCHANGED <<requests, lease, owned, releases, gate>>
    PROVE  CompanionInv'
  <1>t. Types /\ GateInv BY Zenon DEF CompanionInv
  <1>1. \A d \in Calls : SameBut(calls'[d], calls[d]) BY Zenon DEF Hear
  <1>2. ASSUME NEW d \in Calls PROVE ClearedKept(d) /\ PathInv(d)' /\ (Sends(d)' <=> Sends(d))
    <2>1. PathInv(d) BY Zenon DEF CompanionInv
    <2>2. PathInv(d)' BY <1>1, <2>1, Zenon DEF PathInv, SameBut
    <2> QED BY <1>1, <2>2, Zenon DEF ClearedKept, Sends, SameBut
  <1>3. GateInv' BY <1>2, <1>t, GateKept, Zenon DEF SocketsMove, SameSending
  <1>4. /\ owned' \in [Calls -> ReleaseRecord] /\ releases' \in [Keys -> Calls \cup {None}]
        /\ gate' \in Connections \cup Calls \cup {None}
    BY <1>t, Zenon DEF Types
  <1> QED BY <1>2, <1>3, <1>4, BindingStep, Zenon

\* A binding is given up.
LEMMA OneBinding ==
    ASSUME CompanionInv, NEW S, NEW c \in Calls, S \subseteq {c},
           state' = [state EXCEPT !.bindings[c] = None] \/ (state' = state /\ S = {})
    PROVE  BindingsMove(S)
  <1>t. state \in SessionState /\ ServeInv BY Zenon DEF CompanionInv, Types
  <1>1. \A a \in Attachments : state.grants[a] = None \/ Of(state.grants[a], state.session)
    BY <1>t, Zenon DEF ServeInv, OneConnectionServes
  <1>2. CASE state' = [state EXCEPT !.bindings[c] = None]
    <2>1. /\ state' \in SessionState
          /\ state'.session = state.session /\ state'.discovery = state.discovery
          /\ state'.grants = state.grants /\ state'.orphaned = state.orphaned
          /\ state'.pending = state.pending
          /\ state'.bindings[c] = None /\ \A d \in Calls \ {c} : state'.bindings[d] = state.bindings[d]
      BY <1>2, <1>t, BindingSet
    <2> QED BY <1>1, <2>1 DEF BindingsMove
  <1>3. CASE state' = state /\ S = {} BY <1>1, <1>3, <1>t, Zenon DEF BindingsMove
  <1> QED BY <1>2, <1>3, Zenon

\* RecordBindingGivesUp
LEMMA RecordGivesUpInv ==
    ASSUME CompanionInv, NEW k \in Connections, NEW c \in Calls, RecordBindingGivesUp(k, c)
    PROVE  CompanionInv'
  <1> DEFINE S == {d \in {c} : Of(state.bindings[d], k)}
  <1>t. Types /\ state \in SessionState BY Zenon DEF CompanionInv, Types
  <1>1. /\ UNCHANGED <<gate, lease, requests, owned, releases>> /\ sockets[k].stage = "serving"
        /\ calls' = Told(S, "refused", 0) /\ sockets' = [sockets EXCEPT ![k].stage = "erring"]
    BY Zenon DEF RecordBindingGivesUp
  <1>2. SocketsMove BY <1>1, <1>t, StageMoves, Zenon
  <1>a. 0 \in 0..3 OBVIOUS
  <1>3. Hear(S, "refused", 0, calls') BY <1>1, <1>a, <1>t, ToldFields, Zenon
  <1>4. \A d \in Calls \cap S : state.bindings[d] # None BY Zenon DEF Of
  <1>5. state' = [state EXCEPT !.bindings[c] = None] \/ (state' = state /\ S = {})
    <2>1. state' = [state EXCEPT !.bindings[c] = IF Of(state.bindings[c], k) THEN None ELSE state.bindings[c]]
      BY <1>t, Zenon DEF RecordBindingGivesUp, SessionState
    <2>2. CASE Of(state.bindings[c], k) BY <2>1, <2>2, Zenon
    <2>3. CASE ~Of(state.bindings[c], k)
      <3>1. state' = [state EXCEPT !.bindings[c] = state.bindings[c]] BY <2>1, <2>3, Zenon
      <3>2. state' = state BY <1>t, <3>1, Zenon DEF SessionState
      <3> QED BY <2>3, <3>2, Zenon
    <2> QED BY <2>2, <2>3, Zenon
  <1>6. S \subseteq {c} BY Zenon
  <1> HIDE DEF S
  <1>7. BindingsMove(S) BY <1>5, <1>6, OneBinding, Zenon
  <1> QED BY <1>1, <1>2, <1>3, <1>4, <1>7, BindingsEnd, Zenon

\* TicketAnswered, TicketEnds
LEMMA TicketInv ==
    ASSUME CompanionInv, NEW c \in Calls, TicketAnswered(c) \/ TicketEnds(c)
    PROVE  CompanionInv'
  <1>1. /\ UNCHANGED <<state, gate, lease, sockets, requests, owned, releases>>
        /\ calls[c].stage = "ticket"
    BY Zenon DEF TicketAnswered, TicketEnds
  <1>t. /\ Types /\ ServeInv /\ GateInv /\ calls[c] \in CallRecord
        /\ DispatchInv(c) /\ PathInv(c) /\ BindInv(c)
    BY Zenon DEF CompanionInv, Types
  <1>2. calls[c].op = "bind" BY <1>1, StageOp, Zenon
  <1>3. /\ Only(c, calls') /\ Keeps(c, calls')
        /\ \/ calls'[c].stage = "done" /\ state.bindings[c] = None
           \/ calls'[c].stage = "removing" /\ calls'[c].conn = calls[c].conn
    <2>1. CASE TicketAnswered(c)
      <3>1. calls' = Ended(c) /\ state.bindings[c] = None BY <1>t, <2>1, Zenon DEF TicketAnswered, BindInv
      <3> QED BY <1>t, <3>1, EndedFields, Zenon
    <2>2. CASE TicketEnds(c)
      <3> DEFINE r == [calls[c] EXCEPT !.stage = "removing"]
      <3>1. calls' = [calls EXCEPT ![c] = r] BY <2>2, Zenon DEF TicketEnds
      <3>2. /\ r \in CallRecord /\ r.op = calls[c].op /\ r.page = calls[c].page /\ r.stage = "removing"
            /\ r.att = calls[c].att /\ r.attempt = calls[c].attempt /\ r.answer = calls[c].answer
            /\ r.conn = calls[c].conn
        BY <1>t DEF CallRecord
      <3> HIDE DEF r
      <3>3. Only(c, calls') /\ calls'[c] = r BY <1>t, <3>1, <3>2, OneCall, Zenon
      <3> QED BY <3>2, <3>3, Zenon DEF Keeps
    <2> QED BY <2>1, <2>2, Zenon
  <1>4. calls'[c].op = calls[c].op /\ calls'[c].page = calls[c].page BY <1>3, Zenon DEF Only
  <1>5. SameState BY <1>1, <1>t, StateStays, Zenon
  <1>6. owned[c].stage = "none" BY <1>2, NoRelease1, Zenon
  <1>7. PathInv(c)' BY <1>1, <1>2, <1>3, <1>4, <1>6, <1>t, Zenon DEF PathInv, Keeps, StagesOf
  <1>8. DispatchInv(c)' BY <1>1, <1>2, <1>3, <1>4, <1>t, Zenon DEF DispatchInv, Keeps
  <1>9. \A q \in requests : q.call # c BY <1>2, Zenon DEF CompanionInv, RequestInv
  <1>10. BindKept(c) BY <1>1, <1>3, <1>4, Zenon DEF BindKept, Keeps
  <1>11. RenewInv(c)' BY <1>3, Zenon DEF RenewInv
  <1>12. PageSide' BY <1>1, <1>3, <1>10, <1>11, CallPages, Zenon DEF Keeps
  <1>13. GateInv'
    <2>1. \A d \in Calls : Sends(d)' <=> Sends(d) BY <1>1, <1>3, Zenon DEF Sends, Only
    <2> QED BY <1>1, <1>t, <2>1, GateKept, Zenon
  <1>14. /\ lease' \in [Attachments -> {"none", "live", "expired"}]
         /\ gate' \in Connections \cup Calls \cup {None}
    BY <1>1, <1>t, Zenon DEF Types
  <1> QED BY <1>1, <1>3, <1>5, <1>7, <1>8, <1>9, <1>12, <1>13, <1>14, CallAlone, Zenon

\* A call that ends or begins to wait is no command.
LEMMA OneCallPath ==
    ASSUME CompanionInv, NEW c \in Calls, Only(c, calls'), UNCHANGED <<sockets, gate>>,
           calls[c].op = "bind", calls'[c].att = calls[c].att, calls'[c].attempt = calls[c].attempt,
           calls'[c].answer = calls[c].answer, calls'[c].stage \in {"ticket", "done"},
           calls'[c].stage = "ticket" => calls'[c].conn \in Connections,
           \A d \in Calls : owned'[d].stage = owned[d].stage /\ owned'[d].key = owned[d].key
                              /\ owned'[d].conn = owned[d].conn /\ owned'[d].seen = owned[d].seen
    PROVE  (\A d \in Calls : PathInv(d)' /\ NoDispatch(d)) /\ GateInv' /\ PastStays
  <1>t. GateInv /\ calls[c].stage \in StagesOf("bind") BY Zenon DEF CompanionInv, PathInv
  <1>1. calls'[c].op = calls[c].op /\ calls'[c].page = calls[c].page BY Zenon DEF Only
  <1>2. ASSUME NEW d \in Calls PROVE PathInv(d)' /\ NoDispatch(d) /\ (Sends(d)' <=> Sends(d))
    <2>0. PathInv(d) BY Zenon DEF CompanionInv
    <2>1. CASE d # c
      <3>1. calls'[d] = calls[d] BY <2>1, Zenon DEF Only
      <3>2. NoDispatch(d) BY <3>1, SameCallQuiet, Zenon
      <3>3. PathInv(d)' BY <2>0, <3>1, Zenon DEF PathInv
      <3> QED BY <3>1, <3>2, <3>3, Zenon DEF Sends
    <2>2. CASE d = c
      <3>1. owned[c].stage = "none" BY NoRelease1, Zenon
      <3>2. PathInv(c)' BY <1>1, <2>0, <2>2, <3>1, Zenon DEF PathInv, StagesOf
      <3>3. NoDispatch(c) BY <1>1, Zenon DEF NoDispatch
      <3>4. Sends(c)' <=> Sends(c) BY <1>t, Zenon DEF Sends, StagesOf
      <3> QED BY <2>2, <3>2, <3>3, <3>4, Zenon
    <2> QED BY <2>1, <2>2, Zenon
  <1>3. GateInv' BY <1>2, <1>t, GateKept, Zenon
  <1> QED BY <1>2, <1>3, Zenon DEF PastStays, Past

\* remove_binding
LEMMA RemoveBindingInv ==
    ASSUME CompanionInv, NEW c \in Calls, remove_binding(c)
    PROVE  CompanionInv'
  <1> DEFINE w == IF Of(state.bindings[c], calls[c].conn) THEN None ELSE state.bindings[c]
  <1>t. /\ Types /\ ServeInv /\ state \in SessionState /\ BindInv(c)
    BY Zenon DEF CompanionInv, Types
  <1>1. /\ UNCHANGED <<gate, lease, sockets, requests, owned, releases>>
        /\ calls[c].stage = "removing" /\ calls' = Ended(c)
        /\ state' = [state EXCEPT !.bindings[c] = w]
    BY <1>t, Zenon DEF remove_binding, SessionState
  <1>w. w = None BY <1>t, Zenon DEF BindInv, Of
  <1>2. calls[c].op = "bind" BY <1>1, StageOp, Zenon
  <1>3. Only(c, calls') /\ Keeps(c, calls') /\ calls'[c].stage = "done" BY <1>1, <1>t, EndedFields, Zenon
  <1> HIDE DEF w
  <1>4. /\ state' \in SessionState
        /\ state'.session = state.session /\ state'.discovery = state.discovery
        /\ state'.grants = state.grants /\ state'.orphaned = state.orphaned
        /\ state'.pending = state.pending
        /\ state'.bindings[c] = None /\ \A d \in Calls \ {c} : state'.bindings[d] = state.bindings[d]
    BY <1>1, <1>t, <1>w, BindingSet
  <1>5. Types' BY <1>1, <1>3, <1>4, <1>t, Zenon DEF Types, Only, CallsType
  <1>6. PagesOnly BY <1>4, <1>t DEF PagesOnly, ServeInv, OneConnectionServes
  <1>7. (\A d \in Calls : PathInv(d)' /\ NoDispatch(d)) /\ GateInv' /\ PastStays
    BY <1>1, <1>2, <1>3, OneCallPath, Zenon DEF Keeps
  <1>8. BindKept(c) BY <1>3, <1>4, Zenon DEF BindKept, Only
  <1>9. RenewInv(c)' BY <1>3, Zenon DEF RenewInv
  <1>10. \A d \in Calls : state'.bindings[d] = state.bindings[d] \/ state'.bindings[d] = None BY <1>4, Zenon
  <1>11. PageSide' BY <1>1, <1>3, <1>4, <1>8, <1>9, <1>10, CallPages, Zenon DEF Keeps
  <1> QED BY <1>1, <1>5, <1>6, <1>7, <1>11, PageStep, Zenon

\* begin_page_binding: the page is nowhere bound, nobody waits for it, and no release is
\* taken to have cleared it any more.
LEMMA BeginInv ==
    ASSUME CompanionInv, NEW c \in Calls, begin_page_binding(c)
    PROVE  CompanionInv'
  <1> DEFINE a == calls[c].att
             p == calls[c].page
             b == [conn |-> state.session, att |-> a, page |-> p, known |-> state.discovery.targets]
             x == [calls[c] EXCEPT !.stage = "ticket", !.conn = state.session]
  <1>1. UNCHANGED <<gate, lease, sockets, requests, releases>> /\ calls[c].stage = "begin"
    BY Zenon DEF begin_page_binding
  <1>t. /\ Types /\ ServeInv /\ GateInv /\ calls[c] \in CallRecord /\ state \in SessionState
        /\ DispatchInv(c) /\ PathInv(c) /\ BindInv(c) /\ owned \in [Calls -> ReleaseRecord]
    BY Zenon DEF CompanionInv, Types
  <1>2. calls[c].op = "bind" BY <1>1, StageOp, Zenon
  <1>3. calls[c].answer = None /\ state.bindings[c] = None BY <1>1, <1>2, <1>t, Zenon DEF BindInv
  <1>4. CASE calls' = Ended(c) /\ UNCHANGED <<state, owned>>
    <2>1. Only(c, calls') /\ Keeps(c, calls') /\ calls'[c].stage = "done" BY <1>4, <1>t, EndedFields, Zenon
    <2>2. Types' BY <1>1, <1>4, <1>t, <2>1, Zenon DEF Types, Only, CallsType
    <2>3. PagesOnly BY <1>4, StateOnly, Zenon
    <2>4. (\A d \in Calls : PathInv(d)' /\ NoDispatch(d)) /\ GateInv' /\ PastStays
      BY <1>1, <1>2, <1>4, <2>1, OneCallPath, Zenon DEF Keeps
    <2>5. BindKept(c) BY <1>3, <1>4, <2>1, Zenon DEF BindKept, Only
    <2>6. RenewInv(c)' BY <2>1, Zenon DEF RenewInv
    <2>7. PageSide' BY <1>1, <1>4, <2>1, <2>5, <2>6, CallPages, Zenon DEF Keeps
    <2> QED BY <1>1, <2>2, <2>3, <2>4, <2>7, PageStep, Zenon
  <1>5. CASE /\ state.grants[a] # None
             /\ ~HasPage(BoundPages, p)
             /\ \A d \in Calls : state.bindings[d] # None => state.bindings[d].page # p
             /\ Of(state.discovery, state.grants[a].conn)
             /\ state' = [state EXCEPT !.bindings[c] = b]
             /\ calls' = [calls EXCEPT ![c].stage = "ticket", ![c].conn = state.session]
             /\ owned' = [d \in Calls |-> IF owned[d].key = <<a, p>>
                                          THEN [owned[d] EXCEPT !.cleared = FALSE] ELSE owned[d]]
    <2>a. a \in Attachments /\ p \in Pages BY <1>t, Zenon DEF PathInv
    <2>1. Of(state.grants[a], state.session) BY <1>5, <1>t, <2>a, Zenon DEF ServeInv, OneConnectionServes
    <2>2. state.session \in Connections
      <3>1. state.grants[a] \in GrantRecord BY <1>5, <1>t, <2>a, StateFields, Zenon
      <3> QED BY <2>1, <3>1, Zenon DEF GrantRecord, Of
    <2>3. state.discovery.targets \in SUBSET Targets
      <3>1. state.discovery \in DiscoveryRecord BY <1>5, <1>t, StateFields, Zenon DEF Of
      <3> QED BY <3>1, Zenon DEF DiscoveryRecord
    <2>4. b \in PendingBinding /\ b.conn = state.session /\ b.att = a /\ b.page = p
      BY <2>2, <2>3, <2>a, Zenon DEF PendingBinding
    <2>5. b # None BY <2>4, CompanionAssumption, Zenon
    <2>6. calls' = [calls EXCEPT ![c] = x] BY <1>5, <1>t, Zenon DEF Types
    <2>7. /\ x \in CallRecord /\ x.op = calls[c].op /\ x.page = calls[c].page /\ x.stage = "ticket"
          /\ x.att = calls[c].att /\ x.attempt = calls[c].attempt /\ x.answer = calls[c].answer
          /\ x.conn = state.session
      BY <1>t, <2>2, Zenon DEF CallRecord
    <2> HIDE DEF x, b
    <2>8. Only(c, calls') /\ calls'[c] = x BY <1>t, <2>6, <2>7, OneCall, Zenon
    <2>9. /\ state' \in SessionState
          /\ state'.session = state.session /\ state'.discovery = state.discovery
          /\ state'.grants = state.grants /\ state'.orphaned = state.orphaned
          /\ state'.pending = state.pending
          /\ state'.bindings[c] = b /\ \A d \in Calls \ {c} : state'.bindings[d] = state.bindings[d]
      BY <1>5, <1>t, <2>4, BindingSet
    <2>10. /\ owned' \in [Calls -> ReleaseRecord]
           /\ \A d \in Calls : /\ owned'[d].stage = owned[d].stage /\ owned'[d].key = owned[d].key
                               /\ owned'[d].conn = owned[d].conn /\ owned'[d].seen = owned[d].seen
                               /\ owned'[d].cleared => owned[d].cleared /\ owned[d].key # <<a, p>>
      <3>1. ASSUME NEW d \in Calls
            PROVE  LET r == [owned[d] EXCEPT !.cleared = FALSE]
                   IN  /\ r \in ReleaseRecord /\ r.stage = owned[d].stage /\ r.key = owned[d].key
                       /\ r.conn = owned[d].conn /\ r.seen = owned[d].seen /\ ~r.cleared
        <4>1. owned[d] \in ReleaseRecord BY <1>t, Zenon
        <4> QED BY <4>1, Zenon DEF ReleaseRecord
      <3>2. \A d \in Calls : owned'[d] = IF owned[d].key = <<a, p>>
                                         THEN [owned[d] EXCEPT !.cleared = FALSE] ELSE owned[d]
        BY <1>5, Zenon
      <3>3. owned' \in [Calls -> ReleaseRecord] BY <1>5, <1>t, <3>1, Zenon
      <3> QED BY <3>1, <3>2, <3>3, Zenon
    <2>11. Types' BY <1>1, <1>t, <2>8, <2>9, <2>10, Zenon DEF Types, Only, CallsType
    <2>12. PagesOnly
      <3>1. \A d \in Calls : state'.bindings[d] = None \/ Of(state'.bindings[d], state.session)
        BY <1>t, <2>4, <2>5, <2>9 DEF Of, ServeInv, OneConnectionServes
      <3> QED BY <1>t, <2>9, <3>1 DEF PagesOnly, ServeInv, OneConnectionServes
    <2>13. (\A d \in Calls : PathInv(d)' /\ NoDispatch(d)) /\ GateInv' /\ PastStays
      BY <1>1, <1>2, <2>2, <2>7, <2>8, <2>10, OneCallPath, Zenon
    <2>14. \A d \in Attachments : PagesAt(d)' = PagesAt(d) BY <2>9, Zenon DEF PagesAt
    <2>15. \A d \in Attachments : ~HasPage(PagesAt(d), p)
      <3>1. ASSUME NEW d \in Attachments PROVE state.orphaned[d] = None
        <4>1. state.session # None BY <2>2, CompanionAssumption, Zenon
        <4> QED BY <1>t, <4>1, Zenon DEF ServeInv, OneConnectionServes
      <3>2. \A d \in Attachments : PagesAt(d) \subseteq BoundPages
        BY <3>1, Zenon DEF PagesAt, BoundPages, PagesOf
      <3> QED BY <1>5, <3>2, Zenon DEF HasPage
    <2>16. \A d \in Calls \ {c} : calls'[d] = calls[d] BY <2>8, Zenon DEF Only
    <2>17. PagesInv'
      <3>1. \A q : Binders(q)' = Binders(q) BY <2>7, <2>8, <2>16 DEF Binders
      <3>2. \A d \in Calls : Answerable(d) => Answerable(d)'
        BY <1>1, <2>7, <2>8, <2>16 DEF Answerable
      <3>3. /\ \A d, e \in Attachments : \A g \in PagesAt(d)', h \in PagesAt(e)' :
                 g.target = h.target \/ g.page = h.page => d = e /\ g = h
        BY <2>14 DEF CompanionInv, PagesInv
      <3>4. ASSUME NEW d \in Attachments, NEW g \in PagesAt(d)', Binders(g.page)' # {}
            PROVE  \E e \in Binders(g.page)' : Answerable(e)'
        <4>1. g \in PagesAt(d) /\ Binders(g.page) # {} BY <2>14, <3>1, <3>4, Zenon
        <4>2. PICK e \in Binders(g.page) : Answerable(e) BY <4>1, Zenon DEF CompanionInv, PagesInv
        <4>3. e \in Calls BY <4>2, Zenon DEF Binders
        <4>4. Answerable(e)' BY <3>2, <4>2, <4>3, Zenon
        <4> QED BY <3>1, <4>2, <4>4, Zenon
      <3>5. ASSUME NEW d \in Calls, owned'[d].cleared, NEW e \in Attachments, NEW g \in PagesAt(e)'
            PROVE  owned'[d].key # <<e, g.page>>
        BY <2>10, <2>14, <3>5 DEF CompanionInv, PagesInv
      <3> QED BY <3>3, <3>4, <3>5, Zenon DEF PagesInv
    <2>18. ASSUME NEW d \in Calls PROVE RenewInv(d)'
      <3>1. CASE d # c
        <4>1. calls'[d] = calls[d] /\ RenewInv(d) BY <2>16, <3>1, Zenon DEF CompanionInv
        <4> QED BY <2>9, <4>1, Zenon DEF RenewInv
      <3>2. CASE d = c BY <2>7, <2>8, <3>2, Zenon DEF RenewInv
      <3> QED BY <3>1, <3>2, Zenon
    <2>19. ASSUME NEW k \in Connections PROVE PublishInv(k)'
      <3>1. SameSending(k) BY <1>1, Zenon DEF SameSending
      <3>2. ASSUME sockets[k].stage = "publishing"
            PROVE  LET bb == sockets[k].binding
                   IN  /\ SameGrant(state'.grants[bb.att], state.grants[bb.att])
                       /\ calls'[bb.call] = calls[bb.call] /\ calls'[bb.call].stage # "begin"
                       /\ state'.bindings[bb.call] = None
        <4>1. LET bb == sockets[k].binding
              IN  /\ bb.call \in Calls /\ bb.call # c /\ state.bindings[bb.call] = None
                  /\ calls[bb.call].stage # "begin"
          BY <1>1, <3>2, PublishedCall, Zenon
        <4> QED BY <2>9, <2>16, <4>1, Zenon DEF SameGrant
      <3> QED BY <3>1, <3>2, PublishKept, Zenon
    <2>20. BindInv(c)'
      <3>1. /\ calls'[c].op = "bind" /\ calls'[c].stage = "ticket" /\ calls'[c].answer = None
            /\ b.att = calls'[c].att /\ b.page = calls'[c].page /\ b.conn = calls'[c].conn
        BY <1>2, <1>3, <2>4, <2>7, <2>8, Zenon
      <3>2. /\ \A d \in Attachments : ~HasPage(PagesAt(d)', b.page)
            /\ \A d \in Calls \ {c} : state'.bindings[d] # None => state'.bindings[d].page # b.page
            /\ \A d \in Calls : owned'[d].cleared => owned'[d].key # <<b.att, b.page>>
        BY <1>5, <2>4, <2>9, <2>10, <2>14, <2>15 DEF HasPage
      <3> QED BY <2>9, <3>1, <3>2, Zenon DEF BindInv, HasPage
    <2>21. ASSUME NEW d \in Calls \ {c} PROVE BindInv(d)'
      <3>1. BindInv(d) /\ calls'[d] = calls[d] /\ state'.bindings[d] = state.bindings[d]
        BY <2>9, <2>16, Zenon DEF CompanionInv
      <3>2. calls'[d].op = "bind" /\ calls'[d].stage = "begin" => calls'[d].answer = None
        BY <3>1, Zenon DEF BindInv
      <3>3. SUFFICES ASSUME state'.bindings[d] # None PROVE BindInv(d)' BY <3>2, Zenon DEF BindInv
      <3>4. /\ calls'[d].op = "bind" /\ calls'[d].stage \in {"ticket", "removing"}
            /\ calls'[d].answer = None
            /\ state'.bindings[d].att = calls'[d].att /\ state'.bindings[d].page = calls'[d].page
            /\ state'.bindings[d].conn = calls'[d].conn
        BY <3>1, <3>3, Zenon DEF BindInv
      <3>5. \A e \in Attachments : ~HasPage(PagesAt(e)', state'.bindings[d].page)
        BY <2>14, <3>1, <3>3, Zenon DEF BindInv
      <3>6. ASSUME NEW e \in Calls \ {d}, state'.bindings[e] # None
            PROVE  state'.bindings[e].page # state'.bindings[d].page
        <4>1. CASE e = c BY <1>5, <2>4, <2>9, <3>1, <3>3, <4>1
        <4>2. CASE e # c BY <2>9, <3>1, <3>3, <3>6, <4>2, Zenon DEF BindInv
        <4> QED BY <4>1, <4>2, Zenon
      <3>7. ASSUME NEW e \in Calls, owned'[e].cleared
            PROVE  owned'[e].key # <<state'.bindings[d].att, state'.bindings[d].page>>
        BY <2>10, <3>1, <3>3, <3>7 DEF BindInv
      <3> QED BY <3>2, <3>3, <3>4, <3>5, <3>6, <3>7, Zenon DEF BindInv, HasPage
    <2>22. PageSide' BY <2>17, <2>18, <2>19, <2>20, <2>21, Zenon DEF PageSide
    <2> QED BY <1>1, <2>11, <2>12, <2>13, <2>22, PageStep, Zenon
  <1> QED BY <1>4, <1>5, Zenon DEF begin_page_binding

\* A reported page enters the grant of the connection that reports it: the pending
\* binding is taken, and the socket task is about to publish the grant.
PageEnters(k, c, a, g, old) ==
    /\ gate = None /\ state.session = k
    /\ state.bindings[c] # None /\ state.bindings[c].att = a /\ state.bindings[c].page = g.page
    /\ \A x \in BoundPages : x.target # g.target
    /\ Of(state.grants[a], k) /\ state.grants[a].pages = old
    /\ state'.orphaned = state.orphaned /\ state'.bindings[c] = None
    /\ \A d \in Calls \ {c} : state'.bindings[d] = state.bindings[d]
    /\ Of(state'.grants[a], k) /\ state'.grants[a].pages = old \cup {g}
    /\ \A i \in Attachments \ {a} : state'.grants[i] = state.grants[i]
    /\ sockets'[k].stage = "publishing" /\ sockets'[k].binding # None
    /\ sockets'[k].binding.call = c /\ sockets'[k].binding.att = a
    /\ sockets'[k].binding.before = old /\ sockets'[k].binding.after = old \cup {g}
    /\ \A j \in Connections \ {k} : sockets'[j] = sockets[j]
    /\ UNCHANGED <<calls, owned>>

\* A report enters the page its binding waits for, under a tab that no page has.
LEMMA PageEntered ==
    ASSUME CompanionInv, NEW k \in Connections, NEW c \in Calls, NEW a \in Attachments,
           NEW g \in GrantedPages, NEW old, PageEnters(k, c, a, g, old)
    PROVE  PageSide'
  <1> USE DEF PageEnters
  <1>t. /\ Types /\ ServeInv /\ GateInv /\ PagesInv /\ \A d \in Calls : BindInv(d)
    BY Zenon DEF CompanionInv
  <1>o. \A i \in Attachments : state.orphaned[i] = None
    BY <1>t, CompanionAssumption, Zenon DEF ServeInv, OneConnectionServes
  <1>n. /\ \A j \in Connections : sockets[j].stage # "publishing"
        /\ \A d \in Calls : ~Sends(d)
    BY <1>t, NobodySends, Zenon
  <1>1. /\ calls[c].op = "bind" /\ calls[c].stage \in {"ticket", "removing"} /\ calls[c].answer = None
        /\ calls[c].page = g.page
        /\ \A i \in Attachments : ~HasPage(PagesAt(i), g.page)
        /\ \A d \in Calls \ {c} : state.bindings[d] # None => state.bindings[d].page # g.page
        /\ \A d \in Calls : owned[d].cleared => owned[d].key # <<a, g.page>>
    BY <1>t DEF BindInv
  <1>2. \A i \in Attachments : PagesAt(i) = PagesOf(state.grants[i])
    BY <1>o, Zenon DEF PagesAt, PagesOf
  <1>3. \A i \in Attachments : \A x \in PagesAt(i) : x.target # g.target /\ x.page # g.page
    BY <1>1, <1>2 DEF BoundPages, HasPage
  <1>4. PagesAt(a) = old BY <1>2, Zenon DEF PagesOf, Of
  <1>5. /\ PagesAt(a)' = PagesAt(a) \cup {g}
        /\ \A i \in Attachments \ {a} : PagesAt(i)' = PagesAt(i)
    BY <1>4, <1>o DEF PagesAt, PagesOf, Of
  <1>6. ASSUME NEW d \in Calls PROVE Answerable(d) => Answerable(d)'
    BY <1>n, Zenon DEF Answerable
  <1>7. Answerable(c)' BY <1>1, Zenon DEF Answerable
  <1>8. PagesInv'
    <2>1. ASSUME NEW i \in Attachments, NEW j \in Attachments,
                 NEW x \in PagesAt(i)', NEW y \in PagesAt(j)',
                 x.target = y.target \/ x.page = y.page
          PROVE  i = j /\ x = y
      <3>1. CASE x \in PagesAt(i) /\ y \in PagesAt(j) BY <1>t, <2>1, <3>1 DEF PagesInv
      <3>2. CASE i = a /\ x = g /\ y \in PagesAt(j) BY <1>3, <2>1, <3>2
      <3>3. CASE j = a /\ y = g /\ x \in PagesAt(i) BY <1>3, <2>1, <3>3
      <3>4. CASE i = a /\ x = g /\ j = a /\ y = g BY <3>4, Zenon
      <3> QED BY <1>5, <3>1, <3>2, <3>3, <3>4
    <2>2. ASSUME NEW i \in Attachments, NEW x \in PagesAt(i)', Binders(x.page)' # {}
          PROVE  \E d \in Binders(x.page)' : Answerable(d)'
      <3>1. \A p : Binders(p)' = Binders(p) BY Zenon DEF Binders
      <3>2. CASE x \in PagesAt(i)
        <4>1. \E d \in Binders(x.page) : Answerable(d) BY <1>t, <2>2, <3>1, <3>2, Zenon DEF PagesInv
        <4> QED BY <1>6, <3>1, <4>1, Zenon DEF Binders
      <3>3. CASE x = g
        <4>1. c \in Binders(g.page) BY <1>1, Zenon DEF Binders
        <4> QED BY <1>7, <3>1, <3>3, <4>1, Zenon
      <3> QED BY <1>5, <3>2, <3>3
    <2>3. ASSUME NEW d \in Calls, owned'[d].cleared, NEW i \in Attachments, NEW x \in PagesAt(i)'
          PROVE  owned'[d].key # <<i, x.page>>
      <3>1. CASE x \in PagesAt(i) BY <1>t, <2>3, <3>1 DEF PagesInv
      <3>2. CASE i = a /\ x = g BY <1>1, <2>3, <3>2, Zenon
      <3> QED BY <1>5, <3>1, <3>2
    <2> QED BY <2>1, <2>2, <2>3, Zenon DEF PagesInv
  <1>9. ASSUME NEW d \in Calls PROVE RenewInv(d)' BY <1>n, Zenon DEF RenewInv, Sends
  <1>10. ASSUME NEW d \in Calls PROVE BindInv(d)'
    <2>1. BindInv(d) BY <1>t, Zenon
    <2>2. CASE d = c BY <2>1, <2>2, Zenon DEF BindInv
    <2>3. CASE d # c /\ state.bindings[d] # None
      <3>1. \A i \in Attachments : ~HasPage(PagesAt(i)', state.bindings[d].page)
        BY <1>1, <1>5, <2>1, <2>3 DEF BindInv, HasPage
      <3>2. \A i \in Attachments : ~HasPage(PagesAt(i)', state'.bindings[d].page)
        BY <2>3, <3>1, Zenon
      <3>3. \A e \in Calls \ {d} : state'.bindings[e] # None
               => state'.bindings[e].page # state'.bindings[d].page
        BY <2>1, <2>3 DEF BindInv
      <3> QED BY <2>1, <2>3, <3>2, <3>3 DEF BindInv, HasPage
    <2>4. CASE d # c /\ state.bindings[d] = None BY <2>1, <2>4, Zenon DEF BindInv
    <2> QED BY <2>2, <2>3, <2>4, Zenon
  <1>11. ASSUME NEW j \in Connections PROVE PublishInv(j)'
    <2>1. CASE j # k BY <1>n, <2>1, Zenon DEF PublishInv
    <2>2. CASE j = k
      <3>1. \A x \in old : x.page # g.page BY <1>3, <1>4, Zenon
      <3>2. HasPage(old \cup {g}, g.page) BY Zenon DEF HasPage
      <3> QED BY <1>1, <2>2, <3>1, <3>2, Zenon DEF PublishInv, HasPage, Of
    <2> QED BY <2>1, <2>2, Zenon
  <1> QED BY <1>8, <1>9, <1>10, <1>11, Zenon DEF PageSide

\* record_page_binding
LEMMA RecordBindingInv ==
    ASSUME CompanionInv, NEW k \in Connections, NEW c \in Calls, NEW t \in Targets,
           record_page_binding(k, c, t)
    PROVE  CompanionInv'
  <1> PICK b : b = state.bindings[c] BY Zenon
  <1> DEFINE pages == RecordedPages(b, t)
             forgotten == [state EXCEPT !.bindings[c] = None]
  <1>1. /\ UNCHANGED <<lease, requests, owned, releases>> /\ sockets[k].stage = "serving"
        /\ gate = None /\ b # None
    BY Zenon DEF record_page_binding
  <1>t. /\ Types /\ ServeInv /\ GateInv /\ state \in SessionState /\ BindInv(c)
        /\ sockets[k] \in SocketRecord
    BY Zenon DEF CompanionInv, Types
  <1>2. CASE sockets' = [sockets EXCEPT ![k].stage = "erring"] /\ UNCHANGED <<state, gate, calls>>
    <2>1. SocketsMove BY <1>1, <1>2, <1>t, StageMoves, Zenon
    <2>2. SameState BY <1>2, <1>t, StateStays, Zenon
    <2> QED BY <1>1, <1>2, <2>1, <2>2, WakeInv, Zenon
  <1>3. CASE state' = forgotten /\ calls' = Told({c}, "refused", 0) /\ UNCHANGED <<gate, sockets>>
    <2>a. 0 \in 0..3 OBVIOUS
    <2>1. Hear({c}, "refused", 0, calls') BY <1>3, <1>t, <2>a, ToldFields, Zenon
    <2>2. SocketsMove BY <1>3, <1>t, SocketsStay, Zenon
    <2>3. BindingsMove({c}) BY <1>3, OneBinding, Zenon
    <2>4. \A d \in Calls \cap {c} : state.bindings[d] # None BY <1>1, Zenon
    <2>5. UNCHANGED <<requests, lease, owned, releases, gate>> BY <1>1, <1>3, Zenon
    <2> QED BY <2>1, <2>2, <2>3, <2>4, <2>5, BindingsEnd, Zenon
  <1>4. CASE /\ Reportable(k, c, t)
             /\ Of(state.grants[b.att], k)
             /\ state.session = k
             /\ state' = [forgotten EXCEPT !.grants[b.att].pages = pages]
             /\ gate' = k
             /\ sockets' = [sockets EXCEPT
                               ![k].stage = "publishing",
                               ![k].binding = [call |-> c, att |-> b.att, after |-> pages,
                                               before |-> state.grants[b.att].pages]]
             /\ UNCHANGED calls
    <2>b. b \in PendingBinding BY <1>1, <1>t, StateFields, Zenon
    <2>1. b.att \in Attachments /\ b.page \in Pages BY <2>b, Zenon DEF PendingBinding
    <2> PICK g : g = [target |-> t, page |-> b.page] BY Zenon
    <2> PICK old : old = state.grants[b.att].pages BY Zenon
    <2> DEFINE v == [state.grants[b.att] EXCEPT !.pages = pages]
               sb == [call |-> c, att |-> b.att, after |-> pages, before |-> old]
               r == [sockets[k] EXCEPT !.stage = "publishing", !.binding = sb]
    <2>2. state.grants[b.att] \in GrantRecord BY <1>4, <1>t, <2>1, StateFields, Zenon DEF Of
    <2>o. \A a \in Attachments : state.orphaned[a] = None
      BY <1>4, <1>t, CompanionAssumption, Zenon DEF ServeInv, OneConnectionServes
    <2>3. \A a \in Attachments : ~HasPage(PagesAt(a), b.page) BY <1>1, <1>t, Zenon DEF BindInv
    <2>4. old = PagesOf(state.grants[b.att]) /\ old \subseteq BoundPages /\ old \subseteq PagesAt(b.att)
      BY <1>4, <2>1, Zenon DEF PagesAt, BoundPages, PagesOf, Of
    <2>5. pages = old \cup {g}
      <3>1. \A x \in old : x.target # t /\ x.page # b.page
        BY <1>4, <2>1, <2>3, <2>4, Zenon DEF Reportable, HasPage
      <3> QED BY <2>4, <3>1, Zenon DEF RecordedPages
    <2>7. g \in GrantedPages /\ g.target = t /\ g.page = b.page BY <2>1, Zenon DEF GrantedPages
    <2>8. old \in SUBSET GrantedPages BY <2>2, Zenon DEF GrantRecord
    <2>9. pages \in SUBSET GrantedPages BY <2>5, <2>7, <2>8, Zenon
    <2> HIDE DEF pages
    <2>10. v \in GrantRecord /\ v.conn = state.grants[b.att].conn /\ v.pages = pages
      BY <2>2, <2>9, Zenon DEF GrantRecord
    <2>11. v # None BY <2>10, CompanionAssumption, Zenon
    <2>12. sb.call = c /\ sb.att = b.att /\ sb.after = pages /\ sb.before = old BY Zenon
    <2>13. sb \in Publication /\ sb # None
      BY <2>1, <2>8, <2>9, CompanionAssumption DEF Publication
    <2> HIDE DEF sb
    <2>14. r \in SocketRecord /\ r.stage = "publishing" /\ r.binding = sb
      BY <1>t, <2>13, Zenon DEF SocketRecord
    <2>15. sockets' = [sockets EXCEPT ![k] = r] BY <1>4, <1>t, Zenon DEF Types, sb
    <2> HIDE DEF r
    <2>16. /\ sockets' \in [Connections -> SocketRecord]
           /\ sockets'[k] = r /\ \A j \in Connections \ {k} : sockets'[j] = sockets[j]
      BY <1>t, <2>14, <2>15, Zenon DEF Types
    <2>17. PastStays BY <1>1, <2>14, <2>16, Zenon DEF PastStays, Past
    <2>18. /\ forgotten \in SessionState
           /\ forgotten.session = state.session /\ forgotten.discovery = state.discovery
           /\ forgotten.grants = state.grants /\ forgotten.orphaned = state.orphaned
           /\ forgotten.pending = state.pending
           /\ forgotten.bindings[c] = None
           /\ \A d \in Calls \ {c} : forgotten.bindings[d] = state.bindings[d]
      BY <1>t, BindingSet
    <2> HIDE DEF forgotten
    <2>19. state' = [forgotten EXCEPT !.grants[b.att] = v] BY <1>4, <2>18, <2>1, Zenon DEF SessionState
    <2> HIDE DEF v
    <2>20. /\ state' \in SessionState
           /\ state'.session = state.session /\ state'.discovery = state.discovery
           /\ state'.bindings = forgotten.bindings /\ state'.orphaned = state.orphaned
           /\ state'.pending = state.pending /\ state'.grants[b.att] = v
           /\ \A a \in Attachments \ {b.att} : state'.grants[a] = state.grants[a]
      BY <2>1, <2>10, <2>18, <2>19, GrantSet
    <2>21. Types' BY <1>1, <1>4, <1>t, <2>16, <2>20, Zenon DEF Types
    <2>22. Of(v, k) BY <1>4, <2>10, <2>11, Zenon DEF Of
    <2>23. PagesOnly
      <3>1. \A a \in Attachments : state'.grants[a] = None \/ Of(state'.grants[a], state.session)
        BY <1>4, <1>t, <2>20, <2>22, Zenon DEF ServeInv, OneConnectionServes
      <3>2. \A d \in Calls : state'.bindings[d] \in {None, state.bindings[d]} BY <2>18, <2>20, Zenon
      <3>3. \A d \in Calls : state.bindings[d] = None \/ Of(state.bindings[d], state.session)
        BY <1>t, Zenon DEF ServeInv, OneConnectionServes
      <3> QED BY <2>20, <3>1, <3>2, <3>3, Zenon DEF PagesOnly
    <2>24. ASSUME NEW d \in Calls PROVE PathInv(d)' /\ NoDispatch(d)
      <3>1. PathInv(d) BY Zenon DEF CompanionInv
      <3> QED BY <1>1, <1>4, <3>1, SameCallQuiet, Zenon DEF PathInv
    <2>25. GateInv'
      <3>n. /\ \A j \in Connections : sockets[j].stage # "publishing"
            /\ \A d \in Calls : ~Sends(d)
        BY <1>1, <1>t, NobodySends, Zenon
      <3>1. \A d \in Calls : ~Sends(d)' /\ gate' # d
        BY <1>1, <1>4, <3>n, CompanionAssumption, Zenon DEF Sends
      <3>2. \A j \in Connections : sockets'[j].stage = "publishing" <=> gate' = j
        BY <1>4, <2>14, <2>16, <3>n, Zenon
      <3> QED BY <3>1, <3>2, Zenon DEF GateInv, Sends
    <2>26. PageSide'
      <3>1. \A x \in BoundPages : x.target # g.target BY <1>4, <2>7, Zenon DEF Reportable
      <3>2. /\ sockets'[k].stage = "publishing" /\ sockets'[k].binding # None
            /\ sockets'[k].binding.call = c /\ sockets'[k].binding.att = b.att
            /\ sockets'[k].binding.before = old /\ sockets'[k].binding.after = old \cup {g}
        BY <2>5, <2>12, <2>13, <2>14, <2>16, Zenon
      <3>3. Of(state'.grants[b.att], k) /\ state'.grants[b.att].pages = old \cup {g}
        BY <2>5, <2>10, <2>20, <2>22, Zenon
      <3>4. /\ state'.orphaned = state.orphaned /\ state'.bindings[c] = None
            /\ \A d \in Calls \ {c} : state'.bindings[d] = state.bindings[d]
        BY <2>18, <2>20, Zenon
      <3>5. UNCHANGED <<calls, owned>> BY <1>1, <1>4, Zenon
      <3>6. /\ state.bindings[c] # None /\ state.bindings[c].att = b.att
            /\ state.bindings[c].page = g.page
        BY <1>1, <2>7, Zenon
      <3>7. state.grants[b.att].pages = old /\ Of(state.grants[b.att], k) /\ state.session = k
        BY <1>4, Zenon
      <3>8. /\ \A a \in Attachments \ {b.att} : state'.grants[a] = state.grants[a]
            /\ \A j \in Connections \ {k} : sockets'[j] = sockets[j]
        BY <2>16, <2>20, Zenon
      <3> HIDE DEF pages
      <3>9. g \in GrantedPages /\ b.att \in Attachments /\ gate = None BY <1>1, <2>1, <2>7, Zenon
      <3>10. PageEnters(k, c, b.att, g, old)
        BY <3>1, <3>2, <3>3, <3>4, <3>5, <3>6, <3>7, <3>8, <3>9, Zenon DEF PageEnters
      <3> QED BY <3>9, <3>10, PageEntered, Zenon
    <2> QED BY <1>1, <2>17, <2>21, <2>23, <2>24, <2>25, <2>26, PageStep, Zenon
  <1> QED BY <1>2, <1>3, <1>4, Zenon DEF record_page_binding

\* A page that was entered and cannot be published is taken out again, so the tab and the
\* page it had are free.
LEMMA TakenOut ==
    ASSUME CompanionInv, NEW k \in Connections, NEW b, b = sockets[k].binding,
           sockets[k].stage = "publishing",
           state'.orphaned = state.orphaned, PagesOf(state'.grants[b.att]) = b.before,
           \A a \in Attachments \ {b.att} : state'.grants[a] = state.grants[a]
    PROVE  /\ \A a \in Attachments : PagesAt(a)' \subseteq PagesAt(a)
           /\ \A a \in Attachments : \A g \in PagesAt(a)' : g.page # calls[b.call].page
  <1>1. /\ PublishInv(k) /\ ServeInv /\ PagesInv /\ b.att \in Attachments
    BY PublishedCall, Zenon DEF CompanionInv
  <1>2. /\ Of(state.grants[b.att], k) /\ state.grants[b.att].pages = b.after
        /\ b.before \subseteq b.after /\ \A g \in b.before : g.page # calls[b.call].page
        /\ HasPage(b.after, calls[b.call].page)
    BY <1>1, Zenon DEF PublishInv
  <1>3. state.session = k BY <1>1, <1>2, Zenon DEF ServeInv, OneConnectionServes, Of
  <1>4. \A a \in Attachments : state.orphaned[a] = None
    BY <1>1, <1>3, CompanionAssumption, Zenon DEF ServeInv, OneConnectionServes
  <1>5. PagesAt(b.att) = b.after /\ PagesAt(b.att)' = b.before
    BY <1>1, <1>2, <1>4, Zenon DEF PagesAt, PagesOf, Of
  <1>6. \A a \in Attachments \ {b.att} : PagesAt(a)' = PagesAt(a) BY Zenon DEF PagesAt
  <1>7. PICK h \in b.after : h.page = calls[b.call].page BY <1>2, Zenon DEF HasPage
  <1>8. ASSUME NEW a \in Attachments \ {b.att}, NEW g \in PagesAt(a) PROVE g.page # calls[b.call].page
    BY <1>1, <1>5, <1>7, <1>8 DEF PagesInv
  <1>9. ASSUME NEW a \in Attachments
        PROVE  PagesAt(a)' \subseteq PagesAt(a) /\ \A g \in PagesAt(a)' : g.page # calls[b.call].page
    <2>1. CASE a = b.att BY <1>2, <1>5, <2>1, Zenon
    <2>2. CASE a # b.att BY <1>6, <1>8, <2>2
    <2> QED BY <2>1, <2>2, Zenon
  <1> QED BY <1>9, Zenon

\* PublishBinding
LEMMA PublishBindingInv ==
    ASSUME CompanionInv, NEW k \in Connections, PublishBinding(k)
    PROVE  CompanionInv'
  <1> PICK b : b = sockets[k].binding BY Zenon
  <1> DEFINE c == b.call
  <1>1. /\ UNCHANGED <<lease, requests, owned, releases>> /\ sockets[k].stage = "publishing"
        /\ gate' = None
    BY Zenon DEF PublishBinding
  <1>t. /\ Types /\ ServeInv /\ GateInv /\ state \in SessionState /\ sockets[k] \in SocketRecord
        /\ PublishInv(k)
    BY Zenon DEF CompanionInv, Types
  <1>2. /\ c \in Calls /\ b.att \in Attachments /\ calls[c].op = "bind" /\ calls[c].stage # "begin"
        /\ calls[c].answer = None /\ state.bindings[c] = None
    BY <1>1, PublishedCall, Zenon
  <1>3. /\ \A j \in Connections \ {k} : sockets[j].stage # "publishing"
        /\ \A d \in Calls : ~Sends(d)
    <2>1. gate = k BY <1>1, <1>t, Zenon DEF GateInv
    <2> QED BY <1>t, <2>1, HolderSends, Zenon
  <1>4. ASSUME NEW kind \in {"bound", "refused"}, calls' = Told({c}, kind, 0),
               NEW st \in {"serving", "erring"},
               sockets' = [sockets EXCEPT ![k].stage = st, ![k].binding = None],
               PagesOnly, state'.bindings = state.bindings,
               \A a \in Attachments : PagesAt(a)' \subseteq PagesAt(a),
               kind = "bound" \/ \A a \in Attachments : \A g \in PagesAt(a)' : g.page # calls[c].page
        PROVE  CompanionInv'
    <2> DEFINE r == [sockets[k] EXCEPT !.stage = st, !.binding = None]
    <2>a. 0 \in 0..3 OBVIOUS
    <2>1. Hear({c}, kind, 0, calls') BY <1>4, <1>t, <2>a, ToldFields, Zenon
    <2>2. /\ \A d \in Calls \ {c} : calls'[d] = calls[d]
          /\ \A d \in Calls : SameBut(calls'[d], calls[d])
          /\ calls'[c].answer # None /\ calls'[c].answer.kind = kind
          /\ calls' \in [Calls -> CallRecord]
      BY <1>2, <2>1, Zenon DEF Hear, CallsType
    <2>3. sockets' = [sockets EXCEPT ![k] = r] BY <1>4, Zenon
    <2>4. r \in SocketRecord /\ r.stage = st BY <1>t, Zenon DEF SocketRecord
    <2> HIDE DEF r
    <2>5. /\ sockets' \in [Connections -> SocketRecord] /\ sockets'[k].stage = st
          /\ \A j \in Connections \ {k} : sockets'[j] = sockets[j]
      BY <1>t, <2>3, <2>4, Zenon DEF Types
    <2>6. \A j \in Connections : sockets'[j].stage # "publishing" BY <1>3, <2>5, Zenon
    <2>7. PastStays BY <2>5, Zenon DEF PastStays, Past
    <2>8. Types' BY <1>1, <1>4, <1>t, <2>2, <2>5, Zenon DEF Types, PagesOnly
    <2>9. GateInv'
      <3>1. \A d \in Calls : ~Sends(d)' BY <1>1, <1>3, <2>2, Zenon DEF Sends, SameBut
      <3> QED BY <1>1, <2>6, <3>1, GateFreed, Zenon
    <2>10. ASSUME NEW d \in Calls PROVE PathInv(d)' /\ NoDispatch(d) /\ BindKept(d)
      <3>1. PathInv(d) /\ SameBut(calls'[d], calls[d]) BY <2>2, Zenon DEF CompanionInv
      <3>2. PathInv(d)' BY <1>1, <3>1, Zenon DEF PathInv, SameBut
      <3>3. CASE d = c
        <4>1. calls[c].stage \notin {"sending", "awaiting"} BY <1>2, <3>1, <3>3, Zenon DEF PathInv, StagesOf
        <4>2. NoDispatch(c) BY <1>2, <2>2, <3>1, <3>3, <4>1, Zenon DEF NoDispatch, SameBut
        <4>3. BindKept(c) BY <1>2, <1>4, <3>1, <3>3, Zenon DEF BindKept, SameBut
        <4> QED BY <3>2, <3>3, <4>2, <4>3, Zenon
      <3>4. CASE d # c
        <4>1. calls'[d] = calls[d] BY <2>2, <3>4, Zenon
        <4> QED BY <1>4, <3>2, <4>1, SameCallQuiet, SameBindKept, Zenon
      <3> QED BY <3>3, <3>4, Zenon
    <2>11. \A d \in Calls : ClearedKept(d) BY <1>1, Zenon DEF ClearedKept
    <2>12. ASSUME NEW a \in Attachments, NEW g \in PagesAt(a)', NEW d \in Binders(g.page), Answerable(d)
           PROVE  Answerable(d)'
      <3>0. d \in Calls /\ calls[d].page = g.page BY Zenon DEF Binders
      <3>1. CASE d = c BY <1>4, <2>2, <3>0, <3>1, Zenon DEF Answerable
      <3>2. CASE d # c
        <4>1. calls'[d] = calls[d] BY <2>2, <3>0, <3>2, Zenon
        <4>2. \A j \in Connections : ~(sockets[j].stage = "publishing" /\ sockets[j].binding.call = d)
          BY <1>3, <3>2, Zenon
        <4> QED BY <2>12, <4>1, <4>2, Zenon DEF Answerable
      <3> QED BY <3>1, <3>2, Zenon
    <2>13. \A d \in Calls : RenewInv(d)' BY <1>3, <2>2 DEF RenewInv, Sends, SameBut
    <2>14. \A j \in Connections : PublishInv(j)' BY <2>6, Zenon DEF PublishInv
    <2>15. PageSide' BY <1>4, <2>10, <2>11, <2>12, <2>13, <2>14, PagesShrink, Zenon
    <2> QED BY <1>1, <1>4, <2>7, <2>8, <2>9, <2>10, <2>15, PageStep, Zenon
  <1>5. CASE /\ calls' = Told({b.call}, "bound", 0) /\ UNCHANGED state
             /\ sockets' = [sockets EXCEPT ![k].stage = "serving", ![k].binding = None]
    <2>1. PagesOnly BY <1>5, StateOnly, Zenon
    <2>2. \A a \in Attachments : PagesAt(a)' \subseteq PagesAt(a) BY <1>5, Zenon DEF PagesAt
    <2> QED BY <1>4, <1>5, <2>1, <2>2, Zenon
  <1>6. CASE /\ state' = [state EXCEPT !.grants[b.att] = IF Of(@, k) /\ @.pages = b.after
                              THEN [@ EXCEPT !.pages = b.before] ELSE @]
             /\ calls' = Told({b.call}, "refused", 0)
             /\ sockets' = [sockets EXCEPT ![k].stage = "erring", ![k].binding = None]
    <2> DEFINE v == [state.grants[b.att] EXCEPT !.pages = b.before]
    <2>1. Of(state.grants[b.att], k) /\ state.grants[b.att].pages = b.after /\ b # None
      BY <1>1, <1>t, Zenon DEF PublishInv
    <2>2. state' = [state EXCEPT !.grants[b.att] = v] BY <1>6, <1>t, <2>1, Zenon DEF SessionState
    <2>3. state.grants[b.att] \in GrantRecord BY <1>2, <1>t, <2>1, StateFields, Zenon DEF Of
    <2>4. b.before \in SUBSET GrantedPages BY <1>t, <2>1, Zenon DEF SocketRecord, Publication
    <2>5. v \in GrantRecord /\ v.conn = state.grants[b.att].conn /\ v.pages = b.before
      BY <2>3, <2>4, Zenon DEF GrantRecord
    <2>6. v # None BY <2>5, CompanionAssumption, Zenon
    <2> HIDE DEF v
    <2>7. /\ state' \in SessionState
          /\ state'.session = state.session /\ state'.pending = state.pending
          /\ state'.discovery = state.discovery /\ state'.orphaned = state.orphaned
          /\ state'.bindings = state.bindings /\ state'.grants[b.att] = v
          /\ \A a \in Attachments \ {b.att} : state'.grants[a] = state.grants[a]
      <3>1. v \in GrantRecord \cup {None} BY <2>5, Zenon
      <3> DEFINE t == [state EXCEPT !.grants[b.att] = v]
      <3>2. /\ t \in SessionState
            /\ t.session = state.session /\ t.discovery = state.discovery
            /\ t.bindings = state.bindings /\ t.orphaned = state.orphaned
            /\ t.pending = state.pending
            /\ t.grants[b.att] = v /\ \A a \in Attachments \ {b.att} : t.grants[a] = state.grants[a]
        BY <1>2, <1>t, <3>1, Zenon DEF SessionState
      <3>3. state' = t BY <2>2, Zenon
      <3> HIDE DEF t
      <3> QED BY <3>2, <3>3, Zenon
    <2>8. Of(v, state.session) BY <1>2, <1>t, <2>1, <2>5, <2>6, Zenon DEF ServeInv, OneConnectionServes, Of
    <2>9. PagesOnly
      <3>1. \A a \in Attachments : state'.grants[a] = None \/ Of(state'.grants[a], state.session)
        BY <1>t, <2>7, <2>8 DEF ServeInv, OneConnectionServes
      <3> QED BY <1>t, <2>7, <3>1 DEF PagesOnly, ServeInv, OneConnectionServes
    <2>10. PagesOf(state'.grants[b.att]) = b.before BY <2>5, <2>6, <2>7, Zenon DEF PagesOf
    <2>11. /\ \A a \in Attachments : PagesAt(a)' \subseteq PagesAt(a)
           /\ \A a \in Attachments : \A g \in PagesAt(a)' : g.page # calls[c].page
      BY <1>1, <2>7, <2>10, TakenOut
    <2> QED BY <1>4, <1>6, <2>7, <2>9, <2>11, Zenon
  <1> QED BY <1>5, <1>6, Zenon DEF PublishBinding

=============================================================================
