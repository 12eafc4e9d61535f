--------------------------- MODULE CompanionProofs ---------------------------
(***************************************************************************)
(* What holds of the companion's session for any number of connections,       *)
(* attachments, pages, tabs and calls, whatever fails and in whatever order:   *)
(* one connection serves, no tab or page is bound twice, no released or        *)
(* refused page stays bound, and no call takes another attempt's answer.       *)
(***************************************************************************)
EXTENDS CompanionBindings

-----------------------------------------------------------------------------
(* Releases.                                                                 *)

\* One release goes on and its page stays as it is: whatever it had is still there, and it
\* holds grant_updates no longer if it did.
LEMMA ReleaseMoves ==
    ASSUME CompanionInv, NEW d \in Calls, NEW r \in ReleaseRecord,
           owned' = [owned EXCEPT ![d] = r], UNCHANGED <<state, lease, sockets, requests, calls>>,
           releases' \in [Keys -> Calls \cup {None}],
           owned[d].stage # "none", r.stage \notin {"none", "publish"},
           r.key = owned[d].key, r.cleared = owned[d].cleared,
           r.stage = "gate" => r.conn \in Connections, r.stage = "seen" => r.seen \in Connections,
           \/ owned[d].stage # "publish" /\ gate' = gate
           \/ owned[d].stage = "publish" /\ gate' = None
    PROVE  CompanionInv'
  <1>t. Types /\ GateInv /\ PathInv(d) BY Zenon DEF CompanionInv
  <1>1. /\ owned' \in [Calls -> ReleaseRecord] /\ owned'[d] = r
        /\ \A e \in Calls \ {d} : owned'[e] = owned[e]
    BY <1>t, Zenon DEF Types
  <1>2. Types' BY <1>1, <1>t, Zenon DEF Types
  <1>3. PagesOnly /\ PastStays BY StateOnly, Zenon DEF PastStays, Past
  <1>4. ASSUME NEW e \in Calls PROVE NoDispatch(e) /\ NoBinding(e) BY SameCallQuiet, Zenon
  <1>5. ASSUME NEW e \in Calls PROVE PathInv(e)' /\ NotCleared(e)
    <2>1. PathInv(e) BY Zenon DEF CompanionInv
    <2>2. CASE e = d BY <1>1, <2>1, <2>2, Zenon DEF PathInv, NotCleared
    <2>3. CASE e # d BY <1>1, <2>1, <2>3, Zenon DEF PathInv, NotCleared
    <2> QED BY <2>2, <2>3, Zenon
  <1>6. calls[d].stage \notin {"grantSending", "renewSending"} BY <1>t, Zenon DEF PathInv, StagesOf
  <1>7. ~Sends(d)' BY <1>1, <1>6, Zenon DEF Sends
  <1>8. \A e \in Calls \ {d} : Sends(e)' <=> Sends(e) BY <1>1, Zenon DEF Sends
  <1>9. GateInv'
    <2>1. CASE owned[d].stage # "publish" /\ gate' = gate
      <3>1. ~Sends(d) BY <1>6, <2>1, Zenon DEF Sends
      <3> QED BY <1>7, <1>8, <1>t, <2>1, <3>1, GateKept, Zenon
    <2>2. CASE owned[d].stage = "publish" /\ gate' = None
      <3>1. gate = d BY <1>t, <2>2, Zenon DEF GateInv
      <3> QED BY <1>7, <1>8, <1>t, <2>2, <3>1, HolderSends, GateFreed, Zenon
    <2> QED BY <2>1, <2>2, Zenon
  <1>10. PageSide'
    <2>1. \A k \in Connections : SameSending(k) BY Zenon DEF SameSending
    <2>2. \A a \in Attachments : /\ SameGrant(state'.grants[a], state.grants[a])
                                 /\ SameGrant(state'.orphaned[a], state.orphaned[a])
      BY Zenon DEF SameGrant
    <2> QED BY <1>4, <1>5, <2>1, <2>2, PagesQuiet, Zenon
  <1> QED BY <1>2, <1>3, <1>4, <1>5, <1>9, <1>10, PageStep, Zenon

\* ReleaseIsTied, ReleaseGivesUp, PublishRelease, ReapRelease
LEMMA ReleaseTaskInv ==
    ASSUME CompanionInv, NEW d \in Calls,
           ReleaseIsTied(d) \/ ReleaseGivesUp(d) \/ PublishRelease(d) \/ ReapRelease(d)
    PROVE  CompanionInv'
  <1>t. /\ Types /\ PathInv(d) /\ owned[d] \in ReleaseRecord /\ releases \in [Keys -> Calls \cup {None}]
    BY Zenon DEF CompanionInv, Types
  <1>1. CASE ReleaseIsTied(d)
    <2> DEFINE r == [owned[d] EXCEPT !.stage = "gate", !.conn = owned[d].seen, !.seen = None]
    <2>1. /\ owned' = [owned EXCEPT ![d] = r] /\ owned[d].stage = "seen"
          /\ UNCHANGED <<state, gate, lease, sockets, requests, calls, releases>>
      BY <1>1, Zenon DEF ReleaseIsTied
    <2>2. owned[d].seen \in Connections BY <1>t, <2>1, Zenon DEF PathInv
    <2>3. /\ r \in ReleaseRecord /\ r.stage = "gate" /\ r.key = owned[d].key
          /\ r.cleared = owned[d].cleared /\ r.conn \in Connections
      BY <1>t, <2>2, Zenon DEF ReleaseRecord
    <2> HIDE DEF r
    <2> QED BY <1>t, <2>1, <2>3, ReleaseMoves, Zenon
  <1>2. CASE ReleaseGivesUp(d)
    <2> DEFINE r == [owned[d] EXCEPT !.stage = "ended", !.result = "err"]
    <2>1. /\ owned' = [owned EXCEPT ![d] = r] /\ owned[d].stage = "gate"
          /\ UNCHANGED <<state, gate, lease, sockets, requests, calls, releases>>
      BY <1>2, Zenon DEF ReleaseGivesUp
    <2>2. /\ r \in ReleaseRecord /\ r.stage = "ended" /\ r.key = owned[d].key
          /\ r.cleared = owned[d].cleared
      BY <1>t, Zenon DEF ReleaseRecord
    <2> HIDE DEF r
    <2> QED BY <1>t, <2>1, <2>2, ReleaseMoves, Zenon
  <1>3. CASE PublishRelease(d)
    <2> DEFINE st == IF Accepts(owned[d].conn) THEN "reap" ELSE "ended"
               res == IF Accepts(owned[d].conn) THEN "ok" ELSE "err"
               r == [owned[d] EXCEPT !.stage = st, !.result = res]
    <2>1. /\ owned' = [owned EXCEPT ![d] = r] /\ owned[d].stage = "publish" /\ gate' = None
          /\ UNCHANGED <<state, lease, sockets, requests, calls, releases>>
      BY <1>3, Zenon DEF PublishRelease
    <2>2. st \in {"reap", "ended"} /\ res \in {"ok", "err"} BY Zenon
    <2> HIDE DEF st, res
    <2>3. /\ r \in ReleaseRecord /\ r.stage = st /\ r.key = owned[d].key
          /\ r.cleared = owned[d].cleared
      BY <1>t, <2>2, Zenon DEF ReleaseRecord
    <2> HIDE DEF r
    <2> QED BY <1>t, <2>1, <2>2, <2>3, ReleaseMoves, Zenon
  <1>4. CASE ReapRelease(d)
    <2> DEFINE r == [owned[d] EXCEPT !.stage = "ended"]
    <2>1. /\ owned' = [owned EXCEPT ![d] = r] /\ owned[d].stage = "reap"
          /\ releases' = [releases EXCEPT ![owned[d].key] = IF @ = d THEN None ELSE @]
          /\ UNCHANGED <<state, gate, lease, sockets, requests, calls>>
      BY <1>4, Zenon DEF ReapRelease
    <2>2. /\ r \in ReleaseRecord /\ r.stage = "ended" /\ r.key = owned[d].key
          /\ r.cleared = owned[d].cleared
      BY <1>t, Zenon DEF ReleaseRecord
    <2>3. releases' \in [Keys -> Calls \cup {None}] BY <1>t, <2>1, Zenon
    <2> HIDE DEF r
    <2> QED BY <1>t, <2>1, <2>2, <2>3, ReleaseMoves, Zenon
  <1> QED BY <1>1, <1>2, <1>3, <1>4, Zenon

\* release_page_binding
LEMMA ReleaseInv ==
    ASSUME CompanionInv, NEW c \in Calls, release_page_binding(c)
    PROVE  CompanionInv'
  <1> DEFINE key == <<calls[c].att, calls[c].page>>
             current == releases[key]
             failed == current # None /\ owned[current].result = "err"
  <1>t. /\ Types /\ GateInv /\ PathInv(c) /\ calls[c] \in CallRecord /\ calls \in [Calls -> CallRecord]
        /\ owned \in [Calls -> ReleaseRecord] /\ releases \in [Keys -> Calls \cup {None}]
    BY Zenon DEF CompanionInv, Types
  <1>1. /\ UNCHANGED <<state, gate, lease, sockets, requests>> /\ calls[c].stage = "release"
    BY Zenon DEF release_page_binding
  <1>2. calls[c].op = "release" BY <1>1, StageOp, Zenon
  <1>3. owned[c].stage = "none" BY <1>1, <1>t, Zenon DEF PathInv
  <1>4. key \in Keys /\ current \in Calls \cup {None} BY <1>t, Zenon DEF PathInv, Keys
  <1>5. /\ Only(c, calls') /\ calls'[c].stage = "joined" /\ calls'[c].att = calls[c].att
        /\ calls'[c].answer = calls[c].answer /\ calls'[c].attempt = calls[c].attempt
    <2>1. PICK on \in Calls : calls' = [calls EXCEPT ![c].stage = "joined", ![c].on = on]
      BY <1>4, Zenon DEF release_page_binding
    <2> DEFINE x == [calls[c] EXCEPT !.stage = "joined", !.on = on]
    <2>2. calls' = [calls EXCEPT ![c] = x] BY <2>1, Zenon
    <2>3. /\ x \in CallRecord /\ x.op = calls[c].op /\ x.page = calls[c].page /\ x.stage = "joined"
          /\ x.att = calls[c].att /\ x.answer = calls[c].answer /\ x.attempt = calls[c].attempt
      BY <1>t, Zenon DEF CallRecord
    <2> HIDE DEF x
    <2>4. Only(c, calls') /\ calls'[c] = x BY <1>t, <2>2, <2>3, OneCall, Zenon
    <2> QED BY <2>3, <2>4, Zenon
  <1>6. /\ owned' \in [Calls -> ReleaseRecord] /\ releases' \in [Keys -> Calls \cup {None}]
        /\ \A d \in Calls \ {c} : owned'[d] = owned[d]
        /\ \/ owned'[c] = owned[c]
           \/ owned'[c].stage = "bind" /\ owned'[c].key = key /\ owned'[c].cleared = FALSE
    <2>1. CASE UNCHANGED <<owned, releases>> BY <1>t, <2>1, Zenon
    <2>2. CASE /\ owned' = [owned EXCEPT ![c] = [NoRelease EXCEPT !.stage = "bind", !.key = key,
                                !.republish = failed,
                                !.conn = IF failed THEN owned[current].conn ELSE None]]
               /\ releases' = [releases EXCEPT ![key] = c]
      <3>1. PICK f \in BOOLEAN : f = failed BY Zenon
      <3>2. PICK k \in Connections \cup {None} : k = IF failed THEN owned[current].conn ELSE None
        BY <1>4, <1>t, Zenon DEF ReleaseRecord
      <3> DEFINE r == [NoRelease EXCEPT !.stage = "bind", !.key = key, !.republish = f, !.conn = k]
      <3>3. owned' = [owned EXCEPT ![c] = r] BY <2>2, <3>1, <3>2, Zenon
      <3> HIDE DEF key, current, failed
      <3>4. r \in ReleaseRecord /\ r.stage = "bind" /\ r.key = key /\ r.cleared = FALSE
        BY <1>4, <3>1, <3>2, Zenon DEF ReleaseRecord, NoRelease
      <3> HIDE DEF r
      <3> QED BY <1>4, <1>t, <2>2, <3>3, <3>4, Zenon
    <2> QED BY <2>1, <2>2, Zenon DEF release_page_binding
  <1> HIDE DEF key, current, failed
  <1>7. calls'[c].op = calls[c].op /\ calls'[c].page = calls[c].page BY <1>5, Zenon DEF Only
  <1>8. Types' BY <1>1, <1>5, <1>6, <1>t, Zenon DEF Types, Only, CallsType
  <1>9. ASSUME NEW d \in Calls
        PROVE  /\ PathInv(d)' /\ NoDispatch(d) /\ NoBinding(d) /\ NotCleared(d)
               /\ Sends(d)' <=> Sends(d)
    <2>1. CASE d # c
      <3>1. calls'[d] = calls[d] /\ owned'[d] = owned[d] /\ PathInv(d)
        BY <1>5, <1>6, <2>1, Zenon DEF Only, CompanionInv
      <3>2. PathInv(d)' BY <3>1, Zenon DEF PathInv
      <3>3. NoDispatch(d) /\ NoBinding(d) BY <3>1, SameCallQuiet, Zenon
      <3> QED BY <3>1, <3>2, <3>3, Zenon DEF NotCleared, Sends
    <2>2. CASE d = c
      <3>1. PathInv(c)'
        BY <1>2, <1>3, <1>4, <1>5, <1>6, <1>7, <1>t, Zenon DEF PathInv, StagesOf
      <3>2. NoDispatch(c) /\ NoBinding(c) BY <1>2, <1>5, <1>7, Zenon DEF NoDispatch, NoBinding
      <3>3. NotCleared(c) BY <1>6, Zenon DEF NotCleared
      <3>4. ~Sends(c)' /\ ~Sends(c) BY <1>1, <1>3, <1>5, <1>6, Zenon DEF Sends
      <3> QED BY <2>2, <3>1, <3>2, <3>3, <3>4, Zenon
    <2> QED BY <2>1, <2>2, Zenon
  <1>10. GateInv' BY <1>1, <1>9, <1>t, GateKept, Zenon
  <1>11. PageSide'
    <2>1. \A k \in Connections : SameSending(k) BY <1>1, Zenon DEF SameSending
    <2>2. \A a \in Attachments : /\ SameGrant(state'.grants[a], state.grants[a])
                                 /\ SameGrant(state'.orphaned[a], state.orphaned[a])
      BY <1>1, Zenon DEF SameGrant
    <2>3. state'.bindings = state.bindings BY <1>1, Zenon
    <2> QED BY <1>9, <2>1, <2>2, <2>3, PagesQuiet, Zenon
  <1>12. PagesOnly /\ PastStays BY <1>1, StateOnly, Zenon DEF PastStays, Past
  <1> QED BY <1>1, <1>8, <1>9, <1>10, <1>11, <1>12, PageStep, Zenon

\* A release makes the bindings give up that wait for its page.
LEMMA ReleaseExpires ==
    ASSUME CompanionInv, NEW d \in Calls, NEW r \in ReleaseRecord, NEW key, key = owned[d].key,
           calls' = Told(Awaited(key), "expired", 0), owned' = [owned EXCEPT ![d] = r],
           UNCHANGED <<lease, sockets, requests, releases>>, BindingsMove(Awaited(key)),
           owned[d].stage \in {"bind", "gate"}, r.stage \notin {"none", "gate", "seen"},
           r.key = key, ClearedKept(d),
           \/ gate' = gate /\ r.stage # "publish"
           \/ gate = None /\ gate' = d /\ r.stage = "publish" /\ r.conn \in Connections
    PROVE  CompanionInv'
  <1> DEFINE S == Awaited(key)
  <1>t. Types /\ GateInv /\ PathInv(d) BY Zenon DEF CompanionInv
  <1>a. 0 \in 0..3 OBVIOUS
  <1>1. Hear(S, "expired", 0, calls') BY <1>a, <1>t, ToldFields, Zenon
  <1>2. \A c \in Calls \cap S : state.bindings[c] # None BY Zenon DEF Awaited
  <1> HIDE DEF S
  <1>3. SocketsMove BY <1>t, SocketsStay, Zenon
  <1>4. /\ owned' \in [Calls -> ReleaseRecord] /\ owned'[d] = r
        /\ \A e \in Calls \ {d} : owned'[e] = owned[e]
    BY <1>t, Zenon DEF Types
  <1>5. /\ releases' \in [Keys -> Calls \cup {None}] /\ gate' \in Connections \cup Calls \cup {None}
    BY <1>t, Zenon DEF Types
  <1>6. \A e \in Calls : SameBut(calls'[e], calls[e]) BY <1>1, Zenon DEF Hear
  <1>7. ASSUME NEW e \in Calls PROVE ClearedKept(e) /\ PathInv(e)'
    <2>1. PathInv(e) /\ SameBut(calls'[e], calls[e]) BY <1>6, Zenon DEF CompanionInv
    <2>2. CASE e = d
      <3>1. PathInv(d)' BY <1>4, <2>1, <2>2 DEF PathInv, SameBut
      <3> QED BY <2>2, <3>1, Zenon
    <2>3. CASE e # d
      <3>1. owned'[e] = owned[e] BY <1>4, <2>3, Zenon
      <3>2. PathInv(e)' BY <2>1, <3>1, Zenon DEF PathInv, SameBut
      <3> QED BY <3>1, <3>2, Zenon DEF ClearedKept
    <2> QED BY <2>2, <2>3, Zenon
  <1>8. GateInv'
    <2>1. \A e \in Calls \ {d} : Sends(e)' <=> Sends(e) BY <1>4, <1>6, Zenon DEF Sends, SameBut
    <2>2. calls[d].stage \notin {"grantSending", "renewSending"} BY <1>t, Zenon DEF PathInv, StagesOf
    <2>3. CASE gate' = gate /\ r.stage # "publish"
      <3>1. ~Sends(d)' /\ ~Sends(d) BY <1>4, <1>6, <2>2, <2>3, Zenon DEF Sends, SameBut
      <3> QED BY <1>t, <2>1, <2>3, <3>1, GateKept, Zenon
    <2>4. CASE gate = None /\ gate' = d /\ r.stage = "publish"
      <3>1. Sends(d)' BY <1>4, <2>4, Zenon DEF Sends
      <3> QED BY <1>t, <2>1, <2>4, <3>1, GateTaken, Zenon
    <2> QED BY <2>3, <2>4, Zenon
  <1>9. BindingsMove(S) BY Zenon DEF S
  <1> QED BY <1>1, <1>2, <1>3, <1>4, <1>5, <1>7, <1>8, <1>9, BindingStep, Zenon

\* The bindings are the ones that waited, but for those that give up.
LEMMA ExpiredBindings ==
    ASSUME CompanionInv, NEW key, state' = expire_page_bindings(state, key)
    PROVE  /\ BindingsMove(Awaited(key))
           /\ state'.grants = state.grants /\ state'.orphaned = state.orphaned
           /\ \A c \in Calls : state'.bindings[c] # None =>
                 key # <<state'.bindings[c].att, state'.bindings[c].page>>
  <1>t. state \in SessionState /\ ServeInv BY Zenon DEF CompanionInv, Types
  <1>1. /\ state' \in SessionState
        /\ state'.session = state.session /\ state'.discovery = state.discovery
        /\ state'.grants = state.grants /\ state'.orphaned = state.orphaned
        /\ state'.pending = state.pending
        /\ \A c \in Calls : state'.bindings[c] = IF c \in Awaited(key) THEN None ELSE state.bindings[c]
    BY <1>t, ExpireFields, Zenon
  <1>2. \A a \in Attachments : state.grants[a] = None \/ Of(state.grants[a], state.session)
    BY <1>t, Zenon DEF ServeInv, OneConnectionServes
  <1>3. BindingsMove(Awaited(key)) BY <1>1, <1>2, Zenon DEF BindingsMove
  <1>4. ASSUME NEW c \in Calls, state'.bindings[c] # None
        PROVE  key # <<state'.bindings[c].att, state'.bindings[c].page>>
    BY <1>1, <1>4, Zenon DEF Awaited
  <1> QED BY <1>1, <1>3, <1>4, Zenon

\* ReleaseLooksUp
LEMMA ReleaseLooksUpInv ==
    ASSUME CompanionInv, NEW d \in Calls, ReleaseLooksUp(d)
    PROVE  CompanionInv'
  <1>t. /\ Types /\ PathInv(d) /\ owned[d] \in ReleaseRecord /\ state \in SessionState
        /\ releases \in [Keys -> Calls \cup {None}]
    BY Zenon DEF CompanionInv, Types
  <1> PICK key : key = owned[d].key BY Zenon
  <1>1. /\ UNCHANGED <<gate, lease, sockets, requests, releases>> /\ owned[d].stage = "bind"
    BY Zenon DEF ReleaseLooksUp
  <1>2. key \in Keys BY <1>1, <1>t, Zenon DEF PathInv
  <1>3. CASE /\ owned[d].conn # None /\ UNCHANGED <<state, calls>>
             /\ owned' = [owned EXCEPT ![d].stage = "gate"]
    <2> DEFINE r == [owned[d] EXCEPT !.stage = "gate"]
    <2>1. owned' = [owned EXCEPT ![d] = r] BY <1>3, Zenon
    <2>2. /\ r \in ReleaseRecord /\ r.stage = "gate" /\ r.key = owned[d].key
          /\ r.cleared = owned[d].cleared /\ r.conn \in Connections
      BY <1>3, <1>t, Zenon DEF ReleaseRecord
    <2> HIDE DEF r
    <2> QED BY <1>1, <1>3, <1>t, <2>1, <2>2, ReleaseMoves, Zenon
  <1>4. CASE /\ state.grants[key[1]] # None /\ UNCHANGED <<state, calls>>
             /\ owned' = [owned EXCEPT ![d].stage = "seen", ![d].seen = state.grants[key[1]].conn]
    <2> PICK k : k = state.grants[key[1]].conn BY Zenon
    <2> DEFINE r == [owned[d] EXCEPT !.stage = "seen", !.seen = k]
    <2>1. owned' = [owned EXCEPT ![d] = r] BY <1>4, Zenon
    <2>2. k \in Connections
      <3>1. state.grants[key[1]] \in GrantRecord BY <1>2, <1>4, <1>t, StateFields, Zenon DEF Keys
      <3> QED BY <3>1, Zenon DEF GrantRecord
    <2>3. /\ r \in ReleaseRecord /\ r.stage = "seen" /\ r.key = owned[d].key
          /\ r.cleared = owned[d].cleared /\ r.seen = k
      BY <1>t, <2>2, Zenon DEF ReleaseRecord
    <2> HIDE DEF r
    <2>4. /\ owned[d].stage \notin {"none", "publish"} /\ r.stage \notin {"none", "publish"}
          /\ (r.stage = "gate" => r.conn \in Connections) /\ (r.stage = "seen" => r.seen \in Connections)
          /\ gate' = gate /\ releases' = releases
          /\ UNCHANGED <<state, lease, sockets, requests, calls>>
      BY <1>1, <1>4, <2>2, <2>3, Zenon
    <2> QED BY <1>t, <2>1, <2>3, <2>4, ReleaseMoves, Zenon
  <1>5. CASE /\ state' = expire_page_bindings(state, key)
             /\ calls' = Told(Awaited(key), "expired", 0)
             /\ owned' = [owned EXCEPT ![d].stage = "reap", ![d].result = "ok"]
    <2> DEFINE r == [owned[d] EXCEPT !.stage = "reap", !.result = "ok"]
    <2>1. owned' = [owned EXCEPT ![d] = r] BY <1>5, Zenon
    <2>2. /\ r \in ReleaseRecord /\ r.stage = "reap" /\ r.key = key /\ r.cleared = owned[d].cleared
      BY <1>t, Zenon DEF ReleaseRecord
    <2> HIDE DEF r
    <2>3. owned'[d] = r BY <1>t, <2>1, Zenon DEF Types
    <2>4. ClearedKept(d) BY <2>2, <2>3, Zenon DEF ClearedKept
    <2>5. BindingsMove(Awaited(key)) BY <1>5, ExpiredBindings, Zenon
    <2> QED BY <1>1, <1>5, <2>1, <2>2, <2>4, <2>5, ReleaseExpires, Zenon
  <1> QED BY <1>3, <1>4, <1>5, Zenon DEF ReleaseLooksUp

\* A release has cleared its page when the grant that is there does not have it.
LEMMA PageCleared ==
    ASSUME CompanionInv, NEW d \in Calls, owned'[d].key \in Keys,
           state'.orphaned = state.orphaned, state.grants[owned'[d].key[1]] # None,
           \A g \in PagesOf(state'.grants[owned'[d].key[1]]) : g.page # owned'[d].key[2],
           \A c \in Calls : state'.bindings[c] # None =>
              owned'[d].key # <<state'.bindings[c].att, state'.bindings[c].page>>
    PROVE  ClearedKept(d)
  <1> PICK key : key = owned'[d].key BY Zenon
  <1>1. key[1] \in Attachments /\ key = <<key[1], key[2]>> BY DEF Keys
  <1>2. state.orphaned[key[1]] = None BY <1>1, Zenon DEF CompanionInv, ServeInv, OneConnectionServes
  <1>3. PagesAt(key[1])' = PagesOf(state'.grants[key[1]]) BY <1>2, Zenon DEF PagesAt, PagesOf
  <1>4. ASSUME NEW a \in Attachments, NEW g \in PagesAt(a)', key = <<a, g.page>> PROVE FALSE
    <2>1. a = key[1] /\ g.page = key[2] BY <1>4
    <2> QED BY <1>3, <1>4, <2>1, Zenon
  <1> QED BY <1>4, Zenon DEF ClearedKept

\* ReleasePage
LEMMA ReleasePageInv ==
    ASSUME CompanionInv, NEW d \in Calls, ReleasePage(d)
    PROVE  CompanionInv'
  <1>t. /\ Types /\ ServeInv /\ PathInv(d) /\ owned[d] \in ReleaseRecord /\ state \in SessionState
        /\ owned \in [Calls -> ReleaseRecord]
    BY Zenon DEF CompanionInv, Types
  <1> PICK key : key = owned[d].key BY Zenon
  <1> PICK grant : grant = state.grants[key[1]] BY Zenon
  <1> PICK s : s = expire_page_bindings(state, key) BY Zenon
  <1> DEFINE finished(result) == [owned EXCEPT ![d].result = result,
                                               ![d].stage = IF result = "ok" THEN "reap" ELSE "ended"]
  <1>1. /\ UNCHANGED <<lease, sockets, requests, releases>> /\ owned[d].stage = "gate"
        /\ gate = None /\ calls' = Told(Awaited(key), "expired", 0)
    BY Zenon DEF ReleasePage
  <1>2. key \in Keys /\ key[1] \in Attachments /\ owned[d].conn \in Connections
    BY <1>1, <1>t, Zenon DEF PathInv, Keys
  <1>3. ASSUME NEW res \in {"ok", "err"}, owned' = finished(res), state' = s, UNCHANGED gate
        PROVE  CompanionInv'
    <2> PICK st : st = IF res = "ok" THEN "reap" ELSE "ended" BY Zenon
    <2> DEFINE r == [owned[d] EXCEPT !.result = res, !.stage = st]
    <2>1. owned' = [owned EXCEPT ![d] = r] BY <1>3, Zenon
    <2>2. st \in {"reap", "ended"} BY <1>3, Zenon
    <2>3. /\ r \in ReleaseRecord /\ r.stage = st /\ r.key = key /\ r.cleared = owned[d].cleared
      BY <1>3, <1>t, <2>2, Zenon DEF ReleaseRecord
    <2> HIDE DEF r
    <2>4. owned'[d] = r BY <1>t, <2>1, Zenon
    <2>5. ClearedKept(d) BY <2>3, <2>4, Zenon DEF ClearedKept
    <2>6. BindingsMove(Awaited(key)) BY <1>3, ExpiredBindings, Zenon
    <2> QED BY <1>1, <1>3, <2>1, <2>2, <2>3, <2>5, <2>6, ReleaseExpires, Zenon
  <1>4. CASE /\ Of(grant, owned[d].conn) /\ ~HasPage(grant.pages, key[2])
             /\ owned' = [finished("ok") EXCEPT ![d].cleared = TRUE] /\ state' = s /\ UNCHANGED gate
    <2> DEFINE r == [owned[d] EXCEPT !.result = "ok", !.stage = "reap", !.cleared = TRUE]
    <2>1. owned' = [owned EXCEPT ![d] = r] BY <1>4, <1>t, Zenon
    <2>2. /\ r \in ReleaseRecord /\ r.stage = "reap" /\ r.key = key
      BY <1>t, Zenon DEF ReleaseRecord
    <2> HIDE DEF r
    <2>3. owned'[d] = r BY <1>t, <2>1, Zenon
    <2>4. /\ BindingsMove(Awaited(key))
          /\ state'.grants = state.grants /\ state'.orphaned = state.orphaned
          /\ \A c \in Calls : state'.bindings[c] # None =>
                key # <<state'.bindings[c].att, state'.bindings[c].page>>
      BY <1>4, ExpiredBindings, Zenon
    <2>5. ClearedKept(d)
      <3>1. grant # None /\ \A g \in PagesOf(grant) : g.page # key[2]
        BY <1>4, Zenon DEF Of, HasPage, PagesOf
      <3> QED BY <1>2, <2>2, <2>3, <2>4, <3>1, PageCleared, Zenon
    <2> QED BY <1>1, <1>4, <2>1, <2>2, <2>4, <2>5, ReleaseExpires, Zenon
  <1>5. CASE /\ Of(grant, owned[d].conn) /\ state.session = grant.conn
             /\ owned' = [owned EXCEPT ![d].stage = "publish", ![d].cleared = TRUE]
             /\ state' = [s EXCEPT !.grants[key[1]].pages = {g \in @ : g.page # key[2]}]
             /\ gate' = d
    <2> PICK left : left = {g \in grant.pages : g.page # key[2]} BY Zenon
    <2> DEFINE r == [owned[d] EXCEPT !.stage = "publish", !.cleared = TRUE]
               v == [grant EXCEPT !.pages = left]
    <2>1. owned' = [owned EXCEPT ![d] = r] BY <1>5, Zenon
    <2>2. /\ r \in ReleaseRecord /\ r.stage = "publish" /\ r.key = key /\ r.conn = owned[d].conn
      BY <1>t, Zenon DEF ReleaseRecord
    <2> HIDE DEF r
    <2>3. owned'[d] = r BY <1>t, <2>1, Zenon
    <2>4. grant \in GrantRecord BY <1>2, <1>5, <1>t, StateFields, Zenon DEF Of
    <2>5. left \in SUBSET GrantedPages /\ left \subseteq grant.pages BY <2>4, Zenon DEF GrantRecord
    <2>6. v \in GrantRecord /\ v.conn = grant.conn /\ v.pages = left BY <2>4, <2>5, Zenon DEF GrantRecord
    <2>7. v # None BY <2>6, CompanionAssumption, Zenon
    <2>8. /\ s \in SessionState
          /\ s.session = state.session /\ s.discovery = state.discovery
          /\ s.grants = state.grants /\ s.orphaned = state.orphaned /\ s.pending = state.pending
          /\ \A c \in Calls : s.bindings[c] = IF c \in Awaited(key) THEN None ELSE state.bindings[c]
      BY <1>t, ExpireFields, Zenon
    <2>9. state' = [s EXCEPT !.grants[key[1]] = v]
      <3>1. s.grants[key[1]] = grant BY <2>8, Zenon
      <3>2. left = {g \in s.grants[key[1]].pages : g.page # key[2]} BY <3>1, Zenon
      <3> QED BY <1>2, <1>5, <2>8, <3>1, <3>2, Zenon DEF SessionState
    <2> HIDE DEF v
    <2>10. /\ state' \in SessionState
           /\ state'.session = state.session /\ state'.discovery = state.discovery
           /\ state'.bindings = s.bindings /\ state'.orphaned = state.orphaned
           /\ state'.pending = state.pending /\ state'.grants[key[1]] = v
           /\ \A a \in Attachments \ {key[1]} : state'.grants[a] = state.grants[a]
      BY <1>2, <2>6, <2>8, <2>9, Zenon DEF SessionState
    <2>11. BindingsMove(Awaited(key))
      <3>1. ASSUME NEW a \in Attachments
            PROVE  /\ state'.grants[a] = None \/ Of(state'.grants[a], state.session)
                   /\ PagesOf(state'.grants[a]) \subseteq PagesOf(state.grants[a])
        <4>1. CASE a = key[1] BY <1>5, <2>5, <2>6, <2>7, <2>10, <4>1, Zenon DEF Of, PagesOf
        <4>2. CASE a # key[1] BY <1>t, <2>10, <4>2 DEF ServeInv, OneConnectionServes
        <4> QED BY <4>1, <4>2, Zenon
      <3> QED BY <1>1, <2>8, <2>10, <3>1, Zenon DEF BindingsMove
    <2>12. ClearedKept(d)
      <3>1. grant # None /\ \A g \in PagesOf(v) : g.page # key[2]
        BY <1>5, <2>6, <2>7, ZenonT(30) DEF Of, PagesOf
      <3>2. ASSUME NEW c \in Calls, state'.bindings[c] # None
            PROVE  key # <<state'.bindings[c].att, state'.bindings[c].page>>
        BY <2>8, <2>10, <3>2 DEF Awaited
      <3> QED BY <1>2, <2>2, <2>3, <2>10, <3>1, <3>2, PageCleared, Zenon
    <2> QED BY <1>1, <1>2, <1>5, <2>1, <2>2, <2>11, <2>12, ReleaseExpires, Zenon
  <1>6. \/ \E res \in {"ok", "err"} : owned' = finished(res) /\ state' = s /\ UNCHANGED gate
        \/ /\ Of(grant, owned[d].conn) /\ ~HasPage(grant.pages, key[2])
           /\ owned' = [finished("ok") EXCEPT ![d].cleared = TRUE] /\ state' = s /\ UNCHANGED gate
        \/ /\ Of(grant, owned[d].conn) /\ state.session = grant.conn
           /\ owned' = [owned EXCEPT ![d].stage = "publish", ![d].cleared = TRUE]
           /\ state' = [s EXCEPT !.grants[key[1]].pages = {g \in @ : g.page # key[2]}]
           /\ gate' = d
    BY Zenon DEF ReleasePage
  <1> QED BY <1>3, <1>4, <1>5, <1>6, Zenon

-----------------------------------------------------------------------------
(* Connections come and go.                                                  *)

\* A step that changes who serves: the calls S that listened to what goes are told, and
\* nothing is left of it but pages.
Leaves(S) ==
    /\ Hear(S, "closed", 0, calls') /\ gate = None /\ gate' = None
    /\ \A c \in Calls \cap S :
          state.bindings[c] # None \/ (state.pending[c] # None /\ state.pending[c].heard)
    /\ \A c \in Calls : state'.bindings[c] = None
                           \/ (c \notin S /\ state'.bindings[c] = state.bindings[c])
    /\ requests' \subseteq requests
    /\ PastStays /\ \A k \in Connections : SameSending(k)
    /\ \A d \in Calls : /\ owned'[d].stage = owned[d].stage /\ owned'[d].key = owned[d].key
                        /\ owned'[d].conn = owned[d].conn /\ owned'[d].seen = owned[d].seen
                        /\ owned'[d].cleared = owned[d].cleared
    /\ \A a \in Attachments : PagesAt(a)' \subseteq PagesAt(a)
    /\ \/ /\ calls' = calls /\ state'.session = state.session
          /\ \A c \in Calls : state'.pending[c] = state.pending[c]
       \/ /\ \A k \in Connections : Past(k) => k # state'.session
          /\ \A c \in Calls : state'.pending[c] = None

\* The commands of a connection that goes are told so; no command and no request is on one
\* that comes.
LEMMA LeavesCommands ==
    ASSUME CompanionInv, NEW S, Leaves(S)
    PROVE  (\A c \in Calls : DispatchInv(c)') /\ (\A r \in requests' : RequestInv(r)')
  <1>t. Types /\ PastStays /\ Hear(S, "closed", 0, calls') /\ requests' \subseteq requests
    BY Zenon DEF CompanionInv, Leaves
  <1>1. CASE /\ calls' = calls /\ state'.session = state.session
             /\ \A c \in Calls : state'.pending[c] = state.pending[c]
    <2>1. \A c \in Calls : NoDispatch(c) BY <1>1, SameCallQuiet, Zenon
    <2>2. ASSUME NEW c \in Calls PROVE DispatchInv(c)'
      <3>1. PathInv(c) /\ DispatchInv(c) BY Zenon DEF CompanionInv
      <3> QED BY <1>1, <1>t, <2>1, <3>1, DispatchKept, Zenon
    <2>3. ASSUME NEW r \in requests' PROVE RequestInv(r)'
      <3>1. r \in requests /\ r.call \in Calls /\ RequestInv(r) BY <1>t, Zenon DEF CompanionInv, Types
      <3> QED BY <1>1, <1>t, <2>1, <3>1, RequestKept, Zenon
    <2> QED BY <2>2, <2>3, Zenon
  <1>2. CASE /\ \A k \in Connections : Past(k) => k # state'.session
             /\ \A c \in Calls : state'.pending[c] = None
    <2>1. ASSUME NEW c \in Calls PROVE DispatchInv(c)'
      <3>1. PathInv(c) /\ DispatchInv(c) /\ SameBut(calls'[c], calls[c])
        BY <1>t, Zenon DEF CompanionInv, Hear
      <3>2. calls[c].stage \in {"sending", "awaiting"}
              => calls[c].conn \in Connections /\ Past(calls[c].conn)
        BY <3>1, Zenon DEF PathInv, DispatchInv
      <3>3. calls[c].stage \in {"sending", "awaiting"}
              => /\ calls[c].conn # state'.session
                 /\ sockets'[calls[c].conn].stage \notin {"new", "registering"}
        BY <1>2, <1>t, <3>2, Zenon DEF PastStays, Past
      <3>4. /\ calls'[c].op = "dispatch" /\ calls'[c].stage \notin {"sending", "awaiting", "done"}
                 => calls'[c].answer = None
            /\ calls'[c].answer # None /\ calls'[c].answer.kind = "answered"
                 => calls'[c].answer.attempt = calls'[c].attempt
        <4>1. CASE c \in S
          <5>1. calls'[c].answer.kind = "closed" BY <1>t, <4>1, Zenon DEF Hear
          <5>2. \/ state.bindings[c] # None
                \/ state.pending[c] # None /\ state.pending[c].heard
            BY <4>1, Zenon DEF Leaves
          <5>3. calls[c].op # "dispatch" \/ calls[c].stage \in {"sending", "awaiting"}
            BY <3>1, <5>2, AwaitedCall, Zenon DEF DispatchInv
          <5> QED BY <3>1, <5>1, <5>3, Zenon DEF SameBut
        <4>2. CASE c \notin S
          <5>1. calls'[c] = calls[c] BY <1>t, <4>2, Zenon DEF Hear
          <5> QED BY <3>1, <5>1, Zenon DEF DispatchInv
        <4> QED BY <4>1, <4>2, Zenon
      <3>5. calls'[c].op = "dispatch" /\ calls'[c].stage \in {"granting", "grantSending"}
              => calls'[c].attempt = 2
        BY <3>1, Zenon DEF DispatchInv, SameBut
      <3>6. calls'[c].stage \in {"sending", "awaiting"}
              => /\ calls'[c].conn # state'.session
                 /\ sockets'[calls'[c].conn].stage \notin {"new", "registering"}
        <4>1. calls'[c].conn = calls[c].conn /\ calls'[c].stage = calls[c].stage BY <3>1, Zenon DEF SameBut
        <4> QED BY <3>3, <4>1, Zenon
      <3> QED BY <1>2, <3>4, <3>5, <3>6, Zenon DEF DispatchInv, Past
    <2>2. ASSUME NEW r \in requests' PROVE RequestInv(r)'
      <3>1. r \in requests /\ r.call \in Calls /\ r.conn \in Connections /\ RequestInv(r)
        BY <1>t, Zenon DEF CompanionInv, Types
      <3>2. SameBut(calls'[r.call], calls[r.call]) BY <1>t, <3>1, Zenon DEF Hear
      <3>3. Past(r.conn)' /\ r.conn # state'.session BY <1>2, <1>t, <3>1, Zenon DEF PastStays, RequestInv
      <3>4. \A q \in requests' : q.call = r.call /\ q.attempt = r.attempt => q = r
        BY <1>t, <3>1, Zenon DEF RequestInv
      <3> QED BY <3>1, <3>2, <3>3, <3>4, Zenon DEF RequestInv, SameBut
    <2> QED BY <2>1, <2>2, Zenon
  <1> QED BY <1>1, <1>2, Zenon DEF Leaves

LEMMA LeavesInv ==
    ASSUME CompanionInv, Types', ServeInv', NEW S, Leaves(S)
    PROVE  CompanionInv'
  <1>t. Types /\ GateInv BY Zenon DEF CompanionInv
  <1>1. \A c \in Calls : SameBut(calls'[c], calls[c]) BY Zenon DEF Leaves, Hear
  <1>2. /\ gate' = gate /\ gate = None /\ Hear(S, "closed", 0, calls')
        /\ \A k \in Connections : SameSending(k)
        /\ \A a \in Attachments : PagesAt(a)' \subseteq PagesAt(a)
    BY Zenon DEF Leaves
  <1>3. ASSUME NEW c \in Calls PROVE PathInv(c)' /\ (Sends(c)' <=> Sends(c)) /\ ClearedKept(c)
    <2>1. /\ owned'[c].stage = owned[c].stage /\ owned'[c].key = owned[c].key
          /\ owned'[c].conn = owned[c].conn /\ owned'[c].seen = owned[c].seen
          /\ owned'[c].cleared = owned[c].cleared /\ SameBut(calls'[c], calls[c]) /\ PathInv(c)
      BY <1>1, Zenon DEF Leaves, CompanionInv
    <2>2. PathInv(c)' BY <2>1, Zenon DEF PathInv, SameBut
    <2>3. Sends(c)' <=> Sends(c) BY <2>1, Zenon DEF Sends, SameBut
    <2> QED BY <2>1, <2>2, <2>3, Zenon DEF ClearedKept
  <1>4. GateInv' BY <1>2, <1>3, <1>t, GateKept, Zenon DEF SameSending
  <1>n. /\ \A k \in Connections : sockets[k].stage # "publishing"
        /\ \A c \in Calls : ~Sends(c)
    BY <1>2, <1>t, NobodySends, Zenon
  <1>5. PageSide'
    <2>1. \A c \in Calls \cap S : calls[c].op = "bind" => state.bindings[c] # None
      <3>1. \A c \in Calls : state.pending[c] # None => calls[c].op = "dispatch"
        BY Zenon DEF CompanionInv, DispatchInv
      <3> QED BY <3>1, Zenon DEF Leaves
    <2>2. \A c \in Calls : state'.bindings[c] = None
                             \/ (c \notin S /\ state'.bindings[c] = state.bindings[c])
      BY Zenon DEF Leaves
    <2>3. \A c \in Calls : BindKept(c) /\ (calls[c].op = "bind" /\ Answerable(c) => Answerable(c)')
      BY <1>2, <2>1, <2>2, HeardBindings, Zenon
    <2>4. \A p : \A c \in Binders(p) : c \in Calls /\ calls[c].op = "bind" BY Zenon DEF Binders
    <2>5. \A c \in Calls : RenewInv(c)' BY <1>1, <1>n, Zenon DEF RenewInv, Sends, SameBut
    <2>6. \A k \in Connections : PublishInv(k)' BY <1>2, <1>n, Zenon DEF PublishInv, SameSending
    <2> QED BY <1>2, <1>3, <2>3, <2>4, <2>5, <2>6, PagesShrink, Zenon
  <1>6. (\A c \in Calls : DispatchInv(c)') /\ (\A r \in requests' : RequestInv(r)')
    BY LeavesCommands, Zenon
  <1> QED BY <1>3, <1>4, <1>5, <1>6, Assembled, Zenon

\* The releases tied to a connection are answered, and are what they were otherwise.
LEMMA RetireFields ==
    ASSUME Types, NEW k, retire_binding_releases(k)
    PROVE  /\ owned' \in [Calls -> ReleaseRecord] /\ releases' \in [Keys -> Calls \cup {None}]
           /\ \A d \in Calls : /\ owned'[d].stage = owned[d].stage /\ owned'[d].key = owned[d].key
                               /\ owned'[d].conn = owned[d].conn /\ owned'[d].seen = owned[d].seen
                               /\ owned'[d].cleared = owned[d].cleared
  <1>t. owned \in [Calls -> ReleaseRecord] /\ releases \in [Keys -> Calls \cup {None}] BY Zenon DEF Types
  <1>1. ASSUME NEW d \in Calls
        PROVE  LET r == [owned[d] EXCEPT !.result = "err"]
               IN  /\ r \in ReleaseRecord /\ r.stage = owned[d].stage /\ r.key = owned[d].key
                   /\ r.conn = owned[d].conn /\ r.seen = owned[d].seen
                   /\ r.cleared = owned[d].cleared
    <2>1. owned[d] \in ReleaseRecord BY <1>t, Zenon
    <2> QED BY <2>1, Zenon DEF ReleaseRecord
  <1> DEFINE hit(d) == \E key \in Retired(k) : releases[key] = d
  <1>2. owned' = [d \in Calls |-> IF hit(d) THEN [owned[d] EXCEPT !.result = "err"] ELSE owned[d]]
    BY Zenon DEF retire_binding_releases
  <1> HIDE DEF hit
  <1>3. owned' \in [Calls -> ReleaseRecord] BY <1>1, <1>2, <1>t, Zenon
  <1>4. ASSUME NEW d \in Calls
        PROVE  owned'[d] = IF hit(d) THEN [owned[d] EXCEPT !.result = "err"] ELSE owned[d]
    BY <1>2, Zenon
  <1>5. releases' \in [Keys -> Calls \cup {None}] BY <1>t, Zenon DEF retire_binding_releases
  <1> QED BY <1>1, <1>3, <1>4, <1>5, Zenon

\* When the connection that serves is removed, its grants are kept aside and nothing else
\* is left.
LEMMA NothingLeft ==
    ASSUME CompanionInv, NEW s \in SessionState, s.discovery = state.discovery,
           s.grants = state.grants, s.orphaned = state.orphaned, s.pending = state.pending,
           s.bindings = state.bindings, NEW t, t = remove_connection_state(s, state.session)
    PROVE  /\ t \in SessionState /\ t.session = s.session /\ t.discovery = None
           /\ \A a \in Attachments : t.grants[a] = None /\ PagesOf(t.orphaned[a]) \subseteq PagesAt(a)
           /\ \A c \in Calls : t.pending[c] = None /\ t.bindings[c] = None
  <1> PICK k : k = state.session BY Zenon
  <1>1. /\ t \in SessionState /\ t.session = s.session
        /\ t.discovery = IF Of(s.discovery, k) THEN None ELSE s.discovery
        /\ \A a \in Attachments :
              /\ t.grants[a] = IF Of(s.grants[a], k) THEN None ELSE s.grants[a]
              /\ t.orphaned[a] = IF Of(s.grants[a], k) THEN s.grants[a] ELSE s.orphaned[a]
        /\ \A c \in Calls :
              /\ t.pending[c] = IF Of(s.pending[c], k) THEN None ELSE s.pending[c]
              /\ t.bindings[c] = IF Of(s.bindings[c], k) THEN None ELSE s.bindings[c]
    BY RemoveFields
  <1>2. /\ s.discovery = None \/ Of(s.discovery, k)
        /\ \A a \in Attachments : s.grants[a] = None \/ Of(s.grants[a], k)
        /\ \A c \in Calls : /\ s.pending[c] = None \/ Of(s.pending[c], k)
                            /\ s.bindings[c] = None \/ Of(s.bindings[c], k)
    BY Zenon DEF CompanionInv, ServeInv, OneConnectionServes
  <1>3. \A a \in Attachments : t.orphaned[a] \in {state.grants[a], state.orphaned[a]} BY <1>1
  <1>4. \A a \in Attachments : PagesOf(t.orphaned[a]) \subseteq PagesAt(a) BY <1>3, Zenon DEF PagesAt
  <1> QED BY <1>1, <1>2, <1>4

\* Who listens to a connection waits for a binding or hears of a command.
LEMMA ListenersWait ==
    ASSUME NEW k
    PROVE  \A c \in Calls \cap Listeners(k) :
              state.bindings[c] # None \/ (state.pending[c] # None /\ state.pending[c].heard)
  BY Zenon DEF Listeners, Of

\* register
LEMMA RegisterInv ==
    ASSUME CompanionInv, NEW k \in Connections, register(k)
    PROVE  CompanionInv'
  <1> PICK previous : previous = state.session BY Zenon
  <1> PICK cleared : cleared = remove_connection_state(state, previous) BY Zenon
  <1> DEFINE r == [sockets[k] EXCEPT !.stage = "closingPrevious", !.previous = previous]
             S == Listeners(previous)
  <1>t. /\ Types /\ ServeInv /\ state \in SessionState /\ sockets[k] \in SocketRecord
        /\ previous \in Connections \cup {None}
    BY StateFields, Zenon DEF CompanionInv, Types
  <1>1. /\ UNCHANGED <<gate, lease, requests>> /\ sockets[k].stage = "registering" /\ gate = None
        /\ state' = [readopt_grants(cleared, k) EXCEPT !.session = k]
        /\ calls' = Told(S, "closed", 0) /\ retire_binding_releases(previous)
        /\ sockets' = [sockets EXCEPT ![k] = r]
    BY Zenon DEF register
  <1>2. /\ cleared \in SessionState /\ cleared.discovery = None
        /\ \A a \in Attachments : cleared.grants[a] = None
                                   /\ PagesOf(cleared.orphaned[a]) \subseteq PagesAt(a)
        /\ \A c \in Calls : cleared.pending[c] = None /\ cleared.bindings[c] = None
    BY <1>t, NothingLeft, Zenon
  <1>3. /\ state' \in SessionState /\ state'.session = k /\ state'.discovery = None
        /\ \A c \in Calls : state'.pending[c] = None /\ state'.bindings[c] = None
        /\ \A a \in Attachments :
              /\ state'.orphaned[a] = None
              /\ \/ /\ cleared.orphaned[a] # None /\ state'.grants[a] # None
                    /\ state'.grants[a].conn = k
                    /\ state'.grants[a].pages = cleared.orphaned[a].pages
                 \/ state'.grants[a] = None
    <2>1. /\ state' \in SessionState /\ state'.session = k
          /\ state'.discovery = cleared.discovery /\ state'.pending = cleared.pending
          /\ state'.bindings = cleared.bindings
          /\ \A a \in Attachments :
                /\ state'.orphaned[a] = None
                /\ \/ /\ cleared.orphaned[a] # None /\ state'.grants[a] # None
                      /\ state'.grants[a].conn = k
                      /\ state'.grants[a].pages = cleared.orphaned[a].pages
                   \/ state'.grants[a] = cleared.grants[a]
      BY <1>1, <1>2, ReadoptFields
    <2> QED BY <1>2, <2>1
  <1>4. /\ r \in SocketRecord /\ r.stage = "closingPrevious" BY <1>t, Zenon DEF SocketRecord
  <1> HIDE DEF r
  <1>5. /\ sockets' \in [Connections -> SocketRecord] /\ PastStays
        /\ \A i \in Connections : SameSending(i)
    BY <1>1, <1>4, <1>t, OneSocket, Zenon
  <1>6. ~Past(k) /\ sockets'[k].stage = "closingPrevious" BY <1>1, <1>4, <1>t, Zenon DEF Types, Past
  <1>a. 0 \in 0..3 OBVIOUS
  <1>7. Hear(S, "closed", 0, calls') BY <1>1, <1>a, <1>t, ToldFields, Zenon
  <1>8. /\ owned' \in [Calls -> ReleaseRecord] /\ releases' \in [Keys -> Calls \cup {None}]
        /\ \A d \in Calls : /\ owned'[d].stage = owned[d].stage /\ owned'[d].key = owned[d].key
                            /\ owned'[d].conn = owned[d].conn /\ owned'[d].seen = owned[d].seen
                            /\ owned'[d].cleared = owned[d].cleared
    BY <1>1, <1>t, RetireFields, Zenon
  <1>9. Types' BY <1>1, <1>3, <1>5, <1>7, <1>8, <1>t, Zenon DEF Types, Hear, CallsType
  <1>10. ServeInv'
    <2>1. \A a \in Attachments : state'.grants[a] = None \/ Of(state'.grants[a], k) BY <1>3, Zenon DEF Of
    <2>2. OneConnectionServes' BY <1>3, <2>1, Zenon DEF OneConnectionServes, Of
    <2> QED BY <1>3, <1>6, <2>2, Zenon DEF ServeInv, Past
  <1>11. \A a \in Attachments : PagesAt(a)' \subseteq PagesAt(a)
    <2>1. \A a \in Attachments : PagesAt(a)' \subseteq PagesOf(cleared.orphaned[a])
      BY <1>3, Zenon DEF PagesAt, PagesOf
    <2> QED BY <1>2, <2>1, Zenon
  <1>12. \A c \in Calls \cap S :
            state.bindings[c] # None \/ (state.pending[c] # None /\ state.pending[c].heard)
    BY ListenersWait, Zenon
  <1> HIDE DEF S
  <1>13. \A j \in Connections : Past(j) => j # state'.session BY <1>3, <1>6, Zenon
  <1>14. Leaves(S) BY <1>1, <1>3, <1>5, <1>7, <1>8, <1>11, <1>12, <1>13, Zenon DEF Leaves
  <1> QED BY <1>9, <1>10, <1>14, LeavesInv, Zenon

\* unregister
LEMMA UnregisterInv ==
    ASSUME CompanionInv, NEW k \in Connections, unregister(k)
    PROVE  CompanionInv'
  <1> PICK s : s = IF state.session = k THEN [state EXCEPT !.session = None] ELSE state BY Zenon
  <1> DEFINE r == [sockets[k] EXCEPT !.stage = "gone"]
             S == Listeners(k)
  <1>t. /\ Types /\ ServeInv /\ state \in SessionState /\ sockets[k] \in SocketRecord
    BY Zenon DEF CompanionInv, Types
  <1>1. /\ UNCHANGED <<gate, lease>> /\ sockets[k].stage = "leaving" /\ gate = None
        /\ requests' = {q \in requests : q.conn # k}
        /\ state' = remove_connection_state(s, k)
        /\ calls' = Told(S, "closed", 0) /\ retire_binding_releases(k)
        /\ sockets' = [sockets EXCEPT ![k] = r]
    BY Zenon DEF unregister
  <1>2. r \in SocketRecord /\ r.stage = "gone" BY <1>t, Zenon DEF SocketRecord
  <1> HIDE DEF r
  <1>3. /\ sockets' \in [Connections -> SocketRecord] /\ PastStays
        /\ \A i \in Connections : SameSending(i)
    BY <1>1, <1>2, <1>t, OneSocket, Zenon
  <1>a. 0 \in 0..3 OBVIOUS
  <1>4. Hear(S, "closed", 0, calls') BY <1>1, <1>a, <1>t, ToldFields, Zenon
  <1>5. /\ owned' \in [Calls -> ReleaseRecord] /\ releases' \in [Keys -> Calls \cup {None}]
        /\ \A d \in Calls : /\ owned'[d].stage = owned[d].stage /\ owned'[d].key = owned[d].key
                            /\ owned'[d].conn = owned[d].conn /\ owned'[d].seen = owned[d].seen
                            /\ owned'[d].cleared = owned[d].cleared
    BY <1>1, <1>t, RetireFields, Zenon
  <1>6. \A c \in Calls \cap S :
            state.bindings[c] # None \/ (state.pending[c] # None /\ state.pending[c].heard)
    BY ListenersWait, Zenon
  <1>7. state' \in SessionState => Types'
    BY <1>1, <1>3, <1>4, <1>5, <1>t, Zenon DEF Types, Hear, CallsType
  <1>8. CASE state.session = k
    <2>1. /\ s \in SessionState /\ s.session = None /\ s.discovery = state.discovery
          /\ s.grants = state.grants /\ s.orphaned = state.orphaned /\ s.pending = state.pending
          /\ s.bindings = state.bindings
      BY <1>8, <1>t, Zenon DEF SessionState
    <2>2. /\ state' \in SessionState /\ state'.session = None /\ state'.discovery = None
          /\ \A a \in Attachments : state'.grants[a] = None
                                     /\ PagesOf(state'.orphaned[a]) \subseteq PagesAt(a)
          /\ \A c \in Calls : state'.pending[c] = None /\ state'.bindings[c] = None
      <3>1. state' = remove_connection_state(s, state.session) BY <1>1, <1>8, Zenon
      <3> QED BY <2>1, <3>1, NothingLeft, ZenonT(30)
    <2>3. ServeInv' BY <2>2, Zenon DEF ServeInv, OneConnectionServes, Of
    <2>4. \A a \in Attachments : PagesAt(a)' \subseteq PagesAt(a) BY <2>2, Zenon DEF PagesAt, PagesOf
    <2>5. \A j \in Connections : j # state'.session BY <2>2, CompanionAssumption, Zenon
    <2> HIDE DEF S
    <2>6. Leaves(S) BY <1>1, <1>3, <1>4, <1>5, <1>6, <2>2, <2>4, <2>5, Zenon DEF Leaves
    <2> QED BY <1>7, <2>2, <2>3, <2>6, LeavesInv, Zenon
  <1>9. CASE state.session # k
    <2>1. s = state BY <1>9, Zenon
    <2>2. /\ ~Of(state.discovery, k)
          /\ \A a \in Attachments : ~Of(state.grants[a], k)
          /\ \A c \in Calls : ~Of(state.pending[c], k) /\ ~Of(state.bindings[c], k)
      BY <1>9, <1>t, Zenon DEF ServeInv, OneConnectionServes, Of
    <2>3. /\ state' \in SessionState /\ state'.session = state.session
          /\ state'.discovery = state.discovery
          /\ \A a \in Attachments : /\ state'.grants[a] = state.grants[a]
                                    /\ state'.orphaned[a] = state.orphaned[a]
          /\ \A c \in Calls : /\ state'.pending[c] = state.pending[c]
                              /\ state'.bindings[c] = state.bindings[c]
      <3>0. state' = remove_connection_state(state, k) BY <1>1, <2>1, Zenon
      <3>1. /\ state' \in SessionState /\ state'.session = state.session
            /\ state'.discovery = IF Of(state.discovery, k) THEN None ELSE state.discovery
            /\ \A a \in Attachments :
                  /\ state'.grants[a] = IF Of(state.grants[a], k) THEN None ELSE state.grants[a]
                  /\ state'.orphaned[a] = IF Of(state.grants[a], k) THEN state.grants[a] ELSE state.orphaned[a]
            /\ \A c \in Calls :
                  /\ state'.pending[c] = IF Of(state.pending[c], k) THEN None ELSE state.pending[c]
                  /\ state'.bindings[c] = IF Of(state.bindings[c], k) THEN None ELSE state.bindings[c]
        BY <1>t, <3>0, RemoveFields
      <3> QED BY <2>2, <3>1, Zenon
    <2>4. Types' BY <1>7, <2>3, Zenon
    <2>5. S = {} BY <2>2, Zenon DEF Listeners
    <2>6. calls' = calls
      <3>1. calls' \in [Calls -> CallRecord] /\ calls \in [Calls -> CallRecord]
        BY <1>4, <1>t, Zenon DEF Hear, CallsType, Types
      <3>2. \A c \in Calls : calls'[c] = calls[c] BY <1>4, <2>5, Zenon DEF Hear
      <3> QED BY <3>1, <3>2
    <2>7. ServeInv'
      <3>1. /\ state'.discovery = None \/ Of(state'.discovery, state.session)
            /\ \A a \in Attachments :
                  /\ state'.grants[a] = None \/ Of(state'.grants[a], state.session)
                  /\ state'.orphaned[a] # None => state.orphaned[a] # None
            /\ \A c \in Calls :
                  /\ state'.pending[c] = None \/ Of(state'.pending[c], state.session)
                  /\ state'.bindings[c] = None \/ Of(state'.bindings[c], state.session)
        BY <1>t, <2>3 DEF ServeInv, OneConnectionServes
      <3> QED BY <1>3, <1>t, <2>3, <2>4, <3>1, ServeKept, Zenon
    <2>8. \A a \in Attachments : PagesAt(a)' \subseteq PagesAt(a) BY <2>3, Zenon DEF PagesAt
    <2> HIDE DEF S
    <2>9. Leaves(S) BY <1>1, <1>3, <1>4, <1>5, <1>6, <2>3, <2>5, <2>6, <2>8, Zenon DEF Leaves
    <2> QED BY <2>4, <2>7, <2>9, LeavesInv, Zenon
  <1> QED BY <1>8, <1>9, Zenon

-----------------------------------------------------------------------------
(* The invariant.                                                            *)

FirstStages == {"discovering", "resolve", "begin", "release", "granting", "renewing"}

\* What Asked makes has the type of a call.
LEMMA FirstRecord ==
    ASSUME NEW o \in Operations, NEW a \in Attachments, NEW p \in Pages,
           NEW st \in FirstStages
    PROVE  [op |-> o, stage |-> st, att |-> a, page |-> p, conn |-> None, pages |-> {},
            inTime |-> FALSE, attempt |-> 1, on |-> None, answer |-> None] \in CallRecord
  <1>1. 1 \in 1..3 OBVIOUS
  <1> QED BY <1>1, Zenon DEF CallRecord, FirstStages

\* A session starts with nothing registered and every call at its first step.
LEMMA InitInv == Init => CompanionInv
  <1> SUFFICES ASSUME Init PROVE CompanionInv BY Zenon
  <1> PICK w \in Work : calls = [c \in Calls |-> Asked(w[c])] BY Zenon DEF Init
  <1>i. /\ state = EmptyState /\ gate = None /\ lease = [a \in Attachments |-> "none"]
        /\ sockets = [k \in Connections |-> NewSocket] /\ requests = {}
        /\ owned = [c \in Calls |-> NoRelease] /\ releases = [key \in Keys |-> None]
    BY Zenon DEF Init
  <1>1. ASSUME NEW c \in Calls
        PROVE  /\ calls[c] \in CallRecord /\ calls[c].att \in Attachments /\ calls[c].page \in Pages
               /\ calls[c].stage \in StagesOf(calls[c].op) /\ calls[c].answer = None
               /\ calls[c].stage \in {"discovering", "resolve", "begin", "release", "granting",
                                      "renewing"}
               /\ calls[c].op = "dispatch" => calls[c].stage = "resolve"
    <2>1. w[c] \in [op : Operations, att : Attachments, page : Pages] BY CompanionAssumption, Zenon
    <2>2. calls[c] = Asked(w[c]) BY Zenon
    <2> PICK o \in Operations, a \in Attachments, p \in Pages :
               w[c].op = o /\ w[c].att = a /\ w[c].page = p
      BY <2>1, Zenon
    <2> DEFINE st == FirstStage[o]
    <2>3. /\ st \in {"discovering", "resolve", "begin", "release", "granting", "renewing"}
          /\ st \in StagesOf(o) /\ (o = "dispatch" => st = "resolve")
      BY DEF FirstStage, Operations, StagesOf
    <2> DEFINE rec == [op |-> o, stage |-> st, att |-> a, page |-> p, conn |-> None,
                       pages |-> {}, inTime |-> FALSE, attempt |-> 1, on |-> None,
                       answer |-> None]
    <2>4. calls[c] = rec BY <2>2, Zenon DEF Asked
    <2>5. st \in FirstStages BY <2>3, Zenon DEF FirstStages
    <2> HIDE DEF st
    <2>6. rec \in CallRecord BY <2>5, FirstRecord, Zenon
    <2>r. rec.op = o /\ rec.stage = st /\ rec.att = a /\ rec.page = p /\ rec.answer = None BY Zenon
    <2> HIDE DEF rec
    <2>7. /\ calls[c].op = o /\ calls[c].stage = st /\ calls[c].att = a /\ calls[c].page = p
          /\ calls[c].answer = None /\ calls[c] \in CallRecord
      BY <2>4, <2>6, <2>r, Zenon
    <2> QED BY <2>3, <2>7, Zenon
  <1>2. NewSocket \in SocketRecord /\ NewSocket.stage = "new" BY Zenon DEF NewSocket, SocketRecord
  <1>3. NoRelease \in ReleaseRecord /\ NoRelease.stage = "none" /\ NoRelease.cleared = FALSE
    BY Zenon DEF NoRelease, ReleaseRecord
  <1>4. EmptyState \in SessionState BY Zenon DEF EmptyState, SessionState
  <1>5. /\ state.session = None /\ state.discovery = None
        /\ \A a \in Attachments : state.grants[a] = None /\ state.orphaned[a] = None
        /\ \A c \in Calls : state.pending[c] = None /\ state.bindings[c] = None
    BY <1>i, Zenon DEF EmptyState
  <1>6. /\ \A k \in Connections : sockets[k].stage = "new"
        /\ \A c \in Calls : owned[c].stage = "none" /\ owned[c].cleared = FALSE
    BY <1>2, <1>3, <1>i, Zenon
  <1>7. calls \in [Calls -> CallRecord] BY <1>1, Zenon
  <1>8. Types BY <1>2, <1>3, <1>4, <1>7, <1>i, Zenon DEF Types
  <1>9. ServeInv BY <1>5, Zenon DEF ServeInv, OneConnectionServes
  <1>10. GateInv BY <1>1, <1>6, <1>i, CompanionAssumption DEF GateInv
  <1>11. \A a \in Attachments : PagesAt(a) = {} BY <1>5, Zenon DEF PagesAt, PagesOf
  <1>12. PagesInv BY <1>6, <1>11, Zenon DEF PagesInv
  <1>13. ASSUME NEW c \in Calls PROVE PathInv(c) /\ DispatchInv(c) /\ RenewInv(c) /\ BindInv(c)
    <2>1. PathInv(c) BY <1>1, <1>6, Zenon DEF PathInv
    <2>2. DispatchInv(c) BY <1>1, <1>5, Zenon DEF DispatchInv
    <2>3. RenewInv(c) /\ BindInv(c) BY <1>1, <1>5, Zenon DEF RenewInv, BindInv
    <2> QED BY <2>1, <2>2, <2>3, Zenon
  <1>14. \A k \in Connections : PublishInv(k) BY <1>6, Zenon DEF PublishInv
  <1>15. \A r \in requests : RequestInv(r) BY <1>i, Zenon
  <1> QED BY <1>8, <1>9, <1>10, <1>12, <1>13, <1>14, <1>15, Zenon DEF CompanionInv

\* A step that changes nothing keeps the invariant.
LEMMA StutterInv == ASSUME CompanionInv, UNCHANGED vars PROVE CompanionInv'
  <1>t. Types BY Zenon DEF CompanionInv
  <1>u. UNCHANGED <<state, gate, lease, sockets, requests, calls, owned, releases>> BY Zenon DEF vars
  <1>1. SameState /\ SocketsMove BY <1>t, <1>u, StateStays, SocketsStay, Zenon DEF CompanionInv
  <1> QED BY <1>1, <1>u, WakeInv, Zenon

\* Every step keeps the invariant.
LEMMA NextInv == ASSUME CompanionInv, [Next]_vars PROVE CompanionInv'
  <1>1. ASSUME NEW k \in Connections, SocketStep(k) PROVE CompanionInv'
    BY <1>1, RegisterInv, ClosePreviousInv, ResendGrantsInv, SocketInv, UnregisterInv,
       PublishBindingInv, Zenon DEF SocketStep
  <1>2. ASSUME NEW k \in Connections, SocketEvent(k) PROVE CompanionInv'
    BY <1>2, QueueInv, RecordDiscoveryInv, CompleteInv, RecordGivesUpInv, RecordBindingInv,
       Zenon DEF SocketEvent
  <1>3. ASSUME NEW c \in Calls, CallStep(c) PROVE CompanionInv'
    BY <1>3, WaitForDiscoveryInv, SynthesizeInv, ResolveInv, WaitForGrantInv, SubmitInv,
       SendActionInv, ReceiveAnswerInv, AbandonInv, GateTimesOutInv, GrantAttachmentInv,
       PublishGrantInv, RenewGrantInv, PublishRenewalInv, BeginInv, TicketInv, RemoveBindingInv,
       ReleaseInv, ReleaseAnsweredInv, Zenon DEF CallStep
  <1>4. ASSUME NEW d \in Calls, ReleaseStep(d) PROVE CompanionInv'
    BY <1>4, ReleaseLooksUpInv, ReleaseTaskInv, ReleasePageInv, Zenon DEF ReleaseStep
  <1>5. ASSUME Disturbance PROVE CompanionInv'
    BY <1>5, SocketInv, QueueInv, PendingLapsesInv, GrantExpiresInv, LeaseEndsInv,
       Zenon DEF Disturbance
  <1> QED BY <1>1, <1>2, <1>3, <1>4, <1>5, StutterInv, Zenon DEF Next, Step

\* The inductive invariant holds in every reachable state.
THEOREM CompanionInvariant == Spec => []CompanionInv
  BY InitInv, NextInv, PTL DEF Spec

-----------------------------------------------------------------------------
(* What the companion's session promises.                                    *)

\* Every variable has its type, and grant_updates is held by somebody who is about to
\* send a grant.
THEOREM CompanionTypes == Spec => []TypeOK
  <1>1. CompanionInv => TypeOK
    <2> SUFFICES ASSUME CompanionInv PROVE TypeOK BY Zenon
    <2>1. Types /\ GateInv BY Zenon DEF CompanionInv
    <2>2. gate \in Senders \cup {None} BY <2>1, Zenon DEF Types, GateInv, Senders
    <2> QED BY <2>1, <2>2, Zenon DEF Types, TypeOK
  <1> QED BY <1>1, CompanionInvariant, PTL

\* What the coordinator works with is of the one connection that is registered, however
\* connections replace each other and in whatever order their sockets end.
THEOREM OneServes == Spec => []OneConnectionServes
  <1>1. CompanionInv => OneConnectionServes BY Zenon DEF CompanionInv, ServeInv
  <1> QED BY <1>1, CompanionInvariant, PTL

\* No tab is bound to two pages and no page to two tabs, in no two attachments.
THEOREM PagesAreBoundOnce == Spec => []PageBoundOnce
  <1>1. CompanionInv => PageBoundOnce
    <2> SUFFICES ASSUME CompanionInv, NEW x \in AllPages, NEW y \in AllPages,
                        x[2].target = y[2].target \/ x[2].page = y[2].page
                 PROVE  x = y
      BY Zenon DEF PageBoundOnce
    <2>1. x \in Attachments \X GrantedPages /\ y \in Attachments \X GrantedPages BY Zenon DEF AllPages
    <2>2. x = <<x[1], x[2]>> /\ y = <<y[1], y[2]>> BY <2>1
    <2>3. /\ x[1] \in Attachments /\ y[1] \in Attachments
          /\ x[2] \in PagesAt(x[1]) /\ y[2] \in PagesAt(y[1])
      BY <2>1, Zenon DEF AllPages, PagesAt
    <2>4. x[1] = y[1] /\ x[2] = y[2] BY <2>3 DEF CompanionInv, PagesInv
    <2> QED BY <2>2, <2>4, Zenon
  <1> QED BY <1>1, CompanionInvariant, PTL

\* A command that is sent again over a new connection does not take the answer to its
\* earlier attempt.
THEOREM AnswersFit == Spec => []AnswerIsForThisAttempt
  <1>1. CompanionInv => AnswerIsForThisAttempt
    BY Zenon DEF CompanionInv, DispatchInv, AnswerIsForThisAttempt
  <1> QED BY <1>1, CompanionInvariant, PTL

\* A page that some call asked for is bound only for a call that was told so or is not
\* answered yet: a report whose publication fails leaves nothing behind.
THEOREM FailedBindingsLeaveNothing == Spec => []FailedBindingLeavesNoPage
  <1>1. CompanionInv => FailedBindingLeavesNoPage
    <2> SUFFICES ASSUME CompanionInv, NEW x \in AllPages, Binders(x[2].page) # {}
                 PROVE  \E c \in Binders(x[2].page) :
                           calls[c].answer = None \/ calls[c].answer.kind = "bound"
      BY Zenon DEF FailedBindingLeavesNoPage
    <2>1. x[1] \in Attachments /\ x[2] \in PagesAt(x[1]) BY Zenon DEF AllPages, PagesAt
    <2>2. \E c \in Binders(x[2].page) : Answerable(c) BY <2>1, Zenon DEF CompanionInv, PagesInv
    <2> QED BY <2>2, Zenon DEF Answerable
  <1> QED BY <1>1, CompanionInvariant, PTL

\* A page that a release took out comes back only when it is asked for again.
THEOREM ReleasesLast == Spec => []ReleasedPageStaysUnbound
  <1>1. CompanionInv => ReleasedPageStaysUnbound
    <2> SUFFICES ASSUME CompanionInv, NEW d \in Calls, owned[d].cleared, NEW x \in AllPages
                 PROVE  <<x[1], x[2].page>> # owned[d].key
      BY Zenon DEF ReleasedPageStaysUnbound
    <2>1. x[1] \in Attachments /\ x[2] \in PagesAt(x[1]) BY Zenon DEF AllPages, PagesAt
    <2> QED BY <2>1, Zenon DEF CompanionInv, PagesInv
  <1> QED BY <1>1, CompanionInvariant, PTL

\* A request leaves the ones that are open only by its answer, by the end of its
\* connection, or when it becomes late.
LEMMA RequestsStay ==
    ASSUME [Next]_vars
    PROVE  \/ requests \subseteq requests'
           \/ \E k \in Connections : unregister(k) \/ \E r \in requests : complete_command(k, r)
           \/ \E c \in Calls : PendingLapses(c)
  <1> DEFINE Goal == \/ requests \subseteq requests'
                     \/ \E k \in Connections :
                           unregister(k) \/ \E r \in requests : complete_command(k, r)
                     \/ \E c \in Calls : PendingLapses(c)
  <1>1. ASSUME NEW k \in Connections, SocketStep(k) PROVE Goal
    BY <1>1, Zenon DEF SocketStep, register, ClosePrevious, ResendGrants, SendErrorAndClose,
       PublishBinding
  <1>2. ASSUME NEW k \in Connections, SocketEvent(k) PROVE Goal
    BY <1>2, Zenon DEF SocketEvent, QueueDrains, WriterEnds, record_discovery,
       RecordBindingGivesUp, record_page_binding
  <1>3. ASSUME NEW c \in Calls, CallStep(c) PROVE Goal
    <2> USE DEF CallStep
    <2>1. SendAction(c) => Goal BY Zenon DEF SendAction
    <2>2. ASSUME \/ wait_for_discovery(c) \/ synthesize_empty_if_paired(c)
                 \/ resolve_attachment(c) \/ wait_for_readopted_grant(c) \/ Submit(c)
                 \/ ReceiveAnswer(c) \/ AbandonAction(c)
          PROVE Goal
      BY <2>2, Zenon DEF wait_for_discovery, synthesize_empty_if_paired, resolve_attachment,
         wait_for_readopted_grant, Submit, ReceiveAnswer, AbandonAction
    <2>3. ASSUME \/ GateTimesOut(c) \/ grant_attachment(c) \/ PublishGrant(c)
                 \/ renew_grant(c) \/ PublishRenewal(c)
          PROVE Goal
      BY <2>3, Zenon DEF GateTimesOut, grant_attachment, PublishGrant, renew_grant, PublishRenewal
    <2>4. ASSUME \/ begin_page_binding(c) \/ TicketAnswered(c) \/ TicketEnds(c)
                 \/ remove_binding(c) \/ release_page_binding(c) \/ ReleaseAnswered(c)
          PROVE Goal
      BY <2>4, Zenon DEF begin_page_binding, TicketAnswered, TicketEnds, remove_binding,
         release_page_binding, ReleaseAnswered
    <2> QED BY <1>3, <2>1, <2>2, <2>3, <2>4, Zenon
  <1>4. ASSUME NEW d \in Calls, ReleaseStep(d) PROVE Goal
    BY <1>4, Zenon DEF ReleaseStep, ReleaseLooksUp, ReleaseIsTied, ReleaseGivesUp, ReleasePage,
       PublishRelease, ReapRelease
  <1>5. ASSUME Disturbance PROVE Goal
    BY <1>5, Zenon DEF Disturbance, Connect, SocketEnds, QueueFills, SocketBreaks, GrantExpires,
       LeaseEnds
  <1>6. ASSUME UNCHANGED vars PROVE Goal BY <1>6, Zenon DEF vars
  <1> HIDE DEF Goal
  <1>7. Goal BY <1>1, <1>2, <1>3, <1>4, <1>5, <1>6, Zenon DEF Next, Step
  <1> QED BY <1>7, Zenon DEF Goal

\* Answering an action whose caller gave up leaves the connection serving as long as the
\* tombstone of the action is kept, for every number of commands, retries and connections.
THEOREM LateAnswersAreHarmless == Spec => LateAnswerIsHarmless
  <1> DEFINE Harmless(r) ==
        (/\ r.conn = state.session /\ sockets[r.conn].stage = "serving"
         /\ ~r.late
         /\ \A q \in requests' : <<q.call, q.conn>> # <<r.call, r.conn>>)
            => sockets'[r.conn].stage = "serving"
  <1>1. ASSUME CompanionInv, [Next]_vars PROVE [\A r \in requests : Harmless(r)]_vars
    <2> SUFFICES ASSUME NEW r \in requests,
                        r.conn = state.session, sockets[r.conn].stage = "serving", ~r.late,
                        \A q \in requests' : <<q.call, q.conn>> # <<r.call, r.conn>>
                 PROVE  sockets'[r.conn].stage = "serving"
      BY Zenon
    <2>t. Types /\ RequestInv(r) BY <1>1, Zenon DEF CompanionInv
    <2>r. r \in [conn : Connections, call : Calls, attempt : 1..3, late : BOOLEAN]
      BY <2>t, Zenon DEF Types
    <2>1. r \notin requests' BY Zenon
    <2>2. ASSUME NEW k \in Connections, unregister(k) PROVE FALSE
      <3>1. r.conn # k BY <2>2, Zenon DEF unregister
      <3> QED BY <2>1, <2>2, <3>1, Zenon DEF unregister
    <2>3. ASSUME NEW c \in Calls, PendingLapses(c) PROVE FALSE
      <3> DEFINE q == [r EXCEPT !.late = @ \/ (r.call = c /\ r.conn = state.pending[c].conn)]
      <3>1. q \in requests' BY <2>3, Zenon DEF PendingLapses
      <3>2. q.call = r.call /\ q.conn = r.conn BY <2>r, Zenon
      <3> HIDE DEF q
      <3> QED BY <3>1, <3>2, Zenon
    <2>4. ASSUME NEW k \in Connections, NEW e \in requests, complete_command(k, e)
          PROVE  sockets' = sockets
      <3> DEFINE s == purge_expired_pending(state)
      <3>1. e = r /\ k = r.conn BY <2>1, <2>4, Zenon DEF complete_command
      <3>2. Of(state.pending[r.call], r.conn)
              /\ (state.pending[r.call].heard \/ ~state.pending[r.call].lapsed)
        BY <2>t, Zenon DEF RequestInv
      <3>3. s.pending[r.call] = state.pending[r.call]
        BY <2>r, <2>t, <3>2, PurgeFields DEF Types, Of
      <3> QED BY <2>4, <3>1, <3>2, <3>3, Zenon DEF complete_command
    <2>5. ~(requests \subseteq requests') BY <2>1, Zenon
    <2> QED BY <1>1, <2>2, <2>3, <2>4, <2>5, RequestsStay, Zenon
  <1>2. Spec => [][Next]_vars BY PTL DEF Spec
  <1>3. CompanionInv /\ [Next]_vars => [\A r \in requests : Harmless(r)]_vars BY <1>1, Zenon
  <1> QED BY <1>3, CompanionInvariant, PTL DEF Spec, LateAnswerIsHarmless
=============================================================================
