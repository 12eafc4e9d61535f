---------------------------- MODULE SessionsProofs ----------------------------
(***************************************************************************)
(* Why every registered session has an owner and the ownership registry never *)
(* holds more than its capacity, for any number of requests, sessions and     *)
(* connections, whatever request is dropped at whatever await.  The pool      *)
(* plays no part in it: whatever its steps do, they leave the registries and  *)
(* the operations alone.                                                      *)
(***************************************************************************)
EXTENDS Sessions, FiniteSetTheorems, TLAPS

OpRecord ==
    [kind : {"none", "create", "open", "delete"},
     at : {"none", "lease", "insert", "record", "use", "revive", "invalidate", "relaunch",
           "again", "retry", "release", "unregister", "pages", "disown"},
     via : Vias \cup {"none"},
     session : Sessions \cup {None},
     page : Pages \cup {None}]

\* An operation that has reserved the ownership of its session.
Reserves(o) == o.kind = "create" /\ o.at \in {"lease", "insert"}

\* An operation that took its session out of the session registry.
Unregisters(o) == o.kind = "delete" /\ o.at \in {"pages", "disown"}

\* A session that is being created is new to everybody else: nobody owns it, and no
\* other operation, creating or deleting, is about it.
Fresh(c) ==
    Reserves(op[c]) =>
        /\ op[c].session \in minted \ owned
        /\ \A d \in Calls \ {c} : op[d].session # op[c].session

\* What an operation is about was minted, and what a delete has unregistered stays so:
\* only the creation of the session could register it again.
Settled(c) ==
    /\ op[c].session \in minted \cup {None}
    /\ Unregisters(op[c]) => op[c].session \notin registered

RegistryInv ==
    /\ op \in [Calls -> OpRecord]
    /\ registered \subseteq owned
    /\ owned \subseteq minted /\ minted \subseteq Sessions
    /\ IsFiniteSet(owned)
    /\ \A c \in Calls : Fresh(c) /\ Settled(c)
    /\ Cardinality(owned) + Cardinality(Reservations) <= Capacity

-----------------------------------------------------------------------------
(* How one operation moves.                                                  *)

\* The reservations are the operations that reserve, and there are finitely many.
LEMMA ReservationsFinite ==
    /\ Reservations = {c \in Calls : Reserves(op[c])}
    /\ IsFiniteSet(Reservations) /\ Cardinality(Reservations) \in Nat
    /\ Reservations' = {c \in Calls : Reserves(op'[c])}
  <1>1. Reservations = {c \in Calls : Reserves(op[c])} /\ Reservations \subseteq Calls
    BY DEF Reservations, Reserves
  <1>2. IsFiniteSet(Calls) BY SessionsAssumption
  <1>3. IsFiniteSet(Reservations) BY <1>1, <1>2, FS_Subset
  <1>4. Cardinality(Reservations) \in Nat BY <1>3, FS_CardinalityType
  <1>5. Reservations' = {c \in Calls : Reserves(op'[c])} BY DEF Reservations, Reserves
  <1> QED BY <1>1, <1>3, <1>4, <1>5

\* An operation other than a reservation goes on, ends or begins.
LEMMA OperationMoves ==
    ASSUME RegistryInv, NEW c \in Calls, NEW r \in OpRecord,
           op' = [op EXCEPT ![c] = r],
           r.session \in {op[c].session, None} \cup owned,
           ~Reserves(r),
           Unregisters(r) => r.session \notin registered,
           UNCHANGED <<registered, owned, minted>>
    PROVE  RegistryInv'
  <1>1. op' \in [Calls -> OpRecord] /\ op'[c] = r /\ \A d \in Calls \ {c} : op'[d] = op[d]
    BY DEF RegistryInv
  <1>2. ASSUME NEW d \in Calls PROVE Fresh(d)'
    <2> SUFFICES ASSUME Reserves(op'[d])
                 PROVE  /\ op'[d].session \in minted \ owned
                        /\ \A e \in Calls \ {d} : op'[e].session # op'[d].session
      BY DEF Fresh
    <2>1. d # c /\ op'[d] = op[d] /\ Reserves(op[d]) BY <1>1
    <2>2. /\ op[d].session \in minted \ owned
          /\ \A e \in Calls \ {d} : op[e].session # op[d].session
      BY <2>1 DEF RegistryInv, Fresh
    <2>3. op[d].session # None BY <2>2, PoolAssumption DEF RegistryInv
    <2>4. r.session # op[d].session BY <2>1, <2>2, <2>3
    <2> QED BY <1>1, <2>1, <2>2, <2>4
  <1>3. ASSUME NEW d \in Calls PROVE Settled(d)'
    <2>1. Settled(d) /\ Settled(c) /\ owned \subseteq minted BY DEF RegistryInv
    <2> QED BY <1>1, <2>1 DEF Settled
  <1>4. Reservations' \subseteq Reservations BY <1>1, ReservationsFinite
  <1>5. Cardinality(Reservations') <= Cardinality(Reservations) /\ Cardinality(Reservations') \in Nat
    BY <1>4, ReservationsFinite, FS_Subset, FS_CardinalityType
  <1>6. Cardinality(owned) \in Nat BY FS_CardinalityType DEF RegistryInv
  <1>7. Cardinality(owned') + Cardinality(Reservations') <= Capacity
    BY <1>5, <1>6, ReservationsFinite, SessionsAssumption DEF RegistryInv
  <1> QED BY <1>1, <1>2, <1>3, <1>7 DEF RegistryInv

\* Go and End, as moves of one operation.
LEMMA Moves ==
    ASSUME op \in [Calls -> OpRecord], NEW c \in Calls
    PROVE  /\ End(c) => op' = [op EXCEPT ![c] = NoOp]
           /\ \A stage : Go(c, stage) => op' = [op EXCEPT ![c] = [op[c] EXCEPT !.at = stage]]
           /\ NoOp \in OpRecord /\ NoOp.session = None
           /\ ~Reserves(NoOp) /\ ~Unregisters(NoOp)
  <1>1. NoOp \in OpRecord /\ NoOp.session = None /\ NoOp.kind = "none"
    BY DEF NoOp, OpRecord
  <1> QED BY <1>1 DEF End, Go, Reserves, Unregisters

\* An operation that ends holds nothing.
LEMMA EndInv ==
    ASSUME RegistryInv, NEW c \in Calls, End(c), UNCHANGED <<registered, owned, minted>>
    PROVE  RegistryInv'
  <1>1. op' = [op EXCEPT ![c] = NoOp] /\ NoOp \in OpRecord /\ NoOp.session = None
          /\ ~Reserves(NoOp) /\ ~Unregisters(NoOp)
    BY Moves DEF RegistryInv
  <1> QED BY <1>1, OperationMoves, Zenon

\* A step of an operation that neither reserves nor has unregistered anything.
LEMMA GoInv ==
    ASSUME RegistryInv, NEW c \in Calls,
           NEW stage \in {"record", "use", "revive", "invalidate", "relaunch",
                          "again", "retry", "release", "unregister"},
           Go(c, stage), UNCHANGED <<registered, owned, minted>>
    PROVE  RegistryInv'
  <1> DEFINE r == [op[c] EXCEPT !.at = stage]
  <1>1. op[c] \in OpRecord BY DEF RegistryInv
  <1>2. r \in OpRecord /\ r.session = op[c].session /\ r.at = stage BY <1>1 DEF OpRecord
  <1>3. op' = [op EXCEPT ![c] = r] BY DEF Go, RegistryInv
  <1> HIDE DEF r
  <1>4. ~Reserves(r) /\ ~Unregisters(r) BY <1>2 DEF Reserves, Unregisters
  <1> QED BY <1>2, <1>3, <1>4, OperationMoves, Zenon

\* A request that finds an owned session begins.
LEMMA BeginInv ==
    ASSUME RegistryInv, NEW c \in Calls, NEW s \in owned, NEW kind \in {"open", "delete"},
           NEW stage \in {"lease", "release"}, NEW via \in Vias,
           Begin(c, kind, stage, via, s), UNCHANGED <<registered, owned, minted>>
    PROVE  RegistryInv'
  <1> DEFINE r == [kind |-> kind, at |-> stage, via |-> via, session |-> s, page |-> None]
  <1>1. s \in Sessions BY DEF RegistryInv
  <1>2. r \in OpRecord BY <1>1 DEF OpRecord
  <1>3. r.session = s /\ r.kind = kind /\ r.at = stage OBVIOUS
  <1>4. op' = [op EXCEPT ![c] = r] BY DEF Begin
  <1> HIDE DEF r
  <1>5. ~Reserves(r) /\ ~Unregisters(r) BY <1>3 DEF Reserves, Unregisters
  <1> QED BY <1>2, <1>3, <1>4, <1>5, OperationMoves, Zenon

-----------------------------------------------------------------------------
(* Creating a session.                                                       *)

\* The reservation fits, and the session is new.
LEMMA CreateInv ==
    ASSUME RegistryInv, NEW c \in Calls, NEW via \in Clients, create_session(c, via)
    PROVE  RegistryInv'
  <1> PICK s \in Sessions \ minted :
             /\ Begin(c, "create", "lease", IF via = "mcp" THEN "server" ELSE via, s)
             /\ minted' = minted \cup {s}
    BY DEF create_session
  <1>u. UNCHANGED <<registered, owned>> /\ HasCapacity BY DEF create_session
  <1> DEFINE v == IF via = "mcp" THEN "server" ELSE via
             r == [kind |-> "create", at |-> "lease", via |-> v, session |-> s, page |-> None]
  <1>v. v \in Vias BY SessionsAssumption DEF Vias
  <1> HIDE DEF v
  <1>1. r \in OpRecord BY <1>v DEF OpRecord
  <1>2. r.session = s /\ Reserves(r) /\ ~Unregisters(r) BY DEF Reserves, Unregisters
  <1>3. op[c] = NoOp /\ op' = [op EXCEPT ![c] = r] BY DEF Begin, v
  <1> HIDE DEF r
  <1>4. op' \in [Calls -> OpRecord] /\ op'[c] = r /\ \A d \in Calls \ {c} : op'[d] = op[d]
    BY <1>1, <1>3 DEF RegistryInv
  <1>5. \A d \in Calls : op[d].session # s
    <2>1. s # None BY PoolAssumption
    <2> QED BY <2>1 DEF RegistryInv, Settled
  <1>6. ASSUME NEW d \in Calls PROVE Fresh(d)'
    <2>1. CASE d = c BY <1>2, <1>4, <1>5, <1>u, <2>1 DEF Fresh, RegistryInv
    <2>2. CASE d # c
      <3>1. Fresh(d) /\ op'[d] = op[d] BY <1>4, <2>2 DEF RegistryInv
      <3> QED BY <1>2, <1>4, <1>5, <1>u, <3>1 DEF Fresh
    <2> QED BY <2>1, <2>2
  <1>7. ASSUME NEW d \in Calls PROVE Settled(d)'
    <2>1. Settled(d) BY DEF RegistryInv
    <2> QED BY <1>2, <1>4, <1>u, <2>1 DEF Settled
  <1>8. Reservations' = Reservations \cup {c} /\ c \notin Reservations
    <2>1. ~Reserves(op[c]) BY <1>3 DEF NoOp, Reserves
    <2> QED BY <1>2, <1>4, <2>1, ReservationsFinite
  <1>9. Cardinality(Reservations') = Cardinality(Reservations) + 1
    BY <1>8, ReservationsFinite, FS_AddElement, Zenon
  <1>10. Cardinality(owned) \in Nat BY FS_CardinalityType DEF RegistryInv
  <1>11. Cardinality(owned') + Cardinality(Reservations') <= Capacity
    BY <1>9, <1>10, <1>u, ReservationsFinite, SessionsAssumption DEF HasCapacity
  <1> QED BY <1>4, <1>6, <1>7, <1>11, <1>u DEF RegistryInv

\* The reservation is kept while the session has its first lease, and given back when
\* the lease fails.
LEMMA CreatedInv ==
    ASSUME RegistryInv, NEW c \in Calls, created(c) PROVE RegistryInv'
  <1>u. UNCHANGED <<registered, owned, minted>> BY DEF created
  <1>1. CASE End(c) BY <1>1, <1>u, EndInv
  <1>2. CASE Go(c, "insert")
    <2> DEFINE r == [op[c] EXCEPT !.at = "insert"]
    <2>1. op[c] \in OpRecord /\ op[c].kind = "create" /\ op[c].at = "lease"
      BY DEF created, At, RegistryInv
    <2>2. r \in OpRecord /\ r.session = op[c].session /\ r.kind = "create" /\ r.at = "insert"
      BY <2>1 DEF OpRecord
    <2>3. op' = [op EXCEPT ![c] = r] BY <1>2 DEF Go, RegistryInv
    <2> HIDE DEF r
    <2>4. op' \in [Calls -> OpRecord] /\ op'[c] = r /\ \A d \in Calls \ {c} : op'[d] = op[d]
      BY <2>2, <2>3 DEF RegistryInv
    <2>5. \A d \in Calls : /\ op'[d].session = op[d].session
                           /\ Reserves(op'[d]) <=> Reserves(op[d])
                           /\ Unregisters(op'[d]) <=> Unregisters(op[d])
      BY <2>1, <2>2, <2>4 DEF Reserves, Unregisters
    <2>6. \A d \in Calls : Fresh(d)' /\ Settled(d)'
      BY <1>u, <2>5 DEF RegistryInv, Fresh, Settled
    <2>7. Reservations' = Reservations BY <2>5, ReservationsFinite
    <2> QED BY <1>u, <2>4, <2>6, <2>7 DEF RegistryInv
  <1> QED BY <1>1, <1>2 DEF created

\* Inserting the session makes an owner of the reservation: the sum stays.
LEMMA InsertInv ==
    ASSUME RegistryInv, NEW c \in Calls, insert(c) PROVE RegistryInv'
  <1> PICK s : s = op[c].session OBVIOUS
  <1>u. registered' = registered \cup {s} /\ owned' = owned \cup {s} /\ UNCHANGED minted
    BY DEF insert
  <1>0. op[c] \in OpRecord /\ Reserves(op[c]) BY DEF insert, At, Reserves, RegistryInv
  <1>1. s \in minted \ owned /\ \A d \in Calls \ {c} : op[d].session # s
    BY <1>0 DEF RegistryInv, Fresh
  <1> PICK r \in OpRecord : /\ op' = [op EXCEPT ![c] = r]
                            /\ r.session \in {s, None} /\ ~Reserves(r) /\ ~Unregisters(r)
    <2>1. CASE End(c)
      <3>1. op' = [op EXCEPT ![c] = NoOp] /\ NoOp \in OpRecord /\ NoOp.session = None
              /\ ~Reserves(NoOp) /\ ~Unregisters(NoOp)
        BY <2>1, Moves DEF RegistryInv
      <3> QED BY <3>1, Zenon
    <2>2. CASE Go(c, "record")
      <3> DEFINE q == [op[c] EXCEPT !.at = "record"]
      <3>1. q \in OpRecord /\ q.session = s /\ q.at = "record" BY <1>0 DEF OpRecord
      <3>2. op' = [op EXCEPT ![c] = q] BY <2>2 DEF Go, RegistryInv
      <3> HIDE DEF q
      <3> QED BY <3>1, <3>2, Zenon DEF Reserves, Unregisters
    <2> QED BY <2>1, <2>2 DEF insert
  <1>2. op' \in [Calls -> OpRecord] /\ op'[c] = r /\ \A d \in Calls \ {c} : op'[d] = op[d]
    BY DEF RegistryInv
  <1>3. ASSUME NEW d \in Calls PROVE Fresh(d)'
    <2> SUFFICES ASSUME Reserves(op'[d])
                 PROVE  /\ op'[d].session \in minted' \ owned'
                        /\ \A e \in Calls \ {d} : op'[e].session # op'[d].session
      BY DEF Fresh
    <2>1. d # c /\ op'[d] = op[d] /\ Reserves(op[d]) BY <1>2
    <2>2. /\ op[d].session \in minted \ owned
          /\ \A e \in Calls \ {d} : op[e].session # op[d].session
      BY <2>1 DEF RegistryInv, Fresh
    <2>3. op[d].session # None /\ op[d].session # s
      BY <1>1, <2>1, <2>2, PoolAssumption DEF RegistryInv
    <2>4. r.session # op[d].session BY <2>3
    <2> QED BY <1>2, <1>u, <2>1, <2>2, <2>3, <2>4
  <1>4. ASSUME NEW d \in Calls PROVE Settled(d)'
    <2>1. Settled(d) BY DEF RegistryInv
    <2>2. CASE d = c BY <1>1, <1>2, <1>u, <2>2 DEF Settled
    <2>3. CASE d # c
      <3>1. op'[d] = op[d] /\ op[d].session # s BY <1>1, <1>2, <2>3
      <3> QED BY <1>u, <2>1, <3>1 DEF Settled
    <2> QED BY <2>2, <2>3
  <1>5. Reservations' = Reservations \ {c} /\ c \in Reservations
    BY <1>0, <1>2, ReservationsFinite
  <1>6. Cardinality(Reservations') = Cardinality(Reservations) - 1
    <2>1. IsFiniteSet(Reservations) BY ReservationsFinite
    <2>2. Cardinality(Reservations \ {c}) = Cardinality(Reservations) - 1
      BY <1>5, <2>1, FS_RemoveElement, Zenon
    <2> QED BY <1>5, <2>2
  <1>7. IsFiniteSet(owned') /\ Cardinality(owned') = Cardinality(owned) + 1
    BY <1>1, <1>u, FS_AddElement DEF RegistryInv
  <1>8. Cardinality(owned) \in Nat BY FS_CardinalityType DEF RegistryInv
  <1>9. Cardinality(owned') + Cardinality(Reservations') <= Capacity
    BY <1>6, <1>7, <1>8, ReservationsFinite, SessionsAssumption DEF RegistryInv
  <1>10. registered' \subseteq owned' /\ owned' \subseteq minted' /\ minted' \subseteq Sessions
    BY <1>1, <1>u DEF RegistryInv
  <1> QED BY <1>2, <1>3, <1>4, <1>7, <1>9, <1>10 DEF RegistryInv

\* The connection takes the session, or its creator turns to deleting it.
LEMMA RecordInv ==
    ASSUME RegistryInv, NEW c \in Calls, record(c) PROVE RegistryInv'
  <1>u. UNCHANGED <<registered, owned, minted>> BY DEF record
  <1>1. CASE End(c) BY <1>1, <1>u, EndInv
  <1>2. CASE op' = [op EXCEPT ![c].kind = "delete", ![c].at = "release"]
    <2> DEFINE r == [op[c] EXCEPT !.kind = "delete", !.at = "release"]
    <2>1. op[c] \in OpRecord BY DEF RegistryInv
    <2>2. r \in OpRecord /\ r.session = op[c].session /\ r.kind = "delete" /\ r.at = "release"
      BY <2>1, Zenon DEF OpRecord
    <2>3. op' = [op EXCEPT ![c] = r] BY <1>2, Zenon DEF RegistryInv
    <2> HIDE DEF r
    <2>4. ~Reserves(r) /\ ~Unregisters(r) BY <2>2 DEF Reserves, Unregisters
    <2> QED BY <1>u, <2>2, <2>3, <2>4, OperationMoves, Zenon
  <1> QED BY <1>1, <1>2 DEF record

-----------------------------------------------------------------------------
(* Deleting a session.                                                       *)

\* An operation with its session out of the registry moves on.
LEMMA UnregisteredInv ==
    ASSUME RegistryInv, NEW c \in Calls, op[c].kind = "delete",
           NEW stage \in {"pages", "disown"}, Go(c, stage), UNCHANGED <<owned, minted>>,
           registered' = registered \ {op[c].session}
    PROVE  RegistryInv'
  <1> DEFINE r == [op[c] EXCEPT !.at = stage]
  <1>1. op[c] \in OpRecord BY DEF RegistryInv
  <1>2. r \in OpRecord /\ r.session = op[c].session /\ r.kind = "delete" /\ r.at = stage
    BY <1>1 DEF OpRecord
  <1>3. op' = [op EXCEPT ![c] = r] BY DEF Go, RegistryInv
  <1> HIDE DEF r
  <1>4. op' \in [Calls -> OpRecord] /\ op'[c] = r /\ \A d \in Calls \ {c} : op'[d] = op[d]
    BY <1>2, <1>3 DEF RegistryInv
  <1>5. \A d \in Calls : /\ op'[d].session = op[d].session
                         /\ Reserves(op'[d]) <=> Reserves(op[d])
    BY <1>2, <1>4 DEF Reserves
  <1>6. ASSUME NEW d \in Calls PROVE Fresh(d)'
    <2>1. Fresh(d) BY DEF RegistryInv
    <2> QED BY <1>5, <2>1 DEF Fresh
  <1>7. ASSUME NEW d \in Calls PROVE Settled(d)'
    <2>1. Settled(d) /\ Settled(c) BY DEF RegistryInv
    <2>2. CASE d = c BY <1>5, <2>1, <2>2 DEF Settled
    <2>3. CASE d # c
      <3>1. op'[d] = op[d] BY <1>4, <2>3
      <3> QED BY <2>1, <3>1 DEF Settled
    <2> QED BY <2>2, <2>3
  <1>8. Reservations' = Reservations BY <1>5, ReservationsFinite
  <1>9. registered' \subseteq owned BY DEF RegistryInv
  <1> QED BY <1>4, <1>6, <1>7, <1>8, <1>9 DEF RegistryInv

\* The ownership goes last, when the session is not registered any more.
LEMMA DisownInv ==
    ASSUME RegistryInv, NEW c \in Calls, disown(c) PROVE RegistryInv'
  <1> PICK s : s = op[c].session OBVIOUS
  <1>u. owned' = owned \ {s} /\ UNCHANGED <<registered, minted>> /\ End(c) BY DEF disown
  <1>0. s \notin registered BY DEF disown, At, Unregisters, RegistryInv, Settled
  <1>1. op' = [op EXCEPT ![c] = NoOp] /\ NoOp \in OpRecord /\ NoOp.session = None
          /\ ~Reserves(NoOp) /\ ~Unregisters(NoOp)
    BY <1>u, Moves DEF RegistryInv
  <1>2. op' \in [Calls -> OpRecord] /\ op'[c] = NoOp /\ \A d \in Calls \ {c} : op'[d] = op[d]
    BY <1>1 DEF RegistryInv
  <1>3. ASSUME NEW d \in Calls PROVE Fresh(d)'
    <2> SUFFICES ASSUME Reserves(op'[d])
                 PROVE  /\ op'[d].session \in minted' \ owned'
                        /\ \A e \in Calls \ {d} : op'[e].session # op'[d].session
      BY DEF Fresh
    <2>1. d # c /\ op'[d] = op[d] /\ Reserves(op[d]) BY <1>1, <1>2
    <2>2. /\ op[d].session \in minted \ owned
          /\ \A e \in Calls \ {d} : op[e].session # op[d].session
      BY <2>1 DEF RegistryInv, Fresh
    <2>3. op[d].session # None BY <2>2, PoolAssumption DEF RegistryInv
    <2> QED BY <1>1, <1>2, <1>u, <2>1, <2>2, <2>3
  <1>4. ASSUME NEW d \in Calls PROVE Settled(d)'
    <2>1. Settled(d) BY DEF RegistryInv
    <2> QED BY <1>1, <1>2, <1>u, <2>1 DEF Settled
  <1>5. Reservations' \subseteq Reservations BY <1>1, <1>2, ReservationsFinite
  <1>6. Cardinality(Reservations') <= Cardinality(Reservations) /\ Cardinality(Reservations') \in Nat
    BY <1>5, ReservationsFinite, FS_Subset, FS_CardinalityType
  <1>7. owned' \subseteq owned BY <1>u
  <1>8. IsFiniteSet(owned') /\ Cardinality(owned') <= Cardinality(owned)
    BY <1>7, FS_Subset DEF RegistryInv
  <1>9. Cardinality(owned) \in Nat /\ Cardinality(owned') \in Nat
    BY <1>8, FS_CardinalityType DEF RegistryInv
  <1>10. Cardinality(owned') + Cardinality(Reservations') <= Capacity
    BY <1>6, <1>8, <1>9, ReservationsFinite, SessionsAssumption DEF RegistryInv
  <1>11. registered' \subseteq owned' /\ owned' \subseteq minted' /\ minted' \subseteq Sessions
    BY <1>0, <1>u DEF RegistryInv
  <1> QED BY <1>2, <1>3, <1>4, <1>8, <1>10, <1>11 DEF RegistryInv

\* delete_session, from its first step to its last.
LEMMA DeleteInv ==
    ASSUME RegistryInv, NEW c \in Calls,
           released(c) \/ unregister(c) \/ remove_session_pages(c) \/ disown(c)
    PROVE  RegistryInv'
  <1>1. CASE released(c)
    <2>1. Go(c, "unregister") /\ UNCHANGED <<registered, owned, minted>> BY <1>1 DEF released
    <2> QED BY <2>1, GoInv
  <1>2. CASE unregister(c)
    <2>1. /\ op[c].kind = "delete" /\ Go(c, "pages") /\ UNCHANGED <<owned, minted>>
          /\ registered' = registered \ {op[c].session}
      BY <1>2 DEF unregister, At
    <2> QED BY <2>1, UnregisteredInv
  <1>3. CASE remove_session_pages(c)
    <2>1. /\ op[c].kind = "delete" /\ op[c].at = "pages" /\ Go(c, "disown")
          /\ UNCHANGED <<registered, owned, minted>>
      BY <1>3 DEF remove_session_pages, At
    <2>2. op[c].session \notin registered BY <2>1 DEF RegistryInv, Settled, Unregisters
    <2>3. registered' = registered \ {op[c].session} BY <2>1, <2>2
    <2> QED BY <2>1, <2>3, UnregisteredInv
  <1>4. CASE disown(c) BY <1>4, DisownInv
  <1> QED BY <1>1, <1>2, <1>3, <1>4

-----------------------------------------------------------------------------
(* Opening a page, and the rest.                                             *)

\* The registration of the page gives the operation its page.
LEMMA RegisterPageInv ==
    ASSUME RegistryInv, NEW c \in Calls, register_page(c) PROVE RegistryInv'
  <1>u. UNCHANGED <<registered, owned, minted>> BY DEF register_page
  <1>1. CASE End(c) BY <1>1, <1>u, EndInv
  <1>2. ASSUME NEW p \in Pages, op' = [op EXCEPT ![c].at = "use", ![c].page = p]
        PROVE  RegistryInv'
    <2> DEFINE r == [op[c] EXCEPT !.at = "use", !.page = p]
    <2>1. op[c] \in OpRecord BY DEF RegistryInv
    <2>2. r \in OpRecord /\ r.session = op[c].session /\ r.at = "use" BY <2>1, Zenon DEF OpRecord
    <2>3. op' = [op EXCEPT ![c] = r] BY <1>2, Zenon DEF RegistryInv
    <2> HIDE DEF r
    <2>4. ~Reserves(r) /\ ~Unregisters(r) BY <2>2 DEF Reserves, Unregisters
    <2> QED BY <1>u, <2>2, <2>3, <2>4, OperationMoves, Zenon
  <1> QED BY <1>1, <1>2 DEF register_page

\* open_page goes on.
LEMMA OpenInv ==
    ASSUME RegistryInv, NEW c \in Calls, use(c) \/ revive(c) \/ revived(c)
    PROVE  RegistryInv'
  <1>u. UNCHANGED <<registered, owned, minted>> BY DEF use, revive, revived
  <1>1. \/ End(c)
        \/ \E stage \in {"revive", "invalidate", "relaunch", "again", "retry"} : Go(c, stage)
    BY DEF use, revive, revived
  <1>2. CASE End(c) BY <1>2, <1>u, EndInv
  <1>3. ASSUME NEW stage \in {"revive", "invalidate", "relaunch", "again", "retry"}, Go(c, stage)
        PROVE  RegistryInv'
    BY <1>3, <1>u, GoInv
  <1> QED BY <1>1, <1>2, <1>3

\* A request arrives.
LEMMA RequestInv ==
    ASSUME RegistryInv, NEW c \in Calls, Request(c) PROVE RegistryInv'
  <1> PICK via \in Clients :
             \/ create_session(c, via)
             \/ \E s \in Sessions : delete_session(c, s, via) \/ open_page(c, s, via)
    BY DEF Request
  <1>0. via \in Vias BY SessionsAssumption DEF Vias
  <1>1. CASE create_session(c, via) BY <1>1, CreateInv
  <1>2. ASSUME NEW s \in Sessions, delete_session(c, s, via) PROVE RegistryInv'
    <2>1. s \in owned /\ Begin(c, "delete", "release", via, s) /\ UNCHANGED <<registered, owned, minted>>
      BY <1>2 DEF delete_session, Deletable
    <2> QED BY <1>0, <2>1, BeginInv
  <1>3. ASSUME NEW s \in Sessions, open_page(c, s, via) PROVE RegistryInv'
    <2>1. s \in owned /\ Begin(c, "open", "lease", via, s) /\ UNCHANGED <<registered, owned, minted>>
      BY <1>3 DEF open_page
    <2> QED BY <1>0, <2>1, BeginInv
  <1> QED BY <1>1, <1>2, <1>3

\* Nothing that the invariant is about moves.
LEMMA NothingMoves ==
    ASSUME RegistryInv, UNCHANGED <<registered, owned, minted, op>> PROVE RegistryInv'
  <1>1. Reservations' = Reservations BY ReservationsFinite
  <1>2. \A c \in Calls : Fresh(c)' /\ Settled(c)' BY DEF RegistryInv, Fresh, Settled
  <1> QED BY <1>1, <1>2 DEF RegistryInv

\* The clean-up after a connection deletes what is still owned.
LEMMA QuietlyInv ==
    ASSUME RegistryInv, NEW c \in Calls, NEW s \in Sessions, delete_session_quietly(c, s)
    PROVE  RegistryInv'
  <1>u. UNCHANGED <<registered, owned, minted>> BY DEF delete_session_quietly
  <1>1. CASE UNCHANGED op BY <1>1, <1>u, NothingMoves
  <1>2. CASE s \in owned /\ Begin(c, "delete", "release", "server", s)
    <2>1. "server" \in Vias BY DEF Vias
    <2> QED BY <1>2, <1>u, <2>1, BeginInv
  <1> QED BY <1>1, <1>2 DEF delete_session_quietly, Deletable

\* Every step keeps the invariant.
LEMMA NextKeepsRegistry == ASSUME RegistryInv, [Next]_vars PROVE RegistryInv'
  <1>1. ASSUME NEW c \in Calls, Progress(c) PROVE RegistryInv'
    BY <1>1, CreatedInv, InsertInv, RecordInv, DeleteInv, RegisterPageInv, OpenInv DEF Progress
  <1>2. ASSUME NEW c \in Calls, drop(c) PROVE RegistryInv'
    <2>1. End(c) /\ UNCHANGED <<registered, owned, minted>> BY <1>2 DEF drop
    <2> QED BY <2>1, EndInv
  <1>3. ASSUME (PoolStep /\ UNCHANGED sessionVars) \/ eof \/ disconnect \/ UNCHANGED vars
        PROVE  RegistryInv'
    <2>1. UNCHANGED <<registered, owned, minted, op>>
      BY <1>3 DEF sessionVars, eof, disconnect, vars
    <2> QED BY <2>1, NothingMoves
  <1> QED BY <1>1, <1>2, <1>3, RequestInv, QuietlyInv DEF Next

\* The invariant holds in every reachable state.
THEOREM RegistryInvariant == Spec => []RegistryInv
  <1>1. Init => RegistryInv
    <2> SUFFICES ASSUME Init PROVE RegistryInv OBVIOUS
    <2>1. /\ registered = {} /\ owned = {} /\ minted = {} /\ op = [c \in Calls |-> NoOp]
      BY DEF Init
    <2>2. NoOp \in OpRecord /\ NoOp.session = None /\ NoOp.kind = "none" BY DEF NoOp, OpRecord
    <2>3. \A c \in Calls : op[c] = NoOp BY <2>1
    <2>4. \A c \in Calls : ~Reserves(op[c]) /\ ~Unregisters(op[c])
      BY <2>2, <2>3 DEF Reserves, Unregisters
    <2>5. \A c \in Calls : Fresh(c) /\ Settled(c) BY <2>2, <2>3, <2>4 DEF Fresh, Settled
    <2>6. Reservations = {} BY <2>4, ReservationsFinite
    <2>7. IsFiniteSet({}) /\ Cardinality({}) = 0 BY FS_EmptySet
    <2>8. Cardinality(owned) + Cardinality(Reservations) <= Capacity
      BY <2>1, <2>6, <2>7, SessionsAssumption
    <2>9. op \in [Calls -> OpRecord] BY <2>1, <2>2
    <2> QED BY <2>1, <2>5, <2>7, <2>8, <2>9 DEF RegistryInv
  <1> QED BY <1>1, NextKeepsRegistry, PTL DEF Spec

\* Whoever is registered is owned, and the sessions that are owned or being created never
\* exceed the capacity, whatever is dropped between the reservation and its finalisation.
THEOREM OwnershipIsCovered == Spec => []OwnershipCoversSessions
  <1>1. RegistryInv => OwnershipCoversSessions BY DEF RegistryInv, OwnershipCoversSessions
  <1> QED BY <1>1, RegistryInvariant, PTL

\* The same with the fairness that the liveness of connections needs.
COROLLARY FairOwnershipIsCovered == FairSpec => []OwnershipCoversSessions
  BY OwnershipIsCovered, PTL DEF FairSpec
=============================================================================
