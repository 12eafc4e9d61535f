------------------------ MODULE MCCompanionSession ------------------------
(* Instances of CompanionSession: a connected companion with one bound page,   *)
(* two calls at a time, and a bounded number of disturbances.                  *)
EXTENDS CompanionSession, TLC

CONSTANTS k1, k2, a1, a2, p1, p2, p3, t1, t2, c1, c2,
    MaxDisturbances

VARIABLE disturbances

op(o, a, p) == [op |-> o, att |-> a, page |-> p]

both(v, w) == (c1 :> v) @@ (c2 :> w)

\* Pairs of calls that race on their own; they are disturbed once less.
Rivals == {both(op("bind", a1, p2), op("release", a1, p2)),
           both(op("bind", a1, p2), op("bind", a2, p3)),
           both(op("bind", a1, p2), op("discover", a1, p1)),
           both(op("bind", a1, p2), op("grant", a1, p1)),
           both(op("release", a1, p1), op("release", a1, p1))}

MCWork == Rivals \cup
          {both(op("dispatch", a1, p1), op("renew", a1, p1)),
           both(op("release", a1, p1), op("renew", a1, p1)),
           both(op("bind", a1, p2), op("renew", a1, p1))}

MCReports == {{t1}, {t1, t2}}

Granted1(pages) == [conn |-> k1, pages |-> pages, live |-> TRUE]

Attached(S) ==
    [EmptyState EXCEPT
        !.session = k1,
        !.discovery = [conn |-> k1, targets |-> {t1}],
        !.grants = [a \in Attachments |->
                      IF a = a1 THEN Granted1({[target |-> t1, page |-> p1]})
                      ELSE IF a \in S THEN Granted1({}) ELSE None]]

MCInit ==
    \E w \in Work :
        LET S == {w[c].att : c \in Calls}
        IN  /\ state = Attached(S)
            /\ gate = None
            /\ lease = [a \in Attachments |-> IF a \in S THEN "live" ELSE "none"]
            /\ sockets = [k \in Connections |-> IF k = k1 THEN [NewSocket EXCEPT !.stage = "serving"]
                                                ELSE NewSocket]
            /\ requests = {}
            /\ calls = [c \in Calls |-> Asked(w[c])]
            /\ owned = [c \in Calls |-> NoRelease]
            /\ releases = [key \in Keys |-> None]
            /\ disturbances = IF w \in Rivals THEN 1 ELSE 0

MCNext ==
    \/ /\ disturbances < MaxDisturbances
       /\ Disturbance
       /\ disturbances' = disturbances + 1
    \/ /\ Step
       /\ UNCHANGED disturbances

MCSpec == MCInit /\ [][MCNext]_<<vars, disturbances>> /\ Fairness
=============================================================================
