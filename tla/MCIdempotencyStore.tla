------------------------- MODULE MCIdempotencyStore -------------------------
(***************************************************************************)
(* Instances of IdempotencyStore.                                            *)
(***************************************************************************)
EXTENDS IdempotencyStore

CONSTANTS r1, r2, r3, k1, k2

\* Requests of the same payload for one key.
OneKeyOf == [c \in Requests |-> k1]
OneBody == [c \in Requests |-> "same"]

\* Two requests for one key, with different payloads, and one for another key of
\* the same principal.
TwoKeysOf == [c \in Requests |-> IF c = r2 THEN k2 ELSE k1]
TwoBodies == [c \in Requests |-> IF c = r3 THEN "other" ELSE "same"]

OnePrincipal == [k \in Keys |-> "p"]
=============================================================================
