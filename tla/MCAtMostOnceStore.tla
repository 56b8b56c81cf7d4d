------------------------- MODULE MCAtMostOnceStore -------------------------
(* Small instances of AtMostOnceStore for TLC. *)
EXTENDS AtMostOnceStore

CONSTANTS k1, k2, k3, a1, a2

\* Requests whose timestamps lie one tick apart, so that their windows overlap.
MCReqTime == [k \in Keys |-> CASE k = k1 -> 1 [] k = k2 -> 2 [] k = k3 -> 2]
=============================================================================
