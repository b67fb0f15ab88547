------------------------- MODULE MCWorkerDispatcher -------------------------
(* Two workers: two keys that hash to the first, a third that hashes to    *)
(* the second, so that both are at work at once.                           *)
EXTENDS WorkerDispatcher, TLC

CONSTANTS a, b, k1, k2, k3, w1, w2

MCHash == (k1 :> w1) @@ (k2 :> w1) @@ (k3 :> w2)
MCInit == Init /\ Cardinality({call \in Calls : key[call] = k3}) = 1
MCSpec == MCInit /\ [][Next]_vars

Symmetric == Permutations(Callers) \cup Permutations({k1, k2})
=============================================================================
