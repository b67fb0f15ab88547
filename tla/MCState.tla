------------------------------ MODULE MCState ------------------------------
(* State for one key with two values, one of them the zero value.           *)
EXTENDS State

CONSTANTS c1, c2
MCClients == {c1, c2}

MCMutations == {"insert", "cas", "cad"}

MCSetup(tiers, store, ttl, neighbour, kinds, maxCalls, ends) ==
    [upper |-> tiers = 2, delegation |-> tiers = 2, store |-> store,
     ttl |-> ttl, neighbour |-> neighbour, kinds |-> kinds, calls |-> maxCalls,
     ends |-> ends]

(* One tier: a SetStore, and a CasStore with times to live, with callers    *)
(* that give up and children that are gone.                                 *)
MCOneTier ==
    {MCSetup(1, "set", FALSE, FALSE, MCMutations \cup {"load"}, 3, {c1, "children"}),
     MCSetup(1, "cas", TRUE, FALSE, {"insert", "load"}, 3, {c1}),
     MCSetup(1, "cas", TRUE, FALSE, {"insert", "cad"}, 2, {c1, "lower", "children"}),
     MCSetup(1, "cas", TRUE, FALSE, {"insert", "reset"}, 2, {c1})}

(* Two tiers: a lower handler alone, while everything lives and while both  *)
(* scopes end; one with neighbours, with and without TTLs; and a lower      *)
(* handler that does not delegate its changes.                              *)
MCTwoTiers ==
    {MCSetup(2, "cas", FALSE, FALSE, MCMutations \cup {"overlaid", "load"}, 4, {}),
     MCSetup(2, "cas", FALSE, FALSE, {"insert", "cad", "overlaid"}, 3, {"lower", "upper"}),
     MCSetup(2, "cas", FALSE, FALSE, MCMutations, 2, {c1, "lower", "upper"}),
     MCSetup(2, "cas", TRUE, TRUE, {"insert", "overlaid"}, 3, {}),
     MCSetup(2, "cas", FALSE, TRUE, {"insert", "cas", "overlaid"}, 3, {})}
MCOverlaid ==
    {[MCSetup(2, "cas", FALSE, TRUE, MCMutations \cup {"overlaid", "load"}, 3, {"upper"})
        EXCEPT !.delegation = FALSE]}

MCSetups == MCOneTier \cup MCTwoTiers \cup MCOverlaid

(* For the sentences of the documentation that TLC refutes: a delegating    *)
(* handler that has nobody above it, and one tier with times to live.       *)
MCNobodyAbove ==
    {[MCSetup(2, "cas", FALSE, FALSE, MCMutations, 1, {}) EXCEPT !.upper = FALSE]}
MCExpiringSet == {MCSetup(1, "set", TRUE, FALSE, MCMutations, 3, {})}
MCExpiringCas == {MCSetup(1, "cas", TRUE, FALSE, {"insert", "cad"}, 3, {})}
=============================================================================
