---------------------------- MODULE ScopedLookup ----------------------------
(***************************************************************************)
(* What a chain of nested handlers of one effect promises, with no worker, *)
(* channel or delegation in it: a lookup is answered once, by the nearest  *)
(* scope that has what it asks for, and with less than that only when a    *)
(* scope it may have to ask has ended, or its caller's own context.        *)
(***************************************************************************)
EXTENDS Naturals

CONSTANTS
    Clients,    \* each makes one lookup
    Depth,      \* the scopes are 1..Depth, 1 the innermost
    Setups      \* who asks from which scope, and what the scopes have

VARIABLES
    setup,      \* chosen once
    ended,      \* the contexts that have ended: scopes and clients
    result      \* what each client got

lookupVars == <<setup, ended, result>>

Pending == <<"pending", 0>>
Found(l) == <<"found", l>>
Unknown == <<"unknown", 0>>     \* the error "no effect handler registered"
Failed == <<"failed", 0>>       \* the context's error, or a failed task
Nothing == <<"nothing", 0>>     \* neither a value nor an error

(* The scopes a lookup may have to ask, and the answer it should get. *)
Path(q) == setup.entry[q] .. Depth
Holders(q) == Path(q) \cap setup.has[q]
Nearest(q) ==
    IF Holders(q) = {} THEN Unknown
    ELSE Found(CHOOSE l \in Holders(q) : \A m \in Holders(q) : l <= m)

LookupInit ==
    /\ setup \in Setups
    /\ ended = {}
    /\ result = [q \in Clients |-> Pending]

Resolve(q) ==
    /\ result[q] = Pending
    /\ \/ result' = [result EXCEPT ![q] = Nearest(q)]
       \/ /\ ended \cap (Path(q) \union {q}) # {}
          /\ \E a \in {Failed, Nothing} : result' = [result EXCEPT ![q] = a]
    /\ UNCHANGED <<setup, ended>>

ContextsEnd ==
    /\ \E more \in SUBSET (Clients \union 1..Depth) : ended' = ended \union more
    /\ UNCHANGED <<setup, result>>

LookupSpec ==
    LookupInit /\ [][(\E q \in Clients : Resolve(q)) \/ ContextsEnd]_lookupVars
=============================================================================
