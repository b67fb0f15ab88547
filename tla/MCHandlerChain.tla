--------------------------- MODULE MCHandlerChain ---------------------------
EXTENDS HandlerChain, TLC

CONSTANTS a, b, c

(* Client a's key is in the middle and at the top, b's at the top alone or *)
(* nowhere, and c's nowhere.                                               *)
Chain(kind, from, bHas, mayEnd) ==
    [kind |-> kind, entry |-> from,
     has |-> a :> {2, 3} @@ b :> bHas @@ c :> {}, mayEnd |-> mayEnd,
     stuck |-> {}]

(* Three lookups from the innermost scope, more than it can hold at once,  *)
(* while the middle one may end; lookups from each scope while one of them *)
(* may end, or two; tasks, one of which may never return.                  *)
MCSetups ==
    {Chain(kind, a :> 1 @@ b :> 1 @@ c :> 1, {3}, {2}) :
        kind \in {"binding", "dependency"}}
    \union
    {Chain("binding", a :> 1 @@ b :> 2 @@ c :> 3, {}, mayEnd) :
        mayEnd \in {{a, 1}, {3}}}
    \union
    {Chain("dependency", a :> 1 @@ b :> 2 @@ c :> 3, {}, {1, 2})}
    \union
    {[kind |-> "task", entry |-> [q \in Clients |-> Depth],
      has |-> [q \in Clients |-> {Depth}], mayEnd |-> {Depth}, stuck |-> stuck] :
        stuck \in {{}, {b}}}
=============================================================================
