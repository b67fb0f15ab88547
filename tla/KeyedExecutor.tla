--------------------------- MODULE KeyedExecutor ---------------------------
(***************************************************************************)
(* What a partitioned effect handler promises its callers, with no word of *)
(* workers, channels or contexts: calls that carry the same key are run    *)
(* one at a time, in the order in which they were accepted, each at most   *)
(* once; the calls of one caller are accepted in the order it makes them.  *)
(* An accepted call may stay pending for ever (the scope may be closed).   *)
(***************************************************************************)
EXTENDS Naturals

CONSTANTS Callers, Keys, MaxCalls, NoCall

Calls == Callers \X (1..MaxCalls)

VARIABLES
    accepted,   \* the calls accepted
    pending,    \* per key, the calls accepted and not started
    ahead,      \* <<a, b>>: both are pending with one key, a was accepted first
    running     \* per key, the call being run, or NoCall

vars == <<accepted, pending, ahead, running>>

Init ==
    /\ accepted = {}
    /\ pending = [k \in Keys |-> {}]
    /\ ahead = {}
    /\ running = [k \in Keys |-> NoCall]

(* A caller's later call is never accepted before an earlier one. *)
IsNew(c, n) == \A m \in 1..MaxCalls : <<c, m>> \in accepted => m < n

Accept(c, n, k) ==
    /\ IsNew(c, n)
    /\ accepted' = accepted \cup {<<c, n>>}
    /\ pending' = [pending EXCEPT ![k] = @ \cup {<<c, n>>}]
    /\ ahead' = ahead \cup (pending[k] \X {<<c, n>>})
    /\ UNCHANGED running

(* The oldest pending call of the key starts, when none of that key runs. *)
Start(k) ==
    /\ running[k] = NoCall
    /\ \E call \in pending[k] :
        /\ \A other \in pending[k] : <<other, call>> \notin ahead
        /\ running' = [running EXCEPT ![k] = call]
        /\ pending' = [pending EXCEPT ![k] = @ \ {call}]
        /\ ahead' = {p \in ahead : p[1] # call}
    /\ UNCHANGED accepted

(* Over an unbuffered channel a call is accepted and started in one step. *)
AcceptAndStart(c, n, k) ==
    /\ IsNew(c, n)
    /\ running[k] = NoCall
    /\ pending[k] = {}
    /\ accepted' = accepted \cup {<<c, n>>}
    /\ running' = [running EXCEPT ![k] = <<c, n>>]
    /\ UNCHANGED <<pending, ahead>>

End(k) ==
    /\ running[k] # NoCall
    /\ running' = [running EXCEPT ![k] = NoCall]
    /\ UNCHANGED <<accepted, pending, ahead>>

Next ==
    \/ \E c \in Callers, n \in 1..MaxCalls, k \in Keys :
            Accept(c, n, k) \/ AcceptAndStart(c, n, k)
    \/ \E k \in Keys : Start(k) \/ End(k)

Spec == Init /\ [][Next]_vars
=============================================================================
