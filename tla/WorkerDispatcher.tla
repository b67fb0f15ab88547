-------------------------- MODULE WorkerDispatcher --------------------------
(***************************************************************************)
(* The engine under every effect handler: one goroutine and one channel    *)
(* per partition (effects/internal/handlers/worker_dispatcher.go), the     *)
(* callers that send to those channels (fire_and_forget.go), and the scope *)
(* that creates the handler and tears it down (fire_and_forget_effect.go). *)
(* By itself this module is the fire-and-forget handler; ResumableEffect   *)
(* adds the reply.                                                         *)
(*                                                                         *)
(* A call is <<c, n>>, the n-th call of goroutine c.  Its payload is       *)
(* reduced to its partition key, chosen once in Init.  A channel of a      *)
(* worker is the sequence of the calls it buffers; it is closed exactly    *)
(* when the worker has exited (defer close(ch)).                           *)
(*                                                                         *)
(* Bound: MaxCalls, the calls each caller makes.                           *)
(***************************************************************************)
EXTENDS Integers, Sequences, FiniteSets

CONSTANTS
    Callers,      \* goroutines that perform effects
    Keys,         \* partition keys of the payloads
    Workers,      \* the workers of the handler, one channel each
    PartitionOf,  \* the hash of a key modulo the number of workers
    BufferSize,   \* capacity of each channel
    MaxCalls,
    Parent,       \* the context the scope was opened with (pctx)
    Handler,      \* the context of the workers (ctxForHandler)
    NoCall

Calls == Callers \X (1..MaxCalls)
Contexts == Callers \cup {Parent, Handler}

ASSUME DispatcherAssumption ==
    /\ PartitionOf \in [Keys -> Workers]
    /\ BufferSize \in Nat
    /\ MaxCalls \in Nat
    /\ NoCall \notin Calls
    /\ Parent \notin Callers /\ Handler \notin Callers /\ Parent # Handler

VARIABLES
    key,        \* the partition key of each call's payload
    issued,     \* how many calls each caller has begun
    perform,    \* where PerformEffect / FireAndForgetEffect is, per call
    queue,      \* the buffer of each worker's channel
    worker,     \* the program counter of each worker
    current,    \* the call a worker is handling
    started,    \* how many times the handler function began a call (history)
    cancelled,  \* the contexts whose Done channel is closed
    scope       \* progress of the teardown function of the scope

callVars == <<key, issued, perform>>
workVars == <<queue, worker, current, started>>
scopeVars == <<cancelled, scope>>
vars == <<callVars, workVars, scopeVars>>

(* "sent" the handler owns it, "aborted" the caller's context won the      *)
(* select, "recovered" the send panicked on the closed channel.            *)
PerformStates == {"new", "sending", "sent", "aborted", "recovered"}

(* Mutant: calls are spread over the workers by number, not by key. *)
Bug_RoundRobin(call) ==
    IF call[2] = 1 THEN PartitionOf[key[call]]
    ELSE CHOOSE w \in Workers : w # PartitionOf[key[call]]

PartitionFor(call) == PartitionOf[key[call]]

Init ==
    /\ key \in [Calls -> Keys]
    /\ issued = [c \in Callers |-> 0]
    /\ perform = [call \in Calls |-> "new"]
    /\ queue = [w \in Workers |-> <<>>]
    /\ worker = [w \in Workers |-> "select"]
    /\ current = [w \in Workers |-> NoCall]
    /\ started = [call \in Calls |-> 0]
    /\ cancelled = {}
    /\ scope = "open"

-----------------------------------------------------------------------------
(* The caller's side.  A goroutine makes its calls one after the other: the *)
(* next one begins only when the previous select has returned.              *)
Issue(c) ==
    /\ issued[c] < MaxCalls
    /\ issued[c] > 0 => perform[<<c, issued[c]>>] # "sending"
    /\ issued' = [issued EXCEPT ![c] = @ + 1]
    /\ perform' = [perform EXCEPT ![<<c, issued[c] + 1>>] = "sending"]
    /\ UNCHANGED <<key, workVars, scopeVars>>

(* The send case of the select, into a buffer that has room. *)
Send(call) ==
    LET w == PartitionFor(call) IN
    /\ perform[call] = "sending"
    /\ worker[w] # "exited"
    /\ Len(queue[w]) < BufferSize
    /\ queue' = [queue EXCEPT ![w] = Append(@, call)]
    /\ perform' = [perform EXCEPT ![call] = "sent"]
    /\ UNCHANGED <<key, issued, worker, current, started, scopeVars>>

(* The send case when the worker is parked in its select: the message is   *)
(* handed over directly, the only way with capacity 0.                     *)
Rendezvous(call) ==
    LET w == PartitionFor(call) IN
    /\ perform[call] = "sending"
    /\ worker[w] = "select" /\ queue[w] = <<>>
    /\ perform' = [perform EXCEPT ![call] = "sent"]
    /\ worker' = [worker EXCEPT ![w] = "handling"]
    /\ current' = [current EXCEPT ![w] = call]
    /\ started' = [started EXCEPT ![call] = @ + 1]
    /\ UNCHANGED <<key, issued, queue, scopeVars>>

(* Mutant: the context is also watched after the message was sent. *)
Bug_AbortLate(call) ==
    /\ perform[call] \in {"sending", "sent"}
    /\ call[1] \in cancelled
    /\ perform' = [perform EXCEPT ![call] = "aborted"]
    /\ UNCHANGED <<key, issued, workVars, scopeVars>>

(* The ctx.Done() case of the select. *)
Abort(call) ==
    /\ perform[call] = "sending"
    /\ call[1] \in cancelled
    /\ perform' = [perform EXCEPT ![call] = "aborted"]
    /\ UNCHANGED <<key, issued, workVars, scopeVars>>

(* Mutant: defer close(ch) is missing. *)
Bug_NeverClosed(call) == FALSE /\ UNCHANGED vars

(* A send on the channel of an exited worker panics and is recovered, also *)
(* when the sender was already blocked as the worker closed the channel.   *)
Recover(call) ==
    /\ perform[call] = "sending"
    /\ worker[PartitionFor(call)] = "exited"
    /\ perform' = [perform EXCEPT ![call] = "recovered"]
    /\ UNCHANGED <<key, issued, workVars, scopeVars>>

-----------------------------------------------------------------------------
(* Mutants: the message is read but not removed; the newest goes first. *)
Bug_ReceivePeek(w) ==
    /\ worker[w] = "select"
    /\ queue[w] # <<>>
    /\ worker' = [worker EXCEPT ![w] = "handling"]
    /\ current' = [current EXCEPT ![w] = Head(queue[w])]
    /\ started' = [started EXCEPT ![Head(queue[w])] = IF @ < 2 THEN @ + 1 ELSE @]
    /\ UNCHANGED <<callVars, queue, scopeVars>>

Bug_ReceiveNewest(w) ==
    LET last == Len(queue[w]) IN
    /\ worker[w] = "select"
    /\ last > 0
    /\ queue' = [queue EXCEPT ![w] = SubSeq(@, 1, last - 1)]
    /\ worker' = [worker EXCEPT ![w] = "handling"]
    /\ current' = [current EXCEPT ![w] = queue[w][last]]
    /\ started' = [started EXCEPT ![queue[w][last]] = @ + 1]
    /\ UNCHANGED <<callVars, scopeVars>>

(* The worker's loop.  Its select has no priority: with a message and a    *)
(* cancelled context both ready, either case may be taken.                 *)
Receive(w) ==
    /\ worker[w] = "select"
    /\ queue[w] # <<>>
    /\ queue' = [queue EXCEPT ![w] = Tail(@)]
    /\ worker' = [worker EXCEPT ![w] = "handling"]
    /\ current' = [current EXCEPT ![w] = Head(queue[w])]
    /\ started' = [started EXCEPT ![Head(queue[w])] = @ + 1]
    /\ UNCHANGED <<callVars, scopeVars>>

(* Mutant: the loop is missing, a worker handles one message. *)
Bug_HandleOnce(w) ==
    /\ worker[w] = "handling"
    /\ worker' = [worker EXCEPT ![w] = "exited"]
    /\ current' = [current EXCEPT ![w] = NoCall]
    /\ UNCHANGED <<callVars, queue, started, scopeVars>>

(* handleFn returns. *)
Finish(w) ==
    /\ worker[w] = "handling"
    /\ worker' = [worker EXCEPT ![w] = "select"]
    /\ current' = [current EXCEPT ![w] = NoCall]
    /\ UNCHANGED <<callVars, queue, started, scopeVars>>

(* Mutants: a worker leaves when it is idle; it watches pctx. *)
Bug_ExitWhenIdle(w) ==
    /\ worker[w] = "select" /\ queue[w] = <<>>
    /\ worker' = [worker EXCEPT ![w] = "exited"]
    /\ UNCHANGED <<callVars, queue, current, started, scopeVars>>

(* The ctx.Done() case: return, and the deferred close of the channel.     *)
(* Whatever is still buffered stays there for ever.                        *)
Exit(w) ==
    /\ worker[w] = "select"
    /\ Handler \in cancelled
    /\ worker' = [worker EXCEPT ![w] = "exited"]
    /\ UNCHANGED <<callVars, queue, current, started, scopeVars>>

-----------------------------------------------------------------------------
(* The scope.  A cancelled parent closes its own Done channel before it    *)
(* reaches the contexts derived from it, one at a time.                    *)
CancelParent ==
    /\ Parent \notin cancelled
    /\ cancelled' = cancelled \cup {Parent}
    /\ UNCHANGED <<callVars, workVars, scope>>

Propagate(x) ==
    /\ Parent \in cancelled
    /\ x \notin cancelled
    /\ cancelled' = cancelled \cup {x}
    /\ UNCHANGED <<callVars, workVars, scope>>

(* A caller may also run under a context of its own (a timeout). *)
CancelCaller(c) ==
    /\ c \notin cancelled
    /\ cancelled' = cancelled \cup {c}
    /\ UNCHANGED <<callVars, workVars, scope>>

(* The teardown function: once.Do { cancelHandler(); td() }.  Nothing      *)
(* between the two waits for the workers.                                  *)
CancelHandler ==
    /\ scope = "open"
    /\ scope' = "cancelled"
    /\ cancelled' = cancelled \cup {Handler}
    /\ UNCHANGED <<callVars, workVars>>

Teardown ==
    /\ scope = "cancelled"
    /\ scope' = "closed"
    /\ UNCHANGED <<callVars, workVars, cancelled>>

-----------------------------------------------------------------------------
CallStep(call) == Send(call) \/ Rendezvous(call) \/ Abort(call) \/ Recover(call)
ScopeStep == 
    \/ CancelParent
    \/ \E x \in Contexts : Propagate(x)
    \/ \E c \in Callers : CancelCaller(c)
    \/ CancelHandler
    \/ Teardown

Next ==
    \/ \E c \in Callers : Issue(c)
    \/ \E call \in Calls : CallStep(call)
    \/ \E w \in Workers : Receive(w) \/ Finish(w) \/ Exit(w)
    \/ ScopeStep

Spec == Init /\ [][Next]_vars

(* Goroutines run, handler functions return, and the runtime picks ready   *)
(* cases of a select at random, so a worker whose context stays cancelled  *)
(* leaves its loop.  Nobody is obliged to cancel or to close anything; a   *)
(* cancelled parent does reach its children, and a begun teardown ends.    *)
Fairness ==
    /\ \A call \in Calls : WF_vars(CallStep(call))
    /\ \A w \in Workers : WF_vars(Receive(w) \/ Exit(w)) /\ WF_vars(Finish(w))
    /\ \A w \in Workers : SF_vars(Exit(w))
    /\ \A x \in Contexts : WF_vars(Propagate(x))
    /\ WF_vars(Teardown)

FairSpec == Spec /\ Fairness

-----------------------------------------------------------------------------
(* Values of the variables, and the facts that tie them together: a worker *)
(* handles exactly one call or none.                                       *)
TypeOK ==
    /\ key \in [Calls -> Keys]
    /\ issued \in [Callers -> 0..MaxCalls]
    /\ perform \in [Calls -> PerformStates]
    /\ queue \in [Workers -> Seq(Calls)]
    /\ worker \in [Workers -> {"select", "handling", "exited"}]
    /\ current \in [Workers -> Calls \cup {NoCall}]
    /\ started \in [Calls -> Nat]
    /\ cancelled \subseteq Contexts
    /\ scope \in {"open", "cancelled", "closed"}

(* "Effects with the same PartitionKey() are handled by the same goroutine.*)
(* Useful for ensuring ordering by key": once a call of a caller has been  *)
(* started, every earlier call of that caller with the same key which the  *)
(* handler accepted has been started too.                                  *)
PerKeyOrder ==
    \A c \in Callers : \A m, n \in 1..MaxCalls :
        /\ m < n
        /\ key[<<c, m>>] = key[<<c, n>>]
        /\ started[<<c, n>>] > 0
        /\ perform[<<c, m>>] = "sent"
        => started[<<c, m>>] > 0

(* Two calls with the same key never run at the same time, although the    *)
(* workers run concurrently: a handler function may read and then write    *)
(* what belongs to its key.                                                *)
PerKeyExclusion ==
    \A v, w \in Workers :
        /\ v # w
        /\ worker[v] = "handling" /\ worker[w] = "handling"
        => key[current[v]] # key[current[w]]

(* A call is started at most once, and never when the caller was told that *)
(* it was not handed over: it saw its context end, or the recovered panic. *)
AtMostOnce ==
    \A call \in Calls :
        started[call] <= (IF perform[call] = "sent" THEN 1 ELSE 0)

(* The panic of a send is only ever met after the scope's context ended:   *)
(* no caller of a live scope loses its effect to a closed channel.         *)
RecoveredOnlyWhenDone ==
    (\E call \in Calls : perform[call] = "recovered") => Handler \in cancelled

(* Nothing stays behind for ever when a scope is over: its workers leave,  *)
(* and a blocked sender, even one whose own context is never cancelled, is *)
(* released: the worker closes its channel, and the send panics.           *)
EndedScopeReleases ==
    /\ Handler \in cancelled ~> \A w \in Workers : worker[w] = "exited"
    /\ \A call \in Calls :
        (perform[call] = "sending" /\ Handler \in cancelled)
            ~> perform[call] # "sending"

(* The comment "Stop intake first, then teardown" in the teardown function:*)
(* once td() has run no handler function is running and none begins.       *)
IntakeStopsBeforeTeardown ==
    scope = "closed" => \A w \in Workers : worker[w] # "handling"

(* Hiding workers, channels and contexts leaves the keyed executor: what a  *)
(* key has pending is what its worker's channel buffers of that key, in    *)
(* the channel's order.                                                    *)
Buffers(buffer, call) == \E i \in 1..Len(buffer) : buffer[i] = call

InFrontOf(buffer, first, second) ==
    \E i, j \in 1..Len(buffer) : i < j /\ buffer[i] = first /\ buffer[j] = second

Executor == INSTANCE KeyedExecutor WITH
    accepted <- {call \in Calls : perform[call] = "sent"},
    pending <- [k \in Keys |->
                    {call \in Calls :
                        key[call] = k /\ Buffers(queue[PartitionOf[k]], call)}],
    ahead <- {p \in Calls \X Calls :
                /\ key[p[1]] = key[p[2]]
                /\ InFrontOf(queue[PartitionOf[key[p[1]]]], p[1], p[2])},
    running <- [k \in Keys |->
                    LET call == current[PartitionOf[k]]
                    IN  IF call # NoCall /\ key[call] = k THEN call ELSE NoCall]

ImplementsKeyedExecutor == Executor!Spec
=============================================================================
