----------------------------- MODULE StateEvents -----------------------------
(***************************************************************************)
(* The event sink of a state handler (effects/state/state.go): a buffered  *)
(* channel to which every operation that changed the store, and every      *)
(* insertion, is offered once by a child goroutine of its own, and which   *)
(* EventSourcingEffect hands to the stream effect.  Two kinds of goroutine *)
(* run the handler function on a key: the worker of its partition, which   *)
(* has one operation at a time, and the child that a time to live started. *)
(* The store is a CasStore, so that a change is one step; nothing is       *)
(* delegated.  Each key is the only one of its partition.                  *)
(***************************************************************************)
EXTENDS Naturals, Sequences, FiniteSets, SequencesExt

CONSTANTS
    Keys, Contents, Nothing,
    ZeroContent,    \* the zero value of the value type
    NumWorkers,     \* the sink's capacity is twice that
    InitMaps,
    MaxOperations   \* bound: operations of a worker

ASSUME EventsAssumption ==
    /\ Nothing \notin Contents /\ ZeroContent \in Contents /\ NumWorkers \in Nat \ {0}
    /\ InitMaps \subseteq [Keys -> Contents \union {Nothing}]

Workers == {"worker"} \X Keys
Expiries == {"timer"} \X Keys
Actors == Workers \union Expiries
KeyOf(a) == a[2]

Insertion(v) == [op |-> "InsertIfAbsent", old |-> Nothing, new |-> v]
Replacement(v, w) == [op |-> "compareAndSwap", old |-> v, new |-> w]
Deletion(v) == [op |-> "CompareAndDelete", old |-> v, new |-> Nothing]

(* A swap of equal values returns before anything else happens. *)
Payloads ==
    {Insertion(v) : v \in Contents} \union {Deletion(v) : v \in Contents}
        \union {Replacement(p[1], p[2]) : p \in {p \in Contents \X Contents : p[1] # p[2]}}

NoPayload == Deletion(Nothing)

VARIABLES
    initial,    \* the store WithEffectHandler started with: initMap
    store, operations,
    actor, payload, stamp,  \* what each goroutine does, and with which stamp
    clock,      \* the last stamp
    pending,    \* children that have not made their offer yet
    sink, got,  \* events in the sink, and received from it in some order
    lost,       \* keys of which an event was dropped
    scope,      \* of the state handler: open, ended, sink closed
    cancelled,  \* the children of the concurrency scope are cancelled
    raced       \* keys whose timer and worker were inside at the same time

storeVars == <<initial, store, operations>>
actorVars == <<actor, payload, stamp, clock>>
sinkVars == <<pending, sink, got, lost>>
eventsVars == <<storeVars, actorVars, sinkVars, scope, cancelled, raced>>

Capacity == 2 * NumWorkers

EventsTypeOK ==
    /\ store \in [Keys -> Contents \union {Nothing}]
    /\ actor \in [Actors -> {"idle", "called", "changed", "stamped", "hung", "done"}]
    /\ Len(sink) <= Capacity
    /\ \A e \in pending \union got : e.key \in Keys /\ e.stamp <= clock
    /\ scope \in {"open", "ended", "closed"}

EventsInit ==
    /\ initial \in InitMaps
    /\ store = initial /\ operations = [k \in Keys |-> 0]
    /\ actor = [a \in Actors |-> "idle"]
    /\ payload = [a \in Actors |-> NoPayload]
    /\ stamp = [a \in Actors |-> 0] /\ clock = 0
    /\ pending = {} /\ sink = <<>> /\ got = {} /\ lost = {}
    /\ scope = "open" /\ cancelled = FALSE /\ raced = {}

-----------------------------------------------------------------------------
(* What an operation does to a key that holds v; both an operation that    *)
(* does not match and an insertion that finds a value change nothing.      *)
Applies(p, v) == p.old = v
After(p, v) == IF Applies(p, v) THEN p.new ELSE v

(* What load leaves in the expiry's variable: the zero value, with an      *)
(* error that is only logged, if there is nothing under the key.           *)
Loaded(k) == IF store[k] = Nothing THEN ZeroContent ELSE store[k]

(* A worker receives an operation; a timer's child loads the value that it *)
(* is going to delete.                                                     *)
Accept(a) ==
    /\ actor[a] = "idle"
    /\ IF a \in Workers
       THEN /\ operations[KeyOf(a)] < MaxOperations
            /\ operations' = [operations EXCEPT ![KeyOf(a)] = @ + 1]
            /\ \E p \in Payloads : payload' = [payload EXCEPT ![a] = p]
       ELSE /\ payload' = [payload EXCEPT ![a] = Deletion(Loaded(KeyOf(a)))]
            /\ UNCHANGED operations
    /\ actor' = [actor EXCEPT ![a] = "called"]
    /\ UNCHANGED <<initial, store, stamp, clock, sinkVars, scope, cancelled, raced>>

(* The operation has returned. *)
Finish(a) ==
    /\ actor' = [actor EXCEPT ![a] = IF a \in Workers THEN "idle" ELSE "done"]
    /\ payload' = [payload EXCEPT ![a] = NoPayload]
    /\ stamp' = [stamp EXCEPT ![a] = 0]

(* The store's own atomic operation.  A refused insertion is offered too.  *)
Change(a) ==
    LET k == KeyOf(a)  p == payload[a] IN
    /\ actor[a] = "called"
    /\ store' = [store EXCEPT ![k] = After(p, @)]
    /\ IF Applies(p, store[k]) \/ p.op = "InsertIfAbsent"
       THEN actor' = [actor EXCEPT ![a] = "changed"] /\ UNCHANGED <<payload, stamp>>
       ELSE Finish(a)
    /\ raced' = IF \E b \in Actors \ {a} : KeyOf(b) = k /\ actor[b] = "changed"
                THEN raced \union {k} ELSE raced
    /\ UNCHANGED <<initial, operations, clock, sinkVars, scope, cancelled>>

(* Mutant: each child makes the stamp itself, when it makes its offer. *)
Bug_Offer(e) ==
    /\ e \in pending /\ scope # "closed" /\ Len(sink) < Capacity
    /\ clock' = clock + 1
    /\ sink' = Append(sink, [e EXCEPT !.stamp = clock + 1]) /\ pending' = pending \ {e}
    /\ UNCHANGED <<storeVars, actor, payload, stamp, got, lost, scope, cancelled, raced>>

(* statePayloadWithNow, in the goroutine that changed the store. *)
Stamp(a) ==
    /\ actor[a] = "changed"
    /\ clock' = clock + 1
    /\ stamp' = [stamp EXCEPT ![a] = clock + 1]
    /\ actor' = [actor EXCEPT ![a] = "stamped"]
    /\ UNCHANGED <<storeVars, payload, sinkVars, scope, cancelled, raced>>

(* concurrency.Effect comes back when the child runs; then the operation   *)
(* returns.  Once the handler's context has ended it may never come back.  *)
Bug_StartChild(a) ==    \* mutant: the operation itself waits for room
    /\ actor[a] = "stamped" /\ Len(sink) < Capacity
    /\ sink' = Append(sink,
            [key |-> KeyOf(a), payload |-> payload[a], stamp |-> stamp[a]])
    /\ Finish(a)
    /\ UNCHANGED <<storeVars, clock, pending, got, lost, scope, cancelled, raced>>

StartChild(a) ==
    /\ actor[a] = "stamped"
    /\ pending' = pending \union
            {[key |-> KeyOf(a), payload |-> payload[a], stamp |-> stamp[a]]}
    /\ Finish(a)
    /\ UNCHANGED <<storeVars, clock, sink, got, lost, scope, cancelled, raced>>

Hang(a) ==
    /\ actor[a] = "stamped" /\ scope # "open"
    /\ actor' = [actor EXCEPT ![a] = "hung"]
    /\ UNCHANGED <<storeVars, payload, stamp, clock, sinkVars, scope, cancelled, raced>>

-----------------------------------------------------------------------------
(* The child's select: there is room; the sink is full, or its context has *)
(* ended, or the sink was closed, of which the supervisor recovers.        *)
Offer(e) ==
    /\ e \in pending /\ scope # "closed" /\ Len(sink) < Capacity
    /\ sink' = Append(sink, e) /\ pending' = pending \ {e}
    /\ UNCHANGED <<storeVars, actorVars, got, lost, scope, cancelled, raced>>

Drop(e) ==
    /\ e \in pending
    /\ Len(sink) = Capacity \/ cancelled \/ scope = "closed"
    /\ lost' = lost \union {e.key} /\ pending' = pending \ {e}
    /\ UNCHANGED <<storeVars, actorVars, sink, got, scope, cancelled, raced>>

(* The stream's arbiter receives, if anyone has subscribed. *)
Receive ==
    /\ sink # <<>>
    /\ got' = got \union {Head(sink)} /\ sink' = Tail(sink)
    /\ UNCHANGED <<storeVars, actorVars, pending, lost, scope, cancelled, raced>>

(* The state handler's teardown: cancelHandler, then close(sink). *)
EndScope ==
    /\ scope # "closed"
    /\ scope' = IF scope = "open" THEN "ended" ELSE "closed"
    /\ UNCHANGED <<storeVars, actorVars, sinkVars, cancelled, raced>>

CancelChildren ==
    /\ ~ cancelled
    /\ cancelled' = TRUE
    /\ UNCHANGED <<storeVars, actorVars, sinkVars, scope, raced>>

-----------------------------------------------------------------------------
ActorStep(a) == Change(a) \/ Stamp(a) \/ StartChild(a) \/ Hang(a)
ChildStep == \E e \in pending : Offer(e) \/ Drop(e)

EventsNext ==
    \/ \E a \in Actors : Accept(a) \/ ActorStep(a)
    \/ ChildStep \/ Receive \/ EndScope \/ CancelChildren

(* Goroutines run.  Nobody has to receive events or to close the scope. *)
EventsFairness == WF_eventsVars(ChildStep) /\ \A a \in Actors : WF_eventsVars(ActorStep(a))

EventsSpec == EventsInit /\ [][EventsNext]_eventsVars
EventsFairSpec == EventsSpec /\ EventsFairness

-----------------------------------------------------------------------------
(* The events of a key, in the order of their stamps, done again. *)
Received(k) == {e \in got \union ToSet(sink) : e.key = k}
Stamped(k, n) == {e \in Received(k) : e.stamp = n}
Replay(k) ==
    LET run[n \in 0 .. clock] ==
            IF n = 0 THEN initial[k]
            ELSE IF Stamped(k, n) = {} THEN run[n - 1]
            ELSE After((CHOOSE e \in Stamped(k, n) : TRUE).payload, run[n - 1])
    IN  run[clock]

Settled(k) ==
    /\ \A a \in Actors : KeyOf(a) = k => actor[a] \in {"idle", "done"}
    /\ k \notin lost /\ \A e \in pending : e.key # k

(* EventSourcingEffect: although events overtake each other on their way,  *)
(* their stamps put them back in the order of the changes: whoever sorts   *)
(* them can reproduce the store.  Not when an event was dropped, nor when  *)
(* a time to live ended between a change and its stamp: then the order of  *)
(* the stamps is not that of the changes.                                  *)
ReplayReproduces ==
    \A k \in Keys : Settled(k) /\ k \notin raced => Replay(k) = store[k]

(* Nobody has to listen: with a full sink operations return all the same,  *)
(* as long as the scope lives, and no child is left behind with its event, *)
(* for which the teardown of the concurrency scope would wait, neither by  *)
(* a full sink nor by a closed one.                                        *)
NobodyWaitsForListeners ==
    /\ \A a \in Actors :
        actor[a] = "called" ~> actor[a] \in {"idle", "done"} \/ scope # "open"
    /\ []<>(pending = {})
=============================================================================
