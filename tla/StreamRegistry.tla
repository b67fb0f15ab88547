--------------------------- MODULE StreamRegistry ---------------------------
(***************************************************************************)
(* The registry and the arbiter of the stream effect, for one source.  The *)
(* single worker of the stream handler serves Subscribe and Unsubscribe    *)
(* messages on a sync.Map; the first subscription starts an arbiter, a     *)
(* concurrency child that receives from the source, reloads the list of    *)
(* subscribers and offers the message to each.  The worker and the arbiter *)
(* share the map entry and the backing arrays of the lists.                *)
(*                                                                         *)
(* A list is a Go slice: a backing array and a length.  append reuses the  *)
(* array while it has room and moves to one of twice the size otherwise;   *)
(* the append that removes an element shifts the array in place.           *)
(***************************************************************************)
EXTENDS Integers, Sequences, FiniteSets, Functions

CONSTANTS Subs,          \* subscribers, each with a sink of its own
          Setups,        \* who takes part, with which channels, see setup
          NoChannel,
          BufferSize,    \* of the worker's channel
          MaxArbiters    \* bound: arbiters started (first subscriptions)

ASSUME SetupsAssumption ==
    \A u \in Setups : DOMAIN u.dropped \subseteq Subs /\ u.leavers \subseteq Subs
                        /\ u.messages \in Nat
ASSUME BoundsAssumption == BufferSize \in Nat \ {0} /\ MaxArbiters \in Nat

VARIABLES
    setup,      \* the configuration: it never changes
    entry,      \* reg.Load(source): None, a list, or Raw (see UnsubscribeSwap)
    arrays,     \* the backing arrays, by number; an array is a sequence
    inbox,      \* the worker's channel
    worker,     \* what the worker is doing
    scope,      \* the stream handler: open, cancelled, cleared
    cancelled,  \* the concurrency children's context has ended
    arb,        \* the arbiters
    sent,       \* messages the source has delivered
    srcClosed, sinkClosed, dropClosed,
    asked,      \* per subscriber: which requests it has made
    members,    \* history: handled subscriptions less handled unsubscriptions
    left,       \* history: value of sent when the unsubscription was handled
    offered     \* history: the messages offered to each subscriber

vars == <<setup, entry, arrays, inbox, worker, scope, cancelled, arb, sent, srcClosed,
          sinkClosed, dropClosed, asked, members, left, offered>>

Dropped == setup.dropped       \* each subscriber's dropped channel, or NoChannel
Users == DOMAIN Dropped
Leavers == setup.leavers       \* those who unsubscribe, and then close their sinks
MaxMessages == setup.messages  \* bound: messages the source delivers

None == [kind |-> "none", arr |-> 0, len |-> 0]
Raw == [None EXCEPT !.kind = "raw"]
List(a, n) == [kind |-> "list", arr |-> a, len |-> n]

Idle == [at |-> "idle", sub |-> NoChannel, old |-> None]
Arbiters == 1..MaxArbiters
Over(how) == [at |-> how, sinks |-> None, cursor |-> 0, msg |-> 0]
Absent == Over("absent")
Channels == Range(Dropped) \ {NoChannel}

(* A panic that nothing recovers ends the process.                          *)
Alive == worker.at # "crashed"

Init ==
    /\ setup \in Setups
    /\ entry = None /\ arrays = <<>> /\ inbox = <<>> /\ worker = Idle
    /\ scope = "open" /\ cancelled = FALSE
    /\ arb = [i \in Arbiters |-> Absent]
    /\ sent = 0 /\ srcClosed = FALSE
    /\ sinkClosed = [s \in Subs |-> FALSE]
    /\ dropClosed = [d \in Channels |-> FALSE]
    /\ asked = [s \in Subs |-> "nothing"]
    /\ members = {} /\ left = [s \in Subs |-> -1]
    /\ offered = [s \in Subs |-> <<>>]

registry == <<setup, entry, arrays, worker, members, left>>
arbiter == <<arb, sent, offered>>
channels == <<srcClosed, sinkClosed, dropClosed>>
outside == <<inbox, asked, scope, cancelled>>

-----------------------------------------------------------------------------
(* Callers.  Both effects are sent and not waited for.                      *)
HasRoom == Len(inbox) < BufferSize

Subscribe(s) ==
    /\ Alive /\ HasRoom /\ s \in Users /\ asked[s] = "nothing"
    /\ asked' = [asked EXCEPT ![s] = "subscribe"]
    /\ inbox' = Append(inbox, [op |-> "subscribe", sub |-> s])
    /\ UNCHANGED <<registry, arbiter, channels, scope, cancelled>>

Unsubscribe(s) ==
    /\ Alive /\ HasRoom /\ s \in Leavers /\ asked[s] = "subscribe"
    /\ asked' = [asked EXCEPT ![s] = "unsubscribe"]
    /\ inbox' = Append(inbox, [op |-> "unsubscribe", sub |-> s])
    /\ UNCHANGED <<registry, arbiter, channels, scope, cancelled>>

CloseOwnSink(s) ==
    /\ Alive /\ asked[s] = "unsubscribe"
    /\ asked' = [asked EXCEPT ![s] = "closed"]
    /\ sinkClosed' = [sinkClosed EXCEPT ![s] = TRUE]
    /\ UNCHANGED <<registry, arbiter, srcClosed, dropClosed, inbox, scope,
                   cancelled>>

CloseSource ==
    /\ Alive /\ ~srcClosed /\ srcClosed' = TRUE
    /\ UNCHANGED <<registry, arbiter, outside, sinkClosed, dropClosed>>

-----------------------------------------------------------------------------
(* The worker.  It may serve what its channel still holds after the scope's *)
(* teardown, as every worker may.                                           *)
Serving(op) ==
    /\ worker = Idle /\ inbox # <<>> /\ Head(inbox).op = op
    /\ inbox' = Tail(inbox)

(* newSinkDropPair panics in the worker's goroutine, which nothing recovers.*)
SubscribeCrash ==
    /\ Serving("subscribe")
    /\ Dropped[Head(inbox).sub] = NoChannel
    /\ worker' = [Idle EXCEPT !.at = "crashed"]
    /\ UNCHANGED <<setup, entry, arrays, members, left, arbiter, channels, asked,
                   scope, cancelled>>

FirstArbiter == {i \in Arbiters : arb[i] = Absent
                                    /\ \A j \in 1..(i - 1) : arb[j] # Absent}

(* No entry: store a list of one and start an arbiter.                      *)
SubscribeFirst ==
    /\ Serving("subscribe") /\ entry = None
    /\ Dropped[Head(inbox).sub] # NoChannel
    /\ arrays' = Append(arrays, <<Head(inbox).sub>>)
    /\ entry' = List(Len(arrays) + 1, 1)
    /\ members' = members \cup {Head(inbox).sub}
    /\ \E i \in FirstArbiter :
         arb' = [arb EXCEPT ![i] = [Absent EXCEPT !.at = "receiving"]]
    /\ UNCHANGED <<setup, worker, left, sent, offered, channels, asked, scope,
                   cancelled>>

(* The worker waits for concurrency.Effect on its reply channel alone: when  *)
(* the effect is lost, at the end of a scope, it waits for ever.            *)
SubscribeFirstHangs ==
    /\ Serving("subscribe") /\ entry = None
    /\ cancelled \/ scope # "open"
    /\ Dropped[Head(inbox).sub] # NoChannel
    /\ arrays' = Append(arrays, <<Head(inbox).sub>>)
    /\ entry' = List(Len(arrays) + 1, 1)
    /\ members' = members \cup {Head(inbox).sub}
    /\ worker' = [Idle EXCEPT !.at = "stuck"]
    /\ UNCHANGED <<setup, left, arbiter, channels, asked, scope, cancelled>>

(* An entry that is not a *RegisteredList: logged, and the caller is told   *)
(* nothing.                                                                 *)
SubscribeUncast ==
    /\ Serving("subscribe") /\ entry = Raw
    /\ Dropped[Head(inbox).sub] # NoChannel
    /\ UNCHANGED <<registry, arbiter, channels, asked, scope, cancelled>>

SubscribeLoad ==
    /\ Serving("subscribe") /\ entry.kind = "list"
    /\ Dropped[Head(inbox).sub] # NoChannel
    /\ worker' = [at |-> "subscribing", sub |-> Head(inbox).sub, old |-> entry]
    /\ UNCHANGED <<setup, entry, arrays, members, left, arbiter, channels, asked,
                   scope, cancelled>>

(* append(old, s): in place while the array (a power of two) has room.      *)
Full(n) == \E k \in 0..n : n = 2^k

Appended(old, s) ==
    LET items == Append(SubSeq(arrays[old.arr], 1, old.len), s)
    IN  IF Full(old.len)
        THEN [arrays |-> Append(arrays, items),
              list |-> List(Len(arrays) + 1, old.len + 1)]
        ELSE [arrays |-> [arrays EXCEPT ![old.arr] = items],
              list |-> List(old.arr, old.len + 1)]

Bug_SubscribeSpawns ==
    /\ Alive /\ worker.at = "subscribing" /\ worker' = Idle
    /\ LET new == Appended(worker.old, worker.sub)
       IN  /\ arrays' = new.arrays
           /\ entry' = IF entry = worker.old THEN new.list ELSE entry
           /\ members' = IF entry = worker.old
                         THEN members \cup {worker.sub} ELSE members
    /\ \E i \in FirstArbiter :
         arb' = [arb EXCEPT ![i] = [Absent EXCEPT !.at = "receiving"]]
    /\ UNCHANGED <<setup, left, sent, offered, channels, outside>>

(* Retry(5) repeats the same CompareAndSwap on the same old list, which     *)
(* never comes back once it was replaced: the attempts are one step.        *)
SubscribeSwap ==
    /\ Alive /\ worker.at = "subscribing" /\ worker' = Idle
    /\ LET new == Appended(worker.old, worker.sub)
       IN  /\ arrays' = new.arrays
           /\ entry' = IF entry = worker.old THEN new.list ELSE entry
           /\ members' = IF entry = worker.old
                         THEN members \cup {worker.sub} ELSE members
    /\ UNCHANGED <<setup, left, arbiter, channels, outside>>

Registered(l) == IF l.kind = "list" THEN SubSeq(arrays[l.arr], 1, l.len) ELSE <<>>

(* No list in the entry, or the sink is not in it: nothing to do.           *)
UnsubscribeNothing ==
    /\ Serving("unsubscribe")
    /\ Head(inbox).sub \notin Range(Registered(entry))
    /\ UNCHANGED <<registry, arbiter, channels, asked, scope, cancelled>>

(* append(r[:idx], r[idx+1:]...) moves the later elements down in the array *)
(* that the entry, and perhaps an arbiter, still refer to.                  *)
ShiftedDown(items, n, idx) ==
    [k \in DOMAIN items |-> IF k >= idx /\ k < n THEN items[k + 1] ELSE items[k]]

UnsubscribeLoad ==
    /\ Serving("unsubscribe")
    /\ Head(inbox).sub \in Range(Registered(entry))
    /\ LET s == Head(inbox).sub
           idx == CHOOSE k \in 1..entry.len : arrays[entry.arr][k] = s
       IN  /\ arrays' = [arrays EXCEPT ![entry.arr] =
                            ShiftedDown(@, entry.len, idx)]
           /\ worker' = [at |-> "unsubscribing", sub |-> s, old |-> entry]
    /\ UNCHANGED <<setup, entry, members, left, arbiter, channels, asked, scope,
                   cancelled>>

Bug_UnsubscribeForgetsSwap ==
    /\ Alive /\ worker.at = "unsubscribing" /\ worker' = Idle
    /\ members' = members \ {worker.sub}
    /\ left' = [left EXCEPT ![worker.sub] = sent]
    /\ UNCHANGED <<setup, entry, arrays, arbiter, channels, outside>>

(* The value swapped in is the shortened slice itself, not a list around it.*)
UnsubscribeSwap ==
    /\ Alive /\ worker.at = "unsubscribing" /\ worker' = Idle
    /\ IF entry = worker.old
       THEN /\ entry' = Raw
            /\ members' = members \ {worker.sub}
            /\ left' = [left EXCEPT ![worker.sub] = sent]
       ELSE UNCHANGED <<setup, entry, members, left>>
    /\ UNCHANGED <<setup, arrays, arbiter, channels, outside>>

-----------------------------------------------------------------------------
(* The arbiter: for v := range source.                                      *)
Receive(i) ==
    /\ Alive /\ arb[i].at = "receiving" /\ ~srcClosed /\ sent < MaxMessages
    /\ sent' = sent + 1
    /\ arb' = [arb EXCEPT ![i].at = "loading", ![i].msg = sent + 1]
    /\ UNCHANGED <<registry, offered, channels, outside>>

Bug_ReloadOnce(i) ==
    /\ Alive /\ arb[i].at = "loading"
    /\ LET l == IF arb[i].sinks = None THEN entry ELSE arb[i].sinks
       IN  arb' = [arb EXCEPT
             ![i].at = IF Registered(l) = <<>> THEN "receiving" ELSE "offering",
             ![i].sinks = IF l.kind = "list" THEN l ELSE None,
             ![i].cursor = 1]
    /\ UNCHANGED <<registry, sent, offered, channels, outside>>

(* A failed load leaves a nil list behind, also for the end of the source.  *)
Reload(i) ==
    /\ Alive /\ arb[i].at = "loading"
    /\ arb' = [arb EXCEPT
         ![i].at = IF Registered(entry) = <<>> THEN "receiving" ELSE "offering",
         ![i].sinks = IF entry.kind = "list" THEN entry ELSE None,
         ![i].cursor = IF Registered(entry) = <<>> THEN 0 ELSE 1,
         ![i].msg = IF Registered(entry) = <<>> THEN 0 ELSE @]
    /\ UNCHANGED <<registry, sent, offered, channels, outside>>

Current(i) == arrays[arb[i].sinks.arr][arb[i].cursor]

Advanced(i, end) ==
    IF arb[i].cursor = arb[i].sinks.len
    THEN IF end = "ended" THEN Over(end)
         ELSE [arb[i] EXCEPT !.at = end, !.cursor = 0, !.msg = 0]
    ELSE [arb[i] EXCEPT !.cursor = @ + 1]

(* The select has a default: the sink or the dropped channel takes the      *)
(* message, or it is logged and lost.  With one of them closed that is      *)
(* still possible if the other one was ready.                               *)
Offer(i) ==
    /\ Alive /\ arb[i].at = "offering"
    /\ ~(sinkClosed[Current(i)] /\ dropClosed[Dropped[Current(i)]])
    /\ offered' = [offered EXCEPT ![Current(i)] = Append(@, arb[i].msg)]
    /\ arb' = [arb EXCEPT ![i] = Advanced(i, "receiving")]
    /\ UNCHANGED <<registry, sent, channels, outside>>

(* A send on a closed channel panics; the child recovers and ends.          *)
OfferPanic(i) ==
    /\ Alive /\ arb[i].at = "offering"
    /\ sinkClosed[Current(i)] \/ dropClosed[Dropped[Current(i)]]
    /\ arb' = [arb EXCEPT ![i] = Over("panicked")]
    /\ UNCHANGED <<registry, sent, offered, channels, outside>>

Interrupted(i) ==
    /\ Alive /\ arb[i].at = "offering" /\ cancelled
    /\ arb' = [arb EXCEPT ![i] = Over("ended")]
    /\ UNCHANGED <<registry, sent, offered, channels, outside>>

Bug_SourceEndsOnlyMine(i) ==
    /\ Alive /\ arb[i].at = "receiving" /\ srcClosed
    /\ arb[i].sinks # None /\ entry = arb[i].sinks
    /\ entry' = None
    /\ arb' = [arb EXCEPT ![i].at = "closing", ![i].cursor = 1]
    /\ UNCHANGED <<setup, arrays, worker, members, left, sent, offered, channels,
                   outside>>

(* After the last message: CompareAndDelete of the list that message loaded.*)
SourceEnds(i) ==
    /\ Alive /\ arb[i].at = "receiving" /\ srcClosed
    /\ LET mine == arb[i].sinks # None /\ entry = arb[i].sinks
       IN  /\ entry' = IF mine THEN None ELSE entry
           /\ arb' = [arb EXCEPT ![i] =
                         IF mine THEN [@ EXCEPT !.at = "closing", !.cursor = 1]
                         ELSE Over("ended")]
    /\ UNCHANGED <<setup, arrays, worker, members, left, sent, offered, channels,
                   outside>>

(* close(Sink), close(Dropped) for each pair, each of which panics when the *)
(* channel is closed already.                                               *)
CloseSinks(i) ==
    LET s == Current(i)
        panics == sinkClosed[s] \/ dropClosed[Dropped[s]]
    IN  /\ Alive /\ arb[i].at = "closing"
        /\ arb' = [arb EXCEPT ![i] = IF panics THEN Over("recovered")
                                     ELSE Advanced(i, "ended")]
        /\ sinkClosed' = [sinkClosed EXCEPT ![s] = TRUE]
        /\ dropClosed' = IF sinkClosed[s] THEN dropClosed
                         ELSE [dropClosed EXCEPT ![Dropped[s]] = TRUE]
        /\ UNCHANGED <<registry, sent, offered, srcClosed, outside>>

-----------------------------------------------------------------------------
(* The end of the scopes: endOfStreamHandler cancels the worker's context,  *)
(* then clears the registry; the arbiters live in the outer concurrency     *)
(* scope, whose context ends on its own.                                    *)
WorkerExit ==
    /\ Alive /\ scope # "open" /\ worker = Idle
    /\ worker' = [Idle EXCEPT !.at = "exited"]
    /\ UNCHANGED <<setup, entry, arrays, members, left, arbiter, channels, outside>>

EndScope ==
    /\ Alive /\ scope = "open" /\ scope' = "cancelled"
    /\ UNCHANGED <<registry, arbiter, channels, inbox, asked, cancelled>>

ClearRegistry ==
    /\ Alive /\ scope = "cancelled" /\ scope' = "cleared" /\ entry' = None
    /\ UNCHANGED <<setup, arrays, worker, members, left, arbiter, channels, inbox,
                   asked, cancelled>>

Cancel ==
    /\ Alive /\ ~cancelled /\ cancelled' = TRUE
    /\ UNCHANGED <<registry, arbiter, channels, inbox, asked, scope>>

Outside ==
    \/ CloseSource
    \/ \E s \in Subs : Subscribe(s) \/ Unsubscribe(s) \/ CloseOwnSink(s)

Work ==
    \/ SubscribeCrash \/ SubscribeFirst \/ SubscribeFirstHangs
    \/ SubscribeUncast \/ SubscribeLoad \/ SubscribeSwap
    \/ UnsubscribeNothing \/ UnsubscribeLoad \/ UnsubscribeSwap
    \/ WorkerExit

Arbit(i) ==
    \/ Receive(i) \/ Reload(i) \/ Offer(i) \/ OfferPanic(i) \/ Interrupted(i)
    \/ SourceEnds(i) \/ CloseSinks(i)

Next ==
    \/ Outside \/ Work \/ (\E i \in Arbiters : Arbit(i))
    \/ EndScope \/ ClearRegistry \/ Cancel

Spec == Init /\ [][Next]_vars

(* The worker and the arbiters are goroutines that never block except for   *)
(* an empty inbox or an idle source.                                        *)
Fairness ==
    /\ WF_vars(Work)
    /\ \A i \in Arbiters : WF_vars(Arbit(i))

FairSpec == Spec /\ Fairness

-----------------------------------------------------------------------------
Lists == {None, Raw} \cup {List(a, n) : a \in DOMAIN arrays, n \in 1..Cardinality(Subs)}

TypeOK ==
    /\ entry \in Lists
    /\ \A a \in DOMAIN arrays : Range(arrays[a]) \subseteq Subs
    /\ worker.at \in {"idle", "subscribing", "unsubscribing", "crashed", "exited",
                     "stuck"}
    /\ worker.old \in Lists
    /\ scope \in {"open", "cancelled", "cleared"}
    /\ \A i \in Arbiters :
         /\ arb[i].at \in {"absent", "receiving", "loading", "offering",
                           "closing", "ended", "panicked", "recovered"}
         /\ arb[i].sinks \in Lists \ {Raw}
         /\ arb[i].cursor \in 0..Cardinality(Subs)
         /\ arb[i].msg \in 0..MaxMessages
    /\ members \subseteq Subs

(* Once an unsubscription has been handled, no message that the source      *)
(* delivers later is offered to that sink, whatever list an arbiter still   *)
(* iterates over.                                                           *)
SilentAfterUnsubscribe ==
    \A s \in Subs : left[s] # -1 =>
        \A k \in DOMAIN offered[s] : offered[s][k] <= left[s]

(* While the stream scope is open a sink sees the messages in the order of  *)
(* the source: a source never has two arbiters.                             *)
SourceOrder ==
    scope = "open" =>
        \A s \in Subs : \A j, k \in DOMAIN offered[s] :
            j < k => offered[s][j] <= offered[s][k]

Leaving == IF worker.at = "unsubscribing" THEN {worker.sub} ELSE {}

(* Until the first unsubscription replaces the list, a message is addressed *)
(* to every subscriber that is registered and not leaving, and to nobody    *)
(* else, although the worker rewrites the list and its array meanwhile.     *)
ReloadSeesAll ==
    [][\A i \in Arbiters :
          (arb[i].at = "loading" /\ arb'[i].at # "loading"
             /\ scope = "open" /\ entry # Raw)
              => /\ members \ Leaving \subseteq Range(Registered(arb'[i].sinks))
                 /\ Range(Registered(arb'[i].sinks)) \subseteq members]_vars

(* When the source closes every arbiter ends, also one whose list was       *)
(* replaced, deleted or never loaded.                                       *)
ArbiterEndsWithSource ==
    srcClosed ~> (~Alive
                    \/ \A i \in Arbiters :
                          arb[i].at \in {"absent", "ended", "panicked", "recovered"})

(* stream.go:195, "It removes the sink channel from the list of             *)
(* subscribers": the other subscribers stay on the list.                    *)
RemovesOnlyThatSink ==
    \A s \in members :
        scope = "open" /\ worker = Idle /\ entry # None
            => s \in Range(Registered(entry))

(* stream.go:177, "It closes the sink channel when done": the source closes *)
(* and, with both scopes still there, every subscriber's sink is closed.    *)
SinksClosedWhenDone ==
    \A s \in Subs :
        (srcClosed /\ s \in members) ~> (sinkClosed[s] \/ cancelled \/ scope # "open")

(* stream_test.go:321, "Make sure arbit does not panic due to closed sink": *)
(* a subscriber that unsubscribes and then closes its sink.                 *)
ArbiterNeverPanics == \A i \in Arbiters : arb[i].at # "panicked"

(* stream.go:178, "The dropped channel is optional and can be nil".         *)
NilDroppedIsFine == Alive

(* stream.go:408, "Send the message to all sinks": to each sink once.       *)
OfferedOnce ==
    scope = "open" =>
        \A s \in Subs : \A j, k \in DOMAIN offered[s] :
            j # k => offered[s][j] # offered[s][k]
=============================================================================
