------------------------------ MODULE Operators ------------------------------
(***************************************************************************)
(* Groups of children that one goroutine starts, one concurrency.Effect    *)
(* after the other, and that read channels until these close:              *)
(*   "pipeline"  MapEffect, PipeEffect and EagerFilterEffect in a row, each *)
(*               the source of the next (effects/stream/stream.go);        *)
(*   "merge"     MergeEffect: a child per source in a scope of its own, and *)
(*               one more that joins them and closes their common sink;    *)
(*   "await"     AwaitAll (effects/concurrency/helpers.go): a child per    *)
(*               task channel in a scope that is joined before the return. *)
(* What module Supervisor says of children is taken from there: a call of  *)
(* Effect may never return once the context has ended, and the watcher     *)
(* cancels the children it finds listed when that happens, and no others.  *)
(***************************************************************************)
EXTENDS Naturals, Sequences, SequencesExt

CONSTANTS
    Channels, Sink,     \* Sink is where the last stage sends
    Capacity,           \* of each channel
    NumStages,
    Setups

Stages == 1 .. NumStages
Elements == Channels \X Nat     \* of a source, with their numbers

(* Operators in a row send to channels of their own, and those of a merge  *)
(* to one; none of these is a source that its owner closes.  A merge reads *)
(* different channels.                                                     *)
ASSUME OperatorsAssumption ==
    /\ Sink \in Channels /\ Capacity \in Nat \ {0} /\ NumStages \in Nat
    /\ \A s \in Setups :
        /\ s.op \in {"pipeline", "merge", "await"}
        /\ s.op # "pipeline" => DOMAIN s.feed = {s.from[i] : i \in Stages}
        /\ s.op = "pipeline" =>
            NumStages > 0 /\ DOMAIN s.feed = {s.from[1]} /\ s.to[NumStages] = Sink
        /\ \A c \in DOMAIN s.feed : s.feed[c] \in Seq(Elements)
        /\ \A i \in Stages :
            /\ s.from[i] \in Channels
            /\ s.kind[i] = "await" <=> s.op = "await"
            /\ s.op # "await" => s.to[i] \in Channels \ DOMAIN s.feed
            /\ s.op = "merge" =>
                /\ s.to[i] = Sink /\ s.kind[i] = "pipe"
                /\ \A n \in DOMAIN s.feed[s.from[i]] : s.feed[s.from[i]][n][1] = s.from[i]
            /\ \A j \in Stages \ {i} :
                /\ s.op = "merge" => s.from[j] # s.from[i]
                /\ s.op = "pipeline" => s.to[j] # s.to[i]
            /\ s.op = "pipeline" /\ i > 1 => s.from[i] = s.to[i - 1]

VARIABLES
    setup,      \* chosen once: the operator, its stages, what it is fed
    chan, closed, fed,  \* channels, those closed, elements fed to each
    out,        \* what the consumer took
    stopped,    \* the consumer takes no more
    ended,      \* the context has ended
    listed, cancelled,  \* children the watcher found; those it cancelled
    starter,    \* the goroutine that starts the stages
    started, stage, hand,   \* the stages, and the element each has in hand
    closer,     \* the child of MergeEffect that closes the sink
    slot        \* AwaitAll's results and errors

chanVars == <<chan, closed, fed>>
consumerVars == <<out, stopped>>
contextVars == <<ended, listed, cancelled>>
groupVars == <<starter, started, closer>>
stageVars == <<stage, hand, slot>>
vars == <<setup, chanVars, consumerVars, contextVars, groupVars, stageVars>>

From(i) == setup.from[i]
To(i) == setup.to[i]
Sources == DOMAIN setup.feed

(* An element is its source and its number; mapFn renumbers it. *)
Mapped(v) == <<v[1], v[2] + 10>>
Applied(i, v) == IF setup.kind[i] = "map" THEN Mapped(v) ELSE v
Rejected(i, v) == setup.kind[i] = "filter" /\ v \notin setup.keep

NoWatch == {0}      \* the watcher has not seen the context's end
Zero == <<"zero", 0>>           \* a zero result and a nil error
CtxError == <<"cancelled", 0>>

TypeOK ==
    /\ closed \subseteq Channels
    /\ \A c \in Channels : Len(chan[c]) <= Capacity
    /\ listed = NoWatch \/ listed \subseteq Stages
    /\ cancelled \subseteq Stages
    /\ starter \in {"starting", "joining", "hung", "returned"}
    /\ stage \in [Stages -> {"none", "receiving", "offering", "leaving", "ended"}]
    /\ closer \in {"none", "joining", "ended"}

Init ==
    /\ setup \in Setups
    /\ chan = [c \in Channels |-> <<>>] /\ closed = {}
    /\ fed = [c \in Sources |-> 0]
    /\ out = <<>> /\ stopped = FALSE
    /\ ended = FALSE /\ listed = NoWatch /\ cancelled = {}
    /\ starter = "starting" /\ started = 0 /\ closer = "none"
    /\ stage = [i \in Stages |-> "none"]
    /\ hand = [i \in Stages |-> Zero]
    /\ slot = [i \in Stages |-> Zero]

-----------------------------------------------------------------------------
(* Whoever feeds a source: the owner of a stream, or the worker of a task  *)
(* handler, whose reply channel closes with or without a result in it.     *)
Feed(c) ==
    /\ fed[c] < Len(setup.feed[c]) /\ Len(chan[c]) < Capacity
    /\ chan' = [chan EXCEPT ![c] = Append(@, setup.feed[c][fed[c] + 1])]
    /\ fed' = [fed EXCEPT ![c] = @ + 1]
    /\ UNCHANGED <<setup, closed, consumerVars, contextVars, groupVars, stageVars>>

CloseSource(c) ==
    /\ fed[c] = Len(setup.feed[c]) /\ c \notin closed
    /\ closed' = closed \union {c}
    /\ UNCHANGED <<setup, chan, fed, consumerVars, contextVars, groupVars, stageVars>>

Consume ==
    /\ ~ stopped /\ chan[Sink] # <<>>
    /\ out' = Append(out, Head(chan[Sink]))
    /\ chan' = [chan EXCEPT ![Sink] = Tail(@)]
    /\ UNCHANGED <<setup, closed, fed, stopped, contextVars, groupVars, stageVars>>

StopConsuming ==
    /\ ~ stopped /\ setup.mayStop
    /\ stopped' = TRUE
    /\ UNCHANGED <<setup, chanVars, out, contextVars, groupVars, stageVars>>

-----------------------------------------------------------------------------
(* The context ends; the watcher ranges over the children it has then. *)
EndContext ==
    /\ ~ ended /\ setup.mayEnd
    /\ ended' = TRUE
    /\ UNCHANGED <<setup, chanVars, consumerVars, listed, cancelled, groupVars, stageVars>>

Watch ==
    /\ ended /\ listed = NoWatch
    /\ listed' = 1 .. started
    /\ UNCHANGED <<setup, chanVars, consumerVars, ended, cancelled, groupVars, stageVars>>

CancelChild(i) ==
    /\ i \in listed \ cancelled
    /\ cancelled' = cancelled \union {i}
    /\ UNCHANGED <<setup, chanVars, consumerVars, ended, listed, groupVars, stageVars>>

(* concurrency.Effect of the next stage returns when its child runs, or    *)
(* waits for a reply that nobody will send.                                *)
Start(i) ==
    /\ starter = "starting" /\ i = started + 1
    /\ started' = i
    /\ stage' = [stage EXCEPT ![i] = "receiving"]
    /\ UNCHANGED <<setup, chanVars, consumerVars, contextVars, starter, closer, hand, slot>>

Hang ==
    /\ starter = "starting" /\ ended
    /\ starter' = "hung"
    /\ UNCHANGED <<setup, chanVars, consumerVars, contextVars, started, closer, stageVars>>

(* All stages run.  MergeEffect starts one more child; AwaitAll goes on to *)
(* its deferred teardown.                                                  *)
StartedAll ==
    /\ starter = "starting" /\ started = NumStages
    /\ starter' = IF setup.op = "await" THEN "joining" ELSE "returned"
    /\ closer' = IF setup.op = "merge" THEN "joining" ELSE closer
    /\ UNCHANGED <<setup, chanVars, consumerVars, contextVars, started, stageVars>>

Joined == \A i \in Stages : stage[i] = "ended"

(* Mutants: the sink is closed, or AwaitAll returns, without the join. *)
Bug_CloseMerged ==
    /\ closer = "joining"
    /\ closer' = "ended"
    /\ closed' = closed \union {Sink}
    /\ UNCHANGED <<setup, chan, fed, consumerVars, contextVars, starter, started, stageVars>>

Bug_ReturnAwaited ==
    /\ starter = "joining"
    /\ starter' = "returned"
    /\ UNCHANGED <<setup, chanVars, consumerVars, contextVars, started, closer, stageVars>>

CloseMerged ==
    /\ closer = "joining" /\ Joined
    /\ closer' = "ended"
    /\ closed' = closed \union {Sink}
    /\ UNCHANGED <<setup, chan, fed, consumerVars, contextVars, starter, started, stageVars>>

ReturnAwaited ==
    /\ starter = "joining" /\ Joined
    /\ starter' = "returned"
    /\ UNCHANGED <<setup, chanVars, consumerVars, contextVars, started, closer, stageVars>>

-----------------------------------------------------------------------------
(* The loop of a stage.  An element for which mapFn or predicate panics    *)
(* ends it, and a nil value does the same in AwaitAll's type assertion.    *)
ReceiveFrom(i) ==
    /\ stage[i] = "receiving" /\ chan[From(i)] # <<>>
    /\ chan' = [chan EXCEPT ![From(i)] = Tail(@)]
    /\ UNCHANGED <<setup, closed, fed, consumerVars, contextVars, groupVars>>

Next1(i) == Head(chan[From(i)])

Panic(i) ==
    /\ ReceiveFrom(i) /\ Next1(i) \in setup.bad
    /\ stage' = [stage EXCEPT ![i] = "leaving"]
    /\ UNCHANGED <<hand, slot>>

Skip(i) ==
    /\ ReceiveFrom(i) /\ Next1(i) \notin setup.bad /\ Rejected(i, Next1(i))
    /\ UNCHANGED stageVars

Take(i) ==
    /\ ReceiveFrom(i) /\ Next1(i) \notin setup.bad /\ ~ Rejected(i, Next1(i))
    /\ IF setup.kind[i] = "await"
       THEN /\ slot' = [slot EXCEPT ![i] = Next1(i)]
            /\ stage' = [stage EXCEPT ![i] = "leaving"]
            /\ UNCHANGED hand
       ELSE /\ hand' = [hand EXCEPT ![i] = Applied(i, Next1(i))]
            /\ stage' = [stage EXCEPT ![i] = "offering"]
            /\ UNCHANGED slot

SourceClosed(i) ==
    /\ stage[i] = "receiving" /\ chan[From(i)] = <<>> /\ From(i) \in closed
    /\ stage' = [stage EXCEPT ![i] = "leaving"]
    /\ UNCHANGED <<setup, chanVars, consumerVars, contextVars, groupVars, hand, slot>>

Offer(i) ==
    /\ stage[i] = "offering" /\ Len(chan[To(i)]) < Capacity
    /\ chan' = [chan EXCEPT ![To(i)] = Append(@, hand[i])]
    /\ stage' = [stage EXCEPT ![i] = "receiving"]
    /\ UNCHANGED <<setup, closed, fed, consumerVars, contextVars, groupVars, hand, slot>>

(* Only the offer watches the child's context; AwaitAll's receive does too. *)
Watches(i) == stage[i] = IF setup.kind[i] = "await" THEN "receiving" ELSE "offering"

(* Mutants: the element is dropped and the loop goes on, as in             *)
(* LazyFilterEffect; the context is looked at before the send, not in it.  *)
Bug_GiveUpOne(i) ==
    /\ i \in cancelled /\ stage[i] = "offering"
    /\ stage' = [stage EXCEPT ![i] = "receiving"]
    /\ UNCHANGED <<setup, chanVars, consumerVars, contextVars, groupVars, hand, slot>>

Bug_GiveUpEarly(i) ==
    /\ i \in cancelled /\ stage[i] = "receiving"
    /\ stage' = [stage EXCEPT ![i] = "leaving"]
    /\ UNCHANGED <<setup, chanVars, consumerVars, contextVars, groupVars, hand, slot>>

GiveUp(i) ==
    /\ i \in cancelled /\ Watches(i)
    /\ stage' = [stage EXCEPT ![i] = "leaving"]
    /\ slot' = IF setup.kind[i] = "await" THEN [slot EXCEPT ![i] = CtxError] ELSE slot
    /\ UNCHANGED <<setup, chanVars, consumerVars, contextVars, groupVars, hand>>

(* The deferred close, which a child of MergeEffect does not have. *)
Bug_Leave(i) ==     \* mutant: closed at the end of the loop, not deferred
    /\ stage[i] = "leaving"
    /\ stage' = [stage EXCEPT ![i] = "ended"]
    /\ closed' = IF setup.op = "pipeline" /\ i \notin cancelled
                 THEN closed \union {To(i)} ELSE closed
    /\ UNCHANGED <<setup, chan, fed, consumerVars, contextVars, groupVars, hand, slot>>

Leave(i) ==
    /\ stage[i] = "leaving"
    /\ stage' = [stage EXCEPT ![i] = "ended"]
    /\ closed' = IF setup.op = "pipeline" THEN closed \union {To(i)} ELSE closed
    /\ UNCHANGED <<setup, chan, fed, consumerVars, contextVars, groupVars, hand, slot>>

-----------------------------------------------------------------------------
StageStep(i) ==
    \/ Panic(i) \/ Skip(i) \/ Take(i) \/ SourceClosed(i)
    \/ Offer(i) \/ GiveUp(i) \/ Leave(i)

GroupStep ==
    \/ \E i \in Stages : Start(i)
    \/ Hang \/ StartedAll \/ CloseMerged \/ ReturnAwaited

WatcherStep == Watch \/ \E i \in Stages : CancelChild(i)

Next ==
    \/ \E c \in Sources : Feed(c) \/ CloseSource(c)
    \/ Consume \/ StopConsuming \/ EndContext
    \/ WatcherStep \/ GroupStep \/ \E i \in Stages : StageStep(i)

(* Goroutines run, a consumer that has not stopped consumes.  Nobody has   *)
(* to feed or to close a source.                                           *)
Fairness ==
    /\ WF_vars(Consume) /\ WF_vars(WatcherStep) /\ WF_vars(GroupStep)
    /\ \A i \in Stages : WF_vars(StageStep(i))

Spec == Init /\ [][Next]_vars
FairSpec == Spec /\ Fairness

-----------------------------------------------------------------------------
(* What comes out of a sequence when f says what becomes of each element.  *)
Passed(f, s) ==
    LET run[n \in 0 .. Len(s)] == IF n = 0 THEN <<>> ELSE run[n - 1] \o f[s[n]]
    IN  run[Len(s)]

Through(i) ==
    [v \in Elements |-> IF Rejected(i, v) THEN <<>> ELSE <<Applied(i, v)>>]
Only(c) == [v \in Elements |-> IF v[1] = c THEN <<v>> ELSE <<>>]

(* What should come out of a source, and what has so far. *)
Expected(c) ==
    LET after[i \in 0 .. NumStages] ==
            IF i = 0 THEN setup.feed[c] ELSE Passed(Through(i), after[i - 1])
    IN  IF setup.op = "pipeline" THEN after[NumStages] ELSE setup.feed[c]

Delivered(c) ==
    IF setup.op = "pipeline" THEN out \o chan[Sink]
    ELSE Passed(Only(c), out \o chan[Sink])

(* Whenever a group is cancelled or a user's function panics, what the     *)
(* sink received of each source has no gap, no repetition and its order;   *)
(* a sink that closes although nothing of the kind happened has it all.    *)
DeliversInOrder ==
    setup.op # "await" => \A c \in Sources :
        /\ IsPrefix(Delivered(c), Expected(c))
        /\ Sink \in closed /\ ~ ended /\ setup.bad = {} => Delivered(c) = Expected(c)

(* A sink is closed after its last sender: the closing child of MergeEffect *)
(* joins the others, however each of them comes to its end.                *)
NoSendOnClosed ==
    \A i \in Stages : stage[i] = "offering" => To(i) \notin closed

(* Once the sources are closed, or the tasks answered, the sink closes and *)
(* AwaitAll returns: cancelled or not, after a panic too, unless the       *)
(* consumer stopped or a call of Effect never came back.                   *)
EndsWithItsSources ==
    Sources \subseteq closed ~>
        \/ stopped \/ starter = "hung"
        \/ IF setup.op = "await" THEN starter = "returned" ELSE Sink \in closed

(* A child that was cancelled does not stay blocked in a send that nobody  *)
(* receives, nor in AwaitAll on a task that never answers.  In the range   *)
(* over its source it does stay: the loop does not watch the context.      *)
CancelledChildYields ==
    \A i \in Stages :
        i \in cancelled ~>
            \/ stage[i] = "ended"
            \/ setup.kind[i] # "await" /\ stage[i] = "receiving"

(* The slices AwaitAll returned are the caller's: no child writes to them. *)
ReturnedIsFinal == [][starter = "returned" => UNCHANGED slot]_vars

(* README.md:212, "Stream operators stay alive until source is closed or    *)
(* context is canceled": an operator whose context was cancelled ends.     *)
EndsWhenCancelled == \A i \in Stages : i \in cancelled ~> stage[i] = "ended"

(* concurrency/helpers.go:9, AwaitAll "waits for all tasks to complete and *)
(* returns their results": for each task it returns a result or an error.  *)
ReturnsEveryResult ==
    setup.op = "await" /\ starter = "returned" =>
        \A i \in Stages : slot[i] # Zero
=============================================================================
