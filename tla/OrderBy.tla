------------------------------ MODULE OrderBy ------------------------------
(***************************************************************************)
(* The OrderBy stream operator: stream.OrderByEffect over an               *)
(* OrderedBoundedBuffer.  A concurrency child (the inserter) ranges over    *)
(* the source and inserts into a sorted window of windowSize elements; an  *)
(* insertion into a full window evicts the least element into the buffer's *)
(* sink, from which a second goroutine (the drainer) sends to the          *)
(* subscriber.  When the source closes, the deferred function flushes the  *)
(* window from a third goroutine, waits for the drainer and closes the     *)
(* subscriber's channel.                                                   *)
(*                                                                         *)
(* An element is a record of its sort key and its arrival position, so     *)
(* that elements with equal keys stay distinguishable.                     *)
(***************************************************************************)
EXTENDS Integers, Sequences, FiniteSets

CONSTANTS WindowSizes,  \* the window sizes an operator may be started with
          Keys,         \* what cmpFn compares
          MaxInput      \* bound: how many elements the source delivers

ASSUME WindowAssumption == WindowSizes \subseteq Nat \ {0}
ASSUME InputAssumption == Keys \subseteq Int /\ MaxInput \in Nat

VARIABLES
    windowSize,   \* the argument of OrderByEffect, maxBufLen of the buffer
    arrived,      \* history: the elements read from the source, in order
    srcClosed,    \* the source channel is closed
    cancelled,    \* ctx.Done() is closed
    window,       \* b.data
    sink,         \* b.sink: its buffer and whether it is closed
    inserter,     \* where the operator's goroutine is
    evicted,      \* the value its send to b.sink carries, if any
    flush,        \* the goroutine of Close: what it has left to send
    drainer,      \* where the draining goroutine is, and the value it holds
    out           \* history: what the subscriber received

vars == <<windowSize, arrived, srcClosed, cancelled, window, sink, inserter, evicted,
          flush, drainer, out>>

Elems == [key : Keys, pos : 1..MaxInput]
NoElem == [key |-> 0, pos |-> 0]
SinkCapacity == 2 * windowSize

SeqSet(s) == {s[i] : i \in DOMAIN s}

Init ==
    /\ windowSize \in WindowSizes
    /\ arrived = <<>> /\ out = <<>> /\ window = <<>>
    /\ srcClosed = FALSE /\ cancelled = FALSE
    /\ sink = [buf |-> <<>>, closed |-> FALSE]
    /\ inserter = "reading" /\ evicted = NoElem
    /\ flush = [at |-> "none", left |-> <<>>]
    /\ drainer = [at |-> "receiving", held |-> NoElem]

-----------------------------------------------------------------------------
Bug_InsertedBeforeEquals(s, v) ==
    LET below == Cardinality({i \in DOMAIN s : s[i].key < v.key})
    IN  SubSeq(s, 1, below) \o <<v>> \o SubSeq(s, below + 1, Len(s))

(* OrderedBoundedBuffer.Insert: binary search for the first element greater *)
(* than the new one, so that an equal key goes behind its elders.           *)
Inserted(s, v) ==
    LET below == Cardinality({i \in DOMAIN s : s[i].key <= v.key})
    IN  SubSeq(s, 1, below) \o <<v>> \o SubSeq(s, below + 1, Len(s))

(* Insert evicts b.data[0] when the window has become too long.             *)
Overflows(s) == Len(s) > windowSize

(* One turn of the range loop: receive an element and insert it.  The send  *)
(* of the evicted element is a step of its own (SendEvicted, SkipEvicted).  *)
Insert ==
    /\ inserter = "reading" /\ ~srcClosed /\ Len(arrived) < MaxInput
    /\ \E k \in Keys :
         LET v == [key |-> k, pos |-> Len(arrived) + 1]
             s == Inserted(window, v)
         IN  /\ arrived' = Append(arrived, v)
             /\ IF Overflows(s)
                THEN /\ window' = Tail(s) /\ evicted' = Head(s)
                     /\ inserter' = "evicting"
                ELSE /\ window' = s
                     /\ UNCHANGED <<evicted, inserter>>
    /\ UNCHANGED <<windowSize, srcClosed, cancelled, sink, flush, drainer, out>>

SendEvicted ==
    /\ inserter = "evicting" /\ Len(sink.buf) < SinkCapacity
    /\ sink' = [sink EXCEPT !.buf = Append(@, evicted)]
    /\ inserter' = "reading" /\ evicted' = NoElem
    /\ UNCHANGED <<windowSize, arrived, srcClosed, cancelled, window, flush, drainer, out>>

SkipEvicted ==
    /\ inserter = "evicting" /\ cancelled
    /\ inserter' = "reading" /\ evicted' = NoElem
    /\ UNCHANGED <<windowSize, arrived, srcClosed, cancelled, window, sink, flush, drainer,
                   out>>

(* The range loop ends with the source; the deferred function calls Close,  *)
(* which starts the flushing goroutine over b.data and waits for it.        *)
StartClose ==
    /\ inserter = "reading" /\ srcClosed
    /\ inserter' = "closing"
    /\ flush' = [at |-> "sending", left |-> window]
    /\ UNCHANGED <<windowSize, arrived, srcClosed, cancelled, window, sink, evicted,
                   drainer, out>>

FlushSend ==
    /\ flush.at = "sending" /\ flush.left # <<>>
    /\ Len(sink.buf) < SinkCapacity
    /\ sink' = [sink EXCEPT !.buf = Append(@, Head(flush.left))]
    /\ flush' = [flush EXCEPT !.left = Tail(@)]
    /\ UNCHANGED <<windowSize, arrived, srcClosed, cancelled, window, inserter, evicted,
                   drainer, out>>

(* ctx.Done wins a send of the flush: the goroutine returns without closing *)
(* b.sink.                                                                  *)
FlushAbandon ==
    /\ flush.at = "sending" /\ flush.left # <<>> /\ cancelled
    /\ flush' = [flush EXCEPT !.at = "ended"]
    /\ UNCHANGED <<windowSize, arrived, srcClosed, cancelled, window, sink, inserter,
                   evicted, drainer, out>>

Bug_FlushEndForgetsClose ==
    /\ flush.at = "sending" /\ flush.left = <<>>
    /\ flush' = [flush EXCEPT !.at = "ended"]
    /\ UNCHANGED <<windowSize, arrived, srcClosed, cancelled, window, sink, inserter,
                   evicted, drainer, out>>

FlushEnd ==
    /\ flush.at = "sending" /\ flush.left = <<>>
    /\ flush' = [flush EXCEPT !.at = "ended"]
    /\ sink' = [sink EXCEPT !.closed = TRUE]
    /\ UNCHANGED <<windowSize, arrived, srcClosed, cancelled, window, inserter, evicted,
                   drainer, out>>

(* Close returns when its goroutine is done or the context has ended.       *)
CloseReturns ==
    /\ inserter = "closing" /\ (flush.at = "ended" \/ cancelled)
    /\ inserter' = "joining"
    /\ UNCHANGED <<windowSize, arrived, srcClosed, cancelled, window, sink, evicted, flush,
                   drainer, out>>

(* <-done, then close(sink).                                                *)
Join ==
    /\ inserter = "joining" /\ drainer.at = "ended"
    /\ inserter' = "ended"
    /\ UNCHANGED <<windowSize, arrived, srcClosed, cancelled, window, sink, evicted, flush,
                   drainer, out>>

-----------------------------------------------------------------------------
(* The draining goroutine: for ordered := range buf.Source().               *)
DrainReceive ==
    /\ drainer.at = "receiving" /\ sink.buf # <<>>
    /\ drainer' = [at |-> "sending", held |-> Head(sink.buf)]
    /\ sink' = [sink EXCEPT !.buf = Tail(@)]
    /\ UNCHANGED <<windowSize, arrived, srcClosed, cancelled, window, inserter, evicted,
                   flush, out>>

DrainEnd ==
    /\ drainer.at = "receiving" /\ sink.buf = <<>> /\ sink.closed
    /\ drainer' = [drainer EXCEPT !.at = "ended"]
    /\ UNCHANGED <<windowSize, arrived, srcClosed, cancelled, window, sink, inserter,
                   evicted, flush, out>>

DrainSend ==
    /\ drainer.at = "sending"
    /\ out' = Append(out, drainer.held)
    /\ drainer' = [at |-> "receiving", held |-> NoElem]
    /\ UNCHANGED <<windowSize, arrived, srcClosed, cancelled, window, sink, inserter,
                   evicted, flush>>

DrainDrop ==
    /\ drainer.at = "sending" /\ cancelled
    /\ drainer' = [at |-> "receiving", held |-> NoElem]
    /\ UNCHANGED <<windowSize, arrived, srcClosed, cancelled, window, sink, inserter,
                   evicted, flush, out>>

(* The environment: the source's owner closes it, the context ends.         *)
CloseSource ==
    /\ ~srcClosed /\ srcClosed' = TRUE
    /\ UNCHANGED <<windowSize, arrived, cancelled, window, sink, inserter, evicted, flush,
                   drainer, out>>

Cancel ==
    /\ ~cancelled /\ cancelled' = TRUE
    /\ UNCHANGED <<windowSize, arrived, srcClosed, window, sink, inserter, evicted, flush,
                   drainer, out>>

InserterStep == SendEvicted \/ SkipEvicted \/ StartClose \/ CloseReturns \/ Join
FlushStep == FlushSend \/ FlushAbandon \/ FlushEnd
DrainerStep == DrainReceive \/ DrainEnd \/ DrainSend \/ DrainDrop

Next ==
    \/ Insert \/ InserterStep \/ FlushStep \/ DrainerStep
    \/ CloseSource \/ Cancel

Spec == Init /\ [][Next]_vars

(* The three goroutines are scheduled, and the subscriber receives; nothing *)
(* makes the source deliver or close, or the context end.                   *)
Fairness == WF_vars(InserterStep) /\ WF_vars(FlushStep) /\ WF_vars(DrainerStep)

FairSpec == Spec /\ Fairness

-----------------------------------------------------------------------------
TypeOK ==
    /\ arrived \in Seq(Elems) /\ out \in Seq(Elems)
    /\ srcClosed \in BOOLEAN /\ cancelled \in BOOLEAN
    /\ window \in Seq(Elems) /\ Len(window) <= windowSize
    /\ sink.buf \in Seq(Elems) /\ Len(sink.buf) <= SinkCapacity
    /\ sink.closed \in BOOLEAN
    /\ inserter \in {"reading", "evicting", "closing", "joining", "ended"}
    /\ evicted \in Elems \cup {NoElem}
    /\ flush.at \in {"none", "sending", "ended"} /\ flush.left \in Seq(Elems)
    /\ drainer.at \in {"receiving", "sending", "ended"}
    /\ drainer.held \in Elems \cup {NoElem}

Precedes(a, b) == a.key < b.key \/ (a.key = b.key /\ a.pos < b.pos)

LeastOf(S) == CHOOSE a \in S : \A b \in S \ {a} : Precedes(a, b)

(* The reference: the n-th element out is the least, with ties in arrival   *)
(* order, of the first windowSize + n that arrived and are not out yet.  It *)
(* holds of every run in which the context has not ended: the sink, the     *)
(* drainer and the flush never let one element overtake another or vanish,  *)
(* and when the operator is over the subscriber has them all.               *)
MatchesReference ==
    ~cancelled =>
        /\ inserter = "ended" => Len(out) = Len(arrived)
        /\ \A n \in DOMAIN out :
             LET seen == IF Len(arrived) < windowSize + n
                         THEN Len(arrived) ELSE windowSize + n
             IN  out[n] = LeastOf(SeqSet(SubSeq(arrived, 1, seen))
                                    \ SeqSet(SubSeq(out, 1, n - 1)))

(* Once the source has closed the operator ends and closes the subscriber's *)
(* channel, unless the context ends on the way.                             *)
FlushedAfterClose == srcClosed ~> (inserter = "ended" \/ cancelled)

(* README.md:212, "Stream operators stay alive until source is closed or    *)
(* context is canceled": the operator does not stop on cancellation alone,  *)
(* since its range loop waits on the source only.                           *)
EndsWhenCancelled == cancelled ~> inserter = "ended"

(* The same sentence, for the source: when the context ends while the       *)
(* window is flushed, b.sink is never closed, the drainer ranges over it    *)
(* for ever, and the operator waits for the drainer.                        *)
EndsWhenClosed == srcClosed ~> inserter = "ended"
=============================================================================
