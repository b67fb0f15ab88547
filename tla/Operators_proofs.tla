-------------------------- MODULE Operators_proofs --------------------------
(***************************************************************************)
(* Theorems about operators and AwaitAll, for any number of stages, any    *)
(* channels, sources and functions.                                        *)
(*                                                                         *)
(* That nobody sends on a closed channel, and that AwaitAll's slices are   *)
(* the caller's, rests on who closes what (ClosedBy) and on stages that    *)
(* have ended staying so: a join that saw them all still sees them.        *)
(*                                                                         *)
(* That nothing is skipped, repeated or reordered is an argument about     *)
(* histories that the state does not keep: what each stage has received    *)
(* (took).  Flows says that there are such histories which fit what is in  *)
(* the channels, and each action is shown to leave some.  Passed, which    *)
(* says what functions make of a sequence, is a recursive function; its    *)
(* values are found from any other function that obeys its equations       *)
(* (IsRun), by induction over sets of numbers (Induction).                 *)
(***************************************************************************)
EXTENDS Operators, SequenceTheorems, WellFoundedInduction, TLAPS

(* A stage has a state exactly when it was started. *)
Staged ==
    /\ started \in 0 .. NumStages
    /\ stage \in [Stages -> {"none", "receiving", "offering", "leaving", "ended"}]
    /\ \A i \in Stages : stage[i] = "none" <=> i > started

(* Whoever closed the merged sink, or returned from AwaitAll, has joined;  *)
(* the child that closes it is started last.                               *)
JoinedFirst ==
    /\ closer # "none" => setup.op = "merge" /\ starter # "starting"
    /\ closer = "ended" => Joined
    /\ starter = "returned" /\ setup.op = "await" => Joined

(* A channel was closed by its owner, by the operator that sent to it, or  *)
(* by the closing child of a merge.                                        *)
ClosedBy ==
    \A c \in closed :
        \/ c \in Sources
        \/ setup.op = "pipeline" /\ \E i \in Stages : stage[i] = "ended" /\ To(i) = c
        \/ setup.op = "merge" /\ c = Sink /\ closer = "ended"

(* A child of AwaitAll sends nothing. *)
Sending == \A i \in Stages : stage[i] = "offering" => setup.op # "await"

IInv == setup \in Setups /\ Staged /\ JoinedFirst /\ ClosedBy /\ Sending

(* The invariant answers the question: a stage that offers has not ended,  *)
(* and nobody else closes the channel it sends to.                         *)
LEMMA NoneCloses == IInv => NoSendOnClosed
<1> SUFFICES ASSUME IInv, NEW i \in Stages, stage[i] = "offering", To(i) \in closed
             PROVE  FALSE
    BY DEF NoSendOnClosed
<1> USE DEF IInv
<1>1. setup.op # "await" /\ setup \in Setups
    BY DEF Sending
<1>2. To(i) \notin Sources
    BY <1>1, OperatorsAssumption DEF To, Sources
<1>3. CASE setup.op = "pipeline"
  <2>1. PICK j \in Stages : stage[j] = "ended" /\ To(j) = To(i)
      BY <1>2, <1>3 DEF ClosedBy
  <2> QED BY <2>1, <1>1, <1>3, OperatorsAssumption DEF To
<1>4. CASE setup.op = "merge"
    BY <1>2, <1>4 DEF ClosedBy, JoinedFirst, Joined
<1> QED BY <1>1, <1>3, <1>4, OperatorsAssumption

LEMMA InitIInv == Init => IInv
BY OperatorsAssumption DEF Init, IInv, Staged, JoinedFirst, ClosedBy, Sending, Stages

-----------------------------------------------------------------------------
(* Steps of the world around the group leave it as it is. *)
LEMMA WorldStep ==
    ASSUME IInv,
           UNCHANGED <<setup, started, stage, starter, closer>>,
           \A c \in closed' : c \in closed \/ c \in Sources
    PROVE  IInv'
BY DEF IInv, Staged, JoinedFirst, Joined, ClosedBy, Sending, Sources, To

(* So do steps of one stage that neither end it nor wake one that ended. *)
LEMMA StageMoves ==
    ASSUME IInv, NEW i \in Stages,
           stage[i] \notin {"none", "ended"},
           NEW s \in {"receiving", "offering", "leaving"},
           s = "offering" => setup.op # "await",
           stage' = [stage EXCEPT ![i] = s],
           UNCHANGED <<setup, started, starter, closer, closed>>
    PROVE  IInv'
<1> USE DEF IInv
<1>1. \A j \in Stages : stage[j] = "ended" <=> stage'[j] = "ended"
    BY DEF Staged
<1>2. Staged' /\ Sending'
    BY DEF Staged, Sending
<1>3. JoinedFirst'
    BY <1>1 DEF JoinedFirst, Joined
<1>4. ClosedBy'
    BY <1>1 DEF ClosedBy, Sources, To
<1> QED BY <1>2, <1>3, <1>4

(* A stage that leaves ends, and closes the channel that is its own. *)
LEMMA StageEnds ==
    ASSUME IInv, NEW i \in Stages, Leave(i)
    PROVE  IInv'
<1> USE DEF IInv
<1>1. /\ stage[i] = "leaving" /\ stage' = [stage EXCEPT ![i] = "ended"]
      /\ closed' = IF setup.op = "pipeline" THEN closed \union {To(i)} ELSE closed
      /\ UNCHANGED <<setup, started, starter, closer>>
    BY DEF Leave, groupVars
<1>2. stage'[i] = "ended" /\ \A j \in Stages \ {i} : stage'[j] = stage[j]
    BY <1>1 DEF Staged
<1>3. Staged' /\ Sending'
    BY <1>1, <1>2 DEF Staged, Sending
<1>4. JoinedFirst'
    BY <1>1, <1>2 DEF JoinedFirst, Joined
<1>5. ClosedBy'
  <2> SUFFICES ASSUME NEW c \in closed'
               PROVE  \/ c \in Sources
                      \/ setup.op = "pipeline" /\ \E j \in Stages : stage'[j] = "ended" /\ To(j) = c
                      \/ setup.op = "merge" /\ c = Sink /\ closer = "ended"
      BY <1>1 DEF ClosedBy, Sources, To
  <2>1. CASE c \in closed
      BY <2>1, <1>2 DEF ClosedBy
  <2>2. CASE c \notin closed
      BY <2>2, <1>1, <1>2
  <2> QED BY <2>1, <2>2
<1> QED BY <1>1, <1>3, <1>4, <1>5

(* The loop of a stage. *)
LEMMA StageInv ==
    ASSUME IInv, NEW i \in Stages, StageStep(i)
    PROVE  IInv'
<1> USE DEF IInv, groupVars, contextVars, consumerVars, chanVars, stageVars
<1>1. CASE Panic(i)
    BY <1>1, StageMoves DEF Panic, ReceiveFrom
<1>2. CASE Skip(i)
    BY <1>2, WorldStep DEF Skip, ReceiveFrom
<1>3. CASE Take(i)
  <2>1. ReceiveFrom(i) /\ stage[i] = "receiving"
      BY <1>3 DEF Take, ReceiveFrom
  <2>2. CASE setup.kind[i] = "await"
      BY <2>1, <2>2, <1>3, StageMoves DEF Take, ReceiveFrom
  <2>3. CASE setup.kind[i] # "await"
    <3>1. setup.op # "await"
        BY <2>3, OperatorsAssumption
    <3> QED BY <2>1, <2>3, <3>1, <1>3, StageMoves DEF Take, ReceiveFrom
  <2> QED BY <2>2, <2>3
<1>4. CASE SourceClosed(i)
    BY <1>4, StageMoves DEF SourceClosed
<1>5. CASE Offer(i)
    BY <1>5, StageMoves DEF Offer
<1>6. CASE GiveUp(i)
    BY <1>6, StageMoves DEF GiveUp, Watches
<1>7. CASE Leave(i)
    BY <1>7, StageEnds
<1> QED BY <1>1, <1>2, <1>3, <1>4, <1>5, <1>6, <1>7 DEF StageStep

-----------------------------------------------------------------------------
(* The goroutine that starts the stages, and what joins them. *)
LEMMA GroupInv ==
    ASSUME IInv, GroupStep
    PROVE  IInv'
<1> USE DEF IInv, groupVars, contextVars, consumerVars, chanVars, stageVars
<1>1. CASE \E i \in Stages : Start(i)
  <2>1. PICK i \in Stages : Start(i)
      BY <1>1
  <2>2. /\ i = started + 1 /\ started' = i /\ stage[i] = "none"
        /\ stage' = [stage EXCEPT ![i] = "receiving"] /\ starter = "starting"
        /\ UNCHANGED <<setup, starter, closer, closed>>
      BY <2>1, OperatorsAssumption DEF Start, Staged, Stages
  <2>3. Staged' /\ Sending'
      BY <2>2, OperatorsAssumption DEF Staged, Sending, Stages
  <2>4. \A j \in Stages : stage[j] = "ended" => stage'[j] = "ended"
      BY <2>2 DEF Staged
  <2>5. JoinedFirst'
      BY <2>2, <2>4 DEF JoinedFirst, Joined
  <2>6. ClosedBy'
      BY <2>2, <2>4 DEF ClosedBy, Sources, To
  <2> QED BY <2>2, <2>3, <2>5, <2>6
<1>2. CASE Hang
    BY <1>2 DEF Hang, Staged, JoinedFirst, Joined, ClosedBy, Sending, Sources, To
<1>3. CASE StartedAll
  <2>1. closer = "none"
      BY <1>3 DEF StartedAll, JoinedFirst
  <2>2. UNCHANGED <<setup, started, stage, closed>>
      BY <1>3 DEF StartedAll
  <2>3. JoinedFirst'
      BY <1>3, <2>1, <2>2 DEF StartedAll, JoinedFirst, Joined
  <2> QED BY <2>1, <2>2, <2>3 DEF Staged, ClosedBy, Sending, Sources, To
<1>4. CASE CloseMerged
    BY <1>4 DEF CloseMerged, Staged, JoinedFirst, Joined, ClosedBy, Sending, Sources, To
<1>5. CASE ReturnAwaited
    BY <1>5 DEF ReturnAwaited, Staged, JoinedFirst, Joined, ClosedBy, Sending, Sources, To
<1> QED BY <1>1, <1>2, <1>3, <1>4, <1>5 DEF GroupStep

LEMMA NextInv == IInv /\ [Next]_vars => IInv'
<1> SUFFICES ASSUME IInv, [Next]_vars
             PROVE  IInv'
    OBVIOUS
<1> USE DEF groupVars, contextVars, consumerVars, chanVars, stageVars
<1>1. CASE \E c \in Sources : Feed(c) \/ CloseSource(c)
    BY <1>1, WorldStep DEF Feed, CloseSource
<1>2. CASE Consume \/ StopConsuming \/ EndContext \/ WatcherStep
    BY <1>2, WorldStep DEF Consume, StopConsuming, EndContext, WatcherStep, Watch, CancelChild
<1>3. CASE GroupStep
    BY <1>3, GroupInv
<1>4. CASE \E i \in Stages : StageStep(i)
    BY <1>4, StageInv
<1>5. CASE UNCHANGED vars
    BY <1>5, WorldStep DEF vars
<1> QED BY <1>1, <1>2, <1>3, <1>4, <1>5 DEF Next

(* Who closed what, and what a join saw, in every reachable state.         *)
THEOREM Inductive == Spec => []IInv
BY InitIInv, NextInv, PTL DEF Spec

(* A sink is closed after its last sender: no operator, and no child of    *)
(* MergeEffect, ever meets a closed channel in its send.                   *)
THEOREM SinkClosedLast == Spec => []NoSendOnClosed
BY Inductive, NoneCloses, PTL

(* The slices AwaitAll has returned are not written to any more.           *)
THEOREM ResultsFinal == Spec => ReturnedIsFinal
<1>1. IInv /\ [Next]_vars => [starter = "returned" => UNCHANGED slot]_vars
  <2> SUFFICES ASSUME IInv, Next, starter = "returned", slot' # slot
               PROVE  FALSE
      BY DEF vars, stageVars
  <2> USE DEF groupVars, contextVars, consumerVars, chanVars, stageVars
  <2>1. PICK i \in Stages : Take(i) \/ GiveUp(i)
      BY DEF Next, Feed, CloseSource, Consume, StopConsuming, EndContext, WatcherStep, Watch,
             CancelChild, GroupStep, Start, Hang, StartedAll, CloseMerged, ReturnAwaited,
             StageStep, Panic, Skip, SourceClosed, Offer, Leave
  <2>2. setup.kind[i] = "await" /\ stage[i] = "receiving"
      BY <2>1 DEF Take, GiveUp, Watches, ReceiveFrom
  <2>3. setup.op = "await"
      BY <2>2, OperatorsAssumption DEF IInv
  <2> QED BY <2>2, <2>3 DEF IInv, JoinedFirst, Joined
<1> QED BY <1>1, Inductive, PTL DEF Spec, ReturnedIsFinal

-----------------------------------------------------------------------------
(* A set of numbers has a least element; hence induction. *)
LEMMA Least ==
    ASSUME NEW S \in SUBSET Nat, S # {}
    PROVE  \E n \in S : \A m \in S : ~ (m < n)
<1> DEFINE R == OpToRel(<, Nat)
<1>1. IsWellFoundedOn(R, Nat)
    BY NatLessThanWellFounded
<1>2. \A x, y \in Nat : y < x => <<y, x>> \in R
    BY DEF OpToRel
<1> HIDE DEF R
<1>3. \E x \in S : \A y \in S : ~ (<<y, x>> \in R)
    BY <1>1, WFMin
<1> QED BY <1>2, <1>3

LEMMA Induction ==
    ASSUME NEW S \in SUBSET Nat, 0 \in S, \A n \in S : n + 1 \in S
    PROVE  S = Nat
<1> SUFFICES ASSUME Nat \ S # {} PROVE FALSE
    OBVIOUS
<1>1. PICK n \in Nat \ S : \A m \in Nat \ S : ~ (m < n)
    BY Least
<1>2. n # 0 /\ n - 1 \in Nat /\ n - 1 < n
    BY <1>1
<1>3. n - 1 \in S
    BY <1>1, <1>2
<1>4. (n - 1) + 1 = n
    BY <1>2
<1> QED BY <1>1, <1>3, <1>4

-----------------------------------------------------------------------------
(* The equations of Passed(f, s). *)
IsRun(g, f, s) ==
    g[0] = <<>> /\ \A n \in 1 .. Len(s) : g[n] = g[n - 1] \o f[s[n]]

LEMMA RunExists ==
    ASSUME NEW X, NEW f \in [X -> Seq(X)], NEW s \in Seq(X)
    PROVE  \E g \in [0 .. Len(s) -> Seq(X)] : IsRun(g, f, s)
<1> DEFINE Runs(m) == {g \in [0 .. m -> Seq(X)] :
                          g[0] = <<>> /\ \A n \in 1 .. m : g[n] = g[n - 1] \o f[s[n]]}
           S == {m \in Nat : m <= Len(s) => Runs(m) # {}}
<1>1. Len(s) \in Nat
    OBVIOUS
<1>2. 0 \in S
  <2> DEFINE g == [n \in 0 .. 0 |-> <<>>]
  <2>1. g \in [0 .. 0 -> Seq(X)] /\ g[0] = <<>>
    OBVIOUS
  <2> HIDE DEF g
  <2>2. g \in Runs(0)
    BY <2>1
  <2> QED BY <2>2
<1>3. ASSUME NEW m \in S
      PROVE  m + 1 \in S
  <2> HIDE DEF Runs
  <2> SUFFICES ASSUME m + 1 <= Len(s) PROVE Runs(m + 1) # {}
    OBVIOUS
  <2>1. PICK g : g \in Runs(m)
    BY <1>1
  <2> USE DEF Runs
  <2>2. /\ g \in [0 .. m -> Seq(X)] /\ g[0] = <<>>
        /\ \A n \in 1 .. m : g[n] = g[n - 1] \o f[s[n]]
    BY <2>1
  <2> DEFINE next == g[m] \o f[s[m + 1]]
             h == [n \in 0 .. m + 1 |-> IF n = m + 1 THEN next ELSE g[n]]
  <2>3. next \in Seq(X)
    <3>1. s[m + 1] \in X
      BY <1>1
    <3>2. g[m] \in Seq(X)
      BY <2>2
    <3> QED BY <3>1, <3>2
  <2> HIDE DEF next
  <2>4. h \in [0 .. m + 1 -> Seq(X)]
    BY <2>2, <2>3
  <2>5. h[m + 1] = next /\ \A n \in 0 .. m : h[n] = g[n]
    OBVIOUS
  <2> HIDE DEF h
  <2>6. h[0] = <<>>
    BY <2>2, <2>5
  <2>7. ASSUME NEW n \in 1 .. m + 1
        PROVE  h[n] = h[n - 1] \o f[s[n]]
    <3>1. CASE n = m + 1
      <4>1. h[n] = next /\ h[n - 1] = g[m]
        BY <3>1, <2>5
      <4> QED BY <4>1, <3>1 DEF next
    <3>2. CASE n # m + 1
      <4>1. n \in 1 .. m /\ n \in 0 .. m /\ n - 1 \in 0 .. m
        BY <3>2
      <4> QED BY <4>1, <2>2, <2>5
    <3> QED BY <3>1, <3>2
  <2>8. h \in Runs(m + 1)
    BY <2>4, <2>6, <2>7
  <2> QED BY <2>8
<1> HIDE DEF Runs
<1>4. S = Nat
  <2> HIDE DEF S
  <2>1. S \in SUBSET Nat
    BY DEF S
  <2> QED BY <2>1, <1>2, <1>3, Induction
<1>5. PICK g : g \in Runs(Len(s))
    BY <1>1, <1>4
<1> QED BY <1>5 DEF Runs, IsRun

LEMMA PassedIsUnique ==
    ASSUME NEW f, NEW s, Len(s) \in Nat, NEW g, IsRun(g, f, s)
    PROVE  Passed(f, s) = g[Len(s)]
<1> DEFINE h == [n \in 0 .. Len(s) |-> g[n]]
           Run(r) == [n \in 0 .. Len(s) |-> IF n = 0 THEN <<>> ELSE r[n - 1] \o f[s[n]]]
<1>1. Passed(f, s) = (CHOOSE run : run = Run(run))[Len(s)]
    BY DEF Passed
<1>2. \A n \in 0 .. Len(s) : h[n] = g[n]
    OBVIOUS
<1>3. h = Run(h)
  <2>1. \A n \in 0 .. Len(s) : h[n] = Run(h)[n]
    <3> TAKE n \in 0 .. Len(s)
    <3>1. CASE n = 0
      BY <3>1 DEF IsRun
    <3>2. CASE n # 0
      <4>1. n \in 1 .. Len(s) /\ n - 1 \in 0 .. Len(s)
        BY <3>2
      <4>2. g[n] = g[n - 1] \o f[s[n]]
        BY <4>1 DEF IsRun
      <4> QED BY <4>1, <4>2, <3>2, <1>2
    <3> QED BY <3>1, <3>2
  <2> QED BY <2>1
<1>4. ASSUME NEW r, r = Run(r)
      PROVE  r = h
  <2> HIDE DEF h
  <2>1. DOMAIN r = 0 .. Len(s) /\ \A n \in 0 .. Len(s) : r[n] = Run(r)[n]
    BY <1>4
  <2> DEFINE Same == {n \in Nat : n <= Len(s) => r[n] = h[n]}
  <2>2. 0 \in Same
    <3>1. 0 \in 0 .. Len(s)
      OBVIOUS
    <3>2. r[0] = <<>>
      BY <3>1, <2>1
    <3>3. h[0] = <<>>
      BY <3>1, <1>2 DEF IsRun
    <3> QED BY <3>2, <3>3
  <2>3. ASSUME NEW n \in Same
        PROVE  n + 1 \in Same
    <3> SUFFICES ASSUME n + 1 <= Len(s) PROVE r[n + 1] = h[n + 1]
      OBVIOUS
    <3>1. /\ n + 1 \in 0 .. Len(s) /\ (n + 1) - 1 = n /\ n + 1 # 0 /\ r[n] = h[n]
      OBVIOUS
    <3>2. r[n + 1] = r[n] \o f[s[n + 1]]
      BY <2>1, <3>1
    <3>3. h[n + 1] = h[n] \o f[s[n + 1]]
      <4>1. h[n + 1] = Run(h)[n + 1]
        BY <1>3
      <4> QED BY <4>1, <3>1
    <3> QED BY <3>1, <3>2, <3>3
  <2> HIDE DEF Same
  <2>4. Same = Nat
    <3>1. Same \in SUBSET Nat
      BY DEF Same
    <3> QED BY <3>1, <2>2, <2>3, Induction
  <2>5. \A n \in 0 .. Len(s) : r[n] = h[n]
    <3> TAKE n \in 0 .. Len(s)
    <3>1. n \in Same /\ n <= Len(s)
      BY <2>4
    <3> QED BY <3>1 DEF Same
  <2>6. r = [n \in 0 .. Len(s) |-> r[n]] /\ h = [n \in 0 .. Len(s) |-> h[n]]
    BY <1>4, <1>3
  <2> QED BY <2>1, <2>5, <2>6
<1>5. (CHOOSE run : run = Run(run)) = h
  <2> HIDE DEF h
  <2> DEFINE c == CHOOSE run : run = Run(run)
  <2>1. c = Run(c)
    BY <1>3
  <2> HIDE DEF c
  <2>2. c = h
    BY <2>1, <1>4
  <2> QED BY <2>2 DEF c
<1>6. h[Len(s)] = g[Len(s)]
    BY <1>2
<1> HIDE DEF h
<1> QED BY <1>1, <1>5, <1>6

-----------------------------------------------------------------------------
(* Passed, of sequences of every length. *)
LEMMA PassedSeq ==
    ASSUME NEW X, NEW f \in [X -> Seq(X)], NEW s \in Seq(X)
    PROVE  Passed(f, s) \in Seq(X)
<1>1. PICK g \in [0 .. Len(s) -> Seq(X)] : IsRun(g, f, s)
    BY RunExists
<1>2. Len(s) \in Nat /\ Len(s) \in 0 .. Len(s)
    OBVIOUS
<1>3. Passed(f, s) = g[Len(s)]
    BY <1>1, <1>2, PassedIsUnique
<1> QED BY <1>2, <1>3

LEMMA PassedEmpty == ASSUME NEW f PROVE Passed(f, <<>>) = <<>>
<1> DEFINE g == [n \in 0 .. 0 |-> <<>>]
<1>1. g[0] = <<>>
    OBVIOUS
<1>2. Len(<<>>) = 0
    OBVIOUS
<1> HIDE DEF g
<1>3. IsRun(g, f, <<>>)
    BY <1>1, <1>2 DEF IsRun
<1> QED BY <1>1, <1>2, <1>3, PassedIsUnique

LEMMA PassedAppend ==
    ASSUME NEW X, NEW f \in [X -> Seq(X)], NEW s \in Seq(X), NEW v \in X
    PROVE  Passed(f, Append(s, v)) = Passed(f, s) \o f[v]
<1> DEFINE t == Append(s, v)
<1>1. /\ t \in Seq(X) /\ Len(t) = Len(s) + 1 /\ Len(s) \in Nat /\ t[Len(t)] = v
      /\ \A n \in 1 .. Len(s) : t[n] = s[n]
    OBVIOUS
<1> HIDE DEF t
<1>2. PICK g \in [0 .. Len(t) -> Seq(X)] : IsRun(g, f, t)
    BY <1>1, RunExists
<1>3. IsRun(g, f, s)
  <2>1. \A n \in 1 .. Len(s) : n \in 1 .. Len(t) /\ t[n] = s[n]
    BY <1>1
  <2> QED BY <2>1, <1>2 DEF IsRun
<1>4. Passed(f, s) = g[Len(s)] /\ Passed(f, t) = g[Len(t)]
    BY <1>1, <1>2, <1>3, PassedIsUnique
<1>5. g[Len(t)] = g[Len(t) - 1] \o f[t[Len(t)]]
  <2>1. Len(t) \in 1 .. Len(t)
    BY <1>1
  <2> QED BY <2>1, <1>2 DEF IsRun
<1>6. Len(t) - 1 = Len(s)
    BY <1>1
<1> QED BY <1>1, <1>4, <1>5, <1>6 DEF t

-----------------------------------------------------------------------------
(* Prefixes. *)
LEMMA PrefixByIndex ==
    ASSUME NEW X, NEW s \in Seq(X), NEW t \in Seq(X)
    PROVE  IsPrefix(s, t) <=> Len(s) <= Len(t) /\ \A n \in 1 .. Len(s) : s[n] = t[n]
<1>1. SubSeq(s, 1, Len(s)) = s
    OBVIOUS
<1>2. CASE Len(s) <= Len(t)
  <2>1. /\ SubSeq(t, 1, Len(s)) \in Seq(X) /\ Len(SubSeq(t, 1, Len(s))) = Len(s)
        /\ \A n \in 1 .. Len(s) : SubSeq(t, 1, Len(s))[n] = t[n]
    BY <1>2
  <2>2. s = SubSeq(t, 1, Len(s)) <=> \A n \in 1 .. Len(s) : s[n] = t[n]
    BY <2>1, SeqEqual
  <2> QED BY <1>1, <1>2, <2>2 DEF IsPrefix
<1>3. CASE ~ Len(s) <= Len(t)
    BY <1>3 DEF IsPrefix
<1> QED BY <1>2, <1>3

LEMMA PrefixOfItself == ASSUME NEW X, NEW s \in Seq(X) PROVE IsPrefix(s, s)
<1>1. Len(s) \in Nat
    OBVIOUS
<1> QED BY <1>1, PrefixByIndex

LEMMA PrefixTransitive ==
    ASSUME NEW X, NEW s \in Seq(X), NEW t \in Seq(X), NEW u \in Seq(X),
           IsPrefix(s, t), IsPrefix(t, u)
    PROVE  IsPrefix(s, u)
<1>1. Len(s) \in Nat /\ Len(t) \in Nat /\ Len(u) \in Nat
    OBVIOUS
<1>2. Len(s) <= Len(t) /\ \A n \in 1 .. Len(s) : s[n] = t[n]
    BY PrefixByIndex
<1>3. Len(t) <= Len(u) /\ \A n \in 1 .. Len(t) : t[n] = u[n]
    BY PrefixByIndex
<1>4. \A n \in 1 .. Len(s) : n \in 1 .. Len(t)
    BY <1>1, <1>2
<1>5. Len(s) <= Len(u) /\ \A n \in 1 .. Len(s) : s[n] = u[n]
    BY <1>1, <1>2, <1>3, <1>4
<1> QED BY <1>5, PrefixByIndex

LEMMA PrefixOfConcat ==
    ASSUME NEW X, NEW s \in Seq(X), NEW t \in Seq(X)
    PROVE  IsPrefix(s, s \o t)
<1>1. Len(s) \in Nat /\ Len(t) \in Nat
    OBVIOUS
<1>2. /\ s \o t \in Seq(X) /\ Len(s \o t) = Len(s) + Len(t)
      /\ \A n \in 1 .. Len(s) : (s \o t)[n] = s[n]
    BY ConcatProperties
<1> DEFINE c == s \o t
<1> HIDE DEF c
<1>3. c \in Seq(X) /\ Len(s) <= Len(c) /\ \A n \in 1 .. Len(s) : s[n] = c[n]
    BY <1>1, <1>2 DEF c
<1>4. IsPrefix(s, c)
    BY <1>3, PrefixByIndex
<1> QED BY <1>4 DEF c

(* What comes out of the beginning is the beginning of what comes out.     *)
LEMMA PassedPrefix ==
    ASSUME NEW X, NEW f \in [X -> Seq(X)], NEW s \in Seq(X), NEW t \in Seq(X),
           IsPrefix(s, t)
    PROVE  IsPrefix(Passed(f, s), Passed(f, t))
<1>1. Len(s) \in Nat /\ Len(t) \in Nat
    OBVIOUS
<1>2. Len(s) <= Len(t) /\ \A n \in 1 .. Len(s) : s[n] = t[n]
    BY PrefixByIndex
<1>3. PICK g \in [0 .. Len(t) -> Seq(X)] : IsRun(g, f, t)
    BY RunExists
<1>4. \A n \in 1 .. Len(s) : n \in 1 .. Len(t)
    BY <1>1, <1>2
<1>5. IsRun(g, f, s)
    BY <1>2, <1>3, <1>4 DEF IsRun
<1>6. Passed(f, s) = g[Len(s)] /\ Passed(f, t) = g[Len(t)]
    BY <1>1, <1>3, <1>5, PassedIsUnique
<1> DEFINE S == {n \in Nat : Len(s) + n <= Len(t) => IsPrefix(g[Len(s)], g[Len(s) + n])}
<1>7. g[Len(s)] \in Seq(X)
    BY <1>1, <1>2
<1>8. 0 \in S
  <2>1. Len(s) + 0 = Len(s)
    BY <1>1
  <2> QED BY <2>1, <1>7, PrefixOfItself
<1>9. ASSUME NEW n \in S
      PROVE  n + 1 \in S
  <2> SUFFICES ASSUME Len(s) + (n + 1) <= Len(t)
               PROVE  IsPrefix(g[Len(s)], g[Len(s) + (n + 1)])
    OBVIOUS
  <2> DEFINE m == Len(s) + n
  <2>1. m \in 0 .. Len(t) /\ m + 1 \in 1 .. Len(t) /\ (m + 1) - 1 = m /\ Len(s) + (n + 1) = m + 1
    BY <1>1
  <2>2. IsPrefix(g[Len(s)], g[m])
    BY <1>1
  <2> HIDE DEF m
  <2>3. g[m + 1] = g[m] \o f[t[m + 1]]
    BY <2>1, <1>3 DEF IsRun
  <2>4. g[m] \in Seq(X) /\ f[t[m + 1]] \in Seq(X) /\ g[m + 1] \in Seq(X)
    <3>1. t[m + 1] \in X
      BY <2>1
    <3>2. m + 1 \in 0 .. Len(t)
      BY <2>1, <1>1
    <3>3. g[m] \in Seq(X) /\ g[m + 1] \in Seq(X)
      BY <2>1, <3>2
    <3> QED BY <3>1, <3>3
  <2>5. IsPrefix(g[m], g[m + 1])
    BY <2>3, <2>4, PrefixOfConcat
  <2> QED BY <2>1, <2>2, <2>4, <2>5, <1>7, PrefixTransitive
<1> HIDE DEF S
<1>10. S = Nat
  <2>1. S \in SUBSET Nat
    BY DEF S
  <2> QED BY <2>1, <1>8, <1>9, Induction
<1>11. IsPrefix(g[Len(s)], g[Len(s) + (Len(t) - Len(s))])
  <2>1. Len(t) - Len(s) \in S /\ Len(s) + (Len(t) - Len(s)) <= Len(t)
    BY <1>1, <1>2, <1>10
  <2> QED BY <2>1 DEF S
<1>12. Len(s) + (Len(t) - Len(s)) = Len(t)
    BY <1>1
<1> QED BY <1>6, <1>11, <1>12

(* Operators that change nothing. *)
LEMMA PassedSame ==
    ASSUME NEW X, NEW f \in [X -> Seq(X)], NEW s \in Seq(X),
           \A v \in X : f[v] = <<v>>
    PROVE  Passed(f, s) = s
<1> DEFINE g == [n \in 0 .. Len(s) |-> SubSeq(s, 1, n)]
<1>1. Len(s) \in Nat
    OBVIOUS
<1>2. \A n \in 0 .. Len(s) : g[n] = SubSeq(s, 1, n)
    OBVIOUS
<1> HIDE DEF g
<1>3. g[0] = <<>>
  <2>1. SubSeq(s, 1, 0) = <<>>
    OBVIOUS
  <2> QED BY <1>1, <1>2, <2>1
<1>4. ASSUME NEW n \in 1 .. Len(s)
      PROVE  g[n] = g[n - 1] \o f[s[n]]
  <2>1. /\ n \in 0 .. Len(s) /\ n - 1 \in 0 .. Len(s) /\ s[n] \in X
        /\ 1 \in 1 .. Len(s) /\ n \in 1 .. Len(s)
    BY <1>1
  <2>2. SubSeq(s, 1, n) = SubSeq(s, 1, n - 1) \o <<s[n]>>
    BY <2>1, SubSeqRecursiveSecond
  <2> QED BY <2>1, <2>2, <1>2
<1>5. IsRun(g, f, s)
    BY <1>3, <1>4 DEF IsRun
<1>6. Passed(f, s) = g[Len(s)]
    BY <1>1, <1>5, PassedIsUnique
<1>7. g[Len(s)] = SubSeq(s, 1, Len(s))
    BY <1>1, <1>2
<1> QED BY <1>6, <1>7, SubSeqFull
-----------------------------------------------------------------------------
(* The elements of a source that were fed so far. *)
Fed(c) == SubSeq(setup.feed[c], 1, fed[c])

(* What a stage has sent, when took is what every stage has received: the  *)
(* next stage took it, or it is in the channel.  Of the common sink of a   *)
(* merge it is what came from the stage's source.                          *)
Sent(took, i) ==
    IF setup.op = "pipeline"
    THEN (IF i = NumStages THEN out ELSE took[i + 1]) \o chan[To(i)]
    ELSE Passed(Only(From(i)), out \o chan[Sink])

Due(took, i) == Passed(Through(i), took[i])

(* A stage sends what becomes of the elements it took.  It may leave some  *)
(* behind when the context ends or a function panics, and only then: else  *)
(* it leaves when its source is closed and empty.                          *)
Passes(took, i) ==
    /\ From(i) \in Sources => took[i] \o chan[From(i)] = Fed(From(i))
    /\ stage[i] \in {"none", "receiving"} => Sent(took, i) = Due(took, i)
    /\ stage[i] = "offering" => Append(Sent(took, i), hand[i]) = Due(took, i)
    /\ stage[i] \in {"leaving", "ended"} =>
        /\ IsPrefix(Sent(took, i), Due(took, i))
        /\ ~ ended /\ setup.bad = {} =>
            Sent(took, i) = Due(took, i) /\ chan[From(i)] = <<>> /\ From(i) \in closed

Flows ==
    setup.op # "await" =>
        \E took \in [Stages -> Seq(Elements)] : \A i \in Stages : Passes(took, i)

(* The types; the elements of a merge carry the name of their source.      *)
Carried ==
    /\ chan \in [Channels -> Seq(Elements)] /\ out \in Seq(Elements)
    /\ fed \in [Sources -> Nat]
    /\ \A c \in Sources :
        /\ fed[c] <= Len(setup.feed[c])
        /\ c \in closed => fed[c] = Len(setup.feed[c])
        /\ setup.op = "merge" => \A n \in 1 .. Len(chan[c]) : chan[c][n][1] = c
    /\ DOMAIN hand = Stages
    /\ \A i \in Stages : stage[i] = "offering" =>
        hand[i] \in Elements /\ (setup.op = "merge" => hand[i][1] = From(i))
    /\ listed # NoWatch \/ cancelled # {} => ended

FlowInv == IInv /\ Carried /\ Flows

-----------------------------------------------------------------------------
(* How the channels are laid. *)
LEMMA Layout ==
    ASSUME setup \in Setups, setup.op # "await"
    PROVE  /\ \A i \in Stages : From(i) \in Channels /\ To(i) \in Channels \ Sources
           /\ \A i, j \in Stages : From(i) = From(j) => i = j
           /\ \A i \in Stages : From(i) # Sink
           /\ Sources \subseteq Channels
           /\ \A c \in Sources : setup.feed[c] \in Seq(Elements)
<1>1. /\ setup.op = "pipeline" \/ setup.op = "merge"
      /\ NumStages \in Nat
    BY OperatorsAssumption
<1>2. \A i \in Stages : From(i) \in Channels /\ To(i) \in Channels \ Sources
    BY OperatorsAssumption DEF From, To, Sources
<1>3. \A c \in Sources : setup.feed[c] \in Seq(Elements)
    BY OperatorsAssumption DEF Sources
<1>4. CASE setup.op = "pipeline"
  <2>1. /\ NumStages \in Stages /\ 1 \in Stages /\ Sources = {From(1)} /\ To(NumStages) = Sink
    BY <1>1, <1>4, OperatorsAssumption DEF From, To, Sources, Stages
  <2>2. /\ \A i \in Stages : i # 1 => i - 1 \in Stages /\ From(i) = To(i - 1)
        /\ \A i, j \in Stages : To(i) = To(j) => i = j
    <3>1. \A i \in Stages : i # 1 => i - 1 \in Stages /\ i > 1
      BY <1>1 DEF Stages
    <3>2. \A i \in Stages : i > 1 => From(i) = To(i - 1)
      BY <1>4, OperatorsAssumption DEF From, To
    <3>3. \A i, j \in Stages : To(i) = To(j) => i = j
      BY <1>4, OperatorsAssumption DEF To
    <3> QED BY <3>1, <3>2, <3>3
  <2>3. \A i, j \in Stages : From(i) = From(j) => i = j
    <3> TAKE i, j \in Stages
    <3>1. i \in Nat /\ j \in Nat
      BY <1>1 DEF Stages
    <3>2. CASE i = 1 \/ j = 1
      BY <3>2, <2>1, <2>2, <1>2
    <3>3. CASE i # 1 /\ j # 1
      <4>1. From(i) = From(j) => i - 1 = j - 1
        BY <3>3, <2>2
      <4> QED BY <4>1, <3>1
    <3> QED BY <3>2, <3>3
  <2>4. \A i \in Stages : From(i) # Sink
    <3> TAKE i \in Stages
    <3>1. CASE i = 1
      BY <3>1, <2>1, <1>2
    <3>2. CASE i # 1
      <4>1. From(i) = Sink => i - 1 = NumStages
        BY <3>2, <2>1, <2>2
      <4> QED BY <4>1, <1>1 DEF Stages
    <3> QED BY <3>1, <3>2
  <2> QED BY <1>2, <1>3, <2>1, <2>3, <2>4
<1>5. CASE setup.op = "merge"
  <2>1. Sources = {From(i) : i \in Stages}
    BY <1>5, OperatorsAssumption DEF From, Sources
  <2>2. \A i \in Stages : To(i) = Sink
    BY <1>5, OperatorsAssumption DEF To
  <2>3. \A i, j \in Stages : From(i) = From(j) => i = j
    BY <1>5, OperatorsAssumption DEF From
  <2> QED BY <1>2, <1>3, <2>1, <2>2, <2>3
<1> QED BY <1>1, <1>4, <1>5

LEMMA SourcesAreChannels ==
    ASSUME setup \in Setups
    PROVE  Sources \subseteq Channels /\ \A c \in Sources : setup.feed[c] \in Seq(Elements)
<1>1. \A i \in Stages : setup.from[i] \in Channels
    BY OperatorsAssumption
<1>2. \A c \in Sources : setup.feed[c] \in Seq(Elements)
    BY OperatorsAssumption DEF Sources
<1>3. CASE setup.op = "pipeline"
  <2>1. 1 \in Stages /\ Sources = {setup.from[1]}
    BY <1>3, OperatorsAssumption DEF Sources, Stages
  <2> QED BY <2>1, <1>1, <1>2
<1>4. CASE setup.op # "pipeline"
  <2>1. Sources = {setup.from[i] : i \in Stages}
    BY <1>4, OperatorsAssumption DEF Sources
  <2> QED BY <2>1, <1>1, <1>2
<1> QED BY <1>3, <1>4

(* A row of operators. *)
LEMMA Row ==
    ASSUME setup \in Setups, setup.op = "pipeline"
    PROVE  /\ NumStages \in Nat \ {0} /\ Sources = {From(1)} /\ To(NumStages) = Sink
           /\ \A i \in Stages : i # 1 => i - 1 \in Stages /\ From(i) = To(i - 1)
           /\ \A i \in Stages : i # NumStages => i + 1 \in Stages /\ From(i + 1) = To(i)
           /\ \A i, j \in Stages : To(i) = To(j) => i = j
<1>1. NumStages \in Nat \ {0} /\ Sources = {From(1)} /\ To(NumStages) = Sink
    BY OperatorsAssumption DEF From, To, Sources
<1>2. /\ \A i \in Stages : i # 1 => i - 1 \in Stages /\ i > 1
      /\ \A i \in Stages : i # NumStages => i + 1 \in Stages /\ i + 1 > 1 /\ (i + 1) - 1 = i
    BY <1>1 DEF Stages
<1>3. \A i \in Stages : i > 1 => From(i) = To(i - 1)
    BY OperatorsAssumption DEF From, To
<1>4. \A i, j \in Stages : To(i) = To(j) => i = j
    BY OperatorsAssumption DEF To
<1> QED BY <1>1, <1>2, <1>3, <1>4

(* A merge. *)
LEMMA Fan ==
    ASSUME setup \in Setups, setup.op = "merge"
    PROVE  /\ Sources = {From(i) : i \in Stages}
           /\ \A i \in Stages :
                /\ To(i) = Sink /\ setup.kind[i] = "pipe"
                /\ \A n \in 1 .. Len(setup.feed[From(i)]) : setup.feed[From(i)][n][1] = From(i)
<1>1. Sources = {From(i) : i \in Stages}
    BY OperatorsAssumption DEF From, Sources
<1>2. \A i \in Stages : setup.feed[From(i)] \in Seq(Elements)
    BY <1>1, Layout
<1>3. \A i \in Stages :
        /\ To(i) = Sink /\ setup.kind[i] = "pipe"
        /\ \A n \in DOMAIN setup.feed[From(i)] : setup.feed[From(i)][n][1] = From(i)
    BY OperatorsAssumption DEF From, To
<1> QED BY <1>1, <1>2, <1>3

(* What the operators' functions do to one element. *)
LEMMA Maps ==
    /\ \A c : Only(c) \in [Elements -> Seq(Elements)]
    /\ \A i : Through(i) \in [Elements -> Seq(Elements)]
    /\ \A i : \A v \in Elements : Through(i)[v] = IF Rejected(i, v) THEN <<>> ELSE <<Applied(i, v)>>
    /\ \A c : \A v \in Elements : Only(c)[v] = IF v[1] = c THEN <<v>> ELSE <<>>
    /\ \A i : \A v \in Elements : Applied(i, v) \in Elements /\ Applied(i, v)[1] = v[1]
<1>1. \A i : \A v \in Elements : Applied(i, v) \in Elements /\ Applied(i, v)[1] = v[1]
    BY DEF Applied, Mapped, Elements
<1>2. \A v \in Elements : <<v>> \in Seq(Elements)
    OBVIOUS
<1>3. <<>> \in Seq(Elements)
    OBVIOUS
<1> QED BY <1>1, <1>2, <1>3 DEF Only, Through

(* Elements that move from a sequence to the next. *)
LEMMA AppendedAtTheEnd ==
    ASSUME NEW X, NEW s \in Seq(X), NEW v \in X
    PROVE  s \o <<v>> = Append(s, v)
OBVIOUS

LEMMA HeadMoves ==
    ASSUME NEW X, NEW s \in Seq(X), NEW t \in Seq(X), t # <<>>
    PROVE  Append(s, Head(t)) \o Tail(t) = s \o t
<1>1. /\ Head(t) \in X /\ Tail(t) \in Seq(X) /\ <<Head(t)>> \in Seq(X)
      /\ Append(s, Head(t)) = s \o <<Head(t)>>
    OBVIOUS
<1>2. <<Head(t)>> \o Tail(t) = t
    OBVIOUS
<1> QED BY <1>1, <1>2, ConcatAssociative

LEMMA TailMoves ==
    ASSUME NEW X, NEW s \in Seq(X), NEW t \in Seq(X), NEW v \in X
    PROVE  s \o Append(t, v) = Append(s \o t, v)
<1>1. <<v>> \in Seq(X) /\ Append(t, v) = t \o <<v>> /\ s \o t \in Seq(X)
    OBVIOUS
<1>2. Append(s \o t, v) = (s \o t) \o <<v>>
    BY <1>1
<1> QED BY <1>1, <1>2, ConcatAssociative

(* The types of what flows. *)
LEMMA SentSeq ==
    ASSUME setup \in Setups, setup.op # "await", Carried,
           NEW took \in [Stages -> Seq(Elements)], NEW i \in Stages
    PROVE  /\ Sent(took, i) \in Seq(Elements) /\ Due(took, i) \in Seq(Elements)
           /\ took[i] \in Seq(Elements) /\ chan[From(i)] \in Seq(Elements)
           /\ chan[To(i)] \in Seq(Elements)
<1>1. /\ From(i) \in Channels /\ To(i) \in Channels /\ Sink \in Channels
    BY Layout, OperatorsAssumption
<1>2. /\ chan[From(i)] \in Seq(Elements) /\ chan[To(i)] \in Seq(Elements)
      /\ chan[Sink] \in Seq(Elements) /\ out \in Seq(Elements) /\ took[i] \in Seq(Elements)
    BY <1>1 DEF Carried
<1>3. Due(took, i) \in Seq(Elements)
    BY <1>2, Maps, PassedSeq DEF Due
<1>4. CASE setup.op = "pipeline"
  <2>1. i # NumStages => took[i + 1] \in Seq(Elements)
    BY <1>4, Row
  <2> QED BY <2>1, <1>2, <1>3, <1>4 DEF Sent
<1>5. CASE setup.op # "pipeline"
  <2>1. out \o chan[Sink] \in Seq(Elements)
    BY <1>2
  <2>2. Passed(Only(From(i)), out \o chan[Sink]) \in Seq(Elements)
    BY <2>1, Maps, PassedSeq
  <2> QED BY <2>2, <1>2, <1>3, <1>5 DEF Sent
<1> QED BY <1>4, <1>5

-----------------------------------------------------------------------------
(* What a step that keeps the setup leaves as it is. *)
LEMMA DueKept ==
    ASSUME setup' = setup, NEW took \in [Stages -> Seq(Elements)], NEW i \in Stages
    PROVE  Due(took, i)' = Due(took, i)
BY DEF Due, Through, Rejected, Applied, Passed

LEMMA SameLayout ==
    ASSUME setup' = setup
    PROVE  Sources' = Sources /\ \A i \in Stages : From(i)' = From(i) /\ To(i)' = To(i)
BY DEF Sources, From, To

(* What was sent, when out and the channels show the same. *)
LEMMA SentInRow ==
    ASSUME setup' = setup, setup.op = "pipeline", NEW i \in Stages,
           NEW took \in [Stages -> Seq(Elements)], NEW later \in [Stages -> Seq(Elements)],
           chan'[To(i)] = chan[To(i)],
           IF i = NumStages THEN out' = out ELSE later[i + 1] = took[i + 1]
    PROVE  Sent(later, i)' = Sent(took, i)
<1>1. To(i)' = To(i)
    BY SameLayout
<1>2. Sent(later, i)' = (IF i = NumStages THEN out' ELSE later[i + 1]) \o chan'[To(i)]
    BY <1>1 DEF Sent
<1>3. Sent(took, i) = (IF i = NumStages THEN out ELSE took[i + 1]) \o chan[To(i)]
    BY DEF Sent
<1> QED BY <1>2, <1>3

LEMMA SentByMerge ==
    ASSUME setup' = setup, setup.op # "pipeline", NEW i \in Stages,
           NEW took \in [Stages -> Seq(Elements)], NEW later \in [Stages -> Seq(Elements)],
           out' \o chan'[Sink] = out \o chan[Sink]
    PROVE  Sent(later, i)' = Sent(took, i)
<1>1. Only(From(i))' = Only(From(i))
    BY SameLayout DEF Only
<1>2. Sent(later, i)' = Passed(Only(From(i)), out' \o chan'[Sink])
    BY <1>1 DEF Sent, Passed
<1>3. Sent(took, i) = Passed(Only(From(i)), out \o chan[Sink])
    BY DEF Sent
<1> QED BY <1>2, <1>3

(* A stage that did nothing passes on what it did, when its channels show  *)
(* the same.                                                               *)
LEMMA Bystander ==
    ASSUME setup' = setup, NEW i \in Stages,
           NEW took \in [Stages -> Seq(Elements)], NEW later \in [Stages -> Seq(Elements)],
           Passes(took, i), later[i] = took[i],
           stage'[i] = stage[i], hand'[i] = hand[i],
           closed \subseteq closed', ended => ended',
           Sent(later, i)' = Sent(took, i),
           From(i) \in Sources => later[i] \o chan'[From(i)] = Fed(From(i))',
           stage[i] \in {"leaving", "ended"} /\ ~ ended /\ setup.bad = {} /\ chan[From(i)] = <<>>
                /\ From(i) \in closed => chan'[From(i)] = <<>>
    PROVE  Passes(later, i)'
<1>1. Due(later, i)' = Due(took, i)
  <2>1. Due(later, i) = Due(took, i)
    BY DEF Due
  <2> QED BY <2>1, DueKept
<1>2. Sources' = Sources /\ From(i)' = From(i)
    BY SameLayout
<1>3. (chan[From(i)])' = chan'[From(i)]
    BY <1>2
<1>4. Fed(From(i))' = SubSeq(setup.feed[From(i)], 1, fed'[From(i)])
    BY <1>2 DEF Fed
<1>5. /\ (From(i) \in Sources)' => (later[i] \o chan[From(i)] = Fed(From(i)))'
      /\ (stage[i] \in {"none", "receiving"})' => (Sent(later, i) = Due(later, i))'
      /\ (stage[i] = "offering")' => (Append(Sent(later, i), hand[i]) = Due(later, i))'
    BY <1>1, <1>2, <1>3, <1>4 DEF Passes
<1>6. ASSUME stage'[i] \in {"leaving", "ended"}
      PROVE  /\ IsPrefix(Sent(later, i)', Due(later, i)')
             /\ (~ ended /\ setup.bad = {})' =>
                    (Sent(later, i) = Due(later, i) /\ chan[From(i)] = <<>> /\ From(i) \in closed)'
    BY <1>1, <1>2, <1>3, <1>6 DEF Passes
<1> QED BY <1>5, <1>6 DEF Passes

(* Steps that move no element, and end no stage that has not left. *)
LEMMA StillFlows ==
    ASSUME FlowInv, UNCHANGED <<setup, chan, out, fed, hand>>,
           closed \subseteq closed', ended => ended',
           \A i \in Stages :
                \/ stage'[i] = stage[i]
                \/ stage[i] \in {"none", "receiving"} /\ stage'[i] \in {"none", "receiving"}
                \/ stage[i] \in {"leaving", "ended"} /\ stage'[i] \in {"leaving", "ended"}
    PROVE  Flows'
<1> SUFFICES ASSUME setup.op # "await"
             PROVE  \E took \in [Stages -> Seq(Elements)] : \A i \in Stages : Passes(took, i)'
    BY DEF Flows
<1>1. PICK took \in [Stages -> Seq(Elements)] : \A i \in Stages : Passes(took, i)
    BY DEF FlowInv, Flows
<1>2. ASSUME NEW i \in Stages
      PROVE  Passes(took, i)'
  <2>1. Due(took, i)' = Due(took, i)
    BY DueKept
  <2>2. Sources' = Sources /\ From(i)' = From(i) /\ To(i)' = To(i)
    BY SameLayout
  <2>3. Sent(took, i)' = Sent(took, i)
    BY <2>2 DEF Sent, Only, Passed
  <2>4. Fed(From(i))' = Fed(From(i))
    BY <2>2 DEF Fed
  <2> QED BY <1>1, <2>1, <2>2, <2>3, <2>4 DEF Passes
<1> QED BY <1>2

-----------------------------------------------------------------------------
(* Steps that move an element: into a source, out of the sink, into a      *)
(* stage's hand and out of it, or nowhere when the stage stops.            *)
LEMMA SubSeqGrows ==
    ASSUME NEW X, NEW s \in Seq(X), NEW n \in Nat, n < Len(s)
    PROVE  SubSeq(s, 1, n + 1) = Append(SubSeq(s, 1, n), s[n + 1])
<1>1. /\ 1 \in 1 .. Len(s) /\ n + 1 \in 1 .. Len(s) /\ (n + 1) - 1 = n
    OBVIOUS
<1>2. SubSeq(s, 1, n + 1) = SubSeq(s, 1, n) \o <<s[n + 1]>>
    BY <1>1, SubSeqRecursiveSecond
<1>3. SubSeq(s, 1, n) \in Seq(X) /\ s[n + 1] \in X
    BY <1>1
<1> QED BY <1>2, <1>3, AppendedAtTheEnd

LEMMA FeedFlows ==
    ASSUME FlowInv, NEW c \in Sources, Feed(c)
    PROVE  Flows'
<1> SUFFICES ASSUME setup.op # "await"
             PROVE  \E took \in [Stages -> Seq(Elements)] : \A i \in Stages : Passes(took, i)'
    BY DEF Flows, Feed
<1> USE DEF FlowInv
<1>1. setup \in Setups
    BY DEF IInv
<1>2. PICK took \in [Stages -> Seq(Elements)] : \A i \in Stages : Passes(took, i)
    BY DEF Flows
<1>3. /\ fed[c] < Len(setup.feed[c])
      /\ chan' = [chan EXCEPT ![c] = Append(@, setup.feed[c][fed[c] + 1])]
      /\ fed' = [fed EXCEPT ![c] = @ + 1]
      /\ UNCHANGED <<setup, closed, out, ended, stage, hand>>
    BY DEF Feed, consumerVars, contextVars, stageVars
<1>4. /\ c \in Channels /\ setup.feed[c] \in Seq(Elements) /\ fed[c] \in Nat
      /\ chan[c] \in Seq(Elements)
    BY <1>1, Layout DEF Carried
<1>5. ASSUME NEW i \in Stages
      PROVE  Passes(took, i)'
  <2>1. Sources' = Sources /\ From(i)' = From(i) /\ To(i)' = To(i)
    BY <1>3, SameLayout
  <2>2. To(i) # c /\ To(i) \in Channels /\ From(i) \in Channels
    BY <1>1, Layout
  <2>3. Sent(took, i)' = Sent(took, i)
    <3>1. CASE setup.op = "pipeline"
      <4>1. chan'[To(i)] = chan[To(i)]
        BY <1>3, <2>2 DEF Carried
      <4> QED BY <4>1, <1>3, <3>1, SentInRow
    <3>2. CASE setup.op # "pipeline"
      <4>1. setup.op = "merge"
        BY <3>2, <1>1, OperatorsAssumption
      <4>2. To(i) = Sink
        BY <4>1, <1>1, Fan
      <4>3. chan'[Sink] = chan[Sink]
        BY <1>3, <2>2, <4>2 DEF Carried
      <4> QED BY <4>3, <1>3, <3>2, SentByMerge
    <3> QED BY <3>1, <3>2
  <2>4. ASSUME From(i) \in Sources
        PROVE  took[i] \o chan'[From(i)] = Fed(From(i))'
    <3>1. took[i] \o chan[From(i)] = Fed(From(i))
      BY <1>2, <2>4 DEF Passes
    <3>2. Fed(From(i))' = SubSeq(setup.feed[From(i)], 1, fed'[From(i)])
      BY <1>3, <2>1 DEF Fed
    <3>3. CASE From(i) = c
      <4> DEFINE v == setup.feed[c][fed[c] + 1]
      <4>1. v \in Elements /\ took[i] \in Seq(Elements)
        BY <1>3, <1>4
      <4>2. chan'[c] = Append(chan[c], v) /\ fed'[c] = fed[c] + 1
        BY <1>3, <1>4 DEF Carried
      <4> HIDE DEF v
      <4>3. took[i] \o Append(chan[c], v) = Append(took[i] \o chan[c], v)
        BY <4>1, <1>4, TailMoves
      <4>4. SubSeq(setup.feed[c], 1, fed[c] + 1) = Append(SubSeq(setup.feed[c], 1, fed[c]), v)
        BY <1>3, <1>4, SubSeqGrows DEF v
      <4> QED BY <3>1, <3>2, <3>3, <4>2, <4>3, <4>4 DEF Fed
    <3>4. CASE From(i) # c
      <4>1. chan'[From(i)] = chan[From(i)] /\ fed'[From(i)] = fed[From(i)]
        BY <3>4, <1>3, <2>2, <2>4 DEF Carried
      <4> QED BY <4>1, <3>1, <3>2 DEF Fed
    <3> QED BY <3>3, <3>4
  <2>5. From(i) \in closed => chan'[From(i)] = chan[From(i)]
    <3>1. CASE From(i) = c
      BY <3>1, <1>3, <1>4 DEF Carried
    <3>2. CASE From(i) # c
      BY <3>2, <1>3, <2>2 DEF Carried
    <3> QED BY <3>1, <3>2
  <2> QED BY <1>2, <1>3, <2>3, <2>4, <2>5, Bystander
<1> QED BY <1>5

LEMMA ConsumeFlows ==
    ASSUME FlowInv, Consume
    PROVE  Flows'
<1> SUFFICES ASSUME setup.op # "await"
             PROVE  \E took \in [Stages -> Seq(Elements)] : \A i \in Stages : Passes(took, i)'
    BY DEF Flows, Consume
<1> USE DEF FlowInv
<1>1. setup \in Setups
    BY DEF IInv
<1>2. PICK took \in [Stages -> Seq(Elements)] : \A i \in Stages : Passes(took, i)
    BY DEF Flows
<1>3. /\ chan[Sink] # <<>> /\ out' = Append(out, Head(chan[Sink]))
      /\ chan' = [chan EXCEPT ![Sink] = Tail(@)]
      /\ UNCHANGED <<setup, closed, fed, ended, stage, hand>>
    BY DEF Consume, contextVars, stageVars
<1>4. Sink \in Channels /\ chan[Sink] \in Seq(Elements) /\ out \in Seq(Elements)
    BY OperatorsAssumption DEF Carried
<1>5. out' \o chan'[Sink] = out \o chan[Sink]
    BY <1>3, <1>4, HeadMoves DEF Carried
<1>6. ASSUME NEW i \in Stages
      PROVE  Passes(took, i)'
  <2>1. Sources' = Sources /\ From(i)' = From(i) /\ To(i)' = To(i)
    BY <1>3, SameLayout
  <2>2. From(i) \in Channels /\ From(i) # Sink /\ To(i) \in Channels
    BY <1>1, Layout
  <2>3. chan'[From(i)] = chan[From(i)]
    BY <2>2, <1>3 DEF Carried
  <2>4. Sent(took, i)' = Sent(took, i)
    <3>1. CASE setup.op = "pipeline" /\ i = NumStages
      <4>1. To(i) = Sink
        BY <3>1, <1>1, Row
      <4> QED BY <4>1, <3>1, <1>3, <1>5, <2>1 DEF Sent
    <3>2. CASE setup.op = "pipeline" /\ i # NumStages
      <4>1. To(i) # Sink
        <5>1. To(NumStages) = Sink /\ NumStages \in Stages
          BY <3>2, <1>1, Row DEF Stages
        <5> QED BY <5>1, <3>2, <1>1, Row
      <4>2. chan'[To(i)] = chan[To(i)]
        BY <4>1, <2>2, <1>3 DEF Carried
      <4> QED BY <4>2, <3>2, <1>3, SentInRow
    <3>3. CASE setup.op # "pipeline"
      BY <3>3, <1>3, <1>5, SentByMerge
    <3> QED BY <3>1, <3>2, <3>3
  <2>5. Fed(From(i))' = Fed(From(i))
    BY <1>3, <2>1 DEF Fed
  <2>6. From(i) \in Sources => took[i] \o chan[From(i)] = Fed(From(i))
    BY <1>2 DEF Passes
  <2> QED BY <1>2, <1>3, <2>3, <2>4, <2>5, <2>6, Bystander
<1> QED BY <1>6
-----------------------------------------------------------------------------
LEMMA ReceiveFlows ==
    ASSUME FlowInv, NEW i \in Stages, setup.op # "await", Panic(i) \/ Skip(i) \/ Take(i)
    PROVE  Flows'
<1> USE DEF FlowInv
<1>1. setup \in Setups /\ Carried
    BY DEF IInv
<1>2. PICK took \in [Stages -> Seq(Elements)] : \A j \in Stages : Passes(took, j)
    BY DEF Flows
<1>3. /\ chan[From(i)] # <<>> /\ stage[i] = "receiving"
      /\ chan' = [chan EXCEPT ![From(i)] = Tail(@)]
      /\ UNCHANGED <<setup, closed, fed, out, ended>>
    BY DEF Panic, Skip, Take, ReceiveFrom, consumerVars, contextVars
<1>4. /\ From(i) \in Channels /\ chan[From(i)] \in Seq(Elements) /\ took[i] \in Seq(Elements)
      /\ DOMAIN chan = Channels /\ chan'[From(i)] = Tail(chan[From(i)])
    BY <1>1, <1>3, Layout DEF Carried
<1>5. PICK v \in Elements : v = Head(chan[From(i)])
    BY <1>3, <1>4
<1>6. PICK later \in [Stages -> Seq(Elements)] :
        later[i] = Append(took[i], v) /\ \A j \in Stages \ {i} : later[j] = took[j]
  <2> DEFINE l == [took EXCEPT ![i] = Append(took[i], v)]
  <2>1. Append(took[i], v) \in Seq(Elements)
    BY <1>4
  <2>2. l \in [Stages -> Seq(Elements)] /\ l[i] = Append(took[i], v)
            /\ \A j \in Stages \ {i} : l[j] = took[j]
    BY <2>1
  <2> QED BY <2>2
<1>7. later[i] \o chan'[From(i)] = took[i] \o chan[From(i)]
    BY <1>3, <1>4, <1>5, <1>6, HeadMoves
<1>8. Due(later, i)' = Due(took, i) \o Through(i)[v]
  <2>1. Due(later, i) = Due(took, i) \o Through(i)[v]
    <3>1. Through(i) \in [Elements -> Seq(Elements)]
      BY Maps
    <3>2. Passed(Through(i), Append(took[i], v)) = Passed(Through(i), took[i]) \o Through(i)[v]
      BY <3>1, <1>4, PassedAppend
    <3> QED BY <3>2, <1>6 DEF Due
  <2> QED BY <2>1, <1>3, DueKept
<1>9. \A j \in Stages : (From(j) \in Channels /\ To(j) \in Channels /\ (j # i => From(j) # From(i)))
    BY <1>1, Layout
<1>10. \A c \in Channels : c # From(i) => chan'[c] = chan[c]
    BY <1>3, <1>4
<1>11. ASSUME NEW j \in Stages
       PROVE  Sent(later, j)' = Sent(took, j)
  <2>1. CASE setup.op = "pipeline" /\ To(j) = From(i)
    <3>1. j # NumStages
      BY <2>1, <1>1, Row, Layout
    <3>2. j + 1 = i
      BY <3>1, <2>1, <1>1, Row, Layout
    <3>3. Sent(later, j)' = later[i] \o chan'[To(j)]
      BY <3>1, <3>2, <2>1, <1>3, SameLayout DEF Sent
    <3>4. Sent(took, j) = took[i] \o chan[To(j)]
      BY <3>1, <3>2, <2>1 DEF Sent
    <3> QED BY <3>3, <3>4, <2>1, <1>7
  <2>2. CASE setup.op = "pipeline" /\ To(j) # From(i)
    <3>1. chan'[To(j)] = chan[To(j)]
      BY <2>2, <1>9, <1>10
    <3>2. j # NumStages => j + 1 \in Stages /\ j + 1 # i
      BY <2>2, <1>1, Row
    <3> QED BY <3>1, <3>2, <2>2, <1>3, <1>6, SentInRow
  <2>3. CASE setup.op # "pipeline"
    <3>1. Sink \in Channels /\ Sink # From(i)
      BY <1>1, Layout, OperatorsAssumption
    <3> QED BY <3>1, <2>3, <1>3, <1>10, SentByMerge
  <2> QED BY <2>1, <2>2, <2>3
<1>12. \A j \in Stages : Fed(From(j))' = Fed(From(j))
    BY <1>3, SameLayout DEF Fed
<1>13. Passes(later, i)'
  <2>1. Sources' = Sources /\ From(i)' = From(i)
    BY <1>3, SameLayout
  <2>2. (From(i) \in Sources => later[i] \o chan[From(i)] = Fed(From(i)))'
    BY <1>2, <1>7, <1>12, <2>1 DEF Passes
  <2>3. Sent(later, i)' = Due(took, i)
    BY <1>2, <1>3, <1>11 DEF Passes
  <2>4. Due(took, i) \in Seq(Elements)
    BY <1>1, SentSeq
  <2>5. Through(i)[v] = (IF Rejected(i, v) THEN <<>> ELSE <<Applied(i, v)>>) /\ Applied(i, v) \in Elements
    BY Maps
  <2>6. stage \in [Stages -> {"none", "receiving", "offering", "leaving", "ended"}] /\ DOMAIN hand = Stages
    BY <1>1 DEF IInv, Staged, Carried
  <2>7. CASE Panic(i)
    <3>1. stage'[i] = "leaving" /\ setup'.bad # {}
      BY <2>6, <2>7, <1>3 DEF Panic, Next1
    <3>2. Through(i)[v] \in Seq(Elements)
      BY Maps
    <3>3. IsPrefix(Sent(later, i)', Due(later, i)')
      BY <2>3, <2>4, <3>2, <1>8, PrefixOfConcat
    <3> QED BY <2>2, <3>1, <3>3 DEF Passes
  <2>8. CASE Skip(i)
    <3>1. stage'[i] = "receiving" /\ Rejected(i, v)
      BY <2>8, <1>3, <1>5 DEF Skip, Next1, stageVars
    <3>2. Due(took, i) \o <<>> = Due(took, i)
      BY <2>4
    <3>3. Sent(later, i)' = Due(later, i)'
      BY <2>3, <2>5, <3>1, <3>2, <1>8
    <3> QED BY <2>2, <3>1, <3>3 DEF Passes
  <2>9. CASE Take(i)
    <3>1. setup.kind[i] # "await"
      BY <1>1, OperatorsAssumption
    <3>2. stage'[i] = "offering" /\ ~ Rejected(i, v) /\ hand'[i] = Applied(i, v)
      BY <2>6, <2>9, <3>1, <1>5 DEF Take, Next1
    <3>3. Due(later, i)' = Append(Due(took, i), hand'[i])
      BY <2>4, <2>5, <3>2, <1>8, AppendedAtTheEnd
    <3>4. (Append(Sent(later, i), hand[i]) = Due(later, i))'
      BY <2>3, <3>3
    <3> QED BY <2>2, <3>2, <3>4 DEF Passes
  <2> QED BY <2>7, <2>8, <2>9
<1>14. ASSUME NEW j \in Stages \ {i}
       PROVE  Passes(later, j)'
  <2>1. stage'[j] = stage[j] /\ hand'[j] = hand[j]
    <3>1. /\ stage \in [Stages -> {"none", "receiving", "offering", "leaving", "ended"}]
          /\ DOMAIN hand = Stages
      BY <1>1 DEF IInv, Staged, Carried
    <3>2. CASE Panic(i)
      BY <3>1, <3>2 DEF Panic
    <3>3. CASE Skip(i)
      BY <3>3 DEF Skip, stageVars
    <3>4. CASE Take(i)
      BY <3>1, <3>4 DEF Take
    <3> QED BY <3>2, <3>3, <3>4
  <2>2. later[j] = took[j] /\ chan'[From(j)] = chan[From(j)]
    BY <1>6, <1>9, <1>10
  <2>3. From(j) \in Sources => later[j] \o chan'[From(j)] = Fed(From(j))'
    BY <1>2, <2>2, <1>12 DEF Passes
  <2> QED BY <1>2, <1>3, <1>11, <2>1, <2>2, <2>3, Bystander
<1>15. \A j \in Stages : Passes(later, j)'
    BY <1>13, <1>14
<1> QED BY <1>15 DEF Flows
-----------------------------------------------------------------------------
LEMMA StopFlows ==
    ASSUME FlowInv, NEW i \in Stages, setup.op # "await", SourceClosed(i) \/ GiveUp(i)
    PROVE  Flows'
<1> USE DEF FlowInv
<1>1. setup \in Setups /\ Carried
    BY DEF IInv
<1>2. PICK took \in [Stages -> Seq(Elements)] : \A j \in Stages : Passes(took, j)
    BY DEF Flows
<1>3. /\ UNCHANGED <<setup, chan, closed, fed, out, ended, hand>>
      /\ stage' = [stage EXCEPT ![i] = "leaving"]
    BY DEF SourceClosed, GiveUp, chanVars, consumerVars, contextVars
<1>4. stage'[i] = "leaving" /\ \A j \in Stages \ {i} : stage'[j] = stage[j]
    BY <1>1, <1>3 DEF IInv, Staged
<1>5. ASSUME NEW j \in Stages
      PROVE  /\ Sent(took, j)' = Sent(took, j) /\ Due(took, j)' = Due(took, j)
             /\ Sources' = Sources /\ From(j)' = From(j)
             /\ Fed(From(j))' = Fed(From(j)) /\ (chan[From(j)])' = chan[From(j)]
  <2>1. Sources' = Sources /\ From(j)' = From(j) /\ To(j)' = To(j)
    BY <1>3, SameLayout
  <2> QED BY <2>1, <1>3, DueKept DEF Sent, Only, Passed, Fed
<1>6. /\ IsPrefix(Sent(took, i), Due(took, i))
      /\ ~ ended /\ setup.bad = {} =>
            Sent(took, i) = Due(took, i) /\ chan[From(i)] = <<>> /\ From(i) \in closed
  <2>1. Sent(took, i) \in Seq(Elements) /\ Due(took, i) \in Seq(Elements)
    BY <1>1, SentSeq
  <2>2. CASE SourceClosed(i)
    <3>1. Sent(took, i) = Due(took, i)
      BY <2>2, <1>2 DEF SourceClosed, Passes
    <3> QED BY <2>1, <2>2, <3>1, PrefixOfItself DEF SourceClosed
  <2>3. CASE GiveUp(i)
    <3>1. stage[i] = "offering"
      <4>1. setup.kind[i] # "await"
        BY <1>1, OperatorsAssumption
      <4> QED BY <4>1, <2>3 DEF GiveUp, Watches
    <3>2. Append(Sent(took, i), hand[i]) = Due(took, i)
      BY <3>1, <1>2 DEF Passes
    <3>3. hand[i] \in Elements /\ ended
      BY <3>1, <2>3, <1>1 DEF Carried, GiveUp
    <3>4. PICK v \in Elements : v = hand[i]
      BY <3>3
    <3>5. Due(took, i) = Sent(took, i) \o <<v>> /\ <<v>> \in Seq(Elements)
      <4>1. Sent(took, i) \o <<v>> = Append(Sent(took, i), v)
        BY <2>1, AppendedAtTheEnd
      <4>2. <<v>> \in Seq(Elements)
        OBVIOUS
      <4> QED BY <3>2, <3>4, <4>1, <4>2
    <3> QED BY <2>1, <3>3, <3>5, PrefixOfConcat
  <2> QED BY <2>2, <2>3
<1>7. Passes(took, i)'
  <2>1. (From(i) \in Sources => took[i] \o chan[From(i)] = Fed(From(i)))'
    BY <1>2, <1>5 DEF Passes
  <2> QED BY <2>1, <1>3, <1>4, <1>5, <1>6 DEF Passes
<1>8. ASSUME NEW j \in Stages \ {i}
      PROVE  Passes(took, j)'
    BY <1>2, <1>3, <1>4, <1>5 DEF Passes
<1> QED BY <1>7, <1>8 DEF Flows

LEMMA OfferFlows ==
    ASSUME FlowInv, NEW i \in Stages, setup.op # "await", Offer(i)
    PROVE  Flows'
<1> USE DEF FlowInv
<1>1. setup \in Setups /\ Carried
    BY DEF IInv
<1>2. PICK took \in [Stages -> Seq(Elements)] : \A j \in Stages : Passes(took, j)
    BY DEF Flows
<1>3. /\ stage[i] = "offering"
      /\ chan' = [chan EXCEPT ![To(i)] = Append(@, hand[i])]
      /\ stage' = [stage EXCEPT ![i] = "receiving"]
      /\ UNCHANGED <<setup, closed, fed, out, ended, hand>>
    BY DEF Offer, consumerVars, contextVars
<1>4. stage'[i] = "receiving" /\ \A j \in Stages \ {i} : stage'[j] = stage[j]
    BY <1>1, <1>3 DEF IInv, Staged
<1>5. \A j \in Stages : From(j) \in Channels /\ To(j) \in Channels /\ To(j) \notin Sources
    BY <1>1, Layout
<1>6. /\ chan'[To(i)] = Append(chan[To(i)], hand[i])
      /\ \A c \in Channels : c # To(i) => chan'[c] = chan[c]
    BY <1>1, <1>3, <1>5 DEF Carried
<1>7. /\ hand[i] \in Elements
      /\ setup.op = "merge" => hand[i][1] = From(i)
      /\ To(i) \notin closed
  <2>1. NoSendOnClosed
    BY NoneCloses
  <2> QED BY <2>1, <1>1, <1>3 DEF Carried, NoSendOnClosed
<1>8. PICK v \in Elements : v = hand[i]
    BY <1>7
<1>9. out \in Seq(Elements) /\ chan[To(i)] \in Seq(Elements) /\ Sent(took, i) \in Seq(Elements)
    BY <1>1, SentSeq DEF Carried
<1>10. Sent(took, i)' = Append(Sent(took, i), v) /\ \A j \in Stages \ {i} : Sent(took, j)' = Sent(took, j)
  <2>1. CASE setup.op = "pipeline"
    <3>1. \A j \in Stages \ {i} : chan'[To(j)] = chan[To(j)]
      BY <2>1, <1>1, <1>5, <1>6, Row
    <3>2. \A j \in Stages \ {i} : Sent(took, j)' = Sent(took, j)
      BY <3>1, <2>1, <1>3, SentInRow
    <3>3. Sent(took, i)' = (IF i = NumStages THEN out ELSE took[i + 1]) \o Append(chan[To(i)], v)
      BY <2>1, <1>3, <1>6, <1>8, SameLayout DEF Sent
    <3>4. Sent(took, i) = (IF i = NumStages THEN out ELSE took[i + 1]) \o chan[To(i)]
      BY <2>1 DEF Sent
    <3>5. PICK s \in Seq(Elements) : s = IF i = NumStages THEN out ELSE took[i + 1]
      BY <2>1, <1>1, <1>9, Row
    <3>6. s \o Append(chan[To(i)], v) = Append(s \o chan[To(i)], v)
      <4>1. PICK t \in Seq(Elements) : t = chan[To(i)]
        BY <1>9
      <4>2. s \o Append(t, v) = Append(s \o t, v)
        BY TailMoves
      <4> QED BY <4>1, <4>2
    <3>7. Sent(took, i)' = Append(Sent(took, i), v)
      BY <3>3, <3>4, <3>5, <3>6
    <3> QED BY <3>2, <3>7
  <2>2. CASE setup.op # "pipeline"
    <3>1. setup.op = "merge" /\ To(i) = Sink /\ v[1] = From(i)
      <4>1. setup.op = "merge"
        BY <2>2, <1>1, OperatorsAssumption
      <4> QED BY <4>1, <1>1, <1>7, <1>8, Fan
    <3>2. out \o chan'[Sink] = Append(out \o chan[Sink], v) /\ out \o chan[Sink] \in Seq(Elements)
      <4>1. PICK t \in Seq(Elements) : t = chan[Sink]
        BY <3>1, <1>9
      <4>2. PICK o \in Seq(Elements) : o = out
        BY <1>9
      <4>3. o \o Append(t, v) = Append(o \o t, v) /\ o \o t \in Seq(Elements)
        BY TailMoves
      <4>4. chan'[Sink] = Append(t, v)
        BY <4>1, <3>1, <1>6, <1>8
      <4> QED BY <4>1, <4>2, <4>3, <4>4
    <3>3. ASSUME NEW j \in Stages
          PROVE  Sent(took, j)' = Sent(took, j) \o Only(From(j))[v]
      <4>1. Only(From(j))' = Only(From(j))
        BY <1>3, SameLayout DEF Only
      <4>2. Sent(took, j)' = Passed(Only(From(j)), out \o chan'[Sink])
        <5>1. setup' = setup /\ out' = out
          BY <1>3
        <5> QED BY <5>1, <2>2, <4>1 DEF Sent, Passed
      <4>3. Sent(took, j) = Passed(Only(From(j)), out \o chan[Sink])
        BY <2>2 DEF Sent
      <4>4. Only(From(j)) \in [Elements -> Seq(Elements)]
        BY Maps
      <4>5. Passed(Only(From(j)), Append(out \o chan[Sink], v))
                = Passed(Only(From(j)), out \o chan[Sink]) \o Only(From(j))[v]
        BY <3>2, <4>4, PassedAppend
      <4> QED BY <4>2, <4>3, <4>5, <3>2
    <3>4. Sent(took, i)' = Append(Sent(took, i), v)
      <4>1. Only(From(i))[v] = <<v>>
        BY <3>1, Maps
      <4> QED BY <4>1, <3>3, <1>9, AppendedAtTheEnd
    <3>5. ASSUME NEW j \in Stages \ {i}
          PROVE  Sent(took, j)' = Sent(took, j)
      <4>1. From(j) # From(i)
        BY <1>1, Layout
      <4>2. Only(From(j))[v] = <<>>
        BY <4>1, <3>1, Maps
      <4>3. Sent(took, j) \in Seq(Elements)
        BY <1>1, SentSeq
      <4>4. Sent(took, j) \o <<>> = Sent(took, j)
        BY <4>3
      <4> QED BY <4>2, <4>4, <3>3
    <3> QED BY <3>4, <3>5
  <2> QED BY <2>1, <2>2
<1>11. \A j \in Stages : Fed(From(j))' = Fed(From(j)) /\ Sources' = Sources /\ From(j)' = From(j)
    BY <1>3, SameLayout DEF Fed
<1>12. \A j \in Stages : From(j) \in Sources => took[j] \o chan'[From(j)] = Fed(From(j))'
  <2> SUFFICES ASSUME NEW j \in Stages, From(j) \in Sources
               PROVE  took[j] \o chan'[From(j)] = Fed(From(j))'
    OBVIOUS
  <2>1. chan'[From(j)] = chan[From(j)]
    BY <1>5, <1>6
  <2> QED BY <2>1, <1>2, <1>11 DEF Passes
<1>13. Passes(took, i)'
  <2>1. Due(took, i)' = Due(took, i)
    BY <1>3, DueKept
  <2>2. (Sent(took, i) = Due(took, i))'
    BY <2>1, <1>2, <1>3, <1>8, <1>10 DEF Passes
  <2>3. (From(i) \in Sources => took[i] \o chan[From(i)] = Fed(From(i)))'
    BY <1>11, <1>12
  <2> QED BY <2>2, <2>3, <1>4 DEF Passes
<1>14. ASSUME NEW j \in Stages \ {i}
       PROVE  Passes(took, j)'
  <2>1. From(j) \in closed => chan'[From(j)] = chan[From(j)]
    BY <1>5, <1>6, <1>7
  <2> QED BY <2>1, <1>2, <1>3, <1>4, <1>10, <1>12, Bystander
<1>15. \A j \in Stages : Passes(took, j)'
    BY <1>13, <1>14
<1> QED BY <1>15 DEF Flows
-----------------------------------------------------------------------------
(* At the start nobody has received anything. *)
LEMMA InitFlows == Init => FlowInv
<1> SUFFICES ASSUME Init PROVE FlowInv
    OBVIOUS
<1>1. IInv /\ setup \in Setups
    BY InitIInv DEF Init
<1>2. /\ chan = [c \in Channels |-> <<>>] /\ closed = {} /\ out = <<>>
      /\ fed = [c \in Sources |-> 0] /\ hand = [j \in Stages |-> Zero]
      /\ listed = NoWatch /\ cancelled = {}
      /\ \A j \in Stages : stage[j] = "none"
    BY DEF Init
<1>3. Sources \subseteq Channels
    BY <1>1, SourcesAreChannels
<1>4. \A c \in Sources : setup.feed[c] \in Seq(Elements)
    BY <1>1, SourcesAreChannels
<1>5. Carried
  <2>1. /\ chan \in [Channels -> Seq(Elements)] /\ out \in Seq(Elements)
        /\ fed \in [Sources -> Nat]
    BY <1>2
  <2>2. \A c \in Sources : /\ fed[c] <= Len(setup.feed[c]) /\ c \notin closed
                           /\ \A n \in 1 .. Len(chan[c]) : FALSE
    BY <1>2, <1>3, <1>4
  <2> QED BY <1>2, <2>1, <2>2 DEF Carried
<1>6. Flows
  <2> SUFFICES ASSUME setup.op # "await"
               PROVE  \E took \in [Stages -> Seq(Elements)] : \A i \in Stages : Passes(took, i)
    BY DEF Flows
  <2> DEFINE took == [j \in Stages |-> <<>>]
  <2>1. took \in [Stages -> Seq(Elements)] /\ \A j \in Stages : took[j] = <<>>
    OBVIOUS
  <2> HIDE DEF took
  <2>2. ASSUME NEW i \in Stages
        PROVE  Passes(took, i)
    <3>1. /\ From(i) \in Channels /\ To(i) \in Channels /\ Sink \in Channels
          /\ chan[From(i)] = <<>> /\ chan[To(i)] = <<>> /\ chan[Sink] = <<>>
      BY <1>1, <1>2, Layout, OperatorsAssumption
    <3>2. Due(took, i) = <<>>
      BY <2>1, PassedEmpty DEF Due
    <3>3. <<>> \o <<>> = <<>>
      OBVIOUS
    <3>4. Sent(took, i) = <<>>
      <4>1. CASE setup.op = "pipeline"
        <5>1. i # NumStages => took[i + 1] = <<>>
          BY <1>1, <2>1, <4>1, Row
        <5> QED BY <5>1, <4>1, <1>2, <3>1, <3>3 DEF Sent
      <4>2. CASE setup.op # "pipeline"
        BY <4>2, <1>2, <3>1, <3>3, PassedEmpty DEF Sent
      <4> QED BY <4>1, <4>2
    <3>5. From(i) \in Sources => took[i] \o chan[From(i)] = Fed(From(i))
      <4> SUFFICES ASSUME From(i) \in Sources PROVE Fed(From(i)) = <<>>
        BY <2>1, <3>1, <3>3
      <4>1. SubSeq(setup.feed[From(i)], 1, 0) = <<>>
        BY <1>4
      <4> QED BY <4>1, <1>2 DEF Fed
    <3> QED BY <1>2, <3>2, <3>4, <3>5 DEF Passes
  <2> QED BY <2>1, <2>2
<1> QED BY <1>1, <1>5, <1>6 DEF FlowInv

-----------------------------------------------------------------------------
(* Steps that move no element. *)
LEMMA StillCarried ==
    ASSUME Carried, UNCHANGED <<setup, chan, out, fed, hand>>,
           \A i \in Stages : stage'[i] = "offering" => stage[i] = "offering",
           \A c \in Sources : c \in closed' => c \in closed \/ fed[c] = Len(setup.feed[c]),
           listed' # NoWatch \/ cancelled' # {} => ended'
    PROVE  Carried'
BY SameLayout DEF Carried

LEMMA TailTagged ==
    ASSUME NEW s \in Seq(Elements), s # <<>>
    PROVE  /\ Tail(s) \in Seq(Elements) /\ Head(s) \in Elements /\ Head(s) = s[1]
           /\ Len(s) \in Nat \ {0}
           /\ \A n \in 1 .. Len(Tail(s)) : n + 1 \in 1 .. Len(s) /\ Tail(s)[n] = s[n + 1]
OBVIOUS

LEMMA FeedCarries ==
    ASSUME Carried, setup \in Setups, NEW c \in Sources, Feed(c)
    PROVE  Carried'
<1>1. /\ fed[c] < Len(setup.feed[c])
      /\ chan' = [chan EXCEPT ![c] = Append(@, setup.feed[c][fed[c] + 1])]
      /\ fed' = [fed EXCEPT ![c] = @ + 1]
      /\ UNCHANGED <<setup, closed, out, ended, stage, hand, listed, cancelled>>
    BY DEF Feed, consumerVars, contextVars, stageVars
<1>2. /\ Sources \subseteq Channels /\ setup.feed[c] \in Seq(Elements)
      /\ setup.op = "merge" =>
            \A n \in 1 .. Len(setup.feed[c]) : setup.feed[c][n][1] = c
  <2>1. Sources \subseteq Channels /\ setup.feed[c] \in Seq(Elements)
    BY SourcesAreChannels
  <2>2. ASSUME setup.op = "merge"
        PROVE  \A n \in 1 .. Len(setup.feed[c]) : setup.feed[c][n][1] = c
    BY <2>2, Fan
  <2> QED BY <2>1, <2>2
<1>3. PICK v \in Elements : v = setup.feed[c][fed[c] + 1]
    BY <1>1, <1>2 DEF Carried
<1>4. setup.op = "merge" => v[1] = c
  <2>1. fed[c] + 1 \in 1 .. Len(setup.feed[c])
    BY <1>1, <1>2 DEF Carried
  <2> QED BY <2>1, <1>2, <1>3
<1>5. /\ chan[c] \in Seq(Elements) /\ chan'[c] = Append(chan[c], v) /\ fed'[c] = fed[c] + 1
      /\ \A d \in Channels \ {c} : chan'[d] = chan[d]
      /\ \A d \in Sources \ {c} : fed'[d] = fed[d]
      /\ chan' \in [Channels -> Seq(Elements)] /\ fed' \in [Sources -> Nat]
  <2>1. c \in Channels /\ chan[c] \in Seq(Elements)
    BY <1>2 DEF Carried
  <2>2. Append(chan[c], v) \in Seq(Elements)
    BY <2>1
  <2>3. chan' \in [Channels -> Seq(Elements)] /\ chan'[c] = Append(chan[c], v)
    BY <1>1, <1>3, <2>1, <2>2 DEF Carried
  <2>4. fed' \in [Sources -> Nat] /\ fed'[c] = fed[c] + 1
    BY <1>1 DEF Carried
  <2> QED BY <1>1, <2>1, <2>3, <2>4 DEF Carried
<1>6. \A n \in 1 .. Len(chan'[c]) : chan'[c][n] = v \/ (n \in 1 .. Len(chan[c]) /\ chan'[c][n] = chan[c][n])
    BY <1>5
<1>7. fed'[c] <= Len(setup.feed[c]) /\ c \notin closed
    BY <1>1, <1>2, <1>5 DEF Carried
<1>8. Sources' = Sources /\ \A i \in Stages : From(i)' = From(i)
    BY <1>1, SameLayout
<1>9. ASSUME NEW d \in Sources
      PROVE  /\ fed'[d] <= Len(setup.feed[d])
             /\ d \in closed => fed'[d] = Len(setup.feed[d])
             /\ setup.op = "merge" => \A n \in 1 .. Len(chan'[d]) : chan'[d][n][1] = d
  <2>1. CASE d = c
    <3>1. setup.op = "merge" => \A n \in 1 .. Len(chan[c]) : chan[c][n][1] = c
      BY DEF Carried
    <3>2. setup.op = "merge" => \A n \in 1 .. Len(chan'[c]) : chan'[c][n][1] = c
      BY <3>1, <1>4, <1>6
    <3> QED BY <2>1, <3>2, <1>7
  <2>2. CASE d # c
    <3>1. chan'[d] = chan[d] /\ fed'[d] = fed[d]
      BY <2>2, <1>2, <1>5
    <3>2. /\ fed[d] <= Len(setup.feed[d])
          /\ d \in closed => fed[d] = Len(setup.feed[d])
          /\ setup.op = "merge" => \A n \in 1 .. Len(chan[d]) : chan[d][n][1] = d
      BY DEF Carried
    <3> QED BY <3>1, <3>2
  <2> QED BY <2>1, <2>2
<1> QED BY <1>1, <1>5, <1>8, <1>9 DEF Carried

LEMMA ConsumeCarries ==
    ASSUME Carried, setup \in Setups, Consume
    PROVE  Carried'
<1>1. /\ chan[Sink] # <<>> /\ out' = Append(out, Head(chan[Sink]))
      /\ chan' = [chan EXCEPT ![Sink] = Tail(@)]
      /\ UNCHANGED <<setup, closed, fed, ended, stage, hand, listed, cancelled>>
    BY DEF Consume, contextVars, stageVars
<1>2. Sink \in Channels /\ chan[Sink] \in Seq(Elements) /\ out \in Seq(Elements)
    BY OperatorsAssumption DEF Carried
<1>3. Tail(chan[Sink]) \in Seq(Elements) /\ out' \in Seq(Elements)
    BY <1>1, <1>2, TailTagged
<1>4. chan' \in [Channels -> Seq(Elements)] /\ \A d \in Channels \ {Sink} : chan'[d] = chan[d]
    BY <1>1, <1>2, <1>3 DEF Carried
<1>5. setup.op = "merge" => \A d \in Sources : d \in Channels \ {Sink}
    BY Layout, Fan
<1>6. Sources' = Sources /\ \A i \in Stages : From(i)' = From(i)
    BY <1>1, SameLayout
<1>7. \A d \in Sources : setup.op = "merge" => chan'[d] = chan[d]
    BY <1>4, <1>5
<1> QED BY <1>1, <1>3, <1>4, <1>6, <1>7 DEF Carried

LEMMA ReceiveCarries ==
    ASSUME Carried, IInv, NEW i \in Stages, Panic(i) \/ Skip(i) \/ Take(i)
    PROVE  Carried'
<1>1. /\ chan[From(i)] # <<>> /\ stage[i] = "receiving"
      /\ chan' = [chan EXCEPT ![From(i)] = Tail(@)]
      /\ UNCHANGED <<setup, closed, fed, out, ended, listed, cancelled>>
    BY DEF Panic, Skip, Take, ReceiveFrom, consumerVars, contextVars
<1>2. setup \in Setups /\ From(i) \in Channels /\ chan[From(i)] \in Seq(Elements)
    BY OperatorsAssumption DEF IInv, From, Carried
<1>3. PICK v \in Elements : v = Head(chan[From(i)]) /\ v = chan[From(i)][1] /\ 1 \in 1 .. Len(chan[From(i)])
    BY <1>1, <1>2, TailTagged
<1>4. /\ chan' \in [Channels -> Seq(Elements)] /\ chan'[From(i)] = Tail(chan[From(i)])
      /\ \A d \in Channels \ {From(i)} : chan'[d] = chan[d]
  <2>1. Tail(chan[From(i)]) \in Seq(Elements)
    BY <1>1, <1>2, TailTagged
  <2> QED BY <2>1, <1>1, <1>2 DEF Carried
<1>5. Sources' = Sources /\ \A j \in Stages : From(j)' = From(j)
    BY <1>1, SameLayout
<1>6. Sources \subseteq Channels /\ (setup.op = "merge" => From(i) \in Sources)
  <2>1. Sources \subseteq Channels
    BY <1>2, SourcesAreChannels
  <2> QED BY <2>1, <1>2, Fan
<1>7. ASSUME NEW d \in Sources, setup.op = "merge"
      PROVE  \A n \in 1 .. Len(chan'[d]) : chan'[d][n][1] = d
  <2>1. CASE d = From(i)
    <3>1. \A n \in 1 .. Len(chan'[d]) : n + 1 \in 1 .. Len(chan[d]) /\ chan'[d][n] = chan[d][n + 1]
      BY <2>1, <1>1, <1>2, <1>4, TailTagged
    <3>2. \A n \in 1 .. Len(chan[d]) : chan[d][n][1] = d
      BY <1>7 DEF Carried
    <3> QED BY <3>1, <3>2
  <2>2. CASE d # From(i)
    BY <2>2, <1>4, <1>6, <1>7 DEF Carried
  <2> QED BY <2>1, <2>2
<1>8. /\ DOMAIN hand' = Stages
      /\ \A j \in Stages : stage'[j] = "offering" =>
            \/ hand'[j] = hand[j] /\ stage[j] = "offering"
            \/ j = i /\ hand'[j] = Applied(i, v)
  <2>1. /\ stage \in [Stages -> {"none", "receiving", "offering", "leaving", "ended"}]
        /\ DOMAIN hand = Stages
    BY DEF IInv, Staged, Carried
  <2>2. CASE Panic(i)
    BY <2>1, <2>2 DEF Panic
  <2>3. CASE Skip(i)
    BY <2>1, <2>3 DEF Skip, stageVars
  <2>4. CASE Take(i) /\ setup.kind[i] = "await"
    BY <2>1, <2>4 DEF Take
  <2>5. CASE Take(i) /\ setup.kind[i] # "await"
    <3>1. stage' = [stage EXCEPT ![i] = "offering"] /\ hand' = [hand EXCEPT ![i] = Applied(i, v)]
      BY <2>5, <1>3 DEF Take, Next1
    <3> QED BY <2>1, <3>1
  <2> QED BY <2>2, <2>3, <2>4, <2>5
<1>9. ASSUME NEW j \in Stages, stage'[j] = "offering"
      PROVE  hand'[j] \in Elements /\ (setup.op = "merge" => hand'[j][1] = From(j))
  <2>1. CASE hand'[j] = hand[j] /\ stage[j] = "offering"
    BY <2>1 DEF Carried
  <2>2. CASE j = i /\ hand'[j] = Applied(i, v)
    <3>1. hand'[j] \in Elements /\ hand'[j][1] = v[1]
      BY <2>2, Maps
    <3>2. setup.op = "merge" => v[1] = From(i)
      BY <1>3, <1>6 DEF Carried
    <3> QED BY <3>1, <3>2, <2>2
  <2> QED BY <1>8, <1>9, <2>1, <2>2
<1>10. \A d \in Sources : /\ fed[d] <= Len(setup.feed[d])
                          /\ d \in closed => fed[d] = Len(setup.feed[d])
    BY DEF Carried
<1>11. fed \in [Sources -> Nat] /\ out \in Seq(Elements) /\ (listed # NoWatch \/ cancelled # {} => ended)
    BY DEF Carried
<1>12. (/\ chan \in [Channels -> Seq(Elements)] /\ out \in Seq(Elements)
        /\ fed \in [Sources -> Nat] /\ DOMAIN hand = Stages
        /\ (listed # NoWatch \/ cancelled # {} => ended))'
    BY <1>1, <1>4, <1>5, <1>8, <1>11
<1>13. (\A j \in Stages : stage[j] = "offering" =>
            hand[j] \in Elements /\ (setup.op = "merge" => hand[j][1] = From(j)))'
    BY <1>1, <1>5, <1>9
<1>14. (\A c \in Sources :
            /\ fed[c] <= Len(setup.feed[c])
            /\ c \in closed => fed[c] = Len(setup.feed[c])
            /\ setup.op = "merge" => \A n \in 1 .. Len(chan[c]) : chan[c][n][1] = c)'
    BY <1>1, <1>5, <1>7, <1>10
<1> QED BY <1>12, <1>13, <1>14, Zenon DEF Carried

LEMMA OfferCarries ==
    ASSUME Carried, IInv, NEW i \in Stages, Offer(i)
    PROVE  Carried'
<1>1. /\ stage[i] = "offering"
      /\ chan' = [chan EXCEPT ![To(i)] = Append(@, hand[i])]
      /\ stage' = [stage EXCEPT ![i] = "receiving"]
      /\ UNCHANGED <<setup, closed, fed, out, ended, hand, listed, cancelled>>
    BY DEF Offer, consumerVars, contextVars
<1>2. setup \in Setups /\ setup.op # "await" /\ hand[i] \in Elements
    BY <1>1 DEF IInv, Sending, Carried
<1>3. To(i) \in Channels \ Sources /\ chan[To(i)] \in Seq(Elements) /\ Sources \subseteq Channels
    BY <1>2, Layout DEF Carried
<1>4. Append(chan[To(i)], hand[i]) \in Seq(Elements)
    BY <1>2, <1>3
<1>5. chan' \in [Channels -> Seq(Elements)] /\ \A d \in Sources : chan'[d] = chan[d]
    BY <1>1, <1>3, <1>4 DEF Carried
<1>6. \A j \in Stages : stage'[j] = "offering" => stage[j] = "offering"
    BY <1>1 DEF IInv, Staged
<1>7. Sources' = Sources /\ \A j \in Stages : From(j)' = From(j)
    BY <1>1, SameLayout
<1>8. (\A j \in Stages : stage[j] = "offering" =>
            hand[j] \in Elements /\ (setup.op = "merge" => hand[j][1] = From(j)))'
    BY <1>1, <1>6, <1>7 DEF Carried
<1>9. (\A c \in Sources :
            /\ fed[c] <= Len(setup.feed[c])
            /\ c \in closed => fed[c] = Len(setup.feed[c])
            /\ setup.op = "merge" => \A n \in 1 .. Len(chan[c]) : chan[c][n][1] = c)'
  <2>1. \A c \in Sources :
            /\ fed[c] <= Len(setup.feed[c])
            /\ c \in closed => fed[c] = Len(setup.feed[c])
            /\ setup.op = "merge" => \A n \in 1 .. Len(chan[c]) : chan[c][n][1] = c
    BY DEF Carried
  <2>2. setup' = setup /\ fed' = fed /\ closed' = closed /\ Sources' = Sources
    BY <1>1, <1>7
  <2>3. \A d \in Sources : chan'[d] = chan[d]
    BY <1>5
  <2> QED BY <2>1, <2>2, <2>3
<1>10. (/\ chan \in [Channels -> Seq(Elements)] /\ out \in Seq(Elements)
        /\ fed \in [Sources -> Nat] /\ DOMAIN hand = Stages
        /\ (listed # NoWatch \/ cancelled # {} => ended))'
    BY <1>1, <1>5, <1>7 DEF Carried
<1> QED BY <1>8, <1>9, <1>10, Zenon DEF Carried
-----------------------------------------------------------------------------
(* All actions together. *)
LEMMA StillMoves ==
    ASSUME FlowInv, UNCHANGED <<setup, chan, out, fed, hand>>,
           closed \subseteq closed', ended => ended',
           \A c \in Sources : c \in closed' => c \in closed \/ fed[c] = Len(setup.feed[c]),
           listed' # NoWatch \/ cancelled' # {} => ended',
           \A i \in Stages :
                \/ stage'[i] = stage[i]
                \/ stage[i] \in {"none", "receiving"} /\ stage'[i] \in {"none", "receiving"}
                \/ stage[i] \in {"leaving", "ended"} /\ stage'[i] \in {"leaving", "ended"}
    PROVE  Carried' /\ Flows'
<1>1. \A i \in Stages : stage'[i] = "offering" => stage[i] = "offering"
    OBVIOUS
<1>2. Carried'
    BY <1>1, StillCarried DEF FlowInv
<1>3. Flows'
    BY StillFlows
<1> QED BY <1>2, <1>3

LEMMA StageFlows ==
    ASSUME FlowInv, NEW i \in Stages, StageStep(i)
    PROVE  Carried' /\ Flows'
<1>1. setup' = setup /\ Carried /\ IInv /\ setup \in Setups
    BY DEF FlowInv, IInv, StageStep, Panic, Skip, Take, ReceiveFrom, SourceClosed, Offer, GiveUp, Leave
<1>2. stage \in [Stages -> {"none", "receiving", "offering", "leaving", "ended"}]
    BY <1>1 DEF IInv, Staged
<1>3. setup.op = "await" => Flows'
    BY <1>1 DEF Flows
<1>4. CASE Panic(i) \/ Skip(i) \/ Take(i)
    BY <1>1, <1>3, <1>4, ReceiveCarries, ReceiveFlows
<1>5. CASE SourceClosed(i) \/ GiveUp(i)
  <2>1. /\ UNCHANGED <<setup, chan, out, fed, hand, closed, ended, listed, cancelled>>
        /\ stage' = [stage EXCEPT ![i] = "leaving"]
    BY <1>5 DEF SourceClosed, GiveUp, chanVars, consumerVars, contextVars
  <2>2. \A j \in Stages : stage'[j] = "offering" => stage[j] = "offering"
    BY <2>1, <1>2
  <2>3. listed' # NoWatch \/ cancelled' # {} => ended'
    BY <2>1, <1>1 DEF Carried
  <2>4. Carried'
    BY <1>1, <2>1, <2>2, <2>3, StillCarried
  <2> QED BY <2>4, <1>3, <1>5, StopFlows
<1>6. CASE Offer(i)
  <2>1. setup.op # "await"
    BY <1>1, <1>6 DEF Offer, IInv, Sending
  <2> QED BY <2>1, <1>1, <1>6, OfferCarries, OfferFlows
<1>7. CASE Leave(i)
  <2>1. /\ UNCHANGED <<setup, chan, out, fed, hand, ended, listed, cancelled>>
        /\ stage[i] = "leaving" /\ stage' = [stage EXCEPT ![i] = "ended"]
        /\ closed' = IF setup.op = "pipeline" THEN closed \union {To(i)} ELSE closed
    BY <1>7 DEF Leave, consumerVars, contextVars
  <2>2. \A c \in Sources : c \in closed' => c \in closed
    BY <2>1, <1>1, Layout
  <2>3. listed' # NoWatch \/ cancelled' # {} => ended'
    BY <2>1, <1>1 DEF Carried
  <2>4. \A j \in Stages :
            \/ stage'[j] = stage[j]
            \/ stage[j] \in {"leaving", "ended"} /\ stage'[j] \in {"leaving", "ended"}
    BY <2>1, <1>2
  <2>5. closed \subseteq closed' /\ (ended => ended')
    BY <2>1
  <2> QED BY <2>1, <2>2, <2>3, <2>4, <2>5, StillMoves
<1> QED BY <1>4, <1>5, <1>6, <1>7 DEF StageStep

LEMMA GroupFlows ==
    ASSUME FlowInv, GroupStep
    PROVE  Carried' /\ Flows'
<1>1. /\ UNCHANGED <<setup, chan, out, fed, hand, ended, listed, cancelled>>
      /\ Carried /\ IInv /\ setup \in Setups
    BY DEF FlowInv, IInv, GroupStep, Start, Hang, StartedAll, CloseMerged, ReturnAwaited,
           chanVars, consumerVars, contextVars, stageVars
<1>2. stage \in [Stages -> {"none", "receiving", "offering", "leaving", "ended"}]
    BY <1>1 DEF IInv, Staged
<1>3. listed' # NoWatch \/ cancelled' # {} => ended'
    BY <1>1 DEF Carried
<1>4. \A j \in Stages :
            \/ stage'[j] = stage[j]
            \/ stage[j] = "none" /\ stage'[j] = "receiving"
  <2>1. CASE \E i \in Stages : Start(i)
    <3>1. PICK i \in Stages : Start(i)
      BY <2>1
    <3>2. stage[i] = "none"
      BY <3>1, <1>1, OperatorsAssumption DEF Start, IInv, Staged, Stages
    <3> QED BY <3>1, <3>2, <1>2 DEF Start
  <2>2. CASE Hang \/ StartedAll \/ CloseMerged \/ ReturnAwaited
    BY <2>2 DEF Hang, StartedAll, CloseMerged, ReturnAwaited, stageVars
  <2> QED BY <2>1, <2>2 DEF GroupStep
<1>5. closed' = closed \/ (setup.op = "merge" /\ closed' = closed \union {Sink})
  <2>1. CASE CloseMerged
    BY <2>1, <1>1 DEF CloseMerged, IInv, JoinedFirst
  <2>2. CASE ~ CloseMerged
    BY <2>2 DEF GroupStep, Start, Hang, StartedAll, ReturnAwaited, chanVars
  <2> QED BY <2>1, <2>2
<1>6. setup.op = "merge" => Sink \notin Sources
    BY <1>1, Layout, Fan
<1>7. \A c \in Sources : c \in closed' => c \in closed
    BY <1>5, <1>6
<1>8. closed \subseteq closed' /\ (ended => ended')
    BY <1>1, <1>5
<1> QED BY <1>1, <1>3, <1>4, <1>7, <1>8, StillMoves

LEMMA NextFlows == FlowInv /\ [Next]_vars => FlowInv'
<1> SUFFICES ASSUME FlowInv, [Next]_vars PROVE Carried' /\ Flows'
    BY NextInv DEF FlowInv
<1>1. Carried /\ IInv /\ setup \in Setups
    BY DEF FlowInv, IInv
<1>2. listed # NoWatch \/ cancelled # {} => ended
    BY <1>1 DEF Carried
<1>3. CASE \E c \in Sources : Feed(c)
    BY <1>3, <1>1, FeedCarries, FeedFlows
<1>4. CASE \E c \in Sources : CloseSource(c)
  <2>1. PICK c \in Sources : CloseSource(c)
    BY <1>4
  <2>2. /\ UNCHANGED <<setup, chan, out, fed, hand, ended, listed, cancelled, stage>>
        /\ fed[c] = Len(setup.feed[c]) /\ closed' = closed \union {c}
    BY <2>1 DEF CloseSource, consumerVars, contextVars, stageVars
  <2>3. \A d \in Sources : d \in closed' => d \in closed \/ fed[d] = Len(setup.feed[d])
    BY <2>2
  <2>4. closed \subseteq closed' /\ (ended => ended') /\ \A j \in Stages : stage'[j] = stage[j]
    BY <2>2
  <2>5. listed' # NoWatch \/ cancelled' # {} => ended'
    BY <2>2, <1>2
  <2> QED BY <2>2, <2>3, <2>4, <2>5, StillMoves
<1>5. CASE Consume
    BY <1>5, <1>1, ConsumeCarries, ConsumeFlows
<1>6. CASE StopConsuming \/ EndContext \/ WatcherStep \/ UNCHANGED vars
  <2>1. UNCHANGED <<setup, chan, out, fed, hand, stage, closed>>
    BY <1>6 DEF StopConsuming, EndContext, WatcherStep, Watch, CancelChild, vars,
                chanVars, consumerVars, stageVars
  <2>2. (ended => ended') /\ (listed' # NoWatch \/ cancelled' # {} => ended')
    <3>1. CASE Watch
      BY <3>1 DEF Watch
    <3>2. CASE \E i \in Stages : CancelChild(i)
      <4>1. PICK i \in Stages : CancelChild(i)
        BY <3>2
      <4>2. i \in listed /\ listed' = listed /\ ended' = ended
        BY <4>1 DEF CancelChild
      <4>3. listed # NoWatch
        BY <4>2, OperatorsAssumption DEF NoWatch, Stages
      <4> QED BY <4>2, <4>3, <1>2
    <3>3. CASE StopConsuming \/ EndContext \/ UNCHANGED vars
      BY <3>3, <1>2 DEF StopConsuming, EndContext, vars, contextVars
    <3> QED BY <1>6, <3>1, <3>2, <3>3 DEF WatcherStep
  <2>3. \A j \in Stages : stage'[j] = stage[j]
    BY <2>1
  <2>4. \A c \in Sources : c \in closed' => c \in closed
    BY <2>1
  <2> QED BY <2>1, <2>2, <2>3, <2>4, StillMoves
<1>7. CASE GroupStep
    BY <1>7, GroupFlows
<1>8. CASE \E i \in Stages : StageStep(i)
    BY <1>8, StageFlows
<1> QED BY <1>3, <1>4, <1>5, <1>6, <1>7, <1>8 DEF Next

(* In every reachable state some histories of the stages explain what is   *)
(* in the channels, in the stages' hands and with the consumer.            *)
THEOREM FlowInductive == Spec => []FlowInv
BY InitFlows, NextFlows, PTL DEF Spec
-----------------------------------------------------------------------------
(* What comes out after each operator of a row. *)
IsChain(g, c) ==
    g[0] = setup.feed[c] /\ \A i \in Stages : g[i] = Passed(Through(i), g[i - 1])

LEMMA ChainExists ==
    ASSUME setup \in Setups, NEW c \in Sources
    PROVE  \E g \in [0 .. NumStages -> Seq(Elements)] : IsChain(g, c)
<1> DEFINE Chains(m) == {g \in [0 .. m -> Seq(Elements)] :
                            /\ g[0] = setup.feed[c]
                            /\ \A i \in 1 .. m : g[i] = Passed(Through(i), g[i - 1])}
           S == {m \in Nat : Chains(m) # {}}
<1>1. setup.feed[c] \in Seq(Elements)
    BY SourcesAreChannels
<1>2. 0 \in S
  <2> DEFINE g == [n \in 0 .. 0 |-> setup.feed[c]]
  <2>1. g \in [0 .. 0 -> Seq(Elements)] /\ g[0] = setup.feed[c]
    BY <1>1
  <2> HIDE DEF g
  <2>2. g \in Chains(0)
    BY <2>1
  <2> QED BY <2>2
<1>3. ASSUME NEW m \in S
      PROVE  m + 1 \in S
  <2> HIDE DEF Chains
  <2>1. PICK g : g \in Chains(m)
    OBVIOUS
  <2> USE DEF Chains
  <2>2. /\ g \in [0 .. m -> Seq(Elements)] /\ g[0] = setup.feed[c]
        /\ \A i \in 1 .. m : g[i] = Passed(Through(i), g[i - 1])
    BY <2>1
  <2> DEFINE next == Passed(Through(m + 1), g[m])
             h == [n \in 0 .. m + 1 |-> IF n = m + 1 THEN next ELSE g[n]]
  <2>3. next \in Seq(Elements)
    <3>1. Through(m + 1) \in [Elements -> Seq(Elements)]
      BY Maps
    <3>2. g[m] \in Seq(Elements)
      BY <2>2
    <3> QED BY <3>1, <3>2, PassedSeq
  <2> HIDE DEF next
  <2>4. h \in [0 .. m + 1 -> Seq(Elements)]
    BY <2>2, <2>3
  <2>5. h[m + 1] = next /\ \A n \in 0 .. m : h[n] = g[n]
    OBVIOUS
  <2> HIDE DEF h
  <2>6. h[0] = setup.feed[c]
    BY <2>2, <2>5
  <2>7. ASSUME NEW i \in 1 .. m + 1
        PROVE  h[i] = Passed(Through(i), h[i - 1])
    <3>1. CASE i = m + 1
      <4>1. h[i] = next /\ h[i - 1] = g[m]
        BY <3>1, <2>5
      <4> QED BY <4>1, <3>1 DEF next
    <3>2. CASE i # m + 1
      <4>1. i \in 1 .. m /\ i \in 0 .. m /\ i - 1 \in 0 .. m
        BY <3>2
      <4>2. g[i] = Passed(Through(i), g[i - 1]) /\ h[i] = g[i] /\ h[i - 1] = g[i - 1]
        BY <4>1, <2>2, <2>5
      <4> QED BY <4>2
    <3> QED BY <3>1, <3>2
  <2>8. h \in Chains(m + 1)
    BY <2>4, <2>6, <2>7
  <2> HIDE DEF Chains
  <2>9. Chains(m + 1) # {} /\ m + 1 \in Nat
    BY <2>8
  <2> QED BY <2>9
<1> HIDE DEF Chains
<1>4. S = Nat
  <2> HIDE DEF S
  <2>1. S \in SUBSET Nat
    BY DEF S
  <2> QED BY <2>1, <1>2, <1>3, Induction
<1>5. PICK g : g \in Chains(NumStages)
    BY <1>4, OperatorsAssumption
<1> QED BY <1>5 DEF Chains, IsChain, Stages

LEMMA ExpectedIsUnique ==
    ASSUME setup.op = "pipeline", NEW c, NEW g, IsChain(g, c)
    PROVE  Expected(c) = g[NumStages]
<1> DEFINE h == [n \in 0 .. NumStages |-> g[n]]
           Chain(r) == [i \in 0 .. NumStages |->
                            IF i = 0 THEN setup.feed[c] ELSE Passed(Through(i), r[i - 1])]
<1>0. NumStages \in Nat
    BY OperatorsAssumption
<1>1. Expected(c) = (CHOOSE r : r = Chain(r))[NumStages]
    BY DEF Expected
<1>2. \A n \in 0 .. NumStages : h[n] = g[n]
    OBVIOUS
<1>3. h = Chain(h)
  <2>1. \A n \in 0 .. NumStages : h[n] = Chain(h)[n]
    <3> TAKE n \in 0 .. NumStages
    <3>1. CASE n = 0
      BY <3>1 DEF IsChain
    <3>2. CASE n # 0
      <4>1. n \in Stages /\ n - 1 \in 0 .. NumStages
        BY <3>2, <1>0 DEF Stages
      <4>2. g[n] = Passed(Through(n), g[n - 1])
        BY <4>1 DEF IsChain
      <4>3. h[n] = g[n] /\ h[n - 1] = g[n - 1]
        BY <4>1, <1>2
      <4>4. Chain(h)[n] = Passed(Through(n), h[n - 1])
        BY <3>2
      <4> QED BY <4>2, <4>3, <4>4
    <3> QED BY <3>1, <3>2
  <2> QED BY <2>1
<1>4. ASSUME NEW r, r = Chain(r)
      PROVE  r = h
  <2> HIDE DEF h
  <2>1. DOMAIN r = 0 .. NumStages /\ \A n \in 0 .. NumStages : r[n] = Chain(r)[n]
    BY <1>4
  <2> DEFINE Same == {n \in Nat : n <= NumStages => r[n] = h[n]}
  <2>2. 0 \in Same
    <3>1. 0 \in 0 .. NumStages
      BY <1>0
    <3>2. r[0] = setup.feed[c]
      BY <3>1, <2>1
    <3>3. h[0] = setup.feed[c]
      BY <3>1, <1>2 DEF IsChain
    <3> QED BY <3>2, <3>3
  <2>3. ASSUME NEW n \in Same
        PROVE  n + 1 \in Same
    <3> SUFFICES ASSUME n + 1 <= NumStages PROVE r[n + 1] = h[n + 1]
      OBVIOUS
    <3>1. /\ n + 1 \in 0 .. NumStages /\ (n + 1) - 1 = n /\ n + 1 # 0 /\ r[n] = h[n]
      BY <1>0
    <3>2. r[n + 1] = Passed(Through(n + 1), r[n])
      BY <2>1, <3>1
    <3>3. h[n + 1] = Passed(Through(n + 1), h[n])
      <4>1. h[n + 1] = Chain(h)[n + 1]
        BY <1>3
      <4> QED BY <4>1, <3>1
    <3> QED BY <3>1, <3>2, <3>3
  <2> HIDE DEF Same
  <2>4. Same = Nat
    <3>1. Same \in SUBSET Nat
      BY DEF Same
    <3> QED BY <3>1, <2>2, <2>3, Induction
  <2>5. \A n \in 0 .. NumStages : r[n] = h[n]
    <3> TAKE n \in 0 .. NumStages
    <3>1. n \in Same /\ n <= NumStages
      BY <2>4, <1>0
    <3> QED BY <3>1 DEF Same
  <2>6. r = [n \in 0 .. NumStages |-> r[n]] /\ h = [n \in 0 .. NumStages |-> h[n]]
    BY <1>4, <1>3
  <2> QED BY <2>1, <2>5, <2>6
<1>5. (CHOOSE r : r = Chain(r)) = h
  <2> HIDE DEF h
  <2> DEFINE d == CHOOSE r : r = Chain(r)
  <2>1. d = Chain(d)
    BY <1>3
  <2> HIDE DEF d
  <2>2. d = h
    BY <2>1, <1>4
  <2> QED BY <2>2 DEF d
<1>6. h[NumStages] = g[NumStages]
    BY <1>0, <1>2
<1> HIDE DEF h
<1> QED BY <1>1, <1>5, <1>6

-----------------------------------------------------------------------------
(* What a stage has sent begins what it should send. *)
LEMMA SentIsPrefix ==
    ASSUME setup \in Setups, setup.op # "await", Carried, IInv,
           NEW took \in [Stages -> Seq(Elements)], NEW i \in Stages, Passes(took, i)
    PROVE  IsPrefix(Sent(took, i), Due(took, i))
<1>1. Sent(took, i) \in Seq(Elements) /\ Due(took, i) \in Seq(Elements)
    BY SentSeq
<1>2. stage[i] \in {"none", "receiving", "offering", "leaving", "ended"}
    BY DEF IInv, Staged
<1>3. CASE stage[i] \in {"none", "receiving"}
    BY <1>1, <1>3, PrefixOfItself DEF Passes
<1>4. CASE stage[i] = "offering"
  <2>1. PICK v \in Elements : v = hand[i]
    BY <1>4 DEF Carried
  <2>2. Append(Sent(took, i), v) = Due(took, i)
    BY <2>1, <1>4 DEF Passes
  <2>3. Sent(took, i) \o <<v>> = Append(Sent(took, i), v)
    BY <1>1, AppendedAtTheEnd
  <2>4. <<v>> \in Seq(Elements)
    OBVIOUS
  <2> QED BY <1>1, <2>2, <2>3, <2>4, PrefixOfConcat
<1>5. CASE stage[i] \in {"leaving", "ended"}
    BY <1>5 DEF Passes
<1> QED BY <1>2, <1>3, <1>4, <1>5

(* The stage at a source took the beginning of what that is fed, and all   *)
(* of it when the source is closed and empty.                              *)
LEMMA TookOfFeed ==
    ASSUME setup \in Setups, setup.op # "await", Carried,
           NEW took \in [Stages -> Seq(Elements)], NEW i \in Stages, Passes(took, i),
           From(i) \in Sources
    PROVE  /\ IsPrefix(took[i], setup.feed[From(i)])
           /\ chan[From(i)] = <<>> /\ From(i) \in closed => took[i] = setup.feed[From(i)]
<1> DEFINE s == setup.feed[From(i)]
           n == fed[From(i)]
           t == SubSeq(s, 1, n)
<1>1. /\ took[i] \in Seq(Elements) /\ chan[From(i)] \in Seq(Elements)
      /\ s \in Seq(Elements) /\ n \in Nat /\ n <= Len(s)
    BY SentSeq, SourcesAreChannels DEF Carried
<1>2. took[i] \o chan[From(i)] = t
    BY DEF Passes, Fed
<1>3. From(i) \in closed => n = Len(s)
    BY DEF Carried
<1> HIDE DEF s, n
<1>4. t \in Seq(Elements) /\ Len(t) = n /\ \A k \in 1 .. n : t[k] = s[k]
    BY <1>1
<1> HIDE DEF t
<1>5. IsPrefix(t, s)
    BY <1>1, <1>4, PrefixByIndex
<1>6. IsPrefix(took[i], t)
    BY <1>1, <1>2, PrefixOfConcat
<1>7. IsPrefix(took[i], s)
    BY <1>1, <1>4, <1>5, <1>6, PrefixTransitive
<1>8. ASSUME chan[From(i)] = <<>>, From(i) \in closed
      PROVE  took[i] = s
  <2>1. took[i] = t
    BY <1>1, <1>2, <1>8
  <2>2. SubSeq(s, 1, Len(s)) = s
    BY <1>1
  <2> QED BY <2>1, <2>2, <1>3, <1>8 DEF t
<1> QED BY <1>7, <1>8 DEF s

(* One step along a row. *)
LEMMA TookOfNext ==
    ASSUME setup \in Setups, setup.op = "pipeline", Carried, IInv,
           NEW took \in [Stages -> Seq(Elements)], NEW i \in Stages, i + 1 \in Stages,
           Passes(took, i), i # NumStages
    PROVE  /\ Sent(took, i) = took[i + 1] \o chan[From(i + 1)]
           /\ IsPrefix(took[i + 1], Due(took, i))
<1>1. Sent(took, i) = took[i + 1] \o chan[From(i + 1)]
    BY Row DEF Sent
<1>2. /\ Sent(took, i) \in Seq(Elements) /\ Due(took, i) \in Seq(Elements)
      /\ took[i + 1] \in Seq(Elements) /\ chan[From(i + 1)] \in Seq(Elements)
    BY SentSeq
<1>3. IsPrefix(took[i + 1], Sent(took, i))
    BY <1>1, <1>2, PrefixOfConcat
<1>4. IsPrefix(Sent(took, i), Due(took, i))
    BY SentIsPrefix
<1> QED BY <1>1, <1>2, <1>3, <1>4, PrefixTransitive
-----------------------------------------------------------------------------
(* Along a row the beginnings add up to the beginning of Expected.  If the *)
(* sink was closed then the last stage ended, hence its source was closed, *)
(* hence the stage before it ended, and so on: all have passed everything. *)
LEMMA RowDelivers ==
    ASSUME FlowInv, setup.op = "pipeline", NEW c \in Sources
    PROVE  /\ IsPrefix(Delivered(c), Expected(c))
           /\ Sink \in closed /\ ~ ended /\ setup.bad = {} => Delivered(c) = Expected(c)
<1> DEFINE N == NumStages
<1>1. /\ setup \in Setups /\ setup.op # "await" /\ Carried /\ IInv
      /\ N \in Nat \ {0} /\ N \in Stages /\ 1 \in Stages /\ c = From(1) /\ To(N) = Sink
  <2>1. setup \in Setups /\ Carried /\ IInv
    BY DEF FlowInv, IInv
  <2> QED BY <2>1, Row DEF Stages
<1>2. PICK took \in [Stages -> Seq(Elements)] : \A i \in Stages : Passes(took, i)
    BY <1>1 DEF FlowInv, Flows
<1>3. PICK after \in [0 .. N -> Seq(Elements)] : IsChain(after, c)
    BY <1>1, ChainExists
<1>4. /\ Expected(c) = after[N] /\ after[0] = setup.feed[c]
      /\ \A i \in Stages : after[i] = Passed(Through(i), after[i - 1])
    BY <1>3, ExpectedIsUnique DEF IsChain
<1>5. Delivered(c) = Sent(took, N)
    BY <1>1 DEF Delivered, Sent
<1>6. ASSUME NEW i \in Stages
      PROVE  /\ i \in Nat /\ i \in 0 .. N /\ i - 1 \in 0 .. N
             /\ took[i] \in Seq(Elements) /\ Through(i) \in [Elements -> Seq(Elements)]
             /\ after[i] \in Seq(Elements) /\ after[i - 1] \in Seq(Elements)
             /\ Sent(took, i) \in Seq(Elements) /\ Due(took, i) \in Seq(Elements)
             /\ IsPrefix(Sent(took, i), Due(took, i))
  <2>1. i \in Nat /\ i \in 0 .. N /\ i - 1 \in 0 .. N
    BY <1>1 DEF Stages
  <2> QED BY <2>1, <1>1, <1>2, Maps, SentSeq, SentIsPrefix
<1>7. IsPrefix(took[1], setup.feed[c]) /\ (chan[c] = <<>> /\ c \in closed => took[1] = setup.feed[c])
    BY <1>1, <1>2, TookOfFeed
<1> DEFINE Begins == {n \in Nat : n < N => IsPrefix(took[n + 1], after[n])}
<1>8. Begins = Nat
  <2>1. 0 \in Begins
    BY <1>4, <1>7
  <2>2. ASSUME NEW n \in Begins
        PROVE  n + 1 \in Begins
    <3> SUFFICES ASSUME n + 1 < N PROVE IsPrefix(took[(n + 1) + 1], after[n + 1])
      OBVIOUS
    <3>1. /\ n + 1 \in Stages /\ (n + 1) + 1 \in Stages /\ n + 1 # N /\ (n + 1) - 1 = n
          /\ IsPrefix(took[n + 1], after[n])
      BY <1>1 DEF Stages
    <3> DEFINE i == n + 1
    <3> HIDE DEF i
    <3>2. /\ i \in Stages /\ i + 1 \in Stages /\ i # N
          /\ IsPrefix(took[i], after[i - 1]) /\ after[i] = Passed(Through(i), after[i - 1])
      BY <3>1, <1>4 DEF i
    <3>3. IsPrefix(Due(took, i), after[i])
      BY <3>2, <1>6, PassedPrefix DEF Due
    <3>4. IsPrefix(took[i + 1], Due(took, i))
      BY <3>2, <1>1, <1>2, TookOfNext
    <3>5. IsPrefix(took[i + 1], after[i])
      BY <3>2, <3>3, <3>4, <1>6, PrefixTransitive
    <3> QED BY <3>5 DEF i
  <2> HIDE DEF Begins
  <2>3. Begins \in SUBSET Nat
    BY DEF Begins
  <2> QED BY <2>1, <2>2, <2>3, Induction
<1>9. IsPrefix(Delivered(c), Expected(c))
  <2>1. IsPrefix(took[N], after[N - 1])
    <3> HIDE DEF Begins
    <3>1. N - 1 \in Begins /\ N - 1 < N /\ (N - 1) + 1 = N
      BY <1>1, <1>8
    <3> HIDE DEF N
    <3> QED BY <3>1 DEF Begins
  <2>2. after[N] = Passed(Through(N), after[N - 1])
    BY <1>1, <1>4
  <2> HIDE DEF N
  <2>3. IsPrefix(Due(took, N), after[N])
    <3>1. PICK i \in Stages : i = N
      BY <1>1
    <3>2. IsPrefix(Passed(Through(i), took[i]), Passed(Through(i), after[i - 1]))
      BY <3>1, <2>1, <1>6, PassedPrefix
    <3> QED BY <3>1, <3>2, <2>2 DEF Due
  <2> QED BY <2>3, <1>1, <1>4, <1>5, <1>6, PrefixTransitive
<1>10. ASSUME Sink \in closed, ~ ended, setup.bad = {}
       PROVE  Delivered(c) = Expected(c)
  <2>1. ASSUME NEW i \in Stages, To(i) \in closed
        PROVE  stage[i] = "ended" /\ From(i) \in closed /\ chan[From(i)] = <<>>
                    /\ Sent(took, i) = Due(took, i)
    <3>1. To(i) \notin Sources
      BY <1>1, Layout
    <3>2. PICK j \in Stages : stage[j] = "ended" /\ To(j) = To(i)
      BY <3>1, <2>1, <1>1 DEF IInv, ClosedBy
    <3>3. stage[i] = "ended"
      BY <3>2, <1>1, Row
    <3> QED BY <3>3, <1>2, <1>10 DEF Passes
  <2> DEFINE Left == {n \in Nat : n < N => To(N - n) \in closed}
  <2>2. Left = Nat
    <3>1. 0 \in Left
      BY <1>1, <1>10
    <3>2. ASSUME NEW n \in Left
          PROVE  n + 1 \in Left
      <4> SUFFICES ASSUME n + 1 < N PROVE To(N - (n + 1)) \in closed
        OBVIOUS
      <4>1. /\ N - n \in Stages /\ N - n # 1 /\ (N - n) - 1 = N - (n + 1)
            /\ To(N - n) \in closed
        BY <1>1 DEF Stages
      <4> DEFINE i == N - n
      <4>2. i \in Stages /\ i # 1 /\ To(i) \in closed
        BY <4>1
      <4> HIDE DEF i
      <4>3. From(i) \in closed /\ From(i) = To(i - 1)
        BY <4>2, <2>1, <1>1, Row
      <4> QED BY <4>1, <4>3 DEF i
    <3> HIDE DEF Left
    <3>3. Left \in SUBSET Nat
      BY DEF Left
    <3> QED BY <3>1, <3>2, <3>3, Induction
  <2>3. \A i \in Stages : To(i) \in closed
    <3> TAKE i \in Stages
    <3>1. N - i \in Nat /\ N - i < N /\ N - (N - i) = i
      BY <1>1 DEF Stages
    <3>2. N - i \in Left
      BY <3>1, <2>2
    <3> QED BY <3>1, <3>2
  <2> HIDE DEF Left
  <2> DEFINE All == {n \in Nat : n < N => took[n + 1] = after[n]}
  <2>4. All = Nat
    <3>1. 0 \in All
      BY <1>1, <1>4, <1>7, <2>1, <2>3
    <3>2. ASSUME NEW n \in All
          PROVE  n + 1 \in All
      <4> SUFFICES ASSUME n + 1 < N PROVE took[(n + 1) + 1] = after[n + 1]
        OBVIOUS
      <4>1. /\ n + 1 \in Stages /\ (n + 1) + 1 \in Stages /\ n + 1 # N /\ (n + 1) - 1 = n
            /\ took[n + 1] = after[n]
        BY <1>1 DEF Stages
      <4> DEFINE i == n + 1
      <4> HIDE DEF i
      <4>2. /\ i \in Stages /\ i + 1 \in Stages /\ i # N
            /\ took[i] = after[i - 1] /\ after[i] = Passed(Through(i), after[i - 1])
        BY <4>1, <1>4 DEF i
      <4>3. Sent(took, i) = took[i + 1] \o chan[From(i + 1)]
        BY <4>2, <1>1, <1>2, TookOfNext
      <4>4. chan[From(i + 1)] = <<>> /\ Sent(took, i) = Due(took, i)
        BY <4>2, <2>1, <2>3
      <4>5. took[i + 1] \o <<>> = took[i + 1]
        BY <4>2, <1>6
      <4>6. took[i + 1] = after[i]
        BY <4>2, <4>3, <4>4, <4>5 DEF Due
      <4> QED BY <4>6 DEF i
    <3> HIDE DEF All
    <3>3. All \in SUBSET Nat
      BY DEF All
    <3> QED BY <3>1, <3>2, <3>3, Induction
  <2>5. took[N] = after[N - 1]
    <3> HIDE DEF All
    <3>1. N - 1 \in All /\ N - 1 < N /\ (N - 1) + 1 = N
      BY <1>1, <2>4
    <3> HIDE DEF N
    <3> QED BY <3>1 DEF All
  <2>6. Sent(took, N) = Due(took, N) /\ after[N] = Passed(Through(N), after[N - 1])
    BY <1>1, <1>4, <2>1, <2>3
  <2> QED BY <2>5, <2>6, <1>4, <1>5 DEF Due
<1> QED BY <1>9, <1>10

LEMMA MergeDelivers ==
    ASSUME FlowInv, setup.op = "merge", NEW c \in Sources
    PROVE  /\ IsPrefix(Delivered(c), Expected(c))
           /\ Sink \in closed /\ ~ ended /\ setup.bad = {} => Delivered(c) = Expected(c)
<1>1. setup \in Setups /\ setup.op # "await" /\ Carried /\ IInv
    BY DEF FlowInv, IInv
<1>2. PICK i \in Stages : c = From(i)
    BY <1>1, Fan
<1>3. PICK took \in [Stages -> Seq(Elements)] : \A j \in Stages : Passes(took, j)
    BY <1>1 DEF FlowInv, Flows
<1>4. Expected(c) = setup.feed[c] /\ Delivered(c) = Sent(took, i)
    BY <1>1, <1>2 DEF Expected, Delivered, Sent
<1>5. /\ took[i] \in Seq(Elements) /\ Sent(took, i) \in Seq(Elements)
      /\ setup.feed[c] \in Seq(Elements)
    BY <1>1, SentSeq, SourcesAreChannels
<1>6. Due(took, i) = took[i]
  <2>1. \A v \in Elements : Through(i)[v] = <<v>>
    BY <1>1, Fan, Maps DEF Rejected, Applied
  <2>2. Through(i) \in [Elements -> Seq(Elements)]
    BY Maps
  <2> QED BY <2>1, <2>2, <1>5, PassedSame DEF Due
<1>7. IsPrefix(took[i], setup.feed[c]) /\ (chan[c] = <<>> /\ c \in closed => took[i] = setup.feed[c])
    BY <1>1, <1>2, <1>3, TookOfFeed
<1>8. IsPrefix(Sent(took, i), took[i])
    BY <1>1, <1>3, <1>6, SentIsPrefix
<1>9. IsPrefix(Delivered(c), Expected(c))
    BY <1>4, <1>5, <1>7, <1>8, PrefixTransitive
<1>10. ASSUME Sink \in closed, ~ ended, setup.bad = {}
       PROVE  Delivered(c) = Expected(c)
  <2>1. Sink \notin Sources
    BY <1>1, Layout, Fan
  <2>2. closer = "ended"
    BY <2>1, <1>1, <1>10 DEF IInv, ClosedBy
  <2>3. stage[i] = "ended"
    BY <2>2, <1>1 DEF IInv, JoinedFirst, Joined
  <2>4. Sent(took, i) = Due(took, i) /\ chan[c] = <<>> /\ c \in closed
    BY <2>3, <1>2, <1>3, <1>10 DEF Passes
  <2> QED BY <2>4, <1>4, <1>6, <1>7
<1> QED BY <1>9, <1>10

(* Whenever a group is cancelled or a user's function panics, what the     *)
(* consumer of its sink gets of each source has no gap, no repetition and  *)
(* the source's order, whatever number of operators is in the row; and a   *)
(* sink that closes although nothing of the kind happened has it all.      *)
THEOREM NothingIsSkipped == Spec => []DeliversInOrder
<1>1. FlowInv => DeliversInOrder
  <2> SUFFICES ASSUME FlowInv, setup.op # "await", NEW c \in Sources
               PROVE  /\ IsPrefix(Delivered(c), Expected(c))
                      /\ Sink \in closed /\ ~ ended /\ setup.bad = {} => Delivered(c) = Expected(c)
    BY DEF DeliversInOrder
  <2>1. setup.op = "pipeline" \/ setup.op = "merge"
    BY OperatorsAssumption DEF FlowInv, IInv
  <2> QED BY <2>1, RowDelivers, MergeDelivers
<1> QED BY <1>1, FlowInductive, PTL
=============================================================================
