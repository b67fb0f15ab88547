--------------------------- MODULE OrderBy_proofs ---------------------------
(***************************************************************************)
(* Proofs about the OrderBy operator: that what the subscriber receives is *)
(* what the reference says, for every window, every set of keys and every  *)
(* length of the input.                                                    *)
(*                                                                         *)
(* The argument is one sequence, line: the elements that the subscriber    *)
(* has, then the one the drainer holds, those in b.sink, the evicted one   *)
(* and the sorted window, or what the flush has left of it.  No step but   *)
(* Insert changes it, and Insert only moves elements that are in the       *)
(* window, so that Ranked, the reference read on the whole line, stays.    *)
(***************************************************************************)
EXTENDS OrderBy, FiniteSetTheorems, SequenceTheorems, TLAPS

Typed ==
    /\ TypeOK
    /\ windowSize \in WindowSizes
    /\ Len(arrived) <= MaxInput
    /\ \A i \in 1..Len(arrived) : arrived[i].pos = i
    /\ sink \in [buf : Seq(Elems), closed : BOOLEAN]
    /\ flush \in [at : {"none", "sending", "ended"}, left : Seq(Elems)]
    /\ drainer \in [at : {"receiving", "sending", "ended"}, held : Elems \union {NoElem}]
    /\ inserter = "evicting" => evicted \in Elems
    /\ drainer.at = "sending" => drainer.held \in Elems

(* The five pieces of the line, and the places after which they begin.     *)
Holding == IF drainer.at = "sending" THEN 1 ELSE 0
Evicting == IF inserter = "evicting" THEN 1 ELSE 0
Left == IF flush.at = "none" THEN window ELSE flush.left

BufAt == Len(out) + Holding
EvictedAt == BufAt + Len(sink.buf)
LeftAt == EvictedAt + Evicting

Line(line) ==
    /\ Len(line) = LeftAt + Len(Left)
    /\ \A i \in 1..Len(out) : line[i] = out[i]
    /\ drainer.at = "sending" => line[Len(out) + 1] = drainer.held
    /\ \A i \in 1..Len(sink.buf) : line[BufAt + i] = sink.buf[i]
    /\ inserter = "evicting" => line[EvictedAt + 1] = evicted
    /\ \A i \in 1..Len(Left) : line[LeftAt + i] = Left[i]

(* The line is a rearrangement of what has arrived.  The n-th of it is one *)
(* of the first windowSize + n that arrived, and comes before all of these *)
(* that stand behind it.                                                   *)
Ranked(line) ==
    /\ Len(line) = Len(arrived)
    /\ \A n \in 1..Len(line) :
        /\ line[n].pos <= Len(arrived) /\ line[n] = arrived[line[n].pos]
        /\ line[n].pos <= windowSize + n
    /\ \A p \in 1..Len(arrived) : \E n \in 1..Len(line) : line[n] = arrived[p]
    /\ \A n, m \in 1..Len(line) :
        n < m => /\ line[n] # line[m]
                 /\ line[m].pos <= windowSize + n => Precedes(line[n], line[m])

(* Who has ended before whom.                                              *)
Phases ==
    /\ flush.at = "none" <=> inserter \in {"reading", "evicting"}
    /\ flush.at = "ended" => flush.left = <<>> /\ sink.closed
    /\ sink.closed => flush.at = "ended"
    /\ inserter \in {"joining", "ended"} => flush.at = "ended"
    /\ drainer.at = "ended" => sink.buf = <<>> /\ sink.closed
    /\ inserter = "ended" => drainer.at = "ended"

(* An eviction keeps the window full; before the first one it fills up.    *)
Filled ==
    flush.at = "none" => Len(window) = windowSize \/ LeftAt = 0

Ordered ==
    /\ Phases /\ Filled
    /\ \E line \in Seq(Elems) : Line(line) /\ Ranked(line)

IInv == Typed /\ (~ cancelled => Ordered)

-----------------------------------------------------------------------------
(* The binary search of the buffer.                                        *)
Sorted(s) == \A i, j \in 1..Len(s) : i < j => Precedes(s[i], s[j])

(* In a sorted window those that a new element goes behind are the first.  *)
LEMMA BelowIsAnInterval ==
    ASSUME Keys \subseteq Int, NEW s \in Seq(Elems), Sorted(s), NEW v \in Elems
    PROVE  LET below == Cardinality({i \in DOMAIN s : s[i].key <= v.key})
           IN  /\ below \in 0..Len(s)
               /\ \A i \in 1..Len(s) : s[i].key <= v.key <=> i <= below
<1> DEFINE B == {i \in DOMAIN s : s[i].key <= v.key}
           n == Cardinality(B)
<1>0. Len(s) \in Nat /\ v.key \in Int /\ \A i \in 1..Len(s) : s[i].key \in Int
  <2>1. \A i \in 1..Len(s) : s[i] \in Elems
    OBVIOUS
  <2>2. v.key \in Keys /\ \A i \in 1..Len(s) : s[i].key \in Keys
    BY <2>1 DEF Elems
  <2>3. Len(s) \in Nat
    BY LenProperties
  <2>4. v.key \in Int
    BY <2>2
  <2>5. \A i \in 1..Len(s) : s[i].key \in Int
    BY <2>2
  <2> QED BY <2>3, <2>4, <2>5
<1>1. B \subseteq 1..Len(s) /\ \A i \in 1..Len(s) : i \in B <=> s[i].key <= v.key
    BY <1>0
<1>2. \A i, j \in 1..Len(s) : i < j => s[i].key <= s[j].key
    BY <1>0 DEF Sorted, Precedes
<1>3. \A i \in B : \A j \in 1..i : j \in B
  <2> TAKE i \in B
  <2> TAKE j \in 1..i
  <2>1. i \in 1..Len(s) /\ j \in 1..Len(s) /\ s[i].key <= v.key /\ v.key \in Int
    BY <1>0, <1>1
  <2>2. s[j].key <= s[i].key
    BY <2>1, <1>0, <1>2
  <2>3. s[j].key <= v.key
    BY <2>1, <2>2, <1>0
  <2> QED BY <2>1, <2>3, <1>1
<1> HIDE DEF B
<1>4. IsFiniteSet(B) /\ n \in Nat
  <2>1. IsFiniteSet(1..Len(s))
    BY <1>0, FS_Interval
  <2> QED BY <2>1, <1>1, FS_Subset, FS_CardinalityType
<1>5. \A i \in B : i <= n
  <2> TAKE i \in B
  <2>1. i \in Nat /\ 1..i \subseteq B
    BY <1>0, <1>1, <1>3
  <2>2. Cardinality(1..i) = i
    BY <2>1, FS_Interval
  <2> QED BY <2>1, <2>2, <1>4, FS_Subset
<1>6. B = 1..n
  <2>1. IsFiniteSet(1..n) /\ Cardinality(1..n) = n
    BY <1>4, FS_Interval
  <2>2. B \subseteq 1..n
    BY <1>1, <1>5
  <2> QED BY <2>1, <2>2, FS_Subset
<1>7. n <= Len(s)
  <2>1. n # 0 => n \in B
    BY <1>4, <1>6
  <2> QED BY <2>1, <1>0, <1>1, <1>4
<1>8. n \in 0..Len(s) /\ \A i \in 1..Len(s) : s[i].key <= v.key <=> i <= n
    BY <1>0, <1>1, <1>4, <1>6, <1>7
<1> QED BY <1>8 DEF B

(* Insert puts the element between the two halves.                         *)
LEMMA InsertedHalves ==
    ASSUME NEW s \in Seq(Elems), NEW v \in Elems
    PROVE  LET b == Cardinality({i \in DOMAIN s : s[i].key <= v.key})
               r == Inserted(s, v)
           IN  /\ b \in 0..Len(s)
               /\ r \in Seq(Elems) /\ Len(r) = Len(s) + 1
               /\ \A i \in 1..b : r[i] = s[i]
               /\ r[b + 1] = v
               /\ \A i \in (b + 2)..(Len(s) + 1) : r[i] = s[i - 1]
<1> DEFINE B == {i \in DOMAIN s : s[i].key <= v.key}
           b == Cardinality(B)
           r == Inserted(s, v)
<1>1. B \subseteq 1..Len(s) /\ Len(s) \in Nat
    BY LenProperties
<1>2. r = SubSeq(s, 1, b) \o <<v>> \o SubSeq(s, b + 1, Len(s))
    BY DEF Inserted
<1> HIDE DEF B, r
<1>3. b \in Nat /\ b <= Len(s)
  <2>1. IsFiniteSet(1..Len(s)) /\ Cardinality(1..Len(s)) = Len(s)
    <3> DEFINE n == Len(s)
    <3>1. n \in Nat
      BY <1>1
    <3> HIDE DEF n
    <3>2. IsFiniteSet(1..n) /\ Cardinality(1..n) = n
      BY <3>1, FS_Interval
    <3> QED BY <3>2 DEF n
  <2> QED BY <2>1, <1>1, FS_Subset, FS_CardinalityType
<1> HIDE DEF b
<1>4. /\ SubSeq(s, 1, b) \in Seq(Elems) /\ Len(SubSeq(s, 1, b)) = b
      /\ \A i \in 1..b : SubSeq(s, 1, b)[i] = s[i]
      /\ SubSeq(s, b + 1, Len(s)) \in Seq(Elems)
      /\ Len(SubSeq(s, b + 1, Len(s))) = Len(s) - b
      /\ \A i \in 1..(Len(s) - b) : SubSeq(s, b + 1, Len(s))[i] = s[b + i]
    BY <1>3
<1>5. /\ r \in Seq(Elems) /\ Len(r) = Len(s) + 1
      /\ \A i \in 1..b : r[i] = s[i]
      /\ r[b + 1] = v
      /\ \A i \in (b + 2)..(Len(s) + 1) : r[i] = s[i - 1]
  <2> DEFINE low == SubSeq(s, 1, b)
             high == SubSeq(s, b + 1, Len(s))
             upto == Append(low, v)
  <2>1. /\ low \in Seq(Elems) /\ Len(low) = b /\ \A i \in 1..b : low[i] = s[i]
        /\ high \in Seq(Elems) /\ Len(high) = Len(s) - b
        /\ \A i \in 1..(Len(s) - b) : high[i] = s[b + i]
    BY <1>4
  <2> HIDE DEF low, high
  <2>2. r = upto \o high
    <3>1. Append(low, v) = low \o <<v>>
      BY <2>1, AppendIsConcat
    <3> QED BY <3>1, <1>2 DEF low, high
  <2>3. /\ upto \in Seq(Elems) /\ Len(upto) = b + 1 /\ upto[b + 1] = v
        /\ \A i \in 1..b : upto[i] = s[i]
    BY <2>1, <1>1, <1>3, AppendProperties
  <2> HIDE DEF upto
  <2>4. /\ r \in Seq(Elems) /\ Len(r) = Len(s) + 1
        /\ \A i \in 1..(b + 1) : r[i] = upto[i]
        /\ \A i \in (b + 2)..(Len(s) + 1) : r[i] = high[i - (b + 1)]
    BY <2>1, <2>2, <2>3, <1>1, <1>3, ConcatProperties
  <2>5. \A i \in (b + 2)..(Len(s) + 1) : high[i - (b + 1)] = s[i - 1]
    <3> TAKE i \in (b + 2)..(Len(s) + 1)
    <3>1. i - (b + 1) \in 1..(Len(s) - b) /\ b + (i - (b + 1)) = i - 1
      BY <1>1, <1>3
    <3> QED BY <3>1, <2>1
  <2> QED BY <2>3, <2>4, <2>5, <1>1, <1>3
<1> QED BY <1>3, <1>5, <1>1 DEF r, b, B

(* The result is sorted when the element is younger than all of the window. *)
LEMMA InsertedShape ==
    ASSUME Keys \subseteq Int, NEW s \in Seq(Elems), Sorted(s), NEW v \in Elems,
           \A i \in 1..Len(s) : s[i].pos < v.pos
    PROVE  /\ Sorted(Inserted(s, v))
           /\ \A i \in 1..Len(s) + 1 :
                Inserted(s, v)[i] = v \/ \E j \in 1..Len(s) : Inserted(s, v)[i] = s[j]
           /\ \E i \in 1..Len(s) + 1 : Inserted(s, v)[i] = v
           /\ \A j \in 1..Len(s) : \E i \in 1..Len(s) + 1 : Inserted(s, v)[i] = s[j]
<1> DEFINE b == Cardinality({i \in DOMAIN s : s[i].key <= v.key})
           r == Inserted(s, v)
<1>1. b \in 0..Len(s) /\ \A i \in 1..Len(s) : s[i].key <= v.key <=> i <= b
    BY BelowIsAnInterval
<1>5. /\ r \in Seq(Elems) /\ Len(r) = Len(s) + 1
      /\ \A i \in 1..b : r[i] = s[i]
      /\ r[b + 1] = v
      /\ \A i \in (b + 2)..(Len(s) + 1) : r[i] = s[i - 1]
    BY InsertedHalves
<1> HIDE DEF b, r
<1>3. Len(s) \in Nat /\ b \in Nat /\ b <= Len(s)
    BY <1>1
<1>6. Sorted(r)
  <2> SUFFICES ASSUME NEW i \in 1..(Len(s) + 1), NEW j \in 1..(Len(s) + 1), i < j
               PROVE  Precedes(r[i], r[j])
    BY <1>5 DEF Sorted
  <2>1. CASE i <= b /\ j <= b
    <3>1. /\ i \in 1..b /\ j \in 1..b /\ i \in 1..Len(s) /\ j \in 1..Len(s)
      BY <2>1, <1>3
    <3>2. r[i] = s[i] /\ r[j] = s[j]
      BY <3>1, <1>5
    <3> QED BY <3>1, <3>2 DEF Sorted
  <2>2. CASE i <= b /\ j = b + 1
    <3>1. r[i] = s[i] /\ r[j] = v /\ s[i].key <= v.key /\ s[i].pos < v.pos /\ s[i] \in Elems
      BY <2>2, <1>1, <1>3, <1>5
    <3>2. s[i].key \in Int /\ v.key \in Int
      BY <3>1 DEF Elems
    <3> QED BY <3>1, <3>2 DEF Precedes
  <2>3. CASE i <= b /\ j > b + 1
    <3>1. r[i] = s[i] /\ r[j] = s[j - 1] /\ i < j - 1 /\ j - 1 \in 1..Len(s)
      BY <2>3, <1>3, <1>5
    <3> QED BY <3>1, <2>3, <1>3 DEF Sorted
  <2>4. CASE i = b + 1
    <3>1. /\ r[i] = v /\ r[j] = s[j - 1] /\ j - 1 \in 1..Len(s) /\ ~(j - 1 <= b)
          /\ s[j - 1] \in Elems
      BY <2>4, <1>3, <1>5
    <3>2. ~(s[j - 1].key <= v.key)
      BY <3>1, <1>1
    <3>3. s[j - 1].key \in Int /\ v.key \in Int
      BY <3>1 DEF Elems
    <3> QED BY <3>1, <3>2, <3>3 DEF Precedes
  <2>5. CASE i > b + 1
    <3>1. /\ r[i] = s[i - 1] /\ r[j] = s[j - 1] /\ i - 1 < j - 1
          /\ i - 1 \in 1..Len(s) /\ j - 1 \in 1..Len(s)
      BY <2>5, <1>3, <1>5
    <3> QED BY <3>1 DEF Sorted
  <2> QED BY <2>1, <2>2, <2>3, <2>4, <2>5, <1>3
<1>7. \A i \in 1..Len(s) + 1 : r[i] = v \/ \E j \in 1..Len(s) : r[i] = s[j]
  <2> TAKE i \in 1..Len(s) + 1
  <2>1. CASE i <= b
    BY <2>1, <1>3, <1>5
  <2>2. CASE i = b + 1
    BY <2>2, <1>5
  <2>3. CASE i > b + 1
    <3>1. r[i] = s[i - 1] /\ i - 1 \in 1..Len(s)
      BY <2>3, <1>3, <1>5
    <3> QED BY <3>1
  <2> QED BY <2>1, <2>2, <2>3, <1>3
<1>8. \E i \in 1..Len(s) + 1 : r[i] = v
  <2>1. b + 1 \in 1..Len(s) + 1
    BY <1>3
  <2> QED BY <2>1, <1>5
<1>9. \A j \in 1..Len(s) : \E i \in 1..Len(s) + 1 : r[i] = s[j]
  <2> TAKE j \in 1..Len(s)
  <2>1. CASE j <= b
    BY <2>1, <1>3, <1>5
  <2>2. CASE j > b
    <3>1. j + 1 \in 1..Len(s) + 1 /\ r[j + 1] = s[j]
      BY <2>2, <1>3, <1>5
    <3> QED BY <3>1
  <2> QED BY <2>1, <2>2, <1>3
<1> QED BY <1>6, <1>7, <1>8, <1>9 DEF r

-----------------------------------------------------------------------------
(* Types.                                                                  *)
LEMMA WindowSizeIsPositive ==
    ASSUME Typed
    PROVE  windowSize \in Nat /\ windowSize >= 1 /\ MaxInput \in Nat /\ Keys \subseteq Int
BY WindowAssumption, InputAssumption DEF Typed

LEMMA ElemParts ==
    ASSUME NEW e \in Elems
    PROVE  e.key \in Int /\ e.pos \in Nat /\ e.pos >= 1
<1>1. e.key \in Keys /\ e.pos \in 1..MaxInput
    BY DEF Elems
<1>2. e.key \in Int
    BY <1>1, InputAssumption
<1>3. e.pos \in Nat /\ e.pos >= 1
    BY <1>1, InputAssumption
<1> QED BY <1>2, <1>3

LEMMA InitTyped == Init => Typed
<1> SUFFICES ASSUME Init PROVE Typed
    OBVIOUS
<1>1. windowSize \in WindowSizes /\ windowSize \in Nat /\ MaxInput \in Nat
    BY WindowAssumption, InputAssumption DEF Init
<1>2. <<>> \in Seq(Elems) /\ Len(<<>>) = 0 /\ NoElem \in Elems \union {NoElem}
    BY EmptySeq
<1>3. /\ arrived = <<>> /\ out = <<>> /\ window = <<>>
      /\ sink.buf = <<>> /\ sink.closed = FALSE
      /\ flush.at = "none" /\ flush.left = <<>>
      /\ drainer.at = "receiving" /\ drainer.held = NoElem
      /\ inserter = "reading" /\ evicted = NoElem /\ srcClosed = FALSE /\ cancelled = FALSE
    BY DEF Init
<1>4. TypeOK
  <2>1. Len(sink.buf) <= SinkCapacity /\ Len(window) <= windowSize
    BY <1>1, <1>2, <1>3 DEF SinkCapacity
  <2>2. /\ arrived \in Seq(Elems) /\ out \in Seq(Elems) /\ window \in Seq(Elems)
        /\ sink.buf \in Seq(Elems) /\ flush.left \in Seq(Elems)
    BY <1>2, <1>3
  <2> QED BY <2>1, <2>2, <1>2, <1>3 DEF TypeOK
<1>5. \A i \in 1..Len(arrived) : arrived[i].pos = i
    BY <1>2, <1>3
<1> QED BY <1>1, <1>2, <1>3, <1>4, <1>5 DEF Init, Typed

(* What Insert reads and where it puts it.                                 *)
LEMMA InsertSteps ==
    ASSUME Typed, Insert
    PROVE  \E v \in Elems :
            /\ v.pos = Len(arrived) + 1 /\ arrived' = Append(arrived, v)
            /\ Len(arrived) < MaxInput
            /\ LET s == Inserted(window, v) IN
                IF Len(s) > windowSize
                THEN window' = Tail(s) /\ evicted' = Head(s) /\ inserter' = "evicting"
                ELSE window' = s /\ evicted' = evicted /\ inserter' = "reading"
<1>1. PICK k \in Keys :
        LET v == [key |-> k, pos |-> Len(arrived) + 1]
            s == Inserted(window, v)
        IN  /\ arrived' = Append(arrived, v)
            /\ IF Overflows(s)
               THEN /\ window' = Tail(s) /\ evicted' = Head(s)
                    /\ inserter' = "evicting"
               ELSE /\ window' = s
                    /\ UNCHANGED <<evicted, inserter>>
    BY DEF Insert
<1> DEFINE v == [key |-> k, pos |-> Len(arrived) + 1]
<1>2. Len(arrived) < MaxInput /\ Len(arrived) \in Nat /\ inserter = "reading"
    BY LenProperties DEF Insert, Typed, TypeOK
<1>3. v \in Elems /\ v.pos = Len(arrived) + 1
  <2> DEFINE p == Len(arrived) + 1
  <2>1. p \in 1..MaxInput
    BY <1>2, WindowSizeIsPositive
  <2> HIDE DEF p
  <2>2. [key |-> k, pos |-> p] \in Elems
    BY <2>1 DEF Elems
  <2> QED BY <2>2 DEF p
<1>4. /\ arrived' = Append(arrived, v)
      /\ LET s == Inserted(window, v) IN
          IF Len(s) > windowSize
          THEN window' = Tail(s) /\ evicted' = Head(s) /\ inserter' = "evicting"
          ELSE window' = s /\ evicted' = evicted /\ inserter' = "reading"
    BY <1>1, <1>2 DEF Overflows
<1> HIDE DEF v
<1> QED BY <1>2, <1>3, <1>4

LEMMA InsertTyped ==
    ASSUME Typed, Insert
    PROVE  Typed'
<1>1. PICK v \in Elems :
        /\ v.pos = Len(arrived) + 1 /\ arrived' = Append(arrived, v)
        /\ Len(arrived) < MaxInput
        /\ LET s == Inserted(window, v) IN
            IF Len(s) > windowSize
            THEN window' = Tail(s) /\ evicted' = Head(s) /\ inserter' = "evicting"
            ELSE window' = s /\ evicted' = evicted /\ inserter' = "reading"
    BY InsertSteps
<1> DEFINE s == Inserted(window, v)
<1>2. /\ window \in Seq(Elems) /\ Len(window) \in Nat /\ Len(window) <= windowSize
      /\ arrived \in Seq(Elems) /\ Len(arrived) \in Nat
      /\ \A i \in 1..Len(arrived) : arrived[i].pos = i
    BY LenProperties DEF Typed, TypeOK
<1>3. s \in Seq(Elems) /\ Len(s) = Len(window) + 1
    BY <1>2, InsertedHalves
<1> HIDE DEF s
<1>4. /\ arrived' \in Seq(Elems) /\ Len(arrived') = Len(arrived) + 1
      /\ Len(arrived') <= MaxInput
      /\ \A i \in 1..Len(arrived') : arrived'[i].pos = i
  <2>1. /\ arrived' \in Seq(Elems) /\ Len(arrived') = Len(arrived) + 1
        /\ \A i \in 1..Len(arrived) : arrived'[i] = arrived[i]
        /\ arrived'[Len(arrived) + 1] = v
    BY <1>1, <1>2
  <2> QED BY <2>1, <1>1, <1>2, WindowSizeIsPositive
<1>5. /\ window' \in Seq(Elems) /\ Len(window') <= windowSize
      /\ inserter' \in {"reading", "evicting"}
      /\ evicted' \in Elems \union {NoElem}
      /\ inserter' = "evicting" => evicted' \in Elems
  <2>1. CASE Len(s) > windowSize
    <3>1. window' = Tail(s) /\ evicted' = Head(s) /\ inserter' = "evicting"
      BY <2>1, <1>1 DEF s
    <3>2. Tail(s) \in Seq(Elems) /\ Len(Tail(s)) = Len(window) /\ Head(s) \in Elems
      BY <1>2, <1>3
    <3> QED BY <3>1, <3>2, <1>2
  <2>2. CASE ~(Len(s) > windowSize)
    <3>1. window' = s /\ evicted' = evicted /\ inserter' = "reading"
      BY <2>2, <1>1 DEF s
    <3> QED BY <3>1, <2>2, <1>2, <1>3, WindowSizeIsPositive DEF Typed, TypeOK
  <2> QED BY <2>1, <2>2
<1>6. UNCHANGED <<windowSize, srcClosed, cancelled, sink, flush, drainer, out>>
    BY DEF Insert
<1>7. TypeOK'
    BY <1>4, <1>5, <1>6 DEF Typed, TypeOK, SinkCapacity
<1> QED BY <1>4, <1>5, <1>6, <1>7 DEF Typed

LEMMA TypedStep ==
    ASSUME Typed, [Next]_vars
    PROVE  Typed'
<1> USE DEF Typed, TypeOK, SinkCapacity
<1>0. CASE UNCHANGED vars
    BY <1>0 DEF vars
<1>1. CASE Insert
    BY <1>1, InsertTyped
<1>2. CASE SendEvicted
  <2>1. /\ Append(sink.buf, evicted) \in Seq(Elems)
        /\ Len(Append(sink.buf, evicted)) <= 2 * windowSize
    BY <1>2, WindowSizeIsPositive DEF SendEvicted
  <2>2. sink' = [buf |-> Append(sink.buf, evicted), closed |-> sink.closed]
    BY <1>2 DEF SendEvicted
  <2> QED BY <2>1, <2>2, <1>2 DEF SendEvicted
<1>3. CASE SkipEvicted
    BY <1>3 DEF SkipEvicted
<1>4. CASE StartClose
    BY <1>4 DEF StartClose
<1>5. CASE CloseReturns
    BY <1>5 DEF CloseReturns
<1>6. CASE Join
    BY <1>6 DEF Join
<1>7. CASE FlushSend
  <2>1. /\ Append(sink.buf, Head(flush.left)) \in Seq(Elems)
        /\ Len(Append(sink.buf, Head(flush.left))) <= 2 * windowSize
        /\ Tail(flush.left) \in Seq(Elems)
    BY <1>7, WindowSizeIsPositive DEF FlushSend
  <2>2. /\ sink' = [buf |-> Append(sink.buf, Head(flush.left)), closed |-> sink.closed]
        /\ flush' = [at |-> flush.at, left |-> Tail(flush.left)]
    BY <1>7 DEF FlushSend
  <2> QED BY <2>1, <2>2, <1>7 DEF FlushSend
<1>8. CASE FlushAbandon
    BY <1>8 DEF FlushAbandon
<1>9. CASE FlushEnd
    BY <1>9 DEF FlushEnd
<1>10. CASE DrainReceive
  <2>1. /\ Head(sink.buf) \in Elems /\ Tail(sink.buf) \in Seq(Elems)
        /\ Len(Tail(sink.buf)) <= 2 * windowSize
    BY <1>10, WindowSizeIsPositive DEF DrainReceive
  <2>2. sink' = [buf |-> Tail(sink.buf), closed |-> sink.closed]
    BY <1>10 DEF DrainReceive
  <2> QED BY <2>1, <2>2, <1>10 DEF DrainReceive
<1>11. CASE DrainEnd
    BY <1>11 DEF DrainEnd
<1>12. CASE DrainSend
    BY <1>12 DEF DrainSend
<1>13. CASE DrainDrop
    BY <1>13 DEF DrainDrop
<1>14. CASE CloseSource
    BY <1>14 DEF CloseSource
<1>15. CASE Cancel
    BY <1>15 DEF Cancel
<1> QED
    BY <1>0, <1>1, <1>2, <1>3, <1>4, <1>5, <1>6, <1>7, <1>8, <1>9, <1>10, <1>11, <1>12,
       <1>13, <1>14, <1>15 DEF Next, InserterStep, FlushStep, DrainerStep

-----------------------------------------------------------------------------
(* The line.                                                               *)
LEMMA Pieces ==
    ASSUME Typed
    PROVE  /\ out \in Seq(Elems) /\ Len(out) \in Nat
           /\ sink.buf \in Seq(Elems) /\ Len(sink.buf) \in Nat
           /\ Left \in Seq(Elems) /\ Len(Left) \in Nat
           /\ window \in Seq(Elems) /\ Len(window) \in Nat
           /\ arrived \in Seq(Elems) /\ Len(arrived) \in Nat
           /\ Holding \in {0, 1} /\ Evicting \in {0, 1}
           /\ BufAt \in Nat /\ EvictedAt \in Nat /\ LeftAt \in Nat
<1>1. /\ out \in Seq(Elems) /\ sink.buf \in Seq(Elems) /\ Left \in Seq(Elems)
      /\ window \in Seq(Elems) /\ arrived \in Seq(Elems)
    BY DEF Typed, TypeOK, Left
<1>2. Holding \in {0, 1} /\ Evicting \in {0, 1}
    BY DEF Holding, Evicting
<1>3. /\ Len(out) \in Nat /\ Len(sink.buf) \in Nat /\ Len(Left) \in Nat
      /\ Len(window) \in Nat /\ Len(arrived) \in Nat
    BY <1>1, LenProperties
<1>4. BufAt \in Nat
    BY <1>2, <1>3 DEF BufAt
<1>5. EvictedAt \in Nat
    BY <1>3, <1>4 DEF EvictedAt
<1>6. LeftAt \in Nat
    BY <1>2, <1>5 DEF LeftAt
<1> QED BY <1>1, <1>2, <1>3, <1>4, <1>5, <1>6

LEMMA InitOrdered == Init => Ordered
<1> SUFFICES ASSUME Init PROVE Ordered
    OBVIOUS
<1>1. /\ arrived = <<>> /\ out = <<>> /\ Left = <<>> /\ sink.buf = <<>>
      /\ Holding = 0 /\ Evicting = 0 /\ drainer.at = "receiving" /\ inserter = "reading"
      /\ flush.at = "none" /\ sink.closed = FALSE
    BY DEF Init, Holding, Evicting, Left
<1>2. Phases
    BY <1>1 DEF Phases
<1>3. LeftAt = 0 /\ EvictedAt = 0 /\ BufAt = 0
    BY <1>1 DEF LeftAt, EvictedAt, BufAt
<1>4. Filled
    BY <1>3 DEF Filled
<1>5. <<>> \in Seq(Elems) /\ Line(<<>>)
    BY <1>1, <1>3 DEF Line
<1>6. Ranked(<<>>)
    BY <1>1 DEF Ranked
<1> QED BY <1>2, <1>4, <1>5, <1>6 DEF Ordered

(* A step that changes neither the line nor what has arrived.              *)
LEMMA SameLine ==
    ASSUME Ordered, arrived' = arrived, windowSize' = windowSize, Phases', Filled',
           \A line \in Seq(Elems) : Line(line) => Line(line)'
    PROVE  Ordered'
<1>1. PICK line \in Seq(Elems) : Line(line) /\ Ranked(line)
    BY DEF Ordered
<1>2. Line(line)' /\ Ranked(line)'
    BY <1>1 DEF Ranked
<1> QED BY <1>1, <1>2 DEF Ordered

LEMMA SendEvictedOrdered ==
    ASSUME Typed, Ordered, SendEvicted
    PROVE  Ordered'
<1> DEFINE buf == sink.buf
<1>1. /\ inserter = "evicting" /\ inserter' = "reading" /\ sink.closed' = sink.closed
      /\ sink.buf' = Append(buf, evicted) /\ evicted \in Elems
      /\ UNCHANGED <<windowSize, arrived, window, flush, drainer, out>>
    BY DEF SendEvicted, Typed
<1>2. buf \in Seq(Elems) /\ Len(buf) \in Nat /\ Evicting = 1 /\ Evicting' = 0
    BY <1>1, Pieces DEF Evicting
<1>3. /\ Len(sink.buf') = Len(buf) + 1 /\ sink.buf'[Len(buf) + 1] = evicted
      /\ \A i \in 1..Len(buf) : sink.buf'[i] = buf[i]
    BY <1>1, <1>2, AppendProperties
<1>4. /\ Holding' = Holding /\ BufAt' = BufAt /\ Left' = Left
      /\ EvictedAt' = EvictedAt + 1 /\ LeftAt' = LeftAt /\ LeftAt = EvictedAt + 1
  <2>1. Holding' = Holding /\ BufAt' = BufAt /\ Left' = Left
    BY <1>1 DEF Holding, BufAt, Left
  <2>2. EvictedAt' = EvictedAt + 1
    BY <2>1, <1>2, <1>3, Pieces DEF EvictedAt
  <2>3. LeftAt' = EvictedAt' + Evicting' /\ LeftAt = EvictedAt + Evicting
    BY DEF LeftAt
  <2> QED BY <2>1, <2>2, <2>3, <1>2, Pieces
<1>5. \A line \in Seq(Elems) : Line(line) => Line(line)'
  <2> SUFFICES ASSUME NEW line \in Seq(Elems), Line(line) PROVE Line(line)'
    OBVIOUS
  <2>1. \A i \in 1..Len(sink.buf') : line[BufAt + i] = sink.buf'[i]
    <3> TAKE i \in 1..Len(sink.buf')
    <3>1. CASE i \in 1..Len(buf)
      BY <3>1, <1>3 DEF Line
    <3>2. CASE i = Len(buf) + 1
      <4>1. BufAt + i = EvictedAt + 1
        BY <3>2, <1>2, Pieces DEF EvictedAt
      <4> QED BY <4>1, <3>2, <1>1, <1>3 DEF Line
    <3> QED BY <3>1, <3>2, <1>2, <1>3
  <2> QED BY <2>1, <1>1, <1>4 DEF Line
<1>6. Phases' /\ Filled'
    BY <1>1, <1>4 DEF Ordered, Phases, Filled
<1> QED BY <1>1, <1>5, <1>6, SameLine

LEMMA FlushSendOrdered ==
    ASSUME Typed, Ordered, FlushSend
    PROVE  Ordered'
<1> DEFINE buf == sink.buf
           rest == flush.left
<1>1. /\ flush.at = "sending" /\ flush'.at = "sending" /\ sink.closed' = sink.closed
      /\ rest # <<>> /\ rest \in Seq(Elems)
      /\ sink.buf' = Append(buf, Head(rest)) /\ flush'.left = Tail(rest)
      /\ UNCHANGED <<windowSize, arrived, window, inserter, evicted, drainer, out>>
    BY DEF FlushSend, Typed
<1>2. /\ buf \in Seq(Elems) /\ Len(buf) \in Nat /\ inserter # "evicting"
      /\ Evicting = 0 /\ Evicting' = 0 /\ drainer.at # "ended" /\ ~ sink.closed
    BY <1>1, Pieces DEF Evicting, Ordered, Phases
<1>3. /\ Len(sink.buf') = Len(buf) + 1 /\ sink.buf'[Len(buf) + 1] = Head(rest)
      /\ \A i \in 1..Len(buf) : sink.buf'[i] = buf[i]
    BY <1>1, <1>2, AppendProperties, HeadTailProperties
<1>4. /\ Left = rest /\ Left' = Tail(rest) /\ Head(rest) = rest[1]
      /\ Len(rest) \in Nat /\ Len(rest) >= 1 /\ Len(Tail(rest)) = Len(rest) - 1
      /\ \A i \in 1..(Len(rest) - 1) : Tail(rest)[i] = rest[i + 1]
    BY <1>1 DEF Left
<1>5. /\ Holding' = Holding /\ BufAt' = BufAt
      /\ EvictedAt' = EvictedAt + 1 /\ LeftAt' = LeftAt + 1 /\ LeftAt = EvictedAt
  <2>1. Holding' = Holding /\ BufAt' = BufAt
    BY <1>1 DEF Holding, BufAt
  <2>2. EvictedAt' = EvictedAt + 1
    BY <2>1, <1>2, <1>3, Pieces DEF EvictedAt
  <2>3. LeftAt' = EvictedAt' + Evicting' /\ LeftAt = EvictedAt + Evicting
    BY DEF LeftAt
  <2> QED BY <2>1, <2>2, <2>3, <1>2, Pieces
<1> HIDE DEF buf, rest
<1>6. \A line \in Seq(Elems) : Line(line) => Line(line)'
  <2> SUFFICES ASSUME NEW line \in Seq(Elems), Line(line) PROVE Line(line)'
    OBVIOUS
  <2>1. /\ Len(line) = LeftAt + Len(rest)
        /\ \A i \in 1..Len(buf) : line[BufAt + i] = buf[i]
        /\ \A i \in 1..Len(rest) : line[LeftAt + i] = rest[i]
    BY <1>4 DEF Line, buf
  <2>2. \A i \in 1..Len(sink.buf') : line[BufAt + i] = sink.buf'[i]
    <3> TAKE i \in 1..Len(sink.buf')
    <3>1. CASE i \in 1..Len(buf)
      BY <3>1, <2>1, <1>3
    <3>2. CASE i = Len(buf) + 1
      <4>1. BufAt \in Nat /\ LeftAt = BufAt + Len(buf)
        BY <1>5, Pieces DEF EvictedAt, buf
      <4>2. BufAt + i = LeftAt + 1
        BY <4>1, <3>2, <1>2
      <4> QED BY <4>2, <3>2, <2>1, <1>3, <1>4
    <3> QED BY <3>1, <3>2, <1>2, <1>3
  <2>3. \A i \in 1..Len(Left') : line[LeftAt' + i] = Left'[i]
    <3> TAKE i \in 1..Len(Left')
    <3>1. i + 1 \in 1..Len(rest) /\ LeftAt' + i = LeftAt + (i + 1) /\ Left'[i] = rest[i + 1]
      <4>1. Len(Left') = Len(rest) - 1 /\ Left' = Tail(rest)
        BY <1>4
      <4>2. i \in 1..(Len(rest) - 1)
        BY <4>1
      <4>3. i + 1 \in 1..Len(rest) /\ Left'[i] = rest[i + 1]
        BY <4>1, <4>2, <1>4
      <4>4. LeftAt' = LeftAt + 1 /\ LeftAt \in Nat
        BY <1>5, Pieces
      <4>5. LeftAt' + i = LeftAt + (i + 1)
        BY <4>4
      <4> QED BY <4>3, <4>5
    <3> QED BY <3>1, <2>1
  <2>4. Len(line) = LeftAt' + Len(Left')
    BY <2>1, <1>4, <1>5, Pieces
  <2> QED BY <2>2, <2>3, <2>4, <1>1, <1>2, <1>5 DEF Line
<1>7. Phases' /\ Filled'
    BY <1>1, <1>2 DEF Ordered, Phases, Filled
<1> QED BY <1>1, <1>6, <1>7, SameLine

LEMMA DrainReceiveOrdered ==
    ASSUME Typed, Ordered, DrainReceive
    PROVE  Ordered'
<1> DEFINE buf == sink.buf
<1>1. /\ drainer.at = "receiving" /\ drainer'.at = "sending" /\ drainer'.held = Head(buf)
      /\ buf # <<>> /\ sink.buf' = Tail(buf) /\ sink.closed' = sink.closed
      /\ UNCHANGED <<windowSize, arrived, window, inserter, evicted, flush, out>>
    BY DEF DrainReceive, Typed
<1>2. /\ buf \in Seq(Elems) /\ Len(buf) \in Nat /\ Len(buf) >= 1
      /\ Head(buf) = buf[1] /\ Len(Tail(buf)) = Len(buf) - 1
      /\ \A i \in 1..(Len(buf) - 1) : Tail(buf)[i] = buf[i + 1]
      /\ Holding = 0 /\ Holding' = 1
    BY <1>1, Pieces DEF Holding
<1>3. /\ BufAt = Len(out) /\ BufAt' = BufAt + 1 /\ EvictedAt' = EvictedAt /\ LeftAt' = LeftAt
      /\ Evicting' = Evicting /\ Left' = Left
  <2>1. BufAt = Len(out) /\ BufAt' = Len(out) + 1
    BY <1>1, <1>2, Pieces DEF BufAt
  <2>2. EvictedAt' = EvictedAt
    <3>1. Len(sink.buf') = Len(buf) - 1
      BY <1>1, <1>2
    <3>2. EvictedAt' = BufAt' + Len(sink.buf') /\ EvictedAt = BufAt + Len(buf)
      BY DEF EvictedAt
    <3>3. Len(buf) \in Nat /\ Len(out) \in Nat
      BY Pieces
    <3>4. EvictedAt' = (Len(out) + 1) + (Len(buf) - 1) /\ EvictedAt = Len(out) + Len(buf)
      BY <2>1, <3>1, <3>2
    <3> HIDE DEF buf
    <3> QED BY <3>3, <3>4
  <2>3. Evicting' = Evicting /\ Left' = Left
    BY <1>1 DEF Evicting, Left
  <2> QED BY <2>1, <2>2, <2>3, Pieces DEF LeftAt
<1>4. \A line \in Seq(Elems) : Line(line) => Line(line)'
  <2> SUFFICES ASSUME NEW line \in Seq(Elems), Line(line) PROVE Line(line)'
    OBVIOUS
  <2>1. \A i \in 1..Len(buf) : line[BufAt + i] = buf[i]
    BY DEF Line
  <2>2. line[Len(out) + 1] = drainer'.held
    BY <2>1, <1>1, <1>2, <1>3
  <2>3. \A i \in 1..Len(sink.buf') : line[BufAt' + i] = sink.buf'[i]
    <3> TAKE i \in 1..Len(sink.buf')
    <3>1. i + 1 \in 1..Len(buf) /\ BufAt' + i = BufAt + (i + 1) /\ sink.buf'[i] = buf[i + 1]
      BY <1>1, <1>2, <1>3, Pieces
    <3> QED BY <3>1, <2>1
  <2> QED BY <2>2, <2>3, <1>1, <1>3 DEF Line
<1>5. Phases' /\ Filled'
    BY <1>1, <1>3 DEF Ordered, Phases, Filled
<1> QED BY <1>1, <1>4, <1>5, SameLine

LEMMA DrainSendOrdered ==
    ASSUME Typed, Ordered, DrainSend
    PROVE  Ordered'
<1>1. /\ drainer.at = "sending" /\ drainer'.at = "receiving" /\ drainer.held \in Elems
      /\ out' = Append(out, drainer.held)
      /\ UNCHANGED <<windowSize, arrived, window, sink, inserter, evicted, flush>>
    BY DEF DrainSend, Typed
<1>2. /\ out \in Seq(Elems) /\ Len(out) \in Nat /\ Len(out') = Len(out) + 1
      /\ out'[Len(out) + 1] = drainer.held
      /\ \A i \in 1..Len(out) : out'[i] = out[i]
      /\ Holding = 1 /\ Holding' = 0
    BY <1>1, Pieces, AppendProperties DEF Holding
<1>3. /\ BufAt' = BufAt /\ EvictedAt' = EvictedAt /\ LeftAt' = LeftAt
      /\ Evicting' = Evicting /\ Left' = Left
    BY <1>1, <1>2, Pieces DEF BufAt, EvictedAt, LeftAt, Evicting, Left
<1>4. \A line \in Seq(Elems) : Line(line) => Line(line)'
  <2> SUFFICES ASSUME NEW line \in Seq(Elems), Line(line) PROVE Line(line)'
    OBVIOUS
  <2>1. \A i \in 1..Len(out') : line[i] = out'[i]
    <3>1. /\ \A i \in 1..Len(out) : line[i] = out[i]
          /\ line[Len(out) + 1] = drainer.held
      BY <1>1 DEF Line
    <3> QED BY <3>1, <1>2
  <2> QED BY <2>1, <1>1, <1>3 DEF Line
<1>5. Phases' /\ Filled'
    BY <1>1, <1>3 DEF Ordered, Phases, Filled
<1> QED BY <1>1, <1>4, <1>5, SameLine

(* The steps that move no element.                                         *)
LEMMA StillOrdered ==
    ASSUME Typed, Ordered,
           StartClose \/ FlushEnd \/ CloseReturns \/ Join \/ DrainEnd \/ CloseSource
             \/ UNCHANGED vars,
           ~ cancelled
    PROVE  Ordered'
<1>1. /\ UNCHANGED <<windowSize, arrived, window, out>>
      /\ sink.buf' = sink.buf /\ Left' = Left /\ Evicting' = Evicting /\ Holding' = Holding
      /\ inserter = "evicting" => evicted' = evicted
      /\ inserter' = "evicting" <=> inserter = "evicting"
      /\ drainer'.at = "sending" <=> drainer.at = "sending"
      /\ drainer.at = "sending" => drainer'.held = drainer.held
      /\ flush'.at = "none" => flush.at = "none"
  <2>1. CASE StartClose
    BY <2>1 DEF StartClose, Ordered, Phases, Left, Evicting, Holding
  <2>2. CASE FlushEnd
    BY <2>2 DEF FlushEnd, Typed, Left, Evicting, Holding
  <2>3. CASE CloseReturns
    BY <2>3 DEF CloseReturns, Left, Evicting, Holding
  <2>4. CASE Join
    BY <2>4 DEF Join, Left, Evicting, Holding
  <2>5. CASE DrainEnd
    BY <2>5 DEF DrainEnd, Typed, Left, Evicting, Holding
  <2>6. CASE CloseSource
    BY <2>6 DEF CloseSource, Left, Evicting, Holding
  <2>7. CASE UNCHANGED vars
    BY <2>7 DEF vars, Left, Evicting, Holding
  <2> QED BY <2>1, <2>2, <2>3, <2>4, <2>5, <2>6, <2>7
<1>2. BufAt' = BufAt /\ EvictedAt' = EvictedAt /\ LeftAt' = LeftAt
    BY <1>1 DEF BufAt, EvictedAt, LeftAt
<1>3. \A line \in Seq(Elems) : Line(line) => Line(line)'
    BY <1>1, <1>2 DEF Line
<1>4. Phases'
  <2> USE DEF Ordered, Phases
  <2>1. CASE StartClose
    BY <2>1 DEF StartClose
  <2>2. CASE FlushEnd
    BY <2>2 DEF FlushEnd, Typed
  <2>3. CASE CloseReturns
    BY <2>3 DEF CloseReturns
  <2>4. CASE Join
    BY <2>4 DEF Join
  <2>5. CASE DrainEnd
    BY <2>5 DEF DrainEnd, Typed
  <2>6. CASE CloseSource
    BY <2>6 DEF CloseSource
  <2>7. CASE UNCHANGED vars
    BY <2>7 DEF vars
  <2> QED BY <2>1, <2>2, <2>3, <2>4, <2>5, <2>6, <2>7
<1>5. Filled'
    BY <1>1, <1>2 DEF Ordered, Filled
<1> QED BY <1>1, <1>3, <1>4, <1>5, SameLine

(* What is in the window has the last places of the line, all of which are *)
(* open to whatever has arrived; the places before it are not open to what *)
(* arrives next.                                                           *)
LEMMA WindowPlaces ==
    ASSUME Typed, Ordered, NEW line \in Seq(Elems), Line(line), Ranked(line),
           inserter = "reading"
    PROVE  /\ Left = window /\ LeftAt = EvictedAt /\ flush.at = "none"
           /\ Len(arrived) = LeftAt + Len(window)
           /\ Len(arrived) <= windowSize + LeftAt
           /\ \A n \in 1..LeftAt : Len(arrived) >= windowSize + n
           /\ \A i \in 1..Len(window) : line[LeftAt + i] = window[i]
           /\ Sorted(window)
<1>1. flush.at = "none" /\ Left = window /\ Evicting = 0
    BY DEF Ordered, Phases, Left, Evicting
<1>2. LeftAt = EvictedAt
    BY <1>1, Pieces DEF LeftAt
<1>3. Len(arrived) = LeftAt + Len(window) /\ Len(line) = Len(arrived)
    BY <1>1 DEF Line, Ranked
<1>4. /\ Len(window) <= windowSize /\ windowSize \in Nat
      /\ Len(window) = windowSize \/ LeftAt = 0
    BY <1>1, WindowSizeIsPositive DEF Typed, TypeOK, Ordered, Filled
<1>5. /\ Len(arrived) <= windowSize + LeftAt
      /\ \A n \in 1..LeftAt : Len(arrived) >= windowSize + n
    BY <1>3, <1>4, Pieces
<1>6. \A i \in 1..Len(window) : line[LeftAt + i] = window[i]
    BY <1>1 DEF Line
<1>7. Sorted(window)
  <2> SUFFICES ASSUME NEW i \in 1..Len(window), NEW j \in 1..Len(window), i < j
               PROVE  Precedes(window[i], window[j])
    BY DEF Sorted
  <2> DEFINE n == LeftAt + i
             m == LeftAt + j
  <2>0. LeftAt \in Nat /\ Len(window) \in Nat /\ Len(line) = LeftAt + Len(window)
    BY <1>3, Pieces
  <2>1. n \in 1..Len(line) /\ m \in 1..Len(line) /\ n < m
    BY <2>0
  <2>2. Len(arrived) <= windowSize + n
    BY <1>4, <1>5, Pieces
  <2>3. line[n] = window[i] /\ line[m] = window[j]
    BY <1>6
  <2> HIDE DEF n, m
  <2>4. line[m].pos <= Len(arrived) /\ line[m].pos \in Nat
    <3>1. line[m] \in Elems /\ m \in 1..Len(line)
      BY <2>1
    <3>2. line[m].pos <= Len(arrived)
      BY <3>1 DEF Ranked
    <3> QED BY <3>1, <3>2, ElemParts
  <2>5. line[m].pos <= windowSize + n
    <3>1. windowSize + n \in Nat /\ Len(arrived) \in Nat
      BY <2>0, <2>1, <1>3, <1>4
    <3> QED BY <3>1, <2>2, <2>4
  <2> QED BY <2>1, <2>3, <2>5 DEF Ranked
<1> QED BY <1>1, <1>2, <1>3, <1>5, <1>6, <1>7

(* The line after an insertion.                                            *)
WithInserted(line, s) ==
    [i \in 1..(LeftAt + Len(s)) |-> IF i <= LeftAt THEN line[i] ELSE s[i - LeftAt]]

LEMMA InsertRanked ==
    ASSUME Typed, Ordered, NEW line \in Seq(Elems), Line(line), Ranked(line),
           inserter = "reading",
           NEW v \in Elems, v.pos = Len(arrived) + 1
    PROVE  LET s == Inserted(window, v)
               new == WithInserted(line, s)
               seen == Append(arrived, v)
           IN  /\ new \in Seq(Elems) /\ Len(new) = Len(arrived) + 1
               /\ \A i \in 1..LeftAt : new[i] = line[i]
               /\ \A i \in 1..Len(s) : new[LeftAt + i] = s[i]
               /\ \A n \in 1..Len(new) :
                    /\ new[n].pos <= Len(seen) /\ new[n] = seen[new[n].pos]
                    /\ new[n].pos <= windowSize + n
               /\ \A p \in 1..Len(seen) : \E n \in 1..Len(new) : new[n] = seen[p]
               /\ \A n, m \in 1..Len(new) :
                    n < m => /\ new[n] # new[m]
                             /\ new[m].pos <= windowSize + n => Precedes(new[n], new[m])
<1> DEFINE s == Inserted(window, v)
           new == WithInserted(line, s)
           seen == Append(arrived, v)
           L == Len(arrived)
           at == LeftAt
<1>1. /\ L = at + Len(window) /\ L <= windowSize + at
      /\ \A n \in 1..at : L >= windowSize + n
      /\ \A i \in 1..Len(window) : line[at + i] = window[i]
      /\ Sorted(window)
    BY WindowPlaces
<1>2. /\ L \in Nat /\ at \in Nat /\ Len(window) \in Nat /\ windowSize \in Nat
      /\ window \in Seq(Elems) /\ arrived \in Seq(Elems) /\ Keys \subseteq Int
    BY Pieces, WindowSizeIsPositive
<1>3. /\ Len(line) = L
      /\ \A n \in 1..L : /\ line[n] \in Elems /\ line[n].pos \in 1..L
                         /\ line[n] = arrived[line[n].pos] /\ line[n].pos <= windowSize + n
  <2>1. Len(line) = L
    BY DEF Ranked
  <2> SUFFICES ASSUME NEW n \in 1..L
               PROVE  /\ line[n] \in Elems /\ line[n].pos \in 1..L
                      /\ line[n] = arrived[line[n].pos] /\ line[n].pos <= windowSize + n
    BY <2>1
  <2>2. line[n] \in Elems
    BY <2>1
  <2>3. line[n].pos \in Nat /\ line[n].pos >= 1
    BY <2>2, ElemParts
  <2>4. /\ line[n].pos <= L
        /\ line[n] = arrived[line[n].pos] /\ line[n].pos <= windowSize + n
    BY <2>1 DEF Ranked
  <2> QED BY <2>2, <2>3, <2>4, <1>2
<1>cover. \A p \in 1..L : \E n \in 1..L : line[n] = arrived[p]
    BY <1>3 DEF Ranked
<1>order. \A n, m \in 1..L :
            n < m => /\ line[n] # line[m]
                     /\ line[m].pos <= windowSize + n => Precedes(line[n], line[m])
    BY <1>3 DEF Ranked
<1>4. /\ s \in Seq(Elems) /\ Len(s) = Len(window) + 1
    BY <1>2, InsertedHalves
<1>5. \A i \in 1..Len(window) : window[i].pos < v.pos
  <2> TAKE i \in 1..Len(window)
  <2>1. at + i \in 1..L /\ window[i] = line[at + i]
    BY <1>1, <1>2
  <2>2. line[at + i].pos \in 1..L
    BY <2>1, <1>3
  <2> QED BY <2>1, <2>2, <1>2
<1>6. /\ Sorted(s)
      /\ \A i \in 1..Len(s) : s[i] = v \/ \E j \in 1..Len(window) : s[i] = window[j]
      /\ \E i \in 1..Len(s) : s[i] = v
      /\ \A j \in 1..Len(window) : \E i \in 1..Len(s) : s[i] = window[j]
  <2>1. Sorted(window) /\ window \in Seq(Elems) /\ v \in Elems /\ Keys \subseteq Int
    BY <1>1, <1>2
  <2>2. /\ Sorted(s)
        /\ \A i \in 1..Len(window) + 1 :
                s[i] = v \/ \E j \in 1..Len(window) : s[i] = window[j]
        /\ \E i \in 1..Len(window) + 1 : s[i] = v
        /\ \A j \in 1..Len(window) : \E i \in 1..Len(window) + 1 : s[i] = window[j]
    BY <2>1, <1>5, InsertedShape
  <2> HIDE DEF s
  <2> QED BY <2>2, <1>4
<1> HIDE DEF s
<1>sum. L = at + Len(window) /\ L <= windowSize + at /\ at <= L
    BY <1>1, <1>2
<1>7. /\ at + Len(s) = L + 1
      /\ new = [i \in 1..(L + 1) |-> IF i <= at THEN line[i] ELSE s[i - at]]
  <2>1. at + Len(s) = L + 1
    BY <1>1, <1>2, <1>4
  <2> QED BY <2>1 DEF WithInserted
<1>8. /\ seen \in Seq(Elems) /\ Len(seen) = L + 1 /\ seen[L + 1] = v
      /\ \A p \in 1..L : seen[p] = arrived[p]
    BY <1>2, AppendProperties
<1> HIDE DEF new, seen, at, L
<1>9. /\ \A i \in 1..at : new[i] = line[i]
      /\ \A i \in 1..Len(s) : new[at + i] = s[i]
    <2>1. \A i \in 1..at : i \in 1..(L + 1) /\ i <= at
      BY <1>1, <1>2
    <2>2. \A i \in 1..Len(s) : at + i \in 1..(L + 1) /\ ~(at + i <= at) /\ (at + i) - at = i
      BY <1>1, <1>2, <1>4
    <2> QED BY <2>1, <2>2, <1>7
<1>10. \A n \in 1..(L + 1) : n > at => n - at \in 1..Len(s) /\ new[n] = s[n - at]
  <2> TAKE n \in 1..(L + 1)
  <2> HAVE n > at
  <2>1. n - at \in 1..Len(s) /\ at + (n - at) = n
    BY <1>2, <1>4, <1>7
  <2> QED BY <2>1, <1>9
<1>11. \A n \in 1..(L + 1) : n > at =>
          new[n] = v \/ \E m \in 1..L : m > at /\ new[n] = line[m]
  <2> TAKE n \in 1..(L + 1)
  <2> HAVE n > at
  <2>1. new[n] = s[n - at] /\ n - at \in 1..Len(s)
    BY <1>10
  <2>2. CASE s[n - at] = v
    BY <2>1, <2>2
  <2>3. CASE \E j \in 1..Len(window) : s[n - at] = window[j]
    <3>1. PICK j \in 1..Len(window) : s[n - at] = window[j]
      BY <2>3
    <3>2. at + j \in 1..L /\ at + j > at /\ line[at + j] = window[j]
      BY <1>1, <1>2
    <3> QED BY <2>1, <3>1, <3>2
  <2> QED BY <2>1, <2>2, <2>3, <1>6
<1>12. new \in Seq(Elems) /\ Len(new) = L + 1
  <2>1. \A n \in 1..(L + 1) : new[n] \in Elems
    <3> TAKE n \in 1..(L + 1)
    <3>1. CASE n <= at
      <4>1. n \in 1..at /\ n \in 1..L
        BY <3>1, <1>1, <1>2
      <4> QED BY <4>1, <1>3, <1>9
    <3>2. CASE n > at
      BY <3>2, <1>3, <1>11
    <3> QED BY <3>1, <3>2, <1>2
  <2>2. new = [n \in 1..(L + 1) |-> new[n]]
    BY <1>7
  <2>3. new \in [1..(L + 1) -> Elems] /\ L + 1 \in Nat
    BY <2>1, <2>2, <1>2
  <2> QED BY <2>3, IsASeq, LenProperties
<1>13. v.pos = L + 1
    BY DEF L
<1>14. \A n \in 1..(L + 1) :
          /\ new[n].pos <= L + 1 /\ new[n] = seen[new[n].pos]
          /\ new[n].pos <= windowSize + n
  <2> TAKE n \in 1..(L + 1)
  <2>1. CASE n <= at
    <3>1. n \in 1..L /\ new[n] = line[n]
      BY <2>1, <1>1, <1>2, <1>9
    <3>2. /\ line[n].pos \in 1..L /\ line[n] = arrived[line[n].pos]
          /\ line[n].pos <= windowSize + n
      BY <3>1, <1>3
    <3>3. seen[line[n].pos] = arrived[line[n].pos]
      BY <3>2, <1>8
    <3> QED BY <3>1, <3>2, <3>3, <1>2
  <2>2. CASE n > at
    <3>1. CASE new[n] = v
      BY <2>2, <3>1, <1>1, <1>2, <1>8, <1>13
    <3>2. CASE \E m \in 1..L : m > at /\ new[n] = line[m]
      <4>1. PICK m \in 1..L : m > at /\ new[n] = line[m]
        BY <3>2
      <4>2. line[m].pos \in 1..L /\ line[m] = arrived[line[m].pos]
        BY <4>1, <1>3
      <4>3. line[m].pos <= windowSize + n
        BY <4>2, <2>2, <1>2, <1>sum
      <4>4. seen[line[m].pos] = arrived[line[m].pos]
        BY <4>2, <1>8
      <4> QED BY <4>1, <4>2, <4>3, <4>4, <1>2
    <3> QED BY <2>2, <3>1, <3>2, <1>11
  <2> QED BY <2>1, <2>2, <1>2
<1>15. \A p \in 1..(L + 1) : \E n \in 1..(L + 1) : new[n] = seen[p]
  <2> TAKE p \in 1..(L + 1)
  <2>1. CASE p = L + 1
    <3>1. PICK i \in 1..Len(s) : s[i] = v
      BY <1>6
    <3>2. at + i \in 1..(L + 1)
      BY <1>2, <1>4, <1>7
    <3> QED BY <2>1, <3>1, <3>2, <1>8, <1>9
  <2>2. CASE p \in 1..L
    <3>1. PICK n \in 1..L : line[n] = arrived[p]
      BY <2>2, <1>cover
    <3>2. CASE n <= at
      <4>1. n \in 1..at /\ n \in 1..(L + 1)
        BY <3>1, <3>2, <1>2
      <4> QED BY <4>1, <2>2, <3>1, <1>8, <1>9
    <3>3. CASE n > at
      <4>1. n - at \in 1..Len(window) /\ at + (n - at) = n
        BY <3>3, <1>1, <1>2
      <4>2. window[n - at] = line[n]
        BY <4>1, <1>1
      <4>3. PICK i \in 1..Len(s) : s[i] = window[n - at]
        BY <4>1, <1>6
      <4>4. at + i \in 1..(L + 1) /\ new[at + i] = s[i]
        BY <1>2, <1>4, <1>7, <1>9
      <4> QED BY <2>2, <3>1, <4>2, <4>3, <4>4, <1>8
    <3> QED BY <3>2, <3>3, <1>2
  <2> QED BY <2>1, <2>2, <1>2
<1>16. \A n, m \in 1..(L + 1) :
          n < m => /\ new[n] # new[m]
                   /\ new[m].pos <= windowSize + n => Precedes(new[n], new[m])
  <2> TAKE n, m \in 1..(L + 1)
  <2> HAVE n < m
  <2>1. CASE m <= at
    <3>1. n \in 1..L /\ m \in 1..L /\ new[n] = line[n] /\ new[m] = line[m]
      <4>1. n \in 1..at /\ m \in 1..at /\ n \in 1..L /\ m \in 1..L
        BY <2>1, <1>2, <1>sum
      <4> QED BY <4>1, <1>9
    <3>2. line[n] # line[m] /\ (line[m].pos <= windowSize + n => Precedes(line[n], line[m]))
      BY <3>1, <1>order
    <3> QED BY <3>1, <3>2
  <2>2. CASE n <= at /\ m > at
    <3>1. n \in 1..L /\ n \in 1..at /\ new[n] = line[n] /\ line[n].pos <= L
      <4>1. n \in 1..L /\ n \in 1..at
        BY <2>2, <1>2, <1>sum
      <4>2. line[n].pos \in 1..L
        BY <4>1, <1>3
      <4> QED BY <4>1, <4>2, <1>2, <1>9
    <3>2. CASE new[m] = v
      <4>1. L >= windowSize + n /\ n \in Nat
        BY <3>1, <1>1
      <4>2. v.pos = L + 1
        BY <1>13
      <4>3. new[n].pos # v.pos
        <5>1. line[n].pos \in 1..L
          BY <3>1, <1>3
        <5> QED BY <5>1, <4>2, <3>1, <1>2
      <4>4. ~ (v.pos <= windowSize + n)
        BY <4>1, <4>2, <1>2
      <4> QED BY <4>3, <4>4, <3>2
    <3>3. CASE \E j \in 1..L : j > at /\ new[m] = line[j]
      <4>1. PICK j \in 1..L : j > at /\ new[m] = line[j]
        BY <3>3
      <4>2. n < j
        BY <2>2, <4>1, <1>2
      <4> QED BY <3>1, <4>1, <4>2, <1>order
    <3> QED BY <2>2, <3>2, <3>3, <1>11
  <2>3. CASE n > at
    <3>1. /\ n - at \in 1..Len(s) /\ new[n] = s[n - at]
          /\ m - at \in 1..Len(s) /\ new[m] = s[m - at]
      <4>1. m > at
        BY <2>3, <1>2
      <4> QED BY <4>1, <2>3, <1>10
    <3>2. n - at < m - at
      BY <1>2
    <3>3. Precedes(new[n], new[m])
      BY <3>1, <3>2, <1>6 DEF Sorted
    <3>4. new[n] \in Elems
      BY <1>12
    <3>5. new[n].key \in Int /\ new[n].pos \in Int
      BY <3>4, ElemParts
    <3>6. new[n] # new[m]
      BY <3>3, <3>5 DEF Precedes
    <3> QED BY <3>3, <3>6
  <2> QED BY <2>1, <2>2, <2>3, <1>2
<1>17. Len(seen) = L + 1
    BY <1>8
<1> QED BY <1>9, <1>12, <1>14, <1>15, <1>16, <1>17 DEF s, new, seen, at, L

LEMMA InsertOrdered ==
    ASSUME Typed, Ordered, Insert
    PROVE  Ordered'
<1>1. PICK v \in Elems :
        /\ v.pos = Len(arrived) + 1 /\ arrived' = Append(arrived, v)
        /\ Len(arrived) < MaxInput
        /\ LET s == Inserted(window, v) IN
            IF Len(s) > windowSize
            THEN window' = Tail(s) /\ evicted' = Head(s) /\ inserter' = "evicting"
            ELSE window' = s /\ evicted' = evicted /\ inserter' = "reading"
    BY InsertSteps
<1>2. PICK line \in Seq(Elems) : Line(line) /\ Ranked(line)
    BY DEF Ordered
<1>3. /\ inserter = "reading"
      /\ UNCHANGED <<windowSize, srcClosed, cancelled, sink, flush, drainer, out>>
    BY DEF Insert
<1> DEFINE s == Inserted(window, v)
<1>4. /\ s \in Seq(Elems) /\ Len(s) = Len(window) + 1
    BY Pieces, InsertedHalves
<1>5. PICK new \in Seq(Elems) :
        LET seen == Append(arrived, v)
        IN  /\ Len(new) = Len(arrived) + 1
            /\ \A i \in 1..LeftAt : new[i] = line[i]
            /\ \A i \in 1..Len(s) : new[LeftAt + i] = s[i]
            /\ \A n \in 1..Len(new) :
                /\ new[n].pos <= Len(seen) /\ new[n] = seen[new[n].pos]
                /\ new[n].pos <= windowSize + n
            /\ \A p \in 1..Len(seen) : \E n \in 1..Len(new) : new[n] = seen[p]
            /\ \A n, m \in 1..Len(new) :
                 n < m => /\ new[n] # new[m]
                          /\ new[m].pos <= windowSize + n => Precedes(new[n], new[m])
    BY <1>1, <1>2, <1>3, InsertRanked
<1>6. Ranked(new)'
  <2>1. Len(arrived') = Len(arrived) + 1
    BY <1>1, Pieces, AppendProperties
  <2> QED BY <2>1, <1>1, <1>3, <1>5 DEF Ranked
<1>7. /\ Left = window /\ LeftAt = EvictedAt /\ flush.at = "none"
      /\ Len(arrived) = LeftAt + Len(window)
      /\ \A i \in 1..Len(window) : line[LeftAt + i] = window[i]
    BY <1>2, <1>3, WindowPlaces
<1>8. /\ Holding' = Holding /\ BufAt' = BufAt /\ EvictedAt' = EvictedAt
      /\ LeftAt \in Nat /\ EvictedAt \in Nat /\ BufAt \in Nat
      /\ Len(window) \in Nat /\ windowSize \in Nat /\ windowSize >= 1
      /\ Len(window) <= windowSize
    BY <1>3, Pieces, WindowSizeIsPositive DEF Holding, BufAt, EvictedAt, Typed, TypeOK
<1>9. /\ \A i \in 1..Len(out) : new[i] = out[i]
      /\ drainer.at = "sending" => new[Len(out) + 1] = drainer.held
      /\ \A i \in 1..Len(sink.buf) : new[BufAt + i] = sink.buf[i]
  <2>1. BufAt = Len(out) + Holding /\ EvictedAt = BufAt + Len(sink.buf)
    BY DEF BufAt, EvictedAt
  <2>2. Len(out) \in Nat /\ Len(sink.buf) \in Nat /\ Holding \in {0, 1}
    BY Pieces
  <2>3. /\ Len(out) <= BufAt /\ BufAt + Len(sink.buf) = LeftAt
        /\ LeftAt \in Nat /\ BufAt \in Nat
    <3>1. LeftAt = EvictedAt
      BY <1>7
    <3>2. LeftAt \in Nat /\ BufAt \in Nat
      BY <1>8
    <3>3. Len(out) <= Len(out) + Holding
      BY <2>2
    <3> QED BY <3>1, <3>2, <3>3, <2>1
  <2>4. \A i \in 1..Len(out) : i \in 1..LeftAt
    BY <2>2, <2>3
  <2>5. \A i \in 1..Len(sink.buf) : BufAt + i \in 1..LeftAt
    BY <2>2, <2>3
  <2>6. drainer.at = "sending" => Len(out) + 1 \in 1..LeftAt
    <3>1. drainer.at = "sending" => Len(out) + 1 = BufAt
      BY <2>1 DEF Holding
    <3> QED BY <3>1, <2>2, <2>3
  <2> QED BY <2>4, <2>5, <2>6, <1>2, <1>5 DEF Line
<1>10. Phases'
    BY <1>1, <1>3, <1>7 DEF Ordered, Phases
<1> HIDE DEF s
<1>11. Line(new)' /\ Filled'
  <2>1. CASE Len(s) > windowSize
    <3>1. window' = Tail(s) /\ evicted' = Head(s) /\ inserter' = "evicting"
      BY <2>1, <1>1 DEF s
    <3>2. /\ Left' = Tail(s) /\ Evicting' = 1 /\ LeftAt' = LeftAt + 1
          /\ Head(s) = s[1] /\ Len(Tail(s)) = Len(window)
          /\ \A i \in 1..Len(window) : Tail(s)[i] = s[i + 1]
      <4>1. Left' = Tail(s) /\ Evicting' = 1
        BY <3>1, <1>3, <1>7 DEF Left, Evicting
      <4>2. LeftAt' = EvictedAt' + Evicting'
        BY DEF LeftAt
      <4>3. /\ Head(s) = s[1] /\ Len(Tail(s)) = Len(window)
            /\ \A i \in 1..Len(window) : Tail(s)[i] = s[i + 1]
        BY <1>4, <1>8
      <4> QED BY <4>1, <4>2, <4>3, <1>7, <1>8
    <3>3. Filled'
      BY <3>1, <3>2, <2>1, <1>3, <1>4, <1>8 DEF Filled
    <3>4. new[EvictedAt + 1] = evicted'
      <4>1. 1 \in 1..Len(s)
        BY <1>4, <1>8
      <4> QED BY <4>1, <3>1, <3>2, <1>5, <1>7 DEF s
    <3>5. \A i \in 1..Len(window) : new[LeftAt' + i] = Tail(s)[i]
      <4> TAKE i \in 1..Len(window)
      <4>1. i + 1 \in 1..Len(s) /\ LeftAt' + i = LeftAt + (i + 1)
        BY <3>2, <1>4, <1>8
      <4> QED BY <4>1, <3>2, <1>5 DEF s
    <3>6. Len(new) = LeftAt' + Len(Left')
      <4>1. Len(new) = (LeftAt + Len(window)) + 1
        BY <1>5, <1>7
      <4>2. Len(Left') = Len(window) /\ LeftAt' = LeftAt + 1
        BY <3>2
      <4> QED BY <4>1, <4>2, <1>8
    <3> QED BY <3>1, <3>2, <3>3, <3>4, <3>5, <3>6, <1>3, <1>8, <1>9 DEF Line
  <2>2. CASE ~(Len(s) > windowSize)
    <3>1. window' = s /\ inserter' = "reading"
      BY <2>2, <1>1 DEF s
    <3>2. Left' = s /\ Evicting' = 0
      BY <3>1, <1>3, <1>7 DEF Left, Evicting
    <3>3. LeftAt' = LeftAt
      <4>1. LeftAt' = EvictedAt' + Evicting'
        BY DEF LeftAt
      <4> QED BY <4>1, <3>2, <1>7, <1>8
    <3>4. Filled'
      <4>1. LeftAt = 0
        BY <2>2, <1>4, <1>7, <1>8 DEF Ordered, Filled
      <4> QED BY <4>1, <3>3 DEF Filled
    <3>5. Len(new) = LeftAt' + Len(Left')
      BY <3>2, <3>3, <1>4, <1>5, <1>7, <1>8
    <3>6. \A i \in 1..Len(s) : new[LeftAt' + i] = s[i]
      BY <3>3, <1>5 DEF s
    <3> QED BY <3>1, <3>2, <3>3, <3>4, <3>5, <3>6, <1>3, <1>8, <1>9 DEF Line
  <2> QED BY <2>1, <2>2
<1> QED BY <1>5, <1>6, <1>10, <1>11 DEF Ordered

-----------------------------------------------------------------------------
(* The inductive invariant.                                                *)
LEMMA InitIInv == Init => IInv
BY InitTyped, InitOrdered DEF IInv

LEMMA NextIInv == IInv /\ [Next]_vars => IInv'
<1> SUFFICES ASSUME IInv, [Next]_vars PROVE IInv'
    OBVIOUS
<1>1. Typed /\ Typed'
    BY TypedStep DEF IInv
<1>2. ~ cancelled' => Ordered'
  <2> SUFFICES ASSUME ~ cancelled' PROVE Ordered'
    OBVIOUS
  <2>1. ~ cancelled
    BY DEF Next, vars, Insert, InserterStep, FlushStep, DrainerStep, SendEvicted, SkipEvicted,
           StartClose, CloseReturns, Join, FlushSend, FlushAbandon, FlushEnd, DrainReceive,
           DrainEnd, DrainSend, DrainDrop, CloseSource, Cancel
  <2>2. Ordered
    BY <2>1 DEF IInv
  <2>3. CASE Insert
    BY <2>2, <2>3, <1>1, InsertOrdered
  <2>4. CASE SendEvicted
    BY <2>2, <2>4, <1>1, SendEvictedOrdered
  <2>5. CASE FlushSend
    BY <2>2, <2>5, <1>1, FlushSendOrdered
  <2>6. CASE DrainReceive
    BY <2>2, <2>6, <1>1, DrainReceiveOrdered
  <2>7. CASE DrainSend
    BY <2>2, <2>7, <1>1, DrainSendOrdered
  <2>8. CASE SkipEvicted \/ FlushAbandon \/ DrainDrop \/ Cancel
    BY <2>1, <2>8 DEF SkipEvicted, FlushAbandon, DrainDrop, Cancel
  <2>9. CASE StartClose \/ FlushEnd \/ CloseReturns \/ Join \/ DrainEnd \/ CloseSource
               \/ UNCHANGED vars
    BY <2>1, <2>2, <2>9, <1>1, StillOrdered
  <2> QED
    BY <2>3, <2>4, <2>5, <2>6, <2>7, <2>8, <2>9
       DEF Next, InserterStep, FlushStep, DrainerStep
<1> QED BY <1>1, <1>2 DEF IInv

(* The window, the sink and the elements on their way have their types in  *)
(* every reachable state, and the line has its order until the context     *)
(* ends.                                                                   *)
THEOREM OrderByInductive == Spec => []IInv
BY InitIInv, NextIInv, PTL DEF Spec

(* The buffer never holds more than the window, nor its sink more than     *)
(* twice that.                                                             *)
THEOREM OrderByTypeCorrect == Spec => []TypeOK
<1>1. IInv => TypeOK
    BY DEF IInv, Typed
<1> QED BY <1>1, OrderByInductive, PTL

-----------------------------------------------------------------------------
LEMMA PrecedesIsAsymmetric ==
    ASSUME NEW a \in Elems, NEW b \in Elems, Precedes(a, b), Precedes(b, a)
    PROVE  FALSE
<1>1. a.key \in Int /\ a.pos \in Int /\ b.key \in Int /\ b.pos \in Int
    BY ElemParts
<1> QED BY <1>1 DEF Precedes

(* The line obeys the reference, and out is the beginning of it.           *)
LEMMA RankedMeansReference ==
    ASSUME IInv
    PROVE  MatchesReference
<1> SUFFICES ASSUME ~ cancelled
             PROVE  /\ inserter = "ended" => Len(out) = Len(arrived)
                    /\ \A n \in DOMAIN out :
                         LET seen == IF Len(arrived) < windowSize + n
                                     THEN Len(arrived) ELSE windowSize + n
                         IN  out[n] = LeastOf(SeqSet(SubSeq(arrived, 1, seen))
                                                \ SeqSet(SubSeq(out, 1, n - 1)))
    BY DEF MatchesReference
<1>1. Typed /\ Ordered
    BY DEF IInv
<1>2. PICK line \in Seq(Elems) : Line(line) /\ Ranked(line)
    BY <1>1 DEF Ordered
<1>3. /\ Len(out) \in Nat /\ Len(arrived) \in Nat /\ Len(line) = Len(arrived)
      /\ out \in Seq(Elems) /\ arrived \in Seq(Elems)
      /\ windowSize \in Nat /\ Len(out) <= Len(line)
      /\ \A i \in 1..Len(out) : line[i] = out[i]
  <2>1. Len(line) = LeftAt + Len(Left) /\ Len(line) = Len(arrived)
    BY <1>2 DEF Line, Ranked
  <2>2. LeftAt = Len(out) + Holding + Len(sink.buf) + Evicting
    BY DEF LeftAt, EvictedAt, BufAt
  <2>3. Len(out) <= Len(line)
    <3>1. /\ Len(out) \in Nat /\ Holding \in Nat /\ Len(sink.buf) \in Nat
          /\ Evicting \in Nat /\ Len(Left) \in Nat
      BY <1>1, Pieces
    <3>2. ASSUME NEW a \in Nat, NEW b \in Nat, NEW c \in Nat, NEW d \in Nat, NEW e \in Nat
          PROVE  a <= a + b + c + d + e
      OBVIOUS
    <3>3. Len(line) = Len(out) + Holding + Len(sink.buf) + Evicting + Len(Left)
      BY <2>1, <2>2
    <3>4. Len(out) <= Len(out) + Holding + Len(sink.buf) + Evicting + Len(Left)
      BY <3>1, <3>2
    <3> QED BY <3>3, <3>4
  <2> QED BY <2>1, <2>3, <1>1, <1>2, Pieces, WindowSizeIsPositive DEF Line
<1>4. inserter = "ended" => Len(out) = Len(arrived)
  <2> SUFFICES ASSUME inserter = "ended" PROVE Len(out) = Len(arrived)
    OBVIOUS
  <2>1. /\ sink.buf = <<>> /\ flush.left = <<>> /\ flush.at = "ended" /\ drainer.at = "ended"
    BY <1>1 DEF Ordered, Phases
  <2>2. Len(sink.buf) = 0 /\ Len(Left) = 0 /\ Holding = 0 /\ Evicting = 0
    BY <2>1 DEF Left, Holding, Evicting
  <2>3. LeftAt = Len(out)
    BY <2>2, <1>3 DEF LeftAt, EvictedAt, BufAt
  <2> QED BY <2>2, <2>3, <1>2, <1>3 DEF Line
<1>5. ASSUME NEW n \in DOMAIN out
      PROVE  LET seen == IF Len(arrived) < windowSize + n
                         THEN Len(arrived) ELSE windowSize + n
             IN  out[n] = LeastOf(SeqSet(SubSeq(arrived, 1, seen))
                                    \ SeqSet(SubSeq(out, 1, n - 1)))
  <2> DEFINE seen == IF Len(arrived) < windowSize + n
                     THEN Len(arrived) ELSE windowSize + n
             S == SeqSet(SubSeq(arrived, 1, seen)) \ SeqSet(SubSeq(out, 1, n - 1))
  <2>1. n \in 1..Len(out) /\ n \in 1..Len(line) /\ line[n] = out[n] /\ line[n] \in Elems
    BY <1>3
  <2>2. /\ seen \in Nat /\ seen <= Len(arrived) /\ seen <= windowSize + n
        /\ \A p \in Nat : p <= Len(arrived) /\ p <= windowSize + n => p <= seen
    BY <1>3, <2>1
  <2> HIDE DEF seen
  <2>3. SeqSet(SubSeq(arrived, 1, seen)) = {arrived[p] : p \in 1..seen}
    <3>1. /\ DOMAIN SubSeq(arrived, 1, seen) = 1..seen
          /\ \A p \in 1..seen : SubSeq(arrived, 1, seen)[p] = arrived[p]
      BY <1>3, <2>2
    <3> QED BY <3>1 DEF SeqSet
  <2>4. SeqSet(SubSeq(out, 1, n - 1)) = {line[i] : i \in 1..(n - 1)}
    <3>1. /\ DOMAIN SubSeq(out, 1, n - 1) = 1..(n - 1)
          /\ \A i \in 1..(n - 1) : SubSeq(out, 1, n - 1)[i] = out[i]
      BY <1>3, <2>1
    <3>2. \A i \in 1..(n - 1) : line[i] = out[i]
      BY <1>3, <2>1
    <3> QED BY <3>1, <3>2 DEF SeqSet
  <2>5. S = {arrived[p] : p \in 1..seen} \ {line[i] : i \in 1..(n - 1)}
    BY <2>3, <2>4
  <2> HIDE DEF S
  <2>6. line[n] \in S
    <3>1. line[n].pos \in 1..seen /\ line[n] = arrived[line[n].pos]
      <4>1. line[n].pos \in Nat /\ line[n].pos >= 1
        BY <2>1, ElemParts
      <4>2. /\ line[n].pos <= Len(arrived) /\ line[n] = arrived[line[n].pos]
            /\ line[n].pos <= windowSize + n
        BY <2>1, <1>2 DEF Ranked
      <4> QED BY <4>1, <4>2, <2>2
    <3>2. \A i \in 1..(n - 1) : line[i] # line[n]
      <4> TAKE i \in 1..(n - 1)
      <4>1. i \in 1..Len(line) /\ i < n
        BY <2>1, <1>3
      <4> QED BY <4>1, <2>1, <1>2 DEF Ranked
    <3> QED BY <3>1, <3>2, <2>5
  <2>7. \A b \in S \ {line[n]} : Precedes(line[n], b)
    <3> TAKE b \in S \ {line[n]}
    <3>1. PICK p \in 1..seen : b = arrived[p]
      BY <2>5
    <3>2. p \in 1..Len(arrived) /\ p <= windowSize + n /\ b.pos = p
      BY <3>1, <2>1, <2>2, <1>1, <1>3 DEF Typed
    <3>3. PICK m \in 1..Len(line) : line[m] = b
      BY <3>1, <3>2, <1>2 DEF Ranked
    <3>4. ~(m < n) /\ m # n
      <4>1. m < n => m \in 1..(n - 1)
        BY <2>1, <1>3
      <4> QED BY <4>1, <3>3, <2>5
    <3>5. n < m
      BY <3>4, <2>1, <1>3
    <3> QED BY <3>2, <3>3, <3>5, <2>1, <1>2 DEF Ranked
  <2>8. S \subseteq Elems
    <3>1. \A p \in 1..seen : arrived[p] \in Elems
      BY <1>3, <2>2
    <3> QED BY <3>1, <2>5
  <2>9. \A a \in S : (\A b \in S \ {a} : Precedes(a, b)) => a = line[n]
    BY <2>6, <2>7, <2>8, PrecedesIsAsymmetric
  <2>10. LeastOf(S) = line[n]
    BY <2>6, <2>7, <2>9 DEF LeastOf
  <2> QED BY <2>1, <2>10 DEF S, seen
<1> QED BY <1>4, <1>5

(* stream.OrderByEffect: for every window size and whatever the keys are,  *)
(* the n-th element that the subscriber receives is the least, and among   *)
(* equals the oldest, of the first windowSize + n that arrived and that    *)
(* have not come out; and at the end the subscriber has all of them.       *)
THEOREM OrderIsTheReference == Spec => []MatchesReference
<1>1. IInv => MatchesReference
    BY RankedMeansReference
<1> QED BY <1>1, OrderByInductive, PTL
=============================================================================
