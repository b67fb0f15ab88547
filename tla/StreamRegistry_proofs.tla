----------------------- MODULE StreamRegistry_proofs -----------------------
(***************************************************************************)
(* Theorems about the registry and its arbiters, for any subscribers,      *)
(* setups and bounds.  Nothing says when an array is full, so that they    *)
(* hold for whatever growth append chooses.  Worker and arbiters share     *)
(* lists and arrays without a lock: that it does no harm rests on what a   *)
(* shared array may still become (Backing), on the order of one caller's   *)
(* requests (Requests) and on the life of an arbiter (Arbited).            *)
(***************************************************************************)
EXTENDS StreamRegistry, SequenceTheorems, TLAPS

ListType == {None, Raw} \cup [kind : {"list"}, arr : Nat, len : Nat]

(* A list refers to the beginning of an array. *)
Sliced(a, l) ==
    l.kind = "list" => l.arr \in 1..Len(a) /\ l.len \in 1..Len(a[l.arr])

Elements(a, l) == IF l.kind = "list" THEN {a[l.arr][k] : k \in 1..l.len} ELSE {}

ArbType ==
    [at : {"absent", "receiving", "loading", "offering", "closing", "ended",
           "panicked", "recovered"},
     sinks : ListType \ {Raw}, cursor : Nat, msg : Nat]

RequestType == [op : {"subscribe", "unsubscribe"}, sub : Subs]

WorkerType ==
    [at : {"idle", "subscribing", "unsubscribing", "crashed", "exited", "stuck"},
     sub : Subs \cup {NoChannel}, old : ListType]

Placed(a, b) ==
    /\ Sliced(a, b.sinks)
    /\ b.at \in {"offering", "closing"} =>
          b.sinks.kind = "list" /\ b.cursor \in 1..b.sinks.len

Typed ==
    /\ setup \in Setups
    /\ arrays \in Seq(Seq(Subs))
    /\ entry \in ListType
    /\ inbox \in Seq(RequestType)
    /\ worker \in WorkerType
    /\ worker.at \in {"subscribing", "unsubscribing"} => worker.sub \in Subs
    /\ arb \in [Arbiters -> ArbType]
    /\ sent \in Nat
    /\ asked \in [Subs -> {"nothing", "subscribe", "unsubscribe", "closed"}]
    /\ members \subseteq Subs
    /\ left \in [Subs -> Nat \cup {-1}]
    /\ offered \in [Subs -> Seq(Nat)]

(* While the worker changes a list nobody else puts one in the entry, and  *)
(* an arbiter has no longer a list of an array than the entry, or the one  *)
(* that the worker is about to append to.                                  *)
Shorter(b, l) ==
    b.sinks.kind = "list" /\ l.kind = "list" /\ b.sinks.arr = l.arr =>
        b.sinks.len <= l.len

Backing ==
    /\ Sliced(arrays, entry)
    /\ worker.at \in {"subscribing", "unsubscribing"} =>
          /\ worker.old.kind = "list" /\ Sliced(arrays, worker.old)
          /\ entry \in {worker.old, None}
    /\ \A i \in Arbiters :
        /\ Placed(arrays, arb[i])
        /\ Shorter(arb[i], entry)
        /\ worker.at = "subscribing" => Shorter(arb[i], worker.old)

(* A subscriber asks for each thing once, first to be subscribed. *)
Requests ==
    /\ \A j \in 1..Len(inbox) :
        /\ asked[inbox[j].sub] # "nothing"
        /\ inbox[j].op = "subscribe" =>
            /\ left[inbox[j].sub] = -1
            /\ worker.at = "unsubscribing" => worker.sub # inbox[j].sub
            /\ \A k \in 1..Len(inbox) : k < j => inbox[k].sub # inbox[j].sub
    /\ worker.at \in {"subscribing", "unsubscribing"} => asked[worker.sub] # "nothing"
    /\ worker.at = "subscribing" => left[worker.sub] = -1
    /\ \A s \in Subs : left[s] # -1 => asked[s] # "nothing"

(* Whoever has left is on no list that will be loaded, and a list that is  *)
(* being served has messages for him that came before.                     *)
Quiet ==
    /\ \A s \in Elements(arrays, entry) : left[s] = -1
    /\ \A i \in Arbiters :
        /\ arb[i].msg <= sent
        /\ arb[i].at = "offering" =>
              \A s \in Elements(arrays, arb[i].sinks) : left[s] # -1 => arb[i].msg <= left[s]
    /\ \A s \in Subs : \A k \in DOMAIN offered[s] : offered[s][k] <= sent
    /\ SilentAfterUnsubscribe

(* While the scope is open the first arbiter is the only one that receives *)
(* messages, and as long as it does the entry is there with the members.   *)
Arbited ==
    /\ \A i \in Arbiters : arb[i] # Absent => arb[1] # Absent
    /\ scope = "open" =>
        /\ \A i \in Arbiters :
            /\ arb[i].at \in {"loading", "offering"} => i = 1 /\ arb[i].msg = sent
            /\ i # 1 /\ arb[i] # Absent => srcClosed /\ arb[i].sinks = None
            /\ i = 1 /\ arb[i].at \in {"receiving", "loading", "offering"} =>
                  /\ entry # None
                  /\ entry.kind = "list" =>
                        Elements(arrays, entry) \subseteq members
                            /\ members \ Leaving \subseteq Elements(arrays, entry)
            /\ i = 1 /\ entry = None /\ arb[i] = Absent => members = {}
            /\ entry = None /\ ~ srcClosed => arb[i] = Absent
    /\ SourceOrder

StreamInv == Typed /\ Backing /\ Requests /\ Quiet /\ Arbited

-----------------------------------------------------------------------------
(* Lists and arrays. *)
(* What a load of the entry returns. *)
LEMMA RegisteredElements ==
    ASSUME arrays \in Seq(Seq(Subs)), NEW l \in ListType, Sliced(arrays, l)
    PROVE  /\ Range(Registered(l)) = Elements(arrays, l)
           /\ Registered(l) = <<>> <=> l.kind # "list"
           /\ Elements(arrays, l) \subseteq Subs
<1>1. CASE l.kind = "list"
  <2> DEFINE r == arrays[l.arr]
  <2>1. r \in Seq(Subs) /\ l.len \in 1..Len(r)
      BY <1>1 DEF Sliced
  <2> HIDE DEF r
  <2>2. l.len \in Nat /\ l.len >= 1 /\ l.len <= Len(r) /\ Len(r) \in Nat
      BY <2>1
  <2>3. /\ SubSeq(r, 1, l.len) \in Seq(Subs) /\ Len(SubSeq(r, 1, l.len)) = l.len
        /\ \A k \in 1..l.len : SubSeq(r, 1, l.len)[k] = r[k]
        /\ DOMAIN SubSeq(r, 1, l.len) = 1..l.len
      BY <2>1, <2>2
  <2>4. Registered(l) = SubSeq(r, 1, l.len)
      BY <1>1 DEF Registered, r
  <2>5. Elements(arrays, l) = {r[k] : k \in 1..l.len}
      BY <1>1 DEF Elements, r
  <2>6. \A k \in 1..l.len : r[k] \in Subs
      BY <2>1, <2>2
  <2>7. Range(Registered(l)) = {r[k] : k \in 1..l.len}
      BY <2>3, <2>4 DEF Range
  <2>8. Registered(l) # <<>>
      BY <2>2, <2>3, <2>4
  <2> QED BY <1>1, <2>5, <2>6, <2>7, <2>8
<1>2. CASE l.kind # "list"
  <2>1. Registered(l) = <<>> /\ Elements(arrays, l) = {}
    BY <1>2 DEF Registered, Elements
  <2>2. Range(<<>>) = {}
    BY DEF Range
  <2> QED BY <1>2, <2>1, <2>2
<1> QED BY <1>1, <1>2

(* append leaves what was there, in its own array or in place. *)
LEMMA AppendedShape ==
    ASSUME arrays \in Seq(Seq(Subs)), NEW old \in ListType, old.kind = "list",
           Sliced(arrays, old), NEW s \in Subs
    PROVE  LET new == Appended(old, s)
           IN  /\ new.arrays \in Seq(Seq(Subs)) /\ Len(new.arrays) >= Len(arrays)
               /\ new.list \in ListType /\ new.list.kind = "list"
               /\ new.list.arr \in 1..Len(new.arrays)
               /\ new.list.len = old.len + 1 /\ Len(new.arrays[new.list.arr]) = old.len + 1
               /\ new.list.arr = old.arr \/ new.list.arr = Len(arrays) + 1
               /\ new.arrays[new.list.arr][old.len + 1] = s
               /\ \A k \in 1..old.len : new.arrays[new.list.arr][k] = arrays[old.arr][k]
               /\ \A a \in 1..Len(arrays) :
                    \/ new.arrays[a] = arrays[a]
                    \/ /\ a = old.arr /\ Len(new.arrays[a]) = old.len + 1
                       /\ \A k \in 1..old.len : new.arrays[a][k] = arrays[a][k]
<1> DEFINE r == arrays[old.arr]
           items == Append(SubSeq(r, 1, old.len), s)
           n == old.len
<1>1. /\ old.arr \in 1..Len(arrays) /\ Len(arrays) \in Nat /\ r \in Seq(Subs)
      /\ n \in Nat /\ n >= 1 /\ n <= Len(r) /\ Len(r) \in Nat
    BY DEF Sliced
<1> HIDE DEF r
<1>2. /\ SubSeq(r, 1, n) \in Seq(Subs) /\ Len(SubSeq(r, 1, n)) = n
      /\ \A k \in 1..n : SubSeq(r, 1, n)[k] = r[k]
    BY <1>1
<1>3. /\ items \in Seq(Subs) /\ Len(items) = n + 1 /\ items[n + 1] = s
      /\ \A k \in 1..n : items[k] = r[k]
    BY <1>1, <1>2
<1> HIDE DEF items
<1>4. CASE Full(n)
  <2>1. /\ Appended(old, s).arrays = Append(arrays, items)
        /\ Appended(old, s).list = List(Len(arrays) + 1, n + 1)
      BY <1>4 DEF Appended, items, r
  <2>2. /\ Append(arrays, items) \in Seq(Seq(Subs))
        /\ Len(Append(arrays, items)) = Len(arrays) + 1
        /\ Append(arrays, items)[Len(arrays) + 1] = items
        /\ \A a \in 1..Len(arrays) : Append(arrays, items)[a] = arrays[a]
      BY <1>1, <1>3
  <2>3. /\ List(Len(arrays) + 1, n + 1) \in ListType
        /\ List(Len(arrays) + 1, n + 1).kind = "list"
        /\ List(Len(arrays) + 1, n + 1).arr = Len(arrays) + 1
        /\ List(Len(arrays) + 1, n + 1).len = n + 1
      BY <1>1 DEF List, ListType
  <2>4. /\ Appended(old, s).arrays \in Seq(Seq(Subs))
        /\ Len(Appended(old, s).arrays) = Len(arrays) + 1
        /\ Appended(old, s).arrays[Len(arrays) + 1] = items
        /\ \A a \in 1..Len(arrays) : Appended(old, s).arrays[a] = arrays[a]
      BY <2>1, <2>2
  <2>5. /\ Appended(old, s).list \in ListType
        /\ Appended(old, s).list.kind = "list"
        /\ Appended(old, s).list.arr = Len(arrays) + 1
        /\ Appended(old, s).list.len = n + 1
      BY <2>1, <2>3
  <2>6. \A k \in 1..n : items[k] = arrays[old.arr][k]
      BY <1>3 DEF r
  <2>7. Appended(old, s).arrays[Appended(old, s).list.arr] = items
      BY <2>4, <2>5
  <2>8. /\ Len(items) = old.len + 1 /\ items[old.len + 1] = s
        /\ Appended(old, s).list.arr \in 1..Len(Appended(old, s).arrays)
        /\ Len(Appended(old, s).arrays) >= Len(arrays)
      BY <1>1, <1>3, <2>4, <2>5
  <2>9. \A a \in 1..Len(arrays) :
          \/ Appended(old, s).arrays[a] = arrays[a]
          \/ /\ a = old.arr /\ Len(Appended(old, s).arrays[a]) = old.len + 1
             /\ \A k \in 1..old.len : Appended(old, s).arrays[a][k] = arrays[a][k]
      BY <2>4
  <2> QED BY <2>4, <2>5, <2>6, <2>7, <2>8, <2>9
<1>5. CASE ~ Full(n)
  <2>1. /\ Appended(old, s).arrays = [arrays EXCEPT ![old.arr] = items]
        /\ Appended(old, s).list = List(old.arr, n + 1)
      BY <1>5 DEF Appended, items, r
  <2>2. /\ [arrays EXCEPT ![old.arr] = items] \in Seq(Seq(Subs))
        /\ Len([arrays EXCEPT ![old.arr] = items]) = Len(arrays)
        /\ [arrays EXCEPT ![old.arr] = items][old.arr] = items
        /\ \A a \in 1..Len(arrays) :
              a # old.arr => [arrays EXCEPT ![old.arr] = items][a] = arrays[a]
      BY <1>1, <1>3
  <2>3. /\ List(old.arr, n + 1) \in ListType
        /\ List(old.arr, n + 1).kind = "list"
        /\ List(old.arr, n + 1).arr = old.arr
        /\ List(old.arr, n + 1).len = n + 1
      BY <1>1 DEF List, ListType
  <2>4. /\ Appended(old, s).arrays \in Seq(Seq(Subs))
        /\ Len(Appended(old, s).arrays) = Len(arrays)
        /\ Appended(old, s).arrays[old.arr] = items
        /\ \A a \in 1..Len(arrays) : a # old.arr => Appended(old, s).arrays[a] = arrays[a]
      BY <2>1, <2>2
  <2>5. /\ Appended(old, s).list \in ListType
        /\ Appended(old, s).list.kind = "list"
        /\ Appended(old, s).list.arr = old.arr
        /\ Appended(old, s).list.len = n + 1
      BY <2>1, <2>3
  <2>6. \A k \in 1..n : items[k] = arrays[old.arr][k]
      BY <1>3 DEF r
  <2>7. Appended(old, s).arrays[Appended(old, s).list.arr] = items
      BY <2>4, <2>5
  <2>8. /\ Len(items) = old.len + 1 /\ items[old.len + 1] = s
        /\ Appended(old, s).list.arr \in 1..Len(Appended(old, s).arrays)
        /\ Len(Appended(old, s).arrays) >= Len(arrays)
      BY <1>1, <1>3, <2>4, <2>5
  <2>9. \A a \in 1..Len(arrays) :
          \/ Appended(old, s).arrays[a] = arrays[a]
          \/ /\ a = old.arr /\ Len(Appended(old, s).arrays[a]) = old.len + 1
             /\ \A k \in 1..old.len : Appended(old, s).arrays[a][k] = arrays[a][k]
      BY <2>4, <2>6, <2>8
  <2> QED BY <2>4, <2>5, <2>6, <2>7, <2>8, <2>9
<1> QED BY <1>4, <1>5

LEMMA Constants ==
    /\ None \in ListType \ {Raw} /\ Raw \in ListType /\ None.kind = "none" /\ Raw.kind = "raw"
    /\ \A l \in ListType : l.kind = "list" \/ l = None \/ l = Raw
    /\ Absent \in ArbType /\ Absent.at = "absent" /\ Absent.sinks = None
    /\ \A a : Sliced(a, None) /\ Sliced(a, Raw)
    /\ \A a : Elements(a, None) = {} /\ Elements(a, Raw) = {}
BY DEF None, Raw, ListType, ArbType, Absent, Over, Sliced, Elements

LEMMA IdleShape ==
    /\ Idle \in WorkerType /\ Idle.at = "idle"
    /\ \A how \in {"crashed", "exited", "stuck"} :
        [Idle EXCEPT !.at = how] \in WorkerType /\ [Idle EXCEPT !.at = how].at = how
BY Constants DEF Idle, WorkerType

LEMMA InitStreamInv == Init => StreamInv
<1> SUFFICES ASSUME Init PROVE StreamInv
    OBVIOUS
<1>1. Typed
  <2>1. worker \in WorkerType /\ worker.at = "idle"
      BY IdleShape DEF Init
  <2> QED BY <2>1, Constants, SetupsAssumption DEF Init, Typed
<1>2. Backing
    BY Constants DEF Init, Backing, Placed, Shorter, Idle
<1>3. Requests
    BY DEF Init, Requests, Idle
<1>4. Quiet
    BY Constants DEF Init, Quiet, SilentAfterUnsubscribe, Absent, Over
<1>5. Arbited
    BY Constants DEF Init, Arbited, SourceOrder
<1> QED BY <1>1, <1>2, <1>3, <1>4, <1>5 DEF StreamInv

-----------------------------------------------------------------------------
(* Steps that leave the registry and the arbiters alone. *)
LEMMA StillKeeps ==
    ASSUME StreamInv, Requests',
           UNCHANGED <<setup, entry, arrays, members, left, arb, sent, offered>>,
           \/ worker' = worker
           \/ worker = Idle /\ worker' \in {[Idle EXCEPT !.at = "crashed"],
                                            [Idle EXCEPT !.at = "exited"]},
           scope' = "open" => scope = "open",
           srcClosed => srcClosed',
           inbox' \in Seq(RequestType),
           asked' \in [Subs -> {"nothing", "subscribe", "unsubscribe", "closed"}]
    PROVE  StreamInv'
<1>0. Typed /\ Backing /\ Requests /\ Quiet /\ Arbited
    BY DEF StreamInv
<1>1. /\ worker' \in WorkerType
      /\ worker' = worker \/ worker'.at \notin {"subscribing", "unsubscribing"}
      /\ worker' = worker \/ worker.at \notin {"subscribing", "unsubscribing"}
    BY <1>0, IdleShape DEF Typed
<1>2. Typed'
    BY <1>0, <1>1 DEF Typed, Arbiters
<1>3. Backing'
    BY <1>0, <1>1 DEF Backing, Arbiters, Shorter, Placed, Sliced
<1>4. Quiet'
    BY <1>0 DEF Quiet, SilentAfterUnsubscribe, Arbiters, Elements
<1>5. Arbited'
  <2>1. Leaving' = Leaving
      BY <1>1 DEF Leaving
  <2> QED BY <1>0, <2>1 DEF Arbited, SourceOrder, Arbiters, Elements
<1> QED BY <1>2, <1>3, <1>4, <1>5 DEF StreamInv

(* What is left of the inbox when the worker has taken a request. *)
LEMMA InboxTail ==
    ASSUME StreamInv, NEW op, Serving(op)
    PROVE  /\ worker = Idle /\ worker.at = "idle"
           /\ Head(inbox).op = op /\ Head(inbox).sub \in Subs /\ Len(inbox) >= 1
           /\ Head(inbox) = inbox[1] /\ Len(inbox) \in Nat
           /\ inbox' \in Seq(RequestType)
           /\ Len(inbox') = Len(inbox) - 1
           /\ \A j \in 1..Len(inbox') : j + 1 \in 1..Len(inbox) /\ inbox'[j] = inbox[j + 1]
           /\ asked[Head(inbox).sub] # "nothing"
           /\ op = "subscribe" => left[Head(inbox).sub] = -1
<1>1. inbox \in Seq(RequestType) /\ inbox # <<>>
    BY DEF StreamInv, Typed, Serving
<1>2. /\ Head(inbox) = inbox[1] /\ Len(inbox) >= 1 /\ Len(inbox) \in Nat
      /\ Head(inbox) \in RequestType
      /\ Tail(inbox) \in Seq(RequestType)
      /\ Len(Tail(inbox)) = Len(inbox) - 1
      /\ \A j \in 1..Len(Tail(inbox)) : j + 1 \in 1..Len(inbox) /\ Tail(inbox)[j] = inbox[j + 1]
    BY <1>1
<1>3. 1 \in 1..Len(inbox)
    BY <1>2
<1>4. /\ asked[inbox[1].sub] # "nothing"
      /\ inbox[1].op = "subscribe" => left[inbox[1].sub] = -1
    BY <1>3 DEF StreamInv, Requests
<1>5. worker = Idle /\ Head(inbox).op = op /\ inbox' = Tail(inbox)
    BY DEF Serving
<1>6. Head(inbox).sub \in Subs
    BY <1>2 DEF RequestType
<1> QED BY <1>2, <1>4, <1>5, <1>6, IdleShape

LEMMA RequestsServed ==
    ASSUME StreamInv, NEW op, Serving(op), UNCHANGED <<asked, left>>,
           worker'.at \in {"subscribing", "unsubscribing"} =>
              /\ worker'.sub = Head(inbox).sub
              /\ worker'.at = "subscribing" => op = "subscribe"
    PROVE  Requests'
<1>0. Requests
    BY DEF StreamInv
<1>1. \A j \in 1..Len(inbox') :
        /\ asked[inbox'[j].sub] # "nothing"
        /\ inbox'[j].op = "subscribe" =>
            /\ left[inbox'[j].sub] = -1
            /\ worker'.at = "unsubscribing" => worker'.sub # inbox'[j].sub
            /\ \A k \in 1..Len(inbox') : k < j => inbox'[k].sub # inbox'[j].sub
  <2> SUFFICES ASSUME NEW j \in 1..Len(inbox')
               PROVE  /\ asked[inbox'[j].sub] # "nothing"
                      /\ inbox'[j].op = "subscribe" =>
                          /\ left[inbox'[j].sub] = -1
                          /\ worker'.at = "unsubscribing" => worker'.sub # inbox'[j].sub
                          /\ \A k \in 1..Len(inbox') : k < j => inbox'[k].sub # inbox'[j].sub
      OBVIOUS
  <2>1. /\ j \in Nat /\ j >= 1 /\ j + 1 \in 1..Len(inbox) /\ inbox'[j] = inbox[j + 1]
        /\ 1 \in 1..Len(inbox) /\ Head(inbox) = inbox[1]
      BY InboxTail
  <2>2. /\ asked[inbox[j + 1].sub] # "nothing"
        /\ inbox[j + 1].op = "subscribe" =>
            /\ left[inbox[j + 1].sub] = -1
            /\ \A k \in 1..Len(inbox) : k < j + 1 => inbox[k].sub # inbox[j + 1].sub
      BY <1>0, <2>1 DEF Requests
  <2>3. ASSUME inbox'[j].op = "subscribe" PROVE Head(inbox).sub # inbox'[j].sub
    <3>1. inbox[j + 1].op = "subscribe" /\ 1 < j + 1
        BY <2>1, <2>3
    <3>2. inbox[1].sub # inbox[j + 1].sub
        BY <2>1, <2>2, <3>1
    <3> QED BY <2>1, <3>2
  <2>4. ASSUME inbox'[j].op = "subscribe", NEW k \in 1..Len(inbox'), k < j
        PROVE  inbox'[k].sub # inbox'[j].sub
    <3>1. k + 1 \in 1..Len(inbox) /\ inbox'[k] = inbox[k + 1] /\ k + 1 < j + 1
        BY <2>1, <2>4, InboxTail
    <3> QED BY <2>1, <2>2, <2>4, <3>1
  <2> QED BY <2>1, <2>2, <2>3, <2>4
<1>2. /\ worker'.at \in {"subscribing", "unsubscribing"} => asked[worker'.sub] # "nothing"
      /\ worker'.at = "subscribing" => left[worker'.sub] = -1
    BY InboxTail
<1>3. \A s \in Subs : left[s] # -1 => asked[s] # "nothing"
    BY <1>0 DEF Requests
<1> QED BY <1>1, <1>2, <1>3 DEF Requests

(* Requests that come to nothing. *)
LEMMA ServedInVain ==
    ASSUME StreamInv, SubscribeCrash \/ SubscribeUncast \/ UnsubscribeNothing
    PROVE  StreamInv'
<1>1. PICK op \in {"subscribe", "unsubscribe"} : Serving(op)
    BY DEF SubscribeCrash, SubscribeUncast, UnsubscribeNothing
<1>2. /\ UNCHANGED <<setup, entry, arrays, members, left, arb, sent, offered>>
      /\ UNCHANGED <<asked, scope, srcClosed>>
      /\ worker' = worker \/ worker' = [Idle EXCEPT !.at = "crashed"]
    BY DEF SubscribeCrash, SubscribeUncast, UnsubscribeNothing, registry, arbiter, channels
<1>3. worker = Idle /\ worker'.at \notin {"subscribing", "unsubscribing"}
    BY <1>1, <1>2, InboxTail, IdleShape
<1>4. Requests'
    BY <1>1, <1>2, <1>3, RequestsServed
<1>5. /\ inbox' \in Seq(RequestType)
      /\ asked' \in [Subs -> {"nothing", "subscribe", "unsubscribe", "closed"}]
    BY <1>1, <1>2, InboxTail DEF StreamInv, Typed
<1> QED BY <1>2, <1>3, <1>4, <1>5, StillKeeps

(* A caller's next request goes to the end of the inbox. *)
LEMMA AskKeeps ==
    ASSUME StreamInv, NEW s \in Subs, Subscribe(s) \/ Unsubscribe(s)
    PROVE  StreamInv'
<1>0. Typed /\ Requests
    BY DEF StreamInv
<1>1. PICK op \in {"subscribe", "unsubscribe"} :
        /\ inbox' = Append(inbox, [op |-> op, sub |-> s])
        /\ asked' = [asked EXCEPT ![s] = op]
        /\ op = "subscribe" => asked[s] = "nothing"
    BY DEF Subscribe, Unsubscribe
<1>2. /\ UNCHANGED <<setup, entry, arrays, members, left, arb, sent, offered>>
      /\ UNCHANGED <<worker, scope, srcClosed>>
    BY DEF Subscribe, Unsubscribe, registry, arbiter, channels
<1> DEFINE m == [op |-> op, sub |-> s]
           n == Len(inbox)
<1>3. m \in RequestType /\ m.op = op /\ m.sub = s
    BY DEF RequestType
<1> HIDE DEF m
<1>4. inbox \in Seq(RequestType) /\ n \in Nat
    BY <1>0 DEF Typed
<1>5. /\ inbox' \in Seq(RequestType)
      /\ Len(inbox') = n + 1 /\ inbox'[n + 1] = m
      /\ \A j \in 1..n : inbox'[j] = inbox[j] /\ inbox[j].sub \in Subs
  <2>1. inbox' = Append(inbox, m)
      BY <1>1 DEF m
  <2>2. \A j \in 1..n : inbox[j] \in RequestType
      BY <1>4
  <2> QED BY <1>3, <1>4, <2>1, <2>2 DEF RequestType
<1>6. /\ asked' \in [Subs -> {"nothing", "subscribe", "unsubscribe", "closed"}]
      /\ asked'[s] # "nothing"
      /\ \A r \in Subs : asked[r] # "nothing" => asked'[r] # "nothing"
    BY <1>0, <1>1 DEF Typed
<1>7. \A j \in 1..n :
        /\ asked[inbox[j].sub] # "nothing"
        /\ inbox[j].op = "subscribe" =>
            /\ left[inbox[j].sub] = -1
            /\ worker.at = "unsubscribing" => worker.sub # inbox[j].sub
            /\ \A k \in 1..n : k < j => inbox[k].sub # inbox[j].sub
    BY <1>0 DEF Requests
<1>8. op = "subscribe" =>
        /\ left[s] = -1
        /\ worker.at = "unsubscribing" => worker.sub # s
        /\ \A k \in 1..n : inbox[k].sub # s
    BY <1>0, <1>1, <1>7 DEF Requests
<1> HIDE DEF n
<1>9. Requests'
  <2>1. ASSUME NEW j \in 1..(n + 1)
        PROVE  /\ asked'[inbox'[j].sub] # "nothing"
               /\ inbox'[j].op = "subscribe" =>
                   /\ left[inbox'[j].sub] = -1
                   /\ worker.at = "unsubscribing" => worker.sub # inbox'[j].sub
                   /\ \A k \in 1..(n + 1) : k < j => inbox'[k].sub # inbox'[j].sub
    <3>1. CASE j \in 1..n
      <4>1. inbox'[j] = inbox[j] /\ inbox[j].sub \in Subs
          BY <1>5, <3>1
      <4>2. \A k \in 1..(n + 1) : k < j => k \in 1..n /\ inbox'[k] = inbox[k]
          BY <1>4, <1>5, <3>1
      <4>3. asked'[inbox[j].sub] # "nothing"
          BY <1>6, <1>7, <3>1, <4>1
      <4> QED BY <1>7, <3>1, <4>1, <4>2, <4>3
    <3>2. CASE j = n + 1
      <4>1. \A k \in 1..(n + 1) : k < j => inbox'[k].sub = inbox[k].sub /\ k \in 1..n
          BY <1>4, <1>5, <3>2
      <4>2. inbox'[j].op = op /\ inbox'[j].sub = s
          BY <1>3, <1>5, <3>2
      <4> QED BY <1>6, <1>8, <4>1, <4>2
    <3> QED BY <1>4, <3>1, <3>2
  <2>2. /\ worker.at \in {"subscribing", "unsubscribing"} => asked'[worker.sub] # "nothing"
        /\ worker.at = "subscribing" => left[worker.sub] = -1
        /\ \A r \in Subs : left[r] # -1 => asked'[r] # "nothing"
      BY <1>0, <1>6 DEF Requests, Typed
  <2> QED BY <1>2, <1>5, <2>1, <2>2 DEF Requests
<1> QED BY <1>2, <1>5, <1>6, <1>9, StillKeeps

(* The rest of what happens around them. *)
LEMMA AroundKeeps ==
    ASSUME StreamInv,
           \/ CloseSource \/ (\E s \in Subs : CloseOwnSink(s))
           \/ WorkerExit \/ EndScope \/ Cancel \/ UNCHANGED vars
    PROVE  StreamInv'
<1>0. Typed /\ Requests
    BY DEF StreamInv
<1>1. /\ UNCHANGED <<setup, entry, arrays, members, left, arb, sent, offered, inbox>>
      /\ scope' = "open" => scope = "open"
      /\ srcClosed => srcClosed'
      /\ worker' = worker \/ (worker = Idle /\ worker' = [Idle EXCEPT !.at = "exited"])
    BY DEF CloseSource, CloseOwnSink, WorkerExit, EndScope, Cancel, vars, registry, arbiter,
        channels, outside
<1>2. asked' = asked \/ \E s \in Subs : asked' = [asked EXCEPT ![s] = "closed"]
    BY DEF CloseSource, CloseOwnSink, WorkerExit, EndScope, Cancel, vars, outside
<1>3. /\ asked' \in [Subs -> {"nothing", "subscribe", "unsubscribe", "closed"}]
      /\ \A r \in Subs : asked[r] # "nothing" => asked'[r] # "nothing"
    BY <1>0, <1>2 DEF Typed
<1>4. /\ worker' = worker \/ worker'.at \notin {"subscribing", "unsubscribing"}
      /\ \A j \in 1..Len(inbox) : inbox[j].sub \in Subs
  <2>1. \A j \in 1..Len(inbox) : inbox[j] \in RequestType
      BY <1>0 DEF Typed
  <2> QED BY <1>1, <2>1, IdleShape DEF RequestType
<1>5. Requests'
    BY <1>0, <1>1, <1>3, <1>4 DEF Requests, Typed
<1>6. inbox' \in Seq(RequestType)
    BY <1>0, <1>1 DEF Typed
<1> QED BY <1>1, <1>3, <1>5, <1>6, StillKeeps

-----------------------------------------------------------------------------
(* A step of an arbiter, which keeps the lists and their arrays. *)
LEMMA ArbiterKeeps ==
    ASSUME StreamInv, NEW i \in Arbiters, NEW y \in ArbType,
           arb' = [arb EXCEPT ![i] = y],
           UNCHANGED <<setup, arrays, worker, members, left, sent, srcClosed, inbox,
                       asked, scope>>,
           \/ entry' = entry
           \/ entry' = None /\ y.at = "closing" /\ srcClosed /\ (scope = "open" => i = 1),
           offered' \in [Subs -> Seq(Nat)],
           \A s \in Subs : \A k \in DOMAIN offered'[s] : offered'[s][k] <= sent,
           SilentAfterUnsubscribe', SourceOrder',
           Placed(arrays, y), Shorter(y, entry),
           worker.at = "subscribing" => Shorter(y, worker.old),
           y.msg <= sent,
           y.at = "offering" =>
              \A s \in Elements(arrays, y.sinks) : left[s] # -1 => y.msg <= left[s],
           arb[i] # Absent, y # Absent,
           y.at \in {"loading", "offering"} =>
              arb[i].at \in {"loading", "offering"} /\ y.msg = arb[i].msg,
           y.at = "receiving" => arb[i].at \in {"receiving", "loading", "offering"},
           scope = "open" /\ i # 1 => y.sinks = None
    PROVE  StreamInv'
<1>0. Typed /\ Backing /\ Requests /\ Quiet /\ Arbited
    BY DEF StreamInv
<1>1. /\ arb'[i] = y /\ \A j \in Arbiters : j # i => arb'[j] = arb[j]
      /\ 1 \in Arbiters /\ Arbiters' = Arbiters
    BY <1>0, BoundsAssumption DEF Typed, Arbiters
<1>2. Typed'
  <2>1. arb' \in [Arbiters -> ArbType]
      BY <1>0 DEF Typed
  <2>2. entry' \in ListType
      BY <1>0, Constants DEF Typed
  <2> QED BY <1>0, <1>1, <2>1, <2>2 DEF Typed
<1>3. Backing'
  <2>1. Sliced(arrays, entry') /\ (entry' = entry \/ entry' = None)
      BY <1>0, Constants DEF Backing
  <2>2. \A j \in Arbiters :
          /\ Placed(arrays, arb'[j])
          /\ Shorter(arb'[j], entry)
          /\ worker.at = "subscribing" => Shorter(arb'[j], worker.old)
      BY <1>0, <1>1 DEF Backing
  <2>3. \A j \in Arbiters : Shorter(arb'[j], entry')
      BY <2>1, <2>2, Constants DEF Shorter
  <2>4. worker.at \in {"subscribing", "unsubscribing"} =>
          /\ worker.old.kind = "list" /\ Sliced(arrays, worker.old)
          /\ entry' \in {worker.old, None}
      BY <1>0, <2>1 DEF Backing
  <2> QED BY <1>1, <2>1, <2>2, <2>3, <2>4 DEF Backing
<1>4. Requests'
    BY <1>0 DEF Requests
<1>5. Quiet'
  <2>1. \A s \in Elements(arrays, entry') : left[s] = -1
      BY <1>0, Constants DEF Quiet
  <2>2. \A j \in Arbiters :
          /\ arb'[j].msg <= sent
          /\ arb'[j].at = "offering" =>
              \A s \in Elements(arrays, arb'[j].sinks) : left[s] # -1 => arb'[j].msg <= left[s]
    <3>1. \A j \in Arbiters :
          /\ arb[j].msg <= sent
          /\ arb[j].at = "offering" =>
              \A s \in Elements(arrays, arb[j].sinks) : left[s] # -1 => arb[j].msg <= left[s]
        BY <1>0 DEF Quiet
    <3> QED BY <1>1, <3>1
  <2> QED BY <1>1, <2>1, <2>2 DEF Quiet
<1>6. Arbited'
  <2>1. \A j \in Arbiters : arb'[j] # Absent => arb'[1] # Absent
      BY <1>0, <1>1 DEF Arbited
  <2>2. ASSUME scope = "open", NEW j \in Arbiters
        PROVE  /\ arb'[j].at \in {"loading", "offering"} => j = 1 /\ arb'[j].msg = sent
               /\ j # 1 /\ arb'[j] # Absent => srcClosed /\ arb'[j].sinks = None
               /\ j = 1 /\ arb'[j].at \in {"receiving", "loading", "offering"} =>
                     /\ entry' # None
                     /\ entry'.kind = "list" =>
                           Elements(arrays, entry') \subseteq members
                               /\ members \ Leaving \subseteq Elements(arrays, entry')
               /\ j = 1 /\ entry' = None /\ arb'[j] = Absent => members = {}
               /\ entry' = None /\ ~ srcClosed => arb'[j] = Absent
    <3>1. \A h \in Arbiters :
            /\ arb[h].at \in {"loading", "offering"} => h = 1 /\ arb[h].msg = sent
            /\ h # 1 /\ arb[h] # Absent => srcClosed /\ arb[h].sinks = None
            /\ h = 1 /\ arb[h].at \in {"receiving", "loading", "offering"} =>
                  /\ entry # None
                  /\ entry.kind = "list" =>
                        Elements(arrays, entry) \subseteq members
                            /\ members \ Leaving \subseteq Elements(arrays, entry)
            /\ h = 1 /\ entry = None /\ arb[h] = Absent => members = {}
            /\ entry = None /\ ~ srcClosed => arb[h] = Absent
        BY <1>0, <2>2 DEF Arbited
    <3>2. CASE j = i
      <4>1. arb'[j] = y
          BY <1>1, <3>2
      <4>2. y.at \in {"receiving", "loading", "offering"} => entry' = entry
          OBVIOUS
      <4>3. entry' = None /\ ~ srcClosed => FALSE
          BY <3>1
      <4> QED BY <2>2, <3>1, <3>2, <4>1, <4>2, <4>3
    <3>3. CASE j # i
      <4>1. arb'[j] = arb[j]
          BY <1>1, <3>3
      <4>2. j = 1 => entry' = entry
          BY <2>2, <3>3
      <4>3. entry' = None /\ ~ srcClosed => entry = None
          OBVIOUS
      <4> QED BY <3>1, <4>1, <4>2, <4>3
    <3> QED BY <3>2, <3>3
  <2>3. Leaving' = Leaving
      BY DEF Leaving
  <2> QED BY <1>1, <2>1, <2>2, <2>3 DEF Arbited
<1> QED BY <1>2, <1>3, <1>4, <1>5, <1>6 DEF StreamInv

(* What the entry's arbiter is when it acts. *)
LEMMA ArbiterIs ==
    ASSUME StreamInv, NEW i \in Arbiters
    PROVE  /\ arb[i] \in ArbType /\ arb[i].sinks \in ListType \ {Raw} /\ arb[i].cursor \in Nat
           /\ arb[i].msg \in Nat /\ Placed(arrays, arb[i]) /\ Sliced(arrays, arb[i].sinks)
           /\ arb[i].at # "absent" => arb[i] # Absent
           /\ scope = "open" /\ i # 1 => arb[i].sinks = None
           /\ Shorter(arb[i], entry)
           /\ worker.at = "subscribing" => Shorter(arb[i], worker.old)
           /\ arb[i].msg <= sent
           /\ arb[i].at = "offering" => \A s \in Elements(arrays, arb[i].sinks) :
                  left[s] # -1 => arb[i].msg <= left[s]
<1>1. arb[i] \in ArbType
    BY DEF StreamInv, Typed
<1>2. arb[i].sinks \in ListType \ {Raw} /\ arb[i].cursor \in Nat /\ arb[i].msg \in Nat
    BY <1>1 DEF ArbType
<1>3. scope = "open" /\ i # 1 => arb[i].sinks = None
    BY Constants DEF StreamInv, Arbited
<1>4. Placed(arrays, arb[i]) /\ Sliced(arrays, arb[i].sinks)
    BY DEF StreamInv, Backing, Placed
<1> QED BY <1>1, <1>2, <1>3, <1>4, Constants DEF StreamInv, Backing, Quiet

(* An arbiter that is over has no list. *)
LEMMA OverKeeps ==
    ASSUME StreamInv, NEW i \in Arbiters,
           NEW how \in {"ended", "panicked", "recovered"}, arb[i].at # "absent",
           arb' = [arb EXCEPT ![i] = Over(how)],
           UNCHANGED <<setup, entry, arrays, worker, members, left, sent, srcClosed,
                       inbox, asked, scope, offered>>
    PROVE  StreamInv'
<1>0. Typed /\ Quiet /\ Arbited
    BY DEF StreamInv
<1>1. /\ Over(how) \in ArbType /\ Over(how).at = how /\ Over(how).sinks = None
      /\ Over(how).msg = 0 /\ Over(how) # Absent
    BY Constants DEF Over, ArbType, Absent
<1>2. /\ Placed(arrays, Over(how)) /\ Shorter(Over(how), entry)
      /\ Shorter(Over(how), worker.old)
    BY <1>1, Constants DEF Placed, Shorter
<1>3. offered' \in [Subs -> Seq(Nat)] /\ 0 <= sent
    BY <1>0 DEF Typed
<1>4. /\ \A s \in Subs : \A k \in DOMAIN offered'[s] : offered'[s][k] <= sent
      /\ SilentAfterUnsubscribe' /\ SourceOrder'
    BY <1>0 DEF Quiet, Arbited, SilentAfterUnsubscribe, SourceOrder
<1> HIDE DEF Over
<1> QED BY <1>1, <1>2, <1>3, <1>4, ArbiterIs, ArbiterKeeps

LEMMA SourceEndsKeeps ==
    ASSUME StreamInv, NEW i \in Arbiters, SourceEnds(i)
    PROVE  StreamInv'
<1>0. Typed /\ Quiet /\ Arbited
    BY DEF StreamInv
<1>1. /\ arb[i].at = "receiving" /\ srcClosed
      /\ UNCHANGED <<setup, arrays, worker, members, left, sent, srcClosed, inbox,
                     asked, scope, offered>>
    BY DEF SourceEnds, channels, outside
<1>2. CASE ~ (arb[i].sinks # None /\ entry = arb[i].sinks)
  <2>1. entry' = entry /\ arb' = [arb EXCEPT ![i] = Over("ended")]
      BY <1>2 DEF SourceEnds
  <2> QED BY <1>1, <2>1, OverKeeps
<1>3. CASE arb[i].sinks # None /\ entry = arb[i].sinks
  <2> DEFINE y == [arb[i] EXCEPT !.at = "closing", !.cursor = 1]
  <2>1. entry' = None /\ arb' = [arb EXCEPT ![i] = y]
      BY <1>3 DEF SourceEnds
  <2>2. /\ y \in ArbType /\ y.at = "closing" /\ y.cursor = 1 /\ y.sinks = arb[i].sinks
        /\ y.msg = arb[i].msg
      BY ArbiterIs DEF ArbType
  <2> HIDE DEF y
  <2>3. y # Absent
      BY <2>2, Constants
  <2>4. arb[i].sinks.kind = "list"
      BY <1>3, ArbiterIs, Constants
  <2>5. /\ Placed(arrays, y) /\ Shorter(y, entry)
        /\ worker.at = "subscribing" => Shorter(y, worker.old)
      BY <2>2, <2>4, ArbiterIs DEF Placed, Shorter, Sliced
  <2>6. scope = "open" => i = 1
      BY <1>3, ArbiterIs
  <2>7. offered' \in [Subs -> Seq(Nat)]
      BY <1>0, <1>1 DEF Typed
  <2>8. /\ \A s \in Subs : \A k \in DOMAIN offered'[s] : offered'[s][k] <= sent
        /\ SilentAfterUnsubscribe' /\ SourceOrder'
      BY <1>0, <1>1 DEF Quiet, Arbited, SilentAfterUnsubscribe, SourceOrder
  <2>9. arb[i] # Absent
      BY <1>1, ArbiterIs
  <2>10. y.msg <= sent
      BY <2>2, ArbiterIs
  <2> QED BY <1>1, <2>1, <2>2, <2>3, <2>5, <2>6, <2>7, <2>8, <2>9, <2>10, ArbiterKeeps
<1> QED BY <1>2, <1>3

(* Nothing is offered. *)
LEMMA NotOffered ==
    ASSUME StreamInv, UNCHANGED <<sent, left, scope, offered>>
    PROVE  /\ offered' \in [Subs -> Seq(Nat)]
           /\ \A s \in Subs : \A k \in DOMAIN offered'[s] : offered'[s][k] <= sent
           /\ SilentAfterUnsubscribe' /\ SourceOrder'
BY DEF StreamInv, Typed, Quiet, Arbited, SilentAfterUnsubscribe, SourceOrder

LEMMA ReloadKeeps ==
    ASSUME StreamInv, NEW i \in Arbiters, Reload(i)
    PROVE  StreamInv'
<1>0. Typed /\ Backing /\ Quiet /\ arrays \in Seq(Seq(Subs)) /\ entry \in ListType
    BY DEF StreamInv, Typed
<1>1. /\ arb[i].at = "loading" /\ arb[i] # Absent
      /\ UNCHANGED <<setup, entry, arrays, worker, members, left, sent, srcClosed, inbox,
                     asked, scope, offered>>
    BY ArbiterIs DEF Reload, registry, channels, outside
<1> DEFINE idle == Registered(entry) = <<>>
           y == [arb[i] EXCEPT !.at = IF idle THEN "receiving" ELSE "offering",
                               !.sinks = IF entry.kind = "list" THEN entry ELSE None,
                               !.cursor = IF idle THEN 0 ELSE 1,
                               !.msg = IF idle THEN 0 ELSE arb[i].msg]
<1>2. arb' = [arb EXCEPT ![i] = y]
    BY <1>0 DEF Reload, Typed, ArbType
<1>3. Sliced(arrays, entry) /\ (idle <=> entry.kind # "list")
    BY <1>0, RegisteredElements DEF Backing
<1>4. /\ y.at = (IF idle THEN "receiving" ELSE "offering")
      /\ y.sinks = (IF entry.kind = "list" THEN entry ELSE None)
      /\ y.cursor = (IF idle THEN 0 ELSE 1)
      /\ y.msg = (IF idle THEN 0 ELSE arb[i].msg)
      /\ y \in [at : {"receiving", "offering"}, sinks : {y.sinks}, cursor : {0, 1},
                msg : {0, arb[i].msg}]
    BY ArbiterIs DEF ArbType
<1> HIDE DEF idle, y
<1>5. y.sinks \in ListType \ {Raw}
    BY <1>0, <1>4, Constants
<1>6. y \in ArbType /\ y # Absent
    BY <1>4, <1>5, ArbiterIs, Constants DEF ArbType
<1>7. /\ Placed(arrays, y) /\ Shorter(y, entry)
      /\ worker.at = "subscribing" => Shorter(y, worker.old)
  <2>1. CASE entry.kind = "list"
    <3>1. y.sinks = entry /\ y.cursor = 1 /\ entry.len >= 1 /\ entry.len \in Nat
        BY <1>3, <1>4, <2>1 DEF Sliced
    <3>2. worker.at = "subscribing" => entry \in {worker.old, None}
        BY <1>0 DEF Backing
    <3> QED BY <1>3, <2>1, <3>1, <3>2, Constants DEF Placed, Shorter
  <2>2. CASE entry.kind # "list"
      BY <1>3, <1>4, <2>2, Constants DEF Placed, Shorter
  <2> QED BY <2>1, <2>2
<1>8. y.at = "offering" => \A s \in Elements(arrays, y.sinks) : left[s] # -1 => y.msg <= left[s]
    BY <1>0, <1>3, <1>4 DEF Quiet
<1>9. y.msg <= sent
    BY <1>0, <1>4, ArbiterIs DEF Typed
<1>10. scope = "open" /\ i # 1 => FALSE
    BY <1>1 DEF StreamInv, Arbited
<1>11. y.at = "offering" => y.msg = arb[i].msg
    BY <1>4
<1>12. y.at \in {"receiving", "offering"}
    BY <1>4
<1> QED BY <1>1, <1>2, <1>6, <1>7, <1>8, <1>9, <1>10, <1>11, <1>12, NotOffered, ArbiterKeeps

(* The one that is offered or closed next is an element of the list. *)
LEMMA CurrentShape ==
    ASSUME StreamInv, NEW i \in Arbiters, arb[i].at \in {"offering", "closing"}
    PROVE  /\ arb[i].sinks.kind = "list" /\ arb[i].cursor \in 1..arb[i].sinks.len
           /\ arb[i].sinks.len \in Nat
           /\ Current(i) \in Elements(arrays, arb[i].sinks) /\ Current(i) \in Subs
<1>1. /\ arb[i].sinks.kind = "list" /\ arb[i].cursor \in 1..arb[i].sinks.len
      /\ arb[i].sinks \in ListType /\ Sliced(arrays, arb[i].sinks)
    BY ArbiterIs DEF Placed
<1>2. Current(i) \in Elements(arrays, arb[i].sinks)
    BY <1>1 DEF Current, Elements
<1>3. Elements(arrays, arb[i].sinks) \subseteq Subs
    BY <1>1, RegisteredElements DEF StreamInv, Typed
<1>4. arb[i].sinks.len \in Nat
    BY <1>1 DEF Sliced
<1> QED BY <1>1, <1>2, <1>3, <1>4

(* The arbiter goes on to the next element, or is through with the list. *)
LEMMA AdvancedShape ==
    ASSUME StreamInv, NEW i \in Arbiters, arb[i].at \in {"offering", "closing"},
           NEW end \in {"receiving", "ended"}
    PROVE  LET y == Advanced(i, end)
           IN  \/ end = "ended" /\ y = Over("ended")
               \/ /\ y \in ArbType /\ y # Absent /\ y.sinks = arb[i].sinks
                  /\ y.at \in {"receiving", arb[i].at}
                  /\ y.at = "receiving" => arb[i].at = "offering" \/ end = "receiving"
                  /\ y.msg = arb[i].msg \/ (y.at = "receiving" /\ y.msg = 0)
                  /\ y.at # "receiving" => y.msg = arb[i].msg
                  /\ Placed(arrays, y)
<1>1. /\ arb[i].sinks.kind = "list" /\ arb[i].cursor \in 1..arb[i].sinks.len
      /\ arb[i].sinks.len \in Nat /\ arb[i] \in ArbType
    BY CurrentShape, ArbiterIs
<1>2. CASE arb[i].cursor = arb[i].sinks.len /\ end = "ended"
    BY <1>2 DEF Advanced
<1>3. CASE arb[i].cursor = arb[i].sinks.len /\ end = "receiving"
  <2> DEFINE y == [arb[i] EXCEPT !.at = "receiving", !.cursor = 0, !.msg = 0]
  <2>1. Advanced(i, end) = y
      BY <1>3 DEF Advanced
  <2>2. y \in ArbType /\ y.at = "receiving" /\ y.msg = 0 /\ y.sinks = arb[i].sinks
      BY <1>1 DEF ArbType
  <2> HIDE DEF y
  <2>3. Placed(arrays, y) /\ y # Absent
      BY <2>2, ArbiterIs, Constants DEF Placed
  <2> QED BY <1>3, <2>1, <2>2, <2>3
<1>4. CASE arb[i].cursor # arb[i].sinks.len
  <2> DEFINE y == [arb[i] EXCEPT !.cursor = arb[i].cursor + 1]
  <2>1. Advanced(i, end) = y
      BY <1>4 DEF Advanced
  <2>2. /\ arb[i].cursor + 1 \in Nat /\ arb[i].cursor + 1 \in 1..arb[i].sinks.len
      BY <1>1, <1>4
  <2>3. /\ y \in ArbType /\ y.at = arb[i].at /\ y.msg = arb[i].msg
        /\ y.sinks = arb[i].sinks /\ y.cursor = arb[i].cursor + 1
      BY <1>1, <2>2 DEF ArbType
  <2> HIDE DEF y
  <2>4. Placed(arrays, y) /\ y # Absent
      BY <1>1, <2>2, <2>3, ArbiterIs, Constants DEF Placed
  <2> QED BY <2>1, <2>3, <2>4
<1> QED BY <1>2, <1>3, <1>4

LEMMA CloseSinksKeeps ==
    ASSUME StreamInv, NEW i \in Arbiters, CloseSinks(i)
    PROVE  StreamInv'
<1>1. /\ arb[i].at = "closing"
      /\ UNCHANGED <<setup, entry, arrays, worker, members, left, sent, srcClosed,
                     inbox, asked, scope, offered>>
      /\ \/ arb' = [arb EXCEPT ![i] = Over("recovered")]
         \/ arb' = [arb EXCEPT ![i] = Advanced(i, "ended")]
    BY DEF CloseSinks, registry, outside
<1>2. CASE arb' = [arb EXCEPT ![i] = Over("recovered")]
    BY <1>1, <1>2, OverKeeps
<1>3. CASE arb' = [arb EXCEPT ![i] = Advanced(i, "ended")]
  <2> DEFINE y == Advanced(i, "ended")
  <2>1. CASE y = Over("ended")
      BY <1>1, <1>3, <2>1, OverKeeps
  <2>2. CASE y # Over("ended")
    <3>1. /\ y \in ArbType /\ y # Absent /\ y.sinks = arb[i].sinks
          /\ y.at = "closing" /\ y.msg = arb[i].msg /\ Placed(arrays, y)
        BY <1>1, <2>2, AdvancedShape
    <3> HIDE DEF y
    <3>2. /\ Shorter(y, entry)
          /\ worker.at = "subscribing" => Shorter(y, worker.old)
          /\ y.msg <= sent /\ arb[i] # Absent
          /\ scope = "open" /\ i # 1 => y.sinks = None
        BY <1>1, <3>1, ArbiterIs DEF Shorter
    <3>3. arb' = [arb EXCEPT ![i] = y]
        BY <1>3 DEF y
    <3> QED BY <1>1, <3>1, <3>2, <3>3, NotOffered, ArbiterKeeps
  <2> QED BY <2>1, <2>2
<1> QED BY <1>1, <1>2, <1>3

(* The message offered is the last one the source has delivered, as long   *)
(* as the scope is open, and came before the subscriber left, if he has.   *)
LEMMA OfferKeeps ==
    ASSUME StreamInv, NEW i \in Arbiters, Offer(i)
    PROVE  StreamInv'
<1>0. Typed /\ Quiet /\ Arbited
    BY DEF StreamInv
<1> DEFINE c == Current(i)
           m == arb[i].msg
           y == Advanced(i, "receiving")
<1>1. /\ arb[i].at = "offering"
      /\ UNCHANGED <<setup, entry, arrays, worker, members, left, sent, srcClosed,
                     inbox, asked, scope>>
      /\ offered' = [offered EXCEPT ![c] = Append(offered[c], m)]
      /\ arb' = [arb EXCEPT ![i] = y]
    BY DEF Offer, registry, channels, outside
<1>2. /\ c \in Subs /\ c \in Elements(arrays, arb[i].sinks) /\ m \in Nat /\ m <= sent
      /\ left[c] # -1 => m <= left[c]
      /\ arb[i] # Absent
      /\ scope = "open" => m = sent
    BY <1>0, <1>1, CurrentShape, ArbiterIs DEF Arbited
<1>3. /\ y \in ArbType /\ y # Absent /\ y.sinks = arb[i].sinks
      /\ y.at \in {"receiving", "offering"} /\ Placed(arrays, y)
      /\ y.at = "receiving" => y.msg = m \/ y.msg = 0
      /\ y.at # "receiving" => y.msg = m
    BY <1>1, AdvancedShape
<1> HIDE DEF y, c
<1>4. /\ Shorter(y, entry)
      /\ worker.at = "subscribing" => Shorter(y, worker.old)
      /\ scope = "open" /\ i # 1 => y.sinks = None
      /\ y.at = "offering" =>
            \A s \in Elements(arrays, y.sinks) : left[s] # -1 => y.msg <= left[s]
    BY <1>1, <1>3, ArbiterIs DEF Shorter
<1>5. y.msg <= sent
    BY <1>0, <1>2, <1>3 DEF Typed
<1>6. /\ \A s \in Subs : offered[s] \in Seq(Nat) /\ Len(offered[s]) \in Nat
      /\ offered'[c] = Append(offered[c], m) /\ Len(offered'[c]) = Len(offered[c]) + 1
      /\ DOMAIN offered'[c] = 1..(Len(offered[c]) + 1) /\ DOMAIN offered[c] = 1..Len(offered[c])
      /\ offered'[c][Len(offered[c]) + 1] = m
      /\ \A k \in DOMAIN offered[c] : offered'[c][k] = offered[c][k]
      /\ \A s \in Subs : s # c => offered'[s] = offered[s]
      /\ offered' \in [Subs -> Seq(Nat)]
    BY <1>0, <1>1, <1>2 DEF Typed
<1>7. \A k \in DOMAIN offered'[c] :
        (k \in DOMAIN offered[c] /\ offered'[c][k] = offered[c][k])
            \/ (k = Len(offered[c]) + 1 /\ offered'[c][k] = m)
    BY <1>2, <1>6
<1>8. \A s \in Subs : \A k \in DOMAIN offered'[s] : offered'[s][k] <= sent
    BY <1>0, <1>2, <1>6, <1>7 DEF Quiet
<1>9. SilentAfterUnsubscribe'
  <2>1. ASSUME NEW s \in Subs, left[s] # -1, NEW k \in DOMAIN offered'[s]
        PROVE  offered'[s][k] <= left[s]
    <3>1. \A h \in DOMAIN offered[s] : offered[s][h] <= left[s]
        BY <1>0, <2>1 DEF Quiet, SilentAfterUnsubscribe
    <3> QED BY <1>2, <1>6, <1>7, <2>1, <3>1
  <2> QED BY <1>1, <2>1 DEF SilentAfterUnsubscribe
<1>10. SourceOrder'
  <2>1. ASSUME scope = "open", NEW s \in Subs, NEW j \in DOMAIN offered'[s],
               NEW k \in DOMAIN offered'[s], j < k
        PROVE  offered'[s][j] <= offered'[s][k]
    <3>1. \A g, h \in DOMAIN offered[s] : g < h => offered[s][g] <= offered[s][h]
        BY <1>0, <2>1 DEF Arbited, SourceOrder
    <3>2. CASE s # c
        BY <1>6, <2>1, <3>1, <3>2
    <3>3. CASE s = c
      <4>1. j \in DOMAIN offered[c] /\ offered'[c][j] = offered[c][j]
          BY <1>2, <1>6, <2>1, <3>3
      <4>2. CASE k \in DOMAIN offered[c]
          BY <1>6, <2>1, <3>1, <3>3, <4>1, <4>2
      <4>3. CASE k = Len(offered[c]) + 1
        <5>1. offered'[c][k] = m /\ m = sent
            BY <1>2, <1>6, <2>1, <4>3
        <5>2. offered[c][j] <= sent
            BY <1>0, <1>2, <4>1 DEF Quiet
        <5> QED BY <3>3, <4>1, <5>1, <5>2
      <4> QED BY <1>7, <2>1, <3>3, <4>2, <4>3
    <3> QED BY <3>2, <3>3
  <2> QED BY <1>1, <2>1 DEF SourceOrder
<1> HIDE DEF m
<1>11. y.at = "offering" => y.msg = m /\ m = arb[i].msg
    BY <1>3 DEF m
<1> QED BY <1>1, <1>2, <1>3, <1>4, <1>5, <1>6, <1>8, <1>9, <1>10, <1>11, ArbiterKeeps

LEMMA InterruptedKeeps ==
    ASSUME StreamInv, NEW i \in Arbiters, OfferPanic(i) \/ Interrupted(i)
    PROVE  StreamInv'
<1>1. PICK how \in {"ended", "panicked", "recovered"} : arb' = [arb EXCEPT ![i] = Over(how)]
    BY DEF OfferPanic, Interrupted
<1>2. /\ arb[i].at # "absent"
      /\ UNCHANGED <<setup, entry, arrays, worker, members, left, sent, srcClosed,
                     inbox, asked, scope, offered>>
    BY DEF OfferPanic, Interrupted, registry, channels, outside
<1> QED BY <1>1, <1>2, OverKeeps

(* The source delivers while it is open, in an open scope to one arbiter. *)
LEMMA ReceiveKeeps ==
    ASSUME StreamInv, NEW i \in Arbiters, Receive(i)
    PROVE  StreamInv'
<1>0. Typed /\ Backing /\ Requests /\ Quiet /\ Arbited
    BY DEF StreamInv
<1> DEFINE y == [arb[i] EXCEPT !.at = "loading", !.msg = sent + 1]
<1>1. /\ arb[i].at = "receiving" /\ ~ srcClosed /\ sent' = sent + 1
      /\ arb' = [arb EXCEPT ![i] = y]
      /\ UNCHANGED <<setup, entry, arrays, worker, members, left, srcClosed, inbox,
                     asked, scope, offered>>
    BY DEF Receive, registry, channels, outside
<1>2. sent \in Nat /\ sent + 1 \in Nat
    BY <1>0 DEF Typed
<1>3. /\ y \in ArbType /\ y.at = "loading" /\ y.msg = sent + 1
      /\ y.sinks = arb[i].sinks
    BY <1>2, ArbiterIs DEF ArbType
<1> HIDE DEF y
<1>4. y # Absent /\ arb[i] # Absent
    BY <1>1, <1>3, Constants, ArbiterIs
<1>5. /\ arb'[i] = y /\ \A j \in Arbiters : j # i => arb'[j] = arb[j]
      /\ 1 \in Arbiters /\ Arbiters' = Arbiters
    BY <1>0, <1>1, BoundsAssumption DEF Typed, Arbiters
<1>6. Typed'
  <2>1. arb' \in [Arbiters -> ArbType]
      BY <1>0, <1>1, <1>3 DEF Typed
  <2> QED BY <1>0, <1>1, <1>2, <1>5, <2>1 DEF Typed
<1>7. Backing'
  <2>1. Placed(arrays, y) /\ Shorter(y, entry)
        /\ (worker.at = "subscribing" => Shorter(y, worker.old))
      BY <1>3, ArbiterIs DEF Placed, Shorter
  <2> QED BY <1>0, <1>1, <1>5, <2>1 DEF Backing
<1>8. Requests'
    BY <1>0, <1>1 DEF Requests
<1>9. Quiet'
  <2>1. \A j \in Arbiters :
          /\ arb[j].msg <= sent /\ arb[j].msg \in Nat
          /\ arb[j].at = "offering" =>
              \A s \in Elements(arrays, arb[j].sinks) : left[s] # -1 => arb[j].msg <= left[s]
      BY ArbiterIs
  <2>2. \A j \in Arbiters :
          /\ arb'[j].msg <= sent + 1
          /\ arb'[j].at = "offering" =>
              \A s \in Elements(arrays, arb'[j].sinks) : left[s] # -1 => arb'[j].msg <= left[s]
      BY <1>2, <1>3, <1>5, <2>1
  <2>3. \A s \in Subs : \A k \in DOMAIN offered[s] : offered[s][k] <= sent + 1
    <3>1. \A s \in Subs : \A k \in DOMAIN offered[s] : offered[s][k] \in Nat
        BY <1>0 DEF Typed
    <3>2. \A s \in Subs : \A k \in DOMAIN offered[s] : offered[s][k] <= sent
        BY <1>0 DEF Quiet
    <3> QED BY <1>2, <3>1, <3>2
  <2> QED BY <1>0, <1>1, <1>5, <2>2, <2>3 DEF Quiet, SilentAfterUnsubscribe
<1>10. Arbited'
  <2>1. \A j \in Arbiters : arb'[j] # Absent => arb'[1] # Absent
      BY <1>0, <1>4, <1>5 DEF Arbited
  <2>2. ASSUME scope = "open", NEW j \in Arbiters
        PROVE  /\ arb'[j].at \in {"loading", "offering"} => j = 1 /\ arb'[j].msg = sent + 1
               /\ j # 1 /\ arb'[j] # Absent => srcClosed /\ arb'[j].sinks = None
               /\ j = 1 /\ arb'[j].at \in {"receiving", "loading", "offering"} =>
                     /\ entry # None
                     /\ entry.kind = "list" =>
                           Elements(arrays, entry) \subseteq members
                               /\ members \ Leaving \subseteq Elements(arrays, entry)
               /\ j = 1 /\ entry = None /\ arb'[j] = Absent => members = {}
               /\ entry = None /\ ~ srcClosed => arb'[j] = Absent
    <3>1. \A h \in Arbiters :
            /\ arb[h].at \in {"loading", "offering"} => h = 1
            /\ h # 1 /\ arb[h] # Absent => srcClosed
            /\ h = 1 /\ arb[h].at \in {"receiving", "loading", "offering"} =>
                  /\ entry # None
                  /\ entry.kind = "list" =>
                        Elements(arrays, entry) \subseteq members
                            /\ members \ Leaving \subseteq Elements(arrays, entry)
        BY <1>0, <2>2 DEF Arbited
    <3>2. i = 1 /\ entry # None
        BY <1>1, <1>4, <3>1
    <3>3. CASE j = 1
        BY <1>1, <1>3, <1>4, <1>5, <3>1, <3>2, <3>3
    <3>4. CASE j # 1
        BY <1>1, <1>5, <3>1, <3>2, <3>4
    <3> QED BY <3>3, <3>4
  <2>3. Leaving' = Leaving
      BY <1>1 DEF Leaving
  <2> QED BY <1>0, <1>1, <1>5, <2>1, <2>2, <2>3 DEF Arbited, SourceOrder
<1> QED BY <1>6, <1>7, <1>8, <1>9, <1>10 DEF StreamInv

-----------------------------------------------------------------------------
(* Steps of the worker that change the registry, and its teardown.         *)
LEMMA ClearRegistryKeeps ==
    ASSUME StreamInv, ClearRegistry
    PROVE  StreamInv'
<1>0. Typed /\ Backing /\ Requests /\ Quiet /\ Arbited
    BY DEF StreamInv
<1>1. /\ entry' = None /\ scope' = "cleared"
      /\ UNCHANGED <<setup, arrays, worker, members, left, arb, sent, offered, inbox,
                     asked>>
    BY DEF ClearRegistry, arbiter
<1>2. Arbiters' = Arbiters
    BY DEF Arbiters
<1>3. Typed'
    BY <1>0, <1>1, <1>2, Constants DEF Typed
<1>4. Backing'
  <2>1. \A j \in Arbiters : Shorter(arb[j], None)
      BY Constants DEF Shorter
  <2> QED BY <1>0, <1>1, <1>2, <2>1, Constants DEF Backing
<1>5. Requests'
    BY <1>0, <1>1 DEF Requests
<1>6. Quiet'
    BY <1>0, <1>1, <1>2, Constants DEF Quiet, SilentAfterUnsubscribe
<1>7. Arbited'
    BY <1>0, <1>1, <1>2 DEF Arbited, SourceOrder
<1> QED BY <1>3, <1>4, <1>5, <1>6, <1>7 DEF StreamInv

(* The worker puts its hand on a list. *)
LEMMA SubscribeLoadKeeps ==
    ASSUME StreamInv, SubscribeLoad
    PROVE  StreamInv'
<1>0. Typed /\ Backing /\ Requests /\ Quiet /\ Arbited
    BY DEF StreamInv
<1>1. /\ Serving("subscribe") /\ entry.kind = "list"
      /\ worker' = [at |-> "subscribing", sub |-> Head(inbox).sub, old |-> entry]
      /\ UNCHANGED <<setup, entry, arrays, members, left, arb, sent, offered, srcClosed,
                     asked, scope>>
    BY DEF SubscribeLoad, arbiter, channels
<1>2. /\ worker.at = "idle" /\ Head(inbox).sub \in Subs /\ inbox' \in Seq(RequestType)
    BY <1>1, InboxTail
<1>3. /\ worker'.at = "subscribing" /\ worker'.sub = Head(inbox).sub
      /\ worker'.old = entry
    BY <1>1
<1>4. worker' \in WorkerType
    BY <1>0, <1>1, <1>2 DEF Typed, WorkerType
<1>5. Arbiters' = Arbiters
    BY DEF Arbiters
<1>6. Typed'
    BY <1>0, <1>1, <1>2, <1>3, <1>4, <1>5 DEF Typed
<1>7. Backing'
    BY <1>0, <1>1, <1>3, <1>5 DEF Backing
<1>8. Requests'
    BY <1>1, <1>3, RequestsServed
<1>9. Quiet'
    BY <1>0, <1>1, <1>5 DEF Quiet, SilentAfterUnsubscribe
<1>10. Arbited'
  <2>1. Leaving' = {} /\ Leaving = {}
      BY <1>2, <1>3 DEF Leaving
  <2> QED BY <1>0, <1>1, <1>5, <2>1 DEF Arbited, SourceOrder
<1> QED BY <1>6, <1>7, <1>8, <1>9, <1>10 DEF StreamInv

(* The first list of an entry, with an array of its own. *)
LEMMA FirstList ==
    ASSUME StreamInv, NEW s \in Subs,
           arrays' = Append(arrays, <<s>>), entry' = List(Len(arrays) + 1, 1)
    PROVE  /\ arrays' \in Seq(Seq(Subs)) /\ entry' \in ListType /\ entry'.kind = "list"
           /\ entry' # None
           /\ Sliced(arrays', entry') /\ Elements(arrays', entry') = {s}
           /\ \A i \in Arbiters :
                /\ Placed(arrays', arb[i]) /\ Shorter(arb[i], entry')
                /\ Elements(arrays', arb[i].sinks) = Elements(arrays, arb[i].sinks)
<1>0. arrays \in Seq(Seq(Subs)) /\ Len(arrays) \in Nat /\ <<s>> \in Seq(Subs)
    BY DEF StreamInv, Typed
<1>1. /\ arrays' \in Seq(Seq(Subs)) /\ Len(arrays') = Len(arrays) + 1
      /\ arrays'[Len(arrays) + 1] = <<s>>
      /\ \A a \in 1..Len(arrays) : arrays'[a] = arrays[a]
    BY <1>0
<1>2. /\ entry' \in ListType /\ entry'.kind = "list" /\ entry'.arr = Len(arrays) + 1
      /\ entry'.len = 1 /\ entry' # None
    BY <1>0, Constants DEF List, ListType
<1>3. Len(<<s>>) = 1 /\ <<s>>[1] = s
    OBVIOUS
<1>4. Sliced(arrays', entry')
    BY <1>0, <1>1, <1>2, <1>3 DEF Sliced
<1>5. Elements(arrays', entry') = {s}
  <2>1. 1..1 = {1}
      OBVIOUS
  <2> QED BY <1>1, <1>2, <1>3, <2>1 DEF Elements
<1>6. ASSUME NEW i \in Arbiters
      PROVE  /\ Placed(arrays', arb[i]) /\ Shorter(arb[i], entry')
             /\ Elements(arrays', arb[i].sinks) = Elements(arrays, arb[i].sinks)
  <2>1. Placed(arrays, arb[i]) /\ Sliced(arrays, arb[i].sinks)
      BY <1>6, ArbiterIs
  <2>2. arb[i].sinks.kind = "list" => arb[i].sinks.arr \in 1..Len(arrays)
      BY <2>1 DEF Sliced
  <2>3. /\ Sliced(arrays', arb[i].sinks)
        /\ Elements(arrays', arb[i].sinks) = Elements(arrays, arb[i].sinks)
    <3> DEFINE l == arb[i].sinks
    <3>1. Sliced(arrays, l)
        BY <2>1
    <3>2. l.kind = "list" =>
            /\ l.arr \in 1..Len(arrays') /\ l.len \in 1..Len(arrays'[l.arr])
            /\ arrays'[l.arr] = arrays[l.arr]
        BY <1>0, <1>1, <3>1 DEF Sliced
    <3> HIDE DEF l
    <3>3. Sliced(arrays', l) /\ Elements(arrays', l) = Elements(arrays, l)
        BY <3>1, <3>2 DEF Sliced, Elements
    <3> QED BY <3>3 DEF l
  <2>4. Shorter(arb[i], entry')
      BY <1>0, <1>2, <2>2 DEF Shorter
  <2> QED BY <2>1, <2>3, <2>4 DEF Placed
<1> QED BY <1>1, <1>2, <1>4, <1>5, <1>6

LEMMA SubscribeFirstKeeps ==
    ASSUME StreamInv, SubscribeFirst \/ SubscribeFirstHangs
    PROVE  StreamInv'
<1>0. Typed /\ Backing /\ Requests /\ Quiet /\ Arbited
    BY DEF StreamInv
<1> DEFINE s == Head(inbox).sub
<1>1. /\ Serving("subscribe") /\ entry = None
      /\ arrays' = Append(arrays, <<s>>) /\ entry' = List(Len(arrays) + 1, 1)
      /\ members' = members \cup {s}
      /\ UNCHANGED <<setup, left, sent, offered, srcClosed, asked, scope>>
    BY DEF SubscribeFirst, SubscribeFirstHangs, arbiter, channels
<1>2. /\ s \in Subs /\ inbox' \in Seq(RequestType) /\ left[s] = -1
      /\ worker = Idle /\ worker.at = "idle"
    BY <1>1, InboxTail
<1> HIDE DEF s
<1>3. /\ arrays' \in Seq(Seq(Subs)) /\ entry' \in ListType /\ entry' # None
      /\ entry'.kind = "list" /\ Sliced(arrays', entry') /\ Elements(arrays', entry') = {s}
      /\ \A i \in Arbiters :
            /\ Placed(arrays', arb[i]) /\ Shorter(arb[i], entry')
            /\ Elements(arrays', arb[i].sinks) = Elements(arrays, arb[i].sinks)
    BY <1>1, <1>2, FirstList
<1>4. /\ worker' \in WorkerType
      /\ worker'.at \notin {"subscribing", "unsubscribing"}
    BY <1>1, <1>2, IdleShape DEF SubscribeFirst, SubscribeFirstHangs
<1>5. \/ arb' = arb
      \/ /\ SubscribeFirst
         /\ \E i \in FirstArbiter :
              arb' = [arb EXCEPT ![i] = [Absent EXCEPT !.at = "receiving"]]
    BY DEF SubscribeFirst, SubscribeFirstHangs, arbiter
<1> DEFINE y == [Absent EXCEPT !.at = "receiving"]
<1>6. y \in ArbType /\ y.at = "receiving" /\ y.sinks = None /\ y.msg = 0 /\ y # Absent
  <2>1. y.at = "receiving" /\ y.sinks = None /\ y.msg = 0 /\ y \in ArbType
      BY Constants DEF Absent, Over, ArbType
  <2> HIDE DEF y
  <2> QED BY <2>1, Constants
<1> HIDE DEF y
<1>7. PICK B \in SUBSET Arbiters :
        /\ \A i \in Arbiters : arb'[i] = IF i \in B THEN y ELSE arb[i]
        /\ arb' \in [Arbiters -> ArbType]
        /\ \A i \in B : arb[i] = Absent /\ (i # 1 => arb[1] # Absent)
        /\ arb = arb' \/ B # {}
  <2>1. CASE arb' = arb
    <3>1. /\ {} \in SUBSET Arbiters /\ arb' \in [Arbiters -> ArbType]
        BY <1>0, <2>1 DEF Typed
    <3> QED BY <2>1, <3>1
  <2>2. CASE \E i \in FirstArbiter : arb' = [arb EXCEPT ![i] = y]
    <3>1. PICK i \in FirstArbiter : arb' = [arb EXCEPT ![i] = y]
        BY <2>2
    <3>2. i \in Arbiters /\ arb[i] = Absent /\ \A j \in 1..(i - 1) : arb[j] # Absent
        BY DEF FirstArbiter
    <3>3. i # 1 => arb[1] # Absent
      <4>1. i \in Nat /\ i >= 1
          BY <3>2, BoundsAssumption DEF Arbiters
      <4>2. i # 1 => 1 \in 1..(i - 1)
          BY <4>1
      <4> QED BY <3>2, <4>2
    <3>4. /\ \A j \in Arbiters : arb'[j] = IF j \in {i} THEN y ELSE arb[j]
          /\ arb' \in [Arbiters -> ArbType]
        BY <1>0, <1>6, <3>1, <3>2 DEF Typed
    <3> QED BY <3>2, <3>3, <3>4
  <2> QED BY <1>5, <2>1, <2>2 DEF y
<1>8. Arbiters' = Arbiters /\ \A i \in Arbiters : 1 \in Arbiters
    BY BoundsAssumption DEF Arbiters
<1>9. Typed'
    BY <1>0, <1>1, <1>2, <1>3, <1>4, <1>7, <1>8 DEF Typed
<1>10. Backing'
  <2>1. Placed(arrays', y) /\ Shorter(y, entry')
      BY <1>6, Constants DEF Placed, Shorter
  <2>2. \A i \in Arbiters : Placed(arrays', arb'[i]) /\ Shorter(arb'[i], entry')
      BY <1>3, <1>7, <2>1
  <2> QED BY <1>3, <1>4, <1>8, <2>2 DEF Backing
<1>11. Requests'
    BY <1>1, <1>4, RequestsServed
<1>12. Quiet'
  <2>1. \A s1 \in Elements(arrays', entry') : left[s1] = -1
      BY <1>2, <1>3
  <2>2. \A i \in Arbiters :
          /\ arb'[i].msg <= sent
          /\ arb'[i].at = "offering" =>
              \A r \in Elements(arrays', arb'[i].sinks) : left[r] # -1 => arb'[i].msg <= left[r]
    <3> SUFFICES ASSUME NEW i \in Arbiters
                 PROVE  /\ arb'[i].msg <= sent
                        /\ arb'[i].at = "offering" =>
                            \A r \in Elements(arrays', arb'[i].sinks) :
                                left[r] # -1 => arb'[i].msg <= left[r]
        OBVIOUS
    <3>1. CASE i \in B
        BY <1>0, <1>6, <1>7, <3>1 DEF Typed
    <3>2. CASE i \notin B
        BY <1>3, <1>7, <3>2, ArbiterIs
    <3> QED BY <3>1, <3>2
  <2> QED BY <1>0, <1>1, <1>8, <2>1, <2>2 DEF Quiet, SilentAfterUnsubscribe
<1>13. Arbited'
  <2>0. \A h \in Arbiters : arb[h] # Absent => arb[1] # Absent
      BY <1>0 DEF Arbited
  <2>1. \A j \in Arbiters : arb'[j] # Absent => arb'[1] # Absent
      BY <1>6, <1>7, <1>8, <2>0
  <2>2. ASSUME scope = "open", NEW j \in Arbiters
        PROVE  /\ arb'[j].at \in {"loading", "offering"} => j = 1 /\ arb'[j].msg = sent
               /\ j # 1 /\ arb'[j] # Absent => srcClosed /\ arb'[j].sinks = None
               /\ j = 1 /\ arb'[j].at \in {"receiving", "loading", "offering"} =>
                    {s} \subseteq members' /\ members' \subseteq {s}
    <3>1. \A h \in Arbiters :
            /\ arb[h].at \in {"loading", "offering"} => h = 1 /\ arb[h].msg = sent
            /\ h # 1 /\ arb[h] # Absent => srcClosed /\ arb[h].sinks = None
            /\ h = 1 /\ arb[h].at \in {"receiving", "loading", "offering"} => entry # None
            /\ h = 1 /\ entry = None /\ arb[h] = Absent => members = {}
            /\ entry = None /\ ~ srcClosed => arb[h] = Absent
        BY <1>0, <2>2 DEF Arbited
    <3>2. CASE j \in B
      <4>1. arb'[j] = y /\ arb[j] = Absent /\ (j # 1 => arb[1] # Absent)
          BY <1>7, <3>2
      <4>2. j # 1 => srcClosed
          BY <1>1, <1>8, <3>1, <4>1
      <4>3. j = 1 => members = {}
          BY <1>1, <3>1, <4>1
      <4> QED BY <1>1, <1>6, <4>1, <4>2, <4>3
    <3>3. CASE j \notin B
      <4>1. arb'[j] = arb[j]
          BY <1>7, <3>3
      <4> QED BY <1>1, <3>1, <4>1
    <3> QED BY <3>2, <3>3
  <2>3. Leaving' = {}
      BY <1>4 DEF Leaving
  <2>4. SourceOrder'
      BY <1>0, <1>1 DEF Arbited, SourceOrder
  <2> QED BY <1>1, <1>3, <1>8, <2>1, <2>2, <2>3, <2>4 DEF Arbited
<1> QED BY <1>9, <1>10, <1>11, <1>12, <1>13 DEF StreamInv

(* A list that is no longer than the one appended to stays what it is. *)
LEMMA AppendKeepsLists ==
    ASSUME StreamInv, NEW old \in ListType, old.kind = "list", Sliced(arrays, old),
           NEW s \in Subs, arrays' = Appended(old, s).arrays,
           NEW l \in ListType, Sliced(arrays, l),
           old.arr = l.arr /\ l.kind = "list" => l.len <= old.len
    PROVE  Sliced(arrays', l) /\ Elements(arrays', l) = Elements(arrays, l)
<1>0. arrays \in Seq(Seq(Subs)) /\ Len(arrays) \in Nat /\ old.len \in Nat
    BY DEF StreamInv, Typed, Sliced
<1>1. /\ Len(arrays') >= Len(arrays) /\ Len(arrays') \in Nat
      /\ \A a \in 1..Len(arrays) :
            \/ arrays'[a] = arrays[a]
            \/ /\ a = old.arr /\ Len(arrays'[a]) = old.len + 1
               /\ \A k \in 1..old.len : arrays'[a][k] = arrays[a][k]
  <2> DEFINE new == Appended(old, s)
  <2>1. /\ new.arrays \in Seq(Seq(Subs)) /\ Len(new.arrays) >= Len(arrays)
        /\ \A a \in 1..Len(arrays) :
              \/ new.arrays[a] = arrays[a]
              \/ /\ a = old.arr /\ Len(new.arrays[a]) = old.len + 1
                 /\ \A k \in 1..old.len : new.arrays[a][k] = arrays[a][k]
      BY <1>0, AppendedShape
  <2>2. arrays' = new.arrays
      OBVIOUS
  <2> HIDE DEF new
  <2> QED BY <2>1, <2>2
<1>2. ASSUME l.kind = "list"
      PROVE  /\ l.arr \in 1..Len(arrays') /\ l.len \in 1..Len(arrays'[l.arr])
             /\ \A k \in 1..l.len : arrays'[l.arr][k] = arrays[l.arr][k]
  <2>1. l.arr \in 1..Len(arrays) /\ l.len \in 1..Len(arrays[l.arr]) /\ l.len \in Nat
      BY <1>2 DEF Sliced
  <2>2. l.arr \in 1..Len(arrays')
      BY <1>0, <1>1, <2>1
  <2>3. CASE arrays'[l.arr] = arrays[l.arr]
      BY <2>1, <2>2, <2>3
  <2>4. CASE /\ l.arr = old.arr /\ Len(arrays'[l.arr]) = old.len + 1
             /\ \A k \in 1..old.len : arrays'[l.arr][k] = arrays[l.arr][k]
    <3>1. l.len <= old.len /\ 1..l.len \subseteq 1..old.len
        BY <1>0, <1>2, <2>1, <2>4
    <3>2. l.len \in 1..Len(arrays'[l.arr])
        BY <1>0, <2>1, <2>4, <3>1
    <3> QED BY <2>2, <2>4, <3>1, <3>2
  <2> QED BY <1>1, <2>1, <2>3, <2>4
<1> QED BY <1>2 DEF Sliced, Elements

LEMMA SubscribeSwapKeeps ==
    ASSUME StreamInv, SubscribeSwap
    PROVE  StreamInv'
<1>0. Typed /\ Backing /\ Requests /\ Quiet /\ Arbited /\ arrays \in Seq(Seq(Subs))
    BY DEF StreamInv, Typed
<1> DEFINE old == worker.old
           s == worker.sub
           new == Appended(worker.old, worker.sub)
<1>1. /\ worker.at = "subscribing" /\ worker' = Idle /\ arrays' = new.arrays
      /\ \/ entry = old /\ entry' = new.list /\ members' = members \cup {s}
         \/ entry # old /\ entry' = entry /\ members' = members
      /\ UNCHANGED <<setup, left, arb, sent, offered, srcClosed, inbox, asked, scope>>
    BY DEF SubscribeSwap, arbiter, channels, outside
<1>2. /\ s \in Subs /\ old \in ListType /\ old.kind = "list" /\ Sliced(arrays, old)
      /\ entry \in {old, None} /\ left[s] = -1 /\ old.len \in Nat
    BY <1>0, <1>1 DEF Typed, Backing, Requests, WorkerType, Sliced
<1> HIDE DEF old, s, new
<1>3. /\ arrays' \in Seq(Seq(Subs)) /\ Len(arrays') \in Nat
      /\ new.list \in ListType /\ new.list.kind = "list"
      /\ new.list.arr \in 1..Len(arrays') /\ new.list.len = old.len + 1
      /\ Len(arrays'[new.list.arr]) = old.len + 1
      /\ new.list.arr = old.arr \/ new.list.arr = Len(arrays) + 1
      /\ arrays'[new.list.arr][old.len + 1] = s
      /\ \A k \in 1..old.len : arrays'[new.list.arr][k] = arrays[old.arr][k]
  <2>1. /\ new.arrays \in Seq(Seq(Subs))
        /\ new.list \in ListType /\ new.list.kind = "list"
        /\ new.list.arr \in 1..Len(new.arrays) /\ new.list.len = old.len + 1
        /\ Len(new.arrays[new.list.arr]) = old.len + 1
        /\ new.list.arr = old.arr \/ new.list.arr = Len(arrays) + 1
        /\ new.arrays[new.list.arr][old.len + 1] = s
        /\ \A k \in 1..old.len : new.arrays[new.list.arr][k] = arrays[old.arr][k]
    <3>1. new = Appended(old, s)
        BY DEF new, old, s
    <3>2. /\ Appended(old, s).arrays \in Seq(Seq(Subs))
          /\ Appended(old, s).list \in ListType /\ Appended(old, s).list.kind = "list"
          /\ Appended(old, s).list.arr \in 1..Len(Appended(old, s).arrays)
          /\ Appended(old, s).list.len = old.len + 1
          /\ Len(Appended(old, s).arrays[Appended(old, s).list.arr]) = old.len + 1
          /\ Appended(old, s).list.arr = old.arr \/ Appended(old, s).list.arr = Len(arrays) + 1
          /\ Appended(old, s).arrays[Appended(old, s).list.arr][old.len + 1] = s
          /\ \A k \in 1..old.len :
                Appended(old, s).arrays[Appended(old, s).list.arr][k] = arrays[old.arr][k]
        BY <1>0, <1>2, AppendedShape
    <3> QED BY <3>1, <3>2
  <2>2. Len(new.arrays) \in Nat /\ arrays' = new.arrays
      BY <1>1, <2>1
  <2> HIDE DEF new
  <2> QED BY <2>1, <2>2
<1>4. Sliced(arrays', new.list) /\ Elements(arrays', new.list) = Elements(arrays, old) \cup {s}
  <2>1. Sliced(arrays', new.list)
      BY <1>2, <1>3, SMTT(20) DEF Sliced
  <2>2. \A k : k \in 1..(old.len + 1) <=> k \in 1..old.len \/ k = old.len + 1
      BY <1>2
  <2>3. Elements(arrays', new.list) = {arrays'[new.list.arr][k] : k \in 1..(old.len + 1)}
      BY <1>3 DEF Elements
  <2>4. Elements(arrays, old) = {arrays[old.arr][k] : k \in 1..old.len}
      BY <1>2 DEF Elements
  <2>5. \A k \in 1..old.len :
          k \in 1..(old.len + 1) /\ arrays'[new.list.arr][k] = arrays[old.arr][k]
      BY <1>3, <2>2
  <2>6. old.len + 1 \in 1..(old.len + 1) /\ arrays'[new.list.arr][old.len + 1] = s
      BY <1>2, <1>3, SMTT(20)
  <2>7. Elements(arrays', new.list) \subseteq Elements(arrays, old) \cup {s}
      BY <2>2, <2>3, <2>4, <2>5, <2>6
  <2>8. Elements(arrays, old) \cup {s} \subseteq Elements(arrays', new.list)
      BY <2>3, <2>4, <2>5, <2>6
  <2> QED BY <2>1, <2>7, <2>8
<1>5. \A i \in Arbiters :
        /\ Placed(arrays', arb[i])
        /\ Elements(arrays', arb[i].sinks) = Elements(arrays, arb[i].sinks)
        /\ Shorter(arb[i], new.list)
  <2> SUFFICES ASSUME NEW i \in Arbiters
               PROVE  /\ Placed(arrays', arb[i])
                      /\ Elements(arrays', arb[i].sinks) = Elements(arrays, arb[i].sinks)
                      /\ Shorter(arb[i], new.list)
      OBVIOUS
  <2> DEFINE l == arb[i].sinks
  <2>1. /\ l \in ListType /\ Sliced(arrays, l) /\ Placed(arrays, arb[i])
        /\ l.kind = "list" /\ l.arr = old.arr => l.len <= old.len
      BY <1>1, <1>2, ArbiterIs DEF Shorter, old
  <2>2. arrays' = Appended(old, s).arrays
      BY <1>1 DEF old, s, new
  <2>3. Sliced(arrays', l) /\ Elements(arrays', l) = Elements(arrays, l)
    <3> HIDE DEF l
    <3> QED BY <1>2, <2>1, <2>2, AppendKeepsLists
  <2>4. Placed(arrays', arb[i])
      BY <2>1, <2>3 DEF Placed
  <2>5. l.kind = "list" => l.len \in Nat /\ l.arr \in Nat /\ l.arr <= Len(arrays)
      BY <2>1 DEF Sliced
  <2>6. Shorter(arb[i], new.list)
    <3>1. Len(arrays) \in Nat
        BY <1>0
    <3>2. ASSUME l.kind = "list", l.arr = new.list.arr
          PROVE  l.len <= new.list.len
      <4>1. new.list.arr = old.arr
          BY <1>3, <2>5, <3>1, <3>2
      <4>2. l.len <= old.len
          BY <2>1, <3>2, <4>1
      <4> QED BY <1>2, <1>3, <2>5, <3>2, <4>2
    <3> QED BY <3>2 DEF Shorter
  <2> QED BY <2>3, <2>4, <2>6
<1>6. worker'.at = "idle" /\ worker' \in WorkerType
    BY <1>1, IdleShape
<1>7. Arbiters' = Arbiters
    BY DEF Arbiters
<1>8. CASE entry = old /\ entry' = new.list /\ members' = members \cup {s}
  <2>1. Typed'
      BY <1>0, <1>1, <1>2, <1>3, <1>6, <1>7, <1>8 DEF Typed
  <2>2. Backing'
      BY <1>1, <1>4, <1>5, <1>6, <1>7, <1>8 DEF Backing
  <2>3. Requests'
      BY <1>0, <1>1, <1>6 DEF Requests
  <2>4. Quiet'
      BY <1>0, <1>1, <1>2, <1>4, <1>5, <1>7, <1>8 DEF Quiet, SilentAfterUnsubscribe
  <2>5. Arbited'
    <3>1. Leaving = {} /\ Leaving' = {}
        BY <1>1, <1>6 DEF Leaving
    <3>2. entry # None /\ entry' # None
        BY <1>2, <1>3, <1>8, Constants
    <3>3. SourceOrder'
        BY <1>0, <1>1 DEF Arbited, SourceOrder
    <3>4. Elements(arrays, entry) \subseteq members /\ members \ {} \subseteq Elements(arrays, entry)
            => /\ Elements(arrays', entry') \subseteq members'
               /\ members' \ {} \subseteq Elements(arrays', entry')
        BY <1>4, <1>8
    <3>5. entry.kind = "list"
        BY <1>2, <1>8
    <3> QED BY <1>0, <1>1, <1>7, <3>1, <3>2, <3>3, <3>4, <3>5 DEF Arbited
  <2> QED BY <2>1, <2>2, <2>3, <2>4, <2>5 DEF StreamInv
<1>9. CASE entry # old /\ entry' = entry /\ members' = members
  <2>0. entry = None
      BY <1>2, <1>9
  <2>1. Typed'
      BY <1>0, <1>1, <1>3, <1>6, <1>7, <1>9 DEF Typed
  <2>2. Backing'
    <3>1. \A i \in Arbiters : Shorter(arb[i], None)
        BY Constants DEF Shorter
    <3> QED BY <1>1, <1>5, <1>6, <1>7, <1>9, <2>0, <3>1, Constants DEF Backing
  <2>3. Requests'
      BY <1>0, <1>1, <1>6 DEF Requests
  <2>4. Quiet'
      BY <1>0, <1>1, <1>5, <1>7, <1>9, <2>0, Constants DEF Quiet, SilentAfterUnsubscribe
  <2>5. Arbited'
    <3>1. SourceOrder'
        BY <1>0, <1>1 DEF Arbited, SourceOrder
    <3> QED BY <1>0, <1>1, <1>7, <1>9, <2>0, <3>1, Constants DEF Arbited
  <2> QED BY <2>1, <2>2, <2>3, <2>4, <2>5 DEF StreamInv
<1> QED BY <1>1, <1>8, <1>9

-----------------------------------------------------------------------------
(* Removing an element in place. *)
LEMMA ShiftedShape ==
    ASSUME NEW items \in Seq(Subs), NEW n \in 1..Len(items), NEW idx \in 1..n
    PROVE  LET down == ShiftedDown(items, n, idx)
           IN  /\ down \in Seq(Subs) /\ Len(down) = Len(items)
               /\ \A k \in 1..Len(items) :
                    down[k] = IF k >= idx /\ k < n THEN items[k + 1] ELSE items[k]
<1> DEFINE down == [k \in 1..Len(items) |->
                        IF k >= idx /\ k < n THEN items[k + 1] ELSE items[k]]
<1>1. Len(items) \in Nat /\ DOMAIN items = 1..Len(items)
    OBVIOUS
<1>2. ShiftedDown(items, n, idx) = down
    BY <1>1 DEF ShiftedDown
<1>3. \A k \in 1..Len(items) : down[k] \in Subs
    BY <1>1
<1>4. down \in [1..Len(items) -> Subs]
    BY <1>3
<1>5. down \in Seq(Subs) /\ Len(down) = Len(items)
    BY <1>1, <1>4, LenProperties, SeqDef
<1> QED BY <1>2, <1>5

LEMMA UnsubscribeLoadKeeps ==
    ASSUME StreamInv, UnsubscribeLoad
    PROVE  StreamInv'
<1>0. Typed /\ Backing /\ Requests /\ Quiet /\ Arbited /\ arrays \in Seq(Seq(Subs))
      /\ entry \in ListType /\ Sliced(arrays, entry)
    BY DEF StreamInv, Typed, Backing
<1> DEFINE s == Head(inbox).sub
           r == arrays[entry.arr]
           n == entry.len
           idx == CHOOSE k \in 1..n : r[k] = s
           down == ShiftedDown(r, n, idx)
           E == Elements(arrays, entry)
<1>1. /\ Serving("unsubscribe") /\ s \in Range(Registered(entry))
      /\ arrays' = [arrays EXCEPT ![entry.arr] = down]
      /\ worker' = [at |-> "unsubscribing", sub |-> s, old |-> entry]
      /\ UNCHANGED <<setup, entry, members, left, arb, sent, offered, srcClosed, asked,
                     scope>>
    BY DEF UnsubscribeLoad, arbiter, channels
<1>2. s \in Subs /\ inbox' \in Seq(RequestType) /\ worker.at = "idle"
    BY <1>1, InboxTail
<1>3. s \in E /\ entry.kind = "list"
  <2>1. s \in E
      BY <1>0, <1>1, RegisteredElements
  <2> QED BY <2>1 DEF Elements
<1>4. /\ entry.arr \in 1..Len(arrays) /\ r \in Seq(Subs) /\ n \in 1..Len(r) /\ n \in Nat
      /\ Len(arrays) \in Nat
      /\ E = {r[k] : k \in 1..n}
    BY <1>0, <1>3 DEF Sliced, Elements
<1>5. idx \in 1..n /\ r[idx] = s
    BY <1>3, <1>4
<1> HIDE DEF s, r, n, idx, E
<1>6. /\ down \in Seq(Subs) /\ Len(down) = Len(r) /\ Len(r) \in Nat
      /\ \A k \in 1..Len(r) : down[k] = IF k >= idx /\ k < n THEN r[k + 1] ELSE r[k]
    BY <1>4, <1>5, ShiftedShape
<1> HIDE DEF down
<1>7. /\ arrays' \in Seq(Seq(Subs)) /\ Len(arrays') = Len(arrays)
      /\ arrays'[entry.arr] = down
      /\ \A a \in 1..Len(arrays) : a # entry.arr => arrays'[a] = arrays[a]
    BY <1>0, <1>1, <1>4, <1>6
<1>8. \A l \in ListType :
        Sliced(arrays, l) /\ (l.kind = "list" /\ l.arr = entry.arr => l.len <= n) =>
            Sliced(arrays', l) /\ Elements(arrays', l) \subseteq Elements(arrays, l) \cup E
  <2> SUFFICES ASSUME NEW l \in ListType, Sliced(arrays, l), l.kind = "list",
                      l.arr = entry.arr => l.len <= n
               PROVE  /\ Sliced(arrays', l)
                      /\ Elements(arrays', l) \subseteq Elements(arrays, l) \cup E
      BY DEF Sliced, Elements
  <2>1. l.arr \in 1..Len(arrays) /\ l.len \in 1..Len(arrays[l.arr]) /\ l.len \in Nat
      BY DEF Sliced
  <2>2. CASE l.arr # entry.arr
      BY <1>7, <2>1, <2>2 DEF Sliced, Elements
  <2>3. CASE l.arr = entry.arr
    <3>1. Sliced(arrays', l)
        BY <1>6, <1>7, <2>1, <2>3 DEF Sliced, r
    <3>2. Elements(arrays', l) = {down[k] : k \in 1..l.len}
        BY <1>7, <2>3 DEF Elements
    <3>3. Elements(arrays, l) = {r[k] : k \in 1..l.len}
        BY <2>3 DEF Elements, r
    <3>4. ASSUME NEW k \in 1..l.len
          PROVE  down[k] \in Elements(arrays, l) \cup E
      <4>1. k \in 1..Len(r) /\ k \in Nat /\ k >= 1 /\ (k < n => k + 1 \in 1..n)
          BY <1>4, <2>1, <2>3 DEF r
      <4>2. down[k] = IF k >= idx /\ k < n THEN r[k + 1] ELSE r[k]
          BY <1>6, <4>1
      <4> QED BY <1>4, <3>3, <4>1, <4>2
    <3> QED BY <3>1, <3>2, <3>4
  <2> QED BY <2>2, <2>3
<1>9. /\ Sliced(arrays', entry) /\ Elements(arrays', entry) \subseteq E
      /\ E \ {s} \subseteq Elements(arrays', entry)
  <2>1. Sliced(arrays', entry) /\ Elements(arrays', entry) \subseteq E
    <3>1. entry.len <= n
        BY <1>4 DEF n
    <3>2. /\ Sliced(arrays', entry)
          /\ Elements(arrays', entry) \subseteq Elements(arrays, entry) \cup E
        BY <1>0, <1>8, <3>1
    <3> QED BY <3>2 DEF E
  <2>2. Elements(arrays', entry) = {down[k] : k \in 1..n}
      BY <1>3, <1>7 DEF Elements, n
  <2>3. ASSUME NEW k \in 1..n, r[k] # s
        PROVE  r[k] \in Elements(arrays', entry)
    <3>1. k \in Nat /\ idx \in Nat /\ k >= 1 /\ k <= n /\ idx >= 1 /\ idx <= n /\ n <= Len(r)
          /\ k # idx
        BY <1>4, <1>5, <1>6, <2>3
    <3>2. CASE k < idx
      <4>0. k <= Len(r)
          BY <1>4, <1>6, <3>1
      <4>1. k \in 1..Len(r) /\ k \in 1..n
          BY <1>6, <3>1, <4>0
      <4>2. down[k] = r[k]
          BY <1>6, <3>1, <3>2, <4>1
      <4> QED BY <2>2, <4>1, <4>2
    <3>3. CASE k > idx
      <4>1. k - 1 \in 1..Len(r) /\ k - 1 \in 1..n /\ k - 1 >= idx /\ k - 1 < n
            /\ (k - 1) + 1 = k
          BY <1>4, <1>6, <3>1, <3>3
      <4>2. down[k - 1] = r[k]
          BY <1>6, <4>1
      <4> QED BY <2>2, <4>1, <4>2
    <3> QED BY <3>1, <3>2, <3>3
  <2> QED BY <1>4, <2>1, <2>3
<1>10. \A i \in Arbiters :
        /\ Placed(arrays', arb[i]) /\ Shorter(arb[i], entry)
        /\ Elements(arrays', arb[i].sinks) \subseteq Elements(arrays, arb[i].sinks) \cup E
  <2>1. \A i \in Arbiters :
          /\ arb[i].sinks \in ListType /\ Sliced(arrays, arb[i].sinks)
          /\ Placed(arrays, arb[i]) /\ Shorter(arb[i], entry)
      BY ArbiterIs
  <2>2. \A i \in Arbiters :
          arb[i].sinks.kind = "list" /\ arb[i].sinks.arr = entry.arr => arb[i].sinks.len <= n
      BY <1>3, <2>1 DEF Shorter, n
  <2> QED BY <1>8, <2>1, <2>2 DEF Placed
<1>11. /\ worker'.at = "unsubscribing" /\ worker'.sub = s /\ worker'.old = entry
       /\ worker' \in WorkerType
    BY <1>0, <1>1, <1>2 DEF WorkerType
<1>12. Arbiters' = Arbiters
    BY DEF Arbiters
<1>13. Typed'
    BY <1>0, <1>1, <1>2, <1>7, <1>11, <1>12 DEF Typed
<1>14. Backing'
    BY <1>1, <1>3, <1>9, <1>10, <1>11, <1>12 DEF Backing
<1>15. Requests'
    BY <1>1, <1>11, RequestsServed DEF s
<1>16. Quiet'
  <2>1. \A t \in E : left[t] = -1
      BY <1>0 DEF Quiet, E
  <2>2. \A i \in Arbiters :
          arb[i].at = "offering" =>
              \A t \in Elements(arrays', arb[i].sinks) : left[t] # -1 => arb[i].msg <= left[t]
      BY <1>10, <2>1, ArbiterIs
  <2> QED BY <1>0, <1>1, <1>9, <1>12, <2>1, <2>2 DEF Quiet, SilentAfterUnsubscribe
<1>17. Arbited'
  <2>1. Leaving = {} /\ Leaving' = {s}
      BY <1>2, <1>11 DEF Leaving
  <2>2. SourceOrder'
      BY <1>0, <1>1 DEF Arbited, SourceOrder
  <2>3. E \subseteq members /\ members \ {} \subseteq E =>
          /\ Elements(arrays', entry) \subseteq members
          /\ members \ {s} \subseteq Elements(arrays', entry)
      BY <1>9
  <2> QED BY <1>0, <1>1, <1>12, <2>1, <2>2, <2>3 DEF Arbited, E
<1> QED BY <1>13, <1>14, <1>15, <1>16, <1>17 DEF StreamInv

(* The worker forgets the list: whoever leaves now has been sent all that  *)
(* was delivered so far, at the most.                                      *)
LEMMA UnsubscribeSwapKeeps ==
    ASSUME StreamInv, UnsubscribeSwap
    PROVE  StreamInv'
<1>0. Typed /\ Backing /\ Requests /\ Quiet /\ Arbited
    BY DEF StreamInv
<1> DEFINE s == worker.sub
<1>1. /\ worker.at = "unsubscribing" /\ worker' = Idle
      /\ \/ /\ entry = worker.old /\ entry' = Raw /\ members' = members \ {s}
            /\ left' = [left EXCEPT ![s] = sent]
         \/ /\ entry # worker.old
            /\ UNCHANGED <<entry, members, left>>
      /\ UNCHANGED <<setup, arrays, arb, sent, offered, srcClosed, inbox, asked, scope>>
    BY DEF UnsubscribeSwap, arbiter, channels, outside
<1>2. s \in Subs /\ entry \in {worker.old, None} /\ asked[s] # "nothing" /\ sent \in Nat
    BY <1>0, <1>1 DEF Typed, Backing, Requests
<1>3. worker'.at = "idle" /\ worker' \in WorkerType /\ Arbiters' = Arbiters
    BY <1>1, IdleShape DEF Arbiters
<1> HIDE DEF s
<1>4. CASE /\ entry = worker.old /\ entry' = Raw /\ members' = members \ {s}
           /\ left' = [left EXCEPT ![s] = sent]
  <2>1. /\ left'[s] = sent /\ \A t \in Subs : t # s => left'[t] = left[t]
        /\ left' \in [Subs -> Nat \cup {-1}]
      BY <1>0, <1>2, <1>4 DEF Typed
  <2>2. Typed'
      BY <1>0, <1>1, <1>3, <1>4, <2>1, Constants DEF Typed
  <2>3. Backing'
    <3>1. \A i \in Arbiters : Shorter(arb[i], Raw)
        BY Constants DEF Shorter
    <3> QED BY <1>0, <1>1, <1>3, <1>4, <3>1, Constants DEF Backing
  <2>4. Requests'
    <3>1. \A j \in 1..Len(inbox) : inbox[j].sub \in Subs
      <4>1. \A j \in 1..Len(inbox) : inbox[j] \in RequestType
          BY <1>0 DEF Typed
      <4> QED BY <4>1 DEF RequestType
    <3>2. \A j \in 1..Len(inbox) : inbox[j].op = "subscribe" => left'[inbox[j].sub] = -1
        BY <1>0, <1>1, <2>1, <3>1 DEF Requests, s
    <3>3. \A t \in Subs : left'[t] # -1 => asked[t] # "nothing"
        BY <1>0, <1>2, <2>1 DEF Requests
    <3> QED BY <1>0, <1>1, <1>3, <3>2, <3>3 DEF Requests
  <2>5. Quiet'
    <3>1. \A i \in Arbiters :
            /\ arb[i].msg <= sent
            /\ arb[i].at = "offering" =>
                \A t \in Elements(arrays, arb[i].sinks) : left'[t] # -1 => arb[i].msg <= left'[t]
      <4>1. \A i \in Arbiters : Elements(arrays, arb[i].sinks) \subseteq Subs
          BY <1>0, RegisteredElements, ArbiterIs DEF Typed
      <4> QED BY <2>1, <4>1, ArbiterIs
    <3>2. \A t \in Subs : left'[t] # -1 => \A k \in DOMAIN offered[t] : offered[t][k] <= left'[t]
        BY <1>0, <2>1 DEF Quiet, SilentAfterUnsubscribe
    <3> QED BY <1>0, <1>1, <1>3, <1>4, <3>1, <3>2, Constants DEF Quiet, SilentAfterUnsubscribe
  <2>6. Arbited'
    <3>1. entry' # None /\ entry'.kind # "list"
        BY <1>4, Constants
    <3>2. SourceOrder'
        BY <1>0, <1>1 DEF Arbited, SourceOrder
    <3> QED BY <1>0, <1>1, <1>3, <3>1, <3>2 DEF Arbited
  <2> QED BY <2>2, <2>3, <2>4, <2>5, <2>6 DEF StreamInv
<1>5. CASE entry # worker.old /\ UNCHANGED <<entry, members, left>>
  <2>1. entry = None
      BY <1>2, <1>5
  <2>2. Typed'
      BY <1>0, <1>1, <1>3, <1>5 DEF Typed
  <2>3. Backing'
      BY <1>0, <1>1, <1>3, <1>5 DEF Backing
  <2>4. Requests'
      BY <1>0, <1>1, <1>3, <1>5 DEF Requests
  <2>5. Quiet'
      BY <1>0, <1>1, <1>3, <1>5 DEF Quiet, SilentAfterUnsubscribe
  <2>6. Arbited'
      BY <1>0, <1>1, <1>3, <1>5, <2>1 DEF Arbited, SourceOrder
  <2> QED BY <2>2, <2>3, <2>4, <2>5, <2>6 DEF StreamInv
<1> QED BY <1>1, <1>4, <1>5

-----------------------------------------------------------------------------
(* The invariant is inductive: one worker and any number of arbiters that  *)
(* share an entry and arrays with it, step by step, and every end.         *)
THEOREM StreamInductive == StreamInv /\ [Next]_vars => StreamInv'
<1> SUFFICES ASSUME StreamInv, [Next]_vars PROVE StreamInv'
    OBVIOUS
<1>1. CASE Outside
    BY <1>1, AroundKeeps, AskKeeps DEF Outside
<1>2. CASE Work
    BY <1>2, ServedInVain, SubscribeFirstKeeps, SubscribeLoadKeeps, SubscribeSwapKeeps,
        UnsubscribeLoadKeeps, UnsubscribeSwapKeeps, AroundKeeps DEF Work
<1>3. ASSUME NEW i \in Arbiters, Arbit(i) PROVE StreamInv'
    BY <1>3, ReceiveKeeps, ReloadKeeps, OfferKeeps, InterruptedKeeps, SourceEndsKeeps,
        CloseSinksKeeps DEF Arbit
<1>4. CASE EndScope \/ Cancel \/ UNCHANGED vars
    BY <1>4, AroundKeeps
<1>5. CASE ClearRegistry
    BY <1>5, ClearRegistryKeeps
<1> QED BY <1>1, <1>2, <1>3, <1>4, <1>5 DEF Next

LEMMA StreamSafe == Spec => []StreamInv
BY InitStreamInv, StreamInductive, PTL DEF Spec

(* No message delivered after an unsubscription was handled is offered to  *)
(* the sink that left, although arbiters go on with the lists they have    *)
(* (unsubscribe and arbit, stream.go).                                     *)
THEOREM LeaversHearNoMore == Spec => []SilentAfterUnsubscribe
<1>1. StreamInv => SilentAfterUnsubscribe
    BY DEF StreamInv, Quiet
<1> QED BY <1>1, StreamSafe, PTL

(* In an open scope every sink sees the source's order: however often the  *)
(* registry is rewritten, a source has one arbiter (subscribe, stream.go). *)
THEOREM SinksSeeOneOrder == Spec => []SourceOrder
<1>1. StreamInv => SourceOrder
    BY DEF StreamInv, Arbited
<1> QED BY <1>1, StreamSafe, PTL

(* A message goes to the members that are not leaving, all of them and     *)
(* nobody else, until the first unsubscription replaces the list: in-place *)
(* append and removal never show an arbiter half a list (arbit).           *)
THEOREM MessagesReachMembers == Spec => ReloadSeesAll
<1> DEFINE Sees(i) ==
        arb[i].at = "loading" /\ arb'[i].at # "loading" /\ scope = "open" /\ entry # Raw
            => /\ members \ Leaving \subseteq Range(Registered(arb'[i].sinks))
               /\ Range(Registered(arb'[i].sinks)) \subseteq members
<1>1. StreamInv /\ [Next]_vars => [\A i \in Arbiters : Sees(i)]_vars
  <2> SUFFICES ASSUME StreamInv, Next, NEW i \in Arbiters,
                      arb[i].at = "loading", arb'[i].at # "loading", scope = "open",
                      entry # Raw
               PROVE  /\ members \ Leaving \subseteq Range(Registered(arb'[i].sinks))
                      /\ Range(Registered(arb'[i].sinks)) \subseteq members
      OBVIOUS
  <2>0. Typed /\ Backing /\ Arbited /\ arrays \in Seq(Seq(Subs)) /\ entry \in ListType
        /\ arb \in [Arbiters -> ArbType]
      BY DEF StreamInv, Typed
  <2>1. arb' # arb
      OBVIOUS
  <2>2. ~ (Outside \/ EndScope \/ ClearRegistry \/ Cancel)
      BY <2>1 DEF Outside, CloseSource, Subscribe, Unsubscribe, CloseOwnSink, EndScope,
          ClearRegistry, Cancel, arbiter
  <2>3. ~ Work
    <3>1. SubscribeFirst => arb'[i] = arb[i]
      <4>1. arb[i] # Absent
          BY Constants
      <4> QED BY <2>0, <4>1 DEF SubscribeFirst, FirstArbiter
    <3> QED BY <2>1, <3>1 DEF Work, SubscribeCrash, SubscribeFirstHangs, SubscribeUncast,
          SubscribeLoad, SubscribeSwap, UnsubscribeNothing, UnsubscribeLoad,
          UnsubscribeSwap, WorkerExit, arbiter
  <2>4. PICK j \in Arbiters : Arbit(j)
      BY <2>2, <2>3 DEF Next
  <2>5. j = i
    <3>1. j # i => arb'[i] = arb[i]
        BY <2>0, <2>4 DEF Arbit, Receive, Reload, Offer, OfferPanic, Interrupted,
            SourceEnds, CloseSinks
    <3> QED BY <3>1
  <2>6. Reload(i)
      BY <2>4, <2>5 DEF Arbit, Receive, Offer, OfferPanic, Interrupted, SourceEnds, CloseSinks
  <2>7. /\ entry # None /\ entry.kind = "list"
        /\ Elements(arrays, entry) \subseteq members
        /\ members \ Leaving \subseteq Elements(arrays, entry)
      BY <2>0, Constants DEF Arbited
  <2>8. arb'[i].sinks = entry
      BY <2>0, <2>6, <2>7 DEF Reload, ArbType
  <2>9. Range(Registered(entry)) = Elements(arrays, entry)
      BY <2>0, RegisteredElements DEF Backing
  <2> QED BY <2>7, <2>8, <2>9
<1>2. Spec => [][\A i \in Arbiters : Sees(i)]_vars
    BY <1>1, StreamSafe, PTL DEF Spec
<1> QED BY <1>2 DEF ReloadSeesAll
=============================================================================
