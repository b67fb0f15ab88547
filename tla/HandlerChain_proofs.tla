------------------------ MODULE HandlerChain_proofs ------------------------
(***************************************************************************)
(* Theorems about nested handlers, for any clients, depth, buffer size and *)
(* configuration.  Nobody knows the chain: a worker sees its own scope's   *)
(* map and what the scope above replies.  That the answers add up to one   *)
(* lookup rests on how far a lookup has come (Reached: it only climbs past *)
(* scopes that have not got it) and on what is on its way back (Earned).   *)
(***************************************************************************)
EXTENDS HandlerChain, TLAPS

(* What a lookup may be answered. *)
Earned(q) ==
    {Answers!Nearest(q)} \union
        {a \in {Answers!Failed, Answers!Nothing} :
            ended \cap (Answers!Path(q) \union {q}) # {}}

(* A lookup that was made at scope l has passed the scopes below.          *)
Passed(q, l) ==
    /\ l \in Answers!Path(q)
    /\ \A m \in Levels : m < l /\ setup.entry[q] <= m => m \notin setup.has[q]
    /\ setup.kind = "task" => l = setup.entry[q]

Made(q, l) == perform[<<q, l>>] # "none"

Reached ==
    /\ \A q \in Clients, l \in Levels : Made(q, l) => Passed(q, l)
    /\ \A l \in Levels : \A i \in 1..Len(queue[l]) : Made(queue[l][i], l)
    /\ \A l \in Levels :
        /\ worker[l] \in {"handling", "waiting", "answering"} =>
              serving[l] \in Clients /\ Made(serving[l], l)
        /\ worker[l] = "waiting" /\ setup.kind # "task" =>
              l < Depth /\ Made(serving[l], l + 1)

Earnings ==
    /\ \A q \in Clients, l \in Levels :
        \/ reply[<<q, l>>] = Open
        \/ reply[<<q, l>>] = Empty /\ ended \cap Answers!Path(q) # {}
        \/ reply[<<q, l>>] \in Earned(q)
    /\ \A q \in Clients, l \in Levels :
        worker[l] = "answering" /\ serving[l] = q => held[l] \in Earned(q)
    /\ \A l \in Levels : worker[l] = "exited" => l \in ended
    /\ \A q \in Clients : task[q] = "closed" => setup.entry[q] \in ended

Shape ==
    /\ setup \in Setups
    /\ DOMAIN reply = Clients \X Levels /\ DOMAIN queue = Levels
    /\ DOMAIN held = Levels /\ DOMAIN result = Clients

CInv == TypeOK /\ Shape /\ Reached /\ Earnings

-----------------------------------------------------------------------------
LEMMA SetupShape ==
    ASSUME setup \in Setups
    PROVE  /\ \A q \in Clients : setup.entry[q] \in Levels /\ setup.has[q] \subseteq Levels
           /\ setup.mayEnd \subseteq Clients \union Levels
           /\ setup.kind = "task" => \A q \in Clients : setup.entry[q] \in setup.has[q]
<1>1. setup \in [kind : {"binding", "dependency", "task"},
                entry : [Clients -> Levels], has : [Clients -> SUBSET Levels],
                mayEnd : SUBSET (Clients \union Levels), stuck : SUBSET Clients]
    BY ChainAssumption
<1>2. setup.kind = "task" => \A q \in Clients : setup.entry[q] \in setup.has[q]
    BY ChainAssumption
<1> QED BY <1>1, <1>2

LEMMA PathShape ==
    ASSUME setup \in Setups, NEW q \in Clients
    PROVE  \A l : l \in Answers!Path(q) <=> l \in Levels /\ setup.entry[q] <= l
<1>1. setup.entry[q] \in Nat /\ setup.entry[q] >= 1
    BY SetupShape DEF Levels
<1>2. Answers!Path(q) = setup.entry[q] .. Depth
    BY DEF Answers!Path
<1> QED BY <1>1, <1>2, ChainAssumption DEF Levels

(* The first scope that has it, on a climb past those that have not, is    *)
(* the nearest one.                                                        *)
LEMMA NearestFound ==
    ASSUME setup \in Setups, NEW q \in Clients, NEW l \in Levels,
           Passed(q, l), l \in setup.has[q]
    PROVE  Answers!Nearest(q) = Answers!Found(l)
<1> DEFINE H == Answers!Holders(q)
<1>1. \A m : m \in H <=> m \in Levels /\ setup.entry[q] <= m /\ m \in setup.has[q]
    BY PathShape DEF Answers!Holders
<1>2. l \in H
    BY <1>1, PathShape DEF Passed
<1>3. \A m \in H : l <= m
    BY <1>1, ChainAssumption DEF Passed, Levels
<1>4. \A m \in H : m \in Nat
    BY <1>1 DEF Levels
<1> HIDE DEF H
<1>5. (CHOOSE k \in H : \A m \in H : k <= m) = l
    BY <1>2, <1>3, <1>4
<1>6. H # {}
    BY <1>2
<1> QED BY <1>5, <1>6 DEF Answers!Nearest, H

LEMMA NearestUnknown ==
    ASSUME setup \in Setups, NEW q \in Clients,
           Passed(q, Depth), Depth \notin setup.has[q]
    PROVE  Answers!Nearest(q) = Answers!Unknown
<1>1. Answers!Holders(q) = {}
    BY PathShape, ChainAssumption DEF Answers!Holders, Passed, Levels
<1> QED BY <1>1 DEF Answers!Nearest

(* Whatever a caller may get, its lookup may be answered with. *)
LEMMA GetsEarned ==
    ASSUME CInv, NEW q \in Clients, NEW l \in Levels, NEW a \in Gets(q, l)
    PROVE  a \in Earned(q)
<1>1. Made(q, l)
    BY DEF Gets, Made
<1>2. setup \in Setups /\ Passed(q, l)
    BY <1>1 DEF CInv, Shape, Reached
<1>3. CASE a = reply[<<q, l>>] /\ a \notin {Open, Empty}
    BY <1>3 DEF CInv, Earnings
<1>4. CASE a = Answers!Nothing /\ reply[<<q, l>>] = Empty
  <2>1. \/ ended \cap Answers!Path(q) # {}
        \/ Empty \in Earned(q)
      BY <1>4 DEF CInv, Earnings, Open, Empty
  <2>2. Empty # Answers!Failed /\ Empty # Answers!Nothing /\ Empty # Answers!Unknown
        /\ \A m : Empty # Answers!Found(m)
      BY DEF Empty, Answers!Failed, Answers!Nothing, Answers!Unknown, Answers!Found
  <2>3. Empty # Answers!Nearest(q)
      BY <2>2 DEF Answers!Nearest
  <2> QED BY <1>4, <2>1, <2>2, <2>3 DEF Earned
<1>5. CASE a = Answers!Failed /\ CallerContext(q, l) \in ended
  <2>1. CallerContext(q, l) \in Answers!Path(q) \union {q}
    <3>1. CASE l = setup.entry[q]
        BY <3>1 DEF CallerContext
    <3>2. CASE l # setup.entry[q]
      <4>1. setup.entry[q] \in Nat /\ l \in Nat /\ setup.entry[q] <= l /\ l <= Depth
            /\ setup.entry[q] >= 1
          BY <1>2, PathShape, SetupShape DEF Passed, Levels
      <4>2. l - 1 \in Levels /\ setup.entry[q] <= l - 1
          BY <3>2, <4>1, ChainAssumption DEF Levels
      <4> QED BY <1>2, <3>2, <4>2, PathShape DEF CallerContext
    <3> QED BY <3>1, <3>2
  <2> QED BY <1>5, <2>1 DEF Earned
<1> QED BY <1>3, <1>4, <1>5 DEF Gets

LEMMA InitCInv == Init => CInv
<1> SUFFICES ASSUME Init PROVE CInv
    OBVIOUS
<1>1. TypeOK
    BY ChainAssumption DEF Init, TypeOK
<1>2. Shape
    BY DEF Init, Shape
<1>3. Reached
    BY DEF Init, Reached, Made
<1>4. Earnings
    BY DEF Init, Earnings
<1> QED BY <1>1, <1>2, <1>3, <1>4 DEF CInv

(* What has been earned stays earned: the setup is kept, contexts that     *)
(* have ended do not come back.                                            *)
LEMMA EarnedKept ==
    ASSUME setup' = setup, ended \subseteq ended', NEW q
    PROVE  Earned(q) \subseteq Earned(q)'
BY DEF Earned, Answers!Nearest, Answers!Holders, Answers!Path, Answers!Found, Answers!Unknown,
       Answers!Failed, Answers!Nothing

LEMMA PassedKept ==
    ASSUME setup' = setup, NEW q, NEW l
    PROVE  Passed(q, l)' <=> Passed(q, l)
BY DEF Passed, Answers!Path, Levels

(* A worker that is about to answer may answer so. *)
LEMMA ReturnKeeps ==
    ASSUME CInv, NEW l \in Levels, NEW a, worker[l] \in {"handling", "waiting"},
           Return(l, a), \A q \in Clients : serving[l] = q => a \in Earned(q),
           UNCHANGED <<setup, ended, perform, reply, queue, serving, task, result>>
    PROVE  CInv'
<1>0. TypeOK /\ Shape /\ Reached /\ Earnings
    BY DEF CInv
<1>1. /\ worker' = [worker EXCEPT ![l] = "answering"] /\ held' = [held EXCEPT ![l] = a]
      /\ worker'[l] = "answering" /\ held'[l] = a
      /\ \A m \in Levels : m # l => worker'[m] = worker[m] /\ held'[m] = held[m]
    BY <1>0 DEF Return, TypeOK, Shape
<1>2. TypeOK'
    BY <1>0, <1>1 DEF TypeOK, Levels
<1>3. Shape'
    BY <1>0, <1>1 DEF Shape, Levels
<1>4. \A q, m : (Passed(q, m)' <=> Passed(q, m)) /\ (Made(q, m)' <=> Made(q, m))
               /\ Earned(q) \subseteq Earned(q)'
    BY PassedKept, EarnedKept DEF Made
<1>5. Reached'
  <2>1. \A q \in Clients, m \in Levels : Made(q, m)' => Passed(q, m)'
      BY <1>0, <1>4 DEF Reached
  <2>2. \A m \in Levels : \A i \in 1..Len(queue[m]) : perform[<<queue[m][i], m>>] # "none"
      BY <1>0 DEF Reached, Made
  <2>3. \A m \in Levels :
        /\ worker'[m] \in {"handling", "waiting", "answering"} =>
              serving[m] \in Clients /\ perform[<<serving[m], m>>] # "none"
        /\ worker'[m] = "waiting" /\ setup.kind # "task" =>
              m < Depth /\ perform[<<serving[m], m + 1>>] # "none"
      BY <1>0, <1>1 DEF Reached, Made
  <2> QED BY <2>1, <2>2, <2>3 DEF Reached, Made, Levels
<1>6. Earnings'
  <2>1. \A q \in Clients, m \in Levels :
        \/ reply[<<q, m>>] = Open
        \/ reply[<<q, m>>] = Empty /\ ended \cap Answers!Path(q) # {}
        \/ reply[<<q, m>>] \in Earned(q)'
      BY <1>0, <1>4 DEF Earnings
  <2>2. \A q \in Clients, m \in Levels :
        worker'[m] = "answering" /\ serving[m] = q => held'[m] \in Earned(q)'
      BY <1>0, <1>1, <1>4 DEF Earnings
  <2>3. \A m \in Levels : worker'[m] = "exited" => m \in ended
      BY <1>0, <1>1 DEF Earnings
  <2>4. \A q \in Clients : task[q] = "closed" => setup.entry[q] \in ended
      BY <1>0 DEF Earnings
  <2> QED BY <2>1, <2>2, <2>3, <2>4 DEF Earnings, Levels, Open, Empty, Answers!Path
<1> QED BY <1>2, <1>3, <1>5, <1>6 DEF CInv

(* Lookups only climb. *)
LEMMA ReachedKept ==
    ASSUME CInv, setup' = setup,
           \A q \in Clients, m \in Levels : Made(q, m) => perform'[<<q, m>>] # "none",
           \A q \in Clients, m \in Levels :
              perform'[<<q, m>>] # "none" => Made(q, m) \/ Passed(q, m),
           \A m \in Levels : \A i \in 1..Len(queue'[m]) :
              perform'[<<queue'[m][i], m>>] # "none",
           \A m \in Levels :
              \/ worker'[m] = worker[m] /\ serving'[m] = serving[m]
              \/ worker'[m] \notin {"handling", "waiting", "answering"}
              \/ /\ serving'[m] \in Clients /\ perform'[<<serving'[m], m>>] # "none"
                 /\ worker'[m] = "waiting" /\ setup.kind # "task" =>
                      m < Depth /\ perform'[<<serving'[m], m + 1>>] # "none"
    PROVE  Reached'
<1>0. Reached
    BY DEF CInv
<1>1. \A q, m : Passed(q, m)' <=> Passed(q, m)
    BY PassedKept
<1>2. \A q \in Clients, m \in Levels : perform'[<<q, m>>] # "none" => Passed(q, m)'
    BY <1>0, <1>1 DEF Reached
<1>3. ASSUME NEW m \in Levels, worker'[m] \in {"handling", "waiting", "answering"},
             worker'[m] = worker[m], serving'[m] = serving[m]
      PROVE  /\ serving'[m] \in Clients /\ perform'[<<serving'[m], m>>] # "none"
             /\ worker'[m] = "waiting" /\ setup.kind # "task" =>
                  m < Depth /\ perform'[<<serving'[m], m + 1>>] # "none"
  <2>1. serving[m] \in Clients /\ Made(serving[m], m)
      BY <1>0, <1>3 DEF Reached
  <2>2. worker[m] = "waiting" /\ setup.kind # "task" => m < Depth /\ Made(serving[m], m + 1)
      BY <1>0 DEF Reached
  <2>3. m < Depth => m + 1 \in Levels
      BY ChainAssumption DEF Levels
  <2> QED BY <1>3, <2>1, <2>2, <2>3
<1>4. \A m \in Levels :
        /\ worker'[m] \in {"handling", "waiting", "answering"} =>
              serving'[m] \in Clients /\ perform'[<<serving'[m], m>>] # "none"
        /\ worker'[m] = "waiting" /\ setup.kind # "task" =>
              m < Depth /\ perform'[<<serving'[m], m + 1>>] # "none"
    BY <1>3
<1> QED BY <1>2, <1>4 DEF Reached, Made, Levels

LEMMA EarningsKept ==
    ASSUME CInv, setup' = setup, ended \subseteq ended',
           \A q \in Clients, m \in Levels :
              \/ reply'[<<q, m>>] = reply[<<q, m>>]
              \/ reply'[<<q, m>>] \in Earned(q)
              \/ reply'[<<q, m>>] = Empty /\ ended \cap Answers!Path(q) # {},
           \A m \in Levels : worker'[m] = "answering" =>
              worker[m] = "answering" /\ serving'[m] = serving[m] /\ held'[m] = held[m],
           \A m \in Levels : worker'[m] = "exited" => worker[m] = "exited" \/ m \in ended,
           \A q \in Clients :
              task'[q] = "closed" => task[q] = "closed" \/ setup.entry[q] \in ended
    PROVE  Earnings'
<1>0. Earnings
    BY DEF CInv
<1>1. \A q : Earned(q) \subseteq Earned(q)' /\ Answers!Path(q)' = Answers!Path(q)
    BY EarnedKept DEF Answers!Path
<1>2. \A q \in Clients, m \in Levels :
        \/ reply'[<<q, m>>] = Open
        \/ reply'[<<q, m>>] = Empty /\ ended' \cap Answers!Path(q) # {}
        \/ reply'[<<q, m>>] \in Earned(q)'
  <2> SUFFICES ASSUME NEW q \in Clients, NEW m \in Levels
               PROVE  \/ reply'[<<q, m>>] = Open
                      \/ reply'[<<q, m>>] = Empty /\ ended' \cap Answers!Path(q) # {}
                      \/ reply'[<<q, m>>] \in Earned(q)'
      OBVIOUS
  <2>1. ended \cap Answers!Path(q) # {} => ended' \cap Answers!Path(q) # {}
      OBVIOUS
  <2>2. \/ reply[<<q, m>>] = Open
        \/ reply[<<q, m>>] = Empty /\ ended \cap Answers!Path(q) # {}
        \/ reply[<<q, m>>] \in Earned(q)
      BY <1>0 DEF Earnings
  <2> QED BY <1>1, <2>1, <2>2
<1>3. \A q \in Clients, m \in Levels :
        worker'[m] = "answering" /\ serving'[m] = q => held'[m] \in Earned(q)'
    BY <1>0, <1>1 DEF Earnings
<1>4. \A m \in Levels : worker'[m] = "exited" => m \in ended'
    BY <1>0 DEF Earnings
<1>5. \A q \in Clients : task'[q] = "closed" => setup.entry[q] \in ended'
    BY <1>0 DEF Earnings
<1> QED BY <1>1, <1>2, <1>3, <1>4, <1>5 DEF Earnings, Levels, Open, Empty

(* A lookup that was made somewhere, kept in a queue or served. *)
LEMMA QueueShape ==
    ASSUME CInv, NEW m \in Levels
    PROVE  /\ queue[m] \in Seq(Clients) /\ Len(queue[m]) \in Nat
           /\ \A i \in 1..Len(queue[m]) :
                queue[m][i] \in Clients /\ Made(queue[m][i], m)
BY DEF CInv, TypeOK, Reached

LEMMA AskKeeps ==
    ASSUME CInv, NEW q \in Clients, Ask(q)
    PROVE  CInv'
<1>0. TypeOK /\ Shape /\ Reached
    BY DEF CInv
<1> DEFINE l == setup.entry[q]
<1>1. l \in Levels
    BY <1>0, SetupShape DEF Shape
<1>2. /\ perform' = [perform EXCEPT ![<<q, l>>] = "sending"]
      /\ UNCHANGED <<setup, ended, result, reply, queue, worker, serving, held, task>>
    BY DEF Ask, StartCall
<1>3. Passed(q, l)
    BY <1>0, <1>1, PathShape DEF Passed, Shape, Levels
<1> HIDE DEF l
<1>4. \A r \in Clients, m \in Levels :
        /\ Made(r, m) => perform'[<<r, m>>] # "none"
        /\ perform'[<<r, m>>] # "none" => Made(r, m) \/ Passed(r, m)
    BY <1>0, <1>1, <1>2, <1>3 DEF TypeOK, Made
<1>5. Reached'
  <2>1. \A m \in Levels : \A i \in 1..Len(queue[m]) : perform'[<<queue[m][i], m>>] # "none"
      BY <1>4, QueueShape
  <2> QED BY <1>2, <1>4, <2>1, ReachedKept
<1>6. Earnings'
    BY <1>2, EarningsKept
<1>7. TypeOK' /\ Shape'
    BY <1>0, <1>1, <1>2 DEF TypeOK, Shape, Levels
<1> QED BY <1>5, <1>6, <1>7 DEF CInv

LEMMA SendKeeps ==
    ASSUME CInv, NEW q \in Clients, NEW l \in Levels, Send(q, l)
    PROVE  CInv'
<1>0. TypeOK /\ Shape /\ Reached
    BY DEF CInv
<1>1. /\ Made(q, l) /\ Len(queue[l]) < BufferSize
      /\ queue' = [queue EXCEPT ![l] = Append(queue[l], q)]
      /\ perform' = [perform EXCEPT ![<<q, l>>] = "sent"]
      /\ UNCHANGED <<setup, ended, result, reply, worker, serving, held, task>>
    BY DEF Send, Made
<1>2. \A r \in Clients, m \in Levels : Made(r, m) <=> perform'[<<r, m>>] # "none"
    BY <1>0, <1>1 DEF TypeOK, Made
<1>3. /\ queue'[l] = Append(queue[l], q)
      /\ \A m \in Levels : m # l => queue'[m] = queue[m]
    BY <1>0, <1>1 DEF Shape
<1>4. /\ queue'[l] \in Seq(Clients) /\ Len(queue'[l]) <= BufferSize
      /\ \A i \in 1..Len(queue'[l]) :
            queue'[l][i] = q \/ (i \in 1..Len(queue[l]) /\ queue'[l][i] = queue[l][i])
    BY <1>1, <1>3, QueueShape, ChainAssumption
<1>5. Reached'
  <2>1. \A m \in Levels : \A i \in 1..Len(queue'[m]) : perform'[<<queue'[m][i], m>>] # "none"
      BY <1>1, <1>2, <1>3, <1>4, QueueShape
  <2> QED BY <1>1, <1>2, <2>1, ReachedKept
<1>6. Earnings'
    BY <1>1, EarningsKept
<1>7. TypeOK'
    BY <1>0, <1>1, <1>3, <1>4 DEF TypeOK, Levels
<1>8. Shape'
    BY <1>0, <1>1 DEF Shape, Levels
<1> QED BY <1>5, <1>6, <1>7, <1>8 DEF CInv

LEMMA NotSentKeeps ==
    ASSUME CInv, NEW q \in Clients, NEW l \in Levels, NotSent(q, l)
    PROVE  CInv'
<1>0. TypeOK /\ Shape /\ Reached
    BY DEF CInv
<1>1. PICK how \in {"aborted", "recovered"} : perform' = [perform EXCEPT ![<<q, l>>] = how]
    BY DEF NotSent
<1>2. /\ Made(q, l)
      /\ UNCHANGED <<setup, ended, result, reply, queue, worker, serving, held, task>>
    BY DEF NotSent, Made
<1>3. \A r \in Clients, m \in Levels : Made(r, m) <=> perform'[<<r, m>>] # "none"
    BY <1>0, <1>1, <1>2 DEF TypeOK, Made
<1>4. Reached'
  <2>1. \A m \in Levels : \A i \in 1..Len(queue[m]) : perform'[<<queue[m][i], m>>] # "none"
      BY <1>3, QueueShape
  <2> QED BY <1>2, <1>3, <2>1, ReachedKept
<1>5. Earnings'
    BY <1>2, EarningsKept
<1>6. TypeOK' /\ Shape'
    BY <1>0, <1>1, <1>2 DEF TypeOK, Shape, Levels
<1> QED BY <1>4, <1>5, <1>6 DEF CInv

LEMMA ReceiveKeeps ==
    ASSUME CInv, NEW l \in Levels, Receive(l)
    PROVE  CInv'
<1>0. TypeOK /\ Shape /\ Reached
    BY DEF CInv
<1>1. /\ worker[l] = "idle" /\ queue[l] # <<>>
      /\ queue' = [queue EXCEPT ![l] = Tail(queue[l])]
      /\ worker' = [worker EXCEPT ![l] = "handling"]
      /\ serving' = [serving EXCEPT ![l] = Head(queue[l])]
      /\ UNCHANGED <<setup, ended, result, perform, reply, held, task>>
    BY DEF Receive
<1>2. /\ Head(queue[l]) \in Clients /\ Made(Head(queue[l]), l)
      /\ Tail(queue[l]) \in Seq(Clients) /\ Len(Tail(queue[l])) = Len(queue[l]) - 1
      /\ \A i \in 1..Len(Tail(queue[l])) :
            i + 1 \in 1..Len(queue[l]) /\ Tail(queue[l])[i] = queue[l][i + 1]
    BY <1>1, QueueShape
<1>3. /\ queue'[l] = Tail(queue[l]) /\ worker'[l] = "handling" /\ serving'[l] = Head(queue[l])
      /\ \A m \in Levels : m # l =>
            queue'[m] = queue[m] /\ worker'[m] = worker[m] /\ serving'[m] = serving[m]
    BY <1>0, <1>1 DEF Shape, TypeOK
<1>4. Reached'
  <2>1. \A m \in Levels : \A i \in 1..Len(queue'[m]) : perform'[<<queue'[m][i], m>>] # "none"
      BY <1>1, <1>2, <1>3, QueueShape DEF Made
  <2>2. /\ serving'[l] \in Clients /\ perform'[<<serving'[l], l>>] # "none"
        /\ worker'[l] # "waiting"
      BY <1>1, <1>2, <1>3 DEF Made
  <2>3. \A r \in Clients, m \in Levels : Made(r, m) <=> perform'[<<r, m>>] # "none"
      BY <1>1 DEF Made
  <2> QED BY <1>1, <1>3, <2>1, <2>2, <2>3, ReachedKept
<1>5. Earnings'
    BY <1>1, <1>3, EarningsKept
<1>6. TypeOK'
  <2>1. Len(queue[l]) \in Nat /\ Len(queue[l]) <= BufferSize /\ BufferSize \in Nat
      BY <1>0, QueueShape, ChainAssumption DEF TypeOK
  <2>2. queue'[l] \in Seq(Clients) /\ Len(queue'[l]) <= BufferSize
      BY <1>2, <1>3, <2>1
  <2>3. \A m \in Levels : m # l => queue'[m] \in Seq(Clients) /\ Len(queue'[m]) <= BufferSize
      BY <1>0, <1>3 DEF TypeOK
  <2>4. \A m \in Levels : queue'[m] \in Seq(Clients) /\ Len(queue'[m]) <= BufferSize
      BY <2>2, <2>3
  <2> QED BY <1>0, <1>1, <1>2, <2>4 DEF TypeOK, Levels
<1>7. Shape'
    BY <1>0, <1>1 DEF Shape, Levels
<1> QED BY <1>4, <1>5, <1>6, <1>7 DEF CInv

LEMMA ExitKeeps ==
    ASSUME CInv, NEW l \in Levels, Exit(l)
    PROVE  CInv'
<1>0. TypeOK /\ Shape /\ Reached
    BY DEF CInv
<1>1. /\ l \in ended /\ worker' = [worker EXCEPT ![l] = "exited"]
      /\ UNCHANGED <<setup, ended, result, perform, reply, queue, serving, held, task>>
      /\ worker'[l] = "exited" /\ \A m \in Levels : m # l => worker'[m] = worker[m]
    BY <1>0 DEF Exit, TypeOK
<1>2. Reached'
  <2>1. \A r \in Clients, m \in Levels : Made(r, m) <=> perform'[<<r, m>>] # "none"
      BY <1>1 DEF Made
  <2>2. \A m \in Levels : \A i \in 1..Len(queue'[m]) : perform'[<<queue'[m][i], m>>] # "none"
      BY <1>1, <2>1, QueueShape
  <2> QED BY <1>1, <2>1, <2>2, ReachedKept
<1>3. Earnings'
    BY <1>1, EarningsKept
<1>4. TypeOK' /\ Shape'
    BY <1>0, <1>1 DEF TypeOK, Shape, Levels
<1> QED BY <1>2, <1>3, <1>4 DEF CInv

-----------------------------------------------------------------------------
(* The steps of the worker that end with a result.                         *)
LEMMA Served ==
    ASSUME CInv, NEW l \in Levels, worker[l] \in {"handling", "waiting", "answering"}
    PROVE  /\ serving[l] \in Clients /\ Passed(serving[l], l) /\ Made(serving[l], l)
           /\ setup \in Setups
BY DEF CInv, Reached, Shape

LEMMA MatchKeeps ==
    ASSUME CInv, NEW l \in Levels, Match(l)
    PROVE  CInv'
<1>1. worker[l] = "handling" /\ l \in setup.has[serving[l]]
    BY DEF Match, Answerable
<1>2. Answers!Nearest(serving[l]) = Answers!Found(l)
    BY <1>1, Served, NearestFound
<1>3. \A q \in Clients : serving[l] = q => Answers!Found(l) \in Earned(q)
    BY <1>2 DEF Earned
<1> HIDE DEF Answers!Found
<1> QED BY <1>1, <1>3, ReturnKeeps DEF Match

LEMMA MissAtTopKeeps ==
    ASSUME CInv, NEW l \in Levels, MissAtTop(l)
    PROVE  CInv'
<1>1. worker[l] = "handling" /\ l \notin setup.has[serving[l]] /\ l = Depth
    BY DEF MissAtTop, Answerable
<1>2. Answers!Nearest(serving[l]) = Answers!Unknown
    BY <1>1, Served, NearestUnknown
<1>3. \A q \in Clients : serving[l] = q => Answers!Unknown \in Earned(q)
    BY <1>2 DEF Earned
<1> QED BY <1>1, <1>3, ReturnKeeps DEF MissAtTop

LEMMA TakeDelegatedKeeps ==
    ASSUME CInv, NEW l \in Levels, TakeDelegated(l)
    PROVE  CInv'
<1>1. worker[l] = "waiting" /\ setup.kind # "task"
    BY DEF TakeDelegated
<1>2. l + 1 \in Levels /\ Upper(l) = l + 1
    BY <1>1, ChainAssumption DEF CInv, Reached, Levels, Upper
<1>3. PICK a \in Gets(serving[l], Upper(l)) : Return(l, a)
    BY DEF TakeDelegated
<1>4. \A q \in Clients : serving[l] = q => a \in Earned(q)
    BY <1>2, <1>3, GetsEarned
<1> QED BY <1>1, <1>3, <1>4, ReturnKeeps DEF TakeDelegated

LEMMA TakeTaskKeeps ==
    ASSUME CInv, NEW l \in Levels, TakeTask(l)
    PROVE  CInv'
<1>1. worker[l] = "waiting" /\ setup.kind = "task"
    BY DEF TakeTask
<1>2. /\ serving[l] \in Clients /\ Passed(serving[l], l) /\ setup \in Setups
      /\ l = setup.entry[serving[l]] /\ l \in setup.has[serving[l]]
    BY <1>1, Served, SetupShape DEF Passed
<1>3. Answers!Found(l) \in Earned(serving[l])
    BY <1>2, NearestFound DEF Earned
<1>4. l \in ended => Answers!Failed \in Earned(serving[l])
    BY <1>2 DEF Earned, Passed
<1>5. task[serving[l]] = "closed" => l \in ended
    BY <1>2 DEF CInv, Earnings
<1>6. \A q \in Clients : serving[l] = q =>
        /\ Answers!Found(l) \in Earned(q)
        /\ l \in ended => Answers!Failed \in Earned(q)
    BY <1>3, <1>4
<1>7. UNCHANGED <<setup, ended, perform, reply, queue, serving, task, result>>
    BY DEF TakeTask
<1>8. CASE Return(l, Answers!Found(l))
    BY <1>1, <1>6, <1>7, <1>8, ReturnKeeps
<1>9. CASE l \in ended /\ Return(l, Answers!Failed)
    BY <1>1, <1>6, <1>7, <1>9, ReturnKeeps
<1> QED BY <1>5, <1>8, <1>9 DEF TakeTask

-----------------------------------------------------------------------------
(* A worker that asks the scope above has not got it itself. *)
LEMMA DelegateKeeps ==
    ASSUME CInv, NEW l \in Levels, Delegate(l)
    PROVE  CInv'
<1>0. TypeOK /\ Shape /\ Reached
    BY DEF CInv
<1> DEFINE q == serving[l]
           u == l + 1
<1>1. /\ worker[l] = "handling" /\ setup.kind # "task" /\ l \notin setup.has[q] /\ l < Depth
      /\ perform' = [perform EXCEPT ![<<q, u>>] = "sending"]
      /\ worker' = [worker EXCEPT ![l] = "waiting"]
      /\ UNCHANGED <<setup, ended, result, reply, queue, serving, held, task>>
    BY DEF Delegate, Answerable, StartCall, Upper
<1>2. q \in Clients /\ Passed(q, l) /\ Made(q, l) /\ setup \in Setups
    BY <1>1, Served
<1>3. u \in Levels /\ l \in Nat
    BY <1>1, ChainAssumption DEF Levels
<1>4. Passed(q, u)
  <2>1. setup.entry[q] \in Nat /\ setup.entry[q] <= l
      BY <1>2, SetupShape, PathShape DEF Passed, Levels
  <2>2. u \in Answers!Path(q)
      BY <1>2, <1>3, <2>1, PathShape
  <2>3. \A m \in Levels : m < u => m < l \/ m = l
      BY <1>3 DEF Levels
  <2> QED BY <1>1, <1>2, <2>2, <2>3 DEF Passed
<1>5. /\ worker'[l] = "waiting" /\ serving'[l] = q
      /\ \A m \in Levels : m # l => worker'[m] = worker[m] /\ serving'[m] = serving[m]
    BY <1>0, <1>1 DEF TypeOK
<1> HIDE DEF q, u
<1>6. \A r \in Clients, m \in Levels :
        /\ Made(r, m) => perform'[<<r, m>>] # "none"
        /\ perform'[<<r, m>>] # "none" => Made(r, m) \/ Passed(r, m)
    BY <1>0, <1>1, <1>2, <1>3, <1>4 DEF TypeOK, Made
<1>7. perform'[<<q, l>>] # "none" /\ perform'[<<q, u>>] # "none"
    BY <1>0, <1>1, <1>2, <1>3, <1>6 DEF TypeOK
<1>8. Reached'
  <2>1. \A m \in Levels : \A i \in 1..Len(queue[m]) : perform'[<<queue[m][i], m>>] # "none"
      BY <1>6, QueueShape
  <2>2. /\ serving'[l] \in Clients /\ perform'[<<serving'[l], l>>] # "none"
        /\ l < Depth /\ perform'[<<serving'[l], l + 1>>] # "none"
      BY <1>1, <1>2, <1>5, <1>7 DEF u
  <2> QED BY <1>1, <1>5, <1>6, <2>1, <2>2, ReachedKept
<1>9. Earnings'
  <2>1. \A m \in Levels : worker'[m] = "answering" => worker[m] = "answering"
      BY <1>5
  <2>2. \A m \in Levels : worker'[m] = "exited" => worker[m] = "exited"
      BY <1>5
  <2> QED BY <1>1, <2>1, <2>2, EarningsKept
<1>10. TypeOK' /\ Shape'
    BY <1>0, <1>1, <1>2, <1>3 DEF TypeOK, Shape, Levels
<1> QED BY <1>8, <1>9, <1>10 DEF CInv

(* What a worker puts in the reply channel, it has earned; the channel of  *)
(* a scope that has ended may be closed with nothing in it.                *)
LEMMA ReplyKeeps ==
    ASSUME CInv, NEW l \in Levels, NEW a, Reply(l, a),
           a = held[l] \/ (a = Empty /\ l \in ended)
    PROVE  CInv'
<1>0. TypeOK /\ Shape /\ Reached /\ Earnings
    BY DEF CInv
<1> DEFINE q == serving[l]
<1>1. /\ worker[l] = "answering"
      /\ reply' = [reply EXCEPT ![<<q, l>>] = a]
      /\ worker' = [worker EXCEPT ![l] = "idle"]
      /\ serving' = [serving EXCEPT ![l] = Idle]
      /\ UNCHANGED <<setup, ended, result, perform, queue, held, task>>
    BY DEF Reply
<1>2. q \in Clients /\ Passed(q, l) /\ setup \in Setups
    BY <1>1, Served
<1>3. a \in Earned(q) \/ (a = Empty /\ ended \cap Answers!Path(q) # {})
    BY <1>0, <1>1, <1>2 DEF Earnings, Passed
<1> HIDE DEF q
<1>4. \A r \in Clients, m \in Levels :
        \/ reply'[<<r, m>>] = reply[<<r, m>>]
        \/ reply'[<<r, m>>] \in Earned(r)
        \/ reply'[<<r, m>>] = Empty /\ ended \cap Answers!Path(r) # {}
  <2> SUFFICES ASSUME NEW r \in Clients, NEW m \in Levels
               PROVE  \/ reply'[<<r, m>>] = reply[<<r, m>>]
                      \/ reply'[<<r, m>>] \in Earned(r)
                      \/ reply'[<<r, m>>] = Empty /\ ended \cap Answers!Path(r) # {}
      OBVIOUS
  <2>1. CASE r = q /\ m = l
    <3>1. reply'[<<r, m>>] = a
        BY <1>0, <1>1, <2>1 DEF Shape
    <3> QED BY <1>3, <2>1, <3>1
  <2>2. CASE ~ (r = q /\ m = l)
      BY <1>0, <1>1, <2>2 DEF Shape
  <2> QED BY <2>1, <2>2
<1>5. /\ worker'[l] = "idle"
      /\ \A m \in Levels : m # l => worker'[m] = worker[m] /\ serving'[m] = serving[m]
    BY <1>0, <1>1 DEF TypeOK
<1>6. Earnings'
  <2>1. \A m \in Levels : worker'[m] = "answering" =>
            worker[m] = "answering" /\ serving'[m] = serving[m] /\ held'[m] = held[m]
      BY <1>1, <1>5
  <2>2. \A m \in Levels : worker'[m] = "exited" => worker[m] = "exited"
      BY <1>5
  <2> QED BY <1>1, <1>4, <2>1, <2>2, EarningsKept
<1>7. Reached'
  <2>1. \A r \in Clients, m \in Levels : Made(r, m) <=> perform'[<<r, m>>] # "none"
      BY <1>1 DEF Made
  <2>2. \A m \in Levels : \A i \in 1..Len(queue'[m]) : perform'[<<queue'[m][i], m>>] # "none"
      BY <1>1, <2>1, QueueShape
  <2> QED BY <1>1, <1>5, <2>1, <2>2, ReachedKept
<1>8. TypeOK' /\ Shape'
    BY <1>0, <1>1 DEF TypeOK, Shape, Levels
<1> QED BY <1>6, <1>7, <1>8 DEF CInv

-----------------------------------------------------------------------------
(* Steps that leave lookups, workers and replies alone. *)
LEMMA StillKeeps ==
    ASSUME CInv, setup' = setup, ended \subseteq ended', ended' \subseteq Clients \union Levels,
           task' \in [Clients -> {"none", "ready", "running", "delivered", "closed"}],
           \A q \in Clients :
              task'[q] = "closed" => task[q] = "closed" \/ setup.entry[q] \in ended,
           UNCHANGED <<perform, reply, queue, worker, serving, held>>,
           DOMAIN result' = Clients
    PROVE  CInv'
<1>0. TypeOK /\ Shape /\ Reached
    BY DEF CInv
<1>1. Reached'
  <2>1. \A r \in Clients, m \in Levels : Made(r, m) <=> perform'[<<r, m>>] # "none"
      BY DEF Made
  <2>2. \A m \in Levels : \A i \in 1..Len(queue'[m]) : perform'[<<queue'[m][i], m>>] # "none"
      BY <2>1, QueueShape
  <2> QED BY <2>1, <2>2, ReachedKept
<1>2. Earnings'
    BY EarningsKept
<1>3. TypeOK' /\ Shape'
    BY <1>0 DEF TypeOK, Shape, Levels
<1> QED BY <1>1, <1>2, <1>3 DEF CInv

LEMMA StartTaskKeeps ==
    ASSUME CInv, NEW l \in Levels, StartTask(l)
    PROVE  CInv'
<1>0. TypeOK /\ Shape /\ Reached
    BY DEF CInv
<1> DEFINE q == serving[l]
<1>1. /\ worker[l] = "handling" /\ setup.kind = "task"
      /\ task' = [task EXCEPT ![q] = "ready"]
      /\ worker' = [worker EXCEPT ![l] = "waiting"]
      /\ UNCHANGED <<setup, ended, result, perform, reply, queue, serving, held>>
    BY DEF StartTask
<1>2. q \in Clients /\ Made(q, l)
    BY <1>1, Served
<1>3. /\ worker'[l] = "waiting" /\ serving'[l] = q
      /\ \A m \in Levels : m # l => worker'[m] = worker[m] /\ serving'[m] = serving[m]
    BY <1>0, <1>1 DEF TypeOK
<1> HIDE DEF q
<1>4. \A r \in Clients, m \in Levels : Made(r, m) <=> perform'[<<r, m>>] # "none"
    BY <1>1 DEF Made
<1>5. Reached'
  <2>1. \A m \in Levels : \A i \in 1..Len(queue'[m]) : perform'[<<queue'[m][i], m>>] # "none"
      BY <1>1, <1>4, QueueShape
  <2>2. serving'[l] \in Clients /\ perform'[<<serving'[l], l>>] # "none"
      BY <1>2, <1>3, <1>4
  <2> QED BY <1>1, <1>3, <1>4, <2>1, <2>2, ReachedKept
<1>6. Earnings'
  <2>1. \A m \in Levels : worker'[m] = "answering" => worker[m] = "answering"
      BY <1>3
  <2>2. \A m \in Levels : worker'[m] = "exited" => worker[m] = "exited"
      BY <1>3
  <2>3. \A r \in Clients : task'[r] = "closed" => task[r] = "closed"
      BY <1>0, <1>1, <1>2 DEF TypeOK
  <2> QED BY <1>1, <2>1, <2>2, <2>3, EarningsKept
<1>7. TypeOK' /\ Shape'
    BY <1>0, <1>1, <1>2 DEF TypeOK, Shape, Levels
<1> QED BY <1>5, <1>6, <1>7 DEF CInv

LEMMA TaskStepKeeps ==
    ASSUME CInv, NEW q \in Clients, TaskStep(q)
    PROVE  CInv'
<1>0. TypeOK /\ Shape
    BY DEF CInv
<1>1. PICK s \in {"running", "delivered", "closed"} :
        task' = [task EXCEPT ![q] = s] /\ (s = "closed" => setup.entry[q] \in ended)
    BY DEF TaskStep, RunTask, EndTask
<1>2. UNCHANGED <<setup, ended, result, perform, reply, queue, worker, serving, held>>
    BY DEF TaskStep, RunTask, EndTask
<1>3. /\ task' \in [Clients -> {"none", "ready", "running", "delivered", "closed"}]
      /\ \A r \in Clients :
            task'[r] = "closed" => task[r] = "closed" \/ setup.entry[r] \in ended
    BY <1>0, <1>1 DEF TypeOK
<1>4. ended' \subseteq Clients \union Levels /\ DOMAIN result' = Clients
    BY <1>0, <1>2 DEF TypeOK, Shape
<1> QED BY <1>2, <1>3, <1>4, StillKeeps

LEMMA TakeKeeps ==
    ASSUME CInv, NEW q \in Clients, Take(q)
    PROVE  CInv'
<1>0. TypeOK /\ Shape
    BY DEF CInv
<1>1. DOMAIN result' = Clients
    BY <1>0 DEF Take, Shape
<1>2. UNCHANGED <<setup, ended, perform, reply, queue, worker, serving, held, task>>
    BY DEF Take
<1>3. /\ task' \in [Clients -> {"none", "ready", "running", "delivered", "closed"}]
      /\ ended' \subseteq Clients \union Levels
    BY <1>0, <1>2 DEF TypeOK
<1> QED BY <1>1, <1>2, <1>3, StillKeeps

LEMMA EndKeeps ==
    ASSUME CInv, NEW x, End(x)
    PROVE  CInv'
<1>0. TypeOK /\ Shape
    BY DEF CInv
<1>1. /\ ended \subseteq ended' /\ ended' \subseteq Clients \union Levels
      /\ UNCHANGED <<setup, result, perform, reply, queue, worker, serving, held, task>>
    BY <1>0, SetupShape DEF End, TypeOK, Shape
<1>2. /\ task' \in [Clients -> {"none", "ready", "running", "delivered", "closed"}]
      /\ DOMAIN result' = Clients
    BY <1>0, <1>1 DEF TypeOK, Shape
<1> QED BY <1>1, <1>2, StillKeeps

LEMMA StutterKeeps == CInv /\ UNCHANGED vars => CInv'
<1> SUFFICES ASSUME CInv, UNCHANGED vars PROVE CInv'
    OBVIOUS
<1>1. /\ UNCHANGED <<setup, ended, result, perform, reply, queue, worker, serving, held, task>>
    BY DEF vars
<1>2. /\ task' \in [Clients -> {"none", "ready", "running", "delivered", "closed"}]
      /\ ended' \subseteq Clients \union Levels /\ DOMAIN result' = Clients
    BY <1>1 DEF CInv, TypeOK, Shape
<1> QED BY <1>1, <1>2, StillKeeps

(* The invariant is inductive: workers, one step at a time, and contexts   *)
(* that end at any moment.                                                 *)
THEOREM ChainInductive == CInv /\ [Next]_vars => CInv'
<1> SUFFICES ASSUME CInv, [Next]_vars PROVE CInv'
    OBVIOUS
<1>1. ASSUME NEW q \in Clients, Ask(q) \/ ClientStep(q) \/ TaskStep(q) PROVE CInv'
    BY <1>1, AskKeeps, TakeKeeps, SendKeeps, NotSentKeeps, TaskStepKeeps DEF ClientStep
<1>2. ASSUME NEW l \in Levels, Receive(l) \/ Match(l) \/ MissAtTop(l) \/ Delegate(l)
                                \/ TakeDelegated(l)
      PROVE  CInv'
    BY <1>2, ReceiveKeeps, MatchKeeps, MissAtTopKeeps, DelegateKeeps, TakeDelegatedKeeps
<1>3. ASSUME NEW l \in Levels, Answer(l) \/ DropAnswer(l) \/ StartTask(l) \/ TakeTask(l)
                                \/ Exit(l)
      PROVE  CInv'
  <2>1. CASE Answer(l)
      BY <2>1, ReplyKeeps DEF Answer
  <2>2. CASE DropAnswer(l)
      BY <2>2, ReplyKeeps DEF DropAnswer
  <2> QED BY <1>3, <2>1, <2>2, StartTaskKeeps, TakeTaskKeeps, ExitKeeps
<1>4. ASSUME NEW x \in Clients \union Levels, End(x) PROVE CInv'
    BY <1>4, EndKeeps
<1>5. CASE UNCHANGED vars
    BY <1>5, StutterKeeps
<1> QED BY <1>1, <1>2, <1>3, <1>4, <1>5 DEF Next, WorkerStep

(* The variables keep their types: contexts, calls, buffers within their   *)
(* capacity, workers and tasks.                                            *)
THEOREM ChainTypeCorrect == Spec => []TypeOK
<1>1. Spec => []CInv
    BY InitCInv, ChainInductive, PTL DEF Spec
<1>2. CInv => TypeOK
    BY DEF CInv
<1> QED BY <1>1, <1>2, PTL

-----------------------------------------------------------------------------
(* Every step of the chain is a step of one lookup or none at all.         *)
LEMMA TakeResolves ==
    ASSUME CInv, NEW q \in Clients, Take(q)
    PROVE  Answers!Resolve(q)
<1>1. setup.entry[q] \in Levels
    BY SetupShape DEF CInv, Shape
<1>2. PICK a \in Gets(q, setup.entry[q]) : result' = [result EXCEPT ![q] = a]
    BY DEF Take
<1>3. a \in Earned(q)
    BY <1>1, <1>2, GetsEarned
<1> QED BY <1>2, <1>3 DEF Take, Answers!Resolve, Earned

(* The chain as a whole answers as one lookup (ScopedLookup): the nearest  *)
(* scope's value, or "no handler" when no scope has it, and less than that *)
(* only when a context on the way has ended.  binding.Effect,              *)
(* dependency.Effect and task.Effect, whose handlers ask the scope above   *)
(* through its queue and its worker.                                       *)
THEOREM ChainIsALookup == Spec => ImplementsLookup
<1>1. Init => Answers!LookupInit
    BY DEF Init, Answers!LookupInit
<1>2. CInv /\ [Next]_vars =>
        [(\E q \in Clients : Answers!Resolve(q)) \/ Answers!ContextsEnd]_Answers!lookupVars
  <2> SUFFICES ASSUME CInv, [Next]_vars
               PROVE  \/ \E q \in Clients : Answers!Resolve(q)
                      \/ Answers!ContextsEnd
                      \/ UNCHANGED <<setup, ended, result>>
      BY DEF Answers!lookupVars
  <2>1. ASSUME NEW q \in Clients, Take(q) PROVE Answers!Resolve(q)
      BY <2>1, TakeResolves
  <2>2. ASSUME NEW q \in Clients,
               Ask(q) \/ (\E l \in Levels : Send(q, l) \/ NotSent(q, l)) \/ TaskStep(q)
        PROVE  UNCHANGED <<setup, ended, result>>
      BY <2>2 DEF Ask, Send, NotSent, TaskStep, RunTask, EndTask
  <2>3. ASSUME NEW l \in Levels, WorkerStep(l) \/ Exit(l)
        PROVE  UNCHANGED <<setup, ended, result>>
      BY <2>3 DEF WorkerStep, Exit, Receive, Match, MissAtTop, Delegate, TakeDelegated,
            Answer, DropAnswer, Reply, StartTask, TakeTask
  <2>4. ASSUME NEW x \in Clients \union Levels, End(x) PROVE Answers!ContextsEnd
    <3>1. /\ ended' = ended \union {x} /\ {x} \in SUBSET (Clients \union 1..Depth)
          /\ UNCHANGED <<setup, result>>
        BY <2>4 DEF End, Levels
    <3> QED BY <3>1 DEF Answers!ContextsEnd
  <2>5. CASE UNCHANGED vars
      BY <2>5 DEF vars
  <2> QED BY <2>1, <2>2, <2>3, <2>4, <2>5 DEF Next, ClientStep
<1>3. Spec => []CInv
    BY InitCInv, ChainInductive, PTL DEF Spec
<1>4. Spec => Answers!LookupSpec
    BY <1>1, <1>2, <1>3, PTL DEF Spec, Answers!LookupSpec
<1> QED BY <1>4 DEF ImplementsLookup
=============================================================================
