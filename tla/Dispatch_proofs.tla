-------------------------- MODULE Dispatch_proofs ---------------------------
(***************************************************************************)
(* Theorems about the dispatcher, and about the resumable effects and the  *)
(* supervisor of child goroutines that are built on it, for any number of  *)
(* callers, keys, workers and calls, any hash, batches and buffer size.    *)
(*                                                                         *)
(* The dispatcher.  The order of calls with one key is not inductive by    *)
(* itself: it needs to know that everything accepted and not yet started   *)
(* is in the buffer of its partition (Waiting), and that the calls of one  *)
(* caller are ordered in a buffer (Ordered).                               *)
(***************************************************************************)
EXTENDS Supervisor, FiniteSetTheorems, TLAPS

(* What a buffer holds: accepted calls of its partition, never started. *)
Buffered ==
    \A w \in Workers : \A i \in 1..Len(queue[w]) :
        /\ perform[queue[w][i]] = "sent"
        /\ started[queue[w][i]] = 0
        /\ PartitionFor(queue[w][i]) = w

(* The calls of one caller are buffered in the order it made them. *)
Ordered ==
    \A w \in Workers : \A i, j \in 1..Len(queue[w]) :
        i < j /\ queue[w][i][1] = queue[w][j][1]
            => queue[w][i][2] < queue[w][j][2]

(* An accepted call is in its buffer until it is started. *)
Waiting ==
    \A call \in Calls :
        perform[call] = "sent" /\ started[call] = 0 =>
            \E i \in 1..Len(queue[PartitionFor(call)]) :
                queue[PartitionFor(call)][i] = call

Bounded == \A w \in Workers : Len(queue[w]) <= BufferSize

(* A caller is inside at most one select: that of its last call. *)
Sequential ==
    \A c \in Callers : \A n \in 1..MaxCalls :
        /\ n > issued[c] <=> perform[<<c, n>>] = "new"
        /\ n < issued[c] => perform[<<c, n>>] # "sending"

(* A worker handles a call of its own partition, which it has started, or  *)
(* no call.                                                                *)
Handling ==
    \A w \in Workers :
        /\ worker[w] = "handling" =>
            /\ current[w] \in Calls
            /\ PartitionFor(current[w]) = w
            /\ started[current[w]] = 1
        /\ worker[w] # "handling" => current[w] = NoCall

(* Channels close after the end of the workers' context. *)
Closing ==
    /\ \A w \in Workers : worker[w] = "exited" => Handler \in cancelled
    /\ \A call \in Calls : perform[call] = "recovered" => Handler \in cancelled

IInv ==
    /\ TypeOK
    /\ Buffered
    /\ Ordered
    /\ Waiting
    /\ Bounded
    /\ Sequential
    /\ Handling
    /\ Closing
    /\ AtMostOnce
    /\ PerKeyOrder

-----------------------------------------------------------------------------
(* Initially nothing is accepted and every buffer is empty. *)
LEMMA InitIInv == Init => IInv
<1> SUFFICES ASSUME Init PROVE IInv
    OBVIOUS
<1> USE DispatcherAssumption
<1>1. TypeOK
    BY DEF Init, TypeOK, PerformStates, Calls, Contexts
<1>2. Buffered /\ Ordered /\ Waiting /\ Bounded
    BY DEF Init, Buffered, Ordered, Waiting, Bounded
<1>3. Sequential
    BY DEF Init, Sequential, Calls
<1>4. Handling /\ Closing
    BY DEF Init, Handling, Closing
<1>5. AtMostOnce /\ PerKeyOrder
    BY DEF Init, AtMostOnce, PerKeyOrder, Calls
<1> QED BY <1>1, <1>2, <1>3, <1>4, <1>5 DEF IInv

LEMMA QueueElement ==
    ASSUME TypeOK, NEW w \in Workers, NEW i \in 1..Len(queue[w])
    PROVE  queue[w][i] \in Calls
<1>1. queue[w] \in Seq(Calls)
    BY DEF TypeOK
<1> QED BY <1>1

(* The call a caller is sending is its last one, and was never started. *)
LEMMA SendingIsLast ==
    ASSUME TypeOK, Sequential, AtMostOnce,
           NEW call \in Calls, perform[call] = "sending"
    PROVE  /\ call[1] \in Callers /\ call[2] \in 1..MaxCalls
           /\ call = <<call[1], call[2]>>
           /\ call[2] = issued[call[1]]
           /\ started[call] = 0
<1>1. PICK c \in Callers, n \in 1..MaxCalls : call = <<c, n>>
    BY DEF Calls
<1>2. n = issued[c]
  <2>1. perform[<<c, n>>] = "sending" /\ issued[c] \in 0..MaxCalls
    BY <1>1 DEF TypeOK
  <2>2. ~(n > issued[c]) /\ ~(n < issued[c])
    BY <2>1 DEF Sequential
  <2> QED BY <2>1, <2>2, DispatcherAssumption
<1>3. started[call] = 0
  <2>1. started[call] \in Nat /\ started[call] <= 0
    BY DEF TypeOK, AtMostOnce
  <2> QED BY <2>1
<1> QED BY <1>1, <1>2, <1>3

(* Beginning a call touches neither buffers nor workers. *)
LEMMA IssueIInv ==
    ASSUME IInv, NEW c \in Callers, Issue(c)
    PROVE  IInv'
<1> USE DispatcherAssumption DEF callVars, workVars, scopeVars
<1> DEFINE call == <<c, issued[c] + 1>>
<1>0. /\ TypeOK /\ Buffered /\ Waiting /\ Sequential /\ AtMostOnce /\ PerKeyOrder
      /\ call \in Calls /\ perform[call] = "new"
    BY DEF IInv, Issue, TypeOK, Sequential, Calls
<1>1. TypeOK'
    BY <1>0 DEF Issue, TypeOK, PerformStates
<1>2. Buffered'
  <2> SUFFICES ASSUME NEW w \in Workers, NEW i \in 1..Len(queue[w])
               PROVE  /\ perform'[queue[w][i]] = "sent"
                      /\ started[queue[w][i]] = 0
                      /\ PartitionOf[key[queue[w][i]]] = w
    BY DEF Buffered, PartitionFor, Issue
  <2>1. queue[w][i] \in Calls /\ queue[w][i] # call
    BY <1>0, QueueElement DEF Buffered
  <2>2. /\ perform[queue[w][i]] = "sent"
        /\ started[queue[w][i]] = 0
        /\ PartitionOf[key[queue[w][i]]] = w
    BY <1>0 DEF Buffered, PartitionFor
  <2>3. perform'[queue[w][i]] = perform[queue[w][i]]
    BY <2>1, <1>0 DEF Issue, TypeOK
  <2> QED BY <2>2, <2>3
<1>3. Ordered' /\ Bounded' /\ Handling' 
    BY <1>0 DEF IInv, Ordered, Bounded, Handling, Issue, PartitionFor
<1>4. Waiting'
    BY <1>0, <1>1 DEF Waiting, Issue, TypeOK, PartitionFor
<1>5. Sequential'
  <2> SUFFICES ASSUME NEW d \in Callers, NEW n \in 1..MaxCalls
               PROVE  /\ n > issued'[d] <=> perform'[<<d, n>>] = "new"
                      /\ n < issued'[d] => perform'[<<d, n>>] # "sending"
    BY DEF Sequential
  <2>0. <<d, n>> \in Calls /\ issued[c] \in 0..MaxCalls
    BY <1>0 DEF Calls, TypeOK
  <2>1. CASE d # c
    BY <2>0, <2>1, <1>0 DEF Sequential, Issue, TypeOK
  <2>2. CASE d = c /\ n = issued[c] + 1
    BY <2>0, <2>2, <1>0 DEF Sequential, Issue, TypeOK
  <2>3. CASE d = c /\ n # issued[c] + 1
    <3>1. perform'[<<d, n>>] = perform[<<d, n>>] /\ issued'[d] = issued[c] + 1
      BY <2>0, <2>3, <1>0 DEF Issue, TypeOK
    <3>2. n = issued[c] => perform[<<d, n>>] # "sending"
      BY <2>0, <2>3, <1>0 DEF Issue, TypeOK
    <3> QED BY <2>0, <2>3, <3>1, <3>2, <1>0 DEF Sequential
  <2> QED BY <2>1, <2>2, <2>3
<1>6. Closing'
    BY <1>0 DEF IInv, Closing, Issue, TypeOK
<1>7. AtMostOnce'
    BY <1>0 DEF AtMostOnce, Issue, TypeOK
<1>8. PerKeyOrder'
    BY <1>0 DEF PerKeyOrder, Issue, TypeOK, Calls
<1> QED BY <1>1, <1>2, <1>3, <1>4, <1>5, <1>6, <1>7, <1>8 DEF IInv

(* A buffered send puts the caller's last call behind its earlier ones. *)
LEMMA SendIInv ==
    ASSUME IInv, NEW call \in Calls, Send(call)
    PROVE  IInv'
<1> USE DispatcherAssumption DEF callVars, workVars, scopeVars
<1> DEFINE w == PartitionFor(call)
           len == Len(queue[w])
<1>0. /\ TypeOK /\ Buffered /\ Ordered /\ Waiting /\ Sequential
      /\ AtMostOnce /\ PerKeyOrder /\ Bounded /\ Handling /\ Closing
    BY DEF IInv
<1>1. w \in Workers /\ perform[call] = "sending" /\ started[call] = 0
  <2>1. perform[call] = "sending"
    BY DEF Send
  <2>2. w \in Workers
    BY <1>0 DEF TypeOK, PartitionFor
  <2> QED BY <2>1, <2>2, <1>0, SendingIsLast
<1>2. /\ queue[w] \in Seq(Calls)
      /\ queue' = [queue EXCEPT ![w] = Append(queue[w], call)]
      /\ len < BufferSize
    BY <1>0, <1>1 DEF TypeOK, Send
<1>3. /\ queue'[w] = Append(queue[w], call)
      /\ Len(queue'[w]) = len + 1
      /\ queue'[w][len + 1] = call
      /\ \A i \in 1..len : queue'[w][i] = queue[w][i]
      /\ \A v \in Workers : v # w => queue'[v] = queue[v]
      /\ len \in Nat
    BY <1>0, <1>1, <1>2 DEF TypeOK
<1>frame. /\ perform'[call] = "sent"
          /\ \A d \in Calls : d # call => perform'[d] = perform[d]
          /\ key' = key /\ started' = started
    BY <1>0 DEF Send, TypeOK
<1>4. TypeOK'
    BY <1>0, <1>1, <1>2 DEF Send, TypeOK, PerformStates
<1>5. Buffered'
  <2> SUFFICES ASSUME NEW v \in Workers, NEW i \in 1..Len(queue'[v])
               PROVE  /\ perform'[queue'[v][i]] = "sent"
                      /\ started'[queue'[v][i]] = 0
                      /\ PartitionOf[key'[queue'[v][i]]] = v
      BY DEF Buffered, PartitionFor
  <2>1. CASE v = w /\ i = len + 1
      <3>1. queue'[v][i] = call
          BY <2>1, <1>3
      <3> QED BY <2>1, <3>1, <1>1, <1>frame DEF PartitionFor
  <2>2. CASE ~(v = w /\ i = len + 1)
      <3>1. i \in 1..Len(queue[v]) /\ queue'[v][i] = queue[v][i]
          BY <2>2, <1>3
      <3>2. queue[v][i] \in Calls
          BY <3>1, <1>0, QueueElement
      <3>3. /\ perform[queue[v][i]] = "sent" /\ started[queue[v][i]] = 0
            /\ PartitionOf[key[queue[v][i]]] = v
          BY <3>1, <1>0 DEF Buffered, PartitionFor
      <3> QED BY <3>1, <3>2, <3>3, <1>1, <1>frame
  <2> QED BY <2>1, <2>2
<1>6. Ordered'
  <2> SUFFICES ASSUME NEW v \in Workers,
                      NEW i \in 1..Len(queue'[v]), NEW j \in 1..Len(queue'[v]),
                      i < j, queue'[v][i][1] = queue'[v][j][1]
               PROVE  queue'[v][i][2] < queue'[v][j][2]
      BY DEF Ordered
  <2>1. CASE v = w /\ j = len + 1
      <3> DEFINE old == queue[w][i]
      <3>1. i \in 1..len /\ queue'[v][i] = old /\ queue'[v][j] = call
          BY <2>1, <1>3
      <3>2. old \in Calls /\ perform[old] = "sent" /\ old[1] = call[1]
        <4>1. old \in Calls
            BY <3>1, <1>0, <1>1, QueueElement
        <4>2. perform[old] = "sent"
            BY <3>1, <1>0, <1>1 DEF Buffered
        <4> QED BY <4>1, <4>2, <3>1
      <3>3. PICK m \in 1..MaxCalls : old = <<call[1], m>>
          BY <3>2 DEF Calls
      <3>4. call[1] \in Callers /\ call = <<call[1], call[2]>> /\ call[2] = issued[call[1]]
          BY <1>0, <1>1, SendingIsLast
      <3>5. ~(m > issued[call[1]]) /\ m # call[2]
          BY <3>2, <3>3, <3>4, <1>0, <1>1 DEF Sequential
      <3>6. m < call[2] /\ old[2] = m
          BY <3>3, <3>4, <3>5, <1>0, DispatcherAssumption DEF TypeOK
      <3> QED BY <3>1, <3>6
  <2>2. CASE ~(v = w /\ j = len + 1)
      <3>1. /\ i \in 1..Len(queue[v]) /\ j \in 1..Len(queue[v])
            /\ queue'[v][i] = queue[v][i] /\ queue'[v][j] = queue[v][j]
        <4>1. CASE v # w
            BY <4>1, <1>3
        <4>2. CASE v = w
            BY <4>2, <2>2, <1>3
        <4> QED BY <4>1, <4>2
      <3> QED BY <3>1, <1>0 DEF Ordered
  <2> QED BY <2>1, <2>2
<1>7. Waiting'
  <2> SUFFICES ASSUME NEW d \in Calls, perform'[d] = "sent", started'[d] = 0
               PROVE  \E i \in 1..Len(queue'[PartitionOf[key'[d]]]) :
                        queue'[PartitionOf[key'[d]]][i] = d
      BY DEF Waiting, PartitionFor
  <2>1. CASE d = call
      BY <2>1, <1>0, <1>3 DEF Send, PartitionFor
  <2>2. CASE d # call
      <3> DEFINE v == PartitionFor(d)
      <3>1. v \in Workers /\ v = PartitionOf[key'[d]]
          BY <1>0, <1>frame DEF TypeOK, PartitionFor
      <3>2. PICK i \in 1..Len(queue[v]) : queue[v][i] = d
          BY <2>2, <1>0, <1>frame DEF Waiting
      <3>3. i \in 1..Len(queue'[v]) /\ queue'[v][i] = d
        <4>1. CASE v # w
            BY <4>1, <3>1, <3>2, <1>3
        <4>2. CASE v = w
            BY <4>2, <3>2, <1>3
        <4> QED BY <4>1, <4>2
      <3> QED BY <3>1, <3>3
  <2> QED BY <2>1, <2>2
<1>8. Bounded'
    BY <1>0, <1>1, <1>2, <1>3 DEF Bounded
<1>9. Sequential'
    BY <1>0, <1>1 DEF Sequential, Send, TypeOK, Calls
<1>10. Handling' /\ Closing'
    BY <1>0, <1>1 DEF Handling, Closing, Send, TypeOK, PartitionFor
<1>11. AtMostOnce'
    BY <1>0, <1>1 DEF AtMostOnce, Send, TypeOK
<1>12. PerKeyOrder'
  <2> SUFFICES ASSUME NEW c \in Callers, NEW m \in 1..MaxCalls, NEW n \in 1..MaxCalls,
                      m < n, key'[<<c, m>>] = key'[<<c, n>>],
                      started'[<<c, n>>] > 0, perform'[<<c, m>>] = "sent"
               PROVE  started'[<<c, m>>] > 0
      BY DEF PerKeyOrder
  <2>0. <<c, m>> \in Calls /\ <<c, n>> \in Calls
      BY DEF Calls
  <2>1. CASE <<c, m>> = call
      <3>1. m = issued[c]
          BY <2>1, <1>0, <1>1, SendingIsLast
      <3>2. perform[<<c, n>>] = "sent"
          BY <2>0, <1>0 DEF AtMostOnce, Send, TypeOK
      <3> QED BY <3>1, <3>2, <1>0 DEF Sequential, TypeOK
  <2>2. CASE <<c, m>> # call
      BY <2>0, <2>2, <1>0 DEF PerKeyOrder, Send, TypeOK
  <2> QED BY <2>1, <2>2
<1> QED BY <1>4, <1>5, <1>6, <1>7, <1>8, <1>9, <1>10, <1>11, <1>12 DEF IInv

(* A send that meets a waiting worker starts the call at once; with        *)
(* capacity 0 there is nothing in the buffer it could overtake.            *)
LEMMA RendezvousIInv ==
    ASSUME IInv, NEW call \in Calls, Rendezvous(call)
    PROVE  IInv'
<1> USE DispatcherAssumption DEF callVars, workVars, scopeVars
<1> DEFINE w == PartitionFor(call)
<1>0. /\ TypeOK /\ Buffered /\ Ordered /\ Waiting /\ Sequential
      /\ AtMostOnce /\ PerKeyOrder /\ Bounded /\ Handling /\ Closing
    BY DEF IInv
<1>1. /\ w \in Workers /\ perform[call] = "sending" /\ started[call] = 0
      /\ Len(queue[w]) = 0
    BY <1>0, SendingIsLast DEF Rendezvous, TypeOK, PartitionFor
<1>2. /\ perform' = [perform EXCEPT ![call] = "sent"]
      /\ started' = [started EXCEPT ![call] = 1]
      /\ queue' = queue /\ key' = key /\ issued' = issued
    BY <1>0, <1>1 DEF Rendezvous, TypeOK
<1>3. \A v \in Workers : \A i \in 1..Len(queue[v]) : queue[v][i] # call
    BY <1>0, <1>1 DEF Buffered
<1>4. \A d \in Calls : perform[d] = "sent" /\ PartitionFor(d) = w => started[d] > 0
  <2> SUFFICES ASSUME NEW d \in Calls, perform[d] = "sent", PartitionFor(d) = w
               PROVE  started[d] > 0
    OBVIOUS
  <2>1. started[d] \in Nat
    BY <1>0 DEF TypeOK
  <2>2. started[d] # 0
    BY <1>0, <1>1 DEF Waiting
  <2> QED BY <2>1, <2>2
<1>5. TypeOK'
    BY <1>0, <1>1, <1>2 DEF Rendezvous, TypeOK, PerformStates
<1>6. Ordered' /\ Bounded'
    BY <1>0, <1>2 DEF Ordered, Bounded
<1>12. Buffered'
  <2> SUFFICES ASSUME NEW v \in Workers, NEW i \in 1..Len(queue[v])
               PROVE  /\ perform'[queue[v][i]] = "sent"
                      /\ started'[queue[v][i]] = 0
                      /\ PartitionFor(queue[v][i])' = v
    BY <1>2 DEF Buffered
  <2>1. queue[v][i] \in Calls /\ queue[v][i] # call
    BY <1>0, <1>3, QueueElement
  <2> QED BY <1>0, <1>2, <2>1 DEF Buffered, TypeOK, PartitionFor
<1>7. Waiting'
  <2> SUFFICES ASSUME NEW d \in Calls, perform'[d] = "sent", started'[d] = 0
               PROVE  \E i \in 1..Len(queue[PartitionFor(d)]) :
                          queue[PartitionFor(d)][i] = d
    BY <1>2 DEF Waiting, PartitionFor
  <2>1. d # call /\ perform[d] = "sent" /\ started[d] = 0
    BY <1>0, <1>2 DEF TypeOK
  <2> QED BY <1>0, <2>1 DEF Waiting
<1>8. Sequential'
    BY <1>0, <1>1, <1>2 DEF Sequential, TypeOK, Calls
<1>9. Handling' /\ Closing'
    BY <1>0, <1>1, <1>2 DEF Handling, Closing, Rendezvous, TypeOK, PartitionFor
<1>10. AtMostOnce'
    BY <1>0, <1>1, <1>2 DEF AtMostOnce, TypeOK
<1>11. PerKeyOrder'
  <2> SUFFICES ASSUME NEW c \in Callers, NEW m \in 1..MaxCalls, NEW n \in 1..MaxCalls,
                      m < n, key[<<c, m>>] = key[<<c, n>>],
                      started'[<<c, n>>] > 0, perform'[<<c, m>>] = "sent"
               PROVE  started'[<<c, m>>] > 0
    BY <1>2 DEF PerKeyOrder
  <2>1. <<c, m>> \in Calls /\ <<c, n>> \in Calls
    BY DEF Calls
  <2>2. CASE <<c, m>> = call
    BY <1>0, <1>2, <2>1, <2>2 DEF TypeOK
  <2>3. CASE <<c, m>> # call
    <3>1. perform[<<c, m>>] = "sent" /\ started'[<<c, m>>] = started[<<c, m>>]
      BY <1>0, <1>2, <2>1, <2>3 DEF TypeOK
    <3>2. CASE <<c, n>> = call
      BY <1>4, <2>1, <3>1, <3>2 DEF PartitionFor
    <3>3. CASE <<c, n>> # call
      <4>1. started[<<c, n>>] > 0
        BY <1>0, <1>2, <2>1, <3>3 DEF TypeOK
      <4> QED BY <1>0, <3>1, <4>1 DEF PerKeyOrder
    <3> QED BY <3>2, <3>3
  <2> QED BY <2>2, <2>3
<1> QED BY <1>5, <1>6, <1>12, <1>7, <1>8, <1>9, <1>10, <1>11 DEF IInv

(* Receiving takes the oldest buffered call: by Ordered and Waiting no     *)
(* earlier call of the same caller and key is still waiting.               *)
LEMMA ReceiveIInv ==
    ASSUME IInv, NEW w \in Workers, Receive(w)
    PROVE  IInv'
<1> USE DispatcherAssumption DEF callVars, workVars, scopeVars
<1> DEFINE call == Head(queue[w])
           len == Len(queue[w])
<1>0. /\ TypeOK /\ Buffered /\ Ordered /\ Waiting /\ Sequential
      /\ AtMostOnce /\ PerKeyOrder /\ Bounded /\ Handling /\ Closing
    BY DEF IInv
<1>1. /\ queue[w] \in Seq(Calls) /\ queue[w] # <<>> /\ len \in Nat /\ len > 0
      /\ call = queue[w][1] /\ call \in Calls
    BY <1>0 DEF TypeOK, Receive
<1>2. /\ perform[call] = "sent" /\ started[call] = 0 /\ PartitionFor(call) = w
    BY <1>0, <1>1 DEF Buffered
<1>3. /\ perform' = perform /\ key' = key /\ issued' = issued
      /\ started' = [started EXCEPT ![call] = 1]
      /\ queue' = [queue EXCEPT ![w] = Tail(queue[w])]
  <2>1. started' = [started EXCEPT ![call] = started[call] + 1]
    BY DEF Receive
  <2> QED BY <2>1, <1>2 DEF Receive
<1>4. /\ Len(queue'[w]) = len - 1
      /\ \A i \in 1..(len - 1) : queue'[w][i] = queue[w][i + 1]
      /\ \A v \in Workers : v # w => queue'[v] = queue[v]
    BY <1>0, <1>1, <1>3 DEF TypeOK
<1>5. TypeOK'
    BY <1>0, <1>1, <1>3 DEF Receive, TypeOK
<1>6. \A i \in 1..len : queue[w][i] = call => i = 1
  <2> SUFFICES ASSUME NEW i \in 1..len, queue[w][i] = call, i # 1 PROVE FALSE
    OBVIOUS
  <2>1. 1 \in 1..len /\ 1 < i
    BY <1>1
  <2>2. queue[w][1][2] < queue[w][i][2]
    BY <2>1, <1>0, <1>1 DEF Ordered
  <2>3. call[2] \in Int
    BY <1>1, DispatcherAssumption DEF Calls
  <2> QED BY <2>2, <2>3, <1>1
<1>7. Buffered'
  <2> SUFFICES ASSUME NEW v \in Workers, NEW i \in 1..Len(queue'[v])
               PROVE  /\ perform'[queue'[v][i]] = "sent"
                      /\ started'[queue'[v][i]] = 0
                      /\ PartitionOf[key'[queue'[v][i]]] = v
    BY DEF Buffered, PartitionFor
  <2>1. CASE v = w
    <3>1. i + 1 \in 1..len /\ queue'[v][i] = queue[w][i + 1]
      BY <2>1, <1>1, <1>4
    <3>2. queue[w][i + 1] \in Calls /\ queue[w][i + 1] # call
      BY <3>1, <1>1, <1>6
    <3> QED BY <2>1, <3>1, <3>2, <1>0, <1>3 DEF Buffered, TypeOK, PartitionFor
  <2>2. CASE v # w
    <3>1. queue'[v][i] = queue[v][i] /\ i \in 1..Len(queue[v])
      BY <2>2, <1>4
    <3>2. queue[v][i] \in Calls /\ queue[v][i] # call
      BY <2>2, <3>1, <1>0, <1>2, QueueElement DEF Buffered
    <3> QED BY <2>2, <3>1, <3>2, <1>0, <1>3 DEF Buffered, TypeOK, PartitionFor
  <2> QED BY <2>1, <2>2
<1>8. Ordered'
  <2> SUFFICES ASSUME NEW v \in Workers,
                      NEW i \in 1..Len(queue'[v]), NEW j \in 1..Len(queue'[v]),
                      i < j, queue'[v][i][1] = queue'[v][j][1]
               PROVE  queue'[v][i][2] < queue'[v][j][2]
    BY DEF Ordered
  <2>1. CASE v = w
    <3>1. /\ i + 1 \in 1..len /\ queue'[v][i] = queue[w][i + 1]
          /\ j + 1 \in 1..len /\ queue'[v][j] = queue[w][j + 1]
          /\ i + 1 < j + 1
      BY <2>1, <1>1, <1>4
    <3> QED BY <3>1, <1>0 DEF Ordered
  <2>2. CASE v # w
    BY <2>2, <1>4, <1>0 DEF Ordered
  <2> QED BY <2>1, <2>2
<1>9. Waiting'
  <2> SUFFICES ASSUME NEW d \in Calls, perform[d] = "sent", started'[d] = 0
               PROVE  \E i \in 1..Len(queue'[PartitionOf[key[d]]]) :
                        queue'[PartitionOf[key[d]]][i] = d
    BY <1>3 DEF Waiting, PartitionFor
  <2> DEFINE v == PartitionFor(d)
  <2>1. d # call /\ v \in Workers /\ started[d] = 0
    BY <1>0, <1>1, <1>3 DEF TypeOK, PartitionFor
  <2>2. PICK i \in 1..Len(queue[v]) : queue[v][i] = d
    BY <2>1, <1>0 DEF Waiting
  <2>3. CASE v = w
    <3>1. i - 1 \in 1..(len - 1) /\ i = (i - 1) + 1
      BY <2>1, <2>2, <2>3, <1>1
    <3>2. i - 1 \in 1..Len(queue'[v]) /\ queue'[v][i - 1] = d
      BY <2>2, <2>3, <3>1, <1>4
    <3> QED BY <3>2 DEF PartitionFor
  <2>4. CASE v # w
    <3>1. i \in 1..Len(queue'[v]) /\ queue'[v][i] = d
      BY <2>1, <2>2, <2>4, <1>4
    <3> QED BY <3>1 DEF PartitionFor
  <2> QED BY <2>3, <2>4
<1>10. Bounded'
  <2> SUFFICES ASSUME NEW v \in Workers PROVE Len(queue'[v]) <= BufferSize
    BY DEF Bounded
  <2>1. CASE v = w
    <3>1. len <= BufferSize
      BY <1>0 DEF Bounded
    <3> QED BY <2>1, <3>1, <1>1, <1>4
  <2>2. CASE v # w
    BY <2>2, <1>0, <1>4 DEF Bounded
  <2> QED BY <2>1, <2>2
<1>11. Sequential'
    BY <1>0, <1>3 DEF Sequential
<1>12. Handling' /\ Closing'
    BY <1>0, <1>1, <1>2, <1>3 DEF Handling, Closing, Receive, TypeOK, PartitionFor
<1>13. AtMostOnce'
    BY <1>0, <1>1, <1>2, <1>3 DEF AtMostOnce, TypeOK
<1>14. PerKeyOrder'
  <2> SUFFICES ASSUME NEW c \in Callers, NEW m \in 1..MaxCalls, NEW n \in 1..MaxCalls,
                      m < n, key[<<c, m>>] = key[<<c, n>>],
                      started'[<<c, n>>] > 0, perform[<<c, m>>] = "sent"
               PROVE  started'[<<c, m>>] > 0
    BY <1>3 DEF PerKeyOrder
  <2>0. <<c, m>> \in Calls /\ <<c, n>> \in Calls
    BY DEF Calls
  <2>1. CASE <<c, n>> = call
    <3> SUFFICES ASSUME started[<<c, m>>] = 0 PROVE FALSE
      BY <2>0, <1>0, <1>1, <1>3 DEF TypeOK
    <3>1. PartitionFor(<<c, m>>) = w
      BY <2>1, <1>2 DEF PartitionFor
    <3>2. PICK i \in 1..len : queue[w][i] = <<c, m>>
      BY <2>0, <3>1, <1>0 DEF Waiting
    <3>3. i # 1
      BY <2>1, <3>2, <1>1
    <3>4. n < m
      BY <2>1, <3>2, <3>3, <1>0, <1>1 DEF Ordered
    <3> QED BY <3>4
  <2>2. CASE <<c, n>> # call
    <3>1. started'[<<c, n>>] = started[<<c, n>>]
      BY <2>0, <2>2, <1>0, <1>1, <1>3 DEF TypeOK
    <3>2. started[<<c, m>>] > 0
      BY <3>1, <1>0 DEF PerKeyOrder
    <3> QED BY <2>0, <3>2, <1>0, <1>1, <1>3 DEF TypeOK
  <2> QED BY <2>1, <2>2
<1> QED BY <1>5, <1>7, <1>8, <1>9, <1>10, <1>11, <1>12, <1>13, <1>14 DEF IInv

(* A select that ends without a send leaves the call unaccepted. *)
LEMMA UnsentIInv ==
    ASSUME IInv, NEW call \in Calls, Abort(call) \/ Recover(call)
    PROVE  IInv'
<1> USE DispatcherAssumption DEF callVars, workVars, scopeVars
<1> DEFINE end == perform'[call]
<1>0. /\ TypeOK /\ Buffered /\ Waiting /\ Sequential /\ AtMostOnce /\ PerKeyOrder
      /\ perform[call] = "sending" /\ started[call] = 0
    BY SendingIsLast DEF IInv, Abort, Recover
<1>1. /\ perform' = [perform EXCEPT ![call] = end]
      /\ end \in {"aborted", "recovered"}
      /\ end = "recovered" => worker[PartitionFor(call)] = "exited"
      /\ key' = key /\ issued' = issued /\ queue' = queue /\ worker' = worker
      /\ current' = current /\ started' = started /\ cancelled' = cancelled
      /\ scope' = scope
    BY <1>0 DEF Abort, Recover, TypeOK
<1>2. TypeOK'
    BY <1>0, <1>1 DEF TypeOK, PerformStates
<1>3. Buffered'
  <2> SUFFICES ASSUME NEW w \in Workers, NEW i \in 1..Len(queue[w])
               PROVE  perform'[queue[w][i]] = "sent"
    BY <1>0, <1>1 DEF Buffered, PartitionFor
  <2>1. queue[w][i] \in Calls /\ queue[w][i] # call
    BY <1>0, QueueElement DEF Buffered
  <2> QED BY <2>1, <1>0, <1>1 DEF Buffered, TypeOK
<1>4. Ordered' /\ Bounded' /\ Handling'
    BY <1>1 DEF IInv, Ordered, Bounded, Handling, PartitionFor
<1>5. Waiting'
  <2> SUFFICES ASSUME NEW d \in Calls, perform'[d] = "sent", started[d] = 0
               PROVE  \E i \in 1..Len(queue[PartitionOf[key[d]]]) :
                        queue[PartitionOf[key[d]]][i] = d
    BY <1>1 DEF Waiting, PartitionFor
  <2>1. perform[d] = "sent"
    BY <1>0, <1>1 DEF TypeOK
  <2> QED BY <2>1, <1>0 DEF Waiting, PartitionFor
<1>6. Sequential'
  <2> SUFFICES ASSUME NEW c \in Callers, NEW n \in 1..MaxCalls
               PROVE  /\ n > issued[c] <=> perform'[<<c, n>>] = "new"
                      /\ n < issued[c] => perform'[<<c, n>>] # "sending"
    BY <1>1 DEF Sequential
  <2>1. <<c, n>> \in Calls
    BY DEF Calls
  <2>2. CASE <<c, n>> = call
    <3>1. perform[<<c, n>>] = "sending" /\ perform'[<<c, n>>] = end
      BY <2>1, <2>2, <1>0, <1>1 DEF TypeOK
    <3>2. end # "new" /\ end # "sending"
      BY <1>1
    <3> QED BY <3>1, <3>2, <1>0 DEF Sequential
  <2>3. CASE <<c, n>> # call
    <3>1. perform'[<<c, n>>] = perform[<<c, n>>]
      BY <2>1, <2>3, <1>0, <1>1 DEF TypeOK
    <3> QED BY <3>1, <1>0 DEF Sequential
  <2> QED BY <2>2, <2>3
<1>7. Closing'
    BY <1>0, <1>1 DEF IInv, Closing, TypeOK, PartitionFor
<1>8. AtMostOnce'
    BY <1>0, <1>1 DEF AtMostOnce, TypeOK
<1>9. PerKeyOrder'
  <2> SUFFICES ASSUME NEW c \in Callers, NEW m \in 1..MaxCalls, NEW n \in 1..MaxCalls,
                      m < n, key[<<c, m>>] = key[<<c, n>>],
                      started[<<c, n>>] > 0, perform'[<<c, m>>] = "sent"
               PROVE  started[<<c, m>>] > 0
    BY <1>1 DEF PerKeyOrder
  <2>1. perform[<<c, m>>] = "sent"
    BY <1>0, <1>1 DEF TypeOK, Calls
  <2> QED BY <2>1, <1>0 DEF PerKeyOrder
<1> QED BY <1>2, <1>3, <1>4, <1>5, <1>6, <1>7, <1>8, <1>9 DEF IInv

(* The other steps of a worker leave the calls and the buffers alone. *)
LEMMA WorkerIInv ==
    ASSUME IInv, NEW w \in Workers, Finish(w) \/ Exit(w)
    PROVE  IInv'
<1> USE DispatcherAssumption DEF callVars, workVars, scopeVars
<1>0. /\ UNCHANGED <<key, issued, perform, queue, started, cancelled, scope>>
      /\ \/ /\ worker' = [worker EXCEPT ![w] = "select"]
            /\ current' = [current EXCEPT ![w] = NoCall]
         \/ /\ worker' = [worker EXCEPT ![w] = "exited"]
            /\ current' = current
            /\ Handler \in cancelled
            /\ worker[w] = "select"
    BY DEF Finish, Exit
<1>1. TypeOK'
    BY <1>0 DEF IInv, TypeOK
<1>2. Buffered' /\ Ordered' /\ Waiting' /\ Bounded' /\ Sequential'
  <2>1. Buffered'
    BY <1>0 DEF IInv, Buffered, PartitionFor
  <2>2. Ordered' /\ Bounded'
    BY <1>0 DEF IInv, Ordered, Bounded
  <2>3. Waiting'
    BY <1>0 DEF IInv, Waiting, PartitionFor
  <2>4. Sequential'
    BY <1>0 DEF IInv, Sequential
  <2> QED BY <2>1, <2>2, <2>3, <2>4
<1>3. Handling'
  <2>0. TypeOK /\ Handling
    BY DEF IInv
  <2> SUFFICES ASSUME NEW v \in Workers
               PROVE  /\ worker'[v] = "handling" =>
                          /\ current'[v] \in Calls
                          /\ PartitionFor(current'[v]) = v
                          /\ started[current'[v]] = 1
                      /\ worker'[v] # "handling" => current'[v] = NoCall
    BY <1>0 DEF Handling, PartitionFor
  <2>1. CASE v = w
    BY <1>0, <2>0, <2>1 DEF TypeOK, Handling
  <2>2. CASE v # w
    BY <1>0, <2>0, <2>2 DEF TypeOK, Handling
  <2> QED BY <2>1, <2>2
<1>4. Closing'
    BY <1>0 DEF IInv, TypeOK, Closing
<1>5. AtMostOnce' /\ PerKeyOrder'
    BY <1>0 DEF IInv, AtMostOnce, PerKeyOrder
<1> QED BY <1>1, <1>2, <1>3, <1>4, <1>5 DEF IInv

(* Contexts only ever end. *)
LEMMA ScopeIInv ==
    ASSUME IInv, ScopeStep
    PROVE  IInv'
<1> USE DispatcherAssumption DEF callVars, workVars, scopeVars
<1>1. /\ UNCHANGED <<callVars, workVars>>
      /\ cancelled \subseteq cancelled' /\ cancelled' \subseteq Contexts
      /\ scope' \in {"open", "cancelled", "closed"}
    BY DEF IInv, TypeOK, ScopeStep, CancelParent, Propagate, CancelCaller,
           CancelHandler, Teardown, Contexts
<1>2. TypeOK'
    BY <1>1 DEF IInv, TypeOK
<1>3. Buffered' /\ Ordered' /\ Waiting' /\ Bounded' /\ Sequential' /\ Handling'
    BY <1>1 DEF IInv, Buffered, Ordered, Waiting, Bounded, Sequential, Handling, PartitionFor
<1>4. Closing'
    BY <1>1 DEF IInv, Closing
<1>5. AtMostOnce' /\ PerKeyOrder'
    BY <1>1 DEF IInv, AtMostOnce, PerKeyOrder
<1> QED BY <1>2, <1>3, <1>4, <1>5 DEF IInv

LEMMA NextIInv == IInv /\ [Next]_vars => IInv'
<1> SUFFICES ASSUME IInv, [Next]_vars PROVE IInv'
    OBVIOUS
<1>1. CASE \E c \in Callers : Issue(c)
    BY <1>1, IssueIInv
<1>2. CASE \E call \in Calls : CallStep(call)
    BY <1>2, SendIInv, RendezvousIInv, UnsentIInv DEF CallStep
<1>3. CASE \E w \in Workers : Receive(w) \/ Finish(w) \/ Exit(w)
    BY <1>3, ReceiveIInv, WorkerIInv
<1>4. CASE ScopeStep
    BY <1>4, ScopeIInv
<1>5. CASE UNCHANGED vars
  <2>1. UNCHANGED <<key, issued, perform, queue, worker, current, started, cancelled, scope>>
    BY <1>5 DEF vars, callVars, workVars, scopeVars
  <2>2. TypeOK'
    BY <2>1 DEF IInv, TypeOK
  <2>3. /\ Buffered' /\ Ordered' /\ Waiting' /\ Bounded' /\ Sequential'
        /\ Handling' /\ Closing'
    BY <2>1 DEF IInv, Buffered, Ordered, Waiting, Bounded, Sequential, Handling,
                Closing, PartitionFor
  <2>4. AtMostOnce' /\ PerKeyOrder'
    BY <2>1 DEF IInv, AtMostOnce, PerKeyOrder
  <2> QED BY <2>2, <2>3, <2>4 DEF IInv
<1> QED BY <1>1, <1>2, <1>3, <1>4, <1>5 DEF Next

-----------------------------------------------------------------------------
(* The inductive invariant holds in every reachable state. *)
THEOREM Inductive == Spec => []IInv
BY InitIInv, NextIInv, PTL DEF Spec

(* The variables keep their types. *)
THEOREM TypeCorrect == Spec => []TypeOK
<1>1. IInv => TypeOK
    BY DEF IInv
<1> QED BY <1>1, Inductive, PTL

(* Calls of one caller with one key are started in the order they were     *)
(* made, for any hash, any number of workers and any buffer size.          *)
THEOREM KeyOrder == Spec => []PerKeyOrder
<1>1. IInv => PerKeyOrder
    BY DEF IInv
<1> QED BY <1>1, Inductive, PTL

(* A call is started at most once, and never if its send was given up.     *)
THEOREM StartedOnce == Spec => []AtMostOnce
<1>1. IInv => AtMostOnce
    BY DEF IInv
<1> QED BY <1>1, Inductive, PTL

(* Two workers never handle calls with one key at the same time. *)
THEOREM KeyExclusion == Spec => []PerKeyExclusion
<1>1. IInv => PerKeyExclusion
    BY DEF IInv, Handling, PerKeyExclusion, PartitionFor
<1> QED BY <1>1, Inductive, PTL

(* A send meets a closed channel only after the workers' context ended. *)
THEOREM NoLossWhileOpen == Spec => []RecoveredOnlyWhenDone
<1>1. IInv => RecoveredOnlyWhenDone
    BY DEF IInv, Closing, RecoveredOnlyWhenDone
<1> QED BY <1>1, Inductive, PTL

-----------------------------------------------------------------------------
(* What one more call at the end, or one less at the front, changes in a   *)
(* buffer without repetitions.                                             *)
LEMMA AppendBuffers ==
    ASSUME NEW S, NEW q \in Seq(S), NEW last \in S, NEW d
    PROVE  Buffers(Append(q, last), d) <=> Buffers(q, d) \/ d = last
<1> DEFINE r == Append(q, last)
<1>1. /\ Len(q) \in Nat /\ Len(r) = Len(q) + 1 /\ r[Len(q) + 1] = last
      /\ \A i \in 1..Len(q) : r[i] = q[i]
    OBVIOUS
<1> HIDE DEF r
<1>2. Buffers(r, d) => Buffers(q, d) \/ d = last
    BY <1>1 DEF Buffers
<1>3. Buffers(q, d) => Buffers(r, d)
    BY <1>1 DEF Buffers
<1>4. d = last => Buffers(r, d)
    BY <1>1 DEF Buffers
<1> QED BY <1>2, <1>3, <1>4 DEF r

LEMMA AppendInFrontOf ==
    ASSUME NEW S, NEW q \in Seq(S), NEW last \in S, NEW d, NEW e
    PROVE  InFrontOf(Append(q, last), d, e) <=>
                InFrontOf(q, d, e) \/ (Buffers(q, d) /\ e = last)
<1> DEFINE r == Append(q, last)
<1>1. /\ Len(q) \in Nat /\ Len(r) = Len(q) + 1 /\ r[Len(q) + 1] = last
      /\ \A i \in 1..Len(q) : r[i] = q[i]
    OBVIOUS
<1> HIDE DEF r
<1>2. InFrontOf(r, d, e) => InFrontOf(q, d, e) \/ (Buffers(q, d) /\ e = last)
    BY <1>1 DEF Buffers, InFrontOf
<1>3. InFrontOf(q, d, e) => InFrontOf(r, d, e)
    BY <1>1 DEF InFrontOf
<1>4. Buffers(q, d) /\ e = last => InFrontOf(r, d, e)
  <2> SUFFICES ASSUME Buffers(q, d), e = last PROVE InFrontOf(r, d, e)
    OBVIOUS
  <2>1. PICK i \in 1..Len(q) : q[i] = d
    BY DEF Buffers
  <2>2. /\ i \in 1..Len(r) /\ Len(q) + 1 \in 1..Len(r) /\ i < Len(q) + 1
        /\ r[i] = d /\ r[Len(q) + 1] = e
    BY <1>1, <2>1
  <2> QED BY <2>2 DEF InFrontOf
<1> QED BY <1>2, <1>3, <1>4 DEF r

NoRepeats(q) == \A i, j \in 1..Len(q) : q[i] = q[j] => i = j

LEMMA TailBuffers ==
    ASSUME NEW S, NEW q \in Seq(S), q # <<>>, NoRepeats(q), NEW d
    PROVE  Buffers(Tail(q), d) <=> Buffers(q, d) /\ d # Head(q)
<1> DEFINE r == Tail(q)
<1>1. /\ Len(q) \in Nat \ {0} /\ Len(r) = Len(q) - 1 /\ q[1] = Head(q)
      /\ \A i \in 1..Len(r) : r[i] = q[i + 1]
    OBVIOUS
<1> HIDE DEF r
<1>2. ASSUME Buffers(r, d) PROVE Buffers(q, d) /\ d # Head(q)
  <2>1. PICK i \in 1..Len(r) : r[i] = d
    BY <1>2 DEF Buffers
  <2>2. i + 1 \in 1..Len(q) /\ q[i + 1] = d /\ i + 1 # 1 /\ 1 \in 1..Len(q)
    BY <1>1, <2>1
  <2> QED BY <1>1, <2>2 DEF Buffers, NoRepeats
<1>3. ASSUME Buffers(q, d), d # Head(q) PROVE Buffers(r, d)
  <2>1. PICK i \in 1..Len(q) : q[i] = d
    BY <1>3 DEF Buffers
  <2>2. i - 1 \in 1..Len(r) /\ r[i - 1] = d
    BY <1>1, <1>3, <2>1
  <2> QED BY <2>2 DEF Buffers
<1> QED BY <1>2, <1>3 DEF r

LEMMA TailInFrontOf ==
    ASSUME NEW S, NEW q \in Seq(S), q # <<>>, NoRepeats(q), NEW d, NEW e
    PROVE  InFrontOf(Tail(q), d, e) <=> InFrontOf(q, d, e) /\ d # Head(q)
<1> DEFINE r == Tail(q)
<1>1. /\ Len(q) \in Nat \ {0} /\ Len(r) = Len(q) - 1 /\ q[1] = Head(q)
      /\ \A i \in 1..Len(r) : r[i] = q[i + 1]
    OBVIOUS
<1> HIDE DEF r
<1>2. ASSUME InFrontOf(r, d, e) PROVE InFrontOf(q, d, e) /\ d # Head(q)
  <2>1. PICK i, j \in 1..Len(r) : i < j /\ r[i] = d /\ r[j] = e
    BY <1>2 DEF InFrontOf
  <2>2. /\ i + 1 \in 1..Len(q) /\ q[i + 1] = d /\ i + 1 # 1 /\ 1 \in 1..Len(q)
        /\ j + 1 \in 1..Len(q) /\ q[j + 1] = e /\ i + 1 < j + 1
    BY <1>1, <2>1
  <2> QED BY <1>1, <2>2 DEF InFrontOf, NoRepeats
<1>3. ASSUME InFrontOf(q, d, e), d # Head(q) PROVE InFrontOf(r, d, e)
  <2>1. PICK i, j \in 1..Len(q) : i < j /\ q[i] = d /\ q[j] = e
    BY <1>3 DEF InFrontOf
  <2>2. /\ i - 1 \in 1..Len(r) /\ r[i - 1] = d
        /\ j - 1 \in 1..Len(r) /\ r[j - 1] = e /\ i - 1 < j - 1
    BY <1>1, <1>3, <2>1
  <2> QED BY <2>2 DEF InFrontOf
<1> QED BY <1>2, <1>3 DEF r

-----------------------------------------------------------------------------
(* The state of the keyed executor, read off the dispatcher's. *)
Accepted == {call \in Calls : perform[call] = "sent"}
Pending ==
    [k \in Keys |->
        {call \in Calls : key[call] = k /\ Buffers(queue[PartitionOf[k]], call)}]
Ahead ==
    {p \in Calls \X Calls :
        /\ key[p[1]] = key[p[2]]
        /\ InFrontOf(queue[PartitionOf[key[p[1]]]], p[1], p[2])}
Running ==
    [k \in Keys |->
        LET call == current[PartitionOf[k]]
        IN  IF call # NoCall /\ key[call] = k THEN call ELSE NoCall]

LEMMA ExecutorInit == Init => Executor!Init
BY DispatcherAssumption
   DEF Init, Executor!Init, Buffers, InFrontOf

(* Steps that neither accept nor start nor end a call. *)
LEMMA ExecutorIdle ==
    ASSUME UNCHANGED <<key, queue, current>>, Accepted' = Accepted
    PROVE  UNCHANGED Executor!vars
BY DEF Executor!vars, Accepted, Buffers, InFrontOf

(* A caller's latest call is later than all those it has sent. *)
LEMMA SendingIsNew ==
    ASSUME IInv, NEW call \in Calls, perform[call] = "sending"
    PROVE  \A m \in 1..MaxCalls : <<call[1], m>> \in Accepted => m < call[2]
<1>1. /\ call[1] \in Callers /\ call = <<call[1], call[2]>> /\ call[2] \in 1..MaxCalls
      /\ call[2] = issued[call[1]]
    BY SendingIsLast DEF IInv
<1> SUFFICES ASSUME NEW m \in 1..MaxCalls, <<call[1], m>> \in Accepted
             PROVE  m < call[2]
    OBVIOUS
<1>2. m # call[2] /\ ~ (m > issued[call[1]])
    BY <1>1 DEF Accepted, IInv, Sequential
<1> QED BY <1>1, <1>2, DispatcherAssumption

(* A send into the buffer is an acceptance. *)
LEMMA ExecutorSend ==
    ASSUME IInv, NEW call \in Calls, Send(call)
    PROVE  \E c \in Callers, n \in 1..MaxCalls, k \in Keys : Executor!Accept(c, n, k)
<1> USE DispatcherAssumption DEF callVars, workVars, scopeVars
<1>0. TypeOK
    BY DEF IInv
<1>1. PICK k \in Keys, w \in Workers : k = key[call] /\ w = PartitionOf[k]
    BY <1>0 DEF TypeOK
<1>2. /\ call = <<call[1], call[2]>> /\ UNCHANGED <<key, current>>
      /\ queue[w] \in Seq(Calls)
      /\ queue' = [queue EXCEPT ![w] = Append(queue[w], call)]
    BY <1>0, <1>1, SendingIsLast DEF IInv, Send, TypeOK, PartitionFor
<1>3. Accepted' = Accepted \cup {call}
    BY <1>0 DEF Send, TypeOK, Accepted
<1>4. /\ queue'[w] = Append(queue[w], call)
      /\ \A v \in Workers : v # w => queue'[v] = queue[v]
    BY <1>0, <1>2 DEF TypeOK
<1>5. \A v \in Workers : \A d \in Calls :
        Buffers(queue'[v], d) <=> Buffers(queue[v], d) \/ (v = w /\ d = call)
    BY <1>2, <1>4, AppendBuffers
<1>6. \A v \in Workers : \A d, e \in Calls :
        InFrontOf(queue'[v], d, e) <=>
            InFrontOf(queue[v], d, e) \/ (v = w /\ Buffers(queue[w], d) /\ e = call)
    BY <1>2, <1>4, AppendInFrontOf
<1>7. Pending' = [Pending EXCEPT ![k] = @ \cup {call}]
  <2>1. \A l \in Keys : \A d \in Calls :
          (key[d] = l /\ Buffers(queue'[PartitionOf[l]], d)) <=>
             \/ key[d] = l /\ Buffers(queue[PartitionOf[l]], d)
             \/ l = k /\ d = call
    BY <1>1, <1>5
  <2>2. Pending' = [l \in Keys |->
            {d \in Calls : key[d] = l /\ Buffers(queue'[PartitionOf[l]], d)}]
    BY <1>2 DEF Pending, Buffers
  <2> DEFINE New(l) == {d \in Calls : key[d] = l /\ Buffers(queue'[PartitionOf[l]], d)}
             Old(l) == {d \in Calls : key[d] = l /\ Buffers(queue[PartitionOf[l]], d)}
  <2>3. \A l \in Keys : New(l) = IF l = k THEN Old(l) \cup {call} ELSE Old(l)
    BY <2>1
  <2>4. Pending = [l \in Keys |-> Old(l)] /\ Pending' = [l \in Keys |-> New(l)]
    BY <2>2 DEF Pending
  <2> HIDE DEF New, Old
  <2> QED BY <2>3, <2>4
<1>8. Ahead' = Ahead \cup (Pending[k] \X {call})
  <2>1. Ahead' = {p \in Calls \X Calls :
                    /\ key[p[1]] = key[p[2]]
                    /\ InFrontOf(queue'[PartitionOf[key[p[1]]]], p[1], p[2])}
    BY <1>2 DEF Ahead, InFrontOf
  <2>2. \A d, e \in Calls :
          <<d, e>> \in Ahead' <=> <<d, e>> \in Ahead \/ (d \in Pending[k] /\ e = call)
    <3> TAKE d, e \in Calls
    <3>1. PartitionOf[key[d]] \in Workers
      BY <1>0 DEF TypeOK
    <3>2. <<d, e>> \in Ahead <=>
            key[d] = key[e] /\ InFrontOf(queue[PartitionOf[key[d]]], d, e)
      BY DEF Ahead
    <3>3. <<d, e>> \in Ahead' <=>
            key[d] = key[e] /\ InFrontOf(queue'[PartitionOf[key[d]]], d, e)
      BY <2>1
    <3>4. d \in Pending[k] <=> key[d] = k /\ Buffers(queue[w], d)
      BY <1>1 DEF Pending
    <3>5. CASE PartitionOf[key[d]] = w
      <4>1. Buffers(queue[w], d) /\ key[d] # k => e # call \/ key[d] # key[e]
        BY <1>1
      <4> QED BY <3>2, <3>3, <3>4, <3>5, <4>1, <1>1, <1>6
    <3>6. CASE PartitionOf[key[d]] # w
      BY <3>1, <3>2, <3>3, <3>4, <3>6, <1>1, <1>6
    <3> QED BY <3>5, <3>6
  <2>3. /\ Ahead \subseteq Calls \X Calls /\ Ahead' \subseteq Calls \X Calls
        /\ Pending[k] \X {call} \subseteq Calls \X Calls
    BY <2>1 DEF Ahead, Pending
  <2>4. \A p \in Calls \X Calls : p \in Ahead' <=> p \in Ahead \cup (Pending[k] \X {call})
    BY <2>2
  <2> QED BY <2>3, <2>4
<1>9. Running' = Running
    BY <1>2 DEF Running
<1>10. PICK c \in Callers, n \in 1..MaxCalls : call = <<c, n>>
    BY DEF Calls
<1>11. Executor!IsNew(c, n)
    BY <1>10, SendingIsNew DEF Executor!IsNew, Accepted, Send
<1>12. Executor!Accept(c, n, k)
    BY <1>3, <1>7, <1>8, <1>9, <1>10, <1>11
       DEF Executor!Accept, Accepted, Pending, Ahead, Running
<1> QED BY <1>12

(* A buffer never holds a call twice. *)
LEMMA BufferedOnce ==
    ASSUME IInv, NEW w \in Workers
    PROVE  NoRepeats(queue[w])
<1> SUFFICES ASSUME NEW i \in 1..Len(queue[w]), NEW j \in 1..Len(queue[w]),
                    queue[w][i] = queue[w][j], i # j
             PROVE  FALSE
    BY DEF NoRepeats
<1>1. queue[w][i] \in Calls /\ queue[w][j] \in Calls
    BY QueueElement DEF IInv
<1>2. queue[w][i][2] \in Int
    BY <1>1, DispatcherAssumption DEF Calls
<1>3. i < j \/ j < i
    BY DEF IInv, TypeOK
<1>4. queue[w][i][2] < queue[w][j][2] \/ queue[w][j][2] < queue[w][i][2]
    BY <1>3 DEF IInv, Ordered
<1> QED BY <1>2, <1>4

(* A send to a waiting worker accepts the call and starts it at once. *)
LEMMA ExecutorRendezvous ==
    ASSUME IInv, NEW call \in Calls, Rendezvous(call)
    PROVE  \E c \in Callers, n \in 1..MaxCalls, k \in Keys : Executor!AcceptAndStart(c, n, k)
<1> USE DispatcherAssumption DEF callVars, workVars, scopeVars
<1>0. TypeOK
    BY DEF IInv
<1>1. PICK k \in Keys, w \in Workers : k = key[call] /\ w = PartitionOf[k]
    BY <1>0 DEF TypeOK
<1>2. /\ call = <<call[1], call[2]>> /\ UNCHANGED <<key, queue>>
      /\ queue[w] = <<>> /\ current[w] = NoCall
      /\ current' = [current EXCEPT ![w] = call]
    BY <1>0, <1>1, SendingIsLast DEF IInv, Rendezvous, PartitionFor, Handling
<1>3. Accepted' = Accepted \cup {call}
    BY <1>0 DEF Rendezvous, TypeOK, Accepted
<1>4. Running' = [Running EXCEPT ![k] = call] /\ Running[k] = NoCall
  <2>1. \A l \in Keys : current'[PartitionOf[l]] =
            IF PartitionOf[l] = w THEN call ELSE current[PartitionOf[l]]
    BY <1>0, <1>2 DEF TypeOK
  <2>2. Running' = [l \in Keys |->
            LET d == current'[PartitionOf[l]]
            IN  IF d # NoCall /\ key[d] = l THEN d ELSE NoCall]
    BY <1>2 DEF Running
  <2>3. \A l \in Keys : Running'[l] = IF l = k THEN call ELSE Running[l]
    BY <1>1, <1>2, <2>1, <2>2 DEF Running
  <2> QED BY <1>1, <1>2, <2>2, <2>3 DEF Running
<1>5. Pending[k] = {} /\ UNCHANGED <<Pending, Ahead>>
    BY <1>1, <1>2 DEF Pending, Ahead, Buffers, InFrontOf
<1>6. PICK c \in Callers, n \in 1..MaxCalls : call = <<c, n>>
    BY DEF Calls
<1>7. Executor!IsNew(c, n)
    BY <1>6, SendingIsNew DEF Executor!IsNew, Accepted, Rendezvous
<1>8. Executor!AcceptAndStart(c, n, k)
    BY <1>3, <1>4, <1>5, <1>6, <1>7
       DEF Executor!AcceptAndStart, Accepted, Pending, Ahead, Running
<1> QED BY <1>8

(* The worker takes the call that nobody with its key is in front of. *)
LEMMA ExecutorReceive ==
    ASSUME IInv, NEW w \in Workers, Receive(w)
    PROVE  \E k \in Keys : Executor!Start(k)
<1> USE DispatcherAssumption DEF callVars, workVars, scopeVars
<1>0. TypeOK
    BY DEF IInv
<1>1. PICK call \in Calls : call = Head(queue[w]) /\ call = queue[w][1]
    BY <1>0 DEF Receive, TypeOK
<1>2. PICK k \in Keys : k = key[call] /\ w = PartitionOf[k]
  <2>1. 1 \in 1..Len(queue[w])
    BY <1>0 DEF Receive, TypeOK
  <2> QED BY <1>0, <1>1, <2>1 DEF IInv, Buffered, PartitionFor, TypeOK
<1>3. /\ UNCHANGED <<key, perform>>
      /\ queue[w] \in Seq(Calls) /\ queue[w] # <<>> /\ NoRepeats(queue[w])
      /\ queue'[w] = Tail(queue[w])
      /\ \A v \in Workers : v # w => queue'[v] = queue[v]
      /\ current[w] = NoCall /\ current' = [current EXCEPT ![w] = call]
    BY <1>0, <1>1, BufferedOnce DEF Receive, TypeOK, IInv, Handling
<1>4. \A v \in Workers : \A d \in Calls :
        Buffers(queue'[v], d) <=> Buffers(queue[v], d) /\ ~ (v = w /\ d = call)
    BY <1>1, <1>3, TailBuffers
<1>5. \A v \in Workers : \A d, e \in Calls :
        InFrontOf(queue'[v], d, e) <=> InFrontOf(queue[v], d, e) /\ ~ (v = w /\ d = call)
    BY <1>1, <1>3, TailInFrontOf
<1>6. Pending' = [Pending EXCEPT ![k] = @ \ {call}]
  <2>1. \A l \in Keys : \A d \in Calls :
          (key[d] = l /\ Buffers(queue'[PartitionOf[l]], d)) <=>
             /\ key[d] = l /\ Buffers(queue[PartitionOf[l]], d)
             /\ ~ (l = k /\ d = call)
    BY <1>2, <1>4
  <2>2. Pending' = [l \in Keys |->
            {d \in Calls : key[d] = l /\ Buffers(queue'[PartitionOf[l]], d)}]
    BY <1>3 DEF Pending, Buffers
  <2> DEFINE New(l) == {d \in Calls : key[d] = l /\ Buffers(queue'[PartitionOf[l]], d)}
             Old(l) == {d \in Calls : key[d] = l /\ Buffers(queue[PartitionOf[l]], d)}
  <2>3. \A l \in Keys : New(l) = IF l = k THEN Old(l) \ {call} ELSE Old(l)
    BY <2>1
  <2>4. Pending = [l \in Keys |-> Old(l)] /\ Pending' = [l \in Keys |-> New(l)]
    BY <2>2 DEF Pending
  <2> HIDE DEF New, Old
  <2> QED BY <2>3, <2>4
<1>7. Ahead' = {p \in Ahead : p[1] # call}
  <2>1. Ahead' = {p \in Calls \X Calls :
                    /\ key[p[1]] = key[p[2]]
                    /\ InFrontOf(queue'[PartitionOf[key[p[1]]]], p[1], p[2])}
    BY <1>3 DEF Ahead, InFrontOf
  <2>2. \A d, e \in Calls : <<d, e>> \in Ahead' <=> <<d, e>> \in Ahead /\ d # call
    <3> TAKE d, e \in Calls
    <3>1. PartitionOf[key[d]] \in Workers
      BY <1>0 DEF TypeOK
    <3>2. <<d, e>> \in Ahead <=>
            key[d] = key[e] /\ InFrontOf(queue[PartitionOf[key[d]]], d, e)
      BY DEF Ahead
    <3>3. <<d, e>> \in Ahead' <=>
            key[d] = key[e] /\ InFrontOf(queue'[PartitionOf[key[d]]], d, e)
      BY <2>1
    <3> QED BY <3>1, <3>2, <3>3, <1>2, <1>5
  <2>3. /\ Ahead \subseteq Calls \X Calls /\ Ahead' \subseteq Calls \X Calls
    BY <2>1 DEF Ahead
  <2>4. \A p \in Calls \X Calls : p \in Ahead' <=> p \in Ahead /\ p[1] # call
    BY <2>2
  <2> QED BY <2>3, <2>4
<1>8. Running' = [Running EXCEPT ![k] = call] /\ Running[k] = NoCall
  <2>1. \A l \in Keys : current'[PartitionOf[l]] =
            IF PartitionOf[l] = w THEN call ELSE current[PartitionOf[l]]
    BY <1>0, <1>3 DEF TypeOK
  <2>2. Running' = [l \in Keys |->
            LET d == current'[PartitionOf[l]]
            IN  IF d # NoCall /\ key[d] = l THEN d ELSE NoCall]
    BY <1>3 DEF Running
  <2>3. \A l \in Keys : Running'[l] = IF l = k THEN call ELSE Running[l]
    BY <1>2, <1>3, <2>1, <2>2 DEF Running
  <2> QED BY <1>2, <1>3, <2>2, <2>3 DEF Running
<1>9. call \in Pending[k] /\ \A other \in Pending[k] : <<other, call>> \notin Ahead
  <2>1. 1 \in 1..Len(queue[w])
    BY <1>3
  <2>2. call \in Pending[k]
    BY <1>1, <1>2, <2>1 DEF Pending, Buffers
  <2>3. \A d \in Calls : ~ InFrontOf(queue[w], d, call)
    BY <1>1, <1>3, <2>1 DEF InFrontOf, NoRepeats
  <2> QED BY <1>2, <2>2, <2>3 DEF Ahead, Pending
<1>10. Accepted' = Accepted
    BY <1>3 DEF Accepted
<1>11. Executor!Start(k)
    BY <1>6, <1>7, <1>8, <1>9, <1>10
       DEF Executor!Start, Accepted, Pending, Ahead, Running
<1> QED BY <1>11

(* The handler function returns. *)
LEMMA ExecutorFinish ==
    ASSUME IInv, NEW w \in Workers, Finish(w)
    PROVE  \E k \in Keys : Executor!End(k)
<1> USE DispatcherAssumption DEF callVars, workVars, scopeVars
<1>0. TypeOK
    BY DEF IInv
<1>1. PICK call \in Calls, k \in Keys :
            call = current[w] /\ k = key[call] /\ w = PartitionOf[k]
    BY <1>0 DEF IInv, Handling, Finish, TypeOK, PartitionFor
<1>2. /\ UNCHANGED <<key, perform, queue>>
      /\ current' = [current EXCEPT ![w] = NoCall]
    BY DEF Finish
<1>3. Running' = [Running EXCEPT ![k] = NoCall] /\ Running[k] # NoCall
  <2>1. \A l \in Keys : current'[PartitionOf[l]] =
            IF PartitionOf[l] = w THEN NoCall ELSE current[PartitionOf[l]]
    BY <1>0, <1>2 DEF TypeOK
  <2>2. Running' = [l \in Keys |->
            LET d == current'[PartitionOf[l]]
            IN  IF d # NoCall /\ key[d] = l THEN d ELSE NoCall]
    BY <1>2 DEF Running
  <2>3. call # NoCall /\ Running[k] # NoCall
    BY <1>1 DEF Running
  <2>4. \A l \in Keys : Running'[l] = IF l = k THEN NoCall ELSE Running[l]
    <3> TAKE l \in Keys
    <3>1. Running[l] = LET d == current[PartitionOf[l]]
                       IN  IF d # NoCall /\ key[d] = l THEN d ELSE NoCall
      BY DEF Running
    <3>2. Running'[l] = LET d == current'[PartitionOf[l]]
                        IN  IF d # NoCall /\ key[d] = l THEN d ELSE NoCall
      BY <2>2
    <3>3. CASE PartitionOf[l] = w
      BY <1>1, <2>1, <3>1, <3>2, <3>3
    <3>4. CASE PartitionOf[l] # w
      BY <1>1, <2>1, <3>1, <3>2, <3>4
    <3> QED BY <3>3, <3>4
  <2>5. Running = [l \in Keys |-> Running[l]] /\ Running' = [l \in Keys |-> Running'[l]]
    BY <2>2 DEF Running
  <2> HIDE DEF Running
  <2> QED BY <2>3, <2>4, <2>5
<1>4. UNCHANGED <<Accepted, Pending, Ahead>>
    BY <1>2 DEF Accepted, Pending, Ahead, Buffers, InFrontOf
<1>5. Executor!End(k)
    BY <1>3, <1>4 DEF Executor!End, Accepted, Pending, Ahead, Running
<1> QED BY <1>5

(* Every step of the dispatcher is a step of the keyed executor or none. *)
LEMMA ExecutorStep == IInv /\ [Next]_vars => [Executor!Next]_(Executor!vars)
<1> SUFFICES ASSUME IInv, [Next]_vars
             PROVE  Executor!Next \/ UNCHANGED Executor!vars
    OBVIOUS
<1> USE DEF callVars, workVars, scopeVars
<1>0. TypeOK
    BY DEF IInv
<1>1. ASSUME NEW c \in Callers, Issue(c) PROVE UNCHANGED Executor!vars
  <2>1. <<c, issued[c] + 1>> \in Calls /\ perform[<<c, issued[c] + 1>>] = "new"
    BY <1>0, <1>1, DispatcherAssumption DEF Issue, IInv, Sequential, TypeOK, Calls
  <2>2. Accepted' = Accepted
    BY <1>0, <1>1, <2>1 DEF Issue, Accepted, TypeOK
  <2> QED BY <1>1, <2>2, ExecutorIdle DEF Issue
<1>2. ASSUME NEW call \in Calls, Send(call) \/ Rendezvous(call) PROVE Executor!Next
    BY <1>2, ExecutorSend, ExecutorRendezvous DEF Executor!Next
<1>3. ASSUME NEW call \in Calls, Abort(call) \/ Recover(call)
      PROVE  UNCHANGED Executor!vars
  <2>1. Accepted' = Accepted
    BY <1>0, <1>3 DEF Abort, Recover, Accepted, TypeOK
  <2> QED BY <1>3, <2>1, ExecutorIdle DEF Abort, Recover
<1>4. ASSUME NEW w \in Workers, Receive(w) \/ Finish(w) PROVE Executor!Next
    BY <1>4, ExecutorReceive, ExecutorFinish DEF Executor!Next
<1>5. ASSUME NEW w \in Workers, Exit(w) PROVE UNCHANGED Executor!vars
  <2>1. Accepted' = Accepted
    BY <1>5 DEF Exit, Accepted
  <2> QED BY <1>5, <2>1, ExecutorIdle DEF Exit
<1>6. ASSUME ScopeStep \/ UNCHANGED vars PROVE UNCHANGED Executor!vars
  <2>1. UNCHANGED <<key, perform, queue, current>>
    BY <1>6 DEF ScopeStep, CancelParent, Propagate, CancelCaller, CancelHandler,
                Teardown, vars
  <2>2. Accepted' = Accepted
    BY <2>1 DEF Accepted
  <2> QED BY <2>1, <2>2, ExecutorIdle
<1> QED BY <1>1, <1>2, <1>3, <1>4, <1>5, <1>6 DEF Next, CallStep

(* With workers, channels and contexts hidden the dispatcher is the keyed  *)
(* executor: per key one call at a time, in the order of acceptance.       *)
THEOREM ImplementsExecutor == Spec => ImplementsKeyedExecutor
BY ExecutorInit, ExecutorStep, Inductive, PTL
   DEF Spec, ImplementsKeyedExecutor, Executor!Spec

-----------------------------------------------------------------------------
(***************************************************************************)
(* The reply protocol.  A resumable effect is a step of the dispatcher or  *)
(* leaves it alone, so the dispatcher's invariant is had for free, and     *)
(* with it the fact the protocol rests on: a call is handled at most once, *)
(* so its reply channel is closed at most once.                            *)
(*                                                                         *)
(* The supervisor's teardown waits on a counter and never looks at a       *)
(* child, so that it joins them rests on the counter being the number of   *)
(* live children in every reachable state (Counted), whatever the children *)
(* do.                                                                     *)
(***************************************************************************)

(* A reply channel is made with the call, and closed only by its handler.  *)
Replies ==
    \A call \in Calls :
        /\ resume[call] = "none" <=> perform[call] = "new"
        /\ resume[call] \in {"answered", "empty"} => started[call] = 1
        /\ resume[call] = "empty" => Handler \in cancelled

(* What a caller got is what its reply channel held. *)
Gotten ==
    \A call \in Calls :
        /\ outcome[call] # "none" => Returned(call)
        /\ outcome[call] = "value" => resume[call] = "answered"
        /\ outcome[call] = "nothing" => resume[call] = "empty"

RInv ==
    /\ IInv
    /\ ResumableTypeOK
    /\ Replies
    /\ Gotten
    /\ WorkerNeverPanics

-----------------------------------------------------------------------------
LEMMA InitRInv == ResumableInit => RInv
<1> SUFFICES ASSUME ResumableInit PROVE RInv
    OBVIOUS
<1>1. IInv
    BY InitIInv DEF ResumableInit
<1>2. ResumableTypeOK /\ Replies /\ Gotten /\ WorkerNeverPanics
    BY DEF ResumableInit, Init, ResumableTypeOK, ResumeStates, Outcomes,
           Replies, Gotten, WorkerNeverPanics
<1> QED BY <1>1, <1>2 DEF RInv

(* Every step of a resumable effect is a step of the dispatcher, or none. *)
LEMMA StepSimulation ==
    ASSUME [ResumableNext]_resumableVars
    PROVE  [Next]_vars
<1>1. CASE \E c \in Callers : Perform(c)
    BY <1>1 DEF Perform, Next
<1>2. CASE \E call \in Calls : CallStep(call) /\ UNCHANGED replyVars
    BY <1>2 DEF Next
<1>3. CASE \E w \in Workers : (Receive(w) \/ Exit(w)) /\ UNCHANGED replyVars
    BY <1>3 DEF Next
<1>4. CASE \E w \in Workers : Answer(w) \/ DropAnswer(w)
    BY <1>4 DEF Answer, DropAnswer, Next
<1>5. CASE ScopeStep /\ UNCHANGED replyVars
    BY <1>5 DEF Next
<1>6. CASE \E call \in Calls : AwaitStep(call)
    BY <1>6 DEF AwaitStep, TakeResult, TakeClosed, GiveUp
<1>7. CASE UNCHANGED resumableVars
    BY <1>7 DEF resumableVars
<1> QED BY <1>1, <1>2, <1>3, <1>4, <1>5, <1>6, <1>7 DEF ResumableNext

(* The module of the effect is built by adding to the steps of the          *)
(* dispatcher, so that the invariants of the dispatcher are its own.        *)
LEMMA ResumableDispatches == ResumableSpec => Spec
<1>1. ResumableInit => Init
    BY DEF ResumableInit
<1>2. [ResumableNext]_resumableVars => [Next]_vars
    BY StepSimulation
<1> QED BY <1>1, <1>2, PTL DEF ResumableSpec, Spec

-----------------------------------------------------------------------------
(* A step that answers or drops closes the channel of the handled call,    *)
(* which no other worker handles.                                          *)
LEMMA AnswerRInv ==
    ASSUME RInv, IInv', NEW w \in Workers, Answer(w) \/ DropAnswer(w)
    PROVE  RInv'
<1> USE DispatcherAssumption DEF callVars, workVars, scopeVars
<1> DEFINE call == current[w]
           end == resume'[call]
<1>0. /\ TypeOK /\ Handling /\ AtMostOnce /\ PerKeyExclusion
      /\ ResumableTypeOK /\ Replies /\ Gotten /\ WorkerNeverPanics
    BY DEF RInv, IInv, Handling, PerKeyExclusion, PartitionFor
<1>1. /\ worker[w] = "handling" /\ call \in Calls /\ resume[call] = "open"
    BY <1>0 DEF Answer, DropAnswer, Finish, Handling, WorkerNeverPanics
<1>2. /\ resume' = [resume EXCEPT ![call] = end]
      /\ end \in {"answered", "empty"}
      /\ end = "empty" => Handler \in cancelled
      /\ worker' = [worker EXCEPT ![w] = "select"]
      /\ \A v \in Workers : v # w => current'[v] = current[v]
      /\ UNCHANGED <<key, issued, perform, started, cancelled, scope, outcome>>
    BY <1>0, <1>1 DEF Answer, DropAnswer, Finish, ResumableTypeOK, TypeOK
<1>3. started[call] = 1
    BY <1>0, <1>1 DEF Handling
<1>4. ResumableTypeOK'
    BY <1>0, <1>2 DEF ResumableTypeOK, ResumeStates
<1>5. Replies'
    BY <1>0, <1>1, <1>2, <1>3 DEF Replies, ResumableTypeOK
<1>6. Gotten'
    BY <1>0, <1>1, <1>2 DEF Gotten, Returned, ResumableTypeOK
<1>7. WorkerNeverPanics'
  <2> SUFFICES ASSUME NEW v \in Workers, worker'[v] = "handling"
               PROVE  resume'[current'[v]] = "open"
    BY DEF WorkerNeverPanics
  <2>1. v # w /\ worker[v] = "handling" /\ current'[v] = current[v]
    BY <1>0, <1>2 DEF TypeOK
  <2>2. current[v] # call /\ current[v] \in Calls
    BY <2>1, <1>0, <1>1 DEF PerKeyExclusion, Handling
  <2> QED BY <2>1, <2>2, <1>0, <1>2 DEF WorkerNeverPanics, ResumableTypeOK
<1> QED BY <1>4, <1>5, <1>6, <1>7 DEF RInv

(* Every other step leaves closed reply channels closed and open ones open.*)
LEMMA QuietRInv ==
    ASSUME RInv, IInv', NEW call \in Calls,
           CallStep(call) /\ UNCHANGED replyVars
    PROVE  RInv'
<1> USE DispatcherAssumption DEF callVars, workVars, scopeVars, replyVars
<1> DEFINE end == perform'[call]
<1>0. /\ TypeOK /\ ResumableTypeOK /\ Replies /\ Gotten /\ WorkerNeverPanics
      /\ Sequential /\ AtMostOnce /\ Handling
    BY DEF RInv, IInv
<1>1. /\ perform[call] = "sending" /\ perform' = [perform EXCEPT ![call] = end]
      /\ end \in {"sent", "aborted", "recovered"}
      /\ started[call] = 0
      /\ resume' = resume /\ outcome' = outcome /\ cancelled' = cancelled
    BY <1>0, SendingIsLast DEF CallStep, Send, Rendezvous, Abort, Recover, TypeOK
<1>2. \A d \in Calls : d # call => started'[d] = started[d]
    BY <1>0 DEF CallStep, Send, Rendezvous, Abort, Recover, TypeOK
<1>3. resume[call] = "open" /\ outcome[call] = "none"
    BY <1>0, <1>1 DEF Replies, Gotten, Returned, ResumableTypeOK, ResumeStates
<1>4. ResumableTypeOK'
    BY <1>0, <1>1 DEF ResumableTypeOK
<1>5. Replies'
    BY <1>0, <1>1, <1>2, <1>3 DEF Replies, TypeOK
<1>6. Gotten'
    BY <1>0, <1>1, <1>3 DEF Gotten, Returned, TypeOK
<1>7. WorkerNeverPanics'
    BY <1>0, <1>1, <1>3 DEF WorkerNeverPanics, CallStep, Send, Rendezvous, Abort, Recover, TypeOK
<1> QED BY <1>4, <1>5, <1>6, <1>7 DEF RInv

(* Receiving a call: it was never started, so nobody closed its channel. *)
LEMMA WorkerRInv ==
    ASSUME RInv, IInv', NEW w \in Workers,
           (Receive(w) \/ Exit(w)) /\ UNCHANGED replyVars
    PROVE  RInv'
<1> USE DispatcherAssumption DEF callVars, workVars, scopeVars, replyVars
<1>0. /\ TypeOK /\ ResumableTypeOK /\ Replies /\ Gotten /\ WorkerNeverPanics
      /\ Buffered /\ Handling
    BY DEF RInv, IInv
<1>1. UNCHANGED <<key, issued, perform, cancelled, scope, resume, outcome>>
    BY DEF Receive, Exit
<1>2. CASE Receive(w)
  <2> DEFINE call == Head(queue[w])
  <2>1. /\ queue[w] \in Seq(Calls) /\ queue[w] # <<>> /\ call = queue[w][1]
        /\ 1 \in 1..Len(queue[w]) /\ call \in Calls
    BY <1>0, <1>2 DEF Receive, TypeOK
  <2>2. perform[call] = "sent" /\ started[call] = 0
    BY <2>1, <1>0 DEF Buffered
  <2>3. resume[call] = "open"
    BY <2>1, <2>2, <1>0 DEF Replies, ResumableTypeOK, ResumeStates
  <2>4. /\ started' = [started EXCEPT ![call] = started[call] + 1]
        /\ worker' = [worker EXCEPT ![w] = "handling"]
        /\ current' = [current EXCEPT ![w] = call]
    BY <1>2 DEF Receive
  <2>5. ResumableTypeOK' /\ Gotten'
    BY <1>0, <1>1 DEF ResumableTypeOK, Gotten, Returned
  <2>6. Replies'
    BY <2>1, <2>2, <2>3, <2>4, <1>0, <1>1 DEF Replies, TypeOK
  <2>7. WorkerNeverPanics'
    BY <2>3, <2>4, <1>0, <1>1 DEF WorkerNeverPanics, TypeOK
  <2> QED BY <2>5, <2>6, <2>7 DEF RInv
<1>3. CASE Exit(w)
  <2>1. ResumableTypeOK' /\ Gotten' /\ Replies'
    BY <1>0, <1>1, <1>3 DEF ResumableTypeOK, Gotten, Returned, Replies, Exit
  <2>2. WorkerNeverPanics'
    BY <1>0, <1>1, <1>3 DEF WorkerNeverPanics, Exit, TypeOK
  <2> QED BY <2>1, <2>2 DEF RInv
<1> QED BY <1>2, <1>3

(* Beginning a call makes its reply channel. *)
LEMMA PerformRInv ==
    ASSUME RInv, IInv', NEW c \in Callers, Perform(c)
    PROVE  RInv'
<1> USE DispatcherAssumption DEF callVars, workVars, scopeVars
<1> DEFINE call == <<c, issued[c] + 1>>
<1>0. /\ TypeOK /\ ResumableTypeOK /\ Replies /\ Gotten /\ WorkerNeverPanics
      /\ Sequential /\ AtMostOnce /\ Handling
    BY DEF RInv, IInv
<1>1. /\ call \in Calls /\ perform[call] = "new"
      /\ perform' = [perform EXCEPT ![call] = "sending"]
      /\ resume' = [resume EXCEPT ![call] = "open"]
      /\ UNCHANGED <<key, worker, current, started, cancelled, outcome>>
    BY <1>0 DEF Perform, Issue, TypeOK, Sequential, Calls
<1>2. resume[call] = "none" /\ outcome[call] = "none"
    BY <1>0, <1>1 DEF Replies, Gotten, Returned
<1>3. ResumableTypeOK'
    BY <1>0, <1>1 DEF ResumableTypeOK, ResumeStates
<1>4. Replies'
    BY <1>0, <1>1, <1>2 DEF Replies, ResumableTypeOK, TypeOK
<1>5. Gotten'
    BY <1>0, <1>1, <1>2 DEF Gotten, Returned, ResumableTypeOK, TypeOK
<1>6. WorkerNeverPanics'
    BY <1>0, <1>1, <1>2 DEF WorkerNeverPanics, Handling, ResumableTypeOK
<1> QED BY <1>3, <1>4, <1>5, <1>6 DEF RInv

(* Waiting callers read reply channels and change none. *)
LEMMA AwaitRInv ==
    ASSUME RInv, IInv', NEW call \in Calls, AwaitStep(call)
    PROVE  RInv'
<1> DEFINE end == outcome'[call]
<1>0. /\ TypeOK /\ ResumableTypeOK /\ Replies /\ Gotten /\ WorkerNeverPanics
    BY DEF RInv, IInv
<1>1. /\ outcome' = [outcome EXCEPT ![call] = end] /\ Returned(call)
      /\ end \in {"value", "nothing", "error"}
      /\ end = "value" => resume[call] = "answered"
      /\ end = "nothing" => resume[call] = "empty"
      /\ UNCHANGED <<key, issued, perform, queue, worker, current, started,
                     cancelled, scope, resume>>
    BY <1>0 DEF AwaitStep, TakeResult, TakeClosed, GiveUp, HasChannel, Returned,
                ResumableTypeOK, vars, callVars, workVars, scopeVars
<1>2. ResumableTypeOK' /\ Gotten'
    BY <1>0, <1>1 DEF ResumableTypeOK, Outcomes, Gotten, Returned
<1>3. Replies' /\ WorkerNeverPanics'
    BY <1>0, <1>1 DEF Replies, WorkerNeverPanics
<1> QED BY <1>2, <1>3 DEF RInv

LEMMA NextRInv == RInv /\ [ResumableNext]_resumableVars => RInv'
<1> SUFFICES ASSUME RInv, [ResumableNext]_resumableVars PROVE RInv'
    OBVIOUS
<1>0. IInv'
    BY StepSimulation, NextIInv DEF RInv
<1>1. CASE \E c \in Callers : Perform(c)
    BY <1>0, <1>1, PerformRInv
<1>2. CASE \E call \in Calls : CallStep(call) /\ UNCHANGED replyVars
    BY <1>0, <1>2, QuietRInv
<1>3. CASE \E w \in Workers : (Receive(w) \/ Exit(w)) /\ UNCHANGED replyVars
    BY <1>0, <1>3, WorkerRInv
<1>4. CASE \E w \in Workers : Answer(w) \/ DropAnswer(w)
    BY <1>0, <1>4, AnswerRInv
<1>5. CASE ScopeStep /\ UNCHANGED replyVars
  <2>1. /\ UNCHANGED <<perform, worker, current, started, resume, outcome>>
        /\ cancelled \subseteq cancelled'
    BY <1>5 DEF ScopeStep, CancelParent, Propagate, CancelCaller, CancelHandler,
                Teardown, replyVars, callVars, workVars
  <2> QED BY <1>0, <2>1 DEF RInv, ResumableTypeOK, Replies, Gotten, Returned, WorkerNeverPanics
<1>6. CASE \E call \in Calls : AwaitStep(call)
    BY <1>0, <1>6, AwaitRInv
<1>7. CASE UNCHANGED resumableVars
  <2>1. UNCHANGED <<perform, worker, current, started, cancelled, resume, outcome>>
    BY <1>7 DEF resumableVars, replyVars, vars, callVars, workVars, scopeVars
  <2> QED BY <1>0, <2>1 DEF RInv, ResumableTypeOK, Replies, Gotten, Returned, WorkerNeverPanics
<1> QED BY <1>1, <1>2, <1>3, <1>4, <1>5, <1>6, <1>7 DEF ResumableNext

-----------------------------------------------------------------------------
(* The reply channel of a call follows the call, in every reachable state. *)
THEOREM ResumableInductive == ResumableSpec => []RInv
BY InitRInv, NextRInv, PTL DEF ResumableSpec

(* No worker ever sends on, or closes, a closed reply channel. *)
THEOREM NoWorkerPanic == ResumableSpec => []WorkerNeverPanics
<1>1. RInv => WorkerNeverPanics
    BY DEF RInv
<1> QED BY <1>1, ResumableInductive, PTL

(* A value comes from one's own handled call; a call that was not handed   *)
(* over yields an error or waits.                                          *)
THEOREM Earned == ResumableSpec => []ResultIsEarned
<1>1. RInv => ResultIsEarned
  <2> SUFFICES ASSUME RInv, NEW call \in Calls
               PROVE  /\ outcome[call] = "value" => started[call] = 1 /\ perform[call] = "sent"
                      /\ perform[call] \in {"aborted", "recovered"} =>
                            outcome[call] \in {"none", "error"}
    BY DEF ResultIsEarned
  <2>1. started[call] > 0 => perform[call] = "sent"
    BY DEF RInv, IInv, AtMostOnce, TypeOK
  <2>2. resume[call] \in {"answered", "empty"} => started[call] > 0
    BY DEF RInv, Replies
  <2> QED BY <2>1, <2>2 DEF RInv, Replies, Gotten, ResumableTypeOK, Outcomes
<1> QED BY <1>1, ResumableInductive, PTL

(* In a live scope no caller is resumed without its result. *)
THEOREM NoResultLostWhileOpen == ResumableSpec => []ResultLostOnlyWhenDone
<1>1. RInv => ResultLostOnlyWhenDone
    BY DEF RInv, Replies, Gotten, ResultLostOnlyWhenDone
<1> QED BY <1>1, ResumableInductive, PTL

-----------------------------------------------------------------------------
(* The supervisor: its WaitGroup, its slice and its watcher. *)
LiveChildren == {ch \in Children : Live(ch)}

(* The WaitGroup counts the children that live. *)
Counted ==
    /\ child \in [Children -> ChildStates]
    /\ IsFiniteSet(LiveChildren)
    /\ wg = Cardinality(LiveChildren)

(* The slots of the slice, those the watcher has left to call and those it *)
(* has called are of children that spawnConcurrentChildren came to.        *)
Slotted ==
    /\ childrenCancels \in Seq(Children)
    /\ left \in Seq(Children)
    /\ childCancelled \subseteq Children
    /\ watcher \in {"waiting", "cancelling", "ended"}
    /\ crashed \in BOOLEAN
    /\ \A i \in 1..Len(childrenCancels) : child[childrenCancels[i]] # "none"
    /\ \A i \in 1..Len(left) : child[left[i]] # "none"
    /\ \A ch \in childCancelled : child[ch] # "none"

SInv == Counted /\ Slotted

LEMMA InitSInv == SupervisorInit => SInv
<1> SUFFICES ASSUME SupervisorInit PROVE SInv
    OBVIOUS
<1>1. LiveChildren = {}
    BY DEF SupervisorInit, LiveChildren, Live
<1>2. Counted
    BY <1>1, FS_EmptySet DEF SupervisorInit, Counted, ChildStates
<1>3. Slotted
  <2>1. /\ childrenCancels = <<>> /\ left = <<>> /\ childCancelled = {}
        /\ watcher = "waiting" /\ crashed = FALSE
    BY DEF SupervisorInit
  <2>2. <<>> \in Seq(Children) /\ 1..Len(<<>>) = {}
    OBVIOUS
  <2> QED BY <2>1, <2>2 DEF Slotted
<1> QED BY <1>2, <1>3 DEF SInv

-----------------------------------------------------------------------------
(* A child that does not live before and lives after a step adds one. *)
LEMMA ChildStarts ==
    ASSUME Counted, NEW ch \in Children, ~Live(ch),
           NEW kind \in {"running", "blocked"},
           child' = [child EXCEPT ![ch] = kind],
           wg' = wg + 1
    PROVE  Counted'
<1>1. LiveChildren' = LiveChildren \cup {ch} /\ ch \notin LiveChildren
    BY DEF Counted, LiveChildren, Live
<1>2. IsFiniteSet(LiveChildren') /\ Cardinality(LiveChildren') = Cardinality(LiveChildren) + 1
    BY <1>1, FS_AddElement DEF Counted
<1> QED BY <1>2 DEF Counted, ChildStates

LEMMA ChildStops ==
    ASSUME Counted, NEW ch \in Children, Live(ch),
           child' = [child EXCEPT ![ch] = "ended"],
           wg' = wg - 1
    PROVE  Counted'
<1>1. LiveChildren' = LiveChildren \ {ch} /\ ch \in LiveChildren
    BY DEF Counted, LiveChildren, Live
<1>2. IsFiniteSet(LiveChildren') /\ Cardinality(LiveChildren') = Cardinality(LiveChildren) - 1
    BY <1>1, FS_RemoveElement DEF Counted
<1> QED BY <1>2 DEF Counted, ChildStates

LEMMA ChildPrepares ==
    ASSUME Counted, NEW ch \in Children, ~Live(ch),
           NEW stage \in {"slotted", "listed"},
           child' = [child EXCEPT ![ch] = stage],
           wg' = wg
    PROVE  Counted'
<1>1. LiveChildren' = LiveChildren
    BY DEF Counted, LiveChildren, Live
<1> QED BY <1>1 DEF Counted, ChildStates

(* Children only move on, so what was slotted stays so. *)
LEMMA SlottedStays ==
    ASSUME Slotted, Counted, NEW ch \in Children, NEW stage \in ChildStates \ {"none"},
           child' = [child EXCEPT ![ch] = stage],
           UNCHANGED watchVars,
           childrenCancels' = childrenCancels
    PROVE  Slotted'
<1>1. \A d \in Children : child[d] # "none" => child'[d] # "none"
    BY DEF Counted
<1>2. /\ \A i \in 1..Len(childrenCancels) : childrenCancels[i] \in Children
      /\ \A i \in 1..Len(left) : left[i] \in Children
    BY DEF Slotted
<1> QED BY <1>1, <1>2 DEF Slotted, watchVars

LEMMA SpawnSInv ==
    ASSUME SInv, NEW ch \in Children, SpawnStep(ch) \/ ChildEnds(ch)
    PROVE  SInv'
<1> USE DEF SInv
<1>1. CASE Slot(ch)
  <2>1. Counted'
    BY <1>1, ChildPrepares DEF Slot, Live
  <2>2. /\ child' = [child EXCEPT ![ch] = "slotted"]
        /\ childrenCancels' = Append(childrenCancels, ch)
        /\ UNCHANGED watchVars
    BY <1>1 DEF Slot
  <2>3. \A d \in Children : child[d] # "none" => child'[d] # "none"
    BY <2>2 DEF Counted
  <2>4. /\ childrenCancels \in Seq(Children) /\ left \in Seq(Children)
        /\ \A i \in 1..Len(childrenCancels) : childrenCancels[i] \in Children
        /\ \A i \in 1..Len(left) : left[i] \in Children
    BY DEF Slotted
  <2>5. ASSUME NEW i \in 1..Len(childrenCancels')
        PROVE  child'[childrenCancels'[i]] # "none"
    <3>1. CASE i = Len(childrenCancels) + 1
      BY <2>2, <2>4, <3>1 DEF Counted
    <3>2. CASE i # Len(childrenCancels) + 1
      BY <2>2, <2>3, <2>4, <3>2 DEF Slotted
    <3> QED BY <3>1, <3>2
  <2>6. childrenCancels' \in Seq(Children)
    BY <2>2, <2>4
  <2>7. Slotted'
    BY <2>2, <2>3, <2>4, <2>5, <2>6 DEF Slotted, watchVars
  <2> QED BY <2>1, <2>7
<1>2. CASE List(ch)
  <2>1. Counted'
    BY <1>2, ChildPrepares DEF List, Live
  <2>2. Slotted'
    BY <1>2, SlottedStays DEF List, ChildStates
  <2> QED BY <2>1, <2>2
<1>3. CASE Go(ch)
  <2>1. PICK kind \in {"running", "blocked"} : child' = [child EXCEPT ![ch] = kind]
    BY <1>3 DEF Go
  <2>2. ~Live(ch) /\ wg' = wg + 1 /\ childrenCancels' = childrenCancels /\ UNCHANGED watchVars
    BY <1>3 DEF Go, Live
  <2>3. Counted'
    BY <2>1, <2>2, ChildStarts
  <2>4. Slotted'
    BY <2>1, <2>2, SlottedStays DEF ChildStates
  <2> QED BY <2>3, <2>4
<1>4. CASE ChildEnds(ch)
  <2>1. Counted'
    BY <1>4, ChildStops DEF ChildEnds, Live
  <2>2. Slotted'
    BY <1>4, SlottedStays DEF ChildEnds, ChildStates
  <2> QED BY <2>1, <2>2
<1> QED BY <1>1, <1>2, <1>3, <1>4 DEF SpawnStep

LEMMA WatchSInv ==
    ASSUME SInv, WatchStep
    PROVE  SInv'
<1> USE DEF SInv
<1>1. UNCHANGED childVars
    BY DEF WatchStep, WatchCancel, CancelNext, WatchEnd
<1>2. Counted'
    BY <1>1 DEF Counted, LiveChildren, Live, childVars
<1>3. Slotted'
  <2>1. CASE WatchCancel \/ WatchEnd
    BY <1>1, <2>1 DEF Slotted, childVars, WatchCancel, WatchEnd
  <2>2. CASE CancelNext
    <3>1. /\ left \in Seq(Children) /\ left # <<>>
          /\ left' = Tail(left)
          /\ childCancelled' = childCancelled \cup {Head(left)}
          /\ UNCHANGED watcher
          /\ crashed' = (child[Head(left)] = "slotted")
      BY <2>2 DEF CancelNext, Slotted
    <3>2. /\ left' \in Seq(Children) /\ Head(left) = left[1] /\ 1 \in 1..Len(left)
          /\ \A i \in 1..Len(left') : i + 1 \in 1..Len(left) /\ left'[i] = left[i + 1]
      BY <3>1
    <3>3. Head(left) \in Children
      BY <3>1
    <3>4. \A i \in 1..Len(left') : child[left'[i]] # "none"
      BY <3>2 DEF Slotted
    <3> QED BY <1>1, <3>1, <3>2, <3>3, <3>4 DEF Slotted, childVars
  <2> QED BY <2>1, <2>2 DEF WatchStep
<1> QED BY <1>2, <1>3

LEMMA NextSInv == SInv /\ [SupervisorNext]_supervisorVars => SInv'
<1> SUFFICES ASSUME SInv, [SupervisorNext]_supervisorVars PROVE SInv'
    OBVIOUS
<1>1. ASSUME UNCHANGED <<childVars, watchVars>> PROVE SInv'
  <2>1. LiveChildren' = LiveChildren
    BY <1>1 DEF LiveChildren, Live, childVars
  <2> QED BY <1>1, <2>1 DEF SInv, Counted, Slotted, childVars, watchVars
<1>2. CASE EffectStep \/ (\E w \in Workers : Reply(w)) \/ EndScope
    BY <1>1, <1>2 DEF EffectStep, Reply, EndScope
<1>3. CASE \E ch \in Children : SpawnStep(ch) \/ ChildEnds(ch)
    BY <1>3, SpawnSInv
<1>4. CASE WatchStep
    BY <1>4, WatchSInv
<1>5. CASE UNCHANGED supervisorVars
    BY <1>1, <1>5 DEF supervisorVars
<1> QED BY <1>2, <1>3, <1>4, <1>5 DEF SupervisorNext

-----------------------------------------------------------------------------
(* The WaitGroup counts the live children, in every reachable state.       *)
THEOREM SupervisorInductive == SupervisorSpec => []SInv
BY InitSInv, NextSInv, PTL DEF SupervisorSpec

(* The counter of the WaitGroup never goes below zero, where wg.Done()     *)
(* would panic, and the variables keep their types.                        *)
THEOREM SupervisorTypeCorrect == SupervisorSpec => []SupervisorTypeOK
<1>1. SInv => SupervisorTypeOK
    BY FS_CardinalityType DEF SInv, Counted, Slotted, SupervisorTypeOK
<1> QED BY <1>1, SupervisorInductive, PTL

(* When the scope closes, no child it started is alive: for any number of  *)
(* callers and functions, and any order in which children end.             *)
THEOREM CloseJoins == SupervisorSpec => CloseJoinsChildren
<1>1. SInv => [EndScope => \A ch \in Children : ~Live(ch)]_supervisorVars
  <2> SUFFICES ASSUME SInv, EndScope, NEW ch \in Children PROVE ~Live(ch)
    OBVIOUS
  <2>1. Cardinality(LiveChildren) = 0 /\ IsFiniteSet(LiveChildren)
    BY DEF SInv, Counted, EndScope
  <2>2. LiveChildren = {}
    BY <2>1, FS_EmptySet
  <2> QED BY <2>2 DEF LiveChildren
<1> QED BY <1>1, SupervisorInductive, PTL DEF CloseJoinsChildren

-----------------------------------------------------------------------------
(* A step of the supervisor is a step of the resumable effect, or one that *)
(* the effect does not see.                                                *)
LEMMA SupervisorStep ==
    ASSUME [SupervisorNext]_supervisorVars
    PROVE  [ResumableNext]_resumableVars
<1>1. CASE EffectStep
    BY <1>1 DEF EffectStep, ResumableNext
<1>2. CASE \E ch \in Children : SpawnStep(ch) \/ ChildEnds(ch)
    BY <1>2 DEF SpawnStep, Slot, List, Go, ChildEnds
<1>3. CASE \E w \in Workers : Reply(w)
    BY <1>3 DEF Reply, ResumableNext
<1>4. CASE WatchStep
    BY <1>4 DEF WatchStep, WatchCancel, CancelNext, WatchEnd
<1>5. CASE EndScope
    BY <1>5 DEF EndScope, ScopeStep, ResumableNext
<1>6. CASE UNCHANGED supervisorVars
    BY <1>6 DEF supervisorVars
<1> QED BY <1>1, <1>2, <1>3, <1>4, <1>5, <1>6 DEF SupervisorNext

(* In the same way its invariants are the supervisor's. *)
LEMMA SupervisorResumes == SupervisorSpec => ResumableSpec
BY SupervisorStep, PTL DEF SupervisorSpec, SupervisorInit, ResumableSpec

(* Hence the calls of concurrency.Effect have the guarantees of the        *)
(* dispatcher and of its replies, in any scope the supervisor serves.      *)
THEOREM SupervisedEffects ==
    SupervisorSpec => [](PerKeyOrder /\ AtMostOnce /\ WorkerNeverPanics /\ ResultIsEarned)
BY SupervisorResumes, ResumableDispatches, KeyOrder, StartedOnce, NoWorkerPanic, Earned, PTL
=============================================================================
