------------------------------ MODULE Tableize ------------------------------
(***************************************************************************)
(* purefn: a function of two arguments memoized by TableizeI2O1 or         *)
(* TableizeI2O2 (tableize and tableize_dual_output differ in the shape of  *)
(* the value only) over a Trie of two rotating sync.Maps.  Goroutines call *)
(* it at any time; every access to shared memory is a step of its own: the *)
(* atomic size, the plain headIdx and each sync.Map operation.             *)
(*                                                                         *)
(* headIdx is a word that goroutines race on.  A read returns a value that *)
(* was written and not yet overwritten, which is what the Go memory model  *)
(* promises of a racing word.                                              *)
(*                                                                         *)
(* A node is a second-level map.  Nodes have identities, because a         *)
(* goroutine keeps using one after it was unlinked; an identity is free    *)
(* again when neither a memo nor a goroutine refers to it.                 *)
(***************************************************************************)
EXTENDS Integers, FiniteSets

CONSTANTS Procs,         \* goroutines, or activations in one goroutine
          First, Second, \* the values of the two arguments
          TableKey(_),   \* tableKey: a Stringer's string, else the value itself
          Setups         \* who calls, and the size of the table: see setup

ASSUME SetupsAssumption ==
    Setups \subseteq [oneGoroutine : BOOLEAN, maxSize : Nat \ {0}, calls : Nat]
ASSUME ArgumentsAssumption ==
    IsFiniteSet(First) /\ IsFiniteSet(Second) /\ IsFiniteSet(Procs)

Args == First \X Second
KeysOf(S) == {TableKey(x) : x \in S}
NodeIds == 1..(2 * Cardinality(First) + Cardinality(Procs))
NoNode == 0
Absent == <<>>
NoArg == <<>>

VARIABLES
    setup,    \* the configuration: it never changes
    memos,    \* memos[i]: first key -> node or NoNode
    node,     \* node[n]: second key -> stored value or Absent
    headIdx, size,
    pc, arg,  \* per goroutine: where it is, the arguments of its call
    phase,    \* which traversal: "head" and "other" of Load, "store" of Store
    idx,      \* the value of headIdx it works with
    at,       \* the node its traversal returned
    val,      \* the value it found or computed
    calls

vars == <<setup, memos, node, headIdx, size, pc, arg, phase, idx, at, val, calls>>

OneGoroutine == setup.oneGoroutine  \* all calls from one, perhaps nested
MaxSize == setup.maxSize            \* maxTableSize
MaxCalls == setup.calls             \* bound: calls in a run

EmptyNode == [k \in KeysOf(Second) |-> Absent]
EmptyMemo == [k \in KeysOf(First) |-> NoNode]
Key(p) == <<TableKey(arg[p][1]), TableKey(arg[p][2])>>

(* The function being tabulated: distinct arguments have distinct results.  *)
PureFn(a) == a

Init ==
    /\ setup \in Setups
    /\ memos = [i \in {0, 1} |-> EmptyMemo]
    /\ node = [n \in NodeIds |-> EmptyNode]
    /\ headIdx = 0 /\ size = 0 /\ calls = 0
    /\ pc = [p \in Procs |-> "idle"]
    /\ arg = [p \in Procs |-> NoArg]
    /\ phase = [p \in Procs |-> "head"]
    /\ idx = [p \in Procs |-> 0]
    /\ at = [p \in Procs |-> NoNode]
    /\ val = [p \in Procs |-> Absent]

(* One goroutine runs a nested call while the outer one is in pureFn.       *)
MayRun(p) ==
    OneGoroutine => \A q \in Procs \ {p} : pc[q] \in {"idle", "compute"}

Goto(p, from, to) == MayRun(p) /\ pc[p] = from /\ pc' = [pc EXCEPT ![p] = to]

(* tableize: the closure builds its keys and asks the memo.                 *)
Call(p) ==
    /\ calls < MaxCalls /\ Goto(p, "idle", "head")
    /\ \E a \in Args : arg' = [arg EXCEPT ![p] = a]
    /\ phase' = [phase EXCEPT ![p] = "head"]
    /\ calls' = calls + 1
    /\ UNCHANGED <<setup, memos, node, headIdx, size, idx, at, val>>

(* Every use of headIdx reads it first: Load and Store before they          *)
(* traverse, the rotation before Clear and again to flip it.                *)
AfterReading == [head |-> "traverse", rotate |-> "clear", reread |-> "flip"]

ReadHead(p) ==
    /\ pc[p] \in DOMAIN AfterReading
    /\ Goto(p, pc[p], AfterReading[pc[p]])
    /\ idx' = [idx EXCEPT ![p] = headIdx]
    /\ UNCHANGED <<setup, memos, node, headIdx, size, arg, phase, at, val, calls>>

(* traverse: the first-level lookup, and its miss (MakeNode).               *)
Traverse(p) ==
    LET n == memos[idx[p]][Key(p)[1]]
    IN  /\ Goto(p, "traverse", IF n = NoNode THEN "make" ELSE "leaf")
        /\ at' = [at EXCEPT ![p] = n]
        /\ UNCHANGED <<setup, memos, node, headIdx, size, arg, phase, idx, val, calls>>

FreeNodes ==
    NodeIds \ ({memos[i][k] : i \in {0, 1}, k \in KeysOf(First)}
                 \cup {at[p] : p \in Procs})

MakeNode(p) ==
    LET n == CHOOSE m \in FreeNodes : TRUE
    IN  /\ Goto(p, "make", "leaf")
        /\ memos' = [memos EXCEPT ![idx[p]][Key(p)[1]] = n]
        /\ node' = [node EXCEPT ![n] = EmptyNode]
        /\ at' = [at EXCEPT ![p] = n]
        /\ UNCHANGED <<setup, headIdx, size, arg, phase, idx, val, calls>>

(* Load finds the value in the head memo or, failing that, in the other     *)
(* one; a miss in both sends the caller to pureFn.                          *)
LoadHit(p) ==
    /\ Goto(p, "leaf", "answer") /\ phase[p] # "store"
    /\ node[at[p]][Key(p)[2]] # Absent
    /\ val' = [val EXCEPT ![p] = node[at[p]][Key(p)[2]]]
    /\ at' = [at EXCEPT ![p] = NoNode]
    /\ UNCHANGED <<setup, memos, node, headIdx, size, arg, phase, idx, calls>>

LoadMissHead(p) ==
    /\ Goto(p, "leaf", "traverse") /\ phase[p] = "head"
    /\ node[at[p]][Key(p)[2]] = Absent
    /\ phase' = [phase EXCEPT ![p] = "other"]
    /\ idx' = [idx EXCEPT ![p] = 1 - @]
    /\ at' = [at EXCEPT ![p] = NoNode]
    /\ UNCHANGED <<setup, memos, node, headIdx, size, arg, val, calls>>

LoadMissOther(p) ==
    /\ Goto(p, "leaf", "compute") /\ phase[p] = "other"
    /\ node[at[p]][Key(p)[2]] = Absent
    /\ at' = [at EXCEPT ![p] = NoNode]
    /\ UNCHANGED <<setup, memos, node, headIdx, size, arg, phase, idx, val, calls>>

Compute(p) ==
    /\ Goto(p, "compute", "cas")
    /\ val' = [val EXCEPT ![p] = PureFn(arg[p])]
    /\ phase' = [phase EXCEPT ![p] = "store"]
    /\ UNCHANGED <<setup, memos, node, headIdx, size, arg, idx, at, calls>>

(* Store: size.CompareAndSwap(maxSize, 0).                                  *)
Bug_SwapLate(p) ==
    /\ Goto(p, "cas", IF size > MaxSize THEN "rotate" ELSE "head")
    /\ size' = IF size > MaxSize THEN 0 ELSE size
    /\ UNCHANGED <<setup, memos, node, headIdx, arg, phase, idx, at, val, calls>>

CompareAndSwap(p) ==
    /\ Goto(p, "cas", IF size = MaxSize THEN "rotate" ELSE "head")
    /\ size' = IF size = MaxSize THEN 0 ELSE size
    /\ UNCHANGED <<setup, memos, node, headIdx, arg, phase, idx, at, val, calls>>

(* t.memos[t.headIdx].Clear()                                               *)
Clear(p) ==
    /\ Goto(p, "clear", "reread")
    /\ memos' = [memos EXCEPT ![idx[p]] = EmptyMemo]
    /\ UNCHANGED <<setup, node, headIdx, size, arg, phase, idx, at, val, calls>>

(* t.headIdx = 1 - t.headIdx                                                *)
Flip(p) ==
    /\ Goto(p, "flip", "head")
    /\ headIdx' = 1 - idx[p]
    /\ UNCHANGED <<setup, memos, node, size, arg, phase, idx, at, val, calls>>

Bug_StoreAnywhere(p) ==
    /\ phase[p] = "store" /\ Goto(p, "leaf", "add")
    /\ \E n \in NodeIds \ FreeNodes :
         node' = [node EXCEPT ![n][Key(p)[2]] = val[p]]
    /\ at' = [at EXCEPT ![p] = NoNode]
    /\ UNCHANGED <<setup, memos, headIdx, size, arg, phase, idx, val, calls>>

StoreLeaf(p) ==
    /\ phase[p] = "store" /\ Goto(p, "leaf", "add")
    /\ node' = [node EXCEPT ![at[p]][Key(p)[2]] = val[p]]
    /\ at' = [at EXCEPT ![p] = NoNode]
    /\ UNCHANGED <<setup, memos, headIdx, size, arg, phase, idx, val, calls>>

(* The leaf lands in whatever node now stands for the first key.            *)
Count(p) ==
    /\ Goto(p, "add", "answer")
    /\ size' = size + 1
    /\ UNCHANGED <<setup, memos, node, headIdx, arg, phase, idx, at, val, calls>>

Answer(p) ==
    /\ Goto(p, "answer", "idle")
    /\ val' = [val EXCEPT ![p] = Absent]
    /\ arg' = [arg EXCEPT ![p] = NoArg]
    /\ phase' = [phase EXCEPT ![p] = "head"]
    /\ idx' = [idx EXCEPT ![p] = 0]
    /\ UNCHANGED <<setup, memos, node, headIdx, size, at, calls>>

Load(p) == LoadHit(p) \/ LoadMissHead(p) \/ LoadMissOther(p)
Store(p) == CompareAndSwap(p) \/ Clear(p) \/ Flip(p) \/ StoreLeaf(p) \/ Count(p)

Next ==
    \E p \in Procs :
        \/ Call(p) \/ ReadHead(p) \/ Traverse(p) \/ MakeNode(p)
        \/ Load(p) \/ Compute(p) \/ Store(p) \/ Answer(p)

Spec == Init /\ [][Next]_vars
-----------------------------------------------------------------------------
Keys == KeysOf(First) \X KeysOf(Second)

TypeOK ==
    /\ memos \in [{0, 1} -> [KeysOf(First) -> NodeIds \cup {NoNode}]]
    /\ node \in [NodeIds -> [KeysOf(Second) -> Args \cup {Absent}]]
    /\ headIdx \in {0, 1} /\ size \in 0..MaxCalls
    /\ pc \in [Procs -> {"idle", "head", "rotate", "reread", "traverse", "make",
                         "leaf", "compute", "cas", "clear", "flip", "add",
                         "answer"}]
    /\ arg \in [Procs -> Args \cup {NoArg}] /\ phase \in [Procs -> {"head", "other", "store"}]
    /\ idx \in [Procs -> {0, 1}] /\ at \in [Procs -> NodeIds \cup {NoNode}]
    /\ val \in [Procs -> Args \cup {Absent}]
    /\ calls \in 0..MaxCalls

Leaves(i) ==
    {k \in Keys :
        memos[i][k[1]] # NoNode /\ node[memos[i][k[1]]][k[2]] # Absent}

(* Every call returns the pure function of its own arguments, whatever the  *)
(* other goroutines store, clear, unlink or count meanwhile.                *)
AnswerIsPure == \A p \in Procs : pc[p] = "answer" => val[p] = PureFn(arg[p])

(* Calls from one goroutine: between stores the table never holds more than *)
(* maxTableSize entries, and all of them are in the head memo.  Clearing    *)
(* the head before switching to the empty memo forgets the whole table, so  *)
(* the second lookup of Load never finds anything.                          *)
Storing == \E p \in Procs : pc[p] # "idle" /\ phase[p] = "store"

RotationForgetsAll ==
    OneGoroutine /\ ~Storing =>
        Cardinality(Leaves(headIdx)) <= MaxSize /\ Leaves(1 - headIdx) = {}

(* purefn/doc.go:18, "Trie-based bounded cache", and purefn/trie.go:72, "If  *)
(* the size exceeds maxSize, it switches to the other map": when two stores *)
(* add to a size just below maxSize the counter passes maxSize, is never    *)
(* again equal to it, and the table grows with every new key.               *)
CacheBounded ==
    \A i \in {0, 1} : Cardinality(Leaves(i)) <= MaxSize + Cardinality(Procs)
=============================================================================
