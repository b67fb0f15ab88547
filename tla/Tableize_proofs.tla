-------------------------- MODULE Tableize_proofs --------------------------
(***************************************************************************)
(* Theorems about the memo tables, for any arguments, goroutines and table *)
(* sizes.  Goroutines read and write nodes that others have unlinked       *)
(* meanwhile.  An answer is right all the same because a node belongs to   *)
(* one first key as long as anybody refers to it (OneKey, Filed).  That    *)
(* the table is bounded when one goroutine calls, perhaps nested, follows  *)
(* the stages of Store (Rotation).                                         *)
(***************************************************************************)
EXTENDS Tableize, FiniteSetTheorems, TLAPS

(* Distinct arguments have distinct table keys.                            *)
TellsApart ==
    /\ \A x, y \in First : TableKey(x) = TableKey(y) => x = y
    /\ \A x, y \in Second : TableKey(x) = TableKey(y) => x = y

(* A goroutine has a node in its hands at the leaf, and a value of its own *)
(* from the computation on.                                                *)
Stage(p) ==
    /\ at[p] # NoNode <=> pc[p] = "leaf"
    /\ pc[p] # "idle" => arg[p] \in Args
    /\ phase[p] = "store" => pc[p] \notin {"idle", "compute"}
    /\ pc[p] \in {"cas", "rotate", "clear", "reread", "flip", "add"} => phase[p] = "store"

Staged ==
    /\ setup \in Setups
    /\ \A p \in Procs : Stage(p)

(* Every call counts at most once. *)
Uncounted == {p \in Procs : pc[p] \notin {"idle", "answer"}}
Counted == size + Cardinality(Uncounted) <= calls

Refers(n, k) ==
    \/ \E i \in {0, 1} : memos[i][k] = n
    \/ \E p \in Procs : at[p] = n /\ TableKey(arg[p][1]) = k

(* A node stands for one first key, and not in both memos. *)
OneKey ==
    /\ \A n \in NodeIds : \A k, l \in KeysOf(First) :
        Refers(n, k) /\ Refers(n, l) => k = l
    /\ \A k \in KeysOf(First) : memos[0][k] # NoNode => memos[0][k] # memos[1][k]

(* What is in a node was filed under its keys. *)
Filed ==
    \A n \in NodeIds, k \in KeysOf(First), j \in KeysOf(Second) :
        Refers(n, k) /\ node[n][j] # Absent =>
            TableKey(node[n][j][1]) = k /\ TableKey(node[n][j][2]) = j

OwnValue(p) ==
    phase[p] = "store" \/ (pc[p] = "answer" /\ TellsApart) => val[p] = arg[p]

Own == \A p \in Procs : OwnValue(p)

(* Between stores, and at each stage of the one that is under way. *)
Within == Cardinality(Leaves(headIdx)) <= size /\ size <= MaxSize

StoreStage(p) ==
    /\ pc[p] \in {"cas", "answer"} => Within
    /\ pc[p] \in {"rotate", "clear", "reread", "flip"} => size = 0
    /\ pc[p] \in {"clear", "flip", "traverse", "make", "leaf"} => idx[p] = headIdx
    /\ pc[p] \in {"reread", "flip"} => Leaves(headIdx) = {}
    /\ pc[p] \in {"head", "traverse", "make", "leaf"} => Within /\ size < MaxSize
    /\ pc[p] = "leaf" => at[p] = memos[headIdx][Key(p)[1]]
    /\ pc[p] = "add" => Cardinality(Leaves(headIdx)) <= size + 1 /\ size < MaxSize

Rotation ==
    OneGoroutine =>
        /\ \A p, q \in Procs :
            p # q /\ pc[p] \notin {"idle", "compute"} => pc[q] \in {"idle", "compute"}
        /\ Leaves(1 - headIdx) = {}
        /\ (\A p \in Procs : phase[p] # "store") => Within
        /\ \A p \in Procs : phase[p] = "store" => StoreStage(p)

TInv == TypeOK /\ Staged /\ Counted /\ OneKey /\ Filed /\ Own /\ Rotation

-----------------------------------------------------------------------------
LEMMA SetupShape ==
    ASSUME setup \in Setups
    PROVE  MaxSize \in Nat \ {0} /\ MaxCalls \in Nat /\ OneGoroutine \in BOOLEAN
BY SetupsAssumption DEF MaxSize, MaxCalls, OneGoroutine

LEMMA ArgShape ==
    ASSUME NEW a \in Args
    PROVE  /\ a[1] \in First /\ a[2] \in Second
           /\ TableKey(a[1]) \in KeysOf(First) /\ TableKey(a[2]) \in KeysOf(Second)
BY DEF Args, KeysOf

LEMMA ImageSize ==
    ASSUME NEW S, IsFiniteSet(S), NEW f, DOMAIN f = S, f = [x \in S |-> f[x]]
    PROVE  LET T == {f[x] : x \in S}
           IN  IsFiniteSet(T) /\ Cardinality(T) <= Cardinality(S)
<1> DEFINE T == {f[x] : x \in S}
<1>1. f \in Surjection(S, T)
    BY DEF Surjection
<1> QED BY <1>1, FS_Surjection

LEMMA KeysFinite ==
    /\ IsFiniteSet(KeysOf(First)) /\ Cardinality(KeysOf(First)) <= Cardinality(First)
    /\ IsFiniteSet(KeysOf(Second))
<1>1. ASSUME NEW S, IsFiniteSet(S)
      PROVE  IsFiniteSet(KeysOf(S)) /\ Cardinality(KeysOf(S)) <= Cardinality(S)
  <2> DEFINE f == [x \in S |-> TableKey(x)]
  <2>1. {f[x] : x \in S} = KeysOf(S)
      BY DEF KeysOf
  <2>2. DOMAIN f = S /\ f = [x \in S |-> f[x]]
      OBVIOUS
  <2> HIDE DEF f
  <2> QED BY <1>1, <2>1, <2>2, ImageSize
<1> QED BY <1>1, ArgumentsAssumption

(* What a table holds is finite, and a smaller table holds less. *)
LEMMA LeavesFinite ==
    ASSUME NEW i
    PROVE  IsFiniteSet(Leaves(i)) /\ Cardinality(Leaves(i)) \in Nat
<1>1. IsFiniteSet(Keys)
    BY KeysFinite, FS_Product DEF Keys
<1>2. Leaves(i) \in SUBSET Keys
    BY DEF Leaves
<1> QED BY <1>1, <1>2, FS_Subset, FS_CardinalityType

(* There is a free node for whoever needs one: memos and other goroutines  *)
(* refer to fewer than there are.                                          *)
LEMMA SomeFree ==
    ASSUME TypeOK, NEW p \in Procs, at[p] = NoNode
    PROVE  FreeNodes # {}
<1> DEFINE M(i) == {memos[i][k] : k \in KeysOf(First)}
           H == {at[q] : q \in Procs \ {p}}
           F == Cardinality(First)
           P == Cardinality(Procs)
<1>1. F \in Nat /\ P \in Nat
    BY ArgumentsAssumption, FS_CardinalityType
<1>2. ASSUME NEW i \in {0, 1} PROVE IsFiniteSet(M(i)) /\ Cardinality(M(i)) <= F
  <2> DEFINE f == memos[i]
  <2>1. DOMAIN f = KeysOf(First) /\ f = [k \in KeysOf(First) |-> f[k]]
      BY <1>2 DEF TypeOK
  <2>2. IsFiniteSet(M(i)) /\ Cardinality(M(i)) <= Cardinality(KeysOf(First))
      BY <2>1, KeysFinite, ImageSize
  <2>3. Cardinality(KeysOf(First)) \in Nat /\ Cardinality(M(i)) \in Nat
      BY <2>2, KeysFinite, FS_CardinalityType
  <2> HIDE DEF M
  <2> QED BY <1>1, <2>2, <2>3, KeysFinite
<1>3. IsFiniteSet(H) /\ Cardinality(H) <= P - 1
  <2> DEFINE f == [q \in Procs \ {p} |-> at[q]]
  <2>1. IsFiniteSet(Procs \ {p}) /\ Cardinality(Procs \ {p}) = P - 1
      BY ArgumentsAssumption, FS_RemoveElement
  <2>2. DOMAIN f = Procs \ {p} /\ f = [q \in Procs \ {p} |-> f[q]]
      OBVIOUS
  <2>3. {f[q] : q \in Procs \ {p}} = H
      OBVIOUS
  <2> HIDE DEF f, H
  <2>4. IsFiniteSet(H) /\ Cardinality(H) <= Cardinality(Procs \ {p})
      BY <2>1, <2>2, <2>3, ImageSize
  <2> QED BY <2>1, <2>4
<1>4. NodeIds \ FreeNodes \subseteq (M(0) \cup M(1)) \cup H
    BY DEF FreeNodes, NodeIds, NoNode
<1> HIDE DEF M, H
<1>5. Cardinality(M(0)) \in Nat /\ Cardinality(M(1)) \in Nat /\ Cardinality(H) \in Nat
    BY <1>2, <1>3, FS_CardinalityType
<1>6. /\ IsFiniteSet(M(0) \cup M(1))
      /\ Cardinality(M(0) \cup M(1)) <= F + F
  <2>1. /\ IsFiniteSet(M(0) \cup M(1))
        /\ Cardinality(M(0) \cup M(1)) =
              Cardinality(M(0)) + Cardinality(M(1)) - Cardinality(M(0) \cap M(1))
      BY <1>2, FS_Union
  <2>2. Cardinality(M(0) \cap M(1)) \in Nat
      BY <1>2, FS_Intersection, FS_CardinalityType
  <2> QED BY <1>1, <1>2, <1>5, <2>1, <2>2
<1> DEFINE A == M(0) \cup M(1)
<1>7. /\ IsFiniteSet(A \cup H)
      /\ Cardinality(A \cup H) <= F + F + P - 1
  <2> HIDE DEF A
  <2>1. /\ IsFiniteSet(A \cup H)
        /\ Cardinality(A \cup H) = Cardinality(A) + Cardinality(H) - Cardinality(A \cap H)
      BY <1>3, <1>6, FS_Union DEF A
  <2>2. Cardinality(A \cap H) \in Nat /\ Cardinality(A) \in Nat
      BY <1>3, <1>6, FS_Intersection, FS_CardinalityType DEF A
  <2>3. Cardinality(A) <= F + F
      BY <1>6 DEF A
  <2> QED BY <1>1, <1>3, <1>5, <2>1, <2>2, <2>3
<1>8. /\ IsFiniteSet(NodeIds)
      /\ Cardinality(NodeIds) = F + F + P
  <2>1. 2 * F + P \in Int /\ 2 * F + P >= 0 /\ 2 * F + P = F + F + P
      BY <1>1
  <2>2. NodeIds = 1 .. (2 * F + P)
      BY DEF NodeIds
  <2> HIDE DEF F, P
  <2>3. /\ IsFiniteSet(1 .. (2 * F + P))
        /\ Cardinality(1 .. (2 * F + P)) = 2 * F + P
      BY <2>1, FS_Interval
  <2> QED BY <2>1, <2>2, <2>3
<1>9. SUFFICES ASSUME FreeNodes = {} PROVE FALSE
    OBVIOUS
<1>10. NodeIds \in SUBSET (A \cup H)
    BY <1>4, <1>9
<1>11. Cardinality(NodeIds) <= Cardinality(A \cup H)
    BY <1>7, <1>10, FS_Subset
<1>12. Cardinality(A \cup H) \in Nat
    BY <1>7, FS_CardinalityType
<1> QED BY <1>1, <1>7, <1>8, <1>11, <1>12

-----------------------------------------------------------------------------
(* What a step of one goroutine leaves of the others. *)
Moved(p) ==
    /\ setup' = setup
    /\ TypeOK'
    /\ \A q \in Procs \ {p} :
        /\ pc'[q] = pc[q] /\ arg'[q] = arg[q] /\ phase'[q] = phase[q]
        /\ idx'[q] = idx[q] /\ at'[q] = at[q] /\ val'[q] = val[q]

LEMMA MovedStaged ==
    ASSUME TInv, NEW p \in Procs, Moved(p), Stage(p)'
    PROVE  Staged'
<1>1. ASSUME NEW q \in Procs PROVE Stage(q)'
  <2>1. CASE q = p
      BY <2>1
  <2>2. CASE q # p
      BY <2>2 DEF TInv, Staged, Stage, Moved
  <2> QED BY <2>1, <2>2
<1> QED BY <1>1 DEF TInv, Staged, Moved

LEMMA MovedOwn ==
    ASSUME TInv, NEW p \in Procs, Moved(p), OwnValue(p)'
    PROVE  Own'
<1>1. ASSUME NEW q \in Procs PROVE OwnValue(q)'
  <2>1. CASE q = p
      BY <2>1
  <2>2. CASE q # p
      BY <2>2 DEF TInv, Own, OwnValue, Moved
  <2> QED BY <2>1, <2>2
<1> QED BY <1>1 DEF Own

LEMMA UncountedFinite == IsFiniteSet(Uncounted) /\ Cardinality(Uncounted) \in Nat
<1>1. Uncounted \in SUBSET Procs
    BY DEF Uncounted
<1> QED BY <1>1, ArgumentsAssumption, FS_Subset, FS_CardinalityType

(* Nobody comes into a call and nothing is added. *)
LEMMA MovedCounted ==
    ASSUME TInv, NEW p \in Procs, Moved(p), calls' = calls,
           size' \in Nat, size' <= size,
           pc[p] \notin {"idle", "answer"} \/ pc'[p] \in {"idle", "answer"}
    PROVE  Counted'
<1>1. Uncounted' \in SUBSET Uncounted
    BY DEF Uncounted, Moved
<1>2. Cardinality(Uncounted') \in Nat /\ Cardinality(Uncounted') <= Cardinality(Uncounted)
    BY <1>1, UncountedFinite, FS_Subset, FS_CardinalityType
<1>3. size \in Nat /\ calls \in Nat
    BY DEF TInv, TypeOK
<1>4. Counted' <=> size' + Cardinality(Uncounted') <= calls'
    BY DEF Counted
<1> QED BY <1>2, <1>3, <1>4, UncountedFinite DEF TInv, Counted

(* Nobody refers to a node under a key anew. *)
LEMMA MovedFiles ==
    ASSUME TInv, node' = node,
           \A n \in NodeIds, k \in KeysOf(First) : Refers(n, k)' => Refers(n, k),
           \A k \in KeysOf(First), i \in {0, 1} : memos'[i][k] \in {memos[i][k], NoNode}
    PROVE  OneKey' /\ Filed'
<1>1. \A n \in NodeIds : \A k, l \in KeysOf(First) :
          Refers(n, k)' /\ Refers(n, l)' => k = l
    BY DEF TInv, OneKey
<1>2. \A k \in KeysOf(First) : memos'[0][k] # NoNode => memos'[0][k] # memos'[1][k]
    BY DEF TInv, OneKey
<1>3. Filed'
    BY DEF TInv, Filed
<1> QED BY <1>1, <1>2, <1>3 DEF OneKey

(* Who may run while one goroutine makes all calls is the only one in a    *)
(* call's own steps, so that the table is at the stage of its store.       *)
LEMMA Running ==
    ASSUME TInv, NEW p \in Procs, MayRun(p), OneGoroutine
    PROVE  /\ Leaves(1 - headIdx) = {}
           /\ phase[p] # "store" => Within
           /\ phase[p] = "store" => StoreStage(p)
<1>1. \A q \in Procs \ {p} : phase[q] # "store"
    BY DEF TInv, Staged, Stage, MayRun
<1> QED BY <1>1 DEF TInv, Rotation

LEMMA MovedRotation ==
    ASSUME TInv, NEW p \in Procs, Moved(p), MayRun(p),
           OneGoroutine => /\ Leaves(1 - headIdx)' = {}
                           /\ phase'[p] # "store" => Within'
                           /\ phase'[p] = "store" => StoreStage(p)'
    PROVE  Rotation'
<1> SUFFICES ASSUME OneGoroutine' PROVE Rotation'
    BY DEF Rotation
<1>1. OneGoroutine
    BY DEF OneGoroutine, Moved
<1>2. \A q \in Procs \ {p} : pc'[q] \in {"idle", "compute"} /\ phase'[q] # "store"
    BY <1>1 DEF MayRun, Moved, TInv, Staged, Stage
<1>3. \A q, r \in Procs :
          q # r /\ pc'[q] \notin {"idle", "compute"} => pc'[r] \in {"idle", "compute"}
    BY <1>2
<1>4. \A q \in Procs : phase'[q] = "store" => StoreStage(q)'
    BY <1>1, <1>2
<1>5. (\A q \in Procs : phase'[q] # "store") => Within'
    BY <1>1
<1> QED BY <1>1, <1>3, <1>4, <1>5 DEF Rotation

(* A step that touches neither the tables nor the head leaves them full    *)
(* as they were.                                                           *)
LEMMA SameLeaves ==
    ASSUME memos' = memos, node' = node
    PROVE  \A i : Leaves(i)' = Leaves(i)
BY DEF Leaves

LEMMA SameTable ==
    ASSUME memos' = memos, node' = node, headIdx' = headIdx, setup' = setup
    PROVE  /\ Leaves(1 - headIdx)' = Leaves(1 - headIdx)
           /\ Leaves(headIdx)' = Leaves(headIdx)
           /\ MaxSize' = MaxSize
           /\ size' = size => (Within' <=> Within)
<1>1. Leaves(1 - headIdx)' = Leaves(1 - headIdx) /\ Leaves(headIdx)' = Leaves(headIdx)
    BY DEF Leaves
<1>2. MaxSize' = MaxSize
    BY DEF MaxSize
<1> QED BY <1>1, <1>2 DEF Within

(* The conjuncts of the invariant that a step must be shown to keep. *)
LEMMA Kept ==
    ASSUME TInv, NEW p \in Procs, Moved(p), MayRun(p),
           Stage(p)', OwnValue(p)', Counted', OneKey', Filed',
           OneGoroutine => /\ Leaves(1 - headIdx)' = {}
                           /\ phase'[p] # "store" => Within'
                           /\ phase'[p] = "store" => StoreStage(p)'
    PROVE  TInv'
BY MovedStaged, MovedOwn, MovedRotation DEF TInv, Moved

LEMMA InitTInv == Init => TInv
<1> SUFFICES ASSUME Init PROVE TInv
    OBVIOUS
<1>1. TypeOK
  <2>1. 0 \in {0, 1} /\ 0 \in 0 .. MaxCalls
      BY SetupShape DEF Init
  <2>2. EmptyNode \in [KeysOf(Second) -> Args \cup {Absent}]
      BY DEF EmptyNode
  <2>3. EmptyMemo \in [KeysOf(First) -> NodeIds \cup {NoNode}]
      BY DEF EmptyMemo
  <2> QED BY <2>1, <2>2, <2>3 DEF Init, TypeOK
<1>2. Staged
    BY DEF Init, Staged, Stage
<1>3. Counted
  <2>1. Uncounted = {}
      BY DEF Init, Uncounted
  <2> QED BY <2>1, FS_EmptySet DEF Init, Counted
<1>4. \A i \in {0, 1} : \A k \in KeysOf(First) : memos[i][k] = NoNode
    BY DEF Init, EmptyMemo
<1>5. \A n \in NodeIds, k \in KeysOf(First) : ~ Refers(n, k)
    BY <1>4 DEF Init, Refers, NodeIds, NoNode
<1>6. OneKey /\ Filed
    BY <1>4, <1>5 DEF OneKey, Filed
<1>7. Own
    BY DEF Init, Own, OwnValue
<1>8. Rotation
  <2>1. ASSUME NEW i \in {0, 1} PROVE Leaves(i) = {}
      BY <1>4 DEF Leaves, Keys
  <2>2. headIdx = 0 /\ 1 - headIdx = 1 /\ size = 0
      BY DEF Init
  <2>3. Leaves(headIdx) = {} /\ Leaves(1 - headIdx) = {}
      BY <2>1, <2>2
  <2>4. Within
    <3>1. MaxSize \in Nat
        BY SetupShape DEF Init
    <3>2. Cardinality(Leaves(headIdx)) = 0
        BY <2>3, FS_EmptySet
    <3> QED BY <2>2, <3>1, <3>2 DEF Within
  <2>5. \A q \in Procs : pc[q] = "idle" /\ phase[q] = "head"
      BY DEF Init
  <2> QED BY <2>3, <2>4, <2>5 DEF Rotation
<1> QED BY <1>1, <1>2, <1>3, <1>6, <1>7, <1>8 DEF TInv

-----------------------------------------------------------------------------
(* One lemma per action.  Most touch the registers of a goroutine only.    *)
LEMMA CallKeeps ==
    ASSUME TInv, NEW p \in Procs, Call(p)
    PROVE  TInv'
<1>1. PICK a \in Args : arg' = [arg EXCEPT ![p] = a]
    BY DEF Call
<1>2. /\ MayRun(p) /\ pc[p] = "idle" /\ pc' = [pc EXCEPT ![p] = "head"]
      /\ phase' = [phase EXCEPT ![p] = "head"] /\ calls' = calls + 1 /\ calls < MaxCalls
      /\ UNCHANGED <<setup, memos, node, headIdx, size, idx, at, val>>
    BY DEF Call, Goto
<1>3. Moved(p)
  <2>1. calls' \in 0 .. MaxCalls' /\ size' \in 0 .. MaxCalls'
      BY <1>2, SetupShape DEF TInv, Staged, TypeOK, MaxCalls
  <2>2. arg' \in [Procs -> Args \cup {NoArg}]
      BY <1>1 DEF TInv, TypeOK
  <2>3. TypeOK'
      BY <1>2, <2>1, <2>2 DEF TInv, TypeOK
  <2> QED BY <1>1, <1>2, <2>3 DEF Moved, TInv, TypeOK
<1>4. pc'[p] = "head" /\ phase'[p] = "head" /\ arg'[p] = a /\ at'[p] = at[p]
    BY <1>1, <1>2 DEF TInv, TypeOK
<1>5. Stage(p)'
    BY <1>2, <1>4 DEF TInv, Staged, Stage
<1>6. OwnValue(p)'
    BY <1>4 DEF OwnValue
<1>7. Counted'
  <2>1. Uncounted' = Uncounted \cup {p} /\ p \notin Uncounted
      BY <1>2, <1>4, <1>3 DEF Uncounted, Moved
  <2>2. Cardinality(Uncounted') = Cardinality(Uncounted) + 1
      BY <2>1, UncountedFinite, FS_AddElement
  <2>3. size \in Nat /\ calls \in Nat
      BY DEF TInv, TypeOK
  <2>4. Counted' <=> size' + Cardinality(Uncounted') <= calls'
      BY DEF Counted
  <2> QED BY <1>2, <2>2, <2>3, <2>4, UncountedFinite DEF TInv, Counted
<1>8. \A n \in NodeIds, k \in KeysOf(First) : Refers(n, k)' => Refers(n, k)
  <2>1. at[p] = NoNode
      BY <1>2 DEF TInv, Staged, Stage
  <2> QED BY <1>2, <1>3, <2>1 DEF Refers, Moved, NodeIds, NoNode
<1>9. OneKey' /\ Filed'
    BY <1>2, <1>8, MovedFiles
<1>10. OneGoroutine => Leaves(1 - headIdx)' = {} /\ (phase'[p] # "store" => Within')
  <2>1. phase[p] # "store"
      BY <1>2 DEF TInv, Staged, Stage
  <2> QED BY <1>2, <2>1, Running, SameTable
<1> QED BY <1>2, <1>3, <1>4, <1>5, <1>6, <1>7, <1>9, <1>10, Kept

(* A node is referred to as before when nobody takes or leaves one. *)
LEMMA SameFiles ==
    ASSUME TInv, memos' = memos, node' = node, at' = at, arg' = arg
    PROVE  OneKey' /\ Filed'
<1>1. \A n \in NodeIds, k \in KeysOf(First) : Refers(n, k)' => Refers(n, k)
    BY DEF Refers
<1> QED BY <1>1, MovedFiles

LEMMA DroppedFiles ==
    ASSUME TInv, NEW p \in Procs, memos' = memos, node' = node, arg' = arg,
           at' = [at EXCEPT ![p] = NoNode]
    PROVE  OneKey' /\ Filed'
<1>1. \A n \in NodeIds, k \in KeysOf(First) : Refers(n, k)' => Refers(n, k)
    BY DEF Refers, TInv, TypeOK, NodeIds, NoNode
<1> QED BY <1>1, MovedFiles

(* A step within one phase that leaves the tables alone. *)
LEMMA KeptStage ==
    ASSUME TInv, NEW p \in Procs, Moved(p), MayRun(p),
           Stage(p)', OwnValue(p)', Counted', OneKey', Filed',
           memos' = memos, node' = node, headIdx' = headIdx, setup' = setup,
           size' = size, phase' = phase,
           OneGoroutine /\ phase[p] = "store" => StoreStage(p)'
    PROVE  TInv'
<1>1. OneGoroutine => Leaves(1 - headIdx)' = {} /\ (phase'[p] # "store" => Within')
    BY Running, SameTable
<1> QED BY <1>1, Kept

LEMMA ReadHeadKeeps ==
    ASSUME TInv, NEW p \in Procs, ReadHead(p)
    PROVE  TInv'
<1>1. /\ MayRun(p)
      /\ \/ pc[p] = "head" /\ pc' = [pc EXCEPT ![p] = "traverse"]
         \/ pc[p] = "rotate" /\ pc' = [pc EXCEPT ![p] = "clear"]
         \/ pc[p] = "reread" /\ pc' = [pc EXCEPT ![p] = "flip"]
      /\ idx' = [idx EXCEPT ![p] = headIdx]
      /\ UNCHANGED <<setup, memos, node, headIdx, size, arg, phase, at, val, calls>>
  <2>1. pc[p] \in DOMAIN AfterReading /\ pc' = [pc EXCEPT ![p] = AfterReading[pc[p]]]
      BY DEF ReadHead, Goto
  <2>2. DOMAIN AfterReading = {"head", "rotate", "reread"}
      BY DEF AfterReading
  <2>3. /\ AfterReading["head"] = "traverse" /\ AfterReading["rotate"] = "clear"
        /\ AfterReading["reread"] = "flip"
      BY DEF AfterReading
  <2>4. CASE pc[p] = "head"
      BY <2>1, <2>3, <2>4 DEF ReadHead, Goto
  <2>5. CASE pc[p] = "rotate"
      BY <2>1, <2>3, <2>5 DEF ReadHead, Goto
  <2>6. CASE pc[p] = "reread"
      BY <2>1, <2>3, <2>6 DEF ReadHead, Goto
  <2> QED BY <2>1, <2>2, <2>4, <2>5, <2>6
<1>2. Moved(p)
  <2>1. TypeOK'
      BY <1>1 DEF TInv, TypeOK, MaxCalls
  <2> QED BY <1>1, <2>1 DEF Moved, TInv, TypeOK
<1>3. idx'[p] = headIdx /\ pc'[p] \in {"traverse", "clear", "flip"}
    BY <1>1 DEF TInv, TypeOK
<1>4. Stage(p)'
    BY <1>1, <1>3 DEF TInv, Staged, Stage, TypeOK
<1>5. OwnValue(p)'
    BY <1>1, <1>3 DEF TInv, Own, OwnValue
<1>6. Counted'
    BY <1>1, <1>2, MovedCounted DEF TInv, TypeOK
<1>7. OneKey' /\ Filed'
    BY <1>1, SameFiles
<1>8. OneGoroutine /\ phase[p] = "store" => StoreStage(p)'
  <2> SUFFICES ASSUME OneGoroutine, phase[p] = "store" PROVE StoreStage(p)'
      OBVIOUS
  <2>1. /\ Leaves(1 - headIdx)' = Leaves(1 - headIdx) /\ Leaves(headIdx)' = Leaves(headIdx)
        /\ MaxSize' = MaxSize /\ (Within' <=> Within)
      BY <1>1, SameTable
  <2>2. StoreStage(p)
      BY <1>1, Running
  <2>3. CASE pc[p] = "head" /\ pc'[p] = "traverse"
      BY <1>1, <1>3, <2>1, <2>2, <2>3 DEF StoreStage
  <2>4. CASE pc[p] = "rotate" /\ pc'[p] = "clear"
      BY <1>1, <1>3, <2>1, <2>2, <2>4 DEF StoreStage
  <2>5. CASE pc[p] = "reread" /\ pc'[p] = "flip"
      BY <1>1, <1>3, <2>1, <2>2, <2>5 DEF StoreStage
  <2> QED BY <1>1, <2>3, <2>4, <2>5 DEF TInv, TypeOK
<1> QED BY <1>1, <1>2, <1>4, <1>5, <1>6, <1>7, <1>8, KeptStage

LEMMA TraverseKeeps ==
    ASSUME TInv, NEW p \in Procs, Traverse(p)
    PROVE  TInv'
<1> DEFINE n == memos[idx[p]][Key(p)[1]]
           to == IF n = NoNode THEN "make" ELSE "leaf"
<1>1. /\ MayRun(p) /\ pc[p] = "traverse" /\ pc' = [pc EXCEPT ![p] = to]
      /\ at' = [at EXCEPT ![p] = n]
      /\ UNCHANGED <<setup, memos, node, headIdx, size, arg, phase, idx, val, calls>>
    BY DEF Traverse, Goto
<1>2. Key(p)[1] = TableKey(arg[p][1]) /\ Key(p)[1] \in KeysOf(First) /\ idx[p] \in {0, 1}
    BY <1>1, ArgShape DEF Key, TInv, TypeOK, Staged, Stage
<1>3. n \in NodeIds \cup {NoNode}
    BY <1>2 DEF TInv, TypeOK
<1>4. n # NoNode => Refers(n, Key(p)[1])
    BY <1>2 DEF Refers
<1>5. idx[p] = headIdx => n = memos[headIdx][Key(p)[1]]
    OBVIOUS
<1>6. Key(p)' = Key(p)
    BY <1>1 DEF Key
<1> HIDE DEF n
<1>7. Moved(p)
  <2>1. TypeOK'
      BY <1>1, <1>3 DEF TInv, TypeOK, MaxCalls
  <2> QED BY <1>1, <2>1 DEF Moved, TInv, TypeOK
<1>8. pc'[p] = to /\ at'[p] = n
    BY <1>1 DEF TInv, TypeOK
<1>9. Stage(p)'
    BY <1>1, <1>8 DEF TInv, Staged, Stage
<1>10. OwnValue(p)'
    BY <1>1, <1>8 DEF TInv, Own, OwnValue
<1>11. Counted'
    BY <1>1, <1>7, MovedCounted DEF TInv, TypeOK
<1>12. OneKey' /\ Filed'
  <2>1. ASSUME NEW m \in NodeIds, NEW k \in KeysOf(First), Refers(m, k)'
        PROVE  Refers(m, k)
    <3>1. CASE m = n /\ k = Key(p)[1]
        BY <1>4, <3>1 DEF NodeIds, NoNode
    <3>2. CASE \E i \in {0, 1} : memos'[i][k] = m
        BY <1>1, <3>2 DEF Refers
    <3>3. CASE \E q \in Procs \ {p} : at'[q] = m /\ TableKey(arg'[q][1]) = k
        BY <1>1, <1>7, <3>3 DEF Refers, Moved
    <3>4. CASE at'[p] = m /\ TableKey(arg'[p][1]) = k
        BY <1>1, <1>2, <1>8, <3>1, <3>4
    <3> QED BY <2>1, <3>2, <3>3, <3>4 DEF Refers
  <2> QED BY <1>1, <2>1, MovedFiles
<1>13. OneGoroutine /\ phase[p] = "store" => StoreStage(p)'
  <2> SUFFICES ASSUME OneGoroutine, phase[p] = "store" PROVE StoreStage(p)'
      OBVIOUS
  <2>1. /\ Leaves(1 - headIdx)' = Leaves(1 - headIdx) /\ Leaves(headIdx)' = Leaves(headIdx)
        /\ MaxSize' = MaxSize /\ (Within' <=> Within)
      BY <1>1, SameTable
  <2>2. StoreStage(p)
      BY <1>1, Running
  <2> QED BY <1>1, <1>5, <1>6, <1>8, <2>1, <2>2 DEF StoreStage
<1> QED BY <1>1, <1>7, <1>9, <1>10, <1>11, <1>12, <1>13, KeptStage

LEMMA LoadHitKeeps ==
    ASSUME TInv, NEW p \in Procs, LoadHit(p)
    PROVE  TInv'
<1> DEFINE n == at[p]
           j == Key(p)[2]
           v == node[n][j]
<1>1. /\ MayRun(p) /\ pc[p] = "leaf" /\ pc' = [pc EXCEPT ![p] = "answer"]
      /\ phase[p] # "store" /\ v # Absent
      /\ val' = [val EXCEPT ![p] = v] /\ at' = [at EXCEPT ![p] = NoNode]
      /\ UNCHANGED <<setup, memos, node, headIdx, size, arg, phase, idx, calls>>
    BY DEF LoadHit, Goto
<1>2. /\ arg[p] \in Args /\ n \in NodeIds
      /\ j = TableKey(arg[p][2]) /\ j \in KeysOf(Second) /\ TableKey(arg[p][1]) \in KeysOf(First)
    BY <1>1, ArgShape DEF Key, TInv, TypeOK, Staged, Stage
<1>3. v \in Args
    BY <1>1, <1>2 DEF TInv, TypeOK
<1>4. TableKey(v[1]) = TableKey(arg[p][1]) /\ TableKey(v[2]) = TableKey(arg[p][2])
  <2>1. Refers(n, TableKey(arg[p][1]))
      BY DEF Refers
  <2> QED BY <1>1, <1>2, <2>1 DEF TInv, Filed
<1>5. TellsApart => v = arg[p]
    BY <1>2, <1>3, <1>4 DEF TellsApart, Args
<1> HIDE DEF v
<1>6. Moved(p)
  <2>1. TypeOK'
      BY <1>1, <1>3 DEF TInv, TypeOK, MaxCalls
  <2> QED BY <1>1, <2>1 DEF Moved, TInv, TypeOK
<1>7. pc'[p] = "answer" /\ val'[p] = v /\ at'[p] = NoNode
    BY <1>1 DEF TInv, TypeOK
<1>8. Stage(p)'
    BY <1>1, <1>7 DEF TInv, Staged, Stage
<1>9. OwnValue(p)'
    BY <1>1, <1>5, <1>7 DEF OwnValue
<1>10. Counted'
    BY <1>1, <1>6, MovedCounted DEF TInv, TypeOK
<1>11. OneKey' /\ Filed'
    BY <1>1, DroppedFiles
<1>12. OneGoroutine => Leaves(1 - headIdx)' = {} /\ Within'
    BY <1>1, Running, SameTable
<1> QED BY <1>1, <1>6, <1>8, <1>9, <1>10, <1>11, <1>12, Kept

LEMMA LoadMissKeeps ==
    ASSUME TInv, NEW p \in Procs, LoadMissHead(p) \/ LoadMissOther(p)
    PROVE  TInv'
<1>1. /\ MayRun(p) /\ pc[p] = "leaf"
      /\ \/ /\ phase[p] = "head" /\ phase' = [phase EXCEPT ![p] = "other"]
            /\ pc' = [pc EXCEPT ![p] = "traverse"]
            /\ idx' = [idx EXCEPT ![p] = 1 - @]
         \/ /\ phase[p] = "other" /\ phase' = phase
            /\ pc' = [pc EXCEPT ![p] = "compute"]
            /\ idx' = idx
      /\ at' = [at EXCEPT ![p] = NoNode]
      /\ UNCHANGED <<setup, memos, node, headIdx, size, arg, val, calls>>
    BY DEF LoadMissHead, LoadMissOther, Goto
<1>2. Moved(p)
  <2>1. 1 - idx[p] \in {0, 1}
      BY DEF TInv, TypeOK
  <2>2. TypeOK'
      BY <1>1, <2>1 DEF TInv, TypeOK, MaxCalls
  <2> QED BY <1>1, <2>2 DEF Moved, TInv, TypeOK
<1>3. pc'[p] \in {"traverse", "compute"} /\ phase'[p] = "other" /\ at'[p] = NoNode
    BY <1>1 DEF TInv, TypeOK
<1>4. Stage(p)'
    BY <1>1, <1>3 DEF TInv, Staged, Stage
<1>5. OwnValue(p)'
    BY <1>1, <1>3 DEF OwnValue
<1>6. Counted'
    BY <1>1, <1>2, MovedCounted DEF TInv, TypeOK
<1>7. OneKey' /\ Filed'
    BY <1>1, DroppedFiles
<1>8. OneGoroutine => Leaves(1 - headIdx)' = {} /\ Within'
    BY <1>1, Running, SameTable
<1> QED BY <1>1, <1>2, <1>3, <1>4, <1>5, <1>6, <1>7, <1>8, Kept

LEMMA ComputeKeeps ==
    ASSUME TInv, NEW p \in Procs, Compute(p)
    PROVE  TInv'
<1>1. /\ MayRun(p) /\ pc[p] = "compute" /\ pc' = [pc EXCEPT ![p] = "cas"]
      /\ val' = [val EXCEPT ![p] = arg[p]] /\ phase' = [phase EXCEPT ![p] = "store"]
      /\ UNCHANGED <<setup, memos, node, headIdx, size, arg, idx, at, calls>>
    BY DEF Compute, Goto, PureFn
<1>2. arg[p] \in Args
    BY <1>1 DEF TInv, Staged, Stage
<1>3. Moved(p)
  <2>1. TypeOK'
      BY <1>1, <1>2 DEF TInv, TypeOK, MaxCalls
  <2> QED BY <1>1, <2>1 DEF Moved, TInv, TypeOK
<1>4. pc'[p] = "cas" /\ phase'[p] = "store" /\ val'[p] = arg[p]
    BY <1>1 DEF TInv, TypeOK
<1>5. Stage(p)'
    BY <1>1, <1>4 DEF TInv, Staged, Stage
<1>6. OwnValue(p)'
    BY <1>1, <1>4 DEF OwnValue
<1>7. Counted'
    BY <1>1, <1>3, MovedCounted DEF TInv, TypeOK
<1>8. OneKey' /\ Filed'
    BY <1>1, SameFiles
<1>9. OneGoroutine => Leaves(1 - headIdx)' = {} /\ StoreStage(p)'
  <2>1. phase[p] # "store"
      BY <1>1 DEF TInv, Staged, Stage
  <2>2. OneGoroutine => Leaves(1 - headIdx)' = {} /\ Within'
      BY <1>1, <2>1, Running, SameTable
  <2> QED BY <1>4, <2>2 DEF StoreStage
<1> QED BY <1>1, <1>3, <1>4, <1>5, <1>6, <1>7, <1>8, <1>9, Kept

(* With a new, empty node in place of another or of none, no table holds   *)
(* more than before.                                                       *)
LEMMA FewerLeaves ==
    ASSUME TInv, headIdx' = headIdx, setup' = setup, size' = size,
           \A i \in {0, 1} : Leaves(i)' \subseteq Leaves(i)
    PROVE  /\ Leaves(1 - headIdx) = {} => Leaves(1 - headIdx)' = {}
           /\ Within => Within'
<1>1. headIdx \in {0, 1} /\ 1 - headIdx \in {0, 1}
    BY DEF TInv, TypeOK
<1>2. Leaves(1 - headIdx)' \subseteq Leaves(1 - headIdx)
    BY <1>1
<1>3. Leaves(headIdx)' \in SUBSET Leaves(headIdx)
    BY <1>1
<1>4. /\ Cardinality(Leaves(headIdx)') <= Cardinality(Leaves(headIdx))
      /\ Cardinality(Leaves(headIdx)') \in Nat
    BY <1>3, LeavesFinite, FS_Subset, FS_CardinalityType
<1>5. Within => Within'
  <2>1. MaxSize' = MaxSize /\ size \in Nat
      BY DEF MaxSize, TInv, TypeOK
  <2>2. Within' <=> Cardinality(Leaves(headIdx)') <= size' /\ size' <= MaxSize'
      BY DEF Within
  <2> QED BY <1>4, <2>1, <2>2, LeavesFinite DEF Within
<1> QED BY <1>2, <1>5

LEMMA MakeNodeKeeps ==
    ASSUME TInv, NEW p \in Procs, MakeNode(p)
    PROVE  TInv'
<1> DEFINE h == Key(p)[1]
<1>1. PICK n : n = CHOOSE m \in FreeNodes : TRUE
    OBVIOUS
<1>2. /\ MayRun(p) /\ pc[p] = "make" /\ pc' = [pc EXCEPT ![p] = "leaf"]
      /\ memos' = [memos EXCEPT ![idx[p]][h] = n]
      /\ node' = [node EXCEPT ![n] = EmptyNode] /\ at' = [at EXCEPT ![p] = n]
      /\ UNCHANGED <<setup, headIdx, size, arg, phase, idx, val, calls>>
    BY <1>1 DEF MakeNode, Goto
<1>3. n \in FreeNodes
  <2>1. at[p] = NoNode
      BY <1>2 DEF TInv, Staged, Stage
  <2>2. FreeNodes # {}
      BY <2>1, SomeFree DEF TInv
  <2> QED BY <1>1, <2>2
<1>4. /\ n \in NodeIds /\ n # NoNode
      /\ \A i \in {0, 1}, k \in KeysOf(First) : memos[i][k] # n
      /\ \A q \in Procs : at[q] # n
    BY <1>3 DEF FreeNodes, NodeIds, NoNode
<1>5. h = TableKey(arg[p][1]) /\ h \in KeysOf(First) /\ idx[p] \in {0, 1}
    BY <1>2, ArgShape DEF Key, TInv, TypeOK, Staged, Stage
<1>6. Key(p)' = Key(p)
    BY <1>2 DEF Key
<1> HIDE DEF h
<1>7. \A i \in {0, 1}, k \in KeysOf(First) :
          memos'[i][k] = IF i = idx[p] /\ k = h THEN n ELSE memos[i][k]
    BY <1>2, <1>5 DEF TInv, TypeOK
<1>8. \A m \in NodeIds : node'[m] = IF m = n THEN EmptyNode ELSE node[m]
    BY <1>2, <1>4 DEF TInv, TypeOK
<1>9. pc'[p] = "leaf" /\ at'[p] = n
    BY <1>2 DEF TInv, TypeOK
<1>10. Moved(p)
  <2>1. EmptyNode \in [KeysOf(Second) -> Args \cup {Absent}]
      BY DEF EmptyNode
  <2>2. node' \in [NodeIds -> [KeysOf(Second) -> Args \cup {Absent}]]
      BY <1>2, <2>1 DEF TInv, TypeOK
  <2>3. memos' \in [{0, 1} -> [KeysOf(First) -> NodeIds \cup {NoNode}]]
      BY <1>2, <1>4, <1>5 DEF TInv, TypeOK
  <2>4. TypeOK'
      BY <1>2, <1>4, <2>2, <2>3 DEF TInv, TypeOK, MaxCalls
  <2> QED BY <1>2, <2>4 DEF Moved, TInv, TypeOK
<1>11. Stage(p)'
    BY <1>2, <1>4, <1>9 DEF TInv, Staged, Stage
<1>12. OwnValue(p)'
    BY <1>2, <1>9 DEF TInv, Own, OwnValue
<1>13. Counted'
    BY <1>2, <1>10, MovedCounted DEF TInv, TypeOK
<1>14. ASSUME NEW m \in NodeIds, NEW k \in KeysOf(First), Refers(m, k)'
       PROVE  IF m = n THEN k = h ELSE Refers(m, k)
  <2>1. CASE \E i \in {0, 1} : memos'[i][k] = m
      BY <1>4, <1>7, <2>1 DEF Refers
  <2>2. CASE \E q \in Procs \ {p} : at'[q] = m /\ TableKey(arg'[q][1]) = k
      BY <1>2, <1>4, <1>10, <2>2 DEF Refers, Moved
  <2>3. CASE at'[p] = m /\ TableKey(arg'[p][1]) = k
      BY <1>2, <1>5, <1>9, <2>3
  <2> QED BY <1>14, <2>1, <2>2, <2>3 DEF Refers
<1>15. OneKey'
  <2>1. \A m \in NodeIds : \A k, l \in KeysOf(First) :
            Refers(m, k)' /\ Refers(m, l)' => k = l
      BY <1>14 DEF TInv, OneKey
  <2>2. \A k \in KeysOf(First) : memos'[0][k] # NoNode => memos'[0][k] # memos'[1][k]
      BY <1>4, <1>7 DEF TInv, OneKey
  <2> QED BY <2>1, <2>2 DEF OneKey
<1>16. \A j \in KeysOf(Second) : node'[n][j] = Absent
    BY <1>4, <1>8 DEF EmptyNode
<1>17. Filed'
  <2>1. ASSUME NEW m \in NodeIds, NEW k \in KeysOf(First), NEW j \in KeysOf(Second),
               Refers(m, k)', node'[m][j] # Absent
        PROVE  TableKey(node'[m][j][1]) = k /\ TableKey(node'[m][j][2]) = j
    <3>1. m # n /\ node'[m] = node[m]
        BY <1>8, <1>16, <2>1
    <3>2. Refers(m, k)
        BY <1>14, <2>1, <3>1
    <3> QED BY <2>1, <3>1, <3>2 DEF TInv, Filed
  <2> QED BY <2>1 DEF Filed
<1>18. \A i \in {0, 1} : Leaves(i)' \subseteq Leaves(i)
  <2>1. ASSUME NEW i \in {0, 1}, NEW k \in Keys,
               memos'[i][k[1]] # NoNode, node'[memos'[i][k[1]]][k[2]] # Absent
        PROVE  memos[i][k[1]] # NoNode /\ node[memos[i][k[1]]][k[2]] # Absent
    <3>1. k[1] \in KeysOf(First) /\ k[2] \in KeysOf(Second)
        BY DEF Keys
    <3>2. memos'[i][k[1]] # n
        BY <1>16, <2>1, <3>1
    <3>3. memos'[i][k[1]] = memos[i][k[1]]
        BY <1>7, <3>1, <3>2
    <3>4. memos[i][k[1]] \in NodeIds
        BY <2>1, <3>1, <3>3 DEF TInv, TypeOK
    <3> QED BY <1>8, <2>1, <3>2, <3>3, <3>4
  <2> QED BY <2>1 DEF Leaves
<1>19. OneGoroutine => /\ Leaves(1 - headIdx)' = {}
                       /\ phase'[p] # "store" => Within'
    BY <1>2, <1>18, FewerLeaves, Running
<1>20. OneGoroutine /\ phase[p] = "store" => StoreStage(p)'
  <2> SUFFICES ASSUME OneGoroutine, phase[p] = "store" PROVE StoreStage(p)'
      OBVIOUS
  <2>1. Within /\ size < MaxSize /\ idx[p] = headIdx
      BY <1>2, Running DEF StoreStage
  <2>2. Within' /\ MaxSize' = MaxSize
      BY <1>2, <1>18, <2>1, FewerLeaves DEF MaxSize
  <2>3. at'[p] = memos'[headIdx][h]
      BY <1>5, <1>7, <1>9, <2>1
  <2>4. at'[p] = memos'[headIdx'][Key(p)'[1]]
      BY <1>2, <1>6, <2>3 DEF h
  <2> QED BY <1>2, <1>9, <2>1, <2>2, <2>4 DEF StoreStage
<1> QED BY <1>2, <1>10, <1>11, <1>12, <1>13, <1>15, <1>17, <1>19, <1>20, Kept

LEMMA CompareAndSwapKeeps ==
    ASSUME TInv, NEW p \in Procs, CompareAndSwap(p)
    PROVE  TInv'
<1>1. /\ MayRun(p) /\ pc[p] = "cas" /\ phase[p] = "store"
      /\ pc' = [pc EXCEPT ![p] = IF size = MaxSize THEN "rotate" ELSE "head"]
      /\ size' = IF size = MaxSize THEN 0 ELSE size
      /\ UNCHANGED <<setup, memos, node, headIdx, arg, phase, idx, at, val, calls>>
    BY DEF CompareAndSwap, Goto, TInv, Staged, Stage
<1>2. size \in Nat /\ size' \in Nat /\ size' <= size /\ MaxSize \in Nat
    BY <1>1, SetupShape DEF TInv, Staged, TypeOK
<1>3. Moved(p)
  <2>1. size' \in 0 .. MaxCalls'
      BY <1>1, <1>2, SetupShape DEF TInv, Staged, TypeOK, MaxCalls
  <2>2. pc' \in [Procs -> {"idle", "head", "rotate", "reread", "traverse", "make", "leaf",
                            "compute", "cas", "clear", "flip", "add", "answer"}]
      BY <1>1 DEF TInv, TypeOK
  <2>3. TypeOK'
      BY <1>1, <2>1, <2>2 DEF TInv, TypeOK, MaxCalls
  <2> QED BY <1>1, <2>3 DEF Moved, TInv, TypeOK
<1>4. pc'[p] = IF size = MaxSize THEN "rotate" ELSE "head"
    BY <1>1 DEF TInv, TypeOK
<1>5. Stage(p)'
    BY <1>1, <1>4 DEF TInv, Staged, Stage
<1>6. OwnValue(p)'
    BY <1>1 DEF TInv, Own, OwnValue
<1>7. Counted'
    BY <1>1, <1>2, <1>3, MovedCounted
<1>8. OneKey' /\ Filed'
    BY <1>1, SameFiles
<1>9. OneGoroutine => Leaves(1 - headIdx)' = {} /\ StoreStage(p)'
  <2> SUFFICES ASSUME OneGoroutine PROVE Leaves(1 - headIdx)' = {} /\ StoreStage(p)'
      OBVIOUS
  <2>1. /\ Leaves(1 - headIdx)' = {} /\ Leaves(headIdx)' = Leaves(headIdx)
        /\ MaxSize' = MaxSize
      BY <1>1, Running, SameTable
  <2>2. Within
      BY <1>1, Running DEF StoreStage
  <2>3. CASE size = MaxSize
      BY <1>1, <1>4, <2>1, <2>3 DEF StoreStage
  <2>4. CASE size # MaxSize
    <3>1. Within' /\ size' < MaxSize'
        BY <1>1, <1>2, <2>1, <2>2, <2>4 DEF Within
    <3> QED BY <1>1, <1>4, <2>1, <2>4, <3>1 DEF StoreStage
  <2> QED BY <2>3, <2>4
<1> QED BY <1>1, <1>3, <1>5, <1>6, <1>7, <1>8, <1>9, Kept

LEMMA ClearKeeps ==
    ASSUME TInv, NEW p \in Procs, Clear(p)
    PROVE  TInv'
<1>1. /\ MayRun(p) /\ pc[p] = "clear" /\ phase[p] = "store"
      /\ pc' = [pc EXCEPT ![p] = "reread"]
      /\ memos' = [memos EXCEPT ![idx[p]] = EmptyMemo]
      /\ UNCHANGED <<setup, node, headIdx, size, arg, phase, idx, at, val, calls>>
    BY DEF Clear, Goto, TInv, Staged, Stage
<1>2. \A i \in {0, 1}, k \in KeysOf(First) :
          memos'[i][k] = IF i = idx[p] THEN NoNode ELSE memos[i][k]
    BY <1>1 DEF TInv, TypeOK, EmptyMemo
<1>3. Moved(p)
  <2>1. EmptyMemo \in [KeysOf(First) -> NodeIds \cup {NoNode}]
      BY DEF EmptyMemo
  <2>2. TypeOK'
      BY <1>1, <2>1 DEF TInv, TypeOK, MaxCalls
  <2> QED BY <1>1, <2>2 DEF Moved, TInv, TypeOK
<1>4. pc'[p] = "reread"
    BY <1>1 DEF TInv, TypeOK
<1>5. Stage(p)'
    BY <1>1, <1>4 DEF TInv, Staged, Stage
<1>6. OwnValue(p)'
    BY <1>1 DEF TInv, Own, OwnValue
<1>7. Counted'
    BY <1>1, <1>3, MovedCounted DEF TInv, TypeOK
<1>8. OneKey' /\ Filed'
  <2>1. \A n \in NodeIds, k \in KeysOf(First) : Refers(n, k)' => Refers(n, k)
      BY <1>1, <1>2 DEF Refers, NodeIds, NoNode
  <2> QED BY <1>1, <1>2, <2>1, MovedFiles
<1>9. OneGoroutine => Leaves(1 - headIdx)' = {} /\ StoreStage(p)'
  <2> SUFFICES ASSUME OneGoroutine PROVE Leaves(1 - headIdx)' = {} /\ StoreStage(p)'
      OBVIOUS
  <2>1. Leaves(1 - headIdx) = {} /\ size = 0 /\ idx[p] = headIdx
      BY <1>1, Running DEF StoreStage
  <2>2. headIdx \in {0, 1} /\ 1 - headIdx \in {0, 1} /\ 1 - headIdx # headIdx
      BY DEF TInv, TypeOK
  <2>3. Leaves(headIdx)' = {}
      BY <1>1, <1>2, <2>1, <2>2 DEF Leaves, Keys
  <2>4. Leaves(1 - headIdx)' = Leaves(1 - headIdx)
      BY <1>1, <1>2, <2>1, <2>2 DEF Leaves, Keys
  <2> QED BY <1>1, <1>4, <2>1, <2>3, <2>4 DEF StoreStage
<1> QED BY <1>1, <1>3, <1>5, <1>6, <1>7, <1>8, <1>9, Kept

LEMMA FlipKeeps ==
    ASSUME TInv, NEW p \in Procs, Flip(p)
    PROVE  TInv'
<1>1. /\ MayRun(p) /\ pc[p] = "flip" /\ phase[p] = "store"
      /\ pc' = [pc EXCEPT ![p] = "head"]
      /\ headIdx' = 1 - idx[p]
      /\ UNCHANGED <<setup, memos, node, size, arg, phase, idx, at, val, calls>>
    BY DEF Flip, Goto, TInv, Staged, Stage
<1>2. Moved(p)
  <2>1. headIdx' \in {0, 1}
      BY <1>1 DEF TInv, TypeOK
  <2>2. TypeOK'
      BY <1>1, <2>1 DEF TInv, TypeOK, MaxCalls
  <2> QED BY <1>1, <2>2 DEF Moved, TInv, TypeOK
<1>3. pc'[p] = "head"
    BY <1>1 DEF TInv, TypeOK
<1>4. Stage(p)'
    BY <1>1, <1>3 DEF TInv, Staged, Stage
<1>5. OwnValue(p)'
    BY <1>1 DEF TInv, Own, OwnValue
<1>6. Counted'
    BY <1>1, <1>2, MovedCounted DEF TInv, TypeOK
<1>7. OneKey' /\ Filed'
    BY <1>1, SameFiles
<1>8. OneGoroutine => Leaves(1 - headIdx)' = {} /\ StoreStage(p)'
  <2> SUFFICES ASSUME OneGoroutine PROVE Leaves(1 - headIdx)' = {} /\ StoreStage(p)'
      OBVIOUS
  <2>1. /\ Leaves(1 - headIdx) = {} /\ Leaves(headIdx) = {}
        /\ size = 0 /\ idx[p] = headIdx
      BY <1>1, Running DEF StoreStage
  <2>2. headIdx' = 1 - headIdx /\ 1 - headIdx' = headIdx
      BY <1>1, <2>1 DEF TInv, TypeOK
  <2>3. Leaves(1 - headIdx)' = {} /\ Leaves(headIdx)' = {}
      BY <1>1, <2>1, <2>2 DEF Leaves
  <2>4. size' = 0 /\ MaxSize' = MaxSize /\ MaxSize \in Nat \ {0}
      BY <1>1, <2>1, SetupShape DEF MaxSize, TInv, Staged
  <2>5. Within' /\ size' < MaxSize'
      BY <2>3, <2>4, FS_EmptySet DEF Within
  <2> QED BY <1>1, <1>3, <2>3, <2>5 DEF StoreStage
<1> QED BY <1>1, <1>2, <1>4, <1>5, <1>6, <1>7, <1>8, Kept

LEMMA StoreLeafKeeps ==
    ASSUME TInv, NEW p \in Procs, StoreLeaf(p)
    PROVE  TInv'
<1> DEFINE n == at[p]
           h == TableKey(arg[p][1])
           j == TableKey(arg[p][2])
<1>1. /\ MayRun(p) /\ pc[p] = "leaf" /\ phase[p] = "store"
      /\ pc' = [pc EXCEPT ![p] = "add"] /\ at' = [at EXCEPT ![p] = NoNode]
      /\ node' = [node EXCEPT ![n][j] = arg[p]]
      /\ UNCHANGED <<setup, memos, headIdx, size, arg, phase, idx, val, calls>>
    BY DEF StoreLeaf, Goto, TInv, Own, OwnValue, Key
<1>2. /\ arg[p] \in Args /\ n \in NodeIds /\ h \in KeysOf(First) /\ j \in KeysOf(Second)
      /\ Refers(n, h)
    BY <1>1, ArgShape DEF TInv, TypeOK, Staged, Stage, Refers
<1> HIDE DEF n, h, j
<1>3. \A m \in NodeIds, i \in KeysOf(Second) :
          node'[m][i] = IF m = n /\ i = j THEN arg[p] ELSE node[m][i]
    BY <1>1, <1>2 DEF TInv, TypeOK
<1>4. pc'[p] = "add" /\ at'[p] = NoNode
    BY <1>1 DEF TInv, TypeOK
<1>5. Moved(p)
  <2>1. node' \in [NodeIds -> [KeysOf(Second) -> Args \cup {Absent}]]
      BY <1>1, <1>2 DEF TInv, TypeOK
  <2>2. TypeOK'
      BY <1>1, <2>1 DEF TInv, TypeOK, MaxCalls
  <2> QED BY <1>1, <2>2 DEF Moved, TInv, TypeOK
<1>6. Stage(p)'
    BY <1>1, <1>4 DEF TInv, Staged, Stage
<1>7. OwnValue(p)'
    BY <1>1 DEF TInv, Own, OwnValue
<1>8. Counted'
    BY <1>1, <1>5, MovedCounted DEF TInv, TypeOK
<1>9. \A m \in NodeIds, k \in KeysOf(First) : Refers(m, k)' => Refers(m, k)
    BY <1>1 DEF Refers, TInv, TypeOK, NodeIds, NoNode
<1>10. OneKey'
    BY <1>1, <1>9 DEF TInv, OneKey
<1>11. Filed'
  <2>1. ASSUME NEW m \in NodeIds, NEW k \in KeysOf(First), NEW i \in KeysOf(Second),
               Refers(m, k)', node'[m][i] # Absent
        PROVE  TableKey(node'[m][i][1]) = k /\ TableKey(node'[m][i][2]) = i
    <3>1. Refers(m, k)
        BY <1>9, <2>1
    <3>2. CASE m = n /\ i = j
      <4>1. k = h
          BY <1>2, <3>1, <3>2 DEF TInv, OneKey
      <4> QED BY <1>3, <3>2, <4>1 DEF h, j
    <3>3. CASE ~ (m = n /\ i = j)
        BY <1>3, <2>1, <3>1, <3>3 DEF TInv, Filed
    <3> QED BY <3>2, <3>3
  <2> QED BY <2>1 DEF Filed
<1>12. OneGoroutine => Leaves(1 - headIdx)' = {} /\ StoreStage(p)'
  <2> SUFFICES ASSUME OneGoroutine PROVE Leaves(1 - headIdx)' = {} /\ StoreStage(p)'
      OBVIOUS
  <2>1. /\ Leaves(1 - headIdx) = {} /\ Within /\ size < MaxSize
        /\ n = memos[headIdx][h]
      BY <1>1, Running DEF StoreStage, Key, n, h
  <2>2. headIdx \in {0, 1} /\ 1 - headIdx \in {0, 1} /\ 1 - headIdx # headIdx
      BY DEF TInv, TypeOK
  <2>3. \A k \in KeysOf(First) : memos[1 - headIdx][k] # n
    <3>1. ASSUME NEW k \in KeysOf(First), memos[1 - headIdx][k] = n PROVE FALSE
      <4>1. Refers(n, k)
          BY <2>2, <3>1 DEF Refers
      <4>2. k = h
          BY <1>2, <4>1 DEF TInv, OneKey
      <4>3. n # NoNode
          BY <1>2 DEF NodeIds, NoNode
      <4> QED BY <2>1, <2>2, <3>1, <4>2, <4>3, <1>2 DEF TInv, OneKey
    <3> QED BY <3>1
  <2>4. ASSUME NEW i \in {0, 1}, NEW k \in Keys,
               memos[i][k[1]] # NoNode, node'[memos[i][k[1]]][k[2]] # Absent
        PROVE  \/ node[memos[i][k[1]]][k[2]] # Absent
               \/ i = headIdx /\ k = <<h, j>>
    <3>1. k[1] \in KeysOf(First) /\ k[2] \in KeysOf(Second) /\ k = <<k[1], k[2]>>
        BY DEF Keys
    <3>2. memos[i][k[1]] \in NodeIds
        BY <2>4, <3>1 DEF TInv, TypeOK
    <3>3. CASE memos[i][k[1]] = n /\ k[2] = j
      <4>1. i = headIdx
          BY <2>2, <2>3, <3>1, <3>3
      <4>2. k[1] = h
        <5>1. Refers(n, k[1])
            BY <3>3 DEF Refers
        <5> QED BY <1>2, <3>1, <5>1 DEF TInv, OneKey
      <4> QED BY <3>1, <3>3, <4>1, <4>2
    <3>4. CASE ~ (memos[i][k[1]] = n /\ k[2] = j)
        BY <1>3, <2>4, <3>1, <3>2, <3>4
    <3> QED BY <3>3, <3>4
  <2>5. Leaves(1 - headIdx)' = {}
    <3>1. Leaves(1 - headIdx)' \subseteq Leaves(1 - headIdx)
        BY <1>1, <2>2, <2>4 DEF Leaves
    <3> QED BY <2>1, <3>1
  <2>6. Leaves(headIdx)' \subseteq Leaves(headIdx) \cup {<<h, j>>}
      BY <1>1, <2>2, <2>4 DEF Leaves
  <2>7. Cardinality(Leaves(headIdx)') <= size' + 1 /\ size' < MaxSize'
    <3> DEFINE L == Leaves(headIdx)
               M == L \cup {<<h, j>>}
    <3>1. IsFiniteSet(L) /\ Cardinality(L) \in Nat
        BY LeavesFinite
    <3>2. IsFiniteSet(M) /\ Cardinality(M) <= Cardinality(L) + 1 /\ Cardinality(M) \in Nat
      <4> HIDE DEF L
      <4>1. PICK x : x = <<h, j>>
          OBVIOUS
      <4>2. /\ IsFiniteSet(L \cup {x})
            /\ Cardinality(L \cup {x}) =
                  IF x \in L THEN Cardinality(L) ELSE Cardinality(L) + 1
          BY <3>1, FS_AddElement
      <4>3. Cardinality(L \cup {x}) \in Nat
          BY <4>2, FS_CardinalityType
      <4> QED BY <3>1, <4>1, <4>2, <4>3
    <3>3. Leaves(headIdx)' \in SUBSET M
        BY <2>6
    <3>4. /\ Cardinality(Leaves(headIdx)') <= Cardinality(M)
          /\ Cardinality(Leaves(headIdx)') \in Nat
      <4> HIDE DEF M
      <4> QED BY <3>2, <3>3, FS_Subset, FS_CardinalityType
    <3>5. Cardinality(L) <= size /\ size' = size /\ size \in Nat /\ MaxSize' = MaxSize
        BY <1>1, <2>1 DEF Within, MaxSize, TInv, TypeOK
    <3> HIDE DEF L, M
    <3> QED BY <2>1, <3>1, <3>2, <3>4, <3>5
  <2> QED BY <1>1, <1>4, <2>5, <2>7 DEF StoreStage
<1> QED BY <1>1, <1>5, <1>6, <1>7, <1>8, <1>10, <1>11, <1>12, Kept

LEMMA CountKeeps ==
    ASSUME TInv, NEW p \in Procs, Count(p)
    PROVE  TInv'
<1>1. /\ MayRun(p) /\ pc[p] = "add" /\ phase[p] = "store"
      /\ pc' = [pc EXCEPT ![p] = "answer"] /\ size' = size + 1
      /\ UNCHANGED <<setup, memos, node, headIdx, arg, phase, idx, at, val, calls>>
    BY DEF Count, Goto, TInv, Staged, Stage
<1>2. /\ size \in Nat /\ calls \in Nat /\ calls <= MaxCalls /\ MaxCalls \in Nat
      /\ MaxSize \in Nat
    BY SetupShape DEF TInv, Staged, TypeOK
<1>3. pc'[p] = "answer" /\ \A q \in Procs \ {p} : pc'[q] = pc[q]
    BY <1>1 DEF TInv, TypeOK
<1>4. Counted'
  <2>1. Uncounted' = Uncounted \ {p} /\ p \in Uncounted
      BY <1>1, <1>3 DEF Uncounted
  <2>2. Cardinality(Uncounted') = Cardinality(Uncounted) - 1
      BY <2>1, UncountedFinite, FS_RemoveElement
  <2>3. Counted' <=> size' + Cardinality(Uncounted') <= calls'
      BY DEF Counted
  <2> QED BY <1>1, <1>2, <2>2, <2>3, UncountedFinite DEF TInv, Counted
<1>5. size' <= MaxCalls
  <2>1. Uncounted' \in SUBSET Uncounted
      BY <1>3 DEF Uncounted
  <2>2. Cardinality(Uncounted') \in Nat
      BY <2>1, UncountedFinite, FS_Subset, FS_CardinalityType
  <2> QED BY <1>1, <1>2, <1>4, <2>2 DEF Counted
<1>6. Moved(p)
  <2>1. size' \in 0 .. MaxCalls'
      BY <1>1, <1>2, <1>5 DEF MaxCalls
  <2>2. TypeOK'
      BY <1>1, <2>1 DEF TInv, TypeOK, MaxCalls
  <2> QED BY <1>1, <2>2 DEF Moved, TInv, TypeOK
<1>7. Stage(p)'
    BY <1>1, <1>3 DEF TInv, Staged, Stage
<1>8. OwnValue(p)'
    BY <1>1 DEF TInv, Own, OwnValue
<1>9. OneKey' /\ Filed'
    BY <1>1, SameFiles
<1>10. OneGoroutine => Leaves(1 - headIdx)' = {} /\ StoreStage(p)'
  <2> SUFFICES ASSUME OneGoroutine PROVE Leaves(1 - headIdx)' = {} /\ StoreStage(p)'
      OBVIOUS
  <2>1. /\ Leaves(1 - headIdx)' = {} /\ Leaves(headIdx)' = Leaves(headIdx)
        /\ MaxSize' = MaxSize
      BY <1>1, Running, SameTable
  <2>2. Cardinality(Leaves(headIdx)) <= size + 1 /\ size < MaxSize
      BY <1>1, Running DEF StoreStage
  <2>3. Within'
      BY <1>1, <1>2, <2>1, <2>2 DEF Within
  <2> QED BY <1>1, <1>3, <2>1, <2>3 DEF StoreStage
<1> QED BY <1>1, <1>4, <1>6, <1>7, <1>8, <1>9, <1>10, Kept

LEMMA AnswerKeeps ==
    ASSUME TInv, NEW p \in Procs, Answer(p)
    PROVE  TInv'
<1>1. /\ MayRun(p) /\ pc[p] = "answer" /\ pc' = [pc EXCEPT ![p] = "idle"]
      /\ val' = [val EXCEPT ![p] = Absent] /\ arg' = [arg EXCEPT ![p] = NoArg]
      /\ phase' = [phase EXCEPT ![p] = "head"] /\ idx' = [idx EXCEPT ![p] = 0]
      /\ UNCHANGED <<setup, memos, node, headIdx, size, at, calls>>
    BY DEF Answer, Goto
<1>2. Moved(p)
  <2>1. TypeOK'
      BY <1>1 DEF TInv, TypeOK, MaxCalls
  <2> QED BY <1>1, <2>1 DEF Moved, TInv, TypeOK
<1>3. pc'[p] = "idle" /\ phase'[p] = "head" /\ at'[p] = at[p]
    BY <1>1 DEF TInv, TypeOK
<1>4. Stage(p)'
    BY <1>1, <1>3 DEF TInv, Staged, Stage
<1>5. OwnValue(p)'
    BY <1>3 DEF OwnValue
<1>6. Counted'
    BY <1>1, <1>2, <1>3, MovedCounted DEF TInv, TypeOK
<1>7. OneKey' /\ Filed'
  <2>1. at[p] = NoNode
      BY <1>1 DEF TInv, Staged, Stage
  <2>2. \A n \in NodeIds, k \in KeysOf(First) : Refers(n, k)' => Refers(n, k)
      BY <1>1, <1>2, <2>1 DEF Refers, Moved, NodeIds, NoNode
  <2> QED BY <1>1, <2>2, MovedFiles
<1>8. OneGoroutine => Leaves(1 - headIdx)' = {} /\ Within'
  <2> SUFFICES ASSUME OneGoroutine PROVE Leaves(1 - headIdx)' = {} /\ Within'
      OBVIOUS
  <2>1. Leaves(1 - headIdx) = {} /\ Within
      BY <1>1, Running DEF StoreStage
  <2> QED BY <1>1, <2>1, SameTable
<1> QED BY <1>1, <1>2, <1>3, <1>4, <1>5, <1>6, <1>7, <1>8, Kept

(* The invariant is inductive: goroutines one step at a time, in any order *)
(* that one goroutine or several may take.                                 *)
THEOREM TablesInductive == TInv /\ [Next]_vars => TInv'
<1> SUFFICES ASSUME TInv, [Next]_vars PROVE TInv'
    OBVIOUS
<1>1. ASSUME NEW p \in Procs, Load(p) \/ Compute(p) \/ Store(p)
      PROVE  TInv'
  <2>1. CASE Load(p) \/ Compute(p)
      BY <2>1, LoadHitKeeps, LoadMissKeeps, ComputeKeeps DEF Load
  <2>2. CASE Store(p)
      BY <2>2, CompareAndSwapKeeps, ClearKeeps, FlipKeeps, StoreLeafKeeps, CountKeeps DEF Store
  <2> QED BY <1>1, <2>1, <2>2
<1>2. ASSUME NEW p \in Procs,
             Call(p) \/ ReadHead(p) \/ Traverse(p) \/ MakeNode(p) \/ Answer(p)
      PROVE  TInv'
    BY <1>2, CallKeeps, ReadHeadKeeps, TraverseKeeps, MakeNodeKeeps, AnswerKeeps
<1>3. CASE UNCHANGED vars
  <2>1. TypeOK' /\ Staged' /\ Counted'
      BY <1>3 DEF vars, TInv, TypeOK, Staged, Stage, Counted, Uncounted, MaxCalls
  <2>2. OneKey' /\ Filed' /\ Own'
      BY <1>3 DEF vars, TInv, OneKey, Filed, Refers, Own, OwnValue
  <2>3. Rotation'
    <3>1. /\ UNCHANGED <<setup, memos, node, headIdx, size, pc, arg, phase, idx, at>>
          /\ \A p : Key(p)' = Key(p)
        BY <1>3 DEF vars, Key
    <3>2. /\ Leaves(1 - headIdx)' = Leaves(1 - headIdx)
          /\ Leaves(headIdx)' = Leaves(headIdx)
          /\ MaxSize' = MaxSize /\ (Within' <=> Within)
        BY <3>1, SameTable
    <3>3. \A p \in Procs : StoreStage(p)' <=> StoreStage(p)
        BY <3>1, <3>2 DEF StoreStage
    <3> QED BY <3>1, <3>2, <3>3 DEF TInv, Rotation, OneGoroutine
  <2> QED BY <2>1, <2>2, <2>3 DEF TInv
<1> QED BY <1>1, <1>2, <1>3 DEF Next

LEMMA TablesSafe == Spec => []TInv
BY InitTInv, TablesInductive, PTL DEF Spec

(* The variables keep their types; the counter of a table never exceeds    *)
(* the number of calls.                                                    *)
THEOREM TablesTypeCorrect == Spec => []TypeOK
<1>1. TInv => TypeOK
    BY DEF TInv
<1> QED BY <1>1, TablesSafe, PTL

(* Where table keys tell arguments apart, a memoized function answers what *)
(* the function would, for any goroutines that store, clear and unlink     *)
(* meanwhile.  Where they do not (equal strings of a Stringer, tableize.go *)
(* line 71) it does not.                                                   *)
THEOREM AnswersArePure ==
    ASSUME TellsApart
    PROVE  Spec => []AnswerIsPure
<1>1. TInv => AnswerIsPure
    BY DEF TInv, Own, OwnValue, AnswerIsPure, PureFn
<1> QED BY <1>1, TablesSafe, PTL

(* Called from one goroutine, nested or not, a table holds maxTableSize    *)
(* entries at most, all of them in one memo.                               *)
THEOREM TablesAreBounded == Spec => []RotationForgetsAll
<1>1. ASSUME TInv, OneGoroutine, ~Storing
      PROVE  Cardinality(Leaves(headIdx)) <= MaxSize /\ Leaves(1 - headIdx) = {}
  <2>1. \A p \in Procs : phase[p] # "store"
      BY <1>1 DEF Storing, TInv, Staged, Stage
  <2>2. Leaves(1 - headIdx) = {} /\ Within
      BY <1>1, <2>1 DEF TInv, Rotation
  <2>3. size \in Nat /\ MaxSize \in Nat
      BY <1>1, SetupShape DEF TInv, Staged, TypeOK
  <2> QED BY <2>2, <2>3, LeavesFinite DEF Within
<1>2. TInv => RotationForgetsAll
    BY <1>1 DEF RotationForgetsAll
<1> QED BY <1>2, TablesSafe, PTL
=============================================================================
