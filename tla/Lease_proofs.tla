---------------------------- MODULE Lease_proofs ----------------------------
(***************************************************************************)
(* Theorems about the lease effect, for any number of owners, slots,       *)
(* registrations and clock ticks and any TTL.  Without expiry the argument *)
(* is a count: the tokens in the source are as many as the holders, and a  *)
(* pair yet to be inserted is used by nobody (Untouched, Pending).  With a *)
(* TTL owners never give tokens back, so the argument is a matching: every *)
(* holder whose lease is not over has a token of its own, with the stamp   *)
(* of its lease, in the filter's hand or in the source (Covered).          *)
(***************************************************************************)
EXTENDS Lease, FiniteSetTheorems, SequenceTheorems, TLAPS

Places ==
    {"idle", "inserting", "acquiring", "panicked", "releasing", "checking",
     "deleting", "closing"}

(* A pair in use was made before. *)
Known ==
    /\ registered <= lastGen
    /\ \A o \in Owners : op[o].gen <= lastGen /\ lease[o].gen <= lastGen
    /\ \A g \in Gens : g > lastGen => filter[g] = "none" /\ source[g] = <<>>

Busy ==
    /\ op \in [Owners -> [at : Places, gen : {0} \union Gens, stamp : Stamps]]
    /\ \A o \in Owners : ~At(o, "idle") => op[o].gen # 0

(* The pair that an owner is about to insert is nobody else's. *)
Untouched ==
    \A o \in Owners : At(o, "inserting") =>
        /\ op[o].gen # registered /\ source[op[o].gen] = <<>>
        /\ \A p \in Owners : lease[p].gen # op[o].gen
        /\ \A p \in Owners \ {o} : op[p].gen # op[o].gen

(* Nor is a pair whose insertion was left behind. *)
Pending ==
    \A g \in Gens : <<"inserting", g>> \in behind =>
        /\ g <= lastGen /\ g # registered /\ source[g] = <<>>
        /\ \A p \in Owners : lease[p].gen # g /\ op[p].gen # g

(* Who acquires holds nothing; who releases its lease of the registered    *)
(* pair releases it to that pair.                                          *)
Straight ==
    \A o \in Owners :
        /\ At(o, "acquiring") => lease[o].gen = 0
        /\ At(o, "releasing") =>
            /\ lease[o].gen # 0
            /\ lease[o].gen = registered => op[o].gen = registered

Matched ==
    ~misfreed =>
        \A g \in Gens : registered = g /\ ~HasTTL(g) =>
            /\ IsFiniteSet(HoldersOf(g))
            /\ Len(source[g]) = Cardinality(HoldersOf(g))

Capacity == \A g \in Gens : Len(source[g]) <= NumOwners /\ Len(polled[g]) <= 1

(* The tokens of a pair that are not yet released: the one the filter      *)
(* holds, then those in the source.                                        *)
Tokens(g) == polled[g] \o source[g]
StampOf == [o \in Owners |-> lease[o].stamp]

(* Each of the owners has a token of its own, with the stamp of its lease. *)
Covers(owners, stamps, tokens) ==
    \E pos \in Injection(owners, 1..Len(tokens)) :
        \A o \in owners : tokens[pos[o]] = stamps[o]

Covered ==
    ~scopeDone =>
        \A g \in Gens : HasTTL(g) => Covers(HoldersOf(g), StampOf, Tokens(g))

LInv ==
    /\ TypeOK /\ Known /\ Busy /\ Untouched /\ Pending
    /\ Straight /\ Matched /\ Capacity /\ Covered

-----------------------------------------------------------------------------
LEMMA GensPositive == \A g \in Gens : g \in Nat /\ g > 0
BY LeaseAssumption DEF Gens

LEMMA StampsNat ==
    ASSUME setup \in Setups
    PROVE  0 \in Stamps /\ Stamps \subseteq Nat
<1>1. setup.ticks \in Nat
    BY LeaseAssumption
<1>2. 0 \in Stamps
    BY <1>1 DEF Stamps
<1>3. Stamps \subseteq Nat
    BY LeaseAssumption DEF Stamps
<1> QED BY <1>2, <1>3

(* Nobody needs no token. *)
LEMMA CoversNobody ==
    ASSUME NEW stamps, NEW tokens
    PROVE  Covers({}, stamps, tokens)
<1> DEFINE pos == [o \in {} |-> 1]
<1>1. pos \in Injection({}, 1..Len(tokens))
    BY DEF Injection, IsInjective
<1> QED BY <1>1 DEF Covers

(* Fewer owners need no more tokens. *)
LEMMA CoversFewer ==
    ASSUME NEW H, NEW K, K \subseteq H, NEW old, NEW new, NEW tokens,
           \A o \in K : new[o] = old[o],
           Covers(H, old, tokens)
    PROVE  Covers(K, new, tokens)
<1>1. PICK pos \in Injection(H, 1..Len(tokens)) : \A o \in H : tokens[pos[o]] = old[o]
    BY DEF Covers
<1> DEFINE at == [o \in K |-> pos[o]]
<1>2. at \in Injection(K, 1..Len(tokens))
    BY <1>1 DEF Injection, IsInjective
<1>3. \A o \in K : tokens[at[o]] = new[o]
    BY <1>1
<1> QED BY <1>2, <1>3 DEF Covers

(* A new owner is covered by the token it adds. *)
LEMMA CoversGrant ==
    ASSUME NEW H, NEW o, o \notin H, NEW old, NEW new, NEW tokens \in Seq(Nat),
           new[o] \in Nat,
           \A p \in H : new[p] = old[p],
           Covers(H, old, tokens)
    PROVE  Covers(H \cup {o}, new, Append(tokens, new[o]))
<1> DEFINE last == Len(tokens) + 1
           more == Append(tokens, new[o])
<1>1. PICK pos \in Injection(H, 1..Len(tokens)) : \A p \in H : tokens[pos[p]] = old[p]
    BY DEF Covers
<1> DEFINE at == [p \in H \cup {o} |-> IF p = o THEN last ELSE pos[p]]
<1>2. /\ Len(more) = last /\ more[last] = new[o] /\ Len(tokens) \in Nat
      /\ \A i \in 1..Len(tokens) : more[i] = tokens[i]
    OBVIOUS
<1>3. /\ \A p \in H : pos[p] \in 1..Len(tokens)
      /\ \A p, q \in H : pos[p] = pos[q] => p = q
    BY <1>1 DEF Injection, IsInjective
<1>4. at \in Injection(H \cup {o}, 1..last)
    BY <1>2, <1>3 DEF Injection, IsInjective
<1>5. \A p \in H \cup {o} : more[at[p]] = new[p]
    BY <1>1, <1>2, <1>3
<1> QED BY <1>2, <1>4, <1>5 DEF Covers

(* A token that is nobody's stamp is of no use. *)
LEMMA CoversDrop ==
    ASSUME NEW H, NEW stamps, NEW tokens \in Seq(Nat), tokens # <<>>,
           \A o \in H : stamps[o] # Head(tokens),
           Covers(H, stamps, tokens)
    PROVE  Covers(H, stamps, Tail(tokens))
<1> DEFINE rest == Tail(tokens)
<1>1. PICK pos \in Injection(H, 1..Len(tokens)) : \A o \in H : tokens[pos[o]] = stamps[o]
    BY DEF Covers
<1>2. /\ Len(tokens) \in Nat \ {0} /\ Len(rest) = Len(tokens) - 1 /\ Head(tokens) = tokens[1]
      /\ \A i \in 1..Len(rest) : rest[i] = tokens[i + 1]
    OBVIOUS
<1> DEFINE at == [o \in H |-> pos[o] - 1]
<1>3. /\ \A o \in H : pos[o] \in 1..Len(tokens) /\ pos[o] # 1
      /\ \A o, p \in H : pos[o] = pos[p] => o = p
    BY <1>1, <1>2 DEF Injection, IsInjective
<1>4. \A o \in H : at[o] \in 1..Len(rest)
    BY <1>2, <1>3
<1>5. at \in Injection(H, 1..Len(rest))
    BY <1>3, <1>4 DEF Injection, IsInjective
<1>6. \A o \in H : rest[at[o]] = stamps[o]
    BY <1>1, <1>2, <1>3, <1>4
<1> QED BY <1>5, <1>6 DEF Covers

(* What is covered is bounded by the tokens. *)
LEMMA CoversBound ==
    ASSUME NEW H, NEW stamps, NEW tokens, Len(tokens) \in Nat,
           Covers(H, stamps, tokens)
    PROVE  IsFiniteSet(H) /\ Cardinality(H) <= Len(tokens)
<1>1. PICK pos \in Injection(H, 1..Len(tokens)) : TRUE
    BY DEF Covers
<1>2. IsFiniteSet(1..Len(tokens)) /\ Cardinality(1..Len(tokens)) = Len(tokens)
  <2> DEFINE n == Len(tokens)
  <2>1. n \in Nat /\ n \in Int /\ 1 \in Int
      OBVIOUS
  <2> HIDE DEF n
  <2>2. /\ IsFiniteSet(1..n)
        /\ Cardinality(1..n) = IF 1 > n THEN 0 ELSE n - 1 + 1
      BY <2>1, FS_Interval, Zenon
  <2>3. Cardinality(1..n) = n
      BY <2>1, <2>2
  <2> QED BY <2>2, <2>3 DEF n
<1> QED BY <1>1, <1>2, FS_Injection

LEMMA ConcatAppend ==
    ASSUME NEW S, NEW s \in Seq(S), NEW t \in Seq(S), NEW e \in S
    PROVE  s \o Append(t, e) = Append(s \o t, e)
<1> DEFINE u == <<e>>
<1>1. u \in Seq(S)
    OBVIOUS
<1>2. Append(t, e) = t \o u /\ s \o t \in Seq(S)
    BY AppendIsConcat, ConcatProperties
<1>3. Append(s \o t, e) = (s \o t) \o u
    BY <1>2, AppendIsConcat
<1> HIDE DEF u
<1>4. (s \o t) \o u = s \o (t \o u)
    BY <1>1, ConcatAssociative
<1> QED BY <1>2, <1>3, <1>4

(* Facts of LInv that the steps below use again and again. *)
LEMMA Facts ==
    ASSUME LInv
    PROVE  /\ TypeOK /\ Known /\ Busy /\ Untouched /\ Pending
           /\ Straight /\ Matched /\ Capacity /\ Covered
           /\ 0 \in Stamps /\ Stamps \subseteq Nat /\ now \in Nat /\ lastGen \in Nat
           /\ \A g \in Gens : g \in Nat /\ g > 0
           /\ \A g \in Gens : Tokens(g) \in Seq(Nat)
<1>1. /\ TypeOK /\ Known /\ Busy /\ Untouched /\ Pending
      /\ Straight /\ Matched /\ Capacity /\ Covered
    BY DEF LInv
<1>2. 0 \in Stamps /\ Stamps \subseteq Nat /\ now \in Nat
    BY <1>1, StampsNat DEF TypeOK
<1>3. lastGen \in Nat
    BY <1>1, GensPositive DEF TypeOK
<1>4. \A g \in Gens : Tokens(g) \in Seq(Nat)
  <2> SUFFICES ASSUME NEW g \in Gens PROVE Tokens(g) \in Seq(Nat)
    OBVIOUS
  <2>1. polled[g] \in Seq(Stamps) /\ source[g] \in Seq(Stamps)
    BY <1>1 DEF TypeOK
  <2>2. polled[g] \in Seq(Nat) /\ source[g] \in Seq(Nat)
    BY <1>2, <2>1, SeqMonotonic
  <2> QED BY <2>2 DEF Tokens
<1> QED BY <1>1, <1>2, <1>3, <1>4, GensPositive

(* As long as the tokens of a pair stay, its holders may only become fewer.*)
LEMMA CoveredFewer ==
    ASSUME NEW g \in Gens, HasTTL(g), Covers(HoldersOf(g), StampOf, Tokens(g)),
           polled'[g] = polled[g], source'[g] = source[g],
           \A o \in HoldersOf(g)' : o \in HoldersOf(g) /\ lease'[o] = lease[o]
    PROVE  Covers(HoldersOf(g), StampOf, Tokens(g))'
<1>1. \A o \in HoldersOf(g)' : StampOf'[o] = StampOf[o]
    BY DEF StampOf, HoldersOf
<1>2. Tokens(g)' = Tokens(g)
    BY DEF Tokens
<1>3. Covers(HoldersOf(g)', StampOf', Tokens(g))
    BY <1>1, CoversFewer
<1>4. Covers(HoldersOf(g)', StampOf', Tokens(g)')
    BY <1>2, <1>3
<1> QED BY <1>4 DEF Covers

(* A step that no pair left behind takes part in. *)
LEMMA PendingKeeps ==
    ASSUME Pending,
           behind' = behind, lastGen' = lastGen, registered' \in {0, registered},
           \A p \in Owners : /\ op'[p].gen \in {0, registered, op[p].gen}
                             /\ lease'[p].gen \in {0, lease[p].gen, op[p].gen},
           \A g \in Gens :
               source[g] = <<>> /\ (\A p \in Owners : op[p].gen # g) => source'[g] = <<>>
    PROVE  Pending'
<1> SUFFICES ASSUME NEW g \in Gens, <<"inserting", g>> \in behind
             PROVE  /\ g <= lastGen /\ g # registered' /\ source'[g] = <<>>
                    /\ \A p \in Owners : lease'[p].gen # g /\ op'[p].gen # g
    BY DEF Pending
<1>1. /\ g <= lastGen /\ g # registered /\ source[g] = <<>> /\ g # 0
      /\ \A p \in Owners : lease[p].gen # g /\ op[p].gen # g
    BY GensPositive DEF Pending
<1> QED BY <1>1

LEMMA InitLInv == Init => LInv
<1> SUFFICES ASSUME Init PROVE LInv
    OBVIOUS
<1> USE DEF Init
<1>0. 0 \in Stamps /\ Stamps \subseteq Nat
    BY StampsNat
<1>1. TypeOK
  <2>1. setup \in Setups /\ now \in Stamps /\ {registered, lastGen} \subseteq {0} \union Gens
    BY <1>0
  <2>2. source \in [Gens -> Seq(Stamps)] /\ polled \in [Gens -> Seq(Stamps)]
    BY EmptySeq
  <2>3. lease \in [Owners -> [gen : {0} \union Gens, stamp : Stamps]]
    BY <1>0 DEF NoLease
  <2> QED BY <2>1, <2>2, <2>3 DEF TypeOK
<1>2. Known /\ Busy
    BY <1>0, GensPositive DEF Known, Busy, Idle, NoLease, Places, At
<1>3. Untouched /\ Pending /\ Straight
    BY DEF Untouched, Pending, Straight, At, Idle
<1>4. Matched
    BY GensPositive DEF Matched
<1>5. Capacity
    BY LeaseAssumption DEF Capacity
<1>6. Covered
    BY DEF Covered, HasTTL
<1> QED BY <1>1, <1>2, <1>3, <1>4, <1>5, <1>6 DEF LInv

-----------------------------------------------------------------------------
(* Steps of an owner that change nothing but the effect it is in. *)
LEMMA MoveLInv ==
    ASSUME LInv, NEW o \in Owners,
           NEW r \in [at : Places \ {"inserting"}, gen : {0} \union Gens, stamp : Stamps],
           op' = [op EXCEPT ![o] = r],
           r.gen \in {0, registered, op[o].gen},
           r.at # "idle" => r.gen # 0,
           r.at = "acquiring" => lease[o].gen = 0,
           r.at = "releasing" => r.gen = registered /\ lease[o].gen # 0,
           UNCHANGED <<pairVars, entryVars, worldVars, lease, misfreed>>
    PROVE  LInv'
<1> USE DEF pairVars, entryVars, worldVars
<1>0. /\ TypeOK /\ Known /\ Busy /\ Untouched /\ Pending
      /\ Straight /\ Matched /\ Capacity /\ Covered
    BY Facts
<1>1. TypeOK'
    BY <1>0 DEF TypeOK
<1>2. \A p \in Owners : op'[p] = IF p = o THEN r ELSE op[p]
    BY <1>0 DEF Busy
<1>3. Known'
    BY <1>0, <1>2, GensPositive DEF Known, TypeOK
<1>4. Busy'
    BY <1>0, <1>2 DEF Busy, At
<1>5. Untouched'
  <2> SUFFICES ASSUME NEW p \in Owners, op'[p].at = "inserting"
               PROVE  /\ op'[p].gen # registered /\ source[op'[p].gen] = <<>>
                      /\ \A q \in Owners : lease[q].gen # op'[p].gen
                      /\ \A q \in Owners \ {p} : op'[q].gen # op'[p].gen
    BY DEF Untouched, At
  <2>1. p # o /\ op'[p] = op[p] /\ At(p, "inserting") /\ op[p].gen # 0
    BY <1>0, <1>2 DEF At, Busy
  <2> QED BY <1>0, <1>2, <2>1 DEF Untouched
<1>6. Straight'
    BY <1>0, <1>2 DEF Straight, At
<1>7. Matched' /\ Capacity'
    BY <1>0 DEF Matched, Capacity, HoldersOf, Expired, HasTTL
<1>8. Covered'
  <2>1. \A g \in Gens : HoldersOf(g)' = HoldersOf(g) /\ HasTTL(g)' = HasTTL(g)
    BY DEF HoldersOf, Expired, HasTTL
  <2> QED BY <1>0, <2>1, CoveredFewer DEF Covered
<1>9. Pending'
    BY <1>0, <1>2, PendingKeeps DEF Busy
<1> QED BY <1>1, <1>3, <1>4, <1>5, <1>6, <1>7, <1>8, <1>9 DEF LInv

LEMMA MovesLInv ==
    ASSUME LInv, NEW o \in Owners,
           \/ Acquire(o) \/ AcquireAborts(o) \/ AcquirePanics(o)
           \/ (Release(o) /\ registered # 0) \/ ReleaseAborts(o)
           \/ Deregister(o) \/ CheckUnused(o)
    PROVE  LInv'
<1>0. /\ TypeOK /\ Busy /\ 0 \in Stamps /\ now \in Stamps
      /\ registered \in {0} \union Gens
      /\ op[o] \in [at : Places, gen : {0} \union Gens, stamp : Stamps]
    BY Facts DEF Busy, TypeOK
<1> DEFINE Here(r) ==
        /\ r \in [at : Places \ {"inserting"}, gen : {0} \union Gens, stamp : Stamps]
        /\ op' = [op EXCEPT ![o] = r]
        /\ r.gen \in {0, registered, op[o].gen}
        /\ r.at # "idle" => r.gen # 0
        /\ r.at = "acquiring" => lease[o].gen = 0
        /\ r.at = "releasing" => r.gen = registered /\ lease[o].gen # 0
<1>1. UNCHANGED <<pairVars, entryVars, worldVars, lease, misfreed>>
    BY DEF Acquire, AcquireAborts, AcquirePanics, Release, ReleaseAborts, Deregister, CheckUnused
<1>2. Idle \in [at : Places \ {"inserting"}, gen : {0} \union Gens, stamp : Stamps]
    BY <1>0 DEF Idle, Places
<1>3. CASE AcquireAborts(o) \/ ReleaseAborts(o)
  <2>1. Here(Idle)
    BY <1>2, <1>3 DEF AcquireAborts, ReleaseAborts, Return, Idle
  <2> QED BY <1>1, <2>1, MoveLInv
<1>4. CASE Acquire(o)
  <2>1. Here([at |-> "acquiring", gen |-> registered, stamp |-> now])
    BY <1>0, <1>4, GensPositive DEF Acquire, Begin, Places, Holds, TypeOK
  <2> QED BY <1>1, <2>1, MoveLInv
<1>5. CASE AcquirePanics(o)
  <2>1. op' = [op EXCEPT ![o] = [op[o] EXCEPT !.at = "panicked"]]
    BY <1>0, <1>5 DEF AcquirePanics
  <2>2. Here([op[o] EXCEPT !.at = "panicked"])
    BY <1>0, <1>5, <2>1 DEF AcquirePanics, Places, Busy, At
  <2> QED BY <1>1, <2>2, MoveLInv
<1>6. CASE Release(o) /\ registered # 0
  <2>1. Here([at |-> "releasing", gen |-> registered, stamp |-> 0])
    BY <1>0, <1>6, GensPositive DEF Release, Begin, Places, Holds, TypeOK
  <2> QED BY <1>1, <2>1, MoveLInv
<1>7. CASE Deregister(o)
  <2>1. Here([at |-> "checking", gen |-> registered, stamp |-> 0])
    BY <1>0, <1>7 DEF Deregister, Begin, Places
  <2> QED BY <1>1, <2>1, MoveLInv
<1>8. CASE CheckUnused(o)
  <2>1. CASE source[op[o].gen] # <<>>
    <3>1. Here(Idle)
      BY <1>2, <1>8, <2>1 DEF CheckUnused, Return, Idle
    <3> QED BY <1>1, <3>1, MoveLInv
  <2>2. CASE source[op[o].gen] = <<>>
    <3>1. op' = [op EXCEPT ![o] = [op[o] EXCEPT !.at = "deleting"]]
      BY <1>0, <1>8, <2>2 DEF CheckUnused
    <3>2. Here([op[o] EXCEPT !.at = "deleting"])
      BY <1>0, <1>8, <3>1 DEF CheckUnused, Places, Busy, At
    <3> QED BY <1>1, <3>2, MoveLInv
  <2> QED BY <2>1, <2>2
<1> QED BY <1>3, <1>4, <1>5, <1>6, <1>7, <1>8

(* Registration: the new pair is nobody's, so it needs no token. *)
LEMMA RegisterLInv ==
    ASSUME LInv, NEW o \in Owners, Register(o)
    PROVE  LInv'
<1> USE DEF pairVars, entryVars, worldVars
<1>0. /\ TypeOK /\ Known /\ Busy /\ Untouched /\ Pending
      /\ Straight /\ Matched /\ Capacity /\ Covered
      /\ lastGen \in Nat /\ 0 \in Stamps
    BY Facts
<1>1. PICK g \in Gens : g = lastGen + 1
  <2>1. setup \in Setups /\ setup.regs \in Nat /\ lastGen + 1 \in 1..setup.regs
    BY <1>0, LeaseAssumption DEF TypeOK, Register
  <2> QED BY <2>1 DEF Gens
<1>2. PICK kind \in {"none", "running"} :
        /\ filter' = [filter EXCEPT ![g] = kind]
        /\ lastGen' = g
        /\ op' = [op EXCEPT ![o] = [at |-> "inserting", gen |-> g, stamp |-> 0]]
        /\ UNCHANGED <<source, closed, polled, registered, behind, unclosed, worldVars, lease,
                       misfreed>>
    BY <1>1 DEF Register, Begin
<1>3. /\ \A p \in Owners : op[p].gen < g /\ lease[p].gen < g
      /\ registered < g
      /\ filter[g] = "none" /\ source[g] = <<>>
      /\ \A p \in Owners : op'[p] =
            IF p = o THEN [at |-> "inserting", gen |-> g, stamp |-> 0] ELSE op[p]
  <2>1. \A p \in Owners : op[p].gen \in Int /\ lease[p].gen \in Int
    BY <1>0, GensPositive DEF Busy, TypeOK
  <2>2. registered \in Int
    BY <1>0, GensPositive DEF TypeOK
  <2> QED BY <1>0, <1>1, <1>2, <2>1, <2>2 DEF Known, Busy
<1>4. TypeOK'
    BY <1>0, <1>2 DEF TypeOK
<1>5. Known'
  <2>1. g \in Int /\ \A p \in Owners : op[p].gen \in Int /\ lease[p].gen \in Int
    BY <1>0, GensPositive DEF Busy, TypeOK
  <2>2. registered' <= lastGen'
    <3>1. registered \in Int
      BY <1>0, GensPositive DEF TypeOK
    <3> QED BY <1>2, <1>3, <2>1, <3>1
  <2>3. \A p \in Owners : op'[p].gen <= lastGen' /\ lease'[p].gen <= lastGen'
    BY <1>2, <1>3, <2>1
  <2>4. ASSUME NEW h \in Gens, h > lastGen' PROVE filter'[h] = "none" /\ source'[h] = <<>>
    <3>1. h # g /\ h > lastGen
      BY <1>0, <1>1, <1>2, <2>1, <2>4, GensPositive
    <3> QED BY <1>0, <1>2, <3>1 DEF Known, TypeOK
  <2> QED BY <2>2, <2>3, <2>4 DEF Known
<1>6. Busy'
    BY <1>0, <1>1, <1>2, <1>3, GensPositive DEF Busy, Places, At
<1>7. Untouched'
  <2> SUFFICES ASSUME NEW p \in Owners, op'[p].at = "inserting"
               PROVE  /\ op'[p].gen # registered /\ source[op'[p].gen] = <<>>
                      /\ \A q \in Owners : lease[q].gen # op'[p].gen
                      /\ \A q \in Owners \ {p} : op'[q].gen # op'[p].gen
    BY <1>2 DEF Untouched, At
  <2>1. g \in Int
    BY GensPositive
  <2>2. CASE p = o
    <3>1. op'[p].gen = g
      BY <1>3, <2>2
    <3>2. g # registered /\ \A q \in Owners : lease[q].gen # g
      BY <1>3, <2>1
    <3>3. \A q \in Owners \ {p} : op'[q].gen # g
      BY <1>3, <2>1, <2>2
    <3> QED BY <1>3, <3>1, <3>2, <3>3
  <2>3. CASE p # o
    <3>1. op'[p] = op[p] /\ At(p, "inserting") /\ op[p].gen # g
      BY <1>3, <2>1, <2>3 DEF At
    <3> QED BY <1>0, <1>3, <3>1 DEF Untouched
  <2> QED BY <2>2, <2>3
<1>8. Straight'
    BY <1>0, <1>2, <1>3 DEF Straight, At
<1>9. \A h \in Gens : h # g => filter'[h] = filter[h]
    BY <1>0, <1>2 DEF TypeOK
<1>10. \A h \in Gens : h # g => HoldersOf(h)' = HoldersOf(h)
    BY <1>2, <1>9 DEF HoldersOf, Expired, HasTTL
<1>11. Matched'
  <2>1. registered # g
    BY <1>3, GensPositive
  <2> QED BY <1>0, <1>2, <1>9, <1>10, <2>1 DEF Matched, HasTTL
<1>12. Capacity'
    BY <1>0, <1>2 DEF Capacity
<1>13. Covered'
  <2> SUFFICES ASSUME ~scopeDone, NEW h \in Gens, HasTTL(h)'
               PROVE  Covers(HoldersOf(h), StampOf, Tokens(h))'
    BY <1>2 DEF Covered
  <2>1. CASE h = g
    <3>1. HoldersOf(h)' = {}
      BY <1>2, <1>3, <2>1, GensPositive DEF HoldersOf
    <3>2. Covers(HoldersOf(h)', StampOf', Tokens(h)')
      BY <3>1, CoversNobody
    <3> QED BY <3>2 DEF Covers
  <2>2. CASE h # g
    <3>1. HasTTL(h)
      BY <1>9, <2>2 DEF HasTTL
    <3>2. \A p \in HoldersOf(h)' : p \in HoldersOf(h) /\ lease'[p] = lease[p]
      BY <1>2, <1>10, <2>2
    <3> QED BY <1>0, <1>2, <3>1, <3>2, CoveredFewer DEF Covered
  <2> QED BY <2>1, <2>2
<1>14. Pending'
  <2> SUFFICES ASSUME NEW h \in Gens, <<"inserting", h>> \in behind
               PROVE  /\ h <= lastGen' /\ h # registered /\ source[h] = <<>>
                      /\ \A p \in Owners : lease[p].gen # h /\ op'[p].gen # h
    BY <1>2 DEF Pending, Register
  <2>1. /\ h <= lastGen /\ h # registered /\ source[h] = <<>>
        /\ \A p \in Owners : lease[p].gen # h /\ op[p].gen # h
    BY <1>0 DEF Pending
  <2>2. h < g /\ h <= g
    BY <1>0, <1>1, <2>1, GensPositive
  <2>3. h # g
    BY <2>2, GensPositive
  <2> QED BY <1>2, <1>3, <2>1, <2>2, <2>3
<1> QED BY <1>4, <1>5, <1>6, <1>7, <1>8, <1>11, <1>12, <1>13, <1>14 DEF LInv

(* Requests to the state store, sent, taking effect or left behind, move   *)
(* only the entry of the key, and only to nothing or to an unused pair.    *)
LEMMA RequestLInv ==
    ASSUME LInv,
           \/ registered' \in {0, registered}
           \/ /\ registered' \in Gens /\ registered' <= lastGen /\ source[registered'] = <<>>
              /\ \A p \in Owners : lease[p].gen # registered' /\ op'[p].gen # registered',
           op' \in [Owners -> [at : Places, gen : {0} \union Gens, stamp : Stamps]],
           \A p \in Owners : op'[p] \in {op[p], Idle},
           behind' \subseteq {"inserting", "deleting"} \X Gens, unclosed' \subseteq Gens,
           Pending',
           UNCHANGED <<pairVars, lastGen, worldVars, lease, misfreed>>
    PROVE  LInv'
<1> USE DEF pairVars, worldVars
<1>0. /\ TypeOK /\ Known /\ Busy /\ Untouched /\ Pending
      /\ Straight /\ Matched /\ Capacity /\ Covered
      /\ 0 \in Stamps /\ lastGen \in Nat
    BY Facts
<1>1. TypeOK'
    BY <1>0 DEF TypeOK
<1>2. Known'
  <2>1. registered' <= lastGen
    BY <1>0 DEF Known
  <2>2. \A p \in Owners : op'[p].gen <= lastGen
    BY <1>0 DEF Known, Idle
  <2> QED BY <1>0, <2>1, <2>2 DEF Known
<1>3. Busy'
    BY <1>0 DEF Busy, At, Idle
<1>4. Untouched'
  <2> SUFFICES ASSUME NEW p \in Owners, op'[p].at = "inserting"
               PROVE  /\ op'[p].gen # registered' /\ source[op'[p].gen] = <<>>
                      /\ \A q \in Owners : lease[q].gen # op'[p].gen
                      /\ \A q \in Owners \ {p} : op'[q].gen # op'[p].gen
    BY DEF Untouched, At
  <2>1. op'[p] = op[p] /\ At(p, "inserting") /\ op[p].gen # 0
    BY <1>0 DEF At, Busy, Idle
  <2>2. /\ op[p].gen # registered /\ source[op[p].gen] = <<>>
        /\ \A q \in Owners : lease[q].gen # op[p].gen
        /\ \A q \in Owners \ {p} : op[q].gen # op[p].gen
    BY <1>0, <2>1 DEF Untouched
  <2>3. \A q \in Owners \ {p} : op'[q].gen # op[p].gen
    BY <2>1, <2>2 DEF Idle
  <2> QED BY <2>1, <2>2, <2>3
<1>5. Straight'
  <2> SUFFICES ASSUME NEW p \in Owners
               PROVE  /\ op'[p].at = "acquiring" => lease[p].gen = 0
                      /\ op'[p].at = "releasing" =>
                            /\ lease[p].gen # 0
                            /\ lease[p].gen = registered' => op'[p].gen = registered'
    BY DEF Straight, At
  <2>1. CASE op'[p] = Idle
    BY <2>1 DEF Idle
  <2>2. CASE op'[p] = op[p]
    BY <1>0, <2>2 DEF Straight, At
  <2> QED BY <2>1, <2>2
<1>6. \A h \in Gens : HoldersOf(h)' = HoldersOf(h) /\ HasTTL(h)' = HasTTL(h)
    BY DEF HoldersOf, Expired, HasTTL
<1>7. Matched'
  <2> SUFFICES ASSUME ~misfreed, NEW h \in Gens, registered' = h, ~HasTTL(h)
               PROVE  IsFiniteSet(HoldersOf(h)) /\ Len(source[h]) = Cardinality(HoldersOf(h))
    BY <1>6 DEF Matched
  <2>1. CASE h = registered
    BY <1>0, <2>1 DEF Matched
  <2>2. CASE h # registered
    <3>1. source[h] = <<>> /\ \A p \in Owners : lease[p].gen # h
      BY <2>2, GensPositive
    <3>2. HoldersOf(h) = {}
      BY <3>1 DEF HoldersOf
    <3> QED BY <3>1, <3>2, FS_EmptySet
  <2> QED BY <2>1, <2>2
<1>8. Capacity'
    BY <1>0 DEF Capacity
<1>9. Covered'
    BY <1>0, <1>6, CoveredFewer DEF Covered
<1> QED BY <1>1, <1>2, <1>3, <1>4, <1>5, <1>7, <1>8, <1>9 DEF LInv

(* The new pair is nobody's, and no second insertion of it is under way.   *)
LEMMA InsertLInv ==
    ASSUME LInv, NEW o \in Owners, InsertIfAbsent(o)
    PROVE  LInv'
<1> USE DEF pairVars, worldVars
<1>0. /\ TypeOK /\ Known /\ Busy /\ Untouched /\ Pending /\ 0 \in Stamps /\ lastGen \in Nat
    BY Facts
<1>1. PICK g \in Gens : g = op[o].gen
    BY <1>0 DEF Busy, InsertIfAbsent, At
<1>2. /\ registered' = IF registered = 0 THEN g ELSE registered
      /\ op' = [op EXCEPT ![o] = Idle]
      /\ UNCHANGED <<pairVars, lastGen, behind, unclosed, worldVars, lease, misfreed>>
    BY <1>1 DEF InsertIfAbsent, Return, Inserted
<1>3. /\ g # registered /\ source[g] = <<>> /\ g <= lastGen
      /\ \A p \in Owners : lease[p].gen # g
      /\ \A p \in Owners \ {o} : op[p].gen # g
      /\ \A p \in Owners : op'[p] = IF p = o THEN Idle ELSE op[p]
    BY <1>0, <1>1, <1>2 DEF Untouched, InsertIfAbsent, Busy, Known
<1>4. op' \in [Owners -> [at : Places, gen : {0} \union Gens, stamp : Stamps]]
    BY <1>0, <1>2 DEF Busy, Idle, Places
<1>5. \A p \in Owners : op'[p].gen # g
    BY <1>3, GensPositive DEF Idle
<1>6. Pending'
  <2> SUFFICES ASSUME NEW h \in Gens, <<"inserting", h>> \in behind
               PROVE  /\ h <= lastGen /\ h # registered' /\ source[h] = <<>>
                      /\ \A p \in Owners : lease[p].gen # h /\ op'[p].gen # h
    BY <1>2 DEF Pending
  <2>1. /\ h <= lastGen /\ h # registered /\ source[h] = <<>> /\ h # 0
        /\ \A p \in Owners : lease[p].gen # h /\ op[p].gen # h
    BY <1>0, GensPositive DEF Pending
  <2> QED BY <1>1, <1>2, <1>3, <2>1 DEF Idle
<1>7. behind' \subseteq {"inserting", "deleting"} \X Gens /\ unclosed' \subseteq Gens
    BY <1>0, <1>2 DEF TypeOK
<1>8. \/ registered' \in {0, registered}
      \/ /\ registered' \in Gens /\ registered' <= lastGen /\ source[registered'] = <<>>
         /\ \A p \in Owners : lease[p].gen # registered' /\ op'[p].gen # registered'
    BY <1>2, <1>3, <1>5
<1> QED BY <1>2, <1>3, <1>4, <1>6, <1>7, <1>8, RequestLInv

(* The pair of an insertion whose caller goes is still nobody's.           *)
LEMMA AbortsLInv ==
    ASSUME LInv, NEW o \in Owners, StateCallAborts(o)
    PROVE  LInv'
<1> USE DEF pairVars, worldVars
<1>0. /\ TypeOK /\ Known /\ Busy /\ Untouched /\ Pending /\ 0 \in Stamps /\ lastGen \in Nat
      /\ op[o].gen \in Gens
    BY Facts DEF Busy, StateCallAborts, At
<1>1. /\ op' = [op EXCEPT ![o] = Idle]
      /\ behind' \in {behind, behind \union {<<op[o].at, op[o].gen>>}}
      /\ op[o].at \in {"inserting", "deleting"}
      /\ UNCHANGED <<pairVars, registered, lastGen, unclosed, worldVars, lease, misfreed>>
    BY DEF StateCallAborts, Return, At
<1>2. \A p \in Owners : op'[p] = IF p = o THEN Idle ELSE op[p]
    BY <1>0, <1>1 DEF Busy
<1>3. op' \in [Owners -> [at : Places, gen : {0} \union Gens, stamp : Stamps]]
    BY <1>0, <1>1 DEF Busy, Idle, Places
<1>4. behind' \subseteq {"inserting", "deleting"} \X Gens /\ unclosed' \subseteq Gens
    BY <1>0, <1>1 DEF TypeOK
<1>5. Pending'
  <2> SUFFICES ASSUME NEW h \in Gens, <<"inserting", h>> \in behind'
               PROVE  /\ h <= lastGen /\ h # registered /\ source[h] = <<>>
                      /\ \A p \in Owners : lease[p].gen # h /\ op'[p].gen # h
    BY <1>1 DEF Pending
  <2>1. CASE <<"inserting", h>> \in behind
    <3>1. /\ h <= lastGen /\ h # registered /\ source[h] = <<>> /\ h # 0
          /\ \A p \in Owners : lease[p].gen # h /\ op[p].gen # h
      BY <1>0, <2>1, GensPositive DEF Pending
    <3> QED BY <1>2, <3>1 DEF Idle
  <2>2. CASE <<"inserting", h>> \notin behind
    <3>1. h = op[o].gen /\ At(o, "inserting") /\ h # 0
      BY <1>1, <2>2, GensPositive DEF At
    <3>2. /\ h <= lastGen /\ h # registered /\ source[h] = <<>>
          /\ \A p \in Owners : lease[p].gen # h
          /\ \A p \in Owners \ {o} : op[p].gen # h
      BY <1>0, <3>1 DEF Untouched, Known
    <3> QED BY <1>2, <3>1, <3>2 DEF Idle
  <2> QED BY <2>1, <2>2
<1> QED BY <1>1, <1>2, <1>3, <1>4, <1>5, RequestLInv

(* What was left behind takes effect. *)
LEMMA LateLInv ==
    ASSUME LInv, NEW e \in behind, LateEffect(e)
    PROVE  LInv'
<1> USE DEF pairVars, worldVars
<1>0. /\ TypeOK /\ Known /\ Busy /\ Pending /\ lastGen \in Nat
    BY Facts
<1>1. PICK g \in Gens : g = e[2] /\ e = <<e[1], g>>
    BY <1>0 DEF TypeOK
<1>2. /\ behind' = behind \ {e} /\ behind' \subseteq behind
      /\ UNCHANGED <<pairVars, lastGen, worldVars, op, lease, misfreed>>
    BY DEF LateEffect
<1>3. /\ op' \in [Owners -> [at : Places, gen : {0} \union Gens, stamp : Stamps]]
      /\ \A p \in Owners : op'[p] \in {op[p], Idle}
    BY <1>0, <1>2 DEF Busy
<1>4. behind' \subseteq {"inserting", "deleting"} \X Gens /\ unclosed' \subseteq Gens
    BY <1>0, <1>1, <1>2 DEF TypeOK, LateEffect
<1>5. CASE e[1] = "inserting"
  <2>1. registered' = IF registered = 0 THEN g ELSE registered
    BY <1>1, <1>5 DEF LateEffect, Inserted
  <2>2. /\ g <= lastGen /\ source[g] = <<>>
        /\ \A p \in Owners : lease[p].gen # g /\ op'[p].gen # g
    BY <1>0, <1>1, <1>2, <1>5 DEF Pending
  <2>3. Pending'
    <3> SUFFICES ASSUME NEW h \in Gens, <<"inserting", h>> \in behind, h # g
                 PROVE  /\ h <= lastGen /\ h # registered' /\ source[h] = <<>>
                        /\ \A p \in Owners : lease[p].gen # h /\ op[p].gen # h
      BY <1>1, <1>2, <1>5 DEF Pending
    <3>1. /\ h <= lastGen /\ h # registered /\ source[h] = <<>>
          /\ \A p \in Owners : lease[p].gen # h /\ op[p].gen # h
      BY <1>0 DEF Pending
    <3> QED BY <2>1, <3>1
  <2>4. \/ registered' \in {0, registered}
        \/ /\ registered' \in Gens /\ registered' <= lastGen /\ source[registered'] = <<>>
           /\ \A p \in Owners : lease[p].gen # registered' /\ op'[p].gen # registered'
    BY <2>1, <2>2
  <2> QED BY <1>2, <1>3, <1>4, <2>3, <2>4, RequestLInv
<1>6. CASE e[1] # "inserting"
  <2>1. registered' \in {0, registered}
    BY <1>6 DEF LateEffect, Deleted
  <2>2. Pending'
    <3> SUFFICES ASSUME NEW h \in Gens, <<"inserting", h>> \in behind
                 PROVE  /\ h <= lastGen /\ h # registered' /\ source[h] = <<>>
                        /\ \A p \in Owners : lease[p].gen # h /\ op[p].gen # h
      BY <1>2 DEF Pending
    <3>1. /\ h <= lastGen /\ h # registered /\ source[h] = <<>> /\ h # 0
          /\ \A p \in Owners : lease[p].gen # h /\ op[p].gen # h
      BY <1>0, GensPositive DEF Pending
    <3> QED BY <2>1, <3>1
  <2> QED BY <1>2, <1>3, <1>4, <2>1, <2>2, RequestLInv
<1> QED BY <1>5, <1>6

(* A grant adds a token and the owner whose it is. *)
LEMMA GrantLInv ==
    ASSUME LInv, NEW o \in Owners, Grant(o)
    PROVE  LInv'
<1> USE DEF entryVars, worldVars
<1>0. /\ TypeOK /\ Known /\ Busy /\ Untouched /\ Pending
      /\ Straight /\ Matched /\ Capacity /\ Covered
      /\ 0 \in Stamps /\ Stamps \subseteq Nat
    BY Facts
<1>1. PICK g \in Gens, stamp \in Stamps : g = op[o].gen /\ stamp = op[o].stamp
    BY <1>0 DEF Busy, Grant, At
<1>2. /\ source' = [source EXCEPT ![g] = Append(source[g], stamp)]
      /\ lease' = [lease EXCEPT ![o] = [gen |-> g, stamp |-> stamp]]
      /\ op' = [op EXCEPT ![o] = Idle]
      /\ UNCHANGED <<closed, filter, polled, entryVars, worldVars, misfreed>>
      /\ Len(source[g]) < NumOwners
    BY <1>1 DEF Grant, Return
<1>3. /\ lease[o].gen = 0 /\ At(o, "acquiring")
      /\ source[g] \in Seq(Stamps)
      /\ \A p \in Owners : op'[p] = IF p = o THEN Idle ELSE op[p]
      /\ \A p \in Owners : lease'[p] = IF p = o THEN [gen |-> g, stamp |-> stamp] ELSE lease[p]
      /\ \A h \in Gens : source'[h] = IF h = g THEN Append(source[g], stamp) ELSE source[h]
    BY <1>0, <1>1, <1>2 DEF Straight, Grant, Busy, TypeOK
<1>4. TypeOK'
    BY <1>0, <1>1, <1>2, <1>3 DEF TypeOK
<1>15. Len(source'[g]) = Len(source[g]) + 1 /\ Len(source[g]) \in Nat
  <2>1. source'[g] = Append(source[g], stamp)
    BY <1>3
  <2>2. Len(Append(source[g], stamp)) = Len(source[g]) + 1 /\ Len(source[g]) \in Nat
    BY <1>3, AppendProperties, LenProperties
  <2> QED BY <2>1, <2>2
<1>5. Known'
  <2>1. g <= lastGen /\ 0 <= lastGen
    BY <1>0, <1>1, GensPositive DEF Known, TypeOK
  <2>2. \A h \in Gens : h > lastGen => h # g
    BY <1>0, <2>1, GensPositive DEF TypeOK
  <2> QED BY <1>0, <1>2, <1>3, <2>1, <2>2 DEF Known, Idle
<1>6. Busy'
    BY <1>0, <1>2, <1>3 DEF Busy, Places, At, Idle
<1>7. Untouched'
  <2> SUFFICES ASSUME NEW p \in Owners, op'[p].at = "inserting"
               PROVE  /\ op'[p].gen # registered /\ source'[op'[p].gen] = <<>>
                      /\ \A q \in Owners : lease'[q].gen # op'[p].gen
                      /\ \A q \in Owners \ {p} : op'[q].gen # op'[p].gen
    BY <1>2 DEF Untouched, At
  <2>1. /\ p # o /\ op'[p] = op[p] /\ At(p, "inserting")
        /\ op[p].gen \in Gens /\ op[p].gen # g
    BY <1>0, <1>1, <1>3 DEF At, Busy, Idle, Untouched
  <2> QED BY <1>0, <1>2, <1>3, <2>1, GensPositive DEF Untouched, Idle
<1>8. Straight'
    BY <1>0, <1>2, <1>3 DEF Straight, At, Idle
<1>9. \A h \in Gens : HasTTL(h)' = HasTTL(h)
    BY <1>2 DEF HasTTL
<1>10. \A h \in Gens : h # g => HoldersOf(h)' = HoldersOf(h)
    BY <1>2, <1>3, GensPositive DEF HoldersOf, Expired, HasTTL
<1>11. /\ o \notin HoldersOf(g)
       /\ HoldersOf(g)' \subseteq HoldersOf(g) \cup {o}
       /\ ~HasTTL(g) => HoldersOf(g)' = HoldersOf(g) \cup {o}
    BY <1>2, <1>3, GensPositive DEF HoldersOf, Expired, HasTTL
<1>12. Matched'
  <2> SUFFICES ASSUME ~misfreed, NEW h \in Gens, registered = h, ~HasTTL(h)
               PROVE  /\ IsFiniteSet(HoldersOf(h)')
                      /\ Len(source'[h]) = Cardinality(HoldersOf(h)')
    BY <1>2, <1>9 DEF Matched
  <2>1. IsFiniteSet(HoldersOf(h)) /\ Len(source[h]) = Cardinality(HoldersOf(h))
    BY <1>0 DEF Matched
  <2>2. CASE h = g
    <3>1. IsFiniteSet(HoldersOf(g) \cup {o})
          /\ Cardinality(HoldersOf(g) \cup {o}) = Cardinality(HoldersOf(g)) + 1
      BY <1>11, <2>1, <2>2, FS_AddElement
    <3> QED BY <1>11, <1>15, <2>1, <2>2, <3>1
  <2>3. CASE h # g
    BY <1>3, <1>10, <2>1, <2>3
  <2> QED BY <2>2, <2>3
<1>13. Capacity'
  <2>1. Len(source'[g]) <= NumOwners
    BY <1>2, <1>15, LeaseAssumption
  <2> QED BY <1>0, <1>2, <1>3, <2>1 DEF Capacity
<1>14. Covered'
  <2> SUFFICES ASSUME ~scopeDone, NEW h \in Gens, HasTTL(h)
               PROVE  Covers(HoldersOf(h), StampOf, Tokens(h))'
    BY <1>2, <1>9 DEF Covered
  <2>1. CASE h = g
    <3>1. Covers(HoldersOf(g), StampOf, Tokens(g)) /\ Tokens(g) \in Seq(Nat)
      BY <1>0, <2>1, Facts DEF Covered
    <3>2. StampOf'[o] = stamp /\ \A p \in HoldersOf(g) : StampOf'[p] = StampOf[p]
      BY <1>3, <1>11 DEF StampOf, HoldersOf
    <3>3. Tokens(g)' = Append(Tokens(g), stamp)
      <4>1. polled[g] \in Seq(Nat) /\ source[g] \in Seq(Nat) /\ stamp \in Nat
        BY <1>0, <1>3, SeqMonotonic DEF TypeOK
      <4>2. Tokens(g)' = polled[g] \o Append(source[g], stamp)
        BY <1>2, <1>3 DEF Tokens
      <4>3. PICK s \in Seq(Nat), t \in Seq(Nat) : s = polled[g] /\ t = source[g]
        BY <4>1
      <4>4. s \o Append(t, stamp) = Append(s \o t, stamp)
        <5>1. stamp \in Nat
          BY <4>1
        <5> QED BY <5>1, ConcatAppend, SMTT(40)
      <4> QED BY <4>2, <4>3, <4>4 DEF Tokens
    <3>4. Covers(HoldersOf(g) \cup {o}, StampOf', Tokens(g)')
      <4>1. StampOf'[o] \in Nat /\ Tokens(g)' = Append(Tokens(g), StampOf'[o])
        BY <1>0, <3>2, <3>3
      <4>2. Covers(HoldersOf(g) \cup {o}, StampOf', Append(Tokens(g), StampOf'[o]))
        BY <1>11, <3>1, <3>2, <4>1, CoversGrant
      <4> QED BY <4>1, <4>2
    <3>5. Covers(HoldersOf(g)', StampOf', Tokens(g)')
      BY <1>11, <3>4, CoversFewer
    <3> QED BY <2>1, <3>5 DEF Covers
  <2>2. CASE h # g
    <3>1. \A p \in HoldersOf(h) : lease'[p] = lease[p]
      BY <1>3, GensPositive DEF HoldersOf
    <3> QED BY <1>0, <1>2, <1>3, <1>10, <2>2, <3>1, CoveredFewer DEF Covered
  <2> QED BY <2>1, <2>2
<1>16. Pending'
    BY <1>0, <1>1, <1>2, <1>3, PendingKeeps DEF Idle
<1> QED BY <1>4, <1>5, <1>6, <1>7, <1>8, <1>12, <1>13, <1>14, <1>16 DEF LInv

(* An owner gives a lease up without a token moving.  That is sound for    *)
(* the count unless the lease is of the registered pair, without expiry.   *)
LEMMA DropLInv ==
    ASSUME LInv, NEW o \in Owners, NEW r \in {Idle, op[o]}, r.at = "idle",
           op' = [op EXCEPT ![o] = r],
           lease' = [lease EXCEPT ![o] = NoLease],
           misfreed \/ registered = 0 \/ HasTTL(lease[o].gen) \/ lease[o].gen # registered,
           UNCHANGED <<pairVars, entryVars, worldVars, misfreed>>
    PROVE  LInv'
<1> USE DEF pairVars, entryVars, worldVars
<1>0. /\ TypeOK /\ Known /\ Busy /\ Untouched /\ Pending
      /\ Straight /\ Matched /\ Capacity /\ Covered
      /\ 0 \in Stamps /\ lastGen \in Nat
    BY Facts
<1>1. /\ \A p \in Owners : op'[p] = IF p = o THEN r ELSE op[p]
      /\ \A p \in Owners : lease'[p] = IF p = o THEN NoLease ELSE lease[p]
      /\ r \in [at : Places, gen : {0} \union Gens, stamp : Stamps]
      /\ r.gen = 0 \/ r.gen = op[o].gen
    BY <1>0 DEF Busy, TypeOK, Idle, Places
<1>2. TypeOK'
    BY <1>0, <1>1 DEF TypeOK, NoLease
<1>3. Known'
    BY <1>0, <1>1 DEF Known, NoLease
<1>4. Busy'
    BY <1>0, <1>1 DEF Busy, At
<1>5. Untouched'
  <2> SUFFICES ASSUME NEW p \in Owners, op'[p].at = "inserting"
               PROVE  /\ op'[p].gen # registered /\ source[op'[p].gen] = <<>>
                      /\ \A q \in Owners : lease'[q].gen # op'[p].gen
                      /\ \A q \in Owners \ {p} : op'[q].gen # op'[p].gen
    BY DEF Untouched, At
  <2>1. p # o /\ op'[p] = op[p] /\ At(p, "inserting") /\ op[p].gen # 0
    BY <1>0, <1>1 DEF At, Busy
  <2> QED BY <1>0, <1>1, <2>1 DEF Untouched, NoLease
<1>6. Straight'
    BY <1>0, <1>1 DEF Straight, At, NoLease
<1>7. \A g \in Gens : HasTTL(g)' = HasTTL(g)
    BY DEF HasTTL
<1>8. Matched'
  <2> SUFFICES ASSUME ~misfreed, NEW g \in Gens, registered = g, ~HasTTL(g)
               PROVE  IsFiniteSet(HoldersOf(g)') /\ Len(source[g]) = Cardinality(HoldersOf(g)')
    BY <1>7 DEF Matched
  <2>1. lease[o].gen # g
    BY GensPositive
  <2>2. HoldersOf(g)' = HoldersOf(g)
    BY <1>1, <2>1, GensPositive DEF HoldersOf, Expired, HasTTL, NoLease
  <2> QED BY <1>0, <2>2 DEF Matched
<1>9. Capacity'
    BY <1>0 DEF Capacity
<1>10. Covered'
  <2> SUFFICES ASSUME ~scopeDone, NEW g \in Gens, HasTTL(g)
               PROVE  Covers(HoldersOf(g), StampOf, Tokens(g))'
    BY <1>7 DEF Covered
  <2>1. \A p \in HoldersOf(g)' : p \in HoldersOf(g) /\ lease'[p] = lease[p]
    BY <1>1, GensPositive DEF HoldersOf, Expired, HasTTL, NoLease
  <2> QED BY <1>0, <2>1, CoveredFewer DEF Covered
<1>11. Pending'
    BY <1>0, <1>1, PendingKeeps DEF NoLease
<1> QED BY <1>2, <1>3, <1>4, <1>5, <1>6, <1>8, <1>9, <1>10, <1>11 DEF LInv

LEMMA DropsLInv ==
    ASSUME LInv, NEW o \in Owners,
           (Release(o) /\ registered = 0) \/ ReleaseDefault(o) \/ Lapse(o)
    PROVE  LInv'
<1>0. /\ TypeOK /\ Busy /\ Straight /\ Matched
    BY Facts
<1>1. CASE Release(o) /\ registered = 0
  <2>1. op' = [op EXCEPT ![o] = op[o]] /\ op[o].at = "idle"
    BY <1>0, <1>1 DEF Release, Busy, At
  <2> QED BY <1>1, <2>1, DropLInv DEF Release
<1>2. CASE Lapse(o)
  <2>1. op' = [op EXCEPT ![o] = op[o]] /\ op[o].at = "idle"
    BY <1>0, <1>2 DEF Lapse, Busy, At
  <2> QED BY <1>2, <2>1, DropLInv DEF Lapse, Expired
<1>3. CASE ReleaseDefault(o)
  <2>1. /\ op' = [op EXCEPT ![o] = Idle] /\ Idle.at = "idle"
        /\ lease' = [lease EXCEPT ![o] = NoLease]
        /\ UNCHANGED <<pairVars, entryVars, worldVars, misfreed>>
    BY <1>3 DEF ReleaseDefault, Return, Idle
  <2>2. misfreed \/ registered = 0 \/ HasTTL(lease[o].gen) \/ lease[o].gen # registered
    <3> SUFFICES ASSUME ~misfreed, NEW g \in Gens, registered = g, lease[o].gen = g, ~HasTTL(g)
                 PROVE  FALSE
      BY <1>0 DEF TypeOK
    <3>1. op[o].gen = g
      BY <1>0, <1>3 DEF Straight, ReleaseDefault
    <3>2. source[g] = <<>>
      BY <1>3, <3>1 DEF ReleaseDefault
    <3>3. IsFiniteSet(HoldersOf(g)) /\ Cardinality(HoldersOf(g)) = 0
      BY <1>0, <3>2 DEF Matched
    <3>4. o \in HoldersOf(g)
      BY DEF HoldersOf, Expired
    <3> QED BY <3>3, <3>4, FS_EmptySet
  <2> QED BY <2>1, <2>2, DropLInv
<1> QED BY <1>1, <1>2, <1>3

(* A release without expiry takes a token, and the holder it belongs to. *)
LEMMA TakesLInv ==
    ASSUME LInv, NEW o \in Owners, ReleaseTakes(o)
    PROVE  LInv'
<1> USE DEF entryVars, worldVars
<1>0. /\ TypeOK /\ Known /\ Busy /\ Untouched /\ Pending
      /\ Straight /\ Matched /\ Capacity /\ Covered
      /\ 0 \in Stamps /\ lastGen \in Nat
    BY Facts
<1>1. PICK g \in Gens : g = op[o].gen
    BY <1>0 DEF Busy, ReleaseTakes, At
<1>2. /\ source' = [source EXCEPT ![g] = Tail(source[g])]
      /\ lease' = [lease EXCEPT ![o] = NoLease]
      /\ op' = [op EXCEPT ![o] = Idle]
      /\ misfreed' = (misfreed \/ lease[o].gen # g)
      /\ UNCHANGED <<closed, filter, polled, entryVars, worldVars>>
      /\ ~HasTTL(g) /\ source[g] # <<>>
    BY <1>1 DEF ReleaseTakes, Return
<1>3. /\ source[g] \in Seq(Stamps)
      /\ \A p \in Owners : op'[p] = IF p = o THEN Idle ELSE op[p]
      /\ \A p \in Owners : lease'[p] = IF p = o THEN NoLease ELSE lease[p]
      /\ \A h \in Gens : source'[h] = IF h = g THEN Tail(source[g]) ELSE source[h]
    BY <1>0, <1>2 DEF Busy, TypeOK
<1>4. /\ Tail(source[g]) \in Seq(Stamps)
      /\ Len(Tail(source[g])) = Len(source[g]) - 1 /\ Len(source[g]) \in Nat \ {0}
    BY <1>2, <1>3, HeadTailProperties, EmptySeq
<1>5. TypeOK'
    BY <1>0, <1>1, <1>2, <1>4 DEF TypeOK, NoLease
<1>6. Known'
  <2>1. \A h \in Gens : h > lastGen => h # g
    BY <1>0, <1>2 DEF Known
  <2> QED BY <1>0, <1>2, <1>3, <2>1 DEF Known, Idle, NoLease
<1>7. Busy'
    BY <1>0, <1>2, <1>3 DEF Busy, Places, At, Idle
<1>8. Untouched'
  <2> SUFFICES ASSUME NEW p \in Owners, op'[p].at = "inserting"
               PROVE  /\ op'[p].gen # registered /\ source'[op'[p].gen] = <<>>
                      /\ \A q \in Owners : lease'[q].gen # op'[p].gen
                      /\ \A q \in Owners \ {p} : op'[q].gen # op'[p].gen
    BY <1>2 DEF Untouched, At
  <2>1. /\ p # o /\ op'[p] = op[p] /\ At(p, "inserting")
        /\ op[p].gen \in Gens /\ op[p].gen # g
    BY <1>0, <1>1, <1>3 DEF At, Busy, Idle, Untouched
  <2> QED BY <1>0, <1>2, <1>3, <2>1, GensPositive DEF Untouched, Idle, NoLease
<1>9. Straight'
    BY <1>0, <1>2, <1>3 DEF Straight, At, Idle, NoLease
<1>10. \A h \in Gens : HasTTL(h)' = HasTTL(h)
    BY <1>2 DEF HasTTL
<1>11. Matched'
  <2> SUFFICES ASSUME ~misfreed', NEW h \in Gens, registered = h, ~HasTTL(h)
               PROVE  IsFiniteSet(HoldersOf(h)') /\ Len(source'[h]) = Cardinality(HoldersOf(h)')
    BY <1>2, <1>10 DEF Matched
  <2>1. ~misfreed /\ lease[o].gen = g
    BY <1>2
  <2>2. IsFiniteSet(HoldersOf(h)) /\ Len(source[h]) = Cardinality(HoldersOf(h))
    BY <1>0, <2>1 DEF Matched
  <2>3. CASE h = g
    <3>1. o \in HoldersOf(h) /\ HoldersOf(h)' = HoldersOf(h) \ {o}
      BY <1>2, <1>3, <2>1, <2>3, GensPositive DEF HoldersOf, Expired, HasTTL, NoLease
    <3>2. IsFiniteSet(HoldersOf(h) \ {o})
          /\ Cardinality(HoldersOf(h) \ {o}) = Cardinality(HoldersOf(h)) - 1
      BY <2>2, <3>1, FS_RemoveElement
    <3> QED BY <1>3, <1>4, <2>2, <2>3, <3>1, <3>2
  <2>4. CASE h # g
    <3>1. HoldersOf(h)' = HoldersOf(h)
      BY <1>2, <1>3, <2>1, <2>4, GensPositive DEF HoldersOf, Expired, HasTTL, NoLease
    <3> QED BY <1>3, <2>2, <2>4, <3>1
  <2> QED BY <2>3, <2>4
<1>12. Capacity'
  <2>1. Len(source'[g]) <= NumOwners
    <3>1. source'[g] = Tail(source[g]) /\ Len(source[g]) <= NumOwners
      BY <1>0, <1>3 DEF Capacity
    <3> QED BY <1>4, <3>1, LeaseAssumption
  <2> QED BY <1>0, <1>2, <1>3, <2>1 DEF Capacity
<1>13. Covered'
  <2> SUFFICES ASSUME ~scopeDone, NEW h \in Gens, HasTTL(h)
               PROVE  Covers(HoldersOf(h), StampOf, Tokens(h))'
    BY <1>2, <1>10 DEF Covered
  <2>1. h # g
    BY <1>2
  <2>2. \A p \in HoldersOf(h)' : p \in HoldersOf(h) /\ lease'[p] = lease[p]
    BY <1>2, <1>3, GensPositive DEF HoldersOf, Expired, HasTTL, NoLease
  <2> QED BY <1>0, <1>2, <1>3, <2>1, <2>2, CoveredFewer DEF Covered
<1>14. Pending'
  <2>1. \A h \in Gens : source[h] = <<>> => source'[h] = <<>>
    BY <1>2, <1>3
  <2>2. \A p \in Owners : /\ op'[p].gen \in {0, op[p].gen}
                          /\ lease'[p].gen \in {0, lease[p].gen}
    BY <1>3 DEF Idle, NoLease
  <2> QED BY <1>0, <1>2, <2>1, <2>2, PendingKeeps
<1> QED BY <1>5, <1>6, <1>7, <1>8, <1>9, <1>11, <1>12, <1>13, <1>14 DEF LInv

(* A deregistration empties the entry before it closes the source. *)
LEMMA DeregisterLInv ==
    ASSUME LInv, NEW o \in Owners, CompareAndDelete(o) \/ Close(o)
    PROVE  LInv'
<1> USE DEF pairVars, entryVars, worldVars
<1>0. /\ TypeOK /\ Known /\ Busy /\ Untouched /\ Pending
      /\ Straight /\ Matched /\ Capacity /\ Covered
      /\ 0 \in Stamps /\ lastGen \in Nat /\ op[o].gen \in Gens
    BY Facts DEF Busy, CompareAndDelete, Close, At
<1>1. PICK r \in [at : Places \ {"inserting", "acquiring", "releasing"},
                  gen : {0} \union Gens, stamp : Stamps] :
        /\ op' = [op EXCEPT ![o] = r]
        /\ r.gen = 0 \/ r.gen = op[o].gen
        /\ r.at # "idle" => r.gen # 0
  <2>1. CASE op' = [op EXCEPT ![o] = Idle]
    <3>1. Idle \in [at : Places \ {"inserting", "acquiring", "releasing"},
                    gen : {0} \union Gens, stamp : Stamps]
      BY <1>0 DEF Idle, Places
    <3> QED BY <2>1, <3>1 DEF Idle
  <2>2. CASE op' = [op EXCEPT ![o].at = "closing"]
    <3> DEFINE s == [op[o] EXCEPT !.at = "closing"]
    <3>1. op[o] \in [at : Places, gen : {0} \union Gens, stamp : Stamps]
      BY <1>0 DEF Busy
    <3>2. /\ s \in [at : Places \ {"inserting", "acquiring", "releasing"},
                    gen : {0} \union Gens, stamp : Stamps]
          /\ s.gen = op[o].gen
      BY <3>1 DEF Places
    <3>3. op' = [op EXCEPT ![o] = s] /\ s.gen # 0
      BY <1>0, <2>2, <3>2, GensPositive DEF Busy
    <3> QED BY <3>2, <3>3
  <2> QED BY <2>1, <2>2 DEF CompareAndDelete, Close, Return
<1>2. /\ registered' \in {0, registered}
      /\ closed' \in [Gens -> BOOLEAN]
      /\ UNCHANGED <<source, filter, polled, lastGen, behind, unclosed, worldVars, lease,
                     misfreed>>
    BY <1>0 DEF CompareAndDelete, Close, Deleted, TypeOK
<1>3. \A p \in Owners : op'[p] = IF p = o THEN r ELSE op[p]
    BY <1>0, <1>1 DEF Busy
<1>4. TypeOK'
    BY <1>0, <1>2 DEF TypeOK
<1>5. Known'
    BY <1>0, <1>1, <1>2, <1>3 DEF Known
<1>6. Busy'
    BY <1>0, <1>1, <1>3 DEF Busy, At
<1>7. Untouched'
  <2> SUFFICES ASSUME NEW p \in Owners, op'[p].at = "inserting"
               PROVE  /\ op'[p].gen # registered' /\ source[op'[p].gen] = <<>>
                      /\ \A q \in Owners : lease[q].gen # op'[p].gen
                      /\ \A q \in Owners \ {p} : op'[q].gen # op'[p].gen
    BY <1>2 DEF Untouched, At
  <2>1. p # o /\ op'[p] = op[p] /\ At(p, "inserting") /\ op[p].gen # 0
    BY <1>0, <1>1, <1>3 DEF At, Busy
  <2> QED BY <1>0, <1>1, <1>2, <1>3, <2>1 DEF Untouched
<1>8. Straight'
  <2> SUFFICES ASSUME NEW p \in Owners
               PROVE  /\ op'[p].at = "acquiring" => lease[p].gen = 0
                      /\ op'[p].at = "releasing" =>
                            /\ lease[p].gen # 0
                            /\ lease[p].gen = registered' => op'[p].gen = registered'
    BY <1>2 DEF Straight, At
  <2>1. CASE p = o
    BY <1>1, <1>3, <2>1
  <2>2. CASE p # o
    <3>1. op'[p] = op[p]
      BY <1>3, <2>2
    <3> QED BY <1>0, <1>2, <3>1 DEF Straight, At
  <2> QED BY <2>1, <2>2
<1>9. \A g \in Gens : HoldersOf(g)' = HoldersOf(g) /\ HasTTL(g)' = HasTTL(g)
    BY <1>2 DEF HoldersOf, Expired, HasTTL
<1>10. Matched'
    BY <1>0, <1>2, <1>9, GensPositive DEF Matched
<1>11. Capacity'
    BY <1>0, <1>2 DEF Capacity
<1>12. Covered'
    BY <1>0, <1>2, <1>9, CoveredFewer DEF Covered
<1>13. Pending'
    BY <1>0, <1>1, <1>2, <1>3, PendingKeeps DEF CompareAndDelete, Close, Deleted
<1> QED BY <1>4, <1>5, <1>6, <1>7, <1>8, <1>10, <1>11, <1>12, <1>13 DEF LInv

(* The filter moves the oldest token into its hand; it drops only a token  *)
(* that is over, which is no holder's; it ends when none is left.          *)
LEMMA FilterLInv ==
    ASSUME LInv, NEW g \in Gens, FilterStep(g)
    PROVE  LInv'
<1> USE DEF entryVars, worldVars
<1>0. /\ TypeOK /\ Known /\ Busy /\ Untouched /\ Pending
      /\ Straight /\ Matched /\ Capacity /\ Covered
      /\ Stamps \subseteq Nat
      /\ polled[g] \in Seq(Stamps) /\ source[g] \in Seq(Stamps)
    BY Facts DEF TypeOK
<1>1. UNCHANGED <<closed, entryVars, worldVars, op, lease, misfreed>>
    BY DEF FilterStep, FilterTake, FilterDrop, FilterEnds
<1>2. CASE FilterTake(g)
  <2>1. /\ polled[g] = <<>> /\ source[g] # <<>> /\ HasTTL(g) /\ filter' = filter
        /\ polled' = [polled EXCEPT ![g] = <<Head(source[g])>>]
        /\ source' = [source EXCEPT ![g] = Tail(source[g])]
    BY <1>2 DEF FilterTake, HasTTL
  <2>2. /\ Head(source[g]) \in Stamps /\ Tail(source[g]) \in Seq(Stamps)
        /\ Len(Tail(source[g])) = Len(source[g]) - 1 /\ Len(source[g]) \in Nat
    BY <1>0, <2>1, HeadTailProperties, LenProperties
  <2>3. /\ \A h \in Gens : source'[h] = IF h = g THEN Tail(source[g]) ELSE source[h]
        /\ \A h \in Gens : polled'[h] = IF h = g THEN <<Head(source[g])>> ELSE polled[h]
    BY <1>0, <2>1 DEF TypeOK
  <2>4. TypeOK'
    BY <1>0, <1>1, <2>1, <2>2 DEF TypeOK
  <2>5. Known' /\ Busy' /\ Straight'
    BY <1>0, <1>1, <2>1, <2>3 DEF Known, Busy, Straight, At, HasTTL
  <2>6. Untouched'
    <3> SUFFICES ASSUME NEW p \in Owners, At(p, "inserting")
                 PROVE  source'[op[p].gen] = <<>>
      BY <1>0, <1>1 DEF Untouched, At
    <3>1. op[p].gen \in Gens /\ op[p].gen # g /\ source[op[p].gen] = <<>>
      BY <1>0, <2>1 DEF Untouched, Busy, At
    <3> QED BY <2>3, <3>1
  <2>7. \A h \in Gens : HoldersOf(h)' = HoldersOf(h) /\ HasTTL(h)' = HasTTL(h)
    BY <1>1, <2>1 DEF HoldersOf, Expired, HasTTL
  <2>8. Matched'
    BY <1>0, <1>1, <2>1, <2>3, <2>7 DEF Matched
  <2>9. Capacity'
    <3>1. Len(<<Head(source[g])>>) = 1
      OBVIOUS
    <3>2. Len(Tail(source[g])) <= NumOwners
      BY <1>0, <2>2, LeaseAssumption DEF Capacity
    <3>3. Len(source'[g]) <= NumOwners /\ Len(polled'[g]) <= 1
      <4>1. source'[g] = Tail(source[g]) /\ polled'[g] = <<Head(source[g])>>
        BY <2>3
      <4> QED BY <3>1, <3>2, <4>1
    <3> QED BY <1>0, <2>3, <3>3 DEF Capacity
  <2>10. Tokens(g)' = Tokens(g)
    <3>1. PICK s \in Seq(Stamps) : s = source[g]
      BY <1>0
    <3>2. <<Head(s)>> \o Tail(s) = s /\ <<>> \o s = s
      <4>1. SubSeq(s, 1, Len(s)) = s /\ Tail(s) = SubSeq(s, 2, Len(s)) /\ Len(s) \in Nat \ {0}
        BY <2>1, <3>1, SubSeqFull, TailIsSubSeq, EmptySeq
      <4>2. SubSeq(s, 1, Len(s)) = <<s[1]>> \o SubSeq(s, 2, Len(s))
        BY <4>1, SubSeqRecursiveFirst
      <4> QED BY <3>1, <4>1, <4>2, ConcatEmptySeq
    <3> QED BY <2>1, <2>3, <3>1, <3>2 DEF Tokens
  <2>11. Covered'
    <3> SUFFICES ASSUME ~scopeDone, NEW h \in Gens, HasTTL(h)
                 PROVE  Covers(HoldersOf(h), StampOf, Tokens(h))'
      BY <1>1, <2>7 DEF Covered
    <3>1. Covers(HoldersOf(h), StampOf, Tokens(h))
      BY <1>0 DEF Covered
    <3>2. Tokens(h)' = Tokens(h) /\ HoldersOf(h)' = HoldersOf(h) /\ StampOf' = StampOf
      BY <1>1, <2>3, <2>7, <2>10 DEF Tokens, StampOf
    <3>3. Covers(HoldersOf(h)', StampOf', Tokens(h)')
      BY <3>1, <3>2
    <3> QED BY <3>3 DEF Covers
  <2>12. Pending'
    BY <1>0, <1>1, <2>1, <2>3, PendingKeeps
  <2> QED BY <2>4, <2>5, <2>6, <2>8, <2>9, <2>11, <2>12 DEF LInv
<1>3. CASE FilterDrop(g)
  <2>1. /\ polled[g] # <<>> /\ UNCHANGED <<filter, source>>
        /\ Expired(g, polled[g][1]) \/ scopeDone
        /\ polled' = [polled EXCEPT ![g] = <<>>]
    BY <1>3 DEF FilterDrop
  <2>2. \A h \in Gens : polled'[h] = IF h = g THEN <<>> ELSE polled[h]
    BY <1>0, <2>1 DEF TypeOK
  <2>3. TypeOK'
    BY <1>0, <1>1, <2>1, EmptySeq DEF TypeOK
  <2>4. Known' /\ Busy' /\ Straight' /\ Untouched'
    BY <1>0, <1>1, <2>1 DEF Known, Busy, Straight, Untouched, At
  <2>5. \A h \in Gens : HoldersOf(h)' = HoldersOf(h) /\ HasTTL(h)' = HasTTL(h)
    BY <1>1, <2>1 DEF HoldersOf, Expired, HasTTL
  <2>6. Matched'
    BY <1>0, <1>1, <2>1, <2>5 DEF Matched
  <2>7. Capacity'
    BY <1>0, <2>1, <2>2 DEF Capacity
  <2>8. Covered'
    <3> SUFFICES ASSUME ~scopeDone, NEW h \in Gens, HasTTL(h)
                 PROVE  Covers(HoldersOf(h), StampOf, Tokens(h))'
      BY <1>1, <2>5 DEF Covered
    <3>1. Covers(HoldersOf(h), StampOf, Tokens(h)) /\ Tokens(h) \in Seq(Nat)
      BY <1>0, Facts DEF Covered
    <3>2. HoldersOf(h)' = HoldersOf(h) /\ StampOf' = StampOf
      BY <1>1, <2>5 DEF StampOf
    <3>3. CASE h = g
      <4>1. Len(polled[g]) \in Nat \ {0} /\ Len(polled[g]) <= 1
        BY <1>0, <2>1, EmptySeq DEF Capacity
      <4>2. PICK s \in Seq(Nat), t \in Seq(Nat) : s = polled[g] /\ t = source[g]
        BY <1>0, SeqMonotonic
      <4>3. Tokens(g) = s \o t /\ Tokens(g)' = t
        BY <2>1, <2>2, <4>2, ConcatEmptySeq DEF Tokens
      <4>4. Len(s) = 1
        <5>1. PICK n \in Nat : n = Len(polled[g]) /\ n # 0 /\ n <= 1
          BY <4>1
        <5>2. n = 1
          <6>1. n > 0
            BY <5>1
          <6>2. n <= 1 /\ n \in Int
            BY <5>1
          <6> QED BY <6>1, <6>2
        <5> QED BY <4>2, <5>1, <5>2
      <4>5. /\ s \o t \in Seq(Nat) /\ s \o t # <<>> /\ Head(s \o t) = s[1]
            /\ Tail(s \o t) = t
        <5> DEFINE u == s \o t
        <5>1. /\ u \in Seq(Nat) /\ Len(u) = Len(s) + Len(t)
              /\ \A i \in 1..Len(s) + Len(t) : u[i] = IF i <= Len(s) THEN s[i] ELSE t[i - Len(s)]
          BY ConcatProperties
        <5> HIDE DEF u
        <5>2. /\ u \in Seq(Nat) /\ Len(u) = 1 + Len(t) /\ Len(t) \in Nat
              /\ \A i \in 1..1 + Len(t) : u[i] = IF i <= 1 THEN s[1] ELSE t[i - 1]
          <6>1. Len(t) \in Nat
            BY LenProperties
          <6> QED BY <4>4, <5>1, <6>1
        <5>3. u # <<>> /\ Head(u) = s[1]
          BY <5>2
        <5>4. Tail(u) \in Seq(Nat) /\ Len(Tail(u)) = Len(t)
              /\ \A i \in 1..Len(Tail(u)) : Tail(u)[i] = u[i + 1]
          BY <5>2, <5>3, HeadTailProperties
        <5>5. \A i \in 1..Len(t) : Tail(u)[i] = t[i]
          BY <5>2, <5>4, SMTT(20)
        <5>6. Tail(u) = t
          BY <5>4, <5>5, SeqEqual
        <5> QED BY <5>2, <5>3, <5>6 DEF u
      <4>6. \A p \in HoldersOf(g) : StampOf[p] # s[1]
        BY <2>1, <4>2 DEF HoldersOf, StampOf
      <4>7. Covers(HoldersOf(g), StampOf, Tail(s \o t))
        BY <3>1, <3>3, <4>3, <4>5, <4>6, CoversDrop
      <4>8. Covers(HoldersOf(h)', StampOf', Tokens(h)')
        BY <3>2, <3>3, <4>3, <4>5, <4>7
      <4> QED BY <4>8 DEF Covers
    <3>4. CASE h # g
      BY <1>1, <2>1, <2>2, <3>1, <3>2, <3>4, CoveredFewer
    <3> QED BY <3>3, <3>4
  <2>9. Pending'
    BY <1>0, <1>1, <2>1, PendingKeeps
  <2> QED BY <2>3, <2>4, <2>6, <2>7, <2>8, <2>9 DEF LInv
<1>4. CASE FilterEnds(g)
  <2>1. filter' = [filter EXCEPT ![g] = "ended"] /\ UNCHANGED <<source, polled>> /\ HasTTL(g)
    BY <1>4 DEF FilterEnds, HasTTL
  <2>2. TypeOK'
    BY <1>0, <1>1, <2>1 DEF TypeOK
  <2>3. \A h \in Gens : HasTTL(h)' = HasTTL(h) /\ (filter[h] = "none" => filter'[h] = "none")
    BY <1>0, <2>1 DEF HasTTL, TypeOK
  <2>4. Known' /\ Busy' /\ Straight' /\ Untouched'
    BY <1>0, <1>1, <2>1, <2>3 DEF Known, Busy, Straight, Untouched, At
  <2>5. \A h \in Gens : HoldersOf(h)' = HoldersOf(h)
    <3> SUFFICES ASSUME NEW h \in Gens PROVE HoldersOf(h)' = HoldersOf(h)
      OBVIOUS
    <3> QED BY <1>1, <2>3 DEF HoldersOf, Expired
  <2>6. Matched' /\ Capacity'
    BY <1>0, <1>1, <2>1, <2>3, <2>5 DEF Matched, Capacity
  <2>7. Covered'
    BY <1>0, <1>1, <2>1, <2>3, <2>5, CoveredFewer DEF Covered
  <2>8. Pending'
    BY <1>0, <1>1, <2>1, PendingKeeps
  <2> QED BY <2>2, <2>4, <2>6, <2>7, <2>8 DEF LInv
<1> QED BY <1>2, <1>3, <1>4 DEF FilterStep

(* Time only takes holders away. *)
LEMMA WorldLInv ==
    ASSUME LInv, Tick \/ CancelScope
    PROVE  LInv'
<1> USE DEF pairVars, entryVars
<1>0. /\ TypeOK /\ Known /\ Busy /\ Untouched /\ Pending
      /\ Straight /\ Matched /\ Capacity /\ Covered
      /\ now \in Nat /\ Stamps \subseteq Nat
    BY Facts
<1>1. /\ UNCHANGED <<pairVars, entryVars, op, lease, setup, misfreed>>
      /\ now' \in Stamps /\ now' >= now /\ scopeDone' \in BOOLEAN
      /\ scopeDone => scopeDone'
  <2>1. CASE Tick
    <3>1. now + 1 \in 0..setup.ticks /\ setup \in Setups
      BY <1>0, <2>1, LeaseAssumption DEF Tick, TypeOK
    <3>2. now + 1 \in Stamps
      BY <3>1 DEF Stamps
    <3> QED BY <1>0, <2>1, <3>2 DEF Tick, TypeOK
  <2>2. CASE CancelScope
    BY <1>0, <2>2 DEF CancelScope, TypeOK
  <2> QED BY <2>1, <2>2
<1>2. TypeOK'
    BY <1>0, <1>1 DEF TypeOK
<1>3. Known' /\ Busy' /\ Straight' /\ Untouched' /\ Capacity'
    BY <1>0, <1>1 DEF Known, Busy, Straight, Untouched, At, Capacity
<1>4. \A g \in Gens : HasTTL(g)' = HasTTL(g)
    BY <1>1 DEF HasTTL
<1>5. ASSUME NEW g \in Gens
      PROVE  /\ HoldersOf(g)' \subseteq HoldersOf(g)
             /\ ~HasTTL(g) => HoldersOf(g)' = HoldersOf(g)
  <2>1. \A o \in Owners : Expired(g, lease[o].stamp) => Expired(g, lease[o].stamp)'
    <3> SUFFICES ASSUME NEW o \in Owners, filter[g] # "none", lease[o].stamp + TTL <= now
                 PROVE  lease[o].stamp + TTL <= now'
      BY <1>1 DEF Expired, HasTTL
    <3>1. lease[o].stamp \in Nat /\ now' \in Nat
      BY <1>0, <1>1 DEF TypeOK
    <3> QED BY <1>0, <1>1, <3>1, LeaseAssumption
  <2>2. HoldersOf(g)' = {o \in Owners : lease[o].gen = g /\ ~Expired(g, lease[o].stamp)'}
    BY <1>1 DEF HoldersOf, Expired
  <2>3. ~HasTTL(g) => \A o \in Owners : ~Expired(g, lease[o].stamp) /\ ~Expired(g, lease[o].stamp)'
    BY <1>4 DEF Expired
  <2> QED BY <2>1, <2>2, <2>3 DEF HoldersOf
<1>6. Matched'
    BY <1>0, <1>1, <1>4, <1>5 DEF Matched
<1>7. Covered'
  <2> SUFFICES ASSUME ~scopeDone, NEW g \in Gens, HasTTL(g)
               PROVE  Covers(HoldersOf(g), StampOf, Tokens(g))'
    BY <1>1, <1>4 DEF Covered
  <2> QED BY <1>0, <1>1, <1>5, CoveredFewer DEF Covered
<1>8. Pending'
    BY <1>0, <1>1, PendingKeeps
<1> QED BY <1>2, <1>3, <1>6, <1>7, <1>8 DEF LInv

LEMMA NextLInv == LInv /\ [Next]_vars => LInv'
<1> SUFFICES ASSUME LInv, [Next]_vars PROVE LInv'
    OBVIOUS
<1>1. ASSUME NEW o \in setup.owners, OwnerStep(o) PROVE LInv'
  <2>1. o \in Owners
    BY LeaseAssumption, Facts DEF TypeOK
  <2> QED BY <1>1, <2>1, RegisterLInv, InsertLInv, AbortsLInv, MovesLInv, GrantLInv,
             DropsLInv, TakesLInv, DeregisterLInv
          DEF OwnerStep, AcquireStep, ReleaseStep, DeregisterStep
<1>2. CASE \E g \in Gens : FilterStep(g)
    BY <1>2, FilterLInv
<1>3. CASE Tick \/ CancelScope
    BY <1>3, WorldLInv
<1>4. CASE \E e \in behind : LateEffect(e)
    BY <1>4, LateLInv
<1>5. CASE UNCHANGED vars
  <2>1. UNCHANGED <<pairVars, entryVars, worldVars, op, lease, misfreed>>
    BY <1>5 DEF vars
  <2>2. /\ TypeOK /\ Known /\ Busy /\ Untouched /\ Pending
        /\ Straight /\ Matched /\ Capacity /\ Covered
    BY Facts
  <2> USE DEF pairVars, entryVars, worldVars
  <2>3. TypeOK' /\ Known' /\ Busy' /\ Straight' /\ Untouched' /\ Pending' /\ Capacity'
    BY <2>1, <2>2 DEF TypeOK, Known, Busy, Straight, Untouched, Pending, At, Capacity
  <2>4. \A g \in Gens : HoldersOf(g)' = HoldersOf(g) /\ HasTTL(g)' = HasTTL(g)
    BY <2>1 DEF HoldersOf, Expired, HasTTL
  <2>5. Matched'
    BY <2>1, <2>2, <2>4 DEF Matched
  <2>6. Covered'
    BY <2>1, <2>2, <2>4, CoveredFewer DEF Covered
  <2> QED BY <2>3, <2>5, <2>6 DEF LInv
<1> QED BY <1>1, <1>2, <1>3, <1>4, <1>5 DEF Next

-----------------------------------------------------------------------------
(* The tokens in the sources account for the holders in every reachable     *)
(* state: the invariant behind the theorems below.                         *)
THEOREM LeaseInductive == Spec => []LInv
BY InitLInv, NextLInv, PTL DEF Spec

(* The variables of a lease keep their types.                              *)
THEOREM LeaseTypeCorrect == Spec => []TypeOK
<1>1. LInv => TypeOK
    BY DEF LInv
<1> QED BY <1>1, LeaseInductive, PTL

(* Without expiry the slots taken of the registered resource are those of  *)
(* its holders, for any number of owners, slots and registrations.         *)
THEOREM SlotsAreHolders == Spec => []SlotsMatchHolders
<1>1. LInv => SlotsMatchHolders
    BY DEF LInv, Matched, SlotsMatchHolders
<1> QED BY <1>1, LeaseInductive, PTL

(* With a TTL, whatever the order of grants, polls and expiries, there is  *)
(* at most one holder more than slots.                                     *)
THEOREM AtMostOneExtra == Spec => []OneExtraHolder
<1>1. LInv => OneExtraHolder
  <2> SUFFICES ASSUME LInv, ~scopeDone, NEW g \in Gens, HasTTL(g)
               PROVE  Cardinality(HoldersOf(g)) <= NumOwners + 1
    BY DEF OneExtraHolder
  <2>1. Covers(HoldersOf(g), StampOf, Tokens(g)) /\ Tokens(g) \in Seq(Nat)
    BY Facts DEF Covered
  <2>2. /\ polled[g] \in Seq(Stamps) /\ source[g] \in Seq(Stamps)
        /\ Len(source[g]) <= NumOwners /\ Len(polled[g]) <= 1
    BY Facts DEF TypeOK, Capacity
  <2>3. /\ Len(Tokens(g)) = Len(polled[g]) + Len(source[g])
        /\ Len(polled[g]) \in Nat /\ Len(source[g]) \in Nat
    BY <2>2, ConcatProperties, LenProperties DEF Tokens
  <2>4. Len(Tokens(g)) \in Nat /\ Len(Tokens(g)) <= NumOwners + 1
    <3>1. PICK m \in Nat, n \in Nat : m = Len(polled[g]) /\ n = Len(source[g])
      BY <2>3
    <3>2. m <= 1 /\ n <= NumOwners /\ Len(Tokens(g)) = m + n
      BY <2>2, <2>3, <3>1
    <3> QED BY <3>2, LeaseAssumption
  <2>5. /\ IsFiniteSet(HoldersOf(g)) /\ Cardinality(HoldersOf(g)) <= Len(Tokens(g))
    BY <2>1, <2>4, CoversBound
  <2>6. Cardinality(HoldersOf(g)) \in Nat
    BY <2>5, FS_CardinalityType
  <2> QED BY <2>4, <2>5, <2>6, LeaseAssumption
<1> QED BY <1>1, LeaseInductive, PTL
=============================================================================
