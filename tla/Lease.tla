------------------------------- MODULE Lease -------------------------------
(***************************************************************************)
(* The lease effect (effects/lease) for one key: a semaphore kept as a     *)
(* pair of channels in the state store.  A resource registered without     *)
(* expiry uses one buffered channel as both source and sink.  One with a   *)
(* TTL has a buffered source, an unbuffered sink, and between them the     *)
(* goroutine of stream.LazyFilterEffect, which polls: it holds one token   *)
(* until the token has expired or the sink takes it.                       *)
(*                                                                         *)
(* Each registration makes a new pair, here a generation g.  The state     *)
(* effects (load, insert if absent, compare and delete) are atomic steps   *)
(* on the entry of the key.  The context of a call may end at any time; an *)
(* insertion or a deletion that was sent takes effect all the same, late   *)
(* for the caller, who was told an error.  Owners release only what they   *)
(* acquired.                                                               *)
(* Bounds: per setup the owners that take part, how many registrations and *)
(* clock ticks there are, and how many requests may be left behind.        *)
(***************************************************************************)
EXTENDS Integers, Sequences, FiniteSets

CONSTANTS Owners, NumOwners, TTL,
    Setups      \* records: the owners that take part, bounds regs, ticks, late

ASSUME LeaseAssumption ==
    /\ NumOwners \in Nat \ {0} /\ TTL \in Nat \ {0}
    /\ IsFiniteSet(Setups)
    /\ Setups \subseteq [owners : SUBSET Owners, regs : Nat, ticks : Nat, late : Nat]

Gens == UNION {1..s.regs : s \in Setups}
Stamps == UNION {0..s.ticks : s \in Setups}

VARIABLES
    setup,      \* the bounds of this behaviour; never changes
    now,
    registered, \* the pair stored under the key, 0 if there is none
    lastGen,    \* how many pairs were made
    behind,     \* insertions and deletions whose callers are gone: <<place, pair>>
    unclosed,   \* history: pairs that were deleted with nobody left to close them
    source,     \* per pair, the stamps in the source channel
    closed,     \* per pair, whether the source is closed
    filter,     \* per pair, the lazy filter: "none" without a TTL, "running", "ended"
    polled,     \* the token the filter holds, as a sequence of length <= 1
    op,         \* per owner, the effect it is in the middle of
    lease,      \* per owner, the lease it believes it holds
    scopeDone,  \* the filter's own context has ended
    misfreed    \* history: a release took a token of another registration

pairVars == <<source, closed, filter, polled>>
entryVars == <<registered, lastGen, behind, unclosed>>
worldVars == <<setup, now, scopeDone>>
vars == <<pairVars, entryVars, worldVars, op, lease, misfreed>>

Idle == [at |-> "idle", gen |-> 0, stamp |-> 0]
NoLease == [gen |-> 0, stamp |-> 0]
At(o, place) == op[o].at = place
Holds(o) == lease[o].gen > 0
HasTTL(g) == filter[g] # "none"
Expired(g, stamp) == HasTTL(g) /\ stamp + TTL <= now

Init ==
    /\ setup \in Setups
    /\ now = 0
    /\ registered = 0 /\ lastGen = 0 /\ behind = {} /\ unclosed = {}
    /\ source = [g \in Gens |-> <<>>]
    /\ closed = [g \in Gens |-> FALSE]
    /\ filter = [g \in Gens |-> "none"]
    /\ polled = [g \in Gens |-> <<>>]
    /\ op = [o \in Owners |-> Idle]
    /\ lease = [o \in Owners |-> NoLease]
    /\ scopeDone = FALSE /\ misfreed = FALSE

Begin(o, place, g) ==
    op' = [op EXCEPT ![o] = [at |-> place, gen |-> g,
                             stamp |-> IF place = "acquiring" THEN now ELSE 0]]
Return(o) == op' = [op EXCEPT ![o] = Idle]

-----------------------------------------------------------------------------
(* Registration makes the pair and its filter before it knows whether the  *)
(* key is free; if it is not, the new filter is left running.              *)
Register(o) ==
    /\ At(o, "idle") /\ lastGen < setup.regs
    /\ lastGen' = lastGen + 1
    /\ \E kind \in {"none", "running"} : filter' = [filter EXCEPT ![lastGen + 1] = kind]
    /\ Begin(o, "inserting", lastGen + 1)
    /\ UNCHANGED <<source, closed, polled, registered, behind, unclosed, worldVars, lease,
                   misfreed>>

Inserted(g) == IF registered = 0 THEN g ELSE registered
Deleted(g) == IF registered = g THEN 0 ELSE registered

InsertIfAbsent(o) ==
    /\ At(o, "inserting")
    /\ registered' = Inserted(op[o].gen)
    /\ Return(o)
    /\ UNCHANGED <<pairVars, lastGen, behind, unclosed, worldVars, lease, misfreed>>

(* state.effect comes back with the error of the caller's context, before  *)
(* the request was sent or after: then it stays with the state's worker,   *)
(* or its answer is lost.                                                  *)
StateCallAborts(o) ==
    /\ At(o, "inserting") \/ At(o, "deleting")
    /\ behind' \in {behind, behind \union {<<op[o].at, op[o].gen>>}}
    /\ Cardinality(behind') <= setup.late
    /\ Return(o)
    /\ UNCHANGED <<pairVars, registered, lastGen, unclosed, worldVars, lease, misfreed>>

(* A deletion whose caller was told an error: res is false, and the        *)
(* deferred close(source) does nothing.                                    *)
LateEffect(e) ==
    /\ e \in behind /\ behind' = behind \ {e}
    /\ \/ e[1] = "inserting" /\ registered' = Inserted(e[2]) /\ UNCHANGED unclosed
       \/ /\ e[1] = "deleting" /\ registered' = Deleted(e[2])
          /\ unclosed' = IF registered = e[2] THEN unclosed \union {e[2]} ELSE unclosed
    /\ UNCHANGED <<pairVars, lastGen, worldVars, op, lease, misfreed>>

(* AcquisitionEffect: the stamp is taken as the select begins, not when it *)
(* sends.  (Bound: only leases that can expire within the bound.)            *)
Acquire(o) ==
    /\ At(o, "idle") /\ ~Holds(o) /\ registered # 0
    /\ HasTTL(registered) => now + TTL <= setup.ticks
    /\ Begin(o, "acquiring", registered)
    /\ UNCHANGED <<pairVars, entryVars, worldVars, lease, misfreed>>

Grant(o) ==
    LET g == op[o].gen IN
    /\ At(o, "acquiring") /\ ~closed[g] /\ Len(source[g]) < NumOwners
    /\ source' = [source EXCEPT ![g] = Append(@, op[o].stamp)]
    /\ lease' = [lease EXCEPT ![o] = [gen |-> g, stamp |-> op[o].stamp]]
    /\ Return(o)
    /\ UNCHANGED <<closed, filter, polled, entryVars, worldVars, misfreed>>

(* The context of a call may end at any moment; the next call may have     *)
(* another one.                                                            *)
AcquireAborts(o) ==
    /\ At(o, "acquiring")
    /\ Return(o)
    /\ UNCHANGED <<pairVars, entryVars, worldVars, lease, misfreed>>

(* A send on the source of a pair that was deregistered meanwhile. *)
AcquirePanics(o) ==
    /\ At(o, "acquiring") /\ closed[op[o].gen]
    /\ op' = [op EXCEPT ![o].at = "panicked"]
    /\ UNCHANGED <<pairVars, entryVars, worldVars, lease, misfreed>>

-----------------------------------------------------------------------------
(* ReleaseEffect loads whatever pair is registered now. *)
Release(o) ==
    /\ At(o, "idle") /\ Holds(o)
    /\ IF registered = 0
       THEN /\ lease' = [lease EXCEPT ![o] = NoLease]   \* ErrUnregisteredResource
            /\ UNCHANGED op
       ELSE /\ Begin(o, "releasing", registered)
            /\ UNCHANGED lease
    /\ UNCHANGED <<pairVars, entryVars, worldVars, misfreed>>

(* Without expiry the oldest token comes out of the shared channel.  With  *)
(* a TTL neither side ever parks: the release has a default case and the   *)
(* filter too, so the unbuffered sink hands nothing over.                  *)
ReleaseTakes(o) ==
    LET g == op[o].gen IN
    /\ At(o, "releasing") /\ ~HasTTL(g) /\ source[g] # <<>>
    /\ source' = [source EXCEPT ![g] = Tail(@)]
    /\ lease' = [lease EXCEPT ![o] = NoLease]
    /\ misfreed' = (misfreed \/ lease[o].gen # g)
    /\ Return(o)
    /\ UNCHANGED <<closed, filter, polled, entryVars, worldVars>>

(* Mutant: the default case is tried before the receive. *)
Bug_ReleaseDefault(o) ==
    /\ At(o, "releasing")
    /\ lease' = [lease EXCEPT ![o] = NoLease]
    /\ Return(o)
    /\ UNCHANGED <<pairVars, entryVars, worldVars, misfreed>>

(* The default case: (true, nil) with nothing released. *)
ReleaseDefault(o) ==
    /\ At(o, "releasing") /\ (HasTTL(op[o].gen) \/ source[op[o].gen] = <<>>)
    /\ lease' = [lease EXCEPT ![o] = NoLease]
    /\ Return(o)
    /\ UNCHANGED <<pairVars, entryVars, worldVars, misfreed>>

ReleaseAborts(o) ==
    /\ At(o, "releasing")
    /\ Return(o)
    /\ UNCHANGED <<pairVars, entryVars, worldVars, lease, misfreed>>

(* An owner stops relying on a lease when its TTL is over. *)
Lapse(o) ==
    /\ At(o, "idle") /\ Holds(o) /\ Expired(lease[o].gen, lease[o].stamp)
    /\ lease' = [lease EXCEPT ![o] = NoLease]
    /\ UNCHANGED <<pairVars, entryVars, worldVars, op, misfreed>>

-----------------------------------------------------------------------------
(* ResourceDeregistrationEffect: load, look at the length of the source,   *)
(* compare and delete, close: four steps with nothing to hold them.        *)
Deregister(o) ==
    /\ At(o, "idle") /\ ~Holds(o) /\ registered # 0
    /\ Begin(o, "checking", registered)
    /\ UNCHANGED <<pairVars, entryVars, worldVars, lease, misfreed>>

CheckUnused(o) ==
    /\ At(o, "checking")
    /\ IF source[op[o].gen] # <<>> THEN Return(o)       \* ErrResourceInUse
       ELSE op' = [op EXCEPT ![o].at = "deleting"]
    /\ UNCHANGED <<pairVars, entryVars, worldVars, lease, misfreed>>

CompareAndDelete(o) ==
    /\ At(o, "deleting")
    /\ registered' = Deleted(op[o].gen)
    /\ IF registered = op[o].gen THEN op' = [op EXCEPT ![o].at = "closing"] ELSE Return(o)
    /\ UNCHANGED <<pairVars, lastGen, behind, unclosed, worldVars, lease, misfreed>>

(* Mutant: the source of a deleted pair is left open. *)
Bug_Close(o) ==
    /\ At(o, "closing") /\ Return(o)
    /\ UNCHANGED <<pairVars, entryVars, worldVars, lease, misfreed>>

Close(o) ==
    /\ At(o, "closing")
    /\ closed' = [closed EXCEPT ![op[o].gen] = TRUE]
    /\ Return(o)
    /\ UNCHANGED <<source, filter, polled, entryVars, worldVars, lease, misfreed>>

-----------------------------------------------------------------------------
(* The lazy filter of a pair with a TTL. *)
FilterTake(g) ==
    /\ filter[g] = "running" /\ polled[g] = <<>> /\ source[g] # <<>>
    /\ polled' = [polled EXCEPT ![g] = <<Head(source[g])>>]
    /\ source' = [source EXCEPT ![g] = Tail(@)]
    /\ UNCHANGED <<closed, filter, entryVars, worldVars, op, lease, misfreed>>

(* Mutant: the predicate the wrong way round. *)
Bug_FilterDrop(g) ==
    /\ polled[g] # <<>> /\ ~Expired(g, polled[g][1])
    /\ polled' = [polled EXCEPT ![g] = <<>>]
    /\ UNCHANGED <<source, closed, filter, entryVars, worldVars, op, lease, misfreed>>

(* pollToProduce returns: the token expired, or the filter's context ended.*)
FilterDrop(g) ==
    /\ polled[g] # <<>> /\ (Expired(g, polled[g][1]) \/ scopeDone)
    /\ polled' = [polled EXCEPT ![g] = <<>>]
    /\ UNCHANGED <<source, closed, filter, entryVars, worldVars, op, lease, misfreed>>

FilterEnds(g) ==
    /\ filter[g] = "running" /\ polled[g] = <<>> /\ source[g] = <<>> /\ closed[g]
    /\ filter' = [filter EXCEPT ![g] = "ended"]
    /\ UNCHANGED <<source, closed, polled, entryVars, worldVars, op, lease, misfreed>>

-----------------------------------------------------------------------------
Tick ==
    /\ now < setup.ticks /\ \E g \in Gens : HasTTL(g)
    /\ now' = now + 1
    /\ UNCHANGED <<pairVars, entryVars, op, lease, scopeDone, setup, misfreed>>

CancelScope ==
    /\ ~scopeDone /\ \E g \in Gens : HasTTL(g)
    /\ scopeDone' = TRUE
    /\ UNCHANGED <<pairVars, entryVars, op, lease, now, setup, misfreed>>

AcquireStep(o) == Grant(o) \/ AcquireAborts(o) \/ AcquirePanics(o)
ReleaseStep(o) == ReleaseTakes(o) \/ ReleaseDefault(o) \/ ReleaseAborts(o)
DeregisterStep(o) == CheckUnused(o) \/ CompareAndDelete(o) \/ Close(o)
FilterStep(g) == FilterTake(g) \/ FilterDrop(g) \/ FilterEnds(g)

OwnerStep(o) ==
    \/ Register(o) \/ InsertIfAbsent(o) \/ StateCallAborts(o)
    \/ Acquire(o) \/ AcquireStep(o)
    \/ Release(o) \/ ReleaseStep(o) \/ Lapse(o)
    \/ Deregister(o) \/ DeregisterStep(o)

Next ==
    \/ \E o \in setup.owners : OwnerStep(o)
    \/ \E g \in Gens : FilterStep(g)
    \/ \E e \in behind : LateEffect(e)
    \/ Tick \/ CancelScope

Spec == Init /\ [][Next]_vars

(* Owners release what they hold, and a begun effect goes on.  The channel *)
(* wakes blocked senders in their order, so a slot that is freed again and *)
(* again is eventually this owner's; the same for the token it releases.   *)
Proceed(o) ==
    \/ Release(o) \/ ReleaseStep(o) \/ AcquirePanics(o)
    \/ InsertIfAbsent(o) \/ DeregisterStep(o)

Fairness ==
    /\ \A o \in Owners : WF_vars(Proceed(o)) /\ SF_vars(Grant(o)) /\ SF_vars(ReleaseTakes(o))
    /\ \A g \in Gens : WF_vars(FilterStep(g))
    /\ WF_vars(Tick)

FairSpec == Spec /\ Fairness

-----------------------------------------------------------------------------
(* Values of the variables; stamps lie within the clock. *)
TypeOK ==
    /\ setup \in Setups /\ now \in Stamps
    /\ {registered, lastGen} \subseteq {0} \union Gens
    /\ behind \subseteq {"inserting", "deleting"} \X Gens /\ unclosed \subseteq Gens
    /\ source \in [Gens -> Seq(Stamps)] /\ polled \in [Gens -> Seq(Stamps)]
    /\ closed \in [Gens -> BOOLEAN]
    /\ filter \in [Gens -> {"none", "running", "ended"}]
    /\ lease \in [Owners -> [gen : {0} \union Gens, stamp : Stamps]]
    /\ scopeDone \in BOOLEAN

HoldersOf(g) == {o \in Owners : lease[o].gen = g /\ ~Expired(g, lease[o].stamp)}

(* A registered resource without expiry has one slot taken for each of its *)
(* holders: no release frees a slot that is not its own or frees none, so  *)
(* the number of holders never passes numOwners and no slot is ever lost.  *)
(* (Unless an owner whose resource was removed under it has released it    *)
(* against the next registration of the key: see AtMostNumOwners.)         *)
SlotsMatchHolders ==
    ~misfreed =>
        \A g \in Gens : registered = g /\ ~HasTTL(g) =>
            Len(source[g]) = Cardinality(HoldersOf(g))

(* With a TTL the filter takes one token out of the source to poll on it,  *)
(* which makes room for one more owner than numOwners, never for two, as   *)
(* long as the filter's context lives.                                     *)
OneExtraHolder ==
    ~scopeDone =>
        \A g \in Gens : HasTTL(g) => Cardinality(HoldersOf(g)) <= NumOwners + 1

(* An acquisition that blocks is eventually over, if owners release: a     *)
(* slot becomes free, or the source is closed under it.  The exception is  *)
(* a pair whose deletion took effect after its caller had been told an     *)
(* error: no release finds it any more, and nobody closes it.              *)
AcquirerReturns ==
    \A o \in Owners :
        At(o, "acquiring") ~> (~At(o, "acquiring") \/ op[o].gen \in unclosed)

(* The filter of a pair whose deregistration came as far as closing the    *)
(* source ends, with whatever token it polls or the source still holds.    *)
(* (The filter of a registration that lost the race for the key does not.) *)
FilterEndsWithPair ==
    \A g \in Gens : (closed[g] /\ filter[g] = "running") ~> filter[g] = "ended"

Unexpired(o) == Holds(o) /\ ~Expired(lease[o].gen, lease[o].stamp)

(* README: "With numOwners == 1, this acts as a lock and expires after     *)
(* TTL": never more than numOwners unexpired leases.                       *)
AtMostNumOwners == Cardinality({o \in Owners : Unexpired(o)}) <= NumOwners

(* ReleaseEffect "releases a previously acquired lease": when it returns   *)
(* (true, nil) to an owner, there is a token less.                         *)
ReleaseFreesSlot ==
    [][\A o \in Owners :
        At(o, "releasing") /\ op'[o].at = "idle" /\ Unexpired(o)
            /\ lease'[o] = NoLease
            => Len(source'[op[o].gen]) < Len(source[op[o].gen])]_vars

(* "Deregistration fails if the resource is currently acquired": a         *)
(* deregistration never removes a resource that has a holder.              *)
DeregisteredIsUnused ==
    [][registered # 0 /\ registered' = 0 => HoldersOf(registered) = {}]_vars

(* "The resource is automatically deregistered after ttl duration."        *)
ResourceExpires ==
    \A g \in Gens : registered = g /\ HasTTL(g) ~> registered # g

(* "If capacity is full, this call blocks unless context expires": it does *)
(* not panic.                                                              *)
AcquireNeverPanics == \A o \in Owners : ~At(o, "panicked")
=============================================================================
