# Verification of effect_ive_go

TLA+ models, TLC runs and TLAPS proofs for the effect system in `src/`
(module `github.com/on-the-ground/effect_ive_go`). `PROJECT.json` ties every
definition to the lines it models, and lists the runs, the mutants that show
each property can fail, the hazards, the findings and the theorems. Line
numbers below are those of the files under `src/`.

## 1. The system

A handler is installed in a `context.Context` under an effect key and torn down
by the function its constructor returns. Performing an effect looks the handler
up in the context and sends a message to a channel; goroutines of the handler
receive the messages and call a handler function. Everything else in the
repository is written as a handler function on top of this engine.

| Component | Code | State | Operations |
|---|---|---|---|
| Worker dispatcher, scope | `effects/internal/handlers`, `effects/fire_and_forget_effect.go` | a channel and a goroutine per partition, the handler's context, `once` | perform, receive, exit (closes the channel), teardown |
| Resumable effects | `handlers/resumable.go`, `effects/resumable_effect.go` | a reply channel (capacity 1) per message | perform, reply or skip, close, two ways of waiting |
| Concurrency supervisor | `effects/concurrency` | `childrenCancels`, a WaitGroup, a watcher goroutine, children | `Effect` (start children), parent cancellation, teardown |
| AwaitAll | `effects/concurrency/helpers.go` | a scope of its own, two result slices | join |
| State | `effects/state` | a store, the `timers` map, the event sink, expiry goroutines | InsertIfAbsent (with TTL), CompareAndSwap, CompareAndDelete, Load, LoadOverlaid, ResetTTL, Source |
| Stream | `effects/stream` | a `sync.Map` from source to list of sinks, an arbiter per source, operator goroutines | Subscribe, Unsubscribe, OrderBy, LazyFilter, Map, Pipe, EagerFilter, Merge |
| Lease | `effects/lease` | a pair of channels per resource, in a state store | register, deregister, acquire, release |
| Task, Binding, Dependency, Log | `effects/...` | a goroutine per task; a read-only map; a list; a logger | perform, delegate |
| Ordered buffer | `shared/orderedbuffer` | a sorted window, a sink | Insert, Close |
| Memoization | `purefn` | two tries, a head index, a size | Load, Store (rotating) |

How they interact:

* Callers and workers: messages over a channel that the *worker* closes when it
  leaves; a sender on a closed channel panics and is recovered in the library.
* Lease calls State and Stream; Stream and State call Concurrency from inside
  their workers (bare, without a context); State, Binding and Dependency call
  the handler of the same key in the context above, from inside their workers.
* Shared memory without a lock: `childrenCancels` (supervisor and watcher),
  `timers` (state workers), the arrays behind the lists of sinks (stream worker
  and arbiter), `headIdx` (all users of a memoized function).
* Contexts: cancelling a parent closes its own `Done` first and reaches the
  derived contexts one by one. Children of the supervisor have contexts that do
  not derive from it; only the watcher passes the cancellation on.

What is hard here: Go's `select` takes any ready case, so "the context ended"
never has priority over "there is a message"; close-while-sending; replies that
race contexts; a teardown that does not wait for its workers; stale lists,
timers and pairs used after they were replaced; two stores changed one after
the other.

What makes each component correct:

* dispatcher: calls with one key run one at a time, in each caller's order, at
  most once; nothing accepted is lost while the scope lives; nobody blocks for
  ever on a scope that is over.
* resumable: a result belongs to the call that gets it, is given once, and is
  lost only when the scope ends; callers that watch a context return.
* supervisor: `Effect` returns after its children started; the teardown joins
  what was started; cancellation reaches children.
* state: one key in one tier is an atomic cell; two tiers do not drift apart; a
  load is fresh; calls return.
* stream registry: source order, silence after unsubscription, new subscribers
  are seen, sinks close once.
* order by: a stable, windowed sort that loses nothing.
* lease: never more holders than slots.
* memoization: the answer is the function's own; the table is bounded.
* binding, dependency: a lookup is answered by the nearest scope that has the
  key; scopes that wait for each other do not block each other; a scope that
  ended is left.
* stream operators: each source's elements in order and without gaps; the sink
  is closed once, after its last sender; cancelled children do not stay.
* AwaitAll: comes back when its tasks have answered, with results that nobody
  writes to any more.
* event sink: sorting the events by their stamps reproduces the store; nobody
  waits for a subscriber.

## 2. The modules

```
KeyedExecutor (abstract)     AtomicCell (abstract)     pure reference in OrderBy
      ^ refines                    ^ refines                  ^ compared with
WorkerDispatcher  <-EXTENDS- ResumableEffect <-EXTENDS- Supervisor
      ^
Dispatch_proofs:  theorems about WorkerDispatcher, ResumableEffect and Supervisor

ScopedLookup (abstract)  <-refines-  HandlerChain
State  StreamRegistry  Lease  Operators  OrderBy  HandlerChain  Tableize:  theorems in ..._proofs
StateEvents:  theorem in State_proofs, which extends it next to State
```

Each has an `MC...` module with the constant values of the runs. Definitions
named `Bug_...` are not part of any specification: each is the plausible wrong
version of the definition under it, and the `mutants` of `PROJECT.json` put it
in its place to show that a property notices.

Most modules choose their environment once, at the start, from a constant set
(`setup \in Setups` in State, StreamRegistry, Tableize, Lease, Operators and
HandlerChain; `windowSize` in OrderBy, `initial` in StateEvents) and never
change it: which tiers and store a handler has, which operators stand in a row,
who may leave or end. One run then covers the configurations that a program can
be built with.

The modules interact as the code does. Supervisor is the handler whose children
Operators, StateEvents and the arbiters of StreamRegistry run in; those modules
take from it what TLC shows of it there: a child that the watcher finds in its
slice is cancelled, one that was started later is not, and a call of
`concurrency.Effect` may never come back once the context has ended (the steps
called `Hang`). HandlerChain nests handlers that each behave as ResumableEffect
does.

**KeyedExecutor.** What a partitioned handler promises, with no worker or
channel in it: the calls accepted, per key the pending ones and at most one that
runs, and which of two pending calls was accepted first (`ahead`). It has no
sequences: the dispatcher's buffer holds calls of several keys, and what each
key's queue would be is a projection of it, while which of two calls stands in
front (`InFrontOf`) is read off directly.

**WorkerDispatcher.** `queue[w]` is the buffer of worker w's channel, closed
exactly when `worker[w] = "exited"`. `Issue` enters the select of
`FireAndForgetEffect`; `Send`, `Rendezvous` (handed straight to a worker that
waits on its empty channel, the only way when the capacity is 0), `Abort`
(ctx.Done) and `Recover` (the panic) are its outcomes. `Receive`, `Finish` and `Exit` are
the worker's loop. `CancelParent`, `Propagate`, `CancelCaller`, `CancelHandler`
and `Teardown` are contexts and scope. The hash is the constant `PartitionOf`.
The single queue is the case of one worker.

**ResumableEffect.** Adds `resume[call]` (the reply channel) and
`outcome[call]` (what the caller got). `AwaitMode` tells callers that select on
their context (`state.effect`, `binding.Effect`) from callers that receive and
nothing else (`concurrency.Effect`, `dependency`, users of `task.Effect`).

**Supervisor.** Adds the children of a call of `concurrency.Effect`, the slice
with its two-step append, the watcher and the teardown's wait. The caller's
n-th call has `Batch[n]` functions, each of which becomes a child that either
ends by itself or blocks until its context ends. `Late` is a child that was
listed after the watcher's range statement had read the slice.

**State.** One key, the lower handler's worker and expiry goroutines, its store
and that of the handler above. `End` ends a context: a client's, the lower
handler's, the upper one's or that of the children. A client whose context ended
comes back (`GiveUp`) and leaves its request in the queue or with the worker
(`gone`), where it may still take effect; the lower handler delegates with its
own context, so a delegation may stay without an answer for three reasons
(`Unanswered`: nobody above, the lower context, the upper context), with the
request left in the upper queue (`late`, `ServeLate`) or executed and its answer
dropped; and the worker may hang in `concurrency.Effect` (`AfterEvent`,
`HangInTTL`). `FirstStep`, `LocalCas` (or `LocalGet` and
`LocalWrite`), `DelegateMutation`, `DelegateInsert`, `UpdateLoad`/`UpdateSwap`,
`LoadLocal`, `LoadUpper`, `Cache`, `SetTTL`, `ResetTTL` are the branches of
`handle`, in its order. **AtomicCell** is the abstract cell of one tier: a call
takes effect once, while its caller waits or, if the caller's context ended,
after it left.

**StreamRegistry.** The worker's `Subscribe.../Unsubscribe...` steps on the map
entry, `Reload` and `Offer` of the arbiters, `SourceEnds`/`CloseSinks`, and
`EndScope`/`ClearRegistry`. A list is a slice: array, length; so the aliasing
between old and new lists is in the model.

**OrderBy.** Inserter, drainer and flushing goroutine of `OrderByEffect`, with
`Inserted` and `Overflows` as pure operators of the buffer.

**Lease.** One key; each registration is a generation with its own pair, made
with or without a TTL as its caller chooses (`HasTTL`). The context of each
call may end at any time, also while it waits for the state handler to insert or
to delete its pair (`StateCallAborts`): the request may be left behind and take
effect afterwards (`LateEffect`). After such a deletion nobody closes the source
of the pair (`unclosed`), since the deferred close is skipped on an error.
`Acquire`, `Grant`, `Release...`, `Deregister...` are the load, the select and
the store operations of the four effects; `FilterStep` is `LazyFilterEffect`.

**HandlerChain.** `perform`, `reply`, `queue` and `worker` are those of
ResumableEffect, one of each per scope, since here the handler function waits:
`Delegate` performs the effect again with the handler's own context, in which
`GetHandler` finds the scope above; `TakeDelegated` is the worker's wait for its
reply. `setup.kind` tells Binding (callers and workers also watch their context)
from Dependency (they do not) and Task (`StartTask`, `RunTask`, `EndTask`,
`TakeTask`: a goroutine per task, a handler that waits for it or for its
context). **ScopedLookup** is what a chain promises: the nearest scope answers,
once, unless a scope on the way or the caller's context has ended.

**Operators.** Stages that read a channel and send to another, started one after
the other: `setup.op` is a row of Map, Pipe and EagerFilter, the children of a
Merge with the child that joins them and closes their sink (`CloseMerged`), or
the children of AwaitAll, joined by its deferred teardown (`ReturnAwaited`).
`Take`/`Skip`, `Offer`, `GiveUp`, `SourceClosed`, `Panic`, `Leave` are the loop.

**StateEvents.** The workers of a state handler and the child of a time to live
accept an operation (`Accept`; an expiry whose load fails goes on with the zero
value, `Loaded`), change a store (`Change`), take a stamp (`Stamp`) and start a child
(`StartChild`) that offers the event to the sink (`Offer`, `Drop`), while the
teardown ends the context and closes the sink (`EndScope`).

**Tableize.** Every access to the atomic size, to `headIdx` and to a `sync.Map`
is a step; nodes have identities, since a goroutine keeps using an unlinked one.

## 3. Abstractions that matter

* One TLA+ step is one visible operation on shared state. Merged, because
  nothing can tell them apart: putting a reply in the buffered reply channel and
  closing it; a worker's `return` and its deferred `close(ch)`; in
  StreamRegistry the load and the removal of one unsubscription (the worker is
  the only one that writes the list) and the repeated attempts of `Retry`
  (with the same old value, so all fail alike).
* `select` chooses any ready case. Senders that wait for room are admitted in
  any order, although Go's runtime queues them: the weaker assumption.
* `sync.Once` in the teardown is the guard on `scope`.
* `append` publishes the length before the element, as the compiled code may;
  this is the data race of `childrenCancels`.
* `headIdx`: a racing read yields some value that was written and not yet
  overwritten, what the Go memory model guarantees for a word.
* In State an operation of the upper handler is one step: that handler
  serialises the key, has no delegation, and its store has an atomic
  compare-and-swap. It is taken to answer while its scope lives: that it can wait
  for the start of a child of its own is left out, for the lower handler it is in.
  `SetStore` is modelled for a handler without delegation.
* A worker that left is one that takes no further step; so in State nothing more
  is needed to end a scope than the end of its context (`ended`). A client makes
  its next call with a context of its own that may have ended already.
  The stores start empty (the initial map is a sequence of insertions).
* Time: in Lease, ticks; in State, a timer that is set may fire at any later
  moment, which is what a timer that was reset may do as well.
* In HandlerChain the context of a scope and those of the scopes inside it end
  independently and in any order, which allows more than Go's propagation does.
  A task is identified with the client that made it.
* In Operators starting a child and listing it for the watcher is one step, and
  the watcher reads its slice in one step: Supervisor has the details. A channel
  without a buffer is taken as one with room for one element.
* In StateEvents stamps taken at different moments differ. The code stamps with a
  `TimeSpan` of the clock's error, so stamps closer than that are not comparable
  there. What an arbiter receives is a set: the property sorts it anyway.
* Payloads, values and sinks are model values or small strings. Logging is left
  out.

## 4. The runs

Bounds, which the program does not have, are named where they stand in a guard:
`MaxCalls` (calls per caller), `setup.calls` (calls in all, in State and
Tableize), `setup.messages` and `MaxArbiters` (StreamRegistry), `MaxTimers`
(State), `setup.regs`, `setup.ticks` and `setup.late` (requests left behind; Lease),
`setup.ends` (the contexts that may end; State), `MaxInput` (OrderBy),
`MaxOperations` (StateEvents), the lengths of `setup.feed` (Operators); a client
of HandlerChain makes one lookup. Parameters of
the program: `BufferSize`, `Batch`, `WindowSizes`, `NumOwners`, `TTL`,
`setup.maxSize`, `Capacity`, `NumWorkers`, `Depth`.

| Run | Instance | Shows |
|---|---|---|
| `dispatcher` | 2 callers x 2 calls, 2 keys on one worker and a third on another, with one call on the third; capacity 2 | order and exclusion per key, at most once, nothing lost in a live scope, refinement of KeyedExecutor |
| `resumable` | 2 callers x 1 call on one worker, capacity 1, waiting in a select | reply protocol; an accepted call is resumed, an ended scope keeps neither workers nor blocked senders |
| `supervisor` | a call of one function, then of two, waiting bare | join at close; a listed child stops when the parent ends; a cancelled teardown waits for late children only, a bare wait for a message in a dead worker's buffer only |
| `state` | 2 clients, 2 to 4 calls; one tier (SetStore; CasStore with TTL), two tiers (alone; neighbours and TTL; no delegation); in some of them one client's context, the children's and both scopes end | loads are fresh, write-through, refinement of AtomicCell, calls return |
| `events` | one key, 2 operations and an expiry, a sink for 2 events, empty or filled store at the start | events sorted by stamp reproduce the store; neither operations nor children wait for a subscriber |
| `stream` | 2 subscribers that come and go; 4 that stay; one with a nil dropped channel; 2 arbiters | silence after unsubscription, source order, new subscribers seen, arbiters end with the source |
| `orderby` | windows of 1 and 2, 3 keys, up to 5 elements | output equals the reference while the context lives, flush and close |
| `operators` | map/filter, map/filter with a panic, pipe/map, a merge of two, AwaitAll over two tasks | order without gaps, no send on a closed sink, everything closes after its sources, cancelled children yield, results are final |
| `lease` | 1 slot; 2 owners with 2 registrations or 2 ticks, 3 owners with one of each; a request left behind, with 2 owners of one pair or 2 pairs of one; with or without TTL | slots and holders agree; with a TTL one holder too many at most; acquirers return, unless a late deletion left the pair open; the filter of a deregistered pair ends |
| `chain` | 3 callers, 3 scopes, capacity 1: bindings, dependencies, tasks | refinement of ScopedLookup; lookups are answered while their scopes live; ended scopes are left |
| `tableize` | 2 goroutines with a table of 1; nested calls with a table of 2 | answers are pure, rotation forgets all |

`TypeOK` of a module says what its variables hold; it is there for the reader
and the first thing to check after an edit. Those of the dispatcher, the
supervisor, the state effect, the lease, the chain and the tables are proved; that of the
stream registry is part of its inductive invariant (`Typed`).

Why the bounds suffice. Two callers with two calls give every order of two
calls of one caller against another's, through a buffer that fills and empties;
two keys on one worker are a hash collision; with the call on the third key both
workers are at work at once, and neither starts what hashes to the other. One
such call is enough for that, and more of them make the run longer than it is
allowed to be. A reply concerns one caller, one call and one
worker, so in `resumable` one call each is enough for another call to be in
front. In `supervisor` a batch of two is the first that races on the slice, and
a batch before it leaves the watcher something to be late for. Four subscribers
are the first number at which `append` writes into the array an arbiter reads;
two are enough for an unsubscription to shift an element under its cursor. Five
elements through a window of two evict three times, and through a window of one
they fill window and two-place sink. Three owners of one slot, with the filter's
hand, are a holder, a holder too many and one that waits; two registrations
are an old pair and its replacement, for which two owners are enough: the one
that replaces and the one that still has the old pair. Two ticks let a lease
expire and another be granted. One request left behind is a deletion under an
acquirer that waits, or an insertion that comes after the next registration; with
two registrations, two owners and a tick it is left to the theorems. In `state`
the contexts that may end are chosen per configuration: a client's, with every
operation; the children's, for the hang; both scopes, with everything that is
delegated. Three scopes are one that asks, one that is asked
and asks, and the last; three lookups from the innermost are one more than a
worker and a buffer of one hold. Two operators in a row are a source that a
stage closes and one that its owner closes; four elements fill both channels and
the stages' hands. Two operations and an expiry are three events for a sink of
two, and the first pair that can change one key at once. Two entries beyond the table's size make
the memo rotate twice.

One run is a *violation*: it checks one sentence of a doc comment, and TLC shows
a behaviour of the code that departs from it. It is the finding.

| Run | The code does | At |
|---|---|---|
| `stream_unsubscribe` | one unsubscription makes the registry forget every subscriber | `stream.go:294` |

Further sentences of that kind are definitions of their modules (their comments
quote the sentence). They are *not* part of the runs or of `PROJECT.json`, and
nothing here checks them again: the table records what TLC answered when each was
put in place of the properties of the named cfg, changed as said. It refuted
every one of them.

| Definition | The code does | At | In |
|---|---|---|---|
| `IntakeStopsBeforeTeardown` | messages are received and handled after `td()` | `fire_and_forget_effect.go:46` | `dispatcher` |
| `ValueOrError` | `effect()` returns neither value nor error | `binding.go:63` | `resumable` |
| `PerformedIsResumed` | a bare wait is never resumed | `resumable_effect.go:103` | `resumable`, AwaitMode "bare" |
| `ChildrenEndWithScope` | a late message starts children after the scope closed | `concurrency.go:43` | `supervisor` |
| `CancellationPropagates`, `TeardownReturns` | a child started after the watcher's loop is never cancelled; the teardown hangs | `concurrency.go:106`, `:170` | `supervisor` |
| `PanicSafe` | the watcher calls a nil function | `concurrency.go:118` | `supervisor` |
| `SwappedMeansMatched`, `ErrorMeansNotFound`, `ResetFindsTheKey` | true for a mismatch; an error for a key that was found; true for a dead key | `state.go:426`, `:532`, `:409` | `state` |
| `RefusedInsertWritesNothing` | a refused insertion overwrites the value above | `state.go:491` | `state` |
| `ExpiryIsLocal`, `ExpiryIsOwn` | expiry deletes above too; an old timer deletes a new value | `state.go:381`, `:403` | `state` (the second with Setups MCExpiringCas) |
| `NeverPanics` | a failed delegation panics in the worker | `state.go:434` | `state`, also with Setups MCNobodyAbove |
| `WriteSeesWhatItRead` | expiry between a SetStore's Get and Set | `state.go:264` | `state`, Setups MCExpiringSet |
| `SinksClosedWhenDone`, `ArbiterNeverPanics` | sinks left open; a panic after a legal close | `stream.go:437`, `:424` | `stream` |
| `NilDroppedIsFine` | a nil dropped channel panics | `type.go:61` | `stream` |
| `OfferedOnce` | an unsubscription shifts the array under the arbiter | `stream.go:294` | `stream` |
| `EndsWhenCancelled` | cancellation does not end the operator | `stream.go:239`, `:57` | `orderby`, `operators` |
| `EndsWhenClosed` | a cancellation during the last flush leaves the operator blocked for ever | `ordered_buffer.go:85` | `orderby` |
| `ReturnsEveryResult` | AwaitAll returns a zero value and no error for a task that was abandoned | `helpers.go:26` | `operators` |
| `AtMostNumOwners` | with a TTL a resource can have one holder too many | `lease.go:49` | `lease` |
| `ReleaseFreesSlot`, `ResourceExpires` | with a TTL a release frees nothing; the resource does not expire | `lease.go:133`, `:36` | `lease` |
| `DeregisteredIsUnused`, `AcquireNeverPanics` | deregistration under an acquisition: a holder of nothing, a send on a closed channel | `lease.go:91`, `:116` | `lease` |
| `CacheBounded` | two stores jump over the limit | `trie.go:75` | `tableize`, Setups MCRacingOn |
| `AnswerIsPure` | equal strings share an entry | `tableize.go:71` | `tableize`, TableKey MCStringKey |

Without a TTL too `AtMostNumOwners` depends on registrations: a release that
finds a newer pair frees a slot of that one (`lease.go:125`). The variable
`misfreed` records this, and `SlotsMatchHolders` speaks of the behaviours without it.

`CHECK_DEADLOCK FALSE` appears where the system may stop: bounded clients have
made all their calls, or a bare wait hangs as the code lets it.

## 5. Fairness

* Goroutines that can run do run (WF on every step of a goroutine), and handler
  functions and user callbacks return. Go's scheduler is preemptive and fair in
  this sense; handler functions that block are the subject of the modules that
  model them (Supervisor, State).
* SF on `Exit`: a worker's select chooses at random among ready cases, so a
  worker whose context stays cancelled leaves its loop in the end although
  messages keep coming.
* SF on serving a request in State: the worker's channel is a queue. State's
  workers are obliged to run only while all scopes live, since a worker whose
  context ended may leave; a caller whose own context ended comes back anyway.
* No fairness on what is left behind in Lease and State (`LateEffect`,
  `ServeLate`): its worker may be gone.
* SF on `Grant` and `ReleaseTakes` in Lease: Go's channels serve waiting
  senders and receivers in order. `AcquirerReturns` assumes besides that owners
  release what they hold: without that the lock is simply held. It exempts the
  pairs in `unclosed`: with the exemption taken out TLC finds the acquirer that
  waits for ever on a pair nobody can find any more (`lease.go:96`).
* In HandlerChain a client makes one lookup, so WF suffices for a worker's exit:
  its queue runs empty. Tasks listed in `setup.stuck` never return; all others do.
* In Operators a consumer that has not stopped consumes; it may stop.
* Nobody is obliged to cancel a context, to close a scope or a source, or to
  make a call.

## 6. What is proved

The theorems hold for every value of the constants: any number of callers,
keys, workers, calls, owners, subscribers, scopes; any hash, buffer size and
number of slots; and every configuration a `setup` can be, of which the runs
take a few. What is assumed of the constants is named in the module that
declares them, and TLC evaluates it in the runs:

| Assumption | Says |
|---|---|
| `DispatcherAssumption` | the hash sends each key to a worker; the buffer size may be 0; contexts are not callers |
| `AwaitAssumption`, `BatchAssumption` | callers wait in one of two ways; a call of `concurrency.Effect` has a finite number of functions |
| `SetupsAssumption` (State), `ValuesAssumption`, `ClientsAssumption` | a setup has its fields; a `SetStore` comes without delegation (the model's limit); absence and results are not values; client names are neither timers nor scopes |
| `LeaseAssumption` | at least one slot, a TTL of at least one tick; registrations, ticks and requests left behind are bounded per setup |
| `ChainAssumption` | at least one scope and room for one message per queue; in a task setup the caller's own scope has the handler |
| `SetupsAssumption`, `BoundsAssumption` (StreamRegistry) | only subscribers leave or drop; messages and arbiters are bounded |
| `SetupsAssumption`, `ArgumentsAssumption` (Tableize) | `maxTableSize` is at least one; a run has finitely many arguments and goroutines |
| `OperatorsAssumption` | how groups are wired: each operator of a row reads what the one before it sends and sends to a channel of its own, the children of a merge read different channels (two that read one share its elements, and their order is not kept) and send to one sink, none of them sends to a source; a row has at least one operator. Elements are a source and a number, so that whose element it is can be told after a merge |
| `WindowAssumption`, `InputAssumption` (OrderBy) | a window has room for one element at least; keys are integers; the input is bounded |
| `EventsAssumption` | absence is not a value and the zero value is one; there is a worker; the handler starts from a map of its keys |

Every proof has the same shape: `Init` implies an invariant stronger than the
property, one lemma per action shows that it is kept, one step per conjunct
that the action disturbs. What each invariant adds, and why it has to:

* `Dispatch_proofs`, of WorkerDispatcher: `TypeCorrect`, `KeyOrder` (PerKeyOrder),
  `StartedOnce` (AtMostOnce), `KeyExclusion` (PerKeyExclusion),
  `NoLossWhileOpen` (RecoveredOnlyWhenDone), all from `Inductive`, the
  invariance of `IInv`. PerKeyOrder alone is not inductive: from "earlier calls
  were started" nothing follows about the call a worker receives next. `IInv`
  adds that every accepted call that was not started *is in the buffer of its
  partition* (Waiting), that buffers hold accepted, unstarted calls of that
  partition (Buffered), in each caller's order (Ordered), that a caller is in
  one select at a time (Sequential), so that a new message is its latest, that
  a worker handles a call of its partition (Handling), and that channels close
  after the context's end (Closing). The order of two calls then follows: when
  the later one is at the head, the earlier cannot be behind it.
  `ImplementsExecutor` (ImplementsKeyedExecutor) uses the same invariant for
  the refinement: a send puts the call behind the pending ones of its key
  because it goes to the end of their buffer; a receive takes the oldest of its
  key because it takes the oldest of its partition; a rendezvous finds no
  pending call of the key because it finds the buffer empty. All other steps
  change nothing that the executor has.
* `Dispatch_proofs`, of ResumableEffect. The module is written on top of the
  dispatcher, so that every step of a resumable handler is one of the
  dispatcher or leaves it alone by construction; the lemma `ResumableDispatches`
  says so only to carry the dispatcher's invariant over. `RInv` adds what ties the reply
  channel to the call: made with it, closed only after it was started, read as
  it was closed. From it `NoWorkerPanic` (WorkerNeverPanics: a reply channel is
  closed once because a call is started once), `Earned` (ResultIsEarned) and
  `NoResultLostWhileOpen` (ResultLostOnlyWhenDone).
* `Dispatch_proofs`, of Supervisor: `CloseJoins` (CloseJoinsChildren). The teardown waits on
  a counter and looks at no child; that it joins them is `Counted`: the counter
  is the number of live children after every step, those between the two
  halves of the racing append included. `SupervisorTypeCorrect` follows, so
  `wg.Done` never panics. The lemma `SupervisorResumes` carries the invariants of
  the two lower modules over in the same way, whence `SupervisedEffects`: the
  dispatcher's and the reply's guarantees hold of `concurrency.Effect`.
* `State_proofs`: `LoadsAreFresh` (LoadIsFresh), `StoresAgree` (WriteThrough),
  `OneTierIsACell` (ImplementsCell), `StateTypeCorrect`, from `StateInductive`.
  All but one of the actions move one task; `StateInv` says what is known of a
  task from where it is (Stages), that the key serves one client at a time
  (Exclusive), and that a call has in its history the present contents of both
  stores and whatever it is about to cache (Fresh). Between two requests the
  tiers agree; in the middle of one they do not, so WriteThrough needs, for each
  stage of a request, how far they do (Agreement): after a local success the
  lower store has the new value and the upper still the old one, and so on up
  to the retries of an insertion. For the cell the linearization point of a
  `SetStore` mutation is its second half, which is right because in one tier
  nothing comes between a read and its write (Undisturbed), if nothing expires:
  `OneTier` says so, and leaves out resets, which ask for timers. Contexts may
  end in every one of these stages. A caller that left changes nothing of what is
  known of its request, so agreement and cell are about requests, not callers: a
  request left behind keeps its stage until its worker is done with it, and takes
  effect there, late but once. A delegation without an answer is where agreement
  ends, and so is an insertion that found another value in the lower store, which
  is delegated all the same; `parted` records both, and agreement is claimed while neither happened
  (`Calm`). The attempt to prove the refinement showed that the outcome of a swap
  of a value for itself was given by a `CASE` with overlapping guards, which
  determines nothing; the definition is now a function of request and value.
* `StreamRegistry_proofs`: `LeaversHearNoMore` (SilentAfterUnsubscribe),
  `SinksSeeOneOrder` (SourceOrder) and `MessagesReachMembers` (ReloadSeesAll),
  from `StreamInductive`. The worker appends into, and shifts, arrays that
  arbiters range over. `Backing` bounds the harm: no arbiter's list is longer
  than the registered one of the same array, or the one the worker is about to
  append to, so an append never writes into what anybody reads. `Requests` is
  the order of one caller's requests on their way through the inbox; `Quiet`
  says that whoever left is on no list that will be loaded, and that a list
  still being served has a message for him that came before; `Arbited`, that in
  an open scope only the first arbiter ever has a message. The proofs do not
  look at `Full`: they hold for any rule by which `append` chooses capacities.
* `Lease_proofs`: `SlotsAreHolders` (SlotsMatchHolders), `AtMostOneExtra`
  (OneExtraHolder), `LeaseTypeCorrect`, from `LeaseInductive`. Without a TTL
  the argument is a count: tokens in the source are as many as holders
  (Matched), which needs that a pair not yet inserted is nobody else's
  (Untouched), also when its insertion was left behind and comes late (Pending). With a TTL no holder ever takes its token back, and counting
  fails: an expired holder's token may still be in the channel. `Covered` is a
  matching instead: the holders whose leases are not over have tokens of their
  own, with the stamps of their leases, in the filter's hand or in the source.
  There are at most `NumOwners` in the source and one in the hand, hence one
  holder too many and never two.
* `HandlerChain_proofs`: `ChainIsALookup` (ImplementsLookup), `ChainTypeCorrect`,
  from `ChainInductive`. No scope knows the chain. A lookup that has been made
  at a scope has passed only scopes without the key (Reached), so the first
  scope that has it is the nearest; and what is on its way back, in a reply
  channel, in a worker's hand or given up, is something the lookup may be
  answered with (Earnings): the nearest value, or less when a context on the
  path has ended. Ended contexts stay ended, so an answer once earned stays so.
* `Operators_proofs`: `SinkClosedLast` (NoSendOnClosed) and `ResultsFinal`
  (ReturnedIsFinal). `IInv` says for every closed channel who closed it: its
  owner, the operator that sent to it and has ended, or the child of MergeEffect
  after its join (ClosedBy); and that whoever joined still sees all stages ended
  (JoinedFirst), since an ended stage never moves again. A stage that offers has
  not ended, so nobody can have closed what it sends to; a stage that could
  write a result has not ended, so AwaitAll has not returned.
  `NothingIsSkipped` (DeliversInOrder) is about what flows, and the state has
  only what is in the channels now. `FlowInv` adds that there *are* histories,
  `took`, one of what each stage has received, that explain it (Flows): a source
  was fed what its stage took and what is in its channel; a stage has sent (what
  the next one took, and the channel between; in a merge, what has the name of
  the stage's source) what its function makes of what it took, or that
  without the element in its hand; a stage that left sent a beginning of it, and
  all of it unless the context ended or a function may panic. A receive extends
  one history, every other step leaves them as they are. Along a row of any
  length the beginnings add up: the second half of the property goes
  backwards first (the sink is closed, so the last stage ended, so its source is
  closed and empty, so the stage before it ended) and then forwards.
* `OrderBy_proofs`: `OrderIsTheReference` (MatchesReference) and
  `OrderByTypeCorrect`, from `OrderByInductive`. Elements are in five places: with
  the subscriber, in the drainer's hand, in the sink, evicted and not yet sent,
  in the sorted window or what the flush has left of it. Put one after the other
  they are one sequence (Line), a rearrangement of what arrived, whose n-th
  element is one of the first windowSize + n that arrived and comes before all
  of these that stand behind it (Ranked). Evictions, sends, receives and the
  flush move an element over a border and leave the line as it is; only an
  insertion changes it, and only within the window, which is full unless nothing
  was evicted yet (Filled). The binary search of the buffer finds the right place
  because in a sorted window the elements that are not greater are the first
  ones (`BelowIsAnInterval`).
* `State_proofs`, of StateEvents: `StampsOrderChanges` (ReplayReproduces), from
  `SinkInductive`. Events overtake each other, and a change is made before its
  stamp is taken. The invariant says of each key, unless an event of it was
  dropped or a time to live ended in between, that there is a function from
  stamps to values that the events follow, those included that are still with
  their worker or on their way, and which ends with the value in the store or,
  while a goroutine is between its change and its stamp, with the value that this
  change was made to (Explained). It needs that no two goroutines are in between
  for one key (OneChange: the key has one worker; a timer that comes between is
  recorded in `raced`, where the property makes its exception), and that no stamp
  is of the future (StampsPast). `Replay` is equal to that function because
  it obeys the same equations (`ReplayIsUnique`); it starts from a map the
  handler was given, hence `InitMaps` in the assumption.
* `Tableize_proofs`: `AnswersArePure` (AnswerIsPure), `TablesAreBounded`
  (RotationForgetsAll), `TablesTypeCorrect`, from `TablesInductive`. A goroutine
  writes to a node that may have been unlinked, and reads one that others write.
  Its answer is right because a node stands for one first key as long as
  anybody refers to it (OneKey: whoever makes a node takes one that nobody
  refers to, and `SomeFree` shows there is one), and what is in it was filed
  under its keys (Filed). The theorem is stated under `TellsApart`, distinct
  arguments have distinct table keys, since the code does not ensure it (§4).
  That the table is bounded for one goroutine follows the stages of `Store`
  (StoreStage): the counter is at most `maxTableSize` and at least the number of
  entries, except between the compare-and-swap and the clearing of the head,
  and the memo beside the head is empty throughout, so the one that becomes the
  head is empty. For several goroutines it is false (`CacheBounded`, §4).

Only model-checked, on the instances of §4:

* all liveness (`AcceptedIsResumed`, `EndedScopeReleases`, `ListedChildrenStop`,
  `TeardownHangsOnLateChildrenOnly`, `BareWaitHangsOnlyInBuffer`,
  `CallReturns`, `ArbiterEndsWithSource`, `FlushedAfterClose`, `AcquirerReturns`,
  `FilterEndsWithPair`, `EndsWithItsSources`, `CancelledChildYields`,
  `LookupsAreAnswered`, `EndedScopeIsLeft`, `NobodyWaitsForListeners`): what
  happens under fairness is beyond the proof system.

Every safety invariant, action property and refinement that a passing run checks
has a theorem. Three of them are about what a recursive definition computes from a
sequence (`Passed`, `Expected`, `Replay`) or about a sort. The library's
induction theorems take the property as an operator and cannot be used by the
installed provers; the proofs use induction over a *set* of numbers instead
(`Induction`, from the well-foundedness of the order of the naturals), and show
that any function which obeys the equations of a recursive one is equal to it.
`SelectSeq` and the folds of the community modules have no such form, so the
definitions these properties use are recursive functions of the project's own.

## 7. Not modelled

* The race on the `timers` map between the partitions of a state handler
  (`state.go:403`): State has one key. A concurrent map write ends the process,
  which is all there would be to say of it.
* Log: its queue is WorkerDispatcher with one worker. The handler copies a
  message's fields into the default map that all messages of the scope share
  (`log.go:80`), and needs at least one default map; formatting and output are
  the logger's.
* Reflection (`dependency.go:107`) and the typed getters of Binding: which value
  matches is an input of HandlerChain.
* Configuration keys, clock wrappers and the examples: constants and client
  programs.

## 8. Plan

Done, in this order: dispatcher, resumable effects and their proofs; supervisor;
lease; order by; memoization; stream registry; state; chains of handlers and
tasks; stream operators and AwaitAll; the event sink; then the theorems about
supervisor, state, lease, chains, the stream registry and the memo tables, the
refinement of KeyedExecutor, and last those about ordering, flow and replay.

Left: liveness stays with TLC. A theorem worth having would be that a subscriber
of a source that nobody unsubscribes from stays registered (what is left of
`RemovesOnlyThatSink`, which the code violates in general), and a model of State
with two keys, for the race on the `timers` map.
