------------------------------- MODULE State -------------------------------
(***************************************************************************)
(* The state effect, for one key: a lower handler with its store, and the  *)
(* upper handler it may delegate to.  Requests for a key are served one at *)
(* a time by the worker of its partition (see WorkerDispatcher); expiry    *)
(* goroutines call the same handle function outside the worker.  The upper *)
(* handler has no delegation and a store with an atomic compare-and-swap,  *)
(* so each request it serves is one step.                                  *)
(*                                                                         *)
(* Contexts end at any moment: a client's, so that effect() comes back     *)
(* while its request is still with the worker; the lower handler's, with   *)
(* which it delegates too; the upper handler's; and that of the children.  *)
(* A worker that has left is one that takes no further step.               *)
(*                                                                         *)
(* Time is abstracted: a timer that is set may fire at any later moment.   *)
(* Values are strings, so that they can stand in results.                  *)
(***************************************************************************)
EXTENDS Integers, FiniteSets, Sequences

CONSTANTS Clients,      \* callers of the lower handler
          Values, Zero, \* the values, and V's zero value
          Setups,       \* the configurations of the handlers, see setup
          MaxTimers     \* bound: times to live set in a run

(* The scopes whose contexts may end, and with them the clients' own.       *)
Scopes == {"lower", "upper", "children"}

\* The set store is modelled for a handler without delegation.
ASSUME SetupsAssumption ==
    \A s \in Setups :
        /\ s \in [upper : BOOLEAN, delegation : BOOLEAN, store : {"cas", "set"},
                  ttl : BOOLEAN, neighbour : BOOLEAN, kinds : SUBSET STRING, calls : Nat,
                  ends : SUBSET (Clients \cup Scopes)]
        /\ s.store = "set" => ~s.delegation
ASSUME ValuesAssumption ==
    Zero \in Values /\ Values \cap {"absent", "none", "yes", "no", "error"} = {}

Absent == "absent"
NoOne == "no one"
NoTTL == FALSE
Timers == 1..MaxTimers

ASSUME ClientsAssumption ==
    /\ MaxTimers \in Nat /\ Clients \cap Timers = {} /\ NoOne \notin Clients
    /\ Clients \cap Scopes = {}

VARIABLES
    setup,          \* the configuration: it never changes
    lower, upper,   \* the stores' value of the key
    owner,          \* whose request the lower worker serves
    task,           \* what each client and each expiry goroutine is doing
    timers,         \* sH.timers[key]: the last timer set, or 0
    calls,
    seen,           \* history: states of the stores during a client's call
    parted,         \* history: an insertion found another value in the lower store,
                    \* or a delegation was left without an answer
    crashed,
    ended,          \* clients and scopes whose contexts have ended
    gone,           \* clients that came back with an error, their request left behind
    late            \* requests in the upper handler's queue that nobody waits for

vars == <<setup, lower, upper, owner, task, timers, calls, seen, parted, crashed,
          ended, gone, late>>

HasUpper == setup.upper         \* an upper state handler is in the context
Delegation == setup.delegation  \* the delegation flag of the lower handler
StoreKind == setup.store        \* "cas" or "set": the lower handler's store
UseTTL == setup.ttl             \* clients set times to live
Neighbour == setup.neighbour    \* somebody else uses the upper handler
Kinds == setup.kinds            \* the operations clients call
MaxCalls == setup.calls         \* bound: calls and changes by the neighbour
Ends == setup.ends              \* bound: the contexts that may end

Insert(v, ttl) == [kind |-> "insert", old |-> Absent, new |-> v, ttl |-> ttl]
Swap(v, w) == [kind |-> "cas", old |-> v, new |-> w, ttl |-> NoTTL]
Delete(v) == [kind |-> "cad", old |-> v, new |-> Absent, ttl |-> NoTTL]
Read(kind) == [kind |-> kind, old |-> Absent, new |-> Absent, ttl |-> NoTTL]

Requests ==
    {Insert(v, b) : v \in Values, b \in BOOLEAN}
      \cup {Swap(v, w) : v, w \in Values} \cup {Delete(v) : v \in Values}
      \cup {Read(k) : k \in {"overlaid", "load", "reset"}}

(* What clients ask for: times to live as long as there are timers for them. *)
Spare == Cardinality({t \in Timers : task[t].pc = "unset"})
            - Cardinality({c \in Clients : task[c].req.ttl})

Offered == {r \in Requests : r.kind \in Kinds /\ (r.ttl => UseTTL /\ Spare > 0)}

Resting(pc) == [pc |-> pc, req |-> Read("load"), res |-> "none",
                cur |-> Absent, tries |-> 0]

Init ==
    /\ setup \in Setups /\ lower = Absent /\ upper = Absent /\ owner = NoOne
    /\ task = [p \in Clients \cup Timers |->
                  Resting(IF p \in Clients THEN "idle" ELSE "unset")]
    /\ timers = 0 /\ calls = 0
    /\ seen = [c \in Clients |-> {}]
    /\ parted = FALSE /\ crashed = FALSE
    /\ ended = {} /\ gone = {} /\ late = <<>>

(* Whether a mutation finds what it compares with, and what it leaves.      *)
Matches(r, v) == v = r.old
Left(r) == r.new

InCall(c) == task[c].pc # "idle"
Waiting(c) == InCall(c) /\ c \notin gone

(* The histories are kept for the kinds of call a property looks at.        *)
Witnessed == {"cas", "overlaid", "load", "reset"}

Watch(l, u) ==
    seen' = [c \in Clients |->
                IF task'[c].req.kind \notin Witnessed \/ task'[c].pc = "idle"
                THEN {}
                ELSE seen[c] \cup {<<lower, upper>>, <<l, u>>}]

Step(p, from) == ~crashed /\ task[p].pc = from

-----------------------------------------------------------------------------
(* A scope is torn down, or a caller's context is cancelled.                *)
End(x) ==
    /\ ~crashed /\ x \in Ends \ ended /\ ended' = ended \cup {x}
    /\ UNCHANGED <<setup, lower, upper, owner, task, timers, calls, parted, crashed, gone, late>>
    /\ Watch(lower, upper)

(* The client: effect() sends the payload and waits for the result ...      *)
Call(c) ==
    /\ Step(c, "idle") /\ calls < MaxCalls /\ calls' = calls + 1
    /\ \E r \in Offered :
         task' = [task EXCEPT ![c] = [Resting("queued") EXCEPT !.req = r]]
    /\ Watch(lower, upper)
    /\ UNCHANGED <<setup, lower, upper, owner, timers, parted, crashed, ended, gone, late>>

(* ... or for the end of its own context, before it sent or at any time     *)
(* after: the request stays with the worker, and takes effect if it does.   *)
GiveUp(c) ==
    /\ ~crashed /\ c \in ended /\ Waiting(c)
    /\ \/ gone' = gone \cup {c} /\ UNCHANGED task
       \/ /\ task[c].pc \in {"queued", "queued ttl"}
          /\ task' = [task EXCEPT ![c] = Resting("idle")] /\ UNCHANGED gone
    /\ Watch(lower, upper)
    /\ UNCHANGED <<setup, lower, upper, owner, timers, calls, parted, crashed, ended, late>>

(* What the worker does first for each kind of payload.                     *)
FirstStep(r) ==
    CASE r.kind \in {"insert", "cad"} -> "local"
      [] r.kind = "cas" -> IF r.old = r.new THEN "reply" ELSE "local"
      [] r.kind \in {"overlaid", "load"} -> "load"
      [] r.kind = "reset" -> "reset"

Bug_ServeTwo(c) ==
    /\ Step(c, "queued") /\ owner' = c
    /\ task' = [task EXCEPT ![c].pc = FirstStep(task[c].req),
                            ![c].res = IF FirstStep(task[c].req) = "reply"
                                       THEN "yes" ELSE "none"]
    /\ Watch(lower, upper)
    /\ UNCHANGED <<setup, lower, upper, timers, calls, parted, crashed, ended, gone, late>>

Serve(c) ==
    /\ Step(c, "queued") /\ owner = NoOne /\ owner' = c
    /\ task' = [task EXCEPT ![c].pc = FirstStep(task[c].req),
                            ![c].res = IF FirstStep(task[c].req) = "reply"
                                       THEN "yes" ELSE "none"]
    /\ Watch(lower, upper)
    /\ UNCHANGED <<setup, lower, upper, timers, calls, parted, crashed, ended, gone, late>>

(* With delegation a deferred function continues with the upper handler.    *)
AfterLocal == IF Delegation THEN "delegate" ELSE "reply"

(* The event of a change is given to a child.  concurrency.Effect waits for *)
(* its start on a bare channel, which nobody closes when the lower context  *)
(* won the send or the scope of the children is left.                       *)
StartMayHang == ended \cap {"lower", "children"} # {}

AfterEvent(r, ok) ==
    {AfterLocal} \cup
        (IF StartMayHang /\ (ok \/ r.kind = "insert") THEN {"hung"} ELSE {})

Mutate(p, found) ==
    LET r == task[p].req
        ok == Matches(r, found)
    IN  /\ lower' = IF ok THEN Left(r) ELSE lower
        /\ parted' = (parted \/ (r.kind = "insert" /\ found \notin {Absent, r.new}))
        /\ \E pc \in AfterEvent(r, ok) :
             task' = [task EXCEPT ![p].pc = pc, ![p].cur = Absent,
                                  ![p].res = IF ok THEN "yes" ELSE "no"]
        /\ Watch(lower', upper)
        /\ UNCHANGED <<setup, upper, owner, timers, calls, crashed, ended, gone, late>>

(* insertIfAbsent, compareAndSwap, compareAndDelete on a CasStore ...       *)
LocalCas(p) == StoreKind = "cas" /\ Step(p, "local") /\ Mutate(p, lower)

(* ... and on a SetStore: Get and compare, then Set or Delete.              *)
LocalGet(p) ==
    /\ StoreKind = "set" /\ Step(p, "local")
    /\ IF Matches(task[p].req, lower)
       THEN /\ task' = [task EXCEPT ![p].pc = "write", ![p].cur = lower]
            /\ Watch(lower, upper)
            /\ UNCHANGED <<setup, lower, upper, owner, timers, calls, parted, crashed, ended, gone, late>>
       ELSE Mutate(p, lower)

LocalWrite(p) == Step(p, "write") /\ Mutate(p, task[p].cur)

(* delegateStateEffect: effect() with the lower handler's context.  The     *)
(* upper handler has one queue for the key, so what was left in it comes    *)
(* first.                                                                   *)
Above(r) == IF Matches(r, upper) THEN Left(r) ELSE upper

Answered(r) ==
    /\ HasUpper /\ late = <<>>
    /\ upper' = Above(r) /\ UNCHANGED <<parted, late>>

(* Nobody is above; or the lower context ended, and the request was not     *)
(* sent or is left in the queue; or the upper context did, and its worker   *)
(* drops the answer of what it executed.                                    *)
Unanswered(r) ==
    /\ parted' = TRUE
    /\ \/ ~HasUpper /\ UNCHANGED <<upper, late>>
       \/ HasUpper /\ "lower" \in ended /\ late' \in {late, Append(late, r)}
            /\ UNCHANGED upper
       \/ HasUpper /\ "upper" \in ended /\ late = <<>> /\ upper' = Above(r)
            /\ UNCHANGED late

ServeLate ==
    /\ ~crashed /\ late # <<>>
    /\ upper' = Above(Head(late)) /\ late' = Tail(late)
    /\ UNCHANGED <<setup, lower, owner, task, timers, calls, parted, crashed, ended, gone>>
    /\ Watch(lower, upper')

Bug_DelegateDeleteOnly(p) ==
    LET r == task[p].req
    IN  /\ Step(p, "delegate") /\ r.kind \in {"cas", "cad"}
        /\ IF r.kind = "cad" THEN Answered(r) ELSE UNCHANGED <<upper, parted, late>>
        /\ task' = [task EXCEPT ![p].pc = "reply"]
        /\ Watch(lower, upper')
        /\ UNCHANGED <<setup, lower, owner, timers, calls, crashed, ended, gone>>

(* The error of a delegation is dropped: without an answer dres is nil, and *)
(* dres.(bool) panics unless res is true.                                   *)
DelegateMutation(p) ==
    LET r == task[p].req
    IN  /\ Step(p, "delegate") /\ r.kind \in {"cas", "cad"}
        /\ \/ /\ Answered(r) /\ UNCHANGED crashed
              /\ task' = [task EXCEPT ![p].pc = "reply",
                                      ![p].res = IF Matches(r, upper) THEN "yes" ELSE @]
           \/ /\ Unanswered(r) /\ crashed' = (task[p].res = "no")
              /\ task' = [task EXCEPT ![p].pc = "reply"]
        /\ Watch(lower, upper')
        /\ UNCHANGED <<setup, lower, owner, timers, calls, ended, gone>>

(* The insertion is delegated whether or not the local one succeeded; a     *)
(* value that is in the upper store already is then updated.                *)
Attempts == 5

DelegateInsert(p) ==
    LET r == task[p].req
    IN  /\ Step(p, "delegate") /\ r.kind = "insert"
        /\ \/ /\ Answered(r)
              /\ task' = [task EXCEPT
                   ![p].pc = IF Matches(r, upper) THEN "reply" ELSE "update",
                   ![p].tries = Attempts]
           \/ Unanswered(r) /\ task' = [task EXCEPT ![p].pc = "reply"]
        /\ Watch(lower, upper')
        /\ UNCHANGED <<setup, lower, owner, timers, calls, crashed, ended, gone>>

AfterFailure(t) ==
    [t EXCEPT !.pc = IF t.tries = 1 THEN "reply" ELSE "update",
              !.tries = @ - 1, !.cur = Absent]

(* A load above may stay without an answer as well.  With the lower context *)
(* alive ctx.Err() is nil, so that (nil, nil) passes for a value.           *)
NoValue == ended \cap {"lower", "upper"} # {}
NilError == "lower" \notin ended

UpdateLoad(p) ==
    /\ Step(p, "update")
    /\ \/ /\ late = <<>> /\ UNCHANGED <<parted, crashed>>
          /\ task' = [task EXCEPT ![p] =
               CASE upper = Absent -> AfterFailure(@)
                 [] upper = task[p].req.new -> [@ EXCEPT !.pc = "reply"]
                 [] OTHER -> [@ EXCEPT !.pc = "swap", !.cur = upper]]
       \/ /\ NoValue /\ parted' = TRUE /\ crashed' = NilError
          /\ task' = [task EXCEPT ![p] = AfterFailure(@)]
    /\ Watch(lower, upper)
    /\ UNCHANGED <<setup, lower, upper, owner, timers, calls, ended, gone, late>>

Bug_RetryForever(p) ==
    /\ Step(p, "swap") /\ upper = task[p].cur
    /\ upper' = task[p].req.new
    /\ task' = [task EXCEPT ![p].pc = "reply", ![p].cur = Absent]
    /\ Watch(lower, upper')
    /\ UNCHANGED <<setup, lower, owner, timers, calls, parted, crashed, ended, gone, late>>

UpdateSwap(p) ==
    LET r == Swap(task[p].cur, task[p].req.new)
    IN  /\ Step(p, "swap")
        /\ \/ /\ Answered(r)
              /\ task' = [task EXCEPT ![p] =
                   IF Matches(r, upper) THEN [@ EXCEPT !.pc = "reply", !.cur = Absent]
                   ELSE AfterFailure(@)]
           \/ Unanswered(r) /\ task' = [task EXCEPT ![p] = AfterFailure(@)]
        /\ Watch(lower, upper')
        /\ UNCHANGED <<setup, lower, owner, timers, calls, crashed, ended, gone>>

-----------------------------------------------------------------------------
(* load and loadWoDelegation: the local store first.                        *)
LoadLocal(p) ==
    /\ Step(p, "load")
    /\ task' = [task EXCEPT ![p] =
         CASE lower # Absent -> [@ EXCEPT !.pc = "reply", !.res = lower]
           [] lower = Absent /\ @.req.kind = "overlaid" -> [@ EXCEPT !.pc = "upper"]
           [] OTHER -> [@ EXCEPT !.pc = "reply", !.res = "error"]]
    /\ Watch(lower, upper)
    /\ UNCHANGED <<setup, lower, upper, owner, timers, calls, parted, crashed, ended, gone, late>>

(* A value found above is cached and returned only with delegation; without *)
(* it handle returns (nil, nil), which the caller's cast turns into an      *)
(* error.  With delegation v.(V) panics on the (nil, nil) of a lost answer. *)
LoadUpper(p) ==
    /\ Step(p, "upper")
    /\ \/ /\ HasUpper /\ late = <<>> /\ UNCHANGED crashed
          /\ task' = [task EXCEPT ![p] =
               IF Delegation /\ upper # Absent
               THEN [@ EXCEPT !.pc = "cache", !.cur = upper]
               ELSE [@ EXCEPT !.pc = "reply", !.res = "error"]]
       \/ /\ ~HasUpper \/ NoValue
          /\ crashed' = (HasUpper /\ NilError /\ Delegation)
          /\ task' = [task EXCEPT ![p].pc = "reply", ![p].res = "error"]
    /\ Watch(lower, upper)
    /\ UNCHANGED <<setup, lower, upper, owner, timers, calls, parted, ended, gone, late>>

Bug_CacheShadowed(p) ==
    /\ Step(p, "cache")
    /\ lower' = IF lower = Absent THEN task[p].cur ELSE lower
    /\ task' = [task EXCEPT ![p].pc = "reply", ![p].res = Zero,
                            ![p].cur = Absent]
    /\ Watch(lower', upper)
    /\ UNCHANGED <<setup, upper, owner, timers, calls, parted, crashed, ended, gone, late>>

Cache(p) ==
    /\ Step(p, "cache")
    /\ lower' = IF lower = Absent THEN task[p].cur ELSE lower
    /\ task' = [task EXCEPT ![p].pc = "reply", ![p].res = task[p].cur,
                            ![p].cur = Absent]
    /\ Watch(lower', upper)
    /\ UNCHANGED <<setup, upper, owner, timers, calls, parted, crashed, ended, gone, late>>

-----------------------------------------------------------------------------
(* setTTL starts an expiry goroutine; the map keeps the last timer only.    *)
SetTTL(c) ==
    /\ Step(c, "ttl")
    /\ \E t \in Timers :
         /\ task[t].pc = "unset" /\ \A s \in 1..(t - 1) : task[s].pc # "unset"
         /\ task' = [task EXCEPT
              ![t] = Resting("pending"),
              ![c].pc = "reply", ![c].req.ttl = NoTTL]
         /\ timers' = t
    /\ Watch(lower, upper)
    /\ UNCHANGED <<setup, lower, upper, owner, calls, parted, crashed, ended, gone, late>>

HangInTTL(c) ==
    /\ Step(c, "ttl") /\ StartMayHang
    /\ task' = [task EXCEPT ![c].pc = "hung"]
    /\ Watch(lower, upper)
    /\ UNCHANGED <<setup, lower, upper, owner, timers, calls, parted, crashed, ended, gone, late>>

(* resetTTL looks at the map only.                                          *)
ResetTTL(c) ==
    /\ Step(c, "reset")
    /\ task' = [task EXCEPT ![c].pc = "reply",
                            ![c].res = IF timers = 0 THEN "error" ELSE "yes"]
    /\ Watch(lower, upper)
    /\ UNCHANGED <<setup, lower, upper, owner, timers, calls, parted, crashed, ended, gone, late>>

(* InsertIfAbsentWithTTLEffect sends a second request when the first        *)
(* inserted, and the caller was still there to hear of it: a worker whose   *)
(* context ended drops its answer.                                          *)
Return(c) ==
    /\ Step(c, "reply") /\ c \in Clients /\ owner' = NoOne
    /\ gone' = gone \ {c}
    /\ LET inserted == task[c].req.ttl /\ task[c].res = "yes"
       IN  \/ /\ inserted /\ c \notin gone
              /\ task' = [task EXCEPT ![c].pc = "queued ttl"]
           \/ /\ ~inserted \/ c \in gone \/ "lower" \in ended
              /\ task' = [task EXCEPT ![c] = Resting("idle")]
    /\ Watch(lower, upper)
    /\ UNCHANGED <<setup, lower, upper, timers, calls, parted, crashed, ended, late>>

ServeTTL(c) ==
    /\ Step(c, "queued ttl") /\ owner = NoOne /\ owner' = c
    /\ task' = [task EXCEPT ![c].pc = "ttl"]
    /\ Watch(lower, upper)
    /\ UNCHANGED <<setup, lower, upper, timers, calls, parted, crashed, ended, gone, late>>

(* The expiry goroutine: load (delegating and caching as any load does),    *)
(* then CompareAndDelete of what it loaded, or of the zero value when the   *)
(* load failed.  One whose child context ended first stays where it is.     *)
Fire(t) ==
    /\ Step(t, "pending")
    /\ task' = [task EXCEPT ![t].pc = "load", ![t].req = Read("overlaid")]
    /\ Watch(lower, upper)
    /\ UNCHANGED <<setup, lower, upper, owner, timers, calls, parted, crashed, ended, gone, late>>

Expire(t) ==
    /\ Step(t, "reply") /\ t \in Timers
    /\ task' = [task EXCEPT ![t] =
         IF @.req.kind = "overlaid"
         THEN [@ EXCEPT !.pc = "local", !.res = "none",
                        !.req = Delete(IF task[t].res = "error"
                                       THEN Zero ELSE task[t].res)]
         ELSE Resting("over")]
    /\ Watch(lower, upper)
    /\ UNCHANGED <<setup, lower, upper, owner, timers, calls, parted, crashed, ended, gone, late>>

(* Another user of the upper handler.                                       *)
UseUpper ==
    /\ Neighbour /\ ~crashed /\ calls < MaxCalls /\ calls' = calls + 1
    /\ upper' \in (Values \cup {Absent}) \ {upper}
    /\ UNCHANGED <<setup, lower, owner, task, timers, parted, crashed, ended, gone, late>>
    /\ Watch(lower, upper')

Handle(p) ==
    \/ LocalCas(p) \/ LocalGet(p) \/ LocalWrite(p)
    \/ DelegateMutation(p) \/ DelegateInsert(p) \/ UpdateLoad(p) \/ UpdateSwap(p)
    \/ LoadLocal(p) \/ LoadUpper(p) \/ Cache(p)

Work(c) ==
    \/ Serve(c) \/ Handle(c) \/ ServeTTL(c) \/ SetTTL(c) \/ HangInTTL(c)
    \/ ResetTTL(c) \/ Return(c)

Next ==
    \/ \E c \in Clients : Call(c) \/ Work(c) \/ GiveUp(c)
    \/ \E t \in Timers : Fire(t) \/ Handle(t) \/ Expire(t)
    \/ UseUpper \/ ServeLate
    \/ \E x \in Clients \cup Scopes : End(x)

Spec == Init /\ [][Next]_vars

(* While the scopes live their workers are scheduled, and each serves its   *)
(* requests in turn; a caller that waits watches its own context.           *)
ScopesLive == ended \cap Scopes = {}

Fairness ==
    \A c \in Clients :
        /\ SF_vars(ScopesLive /\ (Serve(c) \/ ServeTTL(c)))
        /\ WF_vars(ScopesLive /\ Work(c))
        /\ WF_vars(GiveUp(c))

FairSpec == Spec /\ Fairness
-----------------------------------------------------------------------------
Results == Values \cup {"none", "yes", "no", "error"}

TypeOK ==
    /\ {lower, upper} \subseteq Values \cup {Absent}
    /\ owner \in Clients \cup {NoOne} /\ timers \in 0..MaxTimers
    /\ \A p \in Clients \cup Timers :
         task[p].res \in Results /\ task[p].cur \in Values \cup {Absent}
           /\ task[p].tries \in 0..Attempts
    /\ \A c \in Clients : task[c].req \in Requests
    /\ ended \subseteq Clients \cup Scopes /\ gone \subseteq Clients
    /\ late \in Seq(Requests)

(* A load returns a value that one of the two stores held at some moment of *)
(* the call, whatever caching, expiry or other users of the upper handler   *)
(* do in between.                                                           *)
LoadIsFresh ==
    \A c \in Clients :
        task[c].pc = "reply" /\ task[c].req.kind \in {"overlaid", "load"}
          /\ task[c].res \in Values
            => \E s \in seen[c] : task[c].res \in {s[1], s[2]}

(* Write-through: with delegation, and as long as nobody else writes the    *)
(* upper store and no time to live is used, the lower store never disagrees *)
(* with the upper one between two requests - whichever callers gave up on   *)
(* theirs - until an insertion is refused for another value, or a           *)
(* delegation is left without an answer because a scope ended.              *)
WriteThrough ==
    HasUpper /\ Delegation /\ ~Neighbour /\ ~UseTTL
      /\ owner = NoOne /\ ~parted => lower \in {Absent, upper}

(* Every call returns while the scopes live: a worker waits for the handler *)
(* above it only, and the retries of an insertion end.  A caller whose own  *)
(* context ends comes back whatever became of the scopes.                   *)
CallReturns ==
    \A c \in Clients :
        /\ Waiting(c) ~> (~Waiting(c) \/ crashed \/ ~ScopesLive)
        /\ (c \in ended /\ Waiting(c)) ~> (~Waiting(c) \/ crashed)

(* One tier: whatever the store's interface, the worker makes the key an    *)
(* atomic cell, which may expire (over a CasStore: WriteSeesWhatItRead says *)
(* why).  A call takes effect when its result is decided, which may be      *)
(* after its caller's context ended and the caller left.  Two tiers map to  *)
(* a cell nobody uses, and so do resets: they ask for timers, not values.   *)
OneTier ==
    ~HasUpper /\ ~Delegation /\ (UseTTL => StoreKind = "cas") /\ "reset" \notin Kinds

CellOutcome(r, v) ==
    IF r.kind \in {"insert", "cas", "cad"}
    THEN IF Matches(r, v) \/ (r.kind = "cas" /\ r.old = r.new) THEN "yes" ELSE "no"
    ELSE IF v = Absent THEN "error" ELSE v

CellEffect(r, v) ==
    IF r.kind \in {"insert", "cas", "cad"} /\ Matches(r, v) THEN Left(r) ELSE v

CellCall ==
    [c \in Clients |->
        IF InCall(c) /\ OneTier
        THEN [request |-> [task[c].req EXCEPT !.ttl = NoTTL], result |-> task[c].res]
        ELSE [request |-> Read("none"), result |-> "none"]]

Cell == INSTANCE AtomicCell WITH
            value <- IF OneTier THEN lower ELSE Absent, call <- CellCall, Pending <- "none",
            NoRequest <- Read("none"),
            Outcome <- CellOutcome, Effect <- CellEffect,
            ended <- IF OneTier THEN ended \cap Clients ELSE {},
            away <- IF OneTier THEN gone ELSE {}

ImplementsCell == Cell!Spec

-----------------------------------------------------------------------------
(* state.go:193-195, "compares the current value of the specified key with  *)
(* the provided old value ... If they do not match, it returns false".      *)
SwappedMeansMatched ==
    \A c \in Clients :
        task[c].pc = "reply" /\ task[c].req.kind = "cas" /\ task[c].res = "yes"
            => \E s \in seen[c] : task[c].req.old \in {s[1], s[2]}

(* state.go:123-124, "inserts a new value into the state store if the key   *)
(* is not already present ... false if it already exists": what answers     *)
(* false changes neither store.                                             *)
RefusedInsertWritesNothing ==
    [][\A c \in Clients :
         (task[c].req.kind = "insert" /\ task[c].res = "no" /\ task'[c] # task[c])
            => upper' = upper]_vars

(* state.go:178, "If they do not match, it returns false and an error if    *)
(* the operation fails": it returns.                                        *)
NeverPanics == ~crashed

(* state.go:98, "It returns an error if the key is not found in both        *)
(* stores": and only then.                                                  *)
ErrorMeansNotFound ==
    \A c \in Clients :
        task[c].pc = "reply" /\ task[c].req.kind = "overlaid"
          /\ task[c].res = "error" /\ HasUpper
            => \E s \in seen[c] : s[1] = Absent /\ (\E u \in seen[c] : u[2] = Absent)

(* state.go:142, the insertion is delegated "without setting the timer": an *)
(* expiry of the lower handler leaves the upper store alone.                *)
ExpiryIsLocal ==
    [][\A t \in Timers : task[t].pc = "delegate" /\ task'[t].pc # "delegate"
                            => upper' = upper]_vars

(* state.go:141, "It sets a timer to delete the key after the specified TTL *)
(* duration": it does not delete what was inserted after it, with a timer   *)
(* of its own.                                                              *)
ExpiryIsOwn ==
    [][\A t \in Timers : (task[t].pc = "local" /\ lower # Absent /\ lower' = Absent
                            /\ task'[t] # task[t])
                            => t = timers]_vars

(* state.go:161, "It returns true if the TTL was reset, false if the key    *)
(* was not found".                                                          *)
ResetFindsTheKey ==
    \A c \in Clients :
        task[c].pc = "reply" /\ task[c].req.kind = "reset" /\ task[c].res = "yes"
            => \E s \in seen[c] : s[1] # Absent

(* state.go:250, "It supports safe concurrent access": nothing comes        *)
(* between a SetStore's Get and the Set or Delete that relies on it.        *)
WriteSeesWhatItRead ==
    \A p \in Clients \cup Timers : task[p].pc = "write" => lower = task[p].cur
=============================================================================
