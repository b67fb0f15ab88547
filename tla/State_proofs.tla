---------------------------- MODULE State_proofs ----------------------------
(***************************************************************************)
(* Theorems about the state effect, for any clients, values, handler       *)
(* configurations and number of timers.  Every action but SetTTL moves one *)
(* task, so the argument has two halves: what the task becomes (Handled    *)
(* for the steps of the handle function), and what a move of one task      *)
(* keeps of all the others (MoveKeeps).  A worker keeps the other clients  *)
(* of the key waiting (Exclusive), which no expiry goroutine respects:     *)
(* that is what the conditions Calm and OneTier are about.                 *)
(***************************************************************************)
EXTENDS State, StateEvents, Sequences, WellFoundedInduction, TLAPS

Cells == Values \cup {Absent}

(* Where a request may be: waiting for the worker, or served by it. *)
Waits == {"idle", "queued", "queued ttl"}
Served == {"local", "write", "delegate", "update", "swap", "load", "upper",
           "cache", "reset", "ttl", "hung", "reply"}
Alone == {"unset", "pending", "over"}

Tasks == [pc : Waits \cup Served \cup Alone, req : Requests, res : Results,
          cur : Cells, tries : 0..Attempts]

Typed ==
    /\ setup \in Setups
    /\ lower \in Cells /\ upper \in Cells
    /\ owner \in Clients \cup {NoOne} /\ timers \in 0..MaxTimers
    /\ task \in [Clients \cup Timers -> Tasks]
    /\ seen \in [Clients -> SUBSET (Cells \X Cells)]
    /\ parted \in BOOLEAN /\ crashed \in BOOLEAN
    /\ ended \subseteq Clients \cup Scopes /\ gone \subseteq Clients
    /\ late \in Seq(Requests) /\ (late # <<>> => parted)

(* The worker of the key serves one client at a time. *)
Exclusive == \A c \in Clients : task[c].pc \notin Waits => owner = c

Mutations == {"insert", "cas", "cad"}

(* What is known of a task from where it is. *)
Stage(x) ==
    /\ x.pc \in {"local", "write", "delegate"} => x.req.kind \in Mutations
    /\ x.pc \in {"local", "write"} /\ x.req.kind = "cas" => x.req.old # x.req.new
    /\ x.pc = "write" => StoreKind = "set"
    /\ x.pc \in {"update", "swap"} =>
            x.req.kind = "insert" /\ x.tries \in 1..Attempts /\ HasUpper
    /\ x.pc = "swap" => x.cur \in Values
    /\ x.pc = "load" => x.req.kind \in {"overlaid", "load"}
    /\ x.pc \in {"upper", "cache"} => x.req.kind = "overlaid"
    /\ x.pc = "cache" => HasUpper /\ x.cur \in Values
    /\ x.pc \in {"delegate", "update", "swap", "cache"} => Delegation
    /\ x.pc = "reset" => x.req.kind = "reset"
    /\ x.pc \in {"queued ttl", "ttl"} => x.req.kind = "insert" /\ x.req.ttl
    /\ x.pc \in {"pending", "queued", "local", "write", "load", "upper", "cache", "reset"} =>
            x.res = "none"
    /\ x.pc \in {"delegate", "update", "swap"} => x.res \in {"yes", "no"}
    /\ x.pc \in {"queued ttl", "ttl", "reply"} => x.res # "none"
    /\ x.pc = "reply" /\ x.req.kind \in {"overlaid", "load"} =>
            x.res \in Values \cup {"error"}

(* An expiry goroutine loads, then deletes. *)
TimerStage(x) ==
    /\ x.pc \notin {"update", "swap", "reset", "ttl"} \cup Waits
    /\ x.pc = "load" => x.req.kind = "overlaid"
    /\ x.pc \in {"local", "write", "delegate"} => x.req.kind = "cad" /\ x.req.new = Absent
    /\ x.pc = "reply" => x.req.kind \in {"overlaid", "cad"}
    /\ ~UseTTL => x.pc = "unset"

Stages ==
    /\ \A p \in Clients \cup Timers : Stage(task[p])
    /\ \A t \in Timers : TimerStage(task[t])
    /\ \A c \in Clients :
         /\ task[c].pc \notin Alone
         /\ task[c].pc # "idle" => task[c].req.kind \in Kinds
         /\ task[c].req.ttl => UseTTL

(* A call that is watched has seen the present state of the stores, and    *)
(* what it is about to return was in one of them.                          *)
Fresh ==
    \A c \in Clients :
        task[c].pc # "idle" /\ task[c].req.kind \in Witnessed =>
            /\ <<lower, upper>> \in seen[c]
            /\ task[c].pc = "cache" => \E s \in seen[c] : s[2] = task[c].cur

(* How far the stores agree at each stage of the one request that is       *)
(* served, when nobody else comes near them.                               *)
Calm == HasUpper /\ Delegation /\ ~Neighbour /\ ~UseTTL /\ ~parted
Agree(l, u) == l \in {Absent, u}

Agreeing(x, l, u) ==
    /\ x.pc \in {"local", "load", "upper", "cache", "reset", "ttl", "reply"} => Agree(l, u)
    /\ x.pc = "cache" => x.cur = u
    /\ x.pc = "delegate" =>
        /\ x.req.kind = "insert" => l = x.req.new
        /\ x.req.kind # "insert" /\ x.res = "yes" => l = x.req.new /\ u = x.req.old
        /\ x.req.kind # "insert" /\ x.res # "yes" => Agree(l, u) /\ l # x.req.old
    /\ x.pc = "update" => l = x.req.new /\ u # Absent
    /\ x.pc = "swap" => l = x.req.new /\ u = x.cur

Agreement ==
    Calm => /\ owner = NoOne => Agree(lower, upper)
            /\ \A c \in Clients : Agreeing(task[c], lower, upper)

(* In one tier nothing comes between a read and what relies on it. *)
Undisturbed ==
    OneTier => \A c \in Clients :
        /\ task[c].pc = "upper" => lower = Absent
        /\ task[c].pc = "write" => lower = task[c].cur

StateInv ==
    Typed /\ Exclusive /\ Stages /\ Fresh /\ LoadIsFresh /\ Agreement /\ Undisturbed

-----------------------------------------------------------------------------
Kind == {"insert", "cas", "cad", "overlaid", "load", "reset"}

LEMMA NoTTLIsFalse == NoTTL \in BOOLEAN /\ ~NoTTL
BY DEF NoTTL

LEMMA RequestShape ==
    ASSUME NEW r \in Requests
    PROVE  /\ r \in [kind : Kind, old : Cells, new : Cells, ttl : BOOLEAN]
           /\ r.kind = "insert" => r.old = Absent /\ r.new \in Values
           /\ r.kind = "cas" => r.old \in Values /\ r.new \in Values
           /\ r.kind = "cad" => r.old \in Values /\ r.new = Absent
           /\ r.ttl => r.kind = "insert"
           /\ [r EXCEPT !.ttl = NoTTL] \in Requests
<1> DEFINE shape(q) ==
      /\ q \in [kind : Kind, old : Cells, new : Cells, ttl : BOOLEAN]
      /\ q.kind = "insert" => q.old = Absent /\ q.new \in Values
      /\ q.kind = "cas" => q.old \in Values /\ q.new \in Values
      /\ q.kind = "cad" => q.old \in Values /\ q.new = Absent
      /\ q.ttl => q.kind = "insert"
      /\ [q EXCEPT !.ttl = NoTTL] \in Requests
<1>1. ASSUME NEW v \in Values, NEW b \in BOOLEAN PROVE shape(Insert(v, b))
  <2>1. [Insert(v, b) EXCEPT !.ttl = NoTTL] = Insert(v, NoTTL)
      BY NoTTLIsFalse DEF Insert
  <2>2. Insert(v, NoTTL) \in Requests
      BY NoTTLIsFalse DEF Requests
  <2> QED BY <2>1, <2>2, NoTTLIsFalse DEF Insert, Cells, Kind
<1>2. ASSUME NEW v \in Values, NEW w \in Values PROVE shape(Swap(v, w))
  <2>1. [Swap(v, w) EXCEPT !.ttl = NoTTL] = Swap(v, w)
      BY NoTTLIsFalse DEF Swap
  <2>2. Swap(v, w) \in Requests
      BY DEF Requests
  <2> QED BY <2>1, <2>2, NoTTLIsFalse DEF Swap, Cells, Kind
<1>3. ASSUME NEW v \in Values PROVE shape(Delete(v))
  <2>1. [Delete(v) EXCEPT !.ttl = NoTTL] = Delete(v)
      BY NoTTLIsFalse DEF Delete
  <2>2. Delete(v) \in Requests
      BY DEF Requests
  <2> QED BY <2>1, <2>2, NoTTLIsFalse DEF Delete, Cells, Kind
<1>4. ASSUME NEW k \in {"overlaid", "load", "reset"} PROVE shape(Read(k))
  <2>1. [Read(k) EXCEPT !.ttl = NoTTL] = Read(k)
      BY NoTTLIsFalse DEF Read
  <2>2. Read(k) \in Requests
      BY DEF Requests
  <2> QED BY <2>1, <2>2, NoTTLIsFalse DEF Read, Cells, Kind
<1> HIDE DEF shape
<1>5. shape(r)
    BY <1>1, <1>2, <1>3, <1>4 DEF Requests
<1> QED BY <1>5 DEF shape

LEMMA CellsDistinct ==
    /\ Absent \notin Values /\ Zero \in Values
    /\ Values \cap {"none", "yes", "no", "error"} = {}
BY ValuesAssumption DEF Absent

LEMMA RestingTask ==
    ASSUME NEW pc \in Waits \cup Served \cup Alone
    PROVE  /\ Resting(pc) \in Tasks
           /\ Resting(pc).pc = pc /\ Resting(pc).res = "none"
           /\ Resting(pc).req.kind = "load" /\ ~Resting(pc).req.ttl
<1>1. Read("load") \in Requests
    BY DEF Requests
<1>2. "none" \in Results /\ Absent \in Cells /\ 0 \in 0..Attempts
    BY DEF Results, Cells, Attempts
<1> QED BY <1>1, <1>2, NoTTLIsFalse DEF Resting, Tasks, Read

LEMMA InitStateInv == Init => StateInv
<1> SUFFICES ASSUME Init PROVE StateInv
    OBVIOUS
<1> DEFINE place(p) == IF p \in Clients THEN "idle" ELSE "unset"
<1>0. \A p \in Clients \cup Timers : task[p] = Resting(place(p))
    BY DEF Init
<1>a. \A p \in Clients \cup Timers :
        /\ task[p] \in Tasks
        /\ task[p].pc = place(p) /\ task[p].res = "none"
        /\ task[p].req.kind = "load" /\ ~task[p].req.ttl
  <2> SUFFICES ASSUME NEW p \in Clients \cup Timers
               PROVE  /\ task[p] \in Tasks
                      /\ task[p].pc = place(p) /\ task[p].res = "none"
                      /\ task[p].req.kind = "load" /\ ~task[p].req.ttl
      OBVIOUS
  <2>1. place(p) \in Waits \cup Served \cup Alone
      BY DEF Waits, Alone
  <2> HIDE DEF place
  <2> QED BY <1>0, <2>1, RestingTask
<1>b. /\ \A c \in Clients : place(c) = "idle"
      /\ \A t \in Timers : place(t) = "unset"
    BY ClientsAssumption
<1> HIDE DEF place
<1>1. Typed
  <2>1. task \in [Clients \cup Timers -> Tasks]
    BY <1>a DEF Init
  <2>2. Absent \in Cells /\ 0 \in 0..MaxTimers
    BY ClientsAssumption DEF Cells
  <2>3. seen \in [Clients -> SUBSET (Cells \X Cells)]
    BY DEF Init
  <2>4. late \in Seq(Requests) /\ late = <<>> /\ ended = {} /\ gone = {}
    BY DEF Init
  <2> QED BY <2>1, <2>2, <2>3, <2>4 DEF Init, Typed
<1>2. Exclusive
    BY <1>a, <1>b DEF Exclusive, Waits
<1>3. Stages
  <2>1. \A p \in Clients \cup Timers : Stage(task[p])
    BY <1>a, <1>b DEF Stage
  <2>2. \A t \in Timers : TimerStage(task[t])
    BY <1>a, <1>b DEF TimerStage, Waits
  <2> QED BY <1>a, <1>b, <2>1, <2>2 DEF Stages, Alone
<1>4. Fresh /\ LoadIsFresh
    BY <1>a, <1>b DEF Fresh, LoadIsFresh
<1>5. Agreement /\ Undisturbed
    BY <1>a, <1>b DEF Init, Agreement, Undisturbed, Agreeing, Agree
<1> QED BY <1>1, <1>2, <1>3, <1>4, <1>5 DEF StateInv

-----------------------------------------------------------------------------
(* What a task may become, whoever moves it: a client that starts to cache *)
(* has just read the upper store, and one that is about to return a value  *)
(* has just read the lower store or cached the value.                      *)
Lands(q, x) ==
    /\ x \in Tasks /\ Stage(x)
    /\ q \in Timers => TimerStage(x)
    /\ q \in Clients =>
        /\ x.pc \notin Alone
        /\ x.pc # "idle" => x.req.kind \in Kinds
        /\ x.req.ttl => UseTTL
        /\ x.pc = "cache" => x.cur = upper
        /\ x.pc = "reply" /\ x.req.kind \in {"overlaid", "load"} /\ x.res \in Values =>
              x.res = lower \/ (task[q].pc = "cache" /\ x.res = task[q].cur)

Shaped ==
    /\ setup' = setup /\ lower' \in Cells /\ upper' \in Cells
    /\ owner' \in Clients \cup {NoOne} /\ timers' \in 0..MaxTimers
    /\ parted' \in BOOLEAN /\ crashed' \in BOOLEAN
    /\ ended' \subseteq Clients \cup Scopes /\ gone' \subseteq Clients
    /\ late' \in Seq(Requests) /\ (late' # <<>> => parted')
    /\ task' \in [Clients \cup Timers -> Tasks]
    /\ Watch(lower', upper')

LEMMA WatchGrows ==
    ASSUME Typed, Shaped
    PROVE  /\ seen' \in [Clients -> SUBSET (Cells \X Cells)]
           /\ \A c \in Clients :
                task'[c].pc # "idle" /\ task'[c].req.kind \in Witnessed =>
                    /\ <<lower, upper>> \in seen'[c]
                    /\ <<lower', upper'>> \in seen'[c]
                    /\ \A s \in seen[c] : s \in seen'[c]
BY DEF Typed, Shaped, Watch

LEMMA MoveKeeps ==
    ASSUME Typed, Stages, Fresh, LoadIsFresh, Shaped,
           \A q \in Clients \cup Timers : task'[q] = task[q] \/ Lands(q, task'[q])
    PROVE  Typed' /\ Stages' /\ Fresh' /\ LoadIsFresh'
<1>1. Typed'
  <2>1. seen' \in [Clients -> SUBSET (Cells \X Cells)]
      BY WatchGrows
  <2>2. setup' \in Setups
      BY DEF Typed, Shaped
  <2> QED BY <2>1, <2>2 DEF Typed, Shaped
<1>2. Stages'
  <2>1. \A q \in Clients \cup Timers : Stage(task[q])' <=> Stage(task'[q])
      BY DEF Shaped, Stage, StoreKind, HasUpper, Delegation
  <2>2. \A q \in Timers : TimerStage(task[q])' <=> TimerStage(task'[q])
      BY DEF Shaped, TimerStage, UseTTL
  <2>3. \A q \in Clients \cup Timers : Stage(task'[q])
      BY DEF Stages, Lands
  <2>4. \A q \in Timers : TimerStage(task'[q])
      BY DEF Stages, Lands
  <2>5. \A c \in Clients :
         /\ task'[c].pc \notin Alone
         /\ task'[c].pc # "idle" => task'[c].req.kind \in Kinds
         /\ task'[c].req.ttl => UseTTL
      BY DEF Stages, Lands
  <2>6. (\A q \in Clients \cup Timers : Stage(task[q])')
        /\ (\A t \in Timers : TimerStage(task[t])')
      BY <2>1, <2>2, <2>3, <2>4
  <2>7. Kinds' = Kinds /\ UseTTL' = UseTTL
      BY DEF Shaped, Kinds, UseTTL
  <2> QED BY <2>5, <2>6, <2>7 DEF Stages
<1>3. ASSUME NEW c \in Clients, task'[c].pc # "idle", task'[c].req.kind \in Witnessed
      PROVE  /\ <<lower', upper'>> \in seen'[c]
             /\ task'[c].pc = "cache" => \E s \in seen'[c] : s[2] = task'[c].cur
  <2>1. /\ <<lower, upper>> \in seen'[c] /\ <<lower', upper'>> \in seen'[c]
        /\ \A s \in seen[c] : s \in seen'[c]
      BY <1>3, WatchGrows
  <2>2. CASE task'[c] = task[c]
      BY <1>3, <2>1, <2>2 DEF Fresh
  <2>3. CASE Lands(c, task'[c])
      BY <1>3, <2>1, <2>3 DEF Lands
  <2> QED BY <2>2, <2>3
<1>4. Fresh'
    BY <1>3 DEF Fresh, Witnessed
<1>5. ASSUME NEW c \in Clients, task'[c].pc = "reply",
             task'[c].req.kind \in {"overlaid", "load"}, task'[c].res \in Values
      PROVE  \E s \in seen'[c] : task'[c].res \in {s[1], s[2]}
  <2>1. /\ <<lower, upper>> \in seen'[c]
        /\ \A s \in seen[c] : s \in seen'[c]
      BY <1>5, WatchGrows DEF Witnessed
  <2>2. CASE task'[c] = task[c]
      BY <1>5, <2>1, <2>2 DEF LoadIsFresh
  <2>3. CASE Lands(c, task'[c]) /\ task'[c].res = lower
      BY <2>1, <2>3
  <2>4. CASE task[c].pc = "cache" /\ task'[c].res = task[c].cur
    <3>1. task[c].req.kind = "overlaid"
        BY <2>4 DEF Stages, Stage
    <3>2. PICK s \in seen[c] : s[2] = task[c].cur
        BY <2>4, <3>1 DEF Fresh, Witnessed
    <3> QED BY <2>1, <2>4, <3>2
  <2> QED BY <1>5, <2>2, <2>3, <2>4 DEF Lands
<1>6. LoadIsFresh'
    BY <1>5 DEF LoadIsFresh
<1> QED BY <1>1, <1>2, <1>4, <1>6

-----------------------------------------------------------------------------
(* How a client's step looks in the cell: nothing, or the call's effect. *)
CellStep(c, x) ==
    /\ x.req = task[c].req
    /\ \/ lower' = lower /\ x.res = task[c].res
       \/ /\ task[c].res = "none"
          /\ lower' = CellEffect(task[c].req, lower)
          /\ x.res = CellOutcome(task[c].req, lower)

(* What a step of the handle function makes of the task that takes it. *)
Handled(p, x) ==
    /\ task' = [task EXCEPT ![p] = x]
    /\ Shaped /\ owner' = owner /\ (parted => parted') /\ UNCHANGED <<ended, gone>>
    /\ Lands(p, x) /\ x.pc \in Served
    /\ p \in Clients /\ Calm' => Agreeing(x, lower', upper')
    /\ OneTier =>
        /\ p \in Clients =>
            /\ x.pc = "upper" => lower' = Absent
            /\ x.pc = "write" => lower' = x.cur
            /\ CellStep(p, x)
        /\ p \in Timers => lower' \in {lower, Absent}

LEMMA TaskShape ==
    ASSUME Typed, NEW p \in Clients \cup Timers
    PROVE  /\ task[p] \in Tasks
           /\ task[p].req \in [kind : Kind, old : Cells, new : Cells, ttl : BOOLEAN]
           /\ task[p].req.kind = "insert" => task[p].req.old = Absent /\ task[p].req.new \in Values
           /\ task[p].req.kind = "cas" => task[p].req.old \in Values /\ task[p].req.new \in Values
           /\ task[p].req.kind = "cad" => task[p].req.old \in Values /\ task[p].req.new = Absent
           /\ task[p].req.ttl => task[p].req.kind = "insert"
<1>1. task[p] \in Tasks /\ task[p].req \in Requests
    BY DEF Typed, Tasks
<1> QED BY <1>1, RequestShape

(* A task that moves is in Tasks, and the function keeps its shape. *)
LEMMA TasksKept ==
    ASSUME Typed, NEW p \in Clients \cup Timers, NEW x \in Tasks,
           task' = [task EXCEPT ![p] = x]
    PROVE  task' \in [Clients \cup Timers -> Tasks]
BY DEF Typed

LEMMA MutateHandled ==
    ASSUME StateInv, NEW p \in Clients \cup Timers,
           task[p].pc \in {"local", "write"},
           NEW found \in Cells,
           p \in Clients /\ (Delegation \/ OneTier) => found = lower,
           Mutate(p, found)
    PROVE  \E x \in Tasks : Handled(p, x)
<1> DEFINE r == task[p].req
           ok == found = r.old
<1>0. Typed /\ Exclusive /\ Stages /\ Agreement
    BY DEF StateInv
<1>1. /\ task[p] \in Tasks /\ r.old \in Cells /\ r.new \in Cells /\ r \in Requests
      /\ r.kind = "cas" => r.old \in Values /\ r.new \in Values
      /\ r.kind = "cad" => r.old \in Values /\ r.new = Absent
      /\ r.kind = "insert" => r.old = Absent
    BY <1>0, TaskShape DEF Tasks
<1> DEFINE answer == IF ok THEN "yes" ELSE "no"
<1>a. PICK pc \in AfterEvent(r, ok) :
        task' = [task EXCEPT ![p].pc = pc, ![p].cur = Absent, ![p].res = answer]
    BY DEF Mutate, Matches
<1>b. pc \in {AfterLocal, "hung"}
    BY DEF AfterEvent
<1>2. PICK x \in Tasks :
        /\ x = [task[p] EXCEPT !.pc = pc, !.cur = Absent, !.res = answer]
        /\ x.pc = pc /\ x.req = r /\ x.res = answer
  <2> DEFINE y == [task[p] EXCEPT !.pc = pc, !.cur = Absent, !.res = answer]
  <2>1. pc \in Waits \cup Served \cup Alone /\ answer \in Results /\ Absent \in Cells
      BY <1>b DEF AfterLocal, Served, Results, Cells
  <2>2. y \in Tasks /\ y.pc = pc /\ y.req = r /\ y.res = answer
      BY <1>1, <2>1 DEF Tasks
  <2> QED BY <2>2
<1>3. task' = [task EXCEPT ![p] = x]
    BY <1>0, <1>2, <1>a DEF Typed
<1>4. /\ lower' = IF ok THEN r.new ELSE lower
      /\ parted' = (parted \/ (r.kind = "insert" /\ found \notin {Absent, r.new}))
      /\ UNCHANGED <<setup, upper, owner, timers, calls, crashed, ended, gone, late>>
      /\ Watch(lower', upper')
    BY DEF Mutate, Matches, Left
<1>5. Shaped
    BY <1>0, <1>1, <1>3, <1>4, TasksKept DEF Shaped, Typed
<1>6. /\ r.kind \in Mutations /\ (r.kind = "cas" => r.old # r.new)
      /\ task[p].res = "none"
      /\ task[p].pc # "idle" /\ task[p].pc # "unset"
    BY <1>0 DEF Stages, Stage
<1>7. Lands(p, x)
  <2>1. Stage(x)
    <3>1. /\ x.pc \in {"delegate", "reply", "hung"} /\ (x.pc = "delegate" => Delegation)
          /\ x.res \in {"yes", "no"} /\ x.req.kind \in Mutations
        BY <1>2, <1>6, <1>b DEF AfterLocal
    <3> QED BY <3>1 DEF Stage, Mutations
  <2>2. p \in Timers => TimerStage(x)
    <3> SUFFICES ASSUME p \in Timers PROVE TimerStage(x)
        OBVIOUS
    <3>1. r.kind = "cad" /\ r.new = Absent /\ UseTTL
        BY <1>0, <1>6, <1>1 DEF Stages, TimerStage
    <3>2. x.pc \in {"delegate", "reply", "hung"}
        BY <1>2, <1>b DEF AfterLocal
    <3> QED BY <1>2, <3>1, <3>2 DEF TimerStage, Waits
  <2> QED BY <1>0, <1>2, <1>6, <1>b, <2>1, <2>2 DEF Lands, Stages, AfterLocal, Alone, Mutations
<1>8. p \in Clients /\ Calm' => Agreeing(x, lower', upper')
  <2> SUFFICES ASSUME p \in Clients, Calm' PROVE Agreeing(x, lower', upper')
      OBVIOUS
  <2>1. Calm /\ Delegation /\ ~parted'
      BY <1>4 DEF Calm, HasUpper, Delegation, Neighbour, UseTTL
  <2>2. task[p].pc = "local"
      BY <1>0, <2>1, SetupsAssumption DEF Stages, Stage, StoreKind, Delegation, Typed
  <2>3. found = lower /\ Agree(lower, upper)
      BY <1>0, <2>1, <2>2 DEF Agreement, Agreeing
  <2>4. /\ r.kind = "insert" => lower' = r.new
        /\ r.kind # "insert" /\ ok => lower' = r.new /\ upper' = r.old
        /\ r.kind # "insert" /\ ~ok => lower' \in {Absent, upper'} /\ lower' # r.old
    <3>1. upper' = upper /\ lower' = IF lower = r.old THEN r.new ELSE lower
        BY <1>4, <2>3
    <3>2. r.kind = "insert" => r.old = Absent /\ lower \in {Absent, r.new}
        BY <1>1, <1>4, <2>1, <2>3
    <3>3. r.kind # "insert" => r.old \in Values
        BY <1>1, <1>6 DEF Mutations
    <3> QED BY <2>3, <3>1, <3>2, <3>3, CellsDistinct DEF Agree
  <2>5. /\ x.pc \in {"delegate", "hung"} /\ x.req = r
        /\ x.res = "yes" <=> ok
      BY <1>2, <1>b, <2>1 DEF AfterLocal
  <2>6. /\ x.req.kind = "insert" => lower' = x.req.new
        /\ x.req.kind # "insert" /\ x.res = "yes" => lower' = x.req.new /\ upper' = x.req.old
        /\ x.req.kind # "insert" /\ x.res # "yes" =>
                lower' \in {Absent, upper'} /\ lower' # x.req.old
      BY <2>4, <2>5
  <2> QED BY <2>5, <2>6 DEF Agreeing, Agree
<1>9. OneTier => /\ p \in Clients =>
                     /\ x.pc \notin {"upper", "write"}
                     /\ CellStep(p, x)
                 /\ p \in Timers => lower' \in {lower, Absent}
  <2>1. p \in Timers => r.kind = "cad"
      BY <1>0 DEF Stages, TimerStage
  <2>2. ASSUME OneTier, p \in Clients
        PROVE  /\ lower' = CellEffect(r, lower)
               /\ x.res = CellOutcome(r, lower)
      BY <1>2, <1>4, <1>6, <2>2 DEF CellEffect, CellOutcome, Matches, Left, Mutations
  <2> QED BY <1>1, <1>2, <1>4, <1>6, <1>b, <2>1, <2>2 DEF CellStep, AfterLocal
<1>10. Handled(p, x)
  <2>1. x.pc \in Served /\ x.pc \notin {"upper", "write"}
      BY <1>2, <1>b DEF AfterLocal, Served
  <2> QED BY <2>1, <1>3, <1>4, <1>5, <1>7, <1>8, <1>9 DEF Handled
<1> QED BY <1>2, <1>10

LEMMA LocalHandled ==
    ASSUME StateInv, NEW p \in Clients \cup Timers,
           LocalCas(p) \/ LocalGet(p) \/ LocalWrite(p)
    PROVE  \E x \in Tasks : Handled(p, x)
<1>0. Typed /\ Exclusive /\ Stages /\ Agreement /\ Undisturbed
    BY DEF StateInv
<1>1. lower \in Cells /\ task[p] \in Tasks /\ task[p].cur \in Cells
    BY <1>0, TaskShape DEF Typed, Tasks
<1>2. CASE LocalCas(p)
    BY <1>1, <1>2, MutateHandled DEF LocalCas, Step
<1>3. CASE LocalGet(p) /\ ~Matches(task[p].req, lower)
    BY <1>1, <1>3, MutateHandled DEF LocalGet, Step
<1>4. CASE LocalWrite(p)
  <2>1. task[p].pc = "write" /\ Mutate(p, task[p].cur)
      BY <1>4 DEF LocalWrite, Step
  <2>2. StoreKind = "set" /\ ~Delegation
      BY <1>0, <2>1, SetupsAssumption DEF Stages, Stage, StoreKind, Delegation, Typed
  <2>3. p \in Clients /\ OneTier => task[p].cur = lower
      BY <1>0, <2>1 DEF Undisturbed
  <2> QED BY <1>1, <2>1, <2>2, <2>3, MutateHandled
<1>5. CASE LocalGet(p) /\ Matches(task[p].req, lower)
  <2>1. PICK x \in Tasks :
          /\ x = [task[p] EXCEPT !.pc = "write", !.cur = lower]
          /\ x.pc = "write" /\ x.cur = lower /\ x.req = task[p].req /\ x.res = task[p].res
    <3> DEFINE y == [task[p] EXCEPT !.pc = "write", !.cur = lower]
    <3>1. y \in Tasks /\ y.pc = "write" /\ y.cur = lower
          /\ y.req = task[p].req /\ y.res = task[p].res
        BY <1>1 DEF Tasks, Served
    <3> QED BY <3>1
  <2>2. /\ task' = [task EXCEPT ![p] = x]
        /\ UNCHANGED <<setup, lower, upper, owner, timers, calls, parted, crashed, ended, gone, late>>
        /\ Watch(lower', upper')
        /\ task[p].pc = "local" /\ StoreKind = "set"
      BY <1>0, <1>5, <2>1 DEF LocalGet, Step, Typed
  <2>3. Shaped
      BY <1>0, <2>2, TasksKept DEF Shaped, Typed
  <2>4. Lands(p, x)
    <3>1. Stage(x)
      <4>1. Stage(task[p])
          BY <1>0 DEF Stages
      <4>2. /\ x.req.kind \in Mutations /\ (x.req.kind = "cas" => x.req.old # x.req.new)
            /\ x.pc = "write" /\ x.res = "none" /\ StoreKind = "set"
          BY <2>1, <2>2, <4>1 DEF Stage
      <4> HIDE DEF Mutations
      <4> QED BY <4>2 DEF Stage
    <3>2. p \in Timers => TimerStage(x)
        BY <1>0, <2>1, <2>2 DEF Stages, TimerStage, Waits
    <3> QED BY <1>0, <2>1, <2>2, <3>1, <3>2 DEF Lands, Stages, Alone
  <2>5. Handled(p, x)
      BY <2>1, <2>2, <2>3, <2>4 DEF Handled, Served, CellStep, Agreeing
  <2> QED BY <2>5
<1> QED BY <1>2, <1>3, <1>4, <1>5

(* The steps in the upper handler are of a handler that delegates: no cell *)
(* is about them, and with anybody near the stores they agree on nothing.  *)
(* What a delegation does to the upper store and to its queue. *)
LEMMA Delegating ==
    ASSUME Typed, NEW r \in Requests, Answered(r) \/ Unanswered(r)
    PROVE  /\ upper' \in Cells
           /\ late' \in Seq(Requests) /\ (late' # <<>> => parted')
           /\ parted' \in BOOLEAN /\ (parted => parted')
           /\ Answered(r) => HasUpper /\ parted' = parted
                               /\ upper' = IF upper = r.old THEN r.new ELSE upper
           /\ Unanswered(r) => parted'
<1>1. Above(r) = IF upper = r.old THEN r.new ELSE upper
    BY DEF Above, Matches, Left
<1>2. Above(r) \in Cells
    BY <1>1, RequestShape DEF Typed
<1>3. upper \in Cells /\ late \in Seq(Requests) /\ parted \in BOOLEAN /\ (late # <<>> => parted)
    BY DEF Typed
<1>4. CASE Answered(r)
    BY <1>1, <1>2, <1>3, <1>4 DEF Answered, Unanswered
<1>5. CASE Unanswered(r)
  <2>1. Append(late, r) \in Seq(Requests)
      BY <1>3
  <2>2. parted' = TRUE /\ upper' \in Cells /\ late' \in Seq(Requests)
      BY <1>2, <1>3, <1>5, <2>1 DEF Unanswered
  <2>3. ~Answered(r) \/ (HasUpper /\ parted' = parted /\ upper' = Above(r))
      BY DEF Answered
  <2> QED BY <1>1, <2>2, <2>3
<1> QED BY <1>4, <1>5

(* The steps in the upper handler are of a handler that delegates: no cell *)
(* is about them, and with anybody near the stores they agree on nothing.  *)
LEMMA DelegateMutationHandled ==
    ASSUME StateInv, NEW p \in Clients \cup Timers, DelegateMutation(p)
    PROVE  \E x \in Tasks : Handled(p, x)
<1> DEFINE r == task[p].req
<1>0. Typed /\ Stages /\ Agreement
    BY DEF StateInv
<1>1. /\ task[p] \in Tasks /\ r \in Requests /\ r.old \in Cells /\ r.new \in Cells
      /\ r.kind = "cas" => r.old \in Values /\ r.new \in Values
      /\ r.kind = "cad" => r.old \in Values /\ r.new = Absent
    BY <1>0, TaskShape DEF Tasks
<1>2. /\ task[p].pc = "delegate" /\ r.kind \in {"cas", "cad"}
      /\ task[p].res \in {"yes", "no"} /\ Delegation
    BY <1>0 DEF DelegateMutation, Step, Stages, Stage
<1>3. PICK answer \in {task[p].res, "yes"} :
        /\ task' = [task EXCEPT ![p].pc = "reply", ![p].res = answer]
        /\ Answered(r) \/ Unanswered(r)
  <2>1. [task EXCEPT ![p].pc = "reply"] = [task EXCEPT ![p].pc = "reply", ![p].res = task[p].res]
      BY <1>0, <1>1 DEF Typed, Tasks
  <2> QED BY <2>1 DEF DelegateMutation
<1>4. PICK x \in Tasks :
        /\ x = [task[p] EXCEPT !.pc = "reply", !.res = answer]
        /\ x.pc = "reply" /\ x.res = answer /\ x.req = r
  <2>1. answer \in Results
      BY <1>2, <1>3 DEF Results
  <2> DEFINE y == [task[p] EXCEPT !.pc = "reply", !.res = answer]
  <2>2. y \in Tasks /\ y.pc = "reply" /\ y.res = answer /\ y.req = r
      BY <1>1, <2>1 DEF Tasks, Served
  <2> QED BY <2>2
<1>5. task' = [task EXCEPT ![p] = x]
    BY <1>0, <1>3, <1>4 DEF Typed
<1>6. /\ crashed' \in BOOLEAN
      /\ UNCHANGED <<setup, lower, owner, timers, calls, ended, gone>>
      /\ Watch(lower', upper')
    BY <1>0 DEF DelegateMutation, Typed
<1>7. Shaped /\ (parted => parted')
  <2>1. /\ upper' \in Cells /\ late' \in Seq(Requests) /\ (late' # <<>> => parted')
        /\ parted' \in BOOLEAN /\ (parted => parted')
      BY <1>0, <1>1, <1>3, Delegating
  <2> QED BY <1>0, <1>5, <1>6, <2>1, TasksKept DEF Shaped, Typed
<1>8. Lands(p, x)
  <2>1. Stage(x)
      BY <1>2, <1>3, <1>4 DEF Stage
  <2>2. p \in Timers => TimerStage(x)
      BY <1>0, <1>2, <1>4 DEF Stages, TimerStage, Waits
  <2> QED BY <1>0, <1>2, <1>4, <2>1, <2>2 DEF Lands, Stages, Alone
<1>9. p \in Clients /\ Calm' => Agreeing(x, lower', upper')
  <2> SUFFICES ASSUME p \in Clients, Calm' PROVE Agreeing(x, lower', upper')
      OBVIOUS
  <2>1. Calm /\ ~parted'
      BY <1>6, <1>7 DEF Calm, HasUpper, Delegation, Neighbour, UseTTL
  <2>2. upper' = IF upper = r.old THEN r.new ELSE upper
      BY <1>0, <1>1, <1>3, <2>1, Delegating
  <2>3. Agreeing(task[p], lower, upper)
      BY <1>0, <2>1 DEF Agreement
  <2>4. Agree(lower', upper')
      BY <1>1, <1>2, <1>6, <2>2, <2>3 DEF Agreeing, Agree
  <2> QED BY <1>4, <2>4 DEF Agreeing
<1>10. ~OneTier
    BY <1>2 DEF OneTier
<1> QED BY <1>4, <1>5, <1>6, <1>7, <1>8, <1>9, <1>10 DEF Handled, Served

LEMMA DelegateInsertHandled ==
    ASSUME StateInv, NEW p \in Clients \cup Timers, DelegateInsert(p)
    PROVE  \E x \in Tasks : Handled(p, x)
<1> DEFINE r == task[p].req
<1>0. Typed /\ Stages /\ Agreement
    BY DEF StateInv
<1>1. /\ task[p] \in Tasks /\ r \in Requests
      /\ r.kind = "insert" => r.old = Absent /\ r.new \in Values
    BY <1>0, TaskShape DEF Tasks
<1>2. /\ task[p].pc = "delegate" /\ r.kind = "insert"
      /\ task[p].res \in {"yes", "no"} /\ Delegation
    BY <1>0 DEF DelegateInsert, Step, Stages, Stage
<1>3. PICK next \in {"update", "reply"}, n \in {Attempts, task[p].tries} :
        /\ task' = [task EXCEPT ![p].pc = next, ![p].tries = n]
        /\ \/ /\ Answered(r) /\ n = Attempts
              /\ next = IF upper = Absent THEN "reply" ELSE "update"
           \/ Unanswered(r) /\ next = "reply"
  <2>1. [task EXCEPT ![p].pc = "reply"]
           = [task EXCEPT ![p].pc = "reply", ![p].tries = task[p].tries]
      BY <1>0, <1>1 DEF Typed, Tasks
  <2>2. r.old = Absent
      BY <1>1, <1>2
  <2> QED BY <2>1, <2>2 DEF DelegateInsert, Matches
<1>4. PICK x \in Tasks :
        /\ x = [task[p] EXCEPT !.pc = next, !.tries = n]
        /\ x.pc = next /\ x.tries = n /\ x.req = r /\ x.res = task[p].res
  <2>1. next \in Served /\ n \in 0..Attempts
      BY <1>1, <1>3 DEF Served, Tasks, Attempts
  <2> DEFINE y == [task[p] EXCEPT !.pc = next, !.tries = n]
  <2>2. y \in Tasks /\ y.pc = next /\ y.tries = n /\ y.req = r /\ y.res = task[p].res
      BY <1>1, <2>1 DEF Tasks
  <2> QED BY <2>2
<1>5. task' = [task EXCEPT ![p] = x]
    BY <1>0, <1>3, <1>4 DEF Typed
<1>6. /\ UNCHANGED <<setup, lower, owner, timers, calls, crashed, ended, gone>>
      /\ Watch(lower', upper')
    BY DEF DelegateInsert
<1>7. Shaped /\ (parted => parted')
  <2>1. /\ upper' \in Cells /\ late' \in Seq(Requests) /\ (late' # <<>> => parted')
        /\ parted' \in BOOLEAN /\ (parted => parted')
      BY <1>0, <1>1, <1>3, Delegating
  <2> QED BY <1>0, <1>5, <1>6, <2>1, TasksKept DEF Shaped, Typed
<1>8. Lands(p, x)
  <2>1. next = "update" => HasUpper /\ n \in 1..Attempts
      BY <1>3 DEF Answered, Attempts
  <2>2. Stage(x)
      BY <1>2, <1>3, <1>4, <2>1 DEF Stage
  <2>3. p \in Clients
      BY <1>0, <1>2 DEF Stages, TimerStage
  <2>4. p \notin Timers
      BY <2>3, ClientsAssumption
  <2>5. x.pc \notin Alone /\ x.pc # "cache"
      BY <1>3, <1>4 DEF Alone
  <2> QED BY <1>0, <1>2, <1>4, <2>2, <2>4, <2>5 DEF Lands, Stages
<1>9. p \in Clients /\ Calm' => Agreeing(x, lower', upper')
  <2> SUFFICES ASSUME p \in Clients, Calm' PROVE Agreeing(x, lower', upper')
      OBVIOUS
  <2>1. Calm /\ ~parted'
      BY <1>6, <1>7 DEF Calm, HasUpper, Delegation, Neighbour, UseTTL
  <2>2. /\ Answered(r) /\ ~Unanswered(r)
        /\ upper' = IF upper = Absent THEN r.new ELSE upper
      BY <1>0, <1>1, <1>2, <1>3, <2>1, Delegating
  <2>3. Agreeing(task[p], lower, upper)
      BY <1>0, <2>1 DEF Agreement
  <2>4. lower = r.new
      BY <1>2, <2>3 DEF Agreeing
  <2> QED BY <1>3, <1>4, <1>6, <2>2, <2>4 DEF Agreeing, Agree
<1>10. ~OneTier /\ x.pc \in Served
    BY <1>2, <1>3, <1>4 DEF OneTier, Served
<1> QED BY <1>4, <1>5, <1>6, <1>7, <1>8, <1>9, <1>10 DEF Handled

(* A step that leaves both stores as they are, answered or not. *)
LEMMA LookHandled ==
    ASSUME StateInv, NEW p \in Clients \cup Timers, NEW x \in Tasks,
           task' = [task EXCEPT ![p] = x],
           UNCHANGED <<setup, lower, upper, owner, timers, calls, ended, gone, late>>,
           parted' \in {parted, TRUE}, crashed' \in BOOLEAN,
           Watch(lower, upper),
           Lands(p, x), x.pc \in Served,
           p \in Clients /\ Calm' => Agreeing(x, lower, upper),
           p \in Clients /\ OneTier =>
              /\ x.pc # "write"
              /\ x.pc = "upper" => lower = Absent
              /\ CellStep(p, x)
    PROVE  Handled(p, x)
<1>1. Shaped /\ (parted => parted')
    BY TasksKept DEF StateInv, Shaped, Typed
<1> QED BY <1>1 DEF Handled

(* A step that leaves both stores as they are. *)
LEMMA QuietHandled ==
    ASSUME StateInv, NEW p \in Clients \cup Timers, NEW x \in Tasks,
           task' = [task EXCEPT ![p] = x],
           UNCHANGED <<setup, lower, upper, owner, timers, calls, parted, crashed, ended, gone, late>>,
           Watch(lower, upper),
           Lands(p, x), x.pc \in Served,
           p \in Clients /\ Calm => Agreeing(x, lower, upper),
           p \in Clients /\ OneTier =>
              /\ x.pc # "write"
              /\ x.pc = "upper" => lower = Absent
              /\ CellStep(p, x)
    PROVE  Handled(p, x)
<1>1. parted' \in {parted, TRUE} /\ crashed' \in BOOLEAN
    BY DEF StateInv, Typed
<1>2. Calm' <=> Calm
    BY DEF Calm, HasUpper, Delegation, Neighbour, UseTTL
<1> QED BY <1>1, <1>2, LookHandled

(* A failed attempt at an update leaves fewer to make. *)
LEMMA AfterFailureLands ==
    ASSUME StateInv, NEW p \in Clients \cup Timers,
           task[p].pc \in {"update", "swap"}
    PROVE  /\ p \in Clients /\ p \notin Timers /\ ~OneTier
           /\ task[p].req.new \in Values
           /\ \E x \in Tasks :
                /\ x = AfterFailure(task[p])
                /\ x.pc \in {"update", "reply"} /\ x.req = task[p].req
                /\ Lands(p, x)
<1>0. Typed /\ Stages
    BY DEF StateInv
<1>1. /\ task[p] \in Tasks /\ task[p].req.kind = "insert"
      /\ task[p].tries \in 1..Attempts /\ HasUpper /\ Delegation
      /\ task[p].res \in {"yes", "no"} /\ task[p].req.new \in Values
    BY <1>0, TaskShape DEF Stages, Stage
<1>2. p \in Clients
    BY <1>0 DEF Stages, TimerStage
<1>3. p \notin Timers /\ ~OneTier
    BY <1>1, <1>2, ClientsAssumption DEF OneTier
<1> DEFINE next == IF task[p].tries = 1 THEN "reply" ELSE "update"
           rest == task[p].tries - 1
<1>4. PICK x \in Tasks :
        /\ x = AfterFailure(task[p])
        /\ x.pc = next /\ x.req = task[p].req /\ x.res = task[p].res
        /\ x.tries = rest
  <2>1. next \in Served /\ rest \in 0..Attempts /\ Absent \in Cells
      BY <1>1 DEF Served, Attempts, Cells
  <2>2. task[p].tries - 1 = rest /\ (IF task[p].tries = 1 THEN "reply" ELSE "update") = next
      OBVIOUS
  <2> HIDE DEF next, rest
  <2> DEFINE y == [task[p] EXCEPT !.pc = next, !.tries = rest, !.cur = Absent]
  <2>3. y \in Tasks /\ y.pc = next /\ y.req = task[p].req /\ y.res = task[p].res /\ y.tries = rest
      BY <1>1, <2>1 DEF Tasks
  <2>4. y = AfterFailure(task[p])
      BY <1>1, <2>2 DEF AfterFailure
  <2> QED BY <2>3, <2>4
<1>5. Stage(x)
    BY <1>1, <1>4 DEF Stage, Attempts
<1>6. Lands(p, x)
    BY <1>0, <1>1, <1>3, <1>4, <1>5 DEF Lands, Stages, Alone
<1> QED BY <1>1, <1>2, <1>3, <1>4, <1>6

LEMMA UpdateLoadHandled ==
    ASSUME StateInv, NEW p \in Clients \cup Timers, UpdateLoad(p)
    PROVE  \E x \in Tasks : Handled(p, x)
<1>0. Typed /\ Stages /\ Agreement
    BY DEF StateInv
<1>1. /\ task[p].pc = "update" /\ Watch(lower, upper)
      /\ UNCHANGED <<setup, lower, upper, owner, timers, calls, ended, gone, late>>
    BY DEF UpdateLoad, Step
<1>2. /\ task[p] \in Tasks /\ task[p].req.kind = "insert" /\ HasUpper /\ Delegation
      /\ task[p].tries \in 1..Attempts /\ task[p].res \in {"yes", "no"} /\ upper \in Cells
    BY <1>0, <1>1, TaskShape DEF Stages, Stage, Typed
<1>3. Calm /\ p \in Clients => lower = task[p].req.new /\ upper # Absent
    BY <1>0, <1>1 DEF Agreement, Agreeing
<1>4. p \in Clients /\ p \notin Timers /\ ~OneTier /\ task[p].req.new \in Values
    BY <1>1, AfterFailureLands
<1>5. ASSUME task' = [task EXCEPT ![p] = AfterFailure(@)],
             parted' \in {parted, TRUE}, crashed' \in BOOLEAN, ~Calm'
      PROVE  \E x \in Tasks : Handled(p, x)
  <2>1. PICK x \in Tasks :
          /\ x = AfterFailure(task[p])
          /\ x.pc \in {"update", "reply"} /\ Lands(p, x)
      BY <1>1, AfterFailureLands
  <2>2. task' = [task EXCEPT ![p] = x]
      BY <1>5, <2>1
  <2>3. x.pc \in Served
      BY <2>1 DEF Served
  <2> QED BY <1>1, <1>4, <1>5, <2>1, <2>2, <2>3, LookHandled
<1>6. CASE NoValue /\ parted' = TRUE /\ crashed' = NilError
           /\ task' = [task EXCEPT ![p] = AfterFailure(@)]
  <2>1. ~Calm' /\ crashed' \in BOOLEAN
      BY <1>6 DEF Calm, NilError
  <2> QED BY <1>5, <1>6, <2>1
<1> DEFINE answered ==
      /\ late = <<>> /\ UNCHANGED <<parted, crashed>>
      /\ task' = [task EXCEPT ![p] =
           CASE upper = Absent -> AfterFailure(@)
             [] upper = task[p].req.new -> [@ EXCEPT !.pc = "reply"]
             [] OTHER -> [@ EXCEPT !.pc = "swap", !.cur = upper]]
<1>7. CASE answered /\ upper = Absent
  <2>1. upper # task[p].req.new
      BY <1>4, <1>7, CellsDistinct
  <2>2. task' = [task EXCEPT ![p] = AfterFailure(@)]
      BY <1>7, <2>1
  <2>3. ~Calm' /\ crashed' \in BOOLEAN
      BY <1>0, <1>1, <1>3, <1>4, <1>7 DEF Calm, HasUpper, Delegation, Neighbour, UseTTL, Typed
  <2> QED BY <1>5, <1>7, <2>2, <2>3
<1>8. CASE answered /\ upper # Absent /\ upper = task[p].req.new
  <2>1. PICK x \in Tasks :
          /\ x = [task[p] EXCEPT !.pc = "reply"]
          /\ x.pc = "reply" /\ x.req = task[p].req /\ x.res = task[p].res
    <3> DEFINE y == [task[p] EXCEPT !.pc = "reply"]
    <3>1. y \in Tasks /\ y.pc = "reply" /\ y.req = task[p].req /\ y.res = task[p].res
        BY <1>2 DEF Tasks, Served
    <3> QED BY <3>1
  <2>2. task' = [task EXCEPT ![p] = x]
      BY <1>0, <1>8, <2>1 DEF Typed
  <2>3. Stage(x)
      BY <1>2, <2>1 DEF Stage
  <2>4. Lands(p, x)
      BY <1>0, <1>1, <1>2, <1>4, <2>1, <2>3 DEF Lands, Stages, Alone
  <2>5. x.pc \in Served /\ (Calm => Agreeing(x, lower, upper))
      BY <1>3, <1>4, <1>8, <2>1 DEF Served, Agreeing, Agree
  <2> QED BY <1>1, <1>4, <1>8, <2>2, <2>4, <2>5, QuietHandled
<1>9. CASE answered /\ upper # Absent /\ upper # task[p].req.new
  <2>1. PICK x \in Tasks :
          /\ x = [task[p] EXCEPT !.pc = "swap", !.cur = upper]
          /\ x.pc = "swap" /\ x.cur = upper /\ x.req = task[p].req
          /\ x.res = task[p].res /\ x.tries = task[p].tries
    <3> DEFINE y == [task[p] EXCEPT !.pc = "swap", !.cur = upper]
    <3>1. /\ y \in Tasks /\ y.pc = "swap" /\ y.cur = upper /\ y.req = task[p].req
          /\ y.res = task[p].res /\ y.tries = task[p].tries
        BY <1>2 DEF Tasks, Served
    <3> QED BY <3>1
  <2>2. task' = [task EXCEPT ![p] = x]
    <3>1. task' = [task EXCEPT ![p] = [task[p] EXCEPT !.pc = "swap", !.cur = upper]]
        BY <1>9
    <3> QED BY <2>1, <3>1
  <2>3. Stage(x)
      BY <1>2, <1>9, <2>1 DEF Stage, Cells
  <2>4. Lands(p, x)
      BY <1>0, <1>1, <1>2, <1>4, <2>1, <2>3 DEF Lands, Stages, Alone
  <2>5. x.pc \in Served /\ (Calm => Agreeing(x, lower, upper))
      BY <1>3, <1>4, <2>1 DEF Served, Agreeing
  <2> QED BY <1>1, <1>4, <1>9, <2>2, <2>4, <2>5, QuietHandled
<1> QED BY <1>6, <1>7, <1>8, <1>9 DEF UpdateLoad

LEMMA UpdateSwapHandled ==
    ASSUME StateInv, NEW p \in Clients \cup Timers, UpdateSwap(p)
    PROVE  \E x \in Tasks : Handled(p, x)
<1> DEFINE r == Swap(task[p].cur, task[p].req.new)
<1>0. Typed /\ Stages /\ Agreement
    BY DEF StateInv
<1>1. /\ task[p].pc = "swap" /\ Watch(lower', upper')
      /\ UNCHANGED <<setup, lower, owner, timers, calls, crashed, ended, gone>>
    BY DEF UpdateSwap, Step
<1>2. /\ task[p] \in Tasks /\ task[p].req.kind = "insert" /\ HasUpper /\ Delegation
      /\ task[p].res \in {"yes", "no"} /\ upper \in Cells /\ task[p].cur \in Values
    BY <1>0, <1>1, TaskShape DEF Stages, Stage, Typed
<1>3. Calm /\ p \in Clients => lower = task[p].req.new /\ upper = task[p].cur
    BY <1>0, <1>1 DEF Agreement, Agreeing
<1>4. p \in Clients /\ p \notin Timers /\ ~OneTier /\ task[p].req.new \in Values
    BY <1>1, AfterFailureLands
<1>5. r \in Requests /\ r.old = task[p].cur /\ r.new = task[p].req.new
    BY <1>2, <1>4 DEF Requests, Swap
<1>6. PICK failed \in BOOLEAN :
        /\ task' = [task EXCEPT ![p] = IF failed THEN AfterFailure(@)
                                       ELSE [@ EXCEPT !.pc = "reply", !.cur = Absent]]
        /\ \/ Answered(r) /\ (failed <=> upper # r.old)
           \/ Unanswered(r) /\ failed
    BY DEF UpdateSwap, Matches
<1>7. Calm' => Calm /\ ~parted'
  <2>1. parted => parted'
      BY <1>0, <1>5, <1>6, Delegating
  <2> QED BY <1>1, <2>1 DEF Calm, HasUpper, Delegation, Neighbour, UseTTL
<1>a. ASSUME NEW x \in Tasks, task' = [task EXCEPT ![p] = x]
      PROVE  Shaped /\ (parted => parted')
  <2>1. /\ upper' \in Cells /\ late' \in Seq(Requests) /\ (late' # <<>> => parted')
        /\ parted' \in BOOLEAN /\ (parted => parted')
      BY <1>0, <1>5, <1>6, Delegating
  <2> QED BY <1>0, <1>1, <1>a, <2>1, TasksKept DEF Shaped, Typed
<1>8. CASE failed
  <2>1. PICK x \in Tasks :
          /\ x = AfterFailure(task[p])
          /\ x.pc \in {"update", "reply"} /\ Lands(p, x)
      BY <1>1, AfterFailureLands
  <2>2. task' = [task EXCEPT ![p] = x]
      BY <1>6, <1>8, <2>1
  <2>3. x.pc \in Served /\ ~Calm'
    <3>1. Calm' => Answered(r) /\ upper = r.old
        BY <1>0, <1>3, <1>4, <1>5, <1>6, <1>7, Delegating
    <3>2. Calm' => ~Unanswered(r)
        BY <1>0, <1>5, <1>7, Delegating
    <3> QED BY <1>6, <1>8, <2>1, <3>1, <3>2 DEF Served
  <2> QED BY <1>1, <1>4, <1>a, <2>1, <2>2, <2>3 DEF Handled
<1>9. CASE ~failed
  <2>1. PICK x \in Tasks :
          /\ x = [task[p] EXCEPT !.pc = "reply", !.cur = Absent]
          /\ x.pc = "reply" /\ x.req = task[p].req /\ x.res = task[p].res
    <3> DEFINE y == [task[p] EXCEPT !.pc = "reply", !.cur = Absent]
    <3>1. y \in Tasks /\ y.pc = "reply" /\ y.req = task[p].req /\ y.res = task[p].res
        BY <1>2 DEF Tasks, Served, Cells
    <3> QED BY <3>1
  <2>2. task' = [task EXCEPT ![p] = x]
      BY <1>0, <1>6, <1>9, <2>1 DEF Typed
  <2>3. Stage(x)
      BY <1>2, <2>1 DEF Stage
  <2>4. Lands(p, x)
      BY <1>0, <1>1, <1>2, <1>4, <2>1, <2>3 DEF Lands, Stages, Alone
  <2>5. upper' = task[p].req.new
      BY <1>0, <1>5, <1>6, <1>9, Delegating
  <2>6. x.pc \in Served /\ (Calm' => Agreeing(x, lower', upper'))
      BY <1>1, <1>3, <1>4, <1>7, <2>1, <2>5 DEF Served, Agreeing, Agree
  <2> QED BY <1>1, <1>4, <1>a, <2>2, <2>4, <2>6 DEF Handled
<1> QED BY <1>8, <1>9

LEMMA LoadLocalHandled ==
    ASSUME StateInv, NEW p \in Clients \cup Timers, LoadLocal(p)
    PROVE  \E x \in Tasks : Handled(p, x)
<1>0. Typed /\ Stages /\ Agreement
    BY DEF StateInv
<1>1. /\ task[p].pc = "load" /\ Watch(lower, upper)
      /\ UNCHANGED <<setup, lower, upper, owner, timers, calls, parted, crashed, ended, gone, late>>
    BY DEF LoadLocal, Step
<1>2. /\ task[p] \in Tasks /\ task[p].req.kind \in {"overlaid", "load"}
      /\ task[p].res = "none" /\ lower \in Cells
    BY <1>0, <1>1, TaskShape DEF Stages, Stage, Typed
<1>3. Calm /\ p \in Clients => Agree(lower, upper)
    BY <1>0, <1>1 DEF Agreement, Agreeing
<1>4. CASE lower = Absent /\ task[p].req.kind = "overlaid"
  <2>1. PICK x \in Tasks :
          /\ x = [task[p] EXCEPT !.pc = "upper"]
          /\ x.pc = "upper" /\ x.req = task[p].req /\ x.res = task[p].res
    <3> DEFINE y == [task[p] EXCEPT !.pc = "upper"]
    <3>1. y \in Tasks /\ y.pc = "upper" /\ y.req = task[p].req /\ y.res = task[p].res
        BY <1>2 DEF Tasks, Served
    <3> QED BY <3>1
  <2>2. task' = [task EXCEPT ![p] = x]
      BY <1>0, <1>4, <2>1 DEF LoadLocal, Typed
  <2>3. Stage(x)
      BY <1>2, <1>4, <2>1 DEF Stage
  <2>4. p \in Timers => TimerStage(x)
      BY <1>0, <1>1, <2>1 DEF Stages, TimerStage, Waits
  <2>5. Lands(p, x)
      BY <1>0, <1>1, <1>2, <2>1, <2>3, <2>4 DEF Lands, Stages, Alone
  <2>6. x.pc \in Served /\ (Calm /\ p \in Clients => Agreeing(x, lower, upper))
      BY <1>3, <2>1 DEF Served, Agreeing
  <2>7. x.pc # "write" /\ CellStep(p, x)
      BY <1>1, <2>1 DEF CellStep
  <2> QED BY <1>1, <1>4, <2>2, <2>5, <2>6, <2>7, QuietHandled
<1>5. CASE lower # Absent \/ task[p].req.kind = "load"
  <2> DEFINE answer == IF lower = Absent THEN "error" ELSE lower
  <2>0. answer \in Values \cup {"error"}
      BY <1>2 DEF Cells
  <2>1. PICK x \in Tasks :
          /\ x = [task[p] EXCEPT !.pc = "reply", !.res = answer]
          /\ x.pc = "reply" /\ x.req = task[p].req /\ x.res = answer
    <3>1. answer \in Results
        BY <2>0 DEF Results
    <3> HIDE DEF answer
    <3> DEFINE y == [task[p] EXCEPT !.pc = "reply", !.res = answer]
    <3>2. y \in Tasks /\ y.pc = "reply" /\ y.req = task[p].req /\ y.res = answer
        BY <1>2, <3>1 DEF Tasks, Served
    <3> QED BY <3>2
  <2>2. task' = [task EXCEPT ![p] = x]
      BY <1>0, <1>5, <2>1 DEF LoadLocal, Typed
  <2>3. Stage(x)
      BY <1>2, <2>0, <2>1, CellsDistinct DEF Stage
  <2>4. p \in Timers => TimerStage(x)
      BY <1>0, <1>1, <1>2, <2>1 DEF Stages, TimerStage, Waits
  <2>5. Lands(p, x)
    <3>1. x.res \in Values => x.res = lower
        BY <1>2, <2>1, CellsDistinct DEF Cells
    <3> QED BY <1>0, <1>1, <1>2, <2>1, <2>3, <2>4, <3>1 DEF Lands, Stages, Alone
  <2>6. x.pc \in Served /\ (Calm /\ p \in Clients => Agreeing(x, lower, upper))
      BY <1>3, <2>1 DEF Served, Agreeing
  <2>7. x.pc \notin {"write", "upper"} /\ CellStep(p, x)
      BY <1>1, <1>2, <2>1 DEF CellStep, CellOutcome, CellEffect
  <2> QED BY <1>1, <2>2, <2>5, <2>6, <2>7, QuietHandled
<1> QED BY <1>2, <1>4, <1>5

LEMMA LoadUpperHandled ==
    ASSUME StateInv, NEW p \in Clients \cup Timers, LoadUpper(p)
    PROVE  \E x \in Tasks : Handled(p, x)
<1>0. Typed /\ Stages /\ Agreement /\ Undisturbed
    BY DEF StateInv
<1>1. /\ task[p].pc = "upper" /\ Watch(lower, upper)
      /\ UNCHANGED <<setup, lower, upper, owner, timers, calls, parted, ended, gone, late>>
      /\ crashed' \in BOOLEAN
    BY <1>0 DEF LoadUpper, Step, NilError, HasUpper, Delegation, Typed
<1>2. /\ task[p] \in Tasks /\ task[p].req.kind = "overlaid"
      /\ task[p].res = "none" /\ upper \in Cells
    BY <1>0, <1>1, TaskShape DEF Stages, Stage, Typed
<1>3. Calm /\ p \in Clients => Agree(lower, upper)
    BY <1>0, <1>1 DEF Agreement, Agreeing
<1> DEFINE cached == task' = [task EXCEPT ![p].pc = "cache", ![p].cur = upper]
           missed == task' = [task EXCEPT ![p].pc = "reply", ![p].res = "error"]
<1>a. \/ HasUpper /\ Delegation /\ upper # Absent /\ cached
      \/ missed
  <2>1. CASE HasUpper /\ late = <<>> /\ task' = [task EXCEPT ![p] =
               IF Delegation /\ upper # Absent
               THEN [@ EXCEPT !.pc = "cache", !.cur = upper]
               ELSE [@ EXCEPT !.pc = "reply", !.res = "error"]]
      BY <1>0, <2>1 DEF Typed
  <2> QED BY <2>1 DEF LoadUpper
<1>4. CASE HasUpper /\ Delegation /\ upper # Absent /\ cached
  <2>1. PICK x \in Tasks :
          /\ x = [task[p] EXCEPT !.pc = "cache", !.cur = upper]
          /\ x.pc = "cache" /\ x.cur = upper /\ x.req = task[p].req /\ x.res = task[p].res
    <3> DEFINE y == [task[p] EXCEPT !.pc = "cache", !.cur = upper]
    <3>1. /\ y \in Tasks /\ y.pc = "cache" /\ y.cur = upper
          /\ y.req = task[p].req /\ y.res = task[p].res
        BY <1>2 DEF Tasks, Served
    <3> QED BY <3>1
  <2>2. task' = [task EXCEPT ![p] = x]
      BY <1>0, <1>4, <2>1 DEF Typed
  <2>3. Stage(x)
      BY <1>2, <1>4, <2>1 DEF Stage, Cells
  <2>4. p \in Timers => TimerStage(x)
      BY <1>0, <1>1, <2>1 DEF Stages, TimerStage, Waits
  <2>5. Lands(p, x)
      BY <1>0, <1>1, <1>2, <2>1, <2>3, <2>4 DEF Lands, Stages, Alone
  <2>6. x.pc \in Served /\ (Calm /\ p \in Clients => Agreeing(x, lower, upper))
      BY <1>3, <2>1 DEF Served, Agreeing
  <2>7. ~OneTier
      BY <1>4 DEF OneTier
  <2>8. Calm' <=> Calm
      BY <1>1 DEF Calm, HasUpper, Delegation, Neighbour, UseTTL
  <2> QED BY <1>1, <2>2, <2>5, <2>6, <2>7, <2>8, LookHandled
<1>5. CASE missed
  <2>1. PICK x \in Tasks :
          /\ x = [task[p] EXCEPT !.pc = "reply", !.res = "error"]
          /\ x.pc = "reply" /\ x.req = task[p].req /\ x.res = "error"
    <3> DEFINE y == [task[p] EXCEPT !.pc = "reply", !.res = "error"]
    <3>2. y \in Tasks /\ y.pc = "reply" /\ y.req = task[p].req /\ y.res = "error"
        BY <1>2 DEF Tasks, Served, Results
    <3> QED BY <3>2
  <2>2. task' = [task EXCEPT ![p] = x]
      BY <1>0, <1>5, <2>1 DEF Typed
  <2>3. Stage(x)
      BY <1>2, <2>1 DEF Stage
  <2>4. p \in Timers => TimerStage(x)
      BY <1>0, <1>1, <1>2, <2>1 DEF Stages, TimerStage, Waits
  <2>5. Lands(p, x)
      BY <1>0, <1>1, <1>2, <2>1, <2>3, <2>4, CellsDistinct DEF Lands, Stages, Alone
  <2>6. x.pc \in Served /\ (Calm /\ p \in Clients => Agreeing(x, lower, upper))
      BY <1>3, <2>1 DEF Served, Agreeing
  <2>7. p \in Clients /\ OneTier => CellStep(p, x)
      BY <1>0, <1>1, <1>2, <2>1 DEF CellStep, CellOutcome, CellEffect, Undisturbed
  <2>8. Calm' <=> Calm
      BY <1>1 DEF Calm, HasUpper, Delegation, Neighbour, UseTTL
  <2> QED BY <1>1, <2>1, <2>2, <2>5, <2>6, <2>7, <2>8, LookHandled
<1> QED BY <1>a, <1>4, <1>5

LEMMA CacheHandled ==
    ASSUME StateInv, NEW p \in Clients \cup Timers, Cache(p)
    PROVE  \E x \in Tasks : Handled(p, x)
<1>0. Typed /\ Stages /\ Agreement
    BY DEF StateInv
<1>1. /\ task[p].pc = "cache" /\ Watch(lower', upper')
      /\ UNCHANGED <<setup, upper, owner, timers, calls, parted, crashed, ended, gone, late>>
      /\ lower' = IF lower = Absent THEN task[p].cur ELSE lower
    BY DEF Cache, Step
<1>2. /\ task[p] \in Tasks /\ task[p].req.kind = "overlaid" /\ task[p].cur \in Values
      /\ lower \in Cells /\ Delegation
    BY <1>0, <1>1, TaskShape DEF Stages, Stage, Typed
<1>3. Calm /\ p \in Clients => Agree(lower, upper) /\ task[p].cur = upper
    BY <1>0, <1>1 DEF Agreement, Agreeing
<1>4. PICK x \in Tasks :
        /\ x = [task[p] EXCEPT !.pc = "reply", !.res = task[p].cur, !.cur = Absent]
        /\ x.pc = "reply" /\ x.req = task[p].req /\ x.res = task[p].cur
  <2> DEFINE y == [task[p] EXCEPT !.pc = "reply", !.res = task[p].cur, !.cur = Absent]
  <2>1. task[p].cur \in Results /\ Absent \in Cells
      BY <1>2 DEF Results, Cells
  <2>2. y \in Tasks /\ y.pc = "reply" /\ y.req = task[p].req /\ y.res = task[p].cur
      BY <1>2, <2>1 DEF Tasks, Served
  <2> QED BY <2>2
<1>5. task' = [task EXCEPT ![p] = x]
    BY <1>0, <1>4 DEF Cache, Typed
<1>6. lower' \in Cells
    BY <1>1, <1>2 DEF Cells
<1>7. Shaped
    BY <1>0, <1>1, <1>5, <1>6, TasksKept DEF Shaped, Typed
<1>8. Stage(x)
    BY <1>2, <1>4, CellsDistinct DEF Stage
<1>9. p \in Timers => TimerStage(x)
    BY <1>0, <1>1, <1>2, <1>4 DEF Stages, TimerStage, Waits
<1>10. Lands(p, x)
    BY <1>0, <1>1, <1>2, <1>4, <1>8, <1>9 DEF Lands, Stages, Alone
<1>11. Calm' /\ p \in Clients => Agreeing(x, lower', upper')
  <2>1. Calm' <=> Calm
      BY <1>1 DEF Calm, HasUpper, Delegation, Neighbour, UseTTL
  <2> QED BY <1>1, <1>3, <1>4, <2>1 DEF Agreeing, Agree
<1>12. ~OneTier /\ x.pc \in Served
    BY <1>2, <1>4 DEF OneTier, Served
<1> QED BY <1>1, <1>5, <1>7, <1>10, <1>11, <1>12 DEF Handled

LEMMA HandleHandled ==
    ASSUME StateInv, NEW p \in Clients \cup Timers, Handle(p)
    PROVE  \E x \in Tasks : Handled(p, x)
BY LocalHandled, DelegateMutationHandled, DelegateInsertHandled, UpdateLoadHandled,
   UpdateSwapHandled, LoadLocalHandled, LoadUpperHandled, CacheHandled DEF Handle

-----------------------------------------------------------------------------
(* While one client of the key is served the others wait. *)
LEMMA OthersWait ==
    ASSUME Exclusive, NEW c \in Clients, NEW d \in Clients \ {c},
           task[c].pc \notin Waits
    PROVE  task[d].pc \in Waits /\ owner = c
BY DEF Exclusive

LEMMA HandledKeeps ==
    ASSUME StateInv, NEW p \in Clients \cup Timers, NEW x \in Tasks,
           Handled(p, x), task[p].pc \in Served
    PROVE  StateInv'
<1>0. Typed /\ Exclusive /\ Stages /\ Fresh /\ LoadIsFresh /\ Agreement /\ Undisturbed
    BY DEF StateInv
<1>1. /\ Shaped /\ task' = [task EXCEPT ![p] = x] /\ Lands(p, x) /\ owner' = owner
      /\ setup' = setup
    BY DEF Handled, Shaped
<1>2. /\ task'[p] = x
      /\ \A q \in Clients \cup Timers : q # p => task'[q] = task[q]
    BY <1>0, <1>1 DEF Typed
<1>3. Typed' /\ Stages' /\ Fresh' /\ LoadIsFresh'
    BY <1>0, <1>1, <1>2, MoveKeeps
<1>4. task[p].pc \notin Waits /\ task[p].pc # "unset"
    BY DEF Served, Waits
<1>5. p \in Clients => owner = p
    BY <1>0, <1>4 DEF Exclusive
<1>6. Exclusive'
    BY <1>0, <1>1, <1>2, <1>4 DEF Exclusive, Waits
<1>7. p \in Timers => UseTTL
    BY <1>0, <1>4 DEF Stages, TimerStage
<1>8. Agreement'
  <2> SUFFICES ASSUME Calm'
               PROVE  /\ owner' = NoOne => Agree(lower', upper')
                      /\ \A c \in Clients : Agreeing(task'[c], lower', upper')
      BY DEF Agreement, Agree, Agreeing, Absent
  <2>1. Calm /\ p \in Clients /\ owner = p
      BY <1>1, <1>5, <1>7 DEF Calm, HasUpper, Delegation, Neighbour, UseTTL, Handled
  <2>2. owner' # NoOne
      BY <1>1, <2>1, ClientsAssumption
  <2>3. ASSUME NEW c \in Clients, c # p PROVE Agreeing(task'[c], lower', upper')
      BY <1>0, <1>2, <1>4, <2>1, <2>3, OthersWait DEF Agreeing, Waits
  <2>4. Agreeing(x, lower', upper')
      BY <2>1 DEF Handled
  <2> QED BY <1>2, <2>2, <2>3, <2>4
<1>9. Undisturbed'
  <2> SUFFICES ASSUME OneTier', NEW c \in Clients
               PROVE  /\ task'[c].pc = "upper" => lower' = Absent
                      /\ task'[c].pc = "write" => lower' = task'[c].cur
      BY DEF Undisturbed, Absent
  <2>1. OneTier
      BY <1>1 DEF OneTier, HasUpper, Delegation, UseTTL, StoreKind, Kinds
  <2>2. CASE c = p
      BY <1>2, <2>1, <2>2 DEF Handled
  <2>3. CASE c # p /\ p \in Clients
      BY <1>0, <1>2, <1>4, <2>3, OthersWait DEF Waits
  <2>4. CASE c # p /\ p \in Timers
    <3>1. lower' \in {lower, Absent}
        BY <2>1, <2>4 DEF Handled
    <3>2. task[c].pc # "write"
        BY <1>0, <1>7, <2>1, <2>4 DEF Stages, Stage, OneTier
    <3> QED BY <1>0, <1>2, <2>1, <2>4, <3>1, <3>2 DEF Undisturbed
  <2> QED BY <2>2, <2>3, <2>4
<1> QED BY <1>3, <1>6, <1>8, <1>9 DEF StateInv

(* The steps that look at neither store, whoever takes them. *)
LEMMA StillKeeps ==
    ASSUME StateInv, Shaped, lower' = lower, upper' = upper, parted' = parted,
           Exclusive',
           Calm /\ owner' = NoOne => Agree(lower, upper),
           \A q \in Clients \cup Timers :
              \/ task'[q] = task[q]
              \/ /\ Lands(q, task'[q])
                 /\ Calm /\ q \in Clients => Agreeing(task'[q], lower, upper)
                 /\ q \in Clients => task'[q].pc \notin {"upper", "write"}
    PROVE  StateInv'
<1>0. Typed /\ Exclusive /\ Stages /\ Fresh /\ LoadIsFresh /\ Agreement /\ Undisturbed
    BY DEF StateInv
<1>1. Typed' /\ Stages' /\ Fresh' /\ LoadIsFresh'
    BY <1>0, MoveKeeps
<1>2. setup' = setup
    BY DEF Shaped
<1>3. Agreement'
  <2> SUFFICES ASSUME Calm'
               PROVE  /\ owner' = NoOne => Agree(lower', upper')
                      /\ \A c \in Clients : Agreeing(task'[c], lower', upper')
      BY DEF Agreement, Agree, Agreeing, Absent
  <2>1. Calm
      BY <1>2 DEF Calm, HasUpper, Delegation, Neighbour, UseTTL
  <2>2. \A c \in Clients : Agreeing(task[c], lower, upper)
      BY <1>0, <2>1 DEF Agreement
  <2> QED BY <2>1, <2>2
<1>4. Undisturbed'
  <2> SUFFICES ASSUME OneTier', NEW c \in Clients
               PROVE  /\ task'[c].pc = "upper" => lower' = Absent
                      /\ task'[c].pc = "write" => lower' = task'[c].cur
      BY DEF Undisturbed, Absent
  <2>1. OneTier
      BY <1>2 DEF OneTier, HasUpper, Delegation, UseTTL, StoreKind, Kinds
  <2> QED BY <1>0, <2>1 DEF Undisturbed
<1> QED BY <1>1, <1>3, <1>4 DEF StateInv

(* A client that calls, is served, asks for its time to live or returns. *)
Asked(c, x) ==
    /\ task[c].pc = "idle" /\ x.pc = "queued" /\ x.res = "none"
    /\ owner' = owner /\ gone' = gone
    /\ x.req.kind \in Kinds /\ (x.req.ttl => UseTTL)
Taken(c, x) ==
    /\ task[c].pc = "queued" /\ owner = NoOne /\ owner' = c /\ gone' = gone
    /\ x.req = task[c].req
    /\ x.pc = FirstStep(x.req) /\ x.res = IF x.pc = "reply" THEN "yes" ELSE "none"
TakenTTL(c, x) ==
    /\ task[c].pc = "queued ttl" /\ owner = NoOne /\ owner' = c /\ gone' = gone
    /\ x.pc = "ttl" /\ x.req = task[c].req /\ x.res = task[c].res
Asking(c, x) ==
    /\ task[c].pc = "reset" /\ x.pc = "reply" /\ x.req = task[c].req
    /\ x.res \in {"yes", "error"} /\ owner' = owner /\ gone' = gone
Hanging(c, x) ==
    /\ task[c].pc = "ttl" /\ x.pc = "hung" /\ x.req = task[c].req /\ x.res = task[c].res
    /\ owner' = owner /\ gone' = gone
Withdrawn(c, x) ==
    /\ task[c].pc \in {"queued", "queued ttl"} /\ x = Resting("idle")
    /\ c \in ended \ gone /\ owner' = owner /\ gone' = gone
Returning(c, x) ==
    /\ task[c].pc = "reply" /\ owner' = NoOne /\ gone' = gone \ {c}
    /\ \/ x = Resting("idle")
       \/ /\ x.pc = "queued ttl" /\ x.req = task[c].req /\ x.res = task[c].res
          /\ x.req.ttl /\ c \notin gone

Still ==
    /\ UNCHANGED <<setup, lower, upper, timers, parted, crashed, ended, late>>
    /\ Watch(lower, upper)

LEMMA CallMoves ==
    ASSUME StateInv, NEW c \in Clients, Call(c)
    PROVE  \E x \in Tasks : task' = [task EXCEPT ![c] = x] /\ Still /\ Asked(c, x)
<1>1. PICK r \in Offered : task' = [task EXCEPT ![c] = [Resting("queued") EXCEPT !.req = r]]
    BY DEF Call
<1>2. r \in Requests /\ r.kind \in Kinds /\ (r.ttl => UseTTL)
    BY DEF Offered
<1> DEFINE y == [Resting("queued") EXCEPT !.req = r]
<1>3. y \in Tasks /\ y.pc = "queued" /\ y.res = "none" /\ y.req = r
  <2>1. "queued" \in Waits \cup Served \cup Alone
      BY DEF Waits
  <2>2. Resting("queued") \in Tasks /\ Resting("queued").pc = "queued"
        /\ Resting("queued").res = "none"
      BY <2>1, RestingTask
  <2> QED BY <1>2, <2>2 DEF Tasks
<1>4. Still /\ task[c].pc = "idle" /\ owner' = owner /\ gone' = gone
    BY DEF Call, Step, Still
<1> HIDE DEF y
<1> QED BY <1>1, <1>2, <1>3, <1>4 DEF Asked, y

LEMMA FirstStepOf ==
    ASSUME NEW r \in Requests
    PROVE  /\ FirstStep(r) \in {"local", "load", "reset", "reply"}
           /\ FirstStep(r) = "local" =>
                r.kind \in Mutations /\ (r.kind = "cas" => r.old # r.new)
           /\ FirstStep(r) = "load" => r.kind \in {"overlaid", "load"}
           /\ FirstStep(r) = "reset" => r.kind = "reset"
           /\ FirstStep(r) = "reply" => r.kind = "cas" /\ r.old = r.new
<1>1. r.kind \in Kind
    BY RequestShape
<1> QED BY <1>1 DEF Kind, FirstStep, Mutations

LEMMA ServeMoves ==
    ASSUME StateInv, NEW c \in Clients, Serve(c)
    PROVE  \E x \in Tasks : task' = [task EXCEPT ![c] = x] /\ Still /\ Taken(c, x)
<1> DEFINE first == FirstStep(task[c].req)
           answer == IF first = "reply" THEN "yes" ELSE "none"
           y == [task[c] EXCEPT !.pc = first, !.res = answer]
<1>1. Typed /\ task[c] \in Tasks /\ task[c].req \in Requests
    BY TaskShape DEF StateInv, Tasks
<1>2. first \in Served
    BY <1>1, FirstStepOf DEF Served
<1>3. answer \in Results
    BY DEF Results
<1>4. y \in Tasks /\ y.pc = first /\ y.res = answer /\ y.req = task[c].req
  <2> HIDE DEF first, answer
  <2> QED BY <1>1, <1>2, <1>3 DEF Tasks
<1>5. task' = [task EXCEPT ![c] = y]
    BY <1>1 DEF Serve, Typed
<1>6. Still /\ task[c].pc = "queued" /\ owner = NoOne /\ owner' = c /\ gone' = gone
    BY DEF Serve, Step, Still
<1>7. Taken(c, y)
    BY <1>4, <1>6 DEF Taken
<1> QED BY <1>4, <1>5, <1>6, <1>7

LEMMA ServeTTLMoves ==
    ASSUME StateInv, NEW c \in Clients, ServeTTL(c)
    PROVE  \E x \in Tasks : task' = [task EXCEPT ![c] = x] /\ Still /\ TakenTTL(c, x)
<1> DEFINE y == [task[c] EXCEPT !.pc = "ttl"]
<1>1. Typed /\ task[c] \in Tasks
    BY TaskShape DEF StateInv
<1>2. y \in Tasks /\ y.pc = "ttl" /\ y.res = task[c].res /\ y.req = task[c].req
    BY <1>1 DEF Tasks, Served
<1>3. task' = [task EXCEPT ![c] = y]
    BY <1>1 DEF ServeTTL, Typed
<1>4. Still /\ TakenTTL(c, y)
    BY <1>2 DEF ServeTTL, Step, Still, TakenTTL
<1> QED BY <1>2, <1>3, <1>4

LEMMA ResetTTLMoves ==
    ASSUME StateInv, NEW c \in Clients, ResetTTL(c)
    PROVE  \E x \in Tasks : task' = [task EXCEPT ![c] = x] /\ Still /\ Asking(c, x)
<1> DEFINE answer == IF timers = 0 THEN "error" ELSE "yes"
           y == [task[c] EXCEPT !.pc = "reply", !.res = answer]
<1>1. Typed /\ task[c] \in Tasks
    BY TaskShape DEF StateInv
<1>2. answer \in Results /\ answer \in {"yes", "error"}
    BY DEF Results
<1>3. y \in Tasks /\ y.pc = "reply" /\ y.res = answer /\ y.req = task[c].req
  <2> HIDE DEF answer
  <2> QED BY <1>1, <1>2 DEF Tasks, Served
<1>4. task' = [task EXCEPT ![c] = y]
    BY <1>1 DEF ResetTTL, Typed
<1>5. Still /\ Asking(c, y)
    BY <1>2, <1>3 DEF ResetTTL, Step, Still, Asking
<1> QED BY <1>3, <1>4, <1>5

LEMMA HangInTTLMoves ==
    ASSUME StateInv, NEW c \in Clients, HangInTTL(c)
    PROVE  \E x \in Tasks : task' = [task EXCEPT ![c] = x] /\ Still /\ Hanging(c, x)
<1> DEFINE y == [task[c] EXCEPT !.pc = "hung"]
<1>1. Typed /\ task[c] \in Tasks
    BY TaskShape DEF StateInv
<1>2. y \in Tasks /\ y.pc = "hung" /\ y.res = task[c].res /\ y.req = task[c].req
    BY <1>1 DEF Tasks, Served
<1>3. task' = [task EXCEPT ![c] = y]
    BY <1>1 DEF HangInTTL, Typed
<1>4. Still /\ Hanging(c, y)
    BY <1>2 DEF HangInTTL, Step, Still, Hanging
<1> QED BY <1>2, <1>3, <1>4

(* A caller that gives up leaves its request, or takes it back. *)
LEMMA GiveUpMoves ==
    ASSUME StateInv, NEW c \in Clients, GiveUp(c)
    PROVE  /\ Still /\ owner' = owner /\ c \in ended \ gone /\ task[c].pc # "idle"
           /\ \/ task' = task /\ gone' = gone \cup {c}
              \/ \E x \in Tasks : task' = [task EXCEPT ![c] = x] /\ Withdrawn(c, x)
<1>1. Still /\ owner' = owner /\ c \in ended \ gone /\ task[c].pc # "idle"
    BY DEF GiveUp, Still, Waiting, InCall
<1>2. Resting("idle") \in Tasks
    BY RestingTask DEF Waits
<1> QED BY <1>1, <1>2 DEF GiveUp, Withdrawn

LEMMA ReturnMoves ==
    ASSUME StateInv, NEW c \in Clients, Return(c)
    PROVE  \E x \in Tasks : task' = [task EXCEPT ![c] = x] /\ Still /\ Returning(c, x)
<1>1. Typed /\ task[c] \in Tasks
    BY TaskShape DEF StateInv
<1>2. Still /\ task[c].pc = "reply" /\ owner' = NoOne /\ gone' = gone \ {c}
    BY DEF Return, Step, Still
<1>3. CASE /\ task[c].req.ttl /\ c \notin gone
           /\ task' = [task EXCEPT ![c].pc = "queued ttl"]
  <2> DEFINE y == [task[c] EXCEPT !.pc = "queued ttl"]
  <2>1. y \in Tasks /\ y.pc = "queued ttl" /\ y.res = task[c].res /\ y.req = task[c].req
      BY <1>1 DEF Tasks, Waits
  <2>2. task' = [task EXCEPT ![c] = y]
      BY <1>1, <1>3 DEF Typed
  <2>3. Returning(c, y)
      BY <1>2, <1>3, <2>1 DEF Returning
  <2> QED BY <1>2, <2>1, <2>2, <2>3
<1>4. CASE task' = [task EXCEPT ![c] = Resting("idle")]
  <2>1. Resting("idle") \in Tasks
      BY RestingTask DEF Waits
  <2> QED BY <1>2, <1>4, <2>1 DEF Returning
<1> QED BY <1>3, <1>4 DEF Return

(* What a client's own moves keep. *)
LEMMA ClientKeeps ==
    ASSUME StateInv, NEW c \in Clients, NEW x \in Tasks,
           task' = [task EXCEPT ![c] = x], Still,
           \/ Asked(c, x) \/ Taken(c, x) \/ TakenTTL(c, x) \/ Asking(c, x) \/ Hanging(c, x)
           \/ Withdrawn(c, x) \/ Returning(c, x)
    PROVE  StateInv'
<1>0. Typed /\ Exclusive /\ Stages /\ Agreement
    BY DEF StateInv
<1>1. /\ task'[c] = x
      /\ \A q \in Clients \cup Timers : q # c => task'[q] = task[q]
    BY <1>0 DEF Typed
<1>2. /\ c \notin Timers /\ c # NoOne
      /\ task[c] \in Tasks /\ x.req \in Requests
      /\ task[c].req.ttl => task[c].req.kind = "insert"
    BY <1>0, ClientsAssumption, TaskShape DEF Tasks
<1>3. Shaped
  <2>1. owner' \in Clients \cup {NoOne} /\ gone' \subseteq Clients
      BY <1>0 DEF Typed, Asked, Taken, TakenTTL, Asking, Hanging, Withdrawn, Returning
  <2> QED BY <1>0, <2>1, TasksKept DEF Still, Shaped, Typed
<1>4. Resting("idle").pc = "idle" /\ Resting("idle").req.kind = "load"
      /\ ~Resting("idle").req.ttl /\ Resting("idle").res = "none"
    BY RestingTask DEF Waits
<1>5. Stage(task[c])
    BY <1>0 DEF Stages
<1>6. CASE Asked(c, x)
  <2>1. Stage(x)
      BY <1>6 DEF Asked, Stage
  <2>2. Lands(c, x)
      BY <1>2, <1>6, <2>1 DEF Asked, Lands, Alone
  <2>3. Exclusive'
      BY <1>0, <1>1, <1>6 DEF Asked, Exclusive, Waits
  <2>4. Calm /\ owner' = NoOne => Agree(lower, upper)
      BY <1>0, <1>6 DEF Asked, Agreement
  <2>5. Agreeing(x, lower, upper) /\ x.pc \notin {"upper", "write"}
      BY <1>6 DEF Asked, Agreeing
  <2> QED BY <1>1, <1>3, <2>2, <2>3, <2>4, <2>5, StillKeeps DEF Still
<1>7. CASE Taken(c, x)
  <2>0. /\ x.pc \in {"local", "load", "reset", "reply"}
        /\ x.pc = "local" => x.req.kind \in Mutations /\ (x.req.kind = "cas" => x.req.old # x.req.new)
        /\ x.pc = "load" => x.req.kind \in {"overlaid", "load"}
        /\ x.pc = "reset" => x.req.kind = "reset"
        /\ x.pc = "reply" => x.req.kind = "cas" /\ x.res = "yes"
        /\ x.pc # "reply" => x.res = "none"
      BY <1>2, <1>7, FirstStepOf DEF Taken
  <2>1. Stage(x)
      BY <2>0 DEF Stage
  <2>2. Lands(c, x)
      BY <1>0, <1>2, <1>7, <2>0, <2>1 DEF Taken, Lands, Stages, Alone
  <2>3. Exclusive'
      BY <1>0, <1>1, <1>7, ClientsAssumption DEF Taken, Exclusive, Waits
  <2>4. owner' # NoOne
      BY <1>2, <1>7 DEF Taken
  <2>5. Calm => Agreeing(x, lower, upper)
      BY <1>0, <1>7, <2>0 DEF Taken, Agreement, Agreeing
  <2> QED BY <1>1, <1>3, <2>0, <2>2, <2>3, <2>4, <2>5, StillKeeps DEF Still
<1>8. CASE TakenTTL(c, x)
  <2>1. Stage(x)
      BY <1>5, <1>8 DEF TakenTTL, Stage
  <2>2. Lands(c, x)
      BY <1>0, <1>2, <1>8, <2>1 DEF TakenTTL, Lands, Stages, Alone
  <2>3. Exclusive'
      BY <1>0, <1>1, <1>8, ClientsAssumption DEF TakenTTL, Exclusive, Waits
  <2>4. owner' # NoOne
      BY <1>2, <1>8 DEF TakenTTL
  <2>5. Calm => Agreeing(x, lower, upper) /\ x.pc \notin {"upper", "write"}
      BY <1>0, <1>8 DEF TakenTTL, Agreement, Agreeing
  <2>6. x.pc \notin {"upper", "write"}
      BY <1>8 DEF TakenTTL
  <2> QED BY <1>1, <1>3, <2>2, <2>3, <2>4, <2>5, <2>6, StillKeeps DEF Still
<1>9. CASE Asking(c, x)
  <2>0. task[c].req.kind = "reset" /\ owner = c /\ x.res # "none"
      BY <1>0, <1>5, <1>9 DEF Asking, Stage, Exclusive, Waits
  <2>1. Stage(x)
      BY <2>0, <1>9 DEF Asking, Stage
  <2>2. Lands(c, x)
      BY <1>0, <1>2, <1>9, <2>0, <2>1 DEF Asking, Lands, Stages, Alone
  <2>3. Exclusive'
      BY <1>0, <1>1, <1>9, <2>0 DEF Asking, Exclusive, Waits
  <2>4. owner' # NoOne
      BY <1>2, <1>9, <2>0 DEF Asking
  <2>5. Calm => Agreeing(x, lower, upper)
      BY <1>0, <1>9 DEF Asking, Agreement, Agreeing
  <2>6. x.pc \notin {"upper", "write"}
      BY <1>9 DEF Asking
  <2> QED BY <1>1, <1>3, <2>2, <2>3, <2>4, <2>5, <2>6, StillKeeps DEF Still
<1>10. CASE Returning(c, x)
  <2>0. /\ x.pc \in {"idle", "queued ttl"}
        /\ x.pc = "queued ttl" =>
              /\ x.req.kind = "insert" /\ x.req.ttl /\ x.res # "none"
              /\ x.req.kind \in Kinds /\ UseTTL
        /\ x.pc = "idle" => ~x.req.ttl
      BY <1>0, <1>2, <1>4, <1>5, <1>10 DEF Returning, Stage, Stages
  <2>1. Stage(x)
      BY <2>0 DEF Stage
  <2>2. Lands(c, x)
      BY <1>2, <2>0, <2>1 DEF Lands, Alone
  <2>3. Exclusive'
    <3>1. \A d \in Clients \ {c} : task[d].pc \in Waits
        BY <1>0, <1>10, OthersWait DEF Returning, Waits
    <3> QED BY <1>1, <2>0, <3>1 DEF Exclusive, Waits
  <2>4. Calm => Agree(lower, upper)
      BY <1>0, <1>10 DEF Returning, Agreement, Agreeing
  <2>5. Agreeing(x, lower, upper) /\ x.pc \notin {"upper", "write"}
      BY <2>0 DEF Agreeing
  <2> QED BY <1>1, <1>3, <2>2, <2>3, <2>4, <2>5, StillKeeps DEF Still
<1>11. CASE Hanging(c, x)
  <2>0. task[c].req.kind = "insert" /\ UseTTL /\ owner = c
      BY <1>0, <1>5, <1>11 DEF Hanging, Stage, Stages, Exclusive, Waits
  <2>1. Stage(x)
      BY <1>11 DEF Hanging, Stage
  <2>2. Lands(c, x)
      BY <1>0, <1>2, <1>11, <2>0, <2>1 DEF Hanging, Lands, Stages, Alone
  <2>3. Exclusive'
      BY <1>0, <1>1, <1>11, <2>0 DEF Hanging, Exclusive
  <2>4. owner' # NoOne /\ ~Calm /\ x.pc \notin {"upper", "write"}
      BY <1>2, <1>11, <2>0 DEF Hanging, Calm
  <2> QED BY <1>1, <1>3, <2>2, <2>3, <2>4, StillKeeps DEF Still
<1>12. CASE Withdrawn(c, x)
  <2>0. x.pc = "idle" /\ ~x.req.ttl
      BY <1>4, <1>12 DEF Withdrawn
  <2>1. Stage(x)
      BY <2>0 DEF Stage
  <2>2. Lands(c, x)
      BY <1>2, <2>0, <2>1 DEF Lands, Alone
  <2>3. Exclusive'
      BY <1>0, <1>1, <1>12, <2>0 DEF Withdrawn, Exclusive, Waits
  <2>4. Calm /\ owner' = NoOne => Agree(lower, upper)
      BY <1>0, <1>12 DEF Withdrawn, Agreement
  <2>5. Agreeing(x, lower, upper) /\ x.pc \notin {"upper", "write"}
      BY <2>0 DEF Agreeing
  <2> QED BY <1>1, <1>3, <2>2, <2>3, <2>4, <2>5, StillKeeps DEF Still
<1> QED BY <1>6, <1>7, <1>8, <1>9, <1>10, <1>11, <1>12

(* Nothing moves but the contexts, and the clients that watch them. *)
LEMMA QuietKeeps ==
    ASSUME StateInv, Watch(lower, upper), ended' \subseteq Clients \cup Scopes,
           gone' \subseteq Clients,
           UNCHANGED <<setup, lower, upper, owner, task, timers, parted, crashed, late>>
    PROVE  StateInv'
<1>0. Typed /\ Exclusive /\ Stages /\ Agreement
    BY DEF StateInv
<1>1. Shaped
    BY <1>0 DEF Shaped, Typed
<1>2. Exclusive' /\ (Calm /\ owner' = NoOne => Agree(lower, upper))
    BY <1>0 DEF Exclusive, Agreement
<1> QED BY <1>1, <1>2, StillKeeps

(* An expiry goroutine comes and goes; setTTL starts one. *)
Firing(t, x) ==
    \/ task[t].pc = "pending" /\ x.pc = "load" /\ x.req = Read("overlaid") /\ x.res = "none"
    \/ /\ task[t].pc = "reply" /\ task[t].req.kind = "overlaid"
       /\ x.pc = "local" /\ x.res = "none" /\ \E v \in Values : x.req = Delete(v)
    \/ task[t].pc = "reply" /\ x = Resting("over")

LEMMA TimerMoves ==
    ASSUME StateInv, NEW t \in Timers, Fire(t) \/ Expire(t)
    PROVE  /\ Still /\ UNCHANGED <<owner, calls, gone>>
           /\ \E x \in Tasks : task' = [task EXCEPT ![t] = x] /\ Firing(t, x)
<1>1. Typed /\ Stages /\ task[t] \in Tasks /\ Stage(task[t])
    BY TaskShape DEF StateInv, Stages
<1>2. Still /\ UNCHANGED <<owner, calls, gone>>
    BY DEF Fire, Expire, Still
<1>3. CASE Fire(t)
  <2> DEFINE y == [task[t] EXCEPT !.pc = "load", !.req = Read("overlaid")]
  <2>1. Read("overlaid") \in Requests
      BY DEF Requests
  <2>2. task[t].pc = "pending" /\ task[t].res = "none"
      BY <1>1, <1>3 DEF Fire, Step, Stage
  <2>3. y \in Tasks /\ y.pc = "load" /\ y.req = Read("overlaid") /\ y.res = task[t].res
      BY <1>1, <2>1 DEF Tasks, Served
  <2>4. task' = [task EXCEPT ![t] = y]
      BY <1>1, <1>3 DEF Fire, Typed
  <2>5. Firing(t, y)
      BY <2>2, <2>3 DEF Firing
  <2> QED BY <1>2, <2>3, <2>4, <2>5
<1>4. CASE Expire(t) /\ task[t].req.kind = "overlaid"
  <2> DEFINE v == IF task[t].res = "error" THEN Zero ELSE task[t].res
             y == [task[t] EXCEPT !.pc = "local", !.res = "none", !.req = Delete(v)]
  <2>1. task[t].pc = "reply" /\ task[t].res \in Values \cup {"error"}
      BY <1>1, <1>4 DEF Expire, Step, Stage
  <2>2. v \in Values
      BY <2>1, CellsDistinct
  <2>3. Delete(v) \in Requests /\ "none" \in Results
      BY <2>2 DEF Requests, Results
  <2>4. y \in Tasks /\ y.pc = "local" /\ y.res = "none" /\ y.req = Delete(v)
    <3> HIDE DEF v
    <3> QED BY <1>1, <2>3 DEF Tasks, Served
  <2>5. task' = [task EXCEPT ![t] = y]
      BY <1>1, <1>4 DEF Expire, Typed
  <2>6. Firing(t, y)
    <3> HIDE DEF v
    <3> QED BY <1>4, <2>1, <2>2, <2>4 DEF Firing
  <2> QED BY <1>2, <2>4, <2>5, <2>6
<1>5. CASE Expire(t) /\ task[t].req.kind # "overlaid"
  <2>1. task[t].pc = "reply"
      BY <1>5 DEF Expire, Step
  <2>2. Resting("over") \in Tasks
      BY RestingTask DEF Alone
  <2>3. task' = [task EXCEPT ![t] = Resting("over")]
      BY <1>5 DEF Expire
  <2> QED BY <1>2, <2>1, <2>2, <2>3 DEF Firing
<1> QED BY <1>3, <1>4, <1>5

LEMMA TimerKeeps ==
    ASSUME StateInv, NEW t \in Timers, NEW x \in Tasks,
           task' = [task EXCEPT ![t] = x], Still, owner' = owner, gone' = gone,
           Firing(t, x)
    PROVE  StateInv'
<1>0. Typed /\ Exclusive /\ Stages /\ Agreement
    BY DEF StateInv
<1>1. /\ task'[t] = x /\ t \notin Clients
      /\ \A q \in Clients \cup Timers : q # t => task'[q] = task[q]
    BY <1>0, ClientsAssumption DEF Typed
<1>2. Shaped
    BY <1>0, TasksKept DEF Still, Shaped, Typed
<1>3. Resting("over").pc = "over"
    BY RestingTask DEF Alone
<1>a. /\ x.pc \in {"load", "local", "over"}
      /\ x.pc # "over" => x.res = "none"
      /\ x.pc = "load" => x.req.kind = "overlaid"
      /\ x.pc = "local" => x.req.kind = "cad" /\ x.req.new = Absent
  <2>1. Read("overlaid").kind = "overlaid"
      BY DEF Read
  <2>2. \A v \in Values : Delete(v).kind = "cad" /\ Delete(v).new = Absent
      BY DEF Delete
  <2> QED BY <1>3, <2>1, <2>2 DEF Firing
<1>4. Stage(x)
    BY <1>a DEF Stage, Mutations
<1>5. TimerStage(x)
  <2>1. UseTTL
      BY <1>0 DEF Firing, Stages, TimerStage
  <2> QED BY <1>a, <2>1 DEF TimerStage, Waits
<1>6. Lands(t, x)
    BY <1>1, <1>4, <1>5 DEF Lands
<1>7. Exclusive'
    BY <1>0, <1>1 DEF Exclusive, Waits
<1>8. Calm /\ owner' = NoOne => Agree(lower, upper)
    BY <1>0 DEF Agreement
<1> QED BY <1>1, <1>2, <1>6, <1>7, <1>8, StillKeeps DEF Still

(* The first of the timers that are not set is taken. *)
Started(c, t, x) ==
    /\ task[c].pc = "ttl" /\ x.pc = "reply" /\ x.res = task[c].res
    /\ x.req = [task[c].req EXCEPT !.ttl = NoTTL]
    /\ task' = [task EXCEPT ![t] = Resting("pending"), ![c] = x]
    /\ UNCHANGED <<setup, lower, upper, owner, calls, parted, crashed, ended, gone, late>>
    /\ timers' = t /\ Watch(lower, upper)

LEMMA SetTTLMoves ==
    ASSUME StateInv, NEW c \in Clients, SetTTL(c)
    PROVE  \E t \in Timers, x \in Tasks : Started(c, t, x)
<1>1. PICK t \in Timers :
        /\ task' = [task EXCEPT ![t] = Resting("pending"),
                                ![c].pc = "reply", ![c].req.ttl = NoTTL]
        /\ timers' = t
    BY DEF SetTTL
<1>2. Typed /\ task[c] \in Tasks /\ task[c].req \in Requests /\ c # t
    BY TaskShape, ClientsAssumption DEF StateInv, Tasks
<1> DEFINE q == [task[c].req EXCEPT !.ttl = NoTTL]
           y == [task[c] EXCEPT !.pc = "reply", !.req = q]
<1>3. q \in Requests
    BY <1>2, RequestShape
<1>4. y \in Tasks /\ y.pc = "reply" /\ y.req = q /\ y.res = task[c].res
  <2> HIDE DEF q
  <2> QED BY <1>2, <1>3 DEF Tasks, Served
<1>5. task' = [task EXCEPT ![t] = Resting("pending"), ![c] = y]
    BY <1>1, <1>2 DEF Typed, Tasks
<1>6. Started(c, t, y)
    BY <1>1, <1>4, <1>5 DEF SetTTL, Step, Started
<1> QED BY <1>4, <1>6

LEMMA SetTTLKeeps ==
    ASSUME StateInv, NEW c \in Clients, NEW t \in Timers, NEW x \in Tasks, Started(c, t, x)
    PROVE  StateInv'
<1>0. Typed /\ Exclusive /\ Stages /\ Agreement
    BY DEF StateInv
<1>1. /\ c # t /\ c \notin Timers /\ t \notin Clients
      /\ task[c] \in Tasks /\ task[c].req \in [kind : Kind, old : Cells, new : Cells, ttl : BOOLEAN]
      /\ Resting("pending") \in Tasks /\ Resting("pending").pc = "pending"
      /\ Resting("pending").res = "none"
    BY <1>0, ClientsAssumption, TaskShape, RestingTask DEF Alone
<1>2. /\ task'[c] = x /\ task'[t] = Resting("pending")
      /\ \A q \in Clients \cup Timers : q # c /\ q # t => task'[q] = task[q]
      /\ task' \in [Clients \cup Timers -> Tasks]
    BY <1>0, <1>1 DEF Started, Typed
<1>3. /\ task[c].req.kind = "insert" /\ task[c].req.ttl /\ UseTTL
      /\ task[c].res # "none" /\ task[c].req.kind \in Kinds /\ owner = c
    BY <1>0 DEF Started, Stages, Stage, Exclusive, Waits
<1>4. x.req.kind = "insert" /\ ~x.req.ttl
    BY <1>1, <1>3, NoTTLIsFalse DEF Started
<1>5. Shaped
  <2>1. t \in 0..MaxTimers
      BY ClientsAssumption DEF Timers
  <2> QED BY <1>0, <1>2, <2>1 DEF Started, Shaped, Typed
<1>6. Lands(c, x)
  <2>1. Stage(x)
      BY <1>3, <1>4 DEF Started, Stage
  <2> QED BY <1>1, <1>3, <1>4, <2>1 DEF Started, Lands, Alone
<1>7. Lands(t, Resting("pending"))
  <2>1. Stage(Resting("pending"))
      BY <1>1 DEF Stage
  <2>2. TimerStage(Resting("pending"))
      BY <1>1, <1>3 DEF TimerStage, Waits
  <2> QED BY <1>1, <2>1, <2>2 DEF Lands
<1>8. Exclusive'
  <2>1. owner' = owner
      BY DEF Started
  <2> QED BY <1>0, <1>1, <1>2, <1>3, <2>1 DEF Exclusive
<1>9. owner' # NoOne /\ ~Calm /\ x.pc \notin {"upper", "write"}
    BY <1>3, ClientsAssumption DEF Started, Calm
<1> QED BY <1>1, <1>2, <1>5, <1>6, <1>7, <1>8, <1>9, StillKeeps DEF Started

LEMMA UseUpperKeeps ==
    ASSUME StateInv, UseUpper
    PROVE  StateInv'
<1>0. Typed /\ Exclusive /\ Stages /\ Fresh /\ LoadIsFresh /\ Agreement /\ Undisturbed
    BY DEF StateInv
<1>1. /\ UNCHANGED <<setup, lower, owner, task, timers, parted, crashed, ended, gone, late>>
      /\ Watch(lower', upper') /\ upper' \in Cells /\ Neighbour
    BY DEF UseUpper, Cells
<1>2. Shaped
    BY <1>0, <1>1 DEF Shaped, Typed
<1>3. Typed' /\ Stages' /\ Fresh' /\ LoadIsFresh'
    BY <1>0, <1>1, <1>2, MoveKeeps
<1>4. Exclusive'
    BY <1>0, <1>1 DEF Exclusive
<1>5. Agreement'
    BY <1>1 DEF Agreement, Calm, Neighbour
<1>6. Undisturbed'
    BY <1>0, <1>1 DEF Undisturbed, OneTier, HasUpper, Delegation, UseTTL, StoreKind, Kinds
<1> QED BY <1>3, <1>4, <1>5, <1>6 DEF StateInv

(* What was left in the upper handler's queue is no concern of the lower. *)
LEMMA ServeLateKeeps ==
    ASSUME StateInv, ServeLate
    PROVE  StateInv'
<1>0. Typed /\ Exclusive /\ Stages /\ Fresh /\ LoadIsFresh /\ Agreement /\ Undisturbed
    BY DEF StateInv
<1>1. /\ UNCHANGED <<setup, lower, owner, task, timers, parted, crashed, ended, gone>>
      /\ Watch(lower', upper') /\ late # <<>> /\ late' = Tail(late)
      /\ upper' = Above(Head(late))
    BY DEF ServeLate
<1>2. parted /\ Head(late) \in Requests /\ late' \in Seq(Requests)
    BY <1>0, <1>1 DEF Typed
<1>3. upper' \in Cells
  <2>1. Head(late).new \in Cells
      BY <1>2, RequestShape
  <2> QED BY <1>0, <1>1, <2>1 DEF Typed, Above, Left
<1>4. Shaped
    BY <1>0, <1>1, <1>2, <1>3 DEF Shaped, Typed
<1>5. Typed' /\ Stages' /\ Fresh' /\ LoadIsFresh'
    BY <1>0, <1>1, <1>4, MoveKeeps
<1>6. Exclusive'
    BY <1>0, <1>1 DEF Exclusive
<1>7. Agreement'
    BY <1>1, <1>2 DEF Agreement, Calm
<1>8. Undisturbed'
    BY <1>0, <1>1 DEF Undisturbed, OneTier, HasUpper, Delegation, UseTTL, StoreKind, Kinds
<1> QED BY <1>5, <1>6, <1>7, <1>8 DEF StateInv

LEMMA HandlePlace ==
    ASSUME NEW p, Handle(p)
    PROVE  task[p].pc \in Served
BY DEF Handle, LocalCas, LocalGet, LocalWrite, DelegateMutation, DelegateInsert, UpdateLoad,
       UpdateSwap, LoadLocal, LoadUpper, Cache, Step, Served

LEMMA NextStateInv == StateInv /\ [Next]_vars => StateInv'
<1> SUFFICES ASSUME StateInv, [Next]_vars PROVE StateInv'
    OBVIOUS
<1>1. ASSUME NEW c \in Clients, Call(c) PROVE StateInv'
    BY <1>1, CallMoves, ClientKeeps
<1>2. ASSUME NEW c \in Clients, Serve(c) PROVE StateInv'
    BY <1>2, ServeMoves, ClientKeeps
<1>3. ASSUME NEW p \in Clients \cup Timers, Handle(p) PROVE StateInv'
    BY <1>3, HandlePlace, HandleHandled, HandledKeeps
<1>4. ASSUME NEW c \in Clients, ServeTTL(c) PROVE StateInv'
    BY <1>4, ServeTTLMoves, ClientKeeps
<1>5. ASSUME NEW c \in Clients, SetTTL(c) PROVE StateInv'
    BY <1>5, SetTTLMoves, SetTTLKeeps
<1>6. ASSUME NEW c \in Clients, ResetTTL(c) PROVE StateInv'
    BY <1>6, ResetTTLMoves, ClientKeeps
<1>7. ASSUME NEW c \in Clients, Return(c) PROVE StateInv'
    BY <1>7, ReturnMoves, ClientKeeps
<1>8. ASSUME NEW t \in Timers, Fire(t) \/ Expire(t) PROVE StateInv'
    BY <1>8, TimerMoves, TimerKeeps
<1>9. CASE UseUpper \/ ServeLate
    BY <1>9, UseUpperKeeps, ServeLateKeeps
<1>11. ASSUME NEW c \in Clients, HangInTTL(c) PROVE StateInv'
    BY <1>11, HangInTTLMoves, ClientKeeps
<1>12. ASSUME NEW c \in Clients, GiveUp(c) PROVE StateInv'
  <2>1. CASE task' = task /\ gone' = gone \cup {c}
    <3>1. gone' \subseteq Clients /\ ended' \subseteq Clients \cup Scopes /\ Still
            /\ owner' = owner
        BY <1>12, <2>1, GiveUpMoves DEF StateInv, Typed, Still
    <3> QED BY <2>1, <3>1, QuietKeeps DEF Still
  <2>2. CASE \E x \in Tasks : task' = [task EXCEPT ![c] = x] /\ Withdrawn(c, x)
      BY <1>12, <2>2, GiveUpMoves, ClientKeeps
  <2> QED BY <1>12, <2>1, <2>2, GiveUpMoves
<1>13. ASSUME NEW z \in Clients \cup Scopes, End(z) PROVE StateInv'
  <2>1. /\ ended' \subseteq Clients \cup Scopes /\ gone' \subseteq Clients
        /\ Watch(lower, upper)
        /\ UNCHANGED <<setup, lower, upper, owner, task, timers, parted, crashed, late>>
      BY <1>13 DEF End, StateInv, Typed
  <2> QED BY <2>1, QuietKeeps
<1>10. CASE UNCHANGED vars
  <2>1. UNCHANGED <<setup, lower, upper, owner, task, timers, seen, parted, crashed, ended,
                    gone, late>>
      BY <1>10 DEF vars
  <2>2. Typed' /\ Exclusive' /\ Fresh' /\ LoadIsFresh'
      BY <2>1 DEF StateInv, Typed, Exclusive, Fresh, LoadIsFresh
  <2>3. /\ HasUpper' = HasUpper /\ Delegation' = Delegation /\ UseTTL' = UseTTL
        /\ StoreKind' = StoreKind /\ Kinds' = Kinds /\ Neighbour' = Neighbour
      BY <2>1 DEF HasUpper, Delegation, UseTTL, StoreKind, Kinds, Neighbour
  <2>4. Stages'
    <3>1. \A x : (Stage(x)' <=> Stage(x)) /\ (TimerStage(x)' <=> TimerStage(x))
        BY <2>1, <2>3 DEF Stage, TimerStage
    <3>2. \A q \in Clients \cup Timers : Stage(task'[q]) /\ task'[q] = task[q]
        BY <2>1 DEF StateInv, Stages
    <3> QED BY <2>1, <2>3, <3>1, <3>2 DEF StateInv, Stages
  <2>5. Agreement'
      BY <2>1, <2>3 DEF StateInv, Agreement, Calm, Agreeing, Agree
  <2>6. Undisturbed'
      BY <2>1, <2>3 DEF StateInv, Undisturbed, OneTier
  <2> QED BY <2>2, <2>4, <2>5, <2>6 DEF StateInv
<1> QED BY <1>1, <1>2, <1>3, <1>4, <1>5, <1>6, <1>7, <1>8, <1>9, <1>10,
           <1>11, <1>12, <1>13 DEF Next, Work

(* The argument is inductive over every setup: the stores agree or not by  *)
(* what the one served request has done of its work.                       *)
THEOREM StateInductive == Spec => []StateInv
<1> QED BY InitStateInv, NextStateInv, PTL DEF Spec

(* The stores hold values, and a task's request is one that clients make.  *)
THEOREM StateTypeCorrect == Spec => []TypeOK
<1>1. StateInv => TypeOK
  <2> SUFFICES ASSUME Typed PROVE TypeOK
      BY DEF StateInv
  <2>1. \A p \in Clients \cup Timers : task[p] \in Tasks
      BY DEF Typed
  <2> QED BY <2>1 DEF Typed, TypeOK, Tasks, Cells
<1> QED BY <1>1, StateInductive, PTL

(* A load returns what one of the stores held during the call: whatever is *)
(* cached was read from the upper store by the same call.                  *)
THEOREM LoadsAreFresh == Spec => []LoadIsFresh
<1>1. StateInv => LoadIsFresh
    BY DEF StateInv
<1> QED BY <1>1, StateInductive, PTL

(* Between two requests the lower store has nothing that the upper one has *)
(* not, if nobody but the lower worker writes the upper store, and until   *)
(* an insertion is refused or a delegation is left without an answer.      *)
THEOREM StoresAgree == Spec => []WriteThrough
<1>1. StateInv => WriteThrough
    BY DEF StateInv, Agreement, Calm, Agree, WriteThrough
<1> QED BY <1>1, StateInductive, PTL

-----------------------------------------------------------------------------
(* What the cell shows of a client's task. *)
Bare(r) == [r EXCEPT !.ttl = NoTTL]
Shown(x) ==
    IF x.pc # "idle" THEN [request |-> Bare(x.req), result |-> x.res]
    ELSE [request |-> Read("none"), result |-> "none"]

(* The time to live of a request says nothing about its outcome. *)
LEMMA BareRequest ==
    ASSUME NEW r \in Requests, NEW v
    PROVE  /\ Bare(r) \in Requests
           /\ CellOutcome(Bare(r), v) = CellOutcome(r, v)
           /\ CellEffect(Bare(r), v) = CellEffect(r, v)
           /\ Bare(r) # Read("none")
<1>1. r \in [kind : Kind, old : Cells, new : Cells, ttl : BOOLEAN]
    BY RequestShape
<1>2. Bare(r).kind = r.kind /\ Bare(r).old = r.old /\ Bare(r).new = r.new
    BY <1>1 DEF Bare
<1>3. Read("none").kind = "none" /\ "none" \notin Kind
    BY DEF Read, Kind
<1>4. Bare(r) \in Requests
    BY RequestShape DEF Bare
<1> QED BY <1>1, <1>2, <1>3, <1>4 DEF CellOutcome, CellEffect, Matches, Left

LEMMA TwoTiersStutter ==
    ASSUME setup' = setup, ~OneTier
    PROVE  UNCHANGED Cell!vars
<1>1. ~OneTier'
    BY DEF OneTier, HasUpper, Delegation, UseTTL, StoreKind, Kinds
<1> QED BY <1>1 DEF Cell!vars, CellCall

LEMMA OneTierShows ==
    ASSUME setup' = setup, OneTier, Typed, task' \in [Clients \cup Timers -> Tasks]
    PROVE  /\ CellCall = [c \in Clients |-> Shown(task[c])]
           /\ CellCall' = [c \in Clients |-> Shown(task'[c])]
           /\ (IF OneTier THEN lower ELSE Absent) = lower
           /\ (IF OneTier THEN lower ELSE Absent)' = lower'
           /\ (IF OneTier THEN ended \cap Clients ELSE {}) = ended \cap Clients
           /\ (IF OneTier THEN ended \cap Clients ELSE {})' = ended' \cap Clients
           /\ (IF OneTier THEN gone ELSE {}) = gone
           /\ (IF OneTier THEN gone ELSE {})' = gone'
<1>1. OneTier'
    BY DEF OneTier, HasUpper, Delegation, UseTTL, StoreKind, Kinds
<1> QED BY <1>1 DEF CellCall, Shown, Bare, InCall

(* What a client's move of its own task is in the cell. *)
LEMMA ClientInCell ==
    ASSUME StateInv, OneTier, setup' = setup, NEW c \in Clients, NEW x \in Tasks,
           task' = [task EXCEPT ![c] = x], ended' = ended,
           \/ /\ task[c].pc = "idle" /\ x.pc # "idle" /\ x.res = "none" /\ lower' = lower
              /\ gone' = gone
           \/ task[c].pc # "idle" /\ x.pc # "idle" /\ CellStep(c, x) /\ gone' = gone
           \/ /\ task[c].pc # "idle" /\ x = Resting("idle") /\ lower' = lower
              /\ \/ task[c].res # "none" /\ gone' = gone \ {c}
                 \/ c \in ended \ gone /\ gone' = gone
    PROVE  [Cell!Next]_(Cell!vars)
<1>0. Typed
    BY DEF StateInv
<1>1. task' \in [Clients \cup Timers -> Tasks] /\ task[c].req \in Requests /\ x.req \in Requests
    BY <1>0, TasksKept DEF Typed, Tasks
<1> DEFINE before == [d \in Clients |-> Shown(task[d])]
           value == IF OneTier THEN lower ELSE Absent
           over == IF OneTier THEN ended \cap Clients ELSE {}
           away == IF OneTier THEN gone ELSE {}
<1>2. /\ CellCall = before
      /\ CellCall' = [before EXCEPT ![c] = Shown(x)]
      /\ value = lower /\ value' = lower' /\ over = ended \cap Clients /\ over' = over
      /\ away = gone /\ away' = gone'
      /\ CellCall[c] = Shown(task[c])
  <2>1. /\ task'[c] = x
        /\ \A d \in Clients : d # c => task'[d] = task[d]
      BY <1>0 DEF Typed
  <2> QED BY <1>0, <1>1, <2>1, OneTierShows
<1> HIDE DEF value, over, away
<1>4. CASE /\ task[c].pc = "idle" /\ x.pc # "idle" /\ x.res = "none" /\ lower' = lower
           /\ gone' = gone
  <2>1. /\ Shown(task[c]) = [request |-> Read("none"), result |-> "none"]
        /\ Shown(x) = [request |-> Bare(x.req), result |-> "none"]
        /\ Bare(x.req) \in Requests
      BY <1>1, <1>4, BareRequest DEF Shown
  <2>2. Cell!Invoke(c)
      BY <1>2, <1>4, <2>1 DEF Cell!Invoke, Cell!NoCall, value, over, away
  <2> QED BY <2>2 DEF Cell!Next
<1>5. CASE task[c].pc # "idle" /\ x.pc # "idle" /\ CellStep(c, x) /\ gone' = gone
  <2>1. /\ Shown(task[c]) = [request |-> Bare(task[c].req), result |-> task[c].res]
        /\ Shown(x) = [request |-> Bare(task[c].req), result |-> x.res]
        /\ Bare(task[c].req) # Read("none")
      BY <1>1, <1>5, BareRequest DEF Shown, CellStep
  <2>2. CASE lower' = lower /\ x.res = task[c].res
    <3>1. CellCall' = CellCall
        BY <1>2, <2>1, <2>2
    <3> QED BY <1>2, <1>5, <2>2, <3>1 DEF Cell!vars, value, over, away
  <2>3. CASE /\ task[c].res = "none"
             /\ lower' = CellEffect(task[c].req, lower)
             /\ x.res = CellOutcome(task[c].req, lower)
    <3>1. /\ lower' = CellEffect(Bare(task[c].req), lower)
          /\ x.res = CellOutcome(Bare(task[c].req), lower)
        BY <1>1, <2>3, BareRequest
    <3>2. /\ CellCall[c].request = Bare(task[c].req) /\ CellCall[c].result = "none"
          /\ CellCall[c] # [request |-> Read("none"), result |-> "none"]
        BY <1>2, <2>1, <2>3
    <3>3. value' = CellEffect(CellCall[c].request, value)
        BY <1>2, <3>1, <3>2
    <3>4. Shown(x) = [CellCall[c] EXCEPT !.result = x.res]
        BY <1>2, <2>1
    <3>5. x.res = CellOutcome(CellCall[c].request, value)
        BY <1>2, <3>1, <3>2
    <3>6. CellCall' = [CellCall EXCEPT ![c].result = CellOutcome(CellCall[c].request, value)]
        BY <1>2, <3>4, <3>5
    <3>7. Cell!TakeEffect(c)
        BY <1>2, <1>5, <3>2, <3>3, <3>6
           DEF Cell!TakeEffect, Cell!NoCall, value, over, away
    <3> QED BY <3>7 DEF Cell!Next
  <2> QED BY <1>5, <2>2, <2>3 DEF CellStep
<1>6. CASE /\ task[c].pc # "idle" /\ x = Resting("idle") /\ lower' = lower
           /\ task[c].res # "none" /\ gone' = gone \ {c}
  <2>1. /\ Shown(x) = [request |-> Read("none"), result |-> "none"]
        /\ Shown(task[c]).result # "none"
      BY <1>6, RestingTask DEF Shown, Waits
  <2>2. Cell!Return(c)
      BY <1>2, <1>6, <2>1 DEF Cell!Return, Cell!NoCall, value, over, away
  <2> QED BY <2>2 DEF Cell!Next
<1>7. CASE /\ task[c].pc # "idle" /\ x = Resting("idle") /\ lower' = lower
           /\ task[c].res = "none" /\ c \in ended \ gone /\ gone' = gone
  <2>1. /\ Shown(x) = [request |-> Read("none"), result |-> "none"]
        /\ Shown(task[c]) = [request |-> Bare(task[c].req), result |-> "none"]
        /\ Bare(task[c].req) # Read("none")
      BY <1>1, <1>7, RestingTask, BareRequest DEF Shown, Waits
  <2>2. /\ CellCall[c].result = "none"
        /\ CellCall[c] # [request |-> Read("none"), result |-> "none"]
      BY <1>2, <2>1
  <2>3. Cell!GiveUp(c)
      BY <1>2, <1>7, <2>1, <2>2 DEF Cell!GiveUp, Cell!NoCall, value, over, away
  <2> QED BY <2>3 DEF Cell!Next
<1>8. gone' = gone /\ c \notin gone => gone' = gone \ {c}
    OBVIOUS
<1> QED BY <1>4, <1>5, <1>6, <1>7, <1>8

(* What an expiry goroutine does to the cell: it may empty it. *)
LEMMA TimerInCell ==
    ASSUME StateInv, OneTier, setup' = setup, NEW t \in Timers, NEW x \in Tasks,
           task' = [task EXCEPT ![t] = x], lower' \in {lower, Absent},
           UNCHANGED <<ended, gone>>
    PROVE  [Cell!Next]_(Cell!vars)
<1>1. Typed /\ t \notin Clients
    BY ClientsAssumption DEF StateInv
<1>2. task' \in [Clients \cup Timers -> Tasks] /\ \A c \in Clients : task'[c] = task[c]
    BY <1>1, TasksKept DEF Typed
<1> DEFINE value == IF OneTier THEN lower ELSE Absent
           over == IF OneTier THEN ended \cap Clients ELSE {}
           away == IF OneTier THEN gone ELSE {}
<1>3. /\ CellCall' = CellCall /\ value = lower /\ value' = lower'
      /\ over' = over /\ away' = away
    BY <1>1, <1>2, OneTierShows
<1> HIDE DEF value, over, away
<1>4. CASE lower' = lower
    BY <1>3, <1>4 DEF Cell!vars, value, over, away
<1>5. CASE lower' = Absent
    BY <1>3, <1>5 DEF Cell!Next, Cell!Expire, value, over, away
<1> QED BY <1>4, <1>5

LEMMA SameTasksInCell ==
    ASSUME StateInv, OneTier, setup' = setup, lower' = lower, gone' = gone,
           ended' \cap Clients = ended \cap Clients,
           task' \in [Clients \cup Timers -> Tasks],
           \A c \in Clients : Shown(task'[c]) = Shown(task[c])
    PROVE  UNCHANGED Cell!vars
<1> DEFINE value == IF OneTier THEN lower ELSE Absent
           over == IF OneTier THEN ended \cap Clients ELSE {}
           away == IF OneTier THEN gone ELSE {}
<1>1. CellCall' = CellCall /\ value' = value /\ over' = over /\ away' = away
    BY OneTierShows DEF StateInv
<1> QED BY <1>1 DEF Cell!vars

(* A caller whose context ended comes back, and its request stays. *)
LEMMA LeavingInCell ==
    ASSUME StateInv, OneTier, NEW c \in Clients, task[c].pc # "idle", c \in ended \ gone,
           task' = task, UNCHANGED <<setup, lower, ended>>, gone' = gone \cup {c}
    PROVE  [Cell!Next]_(Cell!vars)
<1> DEFINE value == IF OneTier THEN lower ELSE Absent
           over == IF OneTier THEN ended \cap Clients ELSE {}
           away == IF OneTier THEN gone ELSE {}
<1>0. Typed /\ task[c].req \in Requests
    BY TaskShape DEF StateInv, Typed, Tasks
<1>1. /\ CellCall' = CellCall /\ value' = value /\ over' = over /\ c \in over
      /\ away = gone /\ away' = gone' /\ CellCall[c] = Shown(task[c])
    BY <1>0, OneTierShows DEF Typed
<1>2. CellCall[c] # [request |-> Read("none"), result |-> "none"]
    BY <1>0, <1>1, BareRequest DEF Shown
<1> HIDE DEF value, over, away
<1>3. Cell!GiveUp(c)
    BY <1>1, <1>2 DEF Cell!GiveUp, Cell!NoCall, value, over, away
<1> QED BY <1>3 DEF Cell!Next

(* A client's context ends; those of the scopes are not the cell's. *)
LEMMA EndInCell ==
    ASSUME StateInv, OneTier, NEW z \in Clients \cup Scopes, End(z)
    PROVE  [Cell!Next]_(Cell!vars)
<1>1. /\ task' = task /\ UNCHANGED <<setup, lower, gone>> /\ ended' = ended \cup {z}
      /\ Typed
    BY DEF End, StateInv
<1>2. CASE z \in Scopes
  <2>1. ended' \cap Clients = ended \cap Clients
      BY <1>1, <1>2, ClientsAssumption
  <2> QED BY <1>1, <2>1, SameTasksInCell DEF Typed
<1>3. CASE z \in Clients
  <2> DEFINE value == IF OneTier THEN lower ELSE Absent
             over == IF OneTier THEN ended \cap Clients ELSE {}
             away == IF OneTier THEN gone ELSE {}
  <2>1. /\ CellCall' = CellCall /\ value' = value /\ away' = away
        /\ over = ended \cap Clients /\ over' = ended' \cap Clients
      BY <1>1, OneTierShows DEF Typed
  <2> HIDE DEF value, over, away
  <2>2. over' = over \cup {z}
      BY <1>1, <1>3, <2>1
  <2>3. Cell!End(z)
      BY <2>1, <2>2 DEF Cell!End, value, over, away
  <2> QED BY <1>3, <2>3 DEF Cell!Next
<1> QED BY <1>2, <1>3

(* In one tier every step is a step of the cell, or nothing. *)
LEMMA OneTierStep ==
    ASSUME StateInv, OneTier, [Next]_vars
    PROVE  [Cell!Next]_(Cell!vars)
<1>0. /\ Typed /\ Stages /\ Undisturbed
      /\ \A p \in Clients \cup Timers : Stage(task[p]) /\ task[p] \in Tasks
    BY DEF StateInv, Stages, Typed
<1>1. ASSUME NEW c \in Clients, Call(c) PROVE [Cell!Next]_(Cell!vars)
  <2>1. PICK x \in Tasks : task' = [task EXCEPT ![c] = x] /\ Still /\ Asked(c, x)
      BY <1>1, CallMoves
  <2>2. /\ task[c].pc = "idle" /\ x.pc # "idle" /\ x.res = "none"
        /\ setup' = setup /\ lower' = lower /\ UNCHANGED <<ended, gone>>
      BY <2>1 DEF Asked, Still
  <2> QED BY <2>1, <2>2, ClientInCell
<1>2. ASSUME NEW c \in Clients, Serve(c) PROVE [Cell!Next]_(Cell!vars)
  <2>1. PICK x \in Tasks : task' = [task EXCEPT ![c] = x] /\ Still /\ Taken(c, x)
      BY <1>2, ServeMoves
  <2>2. /\ task[c].pc = "queued" /\ x.req = task[c].req /\ task[c].res = "none"
        /\ x.pc = FirstStep(x.req) /\ x.res = (IF x.pc = "reply" THEN "yes" ELSE "none")
        /\ setup' = setup /\ lower' = lower /\ x.req \in Requests
        /\ UNCHANGED <<ended, gone>>
      BY <1>0, <2>1 DEF Taken, Still, Stage, Tasks
  <2>3. x.pc # "idle" /\ (x.pc = "reply" => x.req.kind = "cas" /\ x.req.old = x.req.new)
      BY <2>2, FirstStepOf
  <2>4. CellStep(c, x)
    <3>1. CASE x.pc = "reply"
      <4>1. x.res = CellOutcome(task[c].req, lower)
          BY <2>2, <2>3, <3>1 DEF CellOutcome
      <4>2. CellEffect(task[c].req, lower) = lower
          BY <2>2, <2>3, <3>1 DEF CellEffect, Matches, Left
      <4> QED BY <2>2, <4>1, <4>2 DEF CellStep
    <3>2. CASE x.pc # "reply"
        BY <2>2, <3>2 DEF CellStep
    <3> QED BY <3>1, <3>2
  <2> QED BY <2>1, <2>2, <2>3, <2>4, ClientInCell
<1>3. ASSUME NEW p \in Clients \cup Timers, Handle(p) PROVE [Cell!Next]_(Cell!vars)
  <2>1. PICK x \in Tasks : Handled(p, x)
      BY <1>3, HandleHandled
  <2>2. /\ task' = [task EXCEPT ![p] = x] /\ setup' = setup /\ x.pc \in Served
        /\ UNCHANGED <<ended, gone>>
        /\ task[p].pc \in Served
        /\ p \in Clients => CellStep(p, x)
        /\ p \in Timers => lower' \in {lower, Absent}
      BY <1>3, <2>1, HandlePlace DEF Handled, Shaped
  <2>3. x.pc # "idle" /\ task[p].pc # "idle"
      BY <2>2 DEF Served
  <2> QED BY <2>2, <2>3, ClientInCell, TimerInCell
<1>4. ASSUME NEW c \in Clients, ServeTTL(c) PROVE [Cell!Next]_(Cell!vars)
  <2>1. PICK x \in Tasks : task' = [task EXCEPT ![c] = x] /\ Still /\ TakenTTL(c, x)
      BY <1>4, ServeTTLMoves
  <2>2. /\ task[c].pc # "idle" /\ x.pc # "idle" /\ CellStep(c, x) /\ setup' = setup
        /\ UNCHANGED <<ended, gone>>
      BY <2>1 DEF TakenTTL, Still, CellStep
  <2> QED BY <2>1, <2>2, ClientInCell
<1>5. ASSUME NEW c \in Clients, SetTTL(c) PROVE [Cell!Next]_(Cell!vars)
  <2>1. PICK t \in Timers, x \in Tasks : Started(c, t, x)
      BY <1>5, SetTTLMoves
  <2>2. /\ c # t /\ c \notin Timers /\ t \notin Clients /\ Resting("pending") \in Tasks
      BY ClientsAssumption, RestingTask DEF Alone
  <2>3. /\ task'[c] = x /\ (\A d \in Clients : d # c => task'[d] = task[d])
        /\ task' \in [Clients \cup Timers -> Tasks]
      BY <1>0, <2>1, <2>2 DEF Started, Typed
  <2>4. Bare(x.req) = Bare(task[c].req)
    <3>1. x.req = Bare(task[c].req)
        BY <2>1 DEF Started, Bare
    <3>2. task[c].req \in [kind : Kind, old : Cells, new : Cells, ttl : BOOLEAN]
        BY <1>0, TaskShape
    <3> QED BY <3>1, <3>2 DEF Bare
  <2>5. Shown(x) = Shown(task[c])
      BY <2>1, <2>4 DEF Started, Shown
  <2>6. setup' = setup /\ lower' = lower /\ UNCHANGED <<ended, gone>>
      BY <2>1 DEF Started
  <2> QED BY <2>3, <2>5, <2>6, SameTasksInCell
<1>6. ASSUME NEW c \in Clients, ResetTTL(c) PROVE FALSE
  <2>1. task[c].pc = "reset"
      BY <1>6 DEF ResetTTL, Step
  <2>2. task[c].req.kind = "reset" /\ task[c].req.kind \in Kinds
      BY <1>0, <2>1 DEF Stage, Stages
  <2> QED BY <2>2 DEF OneTier
<1>7. ASSUME NEW c \in Clients, Return(c) PROVE [Cell!Next]_(Cell!vars)
  <2>1. PICK x \in Tasks : task' = [task EXCEPT ![c] = x] /\ Still /\ Returning(c, x)
      BY <1>7, ReturnMoves
  <2>2. /\ task[c].pc = "reply" /\ task[c].res # "none" /\ setup' = setup /\ lower' = lower
        /\ ended' = ended /\ gone' = gone \ {c}
      BY <1>0, <2>1 DEF Returning, Stage, Still
  <2>3. CASE x = Resting("idle")
      BY <2>1, <2>2, <2>3, ClientInCell
  <2>4. CASE /\ x.pc = "queued ttl" /\ x.req = task[c].req /\ x.res = task[c].res
             /\ c \notin gone
    <3>1. x.pc # "idle" /\ task[c].pc # "idle" /\ CellStep(c, x) /\ gone' = gone
        BY <2>2, <2>4 DEF CellStep
    <3> QED BY <2>1, <2>2, <3>1, ClientInCell
  <2> QED BY <2>1, <2>3, <2>4 DEF Returning
<1>8. ASSUME NEW t \in Timers, Fire(t) \/ Expire(t) PROVE [Cell!Next]_(Cell!vars)
  <2>1. setup' = setup /\ lower' = lower /\ UNCHANGED <<ended, gone>>
      BY <1>8, TimerMoves DEF Still
  <2>2. PICK x \in Tasks : task' = [task EXCEPT ![t] = x]
      BY <1>8, TimerMoves
  <2> QED BY <2>1, <2>2, TimerInCell
<1>9. CASE UseUpper \/ ServeLate \/ UNCHANGED vars
  <2>1. setup' = setup /\ lower' = lower /\ task' = task /\ UNCHANGED <<ended, gone>>
      BY <1>9 DEF UseUpper, ServeLate, vars
  <2> QED BY <1>0, <2>1, SameTasksInCell DEF Typed
<1>10. ASSUME NEW c \in Clients, HangInTTL(c) PROVE [Cell!Next]_(Cell!vars)
  <2>1. PICK x \in Tasks : task' = [task EXCEPT ![c] = x] /\ Still /\ Hanging(c, x)
      BY <1>10, HangInTTLMoves
  <2>2. /\ task[c].pc # "idle" /\ x.pc # "idle" /\ CellStep(c, x) /\ setup' = setup
        /\ UNCHANGED <<ended, gone>>
      BY <2>1 DEF Hanging, Still, CellStep
  <2> QED BY <2>1, <2>2, ClientInCell
<1>11. ASSUME NEW c \in Clients, GiveUp(c) PROVE [Cell!Next]_(Cell!vars)
  <2>1. /\ task[c].pc # "idle" /\ c \in ended \ gone /\ UNCHANGED <<setup, lower, ended>>
      BY <1>11, GiveUpMoves DEF Still
  <2>2. CASE task' = task /\ gone' = gone \cup {c}
      BY <2>1, <2>2, LeavingInCell
  <2>3. CASE \E x \in Tasks : task' = [task EXCEPT ![c] = x] /\ Withdrawn(c, x)
    <3>1. PICK x \in Tasks : task' = [task EXCEPT ![c] = x] /\ Withdrawn(c, x)
        BY <2>3
    <3>2. x = Resting("idle") /\ gone' = gone
        BY <3>1 DEF Withdrawn
    <3> QED BY <2>1, <3>1, <3>2, ClientInCell
  <2> QED BY <1>11, <2>2, <2>3, GiveUpMoves
<1>12. ASSUME NEW z \in Clients \cup Scopes, End(z) PROVE [Cell!Next]_(Cell!vars)
    BY <1>12, EndInCell
<1> QED BY <1>1, <1>2, <1>3, <1>4, <1>5, <1>6, <1>7, <1>8, <1>9, <1>10, <1>11, <1>12
        DEF Next, Work

LEMMA CellInit == Init => Cell!Init
<1> SUFFICES ASSUME Init PROVE Cell!Init
    OBVIOUS
<1>1. lower = Absent /\ \A c \in Clients : task[c].pc = "idle"
  <2>1. \A c \in Clients : task[c] = Resting("idle")
      BY DEF Init
  <2> QED BY <2>1, RestingTask DEF Init, Waits
<1>2. ended = {} /\ gone = {}
    BY DEF Init
<1> QED BY <1>1, <1>2 DEF Cell!Init, Cell!NoCall, CellCall, InCall

LEMMA SetupKept == [Next]_vars => setup' = setup
<1> SUFFICES ASSUME [Next]_vars PROVE setup' = setup
    OBVIOUS
<1>1. ASSUME NEW p, Handle(p) PROVE setup' = setup
  <2>1. ASSUME NEW found, Mutate(p, found) PROVE setup' = setup
      BY <2>1 DEF Mutate
  <2>2. CASE LocalCas(p) \/ LocalGet(p) \/ LocalWrite(p)
      BY <2>1, <2>2 DEF LocalCas, LocalGet, LocalWrite
  <2>3. CASE DelegateMutation(p) \/ DelegateInsert(p) \/ UpdateLoad(p) \/ UpdateSwap(p)
      BY <2>3 DEF DelegateMutation, DelegateInsert, UpdateLoad, UpdateSwap
  <2>4. CASE LoadLocal(p) \/ LoadUpper(p) \/ Cache(p)
      BY <2>4 DEF LoadLocal, LoadUpper, Cache
  <2> QED BY <1>1, <2>2, <2>3, <2>4 DEF Handle
<1>2. ASSUME NEW c \in Clients, Call(c) \/ Work(c) PROVE setup' = setup
    BY <1>1, <1>2 DEF Call, Work, Serve, ServeTTL, SetTTL, HangInTTL, ResetTTL, Return
<1>3. ASSUME NEW t \in Timers, Fire(t) \/ Handle(t) \/ Expire(t) PROVE setup' = setup
    BY <1>1, <1>3 DEF Fire, Expire
<1>4. ASSUME NEW c \in Clients, GiveUp(c) PROVE setup' = setup
    BY <1>4 DEF GiveUp
<1>5. ASSUME NEW z \in Clients \cup Scopes, End(z) PROVE setup' = setup
    BY <1>5 DEF End
<1> QED BY <1>2, <1>3, <1>4, <1>5 DEF Next, UseUpper, ServeLate, vars

(* One tier is an atomic cell that may expire, for callers of any number:  *)
(* every operation takes effect at one moment and at most once; between    *)
(* call and return, unless its caller's own context ended meanwhile.       *)
THEOREM OneTierIsACell == Spec => ImplementsCell
<1>1. StateInv /\ [Next]_vars => [Cell!Next]_(Cell!vars)
    BY OneTierStep, SetupKept, TwoTiersStutter
<1> QED BY <1>1, CellInit, StateInductive, PTL DEF Spec, ImplementsCell, Cell!Spec

-----------------------------------------------------------------------------
(***************************************************************************)
(* The event sink.  A handler of its own, for any keys and values, any     *)
(* size of the sink, and any number of operations: StateEvents shares      *)
(* nothing with the effect above.                                          *)
(*                                                                         *)
(* That the events sorted by their stamps reproduce the store is proved    *)
(* from a history: what the key held at each stamp (Follows), and what it  *)
(* holds now (Explains).  A history goes on with every stamp, and does not *)
(* care where an event is on its way; Replay is the only one there is.     *)
(***************************************************************************)
Stored == Contents \union {Nothing}

(* The event of a goroutine that has its stamp; the events of a key, those *)
(* included that are still on their way.                                   *)
EventOf(a) == [key |-> KeyOf(a), payload |-> payload[a], stamp |-> stamp[a]]
OnTheWay == pending \union got \union ToSet(sink)
EventsOf(k) ==
    {e \in OnTheWay : e.key = k}
        \union {EventOf(a) : a \in
                    {a \in Actors : KeyOf(a) = k /\ actor[a] \in {"stamped", "hung"}}}

SinkEvents == [key : Keys, payload : Payloads \union {NoPayload}, stamp : Nat]

SinkTyped ==
    /\ initial \in [Keys -> Stored] /\ store \in [Keys -> Stored]
    /\ payload \in [Actors -> Payloads \union {NoPayload}]
    /\ actor \in [Actors -> {"idle", "called", "changed", "stamped", "hung", "done"}]
    /\ stamp \in [Actors -> Nat] /\ clock \in Nat
    /\ pending \subseteq SinkEvents /\ got \subseteq SinkEvents
    /\ sink \in Seq(SinkEvents) /\ Len(sink) <= Capacity
    /\ scope \in {"open", "ended", "closed"}

(* A stamp that is given out is not in the future. *)
StampsPast == \A k \in Keys : \A e \in EventsOf(k) : e.stamp \in 1 .. clock

(* Between a change and its stamp the goroutine is alone with its key. *)
OneChange ==
    \A k \in Keys \ raced : \A a, b \in Actors :
        KeyOf(a) = k /\ KeyOf(b) = k /\ actor[a] = "changed" /\ actor[b] = "changed" => a = b

(* What the key held at each stamp, and holds now: a change that has not   *)
(* got its stamp yet comes on top.                                         *)
Follows(g, k) ==
    /\ g[0] = initial[k]
    /\ \A e \in EventsOf(k) : g[e.stamp] = After(e.payload, g[e.stamp - 1])
    /\ \A n \in 1 .. clock : (\A e \in EventsOf(k) : e.stamp # n) => g[n] = g[n - 1]
Explains(g, k) ==
    /\ \A a \in Actors : KeyOf(a) = k /\ actor[a] = "changed"
            => store[k] = After(payload[a], g[clock])
    /\ (\A a \in Actors : KeyOf(a) = k => actor[a] # "changed") => store[k] = g[clock]
Explained ==
    \A k \in Keys \ (raced \union lost) :
        \E g \in [0 .. clock -> Stored] : Follows(g, k) /\ Explains(g, k)

SinkInv == SinkTyped /\ StampsPast /\ OneChange /\ Explained
(* Induction over the naturals, of a set and not of a predicate. *)
LEMMA Least ==
    ASSUME NEW S \in SUBSET Nat, S # {}
    PROVE  \E n \in S : \A m \in S : ~ (m < n)
<1> DEFINE R == OpToRel(<, Nat)
<1>1. IsWellFoundedOn(R, Nat)
    BY NatLessThanWellFounded
<1>2. \A x, y \in Nat : y < x => <<y, x>> \in R
    BY DEF OpToRel
<1> HIDE DEF R
<1>3. \E x \in S : \A y \in S : ~ (<<y, x>> \in R)
    BY <1>1, WFMin
<1> QED BY <1>2, <1>3

LEMMA Induction ==
    ASSUME NEW S \in SUBSET Nat, 0 \in S, \A n \in S : n + 1 \in S
    PROVE  S = Nat
<1> SUFFICES ASSUME Nat \ S # {} PROVE FALSE
    OBVIOUS
<1>1. PICK n \in Nat \ S : \A m \in Nat \ S : ~ (m < n)
    BY Least
<1>2. n # 0 /\ n - 1 \in Nat /\ n - 1 < n
    BY <1>1
<1>3. n - 1 \in S
    BY <1>1, <1>2
<1>4. (n - 1) + 1 = n
    BY <1>2
<1> QED BY <1>1, <1>3, <1>4

(* A function that obeys the equation of Replay's recursion is the one     *)
(* that Replay chooses.                                                    *)
LEMMA ReplayIsUnique ==
    ASSUME NEW k \in Keys, clock \in Nat, NEW g \in [0 .. clock -> Stored],
           g[0] = initial[k],
           \A e \in Received(k) : g[e.stamp] = After(e.payload, g[e.stamp - 1]),
           \A n \in 1 .. clock : (\A e \in Received(k) : e.stamp # n) => g[n] = g[n - 1]
    PROVE  Replay(k) = g[clock]
<1> DEFINE Again(n, v) == IF Stamped(k, n) = {} THEN v
                         ELSE After((CHOOSE e \in Stamped(k, n) : TRUE).payload, v)
           Run(f) == [n \in 0 .. clock |-> IF n = 0 THEN initial[k] ELSE Again(n, f[n - 1])]
<1>1. \A n \in 1 .. clock : g[n] = Again(n, g[n - 1])
  <2> TAKE n \in 1 .. clock
  <2>1. CASE Stamped(k, n) = {}
    BY <2>1 DEF Stamped
  <2>2. CASE Stamped(k, n) # {}
    <3> DEFINE e == CHOOSE e \in Stamped(k, n) : TRUE
    <3>1. e \in Stamped(k, n)
      BY <2>2
    <3>2. e \in Received(k) /\ e.stamp = n
      BY <3>1 DEF Stamped
    <3> HIDE DEF e
    <3>3. g[n] = After(e.payload, g[n - 1])
      BY <3>2
    <3> QED BY <2>2, <3>3 DEF e
  <2> QED BY <2>1, <2>2
<1>2. Replay(k) = (CHOOSE run : run = Run(run))[clock]
  BY DEF Replay
<1> HIDE DEF Again
<1>3. g = Run(g)
  <2>1. \A n \in 0 .. clock : g[n] = Run(g)[n]
    BY <1>1
  <2> QED BY <2>1
<1>4. ASSUME NEW f, f = Run(f)
      PROVE  f = g
  <2>1. DOMAIN f = 0 .. clock /\ \A n \in 0 .. clock : f[n] = Run(f)[n]
    BY <1>4
  <2> DEFINE Same == {n \in Nat : n <= clock => f[n] = g[n]}
  <2>2. 0 \in Same
    BY <2>1
  <2>3. ASSUME NEW n \in Same
        PROVE  n + 1 \in Same
    <3> SUFFICES ASSUME n + 1 <= clock PROVE f[n + 1] = g[n + 1]
      OBVIOUS
    <3>1. /\ n + 1 \in 0 .. clock /\ n + 1 \in 1 .. clock /\ (n + 1) - 1 = n /\ n + 1 # 0
          /\ f[n] = g[n]
      OBVIOUS
    <3>2. f[n + 1] = Again(n + 1, f[n])
      BY <2>1, <3>1
    <3>3. g[n + 1] = Again(n + 1, g[n])
      BY <1>1, <3>1
    <3> QED BY <3>1, <3>2, <3>3
  <2> HIDE DEF Same
  <2>4. Same = Nat
    <3>1. Same \in SUBSET Nat
      BY DEF Same
    <3> QED BY <3>1, <2>2, <2>3, Induction
  <2>5. \A n \in 0 .. clock : f[n] = g[n]
    BY <2>4 DEF Same
  <2>6. f = [n \in 0 .. clock |-> f[n]]
    BY <1>4, <2>1
  <2> QED BY <2>1, <2>5, <2>6
<1>5. (CHOOSE run : run = Run(run)) = g
  <2> DEFINE h == CHOOSE run : run = Run(run)
  <2>1. h = Run(h)
    BY <1>3
  <2> HIDE DEF h
  <2>2. h = g
    BY <2>1, <1>4
  <2> QED BY <2>2 DEF h
<1> QED BY <1>2, <1>5

-----------------------------------------------------------------------------
(* When nothing of the key is on its way, what the events reproduce is the *)
(* end of its history.                                                     *)
LEMMA SettledIsReplayed ==
    ASSUME SinkInv
    PROVE  ReplayReproduces
<1> SUFFICES ASSUME NEW k \in Keys, Settled(k), k \notin raced
             PROVE  Replay(k) = store[k]
    BY DEF ReplayReproduces
<1>1. /\ \A a \in Actors : KeyOf(a) = k => actor[a] \in {"idle", "done"}
      /\ k \notin lost /\ \A e \in pending : e.key # k
    BY DEF Settled
<1>2. EventsOf(k) = Received(k)
    BY <1>1 DEF EventsOf, OnTheWay, Received
<1>3. PICK g \in [0 .. clock -> Stored] : Follows(g, k) /\ Explains(g, k)
    BY <1>1 DEF SinkInv, Explained
<1>4. store[k] = g[clock]
    BY <1>1, <1>3 DEF Explains
<1>5. Replay(k) = g[clock]
  <2>1. clock \in Nat
    BY DEF SinkInv, SinkTyped
  <2> QED BY <2>1, <1>2, <1>3, ReplayIsUnique DEF Follows
<1> QED BY <1>4, <1>5

LEMMA ActorKeys == \A a \in Actors : KeyOf(a) \in Keys
BY DEF Actors, Workers, Expiries, KeyOf

LEMMA PayloadNew == \A p \in Payloads \union {NoPayload} : p.new \in Stored
BY DEF Payloads, NoPayload, Insertion, Replacement, Deletion, Stored

LEMMA AfterStored ==
    ASSUME NEW p \in Payloads \union {NoPayload}, NEW v \in Stored
    PROVE  After(p, v) \in Stored
BY PayloadNew DEF After

LEMMA InitSinkInv == ASSUME EventsInit PROVE SinkInv
<1> USE DEF EventsInit
<1>1. initial \in [Keys -> Stored]
    BY EventsAssumption DEF Stored
<1>2. SinkTyped
  <2>1. Capacity \in Nat
    BY EventsAssumption DEF Capacity
  <2>2. sink \in Seq(SinkEvents) /\ Len(sink) <= Capacity
    BY <2>1
  <2> QED BY <1>1, <2>2 DEF SinkTyped
<1>3. \A k \in Keys : EventsOf(k) = {}
    BY DEF EventsOf, OnTheWay, ToSet
<1>4. StampsPast /\ OneChange
    BY <1>3 DEF StampsPast, OneChange
<1>5. Explained
  <2> SUFFICES ASSUME NEW k \in Keys
               PROVE  \E g \in [0 .. clock -> Stored] : Follows(g, k) /\ Explains(g, k)
    BY DEF Explained
  <2> DEFINE g == [n \in 0 .. 0 |-> initial[k]]
  <2>1. g \in [0 .. clock -> Stored] /\ g[0] = initial[k] /\ g[clock] = initial[k]
    BY <1>1
  <2> HIDE DEF g
  <2>2. Follows(g, k) /\ Explains(g, k)
    BY <2>1, <1>3 DEF Follows, Explains
  <2> QED BY <2>1, <2>2
<1> QED BY <1>2, <1>4, <1>5 DEF SinkInv

-----------------------------------------------------------------------------
(* Steps that neither change a store nor stamp an event, and leave every   *)
(* event of a key somewhere unless the key is lost.                        *)
LEMMA SinkQuietStep ==
    ASSUME SinkInv, SinkTyped', UNCHANGED <<initial, store, clock>>,
           raced \subseteq raced', lost \subseteq lost',
           \A k \in Keys : EventsOf(k)' \subseteq EventsOf(k),
           \A k \in Keys \ lost' : EventsOf(k)' = EventsOf(k),
           \A a \in Actors :
                /\ actor'[a] = "changed" <=> actor[a] = "changed"
                /\ actor[a] = "changed" => payload'[a] = payload[a]
    PROVE  SinkInv'
<1> USE DEF SinkInv
<1>1. StampsPast'
    BY DEF StampsPast
<1>2. OneChange'
    BY DEF OneChange
<1>3. Explained'
  <2> SUFFICES ASSUME NEW k \in Keys \ (raced' \union lost')
               PROVE  \E g \in [0 .. clock' -> Stored] : Follows(g, k)' /\ Explains(g, k)'
    BY DEF Explained
  <2>1. PICK g \in [0 .. clock -> Stored] : Follows(g, k) /\ Explains(g, k)
    BY DEF Explained
  <2>2. Follows(g, k)'
    BY <2>1 DEF Follows
  <2>3. Explains(g, k)'
    BY <2>1 DEF Explains
  <2> QED BY <2>2, <2>3
<1> QED BY <1>1, <1>2, <1>3

(* The types. *)
LEMMA SinkTypedStep == ASSUME SinkTyped, [EventsNext]_eventsVars PROVE SinkTyped'
<1> USE DEF SinkTyped, storeVars, actorVars, sinkVars
<1>1. ASSUME NEW a \in Actors, Accept(a)
      PROVE  SinkTyped'
  <2>1. \E p \in Payloads : payload' = [payload EXCEPT ![a] = p]
    <3>1. CASE a \in Workers
      BY <1>1, <3>1 DEF Accept
    <3>2. CASE a \notin Workers
      <4>1. Loaded(KeyOf(a)) \in Contents
        BY ActorKeys, EventsAssumption DEF Loaded, Stored
      <4>2. Deletion(Loaded(KeyOf(a))) \in Payloads
        BY <4>1 DEF Payloads
      <4> QED BY <4>2, <1>1, <3>2 DEF Accept
    <3> QED BY <3>1, <3>2
  <2> QED BY <2>1, <1>1 DEF Accept
<1>2. ASSUME NEW a \in Actors, Change(a)
      PROVE  SinkTyped'
  <2>1. store' \in [Keys -> Stored]
    BY <1>2, ActorKeys, AfterStored DEF Change
  <2>2. /\ payload' \in [Actors -> Payloads \union {NoPayload}]
        /\ stamp' \in [Actors -> Nat]
        /\ actor' \in [Actors -> {"idle", "called", "changed", "stamped", "hung", "done"}]
    <3>1. CASE actor' = [actor EXCEPT ![a] = "changed"] /\ UNCHANGED <<payload, stamp>>
      BY <3>1
    <3>2. CASE Finish(a)
      BY <3>2 DEF Finish
    <3> QED BY <3>1, <3>2, <1>2 DEF Change
  <2> QED BY <2>1, <2>2, <1>2 DEF Change
<1>3. ASSUME NEW a \in Actors, Stamp(a)
      PROVE  SinkTyped'
    BY <1>3 DEF Stamp
<1>4. ASSUME NEW a \in Actors, StartChild(a)
      PROVE  SinkTyped'
  <2>1. EventOf(a) \in SinkEvents
    BY ActorKeys DEF EventOf, SinkEvents
  <2>2. pending' = pending \union {EventOf(a)}
    BY <1>4 DEF StartChild, EventOf
  <2> QED BY <2>1, <2>2, <1>4 DEF StartChild, Finish
<1>5. ASSUME NEW a \in Actors, Hang(a)
      PROVE  SinkTyped'
    BY <1>5 DEF Hang
<1>6. ASSUME NEW e \in pending, Offer(e)
      PROVE  SinkTyped'
  <2>1. Capacity \in Nat
    BY EventsAssumption DEF Capacity
  <2> QED BY <2>1, <1>6 DEF Offer
<1>7. ASSUME NEW e \in pending, Drop(e)
      PROVE  SinkTyped'
    BY <1>7 DEF Drop
<1>8. CASE Receive
  <2>1. /\ Head(sink) \in SinkEvents /\ Tail(sink) \in Seq(SinkEvents)
        /\ Len(Tail(sink)) <= Len(sink)
    BY <1>8 DEF Receive
  <2>2. Capacity \in Nat
    BY EventsAssumption DEF Capacity
  <2>3. Capacity' = Capacity
    BY DEF Capacity
  <2>4. Len(Tail(sink)) <= Capacity
    BY <2>1, <2>2
  <2> HIDE DEF Capacity
  <2> QED BY <2>1, <2>3, <2>4, <1>8 DEF Receive
<1>9. CASE EndScope \/ CancelChildren \/ UNCHANGED eventsVars
    BY <1>9 DEF EndScope, CancelChildren, eventsVars
<1> QED BY <1>1, <1>2, <1>3, <1>4, <1>5, <1>6, <1>7, <1>8, <1>9
       DEF EventsNext, ActorStep, ChildStep

(* A goroutine before its change, or one that will never return.           *)
LEMMA SinkCallStep ==
    ASSUME SinkInv, SinkTyped', NEW a \in Actors, Accept(a) \/ Hang(a)
    PROVE  SinkInv'
<1> USE DEF storeVars, actorVars, sinkVars
<1>1. /\ UNCHANGED <<initial, store, clock, raced, lost, stamp, sinkVars>>
      /\ actor[a] \in {"idle", "stamped"}
      /\ \A b \in Actors \ {a} : actor'[b] = actor[b] /\ payload'[b] = payload[b]
      /\ actor[a] = "idle" => actor'[a] = "called"
      /\ actor[a] = "stamped" => actor'[a] = "hung" /\ payload'[a] = payload[a]
    BY DEF Accept, Hang, SinkInv, SinkTyped
<1>2. \A k \in Keys : EventsOf(k)' = EventsOf(k)
    BY <1>1 DEF EventsOf, EventOf, OnTheWay
<1> QED BY <1>1, <1>2, SinkQuietStep

(* A goroutine hands its event to a child. *)
LEMMA SinkStartStep ==
    ASSUME SinkInv, SinkTyped', NEW a \in Actors, StartChild(a)
    PROVE  SinkInv'
<1> USE DEF storeVars
<1>1. /\ UNCHANGED <<initial, store, clock, raced, lost, sink, got>>
      /\ pending' = pending \union {EventOf(a)} /\ actor[a] = "stamped"
      /\ actor'[a] \in {"idle", "done"}
      /\ \A b \in Actors \ {a} :
            actor'[b] = actor[b] /\ payload'[b] = payload[b] /\ stamp'[b] = stamp[b]
    BY DEF StartChild, Finish, SinkInv, SinkTyped, EventOf
<1>2. ASSUME NEW k \in Keys
      PROVE  EventsOf(k)' = EventsOf(k)
  <2>1. EventOf(a).key = KeyOf(a)
    BY DEF EventOf
  <2>2. \A b \in Actors \ {a} : EventOf(b)' = EventOf(b)
    BY <1>1 DEF EventOf
  <2>3. OnTheWay' = OnTheWay \union {EventOf(a)}
    BY <1>1 DEF OnTheWay
  <2> QED BY <1>1, <2>1, <2>2, <2>3 DEF EventsOf
<1> QED BY <1>1, <1>2, SinkQuietStep

LEMMA Elements == ASSUME SinkTyped PROVE ToSet(sink) = {sink[i] : i \in 1 .. Len(sink)}
BY DEF SinkTyped, ToSet

(* Events that move on, or are dropped. *)
LEMMA SinkCarryStep ==
    ASSUME SinkInv, SinkTyped',
           (\E e \in pending : Offer(e) \/ Drop(e)) \/ Receive
    PROVE  SinkInv'
<1> USE DEF storeVars, actorVars
<1>1. /\ UNCHANGED <<initial, store, actor, payload, stamp, clock, raced>>
      /\ lost \subseteq lost'
    BY DEF Offer, Drop, Receive
<1>2. /\ OnTheWay' \subseteq OnTheWay
      /\ \A e \in OnTheWay : e \in OnTheWay' \/ e.key \in lost'
  <2> USE DEF SinkInv
  <2>1. ToSet(sink) = {sink[i] : i \in 1 .. Len(sink)}
        /\ ToSet(sink)' = {sink'[i] : i \in 1 .. Len(sink')}
    BY Elements, <1>1 DEF SinkTyped, ToSet
  <2>2. ASSUME NEW e \in pending, Offer(e)
        PROVE  OnTheWay' = OnTheWay
    <3>1. sink' = Append(sink, e) /\ pending' = pending \ {e} /\ got' = got
      BY <2>2 DEF Offer
    <3>2. {sink'[i] : i \in 1 .. Len(sink')} = {sink[i] : i \in 1 .. Len(sink)} \union {e}
      <4>1. /\ Len(sink) \in Nat /\ Len(sink') = Len(sink) + 1 /\ sink'[Len(sink')] = e
            /\ \A i \in 1 .. Len(sink) : sink'[i] = sink[i]
        BY <3>1 DEF SinkTyped
      <4>2. 1 .. Len(sink') = (1 .. Len(sink)) \union {Len(sink')}
        BY <4>1
      <4> QED BY <4>1, <4>2
    <3> QED BY <3>1, <3>2, <2>1 DEF OnTheWay
  <2>3. ASSUME NEW e \in pending, Drop(e)
        PROVE  /\ OnTheWay' \subseteq OnTheWay
               /\ \A f \in OnTheWay : f \in OnTheWay' \/ f.key \in lost'
    BY <2>3 DEF Drop, OnTheWay
  <2>4. CASE Receive
    <3>1. sink # <<>> /\ got' = got \union {Head(sink)} /\ sink' = Tail(sink) /\ pending' = pending
      BY <2>4 DEF Receive
    <3>2. {sink[i] : i \in 1 .. Len(sink)} = {sink'[i] : i \in 1 .. Len(sink')} \union {Head(sink)}
      <4>1. /\ Len(sink) \in Nat \ {0} /\ Len(sink') = Len(sink) - 1 /\ sink[1] = Head(sink)
            /\ \A i \in 1 .. Len(sink') : sink'[i] = sink[i + 1]
        BY <3>1 DEF SinkTyped
      <4>2. \A i \in 1 .. Len(sink) : i = 1 \/ (i - 1 \in 1 .. Len(sink') /\ sink[i] = sink'[i - 1])
        BY <4>1
      <4>3. \A i \in 1 .. Len(sink') : i + 1 \in 1 .. Len(sink) /\ sink'[i] = sink[i + 1]
        BY <4>1
      <4>4. 1 \in 1 .. Len(sink)
        BY <4>1
      <4> QED BY <4>1, <4>2, <4>3, <4>4
    <3> QED BY <3>1, <3>2, <2>1 DEF OnTheWay
  <2> QED BY <2>2, <2>3, <2>4
<1>3. \A b \in Actors : EventOf(b)' = EventOf(b)
    BY <1>1 DEF EventOf
<1>4. /\ \A k \in Keys : EventsOf(k)' \subseteq EventsOf(k)
      /\ \A k \in Keys \ lost' : EventsOf(k)' = EventsOf(k)
    BY <1>1, <1>2, <1>3 DEF EventsOf
<1> QED BY <1>1, <1>4, SinkQuietStep

-----------------------------------------------------------------------------
(* A goroutine changes the key, if no other is between its change and its  *)
(* stamp, or finds nothing to do.                                          *)
LEMMA SinkChangeStep ==
    ASSUME SinkInv, SinkTyped', NEW a \in Actors, Change(a)
    PROVE  SinkInv'
<1> DEFINE key == KeyOf(a)
           p == payload[a]
<1> USE DEF sinkVars
<1>1. /\ actor[a] = "called" /\ store' = [store EXCEPT ![key] = After(p, @)]
      /\ UNCHANGED <<initial, clock, sinkVars>>
      /\ raced \subseteq raced' /\ key \in Keys
      /\ \A b \in Actors \ {a} : KeyOf(b) = key /\ actor[b] = "changed" => key \in raced'
      /\ \A b \in Actors \ {a} :
            actor'[b] = actor[b] /\ payload'[b] = payload[b] /\ stamp'[b] = stamp[b]
    BY ActorKeys DEF Change, Finish, SinkInv, SinkTyped
<1>2. actor'[a] \notin {"stamped", "hung"}
    BY DEF Change, Finish, SinkInv, SinkTyped
<1>3. \A k \in Keys : EventsOf(k)' = EventsOf(k)
  <2>1. \A b \in Actors \ {a} : EventOf(b)' = EventOf(b)
    BY <1>1 DEF EventOf
  <2>2. OnTheWay' = OnTheWay
    BY <1>1 DEF OnTheWay, ToSet
  <2>3. actor[a] \notin {"stamped", "hung"}
    BY <1>1
  <2> QED BY <1>1, <1>2, <2>1, <2>2, <2>3 DEF EventsOf
<1>4. CASE Applies(p, store[key]) \/ p.op = "InsertIfAbsent"
  <2>1. actor' = [actor EXCEPT ![a] = "changed"] /\ payload' = payload
    BY <1>4 DEF Change
  <2>2. StampsPast'
    BY <1>1, <1>3 DEF SinkInv, StampsPast
  <2>3. OneChange'
    BY <1>1, <2>1 DEF SinkInv, OneChange
  <2>4. Explained'
    <3> SUFFICES ASSUME NEW k \in Keys \ (raced' \union lost')
                 PROVE  \E g \in [0 .. clock' -> Stored] : Follows(g, k)' /\ Explains(g, k)'
      BY DEF Explained
    <3>1. PICK g \in [0 .. clock -> Stored] : Follows(g, k) /\ Explains(g, k)
      BY <1>1 DEF SinkInv, Explained
    <3>2. Follows(g, k)'
      BY <3>1, <1>1, <1>3 DEF Follows
    <3>3. CASE k = key
      <4>1. \A b \in Actors : KeyOf(b) = k => actor[b] # "changed"
        BY <3>3, <1>1
      <4>2. store[k] = g[clock]
        BY <4>1, <3>1 DEF Explains
      <4>3. store'[k] = After(p, g[clock])
        BY <4>2, <3>3, <1>1 DEF SinkInv, SinkTyped
      <4>4. \A b \in Actors : KeyOf(b) = k /\ actor'[b] = "changed" => b = a
        BY <4>1, <1>1
      <4>5. actor'[a] = "changed" /\ payload'[a] = p
        BY <2>1 DEF SinkInv, SinkTyped
      <4>6. Explains(g, k)'
        BY <4>3, <4>4, <4>5, <3>3, <1>1 DEF Explains
      <4> QED BY <3>2, <4>6, <1>1
    <3>4. CASE k # key
      <4>1. /\ store'[k] = store[k]
            /\ \A b \in Actors :
                    KeyOf(b) = k => actor'[b] = actor[b] /\ payload'[b] = payload[b]
        BY <3>4, <1>1 DEF SinkInv, SinkTyped
      <4>2. Explains(g, k)'
        BY <4>1, <3>1, <1>1 DEF Explains
      <4> QED BY <3>2, <4>2, <1>1
    <3> QED BY <3>3, <3>4
  <2> QED BY <2>2, <2>3, <2>4 DEF SinkInv
<1>5. CASE ~ (Applies(p, store[key]) \/ p.op = "InsertIfAbsent")
  <2>1. After(p, store[key]) = store[key]
    BY <1>5 DEF After
  <2>2. store' = store
    BY <2>1, <1>1 DEF SinkInv, SinkTyped
  <2>3. actor'[a] # "changed"
    BY <1>5 DEF Change, Finish, SinkInv, SinkTyped
  <2> QED BY <1>1, <1>3, <2>2, <2>3, SinkQuietStep
<1> QED BY <1>4, <1>5

(* The stamp continues the history of the key by the change it is for, and *)
(* that of every other key by nothing.                                     *)
LEMMA SinkStampStep ==
    ASSUME SinkInv, SinkTyped', NEW a \in Actors, Stamp(a)
    PROVE  SinkInv'
<1> DEFINE key == KeyOf(a)
           p == payload[a]
           new == [key |-> key, payload |-> p, stamp |-> clock + 1]
<1> USE DEF storeVars, sinkVars
<1>1. /\ actor[a] = "changed" /\ clock' = clock + 1 /\ clock \in Nat /\ key \in Keys
      /\ stamp'[a] = clock + 1 /\ actor'[a] = "stamped"
      /\ UNCHANGED <<initial, store, payload, pending, sink, got, lost, raced>>
      /\ \A b \in Actors \ {a} : actor'[b] = actor[b] /\ stamp'[b] = stamp[b]
    BY ActorKeys DEF Stamp, SinkInv, SinkTyped
<1>2. /\ EventsOf(key)' = EventsOf(key) \union {new}
      /\ \A k \in Keys \ {key} : EventsOf(k)' = EventsOf(k)
  <2>1. \A b \in Actors \ {a} : EventOf(b)' = EventOf(b)
    BY <1>1 DEF EventOf
  <2>2. EventOf(a)' = new
    BY <1>1 DEF EventOf
  <2>3. OnTheWay' = OnTheWay
    BY <1>1 DEF OnTheWay, ToSet
  <2> HIDE DEF new
  <2> QED BY <1>1, <2>1, <2>2, <2>3 DEF EventsOf
<1>3. new.stamp = clock + 1 /\ new.payload = p
    OBVIOUS
<1>4. \A k \in Keys : \A e \in EventsOf(k) : e.stamp \in 1 .. clock
    BY DEF SinkInv, StampsPast
<1> HIDE DEF new
<1>5. StampsPast'
  <2> SUFFICES ASSUME NEW k \in Keys, NEW e \in EventsOf(k)'
               PROVE  e.stamp \in 1 .. clock'
    BY DEF StampsPast
  <2> QED BY <1>1, <1>2, <1>3, <1>4
<1>6. OneChange'
    BY <1>1 DEF SinkInv, OneChange
<1>7. Explained'
  <2> SUFFICES ASSUME NEW k \in Keys \ (raced' \union lost')
               PROVE  \E g \in [0 .. clock' -> Stored] : Follows(g, k)' /\ Explains(g, k)'
    BY DEF Explained
  <2>1. PICK g \in [0 .. clock -> Stored] : Follows(g, k) /\ Explains(g, k)
    BY <1>1 DEF SinkInv, Explained
  <2> DEFINE now == IF k = key THEN After(p, g[clock]) ELSE g[clock]
  <2>2. g[clock] \in Stored
    BY <1>1
  <2>3. now \in Stored
    BY <2>2, AfterStored DEF SinkInv, SinkTyped
  <2>4. \E f \in [0 .. clock + 1 -> Stored] :
            f[clock + 1] = now /\ \A n \in 0 .. clock : f[n] = g[n]
    <3> DEFINE f == [n \in 0 .. clock + 1 |-> IF n = clock + 1 THEN now ELSE g[n]]
    <3>1. f \in [0 .. clock + 1 -> Stored]
      BY <2>3, <1>1
    <3>2. f[clock + 1] = now /\ \A n \in 0 .. clock : f[n] = g[n]
      BY <1>1
    <3> HIDE DEF f
    <3> QED BY <3>1, <3>2
  <2>5. PICK h \in [0 .. clock + 1 -> Stored] :
            h[clock + 1] = now /\ \A n \in 0 .. clock : h[n] = g[n]
    BY <2>4
  <2>6. h[0] = initial'[k]
    BY <2>5, <2>1, <1>1 DEF Follows
  <2>7. \A e \in EventsOf(k) : h[e.stamp] = After(e.payload, h[e.stamp - 1])
    <3> TAKE e \in EventsOf(k)
    <3>1. e.stamp \in 0 .. clock /\ e.stamp - 1 \in 0 .. clock
      BY <1>1, <1>4
    <3>2. g[e.stamp] = After(e.payload, g[e.stamp - 1])
      BY <2>1 DEF Follows
    <3> QED BY <3>1, <3>2, <2>5
  <2>8. \A n \in 1 .. clock : (\A e \in EventsOf(k) : e.stamp # n) => h[n] = h[n - 1]
    <3> TAKE n \in 1 .. clock
    <3>1. n \in 0 .. clock /\ n - 1 \in 0 .. clock
      BY <1>1
    <3>2. (\A e \in EventsOf(k) : e.stamp # n) => g[n] = g[n - 1]
      BY <2>1 DEF Follows
    <3> QED BY <3>1, <3>2, <2>5
  <2>9. (clock + 1) - 1 = clock /\ h[clock] = g[clock]
    BY <2>5, <1>1
  <2>10. \A e \in EventsOf(k)' : h[e.stamp] = After(e.payload, h[e.stamp - 1])
    <3> TAKE e \in EventsOf(k)'
    <3>1. CASE e \in EventsOf(k)
      BY <3>1, <2>7
    <3>2. CASE e \notin EventsOf(k)
      <4>1. k = key /\ e = new
        BY <3>2, <1>2
      <4> QED BY <4>1, <1>3, <2>5, <2>9
    <3> QED BY <3>1, <3>2
  <2>11. ASSUME NEW n \in 1 .. clock', \A e \in EventsOf(k)' : e.stamp # n
         PROVE  h[n] = h[n - 1]
    <3>1. CASE n = clock + 1
      <4>1. k # key
        BY <3>1, <2>11, <1>2, <1>3
      <4> QED BY <4>1, <3>1, <2>5, <2>9
    <3>2. CASE n # clock + 1
      <4>1. n \in 1 .. clock
        BY <3>2, <1>1
      <4>2. \A e \in EventsOf(k) : e.stamp # n
        BY <2>11, <1>2
      <4> QED BY <4>1, <4>2, <2>8
    <3> QED BY <3>1, <3>2
  <2>12. Follows(h, k)'
    BY <2>6, <2>10, <2>11 DEF Follows
  <2>13. Explains(h, k)'
    <3>1. CASE k = key
      <4>1. \A b \in Actors : KeyOf(b) = k => actor'[b] # "changed"
        BY <3>1, <1>1 DEF SinkInv, OneChange
      <4>2. store[k] = After(p, g[clock])
        BY <3>1, <2>1, <1>1 DEF Explains
      <4> QED BY <4>1, <4>2, <3>1, <2>5, <1>1 DEF Explains
    <3>2. CASE k # key
      <4>1. \A b \in Actors : KeyOf(b) = k => actor'[b] = actor[b]
        BY <3>2, <1>1
      <4> QED BY <4>1, <3>2, <2>1, <2>5, <1>1 DEF Explains
    <3> QED BY <3>1, <3>2
  <2> QED BY <2>12, <2>13, <1>1
<1> QED BY <1>5, <1>6, <1>7 DEF SinkInv

LEMMA NextSinkInv == ASSUME SinkInv, [EventsNext]_eventsVars PROVE SinkInv'
<1>1. SinkTyped'
    BY SinkTypedStep DEF SinkInv
<1>2. CASE \E a \in Actors : Accept(a) \/ ActorStep(a)
    BY <1>1, <1>2, SinkCallStep, SinkChangeStep, SinkStampStep, SinkStartStep DEF ActorStep
<1>3. CASE ChildStep \/ Receive
    BY <1>1, <1>3, SinkCarryStep DEF ChildStep
<1>4. CASE EndScope \/ CancelChildren \/ UNCHANGED eventsVars
  <2>1. UNCHANGED <<storeVars, actorVars, sinkVars, raced>>
    BY <1>4 DEF EndScope, CancelChildren, eventsVars
  <2>2. \A k \in Keys : EventsOf(k)' = EventsOf(k)
    BY <2>1 DEF EventsOf, EventOf, OnTheWay, ToSet, actorVars, sinkVars
  <2> QED BY <1>1, <2>1, <2>2, SinkQuietStep DEF storeVars, actorVars, sinkVars
<1> QED BY <1>2, <1>3, <1>4 DEF EventsNext

(* In every reachable state every key that lost no event, and whose timer  *)
(* did not get between a change and its stamp, has a history that the      *)
(* events out there tell, and its store is the end of it.                  *)
THEOREM SinkInductive == EventsSpec => []SinkInv
<1>1. EventsInit => SinkInv
    BY InitSinkInv
<1>2. SinkInv /\ [EventsNext]_eventsVars => SinkInv'
    BY NextSinkInv
<1> QED BY <1>1, <1>2, PTL DEF EventsSpec

(* EventSourcingEffect: whoever sorts the events of a key by their stamps  *)
(* can reproduce the store, whatever order they arrive in, for any number  *)
(* of keys, values, workers and operations, any sink, and every store that *)
(* the handler was started with.                                           *)
THEOREM StampsOrderChanges == EventsSpec => []ReplayReproduces
<1>1. SinkInv => ReplayReproduces
    BY SettledIsReplayed
<1> QED BY <1>1, SinkInductive, PTL
=============================================================================
