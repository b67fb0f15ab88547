---------------------------- MODULE HandlerChain ----------------------------
(***************************************************************************)
(* Resumable handlers whose handler function itself waits, nested in       *)
(* scopes 1..Depth of which 1 is the innermost (effects/binding,           *)
(* effects/dependency, effects/task):                                      *)
(*   "binding"     a key that is not in the scope's map is looked up with  *)
(*                 the handler's own context, which finds the handler of   *)
(*                 the scope above; callers and workers alike wait for the *)
(*                 reply or for their context;                             *)
(*   "dependency"  the same, but they wait for the reply and nothing else; *)
(*   "task"        the handler starts a goroutine and waits for its result *)
(*                 or for the scope's context; nobody delegates.           *)
(* One scope has one worker: the partition a lookup's key belongs to.      *)
(***************************************************************************)
EXTENDS Naturals, Sequences, FiniteSets

CONSTANTS
    Clients, Depth, Setups,
    BufferSize,     \* capacity of each handler's channel
    Idle            \* no client

Levels == 1..Depth

(* Contexts are named by the client or the scope they belong to.  A task's *)
(* scope can run it: the function comes with the message.                  *)
ASSUME ChainAssumption ==
    /\ Depth \in Nat \ {0} /\ BufferSize \in Nat \ {0}
    /\ Idle \notin Clients /\ Clients \cap Levels = {}
    /\ \A s \in Setups :
        /\ s \in [kind : {"binding", "dependency", "task"},
                  entry : [Clients -> Levels], has : [Clients -> SUBSET Levels],
                  mayEnd : SUBSET (Clients \union Levels), stuck : SUBSET Clients]
        /\ s.kind = "task" => \A q \in Clients : s.entry[q] \in s.has[q]

VARIABLES
    setup,      \* chosen once: kind, each client's scope, who has its key,
                \* which contexts may end, whose task never returns
    ended,      \* contexts that have ended
    result,     \* what each client got
    perform,    \* PerformEffect of client q's lookup at scope l
    reply,      \* its reply channel
    queue,      \* the buffer of each scope's channel
    worker, serving, held,  \* each scope's goroutine, its lookup, its result
    task        \* the goroutine of each client's task

vars == <<setup, ended, result, perform, reply, queue, worker, serving, held, task>>

Answers == INSTANCE ScopedLookup

Open == <<"open", 0>>       \* a reply channel with nothing in it
Empty == <<"empty", 0>>     \* closed without a result

TypeOK ==
    /\ ended \subseteq Clients \union Levels
    /\ perform \in [Clients \X Levels ->
            {"none", "sending", "sent", "aborted", "recovered"}]
    /\ \A l \in Levels : queue[l] \in Seq(Clients) /\ Len(queue[l]) <= BufferSize
    /\ worker \in [Levels ->
            {"idle", "handling", "waiting", "answering", "exited"}]
    /\ serving \in [Levels -> Clients \union {Idle}]
    /\ task \in [Clients -> {"none", "ready", "running", "delivered", "closed"}]

Init ==
    /\ setup \in Setups
    /\ ended = {}
    /\ result = [q \in Clients |-> Answers!Pending]
    /\ perform = [c \in Clients \X Levels |-> "none"]
    /\ reply = [c \in Clients \X Levels |-> Open]
    /\ queue = [l \in Levels |-> <<>>]
    /\ worker = [l \in Levels |-> "idle"]
    /\ serving = [l \in Levels |-> Idle]
    /\ held = [l \in Levels |-> Open]
    /\ task = [q \in Clients |-> "none"]

-----------------------------------------------------------------------------
(* PerformEffect, whose caller is a client or the worker of the scope      *)
(* below, each with its own context.                                       *)
CallerContext(q, l) == IF l = setup.entry[q] THEN q ELSE l - 1

StartCall(q, l) == perform' = [perform EXCEPT ![<<q, l>>] = "sending"]

(* The three ways out of its select: the message is in the buffer, the     *)
(* context has ended, or the worker closed the channel and the panic is    *)
(* recovered, which returns a nil channel.                                 *)
Send(q, l) ==
    /\ perform[<<q, l>>] = "sending"
    /\ worker[l] # "exited" /\ Len(queue[l]) < BufferSize
    /\ queue' = [queue EXCEPT ![l] = Append(@, q)]
    /\ perform' = [perform EXCEPT ![<<q, l>>] = "sent"]
    /\ UNCHANGED <<setup, ended, result, reply, worker, serving, held, task>>

NotSent(q, l) ==
    /\ perform[<<q, l>>] = "sending"
    /\ \/ /\ CallerContext(q, l) \in ended
          /\ perform' = [perform EXCEPT ![<<q, l>>] = "aborted"]
       \/ /\ worker[l] = "exited"
          /\ perform' = [perform EXCEPT ![<<q, l>>] = "recovered"]
    /\ UNCHANGED <<setup, ended, result, reply, queue, worker, serving, held, task>>

(* What the caller may get: what is in the reply channel; of a closed one  *)
(* the zero result, for which binding.Effect puts its context's error; and *)
(* in binding.Effect its context's error at any time.                      *)
Gets(q, l) ==
    LET watches == setup.kind = "binding"
        over == CallerContext(q, l) \in ended
        made == perform[<<q, l>>] \in {"sent", "aborted"}
        closed == made /\ reply[<<q, l>>] = Empty
    IN  {a \in {reply[<<q, l>>]} : made /\ a \notin {Open, Empty}}
            \union {a \in {Answers!Nothing} : closed /\ ~ (watches /\ over)}
            \union {a \in {Answers!Failed} :
                        watches /\ over /\ perform[<<q, l>>] \notin {"none", "sending"}}

(* A client performs the effect in its scope and waits for the reply. *)
Ask(q) ==
    /\ perform[<<q, setup.entry[q]>>] = "none"
    /\ StartCall(q, setup.entry[q])
    /\ UNCHANGED <<setup, ended, result, reply, queue, worker, serving, held, task>>

Take(q) ==
    /\ result[q] = Answers!Pending
    /\ \E a \in Gets(q, setup.entry[q]) : result' = [result EXCEPT ![q] = a]
    /\ UNCHANGED <<setup, ended, perform, reply, queue, worker, serving, held, task>>

-----------------------------------------------------------------------------
(* The worker's loop. *)
Receive(l) ==
    /\ worker[l] = "idle" /\ queue[l] # <<>>
    /\ queue' = [queue EXCEPT ![l] = Tail(@)]
    /\ worker' = [worker EXCEPT ![l] = "handling"]
    /\ serving' = [serving EXCEPT ![l] = Head(queue[l])]
    /\ UNCHANGED <<setup, ended, result, perform, reply, held, task>>

Exit(l) ==
    /\ worker[l] = "idle" /\ l \in ended
    /\ worker' = [worker EXCEPT ![l] = "exited"]
    /\ UNCHANGED <<setup, ended, result, perform, reply, queue, serving, held, task>>

Return(l, a) ==
    /\ held' = [held EXCEPT ![l] = a]
    /\ worker' = [worker EXCEPT ![l] = "answering"]

(* handle: the scope has it; nobody above: the panic of the missing        *)
(* handler is recovered and becomes the error; the scope above is asked.   *)
Answerable(l) == worker[l] = "handling" /\ setup.kind # "task"

Match(l) ==
    /\ Answerable(l) /\ l \in setup.has[serving[l]]
    /\ Return(l, Answers!Found(l))
    /\ UNCHANGED <<setup, ended, result, perform, reply, queue, serving, task>>

(* Mutant: a handler that has nothing answers that nobody has. *)
Bug_MissAtTop(l) ==
    /\ Answerable(l) /\ l \notin setup.has[serving[l]]
    /\ Return(l, Answers!Unknown)
    /\ UNCHANGED <<setup, ended, result, perform, reply, queue, serving, task>>

MissAtTop(l) ==
    /\ Answerable(l) /\ l \notin setup.has[serving[l]] /\ l = Depth
    /\ Return(l, Answers!Unknown)
    /\ UNCHANGED <<setup, ended, result, perform, reply, queue, serving, task>>

(* Mutant: the lookup is delegated with the caller's context, in which the *)
(* nearest handler is the one that is asking.                              *)
Bug_Upper(l) == l

(* GetHandler with the handler's own context finds the scope above. *)
Upper(l) == l + 1

Delegate(l) ==
    /\ Answerable(l) /\ l \notin setup.has[serving[l]] /\ l < Depth
    /\ StartCall(serving[l], Upper(l))
    /\ worker' = [worker EXCEPT ![l] = "waiting"]
    /\ UNCHANGED <<setup, ended, result, reply, queue, serving, held, task>>

TakeDelegated(l) ==
    /\ worker[l] = "waiting" /\ setup.kind # "task"
    /\ \E a \in Gets(serving[l], Upper(l)) : Return(l, a)
    /\ UNCHANGED <<setup, ended, result, perform, reply, queue, serving, task>>

(* The select around handleFn's result, and the close of the channel. *)
Reply(l, a) ==
    /\ worker[l] = "answering"
    /\ reply' = [reply EXCEPT ![<<serving[l], l>>] = a]
    /\ worker' = [worker EXCEPT ![l] = "idle"]
    /\ serving' = [serving EXCEPT ![l] = Idle]
    /\ UNCHANGED <<setup, ended, result, perform, queue, held, task>>

Answer(l) == Reply(l, held[l])
DropAnswer(l) == l \in ended /\ Reply(l, Empty)

-----------------------------------------------------------------------------
(* The handler of task.Effect: the goroutine looks at the context, runs    *)
(* the function and looks again before it puts the result in done.         *)
StartTask(l) ==
    /\ worker[l] = "handling" /\ setup.kind = "task"
    /\ task' = [task EXCEPT ![serving[l]] = "ready"]
    /\ worker' = [worker EXCEPT ![l] = "waiting"]
    /\ UNCHANGED <<setup, ended, result, perform, reply, queue, serving, held>>

RunTask(q) ==
    /\ task[q] = "ready"
    /\ task' = [task EXCEPT ![q] =
            IF setup.entry[q] \in ended THEN "closed" ELSE "running"]
    /\ UNCHANGED <<setup, ended, result, perform, reply, queue, worker, serving, held>>

EndTask(q) ==
    /\ task[q] = "running" /\ q \notin setup.stuck
    /\ task' = [task EXCEPT ![q] =
            IF setup.entry[q] \in ended THEN "closed" ELSE "delivered"]
    /\ UNCHANGED <<setup, ended, result, perform, reply, queue, worker, serving, held>>

(* Mutant: the handler waits for done alone. *)
Bug_TakeTask(l) ==
    /\ worker[l] = "waiting" /\ setup.kind = "task"
    /\ \/ task[serving[l]] = "delivered" /\ Return(l, Answers!Found(l))
       \/ task[serving[l]] = "closed" /\ Return(l, Answers!Failed)
    /\ UNCHANGED <<setup, ended, result, perform, reply, queue, serving, task>>

TakeTask(l) ==
    /\ worker[l] = "waiting" /\ setup.kind = "task"
    /\ \/ task[serving[l]] = "delivered" /\ Return(l, Answers!Found(l))
       \/ task[serving[l]] = "closed" /\ Return(l, Answers!Failed)
       \/ l \in ended /\ Return(l, Answers!Failed)
    /\ UNCHANGED <<setup, ended, result, perform, reply, queue, serving, task>>

-----------------------------------------------------------------------------
(* A client gives up, a scope is torn down (cancelHandler), or a context   *)
(* above them ends, which reaches them one by one and in any order.        *)
End(x) ==
    /\ x \in setup.mayEnd \ ended
    /\ ended' = ended \union {x}
    /\ UNCHANGED <<setup, result, perform, reply, queue, worker, serving, held, task>>

ClientStep(q) == Take(q) \/ \E l \in Levels : Send(q, l) \/ NotSent(q, l)

WorkerStep(l) ==
    \/ Receive(l) \/ Match(l) \/ MissAtTop(l) \/ Delegate(l) \/ TakeDelegated(l)
    \/ Answer(l) \/ DropAnswer(l) \/ StartTask(l) \/ TakeTask(l)

TaskStep(q) == RunTask(q) \/ EndTask(q)

Next ==
    \/ \E q \in Clients : Ask(q) \/ ClientStep(q) \/ TaskStep(q)
    \/ \E l \in Levels : WorkerStep(l) \/ Exit(l)
    \/ \E x \in Clients \union Levels : End(x)

(* Goroutines run, and tasks that are not stuck return.  A client performs *)
(* one lookup, so that a worker runs out of messages and its select takes  *)
(* the context's end at last.                                              *)
Fairness ==
    /\ \A q \in Clients : WF_vars(ClientStep(q) \/ TaskStep(q))
    /\ \A l \in Levels : WF_vars(WorkerStep(l) \/ Exit(l))

Spec == Init /\ [][Next]_vars
FairSpec == Spec /\ Fairness

-----------------------------------------------------------------------------
(* A chain of handlers is one lookup: whatever workers, buffers and        *)
(* contexts do in between, a caller gets the nearest scope's value, or "no *)
(* handler" when no scope has it, unless a scope on the way has ended.     *)
ImplementsLookup == Answers!LookupSpec

(* Workers that wait for the worker above never block each other for good: *)
(* while its scopes live, every lookup is answered, and every task if all  *)
(* tasks return.                                                           *)
LookupsAreAnswered ==
    \A q \in Clients :
        perform[<<q, setup.entry[q]>>] # "none" /\ setup.stuck = {} ~>
            result[q] # Answers!Pending \/ ended \cap (Answers!Path(q) \union {q}) # {}

(* The worker of a scope that has ended leaves, although it waits for a    *)
(* task that never returns or for a scope above that will never answer.    *)
(* A dependency handler may stay where it is, waiting for the reply.       *)
EndedScopeIsLeft ==
    \A l \in Levels :
        l \in ended ~>
            \/ worker[l] = "exited"
            \/ setup.kind = "dependency" /\ worker[l] = "waiting"

=============================================================================
