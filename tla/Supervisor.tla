----------------------------- MODULE Supervisor -----------------------------
(***************************************************************************)
(* The concurrency effect (effects/concurrency/concurrency.go): a          *)
(* resumable handler with one worker whose handler function starts the     *)
(* functions of a call as child goroutines, a watcher goroutine that       *)
(* cancels the children when the parent context ends, and a teardown that  *)
(* waits for the children.  Queue, replies, contexts and scope are those   *)
(* of ResumableEffect; a call of concurrency.Effect carries a batch of     *)
(* functions.                                                              *)
(*                                                                         *)
(* appendCancel and the watcher share the slice childrenCancels without a  *)
(* lock.  append stores the new length before the new element, so the slot *)
(* exists (Slot) before it holds the cancel function (List).               *)
(***************************************************************************)
EXTENDS ResumableEffect, SequencesExt

CONSTANT Batch      \* functions in a caller's n-th call of concurrency.Effect

ASSUME BatchAssumption == Batch \in [1..MaxCalls -> Nat]

Functions(c) == 1..Batch[c[2]]
Children == UNION {{c} \X Functions(c) : c \in Calls}
CallOf(ch) == ch[1]

VARIABLES
    child,           \* the life of each child goroutine
    childrenCancels, \* the slots of the slice, as the children they are for
    wg,              \* the counter of the WaitGroup
    childCancelled,  \* the children whose own context is cancelled
    watcher,         \* the watcher goroutine
    left,            \* the slots it has still to call
    crashed          \* the watcher called a nil function: the process is gone

childVars == <<child, childrenCancels, wg>>
watchVars == <<childCancelled, watcher, left, crashed>>
supervisorVars == <<resumableVars, childVars, watchVars>>

(* "running" ends by itself, "blocked" waits for its own context to end. *)
ChildStates == {"none", "slotted", "listed", "running", "blocked", "ended"}
Live(ch) == child[ch] \in {"running", "blocked"}
Started(ch) == Live(ch) \/ child[ch] = "ended"

SupervisorInit ==
    /\ ResumableInit
    /\ child = [ch \in Children |-> "none"]
    /\ childrenCancels = <<>>
    /\ wg = 0
    /\ childCancelled = {}
    /\ watcher = "waiting"
    /\ left = <<>>
    /\ crashed = FALSE

-----------------------------------------------------------------------------
(* spawnConcurrentChildren, one function after the other.                  *)
IsNext(ch) ==
    /\ \E w \in Workers : worker[w] = "handling" /\ current[w] = CallOf(ch)
    /\ \A i \in 1..(ch[2] - 1) : Started(<<CallOf(ch), i>>)

Slot(ch) ==
    /\ IsNext(ch)
    /\ child[ch] = "none"
    /\ child' = [child EXCEPT ![ch] = "slotted"]
    /\ childrenCancels' = Append(childrenCancels, ch)
    /\ UNCHANGED <<resumableVars, wg, watchVars>>

List(ch) ==
    /\ child[ch] = "slotted"
    /\ child' = [child EXCEPT ![ch] = "listed"]
    /\ UNCHANGED <<resumableVars, childrenCancels, wg, watchVars>>

(* wg.Add(1), then the goroutine; what its function does is its own. *)
Go(ch) ==
    /\ child[ch] = "listed"
    /\ wg' = wg + 1
    /\ \E kind \in {"running", "blocked"} : child' = [child EXCEPT ![ch] = kind]
    /\ UNCHANGED <<resumableVars, childrenCancels, watchVars>>

(* The handler function returns when ready.Wait() has seen every child.    *)
AllStarted(w) == \A i \in Functions(current[w]) : Started(<<current[w], i>>)

Reply(w) ==
    /\ worker[w] = "handling" /\ AllStarted(w)
    /\ Answer(w) \/ DropAnswer(w)
    /\ UNCHANGED <<childVars, watchVars>>

(* Mutant: wg.Done() is not deferred, and skipped when a child is cancelled. *)
Bug_ChildEnds(ch) ==
    /\ child[ch] = "running" \/ (child[ch] = "blocked" /\ ch \in childCancelled)
    /\ child' = [child EXCEPT ![ch] = "ended"]
    /\ wg' = IF child[ch] = "blocked" THEN wg ELSE wg - 1
    /\ UNCHANGED <<resumableVars, childrenCancels, watchVars>>

(* The function returns or panics (recovered); wg.Done() runs either way. *)
ChildEnds(ch) ==
    /\ child[ch] = "running" \/ (child[ch] = "blocked" /\ ch \in childCancelled)
    /\ child' = [child EXCEPT ![ch] = "ended"]
    /\ wg' = wg - 1
    /\ UNCHANGED <<resumableVars, childrenCancels, watchVars>>

-----------------------------------------------------------------------------
(* watchParentCancel: the range statement reads the slice once. *)
WatchCancel ==
    /\ watcher = "waiting"
    /\ Parent \in cancelled
    /\ watcher' = "cancelling"
    /\ left' = childrenCancels
    /\ UNCHANGED <<resumableVars, childVars, childCancelled, crashed>>

(* Mutant: a return in place of the loop's next iteration. *)
Bug_CancelNext ==
    /\ watcher = "cancelling"
    /\ left # <<>>
    /\ left' = <<>>
    /\ crashed' = (child[Head(left)] = "slotted")
    /\ childCancelled' = childCancelled \cup {Head(left)}
    /\ UNCHANGED <<resumableVars, childVars, watcher>>

(* It calls the functions in turn; a slot not yet filled is a nil function.*)
CancelNext ==
    /\ watcher = "cancelling"
    /\ left # <<>>
    /\ left' = Tail(left)
    /\ crashed' = (child[Head(left)] = "slotted")
    /\ childCancelled' = childCancelled \cup {Head(left)}
    /\ UNCHANGED <<resumableVars, childVars, watcher>>

(* The loop is over, or the scope closed doneCh. *)
WatchEnd ==
    /\ \/ watcher = "cancelling" /\ left = <<>>
       \/ watcher = "waiting" /\ scope = "closed"
    /\ watcher' = "ended"
    /\ UNCHANGED <<resumableVars, childVars, childCancelled, left, crashed>>

-----------------------------------------------------------------------------
(* Mutant: the teardown does not wait. *)
Bug_EndScope ==
    /\ Teardown
    /\ UNCHANGED <<replyVars, childVars, watchVars>>

(* td(): waitChildren, then close(doneCh).  wg.Wait() returns on a zero    *)
(* counter; nothing here cancels a child.                                  *)
EndScope ==
    /\ wg = 0
    /\ Teardown
    /\ UNCHANGED <<replyVars, childVars, watchVars>>

(* The steps of the resumable effect that the supervisor adds nothing to. *)
EffectStep ==
    /\ \/ \E c \in Callers : Perform(c)
       \/ \E call \in Calls : CallStep(call) /\ UNCHANGED replyVars
       \/ \E call \in Calls : AwaitStep(call)
       \/ \E w \in Workers : (Receive(w) \/ Exit(w)) /\ UNCHANGED replyVars
       \/ ScopeStep /\ ~Teardown /\ UNCHANGED replyVars
    /\ UNCHANGED <<childVars, watchVars>>

SpawnStep(ch) == Slot(ch) \/ List(ch) \/ Go(ch)
WatchStep == WatchCancel \/ CancelNext \/ WatchEnd

SupervisorNext ==
    /\ ~crashed
    /\ \/ EffectStep
       \/ \E ch \in Children : SpawnStep(ch) \/ ChildEnds(ch)
       \/ \E w \in Workers : Reply(w)
       \/ WatchStep
       \/ EndScope

SupervisorSpec == SupervisorInit /\ [][SupervisorNext]_supervisorVars

(* Goroutines run; a blocked child is not obliged to end before its        *)
(* context does.  The worker leaves a loop whose context stays cancelled.  *)
Plain(A) == ~crashed /\ A /\ UNCHANGED <<replyVars, childVars, watchVars>>

SupervisorFairness ==
    /\ \A call \in Calls :
        /\ WF_supervisorVars(Plain(CallStep(call)))
        /\ WF_supervisorVars(~crashed /\ AwaitStep(call) /\ UNCHANGED <<childVars, watchVars>>)
    /\ \A ch \in Children :
        /\ WF_supervisorVars(~crashed /\ SpawnStep(ch))
        /\ WF_supervisorVars(~crashed /\ ChildEnds(ch))
    /\ \A w \in Workers :
        /\ WF_supervisorVars(~crashed /\ Reply(w))
        /\ WF_supervisorVars(Plain(Receive(w) \/ Exit(w)))
        /\ SF_supervisorVars(Plain(Exit(w)))
    /\ \A x \in Contexts : WF_supervisorVars(Plain(Propagate(x)))
    /\ WF_supervisorVars(~crashed /\ WatchStep)
    /\ WF_supervisorVars(~crashed /\ EndScope)

SupervisorFairSpec == SupervisorSpec /\ SupervisorFairness

-----------------------------------------------------------------------------
(* Values of the variables; the WaitGroup never goes below zero. *)
SupervisorTypeOK ==
    /\ child \in [Children -> ChildStates]
    /\ childrenCancels \in Seq(Children)
    /\ wg \in Nat
    /\ childCancelled \subseteq Children
    /\ watcher \in {"waiting", "cancelling", "ended"}
    /\ left \in Seq(Children)
    /\ crashed \in BOOLEAN

(* When the scope closes every child it started has ended: the only        *)
(* goroutines that outlive a scope are those a late message makes it start *)
(* afterwards.                                                             *)
CloseJoinsChildren ==
    [][EndScope => \A ch \in Children : ~Live(ch)]_supervisorVars

(* Every child that lives in an open scope when the parent context ends,   *)
(* before the watcher has read the slice, is cancelled and ends.           *)
ListedChildrenStop ==
    \A ch \in Children :
        (watcher = "waiting" /\ Parent \in cancelled /\ scope # "closed" /\ Live(ch))
            ~> (child[ch] = "ended" \/ crashed)

(* A teardown under a cancelled parent comes back, unless it waits for a    *)
(* child that no slot of the watcher's slice was for: one that was listed   *)
(* after the range statement had read it.                                   *)
Late(ch) ==
    child[ch] = "blocked" /\ ch \notin childCancelled /\ watcher # "waiting"
      /\ ch \notin ToSet(left)

TeardownHangsOnLateChildrenOnly ==
    (scope = "cancelled" /\ Parent \in cancelled)
        ~> (scope = "closed" \/ crashed \/ \E ch \in Children : Late(ch))

(* A caller that waits on the bare channel for its children to start hears  *)
(* of it, as soon as the message was sent, in a scope that lives or ends,   *)
(* unless the worker left and the message is still in its channel.          *)
BareWaitHangsOnlyInBuffer ==
    \A call \in Calls :
        perform[call] = "sent"
            ~> \/ outcome[call] # "none" \/ crashed
               \/ \E w \in Workers : worker[w] = "exited" /\ call \in ToSet(queue[w])

(* README: "All child goroutines are ensured to terminate when scope ends".*)
ChildrenEndWithScope == scope = "closed" => \A ch \in Children : ~Live(ch)

(* README: "Cancellation from parent is propagated by supervisor". *)
CancellationPropagates ==
    \A ch \in Children : (Parent \in cancelled /\ Live(ch)) ~> (child[ch] = "ended" \/ crashed)

(* waitChildren "blocks until all child goroutines complete or the context *)
(* is cancelled": a teardown under a cancelled context returns.            *)
TeardownReturns ==
    (scope = "cancelled" /\ Parent \in cancelled) ~> (scope = "closed" \/ crashed)

(* doc.go: "a scoped, explicit, and panic-safe system".                    *)
PanicSafe == ~crashed
=============================================================================
