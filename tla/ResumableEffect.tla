-------------------------- MODULE ResumableEffect --------------------------
(***************************************************************************)
(* Resumable effects (effects/internal/handlers/resumable.go and           *)
(* effects/resumable_effect.go): the dispatcher of WorkerDispatcher, plus  *)
(* the reply channel that travels with each message.  PerformEffect makes  *)
(* a channel of capacity 1, the worker that handled the message puts the   *)
(* result in it, or not, and closes it, and the effect packages wait on it *)
(* in one of two ways:                                                     *)
(*   "select"  state.effect and binding.Effect also watch the context;     *)
(*   "bare"    concurrency.Effect, dependency's delegation and users of    *)
(*             task.Effect receive from it and from nothing else.          *)
(***************************************************************************)
EXTENDS WorkerDispatcher

CONSTANT AwaitMode

ASSUME AwaitAssumption == AwaitMode \in {"select", "bare"}

VARIABLES
    resume,     \* the reply channel of each call
    outcome     \* what the caller got out of each call

replyVars == <<resume, outcome>>
resumableVars == <<vars, replyVars>>

ResumeStates == {"none", "open", "answered", "empty"}  \* the last two: closed
Outcomes == {"none", "value", "nothing", "error"}

ResumableInit ==
    /\ Init
    /\ resume = [call \in Calls |-> "none"]
    /\ outcome = [call \in Calls |-> "none"]

-----------------------------------------------------------------------------
(* PerformEffect: the reply channel is made before the message is sent. *)
Perform(c) ==
    /\ Issue(c)
    /\ resume' = [resume EXCEPT ![<<c, issued[c] + 1>>] = "open"]
    /\ UNCHANGED outcome

(* PerformEffect returns the reply channel when the message was sent and   *)
(* when the context won; after the recovered panic it returns nil.         *)
HasChannel(call) == perform[call] \in {"sent", "aborted"}
Returned(call) == perform[call] \in {"sent", "aborted", "recovered"}

(* The result is put in the reply channel (its buffer is free: this is the *)
(* only send), which is then closed.                                       *)
Answer(w) ==
    /\ Finish(w)
    /\ resume' = [resume EXCEPT ![current[w]] = "answered"]
    /\ UNCHANGED outcome

(* Mutants: the worker watches the caller's context; the reply channel of  *)
(* a dropped answer is not closed.                                         *)
Bug_DropForCaller(w) ==
    /\ Finish(w)
    /\ current[w][1] \in cancelled
    /\ resume' = [resume EXCEPT ![current[w]] = "empty"]
    /\ UNCHANGED outcome

Bug_DropUnclosed(w) == Handler \in cancelled /\ Finish(w) /\ UNCHANGED replyVars

(* handleFn has run, but the select of the worker takes ctx.Done(): the    *)
(* reply channel is closed without the result.                             *)
DropAnswer(w) ==
    /\ Handler \in cancelled
    /\ Finish(w)
    /\ resume' = [resume EXCEPT ![current[w]] = "empty"]
    /\ UNCHANGED outcome

-----------------------------------------------------------------------------
(* The caller waits for the reply. *)
TakeResult(call) ==
    /\ HasChannel(call) /\ outcome[call] = "none"
    /\ resume[call] = "answered"
    /\ outcome' = [outcome EXCEPT ![call] = "value"]
    /\ UNCHANGED <<vars, resume>>

(* The channel is closed without a result.  A bare receive yields the zero *)
(* ResumableResult; effect() returns (nil, ctx.Err()), whose error is nil  *)
(* unless the caller's own context has ended.                              *)
TakeClosed(call) ==
    /\ HasChannel(call) /\ outcome[call] = "none"
    /\ resume[call] = "empty"
    /\ outcome' = [outcome EXCEPT ![call] =
            IF AwaitMode = "select" /\ call[1] \in cancelled
            THEN "error" ELSE "nothing"]
    /\ UNCHANGED <<vars, resume>>

(* The ctx.Done() case of effect(). *)
GiveUp(call) ==
    /\ AwaitMode = "select"
    /\ Returned(call) /\ outcome[call] = "none"
    /\ call[1] \in cancelled
    /\ outcome' = [outcome EXCEPT ![call] = "error"]
    /\ UNCHANGED <<vars, resume>>

-----------------------------------------------------------------------------
AwaitStep(call) == TakeResult(call) \/ TakeClosed(call) \/ GiveUp(call)

ResumableNext ==
    \/ \E c \in Callers : Perform(c)
    \/ \E call \in Calls : CallStep(call) /\ UNCHANGED replyVars
    \/ \E w \in Workers : (Receive(w) \/ Exit(w)) /\ UNCHANGED replyVars
    \/ \E w \in Workers : Answer(w) \/ DropAnswer(w)
    \/ ScopeStep /\ UNCHANGED replyVars
    \/ \E call \in Calls : AwaitStep(call)

ResumableSpec == ResumableInit /\ [][ResumableNext]_resumableVars

(* As for the dispatcher; besides, a caller that can take a reply does. *)
ResumableFairness ==
    /\ \A call \in Calls :
        /\ WF_resumableVars(CallStep(call) /\ UNCHANGED replyVars)
        /\ WF_resumableVars(AwaitStep(call))
    /\ \A w \in Workers :
        /\ WF_resumableVars((Receive(w) \/ Exit(w)) /\ UNCHANGED replyVars)
        /\ WF_resumableVars(Answer(w) \/ DropAnswer(w))
        /\ SF_resumableVars(Exit(w) /\ UNCHANGED replyVars)
    /\ \A x \in Contexts : WF_resumableVars(Propagate(x) /\ UNCHANGED replyVars)
    /\ WF_resumableVars(Teardown /\ UNCHANGED replyVars)

ResumableFairSpec == ResumableSpec /\ ResumableFairness

-----------------------------------------------------------------------------
(* Values of the reply state. *)
ResumableTypeOK ==
    /\ resume \in [Calls -> ResumeStates]
    /\ outcome \in [Calls -> Outcomes]

(* A worker never sends on, nor closes, a reply channel that is closed     *)
(* already: that panic has no recover and would end the process.           *)
WorkerNeverPanics ==
    \A w \in Workers : worker[w] = "handling" => resume[current[w]] = "open"

(* A caller that gets a value gets it after its own call was handled; one  *)
(* whose message was never handed over is never given anything but an      *)
(* error, although its reply channel exists.                               *)
ResultIsEarned ==
    \A call \in Calls :
        /\ outcome[call] = "value" => started[call] = 1 /\ perform[call] = "sent"
        /\ perform[call] \in {"aborted", "recovered"} =>
                outcome[call] \in {"none", "error"}

(* A handled effect loses its result only when the scope's context ended:  *)
(* in a live scope a caller is never resumed empty-handed.                 *)
ResultLostOnlyWhenDone ==
    (\E call \in Calls : resume[call] = "empty" \/ outcome[call] = "nothing")
        => Handler \in cancelled

(* While the scope lives an accepted call is eventually resumed.           *)
AcceptedIsResumed ==
    \A call \in Calls :
        perform[call] = "sent" ~> (outcome[call] # "none" \/ Handler \in cancelled)

(* binding.Effect "returns either the value found or an error": never      *)
(* neither.                                                                *)
ValueOrError == \A call \in Calls : outcome[call] # "nothing"

(* PerformResumableEffect "sends a payload to the resumable effect handler *)
(* and waits for the result": a performed effect is eventually resumed.    *)
PerformedIsResumed ==
    \A call \in Calls : Returned(call) ~> outcome[call] # "none"
=============================================================================
