----------------------------- MODULE AtomicCell -----------------------------
(***************************************************************************)
(* What the state effect promises of one key in one tier: a cell whose     *)
(* operations take effect at one moment, at most once, and that loses its  *)
(* value when a time to live ends.  The moment lies between call and       *)
(* return, unless the caller's own context ends: then the caller may come  *)
(* back with an error, and its request takes effect later or never.        *)
(***************************************************************************)
CONSTANTS Clients,
          Requests,           \* what a client may ask for
          NoRequest,
          Absent,             \* the cell has no value
          Pending,            \* the result of a call that has not taken effect
          Outcome(_, _),      \* request, value |-> result
          Effect(_, _)        \* request, value |-> new value

VARIABLES value, call,        \* call[c]: the request (if any) and its result
          ended,              \* clients whose context has ended
          away                \* clients that came back before their request was done

vars == <<value, call, ended, away>>

NoCall == [request |-> NoRequest, result |-> Pending]

Init ==
    /\ value = Absent /\ call = [c \in Clients |-> NoCall]
    /\ ended = {} /\ away = {}

Invoke(c) ==
    /\ call[c] = NoCall
    /\ \E r \in Requests :
         call' = [call EXCEPT ![c] = [request |-> r, result |-> Pending]]
    /\ UNCHANGED <<value, ended, away>>

TakeEffect(c) ==
    /\ call[c] # NoCall /\ call[c].result = Pending
    /\ value' = Effect(call[c].request, value)
    /\ call' = [call EXCEPT ![c].result = Outcome(call[c].request, value)]
    /\ UNCHANGED <<ended, away>>

Return(c) ==
    /\ call[c].result # Pending
    /\ call' = [call EXCEPT ![c] = NoCall]
    /\ away' = away \ {c}
    /\ UNCHANGED <<value, ended>>

End(c) == ended' = ended \cup {c} /\ UNCHANGED <<value, call, away>>

(* The request stays behind, or is withdrawn while nothing has come of it.  *)
GiveUp(c) ==
    /\ c \in ended \ away /\ call[c] # NoCall
    /\ \/ away' = away \cup {c} /\ UNCHANGED call
       \/ /\ call[c].result = Pending
          /\ call' = [call EXCEPT ![c] = NoCall] /\ UNCHANGED away
    /\ UNCHANGED <<value, ended>>

Expire == value' = Absent /\ UNCHANGED <<call, ended, away>>

Next ==
    \/ Expire
    \/ \E c \in Clients :
         Invoke(c) \/ TakeEffect(c) \/ Return(c) \/ End(c) \/ GiveUp(c)

Spec == Init /\ [][Next]_vars
=============================================================================
