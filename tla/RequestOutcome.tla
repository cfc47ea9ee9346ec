--------------------------- MODULE RequestOutcome ---------------------------
(***************************************************************************)
(* What a server promises to those who follow its requests, whatever races *)
(* behind it: the outcome of a request is decided once and never changed,  *)
(* each of its events is told once at most, in order, and that it was      *)
(* answered or aborted only after that is its outcome.                     *)
(***************************************************************************)
EXTENDS Sequences

CONSTANT Request

VARIABLES
    outcome,  \* what became of each request
    told      \* the events told of it, in order

vars == <<outcome, told>>

Event == {"request-initiated", "request", "response-initiated", "response", "abort"}

\* If both are told, e is told before f.
Precedes(e, f) ==
    \/ e = "request-initiated" /\ f \in Event \ {e}
    \/ e = "response-initiated" /\ f = "response"

OutcomeOf == [response |-> "responded", abort |-> "aborted"]

Init ==
    /\ outcome = [q \in Request |-> "none"]
    /\ told = [q \in Request |-> <<>>]

Decide(q) ==
    /\ outcome[q] = "none"
    /\ \E o \in {"responded", "aborted"} : outcome' = [outcome EXCEPT ![q] = o]
    /\ UNCHANGED told

Tell(q, e) ==
    /\ \A i \in DOMAIN told[q] : told[q][i] # e /\ ~Precedes(e, told[q][i])
    /\ e \in DOMAIN OutcomeOf => outcome[q] = OutcomeOf[e]
    /\ told' = [told EXCEPT ![q] = Append(@, e)]
    /\ UNCHANGED outcome

Next == \E q \in Request : Decide(q) \/ \E e \in Event : Tell(q, e)

Spec == Init /\ [][Next]_vars

=============================================================================
