---------------------------- MODULE RuleDispatch ----------------------------
(***************************************************************************)
(* What rule matching promises, whatever order it looks at the rules in: a *)
(* request is granted at most one rule, one that is not exhausted at that  *)
(* moment, and a granted request is served by it and counted exactly once. *)
(***************************************************************************)
EXTENDS Integers

CONSTANTS Request, Rule, NoRule, Kind, Times

VARIABLES
    count,  \* requests served by each rule
    busy,   \* is the request in progress?
    grant   \* the rule the request was granted

vars == <<count, busy, grant>>

Exhausted(r) == Kind[r] = "times" /\ count[r] >= Times[r]

Init ==
    /\ count = [r \in Rule |-> 0]
    /\ busy = [q \in Request |-> FALSE]
    /\ grant = [q \in Request |-> NoRule]

Begin(q) ==
    /\ ~busy[q]
    /\ busy' = [busy EXCEPT ![q] = TRUE]
    /\ UNCHANGED <<count, grant>>

Grant(q) ==
    /\ busy[q]
    /\ grant[q] = NoRule
    /\ \E r \in Rule : ~Exhausted(r) /\ grant' = [grant EXCEPT ![q] = r]
    /\ UNCHANGED <<count, busy>>

Serve(q) ==
    /\ busy[q]
    /\ grant[q] # NoRule
    /\ count' = [count EXCEPT ![grant[q]] = @ + 1]
    /\ busy' = [busy EXCEPT ![q] = FALSE]
    /\ grant' = [grant EXCEPT ![q] = NoRule]

\* Unmatched, or a matcher failed.
GiveUp(q) ==
    /\ busy[q]
    /\ grant[q] = NoRule
    /\ busy' = [busy EXCEPT ![q] = FALSE]
    /\ UNCHANGED <<count, grant>>

Next == \E q \in Request : Begin(q) \/ Grant(q) \/ Serve(q) \/ GiveUp(q)

Spec == Init /\ [][Next]_vars

=============================================================================
