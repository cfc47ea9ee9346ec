-------------------------- MODULE MCRuleMatching --------------------------
(* Instances of RuleMatching and RuleDispatch for TLC. *)
EXTENDS Rules

CONSTANTS q1, q2, usual, once, fallback

\* A default rule and a once() rule of the default priority 1, and a once()
\* fallback of priority 0.
ThreeRules == {usual, once, fallback}

MCPriority == [r \in Rule |-> IF r = fallback THEN 0 ELSE 2]

\* Priorities 2, 1.5 and 0, as any positive number may be one.
MCFractional == [r \in Rule |-> IF r = fallback THEN 0 ELSE IF r = once THEN 3 ELSE 4]

MCKind == [r \in Rule |-> IF r = usual THEN "default" ELSE "times"]

MCTimes == [r \in Rule |-> IF r \in {once, fallback} THEN 1 ELSE 0]

=============================================================================
