--------------------------------- MODULE Rules ---------------------------------
(***************************************************************************)
(* The rules of a server: how they are written (RuleBuilders), what their  *)
(* matchers say of a request (Matchers), and how the one that handles a    *)
(* request is found among them (RuleMatching).                             *)
(*                                                                         *)
(* Matchers and builders depend on no variable, so it is enough to look at *)
(* their samples in the initial states.                                    *)
(***************************************************************************)
EXTENDS RuleMatching, Matchers, RuleBuilders

(***************************************************************************)
(* Matchers that say the same of a request in different ways agree, and    *)
(* exact ones are stricter than flexible ones (src/rules/matchers.ts).     *)
(***************************************************************************)
MatchersAgree == Init => MatcherLaws

(***************************************************************************)
(* A builder makes at most one rule, from exactly what it was told, and    *)
(* what it passes through goes to the target (the rule builders).          *)
(***************************************************************************)
RulesAreAsSaid == Init => BuilderLaws

================================================================================
