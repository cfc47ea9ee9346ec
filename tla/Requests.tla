------------------------------ MODULE Requests ------------------------------
(***************************************************************************)
(* Requests together with the steps of the rules that handle them.         *)
(***************************************************************************)
EXTENDS RequestLifecycle, RequestSteps

(***************************************************************************)
(* Whatever the steps of a rule do, and whatever becomes of the body of    *)
(* the request, it gets one status at most, answers that are truncated or  *)
(* unchecked never look complete, failures are told, no step is silently   *)
(* skipped, and only a timeout, an open body or a destroyed stream keeps a *)
(* request waiting.                                                        *)
(***************************************************************************)
StepsAnswerOnce == Init => StepLaws

=============================================================================
