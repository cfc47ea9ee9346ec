-------------------------- MODULE MCAdminClient --------------------------
(* Instances of AdminClient, RemoteRules and RemoteBodies for TLC. *)
EXTENDS AdminClient, RemoteBodies

CONSTANTS c1, c2, c3, c4, s1, s2

FourCalls == <<c1, c2, c3, c4>>
TwoCalls == <<c1, c2>>
TwoSessions == <<s1, s2>>
OneSession == <<s1>>

\* A rule, its steps and the bodies and results of its callbacks mean the same on the server of a
\* remote client as where they were made, and no change that a passthrough accepts is passed over;
\* the exceptions, which the code has, are those that Portable and the laws name.
RemoteMeansSame == Init => RemoteLaws /\ ChangesApply /\ BodyLaws

=============================================================================
