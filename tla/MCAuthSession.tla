---- MODULE MCAuthSession ----
(* The bounds of the runs that start from either platform's sign-in flow.   *)
EXTENDS AuthSession

\* The sign-in form retries for ever and needs fewer generations to meet
\* every case than the native screens, whose two sessions are both refreshed.
TokensOfRun == [p \in Platforms |-> IF p = "mobile" THEN 5 ELSE 2]
====
