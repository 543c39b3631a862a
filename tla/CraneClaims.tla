----------------------------- MODULE CraneClaims ----------------------------
(***************************************************************************)
(* What the comments of crane.c say of the client, stated over             *)
(* CraneSystem.  Each one is refuted by a run: the counterexample is an    *)
(* interleaving or a delay that the code does not handle.                  *)
(***************************************************************************)
EXTENDS CraneSystem

\* "Returns zero if ACK is received" (crane.c, line 20): crane_action returns
\* 0 only when the crane accepted the very packet this call sent.
AckMeansAccepted == pc = "bump" => accepted

\* "Pause until all commands have executed" (crane.c, line 452): inside a
\* session, a pause that ends on backlog 0 finds the crane's queue empty.
PauseWaitsForExecution ==
    [][pc = "idle" /\ pc' = "test" /\ backlog = 0 /\ st = "connected"
         /\ mode = "controlled" => queue = 0]_vars
=============================================================================
