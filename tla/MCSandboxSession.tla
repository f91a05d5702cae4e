-------------------------- MODULE MCSandboxSession --------------------------
(* Few lines are enough to pass the cap; two cancellations hit two stops.  *)
EXTENDS SandboxSession, TLC
=============================================================================
