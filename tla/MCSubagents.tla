----------------------------- MODULE MCSubagents ----------------------------
(* Four invocations over two depths with two permits each: enough for both *)
(* permits of a depth to be held by parents while children want one, and   *)
(* for two waiters behind two holders.                                     *)
EXTENDS Subagents, TLC

CONSTANTS s1, s2, s3, s4
MCInvocations == {s1, s2, s3, s4}
=============================================================================
