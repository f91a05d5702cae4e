---------------------------- MODULE MCAgentRunner ---------------------------
(* Small instances of AgentRunner.                                         *)
EXTENDS AgentRunner, TLC

\* A fresh question, and the continuation of an earlier conversation.
FreshInput == <<TextRow("system"), TextRow("user")>>
Continuations ==
  {<<TextRow("system"), TextRow("user"), CallRow({c}), ResultRow(c), TextRow("user")>> : c \in CallIds}

FreshInputs == {FreshInput}
AllInputs == {FreshInput} \cup Continuations

CallSymmetry == Permutations(CallIds)
=============================================================================
