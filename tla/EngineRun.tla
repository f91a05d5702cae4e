------------------------------ MODULE EngineRun -----------------------------
(***************************************************************************)
(* One run of the engine (stream_engine_async in engine/main.py): the      *)
(* caller's generator sets up telemetry, the API client and the inputs,    *)
(* starts the driver task, and yields what arrives on the output bus until *)
(* a signal ends it, the caller leaves, or the task is cancelled; then it  *)
(* waits for the driver, closes the client and shuts telemetry down.       *)
(*                                                                         *)
(* It composes the tree of agents (Subagents) with the output bus          *)
(* (EngineOutputBus): every running agent emits to the one bus.            *)
(***************************************************************************)
EXTENDS Subagents, EngineOutputBus

\* Every agent of the tree emits to the bus, and nobody else does.
ASSUME RunAssumption == Emitters = Agents

VARIABLES
  drive,      (* the _drive task                                              *)
  consumer,   (* where the generator is                                       *)
  verdict,    (* how the caller's iteration ends                              *)
  client,     (* the AsyncOpenAI client                                       *)
  telemetry   (* the telemetry handle: off when it is None                    *)

runVars == <<drive, consumer, verdict, client, telemetry>>
vars == <<treeVars, busVars, runVars>>

-----------------------------------------------------------------------------
Init ==
  /\ TreeInit
  /\ BusInit
  /\ drive = "none"
  /\ consumer = "starting"
  /\ verdict = "none"
  /\ client = "none"
  /\ telemetry \in {"off", "open"}

\* The client is constructed, or its constructor raises.
Construct ==
  /\ consumer = "starting"
  /\ \/ /\ client' = "open" /\ consumer' = "preparing" /\ verdict' = verdict
     \/ /\ client' = client /\ consumer' = "shutting" /\ verdict' = "error"
  /\ UNCHANGED <<treeVars, busVars, drive, telemetry>>

\* Index, store and repositories are opened and the driver task is created, or
\* one of them raises (or the caller cancels while the index is built).
Prepare ==
  /\ consumer = "preparing"
  /\ \/ /\ drive' = "created" /\ consumer' = "streaming" /\ verdict' = verdict
     \/ /\ drive' = drive /\ consumer' = "closing" /\ verdict' = "error"
  /\ UNCHANGED <<treeVars, busVars, client, telemetry>>

-----------------------------------------------------------------------------
(* The driver task.                                                        *)

BeginDrive ==
  /\ drive = "created" /\ Root \notin doomed
  /\ drive' = "running"
  /\ UNCHANGED <<treeVars, busVars, consumer, verdict, client, telemetry>>

\* A task cancelled before its first step never enters its try block.
DriveNeverRan ==
  /\ drive = "created" /\ Root \in doomed
  /\ drive' = "done"
  /\ stage' = [stage EXCEPT ![Root] = "cancelled"]
  /\ doomed' = doomed \ {Root}
  /\ UNCHANGED <<parent, depth, value, waiters, busVars, consumer, verdict, client, telemetry>>

\* Mutation: the queue has a maximum size, and pushing the signal waits for room.
DriveEndsIfRoom ==
  /\ drive = "running" /\ queue = <<>>
  /\ \/ Return(Root) /\ Push("close")
     \/ Fail(Root) /\ Push("fail")
     \/ Unwind(Root) /\ Push("fail")
  /\ drive' = "done"
  /\ UNCHANGED <<consumer, verdict, client, telemetry>>

\* However runner.run ends, the driver signals the bus before it finishes.
DriveEnds ==
  /\ drive = "running"
  /\ \/ Return(Root) /\ Push("close")
     \/ Fail(Root) /\ Push("fail")
     \/ Unwind(Root) /\ Push("fail")
  /\ drive' = "done"
  /\ UNCHANGED <<consumer, verdict, client, telemetry>>

\* The running driver is cancelled by somebody else, say the loop shutting
\* down, while the caller still listens.
CancelDrive ==
  /\ drive = "running"
  /\ CancelRoot
  /\ UNCHANGED <<busVars, runVars>>

\* Mutation: the loop stops with the driver, whoever is still unwinding.
AgentStepWhileDriven ==
  /\ drive = "running"
  /\ \/ \E a \in Agents, calls \in SUBSET Invocations : Delegate(a, calls)
     \/ \E c \in Invocations : \/ Enter(c) \/ BadArguments(c) \/ Start(c)
                               \/ Return(c) \/ Fail(c) \/ Unwind(c)
     \/ \E a \in Agents : Resume(a)
  /\ UNCHANGED <<busVars, runVars>>

\* The agents of the tree at work.
AgentStep ==
  /\ drive \in {"running", "done"}
  /\ \/ \E a \in Agents, calls \in SUBSET Invocations : Delegate(a, calls)
     \/ \E c \in Invocations : \/ Enter(c) \/ BadArguments(c) \/ Start(c)
                               \/ Return(c) \/ Fail(c) \/ Unwind(c)
     \/ \E a \in Agents : Resume(a)
  /\ UNCHANGED <<busVars, runVars>>

AgentEmits(a, kind) ==
  /\ drive \in {"running", "done"}
  /\ stage[a] \in Running /\ a \notin doomed
  /\ Emit(a, kind)
  /\ UNCHANGED <<treeVars, runVars>>

-----------------------------------------------------------------------------
(* The caller's generator.                                                 *)

\* Mutation: a failure signal ends the iteration like a close.
ConsumeSwallowing ==
  /\ consumer = "streaming"
  /\ Get
  /\ consumer' = IF stream' = "open" THEN consumer ELSE "joining"
  /\ verdict' = IF stream' = "open" THEN verdict ELSE "clean"
  /\ UNCHANGED <<treeVars, drive, client, telemetry>>

\* Take the next entry.  After a close the driver has finished, so joining it
\* returns at once; a fail is raised, and the handler cancels and joins the
\* driver, which has finished as well.
Consume ==
  /\ consumer = "streaming"
  /\ Get
  /\ consumer' = IF stream' = "open" THEN consumer ELSE "joining"
  /\ verdict' = IF stream' = "ended" THEN "clean"
                ELSE IF stream' = "raised" THEN "error" ELSE verdict
  /\ UNCHANGED <<treeVars, drive, client, telemetry>>

\* The caller closes the generator, or is cancelled, while it waits for an
\* event or holds one: the handler cancels the driver.
Abandon ==
  /\ consumer = "streaming"
  /\ Leave
  /\ consumer' = "joining"
  /\ verdict' = "error"
  /\ doomed' = IF drive = "done" THEN doomed ELSE doomed \cup {Root}
  /\ UNCHANGED <<stage, parent, depth, value, waiters, drive, client, telemetry>>

\* Mutation: the driver is not waited for.
JoinAtOnce ==
  /\ consumer = "joining"
  /\ consumer' = "closing"
  /\ UNCHANGED <<treeVars, busVars, drive, verdict, client, telemetry>>

\* await task.
Join ==
  /\ consumer = "joining"
  /\ drive = "done"
  /\ consumer' = "closing"
  /\ UNCHANGED <<treeVars, busVars, drive, verdict, client, telemetry>>

\* client.close() succeeds, fails and is logged, or is itself cancelled.
CloseClient ==
  /\ consumer = "closing"
  /\ consumer' = "shutting"
  /\ \/ client' \in {"closed", "broken"} /\ verdict' = verdict
     \/ client' = "broken" /\ verdict' = "error"
  /\ UNCHANGED <<treeVars, busVars, drive, telemetry>>

Shutdown ==
  /\ consumer = "shutting"
  /\ consumer' = "finished"
  /\ telemetry' = IF telemetry = "open" THEN "shut" ELSE telemetry
  /\ UNCHANGED <<treeVars, busVars, drive, verdict, client>>

-----------------------------------------------------------------------------
\* What happens while the caller keeps listening; EngineSurface adds the ways in
\* which it leaves.
Proceed ==
  \/ Construct \/ Prepare
  \/ BeginDrive \/ DriveNeverRan \/ DriveEnds \/ CancelDrive
  \/ AgentStep \/ \E a \in Agents, kind \in {"item", "delta"} : AgentEmits(a, kind)
  \/ Consume \/ Join \/ CloseClient \/ Shutdown

-----------------------------------------------------------------------------
\* A run that ends cleanly was answered by the root, delivered every event
\* emitted up to then, and left no agent at work except under a cancelled one.
CleanRunIsComplete ==
  verdict = "clean" =>
    /\ stage[Root] = "returned"
    /\ Len(received) = sealedAt
    /\ \A c \in Invocations :
         (stage[c] \in Live /\ c \notin doomed) => stage[parent[c]] \in Live

\* Resources outlive their users: the client is closed only when the driver is
\* gone, and telemetry is shut down only after the client.
TeardownOrder ==
  /\ client \in {"closed", "broken"} => drive \in {"none", "done"}
  /\ telemetry = "shut" => client # "open" /\ drive \in {"none", "done"}
  /\ consumer = "finished" => telemetry # "open" /\ client # "open"
=============================================================================
