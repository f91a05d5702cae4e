---------------------------- MODULE EngineSurface ---------------------------
(***************************************************************************)
(* The public entry points over one run (engine/main.py): a caller         *)
(* iterates stream_engine_async itself, or the wrapper that passes on the  *)
(* durable items only (stream_engine_output_async), and either of them     *)
(* directly in its own event loop or through _drive_sync, which runs a     *)
(* private loop and closes it at the end.                                  *)
(*                                                                         *)
(* External: Python's asynchronous generators.  Closing a generator does   *)
(* not close the generator it iterates: that one is dropped, and the loop  *)
(* it belongs to schedules its closing for later.  A loop that is closed   *)
(* runs nothing more.                                                      *)
(***************************************************************************)
EXTENDS EngineRun

CONSTANT Surfaces   (* the entry points explored, of the four below *)

ASSUME SurfaceAssumption ==
  Surfaces \subseteq [filtered : BOOLEAN, private : BOOLEAN]

VARIABLES
  surface,  (* filtered: items only; private: through _drive_sync             *)
  caller,   (* iterating, or it has left early                                *)
  dropped,  (* the run's generator was dropped without being closed           *)
  loop      (* the event loop                                                 *)

surfaceVars == <<surface, caller, dropped, loop>>
allVars == <<vars, surfaceVars>>

SurfaceInit ==
  /\ Init
  /\ surface \in Surfaces
  /\ caller = "iterating"
  /\ dropped = FALSE
  /\ loop = "running"

Run ==
  /\ loop = "running"
  /\ Proceed
  /\ UNCHANGED surfaceVars

\* The caller's task is cancelled while it waits for the next event: the
\* cancellation is raised where the run's generator waits, however wrapped.
Cancelled ==
  /\ loop = "running" /\ caller = "iterating" /\ ~surface.private
  /\ Abandon
  /\ caller' = "left"
  /\ UNCHANGED <<surface, dropped, loop>>

\* The caller holds an event and closes what it iterates: the run's generator,
CloseRun ==
  /\ loop = "running" /\ caller = "iterating" /\ ~surface.filtered
  /\ received # <<>>
  /\ Abandon
  /\ caller' = "left"
  /\ UNCHANGED <<surface, dropped, loop>>

\* or, holding an item, the wrapper, which drops the run's generator.
CloseWrapper ==
  /\ loop = "running" /\ caller = "iterating" /\ surface.filtered
  /\ received # <<>> /\ received[Len(received)].kind = "item"
  /\ consumer = "streaming"
  /\ caller' = "left"
  /\ dropped' = TRUE
  /\ UNCHANGED <<vars, surface, loop>>

\* The loop closes a dropped generator in a task of its own.  A private loop
\* stops before that task takes its first step.
CloseDropped ==
  /\ loop = "running" /\ dropped /\ ~surface.private
  /\ Abandon
  /\ dropped' = FALSE
  /\ UNCHANGED <<surface, caller, loop>>

\* Mutation: the private loop is closed without closing the generator first.
CloseLoopAtOnce ==
  /\ loop = "running" /\ surface.private
  /\ caller = "left" \/ consumer = "finished"
  /\ loop' = "closed"
  /\ UNCHANGED <<vars, surface, caller, dropped>>

\* _drive_sync closes what it iterates, then its loop.
CloseLoop ==
  /\ loop = "running" /\ surface.private
  /\ consumer = "finished" \/ dropped
  /\ loop' = "closed"
  /\ UNCHANGED <<vars, surface, caller, dropped>>

SurfaceNext ==
  Run \/ Cancelled \/ CloseRun \/ CloseWrapper \/ CloseDropped \/ CloseLoop

\* The loop runs the tasks that can run: the generator's own steps, the driver
\* with its agents, and the caller, who keeps iterating or leaves.  Nobody is
\* obliged to leave, to cancel or to emit.
SurfaceFairness ==
  /\ WF_allVars(Run /\ Consume)
  /\ WF_allVars(Run /\ (BeginDrive \/ DriveNeverRan \/ DriveEnds \/ AgentStep))
  /\ WF_allVars(Run /\ (Construct \/ Prepare \/ Join \/ CloseClient \/ Shutdown))
  /\ WF_allVars(CloseDropped)
  /\ WF_allVars(CloseLoop)

SurfaceSpec == SurfaceInit /\ [][SurfaceNext]_allVars /\ SurfaceFairness

-----------------------------------------------------------------------------
\* _drive_sync: "Always calls agen.aclose() before closing the loop so that the
\* underlying async generator's finally blocks run", or "background tasks and
\* telemetry handles ... would leak".
ClosedLoopLeaksNothing ==
  loop = "closed" =>
    /\ consumer = "finished" /\ drive \in {"none", "done"}
    /\ client # "open" /\ telemetry # "open"

\* Every run comes to its end, whoever fails, cancels or leaves: the driver is
\* cancelled or finished, and joined.
RunFinishes == <>[](consumer = "finished" /\ drive \in {"none", "done"})

\* No agent is left behind, waiting for a permit or at work, by a run that is
\* over.  (A private loop that is closed abandons agents that are unwinding.)
LeavesNobody ==
  (consumer = "finished" /\ drive = "done")
    ~> (loop = "closed" \/ \A c \in Invocations : stage[c] \notin Live)
=============================================================================
