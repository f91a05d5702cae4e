--------------------------- MODULE SandboxSession ---------------------------
(***************************************************************************)
(* One run_python call (src/engine/sandbox/sandbox.py): the host spawns a  *)
(* runner process, waits until it is ready, makes four requests over its   *)
(* pipes (mount the trace, mount the index, bootstrap, execute), and stops *)
(* it, gracefully or with SIGKILL.  The runner is runner.js.               *)
(*                                                                         *)
(* The host runs between two awaits without interruption.  At each of them *)
(* a deadline can pass or the task be cancelled.  The runner can print     *)
(* other lines at any time, exit, or do nothing any more: user code may    *)
(* loop for ever, and a boot may hang.                                     *)
(*                                                                         *)
(* External: asyncio reaps the process of a spawn that is cancelled, and   *)
(* cancelling a task that awaits another cancels that one too.             *)
(***************************************************************************)
EXTENDS Naturals, Sequences

CONSTANTS
  MaxSkip,      (* max_skip, max_lines: lines read for one answer *)
  MaxNoise,     (* bound: other lines the runner prints *)
  MaxCancels    (* bound: cancellations of the call *)

ASSUME SessionAssumption ==
  MaxSkip \in Nat \ {0} /\ MaxNoise \in Nat /\ MaxCancels \in Nat

VARIABLES
  host,         (* the await run_python is at *)
  why,          (* what made it stop the session *)
  stopped,      (* _stopped *)
  request,      (* _next_id *)
  skipped,      (* lines read for the current answer *)
  answer,       (* the outcome of the code, once the host has read it *)
  stdin,        (* requests on their way *)
  stdout,       (* lines on their way *)
  runner,       (* the process *)
  killed,       (* it was sent SIGKILL *)
  noise,        (* history: lines other than answers *)
  cancels,      (* history: cancellations *)
  interrupted   (* history: one of them hit a graceful stop *)

hostVars == <<host, why, stopped, request, skipped, answer>>
pipes == <<stdin, stdout>>
history == <<noise, cancels, interrupted>>
vars == <<hostVars, pipes, runner, killed, history>>

Bootstrap == 3
Execute == 4
Requests == 1..Execute

\* What stands in stdin for the message that has no id.
Shutdown == 0

Outcomes == {"good", "bad", "error"}
Lines == [id : {0}, kind : {"ready", "noise", "stray"}] \cup [id : Requests, kind : Outcomes]

Finished == {"returned", "raised"}

Init ==
  /\ host = "spawn" /\ why = "none" /\ stopped = FALSE
  /\ request = 1 /\ skipped = 0 /\ answer = "none"
  /\ stdin = <<>> /\ stdout = <<>>
  /\ runner = "none" /\ killed = FALSE
  /\ noise = 0 /\ cancels = 0 /\ interrupted = FALSE

-----------------------------------------------------------------------------
(* stop().                                                                 *)

\* Mutation: a runner that has left makes the stop fail.
SoftStopRaising(reason) ==
  /\ stopped' = TRUE
  /\ stdin' = Append(stdin, Shutdown)
  /\ host' = (IF runner = "exited" THEN "drain" ELSE "grace")
  /\ why' = (IF runner = "exited" THEN "error" ELSE reason)
  /\ UNCHANGED killed

\* hard=False: ask the runner to leave.  If it has left, the frame is lost.
SoftStop(reason) ==
  /\ stopped' = TRUE
  /\ stdin' = Append(stdin, Shutdown)
  /\ host' = "grace"
  /\ why' = reason
  /\ UNCHANGED killed

\* hard=True: kill it, unless the session counts as stopped already.
HardStop(reason) ==
  /\ stopped' = TRUE
  /\ killed' = (killed \/ ~stopped)
  /\ host' = (IF stopped THEN "drain" ELSE "reap")
  /\ why' = reason
  /\ UNCHANGED stdin

\* Mutation: nobody escalates.
EscalateNever == FALSE

Escalate ==
  /\ host = "grace"
  /\ killed' = TRUE
  /\ host' = "reap"
  /\ UNCHANGED <<why, stopped, request, skipped, answer, pipes, runner, history>>

ProcessEnded ==
  /\ host \in {"grace", "reap"} /\ runner = "exited"
  /\ host' = "drain"
  /\ UNCHANGED <<why, stopped, request, skipped, answer, pipes, runner, killed, history>>

\* The end of stderr is the end of the process.
StderrEnded ==
  /\ host = "drain" /\ runner = "exited"
  /\ host' = (IF why = "cancel" THEN "raised" ELSE "returned")
  /\ UNCHANGED <<why, stopped, request, skipped, answer, pipes, runner, killed, history>>

-----------------------------------------------------------------------------
(* start() and the four requests.                                          *)

Spawn ==
  /\ host = "spawn"
  /\ \/ host' = "ready" /\ runner' = "booting" /\ UNCHANGED <<why, stopped>>
     \/ host' = "returned" /\ why' = "error" /\ stopped' = TRUE /\ UNCHANGED runner
  /\ UNCHANGED <<request, skipped, answer, pipes, killed, history>>

\* Mutation: the cap is tested before the line is counted.
SkipPastCap ==
  /\ skipped' = skipped + 1
  /\ IF skipped = MaxSkip THEN SoftStop("failed")
     ELSE UNCHANGED <<host, why, stopped, stdin, killed>>

Skip ==
  /\ skipped' = skipped + 1
  /\ IF skipped + 1 = MaxSkip THEN SoftStop("failed")
     ELSE UNCHANGED <<host, why, stopped, stdin, killed>>

AwaitReady ==
  /\ host = "ready"
  /\ \/ /\ stdout # <<>>
        /\ stdout' = Tail(stdout)
        /\ \/ /\ Head(stdout).kind = "ready"
              /\ host' = "ask" /\ skipped' = 0
              /\ UNCHANGED <<why, stopped, stdin, killed>>
           \/ Head(stdout).kind = "stray" /\ SoftStop("failed") /\ UNCHANGED skipped
           \/ Head(stdout).kind = "noise" /\ Skip
     \/ /\ stdout = <<>> /\ runner = "exited"
        /\ SoftStop("failed")
        /\ UNCHANGED <<stdout, skipped>>
  /\ UNCHANGED <<request, answer, runner, history>>

NotReadyInTime ==
  /\ host = "ready"
  /\ SoftStop("failed")
  /\ UNCHANGED <<request, skipped, answer, stdout, runner, history>>

\* Writing to a runner that has left may fail.
Ask ==
  /\ host = "ask"
  /\ \/ /\ stdin' = Append(stdin, request)
        /\ host' = "read" /\ skipped' = 0
        /\ UNCHANGED <<why, stopped, killed>>
     \/ runner = "exited" /\ HardStop("error") /\ UNCHANGED skipped
  /\ UNCHANGED <<request, answer, stdout, runner, history>>

Accept(kind) ==
  \/ /\ kind = "error"
     /\ SoftStop("failed")
     /\ UNCHANGED <<request, answer>>
  \/ /\ kind # "error" /\ (request = Execute \/ (request = Bootstrap /\ kind = "bad"))
     /\ answer' = kind
     /\ SoftStop("done")
     /\ UNCHANGED request
  \/ /\ kind # "error" /\ request # Execute /\ ~(request = Bootstrap /\ kind = "bad")
     /\ request' = request + 1
     /\ host' = "ask"
     /\ UNCHANGED <<why, stopped, stdin, killed, answer>>

IsAnswer(line) == line.id = request

Read ==
  /\ host = "read"
  /\ \/ /\ stdout # <<>>
        /\ stdout' = Tail(stdout)
        /\ \/ IsAnswer(Head(stdout)) /\ Accept(Head(stdout).kind) /\ UNCHANGED skipped
           \/ ~IsAnswer(Head(stdout)) /\ Skip /\ UNCHANGED <<request, answer>>
     \/ /\ stdout = <<>> /\ runner = "exited"
        /\ SoftStop("failed")
        /\ UNCHANGED <<stdout, request, skipped, answer>>
  /\ UNCHANGED <<runner, history>>

NotDoneInTime ==
  /\ host \in {"ask", "read"}
  /\ HardStop("timeout")
  /\ UNCHANGED <<request, skipped, answer, stdout, runner, history>>

-----------------------------------------------------------------------------
(* The task is cancelled.                                                  *)

\* Mutation: a cancelled call leaves at once.
CancelAbandoning ==
  /\ host \notin Finished /\ cancels < MaxCancels
  /\ cancels' = cancels + 1
  /\ host' = "raised"
  /\ why' = "cancel"
  /\ interrupted' = (interrupted \/ host = "grace")
  /\ UNCHANGED <<stopped, request, skipped, answer, pipes, killed, runner, noise>>

\* Cancelled while it awaits the end of the process or of stderr, stop()
\* raises.  Within the try block that leads to another stop(hard=True); within
\* an except block it ends the call.
Cancel ==
  /\ host \notin Finished /\ cancels < MaxCancels
  /\ cancels' = cancels + 1
  /\ interrupted' = (interrupted \/ host = "grace")
  /\ \/ host \in {"ready", "ask", "read"} /\ HardStop("cancel")
     \/ host \in {"grace", "reap"} /\ why \in {"done", "timeout"} /\ HardStop("cancel")
     \/ /\ \/ host \in {"spawn", "drain"}
           \/ host \in {"grace", "reap"} /\ why \notin {"done", "timeout"}
        /\ host' = "raised" /\ why' = "cancel"
        /\ UNCHANGED <<stopped, stdin, killed>>
  /\ UNCHANGED <<request, skipped, answer, stdout, runner, noise>>

-----------------------------------------------------------------------------
(* The runner.                                                             *)

Alive == runner \in {"booting", "idle"} /\ ~killed

Boot ==
  /\ Alive /\ runner = "booting"
  /\ stdout' = Append(stdout, [id |-> 0, kind |-> "ready"])
  /\ runner' = "idle"
  /\ UNCHANGED <<hostVars, stdin, killed, history>>

\* A package loader's message, or an unhandled error.
Chatter ==
  /\ Alive /\ noise < MaxNoise
  /\ noise' = noise + 1
  /\ \E kind \in {"noise", "stray"} : stdout' = Append(stdout, [id |-> 0, kind |-> kind])
  /\ UNCHANGED <<hostVars, stdin, runner, killed, cancels, interrupted>>

Serve ==
  /\ Alive /\ runner = "idle" /\ stdin # <<>>
  /\ stdin' = Tail(stdin)
  /\ \/ /\ Head(stdin) = Shutdown
        /\ runner' = "exited"
        /\ UNCHANGED stdout
     \/ /\ Head(stdin) # Shutdown
        /\ \E kind \in Outcomes :
             /\ kind = "bad" => Head(stdin) \in {Bootstrap, Execute}
             /\ stdout' = Append(stdout, [id |-> Head(stdin), kind |-> kind])
        /\ UNCHANGED runner
  /\ UNCHANGED <<hostVars, killed, history>>

\* It fails, or SIGKILL reaches it.
Exit ==
  /\ runner \in {"booting", "idle"}
  /\ runner' = "exited"
  /\ UNCHANGED <<hostVars, pipes, killed, history>>

Next ==
  \/ Spawn \/ AwaitReady \/ NotReadyInTime \/ Ask \/ Read \/ NotDoneInTime
  \/ Escalate \/ ProcessEnded \/ StderrEnded
  \/ Cancel
  \/ Boot \/ Chatter \/ Serve \/ Exit

Spec == Init /\ [][Next]_vars

\* Deadlines pass, what the host waits for and has happened wakes it, and a
\* process that was killed dies.  Nothing is asked of the runner.
FairSpec ==
  /\ Spec
  /\ WF_vars(Spawn) /\ WF_vars(NotReadyInTime) /\ WF_vars(NotDoneInTime) /\ WF_vars(Escalate)
  /\ WF_vars(ProcessEnded) /\ WF_vars(StderrEnded)
  /\ WF_vars(killed /\ Exit)

-----------------------------------------------------------------------------
(* Properties.                                                             *)

SessionTypeOK ==
  /\ host \in {"spawn", "ready", "ask", "read", "grace", "reap", "drain"} \cup Finished
  /\ why \in {"none", "done", "failed", "timeout", "error", "cancel"}
  /\ stopped \in BOOLEAN /\ killed \in BOOLEAN /\ interrupted \in BOOLEAN
  /\ request \in Requests
  /\ skipped \in 0..MaxSkip
  /\ answer \in {"none", "good", "bad"}
  /\ stdin \in Seq(0..Execute)
  /\ stdout \in Seq(Lines)
  /\ runner \in {"none", "booting", "idle", "exited"}
  /\ noise \in Nat /\ cancels \in Nat

\* However a call ends, its process has exited or been killed: on an answer, an
\* error, a deadline, an early exit or a cancellation.  The one exception is a
\* call cancelled within the grace period of a graceful stop, whose hard stop
\* does nothing, or does not happen.
LeavesNoProcess ==
  host \in Finished => runner \in {"none", "exited"} \/ killed \/ interrupted

\* Once the host has read the outcome of the code, the call returns it unless
\* it is cancelled, whatever becomes of the runner afterwards.
ResultKept == host = "returned" /\ answer # "none" => why = "done"

\* Every call ends, even if the runner never does anything again, with the same
\* exception: it then waits for a process nobody killed.
CallEnds == <>[](host \in Finished \/ (host = "drain" /\ interrupted))
=============================================================================
