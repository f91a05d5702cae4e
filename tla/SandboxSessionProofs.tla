------------------------ MODULE SandboxSessionProofs ------------------------
(***************************************************************************)
(* Safety of a run_python call, for every cap on the lines read and every  *)
(* number of noise lines and cancellations.                                *)
(***************************************************************************)
EXTENDS SandboxSession, SequenceTheorems, TLAPS

(* Before the answer is read nothing has been stopped and no cap reached.  *)
Asking ==
  /\ host = "spawn" => runner = "none" /\ skipped = 0
  /\ host \in {"ready", "read"} => skipped < MaxSkip
  /\ host \in {"spawn", "ready", "ask", "read"} => ~stopped /\ answer = "none"

(* What a stop has done by the time it waits.                              *)
Stopping ==
  /\ host = "reap" => killed
  /\ host = "drain" => runner = "exited" \/ killed \/ interrupted
  /\ LeavesNoProcess

(* An answer is only given up for a cancellation.                          *)
Keeping ==
  /\ answer # "none" => why \in {"done", "cancel"}
  /\ host = "returned" => why # "cancel"

SessionInv == SessionTypeOK /\ Asking /\ Stopping /\ Keeping

-----------------------------------------------------------------------------

LEMMA InitEstablishes == Init => SessionInv
<1> SUFFICES ASSUME Init PROVE SessionInv
  OBVIOUS
<1>1. stdin \in Seq(0..Execute) /\ stdout \in Seq(Lines)
  BY DEF Init
<1>2. skipped \in 0..MaxSkip /\ skipped < MaxSkip
  BY SessionAssumption DEF Init
<1>3. 1 \in Requests
  BY DEF Requests, Execute
<1> QED
  BY <1>1, <1>2, <1>3
  DEF Init, SessionInv, SessionTypeOK, Asking, Stopping, Keeping, LeavesNoProcess, Finished

LEMMA SoftStopDoes ==
  ASSUME SessionTypeOK, NEW reason, SoftStop(reason)
  PROVE  host' = "grace" /\ why' = reason /\ stopped' = TRUE /\ UNCHANGED killed
  BY DEF SoftStop

LEMMA HardStopDoes ==
  ASSUME SessionTypeOK, NEW reason, HardStop(reason)
  PROVE  /\ why' = reason /\ stopped' = TRUE /\ killed' \in BOOLEAN
         /\ killed => killed'
         /\ ~stopped => host' = "reap" /\ killed'
         /\ stopped => host' = "drain"
<1>1. why' = reason /\ stopped' = TRUE /\ killed' = (killed \/ ~stopped)
  BY DEF HardStop
<1>2. killed' \in BOOLEAN /\ (killed => killed') /\ (~stopped => killed')
  BY <1>1, Zenon
<1>3. stopped \in BOOLEAN /\ host' = (IF stopped THEN "drain" ELSE "reap")
  BY DEF HardStop, SessionTypeOK
<1> QED
  BY <1>1, <1>2, <1>3

(* The cap is reached only by giving up.                                   *)
LEMMA SkipDoes ==
  ASSUME SessionTypeOK, skipped < MaxSkip, Skip
  PROVE  /\ skipped' \in 0..MaxSkip /\ UNCHANGED killed
         /\ \/ host' = "grace" /\ why' = "failed" /\ stopped' = TRUE
            \/ skipped' < MaxSkip /\ UNCHANGED <<host, why, stopped>>
<1>1. skipped \in Nat /\ MaxSkip \in Nat /\ skipped' = skipped + 1
  BY SessionAssumption DEF SessionTypeOK, Skip
<1>2. CASE skipped + 1 = MaxSkip
  <2>1. SoftStop("failed")
    BY <1>2 DEF Skip
  <2>2. host' = "grace" /\ why' = "failed" /\ stopped' = TRUE /\ UNCHANGED killed
    BY <2>1, SoftStopDoes
  <2>3. skipped' \in 0..MaxSkip
    BY <1>1, <1>2
  <2> QED
    BY <2>2, <2>3
<1>3. CASE skipped + 1 # MaxSkip
  BY <1>1, <1>3 DEF Skip
<1> QED
  BY <1>2, <1>3

(* What is in the pipes keeps its shape.                                   *)
LEMMA PipeTypes ==
  ASSUME SessionTypeOK, [Next]_vars
  PROVE  stdin' \in Seq(0..Execute) /\ stdout' \in Seq(Lines)
<1>1. stdin \in Seq(0..Execute) /\ stdout \in Seq(Lines) /\ request \in 0..Execute
  BY DEF SessionTypeOK, Requests, Execute
<1>2. Shutdown \in 0..Execute
  BY DEF Shutdown, Execute
<1>3. \/ stdin' \in {stdin, Append(stdin, Shutdown), Append(stdin, request)}
      \/ stdin # <<>> /\ stdin' = Tail(stdin)
  <2> USE DEF pipes, SoftStop, HardStop
  <2>1. CASE Spawn \/ Escalate \/ ProcessEnded \/ StderrEnded \/ Exit \/ Cancel
    BY <2>1 DEF Spawn, Escalate, ProcessEnded, StderrEnded, Exit, Cancel
  <2>2. CASE AwaitReady \/ NotReadyInTime \/ Ask \/ NotDoneInTime
    BY <2>2 DEF AwaitReady, NotReadyInTime, Ask, NotDoneInTime, Skip
  <2>3. CASE Read
    BY <2>3 DEF Read, Accept, Skip
  <2>4. CASE Boot \/ Chatter \/ Serve
    BY <2>4 DEF Boot, Chatter, Serve
  <2>5. CASE UNCHANGED vars
    BY <2>5 DEF vars
  <2> QED
    BY <2>1, <2>2, <2>3, <2>4, <2>5 DEF Next
<1>4. \/ stdout' = stdout
      \/ stdout # <<>> /\ stdout' = Tail(stdout)
      \/ \E line \in Lines : stdout' = Append(stdout, line)
  <2> USE DEF pipes
  <2>1. CASE Spawn \/ Escalate \/ ProcessEnded \/ StderrEnded \/ Exit \/ Cancel
    BY <2>1 DEF Spawn, Escalate, ProcessEnded, StderrEnded, Exit, Cancel
  <2>2. CASE AwaitReady \/ NotReadyInTime \/ Ask \/ NotDoneInTime \/ Read
    BY <2>2 DEF AwaitReady, NotReadyInTime, Ask, NotDoneInTime, Read
  <2>3. CASE Boot \/ Chatter
    BY <2>3 DEF Boot, Chatter, Lines
  <2>4. CASE Serve
    <3>1. stdin # <<>> => Head(stdin) \in 0..Execute
      BY <1>1, HeadTailProperties
    <3>2. CASE UNCHANGED stdout
      BY <3>2
    <3>3. ASSUME Head(stdin) # Shutdown, stdin # <<>>, NEW kind \in Outcomes
          PROVE  [id |-> Head(stdin), kind |-> kind] \in Lines
      BY <3>1, <3>3 DEF Lines, Requests, Shutdown, Execute
    <3> QED
      BY <2>4, <3>2, <3>3 DEF Serve
  <2>5. CASE UNCHANGED vars
    BY <2>5 DEF vars
  <2> QED
    BY <2>1, <2>2, <2>3, <2>4, <2>5 DEF Next
<1>5. stdin' \in Seq(0..Execute)
  <2>1. CASE stdin # <<>> /\ stdin' = Tail(stdin)
    BY <1>1, <2>1, HeadTailProperties
  <2>2. CASE stdin' \in {stdin, Append(stdin, Shutdown), Append(stdin, request)}
    <3>1. /\ Append(stdin, Shutdown) \in Seq(0..Execute)
          /\ Append(stdin, request) \in Seq(0..Execute)
      BY <1>1, <1>2, AppendProperties
    <3> QED
      BY <1>1, <2>2, <3>1
  <2> QED
    BY <1>3, <2>1, <2>2
<1>6. stdout' \in Seq(Lines)
  <2>1. CASE stdout # <<>> /\ stdout' = Tail(stdout)
    BY <1>1, <2>1, HeadTailProperties
  <2>2. ASSUME NEW line \in Lines, stdout' = Append(stdout, line)
        PROVE  stdout' \in Seq(Lines)
    BY <1>1, <2>2, AppendProperties
  <2> QED
    BY <1>1, <1>4, <2>1, <2>2
<1> QED
  BY <1>5, <1>6

LEMMA StepPreserves == SessionInv /\ [Next]_vars => SessionInv'
<1> SUFFICES ASSUME SessionInv, [Next]_vars PROVE SessionInv'
  OBVIOUS
<1> USE SessionAssumption
<1>0. /\ SessionTypeOK
      /\ stdin' \in Seq(0..Execute) /\ stdout' \in Seq(Lines)
  BY PipeTypes DEF SessionInv
<1> USE <1>0
<1> USE DEF SessionInv, SessionTypeOK, Asking, Stopping, Keeping, LeavesNoProcess,
            Finished, history, pipes, hostVars
<1>1. CASE Spawn
  <2>1. CASE host' = "ready" /\ runner' = "booting" /\ UNCHANGED <<why, stopped>>
    BY <1>1, <2>1 DEF Spawn
  <2>2. CASE host' = "returned" /\ why' = "error" /\ stopped' = TRUE /\ UNCHANGED runner
    BY <1>1, <2>2 DEF Spawn
  <2> QED
    BY <1>1, <2>1, <2>2 DEF Spawn
<1>2. CASE AwaitReady
  <2>1. CASE host' = "ask" /\ skipped' = 0 /\ UNCHANGED <<why, stopped, stdin, killed>>
    BY <1>2, <2>1 DEF AwaitReady
  <2>2. CASE SoftStop("failed") /\ UNCHANGED skipped
    BY <1>2, <2>2, SoftStopDoes DEF AwaitReady
  <2>3. CASE Skip
    <3>1. host = "ready" /\ UNCHANGED <<request, answer, runner, history>>
      BY <1>2 DEF AwaitReady
    <3>2. skipped < MaxSkip
      BY <3>1
    <3>3. /\ skipped' \in 0..MaxSkip /\ UNCHANGED killed
          /\ \/ host' = "grace" /\ why' = "failed" /\ stopped' = TRUE
             \/ skipped' < MaxSkip /\ UNCHANGED <<host, why, stopped>>
      BY <2>3, <3>2, SkipDoes
    <3>4. CASE host' = "grace" /\ why' = "failed" /\ stopped' = TRUE
      BY <3>1, <3>3, <3>4
    <3>5. CASE skipped' < MaxSkip /\ UNCHANGED <<host, why, stopped>>
      BY <3>1, <3>3, <3>5
    <3> QED
      BY <3>3, <3>4, <3>5
  <2> QED
    BY <1>2, <2>1, <2>2, <2>3 DEF AwaitReady
<1>3. CASE NotReadyInTime
  BY <1>3, SoftStopDoes DEF NotReadyInTime
<1>4. CASE Ask
  <2>1. CASE host' = "read" /\ skipped' = 0 /\ UNCHANGED <<why, stopped, killed>>
    BY <1>4, <2>1 DEF Ask
  <2>2. CASE HardStop("error") /\ UNCHANGED skipped
    BY <1>4, <2>2, HardStopDoes DEF Ask
  <2> QED
    BY <1>4, <2>1, <2>2 DEF Ask
<1>5. CASE Read
  <2>0. host = "read" /\ UNCHANGED <<runner, noise, cancels, interrupted>>
    BY <1>5 DEF Read
  <2>1. ASSUME NEW kind \in Outcomes, Accept(kind), UNCHANGED skipped
        PROVE  SessionInv'
    <3>1. kind # "error" => kind \in {"good", "bad"}
      BY <2>1 DEF Outcomes
    <3>2. request # Execute => request + 1 \in Requests
      BY DEF Requests, Execute
    <3>3. CASE SoftStop("failed") /\ UNCHANGED <<request, answer>>
      BY <2>0, <2>1, <3>3, SoftStopDoes
    <3>4. CASE kind # "error" /\ answer' = kind /\ SoftStop("done") /\ UNCHANGED request
      BY <2>0, <2>1, <3>1, <3>4, SoftStopDoes
    <3>5. CASE /\ request # Execute /\ request' = request + 1 /\ host' = "ask"
               /\ UNCHANGED <<why, stopped, stdin, killed, answer>>
      BY <2>0, <2>1, <3>2, <3>5
    <3> QED
      BY <2>1, <3>3, <3>4, <3>5 DEF Accept
  <2>2. CASE Skip /\ UNCHANGED <<request, answer>>
    <3>1. skipped < MaxSkip
      BY <2>0
    <3>2. /\ skipped' \in 0..MaxSkip /\ UNCHANGED killed
          /\ \/ host' = "grace" /\ why' = "failed" /\ stopped' = TRUE
             \/ skipped' < MaxSkip /\ UNCHANGED <<host, why, stopped>>
      BY <2>2, <3>1, SkipDoes
    <3>3. CASE host' = "grace" /\ why' = "failed" /\ stopped' = TRUE
      BY <2>0, <2>2, <3>2, <3>3
    <3>4. CASE skipped' < MaxSkip /\ UNCHANGED <<host, why, stopped>>
      BY <2>0, <2>2, <3>2, <3>4
    <3> QED
      BY <3>2, <3>3, <3>4
  <2>3. CASE SoftStop("failed") /\ UNCHANGED <<request, skipped, answer>>
    BY <2>0, <2>3, SoftStopDoes
  <2>4. ASSUME stdout # <<>>, IsAnswer(Head(stdout))
        PROVE  Head(stdout).kind \in Outcomes
    <3>1. Head(stdout) \in Lines
      BY <2>4
    <3> QED
      BY <2>4, <3>1 DEF Lines, IsAnswer, Requests
  <2> QED
    BY <1>5, <2>1, <2>2, <2>3, <2>4 DEF Read
<1>6. CASE NotDoneInTime
  BY <1>6, HardStopDoes DEF NotDoneInTime
<1>7. CASE Escalate
  BY <1>7 DEF Escalate
<1>8. CASE ProcessEnded
  BY <1>8 DEF ProcessEnded
<1>9. CASE StderrEnded
  BY <1>9 DEF StderrEnded
<1>10. CASE Cancel
  <2>0. /\ interrupted' = (interrupted \/ host = "grace")
        /\ host \notin Finished /\ cancels' = cancels + 1
        /\ UNCHANGED <<request, skipped, answer, stdout, runner, noise>>
    BY <1>10 DEF Cancel
  <2>1. interrupted' \in BOOLEAN /\ (interrupted => interrupted')
        /\ (host = "grace" => interrupted')
    BY <2>0, Zenon
  <2>2. CASE host \in {"ready", "ask", "read"} /\ HardStop("cancel")
    <3>1. /\ why' = "cancel" /\ stopped' = TRUE /\ killed' \in BOOLEAN
          /\ killed => killed'
          /\ ~stopped => host' = "reap" /\ killed'
          /\ stopped => host' = "drain"
      BY <2>2, HardStopDoes
    <3>2. SessionTypeOK'
      BY <2>0, <2>1, <3>1
    <3> QED
      BY <2>0, <2>1, <2>2, <3>1, <3>2
  <2>3. CASE host \in {"grace", "reap"} /\ HardStop("cancel")
    <3>1. /\ why' = "cancel" /\ stopped' = TRUE /\ killed' \in BOOLEAN
          /\ killed => killed'
          /\ ~stopped => host' = "reap" /\ killed'
          /\ stopped => host' = "drain"
      BY <2>3, HardStopDoes
    <3>2. SessionTypeOK'
      BY <2>0, <2>1, <3>1
    <3> QED
      BY <2>0, <2>1, <2>3, <3>1, <3>2
  <2>4. CASE /\ host \in {"spawn", "drain", "grace", "reap"}
             /\ host' = "raised" /\ why' = "cancel" /\ UNCHANGED <<stopped, killed>>
    BY <2>0, <2>1, <2>4
  <2> QED
    BY <1>10, <2>2, <2>3, <2>4 DEF Cancel
<1>11. CASE Boot
  BY <1>11 DEF Boot, Alive
<1>12. CASE Chatter
  BY <1>12 DEF Chatter, Alive
<1>13. CASE Serve
  BY <1>13 DEF Serve, Alive
<1>14. CASE Exit
  BY <1>14 DEF Exit
<1>15. CASE UNCHANGED vars
  BY <1>15 DEF vars
<1> QED
  BY <1>1, <1>2, <1>3, <1>4, <1>5, <1>6, <1>7, <1>8, <1>9, <1>10, <1>11, <1>12,
     <1>13, <1>14, <1>15 DEF Next

LEMMA SessionSafe == Spec => []SessionInv
  BY InitEstablishes, StepPreserves, PTL DEF Spec

(* The types of the session; no answer is waited for longer than its cap.  *)
THEOREM SessionTypes == Spec => []SessionTypeOK
<1>1. SessionInv => SessionTypeOK
  BY DEF SessionInv
<1> QED
  BY <1>1, SessionSafe, PTL

(* However the deadlines, the cancellations and the runner interleave,     *)
(* run_python leaves no process it has not killed behind, but for a        *)
(* cancellation within the grace period.                                   *)
THEOREM NoProcessLeft == Spec => []LeavesNoProcess
<1>1. SessionInv => LeavesNoProcess
  BY DEF SessionInv, Stopping
<1> QED
  BY <1>1, SessionSafe, PTL

(* The outcome of the code is not lost to what happens while the session   *)
(* is being stopped.                                                       *)
THEOREM OutcomeKept == Spec => []ResultKept
<1>1. SessionInv => ResultKept
  BY DEF SessionInv, Keeping, ResultKept
<1> QED
  BY <1>1, SessionSafe, PTL
=============================================================================
