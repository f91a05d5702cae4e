------------------------- MODULE BackfillJobsProofs -------------------------
(***************************************************************************)
(* Proofs about BackfillJobs, for any number of jobs, runs and clients, in *)
(* two parts that share nothing but the steps.  What the clients of the    *)
(* jobs may rely on: of a command only its lines, its exit code and its    *)
(* death matter.  Then what the backfill leaves in its two files: who      *)
(* starts or kills a run does not matter.                                  *)
(***************************************************************************)
EXTENDS BackfillJobs, SequenceTheorems, FiniteSetTheorems,
        WellFoundedInduction, TLAPS

(* The processes of a job. *)
ProcessInv(j) ==
  /\ spawner[j] \in {"none", "made"} => shell[j] = "none"
  /\ shell[j] \in {"none", "starting"} => command[j] = "none"
  /\ shell[j] = "recording" => command[j] = "ended"
  /\ shell[j] = "gone" /\ command[j] = "running" => term[j]
  /\ command[j] # "none" => log[j] \in Nat

(* Its directory: the exit code comes after the command. *)
RecordInv(j) ==
  /\ spawner[j] = "none" => dir[j] = "none" /\ meta[j] = NoFile
  /\ exitcode[j] # NoFile => command[j] = "ended"
  /\ exitcode[j] \in Codes => exitcode[j] = code[j]

(* What a client in state s has read of its job stays true of it. *)
Believes(s) ==
  LET j == s.job
      knows == s.at \in {"decided", "over"}
  IN  /\ s.at = "read" => command[j] = "ended"
      /\ knows /\ s.verdict \in {"done", "failed"} => command[j] = "ended"
      /\ knows /\ s.verdict = "killed" => shell[j] = "gone"
      /\ knows /\ s.code \in Codes =>
           /\ s.verdict \in {"done", "failed"}
           /\ code[j] = s.code
           /\ (s.verdict = "done") <=> (s.code = 0)

(* What its command has seen to: the rest of the log was printed, and a    *)
(* job that is cleaned up had a record.                                    *)
Keeps(s) ==
  LET j == s.job
  IN  /\ s.at = "over" /\ s.op = "logs" /\ s.verdict \in {"done", "failed"} =>
           s.printed = log[j]
      /\ s.at # "idle" /\ s.op \in {"clean", "clean --all"} =>
           /\ spawner[j] # "none"
           /\ meta[j] # NoFile \/ dir[j] # "there"
           /\ s.at \in {"decided", "over"} /\ s.verdict = "unknown" => dir[j] # "there"

JobsInv ==
  /\ JobsTypeOK
  /\ \A j \in Jobs : ProcessInv(j) /\ RecordInv(j)
  /\ \A c \in Clients : Believes(client[c]) /\ Keeps(client[c])

Inv == JobsInv /\ status \in [Runs -> Codes] /\ cast \in Casts

-----------------------------------------------------------------------------
(* The steps of the jobs, whatever their commands do.                      *)

SpawnStep(j) == MakeDir(j) \/ Popen(j) \/ WriteMeta(j) \/ SpawnerDies(j)

ShellStep(j) == Redirect(j) \/ Echo(j) \/ ShellDies(j)

CommandMoves(j) == CommandPrints(j) \/ (\E result \in Codes : CommandEnds(j, result)) \/ CommandDies(j)

JobsStep ==
  \/ \E j \in Jobs : SpawnStep(j) \/ ShellStep(j) \/ CommandMoves(j) \/ Reuse(j)
  \/ \E c \in Clients : ClientStep(c) \/ \E j \in Jobs, op \in Operations : Ask(c, j, op)

LEMMA SpawnKeeps ==
  ASSUME JobsInv, NEW j \in Jobs, SpawnStep(j)
  PROVE  JobsInv'
<1> USE JobsAssumption DEF JobsInv, JobsTypeOK
<1>1. /\ client' = client /\ exitcode' = exitcode /\ log' = log
      /\ command' = command /\ code' = code /\ term' = term /\ reused' = reused
  BY DEF SpawnStep, MakeDir, Popen, WriteMeta, SpawnerDies, processes, files
<1>2. JobsTypeOK'
  BY <1>1 DEF SpawnStep, MakeDir, Popen, WriteMeta, SpawnerDies, processes, files
<1>3. \A k \in Jobs : ProcessInv(k)' /\ RecordInv(k)'
  BY <1>1 DEF SpawnStep, MakeDir, Popen, WriteMeta, SpawnerDies, processes, files,
              ProcessInv, RecordInv
<1>4. ASSUME NEW c \in Clients
      PROVE  Believes(client[c])' /\ Keeps(client[c])'
  <2>1. client[c].job \in Jobs
    BY DEF Callers
  <2>2. shell[client[c].job] = "gone" => shell'[client[c].job] = "gone"
    BY <2>1 DEF SpawnStep, MakeDir, Popen, WriteMeta, SpawnerDies, processes, files, ProcessInv
  <2>3. Believes(client[c])'
    BY <1>1, <2>1, <2>2 DEF Believes
  <2>4. LET k == client[c].job
        IN  spawner[k] # "none" =>
              /\ spawner'[k] # "none"
              /\ dir[k] # "there" => dir'[k] # "there"
              /\ meta[k] # NoFile => meta'[k] # NoFile \/ dir'[k] # "there"
    <3>1. CASE MakeDir(j)
      BY <2>1, <3>1 DEF MakeDir
    <3>2. CASE Popen(j) \/ SpawnerDies(j)
      BY <2>1, <3>2 DEF Popen, SpawnerDies, files
    <3>3. CASE WriteMeta(j)
      BY <2>1, <3>3 DEF WriteMeta
    <3> QED BY <3>1, <3>2, <3>3 DEF SpawnStep
  <2>5. Keeps(client[c])'
    BY <1>1, <2>1, <2>4 DEF Keeps
  <2> QED BY <2>3, <2>5
<1> QED BY <1>2, <1>3, <1>4

LEMMA ShellKeeps ==
  ASSUME JobsInv, NEW j \in Jobs, ShellStep(j)
  PROVE  JobsInv'
<1> USE JobsAssumption DEF JobsInv, JobsTypeOK
<1>1. /\ client' = client /\ spawner' = spawner /\ dir' = dir /\ meta' = meta
      /\ code' = code /\ term' = term /\ reused' = reused
  BY DEF ShellStep, Redirect, Echo, ShellDies, processes, files
<1>2. JobsTypeOK'
  BY <1>1 DEF ShellStep, Redirect, Echo, ShellDies, files
<1>3. ASSUME NEW k \in Jobs
      PROVE  ProcessInv(k)' /\ RecordInv(k)'
  <2>1. CASE Redirect(j)
    BY <1>1, <2>1 DEF Redirect, ProcessInv, RecordInv
  <2>2. CASE Echo(j)
    BY <1>1, <2>2 DEF Echo, ProcessInv, RecordInv
  <2>3. CASE ShellDies(j)
    BY <1>1, <2>3 DEF ShellDies, files, ProcessInv, RecordInv
  <2> QED BY <2>1, <2>2, <2>3 DEF ShellStep
<1>4. ASSUME NEW c \in Clients
      PROVE  Believes(client[c])' /\ Keeps(client[c])'
  <2>1. client[c].job \in Jobs
    BY DEF Callers
  <2>2. /\ shell[client[c].job] = "gone" => shell'[client[c].job] = "gone"
        /\ command[client[c].job] = "ended" =>
             command'[client[c].job] = "ended" /\ log'[client[c].job] = log[client[c].job]
    BY <2>1 DEF ShellStep, Redirect, Echo, ShellDies, files, ProcessInv
  <2>3. Believes(client[c])'
    BY <1>1, <2>1, <2>2 DEF Believes
  <2>4. Keeps(client[c])'
    BY <1>1, <2>1, <2>2 DEF Keeps, Believes
  <2> QED BY <2>3, <2>4
<1> QED BY <1>2, <1>3, <1>4

LEMMA CommandKeeps ==
  ASSUME JobsInv, NEW j \in Jobs, CommandMoves(j) \/ Reuse(j)
  PROVE  JobsInv'
<1> USE JobsAssumption DEF JobsInv, JobsTypeOK
<1>1. /\ client' = client /\ spawner' = spawner /\ dir' = dir /\ meta' = meta
      /\ exitcode' = exitcode /\ shell' = shell /\ term' = term
  BY DEF CommandMoves, CommandPrints, CommandEnds, CommandDies, Reuse, processes, files
<1>2. ASSUME NEW k \in Jobs
      PROVE  ProcessInv(k)' /\ RecordInv(k)'
  <2>1. CASE CommandPrints(j)
    <3>1. log[j] \in Nat
      BY <2>1 DEF CommandPrints, ProcessInv
    <3> QED BY <1>1, <2>1, <3>1 DEF CommandPrints, processes, ProcessInv, RecordInv
  <2>2. CASE CommandDies(j) \/ \E result \in Codes : CommandEnds(j, result)
    BY <1>1, <2>2 DEF CommandEnds, CommandDies, files, ProcessInv, RecordInv
  <2>3. CASE Reuse(j)
    BY <1>1, <2>3 DEF Reuse, files, ProcessInv, RecordInv
  <2> QED BY <2>1, <2>2, <2>3 DEF CommandMoves
<1>3. JobsTypeOK'
  <2>1. CASE CommandPrints(j)
    <3>1. log[j] \in Nat
      BY <2>1 DEF CommandPrints, ProcessInv
    <3> QED BY <1>1, <2>1, <3>1 DEF CommandPrints, processes
  <2>2. CASE CommandDies(j) \/ \E result \in Codes : CommandEnds(j, result)
    BY <1>1, <2>2 DEF CommandEnds, CommandDies, files
  <2>3. CASE Reuse(j)
    BY <1>1, <2>3 DEF Reuse, files
  <2> QED BY <2>1, <2>2, <2>3 DEF CommandMoves
<1>4. ASSUME NEW c \in Clients
      PROVE  Believes(client[c])' /\ Keeps(client[c])'
  <2>1. client[c].job \in Jobs
    BY DEF Callers
  <2>2. command[client[c].job] = "ended" =>
          /\ command'[client[c].job] = "ended"
          /\ log'[client[c].job] = log[client[c].job]
          /\ code'[client[c].job] = code[client[c].job]
    BY <2>1 DEF CommandMoves, CommandPrints, CommandEnds, CommandDies, Reuse, processes, files
  <2>3. Believes(client[c])'
    BY <1>1, <2>1, <2>2 DEF Believes
  <2>4. Keeps(client[c])'
    BY <1>1, <2>1, <2>2 DEF Keeps, Believes
  <2> QED BY <2>3, <2>4
<1> QED BY <1>2, <1>3, <1>4

(* A client that moves on to another state, and touches nothing. *)
LEMMA ClientMoves ==
  ASSUME JobsInv, NEW c \in Clients, NEW s \in Callers, Believes(s), Keeps(s),
         client' = [client EXCEPT ![c] = s], UNCHANGED <<spawner, files, processes>>
  PROVE  JobsInv'
<1>1. /\ spawner' = spawner /\ dir' = dir /\ meta' = meta /\ exitcode' = exitcode
      /\ log' = log /\ shell' = shell /\ command' = command /\ code' = code
      /\ term' = term /\ reused' = reused
  BY DEF processes, files
<1>2. JobsTypeOK'
  BY <1>1 DEF JobsInv, JobsTypeOK
<1>3. \A k \in Jobs : ProcessInv(k)' /\ RecordInv(k)'
  BY <1>1 DEF JobsInv, ProcessInv, RecordInv
<1>4. ASSUME NEW d \in Clients
      PROVE  Believes(client[d])' /\ Keeps(client[d])'
  <2>1. client'[d] = IF d = c THEN s ELSE client[d]
    BY DEF JobsInv, JobsTypeOK
  <2>2. Believes(client'[d]) /\ Keeps(client'[d])
    BY <2>1 DEF JobsInv
  <2> QED BY <1>1, <2>2 DEF Believes, Keeps
<1> QED BY <1>2, <1>3, <1>4 DEF JobsInv

LEMMA ClientKeeps ==
  ASSUME JobsInv, NEW c \in Clients, UNCHANGED <<spawner, files, processes>>,
         \/ \E j \in Jobs, op \in Operations : Ask(c, j, op)
         \/ Look(c) \/ ReadExit(c) \/ ReadMeta(c) \/ Probe(c) \/ Report(c)
         \/ Follow(c) \/ StopFollowing(c) \/ Leave(c)
  PROVE  JobsInv'
<1> DEFINE me == client[c]
           j == me.job
<1> USE JobsAssumption
<1>1. /\ me \in Callers /\ j \in Jobs /\ Believes(me) /\ Keeps(me)
      /\ RecordInv(j) /\ ProcessInv(j)
  BY DEF JobsInv, JobsTypeOK, Callers
<1>2. exitcode[j] \in {NoFile, Empty} \cup Codes /\ log[j] \in {NoFile} \cup Nat
  BY <1>1 DEF JobsInv, JobsTypeOK
<1>3. Resting \in Callers /\ Resting.at = "idle"
  BY DEF Resting, Callers, Operations, Verdicts
<1>4. SUFFICES \E s \in Callers :
                 Believes(s) /\ Keeps(s) /\ client' = [client EXCEPT ![c] = s]
  BY ClientMoves
<1>5. CASE \E k \in Jobs, op \in Operations : Ask(c, k, op)
  <2>1. PICK k \in Jobs, op \in Operations : Ask(c, k, op)
    BY <1>5
  <2> DEFINE s == [Resting EXCEPT !.at = IF op = "logs" THEN "follow" ELSE "look",
                                  !.op = op, !.job = k]
  <2>2. s \in Callers /\ s.at \in {"follow", "look"} /\ s.op = op /\ s.job = k
    BY <1>3 DEF Callers
  <2>3. op \in {"clean", "clean --all"} => meta[k] # NoFile
    BY <2>1 DEF Ask
  <2>4. op \in {"clean", "clean --all"} => spawner[k] # "none"
    BY <2>3 DEF JobsInv, RecordInv
  <2>5. Believes(s) /\ Keeps(s)
    BY <2>2, <2>3, <2>4 DEF Believes, Keeps
  <2>6. client' = [client EXCEPT ![c] = s]
    BY <2>1 DEF Ask
  <2> QED BY <2>2, <2>5, <2>6
<1>6. CASE Look(c)
  <2> DEFINE s == [me EXCEPT !.at = IF exitcode[j] # NoFile THEN "read" ELSE "meta"]
  <2>1. s \in Callers /\ s.job = j /\ s.op = me.op
        /\ s.at \in {"read", "meta"} /\ (s.at = "read" => exitcode[j] # NoFile)
    BY <1>1 DEF Callers
  <2>2. Believes(s) /\ Keeps(s)
    BY <1>1, <1>6, <2>1 DEF Believes, Keeps, RecordInv, Look
  <2> QED BY <1>6, <2>1, <2>2 DEF Look, Step
<1>7. CASE ReadExit(c)
  <2>1. CASE exitcode[j] = NoFile
    <3> DEFINE s == [me EXCEPT !.at = "crashed"]
    <3>1. s \in Callers /\ s.at = "crashed" /\ s.job = j /\ s.op = me.op
      BY <1>1 DEF Callers
    <3>2. Believes(s) /\ Keeps(s)
      BY <1>1, <1>7, <3>1 DEF Believes, Keeps, ReadExit
    <3> QED BY <1>7, <2>1, <3>1, <3>2 DEF ReadExit, Step
  <2>2. CASE exitcode[j] # NoFile
    <3> DEFINE verdict == IF exitcode[j] = 0 THEN "done" ELSE "failed"
               result == IF exitcode[j] = Empty THEN -1 ELSE exitcode[j]
               s == [me EXCEPT !.at = "decided", !.verdict = verdict, !.code = result]
    <3>1. /\ s \in Callers /\ s.at = "decided" /\ s.job = j /\ s.op = me.op
          /\ s.verdict = verdict /\ s.code = result
      BY <1>1, <1>2, <2>2 DEF Callers, Verdicts
    <3>2. verdict \in {"done", "failed"} /\ command[j] = "ended"
      BY <1>1, <2>2 DEF RecordInv
    <3>3. result \in Codes => result = exitcode[j] /\ code[j] = result
      BY <1>1 DEF RecordInv, Codes
    <3>4. Believes(s)
      BY <3>1, <3>2, <3>3 DEF Believes
    <3>5. Keeps(s)
      BY <1>1, <1>7, <3>1, <3>2 DEF Keeps, ReadExit
    <3> QED BY <1>7, <2>2, <3>1, <3>4, <3>5, ZenonT(40) DEF ReadExit, Decide
  <2> QED BY <2>1, <2>2
<1>8. CASE ReadMeta(c)
  <2>1. CASE meta[j] = NoFile /\ Decide(c, "unknown", NoFile)
    <3> DEFINE s == [me EXCEPT !.at = "decided", !.verdict = "unknown", !.code = NoFile]
    <3>1. /\ s \in Callers /\ s.at = "decided" /\ s.job = j /\ s.op = me.op
          /\ s.verdict = "unknown" /\ s.code = NoFile
      BY <1>1 DEF Callers, Verdicts
    <3>2. Believes(s) /\ Keeps(s)
      BY <1>1, <1>8, <2>1, <3>1 DEF Believes, Keeps, ReadMeta
    <3> QED BY <2>1, <3>1, <3>2 DEF Decide
  <2>2. CASE Step(c, "crashed") \/ Step(c, "alive")
    <3>1. PICK there \in {"crashed", "alive"} : Step(c, there)
      BY <2>2
    <3> DEFINE s == [me EXCEPT !.at = there]
    <3>2. s \in Callers /\ s.at = there /\ s.job = j /\ s.op = me.op
      BY <1>1 DEF Callers
    <3>3. Believes(s) /\ Keeps(s)
      BY <1>1, <1>8, <3>2 DEF Believes, Keeps, ReadMeta
    <3> QED BY <3>1, <3>2, <3>3 DEF Step
  <2> QED BY <1>8, <2>1, <2>2 DEF ReadMeta
<1>9. CASE Probe(c)
  <2> DEFINE verdict == IF PidAlive(j) THEN "running" ELSE "killed"
             s == [me EXCEPT !.at = "decided", !.verdict = verdict, !.code = NoFile]
  <2>1. /\ s \in Callers /\ s.at = "decided" /\ s.job = j /\ s.op = me.op
        /\ s.verdict = verdict /\ s.code = NoFile
    BY <1>1 DEF Callers, Verdicts
  <2>2. verdict \in {"running", "killed"} /\ (verdict = "killed" => shell[j] = "gone")
    BY DEF PidAlive
  <2>3. Believes(s) /\ Keeps(s)
    BY <1>1, <1>9, <2>1, <2>2 DEF Believes, Keeps, Probe
  <2> QED BY <1>9, <2>1, <2>3 DEF Probe, Decide
<1>10. CASE Report(c)
  <2> DEFINE s == [me EXCEPT !.at = "over"]
  <2>1. /\ s \in Callers /\ s.at = "over" /\ s.job = j /\ s.op = "status"
        /\ s.verdict = me.verdict /\ s.code = me.code /\ me.at = "decided"
    BY <1>1, <1>10 DEF Callers, Report
  <2>2. Believes(s) /\ Keeps(s)
    BY <1>1, <2>1 DEF Believes, Keeps
  <2> QED BY <1>10, <2>1, <2>2 DEF Report, Step
<1>11. CASE Follow(c)
  <2> DEFINE s == [me EXCEPT !.at = "look", !.printed = log[j]]
  <2>1. s \in Callers /\ s.at = "look" /\ s.job = j /\ s.op = me.op /\ me.at = "follow"
    BY <1>1, <1>2, <1>11 DEF Callers, Follow
  <2>2. Believes(s) /\ Keeps(s)
    BY <1>1, <2>1 DEF Believes, Keeps
  <2> QED BY <1>11, <2>1, <2>2 DEF Follow
<1>12. CASE StopFollowing(c)
  <2>1. me.at = "decided" /\ me.op = "logs"
    BY <1>12 DEF StopFollowing
  <2>2. CASE me.verdict = "running"
    <3> DEFINE s == [me EXCEPT !.at = "follow"]
    <3>1. s \in Callers /\ s.at = "follow" /\ s.job = j /\ s.op = "logs"
      BY <1>1, <2>1 DEF Callers
    <3>2. Believes(s) /\ Keeps(s)
      BY <3>1 DEF Believes, Keeps
    <3> QED BY <1>12, <2>2, <3>1, <3>2 DEF StopFollowing, Step
  <2>3. CASE me.verdict # "running"
    <3> DEFINE s == [me EXCEPT !.at = "over", !.printed = log[j]]
    <3>1. /\ s \in Callers /\ s.at = "over" /\ s.job = j /\ s.op = "logs"
          /\ s.verdict = me.verdict /\ s.code = me.code /\ s.printed = log[j]
      BY <1>1, <1>2, <2>1 DEF Callers
    <3>2. Believes(s) /\ Keeps(s)
      BY <1>1, <2>1, <3>1 DEF Believes, Keeps
    <3> QED BY <1>12, <2>3, <3>1, <3>2 DEF StopFollowing
  <2> QED BY <2>2, <2>3
<1>13. CASE Leave(c)
  <2>1. Believes(Resting) /\ Keeps(Resting)
    BY <1>3 DEF Believes, Keeps
  <2> QED BY <1>3, <1>13, <2>1 DEF Leave
<1> QED BY <1>5, <1>6, <1>7, <1>8, <1>9, <1>10, <1>11, <1>12, <1>13

LEMMA CancelKeeps ==
  ASSUME JobsInv, NEW c \in Clients, Cancel(c)
  PROVE  JobsInv'
<1> DEFINE me == client[c]
           j == me.job
           there == IF me.verdict = "running" /\ meta[j] # "written" THEN "crashed" ELSE "over"
           s == [me EXCEPT !.at = there]
<1>1. /\ spawner' = spawner /\ dir' = dir /\ meta' = meta /\ exitcode' = exitcode
      /\ log' = log /\ shell' = shell /\ command' = command /\ code' = code
      /\ reused' = reused /\ client' = [client EXCEPT ![c] = s]
  BY DEF Cancel, Step, files
<1>2. /\ me \in Callers /\ j \in Jobs /\ Believes(me) /\ term \in [Jobs -> BOOLEAN]
      /\ me.at = "decided" /\ me.op = "cancel"
  BY DEF Cancel, JobsInv, JobsTypeOK, Callers
<1>3. term' \in [Jobs -> BOOLEAN] /\ \A k \in Jobs : term[k] => term'[k]
  BY <1>2 DEF Cancel
<1>4. s \in Callers /\ s.job = j /\ s.op = "cancel" /\ s.verdict = me.verdict
      /\ s.code = me.code /\ s.at \in {"over", "crashed"}
  BY <1>2 DEF Callers
<1>5. JobsTypeOK'
  BY <1>1, <1>3, <1>4 DEF JobsInv, JobsTypeOK
<1>6. \A k \in Jobs : ProcessInv(k)' /\ RecordInv(k)'
  BY <1>1, <1>3 DEF JobsInv, ProcessInv, RecordInv
<1>7. Believes(s) /\ Keeps(s)
  BY <1>2, <1>4 DEF Believes, Keeps
<1>8. ASSUME NEW d \in Clients
      PROVE  Believes(client[d])' /\ Keeps(client[d])'
  <2>1. client'[d] = IF d = c THEN s ELSE client[d]
    BY <1>1 DEF JobsInv, JobsTypeOK
  <2>2. Believes(client'[d]) /\ Keeps(client'[d])
    BY <1>7, <2>1 DEF JobsInv
  <2> QED BY <1>1, <2>2 DEF Believes, Keeps
<1> QED BY <1>5, <1>6, <1>8 DEF JobsInv

LEMMA CleanKeeps ==
  ASSUME JobsInv, NEW c \in Clients, Clean(c)
  PROVE  JobsInv'
<1> DEFINE me == client[c]
           j == me.job
           s == [me EXCEPT !.at = "over"]
<1>1. /\ spawner' = spawner /\ log' = log /\ shell' = shell /\ command' = command
      /\ code' = code /\ term' = term /\ reused' = reused
      /\ client' = [client EXCEPT ![c] = s]
  BY DEF Clean, RemoveRecord, Step, processes, files
<1>2. /\ me \in Callers /\ j \in Jobs /\ Believes(me) /\ Keeps(me)
      /\ me.at = "decided" /\ me.op \in {"clean", "clean --all"}
  BY DEF Clean, JobsInv, JobsTypeOK, Callers
<1>3. s \in Callers /\ s.job = j /\ s.op = me.op /\ s.verdict = me.verdict
      /\ s.code = me.code /\ s.at = "over"
  BY <1>2 DEF Callers
<1>4. Believes(s) /\ Keeps(s) /\ spawner[j] # "none"
  BY <1>2, <1>3 DEF Believes, Keeps
<1>5. CASE UNCHANGED files
  BY <1>1, <1>3, <1>4, <1>5, ClientMoves DEF processes
<1>6. CASE RemoveRecord(j)
  <2>1. JobsTypeOK'
    BY <1>1, <1>3, <1>6 DEF JobsInv, JobsTypeOK, RemoveRecord
  <2>2. ASSUME NEW k \in Jobs
        PROVE  ProcessInv(k)' /\ RecordInv(k)'
    BY <1>1, <1>4, <1>6, JobsAssumption
    DEF JobsInv, JobsTypeOK, ProcessInv, RecordInv, RemoveRecord
  <2>3. ASSUME NEW d \in Clients
        PROVE  Believes(client[d])' /\ Keeps(client[d])'
    <3>1. client'[d] = IF d = c THEN s ELSE client[d]
      BY <1>1 DEF JobsInv, JobsTypeOK
    <3>2. Believes(client'[d]) /\ Keeps(client'[d]) /\ client'[d].job \in Jobs
      BY <1>3, <1>4, <3>1 DEF JobsInv, JobsTypeOK, Callers
    <3>3. \A k \in Jobs : \/ dir'[k] = dir[k] /\ meta'[k] = meta[k]
                          \/ dir'[k] # "there"
      BY <1>6 DEF JobsInv, JobsTypeOK, RemoveRecord
    <3>4. Believes(client[d])'
      BY <1>1, <3>2 DEF Believes
    <3>5. Keeps(client[d])'
      BY <1>1, <3>2, <3>3 DEF Keeps
    <3> QED BY <3>4, <3>5
  <2> QED BY <2>1, <2>2, <2>3 DEF JobsInv
<1> QED BY <1>5, <1>6 DEF Clean

LEMMA JobsKeep ==
  ASSUME JobsInv, JobsStep \/ UNCHANGED jobVars
  PROVE  JobsInv'
<1>1. CASE \E j \in Jobs : SpawnStep(j) \/ ShellStep(j) \/ CommandMoves(j) \/ Reuse(j)
  BY <1>1, SpawnKeeps, ShellKeeps, CommandKeeps
<1>2. CASE \E c \in Clients : ClientStep(c) \/ \E j \in Jobs, op \in Operations : Ask(c, j, op)
  <2>1. PICK c \in Clients : ClientStep(c) \/ \E j \in Jobs, op \in Operations : Ask(c, j, op)
    BY <1>2
  <2>2. CASE Cancel(c) \/ Clean(c)
    BY <2>2, CancelKeeps, CleanKeeps
  <2>3. CASE ~(Cancel(c) \/ Clean(c))
    <3>1. UNCHANGED <<spawner, files, processes>>
      BY <2>1, <2>3 DEF ClientStep, Ask, Look, ReadExit, ReadMeta, Probe, Report, Follow,
                        StopFollowing, Leave
    <3> QED BY <2>1, <2>3, <3>1, ClientKeeps DEF ClientStep
  <2> QED BY <2>2, <2>3
<1>3. CASE UNCHANGED jobVars
  BY <1>3, ZenonT(40) DEF jobVars, files, processes, JobsInv, JobsTypeOK, ProcessInv, RecordInv,
              Believes, Keeps
<1> QED BY <1>1, <1>2, <1>3 DEF JobsStep

-----------------------------------------------------------------------------
(* The runs behind them.                                                   *)

LEMMA StatusKeeps ==
  ASSUME status \in [Runs -> Codes], [Next]_vars
  PROVE  status' \in [Runs -> Codes]
<1>1. \/ status' = status
      \/ \E r \in Runs, result \in Codes : status' = [status EXCEPT ![r] = result]
  <2>1. ASSUME NEW r \in Runs, Quiet(r) \/ Answer(r) \/ End(r) \/ Kill(r)
        PROVE  \/ status' = status
               \/ \E result \in Codes : status' = [status EXCEPT ![r] = result]
    BY <2>1 DEF Quiet, Answer, End, Kill, Begin, Retry, GiveUp, Exit, Flush, Close, OpenCursor,
                WriteCursor, locals, Codes
  <2>2. CASE \E j \in Jobs : CommandStep(j)
    BY <2>1, <2>2, CastsAssumption DEF CommandStep
  <2>3. CASE \E r \in Runs : Foreground(r)
    BY <2>1, <2>3 DEF Foreground
  <2>4. CASE UNCHANGED backfillVars
    BY <2>4 DEF backfillVars, locals
  <2>5. CASE Arrival
    BY <2>5 DEF Arrival, Arrive, locals
  <2> QED BY <2>2, <2>3, <2>4, <2>5
          DEF Next, vars, Spawn, Shell, NumberReused, Asks, Answers
<1> QED BY <1>1

LEMMA StepOfJobs ==
  ASSUME Inv, [Next]_vars
  PROVE  (JobsStep \/ UNCHANGED jobVars) /\ cast' = cast
<1>1. CASE \E j \in Jobs : CommandStep(j)
  <2>1. PICK j \in Jobs : CommandStep(j)
    BY <1>1
  <2>2. status[j] \in Codes
    BY CastsAssumption DEF Inv
  <2> QED BY <2>1, <2>2 DEF CommandStep, CommandMoves, JobsStep
<1>2. CASE \E j \in Jobs : Spawn(j) \/ Shell(j) \/ NumberReused(j)
  BY <1>2 DEF Spawn, Shell, NumberReused, SpawnStep, ShellStep, JobsStep
<1>3. CASE \E c \in Clients : Asks(c) \/ Answers(c)
  <2>1. \A c \in Clients : cast.asks[c] \subseteq Operations
    BY CastsAssumption DEF Inv
  <2> QED BY <1>3, <2>1 DEF Asks, Answers, JobsStep
<1>4. CASE Arrival \/ \E r \in Runs : Foreground(r)
  BY <1>4 DEF Arrival, Foreground
<1>5. CASE UNCHANGED vars
  BY <1>5 DEF vars
<1> QED BY <1>1, <1>2, <1>3, <1>4, <1>5 DEF Next

LEMMA InvInit == Init => Inv
<1> SUFFICES ASSUME Init PROVE Inv
  OBVIOUS
<1>1. Resting \in Callers /\ Resting.at = "idle"
  BY JobsAssumption DEF Resting, Callers, Operations, Verdicts
<1>2. JobsTypeOK
  BY <1>1 DEF Init, JobsInit, JobsTypeOK
<1>3. \A j \in Jobs : ProcessInv(j) /\ RecordInv(j)
  BY JobsAssumption DEF Init, JobsInit, ProcessInv, RecordInv
<1>4. \A c \in Clients : Believes(client[c]) /\ Keeps(client[c])
  BY <1>1 DEF Init, JobsInit, Believes, Keeps
<1>5. status \in [Runs -> Codes]
  BY DEF Init, BackfillInit, Codes
<1> QED BY <1>2, <1>3, <1>4, <1>5 DEF Init, Inv, JobsInv

LEMMA InvNext == Inv /\ [Next]_vars => Inv'
BY StepOfJobs, StatusKeeps, JobsKeep DEF Inv

LEMMA InvAlways == Spec => []Inv
<1>1. Init => Inv
  BY InvInit
<1>2. Inv /\ [Next]_vars => Inv'
  BY InvNext
<1> QED BY <1>1, <1>2, PTL DEF Spec

-----------------------------------------------------------------------------
(* Jobs and clients are well typed: no client and no process leaves a file *)
(* in a state the others do not know how to read.                          *)
THEOREM JobsTypes == Spec => []JobsTypeOK
<1>1. Inv => JobsTypeOK
  BY DEF Inv, JobsInv
<1> QED BY <1>1, InvAlways, PTL

(* status and list report an exit code only if it is the code the    *)
(* command of the job ended with (_status).                                *)
THEOREM ReportsAreTrue == Spec => []ReportsTrue
<1>1. Inv => ReportsTrue
  BY DEF Inv, JobsInv, Believes, ReportsTrue, Knows
<1> QED BY <1>1, InvAlways, PTL

(* A follower of the log that stops because the job has ended has printed  *)
(* all of it (logs: the last read comes after the look at the state).      *)
THEOREM FollowersSeeAll == Spec => []FollowComplete
<1>1. Inv => FollowComplete
  BY DEF Inv, JobsInv, Keeps, FollowComplete
<1> QED BY <1>1, InvAlways, PTL

(* clean without --all never removes the record of a job whose command     *)
(* runs and was not cancelled, however long ago it looked.                 *)
THEOREM RunningJobsAreKept == Spec => CleanKeepsRunning
<1>1. ASSUME Inv, [Next]_vars, NEW c \in Clients, NEW j \in Jobs,
             client[c].at = "decided", client[c].op = "clean", client[c].job = j,
             client'[c].at = "over", dir[j] = "there", dir'[j] = "removed"
      PROVE  command[j] # "running" \/ term[j]
  <2>1. JobsStep
    BY <1>1, StepOfJobs DEF jobVars, files
  <2>2. client'[c] # client[c]
    BY <1>1
  <2>3. PICK d \in Clients : ClientStep(d) \/ \E k \in Jobs, op \in Operations : Ask(d, k, op)
    BY <2>1, <2>2 DEF JobsStep, SpawnStep, MakeDir, Popen, WriteMeta, SpawnerDies,
                      ShellStep, Redirect, Echo, ShellDies,
                      CommandMoves, CommandPrints, CommandEnds, CommandDies, Reuse
  <2>4. d = c
    <3> SUFFICES ASSUME d # c PROVE client'[c] = client[c]
      BY <2>2
    <3>1. client \in [Clients -> Callers]
      BY <1>1 DEF Inv, JobsInv, JobsTypeOK
    <3>2. CASE Look(d) \/ ReadExit(d) \/ ReadMeta(d) \/ Probe(d) \/ Report(d) \/ Cancel(d) \/ Clean(d)
      BY <3>1, <3>2 DEF Look, ReadExit, ReadMeta, Probe, Report, Cancel, Clean, Step, Decide
    <3>3. CASE Follow(d) \/ StopFollowing(d) \/ Leave(d)
      BY <3>1, <3>3 DEF Follow, StopFollowing, Leave, Step
    <3>4. CASE \E k \in Jobs, op \in Operations : Ask(d, k, op)
      BY <3>1, <3>4 DEF Ask
    <3> QED BY <2>3, <3>2, <3>3, <3>4 DEF ClientStep
  <2>5. Clean(c)
    BY <1>1, <2>3, <2>4 DEF ClientStep, Ask, Look, ReadExit, ReadMeta, Probe, Report, Follow,
                            StopFollowing, Cancel, Leave
  <2>6. client[c].verdict # "running"
    BY <1>1, <2>5 DEF Clean, files
  <2>7. client[c].verdict \in {"done", "failed", "killed", "unknown"}
    BY <1>1, <2>6 DEF Inv, JobsInv, JobsTypeOK, Callers, Verdicts
  <2> QED BY <1>1, <2>7 DEF Inv, JobsInv, Believes, Keeps, ProcessInv
<1>2. Inv /\ [Next]_vars =>
        [\A c \in Clients, j \in Jobs :
           /\ client[c].at = "decided" /\ client[c].op = "clean" /\ client[c].job = j
           /\ client'[c].at = "over" /\ dir[j] = "there" /\ dir'[j] = "removed"
           => command[j] # "running" \/ term[j]]_jobVars
  BY <1>1
<1> QED BY <1>2, InvAlways, PTL DEF Spec, CleanKeepsRunning

-----------------------------------------------------------------------------
(* The backfill.  Its state is well formed:                                *)

Phases == {"idle", "fetch", "close", "open cursor", "write cursor", "end", "over"}

Places == 1..Len(source)

(* The observations are in the order of their starts; files and buffers    *)
(* hold places in it; no time that was noted lies ahead of all of them.    *)
InOrderOfStart ==
  /\ source \in Seq(Nat \ {0})
  /\ \A i, k \in Places : i <= k => source[i] <= source[k]

Reached(t) == t = 0 \/ \E i \in Places : t <= source[i]

BackfillTypes ==
  /\ InOrderOfStart
  /\ store \in Seq(Places) /\ buffer \in [Runs -> Seq(Places)]
  /\ cursor \in Nat \cup {NoCursor} /\ (cursor # NoCursor => Reached(cursor))
  /\ phase \in [Runs -> Phases] /\ page \in [Runs -> Nat \ {0}]
  /\ since \in [Runs -> Nat] /\ high \in [Runs -> Nat]
  /\ \A r \in Runs :
       /\ since[r] <= high[r] /\ Reached(high[r])
       /\ phase[r] = "idle" => page[r] = 1 /\ buffer[r] = <<>>

(* Where the pages begin that the run has not read. *)
Unread(r) == (page[r] - 1) * PageSize

Covered(t) == \A i \in Places : i \notin late /\ source[i] <= t => i \in ToSet(store)

(* Up to the newest start the run has seen, it has what it wants of the    *)
(* given places.                                                           *)
Has(r, places) ==
  \A i \in places : i \notin late /\ since[r] < source[i] /\ source[i] <= high[r] =>
    i \in ToSet(store) \cup ToSet(buffer[r])

Newcomer(i) == i \notin late /\ \A k \in Places : k < i => source[k] < source[i]

RunCovers(r) ==
  /\ Covered(since[r])
  /\ phase[r] = "fetch" =>
       /\ Has(r, {i \in Places : i > Len(source) - Unread(r)})
       /\ page[r] > 1 => \A i \in Places \ late : source[i] <= high[r] \/ Newcomer(i)
  /\ phase[r] = "close" /\ status[r] = 0 => Has(r, Places)
  /\ phase[r] \in {"open cursor", "write cursor"} => Covered(high[r])

CoverInv ==
  /\ cursor # NoCursor => Covered(cursor)
  /\ \A r \in Runs : RunCovers(r)

(* Without a disturbance there is one run at a time, and what it adds lies *)
(* beyond what was stored before it.                                       *)
UpTo(rows, t) == \A i \in ToSet(rows) : source[i] <= t

Gathered(r) == store \o buffer[r]

StoresOnce(r) ==
  /\ IsInjective(Gathered(r))
  /\ UpTo(Gathered(r), IF phase[r] = "end" THEN CursorTime ELSE high[r])
  /\ phase[r] = "fetch" =>
       \A i \in ToSet(Gathered(r)) : source[i] <= since[r] \/ i > Len(source) - Unread(r)
  /\ phase[r] = "close" => status[r] = 0
  /\ phase[r] \in {"open cursor", "write cursor", "end"} => buffer[r] = <<>>

OnceInv ==
  /\ IsInjective(store)
  /\ \A r \in Runs : ~Busy(r) => buffer[r] = <<>>
  /\ \A r, q \in Runs : Busy(r) /\ Busy(q) => r = q
  /\ (\A r \in Runs : ~Busy(r)) => UpTo(store, CursorTime)
  /\ \A r \in Runs : Busy(r) => StoresOnce(r)

-----------------------------------------------------------------------------
(* Sequences and sets.                                                     *)

LEMMA LesserOfTwo ==
  ASSUME NEW a \in Nat, NEW b \in Nat
  PROVE  Min({a, b}) = IF a <= b THEN a ELSE b
<1> DEFINE m == IF a <= b THEN a ELSE b
<1>1. m \in {a, b} /\ \A y \in {a, b} : m <= y
  OBVIOUS
<1>2. \A x \in {a, b} : (\A y \in {a, b} : x <= y) => x = m
  OBVIOUS
<1> QED BY <1>1, <1>2 DEF Min

LEMMA NewestIs ==
  ASSUME NEW S \in SUBSET Nat, NEW m \in S, \A y \in S : y <= m
  PROVE  Newest(S) = m
<1>1. m \in S /\ \A y \in S : m >= y
  OBVIOUS
<1>2. \A x \in S : (\A y \in S : x >= y) => x = m
  OBVIOUS
<1> QED BY <1>1, <1>2 DEF Newest, Max

LEMMA Joined ==
  ASSUME NEW S, NEW s \in Seq(S), NEW t \in Seq(S)
  PROVE  /\ s \o t \in Seq(S)
         /\ ToSet(s \o t) = ToSet(s) \cup ToSet(t)
         /\ IsInjective(s \o t) <=>
              IsInjective(s) /\ IsInjective(t) /\ ToSet(s) \cap ToSet(t) = {}
<1> DEFINE st == s \o t
           m == Len(s)
           n == Len(t)
<1>1. /\ DOMAIN s = 1..m /\ DOMAIN t = 1..n /\ m \in Nat /\ n \in Nat
      /\ st \in Seq(S) /\ DOMAIN st = 1..(m + n)
      /\ \A i \in 1..(m + n) : st[i] = IF i <= m THEN s[i] ELSE t[i - m]
  BY ConcatProperties, LenProperties
<1> HIDE DEF st, m, n
<1>2. \A i \in 1..m : i \in 1..(m + n) /\ st[i] = s[i]
  BY <1>1
<1>3. \A i \in 1..n : m + i \in 1..(m + n) /\ st[m + i] = t[i]
  BY <1>1
<1>4. \A i \in 1..(m + n) :
        \/ i \in 1..m /\ st[i] = s[i]
        \/ i - m \in 1..n /\ i = m + (i - m) /\ st[i] = t[i - m]
  BY <1>1
<1>5. ToSet(st) = ToSet(s) \cup ToSet(t)
  <2>1. ASSUME NEW x \in ToSet(st) PROVE x \in ToSet(s) \cup ToSet(t)
    BY <1>1, <1>4, <2>1 DEF ToSet
  <2>2. ASSUME NEW x \in ToSet(s) \cup ToSet(t) PROVE x \in ToSet(st)
    <3>1. CASE x \in ToSet(s)
      BY <1>1, <1>2, <3>1 DEF ToSet
    <3>2. CASE x \in ToSet(t)
      BY <1>1, <1>3, <3>2 DEF ToSet
    <3> QED BY <2>2, <3>1, <3>2
  <2> QED BY <2>1, <2>2
<1>6. ASSUME IsInjective(st)
      PROVE  IsInjective(s) /\ IsInjective(t) /\ ToSet(s) \cap ToSet(t) = {}
  <2>1. IsInjective(s)
    BY <1>1, <1>2, <1>6 DEF IsInjective
  <2>2. ASSUME NEW i \in 1..n, NEW k \in 1..n, t[i] = t[k]
        PROVE  i = k
    <3>1. m + i = m + k
      BY <1>1, <1>3, <1>6, <2>2 DEF IsInjective
    <3> QED BY <1>1, <3>1
  <2>3. ASSUME NEW i \in 1..m, NEW k \in 1..n
        PROVE  s[i] # t[k]
    <3>1. i # m + k
      BY <1>1
    <3> QED BY <1>1, <1>2, <1>3, <1>6, <3>1 DEF IsInjective
  <2>4. IsInjective(t)
    BY <1>1, <2>2 DEF IsInjective
  <2>5. ToSet(s) \cap ToSet(t) = {}
    BY <1>1, <2>3 DEF ToSet
  <2> QED BY <2>1, <2>4, <2>5
<1>7. ASSUME IsInjective(s), IsInjective(t), ToSet(s) \cap ToSet(t) = {}
      PROVE  IsInjective(st)
  <2> SUFFICES ASSUME NEW i \in 1..(m + n), NEW k \in 1..(m + n), st[i] = st[k]
               PROVE  i = k
    BY <1>1 DEF IsInjective
  <2>1. \A a \in 1..m, b \in 1..n : s[a] # t[b]
    BY <1>1, <1>7 DEF ToSet
  <2>2. CASE i \in 1..m /\ k \in 1..m
    BY <1>1, <1>2, <1>7, <2>2 DEF IsInjective
  <2>3. CASE i \notin 1..m /\ k \notin 1..m
    <3>1. i - m \in 1..n /\ k - m \in 1..n /\ t[i - m] = t[k - m]
      BY <1>4, <2>3
    <3>2. i - m = k - m
      BY <1>1, <1>7, <3>1 DEF IsInjective
    <3> QED BY <1>1, <3>2
  <2>4. CASE i \in 1..m /\ k \notin 1..m
    <3>1. st[i] = s[i] /\ k - m \in 1..n /\ st[k] = t[k - m]
      BY <1>2, <1>4, <2>4
    <3> QED BY <2>1, <2>4, <3>1
  <2>5. CASE i \notin 1..m /\ k \in 1..m
    <3>1. st[k] = s[k] /\ i - m \in 1..n /\ st[i] = t[i - m]
      BY <1>2, <1>4, <2>5
    <3> QED BY <2>1, <2>5, <3>1
  <2> QED BY <2>2, <2>3, <2>4, <2>5
<1> QED BY <1>1, <1>5, <1>6, <1>7 DEF st

(* An initial part and the rest are the whole. *)
LEMMA Split ==
  ASSUME NEW S, NEW s \in Seq(S), NEW n \in 1..Len(s)
  PROVE  /\ SubSeq(s, 1, n) \in Seq(S) /\ SubSeq(s, n + 1, Len(s)) \in Seq(S)
         /\ SubSeq(s, 1, n) \o SubSeq(s, n + 1, Len(s)) = s
<1> DEFINE a == SubSeq(s, 1, n)
           b == SubSeq(s, n + 1, Len(s))
           m == Len(s)
<1>1. m \in Nat /\ n \in Nat /\ n <= m /\ \A i \in 1..m : s[i] \in S
  BY LenProperties
<1>2. a \in Seq(S) /\ Len(a) = n /\ \A i \in 1..n : a[i] = s[i]
  BY <1>1, SubSeqProperties
<1>3. b \in Seq(S) /\ Len(b) = m - n /\ \A i \in 1..(m - n) : b[i] = s[n + i]
  BY <1>1, SubSeqProperties
<1> HIDE DEF a, b
<1>4. /\ a \o b \in Seq(S) /\ Len(a \o b) = Len(a) + Len(b)
      /\ \A i \in 1..(Len(a) + Len(b)) : (a \o b)[i] = IF i <= Len(a) THEN a[i] ELSE b[i - Len(a)]
  BY <1>2, <1>3, ConcatProperties
<1> HIDE DEF m
<1>5. /\ Len(a \o b) = m
      /\ \A i \in 1..m : (a \o b)[i] = IF i <= n THEN a[i] ELSE b[i - n]
  BY <1>1, <1>2, <1>3, <1>4
<1>6. ASSUME NEW i \in 1..m
      PROVE  (a \o b)[i] = s[i]
  <2>1. CASE i <= n
    BY <1>1, <1>2, <1>5, <2>1
  <2>2. CASE i > n
    <3>1. i - n \in 1..(m - n) /\ n + (i - n) = i
      BY <1>1, <2>2
    <3> QED BY <1>1, <1>3, <1>5, <2>2, <3>1, SMTT(30)
  <2>3. i <= n \/ i > n
    BY <1>1
  <2> QED BY <2>1, <2>2, <2>3
<1>7. a \o b = s
  BY <1>4, <1>5, <1>6, SeqEqual DEF m
<1> QED BY <1>2, <1>3, <1>7 DEF a, b

(* A set of numbers that holds every number below one of its own. *)
LEMMA DownwardClosed ==
  ASSUME NEW n \in Nat, NEW K \in SUBSET (1..n),
         \A k \in K : \A j \in 1..k : j \in K
  PROVE  Cardinality(K) \in 0..n /\ K = 1..Cardinality(K)
<1> DEFINE Out == {m \in Nat : m + 1 \notin K}
<1>1. n \in Out /\ Out \subseteq Nat
  OBVIOUS
<1> HIDE DEF Out
<1>2. \E m \in Out : \A k \in Out : ~(<<k, m>> \in OpToRel(<, Nat))
  BY <1>1, WFMin, NatLessThanWellFounded
<1>3. PICK m \in Out : \A k \in Out : ~(k < m)
  BY <1>1, <1>2 DEF OpToRel
<1>4. m \in Nat /\ \A k \in Out : m <= k
  BY <1>1, <1>3
<1>5. ASSUME NEW k \in 1..m PROVE k \in K
  <2>1. k - 1 \in Nat /\ ~(m <= k - 1) /\ (k - 1) + 1 = k
    BY <1>4
  <2>2. k - 1 \notin Out
    BY <1>4, <2>1
  <2> QED BY <2>1, <2>2 DEF Out
<1>6. ASSUME NEW k \in K, k \notin 1..m PROVE FALSE
  <2>1. k \in Nat /\ m + 1 \in 1..k
    BY <1>4, <1>6
  <2>2. m + 1 \notin K
    BY <1>3 DEF Out
  <2> QED BY <2>1, <2>2
<1>7. K = 1..m
  BY <1>5, <1>6
<1>8. m <= n
  BY <1>1, <1>4
<1>9. Cardinality(1..m) = m
  BY <1>4, FS_Interval
<1> QED BY <1>4, <1>7, <1>8, <1>9

-----------------------------------------------------------------------------
(* What a request for a page brings.                                       *)

LEMMA PageBounds ==
  ASSUME NEW r \in Runs, page[r] \in Nat \ {0}
  PROVE  /\ Unread(r) \in Nat /\ page[r] * PageSize = Unread(r) + PageSize
         /\ page[r] = 1 => Unread(r) = 0
         /\ \A p : p = page[r] + 1 => (p - 1) * PageSize = Unread(r) + PageSize
BY BackfillAssumption DEF Unread

LEMMA LastPage ==
  ASSUME NEW n \in Nat, NEW p \in Nat \ {0}, p >= (n + PageSize - 1) \div PageSize
  PROVE  n <= p * PageSize
BY BackfillAssumption

(* The list starts with the newest observation and ends where those that   *)
(* started before the time asked for begin.                                *)
LEMMA ListingIs ==
  ASSUME InOrderOfStart, NEW from \in Nat
  PROVE  \E c \in 0..Len(source) :
           /\ Listing(from) \in Seq(Places) /\ Len(Listing(from)) = c
           /\ \A k \in 1..c : Listing(from)[k] = Len(source) + 1 - k
           /\ \A i \in Places : from <= source[i] <=> Len(source) + 1 - i <= c
<1> DEFINE n == Len(source)
           K == {k \in 1..n : source[n + 1 - k] >= from}
           c == Cardinality(K)
           L == [k \in 1..c |-> n + 1 - k]
<1>1. n \in Nat /\ \A i \in 1..n : source[i] \in Nat
  BY DEF InOrderOfStart
<1>2. ASSUME NEW k \in K, NEW j \in 1..k
      PROVE  j \in K
  <2>1. n + 1 - k \in 1..n /\ n + 1 - j \in 1..n /\ n + 1 - k <= n + 1 - j /\ j \in 1..n
    BY <1>1
  <2>2. source[n + 1 - k] <= source[n + 1 - j]
    BY <2>1 DEF InOrderOfStart, Places
  <2> QED BY <1>1, <2>1, <2>2
<1>3. c \in 0..n /\ K = 1..c
  <2> HIDE DEF c
  <2>1. Cardinality(K) \in 0..n /\ K = 1..Cardinality(K)
    <3>1. K \in SUBSET (1..n) /\ \A k \in K : \A j \in 1..k : j \in K
      BY <1>2
    <3> HIDE DEF K
    <3> QED BY <1>1, <3>1, DownwardClosed
  <2> QED BY <2>1 DEF c
<1>4. Listing(from) = L
  BY DEF Listing
<1> HIDE DEF c
<1>5. L \in Seq(1..n) /\ Len(L) = c /\ \A k \in 1..c : L[k] = n + 1 - k
  <2>1. \A k \in 1..c : n + 1 - k \in 1..n
    BY <1>1, <1>3
  <2> QED BY <1>1, <1>3, <2>1
<1>6. ASSUME NEW i \in 1..n
      PROVE  from <= source[i] <=> n + 1 - i <= c
  <2>1. n + 1 - i \in 1..n /\ n + 1 - (n + 1 - i) = i
    BY <1>1
  <2>2. n + 1 - i \in K <=> source[i] >= from
    BY <1>1, <2>1
  <2>3. n + 1 - i \in K <=> n + 1 - i <= c
    <3> DEFINE x == n + 1 - i
    <3>1. x \in 1..n
      BY <2>1
    <3> HIDE DEF n, K, x
    <3>2. x \in K <=> x <= c
      BY <1>1, <1>3, <3>1
    <3> QED BY <3>2 DEF x
  <2> QED BY <1>1, <2>2, <2>3
<1> QED BY <1>3, <1>4, <1>5, <1>6 DEF Places

LEMMA PageIs ==
  ASSUME InOrderOfStart, NEW r \in Runs, page[r] \in Nat \ {0}, since[r] \in Nat
  PROVE  LET rows == NewRows(r, Rows(r))
             top == Len(source) - Unread(r)
             bottom == top - PageSize
             last == Rows(r) = <<>> \/ page[r] >= TotalPages(Listing(since[r]))
         IN  /\ rows \in Seq(Places) /\ IsInjective(rows)
             /\ \A i \in Places :
                  i \in ToSet(rows) <=> bottom < i /\ i <= top /\ since[r] < source[i]
             /\ \/ ToSet(rows) = {}
                \/ \E i \in ToSet(rows) : \A k \in ToSet(rows) : source[k] <= source[i]
             /\ last => \A i \in Places : since[r] < source[i] => bottom < i
             /\ ~last /\ page[r] = 1 => Places # {}
<1> DEFINE n == Len(source)
           s == since[r]
           a == Unread(r)
           rows == Rows(r)
           D == {k \in DOMAIN rows : s = 0 \/ source[rows[k]] # s}
           d == Cardinality(D)
           kept == NewRows(r, rows)
<1>1. n \in Nat /\ \A i \in 1..n : source[i] \in Nat \ {0}
  BY DEF InOrderOfStart
<1>2. /\ a \in Nat /\ page[r] * PageSize = a + PageSize /\ (page[r] = 1 => a = 0)
      /\ PageSize \in Nat \ {0}
  BY PageBounds, BackfillAssumption
<1>3. PICK c \in 0..n :
           /\ Listing(s) \in Seq(Places) /\ Len(Listing(s)) = c
           /\ \A k \in 1..c : Listing(s)[k] = n + 1 - k
           /\ \A i \in Places : s <= source[i] <=> n + 1 - i <= c
  BY ListingIs
<1> DEFINE m == IF a + PageSize <= c THEN a + PageSize ELSE c
           l == IF a + 1 <= m THEN m - a ELSE 0
<1>a. /\ c \in Nat /\ c <= n /\ m \in Nat /\ l \in Nat /\ m <= c /\ m <= a + PageSize
      /\ \A k \in 1..l : a + k \in 1..m
      /\ \A k \in Nat : k > a /\ k <= c /\ k <= a + PageSize => k - a \in 1..l
      /\ (l = 0 => c <= a)
  <2>1. n \in Nat /\ a \in Nat /\ c \in 0..n /\ PageSize \in Nat \ {0}
    BY <1>1, <1>2
  <2> HIDE DEF n, a
  <2> QED BY <2>1
<1>4. /\ rows \in Seq(Places) /\ Len(rows) = l
      /\ \A k \in 1..l : rows[k] = n + 1 - (a + k) /\ s <= source[rows[k]]
  <2>1. rows = SubSeq(Listing(s), a + 1, m)
    <3>1. Min({page[r] * PageSize, c}) = m
      <4>1. page[r] * PageSize \in Nat /\ c \in Nat
        BY <1>1, <1>2, <1>3
      <4> QED BY <1>2, <4>1, LesserOfTwo
    <3> QED BY <1>3, <3>1 DEF Rows, PageOf, Unread
  <2>2. a + 1 \in Int /\ m \in Int /\ m <= c /\ \A k \in (a + 1)..m : Listing(s)[k] \in Places
    <3>1. \A k \in (a + 1)..m : k \in 1..c
      BY <1>2, <1>3
    <3>2. \A k \in 1..c : Listing(s)[k] \in Places
      BY <1>3, ElementOfSeq
    <3> QED BY <1>2, <1>3, <3>1, <3>2
  <2> HIDE DEF m
  <2>3. /\ rows \in Seq(Places)
        /\ Len(rows) = IF a + 1 <= m THEN m - (a + 1) + 1 ELSE 0
        /\ \A k \in 1..(m - (a + 1) + 1) : rows[k] = Listing(s)[a + 1 + k - 1]
    BY <2>1, <2>2, SubSeqProperties
  <2> HIDE DEF rows
  <2>4. ASSUME NEW k \in 1..l
        PROVE  rows[k] = n + 1 - (a + k) /\ s <= source[rows[k]]
    <3>1. /\ k \in 1..(m - (a + 1) + 1) /\ a + 1 + k - 1 = a + k /\ a + k \in 1..c
          /\ n + 1 - (a + k) \in 1..n /\ n + 1 - (n + 1 - (a + k)) <= c
      <4>1. k \in Nat /\ a + k \in 1..m /\ k <= m - a
        BY <1>1, <1>2, <1>a, <2>4
      <4> HIDE DEF n, a, m
      <4> QED BY <1>1, <1>2, <1>a, <2>4, <4>1
    <3>2. rows[k] = n + 1 - (a + k)
      BY <1>3, <2>3, <3>1
    <3> QED BY <1>3, <3>1, <3>2 DEF Places
  <2>5. Len(rows) = l
    BY <1>2, <2>2, <2>3
  <2> QED BY <2>3, <2>4, <2>5
<1> HIDE DEF rows
<1>5. DOMAIN rows = 1..l /\ l \in Nat /\ \A k \in 1..l : rows[k] \in Places
  BY <1>4, LenProperties, ElementOfSeq
<1>6. d \in 0..l /\ D = 1..d
  <2>1. ASSUME NEW k \in D, NEW j \in 1..k
        PROVE  j \in D
    <3>1. k \in 1..l /\ j \in 1..l /\ rows[k] <= rows[j] /\ rows[k] \in Places /\ rows[j] \in Places
      <4>1. k \in 1..l /\ j \in 1..l /\ j <= k /\ k \in Nat /\ j \in Nat
        BY <1>5, <1>a
      <4>2. rows[k] = n + 1 - (a + k) /\ rows[j] = n + 1 - (a + j)
        BY <1>4, <4>1
      <4> QED BY <1>1, <1>2, <1>5, <4>1, <4>2
    <3>2. source[rows[k]] <= source[rows[j]] /\ s <= source[rows[k]]
      BY <1>4, <3>1 DEF InOrderOfStart
    <3>3. s = 0 \/ source[rows[j]] # s
      BY <1>1, <3>1, <3>2 DEF Places
    <3> QED BY <1>5, <3>1, <3>3
  <2>2. D \in SUBSET (1..l) /\ \A k \in D : \A j \in 1..k : j \in D
    BY <1>5, <2>1
  <2> HIDE DEF D, l
  <2> QED BY <1>5, <2>2, DownwardClosed
<1>7. kept = SubSeq(rows, 1, d)
  BY DEF NewRows
<1>8. ASSUME NEW k \in 1..l
      PROVE  k \in 1..d <=> s < source[rows[k]]
  <2>1. source[rows[k]] \in Nat \ {0} /\ s <= source[rows[k]]
    BY <1>1, <1>4, <1>5 DEF Places
  <2>2. k \in D <=> s = 0 \/ source[rows[k]] # s
    BY <1>5
  <2> QED BY <1>6, <2>1, <2>2
<1> HIDE DEF d, D
<1>9. /\ kept \in Seq(Places) /\ DOMAIN kept = 1..d
      /\ \A k \in 1..d : kept[k] = rows[k]
  <2>1. \A k \in 1..d : rows[k] \in Places
    BY <1>5, <1>6
  <2>2. /\ kept \in Seq(Places) /\ Len(kept) = d
        /\ \A k \in 1..d : kept[k] = rows[k]
    BY <1>6, <1>7, <2>1, SubSeqProperties
  <2> QED BY <2>2, LenProperties
<1> HIDE DEF kept
<1>10. IsInjective(kept)
  <2> SUFFICES ASSUME NEW i \in 1..d, NEW k \in 1..d, kept[i] = kept[k]
               PROVE  i = k
    BY <1>9 DEF IsInjective
  <2>1. n + 1 - (a + i) = n + 1 - (a + k) /\ i \in Nat /\ k \in Nat
    BY <1>4, <1>5, <1>6, <1>9
  <2> QED BY <1>1, <1>2, <2>1
<1>11. ASSUME NEW i \in Places
       PROVE  i \in ToSet(kept) <=> n - a - PageSize < i /\ i <= n - a /\ s < source[i]
  <2>1. i \in 1..n /\ source[i] \in Nat
    BY <1>1 DEF Places
  <2>2. ASSUME i \in ToSet(kept)
        PROVE  n - a - PageSize < i /\ i <= n - a /\ s < source[i]
    <3>1. PICK k \in 1..d : i = rows[k]
      BY <1>9, <2>2 DEF ToSet
    <3>2. k \in 1..l /\ i = n + 1 - (a + k) /\ s < source[i]
      BY <1>4, <1>5, <1>6, <1>8, <3>1
    <3>3. k \in Nat /\ k >= 1 /\ a + k <= a + PageSize
      BY <1>2, <1>a, <3>2
    <3> HIDE DEF n, a
    <3> QED BY <1>1, <1>2, <3>2, <3>3
  <2>3. ASSUME n - a - PageSize < i, i <= n - a, s < source[i]
        PROVE  i \in ToSet(kept)
    <3> DEFINE k == n + 1 - a - i
    <3>1. n + 1 - i <= c
      BY <1>3, <2>1, <2>3
    <3>2. k \in 1..l /\ n + 1 - (a + k) = i
      <4>1. n + 1 - i \in Nat /\ n + 1 - i > a /\ n + 1 - i <= a + PageSize
        BY <1>1, <1>2, <2>1, <2>3
      <4>2. (n + 1 - i) - a \in 1..l
        BY <1>a, <3>1, <4>1
      <4> HIDE DEF l
      <4> QED BY <1>1, <1>2, <2>1, <4>2, SMTT(30)
    <3> HIDE DEF k
    <3>3. rows[k] = i /\ k \in 1..d
      BY <1>4, <1>8, <2>3, <3>2
    <3> QED BY <1>9, <3>3 DEF ToSet
  <2> QED BY <2>2, <2>3
<1> DEFINE last == rows = <<>> \/ page[r] >= TotalPages(Listing(s))
<1>12. ASSUME last, NEW i \in Places, s < source[i]
       PROVE  n - a - PageSize < i
  <2>1. i \in 1..n /\ source[i] \in Nat
    BY <1>1 DEF Places
  <2>2. n + 1 - i <= c
    BY <1>3, <1>12, <2>1
  <2>3. c <= a + PageSize
    <3>1. CASE rows = <<>>
      BY <1>2, <1>3, <1>4, <3>1
    <3>2. CASE page[r] >= TotalPages(Listing(s))
      <4>1. c \in Nat /\ page[r] >= (c + PageSize - 1) \div PageSize
        BY <1>3, <3>2 DEF TotalPages
      <4> QED BY <1>2, <4>1, LastPage
    <3> QED BY <1>12, <3>1, <3>2
  <2> QED BY <1>1, <1>2, <1>3, <2>1, <2>2, <2>3
<1>13. ASSUME ~last
       PROVE  Places # {}
  <2>1. 1 \in 1..l
    BY <1>4, <1>5, <1>13, EmptySeq
  <2> QED BY <1>5, <2>1
<1>14. \/ ToSet(kept) = {}
       \/ \E i \in ToSet(kept) : \A k \in ToSet(kept) : source[k] <= source[i]
  <2>1. CASE d = 0
    BY <1>9, <2>1 DEF ToSet
  <2>2. CASE d # 0
    <3>1. 1 \in 1..d
      BY <1>6, <2>2
    <3>2. ASSUME NEW k \in 1..d
          PROVE  source[kept[k]] <= source[kept[1]]
      <4>1. k \in 1..l /\ 1 \in 1..l /\ 1 <= k
        BY <1>5, <1>6, <3>1
      <4>2. rows[k] = n + 1 - (a + k) /\ rows[1] = n + 1 - (a + 1)
        BY <1>4, <4>1
      <4>3. rows[k] \in Places /\ rows[1] \in Places /\ rows[k] <= rows[1]
        BY <1>1, <1>2, <1>5, <4>1, <4>2
      <4> QED BY <1>9, <3>1, <4>3 DEF InOrderOfStart
    <3> QED BY <1>9, <3>1, <3>2 DEF ToSet
  <2> QED BY <2>1, <2>2
<1> QED BY <1>9, <1>10, <1>11, <1>12, <1>13, <1>14 DEF kept, rows

(* A page is added to the buffer, and the newest start is kept: what the   *)
(* run goes on with, or the end of its loop.                               *)
LEMMA AnswerDoes ==
  ASSUME BackfillTypes, NEW r \in Runs, Answer(r)
  PROVE  \E rows \in Seq(Places), h \in Nat, top \in Int :
           /\ top = Len(source) - Unread(r)
           /\ IsInjective(rows)
           /\ \A i \in Places :
                i \in ToSet(rows) <=> top - PageSize < i /\ i <= top /\ since[r] < source[i]
           /\ buffer' = [buffer EXCEPT ![r] = @ \o rows]
           /\ high' = [high EXCEPT ![r] = h]
           /\ high[r] <= h /\ \A i \in ToSet(rows) : source[i] <= h
           /\ h = high[r] \/ \E i \in ToSet(rows) : h = source[i]
           /\ phase[r] = "fetch" /\ UNCHANGED <<source, late, store, cursor, since, disturbed>>
           /\ \/ /\ phase' = [phase EXCEPT ![r] = "close"]
                 /\ status' = [status EXCEPT ![r] = 0] /\ page' = page
                 /\ MaxPages = 0 =>
                      \A i \in Places : since[r] < source[i] => top - PageSize < i
              \/ /\ UNCHANGED <<phase, status>>
                 /\ page' = [page EXCEPT ![r] = @ + 1]
                 /\ page[r] = 1 => Places # {}
<1> DEFINE rows == NewRows(r, Rows(r))
           h == Newest({high[r]} \cup {source[i] : i \in ToSet(rows)})
           top == Len(source) - Unread(r)
           last == Rows(r) = <<>> \/ page[r] >= TotalPages(Listing(since[r]))
<1>1. /\ InOrderOfStart /\ page[r] \in Nat \ {0} /\ since[r] \in Nat /\ high[r] \in Nat
      /\ \A i \in Places : source[i] \in Nat
  BY DEF BackfillTypes, InOrderOfStart, Places
<1>2. /\ rows \in Seq(Places) /\ IsInjective(rows)
      /\ \A i \in Places :
           i \in ToSet(rows) <=> top - PageSize < i /\ i <= top /\ since[r] < source[i]
      /\ \/ ToSet(rows) = {}
         \/ \E i \in ToSet(rows) : \A k \in ToSet(rows) : source[k] <= source[i]
      /\ last => \A i \in Places : since[r] < source[i] => top - PageSize < i
      /\ ~last /\ page[r] = 1 => Places # {}
  BY <1>1, PageIs
<1>3. top \in Int
  BY <1>1, PageBounds DEF InOrderOfStart
<1>4. /\ phase[r] = "fetch" /\ UNCHANGED <<source, late, store, cursor, since, disturbed>>
      /\ buffer' = [buffer EXCEPT ![r] = @ \o rows] /\ high' = [high EXCEPT ![r] = h]
  BY DEF Answer, world
<1>5. \/ /\ phase' = [phase EXCEPT ![r] = "close"]
         /\ status' = [status EXCEPT ![r] = 0] /\ page' = page
         /\ MaxPages = 0 => last
      \/ /\ UNCHANGED <<phase, status>>
         /\ page' = [page EXCEPT ![r] = @ + 1]
         /\ ~last
  BY DEF Answer, Exit
<1> HIDE DEF rows, last, top
<1>6. ToSet(rows) \subseteq Places
  BY <1>2, ElementOfSeq, LenProperties DEF ToSet
<1>7. /\ h \in Nat /\ high[r] <= h /\ \A i \in ToSet(rows) : source[i] <= h
      /\ h = high[r] \/ \E i \in ToSet(rows) : h = source[i]
  <2> DEFINE S == {high[r]} \cup {source[i] : i \in ToSet(rows)}
  <2>1. S \in SUBSET Nat
    BY <1>1, <1>6
  <2>2. \E m \in S : \A y \in S : y <= m
    <3>1. CASE ToSet(rows) = {}
      BY <1>1, <3>1
    <3>2. CASE ToSet(rows) # {}
      <4>1. PICK i \in ToSet(rows) : \A k \in ToSet(rows) : source[k] <= source[i]
        BY <1>2, <3>2
      <4>2. source[i] \in Nat /\ \A k \in ToSet(rows) : source[k] \in Nat
        BY <1>1, <1>6
      <4>3. CASE high[r] <= source[i]
        BY <4>1, <4>2, <4>3
      <4>4. CASE source[i] <= high[r]
        BY <1>1, <4>1, <4>2, <4>4
      <4> QED BY <1>1, <4>2, <4>3, <4>4
    <3> QED BY <3>1, <3>2
  <2>3. PICK m \in S : \A y \in S : y <= m
    BY <2>2
  <2>4. h = m
    BY <2>1, <2>3, NewestIs
  <2> HIDE DEF h
  <2> QED BY <2>1, <2>3, <2>4
<1> HIDE DEF h
<1> QED BY <1>2, <1>3, <1>4, <1>5, <1>7 DEF top

(* A new observation is later than any time noted so far, or is late.      *)
LEMMA ArriveDoes ==
  ASSUME BackfillTypes, Arrive
  PROVE  LET n == Len(source) + 1
         IN  /\ InOrderOfStart' /\ Places' = Places \cup {n} /\ Len(source') = n
             /\ n \in Nat /\ n \notin Places
             /\ \A i \in Places : source'[i] = source[i] /\ source[i] <= source'[n] /\ i < n
             /\ \A i \in Places : i \in late' <=> i \in late
             /\ n \notin late' => \A i \in Places : source[i] < source'[n]
             /\ UNCHANGED <<store, cursor, phase, since, page, high, buffer, status>>
<1> DEFINE n == Len(source) + 1
           newest == Newest(ToSet(source))
<1>1. /\ source \in Seq(Nat \ {0}) /\ Len(source) \in Nat /\ Places = 1..Len(source)
      /\ DOMAIN source = Places
      /\ \A i \in Places : source[i] \in Nat \ {0}
      /\ \A i, k \in Places : i <= k => source[i] <= source[k]
  BY DEF BackfillTypes, InOrderOfStart, Places
<1>2. newest \in Nat /\ \A i \in Places : source[i] <= newest
  <2>1. CASE Places = {}
    <3>1. ToSet(source) = {}
      BY <1>1, <2>1 DEF ToSet
    <3> QED BY <2>1, <3>1 DEF Newest
  <2>2. CASE Places # {}
    <3>1. Len(source) \in Places /\ \A i \in Places : i <= Len(source)
      BY <1>1, <2>2
    <3>2. ToSet(source) = {source[i] : i \in Places}
      BY <1>1 DEF ToSet
    <3>3. /\ source[Len(source)] \in ToSet(source) /\ ToSet(source) \in SUBSET Nat
          /\ \A y \in ToSet(source) : y <= source[Len(source)]
      BY <1>1, <3>1, <3>2
    <3>4. newest = source[Len(source)]
      BY <3>3, NewestIs
    <3> QED BY <1>1, <3>1, <3>4
  <2> QED BY <2>1, <2>2
<1>3. PICK start \in {newest, newest + 1} \ {0} :
        /\ source' = Append(source, start)
        /\ late' = late \cup (IF start > newest THEN {} ELSE {n})
  BY DEF Arrive
<1> HIDE DEF newest
<1>4. start \in Nat \ {0} /\ (start > newest \/ start = newest)
  BY <1>2
<1>5. /\ source' \in Seq(Nat \ {0}) /\ Len(source') = n /\ source'[n] = start
      /\ \A i \in Places : source'[i] = source[i]
  BY <1>1, <1>3, <1>4
<1>6. Places' = Places \cup {n} /\ n \notin Places /\ \A i \in Places : i < n
  <2>1. Places' = 1..n
    BY <1>5 DEF Places
  <2> QED BY <1>1, <2>1
<1>7. \A i \in Places : source[i] <= start
  BY <1>1, <1>2, <1>4
<1>8. \A i, k \in Places' : i <= k => source'[i] <= source'[k]
  BY <1>1, <1>4, <1>5, <1>6, <1>7
<1>9. n \notin late' => \A i \in Places : source[i] < source'[n]
  BY <1>1, <1>2, <1>3, <1>4, <1>5
<1>10. UNCHANGED <<store, cursor, phase, since, page, high, buffer, status>>
  BY DEF Arrive, locals
<1>11. InOrderOfStart'
  BY <1>5, <1>8 DEF InOrderOfStart
<1> QED BY <1>1, <1>3, <1>5, <1>6, <1>7, <1>9, <1>10, <1>11

-----------------------------------------------------------------------------
(* The steps of the backfill, whoever starts a run.                        *)

RunStep(r) == Quiet(r) \/ Answer(r) \/ End(r) \/ Kill(r)

LEMMA StepOfBackfill ==
  ASSUME [Next]_vars
  PROVE  UNCHANGED backfillVars \/ Arrive \/ \E r \in Runs : RunStep(r)
<1>1. CASE \E j \in Jobs : CommandStep(j)
  BY <1>1, CastsAssumption DEF CommandStep, RunStep
<1>2. CASE \E r \in Runs : Foreground(r)
  BY <1>2 DEF Foreground, RunStep
<1>3. CASE \/ \E j \in Jobs : Spawn(j) \/ Shell(j) \/ NumberReused(j)
           \/ \E c \in Clients : Asks(c) \/ Answers(c)
           \/ UNCHANGED vars
  BY <1>3 DEF Spawn, Shell, NumberReused, Asks, Answers, vars
<1>4. CASE Arrival
  BY <1>4 DEF Arrival
<1> QED BY <1>1, <1>2, <1>3, <1>4 DEF Next

(* A part of the buffer, or all of it, is in the file. *)
LEMMA FlushDoes ==
  ASSUME BackfillTypes, NEW r \in Runs, Flush(r) \/ Close(r)
  PROVE  \E part \in Seq(Places), rest \in Seq(Places) :
           /\ buffer[r] = part \o rest
           /\ store' = store \o part /\ buffer' = [buffer EXCEPT ![r] = rest]
           /\ Close(r) => rest = <<>>
<1>1. buffer \in [Runs -> Seq(Places)] /\ buffer[r] \in Seq(Places)
  BY DEF BackfillTypes
<1>2. CASE Flush(r)
  <2>1. PICK n \in 1..Len(buffer[r]) :
          /\ store' = store \o SubSeq(buffer[r], 1, n)
          /\ buffer' = [buffer EXCEPT ![r] = SubSeq(buffer[r], n + 1, Len(buffer[r]))]
    BY <1>2 DEF Flush
  <2>2. ~Close(r)
    BY <1>2 DEF Flush, Close
  <2> QED BY <1>1, <2>1, <2>2, Split
<1>3. CASE Close(r)
  <2>1. store' = store \o buffer[r] /\ buffer' = [buffer EXCEPT ![r] = <<>>]
    BY <1>3 DEF Close
  <2>2. <<>> \in Seq(Places) /\ buffer[r] = buffer[r] \o <<>>
    BY <1>1, ConcatEmptySeq, EmptySeq
  <2> QED BY <1>1, <2>1, <2>2
<1> QED BY <1>2, <1>3

LEMMA BackfillTypesKept ==
  ASSUME BackfillTypes, UNCHANGED backfillVars \/ Arrive \/ \E r \in Runs : RunStep(r)
  PROVE  BackfillTypes'
<1> USE DEF BackfillTypes
<1>1. CASE UNCHANGED backfillVars
  BY <1>1 DEF backfillVars, world, locals, InOrderOfStart, Reached, Places
<1>2. CASE Arrive
  <2>1. /\ InOrderOfStart' /\ Places \subseteq Places'
        /\ \A i \in Places : source'[i] = source[i]
        /\ UNCHANGED <<store, cursor, phase, since, page, high, buffer>>
    BY <1>2, ArriveDoes
  <2>2. \A t \in Nat : Reached(t) => Reached(t)'
    BY <2>1 DEF Reached
  <2>3. store' \in Seq(Places') /\ buffer' \in [Runs -> Seq(Places')]
    <3>1. Seq(Places) \subseteq Seq(Places')
      BY <2>1, SeqMonotonic
    <3> QED BY <2>1, <3>1
  <2>4. cursor' # NoCursor => Reached(cursor)'
    BY <2>1, <2>2 DEF Reached
  <2>5. \A r \in Runs : Reached(high[r])'
    BY <2>1, <2>2 DEF Reached
  <2> QED BY <2>1, <2>3, <2>4, <2>5
<1>3. ASSUME NEW r \in Runs, RunStep(r)
      PROVE  BackfillTypes'
  <2>1. source' = source /\ late' = late
    BY <1>3 DEF RunStep, Quiet, Begin, Retry, GiveUp, Flush, Close, OpenCursor, WriteCursor,
                Answer, End, Kill, world
  <2>2. Places' = Places /\ InOrderOfStart'
    BY <2>1 DEF Places, InOrderOfStart
  <2>3. \A t : Reached(t) => Reached(t)'
    BY <2>1, <2>2 DEF Reached
  <2>4. <<>> \in Seq(Places) /\ Reached(0)
    BY DEF Reached
  <2>5. CASE \E full \in BOOLEAN : Begin(r, full)
    <3>1. PICK t \in {0, CursorTime} :
            /\ since' = [since EXCEPT ![r] = t] /\ high' = [high EXCEPT ![r] = t]
            /\ phase' = [phase EXCEPT ![r] = "fetch"] /\ UNCHANGED <<store, cursor, page, buffer>>
      BY <2>5 DEF Begin
    <3>2. t \in Nat /\ Reached(t)
      BY <2>4 DEF CursorTime
    <3>3. \A q \in Runs : /\ since'[q] <= high'[q] /\ Reached(high'[q])
                          /\ phase'[q] = "idle" => page'[q] = 1 /\ buffer'[q] = <<>>
      BY <3>1, <3>2
    <3>4. \A q \in Runs : Reached(high[q])'
      BY <2>1, <2>2, <3>3 DEF Reached
    <3>5. cursor' # NoCursor => Reached(cursor)'
      BY <2>1, <2>2, <3>1 DEF Reached
    <3> QED BY <2>2, <3>1, <3>2, <3>3, <3>4, <3>5 DEF Phases
  <2>6. CASE Answer(r)
    <3>1. PICK rows \in Seq(Places), h \in Nat :
            /\ buffer' = [buffer EXCEPT ![r] = @ \o rows] /\ high' = [high EXCEPT ![r] = h]
            /\ high[r] <= h /\ (h = high[r] \/ \E i \in ToSet(rows) : h = source[i])
            /\ phase[r] = "fetch" /\ UNCHANGED <<store, cursor, since>>
            /\ \/ phase' = [phase EXCEPT ![r] = "close"] /\ page' = page
               \/ phase' = phase /\ page' = [page EXCEPT ![r] = @ + 1]
      BY <2>6, AnswerDoes
    <3>2. Reached(h)
      <4>1. CASE \E i \in ToSet(rows) : h = source[i]
        <5>1. ToSet(rows) \subseteq Places
          BY LenProperties, ElementOfSeq DEF ToSet
        <5> QED BY <4>1, <5>1 DEF Reached
      <4> QED BY <3>1, <4>1
    <3>3. buffer[r] \o rows \in Seq(Places)
      BY ConcatProperties
    <3>4. \A q \in Runs : since'[q] <= high'[q] /\ Reached(high'[q])
      BY <3>1, <3>2, SMTT(30)
    <3>5. \A q \in Runs : Reached(high[q])'
      BY <2>1, <2>2, <3>4 DEF Reached
    <3>6. cursor' # NoCursor => Reached(cursor)'
      BY <2>1, <2>2, <3>1 DEF Reached
    <3>7. page' \in [Runs -> Nat \ {0}] /\ phase' \in [Runs -> Phases]
      <4>1. page[r] \in Nat \ {0}
        OBVIOUS
      <4>2. page[r] + 1 \in Nat \ {0}
        BY <4>1
      <4>3. "close" \in Phases
        BY DEF Phases
      <4> QED BY <3>1, <4>2, <4>3
    <3>8. \A q \in Runs : phase'[q] = "idle" => page'[q] = 1 /\ buffer'[q] = <<>>
      BY <3>1
    <3> QED BY <2>2, <3>1, <3>3, <3>4, <3>5, <3>6, <3>7, <3>8
  <2>7. CASE Flush(r) \/ Close(r)
    <3>1. PICK part \in Seq(Places), rest \in Seq(Places) :
            store' = store \o part /\ buffer' = [buffer EXCEPT ![r] = rest]
      BY <2>7, FlushDoes
    <3>2. store \o part \in Seq(Places)
      BY ConcatProperties
    <3>3. /\ phase[r] \in {"fetch", "close"} /\ UNCHANGED <<cursor, since, page, high>>
          /\ \/ phase' = phase
             \/ \E p \in {"open cursor", "end"} : phase' = [phase EXCEPT ![r] = p]
      BY <2>7 DEF Flush, Close
    <3>4. \A q \in Runs : phase'[q] = "idle" => page'[q] = 1 /\ buffer'[q] = <<>>
      BY <3>1, <3>3
    <3>5. \A q \in Runs : Reached(high[q])'
      BY <2>1, <2>2, <3>3 DEF Reached
    <3>6. cursor' # NoCursor => Reached(cursor)'
      BY <2>1, <2>2, <3>3 DEF Reached
    <3> QED BY <2>2, <3>1, <3>2, <3>3, <3>4, <3>5, <3>6 DEF Phases
  <2>8. CASE Retry(r) \/ GiveUp(r) \/ OpenCursor(r) \/ WriteCursor(r) \/ End(r) \/ Kill(r)
    <3>1. /\ UNCHANGED <<store, since, page, high>> /\ cursor' \in {cursor, 0, high[r]}
          /\ buffer' \in {buffer, [buffer EXCEPT ![r] = <<>>]}
      BY <2>8 DEF Retry, GiveUp, OpenCursor, WriteCursor, End, Kill, locals
    <3>2. \/ phase' = phase
          \/ \E p \in {"close", "write cursor", "end", "over"} : phase' = [phase EXCEPT ![r] = p]
      BY <2>8 DEF Retry, GiveUp, Exit, OpenCursor, WriteCursor, End, Kill
    <3>3. \A q \in Runs : phase'[q] = "idle" => page'[q] = 1 /\ buffer'[q] = <<>>
      BY <3>1, <3>2
    <3>4. \A q \in Runs : Reached(high[q])'
      BY <2>1, <2>2, <3>1 DEF Reached
    <3>5. cursor' \in Nat \cup {NoCursor} /\ (cursor' # NoCursor => Reached(cursor'))
      BY <2>4, <3>1
    <3>6. cursor' # NoCursor => Reached(cursor)'
      BY <2>1, <2>2, <3>5 DEF Reached
    <3> QED BY <2>2, <2>4, <3>1, <3>2, <3>3, <3>4, <3>5, <3>6 DEF Phases
  <2> QED BY <1>3, <2>5, <2>6, <2>7, <2>8 DEF RunStep, Quiet
<1> QED BY <1>1, <1>2, <1>3

-----------------------------------------------------------------------------
(* The cursor does not run ahead of the store.                             *)

(* A run that does nothing loses nothing when others add to the store. *)
LEMMA BystanderCovers ==
  ASSUME NEW q \in Runs, RunCovers(q), UNCHANGED <<source, late>>,
         ToSet(store) \subseteq ToSet(store'),
         UNCHANGED <<phase[q], since[q], page[q], high[q], buffer[q], status[q]>>
  PROVE  RunCovers(q)'
<1>1. Places' = Places /\ Unread(q)' = Unread(q) /\ Len(source') = Len(source)
  BY DEF Places, Unread
<1>2. Covered(since[q])' /\ (Covered(high[q]) => Covered(high[q])')
  BY <1>1 DEF RunCovers, Covered
<1>3. phase'[q] = "fetch" => Has(q, {i \in Places : i > Len(source) - Unread(q)})'
  BY <1>1 DEF RunCovers, Has
<1>4. \A i \in Places : Newcomer(i) => Newcomer(i)'
  BY <1>1 DEF Newcomer
<1>5. phase'[q] = "fetch" /\ page'[q] > 1 =>
        \A i \in Places' \ late' : source'[i] <= high'[q] \/ Newcomer(i)'
  BY <1>1, <1>4 DEF RunCovers
<1>6. phase'[q] = "close" /\ status'[q] = 0 => Has(q, Places)'
  BY <1>1 DEF RunCovers, Has
<1> QED BY <1>2, <1>3, <1>5, <1>6 DEF RunCovers

LEMMA ArrivalCovers ==
  ASSUME BackfillTypes, CoverInv, Arrive
  PROVE  CoverInv'
<1> DEFINE n == Len(source) + 1
<1>1. /\ Places' = Places \cup {n} /\ Len(source') = n /\ n \in Nat /\ n \notin Places
      /\ \A i \in Places : source'[i] = source[i] /\ source[i] <= source'[n] /\ i < n
      /\ \A i \in Places : i \in late' <=> i \in late
      /\ n \notin late' => \A i \in Places : source[i] < source'[n]
      /\ UNCHANGED <<store, cursor, phase, since, page, high, buffer, status>>
  BY ArriveDoes
<1>2. /\ \A i \in Places : source[i] \in Nat \ {0}
      /\ source'[n] \in Nat \ {0} /\ Len(source) \in Nat /\ Places \subseteq Nat
  <2>1. InOrderOfStart'
    BY ArriveDoes
  <2> QED BY <1>1, <2>1 DEF BackfillTypes, InOrderOfStart, Places
<1> HIDE DEF n
<1>3. ASSUME NEW t \in Nat, Reached(t), n \notin late'
      PROVE  ~(source'[n] <= t)
  BY <1>1, <1>2, <1>3 DEF Reached
<1>4. ASSUME NEW t \in Nat, Reached(t), Covered(t)
      PROVE  \A i \in Places' : i \notin late' /\ source'[i] <= t => i \in ToSet(store')
  BY <1>1, <1>3, <1>4 DEF Covered
<1>5. cursor' # NoCursor => Covered(cursor)'
  BY <1>1, <1>4 DEF CoverInv, Covered, BackfillTypes
<1>6. ASSUME NEW r \in Runs
      PROVE  RunCovers(r)'
  <2>1. /\ RunCovers(r) /\ since[r] \in Nat /\ high[r] \in Nat /\ page[r] \in Nat \ {0}
        /\ since[r] <= high[r] /\ Reached(high[r])
    BY DEF CoverInv, BackfillTypes
  <2>2. Reached(since[r])
    BY <1>2, <2>1 DEF Reached
  <2>3. Covered(since[r])' /\ (Covered(high[r]) => Covered(high[r])')
    BY <1>1, <1>4, <2>1, <2>2 DEF RunCovers, Covered
  <2>4. /\ Unread(r)' = Unread(r) /\ Unread(r) \in Nat
    BY <1>1, <2>1, PageBounds DEF Unread
  <2>5. ASSUME NEW i \in Places', i \notin late', source'[i] <= high'[r]
        PROVE  i \in Places /\ i \notin late /\ source[i] = source'[i]
    BY <1>1, <1>3, <2>1, <2>5
  <2>6. phase'[r] = "fetch" => Has(r, {i \in Places : i > Len(source) - Unread(r)})'
    <3> SUFFICES ASSUME phase'[r] = "fetch", NEW i \in Places', i > Len(source') - Unread(r)',
                        i \notin late', since'[r] < source'[i], source'[i] <= high'[r]
                 PROVE  i \in ToSet(store') \cup ToSet(buffer'[r])
      BY DEF Has
    <3>1. i \in Places /\ i \notin late /\ source[i] = source'[i]
      BY <2>5
    <3>2. i > Len(source) - Unread(r)
      <4>1. Len(source') - Unread(r)' = Len(source) + 1 - Unread(r)
        BY <1>1, <2>4 DEF n
      <4>2. i \in Nat /\ i > Len(source) + 1 - Unread(r)
        BY <1>2, <3>1, <4>1
      <4> QED BY <1>2, <2>4, <4>2
    <3> QED BY <1>1, <2>1, <3>1, <3>2 DEF RunCovers, Has
  <2>7. phase'[r] = "close" /\ status'[r] = 0 => Has(r, Places)'
    BY <1>1, <2>1, <2>5 DEF RunCovers, Has
  <2>8. phase'[r] = "fetch" /\ page'[r] > 1 =>
          \A i \in Places' \ late' : source'[i] <= high'[r] \/ Newcomer(i)'
    <3> SUFFICES ASSUME phase[r] = "fetch", page[r] > 1, NEW i \in Places' \ late'
                 PROVE  source'[i] <= high'[r] \/ Newcomer(i)'
      BY <1>1
    <3>1. CASE i = n
      <4>1. \A k \in Places' : k < n => source'[k] < source'[n]
        BY <1>1, <1>2, <3>1
      <4> QED BY <3>1, <4>1 DEF Newcomer
    <3>2. CASE i \in Places
      <4>1. source[i] <= high[r] \/ Newcomer(i)
        BY <1>1, <2>1, <3>2 DEF RunCovers
      <4>2. Newcomer(i) => Newcomer(i)'
        <5>1. \A k \in Places' : k < i => k \in Places
          BY <1>1, <1>2, <3>2
        <5> QED BY <1>1, <1>2, <3>2, <5>1 DEF Newcomer
      <4> QED BY <1>1, <3>2, <4>1, <4>2
    <3> QED BY <1>1, <3>1, <3>2
  <2> QED BY <1>1, <2>1, <2>3, <2>6, <2>7, <2>8 DEF RunCovers
<1> QED BY <1>5, <1>6 DEF CoverInv

(* The heart of it: a page that is read while the list grows leaves no     *)
(* hole between the pages before it and the newest start of its own.       *)
LEMMA AnswerCovers ==
  ASSUME MaxPages = 0, BackfillTypes, status \in [Runs -> Codes], CoverInv,
         NEW r \in Runs, Answer(r)
  PROVE  RunCovers(r)'
<1>1. PICK rows \in Seq(Places), h \in Nat, top \in Int :
           /\ top = Len(source) - Unread(r)
           /\ \A i \in Places :
                i \in ToSet(rows) <=> top - PageSize < i /\ i <= top /\ since[r] < source[i]
           /\ buffer' = [buffer EXCEPT ![r] = @ \o rows]
           /\ high' = [high EXCEPT ![r] = h]
           /\ high[r] <= h /\ \A i \in ToSet(rows) : source[i] <= h
           /\ h = high[r] \/ \E i \in ToSet(rows) : h = source[i]
           /\ phase[r] = "fetch" /\ UNCHANGED <<source, late, store, cursor, since, disturbed>>
           /\ \/ /\ phase' = [phase EXCEPT ![r] = "close"]
                 /\ status' = [status EXCEPT ![r] = 0] /\ page' = page
                 /\ MaxPages = 0 =>
                      \A i \in Places : since[r] < source[i] => top - PageSize < i
              \/ /\ UNCHANGED <<phase, status>>
                 /\ page' = [page EXCEPT ![r] = @ + 1]
                 /\ page[r] = 1 => Places # {}
  BY AnswerDoes
<1>2. /\ RunCovers(r) /\ since[r] \in Nat /\ high[r] \in Nat /\ page[r] \in Nat \ {0}
      /\ buffer[r] \in Seq(Places) /\ Len(source) \in Nat
      /\ Places = 1..Len(source) /\ \A i \in Places : source[i] \in Nat
      /\ \A i, k \in Places : i <= k => source[i] <= source[k]
  BY DEF CoverInv, BackfillTypes, InOrderOfStart, Places
<1>3. /\ buffer'[r] = buffer[r] \o rows /\ high'[r] = h
      /\ ToSet(buffer'[r]) = ToSet(buffer[r]) \cup ToSet(rows)
      /\ ToSet(rows) \subseteq Places
  <2>1. buffer'[r] = buffer[r] \o rows /\ high'[r] = h
    BY <1>1 DEF BackfillTypes
  <2>2. ToSet(rows) \subseteq Places
    BY LenProperties, ElementOfSeq DEF ToSet
  <2> QED BY <1>2, <2>1, <2>2, Joined
<1>4. /\ Unread(r) \in Nat /\ page[r] * PageSize = Unread(r) + PageSize
      /\ (page[r] = 1 => Unread(r) = 0) /\ PageSize \in Nat \ {0}
      /\ page'[r] = page[r] + 1 => Unread(r)' = Unread(r) + PageSize
  <2>1. /\ Unread(r) \in Nat /\ page[r] * PageSize = Unread(r) + PageSize
        /\ (page[r] = 1 => Unread(r) = 0) /\ PageSize \in Nat \ {0}
        /\ \A p : p = page[r] + 1 => (p - 1) * PageSize = Unread(r) + PageSize
    BY <1>2, PageBounds, BackfillAssumption
  <2>2. Unread(r)' = (page'[r] - 1) * PageSize
    BY DEF Unread
  <2> QED BY <2>1, <2>2
<1>5. ASSUME NEW i \in Places, i \notin late, since[r] < source[i], source[i] <= h,
             top - PageSize < i
      PROVE  i \in ToSet(store) \cup ToSet(buffer'[r])
  <2>1. CASE i <= top
    BY <1>1, <1>3, <1>5, <2>1
  <2>2. CASE i > top
    <3>1. source[i] <= high[r]
      <4> SUFFICES ASSUME h # high[r] PROVE source[i] <= high[r]
        BY <1>5
      <4>1. PICK k \in ToSet(rows) : h = source[k]
        BY <1>1
      <4>2. k \in Places /\ k < i
        BY <1>1, <1>2, <1>3, <2>2
      <4>3. ~Newcomer(i)
        BY <1>2, <1>5, <4>1, <4>2 DEF Newcomer
      <4>4. page[r] # 1
        BY <1>1, <1>2, <1>4, <2>2
      <4>5. page[r] > 1
        <5>1. page[r] \in Nat \ {0}
          BY <1>2
        <5> QED BY <4>4, <5>1
      <4> QED BY <1>1, <1>2, <1>5, <4>3, <4>5 DEF RunCovers
    <3>2. i \in ToSet(store) \cup ToSet(buffer[r])
      BY <1>1, <1>2, <1>5, <2>2, <3>1 DEF RunCovers, Has
    <3> QED BY <1>3, <3>2
  <2> QED BY <1>1, <1>2, <2>1, <2>2
<1>6. Covered(since[r])'
  BY <1>1, <1>2 DEF RunCovers, Covered, Places
<1>7. CASE phase' = [phase EXCEPT ![r] = "close"] /\
           \A i \in Places : since[r] < source[i] => top - PageSize < i
  <2>1. phase'[r] = "close"
    BY <1>7 DEF BackfillTypes
  <2>2. Has(r, Places)'
    BY <1>1, <1>3, <1>5, <1>7 DEF Has, Places
  <2> QED BY <1>6, <2>1, <2>2 DEF RunCovers
<1>8. CASE /\ UNCHANGED <<phase, status>>
           /\ page' = [page EXCEPT ![r] = @ + 1]
           /\ page[r] = 1 => Places # {}
  <2>1. phase'[r] = "fetch" /\ page'[r] = page[r] + 1
    BY <1>1, <1>8 DEF BackfillTypes
  <2>2. Unread(r)' = Unread(r) + PageSize /\ Len(source') - Unread(r)' = top - PageSize
    <3>1. Unread(r)' = Unread(r) + PageSize
      BY <1>4, <2>1
    <3> QED BY <1>1, <1>2, <1>4, <3>1
  <2>3. Has(r, {i \in Places : i > Len(source) - Unread(r)})'
    <3> SUFFICES ASSUME NEW i \in Places', i > Len(source') - Unread(r)',
                        i \notin late', since'[r] < source'[i], source'[i] <= high'[r]
                 PROVE  i \in ToSet(store') \cup ToSet(buffer'[r])
      BY DEF Has
    <3>1. i \in Places /\ top - PageSize < i
      BY <1>1, <1>2, <1>4, <2>2 DEF Places
    <3> QED BY <1>1, <1>3, <1>5, <3>1
  <2>4. ASSUME NEW i \in Places \ late
        PROVE  source[i] <= h \/ Newcomer(i)
    <3>1. CASE page[r] > 1
      <4>1. source[i] <= high[r] \/ Newcomer(i)
        BY <1>1, <1>2, <3>1 DEF RunCovers
      <4> QED BY <1>1, <1>2, <4>1
    <3>2. CASE page[r] = 1
      <4>1. Len(source) \in Places /\ top = Len(source)
        BY <1>1, <1>2, <1>4, <1>8, <3>2
      <4>2. source[Len(source)] <= h
        <5>1. CASE since[r] < source[Len(source)]
          <6>1. Len(source) \in ToSet(rows)
            BY <1>1, <1>2, <1>4, <4>1, <5>1
          <6> QED BY <1>1, <6>1
        <5>2. CASE source[Len(source)] <= since[r]
          BY <1>1, <1>2, <4>1, <5>2 DEF BackfillTypes
        <5> QED BY <1>2, <4>1, <5>1, <5>2
      <4>3. source[i] <= source[Len(source)]
        BY <1>2, <4>1
      <4> QED BY <1>2, <4>1, <4>2, <4>3
    <3> QED BY <1>2, <3>1, <3>2, SMTT(30)
  <2>5. \A i \in Places' \ late' : source'[i] <= high'[r] \/ Newcomer(i)'
    BY <1>1, <1>3, <2>4 DEF Newcomer, Places
  <2> QED BY <1>6, <2>1, <2>3, <2>5 DEF RunCovers
<1> QED BY <1>1, <1>7, <1>8

LEMMA RunKeepsCover ==
  ASSUME MaxPages = 0, BackfillTypes, status \in [Runs -> Codes], CoverInv,
         NEW r \in Runs, RunStep(r)
  PROVE  CoverInv'
<1>1. /\ source' = source /\ late' = late /\ Places' = Places
      /\ \A i \in Places : source[i] \in Nat \ {0}
  <2>1. source' = source /\ late' = late
    BY DEF RunStep, Quiet, Begin, Retry, GiveUp, Flush, Close, OpenCursor, WriteCursor,
           Answer, End, Kill, world
  <2>2. \A i \in Places : source[i] \in Nat \ {0}
    BY DEF Places, BackfillTypes, InOrderOfStart
  <2> QED BY <2>1, <2>2 DEF Places
<1>2. ToSet(store) \subseteq ToSet(store')
  <2>1. CASE store' = store
    BY <2>1
  <2>2. CASE Flush(r) \/ Close(r)
    <3>1. PICK part \in Seq(Places) : store' = store \o part
      BY <2>2, FlushDoes
    <3> QED BY <3>1, Joined DEF BackfillTypes
  <2> QED BY <2>1, <2>2 DEF RunStep, Quiet, Begin, Retry, GiveUp, OpenCursor, WriteCursor,
                            Answer, End, Kill
<1>3. \A t : Covered(t) => Covered(t)'
  BY <1>1, <1>2 DEF Covered
<1>4. Covered(0)'
  BY <1>1 DEF Covered
<1>5. ASSUME NEW q \in Runs, q # r
      PROVE  RunCovers(q)'
  <2>1. UNCHANGED <<phase[q], since[q], page[q], high[q], buffer[q], status[q]>>
    BY <1>5 DEF RunStep, Quiet, Begin, Retry, GiveUp, Exit, Flush, Close, OpenCursor,
                WriteCursor, Answer, End, Kill, locals, BackfillTypes
  <2> QED BY <1>1, <1>2, <2>1, BystanderCovers DEF CoverInv
<1>6. RunCovers(r) /\ Covered(since[r])
  BY DEF CoverInv, RunCovers
<1>7. phase \in [Runs -> Phases] /\ since \in [Runs -> Nat] /\ high \in [Runs -> Nat]
  BY DEF BackfillTypes
<1>8. ASSUME UNCHANGED since
      PROVE  Covered(since[r])'
  BY <1>3, <1>6, <1>8 DEF Covered
<1>9. CASE \E full \in BOOLEAN : Begin(r, full)
  <2>1. PICK t \in {0, CursorTime} :
          /\ since' = [since EXCEPT ![r] = t] /\ high' = [high EXCEPT ![r] = t]
          /\ phase[r] = "idle" /\ phase' = [phase EXCEPT ![r] = "fetch"]
          /\ UNCHANGED <<store, cursor, page, buffer>>
    BY <1>9 DEF Begin
  <2>2. since'[r] = t /\ high'[r] = t /\ phase'[r] = "fetch" /\ page'[r] = 1 /\ t \in Nat
    BY <1>7, <2>1 DEF BackfillTypes, CursorTime
  <2>3. Covered(t)'
    BY <1>3, <1>4, <2>1 DEF CoverInv, CursorTime
  <2>4. Covered(since[r])'
    BY <2>2, <2>3 DEF Covered
  <2>5. Has(r, {i \in Places : i > Len(source) - Unread(r)})'
    BY <1>1, <2>2 DEF Has
  <2>6. RunCovers(r)'
    BY <2>2, <2>4, <2>5 DEF RunCovers
  <2>7. cursor' # NoCursor => Covered(cursor)'
    BY <1>3, <2>1 DEF CoverInv, Covered
  <2> QED BY <1>5, <2>6, <2>7 DEF CoverInv
<1>10. CASE Answer(r)
  <2>1. cursor' = cursor
    BY <1>10 DEF Answer
  <2>2. cursor' # NoCursor => Covered(cursor)'
    BY <1>3, <2>1 DEF CoverInv, Covered
  <2> QED BY <1>5, <1>10, <2>2, AnswerCovers DEF CoverInv
<1>11. CASE Retry(r) \/ GiveUp(r) \/ End(r) \/ Kill(r)
  <2>1. UNCHANGED <<since, cursor, store>>
    BY <1>11 DEF Retry, GiveUp, End, Kill, locals
  <2>2. \/ UNCHANGED <<phase[r], page[r], high[r], buffer[r], status[r]>>
        \/ phase'[r] = "close" /\ status'[r] # 0
        \/ phase'[r] = "over"
    BY <1>7, <1>11 DEF Retry, GiveUp, Exit, End, Kill
  <2>3. RunCovers(r)'
    <3>1. CASE UNCHANGED <<phase[r], page[r], high[r], buffer[r], status[r]>>
      BY <1>1, <1>2, <1>6, <2>1, <3>1, BystanderCovers
    <3>2. CASE (phase'[r] = "close" /\ status'[r] # 0) \/ phase'[r] = "over"
      BY <1>8, <2>1, <3>2 DEF RunCovers
    <3> QED BY <2>2, <3>1, <3>2
  <2>4. cursor' # NoCursor => Covered(cursor)'
    BY <1>3, <2>1 DEF CoverInv, Covered
  <2> QED BY <1>5, <2>3, <2>4 DEF CoverInv
<1>12. CASE Flush(r) \/ Close(r)
  <2>1. PICK part \in Seq(Places), rest \in Seq(Places) :
          /\ buffer[r] = part \o rest
          /\ store' = store \o part /\ buffer' = [buffer EXCEPT ![r] = rest]
          /\ Close(r) => rest = <<>>
    BY <1>12, FlushDoes
  <2>2. ToSet(store) \cup ToSet(buffer[r]) = ToSet(store') \cup ToSet(buffer'[r])
    <3>1. buffer'[r] = rest /\ store \in Seq(Places)
      BY <2>1 DEF BackfillTypes
    <3> QED BY <2>1, <3>1, Joined
  <2>3. UNCHANGED <<since, page, high, status, cursor>>
    BY <1>12 DEF Flush, Close
  <2>4. ASSUME Flush(r)
        PROVE  RunCovers(r)'
    <3>1. phase' = phase /\ phase[r] = "fetch"
      BY <2>4 DEF Flush
    <3>2. Has(r, {i \in Places : i > Len(source) - Unread(r)})'
      <4>1. Unread(r)' = Unread(r)
        BY <2>3 DEF Unread
      <4> QED BY <1>1, <1>6, <2>2, <2>3, <3>1, <4>1 DEF RunCovers, Has
    <3>3. page'[r] > 1 => \A i \in Places' \ late' : source'[i] <= high'[r] \/ Newcomer(i)'
      <4>1. \A i : Newcomer(i)' <=> Newcomer(i)
        BY <1>1 DEF Newcomer
      <4> QED BY <1>1, <1>6, <2>3, <3>1, <4>1 DEF RunCovers
    <3> QED BY <1>8, <2>3, <3>1, <3>2, <3>3 DEF RunCovers
  <2>5. ASSUME Close(r)
        PROVE  RunCovers(r)'
    <3>1. phase[r] = "close" /\ phase'[r] \in {"open cursor", "end"}
          /\ (phase'[r] = "open cursor" => status[r] = 0)
      BY <1>7, <2>5 DEF Close
    <3>2. ToSet(store') = ToSet(store) \cup ToSet(buffer[r])
      <4>1. buffer'[r] = <<>>
        BY <2>1, <2>5 DEF BackfillTypes
      <4>2. ToSet(<<>>) = {}
        BY DEF ToSet
      <4> QED BY <2>2, <4>1, <4>2
    <3>3. ASSUME phase'[r] = "open cursor"
          PROVE  Covered(high[r])'
      <4> SUFFICES ASSUME NEW i \in Places, i \notin late, source[i] <= high[r]
                   PROVE  i \in ToSet(store')
        BY <1>1, <2>3 DEF Covered
      <4>1. CASE source[i] <= since[r]
        BY <1>6, <3>2, <4>1 DEF Covered
      <4>2. CASE since[r] < source[i]
        BY <1>6, <3>1, <3>2, <3>3, <4>2 DEF RunCovers, Has
      <4> QED BY <1>1, <1>7, <4>1, <4>2
    <3> QED BY <1>8, <2>3, <3>1, <3>3 DEF RunCovers
  <2>6. cursor' # NoCursor => Covered(cursor)'
    BY <1>3, <2>3 DEF CoverInv, Covered
  <2> QED BY <1>5, <1>12, <2>4, <2>5, <2>6 DEF CoverInv
<1>13. CASE OpenCursor(r) \/ WriteCursor(r)
  <2>1. UNCHANGED <<since, high>> /\ phase[r] \in {"open cursor", "write cursor"}
        /\ phase'[r] \in {"write cursor", "end"} /\ cursor' \in {0, high[r]}
    BY <1>7, <1>13 DEF OpenCursor, WriteCursor, locals
  <2>2. Covered(high[r])'
    BY <1>3, <1>6, <2>1 DEF RunCovers, Covered
  <2>3. RunCovers(r)'
    BY <1>8, <2>1, <2>2 DEF RunCovers
  <2>4. Covered(cursor)'
    BY <1>4, <2>1, <2>2 DEF Covered
  <2> QED BY <1>5, <2>3, <2>4 DEF CoverInv
<1> QED BY <1>9, <1>10, <1>11, <1>12, <1>13 DEF RunStep, Quiet

LEMMA CoverKept ==
  ASSUME MaxPages = 0, BackfillTypes, status \in [Runs -> Codes], CoverInv,
         UNCHANGED backfillVars \/ Arrive \/ \E r \in Runs : RunStep(r)
  PROVE  CoverInv'
<1>1. CASE UNCHANGED backfillVars
  <2>1. ASSUME NEW q \in Runs
        PROVE  RunCovers(q)'
    BY <1>1, BystanderCovers DEF CoverInv, backfillVars, world, locals
  <2>2. cursor' # NoCursor => Covered(cursor)'
    BY <1>1 DEF CoverInv, Covered, Places, backfillVars, world
  <2> QED BY <2>1, <2>2 DEF CoverInv
<1> QED BY <1>1, ArrivalCovers, RunKeepsCover

LEMMA BackfillStarts ==
  ASSUME Init
  PROVE  BackfillTypes /\ CoverInv
<1>1. /\ source \in Found /\ late = {} /\ store = <<>> /\ cursor = NoCursor
      /\ phase = [r \in Runs |-> "idle"] /\ since = [r \in Runs |-> 0]
      /\ page = [r \in Runs |-> 1] /\ high = [r \in Runs |-> 0]
      /\ buffer = [r \in Runs |-> <<>>] /\ NoCursor \notin Nat
  BY BackfillAssumption DEF Init, BackfillInit
<1>2. InOrderOfStart /\ \A i \in Places : source[i] \in Nat \ {0}
  BY <1>1, BackfillAssumption DEF InOrderOfStart, Places
<1>3. <<>> \in Seq(Places)
  BY EmptySeq
<1>4. BackfillTypes
  BY <1>1, <1>2, <1>3 DEF BackfillTypes, Reached, Phases
<1>5. CoverInv
  BY <1>1, <1>2 DEF CoverInv, RunCovers, Covered
<1> QED BY <1>4, <1>5

(* The cursor never runs ahead of the store, for any number of runs that   *)
(* overlap, fail or are killed, any page size and whatever arrives (fetch  *)
(* and _write_cursor of backfill.py): the next run, which goes on from     *)
(* it, leaves out nothing but what came late.  max_pages must not cut the  *)
(* reading short.                                                          *)
THEOREM CursorHolds == ASSUME MaxPages = 0 PROVE Spec => []CursorCovers
<1> DEFINE I == Inv /\ BackfillTypes /\ CoverInv
<1>1. Init => I
  BY InvInit, BackfillStarts
<1>2. I /\ [Next]_vars => I'
  BY InvNext, StepOfBackfill, BackfillTypesKept, CoverKept DEF Inv
<1>3. I => CursorCovers
  BY DEF CoverInv, Covered, CursorCovers, Places
<1> QED BY <1>1, <1>2, <1>3, PTL DEF Spec

-----------------------------------------------------------------------------
(* Rows are not stored twice without a cause.                              *)

LEMMA GatheredRows ==
  ASSUME BackfillTypes, NEW r \in Runs
  PROVE  /\ Gathered(r) \in Seq(Places) /\ ToSet(Gathered(r)) \subseteq Places
         /\ ToSet(store) \subseteq ToSet(Gathered(r))
         /\ IsInjective(Gathered(r)) => IsInjective(store)
         /\ buffer[r] = <<>> => Gathered(r) = store
<1>1. store \in Seq(Places) /\ buffer[r] \in Seq(Places)
  BY DEF BackfillTypes
<1>2. Gathered(r) \in Seq(Places)
  BY <1>1, ConcatProperties DEF Gathered
<1>3. ToSet(Gathered(r)) \subseteq Places
  BY <1>2, LenProperties, ElementOfSeq DEF ToSet
<1>4. /\ ToSet(store) \subseteq ToSet(Gathered(r))
      /\ IsInjective(Gathered(r)) => IsInjective(store)
  BY <1>1, Joined DEF Gathered
<1>5. store \o <<>> = store
  BY <1>1, ConcatEmptySeq
<1> QED BY <1>2, <1>3, <1>4, <1>5 DEF Gathered

LEMMA GatheredOnce ==
  BackfillTypes => \A q \in Runs : IsInjective(Gathered(q)) => IsInjective(store)
BY GatheredRows

(* Two runs do not overlap unnoticed: who is under way is alone.           *)
LEMMA RunStaysAlone ==
  ASSUME BackfillTypes, OnceInv, NEW r \in Runs, Busy(r), Busy(r)', StoresOnce(r)',
         BackfillTypes', \A q \in Runs \ {r} : phase'[q] = phase[q] /\ buffer'[q] = buffer[q]
  PROVE  OnceInv'
<1>1. \A q \in Runs \ {r} : ~Busy(q) /\ ~Busy(q)' /\ buffer'[q] = <<>>
  BY DEF OnceInv, Busy
<1>2. IsInjective(store')
  <2>1. (\A q \in Runs : IsInjective(Gathered(q)) => IsInjective(store))'
    <3>1. (BackfillTypes => \A q \in Runs : IsInjective(Gathered(q)) => IsInjective(store))'
      BY GatheredOnce, PTL
    <3> QED BY <3>1
  <2> QED BY <2>1 DEF StoresOnce
<1> QED BY <1>1, <1>2 DEF OnceInv

LEMMA AnswerStoresOnce ==
  ASSUME BackfillTypes, status \in [Runs -> Codes], NEW r \in Runs, StoresOnce(r), Answer(r)
  PROVE  StoresOnce(r)'
<1>1. PICK rows \in Seq(Places), h \in Nat, top \in Int :
           /\ top = Len(source) - Unread(r)
           /\ IsInjective(rows)
           /\ \A i \in Places :
                i \in ToSet(rows) <=> top - PageSize < i /\ i <= top /\ since[r] < source[i]
           /\ buffer' = [buffer EXCEPT ![r] = @ \o rows]
           /\ high' = [high EXCEPT ![r] = h]
           /\ high[r] <= h /\ \A i \in ToSet(rows) : source[i] <= h
           /\ phase[r] = "fetch" /\ UNCHANGED <<source, store, since>>
           /\ \/ phase' = [phase EXCEPT ![r] = "close"] /\ status' = [status EXCEPT ![r] = 0]
              \/ UNCHANGED phase /\ page' = [page EXCEPT ![r] = @ + 1]
  BY AnswerDoes
<1>2. /\ since[r] \in Nat /\ high[r] \in Nat /\ page[r] \in Nat \ {0}
      /\ Len(source) \in Nat /\ Places \subseteq Nat /\ \A i \in Places : source[i] \in Nat
      /\ store \in Seq(Places) /\ buffer[r] \in Seq(Places)
  BY DEF BackfillTypes, InOrderOfStart, Places
<1>3. Gathered(r) \in Seq(Places) /\ ToSet(Gathered(r)) \subseteq Places
  BY GatheredRows
<1>4. ToSet(rows) \subseteq Places
  BY LenProperties, ElementOfSeq DEF ToSet
<1>5. Gathered(r)' = Gathered(r) \o rows
  <2>1. Gathered(r)' = store \o (buffer[r] \o rows)
    BY <1>1 DEF Gathered, BackfillTypes
  <2>2. (store \o buffer[r]) \o rows = store \o (buffer[r] \o rows)
    <3> DEFINE S == Seq(Places)
               b == buffer[r]
    <3>1. store \in S /\ b \in S /\ rows \in S
      BY <1>2
    <3> HIDE DEF b
    <3>2. (store \o b) \o rows = store \o (b \o rows)
      BY <3>1, ConcatAssociative
    <3> QED BY <3>2 DEF b
  <2> QED BY <2>1, <2>2 DEF Gathered
<1>6. /\ ToSet(Gathered(r)') = ToSet(Gathered(r)) \cup ToSet(rows)
      /\ IsInjective(Gathered(r)') <=>
           /\ IsInjective(Gathered(r)) /\ IsInjective(rows)
           /\ ToSet(Gathered(r)) \cap ToSet(rows) = {}
  BY <1>3, <1>5, Joined
<1>7. \A i \in ToSet(Gathered(r)) : i \in Places /\ (source[i] <= since[r] \/ i > top)
  BY <1>1, <1>3 DEF StoresOnce
<1>8. IsInjective(Gathered(r)')
  <2>1. ASSUME NEW i \in ToSet(Gathered(r)), i \in ToSet(rows)
        PROVE  FALSE
    <3>1. i \in Nat /\ source[i] \in Nat
      BY <1>2, <1>7
    <3>2. i <= top /\ since[r] < source[i]
      BY <1>1, <1>7, <2>1
    <3> QED BY <1>2, <1>7, <3>1, <3>2
  <2> QED BY <1>1, <1>6, <2>1 DEF StoresOnce
<1>9. ASSUME NEW i \in ToSet(Gathered(r)')
      PROVE  source'[i] <= high'[r]
  <2>1. high'[r] = h /\ source'[i] = source[i] /\ i \in Places
    BY <1>1, <1>3, <1>4, <1>6 DEF BackfillTypes
  <2>2. CASE i \in ToSet(Gathered(r))
    <3>1. source[i] <= high[r]
      BY <1>1, <2>2 DEF StoresOnce, UpTo
    <3> QED BY <1>1, <1>2, <2>1, <3>1
  <2> QED BY <1>1, <1>6, <2>1, <2>2
<1>10. phase'[r] \in {"fetch", "close"} /\ (phase'[r] = "close" => status'[r] = 0)
       /\ (phase'[r] = "fetch" => page'[r] = page[r] + 1)
  BY <1>1 DEF BackfillTypes
<1>11. ASSUME phase'[r] = "fetch", NEW i \in ToSet(Gathered(r)')
       PROVE  source'[i] <= since'[r] \/ i > Len(source') - Unread(r)'
  <2>1. /\ Unread(r) \in Nat /\ PageSize \in Nat \ {0}
        /\ \A p : p = page[r] + 1 => (p - 1) * PageSize = Unread(r) + PageSize
    BY <1>2, PageBounds, BackfillAssumption
  <2>2. Unread(r)' = (page'[r] - 1) * PageSize
    BY DEF Unread
  <2>3. Unread(r)' = Unread(r) + PageSize
    BY <1>10, <1>11, <2>1, <2>2
  <2>4. Len(source') - Unread(r)' = top - PageSize
    BY <1>1, <1>2, <2>1, <2>3
  <2>5. source[i] <= since[r] \/ i > top - PageSize
    <3>1. CASE i \in ToSet(Gathered(r))
      <4>1. i \in Nat
        BY <1>2, <1>7, <3>1
      <4> QED BY <1>7, <2>1, <3>1, <4>1
    <3>2. CASE i \in ToSet(rows)
      BY <1>1, <1>4, <3>2
    <3> QED BY <1>6, <3>1, <3>2
  <2> QED BY <1>1, <2>4, <2>5
<1> QED BY <1>8, <1>9, <1>10, <1>11 DEF StoresOnce, UpTo

LEMMA RunStoresOnce ==
  ASSUME BackfillTypes, BackfillTypes', status \in [Runs -> Codes], OnceInv,
         NEW r \in Runs, RunStep(r), ~disturbed'
  PROVE  OnceInv'
<1>1. /\ phase \in [Runs -> Phases] /\ since \in [Runs -> Nat] /\ high \in [Runs -> Nat]
      /\ buffer \in [Runs -> Seq(Places)] /\ high[r] \in Nat /\ NoCursor \notin Nat
  BY BackfillAssumption DEF BackfillTypes
<1>2. source' = source /\ \A i \in Places : source[i] \in Nat \ {0}
  <2>1. source' = source
    BY DEF RunStep, Quiet, Begin, Retry, GiveUp, Flush, Close, OpenCursor, WriteCursor,
           Answer, End, Kill, world
  <2> QED BY <2>1 DEF Places, BackfillTypes, InOrderOfStart
<1>3. \A q \in Runs \ {r} : phase'[q] = phase[q] /\ buffer'[q] = buffer[q]
  BY <1>1 DEF RunStep, Quiet, Begin, Retry, GiveUp, Exit, Flush, Close, OpenCursor,
              WriteCursor, Answer, End, Kill, locals
<1>4. /\ Gathered(r) \in Seq(Places) /\ ToSet(Gathered(r)) \subseteq Places
      /\ buffer[r] = <<>> => Gathered(r) = store
  BY GatheredRows
<1>5. CASE \E full \in BOOLEAN : Begin(r, full)
  <2>1. /\ \A q \in Runs : ~Busy(q)
        /\ since' = [since EXCEPT ![r] = CursorTime] /\ high' = [high EXCEPT ![r] = CursorTime]
        /\ phase' = [phase EXCEPT ![r] = "fetch"] /\ UNCHANGED <<store, buffer>>
    BY <1>5 DEF Begin
  <2>2. /\ since'[r] = CursorTime /\ high'[r] = CursorTime /\ phase'[r] = "fetch"
        /\ buffer[r] = <<>> /\ UpTo(store, CursorTime) /\ IsInjective(store)
    BY <1>1, <2>1 DEF OnceInv
  <2>3. Gathered(r)' = store
    BY <1>4, <2>1, <2>2 DEF Gathered
  <2>4. StoresOnce(r)'
    BY <1>2, <2>2, <2>3 DEF StoresOnce, UpTo
  <2>5. \A q \in Runs \ {r} : ~Busy(q)'
    BY <1>3, <2>1 DEF Busy
  <2> QED BY <2>1, <2>2, <2>4, <2>5 DEF OnceInv, Busy
<1>6. CASE Answer(r) \/ Retry(r) \/ Flush(r) \/ Close(r) \/ OpenCursor(r) \/ WriteCursor(r)
  <2>1. Busy(r) /\ StoresOnce(r)
    BY <1>6 DEF Answer, Retry, Flush, Close, OpenCursor, WriteCursor, Busy, OnceInv
  <2>2. Busy(r)'
    BY <1>1, <1>6 DEF Answer, Exit, Retry, Flush, Close, OpenCursor, WriteCursor, Busy
  <2>3. StoresOnce(r)'
    <3>1. CASE Answer(r)
      BY <2>1, <3>1, AnswerStoresOnce
    <3>2. CASE Retry(r)
      <4>1. UNCHANGED <<store, cursor, phase, since, page, high, buffer, status>>
        BY <3>2 DEF Retry
      <4> QED BY <1>2, <2>1, <4>1 DEF StoresOnce, Gathered, UpTo, CursorTime, Unread
    <3>3. CASE Flush(r) \/ Close(r)
      <4>1. PICK part \in Seq(Places), rest \in Seq(Places) :
              /\ buffer[r] = part \o rest
              /\ store' = store \o part /\ buffer' = [buffer EXCEPT ![r] = rest]
              /\ Close(r) => rest = <<>>
        BY <3>3, FlushDoes
      <4>2. Gathered(r)' = Gathered(r) /\ buffer'[r] = rest
        <5>1. buffer'[r] = rest /\ store \in Seq(Places)
          BY <1>1, <4>1 DEF BackfillTypes
        <5>2. (store \o part) \o rest = store \o (part \o rest)
          BY <5>1, ConcatAssociative
        <5> QED BY <4>1, <5>1, <5>2 DEF Gathered
      <4>3. CASE Flush(r)
        <5>1. phase[r] = "fetch" /\ UNCHANGED <<phase, since, page, high>>
          BY <4>3 DEF Flush
        <5> QED BY <1>2, <2>1, <4>2, <5>1 DEF StoresOnce, UpTo, Unread
      <4>4. CASE Close(r)
        <5>1. /\ phase[r] = "close" /\ UNCHANGED <<high, cursor>>
              /\ phase'[r] = IF status[r] = 0 /\ high[r] # 0 THEN "open cursor" ELSE "end"
          BY <1>1, <4>4 DEF Close
        <5>2. status[r] = 0 /\ UpTo(Gathered(r), high[r]) /\ IsInjective(Gathered(r))
          BY <2>1, <5>1 DEF StoresOnce
        <5>3. UpTo(Gathered(r), high[r])'
          BY <1>2, <4>2, <5>1, <5>2 DEF UpTo
        <5>4. phase'[r] = "end" => ToSet(Gathered(r)) = {}
          <6>1. high[r] = 0 => ToSet(Gathered(r)) = {}
            BY <1>2, <1>4, <5>2 DEF UpTo
          <6> QED BY <5>1, <5>2, <6>1
        <5>5. UpTo(Gathered(r), IF phase[r] = "end" THEN CursorTime ELSE high[r])'
          BY <4>2, <5>1, <5>3, <5>4 DEF UpTo
        <5> QED BY <4>1, <4>2, <4>4, <5>1, <5>2, <5>5 DEF StoresOnce
      <4> QED BY <3>3, <4>3, <4>4
    <3>4. CASE OpenCursor(r)
      <4>1. /\ phase[r] = "open cursor" /\ phase'[r] = "write cursor"
            /\ UNCHANGED <<store, buffer, high>>
        BY <1>1, <3>4 DEF OpenCursor, locals
      <4> QED BY <1>2, <2>1, <4>1 DEF StoresOnce, Gathered, UpTo
    <3>5. CASE WriteCursor(r)
      <4>1. /\ phase[r] = "write cursor" /\ phase'[r] = "end" /\ cursor' = high[r]
            /\ UNCHANGED <<store, buffer, high>>
        BY <1>1, <3>5 DEF WriteCursor, locals
      <4>2. CursorTime' = high[r]
        BY <1>1, <4>1 DEF CursorTime
      <4>3. Gathered(r)' = Gathered(r) /\ buffer'[r] = <<>> /\ UpTo(Gathered(r), high[r])
            /\ IsInjective(Gathered(r))
        BY <2>1, <4>1 DEF StoresOnce, Gathered
      <4> QED BY <1>2, <4>1, <4>2, <4>3 DEF StoresOnce, UpTo
    <3> QED BY <1>6, <3>1, <3>2, <3>3, <3>4, <3>5
  <2> QED BY <1>3, <2>1, <2>2, <2>3, RunStaysAlone
<1>7. CASE End(r)
  <2>1. /\ phase[r] = "end" /\ phase'[r] = "over" /\ UNCHANGED <<store, cursor, buffer>>
    BY <1>1, <1>7 DEF End, locals
  <2>2. Busy(r) /\ StoresOnce(r)
    BY <2>1 DEF Busy, OnceInv
  <2>3. buffer[r] = <<>> /\ UpTo(store, CursorTime)
    BY <1>4, <2>1, <2>2 DEF StoresOnce
  <2>4. \A q \in Runs : ~Busy(q)' /\ buffer'[q] = <<>>
    <3>1. \A q \in Runs \ {r} : ~Busy(q) /\ buffer[q] = <<>>
      BY <2>2 DEF OnceInv
    <3> QED BY <1>3, <2>1, <2>3, <3>1 DEF Busy
  <2>5. UpTo(store, CursorTime)'
    BY <1>2, <2>1, <2>3 DEF UpTo, CursorTime
  <2> QED BY <2>1, <2>4, <2>5 DEF OnceInv
<1>8. ~GiveUp(r) /\ ~Kill(r)
  BY DEF GiveUp, Kill
<1> QED BY <1>5, <1>6, <1>7, <1>8 DEF RunStep, Quiet

LEMMA OnceKept ==
  ASSUME BackfillTypes, BackfillTypes', status \in [Runs -> Codes], disturbed \/ OnceInv,
         UNCHANGED backfillVars \/ Arrive \/ \E r \in Runs : RunStep(r)
  PROVE  disturbed' \/ OnceInv'
<1> SUFFICES ASSUME ~disturbed' PROVE OnceInv'
  OBVIOUS
<1>1. CASE UNCHANGED backfillVars
  <2>1. /\ UNCHANGED <<source, store, cursor, phase, since, page, high, buffer, status>>
        /\ OnceInv
    BY <1>1 DEF backfillVars, world, locals
  <2> QED BY <2>1 DEF OnceInv, Busy, UpTo, CursorTime, StoresOnce, Gathered, Unread
<1>2. CASE Arrive
  <2>1. /\ OnceInv /\ \A r \in Runs : ~Busy(r)
        /\ UNCHANGED <<store, cursor, phase, buffer>>
    BY <1>2 DEF Arrive, locals
  <2>2. UpTo(store, CursorTime) /\ \A r \in Runs : buffer[r] = <<>>
    BY <2>1 DEF OnceInv
  <2>3. ToSet(store) \subseteq Places
    BY LenProperties, ElementOfSeq DEF BackfillTypes, ToSet
  <2>4. UpTo(store, CursorTime)'
    BY <1>2, <2>1, <2>2, <2>3, ArriveDoes DEF UpTo, CursorTime
  <2> QED BY <2>1, <2>2, <2>4 DEF OnceInv, Busy
<1>3. ASSUME NEW r \in Runs, RunStep(r)
      PROVE  OnceInv'
  <2>1. ~disturbed
    BY <1>3 DEF RunStep, Quiet, Begin, Retry, GiveUp, Flush, Close, OpenCursor, WriteCursor,
                Answer, End, Kill
  <2> QED BY <1>3, <2>1, RunStoresOnce
<1> QED BY <1>1, <1>2, <1>3

(* A row is stored twice only after a failure, a kill, an overlap, a fresh *)
(* start or an arrival during a run (fetch of backfill.py: the cursor's    *)
(* own rows are left out and the pages of an undisturbed list do not       *)
(* meet), for any number of runs, any page size and any limit of pages.    *)
THEOREM DuplicatesExplained == Spec => []DuplicatesHaveACause
<1> DEFINE I == Inv /\ BackfillTypes /\ (disturbed \/ OnceInv)
<1>1. Init => I
  <2>1. ASSUME Init PROVE OnceInv
    <3>1. store = <<>> /\ phase = [r \in Runs |-> "idle"] /\ buffer = [r \in Runs |-> <<>>]
      BY <2>1 DEF Init, BackfillInit
    <3> QED BY <3>1 DEF OnceInv, Busy, IsInjective, UpTo, ToSet
  <2> QED BY <2>1, InvInit, BackfillStarts
<1>2. I /\ [Next]_vars => I'
  BY InvNext, StepOfBackfill, BackfillTypesKept, OnceKept DEF Inv
<1>3. I => DuplicatesHaveACause
  BY DEF OnceInv, DuplicatesHaveACause
<1> QED BY <1>1, <1>2, <1>3, PTL DEF Spec
=============================================================================
