-------------------------------- MODULE Jobs --------------------------------
(***************************************************************************)
(* Background jobs (src/halo_cli/jobs.py).  There is no server: a job is a *)
(* shell in a session of its own, which runs a command, and a directory    *)
(* with a log, a record of the process number and the exit code, each      *)
(* written by another process.  The clients (status, list, logs, cancel,   *)
(* clean) look at these files and at the process, one after the other.     *)
(*                                                                         *)
(* What the command does is left to the module that extends this one: it   *)
(* prints, and ends with a code, or dies by the signal of cancel.          *)
(*                                                                         *)
(* External: the shell opens the log before the command starts, and opens  *)
(* the exit code before it writes it.  A process number may be given to    *)
(* another process once its own is gone.  Removing a directory is one      *)
(* step; a file that is open can be written and read after its removal.    *)
(***************************************************************************)
EXTENDS Integers

CONSTANTS
  Jobs,
  Clients,      (* shells that ask about the jobs, one command at a time *)
  NoFile, Empty (* a file that is absent, or was opened and not written *)

VARIABLES
  spawner,      (* how far spawn_detached is *)
  dir,          (* the job's directory *)
  meta,         (* meta.json in it *)
  exitcode,     (* exitcode in it *)
  log,          (* lines of out.log *)
  shell,        (* the process started by spawn_detached *)
  command,      (* what it runs *)
  code,         (* what that returned *)
  term,         (* the group was sent SIGTERM *)
  reused,       (* the number of the shell is another process's by now *)
  client        (* the command each client is at *)

files == <<dir, meta, exitcode, log>>
processes == <<shell, command, code, term, reused>>
jobVars == <<spawner, files, processes, client>>

Codes == {0, 1, 2}
Operations == {"status", "logs", "cancel", "clean", "clean --all"}
Verdicts == {"done", "failed", "killed", "running", "unknown"}

ASSUME JobsAssumption ==
  /\ Jobs # {}
  /\ NoFile \notin Codes /\ Empty \notin Codes /\ NoFile \notin {Empty, "written"}

(* A client is at a step of a command on a job; it has printed lines of    *)
(* the log, and read the state and perhaps the code of the job.            *)
Resting == [at |-> "idle", op |-> "status", job |-> CHOOSE j \in Jobs : TRUE,
            printed |-> 0, verdict |-> "unknown", code |-> NoFile]

JobsInit ==
  /\ spawner = [j \in Jobs |-> "none"]
  /\ dir = [j \in Jobs |-> "none"]
  /\ meta = [j \in Jobs |-> NoFile]
  /\ exitcode = [j \in Jobs |-> NoFile]
  /\ log = [j \in Jobs |-> NoFile]
  /\ shell = [j \in Jobs |-> "none"]
  /\ command = [j \in Jobs |-> "none"]
  /\ code = [j \in Jobs |-> NoFile]
  /\ term = [j \in Jobs |-> FALSE]
  /\ reused = [j \in Jobs |-> FALSE]
  /\ client = [c \in Clients |-> Resting]

-----------------------------------------------------------------------------
(* spawn_detached.  It may die between two of its steps.                   *)

MakeDir(j) ==
  /\ spawner[j] = "none"
  /\ spawner' = [spawner EXCEPT ![j] = "made"]
  /\ dir' = [dir EXCEPT ![j] = "there"]
  /\ UNCHANGED <<meta, exitcode, log, processes, client>>

Popen(j) ==
  /\ spawner[j] = "made"
  /\ spawner' = [spawner EXCEPT ![j] = "forked"]
  /\ shell' = [shell EXCEPT ![j] = "starting"]
  /\ UNCHANGED <<files, command, code, term, reused, client>>

WriteMeta(j) ==
  /\ \/ /\ spawner[j] = "forked"
        /\ spawner' = [spawner EXCEPT ![j] = "writing"]
        /\ meta' = [meta EXCEPT ![j] = Empty]
     \/ /\ spawner[j] = "writing"
        /\ spawner' = [spawner EXCEPT ![j] = "over"]
        /\ meta' = [meta EXCEPT ![j] = IF dir[j] = "there" THEN "written" ELSE NoFile]
  /\ UNCHANGED <<dir, exitcode, log, processes, client>>

SpawnerDies(j) ==
  /\ spawner[j] \in {"made", "forked", "writing"}
  /\ spawner' = [spawner EXCEPT ![j] = "over"]
  /\ UNCHANGED <<files, processes, client>>

-----------------------------------------------------------------------------
(* The shell: command > log 2>&1; echo $? > exitcode.                      *)

\* Mutation: both files are opened before the command starts.
RedirectBoth(j) ==
  /\ shell[j] = "starting" /\ dir[j] = "there"
  /\ shell' = [shell EXCEPT ![j] = "waiting"]
  /\ log' = [log EXCEPT ![j] = 0]
  /\ exitcode' = [exitcode EXCEPT ![j] = Empty]
  /\ command' = [command EXCEPT ![j] = "running"]
  /\ UNCHANGED <<spawner, dir, meta, code, term, reused, client>>

Redirect(j) ==
  /\ shell[j] = "starting" /\ dir[j] = "there"
  /\ shell' = [shell EXCEPT ![j] = "waiting"]
  /\ log' = [log EXCEPT ![j] = 0]
  /\ command' = [command EXCEPT ![j] = "running"]
  /\ UNCHANGED <<spawner, dir, meta, exitcode, code, term, reused, client>>

CommandPrints(j) ==
  /\ command[j] = "running"
  /\ log' = [log EXCEPT ![j] = @ + 1]
  /\ UNCHANGED <<spawner, dir, meta, exitcode, processes, client>>

CommandEnds(j, result) ==
  /\ command[j] = "running"
  /\ command' = [command EXCEPT ![j] = "ended"]
  /\ code' = [code EXCEPT ![j] = result]
  /\ UNCHANGED <<spawner, files, shell, term, reused, client>>

CommandDies(j) ==
  /\ command[j] = "running" /\ term[j]
  /\ command' = [command EXCEPT ![j] = "dead"]
  /\ UNCHANGED <<spawner, files, shell, code, term, reused, client>>

(* Without its directory the shell can open neither file, and leaves. *)
Echo(j) ==
  /\ \/ /\ shell[j] = "waiting" /\ command[j] = "ended" /\ dir[j] = "there"
        /\ shell' = [shell EXCEPT ![j] = "recording"]
        /\ exitcode' = [exitcode EXCEPT ![j] = Empty]
     \/ /\ shell[j] = "recording"
        /\ shell' = [shell EXCEPT ![j] = "gone"]
        /\ exitcode' = [exitcode EXCEPT ![j] = IF dir[j] = "there" THEN code[j] ELSE NoFile]
     \/ /\ dir[j] # "there"
        /\ shell[j] = "starting" \/ (shell[j] = "waiting" /\ command[j] = "ended")
        /\ shell' = [shell EXCEPT ![j] = "gone"]
        /\ UNCHANGED exitcode
  /\ UNCHANGED <<spawner, dir, meta, log, command, code, term, reused, client>>

ShellDies(j) ==
  /\ shell[j] \notin {"none", "gone"} /\ term[j]
  /\ shell' = [shell EXCEPT ![j] = "gone"]
  /\ UNCHANGED <<spawner, files, command, code, term, reused, client>>

(* Another process is given the number, and ends. *)
Reuse(j) ==
  /\ shell[j] = "gone"
  /\ reused' = [reused EXCEPT ![j] = ~@]
  /\ UNCHANGED <<spawner, files, shell, command, code, term, client>>

-----------------------------------------------------------------------------
(* The clients.                                                            *)

Step(c, there) == client' = [client EXCEPT ![c].at = there]

(* cancel asks for the state at once, logs wants a log, list and clean     *)
(* take the jobs that have a record, and list and status read it first.    *)
Ask(c, j, op) ==
  /\ client[c].at = "idle"
  /\ \/ op = "cancel"
     \/ op = "logs" /\ log[j] # NoFile /\ dir[j] = "there"
     \/ op \in {"clean", "clean --all"} /\ meta[j] # NoFile
     \/ op = "status" /\ meta[j] = "written"
  /\ client' = [client EXCEPT ![c] =
                  [Resting EXCEPT !.at = IF op = "logs" THEN "follow" ELSE "look",
                                  !.op = op, !.job = j]]
  /\ UNCHANGED <<spawner, files, processes>>

(* _status. *)
Look(c) ==
  /\ client[c].at = "look"
  /\ Step(c, IF exitcode[client[c].job] # NoFile THEN "read" ELSE "meta")
  /\ UNCHANGED <<spawner, files, processes>>

Decide(c, verdict, result) ==
  client' = [client EXCEPT ![c].at = "decided", ![c].verdict = verdict, ![c].code = result]

\* Mutation: an exit code that is not there yet counts as 0.
ReadExitLeniently(c) ==
  LET raw == exitcode[client[c].job]
  IN  /\ client[c].at = "read"
      /\ \/ raw = NoFile /\ Step(c, "crashed")
         \/ raw # NoFile /\ Decide(c, IF raw \in {Empty, 0} THEN "done" ELSE "failed",
                                      IF raw = Empty THEN 0 ELSE raw)
      /\ UNCHANGED <<spawner, files, processes>>

(* A code that is not a number is reported as -1. *)
ReadExit(c) ==
  LET raw == exitcode[client[c].job]
  IN  /\ client[c].at = "read"
      /\ \/ raw = NoFile /\ Step(c, "crashed")
         \/ raw # NoFile /\ Decide(c, IF raw = 0 THEN "done" ELSE "failed",
                                      IF raw = Empty THEN -1 ELSE raw)
      /\ UNCHANGED <<spawner, files, processes>>

ReadMeta(c) ==
  LET record == meta[client[c].job]
  IN  /\ client[c].at = "meta"
      /\ \/ record = NoFile /\ Decide(c, "unknown", NoFile)
         \/ record = Empty /\ Step(c, "crashed")
         \/ record = "written" /\ Step(c, "alive")
      /\ UNCHANGED <<spawner, files, processes>>

\* Mutation: every process number counts as alive.
PidAliveAlways(j) == TRUE

PidAlive(j) == shell[j] # "gone" \/ reused[j]

Probe(c) ==
  /\ client[c].at = "alive"
  /\ Decide(c, IF PidAlive(client[c].job) THEN "running" ELSE "killed", NoFile)
  /\ UNCHANGED <<spawner, files, processes>>

Report(c) ==
  /\ client[c].at = "decided" /\ client[c].op = "status"
  /\ Step(c, "over")
  /\ UNCHANGED <<spawner, files, processes>>

(* logs --follow: print what is new, ask for the state, and print once     *)
(* more when the job is no longer running.  The file stays open.           *)
Follow(c) ==
  /\ client[c].at = "follow"
  /\ client' = [client EXCEPT ![c].at = "look", ![c].printed = log[client[c].job]]
  /\ UNCHANGED <<spawner, files, processes>>

\* Mutation: without the last look at the file.
StopFollowingAtOnce(c) ==
  /\ client[c].at = "decided" /\ client[c].op = "logs"
  /\ Step(c, IF client[c].verdict = "running" THEN "follow" ELSE "over")
  /\ UNCHANGED <<spawner, files, processes>>

StopFollowing(c) ==
  /\ client[c].at = "decided" /\ client[c].op = "logs"
  /\ IF client[c].verdict = "running" THEN Step(c, "follow")
     ELSE client' = [client EXCEPT ![c].at = "over", ![c].printed = log[client[c].job]]
  /\ UNCHANGED <<spawner, files, processes>>

(* cancel: only a job that runs, by the number read once more. *)
Cancel(c) ==
  LET j == client[c].job
  IN  /\ client[c].at = "decided" /\ client[c].op = "cancel"
      /\ term' = [term EXCEPT ![j] =
                    @ \/ /\ client[c].verdict = "running" /\ meta[j] = "written"
                         /\ shell[j] # "gone"]
      /\ Step(c, IF client[c].verdict = "running" /\ meta[j] # "written" THEN "crashed" ELSE "over")
      /\ UNCHANGED <<spawner, files, shell, command, code, reused>>

RemoveRecord(j) ==
  /\ dir' = [dir EXCEPT ![j] = "removed"]
  /\ meta' = [meta EXCEPT ![j] = NoFile]
  /\ exitcode' = [exitcode EXCEPT ![j] = NoFile]
  /\ UNCHANGED log

Clean(c) ==
  /\ client[c].at = "decided" /\ client[c].op \in {"clean", "clean --all"}
  /\ IF client[c].op = "clean --all" \/ client[c].verdict # "running"
     THEN RemoveRecord(client[c].job) ELSE UNCHANGED files
  /\ Step(c, "over")
  /\ UNCHANGED <<spawner, processes>>

Leave(c) ==
  /\ client[c].at \in {"over", "crashed"}
  /\ client' = [client EXCEPT ![c] = Resting]
  /\ UNCHANGED <<spawner, files, processes>>

ClientStep(c) ==
  \/ Look(c) \/ ReadExit(c) \/ ReadMeta(c) \/ Probe(c) \/ Report(c)
  \/ Follow(c) \/ StopFollowing(c) \/ Cancel(c) \/ Clean(c) \/ Leave(c)

-----------------------------------------------------------------------------
(* Properties.                                                             *)

Callers ==
  [at : {"idle", "follow", "look", "read", "meta", "alive", "decided", "over", "crashed"},
   op : Operations, job : Jobs, printed : {NoFile} \cup Nat,
   verdict : Verdicts, code : {NoFile, -1} \cup Codes]

(* Types. *)
JobsTypeOK ==
  /\ spawner \in [Jobs -> {"none", "made", "forked", "writing", "over"}]
  /\ dir \in [Jobs -> {"none", "there", "removed"}]
  /\ meta \in [Jobs -> {NoFile, Empty, "written"}]
  /\ exitcode \in [Jobs -> {NoFile, Empty} \cup Codes]
  /\ log \in [Jobs -> {NoFile} \cup Nat]
  /\ shell \in [Jobs -> {"none", "starting", "waiting", "recording", "gone"}]
  /\ command \in [Jobs -> {"none", "running", "ended", "dead"}]
  /\ code \in [Jobs -> {NoFile} \cup Codes]
  /\ term \in [Jobs -> BOOLEAN] /\ reused \in [Jobs -> BOOLEAN]
  /\ client \in [Clients -> Callers]

Knows(c) == client[c].at \in {"decided", "over"}

(* A job that is reported done, or failed with a code, has ended with just *)
(* that code, whenever the files were read: the exit code file comes after *)
(* the command, and is not believed while it is empty.                     *)
ReportsTrue ==
  \A c \in Clients :
    Knows(c) /\ client[c].code \in Codes =>
      /\ code[client[c].job] = client[c].code
      /\ (client[c].verdict = "done") <=> (client[c].code = 0)

(* logs --follow that stops because the job is done or has failed has      *)
(* printed its whole log, also what came between its last read of the file *)
(* and its question about the state.                                       *)
FollowComplete ==
  \A c \in Clients :
    /\ client[c].at = "over" /\ client[c].op = "logs"
    /\ client[c].verdict \in {"done", "failed"}
    => client[c].printed = log[client[c].job]

(* clean without --all keeps the record of a job whose command runs and    *)
(* has not been cancelled, at whatever moment it asks.                     *)
CleanKeepsRunning ==
  [][\A c \in Clients, j \in Jobs :
       /\ client[c].at = "decided" /\ client[c].op = "clean" /\ client[c].job = j
       /\ client'[c].at = "over" /\ dir[j] = "there" /\ dir'[j] = "removed"
       => command[j] # "running" \/ term[j]]_jobVars

(* Whoever follows a job gets away when it is over, however it ended,      *)
(* unless its number has been given to a process that lasts.               *)
FollowerLeaves ==
  \A c \in Clients, j \in Jobs :
    client[c].op = "logs" /\ client[c].job = j /\ client[c].at # "idle"
      ~> client[c].at = "idle" \/ reused[j]
=============================================================================
