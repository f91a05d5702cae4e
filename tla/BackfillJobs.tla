---------------------------- MODULE BackfillJobs ----------------------------
(***************************************************************************)
(* `halo backfill`, in the foreground or, with --detach, as the command of *)
(* a job.  Each page of a run is a line of its job's log (what it prints   *)
(* at its end is left out), its exit code is the job's, and the signal     *)
(* that cancels the job kills it between any two of its steps.             *)
(***************************************************************************)
EXTENDS Jobs, Backfill

CONSTANT
  Casts         (* bound: who takes part in a behaviour *)

ASSUME CastsAssumption ==
  /\ Jobs \subseteq Runs
  /\ \A k \in Casts : k.asks \in [Clients -> SUBSET Operations]

VARIABLE
  cast          (* the runs there may be, what each client asks, whose number is *)
                (* used again, and the observations there are at first           *)

vars == <<jobVars, backfillVars, cast>>

Init ==
  /\ cast \in Casts
  /\ JobsInit /\ BackfillInit
  /\ source = cast.found

(* A step of a run that prints nothing. *)
Quiet(r) ==
  \/ \E full \in BOOLEAN : Begin(r, full)
  \/ Retry(r) \/ GiveUp(r) \/ Flush(r) \/ Close(r) \/ OpenCursor(r) \/ WriteCursor(r)

(* What the command of a job does. *)
CommandStep(j) ==
  /\ \/ command[j] = "running" /\ Quiet(j) /\ UNCHANGED jobVars
     \/ Answer(j) /\ (IF Rows(j) = <<>> THEN UNCHANGED jobVars ELSE CommandPrints(j))
     \/ End(j) /\ CommandEnds(j, status[j])
     \/ CommandDies(j) /\ Kill(j)
  /\ UNCHANGED cast

(* A run in the foreground; it may be interrupted. *)
Foreground(r) ==
  /\ r \in cast.runs \ Jobs
  /\ \/ Quiet(r) \/ Answer(r) \/ End(r)
     \/ Busy(r) /\ Kill(r)
  /\ UNCHANGED <<jobVars, cast>>

Arrival ==
  /\ Len(source) < cast.arrived /\ Arrive
  /\ UNCHANGED <<jobVars, cast>>

Spawn(j) ==
  /\ j \in cast.runs
  /\ MakeDir(j) \/ Popen(j) \/ WriteMeta(j) \/ SpawnerDies(j)
  /\ UNCHANGED <<backfillVars, cast>>

Shell(j) ==
  /\ Redirect(j) \/ Echo(j) \/ ShellDies(j)
  /\ UNCHANGED <<backfillVars, cast>>

NumberReused(j) ==
  /\ j \in cast.reused /\ Reuse(j)
  /\ UNCHANGED <<backfillVars, cast>>

Asks(c) ==
  /\ \E j \in Jobs, op \in cast.asks[c] : Ask(c, j, op)
  /\ UNCHANGED <<backfillVars, cast>>

Answers(c) == ClientStep(c) /\ UNCHANGED <<backfillVars, cast>>

Next ==
  \/ Arrival
  \/ \E j \in Jobs : Spawn(j) \/ Shell(j) \/ CommandStep(j) \/ NumberReused(j)
  \/ \E r \in Runs : Foreground(r)
  \/ \E c \in Clients : Asks(c) \/ Answers(c)

Spec == Init /\ [][Next]_vars

(* The operating system runs what can run: the commands, the shells, the   *)
(* clients, and the death of what was sent a signal.  Nobody is obliged to *)
(* start a job or to ask for one.                                          *)
FairSpec ==
  /\ Spec
  /\ \A j \in Jobs : WF_vars(CommandStep(j)) /\ WF_vars(Shell(j))
  /\ \A c \in Clients : WF_vars(Answers(c))
=============================================================================
