---------------------------- MODULE OrderedStream ---------------------------
(***************************************************************************)
(* What a caller of stream_engine_async is promised: the events of all the *)
(* agents as one stream, in one order, each exactly once, and an outcome   *)
(* that is reported only after every event that preceded it.               *)
(***************************************************************************)
EXTENDS Naturals, Sequences

CONSTANT Agents

VARIABLES
  log,      (* who produced the events that must be delivered, in order *)
  fate,     (* how the run ended, once it has                           *)
  taken,    (* how many events the caller has                           *)
  outcome   (* what the caller was told                                 *)

svars == <<log, fate, taken, outcome>>

Init ==
  /\ log = <<>>
  /\ fate = "running"
  /\ taken = 0
  /\ outcome = "open"

Produce(a) ==
  /\ fate = "running"
  /\ log' = Append(log, a)
  /\ UNCHANGED <<fate, taken, outcome>>

\* The run ends; what is produced later belongs to no stream.
Seal(end) ==
  /\ fate = "running"
  /\ fate' = end
  /\ UNCHANGED <<log, taken, outcome>>

Take ==
  /\ outcome = "open"
  /\ taken < Len(log)
  /\ taken' = taken + 1
  /\ UNCHANGED <<log, fate, outcome>>

Report ==
  /\ outcome = "open"
  /\ fate # "running"
  /\ taken = Len(log)
  /\ outcome' = fate
  /\ UNCHANGED <<log, fate, taken>>

\* The caller stops listening.
Leave ==
  /\ outcome = "open"
  /\ outcome' = "left"
  /\ UNCHANGED <<log, fate, taken>>

Next ==
  \/ \E a \in Agents : Produce(a)
  \/ \E end \in {"ended", "raised"} : Seal(end)
  \/ Take \/ Report \/ Leave

Spec == Init /\ [][Next]_svars /\ WF_svars(Take) /\ WF_svars(Report)
=============================================================================
