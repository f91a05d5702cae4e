--------------------------- MODULE EngineOutputBus --------------------------
(***************************************************************************)
(* The run-wide output queue (engine/agents/engine_output_bus.py) and the  *)
(* output range each agent reports to its parent                           *)
(* (engine/agents/openai_agent_runner.py, engine/tools/subagent_result.py).*)
(*                                                                         *)
(* Coroutines of one event loop share the bus, so what runs between two    *)
(* suspensions is one step.  emit() never suspends: no coroutine waits     *)
(* while it holds the lock, so the lock is always free, and the queue is   *)
(* created without a maximum size, so put() never waits.                   *)
(***************************************************************************)
EXTENDS Integers, Sequences, FiniteSets

CONSTANTS
  Emitters,   (* the agents of a run, root and subagents *)
  MaxEvents   (* bound: events emitted                   *)

ASSUME BusAssumption == MaxEvents \in Nat

VARIABLES
  nextSequence,  (* _next_sequence                                        *)
  queue,         (* _queue: events and at most one signal                 *)
  received,      (* history: what stream() has yielded                    *)
  stream,        (* stream(): open, ended, raised, or left by the caller  *)
  ranges,        (* agent_execution.output_start_/output_end_sequence     *)
  sealedAt       (* history: _next_sequence when the signal was pushed    *)

busVars == <<nextSequence, queue, received, stream, ranges, sealedAt>>

NoSequence == -1
Signals == {"close", "fail"}
Event(seq, a, kind) == [sequence |-> seq, by |-> a, kind |-> kind]
Signal(end) == [kind |-> end]
IsSignal(entry) == entry.kind \in Signals
Events == [sequence : Nat, by : Emitters, kind : {"item", "delta"}]

BusInit ==
  /\ nextSequence = 0
  /\ queue = <<>>
  /\ received = <<>>
  /\ stream = "open"
  /\ ranges = [a \in Emitters |-> [first |-> NoSequence, last |-> NoSequence]]
  /\ sealedAt = NoSequence

\* Mutation: every item restarts the range.
WidenRestarting(range, seq) == [first |-> seq, last |-> seq]

\* runner: the first emitted item fixes the start, each moves the end; text
\* deltas are sequenced but not part of the range.
Widen(range, seq) ==
  [first |-> IF range.first = NoSequence THEN seq ELSE range.first, last |-> seq]

Emit(a, kind) ==
  /\ nextSequence < MaxEvents
  /\ queue' = Append(queue, Event(nextSequence, a, kind))
  /\ nextSequence' = nextSequence + 1
  /\ ranges' = IF kind = "item" THEN [ranges EXCEPT ![a] = Widen(@, nextSequence)]
               ELSE ranges
  /\ UNCHANGED <<received, stream, sealedAt>>

\* Mutations: the signal overtakes what is queued, or replaces it.
PushAhead(end) ==
  /\ sealedAt = NoSequence
  /\ queue' = <<Signal(end)>> \o queue
  /\ sealedAt' = nextSequence
  /\ UNCHANGED <<nextSequence, received, stream, ranges>>
PushDropping(end) ==
  /\ sealedAt = NoSequence
  /\ queue' = <<Signal(end)>>
  /\ sealedAt' = nextSequence
  /\ UNCHANGED <<nextSequence, received, stream, ranges>>

\* close() and fail(): the driver pushes exactly one of them.
Push(end) ==
  /\ sealedAt = NoSequence
  /\ queue' = Append(queue, Signal(end))
  /\ sealedAt' = nextSequence
  /\ UNCHANGED <<nextSequence, received, stream, ranges>>

\* Mutation: stream() takes the newest event first.
GetNewest ==
  /\ stream = "open"
  /\ queue # <<>>
  /\ LET newest == queue[Len(queue)] IN
     /\ queue' = SubSeq(queue, 1, Len(queue) - 1)
     /\ received' = IF IsSignal(newest) THEN received ELSE Append(received, newest)
     /\ stream' = IF ~IsSignal(newest) THEN stream
                  ELSE IF newest.kind = "close" THEN "ended" ELSE "raised"
  /\ UNCHANGED <<nextSequence, ranges, sealedAt>>

\* stream(): take the head; a signal ends the iteration.
Get ==
  /\ stream = "open"
  /\ queue # <<>>
  /\ queue' = Tail(queue)
  /\ \/ /\ ~IsSignal(Head(queue))
        /\ received' = Append(received, Head(queue))
        /\ stream' = stream
     \/ /\ IsSignal(Head(queue))
        /\ stream' = IF Head(queue).kind = "close" THEN "ended" ELSE "raised"
        /\ received' = received
  /\ UNCHANGED <<nextSequence, ranges, sealedAt>>

\* The caller closes the generator or its task is cancelled.
Leave ==
  /\ stream = "open"
  /\ stream' = "left"
  /\ UNCHANGED <<nextSequence, queue, received, ranges, sealedAt>>

\* What the parent is told about a finished child (SubagentToolResult).
ReportedRange(a) ==
  [first |-> IF ranges[a].first = NoSequence THEN 0 ELSE ranges[a].first,
   last  |-> IF ranges[a].last = NoSequence THEN 0 ELSE ranges[a].last]

-----------------------------------------------------------------------------
BusNext ==
  \/ \E a \in Emitters, kind \in {"item", "delta"} : Emit(a, kind)
  \/ \E end \in Signals : Push(end)
  \/ Get \/ Leave

\* The caller keeps asking for the next event while it listens.
BusSpec == BusInit /\ [][BusNext]_busVars /\ WF_busVars(Get)

-----------------------------------------------------------------------------
\* The items an agent has emitted, delivered or still queued.
BusEntries == {received[i] : i \in 1..Len(received)} \cup {queue[i] : i \in 1..Len(queue)}
OwnItems(a) == {e \in BusEntries : e.kind = "item" /\ e.by = a}

\* The events queued before the signal: those stream() still owes the caller.
Owed == {i \in 1..Len(queue) : \A j \in 1..i : ~IsSignal(queue[j])}
Promised == IF stream \in {"ended", "raised"} THEN received
            ELSE received \o SubSeq(queue, 1, Cardinality(Owed))

BusTypeOK ==
  /\ nextSequence \in 0..MaxEvents
  /\ \A i \in 1..Len(queue) : queue[i] \in Events \cup {Signal(end) : end \in Signals}
  /\ received \in Seq(Events)
  /\ stream \in {"open", "ended", "raised", "left"}
  /\ ranges \in [Emitters -> [first : Nat \cup {NoSequence}, last : Nat \cup {NoSequence}]]
  /\ sealedAt \in Nat \cup {NoSequence}

\* Whoever emits and however the caller's reads interleave with it, what the
\* caller sees is numbered 0, 1, 2, ... without gap, repetition or inversion.
InSequence == \A i \in 1..Len(received) : received[i].sequence = i - 1

\* When the stream ends, normally or by raising, everything emitted before the
\* signal has been yielded: fail() "raises after yielding any already-emitted
\* items".
DrainedBeforeEnd == stream \in {"ended", "raised"} => Len(received) = sealedAt

\* An agent's reported range is delimited by two of its own items and holds
\* all of them, so the parent can find the child's output in the stream.
RangesHoldOwnItems ==
  \A a \in Emitters : OwnItems(a) # {} =>
    /\ \A e \in OwnItems(a) : ranges[a].first <= e.sequence /\ e.sequence <= ranges[a].last
    /\ \E e, f \in OwnItems(a) : e.sequence = ranges[a].first /\ f.sequence = ranges[a].last

\* The bus delivers what OrderedStream promises.
PromisedLog == [i \in 1..Len(Promised) |-> Promised[i].by]
Fate ==
  IF stream \in {"ended", "raised"} THEN stream
  ELSE IF \E i \in 1..Len(queue) : queue[i].kind = "close" THEN "ended"
  ELSE IF \E i \in 1..Len(queue) : queue[i].kind = "fail" THEN "raised"
  ELSE "running"

Promise == INSTANCE OrderedStream WITH
  Agents <- Emitters, log <- PromisedLog, fate <- Fate,
  taken <- Len(received), outcome <- stream

KeepsPromise == Promise!Spec
=============================================================================
