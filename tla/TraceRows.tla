----------------------------- MODULE TraceRows ------------------------------
(***************************************************************************)
(* The rows of the trace index (src/engine/traces/trace_index_builder.py). *)
(*                                                                         *)
(* A trace file is a sequence of lines; a line is Blank or a span.  The    *)
(* builder scans the file for its non-empty lines, reads them back in one  *)
(* pass, or, when there are many, in contiguous chunks given to worker     *)
(* processes whose partial rows are then merged.                           *)
(*                                                                         *)
(* A span keeps the fields whose rollups differ in kind: the trace and     *)
(* place (lists kept in file order), the span and its parent (a count over *)
(* the whole trace that cannot be added up over chunks), the project (the  *)
(* first one wins), the start time (the earliest; exporters always set it) *)
(* and the status (errors are counted).  Sums and sets of names roll up as *)
(* these do.                                                               *)
(***************************************************************************)
EXTENDS Integers, FiniteSets, SequencesExt

CONSTANTS
  Blank,        (* a line that holds nothing *)
  NoId          (* an absent parent or project *)

-----------------------------------------------------------------------------
(* Stage 1.  The place of a line stands for its byte offset and length.    *)

(* A set of places, as the sequence that goes through them in order. *)
InOrder(places) ==
  [n \in 1..Cardinality(places) |->
     CHOOSE i \in places : Cardinality({j \in places : j <= i}) = n]

LineOffsets(lines) == InOrder({i \in DOMAIN lines : lines[i] # Blank})

Located(lines, offsets) ==
  [i \in 1..Len(offsets) |->
     LET l == lines[offsets[i]]
     IN  [at |-> offsets[i], trace |-> l.trace, span |-> l.span, parent |-> l.parent,
          project |-> l.project, start |-> l.start, error |-> l.error]]

-----------------------------------------------------------------------------
(* Accumulators.                                                           *)

Fresh(t) ==
  [trace |-> t, offsets |-> <<>>, start |-> NoId, project |-> NoId, projects |-> {},
   spans |-> {}, parents |-> {}, errors |-> 0, missing |-> 0]

Earlier(time, other) == IF time = NoId \/ other < time THEN other ELSE time

Absorb(acc, l) ==
  [trace |-> acc.trace,
   offsets |-> Append(acc.offsets, l.at),
   start |-> Earlier(acc.start, l.start),
   project |-> IF acc.project = NoId THEN l.project ELSE acc.project,
   projects |-> acc.projects \cup ({l.project} \ {NoId}),
   spans |-> acc.spans \cup {l.span},
   parents |-> acc.parents \cup ({l.parent} \ {NoId}),
   errors |-> IF l.error THEN acc.errors + 1 ELSE acc.errors,
   missing |-> acc.missing]

\* Mutation: the later chunk's project replaces the earlier one's.
MergeInLastProject(acc, other) ==
  [trace |-> acc.trace,
   offsets |-> acc.offsets \o other.offsets,
   start |-> Earlier(acc.start, other.start),
   project |-> IF other.project = NoId THEN acc.project ELSE other.project,
   projects |-> acc.projects \cup other.projects,
   spans |-> acc.spans \cup other.spans,
   parents |-> acc.parents \cup other.parents,
   errors |-> acc.errors + other.errors,
   missing |-> acc.missing]

(* A partial has absorbed a line, so its start is set. *)
MergeIn(acc, other) ==
  [trace |-> acc.trace,
   offsets |-> acc.offsets \o other.offsets,
   start |-> Earlier(acc.start, other.start),
   project |-> IF acc.project = NoId THEN other.project ELSE acc.project,
   projects |-> acc.projects \cup other.projects,
   spans |-> acc.spans \cup other.spans,
   parents |-> acc.parents \cup other.parents,
   errors |-> acc.errors + other.errors,
   missing |-> acc.missing]

FinalizeValidation(acc) == [acc EXCEPT !.missing = Cardinality(acc.parents \ acc.spans)]

-----------------------------------------------------------------------------
(* Stages 2 and 3.  A dictionary of accumulators is the sequence of them   *)
(* in the order they were put in.                                          *)

Knows(accs, t) == \E n \in DOMAIN accs : accs[n].trace = t

AbsorbLine(accs, l) ==
  IF Knows(accs, l.trace)
  THEN [n \in DOMAIN accs |->
          IF accs[n].trace = l.trace THEN Absorb(accs[n], l) ELSE accs[n]]
  ELSE Append(accs, Absorb(Fresh(l.trace), l))

AbsorbedUpTo(chunk) ==
  LET upTo[k \in 0..Len(chunk)] ==
        IF k = 0 THEN <<>> ELSE AbsorbLine(upTo[k - 1], chunk[k])
  IN  upTo

Absorbed(chunk) == AbsorbedUpTo(chunk)[Len(chunk)]

Finalized(accs) == [n \in DOMAIN accs |-> FinalizeValidation(accs[n])]

ProcessChunk(chunk) == Finalized(Absorbed(chunk))

SplitIntoChunks(located, workers) ==
  LET n == Min({workers, Len(located)})
      Before(i) == (Len(located) \div n) * i + Min({i, Len(located) % n})
  IN  [i \in 1..n |-> SubSeq(located, Before(i - 1) + 1, Before(i))]

MergeAcc(merged, acc) ==
  IF Knows(merged, acc.trace)
  THEN [n \in DOMAIN merged |->
          IF merged[n].trace = acc.trace THEN MergeIn(merged[n], acc) ELSE merged[n]]
  ELSE Append(merged, acc)

MergedWith(merged, partial) ==
  LET upTo[k \in 0..Len(partial)] ==
        IF k = 0 THEN merged ELSE MergeAcc(upTo[k - 1], partial[k])
  IN  upTo

MergePartial(merged, partial) == MergedWith(merged, partial)[Len(partial)]

MergedUpTo(partials) ==
  LET upTo[k \in 0..Len(partials)] ==
        IF k = 0 THEN <<>> ELSE MergePartial(upTo[k - 1], partials[k])
  IN  upTo

MergeAccumulators(partials) == Finalized(MergedUpTo(partials)[Len(partials)])

(* _run_build: below the threshold in one piece, else a chunk per worker. *)
BuildRows(located, threshold, workers) ==
  IF located = <<>> THEN <<>>
  ELSE IF Len(located) < threshold THEN ProcessChunk(located)
  ELSE LET chunks == SplitIntoChunks(located, workers)
       IN  MergeAccumulators([i \in 1..Len(chunks) |-> ProcessChunk(chunks[i])])
=============================================================================
