----------------------------- MODULE TraceIndex -----------------------------
(***************************************************************************)
(* The index beside a trace file: ensure_index_exists and build_index of   *)
(* src/engine/traces/trace_index_builder.py, and TraceStore.load.          *)
(*                                                                         *)
(* Builders are runs of the engine over one trace file.  Each stats the    *)
(* file, reuses the index if the meta file vouches for it, and otherwise   *)
(* scans the file, reads the spans, writes index and meta under temporary  *)
(* names and renames the two, one after the other.  A builder can die      *)
(* between any two of these steps.                                         *)
(*                                                                         *)
(* The trace file has writers of its own: exporters that append, whose     *)
(* last line may be half written, and `halo convert`, which truncates it   *)
(* and writes it again.  A write need not advance the file's time stamp    *)
(* unless it truncates; an append always advances its size.                *)
(*                                                                         *)
(* A temporary name is derived from the index path alone, so builders of   *)
(* the same trace share it.  handle says where the file a builder has open *)
(* is by now: still under the temporary name, renamed into place by        *)
(* another builder, or replaced there and lost.                            *)
(***************************************************************************)
EXTENDS TraceRows

CONSTANTS
  Builders,         (* runs over the same trace file *)
  Lines,            (* what a line of it can be *)
  Spans,            (* the lines its writers add *)
  TracesFound,      (* the trace files a first run can find *)
  Threshold,        (* SMALL_FILE_THRESHOLD *)
  Workers,          (* _available_cpus() *)
  MaxLines,         (* bound: lines of the trace file *)
  MaxTime,          (* bound: time stamps *)
  MaxCrashes        (* bound: builders that die *)

SchemaVersion == 2

Fingerprints == [size : Nat, mtime : Nat]
Metas == [schema : Nat, source : Fingerprints]
Sidecars == {"index", "meta"}

(* What a sidecar can hold besides a meta file or an index: it is absent,  *)
(* truncated, overwritten halfway, or an index of an earlier schema.       *)
NoFile == [file |-> "absent"]
Empty == [file |-> "empty"]
Garbled == [file |-> "garbled"]
OldRows == [file |-> "old"]

IndexFile(r) == [rows |-> r]

ASSUME TraceIndexAssumption ==
  /\ Threshold \in Nat /\ Workers \in Nat \ {0}
  /\ MaxLines \in Nat /\ MaxTime \in Nat /\ MaxCrashes \in Nat
  /\ Spans \subseteq Lines \ {Blank} /\ TracesFound \subseteq Seq(Lines)
  /\ \A l \in Lines \ {Blank} : l.start \in Nat /\ l.error \in BOOLEAN
  /\ NoId \notin Nat

VARIABLES
  trace,       (* the trace file: lines, a torn last line, its time stamp, *)
               (* and the time it was last truncated                       *)
  live,        (* the sidecar files in place *)
  tmp,         (* the sidecar files under their temporary names *)
  pc,          (* where each builder is *)
  handle,      (* where the file a builder is writing is by now *)
  source,      (* the fingerprint a builder took *)
  offsets,     (* what its scan found: places, a torn last line, the file's birth *)
  rows,        (* the rows it built *)
  store,       (* the rows the run works with *)
  crashes

builder == <<pc, handle, source, offsets, rows, store>>
vars == <<trace, live, tmp, pc, handle, source, offsets, rows, store, crashes>>

Resting == {"idle", "failed", "loaded"}
Opening == [index |-> "open index", meta |-> "open meta"]
Writing == [index |-> "write index", meta |-> "write meta"]
Replacing == [index |-> "replace index", meta |-> "replace meta"]
PCs == Resting \cup {"check", "scan", "parse", "load"}
       \cup {Opening[k] : k \in Sidecars} \cup {Writing[k] : k \in Sidecars}
       \cup {Replacing[k] : k \in Sidecars}

(* A line counts two units of size and a torn one a single unit. *)
Fingerprint(t) == [size |-> 2 * Len(t.lines) + (IF t.torn THEN 1 ELSE 0), mtime |-> t.mtime]

RowsOf(lines) == BuildRows(Located(lines, LineOffsets(lines)), Threshold, Workers)

(* A truncated index is an index without rows; a truncated meta file does  *)
(* not parse.                                                              *)
Truncated == [index |-> IndexFile(<<>>), meta |-> Empty]

NothingFound == [at |-> <<>>, torn |-> FALSE, born |-> 0]

NewMeta(fp) == [schema |-> SchemaVersion, source |-> fp]

-----------------------------------------------------------------------------
(* The trace file and its writers.                                         *)

Init ==
  /\ trace \in [lines : TracesFound, torn : {FALSE}, mtime : {0}, born : {0}]
  /\ live \in {[index |-> NoFile, meta |-> NoFile],
               [index |-> OldRows,
                meta |-> [schema |-> SchemaVersion - 1, source |-> Fingerprint(trace)]]}
  /\ tmp = [k \in Sidecars |-> NoFile]
  /\ pc = [b \in Builders |-> "idle"]
  /\ handle = [b \in Builders |-> "tmp"]
  /\ source = [b \in Builders |-> Fingerprint(trace)]
  /\ offsets = [b \in Builders |-> NothingFound]
  /\ rows = [b \in Builders |-> <<>>]
  /\ store = [b \in Builders |-> <<>>]
  /\ crashes = 0

Stamps == {trace.mtime, trace.mtime + 1} \cap 0..MaxTime

WriteLine(l) ==
  /\ Len(trace.lines) < MaxLines
  /\ \E now \in Stamps :
       trace' = [trace EXCEPT !.lines = Append(@, l), !.torn = FALSE, !.mtime = now]
  /\ UNCHANGED <<live, tmp, builder, crashes>>

TearLine ==
  /\ ~trace.torn /\ Len(trace.lines) < MaxLines
  /\ \E now \in Stamps : trace' = [trace EXCEPT !.torn = TRUE, !.mtime = now]
  /\ UNCHANGED <<live, tmp, builder, crashes>>

Truncate ==
  /\ trace.mtime < MaxTime
  /\ trace' = [lines |-> <<>>, torn |-> FALSE, mtime |-> trace.mtime + 1, born |-> trace.mtime + 1]
  /\ UNCHANGED <<live, tmp, builder, crashes>>

-----------------------------------------------------------------------------
(* ensure_index_exists.                                                    *)

Go(b, there) == pc' = [pc EXCEPT ![b] = there]

Stat(b) ==
  /\ pc[b] \in Resting
  /\ Go(b, "check")
  /\ source' = [source EXCEPT ![b] = Fingerprint(trace)]
  /\ store' = [store EXCEPT ![b] = <<>>]
  /\ UNCHANGED <<trace, live, tmp, handle, offsets, rows, crashes>>

\* Mutation: only the size is compared.
VouchesBySize(meta, fp) ==
  /\ meta \in Metas
  /\ meta.schema = SchemaVersion
  /\ meta.source.size = fp.size

Vouches(meta, fp) == meta = NewMeta(fp)

Check(b) ==
  /\ pc[b] = "check"
  /\ Go(b, IF live.index = NoFile \/ live.meta = NoFile THEN "scan"
           ELSE IF live.meta \in {Empty, Garbled} THEN "failed"
           ELSE IF Vouches(live.meta, source[b]) THEN "load" ELSE "scan")
  /\ UNCHANGED <<trace, live, tmp, handle, source, offsets, rows, store, crashes>>

(* Stage 1.  A file without lines has no rows to build. *)
Scan(b) ==
  /\ pc[b] = "scan"
  /\ offsets' = [offsets EXCEPT ![b] =
                   [at |-> LineOffsets(trace.lines), torn |-> trace.torn, born |-> trace.born]]
  /\ rows' = [rows EXCEPT ![b] = <<>>]
  /\ Go(b, IF LineOffsets(trace.lines) = <<>> /\ ~trace.torn THEN Opening["index"] ELSE "parse")
  /\ UNCHANGED <<trace, live, tmp, handle, source, store, crashes>>

(* Stage 2.  The lines are read back at the places the scan found.  A half *)
(* line does not parse.  If the file was truncated in between, the places  *)
(* hold other bytes, which parse or do not, or nothing, which is skipped.  *)
Parse(b) ==
  LET truncated == trace.born # offsets[b].born
      found == IF ~truncated THEN offsets[b].at
               ELSE SelectSeq(offsets[b].at,
                              LAMBDA i : i <= Len(trace.lines) /\ trace.lines[i] # Blank)
  IN  /\ pc[b] = "parse"
      /\ \/ /\ ~offsets[b].torn \/ truncated
            /\ rows' = [rows EXCEPT ![b] =
                          BuildRows(Located(trace.lines, found), Threshold, Workers)]
            /\ Go(b, Opening["index"])
         \/ /\ offsets[b].torn \/ truncated
            /\ Go(b, "failed")
            /\ UNCHANGED rows
      /\ offsets' = [offsets EXCEPT ![b] = NothingFound]
      /\ UNCHANGED <<trace, live, tmp, handle, source, store, crashes>>

-----------------------------------------------------------------------------
(* _write_atomic.  A small file reaches the disk when it is closed.        *)

\* Mutation: the file is written in place.
OpenInPlace(b, k) ==
  /\ pc[b] = Opening[k]
  /\ live' = [live EXCEPT ![k] = Truncated[k]]
  /\ handle' = [handle EXCEPT ![b] = "live"]
  /\ Go(b, Writing[k])
  /\ UNCHANGED <<trace, tmp, source, offsets, rows, store, crashes>>

OpenTmp(b, k) ==
  /\ pc[b] = Opening[k]
  /\ tmp' = [tmp EXCEPT ![k] = Truncated[k]]
  /\ handle' = [handle EXCEPT ![b] = "tmp"]
  /\ Go(b, Writing[k])
  /\ UNCHANGED <<trace, live, source, offsets, rows, store, crashes>>

(* Written over what another builder wrote, the longer of the two shows. *)
Overwritten(k, old, new) == IF old \in {Truncated[k], new} THEN {new} ELSE {new, Garbled}

\* Mutation: the fingerprint is taken after the build.
ContentStattedLate(b, k) == IF k = "index" THEN IndexFile(rows[b]) ELSE NewMeta(Fingerprint(trace))

Content(b, k) == IF k = "index" THEN IndexFile(rows[b]) ELSE NewMeta(source[b])

CloseTmp(b, k) ==
  /\ pc[b] = Writing[k]
  /\ \/ /\ handle[b] = "tmp"
        /\ \E file \in Overwritten(k, tmp[k], Content(b, k)) : tmp' = [tmp EXCEPT ![k] = file]
        /\ UNCHANGED live
     \/ /\ handle[b] = "live"
        /\ \E file \in Overwritten(k, live[k], Content(b, k)) : live' = [live EXCEPT ![k] = file]
        /\ UNCHANGED tmp
     \/ handle[b] = "lost" /\ UNCHANGED <<live, tmp>>
  /\ Go(b, IF k = "index" THEN Opening["meta"] ELSE Replacing["index"])
  /\ rows' = [rows EXCEPT ![b] = <<>>]
  /\ UNCHANGED <<trace, handle, source, offsets, store, crashes>>

(* Path.replace.  The name is gone if another builder was faster. *)
Replace(b, k) ==
  /\ pc[b] = Replacing[k]
  /\ IF tmp[k] = NoFile
     THEN Go(b, "failed") /\ UNCHANGED <<live, tmp, handle>>
     ELSE /\ live' = [live EXCEPT ![k] = tmp[k]]
          /\ tmp' = [tmp EXCEPT ![k] = NoFile]
          /\ handle' = [c \in Builders |->
                          IF pc[c] # Writing[k] THEN handle[c]
                          ELSE IF handle[c] = "tmp" THEN "live" ELSE "lost"]
          /\ Go(b, IF k = "index" THEN Replacing["meta"] ELSE "load")
  /\ UNCHANGED <<trace, source, offsets, rows, store, crashes>>

-----------------------------------------------------------------------------
(* TraceStore.load.                                                        *)

Load(b) ==
  /\ pc[b] = "load"
  /\ IF live.index \in {NoFile, Garbled}
     THEN Go(b, "failed") /\ UNCHANGED store
     ELSE /\ store' = [store EXCEPT ![b] = live.index.rows]
          /\ Go(b, "loaded")
  /\ UNCHANGED <<trace, live, tmp, handle, source, offsets, rows, crashes>>

(* The process dies and what it knew with it; temporary files stay. *)
Crash(b) ==
  /\ pc[b] \notin Resting /\ crashes < MaxCrashes
  /\ Go(b, "idle")
  /\ crashes' = crashes + 1
  /\ offsets' = [offsets EXCEPT ![b] = NothingFound]
  /\ rows' = [rows EXCEPT ![b] = <<>>]
  /\ UNCHANGED <<trace, live, tmp, handle, source, store>>

Work(b) ==
  \/ Stat(b) \/ Check(b) \/ Scan(b) \/ Parse(b) \/ Load(b)
  \/ \E k \in Sidecars : OpenTmp(b, k) \/ CloseTmp(b, k) \/ Replace(b, k)

Next ==
  \/ \E l \in Spans : WriteLine(l)
  \/ TearLine
  \/ Truncate
  \/ \E b \in Builders : Work(b) \/ Crash(b)

Spec == Init /\ [][Next]_vars

(* Runs keep being started and keep going, and a writer finishes its line. *)
(* Work(b) is never disabled, so its weak fairness is that it happens      *)
(* again and again, which spares TLC the evaluation of ENABLED.            *)
FairIndexSpec ==
  /\ Spec
  /\ \A b \in Builders : []<><<Work(b)>>_vars
  /\ WF_vars(trace.torn /\ \E l \in Spans : WriteLine(l))

-----------------------------------------------------------------------------
(* Properties.                                                             *)

Markers == {NoFile, Empty, Garbled}

(* Types. *)
IndexTypeOK ==
  /\ trace \in [lines : Seq(Lines), torn : BOOLEAN, mtime : Nat, born : Nat]
  /\ DOMAIN live = Sidecars /\ DOMAIN tmp = Sidecars
  /\ {live.meta, tmp.meta} \subseteq Metas \cup Markers
  /\ pc \in [Builders -> PCs]
  /\ handle \in [Builders -> {"tmp", "live", "lost"}]
  /\ source \in [Builders -> Fingerprints]
  /\ DOMAIN offsets = Builders /\ DOMAIN rows = Builders /\ DOMAIN store = Builders
  /\ crashes \in Nat

(* Whenever the meta file carries the fingerprint of the trace file as it  *)
(* is, the index beside it is the one a build of that file would write:    *)
(* the next run may reuse it unseen.  This is what ensure_index_exists     *)
(* rests on, across appends, truncation and crashes.                       *)
FingerprintVouches ==
  Vouches(live.meta, Fingerprint(trace)) =>
    live.index = IndexFile(RowsOf(trace.lines)) /\ ~trace.torn

(* A file in place is never open for writing nor overwritten halfway, so a *)
(* run that dies leaves the sidecars as they were: what _write_atomic      *)
(* promises.                                                               *)
SidecarsAreWhole ==
  /\ \A b \in Builders, k \in Sidecars : pc[b] = Writing[k] => handle[b] = "tmp"
  /\ \A k \in Sidecars : live[k] \notin {Empty, Garbled}

(* The rows of a file, built in one piece. *)
RowsInOnePiece(lines) == ProcessChunk(Located(lines, LineOffsets(lines)))

(* The rows a run works with are those of the trace file at one moment not *)
(* before the run looked at it, one per trace in the order of appearance,  *)
(* places in file order, a parent missing only if the whole file lacks it: *)
(* no span written earlier is left out, no place lies beyond the file or   *)
(* inside a half-written line, and chunking does not show.  This holds     *)
(* unless somebody truncates the file under the run.                       *)
StoreServesTheTrace ==
  \A b \in Builders :
    pc[b] = "loaded" /\ trace.born <= source[b].mtime =>
      \E n \in (source[b].size \div 2)..Len(trace.lines) :
        store[b] = RowsInOnePiece(SubSeq(trace.lines, 1, n))

(* Once the trace file rests, some run leaves an index that is reused from *)
(* then on: no crash and no leftover file can stand in the way for ever.   *)
SettlesFresh ==
  <>[](Vouches(live.meta, Fingerprint(trace)) /\ live.index = IndexFile(RowsOf(trace.lines)))
=============================================================================
