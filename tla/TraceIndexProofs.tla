-------------------------- MODULE TraceIndexProofs --------------------------
(***************************************************************************)
(* What the index beside a trace file promises, for any trace, any number  *)
(* of appends, truncations and crashes, and any machine.                   *)
(*                                                                         *)
(* The argument: fingerprints only get newer.  The one in the meta file is *)
(* never newer than the one the run under way took, which is never newer   *)
(* than the file's.  So if the meta file vouches for the trace file as it  *)
(* is, neither the file nor the run's idea of it has changed since, and    *)
(* what the run scanned, built, wrote and renamed is about this very file. *)
(* It needs runs of the same trace to follow one another: see Alone.       *)
(*                                                                         *)
(* Then, that files in place are whole, and that what a run has loaded are *)
(* the rows of the trace file as it was at some moment since it looked.    *)
(***************************************************************************)
EXTENDS TraceIndex, FiniteSetTheorems, WellFoundedInduction, TLAPS

(* At most one run works on the trace file at a time. *)
Alone == \A b, c \in Builders : b = c

Now == Fingerprint(trace)

NoNewer(f, g) == f.mtime < g.mtime \/ (f.mtime = g.mtime /\ f.size <= g.size)

LEMMA OrderOfFingerprints ==
  ASSUME NEW f \in Fingerprints, NEW g \in Fingerprints
  PROVE  /\ NoNewer(f, f)
         /\ NoNewer(f, g) /\ NoNewer(g, f) => f = g
BY DEF NoNewer, Fingerprints

LEMMA OrderIsTransitive ==
  ASSUME NEW f \in Fingerprints, NEW g \in Fingerprints, NEW h \in Fingerprints,
         NoNewer(f, g), NoNewer(g, h)
  PROVE  NoNewer(f, h)
BY DEF NoNewer, Fingerprints

(* Meta files, indexes and the other things a sidecar can hold differ. *)
LEMMA Distinct ==
  /\ \A m \in Metas : m \notin Markers
  /\ \A r : IndexFile(r) \notin Markers
  /\ OldRows \notin Markers
<1>1. DOMAIN NoFile = {"file"} /\ DOMAIN Empty = {"file"} /\ DOMAIN Garbled = {"file"}
  BY DEF NoFile, Empty, Garbled
<1>2. \A m \in Metas : DOMAIN m = {"schema", "source"}
  BY DEF Metas
<1>3. \A r : DOMAIN IndexFile(r) = {"rows"}
  BY DEF IndexFile
<1>4. OldRows.file = "old" /\ NoFile.file = "absent" /\ Empty.file = "empty" /\ Garbled.file = "garbled"
  BY DEF OldRows, NoFile, Empty, Garbled
<1> QED
  BY <1>1, <1>2, <1>3, <1>4 DEF Markers

LEMMA FingerprintType ==
  ASSUME IndexTypeOK
  PROVE  Now \in Fingerprints
BY DEF IndexTypeOK, Now, Fingerprint, Fingerprints

LEMMA InitialTypes == Init => IndexTypeOK
<1> SUFFICES ASSUME Init PROVE IndexTypeOK
  OBVIOUS
<1>1. trace \in [lines : Seq(Lines), torn : BOOLEAN, mtime : Nat, born : Nat]
  <2>1. PICK found \in TracesFound :
          trace = [lines |-> found, torn |-> FALSE, mtime |-> 0, born |-> 0]
    BY DEF Init
  <2>2. found \in Seq(Lines)
    BY TraceIndexAssumption
  <2> QED
    BY <2>1, <2>2
<1>2. Fingerprint(trace) \in Fingerprints
  BY <1>1 DEF Fingerprint, Fingerprints
<1>3. [schema |-> SchemaVersion - 1, source |-> Fingerprint(trace)] \in Metas
  BY <1>2 DEF Metas, SchemaVersion
<1>4. live.meta \in Metas \cup Markers /\ DOMAIN live = Sidecars
  BY <1>3 DEF Init, Markers, Sidecars
<1>5. tmp.meta \in Metas \cup Markers
  BY DEF Init, Markers, Sidecars
<1> QED
  BY <1>1, <1>2, <1>4, <1>5 DEF Init, IndexTypeOK, PCs, Resting

LEMMA TypesStay == IndexTypeOK /\ [Next]_vars => IndexTypeOK'
<1> SUFFICES ASSUME IndexTypeOK, [Next]_vars PROVE IndexTypeOK'
  OBVIOUS
<1> USE DEF IndexTypeOK
<1>0. ASSUME NEW now \in Stamps PROVE now \in Nat
  BY TraceIndexAssumption DEF Stamps
<1>1. ASSUME NEW l \in Spans, WriteLine(l) PROVE IndexTypeOK'
  <2>1. l \in Lines
    BY TraceIndexAssumption
  <2>2. trace' \in [lines : Seq(Lines), torn : BOOLEAN, mtime : Nat, born : Nat]
    <3>1. PICK now \in Stamps :
            trace' = [trace EXCEPT !.lines = Append(@, l), !.torn = FALSE, !.mtime = now]
      BY <1>1 DEF WriteLine
    <3>2. Append(trace.lines, l) \in Seq(Lines)
      BY <2>1
    <3> QED
      BY <1>0, <3>1, <3>2
  <2> QED
    BY <1>1, <2>2 DEF WriteLine, builder
<1>2. CASE TearLine
  BY <1>0, <1>2 DEF TearLine, builder
<1>3. CASE Truncate
  BY <1>3 DEF Truncate, builder
<1>4. ASSUME NEW b \in Builders, Stat(b) PROVE IndexTypeOK'
  BY <1>4, FingerprintType DEF Stat, Go, PCs, Now
<1>5. ASSUME NEW b \in Builders, Check(b) PROVE IndexTypeOK'
  BY <1>5 DEF Check, Go, PCs, Resting
<1>6. ASSUME NEW b \in Builders, Scan(b) PROVE IndexTypeOK'
  BY <1>6 DEF Scan, Go, PCs, Sidecars
<1>7. ASSUME NEW b \in Builders, Parse(b) PROVE IndexTypeOK'
  BY <1>7 DEF Parse, Go, PCs, Sidecars, Resting
<1>8. ASSUME NEW b \in Builders, NEW k \in Sidecars, OpenTmp(b, k) PROVE IndexTypeOK'
  BY <1>8 DEF OpenTmp, Go, PCs, Sidecars, Truncated, Markers
<1>9. ASSUME NEW b \in Builders, NEW k \in Sidecars, CloseTmp(b, k) PROVE IndexTypeOK'
  <2>1. NewMeta(source[b]) \in Metas
    BY DEF NewMeta, Metas, SchemaVersion
  <2>2. ASSUME NEW old, NEW file \in Overwritten("meta", old, NewMeta(source[b]))
        PROVE  file \in Metas \cup Markers
    BY <2>1, <2>2 DEF Overwritten, Markers
  <2>3. {live.meta, tmp.meta}' \subseteq Metas \cup Markers
    BY <1>9, <2>2 DEF CloseTmp, Sidecars, Content
  <2> QED
    BY <1>9, <2>3 DEF CloseTmp, Go, PCs, Sidecars
<1>10. ASSUME NEW b \in Builders, NEW k \in Sidecars, Replace(b, k) PROVE IndexTypeOK'
  BY <1>10 DEF Replace, Go, PCs, Sidecars, Resting, Markers
<1>11. ASSUME NEW b \in Builders, Load(b) PROVE IndexTypeOK'
  BY <1>11 DEF Load, Go, PCs, Resting
<1>12. ASSUME NEW b \in Builders, Crash(b) PROVE IndexTypeOK'
  BY <1>12 DEF Crash, Go, PCs, Resting
<1>13. CASE UNCHANGED vars
  BY <1>13 DEF vars
<1> QED
  BY <1>1, <1>2, <1>3, <1>4, <1>5, <1>6, <1>7, <1>8, <1>9, <1>10, <1>11, <1>12, <1>13
  DEF Next, Work

(* IndexTypeOK: the state is well typed, whatever the traces and runs. *)
THEOREM IndexTypes == Spec => []IndexTypeOK
BY InitialTypes, TypesStay, PTL DEF Spec

-----------------------------------------------------------------------------
(* The inductive invariant, for one run at a time.                         *)

Underway == PCs \ Resting
WroteIndex == {Opening["meta"], Writing["meta"], Replacing["index"]}

(* The meta file, the run and the trace file, from old to new. *)
AgesInv ==
  /\ \A b \in Builders : NoNewer(source[b], Now)
  /\ live.meta \in Metas => NoNewer(live.meta.source, Now)
  /\ \A b \in Builders :
       pc[b] \in Underway /\ live.meta \in Metas => NoNewer(live.meta.source, source[b])

(* While the trace file is the one the run looked at, what the run has in  *)
(* its hands, then under the temporary name, then in place is about it.    *)
WorkInv ==
  \A b \in Builders : source[b] = Now =>
    /\ pc[b] = "parse" =>
         offsets[b] = [at |-> LineOffsets(trace.lines), torn |-> trace.torn, born |-> trace.born]
    /\ pc[b] \in {Opening["index"], Writing["index"]} =>
         rows[b] = RowsOf(trace.lines) /\ ~trace.torn
    /\ pc[b] \in WroteIndex => tmp.index = IndexFile(RowsOf(trace.lines)) /\ ~trace.torn
    /\ pc[b] = Replacing["meta"] => live.index = IndexFile(RowsOf(trace.lines)) /\ ~trace.torn

(* The temporary files are the run's own. *)
FilesInv ==
  \A b \in Builders :
    /\ \A k \in Sidecars : pc[b] = Writing[k] => handle[b] = "tmp" /\ tmp[k] = Truncated[k]
    /\ pc[b] \in {Replacing["index"], Replacing["meta"]} => tmp.meta = NewMeta(source[b])

IndexInv == IndexTypeOK /\ AgesInv /\ WorkInv /\ FilesInv /\ FingerprintVouches

(* A write leaves every fingerprint taken so far behind. *)
LEMMA WritesAreNewer ==
  ASSUME IndexInv, UNCHANGED <<live, tmp, pc, handle, source, offsets, rows>>, IndexTypeOK',
         NoNewer(Now, Now'), Now' # Now
  PROVE  AgesInv' /\ WorkInv' /\ FilesInv' /\ FingerprintVouches'
<1>1. Now \in Fingerprints /\ Now' \in Fingerprints
  BY FingerprintType DEF IndexInv, IndexTypeOK, Now, Fingerprint, Fingerprints
<1>2. \A f \in Fingerprints : NoNewer(f, Now) => NoNewer(f, Now') /\ f # Now'
  BY <1>1, OrderOfFingerprints, OrderIsTransitive
<1>3. \A b \in Builders : source[b] \in Fingerprints /\ NoNewer(source[b], Now)
  BY DEF IndexInv, IndexTypeOK, AgesInv
<1>4. live.meta \in Metas =>
        /\ live.meta.source \in Fingerprints
        /\ NoNewer(live.meta.source, Now)
  BY DEF IndexInv, AgesInv, Metas
<1>5. AgesInv'
  BY <1>2, <1>3, <1>4 DEF IndexInv, AgesInv
<1>6. WorkInv'
  BY <1>2, <1>3 DEF WorkInv
<1>7. FilesInv'
  BY DEF IndexInv, FilesInv
<1>8. FingerprintVouches'
  <2>1. SUFFICES ASSUME live.meta = NewMeta(Now') PROVE FALSE
    BY DEF FingerprintVouches, Vouches, Now
  <2>2. live.meta \in Metas /\ live.meta.source = Now'
    BY <1>1, <2>1 DEF NewMeta, Metas, SchemaVersion
  <2> QED
    BY <1>2, <1>4, <2>2
<1> QED
  BY <1>5, <1>6, <1>7, <1>8

LEMMA Stages ==
  /\ Opening["index"] = "open index" /\ Opening["meta"] = "open meta"
  /\ Writing["index"] = "write index" /\ Writing["meta"] = "write meta"
  /\ Replacing["index"] = "replace index" /\ Replacing["meta"] = "replace meta"
BY DEF Opening, Writing, Replacing

LEMMA IndexInvHolds == ASSUME Alone PROVE Spec => []IndexInv
<1>1. Init => IndexInv
  <2> SUFFICES ASSUME Init, IndexTypeOK
               PROVE  AgesInv /\ WorkInv /\ FilesInv /\ FingerprintVouches
    BY InitialTypes DEF IndexInv
  <2>1. Now \in Fingerprints /\ NoNewer(Now, Now)
    BY FingerprintType, OrderOfFingerprints
  <2>2. \A b \in Builders : source[b] = Now /\ pc[b] = "idle"
    BY DEF Init, Now
  <2>3. live.meta = NoFile \/ live.meta = [schema |-> 1, source |-> Now]
    BY DEF Init, Now, SchemaVersion
  <2>4. live.meta \in Metas => live.meta.source = Now /\ live.meta.schema = 1
    BY <2>3, Distinct DEF Markers
  <2>5. AgesInv
    BY <2>1, <2>2, <2>4 DEF AgesInv
  <2>6. WorkInv /\ FilesInv
    <3>1. \A k \in Sidecars : "idle" \notin {Opening[k], Writing[k], Replacing[k], "parse"}
      BY Stages DEF Sidecars
    <3>2. WorkInv
      BY <2>2, <3>1 DEF WorkInv, WroteIndex, Sidecars
    <3>3. FilesInv
      BY <2>2, <3>1 DEF FilesInv, Sidecars
    <3> QED
      BY <3>2, <3>3
  <2>7. FingerprintVouches
    <3> SUFFICES ASSUME live.meta = NewMeta(Now) PROVE FALSE
      BY DEF FingerprintVouches, Vouches, Now
    <3> QED
      BY <2>1, <2>4 DEF NewMeta, Metas, SchemaVersion
  <2> QED
    BY <2>5, <2>6, <2>7
<1>2. IndexInv /\ [Next]_vars => IndexInv'
  <2> SUFFICES ASSUME IndexInv, IndexTypeOK', [Next]_vars
               PROVE  AgesInv' /\ WorkInv' /\ FilesInv' /\ FingerprintVouches'
    BY TypesStay DEF IndexInv
  <2>0. Now \in Fingerprints /\ Len(trace.lines) \in Nat /\ trace.mtime \in Nat
    BY FingerprintType DEF IndexInv, IndexTypeOK
  <2>a. Now.mtime = trace.mtime
    BY DEF Now, Fingerprint
  <2>b. trace.torn => Now.size = 2 * Len(trace.lines) + 1
    BY DEF Now, Fingerprint
  <2>c. ~trace.torn => Now.size = 2 * Len(trace.lines)
    BY <2>0 DEF Now, Fingerprint
  <2>1. ASSUME NEW l \in Spans, WriteLine(l)
        PROVE  AgesInv' /\ WorkInv' /\ FilesInv' /\ FingerprintVouches'
    <3>1. PICK now \in Stamps :
            trace' = [trace EXCEPT !.lines = Append(@, l), !.torn = FALSE, !.mtime = now]
      BY <2>1 DEF WriteLine
    <3>2. now \in Nat /\ now >= trace.mtime
      BY <2>0, TraceIndexAssumption DEF Stamps
    <3>3. Len(Append(trace.lines, l)) = Len(trace.lines) + 1 /\ DOMAIN trace = {"lines", "torn", "mtime", "born"}
      BY TraceIndexAssumption DEF IndexInv, IndexTypeOK
    <3>4. Now' = [size |-> 2 * (Len(trace.lines) + 1), mtime |-> now]
      BY <3>1, <3>3 DEF IndexInv, IndexTypeOK, Now, Fingerprint
    <3>5. NoNewer(Now, Now') /\ Now' # Now
      <4>1. Now'.size > Now.size
        BY <2>0, <2>b, <2>c, <3>4
      <4>2. Now'.mtime >= Now.mtime
        BY <2>0, <2>a, <3>2, <3>4
      <4> QED
        BY <2>0, <2>a, <3>2, <3>4, <4>1, <4>2 DEF NoNewer, Fingerprints
    <3> QED
      BY <2>1, <3>5, WritesAreNewer DEF WriteLine, builder
  <2>2. CASE TearLine
    <3>1. PICK now \in Stamps : trace' = [trace EXCEPT !.torn = TRUE, !.mtime = now]
      BY <2>2 DEF TearLine
    <3>2. now \in Nat /\ now >= trace.mtime
      BY <2>0, TraceIndexAssumption DEF Stamps
    <3>3. Now' = [size |-> 2 * Len(trace.lines) + 1, mtime |-> now]
      BY <3>1 DEF IndexInv, IndexTypeOK, Now, Fingerprint
    <3>4. NoNewer(Now, Now') /\ Now' # Now
      <4>1. Now'.size > Now.size
        BY <2>0, <2>2, <2>c, <3>3 DEF TearLine
      <4>2. Now'.mtime >= Now.mtime
        BY <2>0, <2>a, <3>2, <3>3
      <4> QED
        BY <2>0, <2>a, <3>2, <3>3, <4>1, <4>2 DEF NoNewer, Fingerprints
    <3> QED
      BY <2>2, <3>4, WritesAreNewer DEF TearLine, builder
  <2>3. CASE Truncate
    <3>1. Now' = [size |-> 2 * Len(<<>>), mtime |-> trace.mtime + 1]
      BY <2>3 DEF Truncate, Now, Fingerprint
    <3>2. NoNewer(Now, Now') /\ Now' # Now
      <4>1. Now'.mtime > Now.mtime
        BY <2>0, <2>a, <3>1
      <4> QED
        BY <4>1, <2>0 DEF NoNewer, Fingerprints
    <3> QED
      BY <2>3, <3>2, WritesAreNewer DEF Truncate, builder
  <2>4. ASSUME NEW b \in Builders, Work(b) \/ Crash(b)
        PROVE  AgesInv' /\ WorkInv' /\ FilesInv' /\ FingerprintVouches'
    <3>1. \A c \in Builders : c = b
      BY DEF Alone
    <3>2. source[b] \in Fingerprints /\ NoNewer(source[b], Now) /\ pc[b] \in PCs
      BY DEF IndexInv, IndexTypeOK, AgesInv
    <3>3. Work(b) \/ Crash(b) => UNCHANGED trace /\ Now' = Now
      BY DEF Work, Crash, Stat, Check, Scan, Parse, OpenTmp, CloseTmp, Replace, Load, Now
    <3>a. NoNewer(Now, Now) /\ NoNewer(source[b], source[b])
      BY <2>0, <3>2, OrderOfFingerprints
    <3>b. live.meta \in Metas => live.meta.source \in Fingerprints
      BY DEF Metas
    <3>c. NewMeta(source[b]) \in Metas /\ NewMeta(source[b]).source = source[b]
      BY <3>2 DEF NewMeta, Metas, SchemaVersion
    <3>d. Underway = {"check", "scan", "parse", "load", "open index", "open meta", "write index",
                      "write meta", "replace index", "replace meta"}
      BY Stages DEF Underway, PCs, Resting, Sidecars
    <3>e. WroteIndex = {"open meta", "write meta", "replace index"}
      BY Stages DEF WroteIndex
    <3>f. pc \in [Builders -> PCs] /\ source \in [Builders -> Fingerprints]
          /\ handle \in [Builders -> {"tmp", "live", "lost"}]
          /\ DOMAIN live = Sidecars /\ DOMAIN tmp = Sidecars
          /\ DOMAIN offsets = Builders /\ DOMAIN rows = Builders
      BY DEF IndexInv, IndexTypeOK
    <3>g. trace' = trace /\ Now' = Now
      BY <2>4, <3>3
    <3>h. WorkInv
      BY DEF IndexInv
    <3>4. CASE Stat(b)
      <4>1. AgesInv'
        BY <3>1, <3>2, <3>a, <3>d, <3>f, <3>4 DEF Stat, Go, Now, AgesInv, IndexInv
      <4>2. WorkInv' /\ FilesInv'
        BY <3>1, <3>e, <3>f, <3>4, Stages DEF Stat, Go, WorkInv, FilesInv, Sidecars
      <4> QED
        BY <4>1, <4>2, <3>3, <3>4 DEF Stat, FingerprintVouches, IndexInv
    <3>5. CASE Check(b)
      <4>1. pc'[b] \in {"scan", "load", "failed"} /\ pc[b] = "check"
        BY <3>f, <3>5 DEF Check, Go
      <4>2. AgesInv'
        BY <3>1, <3>d, <3>5, <4>1 DEF Check, Now, AgesInv, IndexInv
      <4>3. WorkInv' /\ FilesInv'
        BY <3>1, <3>e, <4>1, Stages DEF WorkInv, FilesInv, Sidecars
      <4> QED
        BY <4>2, <4>3, <3>5 DEF Check, FingerprintVouches, IndexInv
    <3>6. CASE Scan(b)
      <4>1. pc'[b] \in {"open index", "parse"} /\ pc[b] = "scan"
        BY <3>f, <3>6, Stages DEF Scan, Go
      <4>2. AgesInv'
        BY <3>1, <3>d, <3>6, <4>1 DEF Scan, Now, AgesInv, IndexInv
      <4>3. ASSUME LineOffsets(trace.lines) = <<>> PROVE RowsOf(trace.lines) = <<>>
        BY <4>3 DEF RowsOf, BuildRows, Located
      <4>4. pc'[b] = "open index" => rows'[b] = RowsOf(trace.lines) /\ ~trace.torn
        BY <3>f, <3>6, <4>3, Stages DEF Scan, Go
      <4>5. offsets'[b] = [at |-> LineOffsets(trace.lines), torn |-> trace.torn, born |-> trace.born]
        BY <3>f, <3>6 DEF Scan
      <4>6. WorkInv'
        BY <3>1, <3>e, <3>6, <4>1, <4>4, <4>5, Stages DEF Scan, WorkInv
      <4>7. FilesInv'
        BY <3>1, <4>1, Stages DEF FilesInv, Sidecars
      <4> QED
        BY <4>2, <4>6, <4>7, <3>6 DEF Scan, FingerprintVouches, IndexInv
    <3>7. CASE Parse(b)
      <4>1. pc'[b] \in {"open index", "failed"} /\ pc[b] = "parse"
        BY <3>f, <3>7, Stages DEF Parse, Go
      <4>2. AgesInv'
        BY <3>1, <3>d, <3>7, <4>1 DEF Parse, Now, AgesInv, IndexInv
      <4>3. ASSUME source[b] = Now, pc'[b] = "open index"
            PROVE  rows'[b] = RowsOf(trace.lines) /\ ~trace.torn
        <5>1. offsets[b] = [at |-> LineOffsets(trace.lines), torn |-> trace.torn, born |-> trace.born]
          BY <4>1, <4>3 DEF IndexInv, WorkInv
        <5>2. offsets[b].at = LineOffsets(trace.lines) /\ offsets[b].torn = trace.torn
              /\ offsets[b].born = trace.born
          BY <5>1
        <5>3. pc'[b] # "failed"
          BY <4>3
        <5>4. ~offsets[b].torn
              /\ rows' = [rows EXCEPT ![b] = BuildRows(Located(trace.lines, offsets[b].at), Threshold, Workers)]
          BY <3>f, <3>7, <5>2, <5>3 DEF Parse, Go
        <5> QED
          BY <3>f, <5>2, <5>4 DEF RowsOf
      <4>6. source'[b] = source[b]
        BY <3>7 DEF Parse
      <4>4. WorkInv'
        BY <3>1, <3>g, <3>e, <4>1, <4>3, <4>6, Stages DEF WorkInv
      <4>5. FilesInv'
        BY <3>1, <4>1, Stages DEF FilesInv, Sidecars
      <4> QED
        BY <4>2, <4>4, <4>5, <3>7 DEF Parse, FingerprintVouches, IndexInv
    <3>8. CASE OpenTmp(b, "index")
      <4>1. pc'[b] = "write index" /\ pc[b] = "open index"
        BY <3>f, <3>8, Stages DEF OpenTmp, Go
      <4>2. AgesInv'
        BY <3>1, <3>d, <3>8, <4>1 DEF OpenTmp, Now, AgesInv, IndexInv
      <4>3. WorkInv'
        <5>1. source' = source /\ rows' = rows
          BY <3>8 DEF OpenTmp
        <5> QED
          BY <3>1, <3>g, <3>h, <3>e, <4>1, <5>1, Stages DEF WorkInv
      <4>4. tmp'["index"] = Truncated["index"] /\ handle'[b] = "tmp"
        BY <3>8, <3>f DEF OpenTmp, Sidecars
      <4>5. FilesInv'
        BY <3>1, <4>1, <4>4, Stages DEF FilesInv, Sidecars
      <4> QED
        BY <4>2, <4>3, <4>5, <3>8 DEF OpenTmp, FingerprintVouches, IndexInv
    <3>9. CASE OpenTmp(b, "meta")
      <4>1. pc'[b] = "write meta" /\ pc[b] = "open meta"
        BY <3>f, <3>9, Stages DEF OpenTmp, Go
      <4>2. AgesInv'
        BY <3>1, <3>d, <3>9, <4>1 DEF OpenTmp, Now, AgesInv, IndexInv
      <4>3. tmp'["meta"] = Truncated["meta"] /\ handle'[b] = "tmp" /\ tmp'.index = tmp.index
        BY <3>9, <3>f DEF OpenTmp, Sidecars
      <4>4. WorkInv'
        <5>1. source' = source
          BY <3>9 DEF OpenTmp
        <5> QED
          BY <3>1, <3>g, <3>h, <3>e, <4>1, <4>3, <5>1, Stages DEF WorkInv
      <4>5. FilesInv'
        BY <3>1, <4>1, <4>3, Stages DEF FilesInv, Sidecars
      <4> QED
        BY <4>2, <4>4, <4>5, <3>9 DEF OpenTmp, FingerprintVouches, IndexInv
    <3>10. CASE CloseTmp(b, "index")
      <4>1. pc'[b] = "open meta" /\ pc[b] = "write index"
        BY <3>f, <3>10, Stages DEF CloseTmp, Go
      <4>2. handle[b] = "tmp" /\ tmp["index"] = Truncated["index"]
        BY <4>1, Stages DEF IndexInv, FilesInv, Sidecars
      <4>3. tmp'["index"] = IndexFile(rows[b]) /\ live' = live
        BY <3>10, <3>f, <4>2 DEF CloseTmp, Overwritten, Content, Sidecars
      <4>4. AgesInv'
        BY <3>1, <3>d, <3>10, <4>1, <4>3 DEF CloseTmp, Now, AgesInv, IndexInv
      <4>5. WorkInv'
        <5>1. source' = source
          BY <3>10 DEF CloseTmp
        <5> QED
          BY <3>1, <3>g, <3>h, <3>e, <4>1, <4>3, <5>1, Stages DEF WorkInv
      <4>6. FilesInv'
        BY <3>1, <4>1, Stages DEF FilesInv, Sidecars
      <4> QED
        BY <4>3, <4>4, <4>5, <4>6, <3>10 DEF CloseTmp, FingerprintVouches, IndexInv
    <3>11. CASE CloseTmp(b, "meta")
      <4>1. pc'[b] = "replace index" /\ pc[b] = "write meta"
        BY <3>f, <3>11, Stages DEF CloseTmp, Go
      <4>2. handle[b] = "tmp" /\ tmp["meta"] = Truncated["meta"]
        BY <4>1, Stages DEF IndexInv, FilesInv, Sidecars
      <4>3. tmp'.meta = NewMeta(source[b]) /\ tmp'.index = tmp.index /\ live' = live
        BY <3>11, <3>f, <4>2 DEF CloseTmp, Overwritten, Content, Sidecars
      <4>4. AgesInv'
        BY <3>1, <3>d, <3>11, <4>1, <4>3 DEF CloseTmp, Now, AgesInv, IndexInv
      <4>5. WorkInv'
        <5>1. source' = source
          BY <3>11 DEF CloseTmp
        <5> QED
          BY <3>1, <3>g, <3>h, <3>e, <4>1, <4>3, <5>1, Stages DEF WorkInv
      <4>6. FilesInv'
        BY <3>1, <3>11, <4>1, <4>3, Stages DEF CloseTmp, FilesInv, Sidecars
      <4> QED
        BY <4>3, <4>4, <4>5, <4>6, <3>11 DEF CloseTmp, FingerprintVouches, IndexInv
    <3>12. CASE Replace(b, "index")
      <4>1. pc'[b] \in {"replace meta", "failed"} /\ pc[b] = "replace index"
        BY <3>f, <3>12, Stages DEF Replace, Go
      <4>2. live'.meta = live.meta /\ tmp'.meta = tmp.meta
            /\ live'.index \in {tmp.index, live.index}
            /\ (pc'[b] = "replace meta" => live'.index = tmp.index)
        BY <3>12, <3>f, Stages DEF Replace, Go, Sidecars
      <4>3. AgesInv'
        BY <3>1, <3>d, <3>12, <4>1, <4>2 DEF Replace, Now, AgesInv, IndexInv
      <4>4. source[b] = Now => tmp.index = IndexFile(RowsOf(trace.lines)) /\ ~trace.torn
        BY <3>e, <4>1 DEF IndexInv, WorkInv
      <4>5. WorkInv'
        <5>1. source' = source
          BY <3>12 DEF Replace
        <5> QED
          BY <3>1, <3>g, <3>e, <4>1, <4>2, <4>4, <5>1, Stages DEF WorkInv
      <4>6. FilesInv'
        BY <3>1, <3>12, <4>1, <4>2, Stages, ZenonT(40) DEF Replace, FilesInv, IndexInv, Sidecars
      <4>7. ASSUME live.meta = NewMeta(Now) PROVE source[b] = Now
        <5>1. live.meta \in Metas /\ live.meta.source = Now
          BY <2>0, <4>7 DEF NewMeta, Metas, SchemaVersion
        <5>2. NoNewer(Now, source[b])
          BY <3>d, <4>1, <5>1 DEF IndexInv, AgesInv
        <5> QED
          BY <2>0, <3>2, <5>2, OrderOfFingerprints
      <4>8. FingerprintVouches'
        BY <3>12, <4>2, <4>4, <4>7 DEF Replace, FingerprintVouches, Vouches, IndexInv, Now
      <4> QED
        BY <4>3, <4>5, <4>6, <4>8
    <3>13. CASE Replace(b, "meta")
      <4>1. pc'[b] \in {"load", "failed"} /\ pc[b] = "replace meta"
        BY <3>f, <3>13, Stages DEF Replace, Go
      <4>2. live'.index = live.index /\ live'.meta \in {tmp.meta, live.meta}
        BY <3>13, <3>f DEF Replace, Go, Sidecars
      <4>3. tmp.meta = NewMeta(source[b])
        BY <4>1, Stages DEF IndexInv, FilesInv
      <4>4. AgesInv'
        <5>1. source' = source
          BY <3>13 DEF Replace
        <5>2. live.meta \in Metas => NoNewer(live.meta.source, Now)
          BY DEF IndexInv, AgesInv
        <5>3. live.meta \in Metas => NoNewer(live.meta.source, source[b])
          BY <3>d, <4>1 DEF IndexInv, AgesInv
        <5>4. live'.meta = live.meta \/ live'.meta = NewMeta(source[b])
          BY <4>2, <4>3
        <5>5. live'.meta \in Metas => NoNewer(live'.meta.source, Now) /\ NoNewer(live'.meta.source, source[b])
          BY <3>2, <3>a, <3>c, <5>2, <5>3, <5>4
        <5> QED
          BY <3>1, <3>2, <3>g, <5>1, <5>5 DEF AgesInv
      <4>5. WorkInv' /\ FilesInv'
        BY <3>1, <3>e, <4>1, Stages DEF WorkInv, FilesInv, Sidecars
      <4>6. NewMeta(source[b]) = NewMeta(Now) => source[b] = Now
        BY DEF NewMeta
      <4>7. source[b] = Now => live.index = IndexFile(RowsOf(trace.lines)) /\ ~trace.torn
        BY <4>1, Stages DEF IndexInv, WorkInv
      <4>8. FingerprintVouches'
        BY <3>13, <4>2, <4>3, <4>6, <4>7 DEF Replace, FingerprintVouches, Vouches, IndexInv, Now
      <4> QED
        BY <4>4, <4>5, <4>8
    <3>14. CASE Load(b)
      <4>1. pc'[b] \in {"loaded", "failed"} /\ pc[b] = "load"
        BY <3>f, <3>14 DEF Load, Go
      <4>2. AgesInv'
        BY <3>1, <3>d, <3>14, <4>1 DEF Load, Now, AgesInv, IndexInv
      <4>3. WorkInv' /\ FilesInv'
        BY <3>1, <3>e, <4>1, Stages DEF WorkInv, FilesInv, Sidecars
      <4> QED
        BY <4>2, <4>3, <3>14 DEF Load, FingerprintVouches, IndexInv
    <3>15. CASE Crash(b)
      <4>1. pc'[b] = "idle"
        BY <3>f, <3>15 DEF Crash, Go
      <4>2. AgesInv'
        BY <3>1, <3>d, <3>15, <4>1 DEF Crash, Now, AgesInv, IndexInv
      <4>3. WorkInv' /\ FilesInv'
        BY <3>1, <3>e, <4>1, Stages DEF WorkInv, FilesInv, Sidecars
      <4> QED
        BY <4>2, <4>3, <3>15 DEF Crash, FingerprintVouches, IndexInv
    <3> QED
      BY <2>4, <3>4, <3>5, <3>6, <3>7, <3>8, <3>9, <3>10, <3>11, <3>12, <3>13, <3>14, <3>15
      DEF Work, Sidecars
  <2>5. CASE UNCHANGED vars
    BY <2>5 DEF vars, IndexInv, AgesInv, WorkInv, FilesInv, FingerprintVouches, Now
  <2> QED
    BY <2>1, <2>2, <2>3, <2>4, <2>5 DEF Next
<1> QED
  BY <1>1, <1>2, PTL DEF Spec

(* FingerprintVouches: the meta file vouches only for an index that a      *)
(* build of the trace file as it is would write.                           *)
THEOREM Vouching == ASSUME Alone PROVE Spec => []FingerprintVouches
<1>1. IndexInv => FingerprintVouches
  BY DEF IndexInv
<1> QED
  BY <1>1, IndexInvHolds, PTL

-----------------------------------------------------------------------------
(* The files in place.                                                     *)

IsIndex(file) == file = IndexFile(file.rows)

(* What is renamed into place has been written in full before. *)
WholeInv ==
  /\ live.index \in {NoFile, OldRows} \/ IsIndex(live.index)
  /\ live.meta \in Metas \cup {NoFile}
  /\ \A b \in Builders : pc[b] \in WroteIndex => IsIndex(tmp.index)

LEMMA IndexFilesAreIndexes == \A r : IsIndex(IndexFile(r))
BY DEF IsIndex, IndexFile

(* SidecarsAreWhole: a run never has a file in place open, and the files   *)
(* in place are neither truncated nor overwritten halfway.                 *)
THEOREM WholeSidecars == ASSUME Alone PROVE Spec => []SidecarsAreWhole
<1>1. Init => WholeInv
  <2> SUFFICES ASSUME Init PROVE WholeInv
    OBVIOUS
  <2>1. Now \in Fingerprints
    BY InitialTypes, FingerprintType
  <2>2. live.index \in {NoFile, OldRows} /\ live.meta \in Metas \cup {NoFile}
    BY <2>1 DEF Init, Metas, SchemaVersion, Now
  <2>3. \A b \in Builders : pc[b] = "idle"
    BY DEF Init
  <2> QED
    BY <2>2, <2>3, Stages DEF WholeInv, WroteIndex
<1>2. IndexInv /\ WholeInv /\ [Next]_vars => WholeInv'
  <2> SUFFICES ASSUME IndexInv, WholeInv, [Next]_vars PROVE WholeInv'
    OBVIOUS
  <2> USE DEF WholeInv
  <2>e. WroteIndex = {"open meta", "write meta", "replace index"}
    BY Stages DEF WroteIndex
  <2>f. pc \in [Builders -> PCs] /\ DOMAIN live = Sidecars /\ DOMAIN tmp = Sidecars
    BY DEF IndexInv, IndexTypeOK
  <2>1. ASSUME NEW b \in Builders, OpenTmp(b, "index") \/ CloseTmp(b, "index")
        PROVE  WholeInv'
    <3>1. \A c \in Builders : c = b
      BY DEF Alone
    <3>2. CASE OpenTmp(b, "index")
      <4>1. pc'[b] = "write index" /\ live' = live
        BY <2>f, <3>2, Stages DEF OpenTmp, Go
      <4> QED
        BY <2>e, <3>1, <4>1
    <3>3. CASE CloseTmp(b, "index")
      <4>1. pc[b] = "write index"
        BY <3>3, Stages DEF CloseTmp
      <4>2. handle[b] = "tmp" /\ tmp["index"] = Truncated["index"]
        BY <4>1, Stages DEF IndexInv, FilesInv, Sidecars
      <4>3. tmp'["index"] = IndexFile(rows[b]) /\ live' = live
        BY <2>f, <3>3, <4>2 DEF CloseTmp, Overwritten, Content, Sidecars
      <4> QED
        BY <3>1, <4>3, IndexFilesAreIndexes
    <3> QED
      BY <2>1, <3>2, <3>3
  <2>2. ASSUME NEW b \in Builders, OpenTmp(b, "meta") \/ CloseTmp(b, "meta")
        PROVE  WholeInv'
    <3>1. \A c \in Builders : c = b
      BY DEF Alone
    <3>2. pc[b] \in {"open meta", "write meta"}
      BY <2>2, Stages DEF OpenTmp, CloseTmp
    <3>3. pc[b] = "write meta" => handle[b] = "tmp"
      BY Stages DEF IndexInv, FilesInv, Sidecars
    <3>4. tmp'.index = tmp.index /\ live' = live
      BY <2>2, <2>f, <3>3, Stages DEF OpenTmp, CloseTmp, Sidecars
    <3> QED
      BY <2>e, <3>1, <3>2, <3>4
  <2>3. ASSUME NEW b \in Builders, NEW k \in Sidecars, Replace(b, k) PROVE WholeInv'
    <3>1. \A c \in Builders : c = b
      BY DEF Alone
    <3>2. pc[b] \in {"replace index", "replace meta"} /\ pc'[b] \in {"replace meta", "load", "failed"}
      <4>1. CASE k = "index"
        BY <2>3, <2>f, <4>1, Stages DEF Replace, Go
      <4>2. CASE k = "meta"
        BY <2>3, <2>f, <4>2, Stages DEF Replace, Go
      <4> QED
        BY <4>1, <4>2 DEF Sidecars
    <3>3. tmp.meta = NewMeta(source[b]) /\ NewMeta(source[b]) \in Metas
      BY <3>2, Stages DEF IndexInv, FilesInv, IndexTypeOK, NewMeta, Metas, SchemaVersion
    <3>4. k = "index" => IsIndex(tmp.index)
      BY <2>e, <2>3, Stages, ZenonT(40) DEF Replace
    <3>5. live' = live \/ live' = [live EXCEPT ![k] = tmp[k]]
      BY <2>3 DEF Replace
    <3>6. live'.index = live.index \/ (live'.index = tmp.index /\ k = "index")
      BY <2>f, <3>5 DEF Sidecars
    <3>7. live'.meta = live.meta \/ live'.meta = tmp.meta
      BY <2>f, <3>5 DEF Sidecars
    <3>8. pc'[b] \notin WroteIndex
      BY <2>e, <3>2
    <3> QED
      BY <3>1, <3>3, <3>4, <3>6, <3>7, <3>8
  <2>4. ASSUME NEW b \in Builders,
               Stat(b) \/ Check(b) \/ Scan(b) \/ Parse(b) \/ Load(b) \/ Crash(b)
        PROVE  WholeInv'
    <3>1. \A c \in Builders : c = b
      BY DEF Alone
    <3>2. live' = live /\ tmp' = tmp
      BY <2>4 DEF Stat, Check, Scan, Parse, Load, Crash
    <3>3. pc'[b] \in {"check", "scan", "load", "failed", "open index", "parse", "loaded", "idle"}
      BY <2>4, <2>f, Stages DEF Stat, Check, Scan, Parse, Load, Crash, Go
    <3> QED
      BY <2>e, <3>1, <3>2, <3>3
  <2>5. ASSUME (\E l \in Spans : WriteLine(l)) \/ TearLine \/ Truncate \/ UNCHANGED vars
        PROVE  WholeInv'
    <3>1. UNCHANGED <<live, tmp, pc>>
      BY <2>5 DEF WriteLine, TearLine, Truncate, vars, builder
    <3> QED
      BY <3>1
  <2> QED
    BY <2>1, <2>2, <2>3, <2>4, <2>5 DEF Next, Work, Sidecars
<1>3. IndexInv /\ WholeInv => SidecarsAreWhole
  <2> SUFFICES ASSUME IndexInv, WholeInv PROVE SidecarsAreWhole
    OBVIOUS
  <2>1. live.index \notin Markers \ {NoFile}
    BY Distinct DEF WholeInv, IsIndex, Markers, OldRows, NoFile, Empty, Garbled
  <2>2. live.meta \notin {Empty, Garbled}
    BY Distinct DEF WholeInv, Markers, NoFile, Empty, Garbled
  <2> QED
    BY <2>1, <2>2 DEF IndexInv, FilesInv, SidecarsAreWhole, Sidecars, Markers, NoFile, Empty, Garbled
<1> QED
  BY <1>1, <1>2, <1>3, IndexInvHolds, PTL DEF Spec

-----------------------------------------------------------------------------
(* The places a scan finds.                                                *)

(* Counting the lines that hold something from the start of the file, the  *)
(* count grows by one at each of them.                                     *)
LEMMA CountGrows ==
  ASSUME NEW P \in SUBSET Nat, IsFiniteSet(P), NEW i \in Nat \ {0}
  PROVE  Cardinality({j \in P : j <= i}) =
           Cardinality({j \in P : j <= i - 1}) + (IF i \in P THEN 1 ELSE 0)
<1> DEFINE before == {j \in P : j <= i - 1}
           now == {j \in P : j <= i}
<1>1. i \in Nat /\ i # 0 /\ \A j \in P : j \in Nat
  OBVIOUS
<1>2. \A j \in P : j <= i <=> j <= i - 1 \/ j = i
  BY <1>1
<1>3. i \notin before
  BY <1>1
<1>4. IsFiniteSet(before) /\ Cardinality(before) \in Nat
  BY FS_Subset, FS_CardinalityType
<1>5. CASE i \in P
  <2>1. now = before \cup {i}
    BY <1>1, <1>2, <1>5
  <2>2. Cardinality(before \cup {i}) = Cardinality(before) + 1
    BY <1>3, <1>4, FS_AddElement
  <2> QED
    BY <1>5, <2>1, <2>2
<1>6. CASE i \notin P
  <2>1. now = before
    BY <1>1, <1>2, <1>6
  <2> HIDE DEF before, now
  <2>2. Cardinality(now) = Cardinality(before) + 0
    BY <1>4, <2>1
  <2> QED
    BY <1>6, <2>2 DEF before, now
<1> QED
  BY <1>5, <1>6

(* So each count is reached at one of the places. *)
LEMMA NthPlace ==
  ASSUME NEW m \in Nat, NEW P \in SUBSET (1..m), NEW n \in 1..Cardinality(P)
  PROVE  \E i \in P : Cardinality({j \in P : j <= i}) = n
<1> DEFINE Count(i) == Cardinality({j \in P : j <= i})
           Late == {i \in Nat : Count(i) >= n}
<1>0. \A j \in P : j \in Nat /\ j >= 1 /\ j <= m
  OBVIOUS
<1>1. P \in SUBSET Nat /\ IsFiniteSet(P) /\ Cardinality(P) \in Nat
  <2>1. IsFiniteSet(1..m)
    BY FS_Interval
  <2>2. IsFiniteSet(P)
    BY <2>1, FS_Subset
  <2> QED
    BY <2>2, FS_CardinalityType
<1>2. n \in Nat /\ n >= 1 /\ n <= Cardinality(P)
  BY <1>1
<1>3. \A i \in Nat : Count(i) \in Nat
  BY <1>1, FS_Subset, FS_CardinalityType
<1>4. Count(0) = 0
  <2>1. \A j \in P : ~(j <= 0)
    BY <1>0
  <2>2. {j \in P : j <= 0} = {}
    BY <2>1, Zenon
  <2> QED
    BY <2>2, FS_EmptySet
<1>5. m \in Late
  <2>1. {j \in P : j <= m} = P
    BY <1>0
  <2>2. Count(m) = Cardinality(P)
    BY <2>1
  <2> HIDE DEF Count
  <2> QED
    BY <1>2, <2>2
<1>6. \E i \in Late : \A j \in Late : ~(<<j, i>> \in OpToRel(<, Nat))
  BY <1>5, WFMin, NatLessThanWellFounded
<1>7. PICK i \in Late : \A j \in Late : ~(j < i)
  BY <1>6 DEF OpToRel
<1> HIDE DEF Count
<1>8. i # 0
  BY <1>2, <1>4, <1>7
<1>9. i - 1 \in Nat /\ i - 1 < i /\ i \in Nat \ {0} /\ Count(i) >= n
  BY <1>8
<1>10. i - 1 \notin Late
  BY <1>7, <1>9
<1>11. Count(i - 1) \in Nat /\ Count(i) \in Nat /\ ~(Count(i - 1) >= n)
  BY <1>3, <1>9, <1>10
<1>12. Count(i) = Count(i - 1) + (IF i \in P THEN 1 ELSE 0)
  BY <1>1, <1>9, CountGrows DEF Count
<1>13. i \in P /\ Count(i) = n
  BY <1>2, <1>11, <1>12
<1> QED
  BY <1>13 DEF Count

(* InOrder goes through the places it is given, and has nothing to go      *)
(* through when there are none.                                            *)
LEMMA InOrderGoesThroughPlaces ==
  ASSUME NEW m \in Nat, NEW P \in SUBSET (1..m)
  PROVE  /\ InOrder(P) \in Seq(P)
         /\ P = {} => InOrder(P) = <<>>
         /\ Len(InOrder(P)) = Cardinality(P)
         /\ \A n \in 1..Cardinality(P) : Cardinality({j \in P : j <= InOrder(P)[n]}) = n
<1> DEFINE Count(i) == Cardinality({j \in P : j <= i})
<1>1. Cardinality(P) \in Nat
  <2>1. IsFiniteSet(1..m)
    BY FS_Interval
  <2> QED
    BY <2>1, FS_Subset, FS_CardinalityType
<1>2. ASSUME NEW n \in 1..Cardinality(P) PROVE InOrder(P)[n] \in P /\ Count(InOrder(P)[n]) = n
  <2>1. \E i \in P : Count(i) = n
    BY NthPlace
  <2>2. InOrder(P)[n] = CHOOSE i \in P : Count(i) = n
    BY <1>2 DEF InOrder
  <2> HIDE DEF Count
  <2> QED
    BY <2>1, <2>2
<1>3. InOrder(P) \in Seq(P) /\ Len(InOrder(P)) = Cardinality(P)
  <2>1. InOrder(P) = [n \in 1..Cardinality(P) |-> InOrder(P)[n]]
    BY DEF InOrder
  <2> DEFINE e(n) == InOrder(P)[n]
  <2>2. \A n \in 1..Cardinality(P) : e(n) \in P
    BY <1>2
  <2> HIDE DEF e
  <2>3. [n \in 1..Cardinality(P) |-> e(n)] \in Seq(P) /\ Len([n \in 1..Cardinality(P) |-> e(n)]) = Cardinality(P)
    BY <1>1, <2>2
  <2> QED
    BY <2>1, <2>3 DEF e
<1>4. P = {} => InOrder(P) = <<>>
  BY FS_EmptySet DEF InOrder
<1> QED
  BY <1>2, <1>3, <1>4

LEMMA PlacesAreInTheFile ==
  ASSUME NEW S, NEW lines \in Seq(S)
  PROVE  LineOffsets(lines) \in Seq(1..Len(lines))
<1>1. {i \in DOMAIN lines : lines[i] # Blank} \in SUBSET (1..Len(lines)) /\ Len(lines) \in Nat
  OBVIOUS
<1>2. LineOffsets(lines) \in Seq({i \in DOMAIN lines : lines[i] # Blank})
  BY <1>1, InOrderGoesThroughPlaces DEF LineOffsets
<1> QED
  BY <1>1, <1>2

(* What a scan found in the lines a file starts with is read back from the *)
(* file as it is found there.                                              *)
LEMMA PrefixReadsBack ==
  ASSUME NEW S, NEW lines \in Seq(S), NEW n \in 0..Len(lines)
  PROVE  LET found == LineOffsets(SubSeq(lines, 1, n))
         IN  Located(lines, found) = Located(SubSeq(lines, 1, n), found)
<1> DEFINE p == SubSeq(lines, 1, n)
           found == LineOffsets(p)
<1>1. p \in Seq(S) /\ Len(p) = n /\ \A i \in 1..n : p[i] = lines[i]
  OBVIOUS
<1>2. \A i \in 1..Len(found) : found[i] \in 1..n
  <2>1. found \in Seq(1..Len(p))
    BY <1>1, PlacesAreInTheFile
  <2> QED
    BY <1>1, <2>1
<1>3. \A i \in 1..Len(found) : lines[found[i]] = p[found[i]]
  BY <1>1, <1>2
<1> QED
  BY <1>3 DEF Located

-----------------------------------------------------------------------------
(* The rows a run works with.                                              *)

(* The file has not been truncated after the fingerprint was taken. *)
Since(f) == trace.born <= f.mtime

(* The rows are those of the trace file with all its lines of that moment, *)
(* and perhaps later ones.                                                 *)
Covers(r, f) ==
  Since(f) => \E n \in (f.size \div 2)..Len(trace.lines) : r = RowsOf(SubSeq(trace.lines, 1, n))

(* Between two truncations sizes grow. *)
GrowthInv ==
  /\ trace.born <= trace.mtime
  /\ \A b \in Builders : Since(source[b]) => source[b].size <= Now.size
  /\ live.meta \in Metas /\ Since(live.meta.source) =>
       /\ live.meta.source.size <= Now.size
       /\ \A b \in Builders : pc[b] \in Underway => live.meta.source.size <= source[b].size

ServingInv ==
  /\ live.meta \in Metas /\ live.meta.schema = SchemaVersion =>
       Covers(live.index.rows, live.meta.source)
  /\ \A b \in Builders :
       /\ pc[b] = "parse" /\ Since(source[b]) =>
            /\ offsets[b].born = trace.born
            /\ \E n \in (source[b].size \div 2)..Len(trace.lines) :
                 offsets[b].at = LineOffsets(SubSeq(trace.lines, 1, n))
       /\ pc[b] \in {Opening["index"], Writing["index"]} => Covers(rows[b], source[b])
       /\ pc[b] \in WroteIndex => Covers(tmp.index.rows, source[b])
       /\ pc[b] \in {Replacing["meta"], "load"} => Covers(live.index.rows, source[b])
       /\ pc[b] = "loaded" => Covers(store[b], source[b])

LEMMA MetasAreTyped ==
  ASSUME IndexTypeOK, live.meta \in Metas
  PROVE  live.meta.source \in Fingerprints
BY DEF Metas

(* A writer truncates the file, or leaves the lines there are in place. *)
LEMMA WritersServe ==
  ASSUME IndexInv, IndexTypeOK', GrowthInv, ServingInv,
         UNCHANGED <<live, tmp, pc, source, offsets, rows, store>>,
         trace'.born <= trace'.mtime,
         \/ trace'.born > trace.mtime
         \/ /\ trace'.born = trace.born /\ Len(trace'.lines) >= Len(trace.lines)
            /\ \A n \in 0..Len(trace.lines) :
                 SubSeq(trace'.lines, 1, n) = SubSeq(trace.lines, 1, n)
            /\ Now'.size >= Now.size
  PROVE  GrowthInv' /\ ServingInv'
<1>0. trace \in [lines : Seq(Lines), torn : BOOLEAN, mtime : Nat, born : Nat]
      /\ trace' \in [lines : Seq(Lines), torn : BOOLEAN, mtime : Nat, born : Nat]
      /\ Now \in Fingerprints /\ Now' \in Fingerprints /\ Now.mtime = trace.mtime
  BY FingerprintType DEF IndexInv, IndexTypeOK, Now, Fingerprint, Fingerprints
<1>1. Len(trace.lines) \in Nat /\ Len(trace'.lines) \in Nat
      /\ trace.mtime \in Nat /\ trace.born \in Nat /\ trace'.born \in Nat
      /\ Now.size \in Nat /\ Now'.size \in Nat
  BY <1>0 DEF Fingerprints
<1>2. ASSUME NEW f \in Fingerprints, NoNewer(f, Now), (Since(f))'
      PROVE  /\ Since(f) /\ Len(trace'.lines) >= Len(trace.lines)
             /\ \A n \in 0..Len(trace.lines) :
                  SubSeq(trace'.lines, 1, n) = SubSeq(trace.lines, 1, n)
             /\ Now'.size >= Now.size
  <2>1. f.mtime \in Nat /\ f.mtime <= trace.mtime
    BY <1>0, <1>1, <1>2 DEF NoNewer, Fingerprints
  <2>2. ~(trace'.born > trace.mtime)
    BY <1>1, <1>2, <2>1 DEF Since
  <2> QED
    BY <1>2, <2>2 DEF Since
<1>3. ASSUME NEW f \in Fingerprints, NoNewer(f, Now), (Since(f))',
             NEW n \in (f.size \div 2)..Len(trace.lines)
      PROVE  /\ n \in (f.size \div 2)..Len(trace'.lines)
             /\ SubSeq(trace'.lines, 1, n) = SubSeq(trace.lines, 1, n)
  <2>1. f.size \in Nat
    BY <1>3 DEF Fingerprints
  <2>2. n \in 0..Len(trace.lines) /\ n \in Int /\ n >= f.size \div 2
    BY <1>1, <1>3, <2>1
  <2>3. Len(trace'.lines) >= Len(trace.lines)
        /\ SubSeq(trace'.lines, 1, n) = SubSeq(trace.lines, 1, n)
    BY <1>2, <1>3, <2>2
  <2> QED
    BY <1>1, <2>1, <2>2, <2>3
<1>4. ASSUME NEW r, NEW f \in Fingerprints, NoNewer(f, Now), Covers(r, f)
      PROVE  (Covers(r, f))'
  BY <1>2, <1>3, <1>4 DEF Covers
<1>5. \A b \in Builders : source'[b] = source[b] /\ source[b] \in Fingerprints /\ NoNewer(source[b], Now)
  BY DEF IndexInv, IndexTypeOK, AgesInv
<1>6. live.meta \in Metas => live.meta.source \in Fingerprints /\ NoNewer(live.meta.source, Now)
  BY MetasAreTyped DEF IndexInv, AgesInv
<1>7. GrowthInv'
  <2>1. \A b \in Builders : (Since(source[b]))' => source[b].size <= Now'.size
    <3> SUFFICES ASSUME NEW b \in Builders, (Since(source[b]))' PROVE source[b].size <= Now'.size
      OBVIOUS
    <3>1. Since(source[b]) /\ Now'.size >= Now.size /\ source[b].size \in Nat
      BY <1>2, <1>5 DEF Since, Fingerprints
    <3> QED
      BY <1>1, <3>1 DEF GrowthInv
  <2>2. live.meta \in Metas /\ (Since(live.meta.source))' =>
          Since(live.meta.source) /\ live.meta.source.size <= Now'.size
    <3> SUFFICES ASSUME live.meta \in Metas, (Since(live.meta.source))'
                 PROVE  Since(live.meta.source) /\ live.meta.source.size <= Now'.size
      OBVIOUS
    <3>1. Since(live.meta.source) /\ Now'.size >= Now.size /\ live.meta.source.size \in Nat
      BY <1>2, <1>6 DEF Since, Fingerprints
    <3> QED
      BY <1>1, <3>1 DEF GrowthInv
  <2> QED
    BY <2>1, <2>2 DEF GrowthInv
<1>8. ASSUME NEW b \in Builders, pc[b] = "parse", (Since(source[b]))'
      PROVE  /\ offsets[b].born = trace'.born
             /\ \E n \in (source[b].size \div 2)..Len(trace'.lines) :
                  offsets[b].at = LineOffsets(SubSeq(trace'.lines, 1, n))
  <2>1. Since(source[b]) /\ trace'.born = trace.born
    <3>1. source[b].mtime \in Nat /\ source[b].mtime <= trace.mtime
      BY <1>0, <1>1, <1>5, SMTT(30) DEF NoNewer, Fingerprints
    <3>2. ~(trace'.born > trace.mtime)
      BY <1>1, <1>5, <1>8, <3>1 DEF Since
    <3> QED
      BY <1>8, <3>2 DEF Since
  <2>2. PICK n \in (source[b].size \div 2)..Len(trace.lines) :
          offsets[b].at = LineOffsets(SubSeq(trace.lines, 1, n))
    BY <1>8, <2>1 DEF ServingInv
  <2>3. (Since(source[b]))' => n \in (source[b].size \div 2)..Len(trace'.lines)
               /\ SubSeq(trace'.lines, 1, n) = SubSeq(trace.lines, 1, n)
    BY <1>3, <1>5 DEF Since
  <2> QED
    BY <1>8, <2>1, <2>2, <2>3 DEF ServingInv
<1>9. ServingInv'
  <2>1. ASSUME NEW r, NEW b \in Builders, Covers(r, source[b])
        PROVE  (Since(source[b]))' =>
                 \E n \in (source[b].size \div 2)..Len(trace'.lines) : r = RowsOf(SubSeq(trace'.lines, 1, n))
    BY <1>4, <1>5, <2>1 DEF Covers, Since
  <2>2. ASSUME NEW r, live.meta \in Metas, Covers(r, live.meta.source)
        PROVE  (Since(live.meta.source))' =>
                 \E n \in (live.meta.source.size \div 2)..Len(trace'.lines) : r = RowsOf(SubSeq(trace'.lines, 1, n))
    BY <1>4, <1>6, <2>2 DEF Covers, Since
  <2>3. live.meta \in Metas /\ live.meta.schema = SchemaVersion =>
          (Covers(live.index.rows, live.meta.source))'
    BY <2>2 DEF ServingInv, Covers
  <2>4. ASSUME NEW b \in Builders
        PROVE  /\ pc[b] \in {Opening["index"], Writing["index"]} => (Covers(rows[b], source[b]))'
               /\ pc[b] \in WroteIndex => (Covers(tmp.index.rows, source[b]))'
               /\ pc[b] \in {Replacing["meta"], "load"} => (Covers(live.index.rows, source[b]))'
               /\ pc[b] = "loaded" => (Covers(store[b], source[b]))'
    <3>1. /\ pc[b] \in {Opening["index"], Writing["index"]} => Covers(rows[b], source[b])
          /\ pc[b] \in WroteIndex => Covers(tmp.index.rows, source[b])
          /\ pc[b] \in {Replacing["meta"], "load"} => Covers(live.index.rows, source[b])
          /\ pc[b] = "loaded" => Covers(store[b], source[b])
      BY DEF ServingInv
    <3>2. ASSUME NEW r, Covers(r, source[b])
          PROVE  (Since(source[b]))' =>
                   \E n \in (source[b].size \div 2)..Len(trace'.lines) :
                     r = RowsOf(SubSeq(trace'.lines, 1, n))
      BY <2>1, <3>2
    <3>3. Covers(rows[b], source[b]) => (Covers(rows[b], source[b]))'
      BY <3>2 DEF Covers
    <3>4. Covers(tmp.index.rows, source[b]) => (Covers(tmp.index.rows, source[b]))'
      BY <3>2 DEF Covers
    <3>5. Covers(live.index.rows, source[b]) => (Covers(live.index.rows, source[b]))'
      BY <3>2 DEF Covers
    <3>6. Covers(store[b], source[b]) => (Covers(store[b], source[b]))'
      BY <3>2 DEF Covers
    <3> QED
      BY <3>1, <3>3, <3>4, <3>5, <3>6
  <2> QED
    BY <1>8, <2>3, <2>4 DEF ServingInv
<1> QED
  BY <1>7, <1>9

LEMMA Counting ==
  ASSUME NEW S, 0 \in S, \A n \in Nat : n \in S => n + 1 \in S
  PROVE  \A n \in Nat : n \in S
<1> DEFINE Missed == {n \in Nat : n \notin S}
<1> SUFFICES ASSUME Missed # {} PROVE FALSE
  OBVIOUS
<1>1. \E n \in Missed : \A k \in Missed : ~(<<k, n>> \in OpToRel(<, Nat))
  BY WFMin, NatLessThanWellFounded
<1>2. PICK n \in Missed : \A k \in Missed : ~(k < n)
  BY <1>1 DEF OpToRel
<1>3. n \in Nat /\ n # 0 /\ n - 1 \in Nat /\ n - 1 < n /\ n - 1 + 1 = n
  OBVIOUS
<1> QED BY <1>2, <1>3

-----------------------------------------------------------------------------
(* The rows.  Building them in chunks makes no difference: what merging    *)
(* the rows of a chunk comes to is absorbing its lines one by one.         *)

(* The three loops do what their bodies say at each step. *)
LEMMA AbsorbedGoesOn ==
  ASSUME NEW chunk, Len(chunk) \in Nat
  PROVE  /\ AbsorbedUpTo(chunk)[0] = <<>>
         /\ \A k \in 1..Len(chunk) :
              AbsorbedUpTo(chunk)[k] = AbsorbLine(AbsorbedUpTo(chunk)[k - 1], chunk[k])
<1> DEFINE Step(s, k) == AbsorbLine(s, chunk[k])
           Behind(f, m) == f = [k \in 0..m |-> IF k = 0 THEN <<>> ELSE Step(f[k - 1], k)]
           Reached == {m \in Nat : \E f : Behind(f, m)}
<1> HIDE DEF Step
<1>1. 0 \in Reached
  <2>1. Behind([k \in 0..0 |-> <<>>], 0)
    OBVIOUS
  <2> QED BY <2>1
<1>2. ASSUME NEW m \in Nat, m \in Reached
      PROVE  m + 1 \in Reached
  <2>1. PICK f : Behind(f, m)
    BY <1>2
  <2> DEFINE g == [k \in 0..(m + 1) |-> IF k = 0 THEN <<>> ELSE Step(f[k - 1], k)]
  <2>2. \A k \in 0..m : g[k] = f[k]
    BY <2>1
  <2>3. \A k \in 0..(m + 1) : k # 0 => k - 1 \in 0..m
    OBVIOUS
  <2>4. Behind(g, m + 1)
    BY <2>2, <2>3
  <2> HIDE DEF g, Behind
  <2>5. \E h : Behind(h, m + 1)
    BY <2>4
  <2> QED BY <2>5
<1>3. Len(chunk) \in Reached
  <2> HIDE DEF Reached
  <2> QED BY <1>1, <1>2, Counting
<1>4. Behind(AbsorbedUpTo(chunk), Len(chunk))
  BY <1>3 DEF AbsorbedUpTo, Step
<1>5. /\ AbsorbedUpTo(chunk)[0] = <<>>
      /\ \A k \in 1..Len(chunk) : AbsorbedUpTo(chunk)[k] = Step(AbsorbedUpTo(chunk)[k - 1], k)
  <2> DEFINE f == AbsorbedUpTo(chunk)
  <2> HIDE DEF f
  <2>1. Behind(f, Len(chunk))
    BY <1>4 DEF f
  <2> QED BY <2>1 DEF f
<1> QED BY <1>5 DEF Step

LEMMA MergedGoesOn ==
  ASSUME NEW merged, NEW partial, Len(partial) \in Nat
  PROVE  /\ MergedWith(merged, partial)[0] = merged
         /\ \A k \in 1..Len(partial) :
              MergedWith(merged, partial)[k]
                = MergeAcc(MergedWith(merged, partial)[k - 1], partial[k])
<1> DEFINE Step(s, k) == MergeAcc(s, partial[k])
           Behind(f, m) == f = [k \in 0..m |-> IF k = 0 THEN merged ELSE Step(f[k - 1], k)]
           Reached == {m \in Nat : \E f : Behind(f, m)}
<1> HIDE DEF Step
<1>1. 0 \in Reached
  <2>1. Behind([k \in 0..0 |-> merged], 0)
    OBVIOUS
  <2> QED BY <2>1
<1>2. ASSUME NEW m \in Nat, m \in Reached
      PROVE  m + 1 \in Reached
  <2>1. PICK f : Behind(f, m)
    BY <1>2
  <2> DEFINE g == [k \in 0..(m + 1) |-> IF k = 0 THEN merged ELSE Step(f[k - 1], k)]
  <2>2. \A k \in 0..m : g[k] = f[k]
    BY <2>1
  <2>3. \A k \in 0..(m + 1) : k # 0 => k - 1 \in 0..m
    OBVIOUS
  <2>4. Behind(g, m + 1)
    BY <2>2, <2>3
  <2> HIDE DEF g, Behind
  <2>5. \E h : Behind(h, m + 1)
    BY <2>4
  <2> QED BY <2>5
<1>3. Len(partial) \in Reached
  <2> HIDE DEF Reached
  <2> QED BY <1>1, <1>2, Counting
<1>4. Behind(MergedWith(merged, partial), Len(partial))
  BY <1>3 DEF MergedWith, Step
<1>5. /\ MergedWith(merged, partial)[0] = merged
      /\ \A k \in 1..Len(partial) :
           MergedWith(merged, partial)[k] = Step(MergedWith(merged, partial)[k - 1], k)
  <2> DEFINE f == MergedWith(merged, partial)
  <2> HIDE DEF f
  <2>1. Behind(f, Len(partial))
    BY <1>4 DEF f
  <2> QED BY <2>1 DEF f
<1> QED BY <1>5 DEF Step

LEMMA ChunksGoOn ==
  ASSUME NEW partials, Len(partials) \in Nat
  PROVE  /\ MergedUpTo(partials)[0] = <<>>
         /\ \A k \in 1..Len(partials) :
              MergedUpTo(partials)[k] = MergePartial(MergedUpTo(partials)[k - 1], partials[k])
<1> DEFINE Step(s, k) == MergePartial(s, partials[k])
           Behind(f, m) == f = [k \in 0..m |-> IF k = 0 THEN <<>> ELSE Step(f[k - 1], k)]
           Reached == {m \in Nat : \E f : Behind(f, m)}
<1> HIDE DEF Step
<1>1. 0 \in Reached
  <2>1. Behind([k \in 0..0 |-> <<>>], 0)
    OBVIOUS
  <2> QED BY <2>1
<1>2. ASSUME NEW m \in Nat, m \in Reached
      PROVE  m + 1 \in Reached
  <2>1. PICK f : Behind(f, m)
    BY <1>2
  <2> DEFINE g == [k \in 0..(m + 1) |-> IF k = 0 THEN <<>> ELSE Step(f[k - 1], k)]
  <2>2. \A k \in 0..m : g[k] = f[k]
    BY <2>1
  <2>3. \A k \in 0..(m + 1) : k # 0 => k - 1 \in 0..m
    OBVIOUS
  <2>4. Behind(g, m + 1)
    BY <2>2, <2>3
  <2> HIDE DEF g, Behind
  <2>5. \E h : Behind(h, m + 1)
    BY <2>4
  <2> QED BY <2>5
<1>3. Len(partials) \in Reached
  <2> HIDE DEF Reached
  <2> QED BY <1>1, <1>2, Counting
<1>4. Behind(MergedUpTo(partials), Len(partials))
  BY <1>3 DEF MergedUpTo, Step
<1>5. /\ MergedUpTo(partials)[0] = <<>>
      /\ \A k \in 1..Len(partials) :
           MergedUpTo(partials)[k] = Step(MergedUpTo(partials)[k - 1], k)
  <2> DEFINE f == MergedUpTo(partials)
  <2> HIDE DEF f
  <2>1. Behind(f, Len(partials))
    BY <1>4 DEF f
  <2> QED BY <2>1 DEF f
<1> QED BY <1>5 DEF Step

(* Lines as they are read back, and the rows they are absorbed in, for any *)
(* set of names.                                                           *)
Entries(S) ==
  [at : Nat, trace : S, span : S, parent : S, project : S, start : Nat, error : BOOLEAN]

Counts(S) == {0} \cup {Cardinality(some) : some \in SUBSET S}

Accs(S) ==
  [trace : S, offsets : Seq(Nat), start : Nat, project : S, projects : SUBSET S,
   spans : SUBSET S, parents : SUBSET S, errors : Nat, missing : Counts(S)]

(* One row for each trace. *)
Dicts(S) == {d \in Seq(Accs(S)) : \A i, j \in 1..Len(d) : d[i].trace = d[j].trace => i = j}

LEMMA AppendsBehind ==
  ASSUME NEW s \in Seq(Nat), NEW t \in Seq(Nat), NEW e \in Nat
  PROVE  s \o Append(t, e) = Append(s \o t, e)
<1>1. /\ s \o Append(t, e) \in Seq(Nat) /\ Append(s \o t, e) \in Seq(Nat)
      /\ Len(s \o Append(t, e)) = Len(s) + Len(t) + 1 /\ Len(Append(s \o t, e)) = Len(s) + Len(t) + 1
  OBVIOUS
<1>2. \A i \in 1..(Len(s) + Len(t) + 1) : (s \o Append(t, e))[i] = Append(s \o t, e)[i]
  OBVIOUS
<1> QED BY <1>1, <1>2

LEMMA OneBehind ==
  ASSUME NEW s \in Seq(Nat), NEW e \in Nat
  PROVE  Append(s, e) = s \o Append(<<>>, e)
<1>1. s \o <<>> = s /\ <<>> \in Seq(Nat)
  OBVIOUS
<1> QED BY <1>1, AppendsBehind

LEMMA AbsorbsOne ==
  ASSUME NEW S, NEW acc \in Accs(S), NEW l \in Entries(S), NoId \notin Nat
  PROVE  /\ Absorb(acc, l) \in Accs(S) /\ Absorb(acc, l).trace = acc.trace
         /\ Absorb(acc, l) = MergeIn(acc, Absorb(Fresh(l.trace), l))
<1> DEFINE one == Absorb(Fresh(l.trace), l)
<1>1. /\ acc.offsets \in Seq(Nat) /\ l.at \in Nat /\ acc.start \in Nat /\ l.start \in Nat
      /\ acc.errors \in Nat /\ l.error \in BOOLEAN /\ acc.trace \in S
      /\ acc.project \in S /\ l.project \in S /\ l.span \in S /\ l.parent \in S
      /\ acc.projects \in SUBSET S /\ acc.spans \in SUBSET S /\ acc.parents \in SUBSET S
      /\ acc.missing \in Counts(S)
  BY DEF Accs, Entries
<1>2. Append(acc.offsets, l.at) = acc.offsets \o Append(<<>>, l.at)
  BY <1>1, OneBehind
<1>3. Earlier(acc.start, l.start) \in Nat
  BY <1>1 DEF Earlier
<1>4. Absorb(acc, l) \in Accs(S)
  BY <1>1, <1>3 DEF Absorb, Accs
<1>5. /\ one.offsets = Append(<<>>, l.at) /\ one.start = l.start /\ one.project = l.project
      /\ one.projects = {l.project} \ {NoId} /\ one.spans = {l.span}
      /\ one.parents = {l.parent} \ {NoId} /\ one.errors = IF l.error THEN 1 ELSE 0
  BY DEF Absorb, Fresh, Earlier
<1> HIDE DEF one
<1>6. (IF l.error THEN acc.errors + 1 ELSE acc.errors) = acc.errors + one.errors
  BY <1>1, <1>5
<1>7. Absorb(acc, l) = MergeIn(acc, one)
  BY <1>2, <1>5, <1>6 DEF Absorb, MergeIn
<1> QED BY <1>4, <1>7 DEF Absorb, one

LEMMA FirstOfTrace ==
  ASSUME NEW S, NEW l \in Entries(S)
  PROVE  Absorb(Fresh(l.trace), l) \in Accs(S) /\ Absorb(Fresh(l.trace), l).trace = l.trace
<1>1. /\ l.at \in Nat /\ l.start \in Nat /\ l.error \in BOOLEAN /\ l.trace \in S
      /\ l.project \in S /\ l.span \in S /\ l.parent \in S
  BY DEF Entries
<1>2. Append(<<>>, l.at) \in Seq(Nat)
  BY <1>1
<1>3. 0 \in Counts(S)
  BY DEF Counts
<1> QED BY <1>1, <1>2, <1>3 DEF Absorb, Fresh, Accs, Earlier

LEMMA MergedTyped ==
  ASSUME NEW S, NEW acc \in Accs(S), NEW other \in Accs(S)
  PROVE  MergeIn(acc, other) \in Accs(S)
<1>1. /\ acc.offsets \in Seq(Nat) /\ other.offsets \in Seq(Nat)
      /\ acc.start \in Nat /\ other.start \in Nat
      /\ acc.errors \in Nat /\ other.errors \in Nat
      /\ acc.trace \in S /\ acc.project \in S /\ other.project \in S
      /\ acc.projects \in SUBSET S /\ acc.spans \in SUBSET S /\ acc.parents \in SUBSET S
      /\ other.projects \in SUBSET S /\ other.spans \in SUBSET S /\ other.parents \in SUBSET S
      /\ acc.missing \in Counts(S)
  BY DEF Accs
<1>2. Earlier(acc.start, other.start) \in Nat
  BY <1>1 DEF Earlier
<1> QED BY <1>1, <1>2 DEF MergeIn, Accs

LEMMA MergesThenAbsorbs ==
  ASSUME NEW S, NEW acc \in Accs(S), NEW other \in Accs(S), NEW l \in Entries(S), NoId \notin Nat
  PROVE  /\ MergeIn(acc, other) \in Accs(S) /\ MergeIn(acc, other).trace = acc.trace
         /\ MergeIn(acc, Absorb(other, l)) = Absorb(MergeIn(acc, other), l)
<1>1. /\ acc.offsets \in Seq(Nat) /\ other.offsets \in Seq(Nat) /\ l.at \in Nat
      /\ acc.start \in Nat /\ other.start \in Nat /\ l.start \in Nat
      /\ acc.errors \in Nat /\ other.errors \in Nat /\ l.error \in BOOLEAN
      /\ acc.trace \in S /\ acc.project \in S /\ other.project \in S
      /\ acc.projects \in SUBSET S /\ acc.spans \in SUBSET S /\ acc.parents \in SUBSET S
      /\ other.projects \in SUBSET S /\ other.spans \in SUBSET S /\ other.parents \in SUBSET S
      /\ acc.missing \in Counts(S)
  BY DEF Accs, Entries
<1>2. acc.offsets \o Append(other.offsets, l.at) = Append(acc.offsets \o other.offsets, l.at)
  BY <1>1, AppendsBehind
<1>3. /\ Earlier(acc.start, other.start) \in Nat
      /\ Earlier(acc.start, Earlier(other.start, l.start))
           = Earlier(Earlier(acc.start, other.start), l.start)
  BY <1>1 DEF Earlier
<1>4. MergeIn(acc, other) \in Accs(S)
  BY <1>1, <1>3 DEF MergeIn, Accs
<1>5. acc.errors + (IF l.error THEN other.errors + 1 ELSE other.errors)
        = IF l.error THEN acc.errors + other.errors + 1 ELSE acc.errors + other.errors
  <2>1. acc.errors + (other.errors + 1) = acc.errors + other.errors + 1
    BY <1>1
  <2> QED BY <2>1
<1>6. MergeIn(acc, Absorb(other, l)) = Absorb(MergeIn(acc, other), l)
  BY <1>2, <1>3, <1>5 DEF Absorb, MergeIn
<1> QED BY <1>4, <1>6 DEF MergeIn

(* One row for each trace: a dictionary stays one. *)
LEMMA AbsorbKeepsDict ==
  ASSUME NEW S, NEW d \in Dicts(S), NEW l \in Entries(S), NoId \in S, NoId \notin Nat
  PROVE  /\ AbsorbLine(d, l) \in Dicts(S)
         /\ \A t : Knows(AbsorbLine(d, l), t) <=> Knows(d, t) \/ t = l.trace
<1> DEFINE e == AbsorbLine(d, l)
           one == Absorb(Fresh(l.trace), l)
<1>1. d \in Seq(Accs(S)) /\ Len(d) \in Nat /\ DOMAIN d = 1..Len(d)
      /\ (\A n \in 1..Len(d) : d[n] \in Accs(S))
      /\ \A i, j \in 1..Len(d) : d[i].trace = d[j].trace => i = j
  BY DEF Dicts
<1>2. CASE Knows(d, l.trace)
  <2>1. e = [n \in 1..Len(d) |-> IF d[n].trace = l.trace THEN Absorb(d[n], l) ELSE d[n]]
    BY <1>1, <1>2 DEF AbsorbLine
  <2> HIDE DEF e
  <2>2. \A n \in 1..Len(d) : e[n] \in Accs(S) /\ e[n].trace = d[n].trace
    <3> TAKE n \in 1..Len(d)
    <3>1. Absorb(d[n], l) \in Accs(S) /\ Absorb(d[n], l).trace = d[n].trace
      BY <1>1, AbsorbsOne
    <3> QED BY <1>1, <2>1, <3>1
  <2>3. e \in Seq(Accs(S)) /\ Len(e) = Len(d) /\ DOMAIN e = 1..Len(d)
    BY <1>1, <2>1, <2>2
  <2>4. e \in Dicts(S)
    BY <1>1, <2>2, <2>3 DEF Dicts
  <2>5. \A t : Knows(e, t) <=> Knows(d, t) \/ t = l.trace
    BY <1>1, <1>2, <2>2, <2>3 DEF Knows
  <2> QED BY <2>4, <2>5 DEF e
<1>3. CASE ~Knows(d, l.trace)
  <2>1. e = Append(d, one)
    BY <1>3 DEF AbsorbLine
  <2>2. one \in Accs(S) /\ one.trace = l.trace
    BY FirstOfTrace
  <2> HIDE DEF e, one
  <2>3. /\ e \in Seq(Accs(S)) /\ Len(e) = Len(d) + 1 /\ DOMAIN e = 1..(Len(d) + 1)
        /\ e[Len(d) + 1] = one /\ \A n \in 1..Len(d) : e[n] = d[n]
    BY <1>1, <2>1, <2>2
  <2>4. \A n \in 1..(Len(d) + 1) : n \in 1..Len(d) \/ n = Len(d) + 1
    BY <1>1
  <2>5. \A n \in 1..Len(d) : d[n].trace # l.trace
    BY <1>1, <1>3 DEF Knows
  <2>6. \A i, j \in 1..(Len(d) + 1) : e[i].trace = e[j].trace => i = j
    BY <1>1, <2>2, <2>3, <2>4, <2>5
  <2>7. e \in Dicts(S)
    BY <2>3, <2>6 DEF Dicts
  <2>8. \A t : Knows(e, t) <=> Knows(d, t) \/ t = l.trace
    <3> TAKE t
    <3>1. ASSUME Knows(d, t) PROVE Knows(e, t)
      <4>1. PICK n \in 1..Len(d) : d[n].trace = t
        BY <1>1, <3>1 DEF Knows
      <4>2. n \in 1..(Len(d) + 1)
        BY <1>1
      <4> QED BY <2>3, <4>1, <4>2 DEF Knows
    <3>2. Knows(e, l.trace)
      <4>1. Len(d) + 1 \in 1..(Len(d) + 1)
        BY <1>1
      <4> QED BY <2>2, <2>3, <4>1 DEF Knows
    <3>3. ASSUME Knows(e, t), t # l.trace PROVE Knows(d, t)
      <4>1. PICK n \in 1..(Len(d) + 1) : e[n].trace = t
        BY <2>3, <3>3 DEF Knows
      <4> QED BY <1>1, <2>2, <2>3, <2>4, <3>3, <4>1 DEF Knows
    <3> QED BY <3>1, <3>2, <3>3
  <2> QED BY <2>7, <2>8 DEF e
<1> QED BY <1>2, <1>3

LEMMA AbsorbedIsDict ==
  ASSUME NEW S, NEW chunk \in Seq(Entries(S)), NoId \in S, NoId \notin Nat
  PROVE  \A k \in 0..Len(chunk) : AbsorbedUpTo(chunk)[k] \in Dicts(S)
<1> DEFINE f == AbsorbedUpTo(chunk)
           Typed == {n \in Nat : n <= Len(chunk) => f[n] \in Dicts(S)}
<1>1. /\ Len(chunk) \in Nat /\ f[0] = <<>>
      /\ \A k \in 1..Len(chunk) : f[k] = AbsorbLine(f[k - 1], chunk[k])
      /\ \A k \in 1..Len(chunk) : chunk[k] \in Entries(S)
  BY AbsorbedGoesOn
<1> HIDE DEF f
<1>2. 0 \in Typed
  <2>1. <<>> \in Seq(Accs(S)) /\ Len(<<>>) = 0
    OBVIOUS
  <2>2. <<>> \in Dicts(S)
    BY <2>1 DEF Dicts
  <2> QED BY <1>1, <2>2
<1>3. ASSUME NEW n \in Nat, n \in Typed PROVE n + 1 \in Typed
  <2> SUFFICES ASSUME n + 1 <= Len(chunk) PROVE f[n + 1] \in Dicts(S)
    OBVIOUS
  <2>1. n + 1 \in 1..Len(chunk) /\ n + 1 - 1 = n /\ f[n] \in Dicts(S)
    BY <1>1, <1>3
  <2>2. f[n + 1] = AbsorbLine(f[n], chunk[n + 1]) /\ chunk[n + 1] \in Entries(S)
    BY <1>1, <2>1
  <2> QED BY <2>1, <2>2, AbsorbKeepsDict
<1> HIDE DEF Typed
<1>4. \A n \in Nat : n \in Typed
  BY <1>2, <1>3, Counting
<1> QED BY <1>1, <1>4 DEF Typed, f

(* Merging a row: the rows there are, one of them grown, or one more. *)
IsMerged(d, acc, m) ==
  /\ Knows(d, acc.trace) =>
       /\ Len(m) = Len(d)
       /\ \A n \in 1..Len(d) :
            /\ m[n].trace = d[n].trace
            /\ m[n] = IF d[n].trace = acc.trace THEN MergeIn(d[n], acc) ELSE d[n]
  /\ ~Knows(d, acc.trace) =>
       /\ Len(m) = Len(d) + 1 /\ m[Len(d) + 1] = acc
       /\ \A n \in 1..Len(d) : m[n] = d[n] /\ d[n].trace # acc.trace

LEMMA MergeKeepsRows ==
  ASSUME NEW S, NEW d \in Seq(Accs(S)), NEW acc \in Accs(S), NoId \notin Nat
  PROVE  /\ MergeAcc(d, acc) \in Seq(Accs(S))
         /\ IsMerged(d, acc, MergeAcc(d, acc))
         /\ \A t : Knows(MergeAcc(d, acc), t) <=> Knows(d, t) \/ t = acc.trace
<1> DEFINE m == MergeAcc(d, acc)
<1>1. Len(d) \in Nat /\ DOMAIN d = 1..Len(d) /\ \A n \in 1..Len(d) : d[n] \in Accs(S)
  OBVIOUS
<1>2. CASE Knows(d, acc.trace)
  <2>1. m = [n \in 1..Len(d) |-> IF d[n].trace = acc.trace THEN MergeIn(d[n], acc) ELSE d[n]]
    BY <1>1, <1>2 DEF MergeAcc
  <2> HIDE DEF m
  <2>2. \A n \in 1..Len(d) : m[n] \in Accs(S) /\ m[n].trace = d[n].trace
    <3> TAKE n \in 1..Len(d)
    <3>1. MergeIn(d[n], acc) \in Accs(S) /\ MergeIn(d[n], acc).trace = d[n].trace
      <4>1. d[n] \in Accs(S)
        BY <1>1
      <4>2. MergeIn(d[n], acc).trace = d[n].trace
        BY DEF MergeIn
      <4>3. MergeIn(d[n], acc) \in Accs(S)
        BY <4>1, MergedTyped
      <4> QED BY <4>2, <4>3
    <3> QED BY <1>1, <2>1, <3>1
  <2>3. m \in Seq(Accs(S)) /\ Len(m) = Len(d) /\ DOMAIN m = 1..Len(d)
    BY <1>1, <2>1, <2>2
  <2>4. \A t : Knows(m, t) <=> Knows(d, t) \/ t = acc.trace
    BY <1>1, <1>2, <2>2, <2>3 DEF Knows
  <2> QED BY <1>2, <2>1, <2>2, <2>3, <2>4 DEF m, IsMerged
<1>3. CASE ~Knows(d, acc.trace)
  <2>1. m = Append(d, acc)
    BY <1>3 DEF MergeAcc
  <2> HIDE DEF m
  <2>3. /\ m \in Seq(Accs(S)) /\ Len(m) = Len(d) + 1 /\ DOMAIN m = 1..(Len(d) + 1)
        /\ m[Len(d) + 1] = acc /\ \A n \in 1..Len(d) : m[n] = d[n]
    BY <1>1, <2>1
  <2>4. \A n \in 1..(Len(d) + 1) : n \in 1..Len(d) \/ n = Len(d) + 1
    BY <1>1
  <2>5. \A n \in 1..Len(d) : d[n].trace # acc.trace
    BY <1>1, <1>3 DEF Knows
  <2>8. \A t : Knows(m, t) <=> Knows(d, t) \/ t = acc.trace
    <3> TAKE t
    <3>1. ASSUME Knows(d, t) PROVE Knows(m, t)
      <4>1. PICK n \in 1..Len(d) : d[n].trace = t
        BY <1>1, <3>1 DEF Knows
      <4>2. n \in 1..(Len(d) + 1)
        BY <1>1
      <4> QED BY <2>3, <4>1, <4>2 DEF Knows
    <3>2. Knows(m, acc.trace)
      <4>1. Len(d) + 1 \in 1..(Len(d) + 1)
        BY <1>1
      <4> QED BY <2>3, <4>1 DEF Knows
    <3>3. ASSUME Knows(m, t), t # acc.trace PROVE Knows(d, t)
      <4>1. PICK n \in 1..(Len(d) + 1) : m[n].trace = t
        BY <2>3, <3>3 DEF Knows
      <4> QED BY <1>1, <2>3, <2>4, <3>3, <4>1 DEF Knows
    <3> QED BY <3>1, <3>2, <3>3
  <2> QED BY <1>3, <2>3, <2>5, <2>8 DEF m, IsMerged
<1> QED BY <1>2, <1>3

(* Absorbing a line, seen the same way. *)
LEMMA AbsorbKeepsRows ==
  ASSUME NEW S, NEW d \in Seq(Accs(S)), NEW l \in Entries(S), NoId \notin Nat
  PROVE  LET e == AbsorbLine(d, l)
         IN  /\ e \in Seq(Accs(S))
             /\ Knows(d, l.trace) =>
                  /\ Len(e) = Len(d)
                  /\ \A n \in 1..Len(d) :
                       /\ e[n].trace = d[n].trace
                       /\ e[n] = IF d[n].trace = l.trace THEN Absorb(d[n], l) ELSE d[n]
             /\ ~Knows(d, l.trace) => e = Append(d, Absorb(Fresh(l.trace), l))
<1> DEFINE e == AbsorbLine(d, l)
<1>1. Len(d) \in Nat /\ DOMAIN d = 1..Len(d) /\ \A n \in 1..Len(d) : d[n] \in Accs(S)
  OBVIOUS
<1>2. CASE Knows(d, l.trace)
  <2>1. e = [n \in 1..Len(d) |-> IF d[n].trace = l.trace THEN Absorb(d[n], l) ELSE d[n]]
    BY <1>1, <1>2 DEF AbsorbLine
  <2> HIDE DEF e
  <2>2. \A n \in 1..Len(d) : e[n] \in Accs(S) /\ e[n].trace = d[n].trace
    <3> TAKE n \in 1..Len(d)
    <3>1. Absorb(d[n], l) \in Accs(S) /\ Absorb(d[n], l).trace = d[n].trace
      BY <1>1, AbsorbsOne
    <3> QED BY <1>1, <2>1, <3>1
  <2>3. e \in Seq(Accs(S)) /\ Len(e) = Len(d)
    BY <1>1, <2>1, <2>2
  <2> QED BY <1>2, <2>1, <2>2, <2>3 DEF e
<1>3. CASE ~Knows(d, l.trace)
  <2>1. e = Append(d, Absorb(Fresh(l.trace), l))
    BY <1>3 DEF AbsorbLine
  <2>2. Absorb(Fresh(l.trace), l) \in Accs(S)
    BY FirstOfTrace
  <2> HIDE DEF e
  <2>3. e \in Seq(Accs(S))
    BY <2>1, <2>2
  <2> QED BY <1>3, <2>1, <2>3 DEF e
<1> QED BY <1>2, <1>3

(* A line more in a row, then the row into the others: or the row first.   *)
LEMMA LineThenRow ==
  ASSUME NEW S, NEW d \in Seq(Accs(S)), NEW acc \in Accs(S), NEW l \in Entries(S), NoId \notin Nat,
         acc.trace = l.trace
  PROVE  MergeAcc(d, Absorb(acc, l)) = AbsorbLine(MergeAcc(d, acc), l)
<1> DEFINE m == MergeAcc(d, acc)
           grown == Absorb(acc, l)
           left == MergeAcc(d, grown)
           right == AbsorbLine(m, l)
<1>1. Len(d) \in Nat /\ \A n \in 1..Len(d) : d[n] \in Accs(S)
  OBVIOUS
<1>2. grown \in Accs(S) /\ grown.trace = l.trace
  BY AbsorbsOne
<1>3. /\ m \in Seq(Accs(S)) /\ Knows(m, l.trace)
      /\ Knows(d, l.trace) =>
           /\ Len(m) = Len(d)
           /\ \A n \in 1..Len(d) :
                /\ m[n].trace = d[n].trace
                /\ m[n] = IF d[n].trace = l.trace THEN MergeIn(d[n], acc) ELSE d[n]
      /\ ~Knows(d, l.trace) =>
           /\ Len(m) = Len(d) + 1 /\ m[Len(d) + 1] = acc
           /\ \A n \in 1..Len(d) : m[n] = d[n] /\ d[n].trace # l.trace
  <2>1. m \in Seq(Accs(S)) /\ IsMerged(d, acc, m) /\ Knows(m, acc.trace)
    BY MergeKeepsRows
  <2> HIDE DEF m
  <2> QED BY <2>1 DEF IsMerged
<1> HIDE DEF m, grown
<1>4. /\ left \in Seq(Accs(S))
      /\ Knows(d, l.trace) =>
           /\ Len(left) = Len(d)
           /\ \A n \in 1..Len(d) :
                left[n] = IF d[n].trace = l.trace THEN MergeIn(d[n], grown) ELSE d[n]
      /\ ~Knows(d, l.trace) =>
           /\ Len(left) = Len(d) + 1 /\ left[Len(d) + 1] = grown
           /\ \A n \in 1..Len(d) : left[n] = d[n]
  <2>1. left \in Seq(Accs(S)) /\ IsMerged(d, grown, left)
    BY <1>2, MergeKeepsRows
  <2> HIDE DEF left
  <2> QED BY <1>2, <2>1 DEF IsMerged
<1>5. /\ right \in Seq(Accs(S)) /\ Len(right) = Len(m)
      /\ \A n \in 1..Len(m) : right[n] = IF m[n].trace = l.trace THEN Absorb(m[n], l) ELSE m[n]
  BY <1>3, AbsorbKeepsRows
<1> HIDE DEF left, right
<1>6. CASE Knows(d, l.trace)
  <2>1. \A n \in 1..Len(d) : MergeIn(d[n], grown) = Absorb(MergeIn(d[n], acc), l)
    BY <1>1, MergesThenAbsorbs DEF grown
  <2>2. \A n \in 1..Len(d) : left[n] = right[n]
    BY <1>3, <1>4, <1>5, <1>6, <2>1
  <2>3. left = right
    BY <1>1, <1>3, <1>4, <1>5, <1>6, <2>2
  <2> QED BY <2>3 DEF left, right, m, grown
<1>7. CASE ~Knows(d, l.trace)
  <2>1. \A n \in 1..(Len(d) + 1) : n \in 1..Len(d) \/ n = Len(d) + 1
    BY <1>1
  <2>2. \A n \in 1..(Len(d) + 1) : left[n] = right[n]
    BY <1>3, <1>4, <1>5, <1>7, <2>1 DEF grown
  <2>3. left = right
    BY <1>1, <1>3, <1>4, <1>5, <1>7, <2>2
  <2> QED BY <2>3 DEF left, right, m, grown
<1> QED BY <1>6, <1>7

LEMMA RowThenLine ==
  ASSUME NEW S, NEW d \in Seq(Accs(S)), NEW acc \in Accs(S), NEW l \in Entries(S), NoId \notin Nat,
         acc.trace # l.trace, Knows(d, l.trace)
  PROVE  MergeAcc(AbsorbLine(d, l), acc) = AbsorbLine(MergeAcc(d, acc), l)
<1> DEFINE m == MergeAcc(d, acc)
           e == AbsorbLine(d, l)
           left == MergeAcc(e, acc)
           right == AbsorbLine(m, l)
<1>1. Len(d) \in Nat /\ DOMAIN d = 1..Len(d) /\ \A n \in 1..Len(d) : d[n] \in Accs(S)
  OBVIOUS
<1>2. /\ e \in Seq(Accs(S)) /\ Len(e) = Len(d)
      /\ \A n \in 1..Len(d) :
           /\ e[n].trace = d[n].trace
           /\ e[n] = IF d[n].trace = l.trace THEN Absorb(d[n], l) ELSE d[n]
  BY AbsorbKeepsRows
<1>3. /\ m \in Seq(Accs(S)) /\ Knows(m, l.trace)
      /\ Knows(d, acc.trace) =>
           /\ Len(m) = Len(d)
           /\ \A n \in 1..Len(d) :
                /\ m[n].trace = d[n].trace
                /\ m[n] = IF d[n].trace = acc.trace THEN MergeIn(d[n], acc) ELSE d[n]
      /\ ~Knows(d, acc.trace) =>
           /\ Len(m) = Len(d) + 1 /\ m[Len(d) + 1] = acc
           /\ \A n \in 1..Len(d) : m[n] = d[n] /\ d[n].trace # acc.trace
  <2>1. m \in Seq(Accs(S)) /\ IsMerged(d, acc, m) /\ Knows(m, l.trace)
    BY MergeKeepsRows
  <2> HIDE DEF m
  <2> QED BY <2>1 DEF IsMerged
<1> HIDE DEF m, e
<1>4. Knows(e, acc.trace) <=> Knows(d, acc.trace)
  <2>1. DOMAIN e = 1..Len(d)
    BY <1>2
  <2> QED BY <1>1, <1>2, <2>1 DEF Knows
<1>5. /\ left \in Seq(Accs(S))
      /\ Knows(e, acc.trace) =>
           /\ Len(left) = Len(e)
           /\ \A n \in 1..Len(e) :
                left[n] = IF e[n].trace = acc.trace THEN MergeIn(e[n], acc) ELSE e[n]
      /\ ~Knows(e, acc.trace) =>
           /\ Len(left) = Len(e) + 1 /\ left[Len(e) + 1] = acc
           /\ \A n \in 1..Len(e) : left[n] = e[n]
  <2>1. left \in Seq(Accs(S)) /\ IsMerged(e, acc, left)
    BY <1>2, MergeKeepsRows
  <2> HIDE DEF left
  <2> QED BY <2>1 DEF IsMerged
<1>6. /\ right \in Seq(Accs(S)) /\ Len(right) = Len(m)
      /\ \A n \in 1..Len(m) : right[n] = IF m[n].trace = l.trace THEN Absorb(m[n], l) ELSE m[n]
  BY <1>3, AbsorbKeepsRows
<1> HIDE DEF left, right
<1>7. CASE Knows(d, acc.trace)
  <2>0. Len(m) = Len(d) /\ Len(e) = Len(d) /\ Knows(e, acc.trace)
    BY <1>2, <1>3, <1>4, <1>7
  <2>1. \A n \in 1..Len(d) : left[n] = right[n]
    <3> TAKE n \in 1..Len(d)
    <3>1. CASE d[n].trace = acc.trace
      <4>1. left[n] = MergeIn(d[n], acc)
        BY <1>2, <1>5, <2>0, <3>1
      <4>2. m[n] = MergeIn(d[n], acc) /\ m[n].trace # l.trace
        BY <1>3, <1>7, <3>1
      <4> QED BY <1>6, <2>0, <4>1, <4>2
    <3>2. CASE d[n].trace # acc.trace
      <4>1. left[n] = e[n]
        BY <1>2, <1>5, <2>0, <3>2
      <4>2. m[n] = d[n]
        BY <1>3, <1>7, <3>2
      <4> QED BY <1>2, <1>6, <2>0, <4>1, <4>2
    <3> QED BY <3>1, <3>2
  <2>2. left = right
    BY <1>1, <1>2, <1>3, <1>4, <1>5, <1>6, <1>7, <2>1
  <2> QED BY <2>2 DEF left, right, m, e
<1>8. CASE ~Knows(d, acc.trace)
  <2>1. \A n \in 1..(Len(d) + 1) : n \in 1..Len(d) \/ n = Len(d) + 1
    BY <1>1
  <2>2. \A n \in 1..(Len(d) + 1) : left[n] = right[n]
    BY <1>2, <1>3, <1>4, <1>5, <1>6, <1>8, <2>1
  <2>3. left = right
    <3>1. Len(left) = Len(d) + 1 /\ Len(right) = Len(d) + 1
      BY <1>2, <1>3, <1>4, <1>5, <1>6, <1>8
    <3> QED BY <1>5, <1>6, <2>2, <3>1
  <2> QED BY <2>3 DEF left, right, m, e
<1> QED BY <1>7, <1>8

LEMMA LineAsRow ==
  ASSUME NEW S, NEW d \in Seq(Accs(S)), NEW l \in Entries(S), NoId \notin Nat
  PROVE  MergeAcc(d, Absorb(Fresh(l.trace), l)) = AbsorbLine(d, l)
<1> DEFINE one == Absorb(Fresh(l.trace), l)
<1>1. one.trace = l.trace
  BY DEF Absorb, Fresh
<1>2. \A n \in DOMAIN d : MergeIn(d[n], one) = Absorb(d[n], l)
  BY AbsorbsOne
<1> HIDE DEF one
<1>3. MergeAcc(d, one) = AbsorbLine(d, l)
  <2>1. CASE Knows(d, l.trace)
    <3> DEFINE F(n) == IF d[n].trace = l.trace THEN MergeIn(d[n], one) ELSE d[n]
               G(n) == IF d[n].trace = l.trace THEN Absorb(d[n], l) ELSE d[n]
    <3>1. \A n \in DOMAIN d : F(n) = G(n)
      BY <1>2
    <3>2. MergeAcc(d, one) = [n \in DOMAIN d |-> F(n)]
      BY <1>1, <2>1 DEF MergeAcc
    <3>3. AbsorbLine(d, l) = [n \in DOMAIN d |-> G(n)]
      BY <2>1 DEF AbsorbLine
    <3> HIDE DEF F, G
    <3> QED BY <3>1, <3>2, <3>3
  <2>2. CASE ~Knows(d, l.trace)
    BY <1>1, <2>2 DEF MergeAcc, AbsorbLine, one
  <2> QED BY <2>1, <2>2
<1> QED BY <1>3 DEF one

LEMMA MergedStays ==
  ASSUME NEW S, NEW d \in Seq(Accs(S)), NEW partial \in Seq(Accs(S)), NoId \notin Nat
  PROVE  \A k \in 0..Len(partial) :
           /\ MergedWith(d, partial)[k] \in Seq(Accs(S))
           /\ \A j \in 1..k : Knows(MergedWith(d, partial)[k], partial[j].trace)
<1> DEFINE m == MergedWith(d, partial)
           Kept == {n \in Nat : n <= Len(partial) =>
                      m[n] \in Seq(Accs(S)) /\ \A j \in 1..n : Knows(m[n], partial[j].trace)}
<1>1. /\ Len(partial) \in Nat /\ m[0] = d
      /\ \A k \in 1..Len(partial) : m[k] = MergeAcc(m[k - 1], partial[k])
      /\ \A k \in 1..Len(partial) : partial[k] \in Accs(S)
  BY MergedGoesOn
<1> HIDE DEF m
<1>2. 0 \in Kept
  BY <1>1
<1>3. ASSUME NEW n \in Nat, n \in Kept PROVE n + 1 \in Kept
  <2> SUFFICES ASSUME n + 1 <= Len(partial)
               PROVE  /\ m[n + 1] \in Seq(Accs(S))
                      /\ \A j \in 1..(n + 1) : Knows(m[n + 1], partial[j].trace)
    OBVIOUS
  <2>1. /\ n + 1 \in 1..Len(partial) /\ n + 1 - 1 = n /\ m[n] \in Seq(Accs(S))
        /\ \A j \in 1..n : Knows(m[n], partial[j].trace)
    BY <1>1, <1>3
  <2>2. m[n + 1] = MergeAcc(m[n], partial[n + 1]) /\ partial[n + 1] \in Accs(S)
    BY <1>1, <2>1
  <2>3. /\ m[n + 1] \in Seq(Accs(S))
        /\ \A t : Knows(m[n + 1], t) <=> Knows(m[n], t) \/ t = partial[n + 1].trace
    <3> DEFINE before == m[n]
               row == partial[n + 1]
    <3>1. before \in Seq(Accs(S)) /\ row \in Accs(S) /\ m[n + 1] = MergeAcc(before, row)
      BY <2>1, <2>2
    <3> HIDE DEF before, row
    <3>2. /\ MergeAcc(before, row) \in Seq(Accs(S))
          /\ \A t : Knows(MergeAcc(before, row), t) <=> Knows(before, t) \/ t = row.trace
      BY <3>1, MergeKeepsRows
    <3> QED BY <3>1, <3>2 DEF before, row
  <2>4. \A j \in 1..(n + 1) : j \in 1..n \/ j = n + 1
    OBVIOUS
  <2> QED BY <2>1, <2>3, <2>4
<1> HIDE DEF Kept
<1>4. \A n \in Nat : n \in Kept
  BY <1>2, <1>3, Counting
<1> QED BY <1>1, <1>4 DEF Kept, m

LEMMA SamePrefixMerges ==
  ASSUME NEW d, NEW partial, NEW other, Len(partial) \in Nat, Len(other) \in Nat,
         NEW upto \in Nat, upto <= Len(partial), upto <= Len(other),
         \A j \in 1..upto : other[j] = partial[j]
  PROVE  \A k \in 0..upto : MergedWith(d, other)[k] = MergedWith(d, partial)[k]
<1> DEFINE m == MergedWith(d, partial)
           w == MergedWith(d, other)
           Same == {n \in Nat : n <= upto => w[n] = m[n]}
<1>1. /\ m[0] = d /\ \A k \in 1..Len(partial) : m[k] = MergeAcc(m[k - 1], partial[k])
  BY MergedGoesOn
<1>2. /\ w[0] = d /\ \A k \in 1..Len(other) : w[k] = MergeAcc(w[k - 1], other[k])
  BY MergedGoesOn
<1> HIDE DEF m, w
<1>3. 0 \in Same
  BY <1>1, <1>2
<1>4. ASSUME NEW n \in Nat, n \in Same PROVE n + 1 \in Same
  <2> SUFFICES ASSUME n + 1 <= upto PROVE w[n + 1] = m[n + 1]
    OBVIOUS
  <2>1. /\ n + 1 \in 1..Len(partial) /\ n + 1 \in 1..Len(other) /\ n + 1 \in 1..upto
        /\ n + 1 - 1 = n /\ w[n] = m[n]
    BY <1>4
  <2>2. m[n + 1] = MergeAcc(m[n], partial[n + 1])
    BY <1>1, <2>1
  <2>3. w[n + 1] = MergeAcc(w[n], other[n + 1])
    BY <1>2, <2>1
  <2> QED BY <2>1, <2>2, <2>3
<1> HIDE DEF Same
<1>5. \A n \in Nat : n \in Same
  BY <1>3, <1>4, Counting
<1> QED BY <1>5 DEF Same, m, w

(* Absorbing a line in a partial first, or in what it is merged with after. *)
LEMMA PartialGrows ==
  ASSUME NEW S, NEW d \in Seq(Accs(S)), NEW partial \in Dicts(S), NEW l \in Entries(S),
         NoId \notin Nat
  PROVE  MergePartial(d, AbsorbLine(partial, l)) = AbsorbLine(MergePartial(d, partial), l)
<1> DEFINE m == MergedWith(d, partial)
           grown == AbsorbLine(partial, l)
           w == MergedWith(d, grown)
           all == Len(partial)
<1>1. /\ partial \in Seq(Accs(S)) /\ all \in Nat /\ DOMAIN partial = 1..all
      /\ \A i \in 1..all : partial[i] \in Accs(S)
      /\ \A i, j \in 1..all : partial[i].trace = partial[j].trace => i = j
  BY DEF Dicts
<1>2. /\ m[0] = d /\ \A k \in 1..all : m[k] = MergeAcc(m[k - 1], partial[k])
  BY <1>1, MergedGoesOn
<1>3. \A k \in 0..all : /\ m[k] \in Seq(Accs(S))
                        /\ \A j \in 1..k : Knows(m[k], partial[j].trace)
  BY <1>1, MergedStays
<1>4. CASE ~Knows(partial, l.trace)
  <2> DEFINE one == Absorb(Fresh(l.trace), l)
  <2>1. grown = Append(partial, one)
    BY <1>4 DEF AbsorbLine
  <2>2. one \in Accs(S)
    BY FirstOfTrace
  <2> HIDE DEF one, grown
  <2>3. /\ Len(grown) = all + 1 /\ grown[all + 1] = one
        /\ \A j \in 1..all : grown[j] = partial[j]
    BY <1>1, <2>1, <2>2
  <2>4. w[all] = m[all]
    <3>1. Len(grown) \in Nat /\ all <= Len(grown) /\ all \in 0..all
      BY <1>1, <2>3
    <3>2. \A k \in 0..all : w[k] = m[k]
      BY <1>1, <2>3, <3>1, SamePrefixMerges
    <3> QED BY <3>1, <3>2
  <2>5. w[all + 1] = MergeAcc(w[all], one)
    <3>1. Len(grown) \in Nat
      BY <1>1, <2>3
    <3>2. \A k \in 1..Len(grown) : w[k] = MergeAcc(w[k - 1], grown[k])
      BY <3>1, MergedGoesOn
    <3>3. all + 1 \in 1..Len(grown) /\ all + 1 - 1 = all
      BY <1>1, <2>3
    <3> HIDE DEF w
    <3> QED BY <2>3, <3>2, <3>3
  <2>6. m[all] \in Seq(Accs(S))
    BY <1>1, <1>3
  <2> HIDE DEF w, m
  <2>7. MergeAcc(m[all], one) = AbsorbLine(m[all], l)
    BY <2>6, LineAsRow DEF one
  <2>8. w[Len(grown)] = AbsorbLine(m[all], l)
    BY <2>3, <2>4, <2>5, <2>7
  <2> QED BY <2>8 DEF MergePartial, w, m, grown
<1>5. CASE Knows(partial, l.trace)
  <2>1. PICK j \in 1..all : partial[j].trace = l.trace
    BY <1>1, <1>5 DEF Knows
  <2>2. /\ Len(grown) = all
        /\ \A i \in 1..all : grown[i] = IF partial[i].trace = l.trace THEN Absorb(partial[i], l)
                                        ELSE partial[i]
    BY <1>1, <1>5, AbsorbKeepsRows
  <2> HIDE DEF grown
  <2>3. \A i \in 1..all : i # j => partial[i].trace # l.trace /\ grown[i] = partial[i]
    BY <1>1, <2>1, <2>2
  <2>4. w[j - 1] = m[j - 1]
    <3>1. /\ j - 1 \in Nat /\ j - 1 <= all /\ j - 1 <= Len(grown) /\ j - 1 \in 0..(j - 1)
          /\ Len(grown) \in Nat
      BY <1>1, <2>2
    <3>2. \A i \in 1..(j - 1) : grown[i] = partial[i]
      BY <1>1, <2>3
    <3>3. \A k \in 0..(j - 1) : w[k] = m[k]
      BY <1>1, <3>1, <3>2, SamePrefixMerges
    <3> QED BY <3>1, <3>3
  <2>5. \A k \in 1..all : w[k] = MergeAcc(w[k - 1], grown[k])
    <3>1. \A k \in 1..Len(grown) : w[k] = MergeAcc(w[k - 1], grown[k])
      BY <1>1, <2>2, MergedGoesOn
    <3> QED BY <2>2, <3>1
  <2> HIDE DEF w, m
  <2> DEFINE InStep == {n \in Nat : n >= j /\ n <= all => w[n] = AbsorbLine(m[n], l)}
  <2>6. w[j] = AbsorbLine(m[j], l)
    <3>1. j - 1 \in 0..all /\ m[j - 1] \in Seq(Accs(S)) /\ partial[j] \in Accs(S)
      BY <1>1, <1>3
    <3>2. w[j] = MergeAcc(m[j - 1], grown[j]) /\ m[j] = MergeAcc(m[j - 1], partial[j])
      BY <1>2, <2>4, <2>5
    <3>3. grown[j] = Absorb(partial[j], l)
      BY <2>1, <2>2
    <3>4. MergeAcc(m[j - 1], Absorb(partial[j], l)) = AbsorbLine(MergeAcc(m[j - 1], partial[j]), l)
      BY <2>1, <3>1, LineThenRow
    <3> QED BY <3>2, <3>3, <3>4
  <2>7. 0 \in InStep
    BY <2>1
  <2>8. ASSUME NEW n \in Nat, n \in InStep PROVE n + 1 \in InStep
    <3> SUFFICES ASSUME n + 1 >= j, n + 1 <= all PROVE w[n + 1] = AbsorbLine(m[n + 1], l)
      OBVIOUS
    <3>1. CASE n + 1 = j
      BY <2>6, <3>1
    <3>2. CASE n + 1 # j
      <4>1. /\ n + 1 \in 1..all /\ n + 1 - 1 = n /\ n \in 0..all /\ j \in 1..n
            /\ w[n] = AbsorbLine(m[n], l)
        BY <1>1, <2>1, <2>8, <3>2
      <4>2. w[n + 1] = MergeAcc(w[n], partial[n + 1]) /\ m[n + 1] = MergeAcc(m[n], partial[n + 1])
        BY <1>2, <2>3, <2>5, <3>2, <4>1
      <4>3. m[n] \in Seq(Accs(S)) /\ Knows(m[n], l.trace)
        BY <1>3, <2>1, <4>1
      <4>4. partial[n + 1] \in Accs(S) /\ partial[n + 1].trace # l.trace
        BY <1>1, <2>3, <3>2, <4>1
      <4>5. MergeAcc(AbsorbLine(m[n], l), partial[n + 1])
              = AbsorbLine(MergeAcc(m[n], partial[n + 1]), l)
        BY <4>3, <4>4, RowThenLine
      <4> QED BY <4>1, <4>2, <4>5
    <3> QED BY <3>1, <3>2
  <2> HIDE DEF InStep
  <2>9. \A n \in Nat : n \in InStep
    BY <2>7, <2>8, Counting
  <2>10. w[all] = AbsorbLine(m[all], l)
    <3>1. all \in InStep /\ all >= j
      BY <1>1, <2>9
    <3> QED BY <1>1, <3>1 DEF InStep
  <2> QED BY <2>2, <2>10 DEF MergePartial, w, m, grown
<1> QED BY <1>4, <1>5

(* So merging the rows of a chunk is absorbing its lines one by one. *)
LEMMA ChunkIsAbsorbed ==
  ASSUME NEW S, NEW located \in Seq(Entries(S)), NEW chunk \in Seq(Entries(S)),
         NEW b \in Nat, b + Len(chunk) <= Len(located),
         \A k \in 1..Len(chunk) : chunk[k] = located[b + k],
         NoId \in S, NoId \notin Nat
  PROVE  MergePartial(AbsorbedUpTo(located)[b], Absorbed(chunk))
           = AbsorbedUpTo(located)[b + Len(chunk)]
<1> DEFINE f == AbsorbedUpTo(located)
           g == AbsorbedUpTo(chunk)
           c == Len(chunk)
           d == f[b]
           Agreed == {n \in Nat : n <= c => MergePartial(d, g[n]) = f[b + n]}
<1>1. /\ c \in Nat /\ Len(located) \in Nat /\ b \in 0..Len(located)
      /\ \A k \in 1..c : chunk[k] \in Entries(S)
  OBVIOUS
<1>2. \A k \in 1..Len(located) : f[k] = AbsorbLine(f[k - 1], located[k])
  BY <1>1, AbsorbedGoesOn
<1>3. g[0] = <<>> /\ \A k \in 1..c : g[k] = AbsorbLine(g[k - 1], chunk[k])
  BY <1>1, AbsorbedGoesOn
<1>4. \A k \in 0..c : g[k] \in Dicts(S)
  BY AbsorbedIsDict
<1>5. d \in Seq(Accs(S))
  <2>1. d \in Dicts(S)
    BY <1>1, AbsorbedIsDict
  <2> QED BY <2>1 DEF Dicts
<1> HIDE DEF f, g, d, c
<1>6. 0 \in Agreed
  <2>1. MergePartial(d, <<>>) = d
    BY MergedGoesOn DEF MergePartial
  <2>2. b + 0 = b
    OBVIOUS
  <2> QED BY <1>3, <2>1, <2>2 DEF d
<1>7. ASSUME NEW n \in Nat, n \in Agreed PROVE n + 1 \in Agreed
  <2> SUFFICES ASSUME n + 1 <= c PROVE MergePartial(d, g[n + 1]) = f[b + (n + 1)]
    OBVIOUS
  <2> DEFINE e == n + 1
             at == b + e
  <2>1. /\ e \in 1..c /\ e - 1 = n /\ n \in 0..c /\ at \in 1..Len(located) /\ at - 1 = b + n
        /\ MergePartial(d, g[n]) = f[b + n]
    BY <1>1, <1>7 DEF c
  <2> HIDE DEF e
  <2>2. g[e] = AbsorbLine(g[n], chunk[e])
    BY <1>3, <2>1
  <2>3. chunk[e] = located[at] /\ chunk[e] \in Entries(S)
    BY <1>1, <2>1 DEF c
  <2> HIDE DEF at
  <2>4. f[at] = AbsorbLine(f[b + n], located[at])
    BY <1>2, <2>1
  <2>5. MergePartial(d, AbsorbLine(g[n], chunk[e])) = AbsorbLine(MergePartial(d, g[n]), chunk[e])
    BY <1>4, <1>5, <2>1, <2>3, PartialGrows
  <2>6. MergePartial(d, g[e]) = f[at]
    BY <2>1, <2>2, <2>3, <2>4, <2>5
  <2> QED BY <2>6 DEF e, at
<1> HIDE DEF Agreed
<1>8. \A n \in Nat : n \in Agreed
  BY <1>6, <1>7, Counting
<1>9. MergePartial(d, g[c]) = f[b + c]
  BY <1>1, <1>8 DEF Agreed
<1> QED BY <1>9 DEF f, g, d, c, Absorbed

(* Workers finish their rows before they are merged: the count of missing  *)
(* parents they come with is of their chunk alone, and computed again.     *)
Counted(acc, n) ==
  [trace |-> acc.trace, offsets |-> acc.offsets, start |-> acc.start, project |-> acc.project,
   projects |-> acc.projects, spans |-> acc.spans, parents |-> acc.parents,
   errors |-> acc.errors, missing |-> n]

Alike(rough, d) ==
  /\ Len(rough) = Len(d)
  /\ \A n \in 1..Len(d) : rough[n] = Counted(d[n], rough[n].missing)

LEMMA FinalIsCounted ==
  ASSUME NEW S, NEW acc \in Accs(S)
  PROVE  /\ FinalizeValidation(acc) \in Accs(S)
         /\ FinalizeValidation(acc) = Counted(acc, FinalizeValidation(acc).missing)
         /\ \A n : FinalizeValidation(Counted(acc, n)) = FinalizeValidation(acc)
<1> DEFINE k == Cardinality(acc.parents \ acc.spans)
<1>1. FinalizeValidation(acc) = Counted(acc, k)
  BY DEF FinalizeValidation, Counted, Accs
<1>2. k \in Counts(S)
  <2>1. acc.parents \ acc.spans \in SUBSET S
    BY DEF Accs
  <2> QED BY <2>1 DEF Counts
<1>3. Counted(acc, k) \in Accs(S) /\ Counted(acc, k).missing = k
  BY <1>2 DEF Counted, Accs
<1>4. \A n : FinalizeValidation(Counted(acc, n)) = Counted(acc, k)
  BY DEF FinalizeValidation, Counted
<1> QED BY <1>1, <1>3, <1>4

LEMMA FinalRows ==
  ASSUME NEW S, NEW d \in Seq(Accs(S))
  PROVE  /\ Finalized(d) \in Seq(Accs(S)) /\ Alike(Finalized(d), d)
         /\ \A rough \in Seq(Accs(S)) : Alike(rough, d) => Finalized(rough) = Finalized(d)
<1>1. Len(d) \in Nat /\ DOMAIN d = 1..Len(d) /\ \A n \in 1..Len(d) : d[n] \in Accs(S)
  OBVIOUS
<1>2. Finalized(d) = [n \in 1..Len(d) |-> FinalizeValidation(d[n])]
  BY <1>1 DEF Finalized
<1>3. \A n \in 1..Len(d) :
        /\ FinalizeValidation(d[n]) \in Accs(S)
        /\ FinalizeValidation(d[n]) = Counted(d[n], FinalizeValidation(d[n]).missing)
        /\ \A k : FinalizeValidation(Counted(d[n], k)) = FinalizeValidation(d[n])
  BY <1>1, FinalIsCounted
<1>4. Finalized(d) \in Seq(Accs(S)) /\ Len(Finalized(d)) = Len(d)
  BY <1>1, <1>2, <1>3
<1>5. Alike(Finalized(d), d)
  BY <1>2, <1>3, <1>4 DEF Alike
<1>6. ASSUME NEW rough \in Seq(Accs(S)), Alike(rough, d)
      PROVE  Finalized(rough) = Finalized(d)
  <2>1. DOMAIN rough = 1..Len(d) /\ \A n \in 1..Len(d) : rough[n] = Counted(d[n], rough[n].missing)
    BY <1>6 DEF Alike
  <2>2. \A n \in 1..Len(d) : FinalizeValidation(rough[n]) = FinalizeValidation(d[n])
    BY <1>3, <2>1
  <2>3. Finalized(rough) = [n \in 1..Len(d) |-> FinalizeValidation(rough[n])]
    BY <2>1 DEF Finalized
  <2> QED BY <1>2, <2>2, <2>3
<1> QED BY <1>4, <1>5, <1>6

LEMMA AlikeRowMerges ==
  ASSUME NEW S, NEW d \in Seq(Accs(S)), NEW rough \in Seq(Accs(S)), Alike(rough, d),
         NEW acc \in Accs(S), NEW loose \in Accs(S), loose = Counted(acc, loose.missing),
         NoId \notin Nat
  PROVE  MergeAcc(rough, loose) \in Seq(Accs(S)) /\ Alike(MergeAcc(rough, loose), MergeAcc(d, acc))
<1> DEFINE m == MergeAcc(d, acc)
           w == MergeAcc(rough, loose)
<1>1. /\ Len(d) \in Nat /\ DOMAIN d = 1..Len(d) /\ DOMAIN rough = 1..Len(d) /\ Len(rough) = Len(d)
      /\ \A n \in 1..Len(d) : rough[n] = Counted(d[n], rough[n].missing)
  BY DEF Alike
<1>2. loose.trace = acc.trace /\ \A n \in 1..Len(d) : rough[n].trace = d[n].trace
  BY <1>1 DEF Counted
<1>3. Knows(rough, loose.trace) <=> Knows(d, acc.trace)
  BY <1>1, <1>2 DEF Knows
<1>4. m \in Seq(Accs(S)) /\ IsMerged(d, acc, m)
  BY MergeKeepsRows
<1>5. w \in Seq(Accs(S)) /\ IsMerged(rough, loose, w)
  BY MergeKeepsRows
<1> HIDE DEF m, w
<1>6. CASE Knows(d, acc.trace)
  <2>1. Len(m) = Len(d) /\ Len(w) = Len(d)
    BY <1>1, <1>3, <1>4, <1>5, <1>6 DEF IsMerged
  <2>2. \A n \in 1..Len(d) : w[n] = Counted(m[n], w[n].missing)
    <3> TAKE n \in 1..Len(d)
    <3>1. CASE d[n].trace = acc.trace
      <4>1. m[n] = MergeIn(d[n], acc) /\ w[n] = MergeIn(rough[n], loose)
        BY <1>1, <1>2, <1>3, <1>4, <1>5, <1>6, <3>1 DEF IsMerged
      <4>2. MergeIn(Counted(d[n], rough[n].missing), Counted(acc, loose.missing))
              = Counted(MergeIn(d[n], acc), rough[n].missing)
        BY DEF MergeIn, Counted
      <4>3. w[n] = Counted(m[n], rough[n].missing)
        <5>1. rough[n] = Counted(d[n], rough[n].missing)
          BY <1>1
        <5> QED BY <4>1, <4>2, <5>1
      <4> QED BY <4>3 DEF Counted
    <3>2. CASE d[n].trace # acc.trace
      BY <1>1, <1>2, <1>3, <1>4, <1>5, <1>6, <3>2 DEF IsMerged
    <3> QED BY <3>1, <3>2
  <2>3. Alike(w, m)
    BY <2>1, <2>2 DEF Alike
  <2> QED BY <1>5, <2>3 DEF m, w
<1>7. CASE ~Knows(d, acc.trace)
  <2>1. /\ Len(m) = Len(d) + 1 /\ Len(w) = Len(d) + 1 /\ m[Len(d) + 1] = acc
        /\ w[Len(d) + 1] = loose /\ \A n \in 1..Len(d) : m[n] = d[n] /\ w[n] = rough[n]
    BY <1>1, <1>3, <1>4, <1>5, <1>7 DEF IsMerged
  <2>2. \A n \in 1..(Len(d) + 1) : n \in 1..Len(d) \/ n = Len(d) + 1
    BY <1>1
  <2>3. \A n \in 1..(Len(d) + 1) : w[n] = Counted(m[n], w[n].missing)
    BY <1>1, <2>1, <2>2
  <2>4. Alike(w, m)
    BY <2>1, <2>3 DEF Alike
  <2> QED BY <1>5, <2>4 DEF m, w
<1> QED BY <1>6, <1>7

LEMMA AlikePartialMerges ==
  ASSUME NEW S, NEW d \in Seq(Accs(S)), NEW rough \in Seq(Accs(S)), Alike(rough, d),
         NEW partial \in Seq(Accs(S)), NoId \notin Nat
  PROVE  /\ MergePartial(rough, Finalized(partial)) \in Seq(Accs(S))
         /\ Alike(MergePartial(rough, Finalized(partial)), MergePartial(d, partial))
<1> DEFINE done == Finalized(partial)
           m == MergedWith(d, partial)
           w == MergedWith(rough, done)
           all == Len(partial)
           Near == {n \in Nat : n <= all => w[n] \in Seq(Accs(S)) /\ Alike(w[n], m[n])}
<1>1. /\ done \in Seq(Accs(S)) /\ Len(done) = all /\ all \in Nat
      /\ \A n \in 1..all : partial[n] \in Accs(S)
      /\ \A n \in 1..all : done[n] \in Accs(S)
      /\ \A n \in 1..all : done[n] = Counted(partial[n], done[n].missing)
  <2>1. done \in Seq(Accs(S)) /\ Alike(done, partial)
    BY FinalRows
  <2> HIDE DEF done
  <2> QED BY <2>1 DEF Alike
<1> HIDE DEF done
<1>2. m[0] = d /\ \A k \in 1..all : m[k] = MergeAcc(m[k - 1], partial[k])
  BY <1>1, MergedGoesOn
<1>3. w[0] = rough /\ \A k \in 1..all : w[k] = MergeAcc(w[k - 1], done[k])
  BY <1>1, MergedGoesOn
<1>4. \A k \in 0..all : m[k] \in Seq(Accs(S))
  BY MergedStays
<1> HIDE DEF m, w
<1>5. 0 \in Near
  BY <1>2, <1>3
<1>6. ASSUME NEW n \in Nat, n \in Near PROVE n + 1 \in Near
  <2> SUFFICES ASSUME n + 1 <= all
               PROVE  w[n + 1] \in Seq(Accs(S)) /\ Alike(w[n + 1], m[n + 1])
    OBVIOUS
  <2> DEFINE e == n + 1
  <2>1. /\ e \in 1..all /\ e - 1 = n /\ n \in 0..all /\ w[n] \in Seq(Accs(S)) /\ Alike(w[n], m[n])
    BY <1>1, <1>6
  <2> HIDE DEF e
  <2>2. m[e] = MergeAcc(m[n], partial[e]) /\ w[e] = MergeAcc(w[n], done[e])
    BY <1>2, <1>3, <2>1
  <2>3. /\ MergeAcc(w[n], done[e]) \in Seq(Accs(S))
        /\ Alike(MergeAcc(w[n], done[e]), MergeAcc(m[n], partial[e]))
    BY <1>1, <1>4, <2>1, AlikeRowMerges
  <2>4. w[e] \in Seq(Accs(S)) /\ Alike(w[e], m[e])
    BY <2>2, <2>3
  <2> QED BY <2>4 DEF e
<1> HIDE DEF Near
<1>7. \A n \in Nat : n \in Near
  BY <1>5, <1>6, Counting
<1>8. w[all] \in Seq(Accs(S)) /\ Alike(w[all], m[all])
  BY <1>1, <1>7 DEF Near
<1> QED BY <1>1, <1>8 DEF MergePartial, m, w, done

(* Where the chunks are cut. *)
LEMMA LesserOfTwo ==
  ASSUME NEW a \in Int, NEW b \in Int
  PROVE  Min({a, b}) = IF a <= b THEN a ELSE b
<1> DEFINE x == IF a <= b THEN a ELSE b
<1>1. x \in {a, b} /\ \A y \in {a, b} : x <= y
  OBVIOUS
<1>2. \A z \in {a, b} : (\A y \in {a, b} : z <= y) => z = x
  OBVIOUS
<1> QED BY <1>1, <1>2 DEF Min

CutAt(all, n, i) == (all \div n) * i + Min({i, all % n})

LEMMA Cuts ==
  ASSUME NEW all \in Nat, NEW n \in 1..all
  PROVE  /\ CutAt(all, n, 0) = 0 /\ CutAt(all, n, n) = all
         /\ \A i \in 1..n : /\ CutAt(all, n, i - 1) \in Nat /\ CutAt(all, n, i) \in Nat
                            /\ CutAt(all, n, i - 1) <= CutAt(all, n, i)
                            /\ CutAt(all, n, i) <= all
<1> DEFINE q == all \div n
           r == all % n
<1>1. q \in Nat /\ r \in 0..(n - 1) /\ all = q * n + r /\ n \in Nat /\ n >= 1
  OBVIOUS
<1> HIDE DEF q, r
<1>2. \A i \in 0..n : CutAt(all, n, i) = q * i + (IF i <= r THEN i ELSE r)
  BY <1>1, LesserOfTwo DEF CutAt, q, r
<1>3. q * 0 = 0
  BY <1>1
<1>4. CutAt(all, n, 0) = 0 /\ CutAt(all, n, n) = all
  BY <1>1, <1>2, <1>3
<1>5. ASSUME NEW i \in 1..n
      PROVE  /\ CutAt(all, n, i - 1) \in Nat /\ CutAt(all, n, i) \in Nat
             /\ CutAt(all, n, i - 1) <= CutAt(all, n, i)
             /\ CutAt(all, n, i) <= all
  <2>1. i \in Nat /\ i - 1 \in Nat /\ i <= n /\ i - 1 \in 0..n /\ i \in 0..n
    BY <1>1
  <2>2. q * i \in Nat /\ q * (i - 1) \in Nat /\ q * n \in Nat
    BY <1>1, <2>1
  <2>3. q * i = q * (i - 1) + q
    BY <1>1, <2>1
  <2>4. q * i <= q * n
    <3>1. n - i \in Nat /\ q * (n - i) \in Nat
      BY <1>1, <2>1
    <3>2. q * n = q * i + q * (n - i)
      BY <1>1, <2>1
    <3> QED BY <2>2, <3>1, <3>2
  <2> DEFINE a == q * (i - 1)
             b == q * i
             c == q * n
  <2>5. CutAt(all, n, i) = b + (IF i <= r THEN i ELSE r) /\ all = c + r
    BY <1>1, <1>2, <2>1
  <2>6. CutAt(all, n, i - 1) = a + (IF i - 1 <= r THEN i - 1 ELSE r)
    BY <1>2, <2>1
  <2>7. a \in Nat /\ b \in Nat /\ c \in Nat /\ b = a + q /\ b <= c
    BY <2>2, <2>3, <2>4
  <2> HIDE DEF a, b, c
  <2> QED BY <1>1, <2>1, <2>5, <2>6, <2>7
<1> QED BY <1>4, <1>5

AreSlices(chunks, located, S) ==
  /\ Len(chunks) \in 1..Len(located)
  /\ \A i \in 1..Len(chunks) :
       LET b == CutAt(Len(located), Len(chunks), i - 1)
       IN  /\ chunks[i] \in Seq(S)
           /\ b + Len(chunks[i]) = CutAt(Len(located), Len(chunks), i)
           /\ \A k \in 1..Len(chunks[i]) : chunks[i][k] = located[b + k]

LEMMA ChunksAreSlices ==
  ASSUME NEW S, NEW located \in Seq(S), Len(located) > 0, NEW workers \in Nat \ {0}
  PROVE  AreSlices(SplitIntoChunks(located, workers), located, S)
<1> DEFINE all == Len(located)
           n == IF workers <= all THEN workers ELSE all
           Cut(i) == CutAt(all, n, i)
           chunks == SplitIntoChunks(located, workers)
<1>1. all \in Nat /\ n \in 1..all /\ n = Min({workers, all})
  BY LesserOfTwo
<1>2. chunks = [i \in 1..n |-> SubSeq(located, Cut(i - 1) + 1, Cut(i))]
  BY <1>1 DEF SplitIntoChunks, CutAt
<1>3. \A i \in 1..n : Cut(i - 1) \in Nat /\ Cut(i) \in Nat /\ Cut(i - 1) <= Cut(i) /\ Cut(i) <= all
  BY <1>1, Cuts
<1> HIDE DEF n, Cut, chunks
<1>4. Len(chunks) = n
  BY <1>1, <1>2
<1>5. ASSUME NEW i \in 1..n
      PROVE  /\ chunks[i] \in Seq(S) /\ Cut(i - 1) + Len(chunks[i]) = Cut(i)
             /\ \A k \in 1..Len(chunks[i]) : chunks[i][k] = located[Cut(i - 1) + k]
  <2> DEFINE a == Cut(i - 1)
             b == Cut(i)
  <2>1. chunks[i] = SubSeq(located, a + 1, b) /\ a \in Nat /\ b \in Nat /\ a <= b /\ b <= all
    BY <1>2, <1>3
  <2> HIDE DEF a, b
  <2>2. \A j \in (a + 1)..b : located[j] \in S
    BY <1>1, <2>1
  <2>3. /\ chunks[i] \in Seq(S) /\ Len(chunks[i]) = b - a
        /\ \A k \in 1..(b - a) : chunks[i][k] = located[a + k]
    BY <1>1, <2>1, <2>2
  <2>4. a + Len(chunks[i]) = b
    BY <2>1, <2>3
  <2> QED BY <2>3, <2>4 DEF a, b
<1> QED BY <1>1, <1>4, <1>5 DEF Cut, chunks, AreSlices

(* Chunks give the rows that one piece gives. *)
LEMMA ChunksMakeNoDifference ==
  ASSUME NEW S, NEW located \in Seq(Entries(S)), NEW threshold, NEW workers \in Nat \ {0},
         NoId \in S, NoId \notin Nat
  PROVE  BuildRows(located, threshold, workers) = ProcessChunk(located)
<1> DEFINE f == AbsorbedUpTo(located)
           chunks == SplitIntoChunks(located, workers)
           n == Len(chunks)
           partials == [i \in 1..n |-> ProcessChunk(chunks[i])]
           g == MergedUpTo(partials)
           Cut(i) == CutAt(Len(located), n, i)
           Near == {i \in Nat : i <= n => g[i] \in Seq(Accs(S)) /\ Alike(g[i], f[Cut(i)])}
<1>0. Len(located) \in Nat
  OBVIOUS
<1>1. CASE located = <<>>
  <2>1. AbsorbedUpTo(<<>>)[0] = <<>> /\ Len(<<>>) = 0
    BY AbsorbedGoesOn
  <2>2. ProcessChunk(<<>>) = <<>>
    BY <2>1 DEF ProcessChunk, Absorbed, Finalized
  <2> QED BY <1>1, <2>2 DEF BuildRows
<1>2. CASE located # <<>> /\ Len(located) < threshold
  BY <1>2 DEF BuildRows
<1>3. CASE located # <<>> /\ ~(Len(located) < threshold)
  <2>1. Len(located) > 0
    BY <1>3
  <2>2. /\ n \in 1..Len(located)
        /\ \A i \in 1..n : /\ chunks[i] \in Seq(Entries(S))
                           /\ Cut(i - 1) + Len(chunks[i]) = Cut(i)
                           /\ \A k \in 1..Len(chunks[i]) : chunks[i][k] = located[Cut(i - 1) + k]
    <3>1. AreSlices(chunks, located, Entries(S))
      BY <2>1, ChunksAreSlices
    <3> HIDE DEF chunks
    <3> QED BY <3>1 DEF AreSlices
  <2>3. /\ Cut(0) = 0 /\ Cut(n) = Len(located)
        /\ \A i \in 1..n : Cut(i - 1) \in Nat /\ Cut(i) \in Nat /\ Cut(i) <= Len(located)
    BY <2>2, Cuts
  <2>4. \A i \in 0..Len(located) : f[i] \in Seq(Accs(S))
    <3>1. \A i \in 0..Len(located) : f[i] \in Dicts(S)
      BY AbsorbedIsDict
    <3> HIDE DEF f
    <3> QED BY <3>1 DEF Dicts
  <2>5. f[0] = <<>>
    BY AbsorbedGoesOn
  <2>6. n \in Nat /\ Len(partials) = n
    BY <2>2
  <2>7. g[0] = <<>> /\ \A i \in 1..n : g[i] = MergePartial(g[i - 1], partials[i])
    BY <2>6, ChunksGoOn
  <2> HIDE DEF g, f, Cut, chunks, n
  <2>8. 0 \in Near
    <3>1. <<>> \in Seq(Accs(S)) /\ Alike(<<>>, <<>>)
      BY DEF Alike
    <3> QED BY <2>3, <2>5, <2>7, <3>1
  <2>9. ASSUME NEW i \in Nat, i \in Near PROVE i + 1 \in Near
    <3> SUFFICES ASSUME i + 1 <= n
                 PROVE  g[i + 1] \in Seq(Accs(S)) /\ Alike(g[i + 1], f[Cut(i + 1)])
      OBVIOUS
    <3> DEFINE e == i + 1
    <3>1. /\ e \in 1..n /\ e - 1 = i /\ g[i] \in Seq(Accs(S)) /\ Alike(g[i], f[Cut(i)])
      BY <2>6, <2>9
    <3> HIDE DEF e
    <3>2. g[e] = MergePartial(g[i], Finalized(Absorbed(chunks[e])))
      BY <2>7, <3>1 DEF ProcessChunk
    <3>3. /\ chunks[e] \in Seq(Entries(S)) /\ Cut(i) + Len(chunks[e]) = Cut(e)
          /\ \A k \in 1..Len(chunks[e]) : chunks[e][k] = located[Cut(i) + k]
          /\ Cut(i) \in Nat /\ Cut(e) \in Nat /\ Cut(e) <= Len(located)
      BY <2>2, <2>3, <3>1
    <3>4. Len(chunks[e]) \in Nat /\ Cut(i) \in 0..Len(located)
      BY <1>0, <3>3
    <3>5. f[Cut(i)] \in Seq(Accs(S))
      BY <2>4, <3>4
    <3>6. Absorbed(chunks[e]) \in Seq(Accs(S))
      <4>1. AbsorbedUpTo(chunks[e])[Len(chunks[e])] \in Dicts(S)
        BY <3>3, <3>4, AbsorbedIsDict
      <4> QED BY <4>1 DEF Absorbed, Dicts
    <3>7. MergePartial(f[Cut(i)], Absorbed(chunks[e])) = f[Cut(e)]
      <4> DEFINE b == Cut(i)
                 chunk == chunks[e]
                 m == Cut(e)
      <4>1. /\ chunk \in Seq(Entries(S)) /\ b + Len(chunk) = m /\ b \in Nat /\ m <= Len(located)
            /\ \A k \in 1..Len(chunk) : chunk[k] = located[b + k]
        BY <3>3
      <4> HIDE DEF b, chunk, m
      <4>2. MergePartial(f[b], Absorbed(chunk)) = f[b + Len(chunk)]
        BY <4>1, ChunkIsAbsorbed DEF f
      <4>3. MergePartial(f[b], Absorbed(chunk)) = f[m]
        BY <4>1, <4>2
      <4> QED BY <4>3 DEF b, chunk, m
    <3>8. g[e] \in Seq(Accs(S)) /\ Alike(g[e], MergePartial(f[Cut(i)], Absorbed(chunks[e])))
      BY <3>1, <3>2, <3>5, <3>6, AlikePartialMerges
    <3>9. g[e] \in Seq(Accs(S)) /\ Alike(g[e], f[Cut(e)])
      BY <3>7, <3>8
    <3> QED BY <3>9 DEF e
  <2> HIDE DEF Near
  <2>10. \A i \in Nat : i \in Near
    BY <2>8, <2>9, Counting
  <2>11. g[n] \in Seq(Accs(S)) /\ Alike(g[n], f[Len(located)]) /\ f[Len(located)] \in Seq(Accs(S))
    BY <1>0, <2>3, <2>4, <2>6, <2>10 DEF Near
  <2>12. Finalized(g[n]) = Finalized(f[Len(located)])
    BY <2>11, FinalRows
  <2>13. BuildRows(located, threshold, workers) = MergeAccumulators(partials)
    BY <1>3 DEF BuildRows, n, chunks
  <2>14. MergeAccumulators(partials) = Finalized(g[n])
    BY <2>6 DEF MergeAccumulators, g
  <2> QED BY <2>12, <2>13, <2>14 DEF ProcessChunk, Absorbed, f
<1> QED BY <1>1, <1>2, <1>3
(* So do the lines of a trace file. *)
LEMMA OnePieceSuffices ==
  ASSUME NEW lines \in Seq(Lines)
  PROVE  RowsOf(lines) = RowsInOnePiece(lines)
<1> DEFINE at == LineOffsets(lines)
           located == Located(lines, at)
           Said(i) == {lines[i].trace, lines[i].span, lines[i].parent, lines[i].project}
           S == {NoId} \cup UNION {Said(i) : i \in 1..Len(lines)}
<1>1. at \in Seq({i \in 1..Len(lines) : lines[i] # Blank})
  <2>1. DOMAIN lines = 1..Len(lines)
    OBVIOUS
  <2>2. Len(lines) \in Nat /\ {i \in 1..Len(lines) : lines[i] # Blank} \subseteq 1..Len(lines)
    OBVIOUS
  <2> QED BY <2>1, <2>2, InOrderGoesThroughPlaces DEF LineOffsets
<1> HIDE DEF at
<1>2. \A k \in 1..Len(at) : at[k] \in 1..Len(lines) /\ lines[at[k]] \in Lines \ {Blank}
  BY <1>1
<1>3. \A k \in 1..Len(at) : lines[at[k]].start \in Nat /\ lines[at[k]].error \in BOOLEAN
  BY <1>2, TraceIndexAssumption
<1>4. \A k \in 1..Len(at) : Said(at[k]) \subseteq S
  BY <1>2
<1>5. NoId \in S
  OBVIOUS
<1> HIDE DEF S
<1>6. located \in Seq(Entries(S))
  <2>1. Len(at) \in Nat
    BY <1>1
  <2>2. \A k \in 1..Len(at) : located[k] \in Entries(S)
    <3> TAKE k \in 1..Len(at)
    <3> DEFINE l == lines[at[k]]
    <3>1. at[k] \in Nat /\ l.start \in Nat /\ l.error \in BOOLEAN
          /\ l.trace \in S /\ l.span \in S /\ l.parent \in S /\ l.project \in S
      BY <1>2, <1>3, <1>4
    <3>2. located[k] = [at |-> at[k], trace |-> l.trace, span |-> l.span, parent |-> l.parent,
                        project |-> l.project, start |-> l.start, error |-> l.error]
      BY DEF Located
    <3> HIDE DEF l, located
    <3> QED BY <3>1, <3>2 DEF Entries
  <2>3. located = [k \in 1..Len(at) |-> located[k]]
    BY DEF Located
  <2> HIDE DEF located
  <2> QED BY <2>1, <2>2, <2>3
<1> HIDE DEF located
<1>7. Workers \in Nat \ {0} /\ NoId \notin Nat
  BY TraceIndexAssumption
<1>8. BuildRows(located, Threshold, Workers) = ProcessChunk(located)
  BY <1>5, <1>6, <1>7, ChunksMakeNoDifference
<1> QED BY <1>8 DEF RowsOf, RowsInOnePiece, at, located

LEMMA ServingHolds == ASSUME Alone PROVE Spec => [](GrowthInv /\ ServingInv)
<1>1. Init => GrowthInv /\ ServingInv
  <2> SUFFICES ASSUME Init, IndexTypeOK PROVE GrowthInv /\ ServingInv
    BY InitialTypes
  <2>1. Now \in Fingerprints /\ Now.size \in Nat /\ trace.born = 0 /\ trace.mtime = 0
    BY FingerprintType DEF Init, Fingerprints
  <2>2. \A b \in Builders : source[b] = Now /\ pc[b] = "idle"
    BY DEF Init, Now
  <2>3. live.meta = NoFile \/ live.meta = [schema |-> 1, source |-> Now]
    BY DEF Init, Now, SchemaVersion
  <2>4. live.meta \in Metas => live.meta.source = Now /\ live.meta.schema = 1
    BY <2>3, Distinct DEF Markers
  <2>5. GrowthInv
    BY <2>1, <2>2, <2>4 DEF GrowthInv, Underway, Resting
  <2>6. ServingInv
    <3>1. \A k \in Sidecars : "idle" \notin {Opening[k], Writing[k], Replacing[k], "parse", "load", "loaded"}
      BY Stages DEF Sidecars
    <3> QED
      BY <2>2, <2>4, <3>1 DEF ServingInv, SchemaVersion, WroteIndex, Sidecars
  <2> QED
    BY <2>5, <2>6
<1>2. IndexInv /\ IndexTypeOK' /\ GrowthInv /\ ServingInv /\ [Next]_vars => (GrowthInv /\ ServingInv)'
  <2> SUFFICES ASSUME IndexInv, IndexTypeOK', GrowthInv, ServingInv, [Next]_vars
               PROVE  GrowthInv' /\ ServingInv'
    OBVIOUS
  <2>0. /\ trace \in [lines : Seq(Lines), torn : BOOLEAN, mtime : Nat, born : Nat]
        /\ Now \in Fingerprints /\ Now.size \in Nat /\ Now.mtime = trace.mtime
        /\ Len(trace.lines) \in Nat /\ trace.mtime \in Nat /\ trace.born \in Nat
        /\ trace.born <= trace.mtime
    BY FingerprintType DEF IndexInv, IndexTypeOK, Now, Fingerprint, Fingerprints, GrowthInv
  <2>a. Now.size = 2 * Len(trace.lines) + (IF trace.torn THEN 1 ELSE 0)
    BY DEF Now, Fingerprint
  <2>1. ASSUME NEW l \in Spans, WriteLine(l) PROVE GrowthInv' /\ ServingInv'
    <3>1. PICK now \in Stamps :
            trace' = [trace EXCEPT !.lines = Append(@, l), !.torn = FALSE, !.mtime = now]
      BY <2>1 DEF WriteLine
    <3>2. now \in Nat /\ now >= trace.mtime /\ l \in Lines
      BY <2>0, TraceIndexAssumption DEF Stamps
    <3>3. trace'.lines = Append(trace.lines, l) /\ trace'.torn = FALSE
          /\ trace'.mtime = now /\ trace'.born = trace.born
      BY <2>0, <3>1
    <3>4. /\ Len(Append(trace.lines, l)) = Len(trace.lines) + 1
          /\ \A n \in 0..Len(trace.lines) :
               SubSeq(Append(trace.lines, l), 1, n) = SubSeq(trace.lines, 1, n)
      BY <2>0, <3>2
    <3>5. Now'.size = 2 * (Len(trace.lines) + 1)
      <4>1. Now'.size = 2 * Len(trace'.lines) + (IF trace'.torn THEN 1 ELSE 0)
        BY DEF Now, Fingerprint
      <4> QED
        BY <2>0, <3>3, <3>4, <4>1, SMTT(30)
    <3>6. Now'.size >= Now.size
      BY <2>0, <2>a, <3>5
    <3>7. UNCHANGED <<live, tmp, pc, source, offsets, rows, store>>
      BY <2>1 DEF WriteLine, builder
    <3> QED
      BY <2>0, <3>2, <3>3, <3>4, <3>6, <3>7, WritersServe
  <2>2. CASE TearLine
    <3>1. PICK now \in Stamps : trace' = [trace EXCEPT !.torn = TRUE, !.mtime = now]
      BY <2>2 DEF TearLine
    <3>2. now \in Nat /\ now >= trace.mtime
      BY <2>0, TraceIndexAssumption DEF Stamps
    <3>3. trace'.lines = trace.lines /\ trace'.torn = TRUE
          /\ trace'.mtime = now /\ trace'.born = trace.born
      BY <2>0, <3>1
    <3>5. Now'.size = 2 * Len(trace.lines) + 1
      BY <3>3 DEF Now, Fingerprint
    <3>6. Now'.size >= Now.size
      BY <2>0, <2>a, <3>5
    <3>7. UNCHANGED <<live, tmp, pc, source, offsets, rows, store>>
      BY <2>2 DEF TearLine, builder
    <3> QED
      BY <2>0, <3>2, <3>3, <3>6, <3>7, WritersServe
  <2>3. CASE Truncate
    <3>1. trace'.born = trace.mtime + 1 /\ trace'.mtime = trace.mtime + 1
      BY <2>3 DEF Truncate
    <3>2. UNCHANGED <<live, tmp, pc, source, offsets, rows, store>>
      BY <2>3 DEF Truncate, builder
    <3> QED
      BY <2>0, <3>1, <3>2, WritersServe
  <2>4. ASSUME NEW b \in Builders, Work(b) \/ Crash(b) PROVE GrowthInv' /\ ServingInv'
    <3>1. \A c \in Builders : c = b
      BY DEF Alone
    <3>2. trace' = trace /\ Now' = Now
      BY <2>4 DEF Work, Crash, Stat, Check, Scan, Parse, OpenTmp, CloseTmp, Replace, Load, Now
    <3>3. /\ pc \in [Builders -> PCs] /\ source \in [Builders -> Fingerprints]
          /\ DOMAIN live = Sidecars /\ DOMAIN tmp = Sidecars
          /\ DOMAIN offsets = Builders /\ DOMAIN rows = Builders /\ DOMAIN store = Builders
      BY DEF IndexInv, IndexTypeOK
    <3>4. /\ source[b] \in Fingerprints /\ source[b].size \in Nat /\ source[b].mtime \in Nat
          /\ NewMeta(source[b]) \in Metas /\ NewMeta(source[b]).source = source[b]
          /\ NewMeta(source[b]).schema = SchemaVersion
      BY <3>3 DEF Fingerprints, NewMeta, Metas, SchemaVersion
    <3>5. live.meta \in Metas => live.meta.source \in Fingerprints
            /\ live.meta.source.size \in Nat /\ live.meta.source.mtime \in Nat
      BY DEF Metas, Fingerprints
    <3>d. Underway = {"check", "scan", "parse", "load", "open index", "open meta", "write index",
                      "write meta", "replace index", "replace meta"}
      BY Stages DEF Underway, PCs, Resting, Sidecars
    <3>e. WroteIndex = {"open meta", "write meta", "replace index"}
      BY Stages DEF WroteIndex
    <3>6. ASSUME NEW r, NEW f PROVE (Covers(r, f))' = Covers(r, f)
      BY <3>2 DEF Covers, Since
    (* The steps that keep the fingerprints in hand and in place. *)
    <3>7. ASSUME UNCHANGED source, live'.meta = live.meta, pc'[b] \in Underway => pc[b] \in Underway
          PROVE  GrowthInv'
      BY <3>1, <3>2, <3>7 DEF GrowthInv, Since
    (* The stages of a run, one by one. *)
    <3>8. ASSUME /\ live'.meta \in Metas /\ live'.meta.schema = SchemaVersion =>
                      Covers(live'.index.rows, live'.meta.source),
                 pc'[b] = "parse" /\ Since(source'[b]) =>
                   /\ offsets'[b].born = trace.born
                   /\ \E n \in (source'[b].size \div 2)..Len(trace.lines) :
                        offsets'[b].at = LineOffsets(SubSeq(trace.lines, 1, n)),
                 pc'[b] \in {"open index", "write index"} => Covers(rows'[b], source'[b]),
                 pc'[b] \in WroteIndex => Covers(tmp'.index.rows, source'[b]),
                 pc'[b] \in {"replace meta", "load"} => Covers(live'.index.rows, source'[b]),
                 pc'[b] = "loaded" => Covers(store'[b], source'[b])
          PROVE  ServingInv'
      <4>1. live'.meta \in Metas /\ live'.meta.schema = SchemaVersion =>
              (Covers(live.index.rows, live.meta.source))'
        BY <3>2, <3>8 DEF Covers, Since
      <4>2. (pc[b] = "parse" /\ Since(source[b]) =>
               /\ offsets[b].born = trace.born
               /\ \E n \in (source[b].size \div 2)..Len(trace.lines) :
                    offsets[b].at = LineOffsets(SubSeq(trace.lines, 1, n)))'
        BY <3>2, <3>8 DEF Since
      <4>3. pc'[b] \in {"open index", "write index"} => (Covers(rows[b], source[b]))'
        BY <3>2, <3>8 DEF Covers, Since
      <4>4. pc'[b] \in WroteIndex => (Covers(tmp.index.rows, source[b]))'
        BY <3>2, <3>8 DEF Covers, Since
      <4>5. pc'[b] \in {"replace meta", "load"} => (Covers(live.index.rows, source[b]))'
        BY <3>2, <3>8 DEF Covers, Since
      <4>6. pc'[b] = "loaded" => (Covers(store[b], source[b]))'
        BY <3>2, <3>8 DEF Covers, Since
      <4> QED
        BY <3>1, <4>1, <4>2, <4>3, <4>4, <4>5, <4>6, Stages DEF ServingInv
    <3>9. /\ live.meta \in Metas /\ live.meta.schema = SchemaVersion =>
               Covers(live.index.rows, live.meta.source)
          /\ pc[b] \in {"open index", "write index"} => Covers(rows[b], source[b])
          /\ pc[b] \in WroteIndex => Covers(tmp.index.rows, source[b])
          /\ pc[b] \in {"replace meta", "load"} => Covers(live.index.rows, source[b])
      BY Stages DEF ServingInv
    <3> DEFINE Parsing == pc[b] = "parse" /\ Since(source[b]) =>
                  /\ offsets[b].born = trace.born
                  /\ \E n \in (source[b].size \div 2)..Len(trace.lines) :
                       offsets[b].at = LineOffsets(SubSeq(trace.lines, 1, n))
    <3>10. Parsing
      BY DEF ServingInv
    <3> HIDE DEF Parsing
    <3>11. CASE Stat(b)
      <4>1. pc'[b] = "check" /\ source'[b] = Now /\ live' = live
        BY <3>3, <3>11 DEF Stat, Go, Now
      <4>2. GrowthInv'
        BY <2>0, <3>1, <3>2, <4>1 DEF GrowthInv, Since
      <4>3. ServingInv'
        BY <3>8, <3>9, <3>e, <4>1
      <4> QED
        BY <4>2, <4>3
    <3>12. CASE Check(b)
      <4>1. pc'[b] \in {"scan", "load", "failed"} /\ pc[b] = "check" /\ source' = source /\ live' = live
        BY <3>3, <3>12 DEF Check, Go
      <4>2. pc'[b] = "load" => live.meta = NewMeta(source[b])
        BY <3>3, <3>12 DEF Check, Go, Vouches
      <4>3. pc'[b] = "load" => Covers(live.index.rows, source[b])
        BY <3>4, <3>9, <4>2
      <4>4. ServingInv'
        BY <3>8, <3>9, <3>e, <4>1, <4>3
      <4> QED
        BY <3>7, <3>d, <4>1, <4>4
    <3>13. CASE Scan(b)
      <4>1. pc'[b] \in {"open index", "parse"} /\ pc[b] = "scan" /\ source' = source /\ live' = live
        BY <3>3, <3>13, Stages DEF Scan, Go
      <4>2. SubSeq(trace.lines, 1, Len(trace.lines)) = trace.lines
        BY <2>0
      <4>3. Since(source[b]) => Len(trace.lines) \in (source[b].size \div 2)..Len(trace.lines)
        <5>1. Since(source[b]) => source[b].size <= 2 * Len(trace.lines) + 1
          BY <2>0, <2>a, <3>4 DEF GrowthInv
        <5> QED
          BY <2>0, <3>4, <5>1
      <4>4. offsets'[b].born = trace.born /\ offsets'[b].at = LineOffsets(trace.lines)
            /\ rows'[b] = <<>>
        BY <3>3, <3>13 DEF Scan
      <4>5. pc'[b] = "open index" => RowsOf(trace.lines) = <<>>
        <5>1. pc'[b] = "open index" => LineOffsets(trace.lines) = <<>>
          BY <3>3, <3>13, Stages DEF Scan, Go
        <5>2. LineOffsets(trace.lines) = <<>> => RowsOf(trace.lines) = <<>>
          BY DEF RowsOf, BuildRows, Located
        <5> QED
          BY <5>1, <5>2
      <4>6. pc'[b] = "open index" => Covers(rows'[b], source[b])
        BY <4>2, <4>3, <4>4, <4>5 DEF Covers
      <4>7. ServingInv'
        BY <3>8, <3>9, <3>e, <4>1, <4>2, <4>3, <4>4, <4>6
      <4> QED
        BY <3>7, <3>d, <4>1, <4>7
    <3>14. CASE Parse(b)
      <4>1. pc'[b] \in {"open index", "failed"} /\ pc[b] = "parse" /\ source' = source /\ live' = live
        BY <3>3, <3>14, Stages DEF Parse, Go
      <4>2. ASSUME pc'[b] = "open index", Since(source[b])
            PROVE  \E n \in (source[b].size \div 2)..Len(trace.lines) :
                     rows'[b] = RowsOf(SubSeq(trace.lines, 1, n))
        <5>1. offsets[b].born = trace.born
          BY <3>10, <4>1, <4>2 DEF Parsing
        <5>2. PICK n \in (source[b].size \div 2)..Len(trace.lines) :
                offsets[b].at = LineOffsets(SubSeq(trace.lines, 1, n))
          BY <3>10, <4>1, <4>2 DEF Parsing
        <5>3. rows' = [rows EXCEPT ![b] = BuildRows(Located(trace.lines, offsets[b].at), Threshold, Workers)]
          BY <3>3, <3>14, <4>2, <5>1 DEF Parse, Go
        <5>4. n \in 0..Len(trace.lines)
          BY <2>0, <3>4
        <5>5. Located(trace.lines, offsets[b].at) = Located(SubSeq(trace.lines, 1, n), offsets[b].at)
          BY <2>0, <5>2, <5>4, PrefixReadsBack
        <5> QED
          BY <3>3, <5>2, <5>3, <5>5 DEF RowsOf
      <4>3. pc'[b] = "open index" => Covers(rows'[b], source[b])
        BY <4>2 DEF Covers
      <4>4. ServingInv'
        BY <3>8, <3>9, <3>e, <4>1, <4>3
      <4> QED
        BY <3>7, <3>d, <4>1, <4>4
    <3>15. CASE OpenTmp(b, "index")
      <4>1. pc'[b] = "write index" /\ pc[b] = "open index" /\ source' = source /\ live' = live /\ rows' = rows
        BY <3>3, <3>15, Stages DEF OpenTmp, Go
      <4>2. ServingInv'
        BY <3>8, <3>9, <3>e, <4>1
      <4> QED
        BY <3>7, <3>d, <4>1, <4>2
    <3>16. CASE OpenTmp(b, "meta")
      <4>1. pc'[b] = "write meta" /\ pc[b] = "open meta" /\ source' = source /\ live' = live
            /\ tmp'.index = tmp.index
        BY <3>3, <3>16, Stages DEF OpenTmp, Go, Sidecars
      <4>2. ServingInv'
        BY <3>8, <3>9, <3>e, <4>1
      <4> QED
        BY <3>7, <3>d, <4>1, <4>2
    <3>17. CASE CloseTmp(b, "index")
      <4>1. pc'[b] = "open meta" /\ pc[b] = "write index" /\ source' = source
        BY <3>3, <3>17, Stages DEF CloseTmp, Go
      <4>2. handle[b] = "tmp" /\ tmp["index"] = Truncated["index"]
        BY <4>1, Stages DEF IndexInv, FilesInv, Sidecars
      <4>3. tmp'["index"] = IndexFile(rows[b]) /\ live' = live
        BY <3>3, <3>17, <4>2 DEF CloseTmp, Overwritten, Content, Sidecars
      <4>4. tmp'.index.rows = rows[b]
        BY <4>3 DEF IndexFile
      <4>5. ServingInv'
        BY <3>8, <3>9, <3>e, <4>1, <4>3, <4>4
      <4> QED
        BY <3>7, <3>d, <4>1, <4>3, <4>5
    <3>18. CASE CloseTmp(b, "meta")
      <4>1. pc'[b] = "replace index" /\ pc[b] = "write meta" /\ source' = source
        BY <3>3, <3>18, Stages DEF CloseTmp, Go
      <4>2. handle[b] = "tmp"
        BY <4>1, Stages DEF IndexInv, FilesInv, Sidecars
      <4>3. tmp'.index = tmp.index /\ live' = live
        BY <3>3, <3>18, <4>2 DEF CloseTmp, Sidecars
      <4>4. ServingInv'
        BY <3>8, <3>9, <3>e, <4>1, <4>3
      <4> QED
        BY <3>7, <3>d, <4>1, <4>3, <4>4
    <3>19. CASE Replace(b, "index")
      <4>1. pc'[b] \in {"replace meta", "failed"} /\ pc[b] = "replace index" /\ source' = source
        BY <3>3, <3>19, Stages DEF Replace, Go
      <4>2. live'.meta = live.meta /\ (live'.index = tmp.index \/ (pc'[b] = "failed" /\ live' = live))
        BY <3>3, <3>19, Stages DEF Replace, Go, Sidecars
      <4>3. Covers(tmp.index.rows, source[b])
        BY <3>9, <3>e, <4>1
      (* What covers the run's fingerprint covers the older one in place. *)
      <4>4. ASSUME live.meta \in Metas PROVE Covers(tmp.index.rows, live.meta.source)
        <5> SUFFICES ASSUME Since(live.meta.source)
                     PROVE  \E n \in (live.meta.source.size \div 2)..Len(trace.lines) :
                              tmp.index.rows = RowsOf(SubSeq(trace.lines, 1, n))
          BY DEF Covers
        <5>1. NoNewer(live.meta.source, source[b])
          BY <3>d, <4>1, <4>4 DEF IndexInv, AgesInv
        <5>2. Since(source[b])
          BY <2>0, <3>4, <3>5, <4>4, <5>1 DEF NoNewer, Since
        <5>3. live.meta.source.size <= source[b].size
          BY <3>d, <4>1, <4>4 DEF GrowthInv
        <5>4. PICK n \in (source[b].size \div 2)..Len(trace.lines) :
                tmp.index.rows = RowsOf(SubSeq(trace.lines, 1, n))
          BY <4>3, <5>2 DEF Covers
        <5>5. n \in (live.meta.source.size \div 2)..Len(trace.lines)
          BY <2>0, <3>4, <3>5, <4>4, <5>3
        <5> QED
          BY <5>4, <5>5
      <4>5. ServingInv'
        BY <3>8, <3>9, <3>e, <4>1, <4>2, <4>3, <4>4
      <4> QED
        BY <3>7, <3>d, <4>1, <4>2, <4>5
    <3>20. CASE Replace(b, "meta")
      <4>1. pc'[b] \in {"load", "failed"} /\ pc[b] = "replace meta" /\ source' = source
        BY <3>3, <3>20, Stages DEF Replace, Go
      <4>2. live'.index = live.index /\ live'.meta \in {tmp.meta, live.meta}
        BY <3>3, <3>20 DEF Replace, Go, Sidecars
      <4>3. tmp.meta = NewMeta(source[b])
        BY <4>1, Stages DEF IndexInv, FilesInv
      <4>4. Covers(live.index.rows, source[b])
        BY <3>9, <4>1
      <4>5. ServingInv'
        BY <3>4, <3>8, <3>9, <3>e, <4>1, <4>2, <4>3, <4>4
      <4>6. GrowthInv'
        <5>1. \A c \in Builders : Since(source[c]) => source[c].size <= Now.size
          BY DEF GrowthInv
        <5>2. live'.meta \in Metas /\ Since(live'.meta.source) =>
                live'.meta.source.size <= Now.size /\ live'.meta.source.size <= source[b].size
          <6>1. CASE live'.meta = live.meta
            BY <3>d, <4>1, <6>1 DEF GrowthInv
          <6>2. CASE live'.meta = NewMeta(source[b])
            BY <3>4, <5>1, <6>2
          <6> QED
            BY <4>2, <4>3, <6>1, <6>2
        <5> QED
          BY <2>0, <3>1, <3>2, <4>1, <5>1, <5>2 DEF GrowthInv, Since
      <4> QED
        BY <4>5, <4>6
    <3>21. CASE Load(b)
      <4>1. pc'[b] \in {"loaded", "failed"} /\ pc[b] = "load" /\ source' = source /\ live' = live
        BY <3>3, <3>21 DEF Load, Go
      <4>2. pc'[b] = "loaded" => store'[b] = live.index.rows
        BY <3>3, <3>21 DEF Load, Go
      <4>3. ServingInv'
        BY <3>8, <3>9, <3>e, <4>1, <4>2
      <4> QED
        BY <3>7, <3>d, <4>1, <4>3
    <3>22. CASE Crash(b)
      <4>1. pc'[b] = "idle" /\ source' = source /\ live' = live
        BY <3>3, <3>22 DEF Crash, Go
      <4>2. ServingInv'
        BY <3>8, <3>9, <3>e, <4>1
      <4> QED
        BY <3>7, <3>d, <4>1, <4>2
    <3> QED
      BY <2>4, <3>11, <3>12, <3>13, <3>14, <3>15, <3>16, <3>17, <3>18, <3>19, <3>20, <3>21, <3>22
      DEF Work, Sidecars
  <2>5. CASE UNCHANGED vars
    BY <2>5 DEF vars, GrowthInv, ServingInv, Covers, Since, Now
  <2> QED
    BY <2>1, <2>2, <2>3, <2>4, <2>5 DEF Next
<1> QED
  BY <1>1, <1>2, IndexInvHolds, IndexTypes, PTL DEF Spec

(* StoreServesTheTrace: unless the trace file is truncated under a run,    *)
(* the run works with the rows of the file as it was at one moment not     *)
(* before the run looked at it.                                            *)
THEOREM StoreServes ==
  ASSUME Alone
  PROVE  Spec => []StoreServesTheTrace
<1>1. IndexTypeOK /\ GrowthInv /\ ServingInv => StoreServesTheTrace
  <2> SUFFICES ASSUME IndexTypeOK, GrowthInv, ServingInv,
                      NEW b \in Builders, pc[b] = "loaded", trace.born <= source[b].mtime
               PROVE  \E n \in (source[b].size \div 2)..Len(trace.lines) :
                        store[b] = RowsInOnePiece(SubSeq(trace.lines, 1, n))
    BY DEF StoreServesTheTrace
  <2>1. Covers(store[b], source[b])
    BY DEF ServingInv
  <2>2. PICK n \in (source[b].size \div 2)..Len(trace.lines) :
          store[b] = RowsOf(SubSeq(trace.lines, 1, n))
    BY <2>1 DEF Covers, Since
  <2>3. trace.lines \in Seq(Lines) /\ source[b].size \in Nat
    BY DEF IndexTypeOK, Fingerprints
  <2>4. n \in Int /\ n >= 0 /\ n <= Len(trace.lines)
    BY <2>3
  <2>5. SubSeq(trace.lines, 1, n) \in Seq(Lines)
    BY <2>3, <2>4
  <2> QED
    BY <2>2, <2>5, OnePieceSuffices
<1> QED
  BY <1>1, IndexTypes, ServingHolds, PTL
=============================================================================
