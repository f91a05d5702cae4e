---------------------------- MODULE TraceQueries ----------------------------
(***************************************************************************)
(* What an agent can ask of a trace file (src/engine/traces/trace_store.py *)
(* and the tools over it).  A store answers from the rows it has loaded    *)
(* and from the trace file as it is by now, at the places in the rows.     *)
(*                                                                         *)
(* The JSON of a span is the sequence of its words; a pattern is a word,   *)
(* and a match a place where it stands.  An attribute is its words; sizes  *)
(* count words.  Filters by service, model and agent name are all "any of  *)
(* these names": names stands for them, and end times mirror start times.  *)
(***************************************************************************)
EXTENDS TraceIndex

CONSTANTS
  Unset,             (* a filter that is not set *)
  Cut,               (* the marker of a truncated value *)
  Dropped,           (* the note that replaces dropped attributes *)
  DiscoveryCap,      (* _DISCOVERY_ATTR_TRUNCATION_CHARS *)
  SurgicalCap,       (* _SURGICAL_ATTR_TRUNCATION_CHARS *)
  Budget,            (* _VIEW_TRACE_RESPONSE_BYTES_BUDGET, the same for view_spans *)
  Samples,           (* _OVERVIEW_SAMPLE_TRACE_IDS *)
  Words,             (* what spans are made of and agents search for *)
  Filters,           (* the filters they give *)
  MaxAsked           (* the greatest limit or max_matches they give *)

ASSUME TraceQueriesAssumption ==
  /\ \A l \in Lines \ {Blank} : l.attributes \in Seq([noisy : BOOLEAN, words : Seq(Words)])
  /\ DiscoveryCap \in Nat /\ SurgicalCap \in Nat /\ DiscoveryCap <= SurgicalCap
  /\ Budget \in Nat /\ Samples \in Nat /\ MaxAsked \in Nat
  /\ \A f \in Filters : /\ f.errors \in BOOLEAN \cup {Unset}
                        /\ f.since \in Nat \cup {Unset}
                        /\ f.project # NoId

-----------------------------------------------------------------------------
(* Reading spans.                                                          *)

(* What a sequence holds at some places, in their order. *)
Those(seq, places) == [n \in DOMAIN InOrder(places) |-> seq[InOrder(places)[n]]]

Sums(numbers) ==
  LET upTo[k \in 0..Len(numbers)] == IF k = 0 THEN 0 ELSE upTo[k - 1] + numbers[k]
  IN  upTo

Total(numbers) == Sums(numbers)[Len(numbers)]

Blobs(row, lines) == [k \in DOMAIN row.offsets |-> lines[row.offsets[k]]]

RawText(span) ==
  FlattenSeq([a \in DOMAIN span.attributes |-> span.attributes[a].words])

TruncateAttributeValue(words, cap) ==
  IF Len(words) <= cap THEN words ELSE Append(SubSeq(words, 1, cap), Cut)

(* Flat projections of messages repeat what other attributes hold. *)
NewAttributes(attributes, cap) ==
  LET kept == Those(attributes, {a \in DOMAIN attributes : ~attributes[a].noisy})
      shown == [a \in DOMAIN kept |->
                  [noisy |-> FALSE, words |-> TruncateAttributeValue(kept[a].words, cap)]]
      note == [noisy |-> FALSE, words |-> <<Dropped>>]
  IN  IF Len(kept) < Len(attributes) THEN Append(shown, note) ELSE shown

TruncateSpanAttributes(span, cap) ==
  [trace |-> span.trace, span |-> span.span, parent |-> span.parent, project |-> span.project,
   start |-> span.start, error |-> span.error,
   attributes |-> NewAttributes(span.attributes, cap)]

Size(span) == Len(RawText(span))

Bytes(row, lines) == Total([k \in DOMAIN row.offsets |-> Size(Blobs(row, lines)[k])])

-----------------------------------------------------------------------------
(* query_traces, count_traces and get_overview.                            *)

MatchesIndexedFilters(row, f) ==
  /\ f.errors # Unset => f.errors = (row.errors > 0)
  /\ f.names # Unset => f.names \cap row.projects # {}
  /\ f.project # Unset => row.project = f.project
  /\ f.since # Unset => row.start >= f.since

Occurrences(pattern, text) == InOrder({i \in DOMAIN text : text[i] = pattern})

\* Mutation: a span is searched as view_trace shows it.
RowHasContentMatchInView(row, pattern, lines) ==
  \E k \in DOMAIN row.offsets :
    Occurrences(pattern, RawText(TruncateSpanAttributes(Blobs(row, lines)[k], DiscoveryCap))) # <<>>

RowHasContentMatch(row, pattern, lines) ==
  \E k \in DOMAIN row.offsets : Occurrences(pattern, RawText(Blobs(row, lines)[k])) # <<>>

ApplyFilters(all, f, lines) ==
  Those(all, {r \in DOMAIN all :
                /\ MatchesIndexedFilters(all[r], f)
                /\ f.pattern # Unset => RowHasContentMatch(all[r], f.pattern, lines)})

Summary(row, lines) ==
  [trace |-> row.trace, spans |-> Len(row.offsets), start |-> row.start, names |-> row.projects,
   missing |-> row.missing, errors |-> row.errors, bytes |-> Bytes(row, lines)]

QueryTraces(all, f, limit, offset, lines) ==
  LET filtered == ApplyFilters(all, f, lines)
      page == SubSeq(filtered, offset + 1, Min({offset + limit, Len(filtered)}))
  IN  [traces |-> [k \in DOMAIN page |-> Summary(page[k], lines)], total |-> Len(filtered)]

CountTraces(all, f, lines) == Len(ApplyFilters(all, f, lines))

GetOverview(all, f, lines) ==
  LET filtered == ApplyFilters(all, f, lines)
      found == {filtered[k] : k \in DOMAIN filtered}
  IN  [traces |-> Len(filtered),
       spans |-> Total([k \in DOMAIN filtered |-> Len(filtered[k].offsets)]),
       start |-> IF found = {} THEN NoId ELSE Min({row.start : row \in found}),
       names |-> UNION {row.projects : row \in found},
       errorTraces |-> Cardinality({k \in DOMAIN filtered : filtered[k].errors > 0}),
       errors |-> Total([k \in DOMAIN filtered |-> filtered[k].errors]),
       missing |-> Total([k \in DOMAIN filtered |-> filtered[k].missing]),
       bytes |-> Total([k \in DOMAIN filtered |-> Bytes(filtered[k], lines)]),
       samples |-> [k \in 1..Min({Samples, Len(filtered)}) |-> filtered[k].trace]]

-----------------------------------------------------------------------------
(* search_trace and search_span.                                           *)

MatchRecord(span, index, start, buffer) ==
  LET text == RawText(span)
  IN  [span |-> span.span, index |-> index, start |-> start,
       context |-> SubSeq(text, Max({1, start - buffer}), Min({Len(text), start + buffer}))]

MatchesIn(span, index, pattern, buffer) ==
  LET at == Occurrences(pattern, RawText(span))
  IN  [m \in DOMAIN at |-> MatchRecord(span, index, at[m], buffer)]

\* Mutation: the search stops at the cap, and counts what it has.
SearchResultStoppedAtCap(found, max) ==
  LET matches == SubSeq(found, 1, Min({max, Len(found)}))
  IN  [count |-> Len(matches), more |-> Len(matches) = max, matches |-> matches]

(* Up to max records, and the count of all. *)
SearchResult(found, max) ==
  LET matches == SubSeq(found, 1, Min({max, Len(found)}))
  IN  [count |-> Len(found), more |-> Len(found) > Len(matches), matches |-> matches]

SearchTrace(row, pattern, buffer, max, lines) ==
  SearchResult(FlattenSeq([k \in DOMAIN row.offsets |->
                             MatchesIn(Blobs(row, lines)[k], k, pattern, buffer)]), max)

(* The first span of that name, if there is one. *)
SearchSpan(row, id, pattern, buffer, max, lines) ==
  LET k == Min({i \in DOMAIN row.offsets : Blobs(row, lines)[i].span = id})
  IN  SearchResult(MatchesIn(Blobs(row, lines)[k], k, pattern, buffer), max)

-----------------------------------------------------------------------------
(* view_trace and view_spans.                                              *)

Sorted(numbers) ==
  LET Rank(i) == Cardinality({j \in DOMAIN numbers :
                   numbers[j] < numbers[i] \/ (numbers[j] = numbers[i] /\ j <= i)})
  IN  [n \in DOMAIN numbers |-> numbers[CHOOSE i \in DOMAIN numbers : Rank(i) = n]]

\* Mutation: the spans that fit, without a word on the others.
ViewCutShort(spans) ==
  [spans |-> Those(spans, {k \in DOMAIN spans : Size(spans[k]) <= Budget})]

(* Either all the spans, or a summary of what they would have been. *)
View(spans) ==
  LET sizes == [k \in DOMAIN spans |-> Size(spans[k])]
      sorted == Sorted(sizes)
  IN  IF Total(sizes) <= Budget THEN [spans |-> spans]
      ELSE [spans |-> <<>>,
            oversized |-> [count |-> Len(spans), bytes |-> Total(sizes),
                           least |-> sorted[1],
                           median |-> sorted[Len(sizes) \div 2 + 1],
                           greatest |-> sorted[Len(sizes)],
                           errors |-> Cardinality({k \in DOMAIN spans : spans[k].error})]]

ViewTrace(row, lines) ==
  View([k \in DOMAIN row.offsets |-> TruncateSpanAttributes(Blobs(row, lines)[k], DiscoveryCap)])

ViewSpans(row, ids, lines) ==
  LET blobs == Blobs(row, lines)
      wanted == Those(blobs, {k \in DOMAIN blobs : blobs[k].span \in ids})
  IN  View([k \in DOMAIN wanted |-> TruncateSpanAttributes(wanted[k], SurgicalCap)])

-----------------------------------------------------------------------------
(* Properties.  The reference is what a run may have seen: the file at one *)
(* moment not before it looked at it.  They hold as long as nobody         *)
(* truncates the file.                                                     *)

Serves(b) == pc[b] = "loaded" /\ trace.born <= source[b].mtime

FilesSeen(b) == {SubSeq(trace.lines, 1, n) : n \in (source[b].size \div 2)..Len(trace.lines)}

(* The places of the spans of some traces. *)
PlacesOf(file, traces) == {i \in DOMAIN file : file[i] # Blank /\ file[i].trace \in traces}

TracesIn(file) == {file[i].trace : i \in {j \in DOMAIN file : file[j] # Blank}}

(* The spans at these places pass a filter. *)
Passes(file, places, f) ==
  /\ f.errors # Unset => (f.errors <=> \E i \in places : file[i].error)
  /\ f.names # Unset => \E i \in places : file[i].project \in f.names \ {NoId}
  /\ f.project # Unset => \E i \in places : /\ file[i].project = f.project
                                             /\ \A j \in places : j < i => file[j].project = NoId
  /\ f.since # Unset => \A i \in places : file[i].start >= f.since
  /\ f.pattern # Unset => \E i \in places : \E w \in DOMAIN RawText(file[i]) :
                            RawText(file[i])[w] = f.pattern

FiltersMatch(all, file, lines) ==
  \A f \in Filters :
    LET passing == {t \in TracesIn(file) : Passes(file, PlacesOf(file, {t}), f)}
        theirs == PlacesOf(file, passing)
        first == InOrder({i \in theirs : \A j \in theirs : j < i => file[j].trace # file[i].trace})
        overview == GetOverview(all, f, lines)
    IN  /\ \A limit \in 1..MaxAsked, offset \in 0..Len(file) :
             LET page == QueryTraces(all, f, limit, offset, lines)
             IN  /\ page.total = Cardinality(passing)
                 /\ DOMAIN page.traces = {n \in 1..limit : offset + n <= Cardinality(passing)}
                 /\ \A n \in DOMAIN page.traces :
                      page.traces[n].trace = file[first[offset + n]].trace
        /\ CountTraces(all, f, lines) = Cardinality(passing)
        /\ overview.traces = Cardinality(passing)
        /\ overview.spans = Cardinality(theirs)
        /\ overview.bytes = Total([i \in DOMAIN file |-> IF i \in theirs THEN Size(file[i]) ELSE 0])
        /\ overview.errors = Cardinality({i \in theirs : file[i].error})

(* Page after page, an agent is shown each trace that passes its filters   *)
(* just once, in the order of the file; the count and the overview are of  *)
(* the same traces, and of all their spans.                                *)
FiltersMatchTrace ==
  \A b \in Builders : Serves(b) => \E file \in FilesSeen(b) : FiltersMatch(store[b], file, trace.lines)

(* A result counts the places where the word stands, says whether it shows *)
(* them all, and shows the first of them: the n-th record is of the n-th   *)
(* place, in the order of the spans and the words.                         *)
ShowsFirst(result, places, spans, max) ==
  LET At(n) == <<result.matches[n].index, result.matches[n].start>>
      Upto(p) == {q \in places : q[1] < p[1] \/ (q[1] = p[1] /\ q[2] <= p[2])}
  IN  /\ result.count = Cardinality(places)
      /\ Len(result.matches) = Min({Cardinality(places), max})
      /\ result.more <=> Cardinality(places) > max
      /\ \A n \in DOMAIN result.matches :
           /\ At(n) \in places
           /\ Cardinality(Upto(At(n))) = n
           /\ result.matches[n].span = spans[result.matches[n].index].span

SearchesMatch(all, file, lines) ==
  \A r \in DOMAIN all, p \in Words, max \in 1..MaxAsked :
    LET spans == Those(file, PlacesOf(file, {all[r].trace}))
        Standing(k) == {<<k, i>> : i \in {j \in DOMAIN RawText(spans[k]) : RawText(spans[k])[j] = p}}
        places == UNION {Standing(k) : k \in DOMAIN spans}
    IN  /\ ShowsFirst(SearchTrace(all[r], p, 1, max, lines), places, spans, max)
        /\ \A k \in DOMAIN spans :
             (\A i \in 1..(k - 1) : spans[i].span # spans[k].span) =>
               ShowsFirst(SearchSpan(all[r], spans[k].span, p, 1, max, lines), Standing(k), spans, max)
        /\ RowHasContentMatch(all[r], p, lines) <=> places # {}

(* A search counts every place of the trace where the word stands, says    *)
(* whether it shows them all, and shows the first; a search of one span    *)
(* shows what the search of the trace has for it; and the regex filter     *)
(* keeps a trace just if its search finds something.                       *)
SearchesMatchTrace ==
  \A b \in Builders : Serves(b) => \E file \in FilesSeen(b) : SearchesMatch(store[b], file, trace.lines)

Whole(view) == "oversized" \notin DOMAIN view

HoldsAllOrNone(view, places, file) ==
  /\ Total([k \in DOMAIN view.spans |-> Size(view.spans[k])]) <= Budget
  /\ IF Whole(view)
     THEN [k \in DOMAIN view.spans |-> view.spans[k].span]
            = [k \in 1..Cardinality(places) |-> Those(file, places)[k].span]
     ELSE view.spans = <<>> /\ view.oversized.count = Cardinality(places)

(* What a span shows in one view, it shows in another. *)
ShowsNoLess(again, before) ==
  \A a \in DOMAIN before.attributes :
    \A w \in DOMAIN before.attributes[a].words :
      LET word == before.attributes[a].words[w]
      IN  word \notin {Cut, Dropped} =>
            /\ a \in DOMAIN again.attributes /\ w \in DOMAIN again.attributes[a].words
            /\ again.attributes[a].words[w] = word

ViewsMatch(all, file, lines) ==
  \A r \in DOMAIN all :
    LET places == PlacesOf(file, {all[r].trace})
        first == ViewTrace(all[r], lines)
    IN  /\ HoldsAllOrNone(first, places, file)
        /\ \A ids \in SUBSET {file[i].span : i \in places} :
             LET named == {i \in places : file[i].span \in ids}
                 second == ViewSpans(all[r], ids, lines)
             IN  /\ HoldsAllOrNone(second, named, file)
                 /\ ~Whole(second) => Cardinality(named) > 1 \/ second.oversized.greatest > Budget
                 /\ Whole(first) /\ Whole(second) =>
                      \A i \in DOMAIN first.spans, k \in DOMAIN second.spans :
                        InOrder(places)[i] = InOrder(named)[k] =>
                          ShowsNoLess(second.spans[k], first.spans[i])

(* A view holds every span that was asked for, in file order, or none and  *)
(* their number; what it holds fits the budget, and a span that was too    *)
(* much in a view of its trace can be had alone unless it is too much      *)
(* itself.  A second look at named spans shows all that the first did.     *)
ViewsMatchTrace ==
  \A b \in Builders : Serves(b) => \E file \in FilesSeen(b) : ViewsMatch(store[b], file, trace.lines)
=============================================================================
