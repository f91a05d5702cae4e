---------------------------- MODULE MCTraceIndex ----------------------------
(* Two traces; the second span of t1 names the first as its parent, the    *)
(* span of t2 a parent that its trace does not have.                       *)
EXTENDS TraceQueries

CONSTANTS t1, t2, p1, p2, w1, w2

Attribute(words) == [noisy |-> FALSE, words |-> words]
Projection(words) == [noisy |-> TRUE, words |-> words]

First == [trace |-> t1, span |-> 1, parent |-> NoId, project |-> p1, start |-> 2, error |-> FALSE,
          attributes |-> <<Attribute(<<w1, w1, w2>>), Projection(<<w2>>)>>]
Second == [trace |-> t1, span |-> 2, parent |-> 1, project |-> p2, start |-> 1, error |-> TRUE,
           attributes |-> <<Attribute(<<w1>>), Attribute(<<w1, w2>>)>>]
Other == [trace |-> t2, span |-> 3, parent |-> 1, project |-> NoId, start |-> 3, error |-> FALSE,
          attributes |-> <<Attribute(<<w1, w1, w1>>), Attribute(<<w1, w1>>)>>]

MCLines == {First, Second, Other, Blank}
MCSpans == {First}
MCTracesFound == {<<Other>>, <<Second, Blank>>, <<Other, Second>>}

MCWords == {w1, w2}

NoFilter == [errors |-> Unset, names |-> Unset, project |-> Unset, since |-> Unset,
             pattern |-> Unset]

(* Every filter alone, and two together. *)
MCFilters ==
  {NoFilter, [NoFilter EXCEPT !.project = p1, !.pattern = w2]}
  \cup {[NoFilter EXCEPT !.errors = e] : e \in BOOLEAN}
  \cup {[NoFilter EXCEPT !.names = n] : n \in SUBSET {p1, p2}}
  \cup {[NoFilter EXCEPT !.project = p] : p \in {p1, p2}}
  \cup {[NoFilter EXCEPT !.since = s] : s \in 2..3}
  \cup {[NoFilter EXCEPT !.pattern = p] : p \in MCWords}
=============================================================================
