---------------------------- MODULE ContextScan -----------------------------
(***************************************************************************)
(* AgentContext states trimming and grouping over positions.  The code     *)
(* computes both in one pass with a running state; this module folds those *)
(* loops over a history and checks that the two agree, and that what they  *)
(* compute is what the callers rely on, on every history of at most        *)
(* MaxRows rows that a caller, the mapper and compaction can leave behind. *)
(***************************************************************************)
EXTENDS AgentContext, SequencesExt

CONSTANT MaxRows   (* bound: longest history explored *)

ASSUME MaxRowsAssumption == MaxRows \in Nat

VARIABLE items

-----------------------------------------------------------------------------
(* The loop of _consistent_prefix_length: open calls, the orphan flag, and *)
(* the cut, -1 standing for None.  The code tests the cut before each row  *)
(* and once after the last.                                                *)

ScanStart == [open |-> {}, orphan |-> FALSE, cut |-> -1]

\* Mutation: the cut ignores orphan results.
MarkCutPastOrphans(s, pos, floor) ==
  IF pos >= floor /\ s.open = {} THEN [s EXCEPT !.cut = pos] ELSE s

MarkCut(s, pos, floor) ==
  IF pos >= floor /\ s.open = {} /\ ~s.orphan THEN [s EXCEPT !.cut = pos] ELSE s

ScanRow(s, row) ==
  IF row.compacted THEN s
  ELSE IF IsCallRow(row) THEN [s EXCEPT !.open = @ \cup row.calls]
  ELSE IF row.role # "tool" THEN s
  ELSE IF row.answers \in s.open THEN [s EXCEPT !.open = @ \ {row.answers}]
  ELSE [s EXCEPT !.orphan = TRUE]

\* The loop's state behind each row.
Scan(floor) ==
  LET behind[k \in 0..Len(items)] ==
        IF k = 0 THEN ScanStart ELSE ScanRow(MarkCut(behind[k - 1], k - 1, floor), items[k])
  IN  behind

ScannedCut(floor) ==
  LET end == MarkCut(Scan(floor)[Len(items)], Len(items), floor)
  IN  IF end.cut = -1 THEN Len(items) ELSE end.cut

(* The loop of _build_tool_groups: the finished groups and the open one.   *)

CloseGroup(g) == [groups |-> Append(g.groups, g.current), current |-> {}, awaiting |-> FALSE]

GroupRow(g, i) ==
  LET row == items[i]
      base == IF g.awaiting THEN CloseGroup(g) ELSE g
  IN  IF row.compacted \/ row.role = "system" THEN g
      ELSE IF IsCallRow(row) THEN [base EXCEPT !.current = @ \cup {i}]
      ELSE IF InBlock(row)
           THEN IF g.current = {} THEN g
                ELSE [g EXCEPT !.current = @ \cup {i}, !.awaiting = TRUE]
      ELSE IF g.current = {} THEN g ELSE CloseGroup(g)

NoGroups == [groups |-> <<>>, current |-> {}, awaiting |-> FALSE]

Grouping ==
  LET behind[k \in 0..Len(items)] ==
        IF k = 0 THEN NoGroups ELSE GroupRow(behind[k - 1], k)
  IN  behind

ScannedGroups ==
  LET end == Grouping[Len(items)]
  IN  IF end.current = {} THEN end.groups ELSE Append(end.groups, end.current)

-----------------------------------------------------------------------------
Init == items = <<>>

\* The rows explored: live ones of every shape, and a summary of either half
\* of a tool turn (every row is skipped alike once compacted).
LiveRows ==
  {TextRow(who) : who \in Roles \ {"tool"}}
    \cup {ResultRow(c) : c \in CallIds \cup {NoCall}}
    \cup {CallRow(cs) : cs \in (SUBSET CallIds) \ {{}}}

Summaries ==
  {[row EXCEPT !.compacted = TRUE] : row \in {CallRow(CallIds)} \cup {ResultRow(c) : c \in CallIds}}

Extend ==
  /\ Len(items) < MaxRows
  /\ \E row \in LiveRows \cup Summaries : items' = Append(items, row)

Next == Extend
Spec == Init /\ [][Next]_items

-----------------------------------------------------------------------------
\* The closed forms AgentRunner works with are what the code's loops compute:
\* a trim keeps exactly what the loop's cut keeps, for every floor the runner
\* may pass (_consistent_prefix_length), and the blocks are the loop's groups,
\* in the loop's order (_build_tool_groups).
ScansAgree ==
  /\ \A floor \in 0..Len(items) : KeptLength(items, floor) = ScannedCut(floor)
  /\ {Block(items, s) : s \in BlockStarts(items)} = Range(ScannedGroups)
  /\ \A i, j \in 1..Len(ScannedGroups) :
       i < j => \A a \in ScannedGroups[i], b \in ScannedGroups[j] : a < b
  /\ Cardinality(BlockStarts(items)) = Len(ScannedGroups)

(* The turns that the grouping takes a history to be made of: between a    *)
(* call and its result come more calls, and then results; nothing else.    *)
TurnsInOrder ==
  \A i, j \in 1..Len(items), c \in CallIds :
    /\ i < j /\ Makes(items[i], c) /\ Answers(items[j], c)
    /\ \A k \in (i+1)..(j-1) : ~Answers(items[k], c)
    => \A k \in Grouped(items) \cap ((i+1)..(j-1)) :
         /\ IsToolRelated(items[k])
         /\ IsCallRow(items[k]) =>
              \A m \in Grouped(items) \cap ((i+1)..(k-1)) : IsCallRow(items[m])

(* Where turns are in order, replacing any one unit by summaries keeps the *)
(* rendered array valid: a block never leaves half a turn behind.          *)
UnitCompactionRendersValid ==
  (Consistent(items) /\ TurnsInOrder)
    => \A u \in CompactionUnits(items) : Consistent(Render(CompactRows(items, u)))
=============================================================================
