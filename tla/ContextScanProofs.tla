------------------------- MODULE ContextScanProofs --------------------------
(***************************************************************************)
(* What compaction leaves of a history of any length, with any number of   *)
(* calls, and that the loops of the code compute what AgentContext states: *)
(* proofs about ContextScan.  The loops are followed row by row, by an     *)
(* induction over the set of lengths that they have been followed to.      *)
(***************************************************************************)
EXTENDS ContextScan, SequenceTheorems, FiniteSetTheorems, WellFoundedInduction, TLAPS

LEMMA LiveRow ==
  ASSUME items \in Seq(Rows), NEW i \in 1..Len(items), NEW c \in CallIds
  PROVE  /\ Makes(items[i], c) => i \in Grouped(items) /\ IsCallRow(items[i])
         /\ Answers(items[i], c) =>
              /\ i \in Grouped(items) /\ InBlock(items[i])
              /\ ~IsCallRow(items[i]) /\ IsToolRelated(items[i])
<1>1. items[i] \in Rows
  OBVIOUS
<1>2. c # NoCall
  BY ContextAssumption
<1> QED BY <1>1, <1>2 DEF Rows, Makes, Answers, Grouped, IsCallRow, IsToolRelated, InBlock

(* In an array that the provider accepts every live result answers a call. *)
LEMMA ResultsAnswer ==
  ASSUME items \in Seq(Rows), Consistent(items), NEW j \in Grouped(items),
         items[j].role = "tool"
  PROVE  \E c \in CallIds : Answers(items[j], c) /\ OpenAt(items, j - 1, c)
<1>1. j \in 1..Len(items) /\ ~items[j].compacted
  BY DEF Grouped
<1>2. ~OrphanAt(items, j)
  BY <1>1 DEF Consistent, ConsistentAt
<1>3. PICK c \in CallIds : items[j].answers = c /\ OpenAt(items, j - 1, c)
  BY <1>1, <1>2 DEF OrphanAt
<1> QED BY <1>1, <1>3 DEF Answers

(* The last row before another that the grouping looks at. *)
LEMMA Predecessor ==
  ASSUME items \in Seq(Rows), NEW i \in Grouped(items), NEW m \in Grouped(items), i < m
  PROVE  \E p \in Grouped(items) :
           i <= p /\ p < m /\ \A k \in (p+1)..(m-1) : k \notin Grouped(items)
<1> DEFINE Back == {n \in Nat : m - n \in Grouped(items) /\ n > 0}
<1>1. Grouped(items) \subseteq Nat /\ i \in Nat /\ m \in Nat
  BY DEF Grouped
<1>2. Back \subseteq Nat /\ m - i \in Back
  BY <1>1
<1> HIDE DEF Back
<1>3. \E n \in Back : \A k \in Back : ~(<<k, n>> \in OpToRel(<, Nat))
  BY <1>2, WFMin, NatLessThanWellFounded
<1>4. PICK n \in Back : \A k \in Back : ~(k < n)
  BY <1>2, <1>3 DEF OpToRel
<1>5. n \in Nat /\ n > 0 /\ m - n \in Grouped(items)
  BY <1>4 DEF Back
<1>6. ASSUME NEW k \in Grouped(items), k < m
      PROVE  k <= m - n
  <2>1. m - k \in Nat /\ m - k > 0 /\ m - (m - k) = k
    BY <1>1, <1>6
  <2>2. m - k \in Back
    BY <2>1 DEF Back
  <2>3. ~(m - k < n)
    BY <1>4, <2>2
  <2> QED BY <1>1, <1>5, <2>1, <2>3
<1>7. \A k \in (m - n + 1)..(m-1) : k \notin Grouped(items)
  BY <1>1, <1>5, <1>6
<1> QED BY <1>1, <1>5, <1>6, <1>7

(* A call and the result that comes for it. *)
Pair(i, j, c) ==
  /\ i \in 1..Len(items) /\ j \in 1..Len(items) /\ i < j
  /\ Makes(items[i], c) /\ Answers(items[j], c)
  /\ \A k \in (i+1)..(j-1) : ~Answers(items[k], c)

(* Nothing starts a block between the two. *)
LEMMA NoStartBetween ==
  ASSUME items \in Seq(Rows), TurnsInOrder, NEW i, NEW j, NEW c \in CallIds, Pair(i, j, c),
         NEW m \in Grouped(items), i < m, m <= j
  PROVE  ~StartsBlock(items, m)
<1> SUFFICES ASSUME IsCallRow(items[m]) PROVE ~StartsBlock(items, m)
  BY DEF StartsBlock
<1>1. /\ i \in Grouped(items) /\ IsCallRow(items[i]) /\ ~IsCallRow(items[j])
      /\ i \in Nat /\ j \in Nat /\ m \in Nat
  BY LiveRow DEF Pair, Grouped
<1>2. m < j /\ m \in (i+1)..(j-1)
  BY <1>1
<1>3. \A k \in Grouped(items) \cap ((i+1)..(m-1)) : IsCallRow(items[k])
  BY <1>2 DEF TurnsInOrder, Pair
<1>4. PICK p \in Grouped(items) :
        i <= p /\ p < m /\ \A k \in (p+1)..(m-1) : k \notin Grouped(items)
  BY <1>1, Predecessor
<1>5. p \in Nat
  BY DEF Grouped
<1>6. IsCallRow(items[p])
  BY <1>1, <1>3, <1>4, <1>5
<1> QED BY <1>4, <1>6 DEF StartsBlock

(* A unit holds both or neither. *)
LEMMA UnitsHoldPairs ==
  ASSUME items \in Seq(Rows), Consistent(items), TurnsInOrder,
         NEW u \in CompactionUnits(items), NEW i, NEW j, NEW c \in CallIds, Pair(i, j, c)
  PROVE  i \in u <=> j \in u
<1>1. /\ i \in Grouped(items) /\ IsCallRow(items[i]) /\ InBlock(items[i])
      /\ j \in Grouped(items) /\ InBlock(items[j])
      /\ IsToolRelated(items[i]) /\ IsToolRelated(items[j]) /\ ~IsCallRow(items[j])
      /\ i \in Nat /\ j \in Nat /\ i < j
  BY LiveRow DEF Pair, Grouped, IsToolRelated, InBlock
<1>2. CASE \E k \in AllButNewest(TextPositions(items), KeepText) : u = {k}
  <2>1. PICK k \in TextPositions(items) : u = {k}
    BY <1>2 DEF AllButNewest
  <2>2. ~IsToolRelated(items[k])
    BY DEF TextPositions
  <2> QED BY <1>1, <2>1, <2>2
<1>3. CASE \E s \in AllButNewest(BlockStarts(items), KeepTools) : u = Block(items, s)
  <2>1. PICK s \in BlockStarts(items) : u = Block(items, s)
    BY <1>3 DEF AllButNewest
  <2>2. StartsBlock(items, s) /\ s \in Grouped(items) /\ IsCallRow(items[s]) /\ s \in Nat
    BY DEF BlockStarts, StartsBlock, Grouped
  <2>3. ASSUME i \in u
        PROVE  j \in u
    <3>1. i >= s /\ \A m \in Grouped(items) \cap (s..i) :
                      InBlock(items[m]) /\ (m > s => ~StartsBlock(items, m))
      BY <2>1, <2>3 DEF Block
    <3>2. ASSUME NEW m \in Grouped(items) \cap (s..j)
          PROVE  InBlock(items[m]) /\ (m > s => ~StartsBlock(items, m))
      <4>1. CASE m <= i
        <5>1. m \in s..i
          BY <1>1, <2>2, <4>1
        <5> QED BY <3>1, <5>1
      <4>2. CASE i < m
        <5>1. ~StartsBlock(items, m)
          BY <4>2, NoStartBetween
        <5>2. IsToolRelated(items[m])
          <6>1. CASE m = j
            BY <1>1, <6>1
          <6>2. CASE m # j
            <7>1. m \in (i+1)..(j-1)
              BY <1>1, <2>2, <4>2, <6>2
            <7> QED BY <7>1 DEF TurnsInOrder, Pair
          <6> QED BY <6>1, <6>2
        <5>3. InBlock(items[m])
          <6>1. CASE items[m].role = "tool"
            <7>1. PICK d \in CallIds : Answers(items[m], d)
              BY <6>1, ResultsAnswer
            <7> QED BY <7>1, ContextAssumption DEF Answers, InBlock
          <6> QED BY <5>2, <6>1 DEF IsToolRelated, InBlock
        <5> QED BY <5>1, <5>3
      <4> QED BY <1>1, <2>2, <4>1, <4>2
    <3> QED BY <1>1, <2>1, <2>2, <3>1, <3>2 DEF Block
  <2>4. ASSUME j \in u
        PROVE  i \in u
    <3>1. j >= s /\ \A m \in Grouped(items) \cap (s..j) :
                      InBlock(items[m]) /\ (m > s => ~StartsBlock(items, m))
      BY <2>1, <2>4 DEF Block
    <3>2. s <= i
      <4> SUFFICES ASSUME i < s PROVE FALSE
        BY <1>1, <2>2
      <4> QED BY <1>1, <2>2, <3>1, NoStartBetween
    <3>3. \A m \in Grouped(items) \cap (s..i) : m \in s..j
      BY <1>1, <2>2
    <3> QED BY <1>1, <2>1, <3>1, <3>2, <3>3 DEF Block
  <2> QED BY <2>3, <2>4
<1> QED BY <1>2, <1>3 DEF CompactionUnits

(* A row of the array is the row of the history, or the text of a summary. *)
LEMMA RenderedRow ==
  ASSUME items \in Seq(Rows), NEW u
  PROVE  LET shown == Render(CompactRows(items, u))
         IN  /\ Len(shown) = Len(items)
             /\ \A i \in 1..Len(items) :
                  IF i \in u \/ items[i].compacted
                  THEN shown[i].calls = {} /\ shown[i].role # "tool"
                  ELSE shown[i] = items[i]
<1> DEFINE kept == CompactRows(items, u)
           shown == Render(kept)
<1>1. Len(items) \in Nat /\ \A i \in 1..Len(items) : items[i] \in Rows
  OBVIOUS
<1>2. /\ Len(kept) = Len(items)
      /\ \A i \in 1..Len(items) :
           kept[i] = IF i \in u THEN [items[i] EXCEPT !.compacted = TRUE] ELSE items[i]
  BY <1>1 DEF CompactRows
<1> HIDE DEF kept
<1>3. /\ Len(shown) = Len(items)
      /\ \A i \in 1..Len(items) : shown[i] = RenderRow(kept[i])
  BY <1>1, <1>2 DEF Render
<1> HIDE DEF shown
<1>4. ASSUME NEW i \in 1..Len(items), i \in u \/ items[i].compacted
      PROVE  shown[i].calls = {} /\ shown[i].role # "tool"
  <2>1. kept[i].compacted
    BY <1>1, <1>2, <1>4 DEF Rows
  <2>2. shown[i] = IF kept[i].role = "tool" THEN TextRow("assistant") ELSE TextRow(kept[i].role)
    BY <1>3, <2>1 DEF RenderRow
  <2>3. CASE kept[i].role = "tool"
    BY <2>2, <2>3 DEF TextRow
  <2>4. CASE kept[i].role # "tool"
    BY <2>2, <2>4 DEF TextRow
  <2> QED BY <2>3, <2>4
<1>5. ASSUME NEW i \in 1..Len(items), ~(i \in u \/ items[i].compacted)
      PROVE  shown[i] = items[i]
  BY <1>2, <1>3, <1>5 DEF RenderRow
<1> QED BY <1>3, <1>4, <1>5 DEF shown, kept

LEMMA CompactionRendersValid ==
  ASSUME items \in Seq(Rows), Consistent(items), TurnsInOrder, NEW u \in CompactionUnits(items)
  PROVE  Consistent(Render(CompactRows(items, u)))
<1> DEFINE shown == Render(CompactRows(items, u))
           n == Len(items)
<1>1. /\ n \in Nat /\ Len(shown) = n
      /\ \A i \in 1..n : IF i \in u \/ items[i].compacted
                         THEN shown[i].calls = {} /\ shown[i].role # "tool"
                         ELSE shown[i] = items[i]
  BY RenderedRow
<1> HIDE DEF shown
<1>2. ASSUME NEW i \in 1..n, NEW c \in CallIds
      PROVE  /\ Makes(shown[i], c) <=> i \notin u /\ Makes(items[i], c)
             /\ Answers(shown[i], c) <=> i \notin u /\ Answers(items[i], c)
  BY <1>1 DEF Makes, Answers, IsCallRow
<1>3. ASSUME NEW c \in CallIds, OpenAt(shown, n, c)
      PROVE  FALSE
  <2>1. PICK i \in 1..n : Makes(shown[i], c) /\ \A j \in (i+1)..n : ~Answers(shown[j], c)
    BY <1>3 DEF OpenAt
  <2>2. i \notin u /\ Makes(items[i], c)
    BY <1>2, <2>1
  <2> DEFINE Later == {j \in (i+1)..n : Answers(items[j], c)}
  <2>3. Later # {} /\ Later \subseteq Nat
    <3>1. ~OpenAt(items, n, c)
      BY DEF Consistent, ConsistentAt
    <3>2. \E j \in (i+1)..n : Answers(items[j], c)
      BY <2>2, <3>1 DEF OpenAt
    <3> QED BY <1>1, <3>2
  <2> HIDE DEF Later
  <2>4. \E j \in Later : \A k \in Later : ~(<<k, j>> \in OpToRel(<, Nat))
    BY <2>3, WFMin, NatLessThanWellFounded
  <2>5. PICK j \in Later : \A k \in Later : ~(k < j)
    BY <2>3, <2>4 DEF OpToRel
  <2>6. j \in (i+1)..n /\ Answers(items[j], c)
    BY DEF Later
  <2>7. \A k \in (i+1)..(j-1) : ~Answers(items[k], c)
    BY <1>1, <2>5, <2>6 DEF Later
  <2>8. Pair(i, j, c)
    BY <1>1, <2>2, <2>6, <2>7 DEF Pair
  <2>9. j \notin u /\ j \in 1..n
    BY <1>1, <2>2, <2>6, <2>8, UnitsHoldPairs
  <2> QED BY <1>2, <2>1, <2>6, <2>9
<1>4. ASSUME NEW j \in 1..n, OrphanAt(shown, j)
      PROVE  FALSE
  <2>1. j \notin u /\ ~items[j].compacted /\ items[j].role = "tool" /\ shown[j] = items[j]
    BY <1>1, <1>4 DEF OrphanAt
  <2>2. j \in Grouped(items)
    BY <2>1 DEF Grouped
  <2>3. PICK c \in CallIds : Answers(items[j], c) /\ OpenAt(items, j - 1, c)
    BY <2>1, <2>2, ResultsAnswer
  <2>4. PICK i \in 1..(j-1) : /\ Makes(items[i], c)
                             /\ \A k \in (i+1)..(j-1) : ~Answers(items[k], c)
    BY <2>3 DEF OpenAt
  <2>5. i \in 1..n /\ i < j
    BY <1>1
  <2>6. i \notin u
    BY <2>1, <2>3, <2>4, <2>5, UnitsHoldPairs DEF Pair
  <2>7. \A k \in (i+1)..(j-1) : k \in 1..n
    BY <1>1
  <2>8. OpenAt(shown, j - 1, c)
    BY <1>2, <2>4, <2>5, <2>6, <2>7 DEF OpenAt
  <2> QED BY <1>4, <2>1, <2>3, <2>8 DEF OrphanAt, Answers
<1> QED BY <1>1, <1>3, <1>4 DEF Consistent, ConsistentAt, shown

-----------------------------------------------------------------------------
(* The loops.  What holds of 0, and of n + 1 where it holds of n, holds of *)
(* every number.                                                           *)

LEMMA Counting ==
  ASSUME NEW S, 0 \in S, \A n \in Nat : n \in S => n + 1 \in S
  PROVE  \A n \in Nat : n \in S
<1> DEFINE Missed == {n \in Nat : n \notin S}
<1> SUFFICES ASSUME Missed # {} PROVE FALSE
  OBVIOUS
<1>1. \E n \in Missed : \A k \in Missed : ~(<<k, n>> \in OpToRel(<, Nat))
  BY WFMin, NatLessThanWellFounded
<1>2. PICK n \in Missed : \A k \in Missed : ~(k < n)
  BY <1>1 DEF OpToRel
<1>3. n \in Nat /\ n # 0 /\ n - 1 \in Nat /\ n - 1 < n /\ n - 1 + 1 = n
  OBVIOUS
<1> QED BY <1>2, <1>3

(* Scan is what its definition says of each row. *)
LEMMA ScanGoesOn ==
  ASSUME items \in Seq(Rows), NEW floor
  PROVE  /\ Scan(floor)[0] = ScanStart
         /\ \A k \in 1..Len(items) :
              Scan(floor)[k] = ScanRow(MarkCut(Scan(floor)[k - 1], k - 1, floor), items[k])
<1> DEFINE Behind(f, m) ==
             f = [k \in 0..m |-> IF k = 0 THEN ScanStart
                                 ELSE ScanRow(MarkCut(f[k - 1], k - 1, floor), items[k])]
           Reached == {m \in Nat : \E f : Behind(f, m)}
<1>1. 0 \in Reached
  <2>1. Behind([k \in 0..0 |-> ScanStart], 0)
    OBVIOUS
  <2> QED BY <2>1
<1>2. ASSUME NEW m \in Nat, m \in Reached
      PROVE  m + 1 \in Reached
  <2>1. PICK f : Behind(f, m)
    BY <1>2
  <2> DEFINE g == [k \in 0..(m + 1) |->
                     IF k = 0 THEN ScanStart
                     ELSE ScanRow(MarkCut(f[k - 1], k - 1, floor), items[k])]
  <2>2. \A k \in 0..m : g[k] = f[k]
    BY <2>1
  <2>3. \A k \in 0..(m + 1) : k # 0 => k - 1 \in 0..m
    OBVIOUS
  <2>4. Behind(g, m + 1)
    BY <2>2, <2>3
  <2> HIDE DEF g, Behind
  <2>5. \E h : Behind(h, m + 1)
    BY <2>4
  <2> QED BY <2>5
<1>3. Len(items) \in Reached
  <2> HIDE DEF Reached
  <2> QED BY <1>1, <1>2, Counting
<1>4. Behind(Scan(floor), Len(items))
  BY <1>3 DEF Scan
<1> QED BY <1>4

(* What the loop of the trim knows behind k rows: the calls open, whether  *)
(* a result was an orphan, and the last cut among those it has tested.     *)
Knows(s, k, floor, tested) ==
  /\ s \in [open : SUBSET CallIds, orphan : BOOLEAN, cut : Int]
  /\ s.open = {c \in CallIds : OpenAt(items, k, c)}
  /\ s.orphan <=> \E j \in 1..k : OrphanAt(items, j)
  /\ s.cut = -1 => \A p \in floor..tested : ~ConsistentAt(items, p)
  /\ s.cut # -1 => /\ s.cut \in floor..tested /\ ConsistentAt(items, s.cut)
                   /\ \A p \in (s.cut + 1)..tested : ~ConsistentAt(items, p)

LEMMA MarkKnows ==
  ASSUME NEW floor \in Nat, NEW k \in Nat, NEW s, Knows(s, k, floor, k - 1)
  PROVE  Knows(MarkCut(s, k, floor), k, floor, k)
<1> DEFINE m == MarkCut(s, k, floor)
<1>1. ConsistentAt(items, k) <=> s.open = {} /\ ~s.orphan
  BY DEF Knows, ConsistentAt
<1>2. CASE k >= floor /\ s.open = {} /\ ~s.orphan
  <2>1. /\ m \in [open : SUBSET CallIds, orphan : BOOLEAN, cut : Int]
        /\ m.open = s.open /\ m.orphan = s.orphan /\ m.cut = k
    BY <1>2 DEF Knows, MarkCut
  <2> HIDE DEF m
  <2>2. k # -1 /\ k \in floor..k /\ (k + 1)..k = {}
    BY <1>2
  <2>3. Knows(m, k, floor, k)
    BY <1>1, <1>2, <2>1, <2>2 DEF Knows
  <2> QED BY <2>3 DEF m
<1>3. CASE ~(k >= floor /\ s.open = {} /\ ~s.orphan)
  <2>1. m = s
    BY <1>3 DEF MarkCut
  <2>2. k >= floor => ~ConsistentAt(items, k)
    BY <1>1, <1>3
  <2>3. \A p \in Int, q \in Int : p \in q..k => p \in q..(k - 1) \/ p = k
    OBVIOUS
  <2>4. s.cut = -1 => \A p \in floor..k : ~ConsistentAt(items, p)
    BY <2>2, <2>3 DEF Knows
  <2>5. s.cut # -1 => /\ s.cut \in floor..k
                      /\ \A p \in (s.cut + 1)..k : ~ConsistentAt(items, p)
    BY <2>2, <2>3 DEF Knows
  <2> QED BY <2>1, <2>4, <2>5 DEF Knows
<1> QED BY <1>2, <1>3

(* One row more: what is open behind it. *)
LEMMA OpenBehind ==
  ASSUME items \in Seq(Rows), NEW k \in 1..Len(items), NEW c \in CallIds
  PROVE  OpenAt(items, k, c) <=>
           Makes(items[k], c) \/ (OpenAt(items, k - 1, c) /\ ~Answers(items[k], c))
<1>1. ASSUME NEW i \in 1..(k - 1), Makes(items[i], c), ~Answers(items[k], c),
             \A j \in (i + 1)..(k - 1) : ~Answers(items[j], c)
      PROVE  OpenAt(items, k, c)
  <2>1. i \in 1..k /\ \A j \in (i + 1)..k : j \in (i + 1)..(k - 1) \/ j = k
    OBVIOUS
  <2> QED BY <1>1, <2>1 DEF OpenAt
<1>2. ASSUME Makes(items[k], c)
      PROVE  OpenAt(items, k, c)
  <2>1. k \in 1..k /\ (k + 1)..k = {}
    OBVIOUS
  <2> QED BY <1>2, <2>1 DEF OpenAt
<1>3. ASSUME OpenAt(items, k, c), ~Makes(items[k], c)
      PROVE  OpenAt(items, k - 1, c) /\ ~Answers(items[k], c)
  <2>1. PICK i \in 1..k : Makes(items[i], c) /\ \A j \in (i + 1)..k : ~Answers(items[j], c)
    BY <1>3 DEF OpenAt
  <2>2. i \in 1..(k - 1) /\ k \in (i + 1)..k /\ \A j \in (i + 1)..(k - 1) : j \in (i + 1)..k
    BY <1>3, <2>1
  <2> QED BY <2>1, <2>2 DEF OpenAt
<1> QED BY <1>1, <1>2, <1>3 DEF OpenAt

LEMMA RowKnows ==
  ASSUME items \in Seq(Rows), NEW floor \in Nat, NEW k \in 1..Len(items), NEW s,
         Knows(s, k - 1, floor, k - 1)
  PROVE  Knows(ScanRow(s, items[k]), k, floor, k - 1)
<1> DEFINE row == items[k]
           r == ScanRow(s, row)
           known == {c \in CallIds : OpenAt(items, k, c)}
<1>1. row \in Rows
  OBVIOUS
<1>2. /\ s \in [open : SUBSET CallIds, orphan : BOOLEAN, cut : Int]
      /\ s.open = {c \in CallIds : OpenAt(items, k - 1, c)}
      /\ s.orphan <=> \E j \in 1..(k - 1) : OrphanAt(items, j)
  BY DEF Knows
<1>3. (\E j \in 1..k : OrphanAt(items, j)) <=> s.orphan \/ OrphanAt(items, k)
  <2>1. \A j : j \in 1..k <=> j \in 1..(k - 1) \/ j = k
    OBVIOUS
  <2> QED BY <1>2, <2>1
<1>4. known = {c \in CallIds : Makes(row, c) \/ (c \in s.open /\ ~Answers(row, c))}
  BY <1>2, OpenBehind
<1>5. OrphanAt(items, k) <=> ~row.compacted /\ row.role = "tool" /\ row.answers \notin s.open
  <2>1. row.answers \in CallIds \/ row.answers \notin CallIds
    OBVIOUS
  <2> QED BY <1>2 DEF OrphanAt
<1>6. /\ r \in [open : SUBSET CallIds, orphan : BOOLEAN, cut : Int]
      /\ r.open = known /\ r.cut = s.cut
      /\ r.orphan <=> s.orphan \/ OrphanAt(items, k)
  <2> HIDE DEF row, known
  <2>1. CASE row.compacted
    BY <1>2, <1>4, <1>5, <2>1 DEF ScanRow, Makes, Answers
  <2>2. CASE ~row.compacted /\ IsCallRow(row)
    <3>1. row.role # "tool" /\ row.calls \subseteq CallIds
      BY <1>1, <2>2 DEF IsCallRow, Rows
    <3>2. r = [s EXCEPT !.open = @ \cup row.calls]
      BY <2>2 DEF ScanRow
    <3>3. known = s.open \cup row.calls
      BY <1>2, <1>4, <2>2, <3>1 DEF Makes, Answers
    <3> QED BY <1>2, <1>5, <3>1, <3>2, <3>3
  <2>3. CASE ~row.compacted /\ ~IsCallRow(row) /\ row.role # "tool"
    BY <1>2, <1>4, <1>5, <2>3 DEF ScanRow, Makes, Answers
  <2>4. CASE ~row.compacted /\ row.role = "tool" /\ row.answers \in s.open
    <3>1. ~IsCallRow(row)
      BY <2>4 DEF IsCallRow
    <3>2. r = [s EXCEPT !.open = @ \ {row.answers}]
      BY <2>4, <3>1 DEF ScanRow
    <3>3. known = s.open \ {row.answers}
      BY <1>2, <1>4, <2>4, <3>1 DEF Makes, Answers
    <3> QED BY <1>2, <1>5, <2>4, <3>2, <3>3
  <2>5. CASE ~row.compacted /\ row.role = "tool" /\ row.answers \notin s.open
    <3>1. ~IsCallRow(row)
      BY <2>5 DEF IsCallRow
    <3>2. r = [s EXCEPT !.orphan = TRUE]
      BY <2>5, <3>1 DEF ScanRow
    <3>3. known = s.open
      BY <1>2, <1>4, <2>5, <3>1 DEF Makes, Answers
    <3> QED BY <1>2, <1>5, <2>5, <3>2, <3>3
  <2> QED BY <2>1, <2>2, <2>3, <2>4, <2>5 DEF IsCallRow
<1> HIDE DEF r, row
<1>7. Knows(r, k, floor, k - 1)
  BY <1>3, <1>6 DEF Knows
<1> QED BY <1>7 DEF r, row

LEMMA ScanKnows ==
  ASSUME items \in Seq(Rows), NEW floor \in Nat
  PROVE  \A k \in 0..Len(items) : Knows(Scan(floor)[k], k, floor, k - 1)
<1> DEFINE Known == {k \in Nat : k <= Len(items) => Knows(Scan(floor)[k], k, floor, k - 1)}
<1>1. 0 \in Known
  <2>1. \A c \in CallIds : ~OpenAt(items, 0, c)
    BY DEF OpenAt
  <2>2. Scan(floor)[0] = ScanStart
    BY ScanGoesOn
  <2>3. floor..(0 - 1) = {} /\ 1..0 = {}
    OBVIOUS
  <2>4. /\ ScanStart \in [open : SUBSET CallIds, orphan : BOOLEAN, cut : Int]
        /\ ScanStart.open = {} /\ ScanStart.orphan = FALSE /\ ScanStart.cut = -1
    BY DEF ScanStart
  <2>5. Knows(ScanStart, 0, floor, 0 - 1)
    BY <2>1, <2>3, <2>4 DEF Knows
  <2> QED BY <2>2, <2>5
<1>2. ASSUME NEW k \in Nat, k \in Known
      PROVE  k + 1 \in Known
  <2> SUFFICES ASSUME k + 1 <= Len(items)
               PROVE  Knows(Scan(floor)[k + 1], k + 1, floor, k)
    OBVIOUS
  <2>1. k + 1 \in 1..Len(items) /\ k + 1 - 1 = k
    OBVIOUS
  <2>2. Knows(Scan(floor)[k], k, floor, k - 1)
    BY <1>2
  <2>3. Knows(MarkCut(Scan(floor)[k], k, floor), k, floor, k)
    BY <2>2, MarkKnows
  <2>4. Scan(floor)[k + 1] = ScanRow(MarkCut(Scan(floor)[k], k, floor), items[k + 1])
    BY <2>1, ScanGoesOn
  <2> QED BY <2>1, <2>3, <2>4, RowKnows
<1> HIDE DEF Known
<1>3. \A k \in Nat : k \in Known
  BY <1>1, <1>2, Counting
<1> QED BY <1>3 DEF Known

(* The trim keeps what the loop's cut keeps. *)
LEMMA CutsAgree ==
  ASSUME items \in Seq(Rows), NEW floor \in 0..Len(items)
  PROVE  KeptLength(items, floor) = ScannedCut(floor)
<1> DEFINE n == Len(items)
           end == MarkCut(Scan(floor)[n], n, floor)
           cuts == {p \in floor..n : ConsistentAt(items, p)}
<1>1. n \in Nat /\ floor \in Nat /\ n \in 0..n
  OBVIOUS
<1>2. Knows(end, n, floor, n)
  BY <1>1, ScanKnows, MarkKnows
<1>3. ScannedCut(floor) = IF end.cut = -1 THEN n ELSE end.cut
  BY DEF ScannedCut
<1>4. KeptLength(items, floor) = IF cuts = {} THEN n
                                 ELSE CHOOSE p \in cuts : \A q \in cuts : q <= p
  BY DEF KeptLength
<1> HIDE DEF end, n
<1>5. CASE end.cut = -1
  BY <1>2, <1>3, <1>4, <1>5 DEF Knows
<1>6. CASE end.cut # -1
  <2>1. end.cut \in cuts /\ cuts \subseteq Int
    BY <1>2, <1>6 DEF Knows
  <2>2. \A q \in cuts : q <= end.cut
    <3> SUFFICES ASSUME NEW q \in cuts, q > end.cut PROVE FALSE
      BY <2>1
    <3>1. q \in (end.cut + 1)..n
      BY <2>1, <1>1
    <3> QED BY <1>2, <1>6, <3>1 DEF Knows
  <2> DEFINE cut == end.cut
  <2> HIDE DEF cuts, cut
  <2>3. \A p \in cuts : (\A q \in cuts : q <= p) => p = cut
    <3>1. cut \in cuts /\ \A p \in cuts : p <= cut /\ p \in Int
      BY <2>1, <2>2 DEF cut
    <3> QED BY <3>1
  <2>4. (CHOOSE p \in cuts : \A q \in cuts : q <= p) = end.cut
    BY <2>1, <2>2, <2>3 DEF cut
  <2> QED BY <1>3, <1>4, <1>6, <2>1, <2>4
<1> QED BY <1>5, <1>6

-----------------------------------------------------------------------------
(* The loop of the grouping.                                               *)

LEMMA GroupingGoesOn ==
  ASSUME items \in Seq(Rows)
  PROVE  /\ Grouping[0] = NoGroups
         /\ \A k \in 1..Len(items) : Grouping[k] = GroupRow(Grouping[k - 1], k)
<1> DEFINE Behind(f, m) ==
             f = [k \in 0..m |-> IF k = 0 THEN NoGroups ELSE GroupRow(f[k - 1], k)]
           Reached == {m \in Nat : \E f : Behind(f, m)}
<1>1. 0 \in Reached
  <2>1. Behind([k \in 0..0 |-> NoGroups], 0)
    OBVIOUS
  <2> QED BY <2>1
<1>2. ASSUME NEW m \in Nat, m \in Reached
      PROVE  m + 1 \in Reached
  <2>1. PICK f : Behind(f, m)
    BY <1>2
  <2> DEFINE g == [k \in 0..(m + 1) |-> IF k = 0 THEN NoGroups ELSE GroupRow(f[k - 1], k)]
  <2>2. \A k \in 0..m : g[k] = f[k]
    BY <2>1
  <2>3. \A k \in 0..(m + 1) : k # 0 => k - 1 \in 0..m
    OBVIOUS
  <2>4. Behind(g, m + 1)
    BY <2>2, <2>3
  <2> HIDE DEF g, Behind
  <2>5. \E h : Behind(h, m + 1)
    BY <2>4
  <2> QED BY <2>5
<1>3. Len(items) \in Reached
  <2> HIDE DEF Reached
  <2> QED BY <1>1, <1>2, Counting
<1>4. Behind(Grouping, Len(items))
  BY <1>3 DEF Grouping
<1> QED BY <1>4

(* The last row up to k that the grouping looks at makes calls. *)
LastIsCall(k) ==
  \E j \in Grouped(items) : /\ j <= k /\ IsCallRow(items[j])
                            /\ \A i \in (j + 1)..k : i \notin Grouped(items)

LEMMA StartsAfter ==
  ASSUME NEW k \in 1..Len(items)
  PROVE  StartsBlock(items, k) <=> k \in Grouped(items) /\ IsCallRow(items[k]) /\ ~LastIsCall(k - 1)
<1>1. \A j \in Grouped(items) : j < k <=> j <= k - 1
  BY DEF Grouped
<1> QED BY <1>1 DEF StartsBlock, LastIsCall

LEMMA LastBehind ==
  ASSUME NEW k \in 1..Len(items)
  PROVE  LastIsCall(k) <=> IF k \in Grouped(items) THEN IsCallRow(items[k]) ELSE LastIsCall(k - 1)
<1>1. Grouped(items) \subseteq Int
  BY DEF Grouped
<1>2. CASE k \in Grouped(items)
  <2>1. ASSUME IsCallRow(items[k])
        PROVE  LastIsCall(k)
    <3>1. k <= k /\ (k + 1)..k = {}
      OBVIOUS
    <3> QED BY <1>2, <2>1, <3>1 DEF LastIsCall
  <2>2. ASSUME LastIsCall(k)
        PROVE  IsCallRow(items[k])
    <3>1. PICK j \in Grouped(items) : /\ j <= k /\ IsCallRow(items[j])
                                      /\ \A i \in (j + 1)..k : i \notin Grouped(items)
      BY <2>2 DEF LastIsCall
    <3>2. j = k
      BY <1>1, <1>2, <3>1
    <3> QED BY <3>1, <3>2
  <2> QED BY <1>2, <2>1, <2>2
<1>3. CASE k \notin Grouped(items)
  <2>1. \A j \in Grouped(items) :
          /\ j <= k <=> j <= k - 1
          /\ (\A i \in (j + 1)..k : i \notin Grouped(items))
               <=> \A i \in (j + 1)..(k - 1) : i \notin Grouped(items)
    BY <1>1, <1>3
  <2> QED BY <1>3, <2>1 DEF LastIsCall
<1> QED BY <1>2, <1>3

(* A block ends before the row that ends it. *)
LEMMA BlockEnds ==
  ASSUME NEW s \in BlockStarts(items), NEW k \in Nat, k <= Len(items),
         \A i \in Grouped(items) \cap (s..k) : InBlock(items[i]) /\ (i > s => ~StartsBlock(items, i)),
         \/ k = Len(items)
         \/ /\ k + 1 \in Grouped(items) /\ k + 1 > s
            /\ StartsBlock(items, k + 1) \/ ~InBlock(items[k + 1])
  PROVE  Block(items, s) = Grouped(items) \cap (s..k)
<1>1. Grouped(items) \subseteq 1..Len(items) /\ s \in 1..Len(items)
  BY DEF Grouped, BlockStarts
<1>2. ASSUME NEW i \in Block(items, s)
      PROVE  i \in Grouped(items) \cap (s..k)
  <2>1. /\ i \in Grouped(items) /\ i >= s
        /\ \A j \in Grouped(items) \cap (s..i) :
             InBlock(items[j]) /\ (j > s => ~StartsBlock(items, j))
    BY DEF Block
  <2>2. i <= k
    <3> SUFFICES ASSUME i > k PROVE FALSE
      BY <1>1, <2>1
    <3>1. k # Len(items)
      BY <1>1, <2>1
    <3>2. k + 1 \in s..i
      BY <1>1, <2>1, <3>1
    <3> QED BY <2>1, <3>1, <3>2
  <2> QED BY <1>1, <2>1, <2>2
<1>3. ASSUME NEW i \in Grouped(items) \cap (s..k)
      PROVE  i \in Block(items, s)
  <2>1. i >= s /\ \A j \in s..i : j \in s..k
    BY <1>1
  <2> QED BY <2>1 DEF Block
<1> QED BY <1>2, <1>3

(* What the loop has behind k rows: the blocks that start there, in order, *)
(* the last of them perhaps still open.                                    *)
Gathers(g, k, starts) ==
  /\ g \in [groups : Seq(SUBSET Nat), current : SUBSET Nat, awaiting : BOOLEAN]
  /\ starts \in Seq(Nat)
  /\ \A i, j \in 1..Len(starts) : i < j => starts[i] < starts[j]
  /\ {s \in BlockStarts(items) : s <= k} = {starts[n] : n \in 1..Len(starts)}
  /\ Len(starts) = Len(g.groups) + (IF g.current = {} THEN 0 ELSE 1)
  /\ \A n \in 1..Len(g.groups) : g.groups[n] = Block(items, starts[n])
  /\ g.current # {} =>
       /\ g.current = Grouped(items) \cap (starts[Len(starts)]..k)
       /\ \A i \in g.current : InBlock(items[i])
  /\ (g.current # {} /\ ~g.awaiting) <=> LastIsCall(k)
  /\ g.awaiting => g.current # {}

(* The newest start so far, and the rows behind it. *)
LEMMA NewestStart ==
  ASSUME NEW g, NEW k \in Nat, NEW starts, Gathers(g, k, starts), g.current # {}
  PROVE  /\ Len(starts) \in 1..Len(starts) /\ Len(g.groups) = Len(starts) - 1
         /\ starts[Len(starts)] \in BlockStarts(items) /\ starts[Len(starts)] <= k
         /\ \A i \in Grouped(items) \cap (starts[Len(starts)]..k) :
              InBlock(items[i]) /\ (i > starts[Len(starts)] => ~StartsBlock(items, i))
<1> DEFINE m == Len(starts)
<1>1. m \in Nat /\ m = Len(g.groups) + 1 /\ Len(g.groups) \in Nat /\ starts \in Seq(Nat)
  BY DEF Gathers
<1>2. starts[m] \in {starts[n] : n \in 1..m}
  BY <1>1, SMTT(30)
<1>3. starts[m] \in BlockStarts(items) /\ starts[m] <= k
  BY <1>2 DEF Gathers
<1>4. ASSUME NEW i \in Grouped(items) \cap (starts[m]..k)
      PROVE  InBlock(items[i]) /\ (i > starts[m] => ~StartsBlock(items, i))
  <2>1. InBlock(items[i])
    <3>1. /\ g.current = Grouped(items) \cap (starts[Len(starts)]..k)
          /\ \A j \in g.current : InBlock(items[j])
      BY DEF Gathers
    <3> QED BY <3>1
  <2>2. ASSUME i > starts[m], StartsBlock(items, i)
        PROVE  FALSE
    <3>1. i \in BlockStarts(items) /\ i <= k
      BY <2>2 DEF BlockStarts, StartsBlock, Grouped
    <3>2. PICK n \in 1..m : i = starts[n]
      BY <3>1 DEF Gathers
    <3>3. n = m \/ n < m
      BY <1>1
    <3>4. n < m => starts[n] < starts[m]
      <4>1. \A a, b \in 1..m : a < b => starts[a] < starts[b]
        BY DEF Gathers
      <4> HIDE DEF m
      <4>2. m \in 1..m
        BY <1>1
      <4> QED BY <4>1, <4>2
    <3> QED BY <1>1, <2>2, <3>2, <3>3, <3>4
  <2> QED BY <2>1, <2>2
<1> QED BY <1>1, <1>3, <1>4

LEMMA GroupClosed ==
  ASSUME NEW k \in 1..Len(items), NEW g, NEW starts, Gathers(g, k - 1, starts), g.current # {},
         k \in Grouped(items), StartsBlock(items, k) \/ ~InBlock(items[k])
  PROVE  LET h == CloseGroup(g)
         IN  /\ h \in [groups : Seq(SUBSET Nat), current : SUBSET Nat, awaiting : BOOLEAN]
             /\ h.current = {} /\ h.awaiting = FALSE
             /\ Len(h.groups) = Len(starts)
             /\ \A n \in 1..Len(h.groups) : h.groups[n] = Block(items, starts[n])
<1> DEFINE h == CloseGroup(g)
           s == starts[Len(starts)]
           old == g.groups
<1>1. k - 1 \in Nat /\ k - 1 + 1 = k /\ k - 1 <= Len(items) /\ Len(items) \in Nat
  OBVIOUS
<1>2. /\ Len(starts) \in 1..Len(starts) /\ Len(old) = Len(starts) - 1
      /\ s \in BlockStarts(items) /\ s <= k - 1
      /\ \A i \in Grouped(items) \cap (s..(k - 1)) :
           InBlock(items[i]) /\ (i > s => ~StartsBlock(items, i))
  BY <1>1, NewestStart
<1>3. s \in Nat /\ k > s
  BY <1>2 DEF BlockStarts
<1> HIDE DEF s
<1>4. g.current = Block(items, s)
  <2>1. g.current = Grouped(items) \cap (s..(k - 1))
    BY DEF Gathers, s
  <2> QED BY <1>1, <1>2, <1>3, <2>1, BlockEnds
<1>5. /\ old \in Seq(SUBSET Nat) /\ g.current \in SUBSET Nat
      /\ \A n \in 1..Len(old) : old[n] = Block(items, starts[n])
  BY DEF Gathers
<1>6. h = [groups |-> Append(old, g.current), current |-> {}, awaiting |-> FALSE]
  BY DEF CloseGroup
<1> HIDE DEF h, old
<1>7. /\ Append(old, g.current) \in Seq(SUBSET Nat) /\ Len(Append(old, g.current)) = Len(starts)
      /\ \A n \in 1..Len(old) : Append(old, g.current)[n] = old[n]
      /\ Append(old, g.current)[Len(starts)] = g.current
  BY <1>2, <1>5, AppendProperties
<1>8. \A n \in 1..Len(starts) : n \in 1..Len(old) \/ n = Len(starts)
  BY <1>2, <1>5
<1>9. \A n \in 1..Len(h.groups) : h.groups[n] = Block(items, starts[n])
  BY <1>4, <1>5, <1>6, <1>7, <1>8 DEF s
<1>10. /\ h \in [groups : Seq(SUBSET Nat), current : SUBSET Nat, awaiting : BOOLEAN]
       /\ h.current = {} /\ h.awaiting = FALSE /\ Len(h.groups) = Len(starts)
  BY <1>6, <1>7
<1> QED BY <1>9, <1>10 DEF h

(* A row that starts a block, behind groups that are closed. *)
LEMMA BlockStarted ==
  ASSUME NEW k \in 1..Len(items), NEW g, NEW starts, NEW h, Gathers(g, k - 1, starts),
         StartsBlock(items, k),
         h \in [groups : Seq(SUBSET Nat), current : SUBSET Nat, awaiting : BOOLEAN],
         h.current = {}, h.awaiting = FALSE, Len(h.groups) = Len(starts),
         \A n \in 1..Len(h.groups) : h.groups[n] = Block(items, starts[n])
  PROVE  Gathers([h EXCEPT !.current = {k}], k, Append(starts, k))
<1> DEFINE r == [h EXCEPT !.current = {k}]
           more == Append(starts, k)
           m == Len(starts)
<1>1. /\ r \in [groups : Seq(SUBSET Nat), current : SUBSET Nat, awaiting : BOOLEAN]
      /\ r.groups = h.groups /\ r.current = {k} /\ r.awaiting = FALSE
  OBVIOUS
<1> HIDE DEF r
<1>2. /\ starts \in Seq(Nat) /\ m \in Nat
      /\ \A i, j \in 1..m : i < j => starts[i] < starts[j]
      /\ {s \in BlockStarts(items) : s <= k - 1} = {starts[n] : n \in 1..m}
  <2>1. /\ starts \in Seq(Nat)
        /\ \A i, j \in 1..Len(starts) : i < j => starts[i] < starts[j]
        /\ {s \in BlockStarts(items) : s <= k - 1} = {starts[n] : n \in 1..Len(starts)}
    BY DEF Gathers
  <2> QED BY <2>1
<1>3. /\ more \in Seq(Nat) /\ Len(more) = m + 1 /\ more[m + 1] = k
      /\ \A n \in 1..m : more[n] = starts[n]
  BY <1>2, AppendProperties
<1> HIDE DEF more, m
<1>4. \A n \in 1..(m + 1) : n \in 1..m \/ n = m + 1
  BY <1>2
<1>5. \A n \in 1..m : starts[n] < k
  <2> TAKE n \in 1..m
  <2>1. starts[n] \in {s \in BlockStarts(items) : s <= k - 1}
    BY <1>2
  <2>2. starts[n] \in Int /\ starts[n] <= k - 1
    BY <2>1 DEF BlockStarts
  <2> QED BY <2>2
<1>6. \A i, j \in 1..Len(more) : i < j => more[i] < more[j]
  <2> SUFFICES ASSUME NEW i \in 1..(m + 1), NEW j \in 1..(m + 1), i < j
               PROVE  more[i] < more[j]
    BY <1>3
  <2>1. i \in 1..m
    BY <1>2
  <2> QED BY <1>2, <1>3, <1>4, <1>5, <2>1
<1>7. {s \in BlockStarts(items) : s <= k} = {more[n] : n \in 1..Len(more)}
  <2>1. k \in BlockStarts(items)
    BY DEF BlockStarts
  <2>2. \A s \in BlockStarts(items) : s <= k <=> s <= k - 1 \/ s = k
    BY DEF BlockStarts
  <2>3. {more[n] : n \in 1..(m + 1)} = {starts[n] : n \in 1..m} \cup {k}
    <3>1. m + 1 \in 1..(m + 1) /\ \A n \in 1..m : n \in 1..(m + 1)
      BY <1>2
    <3>2. \A n \in 1..(m + 1) : more[n] \in {starts[i] : i \in 1..m} \cup {k}
      BY <1>3, <1>4
    <3>3. \A n \in 1..m : starts[n] \in {more[i] : i \in 1..(m + 1)}
      BY <1>3, <3>1
    <3>4. k \in {more[i] : i \in 1..(m + 1)}
      BY <1>3, <3>1
    <3> QED BY <3>2, <3>3, <3>4, SMTT(30)
  <2> QED BY <1>2, <1>3, <2>1, <2>2, <2>3
<1>8. k \in Grouped(items) /\ IsCallRow(items[k])
  BY DEF StartsBlock
<1>9. InBlock(items[k]) /\ {k} = Grouped(items) \cap (k..k)
  BY <1>8 DEF InBlock
<1>10. LastIsCall(k)
  BY <1>8, LastBehind
<1>11. Len(more) = Len(r.groups) + (IF r.current = {} THEN 0 ELSE 1)
  BY <1>1, <1>3 DEF m
<1>12. \A n \in 1..Len(r.groups) : r.groups[n] = Block(items, more[n])
  BY <1>1, <1>3 DEF m
<1>13. Gathers(r, k, more)
  BY <1>1, <1>3, <1>6, <1>7, <1>9, <1>10, <1>11, <1>12 DEF Gathers
<1> QED BY <1>13 DEF r, more

(* A row that starts no block leaves the starts as they are. *)
LEMMA NoNewStart ==
  ASSUME NEW k \in 1..Len(items), ~StartsBlock(items, k)
  PROVE  {s \in BlockStarts(items) : s <= k} = {s \in BlockStarts(items) : s <= k - 1}
<1>1. \A s \in BlockStarts(items) : s <= k <=> s <= k - 1
  BY DEF BlockStarts
<1> QED BY <1>1

(* A row of the open block. *)
LEMMA BlockGrows ==
  ASSUME NEW k \in 1..Len(items), NEW g, NEW starts, NEW h, Gathers(g, k - 1, starts),
         g.current # {}, k \in Grouped(items), InBlock(items[k]), ~StartsBlock(items, k),
         h \in [groups : Seq(SUBSET Nat), current : SUBSET Nat, awaiting : BOOLEAN],
         h.groups = g.groups, h.current = g.current \cup {k}, h.awaiting <=> ~IsCallRow(items[k])
  PROVE  Gathers(h, k, starts)
<1> DEFINE s == starts[Len(starts)]
<1>1. s \in Nat /\ s <= k - 1
  <2>1. k - 1 \in Nat
    OBVIOUS
  <2> QED BY <2>1, NewestStart DEF BlockStarts
<1> HIDE DEF s
<1>2. g.current = Grouped(items) \cap (s..(k - 1)) /\ \A i \in g.current : InBlock(items[i])
  BY DEF Gathers, s
<1>3. \A i : i \in s..k <=> i \in s..(k - 1) \/ i = k
  BY <1>1
<1>4. h.current = Grouped(items) \cap (s..k)
  BY <1>2, <1>3
<1>5. LastIsCall(k) <=> IsCallRow(items[k])
  BY LastBehind
<1>6. \A i \in h.current : InBlock(items[i])
  BY <1>2
<1>7. Len(starts) = Len(h.groups) + (IF h.current = {} THEN 0 ELSE 1)
  BY DEF Gathers
<1>8. h.current # {}
  OBVIOUS
<1> QED BY <1>4, <1>5, <1>6, <1>7, <1>8, NoNewStart DEF Gathers, s

LEMMA RowGathers ==
  ASSUME items \in Seq(Rows), NEW k \in 1..Len(items), NEW g, NEW starts,
         Gathers(g, k - 1, starts)
  PROVE  \E more : Gathers(GroupRow(g, k), k, more)
<1> DEFINE row == items[k]
<1>1. g \in [groups : Seq(SUBSET Nat), current : SUBSET Nat, awaiting : BOOLEAN]
  BY DEF Gathers
<1>2. /\ (g.current # {} /\ ~g.awaiting) <=> LastIsCall(k - 1)
      /\ g.awaiting => g.current # {}
  BY DEF Gathers
<1>3. k \in Grouped(items) <=> ~row.compacted /\ row.role # "system"
  BY DEF Grouped
<1>4. CASE k \notin Grouped(items)
  <2>1. GroupRow(g, k) = g
    BY <1>3, <1>4 DEF GroupRow
  <2>2. ~StartsBlock(items, k) /\ (LastIsCall(k) <=> LastIsCall(k - 1))
    BY <1>4, LastBehind DEF StartsBlock
  <2>3. \A s : Grouped(items) \cap (s..k) = Grouped(items) \cap (s..(k - 1))
    BY <1>4 DEF Grouped
  <2>4. Gathers(g, k, starts)
    BY <2>2, <2>3, NoNewStart DEF Gathers
  <2> QED BY <2>1, <2>4
<1>5. CASE k \in Grouped(items) /\ StartsBlock(items, k) /\ g.awaiting
  <2>1. IsCallRow(row)
    BY <1>5 DEF StartsBlock
  <2>2. GroupRow(g, k) = [CloseGroup(g) EXCEPT !.current = @ \cup {k}]
    BY <1>3, <1>5, <2>1 DEF GroupRow
  <2> DEFINE h == CloseGroup(g)
  <2>3. /\ h \in [groups : Seq(SUBSET Nat), current : SUBSET Nat, awaiting : BOOLEAN]
        /\ h.current = {} /\ h.awaiting = FALSE /\ Len(h.groups) = Len(starts)
        /\ \A n \in 1..Len(h.groups) : h.groups[n] = Block(items, starts[n])
    <3>1. /\ g.current # {} /\ k \in Grouped(items)
          /\ StartsBlock(items, k) \/ ~InBlock(items[k])
      BY <1>2, <1>5
    <3> HIDE DEF row, h
    <3>2. /\ CloseGroup(g) \in [groups : Seq(SUBSET Nat), current : SUBSET Nat, awaiting : BOOLEAN]
          /\ CloseGroup(g).current = {} /\ CloseGroup(g).awaiting = FALSE
          /\ Len(CloseGroup(g).groups) = Len(starts)
          /\ \A n \in 1..Len(CloseGroup(g).groups) :
               CloseGroup(g).groups[n] = Block(items, starts[n])
      BY <3>1, GroupClosed, ZenonT(40)
    <3> QED BY <3>2 DEF h
  <2> HIDE DEF h
  <2>4. GroupRow(g, k) = [h EXCEPT !.current = {k}]
    BY <2>2, <2>3 DEF h
  <2>5. Gathers([h EXCEPT !.current = {k}], k, Append(starts, k))
    BY <1>5, <2>3, BlockStarted
  <2> QED BY <2>4, <2>5
<1>6. CASE k \in Grouped(items) /\ StartsBlock(items, k) /\ ~g.awaiting
  <2>1. IsCallRow(row) /\ g.current = {}
    BY <1>2, <1>6, StartsAfter DEF StartsBlock
  <2>2. GroupRow(g, k) = [g EXCEPT !.current = {k}]
    BY <1>3, <1>6, <2>1 DEF GroupRow
  <2>3. g.awaiting = FALSE /\ Len(g.groups) = Len(starts)
        /\ \A n \in 1..Len(g.groups) : g.groups[n] = Block(items, starts[n])
    BY <1>1, <1>6, <2>1 DEF Gathers
  <2>4. Gathers([g EXCEPT !.current = {k}], k, Append(starts, k))
    BY <1>1, <1>6, <2>1, <2>3, BlockStarted
  <2> QED BY <2>2, <2>4
<1>7. CASE k \in Grouped(items) /\ IsCallRow(row) /\ ~StartsBlock(items, k)
  <2>1. g.current # {} /\ ~g.awaiting
    BY <1>2, <1>7, StartsAfter
  <2> DEFINE h == [g EXCEPT !.current = @ \cup {k}]
  <2>2. GroupRow(g, k) = h
    BY <1>3, <1>7, <2>1 DEF GroupRow
  <2>3. /\ h \in [groups : Seq(SUBSET Nat), current : SUBSET Nat, awaiting : BOOLEAN]
        /\ h.groups = g.groups /\ h.current = g.current \cup {k} /\ ~h.awaiting
    BY <1>1, <2>1
  <2> HIDE DEF h
  <2>4. Gathers(h, k, starts)
    BY <1>7, <2>1, <2>3, BlockGrows DEF InBlock
  <2> QED BY <2>2, <2>4
<1>8. CASE k \in Grouped(items) /\ ~IsCallRow(row) /\ InBlock(row) /\ g.current # {}
  <2> DEFINE h == [g EXCEPT !.current = @ \cup {k}, !.awaiting = TRUE]
  <2>1. GroupRow(g, k) = h
    BY <1>3, <1>8 DEF GroupRow
  <2>2. /\ h \in [groups : Seq(SUBSET Nat), current : SUBSET Nat, awaiting : BOOLEAN]
        /\ h.groups = g.groups /\ h.current = g.current \cup {k} /\ h.awaiting
    <3>1. g.current \in SUBSET Nat /\ g.current \cup {k} \in SUBSET Nat
      BY <1>1
    <3> QED BY <1>1, <3>1
  <2> HIDE DEF h
  <2>3. ~StartsBlock(items, k)
    BY <1>8 DEF StartsBlock
  <2>4. Gathers(h, k, starts)
    BY <1>8, <2>2, <2>3, BlockGrows
  <2> QED BY <2>1, <2>4
<1>9. CASE k \in Grouped(items) /\ ~IsCallRow(row) /\ g.current = {}
  <2>1. GroupRow(g, k) = g
    BY <1>3, <1>9 DEF GroupRow
  <2>2. ~StartsBlock(items, k) /\ ~LastIsCall(k)
    BY <1>9, LastBehind DEF StartsBlock
  <2>3. Gathers(g, k, starts)
    BY <1>9, <2>2, NoNewStart DEF Gathers
  <2> QED BY <2>1, <2>3
<1>10. CASE k \in Grouped(items) /\ ~IsCallRow(row) /\ ~InBlock(row) /\ g.current # {}
  <2> DEFINE h == CloseGroup(g)
  <2>1. GroupRow(g, k) = h
    BY <1>3, <1>10 DEF GroupRow
  <2>2. /\ h \in [groups : Seq(SUBSET Nat), current : SUBSET Nat, awaiting : BOOLEAN]
        /\ h.current = {} /\ h.awaiting = FALSE /\ Len(h.groups) = Len(starts)
        /\ \A n \in 1..Len(h.groups) : h.groups[n] = Block(items, starts[n])
    <3>1. /\ g.current # {} /\ k \in Grouped(items)
          /\ StartsBlock(items, k) \/ ~InBlock(items[k])
      BY <1>10
    <3> HIDE DEF row, h
    <3>2. /\ CloseGroup(g) \in [groups : Seq(SUBSET Nat), current : SUBSET Nat, awaiting : BOOLEAN]
          /\ CloseGroup(g).current = {} /\ CloseGroup(g).awaiting = FALSE
          /\ Len(CloseGroup(g).groups) = Len(starts)
          /\ \A n \in 1..Len(CloseGroup(g).groups) :
               CloseGroup(g).groups[n] = Block(items, starts[n])
      BY <3>1, GroupClosed, ZenonT(40)
    <3> QED BY <3>2 DEF h
  <2> HIDE DEF h
  <2>3. ~StartsBlock(items, k) /\ ~LastIsCall(k)
    BY <1>10, LastBehind DEF StartsBlock
  <2>4. Len(starts) = Len(h.groups) + (IF h.current = {} THEN 0 ELSE 1)
    <3>1. Len(starts) \in Nat
      BY DEF Gathers
    <3> QED BY <2>2, <3>1
  <2>5. Gathers(h, k, starts)
    BY <2>2, <2>3, <2>4, NoNewStart DEF Gathers
  <2> QED BY <2>1, <2>5
<1> QED BY <1>4, <1>5, <1>6, <1>7, <1>8, <1>9, <1>10 DEF StartsBlock

LEMMA GroupingGathers ==
  ASSUME items \in Seq(Rows)
  PROVE  \E starts : Gathers(Grouping[Len(items)], Len(items), starts)
<1> DEFINE Gathered == {k \in Nat : k <= Len(items) => \E starts : Gathers(Grouping[k], k, starts)}
<1>1. 0 \in Gathered
  <2>1. Grouping[0] = NoGroups
    BY GroupingGoesOn
  <2>2. /\ NoGroups \in [groups : Seq(SUBSET Nat), current : SUBSET Nat, awaiting : BOOLEAN]
        /\ NoGroups.groups = <<>> /\ NoGroups.current = {} /\ NoGroups.awaiting = FALSE
    BY DEF NoGroups
  <2>3. ~LastIsCall(0) /\ \A s \in BlockStarts(items) : ~(s <= 0)
    BY DEF LastIsCall, Grouped, BlockStarts
  <2>4. <<>> \in Seq(Nat) /\ Len(<<>>) = 0 /\ 1..0 = {} /\ {<<>>[n] : n \in 1..0} = {}
    OBVIOUS
  <2>5. Gathers(NoGroups, 0, <<>>)
    BY <2>2, <2>3, <2>4 DEF Gathers
  <2> QED BY <2>1, <2>5
<1>2. ASSUME NEW k \in Nat, k \in Gathered
      PROVE  k + 1 \in Gathered
  <2> SUFFICES ASSUME k + 1 <= Len(items)
               PROVE  \E starts : Gathers(Grouping[k + 1], k + 1, starts)
    OBVIOUS
  <2>1. k + 1 \in 1..Len(items) /\ k + 1 - 1 = k
    OBVIOUS
  <2>2. PICK starts : Gathers(Grouping[k], k, starts)
    BY <1>2
  <2>3. Grouping[k + 1] = GroupRow(Grouping[k], k + 1)
    BY <2>1, GroupingGoesOn
  <2> QED BY <2>1, <2>2, <2>3, RowGathers
<1> HIDE DEF Gathered
<1>3. \A k \in Nat : k \in Gathered
  BY <1>1, <1>2, Counting
<1> QED BY <1>3 DEF Gathered

(* Behind the last row, with the open group closed: the groups are the     *)
(* blocks, from the oldest start to the newest.                            *)
LEMMA GroupsAreBlocks ==
  ASSUME items \in Seq(Rows)
  PROVE  \E starts \in Seq(Nat) :
           /\ \A i, j \in 1..Len(starts) : i < j => starts[i] < starts[j]
           /\ BlockStarts(items) = {starts[n] : n \in 1..Len(starts)}
           /\ ScannedGroups \in Seq(SUBSET Nat) /\ Len(ScannedGroups) = Len(starts)
           /\ \A n \in 1..Len(starts) : ScannedGroups[n] = Block(items, starts[n])
<1> DEFINE end == Grouping[Len(items)]
           all == Len(items)
<1>1. all \in Nat /\ all <= Len(items) /\ all = Len(items)
  OBVIOUS
<1>2. PICK starts : Gathers(end, all, starts)
  BY GroupingGathers
<1>3. ScannedGroups = IF end.current = {} THEN end.groups ELSE Append(end.groups, end.current)
  BY DEF ScannedGroups
<1> HIDE DEF end, all
<1>4. /\ starts \in Seq(Nat) /\ end.groups \in Seq(SUBSET Nat) /\ end.current \in SUBSET Nat
      /\ \A i, j \in 1..Len(starts) : i < j => starts[i] < starts[j]
      /\ {s \in BlockStarts(items) : s <= all} = {starts[n] : n \in 1..Len(starts)}
      /\ Len(starts) = Len(end.groups) + (IF end.current = {} THEN 0 ELSE 1)
      /\ \A n \in 1..Len(end.groups) : end.groups[n] = Block(items, starts[n])
  BY <1>2 DEF Gathers
<1>5. BlockStarts(items) = {s \in BlockStarts(items) : s <= all}
  BY <1>1 DEF BlockStarts
<1>6. CASE end.current = {}
  <2>1. Len(end.groups) = Len(starts)
    BY <1>4, <1>6
  <2> QED BY <1>3, <1>4, <1>5, <1>6, <2>1
<1>7. CASE end.current # {}
  <2> DEFINE s == starts[Len(starts)]
             old == end.groups
             more == Append(old, end.current)
  <2>1. /\ Len(starts) \in 1..Len(starts) /\ Len(old) = Len(starts) - 1
        /\ s \in BlockStarts(items) /\ s <= all
        /\ \A i \in Grouped(items) \cap (s..all) :
             InBlock(items[i]) /\ (i > s => ~StartsBlock(items, i))
    BY <1>1, <1>2, <1>7, NewestStart
  <2>2. end.current = Grouped(items) \cap (s..all)
    BY <1>2, <1>7 DEF Gathers
  <2>3. Block(items, s) = end.current
    <3> HIDE DEF s
    <3> QED BY <1>1, <2>1, <2>2, BlockEnds
  <2>4. /\ more \in Seq(SUBSET Nat) /\ Len(more) = Len(starts)
        /\ \A n \in 1..Len(old) : more[n] = old[n]
        /\ more[Len(starts)] = end.current
    <3>1. old \in Seq(SUBSET Nat) /\ end.current \in SUBSET Nat
      BY <1>4
    <3>2. Len(old) + 1 = Len(starts)
      <4> HIDE DEF old
      <4> QED BY <2>1
    <3> HIDE DEF old
    <3> QED BY <3>1, <3>2, AppendProperties
  <2>5. \A n \in 1..Len(starts) : n \in 1..Len(old) \/ n = Len(starts)
    BY <2>1
  <2>6. \A n \in 1..Len(starts) : more[n] = Block(items, starts[n])
    BY <1>4, <2>3, <2>4, <2>5
  <2>7. ScannedGroups = more
    BY <1>3, <1>7
  <2> HIDE DEF more
  <2> QED BY <1>4, <1>5, <2>4, <2>6, <2>7
<1> QED BY <1>6, <1>7

(* Blocks lie one behind the other: the next start ends a block. *)
LEMMA BlocksInOrder ==
  ASSUME NEW s \in BlockStarts(items), NEW t \in BlockStarts(items), s < t,
         NEW a \in Block(items, s), NEW b \in Block(items, t)
  PROVE  a < b
<1>1. s \in Nat /\ t \in Nat /\ t \in Grouped(items) /\ StartsBlock(items, t)
  BY DEF BlockStarts, StartsBlock
<1>2. /\ a \in Nat /\ a >= s
      /\ \A j \in Grouped(items) \cap (s..a) : j > s => ~StartsBlock(items, j)
  BY DEF Block, Grouped
<1>3. b \in Nat /\ b >= t
  BY DEF Block, Grouped
<1>4. ~(t <= a)
  BY <1>1, <1>2
<1> QED BY <1>1, <1>2, <1>3, <1>4

(* As many starts as there are places in their sequence. *)
LEMMA StartsCounted ==
  ASSUME NEW starts \in Seq(Nat),
         \A i, j \in 1..Len(starts) : i < j => starts[i] < starts[j]
  PROVE  Cardinality({starts[n] : n \in 1..Len(starts)}) = Len(starts)
<1> DEFINE all == {starts[n] : n \in 1..Len(starts)}
           m == Len(starts)
<1>1. m \in Nat /\ \A n \in 1..m : starts[n] \in all
  OBVIOUS
<1>2. \A i, j \in 1..m : starts[i] = starts[j] => i = j
  <2> SUFFICES ASSUME NEW i \in 1..m, NEW j \in 1..m, starts[i] = starts[j], i # j
               PROVE  FALSE
    OBVIOUS
  <2>1. starts[i] \in Nat /\ starts[j] \in Nat
    OBVIOUS
  <2>2. i < j \/ j < i
    OBVIOUS
  <2> QED BY <2>1, <2>2
<1> DEFINE f == [n \in 1..m |-> starts[n]]
<1>3. \A t \in all : \E n \in 1..m : f[n] = t
  OBVIOUS
<1>4. f \in [1..m -> all] /\ \A i, j \in 1..m : f[i] = f[j] => i = j
  BY <1>1, <1>2
<1> HIDE DEF f, all, m
<1>5. f \in Bijection(1..m, all)
  BY <1>3, <1>4 DEF Bijection, Injection, Surjection, IsInjective
<1>6. ExistsBijection(1..m, all)
  BY <1>5 DEF ExistsBijection
<1>7. Cardinality(all) = m
  BY <1>1, <1>6, FS_CountingElements
<1> QED BY <1>7 DEF all, m

LEMMA GroupsAgree ==
  ASSUME items \in Seq(Rows)
  PROVE  /\ {Block(items, s) : s \in BlockStarts(items)} = Range(ScannedGroups)
         /\ \A i, j \in 1..Len(ScannedGroups) :
              i < j => \A a \in ScannedGroups[i], b \in ScannedGroups[j] : a < b
         /\ Cardinality(BlockStarts(items)) = Len(ScannedGroups)
<1> DEFINE groups == ScannedGroups
<1>1. PICK starts \in Seq(Nat) :
        /\ \A i, j \in 1..Len(starts) : i < j => starts[i] < starts[j]
        /\ BlockStarts(items) = {starts[n] : n \in 1..Len(starts)}
        /\ groups \in Seq(SUBSET Nat) /\ Len(groups) = Len(starts)
        /\ \A n \in 1..Len(starts) : groups[n] = Block(items, starts[n])
  BY GroupsAreBlocks
<1> HIDE DEF groups
<1>2. Range(groups) = {groups[n] : n \in 1..Len(starts)}
  BY <1>1 DEF Range
<1>3. {Block(items, s) : s \in BlockStarts(items)} = Range(groups)
  BY <1>1, <1>2, SMTT(30)
<1>4. ASSUME NEW i \in 1..Len(groups), NEW j \in 1..Len(groups), i < j,
             NEW a \in groups[i], NEW b \in groups[j]
      PROVE  a < b
  <2>1. starts[i] \in BlockStarts(items) /\ starts[j] \in BlockStarts(items) /\ starts[i] < starts[j]
    BY <1>1, <1>4
  <2>2. a \in Block(items, starts[i]) /\ b \in Block(items, starts[j])
    BY <1>1, <1>4
  <2> QED BY <2>1, <2>2, BlocksInOrder
<1>5. Cardinality(BlockStarts(items)) = Len(groups)
  BY <1>1, StartsCounted
<1> QED BY <1>3, <1>4, <1>5 DEF groups

-----------------------------------------------------------------------------
LEMMA RowsTyped == Spec => [](items \in Seq(Rows))
<1>1. Init => items \in Seq(Rows)
  BY DEF Init
<1>2. items \in Seq(Rows) /\ [Next]_items => (items \in Seq(Rows))'
  <2>1. LiveRows \cup Summaries \subseteq Rows
    <3>1. \A who \in Roles : TextRow(who) \in Rows
      BY DEF TextRow, Rows
    <3>2. \A c \in CallIds \cup {NoCall} : ResultRow(c) \in Rows
      BY DEF ResultRow, Rows, Roles
    <3>3. \A cs \in SUBSET CallIds : CallRow(cs) \in Rows
      BY DEF CallRow, Rows, Roles
    <3>4. \A row \in Rows : [row EXCEPT !.compacted = TRUE] \in Rows
      BY DEF Rows
    <3> QED BY <3>1, <3>2, <3>3, <3>4 DEF LiveRows, Summaries
  <2> QED BY <2>1 DEF Next, Extend
<1> QED BY <1>1, <1>2, PTL DEF Spec

(* The loop that trims keeps the rows that the runner's closed form keeps, *)
(* for every floor, and the loop that groups finds the runner's blocks, in *)
(* order and none twice (_consistent_prefix_length, _build_tool_groups).   *)
THEOREM LoopsComputeWhatTheyMean == Spec => []ScansAgree
<1>1. items \in Seq(Rows) => ScansAgree
  BY CutsAgree, GroupsAgree DEF ScansAgree
<1> QED BY <1>1, RowsTyped, PTL

(* Replacing any unit of a valid history of turns by summaries leaves an   *)
(* array that the provider accepts (_build_tool_groups, _render_item):     *)
(* for histories of any length and any cutoffs.                            *)
THEOREM UnitsRenderValid == Spec => []UnitCompactionRendersValid
<1>1. items \in Seq(Rows) => UnitCompactionRendersValid
  BY CompactionRendersValid DEF UnitCompactionRendersValid
<1> QED BY <1>1, RowsTyped, PTL
=============================================================================
