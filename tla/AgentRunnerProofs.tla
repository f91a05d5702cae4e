-------------------------- MODULE AgentRunnerProofs --------------------------
(***************************************************************************)
(* Proofs about AgentRunner, for every input history, retry budget, turn   *)
(* cap and set of call ids.                                                *)
(***************************************************************************)
EXTENDS AgentRunner, SequenceTheorems, FiniteSetTheorems,
        WellFoundedInduction, TLAPS

-----------------------------------------------------------------------------
(* Sequences of rows.                                                      *)

\* What appending a row does to the rows of a history.
LEMMA AppendRow ==
  ASSUME NEW h \in Seq(Rows), NEW row \in Rows
  PROVE  /\ Append(h, row) \in Seq(Rows)
         /\ Len(h) \in Nat
         /\ Len(Append(h, row)) = Len(h) + 1
         /\ \A i \in 1..Len(h) : Append(h, row)[i] = h[i]
         /\ Append(h, row)[Len(h) + 1] = row
OBVIOUS

\* A prefix of a history is a history.
LEMMA PrefixRows ==
  ASSUME NEW h \in Seq(Rows), NEW k \in 0..Len(h)
  PROVE  /\ SubSeq(h, 1, k) \in Seq(Rows)
         /\ Len(SubSeq(h, 1, k)) = k
         /\ \A i \in 1..k : SubSeq(h, 1, k)[i] = h[i]
OBVIOUS

\* The rows the stream's events make (the mapper's three shapes).
LEMMA EventRows ==
  ASSUME NEW c \in CallIds
  PROVE  /\ TextRow("assistant") \in Rows
         /\ CallRow({c}) \in Rows
         /\ ResultRow(c) \in Rows
BY DEF TextRow, CallRow, ResultRow, Rows, Roles

-----------------------------------------------------------------------------
(* Call/result pairing.                                                    *)

\* Whether a prefix is consistent depends only on which calls its rows make
\* and which they answer.
LEMMA SamePairing ==
  ASSUME NEW g, NEW h, NEW p \in Nat,
         \A i \in 1..p : /\ \A c \in CallIds : /\ Makes(g[i], c) <=> Makes(h[i], c)
                                               /\ Answers(g[i], c) <=> Answers(h[i], c)
                         /\ (~g[i].compacted /\ g[i].role = "tool")
                               <=> (~h[i].compacted /\ h[i].role = "tool")
  PROVE  /\ \A c \in CallIds : OpenAt(g, p, c) <=> OpenAt(h, p, c)
         /\ \A j \in 1..p : OrphanAt(g, j) <=> OrphanAt(h, j)
         /\ ConsistentAt(g, p) <=> ConsistentAt(h, p)
<1>1. ASSUME NEW q \in 0..p, NEW c \in CallIds
      PROVE  OpenAt(g, q, c) <=> OpenAt(h, q, c)
  <2>1. \A i \in 1..q : Makes(g[i], c) <=> Makes(h[i], c)
    OBVIOUS
  <2>2. \A i \in 1..q : Answers(g[i], c) <=> Answers(h[i], c)
    OBVIOUS
  <2> QED BY <2>1, <2>2 DEF OpenAt
<1>2. ASSUME NEW j \in 1..p
      PROVE  OrphanAt(g, j) <=> OrphanAt(h, j)
  <2>1. \A c \in CallIds : OpenAt(g, j - 1, c) <=> OpenAt(h, j - 1, c)
    BY <1>1
  <2>2. ASSUME ~g[j].compacted, g[j].role = "tool", ~h[j].compacted, h[j].role = "tool",
               NEW c \in CallIds
        PROVE  g[j].answers = c <=> h[j].answers = c
    BY <2>2 DEF Answers
  <2> QED BY <2>1, <2>2 DEF OrphanAt
<1> QED BY <1>1, <1>2 DEF ConsistentAt

\* Rendering changes no pairing: a summary neither makes nor answers a call.
LEMMA RenderKeepsConsistency ==
  ASSUME NEW h \in Seq(Rows)
  PROVE  /\ Render(h) \in Seq(Rows)
         /\ Consistent(h) <=> Consistent(Render(h))
<1>1. \A r \in Rows : RenderRow(r) \in Rows
  BY DEF RenderRow, TextRow, Rows, Roles
<1>2. Render(h) \in Seq(Rows) /\ Len(Render(h)) = Len(h)
  BY <1>1 DEF Render
<1>3. ASSUME NEW i \in 1..Len(h)
      PROVE  /\ \A c \in CallIds : /\ Makes(Render(h)[i], c) <=> Makes(h[i], c)
                                   /\ Answers(Render(h)[i], c) <=> Answers(h[i], c)
             /\ (~Render(h)[i].compacted /\ Render(h)[i].role = "tool")
                   <=> (~h[i].compacted /\ h[i].role = "tool")
  <2>1. Render(h)[i] = RenderRow(h[i]) /\ h[i] \in Rows
    BY DEF Render
  <2> QED
    BY <2>1 DEF RenderRow, TextRow, Makes, Answers, IsCallRow, Rows
<1>4. ConsistentAt(Render(h), Len(h)) <=> ConsistentAt(h, Len(h))
  BY <1>3, SamePairing
<1> QED BY <1>2, <1>4 DEF Consistent

\* A prefix of a history has the pairing of the history up to there.
LEMMA PrefixPairing ==
  ASSUME NEW h \in Seq(Rows), NEW k \in 0..Len(h), NEW p \in 0..k
  PROVE  /\ \A c \in CallIds : OpenAt(SubSeq(h, 1, k), p, c) <=> OpenAt(h, p, c)
         /\ ConsistentAt(SubSeq(h, 1, k), p) <=> ConsistentAt(h, p)
<1> DEFINE g == SubSeq(h, 1, k)
<1>1. p \in Nat /\ \A i \in 1..p : g[i] = h[i]
  BY PrefixRows
<1> HIDE DEF g
<1>2. /\ \A c \in CallIds : OpenAt(g, p, c) <=> OpenAt(h, p, c)
      /\ ConsistentAt(g, p) <=> ConsistentAt(h, p)
  BY <1>1, SamePairing
<1> QED BY <1>2 DEF g

\* Appending leaves the pairing of every earlier prefix alone.
LEMMA AppendPairing ==
  ASSUME NEW h \in Seq(Rows), NEW row \in Rows, NEW p \in 0..Len(h)
  PROVE  /\ \A c \in CallIds : OpenAt(Append(h, row), p, c) <=> OpenAt(h, p, c)
         /\ \A j \in 1..p : OrphanAt(Append(h, row), j) <=> OrphanAt(h, j)
         /\ ConsistentAt(Append(h, row), p) <=> ConsistentAt(h, p)
<1> DEFINE g == Append(h, row)
<1>1. p \in Nat /\ \A i \in 1..p : g[i] = h[i]
  BY AppendRow
<1> HIDE DEF g
<1>2. /\ \A c \in CallIds : OpenAt(g, p, c) <=> OpenAt(h, p, c)
      /\ \A j \in 1..p : OrphanAt(g, j) <=> OrphanAt(h, j)
      /\ ConsistentAt(g, p) <=> ConsistentAt(h, p)
  BY <1>1, SamePairing
<1> QED BY <1>2 DEF g

\* The appended row itself: what it opens, closes, and when it is an orphan.
LEMMA AppendedRow ==
  ASSUME NEW h \in Seq(Rows), NEW row \in Rows
  PROVE  /\ \A c \in CallIds : OpenAt(Append(h, row), Len(h) + 1, c)
                                 <=> \/ Makes(row, c)
                                     \/ OpenAt(h, Len(h), c) /\ ~Answers(row, c)
         /\ OrphanAt(Append(h, row), Len(h) + 1)
              <=> /\ ~row.compacted /\ row.role = "tool"
                  /\ \A c \in CallIds : row.answers = c => ~OpenAt(h, Len(h), c)
<1> DEFINE n == Len(h)
           g == Append(h, row)
<1>1. /\ n \in Nat
      /\ \A i \in 1..n : g[i] = h[i]
      /\ g[n + 1] = row
  BY AppendRow
<1> HIDE DEF g, n
<1>2. ASSUME NEW c \in CallIds
      PROVE  OpenAt(g, n + 1, c) <=> Makes(row, c) \/ (OpenAt(h, n, c) /\ ~Answers(row, c))
  <2>1. ASSUME OpenAt(g, n + 1, c), ~Makes(row, c)
        PROVE  OpenAt(h, n, c) /\ ~Answers(row, c)
    <3>1. PICK i \in 1..(n + 1) : Makes(g[i], c) /\ \A j \in (i+1)..(n+1) : ~Answers(g[j], c)
      BY <2>1 DEF OpenAt
    <3>2. i \in 1..n
      BY <1>1, <2>1, <3>1
    <3>3. ~Answers(row, c)
      BY <1>1, <3>1, <3>2
    <3>4. \A j \in (i+1)..n : ~Answers(h[j], c)
      BY <1>1, <3>1, <3>2
    <3> QED BY <1>1, <3>1, <3>2, <3>3, <3>4 DEF OpenAt
  <2>2. ASSUME OpenAt(h, n, c), ~Answers(row, c)
        PROVE  OpenAt(g, n + 1, c)
    <3>1. PICK i \in 1..n : Makes(h[i], c) /\ \A j \in (i+1)..n : ~Answers(h[j], c)
      BY <2>2 DEF OpenAt
    <3>2. \A j \in (i+1)..(n+1) : ~Answers(g[j], c)
      BY <1>1, <2>2, <3>1
    <3> QED BY <1>1, <3>1, <3>2 DEF OpenAt
  <2>3. ASSUME Makes(row, c)
        PROVE  OpenAt(g, n + 1, c)
    <3>1. n + 1 \in 1..(n + 1) /\ \A j \in (n+1+1)..(n+1) : ~Answers(g[j], c)
      BY <1>1
    <3> QED BY <1>1, <2>3, <3>1 DEF OpenAt
  <2> QED BY <2>1, <2>2, <2>3
<1>3. \A c \in CallIds : OpenAt(g, n, c) <=> OpenAt(h, n, c)
  BY <1>1, AppendPairing DEF g, n
<1>4. OrphanAt(g, n + 1) <=> /\ ~row.compacted /\ row.role = "tool"
                             /\ \A c \in CallIds : row.answers = c => ~OpenAt(h, n, c)
  BY <1>1, <1>3 DEF OrphanAt
<1> QED BY <1>2, <1>4 DEF g, n

-----------------------------------------------------------------------------
(* Trimming.                                                               *)

\* A nonempty set of bounded naturals has a largest member.
LEMMA LargestBelow ==
  ASSUME NEW n \in Nat, NEW S \in SUBSET (0..n), S # {}
  PROVE  \E p \in S : \A q \in S : q <= p
<1> DEFINE above(p) == (p+1)..n
           T == {above(p) : p \in S}
<1>1. T # {}
  OBVIOUS
<1>2. ASSUME NEW p \in S
      PROVE  above(p) \in FiniteSubsetsOf(0..n)
  <2>1. above(p) \subseteq 0..n
    OBVIOUS
  <2>2. IsFiniteSet(above(p))
    BY FS_Interval
  <2> QED BY <2>1, <2>2 DEF FiniteSubsetsOf
<1>3. T \subseteq FiniteSubsetsOf(0..n)
  BY <1>2
<1>4. PICK t \in T : \A u \in T : <<u, t>> \notin StrictSubsetOrdering(0..n)
  BY <1>1, <1>3, FS_StrictSubsetOrderingWellFounded, WFMin
<1>5. PICK p \in S : t = above(p)
  OBVIOUS
<1>6. ASSUME NEW q \in S, q > p
      PROVE  FALSE
  <2>1. above(q) \subseteq above(p) /\ above(q) # above(p)
    <3>1. q \in above(p) /\ q \notin above(q)
      BY <1>6
    <3> QED BY <1>6, <3>1
  <2>2. above(q) \in SUBSET (0..n) /\ above(p) \in SUBSET (0..n)
    OBVIOUS
  <2>3. <<above(q), above(p)>> \in StrictSubsetOrdering(0..n)
    BY <2>1, <2>2 DEF StrictSubsetOrdering
  <2> QED BY <1>4, <1>5, <2>3
<1> QED BY <1>6

\* trim_incomplete_tool_turn keeps a consistent prefix, and the longest one
\* not below the floor.
LEMMA KeptLengthFacts ==
  ASSUME NEW h \in Seq(Rows), NEW low \in 0..Len(h), ConsistentAt(h, low)
  PROVE  /\ KeptLength(h, low) \in low..Len(h)
         /\ ConsistentAt(h, KeptLength(h, low))
         /\ \A q \in low..Len(h) : ConsistentAt(h, q) => q <= KeptLength(h, low)
<1> DEFINE cuts == {p \in low..Len(h) : ConsistentAt(h, p)}
<1>1. cuts \in SUBSET (0..Len(h)) /\ low \in cuts /\ Len(h) \in Nat
  OBVIOUS
<1>2. \E p \in cuts : \A q \in cuts : q <= p
  BY <1>1, LargestBelow
<1>3. KeptLength(h, low) = CHOOSE p \in cuts : \A q \in cuts : q <= p
  BY <1>1 DEF KeptLength
<1>4. KeptLength(h, low) \in cuts /\ \A q \in cuts : q <= KeptLength(h, low)
  BY <1>2, <1>3
<1> QED BY <1>4
-----------------------------------------------------------------------------
(* Types.                                                                  *)

\* The counts taken back by a trim are natural numbers.
LEMMA CountsAreNatural ==
  ASSUME TypeOK, NEW k \in Nat
  PROVE  CallsAfter(k) \in Nat /\ TextsAfter(k) \in Nat
<1>1. Len(items) \in Nat
  BY DEF TypeOK
<1>2. IsFiniteSet((k+1)..Len(items))
  BY <1>1, FS_Interval
<1>3. IsFiniteSet(((k+1)..Len(items)) \X CallIds)
  BY <1>2, FS_Product, ContextAssumption DEF ContextAssumption
<1>4. CallsAfter(k) \in Nat
  <2>1. IsFiniteSet({ic \in ((k+1)..Len(items)) \X CallIds : ic[2] \in items[ic[1]].calls})
    BY <1>3, FS_Subset
  <2> QED BY <2>1, FS_CardinalityType DEF CallsAfter
<1>5. TextsAfter(k) \in Nat
  <2>1. IsFiniteSet({i \in (k+1)..Len(items) : items[i].role = "assistant" /\ items[i].calls = {}})
    BY <1>2, FS_Subset
  <2> QED BY <2>1, FS_CardinalityType DEF TextsAfter
<1> QED BY <1>4, <1>5

\* Whatever the runner trims to is a prefix of the history.
LEMMA KeptLengthType ==
  ASSUME NEW h \in Seq(Rows), NEW low \in 0..Len(h)
  PROVE  KeptLength(h, low) \in 0..Len(h)
<1> DEFINE cuts == {p \in low..Len(h) : ConsistentAt(h, p)}
<1>1. CASE cuts = {}
  <2>1. KeptLength(h, low) = Len(h)
    BY <1>1 DEF KeptLength
  <2> QED BY <2>1
<1>2. CASE cuts # {}
  <2>1. cuts \in SUBSET (0..Len(h)) /\ Len(h) \in Nat
    OBVIOUS
  <2>2. \E p \in cuts : \A q \in cuts : q <= p
    BY <1>2, <2>1, LargestBelow
  <2>3. KeptLength(h, low) = CHOOSE p \in cuts : \A q \in cuts : q <= p
    BY <1>2 DEF KeptLength
  <2>4. KeptLength(h, low) \in cuts
    BY <2>2, <2>3
  <2> QED BY <2>1, <2>4
<1>3. Len(h) \in 0..Len(h)
  OBVIOUS
<1> QED BY <1>1, <1>2, <1>3

\* Every row an event folds into the history adds natural numbers to the
\* counters.
LEMMA EventCounts ==
  ASSUME NEW c \in CallIds
  PROVE  /\ Cardinality(TextRow("assistant").calls) = 0
         /\ Cardinality(CallRow({c}).calls) = 1
         /\ Cardinality(ResultRow(c).calls) = 0
BY FS_EmptySet, FS_Singleton DEF TextRow, CallRow, ResultRow

\* Compaction units are sets of positions.
LEMMA UnitsType ==
  ASSUME NEW h \in Seq(Rows)
  PROVE  CompactionUnits(h) \in SUBSET SUBSET Nat
<1>1. \A i \in TextPositions(h) : i \in Nat
  BY DEF TextPositions
<1>2. \A s : Block(h, s) \subseteq Nat
  BY DEF Block, Grouped
<1> QED BY <1>1, <1>2 DEF CompactionUnits, AllButNewest

\* Committing summaries keeps a history a history of the same length.
LEMMA CompactRowsType ==
  ASSUME NEW h \in Seq(Rows), NEW u
  PROVE  /\ CompactRows(h, u) \in Seq(Rows)
         /\ Len(CompactRows(h, u)) = Len(h)
         /\ \A i \in 1..Len(h) :
              CompactRows(h, u)[i] \in {h[i], [h[i] EXCEPT !.compacted = TRUE]}
<1>1. \A r \in Rows : [r EXCEPT !.compacted = TRUE] \in Rows
  BY DEF Rows
<1> QED BY <1>1 DEF CompactRows

\* The variables of a run keep their types.
THEOREM RunnerTypes == Spec => []TypeOK
<1>1. Init => TypeOK
  <2> SUFFICES ASSUME Init PROVE TypeOK
    OBVIOUS
  <2>1. items \in Seq(Rows) /\ Len(items) \in Nat
    BY RunnerAssumption DEF Init, RunnerAssumption
  <2>2. sdk \in SdkStates
    BY <2>1 DEF Init, SdkStates
  <2>3. request \in Seq(Rows) /\ units \in SUBSET SUBSET Nat
    BY DEF Init
  <2>4. /\ prompted \in BOOLEAN /\ eventsSeen \in BOOLEAN
        /\ attemptRefusal \in BOOLEAN /\ pendingRefusal \in BOOLEAN
    BY DEF Init
  <2>5. /\ inputLength \in Nat /\ floor \in Nat /\ refusalAttempts \in Nat
        /\ attempts \in Nat /\ failures \in Nat
        /\ callsMade \in Int /\ turnsUsed \in Int /\ phase \in Phases
    BY <2>1 DEF Init, Phases
  <2> QED BY <2>1, <2>2, <2>3, <2>4, <2>5 DEF TypeOK
<1>2. TypeOK /\ [Next]_vars => TypeOK'
  <2> SUFFICES ASSUME TypeOK, [Next]_vars PROVE TypeOK'
    OBVIOUS
  <2> USE DEF TypeOK, Phases, locals, execution
  <2>1. CASE StartAttempt
    <3>1. Len(items) \in Nat /\ Render(items) \in Seq(Rows)
      BY RenderKeepsConsistency
    <3>2. floor' \in Nat /\ request' \in Seq(Rows) /\ attempts' \in Nat
      BY <2>1, <3>1 DEF StartAttempt
    <3>3. prompted' \in BOOLEAN /\ eventsSeen' \in BOOLEAN /\ attemptRefusal' \in BOOLEAN
      BY <2>1 DEF StartAttempt
    <3> QED BY <2>1, <3>2, <3>3 DEF StartAttempt
  <2>2. CASE GiveUp
    BY <2>2 DEF GiveUp
  <2>3. CASE OpenStream
    <3>1. sdk' \in SdkStates
      <4>1. Len(items) \in Nat
        OBVIOUS
      <4> QED BY <2>3, <4>1 DEF OpenStream, SdkStates
    <3> QED BY <2>3, <3>1 DEF OpenStream
  <2>4. CASE BareEvent
    BY <2>4 DEF BareEvent
  <2>5. ASSUME NEW row \in Rows, NEW new \in SdkStates, Fold(row, new),
               Cardinality(row.calls) \in Nat
        PROVE  TypeOK'
    <3>1. items' \in Seq(Rows)
      BY <2>5, AppendRow DEF Fold
    <3>2. callsMade' \in Int /\ turnsUsed' \in Int
      BY <2>5 DEF Fold
    <3> QED BY <2>5, <3>1, <3>2 DEF Fold
  <2>6. CASE TextEvent
    <3>1. [sdk EXCEPT !.spoke = TRUE] \in SdkStates
      BY DEF SdkStates
    <3>2. TextRow("assistant") \in Rows /\ Cardinality(TextRow("assistant").calls) \in Nat
      BY FS_EmptySet DEF TextRow, Rows, Roles
    <3> QED BY <2>5, <2>6, <3>1, <3>2 DEF TextEvent
  <2>7. ASSUME NEW c \in CallIds, CallEvent(c)
        PROVE  TypeOK'
    <3> HIDE DEF TypeOK
    <3> DEFINE row == CallRow({c})
               new == [sdk EXCEPT !.open = @ \cup {c}]
    <3>1. new \in SdkStates
      BY DEF TypeOK, SdkStates
    <3>2. row \in Rows /\ Cardinality(row.calls) \in Nat
      <4>1. row \in Rows
        BY EventRows
      <4>2. Cardinality(row.calls) \in {0, 1}
        BY EventCounts
      <4> QED BY <4>1, <4>2
    <3>3. Fold(row, new)
      BY <2>7 DEF CallEvent
    <3> HIDE DEF row, new
    <3> QED BY <2>5, <3>1, <3>2, <3>3
  <2>8. ASSUME NEW c \in CallIds, ResultEvent(c)
        PROVE  TypeOK'
    <3> HIDE DEF TypeOK
    <3> DEFINE row == ResultRow(c)
               new == [sdk EXCEPT !.open = @ \ {c}]
    <3>1. new \in SdkStates
      BY DEF TypeOK, SdkStates
    <3>2. row \in Rows /\ Cardinality(row.calls) \in Nat
      <4>1. row \in Rows
        BY EventRows
      <4>2. Cardinality(row.calls) \in {0, 1}
        BY EventCounts
      <4> QED BY <4>1, <4>2
    <3>3. Fold(row, new)
      BY <2>8 DEF ResultEvent
    <3> HIDE DEF row, new
    <3> QED BY <2>5, <3>1, <3>2, <3>3
  <2>9. CASE RefusalEvent
    BY <2>9 DEF RefusalEvent, SdkStates
  <2>10. CASE ResponseComplete
    <3>1. sdk' \in SdkStates
      <4>1. Len(items) \in Nat
        OBVIOUS
      <4>2. /\ [sdk EXCEPT !.stage = "over", !.done = Len(items)] \in SdkStates
            /\ [sdk EXCEPT !.stage = "tools"] \in SdkStates
        BY <4>1 DEF SdkStates
      <4> QED BY <2>10, <4>2 DEF ResponseComplete
    <3> QED BY <2>10, <3>1 DEF ResponseComplete
  <2>11. CASE NextTurn
    <3>1. sdk' \in SdkStates
      <4>1. Len(items) \in Nat
        OBVIOUS
      <4> QED BY <2>11, <4>1 DEF NextTurn, SdkStates
    <3> QED BY <2>11, <3>1 DEF NextTurn
  <2>12. CASE RetriableFailure
    <3> DEFINE kept == IF eventsSeen THEN KeptLength(items, floor) ELSE Len(items)
    <3>1. kept \in 0..Len(items)
      <4>1. CASE floor <= Len(items)
        BY <4>1, KeptLengthType
      <4>2. CASE floor > Len(items)
        <5>1. {p \in floor..Len(items) : ConsistentAt(items, p)} = {}
          BY <4>2
        <5> QED BY <5>1 DEF KeptLength
      <4> QED BY <4>1, <4>2
    <3>2. SubSeq(items, 1, kept) \in Seq(Rows)
      BY <3>1, PrefixRows
    <3>3. CallsAfter(kept) \in Nat /\ TextsAfter(kept) \in Nat
      <4>1. kept \in Nat
        BY <3>1
      <4> QED BY <4>1, CountsAreNatural
    <3> HIDE DEF kept
    <3>4. /\ phase' = "backoff" /\ items' = SubSeq(items, 1, kept)
          /\ callsMade' = callsMade - CallsAfter(kept)
          /\ turnsUsed' = turnsUsed - TextsAfter(kept)
          /\ failures' = failures + 1
          /\ UNCHANGED <<inputLength, locals, units, sdk>>
      BY <2>12 DEF RetriableFailure, kept
    <3> QED BY <3>2, <3>3, <3>4
  <2>13. CASE BackoffOver
    BY <2>13 DEF BackoffOver
  <2>14. CASE TurnBudgetSpent
    BY <2>14 DEF TurnBudgetSpent
  <2>15. CASE Raise
    BY <2>15 DEF Raise
  <2>16. CASE RetryRefusal
    BY <2>16 DEF RetryRefusal
  <2>17. CASE Refuse
    BY <2>17 DEF Refuse
  <2>18. CASE Succeed
    BY <2>18, UnitsType DEF Succeed
  <2>19. ASSUME NEW u \in units, CompactUnit(u)
         PROVE  TypeOK'
    BY <2>19, CompactRowsType DEF CompactUnit
  <2>20. CASE Return
    BY <2>20 DEF Return
  <2>21. CASE UNCHANGED vars
    BY <2>21 DEF vars
  <2> QED
    BY <2>1, <2>2, <2>3, <2>4, <2>6, <2>7, <2>8, <2>9, <2>10, <2>11, <2>12, <2>13, <2>14,
       <2>15, <2>16, <2>17, <2>18, <2>19, <2>20, <2>21 DEF Next
<1> QED BY <1>1, <1>2, PTL DEF Spec

-----------------------------------------------------------------------------
(* The history.                                                            *)

\* A run starts from a history with nothing open.
LEMMA InitHistory == Init => HistoryInv
<1> SUFFICES ASSUME Init PROVE HistoryInv
  OBVIOUS
<1>1. items \in Seq(Rows) /\ Consistent(items) /\ Len(items) \in Nat
  BY RunnerAssumption DEF Init, RunnerAssumption
<1>2. Consistent(request)
  <2>1. request = <<>> /\ Len(request) = 0
    BY DEF Init
  <2> QED BY <2>1 DEF Consistent, ConsistentAt, OpenAt
<1>3. inputLength = Len(items) /\ floor = 0 /\ sdk.done = Len(items) /\ phase = "ready"
  BY DEF Init
<1> QED BY <1>1, <1>2, <1>3 DEF HistoryInv

\* One row of a stream: it opens or closes the calls the SDK says it does, it
\* answers nothing that is not open, and what was consistent stays so.
LEMMA StreamedRow ==
  ASSUME TypeOK, HistoryInv, phase = "streaming",
         NEW row \in Rows, NEW new \in SdkStates, Fold(row, new),
         new.done = sdk.done, new.stage # "over",
         row.role = "tool" => \E c \in sdk.open : row.answers = c,
         \A c \in CallIds :
           c \in new.open <=> Makes(row, c) \/ (c \in sdk.open /\ ~Answers(row, c))
  PROVE  HistoryInv'
<1> DEFINE n == Len(items)
<1>1. /\ items \in Seq(Rows) /\ n \in Nat /\ floor \in Nat /\ inputLength \in Nat
      /\ sdk \in SdkStates /\ sdk.done \in Nat /\ sdk.open \subseteq CallIds
  BY DEF TypeOK, SdkStates
<1>2. /\ items' = Append(items, row) /\ sdk' = new /\ eventsSeen' = TRUE
      /\ UNCHANGED <<phase, inputLength, request, floor>>
  BY DEF Fold
<1>3. n + 1 = Len(items') /\ items' \in Seq(Rows)
  BY <1>1, <1>2, AppendRow
<1>4. /\ floor <= sdk.done /\ sdk.done <= n /\ inputLength <= floor
      /\ ConsistentAt(items, floor) /\ ConsistentAt(items, sdk.done)
      /\ \A c \in CallIds : OpenAt(items, n, c) <=> c \in sdk.open
      /\ \A j \in 1..n : ~OrphanAt(items, j)
      /\ Consistent(request)
  BY DEF HistoryInv, StreamingInv
<1>5. ConsistentAt(items', floor) /\ ConsistentAt(items', sdk.done)
  <2>1. floor \in 0..n /\ sdk.done \in 0..n
    BY <1>1, <1>4
  <2> QED BY <1>1, <1>2, <1>4, <2>1, AppendPairing
<1>6. \A c \in CallIds : OpenAt(items', n + 1, c) <=> c \in new.open
  BY <1>1, <1>2, <1>4, AppendedRow
<1>7. ~OrphanAt(items', n + 1)
  BY <1>1, <1>2, <1>4, AppendedRow
<1>8. \A j \in 1..(n + 1) : ~OrphanAt(items', j)
  <2>1. n \in 0..n
    BY <1>1
  <2>2. \A j \in 1..n : ~OrphanAt(items', j)
    BY <1>1, <1>2, <1>4, <2>1, AppendPairing
  <2> QED BY <1>1, <1>7, <2>2
<1> HIDE DEF n
<1>9. StreamingInv'
  BY <1>2, <1>3, <1>4, <1>5, <1>6, <1>8 DEF StreamingInv
<1>10. inputLength' <= Len(items') /\ sdk'.done <= Len(items') /\ floor' <= Len(items')
  BY <1>1, <1>2, <1>3, <1>4
<1> QED BY <1>2, <1>4, <1>9, <1>10 DEF HistoryInv

\* The trim of a failed attempt leaves a consistent history that still holds
\* every completed turn.
LEMMA TrimmedHistory ==
  ASSUME TypeOK, HistoryInv, RetriableFailure
  PROVE  /\ HistoryInv'
         /\ Len(items') \in floor..Len(items)
         /\ \A i \in 1..Len(items') : items'[i] = items[i]
<1> DEFINE kept == IF eventsSeen THEN KeptLength(items, floor) ELSE Len(items)
           n == Len(items)
<1>1. /\ items \in Seq(Rows) /\ n \in Nat /\ floor \in Nat /\ inputLength \in Nat
      /\ sdk.done \in Nat
  BY DEF TypeOK, SdkStates
<1>2. /\ items' = SubSeq(items, 1, kept) /\ phase' = "backoff"
      /\ UNCHANGED <<inputLength, request, floor, sdk>>
  BY DEF RetriableFailure, locals
<1>3. floor \in 0..n /\ sdk.done <= n /\ inputLength <= n /\ Consistent(request)
  BY <1>1 DEF HistoryInv
<1>4. CASE phase = "streaming" /\ eventsSeen
  <2>1. /\ floor <= sdk.done /\ inputLength <= floor
        /\ ConsistentAt(items, floor) /\ ConsistentAt(items, sdk.done)
    BY <1>4 DEF HistoryInv, StreamingInv
  <2>2. /\ kept \in floor..n /\ ConsistentAt(items, kept)
        /\ \A q \in floor..n : ConsistentAt(items, q) => q <= kept
    BY <1>1, <1>3, <1>4, <2>1, KeptLengthFacts
  <2>3. sdk.done <= kept
    BY <1>1, <1>3, <2>1, <2>2
  <2> HIDE DEF kept, n
  <2>4. kept \in 0..n /\ kept \in Nat /\ kept \in 0..kept
    BY <1>1, <2>2
  <2>5. /\ Len(items') = kept /\ \A i \in 1..kept : items'[i] = items[i]
    BY <1>1, <1>2, <2>4, PrefixRows DEF n
  <2>6. ConsistentAt(items', kept)
    BY <1>1, <1>2, <2>2, <2>4, PrefixPairing DEF n
  <2>7. Consistent(items')
    BY <2>5, <2>6 DEF Consistent
  <2>8. inputLength <= kept /\ floor <= kept
    BY <1>1, <2>1, <2>2, <2>4
  <2>9. HistoryInv'
    BY <1>2, <1>3, <2>3, <2>5, <2>7, <2>8 DEF HistoryInv
  <2> QED BY <2>2, <2>5, <2>9 DEF n
<1>5. CASE ~(phase = "streaming" /\ eventsSeen)
  <2>1. phase \in {"calling", "streaming"} /\ ~eventsSeen
    BY <1>5 DEF RetriableFailure, HistoryInv
  <2>2. items' = items
    BY <1>1, <1>2, <2>1
  <2>3. Consistent(items)
    BY <1>1, <2>1 DEF HistoryInv, StreamingInv, Consistent
  <2>4. HistoryInv'
    BY <1>2, <1>3, <2>2, <2>3 DEF HistoryInv
  <2> QED BY <1>1, <1>3, <2>2, <2>4
<1> QED BY <1>4, <1>5

\* When the stream is over, every call it made has been answered.
LEMMA EndedStream ==
  ASSUME HistoryInv, Streaming("over")
  PROVE  Consistent(items)
BY DEF HistoryInv, StreamingInv, Streaming, Consistent, ConsistentAt

\* Every step keeps the history's invariant.
LEMMA HistoryStep ==
  ASSUME TypeOK, HistoryInv, [Next]_vars
  PROVE  HistoryInv'
<1>0. /\ items \in Seq(Rows) /\ Len(items) \in Nat /\ floor \in Nat
      /\ inputLength \in Nat /\ sdk \in SdkStates
  BY DEF TypeOK
<1>1. CASE StartAttempt
  <2>1. /\ phase = "ready" /\ phase' = "calling" /\ floor' = Len(items)
        /\ eventsSeen' = FALSE /\ request' = Render(items)
        /\ UNCHANGED <<items, inputLength, sdk>>
    BY <1>1 DEF StartAttempt
  <2>2. Consistent(items) /\ Consistent(request')
    BY <1>0, <2>1, RenderKeepsConsistency DEF HistoryInv
  <2> QED BY <1>0, <2>1, <2>2 DEF HistoryInv
<1>2. CASE GiveUp
  BY <1>2 DEF GiveUp, HistoryInv, locals
<1>3. CASE OpenStream
  <2>1. /\ phase = "calling" /\ phase' = "streaming"
        /\ sdk'.done = Len(items) /\ sdk'.open = {} /\ sdk'.stage = "model"
        /\ UNCHANGED <<items, inputLength, request, floor, eventsSeen>>
    BY <1>3 DEF OpenStream
  <2>2. Consistent(items) /\ floor = Len(items) /\ ~eventsSeen
    BY <2>1 DEF HistoryInv
  <2>3. StreamingInv'
    BY <1>0, <2>1, <2>2 DEF StreamingInv, Consistent, ConsistentAt
  <2> QED BY <1>0, <2>1, <2>2, <2>3 DEF HistoryInv
<1>4. CASE BareEvent
  BY <1>4 DEF BareEvent, HistoryInv, StreamingInv, Streaming
<1>5. CASE TextEvent
  <2> DEFINE row == TextRow("assistant")
             new == [sdk EXCEPT !.spoke = TRUE]
  <2>1. row \in Rows /\ row.role # "tool" /\ row.calls = {}
    BY DEF TextRow, Rows, Roles
  <2>2. /\ new \in SdkStates /\ new.done = sdk.done /\ new.open = sdk.open
        /\ new.stage = sdk.stage
    BY <1>0 DEF SdkStates
  <2>3. Fold(row, new) /\ phase = "streaming" /\ sdk.stage = "model"
    BY <1>5 DEF TextEvent, Streaming
  <2>4. \A c \in CallIds : ~Makes(row, c) /\ ~Answers(row, c)
    BY <2>1 DEF Makes, Answers
  <2> HIDE DEF row, new
  <2> QED BY <2>1, <2>2, <2>3, <2>4, StreamedRow
<1>6. ASSUME NEW d \in CallIds, CallEvent(d)
      PROVE  HistoryInv'
  <2> DEFINE row == CallRow({d})
             new == [sdk EXCEPT !.open = @ \cup {d}]
  <2>1. row \in Rows /\ row.role = "assistant" /\ row.calls = {d} /\ ~row.compacted
    BY DEF CallRow, Rows, Roles
  <2>2. /\ new \in SdkStates /\ new.done = sdk.done /\ new.open = sdk.open \cup {d}
        /\ new.stage = sdk.stage
    BY <1>0 DEF SdkStates
  <2>3. Fold(row, new) /\ phase = "streaming" /\ sdk.stage = "model"
    BY <1>6 DEF CallEvent, Streaming
  <2>4. \A c \in CallIds : (Makes(row, c) <=> c = d) /\ ~Answers(row, c)
    BY <2>1 DEF Makes, Answers, IsCallRow
  <2> HIDE DEF row, new
  <2> QED BY <2>1, <2>2, <2>3, <2>4, StreamedRow
<1>7. ASSUME NEW d \in CallIds, ResultEvent(d)
      PROVE  HistoryInv'
  <2> DEFINE row == ResultRow(d)
             new == [sdk EXCEPT !.open = @ \ {d}]
  <2>1. row \in Rows /\ row.role = "tool" /\ row.answers = d /\ row.calls = {} /\ ~row.compacted
    BY DEF ResultRow, Rows, Roles
  <2>2. /\ new \in SdkStates /\ new.done = sdk.done /\ new.open = sdk.open \ {d}
        /\ new.stage = sdk.stage
    BY <1>0 DEF SdkStates
  <2>3. Fold(row, new) /\ phase = "streaming" /\ sdk.stage = "tools" /\ d \in sdk.open
    BY <1>7 DEF ResultEvent, Streaming
  <2>4. \A c \in CallIds : ~Makes(row, c) /\ (Answers(row, c) <=> c = d)
    BY <2>1 DEF Makes, Answers
  <2> HIDE DEF row, new
  <2> QED BY <2>1, <2>2, <2>3, <2>4, StreamedRow
<1>8. CASE RefusalEvent
  <2>1. /\ phase = "streaming" /\ eventsSeen' = TRUE
        /\ sdk'.done = sdk.done /\ sdk'.open = sdk.open /\ sdk'.stage = sdk.stage
        /\ UNCHANGED <<phase, items, inputLength, request, floor>>
    BY <1>0, <1>8 DEF RefusalEvent, Streaming, SdkStates
  <2> QED BY <2>1 DEF HistoryInv, StreamingInv
<1>9. CASE ResponseComplete
  <2>1. /\ phase = "streaming" /\ sdk'.open = sdk.open
        /\ sdk'.stage = "over" => sdk.open = {}
        /\ sdk'.done \in {sdk.done, Len(items)}
        /\ sdk'.done = Len(items) => sdk.open = {} \/ sdk.done = Len(items)
        /\ UNCHANGED <<phase, items, inputLength, request, floor, eventsSeen>>
    BY <1>0, <1>9 DEF ResponseComplete, Streaming, SdkStates, locals
  <2>2. sdk.open = {} => ConsistentAt(items, Len(items))
    BY <2>1 DEF HistoryInv, StreamingInv, ConsistentAt
  <2>3. ConsistentAt(items, sdk'.done) /\ floor <= sdk'.done
    BY <2>1, <2>2 DEF HistoryInv, StreamingInv
  <2>4. sdk'.done <= Len(items)
    BY <1>0, <2>1 DEF HistoryInv
  <2> QED BY <2>1, <2>3, <2>4 DEF HistoryInv, StreamingInv
<1>10. CASE NextTurn
  <2>1. /\ phase = "streaming" /\ sdk.open = {} /\ sdk'.open = {}
        /\ sdk'.done = Len(items)
        /\ UNCHANGED <<phase, items, inputLength, request, floor, eventsSeen>>
    BY <1>0, <1>10 DEF NextTurn, Streaming, locals
  <2>2. ConsistentAt(items, Len(items))
    BY <2>1 DEF HistoryInv, StreamingInv, ConsistentAt
  <2> QED BY <1>0, <2>1, <2>2 DEF HistoryInv, StreamingInv
<1>11. CASE RetriableFailure
  BY <1>11, TrimmedHistory
<1>12. CASE BackoffOver
  BY <1>12 DEF BackoffOver, HistoryInv, locals
<1>13. CASE TurnBudgetSpent
  BY <1>13 DEF TurnBudgetSpent, HistoryInv, locals
<1>14. CASE Raise
  BY <1>14 DEF Raise, HistoryInv, locals
<1>15. CASE RetryRefusal
  <2>1. Consistent(items)
    BY <1>15, EndedStream DEF RetryRefusal
  <2> QED BY <1>15, <2>1 DEF RetryRefusal, HistoryInv
<1>16. CASE Refuse
  BY <1>16 DEF Refuse, HistoryInv, locals
<1>17. CASE Succeed
  BY <1>17 DEF Succeed, HistoryInv, locals
<1>18. ASSUME NEW u \in units, CompactUnit(u)
       PROVE  HistoryInv'
  <2>1. Len(items') = Len(items)
    BY <1>0, <1>18, CompactRowsType DEF CompactUnit
  <2>2. /\ phase' = "compacting"
        /\ UNCHANGED <<inputLength, request, floor, sdk>>
    BY <1>18 DEF CompactUnit, locals
  <2> QED BY <2>1, <2>2 DEF HistoryInv
<1>19. CASE Return
  BY <1>19 DEF Return, HistoryInv, locals
<1>20. CASE UNCHANGED vars
  BY <1>20 DEF vars, locals, HistoryInv, StreamingInv
<1> QED
  BY <1>1, <1>2, <1>3, <1>4, <1>5, <1>6, <1>7, <1>8, <1>9, <1>10, <1>11, <1>12, <1>13,
     <1>14, <1>15, <1>16, <1>17, <1>18, <1>19, <1>20 DEF Next

\* The history's invariant holds of every run.
THEOREM HistoryHolds == Spec => []HistoryInv
<1>1. TypeOK /\ HistoryInv /\ [Next]_vars => HistoryInv'
  BY HistoryStep
<1> QED BY <1>1, InitHistory, RunnerTypes, PTL DEF Spec

\* No attempt ever sends the provider an unanswered call or an orphan result.
THEOREM ValidRequests == Spec => []RequestsAreValid
<1>1. HistoryInv => RequestsAreValid
  BY DEF HistoryInv, RequestsAreValid
<1> QED BY <1>1, HistoryHolds, PTL

\* The caller's input and every completed turn survive every failed attempt.
THEOREM TurnsStay == Spec => []CompletedTurnsStay
<1>1. HistoryInv => CompletedTurnsStay
  BY DEF HistoryInv, CompletedTurnsStay
<1> QED BY <1>1, HistoryHolds, PTL

-----------------------------------------------------------------------------
(* What one step may do to the history.                                    *)

\* A row changes only into its own summary, and nothing below the attempt's
\* first row is ever dropped.
THEOREM StableHistory == Spec => HistoryIsStable
<1> DEFINE Stable ==
      /\ Len(items') >= floor
      /\ \A i \in 1..Len(items) :
           i <= Len(items') => items'[i] \in {items[i], [items[i] EXCEPT !.compacted = TRUE]}
<1>1. TypeOK /\ HistoryInv /\ [Next]_vars => [Stable]_vars
  <2> SUFFICES ASSUME TypeOK, HistoryInv, Next PROVE Stable
    OBVIOUS
  <2>1. items \in Seq(Rows) /\ Len(items) \in Nat /\ floor \in Nat /\ floor <= Len(items)
    BY DEF TypeOK, HistoryInv
  <2>2. CASE items' = items
    BY <2>1, <2>2
  <2>3. ASSUME NEW row \in Rows, items' = Append(items, row)
        PROVE  Stable
    BY <2>1, <2>3, AppendRow
  <2>4. CASE TextEvent
    <3>1. TextRow("assistant") \in Rows /\ items' = Append(items, TextRow("assistant"))
      BY <2>4 DEF TextEvent, Fold, TextRow, Rows, Roles
    <3> QED BY <2>3, <3>1
  <2>5. ASSUME NEW c \in CallIds, CallEvent(c)
        PROVE  Stable
    <3>1. CallRow({c}) \in Rows /\ items' = Append(items, CallRow({c}))
      BY <2>5, EventRows DEF CallEvent, Fold
    <3> QED BY <2>3, <3>1
  <2>6. ASSUME NEW c \in CallIds, ResultEvent(c)
        PROVE  Stable
    <3>1. ResultRow(c) \in Rows /\ items' = Append(items, ResultRow(c))
      BY <2>6, EventRows DEF ResultEvent, Fold
    <3> QED BY <2>3, <3>1
  <2>7. CASE RetriableFailure
    BY <2>1, <2>7, TrimmedHistory
  <2>8. ASSUME NEW u \in units, CompactUnit(u)
        PROVE  Stable
    <3>1. CASE items' = CompactRows(items, u)
      BY <2>1, <3>1, CompactRowsType
    <3> QED BY <2>2, <2>8, <3>1 DEF CompactUnit
  <2>9. CASE \/ StartAttempt \/ GiveUp \/ OpenStream \/ BareEvent \/ RefusalEvent
             \/ ResponseComplete \/ NextTurn \/ BackoffOver \/ TurnBudgetSpent \/ Raise
             \/ RetryRefusal \/ Refuse \/ Succeed \/ Return
    BY <2>2, <2>9 DEF StartAttempt, GiveUp, OpenStream, BareEvent, RefusalEvent,
       ResponseComplete, NextTurn, BackoffOver, TurnBudgetSpent, Raise, RetryRefusal,
       Refuse, Succeed, Return
  <2> QED BY <2>4, <2>5, <2>6, <2>7, <2>8, <2>9 DEF Next
<1> QED BY <1>1, RunnerTypes, HistoryHolds, PTL DEF Spec, HistoryIsStable

-----------------------------------------------------------------------------
(* The retry budgets.                                                      *)

\* Each attempt is charged once, to the breaker or to the refusal retries, and
\* together they bound the provider requests of a run.
THEOREM AttemptsCharged == Spec => []EveryAttemptCharged
<1> DEFINE IInv == BudgetInv /\ EveryAttemptCharged
<1> USE RunnerAssumption DEF RunnerAssumption
<1>1. Init => IInv
  BY DEF Init, BudgetInv, EveryAttemptCharged
<1>2. TypeOK /\ IInv /\ [Next]_vars => IInv'
  <2> SUFFICES ASSUME TypeOK, IInv, [Next]_vars PROVE IInv'
    OBVIOUS
  <2>1. /\ failures \in Nat /\ refusalAttempts \in Nat /\ attempts \in Nat
        /\ BudgetInv /\ EveryAttemptCharged
    BY DEF TypeOK
  <2> USE <2>1 DEF BudgetInv, EveryAttemptCharged
  <2> HIDE DEF TypeOK
  <2>2. CASE StartAttempt
    BY <2>2 DEF StartAttempt, execution
  <2>3. CASE GiveUp
    BY <2>3 DEF GiveUp, execution, locals
  <2>4. CASE OpenStream
    BY <2>4 DEF OpenStream, execution
  <2>5. CASE \/ BareEvent \/ TextEvent \/ RefusalEvent
             \/ \E c \in CallIds : CallEvent(c) \/ ResultEvent(c)
    <3>1. UNCHANGED <<phase, failures, attempts, refusalAttempts>>
      BY <2>5 DEF BareEvent, TextEvent, RefusalEvent, CallEvent, ResultEvent, Fold, execution
    <3> QED BY <3>1
  <2>6. CASE ResponseComplete \/ NextTurn
    BY <2>6 DEF ResponseComplete, NextTurn, execution, locals
  <2>7. CASE RetriableFailure
    <3>1. /\ phase \in {"calling", "streaming"} /\ phase' = "backoff"
          /\ failures' = failures + 1
          /\ UNCHANGED <<attempts, refusalAttempts>>
      BY <2>7 DEF RetriableFailure, locals
    <3> QED BY <3>1
  <2>8. CASE BackoffOver
    BY <2>8 DEF BackoffOver, execution, locals
  <2>9. CASE TurnBudgetSpent \/ Raise \/ Refuse \/ Return
    BY <2>9 DEF TurnBudgetSpent, Raise, Refuse, Return, execution, locals
  <2>10. CASE RetryRefusal
    BY <2>10 DEF RetryRefusal, Streaming, execution
  <2>11. CASE Succeed
    BY <2>11 DEF Succeed, locals
  <2>12. ASSUME NEW u \in units, CompactUnit(u)
         PROVE  IInv'
    BY <2>12 DEF CompactUnit, execution, locals
  <2>13. CASE UNCHANGED vars
    BY <2>13 DEF vars, execution, locals
  <2> QED
    BY <2>2, <2>3, <2>4, <2>5, <2>6, <2>7, <2>8, <2>9, <2>10, <2>11, <2>12, <2>13 DEF Next
<1> HIDE DEF IInv
<1>3. IInv => EveryAttemptCharged
  BY DEF IInv
<1> QED BY <1>1, <1>2, <1>3, RunnerTypes, PTL DEF Spec

-----------------------------------------------------------------------------
(* The counts the parent is told.                                          *)

CallPairs(h, p) == {ic \in ((p+1)..Len(h)) \X CallIds : ic[2] \in h[ic[1]].calls}
TextPlaces(h, p) == {i \in (p+1)..Len(h) : h[i].role = "assistant" /\ h[i].calls = {}}

LEMMA CountsAreFinite ==
  ASSUME NEW h \in Seq(Rows), NEW p \in Nat
  PROVE  /\ IsFiniteSet(CallPairs(h, p)) /\ Cardinality(CallPairs(h, p)) \in Nat
         /\ IsFiniteSet(TextPlaces(h, p)) /\ Cardinality(TextPlaces(h, p)) \in Nat
<1>1. IsFiniteSet((p+1)..Len(h))
  BY FS_Interval
<1>2. IsFiniteSet(((p+1)..Len(h)) \X CallIds)
  BY <1>1, FS_Product, ContextAssumption
<1>3. CallPairs(h, p) \in SUBSET (((p+1)..Len(h)) \X CallIds)
      /\ TextPlaces(h, p) \in SUBSET ((p+1)..Len(h))
  BY DEF CallPairs, TextPlaces
<1> QED
  BY <1>1, <1>2, <1>3, FS_Subset, FS_CardinalityType

\* A set counted in two parts that do not meet.
LEMMA CountInParts ==
  ASSUME NEW S, NEW T, NEW U, IsFiniteSet(S), IsFiniteSet(T),
         U = S \cup T, S \cap T = {}
  PROVE  Cardinality(U) = Cardinality(S) + Cardinality(T)
<1>1. Cardinality(U) = Cardinality(S) + Cardinality(T) - Cardinality(S \cap T)
  BY FS_Union
<1>2. Cardinality(S \cap T) = 0
  BY FS_EmptySet
<1>3. Cardinality(S) \in Nat /\ Cardinality(T) \in Nat
  BY FS_CardinalityType
<1> QED
  BY <1>1, <1>2, <1>3

\* A row appended adds its calls, and one text if it is the assistant's text.
LEMMA AppendCounts ==
  ASSUME NEW h \in Seq(Rows), NEW row \in Rows, NEW p \in 0..Len(h)
  PROVE  /\ Cardinality(CallPairs(Append(h, row), p)) =
              Cardinality(CallPairs(h, p)) + Cardinality(row.calls)
         /\ Cardinality(TextPlaces(Append(h, row), p)) =
              Cardinality(TextPlaces(h, p))
                + (IF row.role = "assistant" /\ row.calls = {} THEN 1 ELSE 0)
<1> DEFINE n == Len(h)
           g == Append(h, row)
<1>1. n \in Nat /\ Len(g) = n + 1 /\ (\A i \in 1..n : g[i] = h[i]) /\ g[n + 1] = row
      /\ p \in Nat /\ p <= n
  BY AppendRow
<1>2. row.calls \in SUBSET CallIds /\ IsFiniteSet(row.calls) /\ Cardinality(row.calls) \in Nat
  BY ContextAssumption, FS_Subset, FS_CardinalityType DEF Rows
<1>3. IsFiniteSet(CallPairs(h, p)) /\ IsFiniteSet(TextPlaces(h, p))
      /\ Cardinality(TextPlaces(h, p)) \in Nat
  BY <1>1, CountsAreFinite
<1> HIDE DEF g, n
<1>4. Cardinality(CallPairs(g, p)) = Cardinality(CallPairs(h, p)) + Cardinality(row.calls)
  <2> DEFINE new == {n + 1} \X row.calls
  <2>1. IsFiniteSet({n + 1}) /\ Cardinality({n + 1}) = 1
    BY FS_Singleton
  <2>2. IsFiniteSet(new) /\ Cardinality(new) = Cardinality({n + 1}) * Cardinality(row.calls)
    BY <1>2, <2>1, FS_Product
  <2>3. Cardinality(new) = Cardinality(row.calls)
    BY <1>2, <2>1, <2>2
  <2>4. CallPairs(g, p) = CallPairs(h, p) \cup new
    <3>1. ASSUME NEW i, NEW c
          PROVE  <<i, c>> \in CallPairs(g, p) <=> <<i, c>> \in CallPairs(h, p) \cup new
      <4>1. i \in (p+1)..(n+1) <=> i \in (p+1)..n \/ i = n + 1
        BY <1>1
      <4>2. i \in (p+1)..n => g[i] = h[i] /\ i # n + 1
        BY <1>1
      <4> QED
        BY <1>1, <1>2, <4>1, <4>2 DEF CallPairs, n
    <3>2. \A ic \in CallPairs(g, p) : ic = <<ic[1], ic[2]>>
      BY DEF CallPairs
    <3>3. \A ic \in CallPairs(h, p) \cup new : ic = <<ic[1], ic[2]>>
      BY DEF CallPairs
    <3> QED
      BY <3>1, <3>2, <3>3
  <2>5. CallPairs(h, p) \cap new = {}
    <3> SUFFICES ASSUME NEW ic \in CallPairs(h, p), ic \in new PROVE FALSE
      OBVIOUS
    <3>1. ic[1] \in (p+1)..n /\ ic[1] = n + 1
      BY DEF CallPairs, n
    <3> QED
      BY <1>1, <3>1
  <2> HIDE DEF new
  <2> QED
    BY <1>3, <2>2, <2>3, <2>4, <2>5, CountInParts
<1>5. Cardinality(TextPlaces(g, p)) = Cardinality(TextPlaces(h, p))
        + (IF row.role = "assistant" /\ row.calls = {} THEN 1 ELSE 0)
  <2>1. n + 1 \notin TextPlaces(h, p)
    BY <1>1 DEF TextPlaces, n
  <2>2. \A i : i \in (p+1)..(n+1) <=> i \in (p+1)..n \/ i = n + 1
    BY <1>1
  <2>3. \A i \in (p+1)..n : g[i] = h[i] /\ i # n + 1
    BY <1>1
  <2>4. CASE row.role = "assistant" /\ row.calls = {}
    <3>1. TextPlaces(g, p) = TextPlaces(h, p) \cup {n + 1}
      BY <1>1, <2>2, <2>3, <2>4 DEF TextPlaces, n
    <3> QED
      BY <1>3, <2>1, <2>4, <3>1, FS_AddElement
  <2>5. CASE ~(row.role = "assistant" /\ row.calls = {})
    <3>1. TextPlaces(g, p) = TextPlaces(h, p)
      BY <1>1, <2>2, <2>3, <2>5 DEF TextPlaces, n
    <3> QED
      BY <1>3, <2>5, <3>1
  <2> QED
    BY <2>4, <2>5
<1> QED
  BY <1>4, <1>5 DEF g

\* What a trim drops is counted apart from what it keeps.
LEMMA TrimCounts ==
  ASSUME NEW h \in Seq(Rows), NEW kept \in 0..Len(h), NEW p \in 0..kept
  PROVE  /\ Cardinality(CallPairs(h, p)) =
              Cardinality(CallPairs(SubSeq(h, 1, kept), p)) + Cardinality(CallPairs(h, kept))
         /\ Cardinality(TextPlaces(h, p)) =
              Cardinality(TextPlaces(SubSeq(h, 1, kept), p)) + Cardinality(TextPlaces(h, kept))
<1> DEFINE n == Len(h)
           g == SubSeq(h, 1, kept)
<1>1. /\ g \in Seq(Rows) /\ Len(g) = kept /\ (\A i \in 1..kept : g[i] = h[i])
      /\ n \in Nat /\ kept \in Nat /\ kept <= n /\ p \in Nat /\ p <= kept
  BY PrefixRows
<1>2. /\ IsFiniteSet(CallPairs(g, p)) /\ IsFiniteSet(CallPairs(h, kept))
      /\ IsFiniteSet(TextPlaces(g, p)) /\ IsFiniteSet(TextPlaces(h, kept))
  BY <1>1, CountsAreFinite
<1> HIDE DEF g, n
<1>3. \A i : i \in (p+1)..n <=> i \in (p+1)..kept \/ i \in (kept+1)..n
  BY <1>1
<1>4. \A i \in (p+1)..kept : g[i] = h[i] /\ i \notin (kept+1)..n
  BY <1>1
<1>5. TextPlaces(h, p) = TextPlaces(g, p) \cup TextPlaces(h, kept)
      /\ TextPlaces(g, p) \cap TextPlaces(h, kept) = {}
  BY <1>1, <1>3, <1>4 DEF TextPlaces, n
<1>6. CallPairs(h, p) = CallPairs(g, p) \cup CallPairs(h, kept)
  <2>1. ASSUME NEW i, NEW c
        PROVE  <<i, c>> \in CallPairs(h, p) <=> <<i, c>> \in CallPairs(g, p) \cup CallPairs(h, kept)
    BY <1>1, <1>3, <1>4 DEF CallPairs, n
  <2>2. \A ic \in CallPairs(h, p) : ic = <<ic[1], ic[2]>>
    BY DEF CallPairs
  <2>3. \A ic \in CallPairs(g, p) \cup CallPairs(h, kept) : ic = <<ic[1], ic[2]>>
    BY DEF CallPairs
  <2> QED
    BY <2>1, <2>2, <2>3
<1>7. CallPairs(g, p) \cap CallPairs(h, kept) = {}
  <2> SUFFICES ASSUME NEW ic \in CallPairs(g, p), ic \in CallPairs(h, kept) PROVE FALSE
    OBVIOUS
  <2>1. ic[1] \in (p+1)..kept /\ ic[1] \in (kept+1)..n
    BY <1>1 DEF CallPairs, n
  <2> QED
    BY <1>4, <2>1
<1> QED
  BY <1>2, <1>5, <1>6, <1>7, CountInParts DEF g

\* Compacting a row leaves who spoke and the calls alone.
LEMMA CompactCounts ==
  ASSUME NEW h \in Seq(Rows), NEW u, NEW p \in Nat
  PROVE  /\ CallPairs(CompactRows(h, u), p) = CallPairs(h, p)
         /\ TextPlaces(CompactRows(h, u), p) = TextPlaces(h, p)
<1> DEFINE g == CompactRows(h, u)
<1>1. Len(g) = Len(h) /\ Len(h) \in Nat
  BY DEF CompactRows
<1>2. \A i \in 1..Len(h) : g[i].role = h[i].role /\ g[i].calls = h[i].calls
  <2> SUFFICES ASSUME NEW i \in 1..Len(h)
               PROVE  g[i].role = h[i].role /\ g[i].calls = h[i].calls
    OBVIOUS
  <2>1. h[i] \in Rows /\ g[i] \in {h[i], [h[i] EXCEPT !.compacted = TRUE]}
    BY DEF CompactRows
  <2> QED
    BY <2>1 DEF Rows
<1> HIDE DEF g
<1>3. \A i \in (p+1)..Len(h) : g[i].role = h[i].role /\ g[i].calls = h[i].calls
  BY <1>1, <1>2
<1> QED
  BY <1>1, <1>3 DEF CallPairs, TextPlaces, g

\* The counts of an agent are those of the rows its history holds beyond what
\* it started with, after any number of trims, retries and compactions.
THEOREM CountersMatch == Spec => []CountersMatchHistory
<1> DEFINE Counted == /\ callsMade = Cardinality(CallPairs(items, inputLength))
                      /\ turnsUsed = Cardinality(TextPlaces(items, inputLength))
<1>1. CountersMatchHistory <=> Counted
  BY DEF CountersMatchHistory, CallsAfter, TextsAfter, CallPairs, TextPlaces
<1>2. Init => Counted
  <2> SUFFICES ASSUME Init PROVE Counted
    OBVIOUS
  <2>1. Len(items) \in Nat
    BY RunnerAssumption DEF Init, RunnerAssumption
  <2>2. CallPairs(items, Len(items)) = {} /\ TextPlaces(items, Len(items)) = {}
    <3>1. (Len(items) + 1)..Len(items) = {}
      BY <2>1
    <3> QED
      BY <3>1 DEF CallPairs, TextPlaces
  <2> QED
    BY <2>2, FS_EmptySet DEF Init
<1>3. TypeOK /\ HistoryInv /\ HistoryInv' /\ Counted /\ [Next]_vars => Counted'
  <2> SUFFICES ASSUME TypeOK, HistoryInv, HistoryInv', Counted, [Next]_vars PROVE Counted'
    OBVIOUS
  <2>1. /\ items \in Seq(Rows) /\ Len(items) \in Nat /\ inputLength \in Nat
        /\ inputLength \in 0..Len(items) /\ floor \in 0..Len(items)
    BY DEF TypeOK, HistoryInv
  <2>2. Cardinality(CallPairs(items, inputLength)) \in Nat
        /\ Cardinality(TextPlaces(items, inputLength)) \in Nat
    BY <2>1, CountsAreFinite
  <2>3. CASE UNCHANGED <<items, inputLength, callsMade, turnsUsed>>
    BY <2>3
  <2>4. ASSUME NEW row \in Rows, NEW new, Fold(row, new) PROVE Counted'
    <3>1. /\ items' = Append(items, row) /\ inputLength' = inputLength
          /\ callsMade' = callsMade + Cardinality(row.calls)
          /\ turnsUsed' = turnsUsed + (IF row.role = "assistant" /\ row.calls = {} THEN 1 ELSE 0)
      BY <2>4 DEF Fold
    <3> QED
      BY <2>1, <3>1, AppendCounts
  <2>5. CASE TextEvent
    <3>1. TextRow("assistant") \in Rows
      BY DEF TextRow, Rows, Roles
    <3> QED
      BY <2>4, <2>5, <3>1 DEF TextEvent
  <2>6. ASSUME NEW c \in CallIds, CallEvent(c) \/ ResultEvent(c) PROVE Counted'
    BY <2>4, <2>6, EventRows DEF CallEvent, ResultEvent
  <2>7. CASE RetriableFailure
    <3> DEFINE kept == IF eventsSeen THEN KeptLength(items, floor) ELSE Len(items)
    <3>1. /\ items' = SubSeq(items, 1, kept) /\ inputLength' = inputLength
          /\ callsMade' = callsMade - CallsAfter(kept)
          /\ turnsUsed' = turnsUsed - TextsAfter(kept)
      BY <2>7 DEF RetriableFailure
    <3>2. kept \in 0..Len(items)
      <4>1. CASE phase = "streaming" /\ eventsSeen
        <5>1. ConsistentAt(items, floor)
          BY <4>1 DEF HistoryInv, StreamingInv
        <5>2. KeptLength(items, floor) \in floor..Len(items)
          BY <2>1, <5>1, KeptLengthFacts
        <5> QED
          BY <2>1, <4>1, <5>2
      <4>2. CASE ~(phase = "streaming" /\ eventsSeen)
        <5>1. ~eventsSeen
          BY <2>7, <4>2 DEF RetriableFailure, HistoryInv
        <5> QED
          BY <2>1, <5>1
      <4> QED
        BY <4>1, <4>2
    <3>3. Len(items') = kept
      BY <2>1, <3>1, <3>2, PrefixRows
    <3>4. inputLength <= kept
      BY <3>1, <3>3 DEF HistoryInv
    <3> HIDE DEF kept
    <3>5. inputLength \in 0..kept
      BY <2>1, <3>2, <3>4
    <3>6. CallsAfter(kept) = Cardinality(CallPairs(items, kept))
          /\ TextsAfter(kept) = Cardinality(TextPlaces(items, kept))
      BY DEF CallsAfter, TextsAfter, CallPairs, TextPlaces
    <3>7. /\ items' \in Seq(Rows) /\ kept \in Nat
          /\ Cardinality(CallPairs(items', inputLength)) \in Nat
          /\ Cardinality(TextPlaces(items', inputLength)) \in Nat
          /\ Cardinality(CallPairs(items, kept)) \in Nat
          /\ Cardinality(TextPlaces(items, kept)) \in Nat
      <4>1. items' \in Seq(Rows) /\ kept \in Nat
        BY <2>1, <3>1, <3>2, PrefixRows
      <4> QED
        BY <2>1, <4>1, CountsAreFinite
    <3>8. /\ Cardinality(CallPairs(items, inputLength)) =
               Cardinality(CallPairs(items', inputLength)) + Cardinality(CallPairs(items, kept))
          /\ Cardinality(TextPlaces(items, inputLength)) =
               Cardinality(TextPlaces(items', inputLength)) + Cardinality(TextPlaces(items, kept))
      BY <2>1, <3>1, <3>2, <3>5, TrimCounts
    <3> QED
      BY <3>1, <3>6, <3>7, <3>8
  <2>8. ASSUME NEW u \in units, CompactUnit(u) PROVE Counted'
    <3>1. /\ items' \in {items, CompactRows(items, u)}
          /\ UNCHANGED <<inputLength, callsMade, turnsUsed>>
      BY <2>8 DEF CompactUnit, execution
    <3> QED
      BY <2>1, <3>1, CompactCounts
  <2>9. CASE \/ StartAttempt \/ GiveUp \/ OpenStream \/ BareEvent \/ RefusalEvent
             \/ ResponseComplete \/ NextTurn \/ BackoffOver \/ TurnBudgetSpent \/ Raise
             \/ RetryRefusal \/ Refuse \/ Succeed \/ Return
    BY <2>3, <2>9 DEF StartAttempt, GiveUp, OpenStream, BareEvent, RefusalEvent,
       ResponseComplete, NextTurn, BackoffOver, TurnBudgetSpent, Raise, RetryRefusal,
       Refuse, Succeed, Return, execution
  <2>10. CASE UNCHANGED vars
    BY <2>3, <2>10 DEF vars, execution
  <2> QED
    BY <2>5, <2>6, <2>7, <2>8, <2>9, <2>10 DEF Next
<1> HIDE DEF Counted
<1> QED
  BY <1>1, <1>2, <1>3, RunnerTypes, HistoryHolds, PTL DEF Spec
=============================================================================
