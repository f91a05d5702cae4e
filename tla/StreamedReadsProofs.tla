------------------------- MODULE StreamedReadsProofs -------------------------
(***************************************************************************)
(* Proofs about StreamedReads, for any number of calls, whatever their     *)
(* processes write, and for any limits.  What the loops collect is         *)
(* followed line by line, by an induction over the set of lengths that     *)
(* they have been followed to.                                             *)
(***************************************************************************)
EXTENDS StreamedReads, SequenceTheorems, FiniteSetTheorems, WellFoundedInduction, TLAPS

LEMMA Counting ==
  ASSUME NEW S, 0 \in S, \A n \in Nat : n \in S => n + 1 \in S
  PROVE  \A n \in Nat : n \in S
<1> DEFINE Missed == {n \in Nat : n \notin S}
<1> SUFFICES ASSUME Missed # {} PROVE FALSE
  OBVIOUS
<1>1. \E n \in Missed : \A k \in Missed : ~(<<k, n>> \in OpToRel(<, Nat))
  BY WFMin, NatLessThanWellFounded
<1>2. PICK n \in Missed : \A k \in Missed : ~(k < n)
  BY <1>1 DEF OpToRel
<1>3. n \in Nat /\ n # 0 /\ n - 1 \in Nat /\ n - 1 < n /\ n - 1 + 1 = n
  OBVIOUS
<1> QED BY <1>2, <1>3

(* Picked is what its definition says of each place. *)
LEMMA PickedGoesOn ==
  ASSUME NEW steps, Len(steps) \in Nat, NEW S
  PROVE  /\ Picked(steps, S)[0] = <<>>
         /\ \A k \in 1..Len(steps) :
              Picked(steps, S)[k] = IF k \in S THEN Append(Picked(steps, S)[k - 1], steps[k])
                                    ELSE Picked(steps, S)[k - 1]
<1> DEFINE Step(s, k) == IF k \in S THEN Append(s, steps[k]) ELSE s
           Behind(f, m) == f = [k \in 0..m |-> IF k = 0 THEN <<>> ELSE Step(f[k - 1], k)]
           Reached == {m \in Nat : \E f : Behind(f, m)}
<1> HIDE DEF Step
<1>1. 0 \in Reached
  <2>1. Behind([k \in 0..0 |-> <<>>], 0)
    OBVIOUS
  <2> QED BY <2>1
<1>2. ASSUME NEW m \in Nat, m \in Reached
      PROVE  m + 1 \in Reached
  <2>1. PICK f : Behind(f, m)
    BY <1>2
  <2> DEFINE g == [k \in 0..(m + 1) |-> IF k = 0 THEN <<>> ELSE Step(f[k - 1], k)]
  <2>2. \A k \in 0..m : g[k] = f[k]
    BY <2>1
  <2>3. \A k \in 0..(m + 1) : k # 0 => k - 1 \in 0..m
    OBVIOUS
  <2>4. Behind(g, m + 1)
    BY <2>2, <2>3
  <2> HIDE DEF g, Behind
  <2>5. \E h : Behind(h, m + 1)
    BY <2>4
  <2> QED BY <2>5
<1>3. Len(steps) \in Reached
  <2> HIDE DEF Reached
  <2> QED BY <1>1, <1>2, Counting
<1>4. Behind(Picked(steps, S), Len(steps))
  BY <1>3 DEF Picked, Step
<1>5. /\ Picked(steps, S)[0] = <<>>
      /\ \A k \in 1..Len(steps) : Picked(steps, S)[k] = Step(Picked(steps, S)[k - 1], k)
  <2> DEFINE f == Picked(steps, S)
  <2> HIDE DEF f
  <2>1. Behind(f, Len(steps))
    BY <1>4 DEF f
  <2> QED BY <2>1 DEF f
<1> QED BY <1>5 DEF Step

LEMMA SumsGoOn ==
  ASSUME NEW numbers, Len(numbers) \in Nat
  PROVE  /\ Sums(numbers)[0] = 0
         /\ \A k \in 1..Len(numbers) : Sums(numbers)[k] = Sums(numbers)[k - 1] + numbers[k]
<1> DEFINE Behind(f, m) ==
             f = [k \in 0..m |-> IF k = 0 THEN 0 ELSE f[k - 1] + numbers[k]]
           Reached == {m \in Nat : \E f : Behind(f, m)}
<1>1. 0 \in Reached
  <2>1. Behind([k \in 0..0 |-> 0], 0)
    OBVIOUS
  <2> QED BY <2>1
<1>2. ASSUME NEW m \in Nat, m \in Reached
      PROVE  m + 1 \in Reached
  <2>1. PICK f : Behind(f, m)
    BY <1>2
  <2> DEFINE g == [k \in 0..(m + 1) |-> IF k = 0 THEN 0 ELSE f[k - 1] + numbers[k]]
  <2>2. \A k \in 0..m : g[k] = f[k]
    BY <2>1
  <2>3. \A k \in 0..(m + 1) : k # 0 => k - 1 \in 0..m
    OBVIOUS
  <2>4. Behind(g, m + 1)
    BY <2>2, <2>3
  <2> HIDE DEF g, Behind
  <2>5. \E h : Behind(h, m + 1)
    BY <2>4
  <2> QED BY <2>5
<1>3. Len(numbers) \in Reached
  <2> HIDE DEF Reached
  <2> QED BY <1>1, <1>2, Counting
<1>4. Behind(Sums(numbers), Len(numbers))
  BY <1>3 DEF Sums
<1> QED BY <1>4

(* What is picked up to k: steps, ever more of them. *)
LEMMA PickedTyped ==
  ASSUME NEW T, NEW steps \in Seq(T), NEW S, NEW k \in 0..Len(steps)
  PROVE  Picked(steps, S)[k] \in Seq({steps[i] : i \in S \cap (1..Len(steps))})
<1> DEFINE P == Seq({steps[i] : i \in S \cap (1..Len(steps))})
           all == Len(steps)
           f == Picked(steps, S)
           Typed == {n \in Nat : n <= all => f[n] \in P}
<1>1. /\ all \in Nat /\ f[0] = <<>>
      /\ \A n \in 1..all : f[n] = IF n \in S THEN Append(f[n - 1], steps[n]) ELSE f[n - 1]
  BY PickedGoesOn
<1>2. 0 \in Typed
  <2>1. <<>> \in P
    OBVIOUS
  <2> HIDE DEF P, f
  <2> QED BY <1>1, <2>1
<1>3. ASSUME NEW n \in Nat, n \in Typed
      PROVE  n + 1 \in Typed
  <2> SUFFICES ASSUME n + 1 <= all PROVE f[n + 1] \in P
    OBVIOUS
  <2>1. n + 1 \in 1..all /\ n + 1 - 1 = n /\ f[n] \in P
    BY <1>1, <1>3
  <2>2. f[n + 1] = IF n + 1 \in S THEN Append(f[n], steps[n + 1]) ELSE f[n]
    BY <1>1, <2>1
  <2> HIDE DEF f
  <2>3. n + 1 \in S => steps[n + 1] \in {steps[i] : i \in S \cap (1..Len(steps))}
    BY <2>1
  <2> QED BY <2>1, <2>2, <2>3
<1> HIDE DEF Typed
<1>4. \A n \in Nat : n \in Typed
  BY <1>2, <1>3, Counting
<1> QED BY <1>1, <1>4 DEF Typed

(* One sequence begins with another. *)
Begins(s, t) == Len(t) <= Len(s) /\ \A i \in 1..Len(t) : s[i] = t[i]

LEMMA PickedGrows ==
  ASSUME NEW T, NEW steps \in Seq(T), NEW S, NEW j \in 0..Len(steps), NEW k \in j..Len(steps)
  PROVE  /\ Picked(steps, S)[j] \in Seq(T) /\ Picked(steps, S)[k] \in Seq(T)
         /\ Begins(Picked(steps, S)[k], Picked(steps, S)[j])
<1> DEFINE all == Len(steps)
           f == Picked(steps, S)
           Grown == {n \in Nat : n >= j /\ n <= all =>
                       /\ Len(f[j]) <= Len(f[n])
                       /\ \A i \in 1..Len(f[j]) : f[n][i] = f[j][i]}
<1>1. /\ all \in Nat
      /\ \A n \in 1..all : f[n] = IF n \in S THEN Append(f[n - 1], steps[n]) ELSE f[n - 1]
  BY PickedGoesOn
<1>2. \A n \in 0..all : f[n] \in Seq(T)
  <2> TAKE n \in 0..all
  <2>1. f[n] \in Seq({steps[i] : i \in S \cap (1..all)})
    BY PickedTyped
  <2>2. {steps[i] : i \in S \cap (1..all)} \subseteq T
    OBVIOUS
  <2> HIDE DEF f
  <2> QED BY <2>1, <2>2
<1> HIDE DEF f
<1>3. 0 \in Grown
  <2>1. 0 >= j => j = 0
    OBVIOUS
  <2> QED BY <1>2, <2>1
<1>4. ASSUME NEW n \in Nat, n \in Grown
      PROVE  n + 1 \in Grown
  <2> SUFFICES ASSUME n + 1 >= j, n + 1 <= all
               PROVE  /\ Len(f[j]) <= Len(f[n + 1])
                      /\ \A i \in 1..Len(f[j]) : f[n + 1][i] = f[j][i]
    OBVIOUS
  <2>1. CASE n + 1 = j
    BY <1>2, <2>1
  <2>2. CASE n >= j
    <3>1. /\ f[n] \in Seq(T) /\ f[j] \in Seq(T)
          /\ Len(f[j]) <= Len(f[n]) /\ \A i \in 1..Len(f[j]) : f[n][i] = f[j][i]
      BY <1>1, <1>2, <1>4, <2>2
    <3>2. n + 1 \in 1..all /\ n + 1 - 1 = n
      BY <1>1
    <3>3. f[n + 1] = IF n + 1 \in S THEN Append(f[n], steps[n + 1]) ELSE f[n]
      BY <1>1, <3>2
    <3>4. steps[n + 1] \in T
      BY <3>2
    <3>5. /\ Len(Append(f[n], steps[n + 1])) = Len(f[n]) + 1
          /\ \A i \in 1..Len(f[n]) : Append(f[n], steps[n + 1])[i] = f[n][i]
      BY <3>1, <3>4, AppendProperties
    <3>6. \A i \in 1..Len(f[j]) : i \in 1..Len(f[n])
      BY <3>1
    <3> QED BY <3>1, <3>3, <3>5, <3>6
  <2> QED BY <2>1, <2>2
<1> HIDE DEF Grown
<1>5. \A n \in Nat : n \in Grown
  BY <1>3, <1>4, Counting
<1>6. /\ Len(f[j]) <= Len(f[k])
      /\ \A i \in 1..Len(f[j]) : f[k][i] = f[j][i]
  <2>1. k \in Nat /\ k >= j /\ k <= all /\ k \in Grown
    BY <1>1, <1>5
  <2> QED BY <2>1 DEF Grown
<1>7. f[j] \in Seq(T) /\ f[k] \in Seq(T)
  BY <1>1, <1>2
<1>8. Begins(f[k], f[j])
  BY <1>6 DEF Begins
<1> QED BY <1>7, <1>8 DEF f

-----------------------------------------------------------------------------
(* Sums, and the greatest and least of some numbers.                       *)

LEMMA SumsAlike ==
  ASSUME NEW s, NEW t, Len(s) \in Nat, Len(t) \in Nat, NEW m \in Nat, m <= Len(s), m <= Len(t),
         \A i \in 1..m : s[i] = t[i]
  PROVE  Sums(s)[m] = Sums(t)[m]
<1> DEFINE f == Sums(s)
           g == Sums(t)
           Alike == {n \in Nat : n <= m => f[n] = g[n]}
<1>1. /\ f[0] = 0 /\ g[0] = 0
      /\ \A n \in 1..m : f[n] = f[n - 1] + s[n] /\ g[n] = g[n - 1] + t[n]
  BY SumsGoOn
<1> HIDE DEF f, g
<1>2. 0 \in Alike
  BY <1>1
<1>3. ASSUME NEW n \in Nat, n \in Alike
      PROVE  n + 1 \in Alike
  <2> SUFFICES ASSUME n + 1 <= m PROVE f[n + 1] = g[n + 1]
    OBVIOUS
  <2>1. n + 1 \in 1..m /\ n + 1 - 1 = n /\ f[n] = g[n]
    BY <1>3
  <2> QED BY <1>1, <2>1
<1> HIDE DEF Alike
<1>4. m \in Alike
  BY <1>2, <1>3, Counting
<1> QED BY <1>4 DEF Alike, f, g

LEMMA SumsTyped ==
  ASSUME NEW s \in Seq(Nat)
  PROVE  Total(s) \in Nat
<1> DEFINE f == Sums(s)
           Typed == {n \in Nat : n <= Len(s) => f[n] \in Nat}
<1>1. /\ f[0] = 0
      /\ \A n \in 1..Len(s) : f[n] = f[n - 1] + s[n]
  BY SumsGoOn
<1> HIDE DEF f
<1>2. 0 \in Typed
  BY <1>1
<1>3. ASSUME NEW n \in Nat, n \in Typed
      PROVE  n + 1 \in Typed
  <2> SUFFICES ASSUME n + 1 <= Len(s) PROVE f[n + 1] \in Nat
    OBVIOUS
  <2>1. n + 1 \in 1..Len(s) /\ n + 1 - 1 = n /\ f[n] \in Nat
    BY <1>3
  <2> QED BY <1>1, <2>1, SMTT(30)
<1> HIDE DEF Typed
<1>4. Len(s) \in Typed
  BY <1>2, <1>3, Counting
<1> QED BY <1>4 DEF Typed, Total, f

(* One more number. *)
LEMMA TotalOfMore ==
  ASSUME NEW s \in Seq(Nat), NEW t \in Seq(Nat), Len(t) = Len(s) + 1,
         \A i \in 1..Len(s) : t[i] = s[i]
  PROVE  Total(t) = Total(s) + t[Len(t)] /\ Total(s) \in Nat /\ t[Len(t)] \in Nat
<1>1. Len(t) \in 1..Len(t) /\ Len(t) - 1 = Len(s) /\ Len(s) \in Nat /\ Len(s) <= Len(t)
  OBVIOUS
<1>2. Sums(t)[Len(t)] = Sums(t)[Len(s)] + t[Len(t)]
  BY <1>1, SumsGoOn, SMTT(30)
<1>3. Sums(t)[Len(s)] = Sums(s)[Len(s)]
  BY <1>1, SumsAlike, SMTT(30)
<1> QED BY <1>1, <1>2, <1>3, SumsTyped DEF Total

LEMMA TotalOfNone ==
  ASSUME NEW s, Len(s) = 0
  PROVE  Total(s) = 0
BY SumsGoOn DEF Total

LEMMA MaxIsGreatest ==
  ASSUME NEW S, S # {}, S \subseteq Nat, NEW n \in Nat, \A k \in S : k <= n
  PROVE  Max(S) \in S /\ \A k \in S : k <= Max(S)
<1> DEFINE Back == {d \in Nat : d <= n /\ n - d \in S}
<1>1. Back \subseteq Nat /\ Back # {}
  <2>1. PICK k \in S : TRUE
    OBVIOUS
  <2>2. n - k \in Nat /\ n - k <= n /\ n - (n - k) = k
    BY <2>1
  <2>3. n - k \in Back
    BY <2>1, <2>2
  <2> QED BY <2>3
<1> HIDE DEF Back
<1>2. \E d \in Back : \A e \in Back : ~(<<e, d>> \in OpToRel(<, Nat))
  BY <1>1, WFMin, NatLessThanWellFounded
<1>3. PICK d \in Back : \A e \in Back : ~(e < d)
  BY <1>1, <1>2 DEF OpToRel
<1>4. d \in Nat /\ n - d \in S
  BY <1>3 DEF Back
<1>5. ASSUME NEW k \in S
      PROVE  k <= n - d
  <2>1. n - k \in Nat /\ n - k <= n /\ n - (n - k) = k
    OBVIOUS
  <2>2. n - k \in Back
    BY <2>1 DEF Back
  <2>3. ~(n - k < d)
    BY <1>3, <2>2
  <2> QED BY <1>4, <2>1, <2>3
<1>6. \E m \in S : \A k \in S : m >= k
  BY <1>4, <1>5
<1>7. Max(S) \in S /\ \A k \in S : Max(S) >= k
  BY <1>6 DEF Max
<1> QED BY <1>7

LEMMA MinOfTwo ==
  ASSUME NEW a \in Int, NEW b \in Int
  PROVE  Min({a, b}) = IF a <= b THEN a ELSE b
<1>1. \E m \in {a, b} : \A k \in {a, b} : m <= k
  OBVIOUS
<1>2. Min({a, b}) \in {a, b} /\ \A k \in {a, b} : Min({a, b}) <= k
  BY <1>1 DEF Min
<1> QED BY <1>2

-----------------------------------------------------------------------------
(* The views.                                                              *)

(* What fits behind more fits behind less. *)
LEMMA FitsBefore ==
  ASSUME NEW lines \in Seq(Nat), NEW offset \in 1..Len(lines), NEW k \in offset..Len(lines),
         k + 1 <= Len(lines), Fits(lines, offset, k + 1)
  PROVE  Fits(lines, offset, k)
<1> DEFINE Entry(i) == EntrySize(lines[offset + i - 1]) + 1
           n == k - offset
           s == [i \in 1..(k - offset) |-> Entry(i)]
           t == [i \in 1..(k + 1 - offset) |-> Entry(i)]
<1>1. \A i \in 1..Len(lines) : EntrySize(lines[i]) \in Nat
  BY CodeViewsAssumption DEF EntrySize
<1>2. n \in Nat /\ k + 1 - offset = n + 1
  OBVIOUS
<1>3. \A i \in 1..(n + 1) : Entry(i) \in Nat
  <2> TAKE i \in 1..(n + 1)
  <2>1. offset + i - 1 \in 1..Len(lines)
    OBVIOUS
  <2>2. EntrySize(lines[offset + i - 1]) \in Nat
    BY <1>1, <2>1
  <2> QED BY <2>2
<1>4. Entry(n + 1) = EntrySize(lines[k]) + 1
  <2>1. offset + (n + 1) - 1 = k
    OBVIOUS
  <2> QED BY <2>1
<1> HIDE DEF Entry
<1>5. s = [i \in 1..n |-> Entry(i)] /\ t = [i \in 1..(n + 1) |-> Entry(i)]
  BY <1>2
<1> HIDE DEF n, s, t
<1>6. /\ s \in Seq(Nat) /\ t \in Seq(Nat) /\ Len(s) = n /\ Len(t) = n + 1
      /\ \A i \in 1..Len(s) : t[i] = s[i]
      /\ t[Len(t)] = Entry(n + 1)
  <2>1. n + 1 \in 1..(n + 1) /\ \A i \in 1..n : i \in 1..(n + 1)
    BY <1>2
  <2>2. s \in Seq(Nat) /\ Len(s) = n
    BY <1>2, <1>3, <1>5, <2>1
  <2>3. t \in Seq(Nat) /\ Len(t) = n + 1
    BY <1>2, <1>3, <1>5
  <2> QED BY <1>5, <2>1, <2>2, <2>3
<1>7. Total(s) + EntrySize(lines[k]) + 1 = Total(t) /\ Total(s) \in Nat
  <2>1. Total(t) = Total(s) + Entry(n + 1) /\ Total(s) \in Nat
    BY <1>6, TotalOfMore
  <2>2. EntrySize(lines[k]) \in Nat
    BY <1>1
  <2> QED BY <1>4, <2>1, <2>2
<1>8. Total(t) + EntrySize(lines[k + 1]) <= Budget
  BY DEF Fits, t, Entry
<1>9. EntrySize(lines[k]) \in Nat /\ EntrySize(lines[k + 1]) \in Nat
  <2>1. k \in 1..Len(lines) /\ k + 1 \in 1..Len(lines)
    OBVIOUS
  <2> QED BY <1>1, <2>1
<1>10. Budget \in Nat
  BY CodeViewsAssumption
<1>11. Total(s) + EntrySize(lines[k]) <= Budget
  <2> HIDE DEF s, t
  <2> QED BY <1>7, <1>8, <1>9, <1>10
<1> QED BY <1>11 DEF Fits, s, Entry

(* The first line of a window always fits. *)
LEMMA FirstFits ==
  ASSUME NEW lines \in Seq(Nat), NEW offset \in 1..Len(lines)
  PROVE  Fits(lines, offset, offset)
<1> DEFINE s == [i \in 1..(offset - offset) |-> EntrySize(lines[offset + i - 1]) + 1]
<1>1. Len(s) = 0
  <2>1. offset - offset = 0 /\ 1..0 = {}
    OBVIOUS
  <2> QED BY <2>1
<1> HIDE DEF s
<1>2. Total(s) = 0
  BY <1>1, TotalOfNone
<1>3. lines[offset] \in Nat
  OBVIOUS
<1>4. Total(s) + EntrySize(lines[offset]) <= Budget
  BY <1>2, <1>3, CodeViewsAssumption DEF EntrySize
<1> QED BY <1>4 DEF Fits, s

LEMMA AlwaysTiles ==
  ASSUME NEW lines \in Seq(Nat)
  PROVE  WindowsTile(lines)
<1> SUFFICES ASSUME NEW offset \in 1..Len(lines), NEW limit \in 1..Len(lines)
             PROVE  LET w == RenderNumberedWindow(lines, offset, limit)
                    IN  /\ w.start = offset /\ w.shown = offset..w.end
                        /\ w.truncated <=> \/ w.end < Min({offset + limit - 1, Len(lines)})
                                           \/ \E k \in w.shown : lines[k] > LineCap
  BY DEF WindowsTile
<1> DEFINE last == Min({offset + limit - 1, Len(lines)})
           shown == {k \in offset..last : Fits(lines, offset, k)}
           end == Max(shown)
<1>1. last \in offset..Len(lines)
  <2>1. offset + limit - 1 \in Int /\ Len(lines) \in Int
    OBVIOUS
  <2>2. last = IF offset + limit - 1 <= Len(lines) THEN offset + limit - 1 ELSE Len(lines)
    BY <2>1, MinOfTwo
  <2> HIDE DEF last
  <2> QED BY <2>2
<1> HIDE DEF last
<1>2. offset \in shown /\ shown \subseteq Nat /\ \A k \in shown : k <= last
  BY <1>1, FirstFits
<1>3. end \in shown /\ \A k \in shown : k <= end
  <2>1. last \in Nat /\ shown # {}
    BY <1>1, <1>2
  <2> HIDE DEF shown
  <2> QED BY <1>2, <2>1, MaxIsGreatest
<1>4. end \in offset..last /\ Fits(lines, offset, end)
  BY <1>3
<1> HIDE DEF end
<1>5. ASSUME NEW k \in offset..end
      PROVE  Fits(lines, offset, k)
  <2> DEFINE Down == {n \in Nat : n <= end - offset => Fits(lines, offset, end - n)}
  <2>1. 0 \in Down
    BY <1>4
  <2>2. ASSUME NEW n \in Nat, n \in Down
        PROVE  n + 1 \in Down
    <3> SUFFICES ASSUME n + 1 <= end - offset PROVE Fits(lines, offset, end - (n + 1))
      OBVIOUS
    <3> DEFINE j == end - (n + 1)
    <3>1. j \in offset..Len(lines) /\ j + 1 <= Len(lines) /\ j + 1 = end - n /\ n <= end - offset
      BY <1>1, <1>4
    <3>2. Fits(lines, offset, j + 1)
      BY <2>2, <3>1
    <3> HIDE DEF j
    <3> QED BY <3>1, <3>2, FitsBefore DEF j
  <2>3. end - k \in Nat /\ end - k <= end - offset /\ end - (end - k) = k
    BY <1>1, <1>4
  <2> HIDE DEF Down
  <2>4. end - k \in Down
    BY <2>1, <2>2, <2>3, Counting
  <2> QED BY <2>3, <2>4 DEF Down
<1>6. shown = offset..end
  <2>1. \A k \in shown : k \in offset..end
    BY <1>3
  <2>2. \A k \in offset..end : k \in offset..last
    BY <1>1, <1>4
  <2>3. \A k \in offset..end : k \in shown
    BY <1>5, <2>2
  <2> QED BY <2>1, <2>3
<1>7. Min(shown) = offset
  <2>1. \A k \in shown : offset <= k
    OBVIOUS
  <2>2. \A m \in shown : (\A k \in shown : m <= k) => m = offset
    BY <1>2, <2>1
  <2> QED BY <1>2, <2>1, <2>2 DEF Min
<1>8. shown # offset..last <=> end < last
  <2> HIDE DEF shown
  <2>1. end \in Int /\ last \in Int /\ offset \in Int /\ offset <= end /\ end <= last
    BY <1>1, <1>4
  <2>2. last \in offset..last
    BY <2>1
  <2>3. last \in offset..end => last <= end
    BY <2>1
  <2> QED BY <1>6, <2>1, <2>2, <2>3
<1> DEFINE w == RenderNumberedWindow(lines, offset, limit)
<1>9. /\ w.shown = shown /\ w.start = offset /\ w.end = end
      /\ w.truncated <=> shown # offset..last \/ \E k \in shown : lines[k] > LineCap
  <2>1. shown # {}
    BY <1>2
  <2>2. w = [shown |-> shown, start |-> IF shown = {} THEN 0 ELSE Min(shown),
             end |-> IF shown = {} THEN 0 ELSE Max(shown), total |-> Len(lines),
             truncated |-> shown # offset..last \/ \E k \in shown : lines[k] > LineCap]
    BY DEF RenderNumberedWindow, last
  <2> HIDE DEF shown, w
  <2> QED BY <1>7, <2>1, <2>2 DEF end
<1> HIDE DEF shown, w
<1>10. w.truncated <=> end < last \/ \E k \in w.shown : lines[k] > LineCap
  BY <1>8, <1>9
<1> QED BY <1>6, <1>9, <1>10 DEF w, last

LEMMA ImageFinite ==
  ASSUME NEW f, IsFiniteSet(DOMAIN f)
  PROVE  IsFiniteSet({f[x] : x \in DOMAIN f})
<1> DEFINE image == {f[x] : x \in DOMAIN f}
           g == [x \in DOMAIN f |-> f[x]]
<1>1. g \in [DOMAIN f -> image] /\ \A y \in image : \E x \in DOMAIN f : g[x] = y
  OBVIOUS
<1> HIDE DEF image, g
<1>2. g \in Surjection(DOMAIN f, image)
  BY <1>1 DEF Surjection
<1> QED BY <1>2, FS_Surjection DEF image

LEMMA VisibleFinite ==
  ASSUME NEW lines \in Seq(TextLines)
  PROVE  IsFiniteSet(Visible(PathsOf(lines))) /\ PathsOf(lines) \subseteq Seq(Nat)
<1> DEFINE paths == PathsOf(lines)
           Parents(p) == {SubSeq(p, 1, d) : d \in 1..Min({Len(p), TreeMaxDepth - 1})}
           above == {Parents(p) : p \in paths}
<1>1. IsFiniteSet(paths) /\ paths \subseteq Seq(Nat)
  <2> DEFINE f == [i \in 1..Len(lines) |-> lines[i].path]
  <2>1. IsFiniteSet(1..Len(lines))
    BY FS_Interval
  <2>2. DOMAIN f = 1..Len(lines) /\ paths = {f[i] : i \in DOMAIN f}
    BY DEF PathsOf
  <2>3. \A i \in 1..Len(lines) : lines[i].path \in Seq(Nat)
    <3> TAKE i \in 1..Len(lines)
    <3>1. lines[i] \in TextLines
      OBVIOUS
    <3> QED BY <3>1 DEF TextLines
  <2>4. paths \subseteq Seq(Nat)
    BY <2>3 DEF PathsOf
  <2> HIDE DEF f, paths
  <2> QED BY <2>1, <2>2, <2>4, ImageFinite
<1> HIDE DEF paths
<1>2. ASSUME NEW p \in paths
      PROVE  IsFiniteSet(Parents(p))
  <2> DEFINE deep == Min({Len(p), TreeMaxDepth - 1})
             f == [d \in 1..deep |-> SubSeq(p, 1, d)]
  <2>1. Len(p) \in Int /\ TreeMaxDepth - 1 \in Int
    BY <1>1, CodeViewsAssumption
  <2>2. deep \in Int
    BY <2>1, MinOfTwo
  <2> HIDE DEF deep
  <2>3. IsFiniteSet(DOMAIN f)
    BY <2>2, FS_Interval
  <2>4. Parents(p) = {f[d] : d \in DOMAIN f}
    BY DEF deep
  <2> HIDE DEF f, Parents
  <2> QED BY <2>3, <2>4, ImageFinite
<1> HIDE DEF Parents
<1>3. IsFiniteSet(above)
  <2> DEFINE f == [p \in paths |-> Parents(p)]
  <2>1. DOMAIN f = paths /\ above = {f[p] : p \in DOMAIN f}
    OBVIOUS
  <2> HIDE DEF f, above
  <2> QED BY <1>1, <2>1, ImageFinite
<1>4. \A T \in above : IsFiniteSet(T)
  BY <1>2
<1>5. Visible(paths) = UNION above
  BY DEF Visible, Parents
<1> HIDE DEF above
<1> QED BY <1>1, <1>3, <1>4, <1>5, FS_UNION DEF paths

(* Below the cap, the walk shows everything that is above the depth cap. *)
LEMMA WholeBelowCap ==
  ASSUME NEW paths, IsFiniteSet(Visible(paths)), Cardinality(Visible(paths)) <= TreeMaxEntries
  PROVE  BuildTree(paths).entries = Visible(paths)
<1> DEFINE all == Visible(paths)
<1> HIDE DEF all
<1>1. ASSUME NEW e \in all
      PROVE  Cardinality({a \in all : WalkedBefore(paths, a, e)}) < TreeMaxEntries
  <2> DEFINE before == {a \in all : WalkedBefore(paths, a, e)}
  <2>1. ~WalkedBefore(paths, e, e)
    <3>1. e = e /\ ~IsStrictPrefix(e, e)
      BY DEF IsStrictPrefix
    <3>2. IsPrefix(e, e)
      BY DEF IsPrefix
    <3> QED BY <3>1, <3>2 DEF WalkedBefore
  <2>2. before \in SUBSET (all \ {e})
    BY <2>1
  <2>3. /\ IsFiniteSet(all) /\ IsFiniteSet(all \ {e})
        /\ Cardinality(all) \in Nat /\ Cardinality(all \ {e}) = Cardinality(all) - 1
    BY <1>1, FS_RemoveElement, FS_CardinalityType DEF all
  <2> HIDE DEF before
  <2>4. IsFiniteSet(before) /\ Cardinality(before) <= Cardinality(all) - 1
    BY <2>2, <2>3, FS_Subset
  <2>5. Cardinality(before) \in Nat /\ Cardinality(all) <= TreeMaxEntries /\ TreeMaxEntries \in Nat
    BY <2>4, FS_CardinalityType, CodeViewsAssumption DEF all
  <2>6. Cardinality(before) < TreeMaxEntries
    BY <2>3, <2>4, <2>5
  <2> QED BY <2>6 DEF before
<1>2. {e \in all : Cardinality({a \in all : WalkedBefore(paths, a, e)}) < TreeMaxEntries} = all
  BY <1>1
<1> QED BY <1>2 DEF BuildTree, all

LEMMA AlwaysAnOverview ==
  ASSUME NEW lines \in Seq(TextLines), \A i \in 1..Len(lines) : lines[i].path # <<>>
  PROVE  OverviewOf(PathsOf(lines), lines)
<1> DEFINE paths == PathsOf(lines)
           shown == BuildTree(paths)
<1>1. IsFiniteSet(Visible(paths)) /\ paths \subseteq Seq(Nat)
  BY VisibleFinite
<1>2. \A p \in paths : p # <<>>
  BY DEF PathsOf
<1>3. /\ shown.entryCapped <=> Cardinality(Visible(paths)) > TreeMaxEntries
      /\ shown.depthCapped = {e \in shown.entries : Len(e) = TreeMaxDepth - 1 /\ IsDir(paths, e)}
  BY DEF BuildTree
<1> HIDE DEF paths, shown
<1>4. CASE ~shown.entryCapped
  <2>1. shown.entries = Visible(paths)
    <3>1. Cardinality(Visible(paths)) <= TreeMaxEntries
      BY <1>1, <1>3, <1>4, FS_CardinalityType, CodeViewsAssumption
    <3> QED BY <1>1, <3>1, WholeBelowCap DEF shown
  <2>2. ASSUME NEW p \in paths
        PROVE  \/ p \in shown.entries
               \/ /\ FirstOf(p, TreeMaxDepth - 1) \in shown.depthCapped
                  /\ Visible({p}) \subseteq shown.entries
    <3> DEFINE cap == TreeMaxDepth - 1
               deep == Min({Len(p), cap})
    <3>1. p \in Seq(Nat) /\ Len(p) \in Nat /\ Len(p) >= 1 /\ cap \in Nat /\ cap >= 1
      BY <1>1, <1>2, CodeViewsAssumption
    <3>2. deep = IF Len(p) <= cap THEN Len(p) ELSE cap
      BY <3>1, MinOfTwo
    <3> DEFINE Parents(q) == {SubSeq(q, 1, d) : d \in 1..Min({Len(q), TreeMaxDepth - 1})}
    <3>3. \A S : Visible(S) = UNION {Parents(q) : q \in S}
      BY DEF Visible
    <3>4. \A d \in 1..deep : SubSeq(p, 1, d) \in Parents(p)
      OBVIOUS
    <3> HIDE DEF Parents
    <3>5. Visible({p}) \subseteq Visible(paths)
      BY <3>3
    <3>6. \A d \in 1..deep : SubSeq(p, 1, d) \in Visible(paths)
      BY <3>3, <3>4
    <3>7. CASE Len(p) <= cap
      <4>1. SubSeq(p, 1, Len(p)) = p /\ Len(p) \in 1..deep
        BY <3>1, <3>2, <3>7
      <4> QED BY <2>1, <3>6, <4>1
    <3>8. CASE Len(p) > cap
      <4> DEFINE e == SubSeq(p, 1, cap)
      <4>1. deep = cap /\ cap \in 1..deep
        BY <3>1, <3>2, <3>8
      <4>2. e \in Visible(paths)
        BY <3>6, <4>1
      <4>3. FirstOf(p, cap) = e
        <5>1. Min({cap, Len(p)}) = cap
          BY <3>1, <3>8, MinOfTwo
        <5> QED BY <5>1 DEF FirstOf
      <4>4. e \in Seq(Nat) /\ Len(e) = cap /\ \A i \in 1..cap : e[i] = p[i]
        BY <3>1, <3>8, SubSeqProperties
      <4>5. IsStrictPrefix(e, p)
        <5>1. SubSeq(e, 1, cap) = e
          BY <3>1, <4>4
        <5> HIDE DEF cap
        <5>2. Len(e) <= Len(p) /\ e # p /\ SubSeq(e, 1, Len(e)) = SubSeq(p, 1, Len(e))
          BY <3>1, <3>8, <4>4, <5>1
        <5> QED BY <5>2 DEF IsPrefix, IsStrictPrefix
      <4>6. IsDir(paths, e)
        BY <4>5 DEF IsDir
      <4>7. e \in shown.depthCapped
        BY <1>3, <2>1, <4>2, <4>4, <4>6
      <4> QED BY <2>1, <3>5, <4>3, <4>7
    <3>9. Len(p) <= cap \/ Len(p) > cap
      <4> HIDE DEF cap
      <4> QED BY <3>1
    <3> QED BY <3>7, <3>8, <3>9
  <2> QED BY <2>2 DEF OverviewOf, shown, paths
<1> QED BY <1>4 DEF OverviewOf, shown, paths

-----------------------------------------------------------------------------
(* The loop of blame.                                                      *)

LEMMA MaxOfTop ==
  ASSUME NEW i \in Nat, NEW S, S \subseteq 1..i, i \in S
  PROVE  Max(S) = i
<1>1. \A k \in S : i >= k
  OBVIOUS
<1>2. \A m \in S : (\A k \in S : m >= k) => m = i
  OBVIOUS
<1> QED BY <1>1, <1>2 DEF Max

LEMMA LastOfStep ==
  ASSUME NEW lines, NEW kind, NEW i \in Nat, i > 0
  PROVE  LastOf(lines, kind, i) = IF lines[i].kind = kind THEN lines[i].value
                                  ELSE LastOf(lines, kind, i - 1)
<1> DEFINE those == {k \in 1..i : lines[k].kind = kind}
<1>1. CASE lines[i].kind = kind
  <2>1. i \in those /\ those \subseteq 1..i
    BY <1>1
  <2> HIDE DEF those
  <2>2. Max(those) = i
    BY <2>1, MaxOfTop
  <2> QED BY <1>1, <2>1, <2>2 DEF LastOf, those
<1>2. CASE lines[i].kind # kind
  <2>1. those = {k \in 1..(i - 1) : lines[k].kind = kind}
    BY <1>2
  <2> QED BY <1>2, <2>1 DEF LastOf
<1> QED BY <1>1, <1>2

LEMMA LastMarkStep ==
  ASSUME NEW lines, NEW i \in Nat, i > 0
  PROVE  LastMark(lines, i) = IF lines[i].kind # "other" THEN lines[i].kind
                              ELSE LastMark(lines, i - 1)
<1> DEFINE marks == {k \in 1..i : lines[k].kind # "other"}
<1>1. CASE lines[i].kind # "other"
  <2>1. i \in marks /\ marks \subseteq 1..i
    BY <1>1
  <2> HIDE DEF marks
  <2>2. Max(marks) = i
    BY <2>1, MaxOfTop
  <2> QED BY <1>1, <2>1, <2>2 DEF LastMark, marks
<1>2. CASE lines[i].kind = "other"
  <2>1. marks = {k \in 1..(i - 1) : lines[k].kind # "other"}
    BY <1>2
  <2> QED BY <1>2, <2>1 DEF LastMark
<1> QED BY <1>1, <1>2

About == [author : Nat, summary : Nat]
Entries == [commit : Nat, about : About]
Knowns == UNION {[D -> About] : D \in SUBSET Nat}

(* What the variables of blame are behind n lines: the records it has      *)
(* ended, what the open one has said so far, and of each commit that it    *)
(* has met the author that is named wherever the commit is.                *)
BlameKnows(lines, n, b) ==
  LET mark == LastMark(lines, n)
  IN  /\ b \in [lines : Seq(Entries), commit : Nat, author : Nat, summary : Nat, known : Knowns]
      /\ b.lines = Picked(Records(lines), Contents(lines))[n]
      /\ mark \in {"header", "author", "summary", "content"}
      /\ mark = "content" => b.commit = 0
      /\ mark # "content" => b.commit # 0 /\ b.commit = LastOf(lines, "header", n)
      /\ mark \in {"author", "summary"} =>
           /\ b.commit \in DOMAIN b.known
           /\ b.known[b.commit].author = LastOf(lines, "author", n)
      /\ mark = "summary" => b.known[b.commit].summary = LastOf(lines, "summary", n)
      /\ \A x \in DOMAIN b.known :
           /\ b.known[x].author # 0
           /\ \A i \in 1..Len(lines) :
                lines[i].kind = "author" /\ LastOf(lines, "header", i) = x
                  => lines[i].value = b.known[x].author

Gained(known, commit, about) ==
  LET wider == Learned(known, commit, about)
  IN  /\ wider \in Knowns /\ DOMAIN wider = DOMAIN known \cup {commit}
      /\ wider[commit] = about
      /\ \A x \in DOMAIN known : x # commit => wider[x] = known[x]

LEMMA LearnedTyped ==
  ASSUME NEW known \in Knowns, NEW commit \in Nat, NEW about \in About
  PROVE  Gained(known, commit, about)
<1> DEFINE wider == Learned(known, commit, about)
           D == DOMAIN known \cup {commit}
<1>1. PICK E \in SUBSET Nat : known \in [E -> About]
  BY DEF Knowns
<1>2. D \in SUBSET Nat
  BY <1>1
<1>3. wider = [x \in D |-> IF x = commit THEN about ELSE known[x]]
  BY DEF Learned
<1> HIDE DEF wider
<1>4. wider \in [D -> About]
  BY <1>1, <1>3
<1>5. wider \in Knowns
  <2> HIDE DEF D
  <2> QED BY <1>2, <1>4 DEF Knowns
<1>6. DOMAIN wider = D /\ wider[commit] = about
  BY <1>3
<1>7. \A x \in DOMAIN known : x # commit => wider[x] = known[x]
  BY <1>3
<1> QED BY <1>5, <1>6, <1>7 DEF wider, Gained

LEMMA BlameGoesOn ==
  ASSUME NEW lines \in Seq(BlameLines), Porcelain(lines), NEW i \in 1..Len(lines), NEW b,
         BlameKnows(lines, i - 1, b)
  PROVE  BlameKnows(lines, i, BlameStep(b, lines[i]))
<1> DEFINE line == lines[i]
           then == BlameStep(b, line)
           before == LastMark(lines, i - 1)
           picked == Picked(Records(lines), Contents(lines))
           after == LastMark(lines, i)
           header == LastOf(lines, "header", i)
           author == LastOf(lines, "author", i)
           summary == LastOf(lines, "summary", i)
           Knows(t) ==
             /\ t \in [lines : Seq(Entries), commit : Nat, author : Nat, summary : Nat, known : Knowns]
             /\ t.lines = picked[i]
             /\ after \in {"header", "author", "summary", "content"}
             /\ after = "content" => t.commit = 0
             /\ after # "content" => t.commit # 0 /\ t.commit = header
             /\ after \in {"author", "summary"} =>
                  t.commit \in DOMAIN t.known /\ t.known[t.commit].author = author
             /\ after = "summary" => t.known[t.commit].summary = summary
             /\ \A x \in DOMAIN t.known :
                  /\ t.known[x].author # 0
                  /\ \A j \in 1..Len(lines) :
                       lines[j].kind = "author" /\ LastOf(lines, "header", j) = x
                         => lines[j].value = t.known[x].author
<1>1. i \in Nat /\ i > 0 /\ i - 1 \in Nat
  OBVIOUS
<1>2. /\ line.kind \in {"header", "author", "summary", "content", "other"} /\ line.value \in Nat
  <2>1. line \in BlameLines
    OBVIOUS
  <2> QED BY <2>1 DEF BlameLines
<1>3. /\ b \in [lines : Seq(Entries), commit : Nat, author : Nat, summary : Nat, known : Knowns]
      /\ b.lines = picked[i - 1]
      /\ before \in {"header", "author", "summary", "content"}
      /\ before = "content" => b.commit = 0
      /\ before # "content" => b.commit # 0 /\ b.commit = LastOf(lines, "header", i - 1)
      /\ before \in {"author", "summary"} =>
           /\ b.commit \in DOMAIN b.known
           /\ b.known[b.commit].author = LastOf(lines, "author", i - 1)
      /\ before = "summary" => b.known[b.commit].summary = LastOf(lines, "summary", i - 1)
      /\ \A x \in DOMAIN b.known :
           /\ b.known[x].author # 0
           /\ \A j \in 1..Len(lines) :
                lines[j].kind = "author" /\ LastOf(lines, "header", j) = x
                  => lines[j].value = b.known[x].author
  BY DEF BlameKnows
<1>4. line.kind # "other" =>
        /\ before = [header |-> "content", author |-> "header", summary |-> "author",
                     content |-> "summary"][line.kind]
        /\ line.kind # "content" => line.value # 0
  BY DEF Porcelain
<1>5. line.kind = "author" =>
        \A j \in 1..Len(lines) :
          lines[j].kind = "author" /\ LastOf(lines, "header", j) = LastOf(lines, "header", i)
            => lines[j].value = line.value
  BY DEF Porcelain
<1>6. \A kind : LastOf(lines, kind, i) = IF line.kind = kind THEN line.value
                                         ELSE LastOf(lines, kind, i - 1)
  BY <1>1, LastOfStep
<1>7. after = IF line.kind # "other" THEN line.kind ELSE before
  BY <1>1, LastMarkStep
<1>8. picked[i] = IF line.kind = "content" THEN Append(picked[i - 1], Records(lines)[i])
                  ELSE picked[i - 1]
  <2>1. Len(Records(lines)) = Len(lines) /\ (i \in Contents(lines) <=> line.kind = "content")
    BY DEF Records, Contents
  <2> QED BY <2>1, PickedGoesOn
<1>9. b.known \in Knowns /\ b.commit \in Nat /\ b.lines \in Seq(Entries) /\ b.author \in Nat
      /\ b.summary \in Nat /\ \A x \in DOMAIN b.known : b.known[x] \in About
  <2>1. b.known \in Knowns
    BY <1>3
  <2>2. PICK D \in SUBSET Nat : b.known \in [D -> About]
    BY <2>1 DEF Knowns
  <2> QED BY <1>3, <2>2
<1>15. /\ header = IF line.kind = "header" THEN line.value ELSE LastOf(lines, "header", i - 1)
       /\ author = IF line.kind = "author" THEN line.value ELSE LastOf(lines, "author", i - 1)
       /\ summary = IF line.kind = "summary" THEN line.value ELSE LastOf(lines, "summary", i - 1)
  BY <1>6
<1>16. Knows(then) => BlameKnows(lines, i, then)
  <2> HIDE DEF then
  <2> QED BY DEF BlameKnows
<1> HIDE DEF line, before, picked, after, header, author, summary
<1>10. CASE line.kind = "other"
  <2>1. then = b
    BY <1>10 DEF BlameStep
  <2>2. header = LastOf(lines, "header", i - 1) /\ author = LastOf(lines, "author", i - 1)
        /\ summary = LastOf(lines, "summary", i - 1) /\ after = before /\ picked[i] = picked[i - 1]
    BY <1>7, <1>8, <1>10, <1>15
  <2>3. Knows(b)
    BY <1>3, <2>2
  <2> HIDE DEF Knows, then
  <2> QED BY <1>16, <2>1, <2>3 DEF then, line
<1>11. CASE line.kind = "header"
  <2>1. then = [b EXCEPT !.commit = line.value]
    BY <1>11 DEF BlameStep
  <2>2. /\ then \in [lines : Seq(Entries), commit : Nat, author : Nat, summary : Nat, known : Knowns]
        /\ then.lines = b.lines /\ then.commit = line.value /\ then.known = b.known
    BY <1>2, <1>3, <2>1
  <2>3. line.value # 0
    BY <1>4, <1>11
  <2> HIDE DEF then
  <2>4. after = "header" /\ header = line.value /\ picked[i] = picked[i - 1]
    BY <1>7, <1>8, <1>11, <1>15
  <2>5. Knows(then)
    BY <1>3, <2>2, <2>3, <2>4
  <2> HIDE DEF Knows, then
  <2> QED BY <1>16, <2>5 DEF then, line
<1>12. CASE line.kind = "author"
  <2> DEFINE about == [author |-> line.value, summary |-> b.summary]
             known == IF b.commit \in DOMAIN b.known THEN b.known
                      ELSE Learned(b.known, b.commit, about)
  <2>1. before = "header" /\ line.value # 0
    BY <1>4, <1>12
  <2>2. b.commit # 0 /\ b.commit = header
    BY <1>3, <1>12, <1>15, <2>1
  <2>3. then = [b EXCEPT !.author = line.value, !.known = known]
    BY <1>12, <2>2 DEF BlameStep
  <2>4. about \in About /\ about.author = line.value
    BY <1>2, <1>9 DEF About
  <2> HIDE DEF about
  <2>5. /\ known \in Knowns /\ b.commit \in DOMAIN known
        /\ DOMAIN known = DOMAIN b.known \cup {b.commit}
        /\ b.commit \notin DOMAIN b.known => known[b.commit] = about
        /\ \A x \in DOMAIN b.known : known[x] = b.known[x]
    <3> DEFINE wider == Learned(b.known, b.commit, about)
    <3>1. /\ wider \in Knowns /\ DOMAIN wider = DOMAIN b.known \cup {b.commit}
          /\ wider[b.commit] = about
          /\ \A x \in DOMAIN b.known : x # b.commit => wider[x] = b.known[x]
      <4>1. b.known \in Knowns /\ b.commit \in Nat /\ about \in About
        BY <1>9, <2>4
      <4>2. Gained(b.known, b.commit, about)
        BY <4>1, LearnedTyped
      <4> QED BY <4>2 DEF Gained
    <3> HIDE DEF wider
    <3> QED BY <1>9, <3>1 DEF wider
  <2> HIDE DEF known
  <2>6. known[b.commit].author = line.value
    <3>1. b.commit \in DOMAIN b.known => line.value = b.known[b.commit].author
      BY <1>3, <1>12, <2>2 DEF line, header
    <3> QED BY <2>4, <2>5, <3>1
  <2>7. \A x \in DOMAIN known :
          /\ known[x].author # 0
          /\ \A j \in 1..Len(lines) :
               lines[j].kind = "author" /\ LastOf(lines, "header", j) = x
                 => lines[j].value = known[x].author
    <3>1. \A j \in 1..Len(lines) :
            lines[j].kind = "author" /\ LastOf(lines, "header", j) = b.commit
              => lines[j].value = line.value
      BY <1>5, <1>12, <2>2 DEF header
    <3> QED BY <1>3, <2>1, <2>5, <2>6, <3>1
  <2>8. /\ then \in [lines : Seq(Entries), commit : Nat, author : Nat, summary : Nat, known : Knowns]
        /\ then.lines = b.lines /\ then.commit = b.commit /\ then.known = known
    BY <1>2, <1>3, <2>3, <2>5
  <2> HIDE DEF then
  <2>9. after = "author" /\ author = line.value /\ picked[i] = picked[i - 1]
    BY <1>7, <1>8, <1>12, <1>15
  <2>10. Knows(then)
    BY <1>3, <2>2, <2>5, <2>6, <2>7, <2>8, <2>9
  <2> HIDE DEF Knows, then
  <2> QED BY <1>16, <2>10 DEF then, line
<1>13. CASE line.kind = "summary"
  <2> DEFINE about == [author |-> IF KnownOf(b).author = 0 THEN b.author ELSE KnownOf(b).author,
                       summary |-> line.value]
             known == Learned(b.known, b.commit, about)
  <2>1. before = "author" /\ line.value # 0
    BY <1>4, <1>13
  <2>2. /\ b.commit # 0 /\ b.commit = header /\ b.commit \in DOMAIN b.known
        /\ b.known[b.commit].author = author
        /\ b.known[b.commit].author # 0 /\ b.known[b.commit] \in About
    BY <1>3, <1>9, <1>13, <1>15, <2>1
  <2>3. then = [b EXCEPT !.summary = line.value, !.known = known]
    BY <1>13, <2>2 DEF BlameStep
  <2>4. about \in About /\ about.author = b.known[b.commit].author /\ about.summary = line.value
    BY <1>2, <2>2 DEF About, KnownOf
  <2> HIDE DEF about
  <2>5. /\ known \in Knowns /\ DOMAIN known = DOMAIN b.known \cup {b.commit}
        /\ known[b.commit] = about
        /\ \A x \in DOMAIN b.known : x # b.commit => known[x] = b.known[x]
    <3>1. b.known \in Knowns /\ b.commit \in Nat /\ about \in About
      BY <1>9, <2>4
    <3>2. Gained(b.known, b.commit, about)
      BY <3>1, LearnedTyped
    <3> QED BY <3>2 DEF Gained
  <2> HIDE DEF known
  <2>6. \A x \in DOMAIN known : known[x].author = b.known[x].author /\ x \in DOMAIN b.known
    BY <2>2, <2>4, <2>5
  <2>7. \A x \in DOMAIN known :
          /\ known[x].author # 0
          /\ \A j \in 1..Len(lines) :
               lines[j].kind = "author" /\ LastOf(lines, "header", j) = x
                 => lines[j].value = known[x].author
    BY <1>3, <2>6
  <2>8. /\ then \in [lines : Seq(Entries), commit : Nat, author : Nat, summary : Nat, known : Knowns]
        /\ then.lines = b.lines /\ then.commit = b.commit /\ then.known = known
    BY <1>2, <1>3, <2>3, <2>5
  <2> HIDE DEF then
  <2>9. after = "summary" /\ summary = line.value /\ picked[i] = picked[i - 1]
    BY <1>7, <1>8, <1>13, <1>15
  <2>10. Knows(then)
    BY <1>3, <2>2, <2>4, <2>5, <2>7, <2>8, <2>9
  <2> HIDE DEF Knows, then
  <2> QED BY <1>16, <2>10 DEF then, line
<1>14. CASE line.kind = "content"
  <2> DEFINE entry == [commit |-> b.commit, about |-> KnownOf(b)]
  <2>1. before = "summary"
    BY <1>4, <1>14
  <2>2. /\ b.commit # 0 /\ b.commit = header /\ b.commit \in DOMAIN b.known
        /\ b.known[b.commit].author = author
        /\ b.known[b.commit].summary = summary
        /\ b.known[b.commit] \in About
    BY <1>3, <1>9, <1>14, <1>15, <2>1
  <2>3. then = [b EXCEPT !.lines = Append(b.lines, entry), !.commit = 0, !.author = 0, !.summary = 0]
    BY <1>14, <2>2 DEF BlameStep
  <2>4. KnownOf(b) = [author |-> author, summary |-> summary]
    BY <2>2 DEF KnownOf, About
  <2>5. entry \in Entries /\ entry = Records(lines)[i]
    BY <1>9, <2>2, <2>4 DEF Entries, Records, KnownOf, header, author, summary
  <2> HIDE DEF entry
  <2>6. Append(b.lines, entry) \in Seq(Entries)
    BY <1>9, <2>5
  <2>7. /\ then \in [lines : Seq(Entries), commit : Nat, author : Nat, summary : Nat, known : Knowns]
        /\ then.lines = Append(b.lines, entry) /\ then.commit = 0 /\ then.known = b.known
    <3> DEFINE longer == Append(b.lines, entry)
    <3>1. longer \in Seq(Entries)
      BY <2>6
    <3>2. then = [b EXCEPT !.lines = longer, !.commit = 0, !.author = 0, !.summary = 0]
      BY <2>3
    <3> HIDE DEF longer, then
    <3>3. /\ then \in [lines : Seq(Entries), commit : Nat, author : Nat, summary : Nat,
                       known : Knowns]
          /\ then.lines = longer /\ then.commit = 0 /\ then.known = b.known
      BY <1>3, <3>1, <3>2
    <3> QED BY <3>3 DEF longer
  <2> HIDE DEF then
  <2>8. after = "content" /\ picked[i] = Append(picked[i - 1], Records(lines)[i])
    BY <1>7, <1>8, <1>14
  <2>9. Knows(then)
    BY <1>3, <2>5, <2>7, <2>8
  <2> HIDE DEF Knows, then
  <2> QED BY <1>16, <2>9 DEF then, line
<1> QED BY <1>2, <1>10, <1>11, <1>12, <1>13, <1>14 DEF line

-----------------------------------------------------------------------------
(* The invariant.                                                          *)

LinesAt(a) == {i \in 1..Len(a.script) : a.script[i] # Chunk}
LinesOf(a) == IF a.tool = "blame" THEN BlameLines ELSE TextLines

\* What has been written and not been read is what comes next.
WrittenBy(a, d) == Picked(a.script, LinesAt(a))[d]
ReadOf(a, d, o) == Len(WrittenBy(a, d)) - Len(o)

PipeHolds(a, d, o) ==
  /\ d \in 0..Len(a.script)
  /\ o \in Seq(LinesOf(a))
  /\ ReadOf(a, d, o) \in Nat
  /\ \A i \in 1..Len(o) : o[i] = Written(a.script)[ReadOf(a, d, o) + i]

\* What a tool holds that has read n lines and goes on reading.
Collects(a, n, k, b) ==
  LET all == Written(a.script)
  IN  /\ n \in 0..Len(all)
      /\ a.tool \in {"glob", "grep", "log"} =>
           k = Picked(all, Good(all))[n] /\ Len(k) <= MaxResults
      /\ a.tool = "tree" => k = SubSeq(all, 1, n) /\ n < TreeMaxPaths
      /\ a.tool = "window" => k = SubSeq(all, 1, n) /\ \A i \in 1..n : all[i].good
      /\ a.tool = "text" => k = SubSeq(all, 1, n) /\ Total(Sizes(k)) <= Budget
      /\ a.tool = "show" =>
           k = SubSeq(all, 1, n) /\ (n > 0 => Total(Sizes(SubSeq(Tail(all), 1, n - 1))) <= Budget)
      /\ a.tool = "blame" => BlameKnows(all, n, b)

\* What it holds if it stops at the n-th.
Stops(a, n, k, m) ==
  LET all == Written(a.script)
  IN  /\ n \in 1..Len(all)
      /\ a.tool \notin {"window", "blame"}
      /\ a.tool \in {"glob", "grep", "log"} =>
           m /\ k = Picked(all, Good(all))[n - 1] /\ Len(k) = MaxResults /\ all[n].good
      /\ a.tool = "tree" => ~m /\ k = SubSeq(all, 1, n) /\ n = TreeMaxPaths
      /\ a.tool = "text" => /\ m /\ k = SubSeq(all, 1, n - 1) /\ Total(Sizes(k)) <= Budget
                            /\ Total(Sizes(SubSeq(all, 1, n))) > Budget
      /\ a.tool = "show" => /\ m /\ n > 1 /\ k = SubSeq(all, 1, n - 1)
                            /\ Total(Sizes(SubSeq(Tail(all), 1, n - 2))) <= Budget
                            /\ Total(Sizes(SubSeq(Tail(all), 1, n - 1))) > Budget

Stages == {"asked", "reading", "joining", "stopping", "closing", "refusing", "failing", "over"}

CallHolds(a, stage, p, d, o, k, b, m, y) ==
  LET n == ReadOf(a, d, o)
  IN  /\ PipeHolds(a, d, o)
      /\ p = "exited" => d = Len(a.script)
      /\ stage = "asked" => d = 0 /\ p = "none"
      /\ stage \in {"reading", "joining"} => p \in {"running", "exited"}
      /\ stage = "joining" => p = "exited" /\ o = <<>>
      /\ stage \in {"asked", "reading", "joining"} => Collects(a, n, k, b) /\ ~m /\ (y <=> n > 0)
      /\ stage \in {"stopping", "closing"} => Stops(a, n, k, m)
      /\ stage \in {"refusing", "failing"} => a.tool \in {"window", "show"}

Holds(c) ==
  IF asked[c] = Nothing THEN at[c] = "over" /\ proc[c] = "none" /\ result[c] = Nothing
  ELSE /\ CallHolds(asked[c], at[c], proc[c], done[c], out[c], kept[c], blame[c], more[c], yielded[c])
       /\ result[c] # Nothing => ResultIsTrue(c, result[c])

ReadsInv ==
  /\ asked \in Asked
  /\ at \in [Calls -> Stages]
  /\ DOMAIN done = Calls /\ DOMAIN proc = Calls /\ DOMAIN out = Calls /\ DOMAIN kept = Calls
  /\ DOMAIN blame = Calls /\ DOMAIN result = Calls
  /\ more \in [Calls -> BOOLEAN] /\ yielded \in [Calls -> BOOLEAN]
  /\ \A c \in Calls : Holds(c)
  /\ tree # Nothing => ~tree.failed /\ Found(tree)

\* What is assumed of a call, its tool and its process.
Request(a) ==
  /\ a.tool \in Tools /\ a.code \in Nat /\ a.unborn \in BOOLEAN
  /\ a.script \in Seq(LinesOf(a) \cup {Chunk})
  /\ a.tool = "tree" => \A i \in 1..Len(Written(a.script)) : Written(a.script)[i].path # <<>>
  /\ a.tool = "blame" => Porcelain(Written(a.script))

LEMMA Requested ==
  ASSUME asked \in Asked, NEW c \in Calls, asked[c] # Nothing
  PROVE  Request(asked[c])
BY AskedAssumption DEF Request, LinesOf

-----------------------------------------------------------------------------
(* The pipe.                                                               *)

LEMMA WrittenGrows ==
  ASSUME NEW a, Request(a), NEW d \in 0..Len(a.script)
  PROVE  /\ Written(a.script) = WrittenBy(a, Len(a.script))
         /\ Written(a.script) \in Seq(LinesOf(a)) /\ WrittenBy(a, d) \in Seq(LinesOf(a))
         /\ Len(WrittenBy(a, d)) <= Len(Written(a.script))
         /\ \A i \in 1..Len(WrittenBy(a, d)) : Written(a.script)[i] = WrittenBy(a, d)[i]
<1> DEFINE script == a.script
           S == LinesAt(a)
           T == LinesOf(a) \cup {Chunk}
           all == Len(script)
<1>1. script \in Seq(T) /\ all \in Nat /\ all \in d..all
  BY DEF Request
<1>2. Written(script) = Picked(script, S)[all]
  BY DEF Written, Those, LinesAt
<1>3. \A i \in S \cap (1..all) : script[i] \in LinesOf(a)
  <2> TAKE i \in S \cap (1..all)
  <2>1. script[i] \in T /\ script[i] # Chunk
    BY <1>1 DEF LinesAt
  <2> QED BY <2>1
<1> HIDE DEF script, S
<1>4. \A k \in 0..all : Picked(script, S)[k] \in Seq(LinesOf(a))
  <2> TAKE k \in 0..all
  <2>1. Picked(script, S)[k] \in Seq({script[i] : i \in S \cap (1..all)})
    <3> HIDE DEF T
    <3> QED BY <1>1, PickedTyped
  <2>2. {script[i] : i \in S \cap (1..all)} \subseteq LinesOf(a)
    BY <1>3
  <2> QED BY <2>1, <2>2
<1>5. /\ Len(Picked(script, S)[d]) <= Len(Picked(script, S)[all])
      /\ \A i \in 1..Len(Picked(script, S)[d]) : Picked(script, S)[all][i] = Picked(script, S)[d][i]
  <2>1. script \in Seq(T) /\ d \in 0..Len(script) /\ all \in d..Len(script)
    BY <1>1 DEF script
  <2> HIDE DEF T, all
  <2>2. Begins(Picked(script, S)[all], Picked(script, S)[d])
    BY <2>1, PickedGrows
  <2> QED BY <2>2 DEF Begins
<1>6. /\ Picked(script, S)[all] \in Seq(LinesOf(a)) /\ Picked(script, S)[d] \in Seq(LinesOf(a))
  <2>1. all \in 0..all /\ d \in 0..all
    BY <1>1 DEF script
  <2> HIDE DEF all
  <2> QED BY <1>4, <2>1
<1> QED BY <1>2, <1>5, <1>6 DEF WrittenBy, script, S

(* What is written joins the end of the pipe. *)
LEMMA PipeWritten ==
  ASSUME NEW a, Request(a), NEW d, NEW o, PipeHolds(a, d, o), d < Len(a.script)
  PROVE  LET longer == IF a.script[d + 1] = Chunk THEN o ELSE Append(o, a.script[d + 1])
         IN  PipeHolds(a, d + 1, longer) /\ ReadOf(a, d + 1, longer) = ReadOf(a, d, o)
<1> DEFINE script == a.script
           line == script[d + 1]
           all == Written(script)
           old == WrittenBy(a, d)
           new == WrittenBy(a, d + 1)
           n == ReadOf(a, d, o)
<1>1. /\ d \in 0..Len(script) /\ o \in Seq(LinesOf(a)) /\ n \in Nat
      /\ \A i \in 1..Len(o) : o[i] = all[n + i]
      /\ n = Len(old) - Len(o)
  BY DEF PipeHolds, ReadOf
<1>2. Len(script) \in Nat /\ d \in Nat /\ d + 1 \in 1..Len(script) /\ d + 1 \in 0..Len(script)
  BY <1>1 DEF Request
<1>3. new = IF d + 1 \in LinesAt(a) THEN Append(old, line) ELSE old
  <2>1. \A k \in 1..Len(script) :
          Picked(script, LinesAt(a))[k] =
            IF k \in LinesAt(a) THEN Append(Picked(script, LinesAt(a))[k - 1], script[k])
            ELSE Picked(script, LinesAt(a))[k - 1]
    BY <1>2, PickedGoesOn
  <2>2. Picked(script, LinesAt(a))[d + 1] =
          IF d + 1 \in LinesAt(a) THEN Append(Picked(script, LinesAt(a))[d], line)
          ELSE Picked(script, LinesAt(a))[d]
    <3> DEFINE f == Picked(script, LinesAt(a))
               S == LinesAt(a)
               e == d + 1
    <3>1. \A k \in 1..Len(script) :
            f[k] = IF k \in S THEN Append(f[k - 1], script[k]) ELSE f[k - 1]
      BY <2>1
    <3>2. e \in 1..Len(script) /\ e - 1 = d /\ e = d + 1
      BY <1>2
    <3> HIDE DEF f, S, script, e
    <3>3. f[e] = IF e \in S THEN Append(f[e - 1], script[e]) ELSE f[e - 1]
      BY <3>1, <3>2
    <3>4. f[e] = IF e \in S THEN Append(f[d], script[e]) ELSE f[d]
      BY <3>2, <3>3
    <3> QED BY <3>4 DEF f, S, e
  <2> QED BY <2>2 DEF WrittenBy
<1>4. d + 1 \in LinesAt(a) <=> line # Chunk
  BY <1>2 DEF LinesAt
<1>5. /\ all \in Seq(LinesOf(a)) /\ old \in Seq(LinesOf(a)) /\ new \in Seq(LinesOf(a))
      /\ \A i \in 1..Len(new) : all[i] = new[i]
  BY <1>1, <1>2, WrittenGrows
<1>6. line # Chunk => line \in LinesOf(a)
  <2>1. line \in LinesOf(a) \cup {Chunk}
    BY <1>2 DEF Request
  <2> QED BY <2>1
<1>7. ReadOf(a, d + 1, o) = Len(new) - Len(o)
      /\ ReadOf(a, d + 1, Append(o, line)) = Len(new) - Len(Append(o, line))
  BY DEF ReadOf
<1> HIDE DEF n, all, old, new, line, script
<1>8. CASE line = Chunk
  <2>1. ReadOf(a, d + 1, o) = n
    BY <1>1, <1>3, <1>4, <1>7, <1>8
  <2>2. PipeHolds(a, d + 1, o)
    BY <1>1, <1>2, <2>1 DEF PipeHolds, script, all
  <2> QED BY <1>8, <2>1, <2>2 DEF line, script, n
<1>9. CASE line # Chunk
  <2> DEFINE longer == Append(o, line)
  <2>1. /\ longer \in Seq(LinesOf(a)) /\ Len(longer) = Len(o) + 1
        /\ \A i \in 1..Len(o) : longer[i] = o[i]
        /\ longer[Len(o) + 1] = line
    BY <1>1, <1>6, <1>9, AppendProperties
  <2>2. /\ new = Append(old, line) /\ Len(new) = Len(old) + 1 /\ new[Len(old) + 1] = line
    BY <1>3, <1>4, <1>5, <1>6, <1>9, AppendProperties
  <2> HIDE DEF longer
  <2>3. Len(old) \in Nat /\ Len(o) \in Nat
    BY <1>1, <1>5
  <2>4. ReadOf(a, d + 1, longer) = n
    BY <1>1, <1>7, <2>1, <2>2, <2>3 DEF longer
  <2>5. all[Len(old) + 1] = line
    <3>1. Len(old) + 1 \in 1..Len(new)
      BY <2>2, <2>3
    <3> QED BY <1>5, <2>2, <3>1
  <2>6. \A i \in 1..Len(longer) : longer[i] = all[n + i]
    <3>1. \A i \in 1..Len(longer) : i \in 1..Len(o) \/ i = Len(o) + 1
      BY <2>1, <2>3
    <3>2. n + (Len(o) + 1) = Len(old) + 1
      BY <1>1, <2>3
    <3> QED BY <1>1, <2>1, <2>5, <3>1, <3>2
  <2>7. PipeHolds(a, d + 1, longer)
    BY <1>1, <1>2, <2>1, <2>4, <2>6 DEF PipeHolds, script, all
  <2> QED BY <1>9, <2>4, <2>7 DEF line, script, n, longer
<1> QED BY <1>8, <1>9

(* What is read is the next line of the output. *)
LEMMA PipeRead ==
  ASSUME NEW a, Request(a), NEW d, NEW o, PipeHolds(a, d, o), o # <<>>
  PROVE  LET n == ReadOf(a, d, o)
         IN  /\ PipeHolds(a, d, Tail(o)) /\ ReadOf(a, d, Tail(o)) = n + 1
             /\ n \in Nat /\ n + 1 \in 1..Len(Written(a.script))
             /\ Head(o) = Written(a.script)[n + 1] /\ Head(o) \in LinesOf(a)
<1> DEFINE all == Written(a.script)
           old == WrittenBy(a, d)
           n == ReadOf(a, d, o)
           rest == Tail(o)
<1>1. /\ d \in 0..Len(a.script) /\ o \in Seq(LinesOf(a)) /\ n \in Nat
      /\ \A i \in 1..Len(o) : o[i] = all[n + i]
      /\ n = Len(old) - Len(o)
  BY DEF PipeHolds, ReadOf
<1>2. /\ all \in Seq(LinesOf(a)) /\ old \in Seq(LinesOf(a)) /\ Len(old) <= Len(all)
  BY <1>1, WrittenGrows
<1>3. /\ Len(o) \in Nat /\ Len(o) >= 1 /\ rest \in Seq(LinesOf(a)) /\ Len(rest) = Len(o) - 1
      /\ \A i \in 1..Len(rest) : rest[i] = o[i + 1]
      /\ Head(o) = o[1] /\ Head(o) \in LinesOf(a)
  <2>1. Len(o) \in Nat /\ Len(o) >= 1
    BY <1>1
  <2> QED BY <1>1, <2>1, HeadTailProperties
<1>4. ReadOf(a, d, rest) = Len(old) - Len(rest)
  BY DEF ReadOf
<1> HIDE DEF all, old, n, rest
<1>5. Len(old) \in Nat /\ Len(all) \in Nat
  BY <1>2
<1>6. ReadOf(a, d, rest) = n + 1 /\ n + 1 \in 1..Len(all)
  BY <1>1, <1>2, <1>3, <1>4, <1>5
<1>7. \A i \in 1..Len(rest) : rest[i] = all[n + 1 + i]
  <2> TAKE i \in 1..Len(rest)
  <2>1. i + 1 \in 1..Len(o) /\ n + (i + 1) = n + 1 + i
    BY <1>1, <1>3
  <2> QED BY <1>1, <1>3, <2>1
<1>8. Head(o) = all[n + 1]
  <2>1. 1 \in 1..Len(o)
    BY <1>3
  <2> QED BY <1>1, <1>3, <2>1
<1>9. PipeHolds(a, d, rest)
  BY <1>1, <1>3, <1>6, <1>7 DEF PipeHolds, all
<1> QED BY <1>1, <1>3, <1>6, <1>8, <1>9 DEF n, all, rest

(* A process that has written everything into a pipe that is empty now. *)
LEMMA PipeEmpty ==
  ASSUME NEW a, Request(a), PipeHolds(a, Len(a.script), <<>>)
  PROVE  ReadOf(a, Len(a.script), <<>>) = Len(Written(a.script))
<1>1. Len(a.script) \in 0..Len(a.script)
  BY DEF Request
<1>2. Written(a.script) = WrittenBy(a, Len(a.script)) /\ Len(Written(a.script)) \in Nat
  BY <1>1, WrittenGrows
<1>3. Len(<<>>) = 0
  OBVIOUS
<1> QED BY <1>2, <1>3 DEF ReadOf

-----------------------------------------------------------------------------
(* The beginning of a sequence.                                            *)

LEMMA OneMore ==
  ASSUME NEW T, NEW all \in Seq(T), NEW n \in Nat, n + 1 \in 1..Len(all)
  PROVE  /\ SubSeq(all, 1, n) \in Seq(T) /\ Len(SubSeq(all, 1, n)) = n
         /\ SubSeq(all, 1, n + 1) \in Seq(T) /\ Len(SubSeq(all, 1, n + 1)) = n + 1
         /\ \A i \in 1..n : SubSeq(all, 1, n + 1)[i] = SubSeq(all, 1, n)[i]
         /\ SubSeq(all, 1, n + 1)[n + 1] = all[n + 1]
         /\ Append(SubSeq(all, 1, n), all[n + 1]) = SubSeq(all, 1, n + 1)
<1> DEFINE s == SubSeq(all, 1, n)
           t == SubSeq(all, 1, n + 1)
           m == n + 1
           u == Append(s, all[m])
<1>1. /\ Len(all) \in Nat /\ m \in Nat /\ m = n + 1 /\ m \in 1..Len(all)
      /\ all[m] \in T /\ \A i \in 1..m : all[i] \in T
  OBVIOUS
<1>2. s \in Seq(T) /\ Len(s) = n /\ \A i \in 1..n : s[i] = all[i]
  <2>1. \A i \in 1..n : all[i] \in T
    BY <1>1
  <2>2. /\ SubSeq(all, 1, n) \in Seq(T) /\ Len(SubSeq(all, 1, n)) = IF 1 <= n THEN n - 1 + 1 ELSE 0
        /\ \A i \in 1..(n - 1 + 1) : SubSeq(all, 1, n)[i] = all[1 + i - 1]
    BY <2>1, SubSeqProperties
  <2> QED BY <2>2
<1> HIDE DEF m
<1>3. SubSeq(all, 1, m) \in Seq(T) /\ Len(SubSeq(all, 1, m)) = m /\ \A i \in 1..m : SubSeq(all, 1, m)[i] = all[i]
  <2>2. /\ SubSeq(all, 1, m) \in Seq(T) /\ Len(SubSeq(all, 1, m)) = IF 1 <= m THEN m - 1 + 1 ELSE 0
        /\ \A i \in 1..(m - 1 + 1) : SubSeq(all, 1, m)[i] = all[1 + i - 1]
    BY <1>1, SubSeqProperties
  <2> QED BY <1>1, <2>2
<1>4. t \in Seq(T) /\ Len(t) = m /\ \A i \in 1..m : t[i] = all[i]
  BY <1>3 DEF m
<1> HIDE DEF s, t
<1>5. /\ u \in Seq(T) /\ Len(u) = m /\ u[m] = all[m] /\ \A i \in 1..n : u[i] = s[i]
  BY <1>1, <1>2, AppendProperties
<1>6. \A i \in 1..m : i \in 1..n \/ i = m
  BY <1>1
<1>7. \A i \in 1..n : i \in 1..m
  BY <1>1
<1> HIDE DEF u
<1>8. \A i \in 1..m : u[i] = t[i]
  BY <1>1, <1>2, <1>4, <1>5, <1>6
<1>9. u = t
  BY <1>4, <1>5, <1>8, SeqEqual
<1>10. t[m] = all[m] /\ \A i \in 1..n : t[i] = s[i]
  BY <1>1, <1>2, <1>4, <1>7
<1> QED BY <1>1, <1>2, <1>4, <1>9, <1>10 DEF s, t, u, m

LEMMA NoneYet ==
  ASSUME NEW all
  PROVE  SubSeq(all, 1, 0) = <<>>
BY SubSeqEmpty

LEMMA SizesTyped ==
  ASSUME NEW lines \in Seq(TextLines)
  PROVE  /\ Sizes(lines) \in Seq(Nat) /\ Len(Sizes(lines)) = Len(lines)
         /\ \A i \in 1..Len(lines) : Sizes(lines)[i] = lines[i].size
<1>1. \A i \in 1..Len(lines) : lines[i].size \in Nat
  <2> TAKE i \in 1..Len(lines)
  <2>1. lines[i] \in TextLines
    OBVIOUS
  <2> QED BY <2>1 DEF TextLines
<1> QED BY <1>1 DEF Sizes

(* What the budget is compared with. *)
LEMMA SizeOfOneMore ==
  ASSUME NEW all \in Seq(TextLines), NEW n \in Nat, n + 1 \in 1..Len(all)
  PROVE  /\ Total(Sizes(SubSeq(all, 1, n))) \in Nat
         /\ Total(Sizes(SubSeq(all, 1, n + 1))) = Total(Sizes(SubSeq(all, 1, n))) + all[n + 1].size
         /\ Total(Sizes(SubSeq(all, 1, n + 1))) \in Nat
<1> DEFINE s == SubSeq(all, 1, n)
           t == SubSeq(all, 1, n + 1)
           m == n + 1
<1>1. /\ s \in Seq(TextLines) /\ Len(s) = n /\ t \in Seq(TextLines) /\ Len(t) = m
      /\ \A i \in 1..n : t[i] = s[i]
      /\ t[m] = all[m] /\ m \in 1..m /\ m = n + 1
  BY OneMore
<1> HIDE DEF s, t, m
<1>2. /\ Sizes(s) \in Seq(Nat) /\ Len(Sizes(s)) = n /\ \A i \in 1..n : Sizes(s)[i] = s[i].size
      /\ Sizes(t) \in Seq(Nat) /\ Len(Sizes(t)) = m /\ \A i \in 1..m : Sizes(t)[i] = t[i].size
  BY <1>1, SizesTyped
<1>3. \A i \in 1..n : Sizes(t)[i] = Sizes(s)[i]
  <2>1. \A i \in 1..n : i \in 1..m
    BY <1>1
  <2> QED BY <1>1, <1>2, <2>1
<1>4. /\ Total(Sizes(t)) = Total(Sizes(s)) + Sizes(t)[Len(Sizes(t))]
      /\ Total(Sizes(s)) \in Nat /\ Sizes(t)[Len(Sizes(t))] \in Nat
  <2>1. /\ Len(Sizes(t)) = Len(Sizes(s)) + 1 /\ \A i \in 1..Len(Sizes(s)) : Sizes(t)[i] = Sizes(s)[i]
    BY <1>1, <1>2, <1>3
  <2> QED BY <1>2, <2>1, TotalOfMore
<1>5. Sizes(t)[Len(Sizes(t))] = all[m].size
  BY <1>1, <1>2
<1> QED BY <1>4, <1>5 DEF s, t, m

LEMMA TailOfFirst ==
  ASSUME NEW T, NEW all \in Seq(T), NEW n \in 1..Len(all)
  PROVE  /\ Tail(SubSeq(all, 1, n)) = SubSeq(Tail(all), 1, n - 1)
         /\ Tail(all) \in Seq(T) /\ Len(Tail(all)) = Len(all) - 1
         /\ \A i \in 1..Len(Tail(all)) : Tail(all)[i] = all[i + 1]
<1> DEFINE rest == Tail(all)
           m == n - 1
           s == SubSeq(all, 2, n)
           t == SubSeq(rest, 1, m)
<1>1. Len(all) \in Nat /\ n \in Nat /\ n >= 1 /\ n <= Len(all) /\ m \in Nat /\ n = m + 1 /\ all # <<>>
  OBVIOUS
<1>2. rest \in Seq(T) /\ Len(rest) = Len(all) - 1 /\ \A i \in 1..Len(rest) : rest[i] = all[i + 1]
  BY <1>1, HeadTailProperties
<1>3. Tail(SubSeq(all, 1, n)) = s
  <2>1. 1 \in 1..Len(all) /\ n \in 1..Len(all) /\ 1 + 1 = 2
    BY <1>1
  <2>2. Tail(SubSeq(all, 1, n)) = SubSeq(all, 1 + 1, n)
    BY <2>1, HeadTailOfSubSeq
  <2> QED BY <2>1, <2>2
<1>4. s \in Seq(T) /\ Len(s) = m /\ \A i \in 1..m : s[i] = all[i + 1]
  <2>1. \A i \in 2..n : all[i] \in T
    BY <1>1
  <2>2. /\ SubSeq(all, 2, n) \in Seq(T) /\ Len(SubSeq(all, 2, n)) = IF 2 <= n THEN n - 2 + 1 ELSE 0
        /\ \A i \in 1..(n - 2 + 1) : SubSeq(all, 2, n)[i] = all[2 + i - 1]
    BY <1>1, <2>1, SubSeqProperties
  <2>3. \A i \in 1..m : i \in 1..(n - 2 + 1) /\ 2 + i - 1 = i + 1
    BY <1>1
  <2> QED BY <1>1, <2>2, <2>3
<1> HIDE DEF rest, m
<1>5. t \in Seq(T) /\ Len(t) = m /\ \A i \in 1..m : t[i] = rest[i]
  <2>1. \A i \in 1..m : rest[i] \in T
    BY <1>1, <1>2
  <2>2. /\ SubSeq(rest, 1, m) \in Seq(T) /\ Len(SubSeq(rest, 1, m)) = IF 1 <= m THEN m - 1 + 1 ELSE 0
        /\ \A i \in 1..(m - 1 + 1) : SubSeq(rest, 1, m)[i] = rest[1 + i - 1]
    BY <1>1, <2>1, SubSeqProperties
  <2>3. \A i \in 1..m : i \in 1..(m - 1 + 1) /\ 1 + i - 1 = i
    BY <1>1
  <2> QED BY <1>1, <2>2, <2>3
<1> HIDE DEF s, t
<1>6. \A i \in 1..m : i \in 1..Len(rest)
  BY <1>1, <1>2
<1>7. s = t
  <2>1. \A i \in 1..Len(s) : s[i] = t[i]
    BY <1>2, <1>4, <1>5, <1>6
  <2> QED BY <1>4, <1>5, <2>1, SeqEqual
<1> QED BY <1>2, <1>3, <1>7 DEF t, rest, m

-----------------------------------------------------------------------------
(* Reading a line.                                                         *)

ListTools == {"glob", "grep", "log"}

After(a, k, line) == IF Verdict(a.tool, k, line) \in {"keep", "last"} THEN Append(k, line) ELSE k

(* A tool that goes on collects what it should, one that stops stops where *)
(* it should.                                                              *)
ReadsOn(a, n, k, b) ==
  LET line == Written(a.script)[n + 1]
      verdict == Verdict(a.tool, k, line)
      then == IF a.tool = "blame" THEN BlameStep(b, line) ELSE b
  IN  /\ verdict \in {"keep", "skip", "last", "more", "refuse"}
      /\ verdict \in {"keep", "skip"} => Collects(a, n + 1, After(a, k, line), then)
      /\ verdict \in {"last", "more"} => Stops(a, n + 1, After(a, k, line), verdict = "more")
      /\ verdict = "refuse" => a.tool \in {"window", "show"}

LEMMA ListReads ==
  ASSUME NEW a, Request(a), NEW n \in Nat, NEW k, NEW b, Collects(a, n, k, b),
         n + 1 \in 1..Len(Written(a.script)), a.tool \in ListTools
  PROVE  ReadsOn(a, n, k, b)
<1> DEFINE all == Written(a.script)
           m == n + 1
           line == all[m]
           f == Picked(all, Good(all))
           verdict == Limited(k, line)
<1>1. /\ m \in 1..Len(all) /\ m \in 0..Len(all) /\ m - 1 = n /\ m = n + 1 /\ m \in Nat
      /\ Len(all) \in Nat /\ all \in Seq(TextLines)
  <2>1. LinesOf(a) = TextLines /\ Len(a.script) \in 0..Len(a.script)
    BY DEF Request, ListTools, LinesOf
  <2>2. all \in Seq(TextLines)
    BY <2>1, WrittenGrows
  <2> QED BY <2>2
<1>2. k = f[n] /\ Len(k) <= MaxResults /\ n \in 0..Len(all)
  BY DEF Collects, ListTools
<1>3. line \in TextLines /\ line.good \in BOOLEAN
  <2>1. line \in TextLines
    BY <1>1
  <2> QED BY <2>1 DEF TextLines
<1>4. m \in Good(all) <=> line.good
  BY <1>1, <1>3 DEF Good
<1>5. f[m] = IF m \in Good(all) THEN Append(f[m - 1], all[m]) ELSE f[m - 1]
  <2> HIDE DEF m
  <2> QED BY <1>1, PickedGoesOn
<1>6. k \in Seq(TextLines) /\ Len(k) \in Nat
  BY <1>1, <1>2, PickedGrows
<1>7. Verdict(a.tool, k, line) = verdict
  BY DEF Verdict, ListTools, LogVerdict
<1>8. a.tool # "blame" /\ a.tool \notin {"tree", "window", "text", "show"}
  BY DEF ListTools
<1>9. MaxResults \in Nat
  BY StreamedReadsAssumption
<1> HIDE DEF m, f, line
<1>10. CASE ~line.good
  <2>1. verdict = "skip" /\ f[m] = k
    BY <1>1, <1>2, <1>4, <1>5, <1>10 DEF Limited
  <2>2. Collects(a, m, k, b)
    BY <1>1, <1>2, <1>8, <2>1 DEF Collects, ListTools, f
  <2> QED BY <1>7, <1>8, <2>1, <2>2 DEF ReadsOn, After, m, line
<1>11. CASE line.good /\ Len(k) < MaxResults
  <2>1. verdict = "keep" /\ f[m] = Append(k, line) /\ Len(Append(k, line)) <= MaxResults
    <3>1. Len(Append(k, line)) = Len(k) + 1
      BY <1>3, <1>6, AppendProperties
    <3>2. Len(Append(k, line)) <= MaxResults
      BY <1>6, <1>9, <1>11, <3>1
    <3> QED BY <1>1, <1>2, <1>4, <1>5, <1>11, <3>2 DEF Limited, line
  <2>2. Collects(a, m, Append(k, line), b)
    <3> HIDE DEF all
    <3> QED BY <1>1, <1>8, <2>1 DEF Collects, ListTools, f, all
  <2> QED BY <1>7, <1>8, <2>1, <2>2 DEF ReadsOn, After, m, line
<1>12. CASE line.good /\ ~(Len(k) < MaxResults)
  <2>1. verdict = "more" /\ Len(k) = MaxResults
    BY <1>2, <1>6, <1>9, <1>12 DEF Limited
  <2>2. Stops(a, m, k, TRUE)
    BY <1>1, <1>2, <1>8, <1>12, <2>1 DEF Stops, ListTools, f, line
  <2> QED BY <1>7, <1>8, <2>1, <2>2 DEF ReadsOn, After, m, line
<1> QED BY <1>10, <1>11, <1>12

(* The tools that keep what they read. *)
LEMMA WholeReads ==
  ASSUME NEW a, Request(a), NEW n \in Nat, NEW k, NEW b, Collects(a, n, k, b),
         n + 1 \in 1..Len(Written(a.script)), a.tool \in {"tree", "window", "text"}
  PROVE  ReadsOn(a, n, k, b)
<1> DEFINE all == Written(a.script)
           m == n + 1
           line == all[m]
           s == SubSeq(all, 1, n)
           t == SubSeq(all, 1, m)
           verdict == Verdict(a.tool, k, line)
<1>1. /\ m \in 1..Len(all) /\ m \in 0..Len(all) /\ m - 1 = n /\ m = n + 1 /\ m \in Nat
      /\ Len(all) \in Nat /\ all \in Seq(TextLines)
  <2>1. LinesOf(a) = TextLines /\ Len(a.script) \in 0..Len(a.script)
    BY DEF Request, LinesOf
  <2>2. all \in Seq(TextLines)
    BY <2>1, WrittenGrows
  <2> QED BY <2>2
<1>2. line \in TextLines /\ line.good \in BOOLEAN /\ line.size \in Nat
  <2>1. line \in TextLines
    BY <1>1
  <2> QED BY <2>1 DEF TextLines
<1>3. k = s
  BY DEF Collects
<1>4. Len(s) = n /\ Append(s, line) = t
  BY <1>1, OneMore
<1>5. a.tool # "blame" /\ a.tool \notin {"glob", "grep", "log", "show"}
  OBVIOUS
<1>6. /\ Total(Sizes(s)) \in Nat /\ Total(Sizes(t)) \in Nat
      /\ Total(Sizes(t)) = Total(Sizes(s)) + line.size
  BY <1>1, SizeOfOneMore
<1>7. Budget \in Nat /\ TreeMaxPaths \in Nat
  BY CodeViewsAssumption, StreamedReadsAssumption
<1> HIDE DEF m, line, s, t, all
<1>8. CASE a.tool = "tree"
  <2>1. n < TreeMaxPaths
    BY <1>8 DEF Collects
  <2>2. verdict = IF m < TreeMaxPaths THEN "keep" ELSE "last"
    BY <1>1, <1>3, <1>4, <1>8 DEF Verdict, TreeVerdict
  <2> HIDE DEF verdict
  <2>3. m < TreeMaxPaths => Collects(a, m, t, b)
    BY <1>1, <1>8 DEF Collects, t, all
  <2>4. ~(m < TreeMaxPaths) => Stops(a, m, t, FALSE)
    <3>1. ~(m < TreeMaxPaths) => m = TreeMaxPaths
      BY <1>1, <1>7, <2>1
    <3> QED BY <1>1, <1>8, <3>1 DEF Stops, t, all
  <2> QED BY <1>3, <1>4, <1>5, <2>2, <2>3, <2>4 DEF ReadsOn, After, m, line, all, verdict
<1>9. CASE a.tool = "window"
  <2>1. verdict = IF line.good THEN "keep" ELSE "refuse"
    BY <1>9 DEF Verdict, RejectBinary
  <2> HIDE DEF verdict
  <2>2. line.good => Collects(a, m, t, b)
    <3>1. \A i \in 1..n : all[i].good
      BY <1>9 DEF Collects, all
    <3>2. line.good => \A i \in 1..m : all[i].good
      BY <1>1, <3>1 DEF line
    <3> QED BY <1>1, <1>9, <3>2 DEF Collects, t, all
  <2> QED BY <1>3, <1>4, <1>5, <1>9, <2>1, <2>2 DEF ReadsOn, After, m, line, all, verdict
<1>10. CASE a.tool = "text"
  <2>1. verdict = IF Total(Sizes(t)) > Budget THEN "more" ELSE "keep"
    BY <1>3, <1>6, <1>10 DEF Verdict, CollectCapped
  <2> HIDE DEF verdict
  <2>2. ~(Total(Sizes(t)) > Budget) => Collects(a, m, t, b)
    <3>1. ~(Total(Sizes(t)) > Budget) => Total(Sizes(t)) <= Budget
      BY <1>6, <1>7
    <3> QED BY <1>1, <1>10, <3>1 DEF Collects, t, all
  <2>3. Total(Sizes(t)) > Budget => Stops(a, m, s, TRUE)
    <3>1. Total(Sizes(s)) <= Budget
      BY <1>3, <1>10 DEF Collects
    <3> QED BY <1>1, <1>10, <3>1 DEF Stops, s, t, all
  <2> QED BY <1>3, <1>4, <1>5, <2>1, <2>2, <2>3 DEF ReadsOn, After, m, line, all, verdict
<1> QED BY <1>8, <1>9, <1>10

(* git show. *)
LEMMA ShowReads ==
  ASSUME NEW a, Request(a), NEW n \in Nat, NEW k, NEW b, Collects(a, n, k, b),
         n + 1 \in 1..Len(Written(a.script)), a.tool = "show"
  PROVE  ReadsOn(a, n, k, b)
<1> DEFINE all == Written(a.script)
           m == n + 1
           line == all[m]
           s == SubSeq(all, 1, n)
           t == SubSeq(all, 1, m)
           rest == Tail(all)
           Size(i) == Total(Sizes(SubSeq(rest, 1, i)))
           verdict == Verdict(a.tool, k, line)
<1>1. /\ m \in 1..Len(all) /\ m \in 0..Len(all) /\ m - 1 = n /\ m = n + 1 /\ m \in Nat
      /\ Len(all) \in Nat /\ all \in Seq(TextLines)
  <2>1. LinesOf(a) = TextLines /\ Len(a.script) \in 0..Len(a.script)
    BY DEF Request, LinesOf
  <2>2. all \in Seq(TextLines)
    BY <2>1, WrittenGrows
  <2> QED BY <2>2
<1>2. line \in TextLines /\ line.good \in BOOLEAN /\ line.size \in Nat
  <2>1. line \in TextLines
    BY <1>1
  <2> QED BY <2>1 DEF TextLines
<1>3. k = s /\ (n > 0 => Size(n - 1) <= Budget)
  BY DEF Collects
<1>4. Len(s) = n /\ Append(s, line) = t /\ s \in Seq(TextLines)
  BY <1>1, OneMore
<1>5. Budget \in Nat
  BY CodeViewsAssumption
<1> HIDE DEF verdict, s, t
<1>6. CASE n = 0
  <2>1. s = <<>> /\ m = 1 /\ m - 1 = 0
    BY <1>1, <1>6, NoneYet DEF s
  <2>2. verdict = IF line.good THEN "keep" ELSE "refuse"
    BY <1>3, <2>1 DEF verdict, Verdict, ShowVerdict
  <2>3. Size(m - 1) <= Budget
    <3>1. Size(0) = 0
      <4>1. Len(<<>>) = 0 /\ Len(Sizes(<<>>)) = 0
        BY DEF Sizes
      <4> QED BY <4>1, NoneYet, TotalOfNone
    <3> HIDE DEF Size
    <3> QED BY <1>5, <2>1, <3>1
  <2> HIDE DEF m, line, all, rest
  <2>4. Collects(a, m, t, b)
    BY <1>1, <2>3 DEF Collects, t, all, rest
  <2> QED BY <1>3, <1>4, <2>2, <2>4 DEF ReadsOn, After, m, line, all, verdict
<1>7. CASE n > 0
  <2>1. n \in 1..Len(all) /\ s # <<>>
    BY <1>1, <1>4, <1>7
  <2>2. /\ Tail(s) = SubSeq(rest, 1, n - 1) /\ rest \in Seq(TextLines) /\ Len(rest) = Len(all) - 1
        /\ \A i \in 1..Len(rest) : rest[i] = all[i + 1]
    BY <1>1, <2>1, TailOfFirst DEF s
  <2> DEFINE j == n - 1
  <2> HIDE DEF m, line, all, rest
  <2>3. j \in Nat /\ j + 1 \in 1..Len(rest) /\ j + 1 = n /\ n \in 1..Len(rest) /\ j = n - 1
    BY <1>1, <1>7, <2>2
  <2>4. rest[n] = line
    BY <1>1, <2>2, <2>3 DEF line
  <2> HIDE DEF j
  <2>5. Size(j) \in Nat /\ Size(j + 1) \in Nat /\ Size(j + 1) = Size(j) + rest[j + 1].size
    BY <2>2, <2>3, SizeOfOneMore
  <2>6. Total(Sizes(Tail(s))) = Size(j)
    BY <2>2, <2>3
  <2>7. Size(j) <= Budget
    BY <1>3, <1>7, <2>3
  <2>8. verdict = IF Size(n) > Budget THEN "more" ELSE "keep"
    <3> HIDE DEF Size
    <3> QED BY <1>3, <2>1, <2>3, <2>4, <2>5, <2>6 DEF verdict, Verdict, ShowVerdict, CollectCapped
  <2>9. ~(Size(n) > Budget) => Collects(a, m, t, b)
    <3>1. ~(Size(n) > Budget) => Size(m - 1) <= Budget
      <4> HIDE DEF Size
      <4> QED BY <1>1, <1>5, <2>3, <2>5
    <3> QED BY <1>1, <3>1 DEF Collects, t, all, rest
  <2>10. Size(n) > Budget => Stops(a, m, s, TRUE)
    <3>1. m - 2 = j /\ m > 1 /\ m - 1 = n
      BY <1>1, <1>7, <2>3
    <3>2. SubSeq(rest, 1, m - 2) = SubSeq(rest, 1, j) /\ SubSeq(rest, 1, m - 1) = SubSeq(rest, 1, n)
          /\ s = SubSeq(all, 1, m - 1)
      BY <3>1 DEF s
    <3>3. Size(n) > Budget => /\ Total(Sizes(SubSeq(rest, 1, m - 2))) <= Budget
                              /\ Total(Sizes(SubSeq(rest, 1, m - 1))) > Budget
      BY <2>7, <3>2
    <3> QED BY <1>1, <3>1, <3>2, <3>3 DEF Stops, all, rest
  <2> QED BY <1>3, <1>4, <2>8, <2>9, <2>10 DEF ReadsOn, After, m, line, all, verdict
<1> QED BY <1>6, <1>7

LEMMA BlameReads ==
  ASSUME NEW a, Request(a), NEW n \in Nat, NEW k, NEW b, Collects(a, n, k, b),
         n + 1 \in 1..Len(Written(a.script)), a.tool = "blame"
  PROVE  ReadsOn(a, n, k, b)
<1> DEFINE all == Written(a.script)
           m == n + 1
           then == BlameStep(b, all[m])
<1>1. /\ m \in 1..Len(all) /\ m \in 0..Len(all) /\ m - 1 = n
      /\ Len(all) \in Nat /\ all \in Seq(BlameLines)
  <2>1. LinesOf(a) = BlameLines /\ Len(a.script) \in 0..Len(a.script)
    BY DEF Request, LinesOf
  <2>2. all \in Seq(BlameLines)
    BY <2>1, WrittenGrows
  <2> QED BY <2>2
<1>2. Porcelain(all)
  BY DEF Request
<1>3. BlameKnows(all, m - 1, b)
  BY <1>1 DEF Collects
<1> HIDE DEF m
<1>4. BlameKnows(all, m, then)
  BY <1>1, <1>2, <1>3, BlameGoesOn
<1> HIDE DEF then
<1>5. Collects(a, m, k, then)
  BY <1>1, <1>4 DEF Collects
<1> QED BY <1>5 DEF ReadsOn, After, Verdict, m, then

LEMMA ToolReads ==
  ASSUME NEW a, Request(a), NEW n \in Nat, NEW k, NEW b, Collects(a, n, k, b),
         n + 1 \in 1..Len(Written(a.script))
  PROVE  ReadsOn(a, n, k, b)
<1>1. a.tool \in ListTools \/ a.tool \in {"tree", "window", "text"} \/ a.tool = "show" \/ a.tool = "blame"
  BY DEF Request, Tools, ListTools
<1> QED BY <1>1, ListReads, WholeReads, ShowReads, BlameReads

-----------------------------------------------------------------------------
(* What a result says.                                                     *)

LEMMA TotalGrows ==
  ASSUME NEW s \in Seq(Nat), NEW m \in 0..Len(s)
  PROVE  Sums(s)[m] <= Total(s) /\ Sums(s)[m] \in Nat /\ Total(s) \in Nat
<1> DEFINE f == Sums(s)
           Typed == {n \in Nat : n <= Len(s) => f[n] \in Nat}
           Grown == {n \in Nat : n >= m /\ n <= Len(s) => f[m] <= f[n]}
<1>1. /\ Len(s) \in Nat /\ f[0] = 0
      /\ \A n \in 1..Len(s) : f[n] = f[n - 1] + s[n]
  BY SumsGoOn
<1> HIDE DEF f
<1>2. \A n \in Nat : n \in Nat /\ n < Len(s) => f[n + 1] = f[n] + s[n + 1] /\ s[n + 1] \in Nat
  <2> TAKE n \in Nat
  <2> DEFINE k == n + 1
  <2>1. n < Len(s) => k \in 1..Len(s) /\ k - 1 = n
    BY <1>1
  <2> HIDE DEF k
  <2>2. n < Len(s) => f[k] = f[n] + s[k] /\ s[k] \in Nat
    BY <1>1, <2>1
  <2> QED BY <2>2 DEF k
<1>3. 0 \in Typed
  BY <1>1
<1>4. ASSUME NEW n \in Nat, n \in Typed PROVE n + 1 \in Typed
  <2>1. n + 1 <= Len(s) => f[n] \in Nat /\ f[n + 1] = f[n] + s[n + 1] /\ s[n + 1] \in Nat
    BY <1>1, <1>2, <1>4
  <2> QED BY <2>1
<1>5. \A n \in Nat : n \in Typed
  <2> HIDE DEF Typed
  <2> QED BY <1>3, <1>4, Counting
<1>6. \A n \in 0..Len(s) : f[n] \in Nat
  BY <1>5
<1>7. 0 \in Grown
  BY <1>1
<1>8. ASSUME NEW n \in Nat, n \in Grown PROVE n + 1 \in Grown
  <2> SUFFICES ASSUME n + 1 >= m, n + 1 <= Len(s) PROVE f[m] <= f[n + 1]
    OBVIOUS
  <2>1. CASE n + 1 = m
    <3>1. f[m] \in Nat
      BY <1>6
    <3> QED BY <2>1, <3>1
  <2>2. CASE n >= m
    <3>1. /\ f[m] <= f[n] /\ f[n + 1] = f[n] + s[n + 1] /\ s[n + 1] \in Nat
          /\ f[m] \in Nat /\ f[n] \in Nat
      BY <1>1, <1>2, <1>6, <1>8, <2>2
    <3> QED BY <3>1
  <2> QED BY <2>1, <2>2
<1>9. \A n \in Nat : n \in Grown
  <2> HIDE DEF Grown
  <2> QED BY <1>7, <1>8, Counting
<1>10. f[m] <= f[Len(s)] /\ f[m] \in Nat /\ f[Len(s)] \in Nat
  BY <1>1, <1>6, <1>9
<1> QED BY <1>10 DEF f, Total

(* The sizes of the first lines, counted alone and among all of them.      *)
LEMMA SizeOfFirst ==
  ASSUME NEW all \in Seq(TextLines), NEW m \in 1..Len(all)
  PROVE  Total(Sizes(SubSeq(all, 1, m))) <= Total(Sizes(all))
<1> DEFINE s == SubSeq(all, 1, m)
           u == Sizes(s)
           v == Sizes(all)
<1>1. s \in Seq(TextLines) /\ Len(s) = m /\ \A i \in 1..m : s[i] = all[i]
  <2>1. \A i \in 1..m : all[i] \in TextLines
    OBVIOUS
  <2>2. /\ SubSeq(all, 1, m) \in Seq(TextLines) /\ Len(SubSeq(all, 1, m)) = IF 1 <= m THEN m - 1 + 1 ELSE 0
        /\ \A i \in 1..(m - 1 + 1) : SubSeq(all, 1, m)[i] = all[1 + i - 1]
    BY <2>1, SubSeqProperties
  <2> QED BY <2>2
<1> HIDE DEF s
<1>2. /\ u \in Seq(Nat) /\ Len(u) = m /\ \A i \in 1..m : u[i] = s[i].size
      /\ v \in Seq(Nat) /\ Len(v) = Len(all) /\ \A i \in 1..Len(all) : v[i] = all[i].size
  BY <1>1, SizesTyped
<1> HIDE DEF u, v
<1>3. \A i \in 1..m : i \in 1..Len(all)
  OBVIOUS
<1>4. \A i \in 1..m : u[i] = v[i]
  BY <1>1, <1>2, <1>3
<1>5. Sums(u)[m] = Sums(v)[m]
  <2>1. Len(u) \in Nat /\ Len(v) \in Nat /\ m \in Nat /\ m <= Len(u) /\ m <= Len(v)
    BY <1>2
  <2> QED BY <1>4, <2>1, SumsAlike
<1>6. Sums(v)[m] <= Total(v)
  BY <1>2, TotalGrows
<1>7. Total(u) = Sums(u)[m]
  BY <1>2 DEF Total
<1> QED BY <1>5, <1>6, <1>7 DEF s, u, v

(* What a capped patch or text is.                                         *)
Capped(shown, flag, body) ==
  /\ IsPrefix(shown, body) /\ Total(Sizes(shown)) <= Budget
  /\ flag <=> Total(Sizes(body)) > Budget
  /\ flag => Total(Sizes(FirstOf(body, Len(shown) + 1))) > Budget

LEMMA CappedWhole ==
  ASSUME NEW body \in Seq(TextLines), Total(Sizes(body)) <= Budget
  PROVE  Capped(body, FALSE, body)
<1>1. Total(Sizes(body)) \in Nat /\ Budget \in Nat
  BY SizesTyped, SumsTyped, CodeViewsAssumption
<1>2. IsPrefix(body, body)
  BY DEF IsPrefix
<1> QED BY <1>1, <1>2 DEF Capped

LEMMA CappedStopped ==
  ASSUME NEW body \in Seq(TextLines), NEW j \in Nat, j + 1 \in 1..Len(body),
         Total(Sizes(SubSeq(body, 1, j))) <= Budget,
         Total(Sizes(SubSeq(body, 1, j + 1))) > Budget
  PROVE  Capped(SubSeq(body, 1, j), TRUE, body)
<1> DEFINE s == SubSeq(body, 1, j)
           m == j + 1
           t == SubSeq(body, 1, m)
<1>1. s \in Seq(TextLines) /\ Len(s) = j /\ t \in Seq(TextLines)
  BY OneMore
<1>2. /\ m \in 1..Len(body) /\ Len(body) \in Nat /\ m <= Len(body) /\ j <= Len(body) /\ m \in Nat
      /\ m = j + 1
  OBVIOUS
<1>3. IsPrefix(s, body)
  <2>1. SubSeq(s, 1, Len(s)) = s
    BY <1>1, SubSeqFull
  <2>2. Len(s) <= Len(body)
    BY <1>1, <1>2
  <2> HIDE DEF s
  <2>3. SubSeq(body, 1, Len(s)) = s
    BY <1>1 DEF s
  <2> QED BY <2>1, <2>2, <2>3 DEF IsPrefix
<1> HIDE DEF m
<1>4. Total(Sizes(t)) <= Total(Sizes(body))
  BY <1>2, SizeOfFirst
<1>5. Total(Sizes(t)) \in Nat /\ Total(Sizes(body)) \in Nat /\ Budget \in Nat
  <2> HIDE DEF t
  <2> QED BY <1>1, SizesTyped, SumsTyped, CodeViewsAssumption
<1>6. FirstOf(body, Len(s) + 1) = t
  <2>1. Min({m, Len(body)}) = m
    BY <1>2, MinOfTwo
  <2> HIDE DEF s
  <2>2. Len(s) + 1 = m
    BY <1>1, <1>2
  <2> QED BY <2>1, <2>2 DEF FirstOf
<1>7. Total(Sizes(t)) > Budget
  BY DEF m
<1>8. Total(Sizes(body)) > Budget
  <2> HIDE DEF t
  <2> QED BY <1>4, <1>5, <1>7
<1> HIDE DEF t
<1> QED BY <1>3, <1>6, <1>7, <1>8 DEF Capped

(* All lines are good. *)
LEMMA AllPicked ==
  ASSUME NEW T, NEW steps \in Seq(T), NEW S, 1..Len(steps) \subseteq S
  PROVE  Those(steps, S) = steps
<1> DEFINE f == Picked(steps, S)
           Same == {n \in Nat : n <= Len(steps) => f[n] = SubSeq(steps, 1, n)}
<1>1. /\ Len(steps) \in Nat /\ f[0] = <<>>
      /\ \A n \in 1..Len(steps) : f[n] = IF n \in S THEN Append(f[n - 1], steps[n]) ELSE f[n - 1]
  BY PickedGoesOn
<1> HIDE DEF f
<1>2. 0 \in Same
  BY <1>1, NoneYet
<1>3. ASSUME NEW n \in Nat, n \in Same PROVE n + 1 \in Same
  <2> SUFFICES ASSUME n + 1 <= Len(steps) PROVE f[n + 1] = SubSeq(steps, 1, n + 1)
    OBVIOUS
  <2> DEFINE m == n + 1
  <2>1. m \in 1..Len(steps) /\ m \in S /\ m - 1 = n /\ n <= Len(steps)
    BY <1>1
  <2>2. Append(SubSeq(steps, 1, n), steps[m]) = SubSeq(steps, 1, m)
    BY <2>1, OneMore
  <2> HIDE DEF m
  <2>3. f[m] = Append(f[n], steps[m])
    BY <1>1, <2>1
  <2>4. f[n] = SubSeq(steps, 1, n)
    BY <1>3, <2>1
  <2> QED BY <2>2, <2>3, <2>4 DEF m
<1>4. \A n \in Nat : n \in Same
  <2> HIDE DEF Same
  <2> QED BY <1>2, <1>3, Counting
<1>5. f[Len(steps)] = SubSeq(steps, 1, Len(steps))
  BY <1>1, <1>4
<1> QED BY <1>5, SubSeqFull DEF Those, f

LEMMA FirstOfAll ==
  ASSUME NEW T, NEW all \in Seq(T), NEW n \in Nat, Len(all) <= n
  PROVE  FirstOf(all, n) = all
<1>1. Len(all) \in Nat /\ Min({n, Len(all)}) = Len(all)
  <2>1. Len(all) \in Int /\ n \in Int
    OBVIOUS
  <2>2. Min({n, Len(all)}) = IF n <= Len(all) THEN n ELSE Len(all)
    BY <2>1, MinOfTwo
  <2> QED BY <2>1, <2>2
<1> QED BY <1>1, SubSeqFull DEF FirstOf

(* A call that has read everything. *)
LEMMA WholeResult ==
  ASSUME NEW c \in Calls, asked[c] # Nothing, Request(asked[c]), NEW k, NEW b,
         Collects(asked[c], Len(Output(c)), k, b),
         Tool(c) = "show" => k # <<>>,
         Tool(c) \in ListTools =>
           ~(Output(c) = <<>> /\ asked[c].code >= Floor(c) /\ ~(Tool(c) = "log" /\ asked[c].unborn))
  PROVE  ResultIsTrue(c, Listed(IF Tool(c) = "blame" THEN b.lines ELSE k, FALSE))
<1> DEFINE a == asked[c]
           all == Output(c)
           n == Len(all)
           r == Listed(IF Tool(c) = "blame" THEN b.lines ELSE k, FALSE)
           T == LinesOf(a)
<1>1. all = Written(a.script) /\ Tool(c) = a.tool /\ Collects(a, n, k, b) /\ Request(a)
  BY DEF Output, Script, Tool
<1>2. all \in Seq(T) /\ n \in Nat /\ n \in 0..n /\ SubSeq(all, 1, n) = all
  <2>1. Len(a.script) \in 0..Len(a.script)
    BY <1>1 DEF Request
  <2>2. all \in Seq(T)
    BY <1>1, <2>1, WrittenGrows
  <2> HIDE DEF all
  <2> QED BY <2>2, SubSeqFull
<1>3. r.failed = FALSE /\ r.more = FALSE /\ r.lines = IF Tool(c) = "blame" THEN b.lines ELSE k
  BY DEF Listed
<1>4. T = IF Tool(c) = "blame" THEN BlameLines ELSE TextLines
  BY DEF LinesOf, Tool
<1>5. MaxResults \in Nat /\ TreeMaxPaths \in Nat /\ Budget \in Nat
  BY StreamedReadsAssumption, CodeViewsAssumption
<1> HIDE DEF a, r, T
<1>6. CASE Tool(c) \in ListTools
  <2>1. Tool(c) \in {"glob", "grep", "log"}
    BY <1>6 DEF ListTools
  <2> DEFINE usable == Usable(c)
  <2>2. k = Picked(all, Good(all))[n] /\ Len(k) <= MaxResults
    BY <1>1, <2>1 DEF Collects
  <2>3. usable = k
    BY <2>2 DEF Usable, Those
  <2>4. k \in Seq(T)
    <3> HIDE DEF all
    <3> QED BY <1>2, <2>2, PickedGrows
  <2>5. FirstOf(k, MaxResults) = k /\ ~(Len(k) > MaxResults)
    <3>1. Len(k) \in Nat
      BY <2>4
    <3> QED BY <1>5, <2>2, <2>4, <3>1, FirstOfAll
  <2> HIDE DEF usable, all, n
  <2>6. r.lines = FirstOf(usable, MaxResults) /\ ~(Len(usable) > MaxResults)
    BY <1>3, <2>1, <2>3, <2>5
  <2> HIDE DEF Floor
  <2>7. ~(all = <<>> /\ asked[c].code >= Floor(c) /\ ~(Tool(c) = "log" /\ asked[c].unborn))
    BY <1>6 DEF all
  <2> QED BY <1>3, <2>1, <2>6, <2>7 DEF ResultIsTrue, usable, all, r
<1>7. CASE Tool(c) = "tree"
  <2>1. k = all /\ n < TreeMaxPaths
    BY <1>1, <1>2, <1>7 DEF Collects
  <2>2. FirstOf(all, TreeMaxPaths) = all
    <3> HIDE DEF all
    <3> QED BY <1>2, <1>5, <2>1, FirstOfAll
  <2>3. Found(r)
    BY <1>3, <1>7, <2>1, <2>2 DEF Found
  <2> QED BY <1>3, <1>7, <2>3 DEF ResultIsTrue, r
<1>8. CASE Tool(c) = "window"
  <2>1. k = all /\ \A i \in 1..n : all[i].good
    BY <1>1, <1>2, <1>8 DEF Collects
  <2>2. Usable(c) = all
    <3>1. 1..Len(all) \subseteq Good(all)
      BY <2>1 DEF Good
    <3> HIDE DEF all
    <3>2. Those(all, Good(all)) = all
      BY <1>2, <3>1, AllPicked
    <3> QED BY <3>2 DEF Usable, all
  <2>3. r.lines = all
    BY <1>3, <1>8, <2>1
  <2> QED BY <1>3, <1>8, <2>2, <2>3 DEF ResultIsTrue, r
<1>9. CASE Tool(c) = "blame"
  <2>1. b.lines = Picked(Records(all), Contents(all))[n]
    BY <1>1, <1>9 DEF Collects, BlameKnows
  <2>2. Len(Records(all)) = n
    BY <1>2 DEF Records
  <2>3. r.lines = Blamed(all)
    <3> HIDE DEF all
    <3> QED BY <1>3, <1>9, <2>1, <2>2 DEF Blamed, Those
  <2> QED BY <1>3, <1>9, <2>3 DEF ResultIsTrue, r
<1>10. CASE Tool(c) = "text"
  <2>1. k = all /\ Total(Sizes(k)) <= Budget
    BY <1>1, <1>2, <1>10 DEF Collects
  <2>2. Capped(r.lines, r.more, all)
    <3>1. all \in Seq(TextLines)
      BY <1>2, <1>4, <1>10
    <3> HIDE DEF all
    <3> QED BY <1>3, <1>10, <2>1, <3>1, CappedWhole
  <2> QED BY <1>3, <1>10, <2>2 DEF ResultIsTrue, Capped, r
<1>11. CASE Tool(c) = "show"
  <2>1. k = all /\ all # <<>> /\ (n > 0 => Total(Sizes(SubSeq(Tail(all), 1, n - 1))) <= Budget)
    BY <1>1, <1>2, <1>11 DEF Collects
  <2>2. all \in Seq(TextLines) /\ n \in Nat
    BY <1>2, <1>4, <1>11
  <2>3. n > 0
    <3> HIDE DEF all
    <3> QED BY <2>1, <2>2
  <2>4. Tail(all) \in Seq(TextLines) /\ Len(Tail(all)) = n - 1
    <3> HIDE DEF all
    <3> QED BY <2>1, <2>2, HeadTailProperties
  <2>5. SubSeq(Tail(all), 1, n - 1) = Tail(all)
    <3> DEFINE rest == Tail(all)
    <3> HIDE DEF all, n, rest
    <3>1. SubSeq(rest, 1, Len(rest)) = rest
      BY <2>4, SubSeqFull DEF rest
    <3> QED BY <2>4, <3>1 DEF rest
  <2>6. Capped(Tail(r.lines), r.more, Tail(all))
    <3>1. Total(Sizes(Tail(all))) <= Budget
      <4> HIDE DEF all, n
      <4> QED BY <2>1, <2>3, <2>5
    <3> HIDE DEF all
    <3> QED BY <1>3, <1>11, <2>1, <2>4, <3>1, CappedWhole
  <2> QED BY <1>3, <1>11, <2>6 DEF ResultIsTrue, Capped, r
<1>12. Tool(c) \in ListTools \/ Tool(c) = "tree" \/ Tool(c) = "window" \/ Tool(c) = "blame"
       \/ Tool(c) = "text" \/ Tool(c) = "show"
  BY <1>1 DEF Request, Tools, ListTools
<1> QED BY <1>6, <1>7, <1>8, <1>9, <1>10, <1>11, <1>12 DEF r

(* A call that has stopped. *)
LEMMA StoppedResult ==
  ASSUME NEW c \in Calls, asked[c] # Nothing, Request(asked[c]), NEW n \in Nat, NEW k, NEW m,
         Stops(asked[c], n, k, m)
  PROVE  ResultIsTrue(c, Listed(k, m))
<1> DEFINE a == asked[c]
           all == Output(c)
           r == Listed(k, m)
<1>1. all = Written(a.script) /\ Tool(c) = a.tool /\ Stops(a, n, k, m) /\ Request(a)
  BY DEF Output, Script, Tool
<1>2. Tool(c) \notin {"window", "blame"} /\ n \in 1..Len(all)
  BY <1>1 DEF Stops
<1>3. all \in Seq(TextLines) /\ Len(all) \in Nat
  <2>1. Len(a.script) \in 0..Len(a.script)
    BY <1>1 DEF Request
  <2>2. LinesOf(a) = TextLines
    BY <1>1, <1>2 DEF LinesOf
  <2>3. all \in Seq(TextLines)
    BY <1>1, <2>1, <2>2, WrittenGrows
  <2> HIDE DEF all
  <2> QED BY <2>3
<1>4. r.failed = FALSE /\ r.more = m /\ r.lines = k
  BY DEF Listed
<1>5. MaxResults \in Nat /\ TreeMaxPaths \in Nat /\ Budget \in Nat
  BY StreamedReadsAssumption, CodeViewsAssumption
<1> HIDE DEF a, r
<1>6. CASE Tool(c) \in ListTools
  <2>1. Tool(c) \in {"glob", "grep", "log"}
    BY <1>6 DEF ListTools
  <2> DEFINE usable == Usable(c)
             f == Picked(all, Good(all))
  <2>2. m = TRUE /\ k = f[n - 1] /\ Len(k) = MaxResults /\ all[n].good
    <3>1. m /\ k = f[n - 1] /\ Len(k) = MaxResults /\ all[n].good
      BY <1>1, <2>1 DEF Stops
    <3>2. m \in BOOLEAN
      BY <1>1, <2>1 DEF Stops
    <3> QED BY <3>1, <3>2
  <2>3. usable = f[Len(all)]
    BY DEF Usable, Those
  <2>4. n \in 0..Len(all) /\ Len(all) \in n..Len(all) /\ n - 1 \in 0..Len(all) /\ n \in Good(all)
    <3>1. n \in Good(all)
      BY <1>2, <2>2 DEF Good
    <3> HIDE DEF all
    <3> QED BY <1>2, <1>3, <3>1
  <2>5. f[n] = IF n \in Good(all) THEN Append(f[n - 1], all[n]) ELSE f[n - 1]
    <3> HIDE DEF all
    <3> QED BY <1>2, <1>3, PickedGoesOn
  <2>6. /\ f[n] \in Seq(TextLines) /\ usable \in Seq(TextLines) /\ Len(f[n]) <= Len(usable)
        /\ \A i \in 1..Len(f[n]) : usable[i] = f[n][i]
    <3> HIDE DEF all, usable
    <3> DEFINE last == Len(all)
    <3>1. n \in 0..Len(all) /\ last \in n..Len(all)
      BY <2>4
    <3> HIDE DEF last
    <3>2. /\ f[n] \in Seq(TextLines) /\ f[last] \in Seq(TextLines) /\ Len(f[n]) <= Len(f[last])
          /\ \A i \in 1..Len(f[n]) : f[last][i] = f[n][i]
      <4> DEFINE S == Good(all)
      <4> HIDE DEF S
      <4>1. \A j \in 0..Len(all) : \A i \in j..Len(all) :
              /\ Picked(all, S)[j] \in Seq(TextLines) /\ Picked(all, S)[i] \in Seq(TextLines)
              /\ Len(Picked(all, S)[j]) <= Len(Picked(all, S)[i])
              /\ \A h \in 1..Len(Picked(all, S)[j]) : Picked(all, S)[i][h] = Picked(all, S)[j][h]
        <5> TAKE j \in 0..Len(all)
        <5> TAKE i \in j..Len(all)
        <5>1. all \in Seq(TextLines)
          BY <1>3
        <5>2. Picked(all, S)[j] \in Seq(TextLines) /\ Picked(all, S)[i] \in Seq(TextLines)
          BY <5>1, PickedGrows
        <5>3. Begins(Picked(all, S)[i], Picked(all, S)[j])
          BY <5>1, PickedGrows
        <5> QED BY <5>2, <5>3 DEF Begins
      <4> DEFINE g == Picked(all, S)
      <4> HIDE DEF g
      <4>2. \A j \in 0..Len(all) : \A i \in j..Len(all) :
              /\ g[j] \in Seq(TextLines) /\ g[i] \in Seq(TextLines) /\ Len(g[j]) <= Len(g[i])
              /\ \A h \in 1..Len(g[j]) : g[i][h] = g[j][h]
        BY <4>1 DEF g
      <4>3. /\ g[n] \in Seq(TextLines) /\ g[last] \in Seq(TextLines) /\ Len(g[n]) <= Len(g[last])
            /\ \A i \in 1..Len(g[n]) : g[last][i] = g[n][i]
        BY <3>1, <4>2
      <4> QED BY <4>3 DEF g, S
    <3>3. usable = f[last]
      BY <2>3 DEF last
    <3> HIDE DEF f
    <3> QED BY <3>2, <3>3
  <2>7. k \in Seq(TextLines) /\ all[n] \in TextLines
    <3>1. f[n - 1] \in Seq(TextLines)
      <4> DEFINE j == n - 1
      <4>1. j \in 0..Len(all) /\ Len(all) \in j..Len(all)
        <5> HIDE DEF all
        <5> QED BY <1>2, <1>3, <2>4
      <4> HIDE DEF all, j
      <4>2. f[j] \in Seq(TextLines)
        BY <1>3, <4>1, PickedGrows
      <4> QED BY <4>2 DEF j
    <3> HIDE DEF all, f
    <3> QED BY <1>2, <1>3, <2>2, <3>1
  <2> HIDE DEF usable, f, all
  <2>8. /\ f[n] = Append(k, all[n]) /\ Len(f[n]) = MaxResults + 1
        /\ \A i \in 1..MaxResults : f[n][i] = k[i]
    <3>1. f[n] = Append(k, all[n])
      BY <2>2, <2>4, <2>5
    <3> QED BY <2>2, <2>7, <3>1, AppendProperties
  <2>9. Len(usable) \in Nat /\ Len(usable) > MaxResults
    BY <1>5, <2>6, <2>8
  <2>10. Min({MaxResults, Len(usable)}) = MaxResults
    <3>1. MaxResults \in Int /\ Len(usable) \in Int /\ MaxResults <= Len(usable)
      BY <1>5, <2>9
    <3> QED BY <3>1, MinOfTwo
  <2>11. /\ \A i \in 1..MaxResults : usable[i] = k[i] /\ usable[i] \in TextLines
    BY <1>5, <2>6, <2>8, <2>9
  <2>12. SubSeq(usable, 1, MaxResults) = k
    <3> DEFINE s == SubSeq(usable, 1, MaxResults)
    <3>1. MaxResults \in Int /\ 1 \in Int /\ \A i \in 1..MaxResults : usable[i] \in TextLines
      BY <1>5, <2>11
    <3>2. /\ s \in Seq(TextLines) /\ Len(s) = IF 1 <= MaxResults THEN MaxResults - 1 + 1 ELSE 0
          /\ \A i \in 1..(MaxResults - 1 + 1) : s[i] = usable[1 + i - 1]
      BY <3>1, SubSeqProperties
    <3> HIDE DEF s
    <3>3. Len(s) = MaxResults /\ \A i \in 1..MaxResults : s[i] = usable[i]
      BY <1>5, <3>2
    <3>4. Len(s) = Len(k) /\ \A i \in 1..Len(s) : s[i] = k[i]
      BY <2>2, <2>11, <3>3
    <3> QED BY <2>7, <3>2, <3>4, SeqEqual DEF s
  <2>13. r.lines = FirstOf(usable, MaxResults)
    BY <1>4, <2>10, <2>12 DEF FirstOf
  <2>14. r.more = TRUE /\ r.failed = FALSE /\ all # <<>>
    <3>1. all # <<>>
      BY <1>2
    <3> QED BY <1>4, <2>2, <3>1
  <2> HIDE DEF Floor
  <2> QED BY <2>1, <2>9, <2>13, <2>14 DEF ResultIsTrue, usable, all, r
<1>7. CASE Tool(c) = "tree"
  <2>1. k = SubSeq(all, 1, n) /\ n = TreeMaxPaths
    BY <1>1, <1>7 DEF Stops
  <2>2. Min({TreeMaxPaths, Len(all)}) = n
    <3> HIDE DEF all
    <3>1. TreeMaxPaths \in Int /\ Len(all) \in Int /\ TreeMaxPaths <= Len(all)
      BY <1>2, <1>3, <1>5, <2>1
    <3> QED BY <2>1, <3>1, MinOfTwo
  <2>3. Found(r)
    BY <1>4, <1>7, <2>1, <2>2 DEF Found, FirstOf
  <2> QED BY <1>4, <1>7, <2>3 DEF ResultIsTrue, r
<1>10. CASE Tool(c) = "text"
  <2> DEFINE j == n - 1
  <2>1. /\ m /\ k = SubSeq(all, 1, j) /\ Total(Sizes(k)) <= Budget
        /\ Total(Sizes(SubSeq(all, 1, n))) > Budget
    BY <1>1, <1>10 DEF Stops
  <2>2. j \in Nat /\ j + 1 = n
    BY <1>2
  <2> HIDE DEF all, j
  <2>3. Capped(k, TRUE, all)
    BY <1>2, <1>3, <2>1, <2>2, CappedStopped
  <2>4. Capped(r.lines, r.more, all)
    BY <1>4, <2>1, <2>3 DEF Capped
  <2> QED BY <1>4, <1>10, <2>4 DEF ResultIsTrue, Capped, r, all
<1>11. CASE Tool(c) = "show"
  <2> DEFINE j == n - 2
             rest == Tail(all)
  <2>1. /\ m /\ n > 1 /\ k = SubSeq(all, 1, n - 1)
        /\ Total(Sizes(SubSeq(rest, 1, j))) <= Budget
        /\ Total(Sizes(SubSeq(rest, 1, n - 1))) > Budget
    BY <1>1, <1>11 DEF Stops
  <2>2. j \in Nat /\ j + 1 = n - 1 /\ n - 1 \in 1..Len(all) /\ n - 1 - 1 = j /\ n <= Len(all)
    <3> HIDE DEF all
    <3> QED BY <1>2, <1>3, <2>1
  <2>3. Tail(k) = SubSeq(rest, 1, j) /\ rest \in Seq(TextLines) /\ Len(rest) = Len(all) - 1
    <3> DEFINE i == n - 1
    <3>1. i \in 1..Len(all) /\ i - 1 = j
      BY <2>2
    <3> HIDE DEF all, i, j
    <3>2. /\ Tail(SubSeq(all, 1, i)) = SubSeq(Tail(all), 1, i - 1)
          /\ Tail(all) \in Seq(TextLines) /\ Len(Tail(all)) = Len(all) - 1
      BY <1>3, <3>1, TailOfFirst
    <3> QED BY <2>1, <3>1, <3>2 DEF i
  <2> HIDE DEF all, j, rest
  <2>4. j + 1 \in 1..Len(rest) /\ Total(Sizes(SubSeq(rest, 1, j + 1))) > Budget
    BY <1>3, <2>1, <2>2, <2>3
  <2>5. Capped(Tail(k), TRUE, rest)
    BY <2>1, <2>2, <2>3, <2>4, CappedStopped
  <2>6. Capped(Tail(r.lines), r.more, rest)
    BY <1>4, <2>1, <2>5 DEF Capped
  <2> QED BY <1>4, <1>11, <2>6 DEF ResultIsTrue, Capped, r, all, rest
<1>12. Tool(c) \in ListTools \/ Tool(c) = "tree" \/ Tool(c) = "text" \/ Tool(c) = "show"
  BY <1>1, <1>2 DEF Request, Tools, ListTools
<1> QED BY <1>6, <1>7, <1>10, <1>11, <1>12 DEF r

-----------------------------------------------------------------------------
(* The invariant holds.                                                    *)

LEMMA NothingRead ==
  ASSUME NEW a, Request(a)
  PROVE  /\ PipeHolds(a, 0, <<>>) /\ ReadOf(a, 0, <<>>) = 0
         /\ Collects(a, 0, <<>>, NoBlame)
<1> DEFINE all == Written(a.script)
<1>1. Len(a.script) \in Nat /\ 0 \in 0..Len(a.script) /\ Len(a.script) \in 0..Len(a.script)
  BY DEF Request
<1>2. WrittenBy(a, 0) = <<>>
  BY <1>1, PickedGoesOn DEF WrittenBy
<1>3. ReadOf(a, 0, <<>>) = 0
  BY <1>2 DEF ReadOf
<1>4. all \in Seq(LinesOf(a))
  BY <1>1, WrittenGrows
<1> HIDE DEF all
<1>5. Len(all) \in Nat
  BY <1>4
<1>6. PipeHolds(a, 0, <<>>)
  <2>1. <<>> \in Seq(LinesOf(a)) /\ Len(<<>>) = 0
    BY EmptySeq
  <2> QED BY <1>1, <1>3, <2>1 DEF PipeHolds
<1>7. SubSeq(all, 1, 0) = <<>> /\ Picked(all, Good(all))[0] = <<>> /\ Len(<<>>) = 0
  BY <1>5, NoneYet, PickedGoesOn
<1>8. Total(Sizes(<<>>)) = 0
  <2>1. Len(Sizes(<<>>)) = 0
    BY DEF Sizes
  <2> QED BY <2>1, TotalOfNone
<1>9. MaxResults \in Nat /\ TreeMaxPaths \in Nat /\ TreeMaxPaths > 0 /\ Budget \in Nat
  BY StreamedReadsAssumption, CodeViewsAssumption
<1>10. BlameKnows(all, 0, NoBlame)
  <2>1. LastMark(all, 0) = "content"
    <3>1. {k \in 1..0 : all[k].kind # "other"} = {}
      OBVIOUS
    <3> QED BY <3>1 DEF LastMark
  <2>2. <<>> \in Seq(Entries) /\ 0 \in Nat
    BY EmptySeq
  <2>3. <<>> \in Knowns /\ DOMAIN <<>> = {}
    <3>1. <<>> \in [{} -> About] /\ {} \in SUBSET Nat
      OBVIOUS
    <3> QED BY <3>1 DEF Knowns
  <2>4. Picked(Records(all), Contents(all))[0] = <<>>
    <3>1. Len(Records(all)) \in Nat
      BY <1>5 DEF Records
    <3> QED BY <3>1, PickedGoesOn
  <2>5. /\ NoBlame.lines = <<>> /\ NoBlame.commit = 0 /\ NoBlame.known = <<>>
        /\ NoBlame \in [lines : Seq(Entries), commit : Nat, author : Nat, summary : Nat, known : Knowns]
    BY <2>2, <2>3 DEF NoBlame
  <2> QED BY <2>1, <2>3, <2>4, <2>5 DEF BlameKnows
<1>11. Collects(a, 0, <<>>, NoBlame)
  BY <1>5, <1>7, <1>8, <1>9, <1>10 DEF Collects, all
<1> QED BY <1>3, <1>6, <1>11

LEMMA InitHolds == Init => ReadsInv
<1> SUFFICES ASSUME Init PROVE ReadsInv
  OBVIOUS
<1>1. asked \in Asked
  BY DEF Init
<1>2. ASSUME NEW c \in Calls PROVE Holds(c)
  <2>1. CASE asked[c] = Nothing
    BY <2>1 DEF Init, Holds
  <2>2. CASE asked[c] # Nothing
    <3> DEFINE a == asked[c]
    <3>1. /\ at[c] = "asked" /\ proc[c] = "none" /\ done[c] = 0 /\ out[c] = <<>> /\ kept[c] = <<>>
          /\ blame[c] = NoBlame /\ more[c] = FALSE /\ yielded[c] = FALSE /\ result[c] = Nothing
      BY <2>2 DEF Init
    <3>2. Request(a)
      BY <1>1, <2>2, Requested
    <3> HIDE DEF a
    <3>3. /\ PipeHolds(a, 0, <<>>) /\ ReadOf(a, 0, <<>>) = 0 /\ Collects(a, 0, <<>>, NoBlame)
      BY <3>2, NothingRead
    <3>4. CallHolds(a, "asked", "none", 0, <<>>, <<>>, NoBlame, FALSE, FALSE)
      BY <3>3 DEF CallHolds
    <3> QED BY <2>2, <3>1, <3>4 DEF Holds, a
  <2> QED BY <2>1, <2>2
<1>3. /\ at \in [Calls -> Stages] /\ DOMAIN done = Calls /\ DOMAIN proc = Calls /\ DOMAIN out = Calls
      /\ DOMAIN kept = Calls /\ DOMAIN blame = Calls /\ DOMAIN result = Calls
      /\ more \in [Calls -> BOOLEAN] /\ yielded \in [Calls -> BOOLEAN] /\ tree = Nothing
  BY DEF Init, Stages
<1> QED BY <1>1, <1>2, <1>3 DEF ReadsInv

(* The calls are what they were asked to be. *)
LEMMA ResultStays ==
  ASSUME asked' = asked, NEW c, ResultIsTrue(c, result'[c])
  PROVE  ResultIsTrue(c, result[c])'
BY DEF ResultIsTrue, Found, Output, Script, Tool, Floor, Usable

LEMMA TreeStays ==
  ASSUME asked' = asked, Found(tree')
  PROVE  Found(tree)'
BY DEF Found, Output, Script, Tool

(* A step of call c. *)
Alone(c) ==
  /\ asked' = asked
  /\ DOMAIN at' = Calls /\ DOMAIN done' = Calls /\ DOMAIN proc' = Calls /\ DOMAIN out' = Calls
  /\ DOMAIN kept' = Calls /\ DOMAIN blame' = Calls /\ DOMAIN result' = Calls
  /\ DOMAIN more' = Calls /\ DOMAIN yielded' = Calls
  /\ at' = [d \in Calls |-> at'[d]] /\ more' = [d \in Calls |-> more'[d]]
  /\ yielded' = [d \in Calls |-> yielded'[d]]
  /\ \A d \in Calls \ {c} :
       /\ at'[d] = at[d] /\ done'[d] = done[d] /\ proc'[d] = proc[d] /\ out'[d] = out[d]
       /\ kept'[d] = kept[d] /\ blame'[d] = blame[d] /\ result'[d] = result[d]
       /\ more'[d] = more[d] /\ yielded'[d] = yielded[d]

LEMMA HoldsStays ==
  ASSUME NEW d, Holds(d), asked' = asked,
         at'[d] = at[d], done'[d] = done[d], proc'[d] = proc[d], out'[d] = out[d],
         kept'[d] = kept[d], blame'[d] = blame[d], result'[d] = result[d],
         more'[d] = more[d], yielded'[d] = yielded[d]
  PROVE  Holds(d)'
<1>1. result'[d] # Nothing /\ asked[d] # Nothing => ResultIsTrue(d, result[d])'
  <2> SUFFICES ASSUME result'[d] # Nothing, asked[d] # Nothing PROVE ResultIsTrue(d, result[d])'
    OBVIOUS
  <2>1. ResultIsTrue(d, result[d])
    BY DEF Holds
  <2>2. ResultIsTrue(d, result'[d])
    BY <2>1
  <2> QED BY <2>2, ResultStays
<1> QED BY <1>1 DEF Holds

LEMMA OneMoves ==
  ASSUME ReadsInv, NEW c \in Calls, Alone(c), asked[c] # Nothing,
         at'[c] \in Stages, more'[c] \in BOOLEAN, yielded'[c] \in BOOLEAN,
         CallHolds(asked[c], at'[c], proc'[c], done'[c], out'[c], kept'[c], blame'[c], more'[c],
                   yielded'[c]),
         result'[c] # Nothing => ResultIsTrue(c, result'[c]),
         tree' # Nothing => ~tree'.failed /\ Found(tree')
  PROVE  ReadsInv'
<1>1. Holds(c)'
  <2>1. result'[c] # Nothing => ResultIsTrue(c, result[c])'
    BY ResultStays DEF Alone
  <2> QED BY <2>1 DEF Holds, Alone
<1>2. ASSUME NEW d \in Calls, d # c PROVE Holds(d)'
  <2>1. Holds(d)
    BY DEF ReadsInv
  <2> QED BY <1>2, <2>1, HoldsStays DEF Alone
<1>3. \A d \in Calls : Holds(d)'
  BY <1>1, <1>2
<1>4. at' \in [Calls -> Stages] /\ more' \in [Calls -> BOOLEAN] /\ yielded' \in [Calls -> BOOLEAN]
  <2>1. \A d \in Calls : at'[d] \in Stages /\ more'[d] \in BOOLEAN /\ yielded'[d] \in BOOLEAN
    <3> TAKE d \in Calls
    <3>1. at[d] \in Stages /\ more[d] \in BOOLEAN /\ yielded[d] \in BOOLEAN
      BY DEF ReadsInv
    <3> QED BY <3>1 DEF Alone
  <2>2. /\ at' = [d \in Calls |-> at'[d]] /\ more' = [d \in Calls |-> more'[d]]
        /\ yielded' = [d \in Calls |-> yielded'[d]]
    BY DEF Alone
  <2> HIDE DEF Stages
  <2>3. at' \in [Calls -> Stages]
    BY <2>1, <2>2
  <2>4. more' \in [Calls -> BOOLEAN] /\ yielded' \in [Calls -> BOOLEAN]
    BY <2>1, <2>2
  <2> QED BY <2>3, <2>4
<1>5. asked' \in Asked
  BY DEF ReadsInv, Alone
<1>6. (tree # Nothing => ~tree.failed /\ Found(tree))'
  BY TreeStays DEF Alone
<1> QED BY <1>3, <1>4, <1>5, <1>6 DEF ReadsInv, Alone

(* The state of a call that was made. *)
LEMMA Asking ==
  ASSUME ReadsInv, NEW c \in Calls, at[c] # "over" \/ proc[c] # "none"
  PROVE  /\ asked[c] # Nothing /\ Request(asked[c])
         /\ CallHolds(asked[c], at[c], proc[c], done[c], out[c], kept[c], blame[c], more[c], yielded[c])
         /\ result[c] # Nothing => ResultIsTrue(c, result[c])
         /\ at[c] \in Stages /\ more[c] \in BOOLEAN /\ yielded[c] \in BOOLEAN
         /\ tree # Nothing => ~tree.failed /\ Found(tree)
<1>1. Holds(c) /\ asked \in Asked
  BY DEF ReadsInv
<1>2. asked[c] # Nothing
  BY <1>1 DEF Holds
<1>3. Request(asked[c])
  BY <1>1, <1>2, Requested
<1>4. at[c] \in Stages /\ more[c] \in BOOLEAN /\ yielded[c] \in BOOLEAN
  BY DEF ReadsInv
<1> QED BY <1>1, <1>2, <1>3, <1>4 DEF Holds, ReadsInv

(* Nothing that the invariant speaks of changes. *)
LEMMA Nowhere ==
  ASSUME ReadsInv, UNCHANGED <<asked, at, done, proc, out, collected, result, tree>>
  PROVE  ReadsInv'
<1>1. /\ asked' = asked /\ at' = at /\ done' = done /\ proc' = proc /\ out' = out /\ kept' = kept
      /\ blame' = blame /\ more' = more /\ yielded' = yielded /\ result' = result /\ tree' = tree
  BY DEF collected
<1>2. \A d \in Calls : Holds(d)'
  <2> TAKE d \in Calls
  <2>1. Holds(d)
    BY DEF ReadsInv
  <2> QED BY <1>1, <2>1, HoldsStays
<1>3. (tree # Nothing => ~tree.failed /\ Found(tree))'
  BY <1>1, TreeStays DEF ReadsInv
<1> QED BY <1>1, <1>2, <1>3 DEF ReadsInv

LEMMA PopenKeeps ==
  ASSUME ReadsInv, NEW c \in Calls, Popen(c)
  PROVE  ReadsInv'
<1> DEFINE a == asked[c]
           n == ReadOf(a, done[c], out[c])
<1>1. /\ at[c] = "asked" /\ at' = [at EXCEPT ![c] = "reading"] /\ proc' = [proc EXCEPT ![c] = "running"]
      /\ UNCHANGED <<asked, done, out, collected, result, tree>>
  BY DEF Popen, Go
<1>2. /\ a # Nothing /\ Request(a)
      /\ CallHolds(a, "asked", proc[c], done[c], out[c], kept[c], blame[c], more[c], yielded[c])
      /\ result[c] # Nothing => ResultIsTrue(c, result[c])
      /\ more[c] \in BOOLEAN /\ yielded[c] \in BOOLEAN
      /\ tree # Nothing => ~tree.failed /\ Found(tree)
  BY <1>1, Asking
<1>3. Alone(c) /\ at'[c] = "reading" /\ proc'[c] = "running"
  BY <1>1 DEF Alone, ReadsInv, collected
<1> HIDE DEF a
<1>4. CallHolds(a, "reading", "running", done[c], out[c], kept[c], blame[c], more[c], yielded[c])
  BY <1>2 DEF CallHolds
<1>5. "reading" \in Stages
  BY DEF Stages
<1> QED BY <1>1, <1>2, <1>3, <1>4, <1>5, OneMoves DEF a, collected

LEMMA WriteKeeps ==
  ASSUME ReadsInv, NEW c \in Calls, Write(c)
  PROVE  ReadsInv'
<1> DEFINE a == asked[c]
           d == done[c]
           o == out[c]
           line == a.script[d + 1]
           then == IF line = Chunk THEN o ELSE Append(o, line)
<1>1. /\ proc[c] = "running" /\ d < Len(a.script) /\ done' = [done EXCEPT ![c] = d + 1]
      /\ UNCHANGED <<asked, at, proc, collected, result, tree>>
      /\ DOMAIN out' = Calls /\ out'[c] = then /\ \A e \in Calls \ {c} : out'[e] = out[e]
  <2>1. /\ proc[c] = "running" /\ d < Len(a.script) /\ done' = [done EXCEPT ![c] = d + 1]
        /\ UNCHANGED <<asked, at, proc, collected, result, tree>>
        /\ line = Chunk => out' = out
        /\ line # Chunk => out' = [out EXCEPT ![c] = Append(o, line)]
    BY DEF Write, Script
  <2> HIDE DEF line
  <2>2. DOMAIN out = Calls
    BY DEF ReadsInv
  <2> QED BY <2>1, <2>2
<1>2. /\ a # Nothing /\ Request(a)
      /\ CallHolds(a, at[c], "running", d, o, kept[c], blame[c], more[c], yielded[c])
      /\ result[c] # Nothing => ResultIsTrue(c, result[c])
      /\ at[c] \in Stages /\ more[c] \in BOOLEAN /\ yielded[c] \in BOOLEAN
      /\ tree # Nothing => ~tree.failed /\ Found(tree)
  BY <1>1, Asking
<1> HIDE DEF then
<1>3. Alone(c) /\ done'[c] = d + 1 /\ out'[c] = then
  BY <1>1 DEF Alone, ReadsInv, collected
<1>4. PipeHolds(a, d, o)
  BY <1>2 DEF CallHolds
<1> HIDE DEF a, d, o
<1>5. PipeHolds(a, d + 1, then) /\ ReadOf(a, d + 1, then) = ReadOf(a, d, o)
  BY <1>1, <1>2, <1>4, PipeWritten DEF then
<1>6. CallHolds(a, at[c], "running", d + 1, then, kept[c], blame[c], more[c], yielded[c])
  BY <1>2, <1>5 DEF CallHolds
<1> QED BY <1>1, <1>2, <1>3, <1>6, OneMoves DEF a, collected

(* The process comes to its end. *)
LEMMA ProcKeeps ==
  ASSUME ReadsInv, NEW c \in Calls, Exits(c) \/ Dies(c)
  PROVE  ReadsInv'
<1> DEFINE a == asked[c]
           p == IF Exits(c) THEN "exited" ELSE "killed"
<1>1. /\ proc[c] \in {"running", "signalled"} /\ proc' = [proc EXCEPT ![c] = p]
      /\ p = "exited" => proc[c] = "running" /\ done[c] = Len(a.script)
      /\ p = "killed" => proc[c] = "signalled"
      /\ p \in {"exited", "killed"}
      /\ UNCHANGED <<asked, at, done, out, collected, result, tree>>
  <2>1. CASE Exits(c)
    BY <2>1 DEF Exits, Script
  <2>2. CASE ~Exits(c)
    <3>1. Dies(c)
      BY <2>2
    <3> QED BY <2>2, <3>1 DEF Dies
  <2> QED BY <2>1, <2>2
<1>2. /\ a # Nothing /\ Request(a)
      /\ CallHolds(a, at[c], proc[c], done[c], out[c], kept[c], blame[c], more[c], yielded[c])
      /\ result[c] # Nothing => ResultIsTrue(c, result[c])
      /\ at[c] \in Stages /\ more[c] \in BOOLEAN /\ yielded[c] \in BOOLEAN
      /\ tree # Nothing => ~tree.failed /\ Found(tree)
  BY <1>1, Asking
<1> HIDE DEF p
<1>3. Alone(c) /\ proc'[c] = p
  BY <1>1 DEF Alone, ReadsInv, collected
<1> HIDE DEF a
<1>4. CallHolds(a, at[c], p, done[c], out[c], kept[c], blame[c], more[c], yielded[c])
  BY <1>1, <1>2 DEF CallHolds
<1> QED BY <1>1, <1>2, <1>3, <1>4, OneMoves DEF a, collected

LEMMA EndOfOutputKeeps ==
  ASSUME ReadsInv, NEW c \in Calls, EndOfOutput(c)
  PROVE  ReadsInv'
<1> DEFINE a == asked[c]
<1>1. /\ at[c] = "reading" /\ out[c] = <<>> /\ proc[c] \in {"exited", "killed"}
      /\ at' = [at EXCEPT ![c] = "joining"]
      /\ UNCHANGED <<asked, done, proc, out, collected, result, tree>>
  BY DEF EndOfOutput, Go, Ended, pipes
<1>2. /\ a # Nothing /\ Request(a)
      /\ CallHolds(a, "reading", proc[c], done[c], out[c], kept[c], blame[c], more[c], yielded[c])
      /\ result[c] # Nothing => ResultIsTrue(c, result[c])
      /\ more[c] \in BOOLEAN /\ yielded[c] \in BOOLEAN
      /\ tree # Nothing => ~tree.failed /\ Found(tree)
  BY <1>1, Asking
<1>3. Alone(c) /\ at'[c] = "joining"
  BY <1>1 DEF Alone, ReadsInv, collected
<1> HIDE DEF a
<1>4. CallHolds(a, "joining", proc[c], done[c], out[c], kept[c], blame[c], more[c], yielded[c])
  BY <1>1, <1>2 DEF CallHolds
<1>5. "joining" \in Stages
  BY DEF Stages
<1> QED BY <1>1, <1>2, <1>3, <1>4, <1>5, OneMoves DEF a, collected

LEMMA TerminateKeeps ==
  ASSUME ReadsInv, NEW c \in Calls, Terminate(c)
  PROVE  ReadsInv'
<1> DEFINE a == asked[c]
           p == IF proc[c] = "running" THEN "signalled" ELSE proc[c]
           stage == IF at[c] = "stopping" THEN "closing" ELSE "failing"
<1>1. /\ at[c] \in {"stopping", "refusing"} /\ at' = [at EXCEPT ![c] = stage]
      /\ proc' = [proc EXCEPT ![c] = p]
      /\ UNCHANGED <<asked, done, out, collected, result, tree>>
  BY DEF Terminate, Go
<1>2. /\ a # Nothing /\ Request(a)
      /\ CallHolds(a, at[c], proc[c], done[c], out[c], kept[c], blame[c], more[c], yielded[c])
      /\ result[c] # Nothing => ResultIsTrue(c, result[c])
      /\ at[c] \in Stages /\ more[c] \in BOOLEAN /\ yielded[c] \in BOOLEAN
      /\ tree # Nothing => ~tree.failed /\ Found(tree)
  BY <1>1, Asking
<1> HIDE DEF p
<1>3. Alone(c) /\ proc'[c] = p /\ at'[c] = stage
  BY <1>1 DEF Alone, ReadsInv, collected
<1>4. p = "exited" => proc[c] = "exited"
  BY DEF p
<1> HIDE DEF a
<1>5. CallHolds(a, stage, p, done[c], out[c], kept[c], blame[c], more[c], yielded[c])
  BY <1>1, <1>2, <1>4 DEF CallHolds
<1>6. stage \in Stages
  BY DEF Stages
<1> QED BY <1>1, <1>2, <1>3, <1>5, <1>6, OneMoves DEF a, collected

LEMMA ReadLineKeeps ==
  ASSUME ReadsInv, NEW c \in Calls, ReadLine(c)
  PROVE  ReadsInv'
<1> DEFINE a == asked[c]
           d == done[c]
           o == out[c]
           k == kept[c]
           b == blame[c]
           n == ReadOf(a, d, o)
           line == Head(o)
           verdict == Verdict(a.tool, k, line)
           stage == IF verdict = "refuse" THEN "refusing"
                    ELSE IF verdict \in {"more", "last"} THEN "stopping" ELSE "reading"
           then == IF a.tool = "blame" THEN BlameStep(b, line) ELSE b
           rest == Tail(o)
           more1 == verdict = "more"
<1>1. /\ at[c] = "reading" /\ o # <<>> /\ at' = [at EXCEPT ![c] = stage]
      /\ out' = [out EXCEPT ![c] = rest] /\ kept' = [kept EXCEPT ![c] = After(a, k, line)]
      /\ blame' = [blame EXCEPT ![c] = then] /\ more' = [more EXCEPT ![c] = more1]
      /\ yielded' = [yielded EXCEPT ![c] = TRUE]
      /\ UNCHANGED <<asked, done, proc, result, tree>>
  BY DEF ReadLine, Go, Tool, After
<1>2. /\ a # Nothing /\ Request(a)
      /\ CallHolds(a, "reading", proc[c], d, o, k, b, more[c], yielded[c])
      /\ result[c] # Nothing => ResultIsTrue(c, result[c])
      /\ tree # Nothing => ~tree.failed /\ Found(tree)
  BY <1>1, Asking
<1>3. PipeHolds(a, d, o) /\ Collects(a, n, k, b) /\ proc[c] \in {"running", "exited"}
      /\ (proc[c] = "exited" => d = Len(a.script))
  BY <1>2 DEF CallHolds
<1> HIDE DEF a, d, o
<1>4. /\ PipeHolds(a, d, rest) /\ ReadOf(a, d, rest) = n + 1
      /\ n \in Nat /\ n + 1 \in 1..Len(Written(a.script)) /\ line = Written(a.script)[n + 1]
  BY <1>1, <1>2, <1>3, PipeRead
<1> HIDE DEF k, b, n
<1>5. ReadsOn(a, n, k, b)
  BY <1>2, <1>3, <1>4, ToolReads
<1>6. /\ verdict \in {"keep", "skip", "last", "more", "refuse"}
      /\ verdict \in {"keep", "skip"} => Collects(a, n + 1, After(a, k, line), then)
      /\ verdict \in {"last", "more"} => Stops(a, n + 1, After(a, k, line), more1)
      /\ verdict = "refuse" => a.tool \in {"window", "show"}
  BY <1>4, <1>5 DEF ReadsOn
<1> HIDE DEF line, rest, then, verdict
<1>7. stage \in Stages /\ more1 \in BOOLEAN
  BY DEF Stages
<1>8. Alone(c)
  <2> HIDE DEF stage, more1
  <2> QED BY <1>1 DEF Alone, ReadsInv
<1>9. /\ at'[c] = stage /\ out'[c] = rest /\ kept'[c] = After(a, k, line) /\ blame'[c] = then
      /\ more'[c] = more1 /\ yielded'[c] = TRUE
  <2> HIDE DEF stage, more1
  <2> QED BY <1>1 DEF ReadsInv
<1>10. CallHolds(a, stage, proc[c], d, rest, After(a, k, line), then, more1, TRUE)
  <2>1. n + 1 > 0
    BY <1>4
  <2>2. CASE verdict \in {"keep", "skip"}
    BY <1>3, <1>4, <1>6, <2>1, <2>2 DEF CallHolds
  <2>3. CASE verdict \in {"last", "more"}
    BY <1>3, <1>4, <1>6, <2>3 DEF CallHolds
  <2>4. CASE verdict = "refuse"
    BY <1>3, <1>4, <1>6, <2>4 DEF CallHolds
  <2> QED BY <1>6, <2>2, <2>3, <2>4
<1> HIDE DEF stage, more1
<1> QED BY <1>1, <1>2, <1>7, <1>8, <1>9, <1>10, OneMoves DEF a, d

(* The outcome is true. *)
LEMMA OutcomeTrue ==
  ASSUME ReadsInv, NEW c \in Calls, at[c] \in {"joining", "closing", "failing"}
  PROVE  ResultIsTrue(c, Outcome(c))
<1> DEFINE a == asked[c]
           d == done[c]
           o == out[c]
           k == kept[c]
           b == blame[c]
           n == ReadOf(a, d, o)
<1>1. /\ a # Nothing /\ Request(a)
      /\ CallHolds(a, at[c], proc[c], d, o, k, b, more[c], yielded[c])
      /\ more[c] \in BOOLEAN /\ yielded[c] \in BOOLEAN
  BY Asking
<1>2. Tool(c) = a.tool /\ Output(c) = Written(a.script)
  BY DEF Tool, Output, Script
<1>3. Failure.failed = TRUE
  BY DEF Failure
<1>4. Tool(c) \in Tools \ ListTools => ResultIsTrue(c, Failure)
  BY <1>3 DEF ResultIsTrue, Tools, ListTools
<1>5. CASE at[c] = "failing"
  <2>1. Tool(c) \in {"window", "show"}
    BY <1>1, <1>2, <1>5 DEF CallHolds
  <2>2. Outcome(c) = Failure
    BY <1>5 DEF Outcome
  <2> QED BY <1>4, <2>1, <2>2 DEF Tools, ListTools
<1>6. CASE at[c] = "closing"
  <2>1. Stops(a, n, k, more[c]) /\ n \in Nat
    BY <1>1, <1>6 DEF CallHolds, PipeHolds
  <2>2. Tool(c) # "blame"
    BY <1>2, <2>1 DEF Stops
  <2>3. CASE Tool(c) = "show" /\ k = <<>>
    <3>1. Outcome(c) = Failure
      BY <1>6, <2>3 DEF Outcome
    <3> QED BY <1>4, <2>3, <3>1 DEF Tools, ListTools
  <2>4. CASE ~(Tool(c) = "show" /\ k = <<>>)
    <3>1. Outcome(c) = Listed(k, more[c])
      BY <1>6, <2>2, <2>4 DEF Outcome
    <3>2. ResultIsTrue(c, Listed(k, more[c]))
      BY <1>1, <2>1, StoppedResult
    <3> QED BY <3>1, <3>2
  <2> QED BY <2>3, <2>4
<1>7. CASE at[c] = "joining"
  <2>1. /\ d = Len(a.script) /\ o = <<>> /\ PipeHolds(a, d, o) /\ Collects(a, n, k, b)
        /\ ~more[c] /\ (yielded[c] <=> n > 0)
    BY <1>1, <1>7 DEF CallHolds
  <2>2. n = Len(Output(c)) /\ Output(c) \in Seq(LinesOf(a))
    <3>1. Len(a.script) \in 0..Len(a.script)
      BY <1>1 DEF Request
    <3> QED BY <1>1, <1>2, <2>1, <3>1, PipeEmpty, WrittenGrows
  <2>3. more[c] = FALSE /\ (~yielded[c] <=> Output(c) = <<>>)
    <3> DEFINE all == Output(c)
    <3> HIDE DEF all, n
    <3>1. Len(all) \in Nat /\ (Len(all) = 0 <=> all = <<>>)
      BY <2>2, EmptySeq DEF all
    <3> QED BY <1>1, <2>1, <2>2, <3>1 DEF all
  <2> DEFINE unsaid == Output(c) = <<>> /\ a.code >= Floor(c)
             unborn == Tool(c) = "log" /\ a.unborn
             mute == Tool(c) = "show" /\ k = <<>>
             lines == IF Tool(c) = "blame" THEN b.lines ELSE k
  <2> HIDE DEF n
  <2>4. CASE unsaid /\ ~unborn
    <3>1. Outcome(c) = Failure
      BY <1>7, <2>3, <2>4 DEF Outcome
    <3>2. Tool(c) \in ListTools => ResultIsTrue(c, Failure)
      <4> SUFFICES ASSUME Tool(c) \in ListTools PROVE ResultIsTrue(c, Failure)
        OBVIOUS
      <4>1. Tool(c) \in {"glob", "grep", "log"}
        BY DEF ListTools
      <4> HIDE DEF Failure
      <4>2. Failure.failed <=> /\ Output(c) = <<>> /\ asked[c].code >= Floor(c)
                               /\ ~(Tool(c) = "log" /\ asked[c].unborn)
        BY <1>3, <2>4
      <4> QED BY <1>3, <4>1, <4>2 DEF ResultIsTrue
    <3> QED BY <1>1, <1>2, <1>4, <3>1, <3>2 DEF Request
  <2>5. CASE ~(unsaid /\ ~unborn) /\ mute /\ ~(unsaid /\ unborn)
    <3>1. Outcome(c) = Failure
      BY <1>7, <2>3, <2>5 DEF Outcome
    <3> QED BY <1>4, <2>5, <3>1 DEF Tools, ListTools
  <2>6. CASE ~(unsaid /\ ~unborn) /\ (~mute \/ (unsaid /\ unborn))
    <3>1. Outcome(c) = Listed(lines, FALSE)
      <4>1. CASE unsaid /\ unborn
        <5>1. n = 0 /\ Tool(c) = "log"
          <6>1. Len(<<>>) = 0
            OBVIOUS
          <6> QED BY <2>2, <4>1, <6>1
        <5>2. k = <<>>
          <6>1. k = Picked(Output(c), Good(Output(c)))[0]
            BY <1>2, <2>1, <5>1 DEF Collects
          <6>2. Len(Output(c)) \in Nat
            BY <2>2
          <6> QED BY <6>1, <6>2, PickedGoesOn
        <5> QED BY <1>7, <2>3, <4>1, <5>1, <5>2 DEF Outcome
      <4>2. CASE ~(unsaid /\ unborn)
        BY <1>7, <2>3, <2>6, <4>2 DEF Outcome
      <4> QED BY <4>1, <4>2
    <3>2. Collects(asked[c], Len(Output(c)), k, b) /\ Request(asked[c]) /\ asked[c] # Nothing
      BY <1>1, <2>1, <2>2
    <3>3. Tool(c) = "show" => k # <<>>
      BY <2>6
    <3>4. Tool(c) \in ListTools =>
            ~(Output(c) = <<>> /\ asked[c].code >= Floor(c) /\ ~(Tool(c) = "log" /\ asked[c].unborn))
      BY <2>6
    <3> HIDE DEF k, b
    <3>5. ResultIsTrue(c, Listed(IF Tool(c) = "blame" THEN b.lines ELSE k, FALSE))
      BY <3>2, <3>3, <3>4, WholeResult
    <3> QED BY <3>1, <3>5
  <2> QED BY <2>4, <2>5, <2>6
<1> QED BY <1>5, <1>6, <1>7

LEMMA JoinKeeps ==
  ASSUME ReadsInv, NEW c \in Calls, Join(c) \/ Cached(c)
  PROVE  ReadsInv'
<1> DEFINE a == asked[c]
           r == IF Join(c) THEN Outcome(c) ELSE tree
<1>1. /\ at[c] # "over" /\ at' = [at EXCEPT ![c] = "over"] /\ result' = [result EXCEPT ![c] = r]
      /\ UNCHANGED <<asked, done, proc, out, collected>>
      /\ tree' = tree \/ (tree' = r /\ Tool(c) = "tree" /\ ~r.failed)
  BY DEF Join, Cached, Go, pipes
<1>2. /\ a # Nothing /\ Request(a)
      /\ CallHolds(a, at[c], proc[c], done[c], out[c], kept[c], blame[c], more[c], yielded[c])
      /\ more[c] \in BOOLEAN /\ yielded[c] \in BOOLEAN
      /\ tree # Nothing => ~tree.failed /\ Found(tree)
  BY <1>1, Asking
<1>3. ResultIsTrue(c, r)
  <2>1. CASE Join(c)
    BY <2>1, OutcomeTrue DEF Join
  <2>2. CASE ~Join(c)
    <3>1. Cached(c)
      BY <2>2
    <3>2. Tool(c) = "tree" /\ tree # Nothing /\ r = tree
      BY <2>2, <3>1 DEF Cached
    <3> QED BY <1>2, <3>2 DEF ResultIsTrue
  <2> QED BY <2>1, <2>2
<1> HIDE DEF r
<1>4. Tool(c) = "tree" /\ ~r.failed => Found(r)
  BY <1>3 DEF ResultIsTrue
<1>5. Alone(c) /\ at'[c] = "over" /\ result'[c] = r
  BY <1>1 DEF Alone, ReadsInv, collected
<1>6. tree' # Nothing => ~tree'.failed /\ Found(tree')
  BY <1>1, <1>2, <1>4
<1> HIDE DEF a
<1>7. CallHolds(a, "over", proc[c], done[c], out[c], kept[c], blame[c], more[c], yielded[c])
  BY <1>2 DEF CallHolds
<1>8. "over" \in Stages
  BY DEF Stages
<1> QED BY <1>1, <1>2, <1>3, <1>5, <1>6, <1>7, <1>8, OneMoves DEF a, collected

LEMMA NextHolds == ReadsInv /\ [Next]_vars => ReadsInv'
<1> SUFFICES ASSUME ReadsInv, [Next]_vars PROVE ReadsInv'
  OBVIOUS
<1>1. CASE UNCHANGED vars
  BY <1>1, Nowhere DEF vars, pipes
<1>2. ASSUME NEW c \in Calls, Process(c) PROVE ReadsInv'
  BY <1>2, WriteKeeps, ProcKeeps DEF Process
<1>3. ASSUME NEW c \in Calls, DrainStderr(c) \/ Abandon(c) PROVE ReadsInv'
  <2>1. UNCHANGED <<asked, at, done, proc, out, collected, result, tree>>
    BY <1>3 DEF DrainStderr, Abandon, pipes
  <2> QED BY <2>1, Nowhere
<1>4. ASSUME NEW c \in Calls, Reader(c) PROVE ReadsInv'
  BY <1>4, PopenKeeps, ReadLineKeeps, EndOfOutputKeeps, TerminateKeeps, JoinKeeps DEF Reader
<1> QED BY <1>1, <1>2, <1>3, <1>4 DEF Next

THEOREM ReadsHold == Spec => []ReadsInv
BY InitHolds, NextHolds, PTL DEF Spec

(* Whatever the tools are asked and their processes write, however the     *)
(* threads, processes and calls interleave: a result is the first of what  *)
(* would have been written, up to the limit or the budget, marked exactly  *)
(* if there was more (the readers of src/engine/code and src/engine/git,   *)
(* with stream_subprocess_lines).                                          *)
THEOREM ResultsTrue == Spec => []ResultsAreTrue
<1>1. ReadsInv => ResultsAreTrue
  BY DEF ReadsInv, Holds, ResultsAreTrue
<1> QED BY <1>1, ReadsHold, PTL

LEMMA WindowResult ==
  ASSUME ReadsInv, NEW c \in Calls, result[c] # Nothing, ~result[c].failed, Tool(c) = "window"
  PROVE  WindowsTile(Sizes(result[c].lines))
<1> DEFINE a == asked[c]
           lines == result[c].lines
<1>1. a # Nothing /\ ResultIsTrue(c, result[c]) /\ asked \in Asked
  BY DEF ReadsInv, Holds
<1>2. Request(a)
  BY <1>1, Requested
<1>3. lines = Written(a.script)
  BY <1>1 DEF ResultIsTrue, Output, Script
<1>4. lines \in Seq(TextLines)
  <2>1. LinesOf(a) = TextLines
    BY DEF LinesOf, Tool
  <2>2. Len(a.script) \in 0..Len(a.script)
    BY <1>2 DEF Request
  <2> QED BY <1>2, <1>3, <2>1, <2>2, WrittenGrows
<1> HIDE DEF lines
<1> QED BY <1>4, SizesTyped, AlwaysTiles DEF lines

LEMMA TreeResult ==
  ASSUME ReadsInv, NEW c \in Calls, result[c] # Nothing, ~result[c].failed, Tool(c) = "tree",
         Len(result[c].lines) < TreeMaxPaths
  PROVE  \E d \in Calls : /\ asked[d] # Nothing /\ Tool(d) = "tree"
                          /\ OverviewOf(PathsOf(Output(d)), result[c].lines)
<1> DEFINE lines == result[c].lines
<1>1. ResultIsTrue(c, result[c]) /\ asked \in Asked
  BY DEF ReadsInv, Holds
<1>2. Found(result[c])
  BY <1>1 DEF ResultIsTrue
<1>3. PICK d \in Calls : /\ asked[d] # Nothing /\ Tool(d) = "tree"
                         /\ lines = FirstOf(Output(d), TreeMaxPaths)
  BY <1>2 DEF Found
<1> DEFINE all == Output(d)
<1>4. Request(asked[d])
  BY <1>1, <1>3, Requested
<1>5. all \in Seq(TextLines) /\ \A i \in 1..Len(all) : all[i].path # <<>>
  <2>1. LinesOf(asked[d]) = TextLines
    BY <1>3 DEF LinesOf, Tool
  <2>2. Len(asked[d].script) \in 0..Len(asked[d].script)
    BY <1>4 DEF Request
  <2>3. all \in Seq(TextLines)
    BY <1>4, <2>1, <2>2, WrittenGrows DEF Output, Script
  <2> QED BY <1>3, <1>4, <2>3 DEF Request, Output, Script, Tool
<1> HIDE DEF all
<1>6. TreeMaxPaths \in Nat /\ Len(all) \in Nat
  BY <1>5, StreamedReadsAssumption
<1>7. Len(all) <= TreeMaxPaths
  <2> SUFFICES ASSUME Len(all) > TreeMaxPaths PROVE FALSE
    BY <1>6
  <2>1. Min({TreeMaxPaths, Len(all)}) = TreeMaxPaths
    BY <1>6, MinOfTwo
  <2>2. lines = SubSeq(all, 1, TreeMaxPaths)
    BY <1>3, <2>1 DEF FirstOf, all
  <2>3. \A i \in 1..TreeMaxPaths : all[i] \in TextLines
    BY <1>5, <1>6
  <2>4. Len(SubSeq(all, 1, TreeMaxPaths)) = TreeMaxPaths
    <3>1. Len(SubSeq(all, 1, TreeMaxPaths)) = IF 1 <= TreeMaxPaths THEN TreeMaxPaths - 1 + 1 ELSE 0
      BY <1>6, <2>3, SubSeqProperties
    <3> QED BY <1>6, <3>1
  <2>5. Len(lines) < TreeMaxPaths
    OBVIOUS
  <2> HIDE DEF lines
  <2> QED BY <1>6, <2>2, <2>4, <2>5
<1>8. lines = all
  BY <1>3, <1>5, <1>6, <1>7, FirstOfAll DEF all
<1>9. OverviewOf(PathsOf(all), all)
  BY <1>5, AlwaysAnOverview
<1> QED BY <1>3, <1>8, <1>9 DEF all

(* Windows tile every file, however long its lines, and the overview of    *)
(* every work tree is complete or says what it leaves out                  *)
(* (render_numbered_window, _build_tree).                                  *)
THEOREM ViewsMarked == Spec => []ViewsAreWholeOrMarked
<1>1. ReadsInv => ViewsAreWholeOrMarked
  BY WindowResult, TreeResult DEF ViewsAreWholeOrMarked
<1> QED BY <1>1, ReadsHold, PTL
=============================================================================
