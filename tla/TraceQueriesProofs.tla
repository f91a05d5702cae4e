------------------------- MODULE TraceQueriesProofs -------------------------
(***************************************************************************)
(* What agents are told of a trace file is true of it, for any lines, any  *)
(* filters, words, limits and budgets, and however the file grew under the *)
(* run.                                                                    *)
(*                                                                         *)
(* The argument: a store works with the rows of the file as it was at one  *)
(* moment (TraceIndexProofs).  The rows of a file tell of its spans: a row *)
(* has the places of the spans of its trace, in order, and their number of *)
(* errors, projects and earliest start (by induction over the lines).  So  *)
(* a view reads the spans of the trace; the records of a search are one to *)
(* one, and in order, with the places where the word stands (by induction  *)
(* over the spans); and the rows that pass a filter are one to one, and in *)
(* order, with the traces whose spans do, which have the places of these   *)
(* spans between them, so that counts and totals add up.                   *)
(***************************************************************************)
EXTENDS TraceQueries, TraceIndexProofs

-----------------------------------------------------------------------------
(* Going through places in order.                                          *)

GoesThrough(s, P) ==
  /\ s \in Seq(P)
  /\ \A a, b \in 1..Len(s) : a < b <=> s[a] < s[b]
  /\ \A i \in P : \E n \in 1..Len(s) : s[n] = i

LEMMA PlacesAreFinite ==
  ASSUME NEW m \in Nat, NEW P \in SUBSET (1..m)
  PROVE  IsFiniteSet(P) /\ Cardinality(P) \in Nat
<1>1. IsFiniteSet(1..m)
  BY FS_Interval
<1> QED BY <1>1, FS_Subset, FS_CardinalityType

(* The further a place, the more there are up to it. *)
LEMMA CountsRise ==
  ASSUME NEW m \in Nat, NEW P \in SUBSET (1..m), NEW i \in P, NEW j \in P, i < j
  PROVE  Cardinality({k \in P : k <= i}) < Cardinality({k \in P : k <= j})
<1> DEFINE low == {k \in P : k <= i}
           high == {k \in P : k <= j}
<1>1. \A k \in P : k \in Nat
  OBVIOUS
<1>2. low \in SUBSET high /\ high \in SUBSET P /\ j \in high /\ j \notin low
  <2>1. i \in Nat /\ j \in Nat
    BY <1>1
  <2>2. \A k \in P : k <= i => k <= j
    BY <1>1, <2>1
  <2>3. ~(j <= i) /\ j <= j
    BY <2>1
  <2> QED BY <2>2, <2>3
<1> HIDE DEF low, high
<1>3. IsFiniteSet(high) /\ Cardinality(high) \in Nat /\ Cardinality(low) \in Nat
  BY <1>2, PlacesAreFinite, FS_Subset, FS_CardinalityType
<1>4. Cardinality(low) <= Cardinality(high) /\ Cardinality(low) # Cardinality(high)
  BY <1>2, <1>3, FS_Subset
<1>5. Cardinality(low) < Cardinality(high)
  BY <1>3, <1>4
<1> QED BY <1>5 DEF low, high

LEMMA InOrderGoes ==
  ASSUME NEW m \in Nat, NEW P \in SUBSET (1..m)
  PROVE  GoesThrough(InOrder(P), P) /\ Len(InOrder(P)) = Cardinality(P)
<1> DEFINE Count(i) == Cardinality({j \in P : j <= i})
           s == InOrder(P)
           c == Cardinality(P)
<1>1. /\ s \in Seq(P) /\ Len(s) = c /\ c \in Nat
      /\ \A n \in 1..c : Count(s[n]) = n
  BY InOrderGoesThroughPlaces, PlacesAreFinite
<1>2. \A i \in P : \A j \in P : i < j => Count(i) < Count(j)
  BY CountsRise
<1>3. \A i \in P : Count(i) \in 1..c
  <2> TAKE i \in P
  <2> DEFINE low == {j \in P : j <= i}
  <2>1. \A k \in P : k \in Nat
    OBVIOUS
  <2>2. low \in SUBSET P /\ {i} \in SUBSET low
    BY <2>1
  <2> HIDE DEF low
  <2>3. IsFiniteSet(low) /\ Cardinality(low) \in Nat /\ Cardinality(low) <= c
    BY <2>2, PlacesAreFinite, FS_Subset, FS_CardinalityType
  <2>4. 1 <= Cardinality(low)
    <3>1. Cardinality({i}) = 1
      BY FS_Singleton
    <3> QED BY <2>2, <2>3, <3>1, FS_Subset
  <2>5. Cardinality(low) \in 1..c
    BY <1>1, <2>3, <2>4
  <2> QED BY <2>5 DEF low
<1>n. \A k \in P : k \in Nat
  OBVIOUS
<1> HIDE DEF Count, s, c
<1>4. \A n \in 1..c : s[n] \in P /\ s[n] \in Nat
  <2>1. \A n \in 1..Len(s) : s[n] \in P
    BY ONLY <1>1
  <2> QED BY <1>1, <1>n, <2>1
<1>5. \A a, b \in 1..c : a < b <=> s[a] < s[b]
  <2> TAKE a, b \in 1..c
  <2>1. /\ s[a] \in P /\ s[b] \in P /\ s[a] \in Nat /\ s[b] \in Nat
        /\ Count(s[a]) = a /\ Count(s[b]) = b /\ a \in Nat /\ b \in Nat
    BY <1>1, <1>4
  <2>2. s[a] < s[b] => a < b
    BY <1>2, <2>1
  <2>3. s[b] < s[a] => b < a
    BY <1>2, <2>1
  <2>4. s[b] = s[a] => b = a
    BY <2>1
  <2> QED BY <2>1, <2>2, <2>3, <2>4
<1>6. \A i \in P : \E n \in 1..c : s[n] = i
  <2> TAKE i \in P
  <2> DEFINE n == Count(i)
  <2>1. n \in 1..c
    BY <1>3
  <2>2. s[n] \in P /\ Count(s[n]) = n /\ s[n] \in Nat /\ i \in Nat
    BY <1>1, <1>4, <2>1
  <2>3. ~(i < s[n]) /\ ~(s[n] < i)
    <3>1. i < s[n] => Count(i) < Count(s[n])
      BY <1>2, <2>2
    <3>2. s[n] < i => Count(s[n]) < Count(i)
      BY <1>2, <2>2
    <3>3. n \in Nat
      BY <1>1, <2>1
    <3>4. ~(n < n)
      BY <3>3
    <3> QED BY <2>2, <3>1, <3>2, <3>4
  <2>4. s[n] = i
    BY <2>2, <2>3
  <2> QED BY <2>1, <2>4
<1> QED BY <1>1, <1>5, <1>6 DEF GoesThrough, s, c

(* There is only one way to do so. *)
LEMMA OneOrder ==
  ASSUME NEW m \in Nat, NEW P \in SUBSET (1..m), NEW s, GoesThrough(s, P)
  PROVE  s = InOrder(P) /\ Len(s) = Cardinality(P)
<1> DEFINE Count(i) == Cardinality({j \in P : j <= i})
           o == InOrder(P)
<1>1. /\ s \in Seq(P) /\ Len(s) \in Nat
      /\ \A a, b \in 1..Len(s) : a < b <=> s[a] < s[b]
      /\ \A i \in P : \E n \in 1..Len(s) : s[n] = i
  BY DEF GoesThrough
<1>n. \A k \in P : k \in Nat
  OBVIOUS
<1>2. \A n \in 1..Len(s) : s[n] \in P /\ s[n] \in Nat
  <2>1. \A n \in 1..Len(s) : s[n] \in P
    BY ONLY <1>1
  <2> QED BY <1>n, <2>1
<1>3. \A a, b \in 1..Len(s) : s[a] = s[b] => a = b
  <2> TAKE a, b \in 1..Len(s)
  <2>1. a \in Nat /\ b \in Nat /\ s[a] \in Nat /\ s[b] \in Nat
    BY <1>2
  <2> QED BY <1>1, <2>1
<1>4. \A n \in 1..Len(s) : Count(s[n]) = n
  <2> TAKE n \in 1..Len(s)
  <2> DEFINE low == {j \in P : j <= s[n]}
             f == [a \in 1..n |-> s[a]]
  <2>1. n \in Nat /\ \A a \in 1..n : a \in 1..Len(s) /\ a \in Nat /\ a <= n
    BY <1>1
  <2>2. \A a \in 1..n : f[a] = s[a] /\ s[a] \in low
    <3> TAKE a \in 1..n
    <3>1. a \in 1..Len(s) /\ ~(n < a) /\ s[a] \in P /\ s[a] \in Nat /\ s[n] \in Nat
      BY <1>2, <2>1
    <3>2. ~(s[n] < s[a])
      BY <1>1, <3>1
    <3> QED BY <3>1, <3>2
  <2>3. \A j \in low : \E a \in 1..n : s[a] = j
    <3> TAKE j \in low
    <3>1. PICK a \in 1..Len(s) : s[a] = j
      BY <1>1
    <3>2. s[a] <= s[n] /\ s[a] \in Nat /\ s[n] \in Nat
      BY <1>2, <3>1
    <3>3. ~(n < a)
      BY <1>1, <3>1, <3>2
    <3>4. a \in 1..n
      BY <1>1, <3>1, <3>3
    <3> QED BY <3>1, <3>4
  <2> HIDE DEF low
  <2>4. f \in [1..n -> low] /\ (\A a, b \in 1..n : f[a] = f[b] => a = b)
        /\ \A j \in low : \E a \in 1..n : f[a] = j
    BY <1>3, <2>1, <2>2, <2>3
  <2> HIDE DEF f
  <2>5. f \in Bijection(1..n, low)
    BY <2>4 DEF Bijection, Injection, Surjection, IsInjective
  <2>6. Cardinality(low) = n
    BY <2>1, <2>5, FS_CountingElements DEF ExistsBijection
  <2> QED BY <2>6 DEF low
<1>5. Len(s) = Cardinality(P)
  <2>1. s \in Bijection(1..Len(s), P)
    BY <1>1, <1>3 DEF Bijection, Injection, Surjection, IsInjective
  <2> QED BY <1>1, <2>1, FS_CountingElements DEF ExistsBijection
<1>6. /\ o \in Seq(P) /\ Len(o) = Cardinality(P) /\ Len(o) \in Nat
      /\ \A n \in 1..Cardinality(P) : Count(o[n]) = n
  <2>1. /\ o \in Seq(P) /\ Len(o) = Cardinality(P)
        /\ \A n \in 1..Cardinality(P) : Count(o[n]) = n
    BY InOrderGoesThroughPlaces
  <2> HIDE DEF o, Count
  <2> QED BY <2>1
<1>7. \A i \in P : \A j \in P : i < j => Count(i) < Count(j)
  BY CountsRise
<1> HIDE DEF Count, o
<1>8. \A n \in 1..Len(s) : s[n] = o[n]
  <2> TAKE n \in 1..Len(s)
  <2>1. s[n] \in P /\ s[n] \in Nat /\ o[n] \in P /\ o[n] \in Nat
    <3>1. o[n] \in P
      BY <1>5, <1>6
    <3> QED BY <1>2, <1>n, <3>1
  <2>2. Count(s[n]) = n /\ Count(o[n]) = n /\ n \in Nat /\ ~(n < n)
    BY <1>1, <1>4, <1>5, <1>6
  <2>3. ~(s[n] < o[n]) /\ ~(o[n] < s[n])
    BY <1>7, <2>1, <2>2
  <2> QED BY <2>1, <2>3
<1>9. s = o
  BY <1>1, <1>5, <1>6, <1>8
<1> QED BY <1>5, <1>9 DEF o

(* One more place behind the others. *)
LEMMA OnePlaceBehind ==
  ASSUME NEW m \in Nat, NEW P \in SUBSET (1..m), NEW i \in 1..m, \A j \in P : j < i
  PROVE  InOrder(P \cup {i}) = Append(InOrder(P), i)
<1> DEFINE o == InOrder(P)
           s == Append(o, i)
           Q == P \cup {i}
<1>1. GoesThrough(o, P)
  BY InOrderGoes
<1> HIDE DEF o
<1>2. /\ o \in Seq(P) /\ Len(o) \in Nat
      /\ (\A a, b \in 1..Len(o) : a < b <=> o[a] < o[b])
      /\ \A j \in P : \E n \in 1..Len(o) : o[n] = j
  BY <1>1 DEF GoesThrough
<1>3. /\ s \in Seq(Q) /\ Len(s) = Len(o) + 1 /\ s[Len(o) + 1] = i
      /\ \A n \in 1..Len(o) : s[n] = o[n] /\ o[n] \in P /\ o[n] \in Nat /\ o[n] < i
  <2>1. \A k \in P : k \in Nat /\ k < i
    OBVIOUS
  <2>2. \A n \in 1..Len(o) : o[n] \in P
    BY <1>2
  <2>3. /\ s \in Seq(Q) /\ Len(s) = Len(o) + 1 /\ s[Len(o) + 1] = i
        /\ \A n \in 1..Len(o) : s[n] = o[n]
    BY <1>2
  <2> QED BY <2>1, <2>2, <2>3
<1>4. \A n \in 1..(Len(o) + 1) : n \in 1..Len(o) \/ n = Len(o) + 1
  BY <1>2
<1> HIDE DEF s
<1>5. \A a, b \in 1..Len(s) : a < b <=> s[a] < s[b]
  <2> TAKE a, b \in 1..Len(s)
  <2>1. a \in 1..(Len(o) + 1) /\ b \in 1..(Len(o) + 1) /\ i \in Nat
    BY <1>3
  <2>2. CASE a \in 1..Len(o) /\ b \in 1..Len(o)
    BY <1>2, <1>3, <2>2
  <2>3. CASE a \in 1..Len(o) /\ b = Len(o) + 1
    <3>1. a < b /\ s[a] < s[b]
      BY <1>2, <1>3, <2>3
    <3> QED BY <3>1
  <2>4. CASE a = Len(o) + 1 /\ b \in 1..Len(o)
    <3>1. ~(a < b) /\ s[b] < s[a] /\ s[a] \in Nat /\ s[b] \in Nat
      BY <1>2, <1>3, <2>1, <2>4
    <3> QED BY <3>1
  <2>5. CASE a = Len(o) + 1 /\ b = Len(o) + 1
    <3>1. ~(a < b) /\ ~(s[a] < s[b])
      BY <1>2, <1>3, <2>1, <2>5
    <3> QED BY <3>1
  <2> QED BY <1>4, <2>1, <2>2, <2>3, <2>4, <2>5
<1>6. \A j \in Q : \E n \in 1..Len(s) : s[n] = j
  <2> TAKE j \in Q
  <2>1. CASE j \in P
    <3>1. PICK n \in 1..Len(o) : o[n] = j
      BY <1>2, <2>1
    <3>2. n \in 1..Len(s) /\ s[n] = j
      BY <1>2, <1>3, <3>1
    <3> QED BY <3>2
  <2>2. CASE j = i
    <3>1. Len(o) + 1 \in 1..Len(s)
      BY <1>2, <1>3
    <3> QED BY <1>3, <2>2, <3>1
  <2> QED BY <2>1, <2>2
<1>7. GoesThrough(s, Q)
  BY <1>3, <1>5, <1>6 DEF GoesThrough
<1>8. Q \in SUBSET (1..m)
  OBVIOUS
<1> HIDE DEF Q
<1>9. s = InOrder(Q)
  BY <1>7, <1>8, OneOrder
<1> QED BY <1>9 DEF s, o, Q

Bounded(P) == \E m \in Nat : P \in SUBSET (1..m)

LEMMA BoundedGoes ==
  ASSUME NEW P, Bounded(P)
  PROVE  /\ IsFiniteSet(P) /\ Cardinality(P) \in Nat
         /\ GoesThrough(InOrder(P), P) /\ Len(InOrder(P)) = Cardinality(P)
<1>1. PICK m \in Nat : P \in SUBSET (1..m)
  BY DEF Bounded
<1> QED BY <1>1, PlacesAreFinite, InOrderGoes

(* Of the places gone through, those in Q. *)
LEMMA PickedInOrder ==
  ASSUME NEW P, Bounded(P), NEW s, GoesThrough(s, P), NEW Q \in SUBSET P,
         NEW K \in SUBSET (1..Len(s)), \A k \in 1..Len(s) : k \in K <=> s[k] \in Q
  PROVE  Those(s, K) = InOrder(Q) /\ Cardinality(K) = Cardinality(Q)
<1> DEFINE o == InOrder(K)
           t == Those(s, K)
<1>m. PICK m \in Nat : P \in SUBSET (1..m)
  BY DEF Bounded
<1>1. /\ s \in Seq(P) /\ Len(s) \in Nat
      /\ (\A a, b \in 1..Len(s) : a < b <=> s[a] < s[b])
      /\ \A i \in P : \E n \in 1..Len(s) : s[n] = i
  BY DEF GoesThrough
<1>2. K \in SUBSET (1..Len(s))
  OBVIOUS
<1>3. GoesThrough(o, K) /\ Len(o) = Cardinality(K)
  BY <1>1, <1>2, InOrderGoes
<1>4. t = [n \in DOMAIN o |-> s[o[n]]]
  BY DEF Those
<1> HIDE DEF o, t
<1>5. /\ o \in Seq(K) /\ Len(o) \in Nat /\ DOMAIN o = 1..Len(o)
      /\ (\A a, b \in 1..Len(o) : a < b <=> o[a] < o[b])
      /\ \A i \in K : \E n \in 1..Len(o) : o[n] = i
  BY <1>3 DEF GoesThrough
<1>6. \A n \in 1..Len(o) : o[n] \in 1..Len(s) /\ s[o[n]] \in Q
  <2>1. \A n \in 1..Len(o) : o[n] \in K
    BY ONLY <1>5
  <2> QED BY <2>1
<1>7. t \in Seq(Q) /\ Len(t) = Len(o) /\ \A n \in 1..Len(o) : t[n] = s[o[n]]
  BY <1>4, <1>5, <1>6
<1>8. \A a, b \in 1..Len(t) : a < b <=> t[a] < t[b]
  <2> TAKE a, b \in 1..Len(t)
  <2>1. a \in 1..Len(o) /\ b \in 1..Len(o)
    BY <1>7
  <2>2. a < b <=> o[a] < o[b]
    BY <1>5, <2>1
  <2>3. o[a] < o[b] <=> s[o[a]] < s[o[b]]
    BY <1>1, <1>6, <2>1
  <2> QED BY <1>7, <2>1, <2>2, <2>3
<1>9. \A i \in Q : \E n \in 1..Len(t) : t[n] = i
  <2> TAKE i \in Q
  <2>1. PICK k \in 1..Len(s) : s[k] = i
    BY <1>1
  <2>2. k \in K
    BY <2>1
  <2>3. PICK n \in 1..Len(o) : o[n] = k
    BY <1>5, <2>2
  <2> QED BY <1>7, <2>1, <2>3
<1>10. GoesThrough(t, Q)
  BY <1>7, <1>8, <1>9 DEF GoesThrough
<1>11. Q \in SUBSET (1..m)
  BY <1>m
<1>12. t = InOrder(Q) /\ Len(t) = Cardinality(Q)
  BY <1>10, <1>11, OneOrder
<1> QED BY <1>3, <1>7, <1>12 DEF t, o

-----------------------------------------------------------------------------
(* The rows.                                                               *)

(* A row tells of the spans at some places. *)
TellsOf(row, file, places) ==
  /\ row.offsets = InOrder(places)
  /\ row.errors = Cardinality({i \in places : file[i].error})
  /\ row.projects = {file[i].project : i \in places} \ {NoId}
  /\ row.start = NoId <=> places = {}
  /\ places # {} => /\ \E i \in places : row.start = file[i].start
                    /\ \A i \in places : row.start <= file[i].start
  /\ row.project = NoId => \A i \in places : file[i].project = NoId
  /\ row.project # NoId => \E i \in places : /\ file[i].project = row.project
                                             /\ \A j \in places : j < i => file[j].project = NoId

(* At first of none. *)
LEMMA FreshTellsOfNone ==
  ASSUME NEW t, NEW file
  PROVE  TellsOf(Fresh(t), file, {})
<1>1. InOrder({}) = <<>>
  BY InOrderGoesThroughPlaces
<1>2. {i \in {} : file[i].error} = {} /\ {file[i].project : i \in {}} = {}
  OBVIOUS
<1> QED BY <1>1, <1>2, FS_EmptySet DEF TellsOf, Fresh

LEMMA LastPlace ==
  ASSUME NEW m \in Nat, NEW P \in SUBSET (1..m), NEW k \in 1..m, \A j \in P : j < k
  PROVE  k \notin P /\ k \in Nat /\ \A j \in P : j \in Nat /\ j < k
<1>1. k \in Nat /\ ~(k < k)
  OBVIOUS
<1>2. \A j \in P : j \in Nat
  OBVIOUS
<1> QED BY <1>1, <1>2

(* Then of one more. *)
LEMMA TellsOfOneMore ==
  ASSUME NEW file, NEW m \in Nat, NEW P \in SUBSET (1..m), NEW k \in 1..m, \A j \in P : j < k,
         NEW row, TellsOf(row, file, P), NoId \notin Nat,
         \A j \in P \cup {k} : file[j].start \in Nat /\ file[j].error \in BOOLEAN,
         NEW l, l.at = k, l.start = file[k].start, l.error = file[k].error,
         l.project = file[k].project
  PROVE  TellsOf(Absorb(row, l), file, P \cup {k})
<1> DEFINE Q == P \cup {k}
           new == Absorb(row, l)
<1>1. /\ new.offsets = Append(row.offsets, k)
      /\ new.start = Earlier(row.start, file[k].start)
      /\ new.project = IF row.project = NoId THEN file[k].project ELSE row.project
      /\ new.projects = row.projects \cup ({file[k].project} \ {NoId})
      /\ new.errors = IF file[k].error THEN row.errors + 1 ELSE row.errors
  BY DEF Absorb
<1>2. /\ row.offsets = InOrder(P)
      /\ row.errors = Cardinality({i \in P : file[i].error})
      /\ row.projects = {file[i].project : i \in P} \ {NoId}
      /\ row.start = NoId <=> P = {}
      /\ P # {} => /\ \E i \in P : row.start = file[i].start
                   /\ \A i \in P : row.start <= file[i].start
      /\ row.project = NoId => \A i \in P : file[i].project = NoId
      /\ row.project # NoId => \E i \in P : /\ file[i].project = row.project
                                             /\ \A j \in P : j < i => file[j].project = NoId
  BY DEF TellsOf
<1> HIDE DEF new
<1>3. new.offsets = InOrder(Q)
  <2>1. InOrder(P \cup {k}) = Append(InOrder(P), k)
    BY OnePlaceBehind
  <2> QED BY <1>1, <1>2, <2>1
<1>4. k \notin P /\ k \in Nat /\ \A j \in P : j \in Nat /\ j < k
  <2>1. k \in Nat
    OBVIOUS
  <2>2. \A j \in P : j \in Nat
    OBVIOUS
  <2>3. \A j \in P : j < k
    OBVIOUS
  <2>4. ~(k < k)
    BY <2>1
  <2> QED BY <2>1, <2>2, <2>3, <2>4
<1>5. new.errors = Cardinality({i \in Q : file[i].error})
  <2> DEFINE E == {i \in P : file[i].error}
             F == {i \in Q : file[i].error}
  <2>1. E \in SUBSET P /\ k \notin E
    BY <1>4
  <2>2. IsFiniteSet(E) /\ Cardinality(E) \in Nat
    BY <2>1, PlacesAreFinite, FS_Subset, FS_CardinalityType
  <2>3. CASE file[k].error
    <3>1. F = E \cup {k}
      BY <2>3
    <3> HIDE DEF E, F
    <3>2. Cardinality(F) = Cardinality(E) + 1
      BY <2>1, <2>2, <3>1, FS_AddElement
    <3> QED BY <1>1, <1>2, <2>3, <3>2 DEF E, F
  <2>4. CASE ~file[k].error
    <3>1. F = E
      BY <2>4
    <3> QED BY <1>1, <1>2, <2>4, <3>1
  <2> QED BY <2>3, <2>4
<1>6. new.projects = {file[i].project : i \in Q} \ {NoId}
  BY <1>1, <1>2
<1>7. /\ new.start # NoId /\ Q # {}
      /\ \E i \in Q : new.start = file[i].start
      /\ \A i \in Q : new.start <= file[i].start
  <2>1. file[k].start \in Nat /\ \A i \in Q : file[i].start \in Nat
    OBVIOUS
  <2>2. \A i \in Q : i \in P \/ i = k
    OBVIOUS
  <2>3. CASE P = {}
    <3>1. new.start = file[k].start
      BY <1>1, <1>2, <2>3 DEF Earlier
    <3>2. \A i \in Q : i = k
      BY <2>3
    <3> QED BY <2>1, <3>1, <3>2
  <2>4. CASE P # {}
    <3>1. PICK p \in P : row.start = file[p].start
      BY <1>2, <2>4
    <3>2. row.start \in Nat /\ row.start # NoId /\ \A i \in P : row.start <= file[i].start
      BY <1>2, <2>1, <2>4, <3>1
    <3>3. CASE file[k].start < row.start
      <4>1. new.start = file[k].start
        BY <1>1, <3>3 DEF Earlier
      <4>2. \A i \in P : file[k].start <= file[i].start
        BY <2>1, <3>2, <3>3
      <4>3. k \in Q /\ file[k].start <= file[k].start /\ new.start # NoId
        BY <2>1, <4>1
      <4> QED BY <2>2, <4>1, <4>2, <4>3
    <3>4. CASE ~(file[k].start < row.start)
      <4>1. new.start = row.start
        BY <1>1, <3>2, <3>4 DEF Earlier
      <4>2. row.start <= file[k].start
        BY <2>1, <3>2, <3>4
      <4>3. p \in Q
        BY <3>1
      <4> QED BY <2>1, <2>2, <3>1, <3>2, <4>1, <4>2, <4>3
    <3> QED BY <3>3, <3>4
  <2> QED BY <2>3, <2>4
<1>8. new.project = NoId => \A i \in Q : file[i].project = NoId
  BY <1>1, <1>2
<1>9. ASSUME new.project # NoId
      PROVE  \E i \in Q : /\ file[i].project = new.project
                          /\ \A j \in Q : j < i => file[j].project = NoId
  <2>1. CASE row.project = NoId
    <3>1. file[k].project = new.project /\ \A j \in P : file[j].project = NoId
      BY <1>1, <1>2, <2>1
    <3>2. \A j \in Q : j < k => j \in P
      BY <1>4
    <3> QED BY <3>1, <3>2
  <2>2. CASE row.project # NoId
    <3>1. PICK i \in P : /\ file[i].project = row.project
                         /\ \A j \in P : j < i => file[j].project = NoId
      BY <1>2, <2>2
    <3>2. \A j \in Q : j < i => j \in P
      BY <1>4
    <3> QED BY <1>1, <2>2, <3>1, <3>2
  <2> QED BY <2>1, <2>2
<1>10. TellsOf(new, file, Q)
  BY <1>3, <1>5, <1>6, <1>7, <1>8, <1>9 DEF TellsOf
<1> QED BY <1>10 DEF new, Q

LEMMA FirstPlace ==
  ASSUME NEW m \in Nat, NEW P \in SUBSET (1..m), P # {}
  PROVE  /\ 1 \in 1..Len(InOrder(P)) /\ InOrder(P)[1] \in P
         /\ \A i \in P : InOrder(P)[1] <= i
<1> DEFINE o == InOrder(P)
<1>1. GoesThrough(o, P)
  BY InOrderGoes
<1> HIDE DEF o
<1>2. /\ o \in Seq(P) /\ Len(o) \in Nat
      /\ (\A a, b \in 1..Len(o) : a < b <=> o[a] < o[b])
      /\ \A i \in P : \E n \in 1..Len(o) : o[n] = i
  BY <1>1 DEF GoesThrough
<1>3. \A k \in P : k \in Nat
  OBVIOUS
<1>4. 1 \in 1..Len(o)
  <2>1. PICK i \in P : TRUE
    OBVIOUS
  <2>2. PICK n \in 1..Len(o) : o[n] = i
    BY <1>2
  <2>3. n \in Nat /\ 1 <= n /\ n <= Len(o)
    BY <1>2
  <2> QED BY <1>2, <2>3
<1>5. \A n \in 1..Len(o) : o[n] \in P
  BY ONLY <1>2
<1>6. \A i \in P : o[1] <= i
  <2> TAKE i \in P
  <2>1. PICK n \in 1..Len(o) : o[n] = i
    BY <1>2
  <2>2. ~(n < 1) /\ o[1] \in Nat /\ i \in Nat
    <3>1. n \in Nat /\ 1 <= n
      BY <1>2
    <3>2. o[1] \in P
      BY <1>4, <1>5
    <3>3. o[1] \in Nat /\ i \in Nat
      BY <1>3, <3>2, Zenon
    <3> QED BY <3>1, <3>3
  <2>3. ~(o[n] < o[1])
    BY <1>2, <1>4, <2>1, <2>2
  <2> QED BY <2>1, <2>2, <2>3
<1> QED BY <1>4, <1>5, <1>6 DEF o

Among(file, places, t) == {i \in places : file[i].trace = t}

(* A dictionary tells of all the spans at some places, a row for each      *)
(* trace, and the rows are in the order in which the traces appear.        *)
AllTell(d, file, places) ==
  /\ \A r \in 1..Len(d) : /\ Among(file, places, d[r].trace) # {}
                          /\ TellsOf(d[r], file, Among(file, places, d[r].trace))
  /\ \A i \in places : \E r \in 1..Len(d) : d[r].trace = file[i].trace
  /\ \A r, q \in 1..Len(d) : r < q => d[r].offsets[1] < d[q].offsets[1]

LEMMA AllTellOfOneMore ==
  ASSUME NEW file, NEW m \in Nat, NEW P \in SUBSET (1..m), NEW k \in 1..m, \A j \in P : j < k,
         NEW S, NEW d \in Dicts(S), AllTell(d, file, P), NoId \notin Nat,
         \A j \in P \cup {k} : file[j].start \in Nat /\ file[j].error \in BOOLEAN,
         NEW l, l.at = k, l.start = file[k].start, l.error = file[k].error,
         l.project = file[k].project, l.trace = file[k].trace
  PROVE  AllTell(AbsorbLine(d, l), file, P \cup {k})
<1> DEFINE e == AbsorbLine(d, l)
           Q == P \cup {k}
           Old(t) == Among(file, P, t)
           New(t) == Among(file, Q, t)
           one == Absorb(Fresh(l.trace), l)
<1>1. Len(d) \in Nat /\ DOMAIN d = 1..Len(d)
  BY DEF Dicts
<1>2. /\ \A r \in 1..Len(d) : Old(d[r].trace) # {} /\ TellsOf(d[r], file, Old(d[r].trace))
      /\ \A i \in P : \E r \in 1..Len(d) : d[r].trace = file[i].trace
      /\ \A r, q \in 1..Len(d) : r < q => d[r].offsets[1] < d[q].offsets[1]
  BY DEF AllTell
<1>3. /\ \A t : Old(t) \in SUBSET (1..m) /\ Old(t) \subseteq P
      /\ \A t : t # l.trace => New(t) = Old(t)
      /\ New(l.trace) = Old(l.trace) \cup {k}
  BY DEF Among
<1> HIDE DEF Old, New
<1>4. ASSUME NEW row, TellsOf(row, file, Old(l.trace))
      PROVE  TellsOf(Absorb(row, l), file, New(l.trace))
  <2> DEFINE before == Old(l.trace)
  <2>1. /\ before \in SUBSET (1..m) /\ \A j \in before : j < k
        /\ \A j \in before \cup {k} : file[j].start \in Nat /\ file[j].error \in BOOLEAN
        /\ TellsOf(row, file, before)
    BY <1>3, <1>4
  <2> HIDE DEF before
  <2>2. TellsOf(Absorb(row, l), file, before \cup {k})
    BY <2>1, TellsOfOneMore
  <2> QED BY <1>3, <2>2 DEF before
<1>5. \A r \in 1..Len(d) : /\ 1 \in 1..Len(d[r].offsets)
                           /\ d[r].offsets \in Seq(Old(d[r].trace))
                           /\ d[r].offsets[1] \in P
  <2> TAKE r \in 1..Len(d)
  <2> DEFINE before == Old(d[r].trace)
  <2>1. before # {} /\ before \in SUBSET (1..m) /\ before \subseteq P /\ d[r].offsets = InOrder(before)
    BY <1>2, <1>3 DEF TellsOf
  <2> HIDE DEF before
  <2>2. 1 \in 1..Len(InOrder(before)) /\ InOrder(before)[1] \in before
    BY <2>1, FirstPlace
  <2>3. InOrder(before) \in Seq(before)
    BY <2>1, InOrderGoes DEF GoesThrough
  <2>4. d[r].offsets \in Seq(Old(d[r].trace))
    BY <2>1, <2>3 DEF before
  <2> QED BY <2>1, <2>2, <2>4
<1>6. CASE Knows(d, l.trace)
  <2>1. e = [n \in 1..Len(d) |-> IF d[n].trace = l.trace THEN Absorb(d[n], l) ELSE d[n]]
    BY <1>1, <1>6 DEF AbsorbLine
  <2> HIDE DEF e
  <2>2. Len(e) = Len(d)
    BY <1>1, <2>1
  <2>3. \A r \in 1..Len(d) :
          /\ e[r].trace = d[r].trace
          /\ New(d[r].trace) # {} /\ TellsOf(e[r], file, New(d[r].trace))
          /\ e[r].offsets[1] = d[r].offsets[1]
    <3> TAKE r \in 1..Len(d)
    <3>1. CASE d[r].trace = l.trace
      <4>1. e[r] = Absorb(d[r], l)
        BY <2>1, <3>1
      <4>2. e[r].trace = d[r].trace /\ e[r].offsets = Append(d[r].offsets, k)
        BY <4>1 DEF Absorb
      <4>3. Append(d[r].offsets, k)[1] = d[r].offsets[1]
        BY <1>5
      <4>4. TellsOf(e[r], file, New(l.trace))
        BY <1>2, <1>4, <3>1, <4>1
      <4> QED BY <1>3, <3>1, <4>2, <4>3, <4>4
    <3>2. CASE d[r].trace # l.trace
      <4>1. e[r] = d[r] /\ New(d[r].trace) = Old(d[r].trace)
        BY <1>3, <2>1, <3>2
      <4> QED BY <1>2, <4>1
    <3> QED BY <3>1, <3>2
  <2>4. \A i \in Q : \E r \in 1..Len(e) : e[r].trace = file[i].trace
    <3> TAKE i \in Q
    <3>1. CASE i \in P
      BY <1>2, <2>2, <2>3, <3>1
    <3>2. CASE i = k
      <4>1. PICK r \in 1..Len(d) : d[r].trace = l.trace
        BY <1>1, <1>6 DEF Knows
      <4> QED BY <2>2, <2>3, <3>2, <4>1
    <3> QED BY <3>1, <3>2
  <2>5. \A r, q \in 1..Len(e) : r < q => e[r].offsets[1] < e[q].offsets[1]
    BY <1>2, <2>2, <2>3
  <2>6. \A r \in 1..Len(e) : New(e[r].trace) # {} /\ TellsOf(e[r], file, New(e[r].trace))
    BY <2>2, <2>3
  <2>7. AllTell(e, file, Q)
    BY <2>4, <2>5, <2>6 DEF AllTell, New
  <2> QED BY <2>7 DEF e, Q
<1>7. CASE ~Knows(d, l.trace)
  <2>1. e = Append(d, one)
    BY <1>7 DEF AbsorbLine
  <2>2. one.trace = l.trace /\ one.offsets = Append(<<>>, k)
    BY DEF Absorb, Fresh
  <2>3. \A r \in 1..Len(d) : d[r].trace # l.trace
    BY <1>1, <1>7 DEF Knows
  <2>4. Old(l.trace) = {}
    <3>1. \A i \in P : file[i].trace # l.trace
      BY <1>2, <2>3
    <3> QED BY <3>1 DEF Old, Among
  <2>5. TellsOf(one, file, New(l.trace))
    BY <1>4, <2>4, FreshTellsOfNone
  <2> HIDE DEF e, one
  <2>6. /\ Len(e) = Len(d) + 1 /\ e[Len(d) + 1] = one
        /\ \A r \in 1..Len(d) : e[r] = d[r]
    <3>1. d \in Seq(Accs(S))
      BY DEF Dicts
    <3> HIDE DEF Dicts
    <3> QED BY <2>1, <3>1
  <2>7. \A r \in 1..Len(e) : r \in 1..Len(d) \/ r = Len(d) + 1
    BY <1>1, <2>6
  <2>8. \A r \in 1..Len(e) : New(e[r].trace) # {} /\ TellsOf(e[r], file, New(e[r].trace))
    <3> TAKE r \in 1..Len(e)
    <3>1. CASE r \in 1..Len(d)
      <4>1. e[r] = d[r] /\ New(d[r].trace) = Old(d[r].trace)
        BY <1>3, <2>3, <2>6, <3>1
      <4> QED BY <1>2, <3>1, <4>1
    <3>2. CASE r = Len(d) + 1
      BY <1>3, <2>2, <2>5, <2>6, <3>2
    <3> QED BY <2>7, <3>1, <3>2
  <2>9. \A i \in Q : \E r \in 1..Len(e) : e[r].trace = file[i].trace
    <3> TAKE i \in Q
    <3>1. CASE i \in P
      <4>1. PICK r \in 1..Len(d) : d[r].trace = file[i].trace
        BY <1>2, <3>1
      <4>2. r \in 1..Len(e) /\ e[r] = d[r]
        BY <1>1, <2>6
      <4> QED BY <4>1, <4>2
    <3>2. CASE i = k
      <4>1. Len(d) + 1 \in 1..Len(e)
        BY <1>1, <2>6
      <4> QED BY <2>2, <2>6, <3>2, <4>1
    <3> QED BY <3>1, <3>2
  <2>10. \A r, q \in 1..Len(e) : r < q => e[r].offsets[1] < e[q].offsets[1]
    <3> SUFFICES ASSUME NEW r \in 1..Len(e), NEW q \in 1..Len(e), r < q
                 PROVE  e[r].offsets[1] < e[q].offsets[1]
      OBVIOUS
    <3>1. r \in 1..Len(d) /\ e[r] = d[r]
      BY <1>1, <2>6, <2>7
    <3>2. CASE q \in 1..Len(d)
      BY <1>2, <2>6, <3>1, <3>2
    <3>3. CASE q = Len(d) + 1
      <4>1. e[q].offsets[1] = k
        BY <2>2, <2>6, <3>3
      <4>2. d[r].offsets[1] < k
        BY <1>5, <3>1
      <4> QED BY <3>1, <4>1, <4>2
    <3> QED BY <2>7, <3>2, <3>3
  <2>11. AllTell(e, file, Q)
    BY <2>8, <2>9, <2>10 DEF AllTell, New
  <2> QED BY <2>11 DEF e, Q
<1> QED BY <1>6, <1>7

(* What the rows of a file tell of: the spans of its traces. *)
RowsTell(all, file) ==
  /\ Len(all) \in Nat /\ DOMAIN all = 1..Len(all)
  /\ \A r \in 1..Len(all) :
       /\ PlacesOf(file, {all[r].trace}) # {}
       /\ TellsOf(all[r], file, PlacesOf(file, {all[r].trace}))
  /\ \A t \in TracesIn(file) : \E r \in 1..Len(all) : all[r].trace = t
  /\ \A r, q \in 1..Len(all) : r < q => all[r].offsets[1] < all[q].offsets[1]

LEMMA RowsTellOfTheFile ==
  ASSUME NEW file \in Seq(Lines)
  PROVE  RowsTell(RowsInOnePiece(file), file)
<1> DEFINE N == {i \in 1..Len(file) : file[i] # Blank}
           at == LineOffsets(file)
           chunk == Located(file, at)
           D(k) == AbsorbedUpTo(chunk)[k]
           Early(k) == {at[j] : j \in 1..k}
           Said(i) == {file[i].trace, file[i].span, file[i].parent, file[i].project}
           S == {NoId} \cup UNION {Said(i) : i \in 1..Len(file)}
           Told == {k \in Nat : k <= Len(at) => AllTell(D(k), file, Early(k))}
<1>1. Len(file) \in Nat /\ DOMAIN file = 1..Len(file) /\ N \in SUBSET (1..Len(file))
  OBVIOUS
<1>2. GoesThrough(at, N)
  BY <1>1, InOrderGoes DEF LineOffsets
<1>3. /\ at \in Seq(N) /\ Len(at) \in Nat
      /\ (\A a, b \in 1..Len(at) : a < b <=> at[a] < at[b])
      /\ \A i \in N : \E n \in 1..Len(at) : at[n] = i
  BY <1>2 DEF GoesThrough
<1> HIDE DEF at
<1>4. \A k \in 1..Len(at) : at[k] \in N
  BY ONLY <1>3
<1>5. \A i \in N : file[i] \in Lines \ {Blank} /\ file[i].start \in Nat /\ file[i].error \in BOOLEAN
  <2> TAKE i \in N
  <2>1. file[i] \in Lines \ {Blank}
    OBVIOUS
  <2> QED BY <2>1, TraceIndexAssumption
<1>6. NoId \notin Nat
  BY TraceIndexAssumption
<1>7. /\ Len(chunk) = Len(at)
      /\ \A k \in 1..Len(at) :
           LET l == file[at[k]]
           IN  chunk[k] = [at |-> at[k], trace |-> l.trace, span |-> l.span, parent |-> l.parent,
                           project |-> l.project, start |-> l.start, error |-> l.error]
  BY <1>3 DEF Located
<1>8. chunk \in Seq(Entries(S)) /\ NoId \in S
  <2>1. \A i \in N : Said(i) \subseteq S
    OBVIOUS
  <2>2. NoId \in S
    OBVIOUS
  <2> HIDE DEF S
  <2>3. \A k \in 1..Len(at) : chunk[k] \in Entries(S)
    <3> TAKE k \in 1..Len(at)
    <3> DEFINE l == file[at[k]]
    <3>1. at[k] \in N
      BY <1>4
    <3>2. at[k] \in Nat /\ l.start \in Nat /\ l.error \in BOOLEAN
          /\ l.trace \in S /\ l.span \in S /\ l.parent \in S /\ l.project \in S
      BY <1>5, <2>1, <3>1
    <3>3. chunk[k] = [at |-> at[k], trace |-> l.trace, span |-> l.span, parent |-> l.parent,
                      project |-> l.project, start |-> l.start, error |-> l.error]
      BY <1>7
    <3> HIDE DEF l, chunk
    <3> QED BY <3>2, <3>3 DEF Entries
  <2>4. chunk = [k \in 1..Len(at) |-> chunk[k]]
    BY DEF Located
  <2> HIDE DEF chunk
  <2> QED BY <1>3, <2>2, <2>3, <2>4
<1> HIDE DEF chunk, S
<1>9. /\ D(0) = <<>>
      /\ \A k \in 1..Len(at) : D(k) = AbsorbLine(D(k - 1), chunk[k])
  BY <1>3, <1>7, AbsorbedGoesOn
<1>10. \A k \in 0..Len(at) : D(k) \in Dicts(S)
  BY <1>6, <1>7, <1>8, AbsorbedIsDict
<1> HIDE DEF D
<1>11. 0 \in Told
  <2>1. Early(0) = {}
    OBVIOUS
  <2>2. AllTell(<<>>, file, {})
    BY DEF AllTell
  <2> QED BY <1>9, <2>1, <2>2
<1>12. ASSUME NEW k \in Nat, k \in Told PROVE k + 1 \in Told
  <2> DEFINE n == k + 1
             P == Early(k)
             l == chunk[n]
             d == D(k)
  <2> SUFFICES ASSUME n <= Len(at) PROVE AllTell(D(n), file, Early(n))
    OBVIOUS
  <2>1. n \in 1..Len(at) /\ n - 1 = k /\ k \in 0..Len(at)
    BY <1>3
  <2> HIDE DEF n
  <2>2. AllTell(d, file, P)
    BY <1>3, <1>12, <2>1
  <2>3. \A j \in 1..k : j \in 1..Len(at) /\ j < n
    BY <1>3, <2>1
  <2>4. P \in SUBSET N /\ at[n] \in N /\ \A j \in P : j < at[n]
    BY <1>3, <1>4, <2>1, <2>3, SMTT(30)
  <2>5. Early(n) = P \cup {at[n]}
    <3>1. \A j \in 1..n : j \in 1..k \/ j = n
      BY <2>1
    <3>2. \A j \in 1..k : j \in 1..n
      BY <2>1
    <3>3. n \in 1..n
      BY <2>1
    <3> QED BY <3>1, <3>2, <3>3
  <2>6. l.at = at[n] /\ l.start = file[at[n]].start /\ l.error = file[at[n]].error
        /\ l.project = file[at[n]].project /\ l.trace = file[at[n]].trace
    <3> DEFINE line == file[at[n]]
    <3>1. l = [at |-> at[n], trace |-> line.trace, span |-> line.span, parent |-> line.parent,
               project |-> line.project, start |-> line.start, error |-> line.error]
      BY <1>7, <2>1
    <3> HIDE DEF l
    <3> QED BY <3>1
  <2>7. D(n) = AbsorbLine(d, l) /\ d \in Dicts(S)
    BY <1>9, <1>10, <2>1
  <2> HIDE DEF P, l, d
  <2>8. \A j \in P \cup {at[n]} : file[j].start \in Nat /\ file[j].error \in BOOLEAN
    BY <1>5, <2>4
  <2>9. P \in SUBSET (1..Len(file)) /\ at[n] \in 1..Len(file)
    BY <1>1, <2>4
  <2>10. AllTell(AbsorbLine(d, l), file, P \cup {at[n]})
    BY <1>1, <1>6, <2>2, <2>4, <2>6, <2>7, <2>8, <2>9, AllTellOfOneMore
  <2> QED BY <2>5, <2>7, <2>10
<1>13. AllTell(D(Len(at)), file, Early(Len(at)))
  <2> HIDE DEF Told
  <2>1. \A k \in Nat : k \in Told
    BY <1>11, <1>12, Counting
  <2>2. Len(at) \in Told /\ Len(at) <= Len(at)
    BY <1>3, <2>1
  <2> QED BY <2>2 DEF Told
<1>14. Early(Len(at)) = N
  BY <1>3, <1>4, ZenonT(40)
<1> DEFINE d == D(Len(at))
           all == RowsInOnePiece(file)
<1>15. all = Finalized(d)
  BY <1>7 DEF RowsInOnePiece, ProcessChunk, Absorbed, D, chunk, at
<1>16. d \in Dicts(S)
  BY <1>3, <1>10
<1>17. d \in Seq(Accs(S)) /\ Len(d) \in Nat /\ DOMAIN d = 1..Len(d)
  BY <1>16 DEF Dicts
<1> HIDE DEF d, all
<1>18. Len(all) = Len(d) /\ DOMAIN all = 1..Len(d)
  BY <1>15, <1>17 DEF Finalized
<1>19. \A r \in 1..Len(d) :
         /\ all[r].trace = d[r].trace /\ all[r].offsets = d[r].offsets
         /\ all[r].start = d[r].start /\ all[r].project = d[r].project
         /\ all[r].projects = d[r].projects /\ all[r].errors = d[r].errors
  <2> TAKE r \in 1..Len(d)
  <2>1. d[r] \in Accs(S)
    BY <1>17
  <2>2. all[r] = FinalizeValidation(d[r])
    BY <1>15, <1>17 DEF Finalized
  <2>3. all[r] = [d[r] EXCEPT !.missing = Cardinality(d[r].parents \ d[r].spans)]
    BY <2>2 DEF FinalizeValidation
  <2> QED BY <2>1, <2>3 DEF Accs
<1>20. /\ \A r \in 1..Len(d) : /\ Among(file, N, d[r].trace) # {}
                               /\ TellsOf(d[r], file, Among(file, N, d[r].trace))
       /\ \A i \in N : \E r \in 1..Len(d) : d[r].trace = file[i].trace
       /\ \A r, q \in 1..Len(d) : r < q => d[r].offsets[1] < d[q].offsets[1]
  BY <1>13, <1>14 DEF AllTell, d
<1>21. \A t : Among(file, N, t) = PlacesOf(file, {t})
  BY <1>1 DEF Among, PlacesOf
<1>22. \A r \in 1..Len(d) : /\ PlacesOf(file, {d[r].trace}) # {}
                            /\ TellsOf(all[r], file, PlacesOf(file, {d[r].trace}))
  <2> TAKE r \in 1..Len(d)
  <2> DEFINE places == PlacesOf(file, {d[r].trace})
  <2>1. TellsOf(d[r], file, places) /\ places # {}
    BY <1>20, <1>21
  <2> HIDE DEF places
  <2>2. TellsOf(all[r], file, places)
    BY <1>19, <2>1 DEF TellsOf
  <2> QED BY <2>1, <2>2 DEF places
<1>23. \A t \in TracesIn(file) : \E r \in 1..Len(d) : d[r].trace = t
  BY <1>1, <1>20 DEF TracesIn
<1>24. RowsTell(all, file)
  BY <1>17, <1>18, <1>19, <1>20, <1>22, <1>23, ZenonT(40) DEF RowsTell
<1> QED BY <1>24 DEF all

-----------------------------------------------------------------------------
(* Sums, and sequences strung together.                                    *)

LEMMA SumsGoOn ==
  ASSUME NEW numbers, Len(numbers) \in Nat
  PROVE  /\ Sums(numbers)[0] = 0
         /\ \A k \in 1..Len(numbers) : Sums(numbers)[k] = Sums(numbers)[k - 1] + numbers[k]
<1> DEFINE Behind(f, m) == f = [k \in 0..m |-> IF k = 0 THEN 0 ELSE f[k - 1] + numbers[k]]
           Reached == {m \in Nat : \E f : Behind(f, m)}
<1>1. 0 \in Reached
  <2>1. Behind([k \in 0..0 |-> 0], 0)
    OBVIOUS
  <2> QED BY <2>1
<1>2. ASSUME NEW m \in Nat, m \in Reached
      PROVE  m + 1 \in Reached
  <2>1. PICK f : Behind(f, m)
    BY <1>2
  <2> DEFINE g == [k \in 0..(m + 1) |-> IF k = 0 THEN 0 ELSE f[k - 1] + numbers[k]]
  <2>2. \A k \in 0..m : g[k] = f[k]
    BY <2>1
  <2>3. \A k \in 0..(m + 1) : k # 0 => k - 1 \in 0..m
    OBVIOUS
  <2>4. Behind(g, m + 1)
    BY <2>2, <2>3
  <2> HIDE DEF g, Behind
  <2>5. \E h : Behind(h, m + 1)
    BY <2>4
  <2> QED BY <2>5
<1>3. Len(numbers) \in Reached
  <2> HIDE DEF Reached
  <2> QED BY <1>1, <1>2, Counting
<1>4. Behind(Sums(numbers), Len(numbers))
  BY <1>3 DEF Sums
<1> QED BY <1>4

LEMMA SumsTyped ==
  ASSUME NEW numbers \in Seq(Nat)
  PROVE  \A k \in 0..Len(numbers) : Sums(numbers)[k] \in Nat
<1> DEFINE f == Sums(numbers)
           Typed == {k \in Nat : k <= Len(numbers) => f[k] \in Nat}
<1>1. /\ f[0] = 0
      /\ \A k \in 1..Len(numbers) : f[k] = f[k - 1] + numbers[k]
  BY SumsGoOn
<1> HIDE DEF f
<1>2. 0 \in Typed
  BY <1>1
<1>3. ASSUME NEW k \in Nat, k \in Typed
      PROVE  k + 1 \in Typed
  <2> SUFFICES ASSUME k + 1 <= Len(numbers) PROVE f[k + 1] \in Nat
    OBVIOUS
  <2>1. k + 1 \in 1..Len(numbers) /\ k + 1 - 1 = k /\ f[k] \in Nat
    BY <1>3
  <2>2. numbers[k + 1] \in Nat
    BY <2>1
  <2> QED BY <1>1, <2>1, <2>2
<1> HIDE DEF Typed
<1>4. \A k \in Nat : k \in Typed
  BY <1>2, <1>3, Counting
<1> QED BY <1>4 DEF Typed, f

LEMMA TotalTyped ==
  ASSUME NEW numbers \in Seq(Nat)
  PROVE  /\ Total(numbers) \in Nat
         /\ Len(numbers) = 0 => Total(numbers) = 0
         /\ Len(numbers) = 1 => Total(numbers) = numbers[1]
<1>0. \A k \in 1..Len(numbers) : numbers[k] \in Nat
  OBVIOUS
<1>1. Len(numbers) \in 0..Len(numbers) /\ Len(numbers) \in Nat
  OBVIOUS
<1>2. Total(numbers) \in Nat
  BY <1>1, SumsTyped DEF Total
<1>3. Len(numbers) = 0 => Total(numbers) = 0
  BY SumsGoOn DEF Total
<1>4. Len(numbers) = 1 => Total(numbers) = numbers[1]
  <2> SUFFICES ASSUME Len(numbers) = 1 PROVE Total(numbers) = numbers[1]
    OBVIOUS
  <2>0. 1 \in 1..Len(numbers) /\ 1 - 1 = 0
    BY <1>1
  <2>1. 1 \in 1..Len(numbers) /\ 1 - 1 = 0 /\ numbers[1] \in Nat
    BY <1>0, <2>0, Zenon
  <2>2. Sums(numbers)[1] = Sums(numbers)[0] + numbers[1] /\ Sums(numbers)[0] = 0
    BY <1>1, <2>1, SumsGoOn
  <2> QED BY <2>1, <2>2 DEF Total
<1> QED BY <1>2, <1>3, <1>4

LEMMA FlattenGoesOn ==
  ASSUME NEW seqs, Len(seqs) \in Nat, Len(seqs) # 0
  PROVE  \E f : /\ f[1] = seqs[1]
                /\ \A k \in 1..Len(seqs) : k # 1 => f[k] = f[k - 1] \o seqs[k]
                /\ FlattenSeq(seqs) = f[Len(seqs)]
<1> DEFINE m == Len(seqs)
<1>0. m \in Nat /\ m # 0
  OBVIOUS
<1> HIDE DEF m
<1> DEFINE Step(s, k) == s \o seqs[k]
           Behind(f, n) == f = [k \in 1..n |-> IF k = 1 THEN seqs[k] ELSE Step(f[k - 1], k)]
           Reached == {n \in Nat : \E f : Behind(f, n)}
<1> HIDE DEF Step
<1>1. 0 \in Reached
  <2>0. \A k \in 1..0 : FALSE
    OBVIOUS
  <2>1. Behind([k \in 1..0 |-> 0], 0)
    BY <2>0
  <2> QED BY <2>1
<1>2. ASSUME NEW n \in Nat, n \in Reached
      PROVE  n + 1 \in Reached
  <2>1. PICK f : Behind(f, n)
    BY <1>2
  <2> DEFINE g == [k \in 1..(n + 1) |-> IF k = 1 THEN seqs[k] ELSE Step(f[k - 1], k)]
  <2>2. \A k \in 1..n : g[k] = f[k]
    BY <2>1
  <2>3. \A k \in 1..(n + 1) : k # 1 => k - 1 \in 1..n
    OBVIOUS
  <2>4. Behind(g, n + 1)
    BY <2>2, <2>3
  <2> HIDE DEF g, Behind
  <2>5. \E h : Behind(h, n + 1)
    BY <2>4
  <2> QED BY <2>5
<1>3. m \in Reached
  <2> HIDE DEF Reached
  <2> QED BY <1>0, <1>1, <1>2, Counting
<1> DEFINE F == CHOOSE f : Behind(f, m)
<1>4. Behind(F, m)
  BY <1>3
<1>5. FlattenSeq(seqs) = F[m]
  BY <1>0 DEF FlattenSeq, Step, m
<1> HIDE DEF F
<1>6. F[1] = seqs[1] /\ \A k \in 1..m : k # 1 => F[k] = Step(F[k - 1], k)
  <2>1. 1 \in 1..m
    BY <1>0
  <2> QED BY <1>4, <2>1
<1> QED BY <1>5, <1>6 DEF Step, m

LEMMA FlattenTyped ==
  ASSUME NEW W, NEW seqs \in Seq(Seq(W))
  PROVE  FlattenSeq(seqs) \in Seq(W)
<1>1. CASE Len(seqs) = 0
  <2>1. FlattenSeq(seqs) = seqs /\ seqs = <<>>
    BY <1>1 DEF FlattenSeq
  <2> QED BY <2>1
<1>2. CASE Len(seqs) # 0
  <2>1. PICK f : /\ f[1] = seqs[1]
                 /\ \A k \in 1..Len(seqs) : k # 1 => f[k] = f[k - 1] \o seqs[k]
                 /\ FlattenSeq(seqs) = f[Len(seqs)]
    <3>1. Len(seqs) \in Nat /\ Len(seqs) # 0
      BY <1>2
    <3> QED BY <3>1, FlattenGoesOn
  <2> DEFINE Typed == {k \in Nat : k \in 1..Len(seqs) => f[k] \in Seq(W)}
  <2>2. \A k \in 1..Len(seqs) : seqs[k] \in Seq(W)
    OBVIOUS
  <2>3. 0 \in Typed
    OBVIOUS
  <2>4. ASSUME NEW k \in Nat, k \in Typed PROVE k + 1 \in Typed
    <3> DEFINE n == k + 1
    <3> SUFFICES ASSUME n \in 1..Len(seqs) PROVE f[n] \in Seq(W)
      OBVIOUS
    <3>1. CASE k = 0
      BY <2>1, <2>2, <3>1
    <3>2. CASE k # 0
      <4>1. k \in 1..Len(seqs) /\ n # 1 /\ n - 1 = k
        BY <3>2
      <4>2. f[k] \in Seq(W)
        BY <2>4, <4>1
      <4> HIDE DEF n
      <4>3. f[n] = f[k] \o seqs[n] /\ seqs[n] \in Seq(W)
        BY <2>1, <2>2, <4>1
      <4> QED BY <4>2, <4>3
    <3> QED BY <3>1, <3>2
  <2> HIDE DEF Typed
  <2>5. \A k \in Nat : k \in Typed
    BY <2>3, <2>4, Counting
  <2>6. Len(seqs) \in Nat /\ Len(seqs) \in 1..Len(seqs)
    BY <1>2
  <2> QED BY <2>1, <2>5, <2>6 DEF Typed
<1> QED BY <1>1, <1>2

-----------------------------------------------------------------------------
(* Spans, whole and cut.                                                   *)

Attributes(W) == Seq([noisy : BOOLEAN, words : Seq(W)])

LEMMA AttributesTyped ==
  ASSUME NEW W, NEW some \in Attributes(W)
  PROVE  /\ Len(some) \in Nat /\ DOMAIN some = 1..Len(some)
         /\ \A a \in 1..Len(some) : some[a] \in [noisy : BOOLEAN, words : Seq(W)]
<1> DEFINE R == [noisy : BOOLEAN, words : Seq(W)]
<1>1. some \in Seq(R)
  BY DEF Attributes
<1> HIDE DEF R
<1>2. \A a \in 1..Len(some) : some[a] \in R
  BY <1>1
<1> QED BY <1>1, <1>2 DEF R

LEMMA TextTyped ==
  ASSUME NEW W, NEW span, span.attributes \in Attributes(W)
  PROVE  RawText(span) \in Seq(W) /\ Size(span) \in Nat
<1> DEFINE some == span.attributes
           texts == [a \in DOMAIN some |-> some[a].words]
<1>1. Len(some) \in Nat /\ DOMAIN some = 1..Len(some)
      /\ \A a \in 1..Len(some) : some[a] \in [noisy : BOOLEAN, words : Seq(W)]
  BY AttributesTyped
<1>2. texts \in Seq(Seq(W))
  BY <1>1
<1>3. RawText(span) = FlattenSeq(texts)
  BY DEF RawText
<1> HIDE DEF texts
<1>4. RawText(span) \in Seq(W)
  BY <1>2, <1>3, FlattenTyped
<1> QED BY <1>4 DEF Size

Shown == Words \cup {Cut, Dropped}

Kept(attributes) == Those(attributes, {a \in DOMAIN attributes : ~attributes[a].noisy})

LEMMA AttributesThen ==
  ASSUME NEW attributes \in Attributes(Words), NEW cap \in Nat
  PROVE  LET kept == Kept(attributes)
             new == NewAttributes(attributes, cap)
         IN  /\ kept \in Attributes(Words) /\ new \in Attributes(Shown)
             /\ Len(kept) <= Len(new) /\ Len(new) <= Len(kept) + 1
             /\ \A a \in 1..Len(kept) : new[a].words = TruncateAttributeValue(kept[a].words, cap)
             /\ \A a \in 1..Len(new) : a \notin 1..Len(kept) => new[a].words = <<Dropped>>
<1> DEFINE K == {a \in DOMAIN attributes : ~attributes[a].noisy}
           kept == Kept(attributes)
           new == NewAttributes(attributes, cap)
           Cutted(words) == TruncateAttributeValue(words, cap)
           shown == [a \in DOMAIN kept |-> [noisy |-> FALSE, words |-> Cutted(kept[a].words)]]
           note == [noisy |-> FALSE, words |-> <<Dropped>>]
<1>1. Len(attributes) \in Nat /\ DOMAIN attributes = 1..Len(attributes)
      /\ \A a \in 1..Len(attributes) : attributes[a] \in [noisy : BOOLEAN, words : Seq(Words)]
  BY AttributesTyped
<1>2. K \in SUBSET (1..Len(attributes))
  BY <1>1
<1>3. kept = [n \in DOMAIN InOrder(K) |-> attributes[InOrder(K)[n]]]
  BY DEF Kept, Those
<1> HIDE DEF K
<1>4. InOrder(K) \in Seq(K)
  BY <1>1, <1>2, InOrderGoesThroughPlaces
<1>5. kept \in Attributes(Words)
  <2>1. \A n \in 1..Len(InOrder(K)) : InOrder(K)[n] \in 1..Len(attributes)
    <3>1. \A n \in 1..Len(InOrder(K)) : InOrder(K)[n] \in K
      BY ONLY <1>4
    <3> QED BY <1>2, <3>1
  <2> QED BY <1>1, <1>3, <1>4, <2>1, SMTT(30) DEF Attributes
<1> HIDE DEF kept
<1>6. Len(kept) \in Nat /\ DOMAIN kept = 1..Len(kept)
      /\ \A a \in 1..Len(kept) : kept[a] \in [noisy : BOOLEAN, words : Seq(Words)]
  BY <1>5, AttributesTyped
<1>7. \A words \in Seq(Words) : Cutted(words) \in Seq(Shown)
  <2> TAKE words \in Seq(Words)
  <2>1. words \in Seq(Shown) /\ Cut \in Shown
    BY DEF Shown
  <2>2. Len(words) > cap => SubSeq(words, 1, cap) \in Seq(Shown)
    BY <2>1
  <2>3. Len(words) > cap => Append(SubSeq(words, 1, cap), Cut) \in Seq(Shown)
    BY <2>1, <2>2
  <2> QED BY <2>1, <2>3 DEF TruncateAttributeValue
<1> HIDE DEF Cutted
<1>8. shown \in Attributes(Shown) /\ Len(shown) = Len(kept)
      /\ \A a \in 1..Len(kept) : shown[a].words = Cutted(kept[a].words)
  <2>1. \A a \in 1..Len(kept) : shown[a] \in [noisy : BOOLEAN, words : Seq(Shown)]
    BY <1>6, <1>7
  <2> QED BY <1>6, <2>1 DEF Attributes
<1>9. note \in [noisy : BOOLEAN, words : Seq(Shown)] /\ note.words = <<Dropped>>
  <2>1. <<Dropped>> \in Seq(Shown)
    BY DEF Shown
  <2> QED BY <2>1
<1>10. new = IF Len(kept) < Len(attributes) THEN Append(shown, note) ELSE shown
  BY DEF NewAttributes, Kept, kept, Cutted
<1> HIDE DEF shown, note, new
<1>11. CASE Len(kept) < Len(attributes)
  <2>1. new = Append(shown, note)
    BY <1>10, <1>11
  <2>2. /\ Len(new) = Len(kept) + 1 /\ new[Len(kept) + 1] = note
        /\ \A a \in 1..Len(kept) : new[a] = shown[a]
    BY <1>6, <1>8, <2>1 DEF Attributes
  <2>3. new \in Attributes(Shown)
    BY <1>8, <1>9, <2>1 DEF Attributes
  <2>4. \A a \in 1..Len(new) : a \notin 1..Len(kept) => a = Len(kept) + 1
    BY <1>6, <2>2
  <2>5. \A a \in 1..Len(kept) : new[a].words = Cutted(kept[a].words)
    BY <1>8, <2>2
  <2>6. \A a \in 1..Len(new) : a \notin 1..Len(kept) => new[a].words = <<Dropped>>
    BY <1>9, <2>2, <2>4
  <2> QED BY <1>5, <1>6, <2>2, <2>3, <2>5, <2>6 DEF kept, new, Cutted
<1>12. CASE ~(Len(kept) < Len(attributes))
  <2>1. new = shown
    BY <1>10, <1>12
  <2> QED BY <1>5, <1>6, <1>8, <2>1 DEF kept, new, Cutted
<1> QED BY <1>11, <1>12

(* A value cut further on shows all that it shows when it is cut earlier.  *)
LEMMA CutLater ==
  ASSUME NEW words \in Seq(Words), NEW w \in DOMAIN TruncateAttributeValue(words, DiscoveryCap),
         TruncateAttributeValue(words, DiscoveryCap)[w] # Cut
  PROVE  /\ w \in DOMAIN TruncateAttributeValue(words, SurgicalCap)
         /\ TruncateAttributeValue(words, SurgicalCap)[w]
              = TruncateAttributeValue(words, DiscoveryCap)[w]
<1> DEFINE c == DiscoveryCap
           d == SurgicalCap
<1>1. c \in Nat /\ d \in Nat /\ c <= d
  BY TraceQueriesAssumption
<1> HIDE DEF c, d
<1>2. ASSUME NEW cap \in Nat, cap < Len(words)
      PROVE  LET t == Append(SubSeq(words, 1, cap), Cut)
             IN  /\ TruncateAttributeValue(words, cap) = t
                 /\ DOMAIN t = 1..(cap + 1) /\ t[cap + 1] = Cut
                 /\ \A i \in 1..cap : t[i] = words[i]
  <2> DEFINE s == SubSeq(words, 1, cap)
             t == Append(s, Cut)
  <2>1. TruncateAttributeValue(words, cap) = t
    BY <1>2 DEF TruncateAttributeValue
  <2>2. s \in Seq(Words) /\ Len(s) = cap /\ \A i \in 1..cap : s[i] = words[i]
    BY <1>2
  <2> HIDE DEF s
  <2>3. DOMAIN t = 1..(cap + 1) /\ t[cap + 1] = Cut /\ \A i \in 1..cap : t[i] = s[i]
    BY <2>2
  <2> HIDE DEF t
  <2> QED BY <2>1, <2>2, <2>3 DEF t, s
<1>3. \A cap \in Nat : ~(cap < Len(words)) => TruncateAttributeValue(words, cap) = words
  BY DEF TruncateAttributeValue
<1>4. DOMAIN words = 1..Len(words) /\ Len(words) \in Nat
  OBVIOUS
<1> DEFINE T(cap) == TruncateAttributeValue(words, cap)
<1>5. w \in DOMAIN T(c) /\ T(c)[w] # Cut
  BY DEF c
<1>6. \A cap \in Nat : cap < Len(words) =>
        /\ DOMAIN T(cap) = 1..(cap + 1) /\ T(cap)[cap + 1] = Cut
        /\ \A i \in 1..cap : T(cap)[i] = words[i]
  BY <1>2
<1>7. \A cap \in Nat : ~(cap < Len(words)) => T(cap) = words
  BY <1>3
<1> HIDE DEF T
<1>8. w \in DOMAIN T(d) /\ T(d)[w] = T(c)[w]
  <2>1. CASE c < Len(words)
    <3>1. w \in 1..(c + 1) /\ w # c + 1
      BY <1>1, <1>5, <1>6, <2>1
    <3>2. w \in 1..c /\ w \in 1..d /\ w \in 1..(d + 1) /\ w \in 1..Len(words)
      BY <1>1, <1>4, <2>1, <3>1
    <3>3. T(c)[w] = words[w]
      BY <1>1, <1>6, <2>1, <3>2
    <3>4. CASE d < Len(words)
      BY <1>1, <1>6, <3>2, <3>3, <3>4
    <3>5. CASE ~(d < Len(words))
      BY <1>1, <1>4, <1>7, <3>2, <3>3, <3>5
    <3> QED BY <3>4, <3>5
  <2>2. CASE ~(c < Len(words))
    <3>1. ~(d < Len(words))
      BY <1>1, <1>4, <2>2
    <3> QED BY <1>1, <1>5, <1>7, <2>2, <3>1
  <2> QED BY <2>1, <2>2
<1> QED BY <1>8 DEF T, c, d

LEMMA CutLaterShowsNoLess ==
  ASSUME NEW span, span.attributes \in Attributes(Words)
  PROVE  ShowsNoLess(TruncateSpanAttributes(span, SurgicalCap),
                     TruncateSpanAttributes(span, DiscoveryCap))
<1> DEFINE some == span.attributes
           again == NewAttributes(some, SurgicalCap)
           before == NewAttributes(some, DiscoveryCap)
           kept == Kept(some)
<1>1. /\ TruncateSpanAttributes(span, SurgicalCap).attributes = again
      /\ TruncateSpanAttributes(span, DiscoveryCap).attributes = before
  BY DEF TruncateSpanAttributes
<1>2. SurgicalCap \in Nat /\ DiscoveryCap \in Nat
  BY TraceQueriesAssumption
<1>3. /\ kept \in Attributes(Words) /\ again \in Attributes(Shown) /\ before \in Attributes(Shown)
      /\ Len(kept) <= Len(again)
      /\ \A a \in 1..Len(kept) :
           /\ again[a].words = TruncateAttributeValue(kept[a].words, SurgicalCap)
           /\ before[a].words = TruncateAttributeValue(kept[a].words, DiscoveryCap)
      /\ \A a \in 1..Len(before) : a \notin 1..Len(kept) => before[a].words = <<Dropped>>
  BY <1>2, AttributesThen
<1> HIDE DEF again, before, kept
<1>4. /\ Len(kept) \in Nat /\ Len(again) \in Nat
      /\ DOMAIN again = 1..Len(again) /\ DOMAIN before = 1..Len(before)
      /\ \A a \in 1..Len(kept) : kept[a].words \in Seq(Words)
  BY <1>3, AttributesTyped
<1>5. ASSUME NEW a \in DOMAIN before, NEW w \in DOMAIN before[a].words,
             before[a].words[w] \notin {Cut, Dropped}
      PROVE  /\ a \in DOMAIN again /\ w \in DOMAIN again[a].words
             /\ again[a].words[w] = before[a].words[w]
  <2>1. CASE a \in 1..Len(kept)
    <3> DEFINE words == kept[a].words
    <3>1. words \in Seq(Words) /\ again[a].words = TruncateAttributeValue(words, SurgicalCap)
          /\ before[a].words = TruncateAttributeValue(words, DiscoveryCap)
      BY <1>3, <1>4, <2>1
    <3> HIDE DEF words
    <3>2. /\ w \in DOMAIN TruncateAttributeValue(words, DiscoveryCap)
          /\ TruncateAttributeValue(words, DiscoveryCap)[w] # Cut
      BY <1>5, <3>1
    <3>3. /\ w \in DOMAIN TruncateAttributeValue(words, SurgicalCap)
          /\ TruncateAttributeValue(words, SurgicalCap)[w]
               = TruncateAttributeValue(words, DiscoveryCap)[w]
      BY <3>1, <3>2, CutLater
    <3>4. a \in DOMAIN again
      BY <1>3, <1>4, <2>1
    <3> QED BY <3>1, <3>3, <3>4
  <2>2. CASE a \notin 1..Len(kept)
    <3>1. before[a].words = <<Dropped>>
      BY <1>3, <1>4, <2>2
    <3>2. w = 1
      BY <3>1
    <3> QED BY <1>5, <3>1, <3>2
  <2> QED BY <2>1, <2>2
<1>6. ShowsNoLess([attributes |-> again], [attributes |-> before])
  BY <1>5 DEF ShowsNoLess
<1> QED BY <1>1, <1>6 DEF ShowsNoLess

LEMMA SortedOne ==
  ASSUME NEW numbers, DOMAIN numbers = {1}
  PROVE  Sorted(numbers)[1] = numbers[1]
<1> DEFINE Rank(i) == Cardinality({j \in DOMAIN numbers :
                        numbers[j] < numbers[i] \/ (numbers[j] = numbers[i] /\ j <= i)})
<1>1. {j \in DOMAIN numbers : numbers[j] < numbers[1] \/ (numbers[j] = numbers[1] /\ j <= 1)} = {1}
  OBVIOUS
<1>2. Rank(1) = 1
  BY <1>1, FS_Singleton
<1>3. Sorted(numbers) = [n \in DOMAIN numbers |-> numbers[CHOOSE i \in DOMAIN numbers : Rank(i) = n]]
  BY DEF Sorted
<1> HIDE DEF Rank
<1>4. (CHOOSE i \in DOMAIN numbers : Rank(i) = 1) = 1
  BY <1>2
<1> QED BY <1>3, <1>4

(* A view: all of the spans, and then they fit, or none.                   *)
AllOrNone(view, spans) ==
  /\ Total([k \in DOMAIN view.spans |-> Size(view.spans[k])]) <= Budget
  /\ Whole(view) => view.spans = spans
  /\ ~Whole(view) => /\ view.spans = <<>> /\ view.oversized.count = Len(spans)
                     /\ Len(spans) > 1 \/ view.oversized.greatest > Budget

LEMMA ViewIsAllOrNone ==
  ASSUME NEW spans, Len(spans) \in Nat, DOMAIN spans = 1..Len(spans),
         \A k \in 1..Len(spans) : Size(spans[k]) \in Nat
  PROVE  AllOrNone(View(spans), spans)
<1> DEFINE view == View(spans)
           sizes == [k \in DOMAIN spans |-> Size(spans[k])]
           sorted == Sorted(sizes)
           summary == [count |-> Len(spans), bytes |-> Total(sizes),
                       least |-> sorted[1],
                       median |-> sorted[Len(sizes) \div 2 + 1],
                       greatest |-> sorted[Len(sizes)],
                       errors |-> Cardinality({k \in DOMAIN spans : spans[k].error})]
<1>1. view = IF Total(sizes) <= Budget THEN [spans |-> spans]
             ELSE [spans |-> <<>>, oversized |-> summary]
  BY DEF View
<1>2. sizes \in Seq(Nat) /\ Len(sizes) = Len(spans)
  OBVIOUS
<1>3. summary.count = Len(spans) /\ summary.greatest = sorted[Len(sizes)]
  OBVIOUS
<1>4. Budget \in Nat
  BY TraceQueriesAssumption
<1> DEFINE total == Total(sizes)
<1>5. /\ total \in Nat
      /\ Len(sizes) = 0 => total = 0
      /\ Len(sizes) = 1 => total = sizes[1]
  BY <1>2, TotalTyped
<1> HIDE DEF view, summary, total
<1>6. CASE total <= Budget
  <2>1. view = [spans |-> spans]
    BY <1>1, <1>6 DEF total
  <2>2. DOMAIN view = {"spans"} /\ view.spans = spans
    BY <2>1
  <2>3. Whole(view)
    BY <2>2 DEF Whole
  <2>4. [k \in DOMAIN view.spans |-> Size(view.spans[k])] = sizes
    BY <2>2
  <2> QED BY <1>6, <2>2, <2>3, <2>4 DEF view, total, AllOrNone
<1>7. CASE ~(total <= Budget)
  <2>1. view = [spans |-> <<>>, oversized |-> summary]
    BY <1>1, <1>7 DEF total
  <2>2. DOMAIN view = {"spans", "oversized"} /\ view.spans = <<>> /\ view.oversized = summary
    BY <2>1
  <2>3. ~Whole(view)
    BY <2>2 DEF Whole
  <2>4. Total([k \in DOMAIN view.spans |-> Size(view.spans[k])]) <= Budget
    <3> DEFINE none == [k \in DOMAIN view.spans |-> Size(view.spans[k])]
    <3>1. none \in Seq(Nat) /\ Len(none) = 0
      BY <2>2
    <3> HIDE DEF none
    <3>2. Total(none) = 0
      BY <3>1, TotalTyped
    <3> QED BY <1>4, <3>2 DEF none
  <2>5. Len(spans) > 1 \/ view.oversized.greatest > Budget
    <3> SUFFICES ASSUME ~(Len(spans) > 1) PROVE view.oversized.greatest > Budget
      OBVIOUS
    <3> HIDE DEF sizes
    <3>1. Len(sizes) # 0
      <4>1. total # 0
        BY <1>4, <1>5, <1>7
      <4> QED BY <1>5, <4>1
    <3>2. Len(sizes) = 1 /\ Len(sizes) \in Nat
      BY <1>2, <3>1
    <3>3. sizes[1] > Budget
      <4>1. total > Budget
        BY <1>4, <1>5, <1>7
      <4>2. sizes[1] = total
        BY <1>5, <3>2
      <4> QED BY <4>1, <4>2
    <3>4. DOMAIN sizes = {1}
      BY <1>2, <3>2
    <3>5. sorted[1] = sizes[1]
      BY <3>4, SortedOne
    <3> QED BY <1>3, <2>2, <3>2, <3>3, <3>5
  <2> QED BY <1>3, <2>2, <2>3, <2>4, <2>5 DEF view, AllOrNone
<1> QED BY <1>6, <1>7

(* The spans a store reads at the places in a row.                         *)
BlobsTold(lines, n, file, row, P) ==
  /\ PlacesOf(file, {row.trace}) \in SUBSET (1..n)
  /\ Blobs(row, lines) = Those(file, PlacesOf(file, {row.trace}))
  /\ Len(InOrder(P)) = Cardinality(P) /\ Cardinality(P) \in Nat
  /\ DOMAIN InOrder(P) = 1..Cardinality(P)
  /\ \A k \in 1..Cardinality(P) :
       /\ InOrder(P)[k] \in P /\ Those(file, P)[k] = file[InOrder(P)[k]]
       /\ Those(file, P)[k].attributes \in Attributes(Words)

LEMMA BlobsAre ==
  ASSUME NEW lines \in Seq(Lines), NEW n \in 0..Len(lines), NEW file, file = SubSeq(lines, 1, n),
         NEW row, NEW P, P \in SUBSET PlacesOf(file, {row.trace}),
         row.offsets = InOrder(PlacesOf(file, {row.trace}))
  PROVE  BlobsTold(lines, n, file, row, P)
<1> DEFINE places == PlacesOf(file, {row.trace})
           o == InOrder(places)
           s == InOrder(P)
<1>1. /\ file \in Seq(Lines) /\ Len(file) = n /\ n \in Nat /\ DOMAIN file = 1..n
      /\ \A i \in 1..n : file[i] = lines[i]
  OBVIOUS
<1>2. places \in SUBSET (1..n) /\ \A i \in places : file[i] \in Lines \ {Blank}
  BY <1>1 DEF PlacesOf
<1>3. P \in SUBSET places
  OBVIOUS
<1> HIDE DEF places
<1>4. P \in SUBSET (1..n)
  BY <1>2, <1>3
<1>5. o \in Seq(places) /\ s \in Seq(P) /\ Len(s) = Cardinality(P) /\ Cardinality(P) \in Nat
  BY <1>1, <1>2, <1>4, InOrderGoesThroughPlaces, PlacesAreFinite
<1>6. row.offsets = o
  BY DEF places
<1>7. Those(file, P) = [k \in DOMAIN s |-> file[s[k]]] /\ Those(file, places) = [k \in DOMAIN o |-> file[o[k]]]
  BY DEF Those
<1> HIDE DEF o, s
<1>8. DOMAIN s = 1..Cardinality(P) /\ \A k \in 1..Cardinality(P) : s[k] \in P
  BY <1>5
<1>9. \A k \in DOMAIN o : o[k] \in places
  BY <1>5
<1>10. Blobs(row, lines) = [k \in DOMAIN o |-> lines[o[k]]]
  BY <1>6 DEF Blobs
<1>11. \A k \in DOMAIN o : lines[o[k]] = file[o[k]]
  BY <1>1, <1>2, <1>9
<1>12. Blobs(row, lines) = Those(file, places)
  BY <1>7, <1>10, <1>11
<1>13. \A l \in Lines \ {Blank} : l.attributes \in Attributes(Words)
  BY TraceQueriesAssumption DEF Attributes
<1>14. \A k \in 1..Cardinality(P) : /\ Those(file, P)[k] = file[s[k]]
                                    /\ Those(file, P)[k].attributes \in Attributes(Words)
  BY <1>2, <1>3, <1>7, <1>8, <1>13, ZenonT(40)
<1>15. Len(s) = Cardinality(P) /\ Cardinality(P) \in Nat
  BY <1>5 DEF s
<1> QED BY <1>2, <1>8, <1>12, <1>14, <1>15 DEF places, s, BlobsTold

(* A view of the spans at some places of a trace. *)
ViewTold(view, P, file, cap) ==
  /\ HoldsAllOrNone(view, P, file)
  /\ ~Whole(view) => Cardinality(P) > 1 \/ view.oversized.greatest > Budget
  /\ Whole(view) => view.spans = [k \in 1..Cardinality(P) |->
                                    TruncateSpanAttributes(Those(file, P)[k], cap)]

LEMMA ViewOfPlaces ==
  ASSUME NEW lines \in Seq(Lines), NEW n \in 0..Len(lines), NEW file, file = SubSeq(lines, 1, n),
         NEW row, NEW P, P \in SUBSET PlacesOf(file, {row.trace}),
         row.offsets = InOrder(PlacesOf(file, {row.trace})),
         NEW cap \in Nat, NEW view,
         view = View([k \in 1..Cardinality(P) |-> TruncateSpanAttributes(Those(file, P)[k], cap)])
  PROVE  ViewTold(view, P, file, cap)
<1> DEFINE c == Cardinality(P)
           spans == [k \in 1..c |-> TruncateSpanAttributes(Those(file, P)[k], cap)]
<1>1. c \in Nat /\ \A k \in 1..c : Those(file, P)[k].attributes \in Attributes(Words)
  <2>1. BlobsTold(lines, n, file, row, P)
    BY BlobsAre
  <2> QED BY <2>1 DEF BlobsTold
<1>2. \A k \in 1..c : Size(spans[k]) \in Nat /\ spans[k].span = Those(file, P)[k].span
  <2> TAKE k \in 1..c
  <2> DEFINE old == Those(file, P)[k]
             new == TruncateSpanAttributes(old, cap)
  <2>1. spans[k] = new
    OBVIOUS
  <2>2. old.attributes \in Attributes(Words)
    BY <1>1
  <2> HIDE DEF old
  <2>3. new.attributes = NewAttributes(old.attributes, cap) /\ new.span = old.span
    BY DEF TruncateSpanAttributes
  <2>4. NewAttributes(old.attributes, cap) \in Attributes(Shown)
    BY <2>2, AttributesThen
  <2> HIDE DEF new, spans
  <2>5. Size(new) \in Nat
    BY <2>3, <2>4, TextTyped
  <2> QED BY <2>1, <2>3, <2>5 DEF old
<1>3. Len(spans) = c /\ DOMAIN spans = 1..c
  BY <1>1
<1>4. view = View(spans)
  OBVIOUS
<1> HIDE DEF spans, c
<1>5. /\ Total([k \in DOMAIN view.spans |-> Size(view.spans[k])]) <= Budget
      /\ Whole(view) => view.spans = spans
      /\ ~Whole(view) => /\ view.spans = <<>> /\ view.oversized.count = c
                         /\ c > 1 \/ view.oversized.greatest > Budget
  <2>1. AllOrNone(View(spans), spans)
    BY <1>1, <1>2, <1>3, ViewIsAllOrNone
  <2> QED BY <1>3, <1>4, <2>1 DEF AllOrNone
<1>6. Whole(view) => [k \in DOMAIN view.spans |-> view.spans[k].span]
                       = [k \in 1..c |-> Those(file, P)[k].span]
  BY <1>2, <1>3, <1>5
<1>7. HoldsAllOrNone(view, P, file)
  BY <1>5, <1>6 DEF HoldsAllOrNone, c
<1> QED BY <1>5, <1>7 DEF spans, c, ViewTold

LEMMA ViewsMatchTheFile ==
  ASSUME NEW lines \in Seq(Lines), NEW n \in 0..Len(lines), NEW all, NEW file,
         file = SubSeq(lines, 1, n), RowsTell(all, file)
  PROVE  ViewsMatch(all, file, lines)
<1> SUFFICES ASSUME NEW r \in DOMAIN all
             PROVE  LET places == PlacesOf(file, {all[r].trace})
                        first == ViewTrace(all[r], lines)
                    IN  /\ HoldsAllOrNone(first, places, file)
                        /\ \A ids \in SUBSET {file[i].span : i \in places} :
                             LET named == {i \in places : file[i].span \in ids}
                                 second == ViewSpans(all[r], ids, lines)
                             IN  /\ HoldsAllOrNone(second, named, file)
                                 /\ ~Whole(second) => \/ Cardinality(named) > 1
                                                      \/ second.oversized.greatest > Budget
                                 /\ Whole(first) /\ Whole(second) =>
                                      \A i \in DOMAIN first.spans, k \in DOMAIN second.spans :
                                        InOrder(places)[i] = InOrder(named)[k] =>
                                          ShowsNoLess(second.spans[k], first.spans[i])
  BY DEF ViewsMatch
<1> DEFINE row == all[r]
           places == PlacesOf(file, {row.trace})
           first == ViewTrace(row, lines)
           c == Cardinality(places)
<1>1. row.offsets = InOrder(places)
  BY DEF RowsTell, TellsOf
<1>2. DiscoveryCap \in Nat /\ SurgicalCap \in Nat
  BY TraceQueriesAssumption
<1> HIDE DEF row
<1>3. /\ Blobs(row, lines) = Those(file, places) /\ c \in Nat
      /\ DOMAIN InOrder(places) = 1..c /\ places \in SUBSET (1..n) /\ n \in Nat
      /\ \A k \in 1..c : /\ InOrder(places)[k] \in places
                         /\ Those(file, places)[k] = file[InOrder(places)[k]]
                         /\ Those(file, places)[k].attributes \in Attributes(Words)
  <2>1. BlobsTold(lines, n, file, row, places)
    BY <1>1, BlobsAre
  <2>2. n \in Nat
    OBVIOUS
  <2> QED BY <2>1, <2>2 DEF BlobsTold
<1>4. first = View([k \in 1..c |-> TruncateSpanAttributes(Those(file, places)[k], DiscoveryCap)])
  BY <1>1, <1>3 DEF ViewTrace
<1> HIDE DEF first
<1>5. /\ HoldsAllOrNone(first, places, file)
      /\ Whole(first) => first.spans = [k \in 1..c |->
                                          TruncateSpanAttributes(Those(file, places)[k], DiscoveryCap)]
  <2>1. places \in SUBSET PlacesOf(file, {row.trace})
    OBVIOUS
  <2>2. ViewTold(first, places, file, DiscoveryCap)
    BY <1>1, <1>2, <1>4, <2>1, ViewOfPlaces
  <2> QED BY <2>2 DEF ViewTold
<1>6. ASSUME NEW ids
      PROVE  LET named == {i \in places : file[i].span \in ids}
                 second == ViewSpans(row, ids, lines)
             IN  /\ HoldsAllOrNone(second, named, file)
                 /\ ~Whole(second) => Cardinality(named) > 1 \/ second.oversized.greatest > Budget
                 /\ Whole(first) /\ Whole(second) =>
                      \A i \in DOMAIN first.spans, k \in DOMAIN second.spans :
                        InOrder(places)[i] = InOrder(named)[k] =>
                          ShowsNoLess(second.spans[k], first.spans[i])
  <2> DEFINE named == {i \in places : file[i].span \in ids}
             second == ViewSpans(row, ids, lines)
             d == Cardinality(named)
             blobs == Those(file, places)
             K == {k \in 1..c : blobs[k].span \in ids}
             wanted == Those(blobs, K)
  <2>1. named \in SUBSET places
    OBVIOUS
  <2>2. K = {k \in 1..Len(InOrder(places)) : InOrder(places)[k] \in named}
    <3>1. Len(InOrder(places)) = c
      BY <1>3, InOrderGoes
    <3> QED BY <1>3, <3>1
  <2>3. DOMAIN blobs = 1..c
    BY <1>3 DEF Those
  <2> HIDE DEF named, K, blobs, c
  <2>4. Those(InOrder(places), K) = InOrder(named) /\ Cardinality(K) = d
    <3> DEFINE o == InOrder(places)
    <3>1. n \in Nat /\ places \in SUBSET (1..n)
      BY <1>3
    <3>2. GoesThrough(o, places)
      BY <3>1, InOrderGoes
    <3>3. K \in SUBSET (1..Len(o)) /\ \A k \in 1..Len(o) : k \in K <=> o[k] \in named
      BY <2>2
    <3> HIDE DEF o, places
    <3>4. Those(o, K) = InOrder(named) /\ Cardinality(K) = Cardinality(named)
      <4>1. Bounded(places)
        BY <3>1 DEF Bounded
      <4> QED BY <3>2, <3>3, <2>1, <4>1, PickedInOrder
    <3> QED BY <3>4 DEF o
  <2>5. /\ d \in Nat /\ DOMAIN InOrder(named) = 1..d
        /\ \A k \in 1..d : /\ InOrder(named)[k] \in named
                           /\ Those(file, named)[k] = file[InOrder(named)[k]]
                           /\ Those(file, named)[k].attributes \in Attributes(Words)
    <3>1. named \in SUBSET PlacesOf(file, {row.trace})
      BY <2>1
    <3>2. BlobsTold(lines, n, file, row, named)
      BY <1>1, <3>1, BlobsAre
    <3> QED BY <3>2 DEF BlobsTold
  <2>6. wanted = Those(file, named)
    <3>1. K \in SUBSET (1..c) /\ c \in Nat
      BY <1>3 DEF K
    <3>2. InOrder(K) \in Seq(K) /\ Len(InOrder(K)) = d
      BY <2>4, <3>1, InOrderGoesThroughPlaces
    <3>3. DOMAIN InOrder(K) = 1..d /\ \A k \in 1..d : InOrder(K)[k] \in K
      BY <2>5, <3>2
    <3>4. \A k \in 1..d : InOrder(named)[k] = InOrder(places)[InOrder(K)[k]]
      BY <2>4, <3>3 DEF Those
    <3>5. \A k \in 1..d : blobs[InOrder(K)[k]] = file[InOrder(named)[k]]
      BY <1>3, <3>1, <3>3, <3>4, ZenonT(40) DEF blobs
    <3>6. wanted = [k \in 1..d |-> blobs[InOrder(K)[k]]]
      BY <3>3 DEF Those
    <3>7. Those(file, named) = [k \in 1..d |-> file[InOrder(named)[k]]]
      BY <2>5 DEF Those
    <3> QED BY <3>5, <3>6, <3>7
  <2>7. second = View([k \in DOMAIN wanted |-> TruncateSpanAttributes(wanted[k], SurgicalCap)])
    <3>1. Blobs(row, lines) = blobs
      BY <1>3 DEF blobs
    <3>2. {k \in DOMAIN blobs : blobs[k].span \in ids} = K
      BY <2>3 DEF K
    <3> QED BY <3>1, <3>2 DEF ViewSpans
  <2>8. DOMAIN wanted = 1..d
    BY <2>5, <2>6 DEF Those
  <2>9. second = View([k \in 1..d |-> TruncateSpanAttributes(Those(file, named)[k], SurgicalCap)])
    BY <2>6, <2>7, <2>8
  <2> HIDE DEF second, wanted
  <2>10. /\ HoldsAllOrNone(second, named, file)
         /\ ~Whole(second) => d > 1 \/ second.oversized.greatest > Budget
         /\ Whole(second) => second.spans = [k \in 1..d |->
                               TruncateSpanAttributes(Those(file, named)[k], SurgicalCap)]
    <3>1. named \in SUBSET PlacesOf(file, {row.trace})
      BY <2>1
    <3>2. ViewTold(second, named, file, SurgicalCap)
      BY <1>1, <1>2, <2>9, <3>1, ViewOfPlaces
    <3> QED BY <3>2 DEF ViewTold
  <2>11. ASSUME Whole(first), Whole(second), NEW i \in DOMAIN first.spans, NEW k \in DOMAIN second.spans,
                InOrder(places)[i] = InOrder(named)[k]
         PROVE  ShowsNoLess(second.spans[k], first.spans[i])
    <3> DEFINE span == Those(file, named)[k]
    <3>1. i \in 1..c /\ first.spans[i] = TruncateSpanAttributes(Those(file, places)[i], DiscoveryCap)
      BY <1>5, <2>11 DEF c
    <3>2. k \in 1..d /\ second.spans[k] = TruncateSpanAttributes(span, SurgicalCap)
      BY <2>10, <2>11
    <3>3. Those(file, places)[i] = span /\ span.attributes \in Attributes(Words)
      BY <1>3, <2>5, <2>11, <3>1, <3>2 DEF c
    <3> HIDE DEF span
    <3> QED BY <3>1, <3>2, <3>3, CutLaterShowsNoLess
  <2> QED BY <2>10, <2>11 DEF named, second
<1> QED BY <1>5, <1>6 DEF row, first

(* What a store serves is a file that the run may have seen. *)
LEMMA RowsOfAFile ==
  ASSUME IndexTypeOK, StoreServesTheTrace, NEW b \in Builders, Serves(b)
  PROVE  /\ trace.lines \in Seq(Lines)
         /\ \E n \in 0..Len(trace.lines) :
              /\ SubSeq(trace.lines, 1, n) \in FilesSeen(b)
              /\ RowsTell(store[b], SubSeq(trace.lines, 1, n))
<1>1. trace.lines \in Seq(Lines) /\ source[b].size \in Nat
  BY DEF IndexTypeOK, Fingerprints
<1>2. PICK n \in (source[b].size \div 2)..Len(trace.lines) :
        store[b] = RowsInOnePiece(SubSeq(trace.lines, 1, n))
  BY DEF StoreServesTheTrace, Serves
<1>3. n \in 0..Len(trace.lines)
  BY <1>1, <1>2
<1> DEFINE file == SubSeq(trace.lines, 1, n)
<1>4. file \in Seq(Lines)
  BY <1>1, <1>3
<1>5. file \in FilesSeen(b)
  BY <1>2 DEF FilesSeen
<1> HIDE DEF file
<1>6. RowsTell(RowsInOnePiece(file), file)
  BY <1>4, RowsTellOfTheFile
<1>7. store[b] = RowsInOnePiece(file)
  BY <1>2 DEF file
<1> QED BY <1>1, <1>3, <1>5, <1>6, <1>7 DEF file

(* ViewsMatchTrace: a view holds every span that was asked for, in file    *)
(* order, or none and their number, it fits the budget, and what a first   *)
(* look at a trace shows of a span a second look at the span shows too.    *)
THEOREM ViewsMatchWhatIsThere ==
  ASSUME Alone
  PROVE  Spec => []ViewsMatchTrace
<1>1. IndexTypeOK /\ StoreServesTheTrace => ViewsMatchTrace
  <2> SUFFICES ASSUME IndexTypeOK, StoreServesTheTrace, NEW b \in Builders, Serves(b)
               PROVE  \E file \in FilesSeen(b) : ViewsMatch(store[b], file, trace.lines)
    BY DEF ViewsMatchTrace
  <2>1. trace.lines \in Seq(Lines)
    BY RowsOfAFile
  <2>2. PICK n \in 0..Len(trace.lines) :
          /\ SubSeq(trace.lines, 1, n) \in FilesSeen(b)
          /\ RowsTell(store[b], SubSeq(trace.lines, 1, n))
    BY RowsOfAFile
  <2>3. ViewsMatch(store[b], SubSeq(trace.lines, 1, n), trace.lines)
    BY <2>1, <2>2, ViewsMatchTheFile
  <2> QED BY <2>2, <2>3
<1> QED
  BY <1>1, IndexTypes, StoreServes, PTL

-----------------------------------------------------------------------------
(* Searches.  The n-th record found is of the n-th place.                  *)

At(found, n) == <<found[n].index, found[n].start>>

Before(q, p) == q[1] < p[1] \/ (q[1] = p[1] /\ q[2] < p[2])

Finds(found, places) ==
  /\ Len(found) \in Nat /\ DOMAIN found = 1..Len(found)
  /\ places \in SUBSET (Nat \X Nat)
  /\ \A n \in 1..Len(found) : At(found, n) \in places
  /\ \A q \in places : \E n \in 1..Len(found) : At(found, n) = q
  /\ \A a, b \in 1..Len(found) : a < b <=> Before(At(found, a), At(found, b))

(* One to one with the first numbers, so as many. *)
LEMMA AsMany ==
  ASSUME NEW S, NEW m \in Nat, NEW f, \A n \in 1..m : f[n] \in S,
         \A q \in S : \E n \in 1..m : f[n] = q,
         \A a, b \in 1..m : f[a] = f[b] => a = b
  PROVE  IsFiniteSet(S) /\ Cardinality(S) = m
<1> DEFINE g == [n \in 1..m |-> f[n]]
<1>1. g \in Surjection(1..m, S)
  BY DEF Surjection
<1>2. g \in Injection(1..m, S)
  BY DEF Injection, IsInjective
<1>3. IsFiniteSet(1..m) /\ Cardinality(1..m) = m
  BY FS_Interval
<1> HIDE DEF g
<1> QED BY <1>1, <1>2, <1>3, FS_Surjection

LEMMA FoundAreCounted ==
  ASSUME NEW found, NEW places, Finds(found, places)
  PROVE  /\ Cardinality(places) = Len(found)
         /\ \A n \in 1..Len(found) :
              Cardinality({q \in places : q[1] < At(found, n)[1]
                             \/ (q[1] = At(found, n)[1] /\ q[2] <= At(found, n)[2])}) = n
<1> DEFINE m == Len(found)
           f == [n \in 1..m |-> At(found, n)]
<1>1. /\ m \in Nat /\ places \in SUBSET (Nat \X Nat)
      /\ \A n \in 1..m : f[n] \in places
      /\ \A q \in places : \E n \in 1..m : f[n] = q
      /\ \A a, b \in 1..m : a < b <=> Before(f[a], f[b])
  BY DEF Finds
<1>2. \A n \in 1..m : f[n] = At(found, n)
  OBVIOUS
<1> HIDE DEF f, m
<1>3. \A n \in 1..m : f[n][1] \in Nat /\ f[n][2] \in Nat /\ f[n] = <<f[n][1], f[n][2]>>
  <2> TAKE n \in 1..m
  <2>1. f[n] \in Nat \X Nat
    BY <1>1
  <2> QED BY <2>1
<1>4. \A a, b \in 1..m : f[a] = f[b] => a = b
  <2> TAKE a, b \in 1..m
  <2> HAVE f[a] = f[b]
  <2>1. ~Before(f[a], f[b]) /\ ~Before(f[b], f[a])
    BY <1>3 DEF Before
  <2>2. ~(a < b) /\ ~(b < a)
    BY <1>1, <2>1
  <2> QED BY <1>1, <2>2
<1>5. Cardinality(places) = m
  BY <1>1, <1>4, AsMany
<1>6. ASSUME NEW n \in 1..m
      PROVE  Cardinality({q \in places : q[1] < f[n][1]
                             \/ (q[1] = f[n][1] /\ q[2] <= f[n][2])}) = n
  <2> DEFINE upto == {q \in places : q[1] < f[n][1] \/ (q[1] = f[n][1] /\ q[2] <= f[n][2])}
  <2>1. \A a \in 1..m : f[a] \in upto <=> a <= n
    <3> TAKE a \in 1..m
    <3>1. f[a] \in upto <=> ~Before(f[n], f[a])
      BY <1>1, <1>3 DEF Before
    <3>2. Before(f[n], f[a]) <=> n < a
      BY <1>1
    <3> QED BY <1>1, <3>1, <3>2
  <2>2. \A q \in upto : \E a \in 1..m : f[a] = q
    BY <1>1
  <2> HIDE DEF upto
  <2>3. n \in Nat /\ \A a \in 1..n : a \in 1..m /\ a <= n
    BY <1>1
  <2>4. \A a \in 1..n : f[a] \in upto
    BY <2>1, <2>3
  <2>5. \A q \in upto : \E a \in 1..n : f[a] = q
    <3> TAKE q \in upto
    <3>1. PICK a \in 1..m : f[a] = q
      BY <2>2
    <3>2. a <= n
      BY <2>1, <3>1
    <3>3. a \in 1..n
      BY <1>1, <3>2
    <3> QED BY <3>1, <3>3
  <2>6. \A a, b \in 1..n : f[a] = f[b] => a = b
    BY <1>4, <2>3
  <2>7. Cardinality(upto) = n
    BY <2>3, <2>4, <2>5, <2>6, AsMany
  <2> QED BY <2>7 DEF upto
<1>7. ASSUME NEW n \in 1..m
      PROVE  Cardinality({q \in places : q[1] < At(found, n)[1]
                             \/ (q[1] = At(found, n)[1] /\ q[2] <= At(found, n)[2])}) = n
  BY <1>2, <1>6
<1> QED BY <1>5, <1>7 DEF m

(* Where a word stands in a span, the k-th that is searched. *)
WordsAt(span, p) == {i \in DOMAIN RawText(span) : RawText(span)[i] = p}

StandingIn(span, k, p) == {<<k, i>> : i \in WordsAt(span, p)}

LEMMA WordsAreFound ==
  ASSUME NEW span, span.attributes \in Attributes(Words), NEW p
  PROVE  /\ Occurrences(p, RawText(span)) = InOrder(WordsAt(span, p))
         /\ WordsAt(span, p) \in SUBSET Nat
         /\ GoesThrough(InOrder(WordsAt(span, p)), WordsAt(span, p))
<1> DEFINE text == RawText(span)
           at == WordsAt(span, p)
<1>1. text \in Seq(Words)
  BY TextTyped
<1>2. at \in SUBSET (1..Len(text)) /\ Len(text) \in Nat /\ at \in SUBSET Nat
  BY <1>1 DEF WordsAt
<1>3. Bounded(at)
  BY <1>2 DEF Bounded
<1>4. Occurrences(p, RawText(span)) = InOrder(at)
  BY DEF Occurrences, WordsAt
<1> HIDE DEF at
<1>5. GoesThrough(InOrder(at), at)
  BY <1>3, BoundedGoes
<1> QED BY <1>2, <1>4, <1>5 DEF at

LEMMA SpanIsSearched ==
  ASSUME NEW span, span.attributes \in Attributes(Words), NEW k \in Nat, NEW p, NEW buffer
  PROVE  /\ Finds(MatchesIn(span, k, p, buffer), StandingIn(span, k, p))
         /\ \A n \in DOMAIN MatchesIn(span, k, p, buffer) :
              /\ MatchesIn(span, k, p, buffer)[n].index = k
              /\ MatchesIn(span, k, p, buffer)[n].span = span.span
<1> DEFINE W == WordsAt(span, p)
           at == InOrder(W)
           found == MatchesIn(span, k, p, buffer)
           places == StandingIn(span, k, p)
<1>1. W \in SUBSET Nat /\ GoesThrough(at, W) /\ Occurrences(p, RawText(span)) = at
  BY WordsAreFound
<1>2. places = {<<k, i>> : i \in W}
  BY DEF StandingIn
<1> HIDE DEF W, at, places
<1>3. found = [m \in DOMAIN at |-> MatchRecord(span, k, at[m], buffer)]
  BY <1>1 DEF MatchesIn
<1>4. /\ at \in Seq(W) /\ Len(at) \in Nat /\ DOMAIN at = 1..Len(at)
      /\ (\A a, b \in 1..Len(at) : a < b <=> at[a] < at[b])
      /\ \A i \in W : \E n \in 1..Len(at) : at[n] = i
  BY <1>1 DEF GoesThrough
<1>5. \A n \in 1..Len(at) : at[n] \in W
  BY ONLY <1>4
<1> HIDE DEF found
<1>6. DOMAIN found = 1..Len(at) /\ Len(found) = Len(at)
  BY <1>3, <1>4
<1>7. \A n \in 1..Len(at) : found[n].index = k /\ found[n].start = at[n] /\ found[n].span = span.span
  BY <1>3, <1>4 DEF MatchRecord
<1>8. \A n \in 1..Len(at) : At(found, n) = <<k, at[n]>>
  BY <1>7 DEF At
<1>9. \A n \in 1..Len(at) : At(found, n) \in places
  BY <1>2, <1>5, <1>8
<1>10. \A q \in places : \E n \in 1..Len(at) : At(found, n) = q
  <2> TAKE q \in places
  <2>1. PICK i \in W : q = <<k, i>>
    BY <1>2
  <2>2. PICK n \in 1..Len(at) : at[n] = i
    BY <1>4
  <2> QED BY <1>8, <2>1, <2>2
<1>11. \A a, b \in 1..Len(at) : a < b <=> Before(At(found, a), At(found, b))
  <2> TAKE a, b \in 1..Len(at)
  <2>1. Before(<<k, at[a]>>, <<k, at[b]>>) <=> at[a] < at[b]
    BY DEF Before
  <2> QED BY <1>4, <1>8, <2>1
<1>12. places \in SUBSET (Nat \X Nat)
  BY <1>1, <1>2
<1>13. Finds(found, places)
  BY <1>4, <1>6, <1>9, <1>10, <1>11, <1>12 DEF Finds
<1> QED BY <1>6, <1>7, <1>13 DEF found, places

(* A span more. *)
LEMMA FindsFurther ==
  ASSUME NEW R, NEW some \in Seq(R), NEW more \in Seq(R), NEW P, NEW Q,
         Finds(some, P), Finds(more, Q),
         \A p \in P, q \in Q : p[1] < q[1]
  PROVE  Finds(some \o more, P \cup Q)
<1> DEFINE all == some \o more
           m == Len(some)
           n == Len(more)
<1>1. /\ m \in Nat /\ n \in Nat /\ Len(all) = m + n /\ DOMAIN all = 1..(m + n)
      /\ \A k \in 1..m : all[k] = some[k]
      /\ \A k \in (m + 1)..(m + n) : all[k] = more[k - m]
  OBVIOUS
<1>2. /\ P \in SUBSET (Nat \X Nat) /\ Q \in SUBSET (Nat \X Nat)
      /\ (\A k \in 1..m : At(some, k) \in P) /\ (\A k \in 1..n : At(more, k) \in Q)
      /\ (\A q \in P : \E k \in 1..m : At(some, k) = q)
      /\ (\A q \in Q : \E k \in 1..n : At(more, k) = q)
      /\ (\A a, b \in 1..m : a < b <=> Before(At(some, a), At(some, b)))
      /\ \A a, b \in 1..n : a < b <=> Before(At(more, a), At(more, b))
  BY DEF Finds
<1> HIDE DEF all, m, n
<1>3. \A k \in 1..m : At(all, k) = At(some, k)
  BY <1>1 DEF At
<1>4. \A k \in (m + 1)..(m + n) : k - m \in 1..n /\ At(all, k) = At(more, k - m)
  BY <1>1 DEF At
<1>5. \A k \in 1..(m + n) : k \in 1..m \/ k \in (m + 1)..(m + n)
  BY <1>1
<1>6. \A k \in 1..(m + n) : At(all, k) \in P \cup Q
  BY <1>2, <1>3, <1>4, <1>5
<1>7. \A q \in P \cup Q : \E k \in 1..(m + n) : At(all, k) = q
  <2> TAKE q \in P \cup Q
  <2>1. CASE q \in P
    <3>1. PICK k \in 1..m : At(some, k) = q
      BY <1>2, <2>1
    <3>2. k \in 1..(m + n)
      BY <1>1
    <3> QED BY <1>3, <3>1, <3>2
  <2>2. CASE q \in Q
    <3>1. PICK k \in 1..n : At(more, k) = q
      BY <1>2, <2>2
    <3> DEFINE j == k + m
    <3>2. j \in (m + 1)..(m + n) /\ j \in 1..(m + n) /\ j - m = k
      BY <1>1
    <3> HIDE DEF j
    <3> QED BY <1>4, <3>1, <3>2
  <2> QED BY <2>1, <2>2
<1>8. \A p \in P, q \in Q : Before(p, q) /\ ~Before(q, p)
  <2> TAKE p \in P, q \in Q
  <2>1. p \in Nat \X Nat /\ q \in Nat \X Nat
    BY <1>2
  <2>2. p[1] < q[1] /\ p[1] \in Nat /\ q[1] \in Nat
    BY <2>1
  <2> QED BY <2>2 DEF Before
<1>9. \A a, b \in 1..(m + n) : a < b <=> Before(At(all, a), At(all, b))
  <2> TAKE a, b \in 1..(m + n)
  <2>1. CASE a \in 1..m /\ b \in 1..m
    BY <1>2, <1>3, <2>1
  <2>2. CASE a \in 1..m /\ b \in (m + 1)..(m + n)
    <3>1. Before(At(all, a), At(all, b))
      BY <1>2, <1>3, <1>4, <1>8, <2>2
    <3> QED BY <1>1, <2>2, <3>1
  <2>3. CASE a \in (m + 1)..(m + n) /\ b \in 1..m
    <3>1. ~Before(At(all, a), At(all, b))
      BY <1>2, <1>3, <1>4, <1>8, <2>3
    <3> QED BY <1>1, <2>3, <3>1
  <2>4. CASE a \in (m + 1)..(m + n) /\ b \in (m + 1)..(m + n)
    <3>1. a - m < b - m <=> Before(At(all, a), At(all, b))
      BY <1>2, <1>4, <2>4
    <3> QED BY <1>1, <2>4, <3>1
  <2> QED BY <1>5, <2>1, <2>2, <2>3, <2>4
<1>10. P \cup Q \in SUBSET (Nat \X Nat)
  BY <1>2
<1>11. Finds(all, P \cup Q)
  BY <1>1, <1>6, <1>7, <1>9, <1>10 DEF Finds
<1> QED BY <1>11 DEF all

FoundIn(spans, c, p, buffer) == FlattenSeq([k \in 1..c |-> MatchesIn(spans[k], k, p, buffer)])

StandingInAll(spans, c, p) == UNION {StandingIn(spans[k], k, p) : k \in 1..c}

LEMMA TraceIsSearched ==
  ASSUME NEW c \in Nat \ {0}, NEW spans,
         \A k \in 1..c : spans[k].attributes \in Attributes(Words), NEW p, NEW buffer
  PROVE  /\ Finds(FoundIn(spans, c, p, buffer), StandingInAll(spans, c, p))
         /\ \A n \in DOMAIN FoundIn(spans, c, p, buffer) :
              FoundIn(spans, c, p, buffer)[n].span
                = spans[FoundIn(spans, c, p, buffer)[n].index].span
<1> DEFINE found == FoundIn(spans, c, p, buffer)
           blocks == [k \in 1..c |-> MatchesIn(spans[k], k, p, buffer)]
           S(k) == StandingIn(spans[k], k, p)
           U(m) == UNION {S(k) : k \in 1..m}
           R == UNION {{blocks[k][n] : n \in DOMAIN blocks[k]} : k \in 1..c}
<1>0. \A k \in 1..c : blocks[k] = [n \in DOMAIN blocks[k] |-> blocks[k][n]]
  BY DEF MatchesIn
<1>1. \A k \in 1..c : /\ Finds(blocks[k], S(k))
                      /\ \A n \in DOMAIN blocks[k] : /\ blocks[k][n].index = k
                                                     /\ blocks[k][n].span = spans[k].span
  <2> TAKE k \in 1..c
  <2>1. k \in Nat /\ blocks[k] = MatchesIn(spans[k], k, p, buffer)
    OBVIOUS
  <2> HIDE DEF blocks
  <2> QED BY <2>1, SpanIsSearched
<1>2. Len(blocks) = c /\ DOMAIN blocks = 1..c
  OBVIOUS
<1>3. \A k \in 1..c : \A q \in S(k) : q[1] = k
  BY DEF StandingIn
<1> HIDE DEF S, blocks
<1>4. \A k \in 1..c : blocks[k] \in Seq(R)
  <2> TAKE k \in 1..c
  <2>1. Len(blocks[k]) \in Nat /\ DOMAIN blocks[k] = 1..Len(blocks[k])
    BY <1>1 DEF Finds
  <2>2. \A n \in 1..Len(blocks[k]) : blocks[k][n] \in R
    BY <2>1
  <2> HIDE DEF R
  <2>3. blocks[k] = [n \in 1..Len(blocks[k]) |-> blocks[k][n]]
    BY <1>0, <2>1
  <2> QED BY <2>1, <2>2, <2>3
<1>5. \A r \in R : r.span = spans[r.index].span
  <2> TAKE r \in R
  <2>1. PICK k \in 1..c : \E n \in DOMAIN blocks[k] : r = blocks[k][n]
    OBVIOUS
  <2>2. r.index = k /\ r.span = spans[k].span
    BY <1>1, <2>1
  <2> QED BY <2>2
<1> HIDE DEF R, found
<1>6. PICK f : /\ f[1] = blocks[1]
               /\ \A k \in 1..c : k # 1 => f[k] = f[k - 1] \o blocks[k]
               /\ found = f[c]
  <2>1. found = FlattenSeq(blocks)
    BY DEF blocks, found, FoundIn
  <2>2. Len(blocks) \in Nat /\ Len(blocks) # 0
    BY <1>2
  <2>3. \E f : /\ f[1] = blocks[1]
               /\ \A k \in 1..Len(blocks) : k # 1 => f[k] = f[k - 1] \o blocks[k]
               /\ FlattenSeq(blocks) = f[Len(blocks)]
    BY <2>2, FlattenGoesOn
  <2> QED BY <1>2, <2>1, <2>3
<1> DEFINE Done == {m \in Nat : m + 1 <= c => f[m + 1] \in Seq(R) /\ Finds(f[m + 1], U(m + 1))}
<1>7. 0 \in Done
  <2>1. U(1) = S(1)
    OBVIOUS
  <2>2. 1 \in 1..c
    OBVIOUS
  <2>3. f[1] \in Seq(R) /\ Finds(f[1], U(1))
    BY <1>1, <1>4, <1>6, <2>1, <2>2
  <2> QED BY <2>3
<1>8. ASSUME NEW m \in Nat, m \in Done PROVE m + 1 \in Done
  <2> DEFINE k == m + 1
             l == k + 1
  <2>1. k \in Nat /\ l \in Nat /\ k = l - 1 /\ k < l /\ k >= 1 /\ l = m + 1 + 1
    OBVIOUS
  <2>2. SUFFICES ASSUME l <= c PROVE f[l] \in Seq(R) /\ Finds(f[l], U(l))
    BY <2>1
  <2>3. f[k] \in Seq(R) /\ Finds(f[k], U(k))
    BY <1>8, <2>1, <2>2
  <2> HIDE DEF k, l, Done
  <2>4. l \in 1..c /\ l # 1
    BY <2>1, <2>2
  <2>5. f[l] = f[k] \o blocks[l]
    BY <1>6, <2>1, <2>4
  <2>6. blocks[l] \in Seq(R) /\ Finds(blocks[l], S(l))
    BY <1>1, <1>4, <2>4
  <2>7. \A q \in U(k) : q[1] < l
    <3> TAKE q \in U(k)
    <3>1. PICK j \in 1..k : q \in S(j)
      OBVIOUS
    <3>2. j \in 1..c /\ j < l
      BY <2>1, <2>4
    <3> QED BY <1>3, <3>1, <3>2
  <2>8. \A q \in U(k), r \in S(l) : q[1] < r[1]
    BY <1>3, <2>4, <2>7
  <2>9. U(l) = U(k) \cup S(l)
    <3>1. \A j : j \in 1..l <=> j \in 1..k \/ j = l
      BY <2>1
    <3> QED BY <3>1
  <2> HIDE DEF U
  <2>10. Finds(f[k] \o blocks[l], U(k) \cup S(l))
    BY <2>3, <2>6, <2>8, FindsFurther
  <2>11. f[k] \o blocks[l] \in Seq(R)
    BY <2>3, <2>6
  <2> QED BY <2>5, <2>9, <2>10, <2>11
<1> HIDE DEF Done
<1>9. \A m \in Nat : m \in Done
  BY <1>7, <1>8, Counting
<1> DEFINE e == c - 1
<1>10. e \in Nat /\ e + 1 = c /\ c <= c
  OBVIOUS
<1> HIDE DEF e
<1>11. f[c] \in Seq(R) /\ Finds(f[c], U(c))
  BY <1>9, <1>10 DEF Done
<1>12. \A n \in DOMAIN found : found[n] \in R
  BY <1>6, <1>11 DEF found
<1>13. U(c) = StandingInAll(spans, c, p)
  BY DEF StandingInAll, S
<1> HIDE DEF U
<1> QED BY <1>5, <1>6, <1>11, <1>12, <1>13 DEF found

(* What a search answers. *)
LEMMA ResultShowsFirst ==
  ASSUME NEW found, NEW places, NEW spans, Finds(found, places),
         \A n \in DOMAIN found : found[n].span = spans[found[n].index].span,
         NEW max \in Nat
  PROVE  ShowsFirst(SearchResult(found, max), places, spans, max)
<1> DEFINE result == SearchResult(found, max)
           m == Len(found)
           least == Min({max, m})
           shown == SubSeq(found, 1, least)
<1>1. m \in Nat /\ DOMAIN found = 1..m
  BY DEF Finds
<1>2. /\ Cardinality(places) = m
      /\ \A n \in 1..m : Cardinality({q \in places : q[1] < At(found, n)[1]
                             \/ (q[1] = At(found, n)[1] /\ q[2] <= At(found, n)[2])}) = n
  BY FoundAreCounted
<1>3. \A n \in 1..m : At(found, n) \in places
  BY DEF Finds
<1> HIDE DEF m
<1>4. least = (IF max <= m THEN max ELSE m) /\ least = Min({m, max})
  <2>1. {max, m} = {m, max}
    OBVIOUS
  <2>2. Min({max, m}) = IF max <= m THEN max ELSE m
    BY <1>1, LesserOfTwo
  <2> QED BY <2>1, <2>2
<1> HIDE DEF least
<1>5. least \in Nat /\ least <= m /\ (m > least <=> m > max)
  BY <1>1, <1>4
<1>6. Len(shown) = least /\ DOMAIN shown = 1..least /\ \A n \in 1..least : shown[n] = found[n]
  BY <1>5
<1> HIDE DEF shown
<1>7. result = [count |-> m, more |-> m > Len(shown), matches |-> shown]
  BY DEF SearchResult, m, least, shown
<1>8. result.count = m /\ (result.more <=> m > max) /\ result.matches = shown
  <2>1. result.count = m /\ result.matches = shown
    BY <1>7
  <2>2. result.more = (m > Len(shown))
    BY <1>7
  <2> QED BY <1>5, <1>6, <2>1, <2>2
<1> HIDE DEF result
<1>9. \A n \in 1..least : n \in 1..m
  BY <1>1, <1>5
<1>10. \A n \in 1..least : <<result.matches[n].index, result.matches[n].start>> = At(found, n)
  BY <1>6, <1>8 DEF At
<1>11. \A n \in 1..least : result.matches[n].span = spans[result.matches[n].index].span
  BY <1>1, <1>6, <1>8, <1>9
<1> QED BY <1>2, <1>3, <1>4, <1>6, <1>8, <1>9, <1>10, <1>11 DEF ShowsFirst, result

LEMMA SearchesMatchTheFile ==
  ASSUME NEW lines \in Seq(Lines), NEW n \in 0..Len(lines), NEW all, NEW file,
         file = SubSeq(lines, 1, n), RowsTell(all, file)
  PROVE  SearchesMatch(all, file, lines)
<1> SUFFICES ASSUME NEW r \in DOMAIN all, NEW p \in Words, NEW max \in 1..MaxAsked
             PROVE  LET spans == Those(file, PlacesOf(file, {all[r].trace}))
                        Standing(k) == {<<k, i>> : i \in {j \in DOMAIN RawText(spans[k]) :
                                                            RawText(spans[k])[j] = p}}
                        places == UNION {Standing(k) : k \in DOMAIN spans}
                    IN  /\ ShowsFirst(SearchTrace(all[r], p, 1, max, lines), places, spans, max)
                        /\ \A k \in DOMAIN spans :
                             (\A i \in 1..(k - 1) : spans[i].span # spans[k].span) =>
                               ShowsFirst(SearchSpan(all[r], spans[k].span, p, 1, max, lines),
                                          Standing(k), spans, max)
                        /\ RowHasContentMatch(all[r], p, lines) <=> places # {}
  BY DEF SearchesMatch
<1> DEFINE row == all[r]
           P == PlacesOf(file, {row.trace})
           spans == Those(file, P)
           c == Cardinality(P)
           S(k) == {<<k, i>> : i \in {j \in DOMAIN RawText(spans[k]) : RawText(spans[k])[j] = p}}
           places == UNION {S(k) : k \in DOMAIN spans}
<1>1. row.offsets = InOrder(P) /\ P # {}
  BY DEF RowsTell, TellsOf
<1>2. max \in Nat
  BY TraceQueriesAssumption
<1> HIDE DEF row
<1>3. BlobsTold(lines, n, file, row, P)
  BY <1>1, BlobsAre
<1> HIDE DEF c
<1>4. /\ Blobs(row, lines) = spans /\ c \in Nat /\ DOMAIN InOrder(P) = 1..c
      /\ \A k \in 1..c : spans[k].attributes \in Attributes(Words)
  BY <1>3 DEF BlobsTold, c
<1>5. DOMAIN row.offsets = 1..c
  BY <1>1, <1>4
<1>6. DOMAIN spans = 1..c
  BY <1>4 DEF Those
<1>7. c \in Nat \ {0}
  <2>1. Bounded(P)
    <3>1. n \in Nat
      OBVIOUS
    <3>2. P \in SUBSET (1..n)
      BY <1>3 DEF BlobsTold
    <3> QED BY <3>1, <3>2 DEF Bounded
  <2>2. IsFiniteSet(P)
    BY <2>1, BoundedGoes
  <2> HIDE DEF P
  <2>3. c # 0
    BY <1>1, <2>2, FS_EmptySet DEF c
  <2> QED BY <1>4, <2>3
<1> HIDE DEF P, spans
<1>11. \A k : S(k) = StandingIn(spans[k], k, p)
  BY DEF StandingIn, WordsAt
<1> HIDE DEF S
<1>8. ShowsFirst(SearchTrace(row, p, 1, max, lines), places, spans, max)
  <2> DEFINE found == FoundIn(spans, c, p, 1)
  <2>1. SearchTrace(row, p, 1, max, lines) = SearchResult(found, max)
    BY <1>4, <1>5 DEF SearchTrace, FoundIn
  <2>2. places = StandingInAll(spans, c, p)
    BY <1>6, <1>11 DEF StandingInAll
  <2> HIDE DEF places
  <2>3. Finds(found, places) /\ \A i \in DOMAIN found : found[i].span = spans[found[i].index].span
    BY <1>4, <1>7, <2>2, TraceIsSearched
  <2> HIDE DEF found
  <2>4. ShowsFirst(SearchResult(found, max), places, spans, max)
    BY <1>2, <2>3, ResultShowsFirst
  <2> QED BY <2>1, <2>4
<1>9. ASSUME NEW k \in DOMAIN spans, \A i \in 1..(k - 1) : spans[i].span # spans[k].span
      PROVE  ShowsFirst(SearchSpan(row, spans[k].span, p, 1, max, lines), S(k), spans, max)
  <2> DEFINE named == {i \in DOMAIN row.offsets : Blobs(row, lines)[i].span = spans[k].span}
             found == MatchesIn(spans[k], k, p, 1)
  <2>1. k \in 1..c /\ k \in Nat
    BY <1>4, <1>6
  <2>2. k \in named
    BY <1>4, <1>5, <2>1
  <2>3. \A i \in named : i \in Nat /\ k <= i
    <3> TAKE i \in named
    <3>1. i \in 1..c /\ spans[i].span = spans[k].span
      BY <1>4, <1>5
    <3>2. i \notin 1..(k - 1)
      BY <1>9, <3>1
    <3> QED BY <1>4, <2>1, <3>1, <3>2
  <2> HIDE DEF named
  <2>4. Min(named) = k
    <3>1. k \in named /\ \A j \in named : k <= j
      BY <2>2, <2>3
    <3>2. \A z \in named : (\A j \in named : z <= j) => z = k
      BY <2>1, <2>2, <2>3
    <3> QED BY <3>1, <3>2 DEF Min
  <2>5. SearchSpan(row, spans[k].span, p, 1, max, lines) = SearchResult(found, max)
    BY <1>4, <2>4 DEF SearchSpan, named
  <2>6. /\ Finds(found, S(k))
        /\ \A i \in DOMAIN found : found[i].index = k /\ found[i].span = spans[k].span
    BY <1>4, <1>11, <2>1, SpanIsSearched
  <2> HIDE DEF found
  <2>7. ShowsFirst(SearchResult(found, max), S(k), spans, max)
    BY <1>2, <2>6, ResultShowsFirst
  <2> QED BY <2>5, <2>7
<1>10. RowHasContentMatch(row, p, lines) <=> places # {}
  <2>1. \A k \in 1..c : Occurrences(p, RawText(spans[k])) # <<>> <=> S(k) # {}
    <3> TAKE k \in 1..c
    <3> DEFINE W == WordsAt(spans[k], p)
               at == InOrder(W)
    <3>1. Occurrences(p, RawText(spans[k])) = at /\ GoesThrough(at, W)
      BY <1>4, WordsAreFound
    <3>2. S(k) = {<<k, i>> : i \in W}
      BY <1>11 DEF StandingIn
    <3> HIDE DEF W, at
    <3>3. S(k) # {} <=> W # {}
      BY <3>2
    <3>4. at \in Seq(W) /\ \A i \in W : \E j \in 1..Len(at) : at[j] = i
      BY <3>1 DEF GoesThrough
    <3>5. W = {} => at = <<>>
      BY <3>4
    <3>6. at = <<>> => W = {}
      BY <3>4
    <3> QED BY <3>1, <3>3, <3>5, <3>6
  <2>2. RowHasContentMatch(row, p, lines)
          <=> \E k \in 1..c : Occurrences(p, RawText(spans[k])) # <<>>
    BY <1>4, <1>5 DEF RowHasContentMatch
  <2>3. places # {} <=> \E k \in 1..c : S(k) # {}
    BY <1>6
  <2> QED BY <2>1, <2>2, <2>3
<1> QED BY <1>8, <1>9, <1>10 DEF row, spans, P, S

(* SearchesMatchTrace: a search counts every place where the word stands   *)
(* and shows the first of them, a search of one span shows what the search *)
(* of the trace has for it, and the regex filter keeps what a search finds.*)
THEOREM SearchesMatchWhatIsThere ==
  ASSUME Alone
  PROVE  Spec => []SearchesMatchTrace
<1>1. IndexTypeOK /\ StoreServesTheTrace => SearchesMatchTrace
  <2> SUFFICES ASSUME IndexTypeOK, StoreServesTheTrace, NEW b \in Builders, Serves(b)
               PROVE  \E file \in FilesSeen(b) : SearchesMatch(store[b], file, trace.lines)
    BY DEF SearchesMatchTrace
  <2>1. trace.lines \in Seq(Lines)
    BY RowsOfAFile
  <2>2. PICK n \in 0..Len(trace.lines) :
          /\ SubSeq(trace.lines, 1, n) \in FilesSeen(b)
          /\ RowsTell(store[b], SubSeq(trace.lines, 1, n))
    BY RowsOfAFile
  <2>3. SearchesMatch(store[b], SubSeq(trace.lines, 1, n), trace.lines)
    BY <2>1, <2>2, SearchesMatchTheFile
  <2> QED BY <2>2, <2>3
<1> QED
  BY <1>1, IndexTypes, StoreServes, PTL

-----------------------------------------------------------------------------
(* Totals.                                                                 *)

LEMMA TotalOfBoth ==
  ASSUME NEW a \in Seq(Nat), NEW b \in Seq(Nat), NEW c \in Seq(Nat),
         Len(b) = Len(a), Len(c) = Len(a),
         \A i \in 1..Len(a) : c[i] = a[i] + b[i]
  PROVE  Total(c) = Total(a) + Total(b)
<1> DEFINE m == Len(a)
           A(k) == Sums(a)[k]
           B(k) == Sums(b)[k]
           C(k) == Sums(c)[k]
           Done == {k \in Nat : k <= m => C(k) = A(k) + B(k)}
<1>1. /\ A(0) = 0 /\ B(0) = 0 /\ C(0) = 0
      /\ \A k \in 1..m : /\ A(k) = A(k - 1) + a[k] /\ B(k) = B(k - 1) + b[k]
                         /\ C(k) = C(k - 1) + c[k]
  BY SumsGoOn
<1>2. /\ \A k \in 0..m : A(k) \in Nat /\ B(k) \in Nat
      /\ \A k \in 1..m : a[k] \in Nat /\ b[k] \in Nat /\ c[k] = a[k] + b[k]
  BY SumsTyped, SMTT(30)
<1>3. m \in Nat
  OBVIOUS
<1>4. Total(a) = A(m) /\ Total(b) = B(m) /\ Total(c) = C(m)
  BY DEF Total
<1> HIDE DEF m, A, B, C
<1>5. 0 \in Done
  BY <1>1
<1>6. ASSUME NEW k \in Nat, k \in Done PROVE k + 1 \in Done
  <2> DEFINE e == k + 1
  <2>1. e \in Nat /\ e - 1 = k /\ k <= e /\ e >= 1
    OBVIOUS
  <2> HIDE DEF e
  <2>2. ASSUME e <= m PROVE C(e) = A(e) + B(e)
    <3>1. e \in 1..m /\ k \in 0..m /\ k <= m
      BY <1>3, <2>1, <2>2
    <3>2. C(k) = A(k) + B(k)
      BY <1>6, <3>1
    <3>3. A(e) = A(k) + a[e] /\ B(e) = B(k) + b[e] /\ C(e) = C(k) + c[e] /\ c[e] = a[e] + b[e]
      BY <1>1, <1>2, <2>1, <3>1
    <3>4. A(k) \in Nat /\ B(k) \in Nat /\ a[e] \in Nat /\ b[e] \in Nat
      BY <1>2, <3>1
    <3>5. \A p, q, x, y \in Nat : (p + q) + (x + y) = (p + x) + (q + y)
      OBVIOUS
    <3>6. (A(k) + B(k)) + (a[e] + b[e]) = (A(k) + a[e]) + (B(k) + b[e])
      BY ONLY <3>4, <3>5, SMTT(30)
    <3>7. C(e) = (A(k) + B(k)) + (a[e] + b[e])
      BY ONLY <3>2, <3>3
    <3> QED BY ONLY <3>3, <3>6, <3>7
  <2> QED BY <2>1, <2>2 DEF e
<1> HIDE DEF Done
<1>7. m \in Done
  BY <1>3, <1>5, <1>6, Counting
<1> QED BY <1>3, <1>4, <1>7 DEF Done

(* A sum with no more than one number in it. *)
LEMMA TotalOfOne ==
  ASSUME NEW a \in Seq(Nat), NEW i \in 1..Len(a), \A k \in 1..Len(a) : k # i => a[k] = 0
  PROVE  Total(a) = a[i]
<1> DEFINE m == Len(a)
           A(k) == Sums(a)[k]
           x == a[i]
           Done == {k \in Nat : k <= m => A(k) = IF k < i THEN 0 ELSE x}
<1>1. A(0) = 0 /\ \A k \in 1..m : A(k) = A(k - 1) + a[k]
  BY SumsGoOn
<1>2. m \in Nat /\ i \in 1..m /\ x \in Nat /\ \A k \in 1..m : a[k] = IF k = i THEN x ELSE 0
  OBVIOUS
<1>3. Total(a) = A(m)
  BY DEF Total
<1> HIDE DEF m, A, x
<1>4. 0 \in Done
  BY <1>1, <1>2
<1>5. ASSUME NEW k \in Nat, k \in Done PROVE k + 1 \in Done
  <2> DEFINE e == k + 1
  <2>1. e \in Nat /\ e - 1 = k /\ k < e /\ e >= 1 /\ (k < i <=> e < i \/ e = i)
    BY <1>2
  <2> HIDE DEF e
  <2>2. ASSUME e <= m PROVE A(e) = IF e < i THEN 0 ELSE x
    <3>1. e \in 1..m /\ k <= m
      BY <1>2, <2>1, <2>2
    <3>2. A(k) = IF k < i THEN 0 ELSE x
      BY <1>5, <3>1
    <3>3. A(e) = A(k) + a[e] /\ a[e] = IF e = i THEN x ELSE 0
      BY <1>1, <1>2, <2>1, <3>1
    <3>4. CASE e < i
      BY <1>2, <2>1, <3>2, <3>3, <3>4
    <3>5. CASE e = i
      BY <1>2, <2>1, <3>2, <3>3, <3>5
    <3>6. CASE ~(e < i) /\ e # i
      BY <1>2, <2>1, <3>2, <3>3, <3>6
    <3> QED BY <3>4, <3>5, <3>6
  <2> QED BY <2>1, <2>2 DEF e
<1> HIDE DEF Done
<1>6. m \in Done
  BY <1>2, <1>4, <1>5, Counting
<1>7. m <= m /\ ~(m < i)
  BY <1>2
<1> QED BY <1>3, <1>6, <1>7 DEF Done, x

LEMMA TotalOfNothing ==
  ASSUME NEW a \in Seq(Nat), \A k \in 1..Len(a) : a[k] = 0
  PROVE  Total(a) = 0
<1>1. CASE Len(a) = 0
  BY <1>1, TotalTyped
<1>2. CASE Len(a) # 0
  <2>1. 1 \in 1..Len(a) /\ a[1] = 0
    BY <1>2
  <2> QED BY <2>1, TotalOfOne
<1> QED BY <1>1, <1>2

(* What is at some places, summed. *)
Padded(w, m, P) == [i \in 1..m |-> IF i \in P THEN w[i] ELSE 0]

Weights(w, m) == \A i \in 1..m : w[i] \in Nat

LEMMA PaddedTyped ==
  ASSUME NEW m \in Nat, NEW w, Weights(w, m), NEW P
  PROVE  /\ Padded(w, m, P) \in Seq(Nat) /\ Len(Padded(w, m, P)) = m
         /\ \A i \in 1..m : Padded(w, m, P)[i] = IF i \in P THEN w[i] ELSE 0
BY DEF Padded, Weights

LEMMA PartsAddUp ==
  ASSUME NEW m \in Nat, NEW w, Weights(w, m), NEW P, NEW Q, P \cap Q = {}
  PROVE  Total(Padded(w, m, P \cup Q)) = Total(Padded(w, m, P)) + Total(Padded(w, m, Q))
<1> DEFINE a == Padded(w, m, P)
           b == Padded(w, m, Q)
           c == Padded(w, m, P \cup Q)
<1>1. /\ a \in Seq(Nat) /\ Len(a) = m /\ b \in Seq(Nat) /\ Len(b) = m
      /\ c \in Seq(Nat) /\ Len(c) = m
      /\ \A i \in 1..m : /\ a[i] = IF i \in P THEN w[i] ELSE 0
                         /\ b[i] = IF i \in Q THEN w[i] ELSE 0
                         /\ c[i] = IF i \in P \cup Q THEN w[i] ELSE 0
  BY PaddedTyped
<1> HIDE DEF a, b, c
<1>2. \A i \in 1..m : c[i] = a[i] + b[i]
  <2> TAKE i \in 1..m
  <2>1. w[i] \in Nat /\ ~(i \in P /\ i \in Q)
    BY DEF Weights
  <2> QED BY <1>1, <2>1
<1>3. Total(c) = Total(a) + Total(b)
  <2>1. Len(b) = Len(a) /\ Len(c) = Len(a) /\ \A i \in 1..Len(a) : c[i] = a[i] + b[i]
    BY <1>1, <1>2
  <2> QED BY <1>1, <2>1, TotalOfBoth
<1> QED BY <1>3 DEF a, b, c

(* The parts of P, none of which meets another. *)
AreParts(parts, c, P) ==
  /\ \A k, l \in 1..c : k # l => parts[k] \cap parts[l] = {}
  /\ \A i : i \in P <=> \E k \in 1..c : i \in parts[k]

LEMMA ManyPartsAddUp ==
  ASSUME NEW m \in Nat, NEW w, Weights(w, m), NEW numbers \in Seq(Nat), NEW parts,
         \A k \in 1..Len(numbers) : numbers[k] = Total(Padded(w, m, parts[k])),
         NEW P, AreParts(parts, Len(numbers), P)
  PROVE  Total(numbers) = Total(Padded(w, m, P))
<1> DEFINE c == Len(numbers)
           A(k) == Sums(numbers)[k]
           U(k) == UNION {parts[j] : j \in 1..k}
           Done == {k \in Nat : k <= c => A(k) = Total(Padded(w, m, U(k)))}
<1>1. A(0) = 0 /\ \A k \in 1..c : A(k) = A(k - 1) + numbers[k]
  BY SumsGoOn
<1>2. c \in Nat
  OBVIOUS
<1>3. Total(numbers) = A(c)
  BY DEF Total
<1>4. U(c) = P
  BY DEF AreParts
<1> HIDE DEF c, A
<1>5. 0 \in Done
  <2>1. U(0) = {}
    OBVIOUS
  <2> DEFINE none == Padded(w, m, {})
  <2>2. none \in Seq(Nat) /\ Len(none) = m /\ \A i \in 1..m : none[i] = 0
    BY PaddedTyped
  <2> HIDE DEF none
  <2>3. Total(none) = 0
    BY <2>2, TotalOfNothing
  <2> QED BY <1>1, <2>1, <2>3 DEF none
<1>6. ASSUME NEW k \in Nat, k \in Done PROVE k + 1 \in Done
  <2> DEFINE e == k + 1
  <2>1. e \in Nat /\ e - 1 = k /\ k < e /\ e >= 1
    OBVIOUS
  <2> HIDE DEF e
  <2>2. ASSUME e <= c PROVE A(e) = Total(Padded(w, m, U(e)))
    <3>1. e \in 1..c /\ k <= c
      BY <1>2, <2>1, <2>2
    <3>2. A(k) = Total(Padded(w, m, U(k)))
      BY <1>6, <3>1
    <3>3. A(e) = A(k) + Total(Padded(w, m, parts[e]))
      BY <1>1, <2>1, <3>1 DEF c
    <3>4. U(e) = U(k) \cup parts[e]
      <4>1. \A j : j \in 1..e <=> j \in 1..k \/ j = e
        BY <2>1 DEF e
      <4> QED BY <4>1
    <3>5. U(k) \cap parts[e] = {}
      <4>1. \A j \in 1..k : j \in 1..c /\ j # e
        BY <1>2, <2>1, <3>1
      <4>2. \A j \in 1..k : parts[j] \cap parts[e] = {}
        BY <3>1, <4>1 DEF c, AreParts
      <4> QED BY <4>2
    <3> HIDE DEF U
    <3> QED BY <3>2, <3>3, <3>4, <3>5, PartsAddUp
  <2> QED BY <2>1, <2>2 DEF e
<1> HIDE DEF Done
<1>7. c \in Done
  BY <1>2, <1>5, <1>6, Counting
<1>8. c <= c
  BY <1>2
<1> QED BY <1>3, <1>4, <1>7, <1>8 DEF Done

Ones(m) == [i \in 1..m |-> 1]

LEMMA PlacesAddUp ==
  ASSUME NEW m \in Nat, NEW P \in SUBSET (1..m)
  PROVE  Weights(Ones(m), m) /\ Total(Padded(Ones(m), m, P)) = Cardinality(P)
<1> DEFINE a == Padded(Ones(m), m, P)
           A(k) == Sums(a)[k]
           Early(k) == P \cap (1..k)
           Done == {k \in Nat : k <= m => IsFiniteSet(Early(k)) /\ A(k) = Cardinality(Early(k))}
<1>1. Weights(Ones(m), m)
  BY DEF Weights, Ones
<1>2. /\ a \in Seq(Nat) /\ Len(a) = m
      /\ \A i \in 1..m : a[i] = IF i \in P THEN Ones(m)[i] ELSE 0
  BY <1>1, PaddedTyped
<1> HIDE DEF a
<1>3. A(0) = 0 /\ \A k \in 1..m : A(k) = A(k - 1) + a[k]
  BY <1>2, SumsGoOn
<1>4. Total(a) = A(m)
  BY <1>2 DEF Total
<1> HIDE DEF Done
<1>5. Early(0) = {} /\ Early(m) = P
  <2>1. Early(0) = {}
    OBVIOUS
  <2>2. \A i : i \in P => i \in 1..m
    OBVIOUS
  <2>3. Early(m) = P
    BY ONLY <2>2
  <2> QED BY <2>1, <2>3
<1>6. \A k \in 0..m : A(k) \in Nat
  BY <1>2, SumsTyped
<1> HIDE DEF A
<1>7. 0 \in Done
  BY <1>3, <1>5, FS_EmptySet DEF Done
<1>8. ASSUME NEW k \in Nat, k \in Done PROVE k + 1 \in Done
  <2> DEFINE e == k + 1
  <2>1. e \in Nat /\ e - 1 = k /\ k < e /\ e >= 1 /\ e = k + 1
    OBVIOUS
  <2> HIDE DEF e
  <2>2. ASSUME e <= m PROVE IsFiniteSet(Early(e)) /\ A(e) = Cardinality(Early(e))
    <3>1. e \in 1..m /\ k \in 0..m /\ k <= m
      BY <2>1, <2>2
    <3>2. IsFiniteSet(Early(k)) /\ A(k) = Cardinality(Early(k))
      BY <1>8, <3>1 DEF Done
    <3>3. A(e) = A(k) + a[e] /\ A(k) \in Nat
      BY <1>3, <1>6, <2>1, <3>1
    <3>4. CASE e \in P
      <4>1. Early(e) = Early(k) \cup {e} /\ e \notin Early(k)
        <5>1. \A i : i \in 1..e <=> i \in 1..k \/ i = e
          BY <2>1
        <5>2. e \notin 1..k
          BY <2>1
        <5> QED BY <3>4, <5>1, <5>2
      <4>2. a[e] = 1
        BY <1>2, <3>1, <3>4 DEF Ones
      <4> HIDE DEF Early
      <4>3. IsFiniteSet(Early(e)) /\ Cardinality(Early(e)) = Cardinality(Early(k)) + 1
        BY <3>2, <4>1, FS_AddElement
      <4> QED BY <3>2, <3>3, <4>2, <4>3
    <3>5. CASE e \notin P
      <4>1. Early(e) = Early(k)
        <5>1. \A i : i \in 1..e <=> i \in 1..k \/ i = e
          BY <2>1
        <5> QED BY <3>5, <5>1
      <4>2. a[e] = 0
        BY <1>2, <3>1, <3>5
      <4> HIDE DEF Early
      <4> QED BY <3>2, <3>3, <4>1, <4>2
    <3> QED BY <3>4, <3>5
  <2> QED BY <2>1, <2>2 DEF Done
<1>9. m \in Done
  BY <1>7, <1>8, Counting
<1>10. m <= m
  OBVIOUS
<1>11. A(m) = Cardinality(P)
  BY <1>5, <1>9, <1>10 DEF Done
<1> QED BY <1>1, <1>4, <1>11 DEF a

IsFunction(f) == f = [x \in DOMAIN f |-> f[x]]

(* The sum of what is at some places, gone through in order. *)
LEMMA InOrderAddsUp ==
  ASSUME NEW m \in Nat, NEW w, Weights(w, m), NEW P \in SUBSET (1..m), NEW numbers,
         DOMAIN numbers = 1..Cardinality(P), Len(numbers) = Cardinality(P),
         IsFunction(numbers),
         \A n \in 1..Cardinality(P) : numbers[n] = w[InOrder(P)[n]]
  PROVE  numbers \in Seq(Nat) /\ Total(numbers) = Total(Padded(w, m, P))
<1> DEFINE o == InOrder(P)
           c == Cardinality(P)
           parts == [n \in 1..c |-> {o[n]}]
<1>1. /\ o \in Seq(P) /\ Len(o) = c /\ c \in Nat
      /\ (\A a, b \in 1..c : a < b <=> o[a] < o[b])
      /\ \A i \in P : \E n \in 1..c : o[n] = i
  <2>1. GoesThrough(o, P) /\ Len(o) = c /\ c \in Nat
    BY InOrderGoes, PlacesAreFinite
  <2> QED BY <2>1 DEF GoesThrough
<1>2. \A n \in 1..c : numbers[n] = w[o[n]]
  OBVIOUS
<1> HIDE DEF o, c
<1>3. \A n \in 1..c : o[n] \in P /\ o[n] \in 1..m /\ w[o[n]] \in Nat
  <2>1. \A n \in 1..c : o[n] \in P
    BY ONLY <1>1
  <2> QED BY <2>1 DEF Weights
<1>4. numbers \in Seq(Nat) /\ Len(numbers) = c
  <2>1. \A n \in 1..c : numbers[n] \in Nat
    BY <1>2, <1>3
  <2> DEFINE same == [n \in 1..c |-> numbers[n]]
  <2>2. numbers = same
    BY DEF c, IsFunction
  <2>4. same \in Seq(Nat)
    <3>1. \A n \in 1..c : same[n] \in Nat
      BY <2>1
    <3>2. same \in [1..c -> Nat]
      BY <2>1
    <3>3. c \in Nat
      BY <1>1
    <3> QED BY ONLY <3>2, <3>3
  <2> HIDE DEF same
  <2>3. numbers \in Seq(Nat)
    BY <2>2, <2>4
  <2> QED BY <2>3 DEF c
<1>5. \A n \in 1..c : numbers[n] = Total(Padded(w, m, {o[n]}))
  <2> TAKE n \in 1..c
  <2> DEFINE i == o[n]
             a == Padded(w, m, {i})
  <2>1. i \in 1..m
    BY <1>3
  <2> HIDE DEF i
  <2>2. a \in Seq(Nat) /\ Len(a) = m /\ \A k \in 1..m : a[k] = IF k \in {i} THEN w[k] ELSE 0
    BY PaddedTyped
  <2> HIDE DEF a
  <2>3. Total(a) = a[i]
    BY <2>1, <2>2, TotalOfOne
  <2> QED BY <1>2, <2>1, <2>2, <2>3 DEF a, i
<1>6. \A n \in 1..c : parts[n] = {o[n]}
  OBVIOUS
<1> HIDE DEF parts
<1>7. \A k, l \in 1..c : k # l => parts[k] \cap parts[l] = {}
  <2> TAKE k, l \in 1..c
  <2> HAVE k # l
  <2>1. o[k] # o[l]
    <3>1. k < l \/ l < k
      BY <1>1
    <3>2. o[k] < o[l] \/ o[l] < o[k]
      BY <1>1, <3>1
    <3> QED BY <1>3, <3>2
  <2> QED BY <1>6, <2>1
<1>8. \A i : i \in P <=> \E k \in 1..c : i \in parts[k]
  <2>1. ASSUME NEW i \in P PROVE \E k \in 1..c : i \in parts[k]
    <3>1. PICK k \in 1..c : o[k] = i
      BY <1>1
    <3> QED BY <1>6, <3>1
  <2>2. ASSUME NEW k \in 1..c, NEW i \in parts[k] PROVE i \in P
    BY <1>3, <1>6
  <2> QED BY <2>1, <2>2
<1>9. Total(numbers) = Total(Padded(w, m, P))
  <2>1. \A k \in 1..Len(numbers) : numbers[k] = Total(Padded(w, m, parts[k]))
    BY <1>4, <1>5, <1>6
  <2>2. AreParts(parts, Len(numbers), P)
    BY <1>4, <1>7, <1>8 DEF AreParts
  <2> QED BY <1>4, <2>1, <2>2, ManyPartsAddUp
<1> QED BY <1>4, <1>9

-----------------------------------------------------------------------------
(* Filters.                                                                *)

(* What the file held at first, or the whole of it. *)
Starts(file, lines) == \E n \in 0..Len(lines) : file = SubSeq(lines, 1, n)

Stands(p, file, places) ==
  \E i \in places : \E w \in DOMAIN RawText(file[i]) : RawText(file[i])[w] = p

LEMMA WordIsThere ==
  ASSUME NEW lines \in Seq(Lines), NEW file, Starts(file, lines), NEW row,
         row.offsets = InOrder(PlacesOf(file, {row.trace})), NEW p
  PROVE  RowHasContentMatch(row, p, lines) <=> Stands(p, file, PlacesOf(file, {row.trace}))
<1> DEFINE P == PlacesOf(file, {row.trace})
           o == InOrder(P)
           c == Cardinality(P)
           spans == Those(file, P)
<1>0. PICK n \in 0..Len(lines) : file = SubSeq(lines, 1, n)
  BY DEF Starts
<1>1. BlobsTold(lines, n, file, row, P)
  BY <1>0, BlobsAre
<1>2. n \in Nat
  OBVIOUS
<1>3. row.offsets = o
  OBVIOUS
<1>4. /\ Blobs(row, lines) = spans /\ c \in Nat /\ DOMAIN o = 1..c /\ P \in SUBSET (1..n)
      /\ \A k \in 1..c : /\ o[k] \in P /\ spans[k] = file[o[k]]
                         /\ spans[k].attributes \in Attributes(Words)
  BY <1>1 DEF BlobsTold
<1> HIDE DEF P
<1>5. Bounded(P)
  BY <1>2, <1>4 DEF Bounded
<1>6. GoesThrough(o, P) /\ Len(o) = c
  BY <1>5, BoundedGoes
<1>7. \A i \in P : \E k \in 1..c : o[k] = i
  BY <1>6 DEF GoesThrough
<1> HIDE DEF o, c, spans
<1>8. \A k \in 1..c : Occurrences(p, RawText(spans[k])) # <<>> <=> WordsAt(spans[k], p) # {}
  <2> TAKE k \in 1..c
  <2> DEFINE W == WordsAt(spans[k], p)
             at == InOrder(W)
  <2>1. Occurrences(p, RawText(spans[k])) = at /\ GoesThrough(at, W)
    BY <1>4, WordsAreFound
  <2> HIDE DEF W, at
  <2>2. at \in Seq(W) /\ \A i \in W : \E j \in 1..Len(at) : at[j] = i
    BY <2>1 DEF GoesThrough
  <2>3. W = {} => at = <<>>
    BY <2>2
  <2>4. at = <<>> => W = {}
    BY <2>2
  <2> QED BY <2>1, <2>3, <2>4 DEF W
<1>9. RowHasContentMatch(row, p, lines)
        <=> \E k \in 1..c : Occurrences(p, RawText(spans[k])) # <<>>
  BY <1>3, <1>4 DEF RowHasContentMatch
<1>10. \A i : WordsAt(file[i], p) # {}
                <=> \E w \in DOMAIN RawText(file[i]) : RawText(file[i])[w] = p
  BY DEF WordsAt
<1>11. (\E k \in 1..c : WordsAt(spans[k], p) # {}) <=> \E i \in P : WordsAt(file[i], p) # {}
  <2>1. ASSUME NEW k \in 1..c, WordsAt(spans[k], p) # {}
        PROVE  \E i \in P : WordsAt(file[i], p) # {}
    BY <1>4, <2>1
  <2>2. ASSUME NEW i \in P, WordsAt(file[i], p) # {}
        PROVE  \E k \in 1..c : WordsAt(spans[k], p) # {}
    <3>1. PICK k \in 1..c : o[k] = i
      BY <1>7
    <3>2. spans[k] = file[i]
      BY <1>4, <3>1
    <3> QED BY <2>2, <3>2
  <2> QED BY <2>1, <2>2
<1> QED BY <1>8, <1>9, <1>10, <1>11 DEF P, Stands

(* A row that a filter keeps. *)
KeptBy(row, f, lines) ==
  /\ MatchesIndexedFilters(row, f)
  /\ f.pattern # Unset => RowHasContentMatch(row, f.pattern, lines)

LEMMA RowPasses ==
  ASSUME NEW lines \in Seq(Lines), NEW file, Starts(file, lines), NEW row, NEW P, P = PlacesOf(file, {row.trace}), P # {},
         TellsOf(row, file, P), NEW f \in Filters
  PROVE  KeptBy(row, f, lines) <=> Passes(file, P, f)
<1>1. /\ row.offsets = InOrder(P)
      /\ row.errors = Cardinality({i \in P : file[i].error})
      /\ row.projects = {file[i].project : i \in P} \ {NoId}
      /\ (\E i \in P : row.start = file[i].start)
      /\ (\A i \in P : row.start <= file[i].start)
      /\ (row.project = NoId => \A i \in P : file[i].project = NoId)
      /\ (row.project # NoId => \E i \in P : /\ file[i].project = row.project
                                             /\ \A j \in P : j < i => file[j].project = NoId)
  BY DEF TellsOf
<1>n. PICK n \in 0..Len(lines) : file = SubSeq(lines, 1, n)
  BY DEF Starts
<1>2. /\ n \in Nat /\ P \in SUBSET (1..n)
      /\ \A i \in P : file[i].start \in Nat
  <2>1. n \in Nat /\ file \in Seq(Lines) /\ DOMAIN file = 1..n
    BY <1>n
  <2>2. P \in SUBSET (1..n) /\ \A i \in P : file[i] \in Lines \ {Blank}
    BY <2>1 DEF PlacesOf
  <2> QED BY <2>1, <2>2, TraceIndexAssumption
<1>3. f.errors # Unset => (f.errors = (row.errors > 0) <=>
                             (f.errors <=> \E i \in P : file[i].error))
  <2> DEFINE E == {i \in P : file[i].error}
  <2>1. IsFiniteSet(P)
    BY <1>2, PlacesAreFinite
  <2>2. IsFiniteSet(E)
    BY <2>1, FS_Subset
  <2>3. E # {} <=> \E i \in P : file[i].error
    OBVIOUS
  <2> HIDE DEF E
  <2>4. Cardinality(E) \in Nat /\ (Cardinality(E) = 0 <=> E = {})
    BY <2>2, FS_EmptySet, FS_CardinalityType
  <2>5. row.errors = Cardinality(E)
    BY <1>1 DEF E
  <2>6. row.errors > 0 <=> E # {}
    BY <2>4, <2>5
  <2>7. f.errors # Unset => f.errors \in BOOLEAN
    BY TraceQueriesAssumption
  <2> DEFINE some == row.errors > 0
             there == \E i \in P : file[i].error
  <2>8. some <=> there
    BY <2>3, <2>6
  <2>s. some \in BOOLEAN
    OBVIOUS
  <2>t. there \in BOOLEAN
    OBVIOUS
  <2> HIDE DEF some, there
  <2>9. f.errors # Unset => (f.errors = some <=> (f.errors <=> there))
    BY <2>7, <2>8, <2>s, <2>t
  <2> QED BY <2>9 DEF some, there
<1>4. f.names \cap row.projects # {} <=> \E i \in P : file[i].project \in f.names \ {NoId}
  <2>1. \A x : x \in row.projects <=> x # NoId /\ \E i \in P : file[i].project = x
    BY <1>1
  <2>2. ASSUME NEW x \in f.names, x \in row.projects
        PROVE  \E i \in P : file[i].project \in f.names \ {NoId}
    <3>1. PICK i \in P : file[i].project = x /\ x # NoId
      BY <2>1, <2>2
    <3>2. file[i].project \in f.names \ {NoId}
      BY <2>2, <3>1
    <3> QED BY <3>2
  <2>3. ASSUME NEW i \in P, file[i].project \in f.names \ {NoId}
        PROVE  f.names \cap row.projects # {}
    <3>1. file[i].project \in row.projects
      BY <2>1, <2>3
    <3> QED BY <2>3, <3>1
  <2> QED BY <2>2, <2>3
<1>5. row.project = f.project <=> \E i \in P : /\ file[i].project = f.project
                                                /\ \A j \in P : j < i => file[j].project = NoId
  <2>1. f.project # NoId
    BY TraceQueriesAssumption
  <2>2. ASSUME row.project = f.project
        PROVE  \E i \in P : /\ file[i].project = f.project
                            /\ \A j \in P : j < i => file[j].project = NoId
    BY <1>1, <2>1, <2>2
  <2>3. ASSUME NEW i \in P, file[i].project = f.project,
               \A j \in P : j < i => file[j].project = NoId
        PROVE  row.project = f.project
    <3>1. row.project # NoId
      BY <1>1, <2>1, <2>3
    <3>2. PICK k \in P : /\ file[k].project = row.project
                         /\ \A j \in P : j < k => file[j].project = NoId
      BY <1>1, <3>1
    <3>3. ~(i < k) /\ ~(k < i)
      BY <2>1, <2>3, <3>1, <3>2
    <3>4. i \in Nat /\ k \in Nat
      <4>1. i \in 1..n /\ k \in 1..n
        BY <1>2
      <4> QED BY <4>1
    <3>5. i = k
      BY <3>3, <3>4
    <3> QED BY <2>3, <3>2, <3>5
  <2> QED BY <2>2, <2>3
<1>6. f.since # Unset => (row.start >= f.since <=> \A i \in P : file[i].start >= f.since)
  <2> SUFFICES ASSUME f.since # Unset
               PROVE  row.start >= f.since <=> \A i \in P : file[i].start >= f.since
    OBVIOUS
  <2> DEFINE since == f.since
  <2>1. since \in Nat
    BY TraceQueriesAssumption
  <2> HIDE DEF since
  <2>2. row.start \in Nat
    BY <1>1, <1>2
  <2>3. row.start >= since <=> \A i \in P : file[i].start >= since
    <3>1. PICK i \in P : row.start = file[i].start
      BY <1>1
    <3>2. \A j \in P : row.start <= file[j].start /\ file[j].start \in Nat
      BY <1>1, <1>2
    <3>3. ASSUME row.start >= since, NEW j \in P PROVE file[j].start >= since
      <4> DEFINE x == row.start
                 y == file[j].start
      <4>1. x \in Nat /\ y \in Nat /\ x <= y /\ x >= since
        BY <2>2, <3>2, <3>3
      <4> HIDE DEF x, y
      <4>2. y >= since
        BY <2>1, <4>1
      <4> QED BY <4>2 DEF y
    <3>4. ASSUME \A j \in P : file[j].start >= since PROVE row.start >= since
      BY <3>1, <3>4
    <3> QED BY <3>3, <3>4
  <2> QED BY <2>3 DEF since
<1>7. RowHasContentMatch(row, f.pattern, lines) <=>
        \E i \in P : \E w \in DOMAIN RawText(file[i]) : RawText(file[i])[w] = f.pattern
  <2>1. row.offsets = InOrder(PlacesOf(file, {row.trace}))
    BY <1>1
  <2> DEFINE p == f.pattern
  <2> HIDE DEF p
  <2>2. RowHasContentMatch(row, p, lines) <=> Stands(p, file, PlacesOf(file, {row.trace}))
    BY <2>1, WordIsThere
  <2> QED BY <2>2 DEF p, Stands
<1>8. KeptBy(row, f, lines) <=>
        /\ f.errors # Unset => f.errors = (row.errors > 0)
        /\ f.names # Unset => f.names \cap row.projects # {}
        /\ f.project # Unset => row.project = f.project
        /\ f.since # Unset => row.start >= f.since
        /\ f.pattern # Unset => RowHasContentMatch(row, f.pattern, lines)
  BY DEF KeptBy, MatchesIndexedFilters
<1> QED BY <1>3, <1>4, <1>5, <1>6, <1>7, <1>8 DEF Passes

(* What filtered rows tell of: the spans of some traces, in the order in   *)
(* which these appear.                                                     *)
PlacesOfRows(s, file) == [n \in 1..Len(s) |-> PlacesOf(file, {s[n].trace})]

FilteredTold(s, file, T) ==
  /\ Len(s) \in Nat /\ DOMAIN s = 1..Len(s) /\ Len(s) = Cardinality(T)
  /\ s \in Seq({s[n] : n \in 1..Len(s)})
  /\ \A n \in 1..Len(s) : /\ PlacesOf(file, {s[n].trace}) # {}
                          /\ TellsOf(s[n], file, PlacesOf(file, {s[n].trace}))
  /\ AreParts(PlacesOfRows(s, file), Len(s), PlacesOf(file, T))
  /\ \A a, b \in 1..Len(s) : a < b => s[a].offsets[1] < s[b].offsets[1]

Passing(file, f) == {t \in TracesIn(file) : Passes(file, PlacesOf(file, {t}), f)}

LEMMA FilteredRowsTell ==
  ASSUME NEW lines \in Seq(Lines), NEW file, Starts(file, lines), NEW all, RowsTell(all, file),
         NEW f \in Filters
  PROVE  FilteredTold(ApplyFilters(all, f, lines), file, Passing(file, f))
<1> DEFINE m == Len(all)
           P(t) == PlacesOf(file, {t})
           K == {r \in 1..m : KeptBy(all[r], f, lines)}
           T == Passing(file, f)
           s == ApplyFilters(all, f, lines)
           o == InOrder(K)
           c == Cardinality(K)
<1>1. /\ m \in Nat /\ DOMAIN all = 1..m
      /\ \A r \in 1..m : P(all[r].trace) # {} /\ TellsOf(all[r], file, P(all[r].trace))
      /\ \A t \in TracesIn(file) : \E r \in 1..m : all[r].trace = t
      /\ \A r, q \in 1..m : r < q => all[r].offsets[1] < all[q].offsets[1]
  BY DEF RowsTell
<1>2. s = Those(all, K)
  <2>1. K = {r \in DOMAIN all : /\ MatchesIndexedFilters(all[r], f)
                                /\ f.pattern # Unset => RowHasContentMatch(all[r], f.pattern, lines)}
    BY <1>1 DEF KeptBy
  <2> HIDE DEF K
  <2> QED BY <2>1 DEF ApplyFilters
<1>3. \A r \in 1..m : all[r].trace \in TracesIn(file)
  <2> TAKE r \in 1..m
  <2>1. PICK i \in P(all[r].trace) : TRUE
    BY <1>1
  <2>2. i \in {j \in DOMAIN file : file[j] # Blank} /\ file[i].trace = all[r].trace
    BY <2>1 DEF PlacesOf
  <2> QED BY <2>2 DEF TracesIn
<1>4. \A r \in 1..m : r \in K <=> all[r].trace \in T
  <2> TAKE r \in 1..m
  <2> DEFINE row == all[r]
             Q == P(row.trace)
  <2>1. Q = PlacesOf(file, {row.trace}) /\ Q # {} /\ TellsOf(row, file, Q)
    BY <1>1
  <2>2. row.trace \in TracesIn(file)
    BY <1>3
  <2> HIDE DEF row, Q
  <2>3. KeptBy(row, f, lines) <=> Passes(file, Q, f)
    BY <2>1, RowPasses
  <2>4. row.trace \in T <=> Passes(file, Q, f)
    BY <2>1, <2>2 DEF Passing
  <2>5. r \in K <=> KeptBy(row, f, lines)
    BY DEF row
  <2> QED BY <2>3, <2>4, <2>5 DEF row
<1>5. \A r, q \in 1..m : all[r].trace = all[q].trace => r = q
  <2> TAKE r, q \in 1..m
  <2> HAVE all[r].trace = all[q].trace
  <2>1. all[r].offsets = all[q].offsets
    <3>1. all[r].offsets = InOrder(P(all[r].trace)) /\ all[q].offsets = InOrder(P(all[q].trace))
      <4> HIDE DEF P
      <4> QED BY <1>1 DEF TellsOf
    <3> HIDE DEF P
    <3> QED BY <3>1
  <2> DEFINE x == all[r].offsets[1]
  <2>2. x \in Int
    <3> DEFINE Q == P(all[r].trace)
    <3>1. PICK n \in 0..Len(lines) : file = SubSeq(lines, 1, n)
      BY DEF Starts
    <3>2. n \in Nat /\ DOMAIN file = 1..n
      BY <3>1
    <3>3. Q \in SUBSET (1..n) /\ Q # {} /\ all[r].offsets = InOrder(Q)
      <4>1. Q \in SUBSET (1..n)
        BY <3>2 DEF PlacesOf
      <4> QED BY <4>1, <1>1 DEF TellsOf
    <3> HIDE DEF Q
    <3>4. InOrder(Q)[1] \in Q
      BY <3>2, <3>3, FirstPlace
    <3>5. InOrder(Q)[1] \in 1..n
      BY <3>3, <3>4
    <3>6. x = InOrder(Q)[1]
      BY <3>3
    <3> HIDE DEF x
    <3> QED BY <3>5, <3>6
  <2>3. all[q].offsets[1] = x
    BY <2>1
  <2>4. ~(r < q) /\ ~(q < r)
    <3> HIDE DEF x
    <3>1. ~(x < x)
      BY <2>2
    <3> QED BY <1>1, <2>3, <3>1 DEF x
  <2> QED BY <1>1, <2>4
<1>6. K \in SUBSET (1..m)
  OBVIOUS
<1> HIDE DEF K
<1>7. /\ o \in Seq(K) /\ Len(o) = c /\ c \in Nat
      /\ (\A a, b \in 1..c : a < b <=> o[a] < o[b])
      /\ \A i \in K : \E n \in 1..c : o[n] = i
  <2>1. GoesThrough(o, K) /\ Len(o) = c /\ c \in Nat
    BY <1>1, <1>6, InOrderGoes, PlacesAreFinite
  <2> QED BY <2>1 DEF GoesThrough
<1>8. s = [n \in DOMAIN o |-> all[o[n]]]
  BY <1>2 DEF Those
<1> HIDE DEF s, o, c
<1>9. \A n \in 1..c : o[n] \in K /\ o[n] \in 1..m
  <2>1. \A n \in 1..c : o[n] \in K
    BY ONLY <1>7
  <2> QED BY <1>6, <2>1
<1>10. DOMAIN s = 1..c /\ Len(s) = c /\ \A n \in 1..c : s[n] = all[o[n]]
  BY <1>7, <1>8
<1>11. s \in Seq({s[n] : n \in 1..c})
  <2> DEFINE R == {s[n] : n \in 1..c}
  <2>1. \A n \in 1..c : all[o[n]] \in R
    BY <1>10
  <2> HIDE DEF R
  <2>2. s \in [1..c -> R]
    BY <1>7, <1>8, <1>10, <2>1
  <2>3. c \in Nat
    BY <1>7
  <2>4. s \in Seq(R)
    BY ONLY <2>2, <2>3
  <2> QED BY <2>4 DEF R
<1>12. \A t \in T : \E n \in 1..c : s[n].trace = t
  <2> TAKE t \in T
  <2>1. t \in TracesIn(file)
    BY DEF Passing
  <2>2. PICK r \in 1..m : all[r].trace = t
    BY <1>1, <2>1
  <2>3. r \in K
    BY <1>4, <2>2
  <2>4. PICK n \in 1..c : o[n] = r
    BY <1>7, <2>3
  <2> QED BY <1>10, <2>2, <2>4
<1>13. \A n \in 1..c : s[n].trace \in T
  BY <1>4, <1>9, <1>10
<1>14. \A a, b \in 1..c : s[a].trace = s[b].trace => a = b
  <2> TAKE a, b \in 1..c
  <2> HAVE s[a].trace = s[b].trace
  <2>1. o[a] = o[b]
    <3>1. o[a] \in 1..m /\ o[b] \in 1..m
      BY <1>9
    <3>2. all[o[a]].trace = all[o[b]].trace
      BY <1>10
    <3> QED BY <1>5, <3>1, <3>2
  <2>2. o[a] \in Int
    BY <1>9
  <2>3. ~(a < b) /\ ~(b < a)
    BY <1>7, <2>1, <2>2
  <2> QED BY <1>7, <2>3
<1>15. c = Cardinality(T)
  <2> DEFINE g == [n \in 1..c |-> s[n].trace]
  <2>1. \A n \in 1..c : g[n] = s[n].trace
    OBVIOUS
  <2> HIDE DEF g, T
  <2>2. /\ \A n \in 1..c : g[n] \in T
        /\ \A t \in T : \E n \in 1..c : g[n] = t
        /\ \A a, b \in 1..c : g[a] = g[b] => a = b
    BY <1>12, <1>13, <1>14, <2>1
  <2>3. c \in Nat
    BY <1>7
  <2> QED BY <2>2, <2>3, AsMany
<1>16. \A n \in 1..c : P(s[n].trace) # {} /\ TellsOf(s[n], file, P(s[n].trace))
  BY <1>1, <1>9, <1>10, ZenonT(40)
<1>17. \A a, b \in 1..c : a < b => s[a].offsets[1] < s[b].offsets[1]
  <2> TAKE a, b \in 1..c
  <2> HAVE a < b
  <2>1. o[a] < o[b] /\ o[a] \in 1..m /\ o[b] \in 1..m
    BY <1>7, <1>9
  <2> QED BY <1>1, <1>10, <2>1
<1>18. AreParts(PlacesOfRows(s, file), c, PlacesOf(file, T))
  <2> DEFINE parts == PlacesOfRows(s, file)
  <2>1. \A n \in 1..c : parts[n] = P(s[n].trace)
    BY <1>10 DEF PlacesOfRows
  <2> HIDE DEF parts
  <2>2. \A t, i : i \in P(t) <=> i \in DOMAIN file /\ file[i] # Blank /\ file[i].trace = t
    BY DEF PlacesOf
  <2>3. \A i : i \in PlacesOf(file, T) <=> i \in DOMAIN file /\ file[i] # Blank /\ file[i].trace \in T
    BY DEF PlacesOf
  <2> HIDE DEF P, T
  <2>4. \A k, l \in 1..c : k # l => parts[k] \cap parts[l] = {}
    BY <1>14, <2>1, <2>2
  <2>5. \A i : i \in PlacesOf(file, T) <=> \E n \in 1..c : i \in parts[n]
    BY <1>12, <1>13, <2>1, <2>2, <2>3
  <2> QED BY <2>4, <2>5 DEF AreParts, parts
<1>19. c \in Nat
  BY <1>7
<1> QED BY <1>10, <1>11, <1>15, <1>16, <1>17, <1>18, <1>19 DEF FilteredTold, s

LEMMA PlacesInPrefix ==
  ASSUME NEW lines \in Seq(Lines), NEW file, Starts(file, lines), NEW T
  PROVE  /\ file \in Seq(Lines) /\ Len(file) \in Nat /\ DOMAIN file = 1..Len(file)
         /\ PlacesOf(file, T) \in SUBSET (1..Len(file))
         /\ \A i \in PlacesOf(file, T) : file[i] \in Lines \ {Blank} /\ file[i].trace \in T
<1>1. PICK n \in 0..Len(lines) : file = SubSeq(lines, 1, n)
  BY DEF Starts
<1>2. file \in Seq(Lines)
  BY <1>1
<1>3. Len(file) \in Nat /\ DOMAIN file = 1..Len(file) /\ \A i \in 1..Len(file) : file[i] \in Lines
  BY <1>2
<1> QED BY <1>2, <1>3 DEF PlacesOf

(* The n-th row is of the n-th trace to appear. *)
LEMMA RowsInOrderOfTraces ==
  ASSUME NEW lines \in Seq(Lines), NEW file, Starts(file, lines), NEW T, NEW s,
         FilteredTold(s, file, T),
         NEW theirs, theirs = PlacesOf(file, T), NEW F,
         F = {i \in theirs : \A j \in theirs : j < i => file[j].trace # file[i].trace}
  PROVE  \A n \in 1..Len(s) : file[InOrder(F)[n]].trace = s[n].trace
<1> DEFINE c == Len(s)
           m == Len(file)
           P(n) == PlacesOf(file, {s[n].trace})
           o == [n \in 1..c |-> s[n].offsets[1]]
<1>1. /\ c \in Nat
      /\ \A n \in 1..c : P(n) # {} /\ s[n].offsets = InOrder(P(n))
      /\ \A a, b \in 1..c : a < b => s[a].offsets[1] < s[b].offsets[1]
  BY DEF FilteredTold, TellsOf
<1>2. \A i : i \in theirs <=> \E n \in 1..c : i \in P(n)
  <2>1. AreParts(PlacesOfRows(s, file), c, theirs)
    BY DEF FilteredTold
  <2>2. \A n \in 1..c : PlacesOfRows(s, file)[n] = P(n)
    BY DEF PlacesOfRows
  <2> HIDE DEF P
  <2> QED BY <2>1, <2>2 DEF AreParts
<1>3. m \in Nat /\ theirs \in SUBSET (1..m) /\ F \in SUBSET theirs
  <2>1. m \in Nat /\ PlacesOf(file, T) \in SUBSET (1..m)
    BY PlacesInPrefix
  <2> QED BY <2>1
<1>4. \A n \in 1..c : P(n) \in SUBSET (1..m) /\ \A i \in 1..m : i \in P(n) => file[i].trace = s[n].trace
  BY PlacesInPrefix
<1>5. \A n \in 1..c : \A i \in theirs : file[i].trace = s[n].trace => i \in P(n)
  BY DEF PlacesOf
<1> HIDE DEF P, c, m
<1>6. \A n \in 1..c : o[n] \in P(n) /\ o[n] \in 1..m /\ \A i \in P(n) : o[n] <= i
  <2> TAKE n \in 1..c
  <2> DEFINE Q == P(n)
  <2>1. Q \in SUBSET (1..m) /\ Q # {} /\ m \in Nat
    BY <1>1, <1>3, <1>4
  <2>2. o[n] = InOrder(Q)[1]
    BY <1>1
  <2> HIDE DEF Q, o
  <2>3. InOrder(Q)[1] \in Q /\ \A i \in Q : InOrder(Q)[1] <= i
    BY <2>1, FirstPlace
  <2>4. o[n] \in Q /\ \A i \in Q : o[n] <= i
    BY <2>2, <2>3
  <2>5. o[n] \in 1..m
    BY <2>1, <2>4
  <2> QED BY <2>4, <2>5 DEF Q
<1>7. Len(o) = c /\ DOMAIN o = 1..c /\ o \in [1..c -> 1..m]
  BY <1>1, <1>6
<1>8. \A a, b \in 1..c : a < b => o[a] < o[b]
  BY <1>1
<1> HIDE DEF o
<1>9. \A a, b \in 1..c : a < b <=> o[a] < o[b]
  <2> TAKE a, b \in 1..c
  <2>1. o[a] \in Int /\ o[b] \in Int /\ a \in Int /\ b \in Int
    BY <1>6
  <2>2. a < b => o[a] < o[b]
    BY <1>8
  <2>3. b < a => o[b] < o[a]
    BY <1>8
  <2>4. a = b => o[a] = o[b]
    OBVIOUS
  <2> QED BY <2>1, <2>2, <2>3, <2>4
<1>10. \A n \in 1..c : o[n] \in F
  <2> TAKE n \in 1..c
  <2>1. o[n] \in theirs /\ file[o[n]].trace = s[n].trace
    BY <1>2, <1>4, <1>6
  <2>2. ASSUME NEW j \in theirs, j < o[n] PROVE file[j].trace # file[o[n]].trace
    <3> SUFFICES ASSUME file[j].trace = file[o[n]].trace PROVE FALSE
      OBVIOUS
    <3>1. j \in P(n)
      BY <1>5, <2>1
    <3>2. o[n] <= j /\ j \in 1..m /\ o[n] \in 1..m
      BY <1>4, <1>6, <3>1
    <3> QED BY <1>3, <2>2, <3>2
  <2> QED BY <2>1, <2>2
<1>11. \A i \in F : \E n \in 1..c : o[n] = i
  <2> TAKE i \in F
  <2>1. i \in theirs /\ i \in 1..m /\ \A j \in theirs : j < i => file[j].trace # file[i].trace
    BY <1>3
  <2>2. PICK n \in 1..c : i \in P(n)
    BY <1>2, <2>1
  <2>3. o[n] \in theirs /\ o[n] \in P(n) /\ o[n] \in 1..m /\ o[n] <= i
    BY <1>2, <1>6, <2>2
  <2>4. file[o[n]].trace = file[i].trace
    BY <1>4, <2>1, <2>2, <2>3
  <2>5. ~(o[n] < i)
    BY <2>1, <2>3, <2>4
  <2>6. o[n] = i
    <3>1. o[n] \in Int /\ i \in Int
      BY <2>1, <2>3
    <3> QED BY <2>3, <2>5, <3>1
  <2> QED BY <2>6
<1>12. GoesThrough(o, F)
  <2>1. o \in [1..c -> F]
    BY <1>7, <1>10
  <2>2. o \in Seq(F)
    <3>1. c \in Nat
      BY <1>1
    <3> QED BY ONLY <2>1, <3>1
  <2> QED BY <1>7, <1>9, <1>11, <2>2 DEF GoesThrough
<1>13. o = InOrder(F)
  <2>1. F \in SUBSET (1..m)
    BY <1>3
  <2> QED BY <1>3, <1>12, <2>1, OneOrder
<1>14. \A n \in 1..c : file[o[n]].trace = s[n].trace
  BY <1>4, <1>6
<1> QED BY <1>13, <1>14 DEF c

(* A page of them. *)
PageTold(page, s, limit, offset, T) ==
  /\ page.total = Cardinality(T)
  /\ DOMAIN page.traces = {n \in 1..limit : offset + n <= Cardinality(T)}
  /\ \A n \in DOMAIN page.traces : /\ page.traces[n].trace = s[offset + n].trace
                                   /\ offset + n \in 1..Len(s)

LEMMA PagesShow ==
  ASSUME NEW all, NEW f, NEW lines, NEW limit \in Nat \ {0}, NEW offset \in Nat, NEW T, NEW file,
         FilteredTold(ApplyFilters(all, f, lines), file, T)
  PROVE  PageTold(QueryTraces(all, f, limit, offset, lines), ApplyFilters(all, f, lines),
                  limit, offset, T)
<1> DEFINE s == ApplyFilters(all, f, lines)
           R == {s[n] : n \in 1..Len(s)}
           c == Len(s)
           last == Min({offset + limit, c})
           shown == SubSeq(s, offset + 1, last)
           page == QueryTraces(all, f, limit, offset, lines)
<1>1. c \in Nat /\ c = Cardinality(T) /\ s \in Seq(R)
  BY DEF FilteredTold
<1>2. page = [traces |-> [k \in DOMAIN shown |-> Summary(shown[k], lines)], total |-> c]
  BY DEF QueryTraces
<1> HIDE DEF s, R, page
<1>3. last = IF offset + limit <= c THEN offset + limit ELSE c
  <2> HIDE DEF c
  <2>1. offset + limit \in Int /\ c \in Int
    BY <1>1
  <2> QED BY <2>1, LesserOfTwo
<1> HIDE DEF last
<1>4. last \in Nat /\ last <= c /\ last <= offset + limit
  BY <1>1, <1>3
<1> DEFINE e == offset + 1
<1>5. e \in Nat /\ e >= 1 /\ e = offset + 1
  OBVIOUS
<1> HIDE DEF e
<1>6. DOMAIN shown = {n \in 1..limit : offset + n <= c}
  <2>1. CASE e <= last
    <3>1. DOMAIN shown = 1..(last - e + 1)
      BY <1>1, <1>4, <1>5, <2>1
    <3>2. last - e + 1 = last - offset
      BY <1>4, <1>5
    <3>3. \A n : n \in 1..(last - offset) <=> n \in 1..limit /\ offset + n <= c
      BY <1>1, <1>3, <1>4
    <3> HIDE DEF shown
    <3> QED BY <3>1, <3>2, <3>3
  <2>2. CASE ~(e <= last)
    <3>1. shown = <<>>
      BY <1>1, <1>4, <1>5, <2>2
    <3>2. \A n \in 1..limit : ~(offset + n <= c)
      BY <1>1, <1>3, <1>5, <2>2
    <3> HIDE DEF shown
    <3>3. DOMAIN shown = {}
      BY <3>1
    <3> QED BY <3>2, <3>3
  <2> QED BY <2>1, <2>2
<1>7. \A n \in DOMAIN shown : offset + n \in 1..c /\ shown[n] = s[offset + n]
  <2> TAKE n \in DOMAIN shown
  <2>1. n \in 1..limit /\ offset + n <= c
    BY <1>6
  <2>2. offset + n \in 1..c
    BY <1>1, <2>1
  <2>3. e <= last
    BY <1>1, <1>3, <1>5, <2>1
  <2>4. Len(shown) = last - e + 1 /\ n \in 1..Len(shown)
    BY <1>1, <1>4, <1>5, <2>3
  <2>5. shown[n] = s[e + n - 1]
    BY <1>1, <1>4, <1>5, <2>3, <2>4
  <2>6. e + n - 1 = offset + n
    BY <1>5, <2>1
  <2> QED BY <2>2, <2>5, <2>6
<1> HIDE DEF shown
<1>8. page.total = c /\ DOMAIN page.traces = DOMAIN shown
      /\ \A n \in DOMAIN shown : page.traces[n] = Summary(shown[n], lines)
  BY <1>2
<1>9. \A n \in DOMAIN shown : page.traces[n].trace = s[offset + n].trace
  <2>1. \A row : Summary(row, lines).trace = row.trace
    BY DEF Summary
  <2> QED BY <1>7, <1>8, <2>1
<1> QED BY <1>1, <1>6, <1>7, <1>8, <1>9 DEF page, s, PageTold

(* The numbers in some rows add up to those of the spans they tell of. *)
LEMMA CountsAddUp ==
  ASSUME NEW m \in Nat, NEW numbers, NEW c \in Nat, Len(numbers) = c, DOMAIN numbers = 1..c,
         IsFunction(numbers), NEW parts, NEW P \in SUBSET (1..m),
         \A k \in 1..c : parts[k] \in SUBSET (1..m) /\ numbers[k] = Cardinality(parts[k]),
         AreParts(parts, c, P)
  PROVE  Total(numbers) = Cardinality(P)
<1> DEFINE w == Ones(m)
           same == [k \in 1..c |-> numbers[k]]
<1>1. Weights(w, m) /\ Total(Padded(w, m, P)) = Cardinality(P)
  BY PlacesAddUp
<1>2. \A k \in 1..c : numbers[k] \in Nat /\ numbers[k] = Total(Padded(w, m, parts[k]))
  <2> TAKE k \in 1..c
  <2> DEFINE Q == parts[k]
  <2>1. Q \in SUBSET (1..m) /\ numbers[k] = Cardinality(Q)
    OBVIOUS
  <2> HIDE DEF Q
  <2>2. Cardinality(Q) \in Nat /\ Total(Padded(w, m, Q)) = Cardinality(Q)
    BY <2>1, PlacesAreFinite, PlacesAddUp
  <2> QED BY <2>1, <2>2 DEF Q
<1>3. numbers \in Seq(Nat)
  <2>1. same \in [1..c -> Nat]
    BY <1>2
  <2>2. same \in Seq(Nat)
    BY ONLY <2>1, c \in Nat
  <2>3. numbers = same
    BY DEF IsFunction
  <2> HIDE DEF same
  <2> QED BY <2>2, <2>3
<1> HIDE DEF w
<1>4. Total(numbers) = Total(Padded(w, m, P))
  <2>1. \A k \in 1..Len(numbers) : numbers[k] = Total(Padded(w, m, parts[k]))
    BY <1>2
  <2>2. AreParts(parts, Len(numbers), P)
    OBVIOUS
  <2>3. m \in Nat /\ Weights(w, m)
    BY <1>1
  <2> QED BY ONLY <1>3, <2>1, <2>2, <2>3, ManyPartsAddUp
<1> QED BY <1>1, <1>4

Weighs(w, file, P) == \A i \in P : w[i] = Size(file[i])

(* The size of the trace of a row. *)
LEMMA BytesOfRow ==
  ASSUME NEW lines \in Seq(Lines), NEW file, Starts(file, lines), NEW row, NEW P,
         P = PlacesOf(file, {row.trace}), row.offsets = InOrder(P),
         NEW w, Weighs(w, file, P), Weights(w, Len(file))
  PROVE  Bytes(row, lines) \in Nat /\ Bytes(row, lines) = Total(Padded(w, Len(file), P))
<1> DEFINE c == Cardinality(P)
           o == InOrder(P)
           spans == Those(file, P)
           numbers == [k \in DOMAIN row.offsets |-> Size(Blobs(row, lines)[k])]
           m == Len(file)
<1>n. PICK n \in 0..Len(lines) : file = SubSeq(lines, 1, n)
  BY DEF Starts
<1>1. BlobsTold(lines, n, file, row, P)
  BY <1>n, BlobsAre
<1>2. /\ Blobs(row, lines) = spans /\ c \in Nat /\ DOMAIN o = 1..c
      /\ \A k \in 1..c : o[k] \in P /\ spans[k] = file[o[k]]
  BY <1>1 DEF BlobsTold
<1>3. m \in Nat /\ P \in SUBSET (1..m)
  BY PlacesInPrefix
<1>4. DOMAIN row.offsets = 1..c
  BY <1>2
<1>5. Bytes(row, lines) = Total(numbers)
  BY DEF Bytes
<1> HIDE DEF c, o, spans, m
<1>6. /\ DOMAIN numbers = 1..c /\ Len(numbers) = c /\ IsFunction(numbers)
      /\ \A k \in 1..c : numbers[k] = Size(spans[k])
  <2>1. c \in Nat
    BY <1>2
  <2>2. DOMAIN numbers = 1..c
    BY <1>4
  <2>3. \A k \in 1..c : numbers[k] = Size(spans[k])
    BY <1>2, <1>4
  <2>4. IsFunction(numbers)
    BY DEF IsFunction
  <2> HIDE DEF numbers
  <2> QED BY <2>1, <2>2, <2>3, <2>4
<1> HIDE DEF numbers
<1>7. \A k \in 1..c : numbers[k] = w[o[k]]
  <2> TAKE k \in 1..c
  <2>1. o[k] \in P /\ spans[k] = file[o[k]]
    BY <1>2
  <2>2. w[o[k]] = Size(file[o[k]])
    BY <2>1 DEF Weighs
  <2> QED BY <1>6, <2>1, <2>2
<1>8. Weights(w, m)
  BY DEF m
<1>9. /\ DOMAIN numbers = 1..Cardinality(P) /\ Len(numbers) = Cardinality(P)
      /\ IsFunction(numbers)
      /\ \A k \in 1..Cardinality(P) : numbers[k] = w[InOrder(P)[k]]
  BY <1>6, <1>7 DEF c, o
<1>10. numbers \in Seq(Nat) /\ Total(numbers) = Total(Padded(w, m, P))
  BY ONLY <1>3, <1>8, <1>9, InOrderAddsUp
<1>11. Total(numbers) \in Nat
  BY <1>10, TotalTyped
<1> QED BY <1>5, <1>10, <1>11 DEF m

TotalsTold(s, file, lines, places) ==
  /\ Total([k \in DOMAIN s |-> Len(s[k].offsets)]) = Cardinality(places)
  /\ Total([k \in DOMAIN s |-> s[k].errors]) = Cardinality({i \in places : file[i].error})
  /\ Total([k \in DOMAIN s |-> Bytes(s[k], lines)])
       = Total([i \in DOMAIN file |-> IF i \in places THEN Size(file[i]) ELSE 0])

LEMMA TotalsOfRows ==
  ASSUME NEW lines \in Seq(Lines), NEW file, Starts(file, lines), NEW T, NEW s,
         FilteredTold(s, file, T), NEW theirs, theirs = PlacesOf(file, T)
  PROVE  TotalsTold(s, file, lines, theirs)
<1> DEFINE c == Len(s)
           m == Len(file)
           P == PlacesOfRows(s, file)
<1>1. /\ c \in Nat /\ DOMAIN s = 1..c
      /\ \A n \in 1..c : TellsOf(s[n], file, PlacesOf(file, {s[n].trace}))
      /\ AreParts(P, c, theirs)
  BY DEF FilteredTold
<1>2. m \in Nat /\ DOMAIN file = 1..m /\ theirs \in SUBSET (1..m)
      /\ \A i \in theirs : file[i] \in Lines \ {Blank}
  <2>1. /\ m \in Nat /\ DOMAIN file = 1..m /\ PlacesOf(file, T) \in SUBSET (1..m)
        /\ \A i \in PlacesOf(file, T) : file[i] \in Lines \ {Blank}
    BY PlacesInPrefix
  <2> QED BY <2>1
<1>3. \A k \in 1..c : P[k] = PlacesOf(file, {s[k].trace})
  BY DEF PlacesOfRows
<1> HIDE DEF P, c, m
<1>4. \A k \in 1..c : P[k] \in SUBSET (1..m) /\ P[k] \in SUBSET theirs
  <2>1. \A k \in 1..c : \A i : i \in P[k] => i \in theirs
    BY <1>1 DEF AreParts
  <2> QED BY <1>2, <2>1
<1>5. \A k \in 1..c : /\ s[k].offsets = InOrder(P[k])
                      /\ s[k].errors = Cardinality({i \in P[k] : file[i].error})
  BY <1>1, <1>3 DEF TellsOf
<1>6. Total([k \in DOMAIN s |-> Len(s[k].offsets)]) = Cardinality(theirs)
  <2> DEFINE numbers == [k \in DOMAIN s |-> Len(s[k].offsets)]
  <2>1. Len(numbers) = c /\ DOMAIN numbers = 1..c /\ IsFunction(numbers)
    BY <1>1 DEF IsFunction
  <2>2. \A k \in 1..c : numbers[k] = Len(InOrder(P[k]))
    BY <1>1, <1>5
  <2> HIDE DEF numbers
  <2>3. \A k \in 1..c : P[k] \in SUBSET (1..m) /\ numbers[k] = Cardinality(P[k])
    <3> TAKE k \in 1..c
    <3> DEFINE Q == P[k]
    <3>1. Q \in SUBSET (1..m)
      BY <1>4
    <3> HIDE DEF Q
    <3>2. Len(InOrder(Q)) = Cardinality(Q)
      BY <1>2, <3>1, InOrderGoes
    <3> QED BY <2>2, <3>1, <3>2 DEF Q
  <2>4. Total(numbers) = Cardinality(theirs)
    BY <1>1, <1>2, <2>1, <2>3, CountsAddUp
  <2> QED BY <2>4 DEF numbers
<1>7. Total([k \in DOMAIN s |-> s[k].errors]) = Cardinality({i \in theirs : file[i].error})
  <2> DEFINE numbers == [k \in DOMAIN s |-> s[k].errors]
             E == [k \in 1..c |-> {i \in P[k] : file[i].error}]
             all == {i \in theirs : file[i].error}
  <2>1. Len(numbers) = c /\ DOMAIN numbers = 1..c /\ IsFunction(numbers)
    BY <1>1 DEF IsFunction
  <2>2. \A k \in 1..c : numbers[k] = Cardinality(E[k])
    BY <1>1, <1>5
  <2>3. \A k \in 1..c : \A i : i \in E[k] <=> i \in P[k] /\ file[i].error
    OBVIOUS
  <2>4. \A i : i \in all <=> i \in theirs /\ file[i].error
    OBVIOUS
  <2> HIDE DEF numbers, E, all
  <2>5. \A k \in 1..c : E[k] \in SUBSET (1..m)
    BY <1>4, <2>3
  <2>6. all \in SUBSET (1..m)
    BY <1>2, <2>4
  <2>7. AreParts(E, c, all)
    <3>1. \A k, l \in 1..c : k # l => P[k] \cap P[l] = {}
      BY <1>1 DEF AreParts
    <3>2. \A k, l \in 1..c : k # l => E[k] \cap E[l] = {}
      BY <2>3, <3>1
    <3>3. \A i : i \in theirs <=> \E k \in 1..c : i \in P[k]
      BY <1>1 DEF AreParts
    <3>4. \A i : i \in all <=> \E k \in 1..c : i \in E[k]
      BY <2>3, <2>4, <3>3
    <3> QED BY <3>2, <3>4 DEF AreParts
  <2>8. Total(numbers) = Cardinality(all)
    BY <1>1, <1>2, <2>1, <2>2, <2>5, <2>6, <2>7, CountsAddUp
  <2> QED BY <2>8 DEF numbers, all
<1>8. Total([k \in DOMAIN s |-> Bytes(s[k], lines)])
        = Total([i \in DOMAIN file |-> IF i \in theirs THEN Size(file[i]) ELSE 0])
  <2> DEFINE numbers == [k \in DOMAIN s |-> Bytes(s[k], lines)]
             w == [i \in DOMAIN file |-> IF i \in theirs THEN Size(file[i]) ELSE 0]
  <2>1. Len(numbers) = c /\ DOMAIN numbers = 1..c
        /\ \A k \in 1..c : numbers[k] = Bytes(s[k], lines)
    BY <1>1
  <2>2. /\ \A i \in 1..m : w[i] = IF i \in theirs THEN Size(file[i]) ELSE 0
        /\ w = [i \in 1..m |-> w[i]]
    BY <1>2
  <2>3. \A i \in theirs : Size(file[i]) \in Nat
    <3>1. \A l \in Lines \ {Blank} : l.attributes \in Attributes(Words)
      BY TraceQueriesAssumption DEF Attributes
    <3>2. \A l \in Lines \ {Blank} : Size(l) \in Nat
      BY <3>1, TextTyped
    <3> QED BY <1>2, <3>2
  <2> HIDE DEF numbers, w
  <2>4. Weights(w, m)
    BY <2>2, <2>3 DEF Weights
  <2>5. \A k \in 1..c : numbers[k] \in Nat /\ numbers[k] = Total(Padded(w, m, P[k]))
    <3> TAKE k \in 1..c
    <3> DEFINE row == s[k]
               Q == P[k]
    <3>1. Q = PlacesOf(file, {row.trace}) /\ row.offsets = InOrder(Q)
      BY <1>3, <1>5
    <3>2. Weighs(w, file, Q)
      BY <1>2, <1>4, <2>2 DEF Weighs
    <3> HIDE DEF row, Q
    <3>3. Bytes(row, lines) \in Nat /\ Bytes(row, lines) = Total(Padded(w, Len(file), Q))
      <4>1. Weights(w, Len(file))
        BY <2>4 DEF m
      <4> QED BY <3>1, <3>2, <4>1, BytesOfRow
    <3> QED BY <2>1, <3>3 DEF row, Q, m
  <2>6. numbers \in Seq(Nat)
    <3>1. numbers = [k \in 1..c |-> Bytes(s[k], lines)]
      BY <1>1 DEF numbers
    <3>2. \A k \in 1..c : Bytes(s[k], lines) \in Nat
      BY <2>1, <2>5
    <3>3. numbers \in [1..c -> Nat]
      BY <3>1, <3>2
    <3>4. c \in Nat
      BY <1>1
    <3> QED BY ONLY <3>3, <3>4
  <2>7. Total(numbers) = Total(Padded(w, m, theirs))
    BY <1>1, <1>2, <2>1, <2>4, <2>5, <2>6, ManyPartsAddUp
  <2>8. Padded(w, m, theirs) = w
    <3>1. \A i \in 1..m : (IF i \in theirs THEN w[i] ELSE 0) = w[i]
      BY <2>2
    <3>2. Padded(w, m, theirs) = [i \in 1..m |-> w[i]]
      BY <3>1 DEF Padded
    <3> QED BY <2>2, <3>2
  <2> QED BY <2>7, <2>8 DEF numbers, w
<1> QED BY <1>6, <1>7, <1>8 DEF TotalsTold

LEMMA FiltersMatchTheFile ==
  ASSUME NEW lines \in Seq(Lines), NEW file, Starts(file, lines), NEW all, RowsTell(all, file)
  PROVE  FiltersMatch(all, file, lines)
<1> SUFFICES ASSUME NEW f \in Filters
             PROVE  LET passing == {t \in TracesIn(file) : Passes(file, PlacesOf(file, {t}), f)}
                        theirs == PlacesOf(file, passing)
                        first == InOrder({i \in theirs : \A j \in theirs :
                                            j < i => file[j].trace # file[i].trace})
                        overview == GetOverview(all, f, lines)
                    IN  /\ \A limit \in 1..MaxAsked, offset \in 0..Len(file) :
                             LET page == QueryTraces(all, f, limit, offset, lines)
                             IN  /\ page.total = Cardinality(passing)
                                 /\ DOMAIN page.traces
                                      = {n \in 1..limit : offset + n <= Cardinality(passing)}
                                 /\ \A n \in DOMAIN page.traces :
                                      page.traces[n].trace = file[first[offset + n]].trace
                        /\ CountTraces(all, f, lines) = Cardinality(passing)
                        /\ overview.traces = Cardinality(passing)
                        /\ overview.spans = Cardinality(theirs)
                        /\ overview.bytes = Total([i \in DOMAIN file |->
                                                     IF i \in theirs THEN Size(file[i]) ELSE 0])
                        /\ overview.errors = Cardinality({i \in theirs : file[i].error})
  BY DEF FiltersMatch
<1> DEFINE passing == {t \in TracesIn(file) : Passes(file, PlacesOf(file, {t}), f)}
           theirs == PlacesOf(file, passing)
           F == {i \in theirs : \A j \in theirs : j < i => file[j].trace # file[i].trace}
           s == ApplyFilters(all, f, lines)
           overview == GetOverview(all, f, lines)
<1>1. FilteredTold(s, file, passing)
  <2>1. FilteredTold(s, file, Passing(file, f))
    <3> HIDE DEF s
    <3>1. FilteredTold(ApplyFilters(all, f, lines), file, Passing(file, f))
      BY FilteredRowsTell
    <3> QED BY <3>1 DEF s
  <2>2. Passing(file, f) = passing
    BY DEF Passing
  <2> HIDE DEF passing
  <2> QED BY <2>1, <2>2
<1>2. Len(s) = Cardinality(passing)
  BY <1>1 DEF FilteredTold
<1>3. /\ overview.traces = Len(s)
      /\ overview.spans = Total([k \in DOMAIN s |-> Len(s[k].offsets)])
      /\ overview.errors = Total([k \in DOMAIN s |-> s[k].errors])
      /\ overview.bytes = Total([k \in DOMAIN s |-> Bytes(s[k], lines)])
  BY DEF GetOverview
<1>4. CountTraces(all, f, lines) = Len(s)
  BY DEF CountTraces
<1> HIDE DEF overview
<1> HIDE DEF passing
<1>5. /\ Total([k \in DOMAIN s |-> Len(s[k].offsets)]) = Cardinality(theirs)
      /\ Total([k \in DOMAIN s |-> s[k].errors]) = Cardinality({i \in theirs : file[i].error})
      /\ Total([k \in DOMAIN s |-> Bytes(s[k], lines)])
           = Total([i \in DOMAIN file |-> IF i \in theirs THEN Size(file[i]) ELSE 0])
  <2>1. theirs = PlacesOf(file, passing)
    OBVIOUS
  <2> HIDE DEF s, theirs
  <2>2. TotalsTold(s, file, lines, theirs)
    BY <1>1, <2>1, TotalsOfRows
  <2> QED BY <2>2 DEF TotalsTold
<1>6. \A n \in 1..Len(s) : file[InOrder(F)[n]].trace = s[n].trace
  <2> HIDE DEF s
  <2> QED BY <1>1, RowsInOrderOfTraces
<1>7. ASSUME NEW limit \in 1..MaxAsked, NEW offset \in 0..Len(file)
      PROVE  LET page == QueryTraces(all, f, limit, offset, lines)
             IN  /\ page.total = Cardinality(passing)
                 /\ DOMAIN page.traces = {n \in 1..limit : offset + n <= Cardinality(passing)}
                 /\ \A n \in DOMAIN page.traces :
                      page.traces[n].trace = file[InOrder(F)[offset + n]].trace
  <2> DEFINE page == QueryTraces(all, f, limit, offset, lines)
  <2>1. limit \in Nat \ {0} /\ offset \in Nat
    BY TraceQueriesAssumption
  <2>2. PageTold(page, s, limit, offset, passing)
    BY <1>1, <2>1, PagesShow
  <2> HIDE DEF page, s, F
  <2> QED BY <1>6, <2>2 DEF PageTold, page
<1> HIDE DEF s
<1> QED BY <1>2, <1>3, <1>4, <1>5, <1>7 DEF overview, passing

(* FiltersMatchTrace: page after page, an agent is shown each trace that   *)
(* passes its filters just once, in the order of the file; the count and   *)
(* the overview are of the same traces and of all their spans.             *)
THEOREM FiltersMatchWhatIsThere ==
  ASSUME Alone
  PROVE  Spec => []FiltersMatchTrace
<1>1. IndexTypeOK /\ StoreServesTheTrace => FiltersMatchTrace
  <2> SUFFICES ASSUME IndexTypeOK, StoreServesTheTrace, NEW b \in Builders, Serves(b)
               PROVE  \E file \in FilesSeen(b) : FiltersMatch(store[b], file, trace.lines)
    BY DEF FiltersMatchTrace
  <2>1. trace.lines \in Seq(Lines)
    BY RowsOfAFile
  <2>2. PICK n \in 0..Len(trace.lines) :
          /\ SubSeq(trace.lines, 1, n) \in FilesSeen(b)
          /\ RowsTell(store[b], SubSeq(trace.lines, 1, n))
    BY RowsOfAFile
  <2>3. Starts(SubSeq(trace.lines, 1, n), trace.lines)
    BY DEF Starts
  <2>4. FiltersMatch(store[b], SubSeq(trace.lines, 1, n), trace.lines)
    BY <2>1, <2>2, <2>3, FiltersMatchTheFile
  <2> QED BY <2>2, <2>4
<1> QED
  BY <1>1, IndexTypes, StoreServes, PTL
=============================================================================
