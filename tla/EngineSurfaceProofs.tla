------------------------- MODULE EngineSurfaceProofs ------------------------
(***************************************************************************)
(* Proofs about a run and its entry points, for any number of subagents,   *)
(* events, depths and permits: first of the agent tree alone (Subagents),  *)
(* then of the output bus alone (EngineOutputBus).  The run is shown to be *)
(* a behaviour of both, so that what is proved of each of them holds of    *)
(* the run; the properties of the whole follow from that.                  *)
(***************************************************************************)
EXTENDS EngineSurface, SequenceTheorems, FiniteSetTheorems, WellFoundedInduction, TLAPS

-----------------------------------------------------------------------------
(* The agent tree, for every finite set of invocations, maximum depth and  *)
(* number of permits.                                                      *)

\* Types, and what the queues hold: invocations of their depth that have not
\* started yet, each once.
WaitersInv ==
  \A d \in Depths : \A i \in 1..Len(waiters[d]) :
    /\ stage[waiters[d][i]] \in {"waiting", "granted"}
    /\ depth[waiters[d][i]] = d
    /\ \A j \in 1..Len(waiters[d]) : waiters[d][i] = waiters[d][j] => i = j

TreeInv ==
  /\ TreeTypeOK
  /\ \A c \in Invocations : stage[c] # "none" => depth[c] \in Depths /\ parent[c] \in Agents
  /\ WaitersInv

-----------------------------------------------------------------------------
(* The semaphore.                                                          *)

\* One hand-over wakes at most one task: a pending waiter of that depth.
LEMMA Wakes ==
  ASSUME TreeInv, NEW d \in Depths, NEW v \in Nat
  PROVE  \/ Woken(d, v) = {}
         \/ \E w \in Invocations : /\ Woken(d, v) = {w} /\ v > 0
                                   /\ stage[w] = "waiting" /\ depth[w] = d
<1> SUFFICES ASSUME NEW w \in Woken(d, v)
             PROVE  /\ Woken(d, v) = {w} /\ v > 0 /\ w \in Invocations
                    /\ stage[w] = "waiting" /\ depth[w] = d
  OBVIOUS
<1>1. w \in Invocations /\ v > 0
  BY DEF Woken
<1>2. PICK i \in Pending(d) : w = waiters[d][i] /\ \A j \in Pending(d) : i <= j
  BY DEF Woken
<1>3. i \in 1..Len(waiters[d]) /\ stage[w] = "waiting" /\ Pending(d) \subseteq Int
  BY <1>2 DEF Pending
<1>4. depth[w] = d
  BY <1>2, <1>3 DEF TreeInv, WaitersInv
<1>5. ASSUME NEW x \in Woken(d, v)
      PROVE  x = w
  <2>1. PICK k \in Pending(d) : x = waiters[d][k] /\ \A j \in Pending(d) : k <= j
    BY DEF Woken
  <2>2. i = k
    BY <1>2, <1>3, <2>1
  <2> QED BY <1>2, <2>1, <2>2
<1> QED BY <1>1, <1>3, <1>4, <1>5

\* The holders of a depth are finitely many.
LEMMA HoldersFinite ==
  ASSUME NEW d
  PROVE  IsFiniteSet(Holders(d)) /\ Cardinality(Holders(d)) \in Nat
BY FS_Subset, FS_CardinalityType, TreeAssumption DEF TreeAssumption, Holders

\* Ending a holder: its permit goes to the next waiter or back to the count.
LEMMA ReleasedPermit ==
  ASSUME TreeInv, PermitsConserved, NEW c \in Invocations, NEW to \in Ended,
         stage[c] \in Running \cup {"granted"}, depth' = depth,
         NEW d \in Depths, depth[c] = d, NEW v \in Nat, v = value[d] + 1,
         MoveAndWake(c, to, d, v)
  PROVE  /\ PermitsConserved'
         /\ value' \in [Depths -> 0..MaximumParallel]
         /\ stage' \in [Agents -> Stages]
         /\ \A a \in Agents \ {c} :
              stage'[a] = stage[a] \/ (stage[a] = "waiting" /\ stage'[a] = "granted")
         /\ stage'[c] = to
<1> DEFINE W == Woken(d, v)
<1>1. /\ value \in [Depths -> 0..MaximumParallel] /\ c \in Holders(d)
      /\ stage \in [Agents -> Stages] /\ c \in Agents /\ MaximumParallel \in Nat
  BY TreeAssumption DEF TreeInv, TreeTypeOK, Holders, TreeAssumption, Agents
<1>2. /\ value' = [value EXCEPT ![d] = v - Cardinality(W)]
      /\ stage' = [a \in Agents |-> IF a = c THEN to
                                    ELSE IF a \in W THEN "granted" ELSE stage[a]]
  BY DEF MoveAndWake
<1>3. \/ W = {} /\ Cardinality(W) = 0
      \/ \E w \in Invocations : /\ W = {w} /\ Cardinality(W) = 1
                                /\ stage[w] = "waiting" /\ depth[w] = d
  <2>1. CASE W = {}
    BY <2>1, FS_EmptySet
  <2>2. CASE W # {}
    <3>1. PICK w \in Invocations : W = {w} /\ stage[w] = "waiting" /\ depth[w] = d
      BY <2>2, Wakes
    <3> QED BY <3>1, FS_Singleton
  <2> QED BY <2>1, <2>2
<1>4. /\ \A e \in Depths \ {d} : Holders(e)' = Holders(e)
      /\ Holders(d)' = (Holders(d) \ {c}) \cup W
      /\ W \cap Holders(d) = {}
  <2>1. Invocations \subseteq Agents
    BY DEF Agents
  <2>2. to \notin Running \cup {"granted"}
    BY DEF Running, Ended
  <2> HIDE DEF W
  <2>3. \A e \in Depths \ {d} : Holders(e)' = Holders(e)
    BY <1>1, <1>2, <1>3, <2>1, <2>2 DEF Holders
  <2>4. Holders(d)' = (Holders(d) \ {c}) \cup W
    <3>1. \A x \in Invocations :
            stage'[x] = IF x = c THEN to ELSE IF x \in W THEN "granted" ELSE stage[x]
      BY <1>1, <1>2, <2>1
    <3>2. \A x \in W : x \in Invocations /\ depth[x] = d /\ x # c
      BY <1>3 DEF Running
    <3> QED BY <2>2, <3>1, <3>2 DEF Holders
  <2>5. W \cap Holders(d) = {}
    BY <1>3 DEF Holders, Running
  <2> QED BY <2>3, <2>4, <2>5
<1> HIDE DEF W
<1>5. Cardinality(Holders(d) \ {c}) = Cardinality(Holders(d)) - 1
  BY <1>1, HoldersFinite, FS_RemoveElement
<1>6. Cardinality(Holders(d)') = Cardinality(Holders(d)) - 1 + Cardinality(W)
  <2>1. IsFiniteSet(Holders(d) \ {c})
    BY HoldersFinite, FS_Subset
  <2>2. CASE W = {} /\ Cardinality(W) = 0
    BY <1>4, <1>5, <2>2, HoldersFinite
  <2>3. ASSUME NEW w \in Invocations, W = {w}, Cardinality(W) = 1
        PROVE  Cardinality(Holders(d)') = Cardinality(Holders(d)) - 1 + Cardinality(W)
    <3>1. w \notin Holders(d) \ {c}
      BY <1>4, <2>3
    <3>2. Cardinality((Holders(d) \ {c}) \cup {w}) = Cardinality(Holders(d) \ {c}) + 1
      BY <2>1, <3>1, FS_AddElement
    <3> QED BY <1>4, <1>5, <2>3, <3>2
  <2> QED BY <1>3, <2>2, <2>3
<1>7. value[d] + Cardinality(Holders(d)) = MaximumParallel /\ Cardinality(Holders(d)) \in Nat
  BY <1>1, HoldersFinite DEF PermitsConserved
<1>8. Cardinality(Holders(d)') \in Nat /\ value[d] \in Nat /\ Cardinality(W) \in {0, 1}
  <2>1. IsFiniteSet(Holders(d)')
    <3>1. Holders(d)' \subseteq Invocations
      BY DEF Holders
    <3> QED BY <3>1, FS_Subset, TreeAssumption DEF TreeAssumption
  <2>2. Cardinality(Holders(d)') \in Nat
    BY <2>1, FS_CardinalityType
  <2>3. value[d] \in Nat
    BY <1>1
  <2> QED BY <1>3, <2>2, <2>3
<1>9. value'[d] + Cardinality(Holders(d)') = MaximumParallel /\ value'[d] \in 0..MaximumParallel
  BY <1>1, <1>2, <1>6, <1>7, <1>8
<1>10. PermitsConserved'
  <2> SUFFICES ASSUME NEW e \in Depths
               PROVE  value'[e] + Cardinality(Holders(e)') = MaximumParallel
    BY DEF PermitsConserved
  <2>1. CASE e = d
    BY <1>9, <2>1
  <2>2. CASE e # d
    <3>1. value'[e] = value[e] /\ Holders(e)' = Holders(e)
      BY <1>1, <1>2, <1>4, <2>2
    <3> QED BY <3>1 DEF PermitsConserved
  <2> QED BY <2>1, <2>2
<1>11. value' \in [Depths -> 0..MaximumParallel]
  BY <1>1, <1>2, <1>9
<1>12. stage' \in [Agents -> Stages]
  BY <1>1, <1>2 DEF Stages, Live
<1>13. /\ \A a \in Agents \ {c} :
            stage'[a] = stage[a] \/ (stage[a] = "waiting" /\ stage'[a] = "granted")
       /\ stage'[c] = to
  BY <1>1, <1>2, <1>3
<1> QED BY <1>10, <1>11, <1>12, <1>13

\* A waiter that starts keeps the permit it was handed; one more may be handed
\* to the next.
LEMMA StartedPermit ==
  ASSUME TreeInv, PermitsConserved, NEW c \in Invocations, stage[c] = "granted",
         depth' = depth, NEW d \in Depths, depth[c] = d,
         MoveAndWake(c, "thinking", d, value[d])
  PROVE  /\ PermitsConserved'
         /\ value' \in [Depths -> 0..MaximumParallel]
         /\ stage' \in [Agents -> Stages]
         /\ \A a \in Agents \ {c} :
              stage'[a] = stage[a] \/ (stage[a] = "waiting" /\ stage'[a] = "granted")
         /\ stage'[c] = "thinking"
<1> DEFINE W == Woken(d, value[d])
<1>1. /\ value \in [Depths -> 0..MaximumParallel] /\ c \in Holders(d)
      /\ stage \in [Agents -> Stages] /\ c \in Agents /\ MaximumParallel \in Nat
      /\ value[d] \in Nat
  BY TreeAssumption DEF TreeInv, TreeTypeOK, Holders, TreeAssumption, Agents
<1>2. /\ value' = [value EXCEPT ![d] = value[d] - Cardinality(W)]
      /\ stage' = [a \in Agents |-> IF a = c THEN "thinking"
                                    ELSE IF a \in W THEN "granted" ELSE stage[a]]
  BY DEF MoveAndWake
<1>3. \/ W = {} /\ Cardinality(W) = 0
      \/ \E w \in Invocations : /\ W = {w} /\ Cardinality(W) = 1 /\ value[d] > 0
                                /\ stage[w] = "waiting" /\ depth[w] = d
  <2>1. CASE W = {}
    BY <2>1, FS_EmptySet
  <2>2. CASE W # {}
    <3>1. PICK w \in Invocations :
            W = {w} /\ value[d] > 0 /\ stage[w] = "waiting" /\ depth[w] = d
      BY <1>1, <2>2, Wakes
    <3> QED BY <3>1, FS_Singleton
  <2> QED BY <2>1, <2>2
<1> HIDE DEF W
<1>4. \A x \in Invocations :
        stage'[x] = IF x = c THEN "thinking" ELSE IF x \in W THEN "granted" ELSE stage[x]
  <2>1. Invocations \subseteq Agents
    BY DEF Agents
  <2> QED BY <1>1, <1>2, <2>1
<1>5. \A e \in Depths \ {d} : Holders(e)' = Holders(e)
  BY <1>3, <1>4 DEF Holders, Running
<1>6. Holders(d)' = Holders(d) \cup W
  <2>1. \A x \in W : x \in Invocations /\ depth[x] = d /\ x # c
    BY <1>3
  <2> QED BY <1>1, <1>4, <2>1 DEF Holders, Running
<1>7. value[d] + Cardinality(Holders(d)) = MaximumParallel /\ Cardinality(Holders(d)) \in Nat
  BY HoldersFinite DEF PermitsConserved
<1>8. Cardinality(Holders(d)') = Cardinality(Holders(d)) + Cardinality(W)
  <2>1. CASE W = {} /\ Cardinality(W) = 0
    BY <1>6, <1>7, <2>1
  <2>2. ASSUME NEW w \in Invocations, W = {w}, Cardinality(W) = 1, stage[w] = "waiting"
        PROVE  Cardinality(Holders(d)') = Cardinality(Holders(d)) + Cardinality(W)
    <3>1. w \notin Holders(d)
      BY <2>2 DEF Holders, Running
    <3>2. Cardinality(Holders(d) \cup {w}) = Cardinality(Holders(d)) + 1
      BY <3>1, HoldersFinite, FS_AddElement
    <3> QED BY <1>6, <2>2, <3>2
  <2> QED BY <1>3, <2>1, <2>2
<1>9. value'[d] + Cardinality(Holders(d)') = MaximumParallel /\ value'[d] \in 0..MaximumParallel
  BY <1>1, <1>2, <1>3, <1>7, <1>8
<1>10. PermitsConserved'
  <2> SUFFICES ASSUME NEW e \in Depths
               PROVE  value'[e] + Cardinality(Holders(e)') = MaximumParallel
    BY DEF PermitsConserved
  <2>1. CASE e = d
    BY <1>9, <2>1
  <2>2. CASE e # d
    <3>1. value'[e] = value[e] /\ Holders(e)' = Holders(e)
      BY <1>1, <1>2, <1>5, <2>2
    <3> QED BY <3>1 DEF PermitsConserved
  <2> QED BY <2>1, <2>2
<1>11. value' \in [Depths -> 0..MaximumParallel]
  BY <1>1, <1>2, <1>9
<1>12. stage' \in [Agents -> Stages]
  BY <1>1, <1>2 DEF Stages, Live, Running
<1>13. /\ \A a \in Agents \ {c} :
            stage'[a] = stage[a] \/ (stage[a] = "waiting" /\ stage'[a] = "granted")
       /\ stage'[c] = "thinking"
  BY <1>1, <1>2, <1>3
<1> QED BY <1>10, <1>11, <1>12, <1>13

\* Permits and holders that do not change keep the balance.
LEMMA SamePermits ==
  ASSUME PermitsConserved, value' = value,
         \A d \in Depths : Holders(d)' = Holders(d)
  PROVE  PermitsConserved'
BY DEF PermitsConserved

-----------------------------------------------------------------------------
(* The queues.                                                             *)

\* A queue is undisturbed while its members neither start nor change depth.
LEMMA QueueKept ==
  ASSUME TreeInv, waiters' = waiters,
         \A c \in Invocations : stage[c] \in {"waiting", "granted"} =>
           stage'[c] \in {"waiting", "granted"} /\ depth'[c] = depth[c]
  PROVE  WaitersInv'
<1> SUFFICES ASSUME NEW d \in Depths, NEW i \in 1..Len(waiters[d])
             PROVE  /\ stage'[waiters[d][i]] \in {"waiting", "granted"}
                    /\ depth'[waiters[d][i]] = d
                    /\ \A j \in 1..Len(waiters[d]) : waiters[d][i] = waiters[d][j] => i = j
  BY DEF WaitersInv
<1>1. waiters[d] \in Seq(Invocations)
  BY DEF TreeInv, TreeTypeOK
<1>2. waiters[d][i] \in Invocations
  BY <1>1
<1> QED BY <1>2 DEF TreeInv, WaitersInv

\* Removing the entry at one position.
LEMMA RemoveEntry ==
  ASSUME NEW s \in Seq(Invocations), NEW i \in 1..Len(s)
  PROVE  LET t == SubSeq(s, 1, i-1) \o SubSeq(s, i+1, Len(s)) IN
         /\ t \in Seq(Invocations)
         /\ Len(t) = Len(s) - 1
         /\ \A j \in 1..Len(t) : t[j] = IF j < i THEN s[j] ELSE s[j+1]
<1> DEFINE u == SubSeq(s, 1, i-1)
           v == SubSeq(s, i+1, Len(s))
<1>1. Len(s) \in Nat
  OBVIOUS
<1>2. /\ u \in Seq(Invocations) /\ Len(u) = i - 1
      /\ \A j \in 1..(i-1) : u[j] = s[j]
  BY <1>1
<1>3. /\ v \in Seq(Invocations) /\ Len(v) = Len(s) - i
      /\ \A j \in 1..(Len(s) - i) : v[j] = s[i + j]
  BY <1>1
<1> HIDE DEF u, v
<1>4. /\ u \o v \in Seq(Invocations) /\ Len(u \o v) = Len(s) - 1
      /\ \A j \in 1..(Len(s) - 1) : (u \o v)[j] = IF j < i THEN s[j] ELSE s[j+1]
  <2>1. /\ u \o v \in Seq(Invocations) /\ Len(u \o v) = Len(u) + Len(v)
        /\ \A j \in 1..(Len(u) + Len(v)) :
             (u \o v)[j] = IF j <= Len(u) THEN u[j] ELSE v[j - Len(u)]
    BY <1>2, <1>3, ConcatProperties
  <2> QED BY <1>1, <1>2, <1>3, <2>1
<1> QED BY <1>4 DEF u, v

\* A task leaves its queue and nobody else in a queue is disturbed.
LEMMA QueueLeft ==
  ASSUME TreeInv, NEW c \in Invocations, NEW d \in Depths, Withdraw(c, d), depth' = depth,
         depth[c] = d,
         \A a \in Invocations \ {c} : stage[a] \in {"waiting", "granted"} =>
           stage'[a] \in {"waiting", "granted"}
  PROVE  WaitersInv' /\ waiters' \in [Depths -> Seq(Invocations)]
<1> DEFINE s == waiters[d]
<1>1. /\ waiters \in [Depths -> Seq(Invocations)] /\ s \in Seq(Invocations) /\ Len(s) \in Nat
      /\ WaitersInv
  BY DEF TreeInv, TreeTypeOK
<1>2. PICK i \in 1..Len(s) :
        /\ s[i] = c
        /\ waiters' = [waiters EXCEPT ![d] = SubSeq(s, 1, i-1) \o SubSeq(s, i+1, Len(s))]
  BY DEF Withdraw
<1>3. /\ waiters'[d] \in Seq(Invocations) /\ Len(waiters'[d]) = Len(s) - 1
      /\ \A j \in 1..Len(waiters'[d]) : waiters'[d][j] = IF j < i THEN s[j] ELSE s[j+1]
  BY <1>1, <1>2, RemoveEntry
<1>4. \A e \in Depths \ {d} : waiters'[e] = waiters[e]
  BY <1>1, <1>2
<1>5. waiters' \in [Depths -> Seq(Invocations)]
  BY <1>1, <1>2, <1>3
<1>6. \A j \in 1..Len(s) : /\ s[j] \in Invocations /\ depth[s[j]] = d
                           /\ stage[s[j]] \in {"waiting", "granted"}
                           /\ \A k \in 1..Len(s) : s[j] = s[k] => j = k
  BY <1>1 DEF WaitersInv
<1>7. ASSUME NEW j \in 1..Len(waiters'[d])
      PROVE  /\ stage'[waiters'[d][j]] \in {"waiting", "granted"}
             /\ depth'[waiters'[d][j]] = d
             /\ \A k \in 1..Len(waiters'[d]) : waiters'[d][j] = waiters'[d][k] => j = k
  <2> DEFINE at(k) == IF k < i THEN k ELSE k + 1
  <2>1. ASSUME NEW k \in 1..Len(waiters'[d])
        PROVE  at(k) \in 1..Len(s) /\ at(k) # i /\ waiters'[d][k] = s[at(k)]
    <3>1. k \in 1..(Len(s) - 1) /\ i \in 1..Len(s) /\ Len(s) \in Nat
      BY <1>1, <1>3
    <3>2. waiters'[d][k] = IF k < i THEN s[k] ELSE s[k+1]
      BY <1>3
    <3> HIDE DEF s
    <3>3. at(k) \in 1..Len(s) /\ at(k) # i
      BY <3>1
    <3> QED BY <3>2, <3>3
  <2>2. ASSUME NEW k \in 1..Len(waiters'[d]), NEW l \in 1..Len(waiters'[d]), at(k) = at(l)
        PROVE  k = l
    <3>1. k \in Int /\ l \in Int /\ i \in Int
      BY <1>1, <1>3
    <3> QED BY <2>2, <3>1
  <2> HIDE DEF at
  <2>3. s[at(j)] # c /\ s[at(j)] \in Invocations
    <3>1. at(j) \in 1..Len(s) /\ at(j) # i
      BY <2>1
    <3>2. s[at(j)] # s[i]
      BY <1>6, <3>1
    <3> QED BY <1>2, <1>6, <3>1, <3>2
  <2>4. waiters'[d][j] = s[at(j)] /\ at(j) \in 1..Len(s)
    BY <2>1
  <2>5. stage'[s[at(j)]] \in {"waiting", "granted"} /\ depth'[s[at(j)]] = d
    BY <1>6, <2>3, <2>4
  <2>6. ASSUME NEW k \in 1..Len(waiters'[d]), waiters'[d][j] = waiters'[d][k]
        PROVE  j = k
    <3>1. s[at(j)] = s[at(k)] /\ at(k) \in 1..Len(s)
      BY <2>1, <2>4, <2>6
    <3>2. at(j) = at(k)
      BY <1>6, <2>4, <3>1
    <3> QED BY <2>2, <3>2
  <2> QED BY <2>4, <2>5, <2>6
<1>8. ASSUME NEW e \in Depths \ {d}, NEW j \in 1..Len(waiters[e])
      PROVE  /\ stage'[waiters[e][j]] \in {"waiting", "granted"}
             /\ depth'[waiters[e][j]] = e
             /\ \A k \in 1..Len(waiters[e]) : waiters[e][j] = waiters[e][k] => j = k
  <2>1. waiters[e] \in Seq(Invocations) /\ waiters[e][j] \in Invocations
    BY <1>1
  <2>2. depth[waiters[e][j]] = e /\ stage[waiters[e][j]] \in {"waiting", "granted"}
    BY <1>1 DEF WaitersInv
  <2> QED BY <1>1, <2>1, <2>2 DEF WaitersInv
<1>9. WaitersInv'
  BY <1>4, <1>7, <1>8 DEF WaitersInv
<1> QED BY <1>5, <1>9

-----------------------------------------------------------------------------
(* One lemma per kind of step: types, queues and permits are kept.         *)

\* Nothing is acquired, released, queued or started.
LEMMA CalmStep ==
  ASSUME TreeInv, PermitsConserved, UNCHANGED <<value, waiters>>,
         stage' \in [Agents -> Stages], depth' \in [Agents -> 0..MaximumDepth],
         parent' \in [Agents -> Agents \cup {NoAgent}], doomed' \subseteq Agents,
         \A c \in Invocations : stage'[c] # "none" => depth'[c] \in Depths /\ parent'[c] \in Agents,
         \A c \in Invocations : stage[c] \in {"waiting", "granted"} =>
           stage'[c] = stage[c] /\ depth'[c] = depth[c],
         \A c \in Invocations :
           \/ stage[c] \in Running /\ stage'[c] \in Running /\ depth'[c] = depth[c]
           \/ stage'[c] = stage[c] /\ depth'[c] = depth[c]
           \/ stage[c] \notin Running \cup {"granted"} /\ stage'[c] \notin Running \cup {"granted"}
  PROVE  TreeInv' /\ PermitsConserved'
<1>1. TreeTypeOK'
  BY DEF TreeInv, TreeTypeOK
<1>2. WaitersInv'
  BY QueueKept
<1>3. \A d \in Depths : Holders(d)' = Holders(d)
  BY DEF Holders, Running
<1>4. PermitsConserved'
  BY <1>3, SamePermits
<1> QED BY <1>1, <1>2, <1>4 DEF TreeInv

\* An agent's run is over.
LEMMA EndStep ==
  ASSUME TreeInv, PermitsConserved, NEW a \in Agents, NEW how \in Ended,
         stage[a] \in Running, End(a, how), doomed' \subseteq Agents
  PROVE  TreeInv' /\ PermitsConserved'
<1>0. /\ stage \in [Agents -> Stages] /\ value \in [Depths -> 0..MaximumParallel]
      /\ depth \in [Agents -> 0..MaximumDepth] /\ Invocations \subseteq Agents
      /\ how \in Stages /\ UNCHANGED <<parent, depth, waiters>> /\ how \notin Running \cup {"granted"}
  BY DEF TreeInv, TreeTypeOK, Agents, Stages, End, Ended, Running
<1>1. CASE a = Root
  <2>1. stage' = [stage EXCEPT ![a] = how] /\ value' = value
    BY <1>1 DEF End
  <2>2. \A c \in Invocations : stage'[c] = stage[c]
    BY <1>0, <1>1, <2>1, TreeAssumption DEF TreeAssumption
  <2>3. stage' \in [Agents -> Stages]
    BY <1>0, <2>1
  <2> QED BY <1>0, <2>1, <2>2, <2>3, CalmStep DEF TreeInv, TreeTypeOK
<1>2. CASE a # Root
  <2>1. a \in Invocations /\ stage[a] # "none"
    BY <1>2 DEF Agents, Running
  <2>2. depth[a] \in Depths
    BY <2>1 DEF TreeInv
  <2>3. MoveAndWake(a, how, depth[a], value[depth[a]] + 1)
    BY <1>2 DEF End, Pool
  <2>4. value[depth[a]] + 1 \in Nat
    BY <1>0, <2>2
  <2>5. /\ PermitsConserved'
        /\ value' \in [Depths -> 0..MaximumParallel]
        /\ stage' \in [Agents -> Stages]
        /\ \A b \in Agents \ {a} :
             stage'[b] = stage[b] \/ (stage[b] = "waiting" /\ stage'[b] = "granted")
        /\ stage'[a] = how
    BY <1>0, <2>1, <2>2, <2>3, <2>4, ReleasedPermit
  <2>6. \A c \in Invocations : stage[c] \in {"waiting", "granted"} =>
          stage'[c] \in {"waiting", "granted"} /\ depth'[c] = depth[c]
    BY <1>0, <2>5 DEF Running
  <2>7. WaitersInv'
    BY <1>0, <2>6, QueueKept
  <2>8. \A c \in Invocations : stage'[c] # "none" => depth'[c] \in Depths /\ parent'[c] \in Agents
    BY <1>0, <2>1, <2>5 DEF TreeInv
  <2>9. TreeTypeOK'
    BY <1>0, <2>5 DEF TreeInv, TreeTypeOK
  <2> QED BY <2>5, <2>7, <2>8, <2>9 DEF TreeInv
<1> QED BY <1>1, <1>2

LEMMA DelegateStep ==
  ASSUME TreeInv, PermitsConserved, NEW p \in Agents, NEW calls \in SUBSET Invocations,
         Delegate(p, calls)
  PROVE  TreeInv' /\ PermitsConserved'
<1>1. /\ stage[p] = "thinking" /\ depth[p] < MaximumDepth /\ MaximumDepth \in Nat
      /\ \A c \in calls : stage[c] = "none"
      /\ stage' = [a \in Agents |-> IF a = p THEN "tools"
                                    ELSE IF a \in calls THEN "called" ELSE stage[a]]
      /\ parent' = [a \in Agents |-> IF a \in calls THEN p ELSE parent[a]]
      /\ depth' = [a \in Agents |-> IF a \in calls THEN depth[p] + 1 ELSE depth[a]]
      /\ UNCHANGED <<value, waiters, doomed>>
  BY TreeAssumption DEF Delegate, TreeAssumption
<1>2. /\ stage \in [Agents -> Stages] /\ depth \in [Agents -> 0..MaximumDepth]
      /\ parent \in [Agents -> Agents \cup {NoAgent}] /\ doomed \subseteq Agents
      /\ Invocations \subseteq Agents
  BY DEF TreeInv, TreeTypeOK, Agents
<1>3. stage' \in [Agents -> Stages]
  BY <1>1, <1>2 DEF Stages, Live, Running
<1>4. depth[p] + 1 \in Depths
  BY <1>1, <1>2 DEF Depths
<1>5. depth' \in [Agents -> 0..MaximumDepth] /\ parent' \in [Agents -> Agents \cup {NoAgent}]
  BY <1>1, <1>2, <1>4 DEF Depths
<1>6. \A c \in Invocations : stage'[c] # "none" => depth'[c] \in Depths /\ parent'[c] \in Agents
  BY <1>1, <1>2, <1>4 DEF TreeInv
<1>7. \A c \in Invocations : stage[c] \in {"waiting", "granted"} =>
        stage'[c] = stage[c] /\ depth'[c] = depth[c]
  BY <1>1, <1>2
<1>8. \A c \in Invocations :
        \/ stage[c] \in Running /\ stage'[c] \in Running /\ depth'[c] = depth[c]
        \/ stage'[c] = stage[c] /\ depth'[c] = depth[c]
        \/ stage[c] \notin Running \cup {"granted"} /\ stage'[c] \notin Running \cup {"granted"}
  BY <1>1, <1>2 DEF Running
<1> QED BY <1>1, <1>2, <1>3, <1>5, <1>6, <1>7, <1>8, CalmStep

\* One agent moves between stages in which it holds no permit, or between two
\* in which it holds one, and is in no queue.
LEMMA CalmMove ==
  ASSUME TreeInv, PermitsConserved, NEW a \in Agents, NEW to \in Stages \ {"none"},
         stage' = [stage EXCEPT ![a] = to], UNCHANGED <<parent, depth, value, waiters>>,
         doomed' \subseteq Agents, stage[a] \notin {"none", "waiting", "granted"},
         \/ stage[a] \in Running /\ to \in Running
         \/ stage[a] \notin Running /\ to \notin Running \cup {"granted"}
  PROVE  TreeInv' /\ PermitsConserved'
<1>1. /\ stage \in [Agents -> Stages] /\ depth \in [Agents -> 0..MaximumDepth]
      /\ parent \in [Agents -> Agents \cup {NoAgent}]
      /\ Invocations \subseteq Agents
  BY DEF TreeInv, TreeTypeOK, Agents
<1>2. stage' \in [Agents -> Stages] /\ \A c \in Agents : stage'[c] = IF c = a THEN to ELSE stage[c]
  BY <1>1
<1>3. \A c \in Invocations : stage'[c] # "none" => depth'[c] \in Depths /\ parent'[c] \in Agents
  BY <1>1, <1>2 DEF TreeInv
<1>4. \A c \in Invocations : stage[c] \in {"waiting", "granted"} =>
        stage'[c] = stage[c] /\ depth'[c] = depth[c]
  BY <1>1, <1>2
<1>5. \A c \in Invocations :
        \/ stage[c] \in Running /\ stage'[c] \in Running /\ depth'[c] = depth[c]
        \/ stage'[c] = stage[c] /\ depth'[c] = depth[c]
        \/ stage[c] \notin Running \cup {"granted"} /\ stage'[c] \notin Running \cup {"granted"}
  BY <1>1, <1>2
<1> QED BY <1>1, <1>2, <1>3, <1>4, <1>5, CalmStep

LEMMA EnterStep ==
  ASSUME TreeInv, PermitsConserved, NEW c \in Invocations, Enter(c)
  PROVE  TreeInv' /\ PermitsConserved'
<1> DEFINE d == depth[c]
<1>1. /\ stage \in [Agents -> Stages] /\ depth \in [Agents -> 0..MaximumDepth]
      /\ value \in [Depths -> 0..MaximumParallel] /\ waiters \in [Depths -> Seq(Invocations)]
      /\ c \in Agents /\ d \in Depths /\ Invocations \subseteq Agents
      /\ stage[c] = "called" /\ UNCHANGED <<parent, depth, doomed>>
  BY DEF TreeInv, TreeTypeOK, Agents, Enter
<1>2. CASE /\ ~Locked(d) /\ waiters' = waiters
           /\ value' = [value EXCEPT ![d] = @ - 1]
           /\ stage' = [stage EXCEPT ![c] = "thinking"]
  <2>1. value[d] # 0 /\ value[d] \in Nat /\ value[d] <= MaximumParallel /\ MaximumParallel \in Nat
    BY <1>1, <1>2, TreeAssumption DEF Locked, TreeAssumption
  <2>2. /\ value' \in [Depths -> 0..MaximumParallel] /\ value'[d] = value[d] - 1
        /\ \A e \in Depths \ {d} : value'[e] = value[e]
    BY <1>1, <1>2, <2>1
  <2>3. /\ stage' \in [Agents -> Stages]
        /\ \A a \in Agents : stage'[a] = IF a = c THEN "thinking" ELSE stage[a]
    BY <1>1, <1>2 DEF Stages, Live, Running
  <2>4. /\ Holders(d)' = Holders(d) \cup {c} /\ c \notin Holders(d)
        /\ \A e \in Depths \ {d} : Holders(e)' = Holders(e)
    BY <1>1, <2>3 DEF Holders, Running
  <2>5. Cardinality(Holders(d)') = Cardinality(Holders(d)) + 1
    BY <2>4, HoldersFinite, FS_AddElement
  <2>6. PermitsConserved'
    <3> SUFFICES ASSUME NEW e \in Depths
                 PROVE  value'[e] + Cardinality(Holders(e)') = MaximumParallel
      BY DEF PermitsConserved
    <3>1. CASE e = d
      BY <1>1, <2>1, <2>2, <2>5, <3>1, HoldersFinite DEF PermitsConserved
    <3>2. CASE e # d
      BY <1>1, <2>2, <2>4, <3>2 DEF PermitsConserved
    <3> QED BY <3>1, <3>2
  <2>7. WaitersInv'
    <3>1. \A x \in Invocations : stage[x] \in {"waiting", "granted"} =>
            stage'[x] \in {"waiting", "granted"} /\ depth'[x] = depth[x]
      BY <1>1, <2>3
    <3> QED BY <1>2, <3>1, QueueKept
  <2>8. TreeTypeOK'
    BY <1>1, <1>2, <2>2, <2>3 DEF TreeInv, TreeTypeOK
  <2>9. \A x \in Invocations : stage'[x] # "none" => depth'[x] \in Depths /\ parent'[x] \in Agents
    BY <1>1, <2>3 DEF TreeInv
  <2> QED BY <2>6, <2>7, <2>8, <2>9 DEF TreeInv
<1>3. CASE /\ Locked(d) /\ value' = value
           /\ waiters' = [waiters EXCEPT ![d] = Append(@, c)]
           /\ stage' = [stage EXCEPT ![c] = "waiting"]
  <2> DEFINE s == waiters[d]
  <2>1. /\ s \in Seq(Invocations) /\ Len(s) \in Nat
        /\ waiters' \in [Depths -> Seq(Invocations)] /\ waiters'[d] = Append(s, c)
        /\ \A e \in Depths \ {d} : waiters'[e] = waiters[e]
    BY <1>1, <1>3
  <2>2. /\ stage' \in [Agents -> Stages]
        /\ \A a \in Agents : stage'[a] = IF a = c THEN "waiting" ELSE stage[a]
    BY <1>1, <1>3 DEF Stages, Live
  <2>3. /\ Len(Append(s, c)) = Len(s) + 1
        /\ \A i \in 1..(Len(s) + 1) : Append(s, c)[i] = IF i = Len(s) + 1 THEN c ELSE s[i]
    BY <2>1
  <2>4. \A e \in Depths : \A i \in 1..Len(waiters[e]) :
          waiters[e][i] \in Invocations /\ waiters[e][i] # c
    BY <1>1 DEF TreeInv, WaitersInv
  <2>5. WaitersInv'
    <3> SUFFICES ASSUME NEW e \in Depths, NEW i \in 1..Len(waiters'[e])
                 PROVE  /\ stage'[waiters'[e][i]] \in {"waiting", "granted"}
                        /\ depth'[waiters'[e][i]] = e
                        /\ \A j \in 1..Len(waiters'[e]) :
                             waiters'[e][i] = waiters'[e][j] => i = j
      BY DEF WaitersInv
    <3>1. CASE e # d
      <4>1. i \in 1..Len(waiters[e]) /\ waiters'[e] = waiters[e]
        BY <2>1, <3>1
      <4> QED BY <1>1, <2>2, <2>4, <4>1 DEF TreeInv, WaitersInv
    <3>2. CASE e = d
      <4> HIDE DEF s
      <4>1. i \in 1..(Len(s) + 1) /\ Len(waiters'[e]) = Len(s) + 1 /\ waiters'[e] = Append(s, c)
        BY <2>1, <2>3, <3>2
      <4>2. \A k \in 1..Len(s) :
              /\ s[k] \in Invocations /\ s[k] # c /\ depth[s[k]] = d
              /\ stage[s[k]] \in {"waiting", "granted"}
              /\ \A j \in 1..Len(s) : s[k] = s[j] => k = j
        BY <1>1, <2>4 DEF TreeInv, WaitersInv, s
      <4>3. \A j \in 1..(Len(s) + 1) : j = Len(s) + 1 \/ j \in 1..Len(s)
        BY <2>1
      <4>4. CASE i = Len(s) + 1
        BY <1>1, <2>2, <2>3, <3>2, <4>1, <4>2, <4>3, <4>4
      <4>5. CASE i \in 1..Len(s)
        <5>1. Append(s, c)[i] = s[i]
          BY <2>1, <2>3, <4>5
        <5> QED BY <1>1, <2>2, <2>3, <3>2, <4>1, <4>2, <4>3, <4>5, <5>1
      <4> QED BY <4>1, <4>3, <4>4, <4>5
    <3> QED BY <3>1, <3>2
  <2>6. \A e \in Depths : Holders(e)' = Holders(e)
    BY <1>1, <2>2 DEF Holders, Running
  <2>7. PermitsConserved'
    BY <1>3, <2>6, SamePermits
  <2>8. TreeTypeOK'
    BY <1>1, <1>3, <2>1, <2>2 DEF TreeInv, TreeTypeOK
  <2>9. \A x \in Invocations : stage'[x] # "none" => depth'[x] \in Depths /\ parent'[x] \in Agents
    BY <1>1, <2>2 DEF TreeInv
  <2> QED BY <2>5, <2>7, <2>8, <2>9 DEF TreeInv
<1> QED BY <1>2, <1>3 DEF Enter, Pool

LEMMA StartStep ==
  ASSUME TreeInv, PermitsConserved, NEW c \in Invocations, Start(c)
  PROVE  TreeInv' /\ PermitsConserved'
<1> DEFINE d == depth[c]
<1>1. /\ c \in Agents /\ stage[c] = "granted" /\ d \in Depths /\ Invocations \subseteq Agents
      /\ UNCHANGED <<parent, depth, doomed>>
      /\ MoveAndWake(c, "thinking", d, value[d]) /\ Withdraw(c, d)
  BY DEF TreeInv, Start, Pool, Agents
<1>2. /\ PermitsConserved' /\ value' \in [Depths -> 0..MaximumParallel]
      /\ stage' \in [Agents -> Stages] /\ stage'[c] = "thinking"
      /\ \A a \in Agents \ {c} :
           stage'[a] = stage[a] \/ (stage[a] = "waiting" /\ stage'[a] = "granted")
  BY <1>1, StartedPermit
<1>3. WaitersInv' /\ waiters' \in [Depths -> Seq(Invocations)]
  <2>1. \A a \in Invocations \ {c} : stage[a] \in {"waiting", "granted"} =>
          stage'[a] \in {"waiting", "granted"}
    BY <1>1, <1>2
  <2> QED BY <1>1, <2>1, QueueLeft
<1>4. TreeTypeOK'
  BY <1>1, <1>2, <1>3 DEF TreeInv, TreeTypeOK
<1>5. \A x \in Invocations : stage'[x] # "none" => depth'[x] \in Depths /\ parent'[x] \in Agents
  BY <1>1, <1>2 DEF TreeInv
<1> QED BY <1>2, <1>3, <1>4, <1>5 DEF TreeInv

LEMMA UnwindStep ==
  ASSUME TreeInv, PermitsConserved, NEW a \in Agents, Unwind(a), stage[Root] \notin {"waiting", "granted"}
  PROVE  TreeInv' /\ PermitsConserved'
<1>1. /\ stage \in [Agents -> Stages] /\ value \in [Depths -> 0..MaximumParallel]
      /\ doomed \subseteq Agents /\ Invocations \subseteq Agents
  BY DEF TreeInv, TreeTypeOK, Agents
<1>2. doomed' \subseteq Agents
  BY <1>1 DEF Unwind, LiveChildren, Children
<1>3. CASE /\ stage[a] = "called" /\ stage' = [stage EXCEPT ![a] = "cancelled"]
           /\ UNCHANGED <<parent, depth, value, waiters>>
  BY <1>2, <1>3, CalmMove DEF Stages, Ended, Running
<1>4. CASE stage[a] \in Running /\ End(a, "cancelled")
  BY <1>2, <1>4, EndStep DEF Ended
<1>5. ASSUME stage[a] \in {"waiting", "granted"}
      PROVE  /\ a \in Invocations /\ depth[a] \in Depths
  BY <1>5, TreeAssumption DEF TreeInv, Agents
<1>6. CASE /\ stage[a] = "waiting" /\ stage' = [stage EXCEPT ![a] = "cancelled"]
           /\ value' = value /\ Withdraw(a, depth[a]) /\ UNCHANGED <<parent, depth>>
  <2>1. /\ stage' \in [Agents -> Stages]
        /\ \A b \in Agents : stage'[b] = IF b = a THEN "cancelled" ELSE stage[b]
    BY <1>1, <1>6 DEF Stages, Ended
  <2>2. WaitersInv' /\ waiters' \in [Depths -> Seq(Invocations)]
    BY <1>1, <1>5, <1>6, <2>1, QueueLeft
  <2>3. \A d \in Depths : Holders(d)' = Holders(d)
    BY <1>1, <1>6, <2>1 DEF Holders, Running
  <2>4. PermitsConserved'
    BY <1>6, <2>3, SamePermits
  <2>5. TreeTypeOK'
    BY <1>2, <1>6, <2>1, <2>2 DEF TreeInv, TreeTypeOK
  <2>6. \A x \in Invocations : stage'[x] # "none" => depth'[x] \in Depths /\ parent'[x] \in Agents
    BY <1>1, <1>6, <2>1 DEF TreeInv
  <2> QED BY <2>2, <2>4, <2>5, <2>6 DEF TreeInv
<1>7. CASE /\ stage[a] = "granted" /\ MoveAndWake(a, "cancelled", depth[a], value[depth[a]] + 1)
           /\ Withdraw(a, depth[a]) /\ UNCHANGED <<parent, depth>>
  <2>1. a \in Invocations /\ depth[a] \in Depths /\ value[depth[a]] + 1 \in Nat
    BY <1>1, <1>5, <1>7
  <2>2. /\ PermitsConserved' /\ value' \in [Depths -> 0..MaximumParallel]
        /\ stage' \in [Agents -> Stages] /\ stage'[a] = "cancelled"
        /\ \A b \in Agents \ {a} :
             stage'[b] = stage[b] \/ (stage[b] = "waiting" /\ stage'[b] = "granted")
    BY <1>7, <2>1, ReleasedPermit DEF Ended
  <2>3. \A b \in Invocations \ {a} : stage[b] \in {"waiting", "granted"} =>
          stage'[b] \in {"waiting", "granted"}
    BY <1>1, <2>2
  <2>4. WaitersInv' /\ waiters' \in [Depths -> Seq(Invocations)]
    BY <1>7, <2>1, <2>3, QueueLeft
  <2>5. TreeTypeOK'
    BY <1>2, <1>7, <2>2, <2>4 DEF TreeInv, TreeTypeOK
  <2>6. \A x \in Invocations : stage'[x] # "none" => depth'[x] \in Depths /\ parent'[x] \in Agents
    BY <1>1, <1>7, <2>1, <2>2 DEF TreeInv
  <2> QED BY <2>2, <2>4, <2>5, <2>6 DEF TreeInv
<1> QED BY <1>3, <1>4, <1>6, <1>7 DEF Unwind, Pool

\* The root never waits for a permit.
RootRuns == stage[Root] \in Running \cup Ended

LEMMA RootStep ==
  ASSUME TreeInv, RootRuns, TreeNext
  PROVE  RootRuns'
<1>1. stage \in [Agents -> Stages] /\ Root \in Agents /\ Root \notin Invocations
  BY TreeAssumption DEF TreeInv, TreeTypeOK, Agents, TreeAssumption
<1>2. ASSUME NEW c \in Agents, NEW to \in Running \cup Ended, NEW d, NEW v, MoveAndWake(c, to, d, v)
      PROVE  RootRuns'
  <2>1. stage'[Root] = IF Root = c THEN to ELSE stage[Root]
    BY <1>1, <1>2 DEF MoveAndWake, Woken
  <2> QED BY <2>1 DEF RootRuns
<1>3. ASSUME NEW a \in Agents, NEW to \in Running \cup Ended, End(a, to)
      PROVE  RootRuns'
  <2>1. CASE a = Root
    BY <1>1, <1>3, <2>1 DEF End, RootRuns
  <2>2. CASE a # Root
    BY <1>2, <1>3, <2>2 DEF End
  <2> QED BY <2>1, <2>2
<1>4. ASSUME NEW a \in Agents, NEW calls \in SUBSET Invocations, Delegate(a, calls)
      PROVE  RootRuns'
  BY <1>1, <1>4 DEF Delegate, RootRuns, Running
<1>5. ASSUME NEW c \in Invocations, Enter(c) \/ BadArguments(c)
      PROVE  RootRuns'
  BY <1>1, <1>5 DEF Enter, BadArguments, RootRuns
<1>6. ASSUME NEW c \in Invocations, Start(c)
      PROVE  RootRuns'
  BY <1>2, <1>6 DEF Start, Running, Agents
<1>7. ASSUME NEW a \in Agents, Resume(a)
      PROVE  RootRuns'
  BY <1>1, <1>7 DEF Resume, RootRuns, Running
<1>8. ASSUME NEW a \in Agents, Return(a) \/ Fail(a)
      PROVE  RootRuns'
  BY <1>3, <1>8 DEF Return, Fail, Ended
<1>9. ASSUME NEW a \in Agents, Unwind(a)
      PROVE  RootRuns'
  <2>1. CASE stage' = [stage EXCEPT ![a] = "cancelled"]
    BY <1>1, <2>1 DEF RootRuns, Ended
  <2>2. CASE End(a, "cancelled")
    BY <1>3, <2>2 DEF Ended
  <2>3. CASE MoveAndWake(a, "cancelled", Pool(depth[a]), value[Pool(depth[a])] + 1)
    BY <1>2, <2>3 DEF Ended
  <2> QED BY <1>9, <2>1, <2>2, <2>3 DEF Unwind
<1>10. CASE CancelRoot
  BY <1>10 DEF CancelRoot, RootRuns
<1> QED BY <1>4, <1>5, <1>6, <1>7, <1>8, <1>9, <1>10 DEF TreeNext

-----------------------------------------------------------------------------
LEMMA InitGood ==
  ASSUME TreeInit
  PROVE  TreeInv /\ PermitsConserved /\ RootRuns
<1>1. /\ Root \in Agents /\ Root \notin Invocations /\ Invocations \subseteq Agents
      /\ MaximumDepth \in Nat /\ MaximumParallel \in Nat
  BY TreeAssumption DEF TreeAssumption, Agents
<1>2. /\ stage = [a \in Agents |-> IF a = Root THEN "thinking" ELSE "none"]
      /\ parent = [a \in Agents |-> NoAgent]
      /\ depth = [a \in Agents |-> 0]
      /\ value = [d \in Depths |-> MaximumParallel]
      /\ waiters = [d \in Depths |-> <<>>]
      /\ doomed = {}
  BY DEF TreeInit
<1>3. TreeTypeOK
  <2>1. <<>> \in Seq(Invocations)
    OBVIOUS
  <2> QED BY <1>1, <1>2, <2>1 DEF TreeTypeOK, Stages, Live, Running
<1>4. WaitersInv
  BY <1>2 DEF WaitersInv
<1>5. PermitsConserved
  <2> SUFFICES ASSUME NEW d \in Depths
               PROVE  value[d] + Cardinality(Holders(d)) = MaximumParallel
    BY DEF PermitsConserved
  <2>1. Holders(d) = {}
    BY <1>1, <1>2 DEF Holders, Running
  <2> QED BY <1>1, <1>2, <2>1, FS_EmptySet
<1> QED BY <1>1, <1>2, <1>3, <1>4, <1>5 DEF TreeInv, RootRuns, Running

LEMMA TreeStep ==
  ASSUME TreeInv, PermitsConserved, RootRuns, [TreeNext]_treeVars
  PROVE  TreeInv' /\ PermitsConserved' /\ RootRuns'
<1>0. /\ stage \in [Agents -> Stages] /\ doomed \subseteq Agents /\ Invocations \subseteq Agents
      /\ Root \in Agents
  BY DEF TreeInv, TreeTypeOK, Agents
<1>1. ASSUME NEW a \in Agents, NEW calls \in SUBSET Invocations, Delegate(a, calls)
      PROVE  TreeInv' /\ PermitsConserved'
  BY <1>1, DelegateStep
<1>2. ASSUME NEW c \in Invocations, Enter(c) \/ Start(c)
      PROVE  TreeInv' /\ PermitsConserved'
  BY <1>2, EnterStep, StartStep
<1>3. ASSUME NEW c \in Invocations, BadArguments(c)
      PROVE  TreeInv' /\ PermitsConserved'
  <2>1. doomed' \subseteq Agents
    BY <1>0, <1>3 DEF BadArguments, LiveChildren, Children
  <2> QED BY <1>0, <1>3, <2>1, CalmMove DEF BadArguments, Stages, Ended, Running
<1>4. ASSUME NEW a \in Agents, Resume(a)
      PROVE  TreeInv' /\ PermitsConserved'
  BY <1>0, <1>4, CalmMove DEF Resume, Stages, Live, Running
<1>5. ASSUME NEW a \in Agents, Return(a) \/ Fail(a)
      PROVE  TreeInv' /\ PermitsConserved'
  BY <1>0, <1>5, EndStep DEF Return, Fail, Running, Ended
<1>6. ASSUME NEW a \in Agents, Unwind(a)
      PROVE  TreeInv' /\ PermitsConserved'
  BY <1>6, UnwindStep DEF RootRuns, Running, Ended
<1>7. CASE CancelRoot
  <2>1. doomed' \subseteq Agents /\ UNCHANGED <<stage, parent, depth, value, waiters>>
    BY <1>0, <1>7 DEF CancelRoot
  <2> QED BY <2>1 DEF TreeInv, TreeTypeOK, WaitersInv, PermitsConserved, Holders, RootRuns
<1>8. CASE UNCHANGED treeVars
  BY <1>8 DEF treeVars, TreeInv, TreeTypeOK, WaitersInv, PermitsConserved, Holders, RootRuns
<1>9. CASE TreeNext
  <2>1. TreeInv' /\ PermitsConserved'
    BY <1>1, <1>2, <1>3, <1>4, <1>5, <1>6, <1>7, <1>9 DEF TreeNext
  <2> QED BY <1>9, <2>1, RootStep
<1> QED BY <1>8, <1>9

\* The types of the tree's state, and the queues behind the semaphores: each
\* holds invocations of its depth that have not started, each of them once.
THEOREM TreeTypes == TreeSpec => [](TreeTypeOK /\ WaitersInv)
<1>1. TreeInit => TreeInv /\ PermitsConserved /\ RootRuns
  BY InitGood
<1>2. TreeInv /\ PermitsConserved /\ RootRuns /\ [TreeNext]_treeVars
        => TreeInv' /\ PermitsConserved' /\ RootRuns'
  BY TreeStep
<1>3. TreeInv => TreeTypeOK /\ WaitersInv
  BY DEF TreeInv
<1> QED BY <1>1, <1>2, <1>3, PTL DEF TreeSpec

\* No way for a subagent to end, fail or be cancelled leaks or doubles a permit
\* of its depth (the async with of subagent_tool_factory.py:247).
THEOREM Permits == TreeSpec => []PermitsConserved
<1>1. TreeInit => TreeInv /\ PermitsConserved /\ RootRuns
  BY InitGood
<1>2. TreeInv /\ PermitsConserved /\ RootRuns /\ [TreeNext]_treeVars
        => TreeInv' /\ PermitsConserved' /\ RootRuns'
  BY TreeStep
<1> QED BY <1>1, <1>2, PTL DEF TreeSpec

-----------------------------------------------------------------------------
(* Nobody outlives the turn that called it.                                *)

\* When a call of a turn has raised, its parent is still in that turn or over,
\* and the turn's other calls have been cancelled: that is what makes it safe
\* for the parent to fail without waiting for them.
RaisedCalls ==
  \A c \in Invocations : stage[c] = "raised" =>
    /\ stage[parent[c]] \in {"tools"} \cup Ended
    /\ LiveChildren(parent[c]) \subseteq doomed

StrayInv == NoStrays /\ RaisedCalls

\* Handing permits on changes one agent, and wakes waiters.
LEMMA MoveStages ==
  ASSUME TreeInv, NEW c \in Agents, NEW to \in Stages, NEW d, NEW v, MoveAndWake(c, to, d, v),
         d \in Depths, v \in Nat
  PROVE  /\ stage'[c] = to
         /\ \A x \in Agents \ {c} :
              stage'[x] = stage[x] \/ (stage[x] = "waiting" /\ stage'[x] = "granted")
<1>1. \A w \in Woken(d, v) : stage[w] = "waiting"
  BY Wakes
<1>2. stage' = [a \in Agents |-> IF a = c THEN to
                                 ELSE IF a \in Woken(d, v) THEN "granted" ELSE stage[a]]
  BY DEF MoveAndWake
<1> QED BY <1>1, <1>2

LEMMA EndStages ==
  ASSUME TreeInv, NEW a \in Agents, NEW how \in Ended, End(a, how), stage[a] \in Running
  PROVE  /\ stage'[a] = how
         /\ \A x \in Agents \ {a} :
              stage'[x] = stage[x] \/ (stage[x] = "waiting" /\ stage'[x] = "granted")
<1>1. stage \in [Agents -> Stages] /\ value \in [Depths -> 0..MaximumParallel] /\ how \in Stages
  BY DEF TreeInv, TreeTypeOK, Stages
<1>2. CASE a = Root
  BY <1>1, <1>2 DEF End
<1>3. CASE a # Root
  <2>1. depth[a] \in Depths
    BY <1>3 DEF Agents, TreeInv, Running
  <2>2. value[depth[a]] + 1 \in Nat
    BY <1>1, <2>1
  <2> QED BY <1>1, <1>3, <2>1, <2>2, MoveStages DEF End, Pool
<1> QED BY <1>2, <1>3

\* A step in which one agent moves, waiters may be handed permits, and no
\* cancellation is forgotten.
LEMMA StrayStep ==
  ASSUME TreeInv, StrayInv, NEW a \in Agents, parent' = parent,
         \A x \in Agents \ {a} :
           stage'[x] = stage[x] \/ (stage[x] = "waiting" /\ stage'[x] = "granted"),
         \A x \in doomed : x \in doomed' \/ stage'[x] \notin Live,
         stage'[a] \in Live => stage[a] \in Live,
         stage'[a] # "none" => stage[a] # "none",
         stage[a] = "tools" /\ stage'[a] # "tools" =>
           \A x \in LiveChildren(a) : x \in doomed' \/ stage'[x] \notin Live,
         stage'[a] = "raised" /\ stage[a] # "raised" =>
           stage[parent[a]] = "tools" /\ parent[a] # a /\ LiveChildren(parent[a]) \ {a} \subseteq doomed',
         stage[a] \in {"tools"} \cup Ended =>
           stage'[a] \in {"tools"} \cup Ended \/ \A x \in Children(a) : stage[x] # "raised"
  PROVE  StrayInv'
<1>1. \A x \in Invocations : x \in Agents /\ (stage[x] # "none" => parent[x] \in Agents)
  BY DEF TreeInv, Agents
<1>2. NoStrays'
  <2> SUFFICES ASSUME NEW c \in Invocations, stage'[c] \in Live, c \notin doomed'
               PROVE  stage'[parent[c]] = "tools"
    BY DEF NoStrays
  <2>1. stage[c] \in Live /\ c \notin doomed
    BY <1>1 DEF Live
  <2>2. stage[parent[c]] = "tools" /\ parent[c] \in Agents
    BY <1>1, <2>1 DEF StrayInv, NoStrays, Live, Running
  <2>3. CASE parent[c] = a
    BY <2>1, <2>2, <2>3 DEF LiveChildren, Children
  <2>4. CASE parent[c] # a
    BY <2>2, <2>4
  <2> QED BY <2>3, <2>4
<1>3. RaisedCalls'
  <2> SUFFICES ASSUME NEW c \in Invocations, stage'[c] = "raised"
               PROVE  /\ stage'[parent[c]] \in {"tools"} \cup Ended
                      /\ \A x \in Invocations :
                           parent[x] = parent[c] /\ stage'[x] \in Live => x \in doomed'
    BY DEF RaisedCalls, LiveChildren, Children
  <2>1. CASE stage[c] = "raised"
    <3>1. /\ parent[c] \in Agents /\ stage[parent[c]] \in {"tools"} \cup Ended
          /\ LiveChildren(parent[c]) \subseteq doomed
      BY <1>1, <2>1 DEF StrayInv, RaisedCalls
    <3>2. stage'[parent[c]] \in {"tools"} \cup Ended
      <4>1. CASE parent[c] = a
        BY <2>1, <3>1, <4>1 DEF Children
      <4>2. CASE parent[c] # a
        BY <3>1, <4>2 DEF Ended
      <4> QED BY <4>1, <4>2
    <3>3. ASSUME NEW x \in Invocations, parent[x] = parent[c], stage'[x] \in Live
          PROVE  x \in doomed'
      <4>1. stage[x] \in Live
        BY <1>1, <3>3 DEF Live
      <4>2. x \in doomed
        BY <3>1, <3>3, <4>1 DEF LiveChildren, Children
      <4> QED BY <3>3, <4>2
    <3> QED BY <3>2, <3>3
  <2>2. CASE stage[c] # "raised"
    <3>1. c = a
      BY <1>1, <2>2
    <3>2. /\ stage[parent[a]] = "tools" /\ parent[a] # a
          /\ LiveChildren(parent[a]) \ {a} \subseteq doomed'
      BY <2>2, <3>1
    <3>3. stage'[parent[c]] = "tools"
      BY <1>1, <2>2, <3>1, <3>2
    <3>4. ASSUME NEW x \in Invocations, parent[x] = parent[c], stage'[x] \in Live
          PROVE  x \in doomed'
      <4>1. x # a
        BY <3>1, <3>4 DEF Live, Running
      <4>2. stage[x] \in Live
        BY <1>1, <3>4, <4>1 DEF Live
      <4> QED BY <3>1, <3>2, <3>4, <4>1, <4>2 DEF LiveChildren, Children
    <3> QED BY <3>3, <3>4
  <2> QED BY <2>1, <2>2
<1> QED BY <1>2, <1>3 DEF StrayInv

\* A new turn with calls: they start under an agent that is waiting for them.
LEMMA StrayDelegate ==
  ASSUME TreeInv, StrayInv, NEW p \in Agents, NEW calls \in SUBSET Invocations,
         Delegate(p, calls)
  PROVE  StrayInv'
<1>1. /\ \A x \in Invocations : x \in Agents /\ (stage[x] # "none" => parent[x] \in Agents)
      /\ stage[p] = "thinking" /\ p \notin doomed /\ \A c \in calls : stage[c] = "none"
      /\ \A a \in Agents : stage'[a] = IF a = p THEN "tools"
                                       ELSE IF a \in calls THEN "called" ELSE stage[a]
      /\ \A a \in Agents : parent'[a] = IF a \in calls THEN p ELSE parent[a]
      /\ doomed' = doomed
  BY DEF TreeInv, Agents, Delegate
<1>2. NoStrays'
  <2> SUFFICES ASSUME NEW c \in Invocations, stage'[c] \in Live, c \notin doomed
               PROVE  stage'[parent'[c]] = "tools"
    BY <1>1 DEF NoStrays
  <2>1. CASE c \in calls
    BY <1>1, <2>1
  <2>2. CASE c \notin calls
    <3>1. stage[c] \in Live
      BY <1>1, <2>2 DEF Live, Running
    <3>2. stage[parent[c]] = "tools" /\ parent[c] \in Agents
      BY <1>1, <3>1 DEF StrayInv, NoStrays, Live, Running
    <3> QED BY <1>1, <2>2, <3>2
  <2> QED BY <2>1, <2>2
<1>3. RaisedCalls'
  <2> SUFFICES ASSUME NEW c \in Invocations, stage'[c] = "raised"
               PROVE  /\ stage'[parent'[c]] \in {"tools"} \cup Ended
                      /\ \A x \in Invocations :
                           parent'[x] = parent'[c] /\ stage'[x] \in Live => x \in doomed
    BY <1>1 DEF RaisedCalls, LiveChildren, Children
  <2>1. stage[c] = "raised" /\ c \notin calls /\ parent'[c] = parent[c]
    BY <1>1
  <2>2. /\ parent[c] \in Agents /\ stage[parent[c]] \in {"tools"} \cup Ended
        /\ LiveChildren(parent[c]) \subseteq doomed
    BY <1>1, <2>1 DEF StrayInv, RaisedCalls
  <2>3. parent[c] # p /\ parent[c] \notin calls
    BY <1>1, <2>2 DEF Ended
  <2>4. ASSUME NEW x \in Invocations, parent'[x] = parent[c], stage'[x] \in Live
        PROVE  x \in doomed
    <3>1. x \notin calls /\ parent[x] = parent[c]
      BY <1>1, <2>3, <2>4
    <3>2. stage[x] \in Live
      BY <1>1, <2>4, <3>1 DEF Live, Running
    <3> QED BY <2>2, <3>1, <3>2 DEF LiveChildren, Children
  <2> QED BY <1>1, <2>1, <2>2, <2>3, <2>4
<1> QED BY <1>2, <1>3 DEF StrayInv

LEMMA StrayNext ==
  ASSUME TreeInv, RootRuns, StrayInv, [TreeNext]_treeVars
  PROVE  StrayInv'
<1>0. /\ stage \in [Agents -> Stages] /\ value \in [Depths -> 0..MaximumParallel]
      /\ Invocations \subseteq Agents
      /\ \A x \in Invocations : stage[x] # "none" => depth[x] \in Depths /\ parent[x] \in Agents
  BY DEF TreeInv, TreeTypeOK, Agents
<1>1. ASSUME NEW a \in Agents, NEW calls \in SUBSET Invocations, Delegate(a, calls)
      PROVE  StrayInv'
  BY <1>1, StrayDelegate
<1>2. ASSUME NEW c \in Invocations, Enter(c)
      PROVE  StrayInv'
  <2>1. /\ stage[c] = "called" /\ stage'[c] \in {"thinking", "waiting"}
        /\ \A x \in Agents \ {c} : stage'[x] = stage[x]
        /\ parent' = parent /\ doomed' = doomed
    BY <1>0, <1>2 DEF Enter
  <2> QED BY <1>0, <2>1, StrayStep DEF Live, Running, Ended
<1>3. ASSUME NEW c \in Invocations, BadArguments(c)
      PROVE  StrayInv'
  <2>1. /\ stage[c] = "called" /\ c \notin doomed /\ stage'[c] = "raised"
        /\ \A x \in Agents \ {c} : stage'[x] = stage[x]
        /\ parent' = parent /\ doomed' = doomed \cup (LiveChildren(parent[c]) \ {c})
    BY <1>0, <1>3 DEF BadArguments
  <2>2. stage[parent[c]] = "tools" /\ parent[c] # c
    BY <2>1 DEF StrayInv, NoStrays, Live
  <2> QED BY <1>0, <2>1, <2>2, StrayStep DEF Live, Running, Ended
<1>4. ASSUME NEW c \in Invocations, Start(c)
      PROVE  StrayInv'
  <2>1. /\ stage[c] = "granted" /\ parent' = parent /\ doomed' = doomed
        /\ MoveAndWake(c, "thinking", depth[c], value[depth[c]])
        /\ depth[c] \in Depths /\ value[depth[c]] \in Nat
    BY <1>0, <1>4 DEF Start, Pool
  <2>2. /\ stage'[c] = "thinking"
        /\ \A x \in Agents \ {c} :
             stage'[x] = stage[x] \/ (stage[x] = "waiting" /\ stage'[x] = "granted")
    BY <1>0, <2>1, MoveStages DEF Stages, Live, Running
  <2> QED BY <1>0, <2>1, <2>2, StrayStep DEF Live, Running, Ended
<1>5. ASSUME NEW a \in Agents, Resume(a)
      PROVE  StrayInv'
  <2>1. /\ stage[a] = "tools" /\ stage'[a] = "thinking" /\ parent' = parent /\ doomed' = doomed
        /\ \A x \in Agents \ {a} : stage'[x] = stage[x]
        /\ \A x \in Children(a) : stage[x] \in {"returned", "failed"}
    BY <1>0, <1>5 DEF Resume
  <2>2. LiveChildren(a) = {}
    BY <2>1 DEF LiveChildren, Live, Running
  <2> QED BY <1>0, <2>1, <2>2, StrayStep DEF Live, Running, Ended
<1>6. ASSUME NEW a \in Agents, Return(a)
      PROVE  StrayInv'
  <2>1. stage[a] = "thinking" /\ End(a, "returned") /\ doomed' = doomed /\ parent' = parent
    BY <1>6 DEF Return, End
  <2>2. /\ stage'[a] = "returned"
        /\ \A x \in Agents \ {a} :
             stage'[x] = stage[x] \/ (stage[x] = "waiting" /\ stage'[x] = "granted")
    BY <2>1, EndStages DEF Ended, Running
  <2> QED BY <1>0, <2>1, <2>2, StrayStep DEF Live, Running, Ended
<1>7. ASSUME NEW a \in Agents, Fail(a)
      PROVE  StrayInv'
  <2>1. /\ stage[a] \in Running /\ End(a, "failed") /\ doomed' = doomed /\ parent' = parent
        /\ stage[a] = "tools" => \E c \in Children(a) : stage[c] = "raised"
    BY <1>7 DEF Fail, End, Running
  <2>2. /\ stage'[a] = "failed"
        /\ \A x \in Agents \ {a} :
             stage'[x] = stage[x] \/ (stage[x] = "waiting" /\ stage'[x] = "granted")
    BY <2>1, EndStages DEF Ended
  <2>3. stage[a] = "tools" => LiveChildren(a) \subseteq doomed
    BY <2>1 DEF StrayInv, RaisedCalls, Children
  <2> QED BY <1>0, <2>1, <2>2, <2>3, StrayStep DEF Live, Running, Ended
<1>8. ASSUME NEW a \in Agents, Unwind(a)
      PROVE  StrayInv'
  <2>1. /\ parent' = parent /\ doomed' = (doomed \ {a}) \cup LiveChildren(a) /\ stage[a] \in Live
    BY <1>8 DEF Unwind, End
  <2>2. /\ stage'[a] = "cancelled"
        /\ \A x \in Agents \ {a} :
             stage'[x] = stage[x] \/ (stage[x] = "waiting" /\ stage'[x] = "granted")
    <3>1. CASE stage' = [stage EXCEPT ![a] = "cancelled"]
      BY <1>0, <3>1
    <3>2. CASE stage[a] \in Running /\ End(a, "cancelled")
      BY <3>2, EndStages DEF Ended
    <3>3. CASE /\ stage[a] = "granted"
               /\ MoveAndWake(a, "cancelled", Pool(depth[a]), value[Pool(depth[a])] + 1)
      <4>1. a \in Invocations
        BY <3>3 DEF RootRuns, Running, Ended, Agents
      <4>2. depth[a] \in Depths /\ value[depth[a]] + 1 \in Nat
        BY <1>0, <3>3, <4>1
      <4> QED BY <3>3, <4>2, MoveStages DEF Pool, Stages, Ended
    <3> QED BY <1>8, <3>1, <3>2, <3>3 DEF Unwind
  <2> QED BY <1>0, <2>1, <2>2, StrayStep DEF Live, Running, Ended
<1>9. CASE CancelRoot
  BY <1>9 DEF CancelRoot, StrayInv, NoStrays, RaisedCalls, LiveChildren, Children
<1>10. CASE UNCHANGED treeVars
  BY <1>10 DEF treeVars, StrayInv, NoStrays, RaisedCalls, LiveChildren, Children
<1> QED BY <1>1, <1>2, <1>3, <1>4, <1>5, <1>6, <1>7, <1>8, <1>9, <1>10 DEF TreeNext

\* No subagent outlives the turn that called it, unless it has been cancelled.
THEOREM Strays == TreeSpec => []NoStrays
<1>1. TreeInit => TreeInv /\ PermitsConserved /\ RootRuns
  BY InitGood
<1>2. TreeInit => StrayInv
  <2> SUFFICES ASSUME TreeInit
               PROVE  StrayInv
    OBVIOUS
  <2>1. \A c \in Invocations : stage[c] = "none"
    BY TreeAssumption DEF TreeInit, Agents, TreeAssumption
  <2> QED BY <2>1 DEF StrayInv, NoStrays, RaisedCalls, Live, Running
<1>3. TreeInv /\ PermitsConserved /\ RootRuns /\ [TreeNext]_treeVars
        => TreeInv' /\ PermitsConserved' /\ RootRuns'
  BY TreeStep
<1>4. TreeInv /\ RootRuns /\ StrayInv /\ [TreeNext]_treeVars => StrayInv'
  BY StrayNext
<1>5. StrayInv => NoStrays
  BY DEF StrayInv
<1> QED BY <1>1, <1>2, <1>3, <1>4, <1>5, PTL DEF TreeSpec

-----------------------------------------------------------------------------
(* A permit that is there is not left lying while somebody waits for it.   *)

\* The tasks in the queue of a depth.
Queued(d) == {c \in Invocations : \E i \in 1..Len(waiters[d]) : waiters[d][i] = c}

\* ... those of them that could be handed a permit, and those that were.
Hopeful(d) ==
  {c \in Queued(d) : stage[c] = "waiting" /\ c \notin doomed}

Granted(d) == {c \in Invocations : depth[c] = d /\ stage[c] = "granted"}

\* NoLostWakeup, said of tasks instead of places in the queue.
Announced(d) == value[d] > 0 /\ Hopeful(d) # {} => Granted(d) # {}

LEMMA WakeupByTask ==
  ASSUME TreeTypeOK
  PROVE  NoLostWakeup <=> \A d \in Depths : Announced(d)
<1>1. ASSUME NEW d \in Depths
      PROVE  Pending(d) # {} <=> Hopeful(d) # {}
  <2>1. \A i \in 1..Len(waiters[d]) : waiters[d][i] \in Invocations
    BY DEF TreeTypeOK
  <2> QED BY <2>1 DEF Pending, Hopeful, Queued
<1> QED BY <1>1 DEF NoLostWakeup, Granted, Announced

\* Somebody is woken whenever there is a permit and somebody to wake.
LEMMA WakesSomebody ==
  ASSUME TreeTypeOK, NEW d \in Depths, NEW v \in Nat, v > 0, Hopeful(d) # {}
  PROVE  Woken(d, v) # {}
<1>1. Pending(d) # {} /\ Pending(d) \subseteq Nat /\ Pending(d) \subseteq 1..Len(waiters[d])
  BY DEF TreeTypeOK, Pending, Hopeful, Queued
<1>2. \E i \in Pending(d) : \A j \in Pending(d) : ~(<<j, i>> \in OpToRel(<, Nat))
  BY <1>1, WFMin, NatLessThanWellFounded
<1>3. PICK i \in Pending(d) : \A j \in Pending(d) : ~(j < i)
  BY <1>1, <1>2 DEF OpToRel
<1>4. \A j \in Pending(d) : i <= j
  BY <1>1, <1>3
<1>5. waiters[d][i] \in Invocations
  BY <1>1 DEF TreeTypeOK
<1> QED BY <1>4, <1>5 DEF Woken

\* Who leaves a queue brings nobody into one.
LEMMA WithdrawnFrom ==
  ASSUME TreeInv, NEW c \in Invocations, NEW d \in Depths, Withdraw(c, d), NEW e \in Depths
  PROVE  Queued(e)' \subseteq Queued(e)
<1> DEFINE s == waiters[d]
<1>1. waiters \in [Depths -> Seq(Invocations)] /\ s \in Seq(Invocations) /\ Len(s) \in Nat
  BY DEF TreeInv, TreeTypeOK
<1>2. PICK i \in 1..Len(s) :
        waiters' = [waiters EXCEPT ![d] = SubSeq(s, 1, i-1) \o SubSeq(s, i+1, Len(s))]
  BY DEF Withdraw
<1>3. CASE e # d
  <2>1. waiters'[e] = waiters[e]
    BY <1>1, <1>2, <1>3
  <2> QED BY <2>1 DEF Queued
<1>4. CASE e = d
  <2>1. /\ Len(waiters'[d]) = Len(s) - 1
        /\ \A j \in 1..Len(waiters'[d]) : waiters'[d][j] = IF j < i THEN s[j] ELSE s[j+1]
    BY <1>1, <1>2, RemoveEntry
  <2>2. ASSUME NEW j \in 1..Len(waiters'[d])
        PROVE  \E k \in 1..Len(s) : waiters'[d][j] = s[k]
    <3>1. j \in 1..(Len(s) - 1) /\ j \in 1..Len(s) /\ j + 1 \in 1..Len(s)
      BY <1>1, <2>1
    <3> QED BY <2>1, <3>1
  <2> QED BY <1>4, <2>2 DEF Queued
<1> QED BY <1>3, <1>4

\* A depth in which no permit appears, no task gains hope and no granted task
\* goes away.
LEMMA StillAnnounced ==
  ASSUME NEW d \in Depths, Announced(d), value[d] \in Nat, value'[d] \in Nat,
         value'[d] <= value[d], Hopeful(d)' \subseteq Hopeful(d), Granted(d) \subseteq Granted(d)'
  PROVE  Announced(d)'
BY DEF Announced

\* A task that moves on hands what it had to the next.
LEMMA HandedOn ==
  ASSUME TreeInv, \A e \in Depths : Announced(e), NEW c \in Invocations,
         NEW to \in Stages \ {"waiting"}, NEW d \in Depths, depth[c] = d, NEW v \in Nat,
         stage[c] # "waiting", MoveAndWake(c, to, d, v), depth' = depth, doomed \ {c} \subseteq doomed',
         \A e \in Depths : Queued(e)' \subseteq Queued(e)
  PROVE  \A e \in Depths : Announced(e)'
<1> DEFINE W == Woken(d, v)
<1>1. /\ value \in [Depths -> 0..MaximumParallel] /\ stage \in [Agents -> Stages]
      /\ MaximumParallel \in Nat /\ Invocations \subseteq Agents
  BY TreeAssumption DEF TreeInv, TreeTypeOK, TreeAssumption, Agents
<1>2. /\ value' = [value EXCEPT ![d] = v - Cardinality(W)]
      /\ \A x \in Agents : stage'[x] = IF x = c THEN to ELSE IF x \in W THEN "granted" ELSE stage[x]
  BY DEF MoveAndWake
<1>3. \/ W = {} /\ Cardinality(W) = 0
      \/ \E w \in Invocations : W = {w} /\ Cardinality(W) = 1 /\ stage[w] = "waiting" /\ depth[w] = d
  <2>1. CASE W = {}
    BY <2>1, FS_EmptySet
  <2>2. CASE W # {}
    BY <2>2, Wakes, FS_Singleton
  <2> QED BY <2>1, <2>2
<1>4. \A e \in Depths : Hopeful(e)' \subseteq Hopeful(e)
  <2> SUFFICES ASSUME NEW e \in Depths, NEW x \in Queued(e)', stage'[x] = "waiting", x \notin doomed'
               PROVE  x \in Hopeful(e)
    BY DEF Hopeful
  <2>1. x \in Queued(e) /\ x \in Invocations
    BY DEF Queued
  <2>2. x # c /\ stage[x] = "waiting"
    BY <1>1, <1>2, <2>1
  <2>3. x \notin doomed
    BY <2>2
  <2> QED BY <2>1, <2>2, <2>3 DEF Hopeful
<1>5. ASSUME NEW e \in Depths, e # d
      PROVE  Announced(e)'
  <2>1. value'[e] = value[e] /\ value[e] \in Nat
    BY <1>1, <1>2, <1>5
  <2>2. Granted(e) \subseteq Granted(e)'
    BY <1>1, <1>2, <1>5 DEF Granted
  <2> QED BY <1>4, <2>1, <2>2, StillAnnounced
<1>6. ASSUME value'[d] > 0, Hopeful(d)' # {}
      PROVE  Granted(d)' # {}
  <2>1. Hopeful(d) # {}
    BY <1>4, <1>6
  <2>2. v > 0
    <3>1. value'[d] = v - Cardinality(W)
      BY <1>1, <1>2
    <3> HIDE DEF W
    <3> QED BY <1>3, <1>6, <3>1
  <2>3. W # {}
    BY <2>1, <2>2, WakesSomebody DEF TreeInv
  <2>4. PICK w \in Invocations : w \in W /\ depth[w] = d
    BY <1>3, <2>3
  <2>5. w # c
    BY <1>3, <2>4
  <2>6. stage'[w] = "granted"
    BY <1>1, <1>2, <2>4, <2>5
  <2> QED BY <2>4, <2>5, <2>6 DEF Granted
<1> QED BY <1>5, <1>6 DEF Announced

\* The ways a task can go on without a permit: no count, no queue, nobody's
\* hope but its own and no grant is touched.
LEMMA OthersUntouched ==
  ASSUME TreeInv, \A e \in Depths : Announced(e), NEW a \in Agents, NEW to \in Stages,
         stage[a] # "granted", to # "waiting", stage' = [stage EXCEPT ![a] = to],
         value' = value, depth' = depth, doomed \ {a} \subseteq doomed',
         \A e \in Depths : Queued(e)' \subseteq Queued(e)
  PROVE  \A e \in Depths : Announced(e)'
<1> SUFFICES ASSUME NEW e \in Depths PROVE Announced(e)'
  OBVIOUS
<1>1. /\ value \in [Depths -> 0..MaximumParallel] /\ stage \in [Agents -> Stages]
      /\ MaximumParallel \in Nat /\ Invocations \subseteq Agents
  BY TreeAssumption DEF TreeInv, TreeTypeOK, TreeAssumption, Agents
<1>2. value'[e] = value[e] /\ value[e] \in Nat
  BY <1>1
<1>3. Granted(e) \subseteq Granted(e)'
  BY <1>1 DEF Granted
<1>4. Hopeful(e)' \subseteq Hopeful(e)
  <2> SUFFICES ASSUME NEW x \in Queued(e)', stage'[x] = "waiting", x \notin doomed'
               PROVE  x \in Hopeful(e)
    BY DEF Hopeful
  <2>1. x \in Queued(e) /\ x \in Invocations
    BY DEF Queued
  <2>2. x # a /\ stage[x] = "waiting"
    BY <1>1, <2>1
  <2> QED BY <2>1, <2>2 DEF Hopeful
<1> QED BY <1>2, <1>3, <1>4, StillAnnounced

\* A task that reaches the semaphore takes a permit only if nobody is waiting
\* for it, and waits beside a permit only behind a task that was granted one.
LEMMA EnterAnnounced ==
  ASSUME TreeInv, \A e \in Depths : Announced(e), NEW c \in Invocations, Enter(c)
  PROVE  \A e \in Depths : Announced(e)'
<1> DEFINE d == depth[c]
<1>1. /\ value \in [Depths -> 0..MaximumParallel] /\ stage \in [Agents -> Stages]
      /\ waiters \in [Depths -> Seq(Invocations)] /\ MaximumParallel \in Nat
      /\ Invocations \subseteq Agents /\ stage[c] = "called" /\ d \in Depths
      /\ depth' = depth /\ doomed' = doomed /\ WaitersInv
  BY TreeAssumption DEF TreeInv, TreeTypeOK, TreeAssumption, Agents, Enter
<1> SUFFICES ASSUME NEW e \in Depths PROVE Announced(e)'
  OBVIOUS
<1>2. CASE /\ ~Locked(d) /\ value' = [value EXCEPT ![d] = @ - 1]
           /\ stage' = [stage EXCEPT ![c] = "thinking"] /\ waiters' = waiters
  <2>1. \A x \in Agents : x # c => stage'[x] = stage[x]
    BY <1>1, <1>2
  <2>2. stage'[c] = "thinking" /\ Queued(e)' = Queued(e) /\ Queued(e) \subseteq Invocations
    BY <1>1, <1>2 DEF Queued
  <2>3. Hopeful(e)' \subseteq Hopeful(e)
    BY <1>1, <2>1, <2>2 DEF Hopeful
  <2>4. Granted(e) \subseteq Granted(e)'
    BY <1>1, <2>1 DEF Granted
  <2>5. CASE e = d
    <3>1. Hopeful(d) = {}
      BY <1>2 DEF Locked, Hopeful, Queued
    <3> QED BY <2>3, <2>5, <3>1 DEF Announced
  <2>6. CASE e # d
    <3>1. value'[e] = value[e] /\ value[e] \in Nat
      BY <1>1, <1>2, <2>6
    <3> QED BY <2>3, <2>4, <3>1, StillAnnounced
  <2> QED BY <2>5, <2>6
<1>3. CASE /\ Locked(d) /\ waiters' = [waiters EXCEPT ![d] = Append(@, c)]
           /\ stage' = [stage EXCEPT ![c] = "waiting"] /\ value' = value
  <2>1. Granted(e) \subseteq Granted(e)'
    BY <1>1, <1>3 DEF Granted
  <2>2. CASE e = d
    <3>1. SUFFICES ASSUME value[d] > 0 PROVE Granted(d) # {}
      BY <1>3, <2>1, <2>2 DEF Announced
    <3>2. PICK i \in 1..Len(waiters[d]) :
            ~(stage[waiters[d][i]] = "waiting" /\ waiters[d][i] \in doomed)
      BY <1>1, <1>3, <3>1 DEF Locked
    <3> DEFINE x == waiters[d][i]
    <3>3. x \in Queued(d) /\ x \in Invocations /\ depth[x] = d
          /\ stage[x] \in {"waiting", "granted"}
      BY <1>1 DEF Queued, WaitersInv
    <3>4. CASE stage[x] = "granted"
      BY <3>3, <3>4 DEF Granted
    <3>5. CASE stage[x] = "waiting"
      <4>1. x \in Hopeful(d)
        BY <3>2, <3>3, <3>5 DEF Hopeful
      <4> QED BY <1>1, <3>1, <4>1 DEF Announced
    <3> QED BY <3>3, <3>4, <3>5
  <2>3. CASE e # d
    <3>1. waiters'[e] = waiters[e] /\ value'[e] = value[e] /\ value[e] \in Nat
      BY <1>1, <1>3, <2>3
    <3>2. c \notin Queued(e)
      BY <1>1 DEF Queued, WaitersInv
    <3>3. Hopeful(e)' \subseteq Hopeful(e)
      BY <1>1, <1>3, <3>1, <3>2 DEF Hopeful, Queued
    <3> QED BY <2>1, <3>1, <3>3, StillAnnounced
  <2> QED BY <2>2, <2>3
<1> QED BY <1>2, <1>3 DEF Enter, Pool

LEMMA DelegateAnnounced ==
  ASSUME TreeInv, \A e \in Depths : Announced(e), NEW p \in Agents,
         NEW calls \in SUBSET Invocations, Delegate(p, calls)
  PROVE  \A e \in Depths : Announced(e)'
<1> SUFFICES ASSUME NEW e \in Depths PROVE Announced(e)'
  OBVIOUS
<1>1. /\ value' = value /\ waiters' = waiters /\ doomed' = doomed /\ Invocations \subseteq Agents
      /\ stage[p] = "thinking" /\ \A x \in calls : stage[x] = "none"
      /\ \A x \in Agents : /\ stage'[x] = IF x = p THEN "tools"
                                           ELSE IF x \in calls THEN "called" ELSE stage[x]
                           /\ x \notin calls => depth'[x] = depth[x]
  BY DEF Delegate, Agents
<1>2. ASSUME NEW x \in Granted(e)
      PROVE  x \in Granted(e)'
  <2>1. x \in Agents /\ x \in Invocations /\ stage[x] = "granted" /\ depth[x] = e
    BY <1>1 DEF Granted
  <2>2. stage'[x] = "granted" /\ depth'[x] = e
    BY <1>1, <2>1
  <2> QED BY <2>1, <2>2 DEF Granted
<1>3. ASSUME NEW x \in Hopeful(e)'
      PROVE  x \in Hopeful(e)
  <2>1. x \in Agents /\ x \in Queued(e) /\ stage'[x] = "waiting" /\ x \notin doomed
    BY <1>1 DEF Hopeful, Queued
  <2>2. stage[x] = "waiting"
    BY <1>1, <2>1
  <2> QED BY <2>1, <2>2 DEF Hopeful
<1> QED BY <1>1, <1>2, <1>3 DEF Announced

LEMMA TreeAnnounced ==
  ASSUME TreeInv, RootRuns, \A e \in Depths : Announced(e), [TreeNext]_treeVars
  PROVE  \A e \in Depths : Announced(e)'
<1>0. /\ stage \in [Agents -> Stages] /\ value \in [Depths -> 0..MaximumParallel]
      /\ Invocations \subseteq Agents
      /\ \A x \in Invocations : stage[x] # "none" => depth[x] \in Depths
      /\ \A d \in Depths : value[d] \in Nat /\ value[d] + 1 \in Nat
  BY TreeAssumption DEF TreeInv, TreeTypeOK, Agents, TreeAssumption
<1>1. waiters' = waiters => \A e \in Depths : Queued(e)' \subseteq Queued(e)
  BY DEF Queued
<1>2. ASSUME NEW a \in Agents, NEW how \in Ended, End(a, how), stage[a] \in Running,
             doomed \ {a} \subseteq doomed'
      PROVE  \A e \in Depths : Announced(e)'
  <2>0. how \in Stages \ {"waiting"} /\ stage[a] \notin {"waiting", "granted", "none"}
        /\ depth' = depth /\ waiters' = waiters
    BY <1>2 DEF Stages, Ended, Running, End
  <2>1. CASE a = Root
    BY <1>1, <1>2, <2>0, <2>1, OthersUntouched DEF End
  <2>2. CASE a # Root
    <3>1. a \in Invocations /\ depth[a] \in Depths
      BY <1>0, <2>0, <2>2 DEF Agents
    <3>2. MoveAndWake(a, how, depth[a], value[depth[a]] + 1)
      BY <1>2, <2>2 DEF End, Pool
    <3> QED BY <1>0, <1>1, <1>2, <2>0, <3>1, <3>2, HandedOn
  <2> QED BY <2>1, <2>2
<1>3. ASSUME NEW a \in Agents, NEW calls \in SUBSET Invocations, Delegate(a, calls)
      PROVE  \A e \in Depths : Announced(e)'
  BY <1>3, DelegateAnnounced
<1>4. ASSUME NEW c \in Invocations, Enter(c)
      PROVE  \A e \in Depths : Announced(e)'
  BY <1>4, EnterAnnounced
<1>5. ASSUME NEW c \in Invocations, BadArguments(c)
      PROVE  \A e \in Depths : Announced(e)'
  <2>1. "raised" \in Stages /\ doomed \ {c} \subseteq doomed' /\ c \in Agents
    BY <1>0, <1>5 DEF BadArguments, Stages, Ended
  <2> QED BY <1>1, <1>5, <2>1, OthersUntouched DEF BadArguments
<1>6. ASSUME NEW c \in Invocations, Start(c)
      PROVE  \A e \in Depths : Announced(e)'
  <2>1. "thinking" \in Stages /\ depth[c] \in Depths
    BY <1>0, <1>6 DEF Start, Stages, Live, Running
  <2>2. \A e \in Depths : Queued(e)' \subseteq Queued(e)
    BY <1>6, <2>1, WithdrawnFrom DEF Start, Pool
  <2> QED BY <1>0, <1>6, <2>1, <2>2, HandedOn DEF Start, Pool
<1>7. ASSUME NEW a \in Agents, Resume(a)
      PROVE  \A e \in Depths : Announced(e)'
  <2>1. "thinking" \in Stages
    BY DEF Stages, Live, Running
  <2> QED BY <1>1, <1>7, <2>1, OthersUntouched DEF Resume
<1>8. ASSUME NEW a \in Agents, Return(a) \/ Fail(a)
      PROVE  \A e \in Depths : Announced(e)'
  BY <1>2, <1>8 DEF Return, Fail, Running, Ended
<1>9. ASSUME NEW a \in Agents, Unwind(a)
      PROVE  \A e \in Depths : Announced(e)'
  <2>1. doomed \ {a} \subseteq doomed' /\ "cancelled" \in Stages /\ "cancelled" \in Ended
    BY <1>9 DEF Unwind, Stages, Ended
  <2>2. CASE /\ stage[a] = "called" /\ stage' = [stage EXCEPT ![a] = "cancelled"]
             /\ UNCHANGED <<parent, depth, value, waiters>>
    BY <1>1, <2>1, <2>2, OthersUntouched
  <2>3. CASE stage[a] \in Running /\ End(a, "cancelled")
    BY <1>2, <2>1, <2>3
  <2>4. CASE /\ stage[a] \in {"waiting", "granted"} /\ Withdraw(a, Pool(depth[a])) /\ depth' = depth
    <3>1. a \in Invocations /\ depth[a] \in Depths
      BY <1>0, <2>4 DEF RootRuns, Running, Ended, Agents
    <3>2. \A e \in Depths : Queued(e)' \subseteq Queued(e)
      BY <2>4, <3>1, WithdrawnFrom DEF Pool
    <3>3. CASE /\ stage[a] = "waiting" /\ value' = value
               /\ stage' = [stage EXCEPT ![a] = "cancelled"]
      BY <2>1, <2>4, <3>2, <3>3, OthersUntouched
    <3>4. CASE /\ stage[a] = "granted"
               /\ MoveAndWake(a, "cancelled", Pool(depth[a]), value[Pool(depth[a])] + 1)
      BY <1>0, <2>1, <2>4, <3>1, <3>2, <3>4, HandedOn DEF Pool
    <3> QED BY <1>9, <2>4, <3>3, <3>4 DEF Unwind, Running
  <2> QED BY <1>9, <2>2, <2>3, <2>4 DEF Unwind
<1>10. CASE CancelRoot
  BY <1>0, <1>10 DEF CancelRoot, Announced, Granted, Hopeful, Queued
<1>11. CASE UNCHANGED treeVars
  BY <1>11 DEF treeVars, Announced, Granted, Hopeful, Queued
<1> QED BY <1>3, <1>4, <1>5, <1>6, <1>7, <1>8, <1>9, <1>10, <1>11 DEF TreeNext

\* No permit of a depth is left unused while a subagent waits for one, in
\* whatever order subagents end, fail and are cancelled: somebody who was woken
\* is on the way (the async with of subagent_tool_factory.py:247).
WakeupInv == \A d \in Depths : Announced(d)

THEOREM Wakeups == TreeSpec => []NoLostWakeup
<1>1. TreeInit => TreeInv /\ PermitsConserved /\ RootRuns
  BY InitGood
<1>2. TreeInit => WakeupInv
  BY DEF TreeInit, WakeupInv, Announced, Hopeful, Queued
<1>3. TreeInv /\ PermitsConserved /\ RootRuns /\ [TreeNext]_treeVars
        => TreeInv' /\ PermitsConserved' /\ RootRuns'
  BY TreeStep
<1>4. TreeInv /\ RootRuns /\ WakeupInv /\ [TreeNext]_treeVars => WakeupInv'
  BY TreeAnnounced DEF WakeupInv
<1>5. TreeInv /\ WakeupInv => NoLostWakeup
  BY WakeupByTask DEF TreeInv, WakeupInv
<1> QED BY <1>1, <1>2, <1>3, <1>4, <1>5, PTL DEF TreeSpec

-----------------------------------------------------------------------------
(* The output bus, whatever runs on it.                                    *)

\* The n-th entry of the queue is the event whose number continues what the
\* caller has, until the signal, which sits where _next_sequence stood when it
\* was pushed.
QueueInv ==
  /\ nextSequence \in Nat
  /\ sealedAt \in Nat \cup {NoSequence}
  /\ stream \in {"open", "ended", "raised", "left"}
  /\ received \in Seq(Events)
  /\ queue \in Seq(Events \cup {Signal(end) : end \in Signals})
  /\ sealedAt = NoSequence =>
       /\ nextSequence = Len(received) + Len(queue)
       /\ stream \in {"open", "left"}
  /\ sealedAt # NoSequence /\ stream \in {"open", "left"} =>
       /\ Len(received) <= sealedAt
       /\ sealedAt < Len(received) + Len(queue)
       /\ IsSignal(queue[sealedAt - Len(received) + 1])
  /\ stream \in {"open", "left"} =>
       \A i \in 1..Len(queue) :
         (sealedAt = NoSequence \/ Len(received) + i <= sealedAt)
           => ~IsSignal(queue[i]) /\ queue[i].sequence = Len(received) + i - 1
  /\ InSequence
  /\ DrainedBeforeEnd

\* Entries have the kinds the bus puts there.
LEMMA EntryKinds ==
  /\ \A e \in Events : ~IsSignal(e)
  /\ \A end \in Signals : IsSignal(Signal(end))
BY DEF Events, IsSignal, Signals, Signal

\* The empty bus.
LEMMA BusInitInv == BusInit => QueueInv
BY DEF BusInit, QueueInv, InSequence, DrainedBeforeEnd, NoSequence

\* Emitting continues the numbering.
LEMMA EmitInv ==
  ASSUME QueueInv, NEW a \in Emitters, NEW kind \in {"item", "delta"}, Emit(a, kind)
  PROVE  QueueInv'
<1> DEFINE e == Event(nextSequence, a, kind)
<1>1. e \in Events /\ e.sequence = nextSequence /\ ~IsSignal(e)
  BY EntryKinds DEF QueueInv, Event, Events
<1>2. /\ queue' = Append(queue, e) /\ nextSequence' = nextSequence + 1
      /\ UNCHANGED <<received, stream, sealedAt>>
  BY DEF Emit
<1> HIDE DEF e
<1>3. /\ queue \in Seq(Events \cup {Signal(end) : end \in Signals})
      /\ Len(queue) \in Nat /\ Len(received) \in Nat /\ nextSequence \in Nat
  BY DEF QueueInv
<1>4. /\ queue' \in Seq(Events \cup {Signal(end) : end \in Signals})
      /\ Len(queue') = Len(queue) + 1
      /\ \A i \in 1..Len(queue) : queue'[i] = queue[i]
      /\ queue'[Len(queue) + 1] = e
  BY <1>1, <1>2, <1>3, AppendProperties
<1>5. stream \in {"open", "left"} =>
        \A i \in 1..Len(queue') :
          (sealedAt = NoSequence \/ Len(received) + i <= sealedAt)
            => ~IsSignal(queue'[i]) /\ queue'[i].sequence = Len(received) + i - 1
  <2> SUFFICES ASSUME stream \in {"open", "left"}, NEW i \in 1..Len(queue'),
                      sealedAt = NoSequence \/ Len(received) + i <= sealedAt
               PROVE  ~IsSignal(queue'[i]) /\ queue'[i].sequence = Len(received) + i - 1
    OBVIOUS
  <2>1. CASE i \in 1..Len(queue)
    BY <1>3, <1>4, <2>1 DEF QueueInv
  <2>2. CASE i = Len(queue) + 1
    <3>1. sealedAt = NoSequence
      BY <1>3, <2>2 DEF QueueInv, NoSequence
    <3> QED BY <1>1, <1>3, <1>4, <2>2, <3>1 DEF QueueInv
  <2> QED BY <1>3, <1>4, <2>1, <2>2
<1>6. sealedAt # NoSequence /\ stream \in {"open", "left"} =>
        /\ Len(received) <= sealedAt
        /\ sealedAt < Len(received) + Len(queue')
        /\ IsSignal(queue'[sealedAt - Len(received) + 1])
  BY <1>3, <1>4 DEF QueueInv, NoSequence
<1>7. sealedAt = NoSequence => nextSequence' = Len(received) + Len(queue')
  BY <1>2, <1>3, <1>4 DEF QueueInv
<1>8. nextSequence' \in Nat /\ UNCHANGED <<received, stream, sealedAt>>
  BY <1>2, <1>3
<1> QED BY <1>4, <1>5, <1>6, <1>7, <1>8 DEF QueueInv, InSequence, DrainedBeforeEnd

\* The signal is pushed behind everything emitted so far.
LEMMA PushInv ==
  ASSUME QueueInv, NEW end \in Signals, Push(end)
  PROVE  QueueInv'
<1> DEFINE e == Signal(end)
<1>1. IsSignal(e) /\ e \in {Signal(s) : s \in Signals}
  BY EntryKinds
<1>2. /\ queue' = Append(queue, e) /\ sealedAt = NoSequence /\ sealedAt' = nextSequence
      /\ UNCHANGED <<received, stream, nextSequence>>
  BY DEF Push
<1> HIDE DEF e
<1>3. /\ queue \in Seq(Events \cup {Signal(s) : s \in Signals})
      /\ Len(queue) \in Nat /\ Len(received) \in Nat /\ nextSequence \in Nat
      /\ nextSequence = Len(received) + Len(queue) /\ stream \in {"open", "left"}
  BY <1>2 DEF QueueInv
<1>4. /\ queue' \in Seq(Events \cup {Signal(s) : s \in Signals})
      /\ Len(queue') = Len(queue) + 1
      /\ \A i \in 1..Len(queue) : queue'[i] = queue[i]
      /\ queue'[Len(queue) + 1] = e
  BY <1>1, <1>2, <1>3, AppendProperties
<1>5. \A i \in 1..Len(queue') :
        Len(received) + i <= sealedAt'
          => ~IsSignal(queue'[i]) /\ queue'[i].sequence = Len(received) + i - 1
  <2> SUFFICES ASSUME NEW i \in 1..Len(queue'), Len(received) + i <= sealedAt'
               PROVE  ~IsSignal(queue'[i]) /\ queue'[i].sequence = Len(received) + i - 1
    OBVIOUS
  <2>1. i \in 1..Len(queue)
    BY <1>2, <1>3, <1>4
  <2>2. ~IsSignal(queue[i]) /\ queue[i].sequence = Len(received) + i - 1
    BY <1>2, <1>3, <2>1 DEF QueueInv
  <2> QED BY <1>4, <2>1, <2>2
<1>6. /\ Len(received) <= sealedAt' /\ sealedAt' < Len(received) + Len(queue')
      /\ IsSignal(queue'[sealedAt' - Len(received) + 1])
  BY <1>1, <1>2, <1>3, <1>4
<1> QED BY <1>2, <1>3, <1>4, <1>5, <1>6 DEF QueueInv, InSequence, DrainedBeforeEnd, NoSequence

\* The caller gets the next number, or the end after the last one.
LEMMA GetInv ==
  ASSUME QueueInv, Get
  PROVE  QueueInv'
<1> DEFINE Entries == Events \cup {Signal(s) : s \in Signals}
<1>1. /\ stream = "open" /\ queue # <<>> /\ queue' = Tail(queue)
      /\ UNCHANGED <<nextSequence, sealedAt>>
  BY DEF Get
<1>2. /\ queue \in Seq(Entries) /\ received \in Seq(Events)
      /\ Len(queue) \in Nat \ {0} /\ Len(received) \in Nat /\ nextSequence \in Nat
      /\ sealedAt \in Nat \cup {NoSequence}
  BY <1>1, EmptySeq DEF QueueInv
<1>3. /\ queue' \in Seq(Entries) /\ Len(queue') = Len(queue) - 1
      /\ \A i \in 1..Len(queue') : queue'[i] = queue[i + 1]
      /\ Head(queue) = queue[1] /\ queue[1] \in Entries
  BY <1>1, <1>2, HeadTailProperties
<1>4. CASE ~IsSignal(Head(queue)) /\ received' = Append(received, Head(queue)) /\ stream' = stream
  <2>1. Head(queue) \in Events
    BY <1>3, <1>4, EntryKinds
  <2>2. sealedAt = NoSequence \/ Len(received) + 1 <= sealedAt
    <3> SUFFICES ASSUME sealedAt # NoSequence, Len(received) + 1 > sealedAt PROVE FALSE
      BY <1>2 DEF NoSequence
    <3>1. sealedAt = Len(received)
      BY <1>1, <1>2 DEF QueueInv, NoSequence
    <3> QED BY <1>1, <1>2, <1>3, <1>4, <3>1 DEF QueueInv
  <2>3. Head(queue).sequence = Len(received)
    BY <1>1, <1>2, <1>3, <2>2 DEF QueueInv
  <2>4. /\ received' \in Seq(Events) /\ Len(received') = Len(received) + 1
        /\ \A i \in 1..Len(received) : received'[i] = received[i]
        /\ received'[Len(received) + 1] = Head(queue)
    BY <1>2, <1>4, <2>1, AppendProperties
  <2>5. InSequence'
    <3> SUFFICES ASSUME NEW i \in 1..Len(received') PROVE received'[i].sequence = i - 1
      BY DEF InSequence
    <3>1. CASE i \in 1..Len(received)
      BY <2>4, <3>1 DEF QueueInv, InSequence
    <3>2. CASE i = Len(received) + 1
      BY <1>2, <2>3, <2>4, <3>2
    <3> QED BY <1>2, <2>4, <3>1, <3>2
  <2>6. \A i \in 1..Len(queue') :
          (sealedAt = NoSequence \/ Len(received') + i <= sealedAt)
            => ~IsSignal(queue'[i]) /\ queue'[i].sequence = Len(received') + i - 1
    <3> SUFFICES ASSUME NEW i \in 1..Len(queue'),
                        sealedAt = NoSequence \/ Len(received') + i <= sealedAt
                 PROVE  ~IsSignal(queue'[i]) /\ queue'[i].sequence = Len(received') + i - 1
      OBVIOUS
    <3>1. i + 1 \in 1..Len(queue) /\ queue'[i] = queue[i + 1]
      BY <1>2, <1>3
    <3>2. sealedAt = NoSequence \/ Len(received) + (i + 1) <= sealedAt
      BY <1>2, <1>3, <2>4
    <3>3. ~IsSignal(queue[i+1]) /\ queue[i+1].sequence = Len(received) + (i + 1) - 1
      BY <1>1, <3>1, <3>2 DEF QueueInv
    <3> QED BY <1>2, <1>3, <2>4, <3>1, <3>3
  <2>7. sealedAt # NoSequence =>
          /\ Len(received') <= sealedAt
          /\ sealedAt < Len(received') + Len(queue')
          /\ IsSignal(queue'[sealedAt - Len(received') + 1])
    <3> SUFFICES ASSUME sealedAt # NoSequence
                 PROVE  /\ Len(received') <= sealedAt
                        /\ sealedAt < Len(received') + Len(queue')
                        /\ IsSignal(queue'[sealedAt - Len(received') + 1])
      OBVIOUS
    <3>1. /\ Len(received) + 1 <= sealedAt /\ sealedAt < Len(received) + Len(queue)
          /\ IsSignal(queue[sealedAt - Len(received) + 1]) /\ sealedAt \in Nat
      BY <1>1, <1>2, <2>2 DEF QueueInv
    <3>2. sealedAt - Len(received) \in 1..Len(queue')
      BY <1>2, <1>3, <3>1
    <3>3. queue'[sealedAt - Len(received)] = queue[sealedAt - Len(received) + 1]
      BY <1>3, <3>2
    <3>4. sealedAt - Len(received') + 1 = sealedAt - Len(received)
      BY <1>2, <2>4, <3>1
    <3> QED BY <1>2, <1>3, <2>4, <3>1, <3>3, <3>4
  <2>8. sealedAt = NoSequence => nextSequence = Len(received') + Len(queue')
    BY <1>1, <1>2, <1>3, <2>4 DEF QueueInv
  <2> QED BY <1>1, <1>2, <1>3, <1>4, <2>4, <2>5, <2>6, <2>7, <2>8
      DEF QueueInv, DrainedBeforeEnd
<1>5. CASE /\ IsSignal(Head(queue)) /\ received' = received
           /\ stream' = IF Head(queue).kind = "close" THEN "ended" ELSE "raised"
  <2>1. sealedAt # NoSequence /\ sealedAt = Len(received)
    <3>1. 1 \in 1..Len(queue) /\ IsSignal(queue[1])
      BY <1>2, <1>3, <1>5
    <3>2. ~(sealedAt = NoSequence \/ Len(received) + 1 <= sealedAt)
      BY <1>1, <3>1 DEF QueueInv
    <3> QED BY <1>1, <1>2, <3>2 DEF QueueInv, NoSequence
  <2>2. stream' \in {"ended", "raised"}
    BY <1>5
  <2> QED BY <1>1, <1>2, <1>3, <1>5, <2>1, <2>2 DEF QueueInv, InSequence, DrainedBeforeEnd
<1> QED BY <1>4, <1>5 DEF Get

\* Every step of the bus.
LEMMA BusStepInv == QueueInv /\ [BusNext]_busVars => QueueInv'
<1> SUFFICES ASSUME QueueInv, [BusNext]_busVars PROVE QueueInv'
  OBVIOUS
<1>1. CASE Leave
  BY <1>1 DEF Leave, QueueInv, InSequence, DrainedBeforeEnd
<1>2. CASE UNCHANGED busVars
  BY <1>2 DEF busVars, QueueInv, InSequence, DrainedBeforeEnd
<1> QED BY <1>1, <1>2, EmitInv, PushInv, GetInv DEF BusNext

\* The bus's invariant holds.
LEMMA QueueHolds == BusSpec => []QueueInv
BY BusInitInv, BusStepInv, PTL DEF BusSpec

\* The caller sees events numbered 0, 1, 2, ... whoever emitted them.
THEOREM SequenceKept == BusSpec => []InSequence
<1>1. QueueInv => InSequence
  BY DEF QueueInv
<1> QED BY <1>1, QueueHolds, PTL

\* A stream ends only after every event emitted before the signal.
THEOREM DrainKept == BusSpec => []DrainedBeforeEnd
<1>1. QueueInv => DrainedBeforeEnd
  BY DEF QueueInv
<1> QED BY <1>1, QueueHolds, PTL

-----------------------------------------------------------------------------
(* What each agent is told about its own output.                           *)

\* Nothing emitted has a number the bus has not given out yet; an agent's range
\* is unset until its first item, and from then on its ends are two of its own
\* items with all the others between them.
RangeInv ==
  /\ ranges \in [Emitters -> [first : Nat \cup {NoSequence}, last : Nat \cup {NoSequence}]]
  /\ \A e \in BusEntries : e.kind = "item" => e.sequence \in Nat /\ e.sequence < nextSequence
  /\ \A a \in Emitters : ranges[a].first = NoSequence <=> OwnItems(a) = {}
  /\ RangesHoldOwnItems

\* Appending to the queue adds one entry, taking its head loses none but a
\* signal.
LEMMA EntriesAppended ==
  ASSUME QueueInv, NEW entry \in Events \cup {Signal(end) : end \in Signals},
         queue' = Append(queue, entry), received' = received
  PROVE  BusEntries' = BusEntries \cup {entry}
<1>1. /\ Len(queue) \in Nat /\ Len(queue') = Len(queue) + 1
      /\ \A i \in 1..Len(queue) : queue'[i] = queue[i]
      /\ queue'[Len(queue) + 1] = entry
  BY AppendProperties DEF QueueInv
<1>2. {queue'[i] : i \in 1..Len(queue')} = {queue[i] : i \in 1..Len(queue)} \cup {entry}
  <2>1. ASSUME NEW i \in 1..Len(queue')
        PROVE  queue'[i] \in {queue[j] : j \in 1..Len(queue)} \cup {entry}
    BY <1>1
  <2>2. \A i \in 1..Len(queue) : i \in 1..Len(queue') /\ queue[i] = queue'[i]
    BY <1>1
  <2>3. Len(queue) + 1 \in 1..Len(queue')
    BY <1>1
  <2> QED BY <1>1, <2>1, <2>2, <2>3
<1> QED BY <1>2 DEF BusEntries

LEMMA EntriesTaken ==
  ASSUME QueueInv, Get
  PROVE  \A e : e.kind = "item" => (e \in BusEntries' <=> e \in BusEntries)
<1>1. /\ queue \in Seq(Events \cup {Signal(end) : end \in Signals}) /\ queue # <<>>
      /\ queue' = Tail(queue) /\ received \in Seq(Events)
  BY DEF Get, QueueInv
<1>2. /\ Len(queue) \in Nat \ {0} /\ Len(queue') = Len(queue) - 1 /\ Head(queue) = queue[1]
      /\ \A i \in 1..Len(queue') : queue'[i] = queue[i + 1]
  BY <1>1, HeadTailProperties, EmptySeq
<1>3. {queue[i] : i \in 1..Len(queue)} = {queue'[i] : i \in 1..Len(queue')} \cup {Head(queue)}
  <2>1. ASSUME NEW i \in 1..Len(queue)
        PROVE  queue[i] \in {queue'[j] : j \in 1..Len(queue')} \cup {Head(queue)}
    <3>1. CASE i = 1
      BY <1>2, <3>1
    <3>2. CASE i # 1
      <4>1. i - 1 \in 1..Len(queue') /\ queue'[i - 1] = queue[i]
        BY <1>2, <3>2
      <4> QED BY <4>1
    <3> QED BY <3>1, <3>2
  <2>2. \A i \in 1..Len(queue') : i + 1 \in 1..Len(queue) /\ queue'[i] = queue[i + 1]
    BY <1>2
  <2>3. Head(queue) \in {queue[i] : i \in 1..Len(queue)}
    <3>1. 1 \in 1..Len(queue)
      BY <1>2
    <3> QED BY <1>2, <3>1
  <2>4. \A i \in 1..Len(queue') : queue'[i] \in {queue[j] : j \in 1..Len(queue)}
    BY <2>2
  <2> QED BY <2>1, <2>3, <2>4
<1>4. CASE ~IsSignal(Head(queue)) /\ received' = Append(received, Head(queue))
  <2>1. Head(queue) \in Events
    BY <1>1, <1>4, EntryKinds, HeadTailProperties
  <2>2. /\ Len(received) \in Nat /\ Len(received') = Len(received) + 1
        /\ \A i \in 1..Len(received) : received'[i] = received[i]
        /\ received'[Len(received) + 1] = Head(queue)
    BY <1>1, <1>4, <2>1, AppendProperties
  <2>3. {received'[i] : i \in 1..Len(received')} = {received[i] : i \in 1..Len(received)} \cup {Head(queue)}
    <3>1. ASSUME NEW i \in 1..Len(received')
          PROVE  received'[i] \in {received[j] : j \in 1..Len(received)} \cup {Head(queue)}
      BY <2>2
    <3>2. \A i \in 1..Len(received) : i \in 1..Len(received') /\ received[i] = received'[i]
      BY <2>2
    <3>3. Len(received) + 1 \in 1..Len(received')
      BY <2>2
    <3> QED BY <2>2, <3>1, <3>2, <3>3
  <2> QED BY <1>3, <2>3 DEF BusEntries
<1>5. CASE IsSignal(Head(queue)) /\ received' = received
  <2>1. Head(queue).kind # "item"
    BY <1>5 DEF IsSignal, Signals
  <2> QED BY <1>3, <1>5, <2>1 DEF BusEntries
<1> QED BY <1>4, <1>5 DEF Get

\* The entries of the items being the same, so are the ranges' facts.
LEMMA SameItems ==
  ASSUME RangeInv, \A e : e.kind = "item" => (e \in BusEntries' <=> e \in BusEntries),
         ranges' = ranges, nextSequence' = nextSequence
  PROVE  RangeInv'
<1>1. \A a : OwnItems(a)' = OwnItems(a)
  BY DEF OwnItems
<1> QED BY <1>1 DEF RangeInv, RangesHoldOwnItems

\* An item is the latest of its agent's, and only of that agent's.
LEMMA EmitRanges ==
  ASSUME QueueInv, RangeInv, NEW a \in Emitters, NEW kind \in {"item", "delta"}, Emit(a, kind)
  PROVE  RangeInv'
<1> DEFINE e == Event(nextSequence, a, kind)
<1>1. /\ e \in Events /\ e.sequence = nextSequence /\ e.by = a /\ e.kind = kind
      /\ nextSequence \in Nat /\ nextSequence' = nextSequence + 1
  BY DEF QueueInv, Event, Events, Emit
<1>2. BusEntries' = BusEntries \cup {e}
  BY <1>1, EntriesAppended DEF Emit
<1> HIDE DEF e
<1>3. \A f \in BusEntries' : f.kind = "item" => f.sequence \in Nat /\ f.sequence < nextSequence'
  BY <1>1, <1>2 DEF RangeInv
<1>4. CASE kind = "delta"
  <2>1. \A b : OwnItems(b)' = OwnItems(b)
    BY <1>1, <1>2, <1>4 DEF OwnItems
  <2>2. ranges' = ranges
    BY <1>4 DEF Emit
  <2> QED BY <1>3, <2>1, <2>2 DEF RangeInv, RangesHoldOwnItems
<1>5. CASE kind = "item"
  <2>1. /\ ranges' = [ranges EXCEPT ![a] = Widen(ranges[a], nextSequence)]
        /\ ranges \in [Emitters -> [first : Nat \cup {NoSequence}, last : Nat \cup {NoSequence}]]
    BY <1>5 DEF Emit, RangeInv
  <2>2. /\ Widen(ranges[a], nextSequence) \in [first : Nat \cup {NoSequence}, last : Nat \cup {NoSequence}]
        /\ Widen(ranges[a], nextSequence).last = nextSequence
        /\ Widen(ranges[a], nextSequence).first =
             IF ranges[a].first = NoSequence THEN nextSequence ELSE ranges[a].first
    BY <1>1, <2>1 DEF Widen
  <2>3. /\ ranges' \in [Emitters -> [first : Nat \cup {NoSequence}, last : Nat \cup {NoSequence}]]
        /\ \A b \in Emitters \ {a} : ranges'[b] = ranges[b]
        /\ ranges'[a].last = nextSequence
        /\ ranges'[a].first = IF ranges[a].first = NoSequence THEN nextSequence ELSE ranges[a].first
    BY <2>1, <2>2
  <2>4. /\ \A b \in Emitters \ {a} : OwnItems(b)' = OwnItems(b)
        /\ OwnItems(a)' = OwnItems(a) \cup {e}
    BY <1>1, <1>2, <1>5 DEF OwnItems
  <2>5. \A f \in OwnItems(a) : f.sequence \in Nat /\ f.sequence < nextSequence
    BY DEF OwnItems, RangeInv
  <2>6. /\ \A f \in OwnItems(a)' : ranges'[a].first <= f.sequence /\ f.sequence <= ranges'[a].last
        /\ \E f, g \in OwnItems(a)' : f.sequence = ranges'[a].first /\ g.sequence = ranges'[a].last
    <3>1. CASE OwnItems(a) = {}
      <4>1. OwnItems(a)' = {e} /\ ranges'[a].first = nextSequence
        BY <2>3, <2>4, <3>1 DEF RangeInv
      <4> QED BY <1>1, <2>3, <4>1
    <3>2. CASE OwnItems(a) # {}
      <4>1. ranges'[a].first = ranges[a].first
        BY <2>3, <3>2 DEF RangeInv
      <4>2. PICK f \in OwnItems(a) : f.sequence = ranges[a].first
        BY <3>2 DEF RangeInv, RangesHoldOwnItems
      <4>3. \A g \in OwnItems(a) : ranges[a].first <= g.sequence
        BY <3>2 DEF RangeInv, RangesHoldOwnItems
      <4> QED BY <1>1, <2>3, <2>4, <2>5, <4>1, <4>2, <4>3
    <3> QED BY <3>1, <3>2
  <2>7. ranges'[a].first # NoSequence
    BY <1>1, <2>3 DEF NoSequence
  <2>8. \A b \in Emitters : ranges'[b].first = NoSequence <=> OwnItems(b)' = {}
    BY <2>3, <2>4, <2>7 DEF RangeInv
  <2>9. RangesHoldOwnItems'
    <3> SUFFICES ASSUME NEW b \in Emitters, b # a, OwnItems(b)' # {}
                 PROVE  /\ \A f \in OwnItems(b)' :
                             ranges'[b].first <= f.sequence /\ f.sequence <= ranges'[b].last
                        /\ \E f, g \in OwnItems(b)' :
                             f.sequence = ranges'[b].first /\ g.sequence = ranges'[b].last
      BY <2>6 DEF RangesHoldOwnItems
    <3> QED BY <2>3, <2>4 DEF RangeInv, RangesHoldOwnItems
  <2> QED BY <1>3, <2>3, <2>8, <2>9 DEF RangeInv
<1> QED BY <1>4, <1>5

\* The range of output a parent is told of is delimited by two of its child's
\* own items and holds all of them, however the agents' emissions and the
\* caller's reads interleave (openai_agent_runner.py, subagent_result.py).
THEOREM RangesKept == BusSpec => []RangesHoldOwnItems
<1>1. BusInit => RangeInv
  <2> SUFFICES ASSUME BusInit PROVE RangeInv
    OBVIOUS
  <2>1. BusEntries = {}
    BY DEF BusInit, BusEntries
  <2> QED BY <2>1 DEF BusInit, RangeInv, RangesHoldOwnItems, OwnItems, NoSequence
<1>2. QueueInv /\ RangeInv /\ [BusNext]_busVars => RangeInv'
  <2> SUFFICES ASSUME QueueInv, RangeInv, [BusNext]_busVars PROVE RangeInv'
    OBVIOUS
  <2>1. ASSUME NEW end \in Signals, Push(end) PROVE RangeInv'
    <3>1. Signal(end).kind # "item" /\ Signal(end) \in {Signal(s) : s \in Signals}
      BY DEF Signal, Signals
    <3>2. BusEntries' = BusEntries \cup {Signal(end)}
      BY <2>1, <3>1, EntriesAppended DEF Push
    <3> QED BY <2>1, <3>1, <3>2, SameItems DEF Push
  <2>2. CASE Get
    BY <2>2, EntriesTaken, SameItems DEF Get
  <2>3. CASE Leave \/ UNCHANGED busVars
    BY <2>3, SameItems DEF Leave, busVars, BusEntries
  <2> QED BY <2>1, <2>2, <2>3, EmitRanges DEF BusNext
<1>3. RangeInv => RangesHoldOwnItems
  BY DEF RangeInv
<1> QED BY <1>1, <1>2, <1>3, QueueHolds, PTL DEF BusSpec

-----------------------------------------------------------------------------
(* The bus implements OrderedStream.                                       *)

\* Only one signal is ever queued: the one that sealed the bus.
OneSignal ==
  stream \in {"open", "left"} => \A i \in 1..Len(queue) :
    IsSignal(queue[i]) => sealedAt # NoSequence /\ i = sealedAt - Len(received) + 1

BusInv == QueueInv /\ OneSignal

LEMMA OneSignalStep ==
  ASSUME BusInv, [BusNext]_busVars
  PROVE  OneSignal'
<1>1. /\ queue \in Seq(Events \cup {Signal(end) : end \in Signals}) /\ Len(queue) \in Nat
      /\ received \in Seq(Events) /\ Len(received) \in Nat /\ nextSequence \in Nat
      /\ sealedAt \in Nat \cup {NoSequence}
  BY DEF BusInv, QueueInv
<1>2. ASSUME NEW a \in Emitters, NEW kind \in {"item", "delta"}, Emit(a, kind)
      PROVE  OneSignal'
  <2>1. Event(nextSequence, a, kind) \in Events /\ ~IsSignal(Event(nextSequence, a, kind))
    BY <1>1, EntryKinds DEF Event, Events
  <2>2. /\ Len(queue') = Len(queue) + 1
        /\ \A i \in 1..Len(queue) : queue'[i] = queue[i]
        /\ ~IsSignal(queue'[Len(queue) + 1])
        /\ UNCHANGED <<received, stream, sealedAt>>
    BY <1>1, <1>2, <2>1, AppendProperties DEF Emit
  <2> QED BY <1>1, <2>2 DEF BusInv, OneSignal
<1>3. ASSUME NEW end \in Signals, Push(end)
      PROVE  OneSignal'
  <2>1. /\ Len(queue') = Len(queue) + 1
        /\ \A i \in 1..Len(queue) : queue'[i] = queue[i]
        /\ UNCHANGED <<received, stream>> /\ sealedAt = NoSequence
        /\ sealedAt' = Len(received) + Len(queue)
    BY <1>1, <1>3, AppendProperties DEF Push, BusInv, QueueInv
  <2> QED BY <1>1, <2>1 DEF BusInv, OneSignal, NoSequence
<1>4. CASE Get
  <2>1. /\ stream = "open" /\ queue # <<>> /\ queue' = Tail(queue) /\ sealedAt' = sealedAt
        /\ \/ received' = Append(received, Head(queue)) /\ ~IsSignal(Head(queue))
           \/ stream' \in {"ended", "raised"}
    BY <1>4 DEF Get
  <2>2. /\ Len(queue) \in Nat \ {0} /\ Len(queue') = Len(queue) - 1
        /\ \A i \in 1..Len(queue') : queue'[i] = queue[i + 1]
        /\ Head(queue) \in Events \cup {Signal(end) : end \in Signals}
    BY <1>1, <2>1, HeadTailProperties, EmptySeq
  <2>3. CASE received' = Append(received, Head(queue)) /\ ~IsSignal(Head(queue))
    <3>1. Len(received') = Len(received) + 1
      BY <1>1, <2>2, <2>3, EntryKinds, AppendProperties
    <3>2. ASSUME NEW i \in 1..Len(queue'), IsSignal(queue'[i])
          PROVE  sealedAt # NoSequence /\ i = sealedAt - Len(received') + 1
      <4>1. i + 1 \in 1..Len(queue) /\ IsSignal(queue[i + 1])
        BY <2>2, <3>2
      <4>2. sealedAt # NoSequence /\ i + 1 = sealedAt - Len(received) + 1
        BY <2>1, <4>1 DEF BusInv, OneSignal
      <4> QED BY <1>1, <3>1, <4>2 DEF NoSequence
    <3> QED BY <2>1, <3>2 DEF OneSignal
  <2> QED BY <2>1, <2>3 DEF OneSignal
<1>5. CASE Leave
  BY <1>5 DEF Leave, BusInv, OneSignal, QueueInv
<1>6. CASE UNCHANGED busVars
  BY <1>6 DEF busVars, BusInv, OneSignal
<1> QED BY <1>2, <1>3, <1>4, <1>5, <1>6 DEF BusNext

LEMMA BusInvHolds == BusInit /\ [][BusNext]_busVars => []BusInv
<1>1. BusInit => BusInv
  BY BusInitInv DEF BusInv, BusInit, OneSignal
<1>2. BusInv /\ [BusNext]_busVars => BusInv'
  BY BusStepInv, OneSignalStep DEF BusInv
<1> QED BY <1>1, <1>2, PTL

\* How many queued events are still owed: all of them, or those before the
\* signal.
Owing == IF sealedAt = NoSequence THEN Len(queue) ELSE sealedAt - Len(received)

LEMMA OwedEvents ==
  ASSUME BusInv, stream \in {"open", "left"}
  PROVE  /\ Owing \in 0..Len(queue) /\ Cardinality(Owed) = Owing
         /\ sealedAt # NoSequence => Owing < Len(queue) /\ IsSignal(queue[Owing + 1])
         /\ \A i \in 1..Owing : queue[i] \in Events
<1>1. /\ queue \in Seq(Events \cup {Signal(end) : end \in Signals}) /\ Len(queue) \in Nat
      /\ Len(received) \in Nat /\ sealedAt \in Nat \cup {NoSequence}
  BY DEF BusInv, QueueInv
<1>2. /\ Owing \in 0..Len(queue)
      /\ sealedAt # NoSequence => Owing < Len(queue) /\ IsSignal(queue[Owing + 1])
  BY <1>1 DEF Owing, BusInv, QueueInv, NoSequence
<1>3. \A i \in 1..Len(queue) : i <= Owing => ~IsSignal(queue[i])
  BY <1>1, <1>2 DEF Owing, BusInv, QueueInv, NoSequence
<1>4. Owed = 1..Owing
  <2>1. ASSUME NEW i \in Owed PROVE i \in 1..Owing
    <3>1. i \in 1..Len(queue) /\ \A j \in 1..i : ~IsSignal(queue[j])
      BY DEF Owed
    <3>2. sealedAt # NoSequence => ~(Owing + 1 \in 1..i)
      BY <1>2, <3>1
    <3> QED BY <1>1, <1>2, <3>1, <3>2 DEF Owing
  <2>2. ASSUME NEW i \in 1..Owing PROVE i \in Owed
    <3>1. i \in 1..Len(queue) /\ \A j \in 1..i : j \in 1..Len(queue) /\ j <= Owing
      BY <1>1, <1>2
    <3> QED BY <1>3, <3>1 DEF Owed
  <2> QED BY <2>1, <2>2
<1>5. Cardinality(Owed) = Owing
  BY <1>2, <1>4, FS_Interval
<1>6. \A i \in 1..Owing : queue[i] \in Events
  <2> SUFFICES ASSUME NEW i \in 1..Owing PROVE queue[i] \in Events
    OBVIOUS
  <2>1. i \in 1..Len(queue) /\ i <= Owing
    BY <1>1, <1>2
  <2> QED BY <1>1, <1>3, <2>1, EntryKinds
<1> QED BY <1>2, <1>5, <1>6

\* What is promised: what the caller has, and what it is owed.
LEMMA PromisedEvents ==
  ASSUME BusInv, stream \in {"open", "left"}
  PROVE  /\ Promised \in Seq(Events) /\ Len(Promised) = Len(received) + Owing
         /\ \A i \in 1..Len(received) : Promised[i] = received[i]
         /\ \A i \in 1..Owing : Promised[Len(received) + i] = queue[i]
<1> DEFINE owed == SubSeq(queue, 1, Owing)
<1>1. received \in Seq(Events) /\ Len(received) \in Nat
  BY DEF BusInv, QueueInv
<1>2. Owing \in Nat /\ Cardinality(Owed) = Owing /\ \A i \in 1..Owing : queue[i] \in Events
  BY OwedEvents, LenProperties DEF BusInv, QueueInv
<1>3. /\ owed \in Seq(Events) /\ Len(owed) = Owing
      /\ \A i \in 1..Owing : owed[i] = queue[i]
  <2>1. /\ owed \in Seq(Events) /\ Len(owed) = IF 1 <= Owing THEN Owing - 1 + 1 ELSE 0
        /\ \A i \in 1..(Owing - 1 + 1) : owed[i] = queue[1 + i - 1]
    BY <1>2, SubSeqProperties
  <2> HIDE DEF owed
  <2> QED BY <1>2, <2>1
<1>4. Promised = received \o owed
  BY <1>2 DEF Promised
<1> HIDE DEF owed
<1>5. /\ Promised \in Seq(Events) /\ Len(Promised) = Len(received) + Owing
      /\ \A i \in 1..Len(received) + Owing :
           Promised[i] = IF i <= Len(received) THEN received[i] ELSE owed[i - Len(received)]
  BY <1>1, <1>3, <1>4, ConcatProperties
<1>6. ASSUME NEW i \in 1..Owing
      PROVE  Promised[Len(received) + i] = queue[i]
  <2>1. Len(received) + i \in 1..Len(received) + Owing /\ ~(Len(received) + i <= Len(received))
        /\ Len(received) + i - Len(received) = i
    BY <1>1, <1>2
  <2> QED BY <1>3, <1>5, <2>1
<1> QED BY <1>1, <1>2, <1>5, <1>6

\* The stream's fate is open until the bus is sealed, and then the signal's.
LEMMA Fates ==
  ASSUME BusInv, stream \in {"open", "left"}
  PROVE  /\ sealedAt = NoSequence => Fate = "running"
         /\ sealedAt # NoSequence =>
              Fate = IF queue[Owing + 1].kind = "close" THEN "ended" ELSE "raised"
<1>1. Len(queue) \in Nat /\ Len(received) \in Nat
  BY LenProperties DEF BusInv, QueueInv
<1>2. \A i \in 1..Len(queue) : IsSignal(queue[i]) =>
         sealedAt # NoSequence /\ i = sealedAt - Len(received) + 1
  BY DEF BusInv, OneSignal
<1>3. \A i \in 1..Len(queue) : IsSignal(queue[i]) <=> queue[i].kind = "close" \/ queue[i].kind = "fail"
  BY DEF IsSignal, Signals
<1>4. CASE sealedAt = NoSequence
  BY <1>2, <1>3, <1>4 DEF Fate
<1>5. CASE sealedAt # NoSequence
  <2>1. Owing + 1 \in 1..Len(queue) /\ IsSignal(queue[Owing + 1])
    BY <1>1, <1>5, OwedEvents
  <2>2. \A i \in 1..Len(queue) : IsSignal(queue[i]) => i = Owing + 1
    BY <1>2, <1>5 DEF Owing
  <2> QED BY <1>3, <1>5, <2>1, <2>2 DEF Fate
<1> QED BY <1>4, <1>5

\* The three together, while the stream has not ended, before and after a step.
Undelivered ==
  /\ Owing \in 0..Len(queue)
  /\ sealedAt # NoSequence => Owing + 1 \in 1..Len(queue) /\ IsSignal(queue[Owing + 1])
  /\ Promised \in Seq(Events) /\ Len(Promised) = Len(received) + Owing
  /\ \A i \in 1..Len(received) : Promised[i] = received[i]
  /\ \A i \in 1..Owing : Promised[Len(received) + i] = queue[i]
  /\ Fate = IF sealedAt = NoSequence THEN "running"
            ELSE IF queue[Owing + 1].kind = "close" THEN "ended" ELSE "raised"

LEMMA StillUndelivered ==
  /\ BusInv /\ stream \in {"open", "left"} => Undelivered
  /\ BusInv' /\ stream' \in {"open", "left"} => Undelivered'
<1>1. BusInv /\ stream \in {"open", "left"} => Undelivered
  <2> SUFFICES ASSUME BusInv, stream \in {"open", "left"} PROVE Undelivered
    OBVIOUS
  <2>1. Len(queue) \in Nat
    BY DEF BusInv, QueueInv
  <2> QED BY <2>1, OwedEvents, PromisedEvents, Fates DEF Undelivered
<1>2. (BusInv /\ stream \in {"open", "left"} => Undelivered)'
  BY <1>1, PTL
<1> QED BY <1>1, <1>2

LEMMA SameLog ==
  ASSUME Len(Promised') = Len(Promised),
         \A i \in 1..Len(Promised) : Promised'[i] = Promised[i]
  PROVE  PromisedLog' = PromisedLog
BY DEF PromisedLog

\* Emitting before the seal produces an event of the stream; after it, nothing.
LEMMA EmitProduces ==
  ASSUME BusInv, BusInv', NEW a \in Emitters, NEW kind \in {"item", "delta"}, Emit(a, kind)
  PROVE  [Promise!Next]_(Promise!svars)
<1> DEFINE e == Event(nextSequence, a, kind)
<1>1. /\ queue \in Seq(Events \cup {Signal(end) : end \in Signals}) /\ Len(queue) \in Nat
      /\ Len(received) \in Nat /\ stream \in {"open", "ended", "raised", "left"}
  BY DEF BusInv, QueueInv
<1>2. /\ queue' = Append(queue, e) /\ UNCHANGED <<received, stream, sealedAt>>
  BY DEF Emit
<1>3. e \in Events /\ e.by = a
  BY DEF BusInv, QueueInv, Event, Events
<1> HIDE DEF e
<1>4. /\ Len(queue') = Len(queue) + 1 /\ queue'[Len(queue) + 1] = e
      /\ \A i \in 1..Len(queue) : queue'[i] = queue[i]
  BY <1>1, <1>2, <1>3, AppendProperties
<1>5. CASE stream \in {"ended", "raised"}
  <2>1. Promised' = Promised /\ Fate' = Fate
    BY <1>2, <1>5 DEF Promised, Fate
  <2>2. PromisedLog' = PromisedLog
    BY <2>1, SameLog
  <2> QED BY <1>2, <2>1, <2>2 DEF Promise!svars
<1>6. CASE stream \in {"open", "left"} /\ sealedAt = NoSequence
  <2>1. /\ Owing = Len(queue) /\ Owing' = Len(queue) + 1 /\ Fate = "running" /\ Fate' = "running"
    BY <1>2, <1>4, <1>6, StillUndelivered DEF Owing, Undelivered
  <2>2. /\ Promised \in Seq(Events) /\ Len(Promised) = Len(received) + Len(queue)
        /\ \A i \in 1..Len(received) : Promised[i] = received[i]
        /\ \A i \in 1..Len(queue) : Promised[Len(received) + i] = queue[i]
    BY <1>6, <2>1, StillUndelivered DEF Undelivered
  <2>3. /\ Len(Promised') = Len(received) + Len(queue) + 1
        /\ \A i \in 1..Len(received) : Promised'[i] = received[i]
        /\ \A i \in 1..Len(queue) + 1 : Promised'[Len(received) + i] = queue'[i]
    <3>1. stream' \in {"open", "left"} /\ received' = received
      BY <1>2, <1>6
    <3> QED BY <1>1, <2>1, <3>1, StillUndelivered DEF Undelivered
  <2>4. \A i \in 1..Len(Promised) : Promised'[i] = Promised[i]
    <3> SUFFICES ASSUME NEW i \in 1..Len(Promised) PROVE Promised'[i] = Promised[i]
      OBVIOUS
    <3>1. CASE i \in 1..Len(received)
      BY <2>2, <2>3, <3>1
    <3>2. CASE i - Len(received) \in 1..Len(queue)
      <4> DEFINE n == i - Len(received)
      <4>1. n \in 1..Len(queue) /\ n \in 1..Len(queue) + 1 /\ Len(received) + n = i
        BY <1>1, <2>2, <3>2
      <4> HIDE DEF n
      <4>2. Promised[Len(received) + n] = queue[n]
        BY <2>2, <4>1
      <4>3. Promised'[Len(received) + n] = queue'[n]
        BY <2>3, <4>1
      <4>4. queue'[n] = queue[n]
        BY <1>4, <4>1
      <4> QED BY <4>1, <4>2, <4>3, <4>4
    <3>3. i \in 1..Len(received) \/ i - Len(received) \in 1..Len(queue)
      BY <1>1, <2>2
    <3> QED BY <3>1, <3>2, <3>3
  <2>5. Promised'[Len(Promised) + 1].by = a
    BY <1>1, <1>3, <1>4, <2>2, <2>3
  <2>6. PromisedLog \in Seq(Emitters) /\ Len(PromisedLog) = Len(Promised)
    <3>1. \A i \in 1..Len(Promised) : Promised[i].by \in Emitters
      <4>1. \A i \in 1..Len(Promised) : Promised[i] \in Events
        BY <2>2, ElementOfSeq
      <4> QED BY <4>1 DEF Events
    <3> QED BY <1>1, <2>2, <3>1 DEF PromisedLog
  <2>7. PromisedLog' = Append(PromisedLog, a)
    <3> DEFINE s == Append(PromisedLog, a)
    <3>1. /\ s \in Seq(Emitters) /\ Len(s) = Len(Promised) + 1
          /\ \A i \in 1..Len(Promised) : s[i] = PromisedLog[i]
          /\ s[Len(Promised) + 1] = a
      BY <2>6, AppendProperties
    <3> HIDE DEF s
    <3>2. /\ Len(Promised') = Len(Promised) + 1 /\ Len(Promised) \in Nat
          /\ PromisedLog' = [i \in 1..Len(Promised') |-> Promised'[i].by]
      BY <1>1, <2>2, <2>3 DEF PromisedLog
    <3>3. \A i \in 1..Len(Promised') : Promised'[i].by = s[i]
      BY <2>4, <2>5, <3>1, <3>2 DEF PromisedLog
    <3>4. s = [i \in 1..Len(Promised') |-> s[i]]
      BY <3>1, <3>2
    <3> QED BY <3>2, <3>3, <3>4 DEF s
  <2> QED BY <1>2, <2>1, <2>7 DEF Promise!Next, Promise!Produce
<1>7. CASE stream \in {"open", "left"} /\ sealedAt # NoSequence
  <2>1. Owing' = Owing /\ Owing \in 0..Len(queue) /\ Owing + 1 \in 1..Len(queue)
    BY <1>1, <1>2, <1>7, StillUndelivered DEF Owing, Undelivered
  <2>2. queue'[Owing + 1] = queue[Owing + 1] /\ Fate' = Fate
    <3>1. stream' \in {"open", "left"} /\ sealedAt' # NoSequence
      BY <1>2, <1>7 DEF NoSequence
    <3> QED BY <1>4, <1>7, <2>1, <3>1, StillUndelivered DEF Undelivered
  <2>3. /\ Len(Promised) = Len(received) + Owing
        /\ \A i \in 1..Len(received) : Promised[i] = received[i]
        /\ \A i \in 1..Owing : Promised[Len(received) + i] = queue[i]
    BY <1>7, StillUndelivered DEF Undelivered
  <2>4. /\ Len(Promised') = Len(received) + Owing
        /\ \A i \in 1..Len(received) : Promised'[i] = received[i]
        /\ \A i \in 1..Owing : Promised'[Len(received) + i] = queue'[i]
    <3>1. stream' \in {"open", "left"} /\ received' = received
      BY <1>2, <1>7
    <3> QED BY <2>1, <3>1, StillUndelivered DEF Undelivered
  <2>5. \A i \in 1..Len(Promised) : Promised'[i] = Promised[i]
    <3> SUFFICES ASSUME NEW i \in 1..Len(Promised) PROVE Promised'[i] = Promised[i]
      OBVIOUS
    <3>1. CASE i \in 1..Len(received)
      BY <2>3, <2>4, <3>1
    <3>2. CASE i - Len(received) \in 1..Owing
      <4>1. i - Len(received) \in 1..Len(queue) /\ Len(received) + (i - Len(received)) = i
        BY <1>1, <2>1, <2>3, <3>2
      <4> QED BY <1>4, <2>3, <2>4, <3>2, <4>1
    <3> QED BY <1>1, <2>1, <2>3, <3>1, <3>2
  <2>6. PromisedLog' = PromisedLog
    BY <2>3, <2>4, <2>5, SameLog
  <2> QED BY <1>2, <2>2, <2>6 DEF Promise!svars
<1> QED BY <1>1, <1>5, <1>6, <1>7

\* The signal seals the stream, whatever is still queued before it.
LEMMA PushSeals ==
  ASSUME BusInv, BusInv', NEW end \in Signals, Push(end)
  PROVE  Promise!Next
<1>1. /\ queue \in Seq(Events \cup {Signal(s) : s \in Signals}) /\ Len(queue) \in Nat
      /\ Len(received) \in Nat
      /\ queue' = Append(queue, Signal(end)) /\ UNCHANGED <<received, stream>>
      /\ sealedAt = NoSequence /\ sealedAt' = Len(received) + Len(queue)
      /\ stream \in {"open", "left"}
  BY DEF BusInv, QueueInv, Push
<1>2. /\ Len(queue') = Len(queue) + 1 /\ queue'[Len(queue) + 1] = Signal(end)
      /\ \A i \in 1..Len(queue) : queue'[i] = queue[i]
  BY <1>1, AppendProperties
<1>3. Owing = Len(queue) /\ Owing' = Len(queue)
  BY <1>1 DEF Owing, NoSequence
<1>4. sealedAt' # NoSequence
  BY <1>1 DEF NoSequence
<1>5. Undelivered /\ Undelivered'
  BY <1>1, StillUndelivered
<1>6. Fate = "running" /\ Fate' \in {"ended", "raised"}
  BY <1>1, <1>4, <1>5 DEF Undelivered
<1>7. PromisedLog' = PromisedLog
  <2>1. /\ Len(Promised) = Len(received) + Len(queue) /\ Len(Promised') = Len(Promised)
        /\ \A i \in 1..Len(received) : Promised'[i] = Promised[i]
        /\ \A i \in 1..Len(queue) : Promised'[Len(received) + i] = Promised[Len(received) + i]
    BY <1>1, <1>2, <1>3, <1>5 DEF Undelivered
  <2>2. ASSUME NEW i \in 1..Len(Promised)
        PROVE  Promised'[i] = Promised[i]
    <3>1. CASE i \in 1..Len(received)
      BY <2>1, <3>1
    <3>2. CASE i - Len(received) \in 1..Len(queue)
      <4>1. Len(received) + (i - Len(received)) = i
        BY <1>1, <2>1
      <4> QED BY <2>1, <3>2, <4>1
    <3> QED BY <1>1, <2>1, <3>1, <3>2
  <2> QED BY <2>1, <2>2, SameLog
<1> QED BY <1>1, <1>6, <1>7 DEF Promise!Next, Promise!Seal

\* The caller takes the next event it is owed, or is told the fate when it is
\* owed nothing.
LEMMA GetTakes ==
  ASSUME BusInv, BusInv', Get
  PROVE  Promise!Next
<1>1. /\ queue \in Seq(Events \cup {Signal(s) : s \in Signals})
      /\ received \in Seq(Events) /\ Len(received) \in Nat /\ sealedAt \in Nat \cup {NoSequence}
      /\ stream = "open" /\ queue # <<>> /\ queue' = Tail(queue) /\ sealedAt' = sealedAt
  BY DEF BusInv, QueueInv, Get
<1>2. /\ Len(queue) \in Nat \ {0} /\ Len(queue') = Len(queue) - 1 /\ Head(queue) = queue[1]
      /\ \A i \in 1..Len(queue') : queue'[i] = queue[i + 1]
      /\ Head(queue) \in Events \cup {Signal(s) : s \in Signals}
  BY <1>1, HeadTailProperties, EmptySeq
<1>3. Undelivered
  BY <1>1, StillUndelivered
<1>4. CASE ~IsSignal(Head(queue)) /\ received' = Append(received, Head(queue)) /\ stream' = stream
  <2>1. /\ Len(received') = Len(received) + 1 /\ received'[Len(received) + 1] = queue[1]
        /\ \A i \in 1..Len(received) : received'[i] = received[i]
    BY <1>1, <1>2, <1>4, EntryKinds, AppendProperties
  <2>2. Undelivered'
    BY <1>1, <1>4, StillUndelivered
  <2>3. Owing \in Nat \ {0} /\ Owing' = Owing - 1 /\ Owing <= Len(queue)
    <3>1. Owing # 0
      BY <1>2, <1>3, <1>4 DEF Undelivered, Owing
    <3> QED BY <1>1, <1>2, <1>3, <2>1, <3>1 DEF Undelivered, Owing
  <2>4. /\ Len(Promised) = Len(received) + Owing /\ Len(Promised') = Len(Promised)
        /\ \A i \in 1..Len(received) : Promised'[i] = Promised[i]
        /\ Promised'[Len(received) + 1] = queue[1]
        /\ Promised[Len(received) + 1] = queue[1]
    <3>1. Len(received) + 1 \in 1..Len(received') /\ 1 \in 1..Owing
          /\ \A i \in 1..Len(received) : i \in 1..Len(received')
      BY <1>1, <2>1, <2>3
    <3> QED BY <1>1, <1>3, <2>1, <2>2, <2>3, <3>1 DEF Undelivered
  <2>5. ASSUME NEW i \in 2..Owing
        PROVE  Promised'[Len(received) + i] = Promised[Len(received) + i]
    <3>1. /\ i - 1 \in 1..Owing' /\ i - 1 \in 1..Len(queue') /\ i \in 1..Owing
          /\ Len(received') + (i - 1) = Len(received) + i
      BY <1>1, <1>2, <2>1, <2>3
    <3>2. Promised'[Len(received') + (i - 1)] = queue'[i - 1] /\ queue'[i - 1] = queue[i - 1 + 1]
      BY <1>2, <2>2, <3>1 DEF Undelivered
    <3>3. Promised[Len(received) + i] = queue[i]
      BY <1>3, <3>1 DEF Undelivered
    <3>4. i - 1 + 1 = i
      BY <2>3
    <3> QED BY <3>1, <3>2, <3>3, <3>4
  <2>6. PromisedLog' = PromisedLog
    <3>1. ASSUME NEW i \in 1..Len(Promised)
          PROVE  Promised'[i] = Promised[i]
      <4>1. CASE i \in 1..Len(received)
        BY <2>4, <4>1
      <4>2. CASE i = Len(received) + 1
        BY <2>4, <4>2
      <4>3. CASE i - Len(received) \in 2..Owing
        <5>1. Len(received) + (i - Len(received)) = i
          BY <1>1, <2>4
        <5> QED BY <2>5, <4>3, <5>1
      <4> QED BY <1>1, <2>3, <2>4, <4>1, <4>2, <4>3
    <3> QED BY <2>4, <3>1, SameLog
  <2>7. Fate' = Fate
    <3>1. sealedAt # NoSequence => queue'[Owing' + 1] = queue[Owing + 1]
      <4> SUFFICES ASSUME sealedAt # NoSequence
                   PROVE  queue'[Owing' + 1] = queue[Owing + 1]
        OBVIOUS
      <4>1. Owing + 1 \in 1..Len(queue) /\ Owing' + 1 = Owing
        BY <1>3, <2>3 DEF Undelivered
      <4>2. Owing \in 1..Len(queue')
        BY <1>2, <2>3, <4>1
      <4> QED BY <1>2, <4>1, <4>2
    <3> QED BY <1>1, <1>3, <2>2, <3>1 DEF Undelivered
  <2>8. Len(received) < Len(PromisedLog)
    <3>1. Len(PromisedLog) = Len(Promised)
      BY <1>1, <2>3, <2>4 DEF PromisedLog
    <3> QED BY <1>1, <2>3, <2>4, <3>1
  <2> QED BY <1>1, <1>4, <2>1, <2>6, <2>7, <2>8 DEF Promise!Next, Promise!Take
<1>5. CASE /\ IsSignal(Head(queue)) /\ received' = received
           /\ stream' = IF Head(queue).kind = "close" THEN "ended" ELSE "raised"
  <2>1. Owing = 0 /\ sealedAt # NoSequence
    <3>1. 1 \in 1..Len(queue) /\ IsSignal(queue[1])
      BY <1>2, <1>5
    <3>2. sealedAt # NoSequence /\ 1 = sealedAt - Len(received) + 1
      BY <1>1, <3>1 DEF BusInv, OneSignal
    <3> QED BY <1>1, <3>2 DEF Owing, NoSequence
  <2>2. Fate = stream' /\ Fate' = stream' /\ Fate # "running"
    <3>1. Fate = stream'
      BY <1>2, <1>3, <1>5, <2>1 DEF Undelivered
    <3> QED BY <1>5, <3>1 DEF Fate
  <2>3. Len(Promised) = Len(received) /\ \A i \in 1..Len(received) : Promised[i] = received[i]
    BY <1>1, <1>3, <2>1 DEF Undelivered
  <2>4. Promised' = received
    BY <1>5 DEF Promised
  <2>5. PromisedLog' = PromisedLog
    BY <2>3, <2>4, SameLog
  <2>6. Len(PromisedLog) = Len(received)
    BY <1>1, <2>3 DEF PromisedLog
  <2> QED BY <1>1, <1>5, <2>2, <2>5, <2>6 DEF Promise!Next, Promise!Report
<1> QED BY <1>4, <1>5 DEF Get

LEMMA LeaveLeaves ==
  ASSUME Leave
  PROVE  Promise!Next
<1>1. /\ stream = "open" /\ stream' = "left" /\ Promised' = Promised /\ Fate' = Fate
      /\ received' = received
  BY DEF Leave, Promised, Owed, Fate
<1>2. PromisedLog' = PromisedLog
  BY <1>1, SameLog
<1> QED BY <1>1, <1>2 DEF Promise!Next, Promise!Leave

\* The bus delivers the stream callers are promised, step by step: every event
\* once, in one order for all agents, none after the end, and the end only
\* after the last.  (That the caller gets there is KeepsPromise's fairness,
\* which the run output_bus checks.)
THEOREM PromiseKept ==
  BusInit /\ [][BusNext]_busVars => Promise!Init /\ [][Promise!Next]_(Promise!svars)
<1>1. BusInit => Promise!Init
  <2> SUFFICES ASSUME BusInit PROVE Promise!Init
    OBVIOUS
  <2>1. BusInv /\ stream = "open" /\ sealedAt = NoSequence /\ received = <<>> /\ queue = <<>>
    BY BusInitInv DEF BusInit, BusInv, OneSignal
  <2>2. Undelivered /\ Owing = 0
    BY <2>1, StillUndelivered DEF Owing
  <2>3. PromisedLog = <<>> /\ Fate = "running"
    BY <2>1, <2>2 DEF Undelivered, PromisedLog
  <2> QED BY <2>1, <2>3 DEF Promise!Init
<1>2. BusInv /\ BusInv' /\ [BusNext]_busVars => [Promise!Next]_(Promise!svars)
  <2> SUFFICES ASSUME BusInv, BusInv', [BusNext]_busVars PROVE [Promise!Next]_(Promise!svars)
    OBVIOUS
  <2>1. CASE UNCHANGED busVars
    <3>1. Promised' = Promised /\ Fate' = Fate /\ UNCHANGED <<received, stream>>
      BY <2>1 DEF busVars, Promised, Owed, Fate
    <3> QED BY <3>1, SameLog DEF Promise!svars
  <2> QED BY <2>1, EmitProduces, PushSeals, GetTakes, LeaveLeaves DEF BusNext
<1> QED BY <1>1, <1>2, BusInvHolds, PTL

-----------------------------------------------------------------------------
(* The run.                                                                *)

\* The bus has been closed, whether the caller has seen it or not.
BusClosed == (\E i \in 1..Len(queue) : queue[i].kind = "close") \/ stream = "ended"

\* The driver task and the root's agent: nothing happens before the driver
\* begins, it runs while the root does, and only the root's answer closes the
\* bus.
DriverInv ==
  /\ drive \in {"none", "created", "running", "done"}
  /\ drive \in {"none", "created"} =>
       /\ stage[Root] = "thinking" /\ sealedAt = NoSequence
       /\ \A c \in Invocations : stage[c] = "none"
  /\ drive = "running" => stage[Root] \in Running
  /\ drive = "done" => stage[Root] \in Ended
  /\ BusClosed => drive = "done" /\ stage[Root] = "returned"

\* The generator, the driver it waits for and the resources it holds.
GeneratorInv ==
  /\ consumer \in {"starting", "preparing", "streaming", "joining", "closing",
                   "shutting", "finished"}
  /\ consumer \in {"starting", "preparing"} => drive = "none"
  /\ consumer \in {"streaming", "joining"} => drive # "none"
  /\ consumer \in {"closing", "shutting", "finished"} => drive \in {"none", "done"}
  /\ client \in {"none", "open", "closed", "broken"}
  /\ client = "open" => consumer \in {"preparing", "streaming", "joining", "closing"}
  /\ client \in {"closed", "broken"} => consumer \in {"shutting", "finished"}
  /\ telemetry \in {"off", "open", "shut"}
  /\ telemetry = "shut" => consumer = "finished"
  /\ consumer = "finished" => telemetry # "open"
  /\ verdict = "clean" => stream = "ended"

\* The entry point: only the items' wrapper drops a generator, and only a
\* private loop is closed, after the run or with the dropped generator.
EntryInv ==
  /\ surface \in Surfaces
  /\ dropped => surface.filtered
  /\ loop = "closed" => surface.private /\ (consumer = "finished" \/ dropped)

-----------------------------------------------------------------------------
(* The run as a behaviour of its components.                               *)

\* A driver cancelled before its first step is a root that unwinds with
\* nothing below it.
LEMMA NeverRanUnwinds ==
  ASSUME DriverInv, DriveNeverRan
  PROVE  Unwind(Root)
<1>1. /\ stage[Root] = "thinking" /\ \A c \in Invocations : stage[c] = "none"
      /\ Root \in doomed /\ doomed' = doomed \ {Root}
      /\ stage' = [stage EXCEPT ![Root] = "cancelled"]
      /\ UNCHANGED <<parent, depth, value, waiters>>
  BY DEF DriverInv, DriveNeverRan
<1>2. LiveChildren(Root) = {}
  BY <1>1 DEF LiveChildren, Children, Live, Running
<1> QED BY <1>1, <1>2 DEF Unwind, End, Live, Running

\* A caller that leaves cancels the root, if it still runs and nobody has.
LEMMA AbandonCancels ==
  ASSUME DriverInv, GeneratorInv, Abandon
  PROVE  [TreeNext]_treeVars /\ BusNext
<1>1. /\ consumer = "streaming" /\ Leave
      /\ doomed' = IF drive = "done" THEN doomed ELSE doomed \cup {Root}
      /\ UNCHANGED <<stage, parent, depth, value, waiters>>
  BY DEF Abandon
<1>2. drive # "done" => stage[Root] \in Running
  BY <1>1 DEF GeneratorInv, DriverInv, Running
<1>3. doomed' = doomed \/ CancelRoot
  BY <1>1, <1>2 DEF CancelRoot
<1> QED BY <1>1, <1>3 DEF TreeNext, treeVars, BusNext

LEMMA RunMoves ==
  ASSUME DriverInv, GeneratorInv, Proceed
  PROVE  [TreeNext]_treeVars /\ [BusNext]_busVars
<1>0. Root \in Agents /\ Emitters = Agents /\ Invocations \subseteq Agents
      /\ "close" \in Signals /\ "fail" \in Signals
  BY RunAssumption DEF Agents, Signals
<1>1. CASE Construct \/ Prepare \/ BeginDrive \/ Join \/ CloseClient \/ Shutdown
  BY <1>1 DEF Construct, Prepare, BeginDrive, Join, CloseClient, Shutdown
<1>2. CASE DriveNeverRan
  <2>1. UNCHANGED busVars
    BY <1>2 DEF DriveNeverRan
  <2> QED BY <1>0, <1>2, <2>1, NeverRanUnwinds DEF TreeNext
<1>3. CASE DriveEnds
  BY <1>0, <1>3 DEF DriveEnds, TreeNext, BusNext
<1>4. CASE CancelDrive
  BY <1>4 DEF CancelDrive, TreeNext
<1>5. CASE AgentStep
  BY <1>0, <1>5 DEF AgentStep, TreeNext
<1>6. ASSUME NEW a \in Agents, NEW kind \in {"item", "delta"}, AgentEmits(a, kind)
      PROVE  [TreeNext]_treeVars /\ [BusNext]_busVars
  BY <1>0, <1>6 DEF AgentEmits, BusNext
<1>7. CASE Consume
  BY <1>7 DEF Consume, BusNext
<1> QED BY <1>1, <1>2, <1>3, <1>4, <1>5, <1>6, <1>7 DEF Proceed

\* Every step of the run is a step, or none, of the tree and of the bus.
LEMMA SurfaceMoves ==
  ASSUME DriverInv, GeneratorInv, [SurfaceNext]_allVars
  PROVE  [TreeNext]_treeVars /\ [BusNext]_busVars
<1>1. CASE Run
  BY <1>1, RunMoves DEF Run
<1>2. CASE Cancelled \/ CloseRun \/ CloseDropped
  BY <1>2, AbandonCancels DEF Cancelled, CloseRun, CloseDropped
<1>3. CASE CloseWrapper \/ CloseLoop \/ UNCHANGED allVars
  BY <1>3 DEF CloseWrapper, CloseLoop, allVars, vars
<1> QED BY <1>1, <1>2, <1>3 DEF SurfaceNext

-----------------------------------------------------------------------------
(* The driver.                                                             *)

\* What the agents do leaves a root that runs running, and the answer of one
\* that has ended alone.
LEMMA AgentsKeepRoot ==
  ASSUME TreeInv, AgentStep
  PROVE  /\ stage[Root] \in Running => stage'[Root] \in Running
         /\ stage[Root] \in Ended => stage'[Root] = stage[Root]
<1>1. stage \in [Agents -> Stages] /\ Root \in Agents /\ Root \notin Invocations
      /\ Running \cap Ended = {} /\ "thinking" \in Running /\ "tools" \in Running
  BY TreeAssumption DEF TreeInv, TreeTypeOK, Agents, TreeAssumption, Running, Ended
<1>2. ASSUME NEW c \in Invocations, NEW to, NEW d, NEW v, MoveAndWake(c, to, d, v)
      PROVE  stage'[Root] = stage[Root]
  BY <1>1, <1>2 DEF MoveAndWake, Woken
<1>3. ASSUME NEW c \in Invocations, NEW to, End(c, to)
      PROVE  stage'[Root] = stage[Root]
  BY <1>1, <1>2, <1>3 DEF End
<1>4. ASSUME NEW a \in Agents, NEW calls \in SUBSET Invocations, Delegate(a, calls)
      PROVE  \/ stage'[Root] = stage[Root]
             \/ stage[Root] = "thinking" /\ stage'[Root] = "tools"
  BY <1>1, <1>4 DEF Delegate
<1>5. ASSUME NEW c \in Invocations, Enter(c) \/ BadArguments(c) \/ Start(c)
      PROVE  stage'[Root] = stage[Root]
  BY <1>1, <1>2, <1>5 DEF Enter, BadArguments, Start
<1>6. ASSUME NEW c \in Invocations, Return(c) \/ Fail(c)
      PROVE  stage'[Root] = stage[Root]
  BY <1>3, <1>6 DEF Return, Fail
<1>7. ASSUME NEW c \in Invocations, Unwind(c)
      PROVE  stage'[Root] = stage[Root]
  BY <1>1, <1>2, <1>3, <1>7 DEF Unwind
<1>8. ASSUME NEW a \in Agents, Resume(a)
      PROVE  \/ stage'[Root] = stage[Root]
             \/ stage[Root] = "tools" /\ stage'[Root] = "thinking"
  BY <1>1, <1>8 DEF Resume
<1> QED BY <1>1, <1>4, <1>5, <1>6, <1>7, <1>8 DEF AgentStep, Running, Ended

\* However the driver ends, its root has.
LEMMA RootEnds ==
  ASSUME TreeInv, NEW how, End(Root, how)
  PROVE  stage'[Root] = how
BY DEF TreeInv, TreeTypeOK, Agents, End

\* Taking an entry brings no close into the queue, and ends the stream only
\* with one that was there.
LEMMA CloseTaken ==
  ASSUME QueueInv, Get, BusClosed'
  PROVE  BusClosed
<1>1. /\ queue \in Seq(Events \cup {Signal(end) : end \in Signals}) /\ queue # <<>>
      /\ queue' = Tail(queue) /\ stream = "open"
  BY DEF Get, QueueInv
<1>2. /\ Len(queue) \in Nat \ {0} /\ Len(queue') = Len(queue) - 1 /\ Head(queue) = queue[1]
      /\ \A i \in 1..Len(queue') : queue'[i] = queue[i + 1]
  BY <1>1, HeadTailProperties, EmptySeq
<1>3. CASE stream' = "ended"
  <2>1. Head(queue).kind = "close"
    BY <1>1, <1>3 DEF Get
  <2> QED BY <1>2, <2>1 DEF BusClosed
<1>4. ASSUME NEW i \in 1..Len(queue'), queue'[i].kind = "close"
      PROVE  \E k \in 1..Len(queue) : queue[k].kind = "close"
  <2>1. i + 1 \in 1..Len(queue) /\ queue[i + 1].kind = "close"
    BY <1>2, <1>4
  <2> QED BY <2>1
<1> QED BY <1>3, <1>4 DEF BusClosed

\* Nothing else but a close puts one there.
LEMMA ClosePushed ==
  ASSUME QueueInv, NEW entry \in Events \cup {Signal(end) : end \in Signals},
         queue' = Append(queue, entry), entry.kind # "close", stream' = stream, BusClosed'
  PROVE  BusClosed
<1>1. queue \in Seq(Events \cup {Signal(end) : end \in Signals})
  BY DEF QueueInv
<1>2. /\ Len(queue) \in Nat /\ Len(queue') = Len(queue) + 1
      /\ \A i \in 1..Len(queue) : queue'[i] = queue[i]
      /\ queue'[Len(queue) + 1] = entry
  BY <1>1, AppendProperties
<1>3. ASSUME NEW i \in 1..Len(queue'), queue'[i].kind = "close"
      PROVE  \E k \in 1..Len(queue) : queue[k].kind = "close"
  <2>1. i \in 1..Len(queue)
    BY <1>2, <1>3
  <2> QED BY <1>2, <1>3, <2>1
<1> QED BY <1>3 DEF BusClosed

LEMMA DriverProceeds ==
  ASSUME TreeInv, QueueInv, DriverInv, GeneratorInv, Proceed
  PROVE  DriverInv'
<1>0. /\ stage \in [Agents -> Stages] /\ Root \in Agents /\ Root \notin Invocations
      /\ Running \cap Ended = {} /\ "thinking" \in Running
      /\ "returned" \in Ended /\ "failed" \in Ended /\ "cancelled" \in Ended
  BY TreeAssumption DEF TreeInv, TreeTypeOK, Agents, TreeAssumption, Running, Ended
<1>1. CASE Construct \/ Prepare \/ BeginDrive \/ Join \/ CloseClient \/ Shutdown
  <2>1. /\ UNCHANGED <<stage, queue, stream, sealedAt>>
        /\ \/ drive' = drive
           \/ drive = "none" /\ drive' = "created"
           \/ drive = "created" /\ drive' = "running"
    BY <1>1 DEF Construct, Prepare, BeginDrive, Join, CloseClient, Shutdown, treeVars, busVars,
                GeneratorInv
  <2> QED BY <1>0, <2>1 DEF DriverInv, BusClosed
<1>2. CASE DriveNeverRan
  <2>1. /\ drive = "created" /\ drive' = "done" /\ stage'[Root] = "cancelled"
        /\ UNCHANGED <<queue, stream, sealedAt>>
    BY <1>0, <1>2 DEF DriveNeverRan, busVars
  <2> QED BY <1>0, <2>1 DEF DriverInv, BusClosed
<1>3. CASE DriveEnds
  <2>1. drive = "running" /\ drive' = "done" /\ stream' = stream
    BY <1>3 DEF DriveEnds, Push
  <2>2. CASE Return(Root) /\ Push("close")
    <3>1. stage'[Root] = "returned"
      BY <2>2, RootEnds DEF Return
    <3> QED BY <1>0, <2>1, <3>1 DEF DriverInv
  <2>3. CASE (Fail(Root) \/ Unwind(Root)) /\ Push("fail")
    <3>1. stage'[Root] \in Ended
      <4>1. CASE Fail(Root)
        BY <1>0, <4>1, RootEnds DEF Fail
      <4>2. CASE Unwind(Root)
        <5>1. stage[Root] \in Running
          BY <2>1 DEF DriverInv
        <5>2. stage' = [stage EXCEPT ![Root] = "cancelled"] \/ End(Root, "cancelled")
          BY <4>2, <5>1 DEF Unwind, Running
        <5> QED BY <1>0, <5>2, RootEnds
      <4> QED BY <2>3, <4>1, <4>2
    <3>2. Signal("fail") \in {Signal(end) : end \in Signals} /\ Signal("fail").kind = "fail"
      BY DEF Signals, Signal
    <3>3. queue' = Append(queue, Signal("fail"))
      BY <2>3 DEF Push
    <3>4. BusClosed' => BusClosed
      BY <2>1, <3>2, <3>3, ClosePushed
    <3> QED BY <2>1, <3>1, <3>4 DEF DriverInv
  <2> QED BY <1>3, <2>2, <2>3 DEF DriveEnds
<1>4. CASE CancelDrive
  BY <1>4 DEF CancelDrive, CancelRoot, busVars, runVars, DriverInv, BusClosed
<1>5. CASE AgentStep
  <2>1. drive \in {"running", "done"} /\ UNCHANGED <<drive, queue, stream, sealedAt>>
    BY <1>5 DEF AgentStep, busVars, runVars
  <2> QED BY <1>0, <1>5, <2>1, AgentsKeepRoot DEF DriverInv, BusClosed
<1>6. ASSUME NEW a \in Agents, NEW kind \in {"item", "delta"}, AgentEmits(a, kind)
      PROVE  DriverInv'
  <2> DEFINE e == Event(nextSequence, a, kind)
  <2>1. e \in Events /\ e.kind # "close"
    BY RunAssumption DEF QueueInv, Event, Events
  <2>2. /\ queue' = Append(queue, e) /\ drive \in {"running", "done"}
        /\ UNCHANGED <<drive, stage, stream, sealedAt>>
    BY <1>6 DEF AgentEmits, Emit, treeVars, runVars
  <2> HIDE DEF e
  <2>3. BusClosed' => BusClosed
    BY <2>1, <2>2, ClosePushed
  <2> QED BY <2>2, <2>3 DEF DriverInv
<1>7. CASE Consume
  <2>1. BusClosed' => BusClosed
    BY <1>7, CloseTaken DEF Consume
  <2>2. UNCHANGED <<drive, stage, sealedAt>>
    BY <1>7 DEF Consume, Get, treeVars
  <2> QED BY <2>1, <2>2 DEF DriverInv
<1> QED BY <1>1, <1>2, <1>3, <1>4, <1>5, <1>6, <1>7 DEF Proceed

LEMMA DriverStep ==
  ASSUME TreeInv, QueueInv, DriverInv, GeneratorInv, [SurfaceNext]_allVars
  PROVE  DriverInv'
<1>1. CASE Run
  BY <1>1, DriverProceeds DEF Run
<1>2. CASE Cancelled \/ CloseRun \/ CloseDropped
  <2>1. UNCHANGED <<drive, stage, queue, sealedAt>> /\ stream' = "left"
    BY <1>2 DEF Cancelled, CloseRun, CloseDropped, Abandon, Leave
  <2> QED BY <2>1 DEF DriverInv, BusClosed
<1>3. CASE CloseWrapper \/ CloseLoop \/ UNCHANGED allVars
  BY <1>3 DEF CloseWrapper, CloseLoop, allVars, vars, treeVars, busVars, runVars, DriverInv, BusClosed
<1> QED BY <1>1, <1>2, <1>3 DEF SurfaceNext

-----------------------------------------------------------------------------
(* The generator and its surface.                                          *)

LEMMA GeneratorStep ==
  ASSUME DriverInv, GeneratorInv, [SurfaceNext]_allVars
  PROVE  GeneratorInv'
<1>1. CASE Run
  <2>1. CASE Construct \/ Prepare
    BY <1>1, <2>1 DEF Construct, Prepare, busVars, GeneratorInv
  <2>2. CASE BeginDrive \/ DriveNeverRan \/ DriveEnds
    <3>1. drive \in {"created", "running"} /\ drive' \in {"running", "done"}
          /\ UNCHANGED <<consumer, verdict, client, telemetry, stream>>
      BY <2>2 DEF BeginDrive, DriveNeverRan, DriveEnds, Push, busVars
    <3> QED BY <3>1 DEF GeneratorInv
  <2>3. CASE CancelDrive \/ AgentStep
    BY <2>3 DEF CancelDrive, AgentStep, runVars, busVars, GeneratorInv
  <2>4. ASSUME NEW a \in Agents, NEW kind \in {"item", "delta"}, AgentEmits(a, kind)
        PROVE  GeneratorInv'
    BY <2>4 DEF AgentEmits, Emit, runVars, GeneratorInv
  <2>5. CASE Consume
    <3>1. /\ consumer = "streaming" /\ consumer' \in {"streaming", "joining"}
          /\ UNCHANGED <<drive, client, telemetry>>
          /\ verdict' = "clean" => stream' = "ended" \/ verdict = "clean"
          /\ stream = "open"
      BY <2>5 DEF Consume, Get
    <3> QED BY <3>1 DEF GeneratorInv
  <2>6. CASE Join \/ CloseClient \/ Shutdown
    BY <2>6 DEF Join, CloseClient, Shutdown, busVars, GeneratorInv
  <2> QED BY <1>1, <2>1, <2>2, <2>3, <2>4, <2>5, <2>6 DEF Run, Proceed
<1>2. CASE Cancelled \/ CloseRun \/ CloseDropped
  <2>1. /\ consumer = "streaming" /\ consumer' = "joining" /\ verdict' = "error"
        /\ UNCHANGED <<drive, client, telemetry>>
    BY <1>2 DEF Cancelled, CloseRun, CloseDropped, Abandon
  <2> QED BY <2>1 DEF GeneratorInv
<1>3. CASE CloseWrapper \/ CloseLoop \/ UNCHANGED allVars
  BY <1>3 DEF CloseWrapper, CloseLoop, allVars, vars, busVars, runVars, GeneratorInv
<1> QED BY <1>1, <1>2, <1>3 DEF SurfaceNext

LEMMA EntryStep ==
  ASSUME GeneratorInv, EntryInv, [SurfaceNext]_allVars
  PROVE  EntryInv'
<1>1. CASE Run \/ Cancelled \/ CloseRun \/ CloseWrapper \/ CloseDropped
  <2>1. loop' = "running" /\ surface' = surface
    BY <1>1 DEF Run, Cancelled, CloseRun, CloseWrapper, CloseDropped, surfaceVars
  <2>2. dropped' = dropped \/ dropped' = FALSE \/ (dropped' = TRUE /\ surface.filtered)
    BY <1>1 DEF Run, Cancelled, CloseRun, CloseWrapper, CloseDropped, surfaceVars
  <2> QED BY <2>1, <2>2 DEF EntryInv
<1>2. CASE CloseLoop
  BY <1>2 DEF CloseLoop, EntryInv, vars, runVars
<1>3. CASE UNCHANGED allVars
  BY <1>3 DEF allVars, vars, runVars, surfaceVars, EntryInv
<1> QED BY <1>1, <1>2, <1>3 DEF SurfaceNext

-----------------------------------------------------------------------------
(* The theorems.                                                           *)

RunInv ==
  /\ TreeInv /\ PermitsConserved /\ RootRuns
  /\ QueueInv
  /\ DriverInv /\ GeneratorInv /\ EntryInv

LEMMA RunInitInv == SurfaceInit => RunInv
<1> SUFFICES ASSUME SurfaceInit PROVE RunInv
  OBVIOUS
<1>1. TreeInit /\ BusInit /\ drive = "none" /\ Root \in Agents /\ Root \notin Invocations
  BY TreeAssumption DEF SurfaceInit, Init, Agents, TreeAssumption
<1>2. TreeInv /\ PermitsConserved /\ RootRuns
  BY <1>1, InitGood
<1>3. QueueInv
  BY <1>1, BusInitInv
<1>4. DriverInv
  BY <1>1 DEF TreeInit, BusInit, DriverInv, BusClosed, Agents
<1>5. GeneratorInv /\ EntryInv
  BY DEF SurfaceInit, Init, GeneratorInv, EntryInv
<1> QED BY <1>2, <1>3, <1>4, <1>5 DEF RunInv

LEMMA RunStep == RunInv /\ [SurfaceNext]_allVars => RunInv'
<1> SUFFICES ASSUME RunInv, [SurfaceNext]_allVars PROVE RunInv'
  OBVIOUS
<1>1. [TreeNext]_treeVars /\ [BusNext]_busVars
  BY SurfaceMoves DEF RunInv
<1>2. TreeInv' /\ PermitsConserved' /\ RootRuns'
  BY <1>1, TreeStep DEF RunInv
<1>3. QueueInv'
  BY <1>1, BusStepInv DEF RunInv
<1>4. DriverInv' /\ GeneratorInv' /\ EntryInv'
  BY DriverStep, GeneratorStep, EntryStep DEF RunInv
<1> QED BY <1>2, <1>3, <1>4 DEF RunInv

LEMMA RunHolds == SurfaceSpec => []RunInv
BY RunInitInv, RunStep, PTL DEF SurfaceSpec

\* A run, through whichever entry point and however it ends, is a behaviour of
\* the tree of agents: its driver, its generator and its caller do nothing to
\* the agents that the steps of the tree do not.
THEOREM RunIsATree == SurfaceSpec => TreeSpec
<1>1. SurfaceInit => TreeInit
  BY DEF SurfaceInit, Init
<1>2. RunInv /\ [SurfaceNext]_allVars => [TreeNext]_treeVars
  BY SurfaceMoves DEF RunInv
<1> QED BY <1>1, <1>2, RunHolds, PTL DEF SurfaceSpec, TreeSpec

\* It is also a behaviour of the output bus (its safety part: that the caller
\* keeps asking is the entry points' business).
THEOREM RunIsABus == SurfaceSpec => BusInit /\ [][BusNext]_busVars
<1>1. SurfaceInit => BusInit
  BY DEF SurfaceInit, Init
<1>2. RunInv /\ [SurfaceNext]_allVars => [BusNext]_busVars
  BY SurfaceMoves DEF RunInv
<1> QED BY <1>1, <1>2, RunHolds, PTL DEF SurfaceSpec

\* What the callers of every entry point are promised of the stream, whoever
\* emits, cancels or leaves (OrderedStream; its safety part).
THEOREM RunKeepsPromise ==
  SurfaceSpec => Promise!Init /\ [][Promise!Next]_(Promise!svars)
BY RunIsABus, PromiseKept

\* A caller whose iteration ended without an error has the root's answer and
\* every event emitted before it, and nobody is left at work except below an
\* agent that was cancelled (stream_engine_async).
THEOREM CleanRuns == SurfaceSpec => []CleanRunIsComplete
<1>1. RunInv /\ NoStrays => CleanRunIsComplete
  <2> SUFFICES ASSUME RunInv, NoStrays, verdict = "clean"
               PROVE  /\ stage[Root] = "returned"
                      /\ Len(received) = sealedAt
                      /\ \A c \in Invocations :
                           (stage[c] \in Live /\ c \notin doomed) => stage[parent[c]] \in Live
    BY DEF CleanRunIsComplete
  <2>1. stream = "ended"
    BY DEF RunInv, GeneratorInv
  <2>2. stage[Root] = "returned"
    BY <2>1 DEF RunInv, DriverInv, BusClosed
  <2>3. Len(received) = sealedAt
    BY <2>1 DEF RunInv, QueueInv, DrainedBeforeEnd
  <2> QED BY <2>2, <2>3 DEF NoStrays, Live, Running
<1> QED BY <1>1, RunIsATree, Strays, RunHolds, PTL

\* The client outlives the driver, and telemetry outlives the client, whatever
\* fails and whoever cancels or leaves (stream_engine_async's finally blocks).
THEOREM Teardown == SurfaceSpec => []TeardownOrder
<1>1. RunInv => TeardownOrder
  BY DEF RunInv, GeneratorInv, TeardownOrder
<1> QED BY <1>1, RunHolds, PTL

\* Through every entry point but the synchronous items' one, a private loop
\* that is closed has nothing of the run left in it (_drive_sync).
THEOREM NothingLeaks ==
  ASSUME [filtered |-> TRUE, private |-> TRUE] \notin Surfaces
  PROVE  SurfaceSpec => []ClosedLoopLeaksNothing
<1>1. RunInv => ClosedLoopLeaksNothing
  <2> SUFFICES ASSUME RunInv, loop = "closed"
               PROVE  /\ consumer = "finished" /\ drive \in {"none", "done"}
                      /\ client # "open" /\ telemetry # "open"
    BY DEF ClosedLoopLeaksNothing
  <2>1. surface \in [filtered : BOOLEAN, private : BOOLEAN] /\ surface \in Surfaces
    BY SurfaceAssumption DEF SurfaceAssumption, RunInv, EntryInv
  <2>2. surface.private /\ ~surface.filtered
    BY <2>1 DEF RunInv, EntryInv
  <2>3. consumer = "finished"
    BY <2>2 DEF RunInv, EntryInv
  <2> QED BY <2>3 DEF RunInv, GeneratorInv
<1> QED BY <1>1, RunHolds, PTL
=============================================================================
