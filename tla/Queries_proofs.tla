--------------------------- MODULE Queries_proofs ----------------------------
(***************************************************************************)
(* Proofs about what answers a question over stored data: the walks of     *)
(* graph-service, and the plan of planner-service with its export.         *)
(*                                                                         *)
(* Of a walk: a blast radius is exactly what can be reached against the    *)
(* edges, each with the length of its shortest way, and a trust chain      *)
(* repeats nobody and runs in the same direction, on any snapshot, with    *)
(* whatever cycles, repeated edges and missing nodes.  The loop of         *)
(* blast_radius keeps GraphInv, the invariant of a search by breadth.      *)
(* When its queue is empty, nothing that leads to an affected node is left *)
(* out, so by induction on the length k all that is reached in k steps is  *)
(* affected, at k or nearer; and what is affected has a way of its depth,  *)
(* and of no more steps than the snapshot has edges.                       *)
(*                                                                         *)
(* Of the snapshots of the projection: the loop over the certificates keeps*)
(* Climbed, by which the edges it has made lead from the leaf to each      *)
(* certificate, and back, and never to two; and nodes are told apart by    *)
(* their ids, so that what replaces a node has its type.                   *)
(*                                                                         *)
(* Of plans and exports: for every set of names, risks and exporters.      *)
(***************************************************************************)
EXTENDS GraphProjection, MigrationPlan, SequenceTheorems, FiniteSetTheorems,
        WellFoundedInduction, TLAPS

-----------------------------------------------------------------------------
(* Sets, sequences and induction *)

(* Every set of numbers has a least one.                                    *)
LEMMA LeastNat ==
    ASSUME NEW T \in SUBSET Nat, T # {}
    PROVE  \E n \in T : \A m \in T : n <= m
<1> DEFINE R == OpToRel(<, Nat)
<1>1. PICK n \in T : \A m \in T : ~ (<<m, n>> \in R)
  <2>1. IsWellFoundedOn(R, Nat)
    BY NatLessThanWellFounded
  <2> HIDE DEF R
  <2> QED
    BY <2>1, WFMin, Zenon
<1>2. \A m \in T : ~ (m < n)
    BY <1>1 DEF OpToRel
<1> QED
    BY <1>2

(* Induction over the numbers, for a property given as the set of those     *)
(* that have it.                                                            *)
LEMMA SetInduction ==
    ASSUME NEW S, 0 \in S, \A n \in Nat : n \in S => n + 1 \in S
    PROVE  Nat \subseteq S
<1> SUFFICES ASSUME Nat \ S # {} PROVE FALSE
    OBVIOUS
<1>1. PICK n \in Nat \ S : \A m \in Nat \ S : n <= m
  <2>1. Nat \ S \in SUBSET Nat
    OBVIOUS
  <2> QED
    BY <2>1, LeastNat
<1>2. n - 1 \in Nat /\ n = (n - 1) + 1 /\ ~ (n <= n - 1)
    BY <1>1
<1>3. n - 1 \in S
    BY <1>1, <1>2
<1> QED
    BY <1>1, <1>2, <1>3

(* SetToSeq lists each element of a finite set once.                        *)
LEMMA SetToSeqIs ==
    ASSUME NEW S, IsFiniteSet(S)
    PROVE  /\ SetToSeq(S) \in Seq(S)
           /\ \A i, j \in DOMAIN SetToSeq(S) : SetToSeq(S)[i] = SetToSeq(S)[j] => i = j
           /\ S = {SetToSeq(S)[i] : i \in DOMAIN SetToSeq(S)}
<1> DEFINE n == Cardinality(S)
           s == SetToSeq(S)
<1>1. n \in Nat /\ ExistsBijection(1 .. n, S)
    BY FS_CardinalityType
<1>2. PICK f : f \in Bijection(1 .. n, S)
    BY <1>1 DEF ExistsBijection
<1>3. f \in [1 .. n -> S] /\ IsInjective(f)
    BY <1>2 DEF Bijection, Injection, IsInjective
<1>4. s \in [1 .. n -> S] /\ IsInjective(s)
    BY <1>3 DEF SetToSeq
<1> HIDE DEF s
<1>5. s \in Injection(1 .. n, S)
    BY <1>4 DEF Injection
<1>6. IsFiniteSet(1 .. n) /\ Cardinality(1 .. n) = n
    BY <1>1, FS_Interval
<1>7. s \in Surjection(1 .. n, S)
    BY <1>5, <1>6, FS_Injection
<1>8. DOMAIN s = 1 .. n /\ s \in Seq(S)
    BY <1>1, <1>4
<1>9. \A i, j \in DOMAIN s : s[i] = s[j] => i = j
    BY <1>4 DEF IsInjective
<1>10. S = {s[i] : i \in DOMAIN s}
    BY <1>4, <1>7, <1>8 DEF Surjection
<1> QED
    BY <1>8, <1>9, <1>10 DEF s

(* Whoever is reached in k steps, by the recursion that defines it.         *)
LEMMA ReachedIs ==
    ASSUME NEW g, NEW n, NEW F, Len(g.edges) \in Nat
    PROVE  LET level == Reached(g, n, F)
           IN /\ level[0] = {n}
              /\ \A k \in 1 .. Len(g.edges) :
                    level[k] = level[k - 1] \union UNION {Into(g, m, F) : m \in level[k - 1]}
<1> DEFINE N       == Len(g.edges)
           More(S) == S \union UNION {Into(g, m, F) : m \in S}
           IsLevel(h, m) == h = [k \in 0 .. m |-> IF k = 0 THEN {n} ELSE More(h[k - 1])]
           Has     == {m \in Nat : \E h : IsLevel(h, m)}
<1>1. 0 \in Has
  <2>1. IsLevel([k \in 0 .. 0 |-> {n}], 0)
    OBVIOUS
  <2> QED
    BY <2>1
<1>2. ASSUME NEW m \in Nat, m \in Has PROVE m + 1 \in Has
  <2>1. PICK h : IsLevel(h, m)
    BY <1>2
  <2>0. \A k \in 0 .. m : h[k] = IF k = 0 THEN {n} ELSE More(h[k - 1])
    BY <2>1
  <2> DEFINE up == [k \in 0 .. m + 1 |-> IF k = m + 1 THEN More(h[m]) ELSE h[k]]
  <2> HIDE DEF More, IsLevel, Has
  <2>2. ASSUME NEW k \in 0 .. m + 1 PROVE up[k] = IF k = 0 THEN {n} ELSE More(up[k - 1])
    <3>1. CASE k = m + 1
      <4>1. up[k] = More(h[m]) /\ up[k - 1] = h[m] /\ k # 0
        BY <3>1
      <4> QED
        BY <4>1
    <3>2. CASE k \in 0 .. m
      <4>0. k # m + 1 /\ up[k] = h[k]
        BY <3>2
      <4>1. up[k] = h[k] /\ h[k] = IF k = 0 THEN {n} ELSE More(h[k - 1])
        BY <2>0, <3>2, <4>0
      <4>2. k # 0 => up[k - 1] = h[k - 1]
        BY <3>2
      <4> QED
        BY <4>1, <4>2
    <3> QED
      BY <3>1, <3>2
  <2>3. IsLevel(up, m + 1)
    BY <2>2 DEF IsLevel
  <2> QED
    BY <2>3 DEF Has
<1>3. Nat \subseteq Has
    BY <1>1, <1>2, SetInduction
<1>4. \E h : IsLevel(h, N)
    BY <1>3
<1> DEFINE level == CHOOSE h : IsLevel(h, N)
<1>5. Reached(g, n, F) = level
    BY DEF Reached
<1>6. IsLevel(level, N)
    BY <1>4
<1> HIDE DEF level, More
<1>. N \in Nat /\ 0 \in 0 .. N
    OBVIOUS
<1>a. \A k \in 0 .. N : level[k] = IF k = 0 THEN {n} ELSE More(level[k - 1])
    BY <1>6
<1> HIDE DEF IsLevel, N
<1>7. level[0] = {n} /\ \A k \in 1 .. N : level[k] = More(level[k - 1])
    BY <1>a
<1> QED
    BY <1>5, <1>7 DEF More, N

(* What is reached in k steps is reached in more.                           *)
LEMMA LevelsGrow ==
    ASSUME NEW g, NEW n, NEW F, Len(g.edges) \in Nat
    PROVE  \A k \in 0 .. Len(g.edges), j \in 0 .. Len(g.edges) :
              j <= k => Reached(g, n, F)[j] \subseteq Reached(g, n, F)[k]
<1> DEFINE N     == Len(g.edges)
           level == Reached(g, n, F)
           Up    == {k \in Nat : k <= N => \A j \in 0 .. k : level[j] \subseteq level[k]}
<1>1. \A k \in 1 .. N : level[k - 1] \subseteq level[k]
    BY ReachedIs
<1> HIDE DEF level
<1>2. 0 \in Up
    OBVIOUS
<1>3. ASSUME NEW k \in Nat, k \in Up PROVE k + 1 \in Up
  <2> SUFFICES ASSUME k + 1 <= N, NEW j \in 0 .. k + 1 PROVE level[j] \subseteq level[k + 1]
    OBVIOUS
  <2>1. (k + 1) - 1 = k /\ k + 1 \in 1 .. N
    OBVIOUS
  <2>2. level[k] \subseteq level[k + 1]
    BY <1>1, <2>1
  <2>3. j = k + 1 \/ j \in 0 .. k
    OBVIOUS
  <2> QED
    BY <1>3, <2>2, <2>3
<1>4. Nat \subseteq Up
    BY <1>2, <1>3, SetInduction
<1> QED
    BY <1>4 DEF level

(* What leads to a node is listed in the edges, so it is finite.            *)
LEMMA IntoIsFinite ==
    ASSUME NEW g, NEW n, NEW F, g.edges \in Seq(Edges(g))
    PROVE  IsFiniteSet(Into(g, n, F))
<1> DEFINE N   == Len(g.edges)
           src == [i \in 1 .. N |-> g.edges[i].from]
           T   == {src[i] : i \in 1 .. N}
<1>1. N \in Nat /\ DOMAIN g.edges = 1 .. N
    OBVIOUS
<1>2. src \in Surjection(1 .. N, T)
    BY DEF Surjection
<1>3. IsFiniteSet(1 .. N)
    BY <1>1, FS_Interval
<1>4. IsFiniteSet(T)
    BY <1>2, <1>3, FS_Surjection
<1>5. Into(g, n, F) \subseteq T
    BY <1>1 DEF Into, Edges
<1> QED
    BY <1>4, <1>5, FS_Subset

-----------------------------------------------------------------------------
(* The walks *)

(* A visit takes the first of the queue and enters what it leads to.        *)
LEMMA VisitIs ==
    ASSUME Visit
    PROVE  \E n, d, from : /\ n = Head(queue)[1] /\ d = Head(queue)[2]
                           /\ from = Affected(n, d + 1) /\ Enter(from, d + 1)
<1> DEFINE n == Head(queue)[1]
           d == Head(queue)[2]
<1>1. Enter(Affected(n, d + 1), d + 1)
    BY DEF Visit
<1> HIDE DEF n, d
<1>2. n = Head(queue)[1] /\ d = Head(queue)[2]
    BY DEF n, d
<1> QED
    BY <1>1, <1>2

(* One visit: what it finds first is one step farther than the first of the *)
(* queue, no distance that is known changes, and the queue stays in order.  *)
LEMMA VisitKeeps ==
    ASSUME GraphInv, Visit
    PROVE  GraphInv'
<1>1. /\ graph.edges \in Seq(Edges(graph)) /\ limit \in Nat
      /\ HaveWays /\ InOrder /\ LeaveNoGap /\ VisitedOnce /\ ~ done'
    BY DEF GraphInv, Visit
<1>2. UNCHANGED <<graph, query, start, filter, limit, chain, found, done>> /\ query = "radius"
    BY DEF Visit
<1>3. PICK n, d, from :
          /\ n = Head(queue)[1] /\ d = Head(queue)[2]
          /\ from = Affected(n, d + 1) /\ Enter(from, d + 1)
    BY VisitIs
<1>4. PICK L \in Nat \ {0} :
          /\ n \in Seen /\ d \in Nat /\ queue[1] = <<n, d>> /\ d = Distance(n)
          /\ L = Len(queue) /\ DOMAIN queue = 1 .. L
          /\ Tail(queue) \in Seq(Seen \X Nat) /\ Len(Tail(queue)) = L - 1
          /\ \A i \in 1 .. L - 1 : Tail(queue)[i] = queue[i + 1]
  <2>1. queue \in Seq(Seen \X Nat) /\ queue # <<>>
    BY <1>1 DEF InOrder, Visit
  <2>2. Len(queue) \in Nat \ {0} /\ DOMAIN queue = 1 .. Len(queue) /\ Head(queue) = queue[1]
    BY <2>1
  <2>3. Head(queue) \in Seen \X Nat
    BY <2>1, HeadTailProperties
  <2>4. queue[1][2] = Distance(queue[1][1])
    BY SMTT(30), <1>1, <2>2 DEF InOrder
  <2>5. /\ Tail(queue) \in Seq(Seen \X Nat) /\ Len(Tail(queue)) = Len(queue) - 1
        /\ \A i \in 1 .. Len(queue) - 1 : Tail(queue)[i] = queue[i + 1]
    BY <2>1, HeadTailProperties
  <2>6. n \in Seen /\ d \in Nat /\ queue[1] = <<n, d>>
    BY <1>3, <2>2, <2>3
  <2>7. d = Distance(n)
    BY <2>4, <2>6
  <2> QED
    BY <2>2, <2>5, <2>6, <2>7
<1>5. IsFiniteSet(from \ Seen)
  <2>1. IsFiniteSet(Into(graph, n, filter))
    BY <1>1, IntoIsFinite
  <2>2. from \ Seen \in SUBSET Into(graph, n, filter)
    BY <1>3 DEF Affected
  <2> QED
    BY <2>1, <2>2, FS_Subset
<1>6. PICK new \in Seq(from \ Seen), K \in Nat :
          /\ K = Len(new) /\ DOMAIN new = 1 .. K
          /\ \A i, j \in 1 .. K : new[i] = new[j] => i = j
          /\ from \ Seen = {new[i] : i \in 1 .. K}
          /\ queue' = Tail(queue) \o [i \in 1 .. K |-> <<new[i], d + 1>>]
          /\ depth' = [m \in DOMAIN depth \union (from \ Seen) |->
                          IF m \notin DOMAIN depth \/ (m \in from /\ depth[m] > d + 1)
                          THEN d + 1 ELSE depth[m]]
  <2> DEFINE list == SetToSeq(from \ Seen)
  <2>1. /\ list \in Seq(from \ Seen)
        /\ \A i, j \in DOMAIN list : list[i] = list[j] => i = j
        /\ from \ Seen = {list[i] : i \in DOMAIN list}
    BY <1>5, SetToSeqIs
  <2>2. /\ queue' = Tail(queue) \o [i \in DOMAIN list |-> <<list[i], d + 1>>]
        /\ depth' = [m \in DOMAIN depth \union (from \ Seen) |->
                        IF m \notin DOMAIN depth \/ (m \in from /\ depth[m] > d + 1)
                        THEN d + 1 ELSE depth[m]]
    BY <1>3 DEF Enter, Behind, Unvisited
  <2> HIDE DEF list
  <2>3. Len(list) \in Nat /\ DOMAIN list = 1 .. Len(list)
    BY <2>1
  <2> QED
    BY <2>1, <2>2, <2>3
<1> DEFINE fresh == from \ Seen
<1>7. \A m \in Seen : Distance(m) \in Nat /\ Distance(m) <= d + 1
  <2>1. \A m \in Seen : Distance(m) \in Nat
    BY <1>1 DEF HaveWays, Seen, Distance
  <2>2. queue # <<>> /\ queue[1][2] = d
    BY <1>4 DEF Visit
  <2> QED
    BY <1>1, <2>1, <2>2 DEF InOrder
(* What is known stays, what is new is one farther. *)
<1>8. /\ Seen' = Seen \union fresh
      /\ DOMAIN depth' = DOMAIN depth \union fresh
      /\ \A m \in DOMAIN depth : depth'[m] = depth[m]
      /\ \A m \in fresh : depth'[m] = d + 1
  <2>1. DOMAIN depth' = DOMAIN depth \union fresh
    BY <1>6
  <2>2. Seen' = Seen \union fresh
    BY <1>2, <2>1 DEF Seen
  <2>3. ASSUME NEW m \in DOMAIN depth PROVE depth'[m] = depth[m]
    <3>1. m \in Seen /\ m # start
      BY <1>1 DEF Seen, HaveWays
    <3>2. depth[m] \in Nat /\ depth[m] <= d + 1
      BY <1>7, <3>1 DEF Distance
    <3> QED
      BY <1>4, <1>6, <3>2
  <2>4. ASSUME NEW m \in fresh PROVE depth'[m] = d + 1
    BY <1>6 DEF Seen
  <2> QED
    BY <2>1, <2>2, <2>3, <2>4
<1>9. /\ \A m \in Seen : Distance(m)' = Distance(m)
      /\ \A m \in fresh : Distance(m)' = d + 1
  <2>1. ASSUME NEW m \in Seen PROVE Distance(m)' = Distance(m)
    BY <1>2, <1>8 DEF Distance, Seen
  <2>2. ASSUME NEW m \in fresh PROVE Distance(m)' = d + 1
    BY <1>2, <1>8 DEF Distance, Seen
  <2> QED
    BY <2>1, <2>2
<1>10. /\ queue' \in Seq(Seen' \X Nat)
       /\ DOMAIN queue' = 1 .. (L - 1) + K
       /\ \A i \in 1 .. L - 1 : queue'[i] = queue[i + 1]
       /\ \A i \in L .. (L - 1) + K : queue'[i] = <<new[i - (L - 1)], d + 1>>
  <2> DEFINE added == [i \in 1 .. K |-> <<new[i], d + 1>>]
             all   == (Seen \union fresh) \X Nat
  <2>1. Tail(queue) \in Seq(all)
    <3>1. Seen \X Nat \subseteq all
      OBVIOUS
    <3> QED
      BY <1>4, <3>1, SeqMonotonic
  <2>2. added \in Seq(all) /\ Len(added) = K
    BY SMTT(30), <1>4, <1>6
  <2> HIDE DEF added, all
  <2>3. Tail(queue) \o added \in Seq(all) /\ Len(Tail(queue) \o added) = (L - 1) + K
    BY <1>4, <2>1, <2>2, ConcatProperties
  <2>4. \A i \in 1 .. (L - 1) + K : (Tail(queue) \o added)[i] =
            IF i <= L - 1 THEN Tail(queue)[i] ELSE added[i - (L - 1)]
    BY <1>4, <2>1, <2>2, ConcatProperties
  <2>5. queue' = Tail(queue) \o added
    BY <1>6 DEF added
  <2>6. DOMAIN queue' = 1 .. (L - 1) + K
    BY <2>3, <2>5
  <2>7. ASSUME NEW i \in 1 .. L - 1 PROVE queue'[i] = queue[i + 1]
    BY <1>4, <1>6, <2>4, <2>5
  <2>8. ASSUME NEW i \in L .. (L - 1) + K PROVE queue'[i] = <<new[i - (L - 1)], d + 1>>
    <3>1. i \in 1 .. (L - 1) + K /\ ~(i <= L - 1) /\ i - (L - 1) \in 1 .. K
      BY <1>4, <1>6
    <3> QED
      BY <2>4, <2>5, <3>1 DEF added
  <2> QED
    BY <1>8, <2>3, <2>5, <2>6, <2>7, <2>8 DEF all
<1>11. HaveWays'
  <2> SUFFICES ASSUME NEW m \in DOMAIN depth \union fresh
               PROVE  /\ m # start
                      /\ depth'[m] \in Nat \ {0}
                      /\ limit > 0 => depth'[m] <= limit
                      /\ \E v \in Seen \union fresh : m \in Into(graph, v, filter)
                                                 /\ depth'[m] = Distance(v)' + 1
    BY <1>2, <1>8 DEF HaveWays
  <2>1. CASE m \in DOMAIN depth
    <3>1. /\ m # start /\ depth[m] \in Nat \ {0} /\ (limit > 0 => depth[m] <= limit)
          /\ \E v \in Seen : m \in Into(graph, v, filter) /\ depth[m] = Distance(v) + 1
      BY <1>1, <2>1 DEF HaveWays
    <3>2. depth'[m] = depth[m]
      BY <1>8, <2>1
    <3> QED
      BY <1>9, <3>1, <3>2
  <2>2. CASE m \in fresh
    <3>1. m # start /\ m \in from /\ depth'[m] = d + 1
      BY <1>8, <2>2 DEF Seen
    <3>2. m \in Into(graph, n, filter) /\ ~(limit > 0 /\ d + 1 > limit)
      BY <1>3, <3>1 DEF Affected
    <3>3. n \in Seen /\ Distance(n)' = d /\ d \in Nat
      BY <1>4, <1>9
    <3> QED
      BY <1>1, <3>1, <3>2, <3>3
  <2> QED
    BY <2>1, <2>2
<1>12. \A i \in 1 .. L - 1 : queue'[i][1] \in Seen /\ queue'[i][1] # n /\ queue'[i][2] \in Nat
                           /\ queue'[i] = queue[i + 1]
  <2> TAKE i \in 1 .. L - 1
  <2>1. i + 1 \in DOMAIN queue /\ 1 \in DOMAIN queue /\ i + 1 # 1
    BY <1>4
  <2>2. queue[i + 1] \in Seen \X Nat
    BY <1>1, <2>1 DEF InOrder
  <2>3. queue[i + 1][1] # queue[1][1]
    BY <1>1, <2>1 DEF VisitedOnce
  <2> QED
    BY SMTT(30), <1>4, <1>10, <2>2, <2>3
<1>13. \A i \in L .. (L - 1) + K : queue'[i][1] \in fresh /\ queue'[i][2] = d + 1
  <2> TAKE i \in L .. (L - 1) + K
  <2>1. i - (L - 1) \in 1 .. K
    BY SMTT(30), <1>4, <1>6
  <2> QED
    BY SMTT(30), <1>6, <1>10, <2>1
<1>14. InOrder'
  <2>0. \A i, j \in DOMAIN queue : i < j => queue[i][2] <= queue[j][2]
    BY <1>1 DEF InOrder
  <2>1. ASSUME NEW i \in DOMAIN queue' PROVE (queue[i][2] = Distance(queue[i][1]))'
    <3>1. CASE i \in 1 .. L - 1
      <4>1. i + 1 \in DOMAIN queue
        BY <1>4, <3>1
      <4>2. queue[i + 1][2] = Distance(queue[i + 1][1])
        BY <1>1, <4>1 DEF InOrder
      <4> QED
        BY <1>9, <1>12, <3>1, <4>2 DEF Distance
    <3>2. CASE i \in L .. (L - 1) + K
      BY <1>9, <1>13, <3>2 DEF Distance
    <3> QED
      BY <1>10, <3>1, <3>2
  <2>2. ASSUME NEW i \in DOMAIN queue', NEW j \in DOMAIN queue', i < j
        PROVE  queue'[i][2] <= queue'[j][2]
    <3>1. CASE j \in 1 .. L - 1
      <4>0. i \in 1 .. (L - 1) + K
        BY <1>10
      <4>1. i \in 1 .. L - 1 /\ i + 1 \in DOMAIN queue /\ j + 1 \in DOMAIN queue /\ i + 1 < j + 1
        BY SMTT(30), <1>4, <2>2, <3>1, <4>0
      <4>2. queue[i + 1][2] <= queue[j + 1][2]
        BY <2>0, <4>1
      <4> QED
        BY <1>12, <3>1, <4>1, <4>2
    <3>2. CASE j \in L .. (L - 1) + K
      <4>1. queue'[j][2] = d + 1
        BY <1>13, <3>2
      <4>2. CASE i \in 1 .. L - 1
        <5>1. queue'[i][1] \in Seen /\ (queue[i][2] = Distance(queue[i][1]))'
          BY <1>12, <2>1, <4>2
        <5> QED
          BY <1>7, <1>9, <4>1, <5>1 DEF Distance
      <4>3. CASE i \in L .. (L - 1) + K
        BY SMTT(30), <1>4, <1>13, <4>1, <4>3
      <4> QED
        BY <1>10, <4>2, <4>3
    <3> QED
      BY <1>10, <3>1, <3>2
  <2>3. ASSUME queue' # <<>>, NEW m \in Seen' PROVE Distance(m)' <= queue'[1][2] + 1
    <3>1. Distance(m)' \in Nat /\ Distance(m)' <= d + 1
      BY <1>4, <1>7, <1>8, <1>9
    <3>2. 1 \in DOMAIN queue'
      BY <1>10, <2>3
    <3>3. queue'[1][2] \in Nat /\ d <= queue'[1][2]
      <4>1. CASE L > 1
        <5>1. 1 \in 1 .. L - 1 /\ 1 \in DOMAIN queue /\ 2 \in DOMAIN queue
          BY <1>4, <4>1
        <5>2. queue[1][2] <= queue[2][2]
          BY <2>0, <5>1
        <5>3. queue[1][2] = d
          BY <1>4
        <5> QED
          BY <1>12, <5>1, <5>2, <5>3
      <4>2. CASE L = 1
        <5>1. 1 \in L .. (L - 1) + K
          BY <1>10, <3>2, <4>2
        <5> QED
          BY <1>4, <1>13, <5>1
      <4> QED
        BY <4>1, <4>2
    <3> QED
      BY <1>4, <3>1, <3>3
  <2> QED
    BY <1>10, <2>1, <2>2, <2>3 DEF InOrder
<1>15. VisitedOnce'
  <2> SUFFICES ASSUME NEW i \in DOMAIN queue', NEW j \in DOMAIN queue', queue'[i][1] = queue'[j][1]
               PROVE  i = j
    BY DEF VisitedOnce
  <2>1. CASE i \in 1 .. L - 1 /\ j \in 1 .. L - 1
    <3>1. i + 1 \in DOMAIN queue /\ j + 1 \in DOMAIN queue
      BY SMTT(30), <1>4, <2>1
    <3>2. queue[i + 1][1] = queue[j + 1][1]
      BY <1>12, <2>1
    <3>3. i + 1 = j + 1
      BY <1>1, <3>1, <3>2 DEF VisitedOnce
    <3> QED
      BY <2>1, <3>3
  <2>2. CASE i \in L .. (L - 1) + K /\ j \in L .. (L - 1) + K
    <3>1. i - (L - 1) \in 1 .. K /\ j - (L - 1) \in 1 .. K
      BY <2>2
    <3>2. new[i - (L - 1)] = new[j - (L - 1)]
      BY SMTT(30), <1>10, <2>2
    <3>3. i - (L - 1) = j - (L - 1)
      BY <1>6, <3>1, <3>2
    <3> QED
      BY <2>2, <3>3
  <2>3. CASE \/ i \in 1 .. L - 1 /\ j \in L .. (L - 1) + K
             \/ j \in 1 .. L - 1 /\ i \in L .. (L - 1) + K
    BY <1>12, <1>13, <2>3
  <2>4. /\ i \in 1 .. L - 1 \/ i \in L .. (L - 1) + K
        /\ j \in 1 .. L - 1 \/ j \in L .. (L - 1) + K
    <3>1. \A k \in 1 .. (L - 1) + K : k \in 1 .. L - 1 \/ k \in L .. (L - 1) + K
      OBVIOUS
    <3>2. DOMAIN queue' = 1 .. (L - 1) + K
      BY <1>10
    <3> QED
      BY <3>1, <3>2
  <2> QED
    BY <2>1, <2>2, <2>3, <2>4
<1>16. LeaveNoGap'
  <2> SUFFICES ASSUME NEW v \in Seen \union fresh, v \notin Waiting',
                      limit = 0 \/ Distance(v)' < limit,
                      NEW m \in Into(graph, v, filter)
               PROVE  m \in Seen \union fresh /\ Distance(m)' <= Distance(v)' + 1
    BY <1>2, <1>8 DEF LeaveNoGap
  <2>1. ASSUME v \in fresh PROVE FALSE
    <3>1. PICK i \in 1 .. K : new[i] = v
      BY <1>6, <2>1
    <3>2. i + (L - 1) \in L .. (L - 1) + K /\ (i + (L - 1)) - (L - 1) = i
      BY <1>6, <1>4
    <3>3. i + (L - 1) \in DOMAIN queue' /\ queue'[i + (L - 1)][1] = v
      BY SMTT(30), <1>10, <3>1, <3>2
    <3> QED
      BY <3>3 DEF Waiting
  <2>2. v \in Seen /\ Distance(v)' = Distance(v)
    BY <1>9, <2>1
  <2>3. CASE v = n
    <3>1. m \in from
      BY <1>1, <1>3, <1>4, <2>2, <2>3 DEF Affected
    <3>2. m \in Seen \/ m \in fresh
      BY <3>1
    <3> QED
      BY <1>4, <1>7, <1>9, <2>2, <2>3, <3>2
  <2>4. CASE v # n
    <3>1. ASSUME v \in Waiting PROVE FALSE
      <4>1. PICK i \in 1 .. L : queue[i][1] = v
        BY <1>4, <3>1 DEF Waiting
      <4>2. i # 1
        BY <1>4, <2>4, <4>1
      <4>3. i - 1 \in 1 .. L - 1 /\ (i - 1) + 1 = i /\ i - 1 \in DOMAIN queue'
        <5>1. i - 1 \in 1 .. L - 1 /\ (i - 1) + 1 = i /\ i - 1 \in 1 .. (L - 1) + K
          BY <4>2
        <5>2. DOMAIN queue' = 1 .. (L - 1) + K
          BY <1>10
        <5> QED
          BY <5>1, <5>2
      <4>4. queue'[i - 1] = queue[i]
        BY <1>10, <4>3
      <4> QED
        BY <4>1, <4>3, <4>4 DEF Waiting
    <3>2. m \in Seen /\ Distance(m) <= Distance(v) + 1
      BY <1>1, <2>2, <3>1 DEF LeaveNoGap
    <3> QED
      BY <1>9, <2>2, <3>2
  <2> QED
    BY <2>3, <2>4
<1> QED
    BY <1>1, <1>2, <1>11, <1>14, <1>15, <1>16 DEF GraphInv

LEMMA AskRadiusKeeps ==
    ASSUME SnapshotAssumption, GraphInv, AskRadius
    PROVE  GraphInv'
<1>1. PICK g \in Snapshots : \E n \in DOMAIN g.nodes, F \in Filters, max \in Depths :
          /\ Asked("radius", g, n, F, max)
          /\ queue' = <<<<n, 0>>>> /\ depth' = <<>> /\ done' = FALSE
    BY DEF AskRadius
<1>2. PICK n \in DOMAIN g.nodes, F \in Filters, max \in Depths :
          /\ Asked("radius", g, n, F, max)
          /\ queue' = <<<<n, 0>>>> /\ depth' = <<>> /\ done' = FALSE
    BY <1>1
<1>3. (graph.edges \in Seq(Edges(graph)))' /\ limit' \in Nat /\ query' = "radius" /\ start' = n
    BY <1>2 DEF Asked, SnapshotAssumption
<1>4. DOMAIN depth' = {} /\ DOMAIN queue' = {1} /\ queue'[1] = <<n, 0>>
    BY <1>2
<1>5. Seen' = {n}
    BY <1>3, <1>4 DEF Seen
<1>6. HaveWays' /\ VisitedOnce'
    BY <1>4 DEF HaveWays, VisitedOnce
<1>7. InOrder'
  <2>1. <<n, 0>> \in Seen' \X Nat
    BY <1>5
  <2>2. queue' \in Seq(Seen' \X Nat)
    BY <1>2, <2>1
  <2> QED
    BY <1>3, <1>4, <1>5, <2>2 DEF InOrder, Distance
<1>8. n \in Waiting'
    BY <1>4 DEF Waiting
<1>9. LeaveNoGap'
    BY <1>5, <1>8 DEF LeaveNoGap
<1> QED
    BY <1>2, <1>3, <1>6, <1>7, <1>9 DEF GraphInv

LEMMA RadiusEndsKeeps ==
    ASSUME GraphInv, RadiusEnds
    PROVE  GraphInv'
BY DEF GraphInv, RadiusEnds, HaveWays, InOrder, LeaveNoGap, VisitedOnce, Seen, Waiting, Distance

LEMMA AskChainKeeps ==
    ASSUME SnapshotAssumption, GraphInv, AskChain
    PROVE  GraphInv'
<1>1. PICK g \in Snapshots : \E n \in DOMAIN g.nodes :
          Asked("chain", g, n, {}, 0) /\ chain' = <<n>>
    BY DEF AskChain
<1>2. PICK n \in DOMAIN g.nodes : Asked("chain", g, n, {}, 0) /\ chain' = <<n>>
    BY <1>1
<1>3. /\ (graph.edges \in Seq(Edges(graph)))' /\ limit' \in Nat /\ query' = "chain" /\ start' = n
      /\ queue' = <<>>
    BY <1>2 DEF Asked, AskChain, SnapshotAssumption
<1>4. Len(chain') = 1 /\ DOMAIN chain' = {1} /\ chain'[1] = n /\ chain' # <<>>
    BY <1>2
<1>5. chain' \in Seq({start'} \union {e.to : e \in Edges(graph')})
    BY <1>2, <1>3
<1>6. ChainIsSigned'
    BY <1>3, <1>4, <1>5 DEF ChainIsSigned
<1> QED
    BY <1>3, <1>6 DEF GraphInv

LEMMA AnswersKeep ==
    ASSUME SnapshotAssumption, GraphInv, AskNeighbors \/ AskPath
    PROVE  GraphInv'
<1>1. /\ (graph.edges \in Seq(Edges(graph)))' /\ limit' \in Nat /\ queue' = <<>>
      /\ query' \in {"neighbors", "path"}
    BY DEF AskNeighbors, AskPath, Asked, SnapshotAssumption, GraphInv
<1> QED
    BY <1>1 DEF GraphInv

(* The first of the edges of a type is one of them.                         *)
LEMMA FirstLeaves ==
    ASSUME NEW g, NEW n, NEW t, g.edges \in Seq(Edges(g)), Leaving(g, n, t) # {}
    PROVE  /\ FirstOf(g, Leaving(g, n, t)) \in Edges(g)
           /\ FirstOf(g, Leaving(g, n, t)).from = n
           /\ FirstOf(g, Leaving(g, n, t)).type = t
<1> DEFINE I == Leaving(g, n, t)
<1>1. DOMAIN g.edges \subseteq Nat
    OBVIOUS
<1>2. I \in SUBSET Nat
    BY <1>1 DEF Leaving
<1>3. \E i \in I : \A j \in I : i <= j
    BY <1>2, LeastNat
<1> HIDE DEF I
<1>4. (CHOOSE i \in I : \A j \in I : i <= j) \in I
    BY <1>3
<1> QED
    BY <1>4 DEF I, FirstOf, Leaving, Edges

LEMMA FollowKeeps ==
    ASSUME GraphInv, Follow
    PROVE  GraphInv'
<1>1. graph.edges \in Seq(Edges(graph)) /\ limit \in Nat /\ ChainIsSigned /\ query = "chain"
    BY DEF GraphInv, Follow
<1>2. UNCHANGED <<graph, query, start, filter, limit, queue, depth, found>>
    BY DEF Follow
<1>3. CASE UNCHANGED chain
    BY <1>1, <1>2, <1>3 DEF GraphInv, ChainIsSigned
<1>4. CASE ~ UNCHANGED chain
  <2> DEFINE n == Last(chain)
             m == Issuer(n)
             N == {start} \union {e.to : e \in Edges(graph)}
             L == Len(chain)
  <2>1. SignedBy(n) # {} /\ NotYet(m) /\ chain' = Append(chain, m)
    BY <1>4 DEF Follow
  <2>2. PICK e \in Edges(graph) : m = e.to /\ e.from = n /\ e.type = "SIGNED_BY"
    BY <1>1, <2>1, FirstLeaves DEF SignedBy, Issuer
  <2>3. m \in N /\ n \in Into(graph, m, {"SIGNED_BY"})
    BY <2>2 DEF Into, Wanted
  <2>4. chain \in Seq(N) /\ L \in Nat \ {0} /\ DOMAIN chain = 1 .. L /\ n = chain[L] /\ chain[1] = start
    BY <1>1 DEF ChainIsSigned, Last
  <2> HIDE DEF m, n, N
  <2>5. /\ chain' \in Seq(N) /\ Len(chain') = L + 1 /\ DOMAIN chain' = 1 .. L + 1
        /\ \A i \in 1 .. L : chain'[i] = chain[i]
        /\ chain'[L + 1] = m
    BY <2>1, <2>3, <2>4
  <2> HIDE DEF L
  <2>6. ASSUME NEW i \in 1 .. L PROVE chain'[i] \in Into(graph, chain'[i + 1], {"SIGNED_BY"})
    <3>1. CASE i = L
      BY <2>3, <2>4, <2>5, <3>1
    <3>2. CASE i \in 1 .. L - 1
      <4>1. chain[i] \in Into(graph, chain[i + 1], {"SIGNED_BY"})
        BY <1>1, <3>2 DEF ChainIsSigned, L
      <4>2. i + 1 \in 1 .. L
        BY <2>4, <3>2
      <4> QED
        BY <2>5, <4>1, <4>2
    <3> QED
      BY <2>4, <3>1, <3>2
  <2>7. ASSUME NEW i \in 1 .. L + 1, NEW j \in 1 .. L + 1, chain'[i] = chain'[j] PROVE i = j
    <3>1. \A k \in 1 .. L : chain[k] # m
      BY <2>1, <2>4 DEF NotYet
    <3>2. \A k, l \in 1 .. L : chain[k] = chain[l] => k = l
      BY <1>1, <2>4 DEF ChainIsSigned
    <3> QED
      BY <2>4, <2>5, <2>7, <3>1, <3>2
  <2>8. chain' # <<>> /\ chain'[1] = start'
    BY <1>2, <2>4, <2>5
  <2>9. ChainIsSigned'
    BY <1>2, <2>4, <2>5, <2>6, <2>7, <2>8 DEF ChainIsSigned, N
  <2> QED
    BY <1>1, <1>2, <2>9 DEF GraphInv
<1> QED
    BY <1>3, <1>4

LEMMA InitIsGood == GraphInit => GraphInv
BY DEF GraphInit, GraphInv

(* graph-service: its loops keep GraphInv, on every snapshot.               *)
THEOREM GraphInductive == ASSUME SnapshotAssumption PROVE GraphSpec => []GraphInv
<1>1. GraphInv /\ UNCHANGED graphVars => GraphInv'
    BY DEF graphVars, GraphInv, HaveWays, InOrder, LeaveNoGap, VisitedOnce, Seen, Waiting, Distance,
           ChainIsSigned
<1>2. GraphInv /\ [GraphNext]_graphVars => GraphInv'
    BY <1>1, VisitKeeps, AskRadiusKeeps, RadiusEndsKeeps, AskChainKeeps, AnswersKeep, FollowKeeps
       DEF GraphNext, Walk
<1> QED
    BY InitIsGood, <1>2, PTL DEF GraphSpec

-----------------------------------------------------------------------------
(* The answers *)

(* A sequence of numbers up to N that repeats none has at most N.           *)
LEMMA Counting ==
    ASSUME NEW k \in Nat, NEW N \in Nat, NEW f \in [1 .. k -> 1 .. N],
           \A i, j \in 1 .. k : f[i] = f[j] => i = j
    PROVE  k <= N
<1>1. f \in Injection(1 .. k, 1 .. N)
    BY DEF Injection, IsInjective
<1>2. /\ IsFiniteSet(1 .. N) /\ Cardinality(1 .. N) = N
      /\ Cardinality(1 .. k) = k
    BY FS_Interval
<1> QED
    BY <1>1, <1>2, FS_Injection

(* Whatever is affected at a distance has an edge for each step of it.      *)
LEMMA DistancesAreShort ==
    ASSUME GraphInv, query = "radius"
    PROVE  \A m \in DOMAIN depth : depth[m] <= Len(graph.edges)
<1>1. HaveWays /\ graph.edges \in Seq(Edges(graph))
    BY DEF GraphInv
<1>2. PICK N \in Nat : N = Len(graph.edges) /\ DOMAIN graph.edges = 1 .. N
    BY <1>1
<1> SUFFICES ASSUME NEW m \in DOMAIN depth PROVE depth[m] <= N
    BY <1>2
<1>3. PICK k \in Nat \ {0} : k = depth[m]
    BY <1>1 DEF HaveWays
<1> DEFINE Has == {i \in Nat : i < k => \E v \in DOMAIN depth : depth[v] = k - i}
<1>4. Nat \subseteq Has
  <2>1. 0 \in Has
    BY <1>3
  <2>2. ASSUME NEW i \in Nat, i \in Has PROVE i + 1 \in Has
    <3> SUFFICES ASSUME i + 1 < k PROVE \E u \in DOMAIN depth : depth[u] = k - (i + 1)
      OBVIOUS
    <3>1. PICK v \in DOMAIN depth : depth[v] = k - i
      BY <1>3, <2>2
    <3>2. PICK u \in Seen : depth[v] = Distance(u) + 1
      BY <1>1, <3>1 DEF HaveWays
    <3>3. CASE u = start
      BY <1>3, <3>1, <3>2, <3>3 DEF Distance
    <3>4. CASE u # start
      <4>1. u \in DOMAIN depth /\ Distance(u) = depth[u] /\ depth[u] \in Nat
        BY <1>1, <3>4 DEF Seen, Distance, HaveWays
      <4>2. depth[u] + 1 = k - i
        BY <3>1, <3>2, <4>1
      <4>3. depth[u] = k - (i + 1)
        BY <1>3, <4>1, <4>2
      <4> QED
        BY <4>1, <4>3
    <3> QED
      BY <3>3, <3>4
  <2> QED
    BY <2>1, <2>2, SetInduction
<1>5. \A v \in DOMAIN depth : \E i \in 1 .. N : graph.edges[i].from = v
  <2>1. \A v \in DOMAIN depth : \E w : v \in Into(graph, w, filter)
    BY <1>1 DEF HaveWays
  <2> QED
    BY <1>2, <2>1 DEF Into, Edges
<1>6. ASSUME NEW j \in 1 .. k PROVE \E i \in 1 .. N : depth[graph.edges[i].from] = j
  <2>1. k - j \in Nat /\ k - j < k /\ k - (k - j) = j
    BY <1>3
  <2>2. k - j \in Has
    BY <1>4, <2>1
  <2>3. PICK v \in DOMAIN depth : depth[v] = j
    BY <2>1, <2>2
  <2> QED
    BY <1>5, <2>3
<1> DEFINE f == [j \in 1 .. k |-> CHOOSE i \in 1 .. N : depth[graph.edges[i].from] = j]
<1>7. \A j \in 1 .. k : f[j] \in 1 .. N /\ depth[graph.edges[f[j]].from] = j
    BY <1>6
<1>8. f \in [1 .. k -> 1 .. N]
    BY <1>7
<1> HIDE DEF f
<1>9. \A i, j \in 1 .. k : f[i] = f[j] => i = j
    BY <1>7
<1>10. k <= N
    BY <1>8, <1>9, Counting
<1> QED
    BY <1>3, <1>10

(* The way of each step is one of the reference.                            *)
LEMMA AffectedAreReached ==
    ASSUME GraphInv, query = "radius"
    PROVE  \A m \in DOMAIN depth : m \in Reached(graph, start, filter)[depth[m]]
<1>1. HaveWays /\ graph.edges \in Seq(Edges(graph))
    BY DEF GraphInv
<1>2. PICK N \in Nat : N = Len(graph.edges)
    BY <1>1
<1>3. PICK level : level = Reached(graph, start, filter)
    OBVIOUS
<1>4. /\ level[0] = {start}
      /\ \A k \in 1 .. N :
            level[k] = level[k - 1] \union UNION {Into(graph, m, filter) : m \in level[k - 1]}
    BY <1>2, <1>3, ReachedIs
<1> DEFINE There == {k \in Nat : k <= N => \A m \in Seen : Distance(m) = k => m \in level[k]}
<1>5. 0 \in There
  <2>1. \A m \in Seen : Distance(m) = 0 => m = start
    BY <1>1 DEF HaveWays, Seen, Distance
  <2> QED
    BY <1>4, <2>1
<1>6. ASSUME NEW k \in Nat, k \in There PROVE k + 1 \in There
  <2> SUFFICES ASSUME k + 1 <= N, NEW m \in Seen, Distance(m) = k + 1 PROVE m \in level[k + 1]
    OBVIOUS
  <2>1. m \in DOMAIN depth /\ depth[m] = k + 1
    BY DEF Seen, Distance
  <2>2. PICK v \in Seen : m \in Into(graph, v, filter) /\ depth[m] = Distance(v) + 1
    BY <1>1, <2>1 DEF HaveWays
  <2>3. Distance(v) \in Nat
    BY <1>1 DEF HaveWays, Seen, Distance
  <2>4. Distance(v) = k
    BY <2>1, <2>2, <2>3
  <2>5. v \in level[k]
    BY <1>6, <2>4
  <2>6. k + 1 \in 1 .. N /\ (k + 1) - 1 = k
    BY <1>2
  <2> QED
    BY <1>4, <2>2, <2>5, <2>6
<1>7. Nat \subseteq There
    BY <1>5, <1>6, SetInduction
<1> HIDE DEF There
<1> SUFFICES ASSUME NEW m \in DOMAIN depth PROVE m \in level[depth[m]]
    BY <1>3
<1>8. depth[m] \in Nat /\ depth[m] <= N /\ m \in Seen /\ Distance(m) = depth[m]
    BY <1>1, <1>2, DistancesAreShort DEF HaveWays, Seen, Distance
<1> QED
    BY <1>7, <1>8 DEF There

(* And when the queue is empty, nothing within the limit was left out.      *)
LEMMA ReachedAreAffected ==
    ASSUME GraphInv, query = "radius", done,
           NEW all \in 0 .. Len(graph.edges), limit > 0 => all <= limit
    PROVE  \A k \in 0 .. all : \A m \in Reached(graph, start, filter)[k] :
              m \in Seen /\ Distance(m) \in Nat /\ Distance(m) <= k
<1>1. HaveWays /\ LeaveNoGap /\ queue = <<>> /\ limit \in Nat
      /\ graph.edges \in Seq(Edges(graph))
    BY DEF GraphInv
<1>2. PICK N \in Nat : N = Len(graph.edges)
    BY <1>1
<1>3. PICK level : level = Reached(graph, start, filter)
    OBVIOUS
<1>4. /\ level[0] = {start}
      /\ \A k \in 1 .. N :
            level[k] = level[k - 1] \union UNION {Into(graph, m, filter) : m \in level[k - 1]}
    BY <1>2, <1>3, ReachedIs
<1>5. \A m \in Seen : Distance(m) \in Nat
    BY <1>1 DEF HaveWays, Seen, Distance
<1>6. \A v \in Seen : limit = 0 \/ Distance(v) < limit =>
          \A m \in Into(graph, v, filter) : m \in Seen /\ Distance(m) <= Distance(v) + 1
  <2>1. DOMAIN queue = {}
    BY <1>1
  <2>2. Waiting = {}
    BY <2>1 DEF Waiting
  <2> QED
    BY <1>1, <2>2 DEF LeaveNoGap
<1> DEFINE In == {k \in Nat : k <= all => \A m \in level[k] : m \in Seen /\ Distance(m) <= k}
<1>7. 0 \in In
    BY <1>4 DEF Seen, Distance
<1>8. ASSUME NEW k \in Nat, k \in In PROVE k + 1 \in In
  <2> SUFFICES ASSUME k + 1 <= all, NEW m \in level[k + 1]
               PROVE  m \in Seen /\ Distance(m) <= k + 1
    OBVIOUS
  <2>0. all \in Nat /\ all <= N
    BY <1>2
  <2>1. k + 1 \in 1 .. N /\ (k + 1) - 1 = k /\ k <= all
    BY <1>2, <2>0
  <2>2. \A v \in level[k] : v \in Seen /\ Distance(v) <= k
    BY <1>8, <2>1
  <2>3. m \in level[k] \/ \E v \in level[k] : m \in Into(graph, v, filter)
    BY <1>4, <2>1
  <2>4. CASE m \in level[k]
    BY <1>5, <2>2, <2>4
  <2>5. ASSUME NEW v \in level[k], m \in Into(graph, v, filter)
        PROVE  m \in Seen /\ Distance(m) <= k + 1
    <3>1. v \in Seen /\ Distance(v) \in Nat /\ Distance(v) <= k
      BY <1>5, <2>2
    <3>2. limit = 0 \/ Distance(v) < limit
      BY <1>1, <2>0, <3>1
    <3>3. m \in Seen /\ Distance(m) <= Distance(v) + 1
      BY <1>6, <2>5, <3>1, <3>2
    <3> QED
      BY <1>5, <3>1, <3>3
  <2> QED
    BY <2>3, <2>4, <2>5
<1>9. Nat \subseteq In
    BY <1>7, <1>8, SetInduction
<1> HIDE DEF In
<1> SUFFICES ASSUME NEW k \in 0 .. all, NEW m \in level[k]
             PROVE  m \in Seen /\ Distance(m) \in Nat /\ Distance(m) <= k
    BY <1>3
<1>10. k \in Nat /\ k <= all
    OBVIOUS
<1> QED
    BY <1>5, <1>9, <1>10 DEF In

(* Both directions, and that no way need be longer than the edges are many. *)
LEMMA AnswerIsExact ==
    ASSUME GraphInv
    PROVE  RadiusIsExact
<1> SUFFICES ASSUME query = "radius", done PROVE RadiusIsExact
    BY DEF RadiusIsExact
<1>1. HaveWays /\ limit \in Nat /\ graph.edges \in Seq(Edges(graph))
    BY DEF GraphInv
<1>2. PICK N \in Nat : N = Len(graph.edges)
    BY <1>1
<1>3. PICK level : level = Reached(graph, start, filter)
    OBVIOUS
<1>4. PICK all \in 0 .. N :
          /\ all = IF limit > 0 /\ limit < N THEN limit ELSE N
          /\ limit > 0 => all <= limit
    BY <1>1, <1>2
<1>5. \A k \in 0 .. all : \A m \in level[k] : m \in Seen /\ Distance(m) \in Nat /\ Distance(m) <= k
  <2>1. all \in 0 .. Len(graph.edges) /\ (limit > 0 => all <= limit)
    BY <1>2, <1>4
  <2>2. \A k \in 0 .. all : \A m \in Reached(graph, start, filter)[k] :
            m \in Seen /\ Distance(m) \in Nat /\ Distance(m) <= k
    BY <2>1, ReachedAreAffected
  <2> QED
    BY <1>3, <2>2
<1>6. \A m \in DOMAIN depth : /\ depth[m] \in 1 .. all /\ m # start /\ m \in Seen
                              /\ Distance(m) = depth[m] /\ m \in level[depth[m]]
  <2> TAKE m \in DOMAIN depth
  <2>1. depth[m] \in Nat \ {0} /\ m # start /\ (limit > 0 => depth[m] <= limit)
    BY <1>1 DEF HaveWays
  <2>2. depth[m] <= N
    BY <1>2, DistancesAreShort
  <2>3. m \in level[depth[m]]
    BY <1>3, AffectedAreReached
  <2>4. depth[m] <= all
    BY <1>1, <1>4, <2>1, <2>2
  <2>5. m \in Seen /\ Distance(m) = depth[m]
    BY <2>1 DEF Seen, Distance
  <2> QED
    BY <2>1, <2>3, <2>4, <2>5
<1>7. \A j \in 0 .. all : level[j] \subseteq level[all]
    BY <1>2, <1>3, <1>4, LevelsGrow
<1>8. DOMAIN depth = level[all] \ {start}
  <2>1. ASSUME NEW m \in DOMAIN depth PROVE m \in level[all] \ {start}
    BY <1>4, <1>6, <1>7
  <2>2. ASSUME NEW m \in level[all] \ {start} PROVE m \in DOMAIN depth
    BY <1>4, <1>5 DEF Seen
  <2> QED
    BY <2>1, <2>2
<1>9. ASSUME NEW m \in DOMAIN depth PROVE m \in level[depth[m]] /\ m \notin level[depth[m] - 1]
  <2>1. depth[m] - 1 \in 0 .. all /\ ~ (depth[m] <= depth[m] - 1)
    BY <1>4, <1>6
  <2> QED
    BY <1>5, <1>6, <2>1
<1>10. all = IF limit > 0 /\ limit < Len(graph.edges) THEN limit ELSE Len(graph.edges)
    BY <1>2, <1>4
<1>11. /\ DOMAIN depth = Reached(graph, start, filter)[all] \ {start}
       /\ \A m \in DOMAIN depth : /\ m \in Reached(graph, start, filter)[depth[m]]
                                  /\ m \notin Reached(graph, start, filter)[depth[m] - 1]
    BY <1>3, <1>8, <1>9
<1> QED
    BY <1>10, <1>11, Zenon DEF RadiusIsExact

(* From the last of the chain back to its start, against SIGNED_BY.         *)
LEMMA ChainIsEndangered ==
    ASSUME GraphInv
    PROVE  RootEndangersChain
<1> SUFFICES ASSUME query = "chain" PROVE RootEndangersChain
    BY DEF RootEndangersChain
<1>1. ChainIsSigned /\ graph.edges \in Seq(Edges(graph))
    BY DEF GraphInv
<1>2. PICK N \in Nat : N = Len(graph.edges) /\ DOMAIN graph.edges = 1 .. N
    BY <1>1
<1>3. PICK L \in Nat \ {0} : L = Len(chain) /\ DOMAIN chain = 1 .. L
    BY <1>1 DEF ChainIsSigned
<1>4. PICK level : level = Reached(graph, chain[L], {"SIGNED_BY"})
    OBVIOUS
<1>5. /\ level[0] = {chain[L]}
      /\ \A k \in 1 .. N : level[k] = level[k - 1]
            \union UNION {Into(graph, m, {"SIGNED_BY"}) : m \in level[k - 1]}
    BY <1>2, <1>4, ReachedIs
<1>6. /\ \A i \in 1 .. L - 1 : chain[i] \in Into(graph, chain[i + 1], {"SIGNED_BY"})
      /\ \A i, j \in 1 .. L : chain[i] = chain[j] => i = j
      /\ chain[1] = start
    BY <1>1, <1>3 DEF ChainIsSigned
<1>7. L - 1 <= N
  <2>1. \A i \in 1 .. L - 1 : \E j \in 1 .. N : graph.edges[j].from = chain[i]
    BY <1>2, <1>6 DEF Into, Edges
  <2> DEFINE f == [i \in 1 .. L - 1 |-> CHOOSE j \in 1 .. N : graph.edges[j].from = chain[i]]
  <2>2. \A i \in 1 .. L - 1 : f[i] \in 1 .. N /\ graph.edges[f[i]].from = chain[i]
    BY <2>1
  <2>3. f \in [1 .. L - 1 -> 1 .. N]
    BY <2>2
  <2> HIDE DEF f
  <2>4. \A i, j \in 1 .. L - 1 : f[i] = f[j] => i = j
    BY SMTT(30), <1>3, <1>6, <2>2
  <2>5. L - 1 \in Nat
    BY <1>3
  <2> QED
    BY <2>3, <2>4, <2>5, Counting
<1> DEFINE In == {k \in Nat : k <= L - 1 => chain[L - k] \in level[k]}
<1>8. 0 \in In
    BY <1>3, <1>5
<1>9. ASSUME NEW k \in Nat, k \in In PROVE k + 1 \in In
  <2> SUFFICES ASSUME k + 1 <= L - 1 PROVE chain[L - (k + 1)] \in level[k + 1]
    OBVIOUS
  <2>1. L - (k + 1) \in 1 .. L - 1 /\ (L - (k + 1)) + 1 = L - k
    BY <1>3
  <2>2. chain[L - (k + 1)] \in Into(graph, chain[L - k], {"SIGNED_BY"})
    BY <1>6, <2>1
  <2>3. chain[L - k] \in level[k]
    BY <1>3, <1>9
  <2>4. k + 1 \in 1 .. N /\ (k + 1) - 1 = k
    BY <1>2, <1>3, <1>7
  <2> QED
    BY <1>5, <2>2, <2>3, <2>4
<1>10. L - 1 \in In
  <2>1. Nat \subseteq In
    BY <1>8, <1>9, SetInduction
  <2> QED
    BY <1>3, <2>1
<1>11. start \in level[L - 1]
    BY <1>3, <1>6, <1>10
<1>12. level[L - 1] \subseteq level[N]
    BY <1>2, <1>3, <1>4, <1>7, LevelsGrow
<1>13. Last(chain) = chain[L]
    BY <1>3 DEF Last
<1> QED
    BY <1>2, <1>3, <1>4, <1>6, <1>11, <1>12, <1>13 DEF RootEndangersChain

LEMMA OnceInTheQueue == ASSUME GraphInv PROVE VisitedOnce
BY DEF GraphInv, VisitedOnce

(* blast_radius, trust_chain: what they answer, on every snapshot and for   *)
(* every node, filter and limit that are asked for.                         *)
THEOREM AnswersAreExact ==
    ASSUME SnapshotAssumption
    PROVE  GraphSpec => []GraphAnswersAreExact
<1>1. GraphInv => GraphAnswersAreExact
    BY AnswerIsExact, ChainIsEndangered, OnceInTheQueue DEF GraphAnswersAreExact
<1> QED
    BY <1>1, GraphInductive, PTL

-----------------------------------------------------------------------------
(* The snapshots of the projection *)

(* The type of a node follows from its id.                                  *)
Kind(id) == IF id[1] = "asset" THEN "Asset"
            ELSE IF id[1] = "package" THEN "Package"
            ELSE IF id[1] = "config" THEN "ConfigFile"
            ELSE IF id[1] = "finding" THEN "CryptoFinding"
            ELSE IF id[1] = "service" THEN "Service"
            ELSE "Certificate"

(* Every node of f has the type of its id.                                  *)
Kinded(f) == \A id \in DOMAIN f : f[id].type = Kind(id)

(* Nodes of one kind, and a dictionary that is written over another.        *)
LEMMA NodesAreKinded ==
    ASSUME NEW ids, NEW kind, \A id \in ids : Kind(id) = kind
    PROVE  DOMAIN Nodes(ids, kind) = ids /\ Kinded(Nodes(ids, kind))
BY DEF Nodes, Kinded, Node

LEMMA LaterIsKinded ==
    ASSUME NEW f, NEW g, Kinded(f), Kinded(g)
    PROVE  DOMAIN Later(f, g) = DOMAIN f \union DOMAIN g /\ Kinded(Later(f, g))
BY DEF Later, Kinded

(* The ids of what a host has.                                              *)
Packages(h)    == {<<"package", AssetId(h.asset), p>> : p \in h.packages}
Configs(h)     == {<<"config", AssetId(h.asset), c>> : c \in h.configs}
KeyFindings(h) == {<<"finding", AssetId(h.asset), "private_key">> : k \in 1 .. h.keys}

(* project_host: its nodes are the asset and what the asset has.            *)
LEMMA HostNodesAre ==
    ASSUME NEW h
    PROVE  /\ DOMAIN HostNodes(h) = {AssetId(h.asset)} \union Packages(h) \union Configs(h) \union KeyFindings(h)
           /\ Kinded(HostNodes(h))
<1> DEFINE a == AssetId(h.asset)
           N1 == Nodes({a}, "Asset")
           N2 == Nodes(Packages(h), "Package")
           N3 == Nodes(Configs(h), "ConfigFile")
           N4 == Nodes(KeyFindings(h), "CryptoFinding")
<1>1. DOMAIN N1 = {a} /\ Kinded(N1)
  <2>1. \A id \in {a} : Kind(id) = "Asset"
    BY DEF Kind, AssetId
  <2> QED
    BY <2>1, NodesAreKinded
<1>2. DOMAIN N2 = Packages(h) /\ Kinded(N2)
  <2>1. \A id \in Packages(h) : Kind(id) = "Package"
    BY DEF Kind, Packages
  <2> QED
    BY <2>1, NodesAreKinded
<1>3. DOMAIN N3 = Configs(h) /\ Kinded(N3)
  <2>1. \A id \in Configs(h) : Kind(id) = "ConfigFile"
    BY DEF Kind, Configs
  <2> QED
    BY <2>1, NodesAreKinded
<1>4. DOMAIN N4 = KeyFindings(h) /\ Kinded(N4)
  <2>1. \A id \in KeyFindings(h) : Kind(id) = "CryptoFinding"
    BY DEF Kind, KeyFindings
  <2> QED
    BY <2>1, NodesAreKinded
<1>5. HostNodes(h) = Later(Later(N1, N2), Later(N3, N4))
    BY DEF HostNodes, Packages, Configs, KeyFindings
<1> HIDE DEF N1, N2, N3, N4
<1>6. DOMAIN Later(N1, N2) = {a} \union Packages(h) /\ Kinded(Later(N1, N2))
    BY <1>1, <1>2, LaterIsKinded
<1>7. DOMAIN Later(N3, N4) = Configs(h) \union KeyFindings(h) /\ Kinded(Later(N3, N4))
    BY <1>3, <1>4, LaterIsKinded
<1>8. /\ DOMAIN HostNodes(h) = DOMAIN Later(N1, N2) \union DOMAIN Later(N3, N4)
      /\ Kinded(HostNodes(h))
  <2> DEFINE L1 == Later(N1, N2)
             L2 == Later(N3, N4)
  <2>1. Kinded(L1) /\ Kinded(L2) /\ HostNodes(h) = Later(L1, L2)
    BY <1>5, <1>6, <1>7
  <2> HIDE DEF L1, L2
  <2>2. DOMAIN HostNodes(h) = DOMAIN L1 \union DOMAIN L2 /\ Kinded(HostNodes(h))
    BY <2>1, LaterIsKinded
  <2> QED
    BY <2>2 DEF L1, L2
<1> HIDE DEF a
<1> QED
    BY <1>6, <1>7, <1>8 DEF a

(* The ids that a TLS service brings: its asset, if the evidence names it,  *)
(* and a finding for each weakness of its certificate.                      *)
Assets(n)   == IF n.asset = None THEN {} ELSE {AssetId(n.asset)}
Findings(n) == {FindingId(n, k) : k \in FindingsOf(n.leaf)}

(* The ids tell their kinds apart.                                          *)
LEMMA TagsDiffer ==
    ASSUME NEW n
    PROVE  /\ Kind(ServiceId(n)) = "Service" /\ Kind(LeafId(n)) = "Certificate"
           /\ Kind(AssetId(n.asset)) = "Asset"
           /\ \A k : Kind(FindingId(n, k)) = "CryptoFinding"
           /\ \A c : Kind(CertId(c)) = "Certificate"
<1>1. ServiceId(n)[1] = "service" /\ LeafId(n)[1] \in {"certificate", "hash"} /\ AssetId(n.asset)[1] = "asset"
    BY DEF ServiceId, LeafId, AssetId
<1>2. \A k : FindingId(n, k)[1] = "finding"
    BY DEF FindingId
<1>3. \A c : CertId(c)[1] = "certificate"
    BY DEF CertId
<1> QED
    BY <1>1, <1>2, <1>3 DEF Kind

(* project_network: whatever replaces what, a node has the type of its id.  *)
LEMMA NetworkNodesAre ==
    ASSUME NEW n
    PROVE  /\ DOMAIN NetworkNodes(n) = Assets(n) \union {ServiceId(n), LeafId(n)} \union Findings(n)
                                       \union ChainIds(n)
           /\ Kinded(NetworkNodes(n))
<1> DEFINE service == [id \in {ServiceId(n), LeafId(n)} \union Findings(n) |->
                          IF id = LeafId(n) THEN Node("Certificate", n.leaf.cert, n.leaf)
                          ELSE IF id = ServiceId(n) THEN Node("Service", id, NoKey)
                          ELSE Node("CryptoFinding", id[3], n.leaf)]
           above   == [id \in ChainIds(n) |-> Node("Certificate", id[2], NoKey)]
           asset   == IF n.asset = None THEN <<>> ELSE Nodes({AssetId(n.asset)}, "Asset")
<1>1. NetworkNodes(n) = Later(asset, Later(service, above))
    BY DEF NetworkNodes, Findings
<1>2. DOMAIN asset = Assets(n) /\ Kinded(asset)
  <2>1. CASE n.asset = None
    BY <2>1 DEF Assets, Kinded
  <2>2. CASE n.asset # None
    <3>1. \A id \in {AssetId(n.asset)} : Kind(id) = "Asset"
      BY TagsDiffer
    <3> QED
      BY <2>2, <3>1, NodesAreKinded DEF Assets
  <2> QED
    BY <2>1, <2>2
<1>3. DOMAIN above = ChainIds(n) /\ Kinded(above)
  <2>1. \A id \in ChainIds(n) : Kind(id) = "Certificate"
    BY TagsDiffer DEF ChainIds
  <2> QED
    BY <2>1 DEF Kinded, Node
<1>4. DOMAIN service = {ServiceId(n), LeafId(n)} \union Findings(n) /\ Kinded(service)
  <2>1. \A id \in Findings(n) : Kind(id) = "CryptoFinding"
    BY TagsDiffer DEF Findings
  <2>2. DOMAIN service = {ServiceId(n), LeafId(n)} \union Findings(n)
    OBVIOUS
  <2>3. ASSUME NEW id \in {ServiceId(n), LeafId(n)} \union Findings(n)
        PROVE  service[id].type = Kind(id)
    <3>1. CASE id = LeafId(n)
      BY <3>1, TagsDiffer DEF Node
    <3>2. CASE id # LeafId(n) /\ id = ServiceId(n)
      BY <3>2, TagsDiffer DEF Node
    <3>3. CASE id # LeafId(n) /\ id # ServiceId(n)
      BY <2>1, <3>3 DEF Node
    <3> QED
      BY <3>1, <3>2, <3>3
  <2> HIDE DEF service
  <2> QED
    BY <2>2, <2>3 DEF Kinded
<1> HIDE DEF service, above, asset
<1>5. /\ DOMAIN Later(service, above) = ({ServiceId(n), LeafId(n)} \union Findings(n)) \union ChainIds(n)
      /\ Kinded(Later(service, above))
    BY <1>3, <1>4, LaterIsKinded
<1>6. /\ DOMAIN NetworkNodes(n) = DOMAIN asset \union DOMAIN Later(service, above)
      /\ Kinded(NetworkNodes(n))
    BY <1>1, <1>2, <1>5, LaterIsKinded
<1> QED
    BY <1>2, <1>5, <1>6

(* The nodes of a snapshot, each of the type of its id.                     *)
LEMMA NodesAre ==
    ASSUME NEW h, NEW n
    PROVE  /\ DOMAIN Project(h, n).nodes = DOMAIN HostNodes(h) \union DOMAIN NetworkNodes(n)
           /\ Kinded(Project(h, n).nodes)
<1>1. Project(h, n).nodes = Later(HostNodes(h), NetworkNodes(n))
    BY DEF Project
<1> QED
    BY <1>1, HostNodesAre, NetworkNodesAre, LaterIsKinded

-----------------------------------------------------------------------------
(* A sequence, of whatever it has.                                          *)
IsSeq(s) == s \in Seq(Range(s))

(* One list behind another, the list of a finite set, and short ones.       *)
LEMMA Joined ==
    ASSUME NEW s, NEW t, IsSeq(s), IsSeq(t)
    PROVE  IsSeq(s \o t) /\ Range(s \o t) = Range(s) \union Range(t)
<1> DEFINE A == Range(s) \union Range(t)
<1>1. s \in Seq(A) /\ t \in Seq(A)
    BY SeqMonotonic DEF IsSeq
<1> HIDE DEF A
<1>2. PICK m \in Nat, k \in Nat : m = Len(s) /\ k = Len(t) /\ DOMAIN s = 1 .. m /\ DOMAIN t = 1 .. k
    BY <1>1
<1>3. /\ s \o t \in Seq(A) /\ DOMAIN (s \o t) = 1 .. m + k
      /\ \A i \in 1 .. m : (s \o t)[i] = s[i]
      /\ \A i \in 1 .. k : (s \o t)[m + i] = t[i]
    BY <1>1, <1>2
<1> DEFINE u == s \o t
<1> HIDE DEF u
<1>4. \A x \in Range(s) : x \in Range(u)
  <2> TAKE x \in Range(s)
  <2>1. PICK i \in 1 .. m : x = s[i]
    BY <1>2 DEF Range
  <2>2. i \in DOMAIN u /\ u[i] = x
    BY <1>3, <2>1 DEF u
  <2> QED
    BY <2>2 DEF Range
<1>5. \A x \in Range(t) : x \in Range(u)
  <2> TAKE x \in Range(t)
  <2>1. PICK i \in 1 .. k : x = t[i]
    BY <1>2 DEF Range
  <2>2. m + i \in DOMAIN u /\ u[m + i] = x
    BY <1>3, <2>1 DEF u
  <2> QED
    BY <2>2 DEF Range
<1>6. Range(u) \subseteq A
    BY <1>3 DEF Range, u
<1>7. u \in Seq(Range(u))
  <2>1. u \in Seq(A)
    BY <1>3 DEF u
  <2>2. \A i \in DOMAIN u : u[i] \in Range(u)
    BY DEF Range
  <2> QED
    BY <2>1, <2>2
<1> QED
    BY <1>4, <1>5, <1>6, <1>7 DEF IsSeq, A, u

LEMMA ListOf ==
    ASSUME NEW S, IsFiniteSet(S)
    PROVE  IsSeq(SetToSeq(S)) /\ Range(SetToSeq(S)) = S
<1>1. SetToSeq(S) \in Seq(S) /\ S = {SetToSeq(S)[i] : i \in DOMAIN SetToSeq(S)}
    BY SetToSeqIs
<1>2. Range(SetToSeq(S)) = S
    BY <1>1 DEF Range
<1> QED
    BY <1>1, <1>2 DEF IsSeq

LEMMA OneIsListed == ASSUME NEW e PROVE IsSeq(<<e>>) /\ Range(<<e>>) = {e} /\ IsSeq(<<>>) /\ Range(<<>>) = {}
BY DEF IsSeq, Range

(* The edges of a host, each from its asset.                                *)
HostLinks(h) == {Edge(AssetId(h.asset), "HAS_PACKAGE", id) : id \in Packages(h)}
                \union {Edge(AssetId(h.asset), "HAS_CONFIG", id) : id \in Configs(h)}
                \union {Edge(AssetId(h.asset), "HAS_FINDING", id) : id \in KeyFindings(h)}

(* project_host: they are all there and no other.                           *)
LEMMA HostEdgesAre ==
    ASSUME ProjectionAssumption, NEW h \in Hosts
    PROVE  IsSeq(HostEdges(h)) /\ Range(HostEdges(h)) = HostLinks(h)
<1> DEFINE a == AssetId(h.asset)
           E1 == {Edge(a, "HAS_PACKAGE", <<"package", a, p>>) : p \in h.packages}
           E2 == {Edge(a, "HAS_CONFIG", <<"config", a, c>>) : c \in h.configs}
           E3 == {Edge(a, "HAS_FINDING", <<"finding", a, "private_key">>) : k \in 1 .. h.keys}
<1>1. E1 = {Edge(a, "HAS_PACKAGE", id) : id \in Packages(h)}
    BY DEF Packages
<1>2. E2 = {Edge(a, "HAS_CONFIG", id) : id \in Configs(h)}
    BY DEF Configs
<1>3. E3 = {Edge(a, "HAS_FINDING", id) : id \in KeyFindings(h)}
    BY DEF KeyFindings
<1>4. IsFiniteSet(E1)
  <2> DEFINE f == [p \in h.packages |-> Edge(a, "HAS_PACKAGE", <<"package", a, p>>)]
  <2>1. f \in Surjection(h.packages, E1)
    BY DEF Surjection
  <2>2. IsFiniteSet(h.packages)
    BY DEF ProjectionAssumption
  <2> QED
    BY <2>1, <2>2, FS_Surjection
<1>5. IsFiniteSet(E2)
  <2> DEFINE f == [c \in h.configs |-> Edge(a, "HAS_CONFIG", <<"config", a, c>>)]
  <2>1. f \in Surjection(h.configs, E2)
    BY DEF Surjection
  <2>2. IsFiniteSet(h.configs)
    BY DEF ProjectionAssumption
  <2> QED
    BY <2>1, <2>2, FS_Surjection
<1>6. IsFiniteSet(E3)
  <2>1. E3 \in SUBSET {Edge(a, "HAS_FINDING", <<"finding", a, "private_key">>)}
    OBVIOUS
  <2>2. IsFiniteSet({Edge(a, "HAS_FINDING", <<"finding", a, "private_key">>)})
    BY FS_Singleton
  <2> QED
    BY <2>1, <2>2, FS_Subset
<1> DEFINE s1 == SetToSeq(E1)
           s2 == SetToSeq(E2)
           s3 == SetToSeq(E3)
<1>7. IsSeq(s1) /\ Range(s1) = E1 /\ IsSeq(s2) /\ Range(s2) = E2 /\ IsSeq(s3) /\ Range(s3) = E3
    BY <1>4, <1>5, <1>6, ListOf
<1>8. HostEdges(h) = s1 \o s2 \o s3
    BY DEF HostEdges
<1> HIDE DEF s1, s2, s3, E1, E2, E3
<1>9. IsSeq(s1 \o s2) /\ Range(s1 \o s2) = E1 \union E2
    BY <1>7, Joined
<1>10. IsSeq(HostEdges(h)) /\ Range(HostEdges(h)) = (E1 \union E2) \union E3
    BY <1>7, <1>8, <1>9, Joined
<1> HIDE DEF a
<1> QED
    BY <1>1, <1>2, <1>3, <1>10 DEF HostLinks, a

(* What the climb has so far, of a chain of whose certificates those in V   *)
(* are the leaf and those it has seen: edges within V, along which one comes*)
(* from the leaf to every one and back, and never from one to two.          *)
Climbed(leaf, s, V) ==
    /\ IsSeq(s.edges) /\ leaf \in V /\ s.at \in V
    /\ \A e \in Range(s.edges) : e.type = "SIGNED_BY" /\ e.from \in V /\ e.to \in V /\ e.from # s.at
    /\ \A e, f \in Range(s.edges) : e.from = f.from => e.to = f.to
    /\ \A C : leaf \in C /\ (\A e \in Range(s.edges) : e.from \in C => e.to \in C) => V \subseteq C
    /\ \A C : V \intersect C # {} /\ (\A e \in Range(s.edges) : e.to \in C => e.from \in C) => leaf \in C

(* A new edge is one more.                                                  *)
LEMMA AddedEdge ==
    ASSUME NEW s, NEW e, IsSeq(s), e \notin Range(s)
    PROVE  IsSeq(AddEdge(s, e)) /\ Range(AddEdge(s, e)) = Range(s) \union {e}
<1>1. AddEdge(s, e) = Append(s, e)
    BY DEF AddEdge, Range
<1>2. Append(s, e) = s \o <<e>>
  <2>1. s \in Seq(Range(s) \union {e}) /\ e \in Range(s) \union {e}
    BY SeqMonotonic DEF IsSeq
  <2> QED
    BY <2>1
<1> QED
    BY <1>1, <1>2, OneIsListed, Joined

(* A turn at a certificate that the climb has not seen.                     *)
LEMMA ClimbKeeps ==
    ASSUME NEW leaf, NEW s, NEW V, NEW c, Climbed(leaf, s, V),
           c.fp, CertId(c) # s.at, CertId(c) \notin V
    PROVE  Climbed(leaf, Climb(s, c), V \union {CertId(c)})
<1> DEFINE v == CertId(c)
           e == Edge(s.at, "SIGNED_BY", v)
           t == Climb(s, c)
           E == Range(s.edges)
           W == V \union {v}
<1>1. e.from = s.at /\ e.to = v /\ e.type = "SIGNED_BY"
    BY DEF Edge
<1>2. t.at = v /\ t.edges = AddEdge(s.edges, e)
    BY DEF Climb
<1>3. /\ IsSeq(s.edges) /\ leaf \in V /\ s.at \in V
      /\ \A f \in E : f.type = "SIGNED_BY" /\ f.from \in V /\ f.to \in V /\ f.from # s.at
      /\ \A f, g \in E : f.from = g.from => f.to = g.to
      /\ \A C : leaf \in C /\ (\A f \in E : f.from \in C => f.to \in C) => V \subseteq C
      /\ \A C : V \intersect C # {} /\ (\A f \in E : f.to \in C => f.from \in C) => leaf \in C
    BY DEF Climbed
<1> HIDE DEF e, t, E, v
<1>4. e \notin E
    BY <1>1, <1>3
<1>5. IsSeq(t.edges) /\ Range(t.edges) = E \union {e}
    BY <1>2, <1>3, <1>4, AddedEdge DEF E
<1>0. v \notin V
    BY DEF v
<1>6. ASSUME NEW C, leaf \in C, \A f \in E \union {e} : f.from \in C => f.to \in C
      PROVE  W \subseteq C
  <2>1. V \subseteq C
    BY <1>3, <1>6
  <2> QED
    BY <1>1, <1>3, <1>6, <2>1
<1>7. ASSUME NEW C, W \intersect C # {}, \A f \in E \union {e} : f.to \in C => f.from \in C
      PROVE  leaf \in C
  <2>1. V \intersect C # {}
    BY <1>1, <1>3, <1>7
  <2> QED
    BY <1>3, <1>7, <2>1
<1>8. \A f \in E \union {e} : f.type = "SIGNED_BY" /\ f.from \in W /\ f.to \in W /\ f.from # v
    BY <1>0, <1>1, <1>3
<1>9. \A f, g \in E \union {e} : f.from = g.from => f.to = g.to
    BY <1>1, <1>3
<1>10. leaf \in W /\ t.at \in W /\ t.at = v
    BY <1>2, <1>3
<1> HIDE DEF W
<1>11. Climbed(leaf, t, W)
    BY <1>5, <1>6, <1>7, <1>8, <1>9, <1>10 DEF Climbed
<1> QED
    BY <1>11 DEF W, t, v

(* The climb, by the recursion that defines it.                             *)
LEMMA ClimbsAre ==
    ASSUME NEW n, Len(n.chain) \in Nat
    PROVE  /\ Climbs(n)[0] = [at |-> LeafId(n), edges |-> <<>>]
           /\ \A k \in 1 .. Len(n.chain) : Climbs(n)[k] = Climb(Climbs(n)[k - 1], n.chain[k])
<1> DEFINE N     == Len(n.chain)
           base  == [at |-> LeafId(n), edges |-> <<>>]
           IsClimb(g, m) == g = [k \in 0 .. m |-> IF k = 0 THEN base ELSE Climb(g[k - 1], n.chain[k])]
           Has   == {m \in Nat : \E g : IsClimb(g, m)}
<1>1. 0 \in Has
  <2> DEFINE g == [k \in 0 .. 0 |-> base]
  <2>1. \A k \in 0 .. 0 : k = 0
    OBVIOUS
  <2>2. IsClimb(g, 0)
    BY <2>1
  <2> QED
    BY <2>2
<1>2. ASSUME NEW m \in Nat, m \in Has PROVE m + 1 \in Has
  <2>1. PICK g : IsClimb(g, m)
    BY <1>2
  <2> HIDE DEF base
  <2>0. \A k \in 0 .. m : g[k] = IF k = 0 THEN base ELSE Climb(g[k - 1], n.chain[k])
    BY <2>1
  <2> DEFINE up == [k \in 0 .. m + 1 |-> IF k = m + 1 THEN Climb(g[m], n.chain[m + 1]) ELSE g[k]]
  <2> HIDE DEF IsClimb, Has
  <2>2. ASSUME NEW k \in 0 .. m + 1 PROVE up[k] = IF k = 0 THEN base ELSE Climb(up[k - 1], n.chain[k])
    <3>1. CASE k = m + 1
      <4>1. up[k] = Climb(g[m], n.chain[k]) /\ up[k - 1] = g[m] /\ k # 0
        BY <3>1
      <4> QED
        BY <4>1
    <3>2. CASE k \in 0 .. m
      <4>0. k # m + 1 /\ up[k] = g[k]
        BY <3>2
      <4>1. up[k] = g[k] /\ g[k] = IF k = 0 THEN base ELSE Climb(g[k - 1], n.chain[k])
        BY <2>0, <3>2, <4>0
      <4>2. k # 0 => up[k - 1] = g[k - 1]
        BY <3>2
      <4> QED
        BY <4>1, <4>2
    <3> QED
      BY <3>1, <3>2
  <2>3. IsClimb(up, m + 1)
    BY <2>2 DEF IsClimb
  <2> QED
    BY <2>3 DEF Has
<1>3. Nat \subseteq Has
    BY <1>1, <1>2, SetInduction
<1>4. \E g : IsClimb(g, N)
    BY <1>3
<1> DEFINE upto == CHOOSE g : IsClimb(g, N)
<1>5. Climbs(n) = upto
    BY DEF Climbs
<1>6. IsClimb(upto, N)
    BY <1>4
<1> HIDE DEF upto, base
<1>7. N \in Nat /\ 0 \in 0 .. N /\ \A k \in 1 .. N : k \in 0 .. N /\ k # 0
    OBVIOUS
<1>8. \A k \in 0 .. N : upto[k] = IF k = 0 THEN base ELSE Climb(upto[k - 1], n.chain[k])
    BY <1>6
<1> HIDE DEF IsClimb, N
<1>9. upto[0] = base /\ \A k \in 1 .. N : upto[k] = Climb(upto[k - 1], n.chain[k])
    BY <1>7, <1>8
<1> QED
    BY <1>5, <1>9 DEF base, N

(* What the loop over the chain comes to.                                   *)
LEMMA ChainIsClimbed ==
    ASSUME ProjectionAssumption, NEW n \in Networks
    PROVE  \E s : s.edges = ChainEdges(n) /\ Climbed(LeafId(n), s, {LeafId(n)} \union ChainIds(n))
<1>1. n.chain \in Seq(Range(n.chain)) /\ ListedOnce(n)
    BY DEF ProjectionAssumption
<1>2. PICK N \in Nat : N = Len(n.chain) /\ DOMAIN n.chain = 1 .. N
    BY <1>1
<1>3. PICK upto : upto = Climbs(n)
    OBVIOUS
<1>4. /\ upto[0] = [at |-> LeafId(n), edges |-> <<>>]
      /\ \A k \in 1 .. N : upto[k] = Climb(upto[k - 1], n.chain[k])
    BY <1>2, <1>3, ClimbsAre
<1> DEFINE leaf  == LeafId(n)
           id(i) == CertId(n.chain[i])
           In(k) == {i \in 1 .. N : i <= k /\ n.chain[i].fp}
           V(k)  == {leaf} \union {id(i) : i \in In(k)}
           Good  == {k \in Nat : k <= N => Climbed(leaf, upto[k], V(k))}
<1>5. \A i, j \in 1 .. N : n.chain[i].fp /\ n.chain[j].fp =>
          (id(i) = id(j) => i = j) /\ (id(i) = leaf => i <= j)
  <2>1. \A i, j \in 1 .. N : id(i) = id(j) => n.chain[i].cert = n.chain[j].cert
    BY DEF CertId
  <2> QED
    BY <1>1, <1>2, <2>1 DEF ListedOnce
<1>6. 0 \in Good
  <2>1. In(0) = {}
    OBVIOUS
  <2>2. V(0) = {leaf}
    BY <2>1
  <2>3. upto[0].at = leaf /\ upto[0].edges = <<>>
    BY <1>4
  <2>4. IsSeq(<<>>) /\ Range(<<>>) = {}
    BY OneIsListed
  <2> HIDE DEF leaf, V
  <2>5. Climbed(leaf, upto[0], V(0))
    BY <2>2, <2>3, <2>4 DEF Climbed
  <2> QED
    BY <2>5
<1>7. ASSUME NEW k \in Nat, k \in Good PROVE k + 1 \in Good
  <2> SUFFICES ASSUME k + 1 <= N PROVE Climbed(leaf, upto[k + 1], V(k + 1))
    OBVIOUS
  <2> DEFINE c == n.chain[k + 1]
             s == upto[k]
  <2>1. Climbed(leaf, s, V(k))
    BY <1>2, <1>7
  <2>2. k + 1 \in 1 .. N /\ upto[k + 1] = Climb(s, c)
    BY <1>4
  <2>3. In(k + 1) = IF c.fp THEN In(k) \union {k + 1} ELSE In(k)
    BY <2>2
  <2>4. s.at \in V(k)
    BY <2>1 DEF Climbed
  <2>5. c.fp => id(k + 1) = s.at \/ id(k + 1) \notin V(k)
    <3> SUFFICES ASSUME c.fp, id(k + 1) \in V(k) PROVE id(k + 1) = s.at
      OBVIOUS
    <3>1. \A i \in In(k) : i \in 1 .. N /\ i <= k /\ n.chain[i].fp /\ ~ (k + 1 <= i) /\ i # k + 1
      OBVIOUS
    <3>2. \A i \in In(k) : id(i) # id(k + 1)
      BY <1>5, <2>2, <3>1
    <3>3. id(k + 1) = leaf
      BY <3>2
    <3>4. In(k) = {}
      BY <1>5, <2>2, <3>1, <3>3
    <3>5. V(k) = {leaf}
      BY <3>4
    <3> QED
      BY <2>4, <3>3, <3>5
  <2>6. V(k + 1) = IF c.fp THEN V(k) \union {CertId(c)} ELSE V(k)
    BY <2>3
  <2> HIDE DEF V, In, Good, s, c
  <2>7. id(k + 1) = CertId(c)
    BY DEF c
  <2> HIDE DEF id, leaf
  <2>8. CASE c.fp /\ CertId(c) # s.at
    <3>1. CertId(c) \notin V(k)
      BY <2>5, <2>7, <2>8
    <3> QED
      BY <2>1, <2>2, <2>6, <2>8, <3>1, ClimbKeeps
  <2>9. CASE ~ (c.fp /\ CertId(c) # s.at)
    <3>1. Climb(s, c) = s
      BY <2>9 DEF Climb
    <3>2. V(k + 1) = V(k)
      BY <2>4, <2>6, <2>9
    <3> QED
      BY <2>1, <2>2, <3>1, <3>2
  <2> QED
    BY <2>8, <2>9
<1>8. N \in Good
  <2>1. Nat \subseteq Good
    BY <1>6, <1>7, SetInduction
  <2> QED
    BY <2>1
<1>9. V(N) = {leaf} \union ChainIds(n)
  <2>1. ASSUME NEW v \in ChainIds(n) PROVE v \in V(N)
    <3>1. PICK c \in Range(n.chain) : c.fp /\ v = CertId(c)
      BY <2>1 DEF ChainIds, Listed
    <3>2. PICK i \in 1 .. N : c = n.chain[i]
      BY <1>2 DEF Range
    <3>3. i \in In(N) /\ v = id(i)
      BY <3>1, <3>2
    <3> QED
      BY <3>3
  <2>2. ASSUME NEW i \in In(N) PROVE id(i) \in ChainIds(n)
    <3>1. n.chain[i] \in Range(n.chain) /\ n.chain[i].fp
      BY <1>2, <2>2 DEF Range
    <3> QED
      BY <3>1 DEF ChainIds, Listed
  <2>3. V(N) = {leaf} \union {id(i) : i \in In(N)}
    OBVIOUS
  <2> HIDE DEF V, In, id
  <2> QED
    BY <2>1, <2>2, <2>3
<1>10. upto[N].edges = ChainEdges(n)
    BY <1>2, <1>3 DEF ChainEdges
<1> HIDE DEF V, In, id
<1>11. Climbed(leaf, upto[N], V(N))
    BY <1>2, <1>8
<1> QED
    BY <1>9, <1>10, <1>11

-----------------------------------------------------------------------------
(* The edges of a snapshot.                                                 *)
NetworkLinks(n) ==
    (IF n.asset = None THEN {} ELSE {Edge(AssetId(n.asset), "RUNS", ServiceId(n))})
    \union {Edge(ServiceId(n), "USES_CERTIFICATE", LeafId(n))}
    \union {Edge(ServiceId(n), "SERVICE_HAS_FINDING", id) : id \in Findings(n)}

(* project_network: these, and those of the climb.                          *)
LEMMA NetworkEdgesAre ==
    ASSUME ProjectionAssumption, NEW n \in Networks
    PROVE  /\ IsSeq(NetworkEdges(n))
           /\ Range(NetworkEdges(n)) = NetworkLinks(n) \union Range(ChainEdges(n))
<1> DEFINE E1 == IF n.asset = None THEN {} ELSE {Edge(AssetId(n.asset), "RUNS", ServiceId(n))}
           e2 == Edge(ServiceId(n), "USES_CERTIFICATE", LeafId(n))
           E3 == {Edge(ServiceId(n), "SERVICE_HAS_FINDING", FindingId(n, k)) : k \in FindingsOf(n.leaf)}
           s3 == SetToSeq(E3)
<1>1. IsSeq(RunsEdge(n)) /\ Range(RunsEdge(n)) = E1
    BY OneIsListed DEF RunsEdge
<1>2. IsSeq(<<e2>>) /\ Range(<<e2>>) = {e2}
    BY OneIsListed
<1>3. IsSeq(s3) /\ Range(s3) = E3
  <2> DEFINE f == [k \in FindingsOf(n.leaf) |-> Edge(ServiceId(n), "SERVICE_HAS_FINDING", FindingId(n, k))]
  <2>1. f \in Surjection(FindingsOf(n.leaf), E3)
    BY DEF Surjection
  <2>2. IsFiniteSet(FindingsOf(n.leaf))
    <3>1. IsFiniteSet({"vulnerable"}) /\ IsFiniteSet({"weak"})
      BY FS_Singleton
    <3>2. IsFiniteSet({"vulnerable"} \union {"weak"})
      BY <3>1, FS_Union
    <3>3. FindingsOf(n.leaf) \in SUBSET ({"vulnerable"} \union {"weak"})
      BY DEF FindingsOf
    <3> QED
      BY <3>2, <3>3, FS_Subset
  <2>3. IsFiniteSet(E3)
    BY <2>1, <2>2, FS_Surjection
  <2> HIDE DEF E3
  <2> QED
    BY <2>3, ListOf
<1>4. IsSeq(ChainEdges(n))
  <2>1. PICK s : s.edges = ChainEdges(n) /\ Climbed(LeafId(n), s, {LeafId(n)} \union ChainIds(n))
    BY ChainIsClimbed
  <2>2. IsSeq(s.edges)
    BY <2>1 DEF Climbed
  <2> QED
    BY <2>1, <2>2
<1>5. NetworkEdges(n) = RunsEdge(n) \o <<e2>> \o s3 \o ChainEdges(n)
    BY DEF NetworkEdges
<1>6. E3 = {Edge(ServiceId(n), "SERVICE_HAS_FINDING", id) : id \in Findings(n)}
    BY DEF Findings
<1>7. NetworkLinks(n) = E1 \union {e2} \union E3
    BY <1>6 DEF NetworkLinks
<1> HIDE DEF E1, e2, E3, s3
<1>8. IsSeq(RunsEdge(n) \o <<e2>>) /\ Range(RunsEdge(n) \o <<e2>>) = E1 \union {e2}
    BY <1>1, <1>2, Joined
<1>9. /\ IsSeq(RunsEdge(n) \o <<e2>> \o s3)
      /\ Range(RunsEdge(n) \o <<e2>> \o s3) = E1 \union {e2} \union E3
    BY <1>3, <1>8, Joined
<1>10. IsSeq(NetworkEdges(n)) /\ Range(NetworkEdges(n)) = E1 \union {e2} \union E3 \union Range(ChainEdges(n))
    BY <1>4, <1>5, <1>9, Joined
<1> QED
    BY <1>7, <1>10

(* main: the edges of the host and of the service, and no other.            *)
LEMMA EdgesAre ==
    ASSUME ProjectionAssumption, NEW h \in Hosts, NEW n \in Networks
    PROVE  Edges(Project(h, n)) = HostLinks(h) \union NetworkLinks(n) \union Range(ChainEdges(n))
<1>1. Project(h, n).edges = HostEdges(h) \o NetworkEdges(n)
    BY DEF Project
<1>2. Edges(Project(h, n)) = Range(HostEdges(h) \o NetworkEdges(n))
    BY <1>1 DEF Edges, Range
<1>3. /\ IsSeq(HostEdges(h)) /\ Range(HostEdges(h)) = HostLinks(h)
      /\ IsSeq(NetworkEdges(n)) /\ Range(NetworkEdges(n)) = NetworkLinks(n) \union Range(ChainEdges(n))
    BY HostEdgesAre, NetworkEdgesAre
<1>4. Range(HostEdges(h) \o NetworkEdges(n)) = Range(HostEdges(h)) \union Range(NetworkEdges(n))
    BY <1>3, Joined
<1> QED
    BY <1>2, <1>3, <1>4

(* Where an edge of a snapshot comes from, by its type.                     *)
IsLink(h, n, e) ==
    \/ e.type = "HAS_PACKAGE" /\ e.from = AssetId(h.asset) /\ e.to \in Packages(h)
    \/ e.type = "HAS_CONFIG" /\ e.from = AssetId(h.asset) /\ e.to \in Configs(h)
    \/ e.type = "HAS_FINDING" /\ e.from = AssetId(h.asset) /\ e.to \in KeyFindings(h)
    \/ e.type = "RUNS" /\ n.asset # None /\ e.from = AssetId(n.asset) /\ e.to = ServiceId(n)
    \/ e.type = "USES_CERTIFICATE" /\ e.from = ServiceId(n) /\ e.to = LeafId(n)
    \/ e.type = "SERVICE_HAS_FINDING" /\ e.from = ServiceId(n) /\ e.to \in Findings(n)
    \/ e.type = "SIGNED_BY" /\ e \in Range(ChainEdges(n))
       /\ e.from \in {LeafId(n)} \union ChainIds(n) /\ e.to \in {LeafId(n)} \union ChainIds(n)

(* Whatever its type, an edge links what it should.                         *)
LEMMA EachIsALink ==
    ASSUME ProjectionAssumption, NEW h \in Hosts, NEW n \in Networks, NEW e \in Edges(Project(h, n))
    PROVE  IsLink(h, n, e)
<1>1. e \in HostLinks(h) \/ e \in NetworkLinks(n) \/ e \in Range(ChainEdges(n))
    BY EdgesAre
<1>2. CASE e \in HostLinks(h)
  <2>1. \/ \E id \in Packages(h) : e = Edge(AssetId(h.asset), "HAS_PACKAGE", id)
        \/ \E id \in Configs(h) : e = Edge(AssetId(h.asset), "HAS_CONFIG", id)
        \/ \E id \in KeyFindings(h) : e = Edge(AssetId(h.asset), "HAS_FINDING", id)
    BY <1>2 DEF HostLinks
  <2> QED
    BY <2>1 DEF IsLink, Edge
<1>3. CASE e \in NetworkLinks(n)
  <2>1. \/ n.asset # None /\ e = Edge(AssetId(n.asset), "RUNS", ServiceId(n))
        \/ e = Edge(ServiceId(n), "USES_CERTIFICATE", LeafId(n))
        \/ \E id \in Findings(n) : e = Edge(ServiceId(n), "SERVICE_HAS_FINDING", id)
    BY <1>3 DEF NetworkLinks
  <2> QED
    BY <2>1 DEF IsLink, Edge
<1>4. CASE e \in Range(ChainEdges(n))
  <2>1. PICK s : s.edges = ChainEdges(n) /\ Climbed(LeafId(n), s, {LeafId(n)} \union ChainIds(n))
    BY ChainIsClimbed
  <2>2. e.type = "SIGNED_BY" /\ e.from \in {LeafId(n)} \union ChainIds(n) /\ e.to \in {LeafId(n)} \union ChainIds(n)
    BY <1>4, <2>1 DEF Climbed
  <2> QED
    BY <1>4, <2>2 DEF IsLink
<1> QED
    BY <1>1, <1>2, <1>3, <1>4

(* And each object is linked to that by which its asset is reached.         *)
LEMMA Linked ==
    ASSUME ProjectionAssumption, NEW h \in Hosts, NEW n \in Networks
    PROVE  /\ \A id \in Packages(h) \union Configs(h) \union KeyFindings(h) :
                 \E e \in Edges(Project(h, n)) : e.from = AssetId(h.asset) /\ e.to = id
           /\ n.asset # None => \E e \in Edges(Project(h, n)) :
                 e.type = "RUNS" /\ e.from = AssetId(n.asset) /\ e.to = ServiceId(n)
           /\ \E e \in Edges(Project(h, n)) :
                 e.type = "USES_CERTIFICATE" /\ e.from = ServiceId(n) /\ e.to = LeafId(n)
           /\ \A id \in Findings(n) : \E e \in Edges(Project(h, n)) :
                 e.type = "SERVICE_HAS_FINDING" /\ e.from = ServiceId(n) /\ e.to = id
           /\ \A e \in Range(ChainEdges(n)) : e \in Edges(Project(h, n))
<1>1. Edges(Project(h, n)) = HostLinks(h) \union NetworkLinks(n) \union Range(ChainEdges(n))
    BY EdgesAre
<1>2. \A from, t, to : /\ Edge(from, t, to).from = from
                       /\ Edge(from, t, to).type = t
                       /\ Edge(from, t, to).to = to
    BY DEF Edge
<1>3. \A id \in Packages(h) : Edge(AssetId(h.asset), "HAS_PACKAGE", id) \in HostLinks(h)
    BY DEF HostLinks
<1>4. \A id \in Configs(h) : Edge(AssetId(h.asset), "HAS_CONFIG", id) \in HostLinks(h)
    BY DEF HostLinks
<1>5. \A id \in KeyFindings(h) : Edge(AssetId(h.asset), "HAS_FINDING", id) \in HostLinks(h)
    BY DEF HostLinks
<1>6. n.asset # None => Edge(AssetId(n.asset), "RUNS", ServiceId(n)) \in NetworkLinks(n)
    BY DEF NetworkLinks
<1>7. Edge(ServiceId(n), "USES_CERTIFICATE", LeafId(n)) \in NetworkLinks(n)
    BY DEF NetworkLinks
<1>8. \A id \in Findings(n) : Edge(ServiceId(n), "SERVICE_HAS_FINDING", id) \in NetworkLinks(n)
    BY DEF NetworkLinks
<1>9. \A id \in Packages(h) \union Configs(h) \union KeyFindings(h) :
          \E e \in Edges(Project(h, n)) : e.from = AssetId(h.asset) /\ e.to = id
    BY <1>1, <1>2, <1>3, <1>4, <1>5
<1>10. \A id \in Findings(n) : \E e \in Edges(Project(h, n)) :
          e.type = "SERVICE_HAS_FINDING" /\ e.from = ServiceId(n) /\ e.to = id
    BY <1>1, <1>2, <1>8
<1>11. n.asset # None => \E e \in Edges(Project(h, n)) :
          e.type = "RUNS" /\ e.from = AssetId(n.asset) /\ e.to = ServiceId(n)
    BY <1>1, <1>2, <1>6
<1>12. \E e \in Edges(Project(h, n)) :
          e.type = "USES_CERTIFICATE" /\ e.from = ServiceId(n) /\ e.to = LeafId(n)
    BY <1>1, <1>2, <1>7
<1>13. \A e \in Range(ChainEdges(n)) : e \in Edges(Project(h, n))
    BY <1>1
<1> QED
    BY <1>9, <1>10, <1>11, <1>12, <1>13

(* validate: both ends of every edge are nodes.                             *)
LEMMA EndsAreNodes ==
    ASSUME ProjectionAssumption, NEW h \in Hosts, NEW n \in Networks, NEW e \in Edges(Project(h, n))
    PROVE  {e.from, e.to} \subseteq DOMAIN Project(h, n).nodes
<1>1. DOMAIN Project(h, n).nodes = DOMAIN HostNodes(h) \union DOMAIN NetworkNodes(n)
    BY NodesAre
<1>2. DOMAIN HostNodes(h) = {AssetId(h.asset)} \union Packages(h) \union Configs(h) \union KeyFindings(h)
    BY HostNodesAre
<1>3. DOMAIN NetworkNodes(n) = Assets(n) \union {ServiceId(n), LeafId(n)} \union Findings(n) \union ChainIds(n)
    BY NetworkNodesAre
<1>4. n.asset # None => AssetId(n.asset) \in Assets(n)
    BY DEF Assets
<1>5. IsLink(h, n, e)
    BY EachIsALink
<1> QED
    BY <1>1, <1>2, <1>3, <1>4, <1>5 DEF IsLink

(* The same of the snapshot that a request has loaded.                      *)
LEMMA ClosedOnce == ASSUME ProjectionAssumption, graph \in Projections PROVE SnapshotIsClosed
<1>1. PICK h \in Hosts, n \in Networks : graph = Project(h, n)
    BY DEF Projections
<1> QED
    BY <1>1, EndsAreNodes DEF SnapshotIsClosed

-----------------------------------------------------------------------------
(* A radius that is complete has whatever leads to what it has.             *)
LEMMA SeenIsClosed ==
    ASSUME GraphInv, query = "radius", done, limit = 0, filter = {}, NEW e \in Edges(graph), e.to \in Seen
    PROVE  e.from \in Seen
<1>1. LeaveNoGap /\ queue = <<>>
    BY DEF GraphInv
<1>2. DOMAIN queue = {}
    BY <1>1
<1>3. Waiting = {}
    BY <1>2 DEF Waiting
<1>4. e.from \in Into(graph, e.to, filter)
    BY DEF Into, Wanted
<1> QED
    BY <1>1, <1>3, <1>4 DEF LeaveNoGap

(* From any object, the radius comes to the asset: from a certificate of the *)
(* chain down to the leaf, from there to the service and to what runs it.   *)
LEMMA ReachesAsset ==
    ASSUME ProjectionAssumption, GraphInv, graph \in Projections, start \in DOMAIN graph.nodes
    PROVE  RadiusReachesAsset
<1> SUFFICES ASSUME query = "radius", done, limit = 0, filter = {}, Named(graph), start \notin AssetsOf(graph)
             PROVE  \E a \in AssetsOf(graph) : a \in DOMAIN depth
    BY DEF RadiusReachesAsset
<1>1. PICK h \in Hosts, n \in Networks : graph = Project(h, n)
    BY DEF Projections
<1> SUFFICES \E a \in AssetsOf(graph) : a \in Seen
    BY DEF Seen
<1>2. \A e \in Edges(graph) : e.to \in Seen => e.from \in Seen
    BY SeenIsClosed
<1>3. start \in Seen
    BY DEF Seen
<1>4. /\ DOMAIN graph.nodes = DOMAIN HostNodes(h) \union DOMAIN NetworkNodes(n)
      /\ \A id \in DOMAIN graph.nodes : graph.nodes[id].type = Kind(id)
    BY <1>1, NodesAre DEF Kinded
<1>5. DOMAIN HostNodes(h) = {AssetId(h.asset)} \union Packages(h) \union Configs(h) \union KeyFindings(h)
    BY HostNodesAre
<1>6. DOMAIN NetworkNodes(n) = Assets(n) \union {ServiceId(n), LeafId(n)} \union Findings(n) \union ChainIds(n)
    BY NetworkNodesAre
<1>7. Kind(AssetId(h.asset)) = "Asset"
    BY DEF Kind, AssetId
<1>8. AssetId(h.asset) \in AssetsOf(graph)
    BY <1>4, <1>5, <1>7 DEF AssetsOf
<1>9. Assets(n) \subseteq AssetsOf(graph)
  <2>1. \A a \in Assets(n) : Kind(a) = "Asset"
    BY TagsDiffer DEF Assets
  <2> QED
    BY <1>4, <1>6, <2>1 DEF AssetsOf
(* The object of a host.                                                    *)
<1>10. CASE start \in Packages(h) \union Configs(h) \union KeyFindings(h)
  <2>1. \E e \in Edges(graph) : e.from = AssetId(h.asset) /\ e.to = start
    BY <1>1, <1>10, Linked
  <2> QED
    BY <1>2, <1>3, <1>8, <2>1
(* The service, and what is found at it.                                    *)
<1>11. ASSUME ServiceId(n) \in Seen PROVE \E a \in AssetsOf(graph) : a \in Seen
  <2>1. ServiceId(n) \in DOMAIN graph.nodes /\ graph.nodes[ServiceId(n)].type = "Service"
    BY <1>4, <1>6, TagsDiffer
  <2>2. PICK e \in Edges(graph) : e.type = "RUNS" /\ e.to = ServiceId(n)
    BY <2>1 DEF Named
  <2>3. IsLink(h, n, e)
    BY <1>1, EachIsALink
  <2>4. e.from \in Assets(n)
    BY <2>2, <2>3 DEF IsLink, Assets
  <2> QED
    BY <1>2, <1>9, <1>11, <2>2, <2>4
<1>12. ASSUME LeafId(n) \in Seen PROVE ServiceId(n) \in Seen
  <2>1. \E e \in Edges(graph) : e.from = ServiceId(n) /\ e.to = LeafId(n)
    BY <1>1, Linked
  <2> QED
    BY <1>2, <1>12, <2>1
<1>13. CASE start \in Findings(n)
  <2>1. \E e \in Edges(graph) : e.from = ServiceId(n) /\ e.to = start
    BY <1>1, <1>13, Linked
  <2>2. ServiceId(n) \in Seen
    BY <1>2, <1>3, <2>1
  <2> QED
    BY <1>11, <2>2
(* Its certificate, and those above it.                                     *)
<1>14. CASE start \in {LeafId(n)} \union ChainIds(n)
  <2>1. PICK s : s.edges = ChainEdges(n) /\ Climbed(LeafId(n), s, {LeafId(n)} \union ChainIds(n))
    BY ChainIsClimbed
  <2>2. \A e \in Range(s.edges) : e.to \in Seen => e.from \in Seen
    BY <1>1, <1>2, <2>1, Linked
  <2>3. ({LeafId(n)} \union ChainIds(n)) \intersect Seen # {}
    BY <1>3, <1>14
  <2> DEFINE V == {LeafId(n)} \union ChainIds(n)
  <2> HIDE DEF V
  <2>4. \A C : V \intersect C # {} /\ (\A e \in Range(s.edges) : e.to \in C => e.from \in C) => LeafId(n) \in C
    BY <2>1 DEF Climbed, V
  <2>5. LeafId(n) \in Seen
    BY <2>2, <2>3, <2>4 DEF V
  <2> QED
    BY <1>11, <1>12, <2>5
<1>15. start # AssetId(h.asset) /\ start \notin Assets(n)
    BY <1>8, <1>9
<1> QED
    BY <1>3, <1>4, <1>5, <1>6, <1>10, <1>11, <1>13, <1>14, <1>15

-----------------------------------------------------------------------------
(* The first of the edges of a type into a node is one of them.             *)
LEMMA FirstEnters ==
    ASSUME NEW g, NEW n, NEW t, g.edges \in Seq(Edges(g)), Entering(g, n, t) # {}
    PROVE  /\ FirstOf(g, Entering(g, n, t)) \in Edges(g)
           /\ FirstOf(g, Entering(g, n, t)).to = n
           /\ FirstOf(g, Entering(g, n, t)).type = t
<1> DEFINE I == Entering(g, n, t)
<1>1. DOMAIN g.edges \subseteq Nat
    OBVIOUS
<1>2. I \in SUBSET Nat
    BY <1>1 DEF Entering
<1>3. \E i \in I : \A j \in I : i <= j
    BY <1>2, LeastNat
<1> HIDE DEF I
<1>4. (CHOOSE i \in I : \A j \in I : i <= j) \in I
    BY <1>3
<1> QED
    BY <1>4 DEF I, FirstOf, Entering, Edges

(* Where there is no choice of an edge, the first one is known.             *)
EntersFrom(g, n, t, m) ==
    /\ \E e \in Edges(g) : e.type = t /\ e.to = n
    /\ \A e \in Edges(g) : e.type = t /\ e.to = n => e.from = m
LeavesTo(g, n, t, m) ==
    /\ \E e \in Edges(g) : e.type = t /\ e.from = n
    /\ \A e \in Edges(g) : e.type = t /\ e.from = n => e.to = m

LEMMA OnlyFrom ==
    ASSUME NEW g, NEW n, NEW t, NEW m, g.edges \in Seq(Edges(g)), EntersFrom(g, n, t, m)
    PROVE  FirstFrom(g, n, t) = m
<1>1. Entering(g, n, t) # {}
    BY DEF EntersFrom, Entering, Edges
<1> QED
    BY <1>1, FirstEnters DEF EntersFrom, FirstFrom

LEMMA OnlyTo ==
    ASSUME NEW g, NEW n, NEW t, NEW m, g.edges \in Seq(Edges(g)), LeavesTo(g, n, t, m)
    PROVE  FirstTo(g, n, t) = m
<1>1. Leaving(g, n, t) # {}
    BY DEF LeavesTo, Leaving, Edges
<1> QED
    BY <1>1, FirstLeaves DEF LeavesTo, FirstTo

(* And where there is none, nothing is found.                               *)
LEMMA NoneFrom ==
    ASSUME NEW g, NEW n, NEW t, \A e \in Edges(g) : ~ (e.type = t /\ e.to = n)
    PROVE  FirstFrom(g, n, t) = None
<1>1. Entering(g, n, t) = {}
    BY DEF Entering, Edges
<1> QED
    BY <1>1 DEF FirstFrom

(* The path of a finding that only a service has.                           *)
LEMMA PathOfFinding ==
    ASSUME NEW g, NEW m, NEW s, NEW a, NEW c,
           g.nodes[m].type = "CryptoFinding",
           FirstFrom(g, m, "SERVICE_HAS_FINDING") = s, s # None, s \in DOMAIN g.nodes,
           FirstFrom(g, m, "HAS_FINDING") = None,
           FirstFrom(g, s, "RUNS") = a,
           FirstTo(g, s, "USES_CERTIFICATE") = c, c # None, c \in DOMAIN g.nodes
    PROVE  /\ <<"service", s>> \in EvidencePath(g, m)
           /\ a \in DOMAIN g.nodes => <<"asset", a>> \in EvidencePath(g, m)
           /\ <<"crypto", c>> \in EvidencePath(g, m)
<1> DEFINE kind     == g.nodes[m].type
           If(t, x) == IF kind = t THEN x ELSE None
           finding  == If("CryptoFinding", m)
           crypto1  == IF kind \in {"Certificate", "Package", "Library", "Pipeline"} THEN m ELSE None
           service1 == Or(If("Service", m), Or(If("CryptoFinding", FirstFrom(g, m, "SERVICE_HAS_FINDING")),
                                               If("Certificate", FirstFrom(g, m, "USES_CERTIFICATE"))))
           asset1   == Or(If("Asset", m), Or(If("CryptoFinding", FirstFrom(g, m, "HAS_FINDING")),
                             IF kind \in {"Package", "Library"} THEN FirstFrom(g, m, "HAS_PACKAGE") ELSE None))
           asset    == Or(asset1, FirstFrom(g, service1, "RUNS"))
           service  == Or(service1, FirstTo(g, asset, "RUNS"))
           crypto   == Or(Or(crypto1, FirstTo(g, service, "USES_CERTIFICATE")),
                          FirstTo(g, asset, "HAS_PACKAGE"))
           role     == [finding |-> finding, service |-> service, asset |-> asset, crypto |-> crypto]
<1>1. EvidencePath(g, m) = {<<r, role[r]>> : r \in {r \in DOMAIN role : role[r] \in DOMAIN g.nodes}}
    BY DEF EvidencePath
<1>2. service1 = s
    BY DEF Or
<1>3. asset1 = None /\ crypto1 = None
    BY DEF Or
<1> HIDE DEF service1, asset1, crypto1, finding
<1>4. asset = a
    BY <1>2, <1>3 DEF Or
<1>5. service = s
    BY <1>2 DEF Or
<1> HIDE DEF asset, service
<1>6. crypto = c
    BY <1>3, <1>5 DEF Or
<1> HIDE DEF crypto
<1>7. /\ {"service", "asset", "crypto"} \subseteq DOMAIN role
      /\ role["service"] = s /\ role["asset"] = a /\ role["crypto"] = c
    BY <1>4, <1>5, <1>6
<1> HIDE DEF role
<1>8. \A r \in DOMAIN role : role[r] \in DOMAIN g.nodes => <<r, role[r]>> \in EvidencePath(g, m)
    BY <1>1
<1> QED
    BY <1>7, <1>8

(* A finding of a host is none of a service, not even on the same asset.    *)
LEMMA IdsDiffer ==
    ASSUME NEW h, NEW n
    PROVE  KeyFindings(h) \intersect Findings(n) = {}
<1>1. \A id \in KeyFindings(h) : id[2] = AssetId(h.asset)
    BY DEF KeyFindings
<1>2. \A id \in Findings(n) : id[2] = ServiceId(n)
    BY DEF Findings, FindingId
<1>3. AssetId(h.asset) # ServiceId(n)
  <2>1. AssetId(h.asset)[1] = "asset" /\ ServiceId(n)[1] = "service"
    BY DEF AssetId, ServiceId
  <2> QED
    BY <2>1
<1> QED
    BY <1>1, <1>2, <1>3

(* evidence_path: at the service of the finding, whatever else the asset has. *)
LEMMA FindingsAreLocated ==
    ASSUME ProjectionAssumption, graph \in Projections, graph.edges \in Seq(Edges(graph)),
           None \notin DOMAIN graph.nodes,
           query = "path" => found = EvidencePath(graph, start)
    PROVE  ServiceFindingsAreLocated
<1>1. PICK h \in Hosts, n \in Networks : graph = Project(h, n)
    BY DEF Projections
<1> SUFFICES ASSUME query = "path", graph.nodes[start].type = "CryptoFinding",
                    NEW e \in Edges(graph), e.type = "SERVICE_HAS_FINDING", e.to = start
             PROVE  /\ <<"service", e.from>> \in found
                    /\ \A f \in Edges(graph) : f.type = "RUNS" /\ f.to = e.from => <<"asset", f.from>> \in found
                    /\ \A f \in Edges(graph) :
                          f.type = "USES_CERTIFICATE" /\ f.from = e.from => <<"crypto", f.to>> \in found
    BY DEF ServiceFindingsAreLocated
<1>2. \A f \in Edges(graph) : IsLink(h, n, f) /\ {f.from, f.to} \subseteq DOMAIN graph.nodes
    BY <1>1, EachIsALink, EndsAreNodes
<1> DEFINE s == ServiceId(n)
           c == LeafId(n)
           a == FirstFrom(graph, s, "RUNS")
<1>3. e.from = s /\ start \in Findings(n)
    BY <1>2 DEF IsLink
<1>4. PICK u \in Edges(graph) : u.type = "USES_CERTIFICATE" /\ u.from = s /\ u.to = c
    BY <1>1, Linked
<1>5. s \in DOMAIN graph.nodes /\ c \in DOMAIN graph.nodes /\ s # None /\ c # None
    BY <1>2, <1>4
<1>6. FirstFrom(graph, start, "SERVICE_HAS_FINDING") = s
  <2>1. \A f \in Edges(graph) : f.type = "SERVICE_HAS_FINDING" /\ f.to = start => f.from = s
    BY <1>2 DEF IsLink
  <2>2. EntersFrom(graph, start, "SERVICE_HAS_FINDING", s)
    BY <2>1 DEF EntersFrom
  <2> QED
    BY <2>2, OnlyFrom
<1>7. FirstFrom(graph, start, "HAS_FINDING") = None
  <2>1. start \notin KeyFindings(h)
    BY <1>3, IdsDiffer
  <2>2. \A f \in Edges(graph) : ~ (f.type = "HAS_FINDING" /\ f.to = start)
    BY <1>2, <2>1 DEF IsLink
  <2> QED
    BY <2>2, NoneFrom
<1>8. \A f \in Edges(graph) : f.type = "USES_CERTIFICATE" /\ f.from = s => f.to = c
    BY <1>2 DEF IsLink
<1>9. FirstTo(graph, s, "USES_CERTIFICATE") = c
  <2>1. LeavesTo(graph, s, "USES_CERTIFICATE", c)
    BY <1>4, <1>8 DEF LeavesTo
  <2> QED
    BY <2>1, OnlyTo
<1>10. ASSUME NEW f \in Edges(graph), f.type = "RUNS", f.to = s PROVE a = f.from
  <2>1. \A k \in Edges(graph) : k.type = "RUNS" /\ k.to = s => k.from = f.from
    BY <1>2, <1>10 DEF IsLink
  <2>2. EntersFrom(graph, s, "RUNS", f.from)
    BY <1>10, <2>1 DEF EntersFrom
  <2> QED
    BY <2>2, OnlyFrom
<1> HIDE DEF s, c
<1>11. /\ <<"service", s>> \in EvidencePath(graph, start)
       /\ a \in DOMAIN graph.nodes => <<"asset", a>> \in EvidencePath(graph, start)
       /\ <<"crypto", c>> \in EvidencePath(graph, start)
    BY <1>5, <1>6, <1>7, <1>9, PathOfFinding
<1> HIDE DEF a
<1> QED
    BY <1>2, <1>3, <1>8, <1>10, <1>11

-----------------------------------------------------------------------------
(* A chain that is answered ends where nobody has signed, or in a cycle.    *)
ChainEnds == SignedBy(Last(chain)) # {} => ~ NotYet(Issuer(Last(chain)))

(* trust_chain: what has been climbed is followed, certificate for          *)
(* certificate, because none of them has two issuers.                       *)
LEMMA ChainHasAll ==
    ASSUME ProjectionAssumption, GraphInv, graph \in Projections,
           query = "chain" /\ done => ChainEnds
    PROVE  ChainIsWhole
<1> SUFFICES ASSUME query = "chain", done,
                    NEW u \in Edges(graph), u.type = "USES_CERTIFICATE", u.to = start,
                    NEW id \in DOMAIN graph.nodes, graph.nodes[id].type = "Certificate"
             PROVE  id \in Range(chain)
    BY DEF ChainIsWhole
<1>1. PICK h \in Hosts, n \in Networks : graph = Project(h, n)
    BY DEF Projections
<1>2. \A e \in Edges(graph) : IsLink(h, n, e)
    BY <1>1, EachIsALink
<1> DEFINE leaf == LeafId(n)
           V    == {leaf} \union ChainIds(n)
           E    == Range(ChainEdges(n))
<1>3. start = leaf
    BY <1>2 DEF IsLink
<1>4. id \in V
  <2>1. /\ DOMAIN graph.nodes = DOMAIN HostNodes(h) \union DOMAIN NetworkNodes(n)
        /\ graph.nodes[id].type = Kind(id)
    BY <1>1, NodesAre DEF Kinded
  <2>2. DOMAIN HostNodes(h) = {AssetId(h.asset)} \union Packages(h) \union Configs(h) \union KeyFindings(h)
    BY HostNodesAre
  <2>3. DOMAIN NetworkNodes(n) = Assets(n) \union {ServiceId(n), LeafId(n)} \union Findings(n) \union ChainIds(n)
    BY NetworkNodesAre
  <2>4. \A x \in {AssetId(h.asset)} \union Packages(h) \union Configs(h) \union KeyFindings(h) :
            Kind(x) # "Certificate"
    BY DEF Kind, AssetId, Packages, Configs, KeyFindings
  <2>5. \A x \in Assets(n) \union {ServiceId(n)} \union Findings(n) : Kind(x) # "Certificate"
    BY TagsDiffer DEF Assets, Findings
  <2> QED
    BY <2>1, <2>2, <2>3, <2>4, <2>5
<1>5. PICK s : s.edges = ChainEdges(n) /\ Climbed(leaf, s, V)
    BY ChainIsClimbed
<1> HIDE DEF leaf, V, E
<1>6. /\ \A e, f \in E : e.from = f.from => e.to = f.to
      /\ \A C : leaf \in C /\ (\A e \in E : e.from \in C => e.to \in C) => V \subseteq C
    BY <1>5 DEF Climbed, E
<1>7. \A e \in Edges(graph) : e.type = "SIGNED_BY" => e \in E
    BY <1>2 DEF IsLink, E
<1>8. /\ graph.edges \in Seq(Edges(graph)) /\ ChainIsSigned
    BY DEF GraphInv
<1>9. PICK L \in Nat \ {0} : L = Len(chain) /\ DOMAIN chain = 1 .. L
    BY <1>8 DEF ChainIsSigned
<1>10. Last(chain) = chain[L] /\ chain[1] = start /\ 1 \in DOMAIN chain
    BY <1>8, <1>9 DEF Last, ChainIsSigned
<1>11. leaf \in Range(chain)
    BY <1>3, <1>10 DEF Range
<1>12. ASSUME NEW e \in E, e.from \in Range(chain) PROVE e.to \in Range(chain)
  <2>1. PICK i \in 1 .. L : chain[i] = e.from
    BY <1>9, <1>12 DEF Range
  <2>2. e \in Edges(graph) /\ e.type = "SIGNED_BY"
    BY <1>1, <1>5, <1>12, Linked DEF Climbed, E
  <2>3. CASE i # L
    <3>1. i \in 1 .. L - 1 /\ i + 1 \in DOMAIN chain
      BY <1>9, <2>3
    <3>2. chain[i] \in Into(graph, chain[i + 1], {"SIGNED_BY"})
      BY <1>8, <1>9, <3>1 DEF ChainIsSigned
    <3>3. PICK f \in Edges(graph) : f.to = chain[i + 1] /\ f.from = chain[i] /\ f.type = "SIGNED_BY"
      BY <3>2 DEF Into, Wanted
    <3>4. e.to = chain[i + 1]
      BY <1>6, <1>7, <2>1, <3>3
    <3> QED
      BY <3>1, <3>4 DEF Range
  <2>4. CASE i = L
    <3>1. SignedBy(chain[L]) # {}
      BY <2>1, <2>2, <2>4 DEF SignedBy, Leaving, Edges
    <3>2. ~ NotYet(Issuer(chain[L]))
      BY <1>10, <3>1 DEF ChainEnds
    <3>3. /\ FirstOf(graph, SignedBy(chain[L])) \in Edges(graph)
          /\ FirstOf(graph, SignedBy(chain[L])).from = chain[L]
          /\ FirstOf(graph, SignedBy(chain[L])).type = "SIGNED_BY"
      BY <1>8, <3>1, FirstLeaves DEF SignedBy
    <3>4. Issuer(chain[L]) = e.to
      BY <1>6, <1>7, <2>1, <2>4, <3>3 DEF Issuer
    <3> QED
      BY <3>2, <3>4 DEF NotYet, Range
  <2> QED
    BY <2>3, <2>4
<1> QED
    BY <1>4, <1>6, <1>11, <1>12

-----------------------------------------------------------------------------
(* What the answers are worth is decided by what was asked.                 *)
AnswerInv ==
    /\ query # "none" => graph \in Snapshots /\ start \in DOMAIN graph.nodes
    /\ query = "path" => found = EvidencePath(graph, start)
    /\ query = "chain" /\ done => ChainEnds

(* Every request and every turn keeps it.                                   *)
LEMMA AnswerKeeps ==
    ASSUME AnswerInv, [GraphNext]_graphVars
    PROVE  AnswerInv'
<1>1. CASE AskRadius
    BY <1>1 DEF AskRadius, Asked, AnswerInv
<1>2. CASE AskChain
    BY <1>2 DEF AskChain, Asked, AnswerInv
<1>3. CASE AskNeighbors
    BY <1>3 DEF AskNeighbors, Asked, AnswerInv
<1>4. CASE AskPath
  <2>1. PICK g \in Snapshots : \E n \in DOMAIN g.nodes :
            /\ graph' = g /\ start' = n /\ query' = "path" /\ found' = EvidencePath(g, n)
    BY <1>4 DEF AskPath, Asked
  <2> QED
    BY <2>1 DEF AnswerInv
<1>5. CASE Visit
    BY <1>5 DEF Visit, AnswerInv
<1>6. CASE RadiusEnds
    BY <1>6 DEF RadiusEnds, AnswerInv
<1>7. CASE Follow
  <2>1. UNCHANGED <<graph, query, start, found>> /\ query = "chain"
    BY <1>7 DEF Follow
  <2>2. done' => UNCHANGED chain /\ ChainEnds
    BY <1>7 DEF Follow, ChainEnds
  <2>3. done' => ChainEnds'
    BY <2>1, <2>2 DEF ChainEnds, SignedBy, Issuer, NotYet
  <2> QED
    BY <2>1, <2>3 DEF AnswerInv
<1>8. CASE UNCHANGED graphVars
    BY <1>8 DEF graphVars, AnswerInv, ChainEnds, SignedBy, Issuer, NotYet
<1> QED
    BY <1>1, <1>2, <1>3, <1>4, <1>5, <1>6, <1>7, <1>8 DEF GraphNext, Walk

(* Every snapshot of project_stage2_fixtures.py: both ends of every edge    *)
(* are in it, whatever is compromised its asset is affected, a finding of a *)
(* service is located at it, and a trust chain has every certificate listed; *)
(* for every host, service and chain, however long.                         *)
THEOREM SnapshotsAreWhole ==
    ASSUME SnapshotAssumption, ProjectionAssumption
    PROVE  GraphSpec => []ProjectionIsWhole
<1>1. GraphInit => AnswerInv
    BY DEF GraphInit, AnswerInv
<1>2. AnswerInv /\ [GraphNext]_graphVars => AnswerInv'
    BY AnswerKeeps
<1>3. GraphInv /\ AnswerInv => ProjectionIsWhole
  <2> SUFFICES ASSUME GraphInv, AnswerInv, graph \in Projections
               PROVE  /\ SnapshotIsClosed /\ RadiusReachesAsset
                      /\ ServiceFindingsAreLocated /\ ChainIsWhole
    BY DEF ProjectionIsWhole
  <2>1. SnapshotIsClosed
    BY ClosedOnce
  <2>2. RadiusReachesAsset
    BY ReachesAsset DEF AnswerInv, RadiusReachesAsset
  <2>3. ServiceFindingsAreLocated
    BY FindingsAreLocated DEF AnswerInv, ServiceFindingsAreLocated, GraphInv, SnapshotAssumption
  <2>4. ChainIsWhole
    BY ChainHasAll DEF AnswerInv
  <2> QED
    BY <2>1, <2>2, <2>3, <2>4
<1> QED
    BY <1>1, <1>2, <1>3, GraphInductive, PTL DEF GraphSpec

-----------------------------------------------------------------------------
(* The plan *)

(* The numbers in a risk record.                                            *)
LEMMA RiskFields ==
    ASSUME NEW r \in RiskRecord
    PROVE  /\ r.score \in Int /\ r.deps \in Int /\ r.confidence \in Int
           /\ r.urgency \in Int /\ r.exposure \in Int /\ r.impact \in Int
           /\ r.blocked \in BOOLEAN
<1>1. r.score \in Int
  <2>1. r.score \in Nat
      BY DEF RiskRecord
  <2> QED
      BY <2>1
<1>2. r.deps \in Int
  <2>1. r.deps \in Nat
      BY DEF RiskRecord
  <2> QED
      BY <2>1
<1>3. r.confidence \in Int
  <2>1. r.confidence \in -1 .. 100
      BY DEF RiskRecord
  <2> QED
      BY <2>1
<1>4. r.urgency \in Int
  <2>1. r.urgency \in 0 .. 100
      BY DEF RiskRecord
  <2> QED
      BY <2>1
<1>5. r.exposure \in Int
  <2>1. r.exposure \in 0 .. 100
      BY DEF RiskRecord
  <2> QED
      BY <2>1
<1>6. r.impact \in Int
  <2>1. r.impact \in 0 .. 100
      BY DEF RiskRecord
  <2> QED
      BY <2>1
<1>7. r.blocked \in BOOLEAN
    BY DEF RiskRecord
<1> QED
    BY <1>1, <1>2, <1>3, <1>4, <1>5, <1>6, <1>7

(* Of the risks of one name, at most one is kept.                           *)
LEMMA KeptAlone ==
    ASSUME PlanAssumption, NEW list \in Seq(Risks), NEW n,
           NEW i \in Kept(list, n), NEW j \in Kept(list, n)
    PROVE  i = j
<1>1. i \in 1 .. Len(list) /\ j \in 1 .. Len(list)
    BY DEF Kept, AllOf
<1>2. list[i].score \in Int /\ list[j].score \in Int
  <2>1. list[i] \in RiskRecord /\ list[j] \in RiskRecord
      BY <1>1 DEF PlanAssumption
  <2> QED
      BY <2>1, RiskFields
<1>3. /\ list[j].score < list[i].score \/ (list[j].score = list[i].score /\ j >= i)
      /\ list[i].score < list[j].score \/ (list[i].score = list[j].score /\ i >= j)
    BY DEF Kept
<1> QED
    BY <1>1, <1>2, <1>3

(* A plan has one item of a name, in one wave.                              *)
LEMMA PlanHasNameOnce ==
    ASSUME PlanAssumption, NEW list \in Seq(Risks), NEW types,
           NEW v \in Waves, NEW w \in Waves,
           NEW a \in Plan(list, types)[v], NEW b \in Plan(list, types)[w], a.asset = b.asset
    PROVE  v = w /\ a = b
<1>1. PICK m \in Names, i \in DOMAIN list :
          i \in Kept(list, m) /\ WaveOf(list[i]) = v /\ a = Item(list[i], types[list[i].name])
    BY DEF Plan, Kept, AllOf
<1>2. PICK n \in Names, j \in DOMAIN list :
          j \in Kept(list, n) /\ WaveOf(list[j]) = w /\ b = Item(list[j], types[list[j].name])
    BY DEF Plan, Kept, AllOf
<1>3. list[i].name = m /\ list[j].name = n
    BY <1>1, <1>2 DEF Kept, AllOf
<1>4. a.asset = list[i].name /\ b.asset = list[j].name
    BY <1>1, <1>2 DEF Item
<1>5. i = j
    BY <1>1, <1>2, <1>3, <1>4, KeptAlone
<1> QED
    BY <1>1, <1>2, <1>5

-----------------------------------------------------------------------------
(* Types *)

(* The boosts of a risk are numbers.                                        *)
LEMMA NumbersOfSteps ==
    ASSUME NEW r
    PROVE  /\ Confidence(r) \in Int
           /\ \A set : \A points \in Nat : Worth(set, r, points) \in Int
BY DEF Confidence, Worth

LEMMA RawPriorityIsANumber == ASSUME NEW r \in RiskRecord PROVE RawPriority(r) \in Int
<1>1. /\ Worth(HighSignals, r, 1500) \in Int /\ Worth(MediumSignals, r, 500) \in Int
      /\ Worth(HighWindows, r, 1500) \in Int /\ Worth(MediumWindows, r, 500) \in Int
      /\ Confidence(r) \in Int
    BY NumbersOfSteps
<1>2. 150 * AtMost(r.deps, 10) \in Int
    BY RiskFields DEF AtMost
<1>3. r.score + 10 * r.urgency + 5 * r.exposure + 5 * r.impact \in Int
    BY RiskFields
<1>4. (IF r.blocked THEN 800 ELSE 0) \in Int
    OBVIOUS
<1> QED
    BY <1>1, <1>2, <1>3, <1>4 DEF RawPriority

LEMMA PriorityIsBounded == ASSUME NEW r \in RiskRecord PROVE Priority(r) \in 0 .. MaxPriority
<1>1. RawPriority(r) \in Int
    BY RawPriorityIsANumber
<1>2. ASSUME NEW k \in Int, NEW m \in Nat
      PROVE  (IF k < 0 THEN 0 ELSE IF k > m THEN m ELSE k) \in 0 .. m
    OBVIOUS
<1>0. MaxPriority \in Nat
    BY DEF MaxPriority
<1> DEFINE k == RawPriority(r)
<1>3. Priority(r) = IF k < 0 THEN 0 ELSE IF k > MaxPriority THEN MaxPriority ELSE k
    BY DEF Priority, AtMost
<1>4. k \in Int
    BY <1>1
<1> HIDE DEF k
<1> QED
    BY <1>0, <1>2, <1>3, <1>4

LEMMA ActionType == ASSUME NEW r \in RiskRecord, NEW t PROVE Action(r, t) \in Actions
BY DEF Action, Actions

LEMMA PlanType ==
    ASSUME PlanAssumption, NEW list \in Seq(Risks), NEW types
    PROVE  Plan(list, types) \in [Waves -> SUBSET Items]
<1> SUFFICES ASSUME NEW i \in DOMAIN list
             PROVE  Item(list[i], types[list[i].name]) \in Items
    BY DEF Plan, Kept, AllOf
<1>1. list[i] \in Risks /\ list[i] \in RiskRecord
    BY DEF PlanAssumption
<1>2. list[i].name \in Names
    BY <1>1 DEF RiskRecord
<1> QED
    BY <1>1, <1>2, ActionType DEF Item, Items

(* A post is an item of the wave it names.                                  *)
LEMMA PostFields ==
    ASSUME NEW plan, NEW list, NEW p \in Posts(plan, list)
    PROVE  /\ p[1] \in DOMAIN list /\ p[2] \in plan[list[p[1]]]
           /\ p = <<p[1], p[2]>>
BY DEF Posts

LEMMA Typed ==
    ASSUME TypeOK
    PROVE  /\ inserting \in Seq(Exporters \X Tasks) /\ tasks \in Seq(Tasks)
           /\ \A x \in Exporters :
                 /\ asked[x] \in Seq(Waves) /\ waves[x] \in [Waves -> SUBSET Items]
                 /\ \A k \in DOMAIN asked[x] : asked[x][k] \in Waves
                 /\ todo[x] \subseteq Posts(waves[x], asked[x])
<1>1. \A x \in Exporters : asked[x] \in Seq(Waves) /\ waves[x] \in [Waves -> SUBSET Items]
    BY DEF TypeOK
<1>2. ASSUME NEW list \in Seq(Waves), NEW k \in DOMAIN list PROVE list[k] \in Waves
    BY <1>2
<1> QED
    BY <1>1, <1>2 DEF TypeOK

LEMMA TaskType ==
    ASSUME TypeOK, NEW x \in Exporters, NEW p \in Posts(waves[x], asked[x])
    PROVE  /\ asked[x][p[1]] \in Waves /\ p[2] \in Items
           /\ TaskOf(asked[x][p[1]], p[2]) \in Tasks
<1>1. p[1] \in DOMAIN asked[x] /\ p[2] \in waves[x][asked[x][p[1]]]
    BY PostFields
<1>2. asked[x][p[1]] \in Waves
    BY <1>1, Typed
<1>3. p[2] \in Items
    BY <1>1, <1>2, Typed
<1> QED
    BY <1>2, <1>3 DEF TaskOf, Items, Tasks

LEMMA PriorityIsANumber == ASSUME NEW r \in RiskRecord PROVE Priority(r) \in Int
BY RawPriorityIsANumber DEF Priority, AtMost, MaxPriority

LEMMA PlannedPriority ==
    ASSUME PlanAssumption, TypeOK, NEW x \in Exporters, NEW p \in Posts(waves[x], asked[x])
    PROVE  Priority(p[2].risk) \in Int
<1>1. p[2].risk \in RiskRecord
    BY TaskType DEF Items, PlanAssumption
<1> QED
    BY <1>1, PriorityIsANumber

LEMMA NotEmpty == ASSUME NEW s, Len(s) = 1 PROVE s # <<>>
OBVIOUS

(* What is left of a sequence when its i-th element is taken out.           *)
LEMMA RemoveAtIsTheRest ==
    ASSUME NEW S, NEW s \in Seq(S), NEW i \in 1 .. Len(s)
    PROVE  /\ RemoveAt(s, i) \in Seq(S)
           /\ Len(RemoveAt(s, i)) = Len(s) - 1
           /\ \A j \in 1 .. Len(s) - 1 :
                 RemoveAt(s, i)[j] = IF j < i THEN s[j] ELSE s[j + 1]
<1> DEFINE a == SubSeq(s, 1, i - 1)
           b == SubSeq(s, i + 1, Len(s))
<1>1. a \in Seq(S) /\ Len(a) = i - 1 /\ \A j \in 1 .. i - 1 : a[j] = s[j]
    BY SubSeqProperties
<1>2. b \in Seq(S) /\ Len(b) = Len(s) - i /\ \A j \in 1 .. Len(s) - i : b[j] = s[i + j]
    BY SubSeqProperties
<1>3. RemoveAt(s, i) = a \o b
    BY DEF RemoveAt
<1> HIDE DEF a, b
<1>4. a \o b \in Seq(S) /\ Len(a \o b) = Len(s) - 1
  <2>1. Len(a \o b) = Len(a) + Len(b) /\ a \o b \in Seq(S)
      BY <1>1, <1>2, ConcatProperties
  <2>2. Len(s) \in Nat
      BY LenProperties
  <2> QED
      BY <1>1, <1>2, <2>1, <2>2
<1>5. ASSUME NEW j \in 1 .. Len(s) - 1
      PROVE  (a \o b)[j] = IF j < i THEN s[j] ELSE s[j + 1]
  <2>1. CASE j < i
      BY <1>1, <1>2, <2>1, ConcatProperties
  <2>2. CASE ~ (j < i)
    <3>1. (a \o b)[j] = b[j - (i - 1)] /\ j - (i - 1) \in 1 .. Len(s) - i
        BY <1>1, <1>2, <2>2, ConcatProperties
    <3> QED
        BY <1>2, <2>2, <3>1
  <2> QED
      BY <2>1, <2>2
<1> QED
    BY <1>3, <1>4, <1>5

-----------------------------------------------------------------------------
(* What one exporter relies on *)

InTable(table, u) == \E i \in DOMAIN table : table[i] = u

Filed(x) ==
    pc[x] \in {"post", "wait"} =>
        \A p \in Posts(waves[x], asked[x]) \ todo[x] :
            \/ InTable(tasks, TaskOf(asked[x][p[1]], p[2]))
            \/ \E i \in DOMAIN inserting :
                  Awaited(x, i) /\ inserting[i][2] = TaskOf(asked[x][p[1]], p[2])

LEMMA FoundIsHas == \A u : Found(u) <=> InTable(tasks, u)
BY DEF Found, InTable, SameTask

LEMMA AllAreFiled == NothingIsDropped <=> \A x \in Exporters : Filed(x)
BY FoundIsHas, Zenon DEF NothingIsDropped, Filed

LEMMA AllAreFiledThen == (\A x \in Exporters : Filed(x)') => NothingIsDropped'
<1>1. \A u : Found(u)' <=> InTable(tasks', u)
    BY DEF Found, InTable, SameTask
<1> QED
    BY <1>1, Zenon DEF NothingIsDropped, Filed

(* A task that is in the table stays there.                                 *)
LEMMA FoundStays ==
    ASSUME NEW S, NEW table \in Seq(S), NEW t \in S
    PROVE  /\ \A u : InTable(table, u) => InTable(Append(table, t), u)
           /\ InTable(Append(table, t), t)
           /\ Append(table, t) \in Seq(S)
<1> DEFINE longer == Append(table, t)
<1>1. /\ longer \in Seq(S) /\ Len(longer) = Len(table) + 1
      /\ \A i \in 1 .. Len(table) : longer[i] = table[i]
      /\ longer[Len(table) + 1] = t
    BY AppendProperties
<1>2. DOMAIN table = 1 .. Len(table) /\ DOMAIN longer = 1 .. Len(table) + 1 /\ Len(table) \in Nat
    BY <1>1
<1> HIDE DEF longer
<1>3. ASSUME NEW u, InTable(table, u) PROVE InTable(longer, u)
  <2>1. PICK i \in DOMAIN table : table[i] = u
      BY <1>3 DEF InTable
  <2>2. i \in DOMAIN longer /\ longer[i] = table[i]
      BY <1>1, <1>2
  <2> QED
      BY <2>1, <2>2 DEF InTable
<1>4. InTable(longer, t)
    BY <1>1, <1>2 DEF InTable
<1> QED
    BY <1>1, <1>3, <1>4 DEF longer

(* Taking a request out leaves what another exporter waits for.             *)
LEMMA AwaitedStays ==
    ASSUME TypeOK, NEW i \in DOMAIN inserting, inserting' = RemoveAt(inserting, i),
           NEW y \in Exporters, pc'[y] = pc[y], NEW m \in DOMAIN inserting, Awaited(y, m), m # i
    PROVE  \E j \in DOMAIN inserting' : Awaited(y, j)' /\ inserting'[j] = inserting[m]
<1>1. /\ inserting' \in Seq(Exporters \X Tasks) /\ Len(inserting') = Len(inserting) - 1
      /\ \A j \in 1 .. Len(inserting) - 1 :
            inserting'[j] = IF j < i THEN inserting[j] ELSE inserting[j + 1]
  <2>1. inserting \in Seq(Exporters \X Tasks) /\ i \in 1 .. Len(inserting)
      BY DEF TypeOK
  <2> QED
      BY <2>1, RemoveAtIsTheRest
<1>2. /\ i \in 1 .. Len(inserting) /\ m \in 1 .. Len(inserting) /\ Len(inserting) \in Nat
      /\ DOMAIN inserting' = 1 .. Len(inserting) - 1
    BY <1>1 DEF TypeOK
<1>3. /\ pc[y] = "wait" /\ inserting[m][1] = y
      /\ \A j \in 1 .. Len(inserting) : inserting[j][1] = y => j <= m
    BY SMTT(30), <1>2 DEF Awaited, TypeOK
<1> DEFINE j == IF m < i THEN m ELSE m - 1
<1>4. j \in DOMAIN inserting' /\ inserting'[j] = inserting[m]
    BY <1>1, <1>2
<1>5. ASSUME NEW k \in DOMAIN inserting', inserting'[k][1] = y PROVE k <= j
  <2>1. CASE k < i
    <3>1. k \in 1 .. Len(inserting) - 1 /\ k \in 1 .. Len(inserting)
        BY <1>2
    <3>2. inserting'[k] = inserting[k]
        BY <1>1, <1>2, <2>1, <3>1
    <3> QED
        BY <1>2, <1>3, <1>5, <2>1, <3>1, <3>2
  <2>2. CASE ~ (k < i)
    <3>1. inserting'[k] = inserting[k + 1] /\ k + 1 \in 1 .. Len(inserting)
        BY <1>1, <1>2, <2>2
    <3> QED
        BY <1>2, <1>3, <1>5, <2>2, <3>1
  <2> QED
      BY <2>1, <2>2
<1>6. Awaited(y, j)'
    BY <1>3, <1>4, <1>5 DEF Awaited
<1> QED
    BY <1>4, <1>6

(* An exporter that neither moves nor loses sight of its request.           *)
LEMMA FiledStays ==
    ASSUME NEW y \in Exporters, Filed(y),
           pc'[y] \in {"post", "wait"} => pc[y] \in {"post", "wait"},
           UNCHANGED <<waves[y], asked[y], todo[y]>>,
           \A u : InTable(tasks, u) => InTable(tasks', u),
           \A m \in DOMAIN inserting : Awaited(y, m) =>
               \/ InTable(tasks', inserting[m][2])
               \/ \E j \in DOMAIN inserting' : Awaited(y, j)' /\ inserting'[j][2] = inserting[m][2]
    PROVE  Filed(y)'
<1> SUFFICES ASSUME pc'[y] \in {"post", "wait"}, NEW p \in Posts(waves[y], asked[y]) \ todo[y]
             PROVE  \/ InTable(tasks', TaskOf(asked[y][p[1]], p[2]))
                    \/ \E j \in DOMAIN inserting' :
                          Awaited(y, j)' /\ inserting'[j][2] = TaskOf(asked[y][p[1]], p[2])
    BY DEF Filed
<1>1. \/ InTable(tasks, TaskOf(asked[y][p[1]], p[2]))
      \/ \E i \in DOMAIN inserting :
            Awaited(y, i) /\ inserting[i][2] = TaskOf(asked[y][p[1]], p[2])
    BY DEF Filed
<1> QED
    BY <1>1

-----------------------------------------------------------------------------
(* The inductive invariant *)

LEMMA InitInv == ASSUME PlanAssumption, Init PROVE IInv
<1>1. TypeOK
  <2>1. WithinRange(NoPlan)
      BY DEF WithinRange, NoPlan
  <2>2. NoPlan \in [Waves -> SUBSET Items]
      BY DEF NoPlan
  <2>3. /\ <<>> \in Seq(Risks) /\ <<>> \in Seq(Tasks) /\ <<>> \in Seq(Waves)
        /\ <<>> \in Seq(Exporters \X Tasks)
      OBVIOUS
  <2> QED
      BY <2>1, <2>2, <2>3 DEF Init, TypeOK
<1>2. EachNameOnce /\ NothingIsDropped /\ SuccessIsFiled /\ MostUrgentFirst
    BY DEF Init, EachNameOnce, NothingIsDropped, SuccessIsFiled, MostUrgentFirst
<1>3. \A x \in Exporters : answer[x] = "none"
    BY DEF Init
<1> QED
    BY <1>1, <1>2, <1>3 DEF IInv

(* A step that leaves the exporters and the tasks alone.                    *)
LEMMA ExportsUntouched ==
    ASSUME IInv, UNCHANGED <<export, tasks, inserting>>,
           assets' \subseteq Names \X Types, risks' \in Seq(Risks)
    PROVE  IInv'
<1> USE DEF IInv, export
<1>1. TypeOK'
    BY DEF TypeOK
<1>2. EachNameOnce' /\ MostUrgentFirst'
    BY DEF EachNameOnce, MostUrgentFirst
<1>3. SuccessIsFiled'
    BY DEF SuccessIsFiled, Found
<1>4. NothingIsDropped'
    BY DEF NothingIsDropped, Found, Awaited
<1> QED
    BY <1>1, <1>2, <1>3, <1>4

LEMMA AddRiskKeeps == ASSUME IInv, NEW r \in Risks, AddRisk(r) PROVE IInv'
<1>1. risks' \in Seq(Risks)
  <2>1. risks' = <<r>> \o risks
      BY DEF AddRisk
  <2>2. <<r>> \in Seq(Risks)
      OBVIOUS
  <2> QED
      BY <2>1, <2>2, ConcatProperties DEF IInv, TypeOK
<1> QED
    BY <1>1, ExportsUntouched DEF AddRisk, IInv, TypeOK

LEMMA AddAssetKeeps ==
    ASSUME IInv, NEW n \in Names, NEW t \in Types, AddAsset(n, t) PROVE IInv'
BY ExportsUntouched DEF AddAsset, IInv, TypeOK

LEMMA ReadAssetsKeeps ==
    ASSUME PlanAssumption, IInv, NEW x \in Exporters, ReadAssets(x) PROVE IInv'
<1> USE DEF IInv
<1>1. PICK list \in Requests, f \in [Names -> Types \union {"unknown"}] :
          asked' = [asked EXCEPT ![x] = list] /\ type' = [type EXCEPT ![x] = f]
    BY DEF ReadAssets
<1>2. /\ pc' = [pc EXCEPT ![x] = "read"]
      /\ waves' = [waves EXCEPT ![x] = NoPlan]
      /\ answer' = [answer EXCEPT ![x] = "none"]
      /\ todo' = [todo EXCEPT ![x] = {}]
      /\ UNCHANGED <<assets, risks, tasks, inserting>>
    BY DEF ReadAssets, stored
<1>3. /\ waves'[x] = NoPlan /\ todo'[x] = {} /\ pc'[x] = "read" /\ answer'[x] = "none"
      /\ asked'[x] = list
      /\ \A y \in Exporters \ {x} : UNCHANGED <<pc[y], waves[y], todo[y], asked[y], answer[y]>>
    BY <1>1, <1>2 DEF TypeOK
<1>4. TypeOK'
  <2>1. list \in Seq(Waves)
      BY DEF PlanAssumption
  <2>2. /\ pc' \in [Exporters -> {"idle", "read", "post", "wait"}]
        /\ type' \in [Exporters -> [Names -> Types \union {"unknown"}]]
        /\ asked' \in [Exporters -> Seq(Waves)]
        /\ answer' \in [Exporters -> {"none", "ok", "failed"}]
        /\ DOMAIN todo' = Exporters
      BY <1>1, <1>2, <2>1 DEF TypeOK
  <2>3. waves' \in [Exporters -> [Waves -> SUBSET Items]]
      BY <1>2 DEF TypeOK, NoPlan
  <2>4. \A y \in Exporters : todo'[y] \subseteq Posts(waves'[y], asked'[y])
      BY <1>3 DEF TypeOK
  <2>5. \A y \in Exporters : WithinRange(waves'[y])
    <3>1. WithinRange(NoPlan)
        BY DEF WithinRange, NoPlan
    <3> QED
        BY <1>3, <3>1 DEF TypeOK
  <2> QED
      BY <1>2, <2>2, <2>3, <2>4, <2>5 DEF TypeOK
<1>5. EachNameOnce'
    BY <1>3 DEF EachNameOnce
<1>6. SuccessIsFiled'
    BY <1>2, <1>3 DEF SuccessIsFiled, Found
<1>7. MostUrgentFirst'
    BY <1>3 DEF MostUrgentFirst
<1>8. NothingIsDropped'
    BY <1>2, <1>3 DEF NothingIsDropped, Found, Awaited
<1>9. \A y \in Exporters : answer'[y] = "none" \/ pc'[y] = "idle"
    BY <1>3
<1> QED
    BY <1>4, <1>5, <1>6, <1>7, <1>8, <1>9

LEMMA ReadRisksKeeps ==
    ASSUME PlanAssumption, IInv, NEW x \in Exporters, ReadRisks(x)
    PROVE  IInv'
<1> USE DEF IInv
<1> DEFINE plan == Plan(risks, type[x])
<1>1. /\ pc[x] = "read"
      /\ pc' = [pc EXCEPT ![x] = "post"]
      /\ waves' = [waves EXCEPT ![x] = plan]
      /\ todo' = [todo EXCEPT ![x] = Posts(plan, asked[x])]
      /\ UNCHANGED <<assets, risks, tasks, type, asked, inserting, answer>>
    BY DEF ReadRisks, stored
<1>2. plan \in [Waves -> SUBSET Items]
    BY PlanType DEF TypeOK
<1>3. /\ waves'[x] = plan /\ todo'[x] = Posts(plan, asked[x])
      /\ \A y \in Exporters \ {x} : UNCHANGED <<pc[y], waves[y], todo[y]>>
    BY <1>1 DEF TypeOK
<1>4. TypeOK'
  <2>1. /\ pc' \in [Exporters -> {"idle", "read", "post", "wait"}]
        /\ waves' \in [Exporters -> [Waves -> SUBSET Items]]
        /\ DOMAIN todo' = Exporters
    <3> HIDE DEF plan
    <3> QED
        BY <1>1, <1>2 DEF TypeOK
  <2>2. \A y \in Exporters : todo'[y] \subseteq Posts(waves'[y], asked'[y])
      BY <1>1, <1>3 DEF TypeOK
  <2>3. ASSUME NEW y \in Exporters PROVE WithinRange(waves'[y])
    <3>1. waves'[y] \in [Waves -> SUBSET Items]
        BY <2>1
    <3>2. ASSUME NEW w \in Waves, NEW item \in waves'[y][w] PROVE item.risk \in RiskRecord
        BY <3>1 DEF Items, PlanAssumption
    <3> QED
        BY <3>2, PriorityIsBounded DEF WithinRange
  <2> QED
      BY <1>1, <2>1, <2>2, <2>3 DEF TypeOK
<1>5. EachNameOnce'
  <2> SUFFICES ASSUME NEW y \in Exporters, pc'[y] \in {"post", "wait"},
                      NEW n \in Names, NEW v \in Waves, NEW w \in Waves,
                      NEW a \in waves'[y][v], NEW b \in waves'[y][w],
                      a.asset = n, b.asset = n
               PROVE  v = w /\ a = b
      BY DEF EachNameOnce
  <2>1. CASE y = x
      BY <1>3, <2>1, PlanHasNameOnce DEF TypeOK
  <2>2. CASE y # x
      BY <1>3, <2>2 DEF EachNameOnce
  <2> QED
      BY <2>1, <2>2
<1>6. SuccessIsFiled'
  <2>1. answer[x] = "none"
      BY <1>1
  <2> QED
      BY <1>1, <1>3, <2>1 DEF SuccessIsFiled, Found
<1> HIDE DEF plan
<1>7. MostUrgentFirst'
    BY <1>1, <1>3 DEF MostUrgentFirst
<1>8. NothingIsDropped'
    BY <1>1, <1>3 DEF NothingIsDropped, Found, Awaited
<1>9. \A y \in Exporters : answer'[y] = "none" \/ pc'[y] = "idle"
    BY <1>1, <1>3
<1> QED
    BY <1>4, <1>5, <1>6, <1>7, <1>8, <1>9

LEMMA PostKeeps == ASSUME PlanAssumption, IInv, NEW x \in Exporters, Post(x) PROVE IInv'
<1> USE DEF IInv
<1>1. PICK p \in Due(todo[x]) :
          LET u == TaskOf(asked[x][p[1]], p[2])
          IN /\ todo' = [todo EXCEPT ![x] = Rest(todo[x], p)]
             /\ \/ Found(u) /\ UNCHANGED <<pc, inserting>>
                \/ /\ inserting' = Append(inserting, <<x, u>>)
                   /\ pc' = [pc EXCEPT ![x] = "wait"]
    BY DEF Post
<1> DEFINE u == TaskOf(asked[x][p[1]], p[2])
<1>2. /\ pc[x] = "post"
      /\ UNCHANGED <<assets, risks, tasks, type, waves, asked, answer>>
    BY DEF Post, stored
<1>3. p \in todo[x] /\ p \in Posts(waves[x], asked[x])
    BY DEF Due, TypeOK
<1>4. /\ todo'[x] = todo[x] \ {p}
      /\ \A y \in Exporters \ {x} : todo'[y] = todo[y] /\ pc'[y] = pc[y]
      /\ DOMAIN todo' = Exporters
      /\ pc' \in [Exporters -> {"idle", "read", "post", "wait"}]
      /\ pc'[x] \in {"post", "wait"}
    BY <1>1, <1>2 DEF Rest, TypeOK
<1>5. u \in Tasks
    BY <1>3, TaskType
<1>6. inserting' \in Seq(Exporters \X Tasks)
  <2>1. CASE inserting' = inserting
      BY <2>1 DEF TypeOK
  <2>2. CASE inserting' = Append(inserting, <<x, u>>)
      BY <1>5, <2>2, AppendProperties DEF TypeOK
  <2> QED
      BY <1>1, <2>1, <2>2
<1>7. TypeOK'
  <2>1. \A y \in Exporters : todo'[y] \subseteq Posts(waves'[y], asked'[y])
      BY <1>2, <1>4 DEF TypeOK
  <2> QED
      BY <1>2, <1>4, <1>6, <2>1 DEF TypeOK
<1>8. EachNameOnce'
    BY <1>2, <1>4 DEF EachNameOnce
<1>9. SuccessIsFiled'
    BY <1>2 DEF SuccessIsFiled, Found
<1>10. MostUrgentFirst'
  <2> SUFFICES ASSUME NEW y \in Exporters, NEW a \in todo'[y],
                      NEW b \in Posts(waves'[y], asked'[y]) \ todo'[y], a[1] = b[1]
               PROVE  Priority(b[2].risk) >= Priority(a[2].risk)
      BY DEF MostUrgentFirst
  <2>1. CASE b \in todo[y]
    <3>1. y = x /\ b = p /\ a \in todo[x] /\ ~ Before(a[2], p[2])
        BY <1>4, <2>1 DEF Due
    <3>2. a \in Posts(waves[x], asked[x])
        BY <3>1 DEF TypeOK
    <3>4. Priority(a[2].risk) \in Int /\ Priority(b[2].risk) \in Int
        BY <1>3, <3>1, <3>2, PlannedPriority
    <3> QED
        BY <3>1, <3>4 DEF Before
  <2>2. CASE b \notin todo[y]
    <3>1. a \in todo[y] /\ b \in Posts(waves[y], asked[y]) \ todo[y]
        BY <1>2, <1>4, <2>2
    <3> QED
        BY <3>1 DEF MostUrgentFirst
  <2> QED
      BY <2>1, <2>2
<1>11. NothingIsDropped'
  <2>1. \A v : InTable(tasks, v) => InTable(tasks', v)
      BY <1>2
  <2>2. ASSUME NEW y \in Exporters, y # x PROVE Filed(y)'
    <3>1. Filed(y)
        BY AllAreFiled
    <3>2. ASSUME NEW m \in DOMAIN inserting, Awaited(y, m)
          PROVE  m \in DOMAIN inserting' /\ Awaited(y, m)' /\ inserting'[m][2] = inserting[m][2]
      <4>1. pc[y] = "wait" /\ inserting[m][1] = y
            /\ \A j \in DOMAIN inserting : inserting[j][1] = y => j <= m
          BY <3>2 DEF Awaited
      <4>2. CASE inserting' = inserting
          BY <1>4, <2>2, <4>1, <4>2 DEF Awaited
      <4>3. CASE inserting' = Append(inserting, <<x, u>>)
        <5>1. /\ Len(inserting') = Len(inserting) + 1 /\ Len(inserting) \in Nat
              /\ DOMAIN inserting = 1 .. Len(inserting)
              /\ DOMAIN inserting' = 1 .. Len(inserting) + 1
              /\ \A j \in 1 .. Len(inserting) : inserting'[j] = inserting[j]
              /\ inserting'[Len(inserting) + 1] = <<x, u>>
            BY <1>5, <1>6, <4>3, AppendProperties DEF TypeOK
        <5>2. \A j \in DOMAIN inserting' : inserting'[j][1] = y => j <= m
            BY <2>2, <4>1, <5>1
        <5> QED
            BY <1>4, <2>2, <4>1, <5>1, <5>2 DEF Awaited
      <4> QED
          BY <1>1, <4>2, <4>3
    <3> QED
        BY <1>2, <1>4, <2>1, <2>2, <3>1, <3>2, FiledStays
  <2>3. Filed(x)'
    <3> SUFFICES ASSUME NEW q \in Posts(waves[x], asked[x]) \ todo'[x]
                 PROVE  \/ InTable(tasks, TaskOf(asked[x][q[1]], q[2]))
                        \/ \E i \in DOMAIN inserting' :
                              Awaited(x, i)' /\ inserting'[i][2] = TaskOf(asked[x][q[1]], q[2])
        BY <1>2 DEF Filed
    <3>1. CASE q # p
      <4>1. \A i \in DOMAIN inserting : ~ Awaited(x, i)
          BY <1>2 DEF Awaited
      <4>2. Filed(x)
          BY AllAreFiled
      <4> QED
          BY <1>2, <1>4, <3>1, <4>1, <4>2 DEF Filed
    <3>2. CASE q = p
      <4>1. CASE Found(u)
          BY <3>2, <4>1, FoundIsHas
      <4>2. CASE /\ inserting' = Append(inserting, <<x, u>>)
                 /\ pc' = [pc EXCEPT ![x] = "wait"]
        <5> HIDE DEF u
        <5>1. /\ DOMAIN inserting' = 1 .. Len(inserting) + 1 /\ Len(inserting) \in Nat
              /\ inserting'[Len(inserting) + 1] = <<x, u>>
            BY <1>5, <1>6, <4>2, AppendProperties DEF TypeOK
        <5>2. pc'[x] = "wait"
            BY <4>2 DEF TypeOK
        <5> DEFINE last == Len(inserting) + 1
        <5>3. /\ last \in DOMAIN inserting' /\ inserting'[last][1] = x /\ inserting'[last][2] = u
              /\ \A j \in DOMAIN inserting' : j <= last
            BY <5>1
        <5> HIDE DEF last
        <5>4. \E i \in DOMAIN inserting' : Awaited(x, i)' /\ inserting'[i][2] = u
            BY <5>2, <5>3 DEF Awaited
        <5> QED
            BY <3>2, <5>4 DEF u
      <4> QED
          BY <1>1, <4>1, <4>2
    <3> QED
        BY <3>1, <3>2
  <2>4. \A y \in Exporters : Filed(y)'
      BY <2>2, <2>3
  <2> QED
      BY <2>4, AllAreFiledThen
<1>12. \A y \in Exporters : answer'[y] = "none" \/ pc'[y] = "idle"
    BY <1>2, <1>4
<1> QED
    BY <1>7, <1>8, <1>9, <1>10, <1>11, <1>12

(* The INSERT of a request, and an exporter that goes on or gives up.       *)
LEMMA InsertedKeeps ==
    ASSUME IInv, NEW i \in DOMAIN inserting,
           tasks' = Append(tasks, inserting[i][2]), inserting' = RemoveAt(inserting, i),
           UNCHANGED <<stored, type, waves, asked, todo>>,
           NEW x \in Exporters, x = inserting[i][1],
           \/ pc' = [pc EXCEPT ![x] = "post"] /\ UNCHANGED answer /\ Awaited(x, i)
           \/ pc' = [pc EXCEPT ![x] = "idle"] /\ answer' = [answer EXCEPT ![x] = "failed"]
           \/ pc' = pc /\ UNCHANGED answer /\ ~ Awaited(x, i)
    PROVE  IInv'
<1> USE DEF IInv
<1>1. inserting[i] \in Exporters \X Tasks
    BY DEF TypeOK
<1>2. /\ \A u : InTable(tasks, u) => InTable(tasks', u)
      /\ InTable(tasks', inserting[i][2])
      /\ tasks' \in Seq(Tasks)
  <2>1. inserting[i][2] \in Tasks /\ tasks \in Seq(Tasks)
      BY <1>1, Typed
  <2> QED
      BY <2>1, FoundStays
<1>3. inserting' \in Seq(Exporters \X Tasks)
  <2>1. inserting \in Seq(Exporters \X Tasks) /\ i \in 1 .. Len(inserting)
      BY DEF TypeOK
  <2> QED
      BY <2>1, RemoveAtIsTheRest
<1>4. /\ pc' \in [Exporters -> {"idle", "read", "post", "wait"}]
      /\ answer' \in [Exporters -> {"none", "ok", "failed"}]
      /\ \A y \in Exporters \ {x} : UNCHANGED <<pc[y], answer[y]>>
      /\ \A y \in Exporters : answer'[y] = "ok" => answer[y] = "ok"
      /\ \A y \in Exporters : pc'[y] \in {"post", "wait"} => pc[y] \in {"post", "wait"}
      /\ \A y \in Exporters : answer'[y] = "none" \/ pc'[y] = "idle"
    BY DEF TypeOK, Awaited
<1>5. TypeOK'
    BY <1>2, <1>3, <1>4 DEF TypeOK, stored
<1>6. EachNameOnce'
    BY <1>4 DEF EachNameOnce
<1>7. SuccessIsFiled'
  <2>1. \A u : Found(u) => Found(u)'
      BY <1>2, FoundIsHas DEF Found, InTable, SameTask
  <2> QED
      BY <1>4, <2>1 DEF SuccessIsFiled
<1>8. MostUrgentFirst'
    BY DEF MostUrgentFirst
<1>9. NothingIsDropped'
  <2>1. ASSUME NEW y \in Exporters PROVE Filed(y)'
    <3>1. Filed(y)
        BY AllAreFiled
    <3>2. CASE pc'[y] = pc[y]
      <4>1. ASSUME NEW m \in DOMAIN inserting, Awaited(y, m)
            PROVE  \/ InTable(tasks', inserting[m][2])
                   \/ \E j \in DOMAIN inserting' : Awaited(y, j)' /\ inserting'[j][2] = inserting[m][2]
        <5>1. CASE m = i
            BY <1>2, <5>1
        <5>2. CASE m # i
          <6>1. \E j \in DOMAIN inserting' : Awaited(y, j)' /\ inserting'[j] = inserting[m]
              BY <3>2, <4>1, <5>2, AwaitedStays
          <6> QED
              BY <6>1
        <5> QED
            BY <5>1, <5>2
      <4> QED
          BY <1>2, <3>1, <3>2, <4>1, FiledStays
    <3>3. CASE y = x /\ pc'[y] = "idle"
        BY <3>3 DEF Filed
    <3>4. CASE y = x /\ Awaited(x, i)
      <4>1. \A m \in DOMAIN inserting : Awaited(x, m) => m = i
          BY <3>4 DEF Awaited, TypeOK
      <4> QED
          BY <1>2, <1>4, <3>1, <3>4, <4>1, FiledStays
    <3>5. pc'[y] = pc[y] \/ (y = x /\ (pc'[y] = "idle" \/ Awaited(x, i)))
        BY DEF TypeOK
    <3> QED
        BY <3>2, <3>3, <3>4, <3>5
  <2> QED
      BY <2>1, AllAreFiledThen
<1> QED
    BY <1>4, <1>5, <1>6, <1>7, <1>8, <1>9

LEMMA InsertKeeps == ASSUME IInv, NEW i \in DOMAIN inserting, Insert(i) PROVE IInv'
<1> DEFINE x == inserting[i][1]
<1>1. x \in Exporters
  <2>1. inserting[i] \in Exporters \X Tasks
      BY DEF IInv, TypeOK
  <2> QED
      BY <2>1
<1>2. /\ tasks' = Append(tasks, inserting[i][2]) /\ inserting' = RemoveAt(inserting, i)
      /\ UNCHANGED <<stored, type, waves, asked, todo>>
      /\ \/ pc' = [pc EXCEPT ![x] = "post"] /\ UNCHANGED answer /\ Awaited(x, i)
         \/ pc' = pc /\ UNCHANGED answer /\ ~ Awaited(x, i)
    BY DEF Insert
<1> QED
    BY <1>1, <1>2, InsertedKeeps

(* An export that is answered and has left the tasks alone.                 *)
LEMMA ReplyKeeps ==
    ASSUME IInv, NEW x \in Exporters, NEW result \in {"ok", "failed"}, Reply(x, result),
           UNCHANGED <<stored, type, waves, asked, todo, tasks, inserting>>,
           result = "ok" => pc[x] = "post" /\ todo[x] = {}
    PROVE  IInv'
<1> USE DEF IInv
<1>1. /\ pc' \in [Exporters -> {"idle", "read", "post", "wait"}]
      /\ answer' \in [Exporters -> {"none", "ok", "failed"}]
      /\ pc'[x] = "idle" /\ answer'[x] = result
      /\ \A y \in Exporters \ {x} : UNCHANGED <<pc[y], answer[y]>>
    BY DEF Reply, TypeOK
<1>2. TypeOK'
    BY <1>1 DEF TypeOK, stored
<1>3. EachNameOnce'
    BY <1>1 DEF EachNameOnce
<1>4. MostUrgentFirst'
    BY DEF MostUrgentFirst
<1>5. SuccessIsFiled'
  <2>1. ASSUME result = "ok", NEW k \in DOMAIN asked[x], NEW item \in waves[x][asked[x][k]]
        PROVE  Found(TaskOf(asked[x][k], item))
    <3>1. <<k, item>> \in Posts(waves[x], asked[x])
        BY DEF Posts
    <3>2. \A i \in DOMAIN inserting : ~ Awaited(x, i)
        BY <2>1 DEF Awaited
    <3> DEFINE q == <<k, item>>
    <3>3. q[1] = k /\ q[2] = item
        OBVIOUS
    <3> HIDE DEF q
    <3>4. Found(TaskOf(asked[x][q[1]], q[2]))
        BY <2>1, <3>1, <3>2 DEF NothingIsDropped, q
    <3> QED
        BY <3>3, <3>4
  <2> QED
      BY <1>1, <2>1 DEF SuccessIsFiled, Found
<1>6. NothingIsDropped'
    BY <1>1 DEF NothingIsDropped, Found, Awaited
<1> QED
    BY <1>1, <1>2, <1>3, <1>4, <1>5, <1>6

LEMMA FailsKeeps == ASSUME IInv, NEW x \in Exporters, Finish(x) \/ Fails(x) PROVE IInv'
<1>1. CASE Finish(x)
    BY <1>1, ReplyKeeps DEF Finish
<1>2. CASE ReadFails(x) \/ PostFails(x) \/ TimesOut(x)
    BY <1>2, ReplyKeeps DEF ReadFails, PostFails, TimesOut, Fault
<1>3. CASE LoseAnswer(x)
    BY <1>3, InsertedKeeps DEF LoseAnswer, Fault, Reply
<1> QED
    BY <1>1, <1>2, <1>3 DEF Fails

LEMMA StepKeeps == ASSUME PlanAssumption, IInv, [Next]_vars PROVE IInv'
<1>1. ASSUME NEW n \in Names, NEW t \in Types, AddAsset(n, t) PROVE IInv'
    BY <1>1, AddAssetKeeps
<1>2. ASSUME NEW r \in Risks, AddRisk(r) PROVE IInv'
    BY <1>2, AddRiskKeeps
<1>3. ASSUME NEW x \in Exporters, ReadAssets(x) \/ Proceed(x) \/ Fails(x) PROVE IInv'
    BY <1>3, ReadAssetsKeeps, ReadRisksKeeps, PostKeeps, FailsKeeps DEF Proceed
<1>4. ASSUME NEW i \in DOMAIN inserting, Insert(i) PROVE IInv'
    BY <1>4, InsertKeeps
<1>5. CASE UNCHANGED vars
    BY <1>5, ExportsUntouched DEF vars, stored, IInv, TypeOK
<1> QED
    BY <1>1, <1>2, <1>3, <1>4, <1>5 DEF Next

(* IInv is inductive.                                                       *)
THEOREM Inductive == ASSUME PlanAssumption PROVE Spec => []IInv
<1>1. Init => IInv
    BY InitInv
<1>2. IInv /\ [Next]_vars => IInv'
    BY StepKeeps
<1> QED
    BY <1>1, <1>2, PTL DEF Spec

(* Whatever scans an asset got, a plan has it once (build_plan).            *)
THEOREM PlannedOnce == ASSUME PlanAssumption PROVE Spec => []EachNameOnce
<1>1. IInv => EachNameOnce
    BY DEF IInv
<1> QED
    BY <1>1, Inductive, PTL

(* Types, and every planned priority is within 0 and 100.                   *)
THEOREM PlanTypes == ASSUME PlanAssumption PROVE Spec => []TypeOK
<1>1. IInv => TypeOK
    BY DEF IInv
<1> QED
    BY <1>1, Inductive, PTL

(* A successful export has filed every item it was asked for, and what an   *)
(* export leaves unfiled of a wave is not more urgent than what it filed    *)
(* (export_tasks), however many exporters there are and whatever fails.     *)
THEOREM FilingIsInOrder == ASSUME PlanAssumption PROVE Spec => []ExportsFileInOrder
<1>1. IInv => ExportsFileInOrder
    BY DEF IInv, ExportsFileInOrder
<1> QED
    BY <1>1, Inductive, PTL

-----------------------------------------------------------------------------
(* One export at a time, whose requests are answered or refused *)

UniqueInv == TypeOK /\ OneUnderway /\ TasksAreUnique

(* The table stays without duplicates when a task is added that it lacks.   *)
LEMMA UniqueStays ==
    ASSUME TypeOK, TasksAreUnique, NEW u \in Tasks, ~ Found(u), tasks' = Append(tasks, u)
    PROVE  TasksAreUnique'
<1>1. /\ tasks \in Seq(Tasks) /\ Len(tasks) \in Nat
      /\ DOMAIN tasks = 1 .. Len(tasks) /\ DOMAIN tasks' = 1 .. Len(tasks) + 1
      /\ \A i \in 1 .. Len(tasks) : tasks'[i] = tasks[i]
      /\ tasks'[Len(tasks) + 1] = u
  <2>1. tasks \in Seq(Tasks)
      BY Typed
  <2> QED
      BY <2>1, AppendProperties
<1>2. \A i \in 1 .. Len(tasks) : tasks[i] # u
    BY <1>1 DEF Found, SameTask
<1> SUFFICES ASSUME NEW i \in DOMAIN tasks', NEW j \in DOMAIN tasks', tasks'[i] = tasks'[j]
             PROVE  i = j
    BY DEF TasksAreUnique
<1>3. CASE i \in 1 .. Len(tasks) /\ j \in 1 .. Len(tasks)
    BY <1>1, <1>3 DEF TasksAreUnique
<1>4. CASE i = Len(tasks) + 1 \/ j = Len(tasks) + 1
    BY <1>1, <1>2, <1>4
<1> QED
    BY <1>1, <1>3, <1>4

(* The INSERT of the request that is under way: its exporter waits for it,  *)
(* and none is left.                                                        *)
LEMMA OnlyOneIsInserted ==
    ASSUME UniqueInv, NEW i \in DOMAIN inserting, NEW x \in Exporters, inserting[i][1] = x,
           tasks' = Append(tasks, inserting[i][2]), inserting' = RemoveAt(inserting, i)
    PROVE  /\ pc[x] = "wait" /\ Awaited(x, i)
           /\ inserting' = <<>> /\ TasksAreUnique'
<1> USE DEF UniqueInv
<1>1. /\ Len(inserting) = 1 /\ i = 1 /\ DOMAIN inserting = {1}
      /\ inserting \in Seq(Exporters \X Tasks) /\ inserting[1] \in Exporters \X Tasks
  <2>1. inserting \in Seq(Exporters \X Tasks)
      BY Typed
  <2>2. Len(inserting) \in Nat /\ DOMAIN inserting = 1 .. Len(inserting)
      BY <2>1
  <2>3. Len(inserting) = 1 /\ i = 1
      BY <2>2 DEF OneUnderway
  <2> QED
      BY <2>1, <2>2, <2>3
<1>2. pc[x] = "wait"
    BY DEF OneUnderway
<1>3. inserting[1][2] \in Tasks
    BY <1>1
<1>4. Awaited(x, i)
    BY <1>1, <1>2 DEF Awaited
<1>5. inserting' = <<>>
  <2>1. inserting' \in Seq(Exporters \X Tasks) /\ Len(inserting') = 0
    <3>1. i \in 1 .. Len(inserting)
        BY <1>1
    <3>2. /\ RemoveAt(inserting, i) \in Seq(Exporters \X Tasks)
          /\ Len(RemoveAt(inserting, i)) = Len(inserting) - 1
        BY <1>1, <3>1, RemoveAtIsTheRest
    <3> QED
        BY <1>1, <3>2
  <2> QED
      BY <2>1, EmptySeq
<1>6. TasksAreUnique'
    BY <1>1, <1>3, UniqueStays DEF OneUnderway
<1> QED
    BY <1>2, <1>4, <1>5, <1>6

(* Nothing changes but who does something that is not waiting.              *)
LEMMA NoRequestKeepsUnique ==
    ASSUME UniqueInv, UNCHANGED <<tasks, inserting>>,
           \A x, y \in Exporters : pc'[x] # "idle" /\ pc'[y] # "idle" => x = y,
           \A x \in Exporters : pc'[x] = "wait" <=> pc[x] = "wait"
    PROVE  OneUnderway' /\ TasksAreUnique'
BY DEF UniqueInv, OneUnderway, TasksAreUnique, Found

(* A request that is answered, or whose answer is lost, leaves none.        *)
LEMMA NoneIsUnderway ==
    ASSUME UniqueInv, NEW x \in Exporters, pc[x] # "idle", NEW v \in {"post", "idle"},
           pc' = [pc EXCEPT ![x] = v], inserting' = <<>>
    PROVE  OneUnderway'
<1>1. \A y \in Exporters : pc[y] # "idle" => y = x
    BY DEF UniqueInv, OneUnderway
<1>2. \A y \in Exporters : pc'[y] # "wait" /\ (pc'[y] # "idle" => y = x)
    BY <1>1 DEF UniqueInv, TypeOK
<1>3. DOMAIN inserting' = {} /\ Len(inserting') = 0
    OBVIOUS
<1> QED
    BY <1>2, <1>3 DEF OneUnderway

LEMMA StillUndisturbed ==
    ASSUME [Next]_vars, ~ disturbed'
    PROVE  /\ ~ disturbed
           /\ \A x \in Exporters : ~ TimesOut(x)
           /\ \A x \in Exporters : ReadAssets(x) => \A y \in Exporters : pc[y] = "idle"
<1>1. ASSUME NEW n \in Names, NEW t \in Types, AddAsset(n, t) PROVE UNCHANGED disturbed
    BY <1>1 DEF AddAsset, trouble
<1>2. ASSUME NEW r \in Risks, AddRisk(r) PROVE UNCHANGED disturbed
    BY <1>2 DEF AddRisk, trouble
<1>3. ASSUME NEW x \in Exporters, ReadAssets(x)
      PROVE  disturbed' = (disturbed \/ \E y \in Exporters : pc[y] # "idle")
    BY <1>3 DEF ReadAssets
<1>4. ASSUME NEW x \in Exporters,
             Proceed(x) \/ ReadFails(x) \/ PostFails(x) \/ LoseAnswer(x)
      PROVE  UNCHANGED disturbed
    BY <1>4 DEF Proceed, ReadRisks, Post, Finish, ReadFails, PostFails, LoseAnswer, trouble
<1>5. ASSUME NEW x \in Exporters, TimesOut(x) PROVE FALSE
    BY <1>5 DEF TimesOut
<1>6. ASSUME NEW i \in DOMAIN inserting, Insert(i) PROVE UNCHANGED disturbed
    BY <1>6 DEF Insert, trouble
<1>7. ASSUME UNCHANGED vars PROVE UNCHANGED disturbed
    BY <1>7 DEF vars, trouble
<1>8. ~ disturbed
  <2>1. CASE UNCHANGED disturbed
      BY <2>1
  <2>2. CASE \E x \in Exporters : ReadAssets(x)
      BY <1>3, <2>2
  <2> QED
      BY <1>1, <1>2, <1>4, <1>5, <1>6, <1>7, <2>1, <2>2 DEF Next, Fails
<1> QED
    BY <1>3, <1>5, <1>8

LEMMA UniqueStep ==
    ASSUME UniqueInv, ~ disturbed', [Next]_vars
    PROVE  OneUnderway' /\ TasksAreUnique'
<1> USE DEF UniqueInv
<1>0. /\ DOMAIN pc = Exporters
      /\ \A x, y \in Exporters : pc[x] # "idle" /\ pc[y] # "idle" => x = y
    BY DEF TypeOK, OneUnderway
<1>1. CASE \/ \E n \in Names, t \in Types : AddAsset(n, t)
           \/ \E r \in Risks : AddRisk(r)
           \/ UNCHANGED vars
    BY <1>0, <1>1, NoRequestKeepsUnique DEF AddAsset, AddRisk, vars, export
<1>2. ASSUME NEW x \in Exporters, ReadAssets(x) PROVE OneUnderway' /\ TasksAreUnique'
  <2>1. \A y \in Exporters : pc[y] = "idle"
      BY <1>2, StillUndisturbed
  <2>2. UNCHANGED <<tasks, inserting>> /\ pc' = [pc EXCEPT ![x] = "read"]
      BY <1>2 DEF ReadAssets
  <2> QED
      BY <1>0, <2>1, <2>2, NoRequestKeepsUnique
<1>3. ASSUME NEW x \in Exporters, ReadRisks(x) \/ Finish(x) \/ ReadFails(x) \/ PostFails(x)
      PROVE  OneUnderway' /\ TasksAreUnique'
  <2>1. /\ UNCHANGED <<tasks, inserting>> /\ pc[x] # "wait" /\ pc[x] # "idle"
        /\ \E v \in {"post", "idle"} : pc' = [pc EXCEPT ![x] = v]
      BY <1>3 DEF ReadRisks, Finish, ReadFails, PostFails, Reply
  <2> QED
      BY <1>0, <2>1, NoRequestKeepsUnique
<1>4. ASSUME NEW x \in Exporters, Post(x) PROVE OneUnderway' /\ TasksAreUnique'
  <2>1. UNCHANGED tasks /\ pc[x] = "post"
      BY <1>4 DEF Post
  <2>2. CASE UNCHANGED <<pc, inserting>>
      BY <1>0, <2>1, <2>2, NoRequestKeepsUnique
  <2>3. CASE ~ UNCHANGED <<pc, inserting>>
    <3>1. PICK p \in Due(todo[x]) :
             /\ ~ Found(TaskOf(asked[x][p[1]], p[2]))
             /\ inserting' = Append(inserting, <<x, TaskOf(asked[x][p[1]], p[2])>>)
             /\ pc' = [pc EXCEPT ![x] = "wait"]
        BY <1>4, <2>3 DEF Post
    <3> DEFINE u == TaskOf(asked[x][p[1]], p[2])
    <3>2. inserting = <<>>
      <4>1. inserting \in Seq(Exporters \X Tasks)
          BY Typed
      <4>2. ASSUME NEW i \in DOMAIN inserting PROVE FALSE
        <5>1. inserting[i] \in Exporters \X Tasks
            BY <4>1
        <5>2. inserting[i][1] \in Exporters
            BY <5>1
        <5>3. pc[inserting[i][1]] = "wait"
            BY <5>2 DEF OneUnderway
        <5> QED
            BY <1>0, <2>1, <5>2, <5>3
      <4>3. Len(inserting) \in Nat /\ DOMAIN inserting = 1 .. Len(inserting)
          BY <4>1
      <4>4. Len(inserting) = 0
        <5>1. Len(inserting) # 0 => 1 \in DOMAIN inserting
            BY <4>3
        <5> QED
            BY <4>2, <5>1
      <4> QED
          BY <4>1, <4>4, EmptySeq
    <3>3. inserting' = <<<<x, u>>>>
      <4>1. inserting' = Append(<<>>, <<x, u>>)
          BY <3>1, <3>2
      <4> HIDE DEF u
      <4> QED
          BY <4>1
    <3> HIDE DEF u
    <3>4. /\ Len(inserting') = 1 /\ DOMAIN inserting' = {1}
          /\ inserting'[1][1] = x /\ inserting'[1][2] = u
        BY <3>3
    <3>5. \A y \in Exporters : /\ pc'[y] = "wait" <=> y = x
                               /\ pc'[y] # "idle" => y = x
        BY <1>0, <2>1, <3>1
    <3>6. ~ Found(u)
        BY <3>1 DEF u
    <3>7. \A i \in DOMAIN inserting' : ~ InTable(tasks', inserting'[i][2])
        BY <2>1, <3>4, <3>6, FoundIsHas
    <3>8. OneUnderway'
        BY <3>4, <3>5, <3>7 DEF OneUnderway, Found, InTable, SameTask
    <3> QED
        BY <2>1, <3>8 DEF TasksAreUnique
  <2> QED
      BY <2>2, <2>3
<1>5. ASSUME NEW x \in Exporters, LoseAnswer(x) PROVE OneUnderway' /\ TasksAreUnique'
  <2>1. PICK i \in DOMAIN inserting : /\ inserting[i][1] = x
                                      /\ tasks' = Append(tasks, inserting[i][2])
                                      /\ inserting' = RemoveAt(inserting, i)
      BY <1>5 DEF LoseAnswer
  <2>2. pc[x] = "wait" /\ pc' = [pc EXCEPT ![x] = "idle"]
      BY <1>5 DEF LoseAnswer, Reply
  <2>3. inserting' = <<>> /\ TasksAreUnique'
      BY <2>1, OnlyOneIsInserted
  <2> QED
      BY <2>2, <2>3, NoneIsUnderway
<1>6. ASSUME NEW i \in DOMAIN inserting, Insert(i) PROVE OneUnderway' /\ TasksAreUnique'
  <2>1. PICK x \in Exporters : inserting[i][1] = x
    <3>1. inserting \in Seq(Exporters \X Tasks)
        BY Typed
    <3>2. inserting[i] \in Exporters \X Tasks
        BY <3>1
    <3> QED
        BY <3>2
  <2>2. tasks' = Append(tasks, inserting[i][2]) /\ inserting' = RemoveAt(inserting, i)
      BY <1>6 DEF Insert
  <2>3. pc[x] = "wait" /\ Awaited(x, i) /\ inserting' = <<>> /\ TasksAreUnique'
      BY <2>1, <2>2, OnlyOneIsInserted
  <2>4. pc' = [pc EXCEPT ![x] = "post"]
      BY <1>6, <2>1, <2>3 DEF Insert
  <2> QED
      BY <2>3, <2>4, NoneIsUnderway
<1> QED
    BY <1>1, <1>2, <1>3, <1>4, <1>5, <1>6, StillUndisturbed DEF Next, Proceed, Fails

(* Clients that wait for each other and for the answers, and repeat the     *)
(* export after refusals and lost answers, never file a task twice          *)
(* (create_task): what is sought in one step and inserted in another stays  *)
(* right, since nobody else inserts in between.  With two exports at the    *)
(* same time, or one that gives up while workflow-service inserts, it does  *)
(* not hold.                                                                *)
THEOREM NothingIsFiledTwice == ASSUME PlanAssumption PROVE Spec => []RetriesFileOnce
<1>1. Init => RetriesFileOnce
  <2> SUFFICES ASSUME Init PROVE OneUnderway /\ TasksAreUnique
      BY InitInv DEF RetriesFileOnce
  <2>1. tasks = <<>> /\ inserting = <<>> /\ \A x \in Exporters : pc[x] = "idle"
      BY DEF Init
  <2>2. DOMAIN tasks = {} /\ DOMAIN inserting = {} /\ Len(inserting) = 0
      BY <2>1
  <2> QED
      BY <2>1, <2>2 DEF OneUnderway, TasksAreUnique
<1>2. RetriesFileOnce /\ [Next]_vars => RetriesFileOnce'
  <2> SUFFICES ASSUME RetriesFileOnce, [Next]_vars PROVE RetriesFileOnce'
      OBVIOUS
  <2>1. IInv'
      BY StepKeeps DEF RetriesFileOnce
  <2>2. ASSUME ~ disturbed' PROVE OneUnderway' /\ TasksAreUnique'
      BY <2>2, StillUndisturbed, UniqueStep DEF RetriesFileOnce, UniqueInv, IInv
  <2> QED
      BY <2>1, <2>2 DEF RetriesFileOnce
<1> QED
    BY <1>1, <1>2, PTL DEF Spec

-----------------------------------------------------------------------------
(* The direction of the plan *)

(* More evidence is worth no less.                                          *)
LEMMA WorthRises ==
    ASSUME NEW r, NEW q, q.evidence \subseteq r.evidence, NEW set, NEW points \in Nat
    PROVE  Worth(set, r, points) >= Worth(set, q, points)
BY DEF Worth

(* The sum of the boosts is no smaller for a risk that is no better.        *)
LEMMA RawPriorityRises ==
    ASSUME NEW r \in RiskRecord, NEW q \in RiskRecord, NoBetter(r, q)
    PROVE  /\ RawPriority(r) \in Int /\ RawPriority(q) \in Int
           /\ RawPriority(r) >= RawPriority(q)
<1> DEFINE W(x)     == Worth(HighSignals, x, 1500) + Worth(MediumSignals, x, 500)
                       + Worth(HighWindows, x, 1500) + Worth(MediumWindows, x, 500)
           Deps(x)  == 150 * AtMost(x.deps, 10)
           Block(x) == IF x.blocked THEN 800 ELSE 0
           Dims(x)  == x.score + 10 * x.urgency + 5 * x.exposure + 5 * x.impact
<1>1. W(r) \in Int /\ W(q) \in Int /\ W(r) >= W(q)
  <2>1. /\ Worth(HighSignals, r, 1500) >= Worth(HighSignals, q, 1500)
        /\ Worth(MediumSignals, r, 500) >= Worth(MediumSignals, q, 500)
        /\ Worth(HighWindows, r, 1500) >= Worth(HighWindows, q, 1500)
        /\ Worth(MediumWindows, r, 500) >= Worth(MediumWindows, q, 500)
      BY WorthRises DEF NoBetter
  <2>2. \A x \in {r, q} :
           /\ Worth(HighSignals, x, 1500) \in Int
           /\ Worth(MediumSignals, x, 500) \in Int
           /\ Worth(HighWindows, x, 1500) \in Int
           /\ Worth(MediumWindows, x, 500) \in Int
      BY NumbersOfSteps
  <2> HIDE DEF Deps, Block, Dims
  <2> QED
      BY <2>1, <2>2
<1>2. Deps(r) \in Int /\ Deps(q) \in Int /\ Deps(r) >= Deps(q)
    BY RiskFields DEF NoBetter, AtMost
<1>3. Block(r) \in Int /\ Block(q) \in Int /\ Block(r) >= Block(q)
    BY RiskFields DEF NoBetter
<1>4. Dims(r) \in Int /\ Dims(q) \in Int /\ Dims(r) >= Dims(q)
    BY RiskFields DEF NoBetter
<1>5. Confidence(r) \in Int /\ Confidence(r) = Confidence(q)
    BY NumbersOfSteps DEF NoBetter, Confidence
<1>6. /\ RawPriority(r) = Dims(r) + Confidence(r) + Deps(r) + Block(r) + W(r)
      /\ RawPriority(q) = Dims(q) + Confidence(q) + Deps(q) + Block(q) + W(q)
  <2>1. ASSUME NEW x \in {r, q}
        PROVE  RawPriority(x) = Dims(x) + Confidence(x) + Deps(x) + Block(x) + W(x)
    <3>1. /\ Worth(HighSignals, x, 1500) \in Int /\ Worth(MediumSignals, x, 500) \in Int
          /\ Worth(HighWindows, x, 1500) \in Int /\ Worth(MediumWindows, x, 500) \in Int
        BY NumbersOfSteps
    <3> QED
        BY <1>2, <1>3, <1>4, <1>5, <3>1 DEF RawPriority
  <2> QED
      BY <2>1
<1> HIDE DEF W, Deps, Block, Dims
<1> QED
    BY <1>1, <1>2, <1>3, <1>4, <1>5, <1>6

(* A risk that is no better is not put off.                                 *)
LEMMA NoBetterIsNoLater ==
    ASSUME NEW r \in RiskRecord, NEW q \in RiskRecord, NoBetter(r, q)
    PROVE  Rank(WaveOf(r)) <= Rank(WaveOf(q))
<1>1. Priority(r) \in Int /\ Priority(q) \in Int /\ Priority(r) >= Priority(q)
    BY RawPriorityRises DEF Priority, AtMost, MaxPriority
<1>2. Capped(q) => Capped(r)
    BY DEF Capped, NoBetter
<1>3. Rank("wave_1") = 1 /\ Rank("wave_2") = 2 /\ Rank("wave_3") = 3
    BY DEF Rank
<1> QED
    BY <1>1, <1>2, <1>3 DEF WaveOf

(* The wave of a name is that of the risk that is kept of it.               *)
LEMMA WaveOfTheKept ==
    ASSUME PlanAssumption, NEW list \in Seq(Risks), NEW n, NEW i \in Kept(list, n)
    PROVE  WaveIn(list, n) = WaveOf(list[i])
<1>1. WaveOf(list[i]) \in Waves
    BY DEF WaveOf, Waves
<1>2. \A j \in Kept(list, n) : j = i
    BY KeptAlone
<1> QED
    BY <1>1, <1>2 DEF WaveIn

(* What is no better than the risk kept of a name takes its place.          *)
LEMMA NewcomerIsKept ==
    ASSUME PlanAssumption, NEW list \in Seq(Risks), NEW n, NEW i \in Kept(list, n),
           NEW r \in Risks, NoBetter(r, list[i])
    PROVE  1 \in Kept(<<r>> \o list, n)
<1> DEFINE longer == <<r>> \o list
<1>1. /\ longer \in Seq(Risks) /\ Len(longer) = Len(list) + 1
      /\ longer[1] = r
      /\ \A j \in 2 .. Len(longer) : longer[j] = list[j - 1]
  <2>1. <<r>> \in Seq(Risks) /\ Len(<<r>>) = 1 /\ <<r>>[1] = r
      OBVIOUS
  <2> QED
      BY <2>1, ConcatProperties
<1>2. i \in 1 .. Len(list) /\ list[i].name = n
    BY DEF Kept, AllOf
<1>3. r \in RiskRecord /\ \A j \in 1 .. Len(list) : list[j] \in RiskRecord
    BY DEF PlanAssumption
<1>4. r.score \in Int /\ \A j \in 1 .. Len(list) : list[j].score \in Int
    BY <1>3, RiskFields
<1>5. r.name = n /\ r.score >= list[i].score
    BY <1>2 DEF NoBetter
<1>6. \A j \in 1 .. Len(list) : list[j].name = n => list[j].score <= list[i].score
    BY <1>2, <1>4 DEF Kept, AllOf
<1>7. 1 \in AllOf(longer, n)
    BY <1>1, <1>5 DEF AllOf
<1>8. ASSUME NEW j \in AllOf(longer, n)
      PROVE  longer[j].score < longer[1].score \/ (longer[j].score = longer[1].score /\ j >= 1)
  <2>1. CASE j = 1
      BY <2>1
  <2>2. CASE j # 1
    <3>1. j \in 2 .. Len(longer) /\ longer[j].name = n
        BY <1>1, <2>2 DEF AllOf
    <3>2. longer[j] = list[j - 1] /\ j - 1 \in 1 .. Len(list)
        BY <1>1, <3>1
    <3> QED
        BY <1>1, <1>2, <1>4, <1>5, <1>6, <3>1, <3>2
  <2> QED
      BY <2>1, <2>2
<1> QED
    BY <1>7, <1>8 DEF Kept

LEMMA StepPostponesNoWorse ==
    ASSUME PlanAssumption, IInv, Next
    PROVE  PostponesNoWorse
<1>1. ASSUME NEW r \in Risks, AddRisk(r) PROVE PostponesNoWorse
  <2> SUFFICES ASSUME NEW n \in Names, NEW i \in Kept(risks, n),
                      NoBetter(risks'[1], risks[i])
               PROVE  Rank(WaveIn(risks', n)) <= Rank(WaveIn(risks, n))
      BY DEF PostponesNoWorse
  <2>1. risks' = <<r>> \o risks /\ risks \in Seq(Risks)
      BY <1>1 DEF AddRisk, IInv, TypeOK
  <2>2. risks' \in Seq(Risks) /\ risks'[1] = r
    <3>1. <<r>> \in Seq(Risks) /\ Len(<<r>>) = 1 /\ <<r>>[1] = r
        OBVIOUS
    <3> QED
        BY <2>1, <3>1, ConcatProperties
  <2>3. 1 \in Kept(risks', n)
      BY <2>1, <2>2, NewcomerIsKept
  <2>4. WaveIn(risks', n) = WaveOf(r) /\ WaveIn(risks, n) = WaveOf(risks[i])
      BY <2>1, <2>2, <2>3, WaveOfTheKept
  <2>5. r \in RiskRecord /\ risks[i] \in RiskRecord
      BY <2>1 DEF PlanAssumption, Kept, AllOf
  <2> QED
      BY <2>2, <2>4, <2>5, NoBetterIsNoLater
<1>2. ASSUME risks' = risks PROVE PostponesNoWorse
    BY <1>2 DEF PostponesNoWorse, IInv, TypeOK
<1>3. (\E r \in Risks : AddRisk(r)) \/ risks' = risks
    BY DEF Next, AddAsset, ReadAssets, Proceed, ReadRisks, Post, Finish, Fails, ReadFails,
           PostFails, TimesOut, LoseAnswer, Fault, Insert, stored
<1> QED
    BY <1>1, <1>2, <1>3

(* A scan that finds an asset no better in any respect than the risk it is  *)
(* planned by never moves it to a later wave (build_plan).                  *)
THEOREM NothingIsPutOff == ASSUME PlanAssumption PROVE Spec => NoBetterIsNotPostponed
<1>1. IInv /\ [Next]_vars => [PostponesNoWorse]_vars
    BY StepPostponesNoWorse
<1> QED
    BY <1>1, Inductive, PTL DEF Spec, NoBetterIsNotPostponed
=============================================================================
