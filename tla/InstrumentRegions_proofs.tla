---------------------- MODULE InstrumentRegions_proofs ----------------------
(***************************************************************************)
(* Proofs about the detection of scops and its filter, for any functions,  *)
(* reject logs and orders of regions in memory: what is left of the        *)
(* candidates is one region, one with the most blocks of its own, and it   *)
(* is the same whatever the order.                                         *)
(* After it the proof that instrumenting regions leaves a graph: its       *)
(* blocks can all be reached, and those of the function are among them.    *)
(***************************************************************************)
EXTENDS InstrumentRegionsProperties, DataLemmas

(* The elements of a sequence that are in a set, one by one.               *)
Picks(f, s, S) ==
  /\ Among(s, S) = f[Len(s)]
  /\ f[0] = <<>>
  /\ \A n \in 1..Len(s) : f[n] = IF s[n] \in S THEN Append(f[n - 1], s[n]) ELSE f[n - 1]

(* They are found in one pass over the sequence.                           *)
LEMMA AmongSteps ==
  ASSUME NEW T, NEW s \in Seq(T), NEW S
  PROVE  \E f \in [0..Len(s) -> Seq(T)] : Picks(f, s, S)
<1> DEFINE N == Len(s)
           A == Seq(T)
           op(t, e) == IF e \in S THEN Append(t, e) ELSE t
           step == [n \in 1..N |-> [t \in A |-> op(t, s[n])]]
           it == CHOOSE it : it = [P \in SUBSET (1..N) |->
                   IF P = {} THEN <<>> ELSE op(it[P \ {Max(P)}], s[Max(P)])]
<1>1. N \in Nat /\ DOMAIN s = 1..N /\ (\A n \in 1..N : s[n] \in T) /\ <<>> \in A
  OBVIOUS
<1>2. Among(s, S) = it[1..N]
  BY <1>1 DEF Among, FoldLeft, MapThenFoldSet
<1>3. step \in [1..N -> [A -> A]]
  BY <1>1
<1>4. PICK g \in [SUBSET (1..N) -> A] :
        \A P \in SUBSET (1..N) : g[P] = IF P = {} THEN <<>> ELSE step[Max(P)][g[P \ {Max(P)}]]
  <2> HIDE DEF step, A, N
  <2>1. PICK base : base = <<>>
    OBVIOUS
  <2>2. base \in A /\ N \in Nat
    BY <1>1, <2>1
  <2>3. \E g \in [SUBSET (1..N) -> A] : FoldedBy(g, base, N, step)
    BY <1>3, <2>2, FoldExists
  <2>4. QED
    BY <2>1, <2>3 DEF FoldedBy
<1>5. g = [P \in SUBSET (1..N) |-> IF P = {} THEN <<>> ELSE op(g[P \ {Max(P)}], s[Max(P)])]
  <2>1. ASSUME NEW P \in SUBSET (1..N), P # {}
        PROVE  g[P] = op(g[P \ {Max(P)}], s[Max(P)])
    <3>1. PICK m : m = Max(P)
      OBVIOUS
    <3>2. m \in 1..N
      BY <1>1, <2>1, <3>1, MaxOfNats
    <3>3. PICK h : h = g[P \ {m}]
      OBVIOUS
    <3>4. P \ {m} \in SUBSET (1..N)
      OBVIOUS
    <3>5. h \in A
      <4> HIDE DEF A, N
      <4>1. QED
        BY <1>4, <3>3, <3>4
    <3>6. step[m][h] = op(h, s[m])
      BY <3>2, <3>5
    <3>7. g[P] = step[m][h]
      BY <1>4, <2>1, <3>1, <3>3
    <3> HIDE DEF step, op
    <3>8. QED
      BY <3>1, <3>3, <3>6, <3>7
  <2> HIDE DEF op, A, N
  <2>2. QED
    BY <1>4, <2>1
<1>6. it = [P \in SUBSET (1..N) |-> IF P = {} THEN <<>> ELSE op(it[P \ {Max(P)}], s[Max(P)])]
  <2> HIDE DEF op, N
  <2>1. QED
    BY <1>5
<1> HIDE DEF it
<1>7. ASSUME NEW n \in 1..N, it[1..(n - 1)] \in A PROVE it[1..n] = step[n][it[1..(n - 1)]]
  <2>1. n \in Nat \ {0}
    BY <1>1
  <2>2. 1..n \in SUBSET (1..N) /\ 1..n # {} /\ Max(1..n) = n /\ (1..n) \ {n} = 1..(n - 1)
    BY <2>1, MaxOfInterval
  <2>3. PICK h : h = it[1..(n - 1)]
    OBVIOUS
  <2>4. it[1..n] = op(h, s[n])
    <3> HIDE DEF op, N
    <3>1. QED
      BY <1>6, <2>2, <2>3
  <2>5. step[n][h] = op(h, s[n])
    BY <1>7, <2>3
  <2> HIDE DEF step, op
  <2>6. QED
    BY <2>3, <2>4, <2>5
<1>8. it[{}] = <<>>
  <2> HIDE DEF op, N
  <2>1. {} \in SUBSET (1..N)
    OBVIOUS
  <2>2. QED
    BY <1>6, <2>1
<1>9. PICK f \in [0..N -> A] : DefinedBy(f, <<>>, N, step) /\ f[N] = it[1..N]
  <2> HIDE DEF A, N, step
  <2>1. PICK base : base = <<>>
    OBVIOUS
  <2>2. base \in A /\ N \in Nat /\ StepsIn(it, A, base, N, step)
    BY <1>1, <1>7, <1>8, <2>1 DEF StepsIn
  <2>3. \E f \in [0..N -> A] : Computes(f, base, N, step, it[1..N])
    BY <1>3, <2>2, FoldsTo
  <2>4. QED
    BY <2>1, <2>3 DEF Computes
<1>10. ASSUME NEW n \in 1..N PROVE f[n] = op(f[n - 1], s[n])
  <2>1. n - 1 \in 0..N
    BY <1>1
  <2>2. PICK h : h = f[n - 1]
    OBVIOUS
  <2>3. h \in A
    <3> HIDE DEF A, N
    <3>1. QED
      BY <2>1, <2>2
  <2>4. step[n][h] = op(h, s[n])
    BY <2>3
  <2>5. f[n] = step[n][h]
    BY <1>9, <2>2 DEF DefinedBy
  <2> HIDE DEF step, op
  <2>6. QED
    BY <2>2, <2>4, <2>5
<1>11. QED
  BY <1>2, <1>9, <1>10 DEF DefinedBy, Picks

(* They are those, in their order.                                         *)
LEMMA AmongKeeps ==
  ASSUME NEW T, NEW s \in Seq(T), NEW S
  PROVE  /\ Among(s, S) \in Seq(T)
         /\ ToSet(Among(s, S)) = ToSet(s) \cap S
         /\ IsInjective(s) => IsInjective(Among(s, S))
<1>1. PICK f \in [0..Len(s) -> Seq(T)] :
           /\ Among(s, S) = f[Len(s)]
           /\ f[0] = <<>>
           /\ \A n \in 1..Len(s) : f[n] = IF s[n] \in S THEN Append(f[n - 1], s[n]) ELSE f[n - 1]
  <2>1. \E f \in [0..Len(s) -> Seq(T)] : Picks(f, s, S)
    BY AmongSteps
  <2>2. QED
    BY <2>1 DEF Picks
<1>2. Len(s) \in Nat /\ DOMAIN s = 1..Len(s) /\ \A n \in 1..Len(s) : s[n] \in T
  OBVIOUS
<1> DEFINE Held(n) == {s[i] : i \in 1..n} \cap S
           P == {n \in Nat : n <= Len(s) =>
                  ToSet(f[n]) = Held(n) /\ (IsInjective(s) => IsInjective(f[n]))}
<1>3. 0 \in P
  BY <1>1 DEF ToSet, IsInjective
<1>4. ASSUME NEW n \in Nat, n \in P PROVE n + 1 \in P
  <2>1. SUFFICES ASSUME n + 1 <= Len(s)
                 PROVE  ToSet(f[n + 1]) = Held(n + 1) /\ (IsInjective(s) => IsInjective(f[n + 1]))
    OBVIOUS
  <2>2. n + 1 \in 1..Len(s) /\ n \in 0..Len(s) /\ (n + 1) - 1 = n /\ n <= Len(s) /\ 1..(n + 1) = (1..n) \cup {n + 1}
    BY <1>2, <2>1
  <2>3. ToSet(f[n]) = Held(n) /\ (IsInjective(s) => IsInjective(f[n]))
    BY <1>4, <2>2
  <2>4. PICK p, e : p = f[n] /\ e = s[n + 1]
    OBVIOUS
  <2>5. p \in Seq(T) /\ e \in T /\ f[n + 1] = IF e \in S THEN Append(p, e) ELSE p
    BY <1>1, <1>2, <2>2, <2>4
  <2>6. Held(n + 1) = IF e \in S THEN Held(n) \cup {e} ELSE Held(n)
    <3>1. {s[i] : i \in 1..(n + 1)} = {s[i] : i \in 1..n} \cup {e}
      BY <2>2, <2>4
    <3>2. QED
      BY <3>1
  <2>7. CASE e \notin S
    BY <2>3, <2>4, <2>5, <2>6, <2>7
  <2>8. CASE e \in S
    <3>1. PICK q : q = Append(p, e)
      OBVIOUS
    <3>2. /\ q \in Seq(T) /\ Len(p) \in Nat /\ DOMAIN q = 1..(Len(p) + 1) /\ DOMAIN p = 1..Len(p)
          /\ q[Len(p) + 1] = e /\ \A i \in 1..Len(p) : q[i] = p[i]
      BY <2>5, <3>1
    <3>3. ToSet(q) = ToSet(p) \cup {e}
      <4>1. \A i \in DOMAIN q : i \in DOMAIN p \/ i = Len(p) + 1
        BY <3>2
      <4>2. \A i \in DOMAIN p : i \in DOMAIN q
        BY <3>2
      <4>3. Len(p) + 1 \in DOMAIN q
        BY <3>2
      <4>4. QED
        BY <3>2, <4>1, <4>2, <4>3 DEF ToSet
    <3>4. ASSUME IsInjective(s) PROVE IsInjective(q)
      <4>1. e \notin ToSet(p)
        <5>1. \A i \in 1..n : i \in DOMAIN s /\ i # n + 1 /\ n + 1 \in DOMAIN s
          BY <1>2, <2>2
        <5>2. \A i \in 1..n : s[i] # e
          BY <2>4, <3>4, <5>1 DEF IsInjective
        <5>3. QED
          BY <2>3, <2>4, <5>2
      <4>2. \A i \in DOMAIN p : q[i] # e
        BY <3>2, <4>1 DEF ToSet
      <4>3. ASSUME NEW i \in DOMAIN q, NEW j \in DOMAIN q, q[i] = q[j] PROVE i = j
        <5>1. CASE i \in DOMAIN p /\ j \in DOMAIN p
          BY <2>3, <2>4, <3>2, <3>4, <4>3, <5>1 DEF IsInjective
        <5>2. CASE i = Len(p) + 1 \/ j = Len(p) + 1
          BY <3>2, <4>2, <4>3, <5>2
        <5>3. QED
          BY <3>2, <5>1, <5>2
      <4>4. QED
        BY <4>3 DEF IsInjective
    <3> HIDE DEF Held
    <3>5. QED
      BY <2>3, <2>4, <2>5, <2>6, <2>8, <3>1, <3>3, <3>4
  <2>9. QED
    BY <2>7, <2>8
<1>5. Len(s) \in P
  <2> HIDE DEF P
  <2>1. QED
    BY <1>2, <1>3, <1>4, SetInduction
<1>6. ToSet(s) = {s[i] : i \in 1..Len(s)}
  BY <1>2 DEF ToSet
<1>7. QED
  BY <1>1, <1>2, <1>5, <1>6

-----------------------------------------------------------------------------
(* What is rejected after each turn of the outer loop of the filter.       *)
Filters(h, f, sorted, result) ==
  /\ result = h[Len(sorted)]
  /\ h[0] = {}
  /\ \A n \in 1..Len(sorted) :
       h[n] = IF sorted[n] \in h[n - 1] THEN h[n - 1] ELSE Against(f, sorted[n], sorted, h[n - 1])

(* The inner loop rejects some of the regions, no other.                   *)
LEMMA AgainstTyped ==
  ASSUME NEW f, NEW C, NEW s \in Seq(C), NEW n \in 1..Len(s), NEW R \in SUBSET C
  PROVE  Against(f, s[n], s, R) \in SUBSET C
<1>1. DOMAIN s = 1..Len(s) /\ \A i \in DOMAIN s : s[i] \in C
  OBVIOUS
<1>2. QED
  BY <1>1 DEF Against

(* What the filter has rejected after each region.                         *)
LEMMA RejectedSteps ==
  ASSUME NEW f, NEW scops, NEW C, NEW s \in Seq(C), s = Sorted(f, scops)
  PROVE  \E h \in [0..Len(s) -> SUBSET C] : Filters(h, f, s, Rejected(f, scops))
<1> DEFINE N == Len(s)
           A == SUBSET C
           op(R, e) == IF e \in R THEN R ELSE Against(f, e, s, R)
           step == [n \in 1..N |-> [R \in A |-> op(R, s[n])]]
           it == CHOOSE it : it = [P \in SUBSET (1..N) |->
                   IF P = {} THEN {} ELSE op(it[P \ {Max(P)}], s[Max(P)])]
<1>1. N \in Nat /\ DOMAIN s = 1..N /\ (\A n \in 1..N : s[n] \in C) /\ {} \in A
  OBVIOUS
<1>2. Rejected(f, scops) = it[1..N]
  BY <1>1 DEF Rejected, FoldLeft, MapThenFoldSet
<1>3. step \in [1..N -> [A -> A]]
  <2>1. ASSUME NEW n \in 1..N, NEW R \in A PROVE op(R, s[n]) \in A
    <3>1. Against(f, s[n], s, R) \in SUBSET C
      BY AgainstTyped
    <3>2. QED
      BY <3>1
  <2> HIDE DEF op, A, N
  <2>2. QED
    BY <2>1
<1>4. PICK g \in [SUBSET (1..N) -> A] :
        \A P \in SUBSET (1..N) : g[P] = IF P = {} THEN {} ELSE step[Max(P)][g[P \ {Max(P)}]]
  <2> HIDE DEF step, A, N
  <2>1. PICK base : base = {}
    OBVIOUS
  <2>2. base \in A /\ N \in Nat
    BY <1>1, <2>1
  <2>3. \E g \in [SUBSET (1..N) -> A] : FoldedBy(g, base, N, step)
    BY <1>3, <2>2, FoldExists
  <2>4. QED
    BY <2>1, <2>3 DEF FoldedBy
<1>5. g = [P \in SUBSET (1..N) |-> IF P = {} THEN {} ELSE op(g[P \ {Max(P)}], s[Max(P)])]
  <2>1. ASSUME NEW P \in SUBSET (1..N), P # {}
        PROVE  g[P] = op(g[P \ {Max(P)}], s[Max(P)])
    <3>1. PICK m : m = Max(P)
      OBVIOUS
    <3>2. m \in 1..N
      BY <1>1, <2>1, <3>1, MaxOfNats
    <3>3. PICK h : h = g[P \ {m}]
      OBVIOUS
    <3>4. P \ {m} \in SUBSET (1..N)
      OBVIOUS
    <3>5. h \in A
      <4> HIDE DEF A, N
      <4>1. QED
        BY <1>4, <3>3, <3>4
    <3>6. step[m][h] = op(h, s[m])
      <4> HIDE DEF op, A, N
      <4>1. QED
        BY <3>2, <3>5
    <3>7. g[P] = step[m][h]
      <4> HIDE DEF step, N
      <4>1. QED
        BY <1>4, <2>1, <3>1, <3>3
    <3> HIDE DEF step, op
    <3>8. QED
      BY <3>1, <3>3, <3>6, <3>7
  <2> HIDE DEF op, A, N
  <2>2. QED
    BY <1>4, <2>1
<1>6. it = [P \in SUBSET (1..N) |-> IF P = {} THEN {} ELSE op(it[P \ {Max(P)}], s[Max(P)])]
  <2> HIDE DEF op, N
  <2>1. QED
    BY <1>5
<1> HIDE DEF it
<1>7. ASSUME NEW n \in 1..N, it[1..(n - 1)] \in A PROVE it[1..n] = step[n][it[1..(n - 1)]]
  <2>1. n \in Nat \ {0}
    BY <1>1
  <2>2. 1..n \in SUBSET (1..N) /\ 1..n # {} /\ Max(1..n) = n /\ (1..n) \ {n} = 1..(n - 1)
    BY <2>1, MaxOfInterval
  <2>3. PICK h : h = it[1..(n - 1)]
    OBVIOUS
  <2>4. it[1..n] = op(h, s[n])
    <3> HIDE DEF op, N
    <3>1. QED
      BY <1>6, <2>2, <2>3
  <2>5. step[n][h] = op(h, s[n])
    <3> HIDE DEF op, A, N
    <3>1. QED
      BY <1>7, <2>3
  <2> HIDE DEF step, op
  <2>6. QED
    BY <2>3, <2>4, <2>5
<1>8. it[{}] = {}
  <2> HIDE DEF op, N
  <2>1. {} \in SUBSET (1..N)
    OBVIOUS
  <2>2. QED
    BY <1>6, <2>1
<1>9. PICK h \in [0..N -> A] : DefinedBy(h, {}, N, step) /\ h[N] = it[1..N]
  <2> HIDE DEF A, N, step
  <2>1. PICK base : base = {}
    OBVIOUS
  <2>2. base \in A /\ N \in Nat /\ StepsIn(it, A, base, N, step)
    BY <1>1, <1>7, <1>8, <2>1 DEF StepsIn
  <2>3. \E h \in [0..N -> A] : Computes(h, base, N, step, it[1..N])
    BY <1>3, <2>2, FoldsTo
  <2>4. QED
    BY <2>1, <2>3 DEF Computes
<1>10. ASSUME NEW n \in 1..N PROVE h[n] = op(h[n - 1], s[n])
  <2>1. n - 1 \in 0..N
    BY <1>1
  <2>2. PICK R : R = h[n - 1]
    OBVIOUS
  <2>3. R \in A
    <3> HIDE DEF A, N
    <3>1. QED
      BY <2>1, <2>2
  <2>4. step[n][R] = op(R, s[n])
    <3> HIDE DEF op, A, N
    <3>1. QED
      BY <2>3
  <2>5. h[n] = step[n][R]
    BY <1>9, <2>2 DEF DefinedBy
  <2> HIDE DEF step, op
  <2>6. QED
    BY <2>2, <2>4, <2>5
<1>11. QED
  BY <1>2, <1>9, <1>10 DEF DefinedBy, Filters

-----------------------------------------------------------------------------
(* A region of the function has a position, which no other one has.        *)
LEMMA PositionIs ==
  ASSUME NEW f, NEW T, f.regions \in Seq(T), NEW r \in Regions(f)
  PROVE  Position(f, r) \in DOMAIN f.regions /\ f.regions[Position(f, r)] = r
<1> DEFINE I == {i \in 1..Len(f.regions) : f.regions[i] = r}
<1>1. DOMAIN f.regions = 1..Len(f.regions) /\ Len(f.regions) \in Nat
  OBVIOUS
<1>2. Position(f, r) = IF I # {} THEN Min(I) ELSE 0
  BY DEF Position, SelectInSeq
<1>3. I # {} /\ I \in SUBSET Nat
  BY <1>1 DEF Regions, ToSet
<1>4. Min(I) \in I
  <2> HIDE DEF I
  <2>1. QED
    BY <1>3, MinOfNats
<1>5. Position(f, r) \in I
  <2> HIDE DEF I
  <2>1. QED
    BY <1>2, <1>3, <1>4
<1>6. QED
  BY <1>1, <1>5

(* What sorting gives: the same regions, in the order of their names.      *)
Ascending(f, s) == \A i, j \in DOMAIN s : i < j => Position(f, s[i]) <= Position(f, s[j])
SortOf(f, s, scops) ==
  /\ ToSet(s) = ToSet(scops)
  /\ Len(s) = Len(scops)
  /\ Ascending(f, s)
  /\ IsInjective(scops) => IsInjective(s)

(* Sorting loses no region and repeats none.                               *)
LEMMA SortedIs ==
  ASSUME NEW f, NEW T, f.regions \in Seq(T), NEW scops \in Seq(Regions(f))
  PROVE  Sorted(f, scops) \in Seq(Regions(f)) /\ SortOf(f, Sorted(f, scops), scops)
<1> DEFINE n == Len(scops)
           v == [i \in 1..n |-> Position(f, scops[i])]
           InOrder(p) == \A i, j \in 1..n : i < j => Position(f, scops[p[i]]) <= Position(f, scops[p[j]])
           order == CHOOSE p \in Bijection(1..n, 1..n) : InOrder(p)
<1>1. n \in Nat /\ DOMAIN scops = 1..n /\ \A i \in 1..n : scops[i] \in Regions(f)
  OBVIOUS
<1>2. v \in [1..n -> Nat]
  <2>1. ASSUME NEW i \in 1..n PROVE Position(f, scops[i]) \in Nat
    <3>1. PICK r \in Regions(f) : r = scops[i]
      BY <1>1
    <3>2. Position(f, r) \in DOMAIN f.regions
      BY PositionIs
    <3>3. QED
      BY <3>1, <3>2
  <2>2. QED
    BY <2>1
<1>3. PICK p \in [1..n -> 1..n] : Sorts(p, n, v)
  <2> HIDE DEF n, v
  <2>1. QED
    BY <1>1, <1>2, SortExists
<1>4. p \in Bijection(1..n, 1..n) /\ InOrder(p)
  <2>1. p \in Bijection(1..n, 1..n)
    <3> HIDE DEF n, v
    <3>1. QED
      BY <1>3 DEF Sorts, Bijection, Injection, Surjection, IsInjective
  <2>2. \A i \in 1..n : p[i] \in 1..n /\ v[p[i]] = Position(f, scops[p[i]])
    OBVIOUS
  <2>3. InOrder(p)
    <3> HIDE DEF n, v
    <3>1. QED
      BY <1>3, <2>2 DEF Sorts
  <2>4. QED
    BY <2>1, <2>3
<1>5. order \in Bijection(1..n, 1..n) /\ InOrder(order)
  <2> HIDE DEF InOrder, n
  <2>1. QED
    BY <1>4, Zenon
<1>6. /\ order \in [1..n -> 1..n]
      /\ \A i, j \in 1..n : order[i] = order[j] => i = j
      /\ \A k \in 1..n : \E i \in 1..n : order[i] = k
  <2> HIDE DEF order, n
  <2>1. QED
    BY <1>5 DEF Bijection, Injection, Surjection, IsInjective
<1>7. PICK s : s = [i \in 1..n |-> scops[order[i]]]
  OBVIOUS
<1>8. Sorted(f, scops) = s
  <2>1. PICK D : D = DOMAIN scops
    OBVIOUS
  <2>2. Sorted(f, scops)
          = LET o == CHOOSE t \in Bijection(D, D) :
                       \A i, j \in D : i < j => Position(f, scops[t[i]]) <= Position(f, scops[t[j]])
            IN  [i \in D |-> scops[o[i]]]
    BY <2>1 DEF Sorted
  <2>3. D = 1..n
    BY <1>1, <2>1
  <2>4. Sorted(f, scops) = [i \in 1..n |-> scops[order[i]]]
    BY <2>2, <2>3
  <2>5. QED
    BY <1>7, <2>4
<1> HIDE DEF order
<1>9. s \in [1..n -> Regions(f)] /\ \A i \in 1..n : s[i] = scops[order[i]] /\ order[i] \in 1..n
  BY <1>1, <1>6, <1>7
<1>10. s \in Seq(Regions(f)) /\ Len(s) = n /\ DOMAIN s = 1..n
  BY <1>1, <1>9
<1>11. ToSet(s) = ToSet(scops)
  <2>1. ToSet(s) = {s[i] : i \in 1..n} /\ ToSet(scops) = {scops[i] : i \in 1..n}
    BY <1>1, <1>10 DEF ToSet
  <2> HIDE DEF n
  <2>2. \A i \in 1..n : s[i] \in {scops[k] : k \in 1..n}
    BY <1>9
  <2>3. \A k \in 1..n : scops[k] \in {s[i] : i \in 1..n}
    BY <1>6, <1>9
  <2>4. QED
    BY <2>1, <2>2, <2>3
<1>12. Ascending(f, s)
  <2> HIDE DEF n
  <2>1. QED
    BY <1>5, <1>9, <1>10 DEF Ascending
<1>13. IsInjective(scops) => IsInjective(s)
  <2> HIDE DEF n
  <2>1. QED
    BY <1>1, <1>6, <1>9, <1>10 DEF IsInjective
<1>14. QED
  BY <1>8, <1>10, <1>11, <1>12, <1>13 DEF SortOf

(* There is one way to sort regions.                                       *)
LEMMA SortedOnce ==
  ASSUME NEW f, NEW T, f.regions \in Seq(T),
         NEW s \in Seq(Regions(f)), NEW t \in Seq(Regions(f)),
         IsInjective(s), IsInjective(t), ToSet(s) = ToSet(t), Len(s) = Len(t),
         Ascending(f, s), Ascending(f, t)
  PROVE  s = t
<1> DEFINE n == Len(s)
           bad == {i \in 1..n : s[i] # t[i]}
<1>1. n \in Nat /\ DOMAIN s = 1..n /\ DOMAIN t = 1..n
  OBVIOUS
<1>2. \A r \in Regions(f) : Position(f, r) \in Nat /\ f.regions[Position(f, r)] = r
  BY PositionIs
<1>3. (\A i \in 1..n : s[i] = t[i]) => s = t
  OBVIOUS
<1>4. SUFFICES ASSUME bad # {} PROVE FALSE
  BY <1>3
<1>5. PICK k \in bad : \A i \in bad : k <= i
  <2>1. bad \in SUBSET Nat
    OBVIOUS
  <2> HIDE DEF bad
  <2>2. QED
    BY <1>4, <2>1, MinOfNats
<1>6. k \in 1..n /\ s[k] # t[k] /\ \A i \in 1..n : i < k => s[i] = t[i]
  BY <1>1, <1>5
<1>7. s[k] \in Regions(f) /\ t[k] \in Regions(f)
  BY <1>1, <1>6
<1>8. PICK i \in 1..n : s[i] = t[k]
  BY <1>1, <1>6 DEF ToSet
<1>9. PICK j \in 1..n : t[j] = s[k]
  BY <1>1, <1>6 DEF ToSet
<1>10. i > k
  <2>1. i # k
    BY <1>6, <1>8
  <2>2. ASSUME i < k PROVE FALSE
    <3>1. t[i] = t[k]
      BY <1>6, <1>8, <2>2
    <3>2. QED
      BY <1>1, <1>6, <2>1, <3>1 DEF IsInjective
  <2>3. QED
    BY <1>6, <2>1, <2>2
<1>11. j > k
  <2>1. j # k
    BY <1>6, <1>9
  <2>2. ASSUME j < k PROVE FALSE
    <3>1. s[j] = s[k]
      BY <1>6, <1>9, <2>2
    <3>2. QED
      BY <1>1, <1>6, <2>1, <3>1 DEF IsInjective
  <2>3. QED
    BY <1>6, <2>1, <2>2
<1>12. Position(f, s[k]) <= Position(f, t[k])
  BY <1>1, <1>6, <1>8, <1>10 DEF Ascending
<1>13. Position(f, t[k]) <= Position(f, s[k])
  BY <1>1, <1>6, <1>9, <1>11 DEF Ascending
<1>14. Position(f, s[k]) = Position(f, t[k])
  BY <1>2, <1>7, <1>12, <1>13
<1>15. QED
  BY <1>2, <1>6, <1>7, <1>14

(* A sequence without duplicates is as long as what it holds is large.     *)
LEMMA InjectiveLength ==
  ASSUME NEW T, NEW s \in Seq(T), IsInjective(s)
  PROVE  IsFiniteSet(ToSet(s)) /\ Cardinality(ToSet(s)) = Len(s)
<1> DEFINE n == Len(s)
<1>1. n \in Nat /\ DOMAIN s = 1..n
  OBVIOUS
<1>2. PICK S : S = ToSet(s)
  OBVIOUS
<1>3. s \in [1..n -> S] /\ \A x \in S : \E i \in 1..n : s[i] = x
  <2>1. s = [i \in 1..n |-> s[i]]
    OBVIOUS
  <2>2. \A i \in 1..n : s[i] \in S
    BY <1>1, <1>2 DEF ToSet
  <2> HIDE DEF n
  <2>3. s \in [1..n -> S]
    BY <2>1, <2>2
  <2>4. QED
    BY <1>1, <1>2, <2>3 DEF ToSet
<1> HIDE DEF n
<1>4. s \in Bijection(1..n, S)
  BY <1>1, <1>3 DEF Bijection, Injection, Surjection, IsInjective
<1>5. ExistsBijection(1..n, S)
  BY <1>4 DEF ExistsBijection
<1>6. IsFiniteSet(1..n) /\ Cardinality(1..n) = n
  <2>1. PICK one : one = 1
    OBVIOUS
  <2>2. one \in Int /\ n \in Int
    BY <1>1, <2>1
  <2>3. IsFiniteSet(one..n) /\ Cardinality(one..n) = IF one > n THEN 0 ELSE n - one + 1
    BY <2>2, FS_Interval
  <2>4. QED
    BY <1>1, <2>1, <2>3
<1>7. PICK I : I = 1..n
  OBVIOUS
<1>8. IsFiniteSet(S) /\ Cardinality(S) = Cardinality(I)
  BY <1>5, <1>6, <1>7, FS_Bijection
<1>9. QED
  BY <1>2, <1>6, <1>7, <1>8 DEF n

(* What is rejected does not depend on the order of the regions.           *)
LEMMA SameRejected ==
  ASSUME NEW f, NEW T, f.regions \in Seq(T),
         NEW s \in Seq(Regions(f)), NEW t \in Seq(Regions(f)),
         IsInjective(s), IsInjective(t), ToSet(s) = ToSet(t)
  PROVE  Rejected(f, s) = Rejected(f, t)
<1>1. Len(s) = Len(t)
  BY InjectiveLength
<1>2. PICK u, v : u = Sorted(f, s) /\ v = Sorted(f, t)
  OBVIOUS
<1>3. u \in Seq(Regions(f)) /\ SortOf(f, u, s)
  BY <1>2, SortedIs
<1>4. v \in Seq(Regions(f)) /\ SortOf(f, v, t)
  BY <1>2, SortedIs
<1>5. u = v
  <2>1. IsInjective(u) /\ IsInjective(v) /\ ToSet(u) = ToSet(v) /\ Len(u) = Len(v)
        /\ Ascending(f, u) /\ Ascending(f, v)
    BY <1>1, <1>3, <1>4 DEF SortOf
  <2>2. QED
    BY <1>3, <1>4, <2>1, SortedOnce
<1>6. QED
  BY <1>2, <1>5 DEF Rejected, FoldLeft, MapThenFoldSet

-----------------------------------------------------------------------------
(* Each of the regions has finitely many blocks of its own.                *)
Sized(f, C) == \A r \in C : IsFiniteSet(Elements(f, r))
HasOwn(f, r) == Elements(f, r) # {}
Size(f, r) == Cardinality(Elements(f, r))
(* Each region that is rejected has given way to one that is not.          *)
Yielded(f, C, R) == \A r \in R : \E q \in C \ R : Size(f, r) <= Size(f, q)

(* A turn of the outer loop, for a region that is not rejected and has     *)
(* blocks of its own: it is rejected itself or is left alone.              *)
LEMMA AgainstKeeps ==
  ASSUME NEW f, NEW C, NEW s \in Seq(C), IsInjective(s), ToSet(s) = C, Sized(f, C),
         NEW k \in 1..Len(s), NEW R \in SUBSET C, s[k] \notin R, HasOwn(f, s[k]), Yielded(f, C, R),
         NEW Q, Q = Against(f, s[k], s, R)
  PROVE  /\ Q \in SUBSET C /\ R \subseteq Q /\ Yielded(f, C, Q)
         /\ s[k] \in Q \/ Q = C \ {s[k]}
<1> DEFINE a == s[k]
           met == {i \in DOMAIN s : s[i] \notin R \cup {a} /\ SharesBlocks(f, a, s[i])}
           larger == {i \in met : Fewer(f, a, s[i])}
           before == {i \in met : \A j \in larger : i < j}
<1>1. DOMAIN s = 1..Len(s) /\ Len(s) \in Nat /\ (\A i \in DOMAIN s : s[i] \in C) /\ a \in C /\ k \in DOMAIN s
  OBVIOUS
<1>2. \A r \in C : Size(f, r) \in Nat
  BY FS_CardinalityType DEF Sized, Size
<1>3. \A r \in C : SharesBlocks(f, a, r)
  BY <1>1 DEF HasOwn, SharesBlocks, Elements
<1>4. \A i \in DOMAIN s : i \in met <=> s[i] \notin R /\ s[i] # a
  BY <1>1, <1>3
<1>5. \A r \in C : \E i \in DOMAIN s : s[i] = r
  BY DEF ToSet
<1>6. Q = R \cup {s[i] : i \in before} \cup (IF larger = {} THEN {} ELSE {a})
  BY DEF Against
<1>7. met \subseteq DOMAIN s /\ larger \subseteq met /\ before \subseteq met
  OBVIOUS
<1>8. \A i \in met : i \in larger <=> Size(f, a) < Size(f, s[i])
  BY DEF Fewer, Size
<1>9. \A i \in met : i \in before <=> \A j \in larger : i < j
  OBVIOUS
<1> HIDE DEF met, larger, before
<1>10. R \subseteq Q
  BY <1>6
<1>11. Q \in SUBSET C
  <2>1. \A i \in before : s[i] \in C
    BY <1>1, <1>7
  <2> HIDE DEF a
  <2>2. QED
    BY <1>1, <1>6, <2>1
<1>12. CASE larger = {}
  <2>1. before = met
    BY <1>7, <1>9, <1>12
  <2>2. Q = C \ {a}
    <3>1. ASSUME NEW r \in C, r # a PROVE r \in Q
      <4>1. PICK i \in DOMAIN s : s[i] = r
        BY <1>5
      <4>2. QED
        BY <1>4, <1>6, <2>1, <3>1, <4>1
    <3>2. a \notin Q
      BY <1>4, <1>6, <1>7, <1>12
    <3> HIDE DEF a
    <3>3. QED
      BY <1>11, <3>1, <3>2
  <2>3. ASSUME NEW r \in Q PROVE Size(f, r) <= Size(f, a)
    <3>1. CASE r \in R
      <4>1. PICK q \in C \ R : Size(f, r) <= Size(f, q)
        BY <3>1 DEF Yielded
      <4>2. PICK i \in DOMAIN s : s[i] = q
        BY <1>5
      <4>3. CASE q = a
        BY <4>1, <4>3
      <4>4. CASE q # a
        <5>1. i \in met /\ i \notin larger
          BY <1>4, <1>12, <4>1, <4>2, <4>4
        <5>2. ~ (Size(f, a) < Size(f, q))
          BY <1>8, <4>2, <5>1
        <5>3. Size(f, a) \in Nat /\ Size(f, q) \in Nat /\ Size(f, r) \in Nat
          BY <1>1, <1>2, <3>1
        <5>4. QED
          BY <4>1, <5>2, <5>3
      <4>5. QED
        BY <4>3, <4>4
    <3>2. CASE r \notin R
      <4>1. r \in C /\ r # a
        BY <2>2, <2>3
      <4>2. PICK i \in DOMAIN s : s[i] = r
        BY <1>5, <4>1
      <4>3. i \in met /\ i \notin larger
        BY <1>4, <1>12, <3>2, <4>1, <4>2
      <4>4. ~ (Size(f, a) < Size(f, r))
        BY <1>8, <4>2, <4>3
      <4>5. Size(f, a) \in Nat /\ Size(f, r) \in Nat
        BY <1>1, <1>2, <4>1
      <4>6. QED
        BY <4>4, <4>5
    <3>3. QED
      BY <3>1, <3>2
  <2> HIDE DEF a
  <2>4. Yielded(f, C, Q)
    BY <1>1, <2>2, <2>3 DEF Yielded
  <2>5. QED
    BY <1>10, <1>11, <2>2, <2>4 DEF a
<1>13. CASE larger # {}
  <2>1. PICK m \in larger : \A j \in larger : m <= j
    <3>1. larger \in SUBSET Nat
      BY <1>1, <1>7
    <3>2. QED
      BY <1>13, <3>1, MinOfNats
  <2>2. m \in met /\ m \in DOMAIN s /\ Size(f, a) < Size(f, s[m]) /\ s[m] \notin R /\ s[m] # a /\ s[m] \in C
    BY <1>1, <1>4, <1>7, <1>8, <2>1
  <2>3. a \in Q
    BY <1>6, <1>13
  <2>4. s[m] \notin Q
    <3>1. ASSUME NEW i \in before PROVE s[i] # s[m]
      <4>1. i < m /\ i \in DOMAIN s
        BY <1>7, <1>9, <2>1
      <4>2. i # m
        BY <1>1, <2>2, <4>1
      <4>3. QED
        BY <2>2, <4>1, <4>2 DEF IsInjective
    <3> HIDE DEF a
    <3>2. QED
      BY <1>6, <1>13, <2>2, <3>1
  <2>5. ASSUME NEW i \in before PROVE Size(f, s[i]) <= Size(f, s[m]) /\ s[i] \in C
    <3>1. i \in met /\ i \in DOMAIN s /\ i \notin larger
      <4>1. i \in met /\ i \in DOMAIN s
        BY <1>7
      <4>2. ASSUME i \in larger PROVE FALSE
        BY <1>1, <1>9, <4>1, <4>2
      <4>3. QED
        BY <4>1, <4>2
    <3>2. ~ (Size(f, a) < Size(f, s[i])) /\ s[i] \in C
      BY <1>1, <1>8, <3>1
    <3>3. Size(f, a) \in Nat /\ Size(f, s[i]) \in Nat /\ Size(f, s[m]) \in Nat
      BY <1>1, <1>2, <2>2, <3>2
    <3>4. QED
      BY <2>2, <3>2, <3>3
  <2>6. ASSUME NEW r \in Q PROVE \E q \in C \ Q : Size(f, r) <= Size(f, q)
    <3>1. CASE r = a
      <4>1. Size(f, a) \in Nat /\ Size(f, s[m]) \in Nat
        BY <1>1, <1>2, <2>2
      <4>2. Size(f, r) <= Size(f, s[m])
        BY <2>2, <3>1, <4>1
      <4>3. QED
        BY <2>2, <2>4, <4>2
    <3>2. CASE \E i \in before : r = s[i]
      BY <2>2, <2>4, <2>5, <3>2
    <3>3. CASE r \in R
      <4>1. PICK q \in C \ R : Size(f, r) <= Size(f, q)
        BY <3>3 DEF Yielded
      <4>2. Size(f, r) \in Nat /\ Size(f, q) \in Nat /\ Size(f, s[m]) \in Nat /\ Size(f, a) \in Nat
        BY <1>1, <1>2, <2>2, <3>3, <4>1
      <4>3. CASE q \notin Q
        BY <4>1, <4>3
      <4>4. CASE q \in Q
        <5>1. q = a \/ \E i \in before : q = s[i]
          BY <1>6, <1>13, <4>1, <4>4
        <5>2. Size(f, q) <= Size(f, s[m])
          BY <2>2, <2>5, <4>2, <5>1
        <5>3. Size(f, r) <= Size(f, s[m])
          BY <4>1, <4>2, <5>2
        <5>4. QED
          BY <2>2, <2>4, <5>3
      <4>5. QED
        BY <4>3, <4>4
    <3>4. QED
      BY <1>6, <1>13, <3>1, <3>2, <3>3
  <2>7. Yielded(f, C, Q)
    BY <2>6 DEF Yielded
  <2>8. QED
    BY <1>10, <1>11, <2>3, <2>7
<1>14. QED
  BY <1>12, <1>13

(* A turn for a region that has none changes nothing.                      *)
LEMMA AgainstNothing ==
  ASSUME NEW f, NEW a, NEW s, NEW R, ~HasOwn(f, a)
  PROVE  Against(f, a, s, R) = R
<1> DEFINE met == {i \in DOMAIN s : s[i] \notin R \cup {a} /\ SharesBlocks(f, a, s[i])}
           larger == {i \in met : Fewer(f, a, s[i])}
           before == {i \in met : \A j \in larger : i < j}
<1>1. \A r : ~SharesBlocks(f, a, r)
  BY DEF HasOwn, SharesBlocks
<1>2. met = {}
  BY <1>1
<1>3. Against(f, a, s, R) = R \cup {s[i] : i \in before} \cup (IF larger = {} THEN {} ELSE {a})
  BY DEF Against
<1>4. larger = {} /\ before = {}
  BY <1>2
<1> HIDE DEF met, larger, before
<1>5. QED
  BY <1>3, <1>4

(* The filter leaves one region, one of those with the most blocks of      *)
(* their own, or all if no region has any.                                 *)
SomeOwn(f, C) == \E r \in C : HasOwn(f, r)
Survives(f, C, w, R) ==
  R = C \ {w} /\ \A r \in C : Size(f, r) <= Size(f, w)
OneOrAll(f, C, R) ==
  IF SomeOwn(f, C) THEN \E w \in C : Survives(f, C, w, R) ELSE R = {}

(* By induction over the sorted regions: one that is not rejected yet      *)
(* has no block of its own, or meets a larger one and is rejected itself,  *)
(* or rejects all others.                                                  *)
LEMMA OneSurvives ==
  ASSUME NEW f, NEW T, f.regions \in Seq(T), NEW scops \in Seq(Regions(f)), IsInjective(scops),
         NEW C, C = ToSet(scops), Sized(f, C)
  PROVE  OneOrAll(f, C, Rejected(f, scops))
<1>1. PICK s : s = Sorted(f, scops)
  OBVIOUS
<1>2. s \in Seq(Regions(f)) /\ SortOf(f, s, scops)
  BY <1>1, SortedIs
<1>3. ToSet(s) = C /\ IsInjective(s)
  BY <1>2 DEF SortOf
<1>4. s \in Seq(C) /\ Len(s) \in Nat /\ DOMAIN s = 1..Len(s)
  <2>1. Len(s) \in Nat /\ DOMAIN s = 1..Len(s) /\ s = [i \in 1..Len(s) |-> s[i]]
    BY <1>2
  <2>2. \A i \in 1..Len(s) : s[i] \in C
    BY <1>3, <2>1 DEF ToSet
  <2>3. QED
    BY <2>1, <2>2
<1>5. PICK h \in [0..Len(s) -> SUBSET C] : Filters(h, f, s, Rejected(f, scops))
  BY <1>1, <1>4, RejectedSteps
<1> DEFINE Done(n, R) ==
             /\ Yielded(f, C, R)
             /\ (\A i \in 1..n : HasOwn(f, s[i]) => s[i] \in R) \/ (\E w \in C : R = C \ {w})
             /\ ~SomeOwn(f, C) => R = {}
           P == {n \in Nat : n <= Len(s) => Done(n, h[n])}
<1>6. 0 \in P
  BY <1>5 DEF Filters, Yielded
<1>7. ASSUME NEW n \in Nat, n \in P PROVE n + 1 \in P
  <2>1. SUFFICES ASSUME n + 1 <= Len(s) PROVE Done(n + 1, h[n + 1])
    OBVIOUS
  <2>2. n + 1 \in 1..Len(s) /\ (n + 1) - 1 = n /\ n \in 0..Len(s) /\ n + 1 \in DOMAIN s /\ n <= Len(s)
    BY <1>4, <2>1
  <2>3. Done(n, h[n])
    BY <1>7, <2>2
  <2>4. PICK R, Q, k : R = h[n] /\ Q = h[n + 1] /\ k = n + 1
    OBVIOUS
  <2>5. R \in SUBSET C /\ Q = IF s[k] \in R THEN R ELSE Against(f, s[k], s, R)
    BY <1>5, <2>2, <2>4 DEF Filters
  <2>6. s[k] \in C /\ k \in 1..Len(s) /\ \A i \in 1..k : i = k \/ i \in 1..n
    BY <1>4, <2>2, <2>4
  <2>7. CASE s[k] \in R
    <3>1. Q = R
      BY <2>5, <2>7
    <3>2. (\A i \in 1..n : HasOwn(f, s[i]) => s[i] \in R)
            => \A i \in 1..k : HasOwn(f, s[i]) => s[i] \in R
      BY <2>6, <2>7
    <3>3. QED
      BY <2>3, <2>4, <3>1, <3>2
  <2>8. CASE s[k] \notin R /\ HasOwn(f, s[k])
    <3>1. Q = Against(f, s[k], s, R) /\ Yielded(f, C, R)
      BY <2>3, <2>4, <2>5, <2>8
    <3>2. /\ Q \in SUBSET C /\ R \subseteq Q /\ Yielded(f, C, Q)
          /\ s[k] \in Q \/ Q = C \ {s[k]}
      BY <1>3, <1>4, <2>5, <2>6, <2>8, <3>1, AgainstKeeps
    <3>3. SomeOwn(f, C)
      BY <2>6, <2>8 DEF SomeOwn
    <3>4. CASE \A i \in 1..n : HasOwn(f, s[i]) => s[i] \in R
      <4>1. CASE s[k] \in Q
        BY <2>4, <2>6, <3>2, <3>4, <3>3, <4>1
      <4>2. CASE Q = C \ {s[k]}
        BY <2>4, <2>6, <3>2, <3>3, <4>2
      <4>3. QED
        BY <3>2, <4>1, <4>2
    <3>5. CASE \E w \in C : R = C \ {w}
      <4>1. PICK w \in C : R = C \ {w}
        BY <3>5
      <4>2. w = s[k]
        BY <2>6, <2>8, <4>1
      <4>3. Q = C \ {s[k]} \/ Q = C
        BY <3>2, <4>1, <4>2
      <4>4. Q # C
        BY <3>2 DEF Yielded
      <4>5. QED
        BY <2>4, <2>6, <3>2, <3>3, <4>3, <4>4
    <3>6. QED
      BY <2>3, <2>4, <3>4, <3>5
  <2>9. CASE s[k] \notin R /\ ~HasOwn(f, s[k])
    <3>1. Q = R
      BY <2>5, <2>9, AgainstNothing
    <3>2. (\A i \in 1..n : HasOwn(f, s[i]) => s[i] \in R)
            => \A i \in 1..k : HasOwn(f, s[i]) => s[i] \in R
      BY <2>6, <2>9
    <3>3. QED
      BY <2>3, <2>4, <3>1, <3>2
  <2>10. QED
    BY <2>7, <2>8, <2>9
<1>8. Len(s) \in P
  <2> HIDE DEF P
  <2>1. QED
    BY <1>4, <1>6, <1>7, SetInduction
<1>9. PICK R : R = Rejected(f, scops)
  OBVIOUS
<1>10. Done(Len(s), R) /\ R \in SUBSET C
  BY <1>4, <1>5, <1>8, <1>9 DEF Filters
<1>11. CASE ~SomeOwn(f, C)
  BY <1>9, <1>10, <1>11 DEF OneOrAll
<1>12. CASE SomeOwn(f, C)
  <2>1. R # C
    BY <1>10, <1>12 DEF Yielded, SomeOwn
  <2>2. ASSUME \A i \in 1..Len(s) : HasOwn(f, s[i]) => s[i] \in R PROVE FALSE
    <3>1. \A r \in C : HasOwn(f, r) => r \in R
      BY <1>3, <1>4, <2>2 DEF ToSet
    <3>2. PICK r \in C : HasOwn(f, r)
      BY <1>12 DEF SomeOwn
    <3>3. PICK q \in C \ R : Size(f, r) <= Size(f, q)
      BY <1>10, <3>1, <3>2 DEF Yielded
    <3>4. ~HasOwn(f, q)
      BY <3>1, <3>3
    <3>5. Size(f, q) = 0
      BY <3>4, FS_EmptySet DEF HasOwn, Size
    <3>6. Size(f, r) \in Nat /\ Size(f, r) # 0
      BY <3>2, FS_CardinalityType, FS_EmptySet DEF HasOwn, Sized, Size
    <3>7. QED
      BY <3>3, <3>5, <3>6
  <2>3. PICK w \in C : R = C \ {w}
    BY <1>10, <2>2
  <2>4. Size(f, w) <= Size(f, w)
    <3>1. Size(f, w) \in Nat
      BY FS_CardinalityType DEF Sized, Size
    <3>2. QED
      BY <3>1
  <2>5. \A r \in C : Size(f, r) <= Size(f, w)
    BY <1>10, <2>3, <2>4 DEF Yielded
  <2>6. QED
    BY <1>9, <1>12, <2>3, <2>5 DEF OneOrAll, Survives
<1>13. QED
  BY <1>11, <1>12

-----------------------------------------------------------------------------
(* The function is one that the compiler may meet, with its analyses; the  *)
(* regions Polly has accepted are not those it has rejected; and the       *)
(* filter has been applied to what it found.                               *)
FnOk == \E f \in Functions : fn.regions = f.regions /\ fn.blocks = Analysed(f).blocks
Found == JitableScops \o valid
FilterInv ==
  /\ FnOk
  /\ valid \in Seq(Regions(fn)) /\ IsInjective(valid)
  /\ rejected \in Seq([region : Regions(fn), log : Reasons])
  /\ IsInjective(RejectedRegions)
  /\ Rejects \cap ToSet(valid) = {}
  /\ enabled /\ pc # "detect" => all = Candidates \ Rejected(fn, Found)

(* There are finitely many regions, and each has finitely many blocks of   *)
(* its own.                                                                *)
LEMMA FunctionIsFine ==
  ASSUME FnOk
  PROVE  /\ \E T : fn.regions \in Seq(T)
         /\ IsFiniteSet(Regions(fn))
         /\ Sized(fn, Regions(fn))
<1>1. PICK f \in Functions : fn.regions = f.regions /\ fn.blocks = Analysed(f).blocks
  BY DEF FnOk
<1>2. f.regions \in Seq([entry : Blocks(f), exit : Blocks(f)]) /\ f.preds \in Seq(Seq(Blocks(f)))
  BY FunctionsAssumption
<1>3. PICK T : fn.regions \in Seq(T)
  BY <1>1, <1>2
<1>4. IsFiniteSet(Blocks(f))
  <2>1. Blocks(f) = 1..Len(f.preds) /\ Len(f.preds) \in Nat
    BY <1>2 DEF Blocks
  <2>2. PICK one : one = 1
    OBVIOUS
  <2>3. one \in Int /\ Len(f.preds) \in Int
    BY <2>1, <2>2
  <2>4. IsFiniteSet(one..Len(f.preds))
    BY <2>3, FS_Interval
  <2>5. QED
    BY <2>1, <2>2, <2>4
<1>5. IsFiniteSet(Regions(fn))
  <2>1. DOMAIN fn.regions = 1..Len(fn.regions) /\ Len(fn.regions) \in Nat
    BY <1>3
  <2>2. PICK one, D : one = 1 /\ D = 1..Len(fn.regions)
    OBVIOUS
  <2>3. one \in Int /\ Len(fn.regions) \in Int
    BY <2>1, <2>2
  <2>4. IsFiniteSet(one..Len(fn.regions))
    BY <2>3, FS_Interval
  <2>5. IsFiniteSet(D)
    BY <2>2, <2>4
  <2>6. fn.regions \in Surjection(D, Regions(fn))
    <3>1. fn.regions = [i \in D |-> fn.regions[i]]
      BY <1>3, <2>1, <2>2
    <3>2. \A i \in D : fn.regions[i] \in Regions(fn)
      BY <2>1, <2>2 DEF Regions, ToSet
    <3>3. \A r \in Regions(fn) : \E i \in D : fn.regions[i] = r
      BY <2>1, <2>2 DEF Regions, ToSet
    <3>4. QED
      BY <3>1, <3>2, <3>3 DEF Surjection
  <2>7. QED
    BY <2>5, <2>6, FS_Surjection
<1>6. Regions(fn) = Regions(f)
  BY <1>1 DEF Regions
<1>7. ASSUME NEW r \in Regions(fn) PROVE IsFiniteSet(Elements(fn, r))
  <2>1. Elements(fn, r) \subseteq fn.blocks[r]
    BY DEF Elements
  <2>2. fn.blocks[r] \subseteq Blocks(f)
    BY <1>1, <1>6 DEF Analysed
  <2>3. Elements(fn, r) \in SUBSET Blocks(f)
    BY <2>1, <2>2
  <2>4. QED
    BY <1>4, <2>3, FS_Subset
<1>8. QED
  BY <1>3, <1>5, <1>7 DEF Sized

(* An order of the elements of a finite set holds each of them once.       *)
LEMMA OrderIs ==
  ASSUME NEW S, IsFiniteSet(S), NEW s \in SetToSeqs(S)
  PROVE  s \in Seq(S) /\ IsInjective(s) /\ ToSet(s) = S
<1>1. PICK n \in Nat : n = Cardinality(S)
  BY FS_CardinalityType
<1>2. s \in [1..n -> S] /\ \A i, j \in 1..n : i # j => s[i] # s[j]
  BY <1>1 DEF SetToSeqs
<1>3. s \in Seq(S) /\ DOMAIN s = 1..n /\ Len(s) = n
  BY <1>2
<1>4. IsInjective(s)
  BY <1>2, <1>3 DEF IsInjective
<1>5. Cardinality(ToSet(s)) = n
  BY <1>3, <1>4, InjectiveLength
<1>6. PICK R : R = ToSet(s)
  OBVIOUS
<1>7. R \in SUBSET S
  BY <1>2, <1>3, <1>6 DEF ToSet
<1>8. R = S
  BY <1>1, <1>5, <1>6, <1>7, FS_Subset
<1>9. QED
  BY <1>3, <1>4, <1>6, <1>8

(* Two sequences without duplicates that have nothing in common.           *)
LEMMA ConcatInjective ==
  ASSUME NEW T, NEW s \in Seq(T), NEW t \in Seq(T), IsInjective(s), IsInjective(t),
         ToSet(s) \cap ToSet(t) = {}
  PROVE  IsInjective(s \o t)
<1> DEFINE u == s \o t
<1>1. /\ Len(s) \in Nat /\ Len(t) \in Nat /\ DOMAIN s = 1..Len(s) /\ DOMAIN t = 1..Len(t)
      /\ DOMAIN u = 1..(Len(s) + Len(t))
      /\ \A i \in DOMAIN u : u[i] = IF i <= Len(s) THEN s[i] ELSE t[i - Len(s)]
  OBVIOUS
<1> HIDE DEF u
<1>2. ASSUME NEW i \in DOMAIN u, NEW j \in DOMAIN u, u[i] = u[j] PROVE i = j
  <2>1. CASE i <= Len(s) /\ j <= Len(s)
    <3>1. i \in DOMAIN s /\ j \in DOMAIN s /\ s[i] = s[j]
      BY <1>1, <1>2, <2>1
    <3>2. QED
      BY <3>1 DEF IsInjective
  <2>2. CASE ~ (i <= Len(s)) /\ ~ (j <= Len(s))
    <3>1. PICK a, b : a = i - Len(s) /\ b = j - Len(s)
      OBVIOUS
    <3>2. a \in DOMAIN t /\ b \in DOMAIN t /\ t[a] = t[b]
      BY <1>1, <1>2, <2>2, <3>1
    <3>3. a = b
      BY <3>2 DEF IsInjective
    <3>4. QED
      BY <1>1, <3>1, <3>3
  <2>3. CASE i <= Len(s) /\ ~ (j <= Len(s))
    <3>1. PICK b : b = j - Len(s)
      OBVIOUS
    <3>2. i \in DOMAIN s /\ b \in DOMAIN t /\ s[i] = t[b]
      BY <1>1, <1>2, <2>3, <3>1
    <3>3. QED
      BY <3>2 DEF ToSet
  <2>4. CASE ~ (i <= Len(s)) /\ j <= Len(s)
    <3>1. PICK a : a = i - Len(s)
      OBVIOUS
    <3>2. j \in DOMAIN s /\ a \in DOMAIN t /\ s[j] = t[a]
      BY <1>1, <1>2, <2>4, <3>1
    <3>3. QED
      BY <3>2 DEF ToSet
  <2>5. QED
    BY <2>1, <2>2, <2>3, <2>4
<1>3. QED
  BY <1>2 DEF IsInjective, u

(* What is filtered are the candidates, each once.                         *)
LEMMA FoundIs ==
  ASSUME FilterInv
  PROVE  Found \in Seq(Regions(fn)) /\ IsInjective(Found) /\ ToSet(Found) = Candidates
         /\ JitableScops \in Seq(Regions(fn)) /\ IsInjective(JitableScops)
<1>1. PICK T : T = Regions(fn)
  OBVIOUS
<1>2. RejectedRegions \in Seq(T) /\ ToSet(RejectedRegions) = Rejects
  <2>1. rejected \in Seq([region : T, log : Reasons])
    BY <1>1 DEF FilterInv
  <2>2. DOMAIN rejected = 1..Len(rejected) /\ Len(rejected) \in Nat
        /\ \A i \in DOMAIN rejected : rejected[i].region \in T
    <3>1. PICK P : P = [region : T, log : Reasons]
      OBVIOUS
    <3>2. rejected \in Seq(P)
      BY <2>1, <3>1
    <3>3. DOMAIN rejected = 1..Len(rejected) /\ Len(rejected) \in Nat
          /\ \A i \in DOMAIN rejected : rejected[i] \in P
      BY <3>2
    <3>4. QED
      BY <3>1, <3>3
  <2>3. RejectedRegions \in [1..Len(rejected) -> T]
        /\ \A i \in DOMAIN rejected : RejectedRegions[i] = rejected[i].region
    BY <2>2 DEF RejectedRegions
  <2>4. DOMAIN RejectedRegions = DOMAIN rejected
    BY DEF RejectedRegions
  <2>5. QED
    BY <2>2, <2>3, <2>4 DEF ToSet, Rejects
<1>3. PICK S : S = {e.region : e \in {l \in ToSet(rejected) : Jitable(fn, l.region, l.log)}}
  OBVIOUS
<1>4. JitableScops = Among(RejectedRegions, S)
  BY <1>3 DEF JitableScops
<1>5. JitableScops \in Seq(T) /\ ToSet(JitableScops) = Rejects \cap S
      /\ (IsInjective(RejectedRegions) => IsInjective(JitableScops))
  BY <1>2, <1>4, AmongKeeps
<1>6. IsInjective(JitableScops) /\ ToSet(JitableScops) \cap ToSet(valid) = {}
      /\ valid \in Seq(T) /\ IsInjective(valid)
  BY <1>1, <1>5 DEF FilterInv
<1>7. PICK j : j = JitableScops
  OBVIOUS
<1>8. j \o valid \in Seq(T)
  BY <1>5, <1>6, <1>7
<1>9. ToSet(j \o valid) = ToSet(j) \cup ToSet(valid)
  BY <1>5, <1>6, <1>7, ConcatElements
<1>10. IsInjective(j \o valid)
  BY <1>5, <1>6, <1>7, ConcatInjective
<1>11. QED
  BY <1>1, <1>5, <1>6, <1>7, <1>8, <1>9, <1>10 DEF Found, Candidates

-----------------------------------------------------------------------------
(* Polly's valid regions and those its log has rejected are different      *)
(* ones, in whichever order the compiler visits them.                      *)
LEMMA FilterInit == Init => FilterInv
<1>1. SUFFICES ASSUME Init PROVE FilterInv
  OBVIOUS
<1>2. PICK g \in Functions : \E p : fn = [Analysed(g) EXCEPT !.preds = p]
  BY <1>1 DEF Init
<1>3. fn.regions = g.regions /\ fn.blocks = Analysed(g).blocks
  BY <1>2 DEF Analysed
<1>4. FnOk
  BY <1>3 DEF FnOk
<1>5. PICK S \in MayBeValid(fn) :
        /\ valid \in SetToSeqs(Expanded(fn, S))
        /\ \E order \in SetToSeqs(Visited(fn, S)) :
             rejected \in {[i \in DOMAIN order |-> [region |-> order[i], log |-> l[i]]] :
                            l \in [DOMAIN order -> Reasons]}
  BY <1>1 DEF Init
<1>6. PICK order \in SetToSeqs(Visited(fn, S)) :
        \E l \in [DOMAIN order -> Reasons] :
          rejected = [i \in DOMAIN order |-> [region |-> order[i], log |-> l[i]]]
  BY <1>5
<1>7. PICK l \in [DOMAIN order -> Reasons] :
        rejected = [i \in DOMAIN order |-> [region |-> order[i], log |-> l[i]]]
  BY <1>6
<1>8. PICK T, V, E : T = Regions(fn) /\ V = Visited(fn, S) /\ E = Expanded(fn, S)
  OBVIOUS
<1>9. IsFiniteSet(T) /\ E \in SUBSET T /\ V \in SUBSET T /\ V \cap E = {}
  <2>1. IsFiniteSet(T)
    BY <1>4, <1>8, FunctionIsFine
  <2>2. S \in SUBSET T
    BY <1>5, <1>8 DEF MayBeValid, Canonical
  <2>3. \A r \in S : r \in {q \in Regions(fn) : fn.blocks[q] \subseteq fn.blocks[r]}
    BY <1>8, <2>2
  <2>4. V \in SUBSET T /\ V \cap S = {} /\ V \cap fn.expanded = {}
    BY <1>8, <2>3 DEF Visited, Canonical
  <2>5. fn.expanded \in SUBSET T
    BY <1>2, <1>3, <1>8, FunctionsAssumption DEF Analysed, Regions
  <2>6. E \in SUBSET (S \cup fn.expanded)
    BY <1>8 DEF Expanded
  <2>7. QED
    BY <2>1, <2>2, <2>4, <2>5, <2>6
<1>10. IsFiniteSet(E) /\ IsFiniteSet(V)
  BY <1>9, FS_Subset
<1>11. valid \in Seq(E) /\ IsInjective(valid) /\ ToSet(valid) = E
  <2>1. valid \in SetToSeqs(E)
    BY <1>5, <1>8
  <2>2. QED
    BY <1>10, <2>1, OrderIs
<1>12. order \in Seq(V) /\ IsInjective(order) /\ ToSet(order) = V
  <2>1. order \in SetToSeqs(V)
    BY <1>6, <1>8
  <2>2. QED
    BY <1>10, <2>1, OrderIs
<1>13. valid \in Seq(T)
  BY <1>9, <1>11
<1>14. DOMAIN order = 1..Len(order) /\ Len(order) \in Nat /\ \A i \in DOMAIN order : order[i] \in T
  BY <1>9, <1>12
<1>15. /\ rejected \in [1..Len(order) -> [region : T, log : Reasons]]
       /\ DOMAIN rejected = DOMAIN order
       /\ \A i \in DOMAIN order : rejected[i].region = order[i]
  <2>1. \A i \in DOMAIN order : [region |-> order[i], log |-> l[i]] \in [region : T, log : Reasons]
    BY <1>14
  <2>2. DOMAIN rejected = DOMAIN order
        /\ \A i \in DOMAIN order : rejected[i] = [region |-> order[i], log |-> l[i]]
    BY <1>7
  <2>3. rejected = [i \in 1..Len(order) |-> rejected[i]]
    BY <1>14, <1>7
  <2>4. PICK P : P = [region : T, log : Reasons]
    OBVIOUS
  <2>5. \A i \in 1..Len(order) : rejected[i] \in P
    BY <1>14, <2>1, <2>2, <2>4
  <2>6. rejected \in [1..Len(order) -> P]
    BY <2>3, <2>5
  <2>7. \A i \in DOMAIN order : rejected[i].region = order[i]
    BY <2>2
  <2>8. QED
    BY <2>2, <2>4, <2>6, <2>7
<1>16. rejected \in Seq([region : T, log : Reasons])
  <2>1. PICK P : P = [region : T, log : Reasons]
    OBVIOUS
  <2>2. rejected \in [1..Len(order) -> P]
    BY <1>15, <2>1
  <2>3. rejected \in Seq(P)
    BY <1>14, <2>2
  <2>4. QED
    BY <2>1, <2>3
<1>17. RejectedRegions = order
  <2>1. RejectedRegions = [i \in DOMAIN order |-> order[i]]
    BY <1>15 DEF RejectedRegions
  <2>2. order = [i \in DOMAIN order |-> order[i]]
    BY <1>12
  <2>3. QED
    BY <2>1, <2>2
<1>18. Rejects = V
  <2>1. Rejects = {order[i] : i \in DOMAIN order}
    BY <1>15 DEF Rejects
  <2>2. QED
    BY <1>12, <2>1 DEF ToSet
<1>19. pc = "detect"
  BY <1>1 DEF Init
<1>20. QED
  BY <1>4, <1>8, <1>9, <1>11, <1>12, <1>13, <1>16, <1>17, <1>18, <1>19 DEF FilterInv

(* The pass leaves the function and Polly's results as they are, and keeps *)
(* of the candidates those that the filter does not reject.                *)
LEMMA FilterStep == FilterInv /\ [Next]_vars => FilterInv'
<1>1. SUFFICES ASSUME FilterInv, [Next]_vars PROVE FilterInv'
  OBVIOUS
<1>2. fn' = fn /\ valid' = valid /\ rejected' = rejected /\ enabled' = enabled
  BY <1>1 DEF Next, vars, Skip, Detect, ProcessRegion, Run, Branch
<1>3. /\ (Regions(fn))' = Regions(fn) /\ FnOk' /\ RejectedRegions' = RejectedRegions
      /\ Rejects' = Rejects /\ JitableScops' = JitableScops
  BY <1>1, <1>2 DEF FilterInv, FnOk, RejectedRegions, Rejects, JitableScops
<1>4. Found' = Found /\ Candidates' = Candidates
      /\ (Rejected(fn, Found))' = Rejected(fn, Found)
  BY <1>2, <1>3 DEF Found, Candidates
<1>5. enabled /\ pc' # "detect" => all' = Candidates \ Rejected(fn, Found)
  <2>1. CASE Detect
    BY <2>1 DEF Detect, Found, Candidates
  <2>2. CASE Skip
    BY <2>2 DEF Skip
  <2>3. CASE ProcessRegion \/ Run \/ Branch
    BY <1>1, <2>3 DEF ProcessRegion, Run, Branch, FilterInv
  <2>4. CASE UNCHANGED vars
    BY <1>1, <2>4 DEF vars, FilterInv
  <2>5. QED
    BY <1>1, <2>1, <2>2, <2>3, <2>4 DEF Next
<1>6. QED
  BY <1>1, <1>2, <1>3, <1>4, <1>5 DEF FilterInv

(***************************************************************************)
(* In every reachable state the function is one that RegionInfo describes, *)
(* Polly's results are those it has of its regions, and the scops that     *)
(* have been accumulated are the candidates that the filter leaves.        *)
(***************************************************************************)
THEOREM FilterInvariant == Spec => []FilterInv
<1>1. QED
  BY FilterInit, FilterStep, PTL DEF Spec

(* The result is that of the filter on the candidates in any other order.  *)
LEMMA FilterPredicts == FilterInv => Predictable
<1>1. SUFFICES ASSUME FilterInv, Filtered, NEW s \in SetToSeqs(Candidates)
               PROVE  all = Candidates \ Rejected(fn, s)
  BY DEF Predictable
<1>2. all = Candidates \ Rejected(fn, Found)
  BY <1>1 DEF FilterInv, Filtered
<1>3. Found \in Seq(Regions(fn)) /\ IsInjective(Found) /\ ToSet(Found) = Candidates
  BY <1>1, FoundIs
<1>4. PICK f, q, C : f = fn /\ q = Found /\ C = Candidates
  OBVIOUS
<1>5. PICK T : f.regions \in Seq(T)
  BY <1>1, <1>4, FunctionIsFine DEF FilterInv
<1>6. q \in Seq(Regions(f)) /\ IsInjective(q) /\ ToSet(q) = C
  BY <1>3, <1>4
<1>7. C \subseteq Regions(f) /\ IsFiniteSet(C)
  <2>1. IsFiniteSet(C)
    BY <1>6, InjectiveLength
  <2>2. C \subseteq Regions(f)
    BY <1>6 DEF ToSet
  <2>3. QED
    BY <2>1, <2>2
<1>8. s \in Seq(C) /\ IsInjective(s) /\ ToSet(s) = C
  <2>1. s \in SetToSeqs(C)
    BY <1>4
  <2>2. QED
    BY <1>7, <2>1, OrderIs
<1>9. s \in Seq(Regions(f))
  BY <1>7, <1>8
<1>10. Rejected(f, q) = Rejected(f, s)
  BY <1>5, <1>6, <1>8, <1>9, SameRejected
<1>11. QED
  BY <1>2, <1>4, <1>10

(* Once the filter has run, one candidate is left, and none has more       *)
(* blocks of its own; if none has any, all candidates are left.            *)
OneIsLeft ==
  enabled /\ pc # "detect" =>
    IF \E r \in Candidates : OwnBlocks(r) > 0
      THEN \E r \in Candidates : all = {r} /\ \A q \in Candidates : OwnBlocks(q) <= OwnBlocks(r)
      ELSE all = Candidates

LEMMA FilterLeavesOne == FilterInv => OneIsLeft
<1>1. SUFFICES ASSUME FilterInv, enabled, pc # "detect"
               PROVE  IF \E r \in Candidates : OwnBlocks(r) > 0
                        THEN \E r \in Candidates :
                               all = {r} /\ \A q \in Candidates : OwnBlocks(q) <= OwnBlocks(r)
                        ELSE all = Candidates
  BY DEF OneIsLeft
<1>2. all = Candidates \ Rejected(fn, Found)
  BY <1>1 DEF FilterInv
<1>3. PICK f, q, C, R : f = fn /\ q = Found /\ C = Candidates /\ R = Rejected(fn, Found)
  OBVIOUS
<1>4. q \in Seq(Regions(f)) /\ IsInjective(q) /\ ToSet(q) = C
  BY <1>1, <1>3, FoundIs
<1>5. PICK T : f.regions \in Seq(T)
  BY <1>1, <1>3, FunctionIsFine DEF FilterInv
<1>6. C \subseteq Regions(f)
  BY <1>4 DEF ToSet
<1>7. Sized(f, C)
  BY <1>1, <1>3, <1>6, FunctionIsFine DEF FilterInv, Sized
<1>8. OneOrAll(f, C, R)
  BY <1>3, <1>4, <1>5, <1>7, OneSurvives
<1>9. ASSUME NEW r \in C PROVE HasOwn(f, r) <=> OwnBlocks(r) > 0
  <2>1. OwnBlocks(r) = Cardinality(Elements(f, r)) /\ IsFiniteSet(Elements(f, r))
    BY <1>3, <1>7 DEF OwnBlocks, Sized
  <2>2. Cardinality(Elements(f, r)) \in Nat
        /\ (Cardinality(Elements(f, r)) = 0 <=> Elements(f, r) = {})
    BY <2>1, FS_CardinalityType, FS_EmptySet
  <2>3. QED
    BY <2>1, <2>2 DEF HasOwn
<1>10. \A r : Size(f, r) = OwnBlocks(r)
  BY <1>3 DEF Size, OwnBlocks
<1>11. CASE SomeOwn(f, C)
  <2>1. PICK w \in C : R = C \ {w} /\ \A r \in C : Size(f, r) <= Size(f, w)
    BY <1>8, <1>11 DEF OneOrAll, Survives
  <2>2. all = {w} /\ \A r \in C : OwnBlocks(r) <= OwnBlocks(w)
    BY <1>2, <1>3, <1>10, <2>1
  <2>3. \E r \in C : OwnBlocks(r) > 0
    BY <1>9, <1>11 DEF SomeOwn
  <2>4. QED
    BY <1>3, <2>2, <2>3
<1>12. CASE ~SomeOwn(f, C)
  <2>1. R = {}
    BY <1>8, <1>12 DEF OneOrAll
  <2>2. ~ \E r \in C : OwnBlocks(r) > 0
    BY <1>9, <1>12 DEF SomeOwn
  <2>3. QED
    BY <1>2, <1>3, <2>1, <2>2
<1>13. QED
  BY <1>11, <1>12

(* No other with a block of its own is left beside it, and each candidate  *)
(* has given way to one with as many.                                      *)
LEMMA FilterKeepsLargest == FilterInv => LargestKept
<1>1. SUFFICES ASSUME FilterInv, Filtered
               PROVE  /\ \A r, q \in all : r # q => OwnBlocks(r) = 0 /\ OwnBlocks(q) = 0
                      /\ \A r \in Candidates : \E q \in all : OwnBlocks(q) >= OwnBlocks(r)
  BY DEF LargestKept
<1>2. enabled /\ pc # "detect"
  BY <1>1 DEF Filtered
<1>3. ASSUME NEW r \in Candidates PROVE OwnBlocks(r) \in Nat
  <2>1. r \in Regions(fn)
    <3>1. PICK q, T, C : q = Found /\ T = Regions(fn) /\ C = Candidates
      OBVIOUS
    <3>2. q \in Seq(T) /\ ToSet(q) = C
      BY <1>1, <3>1, FoundIs
    <3>3. C \subseteq T
      BY <3>2 DEF ToSet
    <3>4. QED
      BY <3>1, <3>3
  <2>2. IsFiniteSet(Elements(fn, r))
    BY <1>1, <2>1, FunctionIsFine DEF FilterInv, Sized
  <2>3. QED
    BY <2>2, FS_CardinalityType DEF OwnBlocks
<1>4. CASE \E r \in Candidates : OwnBlocks(r) > 0
  <2>1. PICK w \in Candidates : all = {w} /\ \A r \in Candidates : OwnBlocks(r) <= OwnBlocks(w)
    BY <1>1, <1>2, <1>4, FilterLeavesOne DEF OneIsLeft
  <2>2. \A r \in Candidates : OwnBlocks(r) <= OwnBlocks(w) => OwnBlocks(w) >= OwnBlocks(r)
    BY <1>3
  <2>3. QED
    BY <2>1, <2>2
<1>5. CASE ~ \E r \in Candidates : OwnBlocks(r) > 0
  <2>1. all = Candidates
    BY <1>1, <1>2, <1>5, FilterLeavesOne DEF OneIsLeft
  <2>2. \A r \in Candidates : OwnBlocks(r) = 0
    BY <1>3, <1>5
  <2>3. QED
    BY <1>3, <2>1, <2>2
<1>6. QED
  BY <1>4, <1>5

(***************************************************************************)
(* Which regions detection leaves does not depend on where they are in     *)
(* memory, though the sets it keeps them in are ordered by address.        *)
(***************************************************************************)
THEOREM FilterIsPredictable == Spec => []Predictable
<1>1. QED
  BY FilterInvariant, FilterPredicts, PTL

(***************************************************************************)
(* Two candidates are left only if neither has a block of its own; and     *)
(* each that is not left has given way to one with at least as many.       *)
(***************************************************************************)
THEOREM LargestIsKept == Spec => []LargestKept
<1>1. QED
  BY FilterInvariant, FilterKeepsLargest, PTL

(***************************************************************************)
(* The filter leaves exactly one region of a function, if a candidate has  *)
(* a block of its own, and all of them otherwise: the regions it means to  *)
(* drop are those that share blocks with another one, but it compares a    *)
(* region's blocks with the region itself.                                 *)
(***************************************************************************)
THEOREM OneRegionIsLeft == Spec => []OneIsLeft
<1>1. QED
  BY FilterInvariant, FilterLeavesOne, PTL

-----------------------------------------------------------------------------
(* A set of blocks is closed if it has each block with one of its          *)
(* predecessors. A graph is connected if only the set of all blocks is     *)
(* closed and has the first one.                                           *)
Closed(P, X) == \A b \in DOMAIN P : ToSet(P[b]) \cap X # {} => b \in X
Connected(P) == \A X \in SUBSET DOMAIN P : 1 \in X /\ Closed(P, X) => X = DOMAIN P

(* What can be reached from the first block in n steps.                    *)
Reaches(h, P) ==
  /\ h[0] = {1}
  /\ \A n \in 1..Len(P) : h[n] = h[n - 1] \cup {b \in DOMAIN P : ToSet(P[b]) \cap h[n - 1] # {}}

(* ReachedFrom is the last of them.                                        *)
LEMMA ReachedSteps ==
  ASSUME NEW f, NEW P, f.preds = P, NEW T, P \in Seq(T), 1 \in DOMAIN P
  PROVE  \E h \in [0..Len(P) -> SUBSET DOMAIN P] : Reaches(h, P) /\ ReachedFrom(f, 1, {}) = h[Len(P)]
<1> DEFINE N == Len(P)
           A == SUBSET DOMAIN P
           more(X) == X \cup {b \in DOMAIN P \ {} : ToSet(P[b]) \cap X # {}}
           step == [n \in 1..N |-> [X \in A |-> more(X)]]
           r == CHOOSE r : r = [n \in 0..N |-> IF n = 0 THEN {1} \ {} ELSE more(r[n - 1])]
<1>1. N \in Nat /\ {1} \in A
  OBVIOUS
<1>2. ReachedFrom(f, 1, {}) = r[N]
  BY DEF ReachedFrom, Blocks
<1>3. step \in [1..N -> [A -> A]]
  OBVIOUS
<1>4. PICK h \in [0..N -> A] : h[0] = {1} /\ \A n \in 1..N : h[n] = step[n][h[n - 1]]
  <2> HIDE DEF step, A, N
  <2>1. PICK base : base = {1}
    OBVIOUS
  <2>2. base \in A /\ N \in Nat
    BY <1>1, <2>1
  <2>3. \E h \in [0..N -> A] : DefinedBy(h, base, N, step)
    BY <1>3, <2>2, RecursionTo
  <2>4. QED
    BY <2>1, <2>3 DEF DefinedBy
<1>5. \A n \in 1..N : h[n] = more(h[n - 1])
  <2>1. ASSUME NEW n \in 1..N PROVE h[n] = more(h[n - 1])
    <3>1. n - 1 \in 0..N
      BY <1>1
    <3>2. PICK X : X = h[n - 1]
      OBVIOUS
    <3>3. X \in A
      <4> HIDE DEF A, N
      <4>1. QED
        BY <3>1, <3>2
    <3>4. step[n][X] = more(X)
      BY <3>3
    <3> HIDE DEF step, more
    <3>5. QED
      BY <1>4, <3>2, <3>4
  <2>2. QED
    BY <2>1
<1>6. h = [n \in 0..N |-> IF n = 0 THEN {1} \ {} ELSE more(h[n - 1])]
  <2>1. \A n \in 0..N : n = 0 \/ n \in 1..N
    BY <1>1
  <2>2. {1} \ {} = {1}
    OBVIOUS
  <2> HIDE DEF N, A, more
  <2>3. QED
    BY <1>4, <1>5, <2>1, <2>2
<1>7. r = [n \in 0..N |-> IF n = 0 THEN {1} \ {} ELSE more(r[n - 1])]
  <2> HIDE DEF N, A, more, step
  <2>1. QED
    BY <1>6
<1> HIDE DEF r
<1> DEFINE S == {n \in Nat : n <= N => r[n] = h[n]}
<1>8. 0 \in S
  <2> HIDE DEF N
  <2>1. 0 \in 0..N
    BY <1>1
  <2>2. r[0] = {1} \ {} /\ h[0] = {1} \ {}
    BY <1>6, <1>7, <2>1
  <2>3. QED
    BY <2>2
<1>9. ASSUME NEW n \in Nat, n \in S PROVE n + 1 \in S
  <2>1. SUFFICES ASSUME n + 1 <= N PROVE r[n + 1] = h[n + 1]
    OBVIOUS
  <2>2. n + 1 \in 0..N /\ n + 1 # 0 /\ (n + 1) - 1 = n /\ r[n] = h[n]
    BY <1>1, <1>9, <2>1
  <2> HIDE DEF N, S, more
  <2>3. r[n + 1] = more(r[n])
    BY <1>7, <2>2
  <2>4. h[n + 1] = more(h[n])
    BY <1>6, <2>2
  <2>5. QED
    BY <2>2, <2>3, <2>4
<1>10. N \in S
  <2> HIDE DEF S, N
  <2>1. QED
    BY <1>1, <1>8, <1>9, SetInduction
<1>11. Reaches(h, P) /\ r[N] = h[N]
  <2>1. DOMAIN P \ {} = DOMAIN P
    OBVIOUS
  <2>2. QED
    BY <1>1, <1>4, <1>5, <1>10, <2>1 DEF Reaches
<1> HIDE DEF S
<1>12. QED
  BY <1>2, <1>4, <1>11

(* All blocks are reached exactly in connected graphs.                     *)
LEMMA ReachedMeansConnected ==
  ASSUME NEW f, NEW P, f.preds = P, NEW T, P \in Seq(T), 1 \in DOMAIN P,
         ReachedFrom(f, 1, {}) = DOMAIN P
  PROVE  Connected(P)
<1>1. PICK h \in [0..Len(P) -> SUBSET DOMAIN P] : Reaches(h, P) /\ ReachedFrom(f, 1, {}) = h[Len(P)]
  BY ReachedSteps
<1>2. SUFFICES ASSUME NEW X \in SUBSET DOMAIN P, 1 \in X, Closed(P, X)
               PROVE  X = DOMAIN P
  BY DEF Connected
<1> DEFINE S == {n \in Nat : n <= Len(P) => h[n] \subseteq X}
<1>3. Len(P) \in Nat
  OBVIOUS
<1>4. 0 \in S
  BY <1>1, <1>2 DEF Reaches
<1>5. ASSUME NEW n \in Nat, n \in S PROVE n + 1 \in S
  <2>1. SUFFICES ASSUME n + 1 <= Len(P) PROVE h[n + 1] \subseteq X
    OBVIOUS
  <2>2. n + 1 \in 1..Len(P) /\ (n + 1) - 1 = n /\ h[n] \subseteq X
    BY <1>3, <1>5, <2>1
  <2>3. h[n + 1] = h[n] \cup {b \in DOMAIN P : ToSet(P[b]) \cap h[n] # {}}
    BY <1>1, <2>2 DEF Reaches
  <2>4. \A b \in DOMAIN P : ToSet(P[b]) \cap h[n] # {} => b \in X
    BY <1>2, <2>2 DEF Closed
  <2>5. QED
    BY <2>2, <2>3, <2>4
<1>6. Len(P) \in S
  <2> HIDE DEF S
  <2>1. QED
    BY <1>3, <1>4, <1>5, SetInduction
<1>7. QED
  BY <1>1, <1>6

(* A set of blocks that grows in every step would outgrow the graph.       *)
LEMMA ConnectedMeansReached ==
  ASSUME NEW f, NEW P, f.preds = P, NEW T, P \in Seq(T), 1 \in DOMAIN P, Connected(P)
  PROVE  ReachedFrom(f, 1, {}) = DOMAIN P
<1>1. PICK h \in [0..Len(P) -> SUBSET DOMAIN P] : Reaches(h, P) /\ ReachedFrom(f, 1, {}) = h[Len(P)]
  BY ReachedSteps
<1>2. PICK D, L : D = DOMAIN P /\ L = Len(P)
  OBVIOUS
<1>3. L \in Nat /\ D = 1..L /\ IsFiniteSet(D) /\ Cardinality(D) = L
  <2>1. L \in Nat /\ D = 1..L
    BY <1>2
  <2>2. PICK one : one = 1
    OBVIOUS
  <2>3. one \in Int /\ L \in Int /\ one..L = D
    BY <2>1, <2>2
  <2>4. IsFiniteSet(one..L) /\ Cardinality(one..L) = IF one > L THEN 0 ELSE L - one + 1
    BY <2>3, FS_Interval
  <2>5. QED
    BY <2>1, <2>2, <2>3, <2>4
<1> DEFINE S == {n \in Nat : n <= L => h[n] = D \/ (1 \in h[n] /\ Cardinality(h[n]) >= n + 1)}
<1>4. 0 \in S
  <2>1. h[0] = {1}
    BY <1>1 DEF Reaches
  <2>2. PICK one : one = 1
    OBVIOUS
  <2>3. Cardinality({one}) = 1
    BY FS_Singleton
  <2>4. Cardinality(h[0]) = 1
    BY <2>1, <2>2, <2>3
  <2>5. QED
    BY <2>1, <2>4
<1>5. ASSUME NEW n \in Nat, n \in S PROVE n + 1 \in S
  <2>1. SUFFICES ASSUME n + 1 <= L PROVE h[n + 1] = D \/ (1 \in h[n + 1] /\ Cardinality(h[n + 1]) >= n + 2)
    OBVIOUS
  <2>2. n + 1 \in 1..L /\ n \in 0..L /\ n + 1 \in 0..L /\ (n + 1) - 1 = n
    BY <1>3, <2>1
  <2>3. PICK X, Y : X = h[n] /\ Y = h[n + 1]
    OBVIOUS
  <2>4. X \in SUBSET D /\ Y \in SUBSET D
    BY <1>1, <1>2, <2>2, <2>3
  <2>5. Y = X \cup {b \in DOMAIN P : ToSet(P[b]) \cap X # {}}
    BY <1>1, <1>2, <2>2, <2>3 DEF Reaches
  <2>6. CASE X = D
    BY <2>3, <2>4, <2>5, <2>6
  <2>7. CASE X # D
    <3>1. 1 \in X /\ Cardinality(X) >= n + 1
      BY <1>5, <2>1, <2>3, <2>7
    <3>2. ~ Closed(P, X)
      BY <1>2, <2>4, <2>7, <3>1 DEF Connected
    <3>3. PICK b \in DOMAIN P : ToSet(P[b]) \cap X # {} /\ b \notin X
      BY <3>2 DEF Closed
    <3>4. b \in Y /\ X \cup {b} \subseteq Y
      BY <2>5, <3>3
    <3>5. IsFiniteSet(X) /\ IsFiniteSet(Y)
      BY <1>3, <2>4, FS_Subset
    <3>6. Cardinality(X) \in Nat /\ Cardinality(Y) \in Nat
      BY <3>5, FS_CardinalityType
    <3>7. Cardinality(X \cup {b}) = Cardinality(X) + 1
      BY <3>3, <3>5, FS_AddElement
    <3>8. Cardinality(X \cup {b}) <= Cardinality(Y)
      <4>1. PICK Z : Z = X \cup {b}
        OBVIOUS
      <4>2. Z \in SUBSET Y
        BY <3>4, <4>1
      <4>3. Cardinality(Z) <= Cardinality(Y)
        BY <3>5, <4>2, FS_Subset
      <4>4. QED
        BY <4>1, <4>3
    <3>9. QED
      BY <2>3, <3>1, <3>4, <3>6, <3>7, <3>8
  <2>8. QED
    BY <2>6, <2>7
<1>6. L \in S
  <2> HIDE DEF S
  <2>1. QED
    BY <1>3, <1>4, <1>5, SetInduction
<1>7. h[L] \in SUBSET D
  BY <1>1, <1>2, <1>3
<1>8. h[L] = D
  <2>1. PICK X : X = h[L]
    OBVIOUS
  <2>2. X = D \/ Cardinality(X) >= L + 1
    BY <1>3, <1>6, <2>1
  <2>3. Cardinality(X) <= L /\ Cardinality(X) \in Nat
    BY <1>3, <1>7, <2>1, FS_Subset, FS_CardinalityType
  <2>4. QED
    BY <1>3, <2>1, <2>2, <2>3
<1>9. QED
  BY <1>1, <1>2, <1>8

(* Use lists of a graph whose every block can be reached from the first.   *)
GoodPreds(P) ==
  /\ P \in Seq(Seq(Nat)) /\ 1 \in DOMAIN P
  /\ \A b \in DOMAIN P : ToSet(P[b]) \subseteq DOMAIN P
  /\ Connected(P)

(* Edges have gone to a new block, the last: it can be reached from b, and *)
(* what could be reached by an edge from b can be reached by one from b or *)
(* from the new block.                                                     *)
Extends(Q, P, b) ==
  /\ Q \in Seq(Seq(Nat)) /\ Len(Q) = Len(P) + 1 /\ Q[Len(Q)] = <<b>>
  /\ \A c \in DOMAIN P : ToSet(Q[c]) \subseteq DOMAIN Q
  /\ \A c \in DOMAIN P : \A q \in ToSet(P[c]) :
       q \in ToSet(Q[c]) \/ (q = b /\ Len(Q) \in ToSet(Q[c]))

(* Then all blocks can still be reached.                                   *)
LEMMA StillGood ==
  ASSUME NEW P, GoodPreds(P), NEW Q, NEW b \in DOMAIN P, Extends(Q, P, b)
  PROVE  GoodPreds(Q)
<1>1. PICK L : L = Len(P)
  OBVIOUS
<1>2. /\ L \in Nat /\ DOMAIN P = 1..L /\ DOMAIN Q = 1..(L + 1) /\ L + 1 \in DOMAIN Q
      /\ 1 \in 1..L /\ Q \in Seq(Seq(Nat)) /\ Len(Q) = L + 1 /\ Q[L + 1] = <<b>> /\ 1..L \subseteq 1..(L + 1)
  BY <1>1 DEF GoodPreds, Extends
<1>3. ToSet(Q[L + 1]) = {b}
  BY <1>2 DEF ToSet
<1>4. \A c \in DOMAIN Q : ToSet(Q[c]) \subseteq DOMAIN Q
  <2>1. \A c \in DOMAIN Q : c \in DOMAIN P \/ c = L + 1
    BY <1>2
  <2>2. b \in DOMAIN Q
    BY <1>2
  <2>3. QED
    BY <1>3, <2>1, <2>2 DEF Extends
<1>5. ASSUME NEW X \in SUBSET DOMAIN Q, 1 \in X, Closed(Q, X) PROVE X = DOMAIN Q
  <2>1. PICK Y : Y = X \cap DOMAIN P
    OBVIOUS
  <2>2. 1 \in Y /\ Y \in SUBSET DOMAIN P
    BY <1>2, <1>5, <2>1
  <2>3. b \in X => L + 1 \in X
    BY <1>2, <1>3, <1>5 DEF Closed
  <2>4. ASSUME NEW c \in DOMAIN P, ToSet(P[c]) \cap Y # {} PROVE c \in Y
    <3>1. PICK q \in ToSet(P[c]) : q \in X
      BY <2>1, <2>4
    <3>2. q \in ToSet(Q[c]) \/ (q = b /\ L + 1 \in ToSet(Q[c]))
      BY <1>2 DEF Extends
    <3>3. ToSet(Q[c]) \cap X # {}
      BY <2>3, <3>1, <3>2
    <3>4. c \in DOMAIN Q
      BY <1>2
    <3>5. QED
      BY <1>5, <2>1, <3>3, <3>4 DEF Closed
  <2>5. Y = DOMAIN P
    BY <2>2, <2>4 DEF GoodPreds, Connected, Closed
  <2>6. L + 1 \in X
    BY <2>1, <2>3, <2>5
  <2>7. DOMAIN Q = DOMAIN P \cup {L + 1}
    BY <1>2
  <2>8. QED
    BY <1>5, <2>1, <2>5, <2>6, <2>7
<1>6. Connected(Q)
  BY <1>5 DEF Connected
<1>7. 1 \in DOMAIN Q
  BY <1>2
<1>8. QED
  BY <1>2, <1>4, <1>6, <1>7 DEF GoodPreds

(* The lists are sequences of blocks.                                      *)
LEMMA GoodLists ==
  ASSUME NEW P, GoodPreds(P)
  PROVE  /\ P \in Seq(Seq(Nat)) /\ Len(P) \in Nat /\ DOMAIN P = 1..Len(P)
         /\ \A c \in 1..Len(P) : P[c] \in Seq(Nat) /\ ToSet(P[c]) \subseteq 1..Len(P)
<1>1. PICK A : A = Seq(Nat)
  OBVIOUS
<1>2. P \in Seq(A)
  BY <1>1 DEF GoodPreds
<1>3. Len(P) \in Nat /\ DOMAIN P = 1..Len(P) /\ \A c \in 1..Len(P) : P[c] \in A
  BY <1>2
<1>4. \A c \in 1..Len(P) : ToSet(P[c]) \subseteq 1..Len(P)
  BY <1>3 DEF GoodPreds
<1>5. QED
  BY <1>1, <1>2, <1>3, <1>4

(* Splitting a block leaves its predecessors above and takes its           *)
(* successors below.                                                       *)
LEMMA SplitBlockExtends ==
  ASSUME NEW g, GoodPreds(g.preds), NEW b \in DOMAIN g.preds
  PROVE  Extends(SplitBlock(g, b), g.preds, b)
<1>1. PICK P, L : P = g.preds /\ L = Len(P)
  OBVIOUS
<1>2. /\ P \in Seq(Seq(Nat)) /\ L \in Nat /\ DOMAIN P = 1..L /\ b \in 1..L
      /\ \A c \in 1..L : P[c] \in Seq(Nat) /\ ToSet(P[c]) \subseteq 1..L
  BY <1>1, GoodLists
<1>3. PICK R : R = [c \in DOMAIN P |-> ReplaceAll(P[c], b, L + 1)]
  OBVIOUS
<1>4. SplitBlock(g, b) = Append(R, <<b>>)
  BY <1>1, <1>3 DEF SplitBlock, NewBlock
<1>5. ASSUME NEW c \in 1..L
      PROVE  /\ R[c] \in Seq(Nat) /\ ToSet(R[c]) \subseteq 1..(L + 1)
             /\ \A q \in ToSet(P[c]) : q \in ToSet(R[c]) \/ (q = b /\ L + 1 \in ToSet(R[c]))
  <2>1. PICK s : s = P[c]
    OBVIOUS
  <2>2. s \in Seq(Nat) /\ DOMAIN s = 1..Len(s) /\ Len(s) \in Nat /\ \A i \in DOMAIN s : s[i] \in 1..L
    BY <1>2, <2>1 DEF ToSet
  <2>3. R[c] = [i \in 1..Len(s) |-> IF s[i] = b THEN L + 1 ELSE s[i]]
    BY <1>2, <1>3, <2>1 DEF ReplaceAll
  <2>4. \A i \in 1..Len(s) : R[c][i] \in 1..(L + 1)
    <3>1. ASSUME NEW i \in 1..Len(s) PROVE (IF s[i] = b THEN L + 1 ELSE s[i]) \in 1..(L + 1)
      <4>1. s[i] \in 1..L
        BY <2>2
      <4>2. QED
        BY <1>2, <4>1
    <3>2. QED
      BY <2>3, <3>1
  <2>5. R[c] \in [1..Len(s) -> Nat]
    <3>1. \A i \in 1..Len(s) : R[c][i] \in Nat
      BY <1>2, <2>4
    <3>2. R[c] = [i \in 1..Len(s) |-> R[c][i]]
      BY <2>3
    <3>3. QED
      BY <3>1, <3>2
  <2>6. R[c] \in Seq(Nat) /\ DOMAIN R[c] = 1..Len(s)
    <3>1. PICK r, k : r = R[c] /\ k = Len(s)
      OBVIOUS
    <3>2. r \in [1..k -> Nat] /\ k \in Nat
      BY <2>2, <2>5, <3>1
    <3>3. r \in Seq(Nat) /\ DOMAIN r = 1..k
      BY <3>2
    <3>4. QED
      BY <3>1, <3>3
  <2>7. ToSet(R[c]) \subseteq 1..(L + 1)
    BY <2>4, <2>6 DEF ToSet
  <2>8. ASSUME NEW q \in ToSet(s) PROVE q \in ToSet(R[c]) \/ (q = b /\ L + 1 \in ToSet(R[c]))
    <3>1. PICK i \in DOMAIN s : q = s[i]
      BY DEF ToSet
    <3>2. R[c][i] = IF q = b THEN L + 1 ELSE q
      BY <2>2, <2>3, <3>1
    <3>3. R[c][i] \in ToSet(R[c])
      BY <2>2, <2>6 DEF ToSet
    <3>4. QED
      BY <3>2, <3>3
  <2>9. QED
    BY <2>1, <2>6, <2>7, <2>8
<1>6. R \in [1..L -> Seq(Nat)]
  BY <1>2, <1>3, <1>5
<1>7. PICK A : A = Seq(Nat)
  OBVIOUS
<1>8. R \in Seq(A) /\ Len(R) = L /\ <<b>> \in A
  BY <1>2, <1>6, <1>7
<1>9. PICK Q, e : Q = Append(R, e) /\ e = <<b>>
  OBVIOUS
<1>10. Q \in Seq(A) /\ Len(Q) = L + 1 /\ Q[L + 1] = e /\ DOMAIN Q = 1..(L + 1) /\ \A c \in 1..L : Q[c] = R[c]
  <2>1. e \in A
    BY <1>8, <1>9
  <2>2. QED
    BY <1>2, <1>8, <1>9, <2>1, AppendProperties
<1>11. Extends(Q, P, b)
  <2>1. Q \in Seq(Seq(Nat)) /\ Len(Q) = L + 1 /\ Q[Len(Q)] = <<b>> /\ Len(Q) = Len(P) + 1 /\ DOMAIN P = 1..L
    BY <1>1, <1>2, <1>7, <1>9, <1>10
  <2>2. \A c \in 1..L : ToSet(Q[c]) \subseteq DOMAIN Q
    BY <1>5, <1>10
  <2>3. \A c \in 1..L : \A q \in ToSet(P[c]) : q \in ToSet(Q[c]) \/ (q = b /\ L + 1 \in ToSet(Q[c]))
    BY <1>5, <1>10
  <2>4. QED
    BY <2>1, <2>2, <2>3 DEF Extends
<1>12. QED
  BY <1>1, <1>4, <1>9, <1>11

(* A block in the middle of an edge.                                       *)
LEMMA SplitCriticalExtends ==
  ASSUME NEW g, GoodPreds(g.preds), NEW p \in DOMAIN g.preds, NEW b \in DOMAIN g.preds,
         NEW Q,
         Q = Append([g.preds EXCEPT ![b] = <<NewBlock(g)>> \o Among(g.preds[b], DOMAIN g.preds \ {p})], <<p>>)
  PROVE  Extends(Q, g.preds, p)
<1>1. PICK P, L : P = g.preds /\ L = Len(P)
  OBVIOUS
<1>2. /\ P \in Seq(Seq(Nat)) /\ L \in Nat /\ DOMAIN P = 1..L /\ b \in 1..L /\ p \in 1..L
      /\ \A c \in 1..L : P[c] \in Seq(Nat) /\ ToSet(P[c]) \subseteq 1..L
  BY <1>1, GoodLists
<1>3. PICK m, n : m = Among(P[b], DOMAIN P \ {p}) /\ n = <<L + 1>>
  OBVIOUS
<1>4. m \in Seq(Nat) /\ ToSet(m) = ToSet(P[b]) \cap (DOMAIN P \ {p})
  BY <1>2, <1>3, AmongKeeps
<1>5. n \in Seq(Nat) /\ ToSet(n) = {L + 1}
  BY <1>2, <1>3 DEF ToSet
<1>6. PICK u : u = n \o m
  OBVIOUS
<1>7. u \in Seq(Nat) /\ ToSet(u) = ToSet(n) \cup ToSet(m)
  BY <1>4, <1>5, <1>6, ConcatElements
<1>8. PICK R : R = [P EXCEPT ![b] = u]
  OBVIOUS
<1>9. PICK A, e : A = Seq(Nat) /\ e = <<p>>
  OBVIOUS
<1>10. R \in Seq(A) /\ Len(R) = L /\ e \in A /\ DOMAIN R = 1..L
       /\ \A c \in 1..L : R[c] = IF c = b THEN u ELSE P[c]
  <2>1. u \in A /\ P \in Seq(A) /\ P \in [1..L -> A]
    BY <1>2, <1>7, <1>9
  <2>2. R \in [1..L -> A] /\ \A c \in 1..L : R[c] = IF c = b THEN u ELSE P[c]
    BY <1>2, <1>8, <2>1
  <2>3. R \in Seq(A) /\ Len(R) = L
    BY <1>2, <2>2
  <2>4. e \in A
    BY <1>2, <1>9
  <2>5. QED
    BY <2>2, <2>3, <2>4
<1>11. Q = Append(R, e)
  BY <1>1, <1>3, <1>6, <1>8, <1>9 DEF NewBlock
<1>12. Q \in Seq(A) /\ Len(Q) = L + 1 /\ Q[L + 1] = e /\ DOMAIN Q = 1..(L + 1) /\ \A c \in 1..L : Q[c] = R[c]
  <2>1. R \in Seq(A) /\ e \in A /\ Len(R) = L
    BY <1>10
  <2>2. PICK Z : Z = Append(R, e)
    OBVIOUS
  <2>3. Z \in Seq(A) /\ Len(Z) = L + 1 /\ Z[L + 1] = e /\ \A c \in 1..L : Z[c] = R[c]
    BY <2>1, <2>2, AppendProperties
  <2>4. DOMAIN Z = 1..(L + 1)
    BY <1>2, <2>3
  <2>5. QED
    BY <1>11, <2>2, <2>3, <2>4
<1>13. ASSUME NEW c \in 1..L
       PROVE  /\ ToSet(Q[c]) \subseteq 1..(L + 1)
              /\ \A q \in ToSet(P[c]) : q \in ToSet(Q[c]) \/ (q = p /\ L + 1 \in ToSet(Q[c]))
  <2>1. CASE c # b
    <3>1. Q[c] = P[c] /\ 1..L \subseteq 1..(L + 1)
      BY <1>2, <1>10, <1>12, <2>1
    <3>2. QED
      BY <1>2, <3>1
  <2>2. CASE c = b
    <3>1. Q[c] = u
      BY <1>10, <1>12, <2>2
    <3>2. 1..L \subseteq 1..(L + 1) /\ L + 1 \in 1..(L + 1)
      BY <1>2
    <3>3. ToSet(u) = {L + 1} \cup (ToSet(P[b]) \ {p})
      BY <1>2, <1>4, <1>5, <1>7
    <3>4. QED
      BY <1>2, <2>2, <3>1, <3>2, <3>3
  <2>3. QED
    BY <2>1, <2>2
<1>14. Extends(Q, P, p)
  <2>1. Q \in Seq(Seq(Nat)) /\ Len(Q) = L + 1 /\ Q[Len(Q)] = <<p>> /\ Len(Q) = Len(P) + 1 /\ DOMAIN P = 1..L
    BY <1>1, <1>2, <1>9, <1>12
  <2>2. \A c \in 1..L : ToSet(Q[c]) \subseteq DOMAIN Q
    BY <1>12, <1>13
  <2>3. \A c \in 1..L : \A q \in ToSet(P[c]) : q \in ToSet(Q[c]) \/ (q = p /\ L + 1 \in ToSet(Q[c]))
    BY <1>13
  <2>4. QED
    BY <2>1, <2>2, <2>3 DEF Extends
<1>15. QED
  BY <1>1, <1>14

-----------------------------------------------------------------------------
(* Graphs whose blocks begin with calls in C, with a place for the code of *)
(* each block in B.                                                        *)
Graphs(C, B) ==
  {g \in [preds : Seq(Seq(Nat)), calls : Seq(Seq(C)), home : [B -> Nat]] :
     /\ GoodPreds(g.preds)
     /\ Len(g.calls) = Len(g.preds)
     /\ \A c \in B : g.home[c] \in DOMAIN g.preds
     /\ IsInjective(g.home)}

(* What the parts of a graph are.                                          *)
LEMMA PartsOfGraph ==
  ASSUME NEW C, NEW B, NEW g \in Graphs(C, B)
  PROVE  /\ g = [preds |-> g.preds, calls |-> g.calls, home |-> g.home]
         /\ GoodPreds(g.preds)
         /\ g.calls \in Seq(Seq(C)) /\ Len(g.calls) = Len(g.preds)
         /\ DOMAIN g.calls = DOMAIN g.preds /\ \A b \in DOMAIN g.preds : g.calls[b] \in Seq(C)
         /\ g.home \in [B -> DOMAIN g.preds] /\ IsInjective(g.home)
<1>1. PICK R, S, H : R = Seq(Seq(Nat)) /\ S = Seq(Seq(C)) /\ H = [B -> Nat]
  OBVIOUS
<1>2. g \in [preds : R, calls : S, home : H] /\ GoodPreds(g.preds) /\ Len(g.calls) = Len(g.preds)
      /\ (\A c \in B : g.home[c] \in DOMAIN g.preds) /\ IsInjective(g.home)
  BY <1>1 DEF Graphs
<1>3. g = [preds |-> g.preds, calls |-> g.calls, home |-> g.home] /\ g.calls \in S /\ g.home \in H
  BY <1>2
<1>4. g.home \in [B -> DOMAIN g.preds]
  BY <1>1, <1>2, <1>3
<1>5. DOMAIN g.calls = DOMAIN g.preds /\ \A b \in DOMAIN g.preds : g.calls[b] \in Seq(C)
  <2>1. PICK A, k : A = Seq(C) /\ k = g.calls
    OBVIOUS
  <2>2. k \in Seq(A) /\ Len(k) = Len(g.preds)
    BY <1>1, <1>2, <1>3, <2>1
  <2>3. DOMAIN k = 1..Len(g.preds) /\ \A b \in 1..Len(g.preds) : k[b] \in A
    BY <2>2
  <2>4. DOMAIN g.preds = 1..Len(g.preds)
    BY <1>2, GoodLists
  <2>5. QED
    BY <2>1, <2>3, <2>4
<1>6. QED
  BY <1>1, <1>2, <1>3, <1>4, <1>5

(* A record of such parts is a graph.                                      *)
LEMMA GraphOfParts ==
  ASSUME NEW C, NEW B, NEW P, NEW K, NEW H,
         GoodPreds(P), K \in Seq(Seq(C)), Len(K) = Len(P), H \in [B -> DOMAIN P], IsInjective(H)
  PROVE  [preds |-> P, calls |-> K, home |-> H] \in Graphs(C, B)
<1>1. P \in Seq(Seq(Nat))
  BY DEF GoodPreds
<1>2. H \in [B -> Nat]
  <2>1. DOMAIN P \subseteq Nat
    BY GoodLists
  <2>2. QED
    BY <2>1
<1>3. PICK R, S, F : R = Seq(Seq(Nat)) /\ S = Seq(Seq(C)) /\ F = [B -> Nat]
  OBVIOUS
<1>4. PICK g : g = [preds |-> P, calls |-> K, home |-> H]
  OBVIOUS
<1>5. g \in [preds : R, calls : S, home : F] /\ g.preds = P /\ g.calls = K /\ g.home = H
  BY <1>1, <1>2, <1>3, <1>4
<1>6. \A c \in B : g.home[c] \in DOMAIN g.preds
  BY <1>5
<1>7. QED
  BY <1>3, <1>4, <1>5, <1>6 DEF Graphs

(* Splitting an edge gives a graph with one block more.                    *)
LEMMA SplitEdgeTyped ==
  ASSUME NEW C, NEW B, NEW g \in Graphs(C, B), NEW p \in DOMAIN g.preds, NEW b \in DOMAIN g.preds
  PROVE  SplitEdge(g, p, b) \in Graphs(C, B) /\ Len(SplitEdge(g, p, b).preds) = Len(g.preds) + 1
<1>1. PICK P, K, H : P = g.preds /\ K = g.calls /\ H = g.home
  OBVIOUS
<1>2. PICK L : L = Len(P)
  OBVIOUS
<1>3. /\ g = [preds |-> P, calls |-> K, home |-> H]
      /\ GoodPreds(P)
      /\ K \in Seq(Seq(C)) /\ Len(K) = L /\ DOMAIN K = DOMAIN P /\ \A c \in DOMAIN P : K[c] \in Seq(C)
      /\ H \in [B -> DOMAIN P] /\ IsInjective(H)
  BY <1>1, <1>2, PartsOfGraph
<1>4. L \in Nat /\ DOMAIN P = 1..L /\ p \in 1..L /\ b \in 1..L /\ NewBlock(g) = L + 1
  BY <1>1, <1>2, <1>3, GoodLists DEF NewBlock
<1>5. PICK A, empty : A = Seq(C) /\ empty = <<>>
  OBVIOUS
<1>6. empty \in A /\ K \in Seq(A)
  BY <1>3, <1>5
<1>7. Append(K, <<>>) \in Seq(Seq(C)) /\ Len(Append(K, <<>>)) = L + 1
  BY <1>3, <1>5, <1>6, AppendProperties
<1>8. ASSUME NEW Q, NEW c \in DOMAIN P, Extends(Q, P, c)
      PROVE  GoodPreds(Q) /\ Len(Q) = L + 1 /\ H \in [B -> DOMAIN Q]
  <2>1. GoodPreds(Q)
    BY <1>3, <1>8, StillGood
  <2>2. Len(Q) = L + 1
    BY <1>2, <1>8 DEF Extends
  <2>3. DOMAIN Q = 1..(L + 1)
    BY <2>1, <2>2, GoodLists
  <2>4. DOMAIN P \subseteq DOMAIN Q
    BY <1>4, <2>3
  <2>5. QED
    BY <1>3, <2>1, <2>2, <2>4
<1>9. SplitCritical(g, p, b) \in Graphs(C, B) /\ Len(SplitCritical(g, p, b).preds) = L + 1
  <2>1. PICK Q : Q = Append([P EXCEPT ![b] = <<NewBlock(g)>> \o Among(P[b], DOMAIN P \ {p})], <<p>>)
    OBVIOUS
  <2>2. Extends(Q, P, p)
    BY <1>1, <1>3, <2>1, SplitCriticalExtends
  <2>3. GoodPreds(Q) /\ Len(Q) = L + 1 /\ H \in [B -> DOMAIN Q]
    BY <1>1, <1>8, <2>2
  <2>4. PICK M : M = Append(K, <<>>)
    OBVIOUS
  <2>5. SplitCritical(g, p, b) = [preds |-> Q, calls |-> M, home |-> H]
    <3>1. SplitCritical(g, p, b)
            = [g EXCEPT !.preds = Append([g.preds EXCEPT
                                            ![b] = <<NewBlock(g)>> \o Among(g.preds[b], DOMAIN g.preds \ {p})],
                                         <<p>>),
                        !.calls = Append(g.calls, <<>>)]
      BY DEF SplitCritical
    <3>2. SplitCritical(g, p, b) = [g EXCEPT !.preds = Q, !.calls = M]
      BY <1>1, <2>1, <2>4, <3>1
    <3>3. QED
      BY <1>3, <3>2
  <2>6. [preds |-> Q, calls |-> M, home |-> H] \in Graphs(C, B)
    BY <1>3, <1>7, <2>3, <2>4, GraphOfParts
  <2>7. QED
    BY <2>3, <2>5, <2>6
<1>10. SplitBottom(g, p) \in Graphs(C, B) /\ Len(SplitBottom(g, p).preds) = L + 1
  <2>1. PICK Q : Q = SplitBlock(g, p)
    OBVIOUS
  <2>2. Extends(Q, P, p)
    BY <1>1, <1>3, <2>1, SplitBlockExtends
  <2>3. GoodPreds(Q) /\ Len(Q) = L + 1 /\ H \in [B -> DOMAIN Q]
    BY <1>1, <1>8, <2>2
  <2>4. PICK M : M = Append(K, <<>>)
    OBVIOUS
  <2>5. SplitBottom(g, p) = [preds |-> Q, calls |-> M, home |-> H]
    <3>1. SplitBottom(g, p) = [g EXCEPT !.preds = Q, !.calls = M]
      BY <1>1, <2>1, <2>4 DEF SplitBottom
    <3>2. QED
      BY <1>3, <3>1
  <2>6. [preds |-> Q, calls |-> M, home |-> H] \in Graphs(C, B)
    BY <1>3, <1>7, <2>3, <2>4, GraphOfParts
  <2>7. QED
    BY <2>3, <2>5, <2>6
<1>11. SplitTop(g, b) \in Graphs(C, B) /\ Len(SplitTop(g, b).preds) = L + 1
  <2>1. PICK Q : Q = SplitBlock(g, b)
    OBVIOUS
  <2>2. Extends(Q, P, b)
    BY <1>1, <1>3, <2>1, SplitBlockExtends
  <2>3. GoodPreds(Q) /\ Len(Q) = L + 1 /\ H \in [B -> DOMAIN Q]
    BY <1>1, <1>8, <2>2
  <2>4. PICK J : J = [K EXCEPT ![b] = <<>>]
    OBVIOUS
  <2>5. J \in Seq(A) /\ Len(J) = L
    <3>1. K \in [1..L -> A]
      BY <1>3, <1>4, <1>6
    <3>2. J \in [1..L -> A]
      BY <1>4, <1>5, <1>6, <2>4, <3>1
    <3>3. QED
      BY <1>4, <3>2
  <2>6. K[b] \in A
    BY <1>3, <1>4, <1>5
  <2>7. PICK M, e : M = Append(J, e) /\ e = K[b]
    OBVIOUS
  <2>8. M \in Seq(Seq(C)) /\ Len(M) = L + 1
    BY <1>5, <2>5, <2>6, <2>7, AppendProperties
  <2>9. PICK G : G = [c \in DOMAIN H |-> IF H[c] = b THEN L + 1 ELSE H[c]]
    OBVIOUS
  <2>10. G \in [B -> DOMAIN Q] /\ IsInjective(G)
    <3>1. DOMAIN Q = 1..(L + 1)
      BY <2>3, GoodLists
    <3>2. \A c \in B : H[c] \in 1..L /\ L + 1 \in DOMAIN Q
      BY <1>3, <1>4, <3>1
    <3>3. DOMAIN H = B
      BY <1>3
    <3>4. \A c \in B : G[c] = IF H[c] = b THEN L + 1 ELSE H[c]
      BY <2>9, <3>3
    <3>5. \A c \in B : H[c] # L + 1 /\ H[c] \in DOMAIN Q
      BY <1>4, <3>1, <3>2
    <3>6. G \in [B -> DOMAIN Q]
      <4>1. \A c \in B : G[c] \in DOMAIN Q
        BY <3>2, <3>4, <3>5
      <4>2. QED
        BY <2>9, <3>3, <4>1
    <3>7. ASSUME NEW c \in B, NEW d \in B, G[c] = G[d] PROVE c = d
      <4>1. H[c] = H[d]
        BY <3>4, <3>5, <3>7
      <4>2. QED
        BY <1>3, <3>3, <4>1 DEF IsInjective
    <3>8. IsInjective(G)
      BY <3>6, <3>7 DEF IsInjective
    <3>9. QED
      BY <3>6, <3>8
  <2>11. SplitTop(g, b) = [preds |-> Q, calls |-> M, home |-> G]
    BY <1>1, <1>4, <2>1, <2>4, <2>7, <2>9 DEF SplitTop
  <2>12. [preds |-> Q, calls |-> M, home |-> G] \in Graphs(C, B)
    BY <2>3, <2>8, <2>10, GraphOfParts
  <2>13. QED
    BY <2>3, <2>11, <2>12
<1>12. QED
  BY <1>1, <1>2, <1>9, <1>10, <1>11 DEF SplitEdge

(* Splitting edges into a block, one after the other.                      *)
LEMMA SplitEdgesTyped ==
  ASSUME NEW C, NEW B, NEW g \in Graphs(C, B), NEW b \in DOMAIN g.preds, NEW ps \in Seq(DOMAIN g.preds)
  PROVE  SplitEdges(g, b, ps) \in Graphs(C, B) /\ Len(SplitEdges(g, b, ps).preds) >= Len(g.preds)
<1> DEFINE first == SelectInSeq(ps, LAMBDA p : Critical(g, p, b))
<1>0. PICK D : D = DOMAIN g.preds
  OBVIOUS
<1>a. PICK s : s = IF first = 0 THEN ps ELSE SubSeq(ps, 1, first)
  OBVIOUS
<1> DEFINE N == Len(s)
           A == {h \in Graphs(C, B) : Len(h.preds) >= Len(g.preds)}
           op(h, p) == SplitEdge(h, p, b)
           step == [n \in 1..N |-> [h \in A |-> op(h, s[n])]]
           it == CHOOSE it : it = [S \in SUBSET (1..N) |->
                   IF S = {} THEN g ELSE op(it[S \ {Max(S)}], s[Max(S)])]
<1>b. s \in Seq(D)
  <2>1. first \in 0..Len(ps)
    <3>1. PICK I : I = {i \in 1..Len(ps) : Critical(g, ps[i], b)}
      OBVIOUS
    <3>2. first = IF I # {} THEN Min(I) ELSE 0
      BY <3>1 DEF SelectInSeq
    <3>3. I # {} => Min(I) \in I
      <4>1. I \in SUBSET Nat
        BY <3>1
      <4>2. QED
        BY <4>1, MinOfNats
    <3> HIDE DEF first
    <3>4. QED
      BY <3>1, <3>2, <3>3
  <2> HIDE DEF first
  <2>2. ps \in Seq(D)
    BY <1>0
  <2>3. first # 0 => SubSeq(ps, 1, first) \in Seq(D)
    BY <2>1, <2>2
  <2>4. QED
    BY <1>a, <2>2, <2>3
<1>c. Len(g.preds) \in Nat /\ D = 1..Len(g.preds)
  BY <1>0, PartsOfGraph, GoodLists
<1>1. N \in Nat /\ DOMAIN s = 1..N /\ (\A n \in 1..N : s[n] \in D) /\ g \in A
  BY <1>b, <1>c
<1>2. SplitEdges(g, b, ps) = it[1..N]
  BY <1>1, <1>a DEF SplitEdges, FoldLeft, MapThenFoldSet
<1>3. step \in [1..N -> [A -> A]]
  <2>1. ASSUME NEW n \in 1..N, NEW h \in A PROVE op(h, s[n]) \in A
    <3>1. h \in Graphs(C, B) /\ Len(h.preds) >= Len(g.preds)
      OBVIOUS
    <3>2. Len(h.preds) \in Nat /\ DOMAIN h.preds = 1..Len(h.preds)
      BY <3>1, PartsOfGraph, GoodLists
    <3>3. D \subseteq DOMAIN h.preds
      BY <1>c, <3>1, <3>2
    <3>4. s[n] \in DOMAIN h.preds /\ b \in DOMAIN h.preds
      BY <1>0, <1>1, <3>3
    <3>5. SplitEdge(h, s[n], b) \in Graphs(C, B) /\ Len(SplitEdge(h, s[n], b).preds) = Len(h.preds) + 1
      BY <3>1, <3>4, SplitEdgeTyped
    <3>6. QED
      BY <1>c, <3>1, <3>2, <3>5
  <2> HIDE DEF op, A, N
  <2>2. QED
    BY <2>1
<1>4. PICK k \in [SUBSET (1..N) -> A] :
        \A S \in SUBSET (1..N) : k[S] = IF S = {} THEN g ELSE step[Max(S)][k[S \ {Max(S)}]]
  <2> HIDE DEF step, A, N
  <2>1. PICK base : base = g
    OBVIOUS
  <2>2. base \in A /\ N \in Nat
    BY <1>1, <2>1
  <2>3. \E k \in [SUBSET (1..N) -> A] : FoldedBy(k, base, N, step)
    BY <1>3, <2>2, FoldExists
  <2>4. QED
    BY <2>1, <2>3 DEF FoldedBy
<1>5. k = [S \in SUBSET (1..N) |-> IF S = {} THEN g ELSE op(k[S \ {Max(S)}], s[Max(S)])]
  <2>1. ASSUME NEW S \in SUBSET (1..N), S # {}
        PROVE  k[S] = op(k[S \ {Max(S)}], s[Max(S)])
    <3>1. PICK m : m = Max(S)
      OBVIOUS
    <3>2. m \in 1..N
      BY <1>1, <2>1, <3>1, MaxOfNats
    <3>3. PICK h : h = k[S \ {m}]
      OBVIOUS
    <3>4. S \ {m} \in SUBSET (1..N)
      OBVIOUS
    <3>5. h \in A
      <4> HIDE DEF A, N
      <4>1. QED
        BY <1>4, <3>3, <3>4
    <3>6. step[m][h] = op(h, s[m])
      <4> HIDE DEF A, N, op
      <4>1. QED
        BY <3>2, <3>5
    <3>7. k[S] = step[m][h]
      <4> HIDE DEF A, N, op, step
      <4>1. QED
        BY <1>4, <2>1, <3>1, <3>3
    <3> HIDE DEF step, op
    <3>8. QED
      BY <3>1, <3>3, <3>6, <3>7
  <2> HIDE DEF op, A, N
  <2>2. QED
    BY <1>4, <2>1
<1>6. it = [S \in SUBSET (1..N) |-> IF S = {} THEN g ELSE op(it[S \ {Max(S)}], s[Max(S)])]
  <2> HIDE DEF op, N
  <2>1. QED
    BY <1>5
<1> HIDE DEF it
<1>7. ASSUME NEW n \in 1..N, it[1..(n - 1)] \in A PROVE it[1..n] = step[n][it[1..(n - 1)]]
  <2>1. n \in Nat \ {0}
    BY <1>1
  <2>2. 1..n \in SUBSET (1..N) /\ 1..n # {} /\ Max(1..n) = n /\ (1..n) \ {n} = 1..(n - 1)
    BY <1>1, <2>1, MaxOfInterval
  <2>3. PICK h : h = it[1..(n - 1)]
    OBVIOUS
  <2>4. it[1..n] = op(h, s[n])
    <3> HIDE DEF op, N
    <3>1. QED
      BY <1>6, <2>2, <2>3
  <2>5. step[n][h] = op(h, s[n])
    <3> HIDE DEF A, N, op
    <3>1. QED
      BY <1>7, <2>3
  <2> HIDE DEF step, op
  <2>6. QED
    BY <2>3, <2>4, <2>5
<1>8. it[{}] = g
  <2> HIDE DEF op, N
  <2>1. {} \in SUBSET (1..N)
    OBVIOUS
  <2>2. QED
    BY <1>6, <2>1
<1>9. PICK f \in [0..N -> A] : DefinedBy(f, g, N, step) /\ f[N] = it[1..N]
  <2> HIDE DEF A, N, step
  <2>1. PICK base : base = g
    OBVIOUS
  <2>2. base \in A /\ N \in Nat /\ StepsIn(it, A, base, N, step)
    BY <1>1, <1>7, <1>8, <2>1 DEF StepsIn
  <2>3. \E f \in [0..N -> A] : Computes(f, base, N, step, it[1..N])
    BY <1>3, <2>2, FoldsTo
  <2>4. QED
    BY <2>1, <2>3 DEF Computes
<1>10. f[N] \in A
  <2> HIDE DEF A, N
  <2>1. QED
    BY <1>1, <1>9
<1>11. QED
  BY <1>2, <1>9, <1>10

-----------------------------------------------------------------------------
(* What enters and exits leave open are regions that were open or have     *)
(* been entered.                                                           *)
LEMMA RemoveLastTyped ==
  ASSUME NEW T, NEW s \in Seq(T), NEW r
  PROVE  RemoveLast(s, r) \in Seq(T)
<1> DEFINE i == SelectLastInSeq(s, LAMBDA e : e = r)
<1>1. i \in 0..Len(s)
  <2>1. PICK I : I = {j \in 1..Len(s) : s[j] = r}
    OBVIOUS
  <2>2. i = IF I # {} THEN Max(I) ELSE 0
    BY <2>1 DEF SelectLastInSeq
  <2>3. Len(s) \in Nat /\ I \in SUBSET (1..Len(s))
    BY <2>1
  <2>4. I # {} => Max(I) \in I
    BY <2>3, MaxOfNats
  <2> HIDE DEF i
  <2>5. CASE I = {}
    BY <2>2, <2>3, <2>5
  <2>6. CASE I # {}
    <3>1. i \in 1..Len(s)
      BY <2>2, <2>3, <2>4, <2>6
    <3>2. QED
      BY <2>3, <3>1
  <2>7. QED
    BY <2>5, <2>6
<1>2. RemoveLast(s, r) = IF i = 0 THEN s ELSE RemoveAt(s, i)
  BY DEF RemoveLast
<1> HIDE DEF i
<1>3. ASSUME i # 0 PROVE RemoveAt(s, i) \in Seq(T)
  <2>1. SubSeq(s, 1, i - 1) \in Seq(T) /\ SubSeq(s, i + 1, Len(s)) \in Seq(T)
    BY <1>1, <1>3
  <2>2. QED
    BY <2>1 DEF RemoveAt
<1>4. QED
  BY <1>2, <1>3

(* Running the calls of a block enters and leaves regions the calls name.  *)
LEMMA ExecuteTyped ==
  ASSUME NEW T, NEW C, \A c \in C : c.region \in T, NEW s \in Seq(C), NEW o \in Seq(T)
  PROVE  Execute(s, o) \in Seq(T)
<1> DEFINE N == Len(s)
           A == Seq(T)
           op(h, c) == IF c.event = "enter" THEN Append(h, c.region) ELSE RemoveLast(h, c.region)
           step == [n \in 1..N |-> [h \in A |-> op(h, s[n])]]
           it == CHOOSE it : it = [S \in SUBSET (1..N) |->
                   IF S = {} THEN o ELSE op(it[S \ {Max(S)}], s[Max(S)])]
<1>1. N \in Nat /\ DOMAIN s = 1..N /\ (\A n \in 1..N : s[n] \in C) /\ o \in A
  OBVIOUS
<1>2. Execute(s, o) = it[1..N]
  BY <1>1 DEF Execute, FoldLeft, MapThenFoldSet
<1>3. step \in [1..N -> [A -> A]]
  <2>1. ASSUME NEW n \in 1..N, NEW h \in A PROVE op(h, s[n]) \in A
    <3>1. PICK r : r = s[n].region
      OBVIOUS
    <3>2. r \in T
      BY <1>1, <3>1
    <3>3. Append(h, r) \in Seq(T)
      BY <3>2
    <3>4. RemoveLast(h, r) \in Seq(T)
      BY RemoveLastTyped
    <3>5. QED
      BY <3>1, <3>3, <3>4
  <2> HIDE DEF op, A, N
  <2>2. QED
    BY <2>1
<1>4. PICK k \in [SUBSET (1..N) -> A] :
        \A S \in SUBSET (1..N) : k[S] = IF S = {} THEN o ELSE step[Max(S)][k[S \ {Max(S)}]]
  <2> HIDE DEF step, A, N
  <2>1. PICK base : base = o
    OBVIOUS
  <2>2. base \in A /\ N \in Nat
    BY <1>1, <2>1
  <2>3. \E k \in [SUBSET (1..N) -> A] : FoldedBy(k, base, N, step)
    BY <1>3, <2>2, FoldExists
  <2>4. QED
    BY <2>1, <2>3 DEF FoldedBy
<1>5. k = [S \in SUBSET (1..N) |-> IF S = {} THEN o ELSE op(k[S \ {Max(S)}], s[Max(S)])]
  <2>1. ASSUME NEW S \in SUBSET (1..N), S # {}
        PROVE  k[S] = op(k[S \ {Max(S)}], s[Max(S)])
    <3>1. PICK m : m = Max(S)
      OBVIOUS
    <3>2. m \in 1..N
      BY <1>1, <2>1, <3>1, MaxOfNats
    <3>3. PICK h : h = k[S \ {m}]
      OBVIOUS
    <3>4. S \ {m} \in SUBSET (1..N)
      OBVIOUS
    <3>5. h \in A
      <4> HIDE DEF A, N
      <4>1. QED
        BY <1>4, <3>3, <3>4
    <3>6. step[m][h] = op(h, s[m])
      <4> HIDE DEF A, N, op
      <4>1. QED
        BY <3>2, <3>5
    <3>7. k[S] = step[m][h]
      <4> HIDE DEF A, N, op, step
      <4>1. QED
        BY <1>4, <2>1, <3>1, <3>3
    <3> HIDE DEF step, op
    <3>8. QED
      BY <3>1, <3>3, <3>6, <3>7
  <2> HIDE DEF op, A, N
  <2>2. QED
    BY <1>4, <2>1
<1>6. it = [S \in SUBSET (1..N) |-> IF S = {} THEN o ELSE op(it[S \ {Max(S)}], s[Max(S)])]
  <2> HIDE DEF op, N
  <2>1. QED
    BY <1>5
<1> HIDE DEF it
<1>7. ASSUME NEW n \in 1..N, it[1..(n - 1)] \in A PROVE it[1..n] = step[n][it[1..(n - 1)]]
  <2>1. n \in Nat \ {0}
    BY <1>1
  <2>2. 1..n \in SUBSET (1..N) /\ 1..n # {} /\ Max(1..n) = n /\ (1..n) \ {n} = 1..(n - 1)
    BY <1>1, <2>1, MaxOfInterval
  <2>3. PICK h : h = it[1..(n - 1)]
    OBVIOUS
  <2>4. it[1..n] = op(h, s[n])
    <3> HIDE DEF op, N
    <3>1. QED
      BY <1>6, <2>2, <2>3
  <2>5. step[n][h] = op(h, s[n])
    <3> HIDE DEF A, N, op
    <3>1. QED
      BY <1>7, <2>3
  <2> HIDE DEF step, op
  <2>6. QED
    BY <2>3, <2>4, <2>5
<1>8. it[{}] = o
  <2> HIDE DEF op, N
  <2>1. {} \in SUBSET (1..N)
    OBVIOUS
  <2>2. QED
    BY <1>6, <2>1
<1>9. PICK f \in [0..N -> A] : DefinedBy(f, o, N, step) /\ f[N] = it[1..N]
  <2> HIDE DEF A, N, step
  <2>1. PICK base : base = o
    OBVIOUS
  <2>2. base \in A /\ N \in Nat /\ StepsIn(it, A, base, N, step)
    BY <1>1, <1>7, <1>8, <2>1 DEF StepsIn
  <2>3. \E f \in [0..N -> A] : Computes(f, base, N, step, it[1..N])
    BY <1>3, <2>2, FoldsTo
  <2>4. QED
    BY <2>1, <2>3 DEF Computes
<1>10. f[N] \in A
  <2> HIDE DEF A, N
  <2>1. QED
    BY <1>1, <1>9
<1>11. QED
  BY <1>2, <1>9, <1>10

(* The orders of the use lists, a list of orders after each block.         *)
Orders(h, P) ==
  /\ h[0] = {<<>>}
  /\ \A n \in 1..Len(P) :
       h[n] = {Append(u, t) : u \in h[n - 1], t \in SetToSeqs(ToSet(P[n]))}

(* UseOrders is the last of them.                                          *)
LEMMA UseOrdersSteps ==
  ASSUME NEW fun, NEW T, NEW s \in Seq(Seq(T)), s = fun.preds, \A S \in SUBSET T : IsFiniteSet(S)
  PROVE  \E h \in [0..Len(s) -> SUBSET Seq(Seq(T))] : Orders(h, s) /\ UseOrders(fun) = h[Len(s)]
<1>0. PICK U : U = Seq(T)
  OBVIOUS
<1> DEFINE N == Len(s)
           A == SUBSET Seq(U)
           op(h, ps) == {Append(u, t) : u \in h, t \in SetToSeqs(ToSet(ps))}
           step == [n \in 1..N |-> [h \in A |-> op(h, s[n])]]
           it == CHOOSE it : it = [S \in SUBSET (1..N) |->
                   IF S = {} THEN {<<>>} ELSE op(it[S \ {Max(S)}], s[Max(S)])]
<1>1. N \in Nat /\ DOMAIN s = 1..N /\ (\A n \in 1..N : s[n] \in U) /\ {<<>>} \in A
  BY <1>0
<1>2. UseOrders(fun) = it[1..N]
  BY <1>1 DEF UseOrders, FoldLeft, MapThenFoldSet
<1>3. step \in [1..N -> [A -> A]]
  <2>1. ASSUME NEW n \in 1..N, NEW h \in A PROVE op(h, s[n]) \in A
    <3>1. ASSUME NEW u \in h, NEW t \in SetToSeqs(ToSet(s[n])) PROVE Append(u, t) \in Seq(U)
      <4>1. PICK S : S = ToSet(s[n])
        OBVIOUS
      <4>2. s[n] \in Seq(T)
        BY <1>0, <1>1
      <4>3. S \in SUBSET T
        BY <4>1, <4>2 DEF ToSet
      <4>4. t \in Seq(S)
        BY <4>1, <4>3, OrderIs
      <4>5. t \in U
        BY <1>0, <4>3, <4>4
      <4>6. u \in Seq(U)
        OBVIOUS
      <4>7. QED
        BY <4>5, <4>6
    <3>2. PICK X : X = SetToSeqs(ToSet(s[n]))
      OBVIOUS
    <3>3. {Append(u, t) : u \in h, t \in X} \subseteq Seq(U)
      BY <3>1, <3>2
    <3>4. QED
      BY <3>2, <3>3
  <2> HIDE DEF op, A, N
  <2>2. QED
    BY <2>1
<1>4. PICK k \in [SUBSET (1..N) -> A] :
        \A S \in SUBSET (1..N) : k[S] = IF S = {} THEN {<<>>} ELSE step[Max(S)][k[S \ {Max(S)}]]
  <2> HIDE DEF step, A, N
  <2>1. PICK base : base = {<<>>}
    OBVIOUS
  <2>2. base \in A /\ N \in Nat
    BY <1>1, <2>1
  <2>3. \E k \in [SUBSET (1..N) -> A] : FoldedBy(k, base, N, step)
    BY <1>3, <2>2, FoldExists
  <2>4. QED
    BY <2>1, <2>3 DEF FoldedBy
<1>5. k = [S \in SUBSET (1..N) |-> IF S = {} THEN {<<>>} ELSE op(k[S \ {Max(S)}], s[Max(S)])]
  <2>1. ASSUME NEW S \in SUBSET (1..N), S # {}
        PROVE  k[S] = op(k[S \ {Max(S)}], s[Max(S)])
    <3>1. PICK m : m = Max(S)
      OBVIOUS
    <3>2. m \in 1..N
      BY <1>1, <2>1, <3>1, MaxOfNats
    <3>3. PICK h : h = k[S \ {m}]
      OBVIOUS
    <3>4. S \ {m} \in SUBSET (1..N)
      OBVIOUS
    <3>5. h \in A
      <4> HIDE DEF A, N
      <4>1. QED
        BY <1>4, <3>3, <3>4
    <3>6. step[m][h] = op(h, s[m])
      <4> HIDE DEF A, N, op
      <4>1. QED
        BY <3>2, <3>5
    <3>7. k[S] = step[m][h]
      <4> HIDE DEF A, N, op, step
      <4>1. QED
        BY <1>4, <2>1, <3>1, <3>3
    <3> HIDE DEF step, op
    <3>8. QED
      BY <3>1, <3>3, <3>6, <3>7
  <2> HIDE DEF op, A, N
  <2>2. QED
    BY <1>4, <2>1
<1>6. it = [S \in SUBSET (1..N) |-> IF S = {} THEN {<<>>} ELSE op(it[S \ {Max(S)}], s[Max(S)])]
  <2> HIDE DEF op, N
  <2>1. QED
    BY <1>5
<1> HIDE DEF it
<1>7. ASSUME NEW n \in 1..N, it[1..(n - 1)] \in A PROVE it[1..n] = step[n][it[1..(n - 1)]]
  <2>1. n \in Nat \ {0}
    BY <1>1
  <2>2. 1..n \in SUBSET (1..N) /\ 1..n # {} /\ Max(1..n) = n /\ (1..n) \ {n} = 1..(n - 1)
    BY <1>1, <2>1, MaxOfInterval
  <2>3. PICK h : h = it[1..(n - 1)]
    OBVIOUS
  <2>4. it[1..n] = op(h, s[n])
    <3> HIDE DEF op, N
    <3>1. QED
      BY <1>6, <2>2, <2>3
  <2>5. step[n][h] = op(h, s[n])
    <3> HIDE DEF A, N, op
    <3>1. QED
      BY <1>7, <2>3
  <2> HIDE DEF step, op
  <2>6. QED
    BY <2>3, <2>4, <2>5
<1>8. it[{}] = {<<>>}
  <2> HIDE DEF op, N
  <2>1. {} \in SUBSET (1..N)
    OBVIOUS
  <2>2. QED
    BY <1>6, <2>1
<1>9. PICK f \in [0..N -> A] : DefinedBy(f, {<<>>}, N, step) /\ f[N] = it[1..N]
  <2> HIDE DEF A, N, step
  <2>1. PICK base : base = {<<>>}
    OBVIOUS
  <2>2. base \in A /\ N \in Nat /\ StepsIn(it, A, base, N, step)
    BY <1>1, <1>7, <1>8, <2>1 DEF StepsIn
  <2>3. \E f \in [0..N -> A] : Computes(f, base, N, step, it[1..N])
    BY <1>3, <2>2, FoldsTo
  <2>4. QED
    BY <2>1, <2>3 DEF Computes
<1>10. ASSUME NEW n \in 1..N PROVE f[n] = op(f[n - 1], s[n])
  <2>1. n - 1 \in 0..N
    BY <1>1
  <2>2. PICK h : h = f[n - 1]
    OBVIOUS
  <2>3. h \in A
    <3> HIDE DEF A, N
    <3>1. QED
      BY <2>1, <2>2
  <2>4. step[n][h] = op(h, s[n])
    <3> HIDE DEF A, N, op
    <3>1. QED
      BY <2>3
  <2>5. f[n] = step[n][h]
    <3> HIDE DEF A, N, op, step
    <3>1. QED
      BY <1>9, <2>2 DEF DefinedBy
  <2> HIDE DEF step, op
  <2>6. QED
    BY <2>2, <2>4, <2>5
<1>11. Orders(f, s)
  <2>1. f[0] = {<<>>}
    <3> HIDE DEF A, N, op, step
    <3>1. QED
      BY <1>9 DEF DefinedBy
  <2>2. QED
    BY <1>10, <2>1 DEF Orders
<1> HIDE DEF op, step
<1>12. QED
  BY <1>0, <1>2, <1>9, <1>11

-----------------------------------------------------------------------------
(* A sequence is one over any set that has its elements.                   *)
LEMMA ListOver ==
  ASSUME NEW T, NEW U, NEW s \in Seq(T), ToSet(s) \subseteq U
  PROVE  s \in Seq(U)
<1>1. Len(s) \in Nat /\ s \in [1..Len(s) -> T] /\ \A i \in 1..Len(s) : s[i] \in U
  BY DEF ToSet
<1>2. s \in [1..Len(s) -> U]
  BY <1>1
<1>3. QED
  BY <1>1, <1>2

(* A use order has the same predecessors in some order.                    *)
SameUses(u, s) == Len(u) = Len(s) /\ \A n \in 1..Len(s) : ToSet(u[n]) = ToSet(s[n])

(* In each order the lists have the same elements.                         *)
LEMMA UseOrdersAre ==
  ASSUME NEW f, NEW T, NEW s \in Seq(Seq(T)), s = f.preds, \A S \in SUBSET T : IsFiniteSet(S),
         NEW u \in UseOrders(f)
  PROVE  u \in Seq(Seq(T)) /\ SameUses(u, s)
<1>1. PICK h \in [0..Len(s) -> SUBSET Seq(Seq(T))] : Orders(h, s) /\ UseOrders(f) = h[Len(s)]
  BY UseOrdersSteps
<1>2. PICK U, N : U = Seq(T) /\ N = Len(s)
  OBVIOUS
<1>3. N \in Nat /\ s \in Seq(U) /\ \A n \in 1..N : s[n] \in U
  BY <1>2
<1> DEFINE Same(v, n) == Len(v) = n /\ \A i \in 1..n : ToSet(v[i]) = ToSet(s[i])
           P == {n \in Nat : n <= N => \A v \in h[n] : Same(v, n)}
<1>4. 0 \in P
  BY <1>1 DEF Orders
<1>5. ASSUME NEW n \in Nat, n \in P PROVE n + 1 \in P
  <2>1. SUFFICES ASSUME n + 1 <= N, NEW v \in h[n + 1] PROVE Same(v, n + 1)
    OBVIOUS
  <2>2. n + 1 \in 1..N /\ n \in 0..N /\ (n + 1) - 1 = n /\ n <= N
    BY <1>3, <2>1
  <2>3. PICK w \in h[n], t \in SetToSeqs(ToSet(s[n + 1])) : v = Append(w, t)
    BY <1>1, <1>2, <2>1, <2>2 DEF Orders
  <2>4. Same(w, n) /\ w \in Seq(U)
    BY <1>1, <1>2, <1>5, <2>2, <2>3
  <2>5. t \in U /\ ToSet(t) = ToSet(s[n + 1])
    <3>1. PICK S : S = ToSet(s[n + 1])
      OBVIOUS
    <3>2. s[n + 1] \in Seq(T)
      BY <1>2, <1>3, <2>2
    <3>3. S \in SUBSET T
      BY <3>1, <3>2 DEF ToSet
    <3>4. t \in Seq(S) /\ ToSet(t) = S
      BY <2>3, <3>1, <3>3, OrderIs
    <3>5. t \in Seq(T)
      BY <3>3, <3>4
    <3>6. QED
      BY <1>2, <3>1, <3>4, <3>5
  <2>6. Len(v) = n + 1 /\ v[n + 1] = t /\ \A i \in 1..n : v[i] = w[i]
    BY <2>3, <2>4, <2>5
  <2>7. ASSUME NEW i \in 1..(n + 1) PROVE ToSet(v[i]) = ToSet(s[i])
    <3>1. CASE i = n + 1
      BY <2>5, <2>6, <3>1
    <3>2. CASE i \in 1..n
      BY <2>4, <2>6, <3>2
    <3>3. QED
      BY <3>1, <3>2
  <2>8. QED
    BY <2>6, <2>7
<1>6. N \in P
  <2> HIDE DEF P
  <2>1. QED
    BY <1>3, <1>4, <1>5, SetInduction
<1>7. u \in Seq(Seq(T))
  BY <1>1, <1>2, <1>3
<1>8. QED
  BY <1>1, <1>2, <1>3, <1>6, <1>7 DEF SameUses

(* The order does not matter for what can be reached.                      *)
LEMMA SameUsesGood ==
  ASSUME NEW s, GoodPreds(s), NEW u \in Seq(Seq(Nat)), SameUses(u, s)
  PROVE  GoodPreds(u) /\ DOMAIN u = DOMAIN s
<1>1. DOMAIN s = 1..Len(s) /\ DOMAIN u = DOMAIN s
  BY GoodLists DEF SameUses
<1>2. \A b \in DOMAIN s : ToSet(u[b]) = ToSet(s[b])
  BY <1>1 DEF SameUses
<1>3. 1 \in DOMAIN u /\ \A b \in DOMAIN u : ToSet(u[b]) \subseteq DOMAIN u
  BY <1>1, <1>2 DEF GoodPreds
<1>4. ASSUME NEW X, Closed(u, X) PROVE Closed(s, X)
  BY <1>1, <1>2, <1>4 DEF Closed
<1>5. Connected(u)
  BY <1>1, <1>4 DEF Connected, GoodPreds
<1>6. QED
  BY <1>1, <1>3, <1>5 DEF GoodPreds

(* The calls that a graph may have come to have are those that it may have *)
(* if there are more.                                                      *)
LEMMA GraphsGrow ==
  ASSUME NEW C, NEW D, C \subseteq D, NEW B, NEW g \in Graphs(C, B)
  PROVE  g \in Graphs(D, B)
<1>1. PICK P, K, H : P = g.preds /\ K = g.calls /\ H = g.home
  OBVIOUS
<1>2. /\ g = [preds |-> P, calls |-> K, home |-> H] /\ GoodPreds(P)
      /\ K \in Seq(Seq(C)) /\ Len(K) = Len(P) /\ H \in [B -> DOMAIN P] /\ IsInjective(H)
  BY <1>1, PartsOfGraph
<1>3. K \in Seq(Seq(D))
  <2>1. PICK S, R : S = Seq(C) /\ R = Seq(D)
    OBVIOUS
  <2>2. S \subseteq R
    BY <2>1
  <2>3. K \in Seq(S)
    BY <1>2, <2>1
  <2>4. K \in Seq(R)
    BY <2>2, <2>3
  <2>5. QED
    BY <2>1, <2>4
<1>4. QED
  BY <1>2, <1>3, GraphOfParts

(* Calls for the regions that have been found.                             *)
Calls == [region : Targets, event : {"enter", "exit"}]

(* Regions are between blocks, every block can be reached, there are no    *)
(* jitable scops before detection has run, what is instrumented has been   *)
(* found, and so have been the regions whose calls the graph has.          *)
GraphInv ==
  /\ enabled \in BOOLEAN /\ pc \in {"detect", "instrument", "run"}
  /\ GoodPreds(fn.preds)
  /\ \A r \in Regions(fn) : r.entry \in Blocks(fn) /\ r.exit \in Blocks(fn)
  /\ jit \subseteq Regions(fn) /\ all \subseteq Regions(fn)
  /\ pc = "detect" => jit = {}
  /\ todo \in Seq(Targets)
  /\ graph \in Graphs(Calls, Blocks(fn)) /\ Blocks(fn) \subseteq DOMAIN graph.preds
  /\ at \in DOMAIN graph.preds /\ open \in Seq(Targets)

(* Instrumenting a region whose blocks the function has gives a graph.     *)
LEMMA InstrumentedTyped ==
  ASSUME NEW C, NEW B, graph \in Graphs(C, B), NEW r, Call(r, "enter") \in C, Call(r, "exit") \in C,
         r.entry \in DOMAIN graph.preds, r.exit \in DOMAIN graph.preds
  PROVE  Instrumented(r) \in Graphs(C, B) /\ DOMAIN graph.preds \subseteq DOMAIN Instrumented(r).preds
<1>1. PICK g, a, b : g = graph /\ a = r.entry /\ b = r.exit
  OBVIOUS
<1>2. g \in Graphs(C, B) /\ a \in DOMAIN g.preds /\ b \in DOMAIN g.preds
  BY <1>1
<1>3. Len(g.preds) \in Nat /\ DOMAIN g.preds = 1..Len(g.preds)
      /\ \A c \in DOMAIN g.preds : g.preds[c] \in Seq(DOMAIN g.preds)
  <2>1. GoodPreds(g.preds)
    BY <1>2, PartsOfGraph
  <2>2. Len(g.preds) \in Nat /\ DOMAIN g.preds = 1..Len(g.preds)
        /\ \A c \in DOMAIN g.preds : g.preds[c] \in Seq(Nat) /\ ToSet(g.preds[c]) \subseteq DOMAIN g.preds
    BY <2>1, GoodLists
  <2>3. QED
    BY <2>2, ListOver
<1>4. PICK ps : ps = Among(g.preds[a], Outside(r, DOMAIN g.preds))
  OBVIOUS
<1>5. ps \in Seq(DOMAIN g.preds)
  <2>1. PICK s, S : s = g.preds[a] /\ S = Outside(r, DOMAIN g.preds)
    OBVIOUS
  <2>2. s \in Seq(DOMAIN g.preds)
    BY <1>2, <1>3, <2>1
  <2>3. Among(s, S) \in Seq(DOMAIN g.preds)
    BY <2>2, AmongKeeps
  <2>4. QED
    BY <1>4, <2>1, <2>3
<1>6. PICK e : e = SplitEdges(g, a, ps)
  OBVIOUS
<1>7. e \in Graphs(C, B) /\ Len(e.preds) >= Len(g.preds)
  BY <1>2, <1>5, <1>6, SplitEdgesTyped
<1>8. Len(e.preds) \in Nat /\ DOMAIN e.preds = 1..Len(e.preds)
      /\ \A c \in DOMAIN e.preds : e.preds[c] \in Seq(DOMAIN e.preds)
  <2>1. GoodPreds(e.preds)
    BY <1>7, PartsOfGraph
  <2>2. Len(e.preds) \in Nat /\ DOMAIN e.preds = 1..Len(e.preds)
        /\ \A c \in DOMAIN e.preds : e.preds[c] \in Seq(Nat) /\ ToSet(e.preds[c]) \subseteq DOMAIN e.preds
    BY <2>1, GoodLists
  <2>3. QED
    BY <2>2, ListOver
<1>9. b \in DOMAIN e.preds
  BY <1>2, <1>3, <1>7, <1>8
<1>10. PICK qs : qs = Among(e.preds[b], fn.blocks[r])
  OBVIOUS
<1>11. qs \in Seq(DOMAIN e.preds)
  <2>1. PICK s, S : s = e.preds[b] /\ S = fn.blocks[r]
    OBVIOUS
  <2>2. s \in Seq(DOMAIN e.preds)
    BY <1>8, <1>9, <2>1
  <2>3. Among(s, S) \in Seq(DOMAIN e.preds)
    BY <2>2, AmongKeeps
  <2>4. QED
    BY <1>10, <2>1, <2>3
<1>12. PICK x : x = SplitEdges(e, b, qs)
  OBVIOUS
<1>13. x \in Graphs(C, B) /\ Len(x.preds) >= Len(e.preds)
  BY <1>7, <1>9, <1>11, <1>12, SplitEdgesTyped
<1>14. /\ x = [preds |-> x.preds, calls |-> x.calls, home |-> x.home]
       /\ GoodPreds(x.preds) /\ x.calls \in Seq(Seq(C)) /\ Len(x.calls) = Len(x.preds)
       /\ DOMAIN x.calls = DOMAIN x.preds /\ (\A c \in DOMAIN x.preds : x.calls[c] \in Seq(C))
       /\ x.home \in [B -> DOMAIN x.preds] /\ IsInjective(x.home)
       /\ Len(x.preds) \in Nat /\ DOMAIN x.preds = 1..Len(x.preds)
  BY <1>13, PartsOfGraph, GoodLists
<1>15. PICK in, out : in = <<Call(r, "enter")>> /\ out = <<Call(r, "exit")>>
  OBVIOUS
<1>16. in \in Seq(C) /\ out \in Seq(C)
  BY <1>15
<1>17. PICK M : M = [c \in DOMAIN x.calls |->
                       CASE c > Len(g.preds) /\ c <= Len(e.preds) -> x.calls[c] \o in
                         [] c > Len(e.preds) -> out \o x.calls[c]
                         [] OTHER -> x.calls[c]]
  OBVIOUS
<1>18. M \in Seq(Seq(C)) /\ Len(M) = Len(x.preds)
  <2>1. PICK S : S = Seq(C)
    OBVIOUS
  <2>2. ASSUME NEW c \in 1..Len(x.preds) PROVE M[c] \in S
    <3>1. PICK k : k = x.calls[c]
      OBVIOUS
    <3>2. k \in Seq(C) /\ k \o in \in Seq(C) /\ out \o k \in Seq(C)
      BY <1>14, <1>16, <3>1
    <3>3. M[c] \in {k \o in, out \o k, k}
      BY <1>14, <1>17, <3>1
    <3>4. QED
      BY <2>1, <3>2, <3>3
  <2>3. M \in [1..Len(x.preds) -> S]
    <3>1. DOMAIN M = 1..Len(x.preds) /\ M = [c \in DOMAIN M |-> M[c]]
      BY <1>14, <1>17
    <3>2. QED
      BY <2>2, <3>1
  <2>4. M \in Seq(S) /\ Len(M) = Len(x.preds)
    <3>1. PICK k : k = Len(x.preds)
      OBVIOUS
    <3>2. k \in Nat /\ M \in [1..k -> S]
      BY <1>14, <2>3, <3>1
    <3>3. M \in Seq(S) /\ Len(M) = k
      BY <3>2
    <3>4. QED
      BY <3>1, <3>3
  <2>5. QED
    BY <2>1, <2>4
<1>19. Instrumented(r) = [preds |-> x.preds, calls |-> M, home |-> x.home]
  <2>1. Instrumented(r)
          = [x EXCEPT !.calls = [c \in DOMAIN x.calls |->
               CASE c > Len(g.preds) /\ c <= Len(e.preds) -> x.calls[c] \o <<Call(r, "enter")>>
                 [] c > Len(e.preds) -> <<Call(r, "exit")>> \o x.calls[c]
                 [] OTHER -> x.calls[c]]]
    BY <1>1, <1>4, <1>6, <1>10, <1>12 DEF Instrumented
  <2>2. Instrumented(r) = [x EXCEPT !.calls = M]
    BY <1>15, <1>17, <2>1
  <2>3. QED
    BY <1>14, <2>2
<1>20. [preds |-> x.preds, calls |-> M, home |-> x.home] \in Graphs(C, B)
  BY <1>14, <1>18, GraphOfParts
<1>21. DOMAIN g.preds \subseteq DOMAIN x.preds
  BY <1>3, <1>7, <1>8, <1>13, <1>14
<1>22. QED
  BY <1>1, <1>19, <1>20, <1>21

-----------------------------------------------------------------------------
(* A sequence over a set is one over every larger set.                     *)
LEMMA ListsGrow ==
  ASSUME NEW T, NEW U, T \subseteq U, NEW s \in Seq(T)
  PROVE  s \in Seq(U)
<1>1. ToSet(s) \subseteq U
  BY DEF ToSet
<1>2. QED
  BY <1>1, ListOver

(* The use lists of a function that a compiler may meet.                   *)
LEMMA FunctionGood ==
  ASSUME NEW f \in Functions
  PROVE  GoodPreds(f.preds) /\ f.preds \in Seq(Seq(Blocks(f))) /\ \A S \in SUBSET Blocks(f) : IsFiniteSet(S)
<1>1. PICK P, D : P = f.preds /\ D = Blocks(f)
  OBVIOUS
<1>2. P \in Seq(Seq(D)) /\ 1 \in D /\ D = DOMAIN P /\ ReachedFrom(f, 1, {}) = D
  BY <1>1, FunctionsAssumption, ReachableBlocks DEF Blocks
<1>3. PICK A : A = Seq(D)
  OBVIOUS
<1>4. Len(P) \in Nat /\ D = 1..Len(P) /\ \A b \in D : P[b] \in A
  BY <1>2, <1>3
<1>5. Connected(P)
  <2>1. P \in Seq(A) /\ f.preds = P /\ 1 \in DOMAIN P /\ ReachedFrom(f, 1, {}) = DOMAIN P
    BY <1>1, <1>2, <1>3
  <2>2. QED
    BY <2>1, ReachedMeansConnected
<1>6. \A b \in D : ToSet(P[b]) \subseteq D
  BY <1>3, <1>4 DEF ToSet
<1>7. P \in Seq(Seq(Nat))
  <2>1. PICK R : R = Seq(Nat)
    OBVIOUS
  <2>2. D \subseteq Nat
    BY <1>4
  <2>3. A \subseteq R
    BY <1>3, <2>1, <2>2, ListsGrow
  <2>4. P \in Seq(A)
    BY <1>2, <1>3
  <2>5. P \in Seq(R)
    BY <2>3, <2>4
  <2>6. QED
    BY <2>1, <2>5
<1>8. GoodPreds(P)
  BY <1>2, <1>5, <1>6, <1>7 DEF GoodPreds
<1>9. IsFiniteSet(D)
  <2>1. PICK one : one = 1
    OBVIOUS
  <2>2. one \in Int /\ Len(P) \in Int /\ one..Len(P) = D
    BY <1>4, <2>1
  <2>3. IsFiniteSet(one..Len(P))
    BY <2>2, FS_Interval
  <2>4. QED
    BY <2>2, <2>3
<1>10. \A S \in SUBSET D : IsFiniteSet(S)
  BY <1>9, FS_Subset
<1>11. QED
  BY <1>1, <1>2, <1>8, <1>10

(* Before the pass the graph is the function's, without calls.             *)
LEMMA GraphInit == Init => GraphInv
<1>1. SUFFICES ASSUME Init PROVE GraphInv
  OBVIOUS
<1>2. PICK g \in Functions : \E p \in UseOrders(Analysed(g)) : fn = [Analysed(g) EXCEPT !.preds = p]
  BY <1>1 DEF Init
<1>3. PICK p \in UseOrders(Analysed(g)) : fn = [Analysed(g) EXCEPT !.preds = p]
  BY <1>2
<1>4. fn.preds = p /\ fn.regions = g.regions
  BY <1>3 DEF Analysed
<1>5. PICK P, D : P = g.preds /\ D = Blocks(g)
  OBVIOUS
<1>6. GoodPreds(P) /\ P \in Seq(Seq(D)) /\ (\A S \in SUBSET D : IsFiniteSet(S)) /\ DOMAIN P = D
  BY <1>5, FunctionGood DEF Blocks
<1>7. p \in Seq(Seq(D)) /\ SameUses(p, P)
  <2>1. PICK f : f = Analysed(g)
    OBVIOUS
  <2>2. f.preds = P
    BY <1>5, <2>1 DEF Analysed
  <2>3. p \in UseOrders(f)
    BY <2>1
  <2>4. QED
    BY <1>6, <2>2, <2>3, UseOrdersAre
<1>8. p \in Seq(Seq(Nat))
  <2>1. PICK A, R : A = Seq(D) /\ R = Seq(Nat)
    OBVIOUS
  <2>2. D \subseteq Nat
    BY <1>6, GoodLists
  <2>3. A \subseteq R
    BY <2>1, <2>2, ListsGrow
  <2>4. p \in Seq(A)
    BY <1>7, <2>1
  <2>5. p \in Seq(R)
    BY <2>3, <2>4
  <2>6. QED
    BY <2>1, <2>5
<1>9. GoodPreds(p) /\ DOMAIN p = D
  BY <1>6, <1>7, <1>8, SameUsesGood
<1>10. Blocks(fn) = D
  BY <1>4, <1>9 DEF Blocks
<1>11. \A r \in Regions(fn) : r.entry \in Blocks(fn) /\ r.exit \in Blocks(fn)
  <2>1. PICK R : R = [entry : D, exit : D]
    OBVIOUS
  <2>2. g.regions \in Seq(R)
    BY <1>5, <2>1, FunctionsAssumption
  <2>3. \A r \in Regions(fn) : r \in R
    BY <1>4, <2>2 DEF Regions, ToSet
  <2>4. QED
    BY <1>10, <2>1, <2>3
<1>12. graph \in Graphs(Calls, D) /\ graph.preds = p
  <2>1. PICK K, H : K = [b \in D |-> <<>>] /\ H = [b \in D |-> b]
    OBVIOUS
  <2>2. graph = [preds |-> p, calls |-> K, home |-> H]
    BY <1>1, <1>4, <1>10, <2>1 DEF Init
  <2>3. Len(p) \in Nat /\ D = 1..Len(p)
    BY <1>9, GoodLists
  <2>4. K \in Seq(Seq(Calls)) /\ Len(K) = Len(p)
    <3>1. PICK A, empty : A = Seq(Calls) /\ empty = <<>>
      OBVIOUS
    <3>2. empty \in A
      BY <3>1
    <3>3. K \in [1..Len(p) -> A]
      BY <2>1, <2>3, <3>1, <3>2
    <3>4. PICK n : n = Len(p)
      OBVIOUS
    <3>5. n \in Nat /\ K \in [1..n -> A]
      BY <2>3, <3>3, <3>4
    <3>6. K \in Seq(A) /\ Len(K) = n
      BY <3>5
    <3>7. QED
      BY <3>1, <3>4, <3>6
  <2>5. H \in [D -> DOMAIN p] /\ IsInjective(H)
    BY <1>9, <2>1 DEF IsInjective
  <2>6. QED
    BY <1>9, <2>2, <2>4, <2>5, GraphOfParts
<1>13. at \in DOMAIN graph.preds
  BY <1>1, <1>9, <1>12 DEF Init, GoodPreds
<1>14. QED
  BY <1>1, <1>4, <1>9, <1>10, <1>11, <1>12, <1>13 DEF Init, GraphInv

(* Detection finds regions of the function, of which some are listed to be *)
(* instrumented, and leaves the graph alone.                               *)
LEMMA DetectGraph ==
  ASSUME GraphInv, FilterInv, Detect
  PROVE  GraphInv'
<1>1. PICK losers : losers = Rejected(fn, JitableScops \o valid)
  OBVIOUS
<1>2. /\ jit' = ToSet(JitableScops) \ losers
      /\ all' = (ToSet(JitableScops) \cup ToSet(valid)) \ losers
      /\ todo' = valid \o JitScops(losers)
      /\ pc = "detect" /\ pc' = "instrument"
      /\ UNCHANGED <<enabled, fn, valid, rejected, graph, at, open>>
  BY <1>1 DEF Detect
<1>3. JitableScops \in Seq(Regions(fn))
  BY FoundIs
<1>4. PICK T, j, v : T = Regions(fn) /\ j = JitableScops /\ v = valid
  OBVIOUS
<1>5. j \in Seq(T) /\ v \in Seq(T) /\ ToSet(j) \subseteq T /\ ToSet(v) \subseteq T
  <2>1. j \in Seq(T) /\ v \in Seq(T)
    BY <1>3, <1>4 DEF FilterInv
  <2>2. QED
    BY <2>1 DEF ToSet
<1>6. jit' \subseteq T /\ all' \subseteq T /\ jit = {}
  BY <1>2, <1>4, <1>5 DEF GraphInv
<1>7. Targets' = ToSet(v) \cup jit' /\ Targets = ToSet(v)
  BY <1>2, <1>4, <1>6 DEF Targets
<1>8. todo' \in Seq(Targets')
  <2>1. PICK k : k = JitScops(losers)
    OBVIOUS
  <2>2. k = Among(j, T \ losers)
    BY <1>4, <2>1 DEF JitScops
  <2>3. k \in Seq(T) /\ ToSet(k) = ToSet(j) \cap (T \ losers)
    BY <1>5, <2>2, AmongKeeps
  <2>4. ToSet(k) \subseteq Targets' /\ ToSet(v) \subseteq Targets'
    BY <1>2, <1>4, <1>7, <2>3
  <2>5. PICK U : U = Targets'
    OBVIOUS
  <2>6. k \in Seq(U) /\ v \in Seq(U)
    BY <1>5, <2>3, <2>4, <2>5, ListOver
  <2>7. v \o k \in Seq(U)
    BY <2>6
  <2>8. QED
    BY <1>2, <1>4, <2>1, <2>5, <2>7
<1>9. graph' \in Graphs(Calls', Blocks(fn)')
  <2>1. PICK C, D : C = Calls /\ D = Calls'
    OBVIOUS
  <2>2. C \subseteq D
    BY <1>7, <2>1 DEF Calls
  <2>3. graph \in Graphs(C, Blocks(fn))
    BY <2>1 DEF GraphInv
  <2>4. graph \in Graphs(D, Blocks(fn))
    BY <2>2, <2>3, GraphsGrow
  <2>5. QED
    BY <1>2, <2>1, <2>4
<1>10. open' \in Seq(Targets')
  <2>1. PICK U, V : U = Targets /\ V = Targets'
    OBVIOUS
  <2>2. open \in Seq(U) /\ U \subseteq V
    BY <1>7, <2>1 DEF GraphInv
  <2>3. open \in Seq(V)
    BY <2>2
  <2>4. QED
    BY <1>2, <2>1, <2>3
<1>11. Regions(fn)' = Regions(fn) /\ Blocks(fn)' = Blocks(fn)
  BY <1>2
<1>12. QED
  BY <1>2, <1>4, <1>6, <1>8, <1>9, <1>10, <1>11 DEF GraphInv

(* A region that is not valid is passed over.                              *)
LEMMA SkipGraph ==
  ASSUME GraphInv, FilterInv, Skip
  PROVE  GraphInv'
<1>1. /\ todo' = valid /\ pc' = "instrument"
      /\ UNCHANGED <<enabled, fn, valid, rejected, jit, all, graph, at, open>>
  BY DEF Skip
<1>2. Targets' = Targets /\ Calls' = Calls /\ Regions(fn)' = Regions(fn) /\ Blocks(fn)' = Blocks(fn)
  BY <1>1 DEF Targets, Calls
<1>3. todo' \in Seq(Targets')
  <2>1. PICK T, U, v : T = Regions(fn) /\ U = Targets /\ v = valid
    OBVIOUS
  <2>2. v \in Seq(T) /\ ToSet(v) \subseteq U
    BY <2>1 DEF FilterInv, Targets
  <2>3. v \in Seq(U)
    BY <2>2, ListOver
  <2>4. QED
    BY <1>1, <1>2, <2>1, <2>3
<1>4. QED
  BY <1>1, <1>2, <1>3 DEF GraphInv

(* A region of the list, whose entry and exit are blocks of the function.  *)
LEMMA ProcessRegionGraph ==
  ASSUME GraphInv, FilterInv, ProcessRegion
  PROVE  GraphInv'
<1>1. /\ todo # <<>> /\ graph' = Instrumented(Head(todo)) /\ todo' = Tail(todo)
      /\ UNCHANGED <<enabled, pc, fn, valid, rejected, jit, all, at, open>>
  BY DEF ProcessRegion
<1>2. Targets' = Targets /\ Calls' = Calls /\ Regions(fn)' = Regions(fn) /\ Blocks(fn)' = Blocks(fn)
  BY <1>1 DEF Targets, Calls
<1>3. PICK U, r : U = Targets /\ r = Head(todo)
  OBVIOUS
<1>4. r \in U /\ todo' \in Seq(U)
  <2>1. todo \in Seq(U) /\ todo # <<>>
    BY <1>1, <1>3 DEF GraphInv
  <2>2. Head(todo) \in U /\ Tail(todo) \in Seq(U)
    BY <2>1
  <2>3. QED
    BY <1>1, <1>3, <2>2
<1>5. r \in Regions(fn)
  <2>1. ToSet(valid) \subseteq Regions(fn)
    <3>1. PICK T, v : T = Regions(fn) /\ v = valid
      OBVIOUS
    <3>2. v \in Seq(T)
      BY <3>1 DEF FilterInv
    <3>3. ToSet(v) \subseteq T
      BY <3>2 DEF ToSet
    <3>4. QED
      BY <3>1, <3>3
  <2>2. QED
    BY <1>3, <1>4, <2>1 DEF Targets, GraphInv
<1>6. r.entry \in DOMAIN graph.preds /\ r.exit \in DOMAIN graph.preds
  BY <1>5 DEF GraphInv
<1>7. PICK C, B : C = Calls /\ B = Blocks(fn)
  OBVIOUS
<1>8. Call(r, "enter") \in C /\ Call(r, "exit") \in C
  BY <1>3, <1>4, <1>7 DEF Call, Calls
<1>9. graph \in Graphs(C, B)
  BY <1>7 DEF GraphInv
<1>10. Instrumented(r) \in Graphs(C, B) /\ DOMAIN graph.preds \subseteq DOMAIN Instrumented(r).preds
  BY <1>6, <1>8, <1>9, InstrumentedTyped
<1>11. graph' \in Graphs(Calls', Blocks(fn)') /\ DOMAIN graph.preds \subseteq DOMAIN graph'.preds
  BY <1>1, <1>2, <1>3, <1>7, <1>10
<1>12. QED
  BY <1>1, <1>2, <1>3, <1>4, <1>11 DEF GraphInv

(* The calls at the beginning of a block.                                  *)
LEMMA RunsCalls ==
  ASSUME GraphInv, NEW b \in DOMAIN graph.preds
  PROVE  Execute(graph.calls[b], open) \in Seq(Targets)
<1>1. PICK T, C : T = Targets /\ C = Calls
  OBVIOUS
<1>2. \A c \in C : c.region \in T
  BY <1>1 DEF Calls
<1>3. PICK g : g = graph
  OBVIOUS
<1>4. g \in Graphs(C, Blocks(fn)) /\ b \in DOMAIN g.preds
  BY <1>1, <1>3 DEF GraphInv
<1>5. g.calls[b] \in Seq(C)
  BY <1>4, PartsOfGraph
<1>6. PICK s, o : s = g.calls[b] /\ o = open
  OBVIOUS
<1>7. s \in Seq(C) /\ o \in Seq(T)
  BY <1>1, <1>5, <1>6 DEF GraphInv
<1>8. Execute(s, o) \in Seq(T)
  BY <1>2, <1>7, ExecuteTyped
<1>9. QED
  BY <1>1, <1>3, <1>6, <1>8

(* Every step keeps the graph typed.                                       *)
LEMMA GraphStep == GraphInv /\ FilterInv /\ [Next]_vars => GraphInv'
<1>1. SUFFICES ASSUME GraphInv, FilterInv, [Next]_vars PROVE GraphInv'
  OBVIOUS
<1>2. CASE Skip
  BY <1>1, <1>2, SkipGraph
<1>3. CASE Detect
  BY <1>1, <1>3, DetectGraph
<1>4. CASE ProcessRegion
  BY <1>1, <1>4, ProcessRegionGraph
<1>5. CASE Run
  <2>1. /\ pc' = "run" /\ open' = Execute(graph.calls[at], open)
        /\ UNCHANGED <<enabled, fn, valid, rejected, jit, all, todo, graph, at>>
    BY <1>5 DEF Run
  <2>2. Targets' = Targets /\ Calls' = Calls /\ Regions(fn)' = Regions(fn) /\ Blocks(fn)' = Blocks(fn)
    BY <2>1 DEF Targets, Calls
  <2>3. at \in DOMAIN graph.preds
    BY <1>1 DEF GraphInv
  <2>4. open' \in Seq(Targets')
    BY <1>1, <2>1, <2>2, <2>3, RunsCalls
  <2>5. QED
    BY <1>1, <2>1, <2>2, <2>4 DEF GraphInv
<1>6. CASE Branch
  <2>1. PICK b \in Succs(graph, at) : at' = b /\ open' = Execute(graph.calls[b], open)
    BY <1>6 DEF Branch
  <2>2. UNCHANGED <<enabled, pc, fn, valid, rejected, jit, all, todo, graph>>
    BY <1>6 DEF Branch
  <2>3. Targets' = Targets /\ Calls' = Calls /\ Regions(fn)' = Regions(fn) /\ Blocks(fn)' = Blocks(fn)
    BY <2>2 DEF Targets, Calls
  <2>4. b \in DOMAIN graph.preds
    BY <2>1 DEF Succs
  <2>5. open' \in Seq(Targets')
    BY <1>1, <2>1, <2>3, <2>4, RunsCalls
  <2>6. QED
    BY <1>1, <2>1, <2>2, <2>3, <2>4, <2>5 DEF GraphInv
<1>7. CASE UNCHANGED vars
  <2>1. Targets' = Targets /\ Calls' = Calls /\ Regions(fn)' = Regions(fn) /\ Blocks(fn)' = Blocks(fn)
    BY <1>7 DEF Targets, Calls, vars
  <2>2. QED
    BY <1>1, <1>7, <2>1 DEF GraphInv, vars
<1>8. QED
  BY <1>1, <1>2, <1>3, <1>4, <1>5, <1>6, <1>7 DEF Next

(***************************************************************************)
(* The graph stays one: each block is reached from the first, the block of *)
(* the function that each block continues is known, and only regions that  *)
(* have been found are called for, entered and to be instrumented.         *)
(***************************************************************************)
THEOREM GraphInvariant == Spec => []GraphInv
<1>1. QED
  BY GraphInit, GraphStep, FilterInvariant, PTL DEF Spec

(* With what the filter keeps, these are the types of the variables.       *)
LEMMA GraphTypes == GraphInv /\ FilterInv => TypeOK
<1>1. SUFFICES ASSUME GraphInv, FilterInv PROVE TypeOK
  OBVIOUS
<1>2. PICK g, C, B : g = graph /\ C = Calls /\ B = Blocks(fn)
  OBVIOUS
<1>3. g \in Graphs(C, B)
  BY <1>1, <1>2 DEF GraphInv
<1>4. /\ GoodPreds(g.preds)
      /\ g.calls \in Seq(Seq(C)) /\ Len(g.calls) = Len(g.preds)
      /\ DOMAIN g.calls = DOMAIN g.preds /\ (\A b \in DOMAIN g.preds : g.calls[b] \in Seq(C))
      /\ g.home \in [B -> DOMAIN g.preds] /\ IsInjective(g.home)
  BY <1>3, PartsOfGraph
<1>5. PICK P, D : P = g.preds /\ D = DOMAIN g.preds
  OBVIOUS
<1>6. Len(P) \in Nat /\ DOMAIN P = 1..Len(P) /\ P \in Seq(Seq(Nat))
      /\ \A c \in D : P[c] \in Seq(Nat) /\ ToSet(P[c]) \subseteq D
  <2>1. GoodPreds(P)
    BY <1>4, <1>5
  <2>2. PICK A : A = Seq(Nat)
    OBVIOUS
  <2>3. P \in Seq(A) /\ D = DOMAIN P
    BY <1>5, <2>1, <2>2 DEF GoodPreds
  <2>4. Len(P) \in Nat /\ DOMAIN P = 1..Len(P) /\ \A c \in D : P[c] \in A
    BY <2>3
  <2>5. QED
    BY <2>1, <2>2, <2>3, <2>4 DEF GoodPreds
<1>7. P \in Seq(Seq(D))
  <2>1. PICK A : A = Seq(D)
    OBVIOUS
  <2>2. \A c \in 1..Len(P) : P[c] \in A
    BY <1>5, <1>6, <2>1, ListOver
  <2>3. P = [c \in 1..Len(P) |-> P[c]]
    BY <1>6
  <2>4. P \in [1..Len(P) -> A]
    BY <2>2, <2>3
  <2>5. PICK n : n = Len(P)
    OBVIOUS
  <2>6. n \in Nat /\ P \in [1..n -> A]
    BY <1>6, <2>4, <2>5
  <2>7. P \in Seq(A)
    BY <2>6
  <2>8. QED
    BY <2>1, <2>7
<1>8. ReachedFrom(g, 1, {}) = D
  <2>1. PICK A : A = Seq(Nat)
    OBVIOUS
  <2>2. P \in Seq(A) /\ g.preds = P /\ 1 \in DOMAIN P /\ Connected(P) /\ D = DOMAIN P
    BY <1>4, <1>5, <1>6, <2>1 DEF GoodPreds
  <2>3. QED
    BY <2>2, ConnectedMeansReached
<1>9. g.calls \in [D -> Seq(C)]
  <2>1. PICK k, A : k = g.calls /\ A = Seq(C)
    OBVIOUS
  <2>2. k \in Seq(A) /\ DOMAIN k = D /\ \A b \in D : k[b] \in A
    BY <1>4, <1>5, <2>1
  <2>3. k = [b \in D |-> k[b]]
    BY <2>2
  <2>4. QED
    BY <2>1, <2>2, <2>3
<1>10. todo \in Seq(Regions(fn))
  <2>1. PICK T, U, v : T = Regions(fn) /\ U = Targets /\ v = valid
    OBVIOUS
  <2>2. v \in Seq(T) /\ todo \in Seq(U) /\ jit \subseteq T
    BY <1>1, <2>1 DEF FilterInv, GraphInv
  <2>3. ToSet(v) \subseteq T
    BY <2>2 DEF ToSet
  <2>4. U \subseteq T
    BY <2>1, <2>2, <2>3 DEF Targets
  <2>5. todo \in Seq(T)
    BY <2>2, <2>4
  <2>6. QED
    BY <2>1, <2>5
<1>11. Rejects \subseteq Regions(fn)
  <2>1. PICK R, T : T = Regions(fn) /\ R = [region : T, log : Reasons]
    OBVIOUS
  <2>2. rejected \in Seq(R)
    BY <1>1, <2>1 DEF FilterInv
  <2>3. \A i \in DOMAIN rejected : rejected[i] \in R
    BY <2>2
  <2>4. \A i \in DOMAIN rejected : rejected[i].region \in T
    BY <2>1, <2>3
  <2>5. QED
    BY <2>1, <2>4 DEF Rejects
<1>12. [region : Targets, event : {"enter", "exit"}] = C
  BY <1>2 DEF Calls
<1>13. QED
  BY <1>1, <1>2, <1>4, <1>5, <1>7, <1>8, <1>9, <1>10, <1>11, <1>12 DEF TypeOK, GraphInv, FilterInv

(***************************************************************************)
(* The variables keep their types, for every function: splitting edges for *)
(* the calls never loses a block or an edge into one, though each split    *)
(* changes the lists the next one reads.                                   *)
(***************************************************************************)
THEOREM TypeCorrect == Spec => []TypeOK
<1>1. QED
  BY GraphInvariant, FilterInvariant, GraphTypes, PTL
=============================================================================
