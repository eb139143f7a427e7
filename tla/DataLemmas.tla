----------------------------- MODULE DataLemmas -----------------------------
(***************************************************************************)
(* Induction over numbers, and what it shows of sequences. A set that has  *)
(* 0 and with each number the next one has all numbers: in this form       *)
(* induction can be cited for what a recursive function computes.          *)
(***************************************************************************)
EXTENDS Integers, Sequences, FiniteSets, SequencesExt, FiniteSetsExt,
        FiniteSetTheorems, SequenceTheorems, TLAPS

-----------------------------------------------------------------------------
(* A set of numbers that is not empty has a least element.                 *)
LEMMA MinOfNats ==
  ASSUME NEW S, S \in SUBSET Nat, S # {}
  PROVE  Min(S) \in S /\ \A x \in S : Min(S) <= x
<1> DEFINE R == {ss \in Nat \X Nat : ss[1] < ss[2]}
<1>1. IsWellFoundedOn(R, Nat)
  BY NatLessThanWellFounded, Zenon DEF OpToRel
<1> HIDE DEF R
<1>2. PICK m \in S : \A x \in S : <<x, m>> \notin R
  BY <1>1, WFMin, Zenon
<1>3. ASSUME NEW x \in S PROVE m <= x
  <2>1. <<x, m>> \in Nat \X Nat /\ <<x, m>>[1] = x /\ <<x, m>>[2] = m
    OBVIOUS
  <2>2. ~ (x < m)
    BY <1>2, <2>1, Zenon DEF R
  <2>3. QED
    BY <2>2
<1>4. QED
  BY <1>3 DEF Min

(* A set of numbers that has 0 and with each number the next one.          *)
LEMMA SetInduction ==
  ASSUME NEW S, 0 \in S, \A n \in Nat : n \in S => n + 1 \in S
  PROVE  \A n \in Nat : n \in S
<1> DEFINE bad == Nat \ S
<1>1. SUFFICES ASSUME bad # {} PROVE FALSE
  OBVIOUS
<1>2. PICK n \in bad : \A m \in bad : n <= m
  <2>1. bad \in SUBSET Nat
    OBVIOUS
  <2> HIDE DEF bad
  <2>2. QED
    BY <1>1, <2>1, MinOfNats
<1>3. n # 0 /\ n - 1 \in Nat /\ ~ (n <= n - 1)
  BY <1>2
<1>4. n - 1 \in S
  BY <1>2, <1>3
<1>5. QED
  BY <1>2, <1>3, <1>4

(* A function on 0..N is defined by its value at 0 and the step from each  *)
(* value to the next.                                                      *)
DefinedBy(f, base, N, step) == f[0] = base /\ \A n \in 1..N : f[n] = step[n][f[n - 1]]

(* What a recursive function with the steps `step' computes exists and     *)
(* stays in A up to every N.                                               *)
LEMMA RecursionTo ==
  ASSUME NEW A, NEW base, base \in A, NEW N, N \in Nat, NEW step, step \in [1..N -> [A -> A]]
  PROVE  \E f \in [0..N -> A] : DefinedBy(f, base, N, step)
<1> DEFINE Upto(k, f) == f[0] = base /\ \A n \in 1..k : f[n] = step[n][f[n - 1]]
           S == {k \in Nat : k <= N => \E f \in [0..k -> A] : Upto(k, f)}
<1>1. 0 \in S
  <2>1. [n \in 0..0 |-> base] \in [0..0 -> A] /\ Upto(0, [n \in 0..0 |-> base])
    OBVIOUS
  <2>2. QED
    BY <2>1
<1>2. ASSUME NEW k \in Nat, k \in S PROVE k + 1 \in S
  <2>1. SUFFICES ASSUME k + 1 <= N PROVE \E f \in [0..(k + 1) -> A] : Upto(k + 1, f)
    OBVIOUS
  <2>2. PICK f \in [0..k -> A] : Upto(k, f)
    BY <1>2, <2>1
  <2>3. f[k] \in A /\ k + 1 \in 1..N /\ step[k + 1][f[k]] \in A
    BY <2>1, <2>2
  <2> DEFINE g == [n \in 0..(k + 1) |-> IF n = k + 1 THEN step[k + 1][f[k]] ELSE f[n]]
  <2>4. g \in [0..(k + 1) -> A] /\ \A n \in 0..k : g[n] = f[n]
    BY <2>2, <2>3
  <2>5. g[k + 1] = step[k + 1][f[k]]
    OBVIOUS
  <2> HIDE DEF g
  <2>6. ASSUME NEW n \in 1..(k + 1) PROVE g[n] = step[n][g[n - 1]]
    <3>1. CASE n = k + 1
      BY <2>4, <2>5, <3>1
    <3>2. CASE n # k + 1
      <4>1. n \in 1..k /\ n \in 0..k /\ n - 1 \in 0..k
        BY <2>6, <3>2
      <4>2. QED
        BY <2>2, <2>4, <4>1
    <3>3. QED
      BY <3>1, <3>2
  <2>7. QED
    BY <2>2, <2>4, <2>6
<1> HIDE DEF S
<1>3. N \in S
  BY <1>1, <1>2, SetInduction
<1>4. QED
  BY <1>3 DEF S, DefinedBy

-----------------------------------------------------------------------------
(* How two sequences make a third one, element by element.                 *)
LEMMA ConcatIs ==
  ASSUME NEW S, NEW q, NEW r, NEW u, q \in Seq(S), r \in Seq(S), u \in Seq(S),
         Len(u) = Len(q) + Len(r), \A i \in 1..Len(q) : u[i] = q[i],
         \A i \in 1..Len(r) : u[Len(q) + i] = r[i]
  PROVE  q \o r = u
<1>1. q \o r \in Seq(S) /\ Len(q \o r) = Len(u) /\ Len(q) \in Nat /\ Len(r) \in Nat
  OBVIOUS
<1>2. ASSUME NEW i \in 1..Len(u) PROVE (q \o r)[i] = u[i]
  <2>1. CASE i <= Len(q)
    BY <1>1, <2>1
  <2>2. CASE i > Len(q)
    <3> DEFINE j == i - Len(q)
    <3>1. j \in 1..Len(r) /\ i = Len(q) + j
      BY <1>1, <2>2
    <3>2. (q \o r)[i] = r[j]
      BY <1>1, <2>2
    <3> HIDE DEF j
    <3>3. QED
      BY <3>1, <3>2
  <2>3. QED
    BY <1>1, <2>1, <2>2
<1>3. QED
  BY <1>1, <1>2, SeqEqual

(* Pieces one after the other.                                             *)
LEMMA FlattenSteps ==
  ASSUME NEW T, NEW s, s \in Seq(Seq(T))
  PROVE  \E f \in [0..Len(s) -> Seq(T)] :
           /\ FlattenSeq(s) = f[Len(s)]
           /\ f[0] = <<>>
           /\ \A n \in 1..Len(s) : f[n] = f[n - 1] \o s[n]
<1> DEFINE Pieces == Seq(T)
           N == 1..Len(s)
           cat(p, q) == p \o q
           flatten[i \in N] == IF i = 1 THEN s[i] ELSE flatten[i - 1] \o s[i]
           next(f, i) == IF i = 1 THEN s[i] ELSE cat(f[i - 1], s[i])
           step == [n \in N |-> [p \in Pieces |-> cat(p, s[n])]]
<1>1. Len(s) \in Nat /\ \A n \in N : s[n] \in Pieces
  <2>1. Len(s) \in Nat /\ DOMAIN s = 1..Len(s)
    OBVIOUS
  <2>2. QED
    BY <2>1, ElementOfSeq
<1>2. <<>> \in Pieces /\ \A p, q \in Pieces : cat(p, q) \in Pieces
  OBVIOUS
<1>3. \A p \in Pieces : cat(<<>>, p) = p
  OBVIOUS
<1>4. FlattenSeq(s) = IF Len(s) = 0 THEN s ELSE flatten[Len(s)]
  BY DEF FlattenSeq
<1>5. Len(s) = 0 => s = <<>>
  OBVIOUS
<1>6. (\E h : h = [n \in N |-> next(h, n)]) => flatten = [n \in N |-> next(flatten, n)]
  OBVIOUS
<1> HIDE DEF cat, flatten, Pieces
<1>7. step \in [N -> [Pieces -> Pieces]]
  BY <1>1, <1>2
<1>8. PICK f \in [0..Len(s) -> Pieces] :
        f[0] = <<>> /\ \A n \in 1..Len(s) : f[n] = step[n][f[n - 1]]
  <2> HIDE DEF step
  <2>1. Len(s) \in Nat
    BY <1>1
  <2>2. <<>> \in Pieces
    BY <1>2
  <2>3. step \in [1..Len(s) -> [Pieces -> Pieces]]
    BY <1>7
  <2>4. \E f \in [0..Len(s) -> Pieces] : DefinedBy(f, <<>>, Len(s), step)
    BY <2>1, <2>2, <2>3, RecursionTo
  <2>5. QED
    BY <2>4 DEF DefinedBy
<1>9. \A n \in N : n - 1 \in 0..Len(s) /\ f[n] = cat(f[n - 1], s[n])
  <2> TAKE n \in N
  <2>1. n - 1 \in 0..Len(s)
    BY <1>1
  <2>2. f[n - 1] \in Pieces
    BY <1>8, <2>1
  <2>3. step[n][f[n - 1]] = cat(f[n - 1], s[n])
    BY <2>2
  <2> HIDE DEF step
  <2>4. QED
    BY <1>8, <2>1, <2>3
<1>10. \A n \in N : f[n] = next(f, n) /\ (n # 1 => n - 1 \in N)
  <2> TAKE n \in N
  <2>1. CASE n = 1
    BY <1>1, <1>3, <1>8, <1>9, <2>1
  <2>2. CASE n # 1
    BY <1>1, <1>9, <2>2
  <2>3. QED
    BY <2>1, <2>2
<1>11. flatten = [n \in N |-> next(flatten, n)]
  <2> DEFINE g == [n \in N |-> f[n]]
  <2>1. g = [n \in N |-> next(g, n)]
    BY <1>10
  <2>2. QED
    BY <1>6, <2>1
<1>12. \A n \in Nat : n \in {k \in Nat : k \in N => flatten[k] = f[k]}
  <2> DEFINE S == {k \in Nat : k \in N => flatten[k] = f[k]}
  <2>1. 0 \in S
    OBVIOUS
  <2>2. ASSUME NEW k \in Nat, k \in S PROVE k + 1 \in S
    <3>1. SUFFICES ASSUME k + 1 \in N PROVE flatten[k + 1] = f[k + 1]
      OBVIOUS
    <3>2. flatten[k + 1] = next(flatten, k + 1) /\ f[k + 1] = next(f, k + 1)
      BY <1>10, <1>11, <3>1
    <3>3. k + 1 # 1 => flatten[k] = f[k] /\ (k + 1) - 1 = k
      BY <1>1, <2>2, <3>1
    <3>4. QED
      BY <3>2, <3>3
  <2> HIDE DEF S
  <2>3. QED
    BY <2>1, <2>2, SetInduction DEF S
<1>13. FlattenSeq(s) = f[Len(s)]
  <2>1. CASE Len(s) = 0
    <3>1. FlattenSeq(s) = <<>>
      BY <1>4, <1>5, <2>1
    <3>2. f[Len(s)] = <<>>
      BY <1>8, <2>1
    <3>3. QED
      BY <3>1, <3>2
  <2>2. CASE Len(s) # 0
    <3>1. Len(s) \in N /\ Len(s) \in Nat
      BY <1>1, <2>2
    <3>2. flatten[Len(s)] = f[Len(s)]
      BY <1>12, <3>1
    <3>3. QED
      BY <1>4, <2>2, <3>2
  <2>3. QED
    BY <2>1, <2>2
<1>14. QED
  BY <1>8, <1>9, <1>13 DEF cat, Pieces

(* A piece stored after the others.                                        *)
LEMMA FlattenAppend ==
  ASSUME NEW T, NEW s, s \in Seq(Seq(T)), NEW p, p \in Seq(T)
  PROVE  /\ FlattenSeq(s) \in Seq(T)
         /\ FlattenSeq(Append(s, p)) = FlattenSeq(s) \o p
<1> DEFINE t == Append(s, p)
           N == Len(s)
<1>1. /\ N \in Nat /\ t \in Seq(Seq(T)) /\ Len(t) = N + 1 /\ t[N + 1] = p
      /\ \A n \in 1..N : t[n] = s[n]
  OBVIOUS
<1> HIDE DEF t
<1>2. PICK f \in [0..Len(s) -> Seq(T)] :
           /\ FlattenSeq(s) = f[Len(s)]
           /\ f[0] = <<>>
           /\ \A n \in 1..Len(s) : f[n] = f[n - 1] \o s[n]
  BY FlattenSteps
<1>3. PICK g \in [0..Len(t) -> Seq(T)] :
           /\ FlattenSeq(t) = g[Len(t)]
           /\ g[0] = <<>>
           /\ \A n \in 1..Len(t) : g[n] = g[n - 1] \o t[n]
  BY <1>1, FlattenSteps
<1> DEFINE S == {n \in Nat : n <= N => g[n] = f[n]}
<1>4. 0 \in S
  BY <1>2, <1>3
<1>5. ASSUME NEW n \in Nat, n \in S PROVE n + 1 \in S
  <2>1. SUFFICES ASSUME n + 1 <= N PROVE g[n + 1] = f[n + 1]
    OBVIOUS
  <2>2. n + 1 \in 1..Len(s) /\ n + 1 \in 1..Len(t) /\ (n + 1) - 1 = n /\ g[n] = f[n]
    BY <1>1, <1>5, <2>1
  <2>3. g[n + 1] = g[n] \o t[n + 1] /\ f[n + 1] = f[n] \o s[n + 1] /\ t[n + 1] = s[n + 1]
    BY <1>1, <1>2, <1>3, <2>2
  <2>4. QED
    BY <2>2, <2>3
<1> HIDE DEF S
<1>6. N \in S
  BY <1>1, <1>4, <1>5, SetInduction
<1>7. g[N] = f[N] /\ f[N] \in Seq(T)
  BY <1>1, <1>2, <1>6 DEF S
<1>8. N + 1 \in 1..Len(t) /\ (N + 1) - 1 = N
  BY <1>1
<1>9. g[N + 1] = g[N] \o p
  BY <1>1, <1>3, <1>8
<1>10. QED
  BY <1>1, <1>2, <1>3, <1>7, <1>9 DEF t
(* What two sequences hold together, and what the pieces hold.             *)
LEMMA ConcatElements ==
  ASSUME NEW T, NEW p \in Seq(T), NEW q \in Seq(T)
  PROVE  ToSet(p \o q) = ToSet(p) \cup ToSet(q)
<1> DEFINE c == p \o q
<1>1. /\ Len(p) \in Nat /\ Len(q) \in Nat /\ DOMAIN p = 1..Len(p) /\ DOMAIN q = 1..Len(q)
      /\ DOMAIN c = 1..(Len(p) + Len(q))
      /\ \A i \in 1..(Len(p) + Len(q)) : c[i] = IF i <= Len(p) THEN p[i] ELSE q[i - Len(p)]
  OBVIOUS
<1> HIDE DEF c
<1>2. ASSUME NEW i \in DOMAIN c PROVE c[i] \in ToSet(p) \cup ToSet(q)
  <2>1. CASE i <= Len(p)
    BY <1>1, <2>1 DEF ToSet
  <2>2. CASE ~ (i <= Len(p))
    <3>1. i - Len(p) \in DOMAIN q /\ c[i] = q[i - Len(p)]
      BY <1>1, <2>2
    <3>2. QED
      BY <3>1 DEF ToSet
  <2>3. QED
    BY <2>1, <2>2
<1>3. ASSUME NEW i \in DOMAIN p PROVE p[i] \in ToSet(c)
  <2>1. i \in DOMAIN c /\ c[i] = p[i]
    BY <1>1
  <2>2. QED
    BY <2>1 DEF ToSet
<1>4. ASSUME NEW i \in DOMAIN q PROVE q[i] \in ToSet(c)
  <2>1. i + Len(p) \in DOMAIN c /\ c[i + Len(p)] = q[(i + Len(p)) - Len(p)] /\ (i + Len(p)) - Len(p) = i
    BY <1>1
  <2>2. QED
    BY <2>1 DEF ToSet
<1>5. QED
  BY <1>2, <1>3, <1>4 DEF ToSet, c

(* Flattening concatenates: the elements are those of the parts.           *)
LEMMA FlattenElements ==
  ASSUME NEW T, NEW s, s \in Seq(Seq(T))
  PROVE  /\ FlattenSeq(s) \in Seq(T)
         /\ ToSet(FlattenSeq(s)) = UNION {ToSet(s[i]) : i \in DOMAIN s}
<1>1. PICK f \in [0..Len(s) -> Seq(T)] :
           /\ FlattenSeq(s) = f[Len(s)]
           /\ f[0] = <<>>
           /\ \A n \in 1..Len(s) : f[n] = f[n - 1] \o s[n]
  BY FlattenSteps
<1>2. Len(s) \in Nat /\ DOMAIN s = 1..Len(s)
  OBVIOUS
<1>3. \A n \in 1..Len(s) : s[n] \in Seq(T)
  BY <1>2, ElementOfSeq
<1> DEFINE Held(n) == UNION {ToSet(s[i]) : i \in 1..n}
           S == {n \in Nat : n <= Len(s) => ToSet(f[n]) = Held(n)}
<1>4. 0 \in S
  BY <1>1 DEF ToSet
<1>5. ASSUME NEW n \in Nat, n \in S PROVE n + 1 \in S
  <2>1. SUFFICES ASSUME n + 1 <= Len(s) PROVE ToSet(f[n + 1]) = Held(n + 1)
    OBVIOUS
  <2>2. n \in 0..Len(s) /\ n + 1 \in 1..Len(s) /\ (n + 1) - 1 = n
    BY <1>2, <2>1
  <2>3. f[n] \in Seq(T) /\ s[n + 1] \in Seq(T) /\ f[n + 1] = f[n] \o s[n + 1]
    BY <1>1, <1>3, <2>2
  <2>4. ToSet(f[n + 1]) = ToSet(f[n]) \cup ToSet(s[n + 1])
    BY <2>3, ConcatElements
  <2>5. ToSet(f[n]) = Held(n)
    BY <1>2, <1>5, <2>2
  <2>6. 1..(n + 1) = (1..n) \cup {n + 1}
    OBVIOUS
  <2>7. Held(n + 1) = Held(n) \cup ToSet(s[n + 1])
    BY <2>6, Zenon
  <2>8. QED
    BY <2>4, <2>5, <2>7
<1> HIDE DEF S
<1>6. Len(s) \in S
  BY <1>2, <1>4, <1>5, SetInduction
<1>7. QED
  BY <1>1, <1>2, <1>6 DEF S

-----------------------------------------------------------------------------
(* Short sequences are what they hold.                                     *)
LEMMA TwoLong ==
  ASSUME NEW T, NEW t \in Seq(T), Len(t) = 2
  PROVE  t = <<t[1], t[2]>>
<1>1. DOMAIN t = 1..2 /\ t = [i \in 1..2 |-> t[i]]
  OBVIOUS
<1>2. <<t[1], t[2]>>
        = [i \in 1..2 |-> IF i = 1 THEN t[1] ELSE t[2]]
  OBVIOUS
<1>3. QED
  BY <1>1, <1>2

(* A sequence of three elements is the tuple of them.                      *)
LEMMA ThreeLong ==
  ASSUME NEW T, NEW t \in Seq(T), Len(t) = 3
  PROVE  t = <<t[1], t[2], t[3]>>
<1>1. DOMAIN t = 1..3 /\ t = [i \in 1..3 |-> t[i]]
  OBVIOUS
<1>2. <<t[1], t[2], t[3]>>
        = [i \in 1..3 |-> IF i = 1 THEN t[1] ELSE IF i = 2 THEN t[2] ELSE t[3]]
  OBVIOUS
<1>3. QED
  BY <1>1, <1>2

(* A sequence of four elements is the tuple of them.                       *)
LEMMA FourLong ==
  ASSUME NEW T, NEW t \in Seq(T), Len(t) = 4
  PROVE  t = <<t[1], t[2], t[3], t[4]>>
<1>1. DOMAIN t = 1..4 /\ t = [i \in 1..4 |-> t[i]]
  OBVIOUS
<1>2. <<t[1], t[2], t[3], t[4]>>
        = [i \in 1..4 |-> IF i = 1 THEN t[1] ELSE IF i = 2 THEN t[2] ELSE IF i = 3 THEN t[3] ELSE t[4]]
  OBVIOUS
<1>3. QED
  BY <1>1, <1>2

(* An element more, another element.                                       *)
LEMMA AppendToOne ==
  ASSUME NEW a, NEW b, NEW s, s = <<a>>
  PROVE  Append(s, b) = <<a, b>>
<1>1. PICK T : T = {a, b}
  OBVIOUS
<1>2. PICK t : t = Append(s, b)
  OBVIOUS
<1>3. s \in Seq(T) /\ b \in T
  BY <1>1
<1>4. /\ t \in Seq(T) /\ Len(t) = Len(s) + 1 /\ t[Len(s) + 1] = b
      /\ \A i \in 1..Len(s) : t[i] = s[i]
  BY <1>2, <1>3, AppendProperties
<1>5. Len(s) = 1 /\ s[1] = a
  OBVIOUS
<1>6. Len(t) = 2 /\ t[1] = s[1] /\ t[2] = b
  BY <1>4, <1>5
<1>7. t = <<t[1], t[2]>>
  BY <1>4, <1>6, TwoLong
<1>8. QED
  BY <1>2, <1>5, <1>6, <1>7

(* Append to a pair.                                                       *)
LEMMA AppendToTwo ==
  ASSUME NEW a, NEW b, NEW c, NEW s, s = <<a, b>>
  PROVE  Append(s, c) = <<a, b, c>>
<1>1. PICK T : T = {a, b, c}
  OBVIOUS
<1>2. PICK t : t = Append(s, c)
  OBVIOUS
<1>3. s \in Seq(T) /\ c \in T
  BY <1>1
<1>4. /\ t \in Seq(T) /\ Len(t) = Len(s) + 1 /\ t[Len(s) + 1] = c
      /\ \A i \in 1..Len(s) : t[i] = s[i]
  BY <1>2, <1>3, AppendProperties
<1>5. Len(s) = 2 /\ s[1] = a /\ s[2] = b
  OBVIOUS
<1>6. Len(t) = 3 /\ t[1] = s[1] /\ t[2] = s[2] /\ t[3] = c
  BY <1>4, <1>5
<1>7. t = <<t[1], t[2], t[3]>>
  BY <1>4, <1>6, ThreeLong
<1>8. QED
  BY <1>2, <1>5, <1>6, <1>7

(* Append to a triple.                                                     *)
LEMMA AppendToThree ==
  ASSUME NEW a, NEW b, NEW c, NEW d, NEW s, s = <<a, b, c>>
  PROVE  Append(s, d) = <<a, b, c, d>>
<1>1. PICK T : T = {a, b, c, d}
  OBVIOUS
<1>2. PICK t : t = Append(s, d)
  OBVIOUS
<1>3. s \in Seq(T) /\ d \in T
  BY <1>1
<1>4. /\ t \in Seq(T) /\ Len(t) = Len(s) + 1 /\ t[Len(s) + 1] = d
      /\ \A i \in 1..Len(s) : t[i] = s[i]
  BY <1>2, <1>3, AppendProperties
<1>5. Len(s) = 3 /\ s[1] = a /\ s[2] = b /\ s[3] = c
  OBVIOUS
<1>6. Len(t) = 4 /\ t[1] = s[1] /\ t[2] = s[2] /\ t[3] = s[3] /\ t[4] = d
  BY <1>4, <1>5
<1>7. t = <<t[1], t[2], t[3], t[4]>>
  BY <1>4, <1>6, FourLong
<1>8. QED
  BY <1>2, <1>5, <1>6, <1>7

(* Replacing the only element.                                             *)
LEMMA ReplaceOne ==
  ASSUME NEW a, NEW b, NEW s, s = <<a>>
  PROVE  [s EXCEPT ![1] = b] = <<b>>
<1>1. <<b>> = [i \in 1..1 |-> b]
  OBVIOUS
<1>2. DOMAIN s = 1..1
  OBVIOUS
<1>3. [s EXCEPT ![1] = b] = [i \in 1..1 |-> b]
  BY <1>2
<1>4. QED
  BY <1>1, <1>3

(* Replacing the second element of a pair.                                 *)
LEMMA ReplaceTwo ==
  ASSUME NEW a, NEW b, NEW c, NEW s, s = <<a, b>>
  PROVE  [s EXCEPT ![2] = c] = <<a, c>>
<1>1. DOMAIN s = 1..2 /\ s[1] = a /\ s[2] = b
  OBVIOUS
<1>2. <<a, c>> = [i \in 1..2 |-> IF i = 1 THEN a ELSE c]
  OBVIOUS
<1>3. [s EXCEPT ![2] = c] = [i \in 1..2 |-> IF i = 1 THEN a ELSE c]
  BY <1>1
<1>4. QED
  BY <1>2, <1>3

-----------------------------------------------------------------------------
(* The largest of finitely many numbers.                                   *)
LEMMA MaxOfNats ==
  ASSUME NEW N \in Nat, NEW S \in SUBSET (1..N), S # {}
  PROVE  Max(S) \in S /\ \A x \in S : Max(S) >= x
<1> DEFINE bounds == {n \in Nat : \A x \in S : x <= n}
<1>1. PICK n : n = Min(bounds)
  OBVIOUS
<1>2. n \in bounds /\ \A m \in bounds : n <= m
  <2>1. bounds \in SUBSET Nat /\ N \in bounds
    OBVIOUS
  <2> HIDE DEF bounds
  <2>2. QED
    BY <1>1, <2>1, MinOfNats
<1>3. n \in S
  <2>1. SUFFICES ASSUME n \notin S PROVE FALSE
    OBVIOUS
  <2>2. \A x \in S : x <= n - 1 /\ n - 1 \in Nat
    BY <1>2, <2>1
  <2>3. n - 1 \in bounds
    BY <2>2
  <2>4. QED
    BY <1>2, <2>3
<1>4. \A x \in S : n >= x
  BY <1>2
<1>5. QED
  BY <1>3, <1>4, Zenon DEF Max

(* The first n numbers without the largest.                                *)
LEMMA MaxOfInterval ==
  ASSUME NEW n \in Nat \ {0}
  PROVE  Max(1..n) = n /\ (1..n) \ {n} = 1..(n - 1) /\ 1..n # {}
<1>1. n \in Nat /\ 1..n \in SUBSET (1..n) /\ 1..n # {} /\ n \in 1..n
  OBVIOUS
<1>2. PICK m : m = Max(1..n)
  OBVIOUS
<1>3. m \in 1..n /\ \A x \in 1..n : m >= x
  BY <1>1, <1>2, MaxOfNats
<1>4. m = n
  BY <1>1, <1>3
<1>5. QED
  BY <1>1, <1>2, <1>4

(* A function on the sets of numbers up to N is a fold with the steps      *)
(* `step'.                                                                 *)
FoldedBy(g, base, N, step) ==
  \A S \in SUBSET (1..N) : g[S] = IF S = {} THEN base ELSE step[Max(S)][g[S \ {Max(S)}]]

(* A fold takes the numbers of a set from the smallest to the largest.     *)
LEMMA FoldExists ==
  ASSUME NEW A, NEW base, base \in A, NEW N, N \in Nat, NEW step, step \in [1..N -> [A -> A]]
  PROVE  \E g \in [SUBSET (1..N) -> A] : FoldedBy(g, base, N, step)
<1> DEFINE P == SUBSET (1..N)
           B == [P -> A]
           first == [S \in P |-> base]
           next == [n \in 1..N |-> [h \in B |-> [S \in P |-> IF n \in S THEN step[n][h[S]] ELSE h[S]]]]
<1>1. first \in B /\ next \in [1..N -> [B -> B]]
  <2>1. ASSUME NEW n \in 1..N, NEW h \in B, NEW S \in P
        PROVE  (IF n \in S THEN step[n][h[S]] ELSE h[S]) \in A
    OBVIOUS
  <2>2. QED
    BY <2>1
<1>2. PICK f \in [0..N -> B] : DefinedBy(f, first, N, next)
  <2> HIDE DEF B, first, next
  <2>1. QED
    BY <1>1, RecursionTo
<1>3. f[0] = first /\ \A n \in 1..N : f[n] = next[n][f[n - 1]]
  BY <1>2 DEF DefinedBy
<1>4. ASSUME NEW n \in 1..N, NEW S \in P
      PROVE  f[n][S] = IF n \in S THEN step[n][f[n - 1][S]] ELSE f[n - 1][S]
  <2>1. n - 1 \in 0..N /\ f[n - 1] \in B
    <3>1. n - 1 \in 0..N
      OBVIOUS
    <3> HIDE DEF B
    <3>2. QED
      BY <1>2, <3>1
  <2>2. PICK h : h = f[n - 1]
    OBVIOUS
  <2>3. next[n][h] = [T \in P |-> IF n \in T THEN step[n][h[T]] ELSE h[T]]
    BY <2>1, <2>2
  <2>4. f[n] = next[n][h]
    BY <1>3, <2>2
  <2> HIDE DEF next, B
  <2>5. QED
    BY <2>2, <2>3, <2>4
<1>5. \A S \in P : f[0][S] = base
  BY <1>3
<1> HIDE DEF first, next
(* What comes after the last element is not looked at.                     *)
<1> DEFINE Same == {n \in Nat : n <= N => \A S, T \in P : S \cap (1..n) = T \cap (1..n) => f[n][S] = f[n][T]}
<1>6. \A n \in Nat : n \in Same
  <2>1. 0 \in Same
    BY <1>5
  <2>2. ASSUME NEW n \in Nat, n \in Same PROVE n + 1 \in Same
    <3>1. SUFFICES ASSUME n + 1 <= N, NEW S \in P, NEW T \in P, S \cap (1..(n + 1)) = T \cap (1..(n + 1))
                   PROVE  f[n + 1][S] = f[n + 1][T]
      <4> HIDE DEF P
      <4>1. QED
        OBVIOUS
    <3>2. n + 1 \in 1..N /\ n + 1 \in 1..(n + 1) /\ (n + 1) - 1 = n /\ 1..n \subseteq 1..(n + 1)
      BY <3>1
    <3>3. n + 1 \in S <=> n + 1 \in T
      BY <3>1, <3>2
    <3>4. S \cap (1..n) = T \cap (1..n)
      <4>1. \A i \in 1..n : i \in S <=> i \in T
        BY <3>1, <3>2
      <4>2. QED
        BY <4>1
    <3>5. f[n][S] = f[n][T]
      <4> HIDE DEF P
      <4>1. n <= N
        BY <3>1
      <4>2. QED
        BY <2>2, <3>4, <4>1
    <3>6. f[n + 1][S] = IF n + 1 \in S THEN step[n + 1][f[n][S]] ELSE f[n][S]
      BY <1>4, <3>2
    <3>7. f[n + 1][T] = IF n + 1 \in T THEN step[n + 1][f[n][T]] ELSE f[n][T]
      BY <1>4, <3>2
    <3>8. QED
      BY <3>3, <3>5, <3>6, <3>7
  <2> HIDE DEF Same
  <2>3. QED
    BY <2>1, <2>2, SetInduction
<1> DEFINE Done == {n \in Nat : n <= N => \A S \in P : S \subseteq 1..n => f[N][S] = f[n][S]}
<1>7. \A n \in Nat : n \in {k \in Nat : N - k \in Nat => N - k \in Done}
  <2> DEFINE D == {k \in Nat : N - k \in Nat => N - k \in Done}
  <2>1. 0 \in D
    OBVIOUS
  <2>2. ASSUME NEW k \in Nat, k \in D PROVE k + 1 \in D
    <3> DEFINE n == N - (k + 1)
    <3>1. SUFFICES ASSUME n \in Nat PROVE n \in Done
      OBVIOUS
    <3>2. N - k = n + 1 /\ n + 1 \in Nat /\ n + 1 \in 1..N /\ (n + 1) - 1 = n /\ n + 1 <= N
      BY <3>1
    <3>3. n + 1 \in Done
      BY <2>2, <3>2
    <3> HIDE DEF n
    <3>4. ASSUME NEW S \in P, S \subseteq 1..n PROVE f[N][S] = f[n][S]
      <4>1. S \subseteq 1..(n + 1) /\ n + 1 \notin S
        BY <3>1, <3>4
      <4>2. f[N][S] = f[n + 1][S]
        BY <3>2, <3>3, <4>1
      <4>3. f[n + 1][S] = f[n][S]
        BY <1>4, <3>2, <4>1
      <4>4. QED
        BY <4>2, <4>3
    <3>5. QED
      BY <3>1, <3>4
  <2> HIDE DEF D
  <2>3. \A n \in Nat : n \in D
    BY <2>1, <2>2, SetInduction
  <2>4. QED
    BY <2>3 DEF D
<1>8. \A n \in 0..N, S \in P : S \subseteq 1..n => f[N][S] = f[n][S]
  <2> TAKE n \in 0..N, S \in P
  <2>1. N - n \in Nat /\ N - (N - n) = n /\ n \in Nat /\ n <= N
    OBVIOUS
  <2>2. n \in Done
    BY <1>7, <2>1
  <2>3. QED
    BY <2>1, <2>2
<1>9. ASSUME NEW S \in P, S # {}
      PROVE  f[N][S] = step[Max(S)][f[N][S \ {Max(S)}]]
  <2>1. PICK m : m = Max(S)
    OBVIOUS
  <2>2. m \in S /\ (\A x \in S : m >= x) /\ m \in 1..N
    BY <1>9, <2>1, MaxOfNats
  <2>3. PICK T : T = S \ {m}
    OBVIOUS
  <2>4. S \subseteq 1..m /\ T \subseteq 1..(m - 1) /\ T \in P /\ m \in 0..N /\ m - 1 \in 0..N /\ m - 1 \in Nat
    BY <2>2, <2>3
  <2>5. f[N][S] = step[m][f[m - 1][S]]
    <3>1. f[N][S] = f[m][S]
      BY <1>8, <2>4
    <3>2. f[m][S] = step[m][f[m - 1][S]]
      BY <1>4, <2>2
    <3>3. QED
      BY <3>1, <3>2
  <2>6. f[N][T] = f[m - 1][T]
    BY <1>8, <2>4
  <2>7. S \cap (1..(m - 1)) = T \cap (1..(m - 1))
    <3>1. m \notin 1..(m - 1)
      BY <2>2
    <3>2. QED
      BY <2>3, <3>1
  <2>8. f[m - 1][S] = f[m - 1][T]
    <3>1. m - 1 \in Same /\ m - 1 <= N
      BY <1>6, <2>4
    <3>2. QED
      BY <2>4, <2>7, <3>1
  <2>9. QED
    BY <2>1, <2>3, <2>5, <2>6, <2>8
<1>10. f[N][{}] = base
  <2>1. {} \in P /\ 0 \in 0..N /\ {} \subseteq 1..0
    OBVIOUS
  <2>2. f[N][{}] = f[0][{}]
    BY <1>8, <2>1
  <2>3. QED
    BY <1>5, <2>1, <2>2
<1>11. f[N] \in [P -> A]
  <2>1. N \in 0..N
    OBVIOUS
  <2>2. f[N] \in B
    <3> HIDE DEF B
    <3>1. QED
      BY <1>2, <2>1
  <2>3. QED
    BY <2>2
<1>12. QED
  BY <1>9, <1>10, <1>11 DEF FoldedBy

(* What a fold has computed after each element, as long as it stays in A.  *)
StepsIn(it, A, base, N, step) ==
  /\ it[{}] = base
  /\ \A n \in 1..N : it[1..(n - 1)] \in A => it[1..n] = step[n][it[1..(n - 1)]]
Computes(f, base, N, step, result) == DefinedBy(f, base, N, step) /\ f[N] = result

(* The fold is then the last value of a recursive function.                *)
LEMMA FoldsTo ==
  ASSUME NEW A, NEW base, base \in A, NEW N, N \in Nat, NEW step, step \in [1..N -> [A -> A]],
         NEW it, StepsIn(it, A, base, N, step)
  PROVE  \E f \in [0..N -> A] : Computes(f, base, N, step, it[1..N])
<1> DEFINE f == [n \in 0..N |-> it[1..n]]
           S == {n \in Nat : n <= N => it[1..n] \in A}
<1>1. 1..0 = {}
  OBVIOUS
<1>2. 0 \in S
  BY <1>1 DEF StepsIn
<1>3. ASSUME NEW n \in Nat, n \in S PROVE n + 1 \in S
  <2>1. SUFFICES ASSUME n + 1 <= N PROVE it[1..(n + 1)] \in A
    OBVIOUS
  <2>2. n + 1 \in 1..N /\ (n + 1) - 1 = n /\ it[1..n] \in A
    BY <1>3, <2>1
  <2>3. it[1..(n + 1)] = step[n + 1][it[1..n]]
    BY <2>2 DEF StepsIn
  <2>4. QED
    BY <2>2, <2>3
<1>4. \A n \in 0..N : it[1..n] \in A
  <2>1. \A n \in Nat : n \in S
    <3> HIDE DEF S
    <3>1. QED
      BY <1>2, <1>3, SetInduction
  <2>2. QED
    BY <2>1
<1>5. f \in [0..N -> A] /\ f[N] = it[1..N]
  BY <1>4
<1>6. f[0] = base
  BY <1>1 DEF StepsIn
<1>7. ASSUME NEW n \in 1..N PROVE f[n] = step[n][f[n - 1]]
  <2>1. n \in 0..N /\ n - 1 \in 0..N
    OBVIOUS
  <2>2. QED
    BY <1>4, <2>1 DEF StepsIn
<1> HIDE DEF f
<1>8. QED
  BY <1>5, <1>6, <1>7 DEF DefinedBy, Computes

-----------------------------------------------------------------------------
(* One of finitely many numbers is the largest.                            *)
LEMMA LargestAt ==
  ASSUME NEW n \in Nat \ {0}, NEW v \in [1..n -> Nat]
  PROVE  \E m \in 1..n : \A i \in 1..n : v[i] <= v[m]
<1> DEFINE S == {k \in Nat : k < n => \E m \in 1..(k + 1) : \A i \in 1..(k + 1) : v[i] <= v[m]}
<1>1. 0 \in S
  BY 1..1 = {1}
<1>2. ASSUME NEW k \in Nat, k \in S PROVE k + 1 \in S
  <2>1. SUFFICES ASSUME k + 1 < n
                 PROVE  \E m \in 1..(k + 2) : \A i \in 1..(k + 2) : v[i] <= v[m]
    BY (k + 1) + 1 = k + 2
  <2>2. PICK m \in 1..(k + 1) : \A i \in 1..(k + 1) : v[i] <= v[m]
    BY <1>2, <2>1
  <2>3. /\ m \in 1..(k + 2) /\ k + 2 \in 1..(k + 2) /\ v[m] \in Nat /\ v[k + 2] \in Nat
        /\ \A i \in 1..(k + 2) : v[i] \in Nat /\ (i = k + 2 \/ i \in 1..(k + 1))
    BY <2>1
  <2>4. CASE v[k + 2] <= v[m]
    BY <2>2, <2>3, <2>4
  <2>5. CASE ~ (v[k + 2] <= v[m])
    <3>1. \A i \in 1..(k + 2) : v[i] <= v[k + 2]
      BY <2>2, <2>3, <2>5
    <3>2. QED
      BY <2>3, <3>1
  <2>6. QED
    BY <2>4, <2>5
<1> HIDE DEF S
<1>3. n - 1 \in Nat /\ n - 1 \in S
  BY <1>1, <1>2, SetInduction
<1>4. n - 1 < n /\ (n - 1) + 1 = n
  OBVIOUS
<1>5. QED
  BY <1>3, <1>4 DEF S

(* A permutation that sorts finitely many numbers.                         *)
Sorts(p, n, v) ==
  /\ p \in [1..n -> 1..n]
  /\ \A i, j \in 1..n : p[i] = p[j] => i = j
  /\ \A k \in 1..n : \E i \in 1..n : p[i] = k
  /\ \A i, j \in 1..n : i < j => v[p[i]] <= v[p[j]]

(* Finitely many numbers can be sorted.                                    *)
LEMMA SortExists ==
  ASSUME NEW n \in Nat, NEW v \in [1..n -> Nat]
  PROVE  \E p \in [1..n -> 1..n] : Sorts(p, n, v)
<1> DEFINE S == {k \in Nat : \A w \in [1..k -> Nat] : \E p \in [1..k -> 1..k] : Sorts(p, k, w)}
<1>1. 0 \in S
  <2>1. ASSUME NEW w \in [1..0 -> Nat] PROVE \E p \in [1..0 -> 1..0] : Sorts(p, 0, w)
    <3>1. [i \in 1..0 |-> i] \in [1..0 -> 1..0]
      OBVIOUS
    <3>2. Sorts([i \in 1..0 |-> i], 0, w)
      BY DEF Sorts
    <3>3. QED
      BY <3>1, <3>2
  <2>2. QED
    BY <2>1
<1>2. ASSUME NEW k \in Nat, k \in S PROVE k + 1 \in S
  <2>1. PICK l \in Nat : l = k + 1
    OBVIOUS
  <2>2. SUFFICES ASSUME NEW w \in [1..l -> Nat]
                 PROVE  \E p \in [1..l -> 1..l] : Sorts(p, l, w)
    <3>1. (\A w \in [1..l -> Nat] : \E p \in [1..l -> 1..l] : Sorts(p, l, w)) => l \in S
      OBVIOUS
    <3> HIDE DEF S
    <3>2. QED
      BY <2>1, <3>1
  <2>3. PICK m \in 1..l : \A i \in 1..l : w[i] <= w[m]
    <3>1. l \in Nat \ {0}
      BY <2>1
    <3>2. QED
      BY <3>1, LargestAt
  <2> DEFINE u == [i \in 1..k |-> IF i = m THEN w[l] ELSE w[i]]
  <2>4. u \in [1..k -> Nat]
    BY <2>1, <2>3
  <2>5. PICK p \in [1..k -> 1..k] : Sorts(p, k, u)
    <3> HIDE DEF u
    <3>1. QED
      BY <1>2, <2>4
  <2>6. /\ \A i, j \in 1..k : p[i] = p[j] => i = j
        /\ \A i \in 1..k : \E j \in 1..k : p[j] = i
        /\ \A i, j \in 1..k : i < j => u[p[i]] <= u[p[j]]
    BY <2>5 DEF Sorts
  <2> DEFINE q == [i \in 1..l |-> IF i = l THEN m ELSE IF p[i] = m THEN l ELSE p[i]]
  <2>7. q \in [1..l -> 1..l]
    <3>1. ASSUME NEW i \in 1..l
          PROVE  (IF i = l THEN m ELSE IF p[i] = m THEN l ELSE p[i]) \in 1..l
      <4>1. l \in 1..l /\ (i # l => i \in 1..k) /\ 1..k \subseteq 1..l
        BY <2>1
      <4>2. i # l => p[i] \in 1..k
        BY <4>1
      <4>3. QED
        BY <4>1, <4>2
    <3>2. QED
      BY <3>1
  <2>8. /\ q[l] = m
        /\ \A i \in 1..k : q[i] = (IF p[i] = m THEN l ELSE p[i]) /\ q[i] # m /\ w[q[i]] = u[p[i]]
        /\ \A i \in 1..l : i = l \/ i \in 1..k
    <3>1. ASSUME NEW i \in 1..k
          PROVE  q[i] = (IF p[i] = m THEN l ELSE p[i]) /\ q[i] # m /\ w[q[i]] = u[p[i]]
      <4>1. i \in 1..l /\ i # l /\ p[i] \in 1..k /\ p[i] # l
        BY <2>1
      <4>2. q[i] = IF p[i] = m THEN l ELSE p[i]
        BY <4>1
      <4>3. u[p[i]] = IF p[i] = m THEN w[l] ELSE w[p[i]]
        BY <4>1
      <4>4. CASE p[i] = m
        <5>1. l # m
          BY <4>1, <4>4
        <5>2. QED
          BY <4>2, <4>3, <4>4, <5>1
      <4>5. CASE p[i] # m
        BY <4>2, <4>3, <4>5
      <4> HIDE DEF q, u
      <4>6. QED
        BY <4>2, <4>4, <4>5
    <3>2. q[l] = m
      BY <2>1
    <3>3. \A i \in 1..l : i = l \/ i \in 1..k
      BY <2>1
    <3> HIDE DEF q, u
    <3>4. QED
      BY <3>1, <3>2, <3>3
  <2> HIDE DEF q, u
  <2>9. ASSUME NEW i \in 1..l, NEW j \in 1..l, q[i] = q[j] PROVE i = j
    <3>1. CASE i = l \/ j = l
      BY <2>8, <2>9, <3>1
    <3>2. CASE i \in 1..k /\ j \in 1..k
      <4>1. p[i] \in 1..k /\ p[j] \in 1..k /\ p[i] # l /\ p[j] # l
        BY <2>1, <3>2
      <4>2. p[i] = p[j]
        BY <2>8, <2>9, <3>2, <4>1
      <4>3. QED
        BY <2>6, <3>2, <4>2
    <3>3. QED
      BY <2>8, <3>1, <3>2
  <2>10. ASSUME NEW a \in 1..l PROVE \E i \in 1..l : q[i] = a
    <3>1. CASE a = m
      <4>1. l \in 1..l
        BY <2>1
      <4>2. QED
        BY <2>8, <3>1, <4>1
    <3>2. CASE a # m /\ a \in 1..k
      <4>1. PICK i \in 1..k : p[i] = a
        BY <2>6, <3>2
      <4>2. i \in 1..l /\ q[i] = a
        <5>1. i \in 1..l
          BY <2>1
        <5>2. p[i] # m
          BY <3>2, <4>1
        <5>3. QED
          BY <2>8, <4>1, <5>1, <5>2
      <4>3. QED
        BY <4>2
    <3>3. CASE a # m /\ a = l
      <4>1. m \in 1..k
        BY <2>1, <2>3, <3>3
      <4>2. PICK i \in 1..k : p[i] = m
        BY <2>6, <4>1
      <4>3. i \in 1..l /\ q[i] = l
        BY <2>1, <2>8, <4>2
      <4>4. QED
        BY <3>3, <4>3
    <3>4. QED
      BY <2>8, <3>1, <3>2, <3>3
  <2>11. ASSUME NEW i \in 1..l, NEW j \in 1..l, i < j PROVE w[q[i]] <= w[q[j]]
    <3>1. CASE j = l
      <4>1. q[i] \in 1..l
        BY <2>7
      <4>2. QED
        BY <2>3, <2>8, <3>1, <4>1
    <3>2. CASE j \in 1..k
      <4>1. i \in 1..k
        BY <2>11, <3>2
      <4>2. QED
        BY <2>6, <2>8, <2>11, <3>2, <4>1
    <3>3. QED
      BY <2>8, <3>1, <3>2
  <2>12. Sorts(q, l, w)
    BY <2>7, <2>9, <2>10, <2>11 DEF Sorts
  <2>13. QED
    BY <2>7, <2>12
<1> HIDE DEF S
<1>3. n \in S
  BY <1>1, <1>2, SetInduction
<1>4. QED
  BY <1>3 DEF S
=============================================================================
