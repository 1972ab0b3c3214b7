---------------------------- MODULE PlanningProofs ----------------------------
(***************************************************************************)
(* Theorems about the planning of specs (SpecPlanning) and the downstream  *)
(* generator that works on the planned ones (Downstream).                  *)
(***************************************************************************)
EXTENDS SpecPlanning, Downstream, FiniteSetTheorems, SequenceTheorems, WellFoundedInduction,
        TLAPS

-----------------------------------------------------------------------------
(***************************************************************************)
(* Numbers and sequences.                                                  *)
(***************************************************************************)

\* A nonempty set of numbers has a least one.
LEMMA MinIs ==
  ASSUME NEW S \in SUBSET Nat, S # {}
  PROVE  Min(S) \in S /\ \A k \in S : Min(S) =< k
<1> DEFINE Less == {ss \in Nat \X Nat : ss[1] < ss[2]}
<1>1. IsWellFoundedOn(Less, Nat)
  BY NatLessThanWellFounded DEF OpToRel
<1>2. PICK m \in S : \A k \in S : ~ (<<k, m>> \in Less)
  <2> HIDE DEF Less
  <2> QED BY <1>1, WFMin
<1>3. ASSUME NEW k \in S PROVE m =< k
  <2>1. ~ (<<k, m>> \in Less) /\ k \in Nat /\ m \in Nat
    BY <1>2
  <2> QED
    BY <2>1
<1> QED
  BY <1>3 DEF Min

\* What holds at 0 and at the next number of every one below n holds up to n.
LEMMA CountUp ==
  ASSUME NEW n \in Nat, NEW S \in SUBSET (0..n), 0 \in S, \A i \in S : i < n => i + 1 \in S
  PROVE  S = 0..n
<1> DEFINE Missing == (0..n) \ S
           least == Min(Missing)
<1> SUFFICES ASSUME Missing # {} PROVE FALSE
  OBVIOUS
<1>1. least \in Missing /\ \A k \in Missing : least =< k
  <2>1. Missing \in SUBSET Nat
    OBVIOUS
  <2> HIDE DEF Missing
  <2> QED BY <2>1, MinIs
<1> HIDE DEF least
<1>2. least \in 0..n /\ least # 0 /\ least - 1 \in 0..n
  BY <1>1
<1>3. least - 1 \in S
  BY <1>1, <1>2
<1> QED
  BY <1>1, <1>2, <1>3

\* A sequence is a function.
LEMMA ListIs ==
  ASSUME NEW T, NEW n \in Nat, NEW f \in [1..n -> T]
  PROVE  f \in Seq(T) /\ Len(f) = n /\ DOMAIN f = 1..n
OBVIOUS

\* No element is twice in a sequence.
Distinct(q) == \A i, j \in DOMAIN q : q[i] = q[j] => i = j

\* R puts any two members of S in an order.
StrictOrder(S, R) ==
  /\ \A x \in S : <<x, x>> \notin R
  /\ \A x, y, z \in S : <<x, y>> \in R /\ <<y, z>> \in R => <<x, z>> \in R
  /\ \A x, y \in S : x # y => <<x, y>> \in R \/ <<y, x>> \in R

\* A sorted set has each member once, in the order.
LEMMA SortedIs ==
  ASSUME NEW S, IsFiniteSet(S), NEW R, StrictOrder(S, R)
  PROVE  /\ Sorted(S, R) \in Seq(S) /\ Len(Sorted(S, R)) = Cardinality(S)
         /\ Distinct(Sorted(S, R))
         /\ \A x \in S : \E i \in DOMAIN Sorted(S, R) : Sorted(S, R)[i] = x
         /\ \A i, j \in DOMAIN Sorted(S, R) :
              i < j => <<Sorted(S, R)[i], Sorted(S, R)[j]>> \in R
<1> DEFINE n == Cardinality(S)
           Below(x) == {y \in S : <<y, x>> \in R}
           rank == [x \in S |-> Cardinality(Below(x))]
           q == Sorted(S, R)
<1>1. n \in Nat
  BY FS_CardinalityType
<1>2. ASSUME NEW x \in S
      PROVE  IsFiniteSet(Below(x)) /\ Cardinality(Below(x)) \in 0..(n - 1)
  <2>1. Below(x) \in SUBSET S /\ Below(x) # S
    BY DEF StrictOrder
  <2> HIDE DEF Below
  <2>2. IsFiniteSet(Below(x)) /\ Cardinality(Below(x)) <= n /\ Cardinality(Below(x)) # n
    BY <2>1, FS_Subset
  <2>3. Cardinality(Below(x)) \in Nat
    BY <2>2, FS_CardinalityType
  <2> QED
    BY <1>1, <2>2, <2>3
<1>3. ASSUME NEW x \in S, NEW y \in S, <<x, y>> \in R
      PROVE  Cardinality(Below(x)) < Cardinality(Below(y))
  <2>1. Below(x) \in SUBSET Below(y) /\ Below(x) # Below(y)
    <3>1. Below(x) \in SUBSET Below(y)
      BY <1>3 DEF StrictOrder
    <3>2. x \in Below(y) /\ x \notin Below(x)
      BY <1>3 DEF StrictOrder
    <3> QED
      BY <3>1, <3>2
  <2>2. IsFiniteSet(Below(y)) /\ Cardinality(Below(x)) \in Nat /\ Cardinality(Below(y)) \in Nat
    BY <1>1, <1>2
  <2> HIDE DEF Below
  <2>3. Cardinality(Below(x)) <= Cardinality(Below(y)) /\ Cardinality(Below(x)) # Cardinality(Below(y))
    BY <2>1, <2>2, FS_Subset
  <2> QED
    BY <2>2, <2>3
<1>4. \A x \in S : rank[x] \in 0..(n - 1)
  BY <1>2
<1>5. \A x, y \in S : <<x, y>> \in R => rank[x] < rank[y]
  BY <1>3
<1>6. ASSUME NEW x \in S, NEW y \in S, rank[x] = rank[y], x # y PROVE FALSE
  <2>1. <<x, y>> \in R \/ <<y, x>> \in R
    BY <1>6 DEF StrictOrder
  <2>2. rank[x] \in Int
    BY <1>1, <1>4
  <2> HIDE DEF rank
  <2> QED BY <1>5, <1>6, <2>1, <2>2
<1>7. \A i \in 0..(n - 1) : \E x \in S : rank[x] = i
  <2>1. rank \in Injection(S, 0..(n - 1))
    <3>1. rank \in [S -> 0..(n - 1)]
      BY <1>4
    <3> HIDE DEF rank
    <3> QED BY <1>6, <3>1 DEF Injection, IsInjective
  <2>2. IsFiniteSet(0..(n - 1)) /\ Cardinality(0..(n - 1)) = n
    BY <1>1, FS_Interval
  <2> HIDE DEF rank
  <2>3. rank \in Surjection(S, 0..(n - 1))
    BY <2>1, <2>2, FS_Injection
  <2> QED
    BY <2>3 DEF Surjection
<1>8. q = [i \in 1..n |-> CHOOSE x \in S : Cardinality(Below(x)) = i - 1]
  BY DEF Sorted
<1>9. ASSUME NEW i \in 1..n PROVE q[i] \in S /\ rank[q[i]] = i - 1
  <2>1. i - 1 \in 0..(n - 1)
    BY <1>1
  <2>2. \E x \in S : Cardinality(Below(x)) = i - 1
    BY <1>7, <2>1
  <2> DEFINE x == CHOOSE x \in S : Cardinality(Below(x)) = i - 1
  <2>3. x \in S /\ Cardinality(Below(x)) = i - 1
    <3> HIDE DEF Below
    <3> QED BY <2>2
  <2>4. q[i] = x
    BY <1>8
  <2> HIDE DEF x, q
  <2> QED BY <2>3, <2>4
<1>10. q \in Seq(S) /\ Len(q) = n /\ DOMAIN q = 1..n
  <2>1. q \in [1..n -> S]
    BY <1>8, <1>9
  <2> HIDE DEF q, n
  <2> QED BY <1>1, <2>1
<1> HIDE DEF q, rank, n
<1>11. Distinct(q)
  <2>1. ASSUME NEW i \in 1..n, NEW j \in 1..n, q[i] = q[j] PROVE i = j
    <3>1. i - 1 = j - 1
      BY <1>9, <2>1
    <3> QED
      BY <3>1
  <2> QED
    BY <1>10, <2>1 DEF Distinct
<1>12. \A x \in S : \E i \in 1..n : q[i] = x
  <2> TAKE x \in S
  <2>1. rank[x] + 1 \in 1..n /\ rank[x] \in 0..(n - 1)
    BY <1>1, <1>4
  <2>2. q[rank[x] + 1] \in S /\ rank[q[rank[x] + 1]] = rank[x]
    BY <1>9, <2>1
  <2> QED
    BY <1>6, <2>1, <2>2
<1>13. ASSUME NEW i \in 1..n, NEW j \in 1..n, i < j PROVE <<q[i], q[j]>> \in R
  <2>1. q[i] \in S /\ q[j] \in S /\ rank[q[i]] < rank[q[j]]
    BY <1>1, <1>9, <1>13
  <2>2. ~ (<<q[j], q[i]>> \in R) /\ q[i] # q[j]
    BY <1>4, <1>5, <2>1
  <2> QED
    BY <2>1, <2>2 DEF StrictOrder
<1> QED
  BY <1>10, <1>11, <1>12, <1>13 DEF q, n

\* flat is the sequences one after the other, the i-th from off[i] + 1 on.
Laid(seqs, flat, off) ==
  /\ \A i \in 1..Len(seqs), k \in Nat :
       k \in 1..Len(seqs[i]) => off[i] + k \in 1..Len(flat) /\ flat[off[i] + k] = seqs[i][k]
  /\ \A i, j \in 1..Len(seqs) : i < j => off[i] + Len(seqs[i]) <= off[j]
  /\ \A p \in 1..Len(flat) : \E i \in 1..Len(seqs) : \E k \in 1..Len(seqs[i]) : p = off[i] + k

\* Sequences are put one after the other.
LEMMA FlattenIs ==
  ASSUME NEW S, NEW seqs \in Seq(Seq(S))
  PROVE  /\ FlattenSeq(seqs) \in Seq(S)
         /\ \E off \in [1..Len(seqs) -> Nat] : Laid(seqs, FlattenSeq(seqs), off)
<1> DEFINE n == Len(seqs)
           Entry(f, i) == IF i = 1 THEN seqs[i] ELSE f[i - 1] \o seqs[i]
           Is(f, m) == f = [i \in 1..m |-> Entry(f, i)]
           Defined == {m \in 0..n : \E f : Is(f, m)}
<1>1. n \in Nat /\ \A i \in 1..n : seqs[i] \in Seq(S) /\ Len(seqs[i]) \in Nat
  OBVIOUS
<1>2. 0 \in Defined
  <2> DEFINE f == [i \in 1..0 |-> <<>>]
  <2>1. Is(f, 0)
    OBVIOUS
  <2> HIDE DEF f, Is
  <2> QED BY <1>1, <2>1
<1>3. ASSUME NEW m \in Defined, m < n PROVE m + 1 \in Defined
  <2>1. PICK f : Is(f, m)
    OBVIOUS
  <2> DEFINE g == [i \in 1..(m + 1) |-> IF i = m + 1 THEN Entry(f, m + 1) ELSE f[i]]
  <2>2. m \in Nat /\ m + 1 \in 0..n
    BY <1>1, <1>3
  <2>3. \A i \in 1..(m + 1) : g[i] = Entry(g, i)
    <3> TAKE i \in 1..(m + 1)
    <3>1. CASE i = 1
      <4>1. f[1] = seqs[1] \/ m = 0
        BY <2>1, <2>2
      <4> QED
        BY <2>2, <3>1, <4>1
    <3>2. CASE i # 1
      <4>1. i - 1 \in 1..m /\ i - 1 # m + 1 /\ i - 1 \in 1..(m + 1)
        BY <2>2, <3>2
      <4>2. g[i - 1] = f[i - 1]
        BY <4>1
      <4>3. CASE i = m + 1
        BY <3>2, <4>2, <4>3
      <4>4. CASE i # m + 1
        <5>1. i \in 1..m /\ g[i] = f[i]
          BY <2>2, <4>4
        <5>2. f[i] = Entry(f, i)
          BY <2>1, <5>1
        <5> QED
          BY <3>2, <4>2, <5>1, <5>2
      <4> QED
        BY <4>3, <4>4
    <3> QED
      BY <3>1, <3>2
  <2>4. Is(g, m + 1)
    <3> DEFINE entries == [i \in 1..(m + 1) |-> Entry(g, i)]
    <3>1. \A i \in 1..(m + 1) : g[i] = entries[i]
      BY <2>3
    <3>2. g = entries
      <4> HIDE DEF Entry
      <4> QED BY <3>1
    <3> QED
      BY <3>2
  <2> HIDE DEF g, Is
  <2> QED BY <2>2, <2>4
<1>4. n \in Defined
  <2> HIDE DEF Defined
  <2>1. Defined \in SUBSET (0..n)
    BY DEF Defined
  <2>2. Defined = 0..n
    BY <1>1, <1>2, <1>3, <2>1, CountUp
  <2> QED
    BY <1>1, <2>2
<1> DEFINE flatten == CHOOSE f : Is(f, n)
<1>5. Is(flatten, n)
  <2>1. \E f : Is(f, n)
    BY <1>4
  <2> HIDE DEF Is
  <2> QED BY <2>1
<1>6. FlattenSeq(seqs) = IF n = 0 THEN <<>> ELSE flatten[n]
  <2>1. n = 0 <=> seqs = <<>>
    BY EmptySeq
  <2> QED
    BY <2>1 DEF FlattenSeq
<1> HIDE DEF flatten
<1>7. \A i \in 1..n : flatten[i] = Entry(flatten, i)
  BY <1>1, <1>5
<1> DEFINE part == [m \in 0..n |-> IF m = 0 THEN <<>> ELSE flatten[m]]
<1>8. part[0] = <<>> /\ part[n] = FlattenSeq(seqs)
  BY <1>1, <1>6
<1>9. ASSUME NEW m \in 0..n, m < n, part[m] \in Seq(S)
      PROVE  part[m + 1] = part[m] \o seqs[m + 1]
  <2>1. m + 1 \in 1..n /\ (m + 1) - 1 = m /\ m + 1 # 0 /\ m + 1 \in 0..n
    BY <1>1, <1>9
  <2>2. part[m + 1] = Entry(flatten, m + 1)
    BY <1>7, <2>1
  <2>3. CASE m = 0
    <3>1. part[m] = <<>> /\ part[m + 1] = seqs[m + 1] /\ seqs[m + 1] \in Seq(S)
      BY <1>1, <2>1, <2>2, <2>3
    <3> HIDE DEF part
    <3> QED BY <3>1, ConcatEmptySeq
  <2>4. CASE m # 0
    <3>1. part[m] = flatten[m] /\ m + 1 # 1
      BY <1>9, <2>1, <2>4
    <3> QED
      BY <2>1, <2>2, <3>1, Zenon
  <2> QED
    BY <2>3, <2>4
<1> HIDE DEF part
<1> DEFINE off == [i \in 1..n |-> Len(part[i - 1])]
           Placed(m) ==
             /\ part[m] \in Seq(S)
             /\ \A i \in 1..m : off[i] \in Nat /\ off[i] + Len(seqs[i]) <= Len(part[m])
             /\ \A i \in 1..m, k \in Nat :
                  k \in 1..Len(seqs[i]) => part[m][off[i] + k] = seqs[i][k]
             /\ \A i, j \in 1..m : i < j => off[i] + Len(seqs[i]) <= off[j]
             /\ \A p \in 1..Len(part[m]) :
                  \E i \in 1..m : \E k \in 1..Len(seqs[i]) : p = off[i] + k
           PlacedUp == {m \in 0..n : Placed(m)}
<1>10. 0 \in PlacedUp
  <2>1. part[0] \in Seq(S) /\ 1..Len(part[0]) = {}
    BY <1>8, EmptySeq
  <2>2. 1..0 = {} /\ 0 \in 0..n
    BY <1>1
  <2> HIDE DEF off
  <2> QED BY <2>1, <2>2
<1>11. ASSUME NEW m \in PlacedUp, m < n PROVE m + 1 \in PlacedUp
  <2> DEFINE old == part[m]
             new == part[m + 1]
             one == seqs[m + 1]
  <2>1. m \in Nat /\ m + 1 \in 1..n /\ m + 1 \in 0..n /\ (m + 1) - 1 = m /\ m \in 0..n
    BY <1>1, <1>11
  <2>2. Placed(m)
    OBVIOUS
  <2>3. old \in Seq(S) /\ one \in Seq(S) /\ new = old \o one
    BY <1>1, <1>9, <1>11, <2>1, <2>2
  <2>4. off[m + 1] = Len(old) /\ Len(old) \in Nat /\ Len(one) \in Nat
    BY <2>1, <2>3, LenProperties
  <2> HIDE DEF off, old, new, one
  <2>5. ASSUME NEW i \in 1..m
        PROVE  i \in 1..n /\ off[i] \in Nat /\ Len(seqs[i]) \in Nat
    <3>1. i \in 1..n
      BY <1>1, <1>11, <2>1
    <3> QED
      BY <1>1, <2>2, <3>1
  <2>6. /\ \A i \in 1..m : off[i] + Len(seqs[i]) <= Len(old)
        /\ \A i \in 1..m, k \in Nat : k \in 1..Len(seqs[i]) => old[off[i] + k] = seqs[i][k]
        /\ \A i, j \in 1..m : i < j => off[i] + Len(seqs[i]) <= off[j]
        /\ \A p \in 1..Len(old) : \E i \in 1..m : \E k \in 1..Len(seqs[i]) : p = off[i] + k
    BY <2>2 DEF old
  <2>7. \A i \in 1..(m + 1) : i \in 1..m \/ i = m + 1
    BY <2>1
  <2>8. \A i \in 1..m : i \in 1..(m + 1) /\ i < m + 1
    BY <2>1
  <2>9. /\ new \in Seq(S) /\ Len(new) = Len(old) + Len(one)
        /\ \A p \in 1..(Len(old) + Len(one)) :
             new[p] = IF p <= Len(old) THEN old[p] ELSE one[p - Len(old)]
    BY <2>3, ConcatProperties
  <2>10. ASSUME NEW i \in 1..(m + 1)
         PROVE  off[i] \in Nat /\ off[i] + Len(seqs[i]) <= Len(new)
    <3>1. CASE i \in 1..m
      <4>1. off[i] \in Nat /\ Len(seqs[i]) \in Nat /\ off[i] + Len(seqs[i]) <= Len(old)
        BY <2>5, <2>6, <3>1
      <4> QED
        BY <2>4, <2>9, <4>1
    <3>2. CASE i = m + 1
      BY <2>4, <2>9, <3>2 DEF one
    <3> QED
      BY <2>7, <3>1, <3>2
  <2>11. ASSUME NEW i \in 1..(m + 1), NEW k \in Nat, k \in 1..Len(seqs[i])
         PROVE  new[off[i] + k] = seqs[i][k]
    <3>1. CASE i \in 1..m
      <4>1. off[i] + k \in 1..(Len(old) + Len(one)) /\ off[i] + k <= Len(old)
        <5>1. /\ off[i] \in Nat /\ Len(seqs[i]) \in Nat
              /\ off[i] + Len(seqs[i]) <= Len(old)
          BY <2>5, <2>6, <3>1
        <5>2. ASSUME NEW x \in Nat, NEW y \in Nat, NEW u \in Nat, NEW v \in Nat, x + y <= u, k \in 1..y
              PROVE  x + k \in 1..(u + v) /\ x + k <= u
          BY <5>2
        <5> HIDE DEF Placed, PlacedUp
        <5> QED
          BY <2>4, <2>11, <5>1, <5>2
      <4> QED
        BY <2>6, <2>9, <2>11, <3>1, <4>1
    <3>2. CASE i = m + 1
      <4>1. k \in 1..Len(one) /\ off[i] = Len(old)
        BY <2>4, <2>11, <3>2 DEF one
      <4>2. /\ Len(old) + k \in 1..(Len(old) + Len(one)) /\ ~(Len(old) + k <= Len(old))
            /\ (Len(old) + k) - Len(old) = k
        BY <2>4, <4>1
      <4> QED
        BY <2>9, <3>2, <4>1, <4>2 DEF one
    <3> QED
      BY <2>7, <3>1, <3>2
  <2>12. ASSUME NEW i \in 1..(m + 1), NEW j \in 1..(m + 1), i < j
         PROVE  off[i] + Len(seqs[i]) <= off[j]
    <3>1. i \in 1..m
      BY <2>1, <2>12
    <3> QED
      BY <2>4, <2>6, <2>7, <2>12, <3>1
  <2>13. ASSUME NEW p \in 1..Len(new)
         PROVE  \E i \in 1..(m + 1) : \E k \in 1..Len(seqs[i]) : p = off[i] + k
    <3>1. CASE p <= Len(old)
      <4>1. p \in 1..Len(old)
        BY <2>4, <2>9, <3>1
      <4> QED
        BY <2>6, <2>8, <4>1
    <3>2. CASE ~(p <= Len(old))
      <4>1. p - Len(old) \in 1..Len(one) /\ p = Len(old) + (p - Len(old)) /\ m + 1 \in 1..(m + 1)
        BY <2>1, <2>4, <2>9, <3>2
      <4> QED
        BY <2>4, <4>1 DEF one
    <3> QED
      BY <3>1, <3>2
  <2> QED
    BY <2>1, <2>9, <2>10, <2>11, <2>12, <2>13 DEF new
<1>12. Placed(n)
  <2>1. n \in PlacedUp
    <3> HIDE DEF Placed
    <3>1. PlacedUp \in SUBSET (0..n)
      OBVIOUS
    <3> HIDE DEF PlacedUp
    <3>2. PlacedUp = 0..n
      BY <1>1, <1>10, <1>11, <3>1, CountUp
    <3> QED
      BY <1>1, <3>2
  <2> QED
    BY <2>1
<1> DEFINE flat == FlattenSeq(seqs)
<1>13. part[n] = flat
  BY <1>8
<1>14. off \in [1..n -> Nat]
  BY <1>12
<1> HIDE DEF off, n
<1>15. ASSUME NEW i \in 1..n, NEW k \in Nat, k \in 1..Len(seqs[i])
       PROVE  off[i] + k \in 1..Len(flat) /\ flat[off[i] + k] = seqs[i][k]
  <2>1. flat \in Seq(S) /\ Len(flat) \in Nat /\ off[i] \in Nat /\ off[i] + Len(seqs[i]) <= Len(flat)
    BY <1>12, <1>13, LenProperties
  <2>2. Len(seqs[i]) \in Nat
    BY <1>1
  <2>3. off[i] + k \in 1..Len(flat)
    BY <1>15, <2>1, <2>2
  <2> QED
    BY <1>12, <1>13, <1>15, <2>3
<1>16. /\ flat \in Seq(S)
       /\ \A i, j \in 1..n : i < j => off[i] + Len(seqs[i]) <= off[j]
       /\ \A p \in 1..Len(flat) : \E i \in 1..n : \E k \in 1..Len(seqs[i]) : p = off[i] + k
  BY <1>12, <1>13
<1> HIDE DEF flat
<1>17. Laid(seqs, flat, off)
  BY <1>15, <1>16 DEF Laid, n
<1> QED
  BY <1>14, <1>16, <1>17 DEF n, flat

-----------------------------------------------------------------------------
(***************************************************************************)
(* The search for cycles, in any HLD.                                      *)
(***************************************************************************)

\* The sections of an HLD are numbered, and none needs the 0 that stands for the loop.
LEMMA NeedsType ==
  ASSUME NEW h \in Hlds
  PROVE  /\ Len(h) \in Nat /\ DOMAIN h = 1..Len(h)
         /\ \A s \in 0..Len(h) : Needs(h, s) \subseteq 1..Len(h)
<1>1. h \in Seq(Range(h)) /\ \A s \in DOMAIN h : h[s].needs \subseteq DOMAIN h
  BY HldsAssumption
<1>2. Len(h) \in Nat /\ DOMAIN h = 1..Len(h)
  BY <1>1
<1> QED
  BY <1>1, <1>2 DEF Needs

SearchState(h) ==
  [path : Seq(0..Len(h)), looked : SUBSET ((0..Len(h)) \X (1..Len(h))),
   visited : SUBSET (0..Len(h)), found : BOOLEAN]

\* The path leads from 0 along references, through sections that are not left yet.
PathInv(h, st) ==
  /\ st.path # <<>> => st.path[1] = 0
  /\ st.path = <<>> => 0 \in st.visited
  /\ \A i, j \in 1..Len(st.path) : st.path[i] = st.path[j] => i = j
  /\ \A i \in 1..Len(st.path) : st.path[i] \notin st.visited
  /\ \A i \in 1..(Len(st.path) - 1) : st.path[i + 1] \in Needs(h, st.path[i])

\* What a section that is left needs is left too, and no cycle is among them.
LeftInv(h, st) ==
  /\ \A p \in st.looked :
       \/ p[2] \in st.visited
       \/ \E i \in 1..(Len(st.path) - 1) : p = <<st.path[i], st.path[i + 1]>>
  /\ \A s \in st.visited : Needs(h, s) \subseteq st.visited
  /\ \A S \in SUBSET st.visited : S # {} => \E s \in S : Needs(h, s) \cap S = {}

SearchInv(h, st) ==
  st \in SearchState(h) /\ PathInv(h, st) /\ IF st.found THEN Cyclic(h) ELSE LeftInv(h, st)

\* Everything the section needs has been looked at, and t is the search without it.
Leaves(h, st, here, t) ==
  /\ \A s \in Needs(h, here) : <<here, s>> \in st.looked
  /\ t = [st EXCEPT !.path = SubSeq(@, 1, Len(@) - 1), !.visited = @ \cup {here}]

\* t is the search when the section has looked at another one.
LooksAt(h, st, here, s, t) ==
  /\ <<here, s>> \notin st.looked
  /\ t = Visit([st EXCEPT !.looked = @ \cup {<<here, s>>}], s)

\* A step leaves the last section on the path or looks at one it needs.
LEMMA LookCases ==
  ASSUME NEW h \in Hlds, NEW st, SearchInv(h, st), st.path # <<>>,
         NEW here, here = st.path[Len(st.path)]
  PROVE  \/ Leaves(h, st, here, Look(h, st))
         \/ \E s \in Needs(h, here) : LooksAt(h, st, here, s, Look(h, st))
<1> DEFINE left == {s \in Needs(h, here) : <<here, s>> \notin st.looked}
<1>1. st.path \in Seq(0..Len(h)) /\ here \in 0..Len(h)
  BY DEF SearchInv, SearchState
<1>2. Last(st.path) = here /\ Front(st.path) = SubSeq(st.path, 1, Len(st.path) - 1)
  BY DEF Last, Front
<1>3. Look(h, st) = IF left = {} THEN [st EXCEPT !.path = Front(@), !.visited = @ \cup {here}]
                    ELSE Visit([st EXCEPT !.looked = @ \cup {<<here, Min(left)>>}], Min(left))
  BY <1>2, Zenon DEF Look
<1>4. CASE left = {}
  <2>1. \A s \in Needs(h, here) : <<here, s>> \in st.looked
    BY <1>4
  <2>2. Look(h, st) = [st EXCEPT !.path = SubSeq(@, 1, Len(@) - 1), !.visited = @ \cup {here}]
    BY <1>2, <1>3, <1>4, Zenon
  <2> QED
    BY <2>1, <2>2 DEF Leaves
<1>5. CASE left # {}
  <2>1. Min(left) \in left
    <3>1. left \in SUBSET Nat
      BY <1>1, NeedsType
    <3> HIDE DEF left
    <3> QED BY <1>5, <3>1, MinIs
  <2>2. Look(h, st) = Visit([st EXCEPT !.looked = @ \cup {<<here, Min(left)>>}], Min(left))
    BY <1>3, <1>5, Zenon
  <2>3. Min(left) \in Needs(h, here) /\ <<here, Min(left)>> \notin st.looked
    BY <2>1
  <2> HIDE DEF left
  <2> QED BY <2>2, <2>3 DEF LooksAt
<1> QED
  BY <1>4, <1>5

\* Leaving a section.
LEMMA LeaveKeeps ==
  ASSUME NEW h \in Hlds, NEW st, SearchInv(h, st), st.path # <<>>,
         NEW here, here = st.path[Len(st.path)],
         NEW t, Leaves(h, st, here, t)
  PROVE  SearchInv(h, t)
<1> DEFINE m == Len(st.path)
<1>1. /\ st.path \in Seq(0..Len(h)) /\ m \in Nat /\ m # 0 /\ here \in 0..Len(h)
      /\ \A i \in 1..m : st.path[i] \in 0..Len(h)
  BY DEF SearchInv, SearchState
<1>2. /\ t.path = SubSeq(st.path, 1, m - 1) /\ t.visited = st.visited \cup {here}
      /\ t.looked = st.looked /\ t.found = st.found
  BY DEF Leaves, SearchInv, SearchState
<1>3. t.path \in Seq(0..Len(h)) /\ Len(t.path) = m - 1 /\ \A i \in 1..(m - 1) : t.path[i] = st.path[i]
  BY <1>1, <1>2
<1>p. /\ st.path[1] = 0 /\ here = st.path[m]
      /\ \A i, j \in 1..m : st.path[i] = st.path[j] => i = j
      /\ \A i \in 1..m : st.path[i] \notin st.visited
      /\ \A i \in 1..(m - 1) : st.path[i + 1] \in Needs(h, st.path[i])
  BY DEF SearchInv, PathInv
<1>4. t \in SearchState(h)
  BY <1>1, <1>2, <1>3 DEF Leaves, SearchInv, SearchState
<1>5. PathInv(h, t)
  <2>1. t.path = <<>> <=> m = 1
    <3>1. ASSUME NEW T, NEW q \in Seq(T) PROVE q = <<>> <=> Len(q) = 0
      OBVIOUS
    <3>2. t.path = <<>> <=> Len(t.path) = 0
      BY <1>3, <3>1
    <3>3. m \in Nat /\ Len(t.path) = m - 1
      BY <1>1, <1>3
    <3> HIDE DEF m
    <3> QED BY <3>2, <3>3
  <2> HIDE DEF m
  <2>2. \A i \in 1..(m - 1) : i \in 1..m /\ m \in 1..m /\ i # m
    BY <1>1
  <2>3. \A i \in 1..((m - 1) - 1) : i \in 1..(m - 1) /\ i + 1 \in 1..(m - 1)
    BY <1>1
  <2>4. t.path # <<>> => t.path[1] = 0
    BY <1>1, <1>3, <1>p, <2>1
  <2>5. t.path = <<>> => 0 \in t.visited
    BY <1>2, <1>p, <2>1
  <2>6. \A i, j \in 1..(m - 1) : t.path[i] = t.path[j] => i = j
    BY <1>3, <1>p, <2>2
  <2>7. \A i \in 1..(m - 1) : t.path[i] \notin t.visited
    BY <1>2, <1>3, <1>p, <2>2
  <2>8. \A i \in 1..((m - 1) - 1) : t.path[i + 1] \in Needs(h, t.path[i])
    BY <1>3, <1>p, <2>3
  <2> QED
    BY <1>3, <2>4, <2>5, <2>6, <2>7, <2>8 DEF PathInv
<1>6. ASSUME ~st.found PROVE LeftInv(h, t)
  <2>1. LeftInv(h, st)
    BY <1>6 DEF SearchInv
  <2>2. here \notin st.visited
    BY <1>1 DEF SearchInv, PathInv
  <2>3. ASSUME NEW p \in t.looked
        PROVE  \/ p[2] \in t.visited
               \/ \E i \in 1..(Len(t.path) - 1) : p = <<t.path[i], t.path[i + 1]>>
    <3>1. CASE p[2] \in st.visited
      BY <1>2, <3>1
    <3>2. CASE \E i \in 1..(m - 1) : p = <<st.path[i], st.path[i + 1]>>
      <4>1. PICK i \in 1..(m - 1) : p = <<st.path[i], st.path[i + 1]>>
        BY <3>2
      <4>2. CASE i = m - 1
        BY <1>1, <1>2, <4>1, <4>2
      <4>3. CASE i # m - 1
        <5> HIDE DEF m
        <5>1. i \in 1..((m - 1) - 1) /\ i \in 1..(m - 1) /\ i + 1 \in 1..(m - 1)
          BY <1>1, <4>3
        <5>2. p = <<t.path[i], t.path[i + 1]>>
          BY <1>3, <4>1, <5>1
        <5> QED
          BY <1>3, <5>1, <5>2
      <4> QED
        BY <4>2, <4>3
    <3> QED
      BY <1>2, <2>1, <3>1, <3>2 DEF LeftInv
  <2>4. Needs(h, here) \subseteq st.visited
    <3> SUFFICES ASSUME NEW s \in Needs(h, here), s \notin st.visited PROVE FALSE
      OBVIOUS
    <3> <<here, s>> \in st.looked
      BY DEF Leaves
    <3>1. PICK i \in 1..(m - 1) : <<here, s>> = <<st.path[i], st.path[i + 1]>>
      BY <2>1 DEF LeftInv
    <3>2. st.path[i] = st.path[m] /\ i \in 1..m /\ m \in 1..m /\ i # m
      BY <1>1, <3>1
    <3> QED
      BY <3>2 DEF SearchInv, PathInv
  <2>5. \A s \in t.visited : Needs(h, s) \subseteq t.visited
    BY <1>2, <2>1, <2>4 DEF LeftInv
  <2>6. ASSUME NEW S \in SUBSET t.visited, S # {}
        PROVE  \E s \in S : Needs(h, s) \cap S = {}
    <3> DEFINE R == S \ {here}
    <3>1. R \in SUBSET st.visited
      BY <1>2
    <3>2. CASE R = {}
      BY <2>2, <2>4, <2>6, <3>2
    <3>3. CASE R # {}
      <4>1. PICK s \in R : Needs(h, s) \cap R = {}
        BY <2>1, <3>1, <3>3 DEF LeftInv
      <4>2. Needs(h, s) \subseteq st.visited
        BY <2>1, <3>1 DEF LeftInv
      <4> QED
        BY <2>2, <4>1, <4>2
    <3> QED
      BY <3>2, <3>3
  <2> QED
    BY <2>3, <2>5, <2>6 DEF LeftInv
<1> QED
  BY <1>2, <1>4, <1>5, <1>6 DEF SearchInv

\* Looking at a section that is needed.
LEMMA VisitKeeps ==
  ASSUME NEW h \in Hlds, NEW st, SearchInv(h, st), st.path # <<>>,
         NEW here, here = st.path[Len(st.path)], NEW s \in Needs(h, here),
         NEW t, LooksAt(h, st, here, s, t)
  PROVE  SearchInv(h, t)
<1> DEFINE m == Len(st.path)
           seen == [st EXCEPT !.looked = @ \cup {<<here, s>>}]
<1>1. /\ st.path \in Seq(0..Len(h)) /\ m \in Nat /\ m # 0 /\ here \in 0..Len(h)
      /\ \A i \in 1..m : st.path[i] \in 0..Len(h)
  BY DEF SearchInv, SearchState
<1>2. s \in 1..Len(h) /\ s \in 0..Len(h) /\ s # 0
  BY <1>1, NeedsType
<1>3. /\ seen \in SearchState(h) /\ seen.looked = st.looked \cup {<<here, s>>}
      /\ seen.path = st.path /\ seen.visited = st.visited /\ seen.found = st.found
  <2>1. st \in SearchState(h)
    BY DEF SearchInv
  <2>2. <<here, s>> \in (0..Len(h)) \X (1..Len(h))
    BY <1>1, <1>2
  <2> HIDE DEF m
  <2> QED BY <2>1, <2>2 DEF SearchState
<1>p. /\ st.path[1] = 0 /\ here = st.path[m]
      /\ \A i, j \in 1..m : st.path[i] = st.path[j] => i = j
      /\ \A i \in 1..m : st.path[i] \notin st.visited
      /\ \A i \in 1..(m - 1) : st.path[i + 1] \in Needs(h, st.path[i])
  BY DEF SearchInv, PathInv
<1>4. t = Visit(seen, s)
  BY DEF LooksAt
<1> HIDE DEF seen
<1>5. PathInv(h, seen)
  BY <1>3 DEF SearchInv, PathInv
<1>6. CASE s \in Range(st.path)
  <2>1. t = [seen EXCEPT !.found = TRUE]
    BY <1>3, <1>4, <1>6 DEF Visit
  <2>2. /\ t \in SearchState(h) /\ t.found = TRUE
        /\ t.path = seen.path /\ t.visited = seen.visited
    BY <1>3, <2>1 DEF SearchState
  <2>3. PathInv(h, t)
    <3>1. ASSUME NEW path, NEW visited, NEW a, NEW b, a.path = path, a.visited = visited,
                 b.path = path, b.visited = visited, PathInv(h, a)
          PROVE  PathInv(h, b)
      BY <3>1 DEF PathInv
    <3> QED
      BY <1>5, <2>2, <3>1
  <2>4. PICK i \in 1..m : st.path[i] = s
    BY <1>1, <1>6 DEF Range
  <2>5. Cyclic(h)
    <3> DEFINE S == {st.path[j] : j \in i..m}
    <3>1. i # 1 /\ \A j \in i..m : j \in 1..m /\ j # 1 /\ 1 \in 1..m
      BY <1>1, <1>2, <2>4 DEF SearchInv, PathInv
    <3>2. \A j \in i..m : st.path[j] # 0
      BY <1>1, <3>1 DEF SearchInv, PathInv
    <3> HIDE DEF m
    <3>3. S \in SUBSET (1..Len(h)) /\ S # {}
      <4>1. \A j \in i..m : st.path[j] \in 1..Len(h)
        BY <1>1, <1>2, <3>1, <3>2, NeedsType
      <4>2. i \in i..m
        BY <1>1
      <4> QED
        BY <4>1, <4>2
    <3>4. ASSUME NEW v \in S PROVE h[v].needs \cap S # {}
      <4>1. PICK j \in i..m : v = st.path[j]
        OBVIOUS
      <4>2. Needs(h, v) = h[v].needs
        BY <3>2, <4>1 DEF Needs
      <4>3. CASE j = m
        <5>1. s \in S
          BY <1>1, <2>4
        <5> QED
          BY <1>p, <4>1, <4>2, <4>3, <5>1
      <4>4. CASE j # m
        <5>1. j + 1 \in i..m /\ j \in 1..(m - 1)
          BY <1>1, <4>4
        <5>2. st.path[j + 1] \in Needs(h, v)
          BY <1>p, <4>1, <5>1
        <5> QED
          BY <4>2, <5>1, <5>2
      <4> QED
        BY <4>3, <4>4
    <3>5. S \in SUBSET DOMAIN h
      BY <3>3, NeedsType
    <3> HIDE DEF S
    <3> QED BY <3>3, <3>4, <3>5 DEF Cyclic
  <2> QED
    BY <2>2, <2>3, <2>5 DEF SearchInv
<1>7. CASE s \notin Range(st.path) /\ s \in st.visited
  <2>1. t = seen
    BY <1>3, <1>4, <1>7 DEF Visit
  <2>2. ASSUME ~st.found PROVE LeftInv(h, t)
    <3>1. LeftInv(h, st)
      BY <2>2 DEF SearchInv
    <3>2. /\ t.looked = st.looked \cup {<<here, s>>}
          /\ t.path = st.path /\ t.visited = st.visited
      BY <1>3, <2>1
    <3>3. ASSUME NEW p \in t.looked
          PROVE  \/ p[2] \in t.visited
                 \/ \E i \in 1..(Len(t.path) - 1) : p = <<t.path[i], t.path[i + 1]>>
      <4>1. CASE p = <<here, s>>
        BY <1>7, <3>2, <4>1
      <4>2. CASE p \in st.looked
        BY <3>1, <3>2, <4>2, Zenon DEF LeftInv
      <4> QED
        BY <3>2, <4>1, <4>2
    <3> QED
      BY <3>1, <3>2, <3>3, Zenon DEF LeftInv
  <2> QED
    BY <1>3, <1>5, <2>1, <2>2 DEF SearchInv
<1>8. CASE s \notin Range(st.path) /\ s \notin st.visited
  <2>1. t = [seen EXCEPT !.path = Append(@, s)]
    BY <1>3, <1>4, <1>8 DEF Visit
  <2>2. /\ t.path = Append(st.path, s) /\ t.looked = seen.looked
        /\ t.visited = st.visited /\ t.found = st.found
    BY <1>3, <2>1 DEF SearchState
  <2>3. /\ t.path \in Seq(0..Len(h)) /\ Len(t.path) = m + 1 /\ t.path[m + 1] = s
        /\ \A i \in 1..m : t.path[i] = st.path[i]
    <3> SUFFICES ASSUME NEW T, st.path \in Seq(T), s \in T
                 PROVE  /\ Append(st.path, s) \in Seq(T)
                        /\ Len(Append(st.path, s)) = m + 1 /\ Append(st.path, s)[m + 1] = s
                        /\ \A i \in 1..m : Append(st.path, s)[i] = st.path[i]
      BY <1>1, <1>2, <2>2
    <3> QED
      OBVIOUS
  <2>4. t \in SearchState(h)
    BY <1>3, <2>1, <2>2, <2>3 DEF SearchState
  <2>5. PathInv(h, t)
    <3>2. \A i \in 1..m : t.path[i] # s
      <4>1. \A i \in 1..m : st.path[i] # s
        BY <1>1, <1>8 DEF Range
      <4> QED
        BY <2>3, <4>1
    <3> HIDE DEF m
    <3>1. t.path # <<>> /\ t.path[1] = 0
      <4>1. 1 \in 1..m /\ t.path # <<>>
        BY <1>1, <2>3
      <4> QED
        BY <1>p, <2>3, <4>1
    <3>3. ASSUME NEW i \in 1..(m + 1), NEW j \in 1..(m + 1), t.path[i] = t.path[j]
          PROVE  i = j
      <4>1. CASE i \in 1..m /\ j \in 1..m
        BY <1>p, <2>3, <3>3, <4>1
      <4>2. \A k \in 1..(m + 1) : k \in 1..m \/ k = m + 1
        BY <1>1
      <4>3. t.path[m + 1] = s
        BY <2>3
      <4> QED
        BY <3>2, <3>3, <4>1, <4>2, <4>3
    <3>4. \A i \in 1..(m + 1) : t.path[i] \notin t.visited
      <4>1. \A i \in 1..(m + 1) : i \in 1..m \/ i = m + 1
        BY <1>1
      <4> QED
        BY <1>p, <1>8, <2>2, <2>3, <4>1
    <3>5. ASSUME NEW i \in 1..m PROVE t.path[i + 1] \in Needs(h, t.path[i])
      <4>1. CASE i = m
        BY <1>p, <2>3, <4>1
      <4>2. CASE i # m
        <5>1. i \in 1..(m - 1) /\ i + 1 \in 1..m
          BY <1>1, <4>2
        <5> QED
          BY <1>p, <2>3, <5>1
      <4> QED
        BY <4>1, <4>2
    <3>6. Len(t.path) - 1 = m
      <4>1. m \in Nat /\ Len(t.path) = m + 1
        BY <1>1, <2>3
      <4> QED
        BY <4>1
    <3> QED BY <2>3, <3>1, <3>3, <3>4, <3>5, <3>6 DEF PathInv
  <2>6. ASSUME ~st.found PROVE LeftInv(h, t)
    <3>1. LeftInv(h, st)
      BY <2>6 DEF SearchInv
    <3>2. ASSUME NEW p \in t.looked
          PROVE  \/ p[2] \in t.visited
                 \/ \E i \in 1..(Len(t.path) - 1) : p = <<t.path[i], t.path[i + 1]>>
      <4>1. CASE p = <<here, s>>
        <5>1. m \in 1..((m + 1) - 1) /\ m \in 1..m
          BY <1>1
        <5>2. p = <<t.path[m], t.path[m + 1]>>
          BY <1>p, <2>3, <4>1, <5>1
        <5> HIDE DEF m
        <5> QED BY <2>3, <5>1, <5>2
      <4>2. CASE p \in st.looked
        <5>1. CASE p[2] \in st.visited
          BY <2>2, <5>1
        <5>2. CASE \E i \in 1..(m - 1) : p = <<st.path[i], st.path[i + 1]>>
          <6>1. PICK i \in 1..(m - 1) : p = <<st.path[i], st.path[i + 1]>>
            BY <5>2
          <6> HIDE DEF m
          <6>2. i \in 1..((m + 1) - 1) /\ i \in 1..m /\ i + 1 \in 1..m
            BY <1>1
          <6>3. p = <<t.path[i], t.path[i + 1]>>
            BY <2>3, <6>1, <6>2
          <6> QED
            BY <2>3, <6>2, <6>3
        <5> QED
          BY <3>1, <4>2, <5>1, <5>2 DEF LeftInv
      <4> QED
        BY <1>3, <2>2, <4>1, <4>2
    <3> QED
      BY <2>2, <3>1, <3>2 DEF LeftInv
  <2> QED
    BY <2>2, <2>4, <2>5, <2>6 DEF SearchInv
<1> QED
  BY <1>6, <1>7, <1>8

\* Every step keeps the invariant of the search.
LEMMA LookKeeps ==
  ASSUME NEW h \in Hlds, NEW st, SearchInv(h, st)
  PROVE  SearchInv(h, Look(h, st))
<1>1. CASE st.path = <<>>
  BY <1>1 DEF Look
<1>2. CASE st.path # <<>>
  <2>1. PICK here : here = st.path[Len(st.path)]
    OBVIOUS
  <2>2. \/ Leaves(h, st, here, Look(h, st))
        \/ \E s \in Needs(h, here) : LooksAt(h, st, here, s, Look(h, st))
    BY <1>2, <2>1, LookCases
  <2>3. Leaves(h, st, here, Look(h, st)) => SearchInv(h, Look(h, st))
    BY <1>2, <2>1, LeaveKeeps
  <2>4. \A s \in Needs(h, here) :
          LooksAt(h, st, here, s, Look(h, st)) => SearchInv(h, Look(h, st))
    BY <1>2, <2>1, VisitKeeps
  <2> QED
    BY <2>2, <2>3, <2>4
<1> QED
  BY <1>1, <1>2

\* What the search has dealt with: references looked along, and sections left.
Marks(st) == st.looked \cup (st.visited \X {0})

\* A step deals with one more.
LEMMA LookMarks ==
  ASSUME NEW h \in Hlds, NEW st, SearchInv(h, st), st.path # <<>>
  PROVE  \E p : p \notin Marks(st) /\ Marks(Look(h, st)) = Marks(st) \cup {p}
<1> DEFINE here == st.path[Len(st.path)]
<1>1. /\ st \in SearchState(h) /\ here \in 0..Len(h) /\ here \notin st.visited
      /\ Len(h) \in Nat
  BY NeedsType DEF SearchInv, SearchState, PathInv
<1>2. \A p \in st.looked : p[2] # 0
  BY <1>1 DEF SearchState
<1> HIDE DEF here
<1>3. CASE Leaves(h, st, here, Look(h, st))
  <2>1. <<here, 0>> \notin Marks(st)
    BY <1>1, <1>2 DEF Marks
  <2>2. Look(h, st).looked = st.looked /\ Look(h, st).visited = st.visited \cup {here}
    BY <1>1, <1>3 DEF Leaves, SearchState
  <2> QED
    BY <2>1, <2>2 DEF Marks
<1>4. ASSUME NEW s \in Needs(h, here), LooksAt(h, st, here, s, Look(h, st))
      PROVE  <<here, s>> \notin Marks(st) /\ Marks(Look(h, st)) = Marks(st) \cup {<<here, s>>}
  <2>1. s # 0
    BY <1>1, NeedsType
  <2>2. <<here, s>> \notin Marks(st)
    BY <1>4, <2>1 DEF LooksAt, Marks
  <2>3. Look(h, st).looked = st.looked \cup {<<here, s>>} /\ Look(h, st).visited = st.visited
    BY <1>1, <1>4 DEF LooksAt, SearchState, Visit
  <2> QED
    BY <2>2, <2>3 DEF Marks
<1> QED
  BY <1>3, <1>4, LookCases DEF here

FirstLook == [path |-> <<0>>, looked |-> {}, visited |-> {}, found |-> FALSE]

\* The search is defined, step by step.
LEMMA SearchIs ==
  ASSUME NEW h, NEW n \in Nat, n = (Len(h) + 1) * (Len(h) + 1)
  PROVE  \E after : /\ HasCycle(h) = after[n].found
                    /\ after[0] = FirstLook
                    /\ \A k \in 1..n : after[k] = Look(h, after[k - 1])
<1> DEFINE Entry(f, k) == IF k = 0 THEN FirstLook ELSE Look(h, f[k - 1])
           Is(f, m) == f = [k \in 0..m |-> Entry(f, k)]
           Defined == {m \in 0..n : \E f : Is(f, m)}
<1>1. 0 \in Defined
  <2> DEFINE f == [k \in 0..0 |-> FirstLook]
  <2>1. Is(f, 0)
    OBVIOUS
  <2> HIDE DEF f, Is
  <2> QED BY <2>1
<1>2. ASSUME NEW m \in Defined, m < n PROVE m + 1 \in Defined
  <2>1. PICK f : Is(f, m)
    OBVIOUS
  <2> DEFINE g == [k \in 0..(m + 1) |-> IF k = m + 1 THEN Look(h, f[m]) ELSE f[k]]
  <2>2. m \in Nat /\ m + 1 \in 0..n
    BY <1>2
  <2>3. ASSUME NEW k \in 0..(m + 1) PROVE g[k] = Entry(g, k)
    <3>1. CASE k = m + 1
      <4>1. g[m] = f[m] /\ m + 1 # 0 /\ (m + 1) - 1 = m
        BY <2>2
      <4> QED
        BY <2>2, <3>1, <4>1
    <3>2. CASE k # m + 1
      <4>1. k \in 0..m /\ g[k] = f[k]
        BY <2>2, <3>2
      <4>2. f[k] = Entry(f, k)
        BY <2>1, <4>1
      <4>3. CASE k = 0
        BY <4>1, <4>2, <4>3
      <4>4. CASE k # 0
        <5>1. k - 1 \in 0..(m + 1) /\ k - 1 # m + 1
          BY <2>2, <4>1, <4>4
        <5>2. g[k - 1] = f[k - 1]
          BY <5>1
        <5> QED
          BY <4>1, <4>2, <4>4, <5>2
      <4> QED
        BY <4>3, <4>4
    <3> QED
      BY <3>1, <3>2
  <2>4. Is(g, m + 1)
    <3> DEFINE stepped == [k \in 0..(m + 1) |-> Entry(g, k)]
    <3>1. \A k \in 0..(m + 1) : g[k] = stepped[k]
      BY <2>3
    <3>2. g = stepped
      <4> HIDE DEF Entry
      <4> QED BY <3>1
    <3> QED
      BY <3>2
  <2> HIDE DEF g, Is
  <2> QED BY <2>2, <2>4
<1>3. n \in Defined
  <2> HIDE DEF Defined
  <2>1. Defined \in SUBSET (0..n)
    BY DEF Defined
  <2>2. Defined = 0..n
    BY <1>1, <1>2, <2>1, CountUp
  <2> QED
    BY <2>2
<1> DEFINE after == CHOOSE f : Is(f, n)
<1>4. Is(after, n)
  <2>1. \E f : Is(f, n)
    BY <1>3
  <2> HIDE DEF Is
  <2> QED BY <2>1
<1>5. HasCycle(h) = after[n].found
  BY DEF HasCycle, FirstLook
<1> HIDE DEF after
<1>6. after[0] = FirstLook /\ \A k \in 1..n : after[k] = Look(h, after[k - 1])
  BY <1>4
<1> QED
  BY <1>5, <1>6

\* The search finds a cycle if and only if there is one.
LEMMA SearchFinds ==
  ASSUME NEW h \in Hlds
  PROVE  HasCycle(h) <=> Cyclic(h)
<1> DEFINE all == (0..Len(h)) \X (0..Len(h))
           n == (Len(h) + 1) * (Len(h) + 1)
<1>1. /\ Len(h) \in Nat /\ DOMAIN h = 1..Len(h) /\ n \in Nat
      /\ \A s \in 0..Len(h) : Needs(h, s) \subseteq 1..Len(h)
  BY NeedsType
<1>2. IsFiniteSet(all) /\ Cardinality(all) = n
  <2>1. IsFiniteSet(0..Len(h)) /\ Cardinality(0..Len(h)) = Len(h) + 1
    BY <1>1, FS_Interval
  <2> QED
    BY <2>1, FS_Product
<1>3. PICK after : /\ HasCycle(h) = after[n].found
                   /\ after[0] = FirstLook
                   /\ \A k \in 1..n : after[k] = Look(h, after[k - 1])
  BY <1>1, SearchIs
<1> DEFINE Good(k) == /\ SearchInv(h, after[k])
                      /\ after[k].path # <<>> => Cardinality(Marks(after[k])) = k
           Goods == {k \in 0..n : Good(k)}
<1>4. 0 \in Goods
  <2>1. FirstLook \in SearchState(h) /\ PathInv(h, FirstLook) /\ LeftInv(h, FirstLook)
    BY <1>1 DEF FirstLook, SearchState, PathInv, LeftInv
  <2>2. Marks(FirstLook) = {} /\ ~FirstLook.found
    BY DEF FirstLook, Marks
  <2>3. SearchInv(h, FirstLook)
    BY <2>1, <2>2 DEF SearchInv
  <2>4. Cardinality(Marks(FirstLook)) = 0
    BY <2>2, FS_EmptySet
  <2>5. 0 \in 0..n /\ after[0] = FirstLook
    BY <1>1, <1>3
  <2> QED
    BY <2>3, <2>4, <2>5
<1>5. ASSUME NEW st, SearchInv(h, st)
      PROVE  Marks(st) \in SUBSET all /\ IsFiniteSet(Marks(st))
  <2>1. Marks(st) \in SUBSET all
    BY <1>1, <1>5 DEF SearchInv, SearchState, Marks
  <2> HIDE DEF all
  <2> QED BY <1>2, <2>1, FS_Subset
<1>6. ASSUME NEW k \in Goods, k < n PROVE k + 1 \in Goods
  <2> HIDE DEF n, all
  <2>1. k \in Nat /\ k + 1 \in 1..n /\ k + 1 \in 0..n /\ (k + 1) - 1 = k
    BY <1>1, <1>6
  <2>2. /\ SearchInv(h, after[k])
        /\ after[k].path # <<>> => Cardinality(Marks(after[k])) = k
        /\ after[k + 1] = Look(h, after[k])
    BY <1>3, <1>6, <2>1
  <2>3. SearchInv(h, after[k + 1])
    BY <2>2, LookKeeps
  <2>4. ASSUME after[k + 1].path # <<>> PROVE Cardinality(Marks(after[k + 1])) = k + 1
    <3>1. after[k].path # <<>>
      BY <2>2, <2>4 DEF Look
    <3> HIDE DEF Goods
    <3>2. PICK p : p \notin Marks(after[k]) /\ Marks(Look(h, after[k])) = Marks(after[k]) \cup {p}
      BY <2>2, <3>1, LookMarks
    <3>3. IsFiniteSet(Marks(after[k]))
      BY <1>5, <2>2
    <3>4. Cardinality(Marks(after[k]) \cup {p}) = Cardinality(Marks(after[k])) + 1
      BY <3>2, <3>3, FS_AddElement
    <3> QED
      BY <2>2, <3>1, <3>2, <3>4
  <2> QED
    BY <2>1, <2>3, <2>4
<1>7. Good(n)
  <2> HIDE DEF n
  <2>1. n \in Goods
    <3> HIDE DEF Good
    <3>1. Goods \in SUBSET (0..n)
      OBVIOUS
    <3> HIDE DEF Goods
    <3>2. Goods = 0..n
      BY <1>1, <1>4, <1>6, <3>1, CountUp
    <3> QED
      BY <1>1, <3>2
  <2> QED
    BY <2>1
<1> DEFINE end == after[n]
<1>8. SearchInv(h, end) /\ (end.path # <<>> => Cardinality(Marks(end)) = n)
  BY <1>7
<1> HIDE DEF n, end
<1>9. 0 \in end.visited
  <2>1. CASE end.path = <<>>
    BY <1>8, <2>1 DEF SearchInv, PathInv
  <2>2. CASE end.path # <<>>
    <3>1. Marks(end) = all
      <4> HIDE DEF all
      <4> QED BY <1>2, <1>5, <1>8, <2>2, FS_Subset
    <3>2. <<0, 0>> \in Marks(end)
      BY <1>1, <3>1
    <3>3. <<0, 0>> \notin end.looked
      BY <1>1, <1>8 DEF SearchInv, SearchState
    <3> QED
      BY <3>2, <3>3 DEF Marks
  <2> QED
    BY <2>1, <2>2
<1>10. ASSUME Cyclic(h), ~end.found PROVE FALSE
  <2>1. LeftInv(h, end)
    BY <1>8, <1>10 DEF SearchInv
  <2>2. 1..Len(h) \subseteq end.visited
    <3>1. Needs(h, 0) = 1..Len(h)
      BY <1>1 DEF Needs
    <3> QED
      BY <1>9, <2>1, <3>1 DEF LeftInv
  <2>3. PICK S \in SUBSET DOMAIN h : S # {} /\ \A s \in S : h[s].needs \cap S # {}
    BY <1>10 DEF Cyclic
  <2>4. PICK s \in S : Needs(h, s) \cap S = {}
    BY <1>1, <2>1, <2>2, <2>3 DEF LeftInv
  <2>5. Needs(h, s) = h[s].needs
    BY <1>1, <2>3 DEF Needs
  <2> QED
    BY <2>3, <2>4, <2>5
<1>11. HasCycle(h) = end.found /\ end.found \in BOOLEAN
  BY <1>3, <1>8 DEF end, SearchInv, SearchState
<1> QED
  BY <1>8, <1>10, <1>11 DEF SearchInv

-----------------------------------------------------------------------------
(***************************************************************************)
(* Cycles stop the planning.                                               *)
(***************************************************************************)

\* Only an HLD without a cycle gets past its map, and only one with a cycle is invalid.
MapInv ==
  /\ hld \in Hlds
  /\ told = "invalid" => HasCycle(hld)
  /\ (files # NoFiles \/ pc \notin {"idle", "map"}) => ~HasCycle(hld)

\* Holds of every run, in any order, with any deaths and answers.
LEMMA MapInvariant ==
  PlanSpec => []MapInv
<1>1. PlanInit => MapInv
  BY DEF PlanInit, MapInv
<1>2. ASSUME MapInv, [PlanNext]_planVars PROVE MapInv'
  <2> USE <1>2
  <2>1. CASE StartRun
    <3>1. files.review # NoFile => files # NoFiles
      BY DEF NoFiles
    <3> QED
      BY <2>1, <3>1 DEF StartRun, RunEnds, MapInv
  <2>2. CASE MakeMap
    BY <2>2 DEF MakeMap, RunEnds, MapInv
  <2>3. ASSUME NEW script, NEW file, NEW value, NEW next, script \notin {"idle", "map"},
               Writes(script, file, value, next)
        PROVE  MapInv'
    BY <2>3 DEF Writes, MapInv
  <2>4. CASE MakePlan
    BY <2>3, <2>4 DEF MakePlan
  <2>5. CASE ApplyAnswers
    BY <2>5 DEF ApplyAnswers, RunEnds, MapInv
  <2>6. CASE RecordApplied
    BY <2>3, <2>6 DEF RecordApplied
  <2>7. CASE MakeReview
    <3>1. CASE files.plan = Torn
      BY <2>7, <3>1 DEF MakeReview, RunEnds, MapInv
    <3>2. CASE files.plan # Torn
      BY <2>3, <2>7, <3>2 DEF MakeReview
    <3> QED
      BY <3>1, <3>2
  <2>8. CASE MakeQueue
    BY <2>3, <2>8 DEF MakeQueue
  <2>9. CASE MakePrework
    BY <2>3, <2>9 DEF MakePrework
  <2>10. CASE MakeBundles
    BY <2>3, <2>10 DEF MakeBundles
  <2>11. CASE MakeQuality
    BY <2>3, <2>11 DEF MakeQuality
  <2>12. CASE ValidateBundles
    BY <2>12 DEF ValidateBundles, RunEnds, MapInv
  <2>13. CASE Report
    BY <2>13 DEF Report, RunEnds, MapInv
  <2>14. CASE Die
    <3>1. pc \in DOMAIN Writing => pc \notin {"idle", "map"}
      BY DEF Writing
    <3> QED
      BY <2>14, <3>1 DEF Die, RunEnds, MapInv
  <2>15. CASE \E id \in Ids, a \in Answers \ {"TBD"} : Answer(id, a)
    <3>1. files.queue # NoFile => files # NoFiles
      BY DEF NoFiles
    <3> QED
      BY <2>15, <3>1 DEF Answer, MapInv
  <2>16. CASE UNCHANGED planVars
    BY <2>16 DEF planVars, MapInv
  <2> QED
    BY <2>1, <2>2, <2>4, <2>5, <2>6, <2>7, <2>8, <2>9, <2>10, <2>11, <2>12, <2>13, <2>14,
       <2>15, <2>16 DEF PlanNext, Run
<1> QED
  BY <1>1, <1>2, PTL DEF PlanSpec

\* Specs are planned from an HLD whose required references have no cycle, and no other is
\* refused, for any HLD: the search from section to section finds a cycle if there is one.
THEOREM CyclesAlwaysStop ==
  PlanSpec => []CyclesStopPlanning
<1>1. MapInv => CyclesStopPlanning
  <2> SUFFICES ASSUME MapInv PROVE CyclesStopPlanning
    OBVIOUS
  <2>1. HasCycle(hld) <=> Cyclic(hld)
    BY SearchFinds DEF MapInv
  <2>2. files.plan # NoFile => files # NoFiles
    BY DEF NoFiles
  <2> QED
    BY <2>1, <2>2 DEF MapInv, CyclesStopPlanning
<1> QED
  BY <1>1, MapInvariant, PTL

-----------------------------------------------------------------------------
(***************************************************************************)
(* Plans, of any HLD and after any splits.                                 *)
(***************************************************************************)

\* The order of a table is a strict order of what is in the table.
LEMMA EarlierOrder ==
  ASSUME NEW table, table \in Seq(Range(table)), Distinct(table), NEW S \in SUBSET Range(table),
         NEW R, R = UNION {{<<table[i], table[j]>> : i \in 1..(j - 1)} : j \in DOMAIN table}
  PROVE  /\ StrictOrder(S, R)
         /\ \A i, j \in DOMAIN table : <<table[i], table[j]>> \in R <=> i < j
<1>1. DOMAIN table = 1..Len(table) /\ Len(table) \in Nat
  BY LenProperties
<1>2. ASSUME NEW i \in 1..Len(table), NEW j \in 1..Len(table)
      PROVE  <<table[i], table[j]>> \in R <=> i < j
  <2>1. ASSUME i < j PROVE <<table[i], table[j]>> \in R
    <3>1. i \in 1..(j - 1)
      BY <2>1
    <3> QED
      BY <1>1, <3>1
  <2>2. ASSUME <<table[i], table[j]>> \in R PROVE i < j
    <3>1. PICK l \in DOMAIN table : \E k \in 1..(l - 1) : <<table[i], table[j]>> = <<table[k], table[l]>>
      BY <2>2
    <3>2. PICK k \in 1..(l - 1) : <<table[i], table[j]>> = <<table[k], table[l]>>
      BY <3>1
    <3>3. k \in DOMAIN table /\ k < l
      BY <1>1, <3>1
    <3>4. i = k /\ j = l
      BY <1>1, <3>2, <3>3 DEF Distinct
    <3> QED
      BY <3>3, <3>4
  <2> QED
    BY <2>1, <2>2
<1>3. ASSUME NEW x \in S PROVE \E i \in 1..Len(table) : x = table[i]
  BY <1>1 DEF Range
<1>4. StrictOrder(S, R)
  <2>1. ASSUME NEW x \in S PROVE <<x, x>> \notin R
    BY <1>2, <1>3
  <2>2. ASSUME NEW x \in S, NEW y \in S, NEW z \in S, <<x, y>> \in R, <<y, z>> \in R
        PROVE  <<x, z>> \in R
    <3>1. PICK i \in 1..Len(table), j \in 1..Len(table), k \in 1..Len(table) :
            x = table[i] /\ y = table[j] /\ z = table[k]
      BY <1>3
    <3>2. i < j /\ j < k
      BY <1>2, <2>2, <3>1
    <3>3. i < k
      BY <3>2
    <3> QED
      BY <1>2, <3>1, <3>3
  <2>3. ASSUME NEW x \in S, NEW y \in S, x # y PROVE <<x, y>> \in R \/ <<y, x>> \in R
    <3>1. PICK i \in 1..Len(table), j \in 1..Len(table) : x = table[i] /\ y = table[j]
      BY <1>3
    <3>2. i < j \/ j < i
      BY <2>3, <3>1
    <3> QED
      BY <1>2, <3>1, <3>2
  <2> QED
    BY <2>1, <2>2, <2>3 DEF StrictOrder
<1> QED
  BY <1>1, <1>2, <1>4

\* A spec is split into parts that differ, each after those it depends on.
LEMMA PartsAre ==
  ASSUME NEW mix
  PROVE  /\ Parts(mix) \in Seq(Range(ResponsibilityOrder)) /\ Distinct(Parts(mix))
         /\ Len(Parts(mix)) # 0
         /\ \A i, j \in DOMAIN Parts(mix) :
              Parts(mix)[i] \in DependsOnExtra[Parts(mix)[j]] => i < j
<1> DEFINE table == ResponsibilityOrder
           S == mix \cap Range(table)
           R == UNION {{<<table[i], table[j]>> : i \in 1..(j - 1)} : j \in DOMAIN table}
           parts == Sorted(S, R)
           default == <<"data_state", "api_contract">>
<1>1. /\ table \in Seq(Range(table)) /\ Distinct(table) /\ Len(table) = 5
      /\ Range(table) = {"data_state", "processing", "api_contract", "operations", "testing"}
  <2> DEFINE all == {"data_state", "processing", "api_contract", "operations", "testing"}
  <2>1. table \in Seq(all) /\ Len(table) = 5 /\ DOMAIN table = 1..5
    <3>1. table \in Seq(all)
      <4>1. ASSUME NEW U, NEW a \in U, NEW b \in U, NEW c \in U, NEW d \in U, NEW e \in U
            PROVE  <<a, b, c, d, e>> \in Seq(U)
        OBVIOUS
      <4>2. /\ "data_state" \in all /\ "processing" \in all /\ "api_contract" \in all
            /\ "operations" \in all /\ "testing" \in all
        OBVIOUS
      <4> HIDE DEF all
      <4> QED BY <4>1, <4>2 DEF ResponsibilityOrder
    <3>2. Len(table) = 5
      BY DEF ResponsibilityOrder
    <3> HIDE DEF table
    <3> QED BY <3>1, <3>2
  <2>2. \A i \in 1..5 : i = 1 \/ i = 2 \/ i = 3 \/ i = 4 \/ i = 5
    OBVIOUS
  <2>3. Distinct(table)
    BY <2>1, <2>2 DEF Distinct, ResponsibilityOrder
  <2>4. Range(table) = all
    BY <2>1, <2>2 DEF Range, ResponsibilityOrder
  <2> HIDE DEF table
  <2> QED BY <2>1, <2>3, <2>4
<1>2. Parts(mix) = IF Len(parts) < 2 THEN default ELSE parts
  BY DEF Parts, Listed
<1>3. IsFiniteSet(S)
  <2>1. IsFiniteSet(1..5)
    <3>1. 1 \in Int /\ 5 \in Int
      OBVIOUS
    <3> QED
      BY <3>1, FS_Interval, Zenon
  <2>2. table \in Surjection(1..5, Range(table))
    <3> HIDE DEF table
    <3>1. DOMAIN table = 1..5
      BY <1>1
    <3>2. table \in [1..5 -> Range(table)]
      BY <1>1, LenProperties
    <3> QED
      BY <3>1, <3>2 DEF Surjection, Range
  <2>3. IsFiniteSet(Range(table))
    <3> HIDE DEF table
    <3> QED BY <2>1, <2>2, FS_Surjection
  <2>4. S \in SUBSET Range(table)
    OBVIOUS
  <2> HIDE DEF S, table
  <2> QED BY <2>3, <2>4, FS_Subset
<1>4. \A r \in Range(table) : \A d \in DependsOnExtra[r] : <<d, r>> \in R
  <2>1. /\ DOMAIN table = 1..5 /\ table[1] = "data_state" /\ table[2] = "processing"
        /\ table[3] = "api_contract" /\ table[4] = "operations" /\ table[5] = "testing"
    BY DEF ResponsibilityOrder
  <2>2. \A i, j \in 1..5 : i < j => <<table[i], table[j]>> \in R
    <3> HIDE DEF R, table
    <3> QED BY <1>1, <2>1, EarlierOrder DEF R
  <2>3. /\ <<"data_state", "processing">> \in R /\ <<"data_state", "api_contract">> \in R
        /\ <<"processing", "api_contract">> \in R /\ <<"processing", "operations">> \in R
        /\ <<"api_contract", "operations">> \in R /\ <<"api_contract", "testing">> \in R
        /\ <<"processing", "testing">> \in R
    <3> HIDE DEF R, table
    <3> QED BY <2>1, <2>2
  <2> HIDE DEF R, table
  <2>4. /\ DependsOnExtra["data_state"] = {} /\ DependsOnExtra["processing"] = {"data_state"}
        /\ DependsOnExtra["api_contract"] = {"data_state", "processing"}
        /\ DependsOnExtra["operations"] = {"processing", "api_contract"}
        /\ DependsOnExtra["testing"] = {"api_contract", "processing"}
    BY DEF DependsOnExtra
  <2>5. ASSUME NEW r \in Range(table), NEW d \in DependsOnExtra[r] PROVE <<d, r>> \in R
    <3>1. \/ r = "data_state" \/ r = "processing" \/ r = "api_contract"
          \/ r = "operations" \/ r = "testing"
      BY <1>1
    <3> QED
      BY <2>3, <2>4, <2>5, <3>1
  <2> QED
    BY <2>5
<1> HIDE DEF table
<1>5. StrictOrder(S, R)
  <2>1. S \in SUBSET Range(table)
    OBVIOUS
  <2>2. R = UNION {{<<table[i], table[j]>> : i \in 1..(j - 1)} : j \in DOMAIN table}
    OBVIOUS
  <2> HIDE DEF S, R
  <2> QED BY <1>1, <2>1, <2>2, EarlierOrder
<1>6. CASE Len(parts) < 2
  <2>1. Parts(mix) = default
    BY <1>2, <1>6
  <2>2. default \in Seq(Range(table)) /\ Len(default) # 0 /\ DOMAIN default = 1..2
    BY <1>1
  <2>3. \A i \in 1..2 : i = 1 \/ i = 2
    OBVIOUS
  <2>4. Distinct(default)
    BY <2>2, <2>3 DEF Distinct
  <2>5. \A i, j \in 1..2 : default[i] \in DependsOnExtra[default[j]] => i < j
    BY <2>3 DEF DependsOnExtra
  <2> HIDE DEF default
  <2> QED BY <2>1, <2>2, <2>4, <2>5 DEF table
<1>7. CASE ~(Len(parts) < 2)
  <2>1. Parts(mix) = parts
    BY <1>2, <1>7
  <2> HIDE DEF S, R
  <2>2. /\ parts \in Seq(S) /\ Distinct(parts)
        /\ \A i, j \in DOMAIN parts : i < j => <<parts[i], parts[j]>> \in R
    BY <1>3, <1>5, SortedIs
  <2>3. parts \in Seq(Range(table))
    BY <2>2 DEF S
  <2> HIDE DEF parts
  <2>4. Len(parts) # 0 /\ DOMAIN parts = 1..Len(parts) /\ Len(parts) \in Nat
    BY <1>7, <2>3
  <2>5. ASSUME NEW i \in 1..Len(parts), NEW j \in 1..Len(parts),
               parts[i] \in DependsOnExtra[parts[j]], ~(i < j)
        PROVE  FALSE
    <3>1. parts[i] \in S /\ parts[j] \in S /\ parts[j] \in Range(table)
      BY <2>2, <2>3
    <3>2. <<parts[i], parts[j]>> \in R
      BY <1>4, <2>5, <3>1
    <3>3. i = j \/ j < i
      BY <2>4, <2>5
    <3>4. <<parts[j], parts[i]>> \in R \/ parts[i] = parts[j]
      BY <2>2, <2>4, <3>3
    <3> QED
      BY <1>5, <3>1, <3>2, <3>4 DEF StrictOrder
  <2> QED
    BY <2>1, <2>2, <2>3, <2>4, <2>5 DEF table
<1> QED
  BY <1>6, <1>7

\* There is a first free number.
LEMMA FirstFreeIs ==
  ASSUME NEW used \in SUBSET Nat, IsFiniteSet(used)
  PROVE  FirstFree(used) \in Nat
<1> DEFINE c == Cardinality(used)
           free == (1..(c + 1)) \ used
<1>1. c \in Nat
  BY FS_CardinalityType
<1>2. free # {}
  <2> SUFFICES ASSUME (1..(c + 1)) \subseteq used PROVE FALSE
    OBVIOUS
  <2>1. Cardinality(1..(c + 1)) <= c
    <3> HIDE DEF c
    <3> QED BY FS_Subset DEF c
  <2>2. Cardinality(1..(c + 1)) = c + 1
    <3> HIDE DEF c
    <3>1. 1 \in Int /\ c + 1 \in Int /\ (c + 1) - 1 + 1 = c + 1 /\ 1 <= c + 1
      BY <1>1
    <3> QED BY <3>1, FS_Interval
  <2> QED
    BY <1>1, <2>1, <2>2
<1>3. free \in SUBSET Nat
  BY <1>1
<1>4. Min(free) \in free /\ \A k \in free : Min(free) =< k
  <2> HIDE DEF free
  <2> QED BY <1>2, <1>3, MinIs
<1>5. \A m \in 1..(Min(free) - 1) : m \in used
  <2> SUFFICES ASSUME NEW m \in 1..(Min(free) - 1), m \notin used PROVE FALSE
    OBVIOUS
  <2> DEFINE least == Min(free)
  <2>1. least \in free /\ \A k \in free : least =< k
    BY <1>4
  <2> HIDE DEF least, c
  <2>2. m \in 1..(least - 1)
    BY DEF least
  <2>3. m \in free /\ m < least
    BY <1>1, <2>1, <2>2
  <2> QED
    BY <2>1, <2>3
<1>6. \E n \in 1..(c + 1) : n \notin used /\ \A m \in 1..(n - 1) : m \in used
  <2> DEFINE least == Min(free)
  <2>1. least \in 1..(c + 1) /\ least \notin used
    <3> HIDE DEF least
    <3> QED BY <1>4 DEF least
  <2> HIDE DEF least, c
  <2> QED BY <1>5, <2>1 DEF least
<1>7. FirstFree(used) \in 1..(c + 1)
  BY <1>6 DEF FirstFree
<1> QED
  BY <1>1, <1>7

\* The sections that are candidates have specs, finitely many, and the others none.
LEMMA SpecsOfIs ==
  ASSUME NEW h \in Hlds
  PROVE  /\ DOMAIN h = 1..Len(h) /\ Len(h) \in Nat /\ DOMAIN SpecsOf(h) = 1..Len(h)
         /\ \A s \in 1..Len(h) : SpecsOf(h)[s] \in SUBSET Nat
         /\ \A s \in 1..Len(h) : SpecsOf(h)[s] # {} <=> s \in Candidates(h)
         /\ IsFiniteSet(UNION Range(SpecsOf(h)))
<1> DEFINE n == Len(h)
           Used(f, s) == UNION {f[r] : r \in 1..(s - 1)}
           Entry(f, s) == IF h[s].specs # {} \/ s \notin Candidates(h) THEN h[s].specs
                          ELSE IF s \notin Used(f, s) THEN {s} ELSE {FirstFree(Used(f, s))}
           Is(f, m) == f = [s \in 1..m |-> Entry(f, s)]
           Defined == {m \in 0..n : \E f : Is(f, m)}
<1>1. /\ n \in Nat /\ DOMAIN h = 1..n
      /\ \A s \in 1..n : h[s].specs \in SUBSET Nat /\ IsFiniteSet(h[s].specs)
  <2>1. h \in Seq(Range(h)) /\ \A s \in DOMAIN h : h[s].specs \subseteq Nat /\ IsFiniteSet(h[s].specs)
    BY HldsAssumption
  <2>2. n \in Nat /\ DOMAIN h = 1..n
    BY <2>1
  <2> QED
    BY <2>1, <2>2
<1> HIDE DEF n
<1>2. 0 \in Defined
  <2> DEFINE f == [s \in 1..0 |-> {}]
  <2>1. Is(f, 0)
    OBVIOUS
  <2> HIDE DEF f, Is
  <2> QED BY <1>1, <2>1
<1>3. ASSUME NEW m \in Defined, m < n PROVE m + 1 \in Defined
  <2>1. PICK f : Is(f, m)
    OBVIOUS
  <2> DEFINE g == [s \in 1..(m + 1) |-> IF s = m + 1 THEN Entry(f, m + 1) ELSE f[s]]
  <2>2. m \in Nat /\ m + 1 \in 0..n
    BY <1>1, <1>3
  <2>3. ASSUME NEW s \in 1..(m + 1) PROVE Used(g, s) = Used(f, s)
    <3>1. \A r \in 1..(s - 1) : r \in 1..(m + 1) /\ r # m + 1
      BY <2>2
    <3>2. \A r \in 1..(s - 1) : g[r] = f[r]
      BY <3>1
    <3> HIDE DEF g
    <3> QED BY <3>2
  <2>4. ASSUME NEW s \in 1..(m + 1) PROVE g[s] = Entry(g, s)
    <3>1. Entry(g, s) = Entry(f, s)
      <4> HIDE DEF Used, g
      <4> QED BY <2>3
    <3>2. CASE s = m + 1
      <4> HIDE DEF Entry
      <4> QED BY <3>1, <3>2
    <3>3. CASE s # m + 1
      <4>1. s \in 1..m /\ g[s] = f[s]
        BY <2>2, <3>3
      <4> HIDE DEF g, Entry
      <4>2. f[s] = Entry(f, s)
        BY <2>1, <4>1
      <4> QED
        BY <3>1, <4>1, <4>2
    <3> QED
      BY <3>2, <3>3
  <2>5. Is(g, m + 1)
    <3> DEFINE entries == [s \in 1..(m + 1) |-> Entry(g, s)]
    <3>1. \A s \in 1..(m + 1) : g[s] = entries[s]
      BY <2>4
    <3>2. g = entries
      <4> HIDE DEF Entry
      <4> QED BY <3>1
    <3> QED
      BY <3>2
  <2> HIDE DEF g, Is
  <2> QED BY <2>2, <2>5
<1>4. n \in Defined
  <2> HIDE DEF Defined
  <2>1. Defined \in SUBSET (0..n)
    BY DEF Defined
  <2>2. Defined = 0..n
    BY <1>1, <1>2, <1>3, <2>1, CountUp
  <2> QED
    BY <1>1, <2>2
<1> DEFINE of == CHOOSE f : Is(f, n)
<1>5. Is(of, n)
  <2>1. \E f : Is(f, n)
    BY <1>4
  <2> HIDE DEF Is
  <2> QED BY <2>1
<1>6. SpecsOf(h) = of
  BY DEF SpecsOf, n
<1> HIDE DEF of
<1>7. DOMAIN of = 1..n /\ \A s \in 1..n : of[s] = Entry(of, s)
  BY <1>5
<1> DEFINE Good(m) == /\ \A s \in 1..m : of[s] \in SUBSET Nat
                      /\ \A s \in 1..m : of[s] # {} <=> s \in Candidates(h)
                      /\ IsFiniteSet(UNION {of[r] : r \in 1..m})
           Goods == {m \in 0..n : Good(m)}
<1>8. 0 \in Goods
  <2>1. 1..0 = {} /\ 0 \in 0..n
    BY <1>1
  <2>2. UNION {of[r] : r \in 1..0} = {}
    BY <2>1
  <2> QED
    BY <2>1, <2>2, FS_EmptySet
<1>9. ASSUME NEW m \in Goods, m < n PROVE m + 1 \in Goods
  <2>1. m \in Nat /\ m + 1 \in 1..n /\ m + 1 \in 0..n /\ (m + 1) - 1 = m
    BY <1>1, <1>9
  <2>2. Used(of, m + 1) \in SUBSET Nat /\ IsFiniteSet(Used(of, m + 1))
    BY <2>1
  <2>3. of[m + 1] = Entry(of, m + 1)
    BY <1>7, <2>1
  <2>4. /\ of[m + 1] \in SUBSET Nat /\ IsFiniteSet(of[m + 1])
        /\ of[m + 1] # {} <=> m + 1 \in Candidates(h)
    <3>1. FirstFree(Used(of, m + 1)) \in Nat
      <4> HIDE DEF Used
      <4> QED BY <2>2, FirstFreeIs
    <3>2. IsFiniteSet({m + 1}) /\ IsFiniteSet({FirstFree(Used(of, m + 1))})
      BY FS_Singleton
    <3> DEFINE free == {FirstFree(Used(of, m + 1))}
    <3>3. free \in SUBSET Nat /\ free # {} /\ IsFiniteSet(free)
      BY <3>1, <3>2
    <3>4. {m + 1} \in SUBSET Nat /\ {m + 1} # {}
      BY <2>1
    <3>5. h[m + 1].specs # {} => m + 1 \in Candidates(h)
      BY <1>1, <2>1 DEF Candidates, Candidate
    <3>6. \/ of[m + 1] = h[m + 1].specs /\ (h[m + 1].specs # {} <=> m + 1 \in Candidates(h))
          \/ m + 1 \in Candidates(h) /\ of[m + 1] \in {{m + 1}, free}
      <4> HIDE DEF Used, FirstFree
      <4> QED BY <2>3, <3>5
    <3> HIDE DEF free
    <3> QED BY <1>1, <2>1, <3>2, <3>3, <3>4, <3>6
  <2>5. UNION {of[r] : r \in 1..(m + 1)} = Used(of, m + 1) \cup of[m + 1]
    <3>1. 1..(m + 1) = (1..m) \cup {m + 1}
      BY <2>1
    <3> QED
      BY <2>1, <3>1
  <2>6. IsFiniteSet(UNION {of[r] : r \in 1..(m + 1)})
    <3> HIDE DEF Used
    <3> QED BY <2>2, <2>4, <2>5, FS_Union
  <2>7. \A s \in 1..(m + 1) : s \in 1..m \/ s = m + 1
    BY <2>1
  <2> QED
    BY <2>1, <2>4, <2>6, <2>7
<1>10. Good(n)
  <2>1. n \in Goods
    <3> HIDE DEF Good
    <3>1. Goods \in SUBSET (0..n)
      OBVIOUS
    <3> HIDE DEF Goods
    <3>2. Goods = 0..n
      BY <1>1, <1>8, <1>9, <3>1, CountUp
    <3> QED
      BY <1>1, <3>2
  <2> QED
    BY <2>1
<1>11. UNION Range(of) = UNION {of[r] : r \in 1..n}
  BY <1>7 DEF Range
<1> QED
  BY <1>1, <1>6, <1>7, <1>10, <1>11 DEF n

\* Of a planned spec.
Fields == {"src", "layer", "theme", "mix", "flags", "high", "deps"}

\* The order of a plan lists every spec once, a spec that was split leaves its place to its
\* children, and the sections in a spec are the candidates.
PlanOK(h, plan) ==
  /\ plan.order \in Seq(Nat \X Kinds) /\ Range(plan.order) = DOMAIN plan.specs
  /\ Distinct(plan.order)
  /\ \A id \in DOMAIN plan.specs :
       /\ DOMAIN plan.specs[id] = Fields
       /\ id[2] # "whole" => plan.specs[id].flags = {} /\ <<id[1], "whole">> \notin DOMAIN plan.specs
  /\ UNION {plan.specs[id].src : id \in DOMAIN plan.specs} = Candidates(h)

\* The plan of an HLD.
LEMMA PlanOfIs ==
  ASSUME NEW h \in Hlds
  PROVE  PlanOK(h, PlanOf(h))
<1> DEFINE of == SpecsOf(h)
           Src(n) == {s \in DOMAIN h : n \in of[s]}
           nums == UNION Range(of)
           lead(n) == CHOOSE s \in Src(n) : \A t \in Src(n) : s <= t
           spec(n) ==
             LET src == Src(n)
                 first == CHOOSE s \in src : \A t \in src : s <= t
             IN [src |-> src, layer |-> h[first].role, theme |-> Theme[h[first].role],
                 mix |-> Mix(h, src), flags |-> Flags(h, src), high |-> HighFlags(h, src) # {},
                 deps |-> {<<m, "whole">> : m \in UNION {of[r] : r \in UNION {RefTargets(h[s]) : s \in src}}}
                          \ {<<n, "whole">>}]
           ids == {<<n, "whole">> : n \in nums}
           specs == [id \in ids |-> spec(id[1])]
           Before(a, b) == LET la == Layer[specs[a].layer]  lb == Layer[specs[b].layer]
                           IN la < lb \/ (la = lb /\ a[1] < b[1])
           R == {p \in ids \X ids : Before(p[1], p[2])}
           order == Sorted(ids, R)
<1>1. PlanOf(h).specs = specs /\ PlanOf(h).order = order
  BY DEF PlanOf
<1>2. /\ DOMAIN h = 1..Len(h) /\ DOMAIN of = 1..Len(h)
      /\ \A s \in 1..Len(h) : of[s] \in SUBSET Nat
      /\ \A s \in 1..Len(h) : of[s] # {} <=> s \in Candidates(h)
      /\ IsFiniteSet(nums) /\ Len(h) \in Nat
      /\ \A s \in 1..Len(h) : h[s].role \in DOMAIN Layer
  BY SpecsOfIs, HldsAssumption
<1>3. ASSUME NEW n \in nums
      PROVE  Src(n) # {} /\ lead(n) \in DOMAIN h /\ n \in Nat
  <2>1. PICK r \in 1..Len(h) : n \in of[r]
    BY <1>2 DEF Range
  <2>2. Src(n) # {} /\ Src(n) \in SUBSET DOMAIN h /\ Src(n) \in SUBSET Nat
    BY <1>2, <2>1
  <2>3. \E s \in Src(n) : \A t \in Src(n) : s <= t
    <3> HIDE DEF Src
    <3> QED BY <2>2, MinIs
  <2> HIDE DEF Src
  <2>4. lead(n) \in Src(n)
    BY <2>3
  <2>5. n \in Nat
    BY <1>2, <2>1
  <2> HIDE DEF lead
  <2> QED BY <2>2, <2>4, <2>5
<1>4. ASSUME NEW n \in nums
      PROVE  DOMAIN spec(n) = Fields /\ spec(n).src = Src(n) /\ spec(n).layer = h[lead(n)].role
  BY DEF Fields
<1> HIDE DEF spec
<1>5. ASSUME NEW id \in ids PROVE id[1] \in nums /\ id = <<id[1], "whole">> /\ specs[id] = spec(id[1])
  OBVIOUS
<1>6. \A r \in DOMAIN Layer : Layer[r] \in Int
  BY DEF Layer
<1>7. ASSUME NEW id \in ids PROVE Layer[specs[id].layer] \in Int /\ id[1] \in Nat
  <2>1. specs[id].layer = h[lead(id[1])].role /\ lead(id[1]) \in DOMAIN h /\ id[1] \in Nat
    <3> HIDE DEF lead, specs, nums
    <3> QED BY <1>3, <1>4, <1>5
  <2> HIDE DEF lead, specs
  <2> QED BY <1>2, <1>6, <2>1
<1> DEFINE level == [id \in ids |-> Layer[specs[id].layer]]
<1>8. \A a, b \in ids : <<a, b>> \in R <=>
                         (level[a] < level[b] \/ (level[a] = level[b] /\ a[1] < b[1]))
  <2> HIDE DEF specs
  <2> QED OBVIOUS
<1>9. \A id \in ids : level[id] \in Int /\ id[1] \in Nat
  BY <1>7
<1>10. \A a, b \in ids : a[1] = b[1] => a = b
  OBVIOUS
<1> HIDE DEF level, R
<1>11. StrictOrder(ids, R)
  <2>1. \A x \in ids : <<x, x>> \notin R
    <3> HIDE DEF ids
    <3> QED BY <1>8, <1>9
  <2>2. \A x, y, z \in ids : <<x, y>> \in R /\ <<y, z>> \in R => <<x, z>> \in R
    <3> HIDE DEF ids
    <3> QED BY <1>8, <1>9
  <2>3. \A x, y \in ids : x # y => <<x, y>> \in R \/ <<y, x>> \in R
    <3> HIDE DEF ids
    <3> QED BY <1>8, <1>9, <1>10
  <2> HIDE DEF ids
  <2> QED BY <2>1, <2>2, <2>3 DEF StrictOrder
<1>12. IsFiniteSet(ids)
  <2>1. ids = nums \X {"whole"}
    OBVIOUS
  <2> HIDE DEF nums
  <2>2. IsFiniteSet({"whole"})
    BY FS_Singleton
  <2>3. IsFiniteSet(nums \X {"whole"})
    BY <1>2, <2>2, FS_Product
  <2> HIDE DEF ids
  <2> QED BY <2>1, <2>3
<1>13. /\ order \in Seq(ids) /\ Distinct(order)
       /\ \A x \in ids : \E i \in DOMAIN order : order[i] = x
  <2> HIDE DEF ids
  <2> QED BY <1>11, <1>12, SortedIs
<1>14. ids \in SUBSET (Nat \X Kinds)
  <2>1. "whole" \in Kinds
    BY DEF Kinds
  <2> QED
    BY <1>3, <2>1
<1> HIDE DEF order
<1>15. order \in Seq(Nat \X Kinds) /\ Range(order) = ids
  <2> HIDE DEF ids
  <2> QED BY <1>13, <1>14 DEF Range
<1>16. ASSUME NEW id \in ids PROVE DOMAIN specs[id] = Fields /\ specs[id].src = Src(id[1])
  <2> HIDE DEF specs, Src, nums
  <2> QED BY <1>4, <1>5
<1>17. DOMAIN specs = ids
  OBVIOUS
<1>18. \A id \in ids : id[2] = "whole"
  OBVIOUS
<1>19. UNION {specs[id].src : id \in ids} = Candidates(h)
  <2>1. ASSUME NEW s \in Candidates(h) PROVE \E id \in ids : s \in specs[id].src
    <3>1. s \in DOMAIN h
      BY DEF Candidates
    <3>2. PICK n \in of[s] : TRUE
      BY <1>2, <3>1
    <3>3. n \in nums /\ <<n, "whole">> \in ids
      BY <1>2, <3>1 DEF Range
    <3>4. s \in Src(n)
      BY <3>1
    <3> HIDE DEF specs, Src, ids
    <3> QED BY <1>16, <3>3, <3>4
  <2>2. ASSUME NEW id \in ids PROVE specs[id].src \in SUBSET Candidates(h)
    <3>1. specs[id].src = Src(id[1])
      BY <1>16
    <3> HIDE DEF specs
    <3> QED BY <1>2, <3>1
  <2> HIDE DEF specs, ids
  <2> QED BY <2>1, <2>2
<1> HIDE DEF specs, ids
<1> QED
  BY <1>1, <1>13, <1>15, <1>16, <1>17, <1>18, <1>19 DEF PlanOK

\* No part is the whole.
LEMMA PartsKinds ==
  /\ "whole" \in Kinds /\ "whole" \notin Range(ResponsibilityOrder)
  /\ Range(ResponsibilityOrder) \subseteq Kinds
<1>1. DOMAIN ResponsibilityOrder = 1..5
  BY DEF ResponsibilityOrder
<1>2. \A i \in 1..5 : ResponsibilityOrder[i] # "whole"
  <2>1. \A i \in 1..5 : i = 1 \/ i = 2 \/ i = 3 \/ i = 4 \/ i = 5
    OBVIOUS
  <2> QED
    BY <2>1 DEF ResponsibilityOrder
<1> QED
  BY <1>1, <1>2 DEF Kinds, Range

\* The ids that people may have asked to split.
Wholes(ids) == \A id \in ids : id[2] = "whole"

\* What takes the place of a spec: the spec, or its children, which were not there before.
LEMMA BecomesIs ==
  ASSUME NEW h, NEW plan, PlanOK(h, plan), NEW ids, Wholes(ids), NEW id \in DOMAIN plan.specs
  PROVE  LET block == Becomes(plan, ids, id) IN
         /\ id \in Nat \X Kinds
         /\ block \in Seq(Nat \X Kinds) /\ Len(block) # 0 /\ Distinct(block)
         /\ \A k \in DOMAIN block : block[k][1] = id[1]
         /\ id \in ids => /\ block = Children(id, plan.specs[id])
                          /\ id = <<id[1], "whole">>
                          /\ \A k \in DOMAIN block : /\ block[k] \notin DOMAIN plan.specs
                                                     /\ block[k][2] # "whole"
         /\ id \notin ids => block = <<id>>
<1> DEFINE parts == Parts(plan.specs[id].mix)
           kids == Children(id, plan.specs[id])
<1>1. id \in Nat \X Kinds
  BY LenProperties DEF PlanOK, Range
<1>2. /\ parts \in Seq(Range(ResponsibilityOrder)) /\ Distinct(parts) /\ Len(parts) # 0
  BY PartsAre
<1>3. DOMAIN parts = 1..Len(parts) /\ Len(parts) \in Nat
  <2> HIDE DEF parts
  <2> QED BY <1>2, LenProperties
<1>4. kids = [k \in 1..Len(parts) |-> <<id[1], parts[k]>>]
  BY <1>3 DEF Children
<1> HIDE DEF parts, kids
<1>5. \A k \in 1..Len(parts) : parts[k] \in Kinds /\ parts[k] # "whole"
  BY <1>2, PartsKinds
<1>6. kids \in Seq(Nat \X Kinds) /\ Len(kids) = Len(parts) /\ DOMAIN kids = 1..Len(parts)
  <2>1. kids \in [1..Len(parts) -> Nat \X Kinds]
    BY <1>1, <1>4, <1>5
  <2> QED
    BY <1>3, <2>1
<1>7. CASE id \in ids
  <2>1. Becomes(plan, ids, id) = kids
    BY <1>7 DEF Becomes, kids
  <2>2. id = <<id[1], "whole">>
    BY <1>1, <1>7 DEF Wholes
  <2>3. Distinct(kids)
    BY <1>2, <1>3, <1>4, <1>6 DEF Distinct
  <2>4. \A k \in 1..Len(parts) : kids[k][1] = id[1] /\ kids[k][2] # "whole"
    BY <1>4, <1>5
  <2>5. ASSUME NEW k \in 1..Len(parts), kids[k] \in DOMAIN plan.specs PROVE FALSE
    <3>1. <<kids[k][1], "whole">> \notin DOMAIN plan.specs
      BY <2>4, <2>5 DEF PlanOK
    <3> QED
      BY <2>2, <2>4, <3>1
  <2> QED
    BY <1>1, <1>2, <1>6, <1>7, <2>1, <2>2, <2>3, <2>4, <2>5 DEF kids
<1>8. CASE id \notin ids
  <2>1. Becomes(plan, ids, id) = <<id>>
    BY <1>8 DEF Becomes
  <2>2. <<id>> \in Seq(Nat \X Kinds) /\ Len(<<id>>) # 0 /\ Distinct(<<id>>)
    BY <1>1 DEF Distinct
  <2> QED
    BY <1>1, <1>8, <2>1, <2>2
<1> QED
  BY <1>7, <1>8

\* What takes the places of two specs differs.
LEMMA BlocksApart ==
  ASSUME NEW h, NEW plan, PlanOK(h, plan), NEW ids, Wholes(ids),
         NEW a \in DOMAIN plan.specs, NEW b \in DOMAIN plan.specs,
         NEW i \in DOMAIN Becomes(plan, ids, a), NEW j \in DOMAIN Becomes(plan, ids, b),
         Becomes(plan, ids, a)[i] = Becomes(plan, ids, b)[j]
  PROVE  a = b /\ i = j
<1> DEFINE one == Becomes(plan, ids, a)
           two == Becomes(plan, ids, b)
<1>1. /\ Distinct(one) /\ one[i][1] = a[1]
      /\ a \in ids => a = <<a[1], "whole">> /\ one[i] \notin DOMAIN plan.specs
      /\ a \notin ids => one = <<a>>
  BY BecomesIs
<1>2. /\ Distinct(two) /\ two[j][1] = b[1]
      /\ b \in ids => b = <<b[1], "whole">> /\ two[j] \notin DOMAIN plan.specs
      /\ b \notin ids => two = <<b>>
  BY BecomesIs
<1>3. one[i] = two[j] /\ i \in DOMAIN one /\ j \in DOMAIN two
  OBVIOUS
<1> HIDE DEF one, two
<1>4. a \notin ids => one[i] = a
  BY <1>1, <1>3
<1>5. b \notin ids => two[j] = b
  BY <1>2, <1>3
<1>6. a = b
  BY <1>1, <1>2, <1>3, <1>4, <1>5
<1>7. one = two
  BY <1>6 DEF one, two
<1> QED
  BY <1>1, <1>3, <1>6, <1>7 DEF Distinct

\* After a split, what takes a spec's place is where the spec was among the others.
LEMMA SplitPlaces ==
  ASSUME NEW h, NEW plan, PlanOK(h, plan), NEW ids, Wholes(ids),
         NEW block, block = [i \in DOMAIN plan.order |-> Becomes(plan, ids, plan.order[i])],
         NEW new, new = Split(plan, ids).order
  PROVE  /\ new \in Seq(Nat \X Kinds) /\ Distinct(new)
         /\ \E off \in [1..Len(block) -> Nat] : Laid(block, new, off)
<1>1. /\ plan.order \in Seq(Nat \X Kinds) /\ Distinct(plan.order)
      /\ \A i \in DOMAIN plan.order : plan.order[i] \in DOMAIN plan.specs
  BY DEF PlanOK, Range
<1>2. DOMAIN plan.order = 1..Len(plan.order) /\ Len(plan.order) \in Nat
  BY <1>1, LenProperties
<1>3. \A i \in 1..Len(plan.order) : block[i] \in Seq(Nat \X Kinds)
  BY <1>1, <1>2, BecomesIs
<1>4. block \in Seq(Seq(Nat \X Kinds)) /\ Len(block) = Len(plan.order)
  <2>1. block \in [1..Len(plan.order) -> Seq(Nat \X Kinds)]
    BY <1>2, <1>3
  <2> QED
    BY <1>2, <2>1
<1>5. new = FlattenSeq(block)
  BY DEF Split
<1>6. new \in Seq(Nat \X Kinds) /\ \E off \in [1..Len(block) -> Nat] : Laid(block, new, off)
  BY <1>4, <1>5, FlattenIs
<1>7. PICK off \in [1..Len(block) -> Nat] : Laid(block, new, off)
  BY <1>6
<1>8. DOMAIN new = 1..Len(new)
  BY <1>6, LenProperties
<1>9. ASSUME NEW p \in 1..Len(new), NEW q \in 1..Len(new), new[p] = new[q] PROVE p = q
  <2>1. PICK i \in 1..Len(block) : \E k \in 1..Len(block[i]) : p = off[i] + k
    BY <1>7 DEF Laid
  <2>2. PICK k \in 1..Len(block[i]) : p = off[i] + k
    BY <2>1
  <2>3. PICK j \in 1..Len(block) : \E l \in 1..Len(block[j]) : q = off[j] + l
    BY <1>7 DEF Laid
  <2>4. PICK l \in 1..Len(block[j]) : q = off[j] + l
    BY <2>3
  <2>5. k \in Nat /\ l \in Nat
    OBVIOUS
  <2>6. block[i][k] = block[j][l]
    BY <1>7, <1>9, <2>2, <2>4, <2>5 DEF Laid
  <2>7. /\ i \in DOMAIN plan.order /\ j \in DOMAIN plan.order
        /\ block[i] = Becomes(plan, ids, plan.order[i])
        /\ block[j] = Becomes(plan, ids, plan.order[j])
        /\ k \in DOMAIN block[i] /\ l \in DOMAIN block[j]
    <3>1. i \in DOMAIN plan.order /\ j \in DOMAIN plan.order
      BY <1>2, <1>4
    <3>2. DOMAIN block[i] = 1..Len(block[i]) /\ DOMAIN block[j] = 1..Len(block[j])
      BY <1>2, <1>3, <3>1, LenProperties
    <3> QED
      BY <3>1, <3>2
  <2>8. plan.order[i] = plan.order[j] /\ k = l
    <3> DEFINE a == plan.order[i]
               b == plan.order[j]
    <3>1. /\ a \in DOMAIN plan.specs /\ b \in DOMAIN plan.specs
          /\ k \in DOMAIN Becomes(plan, ids, a) /\ l \in DOMAIN Becomes(plan, ids, b)
          /\ Becomes(plan, ids, a)[k] = Becomes(plan, ids, b)[l]
      BY <1>1, <2>6, <2>7
    <3> HIDE DEF a, b
    <3>2. a = b /\ k = l
      BY <3>1, BlocksApart
    <3> QED
      BY <3>2 DEF a, b
  <2>9. i = j
    BY <1>1, <2>7, <2>8 DEF Distinct
  <2> QED
    BY <2>2, <2>4, <2>8, <2>9
<1> QED
  BY <1>6, <1>8, <1>9 DEF Distinct

\* The ids after a split are those that take the places of the ids before.
LEMMA SplitMembers ==
  ASSUME NEW h, NEW plan, PlanOK(h, plan), NEW ids, Wholes(ids)
  PROVE  \A id : id \in Range(Split(plan, ids).order) <=>
                   \E old \in DOMAIN plan.specs : id \in Range(Becomes(plan, ids, old))
<1> DEFINE block == [i \in DOMAIN plan.order |-> Becomes(plan, ids, plan.order[i])]
           new == Split(plan, ids).order
<1>1. DOMAIN block = DOMAIN plan.order
  OBVIOUS
<1>2. \A i \in DOMAIN plan.order : block[i] = Becomes(plan, ids, plan.order[i])
  OBVIOUS
<1>3. new \in Seq(Nat \X Kinds) /\ \E off \in [1..Len(block) -> Nat] : Laid(block, new, off)
  BY SplitPlaces
<1> HIDE DEF block, new
<1>4. PICK off \in [1..Len(block) -> Nat] : Laid(block, new, off)
  BY <1>3
<1>5. /\ plan.order \in Seq(Nat \X Kinds)
      /\ DOMAIN plan.specs = {plan.order[i] : i \in DOMAIN plan.order}
      /\ DOMAIN plan.order = 1..Len(plan.order) /\ Len(plan.order) \in Nat
  BY LenProperties DEF PlanOK, Range
<1>6. ASSUME NEW i \in DOMAIN plan.order
      PROVE  block[i] \in Seq(Nat \X Kinds) /\ DOMAIN block[i] = 1..Len(block[i])
  <2>1. block[i] \in Seq(Nat \X Kinds)
    BY <1>2, <1>5, BecomesIs
  <2> QED
    BY <2>1, LenProperties
<1>7. Len(block) = Len(plan.order)
  <2>1. block \in [1..Len(plan.order) -> Seq(Nat \X Kinds)]
    BY <1>1, <1>5, <1>6 DEF block
  <2> QED
    BY <1>5, <2>1
<1>8. DOMAIN new = 1..Len(new)
  BY <1>3, LenProperties
<1>9. ASSUME NEW id, id \in Range(new)
      PROVE  \E old \in DOMAIN plan.specs : id \in Range(Becomes(plan, ids, old))
  <2>1. PICK p \in 1..Len(new) : id = new[p]
    BY <1>8, <1>9 DEF Range
  <2>2. PICK i \in 1..Len(block) : \E k \in 1..Len(block[i]) : p = off[i] + k
    BY <1>4 DEF Laid
  <2>3. PICK k \in 1..Len(block[i]) : p = off[i] + k
    BY <2>2
  <2>4. id = block[i][k]
    BY <1>4, <2>1, <2>3 DEF Laid
  <2>5. i \in DOMAIN plan.order /\ k \in DOMAIN block[i]
    BY <1>5, <1>6, <1>7
  <2> QED
    BY <1>2, <1>5, <2>4, <2>5 DEF Range
<1>10. ASSUME NEW id, NEW old \in DOMAIN plan.specs, id \in Range(Becomes(plan, ids, old))
       PROVE  id \in Range(new)
  <2>1. PICK i \in DOMAIN plan.order : old = plan.order[i]
    BY <1>5
  <2>2. PICK k \in DOMAIN block[i] : id = block[i][k]
    BY <1>2, <1>10, <2>1 DEF Range
  <2>3. i \in 1..Len(block) /\ k \in 1..Len(block[i]) /\ k \in Nat
    BY <1>5, <1>6, <1>7, <2>1
  <2>4. off[i] + k \in 1..Len(new) /\ new[off[i] + k] = id
    BY <1>4, <2>2, <2>3 DEF Laid
  <2> QED
    BY <1>8, <2>4 DEF Range
<1> QED
  BY <1>9, <1>10 DEF new

\* After a split a spec is as it was, but for what it depends on, or a child.
LEMMA SplitSpecs ==
  ASSUME NEW h, NEW plan, PlanOK(h, plan), NEW ids, Wholes(ids),
         NEW old \in DOMAIN plan.specs, NEW id, id \in Range(Becomes(plan, ids, old))
  PROVE  /\ old \notin ids => id = old /\ Planned(plan, ids, id) = plan.specs[id]
         /\ old \in ids =>
              /\ id \notin DOMAIN plan.specs /\ id[2] # "whole" /\ old = <<id[1], "whole">>
              /\ DOMAIN Planned(plan, ids, id) = DOMAIN plan.specs[old]
              /\ Planned(plan, ids, id).src = plan.specs[old].src
              /\ Planned(plan, ids, id).flags = {}
              /\ Planned(plan, ids, id).deps =
                   plan.specs[old].deps \cup
                   ({<<id[1], r>> : r \in DependsOnExtra[id[2]]} \cap Range(Becomes(plan, ids, old)))
<1> DEFINE block == Becomes(plan, ids, old)
<1>1. /\ \A k \in DOMAIN block : block[k][1] = old[1]
      /\ old \in ids => /\ old = <<old[1], "whole">>
                        /\ \A k \in DOMAIN block : /\ block[k] \notin DOMAIN plan.specs
                                                   /\ block[k][2] # "whole"
      /\ old \notin ids => block = <<old>>
  BY BecomesIs
<1>2. PICK k \in DOMAIN block : id = block[k]
  BY DEF Range
<1>3. DOMAIN plan.specs[old] = Fields
  BY DEF PlanOK
<1> HIDE DEF block
<1>4. CASE old \notin ids
  <2>1. id = old
    BY <1>1, <1>2, <1>4
  <2>2. Planned(plan, ids, id) = plan.specs[id]
    BY <2>1 DEF Planned
  <2> QED
    BY <1>4, <2>1, <2>2
<1>5. CASE old \in ids
  <2>1. id \notin DOMAIN plan.specs /\ id[2] # "whole" /\ old = <<id[1], "whole">>
    BY <1>1, <1>2, <1>5
  <2> DEFINE own == {<<id[1], r>> : r \in DependsOnExtra[id[2]]} \cap Range(Becomes(plan, ids, old))
             spec == plan.specs[old]
             child == [spec EXCEPT
               !.layer = ChildLayer[id[2]], !.theme = Theme[id[2]], !.mix = {id[2]},
               !.flags = {}, !.high = FALSE, !.deps = @ \cup own]
  <2>2. Planned(plan, ids, id) = child
    BY <2>1, Zenon DEF Planned
  <2> HIDE DEF own, spec
  <2>3. /\ DOMAIN child = DOMAIN spec /\ child.src = spec.src /\ child.flags = {}
        /\ child.deps = spec.deps \cup own
    <3>1. DOMAIN spec = Fields
      BY <1>3 DEF spec
    <3>2. "flags" \in Fields /\ "deps" \in Fields /\ "src" \in Fields
      BY DEF Fields
    <3> QED
      BY <3>1, <3>2
  <2> HIDE DEF child
  <2> QED
    BY <1>5, <2>1, <2>2, <2>3 DEF own, spec
<1> QED
  BY <1>4, <1>5

\* A split plan is a plan.
LEMMA SplitKeeps ==
  ASSUME NEW h, NEW plan, PlanOK(h, plan), NEW ids, Wholes(ids)
  PROVE  PlanOK(h, Split(plan, ids))
<1> DEFINE new == Split(plan, ids)
           planned == [id \in Range(new.order) |-> Planned(plan, ids, id)]
           deps(id) == (UNION {Range(Becomes(plan, ids, d)) : d \in planned[id].deps}) \ {id}
<1>1. /\ new.order \in Seq(Nat \X Kinds) /\ Distinct(new.order)
      /\ \A id : id \in Range(new.order) <=>
                   \E old \in DOMAIN plan.specs : id \in Range(Becomes(plan, ids, old))
  BY SplitPlaces, SplitMembers
<1>2. /\ DOMAIN new.specs = Range(new.order)
      /\ \A id \in Range(new.order) : new.specs[id] = [planned[id] EXCEPT !.deps = deps(id)]
  <2>1. new.specs = [id \in Range(new.order) |-> [planned[id] EXCEPT !.deps = deps(id)]]
    BY Zenon DEF Split
  <2> HIDE DEF new, planned, deps
  <2> QED BY <2>1
<1>3. /\ \A id \in DOMAIN plan.specs :
           /\ DOMAIN plan.specs[id] = Fields
           /\ id[2] # "whole" => plan.specs[id].flags = {} /\ <<id[1], "whole">> \notin DOMAIN plan.specs
      /\ UNION {plan.specs[id].src : id \in DOMAIN plan.specs} = Candidates(h)
  BY DEF PlanOK
<1>4. \A id \in Range(new.order) : planned[id] = Planned(plan, ids, id)
  OBVIOUS
<1> HIDE DEF new, planned, deps
<1>5. ASSUME NEW old \in DOMAIN plan.specs, NEW id, id \in Range(Becomes(plan, ids, old))
      PROVE  /\ id \in Range(new.order)
             /\ old \notin ids => id = old /\ planned[id] = plan.specs[id]
             /\ old \in ids => /\ id \notin DOMAIN plan.specs /\ old = <<id[1], "whole">>
                               /\ planned[id].flags = {}
             /\ DOMAIN planned[id] = Fields /\ planned[id].src = plan.specs[old].src
  <2>1. id \in Range(new.order)
    BY <1>1, <1>5
  <2>2. /\ old \notin ids => id = old /\ Planned(plan, ids, id) = plan.specs[id]
        /\ old \in ids => /\ id \notin DOMAIN plan.specs /\ old = <<id[1], "whole">>
                          /\ DOMAIN Planned(plan, ids, id) = DOMAIN plan.specs[old]
                          /\ Planned(plan, ids, id).src = plan.specs[old].src
                          /\ Planned(plan, ids, id).flags = {}
    BY <1>5, SplitSpecs
  <2> QED
    BY <1>3, <1>4, <2>1, <2>2
<1>6. ASSUME NEW id \in Range(new.order)
      PROVE  \E old \in DOMAIN plan.specs :
               /\ id \in Range(Becomes(plan, ids, old))
               /\ DOMAIN new.specs[id] = Fields
               /\ new.specs[id].src = plan.specs[old].src
               /\ new.specs[id].flags = planned[id].flags
  <2>1. PICK old \in DOMAIN plan.specs : id \in Range(Becomes(plan, ids, old))
    BY <1>1
  <2>2. DOMAIN planned[id] = Fields /\ planned[id].src = plan.specs[old].src
    BY <1>5, <2>1
  <2>3. new.specs[id] = [planned[id] EXCEPT !.deps = deps(id)]
    BY <1>2
  <2>4. "flags" \in Fields /\ "deps" \in Fields /\ "src" \in Fields
    BY DEF Fields
  <2>5. /\ DOMAIN new.specs[id] = Fields /\ new.specs[id].src = plan.specs[old].src
        /\ new.specs[id].flags = planned[id].flags
    BY <2>2, <2>3, <2>4
  <2> QED
    BY <2>1, <2>5
<1>7. ASSUME NEW id \in DOMAIN new.specs, id[2] # "whole"
      PROVE  new.specs[id].flags = {} /\ <<id[1], "whole">> \notin DOMAIN new.specs
  <2>1. id \in Range(new.order)
    BY <1>2
  <2>2. PICK old \in DOMAIN plan.specs : id \in Range(Becomes(plan, ids, old))
    BY <1>1, <2>1
  <2>3. new.specs[id].flags = planned[id].flags
    BY <1>6, <2>1
  <2>4. new.specs[id].flags = {}
    <3>1. CASE old \in ids
      BY <1>5, <2>2, <2>3, <3>1
    <3>2. CASE old \notin ids
      <4>1. id = old /\ planned[id] = plan.specs[id]
        BY <1>5, <2>2, <3>2
      <4> QED
        BY <1>3, <1>7, <2>3, <4>1
    <3> QED
      BY <3>1, <3>2
  <2> DEFINE whole == <<id[1], "whole">>
  <2>5. ASSUME whole \in DOMAIN new.specs PROVE FALSE
    <3>1. PICK was \in DOMAIN plan.specs : whole \in Range(Becomes(plan, ids, was))
      BY <1>1, <1>2, <2>5
    <3>2. CASE was \in ids
      <4>1. whole \notin DOMAIN plan.specs /\ was = <<whole[1], "whole">>
        <5> HIDE DEF whole
        <5> QED BY <1>5, <3>1, <3>2
      <4> QED
        BY <4>1
    <3>3. CASE was \notin ids
      <4>1. whole = was
        <5> HIDE DEF whole
        <5> QED BY <1>5, <3>1, <3>3
      <4>2. CASE old \in ids
        <5>1. old = whole
          BY <1>5, <2>2, <4>2
        <5> QED
          BY <3>3, <4>1, <4>2, <5>1
      <4>3. CASE old \notin ids
        <5>1. id = old
          BY <1>5, <2>2, <4>3
        <5> QED
          BY <1>3, <1>7, <4>1, <5>1
      <4> QED
        BY <4>2, <4>3
    <3> QED
      BY <3>2, <3>3
  <2> QED
    BY <2>4, <2>5
<1>8. UNION {new.specs[id].src : id \in DOMAIN new.specs} = Candidates(h)
  <2>1. ASSUME NEW id \in DOMAIN new.specs PROVE \E old \in DOMAIN plan.specs : new.specs[id].src = plan.specs[old].src
    BY <1>2, <1>6
  <2>2. ASSUME NEW old \in DOMAIN plan.specs PROVE \E id \in DOMAIN new.specs : new.specs[id].src = plan.specs[old].src
    <3> DEFINE block == Becomes(plan, ids, old)
    <3>1. block \in Seq(Nat \X Kinds) /\ Len(block) # 0
      BY BecomesIs
    <3>2. PICK id : id \in Range(block)
      <4> HIDE DEF block
      <4>1. 1 \in DOMAIN block
        BY <3>1, LenProperties
      <4> QED
        BY <4>1 DEF Range
    <3>3. id \in Range(new.order) /\ planned[id].src = plan.specs[old].src /\ DOMAIN planned[id] = Fields
      BY <1>5, <3>2
    <3>4. new.specs[id] = [planned[id] EXCEPT !.deps = deps(id)]
      BY <1>2, <3>3
    <3>5. "src" \in Fields /\ "src" # "deps"
      BY DEF Fields
    <3>6. new.specs[id].src = plan.specs[old].src
      BY <3>3, <3>4, <3>5
    <3> QED
      BY <1>2, <3>3, <3>6
  <2>3. {new.specs[id].src : id \in DOMAIN new.specs} = {plan.specs[id].src : id \in DOMAIN plan.specs}
    BY <2>1, <2>2
  <2> QED
    BY <1>3, <2>3
<1> QED
  BY <1>1, <1>2, <1>6, <1>7, <1>8 DEF PlanOK, new

\* A spec has one place in a plan.
LEMMA PlaceIs ==
  ASSUME NEW plan, Distinct(plan.order), NEW i \in DOMAIN plan.order
  PROVE  PlaceOf(plan, plan.order[i]) = i
BY DEF PlaceOf, Distinct

\* A split keeps the specs after those they depend on.
LEMMA SplitInOrder ==
  ASSUME NEW h, NEW plan, PlanOK(h, plan), NEW ids, Wholes(ids), InOrder(plan)
  PROVE  InOrder(Split(plan, ids))
<1> DEFINE new == Split(plan, ids)
           planned == [id \in Range(new.order) |-> Planned(plan, ids, id)]
           deps(id) == (UNION {Range(Becomes(plan, ids, d)) : d \in planned[id].deps}) \ {id}
           block == [i \in DOMAIN plan.order |-> Becomes(plan, ids, plan.order[i])]
<1>1. /\ new.order \in Seq(Nat \X Kinds) /\ Distinct(new.order)
      /\ \E off \in [1..Len(block) -> Nat] : Laid(block, new.order, off)
      /\ \A id : id \in Range(new.order) <=>
                   \E old \in DOMAIN plan.specs : id \in Range(Becomes(plan, ids, old))
  BY SplitPlaces, SplitMembers
<1>2. /\ DOMAIN new.specs = Range(new.order)
      /\ \A id \in Range(new.order) : new.specs[id] = [planned[id] EXCEPT !.deps = deps(id)]
  <2>1. new.specs = [id \in Range(new.order) |-> [planned[id] EXCEPT !.deps = deps(id)]]
    BY Zenon DEF Split
  <2> HIDE DEF new, planned, deps
  <2> QED BY <2>1
<1>3. /\ plan.order \in Seq(Nat \X Kinds) /\ Distinct(plan.order)
      /\ DOMAIN plan.specs = {plan.order[i] : i \in DOMAIN plan.order}
      /\ DOMAIN plan.order = 1..Len(plan.order) /\ Len(plan.order) \in Nat
      /\ \A id \in DOMAIN plan.specs : DOMAIN plan.specs[id] = Fields
  BY LenProperties DEF PlanOK, Range
<1>4. \A i \in DOMAIN plan.order : block[i] = Becomes(plan, ids, plan.order[i])
  OBVIOUS
<1>5. \A id \in Range(new.order) : planned[id] = Planned(plan, ids, id)
  OBVIOUS
<1>6. DOMAIN block = DOMAIN plan.order
  OBVIOUS
<1> HIDE DEF new, planned, block, deps
<1>7. PICK off \in [1..Len(block) -> Nat] : Laid(block, new.order, off)
  BY <1>1
<1>8. ASSUME NEW i \in DOMAIN plan.order
      PROVE  /\ block[i] \in Seq(Nat \X Kinds) /\ DOMAIN block[i] = 1..Len(block[i])
             /\ Len(block[i]) \in Nat /\ Distinct(block[i])
             /\ \A k \in DOMAIN block[i] : block[i][k][1] = plan.order[i][1]
  <2>1. plan.order[i] \in DOMAIN plan.specs
    BY <1>3
  <2>2. /\ block[i] \in Seq(Nat \X Kinds) /\ Distinct(block[i])
        /\ \A k \in DOMAIN block[i] : block[i][k][1] = plan.order[i][1]
    BY <1>4, <2>1, BecomesIs
  <2> QED
    BY <2>2, LenProperties
<1>9. Len(block) = Len(plan.order)
  <2>1. block \in [1..Len(plan.order) -> Seq(Nat \X Kinds)]
    BY <1>3, <1>6, <1>8 DEF block
  <2> QED
    BY <1>3, <2>1
<1>10. ASSUME NEW i \in DOMAIN plan.order, NEW k \in DOMAIN block[i]
       PROVE  /\ block[i][k] \in DOMAIN new.specs
              /\ PlaceOf(new, block[i][k]) = off[i] + k
  <2>1. i \in 1..Len(block) /\ k \in 1..Len(block[i]) /\ k \in Nat
    BY <1>3, <1>8, <1>9
  <2>2. off[i] + k \in 1..Len(new.order) /\ new.order[off[i] + k] = block[i][k]
    BY <1>7, <2>1 DEF Laid
  <2>3. DOMAIN new.order = 1..Len(new.order)
    BY <1>1, LenProperties
  <2>4. PlaceOf(new, new.order[off[i] + k]) = off[i] + k
    BY <1>1, <2>2, <2>3, PlaceIs
  <2> QED
    BY <1>2, <2>2, <2>3, <2>4 DEF Range
<1>11. ASSUME NEW i \in DOMAIN plan.order, NEW k \in DOMAIN block[i],
              NEW j \in DOMAIN plan.order, NEW l \in DOMAIN block[j], i < j \/ (i = j /\ k < l)
       PROVE  PlaceOf(new, block[i][k]) < PlaceOf(new, block[j][l])
  <2>1. PlaceOf(new, block[i][k]) = off[i] + k /\ PlaceOf(new, block[j][l]) = off[j] + l
    BY <1>10
  <2>2. /\ i \in 1..Len(block) /\ k \in 1..Len(block[i]) /\ Len(block[i]) \in Nat
        /\ j \in 1..Len(block) /\ l \in 1..Len(block[j]) /\ Len(block[j]) \in Nat
    BY <1>3, <1>8, <1>9
  <2>3. i < j => off[i] + Len(block[i]) <= off[j]
    BY <1>7, <2>2 DEF Laid
  <2>4. off[i] \in Nat /\ off[j] \in Nat
    BY <2>2
  <2>5. off[i] + k < off[j] + l
    BY <1>11, <2>2, <2>3, <2>4
  <2> QED
    BY <2>1, <2>5
<1>12. ASSUME NEW d \in DOMAIN plan.specs, NEW i \in DOMAIN plan.order,
              PlaceOf(plan, d) < PlaceOf(plan, plan.order[i]),
              NEW e, e \in Range(Becomes(plan, ids, d)), NEW k \in DOMAIN block[i]
       PROVE  e \in DOMAIN new.specs /\ PlaceOf(new, e) < PlaceOf(new, block[i][k])
  <2>1. PICK j \in DOMAIN plan.order : d = plan.order[j]
    BY <1>3
  <2>2. j < i
    BY <1>3, <1>12, <2>1, PlaceIs
  <2>3. PICK l \in DOMAIN block[j] : e = block[j][l]
    BY <1>4, <1>12, <2>1 DEF Range
  <2> QED
    BY <1>10, <1>11, <2>2, <2>3
<1>13. ASSUME NEW id \in DOMAIN new.specs, NEW e \in new.specs[id].deps
       PROVE  e \in DOMAIN new.specs /\ PlaceOf(new, e) < PlaceOf(new, id)
  <2>1. PICK old \in DOMAIN plan.specs : id \in Range(Becomes(plan, ids, old))
    BY <1>1, <1>2
  <2>2. PICK i \in DOMAIN plan.order : old = plan.order[i]
    BY <1>3
  <2>3. PICK k \in DOMAIN block[i] : id = block[i][k]
    BY <1>4, <2>1, <2>2 DEF Range
  <2>4. PICK d \in planned[id].deps : e \in Range(Becomes(plan, ids, d))
    <3>1. new.specs[id] = [planned[id] EXCEPT !.deps = deps(id)] /\ planned[id] = Planned(plan, ids, id)
      BY <1>2, <1>5
    <3>2. DOMAIN planned[id] = Fields
      <4>1. /\ old \notin ids => id = old /\ Planned(plan, ids, id) = plan.specs[id]
            /\ old \in ids => DOMAIN Planned(plan, ids, id) = DOMAIN plan.specs[old]
        BY <2>1, SplitSpecs
      <4> QED
        BY <1>3, <3>1, <4>1
    <3>3. "deps" \in Fields
      BY DEF Fields
    <3>4. new.specs[id].deps = deps(id)
      BY <3>1, <3>2, <3>3
    <3> QED
      BY <3>4 DEF deps
  <2>5. planned[id] = Planned(plan, ids, id)
    BY <1>2, <1>5
  <2>6. CASE d \in plan.specs[old].deps
    <3>1. d \in DOMAIN plan.specs /\ PlaceOf(plan, d) < PlaceOf(plan, old)
      BY <2>6 DEF InOrder
    <3> QED
      BY <1>12, <2>2, <2>3, <2>4, <3>1
  <2>7. CASE d \notin plan.specs[old].deps
    <3>1. old \in ids /\ id[2] # "whole" /\ id \notin DOMAIN plan.specs
      BY <2>1, <2>4, <2>5, <2>7, SplitSpecs
    <3>2. d \in {<<id[1], r>> : r \in DependsOnExtra[id[2]]} \cap Range(Becomes(plan, ids, old))
      BY <2>1, <2>4, <2>5, <2>7, <3>1, SplitSpecs
    <3>3. PICK l \in DOMAIN block[i] : d = block[i][l]
      BY <1>4, <2>2, <3>2 DEF Range
    <3>4. block[i] = Children(old, plan.specs[old]) /\ \A n \in DOMAIN block[i] : block[i][n] \notin DOMAIN plan.specs
      BY <1>4, <2>2, <3>1, BecomesIs
    <3>5. Becomes(plan, ids, d) = <<d>>
      BY <3>3, <3>4 DEF Becomes
    <3>6. e = d
      BY <2>4, <3>5 DEF Range
    <3> DEFINE parts == Parts(plan.specs[old].mix)
    <3>7. block[i] = [n \in DOMAIN parts |-> <<old[1], parts[n]>>]
      BY <3>4 DEF Children
    <3>8. \A a, b \in DOMAIN parts : parts[a] \in DependsOnExtra[parts[b]] => a < b
      BY PartsAre
    <3> HIDE DEF parts
    <3>9. k \in DOMAIN parts /\ l \in DOMAIN parts
      BY <3>7
    <3>10. id[2] = parts[k] /\ d[2] = parts[l]
      BY <2>3, <3>3, <3>7, <3>9
    <3>11. d[2] \in DependsOnExtra[id[2]]
      BY <3>2
    <3>12. l < k
      BY <3>8, <3>9, <3>10, <3>11
    <3> QED
      BY <1>10, <1>11, <2>3, <3>3, <3>6, <3>12
  <2> QED
    BY <2>6, <2>7
<1> QED
  BY <1>13 DEF InOrder, new

-----------------------------------------------------------------------------
(***************************************************************************)
(* Bundles of the specs of a plan.                                         *)
(***************************************************************************)

\* An item goes to the last group or starts one.
LEMMA GroupedType ==
  ASSUME NEW T, NEW acc \in Seq(Seq(T)), NEW item \in T, acc # <<>>
  PROVE  /\ Append(acc, <<item>>) \in Seq(Seq(T))
         /\ Append(Front(acc), Append(Last(acc), item)) \in Seq(Seq(T))
<1>1. Len(acc) \in Nat /\ Len(acc) # 0 /\ DOMAIN acc = 1..Len(acc)
  BY EmptySeq, LenProperties
<1>2. acc[Len(acc)] \in Seq(T)
  <2>1. Len(acc) \in DOMAIN acc
    BY <1>1
  <2> QED
    BY <2>1, ElementOfSeq
<1>3. Front(acc) \in Seq(Seq(T))
  <2> DEFINE U == Seq(T)
  <2>1. acc \in Seq(U)
    OBVIOUS
  <2> HIDE DEF U
  <2>2. SubSeq(acc, 1, Len(acc) - 1) \in Seq(U)
    BY <1>1, <2>1
  <2> QED
    BY <2>2 DEF Front, U
<1>4. Append(acc[Len(acc)], item) \in Seq(T) /\ <<item>> \in Seq(T)
  BY <1>2, AppendProperties
<1> QED
  BY <1>3, <1>4, AppendProperties DEF Last

\* Bundles are made of groups of items.
LEMMA BundlesAre ==
  ASSUME NEW plan, NEW items, NEW T, items \in Seq(T)
  PROVE  \E groups \in Seq(Seq(T)) :
           Bundles(plan, items) =
             [i \in DOMAIN groups |-> Bundle(groups[i])]
<1> DEFINE n == Len(items)
           Entry(f, k) == IF k = 0 THEN <<>> ELSE Grouped(plan, f[k - 1], items[k])
           Is(f, m) == f = [k \in 0..m |-> Entry(f, k)]
           Defined == {m \in 0..n : \E f : Is(f, m)}
<1>1. n \in Nat /\ \A k \in 1..n : items[k] \in T
  BY LenProperties, ElementOfSeq
<1> HIDE DEF n
<1>2. 0 \in Defined
  <2> DEFINE f == [k \in 0..0 |-> <<>>]
  <2>1. Is(f, 0)
    OBVIOUS
  <2> HIDE DEF f, Is
  <2> QED BY <1>1, <2>1
<1>3. ASSUME NEW m \in Defined, m < n PROVE m + 1 \in Defined
  <2>1. PICK f : Is(f, m)
    OBVIOUS
  <2> DEFINE g == [k \in 0..(m + 1) |-> IF k = m + 1 THEN Grouped(plan, f[m], items[m + 1]) ELSE f[k]]
  <2>2. m \in Nat /\ m + 1 \in 0..n
    BY <1>1, <1>3
  <2>3. ASSUME NEW k \in 0..(m + 1) PROVE g[k] = Entry(g, k)
    <3>1. CASE k = m + 1
      <4>1. g[m] = f[m] /\ m + 1 # 0 /\ (m + 1) - 1 = m
        BY <2>2
      <4> QED
        BY <2>2, <3>1, <4>1
    <3>2. CASE k # m + 1
      <4>1. k \in 0..m /\ g[k] = f[k]
        BY <2>2, <3>2
      <4>2. f[k] = Entry(f, k)
        BY <2>1, <4>1
      <4>3. CASE k = 0
        BY <4>1, <4>2, <4>3
      <4>4. CASE k # 0
        <5>1. k - 1 \in 0..(m + 1) /\ k - 1 # m + 1
          BY <2>2, <4>1, <4>4
        <5>2. g[k - 1] = f[k - 1]
          BY <5>1
        <5> QED
          BY <4>1, <4>2, <4>4, <5>2
      <4> QED
        BY <4>3, <4>4
    <3> QED
      BY <3>1, <3>2
  <2>4. Is(g, m + 1)
    <3> DEFINE entries == [k \in 0..(m + 1) |-> Entry(g, k)]
    <3>1. \A k \in 0..(m + 1) : g[k] = entries[k]
      BY <2>3
    <3>2. g = entries
      <4> HIDE DEF Entry
      <4> QED BY <3>1
    <3> QED
      BY <3>2
  <2> HIDE DEF g, Is
  <2> QED BY <2>2, <2>4
<1>4. n \in Defined
  <2> HIDE DEF Defined
  <2>1. Defined \in SUBSET (0..n)
    BY DEF Defined
  <2>2. Defined = 0..n
    BY <1>1, <1>2, <1>3, <2>1, CountUp
  <2> QED
    BY <1>1, <2>2
<1> DEFINE grouped == CHOOSE f : Is(f, n)
<1>5. Is(grouped, n)
  <2>1. \E f : Is(f, n)
    BY <1>4
  <2> HIDE DEF Is
  <2> QED BY <2>1
<1> DEFINE groups == grouped[n]
<1>6. Bundles(plan, items) =
        [i \in DOMAIN groups |-> Bundle(groups[i])]
  BY DEF Bundles, n
<1> HIDE DEF grouped
<1> DEFINE Goods == {m \in 0..n : grouped[m] \in Seq(Seq(T))}
<1>7. 0 \in Goods
  <2>1. grouped[0] = <<>> /\ 0 \in 0..n
    BY <1>1, <1>5
  <2>2. <<>> \in Seq(Seq(T))
    BY EmptySeq
  <2> QED
    BY <2>1, <2>2
<1>8. ASSUME NEW m \in Goods, m < n PROVE m + 1 \in Goods
  <2>1. m \in Nat /\ m + 1 \in 0..n /\ m + 1 \in 1..n /\ (m + 1) - 1 = m /\ m + 1 # 0
    BY <1>1, <1>8
  <2> DEFINE acc == grouped[m]
             item == items[m + 1]
  <2>2. grouped[m + 1] = Grouped(plan, acc, item)
    BY <1>5, <2>1
  <2>3. acc \in Seq(Seq(T)) /\ item \in T
    BY <1>1, <2>1
  <2> HIDE DEF acc, item
  <2>4. CASE acc = <<>>
    <3>1. <<item>> \in Seq(T)
      BY <2>3
    <3>2. <<<<item>>>> \in Seq(Seq(T))
      BY <3>1
    <3> QED
      BY <2>1, <2>2, <2>4, <3>2 DEF Grouped
  <2>5. CASE acc # <<>>
    <3>1. /\ Append(acc, <<item>>) \in Seq(Seq(T))
          /\ Append(Front(acc), Append(Last(acc), item)) \in Seq(Seq(T))
      BY <2>3, <2>5, GroupedType
    <3>2. \/ Grouped(plan, acc, item) = Append(acc, <<item>>)
          \/ Grouped(plan, acc, item) = Append(Front(acc), Append(Last(acc), item))
      BY <2>5, Zenon DEF Grouped
    <3> QED
      BY <2>1, <2>2, <3>1, <3>2
  <2> QED
    BY <2>4, <2>5
<1>9. groups \in Seq(Seq(T))
  <2>1. Goods \in SUBSET (0..n)
    OBVIOUS
  <2>2. n \in Goods
    <3> HIDE DEF Goods
    <3>1. Goods = 0..n
      BY <1>1, <1>7, <1>8, <2>1, CountUp
    <3> QED
      BY <1>1, <3>1
  <2> QED
    BY <2>2
<1> HIDE DEF groups
<1> QED
  BY <1>6, <1>9

\* In bundles that are valid, no spec comes before the bundle of one it depends on.
LEMMA BundlesFit ==
  ASSUME NEW h, NEW plan, PlanOK(h, plan), NEW items, items = Prework(plan),
         NEW bundles, bundles = Bundles(plan, items), Validates(bundles, items)
  PROVE  \A i, j \in DOMAIN bundles :
           i < j => \A id \in Range(bundles[i].ids) :
                      plan.specs[id].deps \cap Range(bundles[j].ids) = {}
<1> DEFINE seqs == [i \in DOMAIN bundles |-> bundles[i].ids]
           order == plan.order
           T == Range(items)
<1>1. /\ order \in Seq(Nat \X Kinds) /\ Distinct(order)
      /\ DOMAIN order = 1..Len(order) /\ Len(order) \in Nat
      /\ \A p \in DOMAIN order : order[p] \in Nat \X Kinds
  BY LenProperties, ElementOfSeq DEF PlanOK
<1>2. /\ DOMAIN items = 1..Len(order)
      /\ \A p \in 1..Len(order) : items[p].id = order[p] /\ items[p].deps = plan.specs[order[p]].deps
  BY <1>1 DEF Prework
<1> HIDE DEF order
<1>3. items \in Seq(T)
  <2>1. items = [p \in 1..Len(order) |-> items[p]]
    BY <1>1 DEF Prework, order
  <2>2. items \in [1..Len(order) -> T]
    BY <1>2, <2>1 DEF Range
  <2> HIDE DEF T
  <2> QED BY <1>1, <2>2
<1>4. ASSUME NEW item \in T
      PROVE  item.id \in Nat \X Kinds /\ item.deps = plan.specs[item.id].deps
  BY <1>1, <1>2 DEF Range
<1>5. IdsOf(items) = order
  BY <1>1, <1>2 DEF IdsOf
<1> HIDE DEF T
<1>6. PICK groups \in Seq(Seq(T)) :
        bundles = [i \in DOMAIN groups |-> Bundle(groups[i])]
  BY <1>3, BundlesAre
<1>7. /\ DOMAIN groups = 1..Len(groups) /\ Len(groups) \in Nat
      /\ \A i \in DOMAIN groups : groups[i] \in Seq(T)
  BY LenProperties, ElementOfSeq
<1>8. ASSUME NEW i \in DOMAIN groups
      PROVE  /\ DOMAIN groups[i] = 1..Len(groups[i]) /\ Len(groups[i]) \in Nat
             /\ \A k \in DOMAIN groups[i] : groups[i][k] \in T
  BY <1>7, LenProperties, ElementOfSeq
<1>9. DOMAIN bundles = DOMAIN groups
  BY <1>6
<1>10. ASSUME NEW i \in DOMAIN groups
       PROVE  /\ seqs[i] = IdsOf(groups[i]) /\ bundles[i].ids = seqs[i]
              /\ bundles[i].deps = (UNION {groups[i][k].deps : k \in DOMAIN groups[i]}) \ Range(seqs[i])
  <2>1. bundles[i] = Bundle(groups[i]) /\ seqs[i] = bundles[i].ids
    BY <1>6, <1>9
  <2> HIDE DEF seqs
  <2> QED BY <2>1 DEF Bundle
<1>11. DOMAIN seqs = DOMAIN groups
  BY <1>9
<1>12. /\ FlattenSeq(seqs) = order
       /\ \A i \in DOMAIN bundles :
            bundles[i].deps \cap Range(order) \subseteq UNION {Range(bundles[k].ids) : k \in 1..i}
  BY <1>5 DEF Validates
<1> HIDE DEF seqs
<1>13. ASSUME NEW i \in DOMAIN groups
       PROVE  /\ seqs[i] \in Seq(Nat \X Kinds) /\ Len(seqs[i]) = Len(groups[i])
              /\ DOMAIN seqs[i] = 1..Len(groups[i])
  <2> DEFINE len == Len(groups[i])
             one == groups[i]
  <2>1. /\ seqs[i] = [k \in 1..len |-> one[k].id] /\ len \in Nat
        /\ \A k \in 1..len : one[k] \in T
    BY <1>8, <1>10 DEF IdsOf
  <2> HIDE DEF len, one, seqs
  <2>2. seqs[i] \in [1..len -> Nat \X Kinds]
    BY <1>4, <2>1
  <2>3. seqs[i] \in Seq(Nat \X Kinds) /\ Len(seqs[i]) = len /\ DOMAIN seqs[i] = 1..len
    BY <2>1, <2>2, ListIs
  <2> QED
    BY <2>3 DEF len
<1>14. seqs \in Seq(Seq(Nat \X Kinds)) /\ Len(seqs) = Len(groups)
  <2>1. seqs \in [1..Len(groups) -> Seq(Nat \X Kinds)]
    BY <1>7, <1>11, <1>13 DEF seqs
  <2> QED
    BY <1>7, <2>1, ListIs
<1>15. PICK off \in [1..Len(seqs) -> Nat] : Laid(seqs, order, off)
  BY <1>12, <1>14, FlattenIs
<1>16. ASSUME NEW i \in DOMAIN groups, NEW k \in DOMAIN seqs[i]
       PROVE  off[i] + k \in DOMAIN order /\ order[off[i] + k] = seqs[i][k]
  <2>1. i \in 1..Len(seqs) /\ k \in 1..Len(seqs[i]) /\ k \in Nat
    BY <1>7, <1>13, <1>14
  <2> QED
    BY <1>1, <1>15, <2>1 DEF Laid
<1>17. ASSUME NEW i \in DOMAIN groups, NEW j \in DOMAIN groups, i < j,
              NEW d, d \in Range(seqs[i]), d \in Range(seqs[j])
       PROVE  FALSE
  <2>1. PICK k \in DOMAIN seqs[i] : d = seqs[i][k]
    BY <1>17 DEF Range
  <2>2. PICK l \in DOMAIN seqs[j] : d = seqs[j][l]
    BY <1>17 DEF Range
  <2>3. off[i] + k = off[j] + l
    <3>1. off[i] + k \in DOMAIN order /\ order[off[i] + k] = d
      BY <1>16, <2>1
    <3>2. off[j] + l \in DOMAIN order /\ order[off[j] + l] = d
      BY <1>16, <2>2
    <3> QED
      BY <1>1, <3>1, <3>2 DEF Distinct
  <2>4. /\ k \in 1..Len(seqs[i]) /\ l \in 1..Len(seqs[j])
        /\ i \in 1..Len(seqs) /\ j \in 1..Len(seqs)
        /\ Len(seqs[i]) \in Nat /\ Len(seqs[j]) \in Nat
    BY <1>7, <1>8, <1>13, <1>14
  <2>5. off[i] + Len(seqs[i]) <= off[j] /\ off[i] \in Nat /\ off[j] \in Nat
    BY <1>15, <1>17, <2>4 DEF Laid
  <2> QED
    BY <2>3, <2>4, <2>5
<1>18. ASSUME NEW i \in DOMAIN groups, NEW j \in DOMAIN groups, i < j,
              NEW id \in Range(seqs[i]), NEW d \in plan.specs[id].deps, d \in Range(seqs[j])
       PROVE  FALSE
  <2>1. PICK k \in DOMAIN groups[i] : id = groups[i][k].id
    <3>1. id \in Range(IdsOf(groups[i]))
      BY <1>10, <1>18
    <3> QED
      BY <3>1 DEF Range, IdsOf
  <2>2. groups[i][k].deps = plan.specs[id].deps
    BY <1>4, <1>8, <2>1
  <2>3. d \notin Range(seqs[i])
    BY <1>17, <1>18
  <2>4. d \in bundles[i].deps
    BY <1>10, <2>2, <2>3
  <2>5. d \in Range(order)
    <3>1. PICK l \in DOMAIN seqs[j] : d = seqs[j][l]
      BY <1>18 DEF Range
    <3>2. off[j] + l \in DOMAIN order /\ order[off[j] + l] = d
      BY <1>16, <3>1
    <3> QED
      BY <3>2 DEF Range
  <2>6. d \in UNION {Range(bundles[m].ids) : m \in 1..i}
    BY <1>9, <1>12, <2>4, <2>5
  <2>7. PICK m \in 1..i : d \in Range(bundles[m].ids)
    BY <2>6
  <2>8. m \in DOMAIN groups /\ m < j
    BY <1>7, <1>18
  <2>9. d \in Range(seqs[m])
    BY <1>10, <2>7, <2>8
  <2> QED
    BY <1>17, <1>18, <2>8, <2>9
<1> QED
  BY <1>9, <1>10, <1>18

-----------------------------------------------------------------------------
(***************************************************************************)
(* Runs: which files there are at each script, and what is in them.        *)
(***************************************************************************)

\* The questions of a queue are about specs that are not split.
QueueGood(queue) == queue \in Queue /\ \A q \in queue.questions : q.id[2] = "whole"
\* A question is open.
Asks(queue) == \E q \in queue.questions : q.answer = "TBD"

\* Beyond its map a run has a plan, or one it cannot read.
FilesOK ==
  /\ hld \in Hlds
  /\ DOMAIN files = DOMAIN NoFiles
  /\ pc \in {"map", "plan"} => files = NoFiles
  /\ (pc \notin {"idle", "map", "plan"} \/ files.review # NoFile)
       => files.plan = Torn \/ PlanOK(hld, files.plan)
  /\ pc \in {"queue", "prework", "bundles", "quality", "validate"} => files.plan # Torn

\* Answers are applied when there are no more questions; questions are about a plan that
\* does not pass its review.
QueueOK ==
  /\ files.queue \in {NoFile, Torn} \/ QueueGood(files.queue)
  /\ files.queue = NoFile => files.quality = NoFile
  /\ pc \in {"apply", "applied"} => QueueGood(files.queue) /\ ~Asks(files.queue)
  /\ pc \in {"prework", "bundles", "quality", "validate"} => QueueGood(files.queue)
  /\ (QueueGood(files.queue) /\ files.plan # Torn /\ Asks(files.queue)) => ~Review(files.plan)

\* What ApprovalFits says, of the files.
Fits(h, plan, prework, bundles) ==
  /\ prework = Prework(plan)
  /\ UNION {s.src : s \in Range(plan.specs)} = Candidates(h)
  /\ \A i, j \in DOMAIN bundles :
       i < j => \A id \in Range(bundles[i].ids) :
                  plan.specs[id].deps \cap Range(bundles[j].ids) = {}

\* Each file is made from those before it.
ChainOK ==
  /\ pc \in {"bundles", "quality", "validate"} => files.prework = Prework(files.plan)
  /\ pc \in {"quality", "validate"} => files.bundles = Bundles(files.plan, files.prework)
  /\ (pc = "report" /\ Green /\ files.quality = TRUE)
       => Fits(hld, files.plan, files.prework, files.bundles)
  /\ told = "approval" =>
       pc = "idle" /\ Fits(hld, files.plan, files.prework, files.bundles)

RunInv == FilesOK /\ QueueOK /\ ChainOK

\* A missing or torn file is not a queue.
LEMMA NotQueues ==
  /\ ~QueueGood(NoFile) /\ ~QueueGood(Torn) /\ NoFile # Torn
  /\ \A queue : QueueGood(queue) => queue \notin {NoFile, Torn}
BY FilesAssumption DEF QueueGood

\* Questions are asked about the specs that are flagged.
LEMMA QuestionsAre ==
  ASSUME NEW h, NEW plan, PlanOK(h, plan)
  PROVE  QueueGood(Questions(plan)) /\ (Asks(Questions(plan)) => ~Review(plan))
<1> DEFINE flagged == {i \in DOMAIN plan.specs : plan.specs[i].flags # {}}
<1>1. \A id \in DOMAIN plan.specs : id \in Nat \X Kinds
  BY LenProperties DEF PlanOK, Range
<1>2. \A id \in flagged : id[2] = "whole"
  BY DEF PlanOK
<1>3. Questions(plan) = [questions |-> {Asked(id) : id \in flagged}]
  BY DEF Questions
<1>4. \A id \in flagged : Asked(id) \in [id : Nat \X Kinds, answer : Answers] /\ Asked(id).id = id
  BY <1>1 DEF Asked, Answers
<1>5. QueueGood(Questions(plan))
  <2> HIDE DEF flagged
  <2>1. {Asked(id) : id \in flagged} \in SUBSET [id : Nat \X Kinds, answer : Answers]
    BY <1>4
  <2>2. Questions(plan) \in Queue
    BY <1>3, <2>1 DEF Queue
  <2>3. \A q \in Questions(plan).questions : q.id[2] = "whole"
    BY <1>2, <1>3, <1>4
  <2> QED
    BY <2>2, <2>3 DEF QueueGood
<1>6. ASSUME Asks(Questions(plan)), Review(plan) PROVE FALSE
  <2>1. PICK id \in flagged : TRUE
    BY <1>3, <1>6 DEF Asks
  <2> QED
    BY <1>6, <2>1 DEF Review, Range
<1> QED
  BY <1>5, <1>6

\* Bundles of the plan's own queue that are valid fit.
LEMMA ValidFits ==
  ASSUME NEW h, NEW plan, PlanOK(h, plan), NEW items, items = Prework(plan),
         NEW bundles, bundles = Bundles(plan, items), Validates(bundles, items)
  PROVE  Fits(h, plan, items, bundles)
<1>1. UNION {s.src : s \in Range(plan.specs)} = UNION {plan.specs[id].src : id \in DOMAIN plan.specs}
  BY DEF Range
<1>2. UNION {plan.specs[id].src : id \in DOMAIN plan.specs} = Candidates(h)
  BY DEF PlanOK
<1>3. \A i, j \in DOMAIN bundles :
        i < j => \A id \in Range(bundles[i].ids) :
                   plan.specs[id].deps \cap Range(bundles[j].ids) = {}
  BY BundlesFit
<1> QED
  BY <1>1, <1>2, <1>3 DEF Fits

\* A script changes its file and no other.
LEMMA WritesOne ==
  ASSUME RunInv, NEW script, NEW file \in DOMAIN NoFiles, NEW value, NEW next,
         Writes(script, file, value, next)
  PROVE  /\ DOMAIN files' = DOMAIN NoFiles /\ files'[file] = value
         /\ \A other \in DOMAIN NoFiles : other # file => files'[other] = files[other]
         /\ pc = script /\ pc' = next /\ hld' = hld /\ told' = told
BY DEF Writes, RunInv, FilesOK

\* With the same files, it matters where the run goes on or what it ends with.
LEMMA FilesKept ==
  ASSUME RunInv, UNCHANGED <<hld, files>>,
         pc' \in {"idle", "plan", "apply", "review", "report"},
         pc' = "plan" => pc = "map",
         pc' = "apply" => files.review # NoFile /\ QueueGood(files.queue) /\ ~Asks(files.queue),
         pc' \in {"review", "report"} => pc \notin {"idle", "map", "plan"} \/ files.review # NoFile,
         (pc' = "report" /\ Green /\ files.quality = TRUE) \/ told' = "approval"
           => Fits(hld, files.plan, files.prework, files.bundles),
         told' = "approval" => pc' = "idle"
  PROVE  RunInv'
<1>1. FilesOK'
  BY DEF RunInv, FilesOK
<1>2. QueueOK'
  BY DEF RunInv, QueueOK
<1>3. ChainOK'
  <2>1. Green' <=> Green
    BY DEF Green
  <2> QED
    BY <2>1 DEF RunInv, ChainOK
<1> QED
  BY <1>1, <1>2, <1>3 DEF RunInv

\* The scripts that make the plan or change it.
LEMMA PlanSteps ==
  ASSUME RunInv, StartRun \/ MakeMap \/ MakePlan \/ ApplyAnswers \/ RecordApplied
  PROVE  RunInv'
<1>1. CASE StartRun
  <2>1. CASE files.review = NoFile
    <3>1. /\ files' = NoFiles /\ pc' = "map" /\ told' = "nothing" /\ hld' = hld
      BY <1>1, <2>1 DEF StartRun
    <3>2. NoFiles.queue = NoFile /\ NoFiles.quality = NoFile /\ NoFiles.review = NoFile
      BY DEF NoFiles
    <3>3. FilesOK'
      BY <3>1, <3>2 DEF RunInv, FilesOK
    <3>4. QueueOK'
      BY <3>1, <3>2, NotQueues DEF QueueOK
    <3>5. ChainOK'
      BY <3>1 DEF ChainOK
    <3> QED
      BY <3>3, <3>4, <3>5 DEF RunInv
  <2>2. CASE files.review # NoFile
    <3>1. /\ pc = "idle" /\ UNCHANGED <<hld, files>> /\ told' # "approval"
          /\ \/ pc' = "idle"
             \/ /\ pc' \in {"report", "apply"} /\ files.queue # Torn
                /\ pc' = "report" => files.queue = NoFile \/ Asks(files.queue)
                /\ pc' = "apply" => files.queue # NoFile /\ ~Asks(files.queue)
      BY <1>1, <2>2 DEF StartRun, RunEnds, Open, Asks
    <3>2. ASSUME pc' = "report", Green, files.quality = TRUE PROVE FALSE
      <4>1. files.queue # NoFile
        BY <3>2, FilesAssumption DEF RunInv, QueueOK
      <4>2. QueueGood(files.queue) /\ Asks(files.queue)
        BY <3>1, <3>2, <4>1 DEF RunInv, QueueOK
      <4> QED
        BY <3>2, <4>2 DEF RunInv, QueueOK, Green
    <3>3. pc' = "apply" => QueueGood(files.queue) /\ ~Asks(files.queue)
      BY <3>1 DEF RunInv, QueueOK
    <3> QED
      BY <2>2, <3>1, <3>2, <3>3, FilesKept
  <2> QED
    BY <2>1, <2>2
<1>2. CASE MakeMap
  <2>1. /\ pc = "map" /\ UNCHANGED <<hld, files>> /\ pc' \in {"idle", "plan"}
        /\ told' # "approval"
    BY <1>2 DEF MakeMap, RunEnds, RunInv, ChainOK
  <2> QED
    BY <2>1, FilesKept
<1>3. CASE MakePlan
  <2>1. /\ DOMAIN files' = DOMAIN NoFiles /\ files'.plan = PlanOf(hld)
        /\ \A other \in DOMAIN NoFiles : other # "plan" => files'[other] = files[other]
        /\ pc = "plan" /\ pc' = "review" /\ hld' = hld /\ told' = told
    <3>1. "plan" \in DOMAIN NoFiles
      BY DEF NoFiles
    <3> QED
      BY <1>3, <3>1, WritesOne DEF MakePlan
  <2>2. PlanOK(hld, PlanOf(hld)) /\ files.queue = NoFile /\ told # "approval"
    BY <2>1, PlanOfIs DEF RunInv, FilesOK, ChainOK, NoFiles
  <2>3. files'.queue = files.queue /\ files'.quality = files.quality
    BY <2>1 DEF NoFiles
  <2>4. FilesOK'
    BY <2>1, <2>2 DEF RunInv, FilesOK
  <2>5. QueueOK'
    BY <2>1, <2>2, <2>3, NotQueues DEF RunInv, QueueOK
  <2>6. ChainOK'
    BY <2>1, <2>2 DEF ChainOK
  <2> QED
    BY <2>4, <2>5, <2>6 DEF RunInv
<1>4. CASE ApplyAnswers
  <2>1. /\ pc = "apply" /\ hld' = hld /\ told # "approval"
        /\ QueueGood(files.queue) /\ ~Asks(files.queue)
        /\ files.plan = Torn \/ PlanOK(hld, files.plan)
        /\ DOMAIN files = DOMAIN NoFiles
    BY <1>4 DEF ApplyAnswers, RunInv, FilesOK, QueueOK, ChainOK
  <2>2. CASE Answered = {}
    <3>1. files' = [files EXCEPT !.applied = NoFile] /\ pc' = "review" /\ told' = told
      BY <1>4, <2>2 DEF ApplyAnswers
    <3>2. /\ DOMAIN files' = DOMAIN NoFiles /\ files'.plan = files.plan
          /\ files'.queue = files.queue /\ files'.quality = files.quality
      BY <2>1, <3>1 DEF NoFiles
    <3>3. FilesOK'
      BY <2>1, <3>1, <3>2 DEF RunInv, FilesOK
    <3>4. QueueOK'
      BY <2>1, <3>1, <3>2 DEF RunInv, QueueOK
    <3>5. ChainOK'
      BY <2>1, <3>1 DEF ChainOK
    <3> QED
      BY <3>3, <3>4, <3>5 DEF RunInv
  <2>3. CASE Answered # {} /\ pc' # "applied"
    <3>1. pc' \in {"idle", "review"} /\ told' # "approval" /\ files' = files
      BY <1>4, <2>1, <2>3 DEF ApplyAnswers, RunEnds
    <3> QED
      BY <2>1, <3>1, FilesKept
  <2>4. CASE Answered # {} /\ pc' = "applied"
    <3>1. /\ files' = [files EXCEPT !.plan = Split(files.plan, Answered)]
          /\ pc' = "applied" /\ told' = told /\ files.plan # Torn
      BY <1>4, <2>4 DEF ApplyAnswers, RunEnds
    <3>2. Wholes(Answered)
      BY <2>1 DEF Wholes, Answered, QueueGood
    <3>3. PlanOK(hld, Split(files.plan, Answered))
      BY <2>1, <3>1, <3>2, SplitKeeps
    <3>4. /\ DOMAIN files' = DOMAIN NoFiles /\ files'.plan = Split(files.plan, Answered)
          /\ files'.queue = files.queue /\ files'.quality = files.quality
      BY <2>1, <3>1 DEF NoFiles
    <3>5. FilesOK'
      BY <2>1, <3>1, <3>3, <3>4 DEF RunInv, FilesOK
    <3>6. QueueOK'
      BY <2>1, <3>1, <3>4 DEF RunInv, QueueOK
    <3>7. ChainOK'
      BY <2>1, <3>1 DEF ChainOK
    <3> QED
      BY <3>5, <3>6, <3>7 DEF RunInv
  <2> QED
    BY <2>2, <2>3, <2>4
<1>5. CASE RecordApplied
  <2>1. /\ DOMAIN files' = DOMAIN NoFiles
        /\ \A other \in DOMAIN NoFiles : other # "applied" => files'[other] = files[other]
        /\ pc = "applied" /\ pc' = "review" /\ hld' = hld /\ told' = told
    <3>1. "applied" \in DOMAIN NoFiles
      BY DEF NoFiles
    <3> QED
      BY <1>5, <3>1, WritesOne DEF RecordApplied
  <2>2. files'.plan = files.plan /\ files'.queue = files.queue /\ files'.quality = files.quality
    BY <2>1 DEF NoFiles
  <2>3. FilesOK'
    BY <2>1, <2>2 DEF RunInv, FilesOK
  <2>4. QueueOK'
    BY <2>1, <2>2 DEF RunInv, QueueOK
  <2>5. ChainOK'
    BY <2>1 DEF RunInv, ChainOK
  <2> QED
    BY <2>3, <2>4, <2>5 DEF RunInv
<1> QED
  BY <1>1, <1>2, <1>3, <1>4, <1>5

\* The scripts that make something from the plan.
LEMMA MakeSteps ==
  ASSUME RunInv, MakeReview \/ MakeQueue \/ MakePrework \/ MakeBundles \/ MakeQuality
  PROVE  RunInv'
<1>1. /\ hld \in Hlds /\ (told = "approval" => pc = "idle")
      /\ pc \notin {"idle", "map", "plan"} => files.plan = Torn \/ PlanOK(hld, files.plan)
      /\ pc \in {"queue", "prework", "bundles", "quality"} => files.plan # Torn
  BY DEF RunInv, FilesOK, ChainOK
<1>2. {"review", "queue", "prework", "bundles", "quality"} \subseteq DOMAIN NoFiles
  BY DEF NoFiles
<1>3. CASE MakeReview /\ files.plan = Torn
  <2>1. /\ pc = "review" /\ UNCHANGED <<hld, files>> /\ pc' = "idle" /\ told' # "approval"
    BY <1>3 DEF MakeReview, RunEnds
  <2> QED
    BY <2>1, FilesKept
<1>4. CASE MakeReview /\ files.plan # Torn
  <2>1. /\ DOMAIN files' = DOMAIN NoFiles
        /\ \A other \in DOMAIN NoFiles : other # "review" => files'[other] = files[other]
        /\ pc = "review" /\ pc' = "queue" /\ hld' = hld /\ told' = told
    BY <1>2, <1>4, WritesOne DEF MakeReview
  <2>2. files'.plan = files.plan /\ files'.queue = files.queue /\ files'.quality = files.quality
    BY <2>1 DEF NoFiles
  <2>3. FilesOK'
    BY <1>1, <1>4, <2>1, <2>2 DEF FilesOK
  <2>4. QueueOK'
    BY <2>1, <2>2 DEF RunInv, QueueOK
  <2>5. ChainOK'
    BY <1>1, <2>1 DEF ChainOK
  <2> QED
    BY <2>3, <2>4, <2>5 DEF RunInv
<1>5. CASE MakeQueue
  <2>1. /\ DOMAIN files' = DOMAIN NoFiles /\ files'.queue = Questions(files.plan)
        /\ \A other \in DOMAIN NoFiles : other # "queue" => files'[other] = files[other]
        /\ pc = "queue" /\ pc' = "prework" /\ hld' = hld /\ told' = told
    BY <1>2, <1>5, WritesOne DEF MakeQueue
  <2>2. files'.plan = files.plan /\ PlanOK(hld, files.plan) /\ files.plan # Torn
    BY <1>1, <2>1 DEF NoFiles
  <2>3. QueueGood(files'.queue) /\ (Asks(files'.queue) => ~Review(files.plan))
    BY <2>1, <2>2, QuestionsAre
  <2>4. FilesOK'
    BY <1>1, <2>1, <2>2 DEF FilesOK
  <2>5. QueueOK'
    BY <2>1, <2>2, <2>3, NotQueues DEF QueueOK
  <2>6. ChainOK'
    BY <1>1, <2>1 DEF ChainOK
  <2> QED
    BY <2>4, <2>5, <2>6 DEF RunInv
<1>6. CASE MakePrework
  <2>1. /\ DOMAIN files' = DOMAIN NoFiles /\ files'.prework = Prework(files.plan)
        /\ \A other \in DOMAIN NoFiles : other # "prework" => files'[other] = files[other]
        /\ pc = "prework" /\ pc' = "bundles" /\ hld' = hld /\ told' = told
    BY <1>2, <1>6, WritesOne DEF MakePrework
  <2>2. files'.plan = files.plan /\ files'.queue = files.queue /\ files'.quality = files.quality
    BY <2>1 DEF NoFiles
  <2>3. FilesOK'
    BY <1>1, <2>1, <2>2 DEF FilesOK
  <2>4. QueueOK'
    BY <2>1, <2>2 DEF RunInv, QueueOK
  <2>5. ChainOK'
    BY <1>1, <2>1, <2>2 DEF ChainOK
  <2> QED
    BY <2>3, <2>4, <2>5 DEF RunInv
<1>7. CASE MakeBundles
  <2>1. /\ DOMAIN files' = DOMAIN NoFiles /\ files'.bundles = Bundles(files.plan, files.prework)
        /\ \A other \in DOMAIN NoFiles : other # "bundles" => files'[other] = files[other]
        /\ pc = "bundles" /\ pc' = "quality" /\ hld' = hld /\ told' = told
    BY <1>2, <1>7, WritesOne DEF MakeBundles
  <2>2. /\ files'.plan = files.plan /\ files'.queue = files.queue
        /\ files'.quality = files.quality /\ files'.prework = files.prework
    BY <2>1 DEF NoFiles
  <2>3. FilesOK'
    BY <1>1, <2>1, <2>2 DEF FilesOK
  <2>4. QueueOK'
    BY <2>1, <2>2 DEF RunInv, QueueOK
  <2>5. ChainOK'
    BY <1>1, <2>1, <2>2 DEF RunInv, ChainOK
  <2> QED
    BY <2>3, <2>4, <2>5 DEF RunInv
<1>8. CASE MakeQuality
  <2>1. /\ DOMAIN files' = DOMAIN NoFiles
        /\ \A other \in DOMAIN NoFiles : other # "quality" => files'[other] = files[other]
        /\ pc = "quality" /\ pc' = "validate" /\ hld' = hld /\ told' = told
    BY <1>2, <1>8, WritesOne DEF MakeQuality
  <2>2. /\ files'.plan = files.plan /\ files'.queue = files.queue
        /\ files'.prework = files.prework /\ files'.bundles = files.bundles
    BY <2>1 DEF NoFiles
  <2>3. FilesOK'
    BY <1>1, <2>1, <2>2 DEF FilesOK
  <2>4. QueueOK'
    BY <2>1, <2>2, NotQueues DEF RunInv, QueueOK
  <2>5. ChainOK'
    BY <1>1, <2>1, <2>2 DEF RunInv, ChainOK
  <2> QED
    BY <2>3, <2>4, <2>5 DEF RunInv
<1> QED
  BY <1>3, <1>4, <1>5, <1>6, <1>7, <1>8

\* The ends of a run, and what people do.
LEMMA OtherSteps ==
  ASSUME RunInv,
         \/ ValidateBundles \/ Report \/ Die
         \/ \E id \in Ids, a \in Answers \ {"TBD"} : Answer(id, a)
         \/ UNCHANGED planVars
  PROVE  RunInv'
<1>1. CASE ValidateBundles
  <2>1. /\ pc = "validate" /\ UNCHANGED <<hld, files>> /\ told # "approval" /\ pc' \in {"idle", "report"}
        /\ told' = told \/ told' = "rejected"
        /\ pc' = "report" => Validates(files.bundles, files.prework)
        /\ PlanOK(hld, files.plan) /\ files.prework = Prework(files.plan)
        /\ files.bundles = Bundles(files.plan, files.prework)
    BY <1>1 DEF ValidateBundles, RunEnds, RunInv, FilesOK, ChainOK
  <2>2. pc' = "report" => Fits(hld, files.plan, files.prework, files.bundles)
    BY <2>1, ValidFits
  <2> QED
    BY <2>1, <2>2, FilesKept
<1>2. CASE Report
  <2>1. /\ pc = "report" /\ UNCHANGED <<hld, files>> /\ pc' = "idle"
        /\ told' = "approval" => Green /\ files.quality = TRUE
    BY <1>2 DEF Report, RunEnds
  <2>2. told' = "approval" => Fits(hld, files.plan, files.prework, files.bundles)
    BY <2>1 DEF RunInv, ChainOK
  <2> QED
    BY <2>1, <2>2, FilesKept
<1>3. CASE Die /\ files' = files
  <2>1. hld' = hld /\ pc' = "idle" /\ told' # "approval"
    BY <1>3 DEF Die, RunEnds
  <2> QED
    BY <1>3, <2>1, FilesKept
<1>4. CASE Die /\ files' # files
  <2> DEFINE file == Writing[pc]
  <2>1. /\ pc \in DOMAIN Writing /\ files' = [files EXCEPT ![file] = Torn]
        /\ hld' = hld /\ pc' = "idle" /\ told' = "nothing"
    BY <1>4 DEF Die, RunEnds
  <2>2. /\ DOMAIN Writing = {"plan", "apply", "applied", "review", "queue", "prework", "bundles", "quality"}
        /\ file \in DOMAIN NoFiles
        /\ file = "review" <=> pc = "review"
        /\ file = "plan" <=> pc \in {"plan", "apply"}
        /\ file = "queue" <=> pc = "queue"
        /\ file = "quality" => pc = "quality"
    BY <2>1 DEF Writing, NoFiles
  <2>3. DOMAIN files = DOMAIN NoFiles
    BY DEF RunInv, FilesOK
  <2> HIDE DEF file
  <2>4. /\ DOMAIN files' = DOMAIN NoFiles /\ files'[file] = Torn
        /\ \A other \in DOMAIN NoFiles : other # file => files'[other] = files[other]
    BY <2>1, <2>2, <2>3
  <2>5. {"plan", "review", "queue", "quality"} \subseteq DOMAIN NoFiles
    BY DEF NoFiles
  <2>6. FilesOK'
    <3>1. hld' \in Hlds
      BY <2>1 DEF RunInv, FilesOK
    <3>2. ASSUME files'.review # NoFile PROVE files'.plan = Torn \/ PlanOK(hld, files'.plan)
      <4>1. CASE file = "plan"
        BY <2>4, <4>1
      <4>2. CASE file # "plan"
        <5>1. files'.plan = files.plan /\ pc # "plan" /\ pc \notin {"idle", "map"}
          BY <2>1, <2>2, <2>4, <2>5, <4>2
        <5> QED
          BY <5>1 DEF RunInv, FilesOK
      <4> QED
        BY <4>1, <4>2
    <3> QED
      BY <2>1, <2>4, <3>1, <3>2 DEF FilesOK
  <2>7. QueueOK'
    <3>1. CASE file = "queue"
      BY <2>1, <2>4, <3>1, NotQueues DEF QueueOK
    <3>2. CASE file # "queue"
      <4>1. files'.queue = files.queue
        BY <2>4, <2>5, <3>2
      <4>2. files'.plan = Torn \/ files'.plan = files.plan
        BY <2>4, <2>5
      <4>3. ASSUME files.queue = NoFile PROVE files'.quality = NoFile
        BY <2>2, <2>4, <2>5, <4>3, NotQueues DEF RunInv, QueueOK
      <4> QED
        BY <2>1, <4>1, <4>2, <4>3 DEF RunInv, QueueOK
    <3> QED
      BY <3>1, <3>2
  <2>8. ChainOK'
    BY <2>1 DEF ChainOK
  <2> QED
    BY <2>6, <2>7, <2>8 DEF RunInv
<1>5. ASSUME NEW id \in Ids, NEW a \in Answers \ {"TBD"}, Answer(id, a) PROVE RunInv'
  <2> DEFINE new == [id |-> id, answer |-> a]
             queue == [files.queue EXCEPT !.questions = (@ \ {Asked(id)}) \cup {new}]
  <2>1. /\ files' = [files EXCEPT !.queue = queue] /\ UNCHANGED <<hld, pc, told>>
        /\ QueueGood(files.queue) /\ Asked(id) \in files.queue.questions
    BY <1>5 DEF Answer, RunInv, QueueOK
  <2>2. new \in [id : Nat \X Kinds, answer : Answers] /\ new.answer # "TBD" /\ id[2] = "whole" /\ new.id = id
    BY <2>1 DEF Ids, QueueGood, Asked
  <2>3. /\ queue.questions = (files.queue.questions \ {Asked(id)}) \cup {new}
        /\ queue \in Queue
    BY <2>1, <2>2 DEF QueueGood, Queue
  <2> HIDE DEF new, queue
  <2>4. QueueGood(queue) /\ (Asks(queue) => Asks(files.queue))
    BY <2>1, <2>2, <2>3 DEF QueueGood, Asks
  <2>5. /\ DOMAIN files' = DOMAIN NoFiles /\ files'.queue = queue
        /\ \A other \in DOMAIN NoFiles : other # "queue" => files'[other] = files[other]
        /\ files # NoFiles
    <3>1. DOMAIN files = DOMAIN NoFiles /\ "queue" \in DOMAIN NoFiles /\ NoFiles.queue = NoFile
      BY DEF RunInv, FilesOK, NoFiles
    <3> QED
      BY <2>1, <3>1, NotQueues
  <2>6. /\ files'.plan = files.plan /\ files'.review = files.review /\ files'.prework = files.prework
        /\ files'.bundles = files.bundles /\ files'.quality = files.quality
    BY <2>5 DEF NoFiles
  <2>7. FilesOK'
    BY <2>1, <2>5, <2>6 DEF RunInv, FilesOK
  <2>8. QueueOK'
    BY <2>1, <2>4, <2>5, <2>6, NotQueues DEF RunInv, QueueOK
  <2>9. ChainOK'
    <3>1. Green' <=> Green
      BY <2>6 DEF Green
    <3> QED
      BY <2>1, <2>6, <3>1 DEF RunInv, ChainOK
  <2> QED
    BY <2>7, <2>8, <2>9 DEF RunInv
<1>6. CASE UNCHANGED planVars
  <2>1. UNCHANGED <<hld, files, pc, told>>
    BY <1>6 DEF planVars
  <2>2. Green' <=> Green
    BY <2>1 DEF Green
  <2> QED
    BY <2>1, <2>2 DEF RunInv, FilesOK, QueueOK, ChainOK
<1> QED
  BY <1>1, <1>2, <1>3, <1>4, <1>5, <1>6

\* Holds of every run, in any order, with any deaths and answers.
LEMMA RunInvariant ==
  PlanSpec => []RunInv
<1>1. ASSUME PlanInit PROVE RunInv
  <2>1. hld \in Hlds /\ files = NoFiles /\ pc = "idle" /\ told = "nothing"
    BY <1>1 DEF PlanInit
  <2>2. NoFiles.queue = NoFile /\ NoFiles.quality = NoFile /\ NoFiles.review = NoFile
    BY DEF NoFiles
  <2> QED
    BY <2>1, <2>2, NotQueues DEF RunInv, FilesOK, QueueOK, ChainOK
<1>2. ASSUME RunInv, [PlanNext]_planVars PROVE RunInv'
  BY <1>2, PlanSteps, MakeSteps, OtherSteps DEF PlanNext, Run
<1> QED
  BY <1>1, <1>2, PTL DEF PlanSpec

\* What is put up for approval is made from the plan as it is, has every section of the HLD
\* that names specs or is a candidate for one and no context, and no spec before the bundle
\* of one it depends on, for any HLD, any sizes of bundles, any answers and any deaths of
\* runs.
THEOREM ApprovalAlwaysFits ==
  PlanSpec => []ApprovalFits
<1>1. RunInv => ApprovalFits
  BY DEF RunInv, ChainOK, Fits, ApprovalFits
<1> QED
  BY <1>1, RunInvariant, PTL

\* No split puts a spec before one it depends on, in a plan of any HLD, for any answers.
THEOREM SplitsKeepOrder ==
  PlanSpec => SplitKeepsOrder
<1> DEFINE Keeps == ({files.plan, files'.plan} \cap {NoFile, Torn} = {} /\ InOrder(files.plan))
                      => InOrder(files'.plan)
<1>1. ASSUME RunInv, [PlanNext]_planVars PROVE [Keeps]_planVars
  <2> SUFFICES ASSUME {files.plan, files'.plan} \cap {NoFile, Torn} = {}, InOrder(files.plan),
                      files'.plan # files.plan
               PROVE  InOrder(files'.plan)
    OBVIOUS
  <2>0. files.plan \notin {NoFile, Torn} /\ files'.plan \notin {NoFile, Torn}
    OBVIOUS
  <2>1. DOMAIN files = DOMAIN NoFiles /\ "plan" \in DOMAIN NoFiles
    BY <1>1 DEF RunInv, FilesOK, NoFiles
  <2>2. ASSUME NEW script, NEW file \in DOMAIN NoFiles, NEW value, NEW next, file # "plan",
               Writes(script, file, value, next)
        PROVE  FALSE
    BY <1>1, <2>1, <2>2, WritesOne
  <2>3. {"review", "queue", "prework", "bundles", "quality", "applied"} \subseteq DOMAIN NoFiles
    BY DEF NoFiles
  <2>4. ApplyAnswers
    <3>1. ~StartRun
      BY <2>0 DEF StartRun, NoFiles
    <3>2. ~MakeMap /\ ~ValidateBundles /\ ~Report /\ ~ UNCHANGED planVars
      BY DEF MakeMap, ValidateBundles, Report, planVars
    <3>3. ~MakePlan
      BY <1>1, <2>0 DEF MakePlan, Writes, RunInv, FilesOK, NoFiles
    <3>4. ~RecordApplied /\ ~MakeQueue /\ ~MakePrework /\ ~MakeBundles /\ ~MakeQuality
      BY <2>2, <2>3 DEF RecordApplied, MakeQueue, MakePrework, MakeBundles, MakeQuality
    <3>5. ~MakeReview
      BY <2>2, <2>3 DEF MakeReview
    <3>6. ~Die
      <4> SUFFICES ASSUME Die PROVE FALSE
        OBVIOUS
      <4>1. pc \in DOMAIN Writing /\ files' = [files EXCEPT ![Writing[pc]] = Torn]
        BY DEF Die
      <4>2. files'.plan = Torn \/ files'.plan = files.plan
        BY <2>1, <4>1
      <4> QED
        BY <2>0, <4>2
    <3>7. ASSUME NEW id \in Ids, NEW a \in Answers \ {"TBD"}, Answer(id, a) PROVE FALSE
      BY <2>1, <3>7 DEF Answer
    <3> QED
      BY <1>1, <3>1, <3>2, <3>3, <3>4, <3>5, <3>6, <3>7 DEF PlanNext, Run
  <2>5. files' = [files EXCEPT !.plan = Split(files.plan, Answered)] /\ pc = "apply"
    BY <2>1, <2>4 DEF ApplyAnswers
  <2>6. PlanOK(hld, files.plan) /\ Wholes(Answered)
    BY <1>1, <2>5 DEF RunInv, FilesOK, QueueOK, QueueGood, Wholes, Answered
  <2>7. files'.plan = Split(files.plan, Answered)
    BY <2>1, <2>5
  <2> QED
    BY <2>6, <2>7, SplitInOrder
<1>2. PlanSpec => [][PlanNext]_planVars
  BY DEF PlanSpec
<1> QED
  BY <1>1, <1>2, RunInvariant, PTL DEF SplitKeepsOrder

-----------------------------------------------------------------------------
(***************************************************************************)
(* Downstream, for any runs, specs, command lines and outputs of agents,   *)
(* and any number of failing writes.                                       *)
(***************************************************************************)
USE BoundsAssumption, NoneAssumption

-----------------------------------------------------------------------------
(***************************************************************************)
(* Type correctness.                                                       *)
(***************************************************************************)

\* A block that is written is a file.
LEMMA WrittenType ==
  ASSUME NEW d \in [Paths -> {None} \cup File], NEW r \in Runs, NEW b \in Block
  PROVE  Written(d, r, b) \in [Paths -> {None} \cup File]
BY DEF Written, File, Block

\* Blocks from the second on, and one agent's log over another's, are blocks.
LEMMA LogTypes ==
  ASSUME NEW s \in Seq(Block), NEW out \in Seq(Block)
  PROVE  /\ out \o SubSeq(s, Len(out) + 1, Len(s)) \in Seq(Block)
         /\ s # <<>> => Head(s) \in Block /\ Tail(s) \in Seq(Block)
<1>1. SubSeq(s, Len(out) + 1, Len(s)) \in Seq(Block)
  <2>1. \A i \in (Len(out) + 1)..Len(s) : s[i] \in Block
    OBVIOUS
  <2> QED
    BY <2>1
<1> QED
  BY <1>1

\* Whoever changes the workspace leaves runs that are runs.
LEMMA DisturbsType ==
  ASSUME TypeOK, NEW r, NEW me, r \in Runs => me \in RunState, Disturbs(r, me)
  PROVE  run' \in [Runs -> {None} \cup RunState]
<1>1. ASSUME NEW q \in Runs, q # r, run[q] # None
      PROVE  [run[q] EXCEPT !.alone = FALSE] \in RunState
  <2>1. run[q] \in RunState
    BY <1>1 DEF TypeOK
  <2> QED
    BY <2>1 DEF RunState
<1> QED
  BY <1>1 DEF Disturbs

\* Going on and ending keep the runs' type.
LEMMA GoesType ==
  ASSUME TypeOK, NEW r \in Runs, run[r] # None,
         \/ \E to \in {"check", "stage", "try", "read", "judge"} : Goes(r, to)
         \/ \E res \in {"agent", "refused", "failed", "invalid", "conflict", "pass"} : Ends(r, res)
  PROVE  run' \in [Runs -> {None} \cup RunState]
<1>1. run[r] \in RunState
  BY DEF TypeOK
<1>2. CASE \E to \in {"check", "stage", "try", "read", "judge"} : Goes(r, to)
  <2>1. PICK to \in {"check", "stage", "try", "read", "judge"} : Goes(r, to)
    BY <1>2
  <2>2. [run[r] EXCEPT !.pc = to] \in RunState
    BY <1>1 DEF RunState
  <2> QED
    BY <2>1, <2>2 DEF TypeOK, Goes
<1>3. CASE \E res \in {"agent", "refused", "failed", "invalid", "conflict", "pass"} : Ends(r, res)
  <2>1. PICK res \in {"agent", "refused", "failed", "invalid", "conflict", "pass"} : Ends(r, res)
    BY <1>3
  <2>2. [run[r] EXCEPT !.pc = "over", !.result = res] \in RunState
    BY <1>1 DEF RunState
  <2>3. run' = [run EXCEPT ![r] = [run[r] EXCEPT !.pc = "over", !.result = res]]
    BY <2>1 DEF TypeOK, Ends
  <2> QED
    BY <2>2, <2>3 DEF TypeOK
<1> QED
  BY <1>2, <1>3

\* The steps of a run keep the types.
LEMMA StepType ==
  ASSUME TypeOK, NEW r \in Runs, (\E conf \in Configs : Start(r, conf)) \/ Step(r) \/ Fault(r)
  PROVE  TypeOK'
<1> USE OutputsAssumption
<1>1. run[r] # None => run[r] \in RunState /\ run[r].id \in 1..MaxClock /\ run[r].todo \in Seq(Block)
  BY DEF TypeOK, RunState
<1>2. ASSUME NEW conf \in Configs, Start(r, conf) PROVE TypeOK'
  <2>1. [pc |-> "agent", conf |-> conf, id |-> clock, todo |-> <<>>, alone |-> TRUE,
         result |-> None] \in RunState
    BY DEF TypeOK, RunState
  <2>2. run' \in [Runs -> {None} \cup RunState]
    BY <1>2, <2>1 DEF TypeOK, Start
  <2>3. log' \in [1..MaxClock -> Seq(Block)]
    BY <1>2 DEF TypeOK, Start
  <2> QED
    BY <1>2, <2>2, <2>3 DEF TypeOK, Start
<1>3. ASSUME NEW out \in Outputs, AgentEnds(r, out) PROVE TypeOK'
  <2>1. log[run[r].id] \in Seq(Block) /\ out \in Seq(Block)
    BY <1>1, <1>3 DEF TypeOK, AgentEnds, At
  <2>2. log' \in [1..MaxClock -> Seq(Block)]
    BY <1>1, <1>3, <2>1, LogTypes DEF TypeOK, AgentEnds, At
  <2>3. run' \in [Runs -> {None} \cup RunState]
    BY <1>3, GoesType DEF AgentEnds, At
  <2> QED
    BY <1>3, <2>2, <2>3 DEF TypeOK, AgentEnds
<1>4. CASE Check(r) \/ Try(r) \/ Judge(r)
  <2>1. run' \in [Runs -> {None} \cup RunState]
    BY <1>4, GoesType DEF Check, Try, Judge, At
  <2> QED
    BY <1>4, <2>1 DEF TypeOK, Check, Try, Judge
<1>5. CASE Stage(r)
  <2>1. Log(r) \in Seq(Block)
    BY <1>1, <1>5 DEF TypeOK, Stage, At, Log
  <2>2. run' \in [Runs -> {None} \cup RunState]
    <3>1. CASE Goes(r, "try")
      BY <1>5, <3>1, GoesType DEF Stage, At
    <3>2. CASE run' = [run EXCEPT ![r].pc = "apply", ![r].todo = Log(r)]
      BY <1>1, <1>5, <2>1, <3>2 DEF TypeOK, Stage, At, RunState
    <3> QED
      BY <1>5, <3>1, <3>2 DEF Stage
  <2>3. staged' \in [1..MaxClock -> Seq(Block)]
    BY <1>5, <2>1 DEF TypeOK, Stage
  <2> QED
    BY <1>5, <2>2, <2>3 DEF TypeOK, Stage
<1>6. CASE Read(r)
  <2>1. staged[run[r].id] \in Seq(Block)
    BY <1>1, <1>6 DEF TypeOK, Read, At
  <2>2. run' \in [Runs -> {None} \cup RunState]
    BY <1>1, <1>6, <2>1 DEF TypeOK, Read, At, RunState
  <2> QED
    BY <1>6, <2>2 DEF TypeOK, Read
<1>7. CASE Apply(r)
  <2>1. Head(run[r].todo) \in Block /\ Tail(run[r].todo) \in Seq(Block)
    BY <1>1, <1>7, LogTypes DEF Apply, At
  <2>2. CASE Ends(r, "refused") /\ UNCHANGED disk
    BY <1>7, <2>2, GoesType DEF TypeOK, Apply, At
  <2>3. CASE disk' = Written(disk, r, Head(run[r].todo)) /\ Disturbs(r, [run[r] EXCEPT !.todo = Tail(@)])
    <3>1. [run[r] EXCEPT !.todo = Tail(@)] \in RunState
      BY <1>1, <1>7, <2>1 DEF Apply, At, RunState
    <3>2. run' \in [Runs -> {None} \cup RunState]
      BY <2>3, <3>1, DisturbsType
    <3>3. disk' \in [Paths -> {None} \cup File]
      BY <2>1, <2>3, WrittenType DEF TypeOK
    <3> QED
      BY <1>7, <3>2, <3>3 DEF TypeOK, Apply
  <2> QED
    BY <1>7, <2>2, <2>3 DEF Apply
<1>8. CASE Fault(r)
  <2>1. Head(run[r].todo) \in Block
    BY <1>1, <1>8, LogTypes DEF Fault, At
  <2>2. disk' \in [Paths -> {None} \cup File]
    BY <1>8, <2>1 DEF TypeOK, Fault, File, Block
  <2>3. [run[r] EXCEPT !.pc = "over", !.result = "failed"] \in RunState
    BY <1>1, <1>8 DEF Fault, At, RunState
  <2>4. run' \in [Runs -> {None} \cup RunState]
    BY <1>8, <2>3, DisturbsType DEF Fault
  <2>5. faults' \in 0..MaxFaults
    BY <1>8 DEF TypeOK, Fault
  <2> QED
    BY <1>8, <2>2, <2>4, <2>5 DEF TypeOK, Fault
<1> QED
  BY <1>2, <1>3, <1>4, <1>5, <1>6, <1>7, <1>8 DEF Step

\* The types of the workspace, the logs, the staged files and the runs.
THEOREM TypeCorrect == Spec => []TypeOK
<1>1. Init => TypeOK
  <2> SUFFICES ASSUME Init PROVE TypeOK
    OBVIOUS
  <2>1. disk \in [Paths -> {None} \cup File]
    BY DEF Init, File, Says
  <2>2. /\ run \in [Runs -> {None} \cup RunState]
        /\ log \in [1..MaxClock -> Seq(Block)] /\ staged \in [1..MaxClock -> Seq(Block)]
    BY DEF Init
  <2>3. clock \in 1..MaxClock /\ faults \in 0..MaxFaults
    BY DEF Init
  <2> QED
    BY <2>1, <2>2, <2>3 DEF TypeOK
<1>2. TypeOK /\ [Next]_vars => TypeOK'
  <2> SUFFICES ASSUME TypeOK, [Next]_vars PROVE TypeOK'
    OBVIOUS
  <2>1. CASE \E r \in Runs : (\E conf \in Configs : Start(r, conf)) \/ Step(r) \/ Fault(r)
    BY <2>1, StepType
  <2>2. ASSUME NEW s \in Specs, NewSpec(s) PROVE TypeOK'
    <3>1. run' \in [Runs -> {None} \cup RunState]
      BY <2>2, DisturbsType DEF NewSpec
    <3>2. disk' \in [Paths -> {None} \cup File]
      BY <2>2 DEF TypeOK, NewSpec, File, Says
    <3> QED
      BY <2>2, <3>1, <3>2 DEF TypeOK, NewSpec
  <2>3. CASE Tick
    BY <2>3 DEF TypeOK, Tick
  <2>4. CASE UNCHANGED vars
    BY <2>4 DEF TypeOK, vars
  <2> QED
    BY <2>1, <2>2, <2>3, <2>4 DEF Next
<1> QED
  BY <1>1, <1>2, PTL DEF Spec

-----------------------------------------------------------------------------
(***************************************************************************)
(* What a run may know of itself while others work.                        *)
(***************************************************************************)

\* q goes on as it is: only whether it is alone may change.
Kept(q) ==
  /\ run'[q] = None <=> run[q] = None
  /\ run[q] # None =>
       /\ run'[q].pc = run[q].pc /\ run'[q].conf = run[q].conf /\ run'[q].id = run[q].id
       /\ run'[q].todo = run[q].todo /\ run'[q].result = run[q].result

\* A step of one run leaves the others as they are, and its own command line and second.
LEMMA OthersKept ==
  ASSUME TypeOK, TypeOK', NEW r \in Runs,
         (\E conf \in Configs : Start(r, conf)) \/ Step(r) \/ Fault(r)
  PROVE  /\ \A q \in Runs \ {r} : Kept(q)
         /\ run'[r] # None
         /\ run[r] # None => run'[r].conf = run[r].conf /\ run'[r].id = run[r].id
<1>1. run[r] # None => run[r] \in RunState
  BY DEF TypeOK
<1>2. ASSUME NEW q \in Runs \ {r}, run[q] # None
      PROVE  /\ run[q] \in RunState /\ [run[q] EXCEPT !.alone = FALSE] \in RunState
             /\ [run[q] EXCEPT !.alone = FALSE].pc = run[q].pc
             /\ [run[q] EXCEPT !.alone = FALSE].conf = run[q].conf
             /\ [run[q] EXCEPT !.alone = FALSE].id = run[q].id
             /\ [run[q] EXCEPT !.alone = FALSE].todo = run[q].todo
             /\ [run[q] EXCEPT !.alone = FALSE].result = run[q].result
  <2>1. run[q] \in RunState
    BY <1>2 DEF TypeOK
  <2> QED
    BY <2>1 DEF RunState
<1>3. ASSUME NEW me \in RunState, run[r] # None, me.conf = run[r].conf, me.id = run[r].id,
             run' = [run EXCEPT ![r] = me] \/ Disturbs(r, me)
      PROVE  /\ \A q \in Runs \ {r} : Kept(q)
             /\ run'[r] # None
             /\ run'[r].conf = run[r].conf /\ run'[r].id = run[r].id
  <2>1. run'[r] = me
    BY <1>3 DEF TypeOK, Disturbs
  <2>2. ASSUME NEW q \in Runs \ {r} PROVE Kept(q)
    <3>1. run'[q] = run[q] \/ (run[q] # None /\ run'[q] = [run[q] EXCEPT !.alone = FALSE])
      BY <1>3 DEF TypeOK, Disturbs
    <3> QED
      BY <1>2, <3>1 DEF Kept
  <2> QED
    BY <1>3, <2>1, <2>2
<1>4. ASSUME NEW conf \in Configs, Start(r, conf)
      PROVE  (\A q \in Runs \ {r} : Kept(q)) /\ run'[r] # None /\ run[r] = None
  <2>1. [pc |-> "agent", conf |-> conf, id |-> clock, todo |-> <<>>, alone |-> TRUE,
         result |-> None] \in RunState
    BY DEF TypeOK, RunState
  <2>2. run'[r] \in RunState /\ run[r] = None
    BY <1>4, <2>1 DEF TypeOK, Start
  <2>3. \A q \in Runs \ {r} : run'[q] = run[q]
    BY <1>4 DEF TypeOK, Start
  <2> QED
    BY <2>2, <2>3 DEF Kept
<1>5. ASSUME Step(r) \/ Fault(r)
      PROVE  /\ run[r] # None
             /\ \E me \in RunState : /\ me.conf = run[r].conf /\ me.id = run[r].id
                                     /\ run' = [run EXCEPT ![r] = me] \/ Disturbs(r, me)
  <2>1. run[r] # None /\ run[r] \in RunState
    BY <1>1, <1>5 DEF Step, AgentEnds, Check, Stage, Try, Read, Apply, Judge, Fault, At
  <2>2. ASSUME NEW to \in {"check", "stage", "try", "read", "judge"}, Goes(r, to)
        PROVE  \E me \in RunState : me.conf = run[r].conf /\ me.id = run[r].id
                                    /\ run' = [run EXCEPT ![r] = me]
    <3> DEFINE me == [run[r] EXCEPT !.pc = to]
    <3>1. run' = [run EXCEPT ![r] = me]
      BY <2>2 DEF TypeOK, Goes
    <3>2. me \in RunState
      BY <2>1 DEF RunState
    <3>3. me.conf = run[r].conf /\ me.id = run[r].id
      BY <2>1 DEF RunState
    <3> HIDE DEF me
    <3> QED BY <3>1, <3>2, <3>3
  <2>3. ASSUME NEW res \in {"agent", "refused", "failed", "invalid", "conflict", "pass"},
               Ends(r, res)
        PROVE  \E me \in RunState : me.conf = run[r].conf /\ me.id = run[r].id
                                    /\ run' = [run EXCEPT ![r] = me]
    <3> DEFINE me == [run[r] EXCEPT !.pc = "over", !.result = res]
    <3>1. run' = [run EXCEPT ![r] = me]
      BY <2>3 DEF TypeOK, Ends
    <3>2. me \in RunState
      BY <2>1 DEF RunState
    <3>3. me.conf = run[r].conf /\ me.id = run[r].id
      BY <2>1 DEF RunState
    <3> HIDE DEF me
    <3> QED BY <3>1, <3>2, <3>3
  <2>4. ASSUME NEW todo \in Seq(Block), run' = [run EXCEPT ![r].pc = "apply", ![r].todo = todo]
        PROVE  \E me \in RunState : me.conf = run[r].conf /\ me.id = run[r].id
                                    /\ run' = [run EXCEPT ![r] = me]
    <3> DEFINE me == [run[r] EXCEPT !.pc = "apply", !.todo = todo]
    <3>1. run' = [run EXCEPT ![r] = me]
      BY <2>4 DEF TypeOK
    <3>2. me \in RunState
      BY <2>1 DEF RunState
    <3>3. me.conf = run[r].conf /\ me.id = run[r].id
      BY <2>1 DEF RunState
    <3> HIDE DEF me
    <3> QED BY <3>1, <3>2, <3>3
  <2>5. CASE Step(r) /\ ~Apply(r)
    <3>1. Log(r) \in Seq(Block) /\ staged[run[r].id] \in Seq(Block)
      BY <2>1 DEF TypeOK, RunState, Log
    <3>2. \/ \E to \in {"check", "stage", "try", "read", "judge"} : Goes(r, to)
          \/ \E res \in {"agent", "refused", "failed", "invalid", "conflict", "pass"} : Ends(r, res)
          \/ \E todo \in Seq(Block) : run' = [run EXCEPT ![r].pc = "apply", ![r].todo = todo]
      BY <2>5, <3>1 DEF Step, AgentEnds, Check, Stage, Try, Read, Judge
    <3> QED
      BY <2>1, <2>2, <2>3, <2>4, <3>2
  <2>6. CASE Apply(r) \/ Fault(r)
    <3>1. run[r].todo # <<>> => Tail(run[r].todo) \in Seq(Block)
      BY <2>1, LogTypes DEF RunState
    <3>2. CASE run[r].todo # <<>> /\ Disturbs(r, [run[r] EXCEPT !.todo = Tail(@)])
      <4> DEFINE me == [run[r] EXCEPT !.todo = Tail(@)]
      <4>1. me.conf = run[r].conf /\ me.id = run[r].id /\ me \in RunState
        BY <2>1, <3>1, <3>2 DEF RunState
      <4>2. Disturbs(r, me)
        BY <3>2
      <4> HIDE DEF me
      <4> QED
        BY <2>1, <4>1, <4>2
    <3>3. CASE Disturbs(r, [run[r] EXCEPT !.pc = "over", !.result = "failed"])
      <4> DEFINE me == [run[r] EXCEPT !.pc = "over", !.result = "failed"]
      <4>1. me.conf = run[r].conf /\ me.id = run[r].id /\ me \in RunState
        BY <2>1 DEF RunState
      <4>2. Disturbs(r, me)
        BY <3>3
      <4> HIDE DEF me
      <4> QED
        BY <2>1, <4>1, <4>2
    <3> QED
      BY <2>1, <2>3, <2>6, <3>2, <3>3 DEF Apply, Fault
  <2> QED
    BY <1>5, <2>1, <2>5, <2>6
<1> QED
  BY <1>3, <1>4, <1>5

-----------------------------------------------------------------------------
(***************************************************************************)
(* What runs write, and what they have not begun to write.                 *)
(***************************************************************************)

Unwritten(d, r) == \A p \in Paths : d[p] = None \/ d[p].by # r

\* A run that has not started has written nothing, and no run beyond its rights.
RightsInv ==
  \A r \in Runs, p \in Paths :
    disk[p] # None /\ disk[p].by = r => run[r] # None /\ Permits(run[r].conf, p)

\* What a step of a run writes: nothing, or one file that its command line permits, by a
\* run that is at the writing.
LEMMA StepWrites ==
  ASSUME TypeOK, NEW r \in Runs,
         (\E conf \in Configs : Start(r, conf)) \/ Step(r) \/ Fault(r)
  PROVE  \/ disk' = disk
         \/ /\ At(r, "apply") /\ run[r].todo # <<>>
            /\ \E p \in Paths, f \in File :
                 f.by = r /\ Permits(run[r].conf, p) /\ disk' = [disk EXCEPT ![p] = f]
<1>1. CASE disk' = disk
  BY <1>1
<1>2. CASE disk' # disk
  <2>1. Apply(r) \/ Fault(r)
    BY <1>2 DEF Start, Step, AgentEnds, Check, Stage, Try, Read, Judge
  <2>2. At(r, "apply") /\ run[r].todo # <<>> /\ Permits(run[r].conf, Head(run[r].todo).path)
    BY <1>2, <2>1 DEF Apply, Fault
  <2>3. run[r].todo \in Seq(Block)
    BY <2>2 DEF TypeOK, At, RunState
  <2>4. Head(run[r].todo).path \in Paths /\ Head(run[r].todo).says \in Says
    BY <2>2, <2>3, LogTypes DEF Block
  <2>5. \E f \in File : f.by = r /\ disk' = [disk EXCEPT ![Head(run[r].todo).path] = f]
    <3>1. CASE Apply(r)
      <4> DEFINE f == [says |-> Head(run[r].todo).says, by |-> r]
      <4>1. f \in File /\ f.by = r
        BY <2>4 DEF File
      <4>2. disk' = [disk EXCEPT ![Head(run[r].todo).path] = f]
        BY <1>2, <3>1 DEF Apply, Written
      <4> HIDE DEF f
      <4> QED
        BY <4>1, <4>2
    <3>2. CASE Fault(r)
      <4> DEFINE f == [says |-> "torn", by |-> r]
      <4>1. f \in File /\ f.by = r
        BY DEF File
      <4>2. disk' = [disk EXCEPT ![Head(run[r].todo).path] = f]
        BY <1>2, <3>2 DEF Fault
      <4> HIDE DEF f
      <4> QED
        BY <4>1, <4>2
    <3> QED
      BY <2>1, <3>1, <3>2
  <2> QED
    BY <2>2, <2>4, <2>5
<1> QED
  BY <1>1, <1>2

\* A new spec is nobody's file, and changes no run.
LEMMA NewSpecKeeps ==
  ASSUME TypeOK, NEW s \in Specs, NewSpec(s)
  PROVE  /\ \A q \in Runs : Kept(q)
         /\ \A p \in Paths : disk'[p] = disk[p] \/ (disk'[p] # None /\ disk'[p].by = None)
<1>1. ASSUME NEW q \in Runs, run[q] # None
      PROVE  /\ [run[q] EXCEPT !.alone = FALSE] \in RunState
             /\ [run[q] EXCEPT !.alone = FALSE].pc = run[q].pc
             /\ [run[q] EXCEPT !.alone = FALSE].conf = run[q].conf
             /\ [run[q] EXCEPT !.alone = FALSE].id = run[q].id
             /\ [run[q] EXCEPT !.alone = FALSE].todo = run[q].todo
             /\ [run[q] EXCEPT !.alone = FALSE].result = run[q].result
  <2>1. run[q] \in RunState
    BY <1>1 DEF TypeOK
  <2> QED
    BY <2>1 DEF RunState
<1>2. ASSUME NEW q \in Runs PROVE Kept(q)
  <2>1. run'[q] = run[q] \/ (run[q] # None /\ run'[q] = [run[q] EXCEPT !.alone = FALSE])
    BY DEF TypeOK, NewSpec, Disturbs
  <2> QED
    BY <1>1, <2>1 DEF Kept
<1>3. [says |-> "fine", by |-> None] # None
  BY DEF File, Says
<1>4. ASSUME NEW p \in Paths
      PROVE  disk'[p] = disk[p] \/ (disk'[p] # None /\ disk'[p].by = None)
  BY <1>3 DEF TypeOK, NewSpec
<1> QED
  BY <1>2, <1>4

\* No step writes beyond the rights of its run.
LEMMA NextRights ==
  ASSUME TypeOK, TypeOK', RightsInv, [Next]_vars
  PROVE  RightsInv'
<1>1. ASSUME NEW r \in Runs, (\E conf \in Configs : Start(r, conf)) \/ Step(r) \/ Fault(r)
      PROVE  RightsInv'
  <2>1. \A q \in Runs : run[q] # None => run'[q] # None /\ run'[q].conf = run[q].conf
    BY <1>1, OthersKept DEF Kept
  <2>2. CASE disk' = disk
    BY <2>1, <2>2 DEF RightsInv
  <2>3. CASE /\ At(r, "apply")
             /\ \E p \in Paths, f \in File :
                  f.by = r /\ Permits(run[r].conf, p) /\ disk' = [disk EXCEPT ![p] = f]
    <3>1. PICK p \in Paths, f \in File :
            f.by = r /\ Permits(run[r].conf, p) /\ disk' = [disk EXCEPT ![p] = f]
      BY <2>3
    <3>2. \A o \in Paths : disk'[o] = IF o = p THEN f ELSE disk[o]
      BY <3>1 DEF TypeOK
    <3>3. run[r] # None
      BY <2>3 DEF At
    <3> QED
      BY <2>1, <3>1, <3>2, <3>3 DEF RightsInv
  <2> QED
    BY <1>1, <2>2, <2>3, StepWrites
<1>2. ASSUME NEW s \in Specs, NewSpec(s) PROVE RightsInv'
  BY <1>2, NewSpecKeeps DEF RightsInv, Kept
<1>3. CASE Tick \/ UNCHANGED vars
  BY <1>3 DEF RightsInv, Tick, vars
<1> QED
  BY <1>1, <1>2, <1>3 DEF Next

\* No run has written anything in the beginning.
LEMMA InitWritten ==
  ASSUME Init, NEW r \in Runs
  PROVE  run[r] = None /\ Unwritten(disk, r)
<1>1. [says |-> "fine", by |-> None].by # r
  OBVIOUS
<1> QED
  BY <1>1 DEF Init, Unwritten

\* Nothing is written by a run that its own phase and roots do not allow, for any number
\* of runs at once, whatever logs and manifests of others it reads and whatever fails.
THEOREM RightsKept == Spec => []OwnRightsOnly
<1>1. Init => RightsInv
  BY InitWritten DEF RightsInv, Unwritten
<1>2. TypeOK /\ TypeOK' /\ RightsInv /\ [Next]_vars => RightsInv'
  BY NextRights
<1>3. RightsInv => OwnRightsOnly
  BY DEF RightsInv, OwnRightsOnly
<1> QED
  BY TypeCorrect, <1>1, <1>2, <1>3, PTL DEF Spec

-----------------------------------------------------------------------------
(***************************************************************************)
(* Refused runs.                                                           *)
(***************************************************************************)

\* A run that has its second for itself has written nothing before it applies, and then
\* has nothing left to write that would be refused; the log it has checked and the files
\* it has tried are still its own when it reads them again.
CleanRun(r) ==
  /\ run[r] = None => Unwritten(disk, r)
  /\ run[r] # None /\ ~SharesSecond(r) =>
       /\ run[r].pc \in {"agent", "check", "stage", "try", "read"} => Unwritten(disk, r)
       /\ run[r].result = "refused" => Unwritten(disk, r) /\ run[r].pc = "over"
       /\ run[r].pc = "stage" => Permitted(run[r].conf, log[run[r].id])
       /\ run[r].pc = "read" => Permitted(run[r].conf, staged[run[r].id])
       /\ run[r].pc = "apply" => Permitted(run[r].conf, run[r].todo)

RefusedInv == \A r \in Runs : CleanRun(r)

\* What is permitted stays so file by file.
LEMMA PermittedTail ==
  ASSUME NEW conf, NEW s \in Seq(Block), s # <<>>, Permitted(conf, s)
  PROVE  Permits(conf, Head(s).path) /\ Permitted(conf, Tail(s))
<1>1. Len(s) \in Nat \ {0} /\ Head(s) = s[1]
  OBVIOUS
<1>2. \A i \in DOMAIN Tail(s) : Tail(s)[i] = s[i + 1] /\ i + 1 \in DOMAIN s
  OBVIOUS
<1> QED
  BY <1>1, <1>2 DEF Permitted

\* A step of another run keeps a run clean: it writes no file of it, and its log and
\* staged files are those of another second, or the second is shared.
LEMMA OthersClean ==
  ASSUME TypeOK, TypeOK', NEW r \in Runs, NEW q \in Runs \ {r}, CleanRun(q),
         (\E conf \in Configs : Start(r, conf)) \/ Step(r) \/ Fault(r)
  PROVE  CleanRun(q)'
<1>1. Kept(q) /\ run'[r] # None
      /\ (run[r] # None => run'[r].id = run[r].id)
  BY OthersKept
<1>2. Unwritten(disk, q) => Unwritten(disk', q)
  <2>1. CASE disk' = disk
    BY <2>1
  <2>2. CASE \E p \in Paths, f \in File : f.by = r /\ disk' = [disk EXCEPT ![p] = f]
    BY <2>2 DEF TypeOK, Unwritten
  <2> QED
    BY <2>1, <2>2, StepWrites
<1>3. SharesSecond(q) /\ run[q] # None => SharesSecond(q)'
  <2> SUFFICES ASSUME NEW o \in Runs \ {q}, run[o] # None, run[o].id = run[q].id, run[q] # None
               PROVE  run'[o] # None /\ run'[o].id = run'[q].id
    BY DEF SharesSecond
  <2>1. o # r => Kept(o)
    BY OthersKept
  <2> QED
    BY <1>1, <2>1 DEF Kept
<1>4. run[q] # None /\ ~SharesSecond(q)' =>
        log'[run[q].id] = log[run[q].id] /\ staged'[run[q].id] = staged[run[q].id]
  <2> SUFFICES ASSUME run[q] # None, run'[r].id # run[q].id
               PROVE  log'[run[q].id] = log[run[q].id] /\ staged'[run[q].id] = staged[run[q].id]
    BY <1>1 DEF SharesSecond, Kept
  <2>1. run[q].id \in 1..MaxClock
    BY DEF TypeOK, RunState
  <2>2. ASSUME NEW conf \in Configs, Start(r, conf)
        PROVE  log'[run[q].id] = log[run[q].id] /\ staged'[run[q].id] = staged[run[q].id]
    <3>1. run'[r].id = clock
      BY <2>2 DEF TypeOK, Start
    <3> QED
      BY <2>1, <2>2, <3>1 DEF TypeOK, Start
  <2>3. CASE Step(r) \/ Fault(r)
    <3>1. run[r] # None /\ run[r].id # run[q].id
      BY <1>1, <2>3 DEF Step, AgentEnds, Check, Stage, Try, Read, Apply, Judge, Fault, At
    <3> QED
      BY <2>1, <2>3, <3>1
         DEF TypeOK, Step, AgentEnds, Check, Stage, Try, Read, Apply, Judge, Fault
  <2> QED
    BY <2>2, <2>3
<1> QED
  BY <1>1, <1>2, <1>3, <1>4 DEF CleanRun, Kept

\* A run's own step keeps it clean: it goes on with what it has checked.
LEMMA OwnClean ==
  ASSUME TypeOK, TypeOK', NEW r \in Runs, CleanRun(r),
         (\E conf \in Configs : Start(r, conf)) \/ Step(r) \/ Fault(r)
  PROVE  CleanRun(r)'
<1>1. run'[r] # None /\ (run[r] # None => run'[r].conf = run[r].conf /\ run'[r].id = run[r].id)
  BY OthersKept
<1>2. run[r] # None => run[r] \in RunState /\ run[r].id \in 1..MaxClock /\ run[r].todo \in Seq(Block)
  BY DEF TypeOK, RunState
<1>3. run[r] # None /\ SharesSecond(r) => SharesSecond(r)'
  <2> SUFFICES ASSUME NEW o \in Runs \ {r}, run[o] # None, run[o].id = run[r].id, run[r] # None
               PROVE  run'[o] # None /\ run'[o].id = run'[r].id
    BY DEF SharesSecond
  <2>1. Kept(o)
    BY OthersKept
  <2> QED
    BY <1>1, <2>1 DEF Kept
<1>4. ASSUME NEW conf \in Configs, Start(r, conf) PROVE CleanRun(r)'
  <2>1. run'[r].pc = "agent" /\ run'[r].result = None
    BY <1>4 DEF TypeOK, Start
  <2> QED
    BY <1>1, <1>4, <2>1 DEF Start, CleanRun, Unwritten
<1>5. SUFFICES ASSUME run[r] # None, ~SharesSecond(r), Step(r) \/ Fault(r)
               PROVE  CleanRun(r)'
  BY <1>1, <1>3, <1>4
     DEF CleanRun, Step, AgentEnds, Check, Stage, Try, Read, Apply, Judge, Fault, At
<1>6. ASSUME NEW out \in Outputs, AgentEnds(r, out) PROVE CleanRun(r)'
  <2>1. \/ run'[r].pc = "over" /\ run'[r].result = "agent"
        \/ run'[r].pc \in {"judge", "check"} /\ run'[r].result = run[r].result
    BY <1>2, <1>5, <1>6 DEF AgentEnds, At, Ends, Goes, TypeOK, RunState
  <2> QED
    BY <1>1, <1>5, <1>6, <2>1 DEF CleanRun, AgentEnds, At
<1>7. CASE Check(r)
  <2>1. \/ run'[r].pc = "over" /\ run'[r].result = "refused"
        \/ run'[r].pc = "stage" /\ run'[r].result = run[r].result /\ Permitted(run[r].conf, Log(r))
    BY <1>2, <1>5, <1>7 DEF Check, At, Ends, Goes, TypeOK, RunState
  <2> QED
    BY <1>1, <1>5, <1>7, <2>1 DEF CleanRun, Check, At, Log
<1>8. CASE Stage(r)
  <2>1. \/ run'[r].pc = "try" /\ run'[r].result = run[r].result
        \/ run'[r].pc = "apply" /\ run'[r].todo = Log(r) /\ run'[r].result = run[r].result
    BY <1>2, <1>5, <1>8 DEF Stage, At, Goes, TypeOK, RunState
  <2> QED
    BY <1>1, <1>5, <1>8, <2>1 DEF CleanRun, Stage, At, Log
<1>9. CASE Try(r)
  <2>1. \/ run'[r].pc = "over" /\ run'[r].result = "refused"
        \/ run'[r].pc = "read" /\ run'[r].result = run[r].result
           /\ Permitted(run[r].conf, staged[run[r].id])
    BY <1>2, <1>5, <1>9 DEF Try, At, Ends, Goes, TypeOK, RunState
  <2> QED
    BY <1>1, <1>5, <1>9, <2>1 DEF CleanRun, Try, At
<1>10. CASE Read(r)
  <2>1. run'[r].pc = "apply" /\ run'[r].todo = staged[run[r].id] /\ run'[r].result = run[r].result
    BY <1>2, <1>5, <1>10 DEF Read, At, TypeOK, RunState
  <2> QED
    BY <1>1, <1>5, <1>10, <2>1 DEF CleanRun, Read, At
<1>11. CASE Apply(r)
  <2>1. Permits(run[r].conf, Head(run[r].todo).path) /\ Permitted(run[r].conf, Tail(run[r].todo))
    BY <1>2, <1>5, <1>11, PermittedTail DEF CleanRun, Apply, At
  <2>2. Disturbs(r, [run[r] EXCEPT !.todo = Tail(@)])
    BY <1>11, <2>1 DEF Apply
  <2>3. run'[r] = [run[r] EXCEPT !.todo = Tail(@)]
    BY <2>2 DEF Disturbs
  <2>4. run'[r].pc = "apply" /\ run'[r].todo = Tail(run[r].todo) /\ run'[r].result = run[r].result
    BY <1>2, <1>5, <1>11, <2>3 DEF Apply, At, RunState
  <2> QED
    BY <1>1, <1>5, <1>11, <2>1, <2>4 DEF CleanRun, Apply, At
<1>12. CASE Judge(r)
  <2>1. run'[r].pc = "over" /\ run'[r].result \in {"invalid", "conflict", "pass"}
    BY <1>2, <1>5, <1>12 DEF Judge, At, Ends, TypeOK, RunState
  <2> QED
    BY <1>1, <2>1 DEF CleanRun
<1>13. CASE Fault(r)
  <2>1. run'[r].pc = "over" /\ run'[r].result = "failed"
    BY <1>2, <1>5, <1>13 DEF Fault, Disturbs, RunState
  <2> QED
    BY <1>1, <2>1 DEF CleanRun
<1> QED
  BY <1>5, <1>6, <1>7, <1>8, <1>9, <1>10, <1>11, <1>12, <1>13 DEF Step

\* A new spec of another feature keeps every run clean.
LEMMA NewSpecClean ==
  ASSUME TypeOK, NEW s \in Specs, NewSpec(s), RefusedInv
  PROVE  RefusedInv'
<1>1. ASSUME NEW r \in Runs PROVE CleanRun(r)'
  <2>1. \A q \in Runs : Kept(q)
    BY NewSpecKeeps
  <2>2. Unwritten(disk, r) => Unwritten(disk', r)
    BY NewSpecKeeps DEF Unwritten
  <2>3. run[r] # None /\ SharesSecond(r) => SharesSecond(r)'
    BY <2>1 DEF SharesSecond, Kept
  <2> QED
    BY <2>1, <2>2, <2>3 DEF RefusedInv, CleanRun, NewSpec, Kept
<1> QED
  BY <1>1 DEF RefusedInv

\* All or nothing: what a run refuses it has not begun to write, for any number of runs at
\* once and of writes that fail, unless another run shares its second.
THEOREM RefusedWroteNothing == Spec => []RefusedLeavesNothing
<1>1. Init => RefusedInv
  BY InitWritten DEF RefusedInv, CleanRun
<1>2. TypeOK /\ TypeOK' /\ RefusedInv /\ [Next]_vars => RefusedInv'
  <2> SUFFICES ASSUME TypeOK, TypeOK', RefusedInv, [Next]_vars PROVE RefusedInv'
    OBVIOUS
  <2>1. ASSUME NEW r \in Runs, (\E conf \in Configs : Start(r, conf)) \/ Step(r) \/ Fault(r)
        PROVE  RefusedInv'
    BY <2>1, OthersClean, OwnClean DEF RefusedInv
  <2>2. CASE \E s \in Specs : NewSpec(s)
    BY <2>2, NewSpecClean
  <2>3. CASE Tick \/ UNCHANGED vars
    BY <2>3 DEF RefusedInv, CleanRun, SharesSecond, Tick, vars
  <2> QED
    BY <2>1, <2>2, <2>3 DEF Next
<1>3. RefusedInv => RefusedLeavesNothing
  BY DEF RefusedInv, CleanRun, RefusedLeavesNothing, Unwritten
<1> QED
  BY TypeCorrect, <1>1, <1>2, <1>3, PTL DEF Spec

-----------------------------------------------------------------------------
(***************************************************************************)
(* Trials.                                                                 *)
(***************************************************************************)

\* A non-empty set of positions of a sequence has a last one.
LEMMA LastPosition ==
  ASSUME NEW n \in Nat, NEW T \in SUBSET (1..n), T # {}
  PROVE  Max(T) \in T /\ \A i \in T : i <= Max(T)
<1> DEFINE Behind == {n - i : i \in T}
           Less == {ss \in Nat \X Nat : ss[1] < ss[2]}
<1>1. Behind \in SUBSET Nat /\ Behind # {}
  <2>1. \A i \in T : n - i \in Nat
    OBVIOUS
  <2>2. PICK i \in T : TRUE
    OBVIOUS
  <2>3. n - i \in Behind
    BY <2>2
  <2> QED
    BY <2>1, <2>3
<1>2. IsWellFoundedOn(Less, Nat)
  BY NatLessThanWellFounded DEF OpToRel
<1>3. \A x, y \in Nat : ~ (<<y, x>> \in Less) => x <= y
  OBVIOUS
<1>4. \E x \in Behind : \A y \in Behind : ~ (<<y, x>> \in Less)
  <2> HIDE DEF Behind, Less
  <2> QED BY <1>1, <1>2, WFMin
<1>5. PICK i \in T : \A j \in T : ~ (<<n - j, n - i>> \in Less)
  BY <1>4
<1>6. \A j \in T : i >= j
  <2> TAKE j \in T
  <2>1. n - i \in Nat /\ n - j \in Nat
    OBVIOUS
  <2>2. n - i <= n - j
    BY <1>3, <1>5, <2>1
  <2> QED
    BY <2>2
<1>7. Max(T) \in T /\ \A j \in T : Max(T) >= j
  BY <1>6 DEF Max
<1> QED
  BY <1>7

\* The last position is the only one that none follows.
LEMMA LastUnique ==
  ASSUME NEW n \in Nat, NEW T \in SUBSET (1..n), NEW i \in T, \A j \in T : j <= i
  PROVE  Max(T) = i
<1> DEFINE m == Max(T)
<1>1. m \in T /\ i <= m
  BY LastPosition
<1> HIDE DEF m
<1>2. m \in Nat /\ i \in Nat /\ m <= i
  BY <1>1
<1>3. m = i
  BY <1>1, <1>2
<1> QED
  BY <1>3 DEF m

\* Nothing written is nothing changed.
LEMMA NoneWritten ==
  ASSUME NEW d \in [Paths -> {None} \cup File], NEW r
  PROVE  AllWritten(d, r, <<>>) = d
<1> DEFINE Of(p) == {i \in DOMAIN <<>> : <<>>[i].path = p}
<1>1. \A p : Of(p) = {}
  OBVIOUS
<1> HIDE DEF Of
<1>2. AllWritten(d, r, <<>>) = [p \in Paths |-> d[p]]
  BY <1>1, Zenon DEF AllWritten, Of
<1> QED
  BY <1>2

\* Writing the first block and then the others is writing them all.
LEMMA WrittenInTurn ==
  ASSUME NEW d \in [Paths -> {None} \cup File], NEW r, NEW s \in Seq(Block), s # <<>>
  PROVE  AllWritten(Written(d, r, Head(s)), r, Tail(s)) = AllWritten(d, r, s)
<1> DEFINE t == Tail(s)
           Of(p) == {i \in DOMAIN s : s[i].path = p}
           Later(p) == {i \in DOMAIN t : t[i].path = p}
           e == Written(d, r, Head(s))
<1>1. /\ Len(s) \in Nat \ {0} /\ Head(s) = s[1] /\ 1 \in DOMAIN s /\ DOMAIN s = 1..Len(s)
      /\ t \in Seq(Block) /\ Len(t) = Len(s) - 1 /\ Len(t) \in Nat /\ DOMAIN t = 1..Len(t)
      /\ \A i \in DOMAIN t : t[i] = s[i + 1] /\ i + 1 \in DOMAIN s
  OBVIOUS
<1>2. \A i \in DOMAIN s : i # 1 => i - 1 \in DOMAIN t /\ t[i - 1] = s[i]
  BY <1>1
<1>3. AllWritten(d, r, s)
        = [p \in Paths |-> IF Of(p) = {} THEN d[p] ELSE [says |-> s[Max(Of(p))].says, by |-> r]]
  BY DEF AllWritten
<1>4. AllWritten(e, r, t)
        = [p \in Paths |-> IF Later(p) = {} THEN e[p]
                           ELSE [says |-> t[Max(Later(p))].says, by |-> r]]
  BY DEF AllWritten
<1>5. \A p : Of(p) \in SUBSET (1..Len(s)) /\ Later(p) \in SUBSET (1..Len(t))
  BY <1>1
<1>6. \A p \in Paths : e[p] = IF p = Head(s).path THEN [says |-> Head(s).says, by |-> r] ELSE d[p]
  BY DEF Written
<1>7. ASSUME NEW p \in Paths
      PROVE  (IF Later(p) = {} THEN e[p] ELSE [says |-> t[Max(Later(p))].says, by |-> r])
               = (IF Of(p) = {} THEN d[p] ELSE [says |-> s[Max(Of(p))].says, by |-> r])
  <2>1. \A i \in Of(p) : i # 1 => i - 1 \in Later(p)
    BY <1>2
  <2>2. \A i \in Later(p) : i + 1 \in Of(p)
    BY <1>1
  <2>3. 1 \in Of(p) <=> Head(s).path = p
    BY <1>1
  <2>4. CASE Later(p) = {} /\ Of(p) = {}
    <3>1. e[p] = d[p]
      BY <1>6, <2>3, <2>4
    <3> HIDE DEF Of, Later, e, t
    <3> QED BY <2>4, <3>1
  <2>5. CASE Later(p) = {} /\ Of(p) # {}
    <3>1. Of(p) = {1}
      BY <2>1, <2>5
    <3>2. Max(Of(p)) = 1
      <4>1. Len(s) \in Nat /\ Of(p) \in SUBSET (1..Len(s))
        BY <1>1, <1>5
      <4>2. 1 \in Of(p) /\ \A j \in Of(p) : j <= 1
        BY <3>1
      <4> HIDE DEF Of
      <4> QED
        BY <4>1, <4>2, LastUnique
    <3>3. e[p] = [says |-> s[1].says, by |-> r]
      BY <1>1, <1>6, <2>3, <3>1
    <3> HIDE DEF Of, Later, e, t
    <3> QED BY <2>5, <3>2, <3>3
  <2>6. CASE Later(p) # {}
    <3> DEFINE m == Max(Later(p))
    <3>1. m \in Later(p) /\ \A i \in Later(p) : i <= m
      <4> HIDE DEF Later
      <4> QED BY <1>1, <1>5, <2>6, LastPosition
    <3>2. m \in 1..Len(t) /\ m \in DOMAIN t
      BY <1>1, <3>1
    <3> HIDE DEF m
    <3>3. m + 1 \in Of(p)
      BY <2>2, <3>1
    <3>4. \A i \in Of(p) : i <= m + 1
      <4> TAKE i \in Of(p)
      <4>1. i \in 1..Len(s)
        BY <1>1
      <4>2. CASE i # 1
        <5>1. i - 1 <= m
          BY <2>1, <3>1, <4>2
        <5> HIDE DEF Of
        <5> QED BY <3>2, <4>1, <5>1
      <4>3. CASE i = 1
        BY <3>2, <4>3
      <4> QED
        BY <4>2, <4>3
    <3>5. Max(Of(p)) = m + 1
      <4> HIDE DEF Of
      <4> QED BY <1>1, <1>5, <3>3, <3>4, LastUnique
    <3>6. t[m] = s[m + 1]
      BY <1>1, <3>2
    <3>7. Of(p) # {}
      BY <3>3
    <3> HIDE DEF Of, Later, e, t
    <3> QED BY <2>6, <3>5, <3>6, <3>7 DEF m
  <2> QED
    BY <2>4, <2>5, <2>6
<1> HIDE DEF Of, Later
<1>8. AllWritten(e, r, t) = AllWritten(d, r, s)
  BY <1>3, <1>4, <1>7, Zenon
<1> QED
  BY <1>8

\* A run with a trial, alone and with its second for itself: what it has left to write makes
\* the workspace one that validates.
TriedRun(r) ==
  run[r] # None /\ run[r].conf.mode = "map" /\ run[r].alone /\ ~SharesSecond(r) =>
    /\ run[r].pc # "judge" /\ run[r].result # "invalid"
    /\ run[r].pc = "read" => Valid(AllWritten(disk, r, staged[run[r].id]), run[r].conf)
    /\ run[r].pc = "apply" => Valid(AllWritten(disk, r, run[r].todo), run[r].conf)

TrialInv == \A r \in Runs : TriedRun(r)

\* What the runs that share no second have staged is their own: no step of another run
\* changes it, and none makes a second their own again.
LEMMA OthersSecond ==
  ASSUME TypeOK, TypeOK', NEW r \in Runs, NEW q \in Runs, run[q] # None,
         (\E conf \in Configs : Start(r, conf)) \/ Step(r) \/ Fault(r), ~SharesSecond(q)'
  PROVE  /\ ~SharesSecond(q)
         /\ q # r => staged'[run[q].id] = staged[run[q].id] /\ log'[run[q].id] = log[run[q].id]
<1>1. /\ \A o \in Runs \ {r} : Kept(o)
      /\ run'[r] # None /\ (run[r] # None => run'[r].id = run[r].id)
  BY OthersKept
<1>2. ~SharesSecond(q)
  <2> SUFFICES ASSUME NEW o \in Runs \ {q}, run[o] # None, run[o].id = run[q].id
               PROVE  run'[o] # None /\ run'[o].id = run'[q].id
    BY DEF SharesSecond
  <2> QED
    BY <1>1 DEF Kept
<1>3. ASSUME q # r
      PROVE  staged'[run[q].id] = staged[run[q].id] /\ log'[run[q].id] = log[run[q].id]
  <2>1. run[q].id \in 1..MaxClock /\ run'[r].id # run[q].id
    BY <1>1, <1>3 DEF TypeOK, RunState, SharesSecond, Kept
  <2>2. ASSUME NEW conf \in Configs, Start(r, conf)
        PROVE  staged'[run[q].id] = staged[run[q].id] /\ log'[run[q].id] = log[run[q].id]
    <3>1. run'[r].id = clock
      BY <2>2 DEF TypeOK, Start
    <3> QED
      BY <2>1, <2>2, <3>1 DEF TypeOK, Start
  <2>3. CASE Step(r) \/ Fault(r)
    <3>1. run[r] # None /\ run[r].id # run[q].id
      BY <1>1, <2>1, <2>3 DEF Step, AgentEnds, Check, Stage, Try, Read, Apply, Judge, Fault, At
    <3> QED
      BY <2>1, <2>3, <3>1
         DEF TypeOK, Step, AgentEnds, Check, Stage, Try, Read, Apply, Judge, Fault
  <2> QED
    BY <2>2, <2>3
<1> QED
  BY <1>2, <1>3

\* Another run's step changes the workspace only if it says so.
LEMMA OthersTried ==
  ASSUME TypeOK, TypeOK', NEW r \in Runs, NEW q \in Runs \ {r}, TriedRun(q),
         (\E conf \in Configs : Start(r, conf)) \/ Step(r) \/ Fault(r)
  PROVE  TriedRun(q)'
<1>1. Kept(q)
  BY OthersKept
<1>2. SUFFICES ASSUME run[q] # None, run'[q].alone, ~SharesSecond(q)'
               PROVE  TriedRun(q)'
  BY <1>1 DEF TriedRun, Kept
<1>3. ~SharesSecond(q) /\ staged'[run[q].id] = staged[run[q].id]
  BY <1>2, OthersSecond
<1>4. disk' = disk /\ run[q].alone
  <2>1. run[q] \in RunState
    BY <1>2 DEF TypeOK
  <2>2. ASSUME NEW me, Disturbs(r, me) PROVE ~run'[q].alone
    <3>1. run'[q] = [run[q] EXCEPT !.alone = FALSE]
      BY <1>2, <2>2 DEF Disturbs
    <3> QED
      BY <2>1, <3>1 DEF RunState
  <2>3. \/ disk' = disk /\ run'[q] = run[q]
        \/ \E me : Disturbs(r, me)
    <3>1. ASSUME NEW conf \in Configs, Start(r, conf) PROVE disk' = disk /\ run'[q] = run[q]
      BY <3>1 DEF TypeOK, Start
    <3>2. CASE Step(r) /\ ~Apply(r)
      BY <3>2 DEF TypeOK, Step, AgentEnds, Check, Stage, Try, Read, Judge, Goes, Ends
    <3>3. CASE Apply(r) \/ Fault(r)
      BY <3>3 DEF TypeOK, Apply, Fault, Ends
    <3> QED
      BY <3>1, <3>2, <3>3 DEF Step
  <2> QED
    BY <1>2, <2>2, <2>3
<1> QED
  BY <1>1, <1>2, <1>3, <1>4 DEF TriedRun, Kept

\* A run's own step: a trial goes before every reading, and what has been tried is applied.
LEMMA OwnTried ==
  ASSUME TypeOK, TypeOK', NEW r \in Runs, TriedRun(r),
         (\E conf \in Configs : Start(r, conf)) \/ Step(r) \/ Fault(r)
  PROVE  TriedRun(r)'
<1>1. run'[r] # None /\ (run[r] # None => run'[r].conf = run[r].conf /\ run'[r].id = run[r].id)
  BY OthersKept
<1>2. run[r] # None => run[r] \in RunState /\ run[r].id \in 1..MaxClock /\ run[r].todo \in Seq(Block)
  BY DEF TypeOK, RunState
<1>3. ASSUME NEW conf \in Configs, Start(r, conf) PROVE TriedRun(r)'
  <2>1. run'[r].pc = "agent" /\ run'[r].result = None
    BY <1>3 DEF TypeOK, Start
  <2> QED
    BY <2>1 DEF TriedRun
<1>4. run[r] # None \/ \E conf \in Configs : Start(r, conf)
  BY DEF Step, AgentEnds, Check, Stage, Try, Read, Apply, Judge, Fault, At
<1>5. SUFFICES ASSUME run[r] # None, Step(r) \/ Fault(r), run'[r].alone, ~SharesSecond(r)',
                     run[r].conf.mode = "map"
               PROVE  TriedRun(r)'
  BY <1>1, <1>3, <1>4 DEF TriedRun, Step, AgentEnds, Check, Stage, Try, Read, Apply, Judge, Fault, At
<1>6. ~SharesSecond(r)
  BY <1>5, OthersSecond
<1>7. ASSUME NEW to \in {"check", "stage", "try", "read", "judge"}, Goes(r, to)
      PROVE  run'[r].pc = to /\ run'[r].result # "invalid"
  <2>1. run'[r].pc = to /\ run'[r].result = run[r].result /\ run'[r].alone = run[r].alone
    BY <1>2, <1>5, <1>7 DEF TypeOK, Goes, RunState
  <2>2. run[r].result # "invalid"
    BY <1>5, <1>6, <2>1 DEF TriedRun
  <2> QED
    BY <2>1, <2>2
<1>8. ASSUME NEW res \in {"agent", "refused", "invalid", "conflict", "pass"}, Ends(r, res)
      PROVE  run'[r].pc = "over" /\ run'[r].result = res /\ run'[r].alone = run[r].alone
  BY <1>2, <1>5, <1>8 DEF TypeOK, Ends, RunState
<1>9. ASSUME NEW out \in Outputs, AgentEnds(r, out) PROVE TriedRun(r)'
  <2>1. CASE Ends(r, "agent")
    BY <1>8, <2>1 DEF TriedRun
  <2>2. CASE Goes(r, "check")
    <3>1. run'[r].pc = "check" /\ run'[r].result # "invalid"
      BY <1>7, <2>2
    <3> QED
      BY <3>1 DEF TriedRun
  <2> QED
    BY <1>5, <1>9, <2>1, <2>2 DEF AgentEnds
<1>10. CASE Check(r)
  <2>1. CASE Ends(r, "refused")
    BY <1>8, <2>1 DEF TriedRun
  <2>2. CASE Goes(r, "stage")
    <3>1. run'[r].pc = "stage" /\ run'[r].result # "invalid"
      BY <1>7, <2>2
    <3> QED
      BY <3>1 DEF TriedRun
  <2> QED
    BY <1>10, <2>1, <2>2 DEF Check
<1>11. CASE Stage(r)
  <2>1. Goes(r, "try")
    BY <1>5, <1>11 DEF Stage
  <2> QED
    <3>1. run'[r].pc = "try" /\ run'[r].result # "invalid"
      BY <1>7, <2>1
    <3> QED
      BY <3>1 DEF TriedRun
<1>12. CASE Try(r)
  <2>1. CASE Ends(r, "refused")
    BY <1>8, <2>1 DEF TriedRun
  <2>2. CASE Goes(r, "read") /\ Valid(AllWritten(disk, r, staged[run[r].id]), run[r].conf)
    <3>1. UNCHANGED <<disk, staged>>
      BY <1>12 DEF Try
    <3>2. Valid(AllWritten(disk', r, staged'[run'[r].id]), run'[r].conf)
      BY <1>1, <1>5, <2>2, <3>1
    <3>3. run'[r].pc = "read" /\ run'[r].result # "invalid"
      BY <1>7, <2>2
    <3> QED
      BY <3>2, <3>3 DEF TriedRun
  <2> QED
    BY <1>12, <2>1, <2>2 DEF Try
<1>13. CASE Read(r)
  <2>1. /\ run'[r].pc = "apply" /\ run'[r].result = run[r].result
        /\ run'[r].alone = run[r].alone /\ run'[r].todo = staged[run[r].id]
    BY <1>2, <1>13 DEF Read, At, TypeOK, RunState
  <2>2. Valid(AllWritten(disk, r, staged[run[r].id]), run[r].conf)
    BY <1>5, <1>6, <1>13, <2>1 DEF TriedRun, Read, At
  <2>3. Valid(AllWritten(disk', r, run'[r].todo), run'[r].conf)
    BY <1>1, <1>5, <1>13, <2>1, <2>2 DEF Read
  <2> QED
    BY <1>5, <1>6, <2>1, <2>3 DEF TriedRun
<1>14. CASE Apply(r)
  <2>1. CASE Ends(r, "refused")
    BY <1>8, <2>1 DEF TriedRun
  <2>2. CASE /\ disk' = Written(disk, r, Head(run[r].todo))
             /\ Disturbs(r, [run[r] EXCEPT !.todo = Tail(@)])
    <3>1. run'[r] = [run[r] EXCEPT !.todo = Tail(@)]
      BY <2>2 DEF Disturbs
    <3>2. /\ run'[r].pc = "apply" /\ run'[r].result = run[r].result
          /\ run'[r].alone = run[r].alone /\ run'[r].todo = Tail(run[r].todo)
      BY <1>2, <1>5, <1>14, <3>1 DEF Apply, At, RunState
    <3>3. AllWritten(disk', r, run'[r].todo) = AllWritten(disk, r, run[r].todo)
      <4>1. run[r].todo \in Seq(Block) /\ run[r].todo # <<>>
        BY <1>2, <1>5, <1>14 DEF Apply
      <4>2. disk \in [Paths -> {None} \cup File]
        BY DEF TypeOK
      <4>3. AllWritten(Written(disk, r, Head(run[r].todo)), r, Tail(run[r].todo))
              = AllWritten(disk, r, run[r].todo)
        BY <4>1, <4>2, WrittenInTurn
      <4> QED
        BY <2>2, <3>2, <4>3
    <3>4. Valid(AllWritten(disk, r, run[r].todo), run[r].conf)
      BY <1>5, <1>6, <1>14, <3>2 DEF TriedRun, Apply, At
    <3>5. Valid(AllWritten(disk', r, run'[r].todo), run'[r].conf)
      BY <1>1, <1>5, <3>3, <3>4
    <3> QED
      BY <1>5, <1>6, <3>2, <3>5 DEF TriedRun
  <2> QED
    BY <1>14, <2>1, <2>2 DEF Apply
<1>15. CASE Judge(r)
  <2>1. PICK res \in {"invalid", "conflict", "pass"} :
          Ends(r, res) /\ (res = "invalid" => ~Valid(disk, run[r].conf))
    BY <1>15, Zenon DEF Judge
  <2>2. run[r].alone
    BY <1>5, <1>8, <2>1
  <2>3. run[r].pc # "judge"
    BY <1>5, <1>6, <2>2 DEF TriedRun
  <2>4. run[r].pc = "apply" /\ run[r].todo = <<>>
    BY <1>15, <2>3 DEF Judge, At
  <2>5. Valid(AllWritten(disk, r, <<>>), run[r].conf)
    BY <1>5, <1>6, <2>2, <2>4 DEF TriedRun
  <2>6. Valid(disk, run[r].conf)
    BY <2>5, NoneWritten DEF TypeOK
  <2> QED
    BY <1>8, <2>1, <2>6 DEF TriedRun
<1>16. CASE Fault(r)
  <2>1. run'[r].pc = "over" /\ run'[r].result = "failed"
    BY <1>2, <1>5, <1>16 DEF Fault, Disturbs, RunState
  <2> QED
    BY <2>1 DEF TriedRun
<1> QED
  BY <1>5, <1>9, <1>10, <1>11, <1>12, <1>13, <1>14, <1>15, <1>16 DEF Step

\* The spec of another feature is somebody else's change.
LEMMA NewSpecTried ==
  ASSUME TypeOK, NEW s \in Specs, NewSpec(s)
  PROVE  TrialInv'
<1>1. ASSUME NEW r \in Runs, run'[r] # None PROVE ~run'[r].alone
  <2>1. run[r] \in RunState /\ run'[r] = [run[r] EXCEPT !.alone = FALSE]
    BY <1>1 DEF TypeOK, NewSpec, Disturbs
  <2> QED
    BY <2>1 DEF RunState
<1> QED
  BY <1>1 DEF TrialInv, TriedRun

\* A trial decides: what has passed it leaves a workspace that validates, whatever the
\* outputs, the command lines and the files of earlier runs, unless somebody else changed
\* the workspace meanwhile or the run's second is shared.
THEOREM TrialsDecide == Spec => []TrialDecides
<1>1. Init => TrialInv
  BY InitWritten DEF TrialInv, TriedRun
<1>2. TypeOK /\ TypeOK' /\ TrialInv /\ [Next]_vars => TrialInv'
  <2> SUFFICES ASSUME TypeOK, TypeOK', TrialInv, [Next]_vars PROVE TrialInv'
    OBVIOUS
  <2>1. ASSUME NEW r \in Runs, (\E conf \in Configs : Start(r, conf)) \/ Step(r) \/ Fault(r)
        PROVE  TrialInv'
    BY <2>1, OthersTried, OwnTried DEF TrialInv
  <2>2. CASE \E s \in Specs : NewSpec(s)
    BY <2>2, NewSpecTried
  <2>3. CASE Tick \/ UNCHANGED vars
    BY <2>3 DEF TrialInv, TriedRun, SharesSecond, Tick, vars
  <2> QED
    BY <2>1, <2>2, <2>3 DEF Next
<1>3. TrialInv => TrialDecides
  BY DEF TrialInv, TriedRun, TrialDecides
<1> QED
  BY TypeCorrect, <1>1, <1>2, <1>3, PTL DEF Spec
=============================================================================
