------------------------- MODULE ProjectPipelineProofs -------------------------
(***************************************************************************)
(* Theorems about the pipeline, for any texts, answers, flags and layouts, *)
(* any number of edits and of runs that fail or die.                       *)
(***************************************************************************)
EXTENDS ProjectPipeline, FiniteSetTheorems, SequenceTheorems, WellFoundedInduction, TLAPS

-----------------------------------------------------------------------------
(***************************************************************************)
(* Conversion: plans, queues and the text with its anchors.                *)
(***************************************************************************)
\* A set of naturals with a member has a least one.
LEMMA MinIs ==
  ASSUME NEW S \in SUBSET Nat, S # {}
  PROVE  Min(S) \in S /\ \A k \in S : Min(S) <= k
<1> DEFINE Less == {ss \in Nat \X Nat : ss[1] < ss[2]}
<1>1. IsWellFoundedOn(Less, Nat)
  BY NatLessThanWellFounded DEF OpToRel
<1>2. PICK m \in S : \A k \in S : ~ (<<k, m>> \in Less)
  <2> HIDE DEF Less
  <2> QED
    BY <1>1, WFMin
<1>3. ASSUME NEW k \in S PROVE m <= k
  <2>1. k \in Nat /\ m \in Nat /\ ~ (<<k, m>> \in Less)
    <3> HIDE DEF Less
    <3> QED
      BY <1>2
  <2> QED
    BY <2>1
<1> QED
  BY <1>3, Zenon DEF Min

\* What holds at 0 and at the next number of every one below n holds up to n.
LEMMA CountUp ==
  ASSUME NEW n \in Nat, NEW S \in SUBSET (0..n), 0 \in S, \A i \in S : i < n => i + 1 \in S
  PROVE  S = 0..n
<1> DEFINE Missing == (0..n) \ S
<1> SUFFICES ASSUME Missing # {} PROVE FALSE
  OBVIOUS
<1> DEFINE Less == {ss \in Nat \X Nat : ss[1] < ss[2]}
<1>1. IsWellFoundedOn(Less, Nat)
  BY NatLessThanWellFounded DEF OpToRel
<1>2. Missing \subseteq Nat
  OBVIOUS
<1>3. PICK m \in Missing : \A k \in Missing : ~ (<<k, m>> \in Less)
  <2> HIDE DEF Less, Missing
  <2> QED
    BY <1>1, <1>2, WFMin
<1>4. m \in 0..n /\ m # 0 /\ m - 1 \in 0..n
  OBVIOUS
<1>5. m - 1 \in S
  <2>1. <<m - 1, m>> \in Less
    BY <1>4
  <2> HIDE DEF Less
  <2> QED
    BY <1>3, <1>4, <2>1
<1> QED
  BY <1>4, <1>5

LEMMA RankType ==
  ASSUME NEW S \in SUBSET Nat, NEW i \in Nat
  PROVE  Rank(S, i) \in Nat
<1> DEFINE T == {j \in S : j <= i}
<1>1. T \in SUBSET Nat /\ \A j \in T : j <= i
  OBVIOUS
<1> HIDE DEF T
<1>2. IsFiniteSet(T)
  BY <1>1, FS_BoundedSetOfNaturals
<1> QED
  BY <1>2, FS_CardinalityType DEF Rank, T

LEMMA HeadingsType ==
  ASSUME NEW t \in Seq(Line)
  PROVE  /\ Len(t) \in Nat /\ DOMAIN t = 1..Len(t) /\ \A i \in 1..Len(t) : t[i] \in Line
         /\ Headings(t) \subseteq 1..Len(t) /\ Candidates(t) \subseteq 1..Len(t)
<1>1. Len(t) \in Nat /\ DOMAIN t = 1..Len(t) /\ \A i \in 1..Len(t) : t[i] \in Line
  BY LenProperties
<1>2. Headings(t) \subseteq 1..Len(t)
  BY <1>1 DEF Headings, AllHeadings
<1>3. Existing(t) \subseteq Headings(t) /\ Major(t) \subseteq Headings(t)
  BY DEF Existing, Major
<1>4. Candidates(t) \subseteq Headings(t)
  BY <1>3 DEF Candidates
<1> QED
  BY <1>1, <1>2, <1>4

LEMMA EndType ==
  ASSUME NEW t \in Seq(Line), NEW S \in SUBSET (1..Len(t)), NEW i \in 1..Len(t)
  PROVE  EndIn(S, i, t) \in Nat
<1> DEFINE ends == {j - 1 : j \in {k \in S : k > i}} \cup {Len(t)}
<1>1. ends \in SUBSET Nat /\ ends # {}
  BY HeadingsType
<1> HIDE DEF ends
<1>2. Min(ends) \in Nat
  BY <1>1, MinIs
<1> QED
  BY <1>2 DEF EndIn, ends

LEMMA SplitsType ==
  ASSUME NEW B \in SUBSET Nat, NEW end \in Nat, \A i \in B : i > 0
  PROVE  Splits(B, end) \subseteq Spans
<1> DEFINE ends(i) == {j - 1 : j \in {k \in B : k > i}} \cup {end}
<1>1. ASSUME NEW i \in B PROVE <<i, Min(ends(i))>> \in Spans
  <2>1. ends(i) \in SUBSET Nat /\ ends(i) # {}
    OBVIOUS
  <2> HIDE DEF ends
  <2>2. Min(ends(i)) \in Nat
    BY <2>1, MinIs
  <2> QED
    BY <2>2 DEF Spans
<1>2. Splits(B, end) = {<<i, Min(ends(i))>> : i \in B}
  BY DEF Splits
<1> HIDE DEF ends
<1> QED
  BY <1>1, <1>2

\* A plan is one.
PlanEntry == [id : Nat, end : Nat, action : Actions, splits : SUBSET Spans]

LEMMA PlanType ==
  ASSUME NEW t \in Seq(Line)
  PROVE  Plan(t) \in Plans
<1> DEFINE C == Candidates(t)
           end(i) == EndIn(C, i, t)
           B(i) == Boundaries(t, i, end(i))
           entry(i) == [id |-> IF t[i].kind = "anchor" THEN t[i].n ELSE Rank(C, i), end |-> end(i),
                        action |-> Action(end(i) - i + 1, Cardinality(B(i))), splits |-> Splits(B(i), end(i))]
<1>1. C \in SUBSET (1..Len(t)) /\ C \in SUBSET Nat
  BY HeadingsType
<1>2. ASSUME NEW i \in C PROVE entry(i) \in PlanEntry
  <2>1. i \in 1..Len(t) /\ i \in Nat /\ t[i] \in Line
    BY <1>1, HeadingsType
  <2>2. (IF t[i].kind = "anchor" THEN t[i].n ELSE Rank(C, i)) \in Nat
    <3>1. Rank(C, i) \in Nat
      BY <1>1, <2>1, RankType
    <3>2. t[i].kind = "anchor" => t[i].n \in Nat
      BY <2>1 DEF Line
    <3> QED
      BY <3>1, <3>2
  <2>3. end(i) \in Nat
    BY <1>1, <2>1, EndType
  <2>4. Action(end(i) - i + 1, Cardinality(B(i))) \in Actions
    BY DEF Action, Actions
  <2>5. Splits(B(i), end(i)) \subseteq Spans
    <3>1. B(i) \subseteq Headings(t)
      BY DEF Boundaries, Internal
    <3>2. B(i) \in SUBSET Nat /\ \A j \in B(i) : j > 0
      BY <3>1, HeadingsType
    <3> HIDE DEF B, end
    <3> QED
      BY <2>3, <3>2, SplitsType
  <2> HIDE DEF C, end, B
  <2> QED
    BY <2>2, <2>3, <2>4, <2>5 DEF PlanEntry
<1>3. Plan(t) = [i \in C |-> entry(i)]
  BY DEF Plan
<1> HIDE DEF C, entry
<1>4. Plan(t) \in [C -> PlanEntry]
  BY <1>2, <1>3
<1> QED
  BY <1>1, <1>4 DEF Plans, PlanEntry

\* A queue is one: its parts, and what makes one.
LEMMA QueueParts ==
  ASSUME NEW q \in Queues
  PROVE  /\ q.of \in Seq(Line) /\ q.plan \in Plans /\ q # NoQueue
         /\ DOMAIN q.answers = DOMAIN q.proposed
         /\ \A k \in DOMAIN q.answers : q.answers[k] \in Answers /\ q.proposed[k] \subseteq Spans
<1>1. PICK S \in SUBSET Nat :
        q \in [of : Seq(Line), plan : Plans, answers : [S -> Answers], proposed : [S -> SUBSET Spans]]
  BY DEF Queues
<1>2. q.of # None
  BY <1>1, NoneAssumption
<1> QED
  BY <1>1, <1>2 DEF NoQueue

LEMMA QueueType ==
  ASSUME NEW t \in Seq(Line)
  PROVE  Queue(t, Plan(t)) \in Queues
<1> DEFINE p == Plan(t)
           asked == {p[i].id : i \in Questioned(p)}
           proposed == [q \in asked |-> UNION {p[i].splits : i \in {j \in DOMAIN p : p[j].id = q}}]
           answers == [q \in asked |-> Unanswered]
<1>1. p \in Plans
  BY PlanType
<1> HIDE DEF p
<1>2. PICK S \in SUBSET Nat : p \in [S -> PlanEntry]
  BY <1>1 DEF Plans, PlanEntry
<1>3. \A i \in DOMAIN p : p[i].id \in Nat /\ p[i].splits \subseteq Spans
  BY <1>2 DEF PlanEntry
<1>4. asked \in SUBSET Nat
  BY <1>3 DEF Questioned
<1>5. \A q \in asked : (UNION {p[i].splits : i \in {j \in DOMAIN p : p[j].id = q}}) \in SUBSET Spans
  BY <1>3
<1>6. Unanswered \in Answers
  BY DEF Unanswered, Answers
<1> HIDE DEF asked
<1>7. proposed \in [asked -> SUBSET Spans] /\ answers \in [asked -> Answers]
  BY <1>5, <1>6
<1>8. Queue(t, p) = [of |-> t, plan |-> p, answers |-> answers, proposed |-> proposed]
  BY DEF Queue, asked
<1> HIDE DEF answers, proposed
<1> QED
  BY <1>1, <1>4, <1>7, <1>8 DEF Queues, p

\* An answer more.
LEMMA AnsweredType ==
  ASSUME NEW q \in Queues, NEW f, f \in [DOMAIN q.answers -> Answers]
  PROVE  [q EXCEPT !.answers = f] \in Queues
<1>1. PICK S \in SUBSET Nat :
        q \in [of : Seq(Line), plan : Plans, answers : [S -> Answers], proposed : [S -> SUBSET Spans]]
  BY DEF Queues
<1>2. DOMAIN q.answers = S
  BY <1>1
<1>3. [q EXCEPT !.answers = f] \in
        [of : Seq(Line), plan : Plans, answers : [S -> Answers], proposed : [S -> SUBSET Spans]]
  BY <1>1, <1>2
<1> QED
  BY <1>3 DEF Queues

LEMMA SectionsType ==
  ASSUME NEW q \in Queues, NEW p \in Plans
  PROVE  Sections(q, p) \subseteq Spans
<1>1. PICK S \in SUBSET Nat : p \in [S -> PlanEntry]
  BY DEF Plans, PlanEntry
<1>2. ASSUME NEW i \in DOMAIN p PROVE SectionsOf(q, p[i], i) \subseteq Spans
  <2>1. i \in Nat /\ p[i].end \in Nat
    BY <1>1 DEF PlanEntry
  <2>2. ASSUME NEW splits \in SUBSET Spans PROVE FromParent(splits, i) \subseteq Spans
    <3> DEFINE first == Min({s[1] : s \in splits})
               moved(s) == IF s[1] = first /\ first > i THEN <<i, s[2]>> ELSE s
    <3>1. ASSUME NEW s \in splits PROVE moved(s) \in Spans
      <4>1. s \in Spans /\ <<i, s[2]>> \in Spans
        BY <2>1 DEF Spans
      <4> QED
        BY <4>1
    <3>2. FromParent(splits, i) = {moved(s) : s \in splits}
      BY DEF FromParent
    <3> HIDE DEF moved
    <3> QED
      BY <3>1, <3>2
  <2>3. p[i].id \in DOMAIN q.answers =>
          q.answers[p[i].id].splits \subseteq Spans /\ q.proposed[p[i].id] \subseteq Spans
    BY QueueParts DEF Answers
  <2>4. {<<i, p[i].end>>} \subseteq Spans
    BY <2>1 DEF Spans
  <2> QED
    BY <2>2, <2>3, <2>4 DEF SectionsOf
<1> QED
  BY <1>2 DEF Sections

\* What is inserted in front of line i.
Inserted(S, i) == IF i \in S THEN Block(Rank(S, i)) ELSE <<>>

\* Anchor goes through the lines.
LEMMA AnchorSteps ==
  ASSUME NEW t \in Seq(Line), NEW sections \in SUBSET Spans
  PROVE  \E upTo : /\ Anchor(t, sections) = upTo[Len(t)] /\ upTo[0] = <<>>
                   /\ \A i \in 1..Len(t) :
                        upTo[i] = upTo[i - 1] \o Inserted({s[1] : s \in sections}, i) \o <<t[i]>>
<1> DEFINE n == Len(t)
           starts == {s[1] : s \in sections}
           Add(u, i) == u \o Inserted(starts, i) \o <<t[i]>>
           Step(f, i) == IF i = 0 THEN <<>> ELSE Add(f[i - 1], i)
           Is(f, m) == f = [i \in 0..m |-> Step(f, i)]
           Defined == {m \in 0..n : \E f : Is(f, m)}
           upTo == CHOOSE f : Is(f, n)
<1>1. n \in Nat
  BY HeadingsType
<1>2. Anchor(t, sections) = upTo[n]
  BY DEF Anchor, Inserted
<1> HIDE DEF Add, n
<1>4. 0 \in Defined
  <2> DEFINE f == [i \in 0..0 |-> <<>>]
  <2>1. Is(f, 0)
    OBVIOUS
  <2> HIDE DEF f, Is
  <2> QED
    BY <1>1, <2>1
<1>5. ASSUME NEW m \in Defined, m < n PROVE m + 1 \in Defined
  <2>1. PICK f : Is(f, m)
    OBVIOUS
  <2> DEFINE g == [i \in 0..(m + 1) |-> IF i = m + 1 THEN Add(f[m], m + 1) ELSE f[i]]
  <2>2. m \in Nat /\ m + 1 \in 0..n
    BY <1>1, <1>5
  <2>3. \A i \in 0..(m + 1) : g[i] = Step(g, i)
    <3> TAKE i \in 0..(m + 1)
    <3>1. CASE i = m + 1
      <4>1. g[m] = f[m] /\ m + 1 # 0 /\ m + 1 - 1 = m
        BY <2>2
      <4> QED
        BY <2>2, <3>1, <4>1
    <3>2. CASE i # m + 1
      <4>1. i \in 0..m /\ g[i] = f[i]
        BY <2>2, <3>2
      <4>2. f[i] = Step(f, i)
        BY <2>1, <4>1
      <4>3. CASE i = 0
        BY <4>1, <4>2, <4>3
      <4>4. CASE i # 0
        <5>1. i - 1 \in 0..(m + 1) /\ i - 1 # m + 1
          BY <2>2, <4>1, <4>4
        <5>2. g[i - 1] = f[i - 1]
          BY <5>1
        <5> QED
          BY <4>1, <4>2, <4>4, <5>2
      <4> QED
        BY <4>3, <4>4
    <3> QED
      BY <3>1, <3>2
  <2>4. Is(g, m + 1)
    <3> DEFINE h == [i \in 0..(m + 1) |-> Step(g, i)]
    <3>1. \A i \in 0..(m + 1) : g[i] = h[i]
      BY <2>3
    <3>2. g = h
      <4> HIDE DEF Step
      <4> QED
        BY <3>1
    <3> QED
      BY <3>2
  <2> HIDE DEF g, Is
  <2> QED
    BY <2>2, <2>4
<1>6. Defined = 0..n
  <2> HIDE DEF Defined
  <2>1. Defined \in SUBSET (0..n)
    BY DEF Defined
  <2> QED
    BY <1>1, <1>4, <1>5, <2>1, CountUp
<1>7. Is(upTo, n)
  <2> HIDE DEF Is
  <2>1. \E f : Is(f, n)
    <3> HIDE DEF Defined
    <3>1. n \in Defined
      BY <1>1, <1>6
    <3> QED
      BY <3>1 DEF Defined
  <2> QED
    BY <2>1
<1> HIDE DEF upTo
<1>8. upTo[0] = <<>> /\ \A i \in 1..n : upTo[i] = Add(upTo[i - 1], i)
  BY <1>1, <1>7
<1>9. \A i \in 1..n : upTo[i] = upTo[i - 1] \o Inserted(starts, i) \o <<t[i]>>
  BY <1>8 DEF Add
<1> QED
  BY <1>2, <1>8, <1>9 DEF n

\* A text with its anchors is one.
LEMMA AnchorType ==
  ASSUME NEW t \in Seq(Line), NEW sections \in SUBSET Spans
  PROVE  Anchor(t, sections) \in Seq(Line)
<1> DEFINE n == Len(t)
           starts == {s[1] : s \in sections}
<1>1. n \in Nat /\ \A i \in 1..n : t[i] \in Line
  BY HeadingsType
<1>2. PICK upTo : /\ Anchor(t, sections) = upTo[n] /\ upTo[0] = <<>>
                  /\ \A i \in 1..n : upTo[i] = upTo[i - 1] \o Inserted(starts, i) \o <<t[i]>>
  BY AnchorSteps
<1>3. ASSUME NEW i \in 1..n, NEW u \in Seq(Line)
      PROVE  u \o Inserted(starts, i) \o <<t[i]>> \in Seq(Line)
  <2>1. starts \in SUBSET Nat /\ i \in Nat
    BY <1>1 DEF Spans
  <2> HIDE DEF starts
  <2>2. Rank(starts, i) \in Nat
    BY <2>1, RankType
  <2> DEFINE r == Rank(starts, i)
  <2>3. [kind |-> "anchor", n |-> r] \in Line /\ [kind |-> "id", n |-> r] \in Line
    BY <2>2 DEF Line
  <2> HIDE DEF r
  <2>4. Block(r) \in Seq(Line)
    BY <2>3 DEF Block
  <2>5. Inserted(starts, i) \in Seq(Line)
    BY <2>4 DEF Inserted, r
  <2>6. <<t[i]>> \in Seq(Line)
    BY <1>1
  <2>7. u \o Inserted(starts, i) \in Seq(Line)
    BY <2>5, ConcatProperties
  <2> QED
    BY <2>6, <2>7, ConcatProperties
<1> HIDE DEF n, starts
<1> DEFINE Typed == {m \in 0..n : upTo[m] \in Seq(Line)}
<1>4. 0 \in Typed
  <2>1. 0 \in 0..n /\ <<>> \in Seq(Line)
    BY <1>1
  <2> QED
    BY <1>2, <2>1
<1>5. ASSUME NEW m \in Typed, m < n PROVE m + 1 \in Typed
  <2> DEFINE k == m + 1
  <2>1. k \in 1..n /\ k \in 0..n /\ k - 1 = m
    BY <1>1, <1>5
  <2> HIDE DEF k
  <2>2. upTo[k] = upTo[m] \o Inserted(starts, k) \o <<t[k]>>
    BY <1>2, <2>1
  <2>3. upTo[k] \in Seq(Line)
    BY <1>3, <2>1, <2>2
  <2>4. k \in Typed
    BY <2>1, <2>3
  <2> QED
    BY <2>4 DEF k
<1>6. Typed = 0..n
  <2> HIDE DEF Typed
  <2>1. Typed \in SUBSET (0..n)
    BY DEF Typed
  <2> QED
    BY <1>1, <1>4, <1>5, <2>1, CountUp
<1> QED
  BY <1>1, <1>2, <1>6

-----------------------------------------------------------------------------
(***************************************************************************)
(* The text with its anchors: where its lines, code blocks and headings are. *)
(***************************************************************************)
\* Where line i of a text ends up when anchors are inserted at S: two lines further for each
\* of them that is not after it.
At(S, i) == i + 2 * Rank(S, i)

\* Another line is another rank, if it is one of those counted.
LEMMA RankSteps ==
  ASSUME NEW n \in Nat, NEW S \in SUBSET (1..n)
  PROVE  /\ Rank(S, 0) = 0
         /\ \A i \in 1..n : Rank(S, i) = Rank(S, i - 1) + IF i \in S THEN 1 ELSE 0
<1> DEFINE T(i) == {j \in S : j <= i}
<1>0. IsFiniteSet(1..n) /\ \A j \in S : j \in Nat /\ j >= 1
  BY FS_Interval
<1>1. ASSUME NEW i \in 0..n PROVE IsFiniteSet(T(i))
  <2>1. T(i) \in SUBSET (1..n)
    OBVIOUS
  <2> HIDE DEF T
  <2> QED
    BY <1>0, <2>1, FS_Subset
<1>2. T(0) = {}
  <2>1. \A j \in S : ~ (j <= 0)
    BY <1>0
  <2> QED
    BY <2>1
<1>3. Rank(S, 0) = 0
  BY <1>2, FS_EmptySet DEF Rank
<1>4. ASSUME NEW i \in 1..n
      PROVE  Cardinality(T(i)) = Cardinality(T(i - 1)) + IF i \in S THEN 1 ELSE 0
  <2>1. i - 1 \in 0..n /\ i \notin T(i - 1)
    OBVIOUS
  <2>2. IsFiniteSet(T(i - 1)) /\ Cardinality(T(i - 1)) \in Nat
    BY <1>1, <2>1, FS_CardinalityType
  <2>3. CASE i \in S
    <3>1. \A j \in S : j <= i <=> j <= i - 1 \/ j = i
      BY <1>0
    <3>2. T(i) = T(i - 1) \cup {i}
      BY <2>3, <3>1
    <3> HIDE DEF T
    <3> QED
      BY <2>1, <2>2, <2>3, <3>2, FS_AddElement
  <2>4. CASE i \notin S
    <3>1. \A j \in S : j <= i <=> j <= i - 1
      BY <1>0, <2>4
    <3>2. T(i) = T(i - 1)
      BY <3>1
    <3> HIDE DEF T
    <3> QED
      BY <2>2, <2>4, <3>2
  <2> QED
    BY <2>3, <2>4
<1>5. \A i \in 1..n : Rank(S, i) = Cardinality(T(i)) /\ Rank(S, i - 1) = Cardinality(T(i - 1))
  BY DEF Rank
<1> QED
  BY <1>3, <1>4, <1>5

\* Ranks grow, and those of the lines counted are their numbers.
LEMMA RankGrows ==
  ASSUME NEW n \in Nat, NEW S \in SUBSET (1..n), NEW i \in 0..n, NEW k \in 0..n, i < k
  PROVE  /\ Rank(S, i) \in Nat /\ Rank(S, k) \in Nat
         /\ Rank(S, i) <= Rank(S, k)
         /\ k \in S => Rank(S, i) < Rank(S, k)
<1> DEFINE T(m) == {j \in S : j <= m}
<1>0. IsFiniteSet(1..n) /\ \A j \in S : j \in Nat /\ j >= 1
  BY FS_Interval
<1>1. T(i) \in SUBSET T(k) /\ T(k) \in SUBSET (1..n)
  <2>1. \A j \in S : j <= i => j <= k
    BY <1>0
  <2> QED
    BY <2>1
<1>2. k \in S => k \in T(k) /\ k \notin T(i)
  OBVIOUS
<1>3. Rank(S, i) = Cardinality(T(i)) /\ Rank(S, k) = Cardinality(T(k))
  BY DEF Rank
<1> HIDE DEF T
<1>4. IsFiniteSet(T(k)) /\ IsFiniteSet(T(i))
  BY <1>0, <1>1, FS_Subset
<1>5. Cardinality(T(i)) <= Cardinality(T(k)) /\ (Cardinality(T(k)) = Cardinality(T(i)) => T(k) = T(i))
  BY <1>1, <1>4, FS_Subset
<1>6. Cardinality(T(i)) \in Nat /\ Cardinality(T(k)) \in Nat
  BY <1>4, FS_CardinalityType
<1> QED
  BY <1>2, <1>3, <1>5, <1>6

\* Lines stay in order, with room for an anchor.
Ordered(n, S) ==
  /\ At(S, 0) = 0
  /\ \A i \in 0..n : Rank(S, i) \in Nat /\ At(S, i) \in Nat /\ i <= At(S, i)
  /\ \A i \in 1..n : At(S, i) = At(S, i - 1) + IF i \in S THEN 3 ELSE 1
  /\ \A i, k \in 0..n : i < k =>
       /\ At(S, i) < At(S, k) /\ Rank(S, i) <= Rank(S, k)
       /\ k \in S => At(S, i) < At(S, k) - 2 /\ Rank(S, i) < Rank(S, k)

LEMMA AtOrder ==
  ASSUME NEW n \in Nat, NEW S \in SUBSET (1..n)
  PROVE  Ordered(n, S)
<1>1. \A i \in 0..n : Rank(S, i) \in Nat
  BY RankType
<1>2. ASSUME NEW i \in 1..n PROVE At(S, i) = At(S, i - 1) + IF i \in S THEN 3 ELSE 1
  <2>1. Rank(S, i) = Rank(S, i - 1) + IF i \in S THEN 1 ELSE 0
    BY RankSteps
  <2>2. Rank(S, i - 1) \in Nat /\ i \in Nat
    BY <1>1
  <2> QED
    BY <2>1, <2>2 DEF At
<1>3. ASSUME NEW i \in 0..n, NEW k \in 0..n, i < k
      PROVE  /\ At(S, i) < At(S, k) /\ Rank(S, i) <= Rank(S, k)
             /\ k \in S => At(S, i) < At(S, k) - 2 /\ Rank(S, i) < Rank(S, k)
  <2>1. Rank(S, i) <= Rank(S, k) /\ (k \in S => Rank(S, i) < Rank(S, k))
    BY <1>3, RankGrows
  <2>2. Rank(S, i) \in Nat /\ Rank(S, k) \in Nat /\ i \in Nat /\ k \in Nat
    BY <1>1
  <2> QED
    BY <1>3, <2>1, <2>2 DEF At
<1>4. At(S, 0) = 0
  <2>1. Rank(S, 0) = 0
    BY RankSteps
  <2> QED
    BY <2>1 DEF At
<1>5. \A i \in 0..n : At(S, i) \in Nat /\ i <= At(S, i)
  BY <1>1 DEF At
<1> QED
  BY <1>1, <1>2, <1>3, <1>4, <1>5 DEF Ordered

\* Lines of a text are as many where they end up.
LEMMA AsMany ==
  ASSUME NEW n \in Nat, NEW S \in SUBSET (1..n), NEW K \in SUBSET (1..n)
  PROVE  Cardinality({At(S, k) : k \in K}) = Cardinality(K)
<1> DEFINE J == {At(S, k) : k \in K}
           f == [k \in K |-> At(S, k)]
<1>1. IsFiniteSet(K)
  <2>1. IsFiniteSet(1..n)
    BY FS_Interval
  <2> QED
    BY <2>1, FS_Subset
<1>2. \A i, k \in K : At(S, i) = At(S, k) => i = k
  <2>1. Ordered(n, S)
    BY AtOrder
  <2>2. \A i \in K : i \in 0..n /\ i \in Nat /\ At(S, i) \in Nat
    BY <2>1 DEF Ordered
  <2> QED
    BY <2>1, <2>2 DEF Ordered
<1>3. f \in Surjection(K, J)
  BY DEF Surjection
<1>4. f \in Injection(K, J)
  <2>1. f \in [K -> J] /\ \A k \in K : f[k] = At(S, k)
    OBVIOUS
  <2> HIDE DEF f, J
  <2> QED
    BY <1>2, <2>1 DEF Injection, IsInjective
<1> HIDE DEF f, J
<1> QED
  BY <1>1, <1>3, <1>4, FS_Surjection DEF J

\* u is t with anchors at S: every line, every anchor and its id in its place.
Placed(t, S, u) ==
  /\ u \in Seq(Line) /\ Len(u) = At(S, Len(t))
  /\ \A i \in 1..Len(t) : u[At(S, i)] = t[i]
  /\ \A s \in S : /\ u[At(S, s) - 2] = [kind |-> "anchor", n |-> Rank(S, s)]
                  /\ u[At(S, s) - 1] = [kind |-> "id", n |-> Rank(S, s)]
  /\ \A j \in 1..Len(u) : \E i \in 1..Len(t) :
       j = At(S, i) \/ (i \in S /\ j \in {At(S, i) - 2, At(S, i) - 1})

\* As far as line m.
PlacedTo(t, S, u, m) ==
  /\ u \in Seq(Line) /\ Len(u) = At(S, m)
  /\ \A i \in 1..m : u[At(S, i)] = t[i]
  /\ \A s \in S : s <= m =>
       /\ u[At(S, s) - 2] = [kind |-> "anchor", n |-> Rank(S, s)]
       /\ u[At(S, s) - 1] = [kind |-> "id", n |-> Rank(S, s)]
  /\ \A j \in 1..Len(u) : \E i \in 1..m :
       j = At(S, i) \/ (i \in S /\ j \in {At(S, i) - 2, At(S, i) - 1})

\* Another line with what is in front of it.
LEMMA PlacedOne ==
  ASSUME NEW t \in Seq(Line), NEW S \in SUBSET (1..Len(t)), NEW m \in 1..Len(t),
         NEW u, PlacedTo(t, S, u, m - 1)
  PROVE  PlacedTo(t, S, u \o Inserted(S, m) \o <<t[m]>>, m)
<1> DEFINE n == Len(t)
           r == Rank(S, m)
           v == u \o Inserted(S, m)
           w == v \o <<t[m]>>
<1>1. n \in Nat /\ \A i \in 1..n : t[i] \in Line
  BY HeadingsType
<1>2. m \in 1..n /\ m \in Nat /\ m - 1 \in 0..n /\ m \in 0..n /\ \A s \in S : s \in 1..n
  BY <1>1
<1>o. Ordered(Len(t), S)
  BY <1>1, AtOrder
<1>3. r \in Nat /\ At(S, m) \in Nat /\ At(S, m - 1) \in Nat
  BY <1>2, <1>o DEF Ordered
<1>4. At(S, m) = At(S, m - 1) + IF m \in S THEN 3 ELSE 1
  BY <1>2, <1>o DEF Ordered
<1>5. u \in Seq(Line) /\ Len(u) = At(S, m - 1)
  BY DEF PlacedTo
<1>6. /\ Inserted(S, m) \in Seq(Line) /\ Len(Inserted(S, m)) = IF m \in S THEN 2 ELSE 0
      /\ m \in S => /\ Inserted(S, m)[1] = [kind |-> "anchor", n |-> r]
                    /\ Inserted(S, m)[2] = [kind |-> "id", n |-> r]
  <2>1. CASE m \in S
    <3>1. [kind |-> "anchor", n |-> r] \in Line /\ [kind |-> "id", n |-> r] \in Line
      BY <1>3 DEF Line
    <3> HIDE DEF r
    <3>2. Block(r) \in Seq(Line) /\ Len(Block(r)) = 2
          /\ Block(r)[1] = [kind |-> "anchor", n |-> r] /\ Block(r)[2] = [kind |-> "id", n |-> r]
      BY <3>1 DEF Block
    <3> QED
      BY <2>1, <3>2 DEF Inserted, r
  <2>2. CASE m \notin S
    BY <2>2 DEF Inserted
  <2> QED
    BY <2>1, <2>2
<1>7. /\ v \in Seq(Line) /\ Len(v) = At(S, m) - 1
      /\ \A j \in 1..Len(v) : v[j] = IF j <= Len(u) THEN u[j] ELSE Inserted(S, m)[j - Len(u)]
  <2> HIDE DEF n
  <2>1. /\ u \o Inserted(S, m) \in Seq(Line) /\ Len(u \o Inserted(S, m)) = Len(u) + Len(Inserted(S, m))
        /\ \A i \in 1..(Len(u) + Len(Inserted(S, m))) : (u \o Inserted(S, m))[i] =
             IF i <= Len(u) THEN u[i] ELSE Inserted(S, m)[i - Len(u)]
    BY <1>5, <1>6, ConcatProperties
  <2>2. Len(u) + Len(Inserted(S, m)) = At(S, m) - 1
    BY <1>3, <1>4, <1>5, <1>6
  <2> QED
    BY <2>1, <2>2
<1> HIDE DEF v
<1>8. /\ w \in Seq(Line) /\ Len(w) = At(S, m) /\ w[At(S, m)] = t[m]
      /\ \A j \in 1..Len(v) : w[j] = v[j]
  <2>1. <<t[m]>> \in Seq(Line) /\ Len(<<t[m]>>) = 1 /\ <<t[m]>>[1] = t[m]
    BY <1>1, <1>2
  <2>2. /\ v \o <<t[m]>> \in Seq(Line) /\ Len(v \o <<t[m]>>) = Len(v) + 1
        /\ \A i \in 1..(Len(v) + 1) : (v \o <<t[m]>>)[i] = IF i <= Len(v) THEN v[i] ELSE <<t[m]>>[i - Len(v)]
    BY <1>7, <2>1, ConcatProperties
  <2>3. Len(v) + 1 = At(S, m) /\ Len(v) \in Nat
    BY <1>3, <1>7, LenProperties
  <2>4. At(S, m) \in 1..(Len(v) + 1) /\ ~ (At(S, m) <= Len(v)) /\ At(S, m) - Len(v) = 1
    BY <2>3
  <2> QED
    BY <2>1, <2>2, <2>3, <2>4
<1> HIDE DEF w
<1>9. \A j \in 1..Len(u) : w[j] = u[j]
  BY <1>3, <1>4, <1>5, <1>7, <1>8
<1>10. m \in S => /\ w[At(S, m) - 2] = [kind |-> "anchor", n |-> r]
                  /\ w[At(S, m) - 1] = [kind |-> "id", n |-> r]
  <2> SUFFICES ASSUME m \in S
               PROVE  /\ w[At(S, m) - 2] = [kind |-> "anchor", n |-> r]
                      /\ w[At(S, m) - 1] = [kind |-> "id", n |-> r]
    OBVIOUS
  <2>1. /\ At(S, m) - 2 \in 1..Len(v) /\ At(S, m) - 1 \in 1..Len(v)
        /\ ~ (At(S, m) - 2 <= Len(u)) /\ ~ (At(S, m) - 1 <= Len(u))
        /\ At(S, m) - 2 - Len(u) = 1 /\ At(S, m) - 1 - Len(u) = 2
    BY <1>3, <1>4, <1>5, <1>7
  <2>2. /\ v[At(S, m) - 2] = Inserted(S, m)[1] /\ v[At(S, m) - 1] = Inserted(S, m)[2]
    BY <1>7, <2>1
  <2> QED
    BY <1>6, <1>8, <2>1, <2>2
<1>11. \A i \in 1..m : w[At(S, i)] = t[i]
  <2> TAKE i \in 1..m
  <2>1. CASE i = m
    BY <1>8, <2>1
  <2>2. CASE i # m
    <3>1. i \in 1..(m - 1) /\ i \in 0..n
      BY <1>1, <1>2, <2>2
    <3>2. At(S, i) \in 1..Len(u)
      <4>1. At(S, i) \in Nat /\ i <= At(S, i)
        BY <1>o, <3>1 DEF Ordered
      <4>2. i < m - 1 => At(S, i) < At(S, m - 1)
        BY <1>2, <1>o, <3>1 DEF Ordered
      <4>3. At(S, i) <= At(S, m - 1)
        <5>1. CASE i = m - 1
          BY <1>3, <5>1
        <5>2. CASE i < m - 1
          BY <1>3, <4>1, <4>2, <5>2
        <5> QED
          BY <1>2, <3>1, <5>1, <5>2
      <4> QED
        BY <1>3, <1>5, <3>1, <4>1, <4>3
    <3>3. u[At(S, i)] = t[i]
      BY <3>1 DEF PlacedTo
    <3> QED
      BY <1>9, <3>2, <3>3
  <2> QED
    BY <2>1, <2>2
<1>12. \A s \in S : s <= m => /\ w[At(S, s) - 2] = [kind |-> "anchor", n |-> Rank(S, s)]
                              /\ w[At(S, s) - 1] = [kind |-> "id", n |-> Rank(S, s)]
  <2> TAKE s \in S
  <2>1. CASE s = m
    BY <1>10, <2>1
  <2>2. CASE s < m
    <3>1. s \in 0..n /\ s <= m - 1 /\ 0 \in 0..n /\ 0 < s
      BY <1>1, <1>2, <2>2
    <3>2. At(S, s) - 2 \in 1..Len(u) /\ At(S, s) - 1 \in 1..Len(u)
      <4>1. At(S, s) \in Nat /\ At(S, 0) = 0 /\ At(S, 0) < At(S, s) - 2
        BY <1>o, <3>1 DEF Ordered
      <4>2. s < m - 1 => At(S, s) < At(S, m - 1)
        BY <1>2, <1>o, <3>1 DEF Ordered
      <4>3. At(S, s) <= At(S, m - 1)
        <5>1. CASE s = m - 1
          BY <1>3, <5>1
        <5>2. CASE s < m - 1
          BY <1>3, <4>1, <4>2, <5>2
        <5> QED
          BY <1>2, <3>1, <5>1, <5>2
      <4> QED
        BY <1>3, <1>5, <4>1, <4>3
    <3>3. /\ u[At(S, s) - 2] = [kind |-> "anchor", n |-> Rank(S, s)]
          /\ u[At(S, s) - 1] = [kind |-> "id", n |-> Rank(S, s)]
      BY <3>1 DEF PlacedTo
    <3> QED
      BY <1>9, <3>2, <3>3
  <2> QED
    BY <1>1, <1>2, <2>1, <2>2
<1>13. \A j \in 1..Len(w) : \E i \in 1..m :
         j = At(S, i) \/ (i \in S /\ j \in {At(S, i) - 2, At(S, i) - 1})
  <2> TAKE j \in 1..Len(w)
  <2>1. CASE j \in 1..Len(u)
    <3>1. PICK i \in 1..(m - 1) : j = At(S, i) \/ (i \in S /\ j \in {At(S, i) - 2, At(S, i) - 1})
      BY <2>1 DEF PlacedTo
    <3>2. i \in 1..m
      BY <1>2
    <3> QED
      BY <3>1, <3>2
  <2>2. CASE j \notin 1..Len(u)
    <3>1. j = At(S, m) \/ (m \in S /\ j \in {At(S, m) - 2, At(S, m) - 1})
      BY <1>3, <1>4, <1>5, <1>8, <2>2
    <3>2. m \in 1..m
      BY <1>2
    <3> QED
      BY <3>1, <3>2
  <2> QED
    BY <2>1, <2>2
<1>14. w \in Seq(Line) /\ Len(w) = At(S, m)
  BY <1>8
<1>15. PlacedTo(t, S, w, m)
  BY <1>11, <1>12, <1>13, <1>14 DEF PlacedTo
<1> QED
  BY <1>15 DEF w, v

\* The text with its anchors.
LEMMA AnchorPlaces ==
  ASSUME NEW t \in Seq(Line), NEW sections \in SUBSET Spans, NEW S \in SUBSET (1..Len(t)),
         S = {s[1] : s \in sections}
  PROVE  Placed(t, S, Anchor(t, sections))
<1> DEFINE n == Len(t)
<1>1. n \in Nat
  BY HeadingsType
<1>2. PICK upTo : /\ Anchor(t, sections) = upTo[n] /\ upTo[0] = <<>>
                  /\ \A i \in 1..n : upTo[i] = upTo[i - 1] \o Inserted(S, i) \o <<t[i]>>
  BY AnchorSteps
<1> HIDE DEF n
<1>o. Ordered(n, S)
  BY <1>1, AtOrder DEF n
<1> DEFINE Good == {m \in 0..n : PlacedTo(t, S, upTo[m], m)}
<1>3. 0 \in Good
  <2>1. At(S, 0) = 0
    BY <1>o DEF Ordered
  <2>2. \A s \in S : ~ (s <= 0)
    <3>1. \A s \in S : s \in 1..Len(t)
      OBVIOUS
    <3>2. \A s \in 1..Len(t) : ~ (s <= 0)
      BY HeadingsType
    <3> QED
      BY <3>1, <3>2
  <2>3. <<>> \in Seq(Line) /\ Len(<<>>) = 0 /\ upTo[0] = <<>>
    BY <1>2
  <2>4. PlacedTo(t, S, <<>>, 0)
    BY <2>1, <2>2, <2>3 DEF PlacedTo
  <2>5. 0 \in 0..n
    BY <1>1
  <2> QED
    BY <2>3, <2>4, <2>5
<1>4. ASSUME NEW m \in Good, m < n PROVE m + 1 \in Good
  <2>1. m + 1 \in 1..n /\ m + 1 - 1 = m
    BY <1>1, <1>4
  <2>2. PlacedTo(t, S, upTo[m] \o Inserted(S, m + 1) \o <<t[m + 1]>>, m + 1)
    <3> DEFINE k == m + 1
               u == upTo[m]
    <3>1. k \in 1..Len(t) /\ k - 1 = m /\ PlacedTo(t, S, u, m)
      BY <1>4, <2>1 DEF n
    <3> HIDE DEF k, u
    <3>2. PlacedTo(t, S, u, k - 1)
      BY <3>1
    <3>3. PlacedTo(t, S, u \o Inserted(S, k) \o <<t[k]>>, k)
      BY <3>1, <3>2, PlacedOne
    <3> QED
      BY <3>3 DEF k, u
  <2>3. upTo[m + 1] = upTo[m] \o Inserted(S, m + 1) \o <<t[m + 1]>>
    <3> DEFINE k == m + 1
    <3>1. k \in 1..n /\ k - 1 = m
      BY <2>1
    <3> HIDE DEF k
    <3>2. upTo[k] = upTo[k - 1] \o Inserted(S, k) \o <<t[k]>>
      BY <1>2, <3>1
    <3> QED
      BY <3>1, <3>2 DEF k
  <2>4. m + 1 \in 0..n
    BY <2>1
  <2> QED
    BY <2>2, <2>3, <2>4
<1>5. Good = 0..n
  <2> HIDE DEF Good
  <2>1. Good \in SUBSET (0..n)
    BY DEF Good
  <2> QED
    BY <1>1, <1>3, <1>4, <2>1, CountUp
<1>6. PlacedTo(t, S, upTo[n], n)
  <2>1. n \in 0..n
    BY <1>1
  <2> QED
    BY <1>5, <2>1
<1>7. \A s \in S : s <= n
  BY <1>1 DEF n
<1> QED
  BY <1>2, <1>6, <1>7 DEF PlacedTo, Placed, n

\* A section ends before the next one of S starts, or with the text.
LEMMA EndIs ==
  ASSUME NEW x \in Seq(Line), NEW S \in SUBSET (1..Len(x)), NEW i \in 1..Len(x)
  PROVE  /\ EndIn(S, i, x) \in i..Len(x)
         /\ \A k \in S : k > i => EndIn(S, i, x) < k
         /\ \/ EndIn(S, i, x) = Len(x)
            \/ EndIn(S, i, x) + 1 \in S /\ EndIn(S, i, x) + 1 > i
<1> DEFINE ends == {j - 1 : j \in {k \in S : k > i}} \cup {Len(x)}
           e == Min(ends)
<1>1. Len(x) \in Nat /\ i \in Nat /\ \A k \in S : k \in Nat /\ k \in 1..Len(x)
  BY HeadingsType
<1>2. ends \in SUBSET Nat /\ Len(x) \in ends /\ \A k \in S : k > i => k - 1 \in ends
  BY <1>1
<1>3. \A m \in ends : m = Len(x) \/ (m + 1 \in S /\ m + 1 > i /\ m \in Nat)
  BY <1>1
<1> HIDE DEF ends
<1>4. e \in ends /\ \A k \in ends : e <= k
  BY <1>2, MinIs
<1>5. e = EndIn(S, i, x)
  BY DEF EndIn, ends
<1> HIDE DEF e
<1>6. e \in Nat /\ e <= Len(x)
  BY <1>2, <1>4
<1>7. i <= e
  BY <1>1, <1>3, <1>4, <1>6
<1>8. \A k \in S : k > i => e < k
  <2> TAKE k \in S
  <2>1. k > i => e <= k - 1
    BY <1>2, <1>4
  <2> QED
    BY <1>1, <1>6, <2>1
<1>9. e = Len(x) \/ (e + 1 \in S /\ e + 1 > i)
  BY <1>3, <1>4
<1> QED
  BY <1>1, <1>5, <1>6, <1>7, <1>8, <1>9

\* A text without marks, its headings at S marked.
Marked(t, S, u) ==
  /\ t \in Seq(Line) /\ ~AlreadyMarked(t) /\ S \in SUBSET Headings(t) /\ Placed(t, S, u)

\* The places of its lines.
LEMMA MarkedPlaces ==
  ASSUME NEW t, NEW S, NEW u, Marked(t, S, u)
  PROVE  /\ Len(t) \in Nat /\ DOMAIN t = 1..Len(t) /\ S \in SUBSET (1..Len(t)) /\ Ordered(Len(t), S)
         /\ Len(u) \in Nat /\ DOMAIN u = 1..Len(u) /\ u \in Seq(Line) /\ Len(u) = At(S, Len(t))
         /\ \A i \in 1..Len(t) :
              /\ At(S, i) \in 1..Len(u) /\ u[At(S, i)] = t[i] /\ t[i] \in Line
              /\ t[i].kind \notin {"anchor", "id"} /\ ~IsMark(u[At(S, i)])
         /\ \A s \in S :
              /\ At(S, s) - 2 \in 1..Len(u) /\ At(S, s) - 1 \in 1..Len(u)
              /\ u[At(S, s) - 2].kind = "anchor" /\ u[At(S, s) - 2].n = Rank(S, s)
              /\ u[At(S, s) - 1].kind = "id" /\ u[At(S, s) - 1].n = Rank(S, s)
<1> DEFINE n == Len(t)
<1>1. /\ t \in Seq(Line) /\ ~AlreadyMarked(t) /\ S \in SUBSET Headings(t) /\ Placed(t, S, u)
      /\ u \in Seq(Line) /\ Len(u) = At(S, Len(t))
  BY DEF Marked, Placed
<1>2. n \in Nat /\ DOMAIN t = 1..n /\ (\A i \in 1..n : t[i] \in Line) /\ S \in SUBSET (1..n)
  BY <1>1, HeadingsType
<1>3. Len(u) \in Nat /\ DOMAIN u = 1..Len(u)
  BY <1>1, LenProperties
<1>4. Ordered(n, S)
  BY <1>2, AtOrder
<1>5. ASSUME NEW i \in 1..n
      PROVE  /\ At(S, i) \in 1..Len(u) /\ u[At(S, i)] = t[i]
             /\ t[i].kind \notin {"anchor", "id"} /\ ~IsMark(u[At(S, i)])
  <2>1. i \in 0..n /\ n \in 0..n /\ At(S, i) \in Nat /\ i <= At(S, i) /\ At(S, n) \in Nat
    BY <1>2, <1>4 DEF Ordered
  <2>2. i < n => At(S, i) < At(S, n)
    BY <1>4, <2>1 DEF Ordered
  <2>3. At(S, i) <= At(S, n)
    <3>1. CASE i = n
      BY <2>1, <3>1
    <3>2. CASE i < n
      BY <2>1, <2>2, <3>2
    <3>3. n \in Nat /\ i \in 1..n
      BY <1>2
    <3>4. i = n \/ i < n
      BY <3>3
    <3> QED
      BY <3>1, <3>2, <3>4
  <2>4. u[At(S, i)] = t[i]
    BY <1>1 DEF Placed
  <2>5. t[i].kind \notin {"anchor", "id"}
    BY <1>1, <1>2 DEF AlreadyMarked
  <2> QED
    BY <1>1, <1>3, <2>1, <2>3, <2>4, <2>5 DEF IsMark
<1>6. ASSUME NEW s \in S
      PROVE  /\ At(S, s) - 2 \in 1..Len(u) /\ At(S, s) - 1 \in 1..Len(u)
             /\ u[At(S, s) - 2].kind = "anchor" /\ u[At(S, s) - 2].n = Rank(S, s)
             /\ u[At(S, s) - 1].kind = "id" /\ u[At(S, s) - 1].n = Rank(S, s)
  <2>1. s \in 1..n /\ s \in 0..n /\ 0 \in 0..n /\ 0 < s
    BY <1>2
  <2>2. At(S, 0) = 0 /\ At(S, 0) < At(S, s) - 2 /\ At(S, s) \in Nat
    BY <1>4, <2>1 DEF Ordered
  <2>3. At(S, s) \in 1..Len(u)
    BY <1>5, <2>1
  <2>4. /\ u[At(S, s) - 2] = [kind |-> "anchor", n |-> Rank(S, s)]
        /\ u[At(S, s) - 1] = [kind |-> "id", n |-> Rank(S, s)]
    BY <1>1 DEF Placed
  <2> QED
    BY <1>3, <2>2, <2>3, <2>4
<1> QED
  BY <1>1, <1>2, <1>3, <1>4, <1>5, <1>6

\* Of the lines up to one of them, m are of the text.
LEMMA OriginalIs ==
  ASSUME NEW t, NEW S, NEW u, Marked(t, S, u), NEW j \in 0..Len(u), NEW m \in 0..Len(t),
         \A i \in 1..Len(t) : i <= m <=> At(S, i) <= j
  PROVE  Cardinality({k \in 1..j : ~IsMark(u[k])}) = m
<1> DEFINE n == Len(t)
           K == 1..m
<1>1. /\ n \in Nat /\ S \in SUBSET (1..n) /\ Len(u) \in Nat
      /\ \A i \in 1..n : At(S, i) \in 1..Len(u) /\ ~IsMark(u[At(S, i)])
      /\ \A s \in S : u[At(S, s) - 2].kind = "anchor" /\ u[At(S, s) - 1].kind = "id"
  <2>1. Len(t) \in Nat /\ S \in SUBSET (1..Len(t)) /\ Len(u) \in Nat
    BY MarkedPlaces
  <2>2. \A i \in 1..Len(t) : At(S, i) \in 1..Len(u) /\ ~IsMark(u[At(S, i)])
    BY MarkedPlaces
  <2>3. \A s \in S : u[At(S, s) - 2].kind = "anchor" /\ u[At(S, s) - 1].kind = "id"
    BY MarkedPlaces
  <2> QED
    BY <2>1, <2>2, <2>3
<1>2. K \in SUBSET (1..n)
  BY <1>1
<1>3. {k \in 1..j : ~IsMark(u[k])} = {At(S, i) : i \in K}
  <2>1. ASSUME NEW k \in 1..j, ~IsMark(u[k]) PROVE k \in {At(S, i) : i \in K}
    <3>1. k \in 1..Len(u)
      BY <1>1
    <3>2. PICK i \in 1..n : k = At(S, i) \/ (i \in S /\ k \in {At(S, i) - 2, At(S, i) - 1})
      BY <3>1 DEF Marked, Placed
    <3>3. k = At(S, i)
      BY <1>1, <2>1, <3>2 DEF IsMark
    <3>4. i <= m /\ i \in K
      BY <1>1, <3>3
    <3> QED
      BY <3>3, <3>4
  <2>2. ASSUME NEW i \in K PROVE At(S, i) \in 1..j /\ ~IsMark(u[At(S, i)])
    <3>1. i \in 1..n /\ i <= m
      BY <1>1
    <3>2. At(S, i) <= j /\ At(S, i) \in 1..Len(u) /\ ~IsMark(u[At(S, i)])
      BY <1>1, <3>1
    <3> QED
      BY <1>1, <3>2
  <2> HIDE DEF K
  <2> QED
    BY <2>1, <2>2
<1>4. Cardinality(K) = m
  BY FS_Interval
<1> HIDE DEF K
<1>5. Cardinality({At(S, i) : i \in K}) = Cardinality(K)
  BY <1>1, <1>2, AsMany
<1> QED
  BY <1>3, <1>4, <1>5

\* As many code fences are before a line as before the m-th one of the text.
LEMMA FencesBefore ==
  ASSUME NEW t, NEW S, NEW u, Marked(t, S, u), NEW j \in 1..Len(u), NEW m \in 1..Len(t),
         \A i \in 1..Len(t) : i < m <=> At(S, i) < j
  PROVE  Cardinality({k \in 1..(j - 1) : u[k].kind = "fence"})
           = Cardinality({k \in 1..(m - 1) : t[k].kind = "fence"})
<1> DEFINE n == Len(t)
           K == {k \in 1..(m - 1) : t[k].kind = "fence"}
<1>1. /\ n \in Nat /\ S \in SUBSET (1..n) /\ Len(u) \in Nat
      /\ \A i \in 1..n : At(S, i) \in 1..Len(u) /\ u[At(S, i)] = t[i]
      /\ \A s \in S : u[At(S, s) - 2].kind = "anchor" /\ u[At(S, s) - 1].kind = "id"
  BY MarkedPlaces
<1>2. K \in SUBSET (1..n)
  BY <1>1
<1>3. {k \in 1..(j - 1) : u[k].kind = "fence"} = {At(S, i) : i \in K}
  <2>1. ASSUME NEW k \in 1..(j - 1), u[k].kind = "fence" PROVE k \in {At(S, i) : i \in K}
    <3>1. k \in 1..Len(u) /\ k < j
      BY <1>1
    <3>2. PICK i \in 1..n : k = At(S, i) \/ (i \in S /\ k \in {At(S, i) - 2, At(S, i) - 1})
      BY <3>1 DEF Marked, Placed
    <3>3. k = At(S, i)
      BY <1>1, <2>1, <3>2
    <3>4. i < m
      BY <3>1, <3>3
    <3>5. i \in K
      BY <1>1, <2>1, <3>3, <3>4
    <3> QED
      BY <3>3, <3>5
  <2>2. ASSUME NEW i \in K PROVE At(S, i) \in 1..(j - 1) /\ u[At(S, i)].kind = "fence"
    <3>1. i \in 1..n /\ i < m /\ t[i].kind = "fence"
      BY <1>1
    <3>2. At(S, i) < j /\ At(S, i) \in 1..Len(u) /\ u[At(S, i)] = t[i]
      BY <1>1, <3>1
    <3> QED
      BY <1>1, <3>1, <3>2
  <2> HIDE DEF K
  <2> QED
    BY <2>1, <2>2
<1> HIDE DEF K
<1>4. Cardinality({At(S, i) : i \in K}) = Cardinality(K)
  BY <1>1, <1>2, AsMany
<1> QED
  BY <1>3, <1>4 DEF K

\* What is before a line, and before the marks in front of it.
LEMMA MarkedOrder ==
  ASSUME NEW t, NEW S, NEW u, Marked(t, S, u), NEW i \in 1..Len(t)
  PROVE  /\ \A k \in 1..Len(t) : k < i <=> At(S, k) < At(S, i)
         /\ i \in S => \A k \in 1..Len(t) : /\ k < i <=> At(S, k) < At(S, i) - 2
                                            /\ k < i <=> At(S, k) < At(S, i) - 1
<1>1. Len(t) \in Nat /\ Ordered(Len(t), S)
  BY MarkedPlaces
<1> DEFINE n == Len(t)
<1>2. n \in Nat /\ i \in 0..n /\ i \in Nat /\ At(S, i) \in Nat
  BY <1>1 DEF Ordered
<1> SUFFICES ASSUME NEW k \in 1..n
             PROVE  /\ k < i <=> At(S, k) < At(S, i)
                    /\ i \in S => /\ k < i <=> At(S, k) < At(S, i) - 2
                                  /\ k < i <=> At(S, k) < At(S, i) - 1
  OBVIOUS
<1>3. k \in 0..n /\ k \in Nat /\ At(S, k) \in Nat
  BY <1>1 DEF Ordered
<1>4. /\ k < i => At(S, k) < At(S, i) /\ (i \in S => At(S, k) < At(S, i) - 2)
      /\ i < k => At(S, i) < At(S, k)
  BY <1>1, <1>2, <1>3 DEF Ordered
<1>5. k < i \/ k = i \/ i < k
  BY <1>2, <1>3
<1> QED
  BY <1>2, <1>3, <1>4, <1>5

\* Code blocks are where they were, and no mark is in one.
LEMMA MarkedMasks ==
  ASSUME NEW t, NEW S, NEW u, Marked(t, S, u)
  PROVE  /\ \A i \in 1..Len(t) : Masked(u, At(S, i)) <=> Masked(t, i)
         /\ \A s \in S : ~Masked(u, At(S, s) - 2) /\ ~Masked(u, At(S, s) - 1)
<1>1. /\ S \in SUBSET (1..Len(t))
      /\ \A i \in 1..Len(t) : At(S, i) \in 1..Len(u) /\ u[At(S, i)] = t[i]
      /\ \A s \in S : /\ At(S, s) - 2 \in 1..Len(u) /\ At(S, s) - 1 \in 1..Len(u)
                      /\ u[At(S, s) - 2].kind = "anchor" /\ u[At(S, s) - 1].kind = "id"
  BY MarkedPlaces
<1>2. ASSUME NEW i \in 1..Len(t) PROVE Masked(u, At(S, i)) <=> Masked(t, i)
  <2>1. \A k \in 1..Len(t) : k < i <=> At(S, k) < At(S, i)
    BY MarkedOrder
  <2>2. Cardinality({k \in 1..(At(S, i) - 1) : u[k].kind = "fence"})
          = Cardinality({k \in 1..(i - 1) : t[k].kind = "fence"})
    BY <1>1, <2>1, FencesBefore
  <2> QED
    BY <1>1, <2>2 DEF Masked
<1>3. ASSUME NEW s \in S PROVE ~Masked(u, At(S, s) - 2) /\ ~Masked(u, At(S, s) - 1)
  <2>1. s \in 1..Len(t) /\ ~Masked(t, s)
    BY <1>1 DEF Marked, Headings
  <2>2. \A k \in 1..Len(t) : /\ k < s <=> At(S, k) < At(S, s) - 2
                             /\ k < s <=> At(S, k) < At(S, s) - 1
    BY <2>1, MarkedOrder
  <2>3. Cardinality({k \in 1..(At(S, s) - 2 - 1) : u[k].kind = "fence"})
          = Cardinality({k \in 1..(s - 1) : t[k].kind = "fence"})
    <3> DEFINE j == At(S, s) - 2
    <3>1. j \in 1..Len(u) /\ \A k \in 1..Len(t) : k < s <=> At(S, k) < j
      BY <1>1, <2>2
    <3> HIDE DEF j
    <3>2. Cardinality({k \in 1..(j - 1) : u[k].kind = "fence"})
            = Cardinality({k \in 1..(s - 1) : t[k].kind = "fence"})
      BY <2>1, <3>1, FencesBefore
    <3> QED
      BY <3>2 DEF j
  <2>4. Cardinality({k \in 1..(At(S, s) - 1 - 1) : u[k].kind = "fence"})
          = Cardinality({k \in 1..(s - 1) : t[k].kind = "fence"})
    <3> DEFINE j == At(S, s) - 1
    <3>1. j \in 1..Len(u) /\ \A k \in 1..Len(t) : k < s <=> At(S, k) < j
      BY <1>1, <2>2
    <3> HIDE DEF j
    <3>2. Cardinality({k \in 1..(j - 1) : u[k].kind = "fence"})
            = Cardinality({k \in 1..(s - 1) : t[k].kind = "fence"})
      BY <2>1, <3>1, FencesBefore
    <3> QED
      BY <3>2 DEF j
  <2> QED
    BY <1>1, <2>1, <2>3, <2>4 DEF Masked
<1> QED
  BY <1>2, <1>3

\* Its headings and anchors.
LEMMA MarkedHeadings ==
  ASSUME NEW t, NEW S, NEW u, Marked(t, S, u)
  PROVE  /\ Existing(u) = {At(S, s) - 2 : s \in S}
         /\ Existing(u) = {i \in DOMAIN u : u[i].kind = "anchor"}
         /\ Headings(u) = Existing(u) \cup {At(S, i) : i \in Headings(t)}
<1>1. /\ S \in SUBSET (1..Len(t)) /\ DOMAIN u = 1..Len(u) /\ DOMAIN t = 1..Len(t)
      /\ \A i \in 1..Len(t) : /\ At(S, i) \in 1..Len(u) /\ u[At(S, i)] = t[i]
                              /\ t[i].kind \notin {"anchor", "id"}
      /\ \A s \in S : /\ At(S, s) - 2 \in 1..Len(u) /\ At(S, s) - 1 \in 1..Len(u)
                      /\ u[At(S, s) - 2].kind = "anchor" /\ u[At(S, s) - 1].kind = "id"
  BY MarkedPlaces
<1>2. /\ \A i \in 1..Len(t) : Masked(u, At(S, i)) <=> Masked(t, i)
      /\ \A s \in S : ~Masked(u, At(S, s) - 2) /\ ~Masked(u, At(S, s) - 1)
  BY MarkedMasks
<1>3. \A j \in 1..Len(u) : \E i \in 1..Len(t) :
        j = At(S, i) \/ (i \in S /\ j \in {At(S, i) - 2, At(S, i) - 1})
  BY DEF Marked, Placed
<1>4. \A j \in 1..Len(u) : u[j].kind = "anchor" => \E s \in S : j = At(S, s) - 2
  <2> TAKE j \in 1..Len(u)
  <2> HAVE u[j].kind = "anchor"
  <2>1. PICK i \in 1..Len(t) : j = At(S, i) \/ (i \in S /\ j \in {At(S, i) - 2, At(S, i) - 1})
    BY <1>3
  <2>2. j # At(S, i)
    BY <1>1
  <2>3. i \in S /\ j \in {At(S, i) - 2, At(S, i) - 1}
    BY <2>1, <2>2
  <2>4. j # At(S, i) - 1
    BY <1>1, <2>3
  <2> QED
    BY <2>3, <2>4
<1>5. Existing(u) = {At(S, s) - 2 : s \in S} /\ Existing(u) = {i \in DOMAIN u : u[i].kind = "anchor"}
  BY <1>1, <1>2, <1>4 DEF Existing, Headings, AllHeadings
<1>6. ASSUME NEW j \in Headings(u) PROVE j \in Existing(u) \cup {At(S, i) : i \in Headings(t)}
  <2>1. j \in 1..Len(u) /\ u[j].kind \in {"heading", "anchor"} /\ ~Masked(u, j)
    BY <1>1 DEF Headings, AllHeadings
  <2>2. CASE u[j].kind = "anchor"
    BY <1>1, <1>5, <2>1, <2>2
  <2>3. CASE u[j].kind = "heading"
    <3>1. PICK i \in 1..Len(t) : j = At(S, i) \/ (i \in S /\ j \in {At(S, i) - 2, At(S, i) - 1})
      BY <1>3, <2>1
    <3>2. j = At(S, i)
      BY <1>1, <2>3, <3>1
    <3>3. i \in Headings(t)
      BY <1>1, <1>2, <2>1, <2>3, <3>2 DEF Headings, AllHeadings
    <3> QED
      BY <3>2, <3>3
  <2> QED
    BY <2>1, <2>2, <2>3
<1>7. Existing(u) \subseteq Headings(u)
  BY DEF Existing
<1>8. ASSUME NEW i \in Headings(t) PROVE At(S, i) \in Headings(u)
  BY <1>1, <1>2 DEF Headings, AllHeadings
<1> QED
  BY <1>5, <1>6, <1>7, <1>8

\* The section of an anchor is the one that started there.
LEMMA MarkedEnds ==
  ASSUME NEW t, NEW S, NEW u, Marked(t, S, u), NEW s \in S
  PROVE  EndIn(Existing(u), At(S, s) - 2, u) = At(S, EndIn(S, s, t))
<1> DEFINE n == Len(t)
           m == EndIn(S, s, t)
           E == Existing(u)
           a == At(S, s) - 2
           e == EndIn(E, a, u)
<1>1. /\ n \in Nat /\ S \in SUBSET (1..n) /\ Ordered(n, S)
      /\ Len(u) \in Nat /\ u \in Seq(Line) /\ Len(u) = At(S, n)
      /\ \A k \in S : At(S, k) - 2 \in 1..Len(u)
  BY MarkedPlaces
<1>2. E = {At(S, k) - 2 : k \in S}
  BY MarkedHeadings
<1>3. E \in SUBSET (1..Len(u)) /\ a \in 1..Len(u)
  <2>1. \A k \in S : At(S, k) - 2 \in 1..Len(u)
    BY <1>1
  <2> HIDE DEF E
  <2> QED
    BY <1>2, <2>1
<1>4. /\ m \in s..n /\ \A k \in S : k > s => m < k
      /\ m = n \/ (m + 1 \in S /\ m + 1 > s)
  BY <1>1, EndIs DEF Marked
<1>5. /\ e \in a..Len(u) /\ \A k \in E : k > a => e < k
      /\ e = Len(u) \/ (e + 1 \in E /\ e + 1 > a)
  BY <1>1, <1>3, EndIs
<1> HIDE DEF m, E, e
<1>6. s \in 1..n /\ s \in 0..n /\ s \in Nat /\ m \in 0..n /\ m \in 1..n /\ m \in Nat
  BY <1>1, <1>4
<1>7. At(S, s) \in Nat /\ At(S, m) \in Nat
  BY <1>1, <1>6 DEF Ordered
<1>8. ASSUME NEW k \in S, At(S, k) - 2 > a PROVE At(S, m) < At(S, k) - 2
  <2>1. k \in 0..n /\ k \in Nat /\ At(S, k) \in Nat
    BY <1>1 DEF Ordered
  <2>2. k < s => At(S, k) < At(S, s)
    BY <1>1, <1>6, <2>1 DEF Ordered
  <2>3. k > s
    <3>1. k # s
      BY <1>7, <1>8
    <3>2. ~ (k < s)
      BY <1>7, <1>8, <2>1, <2>2
    <3> QED
      BY <1>6, <2>1, <3>1, <3>2
  <2>4. m < k
    BY <1>4, <2>3
  <2> QED
    BY <1>1, <1>6, <2>1, <2>4 DEF Ordered
<1>9. CASE m = n
  <2>1. \A k \in E : ~ (k > a)
    <3> TAKE k \in E
    <3> SUFFICES ASSUME k > a PROVE FALSE
      OBVIOUS
    <3>1. PICK r \in S : k = At(S, r) - 2
      BY <1>2
    <3>2. At(S, m) < k
      BY <1>8, <3>1
    <3>3. k <= Len(u)
      BY <1>1, <3>1
    <3>4. k \in Nat /\ At(S, m) = Len(u)
      BY <1>1, <1>9, <3>1
    <3> QED
      BY <1>1, <3>2, <3>3, <3>4
  <2>2. e = Len(u)
    BY <1>5, <2>1
  <2> QED
    BY <1>1, <1>9, <2>2 DEF m, e, E
<1>10. CASE m + 1 \in S /\ m + 1 > s
  <2> DEFINE r == m + 1
  <2>1. r \in S /\ r > s /\ r \in 1..n /\ r \in 0..n /\ r - 1 = m /\ m < r
    BY <1>1, <1>6, <1>10
  <2> HIDE DEF r
  <2>2. At(S, r) = At(S, m) + 3 /\ At(S, r) \in Nat
    BY <1>1, <2>1 DEF Ordered
  <2>3. At(S, s) <= At(S, m)
    <3>1. s = m \/ s < m
      BY <1>4, <1>6
    <3>2. s < m => At(S, s) < At(S, m)
      BY <1>1, <1>6 DEF Ordered
    <3> QED
      BY <1>7, <3>1, <3>2
  <2>4. At(S, r) - 2 \in E /\ At(S, r) - 2 > a
    BY <1>2, <1>7, <2>1, <2>2, <2>3
  <2>5. e \in Nat /\ e < At(S, m) + 1
    <3>1. e < At(S, r) - 2
      BY <1>5, <2>4
    <3>2. e \in Nat
      BY <1>1, <1>3, <1>5
    <3> QED
      BY <1>7, <2>2, <3>1, <3>2
  <2>6. CASE e + 1 \in E /\ e + 1 > a
    <3>1. PICK k \in S : e + 1 = At(S, k) - 2
      BY <1>2, <2>6
    <3>2. At(S, m) < e + 1
      BY <1>8, <2>6, <3>1
    <3>3. e = At(S, m)
      BY <1>7, <2>5, <3>2
    <3> QED
      BY <3>3 DEF e, E, m
  <2>7. CASE e = Len(u)
    <3>1. At(S, r) - 2 <= Len(u)
      BY <1>1, <2>1
    <3> QED
      BY <1>1, <1>7, <2>2, <2>5, <2>7, <3>1
  <2> QED
    BY <1>5, <2>6, <2>7
<1> QED
  BY <1>4, <1>9, <1>10

-----------------------------------------------------------------------------
(***************************************************************************)
(* What the map and a reader find in it.                                   *)
(***************************************************************************)
\* How many lines of the text there are up to one, and up to an anchor.
LEMMA MarkedOriginal ==
  ASSUME NEW t, NEW S, NEW u, Marked(t, S, u)
  PROVE  /\ \A m \in 1..Len(t) : Cardinality({k \in 1..At(S, m) : ~IsMark(u[k])}) = m
         /\ \A s \in S : Cardinality({k \in 1..(At(S, s) - 2) : ~IsMark(u[k])}) = s - 1
<1>1. /\ Len(t) \in Nat /\ S \in SUBSET (1..Len(t)) /\ Len(u) \in Nat
      /\ \A i \in 1..Len(t) : At(S, i) \in 1..Len(u)
      /\ \A s \in S : At(S, s) - 2 \in 1..Len(u)
  BY MarkedPlaces
<1>2. ASSUME NEW m \in 1..Len(t)
      PROVE  Cardinality({k \in 1..At(S, m) : ~IsMark(u[k])}) = m
  <2>1. \A k \in 1..Len(t) : m < k <=> At(S, m) < At(S, k)
    BY MarkedOrder
  <2>2. At(S, m) \in 1..Len(u) /\ \A k \in 1..Len(t) : At(S, k) \in Nat
    BY <1>1
  <2>3. \A k \in 1..Len(t) : k <= m <=> At(S, k) <= At(S, m)
    BY <1>1, <2>1, <2>2
  <2>4. At(S, m) \in 0..Len(u) /\ m \in 0..Len(t)
    BY <1>1, <2>2
  <2> QED
    BY <2>3, <2>4, OriginalIs
<1>3. ASSUME NEW s \in S
      PROVE  Cardinality({k \in 1..(At(S, s) - 2) : ~IsMark(u[k])}) = s - 1
  <2> DEFINE j == At(S, s) - 2
             m == s - 1
  <2>1. s \in 1..Len(t)
    BY <1>1
  <2>2. \A k \in 1..Len(t) : k < s <=> At(S, k) < At(S, s) - 1
    BY <2>1, MarkedOrder
  <2>3. \A k \in 1..Len(t) : At(S, k) \in Nat
    BY <1>1
  <2>4. \A k \in 1..Len(t) : k <= m <=> At(S, k) <= j
    BY <1>1, <2>1, <2>2, <2>3
  <2>5. j \in 0..Len(u) /\ m \in 0..Len(t)
    <3>1. At(S, s) - 2 \in 1..Len(u)
      BY <1>1
    <3> QED
      BY <1>1, <2>1, <3>1
  <2> HIDE DEF j, m
  <2>6. Cardinality({k \in 1..j : ~IsMark(u[k])}) = m
    BY <2>4, <2>5, OriginalIs
  <2> QED
    BY <2>6 DEF j, m
<1> QED
  BY <1>2, <1>3

\* The map reads the anchors back.
LEMMA MarkedMap ==
  ASSUME NEW t, NEW S, NEW u, Marked(t, S, u)
  PROVE  MapValid(u)
<1> DEFINE n == Len(t)
<1>1. /\ n \in Nat /\ S \in SUBSET (1..n) /\ Ordered(n, S) /\ Len(u) \in Nat
      /\ \A i \in 1..n : At(S, i) \in 1..Len(u) /\ u[At(S, i)].kind # "id"
      /\ \A s \in S : /\ At(S, s) - 2 \in 1..Len(u) /\ At(S, s) - 1 \in 1..Len(u)
                      /\ u[At(S, s) - 2].kind = "anchor" /\ u[At(S, s) - 2].n = Rank(S, s)
                      /\ u[At(S, s) - 1].kind = "id" /\ u[At(S, s) - 1].n = Rank(S, s)
                      /\ ~Masked(u, At(S, s) - 1)
  BY MarkedPlaces, MarkedMasks
<1>2. Existing(u) = {At(S, s) - 2 : s \in S}
  BY MarkedHeadings
<1>3. \A s \in S : s \in 0..n /\ s \in 1..n /\ s \in Nat /\ Rank(S, s) \in Nat /\ At(S, s) \in Nat
  BY <1>1 DEF Ordered
<1>4. ASSUME NEW r \in S, NEW s \in S, Rank(S, r) = Rank(S, s) PROVE r = s
  <2>1. r < s => Rank(S, r) < Rank(S, s)
    BY <1>1, <1>3 DEF Ordered
  <2>2. s < r => Rank(S, s) < Rank(S, r)
    BY <1>1, <1>3 DEF Ordered
  <2> QED
    BY <1>3, <1>4, <2>1, <2>2
<1>5. \A i, j \in Existing(u) : u[i].n = u[j].n => i = j
  <2> TAKE i \in Existing(u), j \in Existing(u)
  <2>1. PICK r \in S : i = At(S, r) - 2
    BY <1>2
  <2>2. PICK s \in S : j = At(S, s) - 2
    BY <1>2
  <2>3. u[i].n = Rank(S, r) /\ u[j].n = Rank(S, s)
    BY <1>1, <2>1, <2>2
  <2> QED
    BY <1>4, <2>1, <2>2, <2>3
<1>6. ASSUME NEW s \in S
      PROVE  IdLines(u, At(S, s) - 2) = {At(S, s) - 1}
  <2> DEFINE m == EndIn(S, s, t)
             E == Existing(u)
             a == At(S, s) - 2
  <2>1. EndIn(E, a, u) = At(S, m)
    BY MarkedEnds
  <2>2. m \in s..n /\ \A k \in S : k > s => m < k
    BY <1>1, <1>3, EndIs DEF Marked
  <2> HIDE DEF m, E
  <2>3. m \in 0..n /\ m \in 1..n /\ m \in Nat /\ At(S, m) \in Nat /\ At(S, m) \in 1..Len(u)
    <3>1. m \in 0..n /\ m \in 1..n /\ m \in Nat
      BY <1>1, <1>3, <2>2
    <3> QED
      BY <1>1, <3>1
  <2>4. At(S, s) <= At(S, m)
    <3>1. s = m \/ s < m
      BY <1>3, <2>2, <2>3
    <3>2. s < m => At(S, s) < At(S, m)
      BY <1>1, <1>3, <2>3 DEF Ordered
    <3> QED
      BY <1>3, <2>3, <3>1, <3>2
  <2>5. At(S, s) - 1 \in a..At(S, m)
    BY <1>3, <2>3, <2>4
  <2>6. ASSUME NEW j \in a..At(S, m), u[j].kind = "id" PROVE j = At(S, s) - 1
    <3>1. j \in 1..Len(u) /\ a <= j /\ j <= At(S, m) /\ j \in Nat
      <4>1. a \in 1..Len(u)
        BY <1>1
      <4> QED
        BY <1>1, <2>3, <4>1
    <3>2. PICK i \in 1..n : j = At(S, i) \/ (i \in S /\ j \in {At(S, i) - 2, At(S, i) - 1})
      BY <3>1 DEF Marked, Placed
    <3>3. j # At(S, i)
      BY <1>1, <2>6
    <3>4. i \in S /\ j \in {At(S, i) - 2, At(S, i) - 1}
      BY <3>2, <3>3
    <3>5. j # At(S, i) - 2
      BY <1>1, <2>6, <3>4
    <3>6. j = At(S, i) - 1 /\ i \in 0..n /\ i \in Nat /\ At(S, i) \in Nat
      BY <1>3, <3>4, <3>5
    <3>7. ~ (i < s)
      <4>1. i < s => At(S, i) < At(S, s) - 2
        BY <1>1, <1>3, <3>6 DEF Ordered
      <4> QED
        BY <1>3, <3>1, <3>6, <4>1
    <3>8. ~ (i > s)
      <4>1. i > s => m < i
        BY <2>2, <3>4
      <4>2. m < i => At(S, m) < At(S, i) - 2
        BY <1>1, <2>3, <3>4, <3>6 DEF Ordered
      <4>3. i > s => At(S, m) < At(S, i) - 2
        BY <4>1, <4>2
      <4> QED
        BY <2>3, <3>1, <3>6, <4>3
    <3>9. i = s
      BY <1>3, <3>6, <3>7, <3>8
    <3> QED
      BY <3>6, <3>9
  <2>7. IdLines(u, a) = {j \in a..At(S, m) : u[j].kind = "id" /\ ~Masked(u, j)}
    BY <2>1 DEF IdLines, E
  <2>8. At(S, s) - 1 \in {j \in a..At(S, m) : u[j].kind = "id" /\ ~Masked(u, j)}
    BY <1>1, <2>5
  <2> HIDE DEF a
  <2>9. IdLines(u, a) = {At(S, s) - 1}
    BY <2>6, <2>7, <2>8
  <2> QED
    BY <2>9 DEF a
<1>7. \A i \in Existing(u) :
        LET ids == IdLines(u, i) IN \E j \in ids : ids = {j} /\ u[j].n = u[i].n
  <2> TAKE i \in Existing(u)
  <2>1. PICK s \in S : i = At(S, s) - 2
    BY <1>2
  <2>2. IdLines(u, i) = {At(S, s) - 1} /\ u[At(S, s) - 1].n = u[i].n
    BY <1>1, <1>6, <2>1
  <2> QED
    BY <2>2
<1> QED
  BY <1>5, <1>7 DEF MapValid

\* The plan asks about every candidate that is large.
LEMMA PlanAsks ==
  ASSUME NEW t \in Seq(Line)
  PROVE  /\ DOMAIN Plan(t) = Candidates(t)
         /\ \A k \in Candidates(t) :
              /\ Plan(t)[k].end = EndIn(Candidates(t), k, t)
              /\ Plan(t)[k].end - k + 1 >= Large => k \in Questioned(Plan(t))
<1> DEFINE C == Candidates(t)
<1>1. DOMAIN Plan(t) = C
  BY DEF Plan
<1>2. ASSUME NEW k \in C
      PROVE  /\ Plan(t)[k].end = EndIn(C, k, t)
             /\ Plan(t)[k].action =
                  Action(EndIn(C, k, t) - k + 1, Cardinality(Boundaries(t, k, EndIn(C, k, t))))
  <2> HIDE DEF C
  <2> QED
    BY DEF Plan, C
<1>3. ASSUME NEW k \in C, Plan(t)[k].end - k + 1 >= Large
      PROVE  Plan(t)[k].action # "PROCEED_METADATA_ONLY"
  <2>1. EndIn(C, k, t) - k + 1 >= Large
    BY <1>2, <1>3
  <2>2. EndIn(C, k, t) - k + 1 \in Int
    <3>1. C \in SUBSET (1..Len(t)) /\ Len(t) \in Nat
      BY HeadingsType
    <3>2. EndIn(C, k, t) \in Nat /\ k \in Nat
      BY <3>1, EndType
    <3> QED
      BY <3>2
  <2> DEFINE count == EndIn(C, k, t) - k + 1
             bounds_ == Cardinality(Boundaries(t, k, EndIn(C, k, t)))
  <2>3. Plan(t)[k].action = Action(count, bounds_)
    BY <1>2
  <2>4. ~ (count < Large)
    BY <2>1, <2>2, LargeAssumption
  <2> HIDE DEF count, bounds_
  <2>5. Action(count, bounds_) # "PROCEED_METADATA_ONLY"
    BY <2>4 DEF Action
  <2> QED
    BY <2>3, <2>5
<1> QED
  BY <1>1, <1>2, <1>3 DEF Questioned

\* Every candidate is a section or starts one, and every section is one of the text, inside a candidate.
Covers(t, S) ==
  /\ Candidates(t) \subseteq S /\ S \subseteq Headings(t)
  /\ \A s \in S : \E k \in Candidates(t) : k <= s /\ s <= EndIn(Candidates(t), k, t)

\* The lines, the anchors and what is in front of them, and the large sections.
LEMMA MarkedLines ==
  ASSUME NEW t, NEW S, NEW u, Marked(t, S, u)
  PROVE  /\ Cardinality({j \in 1..Len(u) : ~IsMark(u[j])}) = Len(t)
         /\ \A i \in DOMAIN u : ~IsMark(u[i]) => u[i] = t[Cardinality({j \in 1..i : ~IsMark(u[j])})]
<1>1. /\ Len(t) \in Nat /\ Len(u) \in Nat /\ DOMAIN u = 1..Len(u) /\ Len(u) = At(S, Len(t))
      /\ \A i \in 1..Len(t) : At(S, i) \in 1..Len(u) /\ u[At(S, i)] = t[i]
      /\ \A s \in S : u[At(S, s) - 2].kind = "anchor" /\ u[At(S, s) - 1].kind = "id"
  BY MarkedPlaces
<1>2. Cardinality({j \in 1..Len(u) : ~IsMark(u[j])}) = Len(t)
  <2>1. \A i \in 1..Len(t) : i <= Len(t) <=> At(S, i) <= Len(u)
    BY <1>1
  <2>2. Len(u) \in 0..Len(u) /\ Len(t) \in 0..Len(t)
    BY <1>1
  <2> QED
    BY <2>1, <2>2, OriginalIs
<1>3. ASSUME NEW i \in DOMAIN u, ~IsMark(u[i])
      PROVE  u[i] = t[Cardinality({j \in 1..i : ~IsMark(u[j])})]
  <2>1. PICK m \in 1..Len(t) : i = At(S, m) \/ (m \in S /\ i \in {At(S, m) - 2, At(S, m) - 1})
    BY <1>1 DEF Marked, Placed
  <2>2. i = At(S, m)
    BY <1>1, <1>3, <2>1 DEF IsMark
  <2>3. Cardinality({j \in 1..At(S, m) : ~IsMark(u[j])}) = m
    BY MarkedOriginal
  <2> QED
    BY <1>1, <2>2, <2>3
<1> QED
  BY <1>2, <1>3

LEMMA MarkedFront ==
  ASSUME NEW t, NEW S, NEW u, Marked(t, S, u), Covers(t, S),
         NEW h \in Headings(u), \A i \in Existing(u) : h < i
  PROVE  Level(u[h]) > 2 \/ (Level(u[h]) = 1 /\ h = Min(Headings(u)))
<1> DEFINE n == Len(t)
<1>1. /\ n \in Nat /\ DOMAIN t = 1..n /\ S \in SUBSET (1..n) /\ Ordered(n, S) /\ t \in Seq(Line)
      /\ Len(u) \in Nat /\ DOMAIN u = 1..Len(u)
      /\ \A i \in 1..n : /\ At(S, i) \in 1..Len(u) /\ u[At(S, i)] = t[i] /\ t[i] \in Line
                         /\ t[i].kind \notin {"anchor", "id"}
  BY MarkedPlaces DEF Marked
<1>2. /\ Existing(u) = {At(S, s) - 2 : s \in S}
      /\ Headings(u) = Existing(u) \cup {At(S, i) : i \in Headings(t)}
  BY MarkedHeadings
<1>3. Headings(t) \subseteq 1..n /\ Headings(u) \subseteq 1..Len(u)
  BY <1>1 DEF Headings, AllHeadings
<1>4. h \in Nat /\ h \notin Existing(u)
  <2>1. h \in Nat
    BY <1>3
  <2> QED
    BY <2>1
<1>5. PICK i \in Headings(t) : h = At(S, i)
  BY <1>2, <1>4
<1>6. i \in 1..n /\ i \in 0..n /\ u[h] = t[i] /\ t[i].kind = "heading"
  BY <1>1, <1>3, <1>5 DEF Headings, AllHeadings
<1>7. i \notin Candidates(t)
  <2> SUFFICES ASSUME i \in S PROVE FALSE
    BY DEF Covers
  <2>1. h < At(S, i) - 2
    BY <1>2
  <2> QED
    BY <1>4, <1>5, <2>1
<1>8. Existing(t) = {}
  BY <1>1, <1>3 DEF Existing
<1>9. Level(t[i]) \in 1..6
  <2>1. t[i] \in Line
    BY <1>1, <1>6
  <2>2. t[i].n \in 1..6
    BY <1>6, <2>1 DEF Line
  <2> QED
    BY <1>6, <2>2 DEF Level
<1>10. CASE Major(t) = {}
  BY <1>6, <1>7, <1>8, <1>9, <1>10 DEF Candidates
<1>11. CASE Major(t) # {}
  <2>1. i \notin Major(t)
    BY <1>7, <1>8, <1>11 DEF Candidates
  <2>2. ~ (Level(t[i]) <= 2) \/ (Level(t[i]) = 1 /\ i = Min(Headings(t)))
    BY <2>1 DEF Major
  <2>3. CASE Level(t[i]) = 1 /\ i = Min(Headings(t))
    <3>1. Headings(t) \in SUBSET Nat /\ \A k \in Headings(t) : i <= k
      <4>1. Headings(t) \in SUBSET Nat
        BY <1>1, <1>3
      <4>2. Headings(t) # {}
        OBVIOUS
      <4> QED
        BY <2>3, <4>1, <4>2, MinIs
    <3>2. \A k \in Headings(u) : h <= k
      <4> TAKE k \in Headings(u)
      <4>1. CASE k \in Existing(u)
        <5>1. h < k /\ k \in Nat
          BY <1>1, <1>3, <4>1
        <5> QED
          BY <1>4, <5>1
      <4>2. CASE \E j \in Headings(t) : k = At(S, j)
        <5>1. PICK j \in Headings(t) : k = At(S, j)
          BY <4>2
        <5>2. j \in 0..n /\ j \in Nat /\ i \in Nat /\ i <= j /\ At(S, j) \in Nat
          BY <1>1, <1>3, <1>6, <3>1, <5>1
        <5>3. i < j => At(S, i) < At(S, j)
          BY <1>1, <1>6, <5>2 DEF Ordered
        <5>4. i = j \/ i < j
          BY <5>2
        <5> QED
          BY <1>4, <1>5, <5>1, <5>2, <5>3, <5>4
      <4> QED
        BY <1>2, <4>1, <4>2
    <3>3. h = Min(Headings(u))
      <4>1. Headings(u) \in SUBSET Nat
        BY <1>1, <1>3
      <4> DEFINE least == Min(Headings(u))
      <4>2. least \in Headings(u) /\ \A k \in Headings(u) : least <= k
        BY <4>1, MinIs
      <4> HIDE DEF least
      <4>3. least <= h /\ h <= least /\ least \in Nat
        BY <3>2, <4>1, <4>2
      <4>4. h = least
        BY <1>4, <4>3
      <4> QED
        BY <4>4 DEF least
    <3> QED
      BY <1>6, <2>3, <3>3
  <2>4. CASE ~ (Level(t[i]) <= 2)
    BY <1>6, <1>9, <2>4
  <2> QED
    BY <2>2, <2>3, <2>4
<1> QED
  BY <1>10, <1>11

LEMMA MarkedLarge ==
  ASSUME NEW t, NEW S, NEW u, Marked(t, S, u), Covers(t, S), NEW s \in S,
         EndIn(S, s, t) - s + 1 >= Large
  PROVE  \E k \in Questioned(Plan(t)) : k <= s /\ EndIn(S, s, t) <= Plan(t)[k].end
<1> DEFINE n == Len(t)
           C == Candidates(t)
           m == EndIn(S, s, t)
<1>1. n \in Nat /\ S \in SUBSET (1..n) /\ t \in Seq(Line)
  BY MarkedPlaces DEF Marked
<1>2. PICK k \in C : k <= s /\ s <= EndIn(C, k, t)
  BY DEF Covers
<1> DEFINE e == EndIn(C, k, t)
<1>3. C \in SUBSET (1..n) /\ k \in 1..n /\ C \subseteq S
  BY <1>1 DEF Covers
<1>4. m \in s..n /\ \A r \in S : r > s => m < r
  BY <1>1, EndIs
<1>5. e \in k..n /\ (e = n \/ (e + 1 \in C /\ e + 1 > k))
  BY <1>1, <1>3, EndIs
<1>6. s \in Nat /\ k \in Nat /\ m \in Nat /\ e \in Nat /\ m <= n /\ s <= e /\ k <= s
  <2> HIDE DEF m, e, C
  <2>1. s \in 1..n
    BY <1>1
  <2>2. s <= e
    BY <1>2 DEF e
  <2> QED
    BY <1>1, <1>2, <1>3, <1>4, <1>5, <2>1, <2>2
<1> HIDE DEF m, e, C
<1>7. m <= e
  <2>1. CASE e = n
    BY <1>6, <2>1
  <2>2. CASE e + 1 \in C
    <3>1. e + 1 \in S /\ e + 1 > s
      BY <1>3, <1>6, <2>2
    <3>2. m < e + 1
      BY <1>4, <3>1
    <3> QED
      BY <1>6, <3>2
  <2> QED
    BY <1>5, <2>1, <2>2
<1>8. m - s + 1 >= Large
  BY DEF m
<1>9. e - k + 1 >= Large
  BY <1>6, <1>7, <1>8, LargeAssumption
<1>10. Plan(t)[k].end = e /\ k \in Questioned(Plan(t))
  BY <1>1, <1>2, <1>9, PlanAsks DEF e, C
<1>11. k <= s /\ m <= Plan(t)[k].end
  BY <1>6, <1>7, <1>10
<1> QED
  BY <1>10, <1>11 DEF m

\* All that is said of the text with its anchors.
LEMMA MarksAll ==
  ASSUME NEW t, NEW S, NEW u, Marked(t, S, u), Covers(t, S)
  PROVE  Marks(t, u)
<1> DEFINE original(i) == Cardinality({j \in 1..i : ~IsMark(u[j])})
           first(i) == original(i) + 1
           last(i) == original(EndIn(Existing(u), i, u))
<1>1. /\ original(Len(u)) = Len(t)
      /\ \A i \in DOMAIN u : ~IsMark(u[i]) => u[i] = t[original(i)]
  BY MarkedLines
<1>2. Existing(u) = {i \in DOMAIN u : u[i].kind = "anchor"} /\ MapValid(u)
  BY MarkedHeadings, MarkedMap
<1>3. \A h \in Headings(u) : (\A i \in Existing(u) : h < i) =>
        Level(u[h]) > 2 \/ (Level(u[h]) = 1 /\ h = Min(Headings(u)))
  BY MarkedFront
<1>4. ASSUME NEW i \in Existing(u), last(i) - first(i) + 1 >= Large
      PROVE  \E k \in Questioned(Plan(t)) : k <= first(i) /\ last(i) <= Plan(t)[k].end
  <2>1. PICK s \in S : i = At(S, s) - 2
    BY MarkedHeadings
  <2>2. Len(t) \in Nat /\ S \in SUBSET (1..Len(t)) /\ t \in Seq(Line)
    BY MarkedPlaces DEF Marked
  <2>3. s \in 1..Len(t)
    BY <2>2
  <2>4. EndIn(S, s, t) \in s..Len(t)
    BY <2>2, <2>3, EndIs
  <2>5. EndIn(S, s, t) \in 1..Len(t)
    BY <2>2, <2>3, <2>4
  <2>6. original(i) = s - 1 /\ original(At(S, EndIn(S, s, t))) = EndIn(S, s, t)
    BY <2>1, <2>5, MarkedOriginal
  <2>7. EndIn(Existing(u), i, u) = At(S, EndIn(S, s, t))
    BY <2>1, MarkedEnds
  <2> HIDE DEF original
  <2>8. first(i) = s /\ last(i) = EndIn(S, s, t)
    BY <2>3, <2>6, <2>7
  <2> HIDE DEF first, last
  <2> QED
    BY <1>4, <2>8, MarkedLarge
<1> QED
  BY <1>1, <1>2, <1>3, <1>4 DEF Marks

-----------------------------------------------------------------------------
(***************************************************************************)
(* A queue as it was made covers the text with sections.                   *)
(***************************************************************************)
\* A queue as build_queue made it, whatever was answered since.
Genuine(q) == q.plan = Plan(q.of) /\ q.proposed = Queue(q.of, Plan(q.of)).proposed

\* What is proposed for the candidate of a text without marks that starts at i.
LEMMA ProposedIs ==
  ASSUME NEW q \in Queues, Genuine(q), ~AlreadyMarked(q.of),
         NEW i \in Candidates(q.of), Plan(q.of)[i].id \in DOMAIN q.answers
  PROVE  q.proposed[Plan(q.of)[i].id] = Plan(q.of)[i].splits
<1> DEFINE t == q.of
           p == Plan(t)
           C == Candidates(t)
           n == Len(t)
           asked == {p[j].id : j \in Questioned(p)}
           value(id) == UNION {p[j].splits : j \in {k \in DOMAIN p : p[k].id = id}}
<1>1. t \in Seq(Line) /\ n \in Nat /\ DOMAIN t = 1..n /\ C \in SUBSET (1..n)
  BY QueueParts, HeadingsType
<1>2. DOMAIN p = C
  BY <1>1, PlanAsks
<1>3. \A k \in C : p[k].id = Rank(C, k)
  <2> TAKE k \in C
  <2>1. t[k].kind # "anchor"
    BY <1>1 DEF AlreadyMarked
  <2> QED
    BY <2>1 DEF Plan
<1> HIDE DEF t, C, n
<1>4. ASSUME NEW k \in C, p[k].id = p[i].id PROVE k = i
  <2>1. k \in 0..n /\ i \in 0..n /\ i \in C /\ k \in Nat /\ i \in Nat
    BY <1>1 DEF C, t
  <2>2. Rank(C, k) = Rank(C, i)
    BY <1>3, <1>4, <2>1
  <2>3. k < i => Rank(C, k) < Rank(C, i) /\ Rank(C, k) \in Nat
    BY <1>1, <2>1, RankGrows
  <2>4. i < k => Rank(C, i) < Rank(C, k) /\ Rank(C, i) \in Nat
    BY <1>1, <2>1, RankGrows
  <2> QED
    BY <2>1, <2>2, <2>3, <2>4
<1>5. q.proposed = [id \in asked |-> value(id)]
  BY DEF Genuine, Queue, t
<1> HIDE DEF asked, p
<1>6. p[i].id \in asked
  <2>1. DOMAIN q.answers = DOMAIN q.proposed /\ DOMAIN q.proposed = asked
    BY <1>5, QueueParts
  <2> QED
    BY <2>1 DEF p, t
<1>7. {k \in DOMAIN p : p[k].id = p[i].id} = {i}
  BY <1>2, <1>4 DEF C, t
<1>8. value(p[i].id) = p[i].splits
  BY <1>7
<1> HIDE DEF value
<1> QED
  BY <1>5, <1>6, <1>8 DEF p, t

\* A candidate is split where it starts and at some of its boundaries.
LEMMA SplitStarts ==
  ASSUME NEW B \in SUBSET Nat, NEW end \in Nat, NEW i \in Nat, \A j \in B : j > i,
         B # {}
  PROVE  /\ \A s \in FromParent(Splits(B, end), i) : s[1] = i \/ s[1] \in B
         /\ \E s \in FromParent(Splits(B, end), i) : s[1] = i
<1> DEFINE X == Splits(B, end)
           firsts == {s[1] : s \in X}
           first == Min(firsts)
           moved(s) == IF s[1] = first /\ first > i THEN <<i, s[2]>> ELSE s
           least(j) == Min({k - 1 : k \in {m \in B : m > j}} \cup {end})
<1>1. X = {<<j, least(j)>> : j \in B}
  BY DEF Splits
<1> HIDE DEF X, least
<1>2. firsts = B
  <2>1. ASSUME NEW j \in B PROVE j \in firsts
    <3> DEFINE s == <<j, least(j)>>
    <3>1. s \in X /\ s[1] = j
      BY <1>1
    <3> HIDE DEF s
    <3> QED
      BY <3>1
  <2>2. ASSUME NEW s \in X PROVE s[1] \in B
    BY <1>1
  <2> HIDE DEF X
  <2> QED
    BY <2>1, <2>2
<1> HIDE DEF firsts
<1>3. first \in B
  <2>1. Min(B) \in B
    BY MinIs
  <2> QED
    BY <1>2, <2>1
<1>4. FromParent(X, i) = {moved(s) : s \in X}
  BY DEF FromParent, firsts
<1> HIDE DEF first
<1>5. \A s \in X : s[1] \in B
  BY <1>1
<1>6. \A s \in X : moved(s)[1] = i \/ moved(s)[1] \in B
  BY <1>5
<1>7. \E s \in X : moved(s)[1] = i
  <2> DEFINE s == <<first, least(first)>>
  <2>1. s \in X /\ s[1] = first /\ first > i
    BY <1>1, <1>3
  <2> HIDE DEF s
  <2>2. moved(s) = <<i, s[2]>>
    BY <2>1
  <2> QED
    BY <2>1, <2>2
<1> HIDE DEF moved
<1>8. \A s \in FromParent(X, i) : s[1] = i \/ s[1] \in B
  BY <1>4, <1>6
<1>9. \E s \in FromParent(X, i) : s[1] = i
  BY <1>4, <1>7
<1> QED
  BY <1>8, <1>9 DEF X

\* What becomes of a candidate when the queue is answered without a split by hand.
LEMMA CandidateStarts ==
  ASSUME NEW q \in Queues, Genuine(q), ~AlreadyMarked(q.of), ~Invalid(q), ~ByHand(q),
         ~Raises(q, Plan(q.of)), NEW i \in Candidates(q.of)
  PROVE  /\ \A s \in SectionsOf(q, Plan(q.of)[i], i) :
              /\ s[1] \in Headings(q.of) /\ i <= s[1]
              /\ s[1] <= EndIn(Candidates(q.of), i, q.of)
         /\ \E s \in SectionsOf(q, Plan(q.of)[i], i) : s[1] = i
<1> DEFINE t == q.of
           C == Candidates(t)
           c == Plan(t)[i]
           end == EndIn(C, i, t)
           B == Boundaries(t, i, end)
<1>1. /\ t \in Seq(Line) /\ Len(t) \in Nat /\ C \in SUBSET (1..Len(t)) /\ i \in C /\ C \subseteq Headings(t)
      /\ Headings(t) \subseteq 1..Len(t)
  <2>1. Candidates(t) \subseteq Headings(t)
    BY DEF Candidates, Existing, Major
  <2> QED
    BY <2>1, QueueParts, HeadingsType
<1>2. i \in Nat /\ end \in i..Len(t) /\ end \in Nat
  <2>1. i \in 1..Len(t)
    BY <1>1
  <2>2. end \in i..Len(t)
    BY <1>1, <2>1, EndIs
  <2> QED
    BY <1>1, <2>1, <2>2
<1>3. B \subseteq Headings(t) /\ \A j \in B : i < j /\ j <= end
  BY DEF Boundaries, Internal
<1>4. c.end = end /\ c.splits = Splits(B, end)
  BY <1>1 DEF Plan
<1> HIDE DEF B, end
<1>5. CASE c.id \notin DOMAIN q.answers \/ q.answers[c.id].decision = "KEEP_AS_ONE"
  <2>1. SectionsOf(q, c, i) = {<<i, c.end>>}
    BY <1>5 DEF SectionsOf
  <2> HIDE DEF c
  <2>2. \A s \in SectionsOf(q, c, i) : s[1] = i
    BY <2>1
  <2>3. \E s \in SectionsOf(q, c, i) : s[1] = i
    BY <2>1
  <2>4. i \in Headings(t) /\ i <= i /\ i <= end
    BY <1>1, <1>2
  <2> QED
    BY <2>2, <2>3, <2>4 DEF c, end
<1>6. CASE c.id \in DOMAIN q.answers /\ q.answers[c.id].decision # "KEEP_AS_ONE"
  <2> DEFINE a == q.answers[c.id]
  <2>1. a \in Answers /\ a.splits = {}
    BY <1>6, QueueParts DEF ByHand
  <2>2. a.decision # "TBD" /\ a.decision # "MODIFY_SPLIT"
    BY <1>6, <2>1 DEF Invalid
  <2>3. a.decision = "SPLIT_AS_PROPOSED"
    BY <1>6, <2>1, <2>2 DEF Answers, Decisions
  <2>4. q.proposed[c.id] = Splits(B, end)
    BY <1>1, <1>4, <1>6, ProposedIs
  <2>5. SectionsOf(q, c, i) = FromParent(Splits(B, end), i)
    BY <1>6, <2>3, <2>4 DEF SectionsOf
  <2>6. B # {}
    <3> SUFFICES ASSUME B = {} PROVE FALSE
      OBVIOUS
    <3>1. Splits(B, end) = {}
      BY DEF Splits
    <3>2. FromParent(Splits(B, end), i) = {}
      BY <3>1 DEF FromParent
    <3>3. i \in DOMAIN Plan(t)
      BY <1>1, PlanAsks
    <3> QED
      BY <2>5, <3>2, <3>3 DEF Raises
  <2>7. B \in SUBSET Nat
    BY <1>1, <1>3
  <2>8. /\ \A s \in FromParent(Splits(B, end), i) : s[1] = i \/ s[1] \in B
        /\ \E s \in FromParent(Splits(B, end), i) : s[1] = i
    BY <1>2, <1>3, <2>6, <2>7, SplitStarts
  <2>9. \A j \in B : i <= j /\ j <= end
    BY <1>2, <1>3, <2>7
  <2>10. i \in Headings(t) /\ i <= i /\ i <= end
    BY <1>1, <1>2
  <2> HIDE DEF c, a
  <2> QED
    BY <1>3, <2>5, <2>8, <2>9, <2>10 DEF c, end
<1> QED
  BY <1>5, <1>6

\* So the sections that are marked cover the candidates.
LEMMA SectionsCover ==
  ASSUME NEW q \in Queues, Genuine(q), ~AlreadyMarked(q.of), ~Invalid(q), ~ByHand(q),
         ~Raises(q, Plan(q.of))
  PROVE  Covers(q.of, {s[1] : s \in Sections(q, Plan(q.of))})
<1> DEFINE t == q.of
           p == Plan(t)
           C == Candidates(t)
           S == {s[1] : s \in Sections(q, p)}
<1>1. DOMAIN p = C
  BY QueueParts, PlanAsks
<1>2. \A i \in C : /\ \A s \in SectionsOf(q, p[i], i) :
                        s[1] \in Headings(t) /\ i <= s[1] /\ s[1] <= EndIn(C, i, t)
                   /\ \E s \in SectionsOf(q, p[i], i) : s[1] = i
  BY CandidateStarts
<1>3. \A s \in Sections(q, p) : \E i \in C : s \in SectionsOf(q, p[i], i)
  BY <1>1 DEF Sections
<1>4. \A i \in C : SectionsOf(q, p[i], i) \subseteq Sections(q, p)
  BY <1>1 DEF Sections
<1> HIDE DEF C, p, t
<1>5. \A i \in C : i \in S
  BY <1>2, <1>4
<1>6. \A s \in S : s \in Headings(t) /\ \E i \in C : i <= s /\ s <= EndIn(C, i, t)
  BY <1>2, <1>3
<1> HIDE DEF S
<1>7. C \subseteq S /\ S \subseteq Headings(t)
  BY <1>5, <1>6
<1> QED
  BY <1>6, <1>7 DEF Covers, C, S, p, t

-----------------------------------------------------------------------------
(***************************************************************************)
(* The inductive invariant.                                                *)
(***************************************************************************)
\* A run: there is a working HLD, and a queue when its answers are applied.  The read-only
\* run: where it is, and what it has built so far of its text.
InBuild == Building \cup {"freshness", "mirror"}
Builds == [of : Texts, at : Places, next : Steps, todo : SUBSET Items]
Built == disk[build.at]
RunInv ==
  /\ pc # "idle" => working # None
  /\ pc = "apply" => disk[QueueAt].queue # NoQueue
BuildInv ==
  pc \in InBuild =>
    /\ build \in Builds /\ build.at \in {"direct", "firstrun"}
    /\ build.next \in {"raw", "plan"} /\ (build.at = "direct" => build.next = "raw")
    /\ layout = "new" \/ pc \notin Building => build.at = "firstrun"
    /\ build.at = "direct" => disk["firstrun"].plan = None
    /\ pc = "mirror" => layout = "new"
    /\ pc \in {"queue", "map"} => Built.plan = None /\ Built.prework = None
    /\ pc \in {"map", "derive"} => Ready(build.of.lines)
    /\ pc = "derive" => MapValid(build.of.lines) /\ Built.plan = build.of /\ Built.prework = None
    /\ pc \in {"freshness", "mirror"} =>
         IF Ready(build.of.lines)
         THEN MapValid(build.of.lines) /\ Built.plan = build.of /\ Built.prework = build.of
         ELSE Built.plan = None /\ Built.prework = None
    /\ pc = "mirror" =>
         /\ recorded # None
         /\ "queue" \in build.todo => Built.queue # NoQueue
         /\ Built.plan # None => "plan" \in build.todo \/ disk["sync"].plan = Built.plan
         /\ Built.prework # None => "prework" \in build.todo \/ disk["sync"].prework = Built.prework
    /\ clean => build.of = IF pc = "mirror" THEN recorded ELSE working

\* Legacy: the approval is of the package's text, which is the plan's, and what is reused is
\* what was recorded.
LegacyInv ==
  layout = "legacy" =>
    /\ \A p \in Places : disk[p].approval # None => disk[p].approval = disk[p].prework
    /\ clean /\ pc \notin Building \cup {"freshness"} /\ disk["firstrun"].plan # None
         => disk["firstrun"].plan = recorded /\ disk["firstrun"].prework = recorded
    /\ disk["firstrun"].prework # None => disk["firstrun"].prework = disk["firstrun"].plan

\* Legacy: what is not older than the plan has all that people changed in it.
RoundsInv ==
  layout = "legacy" =>
    /\ ~disk["firstrun"].newer => rounds.prework = rounds.plan
    /\ pc = "gate" => ~disk["firstrun"].newer

\* New layout: before the first run nothing is there.
NothingYet ==
  rawCopy = None => recorded = None /\ backup = None /\ pc = "idle" /\ disk = [p \in Places |-> Empty]
HldsInv ==
  /\ rawCopy # None => working # None
  /\ kind = "working" => working # None
  /\ kind = "file" /\ rawCopy = None => working = None

\* There is no backup before a queue has come to the sync directory.
QueueInv ==
  /\ disk["sync"].queue = NoQueue => backup = None
  /\ pc = "early" => disk["sync"].queue = NoQueue
  /\ pc \in Building \cup {"freshness"} /\ build.next = "raw" => disk["sync"].queue = NoQueue

\* A text stays converted until a backup of a raw one is restored.
ConvertedInv ==
  /\ pc = "late" => Converted(working.lines)
  /\ pc \in Building \cup {"freshness"} /\ build.next = "plan" => Converted(build.of.lines)
  /\ pc \in InBuild /\ Converted(build.of.lines) => Converted(working.lines)
  /\ pc = "mirror" /\ Converted(build.of.lines) => Converted(recorded.lines)
  /\ disk["sync"].plan # None /\ backup = None => Converted(working.lines)
  /\ recorded # None /\ ~ Converted(recorded.lines) => disk["sync"].plan = None

NewInv == layout = "new" => NothingYet /\ HldsInv /\ QueueInv /\ ConvertedInv

\* New layout, with a text that is converted to begin with: its lines stay, and what is
\* reused is what was recorded.
GivenInv ==
  layout = "new" /\ rawCopy # None /\ Converted(rawCopy.lines) =>
    /\ working.lines = rawCopy.lines /\ backup = None /\ pc # "apply"
    /\ pc \in InBuild => build.of.lines = rawCopy.lines
    /\ \A p \in {"firstrun", "sync"} :
         disk[p].plan # None => Ready(rawCopy.lines) /\ MapValid(rawCopy.lines)
    /\ clean /\ pc \notin InBuild /\ recorded # None /\ disk["sync"].plan # None
         => disk["sync"].plan = recorded /\ disk["sync"].prework = recorded

\* Every queue is as build_queue made it, but for its answers.
GenuineInv == \A p \in Places : disk[p].queue # NoQueue => Genuine(disk[p].queue)

PipelineInv == RunInv /\ BuildInv /\ LegacyInv /\ RoundsInv /\ NewInv /\ GivenInv /\ GenuineInv

-----------------------------------------------------------------------------
(***************************************************************************)
(* What the steps do to the directories.                                   *)
(***************************************************************************)
LEMMA DirParts ==
  ASSUME TypeOK, NEW p \in Places
  PROVE  /\ disk[p] \in Dirs /\ disk[p].queue \in {NoQueue} \cup Queues
         /\ disk[p].plan \in Texts \cup {None} /\ disk[p].prework \in Texts \cup {None}
         /\ disk[p].approval \in Texts \cup {None}
         /\ disk[p].newer \in BOOLEAN /\ disk[p].accepted \subseteq SpecIds
<1>1. disk[p] \in Dirs
  BY DEF TypeOK
<1> QED
  BY <1>1 DEF Dirs

LEMMA EmptyDir == Empty \in Dirs
  BY DEF Empty, Dirs

LEMMA DirChanged ==
  ASSUME TypeOK, NEW p \in Places, NEW d \in Dirs, disk' = [disk EXCEPT ![p] = d]
  PROVE  /\ disk' \in [Places -> Dirs]
         /\ disk'[p] = d /\ \A q \in Places \ {p} : disk'[q] = disk[q]
  BY DEF TypeOK

LEMMA ScriptRuns ==
  ASSUME TypeOK, NEW place \in {"direct", "firstrun"}, NEW text \in Texts, NEW next \in Steps,
         RunScript(place, text, next)
  PROVE  /\ disk' \in [Places -> Dirs] /\ disk'[place] = Empty
         /\ place = "direct" => \A p \in Places : disk'[p] = Empty
         /\ place = "firstrun" => disk'["direct"] = disk["direct"] /\ disk'["sync"] = disk["sync"]
         /\ pc' = "queue" /\ clean' = TRUE
         /\ build' \in Builds /\ build'.of = text /\ build'.at = place /\ build'.next = next
<1>1. place \in Places
  BY DEF Places
<1>2. build' \in Builds /\ build'.of = text /\ build'.at = place /\ build'.next = next
  BY <1>1 DEF RunScript, Builds
<1>3. CASE place = "direct"
  BY <1>1, <1>2, <1>3, EmptyDir DEF RunScript
<1>4. CASE place = "firstrun"
  <2>1. disk' = [disk EXCEPT ![place] = Empty]
    BY <1>4 DEF RunScript
  <2>2. disk' \in [Places -> Dirs] /\ disk'[place] = Empty /\ \A q \in Places \ {place} : disk'[q] = disk[q]
    BY <1>1, <2>1, DirChanged, EmptyDir
  <2> QED
    BY <1>2, <1>4, <2>2 DEF RunScript, Places
<1> QED
  BY <1>3, <1>4

\* The steps of the read-only run write one item where it builds.
LEMMA BuildWrites ==
  ASSUME TypeOK, build \in Builds, build.at \in Places, NEW p \in Places
  PROVE  /\ BuildQueue =>
              /\ disk' \in [Places -> Dirs]
              /\ disk'[p].plan = disk[p].plan /\ disk'[p].prework = disk[p].prework
              /\ disk'[p].approval = disk[p].approval /\ (p # build.at => disk'[p] = disk[p])
         /\ BuildPlan =>
              /\ disk' \in [Places -> Dirs]
              /\ disk'[p].plan = (IF p = build.at THEN build.of ELSE disk[p].plan)
              /\ disk'[p].queue = disk[p].queue /\ disk'[p].prework = disk[p].prework
              /\ disk'[p].approval = disk[p].approval /\ (p # build.at => disk'[p] = disk[p])
         /\ BuildPrework =>
              /\ disk' \in [Places -> Dirs]
              /\ disk'[p].prework = (IF p = build.at THEN build.of ELSE disk[p].prework)
              /\ disk'[p].queue = disk[p].queue /\ disk'[p].plan = disk[p].plan
              /\ disk'[p].approval = disk[p].approval /\ (p # build.at => disk'[p] = disk[p])
<1> DEFINE at == build.at
<1>1. /\ disk \in [Places -> Dirs] /\ at \in Places /\ disk[at] \in Dirs /\ disk[p] \in Dirs
      /\ build.of \in Texts /\ build.of.lines \in Seq(Line)
  BY DEF TypeOK, Builds, Texts
<1>2. ASSUME BuildQueue
      PROVE  /\ disk' \in [Places -> Dirs]
             /\ disk'[p].plan = disk[p].plan /\ disk'[p].prework = disk[p].prework
             /\ disk'[p].approval = disk[p].approval /\ (p # at => disk'[p] = disk[p])
  <2> DEFINE q == Queue(build.of.lines, Plan(build.of.lines))
             d == [disk[at] EXCEPT !.queue = q]
  <2>1. q \in Queues
    BY <1>1, QueueType
  <2>2. disk' = [disk EXCEPT ![at] = d]
    BY <1>2 DEF BuildQueue
  <2> HIDE DEF q, at
  <2>3. /\ d \in Dirs /\ d.plan = disk[at].plan /\ d.prework = disk[at].prework
        /\ d.approval = disk[at].approval
    BY <1>1, <2>1 DEF Dirs
  <2> HIDE DEF d
  <2> QED
    BY <1>1, <2>2, <2>3
<1>3. ASSUME BuildPlan
      PROVE  /\ disk' \in [Places -> Dirs]
             /\ disk'[p].plan = (IF p = at THEN build.of ELSE disk[p].plan)
             /\ disk'[p].queue = disk[p].queue /\ disk'[p].prework = disk[p].prework
             /\ disk'[p].approval = disk[p].approval /\ (p # at => disk'[p] = disk[p])
  <2> DEFINE d == [disk[at] EXCEPT !.plan = build.of]
  <2>1. disk' = [disk EXCEPT ![at] = d]
    BY <1>3 DEF BuildPlan
  <2> HIDE DEF at
  <2>2. /\ d \in Dirs /\ d.plan = build.of /\ d.queue = disk[at].queue
        /\ d.prework = disk[at].prework /\ d.approval = disk[at].approval
    BY <1>1 DEF Dirs
  <2> HIDE DEF d
  <2> QED
    BY <1>1, <2>1, <2>2
<1>4. ASSUME BuildPrework
      PROVE  /\ disk' \in [Places -> Dirs]
             /\ disk'[p].prework = (IF p = at THEN build.of ELSE disk[p].prework)
             /\ disk'[p].queue = disk[p].queue /\ disk'[p].plan = disk[p].plan
             /\ disk'[p].approval = disk[p].approval /\ (p # at => disk'[p] = disk[p])
  <2> DEFINE d == [disk[at] EXCEPT !.prework = build.of]
  <2>1. disk' = [disk EXCEPT ![at] = d]
    BY <1>4 DEF BuildPrework
  <2> HIDE DEF at
  <2>2. /\ d \in Dirs /\ d.prework = build.of /\ d.queue = disk[at].queue
        /\ d.plan = disk[at].plan /\ d.approval = disk[at].approval
    BY <1>1 DEF Dirs
  <2> HIDE DEF d
  <2> QED
    BY <1>1, <2>1, <2>2
<1> QED
  BY <1>2, <1>3, <1>4

\* A mirrored item is that of the scripts' workspace.
LEMMA MirrorWrites ==
  ASSUME TypeOK, NEW i \in Items, MirrorItem(i)
  PROVE  /\ disk' \in [Places -> Dirs]
         /\ disk'["direct"] = disk["direct"] /\ disk'["firstrun"] = disk["firstrun"]
         /\ disk'["sync"].queue =
              (IF i = "queue" THEN disk["firstrun"].queue ELSE disk["sync"].queue)
         /\ disk'["sync"].plan =
              (IF i = "plan" THEN disk["firstrun"].plan ELSE disk["sync"].plan)
         /\ disk'["sync"].prework =
              (IF i = "prework" THEN disk["firstrun"].prework ELSE disk["sync"].prework)
         /\ disk'["sync"].approval = disk["sync"].approval
<1> DEFINE newer == IF i = "queue" THEN disk["sync"].newer ELSE i = "plan" /\ "prework" \in build.todo
           d == [disk["sync"] EXCEPT ![i] = disk["firstrun"][i], !.newer = newer]
<1>1. /\ disk \in [Places -> Dirs] /\ {"direct", "firstrun", "sync"} = Places
      /\ disk["sync"] \in Dirs /\ disk["firstrun"] \in Dirs
  BY DEF TypeOK, Places
<1>2. disk' = [disk EXCEPT !["sync"] = d]
  BY DEF MirrorItem
<1>3. newer \in BOOLEAN
  <2>1. disk["sync"].newer \in BOOLEAN
    BY <1>1 DEF Dirs
  <2>2. (i = "plan" /\ "prework" \in build.todo) \in BOOLEAN
    OBVIOUS
  <2> QED
    BY <2>1, <2>2, Zenon
<1> HIDE DEF newer
<1>4. i \in {"queue", "plan", "prework"}
  BY DEF Items
<1>5. /\ d \in Dirs
      /\ d.queue = (IF i = "queue" THEN disk["firstrun"].queue ELSE disk["sync"].queue)
      /\ d.plan = (IF i = "plan" THEN disk["firstrun"].plan ELSE disk["sync"].plan)
      /\ d.prework = (IF i = "prework" THEN disk["firstrun"].prework ELSE disk["sync"].prework)
      /\ d.approval = disk["sync"].approval
  <2>1. CASE i = "queue"
    BY <1>1, <1>3, <2>1 DEF Dirs
  <2>2. CASE i = "plan"
    BY <1>1, <1>3, <2>2 DEF Dirs
  <2>3. CASE i = "prework"
    BY <1>1, <1>3, <2>3 DEF Dirs
  <2> QED
    BY <1>4, <2>1, <2>2, <2>3
<1> HIDE DEF d
<1> QED
  BY <1>1, <1>2, <1>5

\* What people write leaves the plan and the prework, and of a queue all but its answers;
\* there was something in a directory.
Writing == Answer \/ Keep \/ Accept \/ Approve \/ Reject \/ EditPlan
LEMMA PeopleWrite ==
  ASSUME TypeOK, Writing
  PROVE  /\ disk' \in [Places -> Dirs]
         /\ \A p \in Places :
              /\ disk'[p].plan = disk[p].plan /\ disk'[p].prework = disk[p].prework
              /\ disk'[p].queue = NoQueue <=> disk[p].queue = NoQueue
              /\ disk'[p].queue.of = disk[p].queue.of /\ disk'[p].queue.plan = disk[p].queue.plan
              /\ disk'[p].queue.proposed = disk[p].queue.proposed
              /\ p # QueueAt => disk'[p].queue = disk[p].queue
              /\ disk'[p].approval \in {None, disk[p].approval, disk[p].prework}
         /\ \E p \in Places : disk[p] # Empty
<1> DEFINE Same(p, d) ==
             /\ d \in Dirs /\ d.plan = disk[p].plan /\ d.prework = disk[p].prework
             /\ d.queue = NoQueue <=> disk[p].queue = NoQueue
             /\ d.queue.of = disk[p].queue.of /\ d.queue.plan = disk[p].queue.plan
             /\ d.queue.proposed = disk[p].queue.proposed
             /\ p # QueueAt => d.queue = disk[p].queue
             /\ d.approval \in {None, disk[p].approval, disk[p].prework}
<1>1. /\ disk \in [Places -> Dirs] /\ \A p \in Places : disk[p] \in Dirs
      /\ QueueAt \in Places /\ Reads \in Places /\ ApproveAt \in Places
  BY DEF TypeOK, QueueAt, Reads, ApproveAt, Places
<1>2. \A p \in Places : Same(p, disk[p])
  BY <1>1
<1>3. ASSUME NEW p \in Places, NEW d, disk' = [disk EXCEPT ![p] = d], Same(p, d)
      PROVE  disk' \in [Places -> Dirs] /\ \A q \in Places : Same(q, disk'[q])
  <2>1. \A q \in Places : disk'[q] = IF q = p THEN d ELSE disk[q]
    BY <1>1, <1>3
  <2>2. disk' \in [Places -> Dirs]
    BY <1>1, <1>3
  <2> HIDE DEF Same
  <2> QED
    BY <1>2, <1>3, <2>1, <2>2
<1>4. ASSUME Answer \/ Keep
      PROVE  /\ \E p \in Places : \E d : disk' = [disk EXCEPT ![p] = d] /\ Same(p, d)
             /\ \E p \in Places : disk[p] # Empty
  <2> DEFINE p == QueueAt
             queue == disk[p].queue
  <2>1. queue # NoQueue /\ queue \in Queues
    BY <1>1, <1>4, DirParts DEF Answer, Keep, Asks
  <2>2. disk[p] # Empty
    BY <2>1 DEF Empty
  <2>3. PICK f \in [DOMAIN queue.answers -> Answers] : disk' = [disk EXCEPT ![p].queue.answers = f]
    <3>1. CASE Answer
      <4>1. PICK q \in DOMAIN queue.answers, new \in [decision : Decisions, splits : {{}} \cup HandSplits] :
              disk' = [disk EXCEPT ![p].queue.answers[q] = new]
        BY <3>1 DEF Answer
      <4> DEFINE f == [queue.answers EXCEPT ![q] = new]
      <4>2. disk' = [disk EXCEPT ![p].queue.answers = f]
        BY <4>1
      <4>3. new \in Answers
        BY HandSplitsAssumption DEF Answers
      <4>4. PICK S \in SUBSET Nat : queue.answers \in [S -> Answers]
        <5> HIDE DEF queue
        <5>1. PICK S \in SUBSET Nat :
                queue \in [of : Seq(Line), plan : Plans, answers : [S -> Answers], proposed : [S -> SUBSET Spans]]
          BY <2>1 DEF Queues
        <5> QED
          BY <5>1
      <4>5. f \in [DOMAIN queue.answers -> Answers]
        BY <4>3, <4>4
      <4> QED
        BY <4>2, <4>5
    <3>2. CASE Keep
      <4> DEFINE f == [q \in DOMAIN queue.answers |-> [decision |-> "KEEP_AS_ONE", splits |-> {}]]
      <4>1. disk' = [disk EXCEPT ![p].queue.answers = f]
        BY <3>2 DEF Keep
      <4>2. f \in [DOMAIN queue.answers -> Answers]
        BY DEF Answers, Decisions
      <4> QED
        BY <4>1, <4>2
    <3> QED
      BY <1>4, <3>1, <3>2
  <2> DEFINE new == [queue EXCEPT !.answers = f]
             d == [disk[p] EXCEPT !.queue = new]
  <2>4. new \in Queues /\ new # NoQueue
    BY <2>1, <2>3, AnsweredType, QueueParts
  <2>o. new.of = queue.of /\ new.plan = queue.plan /\ new.proposed = queue.proposed
    <3> HIDE DEF queue
    <3> QED
      BY <2>1 DEF Queues
  <2>5. disk' = [disk EXCEPT ![p] = d]
    BY <2>3
  <2>6. Same(p, d)
    <3> HIDE DEF new, queue, p
    <3> QED
      BY <1>1, <2>1, <2>4, <2>o DEF Dirs, queue, p
  <2> QED
    BY <1>1, <2>2, <2>5, <2>6
<1>5. ASSUME Accept
      PROVE  /\ \E p \in Places : \E d : disk' = [disk EXCEPT ![p] = d] /\ Same(p, d)
             /\ \E p \in Places : disk[p] # Empty
  <2> DEFINE p == Reads
             d == [disk[p] EXCEPT !.accepted = Flags[disk[p].plan.v]]
  <2>1. disk[p].plan \in Texts
    BY <1>1, <1>5, DirParts DEF Accept, Here
  <2>2. Flags[disk[p].plan.v] \subseteq SpecIds
    BY <2>1 DEF Texts, SpecIds
  <2>3. disk' = [disk EXCEPT ![p] = d] /\ disk[p] # Empty
    BY <1>5 DEF Accept, Here, Empty
  <2>4. Same(p, d)
    BY <1>1, <2>2 DEF Dirs
  <2> QED
    BY <1>1, <2>3, <2>4
<1>6. ASSUME EditPlan
      PROVE  /\ \E p \in Places : \E d : disk' = [disk EXCEPT ![p] = d] /\ Same(p, d)
             /\ \E p \in Places : disk[p] # Empty
  <2> DEFINE p == Reads
             d == [disk[p] EXCEPT !.newer = TRUE]
  <2>1. disk' = [disk EXCEPT ![p] = d] /\ disk[p] # Empty
    BY <1>6 DEF EditPlan, Here, Empty
  <2>2. Same(p, d)
    BY <1>1 DEF Dirs
  <2> QED
    BY <1>1, <2>1, <2>2
<1>7. ASSUME Approve \/ Reject
      PROVE  /\ \E p \in Places : \E d : disk' = [disk EXCEPT ![p] = d] /\ Same(p, d)
             /\ \E p \in Places : disk[p] # Empty
  <2> DEFINE p == ApproveAt
             d(t) == [disk[p] EXCEPT !.approval = t]
  <2>1. disk[p] # Empty
    BY <1>7 DEF Approve, Reject, Decidable, Empty
  <2>2. PICK t \in {None, disk[p].prework} : disk' = [disk EXCEPT ![p] = d(t)]
    BY <1>7 DEF Approve, Reject
  <2>3. Same(p, d(t))
    BY <1>1, <2>2 DEF Dirs
  <2> QED
    BY <1>1, <2>1, <2>2, <2>3
<1>8. /\ \E p \in Places : \E d : disk' = [disk EXCEPT ![p] = d] /\ Same(p, d)
      /\ \E p \in Places : disk[p] # Empty
  <2> HIDE DEF Same
  <2> QED
    BY <1>4, <1>5, <1>6, <1>7 DEF Writing
<1>9. disk' \in [Places -> Dirs] /\ \A q \in Places : Same(q, disk'[q])
  <2> HIDE DEF Same
  <2> QED
    BY <1>3, <1>8
<1> QED
  BY <1>8, <1>9

\* A rebuild makes the prework of the legacy workspace anew.
LEMMA RebuildWrites ==
  ASSUME TypeOK, Rebuild
  PROVE  /\ layout = "legacy" /\ pc = "idle"
         /\ UNCHANGED <<layout, kind, source, rawCopy, working, backup, recorded, pc, build, executed, clean, bounds>>
         /\ disk' \in [Places -> Dirs]
         /\ \A p \in Places :
              /\ disk'[p].queue = disk[p].queue /\ disk'[p].plan = disk[p].plan
              /\ disk'[p].approval = disk[p].approval
              /\ p # "firstrun" => disk'[p] = disk[p]
         /\ disk["firstrun"].plan # None /\ disk'["firstrun"].prework = disk["firstrun"].plan
         /\ disk'["firstrun"].newer = FALSE
<1> DEFINE d == [disk["firstrun"] EXCEPT !.prework = disk["firstrun"].plan, !.newer = FALSE]
<1>1. layout = "legacy" /\ Reads = "firstrun" /\ "firstrun" \in Places /\ disk["firstrun"] \in Dirs
  BY DEF Rebuild, Reads, Places, TypeOK
<1>2. disk' = [disk EXCEPT !["firstrun"] = d] /\ disk["firstrun"].plan # None
  BY <1>1 DEF Rebuild, Here
<1>3. /\ d \in Dirs /\ d.queue = disk["firstrun"].queue /\ d.plan = disk["firstrun"].plan
      /\ d.approval = disk["firstrun"].approval /\ d.prework = disk["firstrun"].plan /\ d.newer = FALSE
  BY <1>1 DEF Dirs
<1>4. UNCHANGED <<layout, kind, source, rawCopy, working, backup, recorded, pc, build, executed, clean, bounds>>
  BY DEF Rebuild
<1>5. pc = "idle"
  BY DEF Rebuild
<1> HIDE DEF d
<1>6. disk' \in [Places -> Dirs] /\ disk'["firstrun"] = d /\ \A q \in Places \ {"firstrun"} : disk'[q] = disk[q]
  BY <1>1, <1>2, <1>3, DirChanged
<1> QED
  BY <1>1, <1>2, <1>3, <1>4, <1>5, <1>6

-----------------------------------------------------------------------------
(***************************************************************************)
(* What the steps do to the HLDs.                                          *)
(***************************************************************************)
LEMMA TextTypes ==
  ASSUME TypeOK
  PROVE  /\ None \notin Texts /\ \A t \in Texts : t # None /\ t.lines \in Seq(Line) /\ t.v \in Versions
         /\ source \in Texts /\ working \in Texts \cup {None} /\ rawCopy \in Texts \cup {None}
         /\ backup \in Texts \cup {None} /\ recorded \in Texts \cup {None}
  BY NoneAssumption DEF TypeOK, Texts

\* An edit keeps the lines of a converted HLD.
LEMMA EditedType ==
  ASSUME NEW text \in Texts, NEW new \in Edited(text)
  PROVE  new \in Texts /\ (Converted(text.lines) => new.lines = text.lines)
<1>1. PICK v \in Versions \ {text.v} :
        new \in [v : {v}, lines : IF Converted(text.lines) THEN {text.lines} ELSE Given[v]]
  BY DEF Edited
<1>2. text.lines \in Seq(Line) /\ Given[v] \subseteq Seq(Line)
  BY GivenAssumption DEF Texts
<1>3. CASE Converted(text.lines)
  <2>1. new \in [v : {v}, lines : {text.lines}]
    BY <1>1, <1>3
  <2> QED
    BY <1>2, <2>1 DEF Texts
<1>4. CASE ~ Converted(text.lines)
  <2>1. new \in [v : {v}, lines : Given[v]]
    BY <1>1, <1>4
  <2> QED
    BY <1>2, <1>4, <2>1 DEF Texts
<1> QED
  BY <1>3, <1>4

\* The conversion refuses, or writes a text and keeps the one before it as a backup.
LEMMA Applies ==
  ASSUME TypeOK, RunInv, ApplyConversion
  PROVE  /\ working \in Texts
         /\ \/ working' = working /\ backup' = backup /\ pc' = "idle"
            \/ /\ working' \in Texts /\ backup' \in {working, backup} /\ backup' # None
               /\ pc' \in {"idle", "late"} /\ (pc' = "late" => Converted(working'.lines))
<1> DEFINE queue == disk[QueueAt].queue
           plan == Planned.plan
           sections == Sections(queue, plan)
           converted == [working EXCEPT !.lines = Anchor(@, sections)]
<1>1. working \in Texts /\ working.lines \in Seq(Line) /\ backup \in Texts \cup {None} /\ None \notin Texts
  BY TextTypes DEF RunInv, ApplyConversion
<1>2. QueueAt \in Places /\ "firstrun" \in Places
  BY DEF QueueAt, Places
<1>3. queue \in Queues /\ Planned \in Queues
  BY <1>2, DirParts DEF RunInv, ApplyConversion, Planned
<1>4. plan \in Plans
  BY <1>3, QueueParts
<1>5. sections \in SUBSET Spans
  <2> HIDE DEF plan, queue
  <2> QED
    BY <1>3, <1>4, SectionsType
<1>6. Anchor(working.lines, sections) \in Seq(Line)
  <2> HIDE DEF sections
  <2> QED
    BY <1>1, <1>5, AnchorType
<1>7. converted \in Texts
  <2> HIDE DEF sections
  <2> QED
    BY <1>1, <1>6 DEF Texts
<1>8. CASE ApplyRefuses
  BY <1>1, <1>8 DEF ApplyConversion, StopRun, Goto
<1>9. CASE ~ ApplyRefuses
  <2>1. /\ working' = converted /\ backup' = (IF backup = None THEN working ELSE backup)
        /\ pc' = IF kind = "working" \/ ~ Converted(converted.lines) THEN "idle" ELSE "late"
    BY <1>9 DEF ApplyConversion, StopRun, Goto
  <2> HIDE DEF converted
  <2> QED
    BY <1>1, <1>7, <2>1
<1> QED
  BY <1>8, <1>9

\* Where a run begins.
LEMMA Begins ==
  ASSUME TypeOK, RunInv, Begin
  PROVE  /\ working' \in Texts /\ (working # None => working' = working)
         /\ \/ /\ layout = "new" /\ working' = (IF working = None THEN source ELSE working)
               /\ rawCopy' = (IF rawCopy = None THEN SourceText ELSE rawCopy)
               /\ pc' = (IF disk["sync"].queue = NoQueue THEN "early" ELSE "raw")
               /\ UNCHANGED <<disk, build, clean>>
            \/ /\ layout = "legacy" /\ RunScript("direct", working', "raw") /\ rawCopy' = rawCopy
            \/ /\ layout = "legacy" /\ pc' = "raw" /\ UNCHANGED <<working, rawCopy, disk, build, clean>>
<1>1. layout \in {"legacy", "new"}
  BY LayoutsAssumption DEF TypeOK
<1>2. source \in Texts /\ working \in Texts \cup {None}
  BY TextTypes
<1>3. CASE layout = "new"
  BY <1>2, <1>3 DEF Begin, Goto
<1>4. CASE layout = "legacy" /\ working = None
  BY <1>2, <1>4 DEF Begin
<1>5. CASE layout = "legacy" /\ working # None
  BY <1>2, <1>5 DEF Begin, Goto
<1> QED
  BY <1>1, <1>3, <1>4, <1>5

-----------------------------------------------------------------------------
(***************************************************************************)
(* Type correctness.                                                       *)
(***************************************************************************)
LEMMA InitTypes == Init => TypeOK
<1> SUFFICES ASSUME Init PROVE TypeOK
  OBVIOUS
<1>1. source \in Texts
  BY GivenAssumption DEF Init, Texts
<1>2. working \in Texts \cup {None}
  BY <1>1 DEF Init
<1>3. disk \in [Places -> Dirs]
  BY EmptyDir DEF Init
<1>4. /\ layout \in Layouts /\ kind \in Sources /\ pc = "idle" /\ build = None
      /\ executed = FALSE /\ clean = TRUE /\ rawCopy = None /\ backup = None /\ recorded = None
      /\ edits = 0 /\ cuts = 0
  BY DEF Init
<1>5. rounds \in Rounds
  BY DEF Init, NoRounds, Rounds
<1> QED
  <2>1. {rawCopy, working, backup, recorded} \subseteq Texts \cup {None}
    BY <1>2, <1>4
  <2>2. pc \in Steps /\ {executed, clean} \subseteq BOOLEAN
    BY <1>4 DEF Steps
  <2>3. edits \in 0..MaxEdits /\ cuts \in 0..MaxCuts
    BY <1>4, BoundsAssumption
  <2> QED
    BY <1>1, <1>3, <1>4, <1>5, <2>1, <2>2, <2>3 DEF TypeOK

\* Where the run goes, and what it knows.
LEMMA NextRunTypes ==
  ASSUME TypeOK, RunInv, BuildInv, [Next]_vars
  PROVE  /\ pc' \in Steps /\ (build' = None \/ build' \in Builds)
         /\ executed' \in BOOLEAN /\ clean' \in BOOLEAN
<1>1. /\ pc \in Steps /\ (build = None \/ build \in Builds)
      /\ executed \in BOOLEAN /\ clean \in BOOLEAN
  BY DEF TypeOK, Builds
<1>2. CASE Begin
  <2>1. executed' = executed
    BY <1>2 DEF Begin
  <2>2. source \in Texts /\ working' \in Texts /\ "raw" \in Steps /\ "early" \in Steps /\ "queue" \in Steps
    BY <1>2, Begins, TextTypes DEF Steps
  <2>3. CASE RunScript("direct", working', "raw")
    BY <1>1, <2>1, <2>2, <2>3, ScriptRuns
  <2>4. CASE pc' \in {"early", "raw"} /\ UNCHANGED <<build, clean>>
    BY <1>1, <2>1, <2>2, <2>4
  <2> QED
    BY <1>2, <2>3, <2>4, Begins
<1>3. CASE EnsureFirstReadonly
  <2> DEFINE next == IF pc = "early" THEN "raw" ELSE "plan"
  <2>1. executed' = executed /\ next \in Steps /\ "queue" \in Steps /\ working \in Texts
    BY <1>3, TextTypes DEF EnsureFirstReadonly, Steps, RunInv
  <2>2. CASE UpToDate
    <3>1. pc' = next /\ UNCHANGED <<build, clean>>
      BY <1>3, <2>2 DEF EnsureFirstReadonly, Goto
    <3> QED
      BY <1>1, <2>1, <3>1
  <2>3. CASE ~ UpToDate
    <3>1. RunScript("firstrun", working, next)
      BY <1>3, <2>3 DEF EnsureFirstReadonly
    <3> HIDE DEF next
    <3> QED
      BY <1>1, <2>1, <3>1, ScriptRuns
  <2> QED
    BY <2>2, <2>3
<1>4. CASE BuildQueue \/ BuildPlan \/ BuildPrework \/ WriteFreshness \/ MirrorDone
  <2>1. build \in Builds
    BY <1>4 DEF BuildInv, InBuild, Building, BuildQueue, BuildPlan, BuildPrework, WriteFreshness, MirrorDone
  <2>2. build.next \in Steps /\ {"map", "derive", "freshness", "mirror"} \subseteq Steps
    BY <2>1 DEF Builds, Steps
  <2>3. pc' \in Steps /\ executed' = executed /\ clean' = clean
    BY <1>4, <2>2 DEF BuildQueue, BuildPlan, BuildPrework, WriteFreshness, MirrorDone, AfterBuild, Goto
  <2>4. build' \in Builds
    <3>1. CASE WriteFreshness
      BY <2>1, <3>1 DEF WriteFreshness, Builds
    <3>2. CASE ~ WriteFreshness
      BY <1>4, <2>1, <3>2 DEF BuildQueue, BuildPlan, BuildPrework, MirrorDone, Goto
    <3> QED
      BY <3>1, <3>2
  <2> QED
    BY <1>1, <2>3, <2>4
<1>5. CASE \E i \in Items : MirrorItem(i)
  <2>1. PICK i \in Items : MirrorItem(i)
    BY <1>5
  <2>2. build \in Builds /\ build' = [build EXCEPT !.todo = build.todo \ {i}]
    BY <2>1 DEF BuildInv, InBuild, MirrorItem
  <2> QED
    BY <1>1, <2>1, <2>2 DEF MirrorItem, Builds
<1>6. CASE MapFails \/ RawConversion \/ ApplyConversion \/ PlanGate \/ PreworkGate
  <2>1. /\ pc' \in {"idle", "late", "apply", "prework", "gate"} /\ UNCHANGED <<build, executed, clean>>
    BY <1>6 DEF MapFails, RawConversion, ApplyConversion, PlanGate, PreworkGate, StopRun, Goto
  <2> QED
    BY <1>1, <2>1 DEF Steps
<1>7. CASE ApprovalGate
  BY <1>1, <1>7 DEF ApprovalGate, StopRun, Goto, Steps
<1>8. CASE Cut
  BY <1>1, <1>8 DEF Cut, Steps
<1>9. CASE EditWorking
  BY <1>1, <1>9 DEF EditWorking
<1>10. CASE EditSource \/ Restore \/ Rebuild \/ Writing \/ UNCHANGED vars
  BY <1>1, <1>10 DEF EditSource, Restore, Rebuild, Writing, Answer, Keep, Accept, Approve, Reject, EditPlan, vars
<1> QED
  BY <1>2, <1>3, <1>4, <1>5, <1>6, <1>7, <1>8, <1>9, <1>10 DEF Next, Run, People, Writing

\* The steps that leave the directories as they are.
Leaves ==
  MirrorDone \/ MapFails \/ WriteFreshness \/ RawConversion \/ ApplyConversion \/ PlanGate
  \/ PreworkGate \/ ApprovalGate \/ Cut \/ EditWorking \/ EditSource \/ Restore

LEMMA LeavesDisk ==
  ASSUME Leaves
  PROVE  disk' = disk
  BY DEF Leaves, MirrorDone, MapFails, WriteFreshness, RawConversion, ApplyConversion, PlanGate,
         PreworkGate, ApprovalGate, Cut, EditWorking, EditSource, Restore, files

LEMMA NextDisk ==
  ASSUME TypeOK, RunInv, BuildInv, [Next]_vars
  PROVE  disk' \in [Places -> Dirs]
<1>1. disk \in [Places -> Dirs] /\ source \in Texts /\ {"raw", "plan"} \subseteq Steps
  BY TextTypes DEF TypeOK, Steps
<1>2. CASE Begin
  BY <1>1, <1>2, Begins, ScriptRuns
<1>3. CASE EnsureFirstReadonly
  <2> DEFINE next == IF pc = "early" THEN "raw" ELSE "plan"
  <2>1. working \in Texts /\ next \in Steps
    BY <1>1, <1>3, TextTypes DEF EnsureFirstReadonly, RunInv
  <2>2. disk' = disk \/ RunScript("firstrun", working, next)
    BY <1>3 DEF EnsureFirstReadonly
  <2> HIDE DEF next
  <2> QED
    BY <1>1, <2>1, <2>2, ScriptRuns
<1>4. CASE BuildQueue \/ BuildPlan \/ BuildPrework
  <2>1. build \in Builds /\ build.at \in Places
    BY <1>4 DEF BuildInv, InBuild, Building, BuildQueue, BuildPlan, BuildPrework, Builds
  <2> QED
    BY <1>4, <2>1, BuildWrites
<1>5. CASE \E i \in Items : MirrorItem(i)
  BY <1>5, MirrorWrites
<1>6. CASE Writing
  BY <1>6, PeopleWrite
<1>7. CASE Leaves
  BY <1>1, <1>7, LeavesDisk
<1>8. CASE UNCHANGED vars
  BY <1>1, <1>8 DEF vars, files
<1>9. CASE Rebuild
  BY <1>9, RebuildWrites
<1> QED
  BY <1>2, <1>3, <1>4, <1>5, <1>6, <1>7, <1>8, <1>9 DEF Next, Run, People, Writing, Leaves

LEMMA NextTexts ==
  ASSUME TypeOK, RunInv, BuildInv, [Next]_vars
  PROVE  /\ layout' = layout /\ kind' = kind /\ source' \in Texts
         /\ {rawCopy', working', backup', recorded'} \subseteq Texts \cup {None}
         /\ edits' \in 0..MaxEdits /\ cuts' \in 0..MaxCuts
<1>1. /\ source \in Texts /\ {rawCopy, working, backup, recorded} \subseteq Texts \cup {None}
      /\ edits \in 0..MaxEdits /\ cuts \in 0..MaxCuts
  BY DEF TypeOK
<1>2. CASE Begin
  <2>1. working' \in Texts /\ rawCopy' \in {rawCopy, SourceText}
    BY <1>2, Begins
  <2>2. SourceText \in Texts \cup {None}
    BY <1>1 DEF SourceText
  <2>3. UNCHANGED <<layout, kind, source, backup, recorded, edits, cuts>>
    BY <1>2 DEF Begin, bounds
  <2> QED
    BY <1>1, <2>1, <2>2, <2>3
<1>3. CASE EditWorking
  <2>1. working' \in Texts
    BY <1>1, <1>3, EditedType DEF EditWorking
  <2> QED
    BY <1>1, <1>3, <2>1, BoundsAssumption DEF EditWorking
<1>4. CASE EditSource
  <2>1. source' \in Texts
    BY <1>1, <1>4, EditedType DEF EditSource
  <2> QED
    BY <1>1, <1>4, <2>1, BoundsAssumption DEF EditSource
<1>5. CASE ApplyConversion
  <2>1. working' \in Texts \cup {None} /\ backup' \in Texts \cup {None}
    BY <1>1, <1>5, Applies
  <2> QED
    BY <1>1, <1>5, <2>1 DEF ApplyConversion, bounds
<1>6. CASE Restore \/ Reject \/ EditPlan \/ Cut
  BY <1>1, <1>6, BoundsAssumption DEF Restore, Reject, EditPlan, Cut, files
<1>7. CASE WriteFreshness
  BY <1>1, <1>7 DEF WriteFreshness, bounds
<1>8. CASE \/ EnsureFirstReadonly \/ BuildQueue \/ BuildPlan \/ MapFails \/ BuildPrework
           \/ (\E i \in Items : MirrorItem(i)) \/ MirrorDone
           \/ RawConversion \/ PlanGate \/ PreworkGate \/ ApprovalGate
  <2>1. UNCHANGED <<layout, kind, source, rawCopy, working, backup, recorded, edits, cuts>>
    BY <1>8 DEF EnsureFirstReadonly, BuildQueue, BuildPlan, MapFails, BuildPrework, MirrorItem, MirrorDone,
                RawConversion, PlanGate, PreworkGate, ApprovalGate, files, bounds
  <2> QED
    BY <1>1, <2>1
<1>9. CASE Answer \/ Keep \/ Accept \/ Approve \/ Rebuild \/ UNCHANGED vars
  BY <1>1, <1>9 DEF Answer, Keep, Accept, Approve, Rebuild, vars, files, bounds
<1> QED
  BY <1>2, <1>3, <1>4, <1>5, <1>6, <1>7, <1>8, <1>9 DEF Next, Run, People

LEMMA NextRounds ==
  ASSUME TypeOK, [Next]_vars
  PROVE  rounds' \in Rounds
<1>1. rounds \in Rounds /\ NoRounds \in Rounds
  BY DEF TypeOK, Rounds, NoRounds
<1>2. CASE Begin \/ EnsureFirstReadonly
  <2>1. rounds' \in {rounds, NoRounds}
    BY <1>2 DEF Begin, EnsureFirstReadonly, RunScript
  <2> QED
    BY <1>1, <2>1
<1>3. ASSUME NEW i \in Items, MirrorItem(i) PROVE rounds' \in Rounds
  <2>1. i \in {"queue", "plan", "prework"} /\ rounds' = IF i = "queue" THEN rounds ELSE [rounds EXCEPT ![i] = 0]
    BY <1>3 DEF MirrorItem, Items
  <2> QED
    BY <1>1, <2>1 DEF Rounds
<1>4. CASE EditPlan
  <2>1. rounds' = [rounds EXCEPT !.plan = rounds.plan + 1]
    BY <1>4 DEF EditPlan
  <2> QED
    BY <1>1, <2>1 DEF Rounds
<1>5. CASE Rebuild
  <2>1. rounds' = [rounds EXCEPT !.prework = rounds.plan]
    BY <1>5 DEF Rebuild
  <2> QED
    BY <1>1, <2>1 DEF Rounds
<1>6. CASE Run /\ ~Begin /\ ~EnsureFirstReadonly /\ ~(\E i \in Items : MirrorItem(i))
  BY <1>1, <1>6 DEF Run, BuildQueue, BuildPlan, MapFails, BuildPrework, WriteFreshness, MirrorDone,
     RawConversion, ApplyConversion, PlanGate, PreworkGate, ApprovalGate, files
<1>7. CASE \/ Cut \/ EditWorking \/ EditSource \/ Restore \/ Answer \/ Keep \/ Accept \/ Approve
           \/ Reject \/ UNCHANGED vars
  BY <1>1, <1>7 DEF Cut, EditWorking, EditSource, Restore, Answer, Keep, Accept, Approve, Reject, vars, files
<1> QED
  BY <1>2, <1>3, <1>4, <1>5, <1>6, <1>7 DEF Next, People

LEMMA NextTypes ==
  ASSUME TypeOK, RunInv, BuildInv, [Next]_vars
  PROVE  TypeOK'
<1>1. disk' \in [Places -> Dirs]
  BY NextDisk
<1> QED
  BY <1>1, NextRunTypes, NextTexts, NextRounds DEF TypeOK, Builds

-----------------------------------------------------------------------------
(***************************************************************************)
(* The inductive invariant.                                                *)
(***************************************************************************)
LEMMA NextRun ==
  ASSUME TypeOK, RunInv, BuildInv, [Next]_vars
  PROVE  RunInv'
<1>1. TypeOK' /\ QueueAt' = QueueAt /\ QueueAt \in Places
  BY NextTypes, NextTexts DEF QueueAt, Places
<1>2. CASE Begin
  <2>1. working' \in Texts /\ pc' \in {"early", "raw", "queue"}
    BY <1>2, Begins DEF RunScript
  <2> QED
    BY <2>1, TextTypes DEF RunInv
<1>3. CASE RawConversion
  BY <1>1, <1>3 DEF RawConversion, RunInv, files, StopRun, Goto
<1>4. CASE ApplyConversion
  <2>1. working' # None /\ pc' # "apply"
    BY <1>4, Applies, TextTypes
  <2> QED
    BY <2>1 DEF RunInv
<1>5. CASE EditWorking
  <2>1. working' # None /\ pc' = pc /\ disk' = disk
    BY <1>5, EditedType, TextTypes DEF EditWorking
  <2> QED
    BY <1>1, <2>1 DEF RunInv
<1>6. CASE Writing
  <2>1. pc' = pc /\ working' = working
    BY <1>6 DEF Writing, Answer, Keep, Accept, Approve, Reject, EditPlan
  <2>2. disk'[QueueAt].queue = NoQueue <=> disk[QueueAt].queue = NoQueue
    BY <1>1, <1>6, PeopleWrite
  <2> QED
    BY <1>1, <2>1, <2>2 DEF RunInv
<1>7. CASE \/ EnsureFirstReadonly \/ BuildQueue \/ BuildPlan \/ MapFails \/ BuildPrework \/ WriteFreshness
           \/ (\E i \in Items : MirrorItem(i)) \/ MirrorDone \/ PlanGate \/ PreworkGate \/ ApprovalGate
  <2>1. working' = working /\ pc # "idle"
    BY <1>7 DEF EnsureFirstReadonly, BuildQueue, BuildPlan, MapFails, BuildPrework, WriteFreshness,
                MirrorItem, MirrorDone, PlanGate, PreworkGate, ApprovalGate, files
  <2>2. pc' # "apply"
    BY <1>7 DEF EnsureFirstReadonly, BuildQueue, BuildPlan, MapFails, BuildPrework, WriteFreshness,
                MirrorItem, MirrorDone, PlanGate, PreworkGate, ApprovalGate, StopRun, Goto, RunScript,
                AfterBuild, BuildInv, InBuild, Building
  <2> QED
    BY <2>1, <2>2 DEF RunInv
<1>8. CASE Cut \/ Restore \/ Rebuild
  BY <1>8 DEF Cut, Restore, Rebuild, RunInv
<1>9. CASE EditSource \/ UNCHANGED vars
  BY <1>1, <1>9 DEF EditSource, vars, files, RunInv
<1> QED
  BY <1>2, <1>3, <1>4, <1>5, <1>6, <1>7, <1>8, <1>9 DEF Next, Run, People, Writing

\* A read-only run as it begins.
LEMMA ScriptBuild ==
  ASSUME TypeOK, TypeOK', NEW place \in {"direct", "firstrun"}, NEW next \in {"raw", "plan"},
         working' \in Texts, RunScript(place, working', next),
         place = "direct" => next = "raw", place = "firstrun" \/ layout' = "legacy",
         layout' = "new" => place = "firstrun"
  PROVE  BuildInv'
<1>1. /\ disk'[place] = Empty /\ (place = "direct" => disk'["firstrun"] = Empty)
      /\ pc' = "queue" /\ clean' = TRUE
      /\ build' \in Builds /\ build'.of = working' /\ build'.at = place /\ build'.next = next
  BY ScriptRuns DEF Steps, Places
<1> QED
  BY <1>1 DEF BuildInv, Building, Built, Empty

LEMMA NextBuild ==
  ASSUME TypeOK, RunInv, BuildInv, [Next]_vars
  PROVE  BuildInv'
<1>1. TypeOK' /\ layout' = layout /\ layout \in {"legacy", "new"} /\ {"direct", "firstrun", "sync"} = Places
  BY NextTypes, NextTexts, LayoutsAssumption DEF TypeOK, Places
<1>2. CASE Begin
  <2>1. CASE RunScript("direct", working', "raw") /\ layout = "legacy"
    BY <1>1, <1>2, <2>1, Begins, ScriptBuild
  <2>2. CASE pc' \in {"early", "raw"}
    BY <2>2 DEF BuildInv, InBuild, Building
  <2> QED
    BY <1>2, <2>1, <2>2, Begins
<1>3. CASE EnsureFirstReadonly
  <2> DEFINE next == IF pc = "early" THEN "raw" ELSE "plan"
  <2>1. next \in {"raw", "plan"} /\ working \in Texts /\ working' = working
    BY <1>3, TextTypes DEF EnsureFirstReadonly, RunInv
  <2>2. pc' = next \/ RunScript("firstrun", working', next)
    BY <1>3, <2>1 DEF EnsureFirstReadonly, Goto
  <2> HIDE DEF next
  <2>3. CASE pc' = next
    BY <2>1, <2>3 DEF BuildInv, InBuild, Building
  <2>4. CASE RunScript("firstrun", working', next)
    BY <1>1, <2>1, <2>4, ScriptBuild
  <2> QED
    BY <2>2, <2>3, <2>4
<1>4. CASE BuildQueue
  <2>1. /\ build \in Builds /\ build.at \in Places /\ build' = build /\ working' = working /\ clean' = clean
        /\ pc' \in {"map", "freshness", "raw", "plan"} /\ recorded' = recorded
        /\ pc' = "map" <=> Ready(build.of.lines)
        /\ pc' = "freshness" => build.at # "direct"
    BY <1>4 DEF BuildQueue, AfterBuild, BuildInv, InBuild, Building, Builds
  <2>2. \A p \in Places : disk'[p].plan = disk[p].plan /\ disk'[p].prework = disk[p].prework
    BY <1>4, <2>1, BuildWrites
  <2> QED
    BY <1>1, <1>4, <2>1, <2>2 DEF BuildInv, InBuild, Building, Built, BuildQueue
<1>5. CASE BuildPlan
  <2>1. /\ build \in Builds /\ build.at \in Places /\ build' = build /\ working' = working /\ clean' = clean
        /\ pc' = "derive" /\ MapValid(build.of.lines)
    BY <1>5 DEF BuildPlan, BuildInv, InBuild, Building, Builds
  <2>2. \A p \in Places : /\ disk'[p].plan = (IF p = build.at THEN build.of ELSE disk[p].plan)
                          /\ disk'[p].prework = disk[p].prework
    BY <1>5, <2>1, BuildWrites
  <2> QED
    BY <1>1, <1>5, <2>1, <2>2 DEF BuildInv, InBuild, Building, Built, BuildPlan
<1>6. CASE BuildPrework
  <2>1. /\ build \in Builds /\ build.at \in Places /\ build' = build /\ working' = working /\ clean' = clean
        /\ pc' \in {"freshness", "raw"} /\ (pc' = "freshness" => build.at # "direct")
    BY <1>6 DEF BuildPrework, AfterBuild, BuildInv, InBuild, Building, Builds
  <2>2. \A p \in Places : /\ disk'[p].prework = (IF p = build.at THEN build.of ELSE disk[p].prework)
                          /\ disk'[p].plan = disk[p].plan
    BY <1>6, <2>1, BuildWrites
  <2> QED
    BY <1>1, <1>6, <2>1, <2>2 DEF BuildInv, InBuild, Building, Built, BuildPrework
<1>7. CASE WriteFreshness
  <2> DEFINE todo == {i \in Items : disk["firstrun"][i] # Empty[i]}
  <2>1. /\ build \in Builds /\ build.at = "firstrun" /\ build.next \in {"raw", "plan"} /\ clean' = clean
        /\ disk' = disk /\ recorded' = working /\ working # None /\ pc' \in {"mirror", "raw", "plan"}
        /\ pc' = "mirror" <=> layout = "new"
        /\ build' = [build EXCEPT !.todo = todo]
    BY <1>1, <1>7 DEF WriteFreshness, BuildInv, RunInv, InBuild, Building, Builds
  <2>2. /\ "queue" \in todo => disk["firstrun"].queue # NoQueue
        /\ disk["firstrun"].plan # None => "plan" \in todo
        /\ disk["firstrun"].prework # None => "prework" \in todo
    BY DEF Items, Empty
  <2>3. todo \subseteq Items
    OBVIOUS
  <2> HIDE DEF todo
  <2>4. /\ build' \in Builds /\ build'.of = build.of /\ build'.at = build.at
        /\ build'.next = build.next /\ build'.todo = todo
    BY <2>1, <2>3 DEF Builds
  <2> QED
    BY <1>1, <1>7, <2>1, <2>2, <2>4 DEF BuildInv, InBuild, Building, Built, WriteFreshness
<1>8. ASSUME NEW i \in Items, MirrorItem(i) PROVE BuildInv'
  <2>1. /\ build \in Builds /\ build.at = "firstrun" /\ pc = "mirror" /\ pc' = pc /\ i \in build.todo
        /\ working' = working /\ clean' = clean /\ recorded' = recorded
        /\ build' = [build EXCEPT !.todo = build.todo \ {i}]
    BY <1>8 DEF MirrorItem, BuildInv, InBuild, Building
  <2>2. /\ build' \in Builds /\ build'.of = build.of /\ build'.at = build.at
        /\ build'.next = build.next /\ build'.todo = build.todo \ {i}
    BY <2>1 DEF Builds
  <2>3. /\ disk'["firstrun"] = disk["firstrun"]
        /\ disk'["sync"].plan = (IF i = "plan" THEN disk["firstrun"].plan ELSE disk["sync"].plan)
        /\ disk'["sync"].prework = (IF i = "prework" THEN disk["firstrun"].prework ELSE disk["sync"].prework)
    BY <1>8, MirrorWrites
  <2> QED
    BY <1>1, <2>1, <2>2, <2>3 DEF BuildInv, InBuild, Building, Built
<1>9. CASE MirrorDone
  <2>1. pc' \in {"raw", "plan"}
    BY <1>9 DEF MirrorDone, Goto, BuildInv, InBuild
  <2> QED
    BY <2>1 DEF BuildInv, InBuild, Building
<1>10. CASE MapFails \/ RawConversion \/ ApplyConversion \/ PlanGate \/ PreworkGate \/ ApprovalGate \/ Cut
            \/ Restore \/ Rebuild
  <2>1. pc' \in {"idle", "late", "apply", "prework", "gate"}
    BY <1>10 DEF MapFails, RawConversion, ApplyConversion, PlanGate, PreworkGate, ApprovalGate, StopRun, Goto,
                 Cut, Restore, Rebuild
  <2> QED
    BY <2>1 DEF BuildInv, InBuild, Building
<1>11. CASE EditWorking
  <2>1. /\ UNCHANGED <<pc, build, disk, recorded>>
        /\ clean' => clean /\ pc \notin Building \cup {"freshness"}
    BY <1>11 DEF EditWorking
  <2> QED
    BY <1>1, <2>1 DEF BuildInv, InBuild, Built
<1>12. CASE Writing
  <2>1. UNCHANGED <<pc, build, working, recorded, clean>>
    BY <1>12 DEF Writing, Answer, Keep, Accept, Approve, Reject, EditPlan
  <2>2. \A p \in Places :
          /\ disk'[p].plan = disk[p].plan /\ disk'[p].prework = disk[p].prework
          /\ disk'[p].queue = NoQueue <=> disk[p].queue = NoQueue
    BY <1>12, PeopleWrite
  <2> QED
    BY <1>1, <2>1, <2>2 DEF BuildInv, InBuild, Building, Built
<1>13. CASE EditSource \/ UNCHANGED vars
  <2>1. UNCHANGED <<pc, build, disk, working, recorded, clean>>
    BY <1>13 DEF EditSource, vars, files
  <2> QED
    BY <1>1, <2>1 DEF BuildInv, InBuild, Built
<1> QED
  BY <1>2, <1>3, <1>4, <1>5, <1>6, <1>7, <1>8, <1>9, <1>10, <1>11, <1>12, <1>13
  DEF Next, Run, People, Writing

\* Legacy layout.
LEMMA NextLegacy ==
  ASSUME TypeOK, RunInv, BuildInv, LegacyInv, [Next]_vars, layout' = "legacy"
  PROVE  LegacyInv'
<1> DEFINE Approvals == \A p \in Places : disk[p].approval # None => disk[p].approval = disk[p].prework
           Reusable ==
             clean /\ pc \notin Building \cup {"freshness"} /\ disk["firstrun"].plan # None
               => disk["firstrun"].plan = recorded /\ disk["firstrun"].prework = recorded
           Derived ==
             disk["firstrun"].prework # None => disk["firstrun"].prework = disk["firstrun"].plan
<1>1. /\ layout' = layout /\ layout = "legacy" /\ {"direct", "firstrun", "sync"} = Places
      /\ Approvals /\ Reusable /\ Derived
  BY NextTexts DEF Places, LegacyInv
<1> SUFFICES Approvals' /\ Reusable' /\ Derived'
  BY DEF LegacyInv
<1>2. ASSUME NEW place \in {"direct", "firstrun"}, NEW text \in Texts, NEW next \in Steps,
             RunScript(place, text, next)
      PROVE  Approvals' /\ Reusable' /\ Derived'
  <2>1. /\ \A p \in Places : disk'[p] = Empty \/ disk'[p] = disk[p]
        /\ pc' = "queue"
    BY <1>1, <1>2, ScriptRuns
  <2> QED
    BY <1>1, <2>1 DEF Building, Empty
<1>3. ASSUME disk' = disk, recorded' = recorded,
             clean' => clean /\ pc \notin Building \cup {"freshness"}
      PROVE  Approvals' /\ Reusable' /\ Derived'
  BY <1>1, <1>3
<1>4. CASE Begin
  <2>1. working' \in Texts /\ "raw" \in Steps
    BY <1>4, Begins DEF Steps
  <2>2. CASE RunScript("direct", working', "raw")
    BY <1>2, <2>1, <2>2
  <2>3. CASE pc' = "raw" /\ UNCHANGED <<disk, clean>>
    BY <1>3, <1>4, <2>3 DEF Begin, Building
  <2> QED
    BY <1>1, <1>4, <2>2, <2>3, Begins
<1>5. CASE EnsureFirstReadonly
  <2> DEFINE next == IF pc = "early" THEN "raw" ELSE "plan"
  <2>1. working \in Texts /\ next \in Steps /\ pc \in {"early", "late"} /\ recorded' = recorded
    BY <1>5, TextTypes DEF EnsureFirstReadonly, RunInv, Steps
  <2>2. (disk' = disk /\ clean' = clean) \/ RunScript("firstrun", working, next)
    BY <1>5 DEF EnsureFirstReadonly, Goto
  <2> HIDE DEF next
  <2> QED
    BY <1>2, <1>3, <2>1, <2>2 DEF Building
<1>6. CASE BuildQueue
  <2>1. /\ build \in Builds /\ build.at \in Places /\ pc = "queue"
        /\ pc' \in {"map", "freshness"} \/ disk["firstrun"].plan = None
    BY <1>6 DEF BuildQueue, AfterBuild, BuildInv, InBuild, Building, Builds
  <2>2. \A p \in Places : /\ disk'[p].plan = disk[p].plan /\ disk'[p].prework = disk[p].prework
                          /\ disk'[p].approval = disk[p].approval
    BY <1>6, <2>1, BuildWrites
  <2> QED
    BY <1>1, <2>1, <2>2 DEF Building
<1>7. CASE BuildPlan
  <2>1. build \in Builds /\ build.at \in Places /\ pc' = "derive" /\ disk[build.at].prework = None
    BY <1>7 DEF BuildPlan, BuildInv, InBuild, Building, Builds, Built
  <2>2. \A p \in Places : /\ disk'[p].prework = disk[p].prework /\ disk'[p].approval = disk[p].approval
                          /\ p # build.at => disk'[p] = disk[p]
    BY <1>7, <2>1, BuildWrites
  <2> QED
    BY <1>1, <2>1, <2>2 DEF Building
<1>8. CASE BuildPrework
  <2>1. /\ build \in Builds /\ build.at \in Places /\ pc = "derive"
        /\ pc' = "freshness" \/ (build.at # "firstrun" /\ disk["firstrun"].plan = None)
        /\ disk[build.at].prework = None /\ disk[build.at].plan = build.of
    BY <1>8 DEF BuildPrework, AfterBuild, BuildInv, InBuild, Building, Builds, Built
  <2>2. \A p \in Places : /\ disk'[p].plan = disk[p].plan /\ disk'[p].approval = disk[p].approval
                          /\ disk'[p].prework = (IF p = build.at THEN build.of ELSE disk[p].prework)
    BY <1>8, <2>1, BuildWrites
  <2> QED
    BY <1>1, <2>1, <2>2
<1>9. CASE WriteFreshness
  <2>1. /\ build.at = "firstrun" /\ disk' = disk /\ recorded' = working
        /\ clean' => build.of = working
        /\ IF Ready(build.of.lines)
           THEN disk["firstrun"].plan = build.of /\ disk["firstrun"].prework = build.of
           ELSE disk["firstrun"].plan = None
    BY <1>9 DEF WriteFreshness, BuildInv, InBuild, Building, Built
  <2> QED
    BY <1>1, <2>1
<1>10. CASE (\E i \in Items : MirrorItem(i)) \/ MirrorDone
  BY <1>1, <1>10 DEF MirrorItem, MirrorDone, BuildInv, InBuild
<1>11. CASE MapFails
  <2>1. disk["firstrun"].plan = None
    BY <1>1, <1>11 DEF MapFails, BuildInv, InBuild, Building, Built
  <2>2. disk' = disk
    BY <1>11 DEF MapFails, files
  <2> QED
    BY <1>1, <2>1, <2>2
<1>12. CASE RawConversion \/ ApplyConversion \/ PlanGate \/ PreworkGate \/ ApprovalGate
  <2>1. UNCHANGED <<disk, recorded, clean>> /\ pc \notin Building \cup {"freshness"}
    BY <1>12 DEF RawConversion, ApplyConversion, PlanGate, PreworkGate, ApprovalGate, files, Building,
                 StopRun, Goto
  <2> QED
    BY <1>3, <2>1
<1>13. CASE Cut
  <2>1. UNCHANGED <<disk, recorded>> /\ (clean' => clean /\ pc \notin Building \cup {"freshness"})
    BY <1>13 DEF Cut, files
  <2> QED
    BY <1>3, <2>1
<1>14. CASE EditWorking \/ EditSource \/ Restore \/ UNCHANGED vars
  <2>1. UNCHANGED <<disk, recorded, pc>>
    BY <1>14 DEF EditWorking, EditSource, Restore, vars, files
  <2>2. clean' => clean
    <3>1. CASE EditWorking
      BY <3>1 DEF EditWorking
    <3>2. CASE EditSource \/ Restore \/ UNCHANGED vars
      BY <3>2 DEF EditSource, Restore, vars
    <3> QED
      BY <1>14, <3>1, <3>2
  <2> QED
    BY <1>1, <2>1, <2>2
<1>15. CASE Writing
  <2>1. UNCHANGED <<recorded, pc, clean>>
    BY <1>15 DEF Writing, Answer, Keep, Accept, Approve, Reject, EditPlan
  <2>2. \A p \in Places :
          /\ disk'[p].plan = disk[p].plan /\ disk'[p].prework = disk[p].prework
          /\ disk'[p].approval \in {None, disk[p].approval, disk[p].prework}
    BY <1>15, PeopleWrite
  <2> QED
    BY <1>1, <2>1, <2>2
<1>16. CASE Rebuild
  <2>1. /\ UNCHANGED <<recorded, pc, clean>>
        /\ \A p \in Places :
             /\ disk'[p].plan = disk[p].plan /\ disk'[p].approval = disk[p].approval
             /\ p # "firstrun" => disk'[p] = disk[p]
        /\ disk'["firstrun"].prework = disk["firstrun"].plan
    BY <1>16, RebuildWrites
  <2> QED
    BY <1>1, <2>1
<1> QED
  BY <1>4, <1>5, <1>6, <1>7, <1>8, <1>9, <1>10, <1>11, <1>12, <1>13, <1>14, <1>15, <1>16
  DEF Next, Run, People, Writing

LEMMA NextRoundsInv ==
  ASSUME TypeOK, TypeOK', RunInv, BuildInv, RoundsInv, [Next]_vars, layout' = "legacy"
  PROVE  RoundsInv'
<1>1. /\ layout = "legacy" /\ {"direct", "firstrun", "sync"} = Places /\ Reads = "firstrun"
      /\ disk \in [Places -> Dirs] /\ rounds \in Rounds
      /\ ~disk["firstrun"].newer => rounds.prework = rounds.plan
      /\ pc = "gate" => ~disk["firstrun"].newer
  BY NextTexts DEF Places, RoundsInv, Reads, TypeOK
<1>2. ASSUME NEW place \in {"direct", "firstrun"}, NEW text \in Texts, NEW next \in Steps,
             RunScript(place, text, next)
      PROVE  RoundsInv'
  <2>1. disk'["firstrun"] = Empty /\ pc' = "queue"
    BY <1>1, <1>2, ScriptRuns
  <2>2. rounds' = NoRounds
    BY <1>1, <1>2 DEF RunScript
  <2> QED
    BY <2>1, <2>2 DEF RoundsInv, Empty, NoRounds
<1>3. ASSUME disk'["firstrun"].newer = disk["firstrun"].newer,
             rounds'.plan = rounds.plan, rounds'.prework = rounds.prework, pc' # "gate" \/ pc = "gate"
      PROVE  RoundsInv'
  BY <1>1, <1>3 DEF RoundsInv
<1>4. CASE Begin
  <2>1. working' \in Texts /\ "raw" \in Steps
    BY <1>4, Begins DEF Steps
  <2>2. CASE RunScript("direct", working', "raw")
    BY <1>2, <2>1, <2>2
  <2>3. CASE pc' = "raw" /\ UNCHANGED <<disk, rounds>>
    BY <1>3, <2>3
  <2> QED
    BY <1>1, <1>4, <2>1, <2>2, <2>3 DEF Begin, Goto
<1>5. CASE EnsureFirstReadonly
  <2> DEFINE next == IF pc = "early" THEN "raw" ELSE "plan"
  <2>1. working \in Texts /\ next \in Steps /\ next # "gate"
    BY <1>5, TextTypes DEF EnsureFirstReadonly, RunInv, Steps
  <2>2. (UNCHANGED <<disk, rounds>> /\ pc' = next) \/ RunScript("firstrun", working, next)
    BY <1>5 DEF EnsureFirstReadonly, Goto
  <2> HIDE DEF next
  <2> QED
    BY <1>2, <1>3, <2>1, <2>2
<1>6. CASE BuildQueue \/ BuildPlan \/ BuildPrework
  <2>1. /\ build.at \in Places /\ rounds' = rounds
        /\ pc' \in {"map", "derive", "freshness", "raw", "plan"}
    BY <1>6 DEF BuildQueue, BuildPlan, BuildPrework, AfterBuild, BuildInv, InBuild, Building, Builds
  <2>2. disk'["firstrun"].newer = disk["firstrun"].newer
    <3>1. CASE BuildQueue
      <4> DEFINE q == Queue(build.of.lines, Plan(build.of.lines))
      <4>1. disk' = [disk EXCEPT ![build.at].queue = q]
        BY <3>1 DEF BuildQueue
      <4> HIDE DEF q
      <4> QED
        BY <1>1, <2>1, <4>1 DEF Dirs
    <3>2. CASE BuildPlan
      BY <1>1, <2>1, <3>2 DEF BuildPlan, Dirs
    <3>3. CASE BuildPrework
      BY <1>1, <2>1, <3>3 DEF BuildPrework, Dirs
    <3> QED
      BY <1>6, <3>1, <3>2, <3>3
  <2> QED
    BY <1>3, <2>1, <2>2
<1>7. CASE (\E i \in Items : MirrorItem(i)) \/ MirrorDone
  BY <1>1, <1>7 DEF MirrorItem, MirrorDone, BuildInv, InBuild
<1>8. CASE PreworkGate
  <2>1. /\ UNCHANGED <<disk, rounds>>
        /\ pc' = "gate" => ~disk["firstrun"].newer
    BY <1>1, <1>8 DEF PreworkGate, StaleArtifacts, Here, Goto, StopRun, files
  <2> QED
    BY <1>1, <2>1 DEF RoundsInv
<1>9. CASE \/ MapFails \/ WriteFreshness \/ RawConversion \/ ApplyConversion \/ PlanGate \/ ApprovalGate
           \/ Cut \/ EditWorking \/ EditSource \/ Restore
  <2>1. UNCHANGED <<disk, rounds>>
    BY <1>9 DEF MapFails, WriteFreshness, RawConversion, ApplyConversion, PlanGate, ApprovalGate,
                Cut, EditWorking, EditSource, Restore, files
  <2>2. pc' # "gate" \/ pc = "gate"
    BY <1>1, <1>9 DEF MapFails, WriteFreshness, RawConversion, ApplyConversion, PlanGate, ApprovalGate,
                Cut, EditWorking, EditSource, Restore, StopRun, Goto, BuildInv, InBuild
  <2> QED
    BY <1>3, <2>1, <2>2
<1>10. CASE Answer \/ Keep
  <2>1. UNCHANGED <<rounds, pc>> /\ QueueAt = "direct"
    BY <1>1, <1>10 DEF Answer, Keep, QueueAt
  <2>2. disk'["firstrun"] = disk["firstrun"]
    <3>1. CASE Answer
      <4>1. PICK q, new : disk' = [disk EXCEPT ![QueueAt].queue.answers[q] = new]
        BY <3>1 DEF Answer
      <4> QED
        BY <1>1, <2>1, <4>1
    <3>2. CASE Keep
      <4> DEFINE a == [q \in DOMAIN disk[QueueAt].queue.answers |-> [decision |-> "KEEP_AS_ONE", splits |-> {}]]
      <4>1. disk' = [disk EXCEPT ![QueueAt].queue.answers = a]
        BY <3>2 DEF Keep
      <4> HIDE DEF a
      <4> QED
        BY <1>1, <2>1, <4>1
    <3> QED
      BY <1>10, <3>1, <3>2
  <2> QED
    BY <1>3, <2>1, <2>2
<1>11. CASE Accept \/ Reject
  <2>1. UNCHANGED <<rounds, pc>> /\ ApproveAt \in Places
    BY <1>1, <1>11 DEF Accept, Reject, ApproveAt
  <2>2. disk'["firstrun"].newer = disk["firstrun"].newer
    BY <1>1, <1>11, <2>1 DEF Accept, Reject, Dirs
  <2> QED
    BY <1>3, <2>1, <2>2
<1>12. CASE Approve
  <2>1. pc' = pc /\ ApproveAt \in Places
    BY <1>1, <1>12 DEF Approve, ApproveAt
  <2>2. disk'["firstrun"].newer = disk["firstrun"].newer
    BY <1>1, <1>12, <2>1 DEF Approve, Dirs
  <2>3. rounds'.plan = rounds.plan /\ rounds'.prework = rounds.prework
    BY <1>12 DEF Approve
  <2> QED
    BY <1>3, <2>1, <2>2, <2>3
<1>13. CASE EditPlan
  <2>1. disk'["firstrun"].newer = TRUE /\ pc' = "idle"
    BY <1>1, <1>13 DEF EditPlan, Dirs
  <2> QED
    BY <2>1 DEF RoundsInv
<1>14. CASE Rebuild
  <2>1. pc' = "idle" /\ rounds' = [rounds EXCEPT !.prework = rounds.plan]
    BY <1>14, RebuildWrites DEF Rebuild
  <2>2. rounds'.prework = rounds'.plan
    BY <1>1, <2>1 DEF Rounds
  <2> QED
    BY <2>1, <2>2 DEF RoundsInv
<1>15. CASE UNCHANGED vars
  BY <1>3, <1>15 DEF vars, files
<1> QED
  BY <1>4, <1>5, <1>6, <1>7, <1>8, <1>9, <1>10, <1>11, <1>12, <1>13, <1>14, <1>15 DEF Next, Run, People

LEMMA ReadyConverted ==
  ASSUME NEW t \in Seq(Line), Ready(t)
  PROVE  Converted(t)
BY DEF Ready, Converted, Existing, Headings, AllHeadings

\* New layout.
LEMMA NextNothing ==
  ASSUME TypeOK, RunInv, BuildInv, NewInv, [Next]_vars, layout' = "new"
  PROVE  NothingYet' /\ (rawCopy # None => rawCopy' = rawCopy)
<1>1. layout = "new" /\ NothingYet /\ (kind = "working" => working # None)
  BY NextTexts DEF NewInv, HldsInv
<1>2. SourceText # None
  BY <1>1, TextTypes DEF SourceText
<1>3. CASE Begin
  BY <1>1, <1>2, <1>3, Begins DEF NothingYet
<1>4. CASE Writing
  <2>1. PICK p \in Places : disk[p] # Empty
    BY <1>4, PeopleWrite
  <2>2. rawCopy # None
    BY <1>1, <2>1 DEF NothingYet
  <2>3. rawCopy' = rawCopy
    BY <1>4 DEF Writing, Answer, Keep, Accept, Approve, Reject, EditPlan
  <2> QED
    BY <2>2, <2>3 DEF NothingYet
<1>5. CASE Run /\ ~ Begin
  <2>1. pc # "idle" /\ rawCopy' = rawCopy
    BY <1>5 DEF Run, EnsureFirstReadonly, BuildQueue, BuildPlan, MapFails, BuildPrework, WriteFreshness,
                MirrorItem, MirrorDone, RawConversion, ApplyConversion, PlanGate, PreworkGate, ApprovalGate, files
  <2> QED
    BY <1>1, <2>1 DEF NothingYet
<1>6. CASE Cut
  BY <1>1, <1>6 DEF Cut, NothingYet, files
<1>7. CASE EditWorking \/ EditSource \/ UNCHANGED vars
  BY <1>1, <1>7 DEF EditWorking, EditSource, vars, files, NothingYet
<1>8. CASE Restore
  BY <1>1, <1>8 DEF Restore, NothingYet
<1>9. CASE Rebuild
  BY <1>1, <1>9, RebuildWrites
<1> QED
  BY <1>3, <1>4, <1>5, <1>6, <1>7, <1>8, <1>9 DEF Next, People, Writing

LEMMA NextHlds ==
  ASSUME TypeOK, RunInv, BuildInv, NewInv, [Next]_vars, layout' = "new"
  PROVE  HldsInv'
<1>1. /\ layout = "new" /\ kind' = kind /\ NothingYet /\ HldsInv
      /\ None \notin Texts /\ (rawCopy' = None => rawCopy = None)
  BY NextTexts, NextNothing, TextTypes DEF NewInv
<1>2. CASE Begin
  <2>1. working' \in Texts
    BY <1>2, Begins
  <2>2. rawCopy' # None
    <3>1. SourceText # None
      BY <1>1, TextTypes DEF SourceText, HldsInv
    <3> QED
      BY <1>1, <1>2, <3>1, Begins
  <2> QED
    BY <1>1, <2>1, <2>2 DEF HldsInv
<1>3. CASE EditWorking
  <2>1. working # None /\ working' \in Texts /\ rawCopy' = rawCopy
    BY <1>3, EditedType, TextTypes DEF EditWorking
  <2> QED
    BY <1>1, <2>1 DEF HldsInv
<1>4. CASE ApplyConversion
  <2>1. working # None /\ working' # None /\ rawCopy' = rawCopy
    BY <1>1, <1>4, Applies DEF ApplyConversion
  <2> QED
    BY <1>1, <2>1 DEF HldsInv
<1>5. CASE Restore
  <2>1. backup # None /\ working' = backup /\ rawCopy' = rawCopy /\ rawCopy # None
    BY <1>1, <1>5 DEF Restore, NothingYet
  <2> QED
    BY <1>1, <2>1 DEF HldsInv
<1>6. CASE Writing
  BY <1>1, <1>6 DEF Writing, Answer, Keep, Accept, Approve, Reject, EditPlan, HldsInv
<1>7. CASE Run /\ ~ Begin /\ ~ ApplyConversion
  <2>1. working' = working /\ rawCopy' = rawCopy
    BY <1>7 DEF Run, EnsureFirstReadonly, BuildQueue, BuildPlan, MapFails, BuildPrework, WriteFreshness,
                MirrorItem, MirrorDone, RawConversion, PlanGate, PreworkGate, ApprovalGate, files
  <2> QED
    BY <1>1, <2>1 DEF HldsInv
<1>8. CASE Cut \/ EditSource \/ UNCHANGED vars
  BY <1>1, <1>8 DEF Cut, EditSource, vars, files, HldsInv
<1>9. CASE Rebuild
  BY <1>1, <1>9, RebuildWrites
<1> QED
  BY <1>2, <1>3, <1>4, <1>5, <1>6, <1>7, <1>8, <1>9 DEF Next, People, Writing

LEMMA NextQueue ==
  ASSUME TypeOK, RunInv, BuildInv, NewInv, [Next]_vars, layout' = "new"
  PROVE  QueueInv'
<1>1. layout = "new" /\ QueueInv /\ {"direct", "firstrun", "sync"} = Places /\ QueueAt = "sync"
  BY NextTexts DEF NewInv, QueueAt, Places
<1>2. ASSUME disk'["sync"].queue = disk["sync"].queue, backup' = backup,
             pc' \notin {"early"} \cup Building \cup {"freshness"}
      PROVE  QueueInv'
  BY <1>1, <1>2 DEF QueueInv
<1>3. CASE Begin
  <2>1. /\ disk' = disk /\ backup' = backup
        /\ pc' = IF disk["sync"].queue = NoQueue THEN "early" ELSE "raw"
    BY <1>1, <1>3, Begins DEF Begin
  <2> QED
    BY <1>1, <2>1 DEF QueueInv, Building
<1>4. CASE EnsureFirstReadonly
  <2> DEFINE next == IF pc = "early" THEN "raw" ELSE "plan"
  <2>1. /\ working \in Texts /\ next \in Steps /\ pc \in {"early", "late"} /\ backup' = backup
        /\ next = "raw" => disk["sync"].queue = NoQueue
    BY <1>1, <1>4, TextTypes DEF EnsureFirstReadonly, RunInv, Steps, QueueInv
  <2>2. (disk' = disk /\ pc' = next) \/ RunScript("firstrun", working, next)
    BY <1>4 DEF EnsureFirstReadonly, Goto
  <2>3. next \in {"raw", "plan"}
    OBVIOUS
  <2> HIDE DEF next
  <2>4. CASE disk' = disk /\ pc' = next
    BY <1>2, <2>1, <2>3, <2>4 DEF Building
  <2>5. CASE RunScript("firstrun", working, next)
    <3>1. disk'["sync"] = disk["sync"] /\ pc' = "queue" /\ build'.next = next
      BY <2>1, <2>5, ScriptRuns
    <3> QED
      BY <1>1, <2>1, <3>1 DEF QueueInv
  <2> QED
    BY <2>2, <2>4, <2>5
<1>5. CASE BuildQueue \/ BuildPlan \/ BuildPrework
  <2>1. /\ build \in Builds /\ build.at = "firstrun" /\ build' = build /\ backup' = backup
        /\ pc \in Building /\ pc' \in {"map", "derive", "freshness"}
    BY <1>1, <1>5 DEF BuildQueue, BuildPlan, BuildPrework, AfterBuild, BuildInv, InBuild, Building
  <2>2. disk'["sync"] = disk["sync"]
    BY <1>1, <1>5, <2>1, BuildWrites
  <2> QED
    BY <1>1, <2>1, <2>2 DEF QueueInv
<1>6. CASE WriteFreshness
  <2>1. disk' = disk /\ backup' = backup /\ pc' = "mirror"
    BY <1>1, <1>6 DEF WriteFreshness
  <2> QED
    BY <1>2, <2>1 DEF Building
<1>7. ASSUME NEW i \in Items, MirrorItem(i) PROVE QueueInv'
  <2>1. /\ pc = "mirror" /\ pc' = pc /\ backup' = backup /\ build.at = "firstrun"
        /\ i = "queue" => disk["firstrun"].queue # NoQueue
    BY <1>7 DEF MirrorItem, BuildInv, InBuild, Built
  <2>2. disk'["sync"].queue = (IF i = "queue" THEN disk["firstrun"].queue ELSE disk["sync"].queue)
    BY <1>7, MirrorWrites
  <2> QED
    BY <1>1, <2>1, <2>2 DEF QueueInv, Building
<1>8. CASE MirrorDone \/ MapFails \/ RawConversion \/ PlanGate \/ PreworkGate \/ ApprovalGate \/ Cut
  <2>1. disk' = disk /\ backup' = backup
    BY <1>8 DEF MirrorDone, MapFails, RawConversion, PlanGate, PreworkGate, ApprovalGate, Cut, files
  <2>2. pc' \in {"raw", "plan", "idle", "late", "apply", "prework", "gate"}
    BY <1>8 DEF MirrorDone, MapFails, RawConversion, PlanGate, PreworkGate, ApprovalGate, Cut, StopRun, Goto,
                BuildInv, InBuild
  <2> QED
    BY <1>2, <2>1, <2>2 DEF Building
<1>9. CASE ApplyConversion
  <2>1. disk' = disk /\ disk["sync"].queue # NoQueue
    BY <1>1, <1>9 DEF ApplyConversion, RunInv
  <2>2. pc' \in {"idle", "late"}
    BY <1>9, Applies
  <2> QED
    BY <2>1, <2>2 DEF QueueInv, Building
<1>10. CASE EditWorking \/ EditSource \/ Restore \/ UNCHANGED vars
  <2>1. UNCHANGED <<disk, backup, pc, build>>
    BY <1>10 DEF EditWorking, EditSource, Restore, vars, files
  <2> QED
    BY <1>1, <2>1 DEF QueueInv
<1>11. CASE Writing
  <2>1. UNCHANGED <<backup, pc, build>>
    BY <1>11 DEF Writing, Answer, Keep, Accept, Approve, Reject, EditPlan
  <2>2. disk'["sync"].queue = NoQueue <=> disk["sync"].queue = NoQueue
    BY <1>1, <1>11, PeopleWrite
  <2> QED
    BY <1>1, <2>1, <2>2 DEF QueueInv
<1>12. CASE Rebuild
  BY <1>1, <1>12, RebuildWrites
<1> QED
  BY <1>3, <1>4, <1>5, <1>6, <1>7, <1>8, <1>9, <1>10, <1>11, <1>12 DEF Next, Run, People, Writing

LEMMA NextConverted ==
  ASSUME TypeOK, RunInv, BuildInv, NewInv, [Next]_vars, layout' = "new"
  PROVE  ConvertedInv'
<1>1. /\ layout = "new" /\ ConvertedInv /\ NothingYet /\ HldsInv
      /\ {"direct", "firstrun", "sync"} = Places /\ None \notin Texts /\ QueueAt = "sync"
  BY NextTexts, TextTypes DEF NewInv, QueueAt, Places
<1>2. ASSUME UNCHANGED <<working, backup, recorded>>, disk'["sync"].plan = disk["sync"].plan,
             pc' \notin {"late"} \cup InBuild
      PROVE  ConvertedInv'
  BY <1>1, <1>2 DEF ConvertedInv, InBuild
<1>3. CASE Begin
  <2>1. UNCHANGED <<disk, backup, recorded>> /\ pc' \in {"early", "raw"}
    BY <1>1, <1>3, Begins DEF Begin
  <2>2. working # None => working' = working
    BY <1>3, Begins
  <2>3. working = None => disk["sync"].plan = None
    BY <1>1 DEF NothingYet, HldsInv, Empty
  <2> QED
    BY <1>1, <2>1, <2>2, <2>3 DEF ConvertedInv, InBuild, Building
<1>4. CASE EnsureFirstReadonly
  <2> DEFINE next == IF pc = "early" THEN "raw" ELSE "plan"
  <2>1. /\ working \in Texts /\ next \in Steps /\ UNCHANGED <<working, backup, recorded>>
        /\ next = "plan" => Converted(working.lines)
    BY <1>1, <1>4, TextTypes DEF EnsureFirstReadonly, RunInv, Steps, ConvertedInv
  <2>2. (disk' = disk /\ pc' = next) \/ RunScript("firstrun", working, next)
    BY <1>4 DEF EnsureFirstReadonly, Goto
  <2>3. next \in {"raw", "plan"}
    OBVIOUS
  <2> HIDE DEF next
  <2>4. CASE disk' = disk /\ pc' = next
    BY <1>2, <2>1, <2>3, <2>4 DEF InBuild, Building
  <2>5. CASE RunScript("firstrun", working, next)
    <3>1. disk'["sync"] = disk["sync"] /\ pc' = "queue" /\ build'.next = next /\ build'.of = working
      BY <2>1, <2>5, ScriptRuns
    <3> QED
      BY <1>1, <2>1, <3>1 DEF ConvertedInv, InBuild, Building
  <2> QED
    BY <2>2, <2>4, <2>5
<1>5. CASE BuildQueue \/ BuildPlan \/ BuildPrework
  <2>1. /\ build \in Builds /\ build.at = "firstrun" /\ UNCHANGED <<build, working, backup, recorded>>
        /\ pc \in Building /\ pc' \in {"map", "derive", "freshness"}
    BY <1>1, <1>5 DEF BuildQueue, BuildPlan, BuildPrework, AfterBuild, BuildInv, InBuild, Building
  <2>2. disk'["sync"] = disk["sync"]
    BY <1>1, <1>5, <2>1, BuildWrites
  <2> QED
    BY <1>1, <2>1, <2>2 DEF ConvertedInv, InBuild, Building
<1>6. CASE WriteFreshness
  <2>1. /\ disk' = disk /\ working' = working /\ backup' = backup /\ pc = "freshness" /\ pc' = "mirror"
        /\ recorded' = working /\ build' = [build EXCEPT !.todo = {i \in Items : disk["firstrun"][i] # Empty[i]}]
        /\ build \in Builds /\ build.next \in {"raw", "plan"}
    BY <1>1, <1>6 DEF WriteFreshness, BuildInv, InBuild
  <2>2. build'.of = build.of
    BY <2>1 DEF Builds
  <2>3. ~ Converted(working.lines) => disk["sync"].plan = None
    <3>1. SUFFICES ASSUME ~ Converted(working.lines) PROVE backup = None
      BY <1>1 DEF ConvertedInv
    <3>2. build.next = "raw"
      BY <1>1, <2>1, <3>1 DEF ConvertedInv, InBuild
    <3> QED
      BY <1>1, <2>1, <3>2 DEF NewInv, QueueInv
  <2> QED
    BY <1>1, <2>1, <2>2, <2>3 DEF ConvertedInv, InBuild, Building
<1>7. ASSUME NEW i \in Items, MirrorItem(i) PROVE ConvertedInv'
  <2>1. /\ pc = "mirror" /\ pc' = pc /\ UNCHANGED <<working, backup, recorded>> /\ build \in Builds
        /\ build.at = "firstrun" /\ build' = [build EXCEPT !.todo = build.todo \ {i}]
        /\ disk["firstrun"].plan # None => Ready(build.of.lines)
    BY <1>7 DEF MirrorItem, BuildInv, InBuild, Building, Built
  <2>2. build'.of = build.of /\ build.of.lines \in Seq(Line)
    BY <2>1 DEF Builds, Texts
  <2>3. disk'["sync"].plan \in {disk["firstrun"].plan, disk["sync"].plan}
    BY <1>7, MirrorWrites
  <2>4. CASE disk'["sync"].plan = disk["sync"].plan
    BY <1>1, <2>1, <2>2, <2>4 DEF ConvertedInv, InBuild, Building
  <2>5. CASE disk'["sync"].plan = None
    BY <1>1, <2>1, <2>2, <2>5 DEF ConvertedInv, InBuild, Building
  <2>6. CASE disk["firstrun"].plan # None
    <3>1. Converted(build.of.lines)
      BY <2>1, <2>2, <2>6, ReadyConverted
    <3> QED
      BY <1>1, <2>1, <2>2, <3>1 DEF ConvertedInv, InBuild, Building
  <2> QED
    BY <2>3, <2>4, <2>5, <2>6
<1>8. CASE MirrorDone \/ MapFails \/ PlanGate \/ PreworkGate \/ ApprovalGate \/ Cut
  <2>1. UNCHANGED <<disk, working, backup, recorded>>
    BY <1>8 DEF MirrorDone, MapFails, PlanGate, PreworkGate, ApprovalGate, Cut, files
  <2>2. pc' \in {"raw", "plan", "idle", "prework", "gate"}
    BY <1>8 DEF MirrorDone, MapFails, PlanGate, PreworkGate, ApprovalGate, Cut, StopRun, Goto,
                BuildInv, InBuild
  <2> QED
    BY <1>2, <2>1, <2>2 DEF InBuild, Building
<1>9. CASE RawConversion
  <2>1. UNCHANGED <<disk, working, backup, recorded>>
    BY <1>9 DEF RawConversion, files
  <2>2. pc' \in {"late", "idle", "apply"} /\ (pc' = "late" => Converted(working.lines))
    BY <1>9 DEF RawConversion, StopRun, Goto
  <2> QED
    BY <1>1, <2>1, <2>2 DEF ConvertedInv, InBuild, Building
<1>10. CASE ApplyConversion
  <2>1. disk' = disk /\ recorded' = recorded
    BY <1>10 DEF ApplyConversion
  <2>2. CASE working' = working /\ backup' = backup /\ pc' = "idle"
    BY <1>2, <2>1, <2>2 DEF InBuild, Building
  <2>3. CASE backup' # None /\ pc' \in {"idle", "late"} /\ (pc' = "late" => Converted(working'.lines))
    BY <1>1, <2>1, <2>3 DEF ConvertedInv, InBuild, Building
  <2> QED
    BY <1>10, <2>2, <2>3, Applies
<1>11. CASE EditWorking
  <2>1. UNCHANGED <<disk, backup, recorded, pc, build>>
    BY <1>11 DEF EditWorking
  <2>2. Converted(working.lines) => Converted(working'.lines)
    <3>1. working \in Texts /\ working' \in Edited(working)
      BY <1>11, TextTypes DEF EditWorking
    <3> QED
      BY <3>1, EditedType
  <2> QED
    BY <1>1, <2>1, <2>2 DEF ConvertedInv
<1>12. CASE Restore
  <2>1. UNCHANGED <<disk, backup, recorded, pc>> /\ pc = "idle" /\ backup # None
    BY <1>12 DEF Restore
  <2> QED
    BY <1>1, <2>1 DEF ConvertedInv, InBuild, Building
<1>13. CASE EditSource \/ UNCHANGED vars
  <2>1. UNCHANGED <<disk, working, backup, recorded, pc, build>>
    BY <1>13 DEF EditSource, vars, files
  <2> QED
    BY <1>1, <2>1 DEF ConvertedInv
<1>14. CASE Writing
  <2>1. UNCHANGED <<working, backup, recorded, pc, build>>
    BY <1>14 DEF Writing, Answer, Keep, Accept, Approve, Reject, EditPlan
  <2>2. disk'["sync"].plan = disk["sync"].plan
    BY <1>1, <1>14, PeopleWrite
  <2> QED
    BY <1>1, <2>1, <2>2 DEF ConvertedInv
<1>15. CASE Rebuild
  BY <1>1, <1>15, RebuildWrites
<1> QED
  BY <1>3, <1>4, <1>5, <1>6, <1>7, <1>8, <1>9, <1>10, <1>11, <1>12, <1>13, <1>14, <1>15
  DEF Next, Run, People, Writing

\* New layout, with a converted text.
LEMMA NextGiven ==
  ASSUME TypeOK, PipelineInv, [Next]_vars, layout' = "new", rawCopy' # None, Converted(rawCopy'.lines)
  PROVE  GivenInv'
<1> DEFINE Lines == rawCopy'.lines
           Fine == Ready(Lines) /\ MapValid(Lines)
           Plain == \A p \in {"firstrun", "sync"} : disk[p].plan # None => Fine
           Recorded == clean /\ pc \notin InBuild /\ recorded # None /\ disk["sync"].plan # None
                         => disk["sync"].plan = recorded /\ disk["sync"].prework = recorded
<1>1. /\ layout = "new" /\ NothingYet /\ HldsInv /\ QueueInv /\ ConvertedInv /\ RunInv /\ BuildInv
      /\ {"direct", "firstrun", "sync"} = Places /\ None \notin Texts /\ QueueAt = "sync"
  BY NextTexts, TextTypes DEF PipelineInv, NewInv, QueueAt, Places
<1>2. rawCopy # None => rawCopy' = rawCopy
  BY <1>1, NextNothing DEF PipelineInv
<1>3. ASSUME rawCopy # None
      PROVE  /\ rawCopy' = rawCopy /\ working.lines = Lines /\ backup = None /\ pc # "apply" /\ working # None
             /\ pc \in InBuild => build.of.lines = Lines
             /\ Plain /\ Recorded
  BY <1>1, <1>2, <1>3 DEF PipelineInv, GivenInv, HldsInv
<1>4. CASE Begin
  <2>1. /\ UNCHANGED <<disk, backup, recorded>> /\ pc' \in {"early", "raw"} /\ clean' = clean
        /\ pc = "idle"
        /\ rawCopy' = (IF rawCopy = None THEN SourceText ELSE rawCopy)
        /\ working' = (IF working = None THEN source ELSE working)
    BY <1>1, <1>4, Begins DEF Begin
  <2>2. CASE rawCopy = None
    <3>1. /\ backup = None /\ recorded = None /\ \A p \in Places : disk[p].plan = None
      BY <1>1, <2>2 DEF NothingYet, Empty
    <3>2. working' = rawCopy'
      <4>1. kind \in {"file", "working"}
        BY SourcesAssumption DEF TypeOK
      <4> QED
        BY <1>1, <2>1, <2>2, <4>1 DEF HldsInv, SourceText
    <3> QED
      BY <1>1, <2>1, <3>1, <3>2 DEF GivenInv, InBuild, Building
  <2>3. CASE rawCopy # None
    BY <1>1, <1>3, <2>1, <2>3 DEF GivenInv, InBuild, Building
  <2> QED
    BY <2>2, <2>3
<1>0. ~Rebuild
  BY <1>1, RebuildWrites
<1>5. CASE ~ Begin
  <2>1. rawCopy # None
    <3>1. CASE rawCopy' = rawCopy
      BY <3>1
    <3>2. CASE Writing
      BY <1>1, <3>2, PeopleWrite DEF NothingYet
    <3> QED
      BY <1>0, <1>5, <3>1, <3>2 DEF Next, Run, People, Writing, EnsureFirstReadonly, BuildQueue, BuildPlan,
         MapFails, BuildPrework, WriteFreshness, MirrorItem, MirrorDone, RawConversion, ApplyConversion,
         PlanGate, PreworkGate, ApprovalGate, Cut, EditWorking, EditSource, Restore, vars, files
  <2>2. /\ rawCopy' = rawCopy /\ working.lines = Lines /\ backup = None /\ pc # "apply" /\ working # None
        /\ pc \in InBuild => build.of.lines = Lines
        /\ Plain /\ Recorded
    BY <1>3, <2>1
  <2>3. working \in Texts
    BY <2>2, TextTypes
  <2> HIDE DEF Lines
  <2>4. ASSUME working' = working, backup' = backup, recorded' = recorded, pc' \notin {"apply"} \cup InBuild,
               clean' => clean /\ pc \notin InBuild,
               \A p \in {"firstrun", "sync"} : disk'[p].plan = disk[p].plan /\ disk'[p].prework = disk[p].prework
        PROVE  GivenInv'
    BY <2>2, <2>4 DEF GivenInv, Lines
  <2>5. CASE EnsureFirstReadonly
    <3> DEFINE next == IF pc = "early" THEN "raw" ELSE "plan"
    <3>1. next \in {"raw", "plan"} /\ next \in Steps /\ pc \in {"early", "late"}
          /\ UNCHANGED <<working, backup, recorded>>
      BY <2>5 DEF EnsureFirstReadonly, Steps
    <3>2. (disk' = disk /\ pc' = next /\ clean' = clean) \/ RunScript("firstrun", working, next)
      BY <2>5 DEF EnsureFirstReadonly, Goto
    <3> HIDE DEF next
    <3>3. CASE disk' = disk /\ pc' = next /\ clean' = clean
      BY <2>4, <3>1, <3>3 DEF InBuild, Building
    <3>4. CASE RunScript("firstrun", working, next)
      <4>1. /\ disk'["sync"] = disk["sync"] /\ disk'["firstrun"] = Empty /\ pc' = "queue"
            /\ build'.of = working
        BY <2>3, <3>1, <3>4, ScriptRuns
      <4> QED
        BY <2>2, <3>1, <4>1 DEF GivenInv, InBuild, Building, Empty, Lines
    <3> QED
      BY <3>2, <3>3, <3>4
  <2>6. CASE BuildQueue \/ BuildPlan \/ BuildPrework
    <3>1. /\ build \in Builds /\ build.at = "firstrun" /\ UNCHANGED <<build, working, backup, recorded>>
          /\ pc \in Building /\ pc' \in {"map", "derive", "freshness"}
          /\ BuildPlan => Ready(build.of.lines) /\ MapValid(build.of.lines)
      BY <1>1, <2>6 DEF BuildQueue, BuildPlan, BuildPrework, AfterBuild, BuildInv, InBuild, Building
    <3>2. /\ disk'["sync"] = disk["sync"]
          /\ BuildPlan \/ disk'["firstrun"].plan = disk["firstrun"].plan
      BY <1>1, <2>6, <3>1, BuildWrites
    <3>3. BuildPlan => Fine
      BY <2>2, <3>1 DEF InBuild
    <3> QED
      BY <2>2, <3>1, <3>2, <3>3 DEF GivenInv, InBuild, Building, Lines
  <2>7. CASE WriteFreshness
    <3>1. /\ disk' = disk /\ working' = working /\ backup' = backup /\ pc = "freshness" /\ pc' = "mirror"
          /\ build' = [build EXCEPT !.todo = {i \in Items : disk["firstrun"][i] # Empty[i]}]
          /\ build \in Builds
      BY <1>1, <2>7 DEF WriteFreshness, BuildInv, InBuild
    <3>2. build'.of = build.of
      BY <3>1 DEF Builds
    <3> QED
      BY <2>2, <3>1, <3>2 DEF GivenInv, InBuild, Building, Lines
  <2>8. ASSUME NEW i \in Items, MirrorItem(i) PROVE GivenInv'
    <3>1. /\ pc = "mirror" /\ pc' = pc /\ UNCHANGED <<working, backup, recorded>> /\ build \in Builds
          /\ build' = [build EXCEPT !.todo = build.todo \ {i}]
      BY <1>1, <2>8 DEF MirrorItem, BuildInv, InBuild
    <3>2. build'.of = build.of
      BY <3>1 DEF Builds
    <3>3. /\ disk'["firstrun"] = disk["firstrun"]
          /\ disk'["sync"].plan \in {disk["firstrun"].plan, disk["sync"].plan}
      BY <2>8, MirrorWrites
    <3> QED
      BY <2>2, <3>1, <3>2, <3>3 DEF GivenInv, InBuild, Building, Lines
  <2>9. CASE MirrorDone
    <3>1. /\ disk' = disk /\ UNCHANGED <<working, backup, recorded, clean>> /\ pc = "mirror" /\ pc' \in {"raw", "plan"}
          /\ build.todo = {}
      BY <1>1, <2>9 DEF MirrorDone, Goto, BuildInv, InBuild, files
    <3>2. /\ build \in Builds /\ (clean => build.of = recorded)
          /\ IF Ready(build.of.lines)
             THEN disk["firstrun"].plan = build.of /\ disk["firstrun"].prework = build.of
             ELSE disk["firstrun"].plan = None
          /\ disk["firstrun"].plan # None => disk["sync"].plan = disk["firstrun"].plan
          /\ disk["firstrun"].prework # None => disk["sync"].prework = disk["firstrun"].prework
      BY <1>1, <3>1 DEF BuildInv, InBuild, Building, Built
    <3>3. build.of # None /\ build.of.lines = Lines
      BY <1>1, <2>2, <3>1, <3>2 DEF Builds, InBuild
    <3>4. Recorded'
      <4>1. CASE Ready(Lines)
        BY <3>1, <3>2, <3>3, <4>1
      <4>2. CASE ~ Ready(Lines)
        BY <2>2, <3>1, <4>2
      <4> QED
        BY <4>1, <4>2
    <3> QED
      BY <2>2, <3>1, <3>4 DEF GivenInv, InBuild, Building, Lines
  <2>10. CASE MapFails
    <3>1. /\ UNCHANGED <<disk, working, backup, recorded>> /\ pc = "map" /\ pc' = "idle"
          /\ ~ MapValid(build.of.lines)
      BY <2>10 DEF MapFails, StopRun, Goto, files
    <3>2. ~ Fine
      BY <2>2, <3>1 DEF InBuild, Building
    <3>3. disk["sync"].plan = None
      BY <2>2, <3>2
    <3> QED
      BY <2>2, <3>1, <3>3 DEF GivenInv, InBuild, Building, Lines
  <2>11. CASE RawConversion
    <3>1. UNCHANGED <<disk, working, backup, recorded, clean>> /\ pc = "raw"
      BY <2>11 DEF RawConversion, files, StopRun, Goto
    <3>2. pc' = "late"
      BY <2>2, <2>11 DEF RawConversion, Goto, Lines
    <3> QED
      BY <2>4, <3>1, <3>2 DEF InBuild, Building
  <2>12. CASE PlanGate \/ PreworkGate \/ ApprovalGate
    <3>1. UNCHANGED <<disk, working, backup, recorded, clean>> /\ pc \in {"plan", "prework", "gate"}
          /\ pc' \in {"idle", "prework", "gate"}
      BY <2>12 DEF PlanGate, PreworkGate, ApprovalGate, files, StopRun, Goto
    <3> QED
      BY <2>4, <3>1 DEF InBuild, Building
  <2>13. CASE ApplyConversion
    BY <2>2, <2>13 DEF ApplyConversion
  <2>14. CASE Cut
    <3>1. UNCHANGED <<disk, working, backup, recorded>> /\ pc' = "idle" /\ (clean' => clean /\ pc \notin InBuild)
      BY <2>14 DEF Cut, files, InBuild
    <3> QED
      BY <2>4, <3>1 DEF InBuild, Building
  <2>15. CASE EditWorking
    <3>1. UNCHANGED <<disk, backup, recorded, pc, build>> /\ (clean' => clean)
      BY <2>15 DEF EditWorking
    <3>2. working'.lines = working.lines
      BY <2>2, <2>3, <2>15, EditedType DEF EditWorking, Lines
    <3> QED
      BY <2>2, <3>1, <3>2 DEF GivenInv, InBuild, Building, Lines
  <2>16. CASE EditSource \/ UNCHANGED vars
    <3>1. UNCHANGED <<disk, working, backup, recorded, pc, build, clean>>
      BY <2>16 DEF EditSource, vars, files
    <3> QED
      BY <2>2, <3>1 DEF GivenInv, InBuild, Building, Lines
  <2>17. CASE Restore
    BY <2>2, <2>17 DEF Restore
  <2>18. CASE Writing
    <3>1. UNCHANGED <<working, backup, recorded, pc, build, clean>>
      BY <2>18 DEF Writing, Answer, Keep, Accept, Approve, Reject, EditPlan
    <3>2. \A p \in {"firstrun", "sync"} :
            disk'[p].plan = disk[p].plan /\ disk'[p].prework = disk[p].prework
      BY <1>1, <2>18, PeopleWrite
    <3> QED
      BY <2>2, <3>1, <3>2 DEF GivenInv, InBuild, Building, Lines
  <2> QED
    BY <1>0, <1>5, <2>5, <2>6, <2>7, <2>8, <2>9, <2>10, <2>11, <2>12, <2>13, <2>14, <2>15, <2>16, <2>17, <2>18
    DEF Next, Run, People, Writing
<1> QED
  BY <1>4, <1>5

LEMMA NextGenuine ==
  ASSUME TypeOK, RunInv, BuildInv, GenuineInv, [Next]_vars
  PROVE  GenuineInv'
<1>1. {"direct", "firstrun", "sync"} = Places /\ {"raw", "plan"} \subseteq Steps /\ source \in Texts
  BY TextTypes DEF Places, Steps
<1>2. ASSUME \A p \in Places : disk'[p].queue \in {disk[p].queue, NoQueue}
      PROVE  GenuineInv'
  BY <1>2 DEF GenuineInv
<1>3. ASSUME NEW place \in {"direct", "firstrun"}, NEW text \in Texts, NEW next \in Steps,
             RunScript(place, text, next)
      PROVE  GenuineInv'
  <2>1. \A p \in Places : disk'[p] \in {disk[p], Empty}
    BY <1>1, <1>3, ScriptRuns
  <2>2. Empty.queue = NoQueue
    BY DEF Empty
  <2>3. \A p \in Places : disk'[p].queue \in {disk[p].queue, NoQueue}
    BY <2>1, <2>2
  <2> QED
    BY <1>2, <2>3
<1>4. CASE Begin
  <2>1. working' \in Texts /\ (disk' = disk \/ RunScript("direct", working', "raw"))
    BY <1>4, Begins
  <2> QED
    BY <1>1, <1>2, <1>3, <2>1
<1>5. CASE EnsureFirstReadonly
  <2> DEFINE next == IF pc = "early" THEN "raw" ELSE "plan"
  <2>1. working \in Texts /\ next \in Steps
    BY <1>1, <1>5, TextTypes DEF EnsureFirstReadonly, RunInv
  <2>2. disk' = disk \/ RunScript("firstrun", working, next)
    BY <1>5 DEF EnsureFirstReadonly
  <2> HIDE DEF next
  <2> QED
    BY <1>2, <1>3, <2>1, <2>2
<1>6. CASE BuildQueue
  <2> DEFINE t == build.of.lines
             q == Queue(t, Plan(t))
  <2>1. disk \in [Places -> Dirs] /\ build.at \in Places
    BY <1>6 DEF TypeOK, BuildInv, InBuild, Building, BuildQueue, Builds
  <2>2. q.of = t /\ q.plan = Plan(t)
    BY DEF Queue
  <2> HIDE DEF q
  <2>3. disk' = [disk EXCEPT ![build.at].queue = q]
    BY <1>6 DEF BuildQueue, q
  <2>4. \A p \in Places : disk'[p].queue = IF p = build.at THEN q ELSE disk[p].queue
    BY <2>1, <2>3 DEF Dirs
  <2>5. Genuine(q)
    BY <2>2 DEF Genuine, q
  <2> QED
    BY <2>4, <2>5 DEF GenuineInv
<1>7. CASE BuildPlan \/ BuildPrework
  <2>1. build \in Builds /\ build.at \in Places
    BY <1>7 DEF BuildInv, InBuild, Building, BuildPlan, BuildPrework, Builds
  <2>2. \A p \in Places : disk'[p].queue = disk[p].queue
    BY <1>7, <2>1, BuildWrites
  <2> QED
    BY <1>2, <2>2
<1>8. ASSUME NEW i \in Items, MirrorItem(i) PROVE GenuineInv'
  <2>1. \A p \in Places : disk'[p].queue \in {disk[p].queue, disk["firstrun"].queue}
    BY <1>1, <1>8, MirrorWrites
  <2> QED
    BY <1>1, <2>1 DEF GenuineInv
<1>9. CASE Writing
  <2>1. \A p \in Places : /\ disk'[p].queue = NoQueue <=> disk[p].queue = NoQueue
                          /\ disk'[p].queue.of = disk[p].queue.of
                          /\ disk'[p].queue.plan = disk[p].queue.plan
                          /\ disk'[p].queue.proposed = disk[p].queue.proposed
    BY <1>9, PeopleWrite
  <2> QED
    BY <2>1 DEF GenuineInv, Genuine
<1>10. CASE Leaves \/ UNCHANGED vars
  <2>1. disk' = disk
    BY <1>10, LeavesDisk DEF vars, files
  <2> QED
    BY <1>2, <2>1
<1>11. CASE Rebuild
  BY <1>2, <1>11, RebuildWrites
<1> QED
  BY <1>4, <1>5, <1>6, <1>7, <1>8, <1>9, <1>10, <1>11 DEF Next, Run, People, Writing, Leaves

LEMMA InitPipeline == Init => PipelineInv
<1> SUFFICES ASSUME Init PROVE PipelineInv
  OBVIOUS
<1>1. /\ pc = "idle" /\ recorded = None /\ rawCopy = None /\ backup = None
      /\ disk = [p \in Places |-> Empty] /\ (kind = "file" => working = None)
      /\ kind = "working" => working = source
  BY DEF Init
<1>2. source # None
  BY InitTypes, TextTypes
<1>3. disk["firstrun"] = Empty /\ disk["sync"] = Empty
  BY <1>1 DEF Places
<1>4. RunInv /\ BuildInv
  BY <1>1 DEF RunInv, BuildInv, InBuild, Building
<1>5. LegacyInv
  BY <1>1, <1>3 DEF LegacyInv, Empty
<1>6. NewInv
  BY <1>1, <1>2, <1>3 DEF NewInv, NothingYet, HldsInv, QueueInv, ConvertedInv, InBuild, Building, Empty
<1>7. GenuineInv
  BY <1>1 DEF GenuineInv, Empty
<1>8. RoundsInv
  BY <1>1 DEF Init, RoundsInv, NoRounds
<1> QED
  BY <1>1, <1>4, <1>5, <1>6, <1>7, <1>8 DEF PipelineInv, GivenInv

LEMMA NextPipeline ==
  ASSUME TypeOK, PipelineInv, [Next]_vars
  PROVE  TypeOK' /\ PipelineInv'
<1>1. RunInv /\ BuildInv /\ LegacyInv /\ RoundsInv /\ NewInv
  BY DEF PipelineInv
<1>2. TypeOK' /\ RunInv' /\ BuildInv'
  BY <1>1, NextTypes, NextRun, NextBuild
<1>3. LegacyInv'
  <2>1. CASE layout' = "legacy"
    BY <1>1, <2>1, NextLegacy
  <2>2. CASE layout' # "legacy"
    BY <2>2 DEF LegacyInv
  <2> QED
    BY <2>1, <2>2
<1>4. NewInv'
  <2>1. CASE layout' = "new"
    BY <1>1, <2>1, NextNothing, NextHlds, NextQueue, NextConverted DEF NewInv
  <2>2. CASE layout' # "new"
    BY <2>2 DEF NewInv
  <2> QED
    BY <2>1, <2>2
<1>5. GivenInv'
  <2>1. CASE layout' = "new" /\ rawCopy' # None /\ Converted(rawCopy'.lines)
    BY <2>1, NextGiven
  <2>2. CASE ~ (layout' = "new" /\ rawCopy' # None /\ Converted(rawCopy'.lines))
    BY <2>2 DEF GivenInv
  <2> QED
    BY <2>1, <2>2
<1>6. GenuineInv'
  BY <1>1, NextGenuine DEF PipelineInv
<1>7. RoundsInv'
  <2>1. CASE layout' = "legacy"
    BY <1>1, <1>2, <2>1, NextRoundsInv
  <2>2. CASE layout' # "legacy"
    BY <2>2 DEF RoundsInv
  <2> QED
    BY <2>1, <2>2
<1> QED
  BY <1>2, <1>3, <1>4, <1>5, <1>6, <1>7 DEF PipelineInv

\* Every variable keeps to its type, whatever is edited, answered, applied and cut short.
THEOREM TypeCorrect == Spec => []TypeOK
<1>1. Init => TypeOK /\ PipelineInv
  BY InitTypes, InitPipeline
<1>2. TypeOK /\ PipelineInv /\ [Next]_vars => TypeOK' /\ PipelineInv'
  BY NextPipeline
<1> QED
  BY <1>1, <1>2, PTL DEF Spec

\* The inductive invariant: what the HLDs, the recorded hash, the sync directories and the
\* running continue (run, _ensure_first_readonly, the conversion scripts) say of each other.
THEOREM PipelineInvariance == Spec => [](TypeOK /\ PipelineInv)
<1>1. Init => TypeOK /\ PipelineInv
  BY InitTypes, InitPipeline
<1>2. TypeOK /\ PipelineInv /\ [Next]_vars => (TypeOK /\ PipelineInv)'
  BY NextPipeline
<1> QED
  BY <1>1, <1>2, PTL DEF Spec

\* What the next run would reuse was built from the working HLD as it is, however often
\* the HLD was edited, reverted and rebuilt, unless the last read-only run was cut short
\* or the HLD was edited during it (_ensure_first_readonly).
THEOREM ReusedStaysCurrent == Spec => []ReusedIsCurrent
<1>1. TypeOK /\ PipelineInv => ReusedIsCurrent
  <2> SUFFICES ASSUME TypeOK, PipelineInv, pc = "idle", clean, UpToDate
               PROVE  Here.plan = working /\ Here.prework = working
    BY DEF ReusedIsCurrent
  <2>1. Here.plan # None /\ recorded # None /\ recorded = working /\ ~ Blocking
    BY DEF UpToDate
  <2>2. layout \in {"legacy", "new"} /\ pc \notin InBuild
    BY LayoutsAssumption DEF TypeOK, InBuild, Building
  <2>3. CASE layout = "legacy"
    BY <2>1, <2>2, <2>3 DEF PipelineInv, LegacyInv, Here, Reads, InBuild
  <2>4. CASE layout = "new"
    <3>1. NothingYet /\ ConvertedInv /\ disk["sync"].plan # None /\ Here = disk["sync"]
      BY <2>1, <2>4 DEF PipelineInv, NewInv, Here, Reads
    <3>2. rawCopy # None /\ rawCopy = working
      BY <2>1, <2>4, <3>1 DEF NothingYet, Blocking
    <3>3. Converted(rawCopy.lines)
      BY <2>1, <3>1, <3>2 DEF ConvertedInv
    <3> QED
      BY <2>1, <2>2, <2>4, <3>1, <3>2, <3>3 DEF PipelineInv, GivenInv
  <2> QED
    BY <2>2, <2>3, <2>4
<1> QED
  BY <1>1, PipelineInvariance, PTL

\* In the legacy layout the package that reaches SpecKit was made from the HLD whose package
\* a person approved, and has in it every change people made to the plan: the script that
\* reads a HLD removes the approval, project_continue.sh makes the package anew from the same
\* plan, and the prework gate stops at one older than the plan.
THEOREM ApprovedHldExecutes == Spec => LegacyApprovalFits
<1> DEFINE Fits == executed' /\ ~executed /\ layout = "legacy" =>
                     Here.approval = Here.prework /\ rounds.prework = rounds.plan
<1>1. ASSUME TypeOK, PipelineInv, [Next]_vars PROVE Fits
  <2> SUFFICES ASSUME executed', ~executed, layout = "legacy"
               PROVE  Here.approval = Here.prework /\ rounds.prework = rounds.plan
    OBVIOUS
  <2>1. ApprovalGate
    <3>1. CASE Run /\ ~ ApprovalGate
      <4>1. executed' = executed
        BY <3>1 DEF Run, Begin, EnsureFirstReadonly, BuildQueue, BuildPlan, MapFails, BuildPrework,
             WriteFreshness, MirrorItem, MirrorDone, RawConversion, ApplyConversion, PlanGate, PreworkGate
      <4> QED
        BY <4>1
    <3>2. CASE Cut \/ People \/ UNCHANGED vars
      <4>1. executed' = executed
        BY <3>2 DEF People, Cut, EditWorking, EditSource, EditPlan, Rebuild, Restore, Answer, Keep, Accept, Approve,
                    Reject, vars
      <4> QED
        BY <4>1
    <3>3. Run \/ Cut \/ People \/ UNCHANGED vars
      BY <1>1 DEF Next
    <3> QED
      BY <3>1, <3>2, <3>3
  <2>2. Here.approval # None /\ Reads = "firstrun" /\ Reads \in Places
    BY <2>1 DEF ApprovalGate, Reads, Places
  <2>3. \A p \in Places : disk[p].approval # None => disk[p].approval = disk[p].prework
    <3>1. LegacyInv
      BY <1>1 DEF PipelineInv
    <3> QED
      BY <3>1 DEF LegacyInv
  <2>4. rounds.prework = rounds.plan
    BY <1>1, <2>1 DEF PipelineInv, RoundsInv, ApprovalGate
  <2> QED
    BY <2>2, <2>3, <2>4 DEF Here
<1>2. TypeOK /\ PipelineInv /\ [Next]_vars => [Fits]_vars
  BY <1>1
<1>3. Spec => [][Fits]_vars
  BY <1>2, PipelineInvariance, PTL DEF Spec
<1> QED
  BY <1>3 DEF LegacyApprovalFits

\* The step that applies the answers.
LEMMA ConvertedFits ==
  ASSUME TypeOK, RunInv, GenuineInv, ApplyConversion, working' # working,
         working.lines = Planned.of, disk[QueueAt].queue.of = Planned.of, ~ByHand(disk[QueueAt].queue)
  PROVE  Marks(working.lines, working'.lines)
<1> DEFINE q == disk[QueueAt].queue
           t == working.lines
           p == Plan(t)
           sections == Sections(q, Planned.plan)
           S == {s[1] : s \in sections}
<1>1. QueueAt \in Places /\ "firstrun" \in Places
  BY DEF QueueAt, Places
<1>2. q # NoQueue /\ q \in Queues /\ Genuine(q)
  BY <1>1, DirParts DEF RunInv, ApplyConversion, GenuineInv
<1>3. Planned # NoQueue /\ Planned \in Queues /\ Genuine(Planned)
  BY <1>1, <1>2, DirParts DEF Planned, GenuineInv
<1>4. t \in Seq(Line) /\ working \in Texts
  BY TextTypes DEF RunInv, ApplyConversion
<1>5. q.of = t /\ Planned.plan = p /\ p \in Plans
  BY <1>3, <1>4, PlanType DEF Genuine
<1>6. ~ApplyRefuses
  BY DEF ApplyConversion
<1>7. ~Invalid(q) /\ ~AlreadyMarked(t) /\ ~Raises(q, p)
  BY <1>5, <1>6 DEF ApplyRefuses
<1>8. working'.lines = Anchor(t, sections)
  <2>1. working' = [working EXCEPT !.lines = Anchor(@, sections)]
    BY <1>6 DEF ApplyConversion
  <2> HIDE DEF sections
  <2> QED
    BY <1>4, <2>1 DEF Texts
<1> HIDE DEF p, q
<1>9. sections = Sections(q, p)
  BY <1>5 DEF q
<1> HIDE DEF sections
<1>10. sections \in SUBSET Spans
  BY <1>2, <1>5, <1>9, SectionsType
<1>11. Covers(t, S)
  <2>1. Covers(q.of, {s[1] : s \in Sections(q, Plan(q.of))})
    BY <1>2, <1>5, <1>7, SectionsCover DEF p, q
  <2> QED
    BY <1>5, <1>9, <2>1 DEF p
<1> HIDE DEF t, S
<1>12. S \in SUBSET Headings(t) /\ S \in SUBSET (1..Len(t))
  BY <1>4, <1>11, HeadingsType DEF Covers, t
<1>13. Placed(t, S, Anchor(t, sections))
  BY <1>4, <1>10, <1>12, AnchorPlaces DEF S, t
<1>14. Marked(t, S, Anchor(t, sections))
  BY <1>4, <1>7, <1>12, <1>13 DEF Marked, t
<1>15. Marks(t, Anchor(t, sections))
  BY <1>11, <1>14, MarksAll
<1> QED
  BY <1>8, <1>15 DEF t

\* A conversion planned for the text as it is, and split as proposed or kept, marks all of it:
\* every line is still there in its order, all anchors are outside of code blocks, numbered
\* and declared, the only major heading in front of them is the title, and a large section
\* is one, or part of one, that somebody was asked about (apply_conversion, by line number).
THEOREM ConversionsFit == Spec => ConversionFits
<1> DEFINE Fits ==
      LET queue == disk[QueueAt].queue
      IN  pc = "apply" /\ pc' # "apply" /\ working' # working /\ working.lines = Planned.of
            /\ queue.of = Planned.of /\ ~ByHand(queue)
          => Marks(working.lines, working'.lines)
<1>1. ASSUME TypeOK, PipelineInv, [Next]_vars PROVE Fits
  <2> SUFFICES ASSUME pc = "apply", pc' # "apply", working' # working, working.lines = Planned.of,
                      disk[QueueAt].queue.of = Planned.of, ~ByHand(disk[QueueAt].queue)
               PROVE  Marks(working.lines, working'.lines)
    OBVIOUS
  <2>1. ApplyConversion
    <3>1. CASE Run /\ ~ ApplyConversion
      <4>1. pc # "apply" \/ working' = working
        BY <3>1 DEF Run, Begin, EnsureFirstReadonly, BuildQueue, BuildPlan, MapFails, BuildPrework,
             WriteFreshness, MirrorItem, MirrorDone, RawConversion, PlanGate, PreworkGate, ApprovalGate, files
      <4> QED
        BY <4>1
    <3>2. CASE Cut
      BY <3>2 DEF Cut, files
    <3>3. CASE People \/ UNCHANGED vars
      <4>1. pc' = pc
        BY <3>3 DEF People, EditWorking, EditSource, EditPlan, Rebuild, Restore, Answer, Keep, Accept, Approve,
                    Reject, vars
      <4> QED
        BY <4>1
    <3> QED
      BY <1>1, <3>1, <3>2, <3>3 DEF Next
  <2> QED
    BY <1>1, <2>1, ConvertedFits DEF PipelineInv
<1>2. TypeOK /\ PipelineInv /\ [Next]_vars => [Fits]_vars
  BY <1>1
<1>3. Spec => [][Fits]_vars
  BY <1>2, PipelineInvariance, PTL DEF Spec
<1> QED
  BY <1>3 DEF ConversionFits
=============================================================================
