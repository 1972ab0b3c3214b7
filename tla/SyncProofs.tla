----------------------------- MODULE SyncProofs -----------------------------
(***************************************************************************)
(* Theorems about the two syncs of the HLD: section sync (SectionSync) and *)
(* the done ledger (HldSync).                                              *)
(***************************************************************************)
EXTENDS SectionSync, HldSync, SequenceTheorems, WellFoundedInduction, TLAPS

-----------------------------------------------------------------------------
(***************************************************************************)
(* SectionSync, for any HLD, references, sizes and budget, any number of   *)
(* processes, and any number of edits, failures and deaths.                *)
(***************************************************************************)

USE BoundsAssumption, NoneAssumption

-----------------------------------------------------------------------------
(***************************************************************************)
(* The sections in the prompt.                                             *)
(***************************************************************************)

\* What holds at 0 and at the next number of every one below n holds up to n.
LEMMA CountUp ==
  ASSUME NEW n \in Nat, NEW S \in SUBSET (0..n), 0 \in S, \A i \in S : i < n => i + 1 \in S
  PROVE  S = 0..n
<1> DEFINE Less == {ss \in Nat \X Nat : ss[1] < ss[2]}
           Missing == (0..n) \ S
<1> SUFFICES ASSUME Missing # {} PROVE FALSE
  OBVIOUS
<1>1. IsWellFoundedOn(Less, Nat)
  BY NatLessThanWellFounded DEF OpToRel
<1>2. Missing \subseteq Nat
  OBVIOUS
<1>3. PICK m \in Missing : \A k \in Missing : ~ (<<k, m>> \in Less)
  <2> HIDE DEF Less, Missing
  <2> QED BY <1>1, <1>2, WFMin
<1>4. m \in 0..n /\ m # 0 /\ m - 1 \in 0..n
  OBVIOUS
<1>5. m - 1 \in S
  <2>1. <<m - 1, m>> \in Less
    BY <1>4
  <2> HIDE DEF Less
  <2> QED BY <1>3, <1>4, <2>1
<1> QED
  BY <1>4, <1>5

\* What has been chosen so far.
Choice(S) == [ids : SUBSET S, used : Nat]
Start0 == [ids |-> {}, used |-> 0]

\* A further section that fits is one of those that may be chosen.
LEMMA LoadType ==
  ASSUME NEW S \in SUBSET Sections, NEW c \in Choice(S), NEW s \in S
  PROVE  Load(c, s) \in Choice(S)
<1>1. Size[s] \in Nat
  BY SizeAssumption
<1> QED
  BY <1>1 DEF Load, Choice

\* Choosing section by section is defined, and only sections of the order are chosen.
LEMMA ChosenOf ==
  ASSUME NEW S \in SUBSET Sections, NEW order \in Seq(S)
  PROVE  Chosen(order) \in Choice(S)
<1> DEFINE n == Len(order)
           Step(f, i) == IF i = 0 THEN Start0 ELSE Load(f[i - 1], order[i])
           Is(f, m) == f = [i \in 0..m |-> Step(f, i)]
           Defined == {m \in 0..n : \E f : Is(f, m)}
<1>1. n \in Nat /\ \A i \in 1..n : order[i] \in S
  OBVIOUS
<1>2. 0 \in Defined
  <2> DEFINE f == [i \in 0..0 |-> Start0]
  <2>1. Is(f, 0)
    OBVIOUS
  <2> HIDE DEF f, Is
  <2> QED BY <1>1, <2>1
<1>3. ASSUME NEW m \in Defined, m < n PROVE m + 1 \in Defined
  <2>1. PICK f : Is(f, m)
    OBVIOUS
  <2> DEFINE g == [i \in 0..(m + 1) |-> IF i = m + 1 THEN Load(f[m], order[m + 1]) ELSE f[i]]
  <2>2. m \in Nat /\ m + 1 \in 0..n
    BY <1>1, <1>3
  <2>3. \A i \in 0..(m + 1) : g[i] = Step(g, i)
    <3> TAKE i \in 0..(m + 1)
    <3>1. CASE i = m + 1
      <4>1. g[m] = f[m] /\ m + 1 # 0 /\ m + 1 - 1 = m
        BY <2>2
      <4> QED
        BY <2>2, <3>1, <4>1
    <3>2. CASE i # m + 1
      <4>1. i \in 0..m /\ g[i] = f[i]
        BY <2>2, <3>2
      <4>2. f[i] = Step(f, i)
        BY <2>1, <4>1
      <4>3. CASE i = 0
        BY <4>1, <4>2, <4>3
      <4>4. CASE i # 0
        <5>1. i - 1 \in 0..(m + 1) /\ i - 1 # m + 1
          BY <2>2, <4>1, <4>4
        <5>2. g[i - 1] = f[i - 1]
          BY <5>1
        <5> QED
          BY <4>1, <4>2, <4>4, <5>2
      <4> QED
        BY <4>3, <4>4
    <3> QED
      BY <3>1, <3>2
  <2>4. Is(g, m + 1)
    <3> DEFINE h == [i \in 0..(m + 1) |-> Step(g, i)]
    <3>1. \A i \in 0..(m + 1) : g[i] = h[i]
      BY <2>3
    <3>2. g = h
      <4> HIDE DEF Step
      <4> QED BY <3>1
    <3> QED
      BY <3>2
  <2> HIDE DEF g, Is
  <2> QED BY <2>2, <2>4
<1>4. Defined = 0..n
  <2> HIDE DEF Defined
  <2>1. Defined \in SUBSET (0..n)
    BY DEF Defined
  <2> QED BY <1>1, <1>2, <1>3, <2>1, CountUp
<1> DEFINE chosen == CHOOSE f : Is(f, n)
<1>5. Is(chosen, n)
  <2>1. \E f : Is(f, n)
    BY <1>1, <1>4
  <2> HIDE DEF Is
  <2> QED BY <2>1
<1>6. Chosen(order) = chosen[n]
  BY DEF Chosen, Start0
<1> HIDE DEF chosen
<1> DEFINE Typed == {m \in 0..n : chosen[m] \in Choice(S)}
<1>7. chosen[0] = Start0 /\ \A i \in 1..n : chosen[i] = Load(chosen[i - 1], order[i])
  BY <1>1, <1>5
<1>8. 0 \in Typed
  BY <1>1, <1>7 DEF Choice, Start0
<1>9. ASSUME NEW m \in Typed, m < n PROVE m + 1 \in Typed
  <2>1. m + 1 \in 1..n /\ m + 1 - 1 = m
    BY <1>1, <1>9
  <2>2. chosen[m + 1] = Load(chosen[m], order[m + 1])
    BY <1>7, <2>1
  <2>3. chosen[m + 1] \in Choice(S)
    BY <1>1, <2>1, <2>2, LoadType
  <2> QED
    BY <2>1, <2>3
<1>10. Typed = 0..n
  <2> HIDE DEF Typed
  <2>1. Typed \in SUBSET (0..n)
    BY DEF Typed
  <2> QED BY <1>1, <1>8, <1>9, <2>1, CountUp
<1> QED
  BY <1>1, <1>6, <1>10

\* Sequences of members of S, one after the other, are one.
LEMMA FlattenType ==
  ASSUME NEW S, NEW seqs \in Seq(Seq(S))
  PROVE  FlattenSeq(seqs) \in Seq(S)
<1> DEFINE n == Len(seqs)
           Step(f, i) == IF i = 1 THEN seqs[i] ELSE f[i - 1] \o seqs[i]
           Is(f, m) == f = [i \in 1..m |-> Step(f, i)]
           Defined == {m \in 0..n : \E f : Is(f, m)}
<1>1. n \in Nat /\ \A i \in 1..n : seqs[i] \in Seq(S)
  OBVIOUS
<1>2. 0 \in Defined
  <2> DEFINE f == [i \in 1..0 |-> <<>>]
  <2>1. Is(f, 0)
    OBVIOUS
  <2> HIDE DEF f, Is
  <2> QED BY <1>1, <2>1
<1>3. ASSUME NEW m \in Defined, m < n PROVE m + 1 \in Defined
  <2>1. PICK f : Is(f, m)
    OBVIOUS
  <2> DEFINE g == [i \in 1..(m + 1) |-> IF i = m + 1 THEN Step(f, m + 1) ELSE f[i]]
  <2>2. m \in Nat /\ m + 1 \in 0..n
    BY <1>1, <1>3
  <2>3. \A i \in 1..(m + 1) : g[i] = Step(g, i)
    <3> TAKE i \in 1..(m + 1)
    <3>1. CASE i = 1
      <4>1. f[1] = seqs[1] \/ m = 0
        BY <2>1, <2>2
      <4> QED
        BY <2>2, <3>1, <4>1
    <3>2. CASE i # 1
      <4>1. i - 1 \in 1..m /\ i - 1 # m + 1 /\ i - 1 \in 1..(m + 1)
        BY <2>2, <3>2
      <4>2. g[i - 1] = f[i - 1]
        BY <4>1
      <4>3. CASE i = m + 1
        BY <3>2, <4>2, <4>3
      <4>4. CASE i # m + 1
        <5>1. i \in 1..m /\ g[i] = f[i]
          BY <2>2, <4>4
        <5>2. f[i] = Step(f, i)
          BY <2>1, <5>1
        <5> QED
          BY <3>2, <4>2, <5>1, <5>2
      <4> QED
        BY <4>3, <4>4
    <3> QED
      BY <3>1, <3>2
  <2>4. Is(g, m + 1)
    <3> DEFINE h == [i \in 1..(m + 1) |-> Step(g, i)]
    <3>1. \A i \in 1..(m + 1) : g[i] = h[i]
      BY <2>3
    <3>2. g = h
      <4> HIDE DEF Step
      <4> QED BY <3>1
    <3> QED
      BY <3>2
  <2> HIDE DEF g, Is
  <2> QED BY <2>2, <2>4
<1>4. Defined = 0..n
  <2> HIDE DEF Defined
  <2>1. Defined \in SUBSET (0..n)
    BY DEF Defined
  <2> QED BY <1>1, <1>2, <1>3, <2>1, CountUp
<1> DEFINE flatten == CHOOSE f : Is(f, n)
<1>5. Is(flatten, n)
  <2>1. \E f : Is(f, n)
    <3>1. n \in Defined
      <4> HIDE DEF Defined
      <4> QED BY <1>1, <1>4
    <3> HIDE DEF Is
    <3> QED BY <3>1
  <2> HIDE DEF Is
  <2> QED BY <2>1
<1>6. n # 0 => FlattenSeq(seqs) = flatten[n]
  BY DEF FlattenSeq
<1> HIDE DEF flatten
<1> DEFINE Typed == {m \in 0..n : m # 0 => flatten[m] \in Seq(S)}
<1>7. \A i \in 1..n : flatten[i] = Step(flatten, i)
  BY <1>1, <1>5
<1>8. ASSUME NEW m \in Typed, m < n PROVE m + 1 \in Typed
  <2>1. m + 1 \in 1..n /\ m + 1 - 1 = m /\ m \in Nat
    BY <1>1, <1>8
  <2>2. flatten[m + 1] = Step(flatten, m + 1)
    BY <1>7, <2>1
  <2>3. CASE m = 0
    BY <1>1, <2>1, <2>2, <2>3
  <2>4. CASE m # 0
    <3>1. flatten[m] \in Seq(S) /\ seqs[m + 1] \in Seq(S)
      BY <1>1, <2>1, <2>4
    <3>2. flatten[m + 1] = flatten[m] \o seqs[m + 1]
      <4>1. m + 1 # 1 /\ flatten[(m + 1) - 1] = flatten[m]
        BY <2>1, <2>4
      <4> QED
        BY <2>2, <4>1, Zenon
    <3>3. flatten[m + 1] \in Seq(S)
      BY <3>1, <3>2, ConcatProperties
    <3> QED
      BY <2>1, <3>3
  <2> QED
    BY <2>3, <2>4
<1>9. Typed = 0..n
  <2> HIDE DEF Typed
  <2>1. Typed \in SUBSET (0..n) /\ 0 \in Typed
    BY <1>1 DEF Typed
  <2> QED BY <1>1, <1>8, <2>1, CountUp
<1>10. CASE n = 0
  <2>1. FlattenSeq(seqs) = <<>>
    BY <1>10 DEF FlattenSeq
  <2> QED
    BY <2>1
<1> QED
  BY <1>1, <1>6, <1>9, <1>10

\* Only sections a target requires are ever in its prompt, whatever the budget.
LEMMA LoadedRequired ==
  ASSUME NEW t \in Targets
  PROVE  /\ Loaded[t] \subseteq Required[t] /\ Required[t] \subseteq Sections
         /\ t \in Required[t] /\ t \in Sections
<1> DEFINE n == Len(Refs[t])
           High2(i) == IF Refs[t][i] \in High THEN Refs[Refs[t][i]] ELSE <<>>
           further == [i \in DOMAIN Refs[t] |-> High2(i)]
<1>1. t \in Sections /\ High \subseteq Sections /\ \A s \in Sections : Refs[s] \in Seq(Sections)
  BY SectionsAssumption, RefsAssumption
<1>2. \A s \in Sections : Referred(s) \subseteq Sections
  BY <1>1 DEF Referred
<1>3. Required[t] \subseteq Sections /\ t \in Required[t]
  BY <1>1, <1>2 DEF Required
<1>4. <<t>> \o Refs[t] \in Seq(Required[t])
  <2>1. \A i \in DOMAIN Refs[t] : Refs[t][i] \in Required[t]
    BY DEF Required, Referred
  <2>2. Refs[t] \in Seq(Required[t])
    BY <1>1, <2>1
  <2>3. ASSUME NEW R, t \in R PROVE <<t>> \in Seq(R)
    BY <2>3
  <2> QED
    BY <1>3, <2>2, <2>3, ConcatProperties
<1>5. \A i \in DOMAIN Refs[t] : High2(i) \in Seq(Required[t])
  <2> SUFFICES ASSUME NEW i \in DOMAIN Refs[t], Refs[t][i] \in High
               PROVE  Refs[Refs[t][i]] \in Seq(Required[t])
    BY EmptySeq
  <2>1. Refs[t][i] \in Referred(t) \cap High
    BY DEF Referred
  <2>2. Referred(Refs[t][i]) \subseteq Required[t]
    BY <2>1 DEF Required
  <2>3. Refs[t][i] \in Sections
    BY <1>1
  <2>4. \A j \in DOMAIN Refs[Refs[t][i]] : Refs[Refs[t][i]][j] \in Required[t]
    BY <2>2 DEF Referred
  <2>5. ASSUME NEW q \in Seq(Sections), NEW R, \A j \in DOMAIN q : q[j] \in R
        PROVE  q \in Seq(R)
    BY <2>5
  <2>6. Refs[Refs[t][i]] \in Seq(Sections)
    BY <1>1, <2>3
  <2> QED
    BY <2>4, <2>5, <2>6
<1>6. further \in Seq(Seq(Required[t]))
  <2>1. DOMAIN Refs[t] = 1..n /\ n \in Nat
    BY <1>1
  <2> HIDE DEF High2
  <2> QED BY <1>5, <2>1
<1>7. FlattenSeq(further) \in Seq(Required[t])
  <2> HIDE DEF further
  <2> QED BY <1>6, FlattenType
<1>8. LoadOrder(t) = <<t>> \o Refs[t] \o FlattenSeq(further)
  BY DEF LoadOrder
<1>9. LoadOrder(t) \in Seq(Required[t])
  <2> HIDE DEF further
  <2> QED BY <1>4, <1>7, <1>8, ConcatProperties
<1>10. Chosen(LoadOrder(t)) \in Choice(Required[t])
  BY <1>3, <1>9, ChosenOf
<1> QED
  BY <1>1, <1>3, <1>10 DEF Loaded, Choice

-----------------------------------------------------------------------------
(***************************************************************************)
(* Type correctness.                                                       *)
(***************************************************************************)

\* Who writes the run state has loaded one; what is being applied has been tried.
RunOK(r) ==
  run[r] # None =>
    /\ run[r].pc = "write" => run[r].mem \in [Sections -> {None} \cup Entry]
    /\ run[r].pc = "apply" =>
         /\ "spec" \in run[r].left => run[r].out # "invalid"
         /\ "reports" \in run[r].left => run[r].out \in {"handled", "conflict"}

RunsInv == \A r \in Slots : RunOK(r)

\* An upset is counted.
LEMMA UpsetType ==
  ASSUME TypeOK, Upset \/ UNCHANGED upsets
  PROVE  upsets' \in 0..MaxUpsets
BY DEF TypeOK, Upset

\* The spec a run writes is one.
LEMMA WrittenType ==
  ASSUME TypeOK, NEW r \in Slots, run[r] # None
  PROVE  /\ WrittenSpec(r) \in SpecTexts /\ WrittenSpec(r) # None
         /\ [WrittenSpec(r) EXCEPT !.whole = FALSE] \in SpecTexts
         /\ WrittenSpec(r).of = [s \in Loaded[run[r].target] |-> run[r].snap[s]]
         /\ WrittenSpec(r).whole = (run[r].out # "invalid")
         /\ ~[WrittenSpec(r) EXCEPT !.whole = FALSE].whole
<1> DEFINE t == run[r].target
           of == [s \in Loaded[t] |-> run[r].snap[s]]
<1>1. t \in Targets /\ run[r].snap \in [Sections -> Versions]
  BY DEF TypeOK, Runs
<1>2. Loaded[t] \in SUBSET Sections
  BY <1>1, LoadedRequired
<1>3. of \in [Loaded[t] -> Versions]
  BY <1>1, <1>2
<1>4. WrittenSpec(r) = [of |-> of, whole |-> run[r].out # "invalid"]
  BY DEF WrittenSpec
<1> HIDE DEF of, t
<1>5. of \in UNION {[S -> Versions] : S \in SUBSET Sections}
  BY <1>2, <1>3
<1>6. WrittenSpec(r) \in SpecTexts /\ WrittenSpec(r).of = of
      /\ WrittenSpec(r).whole = (run[r].out # "invalid")
  BY <1>4, <1>5 DEF SpecTexts
<1> DEFINE w == WrittenSpec(r)
<1> HIDE DEF w
<1>7. [w EXCEPT !.whole = FALSE] \in SpecTexts /\ ~[w EXCEPT !.whole = FALSE].whole
  BY <1>6 DEF SpecTexts, w
<1>8. w # None
  BY <1>6 DEF w
<1> QED
  BY <1>6, <1>7, <1>8 DEF of, t, w

\* What a process comes to when its status is known.
LEMMA ToRecordType ==
  ASSUME TypeOK, NEW r \in Slots, run[r] # None, NEW done \in BOOLEAN, run' = ToRecord(r, done)
  PROVE  /\ run' \in [Slots -> {None} \cup Runs]
         /\ run'[r] # None /\ run'[r].pc = "write" /\ run'[r].mem = state
         /\ run'[r].target = run[r].target /\ run'[r].snap = run[r].snap /\ run'[r].done = done
         /\ \A q \in Slots \ {r} : run'[q] = run[q]
<1> DEFINE me == [run[r] EXCEPT !.pc = "write", !.done = done, !.kind = "resume", !.out = None,
                               !.mem = state]
<1>1. run[r] \in Runs
  BY DEF TypeOK
<1>2. run' = [run EXCEPT ![r] = me]
  BY DEF ToRecord
<1>3. /\ me \in Runs /\ me.pc = "write" /\ me.mem = state /\ me.target = run[r].target
      /\ me.snap = run[r].snap /\ me.done = done
  BY <1>1 DEF TypeOK, Runs, Kinds
<1> HIDE DEF me
<1> QED
  BY <1>2, <1>3 DEF TypeOK

\* The steps of a process keep the types.
LEMMA ProceedType ==
  ASSUME TypeOK, RunsInv, NEW r \in Slots, Proceed(r)
  PROVE  TypeOK'
<1>1. run[r] # None /\ run[r] \in Runs /\ RunOK(r) /\ run[r].target \in Targets
  BY DEF TypeOK, RunsInv, Runs, Proceed, AgentEnds, Try, Apply, Judge, RecordWrites
<1>2. ASSUME NEW out \in Outcomes, AgentEnds(r, out) PROVE TypeOK'
  <2>1. run' \in [Slots -> {None} \cup Runs]
    <3>1. CASE run' = ToRecord(r, FALSE)
      BY <1>1, <3>1, ToRecordType
    <3>2. CASE run' = [run EXCEPT ![r].out = out, ![r].pc = "staged"]
      <4>1. [run[r] EXCEPT !.out = out, !.pc = "staged"] \in Runs
        BY <1>1 DEF Runs
      <4>2. run' = [run EXCEPT ![r] = [run[r] EXCEPT !.out = out, !.pc = "staged"]]
        BY <3>2 DEF TypeOK
      <4> QED
        BY <4>1, <4>2 DEF TypeOK
    <3> QED
      BY <1>2, <3>1, <3>2 DEF AgentEnds
  <2>2. upsets' \in 0..MaxUpsets
    BY <1>2, Zenon, UpsetType DEF AgentEnds
  <2>3. UNCHANGED <<hld, spec, reports, state, last>>
    BY <1>2 DEF AgentEnds
  <2> QED
    BY <2>1, <2>2, <2>3 DEF TypeOK
<1>3. CASE Try(r)
  <2>1. run' = ToRecord(r, FALSE) \/ run' = [run EXCEPT ![r].left = Writes(r), ![r].pc = "apply"]
    BY <1>3, Zenon DEF Try
  <2>2. run' \in [Slots -> {None} \cup Runs]
    <3>1. CASE run' = ToRecord(r, FALSE)
      BY <1>1, <3>1, ToRecordType
    <3>2. CASE run' = [run EXCEPT ![r].left = Writes(r), ![r].pc = "apply"]
      <4>1. Writes(r) \in SUBSET {"spec", "reports"}
        BY DEF Writes
      <4>2. [run[r] EXCEPT !.left = Writes(r), !.pc = "apply"] \in Runs
        BY <1>1, <4>1 DEF Runs
      <4>3. run' = [run EXCEPT ![r] = [run[r] EXCEPT !.left = Writes(r), !.pc = "apply"]]
        BY <3>2 DEF TypeOK
      <4> QED
        BY <4>2, <4>3 DEF TypeOK
    <3> QED
      BY <2>1, <3>1, <3>2
  <2> QED
    BY <1>3, <2>2 DEF TypeOK, Try
<1>4. ASSUME NEW file \in {"spec", "reports"}, Apply(r, file) PROVE TypeOK'
  <2>1. spec' \in [Targets -> {None} \cup SpecTexts] /\ reports' \in {None} \cup Outcomes
    <3>1. WrittenSpec(r) \in SpecTexts
      BY <1>1, WrittenType
    <3>2. run[r].out \in Outcomes \cup {None}
      BY <1>1 DEF Runs
    <3> QED
      BY <1>1, <1>4, <3>1, <3>2 DEF TypeOK, Apply
  <2>2. run' \in [Slots -> {None} \cup Runs]
    <3>1. [run[r] EXCEPT !.left = @ \ {file}] \in Runs
      BY <1>1 DEF Runs
    <3> QED
      BY <1>4, <3>1 DEF TypeOK, Apply
  <2>3. last' \in [Targets -> (0..NumRuns) \cup {None}]
    <3>1. r \in 0..NumRuns
      BY DEF Slots
    <3> QED
      BY <1>4, <3>1 DEF TypeOK, Apply
  <2> QED
    BY <1>4, <2>1, <2>2, <2>3 DEF TypeOK, Apply
<1>5. CASE Judge(r)
  <2>1. (Valid(spec, reports) /\ reports # "conflict") \in BOOLEAN
    BY DEF Valid
  <2>2. run' \in [Slots -> {None} \cup Runs]
    BY <1>1, <1>5, <2>1, ToRecordType DEF Judge
  <2> QED
    BY <1>5, <2>2 DEF TypeOK, Judge
<1>6. CASE RecordWrites(r)
  <2>1. state' \in [Sections -> {None} \cup Entry]
    <3>1. run[r].mem \in [Sections -> {None} \cup Entry]
      BY <1>1, <1>6 DEF RunOK, RecordWrites
    <3>2. run[r].snap \in [Sections -> Versions] /\ run[r].done \in BOOLEAN
      BY <1>1 DEF Runs
    <3>3. \A s \in Sections : [of |-> run[r].snap[s],
                               done |-> (s = run[r].target => run[r].done)] \in Entry
      BY <3>2 DEF Entry
    <3> QED
      BY <1>6, <3>1, <3>3 DEF RecordWrites, Recorded
  <2>2. last' \in [Targets -> (0..NumRuns) \cup {None}]
    BY <1>6 DEF TypeOK, RecordWrites
  <2> QED
    BY <1>6, <2>1, <2>2 DEF TypeOK, RecordWrites
<1> QED
  BY <1>2, <1>3, <1>4, <1>5, <1>6 DEF Proceed

\* Starts, deaths, edits and cleared run states do, too.
LEMMA OtherType ==
  ASSUME TypeOK,
         \/ \E r \in Slots : (\E t \in Targets, kind \in Kinds : Start(r, t, kind)) \/ Die(r)
         \/ Restart \/ (\E s \in Sections : Edit(s))
  PROVE  TypeOK'
<1>1. ASSUME NEW r \in Slots, NEW t \in Targets, NEW kind \in Kinds, Start(r, t, kind)
      PROVE  TypeOK'
  <2>1. [pc |-> "agent", target |-> t, kind |-> kind, snap |-> hld,
         out |-> None, left |-> {}, done |-> FALSE, mem |-> None] \in Runs
    BY DEF TypeOK, Runs
  <2>2. run' \in [Slots -> {None} \cup Runs]
    BY <1>1, <2>1 DEF TypeOK, Start
  <2> QED
    BY <1>1, <2>2 DEF TypeOK, Start, Upset
<1>2. ASSUME NEW r \in Slots, Die(r) PROVE TypeOK'
  <2>1. run[r] # None /\ run[r].target \in Targets
    BY <1>2 DEF TypeOK, Die, Runs
  <2>2. [WrittenSpec(r) EXCEPT !.whole = FALSE] \in SpecTexts
    BY <2>1, WrittenType
  <2>3. spec' \in [Targets -> {None} \cup SpecTexts]
    BY <1>2, <2>1, <2>2 DEF TypeOK, Die
  <2>4. state' \in [Sections -> {None} \cup Entry]
    BY <1>2 DEF TypeOK, Die, Unrecorded
  <2>5. last' \in [Targets -> (0..NumRuns) \cup {None}]
    BY <1>2 DEF TypeOK, Die
  <2>6. run' \in [Slots -> {None} \cup Runs]
    BY <1>2 DEF TypeOK, Die
  <2> QED
    BY <1>2, <2>3, <2>4, <2>5, <2>6 DEF TypeOK, Die, Upset
<1>3. CASE Restart
  BY <1>3 DEF TypeOK, Restart, Unrecorded, Upset
<1>4. ASSUME NEW s \in Sections, Edit(s) PROVE TypeOK'
  BY <1>4 DEF TypeOK, Edit, Upset
<1> QED
  BY <1>1, <1>2, <1>3, <1>4

-----------------------------------------------------------------------------
(***************************************************************************)
(* What has been tried, and what is recorded.                              *)
(***************************************************************************)

\* Only what a copy of the workspace validated with is applied, and who writes the run state
\* has loaded one.
LEMMA NextRuns ==
  ASSUME TypeOK, RunsInv, [Next]_vars
  PROVE  RunsInv'
<1>1. ASSUME NEW r \in Slots, \A q \in Slots \ {r} : run'[q] = run[q], RunOK(r)'
      PROVE  RunsInv'
  BY <1>1 DEF RunsInv, RunOK
<1>2. ASSUME NEW r \in Slots, run[r] # None, NEW done \in BOOLEAN, run' = ToRecord(r, done)
      PROVE  RunsInv'
  <2>1. RunOK(r)'
    BY <1>2, ToRecordType DEF RunOK, TypeOK
  <2> QED
    BY <1>1, <1>2, <2>1, ToRecordType
<1>3. ASSUME NEW r \in Slots, Proceed(r) PROVE RunsInv'
  <2>1. run[r] # None /\ run[r] \in Runs /\ RunOK(r)
    BY <1>3 DEF TypeOK, RunsInv, Proceed, AgentEnds, Try, Apply, Judge, RecordWrites
  <2>2. ASSUME NEW out \in Outcomes, AgentEnds(r, out) PROVE RunsInv'
    <3>1. CASE run' = ToRecord(r, FALSE)
      BY <1>2, <2>1, <3>1
    <3>2. CASE run' = [run EXCEPT ![r].out = out, ![r].pc = "staged"]
      <4>1. run'[r].pc = "staged" /\ \A q \in Slots \ {r} : run'[q] = run[q]
        BY <2>1, <3>2 DEF TypeOK, Runs
      <4> QED
        BY <1>1, <4>1 DEF RunOK
    <3> QED
      BY <2>2, <3>1, <3>2 DEF AgentEnds
  <2>3. CASE Try(r)
    <3> DEFINE w == Writes(r)
               specs == IF "spec" \in w THEN [spec EXCEPT ![run[r].target] = WrittenSpec(r)]
                        ELSE spec
               reps == IF "reports" \in w THEN run[r].out ELSE reports
    <3>1. \/ run' = ToRecord(r, FALSE)
          \/ Valid(specs, reps) /\ run' = [run EXCEPT ![r].left = w, ![r].pc = "apply"]
      BY <2>3, Zenon DEF Try
    <3>2. CASE run' = ToRecord(r, FALSE)
      BY <1>2, <2>1, <3>2
    <3>3. CASE Valid(specs, reps) /\ run' = [run EXCEPT ![r].left = w, ![r].pc = "apply"]
      <4>1. /\ run'[r].pc = "apply" /\ run'[r].left = w /\ run'[r].out = run[r].out
            /\ \A q \in Slots \ {r} : run'[q] = run[q]
        BY <2>1, <3>3 DEF TypeOK, Runs
      <4>2. "reports" \in w => run[r].out \in {"handled", "conflict"}
        BY <3>3 DEF Valid
      <4>3. "spec" \in w => run[r].out # "invalid"
        <5> SUFFICES ASSUME "spec" \in w PROVE run[r].out # "invalid"
          OBVIOUS
        <5>1. run[r].target \in Targets
          BY <2>1 DEF Runs
        <5>2. specs[run[r].target] = WrittenSpec(r)
          BY <5>1 DEF TypeOK
        <5> HIDE DEF specs
        <5> QED
          BY <2>1, <3>3, <5>1, <5>2, WrittenType DEF Valid
      <4> HIDE DEF w, specs, reps
      <4>4. RunOK(r)'
        BY <4>1, <4>2, <4>3 DEF RunOK
      <4> QED
        BY <1>1, <4>1, <4>4
    <3> QED
      BY <3>1, <3>2, <3>3
  <2>4. ASSUME NEW file \in {"spec", "reports"}, Apply(r, file) PROVE RunsInv'
    <3>1. /\ run'[r].pc = "apply" /\ run'[r].left = run[r].left \ {file}
          /\ run'[r].out = run[r].out /\ \A q \in Slots \ {r} : run'[q] = run[q]
      BY <2>1, <2>4 DEF TypeOK, Runs, Apply
    <3>2. RunOK(r)'
      BY <2>1, <2>4, <3>1 DEF RunOK, Apply
    <3> QED
      BY <1>1, <3>1, <3>2
  <2>5. CASE Judge(r)
    <3>1. (Valid(spec, reports) /\ reports # "conflict") \in BOOLEAN
      BY DEF Valid
    <3> QED
      BY <1>2, <2>1, <2>5, <3>1 DEF Judge
  <2>6. CASE RecordWrites(r)
    BY <1>1, <2>6 DEF TypeOK, RecordWrites, RunOK
  <2> QED
    BY <1>3, <2>2, <2>3, <2>4, <2>5, <2>6 DEF Proceed
<1>4. ASSUME NEW r \in Slots, NEW t \in Targets, NEW kind \in Kinds, Start(r, t, kind)
      PROVE  RunsInv'
  <2>1. run'[r].pc = "agent" /\ \A q \in Slots \ {r} : run'[q] = run[q]
    BY <1>4 DEF TypeOK, Start
  <2> QED
    BY <1>1, <2>1 DEF RunOK
<1>5. ASSUME NEW r \in Slots, Die(r) PROVE RunsInv'
  BY <1>1, <1>5 DEF TypeOK, Die, RunOK
<1>6. CASE Restart \/ (\E s \in Sections : Edit(s)) \/ UNCHANGED vars
  BY <1>6 DEF RunsInv, RunOK, Restart, Edit, vars
<1> QED
  BY <1>3, <1>4, <1>5, <1>6 DEF Next

\* Nothing is running in the beginning.
LEMMA InitRuns == Init => TypeOK /\ RunsInv
<1> SUFFICES ASSUME Init PROVE TypeOK /\ RunsInv
  OBVIOUS
<1>1. hld \in [Sections -> Versions]
  BY VersionsAssumption DEF Init
<1>2. RunsInv
  BY DEF Init, RunsInv, RunOK
<1>3. /\ spec \in [Targets -> {None} \cup SpecTexts] /\ reports \in {None} \cup Outcomes
      /\ state \in [Sections -> {None} \cup Entry] /\ run \in [Slots -> {None} \cup Runs]
      /\ last \in [Targets -> (0..NumRuns) \cup {None}] /\ upsets \in 0..MaxUpsets
  BY DEF Init, Unrecorded
<1> QED
  BY <1>1, <1>2, <1>3 DEF TypeOK

\* The types of the HLD, the specs, the reports, the run state and the processes.
THEOREM TypeCorrect == Spec => []TypeOK
<1>1. TypeOK /\ RunsInv /\ [Next]_vars => TypeOK'
  <2> SUFFICES ASSUME TypeOK, RunsInv, [Next]_vars PROVE TypeOK'
    OBVIOUS
  <2>1. CASE UNCHANGED vars
    BY <2>1 DEF TypeOK, vars
  <2> QED
    BY <2>1, ProceedType, OtherType DEF Next
<1>2. TypeOK /\ RunsInv /\ [Next]_vars => RunsInv'
  BY NextRuns
<1> QED
  BY InitRuns, <1>1, <1>2, PTL DEF Spec

-----------------------------------------------------------------------------
(***************************************************************************)
(* Resumed runs that are skipped.                                          *)
(***************************************************************************)

\* The spec of t was written by the process last[t] from what that process has read; once
\* its records are in the run state they say what the spec was written from, and "done" only
\* of a spec that has its sections.
LastOK(t) ==
  /\ last[t] \in Slots =>
       LET me == run[last[t]] IN
       /\ me # None /\ me.target = t /\ me.pc \in {"apply", "write"}
       /\ spec[t] # None /\ \A s \in Loaded[t] : spec[t].of[s] = me.snap[s]
       /\ me.pc = "write" /\ me.done => spec[t].whole
  /\ last[t] = 0 =>
       /\ spec[t] # None
       /\ \A s \in Loaded[t] : state[s] # None => spec[t].of[s] = state[s].of
       /\ state[t] # None /\ state[t].done => spec[t].whole

LastInv == \A t \in Targets : LastOK(t)

\* Slots and 0 and None tell the stages of a spec apart.
LEMMA LastCases ==
  ASSUME TypeOK, NEW t \in Targets
  PROVE  last[t] \in Slots \/ last[t] = 0 \/ last[t] = None
BY DEF TypeOK, Slots

\* Recording: the entries the spec's writer makes are those the spec was written from.
LEMMA RecordKeeps ==
  ASSUME TypeOK, TypeOK', LastInv, NEW r \in Slots, RecordWrites(r)
  PROVE  LastInv'
<1>1. /\ run[r] # None /\ run[r] \in Runs /\ run[r].pc = "write" /\ state' = Recorded(r)
      /\ run' = [run EXCEPT ![r] = None] /\ UNCHANGED <<hld, spec, reports>>
      /\ r # 0 /\ None # 0 /\ None \notin Slots /\ None \notin Entry
  BY DEF TypeOK, RecordWrites, Slots
<1> SUFFICES ASSUME NEW t \in Targets PROVE LastOK(t)'
  BY DEF LastInv
<1>2. LastOK(t) /\ Loaded[t] \subseteq Required[t] /\ Required[t] \subseteq Sections
      /\ t \in Required[t] /\ t \in Sections
  BY LoadedRequired DEF LastInv
<1>3. last'[t] = IF last[t] = r THEN 0
                 ELSE IF last[t] = 0 /\ \E s \in Required[t] :
                           s \in Required[run[r].target] \/ state'[s] # state[s]
                 THEN None ELSE last[t]
  BY DEF RecordWrites
<1>4. CASE last[t] = r
  <2>1. run[r].target = t /\ spec[t] # None /\ (\A s \in Loaded[t] : spec[t].of[s] = run[r].snap[s])
        /\ (run[r].done => spec[t].whole)
    BY <1>1, <1>2, <1>4 DEF LastOK
  <2>2. \A s \in Required[t] : /\ state'[s].of = run[r].snap[s]
                                /\ state'[s].done = (s = t => run[r].done)
    BY <1>1, <1>2, <2>1 DEF Recorded
  <2>3. \A s \in Loaded[t] : spec[t].of[s] = state'[s].of
    BY <1>2, <2>1, <2>2
  <2>4. state'[t].done => spec[t].whole
    BY <1>2, <2>1, <2>2
  <2>5. last'[t] = 0 /\ 0 \notin Slots
    BY <1>3, <1>4 DEF Slots
  <2> QED
    BY <1>1, <2>1, <2>3, <2>4, <2>5 DEF LastOK
<1>5. CASE last[t] = 0 /\ last'[t] = 0
  <2>1. \A s \in Required[t] : state'[s] = state[s]
    BY <1>1, <1>3, <1>5
  <2>2. 0 \notin Slots
    BY DEF Slots
  <2> QED
    BY <1>1, <1>2, <1>5, <2>1, <2>2 DEF LastOK
<1>6. CASE last[t] \in Slots \ {r}
  <2>1. last'[t] = last[t] /\ run'[last[t]] = run[last[t]] /\ last[t] # 0
    BY <1>1, <1>3, <1>6 DEF TypeOK, Slots
  <2> QED
    BY <1>1, <1>2, <1>6, <2>1 DEF LastOK
<1>7. CASE last'[t] = None
  BY <1>1, <1>7 DEF LastOK
<1> QED
  BY <1>1, <1>3, <1>4, <1>5, <1>6, <1>7, LastCases

\* A step that leaves specs and records as they are keeps what they rest on, if processes
\* that have written a spec go on as they were.
LEMMA LastKept ==
  ASSUME LastInv, UNCHANGED <<spec, state, last>>,
         \A q \in Slots : run[q] # None /\ run[q].pc \in {"apply", "write"} =>
           \/ run'[q] = run[q]
           \/ /\ run'[q] # None /\ run'[q].target = run[q].target /\ run'[q].snap = run[q].snap
              /\ \/ run'[q].pc = "apply"
                 \/ /\ run'[q].pc = "write"
                    /\ run'[q].done => \A t \in Targets : spec[t] = None \/ spec[t].whole
  PROVE  LastInv'
<1> SUFFICES ASSUME NEW t \in Targets PROVE LastOK(t)'
  BY DEF LastInv
<1>1. LastOK(t)
  BY DEF LastInv
<1>2. CASE last[t] \in Slots
  <2> DEFINE q == last[t]
  <2>1. q \in Slots /\ run[q] # None /\ run[q].target = t /\ run[q].pc \in {"apply", "write"}
        /\ spec[t] # None /\ (\A s \in Loaded[t] : spec[t].of[s] = run[q].snap[s])
        /\ (run[q].pc = "write" /\ run[q].done => spec[t].whole)
    BY <1>1, <1>2 DEF LastOK
  <2>2. run'[q] # None /\ run'[q].target = t /\ run'[q].pc \in {"apply", "write"}
        /\ run'[q].snap = run[q].snap
        /\ (run'[q].pc = "write" /\ run'[q].done => spec[t].whole)
    BY <2>1
  <2>3. last[t] = 0 => LastOK(t)'
    BY <1>2 DEF Slots
  <2> QED
    BY <2>1, <2>2, <2>3 DEF LastOK
<1>3. CASE last[t] \notin Slots
  BY <1>1, <1>3 DEF LastOK
<1> QED
  BY <1>2, <1>3

\* The steps of a process before it writes the run state.
LEMMA ProceedLast ==
  ASSUME TypeOK, TypeOK', RunsInv, LastInv, NEW r \in Slots, Proceed(r), ~RecordWrites(r)
  PROVE  LastInv'
<1>1. run[r] # None /\ run[r] \in Runs /\ RunOK(r) /\ run[r].target \in Targets
  BY DEF TypeOK, RunsInv, Runs, Proceed, AgentEnds, Try, Apply, Judge
<1>2. ASSUME NEW out \in Outcomes, AgentEnds(r, out) PROVE LastInv'
  <2>1. \A q \in Slots \ {r} : run'[q] = run[q]
    BY <1>1, <1>2, ToRecordType DEF AgentEnds, TypeOK
  <2> QED
    BY <1>2, <2>1, LastKept DEF AgentEnds
<1>3. CASE Try(r)
  <2>1. run' = ToRecord(r, FALSE) \/ run' = [run EXCEPT ![r].left = Writes(r), ![r].pc = "apply"]
    BY <1>3, Zenon DEF Try
  <2>2. \A q \in Slots \ {r} : run'[q] = run[q]
    BY <1>1, <2>1, ToRecordType DEF TypeOK
  <2> QED
    BY <1>3, <2>2, LastKept DEF Try
<1>4. CASE Apply(r, "reports")
  <2>1. /\ run'[r] # None /\ run'[r].target = run[r].target /\ run'[r].snap = run[r].snap
        /\ run'[r].pc = "apply" /\ \A q \in Slots \ {r} : run'[q] = run[q]
    BY <1>1, <1>4 DEF Apply, TypeOK, Runs
  <2> QED
    BY <1>4, <2>1, LastKept DEF Apply
<1>5. CASE Apply(r, "spec")
  <2> DEFINE u == run[r].target
             w == WrittenSpec(r)
  <2>1. /\ run'[r] # None /\ run'[r].target = u /\ run'[r].snap = run[r].snap
        /\ run'[r].pc = "apply" /\ \A q \in Slots \ {r} : run'[q] = run[q]
    <3> DEFINE me == [run[r] EXCEPT !.left = @ \ {"spec"}]
    <3>1. run[r].pc = "apply" /\ run' = [run EXCEPT ![r] = me]
      BY <1>5 DEF Apply
    <3>2. me \in Runs /\ me.target = u /\ me.snap = run[r].snap /\ me.pc = run[r].pc
      BY <1>1 DEF Runs
    <3> HIDE DEF me
    <3>3. run'[r] = me /\ \A q \in Slots \ {r} : run'[q] = run[q]
      BY <3>1 DEF TypeOK
    <3> QED
      BY <3>1, <3>2, <3>3, NoneAssumption
  <2>2. /\ w # None /\ \A s \in Loaded[u] : w.of[s] = run[r].snap[s]
    BY <1>1, WrittenType
  <2>3. /\ spec' = [spec EXCEPT ![u] = w] /\ last' = [last EXCEPT ![u] = r] /\ state' = state
    BY <1>5 DEF Apply
  <2> SUFFICES ASSUME NEW t \in Targets PROVE LastOK(t)'
    BY DEF LastInv
  <2> HIDE DEF w
  <2>4. CASE t = u
    <3>1. last'[t] = r /\ spec'[t] = w /\ r # 0
      BY <2>3, <2>4 DEF TypeOK, Slots
    <3> QED
      BY <2>1, <2>2, <2>4, <3>1 DEF LastOK
  <2>5. CASE t # u
    <3>1. last'[t] = last[t] /\ spec'[t] = spec[t]
      BY <2>3, <2>5 DEF TypeOK
    <3>2. LastOK(t)
      BY DEF LastInv
    <3>3. last[t] \in Slots => last[t] # r
      BY <2>5, <3>2 DEF LastOK
    <3> QED
      BY <2>1, <2>3, <3>1, <3>2, <3>3 DEF LastOK
  <2> QED
    BY <2>4, <2>5
<1>6. CASE Judge(r)
  <2> DEFINE done == Valid(spec, reports) /\ Consolidated(run[r].snap) /\ reports # "conflict"
  <2>1. done \in BOOLEAN /\ run' = ToRecord(r, done)
    BY <1>6 DEF Judge, Valid, Consolidated
  <2>2. done => \A t \in Targets : spec[t] = None \/ spec[t].whole
    BY DEF Valid
  <2> HIDE DEF done
  <2>3. /\ run'[r] # None /\ run'[r].target = run[r].target /\ run'[r].snap = run[r].snap
        /\ run'[r].pc = "write" /\ run'[r].done = done
        /\ \A q \in Slots \ {r} : run'[q] = run[q]
    BY <1>1, <2>1, ToRecordType
  <2> QED
    BY <1>6, <2>2, <2>3, LastKept DEF Judge
<1> QED
  BY <1>2, <1>3, <1>4, <1>5, <1>6 DEF Proceed

\* A process that dies takes what it wrote out of account, and so does whatever changes a
\* spec or clears the records.
LEMMA DieLast ==
  ASSUME TypeOK, TypeOK', LastInv, NEW r \in Slots, Die(r)
  PROVE  LastInv'
<1> SUFFICES ASSUME NEW t \in Targets PROVE LastOK(t)'
  BY DEF LastInv
<1>1. /\ run' = [run EXCEPT ![r] = None] /\ None # 0 /\ None \notin Slots
      /\ last'[t] = IF last[t] = r \/ state' # state \/ spec'[t] # spec[t] THEN None ELSE last[t]
  BY DEF Die, Slots
<1>2. CASE last[t] = r \/ state' # state \/ spec'[t] # spec[t]
  BY <1>1, <1>2 DEF LastOK
<1>3. CASE last[t] # r /\ state' = state /\ spec'[t] = spec[t]
  <2>1. last'[t] = last[t] /\ (last[t] \in Slots => run'[last[t]] = run[last[t]])
    BY <1>1, <1>3 DEF TypeOK
  <2>2. LastOK(t)
    BY DEF LastInv
  <2> QED
    BY <1>3, <2>1, <2>2 DEF LastOK
<1> QED
  BY <1>2, <1>3

\* The records stay those of the runs that wrote the specs.
LEMMA NextLast ==
  ASSUME TypeOK, TypeOK', RunsInv, LastInv, [Next]_vars
  PROVE  LastInv'
<1>1. ASSUME NEW r \in Slots, Proceed(r) PROVE LastInv'
  BY <1>1, ProceedLast, RecordKeeps
<1>2. ASSUME NEW r \in Slots, NEW t \in Targets, NEW kind \in Kinds, Start(r, t, kind)
      PROVE  LastInv'
  <2>1. run[r] = None /\ \A q \in Slots \ {r} : run'[q] = run[q]
    BY <1>2 DEF TypeOK, Start
  <2> QED
    BY <1>2, <2>1, LastKept DEF Start
<1>3. CASE Restart
  <2> SUFFICES ASSUME NEW t \in Targets PROVE LastOK(t)'
    BY DEF LastInv
  <2>1. None # 0 /\ None \notin Slots /\ UNCHANGED <<spec, run>>
        /\ last'[t] = IF last[t] = 0 THEN None ELSE last[t]
    BY <1>3 DEF Restart, Slots
  <2>2. LastOK(t)
    BY DEF LastInv
  <2> QED
    BY <2>1, <2>2 DEF LastOK
<1>4. CASE (\E s \in Sections : Edit(s)) \/ UNCHANGED vars
  <2>1. UNCHANGED <<spec, state, run, last>>
    BY <1>4 DEF Edit, vars
  <2> QED
    BY <2>1, LastKept
<1> QED
  BY <1>1, <1>2, <1>3, <1>4, DieLast DEF Next

\* A resumed run that is skipped leaves a spec that has its sections and was written from
\* the HLD as it is, for any references, risks, sizes and budget, whatever processes, edits
\* and deaths there were, if the records it relies on are those of the run that wrote it.
THEOREM SkippingIsRight == Spec => []SkipIsRight
<1>1. Init => LastInv
  <2> SUFFICES ASSUME Init, NEW t \in Targets PROVE LastOK(t)
    BY DEF LastInv
  <2>1. last[t] = None /\ None # 0 /\ None \notin Slots
    BY DEF Init, Slots
  <2> QED
    BY <2>1 DEF LastOK
<1>2. TypeOK /\ TypeOK' /\ RunsInv /\ LastInv /\ [Next]_vars => LastInv'
  BY NextLast
<1>3. TypeOK /\ RunsInv /\ [Next]_vars => RunsInv'
  BY NextRuns
<1>4. LastInv => SkipIsRight
  <2> SUFFICES ASSUME LastInv, NEW t \in Targets, Skips(t), last[t] = 0 PROVE Current(t)
    BY DEF SkipIsRight
  <2>1. LastOK(t) /\ Loaded[t] \subseteq Required[t] /\ t \in Required[t]
    BY LoadedRequired DEF LastInv
  <2>2. spec[t] # None /\ spec[t].whole
    BY <2>1 DEF LastOK, Skips
  <2>3. \A s \in Loaded[t] : spec[t].of[s] = hld[s]
    BY <2>1 DEF LastOK, Skips
  <2> QED
    BY <2>2, <2>3 DEF Current
<1> QED
  BY TypeCorrect, InitRuns, <1>1, <1>2, <1>3, <1>4, PTL DEF Spec

-----------------------------------------------------------------------------
(***************************************************************************)
(* The workspace.                                                          *)
(***************************************************************************)

\* A step that writes a spec or the reports is an application of what has been tried, or a
\* death.
LEMMA StepStaysValid ==
  ASSUME TypeOK, RunsInv, Next, Valid(spec, reports)
  PROVE  Valid(spec', reports') \/ upsets' > upsets
<1>1. ASSUME NEW r \in Slots, NEW file \in {"spec", "reports"}, Apply(r, file)
      PROVE  Valid(spec', reports')
  <2>1. run[r] # None /\ run[r] \in Runs /\ RunOK(r) /\ run[r].pc = "apply" /\ file \in run[r].left
        /\ run[r].target \in Targets
    BY <1>1 DEF TypeOK, RunsInv, Runs, Apply
  <2>2. CASE file = "spec"
    <3>1. run[r].out # "invalid"
      BY <2>1, <2>2 DEF RunOK
    <3>2. WrittenSpec(r).whole
      BY <2>1, <3>1, WrittenType
    <3>3. reports' = reports /\ \A t \in Targets : spec'[t] = IF t = run[r].target THEN WrittenSpec(r) ELSE spec[t]
      BY <1>1, <2>2 DEF TypeOK, Apply
    <3> QED
      BY <3>2, <3>3 DEF Valid
  <2>3. CASE file = "reports"
    <3>1. reports' \in {"handled", "conflict"} /\ spec' = spec
      BY <1>1, <2>1, <2>3 DEF RunOK, Apply
    <3> QED
      BY <3>1 DEF Valid
  <2> QED
    BY <2>2, <2>3
<1>2. CASE UNCHANGED <<spec, reports>>
  BY <1>2
<1>3. ASSUME NEW r \in Slots, Die(r) PROVE upsets' > upsets
  BY <1>3 DEF TypeOK, Die, Upset
<1>4. \/ UNCHANGED <<spec, reports>>
      \/ \E r \in Slots : Die(r) \/ \E file \in {"spec", "reports"} : Apply(r, file)
  BY DEF Next, Proceed, Start, AgentEnds, Try, Judge, RecordWrites, Restart, Edit
<1> QED
  BY <1>1, <1>2, <1>3, <1>4

\* A workspace that validates goes on doing so, for any number of processes that apply what
\* they have tried on copies of their own, unless one dies in the middle of a file.
THEOREM StaysValid == Spec => WorkspaceStaysValid
<1>1. TypeOK /\ RunsInv /\ [Next]_vars
        => [Valid(spec, reports) => Valid(spec', reports') \/ upsets' > upsets]_vars
  BY StepStaysValid
<1>2. TypeOK /\ RunsInv /\ [Next]_vars => RunsInv'
  BY NextRuns
<1> QED
  BY TypeCorrect, InitRuns, <1>1, <1>2, PTL DEF Spec, WorkspaceStaysValid

-----------------------------------------------------------------------------
(***************************************************************************)
(* HldSync, for any specs, sections and texts, and any number of edits and *)
(* builds.                                                                 *)
(***************************************************************************)

-----------------------------------------------------------------------------
(***************************************************************************)
(* Time.                                                                   *)
(***************************************************************************)

\* A non-empty set of times has a latest one.
LEMMA LatestTime ==
  ASSUME NEW N \in Nat, NEW T \in SUBSET (0..N), T # {}
  PROVE  \E t \in T : \A u \in T : u <= t
<1> DEFINE Before == {N - t : t \in T}
           Less == {ss \in Nat \X Nat : ss[1] < ss[2]}
<1>1. Before \subseteq Nat /\ Before # {}
  <2>1. \A t \in T : N - t \in Nat
    OBVIOUS
  <2>2. PICK t \in T : TRUE
    OBVIOUS
  <2>3. N - t \in Before
    BY <2>2
  <2> QED
    BY <2>1, <2>3
<1>2. IsWellFoundedOn(Less, Nat)
  BY NatLessThanWellFounded DEF OpToRel
<1>3. \A x, y \in Nat : ~ (<<y, x>> \in Less) => x <= y
  OBVIOUS
<1>4. \E x \in Before : \A y \in Before : ~ (<<y, x>> \in Less)
  <2> HIDE DEF Before, Less
  <2> QED BY <1>1, <1>2, WFMin
<1>5. PICK t \in T : \A u \in T : ~ (<<N - u, N - t>> \in Less)
  BY <1>4
<1>6. ASSUME NEW u \in T PROVE u <= t
  <2>1. N - t <= N - u
    <3>1. N - u \in Nat /\ N - t \in Nat
      OBVIOUS
    <3> HIDE DEF Less
    <3> QED BY <1>3, <1>5, <3>1
  <2> QED BY <2>1
<1> QED
  BY <1>6

USE SectionsOfAssumption, AbsentAssumption, MaxTimeAssumption

\* Now is a time, and neither the HLD nor an artifact is newer.
LEMMA NowIsLatest ==
  ASSUME SyncTypeOK
  PROVE  Now \in Times /\ hldTime <= Now /\ \A s \in Specs : built[s].time <= Now
<1>1. CASE \E s \in Specs : built[s].time > hldTime
  <2> DEFINE T == {built[s].time : s \in Specs}
  <2>1. T \in SUBSET Times /\ T # {}
    BY <1>1 DEF SyncTypeOK
  <2>2. \E t \in T : \A u \in T : u <= t
    BY <2>1, LatestTime DEF Times
  <2>3. Now \in T /\ \A s \in Specs : built[s].time <= Now
    BY <1>1, <2>2 DEF Now
  <2> QED
    BY <1>1, <2>1, <2>3 DEF SyncTypeOK, Times
<1>2. CASE ~ \E s \in Specs : built[s].time > hldTime
  BY <1>2 DEF Now, SyncTypeOK, Times
<1> QED
  BY <1>1, <1>2

-----------------------------------------------------------------------------
(***************************************************************************)
(* Type correctness.                                                       *)
(***************************************************************************)

\* What the sync writes for a spec is an entry, and the old one or that of its newest
\* artifact and the text it has read.
LEMMA NewEntryType ==
  ASSUME SyncTypeOK, NEW s \in Specs, NEW f \in Fingerprints
  PROVE  /\ Snapshot(s, f) \in DoneEntry(s)
         /\ NewEntry(s, f) \in DoneEntry(s) \cup {Absent}
<1>1. On(s, f) \in [SectionsOf[s] -> Texts \cup {Absent}]
  BY DEF On, Fingerprints
<1>2. built[s].time \in Times
  BY DEF SyncTypeOK
<1>3. Snapshot(s, f) \in DoneEntry(s)
  BY <1>1, <1>2 DEF Snapshot, DoneEntry
<1> QED
  BY <1>3 DEF NewEntry, SyncTypeOK

LEMMA InitType == SyncInit => SyncTypeOK
  BY DEF SyncInit, SyncTypeOK, Times, Fingerprints

LEMMA NextType ==
  ASSUME SyncTypeOK, [SyncNext]_syncVars
  PROVE  SyncTypeOK'
<1>1. ASSUME NEW a \in Anchors, EditHld(a) PROVE SyncTypeOK'
  <2>1. Now \in Times /\ Now < MaxTime
    BY <1>1, NowIsLatest DEF EditHld
  <2>2. hldTime' \in Times
    BY <1>1, <2>1 DEF EditHld, Times
  <2>3. working' \in Fingerprints
    BY <1>1 DEF EditHld, SyncTypeOK, Fingerprints
  <2> QED
    BY <1>1, <2>2, <2>3 DEF EditHld, SyncTypeOK
<1>2. ASSUME NEW s \in Specs, Build(s) PROVE SyncTypeOK'
  <2>1. Now + 1 \in Times
    BY <1>2, NowIsLatest DEF Build, Times
  <2>2. built' \in [Specs -> [time : Times, from : Fingerprints]]
    BY <1>2, <2>1 DEF Build, SyncTypeOK
  <2> QED
    BY <1>2, <2>2 DEF Build, SyncTypeOK
<1>3. ASSUME NEW s \in Specs, Toggle(s) PROVE SyncTypeOK'
  BY <1>3 DEF Toggle, SyncTypeOK
<1>4. CASE SyncReads
  BY <1>4 DEF SyncReads, SyncTypeOK
<1>5. CASE Sync
  <2>1. seen \in Fingerprints
    BY <1>5 DEF Sync, SyncTypeOK
  <2>2. \A s \in Specs : ledger'[s] \in DoneEntry(s) \cup {Absent}
    BY <1>5, <2>1, NewEntryType DEF Sync
  <2>3. DOMAIN ledger' = Specs /\ adopted' \subseteq Specs
    BY <1>5 DEF Sync
  <2>4. \A s \in Specs : DoneEntry(s)' = DoneEntry(s)
    BY DEF DoneEntry
  <2> QED
    BY <1>5, <2>2, <2>3, <2>4 DEF Sync, SyncTypeOK
<1>6. CASE SyncDies
  BY <1>6 DEF SyncDies, SyncTypeOK
<1>7. CASE UNCHANGED syncVars
  BY <1>7 DEF syncVars, SyncTypeOK
<1> QED
  BY <1>1, <1>2, <1>3, <1>4, <1>5, <1>6, <1>7 DEF SyncNext

\* The types of the ledger, the artifacts and the sync: run_sync and _ledger_status.
THEOREM SyncTypeCorrect == SyncSpec => []SyncTypeOK
<1>1. SyncInit => SyncTypeOK
  BY InitType
<1>2. SyncTypeOK /\ [SyncNext]_syncVars => SyncTypeOK'
  BY NextType
<1> QED
  BY <1>1, <1>2, PTL DEF SyncSpec

-----------------------------------------------------------------------------
(***************************************************************************)
(* What the times say of the texts.                                        *)
(***************************************************************************)

\* An artifact as new as the HLD was made from it.
NewIsOfHld == \A s \in Specs : built[s].time >= hldTime => built[s].from = working

\* The ledger never runs ahead of the artifacts, and an entry as old as its artifacts
\* has the sections that they were made from.
EntryIsOfBuild ==
  \A s \in Specs : ledger[s] # Absent =>
    /\ ledger[s].artifacts_mtime <= built[s].time
    /\ s \notin adopted /\ ledger[s].artifacts_mtime = built[s].time =>
         ledger[s].sections = On(s, built[s].from)

IInv == SyncTypeOK /\ NewIsOfHld /\ EntryIsOfBuild

LEMMA InitInv == SyncInit => IInv
<1> SUFFICES ASSUME SyncInit PROVE IInv
  OBVIOUS
<1>1. NewIsOfHld
  BY DEF SyncInit, NewIsOfHld
<1>2. EntryIsOfBuild
  BY DEF SyncInit, EntryIsOfBuild
<1> QED
  BY <1>1, <1>2, InitType DEF IInv

\* An edit makes the HLD newer than every artifact, a build its artifact newer than the
\* entry.
LEMMA NextNew ==
  ASSUME IInv, [SyncNext]_syncVars
  PROVE  NewIsOfHld'
<1>1. ASSUME NEW a \in Anchors, EditHld(a) PROVE NewIsOfHld'
  <2>1. \A s \in Specs : built[s].time \in Nat /\ built[s].time <= Now
    BY NowIsLatest DEF IInv, SyncTypeOK, Times
  <2>2. Now \in Nat
    BY NowIsLatest DEF IInv, Times
  <2> QED
    BY <1>1, <2>1, <2>2 DEF EditHld, NewIsOfHld
<1>2. ASSUME NEW s \in Specs, Build(s) PROVE NewIsOfHld'
  <2>1. built'[s].from = working /\ \A t \in Specs \ {s} : built'[t] = built[t]
    BY <1>2 DEF Build, IInv, SyncTypeOK
  <2> QED
    BY <1>2, <2>1 DEF Build, NewIsOfHld, IInv
<1>3. CASE UNCHANGED <<working, hldTime, built>>
  BY <1>3 DEF NewIsOfHld, IInv
<1> QED
  BY <1>1, <1>2, <1>3 DEF SyncNext, Toggle, SyncReads, Sync, SyncDies, syncVars

\* A new entry that is not counted as adopted has the sections its artifacts were made
\* from: taken by the condition on the times, with a text that is still the HLD's.
LEMMA SyncEntry ==
  ASSUME IInv, Sync
  PROVE  EntryIsOfBuild'
<1> SUFFICES ASSUME NEW s \in Specs, ledger'[s] # Absent
             PROVE  /\ ledger'[s].artifacts_mtime <= built[s].time
                    /\ s \notin adopted' /\ ledger'[s].artifacts_mtime = built[s].time =>
                         ledger'[s].sections = On(s, built[s].from)
  BY DEF Sync, EntryIsOfBuild, On
<1>1. ledger'[s] = NewEntry(s, seen)
  BY DEF Sync
<1>2. seen \in Fingerprints /\ built[s].time \in Nat
  BY DEF Sync, IInv, SyncTypeOK, Times
<1>3. CASE s \in verified /\ HasSections(seen) /\ Records(s)
  <2>1. ledger'[s] = [sections |-> On(s, seen), artifacts_mtime |-> built[s].time]
    BY <1>1, <1>3 DEF NewEntry, Snapshot
  <2>2. ASSUME s \notin adopted' PROVE BuiltFrom(s, seen)
    <3>1. ledger'[s] # ledger[s]
      <4>1. CASE ledger[s] = Absent
        BY <4>1
      <4>2. CASE ledger[s] # Absent
        <5>1. built[s].time > ledger[s].artifacts_mtime
          BY <1>3, <4>2 DEF Records
        <5>2. ledger[s].artifacts_mtime \in Nat
          BY <4>2 DEF IInv, SyncTypeOK, DoneEntry, Times
        <5> QED
          BY <1>2, <2>1, <5>1, <5>2
      <4> QED BY <4>1, <4>2
    <3>2. BuiltFrom(s, seen) \/ (ledger[s] # Absent /\ seen = working)
      BY <1>1, <2>2, <3>1 DEF Sync
    <3>3. ASSUME ledger[s] # Absent, seen = working PROVE BuiltFrom(s, seen)
      BY <1>3, <3>3 DEF Records, NewIsOfHld, IInv, BuiltFrom
    <3> QED BY <3>2, <3>3
  <2>3. ledger'[s].artifacts_mtime = built[s].time /\ ledger'[s].sections = On(s, seen)
    BY <2>1
  <2> QED
    BY <1>2, <2>2, <2>3 DEF BuiltFrom
<1>4. CASE ~(s \in verified /\ HasSections(seen) /\ Records(s))
  <2>1. ledger'[s] = ledger[s]
    BY <1>1, <1>4 DEF NewEntry
  <2>2. s \notin adopted' => s \notin adopted
    BY <1>1, <2>1 DEF Sync
  <2> QED
    BY <2>1, <2>2 DEF EntryIsOfBuild, IInv
<1> QED
  BY <1>3, <1>4

LEMMA NextEntry ==
  ASSUME IInv, [SyncNext]_syncVars
  PROVE  EntryIsOfBuild'
<1>1. ASSUME NEW s \in Specs, Build(s) PROVE EntryIsOfBuild'
  <2> SUFFICES ASSUME NEW t \in Specs, ledger[t] # Absent
               PROVE  /\ ledger[t].artifacts_mtime <= built'[t].time
                      /\ t \notin adopted /\ ledger[t].artifacts_mtime = built'[t].time =>
                           ledger[t].sections = On(t, built'[t].from)
    BY <1>1 DEF Build, EntryIsOfBuild, On
  <2>1. built[s].time \in Nat /\ built[s].time <= Now /\ Now \in Nat
    BY NowIsLatest DEF IInv, SyncTypeOK, Times
  <2>2. ledger[t].artifacts_mtime \in Nat
    BY DEF IInv, SyncTypeOK, DoneEntry, Times
  <2>3. built'[s].time = Now + 1 /\ (t # s => built'[t] = built[t])
    BY <1>1 DEF Build, IInv, SyncTypeOK
  <2>4. CASE t = s
    BY <2>1, <2>2, <2>3, <2>4 DEF EntryIsOfBuild, IInv
  <2>5. CASE t # s
    BY <2>3, <2>5 DEF EntryIsOfBuild, IInv
  <2> QED
    BY <2>4, <2>5
<1>2. CASE Sync
  BY <1>2, SyncEntry
<1>3. CASE SyncDies
  BY <1>3 DEF SyncDies, EntryIsOfBuild, IInv, On
<1>4. CASE UNCHANGED <<built, ledger, adopted>>
  BY <1>4 DEF EntryIsOfBuild, IInv, On
<1> QED
  BY <1>1, <1>2, <1>3, <1>4 DEF SyncNext, EditHld, Toggle, SyncReads, syncVars

\* The inductive invariant: types, and what the times say of the texts.
THEOREM Invariance == SyncSpec => []IInv
<1>1. SyncInit => IInv
  BY InitInv
<1>2. IInv /\ [SyncNext]_syncVars => IInv'
  BY NextType, NextNew, NextEntry DEF IInv
<1> QED
  BY <1>1, <1>2, PTL DEF SyncSpec

-----------------------------------------------------------------------------
(***************************************************************************)
(* The verdicts.                                                           *)
(***************************************************************************)

\* The verdict of _ledger_status on a spec whose artifacts and HLD kept their times is
\* right: it was built from the sections as they are.
LEMMA InvImpliesFresh == IInv => VerifiedIsFresh
<1> SUFFICES ASSUME IInv, NEW s \in Specs, Status(s) = "DONE_VERIFIED", HasSections(working),
                    ledger[s] # Absent, s \notin adopted, ~BuiltBetween(s)
             PROVE  BuiltFrom(s, working)
  BY DEF VerifiedIsFresh
<1>1. /\ built[s].time \in Nat /\ hldTime \in Nat
      /\ ledger[s] \in DoneEntry(s) /\ ledger[s].artifacts_mtime \in Nat
  BY DEF IInv, SyncTypeOK, DoneEntry, Times
<1>2. CASE built[s].time >= hldTime
  BY <1>2 DEF IInv, NewIsOfHld, BuiltFrom
<1>3. CASE built[s].time < hldTime
  <2>1. built[s].time = ledger[s].artifacts_mtime
    BY <1>1, <1>3 DEF BuiltBetween, IInv, EntryIsOfBuild
  <2>2. ledger[s].sections = On(s, built[s].from)
    BY <2>1 DEF IInv, EntryIsOfBuild
  <2>3. ~Records(s)
    BY <1>1, <2>1 DEF Records
  <2>4. ~StaleSections(s, working)
    BY <2>3 DEF Status
  <2>5. On(s, built[s].from) = On(s, working)
    BY <2>2, <2>4 DEF StaleSections, On
  <2> QED
    BY <2>5 DEF BuiltFrom
<1> QED
  BY <1>1, <1>2, <1>3

\* What the next sync reports as verified was built from the sections as they are now
\* (_ledger_status), for every history of edits, reverts, builds and torn ledgers.
THEOREM Freshness == SyncSpec => []VerifiedIsFresh
  BY Invariance, InvImpliesFresh, PTL

\* No step but a build, an edit or the loss of the entry turns a stale verdict into a
\* verified one (_ledger_status keeps the entry of a stale spec).
THEOREM Stickiness == SyncSpec => StaleSticks
<1> DEFINE Sticks == \A s \in Specs :
             Status(s) = "DONE_STALE" /\ Status(s)' = "DONE_VERIFIED" =>
               built'[s] # built[s] \/ working' # working \/ ledger'[s] = Absent
<1>1. ASSUME IInv, [SyncNext]_syncVars PROVE Sticks
  <2> SUFFICES ASSUME NEW s \in Specs, Status(s) = "DONE_STALE",
                      built'[s] = built[s], working' = working, ledger'[s] # Absent
               PROVE  Status(s)' # "DONE_VERIFIED"
    OBVIOUS
  <2>1. s \in verified /\ HasSections(working) /\ ~Records(s) /\ StaleSections(s, working)
    BY DEF Status
  <2>2. hldTime' = hldTime
    <3>1. ASSUME NEW a \in Anchors, EditHld(a) PROVE FALSE
      <4>1. PICK t : t # working[a] /\ working' = [working EXCEPT ![a] = t]
        BY <3>1 DEF EditHld
      <4>2. working'[a] = t
        BY <1>1, <4>1 DEF IInv, SyncTypeOK, Fingerprints
      <4> QED BY <4>1, <4>2
    <3> QED
      BY <1>1, <3>1 DEF SyncNext, Build, Toggle, SyncReads, Sync, SyncDies, syncVars
  <2>3. ledger'[s] = ledger[s]
    <3>1. CASE Sync
      <4>1. ~Records(s) => NewEntry(s, seen) = ledger[s]
        BY <2>1 DEF NewEntry
      <4> QED
        BY <2>1, <3>1, <4>1 DEF Sync
    <3>2. CASE SyncDies
      BY <3>2 DEF SyncDies
    <3> QED
      BY <1>1, <3>1, <3>2 DEF SyncNext, EditHld, Build, Toggle, SyncReads, syncVars
  <2>4. HasSections(working)' /\ ~Records(s)' /\ StaleSections(s, working)'
    BY <2>1, <2>2, <2>3 DEF HasSections, Records, StaleSections
  <2> QED
    BY <2>4 DEF Status
<1>2. IInv /\ [SyncNext]_syncVars => [Sticks]_syncVars
  BY <1>1
<1>3. SyncSpec => [][Sticks]_syncVars
  BY <1>2, Invariance, PTL DEF SyncSpec
<1> QED
  BY <1>3 DEF StaleSticks
=============================================================================
