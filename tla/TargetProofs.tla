---------------------------- MODULE TargetProofs ----------------------------
(***************************************************************************)
(* Theorems about what is put in a target: how its runtime is refreshed    *)
(* (RefreshTarget) and where its control files live (Externalization).     *)
(***************************************************************************)
EXTENDS RefreshTarget, Externalization, SequenceTheorems, TLAPS

-----------------------------------------------------------------------------
(***************************************************************************)
(* RefreshTarget, for any rules, any number of runs that die and of marks  *)
(* that people delete.                                                     *)
(***************************************************************************)

\* Whatever was done to a constitution: its marks and rules are there once, its marks in
\* their order, and no rule is inside the block.
Once(text) == \A i, j \in DOMAIN text : text[i] = text[j] => i = j \/ text[i] \in Versions
InOrder(text) ==
  \A i, j \in DOMAIN text : i < j => /\ text[j] = "begin" => text[i] \notin {"end", "note"}
                                     /\ text[i] = "note" => text[j] # "end"
OutOfBlock(text) == \A i \in DOMAIN text : text[i] \in Rules => ~ InBlock(text, i)
GoodText(text) == text \in Texts /\ Once(text) /\ InOrder(text) /\ OutOfBlock(text)

TextsInv == \A text \in {constitution, backup, read} : text # None => GoodText(text)

\* What a run knows: its plan is that of the constitution, and what it read is still there,
\* but for an edit since; it writes the block only where there is one, or where it may adopt,
\* and when it has made sure of the rules.
Planning == {"agents", "card", "modules", "manifest", "constitution"}
RunInv ==
  /\ step = "idle" => plan = "none" /\ read = None
  /\ step \in Planning =>
       /\ read = None /\ plan \in {"none", "review", "create", "refresh"}
       /\ plan # "create" => constitution # None
       /\ excused \/ plan = Planned(constitution)
  /\ step \in {"backup", "write"} =>
       /\ read # None /\ constitution # None /\ plan \in {"adopt", "refresh"}
       /\ plan = "adopt" => MarkerState(read) = "UNMARKED"
       /\ excused \/ read = constitution
  /\ step = "write" =>
       /\ plan = "refresh" => MarkerState(read) = "MANAGED"
       /\ excused \/ (backup = read /\ RulesIn(read) = want)


\* A run that is not an adoption has written the helpers it has come past.
Behind(f) == CASE f = "agents" -> {"idle", "agents"}
               [] f = "card" -> {"idle", "agents", "card"}
               [] f = "modules" -> {"idle", "agents", "card", "modules"}
               [] f = "manifest" -> {"idle", "agents", "card", "modules", "manifest"}
HelpersInv ==
  /\ step # "idle" => told = "nothing"
  /\ \A f \in {"agents", "card", "modules", "manifest"} :
       step \notin Behind(f) /\ plan # "adopt" => helpers[f] = version

-----------------------------------------------------------------------------
(***************************************************************************)
(* The block of a text.                                                    *)
(***************************************************************************)
LEMMA FirstIs ==
  ASSUME NEW S \in SUBSET Nat, NEW i \in S, \A j \in S : i <= j
  PROVE  First(S) = i
<1>1. First(S) \in S /\ \A j \in S : First(S) <= j
  BY Zenon DEF First
<1>2. First(S) \in Nat /\ i \in Nat /\ First(S) <= i /\ i <= First(S)
  BY <1>1
<1> QED
  BY <1>2

\* A text is a function on its positions.
LEMMA TextType ==
  ASSUME NEW t \in Texts
  PROVE  /\ Len(t) \in Nat /\ DOMAIN t = 1..Len(t)
         /\ \A i \in 1..Len(t) : t[i] \in Marks \cup Versions \cup Rules
         /\ Begins(t) \subseteq 1..Len(t) /\ Ends(t) \subseteq 1..Len(t)
BY LenProperties DEF Texts, Begins, Ends

\* Texts in a row.
LEMMA TextConcat ==
  ASSUME NEW s \in Texts, NEW t \in Texts
  PROVE  /\ s \o t \in Texts /\ Len(s \o t) = Len(s) + Len(t)
         /\ \A i \in 1..(Len(s) + Len(t)) : (s \o t)[i] = IF i <= Len(s) THEN s[i] ELSE t[i - Len(s)]
<1> DEFINE Token == Marks \cup Versions \cup Rules
<1>1. s \in Seq(Token) /\ t \in Seq(Token) /\ Texts = Seq(Token)
  BY DEF Texts
<1> HIDE DEF Token
<1> QED
  BY <1>1, ConcatProperties

\* A part of a text.
LEMMA TextPart ==
  ASSUME NEW t \in Texts, NEW k \in 1..(Len(t) + 1), NEW l \in (k - 1)..Len(t)
  PROVE  /\ SubSeq(t, k, l) \in Texts /\ Len(SubSeq(t, k, l)) = l - k + 1
         /\ \A i \in 1..(l - k + 1) : SubSeq(t, k, l)[i] = t[k + i - 1]
<1> DEFINE Token == Marks \cup Versions \cup Rules
<1>1. Len(t) \in Nat /\ (\A i \in k..l : t[i] \in Token) /\ Texts = Seq(Token)
  BY TextType DEF Texts
<1> HIDE DEF Token
<1>2. k \in Int /\ l \in Int
  BY <1>1
<1> QED
  BY <1>1, <1>2, SubSeqProperties

\* The block of a text that has one: from the begin mark, which is the only one, to the first
\* end mark, which is behind it as all end marks are.
LEMMA BlockIs ==
  ASSUME NEW t, GoodText(t), MarkerState(t) = "MANAGED"
  PROVE  \E b, e \in 1..Len(t) :
           /\ b < e /\ BlockFirst(t) = b /\ BlockLast(t) = e
           /\ \A i \in 1..Len(t) : /\ t[i] = "begin" => i = b
                                   /\ t[i] \in {"end", "note"} => e <= i
                                   /\ t[i] = "end" => i = e
                                   /\ b <= i /\ i <= e => t[i] \notin Rules
<1> DEFINE after == {i \in Ends(t) : i > BlockFirst(t)}
<1>0. t \in Texts
  BY DEF GoodText
<1>1. BlockFirst(t) # 0 /\ after # {} /\ BlockLast(t) = First(after)
  BY Zenon DEF MarkerState, BlockLast
<1>2. Begins(t) # {}
  BY <1>1 DEF BlockFirst
<1>3. PICK b \in Begins(t) : TRUE
  BY <1>2
<1>4. b \in 1..Len(t) /\ t[b] = "begin" /\ \A i \in 1..Len(t) : t[i] = "begin" => i = b
  BY <1>0, <1>3, TextType DEF Begins, GoodText, Once, Versions
<1>5. Begins(t) = {b}
  BY <1>0, <1>3, <1>4, TextType DEF Begins
<1>6. BlockFirst(t) = b
  <2>1. First({b}) = b
    BY <1>4, FirstIs
  <2> QED
    BY <1>5, <2>1 DEF BlockFirst
<1>7. \A i \in Ends(t) : b < i
  <2> SUFFICES ASSUME NEW i \in Ends(t) PROVE b < i
    OBVIOUS
  <2>1. i \in 1..Len(t) /\ t[i] \in {"end", "note"}
    BY <1>0, TextType DEF Ends
  <2> QED
    BY <1>0, <1>4, <2>1, TextType DEF GoodText, InOrder
<1>8. after = Ends(t) /\ Ends(t) # {}
  BY <1>1, <1>6, <1>7
<1>9. PICK e \in Ends(t) : \A i \in Ends(t) : e <= i
  <2>1. CASE \E i \in Ends(t) : t[i] = "end"
    <3>1. PICK e \in Ends(t) : t[e] = "end"
      BY <2>1
    <3>2. ASSUME NEW i \in Ends(t) PROVE e <= i
      <4>1. e \in 1..Len(t) /\ i \in 1..Len(t) /\ t[i] \in {"end", "note"}
        BY <1>0, TextType DEF Ends
      <4> QED
        BY <1>0, <3>1, <4>1, TextType DEF GoodText, Once, InOrder, Versions
    <3> QED
      BY <3>2
  <2>2. CASE \A i \in Ends(t) : t[i] # "end"
    <3>1. PICK e \in Ends(t) : TRUE
      BY <1>8
    <3>2. ASSUME NEW i \in Ends(t) PROVE e = i
      <4>1. e \in 1..Len(t) /\ i \in 1..Len(t) /\ t[i] = "note" /\ t[e] = "note"
        BY <1>0, <2>2, TextType DEF Ends
      <4> QED
        BY <1>0, <4>1, TextType DEF GoodText, Once, Versions
    <3>3. e \in Nat
      BY <1>0, TextType
    <3> QED
      BY <3>2, <3>3
  <2> QED
    BY <2>1, <2>2
<1>10. e \in 1..Len(t) /\ t[e] \in {"end", "note"} /\ b < e
  BY <1>0, <1>7, TextType DEF Ends
<1>11. BlockLast(t) = e
  <2>1. Ends(t) \in SUBSET Nat
    BY <1>0, TextType
  <2> QED
    BY <1>1, <1>8, <1>9, <2>1, FirstIs
<1>12. ASSUME NEW i \in 1..Len(t)
       PROVE  /\ t[i] \in {"end", "note"} => e <= i
              /\ t[i] = "end" => i = e
              /\ b <= i /\ i <= e => t[i] \notin Rules
  <2>1. t[i] \in {"end", "note"} => i \in Ends(t)
    BY <1>0, TextType DEF Ends
  <2>2. t[i] \in {"end", "note"} => e <= i
    BY <1>9, <2>1
  <2>3. t[i] = "end" => i = e
    BY <1>0, <1>10, <2>2, TextType DEF GoodText, Once, InOrder, Versions
  <2>4. ASSUME b <= i, i <= e, t[i] \in Rules PROVE FALSE
    <3>1. b < i /\ i < e
      BY <1>4, <1>10, <2>4, RulesAssumption DEF Marks
    <3>2. b..i \cap Ends(t) = {}
      BY <1>9, <1>10, <3>1
    <3>3. InBlock(t, i)
      BY <1>3, <1>9, <3>1, <3>2 DEF InBlock
    <3> QED
      BY <1>0, <2>4, <3>3, TextType DEF GoodText, OutOfBlock
  <2> QED
    BY <2>2, <2>3, <2>4
<1> QED
  BY <1>4, <1>6, <1>10, <1>11, <1>12

-----------------------------------------------------------------------------
(***************************************************************************)
(* A new block.                                                            *)
(***************************************************************************)
\* n is t with a block of version v where its positions from b to e were.
Splice(n, t, v, b, e) ==
  /\ n \in Texts /\ Len(n) = Len(t) + b + 2 - e
  /\ n[b] = "begin" /\ n[b + 1] = v /\ n[b + 2] = "end"
  /\ \A i \in 1..(b - 1) : n[i] = t[i]
  /\ \A i \in (b + 3)..Len(n) : n[i] = t[i - b - 2 + e]

\* What a block may replace: no mark is in front of it, only the note behind it, and no rule
\* in it.
Replaceable(t, b, e) ==
  \A i \in 1..Len(t) : /\ i < b => t[i] \notin Marks
                       /\ e < i => t[i] \notin {"begin", "end"}
                       /\ b <= i /\ i <= e => t[i] \notin Rules

\* The text with the new block is as good and says the same rules.
LEMMA SpliceGood ==
  ASSUME NEW t, GoodText(t), NEW n, NEW v \in Versions, NEW b \in 1..(Len(t) + 1),
         NEW e \in (b - 1)..Len(t), Splice(n, t, v, b, e), Replaceable(t, b, e)
  PROVE  /\ GoodText(n) /\ RulesIn(n) = RulesIn(t) /\ n # None
         /\ MarkerState(n) = "MANAGED" /\ BlockFirst(n) = b /\ n[BlockFirst(n) + 1] = v
<1> DEFINE Old(i) == IF i < b THEN i ELSE i - b - 2 + e
           New(i) == IF i < b THEN i ELSE i + b + 2 - e
           Kept == (1..(b - 1)) \cup ((b + 3)..Len(n))
<1>1. /\ t \in Texts /\ n \in Texts /\ Len(t) \in Nat /\ Len(n) \in Nat /\ Len(n) = Len(t) + b + 2 - e
      /\ DOMAIN t = 1..Len(t) /\ DOMAIN n = 1..Len(n)
  BY TextType DEF Splice, GoodText
<1>2. b \in 1..Len(n) /\ b + 1 \in 1..Len(n) /\ b + 2 \in 1..Len(n)
  BY <1>1
<1>3. \A i \in 1..Len(n) : i \in Kept \/ i = b \/ i = b + 1 \/ i = b + 2
  BY <1>1
<1>4. ASSUME NEW i \in Kept
      PROVE  /\ i \in 1..Len(n) /\ Old(i) \in 1..Len(t) /\ n[i] = t[Old(i)] /\ (Old(i) < b \/ e < Old(i))
             /\ (i < b <=> Old(i) < b)
  BY <1>1 DEF Splice
<1>5. \A i, j \in Kept : (i < j <=> Old(i) < Old(j)) /\ (Old(i) = Old(j) => i = j)
  BY <1>1
<1>6. n[b] = "begin" /\ n[b + 1] = v /\ n[b + 2] = "end"
  BY DEF Splice
<1>7. ASSUME NEW i \in Kept
      PROVE  n[i] \notin {"begin", "end"} /\ (i < b => n[i] \notin Marks)
  BY <1>4 DEF Replaceable, Marks
<1> HIDE DEF Old, New, Kept
<1>8. Once(n)
  <2> SUFFICES ASSUME NEW i \in 1..Len(n), NEW j \in 1..Len(n), n[i] = n[j], n[i] \notin Versions
               PROVE  i = j
    BY <1>1 DEF Once
  <2>1. i # b + 1 /\ j # b + 1
    BY <1>6
  <2>2. CASE i \in Kept /\ j \in Kept
    BY <1>1, <1>4, <1>5, <2>2 DEF GoodText, Once
  <2> QED
    BY <1>3, <1>6, <1>7, <2>1, <2>2
<1>9. InOrder(n)
  <2> SUFFICES ASSUME NEW i \in 1..Len(n), NEW j \in 1..Len(n), i < j
               PROVE  /\ n[j] = "begin" => n[i] \notin {"end", "note"}
                      /\ n[i] = "note" => n[j] # "end"
    BY <1>1 DEF InOrder
  <2>1. n[j] = "begin" => j = b
    BY <1>3, <1>6, <1>7 DEF Versions
  <2>2. n[j] = "end" => j = b + 2
    BY <1>3, <1>6, <1>7 DEF Versions
  <2>3. i < b => n[i] \notin Marks
    <3>1. i < b => i \in Kept
      BY <1>1 DEF Kept
    <3> QED
      BY <1>7, <3>1
  <2> QED
    BY <1>1, <1>6, <2>1, <2>2, <2>3 DEF Marks, Versions
<1>10. Begins(n) = {b}
  BY <1>1, <1>2, <1>3, <1>6, <1>7 DEF Begins, Versions
<1>11. b + 2 \in Ends(n) /\ \A i \in Ends(n) : b + 2 <= i
  <2>1. b + 2 \in Ends(n)
    BY <1>1, <1>2, <1>6 DEF Ends
  <2>2. ASSUME NEW i \in Ends(n) PROVE b + 2 <= i
    <3>1. i \in 1..Len(n) /\ n[i] \in {"end", "note"}
      BY <1>1 DEF Ends
    <3>2. i < b => i \in Kept
      BY <1>1, <3>1 DEF Kept
    <3>3. ~ (i < b)
      BY <1>7, <3>1, <3>2 DEF Marks
    <3> QED
      BY <1>1, <1>6, <3>1, <3>3 DEF Versions
  <2> QED
    BY <2>1, <2>2
<1>12. OutOfBlock(n)
  <2> SUFFICES ASSUME NEW i \in 1..Len(n), n[i] \in Rules,
                      NEW x \in Begins(n), NEW e2 \in Ends(n), x < i, i < e2, x..i \cap Ends(n) = {}
               PROVE  FALSE
    BY <1>1 DEF OutOfBlock, InBlock
  <2>1. x = b
    BY <1>10
  <2>2. i < b + 2
    BY <1>1, <1>11, <2>1
  <2>3. i = b + 1
    BY <1>1, <2>1, <2>2
  <2> QED
    BY <1>6, <2>3, RulesAssumption
<1>13. BlockFirst(n) = b
  <2>1. First({b}) = b
    BY FirstIs
  <2> QED
    BY <1>10, <2>1 DEF BlockFirst
<1>14. BlockLast(n) = b + 2
  <2> DEFINE after == {i \in Ends(n) : i > b}
  <2>1. after \in SUBSET Nat /\ b + 2 \in after /\ \A i \in after : b + 2 <= i
    BY <1>1, <1>11 DEF Ends
  <2>2. First(after) = b + 2
    BY <2>1, FirstIs
  <2> QED
    BY <1>13, <2>1, <2>2 DEF BlockLast
<1>15. MarkerState(n) = "MANAGED"
  BY <1>14 DEF MarkerState
<1>16. n # None
  BY <1>1, NoneAssumption
<1>17. t # None
  BY <1>1, NoneAssumption
<1>18. ASSUME NEW i \in 1..Len(t), t[i] \in Rules
       PROVE  New(i) \in Kept /\ Old(New(i)) = i
  <2>1. i < b \/ e < i
    BY <1>18 DEF Replaceable
  <2> QED
    BY <1>1, <2>1 DEF New, Old, Kept
<1>19. ASSUME NEW i \in 1..Len(n), n[i] \in Rules PROVE i \in Kept
  BY <1>3, <1>6, <1>19, RulesAssumption DEF Marks
<1>20. ASSUME NEW p \in Rules \X Rules
       PROVE  (\E i, j \in 1..Len(t) : i <= j /\ p = <<t[i], t[j]>>)
                <=> (\E i, j \in 1..Len(n) : i <= j /\ p = <<n[i], n[j]>>)
  <2>1. ASSUME NEW i \in 1..Len(t), NEW j \in 1..Len(t), i <= j, p = <<t[i], t[j]>>
        PROVE  \E x, y \in 1..Len(n) : x <= y /\ p = <<n[x], n[y]>>
    <3>1. t[i] \in Rules /\ t[j] \in Rules
      BY <2>1
    <3>2. /\ New(i) \in Kept /\ Old(New(i)) = i /\ New(j) \in Kept /\ Old(New(j)) = j
          /\ New(i) \in 1..Len(n) /\ New(j) \in 1..Len(n) /\ n[New(i)] = t[i] /\ n[New(j)] = t[j]
      BY <1>4, <1>18, <3>1
    <3>3. New(i) <= New(j)
      BY <1>1, <1>5, <2>1, <3>2
    <3> QED
      BY <2>1, <3>2, <3>3
  <2>2. ASSUME NEW i \in 1..Len(n), NEW j \in 1..Len(n), i <= j, p = <<n[i], n[j]>>
        PROVE  \E x, y \in 1..Len(t) : x <= y /\ p = <<t[x], t[y]>>
    <3>1. n[i] \in Rules /\ n[j] \in Rules
      BY <2>2
    <3>2. /\ i \in Kept /\ j \in Kept /\ Old(i) \in 1..Len(t) /\ Old(j) \in 1..Len(t)
          /\ n[i] = t[Old(i)] /\ n[j] = t[Old(j)]
      BY <1>4, <1>19, <3>1
    <3>3. Old(i) <= Old(j)
      BY <1>1, <1>5, <2>2, <3>2
    <3> QED
      BY <2>2, <3>2, <3>3
  <2> QED
    BY <2>1, <2>2
<1>21. RulesIn(n) = RulesIn(t)
  <2>1. RulesIn(n) = {p \in Rules \X Rules : \E i, j \in 1..Len(n) : i <= j /\ p = <<n[i], n[j]>>}
    BY <1>1, <1>16, Zenon DEF RulesIn
  <2>2. RulesIn(t) = {p \in Rules \X Rules : \E i, j \in 1..Len(t) : i <= j /\ p = <<t[i], t[j]>>}
    BY <1>1, <1>17, Zenon DEF RulesIn
  <2> QED
    BY <1>20, <2>1, <2>2, Zenon
<1> QED
  BY <1>1, <1>6, <1>8, <1>9, <1>12, <1>13, <1>15, <1>16, <1>21 DEF GoodText

\* The rules of a text, as a set of pairs of its positions.
LEMMA RulesOf ==
  ASSUME NEW t \in Texts
  PROVE  /\ t # None
         /\ RulesIn(t) = {p \in Rules \X Rules : \E i, j \in 1..Len(t) : i <= j /\ p = <<t[i], t[j]>>}
<1>1. t # None /\ DOMAIN t = 1..Len(t)
  BY NoneAssumption, TextType
<1> QED
  BY <1>1, Zenon DEF RulesIn

LEMMA BlockText ==
  ASSUME NEW v \in Versions
  PROVE  /\ ManagedBlock(v) \in Texts /\ Len(ManagedBlock(v)) = 3
         /\ ManagedBlock(v)[1] = "begin" /\ ManagedBlock(v)[2] = v /\ ManagedBlock(v)[3] = "end"
BY DEF ManagedBlock, Texts, Marks

\* The template is a new block, and the note behind it.
LEMMA TemplateGood ==
  ASSUME NEW v \in Versions
  PROVE  /\ GoodText(Template(v)) /\ RulesIn(Template(v)) = {} /\ Template(v) # None
         /\ MarkerState(Template(v)) = "MANAGED" /\ BlockFirst(Template(v)) = 1
         /\ Template(v)[2] = v
<1> DEFINE n == Template(v)
<1>1. /\ n \in Texts /\ Len(n) = 4
      /\ n[1] = "begin" /\ n[2] = v /\ n[3] = "end" /\ n[4] = "note"
  BY DEF Template, ManagedBlock, Texts, Marks
<1> HIDE DEF n
<1>2. DOMAIN n = 1..4 /\ \A i \in 1..4 : n[i] \notin Rules
  BY <1>1, TextType, RulesAssumption DEF Marks
<1>3. Once(n) /\ InOrder(n) /\ OutOfBlock(n)
  BY <1>1, <1>2 DEF Once, InOrder, OutOfBlock, Versions
<1>4. Begins(n) = {1} /\ Ends(n) = {3, 4}
  BY <1>1, <1>2 DEF Begins, Ends, Versions
<1>5. BlockFirst(n) = 1
  <2>1. First({1}) = 1
    BY FirstIs
  <2> QED
    BY <1>4, <2>1 DEF BlockFirst
<1>6. BlockLast(n) = 3
  <2> DEFINE after == {i \in Ends(n) : i > 1}
  <2>1. after = {3, 4}
    BY <1>4
  <2>2. First({3, 4}) = 3
    BY FirstIs
  <2> QED
    BY <1>5, <2>1, <2>2 DEF BlockLast
<1>7. MarkerState(n) = "MANAGED"
  BY <1>6 DEF MarkerState
<1>8. RulesIn(n) = {} /\ n # None
  BY <1>1, <1>2, RulesOf
<1> QED
  BY <1>1, <1>3, <1>5, <1>7, <1>8 DEF GoodText, n

\* What the refresh writes.
LEMMA RefreshedGood ==
  ASSUME NEW t, GoodText(t), MarkerState(t) = "MANAGED", NEW v \in Versions
  PROVE  LET n == Refreshed(t, v) IN
           /\ GoodText(n) /\ RulesIn(n) = RulesIn(t) /\ n # None
           /\ MarkerState(n) = "MANAGED" /\ n[BlockFirst(n) + 1] = v
<1>1. PICK b \in 1..Len(t), e \in 1..Len(t) :
        /\ b < e /\ BlockFirst(t) = b /\ BlockLast(t) = e
        /\ \A i \in 1..Len(t) : /\ t[i] = "begin" => i = b
                                /\ t[i] \in {"end", "note"} => e <= i
                                /\ t[i] = "end" => i = e
                                /\ b <= i /\ i <= e => t[i] \notin Rules
  BY BlockIs
<1>2. t \in Texts /\ Len(t) \in Nat /\ \A i \in 1..Len(t) : t[i] \in Marks \cup Versions \cup Rules
  BY TextType DEF GoodText
<1> DEFINE head == SubSeq(t, 1, b - 1)
           tail == SubSeq(t, e + 1, Len(t))
           n == head \o ManagedBlock(v) \o tail
<1>3. /\ head \in Texts /\ Len(head) = b - 1 /\ \A i \in 1..(b - 1) : head[i] = t[i]
  BY <1>2, TextPart
<1>4. /\ tail \in Texts /\ Len(tail) = Len(t) - e /\ \A i \in 1..(Len(t) - e) : tail[i] = t[e + i]
  BY <1>2, TextPart
<1> HIDE DEF head, tail
<1> DEFINE block == ManagedBlock(v)
           front == head \o block
<1>5. /\ block \in Texts /\ Len(block) = 3 /\ block[1] = "begin" /\ block[2] = v /\ block[3] = "end"
  BY BlockText
<1> HIDE DEF block
<1>6. /\ front \in Texts /\ Len(front) = Len(head) + Len(block)
      /\ \A i \in 1..(Len(head) + Len(block)) :
           front[i] = IF i <= Len(head) THEN head[i] ELSE block[i - Len(head)]
  BY <1>3, <1>5, TextConcat
<1> HIDE DEF front
<1>7. Splice(n, t, v, b, e)
  <2>1. /\ n \in Texts /\ Len(n) = Len(front) + Len(tail)
        /\ \A i \in 1..(Len(front) + Len(tail)) :
             n[i] = IF i <= Len(front) THEN front[i] ELSE tail[i - Len(front)]
    <3>1. n = front \o tail
      BY DEF front, block
    <3> HIDE DEF n
    <3> QED
      BY <1>4, <1>6, <3>1, TextConcat
  <2> HIDE DEF n
  <2>2. Len(front) = b + 2 /\ Len(n) = Len(t) + b + 2 - e
    BY <1>2, <1>3, <1>4, <1>5, <1>6, <2>1
  <2>3. ASSUME NEW i \in 1..(b + 2) PROVE n[i] = IF i <= b - 1 THEN t[i] ELSE block[i - (b - 1)]
    <3>1. n[i] = front[i]
      BY <1>2, <1>4, <2>1, <2>2
    <3>2. front[i] = IF i <= b - 1 THEN head[i] ELSE block[i - (b - 1)]
      BY <1>3, <1>5, <1>6
    <3> QED
      BY <1>3, <3>1, <3>2
  <2>4. n[b] = "begin" /\ n[b + 1] = v /\ n[b + 2] = "end"
    BY <1>5, <2>3
  <2>5. ASSUME NEW i \in (b + 3)..Len(n) PROVE n[i] = t[i - b - 2 + e]
    <3>1. i - (b + 2) \in 1..(Len(t) - e) /\ i \in 1..(Len(front) + Len(tail)) /\ ~ (i <= Len(front))
      BY <1>2, <1>4, <2>2
    <3>2. n[i] = tail[i - (b + 2)]
      BY <2>1, <2>2, <3>1
    <3>3. tail[i - (b + 2)] = t[e + (i - (b + 2))] /\ e + (i - (b + 2)) = i - b - 2 + e
      BY <1>2, <1>4, <3>1
    <3> QED
      BY <3>2, <3>3
  <2>6. \A i \in 1..(b - 1) : n[i] = t[i]
    BY <2>3
  <2> QED
    BY <2>1, <2>2, <2>4, <2>5, <2>6 DEF Splice
<1>8. Replaceable(t, b, e)
  BY <1>1, <1>2 DEF Replaceable, Marks
<1>9. n = Refreshed(t, v)
  BY <1>1 DEF Refreshed, front, block, head, tail
<1> HIDE DEF n
<1> QED
  BY <1>1, <1>2, <1>7, <1>8, <1>9, SpliceGood

\* What an adoption writes.
LEMMA AdoptedGood ==
  ASSUME NEW t, GoodText(t), MarkerState(t) = "UNMARKED", NEW v \in Versions
  PROVE  LET n == ManagedBlock(v) \o t IN
           GoodText(n) /\ RulesIn(n) = RulesIn(t) /\ n # None
<1> DEFINE n == ManagedBlock(v) \o t
<1>1. t \in Texts /\ Len(t) \in Nat /\ DOMAIN t = 1..Len(t)
  BY TextType DEF GoodText
<1>2. Begins(t) = {} /\ Ends(t) = {}
  BY DEF MarkerState
<1>3. \A i \in 1..Len(t) : t[i] \notin Marks
  BY <1>1, <1>2 DEF Begins, Ends, Marks
<1> DEFINE block == ManagedBlock(v)
<1>4. /\ block \in Texts /\ Len(block) = 3 /\ block[1] = "begin" /\ block[2] = v /\ block[3] = "end"
  BY BlockText
<1> HIDE DEF block
<1>5. Splice(n, t, v, 1, 0)
  <2>1. /\ n \in Texts /\ Len(n) = Len(block) + Len(t)
        /\ \A i \in 1..(Len(block) + Len(t)) :
             n[i] = IF i <= Len(block) THEN block[i] ELSE t[i - Len(block)]
    <3>1. n = block \o t
      BY DEF block
    <3> QED
      BY <1>1, <1>4, <3>1, TextConcat
  <2> HIDE DEF n
  <2> QED
    BY <1>1, <1>4, <2>1 DEF Splice
<1>6. Replaceable(t, 1, 0)
  BY <1>1, <1>3 DEF Replaceable, Marks
<1> HIDE DEF n
<1>7. GoodText(n) /\ RulesIn(n) = RulesIn(t) /\ n # None
  BY <1>1, <1>5, <1>6, SpliceGood
<1> QED
  BY <1>7 DEF n

\* What is left of a file that was half written.
LEMMA TornGood ==
  ASSUME NEW t, GoodText(t), NEW u \in TornFrom(t)
  PROVE  GoodText(u) /\ u # None /\ RulesIn(u) \subseteq RulesIn(t)
<1>1. t \in Texts /\ Len(t) \in Nat /\ DOMAIN t = 1..Len(t)
      /\ \A i \in 1..Len(t) : t[i] \in Marks \cup Versions \cup Rules
  BY TextType DEF GoodText
<1>2. PICK l \in 0..Len(t) : u = SubSeq(t, 1, l)
  BY DEF TornFrom, Prefixes
<1>3. u \in Texts /\ Len(u) = l /\ \A i \in 1..l : u[i] = t[i]
  BY <1>1, <1>2, TextPart
<1>4. DOMAIN u = 1..l /\ \A i \in 1..l : i \in 1..Len(t)
  BY <1>1, <1>3, TextType
<1>5. Once(u) /\ InOrder(u)
  BY <1>1, <1>3, <1>4 DEF GoodText, Once, InOrder
<1>6. OutOfBlock(u)
  <2> SUFFICES ASSUME NEW i \in 1..l, u[i] \in Rules,
                      NEW b \in Begins(u), NEW e \in Ends(u), b < i, i < e, b..i \cap Ends(u) = {}
               PROVE  FALSE
    BY <1>4 DEF OutOfBlock, InBlock
  <2>1. b \in Begins(t) /\ e \in Ends(t) /\ b \in Nat /\ e \in 1..l
    BY <1>1, <1>3, <1>4 DEF Begins, Ends
  <2>2. b..i \cap Ends(t) = {}
    BY <1>1, <1>3, <1>4, <2>1 DEF Ends
  <2>3. InBlock(t, i)
    BY <2>1, <2>2 DEF InBlock
  <2> QED
    BY <1>1, <1>3, <1>4, <2>3 DEF GoodText, OutOfBlock
<1>7. RulesIn(u) \subseteq RulesIn(t)
  <2> SUFFICES ASSUME NEW p \in Rules \X Rules, NEW i \in 1..l, NEW j \in 1..l, i <= j, p = <<u[i], u[j]>>
               PROVE  \E x, y \in 1..Len(t) : x <= y /\ p = <<t[x], t[y]>>
    BY <1>1, <1>3, RulesOf
  <2> QED
    BY <1>3, <1>4
<1> QED
  BY <1>3, <1>5, <1>6, <1>7, RulesOf DEF GoodText

\* A rule more, and a mark less, leave marks and rules single and in order.
LEMMA RuleAdded ==
  ASSUME NEW t, GoodText(t), NEW r \in Rules, NEW k \in 1..(Len(t) + 1),
         \A i \in 1..Len(t) : t[i] # r
  PROVE  LET n == InsertAt(t, k, r) IN n \in Texts /\ Once(n) /\ InOrder(n)
<1>1. t \in Texts /\ Len(t) \in Nat /\ DOMAIN t = 1..Len(t)
      /\ \A i \in 1..Len(t) : t[i] \in Marks \cup Versions \cup Rules
  BY TextType DEF GoodText
<1> DEFINE head == SubSeq(t, 1, k - 1)
           tail == SubSeq(t, k, Len(t))
           n == head \o <<r>> \o tail
<1>2. /\ head \in Texts /\ Len(head) = k - 1 /\ \A i \in 1..(k - 1) : head[i] = t[i]
  BY <1>1, TextPart
<1>3. /\ tail \in Texts /\ Len(tail) = Len(t) - k + 1 /\ \A i \in 1..(Len(t) - k + 1) : tail[i] = t[k + i - 1]
  BY <1>1, TextPart
<1> HIDE DEF head, tail
<1>4. <<r>> \in Texts /\ Len(<<r>>) = 1 /\ <<r>>[1] = r
  BY DEF Texts
<1> DEFINE front == head \o <<r>>
<1>5. /\ front \in Texts /\ Len(front) = k
      /\ \A i \in 1..k : front[i] = IF i < k THEN t[i] ELSE r
  BY <1>2, <1>4, TextConcat
<1> HIDE DEF front
<1>6. /\ n \in Texts /\ Len(n) = Len(t) + 1
      /\ \A i \in 1..Len(n) : n[i] = IF i < k THEN t[i] ELSE IF i = k THEN r ELSE t[i - 1]
  <2>1. /\ n \in Texts /\ Len(n) = Len(front) + Len(tail)
        /\ \A i \in 1..(Len(front) + Len(tail)) :
             n[i] = IF i <= Len(front) THEN front[i] ELSE tail[i - Len(front)]
    <3>1. n = front \o tail
      BY DEF front
    <3> HIDE DEF n
    <3> QED
      BY <1>3, <1>5, <3>1, TextConcat
  <2> HIDE DEF n
  <2> QED
    BY <1>1, <1>3, <1>5, <2>1
<1>7. n = InsertAt(t, k, r)
  BY DEF InsertAt, front, head, tail
<1> HIDE DEF n
<1>8. DOMAIN n = 1..Len(n)
  BY <1>6, TextType
<1> DEFINE Old(i) == IF i < k THEN i ELSE i - 1
<1>9. ASSUME NEW i \in 1..Len(n)
      PROVE  /\ i = k => n[i] = r
             /\ i # k => Old(i) \in 1..Len(t) /\ n[i] = t[Old(i)] /\ n[i] # r
  BY <1>1, <1>6
<1>10. \A i, j \in 1..Len(n) : i # k /\ j # k => (i < j <=> Old(i) < Old(j)) /\ (Old(i) = Old(j) => i = j)
  BY <1>1, <1>6
<1> HIDE DEF Old
<1>11. Once(n)
  <2> SUFFICES ASSUME NEW i \in 1..Len(n), NEW j \in 1..Len(n), n[i] = n[j], n[i] \notin Versions
               PROVE  i = j
    BY <1>8 DEF Once
  <2> QED
    BY <1>1, <1>9, <1>10 DEF GoodText, Once
<1>12. InOrder(n)
  <2> SUFFICES ASSUME NEW i \in 1..Len(n), NEW j \in 1..Len(n), i < j
               PROVE  /\ n[j] = "begin" => n[i] \notin {"end", "note"}
                      /\ n[i] = "note" => n[j] # "end"
    BY <1>8 DEF InOrder
  <2>1. r \notin {"begin", "end", "note"}
    BY RulesAssumption DEF Marks
  <2> QED
    BY <1>1, <1>9, <1>10, <2>1 DEF GoodText, InOrder
<1> QED
  BY <1>6, <1>7, <1>11, <1>12

LEMMA MarkDeleted ==
  ASSUME NEW t, GoodText(t), NEW k \in 1..Len(t)
  PROVE  LET n == RemoveAt(t, k) IN n \in Texts /\ Once(n) /\ InOrder(n)
<1>1. t \in Texts /\ Len(t) \in Nat /\ DOMAIN t = 1..Len(t)
      /\ \A i \in 1..Len(t) : t[i] \in Marks \cup Versions \cup Rules
  BY TextType DEF GoodText
<1> DEFINE head == SubSeq(t, 1, k - 1)
           tail == SubSeq(t, k + 1, Len(t))
           n == head \o tail
<1>2. /\ head \in Texts /\ Len(head) = k - 1 /\ \A i \in 1..(k - 1) : head[i] = t[i]
  BY <1>1, TextPart
<1>3. /\ tail \in Texts /\ Len(tail) = Len(t) - k /\ \A i \in 1..(Len(t) - k) : tail[i] = t[k + i]
  <2>1. k + 1 \in 1..(Len(t) + 1) /\ Len(t) \in ((k + 1) - 1)..Len(t)
    BY <1>1
  <2>2. /\ tail \in Texts /\ Len(tail) = Len(t) - (k + 1) + 1
        /\ \A i \in 1..(Len(t) - (k + 1) + 1) : tail[i] = t[k + 1 + i - 1]
    BY <1>1, <2>1, TextPart
  <2> HIDE DEF tail
  <2> QED
    BY <1>1, <2>2
<1> HIDE DEF head, tail
<1>4. /\ n \in Texts /\ Len(n) = Len(t) - 1
      /\ \A i \in 1..Len(n) : n[i] = IF i < k THEN t[i] ELSE t[i + 1]
  <2>1. /\ n \in Texts /\ Len(n) = Len(head) + Len(tail)
        /\ \A i \in 1..(Len(head) + Len(tail)) :
             n[i] = IF i <= Len(head) THEN head[i] ELSE tail[i - Len(head)]
    BY <1>2, <1>3, TextConcat
  <2> HIDE DEF n
  <2> QED
    BY <1>1, <1>2, <1>3, <2>1
<1>5. n = RemoveAt(t, k)
  BY DEF RemoveAt, head, tail
<1> HIDE DEF n
<1>6. DOMAIN n = 1..Len(n)
  BY <1>4, TextType
<1> DEFINE Old(i) == IF i < k THEN i ELSE i + 1
<1>9. ASSUME NEW i \in 1..Len(n) PROVE Old(i) \in 1..Len(t) /\ n[i] = t[Old(i)]
  BY <1>1, <1>4
<1>10. \A i, j \in 1..Len(n) : (i < j <=> Old(i) < Old(j)) /\ (Old(i) = Old(j) => i = j)
  BY <1>1, <1>4
<1> HIDE DEF Old
<1>7. Once(n)
  <2> SUFFICES ASSUME NEW i \in 1..Len(n), NEW j \in 1..Len(n), n[i] = n[j], n[i] \notin Versions
               PROVE  i = j
    BY <1>6 DEF Once
  <2> QED
    BY <1>1, <1>9, <1>10 DEF GoodText, Once
<1>8. InOrder(n)
  <2> SUFFICES ASSUME NEW i \in 1..Len(n), NEW j \in 1..Len(n), i < j
               PROVE  /\ n[j] = "begin" => n[i] \notin {"end", "note"}
                      /\ n[i] = "note" => n[j] # "end"
    BY <1>6 DEF InOrder
  <2> QED
    BY <1>1, <1>9, <1>10 DEF GoodText, InOrder
<1> QED
  BY <1>4, <1>5, <1>7, <1>8

-----------------------------------------------------------------------------
(***************************************************************************)
(* The steps.                                                              *)
(***************************************************************************)
\* What is about to be written into the constitution.
LEMMA NewTextGood ==
  ASSUME RefreshTypeOK, TextsInv, RunInv, step = "write"
  PROVE  /\ GoodText(NewText) /\ RulesIn(NewText) = RulesIn(read) /\ NewText # None
         /\ plan = "refresh" => /\ MarkerState(NewText) = "MANAGED"
                                /\ NewText[BlockFirst(NewText) + 1] = version
<1>1. read # None /\ GoodText(read) /\ version \in Versions
  BY DEF RunInv, TextsInv, RefreshTypeOK
<1>2. CASE plan = "adopt"
  <2>1. MarkerState(read) = "UNMARKED" /\ NewText = ManagedBlock(version) \o read
    BY <1>2 DEF RunInv, NewText
  <2> QED
    BY <1>1, <1>2, <2>1, AdoptedGood
<1>3. CASE plan = "refresh"
  <2>1. MarkerState(read) = "MANAGED" /\ NewText = Refreshed(read, version)
    BY <1>3 DEF RunInv, NewText
  <2> QED
    BY <1>1, <2>1, RefreshedGood
<1> QED
  BY <1>2, <1>3 DEF RunInv

\* What a plan may say, and what an apply does about it.
LEMMA PlannedType ==
  ASSUME NEW t
  PROVE  /\ Planned(t) \in {"none", "review", "create", "refresh"}
         /\ Planned(t) = "create" <=> t = None
         /\ t # None /\ Planned(t) = "refresh" => MarkerState(t) = "MANAGED"
         /\ t # None /\ Planned(t) # "refresh" => MarkerState(t) # "MANAGED"
<1>1. MarkerState(t) \in {"MANAGED", "UNMARKED", "PARTIAL"}
  BY DEF MarkerState
<1> QED
  BY <1>1 DEF Planned

LEMMA ApplyCases ==
  ASSUME RunInv, ApplyConstitution
  PROVE  /\ step = "constitution"
         /\ UNCHANGED <<external, version, backup, deaths, edits, want, excused>>
         /\ \/ plan = "none" /\ EndRun("applied") /\ UNCHANGED <<constitution, helpers>>
            \/ /\ plan = "review" /\ EndRun("applied") /\ UNCHANGED constitution
               /\ helpers' = [helpers EXCEPT !.review = version]
            \/ /\ plan = "create" /\ EndRun("applied") /\ UNCHANGED helpers
               /\ constitution' = Template(version)
            \/ /\ plan = "refresh" /\ step' = "backup" /\ read' = constitution
               /\ UNCHANGED <<constitution, helpers, plan, told>>
<1>1. step = "constitution" /\ plan \in {"none", "review", "create", "refresh"}
  BY DEF ApplyConstitution, RunInv, Planning
<1> QED
  BY <1>1 DEF ApplyConstitution

\* What people write is good, and the rules are theirs.
LEMMA WritesGood ==
  ASSUME NEW t, t \in Texts, Once(t), InOrder(t), Writes(t)
  PROVE  GoodText(t) /\ constitution' = t /\ t # None /\ want' = RulesIn(constitution') /\ want' \subseteq Rules \X Rules
<1>1. OutOfBlock(t)
  BY Zenon DEF Writes, OutOfBlock
<1>2. t # None
  BY NoneAssumption
<1>3. want' = RulesIn(t) /\ constitution' = t
  BY Zenon DEF Writes
<1>4. want' \subseteq Rules \X Rules
  BY <1>3, RulesOf
<1> QED
  BY <1>1, <1>2, <1>3, <1>4 DEF GoodText

LEMMA EditGood ==
  ASSUME RefreshTypeOK, TextsInv, DeleteMark \/ Restore \/ \E r \in Rules : AddRule(r)
  PROVE  \E t : GoodText(t) /\ Writes(t) /\ constitution' = t /\ t # None
                /\ want' = RulesIn(constitution') /\ want' \subseteq Rules \X Rules
<1>1. CASE DeleteMark
  <2>1. PICK k \in DOMAIN constitution : Writes(RemoveAt(constitution, k))
    BY <1>1 DEF DeleteMark
  <2>2. GoodText(constitution)
    BY <1>1 DEF DeleteMark, TextsInv
  <2>3. k \in 1..Len(constitution)
    BY <2>2, TextType DEF GoodText
  <2> QED
    BY <2>1, <2>2, <2>3, MarkDeleted, WritesGood
<1>2. CASE Restore
  <2>1. GoodText(backup) /\ Writes(backup)
    BY <1>2 DEF Restore, TextsInv
  <2> QED
    BY <2>1, WritesGood DEF GoodText
<1>3. ASSUME NEW r \in Rules, AddRule(r)
      PROVE  \E t : GoodText(t) /\ Writes(t) /\ constitution' = t /\ t # None
                    /\ want' = RulesIn(constitution') /\ want' \subseteq Rules \X Rules
  <2> DEFINE u == IF constitution = None THEN <<>> ELSE constitution
  <2>1. /\ <<r, r>> \notin RulesIn(constitution)
        /\ \E i \in 1..(Len(u) + 1) : Writes(InsertAt(u, i, r))
    BY <1>3 DEF AddRule, Spoilt
  <2>2. PICK k \in 1..(Len(u) + 1) : Writes(InsertAt(u, k, r))
    BY <2>1
  <2>3. GoodText(u)
    <3>1. CASE constitution = None
      <4>1. u = <<>> /\ <<>> \in Texts /\ DOMAIN u = {}
        BY <3>1 DEF Texts
      <4> QED
        BY <4>1 DEF GoodText, Once, InOrder, OutOfBlock
    <3>2. CASE constitution # None
      BY <3>2 DEF TextsInv
    <3> QED
      BY <3>1, <3>2
  <2>4. \A i \in 1..Len(u) : u[i] # r
    <3>1. CASE constitution = None
      BY <3>1
    <3>2. CASE constitution # None
      <4>1. u = constitution /\ u \in Texts
        BY <2>3, <3>2 DEF GoodText
      <4>2. Len(u) \in Nat /\ RulesIn(u) = {p \in Rules \X Rules : \E i, j \in 1..Len(u) : i <= j /\ p = <<u[i], u[j]>>}
        BY <4>1, RulesOf, TextType
      <4> QED
        BY <2>1, <4>1, <4>2
    <3> QED
      BY <3>1, <3>2
  <2> HIDE DEF u
  <2> QED
    BY <2>2, <2>3, <2>4, RuleAdded, WritesGood
<1> QED
  BY <1>1, <1>2, <1>3

\* The types, and what is in the constitution, its backup and what was read of it.
LEMMA NextTexts ==
  ASSUME RefreshTypeOK, TextsInv, RunInv, RefreshNext
  PROVE  RefreshTypeOK' /\ TextsInv'
<1> DEFINE Changed == {constitution', backup', read'}
<1>1. version \in Versions /\ GoodText(Template(version)) /\ Template(version) # None
  BY TemplateGood DEF RefreshTypeOK
<1>2. ASSUME NEW t \in Changed, t # None PROVE GoodText(t)
  <2>1. CASE t \in {constitution, backup, read}
    BY <1>2, <2>1 DEF TextsInv
  <2>2. CASE ApplyConstitution
    BY <1>1, <1>2, <2>1, <2>2, ApplyCases DEF EndRun
  <2>3. CASE WriteConstitution
    BY <1>2, <2>1, <2>3, NewTextGood DEF WriteConstitution, EndRun
  <2>4. CASE Die
    <3>1. ASSUME t \in TornFrom(Template(version)) PROVE GoodText(t)
      BY <1>1, <3>1, TornGood
    <3>2. ASSUME step = "backup", t \in TornFrom(read) PROVE GoodText(t)
      <4>1. GoodText(read)
        BY <3>2 DEF RunInv, TextsInv
      <4> QED
        BY <3>2, <4>1, TornGood
    <3>3. ASSUME step = "write", t \in TornFrom(NewText) PROVE GoodText(t)
      BY <3>3, TornGood, NewTextGood
    <3>4. \/ t \in {constitution, backup, read} \/ t \in TornFrom(Template(version))
          \/ (step = "backup" /\ t \in TornFrom(read)) \/ (step = "write" /\ t \in TornFrom(NewText))
      BY <1>2, <2>4 DEF Die, EndRun
    <3> QED
      BY <2>1, <3>1, <3>2, <3>3, <3>4
  <2>5. CASE DeleteMark \/ Restore \/ \E r \in Rules : AddRule(r)
    <3>1. PICK u : GoodText(u) /\ Writes(u) /\ constitution' = u
      BY <2>5, EditGood
    <3>2. backup' = backup /\ read' = read
      BY <3>1 DEF Writes
    <3> QED
      BY <2>1, <3>1, <3>2
  <2>6. CASE BuildPlan \/ Adopt \/ Upgrade \/ WriteBackup
    BY <1>2, <2>1, <2>6 DEF BuildPlan, Adopt, Upgrade, WriteBackup, EndRun
  <2>7. CASE WriteAgents \/ WriteCard \/ WriteModules \/ WriteManifest
    BY <1>2, <2>1, <2>7 DEF WriteAgents, WriteCard, WriteModules, WriteManifest, WriteHelper, EndRun
  <2> QED
    BY <2>2, <2>3, <2>4, <2>5, <2>6, <2>7 DEF RefreshNext, Tool
<1>3. TextsInv'
  BY <1>2 DEF TextsInv
<1>4. \A t \in {constitution', backup', read'} :
        t # None => t \in Texts /\ \A i, j \in DOMAIN t : t[i] = t[j] => i = j \/ t[i] \in Versions
  BY <1>2 DEF GoodText, Once
<1>5. /\ version' \in Versions /\ external' \in BOOLEAN /\ excused' \in BOOLEAN
      /\ deaths' \in 0..MaxDeaths /\ edits' \in 0..MaxEdits
      /\ helpers' \in [Helpers -> Versions \cup {None, Broken}]
      /\ step' \in Steps /\ plan' \in {"none", "review", "create", "refresh", "adopt"}
      /\ told' \in {"nothing", "applied", "adopted", "failed"} /\ want' \subseteq Rules \X Rules
  <2>1. CASE DeleteMark \/ Restore \/ \E r \in Rules : AddRule(r)
    <3>1. PICK u : Writes(u) /\ want' \subseteq Rules \X Rules
      BY <2>1, EditGood
    <3>2. edits' \in 0..MaxEdits
      <4>1. edits' = edits \/ (edits < MaxEdits /\ edits' = edits + 1)
        BY <2>1, Zenon DEF DeleteMark, Restore, AddRule
      <4> QED
        BY <4>1, BoundsAssumption DEF RefreshTypeOK
    <3> QED
      BY <3>1, <3>2 DEF Writes, RefreshTypeOK
  <2>2. CASE BuildPlan \/ Adopt \/ Upgrade \/ WriteBackup
    <3>1. BuildPlan => plan' \in {"none", "review", "create", "refresh"}
      BY PlannedType DEF BuildPlan
    <3>2. excused' \in BOOLEAN
      BY <2>2 DEF BuildPlan, Adopt, Upgrade, WriteBackup, RefreshTypeOK
    <3> QED
      BY <2>2, <3>1, <3>2 DEF BuildPlan, Adopt, Upgrade, WriteBackup, EndRun, RefreshTypeOK, Steps, Versions
  <2>3. CASE WriteAgents \/ WriteCard \/ WriteModules \/ WriteManifest
    BY <2>3 DEF WriteAgents, WriteCard, WriteModules, WriteManifest, WriteHelper, EndRun, RefreshTypeOK, Steps, Helpers
  <2>4. CASE ApplyConstitution \/ WriteConstitution
    BY <2>4, ApplyCases DEF WriteConstitution, EndRun, RefreshTypeOK, Steps, Helpers
  <2>5. CASE Die
    BY <2>5, BoundsAssumption DEF Die, EndRun, RefreshTypeOK, Steps, Helpers
  <2> QED
    BY <2>1, <2>2, <2>3, <2>4, <2>5 DEF RefreshNext, Tool
<1> QED
  BY <1>3, <1>4, <1>5 DEF RefreshTypeOK

\* Every write is a step of the tool; what the tool does not write stays.
LEMMA HelperCases ==
  ASSUME WriteAgents \/ WriteCard \/ WriteModules \/ WriteManifest
  PROVE  \E file \in {"agents", "card", "modules", "manifest"} :
           /\ step = file /\ helpers' = [helpers EXCEPT ![file] = version]
           /\ UNCHANGED <<external, version, constitution, backup, deaths, edits, want, excused>>
           /\ \/ EndRun("failed")
              \/ /\ UNCHANGED <<plan, read, told>>
                 /\ step' = CASE file = "agents" -> "card" [] file = "card" -> "modules"
                              [] file = "modules" -> "manifest" [] file = "manifest" -> "constitution"
BY DEF WriteAgents, WriteCard, WriteModules, WriteManifest, WriteHelper

\* What a run knows.
LEMMA NextRunInv ==
  ASSUME RefreshTypeOK, TextsInv, RunInv, KeepsRules, RefreshNext
  PROVE  RunInv'
<1>1. CASE BuildPlan
  <2>1. /\ step' = "agents" /\ plan' = Planned(constitution') /\ UNCHANGED <<constitution, backup, read>>
        /\ read' = None
    BY <1>1 DEF BuildPlan, RunInv
  <2> QED
    BY <2>1, PlannedType DEF RunInv, Planning
<1>2. CASE Adopt
  BY <1>2 DEF Adopt, RunInv, Planning
<1>3. CASE WriteAgents \/ WriteCard \/ WriteModules \/ WriteManifest
  <2>1. step \in Planning /\ UNCHANGED <<version, constitution, backup, want, excused>>
        /\ (EndRun("failed") \/ (UNCHANGED <<plan, read, told>> /\ step' \in Planning))
    BY <1>3, HelperCases DEF Planning
  <2> QED
    BY <2>1 DEF RunInv, Planning, EndRun
<1>4. CASE ApplyConstitution
  <2>1. CASE EndRun("applied")
    BY <2>1 DEF RunInv, Planning, EndRun
  <2>2. CASE step' = "backup" /\ plan = "refresh"
    <3>1. read' = constitution /\ UNCHANGED <<constitution, backup, plan, excused>> /\ constitution # None
      BY <1>4, <2>2, ApplyCases DEF RunInv, Planning, EndRun
    <3> QED
      BY <2>2, <3>1 DEF RunInv, Planning
  <2> QED
    BY <1>4, <2>1, <2>2, ApplyCases
<1>5. CASE WriteBackup
  <2>1. CASE EndRun("failed")
    BY <2>1 DEF RunInv, Planning, EndRun
  <2>2. CASE step' = "write" /\ UNCHANGED <<plan, read, told>> /\ (plan = "refresh" => MarkerState(read) = "MANAGED")
    <3>1. /\ step = "backup" /\ backup' = read /\ UNCHANGED <<constitution, want>>
          /\ excused' = (excused \/ (deaths > 0 /\ RulesIn(read) # want))
      BY <1>5 DEF WriteBackup, Spoilt
    <3>2. excused' \/ RulesIn(read) = want
      BY <3>1 DEF KeepsRules, RunInv, RefreshTypeOK
    <3> QED
      BY <2>2, <3>1, <3>2 DEF RunInv, Planning
  <2> QED
    BY <1>5, <2>1, <2>2 DEF WriteBackup
<1>6. CASE WriteConstitution \/ Die
  <2>1. step' = "idle" /\ plan' = "none" /\ read' = None
    BY <1>6 DEF WriteConstitution, Die, EndRun
  <2> QED
    BY <2>1 DEF RunInv, Planning
<1>7. CASE Upgrade
  <2>1. step = "idle" /\ UNCHANGED <<step, plan, read>>
    BY <1>7 DEF Upgrade
  <2> QED
    BY <2>1 DEF RunInv, Planning
<1>8. CASE DeleteMark \/ Restore \/ \E r \in Rules : AddRule(r)
  <2>1. PICK t : Writes(t) /\ constitution' = t /\ t # None
    BY <1>8, EditGood
  <2>2. /\ UNCHANGED <<step, plan, read, backup>> /\ excused' = (excused \/ step # "idle")
        /\ constitution' # None
    BY <2>1 DEF Writes
  <2> QED
    BY <2>2 DEF RunInv, Planning, RefreshTypeOK
<1> QED
  BY <1>1, <1>2, <1>3, <1>4, <1>5, <1>6, <1>7, <1>8 DEF RefreshNext, Tool

\* The helpers that have been written, and what is told of them.
LEMMA NextHelpers ==
  ASSUME RefreshTypeOK, RunInv, HelpersInv, RefreshNext
  PROVE  HelpersInv'
<1> DEFINE Four == {"agents", "card", "modules", "manifest"}
<1>1. CASE WriteAgents \/ WriteCard \/ WriteModules \/ WriteManifest
  <2>1. PICK file \in Four :
           /\ step = file /\ helpers' = [helpers EXCEPT ![file] = version] /\ version' = version
           /\ \/ EndRun("failed")
              \/ /\ UNCHANGED <<plan, read, told>>
                 /\ step' = CASE file = "agents" -> "card" [] file = "card" -> "modules"
                              [] file = "modules" -> "manifest" [] file = "manifest" -> "constitution"
    BY <1>1, HelperCases
  <2>2. CASE EndRun("failed")
    BY <2>2 DEF EndRun, HelpersInv, Behind
  <2>3. CASE ~ EndRun("failed")
    <3>1. helpers'[file] = version /\ \A f \in Four \ {file} : helpers'[f] = helpers[f]
      BY <2>1 DEF RefreshTypeOK, Helpers
    <3>2. \A f \in Four : step \notin Behind(f) /\ plan # "adopt" => helpers[f] = version
      BY DEF HelpersInv
    <3>3. told = "nothing"
      BY <2>1 DEF HelpersInv
    <3>4. CASE file = "agents"
      BY <2>1, <2>3, <3>1, <3>2, <3>3, <3>4 DEF HelpersInv, Behind
    <3>5. CASE file = "card"
      BY <2>1, <2>3, <3>1, <3>2, <3>3, <3>5 DEF HelpersInv, Behind
    <3>6. CASE file = "modules"
      BY <2>1, <2>3, <3>1, <3>2, <3>3, <3>6 DEF HelpersInv, Behind
    <3>7. CASE file = "manifest"
      BY <2>1, <2>3, <3>1, <3>2, <3>3, <3>7 DEF HelpersInv, Behind
    <3> QED
      BY <3>4, <3>5, <3>6, <3>7
  <2> QED
    BY <2>1, <2>2, <2>3
<1>2. CASE BuildPlan \/ Adopt
  BY <1>2 DEF BuildPlan, Adopt, HelpersInv, Behind
<1>3. CASE ApplyConstitution
  <2>1. CASE step' = "idle"
    BY <2>1 DEF HelpersInv, Behind
  <2>2. CASE step' = "backup"
    <3>1. step = "constitution" /\ UNCHANGED <<helpers, version, told, plan>>
      BY <1>3, <2>2, ApplyCases DEF EndRun
    <3> QED
      BY <2>2, <3>1 DEF HelpersInv, Behind
  <2> QED
    BY <1>3, <2>1, <2>2, ApplyCases DEF EndRun
<1>4. CASE WriteBackup
  <2>1. CASE step' = "idle"
    BY <2>1 DEF HelpersInv, Behind
  <2>2. CASE step' = "write"
    <3>1. step = "backup" /\ UNCHANGED <<helpers, version, told, plan>>
      BY <1>4, <2>2 DEF WriteBackup, EndRun
    <3> QED
      BY <2>2, <3>1 DEF HelpersInv, Behind
  <2> QED
    BY <1>4, <2>1, <2>2 DEF WriteBackup, EndRun
<1>5. CASE WriteConstitution \/ Die \/ Upgrade
  <2>1. step' = "idle"
    BY <1>5 DEF WriteConstitution, Die, Upgrade, EndRun
  <2> QED
    BY <2>1 DEF HelpersInv, Behind
<1>6. CASE DeleteMark \/ Restore \/ \E r \in Rules : AddRule(r)
  <2>1. PICK t : Writes(t)
    BY <1>6 DEF DeleteMark, Restore, AddRule
  <2>2. UNCHANGED <<step, plan, helpers, version>> /\ told' = "nothing"
    BY <2>1 DEF Writes
  <2> QED
    BY <2>2 DEF HelpersInv, Behind
<1> QED
  BY <1>1, <1>2, <1>3, <1>4, <1>5, <1>6 DEF RefreshNext, Tool

\* What people wrote stays.
LEMMA NextKeeps ==
  ASSUME RefreshTypeOK, TextsInv, RunInv, KeepsRules, RefreshNext
  PROVE  KeepsRules'
<1>1. RulesIn(None) = {}
  BY DEF RulesIn
<1>2. CASE UNCHANGED <<constitution, backup, want, excused, deaths>>
  BY <1>2 DEF KeepsRules
<1>3. CASE ApplyConstitution
  <2>1. CASE constitution' = Template(version) /\ plan = "create"
    <3>1. step = "constitution" /\ UNCHANGED <<backup, want, excused, deaths>>
      BY <1>3, ApplyCases
    <3>2. excused \/ constitution = None
      BY <2>1, <3>1, PlannedType DEF RunInv, Planning
    <3>3. RulesIn(constitution') = {}
      BY <2>1, TemplateGood DEF RefreshTypeOK
    <3> QED
      BY <1>1, <3>1, <3>2, <3>3 DEF KeepsRules
  <2> QED
    BY <1>2, <1>3, <2>1, ApplyCases
<1>4. CASE WriteBackup
  <2>1. /\ step = "backup" /\ backup' = read /\ UNCHANGED <<constitution, want, deaths>>
        /\ excused' = (excused \/ (deaths > 0 /\ RulesIn(read) # want))
    BY <1>4 DEF WriteBackup, Spoilt
  <2>2. (excused \/ read = constitution) /\ read # None
    BY <2>1 DEF RunInv
  <2> QED
    BY <2>1, <2>2 DEF KeepsRules, RefreshTypeOK
<1>5. CASE WriteConstitution
  <2>1. step = "write" /\ constitution' = NewText /\ UNCHANGED <<backup, want, deaths, excused>>
    BY <1>5 DEF WriteConstitution
  <2>2. excused \/ RulesIn(read) = want
    BY <2>1 DEF RunInv
  <2> QED
    BY <2>1, <2>2, NewTextGood DEF KeepsRules
<1>6. CASE Die
  <2>1. /\ step # "idle" /\ deaths' > 0 /\ want' = want /\ (deaths > 0 => deaths' > 0)
        /\ excused' = (excused \/ (step = "backup" /\ RulesIn(read) # want))
    BY <1>6 DEF Die, RefreshTypeOK, Spoilt
  <2>2. CASE UNCHANGED <<constitution, backup>>
    BY <2>1, <2>2 DEF KeepsRules
  <2>3. CASE step = "constitution" /\ plan = "create" /\ constitution' \in TornFrom(Template(version)) /\ UNCHANGED backup
    <3>1. excused \/ constitution = None
      BY <2>3, PlannedType DEF RunInv, Planning
    <3>2. RulesIn(constitution') = {}
      <4>1. RulesIn(Template(version)) = {} /\ GoodText(Template(version))
        BY TemplateGood DEF RefreshTypeOK
      <4> QED
        BY <2>3, <4>1, TornGood
    <3> QED
      BY <1>1, <2>1, <2>3, <3>1, <3>2 DEF KeepsRules
  <2>4. CASE step = "backup" /\ UNCHANGED constitution
    <3>1. excused \/ read = constitution
      BY <2>4 DEF RunInv
    <3> QED
      BY <2>1, <2>4, <3>1 DEF KeepsRules
  <2>5. CASE step = "write" /\ UNCHANGED backup
    <3>1. excused \/ (backup = read /\ RulesIn(read) = want /\ read # None)
      BY <2>5 DEF RunInv
    <3> QED
      BY <2>1, <2>5, <3>1 DEF KeepsRules
  <2> QED
    BY <1>6, <2>2, <2>3, <2>4, <2>5 DEF Die
<1>7. CASE DeleteMark \/ Restore \/ \E r \in Rules : AddRule(r)
  <2>1. want' = RulesIn(constitution')
    BY <1>7, EditGood
  <2> QED
    BY <2>1 DEF KeepsRules
<1>8. BuildPlan \/ Adopt \/ Upgrade => UNCHANGED <<constitution, backup, want, excused, deaths>>
  BY DEF BuildPlan, Adopt, Upgrade
<1>9. WriteAgents \/ WriteCard \/ WriteModules \/ WriteManifest
        => UNCHANGED <<constitution, backup, want, excused, deaths>>
  BY HelperCases
<1> QED
  BY <1>2, <1>3, <1>4, <1>5, <1>6, <1>7, <1>8, <1>9 DEF RefreshNext, Tool

\* What an apply that ended well brings up to date.
LEMMA NextApplied ==
  ASSUME RefreshTypeOK, TextsInv, RunInv, HelpersInv, AppliedIsCurrent, RefreshNext
  PROVE  AppliedIsCurrent'
<1> SUFFICES ASSUME told' = "applied"
             PROVE  (HelpersCurrent /\ (excused \/ (constitution # None /\ CurrentBlock(constitution))))'
  BY DEF AppliedIsCurrent
<1>1. CASE ApplyConstitution
  <2>1. /\ step = "constitution" /\ version' = version /\ excused' = excused
        /\ told = "nothing" /\ \A f \in {"agents", "card", "modules", "manifest"} : helpers[f] = version
    BY <1>1, ApplyCases DEF HelpersInv, Behind, RunInv, Planning
  <2>2. HelpersCurrent'
    BY <1>1, <2>1, ApplyCases DEF HelpersCurrent, RefreshTypeOK, Helpers
  <2>3. CASE plan = "create" /\ constitution' = Template(version)
    <3>1. /\ MarkerState(constitution') = "MANAGED" /\ constitution' # None
          /\ constitution'[BlockFirst(constitution') + 1] = version
      BY <2>3, TemplateGood DEF RefreshTypeOK
    <3> QED
      BY <2>1, <2>2, <3>1 DEF CurrentBlock
  <2>4. CASE plan \in {"none", "review"} /\ constitution' = constitution
    <3>1. constitution # None /\ (excused \/ plan = Planned(constitution))
      BY <2>1, <2>4 DEF RunInv, Planning
    <3>2. excused \/ MarkerState(constitution) # "MANAGED"
      BY <2>4, <3>1, PlannedType
    <3> QED
      BY <2>1, <2>2, <2>4, <3>1, <3>2 DEF CurrentBlock
  <2>5. plan # "refresh"
    BY <1>1, <2>1, ApplyCases
  <2> QED
    BY <1>1, <2>3, <2>4, <2>5, ApplyCases
<1>2. CASE WriteConstitution
  <2>1. /\ step = "write" /\ plan # "adopt" /\ constitution' = NewText
        /\ UNCHANGED <<version, helpers, excused>>
    BY <1>2 DEF WriteConstitution, EndRun
  <2>2. plan = "refresh" /\ HelpersCurrent'
    BY <2>1 DEF RunInv, HelpersInv, Behind, HelpersCurrent
  <2>3. /\ MarkerState(constitution') = "MANAGED" /\ constitution' # None
        /\ constitution'[BlockFirst(constitution') + 1] = version
    BY <2>1, <2>2, NewTextGood
  <2> QED
    BY <2>1, <2>2, <2>3 DEF CurrentBlock
<1>3. CASE WriteAgents \/ WriteCard \/ WriteModules \/ WriteManifest
  BY <1>3, HelperCases DEF EndRun, HelpersInv
<1>4. CASE WriteBackup
  BY <1>4 DEF WriteBackup, EndRun, HelpersInv
<1>5. CASE BuildPlan \/ Adopt \/ Die \/ Upgrade
  BY <1>5 DEF BuildPlan, Adopt, Die, Upgrade, EndRun
<1>6. CASE DeleteMark \/ Restore \/ \E r \in Rules : AddRule(r)
  <2>1. PICK t : Writes(t)
    BY <1>6 DEF DeleteMark, Restore, AddRule
  <2> QED
    BY <2>1 DEF Writes
<1> QED
  BY <1>1, <1>2, <1>3, <1>4, <1>5, <1>6 DEF RefreshNext, Tool

-----------------------------------------------------------------------------
(***************************************************************************)
(* The theorems.                                                           *)
(***************************************************************************)
RefreshInv == RefreshTypeOK /\ TextsInv /\ RunInv /\ HelpersInv /\ KeepsRules /\ AppliedIsCurrent

LEMMA RefreshHolds == RefreshSpec => []RefreshInv
<1>1. RefreshInit => RefreshInv
  <2> SUFFICES ASSUME RefreshInit PROVE RefreshInv
    OBVIOUS
  <2>1. <<>> \in Texts /\ DOMAIN <<>> = {} /\ RulesIn(<<>>) = {} /\ RulesIn(None) = {}
    BY DEF Texts, RulesIn
  <2>2. GoodText(<<>>)
    BY <2>1 DEF GoodText, Once, InOrder, OutOfBlock
  <2>3. RefreshTypeOK /\ TextsInv
    <3>1. {constitution, backup, read} \subseteq {None, <<>>} /\ helpers \in [Helpers -> {None}]
      BY <2>1 DEF RefreshInit
    <3>2. TextsInv
      BY <2>2, <3>1 DEF TextsInv
    <3>3. \A t \in {constitution, backup, read} :
            t # None => t \in Texts /\ \A i, j \in DOMAIN t : t[i] = t[j] => i = j \/ t[i] \in Versions
      BY <2>1, <3>1
    <3> QED
      <4>1. helpers \in [Helpers -> Versions \cup {None, Broken}]
        BY <3>1
      <4>2. external \in BOOLEAN /\ excused \in BOOLEAN
        BY Zenon DEF RefreshInit
      <4>3. deaths \in 0..MaxDeaths /\ edits \in 0..MaxEdits
        BY BoundsAssumption DEF RefreshInit
      <4>4. /\ version \in Versions /\ want \subseteq Rules \X Rules /\ step \in Steps
            /\ plan \in {"none", "review", "create", "refresh", "adopt"}
            /\ told \in {"nothing", "applied", "adopted", "failed"}
        BY DEF RefreshInit, Steps, Versions
      <4> QED
        BY <3>2, <3>3, <4>1, <4>2, <4>3, <4>4 DEF RefreshTypeOK
  <2>4. RunInv /\ HelpersInv /\ KeepsRules /\ AppliedIsCurrent
    BY <2>1 DEF RefreshInit, RunInv, Planning, HelpersInv, Behind, KeepsRules, AppliedIsCurrent
  <2> QED
    BY <2>3, <2>4 DEF RefreshInv
<1>2. RefreshInv /\ [RefreshNext]_refreshVars => RefreshInv'
  <2> SUFFICES ASSUME RefreshInv, [RefreshNext]_refreshVars PROVE RefreshInv'
    OBVIOUS
  <2>1. CASE RefreshNext
    BY <2>1, NextTexts, NextRunInv, NextHelpers, NextKeeps, NextApplied DEF RefreshInv
  <2>2. CASE UNCHANGED refreshVars
    <3>1. RefreshTypeOK' /\ TextsInv'
      BY <2>2 DEF refreshVars, runVars, RefreshInv, RefreshTypeOK, TextsInv
    <3>2. RunInv'
      BY <2>2 DEF refreshVars, runVars, RefreshInv, RunInv
    <3>3. HelpersInv' /\ KeepsRules'
      BY <2>2 DEF refreshVars, runVars, RefreshInv, HelpersInv, KeepsRules
    <3>4. AppliedIsCurrent'
      BY <2>2 DEF refreshVars, runVars, RefreshInv, AppliedIsCurrent, HelpersCurrent, CurrentBlock
    <3> QED
      BY <3>1, <3>2, <3>3, <3>4 DEF RefreshInv
  <2> QED
    BY <2>1, <2>2
<1> QED
  BY <1>1, <1>2, PTL DEF RefreshSpec

\* The type invariant of the refresh: no mark and no rule is in the constitution, in its
\* backup or in what a run read of it twice.
THEOREM RefreshTypeCorrect == RefreshSpec => []RefreshTypeOK
<1>1. RefreshInv => RefreshTypeOK
  BY DEF RefreshInv
<1> QED
  BY <1>1, RefreshHolds, PTL

\* What people wrote outside the block is never lost: it is in the constitution or, when a
\* run died, in the backup, but for the two excuses.
THEOREM RulesAreKept == RefreshSpec => []KeepsRules
<1>1. RefreshInv => KeepsRules
  BY DEF RefreshInv
<1> QED
  BY <1>1, RefreshHolds, PTL

\* An apply that ends well leaves every helper and the block of the constitution at the
\* version of the tool.
THEOREM AppliedStaysCurrent == RefreshSpec => []AppliedIsCurrent
<1>1. RefreshInv => AppliedIsCurrent
  BY DEF RefreshInv
<1> QED
  BY <1>1, RefreshHolds, PTL

-----------------------------------------------------------------------------
(***************************************************************************)
(* Externalization, for any source HLDs, records and number of starts,     *)
(* crashed anywhere.                                                       *)
(***************************************************************************)

USE PlacesAssumption, MaxStartsAssumption

-----------------------------------------------------------------------------
(***************************************************************************)
(* Type correctness.                                                       *)
(***************************************************************************)
FilesOK == files \in [Places -> [Names -> Content]]

\* Writing one file of one place.
LEMMA PutType ==
  ASSUME FilesOK, NEW p \in Places, NEW x \in Names, NEW v \in Content, Put(p, x, v)
  PROVE  /\ FilesOK'
         /\ files'[p][x] = v
         /\ \A q \in Places, y \in Names : q # p \/ y # x => files'[q][y] = files[q][y]
<1>1. files' = [files EXCEPT ![p] = [files[p] EXCEPT ![x] = v]]
  BY DEF Put
<1>2. files[p] \in [Names -> Content]
  BY DEF FilesOK
<1> QED
  BY <1>1, <1>2 DEF FilesOK

\* Writing another file leaves the session alone.
LEMMA PutOther ==
  ASSUME FilesOK, NEW p \in Places, NEW x \in Names, x # "session", NEW v \in Content,
         Put(p, x, v), "session" \in Names
  PROVE  \A q \in Places : files'[q]["session"] = files[q]["session"]
BY PutType

LEMMA Places1 ==
  /\ Target \in Places /\ Sources \subseteq Places
  /\ "session" \in Names /\ "package" \in Names /\ Records \subseteq Names
  /\ Absent \in Content /\ Torn \in Content /\ 0 \in Content
  /\ \A k \in 0..MaxStarts : k \in Content /\ k # Absent /\ k # Torn
  BY DEF Places, Names, Content

LEMMA ResolveType ==
  ASSUME TypeOK
  PROVE  Resolve \in Places
  BY DEF Resolve, TypeOK, Places

LEMMA InitType == Init => TypeOK
<1> SUFFICES ASSUME Init PROVE TypeOK
  OBVIOUS
<1>1. files \in [Places -> [Names -> Content]]
  BY Places1 DEF Init
<1>2. start \in [src : Sources, external : BOOLEAN, names : SUBSET Names]
  BY DEF Init
<1>3. begun \in 0..MaxStarts /\ finished \in 0..begun
  BY DEF Init
<1>4. tool \in [Records -> Places \cup {"new", "done"}]
  BY DEF Init
<1> QED
  BY <1>1, <1>2, <1>3, <1>4 DEF Init, TypeOK

LEMMA NextType ==
  ASSUME TypeOK, [Next]_vars
  PROVE  TypeOK'
<1> USE DEF TypeOK, toolVars
<1>1. CASE Begin
  BY <1>1 DEF Begin
<1>2. CASE Blocked
  BY <1>2 DEF Blocked
<1>3. CASE Stage
  <2>1. FilesOK'
    BY <1>3, PutType, Places1 DEF Stage, FilesOK
  <2> QED
    BY <1>3, <2>1 DEF Stage, FilesOK
<1>4. CASE BuildPackage
  <2>1. FilesOK'
    BY <1>4, PutType, Places1, ResolveType DEF BuildPackage, FilesOK
  <2> QED
    BY <1>4, <2>1 DEF BuildPackage, FilesOK
<1>5. CASE MirrorList
  <2>1. Present(Target) \subseteq Names
    BY DEF Present
  <2>2. start' \in [src : Sources, external : BOOLEAN, names : SUBSET Names]
    BY <1>5, <2>1 DEF MirrorList
  <2> QED
    BY <1>5, <2>1, <2>2 DEF MirrorList
<1>6. ASSUME NEW x \in Names, MirrorCopy(x) PROVE TypeOK'
  <2>1. files[Target][x] \in Content /\ start.src \in Places
    BY Places1
  <2>2. FilesOK'
    BY <1>6, <2>1, PutType DEF MirrorCopy, FilesOK
  <2> QED
    BY <1>6, <2>2 DEF MirrorCopy, FilesOK
<1>7. ASSUME NEW x \in Names, MirrorRemove(x) PROVE TypeOK'
  <2>1. FilesOK'
    BY <1>7, PutType, Places1 DEF MirrorRemove, FilesOK
  <2> QED
    BY <1>7, <2>1 DEF MirrorRemove, FilesOK
<1>8. CASE MirrorDone
  BY <1>8 DEF MirrorDone
<1>9. CASE WritePointer
  BY <1>9 DEF WritePointer
<1>10. ASSUME NEW x \in Names, Delete(x) PROVE TypeOK'
  <2>1. FilesOK'
    BY <1>10, PutType, Places1 DEF Delete, FilesOK
  <2> QED
    BY <1>10, <2>1 DEF Delete, FilesOK
<1>11. CASE DeleteDone
  BY <1>11 DEF DeleteDone
<1>12. CASE Return
  BY <1>12 DEF Return
<1>13. CASE Crash
  <2>1. FilesOK'
    <3>1. CASE UNCHANGED files
      BY <3>1 DEF FilesOK
    <3>2. ASSUME NEW w \in BeingWritten, Put(w[1], w[2], Torn) PROVE FilesOK'
      <4>1. w[1] \in Places /\ w[2] \in Names
        BY Places1, ResolveType DEF BeingWritten
      <4> QED
        BY <3>2, <4>1, PutType, Places1 DEF FilesOK
    <3> QED
      BY <1>13, <3>1, <3>2 DEF Crash
  <2> QED
    BY <1>13, <2>1 DEF Crash, FilesOK
<1>14. ASSUME NEW r \in Records, ToolResolve(r) PROVE TypeOK'
  BY <1>14, ResolveType DEF ToolResolve
<1>15. ASSUME NEW r \in Records, ToolWrite(r) PROVE TypeOK'
  <2>1. FilesOK'
    BY <1>15, PutType, Places1 DEF ToolWrite, FilesOK
  <2>2. settled' \subseteq Records
    BY <1>15 DEF ToolWrite
  <2> QED
    BY <1>15, <2>1, <2>2 DEF ToolWrite, FilesOK
<1>16. CASE UNCHANGED vars
  BY <1>16 DEF vars
<1> QED
  BY <1>1, <1>2, <1>3, <1>4, <1>5, <1>6, <1>7, <1>8, <1>9, <1>10, <1>11, <1>12, <1>13,
     <1>14, <1>15, <1>16 DEF Next

\* The types of the control directories, the pointer and the running start.
THEOREM TypeCorrect == Spec => []TypeOK
<1>1. Init => TypeOK
  BY InitType
<1>2. TypeOK /\ [Next]_vars => TypeOK'
  BY NextType
<1> QED
  BY <1>1, <1>2, PTL DEF Spec

-----------------------------------------------------------------------------
(***************************************************************************)
(* Where the session is while a start runs.                                *)
(***************************************************************************)

\* The start's session is in the target until the pointer is written, and in the
\* controller from the copy on.
SessionInv ==
  /\ pc # "idle" => finished < begun
  /\ pc \in {"build", "list", "mirror", "point"} => files[Target]["session"] = begun
  /\ pc \in {"list", "mirror", "point", "delete"} => start.external
  /\ pc = "mirror" => /\ "session" \in start.names
                      /\ "session" \in todo \/ files[start.src]["session"] = begun
  /\ pc \in {"point", "delete"} => files[start.src]["session"] = begun
  /\ pc = "delete" => pointer = start.src
  /\ (pc = "finish" \/ (pc = "idle" /\ finished = begun /\ begun > 0)) /\ start.external =>
       /\ pointer = start.src /\ files[start.src]["session"] = begun
       /\ files[Target]["session"] = Absent

\* Which steps write the session, and where.
LEMMA SessionSteps ==
  ASSUME TypeOK, [Next]_vars
  PROVE  /\ \A p \in Places : files'[p]["session"] # files[p]["session"] =>
              \/ Stage /\ p = Target
              \/ MirrorCopy("session") /\ p = start.src
              \/ MirrorRemove("session") /\ p = start.src
              \/ Delete("session") /\ p = Target
              \/ Crash
         /\ Stage => files'[Target]["session"] = begun
         /\ MirrorCopy("session") => files'[start.src]["session"] = files[Target]["session"]
         /\ Crash /\ pc \in {"build", "point", "delete", "finish", "list"} =>
              \A p \in Places : files'[p]["session"] = files[p]["session"]
         /\ Crash /\ pc = "mirror" => files'[Target]["session"] = files[Target]["session"]
<1> USE DEF FilesOK
<1>0. FilesOK /\ start.src \in Sources /\ begun \in Content
  BY Places1 DEF TypeOK
<1>1. Stage => files'[Target]["session"] = begun
  BY <1>0, PutType, Places1 DEF Stage
<1>2. MirrorCopy("session") => files'[start.src]["session"] = files[Target]["session"]
  BY <1>0, PutType, Places1 DEF MirrorCopy
<1>3. ASSUME NEW p \in Places, files'[p]["session"] # files[p]["session"]
      PROVE  \/ Stage /\ p = Target
             \/ MirrorCopy("session") /\ p = start.src
             \/ MirrorRemove("session") /\ p = start.src
             \/ Delete("session") /\ p = Target
             \/ Crash
  <2>1. CASE Stage
    BY <1>0, <1>3, <2>1, PutType, Places1 DEF Stage
  <2>2. CASE BuildPackage
    BY <1>0, <1>3, <2>2, PutType, Places1, ResolveType DEF BuildPackage
  <2>3. ASSUME NEW x \in Names, MirrorCopy(x)
        PROVE  MirrorCopy("session") /\ p = start.src
    <3>1. files[Target][x] \in Content
      BY <1>0, Places1
    <3>2. x = "session" /\ p = start.src
      BY <1>0, <1>3, <2>3, <3>1, PutType, Places1 DEF MirrorCopy
    <3> QED BY <2>3, <3>2
  <2>4. ASSUME NEW x \in Names, MirrorRemove(x)
        PROVE  MirrorRemove("session") /\ p = start.src
    <3>1. x = "session" /\ p = start.src
      BY <1>0, <1>3, <2>4, PutType, Places1 DEF MirrorRemove
    <3> QED BY <2>4, <3>1
  <2>5. ASSUME NEW x \in Names, Delete(x)
        PROVE  Delete("session") /\ p = Target
    <3>1. x = "session" /\ p = Target
      BY <1>0, <1>3, <2>5, PutType, Places1 DEF Delete
    <3> QED BY <2>5, <3>1
  <2>6. ASSUME NEW r \in Records, ToolWrite(r) PROVE FALSE
    BY <1>0, <1>3, <2>6, PutType, Places1 DEF ToolWrite
  <2>7. files' # files
    BY <1>3
  <2> QED
    BY <2>1, <2>2, <2>3, <2>4, <2>5, <2>6, <2>7
       DEF Next, vars, Begin, Blocked, MirrorList, MirrorDone, WritePointer, DeleteDone,
           Return, ToolResolve
<1>4. ASSUME Crash, pc \in {"build", "point", "delete", "finish", "list", "mirror"},
             NEW p \in Places, pc # "mirror" \/ p = Target
      PROVE  files'[p]["session"] = files[p]["session"]
  <2>1. CASE UNCHANGED files
    BY <2>1
  <2>2. ASSUME NEW w \in BeingWritten, Put(w[1], w[2], Torn)
        PROVE  files'[p]["session"] = files[p]["session"]
    <3>1. w[1] \in Places /\ w[2] \in Names
      BY Places1, ResolveType DEF BeingWritten, TypeOK
    <3>2. w[1] # p \/ w[2] # "session"
      BY <1>4, <1>0 DEF BeingWritten
    <3> QED
      BY <1>0, <2>2, <3>1, <3>2, PutType, Places1
  <2> QED
    BY <1>4, <2>1, <2>2 DEF Crash
<1> QED
  BY <1>1, <1>2, <1>3, <1>4, Places1

LEMMA InitSession == Init => SessionInv
  BY DEF Init, SessionInv

LEMMA NextSession ==
  ASSUME TypeOK, SessionInv, [Next]_vars
  PROVE  SessionInv'
<1> DEFINE src == start.src
           Same(p) == files'[p]["session"] = files[p]["session"]
<1>0. /\ src \in Sources /\ src \in Places /\ src # Target
      /\ begun \in Nat /\ finished \in Nat /\ finished <= begun
      /\ begun \in Content /\ begun # Absent /\ begun # Torn
  BY Places1 DEF TypeOK
<1>1. CASE Begin
  BY <1>0, <1>1 DEF Begin, SessionInv, toolVars
<1>2. CASE Blocked
  BY <1>0, <1>2 DEF Blocked, SessionInv, toolVars
<1>3. CASE Stage
  BY <1>0, <1>3, SessionSteps DEF Stage, SessionInv, toolVars
<1>4. CASE BuildPackage
  <2>1. Same(Target) /\ pc = "build" /\ pc' \in {"list", "finish"} /\ start' = start
        /\ begun' = begun /\ finished' = finished /\ (pc' = "list" <=> start.external)
    BY <1>0, <1>4, SessionSteps, Places1
       DEF BuildPackage, toolVars, Stage, MirrorCopy, MirrorRemove, Delete, Crash
  <2> QED
    BY <1>0, <2>1 DEF SessionInv
<1>5. CASE MirrorList
  <2>1. "session" \in Present(Target)
    BY <1>0, <1>5, Places1 DEF MirrorList, SessionInv, Present
  <2>2. start' = [start EXCEPT !.names = Present(Target)] /\ todo' = Present(Target)
        /\ pc = "list" /\ pc' = "mirror" /\ UNCHANGED <<files, pointer, begun, finished>>
    BY <1>5 DEF MirrorList, toolVars
  <2>3. start'.names = Present(Target) /\ start'.src = src /\ start'.external = start.external
    BY <2>2 DEF TypeOK
  <2> QED
    BY <1>0, <2>1, <2>2, <2>3 DEF SessionInv
<1>6. ASSUME NEW x \in Names, MirrorCopy(x) PROVE SessionInv'
  <2>1. /\ pc = "mirror" /\ pc' = "mirror" /\ todo' = todo \ {x}
        /\ UNCHANGED <<pointer, start, begun, finished>>
    BY <1>6 DEF MirrorCopy, toolVars
  <2>2. Same(Target)
    BY <1>0, <1>6, SessionSteps, Places1
       DEF MirrorCopy, Stage, MirrorRemove, Delete, Crash
  <2>3. CASE x = "session"
    BY <1>0, <1>6, <2>1, <2>2, <2>3, SessionSteps DEF SessionInv
  <2>4. CASE x # "session"
    <3>1. Same(src)
      <4>1. ~MirrorCopy("session")
        BY <1>6, <2>4 DEF MirrorCopy
      <4> QED
        BY <1>0, <1>6, <4>1, SessionSteps DEF MirrorCopy, Stage, MirrorRemove, Delete, Crash
    <3> QED
      BY <1>0, <2>1, <2>2, <2>4, <3>1 DEF SessionInv
  <2> QED
    BY <2>3, <2>4
<1>7. ASSUME NEW x \in Names, MirrorRemove(x) PROVE SessionInv'
  <2>1. /\ pc = "mirror" /\ pc' = "mirror" /\ x \notin start.names
        /\ UNCHANGED <<pointer, start, todo, begun, finished>>
    BY <1>7 DEF MirrorRemove, toolVars
  <2>2. x # "session"
    BY <2>1 DEF SessionInv
  <2>3. Same(Target) /\ Same(src)
    <3>1. FilesOK /\ Put(src, x, Absent)
      BY <1>7 DEF MirrorRemove, FilesOK, TypeOK
    <3>2. "session" \in Names /\ Target \in Places /\ Absent \in Content
      BY Places1
    <3> HIDE DEF src
    <3>3. \A q \in Places : files'[q]["session"] = files[q]["session"]
      BY <1>0, <2>2, <3>1, <3>2, PutOther
    <3> QED
      BY <1>0, <3>2, <3>3
  <2> QED
    BY <1>0, <2>1, <2>3 DEF SessionInv
<1>8. CASE MirrorDone
  BY <1>0, <1>8 DEF MirrorDone, SessionInv, toolVars
<1>9. CASE WritePointer
  BY <1>0, <1>9 DEF WritePointer, SessionInv, toolVars
<1>10. ASSUME NEW x \in Names, Delete(x) PROVE SessionInv'
  <2>1. pc = "delete" /\ pc' = "delete" /\ UNCHANGED <<pointer, start, todo, begun, finished>>
    BY <1>10 DEF Delete, toolVars
  <2>2. Same(src)
    BY <1>0, <1>10, PutType, Places1 DEF Delete, FilesOK, TypeOK
  <2> QED
    BY <1>0, <2>1, <2>2 DEF SessionInv
<1>11. CASE DeleteDone
  <2>1. files[Target]["session"] = Absent
    BY <1>11, Places1 DEF DeleteDone, Present
  <2> QED
    BY <1>0, <1>11, <2>1 DEF DeleteDone, SessionInv, toolVars
<1>12. CASE Return
  BY <1>0, <1>12 DEF Return, SessionInv, toolVars
<1>13. CASE Crash
  BY <1>0, <1>13 DEF Crash, SessionInv, toolVars
<1>14. ASSUME NEW r \in Records, ToolResolve(r) PROVE SessionInv'
  BY <1>0, <1>14 DEF ToolResolve, SessionInv
<1>15. ASSUME NEW r \in Records, ToolWrite(r) PROVE SessionInv'
  <2>1. Same(Target) /\ Same(src)
    BY <1>0, <1>15, PutType, Places1 DEF ToolWrite, FilesOK, TypeOK
  <2> QED
    BY <1>0, <1>15, <2>1 DEF ToolWrite, SessionInv
<1>16. CASE UNCHANGED vars
  BY <1>16 DEF vars, SessionInv
<1> QED
  BY <1>1, <1>2, <1>3, <1>4, <1>5, <1>6, <1>7, <1>8, <1>9, <1>10, <1>11, <1>12, <1>13,
     <1>14, <1>15, <1>16 DEF Next

\* The inductive invariant of the session.
THEOREM SessionInvariance == Spec => [](TypeOK /\ SessionInv)
<1>1. Init => TypeOK /\ SessionInv
  BY InitType, InitSession
<1>2. (TypeOK /\ SessionInv) /\ [Next]_vars => (TypeOK /\ SessionInv)'
  BY NextType, NextSession
<1> QED
  BY <1>1, <1>2, PTL DEF Spec

\* After an external start returned every reader resolves the session it wrote, and the
\* target holds none (command_start, resolve_hldspec_dir).
THEOREM StartTakesEffect == Spec => []ExternalStartTakesEffect
<1>1. TypeOK /\ SessionInv => ExternalStartTakesEffect
  <2> SUFFICES ASSUME TypeOK, SessionInv, Returned, start.external
               PROVE  files[Resolve]["session"] = begun /\ ~Whole(Target, "session")
    BY DEF ExternalStartTakesEffect
  <2>1. /\ pointer = start.src /\ files[start.src]["session"] = begun
        /\ files[Target]["session"] = Absent
    BY DEF Returned, SessionInv
  <2>2. start.src # Absent
    BY DEF TypeOK, Places
  <2> QED
    BY <2>1, <2>2 DEF Resolve, Whole
<1> QED
  BY <1>1, SessionInvariance, PTL

\* An interruption anywhere but in the staging of the session leaves a whole session in
\* the target or where the pointer leads (externalize: copy, pointer, delete).
THEOREM ControlKept == Spec => InterruptionKeepsControl
<1> DEFINE Keeps == HasControl /\ pc # "stage" => HasControl'
<1>1. ASSUME TypeOK, SessionInv, [Next]_vars PROVE Keeps
  <2> SUFFICES ASSUME HasControl, pc # "stage" PROVE HasControl'
    OBVIOUS
  <2>0. /\ start.src \in Places /\ start.src # Target /\ start.src # Absent
        /\ begun \in Content /\ begun # Absent /\ begun # Torn
        /\ pointer # Absent => pointer \in Places
    BY <1>1, Places1 DEF TypeOK, Places
  <2>1. CASE files'[Target]["session"] = files[Target]["session"]
             /\ (pointer # Absent => files'[pointer]["session"] = files[pointer]["session"])
             /\ pointer' = pointer
    BY <2>1 DEF HasControl, Whole
  <2>2. CASE WritePointer
    <3>1. files[start.src]["session"] = begun /\ pointer' = start.src /\ files' = files
      BY <1>1, <2>2 DEF WritePointer, SessionInv, toolVars
    <3> QED
      BY <2>0, <3>1 DEF HasControl, Whole
  <2>3. CASE pc \in {"mirror", "delete"} /\ pointer' = pointer
    <3>1. CASE pc = "mirror"
      <4>1. files'[Target]["session"] = begun
        BY <1>1, <2>0, <3>1, SessionSteps, Places1 DEF Stage, Delete, SessionInv
      <4> QED
        BY <2>0, <4>1 DEF HasControl, Whole
    <3>2. CASE pc = "delete"
      <4>1. files'[start.src]["session"] = begun /\ pointer' = start.src
        BY <1>1, <2>0, <2>3, <3>2, SessionSteps, Places1
           DEF Stage, MirrorCopy, MirrorRemove, SessionInv
      <4> QED
        BY <2>0, <4>1 DEF HasControl, Whole
    <3> QED
      BY <2>3, <3>1, <3>2
  <2>4. pointer' = pointer \/ WritePointer
    BY <1>1 DEF Next, vars, Begin, Blocked, Stage, BuildPackage, MirrorList, MirrorCopy,
         MirrorRemove, MirrorDone, Delete, DeleteDone, Return, Crash, ToolResolve, ToolWrite
  <2>5. CASE pc \notin {"mirror", "delete"}
    <3>1. pc \in {"idle", "build", "list", "point", "finish"}
      BY <1>1, <2>5 DEF TypeOK
    <3>2. \A p \in Places : files'[p]["session"] = files[p]["session"]
      BY <1>1, <3>1, SessionSteps DEF Stage, MirrorCopy, MirrorRemove, Delete, Crash
    <3> QED
      BY <2>0, <2>1, <2>2, <2>4, <3>2, Places1
  <2> QED
    BY <2>2, <2>3, <2>4, <2>5
<1>2. (TypeOK /\ SessionInv) /\ [Next]_vars => [Keeps]_vars
  BY <1>1
<1>3. Spec => [][Keeps]_vars
  BY <1>2, SessionInvariance, PTL DEF Spec
<1> QED
  BY <1>3 DEF InterruptionKeepsControl

-----------------------------------------------------------------------------
(***************************************************************************)
(* Where the settled records are while a start runs.                       *)
(***************************************************************************)

\* A settled record is not written again; until the first pointer is written, the copy
\* has it, or has it still to do.
RecordInv ==
  /\ \A r \in settled : tool[r] = "done"
  /\ pointer = Absent /\ pc = "mirror" =>
       \A r \in settled : Whole(Target, r) =>
         r \in start.names /\ (r \in todo \/ Whole(start.src, r))
  /\ pointer = Absent /\ pc = "point" =>
       \A r \in settled : Whole(Target, r) => Whole(start.src, r)

\* Which steps change a record that no tool is going to write.
LEMMA RecordSteps ==
  ASSUME TypeOK, [Next]_vars, NEW r \in Records, tool[r] = "done", NEW p \in Places,
         files'[p][r] # files[p][r]
  PROVE  \/ MirrorCopy(r) /\ p = start.src /\ files'[p][r] = files[Target][r]
         \/ MirrorRemove(r) /\ p = start.src
         \/ Delete(r) /\ p = Target
         \/ Crash /\ pc = "mirror" /\ p = start.src
<1>0. FilesOK /\ start.src \in Places /\ r \in Names /\ r # "session" /\ r # "package"
      /\ begun \in Content
  BY Places1 DEF TypeOK, FilesOK
<1>1. CASE Stage
  BY <1>0, <1>1, PutType, Places1 DEF Stage
<1>2. CASE BuildPackage
  BY <1>0, <1>2, PutType, Places1, ResolveType DEF BuildPackage
<1>3. ASSUME NEW x \in Names, MirrorCopy(x)
      PROVE  MirrorCopy(r) /\ p = start.src /\ files'[p][r] = files[Target][r]
  <2>1. files[Target][x] \in Content
    BY <1>0, Places1 DEF FilesOK
  <2>2. x = r /\ p = start.src /\ files'[p][x] = files[Target][x]
    BY <1>0, <1>3, <2>1, PutType DEF MirrorCopy
  <2> QED BY <1>3, <2>2
<1>4. ASSUME NEW x \in Names, MirrorRemove(x) PROVE MirrorRemove(r) /\ p = start.src
  <2>1. x = r /\ p = start.src
    BY <1>0, <1>4, PutType, Places1 DEF MirrorRemove
  <2> QED BY <1>4, <2>1
<1>5. ASSUME NEW x \in Names, Delete(x) PROVE Delete(r) /\ p = Target
  <2>1. x = r /\ p = Target
    BY <1>0, <1>5, PutType, Places1 DEF Delete
  <2> QED BY <1>5, <2>1
<1>6. ASSUME NEW t \in Records, ToolWrite(t) PROVE FALSE
  <2>1. t # r
    BY <1>6 DEF ToolWrite
  <2> QED
    BY <1>0, <1>6, <2>1, PutType, Places1 DEF ToolWrite
<1>7. CASE Crash
  <2>1. PICK w \in BeingWritten : Put(w[1], w[2], Torn)
    BY <1>7 DEF Crash
  <2>2. w[1] \in Places /\ w[2] \in Names
    BY Places1, ResolveType DEF BeingWritten, TypeOK
  <2>3. w[1] = p /\ w[2] = r
    BY <1>0, <2>1, <2>2, PutType, Places1
  <2>4. pc = "mirror" /\ p = start.src
    BY <1>0, <2>3 DEF BeingWritten
  <2> QED
    BY <1>7, <2>4
<1> QED
  BY <1>1, <1>2, <1>3, <1>4, <1>5, <1>6, <1>7
     DEF Next, vars, Begin, Blocked, MirrorList, MirrorDone, WritePointer, DeleteDone,
         Return, ToolResolve

LEMMA NextRecord ==
  ASSUME TypeOK, SessionInv, RecordInv, [Next]_vars
  PROVE  RecordInv'
<1>0. /\ start.src \in Places /\ start.src # Target /\ Target \in Places
      /\ settled \subseteq Records /\ Records \subseteq Names
  BY Places1 DEF TypeOK
<1>1. \A r \in settled' : tool'[r] = "done"
  <2>1. ASSUME NEW r \in Records, ToolWrite(r) PROVE \A x \in settled' : tool'[x] = "done"
    BY <2>1 DEF ToolWrite, RecordInv, TypeOK
  <2>2. ASSUME NEW r \in Records, ToolResolve(r) PROVE \A x \in settled' : tool'[x] = "done"
    BY <2>2 DEF ToolResolve, RecordInv, TypeOK
  <2>3. CASE UNCHANGED toolVars
    BY <2>3 DEF toolVars, RecordInv
  <2> QED
    BY <2>1, <2>2, <2>3
       DEF Next, vars, toolVars, Begin, Blocked, Stage, BuildPackage, MirrorList, MirrorCopy,
           MirrorRemove, MirrorDone, WritePointer, Delete, DeleteDone, Return, Crash
<1>2. pc' \in {"mirror", "point"} => settled' = settled
  BY DEF Next, vars, toolVars, Begin, Blocked, Stage, BuildPackage, MirrorList, MirrorCopy,
         MirrorRemove, MirrorDone, WritePointer, Delete, DeleteDone, Return, Crash,
         ToolResolve, ToolWrite
<1>3. CASE pc' \notin {"mirror", "point"}
  BY <1>1, <1>3 DEF RecordInv
<1>4. CASE pc' = "mirror" /\ pointer' = Absent
  <2>1. CASE MirrorList
    <3>1. start' = [start EXCEPT !.names = Present(Target)] /\ todo' = Present(Target)
          /\ files' = files
      BY <2>1 DEF MirrorList
    <3>2. start'.names = Present(Target)
      BY <3>1 DEF TypeOK
    <3>3. \A r \in settled : Whole(Target, r)' => r \in Present(Target)
      BY <1>0, <3>1 DEF Whole, Present
    <3> QED
      BY <1>1, <1>2, <1>4, <3>1, <3>2, <3>3 DEF RecordInv
  <2>2. CASE ~MirrorList
    <3>1. pc = "mirror" /\ pointer = Absent /\ start' = start
      BY <1>4, <2>2 DEF Next, vars, Begin, Blocked, Stage, BuildPackage, MirrorCopy,
           MirrorRemove, MirrorDone, WritePointer, Delete, DeleteDone, Return, Crash,
           ToolResolve, ToolWrite
    <3>2. ASSUME NEW r \in settled, Whole(Target, r)'
          PROVE  r \in start.names /\ (r \in todo' \/ Whole(start.src, r)')
      <4>1. tool[r] = "done" /\ r \in Records
        BY <1>0 DEF RecordInv
      <4>2. files'[Target][r] = files[Target][r]
        BY <1>0, <3>1, <4>1, RecordSteps DEF Delete
      <4>3. r \in start.names /\ (r \in todo \/ Whole(start.src, r))
        BY <3>1, <3>2, <4>2 DEF RecordInv, Whole
      <4>4. CASE MirrorCopy(r)
        <5>1. files[Target][r] \in Content /\ FilesOK /\ r \in Names
          BY <1>0, <4>1 DEF TypeOK, FilesOK
        <5>2. files'[start.src][r] = files[Target][r]
          BY <1>0, <4>4, <5>1, PutType DEF MirrorCopy
        <5> QED
          BY <3>1, <3>2, <4>2, <4>3, <5>2 DEF Whole
      <4>5. CASE ~MirrorCopy(r)
        <5>1. files'[start.src][r] = files[start.src][r]
          BY <1>0, <1>4, <3>1, <4>1, <4>3, <4>5, RecordSteps DEF MirrorRemove, Delete, Crash
        <5>2. r \in todo => r \in todo'
          <6>1. ASSUME NEW x \in Names, MirrorCopy(x), r \in todo PROVE r \in todo'
            <7>1. x # r
              BY <4>5, <6>1
            <7> QED BY <6>1, <7>1 DEF MirrorCopy
          <6> QED
            BY <1>4, <2>2, <6>1 DEF Next, vars, Begin, Blocked, Stage, BuildPackage,
                 MirrorRemove, MirrorDone, WritePointer, Delete, DeleteDone, Return, Crash,
                 ToolResolve, ToolWrite
        <5> QED
          BY <3>1, <4>3, <5>1, <5>2 DEF Whole
      <4> QED
        BY <4>4, <4>5
    <3> QED
      BY <1>1, <1>2, <1>4, <3>1, <3>2 DEF RecordInv
  <2> QED
    BY <2>1, <2>2
<1>5. CASE pc' = "point" /\ pointer' = Absent
  <2>1. CASE MirrorDone
    <3>1. /\ pc = "mirror" /\ pointer = Absent /\ todo = {}
          /\ files' = files /\ start' = start
      BY <1>5, <2>1 DEF MirrorDone
    <3> QED
      BY <1>1, <1>2, <1>5, <3>1 DEF RecordInv, Whole
  <2>2. CASE ~MirrorDone
    <3>1. pc = "point" /\ pointer = Absent /\ start' = start
      BY <1>5, <2>2 DEF Next, vars, Begin, Blocked, Stage, BuildPackage, MirrorList,
           MirrorCopy, MirrorRemove, WritePointer, Delete, DeleteDone, Return, Crash,
           ToolResolve, ToolWrite
    <3>2. \A r \in settled, p \in Places : files'[p][r] = files[p][r]
      BY <1>0, <3>1, RecordSteps DEF RecordInv, MirrorCopy, MirrorRemove, Delete
    <3> QED
      BY <1>0, <1>1, <1>2, <1>5, <3>1, <3>2 DEF RecordInv, Whole
  <2> QED
    BY <2>1, <2>2
<1>6. CASE pointer' # Absent
  BY <1>1, <1>6 DEF RecordInv
<1> QED
  BY <1>3, <1>4, <1>5, <1>6

\* The inductive invariant of the records.
THEOREM RecordInvariance == Spec => [](TypeOK /\ SessionInv /\ RecordInv)
<1>1. Init => TypeOK /\ SessionInv /\ RecordInv
  BY InitType, InitSession DEF Init, RecordInv
<1>2. (TypeOK /\ SessionInv /\ RecordInv) /\ [Next]_vars => (TypeOK /\ SessionInv /\ RecordInv)'
  BY NextType, NextSession, NextRecord
<1> QED
  BY <1>1, <1>2, PTL DEF Spec

\* Until the target has a pointer, and in the step that gives it one, no settled record
\* is taken away from the readers (copy_target_control_artifacts before write_pointer
\* before delete_target_control_artifacts).
THEOREM RecordsKept == Spec => FirstMoveKeepsRecords
<1> DEFINE Keeps == pointer = Absent =>
             \A r \in settled : Whole(Resolve, r) => Whole(Resolve, r)'
<1>1. ASSUME TypeOK, SessionInv, RecordInv, [Next]_vars PROVE Keeps
  <2> SUFFICES ASSUME pointer = Absent, NEW r \in settled, Whole(Target, r)
               PROVE  Whole(Resolve, r)'
    BY DEF Resolve
  <2>0. /\ start.src \in Places /\ start.src # Target /\ start.src # Absent
        /\ Target \in Places /\ r \in Records /\ tool[r] = "done"
    BY <1>1, Places1 DEF TypeOK, RecordInv, Places
  <2>1. CASE WritePointer
    <3>1. Whole(start.src, r) /\ pointer' = start.src /\ files' = files
      BY <1>1, <2>1 DEF WritePointer, RecordInv
    <3> QED
      BY <2>0, <3>1 DEF Resolve, Whole
  <2>2. CASE ~WritePointer
    <3>1. pointer' = pointer
      BY <1>1, <2>2 DEF Next, vars, Begin, Blocked, Stage, BuildPackage, MirrorList,
           MirrorCopy, MirrorRemove, MirrorDone, Delete, DeleteDone, Return, Crash,
           ToolResolve, ToolWrite
    <3>2. ~Delete(r)
      BY <1>1, <2>0 DEF Delete, SessionInv
    <3>3. files'[Target][r] = files[Target][r]
      BY <1>1, <2>0, <3>2, RecordSteps
    <3> QED
      BY <3>1, <3>3 DEF Resolve, Whole
  <2> QED
    BY <2>1, <2>2
<1>2. (TypeOK /\ SessionInv /\ RecordInv) /\ [Next]_vars => [Keeps]_vars
  BY <1>1
<1>3. Spec => [][Keeps]_vars
  BY <1>2, RecordInvariance, PTL DEF Spec
<1> QED
  BY <1>3 DEF FirstMoveKeepsRecords
=============================================================================
