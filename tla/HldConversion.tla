---------------------------- MODULE HldConversion ----------------------------
(***************************************************************************)
(* How a raw HLD gets its section anchors: the format report of            *)
(* hld_spec_sync.py finds the candidate sections, the conversion plan asks *)
(* about the large ones, people answer the decision queue, and the answers *)
(* are applied to the text by line number.  hld_map.py then reads the      *)
(* sections back.  A text is its lines; what a line says besides its       *)
(* structure, roles and risks are left out.                                *)
(***************************************************************************)
EXTENDS Naturals, Sequences, FiniteSets, FiniteSetsExt

CONSTANT Large  \* LARGE_SECTION_LINES

ASSUME LargeAssumption == Large \in Nat \ {0}

\* A heading has its level, an anchor ("## HLD-003 - Title") and its HLD-ID line their number.
Line == [kind : {"heading"}, n : 1..6] \cup [kind : {"anchor", "id"}, n : Nat]
          \cup [kind : {"text", "fence"}, n : {0}]

-----------------------------------------------------------------------------
(***************************************************************************)
(* Reading a text.                                                         *)
(***************************************************************************)
\* iter_code_fence_mask
Masked(t, i) ==
  t[i].kind = "fence" \/ Cardinality({j \in 1..(i - 1) : t[j].kind = "fence"}) % 2 = 1

Level(line) == IF line.kind = "anchor" THEN 2 ELSE line.n

\* With the headings in code blocks.
AllHeadings(t) == {i \in DOMAIN t : t[i].kind \in {"heading", "anchor"}}

Headings(t) == {i \in AllHeadings(t) : ~Masked(t, i)}
Existing(t) == {i \in Headings(t) : t[i].kind = "anchor"}

\* existing_hldspec_section_count: the scripts go on to the map.
Ready(t) == Existing(t) # {}

\* _is_converted_hld of both conversion machines searches the text, code blocks and all.
Converted(t) == \E i \in DOMAIN t : t[i].kind = "anchor"

\* What apply_hld_conversion_decisions.py refuses to work on.
AlreadyMarked(t) == \E i \in DOMAIN t : t[i].kind \in {"anchor", "id"}

\* Where the section that starts at i ends, when those of S start.
EndIn(S, i, t) == Min({j - 1 : j \in {k \in S : k > i}} \cup {Len(t)})

\* parse_hld_text: the HLD-ID lines of a section.
IdLines(t, i) == {j \in i..EndIn(Existing(t), i, t) : t[j].kind = "id" /\ ~Masked(t, j)}

\* validate_hld_map has no errors: numbers are unique and declared once.
MapValid(t) ==
  /\ \A i, j \in Existing(t) : t[i].n = t[j].n => i = j
  /\ \A i \in Existing(t) :
       LET ids == IdLines(t, i) IN \E j \in ids : ids = {j} /\ t[j].n = t[i].n

-----------------------------------------------------------------------------
(***************************************************************************)
(* The conversion plan.                                                    *)
(***************************************************************************)
\* Sections of the first two levels, without the document's title.
Major(t) ==
  LET H == Headings(t)
  IN  {i \in H : Level(t[i]) <= 2 /\ ~(Level(t[i]) = 1 /\ i = Min(H) /\ Cardinality(H) > 1)}

\* build_hld_format_report: an HLD that has some anchors keeps to them.
Candidates(t) ==
  IF Existing(t) # {} THEN Existing(t)
  ELSE IF Major(t) # {} THEN Major(t)
  ELSE {i \in Headings(t) : Level(t[i]) <= 3}

\* The place of i among those of S.
Rank(S, i) == Cardinality({j \in S : j <= i})

\* internal_headings_for and split_boundary_headings: those of the highest level inside.
Internal(t, i, end) == {j \in Headings(t) : i < j /\ j <= end /\ Level(t[j]) > Level(t[i])}
Boundaries(t, i, end) ==
  LET inner == Internal(t, i, end)
  IN  {j \in inner : \A h \in inner : Level(t[j]) <= Level(t[h])}

Spans == Nat \X Nat

\* proposed_split_plan; a section is its first and its last line.
Splits(B, end) == {<<i, Min({j - 1 : j \in {k \in B : k > i}} \cup {end})>> : i \in B}

\* recommended_action
Actions == {"PROCEED_METADATA_ONLY", "STOP_SPLIT_DECISION_REQUIRED", "PROCEED_SINGLE_SECTION_REVIEW"}
Action(count, boundaries) ==
  IF count < Large THEN "PROCEED_METADATA_ONLY"
  ELSE IF boundaries >= 2 THEN "STOP_SPLIT_DECISION_REQUIRED" ELSE "PROCEED_SINGLE_SECTION_REVIEW"

\* build_plan: what is planned for the candidate that starts at each line.
Plan(t) ==
  LET C == Candidates(t) IN
    [i \in C |->
      LET end == EndIn(C, i, t)
          B == Boundaries(t, i, end)
      IN  [id |-> IF t[i].kind = "anchor" THEN t[i].n ELSE Rank(C, i), end |-> end,
           action |-> Action(end - i + 1, Cardinality(B)), splits |-> Splits(B, end)]]

-----------------------------------------------------------------------------
(***************************************************************************)
(* The decision queue: a question for each large candidate, by its id.     *)
(***************************************************************************)
\* VALID_DECISIONS; MODIFY_SPLIT is also said SPLIT, and KEEP_AS_ONE comes with its reason.
Decisions == {"SPLIT_AS_PROPOSED", "MODIFY_SPLIT", "KEEP_AS_ONE"}

Questioned(plan) == {i \in DOMAIN plan : plan[i].action # "PROCEED_METADATA_ONLY"}
Unanswered == [decision |-> "TBD", splits |-> {}]

\* What a plan and a queue with its answers are.
Plans == UNION {[S -> [id : Nat, end : Nat, action : Actions, splits : SUBSET Spans]] : S \in SUBSET Nat}
Answers == [decision : Decisions \cup {"TBD"}, splits : SUBSET Spans]
Queues == UNION {[of : Seq(Line), plan : Plans, answers : [S -> Answers], proposed : [S -> SUBSET Spans]]
                   : S \in SUBSET Nat}

\* build_queue for the plan of t; a question carries the splits proposed for its candidate.
Queue(t, plan) ==
  LET asked == {plan[i].id : i \in Questioned(plan)}
  IN  [of |-> t, plan |-> plan, answers |-> [q \in asked |-> Unanswered],
       proposed |-> [q \in asked |-> UNION {plan[i].splits : i \in {j \in DOMAIN plan : plan[j].id = q}}]]

\* has_tbd: every question blocks.
Open(queue) == \E q \in DOMAIN queue.answers : queue.answers[q].decision = "TBD"

\* validate_queue refuses it.
Invalid(queue) ==
  \E q \in DOMAIN queue.answers :
    LET a == queue.answers[q]
    IN  \/ a.decision = "TBD"
        \/ a.decision = "MODIFY_SPLIT" /\ a.splits = {}

-----------------------------------------------------------------------------
(***************************************************************************)
(* Applying the decisions.                                                 *)
(***************************************************************************)
\* split_plan_to_sections: the first one starts where its parent does.
FromParent(splits, start) ==
  LET first == Min({s[1] : s \in splits})
  IN  {IF s[1] = first /\ first > start THEN <<start, s[2]>> ELSE s : s \in splits}

\* What becomes of the candidate c that starts at i; nothing where the script raises.
SectionsOf(queue, c, i) ==
  IF c.id \notin DOMAIN queue.answers \/ queue.answers[c.id].decision = "KEEP_AS_ONE"
  THEN {<<i, c.end>>}
  ELSE FromParent(IF queue.answers[c.id].decision = "SPLIT_AS_PROPOSED"
                  THEN queue.proposed[c.id] ELSE queue.answers[c.id].splits, i)

\* build_conversion_sections; the plan is the one the queue names, maybe of another text.
Sections(queue, plan) == UNION {SectionsOf(queue, plan[i], i) : i \in DOMAIN plan}

\* No split where one is to be, an inverted one, or sections that overlap.
Raises(queue, plan) ==
  \/ \E i \in DOMAIN plan : SectionsOf(queue, plan[i], i) = {}
  \/ \E r, s \in Sections(queue, plan) :
       s[2] < s[1] \/ (r # s /\ r[1] <= s[1] /\ s[1] <= r[2])

\* metadata_block of the k-th section, renumbered.
Block(k) == <<[kind |-> "anchor", n |-> k], [kind |-> "id", n |-> k]>>

\* apply_conversion: by line number, whatever the line is now.
Anchor(t, sections) ==
  LET starts == {s[1] : s \in sections}
      upTo[i \in 0..Len(t)] ==
        IF i = 0 THEN <<>>
        ELSE upTo[i - 1] \o (IF i \in starts THEN Block(Rank(starts, i)) ELSE <<>>) \o <<t[i]>>
  IN  upTo[Len(t)]
=============================================================================
