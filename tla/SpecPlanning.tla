----------------------------- MODULE SpecPlanning -----------------------------
(***************************************************************************)
(* project_continue.sh from a converted HLD to the approval of the SpecKit *)
(* prework.  The first run parses the HLD's map, plans specs, reviews the  *)
(* plan and queues questions about doubtful specs; later runs apply the    *)
(* answers (a spec is split by responsibility) and rebuild what is made    *)
(* from the plan: the review, the questions, the SpecKit queue and its     *)
(* bundles.  Each script writes a file; a run may die while it does.       *)
(***************************************************************************)
EXTENDS Integers, FiniteSets, SequencesExt, Functions

CONSTANTS
  Hlds,        \* the HLDs the runs may be given
  Theme,       \* Theme[r]: what the titles of a role or of a responsibility are about
  DefaultMax, HardMax,  \* DEFAULT_MAX_BUNDLE_SIZE, HARD_MAX_BUNDLE_SIZE
  NoFile, Torn,
  MaxUpsets    \* bound: runs that die, answers other than a split

ASSUME PlanBoundsAssumption == {DefaultMax, HardMax, MaxUpsets} \subseteq Nat

-----------------------------------------------------------------------------
(***************************************************************************)
(* Tables.  An HLD is a sequence of sections; a section names its specs    *)
(* (none: TBD), has a role, may say it is context, shows responsibilities  *)
(* beside its role's and refers to sections by DEPENDS or BLOCKED_BY, REF  *)
(* and CONFLICTS_WITH.                                                     *)
(***************************************************************************)
Layer == [governance |-> 0, purpose |-> 0, data |-> 2, api |-> 3, processing |-> 4,
          operations |-> 5, testing |-> 6, feature |-> 7]
Group == [governance |-> "governance", purpose |-> "governance", data |-> "data_state",
          api |-> "api_contract", processing |-> "processing", operations |-> "operations",
          testing |-> "testing"]

\* The responsibilities a spec may be split into, each child's layer and the children it
\* depends on.
ResponsibilityOrder == <<"data_state", "processing", "api_contract", "operations", "testing">>
Kinds == {"whole"} \cup Range(ResponsibilityOrder)
ChildLayer == [data_state |-> "data", processing |-> "processing", api_contract |-> "api",
               operations |-> "operations", testing |-> "testing"]
DependsOnExtra == [data_state |-> {}, processing |-> {"data_state"},
                   api_contract |-> {"data_state", "processing"},
                   operations |-> {"processing", "api_contract"},
                   testing |-> {"api_contract", "processing"}]

\* A section has a role, names finitely many specs and needs sections of the same HLD.
ASSUME HldsAssumption ==
  \A h \in Hlds :
    /\ h \in Seq(Range(h))
    /\ \A s \in DOMAIN h :
         /\ h[s].role \in DOMAIN Layer
         /\ h[s].specs \subseteq Nat /\ IsFiniteSet(h[s].specs)
         /\ h[s].needs \subseteq DOMAIN h

\* The members of S in the order that R, a set of pairs, puts them in.
Sorted(S, R) ==
  [i \in 1..Cardinality(S) |->
    CHOOSE x \in S : Cardinality({y \in S : <<y, x>> \in R}) = i - 1]

-----------------------------------------------------------------------------
(***************************************************************************)
(* hld_map.py: a cycle of required references is an error.  detect_cycles  *)
(* calls itself; here its stack is the path from 0, which stands for the   *)
(* loop over the sections, and every call or return is a step.             *)
(***************************************************************************)
Needs(h, s) == IF s = 0 THEN DOMAIN h ELSE h[s].needs

\* A section counts as visited as soon as it is entered.
VisitOnce(st, s) ==
  IF s \in st.visited THEN st
  ELSE [st EXCEPT !.found = @ \/ s \in Range(st.path), !.path = Append(@, s),
                  !.visited = @ \cup {s}]

\* A section met again on the path makes a cycle.
Visit(st, s) ==
  IF s \in Range(st.path) THEN [st EXCEPT !.found = TRUE]
  ELSE IF s \in st.visited THEN st
  ELSE [st EXCEPT !.path = Append(@, s)]

\* The last section on the path looks at the next one it needs, or is left.
Look(h, st) ==
  IF st.path = <<>> THEN st
  ELSE LET here == Last(st.path)
           left == {s \in Needs(h, here) : <<here, s>> \notin st.looked}
       IN IF left = {} THEN [st EXCEPT !.path = Front(@), !.visited = @ \cup {here}]
          ELSE Visit([st EXCEPT !.looked = @ \cup {<<here, Min(left)>>}], Min(left))

\* Each step looks along another reference or leaves another section.
HasCycle(h) ==
  LET size == Len(h) + 1
      after[k \in 0..(size * size)] ==
        IF k = 0 THEN [path |-> <<0>>, looked |-> {}, visited |-> {}, found |-> FALSE]
        ELSE Look(h, after[k - 1])
  IN after[size * size].found

-----------------------------------------------------------------------------
(***************************************************************************)
(* classify_hld_sections.py, build_spec_build_plan and apply_plan_quality. *)
(***************************************************************************)
\* A section is a candidate for a spec unless its role is governance, or its title or text
\* makes it governance, context or an overview; one that names its specs always is.
Candidate(sec) == sec.specs # {} \/ (sec.role # "governance" /\ ~sec.context)
Candidates(h) == {s \in DOMAIN h : Candidate(h[s])}

FirstFree(used) == CHOOSE n \in 1..(Cardinality(used) + 1) :
                     n \notin used /\ \A m \in 1..(n - 1) : m \in used

\* The specs of each section: those it names, or for a candidate its own number if no
\* section before it has taken that, or the first free number.  The others are recorded in
\* the plan as context, and no spec is made from them.
SpecsOf(h) ==
  LET of[s \in 1..Len(h)] ==
        LET used == UNION {of[r] : r \in 1..(s - 1)}
        IN IF h[s].specs # {} \/ s \notin Candidates(h) THEN h[s].specs
           ELSE IF s \notin used THEN {s} ELSE {FirstFree(used)}
  IN of

RefTargets(sec) == sec.needs \cup sec.refs \cup sec.conflicts
Responsibilities(sec) ==
  sec.extra \cup (IF sec.role \in DOMAIN Group THEN {Group[sec.role]} ELSE {})

Mix(h, src) == UNION {Responsibilities(h[s]) : s \in src}

\* The reasons to split a spec, and those only to review it.
HighFlags(h, src) ==
     {"mixed_layers" : x \in {s \in src : \E t \in src : Layer[h[s].role] # Layer[h[t].role]}}
  \cup (IF Cardinality(Mix(h, src)) >= 3 THEN {"mixed_responsibilities"} ELSE {})
  \cup {"boundary" : p \in {p \in {{"api_contract", "processing"}, {"data_state", "api_contract"},
                                   {"operations", "processing"}} : p \subseteq Mix(h, src)}}
  \cup {"conflict_refs_present" : s \in {s \in src : h[s].conflicts # {}}}
Flags(h, src) ==
  HighFlags(h, src) \cup
  {"mixed_hld_roles" : s \in {s \in src : \E t \in src : h[s].role # h[t].role}}

Quality(specs) ==
  LET all == Range(specs) IN
  IF \E s \in all : "conflict_refs_present" \in s.flags THEN "CONFLICT"
  ELSE IF \E s \in all : s.high THEN "DECOMPOSE"
  ELSE IF \E s \in all : s.flags # {} THEN "FIX" ELSE "PASS"

\* An id is the number of a spec and the responsibility it was split for, or "whole".
\* The specs are listed by layer, then number: whatever depends on what.
PlanOf(h) ==
  LET of == SpecsOf(h)
      Src(n) == {s \in DOMAIN h : n \in of[s]}
      nums == UNION Range(of)
      spec(n) ==
        LET src == Src(n)
            lead == CHOOSE s \in src : \A t \in src : s <= t
        IN [src |-> src, layer |-> h[lead].role, theme |-> Theme[h[lead].role],
            mix |-> Mix(h, src), flags |-> Flags(h, src), high |-> HighFlags(h, src) # {},
            deps |-> {<<m, "whole">> : m \in UNION {of[r] : r \in UNION {RefTargets(h[s]) : s \in src}}}
                     \ {<<n, "whole">>}]
      ids == {<<n, "whole">> : n \in nums}
      specs == [id \in ids |-> spec(id[1])]
      Before(a, b) == LET la == Layer[specs[a].layer]  lb == Layer[specs[b].layer]
                      IN la < lb \/ (la = lb /\ a[1] < b[1])
      order == Sorted(ids, {p \in ids \X ids : Before(p[1], p[2])})
  IN [specs |-> specs, order |-> order, quality |-> Quality(specs)]

-----------------------------------------------------------------------------
(***************************************************************************)
(* apply_spec_build_plan_decisions.py.                                     *)
(***************************************************************************)
\* Those of a table that the spec mixes, in its order, or data and API.
Listed(table, mix) ==
  LET Earlier == UNION {{<<table[i], table[j]>> : i \in 1..(j - 1)} : j \in DOMAIN table}
      parts == Sorted(mix \cap Range(table), Earlier)
  IN IF Len(parts) < 2 THEN <<"data_state", "api_contract">> ELSE parts

\* The children in the order of the table of their layers.
PartsByLayer(mix) ==
  Listed(<<"data_state", "api_contract", "processing", "operations", "testing">>, mix)

\* responsibility_ids.
Parts(mix) == Listed(ResponsibilityOrder, mix)

Children(id, spec) == [i \in DOMAIN Parts(spec.mix) |-> <<id[1], Parts(spec.mix)[i]>>]

\* recompute_plan_quality: the conflicts are not looked for again.
QualityAgain(specs) ==
  LET all == Range(specs) IN
  IF \E s \in all : s.high THEN "DECOMPOSE"
  ELSE IF \E s \in all : s.flags # {} THEN "FIX" ELSE "PASS"

\* split_parent_spec: the specs that take a spec's place.
Becomes(plan, ids, id) ==
  IF id \in ids \cap DOMAIN plan.specs THEN Children(id, plan.specs[id]) ELSE <<id>>

\* What is planned under an id after the split: as before, or a child of the spec that had
\* its place.
Planned(plan, ids, id) ==
  LET parent == <<id[1], "whole">>
      own == {<<id[1], r>> : r \in DependsOnExtra[id[2]]} \cap Range(Becomes(plan, ids, parent))
  IN IF id \in DOMAIN plan.specs THEN plan.specs[id]
     ELSE [plan.specs[parent] EXCEPT
             !.layer = ChildLayer[id[2]], !.theme = Theme[id[2]], !.mix = {id[2]},
             !.flags = {}, !.high = FALSE, !.deps = @ \cup own]

\* apply_decisions: the children take the parent's place in the order, and what depended on
\* the parent depends on each of them.
Split(plan, ids) ==
  LET order == FlattenSeq([i \in DOMAIN plan.order |-> Becomes(plan, ids, plan.order[i])])
      specs == [id \in Range(order) |->
                 [Planned(plan, ids, id) EXCEPT
                    !.deps = (UNION {Range(Becomes(plan, ids, d)) : d \in @}) \ {id}]]
  IN [specs |-> specs, order |-> order, quality |-> QualityAgain(specs)]

-----------------------------------------------------------------------------
(***************************************************************************)
(* What is made from the plan.                                             *)
(***************************************************************************)
\* review_spec_build_plan.py: whether it says to continue.
Review(plan) == plan.quality = "PASS" /\ \A s \in Range(plan.specs) : s.flags = {}

\* build_spec_plan_decision_queue.py: a question for every flagged spec.
Answers == {"TBD", "SPLIT_PLANNED_SPEC", "KEEP_AS_ONE_WITH_REASON"}
Queue == [questions : SUBSET [id : Nat \X Kinds, answer : Answers]]
Asked(id) == [id |-> id, answer |-> "TBD"]
Questions(plan) ==
  [questions |-> {Asked(id) : id \in {i \in DOMAIN plan.specs : plan.specs[i].flags # {}}}]

\* A file that is missing or torn does not have contents.
ASSUME FilesAssumption == NoFile \notin Queue \cup {Torn, TRUE} /\ Torn \notin Queue

\* build_speckit_prework_plan.py: the plan's order.
Prework(plan) == [i \in DOMAIN plan.order |->
                   [id |-> plan.order[i], deps |-> plan.specs[plan.order[i]].deps]]

\* seam_score, with the theme of the titles; no contracts and no data objects.
SeamScore(plan, l, r) ==
    (IF plan.specs[l.id].layer # plan.specs[r.id].layer THEN 3 ELSE 0)
  + (IF plan.specs[l.id].theme # plan.specs[r.id].theme THEN 2 ELSE 0)
  + (IF r.deps # {} /\ l.id \notin r.deps THEN 1 ELSE 0)

Cuts(score, size) ==
  \/ size >= HardMax \/ score >= 5 \/ (score >= 3 /\ size >= 2)
  \/ (size >= DefaultMax /\ score >= 2)

\* An item goes to the last of the groups or starts one.
Grouped(plan, groups, item) ==
  IF groups = <<>> THEN <<<<item>>>>
  ELSE LET cur == Last(groups)
       IN IF Cuts(SeamScore(plan, Last(cur), item), Len(cur)) THEN Append(groups, <<item>>)
          ELSE Append(Front(groups), Append(cur, item))

\* A bundle is its ids and what they depend on outside it.
IdsOf(items) == [i \in DOMAIN items |-> items[i].id]
Bundle(items) ==
  [ids |-> IdsOf(items),
   deps |-> (UNION {items[i].deps : i \in DOMAIN items}) \ Range(IdsOf(items))]

\* plan_bundles_from_items.
Bundles(plan, items) ==
  LET grouped[n \in 0..Len(items)] ==
        IF n = 0 THEN <<>> ELSE Grouped(plan, grouped[n - 1], items[n])
      groups == grouped[Len(items)]
  IN [i \in DOMAIN groups |-> Bundle(groups[i])]

\* The order of the ids alone.
ValidatesOrder(bundles, items) ==
  FlattenSeq([i \in DOMAIN bundles |-> bundles[i].ids]) = IdsOf(items)

\* validate_bundle_queue: the order is the queue's, the size is kept and no bundle depends
\* on a later one.
Validates(bundles, items) ==
  LET UpTo(k) == UNION {Range(bundles[i].ids) : i \in 1..k}
  IN /\ FlattenSeq([i \in DOMAIN bundles |-> bundles[i].ids]) = IdsOf(items)
     /\ \A k \in DOMAIN bundles :
          /\ Len(bundles[k].ids) <= HardMax
          /\ bundles[k].deps \cap Range(IdsOf(items)) \subseteq UpTo(k)

\* build_speckit_prework_quality_review.py, of the plan: there is a feature, and one that
\* depends on none.
PreworkReady(items) == \E i \in DOMAIN items : items[i].deps = {}

-----------------------------------------------------------------------------
VARIABLES
  hld,
  files,    \* what the scripts wrote: Torn when a run died writing it
  pc,       \* the script the run is at, or "idle"
  told,     \* what the last run ended with
  upsets

planVars == <<hld, files, pc, told, upsets>>

Scripts == {"idle", "map", "plan", "apply", "applied", "review", "queue", "prework", "bundles",
            "quality", "validate", "report"}
NoFiles == [plan |-> NoFile, review |-> NoFile, queue |-> NoFile, applied |-> NoFile,
            prework |-> NoFile, bundles |-> NoFile, quality |-> NoFile]

PlanInit == hld \in Hlds /\ files = NoFiles /\ pc = "idle" /\ told = "nothing" /\ upsets = 0

Upset == upsets < MaxUpsets /\ upsets' = upsets + 1

Answered == {q.id : q \in {q \in files.queue.questions : q.answer = "SPLIT_PLANNED_SPEC"}}
Open == \E q \in files.queue.questions : q.answer = "TBD"

\* The script writes its file and the next one begins.
Writes(script, file, value, next) ==
  /\ pc = script
  /\ files' = [files EXCEPT ![file] = value]
  /\ pc' = next
  /\ UNCHANGED <<hld, told, upsets>>

RunEnds(outcome) == pc' = "idle" /\ told' = outcome

\* Without the rebuilding when there was nothing to apply.
StartWhenOpen ==
  /\ pc = "idle"
  /\ IF files.review = NoFile THEN files' = NoFiles /\ pc' = "map" /\ told' = "nothing"
     ELSE /\ UNCHANGED files
          /\ IF files.queue = Torn THEN RunEnds("broken")
             ELSE /\ told' = "nothing"
                  /\ pc' = IF files.queue = NoFile \/ Open \/ Answered = {} THEN "report" ELSE "apply"
  /\ UNCHANGED <<hld, upsets>>

\* Without a review the first run starts over; with questions that are all answered the
\* answers are applied.
StartRun ==
  /\ pc = "idle"
  /\ IF files.review = NoFile THEN files' = NoFiles /\ pc' = "map" /\ told' = "nothing"
     ELSE /\ UNCHANGED files
          /\ IF files.queue = Torn THEN RunEnds("broken")
             ELSE /\ told' = "nothing"
                  /\ pc' = IF files.queue = NoFile \/ Open THEN "report" ELSE "apply"
  /\ UNCHANGED <<hld, upsets>>

MakeMap ==
  /\ pc = "map"
  /\ IF HasCycle(hld) THEN RunEnds("invalid") ELSE pc' = "plan" /\ UNCHANGED told
  /\ UNCHANGED <<hld, files, upsets>>

MakePlan == Writes("plan", "plan", PlanOf(hld), "review")

\* apply_decisions: an answer other than a split changes nothing, and the answers of a
\* queue are applied once.
ApplyAnswers ==
  /\ pc = "apply"
  /\ IF Answered = {} THEN
       files' = [files EXCEPT !.applied = NoFile] /\ pc' = "review" /\ UNCHANGED told
     ELSE /\ IF files.applied = Torn \/ (files.applied # files.queue /\ files.plan = Torn)
             THEN RunEnds("broken") /\ UNCHANGED files
             ELSE IF files.applied = files.queue THEN pc' = "review" /\ UNCHANGED <<files, told>>
             ELSE /\ files' = [files EXCEPT !.plan = Split(@, Answered)]
                  /\ pc' = "applied" /\ UNCHANGED told
  /\ UNCHANGED <<hld, upsets>>

RecordApplied == Writes("applied", "applied", files.queue, "review")

MakeReview ==
  IF files.plan = Torn THEN pc = "review" /\ RunEnds("broken") /\ UNCHANGED <<hld, files, upsets>>
  ELSE Writes("review", "review", Review(files.plan), "queue")
MakeQueue == Writes("queue", "queue", Questions(files.plan), "prework")
MakePrework == Writes("prework", "prework", Prework(files.plan), "bundles")
MakeBundles == Writes("bundles", "bundles", Bundles(files.plan, files.prework), "quality")

\* What the review finds in the texts may block as well: the use-case map or the first
\* feature without anything to build, an answer dossier that requires rework, numbers of
\* specs the project already has.
MakeQuality ==
  \E textsFit \in BOOLEAN :
    Writes("quality", "quality", textsFit /\ PreworkReady(files.prework), "validate")

\* A finding ends the run.
ValidateBundles ==
  /\ pc = "validate"
  /\ IF Validates(files.bundles, files.prework) THEN pc' = "report" /\ UNCHANGED told
     ELSE RunEnds("rejected")
  /\ UNCHANGED <<hld, files, upsets>>

\* plan_gate_status, as the review and the plan have it.
Green == files.review = TRUE /\ files.plan \notin {NoFile, Torn} /\ Review(files.plan)

\* report_spec_gate.
Report ==
  /\ pc = "report"
  /\ RunEnds(IF files.plan = Torn \/ (Green /\ files.quality = Torn) THEN "broken"
          ELSE IF ~Green THEN "checkpoint"
          ELSE IF files.quality = TRUE THEN "approval" ELSE "rework")
  /\ UNCHANGED <<hld, files, upsets>>

Run == \/ MakeMap \/ MakePlan \/ ApplyAnswers \/ RecordApplied \/ MakeReview \/ MakeQueue
       \/ MakePrework \/ MakeBundles \/ MakeQuality \/ ValidateBundles \/ Report

Writing == [plan |-> "plan", apply |-> "plan", applied |-> "applied", review |-> "review",
            queue |-> "queue", prework |-> "prework", bundles |-> "bundles", quality |-> "quality"]

\* The run dies: between two scripts, or with a file half written.
Die ==
  /\ pc # "idle" /\ Upset
  /\ \/ UNCHANGED files
     \/ /\ pc \in DOMAIN Writing
        /\ pc = "apply" => Answered # {} /\ files.applied \notin {files.queue, Torn}
        /\ files' = [files EXCEPT ![Writing[pc]] = Torn]
  /\ RunEnds("nothing") /\ UNCHANGED hld

\* A person answers a question.
Answer(id, a) ==
  /\ files.queue \notin {NoFile, Torn} /\ Asked(id) \in files.queue.questions
  /\ files' = [files EXCEPT !.queue.questions = (@ \ {Asked(id)}) \cup {[id |-> id, answer |-> a]}]
  /\ IF a = "SPLIT_PLANNED_SPEC" THEN UNCHANGED upsets ELSE Upset
  /\ UNCHANGED <<hld, pc, told>>

Ids == (1..4) \X Kinds

PlanNext == StartRun \/ Run \/ Die \/ \E id \in Ids, a \in Answers \ {"TBD"} : Answer(id, a)

PlanSpec == PlanInit /\ [][PlanNext]_planVars

\* The run gets to another script.
GoesOn == pc # "idle" /\ pc' \in Scripts \ {pc}

\* A run goes on, is started again, and people who are asked end up accepting the splits.
FairPlan == /\ PlanSpec /\ WF_pc(GoesOn) /\ WF_planVars(StartRun)
            /\ WF_planVars(\E id \in Ids : Answer(id, "SPLIT_PLANNED_SPEC"))

-----------------------------------------------------------------------------
\* Specs are planned from an HLD whose required references have no cycle, and no other is
\* refused: what the depth-first search says is so.
Cyclic(h) == \E S \in SUBSET DOMAIN h : S # {} /\ \A s \in S : h[s].needs \cap S # {}
CyclesStopPlanning == (files.plan # NoFile => ~Cyclic(hld)) /\ (told = "invalid" => Cyclic(hld))

\* Splitting specs never puts a spec before one it depends on, if none was before.
PlaceOf(plan, id) == CHOOSE i \in DOMAIN plan.order : plan.order[i] = id
InOrder(plan) ==
  \A id \in DOMAIN plan.specs : \A d \in plan.specs[id].deps :
    d \in DOMAIN plan.specs /\ PlaceOf(plan, d) < PlaceOf(plan, id)
SplitKeepsOrder ==
  [][({files.plan, files'.plan} \cap {NoFile, Torn} = {} /\ InOrder(files.plan))
       => InOrder(files'.plan)]_planVars

\* What a run puts up for approval is made from the plan as it is, whatever died before;
\* the sections in it are those that name specs or are candidates for one, and no context
\* of the HLD; and no spec is in a bundle before the bundle of one it depends on.  (Inside a
\* bundle the order is another matter.)
ApprovalFits ==
  told = "approval" =>
    /\ files.prework = Prework(files.plan)
    /\ UNION {s.src : s \in Range(files.plan.specs)} = Candidates(hld)
    /\ \A i, j \in DOMAIN files.bundles :
         i < j => \A id \in Range(files.bundles[i].ids) :
                    files.plan.specs[id].deps \cap Range(files.bundles[j].ids) = {}

\* People who accept the splits they are asked about get a plan that is green, unless the
\* HLD is invalid or a run died and left what no later run replaces: a torn file that is
\* only read, or a review without questions.
Stuck == files.review # NoFile /\
         (Torn \in {files.plan, files.queue, files.applied} \/ files.queue = NoFile)
PlanTurnsGreen == <>[](Green \/ Stuck \/ Cyclic(hld))
=============================================================================
