------------------------------ MODULE NextFeature ------------------------------
(***************************************************************************)
(* The ritual of the next feature in a target: the run card of              *)
(* hldspec/next_feature_readiness.py, which reads the branch, the spec      *)
(* directory, the recorded evidence and the state of git one after the      *)
(* other and offers one next step, and the people who take it.  The driver  *)
(* writes nothing it reads again; SpecKit, git and the evidence file are in *)
(* other hands.                                                             *)
(***************************************************************************)
EXTENDS Naturals, FiniteSets

CONSTANTS
  Features,   \* names of feature branches, which are those of directories under specs/
  Base,       \* the base branch
  Drafts,     \* texts SpecKit may come up with
  None,
  MaxUpsets   \* bound: things that go wrong or that people do on their own

ASSUME FeaturesAssumption == Base \notin Features /\ None \notin Features \cup {Base}
ASSUME DraftsAssumption == Drafts # {}
ASSUME UpsetsAssumption == MaxUpsets \in Nat

Branches == Features \cup {Base}
Artifacts == {"spec", "plan", "tasks", "analysis"}
Product == <<Base, "product">>
Paths == (Features \X Artifacts) \cup {Product}

\* Statuses of the evidence file, "none" for one that is missing or not accepted.
Statuses == {"ANALYZE_COMPLETED", "TESTS_PASSED", "IMPLEMENTED_COMMITTED", "PUSHED"}

VARIABLES
  head,       \* the branch that is checked out
  work,       \* the files of the working tree, None for one that is not there
  tree,       \* branch -> the files of its last commit
  history,    \* branch -> its commits, numbered as they are made, {} for no such branch
  tip,        \* branch -> its last commit
  commits,    \* how many there are besides the first one
  holds,      \* commit -> the product in it
  setup,      \* how far the target is set up
  mirror,     \* whether .specify/source/ is what the source package says
  evidence,   \* next_feature_execution_evidence.json
  tested,     \* products that passed their tests
  pushed,     \* branches that were pushed, with their last commits then
  merged,     \* features in the base branch
  version,    \* how often the product was changed
  pc, seen,   \* what the driver reads next, and what it has read
  card,       \* the last run card, None when it was acted on
  calm,       \* nobody has interfered since the driver began to read
  upsets

repo == <<head, work, tree, history, tip, commits, holds>>
facts == <<tested, pushed, merged, version>>
driver == <<pc, seen, calm>>
vars == <<repo, setup, mirror, evidence, facts, driver, card, upsets>>

Init ==
  /\ head = Base
  /\ work = [p \in Paths |-> None]
  /\ tree = [b \in Branches |-> [p \in Paths |-> None]]
  /\ history = [b \in Branches |-> IF b = Base THEN {0} ELSE {}]
  /\ tip = [b \in Branches |-> 0] /\ commits = 0 /\ holds = [c \in {0} |-> None]
  /\ setup = "bare" /\ mirror = "stale" /\ evidence = None
  /\ tested = {} /\ pushed = {} /\ merged = {} /\ version = 0
  /\ pc = "idle" /\ seen = None /\ card = None /\ calm = TRUE /\ upsets = 0

Dirty == work # tree[head]
Started == {f \in Features : history[f] # {}}

-----------------------------------------------------------------------------
(***************************************************************************)
(* The driver.                                                             *)
(***************************************************************************)
HasDirectory(f) == \E a \in Artifacts : work[f, a] # None

\* _find_stale_artifact with files compared by name only.
SameName(f) ==
  \E a \in {"plan", "tasks"}, g \in Features \ {f} : work[f, a] # None /\ work[g, a] # None

\* _find_stale_artifact.
Copied(f) ==
  \E a \in {"plan", "tasks"}, g \in Features \ {f} : work[f, a] # None /\ work[g, a] = work[f, a]

\* build_speckit_branch_gate_report.
Gate ==
  IF head = Base THEN "unbound"
  ELSE IF ~HasDirectory(head) /\ (\E g \in Features : HasDirectory(g)) THEN "mismatch"
  ELSE IF work[head, "spec"] = None THEN "unbound"
  ELSE IF Copied(head) THEN "stale"
  ELSE "bound"

ReadGate ==
  /\ pc = "idle"
  /\ pc' = "ritual"
  /\ seen' = [branch |-> head, gate |-> Gate, status |-> "none",
              plan  |-> head # Base /\ work[head, "plan"] # None,
              tasks |-> head # Base /\ work[head, "tasks"] # None]
  /\ card' = None
  /\ UNCHANGED <<repo, setup, mirror, evidence, facts, calm, upsets>>

\* What the target lacks before there is a spec to work on.
SetupPhase ==
  IF setup = "bare" THEN "NEEDS_SPECKIT_INIT"
  ELSE IF setup = "initialized" THEN "NEEDS_CONSTITUTION"
  ELSE IF seen.gate \in {"mismatch", "stale"} THEN "BRANCH_BINDING_BLOCKED"
  ELSE IF seen.gate = "unbound"
    THEN IF mirror = "stale" THEN "SOURCE_MIRROR_STALE" ELSE "READY_FOR_SPECKIT_SPECIFY"
  ELSE "none"

\* SpecKit's phases: plan and tasks as the gate saw them, the spec as it is now.
SpecPhase ==
  IF work[seen.branch, "spec"] = "unclear" THEN "NEEDS_CLARIFY_OR_CHECKLIST"
  ELSE IF ~seen.plan THEN "READY_FOR_PLAN"
  ELSE IF ~seen.tasks THEN "READY_FOR_TASKS"
  ELSE "none"

Reports(phase) ==
  /\ card' = [phase |-> phase, branch |-> seen.branch]
  /\ pc' = "idle" /\ seen' = None /\ calm' = TRUE

ReadRitual ==
  /\ pc = "ritual"
  /\ IF SetupPhase # "none" THEN Reports(SetupPhase)
     ELSE IF SpecPhase # "none" THEN Reports(SpecPhase)
     ELSE pc' = "evidence" /\ UNCHANGED <<seen, calm, card>>
  /\ UNCHANGED <<repo, setup, mirror, evidence, facts, upsets>>

\* _read_execution_evidence without the question whether the commit is still there.
NamesTheBranch == evidence # None /\ evidence.branch = seen.branch

\* _read_execution_evidence.  The spec directory has the name of the branch.
Accepted ==
  /\ evidence # None /\ evidence.branch = seen.branch
  /\ evidence.commit \in history[head]

ReadEvidence ==
  /\ pc = "evidence"
  /\ IF work[seen.branch, "analysis"] = None /\ ~Accepted
     THEN Reports("READY_FOR_ANALYZE")
     ELSE /\ pc' = "git" /\ UNCHANGED <<calm, card>>
          /\ seen' = IF Accepted
                     THEN [seen EXCEPT !.status = evidence.status]
                     ELSE seen
  /\ UNCHANGED <<repo, setup, mirror, evidence, facts, upsets>>

\* The phase artifacts are among the product's dirty files, so that the case of nothing
\* else being dirty does not come up.
GitPhase ==
  IF Dirty
  THEN IF seen.status = "TESTS_PASSED" THEN "READY_FOR_COMMIT"
       ELSE "IMPLEMENTATION_REVIEW_REQUIRED"
  ELSE IF seen.status = "PUSHED" THEN "MERGE_BLOCKED_PENDING_CI_OR_APPROVAL"
  ELSE IF seen.status = "IMPLEMENTED_COMMITTED" THEN "READY_FOR_PUSH_OR_PR"
  ELSE "READY_FOR_IMPLEMENT"

ReadGit ==
  /\ pc = "git"
  /\ Reports(GitPhase)
  /\ UNCHANGED <<repo, setup, mirror, evidence, facts, upsets>>

Drives == ReadGate \/ ReadRitual \/ ReadEvidence \/ ReadGit

-----------------------------------------------------------------------------
(***************************************************************************)
(* Taking the step a card offers.  People look at the branch it names, at  *)
(* nothing else.                                                           *)
(***************************************************************************)
Takes(phase) ==
  /\ card # None /\ card.phase = phase /\ card.branch = head
  /\ card' = None
  /\ UNCHANGED <<driver, upsets>>

\* A file of the checked-out feature.
Writes(a, text) == work' = [work EXCEPT ![<<head, a>>] = text]

\* A text no directory has, the same where it may be: which one it is does not matter.
Fresh(a) == {d \in {head} \X Drafts : \A g \in Features : work[g, a] # d}
WritesNew(a) == Fresh(a) # {} /\ Writes(a, CHOOSE d \in Fresh(a) : TRUE)

\* SpecKit's init, and then the constitution by refresh-target.
Prepare ==
  /\ \/ Takes("NEEDS_SPECKIT_INIT") /\ setup' = "initialized"
     \/ Takes("NEEDS_CONSTITUTION") /\ setup' = "ready"
  /\ UNCHANGED <<repo, mirror, evidence, facts>>

Rematerialise ==
  /\ Takes("SOURCE_MIRROR_STALE")
  /\ mirror' = "fresh"
  /\ UNCHANGED <<repo, setup, evidence, facts>>

\* Which of the unused names SpecKit takes makes no difference.
NewName == {f \in Features : Started # Features /\ f = CHOOSE g \in Features \ Started : TRUE}

\* SpecKit makes a branch of its own on the base branch.
SpecifyNew ==
  /\ head = Base /\ Takes("READY_FOR_SPECKIT_SPECIFY")
  /\ \E f \in NewName, s \in {"unclear", "clear"} :
       /\ head' = f
       /\ work' = [work EXCEPT ![<<f, "spec">>] = s]
       /\ tree' = [tree EXCEPT ![f] = tree[Base]]
       /\ history' = [history EXCEPT ![f] = history[Base]]
       /\ tip' = [tip EXCEPT ![f] = tip[Base]]
  /\ UNCHANGED <<commits, holds, setup, mirror, evidence, facts>>

\* On a feature branch it writes the spec, where the gate found none.
SpecifyHere ==
  /\ head # Base
  /\ Takes("READY_FOR_SPECKIT_SPECIFY") \/ (Takes("BRANCH_BINDING_BLOCKED") /\ Gate # "stale")
  /\ \E s \in {"unclear", "clear"} : Writes("spec", s)
  /\ UNCHANGED <<head, tree, history, tip, commits, holds, setup, mirror, evidence, facts>>

\* Copied files are written anew.
Regenerate ==
  /\ Takes("BRANCH_BINDING_BLOCKED") /\ Gate = "stale"
  /\ \E a \in {"plan", "tasks"}, g \in Features \ {head} :
       work[head, a] # None /\ work[g, a] = work[head, a] /\ WritesNew(a)
  /\ UNCHANGED <<head, tree, history, tip, commits, holds, setup, mirror, evidence, facts>>

\* clarify or checklist, plan and tasks.
Elaborate ==
  /\ \/ Takes("NEEDS_CLARIFY_OR_CHECKLIST") /\ Writes("spec", "clear")
     \/ Takes("READY_FOR_PLAN") /\ WritesNew("plan")
     \/ Takes("READY_FOR_TASKS") /\ WritesNew("tasks")
  /\ UNCHANGED <<head, tree, history, tip, commits, holds, setup, mirror, evidence, facts>>

\* The evidence that people and CI write names the branch and its last commit, not what
\* was tested.
Records(status) == evidence' = [status |-> status, branch |-> head, commit |-> tip[head]]

\* A report in the spec directory, or a record of it.
Analyze ==
  /\ Takes("READY_FOR_ANALYZE")
  /\ \/ Writes("analysis", "done") /\ UNCHANGED evidence
     \/ Records("ANALYZE_COMPLETED") /\ UNCHANGED work
  /\ UNCHANGED <<head, tree, history, tip, commits, holds, setup, mirror, facts>>

Changes == /\ work' = [work EXCEPT ![Product] = <<head, version + 1>>]
           /\ version' = version + 1

Implemented == work[Product] # None /\ work[Product][1] = head

\* SpecKit implements the open tasks; the second time there are none.
Implement ==
  /\ Takes("READY_FOR_IMPLEMENT")
  /\ IF Implemented THEN UNCHANGED <<work, version>> ELSE Changes
  /\ UNCHANGED <<head, tree, history, tip, commits, holds, setup, mirror, evidence, tested, pushed, merged>>

\* The review of what is not committed: its tests pass.
Review ==
  /\ Takes("IMPLEMENTATION_REVIEW_REQUIRED")
  /\ tested' = tested \cup {work[Product]}
  /\ Records("TESTS_PASSED")
  /\ UNCHANGED <<repo, setup, mirror, pushed, merged, version>>

\* The files become the last commit of a branch that otherwise has the commits.
Commits(b, files, others) ==
  /\ commits' = commits + 1
  /\ tree' = [tree EXCEPT ![b] = files]
  /\ history' = [history EXCEPT ![b] = others \cup {commits + 1}]
  /\ tip' = [tip EXCEPT ![b] = commits + 1]
  /\ holds' = [c \in 0 .. commits + 1 |-> IF c <= commits THEN holds[c] ELSE files[Product]]

Commit ==
  /\ Takes("READY_FOR_COMMIT")
  /\ Commits(head, work, history[head])
  /\ UNCHANGED <<head, work, setup, mirror, evidence, facts>>

Push ==
  /\ Takes("READY_FOR_PUSH_OR_PR")
  /\ pushed' = pushed \cup {<<head, tip[head]>>}
  /\ Records("PUSHED")
  /\ UNCHANGED <<repo, setup, mirror, tested, merged, version>>

\* The pull request is merged, and the base branch pulled and checked out.
Merge ==
  /\ ~Dirty
  /\ Takes("MERGE_BLOCKED_PENDING_CI_OR_APPROVAL")
  /\ LET result == [p \in Paths |-> IF tree[head][p] # None THEN tree[head][p] ELSE tree[Base][p]]
     IN work' = result /\ Commits(Base, result, history[Base] \cup history[head])
  /\ head' = Base /\ merged' = merged \cup {head}
  /\ UNCHANGED <<setup, mirror, evidence, tested, pushed, version>>

Follows ==
  \/ Prepare \/ Rematerialise \/ SpecifyNew \/ SpecifyHere \/ Regenerate \/ Elaborate
  \/ Analyze \/ Implement \/ Review \/ Commit \/ Push \/ Merge

-----------------------------------------------------------------------------
(***************************************************************************)
(* What goes on besides.                                                   *)
(***************************************************************************)
Aside == UNCHANGED <<setup, mirror, pc, seen, card>>

\* git checkout keeps what is not committed, and refuses where the branches differ in it.
CanSwitch(b) ==
  /\ b # head /\ history[b] # {}
  /\ \A p \in Paths : work[p] # tree[head][p] => tree[head][p] = tree[b][p]
Switches(b) ==
  /\ CanSwitch(b)
  /\ head' = b
  /\ work' = [p \in Paths |-> IF work[p] # tree[head][p] THEN work[p] ELSE tree[b][p]]
  /\ UNCHANGED <<tree, history, tip, commits, holds>>

\* On the base branch somebody remembers a feature that is not finished.
Return ==
  /\ head = Base
  /\ \E f \in Started \ merged : Switches(f)
  /\ calm' = (pc = "idle")
  /\ Aside /\ UNCHANGED <<evidence, facts, upsets>>

\* CI tests what is committed, and somebody records that it is, which no card asks for.
RecordCommit ==
  /\ ~Dirty /\ Implemented
  /\ ~(/\ evidence # None /\ evidence.branch = head /\ evidence.commit \in history[head]
       /\ evidence.status \in {"IMPLEMENTED_COMMITTED", "PUSHED"})
  /\ tested' = tested \cup {work[Product]}
  /\ Records("IMPLEMENTED_COMMITTED")
  /\ Aside /\ UNCHANGED <<repo, pushed, merged, version, calm, upsets>>

Upsets == upsets < MaxUpsets /\ upsets' = upsets + 1 /\ calm' = (pc = "idle")

Leave ==
  /\ Upsets
  /\ \E b \in Branches : Switches(b)
  /\ Aside /\ UNCHANGED <<evidence, facts>>

\* The product is changed, by a failed test or on a whim.
Rework ==
  /\ Upsets /\ head # Base
  /\ Changes
  /\ Aside /\ UNCHANGED <<head, tree, history, tip, commits, holds, evidence, tested, pushed, merged>>

\* The last commit is replaced by one of what is there.
Amend ==
  /\ Upsets /\ head # Base /\ tip[head] # 0
  /\ Commits(head, work, history[head] \ {tip[head]})
  /\ Aside /\ UNCHANGED <<head, work, evidence, facts>>

\* Another feature's plan or tasks, or a spec with a question.
EditArtifact ==
  /\ Upsets /\ head # Base
  /\ \/ \E a \in {"plan", "tasks"}, g \in Features \ {head} :
          tree[g][g, a] # None /\ Writes(a, tree[g][g, a])
     \/ work[head, "spec"] = "clear" /\ Writes("spec", "unclear")
  /\ Aside /\ UNCHANGED <<head, tree, history, tip, commits, holds, evidence, facts>>

\* The evidence file becomes unreadable, or the source package is built again.
LoseEvidence ==
  /\ Upsets /\ evidence # None /\ evidence' = None
  /\ Aside /\ UNCHANGED <<repo, facts>>

RebuildPackage ==
  /\ Upsets /\ mirror = "fresh" /\ mirror' = "stale"
  /\ UNCHANGED <<repo, setup, evidence, facts, pc, seen, card>>

\* SpecKit dies after it has made the branch.
SpecifyDies ==
  /\ Upsets /\ head = Base
  /\ card # None /\ card.phase = "READY_FOR_SPECKIT_SPECIFY" /\ card' = None
  /\ \E f \in NewName :
       /\ head' = f
       /\ tree' = [tree EXCEPT ![f] = tree[Base]]
       /\ history' = [history EXCEPT ![f] = history[Base]]
       /\ tip' = [tip EXCEPT ![f] = tip[Base]]
  /\ UNCHANGED <<work, commits, holds, setup, mirror, evidence, facts, pc, seen>>

Interferes ==
  \/ Leave \/ Rework \/ Amend \/ EditArtifact \/ LoseEvidence \/ RebuildPackage \/ SpecifyDies

Next == Drives \/ Follows \/ Return \/ RecordCommit \/ Interferes

Spec == Init /\ [][Next]_vars

FairSpec ==
  Spec /\ WF_vars(Drives) /\ SF_vars(Follows) /\ WF_vars(Return) /\ WF_vars(RecordCommit)

-----------------------------------------------------------------------------
\* The types.  A card or a reading beyond the setup is of a feature's branch.
Texts == {None, "unclear", "clear", "done"} \cup (Features \X Drafts) \cup (Features \X Nat)
Files == [Paths -> Texts]
SetupPhases == {"NEEDS_SPECKIT_INIT", "NEEDS_CONSTITUTION", "SOURCE_MIRROR_STALE",
                "READY_FOR_SPECKIT_SPECIFY"}
Phases == SetupPhases \cup {"BRANCH_BINDING_BLOCKED", "NEEDS_CLARIFY_OR_CHECKLIST",
  "READY_FOR_PLAN", "READY_FOR_TASKS", "READY_FOR_ANALYZE", "READY_FOR_IMPLEMENT",
  "IMPLEMENTATION_REVIEW_REQUIRED", "READY_FOR_COMMIT", "READY_FOR_PUSH_OR_PR",
  "MERGE_BLOCKED_PENDING_CI_OR_APPROVAL"}

RepoOK ==
  /\ head \in Branches /\ work \in Files /\ tree \in [Branches -> Files]
  /\ commits \in Nat /\ history \in [Branches -> SUBSET (0 .. commits)]
  /\ tip \in [Branches -> 0 .. commits] /\ holds \in [0 .. commits -> Texts]

FactsOK ==
  /\ setup \in {"bare", "initialized", "ready"} /\ mirror \in {"stale", "fresh"}
  /\ evidence \in {None} \cup [status : Statuses, branch : Branches, commit : 0 .. commits]
  /\ tested \subseteq Texts /\ pushed \subseteq Branches \X (0 .. commits)
  /\ merged \subseteq Features /\ version \in Nat

DriverOK ==
  /\ calm \in BOOLEAN /\ upsets \in Nat
  /\ pc \in {"idle", "ritual", "evidence", "git"}
  /\ pc # "idle" =>
       /\ seen \in [branch : Branches, gate : {"unbound", "mismatch", "stale", "bound"},
                     status : Statuses \cup {"none"}, plan : BOOLEAN, tasks : BOOLEAN]
       /\ seen.branch = Base => pc = "ritual" /\ seen.gate = "unbound"
  /\ card \in {None} \cup [phase : Phases, branch : Branches]
  /\ card # None /\ card.branch = Base => card.phase \in SetupPhases

TypeOK == RepoOK /\ FactsOK /\ DriverOK

\* What a card says about push and merge is so for the feature of its branch, unless
\* somebody interfered while it was made: a push is offered of a branch with a tested
\* product of its own in it, a merge of one whose pushed commit is still part of it.
OffersAreEarned ==
  [][pc = "git" /\ pc' = "idle" /\ calm =>
       /\ card'.phase = "READY_FOR_PUSH_OR_PR" =>
            \E c \in history[head] :
              holds[c] \in tested /\ holds[c] # None /\ holds[c][1] = card'.branch
       /\ card'.phase = "MERGE_BLOCKED_PENDING_CI_OR_APPROVAL" =>
            \E c \in history[head] : <<card'.branch, c>> \in pushed]_vars

\* Whoever does what the cards say gets every feature into the base branch, whatever was
\* copied, amended, lost or left in between.
FeaturesGetMerged == <>(merged = Features)
=============================================================================
