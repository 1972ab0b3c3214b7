-------------------------- MODULE NextFeatureProofs --------------------------
(***************************************************************************)
(* Theorems about the ritual of the next feature, for any features, texts  *)
(* and number of things that go wrong.                                     *)
(***************************************************************************)
EXTENDS NextFeature, TLAPS

USE FeaturesAssumption

-----------------------------------------------------------------------------
(***************************************************************************)
(* Type correctness.                                                       *)
(***************************************************************************)

\* Writing a file of the feature's directory.
LEMMA WritingTypes ==
  ASSUME work \in Files, head \in Features, NEW a \in Artifacts, NEW text \in Texts,
         Writes(a, text)
  PROVE  work' \in Files
BY DEF Files, Writes, Paths

\* A file written anew has one of the texts.
LEMMA WritingNewTypes ==
  ASSUME work \in Files, head \in Features, NEW a \in Artifacts, WritesNew(a)
  PROVE  work' \in Files
<1>1. (CHOOSE d \in Fresh(a) : TRUE) \in Fresh(a)
  BY DEF WritesNew
<1>2. Fresh(a) \subseteq Texts
  BY DEF Fresh, Texts
<1>3. Writes(a, CHOOSE d \in Fresh(a) : TRUE)
  BY DEF WritesNew
<1> QED
  BY <1>1, <1>2, <1>3, WritingTypes

\* A change of the product.
LEMMA ChangingTypes ==
  ASSUME work \in Files, version \in Nat, head \in Features, Changes
  PROVE  work' \in Files /\ version' \in Nat
<1>1. <<head, version + 1>> \in Texts
  BY DEF Texts
<1> QED
  BY <1>1 DEF Changes, Files, Paths

\* A commit keeps the types of the branches and what was of the old commits.
LEMMA CommittingTypes ==
  ASSUME RepoOK, FactsOK, NEW b \in Branches, NEW files \in Files,
         NEW others \in SUBSET (0 .. commits), Commits(b, files, others)
  PROVE  /\ commits' = commits + 1 /\ commits' \in Nat /\ 0 .. commits \subseteq 0 .. commits'
         /\ tree' \in [Branches -> Files]
         /\ history' \in [Branches -> SUBSET (0 .. commits')]
         /\ tip' \in [Branches -> 0 .. commits'] /\ holds' \in [0 .. commits' -> Texts]
         /\ \A c \in 0 .. commits : holds'[c] = holds[c]
         /\ holds'[commits + 1] = files[Product]
<1>1. /\ commits' = commits + 1 /\ commits' \in Nat /\ 0 .. commits \subseteq 0 .. commits'
      /\ commits + 1 \in 0 .. commits'
  BY DEF RepoOK, Commits
<1>2. files[Product] \in Texts
  BY DEF Files, Paths
<1>3. /\ tree' \in [Branches -> Files] /\ history' \in [Branches -> SUBSET (0 .. commits')]
      /\ tip' \in [Branches -> 0 .. commits']
  BY <1>1 DEF RepoOK, Commits
<1>4. holds' = [c \in 0 .. commits + 1 |-> IF c <= commits THEN holds[c] ELSE files[Product]]
  BY DEF Commits
<1>5. \A c \in 0 .. commits + 1 : c <= commits => c \in 0 .. commits
  BY DEF RepoOK
<1>6. holds' \in [0 .. commits' -> Texts]
  BY <1>1, <1>2, <1>4, <1>5 DEF RepoOK
<1>7. \A c \in 0 .. commits : holds'[c] = holds[c]
  BY <1>1, <1>4 DEF RepoOK
<1>8. holds'[commits + 1] = files[Product]
  BY <1>1, <1>4 DEF RepoOK
<1> QED
  BY <1>1, <1>3, <1>6, <1>7, <1>8

\* Evidence and pushes are of commits that stay commits.
LEMMA RecordedTypes ==
  ASSUME FactsOK, 0 .. commits \subseteq 0 .. commits'
  PROVE  /\ evidence \in {None} \cup [status : Statuses, branch : Branches, commit : 0 .. commits']
         /\ pushed \subseteq Branches \X (0 .. commits')
BY DEF FactsOK

\* Recording evidence.
LEMMA RecordingTypes ==
  ASSUME RepoOK, NEW s \in Statuses, Records(s)
  PROVE  evidence' \in {None} \cup [status : Statuses, branch : Branches, commit : 0 .. commits]
BY DEF Records, RepoOK

\* Switching branches.
LEMMA SwitchingTypes ==
  ASSUME RepoOK, NEW b \in Branches, Switches(b)
  PROVE  RepoOK'
<1>1. work' \in Files
  BY DEF Switches, RepoOK, Files
<1> QED
  BY <1>1 DEF Switches, RepoOK

\* A card is followed on the branch it names, which is a feature's beyond the setup.
LEMMA TakingTypes ==
  ASSUME TypeOK, NEW phase \in Phases, Takes(phase)
  PROVE  /\ DriverOK' /\ upsets' = upsets
         /\ phase \notin SetupPhases => head \in Features
<1>1. card # None /\ card.branch = head /\ card.phase = phase
  BY DEF Takes
<1>2. phase \notin SetupPhases => head \in Features
  BY <1>1 DEF TypeOK, RepoOK, DriverOK, Branches
<1> QED
  BY <1>2 DEF TypeOK, DriverOK, Takes, driver

\* A report of a phase, which is beyond the setup for a feature only.
LEMMA ReportingTypes ==
  ASSUME DriverOK, pc # "idle", NEW phase \in Phases, Reports(phase),
         seen.branch = Base => phase \in SetupPhases, upsets' = upsets
  PROVE  DriverOK'
BY DEF DriverOK, Reports

\* The steps of the driver keep the types.
LEMMA DriverTypes ==
  ASSUME TypeOK, Drives
  PROVE  TypeOK'
<1>1. RepoOK' /\ FactsOK'
  BY DEF Drives, ReadGate, ReadRitual, ReadEvidence, ReadGit, TypeOK, RepoOK, FactsOK, repo, facts
<1> SUFFICES DriverOK'
  BY <1>1 DEF TypeOK
<1>2. CASE ReadGate
  <2>1. Gate \in {"unbound", "mismatch", "stale", "bound"} /\ (head = Base => Gate = "unbound")
    BY DEF Gate
  <2> DEFINE plan == head # Base /\ work[head, "plan"] # None
             tasks == head # Base /\ work[head, "tasks"] # None
             gate == Gate
  <2>2. plan \in BOOLEAN /\ tasks \in BOOLEAN
    OBVIOUS
  <2>3. seen' = [branch |-> head, gate |-> gate, status |-> "none", plan |-> plan, tasks |-> tasks]
    BY <1>2 DEF ReadGate
  <2>4. gate \in {"unbound", "mismatch", "stale", "bound"} /\ (head = Base => gate = "unbound")
    BY <2>1
  <2> HIDE DEF plan, tasks, gate
  <2>5. /\ seen' \in [branch : Branches, gate : {"unbound", "mismatch", "stale", "bound"},
                      status : Statuses \cup {"none"}, plan : BOOLEAN, tasks : BOOLEAN]
        /\ seen'.branch = Base => seen'.gate = "unbound"
    BY <2>2, <2>3, <2>4 DEF TypeOK, RepoOK
  <2>6. pc' = "ritual" /\ card' = None /\ calm' = calm /\ upsets' = upsets
    BY <1>2 DEF ReadGate
  <2> QED
    BY <2>5, <2>6 DEF TypeOK, DriverOK
<1>3. CASE ReadRitual
  <2>1. CASE SetupPhase # "none"
    <3>1. SetupPhase \in Phases /\ (seen.branch = Base => SetupPhase \in SetupPhases)
      BY <1>3, <2>1 DEF SetupPhase, Phases, SetupPhases, ReadRitual, TypeOK, DriverOK
    <3> QED
      BY <1>3, <2>1, <3>1, ReportingTypes DEF ReadRitual, TypeOK
  <2>2. CASE SetupPhase = "none"
    <3>1. seen.branch # Base
      BY <1>3, <2>2 DEF SetupPhase, ReadRitual, TypeOK, DriverOK
    <3>2. CASE SpecPhase # "none"
      <4>1. SpecPhase \in Phases
        BY <3>2 DEF SpecPhase, Phases
      <4> QED
        BY <1>3, <2>2, <3>1, <3>2, <4>1, ReportingTypes DEF ReadRitual, TypeOK
    <3>3. CASE SpecPhase = "none"
      BY <1>3, <2>2, <3>1, <3>3 DEF ReadRitual, TypeOK, DriverOK
    <3> QED
      BY <3>2, <3>3
  <2> QED
    BY <2>1, <2>2
<1>4. CASE ReadEvidence
  <2>1. seen.branch # Base
    BY <1>4 DEF ReadEvidence, TypeOK, DriverOK
  <2>2. CASE work[seen.branch, "analysis"] = None /\ ~Accepted
    <3>1. "READY_FOR_ANALYZE" \in Phases
      BY DEF Phases
    <3> QED
      BY <1>4, <2>1, <2>2, <3>1, ReportingTypes DEF ReadEvidence, TypeOK
  <2>3. CASE ~(work[seen.branch, "analysis"] = None /\ ~Accepted)
    <3>1. Accepted => evidence.status \in Statuses
      BY DEF Accepted, TypeOK, FactsOK
    <3>2. /\ seen' \in [branch : Branches, gate : {"unbound", "mismatch", "stale", "bound"},
                        status : Statuses \cup {"none"}, plan : BOOLEAN, tasks : BOOLEAN]
          /\ seen'.branch = seen.branch
      BY <1>4, <2>3, <3>1 DEF ReadEvidence, TypeOK, DriverOK
    <3> QED
      BY <1>4, <2>1, <2>3, <3>2 DEF ReadEvidence, TypeOK, DriverOK
  <2> QED
    BY <2>2, <2>3
<1>5. CASE ReadGit
  <2>1. seen.branch # Base
    BY <1>5 DEF ReadGit, TypeOK, DriverOK
  <2>2. GitPhase \in Phases
    BY DEF GitPhase, Phases
  <2> QED
    BY <1>5, <2>1, <2>2, ReportingTypes DEF ReadGit, TypeOK
<1> QED
  BY <1>2, <1>3, <1>4, <1>5 DEF Drives

\* Taking a step of the ritual keeps the types.
LEMMA FollowingTypes ==
  ASSUME TypeOK, Follows
  PROVE  TypeOK'
<1> USE DEF Phases, SetupPhases
<1>1. CASE Prepare
  <2>1. DriverOK'
    BY <1>1, TakingTypes DEF Prepare
  <2> QED
    BY <1>1, <2>1 DEF Prepare, TypeOK, RepoOK, FactsOK, repo, facts
<1>2. CASE Rematerialise
  <2>1. DriverOK'
    BY <1>2, TakingTypes DEF Rematerialise
  <2> QED
    BY <1>2, <2>1 DEF Rematerialise, TypeOK, RepoOK, FactsOK, repo, facts
<1>3. CASE SpecifyNew
  <2>1. DriverOK'
    BY <1>3, TakingTypes DEF SpecifyNew
  <2>2. PICK f \in NewName, s \in {"unclear", "clear"} :
          /\ head' = f
          /\ work' = [work EXCEPT ![<<f, "spec">>] = s]
          /\ tree' = [tree EXCEPT ![f] = tree[Base]]
          /\ history' = [history EXCEPT ![f] = history[Base]]
          /\ tip' = [tip EXCEPT ![f] = tip[Base]]
    BY <1>3 DEF SpecifyNew
  <2>3. f \in Features /\ f \in Branches /\ Base \in Branches /\ s \in Texts
    BY DEF NewName, Branches, Texts
  <2>4. work' \in Files
    BY <2>2, <2>3 DEF TypeOK, RepoOK, Files
  <2>5. RepoOK'
    BY <1>3, <2>2, <2>3, <2>4 DEF SpecifyNew, TypeOK, RepoOK
  <2>6. FactsOK'
    BY <1>3 DEF SpecifyNew, TypeOK, FactsOK, facts
  <2> QED
    BY <2>1, <2>5, <2>6 DEF TypeOK
<1>4. CASE SpecifyHere \/ Regenerate \/ Elaborate
  <2>1. DriverOK'
    BY <1>4, TakingTypes DEF SpecifyHere, Regenerate, Elaborate
  <2>2. head \in Features
    <3>1. CASE SpecifyHere
      BY <3>1 DEF SpecifyHere, TypeOK, RepoOK, Branches
    <3>2. CASE Regenerate
      <4>1. Takes("BRANCH_BINDING_BLOCKED") /\ "BRANCH_BINDING_BLOCKED" \in Phases \ SetupPhases
        BY <3>2 DEF Regenerate
      <4> QED
        BY <4>1, TakingTypes
    <3>3. CASE Elaborate
      BY <3>3, TakingTypes DEF Elaborate
    <3> QED
      BY <1>4, <3>1, <3>2, <3>3
  <2>3. work' \in Files
    <3> work \in Files
      BY DEF TypeOK, RepoOK
    <3>1. {"unclear", "clear"} \subseteq Texts /\ {"spec", "plan", "tasks"} \subseteq Artifacts
      BY DEF Texts, Artifacts
    <3>2. CASE SpecifyHere
      BY <2>2, <3>1, <3>2, WritingTypes DEF SpecifyHere
    <3>3. CASE Regenerate
      BY <2>2, <3>1, <3>3, WritingNewTypes DEF Regenerate
    <3>4. CASE Elaborate
      BY <2>2, <3>1, <3>4, WritingTypes, WritingNewTypes DEF Elaborate
    <3> QED
      BY <1>4, <3>2, <3>3, <3>4
  <2> QED
    BY <1>4, <2>1, <2>3 DEF SpecifyHere, Regenerate, Elaborate, TypeOK, RepoOK, FactsOK, facts
<1>5. CASE Analyze
  <2>1. DriverOK' /\ head \in Features
    BY <1>5, TakingTypes DEF Analyze
  <2>2. work' \in Files
    <3>1. "done" \in Texts /\ "analysis" \in Artifacts /\ work \in Files
      BY DEF Texts, Artifacts, TypeOK, RepoOK
    <3> QED
      BY <1>5, <2>1, <3>1, WritingTypes DEF Analyze
  <2>3. evidence' \in {None} \cup [status : Statuses, branch : Branches, commit : 0 .. commits]
    <3>1. "ANALYZE_COMPLETED" \in Statuses
      BY DEF Statuses
    <3> QED
      BY <1>5, <3>1, RecordingTypes DEF Analyze, TypeOK, FactsOK
  <2> QED
    BY <1>5, <2>1, <2>2, <2>3 DEF Analyze, TypeOK, RepoOK, FactsOK, facts
<1>6. CASE Implement
  <2>1. DriverOK' /\ head \in Features
    BY <1>6, TakingTypes DEF Implement
  <2>2. work' \in Files /\ version' \in Nat
    BY <1>6, <2>1, ChangingTypes DEF Implement, TypeOK, RepoOK, FactsOK
  <2> QED
    BY <1>6, <2>1, <2>2 DEF Implement, TypeOK, RepoOK, FactsOK
<1>7. CASE Review
  <2>1. DriverOK'
    BY <1>7, TakingTypes DEF Review
  <2>2. evidence' \in {None} \cup [status : Statuses, branch : Branches, commit : 0 .. commits]
    <3>1. "TESTS_PASSED" \in Statuses
      BY DEF Statuses
    <3> QED
      BY <1>7, <3>1, RecordingTypes DEF Review, TypeOK
  <2>3. work[Product] \in Texts
    BY DEF TypeOK, RepoOK, Files, Paths
  <2> QED
    BY <1>7, <2>1, <2>2, <2>3 DEF Review, TypeOK, RepoOK, FactsOK, repo
<1>8. CASE Commit
  <2>1. DriverOK'
    BY <1>8, TakingTypes DEF Commit
  <2>2. head \in Branches /\ work \in Files /\ history[head] \in SUBSET (0 .. commits)
    BY DEF TypeOK, RepoOK
  <2>3. RepoOK' /\ 0 .. commits \subseteq 0 .. commits'
    BY <1>8, <2>2, CommittingTypes DEF Commit, TypeOK, RepoOK
  <2>4. FactsOK'
    BY <1>8, <2>3, RecordedTypes DEF Commit, TypeOK, FactsOK, facts
  <2> QED
    BY <2>1, <2>3, <2>4 DEF TypeOK
<1>9. CASE Push
  <2>1. DriverOK'
    BY <1>9, TakingTypes DEF Push
  <2>2. evidence' \in {None} \cup [status : Statuses, branch : Branches, commit : 0 .. commits]
    <3>1. "PUSHED" \in Statuses
      BY DEF Statuses
    <3> QED
      BY <1>9, <3>1, RecordingTypes DEF Push, TypeOK
  <2> QED
    BY <1>9, <2>1, <2>2 DEF Push, TypeOK, RepoOK, FactsOK, repo
<1>10. CASE Merge
  <2>1. DriverOK' /\ head \in Features
    BY <1>10, TakingTypes DEF Merge
  <2> DEFINE result == [p \in Paths |-> IF tree[head][p] # None THEN tree[head][p] ELSE tree[Base][p]]
  <2>2. /\ Base \in Branches /\ result \in Files
        /\ (history[Base] \cup history[head]) \in SUBSET (0 .. commits)
    BY DEF TypeOK, RepoOK, Files, Branches
  <2>3. work' = result /\ Commits(Base, result, history[Base] \cup history[head])
    BY <1>10 DEF Merge
  <2> HIDE DEF result
  <2>4. RepoOK' /\ 0 .. commits \subseteq 0 .. commits'
    BY <1>10, <2>2, <2>3, CommittingTypes DEF Merge, TypeOK, RepoOK
  <2>5. FactsOK'
    BY <1>10, <2>1, <2>4, RecordedTypes DEF Merge, TypeOK, FactsOK
  <2> QED
    BY <2>1, <2>4, <2>5 DEF TypeOK
<1> QED
  BY <1>1, <1>2, <1>3, <1>4, <1>5, <1>6, <1>7, <1>8, <1>9, <1>10 DEF Follows

\* What goes on besides keeps the types.
LEMMA AsideTypes ==
  ASSUME TypeOK, Return \/ RecordCommit \/ Interferes
  PROVE  TypeOK'
<1>a. Upsets => calm' \in BOOLEAN /\ upsets' \in Nat
  BY DEF Upsets, TypeOK, DriverOK
<1>b. Return => calm' \in BOOLEAN /\ upsets' \in Nat
  BY DEF Return, TypeOK, DriverOK
<1>0. ASSUME Aside \/ UNCHANGED <<pc, seen, card>>, calm' \in BOOLEAN, upsets' \in Nat
      PROVE  DriverOK'
  BY <1>0 DEF TypeOK, DriverOK, Aside
<1>1. CASE Return \/ Leave
  <2>1. PICK b \in Branches : Switches(b)
    BY <1>1 DEF Return, Leave, Started, Branches
  <2>2. RepoOK'
    BY <2>1, SwitchingTypes DEF TypeOK
  <2>3. DriverOK'
    BY <1>0, <1>1, <1>a, <1>b DEF Return, Leave
  <2>4. FactsOK'
    BY <1>1, <2>1 DEF Return, Leave, Switches, Aside, TypeOK, FactsOK, facts
  <2> QED
    BY <2>2, <2>3, <2>4 DEF TypeOK
<1>2. CASE RecordCommit
  <2>1. evidence' \in {None} \cup [status : Statuses, branch : Branches, commit : 0 .. commits]
    <3>1. "IMPLEMENTED_COMMITTED" \in Statuses
      BY DEF Statuses
    <3> QED
      BY <1>2, <3>1, RecordingTypes DEF RecordCommit, TypeOK
  <2>2. work[Product] \in Texts
    BY DEF TypeOK, RepoOK, Files, Paths
  <2>3. DriverOK'
    BY <1>0, <1>2 DEF RecordCommit, TypeOK, DriverOK
  <2> QED
    BY <1>2, <2>1, <2>2, <2>3 DEF RecordCommit, Aside, TypeOK, RepoOK, FactsOK, repo
<1>3. CASE Rework
  <2>1. head \in Features
    BY <1>3 DEF Rework, TypeOK, RepoOK, Branches
  <2>2. work' \in Files /\ version' \in Nat
    BY <1>3, <2>1, ChangingTypes DEF Rework, TypeOK, RepoOK, FactsOK
  <2>3. DriverOK'
    BY <1>0, <1>3, <1>a DEF Rework
  <2> QED
    BY <1>3, <2>2, <2>3 DEF Rework, Aside, TypeOK, RepoOK, FactsOK
<1>4. CASE Amend
  <2>1. /\ head \in Branches /\ work \in Files
        /\ (history[head] \ {tip[head]}) \in SUBSET (0 .. commits)
    BY DEF TypeOK, RepoOK
  <2>2. RepoOK' /\ 0 .. commits \subseteq 0 .. commits'
    BY <1>4, <2>1, CommittingTypes DEF Amend, TypeOK, RepoOK
  <2>3. FactsOK'
    BY <1>4, <2>2, RecordedTypes DEF Amend, Aside, TypeOK, FactsOK, facts
  <2>4. DriverOK'
    BY <1>0, <1>4, <1>a DEF Amend
  <2> QED
    BY <2>2, <2>3, <2>4 DEF TypeOK
<1>5. CASE EditArtifact
  <2>1. head \in Features
    BY <1>5 DEF EditArtifact, TypeOK, RepoOK, Branches
  <2>2. \A g \in Features, a \in {"plan", "tasks"} : a \in Artifacts /\ tree[g][g, a] \in Texts
    <3> TAKE g \in Features, a \in {"plan", "tasks"}
    <3>1. a \in Artifacts /\ <<g, a>> \in Paths /\ g \in Branches
      BY DEF Paths, Artifacts, Branches
    <3>2. tree[g] \in Files
      BY <3>1 DEF TypeOK, RepoOK
    <3> QED
      BY <3>1, <3>2 DEF Files
  <2>3. "unclear" \in Texts /\ "spec" \in Artifacts /\ work \in Files
    BY DEF Texts, Artifacts, TypeOK, RepoOK
  <2>4. work' \in Files
    BY <1>5, <2>1, <2>2, <2>3, WritingTypes DEF EditArtifact
  <2>5. DriverOK'
    BY <1>0, <1>5, <1>a DEF EditArtifact
  <2> QED
    BY <1>5, <2>4, <2>5 DEF EditArtifact, Aside, TypeOK, RepoOK, FactsOK, facts
<1>6. CASE LoseEvidence
  <2>1. DriverOK'
    BY <1>0, <1>6, <1>a DEF LoseEvidence
  <2> QED
    BY <1>6, <2>1 DEF LoseEvidence, Aside, TypeOK, RepoOK, FactsOK, repo, facts
<1>7. CASE RebuildPackage
  <2>1. DriverOK'
    BY <1>0, <1>7, <1>a DEF RebuildPackage
  <2> QED
    BY <1>7, <2>1 DEF RebuildPackage, TypeOK, RepoOK, FactsOK, repo, facts
<1>8. CASE SpecifyDies
  <2>1. PICK f \in NewName :
          /\ head' = f
          /\ tree' = [tree EXCEPT ![f] = tree[Base]]
          /\ history' = [history EXCEPT ![f] = history[Base]]
          /\ tip' = [tip EXCEPT ![f] = tip[Base]]
    BY <1>8 DEF SpecifyDies
  <2>2. f \in Branches /\ Base \in Branches
    BY DEF NewName, Branches
  <2>3. RepoOK'
    BY <1>8, <2>1, <2>2 DEF SpecifyDies, TypeOK, RepoOK
  <2>4. FactsOK'
    BY <1>8 DEF SpecifyDies, TypeOK, FactsOK, facts
  <2>5. DriverOK'
    BY <1>8 DEF SpecifyDies, Upsets, TypeOK, DriverOK
  <2> QED
    BY <2>3, <2>4, <2>5 DEF TypeOK
<1> QED
  BY <1>1, <1>2, <1>3, <1>4, <1>5, <1>6, <1>7, <1>8 DEF Interferes

\* Every step keeps the types.
LEMMA NextTypes ==
  ASSUME TypeOK, [Next]_vars
  PROVE  TypeOK'
<1>1. CASE UNCHANGED vars
  BY <1>1 DEF vars, repo, facts, driver, TypeOK, RepoOK, FactsOK, DriverOK
<1> QED
  BY <1>1, DriverTypes, FollowingTypes, AsideTypes DEF Next

\* All is well typed in the beginning.
LEMMA InitTypes ==
  ASSUME Init
  PROVE  TypeOK
<1>1. RepoOK
  BY DEF Init, RepoOK, Branches, Files, Texts
<1> QED
  BY <1>1 DEF Init, TypeOK, FactsOK, DriverOK

\* The variables have their types in every behaviour.
THEOREM TypeCorrect == Spec => []TypeOK
<1>1. Init => TypeOK
  BY InitTypes
<1>2. TypeOK /\ [Next]_vars => TypeOK'
  BY NextTypes
<1> QED
  BY <1>1, <1>2, PTL DEF Spec

-----------------------------------------------------------------------------
(***************************************************************************)
(* Offers of push and merge are earned: the evidence is true of the commit *)
(* it names, and a commit that is reachable is in the branch's history.    *)
(***************************************************************************)

\* The commit has a tested product of the branch.
Own(c, b) == holds[c] \in tested /\ holds[c] # None /\ holds[c][1] = b

\* The last commit of a branch has its product, and there is one of the branch that is
\* checked out.
TipInv ==
  /\ \A b \in Branches : history[b] # {} => holds[tip[b]] = tree[b][Product]
  /\ \A b \in Branches : history[b] # {} => tip[b] \in history[b]
  /\ history[head] # {}

\* What the evidence says of its commit.
EvidenceInv ==
  evidence # None =>
    /\ evidence.status = "IMPLEMENTED_COMMITTED" => Own(evidence.commit, evidence.branch)
    /\ evidence.status = "PUSHED" => <<evidence.branch, evidence.commit>> \in pushed

\* While the driver reads nobody acts on a card, and if nobody interferes what it has read
\* is still so.
ReadingInv ==
  /\ pc # "idle" => card = None
  /\ pc \in {"ritual", "evidence"} => seen.status = "none"
  /\ calm /\ pc # "idle" => seen.branch = head
  /\ calm /\ pc = "git" =>
       /\ seen.status = "IMPLEMENTED_COMMITTED" => \E c \in history[head] : Own(c, seen.branch)
       /\ seen.status = "PUSHED" => \E c \in history[head] : <<seen.branch, c>> \in pushed

OffersInv == TipInv /\ EvidenceInv /\ ReadingInv

\* A commit leaves old branches, and all that is recorded, as they were.
LEMMA CommitKeeps ==
  ASSUME TypeOK, TipInv, EvidenceInv, NEW b \in Branches, NEW files \in Files,
         NEW others \in SUBSET (0 .. commits), Commits(b, files, others),
         UNCHANGED <<evidence, tested, pushed>>, history'[head'] # {}
  PROVE  TipInv' /\ EvidenceInv'
<1>1. /\ commits' = commits + 1 /\ commits \in Nat
      /\ \A c \in 0 .. commits : holds'[c] = holds[c]
      /\ holds'[commits + 1] = files[Product]
  BY CommittingTypes DEF TypeOK, RepoOK
<1>2. \A a \in Branches : a # b => /\ history'[a] = history[a] /\ tip'[a] = tip[a]
                                   /\ tree'[a] = tree[a]
  BY DEF Commits, TypeOK, RepoOK
<1>3. tip'[b] = commits + 1 /\ tree'[b] = files /\ commits + 1 \in history'[b]
  BY DEF Commits, TypeOK, RepoOK
<1>4. TipInv'
  <2>1. \A a \in Branches : tip[a] \in 0 .. commits
    BY DEF TypeOK, RepoOK
  <2>2. \A a \in Branches : history'[a] # {} => holds'[tip'[a]] = tree'[a][Product]
    BY <1>1, <1>2, <1>3, <2>1 DEF TipInv
  <2>3. \A a \in Branches : history'[a] # {} => tip'[a] \in history'[a]
    BY <1>2, <1>3 DEF TipInv
  <2> QED
    BY <2>2, <2>3 DEF TipInv
<1>5. EvidenceInv'
  <2>1. evidence # None => evidence.commit \in 0 .. commits
    BY DEF TypeOK, FactsOK
  <2>2. evidence # None => holds'[evidence.commit] = holds[evidence.commit]
    BY <1>1, <2>1
  <2> QED
    BY <2>2 DEF EvidenceInv, Own
<1> QED
  BY <1>4, <1>5

\* What nobody interferes with stays read.
LEMMA ReadingStays ==
  ASSUME ReadingInv, pc' = pc, seen' = seen, card' = card \/ card' = None,
         pc = "idle" \/ calm' = FALSE
                     \/ (calm' = calm /\ UNCHANGED <<head, history, holds>>
                         /\ tested \subseteq tested' /\ pushed \subseteq pushed')
  PROVE  ReadingInv'
<1>1. CASE pc = "idle"
  BY <1>1 DEF ReadingInv
<1>2. CASE calm' = FALSE
  BY <1>2 DEF ReadingInv
<1>3. CASE calm' = calm /\ UNCHANGED <<head, history, holds>>
           /\ tested \subseteq tested' /\ pushed \subseteq pushed'
  BY <1>3 DEF ReadingInv, Own
<1> QED
  BY <1>1, <1>2, <1>3

\* Evidence is true of the commit it names when it is recorded.
LEMMA RecordedIsTrue ==
  ASSUME TypeOK, TipInv, RecordCommit
  PROVE  EvidenceInv'
<1>1. head \in Branches /\ history[head] # {}
  BY DEF TypeOK, RepoOK, TipInv
<1>2. holds[tip[head]] = work[Product]
  BY <1>1 DEF RecordCommit, Dirty, TipInv
<1>3. Own(tip[head], head)'
  BY <1>2 DEF RecordCommit, Implemented, Own, repo
<1>4. evidence' = [status |-> "IMPLEMENTED_COMMITTED", branch |-> head, commit |-> tip[head]]
  BY DEF RecordCommit, Records
<1>5. head' = head /\ tip' = tip
  BY DEF RecordCommit, repo
<1> QED
  BY <1>3, <1>4, <1>5 DEF EvidenceInv, Own

\* Only the driver reads: the other steps keep what it has read, or somebody interferes.
LEMMA NextReading ==
  ASSUME TypeOK, OffersInv, [Next]_vars
  PROVE  ReadingInv'
<1>1. CASE Drives
  <2>1. CASE ReadGate
    BY <2>1 DEF ReadGate, ReadingInv, repo, facts
  <2>2. CASE ReadRitual
    BY <2>2 DEF ReadRitual, Reports, OffersInv, ReadingInv, repo, facts
  <2>3. CASE ReadEvidence
    <3>1. CASE work[seen.branch, "analysis"] = None /\ ~Accepted
      BY <2>3, <3>1 DEF ReadEvidence, Reports, ReadingInv
    <3>2. CASE ~(work[seen.branch, "analysis"] = None /\ ~Accepted)
      <4>1. /\ pc' = "git" /\ calm' = calm /\ card' = card /\ pc = "evidence"
            /\ UNCHANGED <<head, history, holds, tested, pushed>>
            /\ seen' = IF Accepted THEN [seen EXCEPT !.status = evidence.status] ELSE seen
        BY <2>3, <3>2 DEF ReadEvidence, repo, facts
      <4>2. seen'.branch = seen.branch
        BY <4>1 DEF TypeOK, DriverOK
      <4>3. card' = None /\ (calm => seen.branch = head) /\ seen.status = "none"
        BY <4>1 DEF OffersInv, ReadingInv
      <4>4. CASE Accepted
        <5>1. seen'.status = evidence.status
          BY <4>1, <4>4 DEF TypeOK, DriverOK
        <5>2. evidence.commit \in history[head] /\ evidence.branch = seen.branch /\ evidence # None
          BY <4>4 DEF Accepted
        <5>3. /\ evidence.status = "IMPLEMENTED_COMMITTED" => Own(evidence.commit, seen.branch)
              /\ evidence.status = "PUSHED" => <<seen.branch, evidence.commit>> \in pushed
          BY <5>2 DEF OffersInv, EvidenceInv
        <5> QED
          BY <4>1, <4>2, <4>3, <5>1, <5>2, <5>3 DEF ReadingInv, Own
      <4>5. CASE ~Accepted
        BY <4>1, <4>2, <4>3, <4>5 DEF ReadingInv
      <4> QED
        BY <4>4, <4>5
    <3> QED
      BY <3>1, <3>2
  <2>4. CASE ReadGit
    BY <2>4 DEF ReadGit, Reports, ReadingInv
  <2> QED
    BY <1>1, <2>1, <2>2, <2>3, <2>4 DEF Drives
<1>2. CASE Follows
  <2>1. /\ card # None /\ card' = None /\ UNCHANGED driver
    BY <1>2 DEF Follows, Takes, Prepare, Rematerialise, SpecifyNew, SpecifyHere, Regenerate,
                Elaborate, Analyze, Implement, Review, Commit, Push, Merge
  <2>2. pc = "idle"
    BY <2>1 DEF OffersInv, ReadingInv
  <2> QED
    BY <2>1, <2>2, ReadingStays DEF OffersInv, driver
<1>3. CASE Return \/ RecordCommit \/ Interferes
  <2>1. pc' = pc /\ seen' = seen /\ (card' = card \/ card' = None)
    BY <1>3 DEF Return, RecordCommit, Interferes, Leave, Rework, Amend, EditArtifact, LoseEvidence,
                RebuildPackage, SpecifyDies, Aside
  <2>2. CASE RecordCommit
    BY <2>1, <2>2, ReadingStays DEF RecordCommit, OffersInv, repo
  <2>3. CASE Return \/ Interferes
    <3>1. pc = "idle" \/ calm' = FALSE
      BY <2>3 DEF Return, Interferes, Leave, Rework, Amend, EditArtifact, LoseEvidence,
                  RebuildPackage, SpecifyDies, Upsets
    <3> QED
      BY <2>1, <3>1, ReadingStays DEF OffersInv
  <2> QED
    BY <1>3, <2>2, <2>3
<1>4. CASE UNCHANGED vars
  BY <1>4, ReadingStays DEF vars, repo, facts, driver, OffersInv
<1> QED
  BY <1>1, <1>2, <1>3, <1>4 DEF Next

\* A step that leaves the branches and the evidence alone.
LEMMA NothingRecorded ==
  ASSUME TipInv, EvidenceInv, UNCHANGED <<head, tree, history, tip, holds, pushed>>,
         evidence' = evidence \/ evidence' = None, tested \subseteq tested'
  PROVE  TipInv' /\ EvidenceInv'
BY DEF TipInv, EvidenceInv, Own

\* A new branch has what the base branch has.
LEMMA BranchingKeeps ==
  ASSUME TypeOK, TipInv, EvidenceInv, head = Base, NEW f \in Features,
         head' = f, tree' = [tree EXCEPT ![f] = tree[Base]],
         history' = [history EXCEPT ![f] = history[Base]], tip' = [tip EXCEPT ![f] = tip[Base]],
         UNCHANGED <<holds, evidence, tested, pushed>>
  PROVE  TipInv' /\ EvidenceInv'
<1>1. f \in Branches /\ Base \in Branches
  BY DEF Branches
<1>2. /\ history'[f] = history[Base] /\ tip'[f] = tip[Base] /\ tree'[f] = tree[Base]
      /\ \A b \in Branches : b # f =>
           history'[b] = history[b] /\ tip'[b] = tip[b] /\ tree'[b] = tree[b]
  BY <1>1 DEF TypeOK, RepoOK
<1>3. TipInv'
  BY <1>1, <1>2 DEF TipInv
<1>4. EvidenceInv'
  BY DEF EvidenceInv, Own
<1> QED
  BY <1>3, <1>4

\* Every step keeps what commits and evidence say.
LEMMA NextRecords ==
  ASSUME TypeOK, OffersInv, [Next]_vars
  PROVE  TipInv' /\ EvidenceInv'
<1> USE DEF OffersInv
<1>1. CASE Drives \/ UNCHANGED vars
  BY <1>1, NothingRecorded DEF Drives, ReadGate, ReadRitual, ReadEvidence, ReadGit, vars, repo, facts
<1>2. CASE Follows
  <2>1. CASE Prepare \/ Rematerialise
    BY <2>1, NothingRecorded DEF Prepare, Rematerialise, repo, facts
  <2>2. CASE SpecifyNew
    BY <2>2, BranchingKeeps DEF SpecifyNew, NewName, facts
  <2>3. CASE SpecifyHere \/ Regenerate \/ Elaborate
    BY <2>3, NothingRecorded DEF SpecifyHere, Regenerate, Elaborate, facts
  <2>4. CASE Implement
    BY <2>4, NothingRecorded DEF Implement
  <2>5. CASE Analyze \/ Review \/ Push
    <3>1. /\ UNCHANGED <<head, tree, history, tip, holds>>
          /\ tested \subseteq tested' /\ pushed \subseteq pushed'
      BY <2>5 DEF Analyze, Review, Push, repo, facts
    <3>2. TipInv'
      BY <3>1 DEF TipInv
    <3>3. CASE Analyze /\ UNCHANGED evidence
      BY <3>1, <3>2, <3>3 DEF EvidenceInv, Own
    <3>4. CASE Records("ANALYZE_COMPLETED") \/ Records("TESTS_PASSED")
      BY <3>2, <3>4 DEF Records, EvidenceInv
    <3>5. CASE Push
      BY <3>2, <3>5 DEF Push, Records, EvidenceInv
    <3> QED
      BY <2>5, <3>2, <3>3, <3>4, <3>5 DEF Analyze, Review
  <2>6. CASE Commit
    <3>1. head \in Branches /\ work \in Files /\ history[head] \in SUBSET (0 .. commits)
      BY DEF TypeOK, RepoOK
    <3>2. /\ Commits(head, work, history[head]) /\ head' = head
          /\ UNCHANGED <<evidence, tested, pushed>>
      BY <2>6 DEF Commit, facts
    <3>3. history'[head'] # {}
      BY <3>1, <3>2 DEF Commits, TypeOK, RepoOK
    <3> QED
      BY <3>1, <3>2, <3>3, CommitKeeps
  <2>7. CASE Merge
    <3> DEFINE result == [p \in Paths |-> IF tree[head][p] # None THEN tree[head][p] ELSE tree[Base][p]]
    <3>1. /\ Base \in Branches /\ result \in Files
          /\ (history[Base] \cup history[head]) \in SUBSET (0 .. commits)
      BY DEF TypeOK, RepoOK, Files, Branches
    <3>2. /\ Commits(Base, result, history[Base] \cup history[head]) /\ head' = Base
          /\ UNCHANGED <<evidence, tested, pushed>>
      BY <2>7 DEF Merge
    <3> HIDE DEF result
    <3>3. history'[head'] # {}
      BY <3>1, <3>2 DEF Commits, TypeOK, RepoOK
    <3> QED
      BY <3>1, <3>2, <3>3, CommitKeeps
  <2> QED
    BY <1>2, <2>1, <2>2, <2>3, <2>4, <2>5, <2>6, <2>7 DEF Follows
<1>3. CASE Return \/ Leave
  <2>1. PICK b \in Branches : Switches(b)
    BY <1>3 DEF Return, Leave, Started, Branches
  <2>2. UNCHANGED <<tree, history, tip, holds, evidence, tested, pushed>> /\ history[head'] # {}
    BY <1>3, <2>1 DEF Return, Leave, Switches, CanSwitch, facts
  <2> QED
    BY <2>2 DEF TipInv, EvidenceInv, Own
<1>4. CASE RecordCommit
  <2>1. TipInv'
    BY <1>4 DEF RecordCommit, repo, TipInv
  <2> QED
    BY <1>4, <2>1, RecordedIsTrue
<1>5. CASE Rework \/ EditArtifact \/ LoseEvidence \/ RebuildPackage
  BY <1>5, NothingRecorded DEF Rework, EditArtifact, LoseEvidence, RebuildPackage, Aside, repo, facts
<1>6. CASE Amend
  <2>1. /\ head \in Branches /\ work \in Files
        /\ (history[head] \ {tip[head]}) \in SUBSET (0 .. commits)
    BY DEF TypeOK, RepoOK
  <2>2. /\ Commits(head, work, history[head] \ {tip[head]}) /\ head' = head
        /\ UNCHANGED <<evidence, tested, pushed>>
    BY <1>6 DEF Amend, facts
  <2>3. history'[head'] # {}
    BY <2>1, <2>2 DEF Commits, TypeOK, RepoOK
  <2> QED
    BY <2>1, <2>2, <2>3, CommitKeeps
<1>7. CASE SpecifyDies
  BY <1>7, BranchingKeeps DEF SpecifyDies, NewName, facts
<1> QED
  BY <1>1, <1>2, <1>3, <1>4, <1>5, <1>6, <1>7 DEF Next, Interferes

\* A push is offered only of a branch that has a tested product of its own, a merge only of
\* one whose pushed commit is still part of it, unless somebody interfered with the driver.
THEOREM OffersEarned == Spec => OffersAreEarned
<1>1. Init => TypeOK /\ OffersInv
  <2> SUFFICES ASSUME Init PROVE OffersInv
    BY InitTypes
  <2>1. TipInv
    BY DEF Init, TipInv, Branches, Paths, Product
  <2> QED
    BY <2>1 DEF Init, OffersInv, EvidenceInv, ReadingInv
<1>2. TypeOK /\ OffersInv /\ [Next]_vars => (TypeOK /\ OffersInv)'
  BY NextTypes, NextReading, NextRecords DEF OffersInv
<1>3. TypeOK /\ OffersInv /\ [Next]_vars =>
        [pc = "git" /\ pc' = "idle" /\ calm =>
           /\ card'.phase = "READY_FOR_PUSH_OR_PR" =>
                \E c \in history[head] :
                  holds[c] \in tested /\ holds[c] # None /\ holds[c][1] = card'.branch
           /\ card'.phase = "MERGE_BLOCKED_PENDING_CI_OR_APPROVAL" =>
                \E c \in history[head] : <<card'.branch, c>> \in pushed]_vars
  <2> SUFFICES ASSUME TypeOK, OffersInv, [Next]_vars, pc = "git", pc' = "idle", calm
               PROVE  /\ card'.phase = "READY_FOR_PUSH_OR_PR" =>
                           \E c \in history[head] : Own(c, card'.branch)
                      /\ card'.phase = "MERGE_BLOCKED_PENDING_CI_OR_APPROVAL" =>
                           \E c \in history[head] : <<card'.branch, c>> \in pushed
    BY DEF Own
  <2>1. ReadGit
    <3>1. card = None
      BY DEF OffersInv, ReadingInv
    <3>2. ~Follows
      BY <3>1 DEF Follows, Takes, Prepare, Rematerialise, SpecifyNew, SpecifyHere, Regenerate,
                  Elaborate, Analyze, Implement, Review, Commit, Push, Merge
    <3>3. ~(Return \/ RecordCommit \/ Interferes) /\ ~UNCHANGED vars
      BY DEF Return, RecordCommit, Interferes, Leave, Rework, Amend, EditArtifact, LoseEvidence,
             RebuildPackage, SpecifyDies, Aside, vars, driver
    <3>4. ~ReadGate /\ ~ReadRitual /\ ~ReadEvidence
      BY DEF ReadGate, ReadRitual, ReadEvidence
    <3> QED
      BY <3>2, <3>3, <3>4 DEF Next, Drives
  <2>2. card' = [phase |-> GitPhase, branch |-> seen.branch]
    BY <2>1 DEF ReadGit, Reports
  <2>3. /\ GitPhase = "READY_FOR_PUSH_OR_PR" => seen.status = "IMPLEMENTED_COMMITTED"
        /\ GitPhase = "MERGE_BLOCKED_PENDING_CI_OR_APPROVAL" => seen.status = "PUSHED"
    BY DEF GitPhase
  <2> QED
    BY <2>2, <2>3 DEF OffersInv, ReadingInv
<1> QED
  BY <1>1, <1>2, <1>3, PTL DEF Spec, OffersAreEarned
=============================================================================
