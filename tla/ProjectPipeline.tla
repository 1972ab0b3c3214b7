--------------------------- MODULE ProjectPipeline ---------------------------
(***************************************************************************)
(* ProjectMachine.run (hldspec/machines/project.py): one run takes the     *)
(* HLD from a raw text to the door of SpecKit, through the conversion      *)
(* decisions, the read-only first run that builds plan and prework, the    *)
(* plan gate, the prework gate and the approval gate.  People edit the     *)
(* HLD, answer, accept and approve between any two steps, and a run may    *)
(* fail or die anywhere.  Scripts write under one directory and, in the    *)
(* new layout, are mirrored into another.                                  *)
(***************************************************************************)
EXTENDS HldConversion

CONSTANTS
  Layouts,    \* workspace layouts to run with: "legacy", "new"
  Sources,    \* the source HLD is a "file" of its own or the "working" HLD itself
  Versions,   \* contents an HLD may have
  Given,      \* per content, the texts it may come as
  HandSplits, \* splits people may write in the queue themselves
  Flags,      \* per content, ids of the planned specs that need review; the plan is green without
  Rework,     \* contents, each with whether people's answers are in the plan, whose prework
              \* is refused: its review has blockers, asks for rework, or says ACTION or CONFLICT
  None,
  MaxEdits,   \* bound: edits of a HLD or of the plan, and rejections
  MaxCuts     \* bound: runs that fail or die

ASSUME LayoutsAssumption == Layouts \subseteq {"legacy", "new"}
ASSUME SourcesAssumption == Sources \subseteq {"file", "working"}
ASSUME GivenAssumption == \A v \in Versions : Given[v] \subseteq Seq(Line)
ASSUME HandSplitsAssumption == \A splits \in HandSplits : splits \subseteq Spans
ASSUME ReworkAssumption == Rework \subseteq Versions \X BOOLEAN
ASSUME BoundsAssumption == MaxEdits \in Nat /\ MaxCuts \in Nat

Texts == [v : Versions, lines : Seq(Line)]
SpecIds == UNION {Flags[v] : v \in Versions}

ASSUME NoneAssumption == None \notin Texts \cup Seq(Line)

\* One sync directory: the conversion plan with its queue, the plan with its review, the
\* prework with its quality review (each with the text it was built from), whether the plan
\* is newer than the prework derived from it, the ids accepted by
\* spec_build_plan_gate_decision, and the approval with the text of the approved package.
NoQueue == [of |-> None, plan |-> <<>>, answers |-> <<>>, proposed |-> <<>>]
Dirs == [queue : {NoQueue} \cup Queues,
         plan : {None} \cup Texts, prework : {None} \cup Texts, approval : {None} \cup Texts,
         newer : BOOLEAN, accepted : SUBSET SpecIds]
Empty == [queue |-> NoQueue, plan |-> None, prework |-> None, newer |-> FALSE,
          accepted |-> {}, approval |-> None]

\* How often people had changed the plan of the directory the machine reads: the plan as it
\* is, and as its prework was derived from it.
Rounds == [plan : Nat, prework : Nat]
NoRounds == [plan |-> 0, prework |-> 0]

\* "direct" is <target>/.specify/sync, "firstrun" the scripts' own workspace,
\* "sync" <target>/.hldspec/sync.
Places == {"direct", "firstrun", "sync"}
Items == {"queue", "plan", "prework"}
Steps == {"idle", "early", "raw", "apply", "late", "queue", "map", "derive", "freshness",
          "mirror", "plan", "prework", "gate"}
Building == {"queue", "map", "derive"}

VARIABLES
  layout, kind,             \* how the machine is run; never changes
  source, rawCopy, working, \* the source HLD, the raw copy, the working HLD
  backup,                   \* HLD.md.pre-hldspec.bak
  disk,                     \* the sync directories
  rounds,                   \* the changes people made to the plan
  recorded,                 \* working_copy_sha256 of source_freshness.json
  pc, build,                \* where the run is; the read-only run: its text, its place, the
                            \* step after it, what is still to be mirrored
  executed,                 \* the run reached the SpecKit execution machine
  clean,                    \* the last read-only run ended, and nobody edited the HLD meanwhile
  edits, cuts

files == <<source, rawCopy, working, backup, disk, rounds, recorded>>
bounds == <<edits, cuts>>
vars == <<layout, kind, files, pc, build, executed, clean, bounds>>

\* adapter.sync_dir and adapter.conversion_sync_dir.
Reads == IF layout = "new" THEN "sync" ELSE "firstrun"
QueueAt == IF layout = "new" THEN "sync" ELSE "direct"
Here == disk[Reads]

SourceText == IF kind = "working" THEN working ELSE source

\* build_source_freshness: the legacy layout has no raw copy of its own.
Blocking ==
  \/ working = None \/ working # SourceText
  \/ layout = "new" /\ rawCopy # None /\ rawCopy # SourceText

\* With what was built once taken to be up to date.
UpToDateByPresence == Here.plan # None /\ recorded # None

\* _ensure_first_readonly reuses what was built from the working HLD as it is.
UpToDate ==
  Here.plan # None /\ recorded # None /\ recorded = working /\ ~Blocking

Init ==
  /\ layout \in Layouts /\ kind \in Sources
  /\ source \in UNION {[v : {v}, lines : Given[v]] : v \in Versions}
  /\ kind = "file" \/ layout = "new" \/ Converted(source.lines)
  /\ working = IF kind = "working" THEN source ELSE None
  /\ rawCopy = None /\ backup = None /\ recorded = None
  /\ disk = [p \in Places |-> Empty] /\ rounds = NoRounds
  /\ pc = "idle" /\ build = None /\ executed = FALSE
  /\ clean = TRUE /\ edits = 0 /\ cuts = 0

-----------------------------------------------------------------------------
(***************************************************************************)
(* A run.                                                                  *)
(***************************************************************************)
Goto(step) == pc' = step /\ UNCHANGED <<build, clean>>
StopRun == Goto("idle")

\* Without the removal of what people decided.
RunScriptKeepingDecisions(place, text, next) ==
  /\ pc' = "queue" /\ build' = [of |-> text, at |-> place, next |-> next, todo |-> {}]
  /\ clean' = TRUE
  /\ disk' = [disk EXCEPT ![place] = [@ EXCEPT !.queue = NoQueue, !.plan = None, !.prework = None]]
  /\ rounds' = IF place = Reads THEN NoRounds ELSE rounds

\* The script removes its workspace, whatever is in it, and copies the HLD there.
RunScript(place, text, next) ==
  /\ pc' = "queue" /\ build' = [of |-> text, at |-> place, next |-> next, todo |-> {}]
  /\ clean' = TRUE
  /\ disk' = IF place = "direct" THEN [p \in Places |-> Empty]
             ELSE [disk EXCEPT ![place] = Empty]
  /\ rounds' = IF place \in {"direct", Reads} THEN NoRounds ELSE rounds

\* New layout: the raw and the working HLD are copied once.  Legacy: without a working
\* HLD the whole workspace is made anew by project_first_run.sh.
Begin ==
  /\ pc = "idle" /\ ~executed
  /\ IF layout = "new"
     THEN /\ rawCopy' = IF rawCopy = None THEN SourceText ELSE rawCopy
          /\ working' = IF working = None THEN source ELSE working
          /\ Goto(IF disk["sync"].queue = NoQueue THEN "early" ELSE "raw")
          /\ UNCHANGED <<disk, rounds>>
     ELSE IF working = None
     THEN /\ working' = source /\ UNCHANGED rawCopy
          /\ RunScript("direct", source, "raw")
     ELSE Goto("raw") /\ UNCHANGED <<disk, rounds, rawCopy, working>>
  /\ UNCHANGED <<layout, kind, source, backup, recorded, executed, bounds>>

\* Before the conversion gate (new layout, no queue) and after it.
EnsureFirstReadonly ==
  /\ pc \in {"early", "late"}
  /\ LET next == IF pc = "early" THEN "raw" ELSE "plan" IN
       IF UpToDate THEN Goto(next) /\ UNCHANGED <<disk, rounds>>
       ELSE RunScript("firstrun", working, next)
  /\ UNCHANGED <<layout, kind, source, rawCopy, working, backup, recorded, executed, bounds>>

\* first_run_readonly.sh: the conversion queue first; for a raw HLD that is all (rc 2).
AfterBuild == IF build.at = "direct" THEN build.next ELSE "freshness"

BuildQueue ==
  /\ pc = "queue"
  /\ disk' = [disk EXCEPT ![build.at].queue = Queue(build.of.lines, Plan(build.of.lines))]
  /\ pc' = IF Ready(build.of.lines) THEN "map" ELSE AfterBuild
  /\ UNCHANGED <<layout, kind, source, rawCopy, working, backup, rounds, recorded, build, executed, clean, bounds>>

\* Then the map, the plan and its review.
BuildPlan ==
  /\ pc = "map" /\ MapValid(build.of.lines) /\ pc' = "derive"
  /\ disk' = [disk EXCEPT ![build.at].plan = build.of]
  /\ UNCHANGED <<layout, kind, source, rawCopy, working, backup, rounds, recorded, build, executed, clean, bounds>>

\* --hld-map-only finds errors (rc 1).
MapFails ==
  /\ pc = "map" /\ ~MapValid(build.of.lines)
  /\ StopRun
  /\ UNCHANGED <<layout, kind, files, executed, bounds>>

\* Then the prework with its review, and the package.
BuildPrework ==
  /\ pc = "derive"
  /\ disk' = [disk EXCEPT ![build.at].prework = build.of]
  /\ pc' = AfterBuild
  /\ UNCHANGED <<layout, kind, source, rawCopy, working, backup, rounds, recorded, build, executed, clean, bounds>>

\* write_source_freshness hashes the working HLD as it is after the build.
WriteFreshness ==
  /\ pc = "freshness"
  /\ recorded' = working
  /\ pc' = IF layout = "new" THEN "mirror" ELSE build.next
  /\ build' = [build EXCEPT !.todo = {i \in Items : disk["firstrun"][i] # Empty[i]}]
  /\ UNCHANGED <<layout, kind, source, rawCopy, working, backup, disk, rounds, executed, clean, bounds>>

\* _mirror_tool_sync: what the scripts made is copied over the sync directory with its
\* time, in the directory's order; what is only there stays.
MirrorItem(i) ==
  /\ pc = "mirror" /\ i \in build.todo
  /\ disk' = [disk EXCEPT !["sync"] =
       [@ EXCEPT ![i] = disk["firstrun"][i],
                 !.newer = IF i = "queue" THEN disk["sync"].newer
                           ELSE i = "plan" /\ "prework" \in build.todo]]
  /\ rounds' = IF i = "queue" THEN rounds ELSE [rounds EXCEPT ![i] = 0]
  /\ build' = [build EXCEPT !.todo = @ \ {i}]
  /\ UNCHANGED <<layout, kind, source, rawCopy, working, backup, recorded, pc, executed, clean, bounds>>

MirrorDone ==
  /\ pc = "mirror" /\ build.todo = {}
  /\ Goto(build.next)
  /\ UNCHANGED <<layout, kind, files, executed, bounds>>

\* RawHldConversionMachine: a converted HLD passes, open questions stop the run.
RawConversion ==
  /\ pc = "raw"
  /\ LET queue == disk[QueueAt].queue IN
       IF Converted(working.lines) THEN Goto("late")
       ELSE IF queue = NoQueue \/ Open(queue) THEN StopRun
       ELSE Goto("apply")
  /\ UNCHANGED <<layout, kind, files, executed, bounds>>

\* The plan the script takes is the one at the queue's plan_path, in the directory the
\* scripts built it in, or else the one beside the queue.
Planned ==
  IF layout = "new" /\ disk["firstrun"].queue # NoQueue THEN disk["firstrun"].queue ELSE disk[QueueAt].queue

\* apply_hld_conversion_decisions.py ends before it writes.
ApplyRefuses ==
  LET queue == disk[QueueAt].queue
  IN  Invalid(queue) \/ AlreadyMarked(working.lines) \/ Raises(queue, Planned.plan)

\* ApplyHldConversionMachine: the first conversion keeps a backup; a text without anchors
\* (WORKING_HLD_NOT_CONVERTED) and a source that is the working HLD (SOURCE_HLD_MUTATED) are
\* found afterwards.
ApplyConversion ==
  /\ pc = "apply"
  /\ IF ApplyRefuses THEN StopRun /\ UNCHANGED <<working, backup>>
     ELSE LET sections == Sections(disk[QueueAt].queue, Planned.plan)
              converted == [working EXCEPT !.lines = Anchor(@, sections)]
          IN  /\ working' = converted
              /\ backup' = IF backup = None THEN working ELSE backup
              /\ IF kind = "working" \/ ~Converted(converted.lines) THEN StopRun ELSE Goto("late")
  /\ UNCHANGED <<layout, kind, source, rawCopy, disk, rounds, recorded, executed, bounds>>

\* Without the decision to accept.
PlanGateGreenOnly ==
  /\ pc = "plan"
  /\ IF Here.plan # None /\ Flags[Here.plan.v] = {} THEN Goto("prework") ELSE StopRun
  /\ UNCHANGED <<layout, kind, files, executed, bounds>>

\* SpecBuildPlanMachine: a green plan, or every flagged spec accepted.
PlanGate ==
  /\ pc = "plan"
  /\ IF Here.plan # None /\ Flags[Here.plan.v] \subseteq Here.accepted
     THEN Goto("prework") ELSE StopRun
  /\ UNCHANGED <<layout, kind, files, executed, bounds>>

\* SpeckitPreworkMachine: the prework is there, its review refuses nothing, and nothing of it
\* is older than its inputs (stale_registered_artifacts).  The guidelines the gate looks for
\* are made anew before the plan gate when they are missing or invalid
\* (_ensure_source_package_guidance).
Refused(p) ==
  disk[p].prework # None /\ <<disk[p].prework.v, p = Reads /\ rounds.prework > 0>> \in Rework
StaleArtifacts == Here.newer
PreworkGate ==
  /\ pc = "prework"
  /\ IF Here.prework # None /\ ~Refused(Reads) /\ ~StaleArtifacts THEN Goto("gate") ELSE StopRun
  /\ UNCHANGED <<layout, kind, files, executed, bounds>>

\* ApprovalGateMachine.
ApprovalGate ==
  /\ pc = "gate"
  /\ executed' = (Here.approval # None)
  /\ StopRun
  /\ UNCHANGED <<layout, kind, files, bounds>>

\* A script fails, or the run dies.
Cut ==
  /\ pc # "idle" /\ cuts < MaxCuts
  /\ cuts' = cuts + 1 /\ pc' = "idle" /\ build' = None
  /\ clean' = (clean /\ pc \notin Building \cup {"freshness", "mirror"})
  /\ UNCHANGED <<layout, kind, files, executed, edits>>

-----------------------------------------------------------------------------
(***************************************************************************)
(* People.                                                                 *)
(***************************************************************************)
\* Who edits a converted HLD keeps its anchors.
Edited(text) ==
  UNION {[v : {v}, lines : IF Converted(text.lines) THEN {text.lines} ELSE Given[v]]
           : v \in Versions \ {text.v}}

EditWorking ==
  /\ working # None /\ edits < MaxEdits /\ edits' = edits + 1
  /\ working' \in Edited(working)
  /\ clean' = (clean /\ pc \notin Building \cup {"freshness"})
  /\ UNCHANGED <<layout, kind, source, rawCopy, backup, disk, rounds, recorded, pc, build, executed, cuts>>

EditSource ==
  /\ kind = "file" /\ edits < MaxEdits /\ edits' = edits + 1
  /\ source' \in Edited(source)
  /\ UNCHANGED <<layout, kind, rawCopy, working, backup, disk, rounds, recorded, pc, build, executed, clean, cuts>>

\* The plan is edited in place (apply_spec_build_plan_decisions.py, or by hand); what it
\* does to the specs that need review is SpecPlanning's.
EditPlan ==
  /\ Here.plan # None /\ Here.prework # None /\ ~Here.newer
  /\ pc = "idle" /\ edits < MaxEdits /\ edits' = edits + 1
  /\ disk' = [disk EXCEPT ![Reads].newer = TRUE]
  /\ rounds' = [rounds EXCEPT !.plan = @ + 1]
  /\ UNCHANGED <<layout, kind, source, rawCopy, working, backup, recorded, pc, build, executed, clean, cuts>>

\* project_continue.sh, legacy, in a workspace that is fresh, converted and has no open
\* questions: the answers are applied to the plan (EditPlan, when they change it) and its
\* review, the prework and the package are made anew beside what people decided.
Rebuild ==
  /\ layout = "legacy" /\ pc = "idle"
  /\ Here.plan # None /\ recorded # None /\ ~Blocking
  /\ Converted(working.lines)
  /\ disk["direct"].queue # NoQueue => ~Open(disk["direct"].queue)
  /\ disk' = [disk EXCEPT ![Reads] = [@ EXCEPT !.prework = disk[Reads].plan, !.newer = FALSE]]
  /\ rounds' = [rounds EXCEPT !.prework = rounds.plan]
  /\ UNCHANGED <<layout, kind, source, rawCopy, working, backup, recorded, pc, build, executed, clean, bounds>>

\* cp HLD.md.pre-hldspec.bak HLD.md
Restore ==
  /\ backup # None /\ working # backup /\ pc = "idle"
  /\ edits < MaxEdits /\ edits' = edits + 1
  /\ working' = backup
  /\ UNCHANGED <<layout, kind, source, rawCopy, backup, disk, rounds, recorded, pc, build, executed, clean, cuts>>

\* The questions of a raw HLD.
Asks == working # None /\ ~Converted(working.lines) /\ disk[QueueAt].queue # NoQueue

\* An open one is answered with the tool, or in the file.
Answer ==
  /\ Asks
  /\ \E q \in DOMAIN disk[QueueAt].queue.answers, new \in [decision : Decisions, splits : {{}} \cup HandSplits] :
       /\ disk[QueueAt].queue.answers[q] = Unanswered
       /\ new.splits # {} => new.decision = "MODIFY_SPLIT"
       /\ disk' = [disk EXCEPT ![QueueAt].queue.answers[q] = new]
  /\ UNCHANGED <<layout, kind, source, rawCopy, working, backup, rounds, recorded, pc, build, executed, clean, bounds>>

\* Somebody keeps the sections as they are, whatever was answered.
Keep ==
  /\ Asks
  /\ disk' = [disk EXCEPT ![QueueAt].queue.answers = [q \in DOMAIN @ |-> [decision |-> "KEEP_AS_ONE", splits |-> {}]]]
  /\ disk' # disk
  /\ UNCHANGED <<layout, kind, source, rawCopy, working, backup, rounds, recorded, pc, build, executed, clean, bounds>>

\* ACCEPT_WITH_RATIONALE with the flagged specs of the plan.
Accept ==
  /\ Here.plan # None /\ ~(Flags[Here.plan.v] \subseteq Here.accepted)
  /\ disk' = [disk EXCEPT ![Reads].accepted = Flags[Here.plan.v]]
  /\ UNCHANGED <<layout, kind, source, rawCopy, working, backup, rounds, recorded, pc, build, executed, clean, bounds>>

\* approve_hldspec_prework.py takes the first legacy directory with a package, and refuses
\* one whose review has blockers; in the new layout it finds none and the record is written
\* to the sync directory without it.
ApproveAt ==
  IF layout = "new" THEN "sync" ELSE IF disk["direct"].prework # None THEN "direct" ELSE "firstrun"
Decidable == disk[ApproveAt].prework # None /\ (layout = "legacy" => ~Refused(ApproveAt))
Approve ==
  /\ Decidable /\ disk[ApproveAt].approval # disk[ApproveAt].prework
  /\ disk' = [disk EXCEPT ![ApproveAt].approval = disk[ApproveAt].prework]
  /\ UNCHANGED <<layout, kind, source, rawCopy, working, backup, rounds, recorded, pc, build, executed, clean, bounds>>

\* Any other decision than APPROVE_PLAN closes the gate again.
Reject ==
  /\ Decidable /\ disk[ApproveAt].approval # None
  /\ edits < MaxEdits /\ edits' = edits + 1
  /\ disk' = [disk EXCEPT ![ApproveAt].approval = None]
  /\ UNCHANGED <<layout, kind, source, rawCopy, working, backup, rounds, recorded, pc, build, executed, clean, cuts>>

Run == \/ Begin \/ EnsureFirstReadonly \/ BuildQueue \/ BuildPlan \/ MapFails \/ BuildPrework \/ WriteFreshness
       \/ (\E i \in Items : MirrorItem(i)) \/ MirrorDone
       \/ RawConversion \/ ApplyConversion \/ PlanGate \/ PreworkGate \/ ApprovalGate

People ==
  \/ EditWorking \/ EditSource \/ EditPlan \/ Rebuild \/ Restore \/ Answer \/ Keep \/ Accept \/ Approve \/ Reject

Next == Run \/ Cut \/ People

Spec == Init /\ [][Next]_vars

\* Runs are repeated until one got to SpecKit: Begin is enabled when no run is on, and some
\* step of a run that is on always is.
RunsGoOn == []<>(executed /\ pc = "idle") \/ []<><<TRUE>>_<<pc, build>>

\* People answer, accept and approve; edits and cuts are not owed.
FairSpec ==
  /\ Spec /\ RunsGoOn /\ WF_vars(Keep) /\ WF_vars(Accept) /\ WF_vars(Approve)

-----------------------------------------------------------------------------
\* The type invariant.
TypeOK ==
  /\ layout \in Layouts /\ kind \in Sources
  /\ source \in Texts /\ {rawCopy, working, backup, recorded} \subseteq Texts \cup {None}
  /\ disk \in [Places -> Dirs] /\ rounds \in Rounds
  /\ pc \in Steps
  /\ build = None \/ build \in [of : Texts, at : Places, next : Steps, todo : SUBSET Items]
  /\ {executed, clean} \subseteq BOOLEAN
  /\ edits \in 0..MaxEdits /\ cuts \in 0..MaxCuts

\* What the next run would reuse was built from the working HLD as it is, however often
\* the HLD was edited, reverted and rebuilt, unless the last read-only run was cut short
\* or the HLD was edited during it.
ReusedIsCurrent ==
  pc = "idle" /\ clean /\ UpToDate => Here.plan = working /\ Here.prework = working

\* In the legacy layout the package that reaches SpecKit was made from the HLD whose package
\* a person approved, since the script that reads a HLD removes the approval, and has in it
\* every change people made to the plan.  It need not be the package that was approved:
\* project_continue.sh makes it anew and leaves the approval.  In the new layout the
\* approval always stays.
LegacyApprovalFits ==
  [][executed' /\ ~executed /\ layout = "legacy" =>
       Here.approval = Here.prework /\ rounds.prework = rounds.plan]_vars

\* A conversion planned for the text as it is, and split as proposed or kept, marks all of it:
\* every line is still there in its order, all anchors are outside of code blocks, numbered
\* and declared, the only major heading in front of them is the title, and a large section
\* is one, or part of one, that somebody was asked about.
ByHand(queue) == \E q \in DOMAIN queue.answers : queue.answers[q].splits # {}
IsMark(line) == line.kind \in {"anchor", "id"}
Marks(t, u) ==
  LET original(i) == Cardinality({j \in 1..i : ~IsMark(u[j])})
      first(i) == original(i) + 1
      last(i) == original(EndIn(Existing(u), i, u))
  IN  /\ original(Len(u)) = Len(t)
      /\ \A i \in DOMAIN u : ~IsMark(u[i]) => u[i] = t[original(i)]
      /\ Existing(u) = {i \in DOMAIN u : u[i].kind = "anchor"} /\ MapValid(u)
      /\ \A h \in Headings(u) : (\A i \in Existing(u) : h < i) =>
           Level(u[h]) > 2 \/ (Level(u[h]) = 1 /\ h = Min(Headings(u)))
      /\ \A i \in Existing(u) : last(i) - first(i) + 1 >= Large =>
           \E k \in Questioned(Plan(t)) : k <= first(i) /\ last(i) <= Plan(t)[k].end
ConversionFits ==
  [][LET queue == disk[QueueAt].queue
     IN  pc = "apply" /\ pc' # "apply" /\ working' # working /\ working.lines = Planned.of
           /\ queue.of = Planned.of /\ ~ByHand(queue)
         => Marks(working.lines, working'.lines)]_vars

\* In the new layout runs that are repeated get to SpecKit once edits and failures have
\* ended, unless what is reused was cut short, its plan was edited or its prework is
\* refused, the conversion was planned for another text, there is nothing to mark, anchors
\* are only in code blocks, or the map has errors.
Wedged ==
  \/ UpToDate /\ (Here.newer \/ Here.prework = None \/ Refused(Reads))
  \/ /\ working # None
     /\ IF Converted(working.lines) THEN ~Ready(working.lines) \/ ~MapValid(working.lines) \/ <<working.v, FALSE>> \in Rework
        ELSE \/ AlreadyMarked(working.lines) \/ Candidates(working.lines) = {}
             \/ /\ disk[QueueAt].queue # NoQueue
                /\ Planned.of # working.lines \/ disk[QueueAt].queue.of # Planned.of
NewLayoutGetsThrough == layout = "new" => <>(executed \/ []Wedged)
=============================================================================
