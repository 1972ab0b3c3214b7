----------------------------- MODULE SectionSync -----------------------------
(***************************************************************************)
(* hld_spec_sync.py with --use-hld-map --target-hld: a run brings the spec *)
(* of one HLD section up to date.  It parses the HLD, asks an agent,       *)
(* stages what the agent wrote, tries it on a copy of the workspace,       *)
(* applies it file by file and records in the run state the hashes of      *)
(* every section it needed.  --resume skips a target whose sections are    *)
(* recorded as they are.  Runs overlap, fail and die; people edit the HLD. *)
(***************************************************************************)
EXTENDS Naturals, FiniteSets, SequencesExt

CONSTANTS
  Sections,   \* ids of the HLD's sections
  Targets,    \* the sections runs are started for
  Refs,       \* Refs[s]: the sections s refers to, required references first
  High,       \* the sections of risk HIGH
  Size,       \* Size[s]: room a section takes in the prompt
  Budget,     \* --max-hld-map-context-chars; 0 is no limit
  Versions,   \* what a section may say: content, metadata and references
  Unresolved, \* the sections with what they say when they are active without HLD-SPECS, or
              \* have a BLOCKED_BY or CONFLICTS_WITH reference
  NumRuns,    \* bound: runs at a time
  None,
  MaxUpsets   \* bound: edits of the HLD, runs without --resume, runs that die and agents
              \* that do not write what they should

ASSUME SectionsAssumption == Targets \subseteq Sections /\ High \subseteq Sections
ASSUME RefsAssumption == Refs \in [Sections -> Seq(Sections)]
ASSUME SizeAssumption == Size \in [Sections -> Nat] /\ Budget \in Nat
ASSUME VersionsAssumption == Versions # {} /\ Unresolved \subseteq Sections \X Versions
ASSUME BoundsAssumption == {MaxUpsets, NumRuns} \subseteq Nat

Slots == 1..NumRuns
Referred(s) == {Refs[s][i] : i \in DOMAIN Refs[s]}

\* target_required_section_ids: references are followed once, from a HIGH section twice.
Required ==
  [t \in Targets |-> {t} \cup Referred(t) \cup UNION {Referred(s) : s \in Referred(t) \cap High}]

\* select_hld_context: breadth first, a section is loaded if it still fits.
LoadOrder(t) ==
  <<t>> \o Refs[t] \o
  FlattenSeq([i \in DOMAIN Refs[t] |-> IF Refs[t][i] \in High THEN Refs[Refs[t][i]] ELSE <<>>])

Load(chosen, s) ==
  IF s \in chosen.ids \/ (Budget > 0 /\ chosen.used + Size[s] > Budget) THEN chosen
  ELSE [ids |-> chosen.ids \cup {s}, used |-> chosen.used + Size[s]]
Chosen(order) ==
  LET chosen[n \in 0..Len(order)] ==
        IF n = 0 THEN [ids |-> {}, used |-> 0] ELSE Load(chosen[n - 1], order[n])
  IN chosen[Len(order)]
Loaded == [t \in Targets |-> Chosen(LoadOrder(t)).ids]

VARIABLES
  hld,      \* the HLD
  spec,     \* specs/<t>/spec.md: the texts it was written from and the run that wrote it
  reports,  \* the required reports and skeptic_conflicts.json
  state,    \* map_run_state.json
  run,      \* the processes
  last,     \* history: last[t] is the process that wrote t's spec, until it has recorded;
            \* then 0, until an entry t needs is changed by another run
  upsets

vars == <<hld, spec, reports, state, run, last, upsets>>

Upset == upsets < MaxUpsets /\ upsets' = upsets + 1

\* An entry of the run state: the section's hash and whether its status is "done".
Entry == [of : Versions, done : BOOLEAN]
SpecTexts == [of : UNION {[S -> Versions] : S \in SUBSET Sections}, whole : BOOLEAN]

Kinds == {"resume", "anew", "look"}

\* What an agent may do: fail, write nothing, something that does not validate or reports a
\* duplicate, missing or stale spec, or the spec and the reports, with an unresolved conflict
\* among them or without.
Outcomes == {"fails", "nothing", "invalid", "conflict", "handled"}

Runs == [pc : {"agent", "staged", "apply", "write"},
         target : Targets, kind : Kinds, snap : [Sections -> Versions],
         out : Outcomes \cup {None}, left : SUBSET {"spec", "reports"},
         done : BOOLEAN, mem : {None} \cup [Sections -> {None} \cup Entry]]

ASSUME NoneAssumption == None \notin Runs \cup SpecTexts \cup Entry \cup (0..NumRuns)

Unrecorded == [s \in Sections |-> None]

Init ==
  /\ hld = [s \in Sections |-> CHOOSE v \in Versions : TRUE]
  /\ spec = [t \in Targets |-> None] /\ reports = None /\ state = Unrecorded
  /\ run = [r \in Slots |-> None]
  /\ last = [t \in Targets |-> None] /\ upsets = 0

-----------------------------------------------------------------------------
(***************************************************************************)
(* Reading.                                                                *)
(***************************************************************************)
\* resume_skip_reason.
Skips(t) ==
  /\ \A s \in Required[t] : state[s] # None /\ state[s].of = hld[s]
  /\ state[t].done

\* With a spec wanted for every target.
ValidWhenComplete(specs, reps) ==
  reps \in {"handled", "conflict"} /\ \A t \in Targets : specs[t] # None /\ specs[t].whole

\* validate_outputs: the reports are there, and every spec has its sections.
Valid(specs, reps) ==
  reps \in {"handled", "conflict"} /\ \A t \in Targets : specs[t] = None \/ specs[t].whole

\* validate_map_consolidation: no section of the HLD, as it was parsed, is unresolved.
Consolidated(snap) == \A s \in Sections : <<s, snap[s]>> \notin Unresolved

WrittenSpec(r) ==
  [of |-> [s \in Loaded[run[r].target] |-> run[r].snap[s]], whole |-> run[r].out # "invalid"]

\* The run's status is known: update_run_state loads the state, to write it in a later step.
ToRecord(r, done) ==
  [run EXCEPT ![r] = [@ EXCEPT !.pc = "write", !.done = done, !.kind = "resume", !.out = None,
                               !.mem = state]]

Writes(r) == IF run[r].out = "nothing" THEN {}
             ELSE IF run[r].kind = "look" THEN {"reports"} ELSE {"spec", "reports"}

-----------------------------------------------------------------------------
(***************************************************************************)
(* A run.                                                                  *)
(***************************************************************************)
\* main until the agent is called: the map is parsed, a resumed run may end here.
\* Processes are alike: a new one takes the first free slot.
Start(r, t, kind) ==
  /\ run[r] = None /\ \A q \in 1..(r - 1) : run[q] # None
  /\ kind = "resume" => ~Skips(t)
  /\ IF kind = "resume" THEN UNCHANGED upsets ELSE Upset
  /\ run' = [run EXCEPT ![r] =
       [pc |-> "agent", target |-> t, kind |-> kind, snap |-> hld,
        out |-> None, left |-> {}, done |-> FALSE, mem |-> None]]
  /\ UNCHANGED <<hld, spec, reports, state, last>>

\* The agent exits; a failed one is recorded.
AgentEnds(r, out) ==
  /\ run[r] # None /\ run[r].pc = "agent"
  /\ IF out = "handled" THEN UNCHANGED upsets ELSE Upset
  /\ run' = IF out = "fails" THEN ToRecord(r, FALSE)
            ELSE [run EXCEPT ![r].out = out, ![r].pc = "staged"]
  /\ UNCHANGED <<hld, spec, reports, state, last>>

\* Applied without being tried.
TryAndApply(r) ==
  /\ run[r] # None /\ run[r].pc = "staged"
  /\ run' = [run EXCEPT ![r].left = Writes(r), ![r].pc = "apply"]
  /\ UNCHANGED <<hld, spec, reports, state, last, upsets>>

\* stage_write_blocks, copy_validation_workspace: what was written is tried on a copy and
\* nothing is applied if the copy does not validate.
Try(r) ==
  /\ run[r] # None /\ run[r].pc = "staged"
  /\ LET w == Writes(r)
         specs == IF "spec" \in w THEN [spec EXCEPT ![run[r].target] = WrittenSpec(r)] ELSE spec
         valid == /\ Valid(specs, IF "reports" \in w THEN run[r].out ELSE reports)
                  /\ Consolidated(run[r].snap)
                  /\ run[r].kind # "look" => \E t \in Targets : specs[t] # None
     IN run' = IF valid THEN [run EXCEPT ![r].left = w, ![r].pc = "apply"]
               ELSE ToRecord(r, FALSE)
  /\ UNCHANGED <<hld, spec, reports, state, last, upsets>>

\* apply_staged_writes_to_workspace, one file at a time.
Apply(r, file) ==
  /\ run[r] # None /\ run[r].pc = "apply" /\ file \in run[r].left
  /\ spec' = IF file = "spec" THEN [spec EXCEPT ![run[r].target] = WrittenSpec(r)] ELSE spec
  /\ reports' = IF file = "reports" THEN run[r].out ELSE reports
  /\ run' = [run EXCEPT ![r].left = @ \ {file}]
  /\ last' = IF file = "spec" THEN [last EXCEPT ![run[r].target] = r] ELSE last
  /\ UNCHANGED <<hld, state, upsets>>

\* The workspace is validated again, and evaluate_skeptic_outputs reads the conflicts.
Judge(r) ==
  /\ run[r] # None /\ run[r].pc = "apply" /\ run[r].left = {}
  /\ run' = ToRecord(r, Valid(spec, reports) /\ Consolidated(run[r].snap) /\ reports # "conflict")
  /\ UNCHANGED <<hld, spec, reports, state, last, upsets>>

\* With the HLD as it is at the end.
RecordedNow(r) ==
  [s \in Sections |->
    IF s \notin Required[run[r].target] THEN run[r].mem[s]
    ELSE [of |-> hld[s], done |-> (s = run[r].target => run[r].done)]]

\* update_run_state writes the state it loaded with an entry for every section the target
\* needs; the status is the run's for the target alone, and "done" for the others.
Recorded(r) ==
  [s \in Sections |->
    IF s \notin Required[run[r].target] THEN run[r].mem[s]
    ELSE [of |-> run[r].snap[s], done |-> (s = run[r].target => run[r].done)]]

RecordWrites(r) ==
  /\ run[r] # None /\ run[r].pc = "write"
  /\ state' = Recorded(r)
  /\ last' = [t \in Targets |->
       IF last[t] = r THEN 0
       ELSE IF last[t] = 0 /\ \E s \in Required[t] :
                               s \in Required[run[r].target] \/ state'[s] # state[s]
       THEN None ELSE last[t]]
  /\ run' = [run EXCEPT ![r] = None]
  /\ UNCHANGED <<hld, spec, reports, upsets>>

\* The process dies; a file it was writing is torn, an unreadable run state is an empty one.
Die(r) ==
  /\ run[r] # None /\ Upset
  /\ \/ UNCHANGED <<spec, state>>
     \/ /\ run[r].pc = "apply" /\ "spec" \in run[r].left
        /\ spec' = [spec EXCEPT ![run[r].target] = [WrittenSpec(r) EXCEPT !.whole = FALSE]]
        /\ UNCHANGED state
     \/ run[r].pc = "write" /\ state' = Unrecorded /\ UNCHANGED spec
  /\ run' = [run EXCEPT ![r] = None]
  /\ last' = [t \in Targets |->
       IF last[t] = r \/ state' # state \/ spec'[t] # spec[t] THEN None ELSE last[t]]
  /\ UNCHANGED <<hld, reports>>

\* --restart-map-run clears the run state.
Restart ==
  /\ Upset
  /\ state' = Unrecorded
  /\ last' = [t \in Targets |-> IF last[t] = 0 THEN None ELSE last[t]]
  /\ UNCHANGED <<hld, spec, reports, run>>

Edit(s) ==
  /\ Upset
  /\ \E v \in Versions \ {hld[s]} : hld' = [hld EXCEPT ![s] = v]
  /\ UNCHANGED <<spec, reports, state, run, last>>

Proceed(r) ==
  \/ \E out \in Outcomes : AgentEnds(r, out)
  \/ Try(r) \/ (\E file \in {"spec", "reports"} : Apply(r, file)) \/ Judge(r)
  \/ RecordWrites(r)

Next ==
  \/ \E r \in Slots : \/ \E t \in Targets, kind \in Kinds : Start(r, t, kind)
                      \/ Proceed(r) \/ Die(r)
  \/ Restart
  \/ \E s \in Sections : Edit(s)

Spec == Init /\ [][Next]_vars

\* A process that runs goes on, and every target is resumed again and again.
FairSpec ==
  /\ Spec
  /\ \A r \in Slots : WF_vars(Proceed(r))
  /\ \A t \in Targets : SF_vars(\E r \in Slots : Start(r, t, "resume"))

-----------------------------------------------------------------------------
\* The type invariant.
TypeOK ==
  /\ hld \in [Sections -> Versions]
  /\ spec \in [Targets -> {None} \cup SpecTexts] /\ reports \in {None} \cup Outcomes
  /\ state \in [Sections -> {None} \cup Entry]
  /\ run \in [Slots -> {None} \cup Runs]
  /\ last \in [Targets -> (0..NumRuns) \cup {None}] /\ upsets \in 0..MaxUpsets

Current(t) == spec[t] # None /\ spec[t].whole /\ \A s \in Loaded[t] : spec[t].of[s] = hld[s]

\* A resumed run that is skipped leaves a spec written from the HLD as it is, if the
\* records it relies on are those of the run that wrote the spec: edits during a run,
\* overlapping runs and lost records do not break it.
SkipIsRight ==
  \A t \in Targets :
    Skips(t) /\ last[t] = 0 => Current(t)

\* A workspace that validates goes on doing so, whatever agents write, unless a run dies
\* in the middle of a file.
WorkspaceStaysValid ==
  [][Valid(spec, reports) => Valid(spec', reports') \/ upsets' > upsets]_vars

\* Once edits, faults and extra runs have ended, resumed runs come to an end, except that
\* an unresolved section of the HLD fails every run, whatever its target, and a torn spec
\* every run of another target: two of them, or one whose section is recorded as done, are
\* never written again.
Torn == {t \in Targets : spec[t] # None /\ ~spec[t].whole}
Wedged == ~Consolidated(hld) \/ \E t \in Torn : Skips(t) \/ Torn # {t}
RunsSettle == <>[](Wedged \/ \A t \in Targets : Skips(t))
=============================================================================
