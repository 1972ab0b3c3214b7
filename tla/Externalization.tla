--------------------------- MODULE Externalization ---------------------------
(***************************************************************************)
(* Where a target's HLDspec control state lives: hldspec start staging it  *)
(* in the target and, with --state-location external, moving it to a       *)
(* controller root named by .hldspec-run.json; tools that resolve the      *)
(* pointer and then write; a crash between any two file operations.        *)
(*                                                                         *)
(* Files by who writes them: the session (agent_session.json, interview,   *)
(* prompts) is always staged in the target; the package (source package,   *)
(* session plan, freshness) goes where the pointer says; the records are   *)
(* what other commands add (audit log, approvals, sync state).             *)
(***************************************************************************)
EXTENDS Naturals

CONSTANTS
  Target,     \* the target directory
  Sources,    \* source HLDs; each has its own controller root
  Records,    \* files other commands write, one write each
  Absent,     \* no file, no pointer
  Torn,       \* a file whose write was interrupted
  MaxStarts   \* bound: how often start is run

Places == {Target} \cup Sources
Names == {"session", "package"} \cup Records

ASSUME PlacesAssumption ==
  /\ Target \notin Sources
  /\ {Absent, Torn} \cap (Places \cup Nat) = {}
  /\ {"new", "done"} \cap Places = {}
  /\ {"session", "package"} \cap Records = {}
ASSUME MaxStartsAssumption == MaxStarts \in Nat

VARIABLES
  files,     \* what each place's control directory holds: the start that wrote it
  pointer,   \* the controller root .hldspec-run.json names
  pc,        \* where the running start command is
  start,     \* its source, state location and the names its mirror pass saw
  todo,      \* names that pass has not copied yet
  begun,     \* starts begun
  finished,  \* the last start that returned
  tool,      \* per record: no place yet, the place resolved for it, written
  settled    \* records written where the pointer said while no start was running

vars == <<files, pointer, pc, start, todo, begun, finished, tool, settled>>
toolVars == <<tool, settled>>

Content == {Absent, Torn} \cup 0..MaxStarts

Put(p, x, v) == files' = [files EXCEPT ![p][x] = v]
Present(p) == {x \in Names : files[p][x] # Absent}
Whole(p, x) == files[p][x] \notin {Absent, Torn}

\* control_paths.resolve_hldspec_dir: the pointer's controller, else the target.
Resolve == IF pointer = Absent THEN Target ELSE pointer

Init ==
  /\ files = [p \in Places |-> [x \in Names |-> Absent]]
  /\ pointer = Absent
  /\ pc = "idle" /\ todo = {} /\ begun = 0 /\ finished = 0
  /\ start \in [src : Sources, external : {FALSE}, names : {{}}]
  /\ tool = [r \in Records |-> "new"] /\ settled = {}

-----------------------------------------------------------------------------
(***************************************************************************)
(* command_start.                                                          *)
(***************************************************************************)
Begin ==
  /\ pc = "idle" /\ begun < MaxStarts
  /\ begun' = begun + 1
  /\ start' \in [src : Sources, external : BOOLEAN, names : {{}}]
  /\ pc' = "stage"
  /\ UNCHANGED <<files, pointer, todo, finished, toolVars>>

\* Discovery finds a target it has no trusted lineage for, and start gives up.
Blocked ==
  /\ pc = "stage" /\ ~Whole(Resolve, "package")
  /\ pc' = "idle"
  /\ UNCHANGED <<files, pointer, start, todo, begun, finished, toolVars>>

\* The session is written in the target, wherever the pointer leads.
Stage ==
  /\ pc = "stage"
  /\ Put(Target, "session", begun)
  /\ pc' = "build"
  /\ UNCHANGED <<pointer, start, todo, begun, finished, toolVars>>

\* The source package is written where the pointer leads, also before this start
\* moves it.
BuildPackage ==
  /\ pc = "build"
  /\ Put(Resolve, "package", begun)
  /\ pc' = IF start.external THEN "list" ELSE "finish"
  /\ UNCHANGED <<pointer, start, todo, begun, finished, toolVars>>

\* copy_target_control_artifacts: list the target's names, copy each to the
\* controller, then remove there what was not listed.
MirrorList ==
  /\ pc = "list"
  /\ todo' = Present(Target)
  /\ start' = [start EXCEPT !.names = Present(Target)]
  /\ pc' = "mirror"
  /\ UNCHANGED <<files, pointer, begun, finished, toolVars>>

MirrorCopy(x) ==
  /\ pc = "mirror" /\ x \in todo
  /\ Put(start.src, x, files[Target][x])
  /\ todo' = todo \ {x}
  /\ UNCHANGED <<pointer, pc, start, begun, finished, toolVars>>

MirrorRemove(x) ==
  /\ pc = "mirror" /\ todo = {} /\ x \in Present(start.src) \ start.names
  /\ Put(start.src, x, Absent)
  /\ UNCHANGED <<pointer, pc, start, todo, begun, finished, toolVars>>

\* Without waiting for the copies.
MirrorDoneEarly ==
  /\ pc = "mirror"
  /\ pc' = "point" /\ todo' = {}
  /\ UNCHANGED <<files, pointer, start, begun, finished, toolVars>>

MirrorDone ==
  /\ pc = "mirror" /\ todo = {} /\ Present(start.src) \subseteq start.names
  /\ pc' = "point"
  /\ UNCHANGED <<files, pointer, start, todo, begun, finished, toolVars>>

\* Keeping a pointer that is already there.
KeepPointer ==
  /\ pc = "point"
  /\ pointer' = IF pointer = Absent THEN start.src ELSE pointer
  /\ pc' = "delete"
  /\ UNCHANGED <<files, start, todo, begun, finished, toolVars>>

\* write_pointer: a temporary file and os.replace.
WritePointer ==
  /\ pc = "point"
  /\ pointer' = start.src
  /\ pc' = "delete"
  /\ UNCHANGED <<files, start, todo, begun, finished, toolVars>>

\* Already before the pointer is written.
DeleteEarly(x) ==
  /\ pc \in {"point", "delete"} /\ x \in Present(Target)
  /\ Put(Target, x, Absent)
  /\ UNCHANGED <<pointer, pc, start, todo, begun, finished, toolVars>>

\* delete_target_control_artifacts: rmtree, name by name.
Delete(x) ==
  /\ pc = "delete" /\ x \in Present(Target)
  /\ Put(Target, x, Absent)
  /\ UNCHANGED <<pointer, pc, start, todo, begun, finished, toolVars>>

DeleteDone ==
  /\ pc = "delete" /\ Present(Target) = {}
  /\ pc' = "finish"
  /\ UNCHANGED <<files, pointer, start, todo, begun, finished, toolVars>>

Return ==
  /\ pc = "finish"
  /\ pc' = "idle" /\ finished' = begun
  /\ UNCHANGED <<files, pointer, start, todo, begun, toolVars>>

\* The files a crash at this point can leave half-written: write_text and copy2
\* truncate before they write.
BeingWritten ==
  CASE pc = "stage" -> {<<Target, "session">>}
    [] pc = "build" -> {<<Resolve, "package">>}
    [] pc = "mirror" -> {start.src} \X todo
    [] OTHER -> {}

Crash ==
  /\ pc # "idle"
  /\ pc' = "idle" /\ todo' = {}
  /\ \/ UNCHANGED files
     \/ \E w \in BeingWritten : Put(w[1], w[2], Torn)
  /\ UNCHANGED <<pointer, start, begun, finished, toolVars>>

-----------------------------------------------------------------------------
(***************************************************************************)
(* Any other command: it resolves the control directory, then writes.      *)
(***************************************************************************)
ToolResolve(r) ==
  /\ tool[r] = "new"
  /\ tool' = [tool EXCEPT ![r] = Resolve]
  /\ UNCHANGED <<files, pointer, pc, start, todo, begun, finished, settled>>

ToolWrite(r) ==
  /\ tool[r] \in Places
  /\ Put(tool[r], r, 0)
  /\ tool' = [tool EXCEPT ![r] = "done"]
  /\ settled' = IF pc = "idle" /\ tool[r] = Resolve THEN settled \cup {r} ELSE settled
  /\ UNCHANGED <<pointer, pc, start, todo, begun, finished>>

Next ==
  \/ Begin \/ Blocked \/ Stage \/ BuildPackage \/ MirrorList \/ MirrorDone
  \/ WritePointer \/ DeleteDone \/ Return \/ Crash
  \/ \E x \in Names : MirrorCopy(x) \/ MirrorRemove(x) \/ Delete(x)
  \/ \E r \in Records : ToolResolve(r) \/ ToolWrite(r)

Spec == Init /\ [][Next]_vars

-----------------------------------------------------------------------------
\* The type invariant.
TypeOK ==
  /\ files \in [Places -> [Names -> Content]]
  /\ pointer \in Sources \cup {Absent}
  /\ pc \in {"idle", "stage", "build", "list", "mirror", "point", "delete", "finish"}
  /\ start \in [src : Sources, external : BOOLEAN, names : SUBSET Names]
  /\ todo \subseteq Names
  /\ begun \in 0..MaxStarts /\ finished \in 0..begun
  /\ tool \in [Records -> Places \cup {"new", "done"}]
  /\ settled \subseteq Records

\* A whole session in the target, or in the controller the pointer names.
HasControl ==
  \/ Whole(Target, "session")
  \/ pointer # Absent /\ Whole(pointer, "session")

\* An externalization interrupted anywhere, re-run any number of times with any
\* source, never leaves the target with neither local control state nor a pointer to
\* some: only a crash while the session itself is being staged can.
InterruptionKeepsControl == [][HasControl /\ pc # "stage" => HasControl']_vars

\* While the target has no pointer, no step takes a settled record away from the
\* readers, the one that writes the pointer included: what it redirects them to is
\* complete, whatever crashed and restarted before.
FirstMoveKeepsRecords ==
  [][pointer = Absent =>
       \A r \in settled : Whole(Resolve, r) => Whole(Resolve, r)']_vars

Returned == pc = "idle" /\ finished = begun /\ begun > 0

\* After an external start returned, every reader resolves the session it wrote,
\* wherever the control state was before, and the target holds none.
ExternalStartTakesEffect ==
  Returned /\ start.external =>
    files[Resolve]["session"] = begun /\ ~Whole(Target, "session")
=============================================================================
