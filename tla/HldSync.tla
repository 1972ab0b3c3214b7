------------------------------- MODULE HldSync -------------------------------
(***************************************************************************)
(* run_sync (hldspec/hld_sync.py): after edits of the HLD, which finished  *)
(* specs are stale.  The done ledger keeps, for a spec seen finished, the  *)
(* fingerprints of its HLD sections and the time of its newest artifact.   *)
(* Editors, the SpecKit agent and the sync take turns in any order.        *)
(***************************************************************************)
EXTENDS Naturals

CONSTANTS
  Specs,       \* short names of the specs
  Anchors,     \* anchors of the HLD
  SectionsOf,  \* source_hld_sections of each spec
  Texts,       \* fingerprints a section may have
  Absent,      \* no such section, no ledger entry
  MaxTime      \* bound: edits and builds, each at a later time than the one before

ASSUME SectionsOfAssumption == SectionsOf \in [Specs -> SUBSET Anchors]
ASSUME MaxTimeAssumption == MaxTime \in Nat

Times == 0..MaxTime
Fingerprints == [Anchors -> Texts \cup {Absent}]
DoneEntry(s) == [sections : [SectionsOf[s] -> Texts \cup {Absent}], artifacts_mtime : Times]

ASSUME AbsentAssumption ==
  Absent \notin Texts \cup Fingerprints /\ \A s \in Specs : Absent \notin DoneEntry(s)

VARIABLES
  working,   \* fingerprint of each section of the working HLD
  hldTime,   \* its mtime
  built,     \* per spec, mtime of its newest artifact and the HLD it was made from
  verified,  \* specs in the queue that are DONE_VERIFIED on disk
  ledger,    \* speckit_done_ledger.json: per spec an entry or Absent
  seen,      \* the fingerprints the running sync has read, Absent when none runs
  adopted    \* specs recorded with sections that nothing was built from, because it
             \* was the first record or the HLD was edited during the sync

syncVars == <<working, hldTime, built, verified, ledger, seen, adopted>>

Now == IF \E s \in Specs : built[s].time > hldTime
       THEN CHOOSE t \in {built[s].time : s \in Specs} : \A s \in Specs : built[s].time <= t
       ELSE hldTime

\* What a fingerprint map says of the sections of a spec.
On(s, f) == [a \in SectionsOf[s] |-> f[a]]
BuiltFrom(s, f) == On(s, built[s].from) = On(s, f)

SyncInit ==
  /\ working \in [Anchors -> Texts] /\ hldTime = 0
  /\ built = [s \in Specs |-> [time |-> 0, from |-> working]]
  /\ verified \in SUBSET Specs
  /\ ledger = [s \in Specs |-> Absent] /\ seen = Absent
  /\ adopted = {}

-----------------------------------------------------------------------------
\* A section is changed, removed, added or changed back.
EditHld(a) ==
  /\ Now < MaxTime /\ hldTime' = Now + 1
  /\ \E t \in (Texts \cup {Absent}) \ {working[a]} : working' = [working EXCEPT ![a] = t]
  /\ UNCHANGED <<built, verified, ledger, seen, adopted>>

\* SpecKit writes an artifact of the spec.
Build(s) ==
  /\ Now < MaxTime
  /\ built' = [built EXCEPT ![s] = [time |-> Now + 1, from |-> working]]
  /\ UNCHANGED <<working, hldTime, verified, ledger, seen, adopted>>

\* The evidence of a spec passes or no longer does, or it enters or leaves the queue.
Toggle(s) ==
  /\ verified' = IF s \in verified THEN verified \ {s} ELSE verified \cup {s}
  /\ UNCHANGED <<working, hldTime, built, ledger, seen, adopted>>

-----------------------------------------------------------------------------
(***************************************************************************)
(* The sync.                                                               *)
(***************************************************************************)
HasSections(f) == \E a \in Anchors : f[a] # Absent

\* _ledger_status: the spec is recorded when there is no entry, and again after a build
\* that is also newer than the HLD ...
RecordsAnyBuild(s) == ledger[s] = Absent \/ built[s].time > ledger[s].artifacts_mtime

Records(s) ==
  \/ ledger[s] = Absent
  \/ built[s].time > ledger[s].artifacts_mtime /\ built[s].time >= hldTime

\* ... and otherwise it is stale when a section is gone or not as recorded.
StaleSections(s, f) ==
  \E a \in SectionsOf[s] : f[a] = Absent \/ ledger[s].sections[a] # f[a]

Status(s) ==
  IF s \notin verified THEN "PENDING"
  ELSE IF HasSections(working) /\ ~Records(s) /\ StaleSections(s, working) THEN "DONE_STALE"
  ELSE "DONE_VERIFIED"

\* What the ledger keeps of a finished spec.
Snapshot(s, f) == [sections |-> On(s, f), artifacts_mtime |-> built[s].time]

\* Without keeping the entry of a stale spec.
RecordsWhateverIsDone(s, f) == IF s \in verified THEN Snapshot(s, f) ELSE Absent

\* The entry the new ledger has.  A spec that is not finished gets none.
NewEntry(s, f) ==
  IF s \notin verified THEN Absent
  ELSE IF HasSections(f) /\ Records(s) THEN Snapshot(s, f)
  ELSE ledger[s]

\* run_sync reads the text of the HLD ...
SyncReads ==
  /\ seen = Absent
  /\ seen' = working
  /\ UNCHANGED <<working, hldTime, built, verified, ledger, adopted>>

\* ... and then, with that text, the evidence and the times of the artifacts and of
\* the HLD, which may be edited meanwhile; and it writes the ledger.
Sync ==
  /\ seen # Absent
  /\ ledger' = [s \in Specs |-> NewEntry(s, seen)]
  /\ adopted' = {s \in Specs :
       /\ NewEntry(s, seen) # Absent
       /\ \/ /\ NewEntry(s, seen) # ledger[s] /\ ~BuiltFrom(s, seen)
             /\ ledger[s] = Absent \/ seen # working
          \/ s \in adopted /\ NewEntry(s, seen) = ledger[s]}
  /\ seen' = Absent
  /\ UNCHANGED <<working, hldTime, built, verified>>

\* It dies, perhaps writing the ledger, which then does not load.
SyncDies ==
  /\ seen # Absent
  /\ seen' = Absent
  /\ \/ UNCHANGED <<ledger, adopted>>
     \/ ledger' = [s \in Specs |-> Absent] /\ adopted' = {}
  /\ UNCHANGED <<working, hldTime, built, verified>>

SyncNext ==
  \/ \E a \in Anchors : EditHld(a)
  \/ \E s \in Specs : Build(s) \/ Toggle(s)
  \/ SyncReads \/ Sync \/ SyncDies

SyncSpec == SyncInit /\ [][SyncNext]_syncVars

-----------------------------------------------------------------------------
\* The type invariant.
SyncTypeOK ==
  /\ working \in Fingerprints /\ hldTime \in Times
  /\ built \in [Specs -> [time : Times, from : Fingerprints]]
  /\ verified \subseteq Specs
  /\ DOMAIN ledger = Specs /\ \A s \in Specs : ledger[s] \in DoneEntry(s) \cup {Absent}
  /\ seen \in Fingerprints \cup {Absent}
  /\ adopted \subseteq Specs

\* Built after the record and before the last edit: the sync does not look at it.
BuiltBetween(s) ==
  ledger[s].artifacts_mtime < built[s].time /\ built[s].time < hldTime

\* What the next sync reports as DONE_VERIFIED was built from the sections as they are
\* now, whatever was edited, reverted, rebuilt or torn in between.  Except: a spec's
\* first record, or one taken while the HLD is edited, may hold sections that nothing
\* was built from, and a build between the record and the last edit is not looked at.
VerifiedIsFresh ==
  \A s \in Specs :
    /\ Status(s) = "DONE_VERIFIED" /\ HasSections(working)
    /\ ledger[s] # Absent /\ s \notin adopted /\ ~BuiltBetween(s)
    => BuiltFrom(s, working)

\* Staleness is sticky: the verdict on a recorded spec turns from stale to verified
\* only by building it, by changing the HLD, or because the entry is gone.
StaleSticks ==
  [][\A s \in Specs :
       Status(s) = "DONE_STALE" /\ Status(s)' = "DONE_VERIFIED" =>
         built'[s] # built[s] \/ working' # working \/ ledger'[s] = Absent]_syncVars
=============================================================================
