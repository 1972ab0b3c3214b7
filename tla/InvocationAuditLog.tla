------------------------- MODULE InvocationAuditLog -------------------------
(***************************************************************************)
(* The durable append writer of hldspec/speckit_invocation_audit.py:       *)
(* append_invocation_record, called by any number of processes on one      *)
(* target, with process crashes, I/O errors and power failures.            *)
(*                                                                         *)
(* The file is kept as the scanner of the code splits it: the complete     *)
(* lines and the trailing bytes without a newline.  A record is written as *)
(* Pieces fragments (os.write may be short); the last one ends in newline. *)
(***************************************************************************)
EXTENDS InvocationRecord

CONSTANTS
  Writers,   \* processes that call append_invocation_record
  Requests,  \* names of the records a caller may submit
  Content,   \* Content[r]: the record
  Pieces     \* fragments a record is written in, the last one with the newline

ASSUME ContentAssumption == Content \in [Requests -> Record]
ASSUME PiecesAssumption == Pieces \in Nat \ {0}
ASSUME NoneAssumption == None \notin Writers /\ None \notin Requests

\* What the lifecycle rules look at.
Entry == [r \in Requests |-> [type |-> Content[r].type, id |-> Content[r].id,
                              identity |-> Identity(Content[r]), at |-> Content[r].at]]

\* Requests that pass validation.
ValidRequests == {r \in Requests : Valid(Content[r])}

VARIABLES
  lines,     \* complete lines of the audit file, each a sequence of fragments
  tail,      \* fragments after the last newline
  depth,     \* components of root/.hldspec/audit/file that exist: 0..3
  durable,   \* lines and tail fragments that are on stable storage
  linked,    \* components whose directory entry is on stable storage
  lock,      \* holder of the exclusive flock
  pc,        \* where each writer is in append_invocation_record
  req,       \* the record it appends
  step,      \* progress inside the current phase: components, fragments, fsyncs
  acked      \* records whose append has returned to the caller

fileVars == <<lines, tail>>
diskVars == <<depth, durable, linked>>
procVars == <<pc, req, step>>
vars == <<lines, tail, depth, durable, linked, lock, pc, req, step, acked>>

Components == 1..3   \* .hldspec, audit, speckit_invocations.jsonl

Fragment == [rec : Requests, part : 1..Pieces]
Encode(r) == [k \in 1..Pieces |-> [rec |-> r, part |-> k]]

-----------------------------------------------------------------------------
(***************************************************************************)
(* Reading existing history.                                               *)
(***************************************************************************)
RecordOf(line) == line[1].rec

\* _decode_and_parse_existing_line: the line is one schema-valid record.
Parses(line) == \E r \in ValidRequests : line = Encode(r)

\* The lines up to n of the records of one type and invocation: the lifecycle entry.
Earlier(ls, n, type, id) ==
  {j \in 1..n : Entry[RecordOf(ls[j])].type = type /\ Entry[RecordOf(ls[j])].id = id}

\* Without the check that a STARTED came first.
AdmitsOrphan(ls, n, r) == Earlier(ls, n, Entry[r].type, Entry[r].id) = {}

\* _apply_lifecycle_transition: r may follow the first n lines of ls.
Admits(ls, n, r) ==
  /\ Earlier(ls, n, Entry[r].type, Entry[r].id) = {}
  /\ Entry[r].type = "FINISHED" =>
       \E j \in Earlier(ls, n, "STARTED", Entry[r].id) :
         /\ Entry[RecordOf(ls[j])].identity = Entry[r].identity
         /\ Entry[RecordOf(ls[j])].at <= Entry[r].at

\* The scan of append_invocation_record raises no InvocationAuditCorruptionError.
Replays(ls) == \A i \in 1..Len(ls) : Parses(ls[i]) /\ Admits(ls, i - 1, RecordOf(ls[i]))

-----------------------------------------------------------------------------
Init ==
  /\ lines = <<>> /\ tail = <<>>
  /\ depth = 0 /\ linked = {} /\ durable = [lines |-> 0, tail |-> 0]
  /\ lock = None
  /\ pc = [w \in Writers |-> "idle"]
  /\ req = [w \in Writers |-> None]
  /\ step = [w \in Writers |-> 0]
  /\ acked = {}

Goto(w, phase, k) == pc' = [pc EXCEPT ![w] = phase] /\ step' = [step EXCEPT ![w] = k]

\* The call ends, by return, exception or crash: the descriptors are closed and with
\* them the flock, if this writer holds it.
Leave(w) ==
  /\ pc' = [pc EXCEPT ![w] = "idle"]
  /\ req' = [req EXCEPT ![w] = None]
  /\ step' = [step EXCEPT ![w] = 0]
  /\ lock' = IF lock = w THEN None ELSE lock

\* A call with a record that passes validation; any other raises ValueError before
\* it touches the file system.
Call(w) ==
  /\ pc[w] = "idle"
  /\ \E r \in ValidRequests : req' = [req EXCEPT ![w] = r]
  /\ Goto(w, "open", 0)
  /\ UNCHANGED <<fileVars, diskVars, lock, acked>>

\* Somebody else may have made it.
Created(k) == IF depth < k THEN k ELSE depth

\* mkdir-or-open .hldspec, then audit, then create-or-open the file.
OpenComponent(w) ==
  /\ pc[w] = "open" /\ step[w] < 3
  /\ LET k == step[w] + 1
     IN  /\ depth' = Created(k)
         /\ IF k = 3 THEN Goto(w, "lock", 0) ELSE Goto(w, "open", k)
  /\ UNCHANGED <<fileVars, durable, linked, lock, req, acked>>

\* With a shared instead of an exclusive flock.
AcquireSharedLock(w) ==
  /\ pc[w] = "lock"
  /\ lock' = w
  /\ Goto(w, "scan", 0)
  /\ UNCHANGED <<fileVars, diskVars, req, acked>>

AcquireLock(w) ==
  /\ pc[w] = "lock" /\ lock = None
  /\ lock' = w
  /\ Goto(w, "scan", 0)
  /\ UNCHANGED <<fileVars, diskVars, req, acked>>

\* With a blocking flock there is no deadline.
NoLockTimeout(w) == FALSE /\ UNCHANGED vars

\* The deadline passes while another writer holds the lock.
LockTimeout(w) ==
  /\ pc[w] = "lock" /\ lock # None
  /\ Leave(w)
  /\ UNCHANGED <<fileVars, diskVars, acked>>

\* With a scan that stops at the last newline.
ScanIgnoresTail(w) ==
  /\ pc[w] = "scan"
  /\ Replays(lines) /\ Admits(lines, Len(lines), req[w])
  /\ Goto(w, "write", 0)
  /\ UNCHANGED <<fileVars, diskVars, lock, req, acked>>

\* _iter_existing_lines finds no bytes behind the last newline.
EndsInNewline == tail = <<>>

\* History is valid and admits the record: go on to write it.
ScanOK(w) ==
  /\ pc[w] = "scan"
  /\ EndsInNewline /\ Replays(lines) /\ Admits(lines, Len(lines), req[w])
  /\ Goto(w, "write", 0)
  /\ UNCHANGED <<fileVars, diskVars, lock, req, acked>>

\* History is corrupt or does not admit the record: an error, nothing written.
ScanRejects(w) ==
  /\ pc[w] = "scan"
  /\ ~(EndsInNewline /\ Replays(lines) /\ Admits(lines, Len(lines), req[w]))
  /\ Leave(w)
  /\ UNCHANGED <<fileVars, diskVars, acked>>

\* One os.write of the _write_all loop, which may write less than asked.  O_APPEND:
\* the bytes go to the end of the file, whoever put the last ones there.
Write(w) ==
  /\ pc[w] = "write"
  /\ \E k \in (step[w] + 1)..Pieces :
       LET grown == tail \o SubSeq(Encode(req[w]), step[w] + 1, k)
       IN  IF k = Pieces
           THEN /\ lines' = Append(lines, grown) /\ tail' = <<>>
                /\ Goto(w, "sync", 0)
           ELSE /\ tail' = grown /\ UNCHANGED lines
                /\ Goto(w, "write", k)
  /\ UNCHANGED <<diskVars, lock, req, acked>>

\* Without the fsync of the root directory.
SyncWithoutRoot(w) ==
  /\ pc[w] = "sync" /\ step[w] < 4
  /\ durable' = [lines |-> Len(lines), tail |-> Len(tail)]
  /\ linked' = linked \cup {2, 3}
  /\ Goto(w, "sync", 4)
  /\ UNCHANGED <<fileVars, depth, lock, req, acked>>

\* fsync of the file, then of the audit, .hldspec and root directories; a directory's
\* fsync makes the entry of the component in it durable.
Sync(w) ==
  /\ pc[w] = "sync" /\ step[w] < 4
  /\ LET k == step[w] + 1
     IN  /\ IF k = 1
            THEN /\ durable' = [lines |-> Len(lines), tail |-> Len(tail)]
                 /\ UNCHANGED linked
            ELSE linked' = linked \cup {5 - k} /\ UNCHANGED durable
         /\ Goto(w, "sync", k)
  /\ UNCHANGED <<fileVars, depth, lock, req, acked>>

Release(w) ==
  /\ pc[w] = "sync" /\ step[w] = 4
  /\ lock' = None
  /\ Goto(w, "return", 0)
  /\ UNCHANGED <<fileVars, diskVars, req, acked>>

Return(w) ==
  /\ pc[w] = "return"
  /\ acked' = acked \cup {req[w]}
  /\ Leave(w)
  /\ UNCHANGED <<fileVars, diskVars>>

\* Any open, write or fsync may fail, and the process may die at any point: both end
\* the call where it is.  What was written stays in the file.
FailOrCrash(w) ==
  /\ pc[w] # "idle"
  /\ Leave(w)
  /\ UNCHANGED <<fileVars, diskVars, acked>>

\* The file keeps its first n lines and t fragments of what follows them.
KeepPrefix(n) ==
  LET rest == IF n < Len(lines) THEN lines[n + 1] ELSE tail
  IN  \E t \in 0..Len(rest) :
        /\ n < Len(lines) => t < Len(rest)
        /\ n = durable.lines => durable.tail <= t
        /\ lines' = SubSeq(lines, 1, n)
        /\ tail' = SubSeq(rest, 1, t)
        /\ durable' = [lines |-> n, tail |-> t]

LoseFile == lines' = <<>> /\ tail' = <<>> /\ durable' = [lines |-> 0, tail |-> 0]

\* The machine stops.  A component whose entry is durable, with all those above it,
\* survives; deeper ones may or may not.  The file keeps its synced bytes and any
\* prefix of the others.
PowerLoss ==
  /\ \E d \in 0..depth :
       /\ \A k \in Components : 1..k \subseteq linked => k <= d
       /\ depth' = d /\ linked' = 1..d
       /\ \/ d < 3 /\ LoseFile
          \/ d = 3 /\ \E n \in durable.lines..Len(lines) : KeepPrefix(n)
  /\ lock' = None
  /\ pc' = [w \in Writers |-> "idle"]
  /\ req' = [w \in Writers |-> None]
  /\ step' = [w \in Writers |-> 0]
  /\ UNCHANGED acked

\* What a scheduled writer does next.
Proceed(w) ==
  \/ OpenComponent(w) \/ AcquireLock(w) \/ LockTimeout(w)
  \/ ScanOK(w) \/ ScanRejects(w) \/ Write(w) \/ Sync(w) \/ Release(w) \/ Return(w)

Next ==
  \/ \E w \in Writers : Call(w) \/ Proceed(w) \/ FailOrCrash(w)
  \/ PowerLoss

Spec == Init /\ [][Next]_vars

-----------------------------------------------------------------------------
\* A writer has a record exactly during a call.
ProcsOK ==
  /\ pc \in [Writers -> {"idle", "open", "lock", "scan", "write", "sync", "return"}]
  /\ req \in [Writers -> Requests \cup {None}]
  /\ step \in [Writers -> Nat]
  /\ \A w \in Writers : pc[w] # "idle" <=> req[w] # None

\* The type invariant.
TypeOK ==
  /\ lines \in Seq(Seq(Fragment)) /\ tail \in Seq(Fragment)
  /\ depth \in 0..3
  /\ durable \in [lines : Nat, tail : Nat]
  /\ linked \subseteq Components
  /\ lock \in Writers \cup {None}
  /\ ProcsOK
  /\ acked \subseteq Requests

\* Whatever writers, crashes and errors did, the complete lines of the log replay
\* without a corruption error: no two appends ever mixed their bytes, no invocation
\* was started or finished twice, and none finished that had not started with the
\* same identity and no later.
HistoryReplays == Replays(lines)

\* Why it holds: who scans, writes or syncs has the lock, and the record being written
\* was admitted by the very lines that are still there, its first fragments the tail.
HoldersInv == \A w \in Writers : pc[w] \in {"scan", "write", "sync"} => lock = w

WritingInv ==
  \A w \in Writers : pc[w] = "write" =>
    /\ Admits(lines, Len(lines), req[w])
    /\ step[w] < Pieces
    /\ tail = SubSeq(Encode(req[w]), 1, step[w])

HistoryInv ==
  /\ HistoryReplays /\ HoldersInv /\ WritingInv
  /\ \A w \in Writers : pc[w] # "idle" => req[w] \in ValidRequests

\* Every line tells the truth about its run, whoever wrote it: a success came back without
\* an error and with the artifacts its phase makes, and permissions are only skipped by
\* runs that say so.
HistoryIsHonest ==
  \A i \in 1..Len(lines) :
    LET r == Content[RecordOf(lines[i])]
    IN /\ r.type = "FINISHED" /\ r.result.outcome = "SUCCESS" =>
            r.result.returncode = 0 /\ (r.phase \in ARTIFACT_PHASES => r.result.produced)
       /\ Flags(r.command.argv, "--dangerously-skip-permissions") # {} => r.command.skip

Logged(r) == \E i \in 1..Len(lines) : lines[i] = Encode(r)

\* A record whose append returned to the caller is in the log from then on, also
\* after a power failure and whoever created the directories above the file.
AckedRecordsSurvive == \A r \in acked : Logged(r)

\* Why it holds: the record of a syncing writer is in the log and the fsyncs it has
\* behind it cover it; when all are done, and for acknowledged records ever after, it is
\* on stable storage with all components above it.
LoggedRecords == {r \in Requests : Logged(r)}

SafeRecords ==
  {r \in Requests : /\ Components \subseteq linked
                    /\ \E i \in 1..durable.lines : lines[i] = Encode(r)}

SyncingInv == \A w \in Writers : pc[w] = "sync" =>
  /\ step[w] <= 4 /\ req[w] \in LoggedRecords
  /\ step[w] >= 1 => durable.lines = Len(lines)
  /\ \A c \in Components : step[w] >= 5 - c => c \in linked

DurableInv ==
  /\ durable.lines <= Len(lines)
  /\ SyncingInv
  /\ \A w \in Writers : pc[w] = "return" => req[w] \in SafeRecords
  /\ acked \subseteq SafeRecords

\* An unfinished line that nobody who goes on began.
Torn == tail # <<>> /\ \A w \in Writers : ~(pc[w] = "write" /\ step[w] > 0)

\* Fail closed: once a line is torn, no call ever changes the log again or returns
\* success for a record it did not already hold (there is no repair); only a power
\* failure can take the unsynced fragments away.
TornLogIsFrozen ==
  [][Torn => PowerLoss \/ (UNCHANGED fileVars /\ \A r \in acked' \ acked : Logged(r))]_vars

-----------------------------------------------------------------------------
(***************************************************************************)
(* Scheduling.  Nothing makes callers call, fail or crash; a process that  *)
(* runs goes on with its call.  Processes outside Responsive may stop      *)
(* being scheduled anywhere, with the lock held too.                       *)
(***************************************************************************)
CONSTANT Responsive
ASSUME ResponsiveAssumption == Responsive \subseteq Writers

FairSpec == Spec /\ \A w \in Responsive : WF_vars(Proceed(w))

\* A call always ends, even when the lock's holder never moves again: waiting for the
\* lock is bounded by the deadline.
EveryCallEnds == \A w \in Responsive : pc[w] # "idle" ~> pc[w] = "idle"

-----------------------------------------------------------------------------
(***************************************************************************)
(* Refinement: the log file as a ledger of invocation stages.              *)
(***************************************************************************)
RequestIds == {Entry[r].id : r \in Requests}

StageIn(rs, id) ==
  IF \E r \in rs : Entry[r].id = id /\ Entry[r].type = "FINISHED" THEN 2
  ELSE IF \E r \in rs : Entry[r].id = id /\ Entry[r].type = "STARTED" THEN 1 ELSE 0

Ledger == INSTANCE InvocationLedger WITH
            Ids <- RequestIds,
            visible <- [id \in RequestIds |-> StageIn(LoggedRecords, id)],
            promised <- [id \in RequestIds |-> StageIn(acked, id)]

\* Every step of the writers, crash or power failure is a step of the ledger or no
\* step of it: stages appear one at a time and in order, and a promised one stays.
RefinesLedger == Ledger!LedgerSpec
=============================================================================
