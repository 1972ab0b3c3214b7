---------------------- MODULE InvocationAuditLogProofs ----------------------
(***************************************************************************)
(* Theorems about the durable append writer of the invocation audit log,   *)
(* for any writers, records and number of fragments, and that it           *)
(* implements the ledger of invocation stages.                             *)
(***************************************************************************)
EXTENDS InvocationAuditLog, SequenceTheorems, TLAPS

USE PiecesAssumption, NoneAssumption

-----------------------------------------------------------------------------
(***************************************************************************)
(* Sequences of fragments.                                                 *)
(***************************************************************************)

\* The fragments of a record form a sequence of the right type and length.
LEMMA EncodeType ==
  ASSUME NEW r \in Requests
  PROVE  /\ Encode(r) \in Seq(Fragment)
         /\ Len(Encode(r)) = Pieces
         /\ \A k \in 1..Pieces : Encode(r)[k] = [rec |-> r, part |-> k]
         /\ RecordOf(Encode(r)) = r
<1>1. Encode(r) \in [1..Pieces -> Fragment]
  BY DEF Encode, Fragment
<1>2. Encode(r) \in Seq(Fragment) /\ Len(Encode(r)) = Pieces
  BY <1>1
<1>3. \A k \in 1..Pieces : Encode(r)[k] = [rec |-> r, part |-> k]
  BY DEF Encode
<1> QED
  BY <1>2, <1>3 DEF RecordOf

\* Writing on from fragment i to k extends the prefix of length i to the one of length k.
LEMMA PrefixGrows ==
  ASSUME NEW S, NEW s \in Seq(S), NEW k \in 0..Len(s), NEW i \in 0..k
  PROVE  SubSeq(s, 1, i) \o SubSeq(s, i + 1, k) = SubSeq(s, 1, k)
<1> DEFINE a == SubSeq(s, 1, i)
           b == SubSeq(s, i + 1, k)
           c == SubSeq(s, 1, k)
<1>1. /\ a \in Seq(S) /\ Len(a) = i /\ \A j \in 1..i : a[j] = s[j]
      /\ b \in Seq(S) /\ Len(b) = k - i /\ \A j \in 1..(k - i) : b[j] = s[i + j]
      /\ c \in Seq(S) /\ Len(c) = k /\ \A j \in 1..k : c[j] = s[j]
  OBVIOUS
<1>2. a \o b \in Seq(S) /\ Len(a \o b) = k
  BY <1>1
<1>3. \A j \in 1..k : (a \o b)[j] = c[j]
  BY <1>1
<1> HIDE DEF a, b, c
<1>4. a \o b = c
  BY <1>1, <1>2, <1>3, SeqEqual
<1> QED
  BY <1>4 DEF a, b, c

-----------------------------------------------------------------------------
(***************************************************************************)
(* Type correctness.                                                       *)
(***************************************************************************)

\* Ending a call keeps the types of the variables it changes.
LEMMA LeaveType ==
  ASSUME TypeOK, NEW w \in Writers, Leave(w)
  PROVE  ProcsOK' /\ lock' \in Writers \cup {None}
BY DEF TypeOK, ProcsOK, Leave

\* So does going on to another phase of the call.
LEMMA GotoType ==
  ASSUME TypeOK, NEW w \in Writers, pc[w] # "idle", UNCHANGED req,
         NEW phase \in {"open", "lock", "scan", "write", "sync", "return"},
         NEW n \in Nat, Goto(w, phase, n)
  PROVE  ProcsOK'
BY DEF TypeOK, ProcsOK, Goto

\* What a power failure leaves of the file is a prefix of it.
LEMMA SurvivingFile ==
  ASSUME TypeOK, PowerLoss
  PROVE  /\ \E n \in 0..Len(lines) : lines' = SubSeq(lines, 1, n)
         /\ lines' \in Seq(Seq(Fragment)) /\ tail' \in Seq(Fragment)
         /\ durable' \in [lines : Nat, tail : Nat]
<1>1. CASE LoseFile
  <2>1. lines' = SubSeq(lines, 1, 0)
    BY <1>1 DEF LoseFile, TypeOK
  <2>2. 0 \in 0..Len(lines)
    BY DEF TypeOK
  <2>3. lines' \in Seq(Seq(Fragment)) /\ tail' \in Seq(Fragment)
    BY <1>1 DEF LoseFile
  <2> QED
    BY <1>1, <2>1, <2>2, <2>3 DEF LoseFile
<1>2. ASSUME NEW n \in durable.lines..Len(lines), KeepPrefix(n)
      PROVE  /\ lines' = SubSeq(lines, 1, n) /\ n \in 0..Len(lines)
             /\ lines' \in Seq(Seq(Fragment)) /\ tail' \in Seq(Fragment)
             /\ durable' \in [lines : Nat, tail : Nat]
  <2> DEFINE rest == IF n < Len(lines) THEN lines[n + 1] ELSE tail
  <2>1. n \in 0..Len(lines)
    BY DEF TypeOK
  <2>2. rest \in Seq(Fragment)
    BY <2>1 DEF TypeOK
  <2>3. PICK t \in 0..Len(rest) :
          /\ lines' = SubSeq(lines, 1, n)
          /\ tail' = SubSeq(rest, 1, t)
          /\ durable' = [lines |-> n, tail |-> t]
    BY <1>2 DEF KeepPrefix
  <2> QED
    BY <2>1, <2>2, <2>3 DEF TypeOK
<1> QED
  BY <1>1, <1>2 DEF PowerLoss

\* The first call finds no file, no lock and no call: of the right types.
THEOREM InitType == Init => TypeOK
BY DEF Init, TypeOK, ProcsOK

\* Every step of every writer, and a power failure, keeps the types.
THEOREM NextType == TypeOK /\ [Next]_vars => TypeOK'
<1> SUFFICES ASSUME TypeOK, [Next]_vars PROVE TypeOK'
  OBVIOUS
<1>1. ASSUME NEW w \in Writers, Call(w) PROVE TypeOK'
  BY <1>1 DEF Call, ValidRequests, Goto, fileVars, diskVars, TypeOK, ProcsOK
<1>2. ASSUME NEW w \in Writers, OpenComponent(w) PROVE TypeOK'
  <2>1. step[w] \in 0..2 /\ depth' \in 0..3
    BY <1>2 DEF OpenComponent, Created, TypeOK, ProcsOK
  <2>2. PICK phase \in {"open", "lock"}, n \in 0..3 : Goto(w, phase, n)
    BY <1>2, <2>1 DEF OpenComponent, Created
  <2>3. ProcsOK'
    BY <1>2, <2>2, GotoType DEF OpenComponent, Created
  <2> QED
    BY <1>2, <2>1, <2>3 DEF OpenComponent, Created, fileVars, TypeOK
<1>3. ASSUME NEW w \in Writers, AcquireLock(w) PROVE TypeOK'
  <2>1. ProcsOK'
    BY <1>3, GotoType DEF AcquireLock
  <2> QED
    BY <1>3, <2>1 DEF AcquireLock, fileVars, diskVars, TypeOK
<1>4. ASSUME NEW w \in Writers, LockTimeout(w) \/ ScanRejects(w) \/ FailOrCrash(w)
      PROVE  TypeOK'
  <2>1. ProcsOK' /\ lock' \in Writers \cup {None}
    BY <1>4, LeaveType DEF LockTimeout, ScanRejects, FailOrCrash
  <2> QED
    BY <1>4, <2>1 DEF LockTimeout, ScanRejects, FailOrCrash, fileVars, diskVars, TypeOK
<1>5. ASSUME NEW w \in Writers, ScanOK(w) PROVE TypeOK'
  <2>1. ProcsOK'
    BY <1>5, GotoType DEF ScanOK, EndsInNewline
  <2> QED
    BY <1>5, <2>1 DEF ScanOK, EndsInNewline, fileVars, diskVars, TypeOK
<1>6. ASSUME NEW w \in Writers, Write(w) PROVE TypeOK'
  <2>1. PICK k \in (step[w] + 1)..Pieces :
          LET grown == tail \o SubSeq(Encode(req[w]), step[w] + 1, k)
          IN  IF k = Pieces
              THEN lines' = Append(lines, grown) /\ tail' = <<>> /\ Goto(w, "sync", 0)
              ELSE tail' = grown /\ UNCHANGED lines /\ Goto(w, "write", k)
    BY <1>6 DEF Write
  <2> DEFINE grown == tail \o SubSeq(Encode(req[w]), step[w] + 1, k)
  <2>2. req[w] \in Requests /\ step[w] \in Nat /\ k \in Nat
    BY <1>6 DEF Write, TypeOK, ProcsOK
  <2>3. grown \in Seq(Fragment)
    BY <2>2, EncodeType DEF TypeOK
  <2>4. PICK phase \in {"sync", "write"}, n \in Nat : Goto(w, phase, n)
    BY <2>1, <2>2
  <2>5. ProcsOK'
    BY <1>6, <2>4, GotoType DEF Write
  <2>6. \/ lines' = Append(lines, grown) /\ tail' = <<>>
        \/ lines' = lines /\ tail' = grown
    BY <2>1
  <2> HIDE DEF grown
  <2>7. lines \in Seq(Seq(Fragment)) /\ tail \in Seq(Fragment)
    BY DEF TypeOK
  <2>8. lines' \in Seq(Seq(Fragment)) /\ tail' \in Seq(Fragment)
    <3>1. <<>> \in Seq(Fragment)
      OBVIOUS
    <3> DEFINE Line == Seq(Fragment)
    <3>2. <<>> \in Line /\ grown \in Line /\ tail \in Line /\ lines \in Seq(Line)
      BY <2>3, <2>7, <3>1
    <3> HIDE DEF Line
    <3>3. lines' \in Seq(Line) /\ tail' \in Line
      BY <2>6, <3>2
    <3> QED
      BY <3>3 DEF Line
  <2> QED
    BY <1>6, <2>5, <2>8 DEF Write, diskVars, TypeOK
<1>7. ASSUME NEW w \in Writers, Sync(w) PROVE TypeOK'
  <2>1. step[w] \in 0..3
    BY <1>7 DEF Sync, TypeOK, ProcsOK
  <2>2. durable' \in [lines : Nat, tail : Nat]
    BY <1>7 DEF Sync, TypeOK
  <2>3. linked' \subseteq Components
    <3>1. linked' = linked \/ (step[w] \in 1..3 /\ linked' = linked \cup {4 - step[w]})
      BY <1>7, <2>1 DEF Sync
    <3>2. step[w] \in 1..3 => 4 - step[w] \in Components
      BY DEF Components
    <3> QED
      BY <3>1, <3>2 DEF TypeOK
  <2>4. Goto(w, "sync", step[w] + 1) /\ pc[w] # "idle" /\ UNCHANGED req
    BY <1>7 DEF Sync
  <2>5. ProcsOK'
    BY <2>1, <2>4, GotoType
  <2> QED
    BY <1>7, <2>2, <2>3, <2>5 DEF Sync, fileVars, TypeOK
<1>8. ASSUME NEW w \in Writers, Release(w) PROVE TypeOK'
  <2>1. ProcsOK'
    BY <1>8, GotoType DEF Release
  <2> QED
    BY <1>8, <2>1 DEF Release, fileVars, diskVars, TypeOK
<1>9. ASSUME NEW w \in Writers, Return(w) PROVE TypeOK'
  <2>1. ProcsOK' /\ lock' \in Writers \cup {None}
    BY <1>9, LeaveType DEF Return
  <2>2. req[w] \in Requests
    BY <1>9 DEF Return, TypeOK, ProcsOK
  <2> QED
    BY <1>9, <2>1, <2>2 DEF Return, fileVars, diskVars, TypeOK
<1>10. CASE PowerLoss
  BY <1>10, SurvivingFile DEF PowerLoss, TypeOK, ProcsOK, Components
<1>11. CASE UNCHANGED vars
  BY <1>11 DEF vars, TypeOK, ProcsOK
<1> QED
  BY <1>1, <1>2, <1>3, <1>4, <1>5, <1>6, <1>7, <1>8, <1>9, <1>10, <1>11 DEF Next, Proceed

\* The variables of the writer keep their types in every behaviour.
THEOREM TypeCorrect == Spec => []TypeOK
BY InitType, NextType, PTL DEF Spec

-----------------------------------------------------------------------------
(***************************************************************************)
(* The history always replays.                                             *)
(***************************************************************************)

\* Whether a record is admitted after n lines depends on those lines only.
LEMMA AdmitsLocal ==
  ASSUME NEW ls, NEW ks, NEW n \in Nat, NEW r,
         \A i \in 1..n : ls[i] = ks[i], Admits(ls, n, r)
  PROVE  Admits(ks, n, r)
<1>1. \A type, id : Earlier(ls, n, type, id) = Earlier(ks, n, type, id)
  BY DEF Earlier
<1>2. \A type, id : \A j \in Earlier(ls, n, type, id) : ls[j] = ks[j]
  BY DEF Earlier
<1> QED
  BY <1>1, <1>2 DEF Admits

\* A prefix of a history that replays, replays.
LEMMA PrefixReplays ==
  ASSUME NEW S, NEW ls \in Seq(S), Replays(ls), NEW n \in 0..Len(ls)
  PROVE  Replays(SubSeq(ls, 1, n))
<1> DEFINE ks == SubSeq(ls, 1, n)
<1>1. Len(ks) = n /\ \A i \in 1..n : ks[i] = ls[i]
  OBVIOUS
<1> HIDE DEF ks
<1>2. ASSUME NEW i \in 1..n PROVE Parses(ks[i]) /\ Admits(ks, i - 1, RecordOf(ks[i]))
  <2>1. Parses(ls[i]) /\ Admits(ls, i - 1, RecordOf(ls[i])) /\ ks[i] = ls[i]
    BY <1>1 DEF Replays
  <2>2. i - 1 \in Nat /\ \A j \in 1..(i - 1) : ls[j] = ks[j]
    BY <1>1
  <2> QED
    BY <2>1, <2>2, AdmitsLocal
<1>3. Replays(ks)
  BY <1>1, <1>2 DEF Replays
<1> QED
  BY <1>3 DEF ks

\* Adding the line of an admitted valid record gives a history that replays.
LEMMA AppendReplays ==
  ASSUME NEW S, NEW ls \in Seq(S), Replays(ls),
         NEW r \in Requests, r \in ValidRequests, Encode(r) \in S, Admits(ls, Len(ls), r)
  PROVE  Replays(Append(ls, Encode(r)))
<1> DEFINE ks == Append(ls, Encode(r))
           n == Len(ls)
<1>1. /\ n \in Nat /\ Len(ks) = n + 1 /\ ks[n + 1] = Encode(r)
      /\ \A i \in 1..n : ks[i] = ls[i]
  OBVIOUS
<1>2. RecordOf(Encode(r)) = r
  BY EncodeType
<1> HIDE DEF ks
<1>3. ASSUME NEW i \in 1..n PROVE Parses(ks[i]) /\ Admits(ks, i - 1, RecordOf(ks[i]))
  <2>1. Parses(ls[i]) /\ Admits(ls, i - 1, RecordOf(ls[i])) /\ ks[i] = ls[i]
    BY <1>1 DEF Replays
  <2>2. i - 1 \in Nat /\ \A j \in 1..(i - 1) : ls[j] = ks[j]
    BY <1>1
  <2> QED
    BY <2>1, <2>2, AdmitsLocal
<1>4. Parses(ks[n + 1]) /\ Admits(ks, n, RecordOf(ks[n + 1]))
  <2>1. Admits(ks, n, r)
    BY <1>1, AdmitsLocal
  <2> QED
    BY <1>1, <1>2, <2>1 DEF Parses, ValidRequests
<1>5. Replays(ks)
  <2>1. \A i \in 1..(n + 1) : i \in 1..n \/ (i = n + 1 /\ i - 1 = n)
    BY <1>1
  <2> QED
    BY <1>1, <1>3, <1>4, <2>1 DEF Replays
<1> QED
  BY <1>5 DEF ks

\* A target without an audit file has a history that replays.
THEOREM InitHistory == Init => HistoryInv
BY DEF Init, HistoryInv, HistoryReplays, Replays, HoldersInv, WritingInv

\* A writer that ends its call disturbs no other: the file and the lock of another
\* holder are as they were.
LEMMA LeaveHistory ==
  ASSUME TypeOK, HistoryInv, NEW w \in Writers, Leave(w), UNCHANGED fileVars
  PROVE  HistoryInv'
<1>1. \A v \in Writers : v # w => pc'[v] = pc[v] /\ req'[v] = req[v] /\ step'[v] = step[v]
  BY DEF Leave, TypeOK, ProcsOK
<1>2. pc'[w] = "idle"
  BY DEF Leave, TypeOK, ProcsOK
<1>3. \A v \in Writers : v # w /\ lock = v => lock' = v
  BY DEF Leave
<1>4. HistoryReplays'
  BY DEF HistoryInv, HistoryReplays, Replays, Admits, Earlier, fileVars
<1>5. HoldersInv'
  BY <1>1, <1>2, <1>3 DEF HistoryInv, HoldersInv
<1>6. WritingInv'
  <2> SUFFICES ASSUME NEW v \in Writers, pc'[v] = "write"
               PROVE  /\ Admits(lines', Len(lines'), req'[v])
                      /\ step'[v] < Pieces
                      /\ tail' = SubSeq(Encode(req'[v]), 1, step'[v])
    BY DEF WritingInv
  <2>1. v # w /\ pc[v] = "write"
    BY <1>1, <1>2
  <2> QED
    BY <1>1, <2>1 DEF HistoryInv, WritingInv, fileVars
<1>7. \A v \in Writers : pc'[v] # "idle" => req'[v] \in ValidRequests
  BY <1>1, <1>2 DEF HistoryInv
<1> QED
  BY <1>4, <1>5, <1>6, <1>7 DEF HistoryInv

\* Nor does a writer that goes on without writing, to a phase in which it needs nothing
\* of the file, and the lock only if it has it.
LEMMA GotoHistory ==
  ASSUME TypeOK, HistoryInv, NEW w \in Writers, UNCHANGED fileVars,
         NEW phase \in {"open", "lock", "scan", "sync", "return"}, NEW n \in Nat,
         Goto(w, phase, n), req'[w] \in ValidRequests, \A v \in Writers : v # w => req'[v] = req[v],
         \A v \in Writers : v # w /\ lock = v => lock' = v,
         phase \in {"scan", "sync"} => lock' = w
  PROVE  HistoryInv'
<1>1. \A v \in Writers : v # w => pc'[v] = pc[v] /\ step'[v] = step[v]
  BY DEF Goto, TypeOK, ProcsOK
<1>2. pc'[w] = phase
  BY DEF Goto, TypeOK, ProcsOK
<1>3. HistoryReplays'
  BY DEF HistoryInv, HistoryReplays, Replays, Admits, Earlier, fileVars
<1>4. HoldersInv'
  BY <1>1, <1>2 DEF HistoryInv, HoldersInv
<1>5. WritingInv'
  <2> SUFFICES ASSUME NEW v \in Writers, pc'[v] = "write"
               PROVE  /\ Admits(lines', Len(lines'), req'[v])
                      /\ step'[v] < Pieces
                      /\ tail' = SubSeq(Encode(req'[v]), 1, step'[v])
    BY DEF WritingInv
  <2>1. v # w /\ pc[v] = "write"
    BY <1>1, <1>2
  <2> QED
    BY <1>1, <2>1 DEF HistoryInv, WritingInv, fileVars
<1>6. \A v \in Writers : pc'[v] # "idle" => req'[v] \in ValidRequests
  BY <1>1 DEF HistoryInv
<1> QED
  BY <1>3, <1>4, <1>5, <1>6 DEF HistoryInv

\* The writing writer is alone: it holds the lock.
LEMMA OneWriter ==
  ASSUME HistoryInv, NEW w \in Writers, pc[w] \in {"scan", "write", "sync"},
         NEW v \in Writers, v # w
  PROVE  pc[v] \notin {"scan", "write", "sync"}
BY DEF HistoryInv, HoldersInv

\* One os.write of the holder: the tail grows along its record or becomes its line.
LEMMA WriteHistory ==
  ASSUME TypeOK, HistoryInv, NEW w \in Writers, Write(w)
  PROVE  HistoryInv'
<1> DEFINE E == Encode(req[w])
<1>1. /\ pc[w] = "write" /\ req[w] \in Requests /\ step[w] \in Nat /\ step[w] < Pieces
      /\ Pieces \in Nat /\ req[w] \in ValidRequests /\ lock = w /\ UNCHANGED <<lock, req>>
  BY DEF Write, TypeOK, ProcsOK, HistoryInv, WritingInv, HoldersInv
<1>2. PICK k \in (step[w] + 1)..Pieces :
        LET grown == tail \o SubSeq(E, step[w] + 1, k)
        IN  IF k = Pieces
            THEN lines' = Append(lines, grown) /\ tail' = <<>> /\ Goto(w, "sync", 0)
            ELSE tail' = grown /\ UNCHANGED lines /\ Goto(w, "write", k)
  BY DEF Write
<1>3. k \in Nat /\ E \in Seq(Fragment) /\ Len(E) = Pieces
  BY <1>1, EncodeType
<1>4. tail = SubSeq(E, 1, step[w])
  BY <1>1 DEF HistoryInv, WritingInv
<1>5. tail \o SubSeq(E, step[w] + 1, k) = SubSeq(E, 1, k)
  <2>1. step[w] \in 0..k /\ k \in 0..Len(E)
    BY <1>1, <1>3
  <2> HIDE DEF E
  <2> QED
    BY <1>3, <1>4, <2>1, PrefixGrows
<1>6. \A v \in Writers : v # w => pc[v] \notin {"scan", "write", "sync"}
  BY <1>1, OneWriter
<1>7. Admits(lines, Len(lines), req[w]) /\ Replays(lines)
  BY <1>1 DEF HistoryInv, WritingInv, HistoryReplays
<1>8. CASE k = Pieces
  <2>1. lines' = Append(lines, E) /\ Goto(w, "sync", 0)
    <3>1. SubSeq(E, 1, Pieces) = E
      <4> HIDE DEF E
      <4> QED
        BY <1>3
    <3> QED
      BY <1>2, <1>5, <1>8, <3>1
  <2>2. HistoryReplays'
    BY <1>1, <1>3, <1>7, <2>1, AppendReplays DEF HistoryReplays, TypeOK
  <2>3. pc'[w] = "sync" /\ \A v \in Writers : v # w => pc'[v] = pc[v]
    BY <2>1 DEF Goto, TypeOK, ProcsOK
  <2>4. HoldersInv' /\ WritingInv'
    BY <1>1, <1>6, <2>3 DEF HoldersInv, WritingInv
  <2> QED
    BY <1>1, <2>2, <2>3, <2>4 DEF HistoryInv
<1>9. CASE k # Pieces
  <2>1. tail' = SubSeq(E, 1, k) /\ UNCHANGED lines /\ Goto(w, "write", k) /\ k < Pieces
    <3>1. k < Pieces
      BY <1>1, <1>3, <1>9
    <3> QED
      BY <1>2, <1>5, <1>9, <3>1
  <2>2. HistoryReplays'
    BY <1>7, <2>1 DEF HistoryReplays
  <2>3. pc'[w] = "write" /\ step'[w] = k /\ \A v \in Writers : v # w => pc'[v] = pc[v]
    BY <2>1 DEF Goto, TypeOK, ProcsOK
  <2>4. HoldersInv'
    BY <1>1, <1>6, <2>3 DEF HoldersInv
  <2>5. WritingInv'
    BY <1>1, <1>6, <1>7, <2>1, <2>3 DEF WritingInv
  <2> QED
    BY <1>1, <2>2, <2>3, <2>4, <2>5 DEF HistoryInv
<1> QED
  BY <1>8, <1>9

\* Admitted on a valid history without a torn line, a record may be written.
LEMMA ScanHistory ==
  ASSUME TypeOK, HistoryInv, NEW w \in Writers, ScanOK(w)
  PROVE  HistoryInv'
<1>1. /\ pc[w] = "scan" /\ lock = w /\ req[w] \in Requests /\ req[w] \in ValidRequests
      /\ tail = <<>> /\ Admits(lines, Len(lines), req[w])
      /\ UNCHANGED <<lines, tail, lock, req>> /\ Goto(w, "write", 0)
  BY DEF ScanOK, EndsInNewline, TypeOK, ProcsOK, HistoryInv, HoldersInv, fileVars
<1>2. pc'[w] = "write" /\ step'[w] = 0 /\ \A v \in Writers : v # w => pc'[v] = pc[v]
  BY <1>1 DEF Goto, TypeOK, ProcsOK
<1>3. \A v \in Writers : v # w => pc[v] \notin {"scan", "write", "sync"}
  BY <1>1, OneWriter
<1>4. SubSeq(Encode(req[w]), 1, 0) = <<>> /\ 0 < Pieces
  BY <1>1, EncodeType
<1>5. HoldersInv' /\ WritingInv'
  BY <1>1, <1>2, <1>3, <1>4 DEF HoldersInv, WritingInv
<1>6. HistoryReplays'
  BY <1>1 DEF HistoryReplays, HistoryInv
<1> QED
  BY <1>1, <1>2, <1>5, <1>6 DEF HistoryInv

\* Every step of every writer, and a power failure, keeps the history replayable.
THEOREM NextHistory == TypeOK /\ HistoryInv /\ [Next]_vars => HistoryInv'
<1> SUFFICES ASSUME TypeOK, HistoryInv, [Next]_vars PROVE HistoryInv'
  OBVIOUS
<1>1. ASSUME NEW w \in Writers, Call(w) PROVE HistoryInv'
  <2>1. /\ req'[w] \in ValidRequests /\ \A v \in Writers : v # w => req'[v] = req[v]
        /\ Goto(w, "open", 0) /\ UNCHANGED <<fileVars, lock>>
    BY <1>1 DEF Call, ValidRequests, TypeOK, ProcsOK
  <2> QED
    BY <2>1, GotoHistory
<1>2. ASSUME NEW w \in Writers, OpenComponent(w) PROVE HistoryInv'
  <2>1. PICK phase \in {"open", "lock"}, n \in Nat : Goto(w, phase, n)
    BY <1>2 DEF OpenComponent, Created, TypeOK, ProcsOK
  <2>2. req'[w] \in ValidRequests /\ UNCHANGED <<fileVars, lock, req>>
    BY <1>2 DEF OpenComponent, Created, HistoryInv
  <2> QED
    BY <2>1, <2>2, GotoHistory
<1>3. ASSUME NEW w \in Writers, AcquireLock(w) PROVE HistoryInv'
  <2>1. /\ req'[w] \in ValidRequests /\ lock' = w /\ Goto(w, "scan", 0) /\ UNCHANGED <<fileVars, req>>
        /\ \A v \in Writers : lock # v
    BY <1>3 DEF AcquireLock, HistoryInv
  <2> QED
    BY <2>1, GotoHistory
<1>4. ASSUME NEW w \in Writers,
             LockTimeout(w) \/ ScanRejects(w) \/ Return(w) \/ FailOrCrash(w)
      PROVE  HistoryInv'
  BY <1>4, LeaveHistory DEF LockTimeout, ScanRejects, Return, FailOrCrash
<1>5. ASSUME NEW w \in Writers, ScanOK(w) PROVE HistoryInv'
  BY <1>5, ScanHistory
<1>6. ASSUME NEW w \in Writers, Write(w) PROVE HistoryInv'
  BY <1>6, WriteHistory
<1>7. ASSUME NEW w \in Writers, Sync(w) PROVE HistoryInv'
  <2>1. /\ Goto(w, "sync", step[w] + 1) /\ step[w] + 1 \in Nat
        /\ req'[w] \in ValidRequests /\ lock' = w /\ UNCHANGED <<fileVars, lock, req>>
    BY <1>7 DEF Sync, TypeOK, ProcsOK, HistoryInv, HoldersInv
  <2> QED
    BY <2>1, GotoHistory
<1>8. ASSUME NEW w \in Writers, Release(w) PROVE HistoryInv'
  <2>1. /\ Goto(w, "return", 0) /\ req'[w] \in ValidRequests /\ lock = w /\ UNCHANGED <<fileVars, req>>
    BY <1>8 DEF Release, HistoryInv, HoldersInv
  <2> QED
    BY <2>1, GotoHistory
<1>9. CASE PowerLoss
  <2>1. PICK n \in 0..Len(lines) : lines' = SubSeq(lines, 1, n)
    BY <1>9, SurvivingFile
  <2>2. HistoryReplays'
    BY <2>1, PrefixReplays DEF HistoryInv, HistoryReplays, TypeOK
  <2>3. \A w \in Writers : pc'[w] = "idle"
    BY <1>9 DEF PowerLoss
  <2> QED
    BY <2>2, <2>3 DEF HistoryInv, HoldersInv, WritingInv
<1>10. CASE UNCHANGED vars
  BY <1>10 DEF vars, HistoryInv, HistoryReplays, HoldersInv, WritingInv
<1> QED
  BY <1>1, <1>2, <1>3, <1>4, <1>5, <1>6, <1>7, <1>8, <1>9, <1>10 DEF Next, Proceed

\* No interleaving of writers, crash, I/O error or power failure makes the complete lines
\* of the audit log unreadable or breaks an invocation's lifecycle.
THEOREM HistoryAlwaysReplays == Spec => []HistoryReplays
<1>1. Init => TypeOK /\ HistoryInv
  BY InitType, InitHistory
<1>2. TypeOK /\ HistoryInv /\ [Next]_vars => (TypeOK /\ HistoryInv)'
  BY NextType, NextHistory
<1>3. HistoryInv => HistoryReplays
  BY DEF HistoryInv
<1> QED
  BY <1>1, <1>2, <1>3, PTL DEF Spec

\* What is in the log was validated when it was written, and nothing else gets there.
THEOREM HistoryAlwaysHonest == Spec => []HistoryIsHonest
<1>1. HistoryReplays => HistoryIsHonest
  <2>1. SUFFICES ASSUME HistoryReplays, NEW i \in 1..Len(lines)
                 PROVE  LET r == Content[RecordOf(lines[i])]
                        IN /\ r.type = "FINISHED" /\ r.result.outcome = "SUCCESS" =>
                                /\ r.result.returncode = 0
                                /\ r.phase \in ARTIFACT_PHASES => r.result.produced
                           /\ Flags(r.command.argv, "--dangerously-skip-permissions") # {} =>
                                r.command.skip
    BY DEF HistoryIsHonest
  <2>2. PICK r \in ValidRequests : lines[i] = Encode(r)
    BY <2>1 DEF HistoryReplays, Replays, Parses
  <2>3. RecordOf(lines[i]) = r /\ Valid(Content[r])
    BY <2>2, EncodeType DEF ValidRequests
  <2>4. Content[r].type = "FINISHED" => FinishedValid(Content[r])
    BY <2>3 DEF Valid
  <2>5. Content[r] \in Record
    BY <2>2, ContentAssumption DEF ValidRequests
  <2>6. Content[r].type = "FINISHED" /\ Content[r].result.outcome = "SUCCESS" =>
          /\ Content[r].result.returncode = 0
          /\ Content[r].phase \in ARTIFACT_PHASES => Content[r].result.produced
    BY <2>4, <2>5 DEF FinishedValid, OutcomeValid, Record, Results
  <2> QED
    BY <2>3, <2>6 DEF Valid, CommandValid
<1> QED
  BY <1>1, HistoryAlwaysReplays, PTL

-----------------------------------------------------------------------------
(***************************************************************************)
(* Acknowledged records survive: what the fsyncs cover.                    *)
(***************************************************************************)

\* A record on stable storage stays there while the log and what is durable of it grow.
LEMMA SafeGrows ==
  ASSUME TypeOK, linked \subseteq linked', durable.lines <= Len(lines),
         durable'.lines \in Nat, durable.lines <= durable'.lines,
         \A i \in 1..Len(lines) : lines'[i] = lines[i]
  PROVE  SafeRecords \subseteq SafeRecords'
<1> SUFFICES ASSUME NEW r \in SafeRecords PROVE r \in SafeRecords'
  OBVIOUS
<1>1. PICK i \in 1..durable.lines : lines[i] = Encode(r)
  BY DEF SafeRecords
<1>2. i \in 1..durable'.lines /\ lines'[i] = Encode(r)
  <2>1. durable.lines \in Nat /\ Len(lines) \in Nat
    BY DEF TypeOK
  <2>2. i \in 1..Len(lines) /\ i \in 1..durable'.lines
    BY <1>1, <2>1
  <2> QED
    BY <1>1, <2>2
<1>3. Components \subseteq linked' /\ r \in Requests
  BY DEF SafeRecords, Components
<1> QED
  BY <1>2, <1>3 DEF SafeRecords, Components, Encode

\* While neither the file nor the disk changes, the same records are safe and logged.
LEMMA SafeStays ==
  ASSUME UNCHANGED <<lines, durable, linked>>
  PROVE  SafeRecords' = SafeRecords /\ LoggedRecords' = LoggedRecords
BY DEF SafeRecords, LoggedRecords, Logged, Encode, Components

\* A record on stable storage is in the log.
LEMMA SafeLogged ==
  ASSUME TypeOK, durable.lines <= Len(lines)
  PROVE  SafeRecords \subseteq LoggedRecords
<1>1. durable.lines \in Nat /\ Len(lines) \in Nat
  BY DEF TypeOK
<1> QED
  BY <1>1 DEF SafeRecords, LoggedRecords, Logged

\* A writer's step that leaves the file and the disk alone, goes to no phase that promises
\* anything and acknowledges at most a record that is safe.
LEMMA QuietDurable ==
  ASSUME TypeOK, DurableInv, UNCHANGED <<fileVars, durable, linked>>,
         NEW w \in Writers, pc'[w] \notin {"sync", "return"},
         \A v \in Writers : v # w => pc'[v] = pc[v] /\ req'[v] = req[v] /\ step'[v] = step[v],
         acked' \subseteq acked \cup SafeRecords
  PROVE  DurableInv'
<1>1. /\ durable' = durable /\ lines' = lines /\ linked' = linked
      /\ SafeRecords' = SafeRecords /\ LoggedRecords' = LoggedRecords
  BY SafeStays DEF fileVars
<1>2. SyncingInv'
  <2> SUFFICES ASSUME NEW v \in Writers, pc'[v] = "sync"
               PROVE  /\ step'[v] <= 4 /\ req'[v] \in LoggedRecords'
                      /\ step'[v] >= 1 => durable'.lines = Len(lines')
                      /\ \A c \in Components : step'[v] >= 5 - c => c \in linked'
    BY DEF SyncingInv, Components
  <2>1. v # w /\ pc[v] = "sync" /\ req'[v] = req[v] /\ step'[v] = step[v]
    OBVIOUS
  <2> QED
    BY <1>1, <2>1 DEF DurableInv, SyncingInv
<1>3. \A v \in Writers : pc'[v] = "return" => req'[v] \in SafeRecords'
  BY <1>1 DEF DurableInv
<1>4. acked' \subseteq SafeRecords'
  BY <1>1 DEF DurableInv
<1> QED
  BY <1>1, <1>2, <1>3, <1>4 DEF DurableInv

\* Writing adds to the log behind what is durable; the finished record is in the log and
\* its fsyncs are all still to come.
LEMMA WriteDurable ==
  ASSUME TypeOK, HistoryInv, DurableInv, NEW w \in Writers, Write(w)
  PROVE  DurableInv'
<1> DEFINE E == Encode(req[w])
<1>1. /\ pc[w] = "write" /\ req[w] \in Requests /\ step[w] \in Nat /\ step[w] < Pieces
      /\ Pieces \in Nat /\ UNCHANGED <<durable, linked, req, acked>>
      /\ tail = SubSeq(E, 1, step[w])
  BY DEF Write, TypeOK, ProcsOK, HistoryInv, WritingInv, diskVars
<1>2. PICK k \in (step[w] + 1)..Pieces :
        LET grown == tail \o SubSeq(E, step[w] + 1, k)
        IN  IF k = Pieces
            THEN lines' = Append(lines, grown) /\ tail' = <<>> /\ Goto(w, "sync", 0)
            ELSE tail' = grown /\ UNCHANGED lines /\ Goto(w, "write", k)
  BY DEF Write
<1>3. \A v \in Writers : v # w => pc[v] # "sync"
  BY <1>1, OneWriter
<1>4. \A v \in Writers : v # w => pc'[v] = pc[v]
  BY <1>2 DEF Goto, TypeOK, ProcsOK
<1>5. CASE k = Pieces
  <2>1. lines' = Append(lines, E) /\ pc'[w] = "sync" /\ step'[w] = 0
    <3>1. E \in Seq(Fragment) /\ Len(E) = Pieces
      BY <1>1, EncodeType
    <3>2. tail \o SubSeq(E, step[w] + 1, Pieces) = E
      <4> HIDE DEF E
      <4>1. step[w] \in 0..Pieces /\ Pieces \in 0..Len(E)
        BY <1>1, <3>1
      <4>2. SubSeq(E, 1, Pieces) = E
        BY <3>1
      <4> QED
        BY <1>1, <3>1, <4>1, <4>2, PrefixGrows
    <3>3. lines' = Append(lines, E) /\ Goto(w, "sync", 0)
      BY <1>2, <1>5, <3>2
    <3> QED
      BY <3>3 DEF Goto, TypeOK, ProcsOK
  <2>2. /\ Len(lines) \in Nat /\ Len(lines') = Len(lines) + 1 /\ lines'[Len(lines')] = E
        /\ \A i \in 1..Len(lines) : lines'[i] = lines[i]
    <3> HIDE DEF E
    <3>1. lines \in Seq(Seq(Fragment))
      BY DEF TypeOK
    <3> QED
      BY <2>1, <3>1
  <2>3. durable.lines \in Nat /\ durable.lines <= Len(lines)
    BY DEF TypeOK, DurableInv
  <2>4. SafeRecords \subseteq SafeRecords'
    BY <1>1, <2>2, <2>3, SafeGrows
  <2>5. req'[w] \in LoggedRecords'
    <3>1. Len(lines') \in 1..Len(lines') /\ lines'[Len(lines')] = Encode(req[w])
      BY <2>2
    <3>2. req'[w] = req[w]
      BY <1>1
    <3> QED
      BY <1>1, <3>1, <3>2 DEF LoggedRecords, Logged, Encode
  <2>6. SyncingInv'
    <3> SUFFICES ASSUME NEW v \in Writers, pc'[v] = "sync"
                 PROVE  /\ step'[v] <= 4 /\ req'[v] \in LoggedRecords'
                        /\ step'[v] >= 1 => durable'.lines = Len(lines')
                        /\ \A c \in Components : step'[v] >= 5 - c => c \in linked'
      BY DEF SyncingInv, Components
    <3>1. v = w
      BY <1>3, <1>4
    <3> QED
      BY <2>1, <2>5, <3>1 DEF Components
  <2>7. durable'.lines <= Len(lines')
    BY <1>1, <2>2, <2>3
  <2>8. \A v \in Writers : pc'[v] = "return" => req'[v] \in SafeRecords'
    BY <1>1, <1>4, <2>1, <2>4 DEF DurableInv
  <2>9. acked' \subseteq SafeRecords'
    BY <1>1, <2>4 DEF DurableInv
  <2> QED
    BY <2>6, <2>7, <2>8, <2>9 DEF DurableInv
<1>6. CASE k # Pieces
  <2>1. Goto(w, "write", k) /\ lines' = lines
    BY <1>2, <1>6
  <2>2. pc'[w] = "write"
    BY <2>1 DEF Goto, TypeOK, ProcsOK
  <2>3. SafeRecords' = SafeRecords
    BY <1>1, <2>1, SafeStays
  <2>4. SyncingInv'
    BY <1>3, <1>4, <2>2 DEF SyncingInv
  <2> QED
    BY <1>1, <1>4, <2>1, <2>2, <2>3, <2>4 DEF DurableInv
<1> QED
  BY <1>5, <1>6

\* Each fsync makes durable what SyncingInv says of the next step.
LEMMA SyncDurable ==
  ASSUME TypeOK, HistoryInv, DurableInv, NEW w \in Writers, Sync(w)
  PROVE  DurableInv'
<1>1. /\ pc[w] = "sync" /\ step[w] \in 0..3 /\ UNCHANGED <<lines, req, acked>>
      /\ durable.lines \in Nat /\ Len(lines) \in Nat /\ durable.lines <= Len(lines)
  BY DEF Sync, TypeOK, ProcsOK, DurableInv, fileVars
<1>2. pc'[w] = "sync" /\ step'[w] = step[w] + 1
  BY DEF Sync, Goto, TypeOK, ProcsOK
<1>3. \A v \in Writers : v # w => pc'[v] = pc[v] /\ pc[v] # "sync"
  <2>1. \A v \in Writers : v # w => pc[v] # "sync"
    BY <1>1, OneWriter
  <2>2. \A v \in Writers : v # w => pc'[v] = pc[v]
    BY DEF Sync, Goto, TypeOK, ProcsOK
  <2> QED
    BY <2>1, <2>2
<1>4. /\ step[w] = 0 => durable'.lines = Len(lines) /\ linked' = linked
      /\ step[w] # 0 => durable' = durable /\ linked' = linked \cup {4 - step[w]}
  <2>1. step[w] + 1 = 1 <=> step[w] = 0
    BY <1>1
  <2>2. 5 - (step[w] + 1) = 4 - step[w]
    BY <1>1
  <2> QED
    BY <2>1, <2>2 DEF Sync
<1>5. /\ lines' = lines /\ linked \subseteq linked' /\ durable'.lines \in Nat
      /\ durable.lines <= durable'.lines /\ durable'.lines <= Len(lines')
  BY <1>1, <1>4
<1>6. SafeRecords \subseteq SafeRecords'
  BY <1>1, <1>5, SafeGrows
<1>7. /\ req[w] \in LoggedRecords
      /\ step[w] >= 1 => durable.lines = Len(lines)
      /\ \A c \in Components : step[w] >= 5 - c => c \in linked
  BY <1>1 DEF DurableInv, SyncingInv
<1>8. SyncingInv'
  <2> SUFFICES /\ step'[w] <= 4 /\ req'[w] \in LoggedRecords'
               /\ step'[w] >= 1 => durable'.lines = Len(lines')
               /\ \A c \in Components : step'[w] >= 5 - c => c \in linked'
    BY <1>3 DEF SyncingInv, Components
  <2>1. LoggedRecords' = LoggedRecords
    BY <1>1 DEF LoggedRecords, Logged, Encode
  <2>2. durable'.lines = Len(lines')
    BY <1>1, <1>4, <1>7
  <2>3. ASSUME NEW c \in Components, step'[w] >= 5 - c PROVE c \in linked'
    <3>1. step[w] >= 5 - c \/ (step[w] # 0 /\ c = 4 - step[w])
      BY <1>1, <1>2, <2>3 DEF Components
    <3> QED
      BY <1>4, <1>5, <1>7, <3>1
  <2> QED
    BY <1>1, <1>2, <1>7, <2>1, <2>2, <2>3
<1>9. \A v \in Writers : pc'[v] = "return" => req'[v] \in SafeRecords'
  BY <1>1, <1>2, <1>3, <1>6 DEF DurableInv
<1>10. acked' \subseteq SafeRecords'
  BY <1>1, <1>6 DEF DurableInv
<1> QED
  BY <1>5, <1>8, <1>9, <1>10 DEF DurableInv

\* With all four fsyncs behind it the record is safe.
LEMMA ReleaseDurable ==
  ASSUME TypeOK, DurableInv, NEW w \in Writers, Release(w)
  PROVE  DurableInv'
<1>1. /\ pc[w] = "sync" /\ step[w] = 4
      /\ UNCHANGED <<lines, durable, linked, req, acked>>
  BY DEF Release, fileVars, diskVars
<1>2. /\ pc'[w] = "return"
      /\ \A v \in Writers : v # w => pc'[v] = pc[v] /\ step'[v] = step[v]
  BY DEF Release, Goto, TypeOK, ProcsOK
<1>3. req[w] \in SafeRecords
  <2>1. req[w] \in LoggedRecords /\ durable.lines = Len(lines)
    BY <1>1 DEF DurableInv, SyncingInv
  <2>2. Components \subseteq linked
    BY <1>1 DEF DurableInv, SyncingInv, Components
  <2> QED
    BY <2>1, <2>2 DEF SafeRecords, LoggedRecords, Logged
<1>4. SafeRecords' = SafeRecords /\ LoggedRecords' = LoggedRecords
  BY <1>1, SafeStays
<1>5. SyncingInv'
  <2> SUFFICES ASSUME NEW v \in Writers, pc'[v] = "sync"
               PROVE  /\ step'[v] <= 4 /\ req'[v] \in LoggedRecords'
                      /\ step'[v] >= 1 => durable'.lines = Len(lines')
                      /\ \A c \in Components : step'[v] >= 5 - c => c \in linked'
    BY DEF SyncingInv, Components
  <2>1. v # w /\ pc[v] = "sync" /\ req'[v] = req[v] /\ step'[v] = step[v]
    BY <1>1, <1>2
  <2> QED
    BY <1>1, <1>4, <2>1 DEF DurableInv, SyncingInv
<1>6. \A v \in Writers : pc'[v] = "return" => req'[v] \in SafeRecords'
  BY <1>1, <1>2, <1>3, <1>4 DEF DurableInv
<1> QED
  BY <1>1, <1>4, <1>5, <1>6 DEF DurableInv

\* A power failure takes nothing that is safe.
LEMMA PowerLossDurable ==
  ASSUME TypeOK, DurableInv, PowerLoss
  PROVE  DurableInv'
<1>1. PICK d \in 0..depth :
        /\ \A k \in Components : 1..k \subseteq linked => k <= d
        /\ linked' = 1..d
        /\ \/ d < 3 /\ LoseFile
           \/ d = 3 /\ \E n \in durable.lines..Len(lines) : KeepPrefix(n)
  BY DEF PowerLoss
<1>2. durable.lines \in Nat /\ Len(lines) \in Nat /\ d \in Nat
  BY DEF TypeOK
<1>3. (\A w \in Writers : pc'[w] = "idle") /\ acked' = acked
  BY DEF PowerLoss
<1>4. SyncingInv'
  BY <1>3 DEF SyncingInv
<1>5. CASE d < 3
  <2>1. lines' = <<>> /\ durable'.lines = 0
    BY <1>1, <1>5 DEF LoseFile
  <2>2. ~(1..3 \subseteq linked)
    BY <1>1, <1>2, <1>5 DEF Components
  <2>3. acked = {}
    BY <2>2 DEF DurableInv, SafeRecords, Components
  <2>4. durable'.lines <= Len(lines')
    BY <2>1
  <2> QED
    BY <1>3, <1>4, <2>3, <2>4 DEF DurableInv
<1>6. CASE d = 3
  <2>1. PICK n \in durable.lines..Len(lines) : KeepPrefix(n)
    BY <1>1, <1>6
  <2>2. lines' = SubSeq(lines, 1, n) /\ durable'.lines = n
    BY <2>1 DEF KeepPrefix
  <2>3. Len(lines') = n /\ \A i \in 1..n : lines'[i] = lines[i]
    BY <1>2, <2>2 DEF TypeOK
  <2>4. SafeRecords \subseteq SafeRecords'
    <3> SUFFICES ASSUME NEW r \in SafeRecords PROVE r \in SafeRecords'
      OBVIOUS
    <3>1. PICK i \in 1..durable.lines : lines[i] = Encode(r)
      BY DEF SafeRecords
    <3>2. i \in 1..durable'.lines /\ lines'[i] = Encode(r)
      BY <1>2, <2>2, <2>3, <3>1
    <3>3. Components \subseteq linked' /\ r \in Requests
      BY <1>1, <1>6 DEF Components, SafeRecords
    <3> QED
      BY <3>2, <3>3 DEF SafeRecords, Components, Encode
  <2>5. durable'.lines <= Len(lines')
    BY <1>2, <2>2, <2>3
  <2> QED
    BY <1>3, <1>4, <2>4, <2>5 DEF DurableInv
<1> QED
  BY <1>1, <1>2, <1>5, <1>6

\* Nothing is acknowledged or being synced at first.
THEOREM InitDurable == Init => DurableInv
BY DEF Init, DurableInv, SyncingInv

\* Every step of every writer, and a power failure, keeps what was promised durable.
THEOREM NextDurable == TypeOK /\ HistoryInv /\ DurableInv /\ [Next]_vars => DurableInv'
<1> SUFFICES ASSUME TypeOK, HistoryInv, DurableInv, [Next]_vars PROVE DurableInv'
  OBVIOUS
<1>1. ASSUME NEW w \in Writers,
             \/ Call(w) \/ OpenComponent(w) \/ AcquireLock(w) \/ ScanOK(w)
      PROVE  DurableInv'
  <2>1. PICK phase \in {"open", "lock", "scan", "write"}, n \in Nat : Goto(w, phase, n)
    BY <1>1 DEF Call, ValidRequests, OpenComponent, Created, AcquireLock, ScanOK, EndsInNewline, TypeOK, ProcsOK
  <2>2. /\ pc'[w] \notin {"sync", "return"}
        /\ \A v \in Writers : v # w => pc'[v] = pc[v] /\ step'[v] = step[v]
    BY <2>1 DEF Goto, TypeOK, ProcsOK
  <2>3. /\ \A v \in Writers : v # w => req'[v] = req[v]
        /\ UNCHANGED <<fileVars, durable, linked, acked>>
    BY <1>1 DEF Call, ValidRequests, OpenComponent, Created, AcquireLock, ScanOK, diskVars, TypeOK, ProcsOK
  <2> QED
    BY <2>2, <2>3, QuietDurable
<1>2. ASSUME NEW w \in Writers,
             LockTimeout(w) \/ ScanRejects(w) \/ Return(w) \/ FailOrCrash(w)
      PROVE  DurableInv'
  <2>1. /\ pc'[w] = "idle"
        /\ \A v \in Writers : v # w => pc'[v] = pc[v] /\ req'[v] = req[v] /\ step'[v] = step[v]
    BY <1>2 DEF LockTimeout, ScanRejects, Return, FailOrCrash, Leave, TypeOK, ProcsOK
  <2>2. UNCHANGED <<fileVars, durable, linked>>
    BY <1>2 DEF LockTimeout, ScanRejects, Return, FailOrCrash, diskVars
  <2>3. acked' \subseteq acked \cup SafeRecords
    BY <1>2 DEF LockTimeout, ScanRejects, Return, FailOrCrash, DurableInv
  <2> QED
    BY <2>1, <2>2, <2>3, QuietDurable
<1>3. ASSUME NEW w \in Writers, Write(w) PROVE DurableInv'
  BY <1>3, WriteDurable
<1>4. ASSUME NEW w \in Writers, Sync(w) PROVE DurableInv'
  BY <1>4, SyncDurable
<1>5. ASSUME NEW w \in Writers, Release(w) PROVE DurableInv'
  BY <1>5, ReleaseDurable
<1>6. CASE PowerLoss
  BY <1>6, PowerLossDurable
<1>7. CASE UNCHANGED vars
  <2>1. /\ durable' = durable /\ lines' = lines /\ linked' = linked /\ pc' = pc
        /\ req' = req /\ step' = step /\ acked' = acked
    BY <1>7 DEF vars
  <2>2. SafeRecords' = SafeRecords /\ LoggedRecords' = LoggedRecords
    BY <2>1, SafeStays
  <2> QED
    BY <2>1, <2>2 DEF DurableInv, SyncingInv, Components
<1> QED
  BY <1>1, <1>2, <1>3, <1>4, <1>5, <1>6, <1>7 DEF Next, Proceed

\* A record whose append returned is in the log ever after, also after power failures and
\* whoever created the directories: the fsync chain of append_invocation_record suffices.
THEOREM AckedAlwaysSurvive == Spec => []AckedRecordsSurvive
<1>1. Init => TypeOK /\ HistoryInv /\ DurableInv
  BY InitType, InitHistory, InitDurable
<1>2. TypeOK /\ HistoryInv /\ DurableInv /\ [Next]_vars => (TypeOK /\ HistoryInv /\ DurableInv)'
  BY NextType, NextHistory, NextDurable
<1>3. TypeOK /\ DurableInv => AckedRecordsSurvive
  BY SafeLogged DEF DurableInv, AckedRecordsSurvive, LoggedRecords
<1> QED
  BY <1>1, <1>2, <1>3, PTL DEF Spec
\* Once a line is torn, no call changes the log again or reports success for a record it
\* does not hold: whoever writes scanned a file without a torn line, under the lock.
THEOREM TornAlwaysFrozen == Spec => TornLogIsFrozen
<1> DEFINE Frozen == Torn => \/ PowerLoss
                             \/ UNCHANGED fileVars /\ \A r \in acked' \ acked : Logged(r)
<1>1. TypeOK /\ HistoryInv /\ DurableInv /\ [Next]_vars => [Frozen]_vars
  <2> SUFFICES ASSUME TypeOK, HistoryInv, DurableInv, Next, Torn, ~PowerLoss
               PROVE  UNCHANGED fileVars /\ \A r \in acked' \ acked : Logged(r)
    OBVIOUS
  <2>1. PICK w \in Writers : Call(w) \/ Proceed(w) \/ FailOrCrash(w)
    BY DEF Next
  <2>2. ~Write(w)
    <3> SUFFICES ASSUME Write(w) PROVE FALSE
      OBVIOUS
    <3>1. req[w] \in Requests /\ step[w] = 0 /\ tail = SubSeq(Encode(req[w]), 1, 0)
      BY DEF Write, Torn, TypeOK, ProcsOK, HistoryInv, WritingInv
    <3>2. tail = <<>>
      BY <3>1, EncodeType
    <3> QED
      BY <3>2 DEF Torn
  <2>3. UNCHANGED fileVars
    BY <2>1, <2>2 DEF Proceed, Call, ValidRequests, OpenComponent, Created, AcquireLock, LockTimeout, ScanOK, EndsInNewline,
                      ScanRejects, EndsInNewline, Sync, Release, Return, FailOrCrash
  <2>4. acked' = acked \/ (acked' = acked \cup {req[w]} /\ pc[w] = "return")
    BY <2>1, <2>2 DEF Proceed, Call, ValidRequests, OpenComponent, Created, AcquireLock, LockTimeout, ScanOK, EndsInNewline,
                      ScanRejects, EndsInNewline, Sync, Release, Return, FailOrCrash
  <2>5. pc[w] = "return" => Logged(req[w])
    BY SafeLogged DEF DurableInv, LoggedRecords
  <2> QED
    BY <2>3, <2>4, <2>5
<1>2. Init => TypeOK /\ HistoryInv /\ DurableInv
  BY InitType, InitHistory, InitDurable
<1>3. TypeOK /\ HistoryInv /\ DurableInv /\ [Next]_vars => (TypeOK /\ HistoryInv /\ DurableInv)'
  BY NextType, NextHistory, NextDurable
<1> QED
  BY <1>1, <1>2, <1>3, PTL DEF Spec, TornLogIsFrozen

-----------------------------------------------------------------------------
(***************************************************************************)
(* Stages of an invocation in a set of records.                            *)
(***************************************************************************)

\* A stage is one of the ledger's.
LEMMA StageType ==
  ASSUME NEW rs, NEW id
  PROVE  StageIn(rs, id) \in 0..2
BY DEF StageIn

\* More records never show a lower stage.
LEMMA StageMonotone ==
  ASSUME NEW rs, NEW ss, rs \subseteq ss, NEW id
  PROVE  StageIn(rs, id) <= StageIn(ss, id)
BY DEF StageIn

\* A record of one invocation says nothing of another.
LEMMA StageElsewhere ==
  ASSUME NEW rs, NEW r, NEW id, Entry[r].id # id
  PROVE  StageIn(rs \cup {r}, id) = StageIn(rs, id)
BY DEF StageIn

-----------------------------------------------------------------------------
(***************************************************************************)
(* Lines and logged records.                                               *)
(***************************************************************************)

\* Every line of a history that replays is a logged record, and a logged record a line.
LEMMA LinesAreRecords ==
  ASSUME HistoryInv
  PROVE  /\ \A i \in 1..Len(lines) : RecordOf(lines[i]) \in LoggedRecords
         /\ \A r \in LoggedRecords : \E i \in 1..Len(lines) : RecordOf(lines[i]) = r
<1>1. ASSUME NEW i \in 1..Len(lines) PROVE RecordOf(lines[i]) \in LoggedRecords
  <2>1. PICK r \in Requests : lines[i] = Encode(r)
    BY DEF HistoryInv, HistoryReplays, Replays, Parses, ValidRequests
  <2>2. RecordOf(lines[i]) = r
    BY <2>1, EncodeType
  <2> QED
    BY <2>1, <2>2 DEF LoggedRecords, Logged
<1>2. ASSUME NEW r \in LoggedRecords
      PROVE  \E i \in 1..Len(lines) : RecordOf(lines[i]) = r
  <2>1. PICK i \in 1..Len(lines) : lines[i] = Encode(r)
    BY DEF LoggedRecords, Logged
  <2>2. r \in Requests
    BY DEF LoggedRecords
  <2> QED
    BY <2>1, <2>2, EncodeType
<1> QED
  BY <1>1, <1>2

\* No invocation is finished in the log without its start.
LEMMA FinishedWasStarted ==
  ASSUME TypeOK, HistoryInv, NEW r \in LoggedRecords, Entry[r].type = "FINISHED"
  PROVE  \E s \in LoggedRecords : Entry[s].type = "STARTED" /\ Entry[s].id = Entry[r].id
<1>1. PICK i \in 1..Len(lines) : RecordOf(lines[i]) = r
  BY LinesAreRecords
<1>2. Admits(lines, i - 1, r)
  BY <1>1 DEF HistoryInv, HistoryReplays, Replays
<1>3. PICK j \in Earlier(lines, i - 1, "STARTED", Entry[r].id) : TRUE
  BY <1>2 DEF Admits
<1>4. /\ j \in 1..Len(lines)
      /\ Entry[RecordOf(lines[j])].type = "STARTED" /\ Entry[RecordOf(lines[j])].id = Entry[r].id
  <2>1. Len(lines) \in Nat
    BY DEF TypeOK
  <2> QED
    BY <1>3, <2>1 DEF Earlier
<1> QED
  BY <1>4, LinesAreRecords

\* Logging an admitted record takes its invocation exactly one stage further.
LEMMA AdmittedAdvances ==
  ASSUME TypeOK, HistoryInv, NEW r \in Requests, Admits(lines, Len(lines), r)
  PROVE  /\ StageIn(LoggedRecords, Entry[r].id) < 2
         /\ StageIn(LoggedRecords \cup {r}, Entry[r].id) = StageIn(LoggedRecords, Entry[r].id) + 1
<1>1. Len(lines) \in Nat /\ Entry[r].type \in {"STARTED", "FINISHED"}
  BY ContentAssumption DEF TypeOK, Entry, Record
<1>2. ASSUME NEW q \in LoggedRecords PROVE ~(Entry[q].type = Entry[r].type /\ Entry[q].id = Entry[r].id)
  <2>1. PICK i \in 1..Len(lines) : RecordOf(lines[i]) = q
    BY LinesAreRecords
  <2>2. i \notin Earlier(lines, Len(lines), Entry[r].type, Entry[r].id)
    BY DEF Admits
  <2> QED
    BY <2>1, <2>2 DEF Earlier
<1>3. CASE Entry[r].type = "STARTED"
  <2>1. \A q \in LoggedRecords : Entry[q].id = Entry[r].id => Entry[q].type # "STARTED" /\ Entry[q].type # "FINISHED"
    BY <1>2, <1>3, FinishedWasStarted
  <2> QED
    BY <1>3, <2>1 DEF StageIn
<1>4. CASE Entry[r].type = "FINISHED"
  <2>1. PICK j \in Earlier(lines, Len(lines), "STARTED", Entry[r].id) : TRUE
    BY <1>4 DEF Admits
  <2>2. RecordOf(lines[j]) \in LoggedRecords
    BY <2>1, LinesAreRecords DEF Earlier
  <2>3. Entry[RecordOf(lines[j])].type = "STARTED" /\ Entry[RecordOf(lines[j])].id = Entry[r].id
    BY <2>1 DEF Earlier
  <2>4. \A q \in LoggedRecords : Entry[q].id = Entry[r].id => Entry[q].type # "FINISHED"
    BY <1>2, <1>4
  <2> QED
    BY <1>4, <2>2, <2>3, <2>4 DEF StageIn
<1> QED
  BY <1>1, <1>3, <1>4

-----------------------------------------------------------------------------
(***************************************************************************)
(* The state functions the ledger's variables are mapped to.               *)
(***************************************************************************)
Visible == [id \in RequestIds |-> StageIn(LoggedRecords, id)]
Promised == [id \in RequestIds |-> StageIn(acked, id)]

\* An os.write makes the ledger advance by one stage, when it completes the line.
LEMMA WriteAdvances ==
  ASSUME TypeOK, HistoryInv, NEW w \in Writers, Write(w)
  PROVE  [Ledger!LedgerNext]_(Ledger!ledgerVars)
<1> DEFINE r == req[w]
           E == Encode(r)
<1>1. /\ pc[w] = "write" /\ r \in Requests /\ acked' = acked
      /\ Admits(lines, Len(lines), r) /\ tail = SubSeq(E, 1, step[w])
      /\ step[w] \in Nat /\ step[w] < Pieces
  BY DEF Write, TypeOK, ProcsOK, HistoryInv, WritingInv
<1>2. Promised' = Promised
  BY <1>1 DEF Promised, RequestIds, StageIn
<1>3. CASE lines' = lines
  <2>1. Visible' = Visible
    BY <1>3 DEF Visible, RequestIds, StageIn, LoggedRecords, Logged, Encode
  <2> QED
    BY <1>2, <2>1 DEF Ledger!ledgerVars, Visible, Promised
<1>4. CASE lines' # lines
  <2>1. lines' = Append(lines, E)
    <3>1. PICK k \in (step[w] + 1)..Pieces :
            LET grown == tail \o SubSeq(E, step[w] + 1, k)
            IN  k = Pieces /\ lines' = Append(lines, grown)
      BY <1>4 DEF Write
    <3>2. E \in Seq(Fragment) /\ Len(E) = Pieces
      BY <1>1, EncodeType
    <3>3. tail \o SubSeq(E, step[w] + 1, Pieces) = E
      <4> HIDE DEF E
      <4>1. step[w] \in 0..Pieces /\ Pieces \in 0..Len(E) /\ SubSeq(E, 1, Pieces) = E
        BY <1>1, <3>2
      <4> QED
        BY <1>1, <3>2, <4>1, PrefixGrows
    <3> QED
      BY <3>1, <3>3
  <2>2. /\ Len(lines) \in Nat /\ Len(lines') = Len(lines) + 1 /\ lines'[Len(lines) + 1] = E
        /\ \A i \in 1..Len(lines) : lines'[i] = lines[i]
    <3> HIDE DEF E
    <3>1. lines \in Seq(Seq(Fragment))
      BY DEF TypeOK
    <3> QED
      BY <2>1, <3>1
  <2>3. LoggedRecords' = LoggedRecords \cup {r}
    <3>1. ASSUME NEW q \in Requests, Encode(q) = E PROVE q = r
      BY <1>1, <3>1, EncodeType
    <3>2. ASSUME NEW q \in Requests
          PROVE  (\E i \in 1..Len(lines') : lines'[i] = Encode(q)) <=> Logged(q) \/ q = r
      <4>1. \A i \in 1..Len(lines') : i \in 1..Len(lines) \/ i = Len(lines) + 1
        BY <2>2
      <4>2. 1..Len(lines) \subseteq 1..Len(lines') /\ Len(lines) + 1 \in 1..Len(lines')
        BY <2>2
      <4> HIDE DEF E
      <4>3. q = r => Encode(q) = E
        BY DEF E
      <4> QED
        BY <2>2, <3>1, <4>1, <4>2, <4>3 DEF Logged
    <3>3. LoggedRecords' = {q \in Requests : \E i \in 1..Len(lines') : lines'[i] = Encode(q)}
      BY DEF LoggedRecords, Logged, Encode
    <3> QED
      BY <1>1, <3>2, <3>3 DEF LoggedRecords
  <2>4. /\ StageIn(LoggedRecords, Entry[r].id) < 2
        /\ StageIn(LoggedRecords', Entry[r].id) = StageIn(LoggedRecords, Entry[r].id) + 1
    BY <1>1, <2>3, AdmittedAdvances
  <2>5. \A id : id # Entry[r].id => StageIn(LoggedRecords', id) = StageIn(LoggedRecords, id)
    BY <2>3, StageElsewhere
  <2>6. Entry[r].id \in RequestIds
    BY <1>1 DEF RequestIds
  <2>7. Visible' = [id \in RequestIds |-> StageIn(LoggedRecords', id)]
    BY DEF Visible, RequestIds, StageIn
  <2>8. Visible[Entry[r].id] < 2 /\ Visible' = [Visible EXCEPT ![Entry[r].id] = @ + 1]
    <3> HIDE DEF r
    <3> QED
      BY <2>4, <2>5, <2>6, <2>7 DEF Visible
  <2>9. Ledger!Advance(Entry[r].id)
    BY <1>2, <2>8 DEF Ledger!Advance, Ledger!FINISHED, Visible, Promised
  <2> QED
    BY <2>6, <2>9 DEF Ledger!LedgerNext
<1> QED
  BY <1>3, <1>4

\* A return promises the stage of its record, which the log shows; or nothing new.
LEMMA ReturnPromises ==
  ASSUME TypeOK, HistoryInv, DurableInv, NEW w \in Writers, Return(w)
  PROVE  [Ledger!LedgerNext]_(Ledger!ledgerVars)
<1> DEFINE r == req[w]
<1>1. /\ pc[w] = "return" /\ r \in SafeRecords /\ r \in Requests
      /\ lines' = lines /\ acked' = acked \cup {r}
  BY DEF Return, DurableInv, SafeRecords, fileVars
<1>2. acked' \subseteq LoggedRecords
  BY <1>1, SafeLogged DEF DurableInv
<1>3. Visible' = Visible
  BY <1>1 DEF Visible, RequestIds, StageIn, LoggedRecords, Logged, Encode
<1>4. Promised' = [id \in RequestIds |-> StageIn(acked', id)]
  BY DEF Promised, RequestIds, StageIn
<1>5. \A id : id # Entry[r].id => StageIn(acked', id) = StageIn(acked, id)
  BY <1>1, StageElsewhere
<1>6. Entry[r].id \in RequestIds
  BY <1>1 DEF RequestIds
<1> DEFINE s == StageIn(acked', Entry[r].id)
<1>7. s \in 0..2 /\ StageIn(acked, Entry[r].id) \in 0..2 /\ StageIn(acked, Entry[r].id) <= s
  BY <1>1, StageType, StageMonotone
<1>8. s <= Visible[Entry[r].id]
  BY <1>2, <1>6, StageMonotone DEF Visible
<1>9. Promised' = [Promised EXCEPT ![Entry[r].id] = s] /\ Promised[Entry[r].id] = StageIn(acked, Entry[r].id)
  <2> HIDE DEF r
  <2> QED
    BY <1>4, <1>5, <1>6 DEF Promised
<1>10. CASE s = StageIn(acked, Entry[r].id)
  <2>1. Promised' = Promised
    BY <1>9, <1>10 DEF Promised
  <2> QED
    BY <1>3, <2>1 DEF Ledger!ledgerVars, Visible, Promised
<1>11. CASE s # StageIn(acked, Entry[r].id)
  <2>1. Promised[Entry[r].id] < s
    BY <1>7, <1>9, <1>11
  <2>2. Ledger!Promise(Entry[r].id)
    <3> HIDE DEF r, s
    <3> QED
      BY <1>3, <1>7, <1>8, <1>9, <2>1
      DEF Ledger!Promise, Ledger!Stage, Ledger!NONE, Ledger!FINISHED, Visible, Promised
  <2> QED
    BY <1>6, <2>2 DEF Ledger!LedgerNext
<1> QED
  BY <1>10, <1>11

\* A power failure loses stages the ledger did not promise.
LEMMA PowerLossLoses ==
  ASSUME TypeOK, HistoryInv, DurableInv, PowerLoss
  PROVE  Ledger!LedgerNext
<1>1. PICK n \in 0..Len(lines) : lines' = SubSeq(lines, 1, n)
  BY SurvivingFile
<1>2. LoggedRecords' \subseteq LoggedRecords
  <2>1. Len(lines) \in Nat /\ Len(lines') = n /\ \A i \in 1..n : lines'[i] = lines[i]
    BY <1>1 DEF TypeOK
  <2> SUFFICES ASSUME NEW r \in LoggedRecords' PROVE r \in LoggedRecords
    OBVIOUS
  <2>2. PICK i \in 1..Len(lines') : r \in Requests /\ lines'[i] = Encode(r)
    BY DEF LoggedRecords, Logged, Encode
  <2>3. i \in 1..Len(lines) /\ lines[i] = Encode(r)
    BY <2>1, <2>2
  <2> QED
    BY <2>2, <2>3 DEF LoggedRecords, Logged
<1>3. acked' = acked /\ acked \subseteq LoggedRecords'
  <2>1. DurableInv' /\ TypeOK'
    BY PowerLossDurable, NextType DEF Next
  <2>2. acked' \subseteq LoggedRecords'
    <3>1. durable'.lines \in Nat /\ Len(lines') \in Nat /\ durable'.lines <= Len(lines')
      BY <2>1 DEF DurableInv, TypeOK
    <3>2. 1..durable'.lines \subseteq 1..Len(lines')
      BY <3>1
    <3>3. SafeRecords' \subseteq LoggedRecords'
      <4> SUFFICES ASSUME NEW r \in SafeRecords' PROVE r \in LoggedRecords'
        OBVIOUS
      <4>1. PICK i \in 1..durable'.lines : r \in Requests /\ lines'[i] = Encode(r)
        BY DEF SafeRecords, Encode
      <4> QED
        BY <3>2, <4>1 DEF LoggedRecords, Logged, Encode
    <3> QED
      BY <2>1, <3>3 DEF DurableInv
  <2> QED
    BY <2>2 DEF PowerLoss
<1>4. Promised' = Promised
  BY <1>3 DEF Promised, RequestIds, StageIn
<1>5. Visible' = [id \in RequestIds |-> StageIn(LoggedRecords', id)]
  BY DEF Visible, RequestIds, StageIn
<1>6. Visible' \in [RequestIds -> 0..2]
  BY <1>5, StageType
<1>7. \A id \in RequestIds : Promised[id] <= Visible'[id] /\ Visible'[id] <= Visible[id]
  BY <1>2, <1>3, <1>5, StageMonotone DEF Visible, Promised
<1>8. Ledger!Lose
  BY <1>4, <1>6, <1>7
  DEF Ledger!Lose, Ledger!Stage, Ledger!NONE, Ledger!FINISHED, Visible, Promised
<1> QED
  BY <1>8 DEF Ledger!LedgerNext

\* Steps that neither write nor return are invisible in the ledger.
LEMMA OthersStutter ==
  ASSUME UNCHANGED <<lines, acked>>
  PROVE  UNCHANGED Ledger!ledgerVars
<1>1. Visible' = Visible
  BY DEF Visible, RequestIds, StageIn, LoggedRecords, Logged, Encode
<1>2. Promised' = Promised
  BY DEF Promised, RequestIds, StageIn
<1> QED
  BY <1>1, <1>2 DEF Ledger!ledgerVars, Visible, Promised

\* The writer's first state is the ledger's.
LEMMA InitLedger == Init => Ledger!LedgerInit
<1> SUFFICES ASSUME Init PROVE Ledger!LedgerInit
  OBVIOUS
<1>1. LoggedRecords = {} /\ acked = {}
  BY DEF Init, LoggedRecords, Logged
<1> QED
  BY <1>1 DEF Ledger!LedgerInit, Ledger!NONE, StageIn

\* Every step of the writers is a step of the ledger or none.
THEOREM NextLedger ==
  TypeOK /\ HistoryInv /\ DurableInv /\ [Next]_vars => [Ledger!LedgerNext]_(Ledger!ledgerVars)
<1> SUFFICES ASSUME TypeOK, HistoryInv, DurableInv, [Next]_vars
             PROVE  [Ledger!LedgerNext]_(Ledger!ledgerVars)
  OBVIOUS
<1>1. ASSUME NEW w \in Writers,
             \/ Call(w) \/ OpenComponent(w) \/ AcquireLock(w) \/ LockTimeout(w)
             \/ ScanOK(w) \/ ScanRejects(w) \/ Sync(w) \/ Release(w) \/ FailOrCrash(w)
      PROVE  UNCHANGED <<lines, acked>>
  BY <1>1 DEF Call, ValidRequests, OpenComponent, Created, AcquireLock, LockTimeout, ScanOK, ScanRejects, EndsInNewline, Sync,
              Release, FailOrCrash, fileVars
<1>2. ASSUME NEW w \in Writers, Write(w) PROVE [Ledger!LedgerNext]_(Ledger!ledgerVars)
  BY <1>2, WriteAdvances
<1>3. ASSUME NEW w \in Writers, Return(w) PROVE [Ledger!LedgerNext]_(Ledger!ledgerVars)
  BY <1>3, ReturnPromises
<1>4. CASE PowerLoss
  BY <1>4, PowerLossLoses
<1>5. CASE UNCHANGED vars
  BY <1>5, OthersStutter DEF vars
<1> QED
  BY <1>1, <1>2, <1>3, <1>4, <1>5, OthersStutter DEF Next, Proceed

\* The audit log implements the ledger: stages appear one at a time and in order, and what
\* append_invocation_record acknowledged stays, through crashes and power failures.
THEOREM AuditLogRefinesLedger == Spec => RefinesLedger
<1>1. Init => TypeOK /\ HistoryInv /\ DurableInv /\ Ledger!LedgerInit
  BY InitType, InitHistory, InitDurable, InitLedger
<1>2. TypeOK /\ HistoryInv /\ DurableInv /\ [Next]_vars => (TypeOK /\ HistoryInv /\ DurableInv)'
  BY NextType, NextHistory, NextDurable
<1> QED
  BY <1>1, <1>2, NextLedger, PTL DEF Spec, RefinesLedger, Ledger!LedgerSpec
=============================================================================
