----------------------------- MODULE RestoreProofs -----------------------------
(***************************************************************************)
(* Proofs about Restore, for any number of commits, restore requests,      *)
(* crashes and failures: it implements AtomicRestore, what is staged is    *)
(* one snapshot, no acknowledged commit is lost and backups survive.       *)
(***************************************************************************)
EXTENDS Restore, FiniteSetTheorems, TLAPS

\* Requests and the backup loop live as long as the process.
ProcessInv ==
  pc # "up" => /\ b = NoRun
               /\ \A r \in Uploads : u[r].pc \in {"idle", "done"}

\* A request has a file open while it writes, and the file has a name or none.
RequestInv ==
  \A r \in Uploads :
    /\ u[r].fd = "none" <=> u[r].pc \in {"idle", "open", "done"}
    /\ u[r].fd = "partial" => partial # None
    /\ u[r].fd = "staged" => staged # None

\* The database is away only between two renames, with a snapshot to take its
\* place, and a process that is up has one it could open.
DbInv ==
  /\ db = None => staged # None /\ pc \in {"down", "stat", "clean", "swap"}
  /\ pc \in {"clean", "swap"} => db = None
  /\ pc = "swap" => wal = {}
  /\ pc = "up" => db # Damaged

\* A log that is there at the start is that of a process that died.
LogInv == pc # "up" => wal \subseteq unclosed

\* A request that is alone with the partial file finds in it what it has written.
StagingInv ==
  ~ overlapped =>
    /\ \A r \in Uploads : u[r].fd \in {"none", "partial"}
    /\ \A q, r \in Uploads : u[q].fd = "partial" /\ u[r].fd = "partial" => q = r
    /\ \A r \in Uploads : u[r].pc \in {"second", "rename"} => partial[1] = u[r].of
    /\ \A r \in Uploads : u[r].pc = "rename" => partial[2] = u[r].of

\* The backup that is being made is the newest.
BackupInv ==
  /\ \A t \in Files(dir) : t <= now
  /\ b.pc # "idle" => b.at <= now /\ \A t \in Files(dir) : t <= b.at
  /\ b.pc = "write" => dir[b.at] = "part"

IInv ==
  /\ TypeOK
  /\ ProcessInv /\ RequestInv /\ DbInv /\ LogInv /\ StagingInv /\ BackupInv
  /\ StagedIntact /\ NothingLost

-----------------------------------------------------------------------------
\* A file is a snapshot or damaged, and neither is "no file".
LEMMA Values ==
  /\ \A f \in File : Value(f) \in Snapshot \cup {Damaged}
  /\ \A x \in Snapshot \cup {Damaged} : x # None
  /\ Damaged \notin Snapshot /\ Hole \notin Snapshot
  /\ None \notin File
<1>1. \A f \in File : f[1] \in Chunk /\ f[2] \in Chunk /\ f = <<f[1], f[2]>>
  BY DEF File
<1>2. \A x, y \in Chunk : <<x, y>> # None
  BY RestoreAssumption, Zenon DEF Chunk, Snapshot
<1>3. None \notin File
  BY <1>1, <1>2
<1>4. QED
  BY <1>1, <1>3, RestoreAssumption DEF Chunk, Value, Snapshot

\* What writing a chunk leaves of a file.
LEMMA Filled ==
  ASSUME NEW f \in File, NEW s \in Snapshot, NEW k \in {1, 2}
  PROVE  /\ Fill(f, k, s) \in File /\ Fill(f, k, s)[k] = s
         /\ k = 2 => Fill(f, k, s)[1] = f[1]
BY DEF Fill, File, Chunk

\* Pruning only removes files.
LEMMA Pruned ==
  ASSUME NEW e \in [Seconds -> {"none", "part", "done"}]
  PROVE  /\ Prune(e) \in [Seconds -> {"none", "part", "done"}]
         /\ \A t \in Seconds : Prune(e)[t] \in {"none", e[t]}
BY DEF Prune

-----------------------------------------------------------------------------
\* Types.
LEMMA TypeStep == IInv /\ [Next]_vars => TypeOK'
<1> SUFFICES ASSUME IInv, [Next]_vars PROVE TypeOK'
  OBVIOUS
<1> USE DEF vars, dbVars, stageVars, backupVars
<1>1. CASE UNCHANGED vars
  BY <1>1 DEF IInv, TypeOK
<1>2. CASE Tick
  BY <1>2, RestoreAssumption DEF IInv, TypeOK, Tick, Seconds
<1>3. CASE Checkpoint \/ Stop \/ Crash \/ Start \/ Open
  BY <1>3, RestoreAssumption DEF IInv, TypeOK, DbInv, Checkpoint, Stop, Crash, Start, Open, startVars,
     Live, Snapshot, Request, Finished, Run, NoRun, Seconds
<1>4. ASSUME NEW c \in Commits, Commit(c) PROVE TypeOK'
  BY <1>4 DEF IInv, TypeOK, Commit, Snapshot
<1>5. CASE applyPendingRestore
  <2>1. CASE NothingStaged \/ AlreadyAside \/ RemoveSidecars \/ RenameFails
    BY <2>1, RestoreAssumption DEF IInv, TypeOK, NothingStaged, AlreadyAside, RemoveSidecars, RenameFails,
       Fault, startVars, Snapshot
  <2>2. CASE MoveAside
    BY <2>2 DEF IInv, TypeOK, MoveAside, startVars
  <2>3. CASE SwapIn
    <3>1. staged \in File
      BY <2>3 DEF IInv, TypeOK, DbInv, SwapIn
    <3>2. db' \in Snapshot \cup {None, Damaged}
      BY <2>3, <3>1, Values DEF SwapIn
    <3>3. QED
      BY <2>3, <3>2 DEF IInv, TypeOK, SwapIn, startVars
  <2>4. QED
    BY <1>5, <2>1, <2>2, <2>3 DEF applyPendingRestore
<1>6. CASE backupLoop
  <2>1. CASE RunOnce
    BY <2>1 DEF IInv, TypeOK, RunOnce, Run, loopVars
  <2>2. CASE CreateFile
    <3>1. b' \in Run
      BY <2>2 DEF IInv, TypeOK, CreateFile, Run
    <3>2. dir' \in [Seconds -> {"none", "part", "done"}] /\ collided' \in BOOLEAN
      BY <2>2 DEF IInv, TypeOK, CreateFile
    <3>3. QED
      BY <2>2, <3>1, <3>2 DEF IInv, TypeOK, CreateFile, loopVars
  <2>3. CASE Written
    <3>1. [dir EXCEPT ![b.at] = "done"] \in [Seconds -> {"none", "part", "done"}]
      BY DEF IInv, TypeOK
    <3>2. dir' \in [Seconds -> {"none", "part", "done"}]
      BY <2>3, <3>1, Pruned DEF Written
    <3>3. b' \in Run
      BY <2>3, RestoreAssumption DEF Written, Run, NoRun, Seconds
    <3>4. QED
      BY <2>3, <3>2, <3>3 DEF IInv, TypeOK, Written, loopVars
  <2>4. CASE WriteFailed
    BY <2>4, RestoreAssumption DEF IInv, TypeOK, WriteFailed, Fault, Run, NoRun, Seconds, loopVars
  <2>5. QED
    BY <1>6, <2>1, <2>2, <2>3, <2>4 DEF backupLoop
<1>7. ASSUME NEW r \in Uploads, AdminRestore(r) PROVE TypeOK'
  <2> USE DEF requestVars
  <2>0. Finished \in Request /\ Holes \in File
    BY DEF Finished, Request, Snapshot, Holes, File, Chunk
  <2>1. CASE Receive(r)
    <3>1. \A s \in Snapshot : [u[r] EXCEPT !.pc = "open", !.of = s] \in Request
      BY DEF IInv, TypeOK, Request
    <3>2. u' \in [Uploads -> Request]
      BY <2>0, <2>1, <3>1 DEF IInv, TypeOK, Receive, Become
    <3>3. QED
      BY <2>1, <3>2 DEF IInv, TypeOK, Receive
  <2>2. CASE OpenPartial(r)
    BY <2>0, <2>2 DEF IInv, TypeOK, OpenPartial, Become, Request
  <2>3. CASE WriteChunk(r)
    <3>1. u' \in [Uploads -> Request]
      BY <2>3 DEF IInv, TypeOK, WriteChunk, Become, Request
    <3>2. u[r].of \in Snapshot
      BY DEF IInv, TypeOK, Request
    <3>3. partial' \in File \cup {None} /\ staged' \in File \cup {None}
      BY <2>3, <3>2, Filled DEF IInv, TypeOK, RequestInv, WriteChunk
    <3>4. QED
      BY <2>3, <3>1, <3>3 DEF IInv, TypeOK, WriteChunk
  <2>4. CASE WriteFails(r)
    <3>1. u' \in [Uploads -> Request]
      BY <2>0, <2>4 DEF IInv, TypeOK, WriteFails, Request
    <3>2. QED
      BY <2>4, <3>1, RestoreAssumption DEF IInv, TypeOK, WriteFails, Fault
  <2>5. CASE RenamePartial(r)
    <3>1. u' \in [Uploads -> Request]
      BY <2>0, <2>5 DEF IInv, TypeOK, RenamePartial, Become, Request
    <3>2. QED
      BY <2>5, <3>1 DEF IInv, TypeOK, RenamePartial
  <2>6. QED
    BY <1>7, <2>1, <2>2, <2>3, <2>4, <2>5 DEF AdminRestore
<1>8. QED
  BY <1>1, <1>2, <1>3, <1>4, <1>5, <1>6, <1>7 DEF Next

-----------------------------------------------------------------------------
\* The process: what lives as long as it, and the database it starts with.
LEMMA ProcessStep == IInv /\ [Next]_vars => (ProcessInv /\ DbInv /\ LogInv)'
<1> SUFFICES ASSUME IInv, [Next]_vars PROVE (ProcessInv /\ DbInv /\ LogInv)'
  OBVIOUS
<1> USE DEF vars, dbVars, stageVars, backupVars, ProcessInv, DbInv, LogInv
<1>0. pc = "up" => Live \in Snapshot /\ Live \notin {None, Damaged}
  BY Values DEF IInv, TypeOK, Live, Snapshot
<1>1. CASE UNCHANGED vars \/ Tick \/ Start
  BY <1>1 DEF IInv, Tick, Start, startVars
<1>2. CASE Checkpoint \/ Stop \/ Crash
  <2>1. CASE Checkpoint
    BY <1>0, <2>1 DEF IInv, Checkpoint
  <2>2. CASE Stop
    BY <1>0, <2>2 DEF IInv, Stop, Finished
  <2>3. CASE Crash
    BY <2>3 DEF IInv, Crash, Finished
  <2>4. QED
    BY <1>2, <2>1, <2>2, <2>3
<1>3. CASE Open
  BY <1>3, Values DEF IInv, TypeOK, Open, startVars, Snapshot
<1>4. ASSUME NEW c \in Commits, Commit(c) PROVE (ProcessInv /\ DbInv /\ LogInv)'
  BY <1>4 DEF IInv, Commit
<1>5. CASE applyPendingRestore
  <2>1. CASE NothingStaged \/ MoveAside \/ AlreadyAside \/ RemoveSidecars \/ RenameFails
    BY <2>1 DEF IInv, NothingStaged, MoveAside, AlreadyAside, RemoveSidecars, RenameFails, startVars
  <2>2. CASE SwapIn
    BY <2>2, Values DEF IInv, TypeOK, SwapIn, startVars
  <2>3. QED
    BY <1>5, <2>1, <2>2 DEF applyPendingRestore
<1>6. CASE backupLoop
  <2>1. pc = "up"
    BY <1>6 DEF IInv, backupLoop, RunOnce, CreateFile, Written, WriteFailed, NoRun
  <2>2. QED
    BY <1>6, <2>1 DEF IInv, backupLoop, RunOnce, CreateFile, Written, WriteFailed, loopVars
<1>7. ASSUME NEW r \in Uploads, AdminRestore(r) PROVE (ProcessInv /\ DbInv /\ LogInv)'
  <2>1. UNCHANGED <<requestVars>>
    BY <1>7 DEF AdminRestore, Receive, OpenPartial, WriteChunk, WriteFails, RenamePartial
  <2>2. pc = "up"
    BY <1>7 DEF IInv, AdminRestore, Receive, OpenPartial, WriteChunk, WriteFails, RenamePartial
  <2>3. QED
    BY <2>1, <2>2, Values DEF IInv, requestVars
<1>8. QED
  BY <1>1, <1>2, <1>3, <1>4, <1>5, <1>6, <1>7 DEF Next

\* Restore requests: the files they have open, and what a staged file holds.
LEMMA RequestStep ==
  IInv /\ [Next]_vars => (RequestInv /\ StagingInv /\ StagedIntact)'
<1> DEFINE Goal == (RequestInv /\ StagingInv /\ StagedIntact)'
<1> SUFFICES ASSUME IInv, [Next]_vars PROVE Goal
  OBVIOUS
<1> USE DEF vars, dbVars, stageVars, backupVars
<1>1. ASSUME UNCHANGED <<stageVars>>, db' \in {db, None, {}} \/ (db' = Live /\ pc = "up") PROVE Goal
  <2>1. (RequestInv /\ StagingInv)'
    BY <1>1 DEF IInv, RequestInv, StagingInv
  <2>2. pc = "up" => Live \in Snapshot
    BY Values DEF IInv, TypeOK, DbInv, Live, Snapshot
  <2>3. db # Damaged => db' # Damaged
    BY <1>1, <2>2, Values DEF Snapshot
  <2>4. StagedIntact'
    BY <1>1, <2>3 DEF IInv, StagedIntact
  <2>5. QED
    BY <2>1, <2>4
<1>2. CASE UNCHANGED vars \/ Tick \/ Checkpoint \/ Start \/ Open \/ \E c \in Commits : Commit(c)
  <2>1. UNCHANGED <<stageVars>> /\ (db' \in {db, None, {}} \/ (db' = Live /\ pc = "up"))
    BY <1>2 DEF Tick, Checkpoint, Start, Open, Commit, startVars
  <2>2. QED
    BY <1>1, <2>1
<1>3. CASE Stop \/ Crash
  <2>1. \A r \in Uploads : (u'[r] = u[r] /\ u[r].pc = "idle") \/ u'[r] = Finished
    BY <1>3 DEF Stop, Crash
  <2>2. \A r \in Uploads : u'[r].fd = "none" /\ u'[r].pc \in {"idle", "done"}
    BY <2>1 DEF IInv, RequestInv, Finished
  <2>3. (RequestInv /\ StagingInv)'
    BY <2>2 DEF RequestInv, StagingInv
  <2>4. pc = "up" => Live \in Snapshot
    BY Values DEF IInv, TypeOK, DbInv, Live, Snapshot
  <2>5. StagedIntact'
    BY <1>3, <2>4, Values DEF IInv, StagedIntact, Stop, Crash
  <2>6. QED
    BY <2>3, <2>5
<1>4. CASE applyPendingRestore
  <2>1. CASE SwapIn
    <3>1. \A r \in Uploads : u[r].fd = "none" /\ UNCHANGED <<u, partial, overlapped>>
      BY <2>1 DEF IInv, ProcessInv, RequestInv, SwapIn, startVars
    <3>2. (RequestInv /\ StagingInv)'
      BY <3>1 DEF IInv, RequestInv, StagingInv
    <3>3. StagedIntact'
      BY <2>1, <3>1 DEF IInv, DbInv, StagedIntact, SwapIn, startVars
    <3>4. QED
      BY <3>2, <3>3
  <2>2. CASE ~ SwapIn
    <3>1. UNCHANGED <<stageVars>> /\ db' \in {db, None}
      BY <1>4, <2>2 DEF applyPendingRestore, NothingStaged, MoveAside, AlreadyAside, RemoveSidecars,
         RenameFails, startVars
    <3>2. QED
      BY <1>1, <3>1
  <2>3. QED
    BY <2>1, <2>2
<1>5. CASE backupLoop
  <2>1. UNCHANGED <<stageVars>> /\ db' = db
    BY <1>5 DEF backupLoop, RunOnce, CreateFile, Written, WriteFailed, loopVars
  <2>2. QED
    BY <1>1, <2>1
<1>6. ASSUME NEW r \in Uploads, AdminRestore(r) PROVE Goal
  <2> USE DEF requestVars, Become
  <2>0. u \in [Uploads -> Request] /\ u[r].of \in Snapshot /\ db' = db
    BY <1>6 DEF IInv, TypeOK, Request, AdminRestore, Receive, OpenPartial, WriteChunk, WriteFails, RenamePartial
  <2>1. CASE Receive(r)
    <3>1. u[r].fd = "none" /\ UNCHANGED <<partial, staged, overlapped>>
      BY <2>1 DEF IInv, RequestInv, Receive
    <3>2. \A q \in Uploads \ {r} : u'[q] = u[q]
      BY <2>0, <2>1 DEF Receive
    <3>3. u'[r].fd = "none" /\ u'[r].pc \in {"open", "done"}
      <4>1. /\ \A s \in Snapshot : /\ [u[r] EXCEPT !.pc = "open", !.of = s].fd = "none"
                                  /\ [u[r] EXCEPT !.pc = "open", !.of = s].pc = "open"
            /\ Finished.fd = "none" /\ Finished.pc = "done"
        BY <2>0, <3>1 DEF Finished, Request
      <4>2. u'[r] = Finished \/ \E s \in Snapshot : u'[r] = [u[r] EXCEPT !.pc = "open", !.of = s]
        BY <2>0, <2>1 DEF Receive
      <4>3. QED
        BY <4>1, <4>2
    <3>4. RequestInv'
      BY <3>1, <3>2, <3>3 DEF IInv, RequestInv
    <3>5. StagingInv'
      BY <3>1, <3>2, <3>3 DEF IInv, StagingInv
    <3>6. StagedIntact'
      BY <2>0, <3>1 DEF IInv, StagedIntact
    <3>7. QED
      BY <3>4, <3>5, <3>6
  <2>2. CASE OpenPartial(r)
    <3>1. /\ \A q \in Uploads \ {r} : u'[q] = u[q]
          /\ u'[r].fd = "partial" /\ u'[r].pc = "first"
      BY <2>0, <2>2 DEF OpenPartial, Request
    <3>2. partial' # None /\ staged' = staged
      BY <2>2, Values DEF OpenPartial, Holes, File, Chunk
    <3>3. RequestInv' /\ StagedIntact'
      BY <2>0, <2>2, <3>1, <3>2 DEF IInv, RequestInv, StagedIntact, OpenPartial
    <3>4. ASSUME ~ overlapped' PROVE \A q \in Uploads \ {r} : u[q].fd = "none" /\ ~ overlapped
      BY <2>2, <3>4 DEF IInv, StagingInv, OpenPartial
    <3>5. StagingInv'
      BY <3>1, <3>4 DEF IInv, StagingInv, RequestInv
    <3>6. QED
      BY <3>3, <3>5
  <2>3. CASE WriteChunk(r)
    <3>1. /\ \A q \in Uploads \ {r} : u'[q] = u[q]
          /\ u'[r].fd = u[r].fd /\ u'[r].of = u[r].of
          /\ u'[r].pc = IF u[r].pc = "first" THEN "second" ELSE "rename"
          /\ u[r].pc \in {"first", "second"} /\ u[r].fd # "none"
      BY <2>0, <2>3 DEF IInv, RequestInv, WriteChunk, Request
    <3>2. \E k \in {1, 2} :
            /\ k = 1 <=> u[r].pc = "first"
            /\ partial' = IF u[r].fd = "partial" THEN Fill(partial, k, u[r].of) ELSE partial
            /\ staged' = IF u[r].fd = "staged" THEN Fill(staged, k, u[r].of) ELSE staged
            /\ overlapped' = overlapped
      BY <2>3 DEF WriteChunk
    <3>3. u[r].fd = "partial" => partial \in File
      BY DEF IInv, TypeOK, RequestInv
    <3>4. u[r].fd = "staged" => staged \in File
      BY DEF IInv, TypeOK, RequestInv
    <3>5. (partial # None => partial' # None) /\ (staged # None => staged' # None)
      BY <2>0, <3>2, <3>3, <3>4, Filled, Values
    <3>6. RequestInv'
      BY <3>1, <3>5 DEF IInv, RequestInv
    <3>7. ASSUME ~ overlapped
          PROVE  /\ u[r].fd = "partial" /\ staged' = staged
                 /\ partial'[1] = u[r].of
                 /\ u[r].pc = "second" => partial'[2] = u[r].of
                 /\ \A q \in Uploads \ {r} : u[q].fd = "none"
      <4>1. u[r].fd = "partial" /\ \A q \in Uploads \ {r} : u[q].fd = "none"
        BY <3>1, <3>7 DEF IInv, StagingInv
      <4>2. u[r].pc = "second" => partial[1] = u[r].of
        BY <3>7 DEF IInv, StagingInv
      <4>3. QED
        BY <2>0, <3>1, <3>2, <3>3, <4>1, <4>2, Filled
    <3>8. StagingInv'
      <4> SUFFICES ASSUME ~ overlapped PROVE StagingInv'
        BY <3>2 DEF StagingInv
      <4>1. \A q \in Uploads \ {r} : u'[q].fd = "none" /\ u'[q].pc \notin {"second", "rename"}
        BY <3>1, <3>7 DEF IInv, RequestInv
      <4>2. QED
        BY <3>1, <3>7, <4>1 DEF StagingInv
    <3>9. StagedIntact'
      BY <2>0, <3>2, <3>7 DEF IInv, StagedIntact
    <3>10. QED
      BY <3>6, <3>8, <3>9
  <2>4. CASE WriteFails(r)
    <3>1. /\ u'[r] = Finished /\ partial' = None /\ staged' = staged /\ overlapped' = overlapped
          /\ u[r].fd # "none"
          /\ \A q \in Uploads \ {r} : u'[q] = IF u[q].fd = "partial" THEN [u[q] EXCEPT !.fd = "unlinked"]
                                             ELSE u[q]
      BY <2>4 DEF IInv, RequestInv, WriteFails
    <3>2. \A q \in Uploads \ {r} : /\ u'[q].pc = u[q].pc
                                  /\ u'[q].fd = IF u[q].fd = "partial" THEN "unlinked" ELSE u[q].fd
      BY <2>0, <3>1 DEF Request
    <3>3. RequestInv'
      BY <3>1, <3>2 DEF IInv, RequestInv, Finished
    <3>4. StagingInv'
      <4> SUFFICES ASSUME ~ overlapped PROVE StagingInv'
        BY <3>1 DEF StagingInv
      <4>1. \A q \in Uploads \ {r} : u[q].fd = "none" /\ u[q].pc \notin {"second", "rename"}
        BY <3>1 DEF IInv, StagingInv, RequestInv
      <4>2. QED
        BY <3>1, <3>2, <4>1 DEF StagingInv, Finished
    <3>5. StagedIntact'
      BY <2>0, <3>1 DEF IInv, StagedIntact
    <3>6. QED
      BY <3>3, <3>4, <3>5
  <2>5. CASE RenamePartial(r)
    <3>1. overlapped' = overlapped /\ u'[r] = Finished /\ u[r].pc = "rename"
      BY <2>0, <2>5 DEF RenamePartial
    <3>2. CASE partial = None
      <4>1. \A q \in Uploads \ {r} : u'[q] = u[q]
        BY <2>0, <2>5, <3>2 DEF RenamePartial
      <4>2. UNCHANGED <<partial, staged>>
        BY <2>5, <3>2 DEF RenamePartial
      <4>3. RequestInv'
        BY <3>1, <4>1, <4>2 DEF IInv, RequestInv, Finished
      <4>4. StagingInv'
        BY <3>1, <4>1, <4>2 DEF IInv, StagingInv, Finished
      <4>5. StagedIntact'
        BY <2>0, <3>1, <4>2 DEF IInv, StagedIntact
      <4>6. QED
        BY <4>3, <4>4, <4>5
    <3>3. CASE partial # None
      <4>1. /\ staged' = partial /\ partial' = None
            /\ \A q \in Uploads \ {r} :
                 u'[q] = IF u[q].fd = "partial" THEN [u[q] EXCEPT !.fd = "staged"]
                         ELSE IF u[q].fd = "staged" THEN [u[q] EXCEPT !.fd = "unlinked"]
                         ELSE u[q]
        BY <2>5, <3>3 DEF RenamePartial
      <4>2. \A q \in Uploads \ {r} :
              /\ u'[q].pc = u[q].pc
              /\ u'[q].fd = IF u[q].fd = "partial" THEN "staged"
                            ELSE IF u[q].fd = "staged" THEN "unlinked" ELSE u[q].fd
        BY <2>0, <4>1 DEF Request
      <4>3. RequestInv'
        BY <3>1, <3>3, <4>1, <4>2 DEF IInv, RequestInv, Finished
      <4>4. ASSUME ~ overlapped
            PROVE  /\ partial = <<u[r].of, u[r].of>>
                   /\ \A q \in Uploads \ {r} : u[q].fd = "none" /\ u[q].pc \notin {"second", "rename"}
        <5>1. u[r].fd = "partial" /\ partial \in File
          BY <3>1, <3>3, <4>4 DEF IInv, TypeOK, RequestInv, StagingInv
        <5>2. partial[1] = u[r].of /\ partial[2] = u[r].of
          BY <3>1, <4>4 DEF IInv, StagingInv
        <5>3. partial = <<partial[1], partial[2]>>
          BY <5>1 DEF File
        <5>4. \A q \in Uploads \ {r} : u[q].fd = "none"
          BY <4>4, <5>1 DEF IInv, StagingInv
        <5>5. QED
          BY <5>2, <5>3, <5>4 DEF IInv, RequestInv
      <4>5. StagingInv'
        BY <3>1, <4>2, <4>4 DEF StagingInv, Finished
      <4>6. StagedIntact'
        BY <2>0, <3>1, <4>1, <4>4, Values DEF IInv, StagedIntact, Value
      <4>7. QED
        BY <4>3, <4>5, <4>6
    <3>4. QED
      BY <3>2, <3>3
  <2>6. QED
    BY <1>6, <2>1, <2>2, <2>3, <2>4, <2>5 DEF AdminRestore
<1>7. QED
  BY <1>2, <1>3, <1>4, <1>5, <1>6 DEF Next

\* Acknowledged commits.
LEMMA LostStep == IInv /\ [Next]_vars => NothingLost'
<1> SUFFICES ASSUME IInv, [Next]_vars, ~ collided' PROVE NothingLost'
  BY DEF NothingLost
<1> USE DEF vars, dbVars, stageVars, backupVars
<1> DEFINE Safe == SavedIn(db) \cup wal \cup unclosed \cup UNION {SavedIn(kept[t]) : t \in Seconds}
<1>0. ~ collided => acked \subseteq Safe
  BY DEF IInv, NothingLost
<1>1. ASSUME UNCHANGED <<wal, kept, acked, unclosed, collided>>, SavedIn(db) \subseteq SavedIn(db')
      PROVE NothingLost'
  BY <1>0, <1>1 DEF NothingLost
<1>2. CASE UNCHANGED vars \/ Tick \/ Start \/ Open
  <2>1. SavedIn(db) \subseteq SavedIn(db')
    BY <1>2 DEF Tick, Start, Open, startVars, SavedIn
  <2>2. QED
    BY <1>1, <1>2, <2>1 DEF Tick, Start, Open, startVars
<1>3. CASE Checkpoint \/ Stop
  <2>1. SavedIn(db) \cup wal = SavedIn(db') \cup wal'
    <3>1. SavedIn(db) = db /\ SavedIn(db \cup wal) = db \cup wal
      BY <1>3, Values DEF IInv, TypeOK, DbInv, Checkpoint, Stop, SavedIn, Snapshot
    <3>2. QED
      BY <1>3, <3>1 DEF Checkpoint, Stop, Live
  <2>2. QED
    BY <1>0, <1>3, <2>1 DEF NothingLost, Checkpoint, Stop
<1>4. CASE Crash
  BY <1>0, <1>4 DEF NothingLost, Crash
<1>5. ASSUME NEW c \in Commits, Commit(c) PROVE NothingLost'
  BY <1>0, <1>5 DEF NothingLost, Commit
<1>6. CASE applyPendingRestore
  <2>1. CASE NothingStaged \/ AlreadyAside \/ RenameFails
    BY <1>1, <2>1 DEF NothingStaged, AlreadyAside, RenameFails, startVars
  <2>2. CASE MoveAside
    <3>1. ~ collided /\ kept[now] = None /\ now \in Seconds /\ kept \in [Seconds -> Snapshot \cup {None, Damaged}]
      BY <2>2 DEF IInv, TypeOK, MoveAside
    <3>2. kept'[now] = db /\ \A t \in Seconds \ {now} : kept'[t] = kept[t]
      BY <2>2, <3>1 DEF MoveAside
    <3>3. SavedIn(kept[now]) = {}
      BY <3>1 DEF SavedIn
    <3>4. Safe \subseteq Safe'
      <4>1. UNCHANGED <<wal, unclosed>>
        BY <2>2 DEF MoveAside, startVars
      <4>2. SavedIn(db) \subseteq UNION {SavedIn(kept'[t]) : t \in Seconds}
        BY <3>1, <3>2
      <4>3. \A t \in Seconds : SavedIn(kept[t]) \subseteq UNION {SavedIn(kept'[x]) : x \in Seconds}
        BY <3>2, <3>3
      <4>4. QED
        BY <4>1, <4>2, <4>3
    <3>5. QED
      BY <1>0, <2>2, <3>1, <3>4 DEF NothingLost, MoveAside, startVars
  <2>3. CASE RemoveSidecars
    <3>1. wal \subseteq unclosed
      BY <2>3 DEF IInv, LogInv, RemoveSidecars
    <3>2. QED
      BY <1>0, <2>3, <3>1 DEF NothingLost, RemoveSidecars, startVars
  <2>4. CASE SwapIn
    <3>1. SavedIn(db) = {}
      BY <2>4 DEF IInv, DbInv, SwapIn, SavedIn
    <3>2. QED
      BY <1>1, <2>4, <3>1 DEF SwapIn, startVars
  <2>5. QED
    BY <1>6, <2>1, <2>2, <2>3, <2>4 DEF applyPendingRestore
<1>7. CASE backupLoop
  <2>1. UNCHANGED <<dbVars>>
    BY <1>7 DEF backupLoop, RunOnce, CreateFile, Written, WriteFailed, loopVars
  <2>2. ~ collided
    <3>1. collided' = collided \/ collided' = (collided \/ dir[b.at] # "none")
      BY <1>7 DEF backupLoop, RunOnce, CreateFile, Written, WriteFailed
    <3>2. QED
      BY <3>1, Zenon
  <2>3. QED
    BY <1>0, <2>1, <2>2 DEF NothingLost
<1>8. ASSUME NEW r \in Uploads, AdminRestore(r) PROVE NothingLost'
  BY <1>1, <1>8 DEF AdminRestore, Receive, OpenPartial, WriteChunk, WriteFails, RenamePartial, requestVars
<1>9. QED
  BY <1>2, <1>3, <1>4, <1>5, <1>6, <1>7, <1>8 DEF Next

\* Pruning keeps the newest file.
LEMMA NewestStays ==
  ASSUME NEW e \in [Seconds -> {"none", "part", "done"}], NEW m \in Seconds,
         e[m] # "none", \A t \in Files(e) : t <= m
  PROVE  Prune(e)[m] = e[m]
<1>1. {x \in Files(e) : x >= m} = {m}
  BY DEF Files, Seconds
<1>2. Cardinality({m}) = 1
  BY FS_Singleton
<1>3. QED
  BY <1>1, <1>2, RestoreAssumption DEF Prune

\* Backups: the clock names them in order.
LEMMA BackupStep == IInv /\ [Next]_vars => BackupInv'
<1> SUFFICES ASSUME IInv, [Next]_vars PROVE BackupInv'
  OBVIOUS
<1> USE DEF vars, dbVars, stageVars, backupVars, BackupInv, Files
<1>0. now \in Nat /\ b.at \in Nat /\ \A t \in Seconds : t \in Nat
  BY RestoreAssumption DEF IInv, TypeOK, Run, Seconds
<1>1. ASSUME UNCHANGED <<dir, b>>, now' \in {now, now + 1} PROVE BackupInv'
  BY <1>0, <1>1 DEF IInv
<1>2. CASE UNCHANGED vars \/ Tick \/ Checkpoint \/ Start \/ Open \/ applyPendingRestore
           \/ \E c \in Commits : Commit(c)
  BY <1>1, <1>2 DEF Tick, Checkpoint, Start, Open, startVars, Commit, applyPendingRestore, NothingStaged,
     MoveAside, AlreadyAside, RemoveSidecars, SwapIn, RenameFails
<1>3. CASE Stop \/ Crash
  BY <1>3 DEF IInv, Stop, Crash, NoRun
<1>4. CASE \E r \in Uploads : AdminRestore(r)
  BY <1>1, <1>4 DEF AdminRestore, Receive, OpenPartial, WriteChunk, WriteFails, RenamePartial, requestVars
<1>5. CASE backupLoop
  <2>0. dir \in [Seconds -> {"none", "part", "done"}] /\ b \in Run /\ b.at \in Seconds
    BY DEF IInv, TypeOK, Run
  <2>1. CASE RunOnce
    <3>1. b'.at = now /\ b'.pc = "open" /\ now' = now /\ dir' = dir
      BY <2>1 DEF RunOnce, loopVars
    <3>2. QED
      BY <1>0, <3>1 DEF IInv
  <2>2. CASE CreateFile
    <3>1. b'.pc = "write" /\ b'.at = b.at /\ now' = now
      BY <2>0, <2>2 DEF CreateFile, Run, loopVars
    <3>2. dir'[b.at] = "part" /\ \A t \in Seconds \ {b.at} : dir'[t] = dir[t]
      BY <2>0, <2>2 DEF CreateFile
    <3>3. b.at <= now /\ \A t \in Files(dir) : t <= b.at
      BY <2>2 DEF IInv, CreateFile
    <3>4. QED
      BY <1>0, <2>0, <3>1, <3>2, <3>3
  <2>3. CASE Written \/ WriteFailed
    <3>1. b' = NoRun /\ now' = now /\ b.pc = "write"
      BY <2>3 DEF Written, WriteFailed, loopVars
    <3>2. \A t \in Seconds : dir'[t] # "none" => dir[t] # "none"
      <4>1. [dir EXCEPT ![b.at] = "done"] \in [Seconds -> {"none", "part", "done"}]
        BY <2>0
      <4>2. CASE Written
        BY <2>0, <3>1, <4>1, <4>2, Pruned DEF IInv, Written
      <4>3. CASE WriteFailed
        BY <2>0, <4>3 DEF WriteFailed
      <4>4. QED
        BY <2>3, <4>2, <4>3
    <3>3. QED
      BY <3>1, <3>2 DEF IInv, NoRun
  <2>4. QED
    BY <1>5, <2>1, <2>2, <2>3 DEF backupLoop
<1>6. QED
  BY <1>2, <1>3, <1>4, <1>5 DEF Next

-----------------------------------------------------------------------------
\* The inductive invariant of the process, its files, requests and backups.
THEOREM RestoreInvariant == Spec => []IInv
<1>1. Init => IInv
  <2> SUFFICES ASSUME Init PROVE IInv
    OBVIOUS
  <2> USE DEF Init, Finished, NoRun
  <2>1. TypeOK
    <3>1. [Finished EXCEPT !.pc = "idle"] \in Request
      BY DEF Request, Snapshot
    <3>2. u \in [Uploads -> Request]
      BY <3>1
    <3>3. /\ 0 \in Seconds /\ {} \in Snapshot
          /\ faults \in 0..MaxFaults /\ crashes \in 0..MaxCrashes
      BY RestoreAssumption DEF Seconds, Snapshot
    <3>4. b \in Run /\ dir \in [Seconds -> {"none", "part", "done"}]
      BY <3>3 DEF Run
    <3>5. QED
      BY <3>2, <3>3, <3>4 DEF TypeOK
  <2>2. db # None /\ db # Damaged
    BY Values DEF Snapshot
  <2>3. ProcessInv /\ RequestInv /\ DbInv /\ LogInv /\ StagingInv /\ BackupInv
    BY <2>2 DEF ProcessInv, RequestInv, DbInv, LogInv, StagingInv, BackupInv, Files
  <2>4. StagedIntact /\ NothingLost
    BY <2>2 DEF StagedIntact, NothingLost
  <2>5. QED
    BY <2>1, <2>3, <2>4 DEF IInv
<1>2. IInv /\ [Next]_vars => IInv'
  BY TypeStep, ProcessStep, RequestStep, LostStep, BackupStep DEF IInv
<1>3. QED
  BY <1>1, <1>2, PTL DEF Spec

\* Every variable keeps its type.
THEOREM TypeCorrect == Spec => []TypeOK
<1>1. IInv => TypeOK
  BY DEF IInv
<1>2. QED
  BY <1>1, RestoreInvariant, PTL

\* What is staged, and the database a start opens, is one validated snapshot.
THEOREM StagedIntactAlways == Spec => []StagedIntact
<1>1. IInv => StagedIntact
  BY DEF IInv
<1>2. QED
  BY <1>1, RestoreInvariant, PTL

\* No restore and no crash loses an acknowledged commit.
THEOREM NothingLostAlways == Spec => []NothingLost
<1>1. IInv => NothingLost
  BY DEF IInv
<1>2. QED
  BY <1>1, RestoreInvariant, PTL

\* Neither pruning nor a failed attempt removes the newest finished backup.
THEOREM BackupsAlwaysSurvive == Spec => BackupsSurvive
<1> DEFINE Survive == ~ collided' => \A t \in Complete : t \in Complete' \/ \E x \in Complete' : x > t
<1>1. IInv /\ [Next]_vars => [Survive]_vars
  <2> SUFFICES ASSUME IInv, [Next]_vars, ~ collided', NEW t \in Complete
               PROVE  t \in Complete' \/ \E x \in Complete' : x > t
    OBVIOUS
  <2> USE DEF Complete
  <2>0. /\ dir \in [Seconds -> {"none", "part", "done"}] /\ b.at \in Seconds
        /\ \A x \in Seconds : x \in Nat
    BY RestoreAssumption DEF IInv, TypeOK, Run, Seconds
  <2>1. CASE dir' = dir
    BY <2>1
  <2>2. CASE CreateFile
    <3>1. dir[b.at] = "none" /\ \A x \in Seconds \ {b.at} : dir'[x] = dir[x]
      BY <2>0, <2>2 DEF CreateFile
    <3>2. QED
      BY <3>1
  <2>3. CASE Written
    <3> DEFINE e == [dir EXCEPT ![b.at] = "done"]
    <3>1. /\ e \in [Seconds -> {"none", "part", "done"}] /\ e[b.at] = "done"
          /\ dir[b.at] = "part" /\ \A x \in Files(dir) : x <= b.at
          /\ \A x \in Seconds \ {b.at} : e[x] = dir[x]
      BY <2>0, <2>3 DEF IInv, BackupInv, Written
    <3>2. \A x \in Files(e) : x <= b.at
      BY <2>0, <3>1 DEF Files
    <3>3. dir'[b.at] = "done"
      BY <2>0, <2>3, <3>1, <3>2, NewestStays DEF Written
    <3>4. t <= b.at /\ t # b.at
      BY <3>1 DEF Files
    <3>5. QED
      BY <2>0, <3>3, <3>4
  <2>4. CASE WriteFailed
    <3>1. dir[b.at] = "part" /\ \A x \in Seconds \ {b.at} : dir'[x] = dir[x]
      BY <2>0, <2>4 DEF IInv, BackupInv, WriteFailed
    <3>2. QED
      BY <3>1
  <2>5. [Next]_vars => dir' = dir \/ CreateFile \/ Written \/ WriteFailed
    BY DEF Next, vars, backupVars, Tick, Checkpoint, Stop, Crash, Start, Open, startVars, Commit,
       applyPendingRestore, NothingStaged, MoveAside, AlreadyAside, RemoveSidecars, SwapIn, RenameFails,
       AdminRestore, Receive, OpenPartial, WriteChunk, WriteFails, RenamePartial, requestVars,
       backupLoop, RunOnce
  <2>6. QED
    BY <2>1, <2>2, <2>3, <2>4, <2>5
<1>2. QED
  BY <1>1, RestoreInvariant, PTL DEF Spec, BackupsSurvive

-----------------------------------------------------------------------------
(* The refinement. *)

\* The process is up, or nothing but the start changes the database's files.
LEMMA StepImplements == IInv /\ IInv' /\ [Next]_vars => [Atomic!Next]_(Atomic!vars)
<1> SUFFICES ASSUME IInv, IInv', [Next]_vars PROVE [Atomic!Next]_(Atomic!vars)
  OBVIOUS
<1> USE DEF vars, dbVars, stageVars, backupVars
<1> DEFINE current == IF db = None THEN Value(staged) ELSE IF db = Damaged THEN Damaged ELSE db \cup wal
           durable == IF db = None THEN Value(staged) ELSE db
           pending == IF db = None \/ staged = None THEN None ELSE Value(staged)
           Stutter == UNCHANGED <<acked, current, durable, pending, kept>>
<1>1. Stutter => [Atomic!Next]_(Atomic!vars)
  BY DEF Atomic!vars
<1>2. ASSUME NEW c \in Commits, current # Damaged, c \notin acked, acked' = acked \cup {c},
             current' = current \cup {c}, UNCHANGED <<durable, pending, kept>>
      PROVE  Atomic!Next
  <2>1. Atomic!Commit(c)
    BY <1>2 DEF Atomic!Commit
  <2>2. QED
    BY <2>1 DEF Atomic!Next
<1>3. ASSUME durable' = current, UNCHANGED <<acked, current, pending, kept>> PROVE Atomic!Next
  BY <1>3 DEF Atomic!Next, Atomic!Checkpoint
<1>4. ASSUME pending' \in Atomic!Content, UNCHANGED <<acked, current, durable, kept>> PROVE Atomic!Next
  BY <1>4 DEF Atomic!Next, Atomic!Stage
<1>5. ASSUME NEW t \in Seconds, pending # None, kept' = [kept EXCEPT ![t] = durable], UNCHANGED acked,
             current' = pending, durable' = pending, pending' = None
      PROVE  Atomic!Next
  <2>1. Atomic!Apply(t)
    BY <1>5 DEF Atomic!Apply
  <2>2. QED
    BY <2>1 DEF Atomic!Next
<1> HIDE DEF Stutter
<1>6. UNCHANGED <<db, wal, staged, acked, kept>> => Stutter
  BY DEF Stutter
<1>7. pc = "up" => /\ db \in Snapshot /\ Live \in Snapshot /\ db \notin {None, Damaged}
                   /\ Live \notin {None, Damaged}
  BY Values DEF IInv, TypeOK, DbInv, Live, Snapshot
<1>8. CASE UNCHANGED vars \/ Tick \/ Start \/ Crash \/ backupLoop
  <2>1. UNCHANGED <<db, wal, staged, acked, kept>>
    BY <1>8 DEF Tick, Start, startVars, Crash, backupLoop, RunOnce, CreateFile, Written, WriteFailed, loopVars
  <2>2. QED
    BY <1>1, <1>6, <2>1
<1>9. CASE Open
  <2>1. db # None
    BY <1>9 DEF IInv, DbInv, Open
  <2>2. UNCHANGED <<db, wal, staged, acked, kept>>
    BY <1>9, <2>1 DEF Open, startVars
  <2>3. QED
    BY <1>1, <1>6, <2>2
<1>10. CASE Checkpoint \/ Stop
  <2>1. /\ pc = "up" /\ db' = Live /\ wal' = {} /\ UNCHANGED <<acked, staged, kept>>
    BY <1>10 DEF Checkpoint, Stop
  <2>2. durable' = current /\ UNCHANGED <<acked, current, pending, kept>>
    BY <1>7, <2>1 DEF Live
  <2>3. QED
    BY <1>3, <2>2
<1>11. ASSUME NEW c \in Commits, Commit(c) PROVE Atomic!Next
  <2>1. /\ pc = "up" /\ wal' = wal \cup {c} /\ acked' = acked \cup {c} /\ c \notin acked
        /\ UNCHANGED <<db, staged, kept>>
    BY <1>11 DEF Commit
  <2>2. current # Damaged /\ current' = current \cup {c} /\ UNCHANGED <<durable, pending, kept>>
    BY <1>7, <2>1 DEF Live
  <2>3. QED
    BY <1>2, <2>1, <2>2
<1>12. CASE NothingStaged \/ AlreadyAside \/ RenameFails
  <2>1. UNCHANGED <<db, wal, staged, acked, kept>>
    BY <1>12 DEF NothingStaged, AlreadyAside, RenameFails, startVars
  <2>2. QED
    BY <1>1, <1>6, <2>1
<1>13. CASE MoveAside
  <2>1. /\ db # None /\ db' = None /\ staged # None /\ UNCHANGED <<staged, acked>>
        /\ kept' = [kept EXCEPT ![now] = db] /\ now \in Seconds
    BY <1>13 DEF IInv, TypeOK, MoveAside, startVars
  <2>2. Value(staged) # None
    BY <2>1, Values DEF IInv, TypeOK
  <2>3. /\ pending # None /\ kept' = [kept EXCEPT ![now] = durable]
        /\ current' = pending /\ durable' = pending /\ pending' = None
    BY <2>1, <2>2
  <2>4. QED
    BY <1>5, <2>1, <2>3
<1>14. CASE RemoveSidecars
  <2>1. db = None /\ UNCHANGED <<db, staged, acked, kept>>
    BY <1>14 DEF IInv, DbInv, RemoveSidecars, startVars
  <2>2. Stutter
    BY <2>1 DEF Stutter
  <2>3. QED
    BY <1>1, <2>2
<1>15. CASE SwapIn
  <2>1. /\ db = None /\ wal = {} /\ db' = Value(staged) /\ staged' = None
        /\ UNCHANGED <<wal, acked, kept>>
    BY <1>15 DEF IInv, DbInv, SwapIn, startVars
  <2>2. Value(staged) # None
    BY <2>1, Values DEF IInv, TypeOK, DbInv
  <2>3. Stutter
    BY <2>1, <2>2 DEF Stutter
  <2>4. QED
    BY <1>1, <2>3
<1>16. ASSUME NEW r \in Uploads, AdminRestore(r) PROVE [Atomic!Next]_(Atomic!vars)
  <2>1. pc = "up" /\ UNCHANGED <<db, wal, acked, kept>>
    BY <1>16 DEF IInv, ProcessInv, AdminRestore, Receive, OpenPartial, WriteChunk, WriteFails,
       RenamePartial, requestVars
  <2>2. CASE staged' = None
    <3>1. staged = None
      <4>1. CASE UNCHANGED staged
        BY <2>2, <4>1
      <4>2. CASE RenamePartial(r)
        BY <2>2, <4>1, <4>2 DEF RenamePartial
      <4>3. CASE WriteChunk(r)
        <5>1. u[r].of \in Snapshot
          BY DEF IInv, TypeOK, Request
        <5>2. ASSUME staged \in File PROVE staged' \in File
          <6>1. \A k \in {1, 2} : Fill(staged, k, u[r].of) \in File
            BY <5>1, <5>2, Filled
          <6>2. QED
            BY <4>3, <5>2, <6>1 DEF WriteChunk
        <5>3. QED
          BY <2>2, <5>2, Values DEF IInv, TypeOK
      <4>4. QED
        BY <1>16, <4>1, <4>2, <4>3 DEF AdminRestore, Receive, OpenPartial, WriteFails
    <3>2. QED
      BY <1>1, <1>6, <2>1, <2>2, <3>1
  <2>3. CASE staged' # None
    <3>1. staged' \in File
      BY <2>3 DEF IInv, TypeOK
    <3>2. Value(staged') \in Atomic!Content
      BY <3>1, Values DEF Atomic!Content, Snapshot
    <3>3. pending' = Value(staged') /\ UNCHANGED <<acked, current, durable, kept>>
      BY <1>7, <2>1, <2>3
    <3>4. QED
      BY <1>4, <3>2, <3>3
  <2>4. QED
    BY <2>2, <2>3
<1>17. QED
  BY <1>8, <1>9, <1>10, <1>11, <1>12, <1>13, <1>14, <1>15, <1>16 DEF Next, applyPendingRestore

\* A restore, with everything that may interrupt it, is one step of AtomicRestore.
THEOREM RestoreIsAtomicAlways == Spec => RestoreIsAtomic
<1>1. Init => Atomic!Init
  BY Values DEF Init, Atomic!Init, Snapshot
<1>2. QED
  BY <1>1, StepImplements, RestoreInvariant, PTL DEF Spec, RestoreIsAtomic, Atomic!Spec
=============================================================================
