-------------------------------- MODULE Restore --------------------------------
(***************************************************************************)
(* The database file through backups, restores, stops and crashes:         *)
(* AdminBackup and AdminRestore of internal/handler/handler.go,            *)
(* applyPendingRestore and backupLoop of cmd/main.go, internal/backup and  *)
(* NewSQLiteStore and Backup of internal/store/sqlite.go.                  *)
(*                                                                         *)
(* A database is the set of its commits.  The commits that SQLite has not  *)
(* checkpointed are in the -wal file beside it.  A file that is written in *)
(* place is two chunks; an open file outlives the renaming and removal of  *)
(* its name, so that a handler may write to a file that is staged already. *)
(***************************************************************************)
EXTENDS Integers, FiniteSets

CONSTANTS
  Commits,     \* bound: write transactions
  Uploads,     \* restore requests
  MaxTime,     \* bound: seconds of the clock
  MaxCrashes,  \* bound: deaths of the process without a shutdown
  MaxFaults,   \* bound: writes and renames that fail
  Keep,        \* BACKUP_KEEP
  Hole,        \* a chunk that was not written
  Damaged,     \* a database that is no snapshot: chunks of several, or holes
  None

ASSUME RestoreAssumption ==
  /\ Keep \in Nat \ {0} /\ MaxTime \in Nat /\ MaxCrashes \in Nat /\ MaxFaults \in Nat
  /\ \A s \in SUBSET Commits : s \notin {Hole, Damaged, None}
  /\ \A s, t \in (SUBSET Commits) \cup {Hole} : <<s, t>> # None
  /\ Damaged # None

VARIABLES
  pc,         \* position of the process: down, or in main
  now,        \* the clock, in seconds
  db, wal,    \* the database file and its write-ahead log
  partial,    \* <db>.restore.partial
  staged,     \* <db>.restore
  kept,       \* <db>.pre-restore-<second>
  u,          \* per restore request: position, snapshot, the file it has open
  dir,        \* BACKUP_DIR: the files accelero-backup-<second>
  b,          \* the run of the backup loop
  faults, crashes,
  acked,      \* history: commits whose writer was told so
  unclosed,   \* history: commits in the log when the process died
  overlapped, \* history: two requests had the partial file open at once
  collided    \* history: two starts or backups had one second for a name

vars == <<pc, now, db, wal, partial, staged, kept, u, dir, b, faults, crashes,
          acked, unclosed, overlapped, collided>>
dbVars == <<db, wal, kept, acked, unclosed>>
stageVars == <<partial, staged, u, overlapped>>
backupVars == <<dir, b>>

Seconds == 0..MaxTime
Snapshot == SUBSET Commits
Chunk == Snapshot \cup {Hole}
File == Chunk \X Chunk
Holes == <<Hole, Hole>>

\* What a file written in place holds.
Value(f) == IF f[1] = f[2] /\ f[1] # Hole THEN f[1] ELSE Damaged

Request == [pc : {"idle", "open", "first", "second", "rename", "done"}, of : Snapshot,
            fd : {"none", "partial", "staged", "unlinked"}]
Finished == [pc |-> "done", of |-> {}, fd |-> "none"]
Run == [pc : {"idle", "open", "write"}, at : Seconds]
NoRun == [pc |-> "idle", at |-> 0]

TypeOK ==
  /\ pc \in {"down", "stat", "aside", "clean", "swap", "open", "up", "fatal"}
  /\ now \in Seconds
  /\ db \in Snapshot \cup {None, Damaged} /\ wal \in Snapshot
  /\ partial \in File \cup {None} /\ staged \in File \cup {None}
  /\ kept \in [Seconds -> Snapshot \cup {None, Damaged}]
  /\ u \in [Uploads -> Request]
  /\ dir \in [Seconds -> {"none", "part", "done"}]
  /\ b \in Run
  /\ faults \in 0..MaxFaults /\ crashes \in 0..MaxCrashes
  /\ acked \in Snapshot /\ unclosed \in Snapshot
  /\ overlapped \in BOOLEAN /\ collided \in BOOLEAN

Init ==
  /\ pc = "down" /\ now = 0
  /\ db = {} /\ wal = {}
  /\ partial = None /\ staged = None
  /\ kept = [t \in Seconds |-> None]
  /\ u = [r \in Uploads |-> [Finished EXCEPT !.pc = "idle"]]
  /\ dir = [t \in Seconds |-> "none"] /\ b = NoRun
  /\ faults = 0 /\ crashes = 0
  /\ acked = {} /\ unclosed = {} /\ overlapped = FALSE /\ collided = FALSE

Fault == faults < MaxFaults /\ faults' = faults + 1
Tick == /\ now < MaxTime /\ now' = now + 1
        /\ UNCHANGED <<pc, dbVars, stageVars, backupVars, faults, crashes, collided>>

-----------------------------------------------------------------------------
(* The database while the process is up. *)

Live == db \cup wal

\* A write transaction of the store: committed to the write-ahead log.
Commit(c) ==
  /\ pc = "up" /\ c \notin acked
  /\ wal' = wal \cup {c} /\ acked' = acked \cup {c}
  /\ UNCHANGED <<pc, now, db, kept, unclosed, stageVars, backupVars, faults, crashes, collided>>

\* SQLite moves the log into the database file when it sees fit.
Checkpoint ==
  /\ pc = "up" /\ wal # {}
  /\ db' = Live /\ wal' = {}
  /\ UNCHANGED <<pc, now, kept, acked, unclosed, stageVars, backupVars, faults, crashes, collided>>

\* The signal handler: requests in progress end, and db.Close checkpoints.
Stop ==
  /\ pc = "up" /\ pc' = "down"
  /\ db' = Live /\ wal' = {}
  /\ u' = [r \in Uploads |-> IF u[r].pc = "idle" THEN u[r] ELSE Finished]
  /\ b' = NoRun
  /\ UNCHANGED <<now, kept, acked, unclosed, partial, staged, overlapped, dir, faults,
                 crashes, collided>>

\* The process dies anywhere; what it has written so far stays.
Crash ==
  /\ pc \notin {"down", "fatal"} /\ pc' = "down"
  /\ crashes < MaxCrashes /\ crashes' = crashes + 1
  /\ unclosed' = unclosed \cup wal
  /\ u' = [r \in Uploads |-> IF u[r].pc = "idle" THEN u[r] ELSE Finished]
  /\ b' = NoRun
  /\ UNCHANGED <<now, db, wal, kept, acked, partial, staged, overlapped, dir, faults, collided>>

-----------------------------------------------------------------------------
(* main: applyPendingRestore, then NewSQLiteStore. *)

startVars == <<now, acked, unclosed, backupVars, partial, u, overlapped, crashes>>

Start ==
  /\ pc = "down" /\ pc' = "stat"
  /\ UNCHANGED <<db, wal, kept, staged, faults, collided, startVars>>

NothingStaged ==
  /\ pc = "stat" /\ staged = None
  /\ pc' = "open"
  /\ UNCHANGED <<db, wal, kept, staged, faults, collided, startVars>>

\* Mutated form: the database is removed, not kept.
RemoveAside ==
  /\ pc = "stat" /\ staged # None /\ db # None
  /\ db' = None
  /\ pc' = "clean"
  /\ UNCHANGED <<wal, kept, staged, faults, collided, startVars>>

\* The database is renamed to <db>.pre-restore-<second>, over a file of that name.
MoveAside ==
  /\ pc = "stat" /\ staged # None /\ db # None
  /\ kept' = [kept EXCEPT ![now] = db] /\ db' = None
  /\ collided' = (collided \/ kept[now] # None)
  /\ pc' = "clean"
  /\ UNCHANGED <<wal, staged, faults, startVars>>

\* A crash had interrupted an earlier start: there is no database to move.
AlreadyAside ==
  /\ pc = "stat" /\ staged # None /\ db = None
  /\ pc' = "clean"
  /\ UNCHANGED <<db, wal, kept, staged, faults, collided, startVars>>

\* Mutated form: the sidecars of the old database stay.
KeepSidecars ==
  /\ pc = "clean" /\ pc' = "swap"
  /\ UNCHANGED <<db, wal, kept, staged, faults, collided, startVars>>

RemoveSidecars ==
  /\ pc = "clean" /\ pc' = "swap"
  /\ wal' = {}
  /\ UNCHANGED <<db, kept, staged, faults, collided, startVars>>

SwapIn ==
  /\ pc = "swap" /\ pc' = "open"
  /\ db' = Value(staged) /\ staged' = None
  /\ UNCHANGED <<wal, kept, faults, collided, startVars>>

\* A rename that fails ends the process; the next start tries again.
RenameFails ==
  /\ pc \in {"stat", "swap"} /\ staged # None
  /\ Fault /\ pc' = "down"
  /\ UNCHANGED <<db, wal, kept, staged, collided, startVars>>

\* NewSQLiteStore opens the database, or creates an empty one, and migrates it;
\* a damaged file ends the process, and every start after it.
Open ==
  /\ pc = "open"
  /\ pc' = IF db = Damaged THEN "fatal" ELSE "up"
  /\ db' = IF db = None THEN {} ELSE db
  /\ UNCHANGED <<wal, kept, staged, faults, collided, startVars>>

-----------------------------------------------------------------------------
(* POST /admin/restore. *)

Become(r, new) == u' = [u EXCEPT ![r] = new]
requestVars == <<pc, now, dbVars, backupVars, crashes, collided>>

\* The upload is received, decrypted and validated in a directory of its own:
\* what goes on is a snapshot; anything else is refused and changes nothing.
Receive(r) ==
  /\ pc = "up" /\ u[r].pc = "idle"
  /\ \/ \E s \in Snapshot : Become(r, [u[r] EXCEPT !.pc = "open", !.of = s])
     \/ Become(r, Finished)
  /\ UNCHANGED <<requestVars, partial, staged, overlapped, faults>>

\* Mutated form: the staged file is written in place.
OpenStaged(r) ==
  /\ u[r].pc = "open"
  /\ Become(r, [u[r] EXCEPT !.pc = "first", !.fd = "staged"])
  /\ staged' = Holes
  /\ UNCHANGED <<requestVars, partial, overlapped, faults>>

\* stageFile creates the partial file or truncates the one that is there, which
\* another request may have open.
OpenPartial(r) ==
  /\ u[r].pc = "open"
  /\ Become(r, [u[r] EXCEPT !.pc = "first", !.fd = "partial"])
  /\ partial' = Holes
  /\ overlapped' = (overlapped \/ \E q \in Uploads \ {r} : u[q].fd = "partial")
  /\ UNCHANGED <<requestVars, staged, faults>>

Fill(f, k, s) == IF k = 1 THEN <<s, f[2]>> ELSE <<f[1], s>>

\* Chunk k is written to whatever the open file is called by now.
WriteChunk(r) ==
  LET k == IF u[r].pc = "first" THEN 1 ELSE 2 IN
  /\ u[r].pc \in {"first", "second"}
  /\ Become(r, [u[r] EXCEPT !.pc = IF k = 1 THEN "second" ELSE "rename"])
  /\ partial' = IF u[r].fd = "partial" THEN Fill(partial, k, u[r].of) ELSE partial
  /\ staged' = IF u[r].fd = "staged" THEN Fill(staged, k, u[r].of) ELSE staged
  /\ UNCHANGED <<requestVars, overlapped, faults>>

\* A failed write removes the partial file, whosever it is.
WriteFails(r) ==
  /\ u[r].pc \in {"first", "second"} /\ Fault
  /\ partial' = None
  /\ u' = [q \in Uploads |-> IF q = r THEN Finished
                             ELSE IF u[q].fd = "partial" THEN [u[q] EXCEPT !.fd = "unlinked"]
                             ELSE u[q]]
  /\ UNCHANGED <<requestVars, staged, overlapped>>

\* The partial file becomes the staged one, with the requests that have it open.
\* Without a partial file the request fails.
RenamePartial(r) ==
  /\ u[r].pc = "rename"
  /\ IF partial = None
     THEN /\ Become(r, Finished)
          /\ UNCHANGED <<partial, staged>>
     ELSE /\ staged' = partial /\ partial' = None
          /\ u' = [q \in Uploads |-> IF q = r THEN Finished
                                     ELSE IF u[q].fd = "partial" THEN [u[q] EXCEPT !.fd = "staged"]
                                     ELSE IF u[q].fd = "staged" THEN [u[q] EXCEPT !.fd = "unlinked"]
                                     ELSE u[q]]
  /\ UNCHANGED <<requestVars, overlapped, faults>>

AdminRestore(r) ==
  Receive(r) \/ OpenPartial(r) \/ WriteChunk(r) \/ WriteFails(r) \/ RenamePartial(r)

-----------------------------------------------------------------------------
(* Scheduled backups: the files of BACKUP_DIR by the second in their name. *)

loopVars == <<pc, now, dbVars, stageVars, crashes>>

\* Mutated form: the file is named after the next second.
RunOnceAhead ==
  /\ pc = "up" /\ b.pc = "idle"
  /\ b' = [pc |-> "open", at |-> now + 1]
  /\ UNCHANGED <<loopVars, dir, faults, collided>>

\* RunOnce: VACUUM INTO a private directory; the file is named after the time of
\* the call, whatever time the snapshot takes.
RunOnce ==
  /\ pc = "up" /\ b.pc = "idle"
  /\ b' = [pc |-> "open", at |-> now]
  /\ UNCHANGED <<loopVars, dir, faults, collided>>

Files(d) == {t \in Seconds : d[t] # "none"}

\* Prune keeps the newest by name, complete or not.
Prune(d) ==
  [t \in Seconds |-> IF Cardinality({x \in Files(d) : x >= t}) > Keep THEN "none" ELSE d[t]]

\* Mutated form: older files are pruned before the new one is written.
CreateFilePrunes ==
  /\ b.pc = "open"
  /\ dir' = Prune([dir EXCEPT ![b.at] = "part"])
  /\ collided' = (collided \/ dir[b.at] # "none")
  /\ b' = [b EXCEPT !.pc = "write"]
  /\ UNCHANGED <<loopVars, faults>>

\* EncryptFile creates the file, or truncates the one of that name.
CreateFile ==
  /\ b.pc = "open"
  /\ dir' = [dir EXCEPT ![b.at] = "part"]
  /\ collided' = (collided \/ dir[b.at] # "none")
  /\ b' = [b EXCEPT !.pc = "write"]
  /\ UNCHANGED <<loopVars, faults>>

Written ==
  /\ b.pc = "write"
  /\ dir' = Prune([dir EXCEPT ![b.at] = "done"])
  /\ b' = NoRun
  /\ UNCHANGED <<loopVars, faults, collided>>

\* EncryptFile removes what it could not finish.
WriteFailed ==
  /\ b.pc = "write" /\ Fault
  /\ dir' = [dir EXCEPT ![b.at] = "none"]
  /\ b' = NoRun
  /\ UNCHANGED <<loopVars, collided>>

backupLoop == RunOnce \/ CreateFile \/ Written \/ WriteFailed
applyPendingRestore == NothingStaged \/ MoveAside \/ AlreadyAside \/ RemoveSidecars \/ SwapIn \/ RenameFails

Next ==
  \/ Tick \/ Checkpoint \/ Stop \/ Crash \/ Start \/ Open
  \/ \E c \in Commits : Commit(c)
  \/ \E r \in Uploads : AdminRestore(r)
  \/ applyPendingRestore \/ backupLoop

Spec == Init /\ [][Next]_vars

-----------------------------------------------------------------------------
\* No commit that was acknowledged is lost by a restore, and none by a crash in
\* the middle of applying it: it is in the database or in a copy that is kept.
\* Except the commits that were only in the log of a process that died, when the
\* start after it applies a restore, and a copy replaced within one second.
SavedIn(x) == IF x \in {None, Damaged} THEN {} ELSE x
NothingLost ==
  ~ collided => acked \subseteq SavedIn(db) \cup wal \cup unclosed
                                \cup UNION {SavedIn(kept[t]) : t \in Seconds}

\* What is staged, and so what the next start works on, is one snapshot that was
\* validated, whatever is interrupted; unless two requests were staging at once.
StagedIntact ==
  ~ overlapped => /\ staged # None => Value(staged) # Damaged
                  /\ db # Damaged

\* A finished backup stays until a newer one is finished: neither pruning nor an
\* attempt that fails or is cut off leaves the operator with none.
Complete == {t \in Seconds : dir[t] = "done"}
BackupsSurvive ==
  [][~ collided' => \A t \in Complete : t \in Complete' \/ \E x \in Complete' : x > t]_vars

\* The restore is atomic: see AtomicRestore.  Once the old database is moved
\* aside, the staged snapshot is the database.
Atomic == INSTANCE AtomicRestore WITH
  Nothing <- None,
  made <- acked,
  current <- IF db = None THEN Value(staged) ELSE IF db = Damaged THEN Damaged ELSE db \cup wal,
  durable <- IF db = None THEN Value(staged) ELSE db,
  pending <- IF db = None \/ staged = None THEN None ELSE Value(staged),
  saved <- kept
RestoreIsAtomic == Atomic!Spec
=============================================================================
