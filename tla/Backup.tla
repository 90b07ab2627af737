------------------------------- MODULE Backup -------------------------------
(***************************************************************************)
(* Backups of the application's SQLite database while it is in use         *)
(* (app/services/backup_service.py): calls that create a backup, restore   *)
(* one after a safety backup, or delete one run in threads of the web      *)
(* server, and the pooled connections of the application write on.         *)
(*                                                                         *)
(* The database is its file and its write-ahead log; what they hold is a   *)
(* version number, Torn when pages of two versions are mixed.  Of the      *)
(* modification time of a backup it is kept which other files are newer.   *)
(***************************************************************************)
EXTENDS Naturals, FiniteSets

CONSTANTS
    Op,         \* calls that may overlap
    Keep,       \* DB_BACKUP_KEEP_MAX
    MaxCalls, MaxVersion    \* bounds

ASSUME BackupAssumption ==
    Keep \in Nat \ {0} /\ MaxCalls \in Nat /\ MaxVersion \in Nat \ {0}

Torn == 0
Version == 0..MaxVersion

VARIABLES
    main, wal,  \* the version in the file; the one in the log, or 0
    version,    \* the last version committed
    stale,      \* the log the connections hold was unlinked by a restore
    ghost,      \* ... and has pages the file does not have
    dir,        \* the backups: file -> version
    newer,      \* file -> the files with a later modification time
    made,       \* files so far; each is named after its number
    stage, mine, src, want, safe,   \* of a call: its stage, its own backup, the backup it
                \* restores, the version that held when it was verified, with a safety backup
    calls,
    since,      \* history: the version the database had when the call began; Torn once
                \* another call overwrote it
    promised,   \* history: the version the last restore put back, until the next commit
    undone,     \* history: since then a connection wrote old pages over it
    lame,       \* history: backups that are byte copies of the file alone
    taken       \* history: backups removed by an administrator or another call's retention

db == <<main, wal, version, stale, ghost>>
directory == <<dir, newer>>
operation == <<stage, mine, src, want, safe, since>>
restored == <<promised, undone>>
backupVars == <<db, directory, made, operation, calls, restored, lame, taken>>

BackupInit ==
    /\ main = 1 /\ wal = 0 /\ version = 1 /\ stale = FALSE /\ ghost = FALSE
    /\ dir = [i \in {1} |-> 1] /\ newer = [i \in {1} |-> {}] /\ made = 1
    /\ stage = [c \in Op |-> "idle"] /\ mine = [c \in Op |-> 0] /\ src = [c \in Op |-> 0]
    /\ want = [c \in Op |-> 0] /\ safe = [c \in Op |-> FALSE] /\ since = [c \in Op |-> 0]
    /\ calls = 0 /\ promised = 0 /\ undone = FALSE /\ lame = {} /\ taken = {}

Holds == IF wal # 0 THEN wal ELSE main
Files == DOMAIN dir
To(c, next) == stage' = [stage EXCEPT ![c] = next]

Unlinked(ids) ==
    /\ dir' = [i \in Files \ ids |-> dir[i]]
    /\ newer' = [i \in Files \ ids |-> newer[i] \ ids]

\* A new file with that version, older than those in after.
Written(i, v, after) ==
    /\ dir' = [j \in Files \cup {i} |-> IF j = i THEN v ELSE dir[j]]
    /\ newer' = [j \in Files \cup {i} |-> IF j = i THEN after
                                          ELSE IF j \in after THEN newer[j] ELSE newer[j] \cup {i}]

\* The call is over, with an answer or an error.
Leaves(c, began) ==
    /\ To(c, "idle") /\ mine' = [mine EXCEPT ![c] = 0] /\ src' = [src EXCEPT ![c] = 0]
    /\ want' = [want EXCEPT ![c] = 0] /\ safe' = [safe EXCEPT ![c] = FALSE]
    /\ since' = [began EXCEPT ![c] = Torn]

\* POST backup-db, or any other caller of create_database_backup.
BeginsBackup(c) ==
    /\ stage[c] = "idle" /\ calls < MaxCalls /\ calls' = calls + 1
    /\ To(c, "copy") /\ since' = [since EXCEPT ![c] = IF stale THEN Torn ELSE Holds]
    /\ UNCHANGED <<db, directory, made, mine, src, want, safe, restored, lame, taken>>

\* POST restore-db: the phrase names a backup, which passes its check.
BeginsRestore(c) ==
    /\ stage[c] = "idle" /\ calls < MaxCalls /\ calls' = calls + 1
    /\ \E f \in Files, b \in BOOLEAN :
          /\ dir[f] # Torn
          /\ src' = [src EXCEPT ![c] = f] /\ want' = [want EXCEPT ![c] = dir[f]]
          /\ safe' = [safe EXCEPT ![c] = b] /\ To(c, IF b THEN "copy" ELSE "overwrite")
    /\ since' = [since EXCEPT ![c] = IF stale THEN Torn ELSE Holds]
    /\ UNCHANGED <<db, directory, made, mine, restored, lame, taken>>

\* Mutant: the file is copied as it is.
SnapshotOfFile == main

\* source.backup(target): a consistent copy of file and log.
Snapshot == Holds

\* _copy_sqlite_consistent: SQLite's backup of file and log, or, when that raises, a
\* copy of the file alone that keeps the file's modification time.
Copies(c) ==
    /\ stage[c] = "copy" /\ To(c, "verify") /\ made' = made + 1
    /\ mine' = [mine EXCEPT ![c] = made + 1]
    /\ \/ Written(made + 1, Snapshot, {}) /\ UNCHANGED lame
       \/ /\ \E after \in {Files} \cup {newer[j] : j \in Files} : Written(made + 1, main, after)
          /\ lame' = lame \cup {made + 1}
    /\ UNCHANGED <<db, src, want, safe, since, calls, restored, taken>>

\* A copy that fails its check is removed again; one that is gone is an error.
Verifies(c) ==
    /\ stage[c] = "verify"
    /\ \/ /\ mine[c] \in Files /\ dir[mine[c]] # Torn
          /\ To(c, "retain") /\ UNCHANGED <<directory, mine, src, want, safe, since>>
       \/ /\ mine[c] \in Files => dir[mine[c]] = Torn
          /\ Leaves(c, since) /\ Unlinked({mine[c]})
    /\ UNCHANGED <<db, made, calls, restored, lame, taken>>

\* backups[keep_max:]
Surplus == {i \in Files : Cardinality(newer[i]) >= Keep}

\* _apply_retention, then the record of the new file: it may be gone.
Retains(c) ==
    /\ stage[c] = "retain" /\ Unlinked(Surplus)
    /\ taken' = taken \cup {i \in Surplus \ {mine[c]} :
                               i # src[c] \/ \E d \in Op \ {c} : mine[d] = i}
    /\ \/ /\ src[c] = 0 \/ mine[c] \in Surplus \/ mine[c] \notin Files
          /\ Leaves(c, since)
       \/ /\ src[c] # 0 /\ mine[c] \in Files \ Surplus
          /\ To(c, "overwrite") /\ UNCHANGED <<mine, src, want, safe, since>>
    /\ UNCHANGED <<db, made, calls, restored, lame>>

\* Whatever the database held before is gone, for the other calls too.
Anew(c) == [d \in Op |-> IF d = c THEN since[d] ELSE Torn]

\* copy2 over the file, which the connections have open: it may break off, or find the
\* backup gone.
Overwrites(c) ==
    /\ stage[c] = "overwrite"
    /\ \/ /\ src[c] \in Files /\ promised' = 0
          /\ main' = want[c] /\ To(c, "unlink") /\ since' = Anew(c)
          /\ UNCHANGED <<mine, src, want, safe>>
       \/ src[c] \in Files /\ promised' = 0 /\ main' = Torn /\ Leaves(c, Anew(c))
       \/ src[c] \notin Files /\ Leaves(c, since) /\ UNCHANGED <<main, promised>>
    /\ UNCHANGED <<wal, version, stale, ghost, directory, made, calls, undone, lame, taken>>

LogAfter == 0

\* The log is unlinked, not closed: the connections go on with it.
Unlinks(c) ==
    /\ stage[c] = "unlink" /\ Leaves(c, Anew(c))
    /\ ghost' = (ghost \/ wal # 0) /\ wal' = LogAfter /\ stale' = TRUE
    /\ promised' = want[c] /\ undone' = (main # want[c])
    /\ UNCHANGED <<main, version, directory, made, calls, lame, taken>>

\* DELETE backups/{name} by an administrator.
DeletesBackup ==
    /\ \E f \in Files : Unlinked({f}) /\ taken' = taken \cup {f}
    /\ UNCHANGED <<db, made, operation, calls, restored, lame>>

\* A commit of the application; after a restore it goes to the unlinked log.
Commits ==
    /\ version < MaxVersion /\ version' = version + 1
    /\ \/ stale /\ ghost' = TRUE /\ UNCHANGED <<wal, restored>>
       \/ ~stale /\ wal' = version' /\ promised' = 0 /\ UNCHANGED <<ghost, undone>>
    /\ UNCHANGED <<main, stale, directory, made, operation, calls, lame, taken>>

Overwritten == \E c \in Op : stage[c] = "unlink"

\* A connection moves the pages of its log into the file, whatever the file is by now.
Checkpoints ==
    /\ wal # 0 \/ ghost
    /\ main' = (IF stale \/ Overwritten THEN Torn ELSE wal)
    /\ wal' = 0 /\ ghost' = FALSE /\ undone' = (undone \/ stale \/ Overwritten)
    /\ UNCHANGED <<version, stale, directory, made, operation, calls, promised, lame, taken>>

Restarted ==
    /\ stage' = [c \in Op |-> "idle"] /\ stale' = FALSE /\ ghost' = FALSE
    /\ mine' = [c \in Op |-> 0] /\ src' = [c \in Op |-> 0] /\ want' = [c \in Op |-> 0]
    /\ safe' = [c \in Op |-> FALSE] /\ since' = [c \in Op |-> Torn]
    /\ UNCHANGED <<version, directory, made, calls, lame, taken>>

\* The process is killed.  A file that was being overwritten is torn, or does not fit
\* the log that is still there.
Killed ==
    /\ Restarted
    /\ \/ /\ ~(Overwritten /\ wal # 0) /\ UNCHANGED <<main, promised>>
          /\ wal' = (IF main = Torn THEN 0 ELSE wal)
       \/ /\ (Overwritten /\ wal # 0) \/ \E c \in Op : stage[c] = "overwrite"
          /\ main' = Torn /\ wal' = 0 /\ promised' = 0
    /\ UNCHANGED undone

\* The last connection that closes moves what its log holds into the file.
ShutDown ==
    /\ Restarted /\ \A c \in Op : stage[c] = "idle"
    /\ main' = (IF ghost THEN Torn ELSE Holds) /\ wal' = 0
    /\ undone' = (undone \/ ghost) /\ UNCHANGED promised

BackupNext ==
    \/ \E c \in Op : BeginsBackup(c) \/ BeginsRestore(c) \/ Copies(c) \/ Verifies(c)
                     \/ Retains(c) \/ Overwrites(c) \/ Unlinks(c)
    \/ DeletesBackup \/ Commits \/ Checkpoints \/ Killed \/ ShutDown

BackupSpec == BackupInit /\ [][BackupNext]_backupVars

-----------------------------------------------------------------------------
BackupTypeOK ==
    /\ main \in Version /\ wal \in Version /\ version \in Version
    /\ stale \in BOOLEAN /\ ghost \in BOOLEAN /\ (ghost => stale)
    /\ made \in Nat \ {0} /\ Files \subseteq 1..made
    /\ dir \in [Files -> Version] /\ newer \in [Files -> SUBSET Files]
    /\ stage \in [Op -> {"idle", "copy", "verify", "retain", "overwrite", "unlink"}]
    /\ mine \in [Op -> 0..made] /\ src \in [Op -> 0..made] /\ want \in [Op -> Version]
    /\ safe \in [Op -> BOOLEAN] /\ since \in [Op -> Version] /\ calls \in 0..MaxCalls
    /\ promised \in Version /\ lame \subseteq 1..made /\ taken \subseteq 1..made
    /\ undone \in BOOLEAN

\* What a restore put back is what the file holds, and what the application reads after
\* its next start, until the next commit; whatever was in the log, whoever was killed;
\* unless a connection that was open during the restore moved old pages over it.
RestoreIsKept ==
    promised # 0 /\ ~undone => main = promised /\ wal = 0

\* Before a restore overwrites the database, a backup holds what the database held when
\* the call began, or later; unless SQLite's backup failed, or the backup was taken away
\* by an administrator or the retention of a third call.
SafetyFirst ==
    \A c \in Op : stage[c] \in {"overwrite", "unlink"} /\ safe[c] /\ mine[c] \notin lame \cup taken
        => mine[c] \in Files /\ dir[mine[c]] >= since[c]

\* A restore puts back what it says it does, and can itself be taken back.
BackupIsSound == BackupTypeOK /\ RestoreIsKept /\ SafetyFirst
=============================================================================
