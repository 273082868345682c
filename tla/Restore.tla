------------------------------ MODULE Restore ------------------------------
(***************************************************************************)
(* scripts/db.sh: backup and restore of the database file beside a server  *)
(* that may be running, stopped or killed, with the script dying at any    *)
(* step.                                                                   *)
(*                                                                         *)
(* The database is the main file and, while the server runs or after it    *)
(* was killed, a write-ahead log with the commits the main file lacks. A   *)
(* log is replayed onto whatever main file lies beside it: onto another    *)
(* one it makes garbage. A file is abstracted to the number of the last    *)
(* commit it holds; a main file also has an identity (its inode), which    *)
(* the log remembers.                                                      *)
(*                                                                         *)
(* The script takes no lock. A backup may run at any time here, but one    *)
(* restore runs at a time: two would share the temporary file.             *)
(*                                                                         *)
(* External: SQLite in WAL mode. The last connection to close writes the   *)
(* log back and removes it, the sqlite3 tool's own included; a process     *)
(* that has the file open keeps the one it opened when another is renamed  *)
(* over it.                                                                *)
(***************************************************************************)
EXTENDS Naturals, FiniteSets

CONSTANTS
    MaxCommits, \* bound: commits of the server
    MaxMoves    \* bound: completed renames

ASSUME BoundAssumption == MaxCommits \in Nat /\ MaxMoves \in Nat

\* Contents besides the numbers of commits.
Absent == MaxCommits + 1      \* no file
Damaged == MaxCommits + 2     \* fails integrity_check
Garbage == MaxCommits + 3     \* a log over a file it does not belong to
Sound == 0..MaxCommits
Content == 0..MaxCommits + 3

VARIABLES
    main,      \* the main file: [id, holds]
    wal,       \* the log: [id, holds], holds = Absent when there is none
    tmp,       \* <db>.restore.tmp
    backups,   \* contents of the verified files of backups/
    server,    \* "down", "up", or "detached": up on a file that was replaced
    commits,
    phase,     \* the step of restore, "idle" when it does not run
    source,    \* what is being restored
    before,    \* (history) the database when restore began
    disturbed  \* (history) the server ran during a restore

files == <<main, wal, tmp, backups>>
script == <<phase, source, before>>
vars == <<files, server, commits, script, disturbed>>

\* The database, as the next process to open it finds it.
Database ==
    IF wal.holds = Absent THEN main.holds
    ELSE IF wal.id = main.id THEN wal.holds
    ELSE Garbage

NoLog == [id |-> 0, holds |-> Absent]

\* The app has run once, or never; there may be a backup of another machine's.
Init ==
    /\ main \in {[id |-> 0, holds |-> 0], [id |-> 0, holds |-> Absent]}
    /\ wal = NoLog
    /\ tmp = Absent
    /\ backups \in {{}, {0}}
    /\ server = "down"
    /\ commits = 0
    /\ phase = "idle"
    /\ source = Absent
    /\ before = Absent
    /\ disturbed = FALSE

-----------------------------------------------------------------------------
(* The server and SQLite *)

Disturbs == disturbed' = (disturbed \/ phase # "idle")

StartServer ==
    /\ server = "down"
    /\ server' = "up"
    /\ main' = IF main.holds = Absent THEN [main EXCEPT !.holds = commits] ELSE main
    /\ Disturbs
    /\ UNCHANGED <<wal, tmp, backups, commits, script>>

Commit ==
    /\ server = "up"
    /\ commits < MaxCommits
    /\ commits' = commits + 1
    /\ wal' = [id |-> main.id, holds |-> commits + 1]
    /\ UNCHANGED <<main, tmp, backups, server, script, disturbed>>

\* The log is written back, and goes with the last connection.
Checkpointed == main' = [main EXCEPT !.holds = Database] /\ wal' = NoLog

StopServer ==
    /\ server # "down"
    /\ server' = "down"
    /\ IF server = "up" THEN Checkpointed ELSE UNCHANGED <<main, wal>>
    /\ UNCHANGED <<tmp, backups, commits, script, disturbed>>

KillServer ==
    /\ server # "down"
    /\ server' = "down"
    /\ UNCHANGED <<files, commits, script, disturbed>>

-----------------------------------------------------------------------------
(* backup *)

\* sqlite3 .backup: a consistent copy; a sole connection leaves no log behind.
CopyFile == UNCHANGED <<main, wal>>          \* mutation of SnapshotCloses: a plain read of the file
SnapshotCloses == IF server = "down" THEN Checkpointed ELSE UNCHANGED <<main, wal>>

\* Cron's may run beside a restore.
Backup ==
    /\ Database \in Sound
    /\ backups' = backups \cup {Database}
    /\ SnapshotCloses
    /\ UNCHANGED <<tmp, server, commits, script, disturbed>>

-----------------------------------------------------------------------------
(* restore *)

GoTo(p) == phase' = p

\* The argument is checked and, where a database exists, the user asked (or
\* FORCE set). A damaged argument is refused: nothing happens.
Begin(file) ==
    /\ phase = "idle"
    /\ GoTo("snapshot")
    /\ source' = file
    /\ before' = Database
    /\ disturbed' = (disturbed \/ server # "down")
    /\ UNCHANGED <<files, server, commits>>

\* The pre-restore snapshot, if there is anything to save.
NoSnapshot == UNCHANGED backups              \* mutation of Save
FileOnly == backups' = backups \cup {main.holds}   \* mutation of Save: the file without its log
Save == backups' = backups \cup {Database}
Exists == main.holds # Absent
Snapshot ==
    /\ phase = "snapshot"
    /\ IF Exists THEN Save /\ SnapshotCloses
                 ELSE UNCHANGED <<main, wal, backups>>
    /\ GoTo("copy")
    /\ UNCHANGED <<tmp, server, commits, source, before, disturbed>>

\* rm -f and cp, which may be cut short.
Copy ==
    /\ phase = "copy"
    /\ \E c \in {source, Damaged} : tmp' = c
    /\ GoTo("verify")
    /\ UNCHANGED <<main, wal, backups, server, commits, source, before, disturbed>>

AnyCopy == TRUE                              \* mutation of Healthy: the copy is trusted
Healthy == tmp # Damaged
Verify ==
    /\ phase = "verify"
    /\ IF Healthy THEN GoTo("move") /\ UNCHANGED tmp
                  ELSE GoTo("idle") /\ tmp' = Absent
    /\ UNCHANGED <<main, wal, backups, server, commits, source, before, disturbed>>

\* mv: the new file is in place at once; whoever had the old one open keeps it.
Move ==
    /\ phase = "move"
    /\ main.id < MaxMoves
    /\ main' = [id |-> main.id + 1, holds |-> tmp]
    /\ tmp' = Absent
    /\ server' = IF server = "up" THEN "detached" ELSE server
    /\ GoTo("sweep")
    /\ UNCHANGED <<wal, backups, commits, source, before, disturbed>>

\* rm -f of the log.
Sweep ==
    /\ phase = "sweep"
    /\ wal' = NoLog
    /\ GoTo("idle")
    /\ UNCHANGED <<main, tmp, backups, server, commits, source, before, disturbed>>

\* A step fails (die), or the script is killed: what it did stays.
Stop ==
    /\ phase # "idle"
    /\ GoTo("idle")
    /\ UNCHANGED <<files, server, commits, source, before, disturbed>>

-----------------------------------------------------------------------------

Running == Snapshot \/ Copy \/ Verify \/ Move \/ Sweep

Next ==
    \/ StartServer \/ Commit \/ StopServer \/ KillServer
    \/ Backup
    \/ \E file \in backups : Begin(file)
    \/ Running
    \/ Stop

Spec == Init /\ [][Next]_vars

-----------------------------------------------------------------------------
(* Properties *)

\* Every variable stays in its range; a backup is of a database that was there.
TypeOK ==
    /\ main \in [id : 0..MaxMoves, holds : Content]
    /\ wal \in [id : 0..MaxMoves, holds : Sound \cup {Absent}]
    /\ tmp \in Content
    /\ backups \subseteq Sound \cup {Garbage}
    /\ server \in {"down", "up", "detached"}
    /\ commits \in 0..MaxCommits
    /\ phase \in {"idle", "snapshot", "copy", "verify", "move", "sweep"}
    /\ source \in Content /\ before \in Content
    /\ disturbed \in BOOLEAN

\* "The live database is only ever replaced by a complete, verified file"
\* (db.sh:184-186), and, if the server was stopped first, no step the script
\* may die at leaves a log beside a file it does not belong to.
Coherent ==
    /\ main.holds # Damaged
    /\ ~ disturbed => Database \in Sound \cup {Absent}

\* While restore runs on a stopped server, the database is the one it found,
\* and from the rename on the one it was given.
OldOrNew ==
    phase # "idle" /\ ~ disturbed =>
        Database = IF phase = "sweep" THEN source ELSE before

\* What restore replaced can be brought back: a snapshot of it was kept
\* (db.sh:171), unless there was nothing.
Reversible ==
    phase = "sweep" /\ ~ disturbed => before \in backups \cup {Absent}

\* File by file and with a death between any two commands, backup and restore
\* implement a store whose content is replaced in one step and never lost: what is not
\* in the database is in a backup (db.sh:171, 184-186).
Store == INSTANCE SafeStore WITH
    None <- Absent, value <- Database, kept <- backups, wanted <- source,
    latest <- commits, sound <- ~ disturbed

Implements == Store!SSpec
=============================================================================
