--------------------------- MODULE Restore_proofs ---------------------------
(***************************************************************************)
(* Proofs about Restore for any number of commits and restores.            *)
(*                                                                         *)
(* The argument of the script, made explicit: while it runs on a stopped   *)
(* server, the snapshot is what empties the log, so from then on the log   *)
(* is absent, and neither the rename nor a death before the log's removal  *)
(* can leave one beside a file it does not belong to. On top of it, that   *)
(* the files implement SafeStore.                                          *)
(***************************************************************************)
EXTENDS Restore, TLAPS

Held == Sound \cup {Absent, Garbage}
Ids == 0..MaxMoves
Step == {"idle", "snapshot", "copy", "verify", "move", "sweep"}

\* What is in the files and in the script's hands, disturbed or not.
Files ==
    /\ main \in [id : Ids, holds : Held]
    /\ wal \in [id : Ids, holds : Sound \cup {Absent}]
    /\ tmp \in Held \cup {Damaged}
    /\ backups \subseteq Sound \cup {Garbage}
    /\ server \in {"down", "up", "detached"}
    /\ commits \in Sound
    /\ phase \in Step
    /\ source \in Held /\ before \in Held
    /\ phase # "idle" => source # Absent
    /\ phase = "verify" => tmp \in {source, Damaged}
    /\ phase = "move" => tmp = source

\* What holds while no restore has met a running server.
Calm ==
    /\ server # "detached"
    /\ phase # "idle" => server = "down"
    /\ wal.holds # Absent => wal.id = main.id
    /\ main.holds # Garbage /\ source # Garbage /\ backups \subseteq Sound
    /\ main.holds = Absent => wal.holds = Absent /\ server = "down"
    /\ phase = "snapshot" => Database = before
    /\ phase \in {"copy", "verify", "move", "sweep"} =>
          wal.holds = Absent /\ before \in backups \cup {Absent}
    /\ phase \in {"copy", "verify", "move"} => main.holds = before
    /\ phase = "sweep" => main.holds = source

IInv == Files /\ (~ disturbed => Calm) /\ disturbed \in BOOLEAN

-----------------------------------------------------------------------------
\* The marks are no commit's number, and differ.
LEMMA Marks ==
    /\ Absent \notin Sound /\ Damaged \notin Sound /\ Garbage \notin Sound
    /\ Absent # Damaged /\ Absent # Garbage /\ Damaged # Garbage
    /\ 0 \in Sound /\ 0 \in Ids
BY BoundAssumption DEF Absent, Damaged, Garbage, Sound, Ids

\* What a process finds when it opens the database.
LEMMA Opened ==
    ASSUME Files
    PROVE  /\ Database \in Held
           /\ main.holds # Absent => Database # Absent
BY Marks DEF Files, Database, Held

LEMMA OpenedCalm ==
    ASSUME Files, Calm
    PROVE  /\ Database \in Sound \cup {Absent}
           /\ Database = Absent => main.holds = Absent
           /\ wal.holds = Absent => Database = main.holds
BY Marks DEF Files, Calm, Database, Held

\* The log is written back: the database stays what it was.
LEMMA WrittenBack ==
    ASSUME Files, Checkpointed
    PROVE  /\ main' \in [id : Ids, holds : Held]
           /\ main'.id = main.id /\ main'.holds = Database
           /\ wal' \in [id : Ids, holds : Sound \cup {Absent}]
           /\ wal'.holds = Absent
BY Opened, Marks DEF Checkpointed, NoLog, Files

\* Any number of commits in the file and no backup but maybe one of the empty
\* database: the invariant holds.
THEOREM Initially == Init => IInv
<1> SUFFICES ASSUME Init PROVE IInv
  OBVIOUS
<1>1. Files
  BY Marks DEF Init, Files, NoLog, Held, Step
<1>2. Calm
  BY Marks DEF Init, Calm, NoLog
<1> QED
  BY <1>1, <1>2 DEF IInv, Init

-----------------------------------------------------------------------------
(* The server *)

LEMMA StartStep == IInv /\ StartServer => IInv'
<1> SUFFICES ASSUME IInv, StartServer PROVE IInv'
  OBVIOUS
<1>1. /\ main' \in [id : Ids, holds : Held]
      /\ main'.id = main.id /\ main'.holds # Absent
      /\ main.holds # Absent => main' = main
      /\ main.holds = Absent => main'.holds \in Sound
  BY Marks DEF StartServer, IInv, Files, Held
<1>2. Files'
  BY <1>1 DEF StartServer, script, IInv, Files
<1>3. disturbed' \in BOOLEAN
  BY DEF StartServer, Disturbs, IInv
<1>4. ASSUME ~ disturbed' PROVE Calm'
  <2>1. Calm /\ phase = "idle"
    BY <1>4 DEF StartServer, Disturbs, IInv
  <2> QED
    BY <1>1, <2>1, Marks DEF StartServer, script, Calm
<1> QED
  BY <1>2, <1>3, <1>4 DEF IInv

LEMMA CommitStep == IInv /\ Commit => IInv'
<1> SUFFICES ASSUME IInv, Commit PROVE IInv'
  OBVIOUS
<1>1. commits' \in Sound
  BY BoundAssumption DEF Commit, IInv, Files, Sound
<1>2. /\ wal' \in [id : Ids, holds : Sound \cup {Absent}]
      /\ wal'.id = main.id
  BY <1>1 DEF Commit, IInv, Files
<1>3. Files'
  BY <1>1, <1>2 DEF Commit, script, IInv, Files
<1>4. ASSUME ~ disturbed PROVE Calm'
  <2>1. Calm
    BY <1>4 DEF IInv
  <2> QED
    BY <1>2, <2>1 DEF Commit, script, Calm
<1> QED
  BY <1>3, <1>4 DEF IInv, Commit

LEMMA StopStep == IInv /\ (StopServer \/ KillServer) => IInv'
<1> SUFFICES ASSUME IInv, StopServer \/ KillServer PROVE IInv'
  OBVIOUS
<1>1. CASE UNCHANGED <<main, wal>>
  <2>1. Files'
    BY <1>1 DEF StopServer, KillServer, files, script, IInv, Files
  <2>2. Calm => Calm'
    BY <1>1 DEF StopServer, KillServer, files, script, Calm, Database
  <2> QED
    BY <2>1, <2>2 DEF IInv, StopServer, KillServer
<1>2. CASE StopServer /\ server = "up"
  <2>1. /\ main' \in [id : Ids, holds : Held]
        /\ main'.id = main.id /\ main'.holds = Database
        /\ wal' \in [id : Ids, holds : Sound \cup {Absent}]
        /\ wal'.holds = Absent
    BY <1>2, WrittenBack DEF StopServer, IInv
  <2>2. Files'
    BY <1>2, <2>1 DEF StopServer, script, IInv, Files
  <2>3. ASSUME Calm PROVE Calm'
    <3>1. phase = "idle" /\ Database \in Sound
      BY <1>2, <2>3, OpenedCalm DEF Calm, IInv
    <3> QED
      BY <1>2, <2>1, <2>3, <3>1, Marks DEF StopServer, script, Calm
  <2> QED
    BY <1>2, <2>2, <2>3 DEF IInv, StopServer
<1> QED
  BY <1>1, <1>2 DEF StopServer, KillServer, files

-----------------------------------------------------------------------------
(* The script *)

\* A snapshot's own connection: with the server down it empties the log.
LEMMA Closed ==
    ASSUME Files, SnapshotCloses
    PROVE  /\ main' \in [id : Ids, holds : Held]
           /\ wal' \in [id : Ids, holds : Sound \cup {Absent}]
           /\ server = "down" => main'.id = main.id /\ main'.holds = Database /\ wal'.holds = Absent
           /\ server # "down" => main' = main /\ wal' = wal
BY WrittenBack DEF SnapshotCloses, Files

LEMMA BackupStep == IInv /\ Backup => IInv'
<1> SUFFICES ASSUME IInv, Backup PROVE IInv'
  OBVIOUS
<1>1. /\ main' \in [id : Ids, holds : Held]
      /\ wal' \in [id : Ids, holds : Sound \cup {Absent}]
      /\ server = "down" => main'.id = main.id /\ main'.holds = Database /\ wal'.holds = Absent
      /\ server # "down" => main' = main /\ wal' = wal
  BY Closed DEF Backup, IInv
<1>2. Database \in Sound /\ backups' = backups \cup {Database}
  BY DEF Backup
<1>3. Files'
  BY <1>1, <1>2 DEF Backup, script, IInv, Files
<1>4. Calm => Calm'
  <2> SUFFICES ASSUME Calm PROVE Calm'
    OBVIOUS
  <2>1. UNCHANGED <<phase, source, before, server>>
    BY DEF Backup, script
  <2>2. Database' = Database
    BY <1>1 DEF Database
  <2>3. wal.holds = Absent => main'.holds = main.holds /\ wal'.holds = Absent
    BY <1>1, OpenedCalm DEF IInv
  <2> QED
    BY <1>1, <1>2, <2>1, <2>2, <2>3, Marks DEF Calm
<1> QED
  BY <1>3, <1>4 DEF IInv, Backup

LEMMA BeginStep ==
    ASSUME IInv, NEW file \in backups, Begin(file)
    PROVE  IInv'
<1>1. Database \in Held /\ file \in Sound \cup {Garbage}
  BY Opened DEF IInv, Files
<1>2. Files'
  BY <1>1, Marks DEF Begin, GoTo, files, IInv, Files, Held, Step
<1>3. disturbed' \in BOOLEAN
  BY DEF Begin, IInv
<1>4. ASSUME ~ disturbed' PROVE Calm'
  <2>1. Calm /\ server = "down" /\ file \in Sound
    BY <1>4 DEF Begin, IInv, Calm
  <2>2. Database' = Database
    BY DEF Begin, files, Database
  <2> QED
    BY <2>1, <2>2, Marks DEF Begin, GoTo, files, Calm
<1> QED
  BY <1>2, <1>3, <1>4 DEF IInv

\* What is there is saved, and the log is empty from here on.
LEMMA SnapshotStep == IInv /\ Snapshot => IInv'
<1> SUFFICES ASSUME IInv, Snapshot PROVE IInv'
  OBVIOUS
<1>1. CASE main.holds = Absent
  <2>1. Files'
    BY <1>1 DEF Snapshot, GoTo, Exists, IInv, Files, Step
  <2>2. ASSUME Calm PROVE Calm'
    <3>1. wal.holds = Absent /\ before = Absent
      BY <1>1, <2>2, OpenedCalm DEF Snapshot, Calm, IInv
    <3> QED
      BY <1>1, <2>2, <3>1 DEF Snapshot, GoTo, Exists, Calm
  <2> QED
    BY <2>1, <2>2 DEF IInv, Snapshot
<1>2. CASE main.holds # Absent
  <2>1. /\ main' \in [id : Ids, holds : Held]
        /\ wal' \in [id : Ids, holds : Sound \cup {Absent}]
        /\ server = "down" =>
              main'.id = main.id /\ main'.holds = Database /\ wal'.holds = Absent
    BY <1>2, Closed DEF Snapshot, Exists, IInv
  <2>2. backups' = backups \cup {Database} /\ Database \in Sound \cup {Garbage}
    BY <1>2, Opened DEF Snapshot, Exists, Save, IInv, Held
  <2>3. Files'
    BY <2>1, <2>2 DEF Snapshot, GoTo, IInv, Files, Step
  <2>4. ASSUME Calm PROVE Calm'
    <3>1. server = "down" /\ Database = before
      BY <2>4 DEF Snapshot, Calm
    <3>2. Database \in Sound
      BY <1>2, <2>4, OpenedCalm DEF IInv
    <3> QED
      BY <2>1, <2>2, <2>4, <3>1, <3>2, Marks DEF Snapshot, GoTo, Calm
  <2> QED
    BY <2>3, <2>4 DEF IInv, Snapshot
<1> QED
  BY <1>1, <1>2

\* Before the rename only the temporary file changes.
LEMMA CopyStep == IInv /\ (Copy \/ Verify) => IInv'
<1> SUFFICES ASSUME IInv, Copy \/ Verify PROVE IInv'
  OBVIOUS
<1>1. UNCHANGED <<main, wal, backups, server, commits, source, before, disturbed>>
  BY DEF Copy, Verify
<1>2. Files'
  BY <1>1, Marks DEF Copy, Verify, GoTo, Healthy, IInv, Files, Held, Step
<1>3. phase' \in {"idle", "verify", "move"} /\ phase \in {"copy", "verify"}
  BY DEF Copy, Verify, GoTo
<1>4. Calm => Calm'
  BY <1>1, <1>3 DEF Calm
<1> QED
  BY <1>1, <1>2, <1>4 DEF IInv

\* The verified copy takes the place of a file without a log.
LEMMA MoveStep == IInv /\ Move => IInv'
<1> SUFFICES ASSUME IInv, Move PROVE IInv'
  OBVIOUS
<1>1. main.id + 1 \in Ids
  <2>1. main.id \in Ids /\ main.id < MaxMoves
    BY DEF Move, IInv, Files
  <2> QED
    BY <2>1, BoundAssumption DEF Ids
<1>2. tmp = source /\ source \in Held /\ source # Absent
  BY DEF Move, IInv, Files
<1>3. main' \in [id : Ids, holds : Held] /\ main'.holds = source
  BY <1>1, <1>2 DEF Move
<1>4. Files'
  BY <1>2, <1>3, Marks DEF Move, GoTo, IInv, Files, Held, Step
<1>5. ASSUME Calm PROVE Calm'
  BY <1>2, <1>3, <1>5 DEF Move, GoTo, Calm
<1> QED
  BY <1>4, <1>5 DEF IInv, Move

LEMMA SweepStep == IInv /\ Sweep => IInv'
<1> SUFFICES ASSUME IInv, Sweep PROVE IInv'
  OBVIOUS
<1>1. wal' \in [id : Ids, holds : Sound \cup {Absent}] /\ wal'.holds = Absent
  BY Marks DEF Sweep, NoLog
<1>2. Files'
  BY <1>1 DEF Sweep, GoTo, IInv, Files, Step
<1>3. Calm => Calm'
  BY <1>1 DEF Sweep, GoTo, Calm
<1> QED
  BY <1>2, <1>3 DEF IInv, Sweep

\* The script may die anywhere.
LEMMA StopScriptStep == IInv /\ (Stop \/ UNCHANGED vars) => IInv'
<1> SUFFICES ASSUME IInv, Stop \/ UNCHANGED vars PROVE IInv'
  OBVIOUS
<1>1. /\ UNCHANGED <<files, server, commits, source, before, disturbed>>
      /\ phase' \in {"idle", phase}
  BY DEF Stop, GoTo, vars, script
<1>2. Files'
  BY <1>1 DEF files, IInv, Files, Step
<1>3. Calm => Calm'
  BY <1>1 DEF files, Calm, Database
<1> QED
  BY <1>1, <1>2, <1>3 DEF IInv

\* Wherever the scripts die: each file holds what its phase has put there, and
\* what was in use before a restore is in the database or in a backup.
THEOREM Invariance == Spec => []IInv
<1>1. IInv /\ [Next]_vars => IInv'
  BY StartStep, CommitStep, StopStep, BackupStep, BeginStep, SnapshotStep, CopyStep, MoveStep,
     SweepStep, StopScriptStep DEF Next, Running
<1> QED
  BY <1>1, Initially, PTL DEF Spec

-----------------------------------------------------------------------------
\* The variables keep their types; no backup is of nothing.
THEOREM Types == Spec => []TypeOK
<1>1. Held \cup {Damaged} \subseteq Content
  BY BoundAssumption DEF Held, Content, Sound, Absent, Damaged, Garbage
<1>2. IInv => TypeOK
  <2> SUFFICES ASSUME IInv PROVE TypeOK
    OBVIOUS
  <2>1. /\ main \in [id : 0..MaxMoves, holds : Content]
        /\ wal \in [id : 0..MaxMoves, holds : Sound \cup {Absent}]
    BY <1>1 DEF IInv, Files, Ids
  <2>2. tmp \in Content /\ source \in Content /\ before \in Content
    BY <1>1 DEF IInv, Files
  <2>3. commits \in 0..MaxCommits
    BY DEF IInv, Files, Sound
  <2> QED
    BY <2>1, <2>2, <2>3 DEF IInv, Files, TypeOK, Step
<1> QED
  BY <1>2, Invariance, PTL

\* No death of the script leaves the database damaged, or beside another's log.
THEOREM AlwaysCoherent == Spec => []Coherent
<1>1. IInv => Coherent
  <2> SUFFICES ASSUME IInv PROVE Coherent
    OBVIOUS
  <2>1. main.holds # Damaged
    BY Marks DEF IInv, Files, Held
  <2>2. ~ disturbed => Database \in Sound \cup {Absent}
    BY OpenedCalm DEF IInv
  <2> QED
    BY <2>1, <2>2 DEF Coherent
<1> QED
  BY <1>1, Invariance, PTL

\* The database is the old one or the new one at every step of a restore.
THEOREM AtomicRestore == Spec => []OldOrNew
<1>1. IInv => OldOrNew
  <2> SUFFICES ASSUME IInv, phase # "idle", ~ disturbed
               PROVE  Database = IF phase = "sweep" THEN source ELSE before
    BY DEF OldOrNew
  <2>1. Calm /\ phase \in Step \ {"idle"}
    BY DEF IInv, Files
  <2>2. wal.holds = Absent => Database = main.holds
    BY <2>1, OpenedCalm DEF IInv
  <2> QED
    BY <2>1, <2>2 DEF Calm, Step
<1> QED
  BY <1>1, Invariance, PTL

\* What a restore replaces was saved first.
THEOREM NothingLost == Spec => []Reversible
<1>1. IInv => Reversible
  BY DEF IInv, Calm, Reversible
<1> QED
  BY <1>1, Invariance, PTL

-----------------------------------------------------------------------------
(* The store replaced in one step *)

\* What restore was given is a backup, and stays one.
Given == phase # "idle" => source \in backups

LEMMA GivenHolds == Spec => []Given
<1>1. Init => Given
  BY DEF Init, Given
<1>2. Given /\ [Next]_vars => Given'
  BY DEF Given, Next, Running, StartServer, Commit, StopServer, KillServer, Backup, Begin, Snapshot,
         Save, Copy, Verify, Move, Sweep, Stop, GoTo, vars, files, script
<1> QED
  BY <1>1, <1>2, PTL DEF Spec

\* A step that leaves the files' content, the backups and the request alone is none of the store's.
LEMMA Unseen ==
    ASSUME Database' = Database, UNCHANGED <<backups, source, commits>>,
           ~ disturbed, ~ disturbed'
    PROVE  UNCHANGED Store!svars
BY DEF Store!svars

\* The server: a first start creates the database, a commit is a write, and neither a
\* clean stop nor a kill is seen.
LEMMA ServerStores ==
    ASSUME Files, Calm, ~ disturbed', ~ disturbed,
           StartServer \/ Commit \/ StopServer \/ KillServer
    PROVE  Store!Promised \/ UNCHANGED Store!svars
<1>1. CASE StartServer
  <2>1. UNCHANGED <<wal, backups, commits, source>>
    BY <1>1 DEF StartServer, script
  <2>2. CASE main.holds # Absent
    <3>1. Database' = Database
      BY <1>1, <2>1, <2>2 DEF StartServer, Database
    <3> QED
      BY <2>1, <3>1, Unseen
  <2>3. CASE main.holds = Absent
    <3>1. wal.holds = Absent
      BY <2>3 DEF Calm
    <3>2. main'.holds = commits
      BY <1>1, <2>3 DEF StartServer, Files
    <3>3. Database = Absent /\ Database' = commits
      BY <2>1, <2>3, <3>1, <3>2 DEF Database
    <3> QED
      BY <2>1, <3>3 DEF Store!Promised, Store!Create
  <2> QED
    BY <2>2, <2>3
<1>2. CASE Commit
  <2>1. Database # Absent
    BY <1>2, Opened DEF Commit, Calm
  <2>2. commits' = commits + 1 /\ commits' \in Sound /\ wal'.id = main.id /\ wal'.holds = commits'
    BY <1>2, BoundAssumption DEF Commit, Files, Sound
  <2>3. UNCHANGED <<main, backups, source>>
    BY <1>2 DEF Commit, script
  <2>4. Database' = commits + 1
    BY <2>2, <2>3, Marks DEF Database
  <2> QED
    BY <2>1, <2>2, <2>3, <2>4 DEF Store!Promised, Store!Write
<1>3. CASE StopServer \/ KillServer
  <2>1. UNCHANGED <<backups, commits, source>>
    BY <1>3 DEF StopServer, KillServer, files, script
  <2>2. Database' = Database
    <3>1. CASE UNCHANGED <<main, wal>>
      BY <3>1 DEF Database
    <3>2. CASE Checkpointed
      BY <3>2, WrittenBack DEF Database
    <3> QED
      BY <1>3, <3>1, <3>2 DEF StopServer, KillServer, files
  <2> QED
    BY <2>1, <2>2, Unseen
<1> QED
  BY <1>1, <1>2, <1>3

\* A copy taken by either command keeps the database, which stays what it is.
LEMMA SnapshotStores ==
    ASSUME Files, Calm, ~ disturbed', ~ disturbed, Backup \/ Snapshot
    PROVE  Store!Promised \/ UNCHANGED Store!svars
<1>1. UNCHANGED <<commits, source>>
  BY DEF Backup, Snapshot, script
<1>2. CASE Snapshot /\ ~ Exists
  <2>1. Database' = Database /\ backups' = backups
    BY <1>2 DEF Snapshot, Database
  <2> QED
    BY <1>1, <2>1, Unseen
<1>3. CASE Backup \/ (Snapshot /\ Exists)
  <2>1. SnapshotCloses /\ backups' = backups \cup {Database}
    BY <1>3 DEF Backup, Snapshot, Save
  <2>2. Database' = Database
    <3>1. CASE UNCHANGED <<main, wal>>
      BY <3>1 DEF Database
    <3>2. CASE Checkpointed
      BY <3>2, WrittenBack DEF Database
    <3> QED
      BY <2>1, <3>1, <3>2 DEF SnapshotCloses
  <2>3. Database # Absent
    BY <1>3, Opened, Marks DEF Backup, Exists
  <2> QED
    BY <1>1, <2>1, <2>2, <2>3 DEF Store!Promised, Store!Keep
<1> QED
  BY <1>2, <1>3

\* restore: the question is put, and the rename answers it; nothing else is seen.
LEMMA RestoreStores ==
    ASSUME Files, Calm, Given, ~ disturbed', ~ disturbed,
           (\E file \in backups : Begin(file)) \/ Copy \/ Verify \/ Move \/ Sweep \/ Stop
    PROVE  Store!Promised \/ UNCHANGED Store!svars
<1>1. CASE \E file \in backups : Begin(file)
  <2>1. source' \in backups /\ UNCHANGED <<main, wal, backups, commits>>
    BY <1>1 DEF Begin, files
  <2>2. Database' = Database
    BY <2>1 DEF Database
  <2> QED
    BY <2>1, <2>2 DEF Store!Promised, Store!Ask
<1>2. CASE Copy \/ Verify \/ Stop
  <2>1. UNCHANGED <<main, wal, backups, commits, source>>
    BY <1>2 DEF Copy, Verify, Stop, files
  <2>2. Database' = Database
    BY <2>1 DEF Database
  <2> QED
    BY <2>1, <2>2, Unseen
<1>3. CASE Move
  <2>1. wal.holds = Absent /\ main.holds = before /\ before \in backups \cup {Absent}
    BY <1>3 DEF Move, Calm
  <2>2. source \in backups /\ tmp = source
    BY <1>3 DEF Move, Given, Files
  <2>3. main'.holds = tmp /\ UNCHANGED <<wal, backups, commits, source>>
    BY <1>3 DEF Move
  <2>4. Database = before /\ Database' = source
    BY <2>1, <2>2, <2>3 DEF Database
  <2> QED
    BY <2>1, <2>2, <2>3, <2>4 DEF Store!Promised, Store!Replace
<1>4. CASE Sweep
  <2>1. wal.holds = Absent /\ wal'.holds = Absent
    BY <1>4 DEF Sweep, Calm, NoLog
  <2>2. UNCHANGED <<main, backups, commits, source>>
    BY <1>4 DEF Sweep
  <2>3. Database' = Database
    BY <2>1, <2>2 DEF Database
  <2> QED
    BY <2>2, <2>3, Unseen
<1> QED
  BY <1>1, <1>2, <1>3, <1>4

\* Whatever dies, and wherever: for as long as no server meets a restore, the files are a
\* store that is replaced in one step, by what was asked for, and never loses a commit.
THEOREM ImplementsStore == Spec => Implements
<1>1. Init => Store!SInit
  <2> SUFFICES ASSUME Init PROVE Store!SInit
    OBVIOUS
  <2>1. Database \in {Absent, 0}
    BY DEF Init, NoLog, Database
  <2> QED
    BY <2>1 DEF Init, Store!SInit
<1>2. IInv /\ Given /\ [Next]_vars => [Store!SNext]_(Store!svars)
  <2> SUFFICES ASSUME IInv, Given, [Next]_vars, ~ disturbed'
               PROVE  (Store!Promised /\ ~ disturbed) \/ UNCHANGED Store!svars
    BY DEF Store!SNext
  <2>1. CASE UNCHANGED vars
    BY <2>1 DEF vars, files, script, Store!svars, Database
  <2>2. CASE Next
    <3>1. ~ disturbed
      BY <2>2 DEF IInv, Next, Running, StartServer, Commit, StopServer, KillServer, Backup, Begin,
                  Snapshot, Copy, Verify, Move, Sweep, Stop, Disturbs
    <3>2. Files /\ Calm
      BY <3>1 DEF IInv
    <3> QED
      BY <2>2, <3>1, <3>2, ServerStores, SnapshotStores, RestoreStores DEF Next, Running
  <2> QED
    BY <2>1, <2>2
<1> QED
  BY <1>1, <1>2, Invariance, GivenHolds, PTL DEF Spec, Implements, Store!SSpec
=============================================================================
