------------------------------ MODULE Startup ------------------------------
(***************************************************************************)
(* How the server comes up on its database file (main.rs, db.rs, seed.rs): *)
(* the registry is validated, the core migrations and then every plugin's  *)
(* are run, each into its own tracking table, the optional seed fills the  *)
(* empty tables, and only then is the port bound and the API served.       *)
(*                                                                         *)
(* The file outlives the process. An operator may start a different        *)
(* release on it each time (an upgrade, a rollback, a build with a broken  *)
(* plugin); the process may die between any two statements. One process    *)
(* uses the file at a time: the documentation rules out two.               *)
(*                                                                         *)
(* sqlx's Migrator is external: run() refuses a database that records a    *)
(* version the release does not have, then applies the missing versions in *)
(* ascending order, each in a transaction with its tracking row. (It also  *)
(* refuses an applied migration whose text was edited: releases here never *)
(* edit one.)                                                              *)
(***************************************************************************)
EXTENDS Naturals, Sequences, SequencesExt

CONSTANTS
    Release,      \* the builds an operator may start
    Migrators,    \* release -> sequence of [name, versions, broken]: core, then each
                  \* registered plugin with a migrator, in the order they are run
    Refused,      \* releases with a plugin of a bad name or host_api range
    Plugin,       \* plugins that have seed data, all registered in every release
    Deletable,    \* plugins whose API deletes rows
    SeedOrder,    \* the order seed::run visits them
    Target,       \* plugin -> sequence: transitions each of its fixtures goes through
    MaxUserRows,  \* bound: rows in a table when the API still inserts
    MaxDeaths     \* bound: processes that die

Keyspace == UNION {{Migrators[b][i].name : i \in 1..Len(Migrators[b])} : b \in Release}
Version == UNION {UNION {Migrators[b][i].versions : i \in 1..Len(Migrators[b])} : b \in Release}

\* Names key the tracking tables; tests/plugins.rs keeps them apart.
ASSUME MigratorsAssumption ==
    \A b \in Release :
        /\ Migrators[b] \in Seq([name : STRING, versions : SUBSET Nat, broken : SUBSET Nat])
        /\ \A i, j \in 1..Len(Migrators[b]) :
              Migrators[b][i].name = Migrators[b][j].name => i = j
ASSUME SeedAssumption == SeedOrder \in Seq(Plugin) /\ Target \in [Plugin -> Seq(Nat)]
ASSUME BoundAssumption == MaxUserRows \in Nat /\ MaxDeaths \in Nat

VARIABLES
    applied,   \* versions recorded in each tracking table
    rows,      \* each plugin's table, in insertion order
    phase,     \* how far the process has come, "down" when there is none
    release,   \* the build it runs
    seeding,   \* started with --seed or a truthy SEED
    at,        \* the migrator or seeding plugin it has reached
    fixture,   \* the fixture being seeded, 0 before the emptiness check
    inserted,  \* its row is in the table
    deaths

file == <<applied, rows>>
vars == <<applied, rows, phase, release, seeding, at, fixture, inserted,
          deaths>>

UserRow == [fixture |-> 0, moves |-> 0]

Init ==
    /\ applied = [k \in Keyspace |-> {}]
    /\ rows = [p \in Plugin |-> <<>>]
    /\ phase = "down"
    /\ release \in Release
    /\ seeding = FALSE
    /\ at = 0
    /\ fixture = 0
    /\ inserted = FALSE
    /\ deaths = 0

GoTo(p, i) == phase' = p /\ at' = i /\ fixture' = 0 /\ inserted' = FALSE

\* `?` on the way up: main returns the error and the process exits.
Abort == GoTo("down", 0)

-----------------------------------------------------------------------------
(* db::init *)

Start(b, s) ==
    /\ phase = "down"
    /\ release' = b
    /\ seeding' = s
    /\ GoTo("validate", 0)
    /\ UNCHANGED <<file, deaths>>

Lenient == TRUE                       \* mutation of Accepted: a bad plugin is only logged
Accepted == release \notin Refused

\* validate_registry: every plugin, before any migration.
Validate ==
    /\ phase = "validate"
    /\ IF Accepted THEN GoTo("migrate", 1) ELSE Abort
    /\ UNCHANGED <<file, release, seeding, deaths>>

Current == Migrators[release][at]

\* dangerous_set_table_name: each plugin's versions have a table of their own.
OneTable(m) == "core"                 \* mutation of Table: the name is not set
Table(m) == m.name

\* Rows of the tracking table that the release's Migrator does not have.
Missing(m) == applied[Table(m)] \ m.versions

Pending(m) == m.versions \ applied[Table(m)]

Least(S) == {v \in S : \A w \in S : v <= w}

\* A statement of the migration fails, and its transaction is rolled back.
Fails(m, v) == v \in m.broken

AfterFailure == Abort
SkipPlugin == GoTo("migrate", at + 1)     \* mutation of OnFailure: log and go on
OnFailure == AfterFailure

\* One transaction of Migrator::run, or its refusal.
Migrate ==
    /\ phase = "migrate"
    /\ at <= Len(Migrators[release])
    /\ \/ /\ Missing(Current) # {}
          /\ OnFailure
          /\ UNCHANGED applied
       \/ /\ Missing(Current) = {}
          /\ \E v \in Least(Pending(Current)) :
               IF Fails(Current, v)
                 THEN OnFailure /\ UNCHANGED applied
                 ELSE /\ applied' = [applied EXCEPT ![Table(Current)] = @ \cup {v}]
                      /\ UNCHANGED <<phase, at, fixture, inserted>>
       \/ /\ Missing(Current) = {}
          /\ Pending(Current) = {}
          /\ GoTo("migrate", at + 1)
          /\ UNCHANGED applied
    /\ UNCHANGED <<rows, release, seeding, deaths>>

Migrated ==
    /\ phase = "migrate"
    /\ at > Len(Migrators[release])
    /\ GoTo(IF seeding THEN "seed" ELSE "bind", 1)
    /\ UNCHANGED <<file, release, seeding, deaths>>

-----------------------------------------------------------------------------
(* seed::run, then each plugin's seed *)

Seeded == SeedOrder[at]

NoCheck(p) == TRUE                    \* mutation of Empty: seed without looking
Empty(p) == rows[p] = <<>>

\* The check and the inserts are separate statements, with no transaction.
SeedCheck ==
    /\ phase = "seed"
    /\ at <= Len(SeedOrder)
    /\ fixture = 0
    /\ IF Empty(Seeded) THEN fixture' = 1 /\ UNCHANGED <<phase, at, inserted>>
                        ELSE GoTo("seed", at + 1)
    /\ UNCHANGED <<file, release, seeding, deaths>>

SeedInsert ==
    /\ phase = "seed"
    /\ fixture # 0
    /\ ~inserted
    /\ IF fixture <= Len(Target[Seeded])
         THEN /\ rows' = [rows EXCEPT ![Seeded] =
                             Append(@, [fixture |-> fixture, moves |-> 0])]
              /\ inserted' = TRUE
              /\ UNCHANGED <<phase, at, fixture>>
         ELSE /\ GoTo("seed", at + 1)
              /\ UNCHANGED rows
    /\ UNCHANGED <<applied, release, seeding, deaths>>

OneTooMany(r) == r.moves <= Target[Seeded][r.fixture]     \* mutation of Unfinished
Unfinished(r) == r.moves < Target[Seeded][r.fixture]

\* toggle, publish and archive, on the row just inserted.
SeedMove ==
    /\ phase = "seed"
    /\ inserted
    /\ LET n == Len(rows[Seeded]) IN
         IF Unfinished(rows[Seeded][n])
           THEN /\ rows' = [rows EXCEPT ![Seeded][n].moves = @ + 1]
                /\ UNCHANGED <<fixture, inserted>>
           ELSE /\ fixture' = fixture + 1
                /\ inserted' = FALSE
                /\ UNCHANGED rows
    /\ UNCHANGED <<applied, phase, release, seeding, at, deaths>>

SeedDone ==
    /\ phase = "seed"
    /\ at > Len(SeedOrder)
    /\ GoTo("bind", 0)
    /\ UNCHANGED <<file, release, seeding, deaths>>

-----------------------------------------------------------------------------
(* Serving, and the end of a process *)

Bind ==
    /\ phase = "bind"
    /\ GoTo("serving", 0)
    /\ UNCHANGED <<file, release, seeding, deaths>>

\* The API adds rows, and deletes any but a post.
UserInsert(p) ==
    /\ phase = "serving"
    /\ Len(rows[p]) < MaxUserRows
    /\ rows' = [rows EXCEPT ![p] = Append(@, UserRow)]
    /\ UNCHANGED <<applied, phase, release, seeding, at, fixture, inserted, deaths>>

UserDelete(p) ==
    /\ phase = "serving"
    /\ p \in Deletable
    /\ \E i \in 1..Len(rows[p]) : rows' = [rows EXCEPT ![p] = RemoveAt(@, i)]
    /\ UNCHANGED <<applied, phase, release, seeding, at, fixture, inserted, deaths>>

\* A graceful shutdown of the serving process; it is not counted as a death.
Stop ==
    /\ phase = "serving"
    /\ GoTo("down", 0)
    /\ UNCHANGED <<file, release, seeding, deaths>>

\* A kill, a failing statement or a taken port, between any two steps.
Die ==
    /\ phase # "down"
    /\ deaths < MaxDeaths
    /\ deaths' = deaths + 1
    /\ GoTo("down", 0)
    /\ UNCHANGED <<file, release, seeding>>

Boot ==
    Validate \/ Migrate \/ Migrated \/ SeedCheck \/ SeedInsert \/ SeedMove
             \/ SeedDone \/ Bind

Next ==
    \/ \E b \in Release, s \in BOOLEAN : Start(b, s)
    \/ Boot
    \/ \E p \in Plugin : UserInsert(p) \/ UserDelete(p)
    \/ Stop
    \/ Die

Spec == Init /\ [][Next]_vars

\* The runtime runs a started process on, and the container's restart policy
\* (compose.yml, unless-stopped) starts one that ended again.
FairSpec ==
    /\ Spec
    /\ WF_vars(Boot)
    /\ WF_vars(\E b \in Release, s \in BOOLEAN : Start(b, s))

-----------------------------------------------------------------------------
(* Properties *)

RowOK(p, row) ==
    \/ row = UserRow
    \/ row.fixture \in 1..Len(Target[p]) /\ row.moves \in 0..Target[p][row.fixture]

\* Every table holds user rows and fixtures no further along than their target; the
\* position fits the phase.
TypeOK ==
    /\ applied \in [Keyspace -> SUBSET Version]
    /\ \A p \in Plugin : \A i \in 1..Len(rows[p]) : RowOK(p, rows[p][i])
    /\ phase \in {"down", "validate", "migrate", "seed", "bind", "serving"}
    /\ release \in Release
    /\ seeding \in BOOLEAN
    /\ at \in 0..(IF phase = "migrate" THEN Len(Migrators[release]) ELSE Len(SeedOrder)) + 1
    /\ fixture \in Nat
    /\ inserted \in BOOLEAN
    /\ deaths \in 0..MaxDeaths

\* A process that serves has every migration of its release in the file, of the core
\* and of each plugin, and no migration it does not know: whatever releases ran on the
\* file before, whichever of them failed or died half-way.
ServesOwnSchema ==
    phase = "serving" =>
        \A i \in 1..Len(Migrators[release]) :
            applied[Migrators[release][i].name] = Migrators[release][i].versions

\* A build with a bad plugin leaves the file alone (db.rs:39): the good plugins
\* that stand before the bad one are not migrated either.
RefusedLeavesFile == [][UNCHANGED file \/ release \notin Refused]_vars

\* A migration is applied only when the core and every plugin before it are complete,
\* so a failure leaves a file in which all that precede the failing plugin are done
\* and none that follow it has been begun.
InRegistryOrder ==
    [][\A i, j \in 1..Len(Migrators[release]) :
          i < j /\ applied'[Migrators[release][j].name] # applied[Migrators[release][j].name]
            => applied[Migrators[release][i].name] = Migrators[release][i].versions]_vars

\* Each table is its seed, in fixture order and without a duplicate, followed by what
\* users added: no interrupted, repeated or late seeding ever puts a fixture in
\* twice or among a user's rows.
SeedsOnceFirst ==
    \A p \in Plugin : \A i, j \in 1..Len(rows[p]) :
        i < j /\ rows[p][j].fixture # 0 =>
            rows[p][i].fixture # 0 /\ rows[p][i].fixture < rows[p][j].fixture

\* No release has a migration that b's Migrator lacks, and none of b's own fails.
Sound(b) ==
    /\ b \notin Refused
    /\ \A i \in 1..Len(Migrators[b]) :
          /\ Migrators[b][i].broken = {}
          /\ \A c \in Release : \A j \in 1..Len(Migrators[c]) :
                Migrators[c][j].name = Migrators[b][i].name
                    => Migrators[c][j].versions \subseteq Migrators[b][i].versions

\* "Earlier plugins stay applied; a re-run resumes" (db.rs:59-60): whatever releases
\* ran, failed or died on the file before, once only sound ones are started some
\* later start comes to serve.
Resumes == <>[]Sound(release) => []<>(phase = "serving")
=============================================================================
