--------------------------- MODULE Startup_proofs ---------------------------
(***************************************************************************)
(* Proofs about Startup for any releases, plugins, seeds and number of     *)
(* deaths.                                                                 *)
(*                                                                         *)
(* What a serving process may rely on was established by earlier stages of *)
(* its own start, and must survive the later ones: the invariant says for  *)
(* each stage what the file holds by then. A death forgets the stage, so   *)
(* nothing is claimed of a file without a process but SeedsOnceFirst.      *)
(***************************************************************************)
EXTENDS Startup, SequenceTheorems, TLAPS

Row == [fixture : Nat, moves : Nat]
Stored == rows \in [Plugin -> Seq(Row)]

Complete(i) ==
    applied[Migrators[release][i].name] = Migrators[release][i].versions

\* How far the stage lets the position go, and that a refused build stays out.
Position ==
    /\ phase = "migrate" => at \in 1..Len(Migrators[release]) + 1
    /\ phase = "seed" => at \in 1..Len(SeedOrder) + 1
    /\ fixture # 0 =>
          /\ phase = "seed"
          /\ at \in 1..Len(SeedOrder)
          /\ fixture \in 1..Len(Target[SeedOrder[at]]) + 1
    /\ inserted => fixture # 0 /\ fixture <= Len(Target[SeedOrder[at]])
    /\ phase \notin {"down", "validate"} => release \notin Refused

\* The migrators behind the position are complete, all of them once it is past the last.
Schema ==
    \A i \in 1..Len(Migrators[release]) :
        /\ phase = "migrate" /\ i < at => Complete(i)
        /\ phase \in {"seed", "bind", "serving"} => Complete(i)

\* A table being seeded holds fixtures only, none beyond the present one, which is
\* last once it is inserted.
Seeding ==
    fixture # 0 =>
        LET t == rows[SeedOrder[at]] IN
            /\ \A i \in 1..Len(t) :
                  t[i].fixture \in 1..(IF inserted THEN fixture ELSE fixture - 1)
            /\ inserted => Len(t) > 0 /\ t[Len(t)].fixture = fixture

IInv == TypeOK /\ Stored /\ Position /\ Schema /\ Seeding /\ SeedsOnceFirst

-----------------------------------------------------------------------------
\* Deleting a row shifts those behind it and changes no other.
LEMMA RemoveAtShifts ==
    ASSUME NEW s \in Seq(Row), NEW i \in 1..Len(s)
    PROVE  /\ RemoveAt(s, i) \in Seq(Row)
           /\ Len(RemoveAt(s, i)) = Len(s) - 1
           /\ \A k \in 1..Len(s) - 1 :
                 RemoveAt(s, i)[k] = IF k < i THEN s[k] ELSE s[k + 1]
<1> DEFINE front == SubSeq(s, 1, i - 1)
           back == SubSeq(s, i + 1, Len(s))
<1>0. Len(s) \in Nat /\ \A k \in 1..Len(s) : s[k] \in Row
  BY ElementOfSeq, LenProperties
<1>1. /\ front \in Seq(Row)
      /\ Len(front) = i - 1
      /\ \A k \in 1..i - 1 : front[k] = s[k]
  <2>1. \A k \in 1..i - 1 : s[k] \in Row
    BY <1>0
  <2> QED
    BY <1>0, <2>1, SubSeqProperties
<1>2. /\ back \in Seq(Row)
      /\ Len(back) = Len(s) - i
      /\ \A k \in 1..Len(s) - i : back[k] = s[i + k]
  <2>1. \A k \in i + 1..Len(s) : s[k] \in Row
    BY <1>0
  <2> QED
    BY <1>0, <2>1, SubSeqProperties
<1>3. /\ front \o back \in Seq(Row)
      /\ Len(front \o back) = Len(s) - 1
      /\ \A k \in 1..Len(s) - 1 :
            (front \o back)[k] = IF k < i THEN front[k] ELSE back[k - (i - 1)]
  <2> HIDE DEF front, back
  <2>1. /\ front \o back \in Seq(Row)
        /\ Len(front \o back) = Len(front) + Len(back)
        /\ \A k \in 1..Len(front) + Len(back) :
              (front \o back)[k] = IF k <= Len(front) THEN front[k] ELSE back[k - Len(front)]
    BY <1>1, <1>2, ConcatProperties
  <2> QED
    BY <1>0, <1>1, <1>2, <2>1
<1>4. \A k \in 1..Len(s) - 1 :
         (front \o back)[k] = IF k < i THEN s[k] ELSE s[k + 1]
  <2> HIDE DEF front, back
  <2> QED
    BY <1>0, <1>1, <1>2, <1>3
<1> QED
  BY <1>3, <1>4 DEF RemoveAt

\* What the assumptions say of one release, one plugin, one fixture.
LEMMA Constants ==
    /\ \A b \in Release :
          /\ Len(Migrators[b]) \in Nat
          /\ \A i \in 1..Len(Migrators[b]) :
                /\ Migrators[b][i].name \in Keyspace
                /\ Migrators[b][i].versions \subseteq Version
    /\ Len(SeedOrder) \in Nat
    /\ \A i \in 1..Len(SeedOrder) : SeedOrder[i] \in Plugin
    /\ \A p \in Plugin :
          /\ Len(Target[p]) \in Nat
          /\ \A k \in 1..Len(Target[p]) : Target[p][k] \in Nat
<1>1. ASSUME NEW b \in Release
      PROVE  Len(Migrators[b]) \in Nat
  BY MigratorsAssumption, LenProperties
<1>2. ASSUME NEW b \in Release, NEW i \in 1..Len(Migrators[b])
      PROVE  /\ Migrators[b][i].name \in Keyspace
             /\ Migrators[b][i].versions \subseteq Version
  BY <1>2 DEF Keyspace, Version
<1>3. /\ Len(SeedOrder) \in Nat
      /\ \A i \in 1..Len(SeedOrder) : SeedOrder[i] \in Plugin
  BY SeedAssumption, LenProperties, ElementOfSeq
<1>4. ASSUME NEW p \in Plugin
      PROVE  /\ Len(Target[p]) \in Nat
             /\ \A k \in 1..Len(Target[p]) : Target[p][k] \in Nat
  BY <1>4, SeedAssumption, LenProperties, ElementOfSeq
<1> QED
  BY <1>1, <1>2, <1>3, <1>4

-----------------------------------------------------------------------------
LEMMA InitIInv == Init => IInv
<1> SUFFICES ASSUME Init PROVE IInv
  OBVIOUS
<1>1. TypeOK
  <2>1. \A p \in Plugin : \A i \in 1..Len(rows[p]) : RowOK(p, rows[p][i])
    BY DEF Init
  <2>2. applied \in [Keyspace -> SUBSET Version]
    BY DEF Init
  <2>3. at \in 0..(IF phase = "migrate" THEN Len(Migrators[release]) ELSE Len(SeedOrder)) + 1
    BY Constants DEF Init
  <2>4. /\ phase = "down" /\ release \in Release /\ fixture \in Nat
        /\ deaths \in 0..MaxDeaths
    BY BoundAssumption DEF Init
  <2>5. seeding \in BOOLEAN /\ inserted \in BOOLEAN
    BY DEF Init
  <2> QED
    BY <2>1, <2>2, <2>3, <2>4, <2>5 DEF TypeOK
<1>2. Stored /\ SeedsOnceFirst
  BY DEF Init, Stored, SeedsOnceFirst
<1>3. Position /\ Schema /\ Seeding
  BY DEF Init, Position, Schema, Seeding
<1> QED
  BY <1>1, <1>2, <1>3 DEF IInv

BeginsStage ==
    /\ UNCHANGED file
    /\ release' \in Release
    /\ seeding' \in BOOLEAN
    /\ deaths' \in 0..MaxDeaths
    /\ phase' \in {"down", "validate", "migrate", "seed", "bind", "serving"}
    /\ at' \in 0..(IF phase' = "migrate" THEN Len(Migrators[release'])
                                         ELSE Len(SeedOrder)) + 1
    /\ fixture' = 0
    /\ inserted' = FALSE

\* A step that leaves the file alone and begins a stage has only the position to
\* account for, and what the stage relies on.
LEMMA NewStage ==
    ASSUME IInv, BeginsStage, Position', Schema'
    PROVE  IInv'
<1>1. TypeOK'
  BY DEF IInv, TypeOK, BeginsStage, file
<1>2. Stored' /\ SeedsOnceFirst'
  BY DEF IInv, Stored, SeedsOnceFirst, BeginsStage, file
<1>3. Seeding'
  BY DEF Seeding, BeginsStage
<1> QED
  BY <1>1, <1>2, <1>3 DEF IInv

LEMMA StartIInv ==
    ASSUME IInv, NEW b \in Release, NEW s \in BOOLEAN, Start(b, s)
    PROVE  IInv'
<1>1. Position' /\ Schema'
  BY DEF Start, GoTo, Position, Schema
<1>4. BeginsStage
  BY <1>1, Constants, BoundAssumption DEF IInv, TypeOK, Start, GoTo, BeginsStage, file
<1> QED
  BY <1>4, <1>1, NewStage

LEMMA ValidateIInv == ASSUME IInv, Validate PROVE IInv'
<1>1. release \in Release /\ Len(Migrators[release]) \in Nat
  BY Constants DEF IInv, TypeOK
<1>2. Position' /\ Schema'
  BY <1>1 DEF Validate, Accepted, GoTo, Abort, Position, Schema
<1>4. BeginsStage
  BY <1>1, Constants, BoundAssumption DEF IInv, TypeOK, Validate, GoTo, Abort, BeginsStage, file
<1> QED
  BY <1>4, <1>1, <1>2, NewStage

LEMMA MigratedIInv == ASSUME IInv, Migrated PROVE IInv'
<1>1. release \in Release /\ Len(Migrators[release]) \in Nat /\ at \in Nat
  BY Constants DEF IInv, TypeOK
<1>2. Position'
  BY <1>1, Constants DEF Migrated, GoTo, IInv, Position
<1>3. Schema'
  BY <1>1 DEF Migrated, GoTo, file, IInv, Schema, Complete
<1>4. BeginsStage
  BY <1>1, Constants, BoundAssumption DEF IInv, TypeOK, Migrated, GoTo, BeginsStage, file
<1> QED
  BY <1>4, <1>1, <1>2, <1>3, NewStage

LEMMA SeedDoneIInv == ASSUME IInv, SeedDone PROVE IInv'
<1>1. Position' /\ Schema'
  BY DEF SeedDone, GoTo, file, IInv, Position, Schema, Complete
<1>4. BeginsStage
  BY <1>1, Constants, BoundAssumption DEF IInv, TypeOK, SeedDone, GoTo, BeginsStage, file
<1> QED
  BY <1>4, <1>1, NewStage

LEMMA BindIInv == ASSUME IInv, Bind PROVE IInv'
<1>1. Position' /\ Schema'
  BY DEF Bind, GoTo, file, IInv, Position, Schema, Complete
<1>4. BeginsStage
  BY <1>1, Constants, BoundAssumption DEF IInv, TypeOK, Bind, GoTo, BeginsStage, file
<1> QED
  BY <1>4, <1>1, NewStage

LEMMA StopIInv == ASSUME IInv, Stop PROVE IInv'
<1>1. Position' /\ Schema'
  BY DEF Stop, GoTo, file, IInv, Position, Schema
<1>4. BeginsStage
  BY <1>1, Constants, BoundAssumption DEF IInv, TypeOK, Stop, GoTo, BeginsStage, file
<1> QED
  BY <1>4, <1>1, NewStage

LEMMA DieIInv == ASSUME IInv, Die PROVE IInv'
<1>1. Position' /\ Schema'
  BY DEF Die, GoTo, file, IInv, Position, Schema
<1>4. BeginsStage
  BY <1>1, Constants, BoundAssumption DEF IInv, TypeOK, Die, GoTo, BeginsStage, file
<1> QED
  BY <1>4, <1>1, NewStage

-----------------------------------------------------------------------------
\* A migration step changes the table of the migrator at the position and no other,
\* and goes on only once that table is complete.
LEMMA MigrateIInv == ASSUME IInv, Migrate PROVE IInv'
<1> DEFINE n == Len(Migrators[release])
           m == Migrators[release][at]
<1>1. /\ release \in Release /\ release' = release
      /\ n \in Nat
      /\ at \in 1..n
      /\ phase = "migrate"
      /\ fixture = 0 /\ inserted = FALSE
      /\ release \notin Refused
      /\ UNCHANGED <<rows, seeding, deaths>>
  BY Constants DEF IInv, TypeOK, Position, Migrate
<1>2. m.name \in Keyspace /\ m.versions \subseteq Version
  BY <1>1, Constants
<1>3. \A i \in 1..n : Migrators[release][i].name = m.name => i = at
  BY <1>1, MigratorsAssumption
<1>4. applied \in [Keyspace -> SUBSET Version]
  BY DEF IInv, TypeOK
<1>5. CASE UNCHANGED applied /\ GoTo("down", 0)
  <2>1. Position' /\ Schema'
    BY <1>5, <1>1 DEF GoTo, Position, Schema
  <2>2. BeginsStage
    BY <1>5, <1>1, Constants DEF IInv, TypeOK, GoTo, BeginsStage, file
  <2> QED
    BY <2>1, <2>2, NewStage
<1>6. CASE UNCHANGED applied /\ GoTo("migrate", at + 1) /\ applied[m.name] = m.versions
  <2>1. Position'
    BY <1>6, <1>1 DEF GoTo, Position
  <2>2. Schema'
    BY <1>6, <1>1 DEF GoTo, IInv, Schema, Complete
  <2>3. BeginsStage
    BY <1>6, <1>1, Constants DEF IInv, TypeOK, GoTo, BeginsStage, file
  <2> QED
    BY <2>1, <2>2, <2>3, NewStage
<1>7. ASSUME NEW v \in m.versions,
             applied' = [applied EXCEPT ![m.name] = @ \cup {v}],
             UNCHANGED <<phase, at, fixture, inserted>>
      PROVE  IInv'
  <2>1. applied' \in [Keyspace -> SUBSET Version]
    BY <1>7, <1>2, <1>4
  <2>2. TypeOK'
    BY <2>1, <1>7, <1>1 DEF IInv, TypeOK
  <2>3. Stored' /\ SeedsOnceFirst' /\ Position'
    BY <1>7, <1>1 DEF IInv, Stored, SeedsOnceFirst, Position
  <2>4. \A i \in 1..n : i < at => applied'[Migrators[release][i].name] = applied[Migrators[release][i].name]
    BY <1>7, <1>1, <1>3, <1>4
  <2>5. Schema'
    BY <2>4, <1>7, <1>1 DEF IInv, Schema, Complete
  <2>6. Seeding'
    BY <1>7, <1>1 DEF Seeding
  <2> QED
    BY <2>2, <2>3, <2>5, <2>6 DEF IInv
<1>8. \/ UNCHANGED applied /\ GoTo("down", 0)
      \/ UNCHANGED applied /\ GoTo("migrate", at + 1) /\ applied[m.name] = m.versions
      \/ \E v \in m.versions :
            /\ applied' = [applied EXCEPT ![m.name] = @ \cup {v}]
            /\ UNCHANGED <<phase, at, fixture, inserted>>
  BY DEF Migrate, OnFailure, AfterFailure, Abort, Current, Table, Missing, Pending, Least
<1> HIDE DEF n, m
<1> QED
  BY <1>5, <1>6, <1>7, <1>8

-----------------------------------------------------------------------------
LEMMA SeedCheckIInv == ASSUME IInv, SeedCheck PROVE IInv'
<1>1. /\ at \in 1..Len(SeedOrder) /\ Len(SeedOrder) \in Nat
      /\ Seeded \in Plugin
      /\ Len(Target[Seeded]) \in Nat
      /\ phase = "seed"
      /\ fixture = 0 /\ inserted = FALSE
      /\ UNCHANGED <<applied, rows, release, seeding, deaths>>
  BY Constants DEF IInv, TypeOK, Position, SeedCheck, Seeded, file
<1>2. CASE rows[Seeded] = <<>> /\ fixture' = 1 /\ UNCHANGED <<phase, at, inserted>>
  <2>1. TypeOK'
    BY <1>2, <1>1 DEF IInv, TypeOK
  <2>2. Stored' /\ SeedsOnceFirst' /\ Schema'
    BY <1>2, <1>1 DEF IInv, Stored, SeedsOnceFirst, Schema, Complete
  <2>3. Position'
    BY <1>2, <1>1 DEF IInv, Position, Seeded
  <2>4. Seeding'
    BY <1>2, <1>1 DEF Seeding, Seeded
  <2> QED
    BY <2>1, <2>2, <2>3, <2>4 DEF IInv
<1>3. CASE GoTo("seed", at + 1)
  <2>1. Position' /\ Schema'
    BY <1>3, <1>1 DEF GoTo, IInv, Position, Schema, Complete
  <2>2. BeginsStage
    BY <1>3, <1>1 DEF IInv, TypeOK, GoTo, BeginsStage, file
  <2> QED
    BY <2>1, <2>2, NewStage
<1> QED
  BY <1>2, <1>3 DEF SeedCheck, Empty

\* Adding the next fixture to the table being seeded.
LEMMA SeedInsertIInv == ASSUME IInv, SeedInsert PROVE IInv'
<1> DEFINE p == SeedOrder[at]
           t == rows[p]
           r == [fixture |-> fixture, moves |-> 0]
<1>1. /\ at \in 1..Len(SeedOrder) /\ Len(SeedOrder) \in Nat
      /\ p \in Plugin
      /\ Len(Target[p]) \in Nat
      /\ \A k \in 1..Len(Target[p]) : Target[p][k] \in Nat
      /\ phase = "seed"
      /\ fixture \in 1..Len(Target[p]) + 1
      /\ inserted = FALSE
      /\ UNCHANGED <<applied, release, seeding, deaths>>
  BY Constants DEF IInv, TypeOK, Position, SeedInsert
<1>2. /\ rows \in [Plugin -> Seq(Row)]
      /\ t \in Seq(Row) /\ Len(t) \in Nat
      /\ \A i \in 1..Len(t) : t[i] \in Row /\ t[i].fixture \in 1..fixture - 1
  <2>1. rows \in [Plugin -> Seq(Row)] /\ t \in Seq(Row)
    BY <1>1 DEF IInv, Stored
  <2>2. \A i \in 1..Len(t) : t[i].fixture \in 1..fixture - 1
    BY <1>1 DEF IInv, Seeding
  <2> QED
    BY <2>1, <2>2, LenProperties, ElementOfSeq
<1>3. CASE GoTo("seed", at + 1) /\ UNCHANGED rows
  <2>1. Position' /\ Schema'
    BY <1>3, <1>1 DEF GoTo, IInv, Position, Schema, Complete
  <2>2. BeginsStage
    BY <1>3, <1>1 DEF IInv, TypeOK, GoTo, BeginsStage, file
  <2> QED
    BY <2>1, <2>2, NewStage
<1>4. CASE /\ fixture <= Len(Target[p])
           /\ rows' = [rows EXCEPT ![p] = Append(@, r)]
           /\ inserted' = TRUE
           /\ UNCHANGED <<phase, at, fixture>>
  <2>1. r \in Row
    BY <1>1 DEF Row
  <2>2. /\ Append(t, r) \in Seq(Row)
        /\ Len(Append(t, r)) = Len(t) + 1
        /\ \A i \in 1..Len(t) : Append(t, r)[i] = t[i]
        /\ Append(t, r)[Len(t) + 1] = r
    BY <1>2, <2>1, AppendProperties
  <2>3. rows'[p] = Append(t, r) /\ \A q \in Plugin : q # p => rows'[q] = rows[q]
    BY <1>4, <1>1, <1>2
  <2>4. Stored'
    BY <1>4, <1>1, <1>2, <2>2 DEF Stored
  <2>5. \A q \in Plugin : \A i \in 1..Len(rows'[q]) : RowOK(q, rows'[q][i])
    <3>1. RowOK(p, r)
      BY <1>4, <1>1 DEF RowOK
    <3>2. \A q \in Plugin : \A i \in 1..Len(rows[q]) : RowOK(q, rows[q][i])
      BY DEF IInv, TypeOK
    <3>3. \A i \in 1..Len(t) + 1 : RowOK(p, Append(t, r)[i])
      BY <1>1, <1>2, <2>2, <3>1, <3>2
    <3> HIDE DEF r, t
    <3> QED
      BY <2>2, <2>3, <3>2, <3>3
  <2>6. TypeOK'
    BY <1>4, <1>1, <2>5 DEF IInv, TypeOK, RowOK
  <2>7. Position' /\ Schema'
    BY <1>4, <1>1 DEF IInv, Position, Schema, Complete
  <2>8. Seeding'
    BY <1>4, <1>1, <1>2, <2>2, <2>3 DEF Seeding
  <2>9. SeedsOnceFirst'
    <3> SUFFICES ASSUME NEW q \in Plugin, NEW i \in 1..Len(rows'[q]),
                        NEW j \in 1..Len(rows'[q]),
                        i < j, rows'[q][j].fixture # 0
                 PROVE  /\ rows'[q][i].fixture # 0
                        /\ rows'[q][i].fixture < rows'[q][j].fixture
      BY DEF SeedsOnceFirst
    <3>1. CASE q # p
      BY <3>1, <2>3 DEF IInv, SeedsOnceFirst
    <3>2. CASE q = p /\ j = Len(t) + 1
      <4>1. rows'[q][i] = t[i] /\ i \in 1..Len(t) /\ rows'[q][j].fixture = fixture
        BY <3>2, <1>2, <2>2, <2>3
      <4>2. rows'[q][i].fixture \in 1..fixture - 1
        BY <4>1, <1>2
      <4> HIDE DEF p, t
      <4> QED
        BY <4>1, <4>2, <1>1
    <3>3. CASE q = p /\ j \in 1..Len(t)
      <4>1. i \in 1..Len(t) /\ rows'[q][i] = t[i] /\ rows'[q][j] = t[j]
        BY <3>3, <1>2, <2>2, <2>3
      <4> QED
        BY <4>1, <3>3, <1>1 DEF IInv, SeedsOnceFirst
    <3> QED
      BY <3>1, <3>2, <3>3, <1>2, <2>2, <2>3
  <2> QED
    BY <2>4, <2>6, <2>7, <2>8, <2>9 DEF IInv
<1> QED
  BY <1>3, <1>4 DEF SeedInsert, Seeded

\* A transition of the row just inserted leaves every row's fixture as it was.
LEMMA SeedMoveIInv == ASSUME IInv, SeedMove PROVE IInv'
<1> DEFINE p == SeedOrder[at]
           t == rows[p]
           n == Len(t)
<1>1. /\ at \in 1..Len(SeedOrder) /\ Len(SeedOrder) \in Nat
      /\ p \in Plugin
      /\ Len(Target[p]) \in Nat
      /\ \A k \in 1..Len(Target[p]) : Target[p][k] \in Nat
      /\ phase = "seed"
      /\ fixture \in 1..Len(Target[p])
      /\ inserted = TRUE
      /\ UNCHANGED <<applied, phase, release, seeding, at, deaths>>
  BY Constants DEF IInv, TypeOK, Position, SeedMove
<1>2. /\ rows \in [Plugin -> Seq(Row)]
      /\ t \in Seq(Row) /\ n \in Nat /\ n > 0
      /\ t[n].fixture = fixture
      /\ \A i \in 1..n : t[i] \in Row /\ t[i].fixture \in 1..fixture
  <2>1. rows \in [Plugin -> Seq(Row)] /\ t \in Seq(Row)
    BY <1>1 DEF IInv, Stored
  <2>2. /\ \A i \in 1..n : t[i].fixture \in 1..fixture
        /\ n > 0 /\ t[n].fixture = fixture
    BY <1>1 DEF IInv, Seeding
  <2> QED
    BY <2>1, <2>2, LenProperties, ElementOfSeq
<1>3. CASE fixture' = fixture + 1 /\ inserted' = FALSE /\ UNCHANGED rows
  <2>1. TypeOK'
    <3>1. fixture' \in Nat
      BY <1>3, <1>1
    <3>2. inserted' \in BOOLEAN
      BY <1>3
    <3> QED
      BY <3>1, <3>2, <1>3, <1>1 DEF IInv, TypeOK
  <2>4. Stored' /\ SeedsOnceFirst'
    BY <1>3 DEF IInv, Stored, SeedsOnceFirst
  <2>2. Position' /\ Schema'
    BY <1>3, <1>1 DEF IInv, Position, Schema, Complete
  <2>3. Seeding'
    <3>1. \A i \in 1..n : t[i].fixture \in 1..fixture' - 1
      BY <1>3, <1>1, <1>2
    <3> QED
      BY <3>1, <1>3, <1>1 DEF Seeding
  <2> QED
    BY <2>1, <2>2, <2>3, <2>4 DEF IInv
<1>4. CASE /\ t[n].moves < Target[p][t[n].fixture]
           /\ rows' = [rows EXCEPT ![p][n].moves = @ + 1]
           /\ UNCHANGED <<fixture, inserted>>
  <2> DEFINE r == [t[n] EXCEPT !.moves = @ + 1]
  <2>0. t[n] \in Row
    BY <1>2
  <2>1. r \in Row /\ r.fixture = t[n].fixture /\ r.moves = t[n].moves + 1
    BY <2>0 DEF Row
  <2>2. /\ rows'[p] = [t EXCEPT ![n] = r]
        /\ \A q \in Plugin : q # p => rows'[q] = rows[q]
    BY <1>4, <1>1, <1>2
  <2>3. /\ rows'[p] \in Seq(Row) /\ Len(rows'[p]) = n
        /\ rows'[p][n] = r
        /\ \A i \in 1..n : i # n => rows'[p][i] = t[i]
    BY <1>2, <2>1, <2>2, ExceptSeq
  <2>4. \A i \in 1..n : rows'[p][i].fixture = t[i].fixture
    BY <1>2, <2>1, <2>3
  <2>5. Stored'
    <3>1. rows' = [rows EXCEPT ![p] = [t EXCEPT ![n] = r]]
      BY <1>4
    <3> HIDE DEF r, t
    <3> QED
      BY <1>1, <1>2, <2>2, <2>3, <3>1 DEF Stored
  <2>6. \A q \in Plugin : \A i \in 1..Len(rows'[q]) : RowOK(q, rows'[q][i])
    <3>1. RowOK(p, r)
      <4>1. /\ r.fixture = fixture /\ r.moves = t[n].moves + 1
            /\ t[n].moves \in Nat /\ Target[p][fixture] \in Nat
            /\ t[n].moves < Target[p][fixture]
        BY <1>4, <1>1, <1>2, <2>0, <2>1 DEF Row
      <4> HIDE DEF r, t
      <4> QED
        BY <4>1, <1>1 DEF RowOK
    <3>2. \A q \in Plugin : \A i \in 1..Len(rows[q]) : RowOK(q, rows[q][i])
      BY DEF IInv, TypeOK
    <3>3. \A i \in 1..n : RowOK(p, rows'[p][i])
      BY <1>1, <1>2, <2>3, <3>1, <3>2
    <3> QED
      BY <2>2, <2>3, <3>2, <3>3
  <2>7. TypeOK'
    BY <1>4, <1>1, <2>6 DEF IInv, TypeOK, RowOK
  <2>8. Position' /\ Schema'
    BY <1>4, <1>1 DEF IInv, Position, Schema, Complete
  <2>9. Seeding'
    BY <1>4, <1>1, <1>2, <2>3, <2>4 DEF Seeding
  <2>10. SeedsOnceFirst'
    <3> SUFFICES ASSUME NEW q \in Plugin, NEW i \in 1..Len(rows'[q]),
                        NEW j \in 1..Len(rows'[q]),
                        i < j, rows'[q][j].fixture # 0
                 PROVE  /\ rows'[q][i].fixture # 0
                        /\ rows'[q][i].fixture < rows'[q][j].fixture
      BY DEF SeedsOnceFirst
    <3>1. /\ i \in 1..Len(rows[q]) /\ j \in 1..Len(rows[q])
          /\ rows'[q][i].fixture = rows[q][i].fixture
          /\ rows'[q][j].fixture = rows[q][j].fixture
      BY <1>2, <2>2, <2>3, <2>4
    <3> QED
      BY <3>1 DEF IInv, SeedsOnceFirst
  <2> QED
    BY <2>5, <2>7, <2>8, <2>9, <2>10 DEF IInv
<1>5. Unfinished(t[n]) <=> t[n].moves < Target[p][t[n].fixture]
  BY DEF Unfinished, Seeded
<1> QED
  BY <1>3, <1>4, <1>5 DEF SeedMove, Seeded

-----------------------------------------------------------------------------
\* A serving process has no position in the seed, so users' rows meet two duties:
\* each is a well-formed row, and the fixtures stay first and in order.
LEMMA UserIInv ==
    ASSUME IInv, NEW p \in Plugin, NEW t,
           phase = "serving",
           rows' = [rows EXCEPT ![p] = t],
           UNCHANGED <<applied, phase, release, seeding, at, fixture, inserted, deaths>>,
           t \in Seq(Row),
           \A i \in 1..Len(t) : RowOK(p, t[i]),
           \A i, j \in 1..Len(t) :
               i < j /\ t[j].fixture # 0 =>
                   t[i].fixture # 0 /\ t[i].fixture < t[j].fixture
    PROVE  IInv'
<1>1. /\ rows \in [Plugin -> Seq(Row)]
      /\ rows'[p] = t
      /\ \A q \in Plugin : q # p => rows'[q] = rows[q]
  BY DEF IInv, Stored
<1>2. Stored'
  BY <1>1 DEF Stored
<1>3. TypeOK'
  <2>1. \A q \in Plugin : \A i \in 1..Len(rows'[q]) : RowOK(q, rows'[q][i])
    BY <1>1 DEF IInv, TypeOK
  <2> QED
    BY <2>1 DEF IInv, TypeOK
<1>4. SeedsOnceFirst'
  BY <1>1 DEF IInv, SeedsOnceFirst
<1>5. Position' /\ Schema'
  BY DEF IInv, Position, Schema, Complete
<1>6. Seeding'
  BY DEF IInv, Position, Seeding
<1> QED
  BY <1>2, <1>3, <1>4, <1>5, <1>6 DEF IInv

\* What the invariant says of one table.
LEMMA TableRows ==
    ASSUME IInv, NEW p \in Plugin
    PROVE  /\ rows[p] \in Seq(Row)
           /\ Len(rows[p]) \in Nat
           /\ \A i \in 1..Len(rows[p]) : rows[p][i] \in Row /\ RowOK(p, rows[p][i])
           /\ \A i, j \in 1..Len(rows[p]) :
                 i < j /\ rows[p][j].fixture # 0 =>
                     rows[p][i].fixture # 0 /\ rows[p][i].fixture < rows[p][j].fixture
<1>1. rows[p] \in Seq(Row)
  BY DEF IInv, Stored
<1>2. Len(rows[p]) \in Nat /\ \A i \in 1..Len(rows[p]) : rows[p][i] \in Row
  BY <1>1, LenProperties, ElementOfSeq
<1> QED
  BY <1>1, <1>2 DEF IInv, TypeOK, SeedsOnceFirst

LEMMA UserInsertIInv ==
    ASSUME IInv, NEW p \in Plugin, UserInsert(p)
    PROVE  IInv'
<1> DEFINE s == rows[p]
           t == Append(s, UserRow)
<1>1. UserRow \in Row /\ UserRow.fixture = 0 /\ RowOK(p, UserRow)
  BY DEF UserRow, Row, RowOK
<1>2. /\ t \in Seq(Row) /\ Len(t) = Len(s) + 1 /\ Len(s) \in Nat
      /\ \A i \in 1..Len(s) : t[i] = s[i]
      /\ t[Len(s) + 1] = UserRow
  BY <1>1, TableRows, AppendProperties
<1>3. \A i \in 1..Len(t) : RowOK(p, t[i])
  BY <1>1, <1>2, TableRows
<1>4. ASSUME NEW i \in 1..Len(t), NEW j \in 1..Len(t), i < j, t[j].fixture # 0
      PROVE  t[i].fixture # 0 /\ t[i].fixture < t[j].fixture
  <2>1. i \in 1..Len(s) /\ j \in 1..Len(s) /\ t[i] = s[i] /\ t[j] = s[j]
    BY <1>1, <1>2, <1>4
  <2> QED
    BY <2>1, <1>4, TableRows
<1>5. /\ phase = "serving"
      /\ rows' = [rows EXCEPT ![p] = t]
      /\ UNCHANGED <<applied, phase, release, seeding, at, fixture, inserted, deaths>>
  BY DEF UserInsert
<1> HIDE DEF t
<1> QED
  BY <1>2, <1>3, <1>4, <1>5, UserIInv

LEMMA UserDeleteIInv ==
    ASSUME IInv, NEW p \in Plugin, UserDelete(p)
    PROVE  IInv'
<1> DEFINE s == rows[p]
<1>1. PICK d \in 1..Len(s) : rows' = [rows EXCEPT ![p] = RemoveAt(s, d)]
  BY DEF UserDelete
<1> DEFINE t == RemoveAt(s, d)
<1>2. /\ t \in Seq(Row) /\ Len(t) = Len(s) - 1 /\ Len(s) \in Nat
      /\ \A k \in 1..Len(s) - 1 : t[k] = IF k < d THEN s[k] ELSE s[k + 1]
  BY RemoveAtShifts, TableRows
<1> HIDE DEF t
<1>3. \A i \in 1..Len(t) : RowOK(p, t[i])
  BY <1>2, TableRows
<1>4. ASSUME NEW i \in 1..Len(t), NEW j \in 1..Len(t), i < j, t[j].fixture # 0
      PROVE  t[i].fixture # 0 /\ t[i].fixture < t[j].fixture
  <2> DEFINE old(k) == IF k < d THEN k ELSE k + 1
  <2>1. /\ old(i) \in 1..Len(s) /\ old(j) \in 1..Len(s) /\ old(i) < old(j)
        /\ t[i] = s[old(i)] /\ t[j] = s[old(j)]
    BY <1>2, <1>4
  <2>2. s[old(j)].fixture # 0
    BY <2>1, <1>4
  <2> HIDE DEF old
  <2>3. s[old(i)].fixture # 0 /\ s[old(i)].fixture < s[old(j)].fixture
    BY <2>1, <2>2, TableRows
  <2> QED
    BY <2>1, <2>3
<1>5. /\ phase = "serving"
      /\ rows' = [rows EXCEPT ![p] = t]
      /\ UNCHANGED <<applied, phase, release, seeding, at, fixture, inserted, deaths>>
  BY <1>1 DEF UserDelete, t
<1> QED
  BY <1>2, <1>3, <1>4, <1>5, UserIInv

-----------------------------------------------------------------------------
LEMMA NextIInv == IInv /\ [Next]_vars => IInv'
<1> SUFFICES ASSUME IInv, [Next]_vars PROVE IInv'
  OBVIOUS
<1>1. CASE UNCHANGED vars
  <2>1. TypeOK' /\ Stored' /\ SeedsOnceFirst'
    BY <1>1 DEF vars, IInv, TypeOK, Stored, SeedsOnceFirst
  <2>2. Position' /\ Schema' /\ Seeding'
    BY <1>1 DEF vars, IInv, Position, Schema, Complete, Seeding
  <2> QED
    BY <2>1, <2>2 DEF IInv
<1>2. CASE Boot
  BY <1>2, ValidateIInv, MigrateIInv, MigratedIInv, SeedCheckIInv, SeedInsertIInv,
     SeedMoveIInv, SeedDoneIInv, BindIInv DEF Boot
<1>3. CASE \E b \in Release, s \in BOOLEAN : Start(b, s)
  BY <1>3, StartIInv
<1>4. CASE \E p \in Plugin : UserInsert(p) \/ UserDelete(p)
  BY <1>4, UserInsertIInv, UserDeleteIInv
<1>5. CASE Stop \/ Die
  BY <1>5, StopIInv, DieIInv
<1> QED
  BY <1>1, <1>2, <1>3, <1>4, <1>5 DEF Next

\* The inductive invariant holds in every reachable state.
THEOREM IInvCorrect == Spec => []IInv
  BY InitIInv, NextIInv, PTL DEF Spec

\* Every reachable file holds well-formed rows, and the position fits the stage.
THEOREM TypeCorrect == Spec => []TypeOK
<1>1. IInv => TypeOK
  BY DEF IInv
<1> QED
  BY IInvCorrect, <1>1, PTL

\* A process serves only on a file whose schema is the one of its release, whatever
\* releases ran on the file before and wherever they failed or died.
THEOREM ServesOwnSchemaCorrect == Spec => []ServesOwnSchema
<1>1. IInv => ServesOwnSchema
  BY DEF IInv, Schema, Complete, ServesOwnSchema
<1> QED
  BY IInvCorrect, <1>1, PTL

\* No fixture is ever in a table twice, out of order, or behind a user's row.
THEOREM SeedsOnceFirstCorrect == Spec => []SeedsOnceFirst
<1>1. IInv => SeedsOnceFirst
  BY DEF IInv
<1> QED
  BY IInvCorrect, <1>1, PTL

-----------------------------------------------------------------------------
\* A refused build never changes the file.
LEMMA RefusedStep == IInv /\ [Next]_vars => UNCHANGED file \/ release \notin Refused
<1> SUFFICES ASSUME IInv, [Next]_vars, release \in Refused PROVE UNCHANGED file
  OBVIOUS
<1>1. phase \in {"down", "validate"} /\ fixture = 0 /\ inserted = FALSE
  BY DEF IInv, TypeOK, Position
<1> QED
  BY <1>1 DEF Next, Boot, vars, file, Start, Validate, Migrate, Migrated, SeedCheck,
     SeedInsert, SeedMove, SeedDone, Bind, UserInsert, UserDelete, Stop, Die

\* A start that is refused by validation changes nothing in the file.
THEOREM RefusedLeavesFileCorrect == Spec => RefusedLeavesFile
<1>1. IInv /\ [Next]_vars => [UNCHANGED file \/ release \notin Refused]_vars
  BY RefusedStep
<1> QED
  BY IInvCorrect, <1>1, PTL DEF Spec, RefusedLeavesFile

\* Only Migrate changes a tracking table, the one of the migrator at the position,
\* and those before it are complete.
LEMMA InOrderStep ==
    ASSUME IInv, [Next]_vars,
           NEW i \in 1..Len(Migrators[release]), NEW j \in 1..Len(Migrators[release]),
           i < j,
           applied'[Migrators[release][j].name] # applied[Migrators[release][j].name]
    PROVE  applied[Migrators[release][i].name] = Migrators[release][i].versions
<1>1. Migrate
  BY DEF Next, Boot, vars, file, Start, Validate, Migrated, SeedCheck,
     SeedInsert, SeedMove, SeedDone, Bind, UserInsert, UserDelete, Stop, Die
<1>2. /\ phase = "migrate" /\ at \in 1..Len(Migrators[release])
      /\ release \in Release /\ Len(Migrators[release]) \in Nat
      /\ applied \in [Keyspace -> SUBSET Version]
  BY <1>1, Constants DEF IInv, TypeOK, Position, Migrate
<1>3. \E v : applied' = [applied EXCEPT ![Migrators[release][at].name] = @ \cup {v}]
  BY <1>1 DEF Migrate, Current, Table
<1>4. j = at
  <2>1. Migrators[release][j].name = Migrators[release][at].name
    BY <1>2, <1>3, Constants
  <2> QED
    BY <2>1, <1>2, MigratorsAssumption
<1> QED
  BY <1>2, <1>4 DEF IInv, Schema, Complete

\* A failing or dying migration leaves those before it complete and none after it begun.
THEOREM InRegistryOrderCorrect == Spec => InRegistryOrder
<1>1. IInv /\ [Next]_vars =>
        [\A i, j \in 1..Len(Migrators[release]) :
            i < j /\ applied'[Migrators[release][j].name] # applied[Migrators[release][j].name]
              => applied[Migrators[release][i].name] = Migrators[release][i].versions]_vars
  BY InOrderStep
<1> QED
  BY IInvCorrect, <1>1, PTL DEF Spec, InRegistryOrder
=============================================================================
