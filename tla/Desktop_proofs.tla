--------------------------- MODULE Desktop_proofs ---------------------------
(***************************************************************************)
(* Proofs about Desktop for any number of launches, builds, ports,         *)
(* retries and faults.                                                     *)
(*                                                                         *)
(* Of the living sidecars all but the one of the shell that is up are      *)
(* orphans of shells killed hard. So of two that live, one is an orphan:   *)
(* who finds the file migrated under it is one, or was overtaken by one;   *)
(* and whoever answers the probe is the shell's own, an orphan, or the     *)
(* developer's server.                                                     *)
(***************************************************************************)
EXTENDS Desktop, TLAPS

Processes ==
    /\ shell \in {"off", "up"}
    /\ launched \in 0..Launches
    /\ own \in 0..launched
    /\ shell = "up" => own \in Sidecars
    /\ proc \in [Sidecars -> {"starting", "migrated", "bound", "dead"}]
    /\ build \in [Sidecars -> Builds \cup {0}]
    /\ asked \in [Sidecars -> Ports]
    /\ schema \in Builds \cup {0}
    /\ owner \in [Ports -> 0..Launches + 1]
    /\ orphans \subseteq Sidecars /\ \A p \in orphans : p <= launched
    /\ \A n \in Ports : owner[n] \in Sidecars => proc[owner[n]] = "bound"
    /\ \A p \in Sidecars : p > launched => proc[p] = "dead"

Single ==
    \A p \in Sidecars : proc[p] # "dead" => (shell = "up" /\ p = own) \/ p \in orphans

\* What p's file may look like to it, with these orphans about.
Fits(p, orphaned) ==
    build[p] = schema \/ p \in orphaned \/ (\E q \in orphaned : build[q] = schema)
Migrated == \A p \in Sidecars : proc[p] \in {"migrated", "bound"} => Fits(p, orphans)

Probing ==
    /\ fetch \in {"idle", "sent", "ok", "error", "empty"}
    /\ status \in {"pending", "error", "success"}
    /\ failures \in 0..Retries + 1
    /\ responder \in 0..Launches + 1
    /\ shell = "off" => fetch = "idle" /\ status = "pending"
    /\ status = "success" => fetch = "idle"
    /\ fetch # "idle" => failures <= Retries

Known == fetch = "ok" \/ status = "success" => responder \in {own, Dev} \cup orphans

Faults == faults \in 0..MaxFaults

IInv == Processes /\ Single /\ Migrated /\ Probing /\ Known /\ Faults

-----------------------------------------------------------------------------
LEMMA Constants ==
    /\ ApiPort \in Ports /\ 0 \notin Ports /\ Default \in Ports
    /\ Launches \in Nat /\ Retries \in Nat /\ MaxFaults \in Nat
    /\ Dev \in 0..Launches + 1 /\ Dev \notin Sidecars /\ None \notin Sidecars
BY LaunchAssumption, PortAssumption, ProbeAssumption DEF ApiPort, Dev, Sidecars, None

\* At the first launch nothing runs and nobody has probed.
THEOREM Initially == Init => IInv
<1> SUFFICES ASSUME Init PROVE IInv
  OBVIOUS
<1>1. Processes
  BY Constants DEF Init, Processes, None, Sidecars
<1>2. Single /\ Migrated
  BY DEF Init, Single, Migrated
<1>3. Probing /\ Known /\ Faults
  BY Constants DEF Init, Probing, Known, Faults, None
<1> QED
  BY <1>1, <1>2, <1>3 DEF IInv

\* A process that ends leaves its ports to nobody.
LEMMA Ends ==
    ASSUME Processes, NEW p \in Sidecars,
           proc' = [proc EXCEPT ![p] = "dead"], owner' = Released(p)
    PROVE  /\ proc' \in [Sidecars -> {"starting", "migrated", "bound", "dead"}]
           /\ owner' \in [Ports -> 0..Launches + 1]
           /\ \A n \in Ports : owner'[n] \in Sidecars => proc'[owner'[n]] = "bound"
           /\ \A q \in Sidecars : q > launched => proc'[q] = "dead"
           /\ \A q \in Sidecars : proc'[q] = IF q = p THEN "dead" ELSE proc[q]
<1>1. \A n \in Ports : owner'[n] = IF owner[n] = p THEN None ELSE owner[n]
  BY DEF Released
<1>2. owner' \in [Ports -> 0..Launches + 1]
  BY Constants DEF Released, Processes, None
<1>3. \A q \in Sidecars : proc'[q] = IF q = p THEN "dead" ELSE proc[q]
  BY DEF Processes
<1>4. proc' \in [Sidecars -> {"starting", "migrated", "bound", "dead"}]
  BY DEF Processes
<1>5. \A n \in Ports : owner'[n] \in Sidecars => proc'[owner'[n]] = "bound"
  BY <1>1, <1>3, Constants DEF Processes
<1> QED
  BY <1>2, <1>3, <1>4, <1>5 DEF Processes

-----------------------------------------------------------------------------
(* The shell *)

LEMMA LaunchStep ==
    ASSUME IInv, NEW b \in Builds, NEW n \in Ports, Launch(b, n)
    PROVE  IInv'
<1> DEFINE p == launched + 1
<1>1. /\ p \in Sidecars /\ proc[p] = "dead" /\ shell = "off"
      /\ launched' = p /\ own' = p /\ shell' = "up"
      /\ proc' = [proc EXCEPT ![p] = "starting"]
      /\ build' = [build EXCEPT ![p] = b]
      /\ asked' = [asked EXCEPT ![p] = n]
      /\ UNCHANGED <<schema, owner, orphans, faults>>
  <2>1. launched \in 0..Launches /\ launched < Launches
    BY DEF Launch, IInv, Processes
  <2>2. p \in Sidecars /\ p > launched
    BY <2>1, Constants DEF Sidecars
  <2>3. proc[p] = "dead"
    BY <2>2 DEF IInv, Processes
  <2> QED
    BY <2>2, <2>3 DEF Launch, MayStart
<1> HIDE DEF p
<1>2. Processes'
  <2>1. /\ proc' \in [Sidecars -> {"starting", "migrated", "bound", "dead"}]
        /\ \A q \in Sidecars : proc'[q] = IF q = p THEN "starting" ELSE proc[q]
    BY <1>1 DEF IInv, Processes
  <2>2. /\ build' \in [Sidecars -> Builds \cup {0}]
        /\ asked' \in [Sidecars -> Ports]
    BY <1>1 DEF IInv, Processes
  <2>3. \A m \in Ports : owner'[m] \in Sidecars => proc'[owner'[m]] = "bound"
    BY <1>1, <2>1 DEF IInv, Processes
  <2>4. \A q \in Sidecars : q > p => proc'[q] = "dead"
    <3>1. \A q \in Sidecars : q > p => q > launched /\ q # p
      BY DEF p, Sidecars, IInv, Processes
    <3> QED
      BY <2>1, <3>1 DEF IInv, Processes
  <2>5. p \in 0..Launches /\ p \in 0..p
    BY <1>1, Constants DEF Sidecars
  <2>6. \A q \in orphans : q <= p
    <3>1. \A q \in orphans : q \in Nat /\ q <= launched
      BY DEF Sidecars, IInv, Processes
    <3> QED
      BY <3>1 DEF p, IInv, Processes
  <2> QED
    BY <1>1, <2>1, <2>2, <2>3, <2>4, <2>5, <2>6 DEF IInv, Processes
<1>3. Single' /\ Migrated'
  <2>1. \A q \in Sidecars : q # p => proc'[q] = proc[q] /\ build'[q] = build[q]
    BY <1>1 DEF IInv, Processes
  <2>2. p \notin orphans
    BY DEF p, IInv, Processes
  <2>3. \A q \in Sidecars : proc'[q] # "dead" => q = p \/ q \in orphans
    BY <1>1, <2>1 DEF IInv, Single
  <2>4. proc'[p] = "starting"
    BY <1>1 DEF IInv, Processes
  <2> QED
    BY <1>1, <2>1, <2>2, <2>3, <2>4 DEF IInv, Processes, Single, Migrated, Fits
<1>4. Probing' /\ Known'
  BY <1>1, Constants DEF Launch, Mounted, None, Probing, Known
<1>5. Faults'
  BY <1>1 DEF IInv, Faults
<1> QED
  BY <1>2, <1>3, <1>4, <1>5 DEF IInv

\* An orderly exit leaves no process behind.
LEMMA CloseStep == IInv /\ Close => IInv'
<1> SUFFICES ASSUME IInv, Close PROVE IInv'
  OBVIOUS
<1>1. own \in Sidecars
  BY DEF Close, IInv, Processes
<1>2. /\ proc' \in [Sidecars -> {"starting", "migrated", "bound", "dead"}]
      /\ owner' \in [Ports -> 0..Launches + 1]
      /\ \A n \in Ports : owner'[n] \in Sidecars => proc'[owner'[n]] = "bound"
      /\ \A q \in Sidecars : q > launched => proc'[q] = "dead"
      /\ \A q \in Sidecars : proc'[q] = IF q = own THEN "dead" ELSE proc[q]
  <2>1. Processes /\ proc' = [proc EXCEPT ![own] = "dead"] /\ owner' = Released(own)
    BY DEF Close, OnExit, KillChild, IInv
  <2> QED
    BY <1>1, <2>1, Ends
<1>3. Processes'
  BY <1>2 DEF Close, IInv, Processes
<1>4. Single' /\ Migrated'
  BY <1>2 DEF Close, IInv, Single, Migrated, Fits
<1>5. Probing' /\ Known'
  BY Constants DEF Close, Unmounted, None, Probing, Known
<1>6. Faults'
  BY DEF Close, IInv, Faults
<1> QED
  BY <1>3, <1>4, <1>5, <1>6 DEF IInv

\* A hard kill makes an orphan, unless the sidecar was dead.
LEMMA HardKillStep == IInv /\ HardKill => IInv'
<1> SUFFICES ASSUME IInv, HardKill PROVE IInv'
  OBVIOUS
<1>1. own \in Sidecars
  BY DEF HardKill, IInv, Processes
<1>2. Processes'
  <2>1. own <= launched
    BY DEF IInv, Processes
  <2>2. /\ orphans' \subseteq Sidecars /\ \A p \in orphans' : p <= launched
    BY <1>1, <2>1 DEF HardKill, IInv, Processes
  <2> QED
    BY <1>1, <2>2 DEF HardKill, processes, IInv, Processes
<1>3. Single' /\ Migrated'
  <2>1. Alive(own) <=> proc[own] # "dead"
    BY <1>1 DEF Alive, IInv, Processes
  <2>2. orphans' = orphans \cup {p \in {own} : Alive(p)} /\ UNCHANGED <<proc, build, schema>>
    BY DEF HardKill, processes
  <2>3. Single'
    BY <2>1, <2>2 DEF IInv, Single
  <2>4. Migrated'
    BY <2>2 DEF IInv, Migrated, Fits
  <2> QED
    BY <2>3, <2>4
<1>4. Probing' /\ Known'
  BY Constants DEF HardKill, Unmounted, None, Probing, Known
<1>5. Faults'
  BY DEF HardKill, IInv, Faults
<1> QED
  BY <1>2, <1>3, <1>4, <1>5 DEF IInv

-----------------------------------------------------------------------------
(* The sidecars *)

\* One process moves on; the shell and the gate do not.
LEMMA ProcessStep ==
    ASSUME IInv, NEW p \in Sidecars, Processes', Faults',
           proc[p] # "dead",
           \A q \in Sidecars : q # p => proc'[q] = proc[q],
           proc'[p] \in {"migrated", "bound"} => build[p] = schema' \/ (Fits(p, orphans))',
           schema' = schema \/ schema' = build[p],
           UNCHANGED <<shell, launched, own, build, asked, orphans, gate>>
    PROVE  IInv'
<1>1. Single'
  BY DEF IInv, Single
<1>2. Migrated'
  <2> SUFFICES ASSUME NEW q \in Sidecars, proc'[q] \in {"migrated", "bound"}
               PROVE  build[q] = schema' \/ q \in orphans \/ (\E r \in orphans : build[r] = schema')
    BY DEF Migrated, Fits
  <2>1. CASE q = p
    BY <2>1 DEF Fits
  <2>2. CASE q # p /\ schema' = schema
    BY <2>2 DEF IInv, Migrated, Fits
  <2>3. CASE q # p /\ schema' = build[p]
    <3>1. p \in orphans \/ q \in orphans
      BY <2>3 DEF IInv, Single
    <3> QED
      BY <2>3, <3>1
  <2> QED
    BY <2>1, <2>2, <2>3
<1>3. Probing' /\ Known'
  BY DEF gate, IInv, Probing, Known
<1> QED
  BY <1>1, <1>2, <1>3 DEF IInv

LEMMA MigrateStep ==
    ASSUME IInv, NEW p \in Sidecars, Migrate(p)
    PROVE  IInv'
<1>1. /\ proc[p] = "starting"
      /\ UNCHANGED <<shell, launched, own, build, asked, owner, orphans, gate, faults>>
      /\ \/ proc' = [proc EXCEPT ![p] = "dead"] /\ schema' = schema
         \/ proc' = [proc EXCEPT ![p] = "migrated"] /\ schema' = build[p]
  BY DEF Migrate
<1>2. /\ proc' \in [Sidecars -> {"starting", "migrated", "bound", "dead"}]
      /\ \A q \in Sidecars : q # p => proc'[q] = proc[q]
      /\ proc'[p] \in {"dead", "migrated"}
      /\ proc'[p] = "migrated" => schema' = build[p]
  BY <1>1 DEF IInv, Processes
<1>3. Processes'
  <2>1. \A n \in Ports : owner[n] \in Sidecars => owner[n] # p
    BY <1>1 DEF IInv, Processes
  <2>2. \A n \in Ports : owner'[n] \in Sidecars => proc'[owner'[n]] = "bound"
    BY <1>1, <1>2, <2>1 DEF IInv, Processes
  <2>3. \A q \in Sidecars : q > launched => proc'[q] = "dead"
    BY <1>1, <1>2 DEF IInv, Processes
  <2>4. schema' \in Builds \cup {0}
    BY <1>1 DEF IInv, Processes
  <2> QED
    BY <1>1, <1>2, <2>2, <2>3, <2>4 DEF IInv, Processes
<1>4. Faults'
  BY <1>1 DEF IInv, Faults
<1> QED
  BY <1>1, <1>2, <1>3, <1>4, ProcessStep

LEMMA BindStep ==
    ASSUME IInv, NEW p \in Sidecars, Bind(p)
    PROVE  IInv'
<1>1. /\ proc[p] = "migrated"
      /\ UNCHANGED <<shell, launched, own, build, asked, schema, orphans, gate, faults>>
      /\ \/ proc' = [proc EXCEPT ![p] = "dead"] /\ owner' = owner
         \/ /\ proc' = [proc EXCEPT ![p] = "bound"]
            /\ owner' = [owner EXCEPT ![asked[p]] = p]
  BY DEF Bind
<1>2. /\ proc' \in [Sidecars -> {"starting", "migrated", "bound", "dead"}]
      /\ \A q \in Sidecars : q # p => proc'[q] = proc[q]
      /\ proc'[p] \in {"dead", "bound"}
      /\ owner' # owner => proc'[p] = "bound"
  BY <1>1 DEF IInv, Processes
<1>3. p \in 0..Launches + 1 /\ asked[p] \in Ports
  BY Constants DEF Sidecars, IInv, Processes
<1>4. /\ owner' \in [Ports -> 0..Launches + 1]
      /\ \A n \in Ports : owner'[n] = owner[n] \/ (owner'[n] = p /\ proc'[p] = "bound")
  BY <1>1, <1>2, <1>3 DEF IInv, Processes
<1>5. Processes'
  <2>1. \A n \in Ports : owner[n] \in Sidecars => owner[n] # p
    BY <1>1 DEF IInv, Processes
  <2>2. \A n \in Ports : owner'[n] \in Sidecars => proc'[owner'[n]] = "bound"
    BY <1>2, <1>4, <2>1 DEF IInv, Processes
  <2>3. \A q \in Sidecars : q > launched => proc'[q] = "dead"
    BY <1>1, <1>2 DEF IInv, Processes
  <2> QED
    BY <1>1, <1>2, <1>4, <2>2, <2>3 DEF IInv, Processes
<1>6. Faults'
  BY <1>1 DEF IInv, Faults
<1>7. (Fits(p, orphans))'
  BY <1>1 DEF IInv, Migrated, Fits
<1> QED
  BY <1>1, <1>2, <1>5, <1>6, <1>7, ProcessStep

LEMMA DieStep ==
    ASSUME IInv, NEW p \in Sidecars, Die(p)
    PROVE  IInv'
<1>1. /\ proc[p] # "dead"
      /\ proc' = [proc EXCEPT ![p] = "dead"] /\ owner' = Released(p)
      /\ UNCHANGED <<shell, launched, own, build, asked, schema, orphans, gate>>
  BY DEF Die, Alive
<1>2. /\ proc' \in [Sidecars -> {"starting", "migrated", "bound", "dead"}]
      /\ owner' \in [Ports -> 0..Launches + 1]
      /\ \A n \in Ports : owner'[n] \in Sidecars => proc'[owner'[n]] = "bound"
      /\ \A q \in Sidecars : q > launched => proc'[q] = "dead"
      /\ \A q \in Sidecars : proc'[q] = IF q = p THEN "dead" ELSE proc[q]
  BY <1>1, Ends DEF IInv
<1>3. Processes'
  BY <1>1, <1>2 DEF IInv, Processes
<1>4. Faults'
  <2>1. faults \in 0..MaxFaults /\ faults < MaxFaults /\ faults' = faults + 1
    BY DEF Die, IInv, Faults
  <2> QED
    BY <2>1, Constants DEF Faults
<1> QED
  BY <1>1, <1>2, <1>3, <1>4, ProcessStep

LEMMA DevStep == IInv /\ (DevUp \/ DevDown) => IInv'
<1> SUFFICES ASSUME IInv, DevUp \/ DevDown PROVE IInv'
  OBVIOUS
<1>1. /\ UNCHANGED <<shell, launched, own, proc, build, asked, schema, orphans, gate, faults>>
      /\ \E d \in {Dev, None} : owner' = [owner EXCEPT ![Default] = d]
  BY DEF DevUp, DevDown
<1>2. /\ owner' \in [Ports -> 0..Launches + 1]
      /\ \A n \in Ports : owner'[n] \in Sidecars => owner'[n] = owner[n]
  <2>1. PICK d \in {Dev, None} : owner' = [owner EXCEPT ![Default] = d]
    BY <1>1
  <2>2. d \in 0..Launches + 1 /\ d \notin Sidecars
    BY Constants DEF None
  <2> QED
    BY <2>1, <2>2, Constants DEF IInv, Processes
<1>3. Processes'
  BY <1>1, <1>2 DEF IInv, Processes
<1>4. Single' /\ Migrated' /\ Faults'
  BY <1>1 DEF IInv, Single, Migrated, Fits, Faults
<1>5. Probing' /\ Known'
  BY <1>1 DEF gate, IInv, Probing, Known
<1> QED
  BY <1>3, <1>4, <1>5 DEF IInv

-----------------------------------------------------------------------------
(* The gate *)

\* The gate moves and the processes do not.
LEMMA GateStep ==
    ASSUME IInv, Probing', Known', Faults',
           UNCHANGED <<shell, launched, own, processes, orphans>>
    PROVE  IInv'
<1>1. Processes' /\ Single' /\ Migrated'
  BY DEF processes, IInv, Processes, Single, Migrated, Fits
<1> QED
  BY <1>1 DEF IInv

\* Who answers is alive, so it is the shell's own or the developer's.
LEMMA ReachStep == IInv /\ Reach => IInv'
<1> SUFFICES ASSUME IInv, Reach PROVE IInv'
  OBVIOUS
<1>1. /\ responder' = owner[ApiPort] /\ owner[ApiPort] # None
      /\ fetch = "sent" /\ fetch' = "ok"
      /\ UNCHANGED <<shell, launched, own, processes, orphans, status, failures, faults>>
  BY DEF Reach
<1>2. owner[ApiPort] \in Sidecars \cup {Dev}
  <2>1. owner[ApiPort] \in 0..Launches + 1
    BY Constants DEF IInv, Processes
  <2> QED
    BY <1>1, <2>1, Constants DEF Sidecars, Dev, None
<1>3. owner[ApiPort] \in {own, Dev} \cup orphans
  <2> SUFFICES ASSUME owner[ApiPort] \in Sidecars PROVE owner[ApiPort] \in {own} \cup orphans
    BY <1>2
  <2>1. proc[owner[ApiPort]] = "bound"
    BY Constants DEF IInv, Processes
  <2> QED
    BY <2>1 DEF IInv, Single
<1>4. Known'
  BY <1>1, <1>3 DEF Known, Dev
<1>5. Probing'
  <2>1. responder' \in 0..Launches + 1
    BY <1>1, Constants DEF IInv, Processes
  <2>2. shell # "off" /\ status # "success" /\ failures <= Retries
    BY <1>1 DEF IInv, Probing
  <2> QED
    BY <1>1, <2>1, <2>2 DEF IInv, Probing
<1>6. Faults'
  BY <1>1 DEF IInv, Faults
<1> QED
  BY <1>1, <1>4, <1>5, <1>6, GateStep

LEMMA MissStep == IInv /\ Miss => IInv'
<1> SUFFICES ASSUME IInv, Miss PROVE IInv'
  OBVIOUS
<1>1. /\ fetch = "sent" /\ fetch' \in {"error", "empty"}
      /\ UNCHANGED <<shell, launched, own, processes, orphans, status, failures, responder>>
      /\ faults' = faults \/ (faults < MaxFaults /\ faults' = faults + 1)
  BY DEF Miss
<1>2. Probing'
  BY <1>1 DEF IInv, Probing
<1>3. Known'
  BY <1>1 DEF IInv, Known, Probing
<1>4. Faults'
  BY <1>1, Constants DEF IInv, Faults
<1> QED
  BY <1>1, <1>2, <1>3, <1>4, GateStep

LEMMA OpenStep == IInv /\ Open => IInv'
<1> SUFFICES ASSUME IInv, Open PROVE IInv'
  OBVIOUS
<1>1. Probing'
  BY Constants DEF Open, IInv, Probing
<1>2. Known' /\ Faults'
  BY DEF Open, IInv, Known, Faults, Dev
<1> QED
  BY <1>1, <1>2, GateStep DEF Open

\* The ninth failure is the last.
LEMMA RetryStep == IInv /\ (Retry \/ GiveUp) => IInv'
<1> SUFFICES ASSUME IInv, Retry \/ GiveUp PROVE IInv'
  OBVIOUS
<1>1. /\ fetch \in {"error", "empty"} /\ fetch' \in {"sent", "idle"}
      /\ failures' = failures + 1
      /\ fetch' = "sent" => failures < Retries /\ status' = status
      /\ fetch' = "idle" => status' = "error"
      /\ UNCHANGED <<shell, launched, own, processes, orphans, responder, faults>>
  BY DEF Retry, GiveUp, MayRetry
<1>2. /\ shell # "off" /\ status # "success" /\ failures \in 0..Retries
  <2>1. failures \in 0..Retries + 1 /\ failures <= Retries
    BY <1>1 DEF IInv, Probing
  <2> QED
    BY <1>1, <2>1, Constants DEF IInv, Probing
<1>3. failures' \in 0..Retries + 1 /\ (failures < Retries => failures' <= Retries)
  BY <1>1, <1>2, Constants
<1>4. Probing'
  BY <1>1, <1>2, <1>3 DEF IInv, Probing
<1>5. Known' /\ Faults'
  BY <1>1, <1>2 DEF IInv, Known, Faults
<1> QED
  BY <1>1, <1>4, <1>5, GateStep

LEMMA FetchStep == IInv /\ (PressRetry \/ Focus) => IInv'
<1> SUFFICES ASSUME IInv, PressRetry \/ Focus PROVE IInv'
  OBVIOUS
<1>1. /\ shell = "up" /\ status # "success"
      /\ fetch = "idle" /\ fetch' = "sent" /\ failures' = 0 /\ status' = "pending"
      /\ UNCHANGED <<shell, launched, own, processes, orphans, responder, faults>>
  BY DEF PressRetry, Focus, Stale, View, Fetch, Refetch
<1>2. Probing'
  BY <1>1, Constants DEF IInv, Probing
<1>3. Known' /\ Faults'
  BY <1>1 DEF IInv, Known, Faults
<1> QED
  BY <1>1, <1>2, <1>3, GateStep

LEMMA StutterStep == IInv /\ UNCHANGED vars => IInv'
<1> SUFFICES ASSUME IInv, UNCHANGED vars PROVE IInv'
  OBVIOUS
<1>1. Probing' /\ Known' /\ Faults'
  BY DEF vars, gate, IInv, Probing, Known, Faults
<1> QED
  BY <1>1, GateStep DEF vars

\* Whatever kills, crashes and launches there are: every living sidecar but the
\* shell's own is an orphan, who finds another schema in the file than its own is an
\* orphan or was overtaken by one, and an answered probe came from the shell's own,
\* the developer's server or an orphan.
THEOREM Invariance == Spec => []IInv
<1>1. IInv /\ [Next]_vars => IInv'
  BY LaunchStep, CloseStep, HardKillStep, MigrateStep, BindStep, DieStep, DevStep, ReachStep,
     MissStep, OpenStep, RetryStep, FetchStep, StutterStep DEF Next, Boot, Probe
<1> QED
  BY <1>1, Initially, PTL DEF Spec

-----------------------------------------------------------------------------
\* The variables keep their types, and no dead process holds a port.
THEOREM Types == Spec => []TypeOK
<1>1. IInv => TypeOK
  BY DEF IInv, Processes, Probing, Faults, TypeOK
<1> QED
  BY <1>1, Invariance, PTL

\* Every living sidecar is that of the shell that is up, or the orphan of a shell
\* killed hard.
THEOREM SidecarIsSingle == Spec => []OneSidecar
<1>1. IInv => OneSidecar
  BY DEF IInv, Single, OneSidecar, Alive
<1> QED
  BY <1>1, Invariance, PTL

\* The window was opened by the sidecar of its own shell, the developer's server or
\* an orphan, and whoever serves has a file of its own schema unless orphans are in it.
THEOREM WindowIsServed == Spec => []OwnServer
<1>1. IInv => OwnServer
  <2> SUFFICES ASSUME IInv PROVE OwnServer
    OBVIOUS
  <2>1. View = "ready" => status = "success"
    BY DEF View
  <2> QED
    BY <2>1 DEF IInv, Migrated, Fits, Known, OwnServer
<1> QED
  BY <1>1, Invariance, PTL

\* An interface that is shown stays.
THEOREM ReadyIsFinal == Spec => ReadyStays
<1>1. ASSUME IInv, [Next]_vars, View = "ready", shell' = "up"
      PROVE  View' = "ready"
  <2>1. status = "success"
    BY <1>1 DEF View
  <2>2. fetch = "idle" /\ shell = "up"
    BY <1>1, <2>1 DEF IInv, Probing, Processes
  <2>3. status' = status
    BY <1>1, <2>1, <2>2
       DEF Next, vars, gate, Launch, MayStart, Close, HardKill, Boot, Migrate, Bind, Die, DevUp,
           DevDown, Probe, Reach, Miss, Open, Retry, GiveUp, PressRetry, Focus, Stale, View, Fetch
  <2> QED
    BY <2>1, <2>3 DEF View
<1>2. IInv /\ [Next]_vars => [View = "ready" /\ shell' = "up" => View' = "ready"]_vars
  BY <1>1
<1> QED
  BY <1>2, Invariance, PTL DEF Spec, ReadyStays
=============================================================================
