------------------------------ MODULE Desktop ------------------------------
(***************************************************************************)
(* The desktop app: the Tauri shell (desktop/src-tauri/src/main.rs), the   *)
(* server it starts as a sidecar, and the interface in its window, which   *)
(* waits behind StartupGate until /api/health answers.                     *)
(*                                                                         *)
(* Each launch starts one sidecar. A sidecar migrates the database file in *)
(* the app's data directory, then binds its port, and only then serves;    *)
(* if the port is taken it exits. An orderly exit kills it. A hard kill of *)
(* the shell does not, and the orphan keeps the file and the port while    *)
(* the app may be launched again, or a newer build of it. A developer's    *)
(* `cargo run`, on another file, may hold the default port instead.        *)
(*                                                                         *)
(* External: the operating system's ports and processes, the single        *)
(* instance lock (released when the shell is gone), and React Query's      *)
(* fetch with retries: a fetch in flight is joined, and a focused window   *)
(* fetches a query that has no data. The window is visible and the system  *)
(* online: otherwise React Query suspends the probe's retries.             *)
(***************************************************************************)
EXTENDS Naturals, FiniteSets

CONSTANTS
    Launches,   \* bound: the shell is started with sidecars 1..Launches
    Builds,     \* builds of the app that get installed; a build's number is its schema
    Ports,
    Default,    \* 8080
    Override,   \* the port of VITE_API_BASE_URL the interface was built with, or 0
    Retries,    \* MAX_PROBE_RETRIES
    SlowAfter,  \* SLOW_AFTER
    MaxFaults   \* bound: unhealthy answers, failed starts and crashes

Sidecars == 1..Launches
None == 0

ASSUME LaunchAssumption == Launches \in Nat /\ MaxFaults \in Nat
ASSUME BuildAssumption == Builds \subseteq Nat \ {0}
ASSUME PortAssumption == Ports \subseteq Nat \ {0} /\ Default \in Ports /\ Override \in Ports \cup {0}
ASSUME ProbeAssumption == Retries \in Nat /\ SlowAfter \in Nat

VARIABLES
    shell,     \* "off" or "up": the instance that holds the lock
    launched,  \* launches so far
    own,       \* the sidecar it manages, None before the first
    proc,      \* sidecar -> starting, migrated, bound or dead
    build,     \* sidecar -> the build it belongs to, 0 before it is started
    asked,     \* sidecar -> the PORT it was given
    schema,    \* the schema of the app's database file
    owner,     \* port -> the process bound to it: a sidecar, "dev", or None
    orphans,   \* (history) sidecars whose shell was killed while they lived
    fetch,     \* the probe's fetch: idle, sent, or the outcome under way
    status,    \* of the probe's query: pending, error, success
    failures,  \* its failureCount
    responder, \* (history) the process whose answer opened the gate
    faults

processes == <<proc, build, asked, schema, owner>>
gate == <<fetch, status, failures, responder>>
vars == <<shell, launched, own, processes, orphans, gate, faults>>

Alive(p) == proc[p] \in {"starting", "migrated", "bound"}

\* client.ts: the override, else the sidecar's address, for this is the shell.
ApiPort == IF Override # 0 THEN Override ELSE Default

\* startupView.
NoFailure ==                          \* mutation of View: a settled error is not told apart
    IF status = "success" THEN "ready"
    ELSE IF failures > SlowAfter THEN "slow" ELSE "starting"
View ==
    IF status = "success" THEN "ready"
    ELSE IF status = "error" /\ fetch = "idle" THEN "failed"
    ELSE IF failures > SlowAfter THEN "slow" ELSE "starting"

Init ==
    /\ shell = "off"
    /\ launched = 0
    /\ own = None
    /\ proc = [p \in Sidecars |-> "dead"]
    /\ build = [p \in Sidecars |-> 0]
    /\ asked = [p \in Sidecars |-> Default]
    /\ schema = 0
    /\ owner = [n \in Ports |-> None]
    /\ orphans = {}
    /\ fetch = "idle"
    /\ status = "pending"
    /\ failures = 0
    /\ responder = None
    /\ faults = 0

-----------------------------------------------------------------------------
(* The shell *)

\* The single-instance plugin, before anything of setup runs.
Unguarded == TRUE                     \* mutation of MayStart: registered later
MayStart == shell = "off"

\* The query mounts anew with the window.
Mounted == fetch' = "sent" /\ status' = "pending" /\ failures' = 0 /\ responder' = None

\* setup: the sidecar is spawned, the window loads the interface.
Launch(b, n) ==
    /\ MayStart
    /\ launched < Launches
    /\ LET p == launched + 1
       IN  /\ launched' = p
           /\ own' = p
           /\ proc' = [proc EXCEPT ![p] = "starting"]
           /\ build' = [build EXCEPT ![p] = b]
           /\ asked' = [asked EXCEPT ![p] = n]
    /\ shell' = "up"
    /\ Mounted
    /\ UNCHANGED <<schema, owner, orphans, faults>>

\* The port is free again.
Released(p) == [n \in Ports |-> IF owner[n] = p THEN None ELSE owner[n]]

Unmounted == fetch' = "idle" /\ status' = "pending" /\ failures' = 0 /\ responder' = None

\* RunEvent::Exit: the child is killed.
KillChild ==
    /\ proc' = [proc EXCEPT ![own] = "dead"]
    /\ owner' = Released(own)
LeaveChild == UNCHANGED <<proc, owner>>     \* mutation of OnExit: the child is only dropped
OnExit == KillChild

\* The main window is asked to close.
Close ==
    /\ shell = "up"
    /\ shell' = "off"
    /\ OnExit
    /\ Unmounted
    /\ UNCHANGED <<launched, own, build, asked, schema, orphans, faults>>

\* Killed, crashed or logged off: no Exit event.
HardKill ==
    /\ shell = "up"
    /\ shell' = "off"
    /\ orphans' = orphans \cup {p \in {own} : Alive(p)}
    /\ Unmounted
    /\ UNCHANGED <<launched, own, processes, faults>>

-----------------------------------------------------------------------------
(* A sidecar: main.rs of the server, in outline (Startup has the detail) *)

\* An older build is refused by a newer file.
Migrate(p) ==
    /\ proc[p] = "starting"
    /\ IF schema > build[p]
         THEN proc' = [proc EXCEPT ![p] = "dead"] /\ UNCHANGED schema
         ELSE proc' = [proc EXCEPT ![p] = "migrated"] /\ schema' = build[p]
    /\ UNCHANGED <<shell, launched, own, build, asked, owner, orphans, gate, faults>>

Bind(p) ==
    /\ proc[p] = "migrated"
    /\ IF owner[asked[p]] # None
         THEN proc' = [proc EXCEPT ![p] = "dead"] /\ UNCHANGED owner
         ELSE /\ proc' = [proc EXCEPT ![p] = "bound"]
              /\ owner' = [owner EXCEPT ![asked[p]] = p]
    /\ UNCHANGED <<shell, launched, own, build, asked, schema, orphans, gate, faults>>

\* A failing migration, a panic, a crash.
Die(p) ==
    /\ Alive(p)
    /\ faults < MaxFaults
    /\ faults' = faults + 1
    /\ proc' = [proc EXCEPT ![p] = "dead"]
    /\ owner' = Released(p)
    /\ UNCHANGED <<shell, launched, own, build, asked, schema, orphans, gate>>

\* `cargo run` comes and goes.
Dev == Launches + 1
DevUp ==
    /\ owner[Default] = None
    /\ owner' = [owner EXCEPT ![Default] = Dev]
    /\ UNCHANGED <<shell, launched, own, proc, build, asked, schema, orphans, gate, faults>>
DevDown ==
    /\ owner[Default] = Dev
    /\ owner' = [owner EXCEPT ![Default] = None]
    /\ UNCHANGED <<shell, launched, own, proc, build, asked, schema, orphans, gate, faults>>

-----------------------------------------------------------------------------
(* The gate *)

\* The probe reaches a healthy server, whichever it is.
Reach ==
    /\ fetch = "sent"
    /\ owner[ApiPort] # None
    /\ fetch' = "ok"
    /\ responder' = owner[ApiPort]
    /\ UNCHANGED <<shell, launched, own, processes, orphans, status, failures, faults>>

\* Nobody listens; or the answer is a 503, is lost, or is the TimeoutLayer's 408,
\* whose empty body makes neither an error nor data.
Miss ==
    /\ fetch = "sent"
    /\ \/ /\ owner[ApiPort] = None
          /\ fetch' = "error"
          /\ UNCHANGED faults
       \/ /\ owner[ApiPort] # None
          /\ faults < MaxFaults
          /\ faults' = faults + 1
          /\ fetch' \in {"error", "empty"}
    /\ UNCHANGED <<shell, launched, own, processes, orphans, status, failures, responder>>

Open ==
    /\ fetch = "ok"
    /\ fetch' = "idle"
    /\ status' = "success"
    /\ failures' = 0
    /\ UNCHANGED <<shell, launched, own, processes, orphans, responder, faults>>

\* retry: (failureCount) => failureCount < MAX_PROBE_RETRIES.
OneMore == failures <= Retries        \* mutation of MayRetry
MayRetry == failures < Retries

Retry ==
    /\ fetch = "error"
    /\ MayRetry
    /\ fetch' = "sent"
    /\ failures' = failures + 1
    /\ UNCHANGED <<shell, launched, own, processes, orphans, status, responder, faults>>

\* React Query takes undefined data for an error that it does not retry.
GiveUp ==
    /\ fetch = "empty" \/ (fetch = "error" /\ ~ MayRetry)
    /\ fetch' = "idle"
    /\ status' = "error"
    /\ failures' = failures + 1
    /\ UNCHANGED <<shell, launched, own, processes, orphans, responder, faults>>

\* staleTime: Infinity: data is never fetched again.
ZeroStaleTime == TRUE                 \* mutation of Stale
Stale == status # "success"

\* A fetch begins; without data the query is pending again.
ResetOnly == fetch' = "idle"          \* mutation of Refetch: the state is reset, nothing is sent
Refetch == fetch' = "sent"
Fetch ==
    /\ fetch = "idle"
    /\ Refetch
    /\ failures' = 0
    /\ status' = IF status = "success" THEN "success" ELSE "pending"
    /\ UNCHANGED <<shell, launched, own, processes, orphans, responder, faults>>

PressRetry == shell = "up" /\ View = "failed" /\ Fetch

\* The window gets the focus: the user's, or a second launch that the
\* single-instance plugin turns into show, unminimize and set_focus.
Focus == shell = "up" /\ Stale /\ Fetch

-----------------------------------------------------------------------------

Probe == Reach \/ Miss \/ Open \/ Retry \/ GiveUp
Boot(p) == Migrate(p) \/ Bind(p)

Next ==
    \/ \E b \in Builds, n \in Ports : Launch(b, n)
    \/ Close
    \/ HardKill
    \/ \E p \in Sidecars : Boot(p) \/ Die(p)
    \/ DevUp
    \/ DevDown
    \/ Probe
    \/ PressRetry
    \/ Focus

Spec == Init /\ [][Next]_vars

\* Started processes run on; requests and timers of the probe end. Users and
\* developers need do nothing.
Fairness == WF_vars(Probe) /\ \A p \in Sidecars : WF_vars(Boot(p))
FairSpec == Spec /\ Fairness

-----------------------------------------------------------------------------
(* Properties *)

\* Every variable stays in its range; a process that is dead holds no port.
TypeOK ==
    /\ shell \in {"off", "up"}
    /\ launched \in 0..Launches
    /\ own \in 0..launched
    /\ proc \in [Sidecars -> {"starting", "migrated", "bound", "dead"}]
    /\ build \in [Sidecars -> Builds \cup {0}]
    /\ asked \in [Sidecars -> Ports]
    /\ schema \in Builds \cup {0}
    /\ owner \in [Ports -> 0..Launches + 1]
    /\ orphans \subseteq Sidecars
    /\ fetch \in {"idle", "sent", "ok", "error", "empty"}
    /\ status \in {"pending", "error", "success"}
    /\ failures \in 0..Retries + 1
    /\ responder \in 0..Launches + 1
    /\ faults \in 0..MaxFaults
    /\ \A n \in Ports : owner[n] \in Sidecars => proc[owner[n]] = "bound"

\* A living sidecar is that of the shell that is up, or was left by a shell killed
\* hard: a second launch never starts another, and none outlives a shell that
\* ended in order (main.rs:13-14, "killed on exit"), orphans about or not.
OneSidecar ==
    \A p \in Sidecars : Alive(p) => (shell = "up" /\ p = own) \/ p \in orphans

\* An open window was let in by its own sidecar, a developer's server or an orphan,
\* never by what an orderly launch left; and whoever serves does so on a file of its
\* own schema, unless it is an orphan or an orphan migrated the file under it: across
\* installs, kills, failed starts and races for the port.
OwnServer ==
    /\ View = "ready" => responder \in {own, Dev} \cup orphans
    /\ \A p \in Sidecars : proc[p] = "bound" =>
          build[p] = schema \/ p \in orphans \/ (\E q \in orphans : build[q] = schema)

\* Once the interface is shown, the gate does not take it away again, however
\* the server fares (StartupGate's staleTime).
ReadyStays == [][View = "ready" /\ shell' = "up" => View' = "ready"]_vars

\* "so a permanently-failed backend surfaces a terminal error instead of an
\* endless spinner" (StartupGate.tsx:8-9).
NoEndlessSplash ==
    (shell = "up" /\ View \in {"starting", "slow"})
        ~> (View \in {"ready", "failed"} \/ shell = "off")

\* A server that came up late is found by the window that stays open, if only the
\* user does not leave the failure screen standing: Retry or a focused window is
\* enough.
RetryFinds ==
    (<>[](shell = "up" /\ owner[ApiPort] # None) /\ []<>(View # "failed"))
        => <>[](View = "ready")
=============================================================================
