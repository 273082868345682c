------------------------------- MODULE Server -------------------------------
(***************************************************************************)
(* The server process as its requests see it: the handlers, each of which  *)
(* runs some statements one after the other on the pool of connections     *)
(* (db.rs), the layer that ends a request after thirty seconds (api.rs),   *)
(* and the graceful shutdown (main.rs). Which statements, and what they    *)
(* do, is the matter of BlogPosts and TodoItems.                           *)
(*                                                                         *)
(* External: sqlx. A statement takes a connection, or waits in line for    *)
(* one, and gives it back at its end to whoever has waited longest. When   *)
(* the handler is dropped, its place in line is left at once, but a        *)
(* statement that runs goes on in the connection's own thread, which gives *)
(* the connection back when it is done. Nothing says that it ever is: the  *)
(* disk may stall. Also external: hyper drops the handler when its client  *)
(* goes away, and axum's drain waits for every handler.                    *)
(***************************************************************************)
EXTENDS Naturals, FiniteSets, SequencesExt

CONSTANTS
    Requests,
    Pool,      \* max_connections
    Statements \* bound: statements of one handler

ASSUME RequestsAssumption == IsFiniteSet(Requests)
ASSUME PoolAssumption == Pool \in Nat \ {0} /\ Statements \in Nat

VARIABLES
    accepting, \* no signal yet
    ended,     \* main returned
    stage,     \* request -> where it is, or how it ended
    left,      \* request -> statements still to run
    free,      \* connections nobody has
    queue,     \* requests in line for one
    abandoned  \* requests that were dropped while their statement, which runs on, had one

pool == <<free, queue, abandoned>>
vars == <<accepting, ended, stage, left, pool>>

Present == {"ready", "waiting", "running"}
Outcome == {"answered", "failed", "expired", "gone"}
Stage == {"new"} \cup Present \cup Outcome

Init ==
    /\ accepting = TRUE
    /\ ended = FALSE
    /\ stage = [r \in Requests |-> "new"]
    /\ left = [r \in Requests |-> 0]
    /\ free = Pool
    /\ queue = <<>>
    /\ abandoned = {}

-----------------------------------------------------------------------------
(* The pool *)

\* One connection is given back, when the requests are in the stages st.
Back(st) ==
    IF queue = <<>>
      THEN stage' = st /\ free' = free + 1 /\ UNCHANGED queue
      ELSE /\ stage' = [st EXCEPT ![Head(queue)] = "running"]
           /\ queue' = Tail(queue)
           /\ UNCHANGED free

\* r leaves the line, if it is in it.
StepOut(r) ==
    IF stage[r] = "waiting"
      THEN \E i \in 1..Len(queue) : queue[i] = r /\ queue' = RemoveAt(queue, i)
      ELSE UNCHANGED queue

Acquire(r) ==
    /\ stage[r] = "ready"
    /\ left[r] > 0
    /\ IF free > 0
         THEN stage' = [stage EXCEPT ![r] = "running"] /\ free' = free - 1 /\ UNCHANGED queue
         ELSE stage' = [stage EXCEPT ![r] = "waiting"] /\ queue' = Append(queue, r) /\ UNCHANGED free
    /\ UNCHANGED <<accepting, ended, left, abandoned>>

Transaction(r) ==                            \* mutation of Finish: the connection is kept until the last statement
    /\ ~ ended
    /\ stage[r] = "running"
    /\ left' = [left EXCEPT ![r] = @ - 1]
    /\ IF left[r] > 1 THEN stage' = [stage EXCEPT ![r] = "ready"] /\ UNCHANGED <<free, queue>>
                      ELSE Back([stage EXCEPT ![r] = "ready"])
    /\ UNCHANGED <<accepting, ended, abandoned>>
Finish(r) ==
    /\ ~ ended
    /\ stage[r] = "running"
    /\ left' = [left EXCEPT ![r] = @ - 1]
    /\ Back([stage EXCEPT ![r] = "ready"])
    /\ UNCHANGED <<accepting, ended, abandoned>>

\* A statement that ends after its request.
Complete(r) ==
    /\ ~ ended
    /\ r \in abandoned
    /\ abandoned' = abandoned \ {r}
    /\ Back(stage)
    /\ UNCHANGED <<accepting, ended, left>>

-----------------------------------------------------------------------------
(* Requests *)

Take(r) ==
    /\ accepting
    /\ stage[r] = "new"
    /\ stage' = [stage EXCEPT ![r] = "ready"]
    /\ \E n \in 0..Statements : left' = [left EXCEPT ![r] = n]
    /\ UNCHANGED <<accepting, ended, pool>>

Answer(r) ==
    /\ stage[r] = "ready"
    /\ left[r] = 0
    /\ stage' = [stage EXCEPT ![r] = "answered"]
    /\ UNCHANGED <<accepting, ended, left, pool>>

\* The statement fails, or the pool's own limit on waiting is up: AppError's
\* 500, health's 503.
Fail(r) ==
    \/ /\ stage[r] = "running"
       /\ Back([stage EXCEPT ![r] = "failed"])
       /\ UNCHANGED <<accepting, ended, left, abandoned>>
    \/ /\ stage[r] = "waiting"
       /\ stage' = [stage EXCEPT ![r] = "failed"]
       /\ StepOut(r)
       /\ UNCHANGED <<accepting, ended, left, free, abandoned>>

\* What the drop of a handler does to the pool.
Forgotten(r) == UNCHANGED pool               \* mutation of Release: a handler's drop is not noticed
Returned(r) ==                               \* mutation of Release: a place in line counts as a connection
    /\ StepOut(r)
    /\ free' = IF stage[r] = "ready" THEN free ELSE free + 1
    /\ UNCHANGED abandoned
Release(r) ==
    /\ StepOut(r)
    /\ abandoned' = IF stage[r] = "running" THEN abandoned \cup {r} ELSE abandoned
    /\ UNCHANGED free

Drop(r, outcome) ==
    /\ stage' = [stage EXCEPT ![r] = outcome]
    /\ Release(r)
    /\ UNCHANGED <<accepting, ended, left>>

\* The TimeoutLayer, outside of every handler: 408.
InStatement(r) == stage[r] \in {"ready", "running"}  \* mutation of Limited: the wait for a connection is not counted
Limited(r) == stage[r] \in Present
Expire(r) == Limited(r) /\ Drop(r, "expired")

\* The client goes away.
Leave(r) == stage[r] \in Present /\ Drop(r, "gone")

-----------------------------------------------------------------------------
(* Shutdown *)

Signal ==
    /\ accepting
    /\ accepting' = FALSE
    /\ UNCHANGED <<ended, stage, left, pool>>

\* Abandoned statements are not waited for.
Hasty == ~ accepting                         \* mutation of Drained: main returns on the signal
Drained == ~ accepting /\ \A r \in Requests : stage[r] \notin Present
End ==
    /\ Drained
    /\ ~ ended
    /\ ended' = TRUE
    /\ UNCHANGED <<accepting, stage, left, pool>>

Handle(r) == Acquire(r) \/ Answer(r) \/ Fail(r) \/ Expire(r) \/ Leave(r)

Next ==
    \/ Signal \/ End
    \/ \E r \in Requests : Take(r) \/ Handle(r) \/ Finish(r) \/ Complete(r)

Spec == Init /\ [][Next]_vars

\* Timers fire and the drain is noticed; no statement need ever end.
Fairness == WF_vars(End) /\ \A r \in Requests : WF_vars(Expire(r))
FairSpec == Spec /\ Fairness

-----------------------------------------------------------------------------
(* Properties *)

Running == {r \in Requests : stage[r] = "running"}
Waiting == {r \in Requests : stage[r] = "waiting"}

\* Every variable stays in its range; the line holds those who wait, once each.
TypeOK ==
    /\ accepting \in BOOLEAN /\ ended \in BOOLEAN
    /\ stage \in [Requests -> Stage]
    /\ left \in [Requests -> 0..Statements]
    /\ free \in 0..Pool
    /\ queue \in Seq(Requests)
    /\ ToSet(queue) = Waiting /\ IsInjective(queue)
    /\ abandoned \subseteq Requests

\* No connection is lost or counted twice, however many handlers are dropped
\* in the middle: those not free each run a statement (db.rs:24).
NoLeak == free + Cardinality(Running) + Cardinality(abandoned) = Pool

\* A request waits only while every connection runs a statement, never for
\* another request that waits as well: no handler holds one between two
\* statements (the handlers pass the pool, not a connection).
WaitsForWork ==
    queue # <<>> => Cardinality(Running) + Cardinality(abandoned) = Pool

\* What the drain leaves behind when main returns, and may cut in the middle, is
\* nobody's who was answered: the connections not free run statements of requests
\* that were told 408 or whose clients had gone; none is in line (main.rs:53-55, 71-73).
Cut == {"expired", "gone"}
EndsIdle ==
    /\ \A r \in abandoned : stage[r] \in Cut
    /\ ended => queue = <<>> /\ free + Cardinality(abandoned) = Pool

\* With every connection stuck the requests still end, and a shutdown that
\* was begun drains and ends, cutting none short (api.rs:22-23, 86-87;
\* main.rs:71-73). Checked as a refinement of RequestLife, fairness included.
Life == INSTANCE RequestLife WITH
    life <- [r \in Requests |->
               IF stage[r] = "new" THEN "none" ELSE IF stage[r] \in Present THEN "open" ELSE "over"]
KeepsPromise == Life!FairSpec
=============================================================================
