---------------------------- MODULE Pages_proofs ----------------------------
(***************************************************************************)
(* Proofs about Pages for any filters, mutations, retries, versions and    *)
(* faults.                                                                 *)
(*                                                                         *)
(* Freshness is carried through a fetch: a write acknowledged before the   *)
(* fetch began is part of the version its answer carries, so it is part of *)
(* what the entry holds when the answer is in; one acknowledged during the *)
(* fetch either replaced the fetch or left its mark on the entry. What the *)
(* list shows rests on two facts more: an entry on screen without data and *)
(* without a fetch has failed, and data, once there, stays. Core is what   *)
(* the steps preserve; the rows that stand in for a list follow from it,   *)
(* for every step ends in Memoize.                                         *)
(***************************************************************************)
EXTENDS Pages, TLAPS

Shapes ==
    /\ route \in Routes /\ filter \in Filters
    /\ flight \in [Keys -> FlightState]
    /\ stage \in [Mutations -> Stage]
    /\ scope \in [Mutations -> Resources \cup {""}]
    /\ \A m \in Mutations : stage[m] # "unused" => scope[m] \in Resources

Versions ==
    /\ version \in [Resources -> Nat]
    /\ data \in [Keys -> Nat] /\ carried \in [Keys -> Nat] /\ wrote \in [Mutations -> Nat]
    /\ \A s \in Resources : version[s] # 0
    /\ \A k \in Keys : data[k] <= version[Scope(k)] /\ carried[k] <= version[Scope(k)]
    /\ \A k \in Keys : flight[k] = "ok" => carried[k] # 0
    /\ \A m \in Mutations :
          /\ stage[m] = "unused" => wrote[m] = 0
          /\ stage[m] # "unused" => wrote[m] <= version[scope[m]]

Repeats == tries \in [Keys -> 0..Retries]
Flags == failed \in [Keys -> BOOLEAN] /\ overtaken \in [Keys -> BOOLEAN]
Faults == faults \in 0..MaxFaults

\* The version n has the write of m.
Has(n, m) == n >= wrote[m]

Current ==
    \A m \in Mutations, k \in Keys :
        stage[m] = "done" /\ Scope(k) = scope[m] /\ ~ overtaken[k] =>
            /\ flight[k] = "ok" => Has(carried[k], m)
            /\ k \in Observed /\ flight[k] = "idle" /\ ~ failed[k] => Has(data[k], m)

Answered == \A k \in Observed : flight[k] = "idle" /\ data[k] = 0 => failed[k]

Held == last # "" => last \in Filters /\ ListKey(last) \in Keys /\ data[ListKey(last)] # 0

Core == Shapes /\ Versions /\ Repeats /\ Flags /\ Faults /\ Current /\ Answered /\ Held

Nets == net \in {"on", "off", "back"}

\* The posts that stand in for a list are some version the server has had.
Standing ==
    /\ kept \in Nat
    /\ Kept => kept # 0
    /\ kept # 0 => "blog" \in Resources /\ kept <= version["blog"]

IInv == Core /\ Nets /\ Standing

-----------------------------------------------------------------------------
\* The keys on screen are keys; the list's is one of them.
LEMMA OnScreenKeys ==
    ASSUME NEW r \in Routes, NEW f \in Filters
    PROVE  /\ OnScreen(r, f) \subseteq Keys
           /\ r = "/blog" => ListKey(f) \in OnScreen(r, f)
<1>1. OnScreen(r, f) \subseteq Keys
  BY DEF Keys
<1> QED
  BY <1>1 DEF OnScreen

LEMMA ListedKey == Shapes => Listed \in Observed /\ Observed \subseteq Keys
<1> SUFFICES ASSUME Shapes PROVE Listed \in Observed /\ Observed \subseteq Keys
  OBVIOUS
<1>1. Observed \subseteq Keys
  BY OnScreenKeys DEF Shapes, Observed
<1>2. route \in {"/", "/blog", "/todo"}
  BY RoutesAssumption DEF Shapes, PageRoutes
<1>3. Listed \in Observed
  BY <1>2 DEF Listed, Observed, OnScreen
<1> QED
  BY <1>1, <1>3

LEMMA ScopeResource == \A k \in Keys : Scope(k) \in Resources
BY DEF Resources

\* An empty cache on any page satisfies the invariant.
THEOREM Initially == Init => IInv
<1> SUFFICES ASSUME Init PROVE IInv
  OBVIOUS
<1>1. Shapes
  BY FiltersAssumption DEF Init, Shapes, FlightState, Stage
<1>2. Versions
  <2>1. /\ \A s \in Resources : version[s] = 1
        /\ \A k \in Keys : data[k] = 0 /\ carried[k] = 0 /\ flight[k] # "ok"
        /\ \A m \in Mutations : stage[m] = "unused" /\ wrote[m] = 0
    BY DEF Init
  <2>2. /\ version \in [Resources -> Nat]
        /\ data \in [Keys -> Nat] /\ carried \in [Keys -> Nat] /\ wrote \in [Mutations -> Nat]
    BY DEF Init
  <2> QED
    BY <2>1, <2>2, ScopeResource DEF Versions
<1>3. Repeats
  <2>1. 0 \in 0..Retries
    BY BoundAssumption
  <2> QED
    BY <2>1 DEF Init, Repeats
<1>4. Flags
  BY DEF Init, Flags
<1>5. Faults
  <2>1. faults = 0
    BY DEF Init
  <2> QED
    BY <2>1, BoundAssumption DEF Faults
<1>6. Current
  BY DEF Init, Current
<1>7. Answered
  BY <1>1, ListedKey DEF Init, Answered
<1>8. Held
  BY DEF Init, Held
<1>9. Nets /\ Standing
  BY DEF Init, Nets, Standing, Kept
<1> QED
  BY <1>1, <1>2, <1>3, <1>4, <1>5, <1>6, <1>7, <1>8, <1>9 DEF IInv, Core

-----------------------------------------------------------------------------
(* Calls: the cache and the screen stay, and no call becomes "done". *)

LEMMA CallsStep ==
    ASSUME Core, Shapes', Versions', Faults', UNCHANGED <<cache, screen>>,
           \A m \in Mutations : stage'[m] = "done" =>
              stage[m] = "done" /\ scope'[m] = scope[m] /\ wrote'[m] = wrote[m]
    PROVE  Core'
<1>1. Repeats' /\ Flags'
  BY DEF cache, Core, Repeats, Flags
<1>2. Current'
  BY DEF cache, screen, Core, Current, Has, Observed
<1>3. Answered' /\ Held'
  BY DEF cache, screen, Core, Answered, Held, Observed
<1> QED
  BY <1>1, <1>2, <1>3 DEF Core

LEMMA MutateStep ==
    ASSUME Core, NEW m \in Mutations, NEW s \in Resources, Mutate(m, s)
    PROVE  Core'
<1>1. /\ stage[m] = "unused"
      /\ stage' = [stage EXCEPT ![m] = Sending] /\ scope' = [scope EXCEPT ![m] = s]
      /\ UNCHANGED <<outside, cache, screen, wrote>>
  BY DEF Mutate
<1> DEFINE a == Sending
<1>0. a \in {"sent", "paused"}
  BY DEF Sending
<1> HIDE DEF a
<1>2. Shapes'
  BY <1>0, <1>1 DEF a, cache, screen, Core, Shapes, Stage
<1>3. Versions'
  <2>1. /\ UNCHANGED <<version, data, carried, wrote, flight>>
        /\ \A n \in Mutations : n # m => stage'[n] = stage[n] /\ scope'[n] = scope[n]
        /\ stage'[m] \in {"sent", "paused"} /\ scope'[m] = s /\ wrote[m] = 0
    BY <1>0, <1>1 DEF a, outside, cache, Core, Shapes, Versions
  <2>2. \A n \in Mutations : stage'[n] # "unused" => wrote[n] <= version[scope'[n]]
    BY <2>1 DEF Core, Versions
  <2> QED
    BY <2>1, <2>2 DEF Core, Versions
<1>4. \A n \in Mutations : stage'[n] = "done" =>
         stage[n] = "done" /\ scope'[n] = scope[n] /\ wrote'[n] = wrote[n]
  BY <1>0, <1>1 DEF a, Core, Shapes
<1>5. Faults'
  BY <1>1 DEF outside, Core, Faults
<1> QED
  BY <1>1, <1>2, <1>3, <1>4, <1>5, CallsStep

\* One more write to s: nothing anyone holds is newer.
LEMMA Written ==
    ASSUME Core, NEW s \in Resources, Write(s)
    PROVE  /\ version' \in [Resources -> Nat]
           /\ version'[s] = version[s] + 1
           /\ \A t \in Resources : version'[t] # 0 /\ version[t] <= version'[t]
BY DEF Write, Core, Versions

LEMMA WriteKeeps ==
    ASSUME Core, NEW s \in Resources, Write(s),
           UNCHANGED <<data, carried, flight>>,
           scope' = scope, wrote' \in [Mutations -> Nat],
           \A m \in Mutations :
              /\ stage'[m] = "unused" <=> stage[m] = "unused"
              /\ wrote'[m] = wrote[m] \/ (stage[m] # "unused" /\ scope[m] = s /\ wrote'[m] = version[s] + 1)
    PROVE  Versions'
<1>1. /\ version' \in [Resources -> Nat]
      /\ version'[s] = version[s] + 1
      /\ \A t \in Resources : version'[t] \in Nat /\ version'[t] # 0 /\ version[t] <= version'[t]
  BY Written
<1>2. \A k \in Keys : data[k] <= version'[Scope(k)] /\ carried[k] <= version'[Scope(k)]
  <2> TAKE k \in Keys
  <2>1. /\ data[k] \in Nat /\ carried[k] \in Nat /\ version[Scope(k)] \in Nat
        /\ data[k] <= version[Scope(k)] /\ carried[k] <= version[Scope(k)]
        /\ version'[Scope(k)] \in Nat /\ version[Scope(k)] <= version'[Scope(k)]
    BY <1>1, ScopeResource DEF Core, Versions
  <2> QED
    BY <2>1
<1>3. \A m \in Mutations :
         /\ stage'[m] = "unused" => wrote'[m] = 0
         /\ stage'[m] # "unused" => wrote'[m] <= version'[scope[m]]
  <2> TAKE m \in Mutations
  <2>1. CASE wrote'[m] = wrote[m]
    <3>1. /\ wrote[m] \in Nat
          /\ stage[m] # "unused" =>
                /\ scope[m] \in Resources /\ version[scope[m]] \in Nat
                /\ wrote[m] <= version[scope[m]]
                /\ version'[scope[m]] \in Nat /\ version[scope[m]] <= version'[scope[m]]
          /\ stage[m] = "unused" => wrote[m] = 0
      BY <1>1 DEF Core, Shapes, Versions
    <3> QED
      BY <2>1, <3>1
  <2>2. CASE stage[m] # "unused" /\ scope[m] = s /\ wrote'[m] = version[s] + 1
    BY <1>1, <2>2
  <2> QED
    BY <2>1, <2>2
<1> QED
  BY <1>1, <1>2, <1>3 DEF Core, Versions

LEMMA ApplyStep ==
    ASSUME Core, NEW m \in Mutations, Apply(m)
    PROVE  Core'
<1>1. /\ stage[m] = "sent" /\ Write(scope[m])
      /\ wrote' = [wrote EXCEPT ![m] = version[scope[m]] + 1]
      /\ stage' = [stage EXCEPT ![m] = "applied"]
      /\ UNCHANGED <<faults, cache, screen, scope>>
  BY DEF Apply
<1>2. scope[m] \in Resources
  BY <1>1 DEF Core, Shapes
<1>3. /\ wrote' \in [Mutations -> Nat]
      /\ wrote'[m] = version[scope[m]] + 1
      /\ \A n \in Mutations : n # m => wrote'[n] = wrote[n]
  BY <1>1, <1>2 DEF Core, Versions
<1>4. /\ stage'[m] = "applied"
      /\ \A n \in Mutations : n # m => stage'[n] = stage[n]
  BY <1>1 DEF Core, Shapes
<1>5. Shapes'
  BY <1>1, <1>2 DEF cache, screen, Core, Shapes, Stage
<1>6. Versions'
  <2>1. UNCHANGED <<data, carried, flight>> /\ scope' = scope
    BY <1>1 DEF cache
  <2>2. \A n \in Mutations :
           /\ stage'[n] = "unused" <=> stage[n] = "unused"
           /\ wrote'[n] = wrote[n] \/
                 (stage[n] # "unused" /\ scope[n] = scope[m] /\ wrote'[n] = version[scope[m]] + 1)
    BY <1>1, <1>3, <1>4
  <2> QED
    BY <1>1, <1>2, <1>3, <2>1, <2>2, WriteKeeps
<1>7. Faults'
  BY <1>1 DEF Core, Faults
<1>8. \A n \in Mutations : stage'[n] = "done" =>
         stage[n] = "done" /\ scope'[n] = scope[n] /\ wrote'[n] = wrote[n]
  BY <1>1, <1>3, <1>4
<1> QED
  BY <1>1, <1>5, <1>6, <1>7, <1>8, CallsStep

LEMMA ElsewhereStep ==
    ASSUME Core, NEW s \in Resources, Elsewhere(s)
    PROVE  Core'
<1>1. Write(s) /\ UNCHANGED <<faults, cache, screen, calls>>
  BY DEF Elsewhere
<1>2. /\ UNCHANGED <<data, carried, flight, stage, scope, wrote, faults>>
      /\ wrote \in [Mutations -> Nat]
  BY <1>1 DEF cache, calls, Core, Versions
<1>3. Versions'
  BY <1>1, <1>2, WriteKeeps
<1>4. Shapes' /\ Faults'
  BY <1>1, <1>2 DEF screen, Core, Shapes, Faults
<1> QED
  BY <1>1, <1>2, <1>3, <1>4, CallsStep

\* Refuse, Disturb, Fail: the call alone moves.
LEMMA OutcomeStep ==
    ASSUME Core, NEW m \in Mutations, Refuse(m) \/ Disturb(m) \/ Fail(m)
    PROVE  Core'
<1>1. /\ stage[m] # "unused"
      /\ \E a \in {"refused", "empty", "failed"} : stage' = [stage EXCEPT ![m] = a]
      /\ UNCHANGED <<version, cache, screen, scope, wrote>>
  BY DEF Refuse, Disturb, Fail, outside
<1>2. faults' = faults \/ (faults < MaxFaults /\ faults' = faults + 1)
  BY DEF Refuse, Disturb, Fail, outside
<1>3. Faults'
  BY <1>2, BoundAssumption DEF Core, Faults
<1>4. /\ stage'[m] \in {"refused", "empty", "failed"}
      /\ \A n \in Mutations : n # m => stage'[n] = stage[n]
      /\ stage' \in [Mutations -> Stage]
  BY <1>1 DEF Core, Shapes, Stage
<1>5. Shapes'
  BY <1>1, <1>4 DEF cache, screen, Core, Shapes
<1>6. Versions'
  <2>1. UNCHANGED <<version, data, carried, flight, scope, wrote>>
    BY <1>1 DEF cache
  <2>2. \A n \in Mutations : stage'[n] = "unused" <=> stage[n] = "unused"
    BY <1>1, <1>4
  <2> QED
    BY <2>1, <2>2 DEF Core, Versions
<1>7. \A n \in Mutations : stage'[n] = "done" =>
         stage[n] = "done" /\ scope'[n] = scope[n] /\ wrote'[n] = wrote[n]
  BY <1>1, <1>4
<1> QED
  BY <1>1, <1>3, <1>5, <1>6, <1>7, CallsStep

-----------------------------------------------------------------------------
(* One entry's fetch *)

\* The list's filter is remembered once it has data, which stays.
LEMMA TrackStep ==
    ASSUME Core, Track, route' \in Routes, filter' \in Filters,
           \A k \in Keys : data[k] # 0 => data'[k] # 0
    PROVE  Held'
<1>1. CASE route' = "/blog" /\ data'[ListKey(filter')] # 0
  <2>1. last' = filter' /\ ListKey(filter') \in Keys
    BY <1>1, OnScreenKeys DEF Track
  <2> QED
    BY <1>1, <2>1 DEF Held
<1>2. CASE ~ (route' = "/blog" /\ data'[ListKey(filter')] # 0)
  <2>1. last' = last \/ last' = ""
    BY <1>2 DEF Track
  <2> QED
    BY <2>1 DEF Core, Held
<1> QED
  BY <1>1, <1>2

\* A fetch ends in the answer it carries or in a failure.
LEMMA EntryStep ==
    ASSUME Core, NEW k \in Keys, Versions', Repeats', Faults', Held',
           flight' \in [Keys -> FlightState], failed' \in [Keys -> BOOLEAN],
           UNCHANGED <<version, overtaken, route, filter, calls>>,
           \A j \in Keys : j # k =>
              flight'[j] = flight[j] /\ carried'[j] = carried[j] /\ data'[j] = data[j]
              /\ failed'[j] = failed[j],
           flight'[k] = "ok" => carried'[k] = version[Scope(k)],
           flight'[k] = "idle" => failed'[k] \/ (flight[k] = "ok" /\ data'[k] = carried[k])
    PROVE  Core'
<1>1. UNCHANGED <<stage, scope, wrote>> /\ Observed' = Observed
  BY DEF calls, Observed
<1>2. Shapes'
  BY <1>1 DEF Core, Shapes
<1>3. Flags'
  BY DEF Core, Flags
<1>4. Current'
  <2> SUFFICES ASSUME NEW m \in Mutations, NEW j \in Keys,
                      stage[m] = "done", Scope(j) = scope[m], ~ overtaken[j]
               PROVE  /\ flight'[j] = "ok" => Has(carried'[j], m)
                      /\ j \in Observed /\ flight'[j] = "idle" /\ ~ failed'[j] => Has(data'[j], m)
    BY <1>1 DEF Current, Has
  <2>1. CASE j # k
    BY <2>1 DEF Core, Current
  <2>2. CASE j = k
    <3>1. Has(version[Scope(k)], m)
      BY <2>2 DEF Core, Versions, Has
    <3>2. flight[k] = "ok" => Has(carried[k], m)
      BY <2>2 DEF Core, Current
    <3> QED
      BY <2>2, <3>1, <3>2
  <2> QED
    BY <2>1, <2>2
<1>5. Answered'
  <2> SUFFICES ASSUME NEW j \in Observed, flight'[j] = "idle", data'[j] = 0
               PROVE  failed'[j]
    BY <1>1 DEF Answered
  <2>1. j \in Keys
    BY ListedKey DEF Core
  <2>2. flight[j] = "ok" => carried[j] # 0
    BY <2>1 DEF Core, Versions
  <2> QED
    BY <2>1, <2>2 DEF Core, Answered
<1> QED
  BY <1>2, <1>3, <1>4, <1>5 DEF Core

LEMMA ReadStep ==
    ASSUME Core, NEW k \in Keys, Read(k)
    PROVE  Core'
<1>1. /\ flight' = [flight EXCEPT ![k] = "ok"]
      /\ carried' = [carried EXCEPT ![k] = version[Scope(k)]]
      /\ UNCHANGED <<version, data, tries, failed, overtaken, faults, route, filter, last, calls>>
  BY DEF Read, outside, screen
<1>2. /\ flight' \in [Keys -> FlightState] /\ flight'[k] = "ok"
      /\ \A j \in Keys : j # k => flight'[j] = flight[j]
  BY <1>1 DEF Core, Shapes, FlightState
<1>3. /\ version[Scope(k)] \in Nat /\ version[Scope(k)] # 0
      /\ carried' \in [Keys -> Nat] /\ carried'[k] = version[Scope(k)]
      /\ \A j \in Keys : j # k => carried'[j] = carried[j]
  BY <1>1, ScopeResource DEF Core, Versions
<1>4. Versions'
  <2>1. \A j \in Keys : carried'[j] <= version[Scope(j)]
    BY <1>3 DEF Core, Versions
  <2>2. \A j \in Keys : flight'[j] = "ok" => carried'[j] # 0
    BY <1>2, <1>3 DEF Core, Versions
  <2>3. UNCHANGED <<stage, scope, wrote>>
    BY <1>1 DEF calls
  <2> QED
    BY <1>1, <1>3, <2>1, <2>2, <2>3 DEF Core, Versions
<1>5. Repeats' /\ Faults' /\ Held'
  BY <1>1 DEF Core, Repeats, Faults, Held
<1>6. failed' \in [Keys -> BOOLEAN]
  BY <1>1 DEF Core, Flags
<1> QED
  BY <1>1, <1>2, <1>3, <1>4, <1>5, <1>6, EntryStep

\* ReadFails, Retry, GiveUp: no version moves.
LEMMA FailureKeepsVersions ==
    ASSUME Core, NEW k \in Keys, NEW a \in FlightState \ {"ok"},
           flight' = [flight EXCEPT ![k] = a], UNCHANGED <<version, data, carried, calls>>
    PROVE  /\ Versions'
           /\ flight' \in [Keys -> FlightState] /\ flight'[k] = a
           /\ \A j \in Keys : j # k => flight'[j] = flight[j]
<1>1. /\ flight' \in [Keys -> FlightState] /\ flight'[k] = a
      /\ \A j \in Keys : j # k => flight'[j] = flight[j]
  BY DEF Core, Shapes
<1>2. UNCHANGED <<stage, scope, wrote>>
  BY DEF calls
<1>3. \A j \in Keys : flight'[j] = "ok" => carried[j] # 0
  BY <1>1 DEF Core, Versions
<1> QED
  BY <1>1, <1>2, <1>3 DEF Core, Versions

LEMMA ReadFailsStep ==
    ASSUME Core, NEW k \in Keys, ReadFails(k)
    PROVE  Core'
<1>1. PICK a \in {"error", "empty"} : flight' = [flight EXCEPT ![k] = a]
  BY DEF ReadFails
<1>2. /\ faults < MaxFaults /\ faults' = faults + 1
      /\ UNCHANGED <<version, data, carried, tries, failed, overtaken, route, filter, last, calls>>
  BY DEF ReadFails, screen
<1>3. a \in FlightState \ {"ok"} /\ a # "idle"
  BY DEF FlightState
<1>4. /\ Versions'
      /\ flight' \in [Keys -> FlightState] /\ flight'[k] = a
      /\ \A j \in Keys : j # k => flight'[j] = flight[j]
  BY <1>1, <1>2, <1>3, FailureKeepsVersions
<1>5. Faults'
  BY <1>2, BoundAssumption DEF Core, Faults
<1>6. Repeats' /\ Held' /\ failed' \in [Keys -> BOOLEAN]
  BY <1>2 DEF Core, Repeats, Held, Flags
<1> QED
  BY <1>2, <1>3, <1>4, <1>5, <1>6, EntryStep

LEMMA RetryStep ==
    ASSUME Core, NEW k \in Keys, Retry(k)
    PROVE  Core'
<1>1. /\ flight' = [flight EXCEPT ![k] = Sending]
      /\ tries[k] < Retries /\ tries' = [tries EXCEPT ![k] = tries[k] + 1]
      /\ UNCHANGED <<version, data, carried, failed, overtaken, faults, route, filter, last, calls>>
  BY DEF Retry, WillRetry, outside, screen
<1>2. Sending \in FlightState \ {"ok"} /\ Sending # "idle"
  BY DEF FlightState, Sending
<1>3. /\ Versions'
      /\ flight' \in [Keys -> FlightState] /\ flight'[k] = Sending
      /\ \A j \in Keys : j # k => flight'[j] = flight[j]
  BY <1>1, <1>2, FailureKeepsVersions
<1>4. Repeats'
  <2>1. tries[k] + 1 \in 0..Retries
    BY <1>1, BoundAssumption DEF Core, Repeats
  <2> QED
    BY <1>1, <2>1 DEF Core, Repeats
<1>5. Faults' /\ Held' /\ failed' \in [Keys -> BOOLEAN]
  BY <1>1 DEF Core, Faults, Held, Flags
<1> QED
  BY <1>1, <1>2, <1>3, <1>4, <1>5, EntryStep

LEMMA ZeroTries ==
    ASSUME Core, NEW k \in Keys, tries' = [tries EXCEPT ![k] = 0]
    PROVE  Repeats'
<1>1. 0 \in 0..Retries
  BY BoundAssumption
<1> QED
  BY <1>1 DEF Core, Repeats

LEMMA GiveUpStep ==
    ASSUME Core, NEW k \in Keys, GiveUp(k)
    PROVE  Core'
<1>1. /\ flight' = [flight EXCEPT ![k] = "idle"] /\ failed' = [failed EXCEPT ![k] = TRUE]
      /\ tries' = [tries EXCEPT ![k] = 0]
      /\ UNCHANGED <<version, data, carried, overtaken, faults, route, filter, last, calls>>
  BY DEF GiveUp, outside, screen
<1>2. "idle" \in FlightState \ {"ok"}
  BY DEF FlightState
<1>3. /\ Versions'
      /\ flight' \in [Keys -> FlightState] /\ flight'[k] = "idle"
      /\ \A j \in Keys : j # k => flight'[j] = flight[j]
  BY <1>1, <1>2, FailureKeepsVersions
<1>4. /\ failed' \in [Keys -> BOOLEAN] /\ failed'[k]
      /\ \A j \in Keys : j # k => failed'[j] = failed[j]
  BY <1>1 DEF Core, Flags
<1>5. Repeats' /\ Faults' /\ Held'
  BY <1>1, ZeroTries DEF Core, Faults, Held
<1> QED
  BY <1>1, <1>3, <1>4, <1>5, EntryStep

LEMMA ReceiveStep ==
    ASSUME Core, NEW k \in Keys, Receive(k)
    PROVE  Core'
<1>1. /\ flight[k] = "ok" /\ flight' = [flight EXCEPT ![k] = "idle"]
      /\ data' = [data EXCEPT ![k] = carried[k]]
      /\ carried' = [carried EXCEPT ![k] = 0] /\ tries' = [tries EXCEPT ![k] = 0]
      /\ failed' = [failed EXCEPT ![k] = FALSE]
      /\ UNCHANGED <<version, overtaken, faults, route, filter, calls>>
      /\ Track
  BY DEF Receive, outside
<1>2. /\ flight' \in [Keys -> FlightState] /\ flight'[k] = "idle"
      /\ \A j \in Keys : j # k => flight'[j] = flight[j]
  BY <1>1 DEF Core, Shapes, FlightState
<1>3. /\ data' \in [Keys -> Nat] /\ data'[k] = carried[k] /\ carried[k] # 0
      /\ carried' \in [Keys -> Nat] /\ carried'[k] = 0
      /\ \A j \in Keys : j # k => data'[j] = data[j] /\ carried'[j] = carried[j]
  BY <1>1 DEF Core, Versions
<1>4. /\ failed' \in [Keys -> BOOLEAN]
      /\ \A j \in Keys : j # k => failed'[j] = failed[j]
  BY <1>1 DEF Core, Flags
<1>5. Versions'
  <2>1. \A j \in Keys : data'[j] <= version[Scope(j)] /\ carried'[j] <= version[Scope(j)]
    BY <1>3, ScopeResource DEF Core, Versions
  <2>2. \A j \in Keys : flight'[j] = "ok" => carried'[j] # 0
    BY <1>2, <1>3 DEF Core, Versions
  <2>3. UNCHANGED <<stage, scope, wrote>>
    BY <1>1 DEF calls
  <2> QED
    BY <1>1, <1>3, <2>1, <2>2, <2>3 DEF Core, Versions
<1>6. Held'
  <2>1. route' \in Routes /\ filter' \in Filters
    BY <1>1 DEF Core, Shapes
  <2>2. \A j \in Keys : data[j] # 0 => data'[j] # 0
    BY <1>3
  <2> QED
    BY <1>1, <2>1, <2>2, TrackStep
<1>7. Repeats' /\ Faults'
  BY <1>1, ZeroTries DEF Core, Faults
<1> QED
  BY <1>1, <1>2, <1>3, <1>4, <1>5, <1>6, <1>7, EntryStep

-----------------------------------------------------------------------------
(* Fetches that begin *)

LEMMA Begun ==
    ASSUME Core, NEW S \in SUBSET Keys, NEW rest \in [Keys -> FlightState], Begin(S, rest)
    PROVE  /\ flight' \in [Keys -> FlightState]
           /\ carried' \in [Keys -> Nat]
           /\ Repeats'
           /\ failed' \in [Keys -> BOOLEAN]
           /\ \A k \in S : flight'[k] \in {"sent", "paused"} /\ carried'[k] = 0
           /\ \A k \in Keys \ S :
                 flight'[k] = rest[k] /\ carried'[k] = carried[k] /\ failed'[k] = failed[k]
<1>0. Sending \in {"sent", "paused"} /\ Sending \in FlightState
  BY DEF Sending, FlightState
<1>1. /\ flight' \in [Keys -> FlightState]
      /\ \A k \in Keys : flight'[k] = IF k \in S THEN Sending ELSE rest[k]
  BY <1>0 DEF Begin
<1>2. /\ carried' \in [Keys -> Nat]
      /\ \A k \in Keys : carried'[k] = IF k \in S THEN 0 ELSE carried[k]
  BY DEF Begin, Core, Versions
<1>3. Repeats'
  <2>1. 0 \in 0..Retries
    BY BoundAssumption
  <2> QED
    BY <2>1 DEF Begin, Core, Repeats
<1>4. failed' \in [Keys -> BOOLEAN]
  BY DEF Begin
<1>5. \A k \in Keys \ S : failed'[k] = failed[k]
  BY DEF Begin, Core, Flags
<1> QED
  BY <1>0, <1>1, <1>2, <1>3, <1>4, <1>5

\* A fetch that was paused runs, or fails; no other is touched.
Onward(rest) ==
    /\ rest \in [Keys -> FlightState]
    /\ \A k \in Keys : rest[k] = flight[k] \/ (flight[k] = "paused" /\ rest[k] \in {"sent", "error"})

LEMMA FlightOnward == Core => Onward(flight) /\ Onward([k \in Keys |-> Resumed(k)])
<1> SUFFICES ASSUME Core PROVE Onward(flight) /\ Onward([k \in Keys |-> Resumed(k)])
  OBVIOUS
<1>1. \A k \in Keys : Resumed(k) = flight[k] \/ (flight[k] = "paused" /\ Resumed(k) \in {"sent", "error"})
  BY DEF Resumed
<1>2. \A k \in Keys : Resumed(k) \in FlightState
  BY <1>1 DEF Core, Shapes, FlightState
<1> QED
  BY <1>1, <1>2 DEF Onward, Core, Shapes

\* What a fetch that begins does to the versions: nothing.
LEMMA BegunVersions ==
    ASSUME Core, NEW S \in SUBSET Keys, NEW rest, Onward(rest), Begin(S, rest),
           UNCHANGED <<version, data, scope, wrote>>,
           \A m \in Mutations : stage'[m] = "unused" <=> stage[m] = "unused"
    PROVE  Versions'
<1>0. /\ carried' \in [Keys -> Nat]
      /\ \A k \in S : flight'[k] # "ok" /\ carried'[k] = 0
      /\ \A k \in Keys \ S : flight'[k] = rest[k] /\ carried'[k] = carried[k]
  BY Begun DEF Onward
<1>1. \A k \in Keys : carried'[k] <= version[Scope(k)]
  BY <1>0, ScopeResource DEF Core, Versions
<1>2. \A k \in Keys : flight'[k] = "ok" => carried'[k] # 0
  BY <1>0 DEF Core, Versions, Onward
<1> QED
  BY <1>0, <1>1, <1>2 DEF Core, Versions

\* Navigation, a filter, the focus: what comes on screen is fetched, or was.
LEMMA EnsureStep ==
    ASSUME Core, NEW K \in SUBSET Keys, NEW rest, Onward(rest), Ensure(K, rest),
           UNCHANGED <<version, faults, calls>>,
           route' \in Routes, filter' \in Filters, Held',
           \A k \in Observed' : k \in Keys /\ (k \in Observed \/ k \in K)
    PROVE  Core'
<1> DEFINE S == {k \in K : flight[k] = "idle"}
<1>1. /\ S \in SUBSET Keys /\ Begin(S, rest)
      /\ overtaken' = [k \in Keys |-> overtaken[k] /\ k \notin S]
      /\ UNCHANGED <<version, faults, data, stage, scope, wrote>>
  BY DEF Ensure, calls
<1>2. \A k \in K : k \notin S => flight[k] # "idle"
  OBVIOUS
<1> HIDE DEF S
<1>3. /\ flight' \in [Keys -> FlightState]
      /\ Repeats'
      /\ failed' \in [Keys -> BOOLEAN]
      /\ \A k \in S : flight'[k] \in {"sent", "paused"}
      /\ \A k \in Keys \ S :
            /\ flight'[k] \in {"ok", "idle"} => flight'[k] = flight[k]
            /\ carried'[k] = carried[k] /\ failed'[k] = failed[k]
  BY <1>1, Begun DEF Onward
<1>4. Versions'
  BY <1>1, BegunVersions
<1>5. Shapes' /\ Faults'
  BY <1>1, <1>3 DEF Core, Shapes, Faults
<1>6. Flags' /\ \A k \in Keys : overtaken[k] /\ k \notin S => overtaken'[k]
  BY <1>1, <1>3 DEF Flags
<1>7. Current'
  <2> SUFFICES ASSUME NEW m \in Mutations, NEW k \in Keys,
                      stage[m] = "done", Scope(k) = scope[m], ~ overtaken'[k]
               PROVE  /\ flight'[k] = "ok" => Has(carried'[k], m)
                      /\ k \in Observed' /\ flight'[k] = "idle" /\ ~ failed'[k] => Has(data[k], m)
    BY <1>1 DEF Current, Has
  <2>1. CASE k \in S
    BY <1>3, <2>1
  <2>2. CASE k \notin S
    <3>1. /\ ~ overtaken[k] /\ carried'[k] = carried[k] /\ failed'[k] = failed[k]
          /\ flight'[k] \in {"ok", "idle"} => flight'[k] = flight[k]
      BY <1>3, <1>6, <2>2
    <3>2. k \in Observed' /\ flight[k] = "idle" => k \in Observed
      BY <1>2, <2>2
    <3> QED
      BY <3>1, <3>2 DEF Core, Current
  <2> QED
    BY <2>1, <2>2
<1>8. Answered'
  <2> SUFFICES ASSUME NEW k \in Observed', flight'[k] = "idle", data[k] = 0
               PROVE  failed'[k]
    BY <1>1 DEF Answered
  <2>1. k \in Keys \ S
    BY <1>3
  <2>2. k \in Observed
    BY <1>2, <1>3, <2>1
  <2> QED
    BY <1>3, <2>1, <2>2 DEF Core, Answered
<1> QED
  BY <1>3, <1>4, <1>5, <1>6, <1>7, <1>8 DEF Core

LEMMA GoStep ==
    ASSUME Core, NEW r \in Routes, Go(r)
    PROVE  Core'
<1>1. /\ route' = r /\ filter' = "all" /\ Ensure(OnScreen(r, "all"), flight)
      /\ UNCHANGED <<version, faults, calls>> /\ Track
  BY DEF Go, outside
<1>2. filter' \in Filters /\ Observed' = OnScreen(r, "all") /\ OnScreen(r, "all") \in SUBSET Keys
  BY <1>1, FiltersAssumption, OnScreenKeys DEF Observed
<1>3. Held'
  BY <1>1, <1>2, TrackStep DEF Ensure
<1> QED
  BY <1>1, <1>2, <1>3, FlightOnward, EnsureStep

LEMMA ChooseStep ==
    ASSUME Core, NEW f \in Filters, Choose(f)
    PROVE  Core'
<1>1. /\ route = "/blog" /\ route' = route /\ filter' = f /\ Ensure({ListKey(f)}, flight)
      /\ UNCHANGED <<version, faults, calls>> /\ Track
  BY DEF Choose, outside
<1>2. route \in Routes
  BY DEF Core, Shapes
<1>3. /\ Observed' = {ListKey(f), <<"blog", "stats">>}
      /\ <<"blog", "stats">> \in Observed
  BY <1>1 DEF Observed, OnScreen
<1>4. Observed' \subseteq Keys
  BY <1>1, <1>2, OnScreenKeys DEF Observed
<1>5. Held'
  BY <1>1, <1>2, TrackStep DEF Ensure
<1>6. {ListKey(f)} \in SUBSET Keys
  BY <1>3, <1>4
<1>7. \A k \in Observed' : k \in Keys /\ (k \in Observed \/ k \in {ListKey(f)})
  BY <1>3, <1>4
<1> QED
  BY <1>1, <1>2, <1>5, <1>6, <1>7, FlightOnward, EnsureStep

\* The focus, and the end of an outage.
LEMMA FocusStep == Core /\ (Focus \/ Reconnect) => Core'
<1> SUFFICES ASSUME Core, Focus \/ Reconnect PROVE Core'
  OBVIOUS
<1>1. /\ Ensure(Observed, [k \in Keys |-> Resumed(k)])
      /\ UNCHANGED <<version, faults, screen, calls>>
  BY DEF Focus, Reconnect, outside
<1>2. Observed \in SUBSET Keys /\ Observed' = Observed
  BY <1>1, ListedKey DEF screen, Observed, Core
<1>3. Held' /\ route' \in Routes /\ filter' \in Filters
  BY <1>1 DEF screen, Ensure, Core, Held, Shapes
<1> QED
  BY <1>1, <1>2, <1>3, FlightOnward, EnsureStep

\* An acknowledged write: every entry of its resource is fetched anew, bears the
\* mark, or is off screen and at rest.
LEMMA SucceedStep ==
    ASSUME Core, NEW m \in Mutations, Succeed(m)
    PROVE  Core'
<1> DEFINE S == {k \in Matching(scope[m]) \cap Observed : flight[k] = "idle" \/ data[k] # 0}
<1>1. /\ Begin(S, flight)
      /\ overtaken' = [k \in Keys |->
            k \notin S /\ (overtaken[k] \/ (k \in Matching(scope[m]) /\ flight[k] # "idle"))]
      /\ UNCHANGED <<version, faults, data, route, filter, last, scope, wrote>>
      /\ stage[m] # "unused" /\ stage' = [stage EXCEPT ![m] = "done"]
  BY DEF Succeed, Invalidate, outside
<1>2. /\ S \in SUBSET Keys
      /\ \A k \in Keys : Scope(k) = scope[m] /\ k \in Observed /\ k \notin S => flight[k] # "idle"
      /\ \A k \in Keys : k \in Matching(scope[m]) <=> Scope(k) = scope[m]
  BY DEF Matching
<1> HIDE DEF S
<1>3. /\ flight' \in [Keys -> FlightState]
      /\ Repeats'
      /\ failed' \in [Keys -> BOOLEAN]
      /\ \A k \in S : flight'[k] \in {"sent", "paused"}
      /\ \A k \in Keys \ S :
            flight'[k] = flight[k] /\ carried'[k] = carried[k] /\ failed'[k] = failed[k]
  BY <1>1, <1>2, Begun DEF Core, Shapes
<1>4. /\ stage' \in [Mutations -> Stage] /\ stage'[m] = "done"
      /\ \A n \in Mutations : n # m => stage'[n] = stage[n]
  BY <1>1 DEF Core, Shapes, Stage
<1>5. Versions'
  BY <1>1, <1>2, <1>4, FlightOnward, BegunVersions
<1>6. Shapes' /\ Faults' /\ Held'
  BY <1>1, <1>3, <1>4 DEF Core, Shapes, Faults, Held
<1>7. Flags'
  BY <1>1, <1>3 DEF Flags
<1>8. \A k \in Keys \ S : ~ overtaken'[k] =>
         ~ overtaken[k] /\ (Scope(k) = scope[m] => flight[k] = "idle")
  BY <1>1, <1>2
<1>9. Current'
  <2> SUFFICES ASSUME NEW n \in Mutations, NEW k \in Keys,
                      stage'[n] = "done", Scope(k) = scope[n], ~ overtaken'[k]
               PROVE  /\ flight'[k] = "ok" => Has(carried'[k], n)
                      /\ k \in Observed /\ flight'[k] = "idle" /\ ~ failed'[k] => Has(data[k], n)
    BY <1>1 DEF Current, Has, Observed
  <2>1. CASE k \in S
    BY <1>3, <2>1
  <2>2. CASE k \notin S /\ n = m
    <3>1. flight[k] = "idle" /\ flight'[k] = "idle" /\ k \notin Observed
      BY <1>2, <1>3, <1>8, <2>2
    <3> QED
      BY <3>1
  <2>3. CASE k \notin S /\ n # m
    BY <1>3, <1>4, <1>8, <2>3 DEF Core, Current
  <2> QED
    BY <2>1, <2>2, <2>3
<1>10. Answered'
  <2> SUFFICES ASSUME NEW k \in Observed, flight'[k] = "idle", data[k] = 0
               PROVE  failed'[k]
    BY <1>1 DEF Answered, Observed
  <2>1. k \in Keys
    BY ListedKey DEF Core
  <2> QED
    BY <1>3, <2>1 DEF Core, Answered
<1> QED
  BY <1>3, <1>5, <1>6, <1>7, <1>9, <1>10 DEF Core

\* An outage begins, or the mutations it paused are sent.
LEMMA OutageStep == Core /\ (Offline \/ Online) => Core'
<1> SUFFICES ASSUME Core, Offline \/ Online PROVE Core'
  OBVIOUS
<1>1. /\ UNCHANGED <<version, cache, screen, scope, wrote>>
      /\ faults' = faults \/ (faults < MaxFaults /\ faults' = faults + 1)
      /\ stage' = stage \/ stage' = [m \in Mutations |-> IF stage[m] = "paused" THEN "sent" ELSE stage[m]]
  BY DEF Offline, Online, calls
<1>2. /\ stage' \in [Mutations -> Stage]
      /\ \A m \in Mutations :
            /\ stage'[m] = "unused" <=> stage[m] = "unused"
            /\ stage'[m] = "done" => stage[m] = "done"
  BY <1>1 DEF Core, Shapes, Stage
<1>3. Shapes'
  BY <1>1, <1>2 DEF cache, screen, Core, Shapes
<1>4. Versions'
  <2>1. UNCHANGED <<version, data, carried, flight, scope, wrote>>
    BY <1>1 DEF cache
  <2> QED
    BY <1>2, <2>1 DEF Core, Versions
<1>5. Faults'
  BY <1>1, BoundAssumption DEF Core, Faults
<1> QED
  BY <1>1, <1>2, <1>3, <1>4, <1>5, CallsStep

-----------------------------------------------------------------------------
(* The rows that stand in *)

\* A step leaves the versions as they are, or writes one of them.
LEMMA Around ==
    ASSUME Core, Nets, Happens
    PROVE  Nets' /\ (version' = version \/ \E s \in Resources : Write(s))
<1>1. ASSUME NEW r \in Routes, Go(r) PROVE UNCHANGED <<version, net>>
  BY <1>1 DEF Go, outside
<1>2. ASSUME NEW f \in Filters, Choose(f) PROVE UNCHANGED <<version, net>>
  BY <1>2 DEF Choose, outside
<1>3. ASSUME NEW m \in Mutations, Submit(m) \/ Press(m) PROVE UNCHANGED <<version, net>>
  BY <1>3 DEF Submit, Press, Mutate, outside
<1>4. ASSUME NEW k \in Keys, Fetching(k) PROVE UNCHANGED <<version, net>>
  BY <1>4 DEF Fetching, Read, ReadFails, Receive, Retry, GiveUp, outside
<1>5. ASSUME NEW m \in Mutations, Apply(m) PROVE UNCHANGED net /\ \E s \in Resources : Write(s)
  BY <1>5 DEF Apply, Core, Shapes
<1>6. ASSUME NEW m \in Mutations, Refuse(m) \/ Disturb(m) \/ Succeed(m) \/ Fail(m)
      PROVE  UNCHANGED <<version, net>>
  BY <1>6 DEF Refuse, Disturb, Succeed, Fail, outside
<1>7. ASSUME NEW s \in Resources, Elsewhere(s) PROVE UNCHANGED net /\ Write(s)
  BY <1>7 DEF Elsewhere
<1>8. CASE Focus
  BY <1>8 DEF Focus, outside, Nets
<1>9. CASE Offline \/ Online \/ Reconnect
  BY <1>9 DEF Offline, Online, Reconnect, Nets
<1>10. \/ UNCHANGED net /\ (version' = version \/ \E s \in Resources : Write(s))
       \/ Focus \/ Offline \/ Online \/ Reconnect
  BY <1>1, <1>2, <1>3, <1>4, <1>5, <1>6, <1>7 DEF Happens, Using, Serving, Settling
<1> QED
  BY <1>8, <1>9, <1>10 DEF Nets

\* They keep standing in for what they did, or are the last filter's as cached.
LEMMA MemoizeStep ==
    ASSUME Core, Core', Nets, Standing, Happens, Memoize
    PROVE  Standing'
<1>1. CASE ~ Kept'
  BY <1>1 DEF Memoize, Standing
<1>2. CASE Kept' /\ Kept
  <2>1. kept' = kept /\ kept \in Nat /\ kept # 0 /\ "blog" \in Resources /\ kept <= version["blog"]
    BY <1>2 DEF Memoize, Standing
  <2>2. version["blog"] \in Nat /\ version'["blog"] \in Nat /\ version["blog"] <= version'["blog"]
    BY <2>1, Around, Written DEF Core, Versions
  <2> QED
    BY <2>1, <2>2 DEF Standing
<1>3. CASE Kept' /\ ~ Kept
  <2>1. kept' = data'[ListKey(last')] /\ last' # ""
    BY <1>3 DEF Memoize, Kept
  <2>2. ListKey(last') \in Keys /\ data'[ListKey(last')] # 0
    BY <2>1 DEF Core, Held
  <2>3. data'[ListKey(last')] \in Nat /\ data'[ListKey(last')] <= version'[Scope(ListKey(last'))]
    BY <2>2 DEF Core, Versions
  <2>4. Scope(ListKey(last')) = "blog" /\ "blog" \in Resources
    BY <2>2, ScopeResource DEF Scope, ListKey
  <2> QED
    BY <2>1, <2>2, <2>3, <2>4 DEF Standing
<1> QED
  BY <1>1, <1>2, <1>3

-----------------------------------------------------------------------------

LEMMA StutterStep == Core /\ UNCHANGED vars => Core'
<1> SUFFICES ASSUME Core, UNCHANGED vars PROVE Core'
  OBVIOUS
<1>1. Shapes' /\ Versions' /\ Faults' /\ UNCHANGED <<cache, screen, stage, scope, wrote>>
  BY DEF vars, outside, cache, screen, calls, Core, Shapes, Versions, Faults
<1> QED
  BY <1>1, CallsStep

\* Whatever the order of reads, answers, failures, outages and mutations: what is
\* kept and what is on its way is no newer than the server, and an idle observed
\* query is current.
THEOREM Invariance == Spec => []IInv
<1>1. Core /\ Happens => Core'
  <2> SUFFICES ASSUME Core, Happens PROVE Core'
    OBVIOUS
  <2>1. ASSUME NEW r \in Routes, Go(r) PROVE Core'
    BY <2>1, GoStep
  <2>2. ASSUME NEW f \in Filters, Choose(f) PROVE Core'
    BY <2>2, ChooseStep
  <2>3. ASSUME NEW m \in Mutations, Submit(m) \/ Press(m) PROVE Core'
    <3>1. Head(Listed) \in Resources
      BY ListedKey, ScopeResource DEF Core, Scope
    <3> QED
      BY <2>3, <3>1, MutateStep DEF Submit, Press
  <2>4. ASSUME NEW k \in Keys, Fetching(k) PROVE Core'
    BY <2>4, ReadStep, ReadFailsStep, ReceiveStep, RetryStep, GiveUpStep DEF Fetching
  <2>5. ASSUME NEW m \in Mutations, Serving(m) \/ Settling(m) PROVE Core'
    BY <2>5, ApplyStep, OutcomeStep, SucceedStep DEF Serving, Settling
  <2>6. ASSUME NEW s \in Resources, Elsewhere(s) PROVE Core'
    BY <2>6, ElsewhereStep
  <2> QED
    BY <2>1, <2>2, <2>3, <2>4, <2>5, <2>6, FocusStep, OutageStep DEF Happens, Using
<1>2. IInv /\ UNCHANGED vars => IInv'
  <2> SUFFICES ASSUME IInv, UNCHANGED vars PROVE IInv'
    OBVIOUS
  <2>1. UNCHANGED <<version, net, data, failed, route, filter, last, kept>>
    BY DEF vars, outside, cache, screen
  <2>2. Nets' /\ Kept' = Kept
    BY <2>1 DEF IInv, Nets, Kept, Pending, Listed
  <2>3. Standing'
    BY <2>1, <2>2 DEF IInv, Standing
  <2> QED
    BY <2>2, <2>3, StutterStep DEF IInv
<1>3. IInv /\ [Next]_vars => IInv'
  BY <1>1, <1>2, Around, MemoizeStep DEF IInv, Next
<1> QED
  BY <1>3, Initially, PTL DEF Spec

\* The variables keep their types, and no version is ahead of the server's.
THEOREM Types == Spec => []TypeOK
<1>1. IInv => TypeOK
  BY DEF IInv, Core, Shapes, Versions, Repeats, Flags, Faults, Held, Nets, Standing, TypeOK
<1> QED
  BY <1>1, Invariance, PTL

\* What is on screen and at rest has the writes that were acknowledged to this
\* interface, but for those acknowledged during a fetch that was let run on.
THEOREM ScreenIsFresh == Spec => []Fresh
<1>1. IInv => Fresh
  <2> SUFFICES ASSUME IInv, NEW m \in Mutations, NEW k \in Observed,
                      stage[m] = "done", Scope(k) = scope[m], AtRest(k), ~ overtaken[k]
               PROVE  data[k] >= wrote[m]
    BY DEF Fresh
  <2>1. k \in Keys
    BY ListedKey DEF IInv, Core
  <2> QED
    BY <2>1 DEF IInv, Core, Current, AtRest, Has
<1> QED
  BY <1>1, Invariance, PTL

\* The message that there is nothing never hides a failure: it is said of a list
\* that was answered empty and has not failed since, while another filter's empty
\* list stands in for one on its way, or of a list whose first read waits for the
\* network.
THEOREM EmptyIsAnswered == Spec => []EmptyMeansAnswered
<1>1. IInv => EmptyMeansAnswered
  <2> SUFFICES ASSUME IInv, ~ Spinning, ~ failed[Listed], ~ Rows
               PROVE  \/ data[Listed] # 0 /\ <<Listed, data[Listed]>> \in Blank /\ ~ failed[Listed]
                      \/ Kept /\ kept # 0 /\ <<ListKey(last), kept>> \in Blank /\ flight[Listed] # "idle"
                      \/ Pending(Listed) /\ flight[Listed] = "paused"
    BY DEF EmptyMeansAnswered, View
  <2>1. flight[Listed] = "idle" => data[Listed] # 0
    BY ListedKey DEF IInv, Core, Answered
  <2>2. CASE Kept
    <3>1. flight[Listed] # "idle"
      BY <2>1, <2>2 DEF Kept, Pending
    <3> QED
      BY <2>2, <3>1 DEF Rows, HasRows, IInv, Standing
  <2>3. CASE ~ Kept /\ data[Listed] # 0
    BY <2>3 DEF Rows, HasRows
  <2>4. CASE ~ Kept /\ data[Listed] = 0
    BY <2>1, <2>4 DEF Spinning, Pending
  <2> QED
    BY <2>2, <2>3, <2>4
<1> QED
  BY <1>1, Invariance, PTL

\* The previous filter's posts stand in for a list that is on its way.
THEOREM KeptIsPassing == Spec => []KeptWhileFetching
<1>1. IInv => KeptWhileFetching
  <2> SUFFICES ASSUME IInv, Kept PROVE flight[Listed] # "idle" /\ last # filter
    BY DEF KeptWhileFetching
  <2>1. data[Listed] = 0 /\ ~ failed[Listed] /\ route = "/blog" /\ last # ""
    BY DEF Kept, Pending
  <2>2. flight[Listed] # "idle"
    BY <2>1, ListedKey DEF IInv, Core, Answered
  <2>3. Listed = ListKey(filter)
    BY <2>1 DEF Listed
  <2> QED
    BY <2>1, <2>2, <2>3 DEF IInv, Core, Held
<1> QED
  BY <1>1, Invariance, PTL
=============================================================================
