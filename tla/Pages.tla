------------------------------- MODULE Pages -------------------------------
(***************************************************************************)
(* The pages of the web interface over the query cache they share: Home,   *)
(* Blog (Blog.tsx) and Todo (Todo.tsx), the hooks through which they read  *)
(* (useApiQuery) and write (useApiMutation), and the list section that     *)
(* decides what is on screen (DataList).                                   *)
(*                                                                         *)
(* An answer is abstracted to the version of the resource it was read      *)
(* from: version[s] counts the writes to resource s the server has made,   *)
(* and data[k] is the version entry k of the cache holds, 0 when it holds  *)
(* none; whether a list has rows at a version is the constant Blank. An    *)
(* entry is named by its query key, a sequence whose head is the resource, *)
(* which is the prefix a mutation invalidates.                             *)
(*                                                                         *)
(* React Query (v5) is external, modelled from its use here: an entry has  *)
(* at most one fetch in flight; a mount, a new key or a focused window     *)
(* fetches every entry on screen, for nothing is ever fresh (staleTime 0), *)
(* and joins a fetch already in flight; an invalidation fetches the        *)
(* entries on screen anew and drops what was in flight, unless the entry   *)
(* has no data yet, when it joins as well. While the browser reports that  *)
(* it is offline, what would be sent is paused. Entries are not collected: *)
(* none stays off screen for five minutes.                                 *)
(***************************************************************************)
EXTENDS Naturals, Sequences, FiniteSets

CONSTANTS
    Routes,     \* the pages of the instance, some of PageRoutes
    Filters,    \* the filters of the blog list
    Blank,      \* <<list, version>>: the lists that have no rows then
    Mutations,  \* calls of mutate(), each used once
    Retries,    \* times React Query repeats a failed read (its default is 3)
    MaxVersion, \* bound: versions of a resource
    MaxFaults   \* bound: answers lost, refused or timed out, and times offline

PageRoutes == {"/", "/blog", "/todo"}
ASSUME RoutesAssumption == Routes \subseteq PageRoutes
ASSUME FiltersAssumption == "all" \in Filters /\ "stats" \notin Filters
ASSUME BoundAssumption == Retries \in Nat /\ MaxVersion \in Nat /\ MaxFaults \in Nat

ListKey(f) == <<"blog", f>>

\* Without any post there is none of any status.
ASSUME BlankAssumption ==
    \A b \in Blank : b[1] = ListKey("all") => \A f \in Filters : <<ListKey(f), b[2]>> \in Blank

\* The queries the page at route r observes, with filter f on Blog.
OnScreen(r, f) ==
    CASE r = "/"     -> {<<"health">>}
      [] r = "/blog" -> {ListKey(f), <<"blog", "stats">>}
      [] r = "/todo" -> {<<"todo">>}

Keys == UNION {OnScreen(r, f) : r \in Routes, f \in Filters}
Scope(k) == Head(k)
Resources == {Scope(k) : k \in Keys}

VARIABLES
    version,   \* resource -> writes the server has made, from 1
    data,      \* entry -> version cached, 0 for undefined
    flight,    \* entry -> its fetch: idle, paused, sent, or the answer under way
    carried,   \* entry -> version in the answer under way
    tries,     \* entry -> failures of the present fetch
    failed,    \* entry -> status is "error"
    overtaken, \* entry -> (history) a write was acknowledged during the last fetch, which was let run on
    route,     \* the page on screen
    filter,    \* Blog's filter
    last,      \* the filter whose posts Blog's list last held, "" for none
    kept,      \* version of last's posts that stand in for the chosen filter's, 0 when none do
    stage,     \* mutation -> where the call is
    scope,     \* mutation -> the resource it writes, "" before the call
    wrote,     \* mutation -> the version its write made, 0 for none
    net,       \* "on", "off", or "back": on, and what was paused has not run on
    faults

outside == <<version, net, faults>>
cache == <<data, flight, carried, tries, failed, overtaken>>
screen == <<route, filter, last>>
calls == <<stage, scope, wrote>>
vars == <<outside, cache, screen, kept, calls>>

FlightState == {"idle", "paused", "sent", "ok", "error", "empty"}
Stage == {"unused", "paused", "sent", "applied", "refused", "empty", "done", "failed"}

Observed == OnScreen(route, filter)

Init ==
    /\ version = [s \in Resources |-> 1]
    /\ net = "on"
    /\ faults = 0
    /\ route \in Routes
    /\ filter = "all"
    /\ last = ""
    /\ kept = 0
    /\ data = [k \in Keys |-> 0]
    /\ flight = [k \in Keys |-> IF k \in Observed THEN "sent" ELSE "idle"]
    /\ carried = [k \in Keys |-> 0]
    /\ tries = [k \in Keys |-> 0]
    /\ failed = [k \in Keys |-> FALSE]
    /\ overtaken = [k \in Keys |-> FALSE]
    /\ stage = [m \in Mutations |-> "unused"]
    /\ scope = [m \in Mutations |-> ""]
    /\ wrote = [m \in Mutations |-> 0]

-----------------------------------------------------------------------------
(* The cache *)

\* What a request becomes when it is made.
Sending == IF net = "off" THEN "paused" ELSE "sent"

\* Once the browser is online again, a paused fetch runs; a retry of one that
\* nobody looks at any more was cancelled.
Resumed(k) ==
    IF flight[k] # "paused" \/ net = "off" THEN flight[k]
    ELSE IF tries[k] = 0 \/ k \in Observed THEN "sent" ELSE "error"

\* A fetch of each entry of S begins; an entry without data is pending again.
\* For the others, flight' is rest.
Begin(S, rest) ==
    /\ flight' = [k \in Keys |-> IF k \in S THEN Sending ELSE rest[k]]
    /\ carried' = [k \in Keys |-> IF k \in S THEN 0 ELSE carried[k]]
    /\ tries' = [k \in Keys |-> IF k \in S THEN 0 ELSE tries[k]]
    /\ failed' = [k \in Keys |-> failed[k] /\ ~ (k \in S /\ data[k] = 0)]

\* Mount, change of key: entries of K in flight are joined.
Ensure(K, rest) ==
    LET S == {k \in K : flight[k] = "idle"}
    IN  /\ Begin(S, rest)
        /\ overtaken' = [k \in Keys |-> overtaken[k] /\ k \notin S]
        /\ UNCHANGED data

\* The entries under invalidateKeys: [[s]].
ListsOnly(s) == {k \in Keys : Scope(k) = s /\ k # <<"blog", "stats">>}  \* mutation of Matching
Matching(s) == {k \in Keys : Scope(k) = s}

\* invalidateQueries: those on screen are fetched anew, the others marked
\* stale, which every entry is anyhow.
Invalidate(s) ==
    LET S == {k \in Matching(s) \cap Observed : flight[k] = "idle" \/ data[k] # 0}
    IN  /\ Begin(S, flight)
        /\ overtaken' = [k \in Keys |->
              k \notin S /\ (overtaken[k] \/ (k \in Matching(s) /\ flight[k] # "idle"))]
        /\ UNCHANGED data

\* The GET is answered with the resource as it is, ...
Read(k) ==
    /\ flight[k] = "sent"
    /\ flight' = [flight EXCEPT ![k] = "ok"]
    /\ carried' = [carried EXCEPT ![k] = version[Scope(k)]]
    /\ UNCHANGED <<data, tries, failed, overtaken, outside, screen, calls>>

\* ... or fails (network, AppError), or is the 408 of the TimeoutLayer, whose
\* body is empty: no error for `if (error)`, no data either.
ReadFails(k) ==
    /\ flight[k] = "sent"
    /\ faults < MaxFaults
    /\ faults' = faults + 1
    /\ \E a \in {"error", "empty"} : flight' = [flight EXCEPT ![k] = a]
    /\ UNCHANGED <<data, carried, tries, failed, overtaken, version, net, screen, calls>>

\* keepPreviousData: the query that last had data under this observer.
Track ==
    last' = IF route' = "/blog" /\ data'[ListKey(filter')] # 0 THEN filter'
            ELSE IF route' = "/blog" /\ route = "/blog" THEN last
            ELSE ""

Receive(k) ==
    /\ flight[k] = "ok"
    /\ flight' = [flight EXCEPT ![k] = "idle"]
    /\ data' = [data EXCEPT ![k] = carried[k]]
    /\ carried' = [carried EXCEPT ![k] = 0]
    /\ tries' = [tries EXCEPT ![k] = 0]
    /\ failed' = [failed EXCEPT ![k] = FALSE]
    /\ UNCHANGED <<overtaken, outside, route, filter, calls>>
    /\ Track

\* A failed read is repeated after a delay, while someone looks at it;
\* undefined data is not.
WillRetry(k) == flight[k] = "error" /\ tries[k] < Retries /\ k \in Observed

Retry(k) ==
    /\ WillRetry(k)
    /\ flight' = [flight EXCEPT ![k] = Sending]
    /\ tries' = [tries EXCEPT ![k] = @ + 1]
    /\ UNCHANGED <<data, carried, failed, overtaken, outside, screen, calls>>

\* The error is stored; data from before stays.
GiveUp(k) ==
    /\ flight[k] \in {"error", "empty"}
    /\ ~ WillRetry(k)
    /\ flight' = [flight EXCEPT ![k] = "idle"]
    /\ tries' = [tries EXCEPT ![k] = 0]
    /\ failed' = [failed EXCEPT ![k] = TRUE]
    /\ UNCHANGED <<data, carried, overtaken, outside, screen, calls>>

-----------------------------------------------------------------------------
(* What is on screen *)

Listed == CASE route = "/"     -> <<"health">>
            [] route = "/blog" -> ListKey(filter)
            [] route = "/todo" -> <<"todo">>

Pending(k) == data[k] = 0 /\ ~ failed[k]

\* The previous filter's posts stand in while the new list is pending.
KeptOnError == route = "/blog" /\ last # "" /\ data[Listed] = 0  \* mutation of Kept
Kept == route = "/blog" /\ last # "" /\ Pending(Listed)

\* The posts that stand in are those the last filter had when they began to.
Memoize ==
    kept' = IF ~ Kept' THEN 0 ELSE IF Kept THEN kept ELSE data'[ListKey(last')]

HasRows(k, n) == n # 0 /\ <<k, n>> \notin Blank
Rows == IF Kept THEN HasRows(ListKey(last), kept) ELSE HasRows(Listed, data[Listed])

\* isLoading: a paused fetch does not count.
Spinning == flight[Listed] \notin {"idle", "paused"} /\ Pending(Listed) /\ ~ Kept

\* DataList's triage, in its order.
NoErrorCase == IF Spinning THEN "loading" ELSE IF Rows THEN "items" ELSE "empty"  \* mutation of View
View == IF Spinning THEN "loading"
        ELSE IF failed[Listed] /\ ~ Rows THEN "error"
        ELSE IF ~ Rows THEN "empty"
        ELSE "items"

-----------------------------------------------------------------------------
(* The user *)

Go(r) ==
    /\ r # route
    /\ route' = r
    /\ filter' = "all"
    /\ Ensure(OnScreen(r, "all"), flight)
    /\ UNCHANGED <<outside, calls>>
    /\ Track

Choose(f) ==
    /\ route = "/blog"
    /\ f # filter
    /\ filter' = f
    /\ Ensure({ListKey(f)}, flight)
    /\ UNCHANGED <<outside, route, calls>>
    /\ Track

\* The window gets the focus.
Focus ==
    /\ Ensure(Observed, [k \in Keys |-> Resumed(k)])
    /\ UNCHANGED <<outside, screen, calls>>

Mutate(m, s) ==
    /\ stage[m] = "unused"
    /\ stage' = [stage EXCEPT ![m] = Sending]
    /\ scope' = [scope EXCEPT ![m] = s]
    /\ UNCHANGED <<outside, cache, screen, wrote>>

\* Enter in the title box, a create pending or not; the Draft and Add buttons
\* wait for the pending one, so they add nothing.
Submit(m) == route # "/" /\ Mutate(m, Head(Listed))

\* Publish, Archive, the checkbox or Delete, on a row of the list.
Press(m) == route # "/" /\ View = "items" /\ Mutate(m, Head(Listed))

-----------------------------------------------------------------------------
(* Mutations *)

\* A write to resource s is committed.
Unwritten(s) == UNCHANGED version      \* mutation of Write: the answer does not wait for it
Write(s) == version[s] < MaxVersion /\ version' = [version EXCEPT ![s] = @ + 1]

Apply(m) ==
    /\ stage[m] = "sent"
    /\ Write(scope[m])
    /\ wrote' = [wrote EXCEPT ![m] = version[scope[m]] + 1]
    /\ stage' = [stage EXCEPT ![m] = "applied"]
    /\ UNCHANGED <<faults, net, cache, screen, scope>>

\* AppError's JSON: the row has moved on, is gone, or the title is refused.
Refuse(m) ==
    /\ stage[m] = "sent"
    /\ stage' = [stage EXCEPT ![m] = "refused"]
    /\ UNCHANGED <<outside, cache, screen, scope, wrote>>

\* The answer is lost, or becomes the 408, before or after the write.
Disturb(m) ==
    /\ stage[m] \in {"sent", "applied"}
    /\ faults < MaxFaults
    /\ faults' = faults + 1
    /\ \E a \in {"refused", "empty"} : stage' = [stage EXCEPT ![m] = a]
    /\ UNCHANGED <<version, net, cache, screen, scope, wrote>>

\* The option-level onSuccess: no error in the answer, even if there is no data.
Succeed(m) ==
    /\ stage[m] \in {"applied", "empty"}
    /\ stage' = [stage EXCEPT ![m] = "done"]
    /\ Invalidate(scope[m])
    /\ UNCHANGED <<outside, route, filter, last, scope, wrote>>

\* `throw error`: no page shows it, and nothing is read again.
Fail(m) ==
    /\ stage[m] = "refused"
    /\ stage' = [stage EXCEPT ![m] = "failed"]
    /\ UNCHANGED <<outside, cache, screen, scope, wrote>>

\* Another tab, another client, or a write whose caller was told 408.
Elsewhere(s) ==
    /\ s # "health"
    /\ Write(s)
    /\ UNCHANGED <<faults, net, cache, screen, calls>>

-----------------------------------------------------------------------------
(* The browser's connection *)

Offline ==
    /\ net # "off"
    /\ faults < MaxFaults
    /\ faults' = faults + 1
    /\ net' = "off"
    /\ UNCHANGED <<version, cache, screen, calls>>

\* The mutations that were paused are sent, ...
Online ==
    /\ net = "off"
    /\ net' = "back"
    /\ stage' = [m \in Mutations |-> IF stage[m] = "paused" THEN "sent" ELSE stage[m]]
    /\ UNCHANGED <<version, faults, cache, screen, scope, wrote>>

\* ... and after their answers (which the model does not wait for) the reads are,
\* and what is on screen is fetched.
Reconnect ==
    /\ net = "back"
    /\ net' = "on"
    /\ Ensure(Observed, [k \in Keys |-> Resumed(k)])
    /\ UNCHANGED <<version, faults, screen, calls>>

-----------------------------------------------------------------------------

Fetching(k) == Read(k) \/ ReadFails(k) \/ Receive(k) \/ Retry(k) \/ GiveUp(k)
Serving(m) == Apply(m) \/ Refuse(m) \/ Disturb(m)
Settling(m) == Succeed(m) \/ Fail(m)
Using ==
    \/ \E r \in Routes : Go(r)
    \/ \E f \in Filters : Choose(f)
    \/ Focus
    \/ \E m \in Mutations : Submit(m) \/ Press(m)

Happens ==
    \/ Using
    \/ \E k \in Keys : Fetching(k)
    \/ \E m \in Mutations : Serving(m) \/ Settling(m)
    \/ \E s \in Resources : Elsewhere(s)
    \/ Offline \/ Online \/ Reconnect

\* Whatever happens, the page is rendered after it.
Next == Happens /\ Memoize

Spec == Init /\ [][Next]_vars

-----------------------------------------------------------------------------
(* Properties *)

\* Every variable stays in its range, and a version cached or carried is one
\* the server has had.
TypeOK ==
    /\ version \in [Resources -> Nat]
    /\ data \in [Keys -> Nat] /\ carried \in [Keys -> Nat] /\ wrote \in [Mutations -> Nat]
    /\ flight \in [Keys -> FlightState]
    /\ tries \in [Keys -> 0..Retries]
    /\ failed \in [Keys -> BOOLEAN] /\ overtaken \in [Keys -> BOOLEAN]
    /\ route \in Routes /\ filter \in Filters /\ last \in Filters \cup {""}
    /\ kept \in Nat /\ (kept # 0 => kept <= version["blog"])
    /\ net \in {"on", "off", "back"}
    /\ stage \in [Mutations -> Stage]
    /\ scope \in [Mutations -> Resources \cup {""}]
    /\ faults \in 0..MaxFaults
    /\ \A k \in Keys : data[k] <= version[Scope(k)] /\ carried[k] <= version[Scope(k)]
    /\ \A m \in Mutations :
          IF stage[m] = "unused" THEN wrote[m] = 0
          ELSE scope[m] \in Resources /\ wrote[m] <= version[scope[m]]

AtRest(k) == flight[k] = "idle" /\ ~ failed[k]

\* Whatever is on screen and at rest, list and statistics alike, shows every
\* write this interface was told had succeeded, unless the write was
\* acknowledged during the entry's last fetch and that fetch was joined
\* (useApiMutation's invalidation).
Fresh ==
    \A m \in Mutations, k \in Observed :
        stage[m] = "done" /\ Scope(k) = scope[m] /\ AtRest(k) /\ ~ overtaken[k]
            => data[k] >= wrote[m]

\* "Mutations invalidate the broad [key] prefix, so any sub-keyed queries
\* (lists, stats) refresh together" (useResource.ts:24-26): without the exception.
RefreshTogether ==
    \A m \in Mutations, k \in Observed :
        stage[m] = "done" /\ Scope(k) = scope[m] /\ AtRest(k) => data[k] >= wrote[m]

\* Posts listed under another filter's name are replaced: they stand in only
\* while the chosen filter's own answer is on its way, or waits for the network
\* (Blog.tsx:41-43). When that load fails they give way to the error, which is
\* not what DataList's comment says: PriorListStays.
KeptWhileFetching == Kept => flight[Listed] # "idle" /\ last # filter

\* "With keepPreviousData a failed refetch keeps the prior list visible instead
\* of wiping it out for an error line" (DataList.tsx:37-39): a list that shows
\* posts does not become the error while the page stays. The rows kept from the
\* previous filter do, when the chosen one's load fails.
PriorListStays ==
    [][route = "/blog" /\ route' = route /\ View = "items" => View' # "error"]_vars

\* The message that there are no posts or to-dos is DataList's last case, behind the
\* error: it is never said of a list that failed to load, but of one whose last
\* answer was empty; or of the previous filter's, if that was empty, while the
\* chosen one's is on its way (DataList.tsx:43); or of one never loaded whose read
\* waits for the network, for isLoading is false then.
EmptyMeansAnswered ==
    route # "/" /\ View = "empty" =>
        \/ data[Listed] # 0 /\ <<Listed, data[Listed]>> \in Blank /\ ~ failed[Listed]
        \/ Kept /\ kept # 0 /\ <<ListKey(last), kept>> \in Blank /\ flight[Listed] # "idle"
        \/ Pending(Listed) /\ flight[Listed] = "paused"
=============================================================================
