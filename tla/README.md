# A verification project for app-starter

TLA+ models of this repository: the server (a Rust/axum process over one SQLite
file, with compiled-in plugins), the React interface, the Tauri shell and the
backup script. TLC runs check them on small instances, and TLAPS proofs show
that their safety properties hold for every size.

    tlc -config BlogPosts_races.cfg MCBlogPosts.tla     # a run
    tlapm BlogPosts_proofs.tla                          # the proofs of a module

## 1. Inventory

| Part | State | Operations | What is hard | What makes it correct |
|---|---|---|---|---|
| **Blog plugin** `plugins/blog/src/lib.rs` | table `blog_posts` (status, created_at, published_at) | create, get, publish, archive, list, stats, seed | handlers are several SQL statements without a transaction; races; a handler dropped by the timeout while its statement still runs; crashes | each move has one winner, stamps are written once and in order, answers are true, every request takes effect at one instant or not at all |
| **Todo plugin** `plugins/todo/src/lib.rs` | table `todo_items` (done) | create, toggle, delete, list, seed | the same, and rows that vanish between two statements | no toggle is lost, no item comes back, answers agree with the write |
| **Startup** `src/main.rs`, `src/db.rs`, `src/seed.rs`, `src/plugins.rs`, `plugin-api` | the file: one migration-tracking table for the core and one per plugin, and the rows; the process: how far it has come | validate the registry, migrate, seed, bind, serve, stop | death between any two statements; upgrades, rollbacks and broken builds on the same file; interrupted seeding | only the right schema is ever served; failures resume; a refused build leaves the file alone; seeds are never doubled |
| **HTTP server** `src/api.rs`, `src/api/health.rs`, `src/db.rs`, `src/main.rs` | connection pool (5), requests in flight, shutdown signal | route, wait for a connection, answer, time out, drain | a handler dropped while its statement runs on; every connection stuck; shutdown with requests in flight | no connection is lost, nobody waits for a waiter, every request ends, the drain ends |
| **Desktop shell and gate** `desktop/src-tauri/src/main.rs`, `StartupGate.tsx`, `client.ts` | sidecar processes, port, window, the probe's query | spawn, kill on exit, probe, retry | slow or dead backend, second launch, hard kill, an older build's server | a living sidecar is the shell's own or the orphan of a hard kill; so is whoever opens the window or migrates its file; the gate opens or reports failure, and recovers |
| **Query cache and pages** `useApiQuery`, `useApiMutation`, `Home.tsx`, `Blog.tsx`, `Todo.tsx`, `DataList.tsx` | cached reads, reads and writes in flight, page and filter | read, retry, mutate, invalidate by key prefix, navigate, filter | a read that began before a mutation and ends after it; list and statistics from different moments; failures whose body is empty; placeholders; an offline browser | what is on screen and at rest shows every acknowledged write; a failure is not shown as an empty list |
| **Interface shell** `router.tsx`, `ErrorFallback.tsx`, `ThemeProvider.tsx`, `index.html` | location and page, lazy chunks, the boundary's error, the theme in storage, state and class | navigate, load, fail, try again, reload, toggle | a chunk gone with the old release; location and page changing at different times; two programs that resolve the theme | a fallback belongs to the page; no page stays blank; no flash, no forgotten choice |
| **db.sh** `scripts/db.sh` | database file, log, temporary copy, snapshots | backup, restore, check | failure or a kill between two file operations | the live file is only replaced by a complete, verified one, and can be brought back |
| **new-plugin.sh** | plugin files, `Cargo.toml`, `src/plugins.rs` | scaffold | interrupted half-way | registered exactly once or not at all |
| SPA assets, OpenAPI document, build scripts | none worth a model | | | |

How they interact. The handlers share nothing but the SQLite file, through a
pool of connections; a statement is atomic, nothing larger is. The router runs
every handler under a 30 s `TimeoutLayer`, which drops the handler's future. The
startup sequence owns the file before the port is bound, so no handler runs
during migrations or seeding. The shell starts the server as a child process
and the interface learns of it only by probing `/api/health`. The interface
reads through a cache that a successful mutation invalidates.

## 2. The modules

### `BlogService`: what the blog promises

Posts go absent, draft, published, archived and never back. A request opens,
and later either takes effect in one step (`Apply`), gets a verdict the table
justifies at that instant (`Verdict`), or ends with neither (`GiveUp`: a crash
ends several at once). It has no statements, no handlers and no clock but the set `Time`.

### `BlogPosts`: the handlers, statement by statement

| Model | Code |
|---|---|
| `status`, `createdAt`, `publishedAt` | columns of `blog_posts`; `"absent"` where there is no row |
| `pc[r]` | the `.await` request `r` stands at: `insert`, `lookup` (the first `get`), `update`, `reread` (the `get` after a won UPDATE), `resolve` (the `get` after a lost one) |
| `stamp[r]` | the `Utc::now()` bound into the statement, read before the statement runs |
| `changed[r]` | `rows_affected() > 0`, or the INSERT succeeded |
| `code[r]`, `shown[r]` | the answer: HTTP status and the `status` field of the post in its body |
| `CreatePost`, `Insert` | `create_post` up to the INSERT, and the INSERT with the 201 |
| `Arrive`, `Lookup` | `get_post`, `publish_post`, `archive_post` up to the first `get`'s outcome: 404, 400, the answer, or on to the UPDATE |
| `Update` | `transition`'s `UPDATE ... WHERE id = ? AND status = ?` |
| `Reread`, `Resolve` | the last `get` of each branch and the answer it decides |
| `SqlError`, `TimedOut`, `LateWrite` | `AppError::Sqlx`; the `TimeoutLayer` dropping the handler, and the write that was already with sqlx's worker thread running after all (`pc = "orphan"`) |
| `Crash`, `Tick` | the process dies and is started again on the file; time passes |

`MC` instance: `MCBlogPosts`. Assumptions made about the outside: `Uuid::new_v4`
never repeats an id (`Fresh`), the clock does not run backwards (`Tick`), a
statement that reports an error had no effect, and only this process writes the
file. The two handlers that only read a snapshot (`list_posts`, `post_stats`)
change nothing and are in `BlogList`. Requests are used once, so that an answer
stays readable for the properties; that bounds nothing but their number.

### `BlogList`: lists and statistics beside the handlers

It extends `BlogPosts`: every step of the handlers is a step here (`Handle`).

| Model | Code |
|---|---|
| `Begin` | a client starts to walk a list: `?status=`, `?limit=` and, from then on, `?offset=` |
| `Page`, `IsPage` | `list_posts`: the clamp of the limit, then one SELECT over the table as it is, newest first; rows created at the same reading of the clock come in any order, a new one for each page |
| `offset`, `listed` | rows and posts received so far |
| `Stats`, `counts` | `post_stats`, one SELECT with a GROUP BY, and the field each group's count is stored in |
| `since`, `left` | history: the posts in the list when the walk began; whether one has left it since |

The client is external, for the interface asks for the first page only: it keeps to
one size, skips what it has been given, and stops at an empty page or, if its size
is one the documentation allows (1 to 100), at a short one. A read that fails is
asked again. A negative offset is not asked for: the handler's `max(0)` and
SQLite agree about it.

### `TodoService`: what the todo plugin promises

An item is absent, open or done, and deleted for good: `"deleted"` leads nowhere.
`Apply` is a request's one effect; a toggle is told the flag in a step of its own
(`Report`), for `toggle` reads the row again; `Unknown` is a 404, `GiveUp` an end
without a verdict.

### `TodoItems`: the other plugin

It implements `TodoService`. The same modelling of statements, timeouts, late writes and crashes. An item
can be deleted while a toggle is between its two statements, and `toggle` has no
guard on the state it finds, so every toggle that runs counts.

### `Startup`: coming up on the file

| Model | Code |
|---|---|
| `applied[k]` | the versions recorded in tracking table `k`: `_sqlx_migrations` for the core, `_sqlx_migrations_<plugin>` |
| `rows[p]` | the plugin's table; a row is a fixture with the transitions it went through, or a user's row |
| `phase`, `at`, `fixture`, `inserted` | the statement `main` has reached |
| `Start(b, s)` | an operator starts release `b`, with or without `--seed`/`SEED` |
| `Validate` | `validate_registry`, before anything is written |
| `Migrate` | one transaction of `Migrator::run` or its refusal; the loop of `run_all_migrators` |
| `SeedCheck`, `SeedInsert`, `SeedMove`, `SeedDone` | `seed::run` and the plugins' `seed`, statement by statement |
| `Bind`, `UserInsert`, `UserDelete`, `Stop` | serving |
| `Die` | a kill, a failing statement or a taken port, between any two statements |

`MCStartup` has the repository's registry (todo, then blog; no core migration
yet) as release `v1`, an upgrade, a build whose todo migration fails and one
that `validate_registry` refuses. `sqlx::migrate::Migrator` is external: it
refuses a file that records a version it does not have, and applies the missing
ones in ascending order, each in a transaction with its tracking row. (It also
refuses an applied migration whose text has changed; the releases modelled never
edit one.) Two processes on one file are outside the model: `main.rs:20-24` promises idempotent
seeding for a single process only.

### `RequestLife` and `Server`: requests, pool, shutdown

`RequestLife` is what a client and an operator are promised: a request is taken
before the signal only, is over once, and the process ends when none is open.
`Server` is how.

| Model | Code |
|---|---|
| `stage[r]`, `left[r]` | the `.await` a handler stands at, and the statements it still has to run |
| `free`, `queue` | `SqlitePoolOptions::max_connections(5)` and those in line (db.rs:23-26) |
| `abandoned` | statements whose handler was dropped; sqlx's worker thread runs them to their end |
| `Take`, `Acquire`, `Finish`, `Answer`, `Fail` | the router, a statement of a handler, its answer; `AppError` or health's 503 |
| `Expire`, `Leave` | the `TimeoutLayer` (408), hyper dropping a lost client's handler |
| `Signal`, `End` | `shutdown_signal`, `axum::serve` returning |

What statements do is abstracted away here: `BlogPosts` and `TodoItems` have it.
sqlx (a fair line; a dropped acquire leaves it) and axum's drain are external.
Two facts the model shows beside its properties: the timeout of 30 s is as long as
sqlx's own limit on waiting, so with every connection stuck `/api/health` may be
told 408 rather than 503; and `End` does not wait for `abandoned`, so a statement
can still be running when the process ends: but then its request was timed out or
its client lost, and all else has come to rest (`EndsIdle`).

### `Pages`: the cache under the three pages

| Model | Code |
|---|---|
| `data[k]`, `failed[k]` | the cached answer of a query key (as the version of the resource it was read from; 0 is `undefined`) and `isError` |
| `flight[k]`, `carried[k]`, `tries[k]` | its fetch, the answer under way, the failures so far |
| `version[s]` | writes the server has committed to resource `s` |
| `route`, `filter`, `last` | the page, Blog's filter, and the filter whose rows `keepPreviousData` holds |
| `kept`, `Memoize` | the version of those rows, which the observer remembers while they stand in; set at the end of every step, as the page is rendered |
| `Blank` | the lists that have no rows at a version (a constant: the model counts writes, not rows) |
| `net`, `Offline`, `Online`, `Reconnect` | whether the browser says it is online; React Query pauses what would be sent while it is not, then sends the mutations first and the reads after |
| `stage[m]`, `scope[m]`, `wrote[m]` | a call of `mutate()`, the resource it writes, the version it made |
| `Read`, `ReadFails`, `Receive`, `Retry`, `GiveUp` | `useApiQuery`'s `queryFn` and React Query around it |
| `Submit`, `Press`, `Apply`, `Refuse`, `Disturb`, `Succeed`, `Fail` | the pages' buttons, the server's answer or its loss, `useApiMutation` |
| `Go`, `Choose`, `Focus` | a link, `FilterBar`, a focused window |
| `Spinning`, `Rows`, `View` | `DataList`: `isLoading`, `items.length`, and its order of cases |

React Query is external, modelled as version 5 treats the options used here:
`staleTime` 0; three retries for reads and none for mutations; a fetch in flight is
joined by mounts, and by `invalidateQueries` when the query has no data yet; a
failed refetch keeps the data; a placeholder stands only while the query is
pending; the hook's own `onSuccess` runs even after its page is gone. A 408 has an
empty body, which `if (error)` takes for no error: a read then ends in an error
without a retry (`"empty"`), a mutation counts as a success. `overtaken[k]` is a
history variable: a write was acknowledged during the fetch that filled `k`.
`isLoading` is false while a placeholder stands, and while the fetch is paused: so
`DataList` says "No posts here" of a list that is on its way if the list it stands in
for was empty, and of one never loaded if the browser is offline. `EmptyMeansAnswered`
names both.
Entries are never collected, so the model covers stretches of less than the five
minutes for which React Query keeps an entry nobody observes.

### `Desktop`: shell, sidecar and gate

| Model | Code |
|---|---|
| `shell`, `own`, `launched` | the instance that holds the single-instance lock, its `SidecarChild` |
| `proc[p]`, `build[p]`, `asked[p]` | a sidecar, its build, the `PORT` it was given |
| `schema`, `owner[n]` | the schema of `app.db`, the process bound to a port |
| `fetch`, `status`, `failures` | the query of `StartupGate`; `View` is `startupView` |
| `Launch`, `Close`, `HardKill` | `setup`; `CloseRequested` and `RunEvent::Exit`; a kill of the shell, which leaves the sidecar |
| `Migrate`, `Bind`, `Die` | a sidecar coming up, in outline (`Startup` has the detail) |
| `DevUp`, `DevDown` | a developer's `cargo run` on the default port, on a file of its own |
| `Reach`, `Miss`, `Open`, `Retry`, `GiveUp`, `PressRetry`, `Focus` | the probe, its eight retries, the Retry button, a focused window (a second launch focuses it); a 408 without a body is not retried |

The window is visible and the system online; otherwise React Query suspends the
probe's retries until it is.

### `Shell`: one tab, its pages and its theme

| Model | Code |
|---|---|
| `stored`, `class`, `theme` | `localStorage`, the class on `<html>`, the provider's state |
| `blocked` | storage that throws |
| `location`, `match` | the router's location, which `resetKeys` watch, and the page in `<Outlet>` |
| `chunk[p]` | the lazy component of a plugin; its first outcome stays for the document's life |
| `boundary`, `throws` | the error the route boundary holds; the pages that throw at present |
| `Mount`, `Toggle`, `Reload` | `main.tsx`, `ThemeToggle`, a new load of the document (`Script` is `index.html`'s) |
| `Navigate`, `Commit`, `Jump` | a link: location first and page later, or both at once |
| `Loaded`, `Rejected`, `Deploy` | a chunk arrives or not; a release without the old chunks, whose place `frontend.rs` fills with `index.html` |
| `TryAgain` | `ErrorFallback` |

TanStack Router is external; whether React renders between the change of location
and that of the page is left open. When it does, the boundary's reset is spent
on the page being left, so "does not stick after the user moves to another route"
(router.tsx:61-63) holds up to the page just left: `FallbackOrigin`. A stored
theme is not read when storage throws, and the script then leaves the page light
while the provider may resolve dark: the flash the comment in `ThemeProvider.tsx:39-42`
rules out does occur there, and `NoFlash` excepts it.

### `SafeStore` and `Restore`: `db.sh` beside a server

`SafeStore` is a database whose content the server's commits change and a restore
replaces in one step, by the backup asked for, once what it replaces is in a backup
too: so every commit is in the database or in a backup made after it. `Restore`
is how the script gets there file by file.

| Model | Code |
|---|---|
| `main`, `wal`, `tmp` | the database, its write-ahead log, `<db>.restore.tmp`; a file is the last commit it holds, or `Damaged` |
| `main.id`, `wal.id` | the file itself: a log over another file makes `Garbage` |
| `backups` | the snapshots in `backups/` |
| `phase` | the command `restore` has reached |
| `Backup`, `Begin`, `Snapshot`, `Copy`, `Verify`, `Move`, `Sweep`, `Stop` | `backup`, and `restore` command by command; `die` or a kill at any |
| `StartServer`, `Commit`, `StopServer`, `KillServer` | the server beside it |

`disturbed` records that the server ran during a restore, which the script tells
the user to avoid. The script takes no lock. `Backup` may run at any time, beside a
restore too (the documentation schedules it with cron); but one restore runs at a
time, which is an assumption: two would share `<db>.restore.tmp` (db.sh:188). SQLite is external: recovery of a log, and the checkpoint the last
connection makes, the sqlite3 tool's own included; this is why a snapshot also
clears the log a killed server left. A log without a main file is not modelled.

## 3. The runs

| Run | Instance | Bounds | Shows |
|---|---|---|---|
| `blog_races` | `BlogPosts`, 4 requests, 2 posts, clock to 2 | 388 thousand states, requests and posts symmetric | `Stamps`, `OneWinner`, `HonestAnswers`, `WriteOnce`, and `Implements`: every behaviour is one of `BlogService` |
| `blog_list` | `BlogList`, 3 requests, 2 posts, clock to 2, pages of at most 2, limits -1, 0, 2 and 5 | 2.9 million states, symmetric | `MissesNone`, `StatsGrow` |
| `blog_shown` | 3 requests, 1 post | counterexample | the finding below |
| `todo_races` | `TodoItems`, 5 requests, 2 items | 444 thousand states, symmetric | `NoLostToggle`, `CreatedAndDeletedOnce`, `ToldTheTruth`, and `Implements`: every behaviour is one of `TodoService` |
| `startup_releases` | `Startup`, 4 releases, 2 plugins, 2 deaths | 50 thousand states, with fairness | `TypeOK`, `ServesOwnSchema`, `SeedsOnceFirst`, `RefusedLeavesFile`, `InRegistryOrder`, `Resumes` |
| `server_drain` | `Server`, 4 requests, 2 connections, up to 2 statements each | 297 thousand states, with fairness | `TypeOK`, `NoLeak`, `WaitsForWork`, `EndsIdle`, and `KeepsPromise`: every behaviour is one of `RequestLife` |
| `pages_cache` | `Pages`, Home and Blog, 2 filters, 1 mutation, 1 retry, 2 versions, 1 fault or outage | 3.2 million states | `TypeOK`, `Fresh`, `KeptWhileFetching`, `EmptyMeansAnswered` |
| `pages_joined` | Blog alone, no retry, no fault | counterexample | the second finding below |
| `pages_prior` | Blog alone, no retry, 1 fault | counterexample | the third finding below |
| `desktop_gate` | `Desktop`, 2 launches, 2 builds, 2 ports, the code's 8 retries, 1 fault | 51 thousand states, with fairness | `TypeOK`, `OneSidecar`, `OwnServer`, `ReadyStays`, `NoEndlessSplash`, `RetryFinds` |
| `shell_tab` | `Shell`, the two plugins, 2 faults | 422 thousand states | `FallbackOrigin`, `BlankMeansLoading`, `ChoiceSurvives`, `NoFlash` |
| `restore_crash` | `Restore`, 3 commits, 2 renames | 169 thousand states | `Coherent`, `OldOrNew`, `Reversible`, and `Implements`: every behaviour is one of `SafeStore` |

Why the bounds suffice. A race on a post needs the request that created it, two
that compete, and one that moves the post on between the loser's two statements
or the winner's: four requests. A second post shows that nothing leaks between
rows. Two clock readings tell "before" from "after"; more only rename times. A
toggle needs its create, a second toggle, a delete and one more request to come
between: five. In `BlogList`, two posts are one on the page and one behind it, limits
of -1 and 0 ask for pages of one and a limit of 5 for more than a page holds, and three
requests create both and move one between two pages. The bounds `MaxUserRows` and `MaxDeaths` cap the only unbounded
counters of `Startup`: three rows are one user's row beside a complete fixture
set of two or two beside a partial one, and two deaths let a resumed start be
interrupted once more. `Stop` is not counted, so the
number of starts is unbounded. In `Server`, four requests on two connections are two
that run, one in line and one behind it; with two statements each, one can come
back to the line while another waits. In `Pages`, one mutation against reads of
two filters and the statistics is every order of acknowledgement, read and
answer for one entry, and `Elsewhere`'s write makes the second version; Home is
the page from which a list is found again, Todo has nothing Blog lacks. The drafts
have no row at the second version, which is what publishing the only draft leaves:
so an empty list is met as one's own answer, as a placeholder and as a failed
refetch. One fault is a failed read, a lost mutation or an outage; an outage during
the retry of a failed read takes two, and is left to the theorems. In
`Desktop`, a hard kill needs a second launch to matter, two builds let it be an upgrade or
a downgrade, and the properties relate sidecars two by two. In `Shell`, two plugins and Home are a page, the one
left and the one left before. In `Restore`, three commits are one in the file, one
in the log and one after a restore; with two renames a restore follows an
interrupted one. The theorems of section 5 remove these bounds from the safety
properties. The type invariants of the two plugins, `Shell` and `Restore` are
proved there and no run repeats them.

The runs of the blog, todo, server, pages and desktop modules switch the deadlock
check off: an instance stops when its requests, mutations or launches are used up,
which the program does not. `Startup`, `Shell` and `Restore` can always go on and
are checked for deadlock.

Fairness. `startup_releases` assumes, for `Resumes`, `WF(Boot)`, a started process runs on
(the runtime schedules it; a migration or a seed is finite), and
`WF(Start)`, a process that ended is started again (`compose.yml`,
`restart: unless-stopped`). Deaths are finite in the run; without that bound
nothing could be promised. `desktop_gate` assumes `WF(Probe)`, for a request to
the loopback address is answered, refused or lost and React Query's timers fire
while the window is visible and the system online, and `WF(Boot(p))`, a started process runs on; users
and developers need do nothing. `server_drain` assumes `WF(Expire(r))`, tokio's timer
fires, and `WF(End)`, the drain is noticed. No statement is assumed to end: the
disk may stall for ever. The other runs check safety only.

### The properties

* **OneWinner**: a post that was created, published or archived was so by exactly
  one request; one that was not, by none. A dropped status guard, or a check
  made only in the handler, breaks it.
* **Stamps**, **WriteOnce**: `published_at` is set exactly for posts past draft, is
  not before `created_at` although the two times are read by different requests,
  and is never overwritten; no row goes away.
* **HonestAnswers**: success is told only to the request that changed the row, with
  a post at least as far along as it moved it; a refused one changed nothing;
  when publish is refused the post is past draft for good.
* **Implements** (blog): all of it together, as linearizability of the lifecycle. The
  refinement mapping (`Result`) reads a request's fate off its place, its
  effect and its code: a handler that was told 408 is still open while its write
  may yet run.
* **MissesNone**: a walk over all posts, or over the archived ones, has been given every
  post that was there when it began, although rows are created and moved between
  its pages, for every `?limit=`, negative ones, 0 and those over the cap included. A walk over drafts
  or published posts has so only if no post left its list meanwhile: the offset
  then passes over the row behind the one that left. Nor is it promised of
  posts created at the same instant, whose order SQLite may choose anew for each page.
* **StatsGrow**: of two statistics the later has no fewer posts, past draft or
  archived. A count in the wrong field breaks it; so would counts read one by one.
* **NoLostToggle**: the done flag is the parity of the toggles that ran, those of
  clients who were told 408 or nothing included.
* **CreatedAndDeletedOnce**, **ToldTheTruth**: an item is created and deleted at
  most once and never comes back; a toggle that took effect is answered 404 only
  if a delete came between its two statements.
* **Implements** (todo): toggles, deletes and creates as if each took effect in one step,
  the flag in an answer being one the item had then or later. A flag computed in
  the handler instead of read again breaks it.
* **ServesOwnSchema**: a serving process has exactly the migrations of its release,
  whatever releases ran, failed or died on the file before.
* **InRegistryOrder**: a plugin is migrated only when all before it are complete.
* **RefusedLeavesFile**: a build with a bad plugin changes nothing in the file.
* **SeedsOnceFirst**: no fixture is in a table twice or after a user's row.
  What it does not promise: a seed cut short by a death leaves a table that is
  not empty, so the rest of its fixtures never follow.
* **Resumes**: whatever releases ran, failed or died on the file before, once only
  releases are started that know every migration in it and whose own succeed, the
  server comes to serve (deaths being finite).
* **NoLeak**, **WaitsForWork**: however many handlers are dropped in line or in a
  statement, every connection is free, runs a request's statement or runs an
  abandoned one; and a request in line waits for statements only. A handler that
  kept its connection between two statements, a transaction say, breaks the second.
* **EndsIdle**: statements that outlive the drain belong to requests that were timed out
  or whose client left; when the process ends nobody is in line and every other
  connection is back.
* **KeepsPromise**: with every connection stuck, requests still end and a shutdown
  still drains, cutting none short. A timeout that did not cover the wait for a
  connection breaks it.
* **Fresh**: what is on screen and at rest, list and statistics alike, shows every
  write this interface was told had succeeded, unless the entry's last fetch was
  in flight, with no data yet, when the write was acknowledged. Invalidating
  less than the resource's prefix breaks it.
* **KeptWhileFetching**: another filter's rows stand in only while the chosen filter's
  answer is on its way or waits for the network, not after it failed. What that
  costs is the third finding.
* **EmptyMeansAnswered**: "No posts here" never covers up a failure. It is said of a list
  whose last answer was empty and that has not failed since; or while the previous
  filter's empty list stands in for one on its way; or of a list whose first read
  waits for the network. In the last two it says more than is known, which no
  comment of the code denies.
* **OneSidecar**, **OwnServer**: every living sidecar is that of the shell that is up, or
  was left by a shell killed hard; whoever opened the gate is such a one or a
  developer's server; and a sidecar that serves has a file of its own schema, unless
  it is an orphan or an orphan migrated the file. A second launch that started
  another sidecar, or an exit that left its own behind, breaks them, orphans or not.
* **ReadyStays**: an open gate never closes. **NoEndlessSplash**: the splash gives way to
  the interface or to the failure screen. **RetryFinds**: a server that comes up
  late is found by the window that stays open, and the interface shown for good, if
  the user does not leave the failure screen standing.
* **FallbackOrigin**, **BlankMeansLoading**: the error on screen is that of the page on
  screen or of the one just left; a page without an error has loaded or is loading,
  so a chunk that went with an old release ends in the fallback.
* **NoFlash**, **ChoiceSurvives**: where storage works, the script and the provider agree
  on every load, and the user's choice outlives reloads and changes of the
  system's preference.
* **Coherent**, **OldOrNew**, **Reversible**: wherever the script dies, the live file is no
  damaged copy and no log lies beside a file it does not belong to; the database
  is the old one up to the rename and the new one from then on; and the old one,
  commits in the log included, is among the backups. The first half of `Coherent`
  holds even beside a running server.
* **Implements** (restore): the last three over whole histories: a commit the server
  made is in the database, or in a backup at least as new, from then on and
  through any number of restores, interrupted ones included. A snapshot that saves
  the file without its log breaks it.

Each property has a mutation of the code it catches (the definitions marked
*mutation of* in the modules: a WHERE clause without its status guard, a NULL
bound by archive, a first read answered instead of a second, an ignored
`rows_affected`, a tracking table shared by all plugins, a failing plugin skipped,
and so on).

## 4. Findings

**publish may answer 200 with an archived post.** The API description says of a 200
"Published post" (`plugins/blog/src/lib.rs:332`). `publish_post` reads the row
again after its UPDATE (line 357), and another request may archive the post
between the two: run `blog_shown`. `HonestAnswers` states what does hold: the
post shown is at least as far along as the request moved it.

**A mutation during the first load of a list may not be shown.** "Mutations
invalidate the broad [key] prefix, so any sub-keyed queries (lists, stats)
refresh together" (`useResource.ts:25-26`, and `docs/components.md:158-159`). But
`invalidateQueries` (`useApiMutation.ts:54`) joins a fetch in flight when its query
has no data yet. A filter chosen, or a page opened, just before the mutation is
acknowledged can so come to rest on an answer read before the write, and stays
so until the next focus, navigation or mutation: run `pages_joined`. `Fresh` states
what does hold.

**A filter switch whose load fails wipes out the list.** "With keepPreviousData a
failed refetch keeps the prior list visible instead of wiping it out for an error
line" (`DataList.tsx:37-39`), a filter switch being a refetch in this code's words
(`Blog.tsx:41-42`, `useApiQuery.ts:18-20`). But a placeholder stands only while its
query is pending: when the chosen filter's load has failed, `data` is undefined
and line 40 shows the error where the previous posts were: run `pages_prior`. The
test (`DataList.test.tsx:47`) gives `DataList` data together with an error, as a
refetch under the same key does. `KeptWhileFetching` states what does hold.

Also met, without a run of its own: the comment at `router.tsx:61-63` ("Reset the
route-level boundary on navigation so a crash on one page does not stick after the
user moves to another route") is stronger than what `Shell` shows. The reset follows
the location, and when React renders between the change of location and that of
the page, the page being left can throw once more and its error then stands over
the page moved to, until the next navigation or Try again. `FallbackOrigin` is the
weaker statement that holds: the error is of the page on screen or of the one just
left.

## 5. What is proved

| Theorem | Property | Module |
|---|---|---|
| `TypeCorrect`, `StampsCorrect`, `OneWinnerCorrect`, `HonestAnswersCorrect`, `WriteOnceCorrect` | `TypeOK`, `Stamps`, `OneWinner`, `HonestAnswers`, `WriteOnce` | `BlogPosts_proofs` |
| `ImplementsService` | `Implements` | `BlogPosts_proofs` |
| `MissesNoneCorrect`, `StatsGrowCorrect` | the two properties of `blog_list` | `BlogPosts_proofs` |
| `TypeCorrect`, `NoLostToggleCorrect`, `CreatedAndDeletedOnceCorrect`, `ToldTheTruthCorrect` | `TypeOK` and the three invariants of `todo_races` | `TodoItems_proofs` |
| `ImplementsService` | `Implements` | `TodoItems_proofs` |
| `TypeCorrect`, `ServesOwnSchemaCorrect`, `SeedsOnceFirstCorrect`, `RefusedLeavesFileCorrect`, `InRegistryOrderCorrect` | the five safety properties of `startup_releases` | `Startup_proofs` |
| `Types`, `PoolIsWhole`, `NoHoldAndWait`, `EndIsIdle` | the four invariants of `server_drain` | `Server_proofs` |
| `ServerImplementsLife` | `Life!Spec`, the safety part of `KeepsPromise` | `Server_proofs` |
| `Types`, `ScreenIsFresh`, `KeptIsPassing`, `EmptyIsAnswered` | the four invariants of `pages_cache` | `Pages_proofs` |
| `Types`, `SidecarIsSingle`, `WindowIsServed`, `ReadyIsFinal` | the three invariants of `desktop_gate` and `ReadyStays` | `Desktop_proofs` |
| `Types`, `FallbackIsRecent`, `NeverBlankForGood`, `ChoiceIsKept`, `ScriptAgrees` | `TypeOK`, the three invariants of `shell_tab` and `NoFlash` | `Shell_proofs` |
| `Types`, `AlwaysCoherent`, `AtomicRestore`, `NothingLost` | `TypeOK` and the three invariants of `restore_crash` | `Restore_proofs` |
| `ImplementsStore` | `Implements` | `Restore_proofs` |

They hold for any set of ids and of requests and any clock bound; those of
`Startup` for any releases, plugins, fixtures and number of deaths. Assumptions
on constants: `NoPost` is no post, the clock bound is a positive number
(`BlogPosts`); `NoTodo` is no item and the requests are finitely many, since
their parity is counted (`TodoItems`); the posts are finitely many, since rows are
counted, a page holds at least one and the limits are integers (`BlogList`); there is a filter
for all posts, and without any post every filter's list is empty (`Pages`); within a release no two migrators share a
name, the seed visits known plugins, and the bounds are numbers (`Startup`).

*BlogPosts.* `OneWinner` is not inductive: that an UPDATE finds its source state
says nothing about requests holding one already. `IInv` adds what each place of
a handler implies about its request (`Handlers`), that an INSERT meets no row
because ids are unique (`Ids`), how the times in rows and in handlers' hands
stand to each other and to the clock (`Times`), and what a request that wrote, or
lost, leaves behind for good: the lifecycle only moves on (`Effects`). With these
a second winner would need the post to be in its source state after it was moved
out of it. One lemma per action shows that `IInv` is preserved, one part of
`IInv` per step. `WriteOnce` and the refinement use `IInv` at each
step: `ResultsOf` says that a step changes the result of its own request only,
and each action is then shown to be `Open`, `Apply`, `Verdict`, `GiveUp` or a
stutter.

*BlogList.* What a walk has received says nothing about what it has passed over: the
strengthening is `Caught`. For every post of `since` that is untied and not yet
listed, the list has at least as many newer rows as have been received. Then the offset
has not passed it, and an empty or short page cannot leave it out (`PageCatches`).
Rows that join a list, created or archived meanwhile, only add to the newer ones or
stand behind; and no row leaves the list of all posts or that of the archived ones,
which is where `left` comes in for the others (`Leaving`). `GroupsAddUp` splits the
table into the three groups of the statistics, and `Counted` keeps the last ones
below what the table holds now.

*TodoItems.* The parity carries over a toggle by `ParityFlips`; it carries over the
other writes because a create meets no earlier toggle of its id and a delete
removes the row. `IInv` therefore ties the life of each item to the
requests that changed it (`Lives`) and says that there is one create and one
effective delete of each (`OneEach`).
For the refinement a row is `"deleted"` when it is gone and a create of it has run;
`RowByHistory` reads that off `Lives`, `WriteApplies` shows that a statement with an
effect is one `Apply`, and `ResultsOf` that a step touches its own request's result only.

*Startup.* What a serving process may rely on was established by earlier stages
of its own start. `IInv` says what each stage may assume: how far the position
can be and that a refused build is not past validation (`Position`), that the
migrators behind the position are complete (`Schema`), and that a table being
seeded holds nothing beyond the present fixture (`Seeding`). Distinct names are
what keeps one migrator's step from disturbing another's table. Steps that only
begin a stage share the lemma `NewStage`; users' inserts and deletes share
`UserIInv`.

*Server.* `NoLeak` needs the line: who is served next must be a request that waits, once.
`IInv` says that the line holds the waiting requests without repetition (`Line`), that
connections add up to the pool and that none is free while somebody waits
(`Connections`), and that abandoned statements belong to requests that are over
(`Places`). Lemmas state what serving the head, joining and stepping out do to
a line, and `HandedBack` what giving a connection back does, for every action that
does it. For the refinement each action is shown to take a request, to end one, or
to leave every request of the same kind to `RequestLife` (`SameKind`). `EndsIdle`
needs that nothing starts again once the process has ended (`Rest`). Assumed: the
requests are finitely many and the pool is not empty.

*Pages.* `Fresh` is not inductive: nothing is said of a read on its way. `IInv` adds
that an answer under way holds every write that was acknowledged, unless its entry
is marked overtaken (`Current`), that an idle observed entry without data has failed
(`Answered`), that the filter whose rows are kept has data (`Held`), and that the
version of the kept rows is one the server has had (`Standing`). The last follows
from the others and from `Memoize`, which ends every step; the others make up
`Core`, and one lemma per action shows that it is preserved. A paused fetch that
runs on, or fails, touches nothing else (`Onward`).

*Desktop.* Of two living sidecars one is an orphan, for all but the shell's own are
(`Single`). So when one migrates the file under another, either the one or the other
is (`Migrated`); and an answer on its way or stored came from the shell's own
sidecar, the developer's server or an orphan (`Known`).

*Shell.* `Paint` says that the provider's theme is the stored one once it is mounted and
the user's choice whenever there is one; `Page` that while location and page
differ the boundary holds no error but the present page's.

*Restore.* `Files` says what each file may hold and `Calm` what each step of an
undisturbed restore has established: after the snapshot there is no log left, after
the verification the copy is the source, at the rename the database is still the old one.
For the refinement `Given` adds that the file asked for is among the backups. Then
`Move` is `Replace`; a checkpoint, a kill, the removal of an empty log and a dying script
leave the content alone (`WrittenBack`, `Unseen`), wherever it lies.

Left to TLC: `Resumes`, `NoEndlessSplash`, `RetryFinds` and the fairness of
`KeepsPromise` (liveness under fairness is beyond the prover).

## 6. What is left

Worth adding, in this order:

1. The text of the title boxes in `Pages`: a title typed while a create is pending is
   cleared by its `onSuccess`, and a title whose create was timed out is cleared too.
2. The root boundary of `main.tsx`, and several tabs on one storage, in `Shell`.
3. The composition of `Desktop` and `Startup`: two sidecars that migrate one file at
   once after a hard kill, migration by migration.

Not modelled, and why: `new-plugin.sh` (run once by a developer on a checked-out
tree, where git shows what an interrupted run left); two processes seeding one
file (documented as unsupported); a restore beside a running server (the script
rules it out; the model has the case and the properties except it); two restores at
once (assumed away); the SPA
fallback and the OpenAPI document (static content); CORS, tracing, body limit and
request ids (no state); Home's own wording, which can say "unreachable" beside the
last version it knew; layout and styling; the build scripts (the outcome is that of
the tools they call).
