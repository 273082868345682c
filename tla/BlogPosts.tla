----------------------------- MODULE BlogPosts -----------------------------
(***************************************************************************)
(* The blog plugin's post lifecycle (plugins/blog/src/lib.rs): the table   *)
(* blog_posts and the handlers that create, read, publish and archive a    *)
(* post, any number of which run at once on the server's runtime.          *)
(*                                                                         *)
(* No handler opens a transaction. Each SQL statement is atomic by itself  *)
(* and every .await between two of them is a point where the other         *)
(* requests run, where the 30 s TimeoutLayer may drop the handler and      *)
(* answer 408, and where the process may die. A statement already handed   *)
(* to the SQLite worker thread when its handler is dropped may still run   *)
(* later: such a request waits in "orphan" here.                           *)
(*                                                                         *)
(* Each member of Request is one HTTP request and is used once, so its     *)
(* answer stays readable. MaxTime bounds the clock for TLC.                *)
(***************************************************************************)
EXTENDS Naturals

CONSTANTS PostId,   \* ids Uuid::new_v4 can generate
          Request,  \* requests the clients will send
          NoPost,   \* the id of a request that has none
          MaxTime   \* last reading of the clock

ASSUME IdAssumption == NoPost \notin PostId
ASSUME ClockAssumption == MaxTime \in Nat \ {0}

VARIABLES
    status,       \* blog_posts.status, "absent" while the id has no row
    createdAt,    \* blog_posts.created_at
    publishedAt,  \* blog_posts.published_at, NoTime for NULL
    now,          \* what Utc::now() reads
    pc,           \* the statement each request's handler awaits next
    op,           \* the route each request matched
    id,           \* the post it is about
    stamp,        \* the Utc::now() bound into its INSERT or UPDATE
    changed,      \* whether its INSERT or UPDATE changed a row
    code,         \* the HTTP status of its answer, 0 for none
    shown         \* the status field of the Post in its answer

table == <<status, createdAt, publishedAt>>
vars == <<status, createdAt, publishedAt, now, pc, op, id, stamp, changed,
          code, shown>>

NoTime == 0
Time == 1..MaxTime

PostStatus == {"draft", "published", "archived"}
Waiting == {"insert", "lookup", "update", "reread", "resolve"}

From(o) == IF o = "publish" THEN "draft" ELSE "published"
To(o) == IF o = "publish" THEN "published" ELSE "archived"

Init ==
    /\ status = [p \in PostId |-> "absent"]
    /\ createdAt = [p \in PostId |-> NoTime]
    /\ publishedAt = [p \in PostId |-> NoTime]
    /\ now = 1
    /\ pc = [r \in Request |-> "idle"]
    /\ op = [r \in Request |-> "none"]
    /\ id = [r \in Request |-> NoPost]
    /\ stamp = [r \in Request |-> NoTime]
    /\ changed = [r \in Request |-> FALSE]
    /\ code = [r \in Request |-> 0]
    /\ shown = [r \in Request |-> "none"]

Await(r, step) == pc' = [pc EXCEPT ![r] = step]

\* The handler returns: an error code with no post, or a post as it was read.
Answer(r, c) ==
    /\ pc' = [pc EXCEPT ![r] = "done"]
    /\ code' = [code EXCEPT ![r] = c]
    /\ UNCHANGED shown

AnswerPost(r, c, s) ==
    /\ pc' = [pc EXCEPT ![r] = "done"]
    /\ code' = [code EXCEPT ![r] = c]
    /\ shown' = [shown EXCEPT ![r] = s]

-----------------------------------------------------------------------------
(* create_post *)

\* No v4 id is ever generated twice.
Fresh(p) == status[p] = "absent" /\ \A r \in Request : op[r] = "create" => id[r] # p

CreatePost(r) ==
    /\ pc[r] = "idle"
    /\ op' = [op EXCEPT ![r] = "create"]
    /\ \/ \* the trimmed title is empty
          /\ Answer(r, 400)
          /\ UNCHANGED <<id, stamp>>
       \/ /\ \E p \in PostId : Fresh(p) /\ id' = [id EXCEPT ![r] = p]
          /\ stamp' = [stamp EXCEPT ![r] = now]
          /\ Await(r, "insert")
          /\ UNCHANGED <<code, shown>>
    /\ UNCHANGED <<table, now, changed>>

\* The INSERT: published_at is left to its default, NULL.
RunInsert(r) ==
    /\ status' = [status EXCEPT ![id[r]] = "draft"]
    /\ createdAt' = [createdAt EXCEPT ![id[r]] = stamp[r]]
    /\ changed' = [changed EXCEPT ![r] = TRUE]
    /\ UNCHANGED publishedAt

Insert(r) ==
    /\ pc[r] = "insert"
    /\ RunInsert(r)
    /\ AnswerPost(r, 201, "draft")
    /\ UNCHANGED <<now, op, id, stamp>>

-----------------------------------------------------------------------------
(* get_post, publish_post, archive_post *)

Arrive(r) ==
    /\ pc[r] = "idle"
    /\ \E o \in {"get", "publish", "archive"}, p \in PostId :
          /\ op' = [op EXCEPT ![r] = o]
          /\ id' = [id EXCEPT ![r] = p]
    /\ Await(r, "lookup")
    /\ UNCHANGED <<table, now, stamp, changed, code, shown>>

\* get(...).ok_or(NotFound)
Missing(r) == status[id[r]] = "absent"

\* The first get. A move that finds its source state goes on to the UPDATE,
\* whose publish time is read here.
Lookup(r) ==
    /\ pc[r] = "lookup"
    /\ \/ /\ Missing(r)
          /\ Answer(r, 404)
          /\ UNCHANGED stamp
       \/ /\ op[r] = "get"
          /\ ~Missing(r)
          /\ AnswerPost(r, 200, status[id[r]])
          /\ UNCHANGED stamp
       \/ /\ op[r] # "get"
          /\ ~Missing(r)
          /\ status[id[r]] # From(op[r])
          /\ Answer(r, 400)
          /\ UNCHANGED stamp
       \/ /\ op[r] # "get"
          /\ status[id[r]] = From(op[r])
          /\ Await(r, "update")
          /\ stamp' = IF op[r] = "publish" THEN [stamp EXCEPT ![r] = now] ELSE stamp
          /\ UNCHANGED <<code, shown>>
    /\ UNCHANGED <<table, now, op, id, changed>>

\* UPDATE ... WHERE id = ?1 AND status = from
MatchesAnyStatus(r) == ~Missing(r)       \* mutation of Matches: WHERE id = ?1
Matches(r) == status[id[r]] = From(op[r])

\* The published_at the UPDATE leaves in the row.
BindsStamp(r) == stamp[r]                \* mutation of NewPublishedAt: archive binds None
NewPublishedAt(r) == IF op[r] = "publish" THEN stamp[r] ELSE publishedAt[id[r]]

RunUpdate(r) ==
    /\ status' = IF Matches(r) THEN [status EXCEPT ![id[r]] = To(op[r])] ELSE status
    /\ publishedAt' = IF Matches(r)
                        THEN [publishedAt EXCEPT ![id[r]] = NewPublishedAt(r)]
                        ELSE publishedAt
    /\ changed' = [changed EXCEPT ![r] = Matches(r)]
    /\ UNCHANGED createdAt

Update(r) ==
    /\ pc[r] = "update"
    /\ RunUpdate(r)
    /\ Await(r, IF Matches(r) THEN "reread" ELSE "resolve")
    /\ UNCHANGED <<now, op, id, stamp, code, shown>>

\* The get after the UPDATE that answers with the row as it is by then ...
FirstRead(r) == From(op[r])              \* mutation of ReadBack: the first get's post
ReadBack(r) == status[id[r]]

Reread(r) ==
    /\ pc[r] = "reread"
    /\ IF Missing(r) THEN Answer(r, 404) ELSE AnswerPost(r, 200, ReadBack(r))
    /\ UNCHANGED <<table, now, op, id, stamp, changed>>

\* ... and the one after a lost race, which picks the code of the refusal.
BlanketNotFound(r) == 404                \* mutation of LostRaceCode: not re-resolved
LostRaceCode(r) == IF Missing(r) THEN 404 ELSE 400

Resolve(r) ==
    /\ pc[r] = "resolve"
    /\ Answer(r, LostRaceCode(r))
    /\ UNCHANGED <<table, now, op, id, stamp, changed>>

-----------------------------------------------------------------------------
(* What happens around a handler *)

\* The awaited statement fails (SQLITE_BUSY after busy_timeout, no connection
\* within the pool's limit, an I/O error) without an effect: AppError::Internal.
SqlError(r) ==
    /\ pc[r] \in Waiting
    /\ Answer(r, 500)
    /\ UNCHANGED <<table, now, op, id, stamp, changed>>

\* The TimeoutLayer drops the handler. A write may already be with SQLite.
TimedOut(r) ==
    /\ pc[r] \in Waiting
    /\ \/ Answer(r, 408)
       \/ /\ pc[r] \in {"insert", "update"}
          /\ pc' = [pc EXCEPT ![r] = "orphan"]
          /\ code' = [code EXCEPT ![r] = 408]
          /\ UNCHANGED shown
    /\ UNCHANGED <<table, now, op, id, stamp, changed>>

\* The write nobody waits for any more runs after all.
LateWrite(r) ==
    /\ pc[r] = "orphan"
    /\ \/ op[r] = "create" /\ RunInsert(r)
       \/ op[r] # "create" /\ RunUpdate(r)
    /\ Await(r, "done")
    /\ UNCHANGED <<now, op, id, stamp, code, shown>>

\* The process dies and is started again on the same database file: the table
\* survives, every request in flight is gone without an answer.
Crash ==
    /\ \E r \in Request : pc[r] \in Waiting \cup {"orphan"}
    /\ pc' = [r \in Request |-> IF pc[r] = "idle" THEN "idle" ELSE "done"]
    /\ UNCHANGED <<table, now, op, id, stamp, changed, code, shown>>

Tick ==
    /\ now < MaxTime
    /\ now' = now + 1
    /\ UNCHANGED <<table, pc, op, id, stamp, changed, code, shown>>

Serve(r) ==
    \/ CreatePost(r) \/ Insert(r) \/ Arrive(r) \/ Lookup(r) \/ Update(r)
    \/ Reread(r) \/ Resolve(r) \/ SqlError(r) \/ TimedOut(r) \/ LateWrite(r)

Next == (\E r \in Request : Serve(r)) \/ Crash \/ Tick

Spec == Init /\ [][Next]_vars

-----------------------------------------------------------------------------
(* Properties *)

\* Every column and every handler variable keeps its type; a handler past its
\* arrival is about a post.
TypeOK ==
    /\ status \in [PostId -> PostStatus \cup {"absent"}]
    /\ createdAt \in [PostId -> Time \cup {NoTime}]
    /\ publishedAt \in [PostId -> Time \cup {NoTime}]
    /\ now \in Time
    /\ pc \in [Request -> Waiting \cup {"idle", "orphan", "done"}]
    /\ op \in [Request -> {"none", "create", "get", "publish", "archive"}]
    /\ id \in [Request -> PostId \cup {NoPost}]
    /\ stamp \in [Request -> Time \cup {NoTime}]
    /\ changed \in [Request -> BOOLEAN]
    /\ code \in [Request -> {0, 200, 201, 400, 404, 408, 500}]
    /\ shown \in [Request -> PostStatus \cup {"none"}]

\* A row has a publish time exactly when it has left draft, and that time is not
\* before its creation although the two are read by different requests, each some
\* statements before it writes. Archiving, a lost race and a late UPDATE of a
\* dropped handler leave the stamp alone.
Stamps ==
    \A p \in PostId :
        /\ (publishedAt[p] # NoTime) <=> (status[p] \in {"published", "archived"})
        /\ publishedAt[p] # NoTime => createdAt[p] \in 1..publishedAt[p]

\* Whatever the races, timeouts and crashes, a post that was created, published or
\* archived was so by exactly one request, and a post that was not, by none: the
\* guarded UPDATE never has two winners, and none is lost or made up.
Winners(o, p) == {r \in Request : op[r] = o /\ id[r] = p /\ changed[r]}

Unique(S) == \E r \in S : S = {r}

OneWinnerAt(p) ==
    /\ IF status[p] = "absent" THEN Winners("create", p) = {}
                               ELSE Unique(Winners("create", p))
    /\ IF status[p] \in {"absent", "draft"} THEN Winners("publish", p) = {}
                                            ELSE Unique(Winners("publish", p))
    /\ IF status[p] = "archived" THEN Unique(Winners("archive", p))
                                 ELSE Winners("archive", p) = {}

OneWinner == \A p \in PostId : OneWinnerAt(p)

\* Success is answered only by a request that changed its row itself, with a post at
\* least as far along as it moved it; a get or a move never shows a state the
\* post has not reached; a refused request changed nothing; and when publish is
\* refused, the post is past draft for good.
Rank(s) == CASE s = "draft" -> 1 [] s = "published" -> 2 [] s = "archived" -> 3 [] OTHER -> 0

HonestAnswers ==
    \A r \in Request :
        /\ code[r] \in {200, 201} =>
              /\ shown[r] \in PostStatus
              /\ Rank(shown[r]) <= Rank(status[id[r]])
              /\ op[r] \in {"publish", "archive"} =>
                    changed[r] /\ Rank(shown[r]) >= Rank(To(op[r]))
        /\ code[r] \in {400, 404} => ~changed[r]
        /\ code[r] = 400 /\ op[r] = "publish" => status[id[r]] \in {"published", "archived"}

\* No step takes a row away, changes its creation time or overwrites its publish time.
KeepsRows ==
    \A p \in PostId :
        /\ status[p] # "absent" => status'[p] # "absent" /\ createdAt'[p] = createdAt[p]
        /\ publishedAt[p] # NoTime => publishedAt'[p] = publishedAt[p]

WriteOnce == [][KeepsRows]_vars

\* What the API description says of publish: a 200 carries the "Published post"
\* (plugins/blog/src/lib.rs:332). An archive between the UPDATE and the second get
\* makes it an archived one.
PublishShowsPublished ==
    \A r \in Request : op[r] = "publish" /\ code[r] = 200 => shown[r] = "published"

\* What became of a request, for BlogService.
Result(r) ==
    IF pc[r] = "idle" THEN "idle"
    ELSE IF changed[r] \/ code[r] = 200 THEN "applied"
    ELSE IF code[r] = 400 THEN "refused"
    ELSE IF code[r] = 404 THEN "unknown id"
    ELSE IF pc[r] = "done" THEN "void"
    ELSE "open"

Service == INSTANCE BlogService WITH result <- [r \in Request |-> Result(r)]

\* The handlers, statement by statement, implement the service in which each
\* request takes effect at one instant between its arrival and its answer.
Implements == Service!SSpec
=============================================================================
