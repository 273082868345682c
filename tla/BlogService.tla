---------------------------- MODULE BlogService ----------------------------
(***************************************************************************)
(* What the blog plugin promises its clients, with every request taking    *)
(* effect in one indivisible step:                                         *)
(*                                                                         *)
(*  - a post goes absent -> draft -> published -> archived and never back; *)
(*  - its publish time is stamped by the step that publishes it, only then;*)
(*  - a request that is told it succeeded took effect exactly once, at one *)
(*    instant between its arrival and its answer; one that is refused, or  *)
(*    told the id is unknown, took no effect and the state of the table at *)
(*    such an instant justifies the refusal;                               *)
(*  - a request that got no verdict (timeout, error, crash) took effect at *)
(*    most once.                                                           *)
(*                                                                         *)
(* BlogPosts, the handlers statement by statement, implements it.          *)
(***************************************************************************)
CONSTANTS PostId, Request, Time, NoPost, NoTime

VARIABLES
    status,       \* lifecycle state of every id, "absent" before its row exists
    publishedAt,  \* the published_at column, NoTime for NULL
    op,           \* what each request asks for
    id,           \* the post it asks it of
    result        \* what became of it

svars == <<status, publishedAt, op, id, result>>

PostStatus == {"absent", "draft", "published", "archived"}

\* The state a request must find its post in, and the state it leaves it in.
From(o) == CASE o = "create" -> "absent" [] o = "publish" -> "draft"
             [] o = "archive" -> "published" [] OTHER -> "none"

To(o) == CASE o = "create" -> "draft" [] o = "publish" -> "published"
           [] OTHER -> "archived"

SInit ==
    /\ status = [p \in PostId |-> "absent"]
    /\ publishedAt = [p \in PostId |-> NoTime]
    /\ op = [r \in Request |-> "none"]
    /\ id = [r \in Request |-> NoPost]
    /\ result = [r \in Request |-> "idle"]

Open(r) ==
    /\ result[r] = "idle"
    /\ \E o \in {"create", "get", "publish", "archive"}, p \in PostId :
          /\ op' = [op EXCEPT ![r] = o]
          /\ id' = [id EXCEPT ![r] = p]
    /\ result' = [result EXCEPT ![r] = "open"]
    /\ UNCHANGED <<status, publishedAt>>

\* A create whose title is blank is refused as it arrives.
OpenInvalid(r) ==
    /\ result[r] = "idle"
    /\ op' = [op EXCEPT ![r] = "create"]
    /\ result' = [result EXCEPT ![r] = "refused"]
    /\ UNCHANGED <<status, publishedAt, id>>

\* The request takes effect: the post moves one state along its lifecycle.
Apply(r) ==
    /\ result[r] = "open"
    /\ op[r] # "get"
    /\ status[id[r]] = From(op[r])
    /\ status' = [status EXCEPT ![id[r]] = To(op[r])]
    /\ IF op[r] = "publish"
         THEN \E t \in Time : publishedAt' = [publishedAt EXCEPT ![id[r]] = t]
         ELSE publishedAt' = publishedAt
    /\ result' = [result EXCEPT ![r] = "applied"]
    /\ UNCHANGED <<op, id>>

\* The request ends without an effect; the table says which answer is fair.
Verdict(r) ==
    /\ result[r] = "open"
    /\ \/ /\ op[r] = "get"
          /\ status[id[r]] # "absent"
          /\ result' = [result EXCEPT ![r] = "applied"]
       \/ /\ status[id[r]] = "absent"
          /\ result' = [result EXCEPT ![r] = "unknown id"]
       \/ /\ op[r] # "get"
          /\ status[id[r]] \notin {"absent", From(op[r])}
          /\ result' = [result EXCEPT ![r] = "refused"]
    /\ UNCHANGED <<status, publishedAt, op, id>>

\* Requests that will never have an effect nor a verdict: a crash ends several.
GiveUp ==
    /\ \E R \in SUBSET {r \in Request : result[r] = "open"} :
          result' = [r \in Request |-> IF r \in R THEN "void" ELSE result[r]]
    /\ UNCHANGED <<status, publishedAt, op, id>>

SNext ==
    \/ \E r \in Request : Open(r) \/ OpenInvalid(r) \/ Apply(r) \/ Verdict(r)
    \/ GiveUp

SSpec == SInit /\ [][SNext]_svars
=============================================================================
