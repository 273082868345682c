------------------------------ MODULE BlogList ------------------------------
(***************************************************************************)
(* What a client sees of many posts at once while the handlers of          *)
(* BlogPosts run: list_posts, walked page by page, and post_stats          *)
(* (plugins/blog/src/lib.rs). Either is one SELECT, so it reads one state  *)
(* of the table; but a walk is several, at offsets that count rows, and    *)
(* the rows move meanwhile: a new post shifts the pages of every list it   *)
(* is in, and a published one leaves the drafts.                           *)
(*                                                                         *)
(* The client of the walk is outside the repository (the interface asks    *)
(* for the first page only): it asks for one size throughout, skips the    *)
(* rows it has been given, and stops at an empty page, or at a short one   *)
(* if the size it asks for is one the documentation allows. A read that    *)
(* fails is asked again and so left out.                                   *)
(***************************************************************************)
EXTENDS BlogPosts, Integers, FiniteSets

CONSTANTS MaxPage,  \* most rows of a page, 100 in the code
          Limits    \* values of ?limit= the client may send

ASSUME PageAssumption == MaxPage \in Nat \ {0} /\ Limits \subseteq Int
ASSUME PostIdAssumption == IsFiniteSet(PostId)

VARIABLES
    walk,    \* "none", "walking" or "over"
    filter,  \* ?status=, "all" without one
    limit,   \* ?limit=
    offset,  \* ?offset=, the rows received so far
    listed,  \* the posts received so far
    since,   \* history: the posts in the list when the walk began
    left,    \* history: a post has left the list since
    counts   \* the last answer of post_stats

walkVars == <<walk, filter, limit, offset, listed, since, left>>
lvars == <<vars, walkVars, counts>>

LInit ==
    /\ Init
    /\ walk = "none"
    /\ filter = "all"
    /\ limit = 1
    /\ offset = 0
    /\ listed = {}
    /\ since = {}
    /\ left = FALSE
    /\ counts = [s \in PostStatus |-> 0]

-----------------------------------------------------------------------------
(* list_posts *)

\* WHERE status = ?1, or no WHERE
InList(p, f) == status[p] # "absent" /\ f \in {"all", status[p]}
Rows(f) == {p \in PostId : InList(p, f)}

AtMost(l) == IF l > MaxPage THEN MaxPage ELSE l   \* mutation of Limit: limit.min(100)
Limit(l) == IF l < 1 THEN 1 ELSE AtMost(l)

\* ORDER BY created_at DESC: all of S may come before all of T.
NotOlder(S, T) == \A s \in S, t \in T : createdAt[s] >= createdAt[t]

Smaller(a, b) == IF a < b THEN a ELSE b

\* P is the page after the first skip of the rows R; A are the rows skipped. Nothing
\* breaks a tie of two creation times.
IsPage(P, R, size, skip) ==
    \E A \in SUBSET (R \ P) :
        /\ Cardinality(A) = Smaller(skip, Cardinality(R))
        /\ Cardinality(P) = Smaller(size, Cardinality(R) - Cardinality(A))
        /\ NotOlder(A, R \ A)
        /\ NotOlder(P, R \ (A \cup P))

\* No row need follow: the page is shorter than the client knows it to be at most.
LastPage(P) ==
    Cardinality(P) < IF limit \in 1..MaxPage THEN limit ELSE 1

Begin ==
    /\ walk = "none"
    /\ walk' = "walking"
    /\ filter' \in PostStatus \cup {"all"}
    /\ limit' \in Limits
    /\ since' = Rows(filter')
    /\ UNCHANGED <<offset, listed, left>>

Page ==
    /\ walk = "walking"
    /\ \E P \in SUBSET Rows(filter) :
          /\ IsPage(P, Rows(filter), Limit(limit), offset)
          /\ listed' = listed \cup P
          /\ offset' = offset + Cardinality(P)
          /\ walk' = IF LastPage(P) THEN "over" ELSE "walking"
    /\ UNCHANGED <<filter, limit, since, left>>

-----------------------------------------------------------------------------
(* post_stats *)

\* The field a group's count is stored in.
Swapped(s) == IF s = "draft" THEN "archived"   \* mutation of Field: two arms exchanged
              ELSE IF s = "archived" THEN "draft" ELSE s
Field(s) == s

Stats == counts' = [s \in PostStatus |-> Cardinality({p \in PostId : status[p] = Field(s)})]

-----------------------------------------------------------------------------

\* A step of the handlers, noting which posts leave the list being walked.
Handle ==
    /\ Next
    /\ UNCHANGED <<walk, filter, limit, offset, listed, since, counts>>
    /\ left' = (left \/ \E p \in PostId : InList(p, filter) /\ ~InList(p, filter)')

LNext ==
    \/ Handle
    \/ (Begin \/ Page) /\ UNCHANGED <<vars, counts>>
    \/ Stats /\ UNCHANGED <<vars, walkVars>>

LSpec == LInit /\ [][LNext]_lvars

-----------------------------------------------------------------------------
(* Properties *)

\* No other row was created at the same reading of the clock.
Untied(p) == \A q \in PostId \ {p} : status[q] # "absent" => createdAt[q] # createdAt[p]

\* A walk over all posts or over the archived ones, whatever size it asks for, has been
\* given every post that was there when it began, although posts are created and moved
\* between its pages, in any order and late; so has a walk over drafts or published
\* posts unless one of them moved on meanwhile. (Offsets pass over the row behind
\* one that leaves.)
MissesNone ==
    walk = "over" /\ (filter \in {"all", "archived"} \/ ~left) =>
        \A p \in since : Untied(p) => p \in listed

\* Of two statistics the later never has fewer posts, fewer past draft or fewer
\* archived: they show the lifecycle moving on, through races and crashes.
PastDraft(c) == c["published"] + c["archived"]

Grows ==
    /\ counts'["archived"] >= counts["archived"]
    /\ PastDraft(counts') >= PastDraft(counts)
    /\ counts'["draft"] + PastDraft(counts') >= counts["draft"] + PastDraft(counts)

StatsGrow == [][Grows]_lvars
=============================================================================
