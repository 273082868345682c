----------------------------- MODULE TodoItems -----------------------------
(***************************************************************************)
(* The todo plugin (plugins/todo/src/lib.rs): the table todo_items and the *)
(* handlers that create, toggle and delete an item, any number of which    *)
(* run at once. As in the blog plugin every statement is a transaction of  *)
(* its own, a handler may be dropped by the TimeoutLayer at any .await     *)
(* with its statement still on its way to SQLite ("orphan"), and the       *)
(* process may die between two steps. Unlike a post, an item can be        *)
(* deleted between the statements of a handler, and a toggle has no guard  *)
(* that a second one would fail: every toggle counts.                      *)
(*                                                                         *)
(* list_todos reads one snapshot and changes nothing: it is left out.      *)
(***************************************************************************)
EXTENDS Naturals, FiniteSets

CONSTANTS TodoId,   \* ids Uuid::new_v4 can generate
          Request,  \* requests the clients will send, each used once
          NoTodo    \* the id of a request that has none

ASSUME TodoIdAssumption == NoTodo \notin TodoId
ASSUME RequestAssumption == IsFiniteSet(Request)

VARIABLES
    item,     \* todo_items: "absent" without a row, else its done flag
    pc,       \* the statement each request's handler awaits next
    op,       \* the route it matched
    id,       \* the item it is about
    changed,  \* whether its write changed a row
    code,     \* the HTTP status of its answer, 0 for none
    shown     \* the done flag of the Todo in its answer

vars == <<item, pc, op, id, changed, code, shown>>

Done == {"open", "done"}
Waiting == {"write", "reread"}

Init ==
    /\ item = [t \in TodoId |-> "absent"]
    /\ pc = [r \in Request |-> "idle"]
    /\ op = [r \in Request |-> "none"]
    /\ id = [r \in Request |-> NoTodo]
    /\ changed = [r \in Request |-> FALSE]
    /\ code = [r \in Request |-> 0]
    /\ shown = [r \in Request |-> "none"]

Answer(r, c, s) ==
    /\ pc' = [pc EXCEPT ![r] = "done"]
    /\ code' = [code EXCEPT ![r] = c]
    /\ shown' = [shown EXCEPT ![r] = s]

\* No v4 id is ever generated twice.
Fresh(t) == item[t] = "absent" /\ \A r \in Request : op[r] = "create" => id[r] # t

CreateTodo(r) ==
    /\ pc[r] = "idle"
    /\ op' = [op EXCEPT ![r] = "create"]
    /\ \/ \* the trimmed title is empty
          /\ Answer(r, 400, "none")
          /\ UNCHANGED id
       \/ /\ \E t \in TodoId : Fresh(t) /\ id' = [id EXCEPT ![r] = t]
          /\ pc' = [pc EXCEPT ![r] = "write"]
          /\ UNCHANGED <<code, shown>>
    /\ UNCHANGED <<item, changed>>

Arrive(r) ==
    /\ pc[r] = "idle"
    /\ \E o \in {"toggle", "delete"}, t \in TodoId :
          /\ op' = [op EXCEPT ![r] = o]
          /\ id' = [id EXCEPT ![r] = t]
    /\ pc' = [pc EXCEPT ![r] = "write"]
    /\ UNCHANGED <<item, changed, code, shown>>

\* SET done = NOT done
SetDone(i) == "done"                  \* mutation of Flip: SET done = TRUE
Flip(i) == IF i = "open" THEN "done" ELSE "open"

\* The row the INSERT, the UPDATE or the DELETE finds, and what it leaves.
Upserts(r) == TRUE                    \* mutation of Hits: rows_affected not looked at
Hits(r) == op[r] = "create" \/ item[id[r]] # "absent"

Left(r) == CASE op[r] = "create" -> "open"
             [] op[r] = "toggle" -> Flip(item[id[r]])
             [] OTHER -> "absent"

Write(r) ==
    /\ item' = IF Hits(r) THEN [item EXCEPT ![id[r]] = Left(r)] ELSE item
    /\ changed' = [changed EXCEPT ![r] = Hits(r)]

Insert(r) ==
    /\ pc[r] = "write"
    /\ op[r] = "create"
    /\ Write(r)
    /\ Answer(r, 201, "open")
    /\ UNCHANGED <<op, id>>

Toggle(r) ==
    /\ pc[r] = "write"
    /\ op[r] = "toggle"
    /\ Write(r)
    /\ \/ ~Hits(r) /\ Answer(r, 404, "none")
       \/ Hits(r) /\ pc' = [pc EXCEPT ![r] = "reread"] /\ UNCHANGED <<code, shown>>
    /\ UNCHANGED <<op, id>>

Gone(r) == item[id[r]] = "absent"

Assumed(r) == "done"                  \* mutation of ReadBack: the flag is not read again
ReadBack(r) == item[id[r]]

\* The item may be gone again, or toggled again, by the time it is read back.
Reread(r) ==
    /\ pc[r] = "reread"
    /\ \/ Gone(r) /\ Answer(r, 404, "none")
       \/ ~Gone(r) /\ Answer(r, 200, ReadBack(r))
    /\ UNCHANGED <<item, op, id, changed>>

Idempotent(r) == 204                  \* mutation of DeleteCode: nothing to delete is success
DeleteCode(r) == IF Hits(r) THEN 204 ELSE 404

Delete(r) ==
    /\ pc[r] = "write"
    /\ op[r] = "delete"
    /\ Write(r)
    /\ Answer(r, DeleteCode(r), "none")
    /\ UNCHANGED <<op, id>>

\* The awaited statement fails without an effect: AppError::Sqlx.
SqlError(r) ==
    /\ pc[r] \in Waiting
    /\ Answer(r, 500, "none")
    /\ UNCHANGED <<item, op, id, changed>>

\* The TimeoutLayer drops the handler; its write may already be with SQLite.
TimedOut(r) ==
    /\ pc[r] \in Waiting
    /\ \/ Answer(r, 408, "none")
       \/ /\ pc[r] = "write"
          /\ pc' = [pc EXCEPT ![r] = "orphan"]
          /\ code' = [code EXCEPT ![r] = 408]
          /\ UNCHANGED shown
    /\ UNCHANGED <<item, op, id, changed>>

LateWrite(r) ==
    /\ pc[r] = "orphan"
    /\ Write(r)
    /\ pc' = [pc EXCEPT ![r] = "done"]
    /\ UNCHANGED <<op, id, code, shown>>

\* The process dies and is started again on the same file.
Crash ==
    /\ \E r \in Request : pc[r] \in Waiting \cup {"orphan"}
    /\ pc' = [r \in Request |-> IF pc[r] = "idle" THEN "idle" ELSE "done"]
    /\ UNCHANGED <<item, op, id, changed, code, shown>>

Serve(r) ==
    \/ CreateTodo(r) \/ Arrive(r) \/ Insert(r) \/ Toggle(r) \/ Reread(r) \/ Delete(r)
    \/ SqlError(r) \/ TimedOut(r) \/ LateWrite(r)

Next == (\E r \in Request : Serve(r)) \/ Crash

Spec == Init /\ [][Next]_vars

-----------------------------------------------------------------------------
(* Properties *)

TypeOK ==
    /\ item \in [TodoId -> Done \cup {"absent"}]
    /\ pc \in [Request -> Waiting \cup {"idle", "orphan", "done"}]
    /\ op \in [Request -> {"none", "create", "toggle", "delete"}]
    /\ id \in [Request -> TodoId \cup {NoTodo}]
    /\ changed \in [Request -> BOOLEAN]
    /\ code \in [Request -> {0, 200, 201, 204, 400, 404, 408, 500}]
    /\ shown \in [Request -> Done \cup {"none"}]

Effective(o, t) == {r \in Request : op[r] = o /\ id[r] = t /\ changed[r]}

\* The done flag of an item is the parity of the toggles that ran on it, those whose
\* client was told nothing or a timeout included: no interleaving loses one.
NoLostToggle ==
    \A t \in TodoId : item[t] # "absent" =>
        (item[t] = "done" <=> Cardinality(Effective("toggle", t)) % 2 = 1)

\* An item that is there was created by one request and deleted by none; one that is
\* not was deleted by as many as created it, at most one. Nothing brings a deleted
\* item back, a late toggle of a dropped handler neither.
CreatedAndDeletedOnce ==
    \A t \in TodoId :
        /\ Cardinality(Effective("create", t)) <= 1
        /\ Cardinality(Effective("delete", t)) =
              IF item[t] = "absent" THEN Cardinality(Effective("create", t)) ELSE 0
        /\ item[t] # "absent" => Effective("create", t) # {}

\* Success is told to those whose write changed a row, and only to them; a toggle
\* that took effect and is answered 404 lost its item to a delete in between; a
\* failed create or delete that was given a verdict changed nothing.
ToldTheTruth ==
    \A r \in Request :
        /\ code[r] \in {200, 201, 204} => changed[r]
        /\ code[r] = 404 /\ changed[r] =>
              op[r] = "toggle" /\ Effective("delete", id[r]) # {}
        /\ code[r] = 400 => ~changed[r]

\* The life of an item, for TodoService: a row that was created and is gone is deleted.
Row(t) == IF item[t] = "absent" /\ Effective("create", t) # {} THEN "deleted" ELSE item[t]

\* What became of a request, for TodoService.
Result(r) ==
    IF pc[r] = "idle" THEN "idle"
    ELSE IF changed[r] \/ code[r] \in {200, 201, 204} THEN "applied"
    ELSE IF code[r] = 400 THEN "refused"
    ELSE IF code[r] = 404 THEN "unknown id"
    ELSE IF pc[r] = "done" THEN "void"
    ELSE "open"

Service == INSTANCE TodoService WITH
    row <- [t \in TodoId |-> Row(t)],
    result <- [r \in Request |-> Result(r)],
    told <- shown

\* The handlers, statement by statement and with timeouts, errors and crashes,
\* implement the service in which each request takes effect at one instant and a
\* deleted item is gone for good.
Implements == Service!SSpec
=============================================================================
