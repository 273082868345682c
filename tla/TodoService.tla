---------------------------- MODULE TodoService ----------------------------
(***************************************************************************)
(* What the todo plugin promises its clients, with every request taking    *)
(* effect in one indivisible step:                                         *)
(*                                                                         *)
(*  - an item is created open, toggled any number of times and deleted     *)
(*    for good: "deleted" is not "absent", nothing leads out of it;        *)
(*  - a request that is told it succeeded took effect once, between its    *)
(*    arrival and its answer, and the flag it is told is one the item had  *)
(*    at that instant or later;                                            *)
(*  - a request that is told its id is unknown, without having had an      *)
(*    effect, met no item at some instant;                                 *)
(*  - a request without a verdict (timeout, error, crash) took effect at   *)
(*    most once.                                                           *)
(*                                                                         *)
(* TodoItems, the handlers statement by statement, implements it.          *)
(***************************************************************************)
CONSTANTS TodoId, Request, NoTodo

VARIABLES
    row,     \* life of every item
    op,      \* what each request asks for
    id,      \* the item it asks it of
    result,  \* what became of it
    told     \* the done flag in its answer

svars == <<row, op, id, result, told>>

There == {"open", "done"}

SInit ==
    /\ row = [t \in TodoId |-> "absent"]
    /\ op = [r \in Request |-> "none"]
    /\ id = [r \in Request |-> NoTodo]
    /\ result = [r \in Request |-> "idle"]
    /\ told = [r \in Request |-> "none"]

Open(r) ==
    /\ result[r] = "idle"
    /\ \E o \in {"create", "toggle", "delete"}, t \in TodoId :
          /\ op' = [op EXCEPT ![r] = o]
          /\ id' = [id EXCEPT ![r] = t]
    /\ result' = [result EXCEPT ![r] = "open"]
    /\ UNCHANGED <<row, told>>

\* A create whose title is blank is refused as it arrives.
OpenInvalid(r) ==
    /\ result[r] = "idle"
    /\ op' = [op EXCEPT ![r] = "create"]
    /\ result' = [result EXCEPT ![r] = "refused"]
    /\ UNCHANGED <<row, id, told>>

\* One move of an item's life.
Moves(o, from, to) ==
    \/ o = "create" /\ from = "absent" /\ to = "open"
    \/ o = "toggle" /\ <<from, to>> \in {<<"open", "done">>, <<"done", "open">>}
    \/ o = "delete" /\ from \in There /\ to = "deleted"

\* The request takes effect; the answer to a create needs no second look.
Apply(r) ==
    /\ result[r] = "open"
    /\ \E to \in There \cup {"deleted"} :
          /\ Moves(op[r], row[id[r]], to)
          /\ row' = [row EXCEPT ![id[r]] = to]
    /\ result' = [result EXCEPT ![r] = "applied"]
    /\ \/ op[r] = "create" /\ told' = [told EXCEPT ![r] = "open"]
       \/ UNCHANGED told
    /\ UNCHANGED <<op, id>>

\* A toggle that took effect is told the flag as it is by now.
Report(r) ==
    /\ result[r] = "applied"
    /\ op[r] = "toggle"
    /\ row[id[r]] \in There
    /\ told' = [told EXCEPT ![r] = row[id[r]]]
    /\ UNCHANGED <<row, op, id, result>>

\* The request finds no item and ends without an effect.
Unknown(r) ==
    /\ result[r] = "open"
    /\ op[r] # "create"
    /\ row[id[r]] \notin There
    /\ result' = [result EXCEPT ![r] = "unknown id"]
    /\ UNCHANGED <<row, op, id, told>>

\* Requests that will never have an effect nor a verdict: a crash ends several.
GiveUp ==
    /\ \E R \in SUBSET {r \in Request : result[r] = "open"} :
          result' = [r \in Request |-> IF r \in R THEN "void" ELSE result[r]]
    /\ UNCHANGED <<row, op, id, told>>

SNext ==
    \/ \E r \in Request : Open(r) \/ OpenInvalid(r) \/ Apply(r) \/ Report(r) \/ Unknown(r)
    \/ GiveUp

SSpec == SInit /\ [][SNext]_svars
=============================================================================
