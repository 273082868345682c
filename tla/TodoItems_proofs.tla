-------------------------- MODULE TodoItems_proofs --------------------------
(***************************************************************************)
(* Proofs of the invariants of TodoItems for any number of items and any   *)
(* finite set of requests.                                                 *)
(*                                                                         *)
(* The parity of the toggles only carries over a step when it is known     *)
(* which writes can still come: a create meets no row and no earlier       *)
(* toggle because ids are unique, a delete meets the row at most once. The *)
(* inductive invariant therefore ties the life of each item to the writes  *)
(* that changed it.                                                        *)
(***************************************************************************)
EXTENDS TodoItems, FiniteSetTheorems, TLAPS

Ops == {"create", "toggle", "delete"}

\* What a handler has done by the time it stands where pc says.
Handlers ==
    \A r \in Request :
        /\ pc[r] = "idle" => op[r] = "none" /\ id[r] = NoTodo /\ code[r] = 0
        /\ pc[r] \in Waiting => code[r] = 0
        /\ pc[r] # "done" => shown[r] = "none"
        /\ pc[r] \in {"write", "orphan"} =>
              ~changed[r] /\ op[r] \in Ops /\ id[r] \in TodoId
        /\ pc[r] = "orphan" => code[r] = 408
        /\ pc[r] = "reread" => changed[r] /\ op[r] = "toggle"
        /\ changed[r] => op[r] \in Ops /\ id[r] \in TodoId
        /\ code[r] \in {200, 201, 204} => changed[r]
        /\ code[r] = 400 => ~changed[r]

Ran(o, t) == \E r \in Request : op[r] = o /\ id[r] = t /\ changed[r]

\* One request creates an item and one deletes it.
OneEach ==
    \A r, s \in Request :
        /\ op[r] = op[s] /\ id[r] = id[s] /\ id[r] \in TodoId
        /\ op[r] = "create" \/ (op[r] = "delete" /\ changed[r] /\ changed[s])
        => r = s

\* A row is there from its create to its delete, and nothing else happens to it.
Lives ==
    \A t \in TodoId :
        /\ item[t] # "absent" <=> Ran("create", t) /\ ~Ran("delete", t)
        /\ Ran("delete", t) \/ Ran("toggle", t) => Ran("create", t)

\* A toggle that took effect finds its row gone only after a delete.
Lost == \A r \in Request :
           code[r] = 404 /\ changed[r] => op[r] = "toggle" /\ Ran("delete", id[r])

IInv == TypeOK /\ Handlers /\ OneEach /\ Lives /\ Lost /\ NoLostToggle

-----------------------------------------------------------------------------
\* The requests that had an effect are a finite set, empty when there is none.
LEMMA EffectiveIsFinite ==
    ASSUME NEW o, NEW t
    PROVE  /\ IsFiniteSet(Effective(o, t))
           /\ ~Ran(o, t) <=> Effective(o, t) = {}
<1>1. Effective(o, t) \subseteq Request
  BY DEF Effective
<1>2. IsFiniteSet(Effective(o, t))
  BY <1>1, RequestAssumption, FS_Subset
<1>3. ~Ran(o, t) <=> Effective(o, t) = {}
  BY DEF Effective, Ran
<1> QED
  BY <1>2, <1>3

\* One more member changes the parity of a set.
LEMMA ParityFlips ==
    ASSUME NEW S, IsFiniteSet(S), NEW x, x \notin S
    PROVE  Cardinality(S \cup {x}) % 2 = 1 <=> ~(Cardinality(S) % 2 = 1)
<1>1. Cardinality(S \cup {x}) = Cardinality(S) + 1
  BY FS_AddElement
<1>2. Cardinality(S) \in Nat
  BY FS_CardinalityType
<1>3. \A n \in Nat : (n + 1) % 2 = 1 <=> ~(n % 2 = 1)
  BY SMT
<1> QED
  BY <1>1, <1>2, <1>3

\* A write marks its request by whether it found a row.
LEMMA WriteMarks ==
    ASSUME NEW r \in Request, Write(r)
    PROVE  /\ Hits(r) => changed' = [changed EXCEPT ![r] = TRUE]
           /\ ~Hits(r) => changed' = [changed EXCEPT ![r] = FALSE]
<1>1. changed' = [changed EXCEPT ![r] = Hits(r)]
  BY DEF Write
<1>2. ASSUME Hits(r) PROVE Hits(r) = TRUE
  BY <1>2, Zenon DEF Hits
<1>3. ASSUME ~Hits(r) PROVE Hits(r) = FALSE
  BY <1>3, Zenon DEF Hits
<1> QED
  BY <1>1, <1>2, <1>3, Zenon

\* An empty table and no request satisfy the invariant.
LEMMA InitIInv == Init => IInv
<1> SUFFICES ASSUME Init PROVE IInv
  OBVIOUS
<1>1. TypeOK
  BY DEF Init, TypeOK, Done, Waiting
<1>2. Handlers /\ OneEach /\ Lost
  BY TodoIdAssumption DEF Init, Handlers, OneEach, Lost, Waiting, Ops
<1>3. Lives
  BY DEF Init, Lives, Ran
<1>4. NoLostToggle
  BY DEF Init, NoLostToggle
<1> QED
  BY <1>1, <1>2, <1>3, <1>4 DEF IInv

-----------------------------------------------------------------------------
\* A step that writes nothing leaves what ran, and so the items' history, as it was,
\* whatever request without an effect it gives an operation.
LEMMA NothingRan ==
    ASSUME IInv, TypeOK', UNCHANGED <<item, changed>>,
           \A r \in Request : changed[r] => op'[r] = op[r] /\ id'[r] = id[r]
    PROVE  /\ \A o, t : Ran(o, t)' <=> Ran(o, t)
           /\ Lives'
           /\ NoLostToggle'
<1>1. \A o, t : Ran(o, t)' <=> Ran(o, t)
  BY DEF Ran
<1>2. Lives'
  BY <1>1 DEF IInv, Lives
<1>3. ASSUME NEW t \in TodoId
      PROVE Effective("toggle", t)' = Effective("toggle", t)
  BY DEF Effective
<1>4. NoLostToggle'
  BY <1>3 DEF IInv, NoLostToggle
<1> QED
  BY <1>1, <1>2, <1>4

\* A statement of a handler that has not written yet: the item's history stays in
\* step with the row.
LEMMA WriteKeepsHistory ==
    ASSUME IInv, NEW r \in Request, pc[r] \in {"write", "orphan"}, Write(r),
           UNCHANGED <<op, id>>
    PROVE  OneEach' /\ Lives' /\ NoLostToggle'
<1> DEFINE t == id[r]
<1>1. /\ ~changed[r]
      /\ t \in TodoId
      /\ op[r] \in Ops
      /\ changed \in [Request -> BOOLEAN]
      /\ item \in [TodoId -> Done \cup {"absent"}]
  BY DEF IInv, Handlers, TypeOK
<1>2. CASE ~Hits(r)
  <2>1. UNCHANGED <<item, changed>>
    <3>1. item' = item /\ changed' = [changed EXCEPT ![r] = Hits(r)]
      BY <1>2 DEF Write
    <3>2. changed[r] = Hits(r)
      BY <1>1, <1>2, Zenon DEF Hits
    <3> QED
      BY <1>1, <3>1, <3>2
  <2>2. \A o, u : Ran(o, u)' <=> Ran(o, u)
    BY <2>1 DEF Ran
  <2>3. \A u : Effective("toggle", u)' = Effective("toggle", u)
    BY <2>1 DEF Effective
  <2>4. OneEach'
    BY <2>1 DEF IInv, OneEach
  <2>5. Lives'
    BY <2>1, <2>2 DEF IInv, Lives
  <2>6. NoLostToggle'
    BY <2>1, <2>3 DEF IInv, NoLostToggle
  <2> QED
    BY <2>4, <2>5, <2>6
<1>3. CASE Hits(r)
  <2>1. /\ item' = [item EXCEPT ![t] = Left(r)]
        /\ changed' = [changed EXCEPT ![r] = TRUE]
    BY <1>3 DEF Write
  <2>2. \A u : \A o : Ran(o, u)' <=> Ran(o, u) \/ (o = op[r] /\ u = t)
    BY <1>1, <2>1 DEF Ran
  <2>3. \A u : u # t => Effective("toggle", u)' = Effective("toggle", u)
    BY <1>1, <2>1 DEF Effective
  <2>4. /\ op[r] = "create" => item[t] = "absent" /\ ~Ran("create", t)
        /\ op[r] # "create" => item[t] # "absent"
    <3>1. op[r] = "create" => ~Ran("create", t)
      BY <1>1 DEF IInv, OneEach, Ran
    <3>2. op[r] = "create" => item[t] = "absent"
      BY <3>1, <1>1 DEF IInv, Lives
    <3>3. op[r] # "create" => item[t] # "absent"
      BY <1>3 DEF Hits
    <3> QED
      BY <3>1, <3>2, <3>3
  <2>5. OneEach'
    <3>1. op[r] = "delete" => ~Ran("delete", t)
      BY <1>1, <2>4 DEF IInv, Lives
    <3> QED
      BY <1>1, <2>1, <3>1 DEF IInv, OneEach, Ran
  <2>6. Lives'
    <3>1. ASSUME NEW u \in TodoId, u # t
          PROVE  /\ item'[u] # "absent" <=> Ran("create", u)' /\ ~Ran("delete", u)'
                 /\ Ran("delete", u)' \/ Ran("toggle", u)' => Ran("create", u)'
      <4>1. item'[u] = item[u]
        BY <1>1, <2>1, <3>1
      <4> QED
        BY <4>1, <2>2, <3>1 DEF IInv, Lives
    <3>2. /\ item'[t] # "absent" <=> Ran("create", t)' /\ ~Ran("delete", t)'
          /\ Ran("delete", t)' \/ Ran("toggle", t)' => Ran("create", t)'
      <4>1. item'[t] = Left(r)
        BY <1>1, <2>1
      <4>2. /\ item[t] # "absent" <=> Ran("create", t) /\ ~Ran("delete", t)
            /\ Ran("delete", t) \/ Ran("toggle", t) => Ran("create", t)
        BY <1>1 DEF IInv, Lives
      <4>3. CASE op[r] = "create"
        BY <4>1, <4>2, <4>3, <2>2, <2>4 DEF Left
      <4>4. CASE op[r] = "toggle"
        <5>1. Left(r) = Flip(item[t])
          BY <4>4 DEF Left
        <5> QED
          BY <5>1, <4>1, <4>2, <4>4, <2>2, <2>4 DEF Flip
      <4>5. CASE op[r] = "delete"
        <5>1. Left(r) = "absent"
          BY <4>5 DEF Left
        <5> QED
          BY <5>1, <4>1, <4>2, <4>5, <2>2, <2>4
      <4> QED
        BY <4>3, <4>4, <4>5, <1>1 DEF Ops
    <3> QED
      BY <3>1, <3>2 DEF Lives
  <2>7. NoLostToggle'
    <3> SUFFICES ASSUME NEW u \in TodoId, item'[u] # "absent"
                 PROVE  item'[u] = "done"
                          <=> Cardinality(Effective("toggle", u)') % 2 = 1
      BY DEF NoLostToggle, Effective
    <3>1. CASE u # t
      <4>1. item'[u] = item[u]
        BY <1>1, <2>1, <3>1
      <4> QED
        BY <4>1, <2>3, <3>1 DEF IInv, NoLostToggle
    <3>2. CASE u = t /\ op[r] = "create"
      <4>1. Effective("toggle", t)' = Effective("toggle", t)
        BY <1>1, <2>1, <3>2 DEF Effective
      <4>2. Effective("toggle", t) = {}
        BY <1>1, <2>4, <3>2, EffectiveIsFinite DEF IInv, Lives
      <4>3. Left(r) = "open" /\ item'[t] = "open"
        BY <1>1, <2>1, <3>2 DEF Left
      <4>4. Cardinality(Effective("toggle", t)') % 2 # 1
        BY <4>1, <4>2, FS_EmptySet
      <4> QED
        BY <4>3, <4>4, <3>2
    <3>3. CASE u = t /\ op[r] = "toggle"
      <4>1. Effective("toggle", t)' = Effective("toggle", t) \cup {r}
        BY <1>1, <2>1, <3>3 DEF Effective
      <4>2. r \notin Effective("toggle", t)
        BY <1>1 DEF Effective
      <4>3. Cardinality(Effective("toggle", t)') % 2 = 1
              <=> ~(Cardinality(Effective("toggle", t)) % 2 = 1)
        BY <4>1, <4>2, EffectiveIsFinite, ParityFlips
      <4>4. Left(r) = Flip(item[t]) /\ item'[t] = Flip(item[t])
        BY <1>1, <2>1, <3>3 DEF Left
      <4>5. item[t] \in Done
        BY <1>1, <2>4, <3>3
      <4>6. item[t] = "done" <=> Cardinality(Effective("toggle", t)) % 2 = 1
        BY <1>1, <2>4, <3>3 DEF IInv, NoLostToggle
      <4>7. item'[t] = "done" <=> ~(item[t] = "done")
        BY <4>4, <4>5 DEF Flip, Done
      <4> QED
        BY <4>3, <4>6, <4>7, <3>3
    <3>4. CASE u = t /\ op[r] = "delete"
      <4>1. Left(r) = "absent" /\ item'[t] = "absent"
        BY <1>1, <2>1, <3>4 DEF Left
      <4> QED
        BY <4>1, <3>4
    <3> QED
      BY <3>1, <3>2, <3>3, <3>4, <1>1 DEF Ops
  <2> QED
    BY <2>5, <2>6, <2>7
<1> QED
  BY <1>2, <1>3

-----------------------------------------------------------------------------
(* One lemma for each action. *)

\* An answer, and every step that writes nothing, leaves the facts about what ran.
LEMMA QuietStep ==
    ASSUME IInv, TypeOK', Handlers', UNCHANGED <<item, changed>>,
           \A s \in Request : changed[s] => op'[s] = op[s] /\ id'[s] = id[s],
           OneEach',
           \A s \in Request : code'[s] = 404 /\ changed[s] =>
              \/ code[s] = 404
              \/ op[s] = "toggle" /\ Ran("delete", id[s])
    PROVE  IInv'
<1>1. /\ \A o, t : Ran(o, t)' <=> Ran(o, t)
      /\ Lives'
      /\ NoLostToggle'
  BY NothingRan
<1>2. Lost'
  <2> SUFFICES ASSUME NEW s \in Request, code'[s] = 404, changed[s]
               PROVE  /\ op'[s] = "toggle"
                      /\ \E q \in Request :
                            op'[q] = "delete" /\ id'[q] = id'[s] /\ changed'[q]
    BY DEF Lost, Ran
  <2>1. op[s] = "toggle" /\ Ran("delete", id[s])
    BY DEF IInv, Lost
  <2>2. op'[s] = op[s] /\ id'[s] = id[s]
    OBVIOUS
  <2>3. PICK q \in Request : op[q] = "delete" /\ id[q] = id[s] /\ changed[q]
    BY <2>1 DEF Ran
  <2> QED
    BY <2>1, <2>2, <2>3
<1> QED
  BY <1>1, <1>2 DEF IInv

\* A create picks an id nobody has, or is refused before it has one.
LEMMA CreateTodoKeeps ==
    ASSUME IInv, NEW r \in Request, CreateTodo(r)
    PROVE  IInv'
<1>1. ~changed[r] /\ pc[r] = "idle"
  BY DEF IInv, Handlers, CreateTodo, Ops
<1>2. /\ op' = [op EXCEPT ![r] = "create"]
      /\ UNCHANGED <<item, changed>>
  BY DEF CreateTodo
<1>3. \/ Answer(r, 400, "none") /\ UNCHANGED id
      \/ /\ \E t \in TodoId : Fresh(t) /\ id' = [id EXCEPT ![r] = t]
         /\ pc' = [pc EXCEPT ![r] = "write"]
         /\ UNCHANGED <<code, shown>>
  BY DEF CreateTodo
<1>4. TypeOK'
  BY <1>2, <1>3 DEF IInv, TypeOK, Answer, Done, Waiting
<1>5. Handlers'
  BY <1>1, <1>2, <1>3 DEF IInv, TypeOK, Handlers, Answer, Waiting, Ops
<1>6. OneEach'
  BY <1>1, <1>2, <1>3, TodoIdAssumption
  DEF IInv, TypeOK, OneEach, Handlers, Answer, Fresh
<1> QED
  BY <1>1, <1>2, <1>3, <1>4, <1>5, <1>6, QuietStep
  DEF IInv, TypeOK, Answer

\* A toggle or a delete arrives.
LEMMA ArriveKeeps ==
    ASSUME IInv, NEW r \in Request, Arrive(r)
    PROVE  IInv'
<1>1. ~changed[r]
  BY DEF IInv, Handlers, Arrive, Ops
<1>2. TypeOK'
  BY DEF IInv, TypeOK, Arrive, Done, Waiting
<1>3. Handlers'
  BY <1>1 DEF IInv, TypeOK, Handlers, Arrive, Waiting, Ops
<1>4. OneEach'
  BY <1>1 DEF IInv, TypeOK, OneEach, Arrive
<1> QED
  BY <1>1, <1>2, <1>3, <1>4, QuietStep DEF IInv, TypeOK, Arrive

\* A handler that only reads, or whose statement fails, ends with its answer.
LEMMA AnswerKeeps ==
    ASSUME IInv, NEW r \in Request, NEW c \in {200, 404, 408, 500},
           NEW w \in Done \cup {"none"}, Answer(r, c, w), pc[r] \in Waiting,
           UNCHANGED <<item, op, id, changed>>,
           c = 200 => changed[r],
           c = 404 => op[r] = "toggle" /\ Ran("delete", id[r])
    PROVE  IInv'
<1>1. TypeOK'
  BY DEF IInv, TypeOK, Answer, Done, Waiting
<1>2. Handlers'
  BY DEF IInv, TypeOK, Handlers, Answer, Waiting
<1>3. OneEach'
  BY DEF IInv, OneEach
<1> QED
  BY <1>1, <1>2, <1>3, QuietStep DEF IInv, TypeOK, Answer

\* The get after a toggle answers with the row, or 404 when a delete came between.
LEMMA RereadKeeps ==
    ASSUME IInv, NEW r \in Request, Reread(r)
    PROVE  IInv'
<1>1. /\ changed[r] /\ op[r] = "toggle" /\ id[r] \in TodoId
      /\ pc[r] \in Waiting
  BY DEF IInv, Handlers, Reread, Waiting
<1>2. CASE Gone(r) /\ Answer(r, 404, "none")
  <2>1. Ran("toggle", id[r])
    BY <1>1 DEF Ran
  <2>2. Ran("delete", id[r])
    BY <1>1, <1>2, <2>1 DEF IInv, Lives, Gone
  <2> QED
    BY <1>1, <1>2, <2>2, AnswerKeeps DEF Reread
<1>3. CASE ~Gone(r) /\ Answer(r, 200, ReadBack(r))
  <2>1. ReadBack(r) \in Done
    BY <1>1, <1>3 DEF IInv, TypeOK, Gone, ReadBack
  <2> QED
    BY <1>1, <1>3, <2>1, AnswerKeeps DEF Reread
<1> QED
  BY <1>2, <1>3 DEF Reread

\* A statement fails and its handler answers 500.
LEMMA SqlErrorKeeps ==
    ASSUME IInv, NEW r \in Request, SqlError(r)
    PROVE  IInv'
BY AnswerKeeps DEF SqlError

\* A handler is dropped, with its write still on the way or not.
LEMMA TimedOutKeeps ==
    ASSUME IInv, NEW r \in Request, TimedOut(r)
    PROVE  IInv'
<1>1. CASE Answer(r, 408, "none")
  BY <1>1, AnswerKeeps DEF TimedOut
<1>2. CASE /\ pc[r] = "write"
           /\ pc' = [pc EXCEPT ![r] = "orphan"]
           /\ code' = [code EXCEPT ![r] = 408]
           /\ UNCHANGED shown
  <2>0. UNCHANGED <<item, op, id, changed>>
    BY DEF TimedOut
  <2>1. TypeOK'
    BY <1>2, <2>0 DEF IInv, TypeOK
  <2>2. Handlers'
    BY <1>2, <2>0 DEF IInv, TypeOK, Handlers, Waiting
  <2>3. OneEach'
    BY <2>0 DEF IInv, OneEach
  <2> QED
    BY <1>2, <2>0, <2>1, <2>2, <2>3, QuietStep DEF IInv, TypeOK
<1> QED
  BY <1>1, <1>2 DEF TimedOut

\* A crash ends every request in flight and keeps the table.
LEMMA CrashKeeps ==
    ASSUME IInv, Crash
    PROVE  IInv'
<1>1. TypeOK'
  BY DEF IInv, TypeOK, Crash
<1>2. Handlers'
  BY DEF IInv, TypeOK, Handlers, Crash, Waiting
<1>3. OneEach'
  BY DEF IInv, OneEach, Crash
<1> QED
  BY <1>1, <1>2, <1>3, QuietStep DEF Crash

\* Whatever a handler answers after its write, the answer fits what the write did.
LEMMA WriteKeeps ==
    ASSUME IInv, NEW r \in Request, pc[r] \in {"write", "orphan"}, Write(r),
           UNCHANGED <<op, id>>, TypeOK', Handlers',
           \A s \in Request : s # r => code'[s] = code[s],
           code'[r] = 404 => ~Hits(r)
    PROVE  IInv'
<1>1. /\ ~changed[r]
      /\ changed \in [Request -> BOOLEAN]
      /\ changed' = [changed EXCEPT ![r] = Hits(r)]
  BY DEF IInv, TypeOK, Handlers, Write
<1>2. OneEach' /\ Lives' /\ NoLostToggle'
  BY WriteKeepsHistory
<1>3. Lost'
  <2> SUFFICES ASSUME NEW s \in Request, code'[s] = 404, changed'[s]
               PROVE  op[s] = "toggle" /\ Ran("delete", id[s])'
    BY DEF Lost, Ran
  <2>1. s # r
    BY <1>1
  <2>2. op[s] = "toggle" /\ Ran("delete", id[s])
    BY <1>1, <2>1 DEF IInv, Lost
  <2>3. \A q \in Request : changed[q] => changed'[q]
    BY <1>1
  <2> QED
    BY <2>2, <2>3 DEF Ran
<1> QED
  BY <1>2, <1>3 DEF IInv

\* A write leaves a row or none, and a Boolean.
LEMMA WriteType ==
    ASSUME IInv, NEW r \in Request, pc[r] \in {"write", "orphan"}, Write(r)
    PROVE  /\ item' \in [TodoId -> Done \cup {"absent"}]
           /\ changed' \in [Request -> BOOLEAN]
<1>1. /\ id[r] \in TodoId
      /\ op[r] \in Ops
      /\ item \in [TodoId -> Done \cup {"absent"}]
      /\ changed \in [Request -> BOOLEAN]
  BY DEF IInv, TypeOK, Handlers
<1>2. Left(r) \in Done \cup {"absent"}
  <2>1. Flip(item[id[r]]) \in Done
    BY DEF Flip, Done
  <2>2. op[r] = "create" => Left(r) = "open"
    BY DEF Left
  <2>3. op[r] = "toggle" => Left(r) = Flip(item[id[r]])
    BY DEF Left
  <2>4. op[r] = "delete" => Left(r) = "absent"
    BY DEF Left
  <2> QED
    BY <1>1, <2>1, <2>2, <2>3, <2>4 DEF Ops, Done
<1>3. Hits(r) \in BOOLEAN
  BY DEF Hits
<1> QED
  BY <1>1, <1>2, <1>3 DEF Write

\* The INSERT of a create.
LEMMA InsertKeeps ==
    ASSUME IInv, NEW r \in Request, Insert(r)
    PROVE  IInv'
<1>1. /\ pc[r] = "write" /\ op[r] = "create"
      /\ Write(r) /\ Answer(r, 201, "open")
      /\ UNCHANGED <<op, id>>
  BY DEF Insert
<1>2. Hits(r)
  BY <1>1 DEF Hits
<1>3. changed' = [changed EXCEPT ![r] = TRUE]
  BY <1>1, <1>2 DEF Write
<1>4. TypeOK'
  BY <1>1, WriteType DEF IInv, TypeOK, Answer, Done, Waiting
<1>5. Handlers'
  BY <1>1, <1>3 DEF IInv, TypeOK, Handlers, Answer, Waiting
<1> QED
  BY <1>1, <1>4, <1>5, WriteKeeps DEF IInv, TypeOK, Answer

\* The UPDATE of a toggle, which finds its row or answers 404.
LEMMA ToggleKeeps ==
    ASSUME IInv, NEW r \in Request, Toggle(r)
    PROVE  IInv'
<1>1. /\ pc[r] = "write" /\ op[r] = "toggle"
      /\ Write(r)
      /\ UNCHANGED <<op, id>>
  BY DEF Toggle
<1>2. CASE ~Hits(r) /\ Answer(r, 404, "none")
  <2>1. changed' = [changed EXCEPT ![r] = FALSE]
    BY <1>1, <1>2, WriteMarks
  <2>2. TypeOK'
    BY <1>1, <1>2, WriteType DEF IInv, TypeOK, Answer, Done, Waiting
  <2>3. Handlers'
    BY <1>1, <1>2, <2>1 DEF IInv, TypeOK, Handlers, Answer, Waiting
  <2> QED
    BY <1>1, <1>2, <2>2, <2>3, WriteKeeps DEF IInv, TypeOK, Answer
<1>3. CASE Hits(r) /\ pc' = [pc EXCEPT ![r] = "reread"] /\ UNCHANGED <<code, shown>>
  <2>1. changed' = [changed EXCEPT ![r] = TRUE]
    BY <1>1, <1>3 DEF Write
  <2>2. TypeOK'
    BY <1>1, <1>3, WriteType DEF IInv, TypeOK, Done, Waiting
  <2>3. Handlers'
    BY <1>1, <1>3, <2>1 DEF IInv, TypeOK, Handlers, Waiting
  <2>4. code'[r] # 404
    BY <1>1, <1>3 DEF IInv, Handlers, Waiting
  <2> QED
    BY <1>1, <1>3, <2>2, <2>3, <2>4, WriteKeeps
<1> QED
  BY <1>2, <1>3 DEF Toggle

\* The DELETE, which finds its row or answers 404.
LEMMA DeleteKeeps ==
    ASSUME IInv, NEW r \in Request, Delete(r)
    PROVE  IInv'
<1>1. /\ pc[r] = "write" /\ op[r] = "delete"
      /\ Write(r) /\ Answer(r, DeleteCode(r), "none")
      /\ UNCHANGED <<op, id>>
  BY DEF Delete
<1>2. /\ Hits(r) => DeleteCode(r) = 204
      /\ ~Hits(r) => DeleteCode(r) = 404
  BY DEF DeleteCode
<1>3. TypeOK'
  BY <1>1, <1>2, WriteType DEF IInv, TypeOK, Answer, Done, Waiting
<1>4. /\ Hits(r) => changed' = [changed EXCEPT ![r] = TRUE]
      /\ ~Hits(r) => changed' = [changed EXCEPT ![r] = FALSE]
  BY <1>1, WriteMarks
<1>5. Handlers'
  BY <1>1, <1>2, <1>4 DEF IInv, TypeOK, Handlers, Answer, Waiting
<1>6. code'[r] = DeleteCode(r)
  BY <1>1 DEF IInv, TypeOK, Answer
<1> QED
  BY <1>1, <1>2, <1>3, <1>5, <1>6, WriteKeeps DEF IInv, TypeOK, Answer

\* The write of a dropped handler runs after all.
LEMMA LateWriteKeeps ==
    ASSUME IInv, NEW r \in Request, LateWrite(r)
    PROVE  IInv'
<1>1. /\ pc[r] = "orphan" /\ Write(r)
      /\ pc' = [pc EXCEPT ![r] = "done"]
      /\ UNCHANGED <<op, id, code, shown>>
  BY DEF LateWrite
<1>2. TypeOK'
  BY <1>1, WriteType DEF IInv, TypeOK
<1>3. /\ code[r] = 408
      /\ \/ changed' = [changed EXCEPT ![r] = TRUE]
         \/ changed' = [changed EXCEPT ![r] = FALSE]
  BY <1>1, WriteMarks DEF IInv, Handlers
<1>4. Handlers'
  BY <1>1, <1>3 DEF IInv, TypeOK, Handlers, Waiting
<1> QED
  BY <1>1, <1>2, <1>3, <1>4, WriteKeeps

\* Every step preserves the invariant.
LEMMA NextIInv == IInv /\ [Next]_vars => IInv'
<1> SUFFICES ASSUME IInv, [Next]_vars PROVE IInv'
  OBVIOUS
<1>1. ASSUME NEW r \in Request, Serve(r) PROVE IInv'
  BY <1>1, CreateTodoKeeps, ArriveKeeps, InsertKeeps, ToggleKeeps, RereadKeeps,
     DeleteKeeps, SqlErrorKeeps, TimedOutKeeps, LateWriteKeeps DEF Serve
<1>2. CASE Crash
  BY <1>2, CrashKeeps
<1>3. CASE UNCHANGED vars
  BY <1>3 DEF vars, IInv, TypeOK, Handlers, OneEach, Lives, Lost, NoLostToggle,
     Ran, Effective
<1> QED
  BY <1>1, <1>2, <1>3 DEF Next

\* The invariant holds in every state of every behaviour.
LEMMA Inductive == Spec => []IInv
<1>1. Init => IInv
  BY InitIInv
<1>2. IInv /\ [Next]_vars => IInv'
  BY NextIInv
<1> QED
  BY <1>1, <1>2, PTL DEF Spec

-----------------------------------------------------------------------------
(* The theorems *)

\* Every variable keeps its type: no answer outside those of the routes and no row
\* that is neither open nor done, at any number of concurrent requests.
THEOREM TypeCorrect == Spec => []TypeOK
<1>1. IInv => TypeOK
  BY DEF IInv
<1> QED
  BY <1>1, Inductive, PTL

\* No interleaving of toggles, deletes, timeouts and crashes loses or doubles a
\* toggle that SQLite ran (toggle's UPDATE ... SET done = NOT done).
THEOREM NoLostToggleCorrect == Spec => []NoLostToggle
<1>1. IInv => NoLostToggle
  BY DEF IInv
<1> QED
  BY <1>1, Inductive, PTL

\* An item is created by one request, deleted by at most one, and never comes back.
THEOREM CreatedAndDeletedOnceCorrect == Spec => []CreatedAndDeletedOnce
<1>1. IInv => CreatedAndDeletedOnce
  <2> SUFFICES ASSUME IInv, NEW t \in TodoId
               PROVE  /\ Cardinality(Effective("create", t)) <= 1
                      /\ Cardinality(Effective("delete", t)) =
                            IF item[t] = "absent"
                              THEN Cardinality(Effective("create", t)) ELSE 0
                      /\ item[t] # "absent" => Effective("create", t) # {}
    BY DEF CreatedAndDeletedOnce
  <2>1. ASSUME NEW o \in {"create", "delete"}
        PROVE  Cardinality(Effective(o, t)) = IF Ran(o, t) THEN 1 ELSE 0
    <3>1. CASE Ran(o, t)
      <4>1. PICK r \in Request : op[r] = o /\ id[r] = t /\ changed[r]
        BY <3>1 DEF Ran
      <4>2. Effective(o, t) = {r}
        BY <4>1 DEF Effective, IInv, OneEach
      <4> QED
        BY <3>1, <4>2, FS_Singleton
    <3>2. CASE ~Ran(o, t)
      BY <3>2, EffectiveIsFinite, FS_EmptySet
    <3> QED
      BY <3>1, <3>2
  <2>2. /\ item[t] # "absent" <=> Ran("create", t) /\ ~Ran("delete", t)
        /\ Ran("delete", t) => Ran("create", t)
    BY DEF IInv, Lives
  <2>3. Ran("create", t) => Effective("create", t) # {}
    BY EffectiveIsFinite
  <2> QED
    BY <2>1, <2>2, <2>3
<1> QED
  BY <1>1, Inductive, PTL

\* Every answer agrees with what the request's write did to the table.
THEOREM ToldTheTruthCorrect == Spec => []ToldTheTruth
<1>1. IInv => ToldTheTruth
  BY EffectiveIsFinite DEF IInv, Handlers, Lost, ToldTheTruth
<1> QED
  BY <1>1, Inductive, PTL
-----------------------------------------------------------------------------
(* The refinement of TodoService *)

Rows == [t \in TodoId |-> Row(t)]
Results == [r \in Request |-> Result(r)]

\* The life of an item by what ran on it.
LEMMA RowByHistory ==
    ASSUME IInv, NEW t \in TodoId
    PROVE  /\ item[t] # "absent" => Row(t) = item[t] /\ Row(t) \in Service!There
           /\ item[t] = "absent" => Row(t) = IF Ran("create", t) THEN "deleted" ELSE "absent"
<1>1. Effective("create", t) # {} <=> Ran("create", t)
  BY EffectiveIsFinite
<1>2. item[t] \in Done \cup {"absent"}
  BY DEF IInv, TypeOK
<1> QED
  BY <1>1, <1>2 DEF Row, Done, Service!There

\* A step that writes nothing leaves the life of every item as it was.
LEMMA SameRows ==
    ASSUME UNCHANGED <<item, changed>>,
           \A r \in Request : changed[r] => op'[r] = op[r] /\ id'[r] = id[r]
    PROVE  Rows' = Rows
<1>1. ASSUME NEW t \in TodoId PROVE Effective("create", t)' = Effective("create", t)
  BY DEF Effective
<1>2. ASSUME NEW t \in TodoId PROVE Row(t)' = Row(t)
  BY <1>1 DEF Row
<1> QED
  BY <1>2 DEF Rows

\* A step of one request changes no other request's result.
LEMMA ResultsOf ==
    ASSUME IInv, NEW r \in Request, Serve(r)
    PROVE  Results' = [Results EXCEPT ![r] = Result(r)']
<1>1. ASSUME NEW q \in Request, q # r PROVE Result(q)' = Result(q)
  <2>1. pc'[q] = pc[q] /\ code'[q] = code[q] /\ changed'[q] = changed[q]
    BY <1>1 DEF IInv, TypeOK, Serve, CreateTodo, Arrive, Insert, Toggle, Reread, Delete,
       SqlError, TimedOut, LateWrite, Answer, Write
  <2> QED
    BY <2>1 DEF Result
<1> QED
  BY <1>1 DEF Results

\* A result that stays is a stutter of its request.
LEMMA SameResults ==
    ASSUME IInv, NEW r \in Request, Serve(r), Result(r)' = Result(r)
    PROVE  Results' = Results
BY ResultsOf DEF Results

\* The refinement maps the empty table to the empty service.
LEMMA InitService == Init => Service!SInit
<1> SUFFICES ASSUME Init PROVE Service!SInit
  OBVIOUS
<1>1. ASSUME NEW t \in TodoId PROVE Row(t) = "absent"
  BY DEF Init, Row, Effective
<1>2. ASSUME NEW r \in Request PROVE Result(r) = "idle"
  BY DEF Init, Result
<1> QED
  BY <1>1, <1>2 DEF Init, Service!SInit

\* A create opens its request, or is refused as it comes.
LEMMA CreateTodoServes ==
    ASSUME IInv, NEW r \in Request, CreateTodo(r)
    PROVE  Service!Open(r) \/ Service!OpenInvalid(r)
<1> USE DEF IInv, TypeOK, Handlers, CreateTodo, Answer
<1>1. Results' = [Results EXCEPT ![r] = Result(r)']
  BY ResultsOf DEF Serve
<1>2. Result(r) = "idle" /\ ~changed[r] /\ op[r] = "none"
  BY DEF Result, Ops
<1>3. Rows' = Rows
  BY <1>2, SameRows
<1>4. CASE Answer(r, 400, "none") /\ UNCHANGED id
  <2>1. Result(r)' = "refused"
    BY <1>2, <1>4 DEF Result
  <2>2. shown' = shown
    BY <1>2, <1>4
  <2> QED
    BY <1>1, <1>2, <1>3, <1>4, <2>1, <2>2 DEF Service!OpenInvalid, Results, Rows
<1>5. CASE /\ \E t \in TodoId : Fresh(t) /\ id' = [id EXCEPT ![r] = t]
           /\ pc' = [pc EXCEPT ![r] = "write"]
           /\ UNCHANGED <<code, shown>>
  <2>1. Result(r)' = "open"
    BY <1>2, <1>5 DEF Result
  <2> QED
    BY <1>1, <1>2, <1>3, <1>5, <2>1 DEF Service!Open, Results, Rows
<1> QED
  BY <1>4, <1>5

\* A toggle or a delete opens its request.
LEMMA ArriveServes == ASSUME IInv, NEW r \in Request, Arrive(r) PROVE Service!Open(r)
<1>6. \E o \in {"create", "toggle", "delete"}, t \in TodoId :
         op' = [op EXCEPT ![r] = o] /\ id' = [id EXCEPT ![r] = t]
  <2>1. PICK o \in {"toggle", "delete"}, t \in TodoId :
           op' = [op EXCEPT ![r] = o] /\ id' = [id EXCEPT ![r] = t]
    BY DEF Arrive
  <2>2. o \in {"create", "toggle", "delete"}
    BY <2>1
  <2> QED
    BY <2>1, <2>2
<1> USE DEF IInv, TypeOK, Handlers, Arrive
<1>1. Results' = [Results EXCEPT ![r] = Result(r)']
  BY ResultsOf DEF Serve
<1>2. Result(r) = "idle" /\ ~changed[r] /\ op[r] = "none"
  BY DEF Result, Ops
<1>3. Rows' = Rows
  BY <1>2, SameRows
<1>4. Result(r)' = "open"
  BY <1>2 DEF Result
<1>5. Results' = [Results EXCEPT ![r] = "open"] /\ Results[r] = "idle"
  BY <1>1, <1>2, <1>4 DEF Results
<1> QED
  BY <1>3, <1>5, <1>6 DEF Service!Open, Results, Rows

\* A statement that finds its row, or inserts it, is the instant its request takes
\* effect.
LEMMA WriteApplies ==
    ASSUME IInv, IInv', NEW r \in Request, Serve(r),
           pc[r] \in {"write", "orphan"}, Write(r), Hits(r), UNCHANGED <<op, id>>,
           \/ op[r] = "create" /\ shown' = [shown EXCEPT ![r] = "open"]
           \/ UNCHANGED shown
    PROVE  Service!Apply(r)
<1> DEFINE t == id[r]
<1>1. /\ t \in TodoId /\ op[r] \in Ops /\ ~changed[r]
      /\ changed' = [changed EXCEPT ![r] = TRUE]
      /\ item' = [item EXCEPT ![t] = Left(r)]
      /\ changed \in [Request -> BOOLEAN]
      /\ item \in [TodoId -> Done \cup {"absent"}]
      /\ item' \in [TodoId -> Done \cup {"absent"}]
  BY WriteMarks DEF IInv, TypeOK, Handlers, Write
<1>2. \A u, o : Ran(o, u)' <=> Ran(o, u) \/ (o = op[r] /\ u = t)
  BY <1>1 DEF Ran
<1>3. ASSUME NEW u \in TodoId, u # t PROVE Row(u)' = Row(u)
  <2>1. item'[u] = item[u]
    BY <1>1, <1>3
  <2>2. Effective("create", u)' = Effective("create", u)
    BY <1>1, <1>3 DEF Effective
  <2> QED
    BY <2>1, <2>2 DEF Row
<1>4. Rows' = [Rows EXCEPT ![t] = Row(t)']
  BY <1>1, <1>3 DEF Rows
<1>5. Results[r] = "open"
  <2>1. code[r] = 0 \/ code[r] = 408
    BY DEF IInv, Handlers, Waiting
  <2> QED
    BY <1>1, <2>1 DEF Result, Results
<1>6. Results' = [Results EXCEPT ![r] = "applied"]
  <2>1. pc'[r] # "idle"
    BY DEF IInv, Handlers, Ops
  <2>2. Result(r)' = "applied"
    BY <1>1, <2>1 DEF Result
  <2> QED
    BY <2>2, ResultsOf
<1>7. /\ Service!Moves(op[r], Row(t), Row(t)')
      /\ Row(t)' \in Service!There \cup {"deleted"}
  <2>1. item'[t] = Left(r)
    BY <1>1
  <2>2. /\ item[t] # "absent" => Row(t) = item[t] /\ Row(t) \in Service!There
        /\ item[t] = "absent" => Row(t) = IF Ran("create", t) THEN "deleted" ELSE "absent"
    BY <1>1, RowByHistory
  <2>3. CASE op[r] = "create"
    <3>1. ~Ran("create", t)
      BY <1>1, <2>3 DEF IInv, OneEach, Ran
    <3>2. item[t] = "absent"
      BY <1>1, <3>1 DEF IInv, Lives
    <3>3. Row(t) = "absent"
      BY <2>2, <3>1, <3>2
    <3>4. item'[t] = "open"
      BY <2>1, <2>3 DEF Left
    <3>5. Row(t)' = "open"
      BY <3>4 DEF Row
    <3> QED
      BY <2>3, <3>3, <3>5 DEF Service!Moves, Service!There
  <2>4. CASE op[r] = "toggle"
    <3>1. item[t] \in Done
      BY <1>1, <2>4 DEF Hits
    <3>2. item'[t] = Flip(item[t])
      BY <2>1, <2>4 DEF Left
    <3>3. Row(t) = item[t]
      BY <2>2, <3>1 DEF Done
    <3>4. Row(t)' = Flip(item[t])
      BY <3>1, <3>2 DEF Row, Flip, Done
    <3> QED
      BY <2>4, <3>1, <3>3, <3>4 DEF Service!Moves, Service!There, Flip, Done
  <2>5. CASE op[r] = "delete"
    <3>1. item[t] # "absent"
      BY <2>5 DEF Hits
    <3>2. item'[t] = "absent"
      BY <2>1, <2>5 DEF Left
    <3>3. Row(t)' = "deleted"
      <4>1. Ran("create", t)
        BY <1>1, <3>1 DEF IInv, Lives
      <4>2. Ran("create", t)'
        BY <1>2, <4>1
      <4>3. Effective("create", t)' # {}
        BY <4>2 DEF Ran, Effective
      <4> QED
        BY <3>2, <4>3 DEF Row
    <3> QED
      BY <2>2, <2>5, <3>1, <3>3 DEF Service!Moves, Service!There
  <2> QED
    BY <1>1, <2>3, <2>4, <2>5 DEF Ops
<1>8. Service!Moves(op[r], Rows[t], Row(t)') /\ Rows' = [Rows EXCEPT ![t] = Row(t)']
  BY <1>1, <1>4, <1>7 DEF Rows
<1> QED
  BY <1>5, <1>6, <1>7, <1>8 DEF Service!Apply, Rows, Results

\* A request ends open and without an effect.
LEMMA EndsVoid ==
    ASSUME IInv, NEW r \in Request, Serve(r), Result(r) = "open", Result(r)' = "void",
           UNCHANGED <<item, op, id, changed, shown>>
    PROVE  Service!GiveUp
<1>1. Results' = [Results EXCEPT ![r] = "void"]
  BY ResultsOf
<1>2. {r} \in SUBSET {q \in Request : Results[q] = "open"}
  BY DEF Results
<1>3. Results' = [q \in Request |-> IF q \in {r} THEN "void" ELSE Results[q]]
  BY <1>1 DEF Results
<1>4. Rows' = Rows
  BY SameRows
<1> QED
  BY <1>2, <1>3, <1>4 DEF Service!GiveUp, Results, Rows

\* A statement that finds no row is told so.
LEMMA MissIsUnknown ==
    ASSUME IInv, NEW r \in Request, Serve(r), pc[r] = "write", op[r] # "create",
           Write(r), ~Hits(r), Answer(r, 404, "none"), UNCHANGED <<op, id>>
    PROVE  Service!Unknown(r)
<1>1. /\ id[r] \in TodoId /\ op[r] \in Ops /\ ~changed[r] /\ code[r] = 0
      /\ changed \in [Request -> BOOLEAN]
      /\ shown[r] = "none" /\ shown \in [Request -> Done \cup {"none"}]
  BY DEF IInv, TypeOK, Handlers, Waiting
<1>2. changed' = changed /\ item' = item
  BY <1>1, WriteMarks DEF Write
<1>3. shown' = shown
  BY <1>1 DEF Answer
<1>4. Rows' = Rows
  BY <1>2, SameRows
<1>5. item[id[r]] = "absent"
  BY DEF Hits
<1>6. Rows[id[r]] \notin Service!There
  BY <1>1, <1>5, RowByHistory DEF Rows, Service!There
<1>7. Results[r] = "open"
  BY <1>1 DEF Result, Results
<1>8. Result(r)' = "unknown id"
  BY <1>1, <1>2 DEF IInv, TypeOK, Answer, Result
<1>9. Results' = [Results EXCEPT ![r] = "unknown id"]
  BY <1>8, ResultsOf
<1> QED
  BY <1>3, <1>4, <1>6, <1>7, <1>9 DEF Service!Unknown, Rows, Results

\* The INSERT takes effect.
LEMMA InsertServes == ASSUME IInv, IInv', NEW r \in Request, Insert(r) PROVE Service!Apply(r)
<1>1. Hits(r) /\ op[r] = "create" /\ Serve(r) /\ Write(r) /\ pc[r] = "write"
  BY DEF Insert, Hits, Serve
<1>2. shown' = [shown EXCEPT ![r] = "open"] /\ UNCHANGED <<op, id>>
  BY DEF Insert, Answer
<1> QED
  BY <1>1, <1>2, WriteApplies

\* The UPDATE of a toggle takes effect, or meets no row.
LEMMA ToggleServes ==
    ASSUME IInv, IInv', NEW r \in Request, Toggle(r)
    PROVE  Service!Apply(r) \/ Service!Unknown(r)
<1>1. Serve(r) /\ pc[r] = "write" /\ op[r] # "create" /\ Write(r) /\ UNCHANGED <<op, id>>
  BY DEF Toggle, Serve
<1>2. CASE ~Hits(r)
  BY <1>1, <1>2, MissIsUnknown DEF Toggle
<1>3. CASE Hits(r)
  BY <1>1, <1>3, WriteApplies DEF Toggle
<1> QED
  BY <1>2, <1>3

\* The DELETE takes effect, or meets no row.
LEMMA DeleteServes ==
    ASSUME IInv, IInv', NEW r \in Request, Delete(r)
    PROVE  Service!Apply(r) \/ Service!Unknown(r)
<1>1. /\ Serve(r) /\ pc[r] = "write" /\ op[r] # "create" /\ Write(r)
      /\ UNCHANGED <<op, id>> /\ Answer(r, DeleteCode(r), "none")
  BY DEF Delete, Serve
<1>2. CASE ~Hits(r)
  BY <1>1, <1>2, MissIsUnknown DEF DeleteCode
<1>3. CASE Hits(r)
  <2>1. shown' = shown
    BY <1>1 DEF Answer, IInv, TypeOK, Handlers
  <2> QED
    BY <1>1, <1>3, <2>1, WriteApplies
<1> QED
  BY <1>2, <1>3

\* The flag read back is reported as it is by then; a 404 there is not seen.
LEMMA RereadServes ==
    ASSUME IInv, NEW r \in Request, Reread(r)
    PROVE  Service!Report(r) \/ UNCHANGED Service!svars
<1>1. /\ changed[r] /\ op[r] = "toggle" /\ id[r] \in TodoId
      /\ UNCHANGED <<item, op, id, changed>> /\ Serve(r)
      /\ pc[r] = "reread" /\ shown[r] = "none"
      /\ shown \in [Request -> Done \cup {"none"}]
      /\ pc \in [Request -> Waiting \cup {"idle", "orphan", "done"}]
  BY DEF IInv, TypeOK, Handlers, Reread, Serve
<1>2. Rows' = Rows
  BY <1>1, SameRows
<1>3. Result(r) = "applied" /\ Result(r)' = "applied"
  BY <1>1 DEF Result, Reread, Answer
<1>4. Results' = Results
  BY <1>1, <1>3, SameResults
<1>5. CASE Gone(r) /\ Answer(r, 404, "none")
  <2>1. shown' = shown
    BY <1>1, <1>5 DEF Answer
  <2> QED
    BY <1>1, <1>2, <1>4, <2>1 DEF Service!svars, Rows, Results
<1>6. CASE ~Gone(r) /\ Answer(r, 200, ReadBack(r))
  <2>1. Rows[id[r]] = item[id[r]] /\ Rows[id[r]] \in Service!There
    BY <1>1, <1>6, RowByHistory DEF Gone, Rows
  <2>2. shown' = [shown EXCEPT ![r] = item[id[r]]]
    BY <1>6 DEF Answer, ReadBack
  <2> QED
    BY <1>1, <1>2, <1>3, <1>4, <2>1, <2>2 DEF Service!Report, Rows, Results
<1> QED
  BY <1>5, <1>6 DEF Reread

\* A failure or a timeout before the write gives the request up, unless the write may
\* still run; after it, it changes nothing.
LEMMA CutServes ==
    ASSUME IInv, NEW r \in Request, Serve(r), pc[r] \in Waiting,
           UNCHANGED <<item, op, id, changed, shown>>,
           \/ pc' = [pc EXCEPT ![r] = "done"] /\ code'[r] \in {408, 500}
           \/ pc' = [pc EXCEPT ![r] = "orphan"] /\ code'[r] = 408 /\ pc[r] = "write"
    PROVE  Service!GiveUp \/ UNCHANGED Service!svars
<1>1. /\ pc \in [Request -> Waiting \cup {"idle", "orphan", "done"}]
      /\ code[r] = 0
      /\ pc[r] \notin {"idle", "done"}
      /\ pc[r] = "write" => ~changed[r]
  BY DEF IInv, TypeOK, Handlers, Waiting
<1>2. CASE changed[r] \/ pc'[r] = "orphan"
  <2>0. pc'[r] \in {"done", "orphan"} /\ changed'[r] = changed[r]
    BY <1>1
  <2>1. Result(r)' = Result(r)
    <3>1. CASE changed[r]
      BY <1>1, <2>0, <3>1 DEF Result
    <3>2. CASE ~changed[r] /\ pc'[r] = "orphan"
      <4>1. code'[r] = 408
        BY <1>1, <3>2
      <4> QED
        BY <1>1, <2>0, <3>2, <4>1 DEF Result
    <3> QED
      BY <1>2, <3>1, <3>2
  <2>2. Results' = Results
    BY <2>1, SameResults
  <2>3. Rows' = Rows
    BY SameRows
  <2> QED
    BY <2>2, <2>3 DEF Service!svars, Rows, Results
<1>3. CASE ~changed[r] /\ pc'[r] = "done"
  <2>1. Result(r) = "open" /\ Result(r)' = "void"
    BY <1>1, <1>3 DEF Result
  <2> QED
    BY <2>1, EndsVoid
<1> QED
  BY <1>1, <1>2, <1>3

\* AppError::Sqlx.
LEMMA SqlErrorServes ==
    ASSUME IInv, NEW r \in Request, SqlError(r)
    PROVE  Service!GiveUp \/ UNCHANGED Service!svars
<1>1. shown' = shown /\ code'[r] = 500 /\ pc' = [pc EXCEPT ![r] = "done"]
  BY DEF SqlError, Answer, IInv, TypeOK, Handlers, Waiting
<1>2. Serve(r) /\ pc[r] \in Waiting /\ UNCHANGED <<item, op, id, changed>>
  BY DEF SqlError, Serve
<1>3. UNCHANGED <<item, op, id, changed, shown>> /\ code'[r] \in {408, 500}
  BY <1>1, <1>2
<1> QED
  BY <1>1, <1>2, <1>3, CutServes

\* The 408 of the TimeoutLayer.
LEMMA TimedOutServes ==
    ASSUME IInv, NEW r \in Request, TimedOut(r)
    PROVE  Service!GiveUp \/ UNCHANGED Service!svars
<1>1. /\ shown' = shown /\ code'[r] = 408
      /\ \/ pc' = [pc EXCEPT ![r] = "done"]
         \/ pc' = [pc EXCEPT ![r] = "orphan"] /\ pc[r] = "write"
  BY DEF TimedOut, Answer, IInv, TypeOK, Handlers, Waiting
<1>2. Serve(r) /\ pc[r] \in Waiting /\ UNCHANGED <<item, op, id, changed>>
  BY DEF TimedOut, Serve
<1>3. UNCHANGED <<item, op, id, changed, shown>> /\ code'[r] \in {408, 500}
  BY <1>1, <1>2
<1> QED
  BY <1>1, <1>2, <1>3, CutServes

\* A late write takes effect, or meets no row and nobody is told.
LEMMA LateWriteServes ==
    ASSUME IInv, IInv', NEW r \in Request, LateWrite(r)
    PROVE  Service!Apply(r) \/ Service!GiveUp
<1>1. /\ Serve(r) /\ pc[r] = "orphan" /\ Write(r) /\ UNCHANGED <<op, id, shown>>
      /\ code[r] = 408 /\ code' = code /\ pc' = [pc EXCEPT ![r] = "done"]
      /\ ~changed[r] /\ changed \in [Request -> BOOLEAN]
      /\ pc \in [Request -> Waiting \cup {"idle", "orphan", "done"}]
  BY DEF LateWrite, Serve, IInv, TypeOK, Handlers
<1>2. CASE Hits(r)
  BY <1>1, <1>2, WriteApplies
<1>3. CASE ~Hits(r)
  <2>1. item' = item /\ changed' = changed
    <3>1. item' = item
      BY <1>1, <1>3 DEF Write
    <3>2. changed' = [changed EXCEPT ![r] = FALSE]
      BY <1>1, <1>3 DEF Write, Hits
    <3> QED
      BY <1>1, <3>1, <3>2
  <2>2. Result(r) = "open" /\ Result(r)' = "void"
    BY <1>1, <2>1 DEF Result
  <2> QED
    BY <1>1, <2>1, <2>2, EndsVoid
<1> QED
  BY <1>2, <1>3

\* A crash gives up every open request.
LEMMA CrashServes == ASSUME IInv, Crash PROVE Service!GiveUp
<1> DEFINE Open == {q \in Request : Results[q] = "open"}
<1>1. ASSUME NEW q \in Request
      PROVE  Result(q)' = IF Result(q) = "open" THEN "void" ELSE Result(q)
  BY DEF Result, Crash, IInv, TypeOK, Handlers
<1>2. Results' = [q \in Request |-> IF q \in Open THEN "void" ELSE Results[q]]
  BY <1>1 DEF Results
<1>3. Open \in SUBSET {q \in Request : Results[q] = "open"}
  OBVIOUS
<1>4. UNCHANGED <<item, op, id, changed, shown>>
  BY DEF Crash
<1>5. Rows' = Rows
  BY <1>4, SameRows
<1> HIDE DEF Open
<1> QED
  BY <1>2, <1>3, <1>4, <1>5 DEF Service!GiveUp, Results, Rows

\* Every step of the handlers is a step of the service or a stutter.
LEMMA NextServes == IInv /\ IInv' /\ [Next]_vars => [Service!SNext]_(Service!svars)
<1> SUFFICES ASSUME IInv, IInv', [Next]_vars PROVE Service!SNext \/ UNCHANGED Service!svars
  OBVIOUS
<1>1. ASSUME NEW r \in Request, Serve(r) PROVE Service!SNext \/ UNCHANGED Service!svars
  <2>1. CASE CreateTodo(r)
    BY <2>1, CreateTodoServes DEF Service!SNext
  <2>2. CASE Arrive(r)
    BY <2>2, ArriveServes DEF Service!SNext
  <2>3. CASE Insert(r)
    BY <2>3, InsertServes DEF Service!SNext
  <2>4. CASE Toggle(r)
    BY <2>4, ToggleServes DEF Service!SNext
  <2>5. CASE Reread(r)
    BY <2>5, RereadServes DEF Service!SNext
  <2>6. CASE Delete(r)
    BY <2>6, DeleteServes DEF Service!SNext
  <2>7. CASE SqlError(r)
    BY <2>7, SqlErrorServes DEF Service!SNext
  <2>8. CASE TimedOut(r)
    BY <2>8, TimedOutServes DEF Service!SNext
  <2>9. CASE LateWrite(r)
    BY <2>9, LateWriteServes DEF Service!SNext
  <2> QED
    BY <1>1, <2>1, <2>2, <2>3, <2>4, <2>5, <2>6, <2>7, <2>8, <2>9 DEF Serve
<1>2. CASE Crash
  BY <1>2, CrashServes DEF Service!SNext
<1>3. CASE UNCHANGED vars
  BY <1>3 DEF vars, Service!svars, Result, Row, Effective
<1> QED
  BY <1>1, <1>2, <1>3 DEF Next

\* Every behaviour of the handlers, statement by statement and with timeouts, errors
\* and crashes, is one of the service in which each request takes effect at most
\* once and at one instant, and no deleted item comes back.
THEOREM ImplementsService == Spec => Implements
<1>1. Init => Service!SInit
  BY InitService
<1>2. IInv /\ IInv' /\ [Next]_vars => [Service!SNext]_(Service!svars)
  BY NextServes
<1> QED
  BY <1>1, <1>2, Inductive, PTL DEF Spec, Implements, Service!SSpec

=============================================================================
