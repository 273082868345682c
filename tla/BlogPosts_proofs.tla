-------------------------- MODULE BlogPosts_proofs --------------------------
(***************************************************************************)
(* Proofs about BlogPosts, and about BlogList beside it, for every set of  *)
(* ids, every set of requests and every clock bound.                       *)
(*                                                                         *)
(* OneWinner alone is not inductive: that a second UPDATE finds the post   *)
(* out of its source state says nothing of the requests that still hold    *)
(* one. IInv adds what each place of a handler implies about its request   *)
(* (Handlers), that an INSERT can meet no row (Ids), where the times in    *)
(* rows and in handlers' hands stand to each other and to the clock        *)
(* (Times), and what a request that wrote, or was refused, leaves behind   *)
(* for good (Effects).                                                     *)
(***************************************************************************)
EXTENDS BlogList, FiniteSetTheorems, TLAPS

-----------------------------------------------------------------------------
(* The inductive invariant *)

\* What the place a handler has reached says about its request.
Handlers ==
    \A r \in Request :
        /\ pc[r] = "idle" => op[r] = "none" /\ id[r] = NoPost /\ code[r] = 0 /\ ~changed[r]
        /\ pc[r] = "insert" => op[r] = "create"
        /\ pc[r] = "lookup" => op[r] \in {"get", "publish", "archive"}
        /\ pc[r] \in {"update", "reread", "resolve"} => op[r] \in {"publish", "archive"}
        /\ pc[r] = "orphan" => op[r] \in {"create", "publish", "archive"}
        /\ pc[r] \notin {"idle", "done"} => id[r] \in PostId
        /\ changed[r] => pc[r] \in {"reread", "done"} /\ id[r] \in PostId
        /\ pc[r] = "reread" => changed[r]
        /\ pc[r] \in Waiting => code[r] = 0
        /\ pc[r] = "orphan" => code[r] = 408

\* Ids are not generated twice, and a row exists only once its INSERT ran.
Ids ==
    /\ \A r1, r2 \in Request :
          op[r1] = "create" /\ op[r2] = "create" /\ id[r1] = id[r2] /\ id[r1] \in PostId
             => r1 = r2
    /\ \A r \in Request :
          pc[r] \in {"insert", "orphan"} /\ op[r] = "create" => status[id[r]] = "absent"

\* The times in the rows and in the handlers' hands.
Times ==
    /\ \A p \in PostId :
          /\ (createdAt[p] # NoTime) <=> (status[p] # "absent")
          /\ (publishedAt[p] # NoTime) <=> (status[p] \in {"published", "archived"})
          /\ createdAt[p] <= now
          /\ publishedAt[p] # NoTime => createdAt[p] <= publishedAt[p]
    /\ \A r \in Request :
          /\ pc[r] \in {"insert", "orphan"} /\ op[r] = "create" => stamp[r] \in 1..now
          /\ pc[r] \in {"update", "orphan"} /\ op[r] # "create" =>
                /\ status[id[r]] # "absent"
                /\ op[r] = "publish" => stamp[r] \in createdAt[id[r]]..now

\* Where a request that changed its row, was refused or answered leaves the post.
Effects ==
    \A r \in Request :
        /\ changed[r] /\ op[r] = "publish" => status[id[r]] \in {"published", "archived"}
        /\ changed[r] /\ op[r] = "archive" => status[id[r]] = "archived"
        /\ changed[r] => status[id[r]] # "absent"
        /\ pc[r] = "resolve" =>
              /\ status[id[r]] # "absent"
              /\ op[r] = "publish" => status[id[r]] \in {"published", "archived"}
              /\ op[r] = "archive" => status[id[r]] = "archived"
        /\ pc[r] \in {"update", "orphan"} /\ op[r] = "archive" =>
              status[id[r]] \in {"published", "archived"}

IInv == TypeOK /\ Handlers /\ Ids /\ Times /\ Effects /\ OneWinner /\ HonestAnswers

-----------------------------------------------------------------------------
\* An empty table and no request satisfy the invariant.
LEMMA InitIInv == Init => IInv
<1> SUFFICES ASSUME Init PROVE IInv
  OBVIOUS
<1> USE ClockAssumption, IdAssumption DEF Init, Time, NoTime, PostStatus, Waiting
<1>1. TypeOK /\ Handlers /\ Ids /\ Times /\ Effects
  BY DEF TypeOK, Handlers, Ids, Times, Effects
<1>2. OneWinner
  BY DEF OneWinner, OneWinnerAt, Winners
<1>3. HonestAnswers
  BY DEF HonestAnswers
<1> QED
  BY <1>1, <1>2, <1>3 DEF IInv

-----------------------------------------------------------------------------
(* OneWinner, by what a step does to the table *)

\* Nobody's write changes a row.
LEMMA SameWinners ==
    ASSUME OneWinner, status' = status, changed' = changed,
           \A q \in Request : changed[q] => op'[q] = op[q] /\ id'[q] = id[q]
    PROVE  OneWinner'
<1>1. \A o, p : Winners(o, p)' = Winners(o, p)
  BY DEF Winners
<1> QED
  BY <1>1 DEF OneWinner, OneWinnerAt, Unique

\* An INSERT makes its request the one that created the post.
LEMMA InsertWins ==
    ASSUME IInv, NEW r \in Request, pc[r] \in {"insert", "orphan"}, op[r] = "create",
           RunInsert(r), UNCHANGED <<op, id>>
    PROVE  OneWinner'
<1> USE DEF IInv, TypeOK, Handlers
<1>1. id[r] \in PostId /\ status[id[r]] = "absent" /\ ~changed[r]
  BY DEF Ids
<1>2. changed' = [changed EXCEPT ![r] = TRUE] /\ status' = [status EXCEPT ![id[r]] = "draft"]
  BY DEF RunInsert
<1>3. \A o, p : o # "create" \/ p # id[r] => Winners(o, p)' = Winners(o, p)
  BY <1>2 DEF Winners
<1>4. Winners("create", id[r]) = {}
  BY <1>1 DEF OneWinner, OneWinnerAt
<1>5. Winners("create", id[r])' = {r}
  BY <1>2, <1>4 DEF Winners
<1>6. Unique(Winners("create", id[r]))'
  BY <1>5 DEF Unique
<1> QED
  BY <1>1, <1>2, <1>3, <1>6 DEF OneWinner, OneWinnerAt, Unique

\* An UPDATE that finds its source state makes its request the one that moved the
\* post out of it; one that does not, changes nothing.
LEMMA UpdateWins ==
    ASSUME IInv, NEW r \in Request, pc[r] \in {"update", "orphan"},
           op[r] \in {"publish", "archive"}, RunUpdate(r), UNCHANGED <<op, id>>
    PROVE  OneWinner'
<1> USE DEF IInv, TypeOK, Handlers
<1>1. id[r] \in PostId /\ ~changed[r]
  OBVIOUS
<1>2. CASE ~Matches(r)
  <2>1. changed' = changed /\ status' = status
    BY <1>1, <1>2 DEF RunUpdate, Matches
  <2> QED
    BY <2>1, SameWinners
<1>3. CASE Matches(r)
  <2>1. /\ changed' = [changed EXCEPT ![r] = TRUE]
        /\ status' = [status EXCEPT ![id[r]] = To(op[r])]
    BY <1>3 DEF RunUpdate
  <2>2. status[id[r]] = From(op[r])
    BY <1>3 DEF Matches
  <2>3. \A o, p : o # op[r] \/ p # id[r] => Winners(o, p)' = Winners(o, p)
    BY <2>1 DEF Winners
  <2>4. Winners(op[r], id[r]) = {}
    BY <1>1, <2>2 DEF OneWinner, OneWinnerAt, From
  <2>5. Winners(op[r], id[r])' = {r}
    BY <2>1, <2>4 DEF Winners
  <2>6. Unique(Winners(op[r], id[r]))'
    BY <2>5 DEF Unique
  <2> SUFFICES ASSUME NEW p \in PostId PROVE OneWinnerAt(p)'
    BY DEF OneWinner
  <2>7. OneWinnerAt(p)
    BY DEF OneWinner
  <2>8. CASE p # id[r]
    <3>1. \A o : Winners(o, p)' = Winners(o, p)
      BY <2>3, <2>8
    <3>2. status'[p] = status[p]
      BY <2>1, <2>8
    <3> QED
      BY <2>7, <3>1, <3>2 DEF OneWinnerAt, Unique
  <2>9. CASE p = id[r]
    <3>1. status'[p] = To(op[r])
      BY <1>1, <2>1, <2>9
    <3> QED
      BY <2>2, <2>3, <2>6, <2>7, <2>9, <3>1 DEF OneWinnerAt, Unique, From, To
  <2> QED
    BY <2>8, <2>9
<1> QED
  BY <1>2, <1>3

-----------------------------------------------------------------------------
(* Every action preserves IInv *)

\* A create picks an id nobody has, or is refused before it has one.
LEMMA CreatePostStep == ASSUME IInv, NEW r \in Request, CreatePost(r) PROVE IInv'
<1> USE ClockAssumption, IdAssumption
    DEF IInv, TypeOK, Handlers, PostStatus, Waiting, Time, NoTime
<1>1. TypeOK'
  BY DEF CreatePost, Fresh, Await, Answer, table, TypeOK
<1>2. Handlers'
  BY DEF CreatePost, Fresh, Await, Answer, table, Handlers
<1>3. Ids'
  <2>1. \A q \in Request : q # r => op'[q] = op[q] /\ id'[q] = id[q]
    BY DEF CreatePost
  <2>2. id'[r] \in PostId => Fresh(id'[r])
    BY DEF CreatePost
  <2> QED
    BY <2>1, <2>2 DEF CreatePost, Fresh, Await, Answer, table, Ids
<1>4. Times'
  BY DEF CreatePost, Fresh, Await, Answer, table, Times, Ids, Effects
<1>5. Effects'
  BY DEF CreatePost, Fresh, Await, Answer, table, Effects, Ids, Times
<1>6. OneWinner'
  BY SameWinners DEF CreatePost, table
<1>7. HonestAnswers'
  BY DEF CreatePost, Fresh, Await, Answer, table, HonestAnswers, Rank, To, Ids, Times,
     Effects
<1> QED
  BY <1>1, <1>2, <1>3, <1>4, <1>5, <1>6, <1>7 DEF IInv

\* The INSERT of a create.
LEMMA InsertStep == ASSUME IInv, NEW r \in Request, Insert(r) PROVE IInv'
<1> USE ClockAssumption, IdAssumption
    DEF IInv, TypeOK, Handlers, PostStatus, Waiting, Time, NoTime
<1>1. TypeOK'
  BY DEF Insert, RunInsert, AnswerPost, TypeOK
<1>2. Handlers'
  BY DEF Insert, RunInsert, AnswerPost, Handlers
<1>3. Ids'
  BY DEF Insert, RunInsert, AnswerPost, Ids, Times, Effects
<1>4. Times'
  BY DEF Insert, RunInsert, AnswerPost, Times, Ids, Effects
<1>5. Effects'
  BY DEF Insert, RunInsert, AnswerPost, Effects, Ids, Times
<1>6. OneWinner'
  BY InsertWins DEF Insert
<1>7. HonestAnswers'
  BY DEF Insert, RunInsert, AnswerPost, HonestAnswers, Rank, To, Ids, Times, Effects
<1> QED
  BY <1>1, <1>2, <1>3, <1>4, <1>5, <1>6, <1>7 DEF IInv

\* A request about a post arrives and awaits its first get.
LEMMA ArriveStep == ASSUME IInv, NEW r \in Request, Arrive(r) PROVE IInv'
<1> USE ClockAssumption, IdAssumption
    DEF IInv, TypeOK, Handlers, PostStatus, Waiting, Time, NoTime
<1>1. TypeOK'
  BY DEF Arrive, Await, table, TypeOK
<1>2. Handlers'
  BY DEF Arrive, Await, table, Handlers
<1>3. Ids'
  BY DEF Arrive, Await, table, Ids, Times, Effects
<1>4. Times'
  BY DEF Arrive, Await, table, Times, Ids, Effects
<1>5. Effects'
  BY DEF Arrive, Await, table, Effects, Ids, Times
<1>6. OneWinner'
  BY SameWinners DEF Arrive, table
<1>7. HonestAnswers'
  BY DEF Arrive, Await, table, HonestAnswers, Rank, To, Ids, Times, Effects
<1> QED
  BY <1>1, <1>2, <1>3, <1>4, <1>5, <1>6, <1>7 DEF IInv

\* The first get ends the request or sends a move on to its UPDATE.
LEMMA LookupStep == ASSUME IInv, NEW r \in Request, Lookup(r) PROVE IInv'
<1> USE ClockAssumption, IdAssumption
    DEF IInv, TypeOK, Handlers, PostStatus, Waiting, Time, NoTime
<1>1. TypeOK'
  BY DEF Lookup, Missing, Answer, AnswerPost, Await, From, table, TypeOK
<1>2. Handlers'
  BY DEF Lookup, Missing, Answer, AnswerPost, Await, From, table, Handlers
<1>3. Ids'
  BY DEF Lookup, Missing, Answer, AnswerPost, Await, From, table, Ids, Times, Effects
<1>4. Times'
  BY DEF Lookup, Missing, Answer, AnswerPost, Await, From, table, Times, Ids, Effects
<1>5. Effects'
  BY DEF Lookup, Missing, Answer, AnswerPost, Await, From, table, Effects, Ids, Times
<1>6. OneWinner'
  BY SameWinners DEF Lookup, table
<1>7. HonestAnswers'
  BY DEF Lookup, Missing, Answer, AnswerPost, Await, From, table, HonestAnswers, Rank,
     To, Ids, Times, Effects
<1> QED
  BY <1>1, <1>2, <1>3, <1>4, <1>5, <1>6, <1>7 DEF IInv

\* The guarded UPDATE, which finds its source state or has lost the race.
LEMMA UpdateStep == ASSUME IInv, NEW r \in Request, Update(r) PROVE IInv'
<1> USE ClockAssumption, IdAssumption
    DEF IInv, TypeOK, Handlers, PostStatus, Waiting, Time, NoTime
<1>1. TypeOK'
  BY DEF Update, RunUpdate, Matches, NewPublishedAt, From, To, Await, TypeOK
<1>2. Handlers'
  <2>1. CASE Matches(r)
    BY <2>1 DEF Update, RunUpdate, Await
  <2>2. CASE ~Matches(r)
    BY <2>2 DEF Update, RunUpdate, Await
  <2> QED
    BY <2>1, <2>2
<1>3. Ids'
  BY DEF Update, RunUpdate, Matches, NewPublishedAt, From, To, Await, Ids, Times,
     Effects
<1>4. Times'
  BY DEF Update, RunUpdate, Matches, NewPublishedAt, From, To, Await, Times, Ids,
     Effects
<1>5. Effects'
  BY DEF Update, RunUpdate, Matches, NewPublishedAt, From, To, Await, Effects, Ids,
     Times
<1>6. OneWinner'
  BY UpdateWins DEF Update
<1>7. HonestAnswers'
  BY DEF Update, RunUpdate, Matches, NewPublishedAt, From, To, Await, HonestAnswers,
     Rank, Ids, Times, Effects
<1> QED
  BY <1>1, <1>2, <1>3, <1>4, <1>5, <1>6, <1>7 DEF IInv

\* The get after a won UPDATE answers with the row as it is by then.
LEMMA RereadStep == ASSUME IInv, NEW r \in Request, Reread(r) PROVE IInv'
<1> USE ClockAssumption, IdAssumption
    DEF IInv, TypeOK, Handlers, PostStatus, Waiting, Time, NoTime
<1>1. TypeOK'
  BY DEF Reread, Missing, ReadBack, Answer, AnswerPost, table, TypeOK
<1>2. Handlers'
  BY DEF Reread, Missing, ReadBack, Answer, AnswerPost, table, Handlers
<1>3. Ids'
  BY DEF Reread, Missing, ReadBack, Answer, AnswerPost, table, Ids, Times, Effects
<1>4. Times'
  BY DEF Reread, Missing, ReadBack, Answer, AnswerPost, table, Times, Ids, Effects
<1>5. Effects'
  BY DEF Reread, Missing, ReadBack, Answer, AnswerPost, table, Effects, Ids, Times
<1>6. OneWinner'
  BY SameWinners DEF Reread, table
<1>7. HonestAnswers'
  BY DEF Reread, Missing, ReadBack, Answer, AnswerPost, table, HonestAnswers, Rank, To,
     Ids, Times, Effects
<1> QED
  BY <1>1, <1>2, <1>3, <1>4, <1>5, <1>6, <1>7 DEF IInv

\* The get after a lost UPDATE picks the refusal.
LEMMA ResolveStep == ASSUME IInv, NEW r \in Request, Resolve(r) PROVE IInv'
<1> USE ClockAssumption, IdAssumption
    DEF IInv, TypeOK, Handlers, PostStatus, Waiting, Time, NoTime
<1>1. TypeOK'
  BY DEF Resolve, LostRaceCode, Missing, Answer, table, TypeOK
<1>2. Handlers'
  BY DEF Resolve, LostRaceCode, Missing, Answer, table, Handlers
<1>3. Ids'
  BY DEF Resolve, LostRaceCode, Missing, Answer, table, Ids, Times, Effects
<1>4. Times'
  BY DEF Resolve, LostRaceCode, Missing, Answer, table, Times, Ids, Effects
<1>5. Effects'
  BY DEF Resolve, LostRaceCode, Missing, Answer, table, Effects, Ids, Times
<1>6. OneWinner'
  BY SameWinners DEF Resolve, table
<1>7. HonestAnswers'
  BY DEF Resolve, LostRaceCode, Missing, Answer, table, HonestAnswers, Rank, To, Ids,
     Times, Effects
<1> QED
  BY <1>1, <1>2, <1>3, <1>4, <1>5, <1>6, <1>7 DEF IInv

\* A statement fails and its handler answers 500.
LEMMA SqlErrorStep == ASSUME IInv, NEW r \in Request, SqlError(r) PROVE IInv'
<1> USE ClockAssumption, IdAssumption
    DEF IInv, TypeOK, Handlers, PostStatus, Waiting, Time, NoTime
<1>1. TypeOK'
  BY DEF SqlError, Answer, table, TypeOK
<1>2. Handlers'
  BY DEF SqlError, Answer, table, Handlers
<1>3. Ids'
  BY DEF SqlError, Answer, table, Ids, Times, Effects
<1>4. Times'
  BY DEF SqlError, Answer, table, Times, Ids, Effects
<1>5. Effects'
  BY DEF SqlError, Answer, table, Effects, Ids, Times
<1>6. OneWinner'
  BY SameWinners DEF SqlError, table
<1>7. HonestAnswers'
  BY DEF SqlError, Answer, table, HonestAnswers, Rank, To, Ids, Times, Effects
<1> QED
  BY <1>1, <1>2, <1>3, <1>4, <1>5, <1>6, <1>7 DEF IInv

\* A handler is dropped, with its write still on the way or not.
LEMMA TimedOutStep == ASSUME IInv, NEW r \in Request, TimedOut(r) PROVE IInv'
<1> USE ClockAssumption, IdAssumption
    DEF IInv, TypeOK, Handlers, PostStatus, Waiting, Time, NoTime
<1>1. TypeOK'
  BY DEF TimedOut, Answer, table, TypeOK
<1>2. Handlers'
  BY DEF TimedOut, Answer, table, Handlers
<1>3. Ids'
  BY DEF TimedOut, Answer, table, Ids, Times, Effects
<1>4. Times'
  BY DEF TimedOut, Answer, table, Times, Ids, Effects
<1>5. Effects'
  BY DEF TimedOut, Answer, table, Effects, Ids, Times
<1>6. OneWinner'
  BY SameWinners DEF TimedOut, table
<1>7. HonestAnswers'
  BY DEF TimedOut, Answer, table, HonestAnswers, Rank, To, Ids, Times, Effects
<1> QED
  BY <1>1, <1>2, <1>3, <1>4, <1>5, <1>6, <1>7 DEF IInv

\* The write of a dropped handler runs after all.
LEMMA LateWriteStep == ASSUME IInv, NEW r \in Request, LateWrite(r) PROVE IInv'
<1> USE ClockAssumption, IdAssumption
    DEF IInv, TypeOK, Handlers, PostStatus, Waiting, Time, NoTime
<1>1. TypeOK'
  <2>1. CASE op[r] = "create"
    <3>1. RunInsert(r)
      BY <2>1 DEF LateWrite
    <3> QED
      BY <2>1, <3>1 DEF LateWrite, RunInsert, Await
  <2>2. CASE op[r] # "create"
    <3>1. RunUpdate(r)
      BY <2>2 DEF LateWrite
    <3>2. CASE Matches(r)
      BY <2>2, <3>1, <3>2
         DEF LateWrite, RunUpdate, Matches, NewPublishedAt, From, To, Await
    <3>3. CASE ~Matches(r)
      BY <2>2, <3>1, <3>3 DEF LateWrite, RunUpdate, Matches, Await
    <3> QED
      BY <3>2, <3>3
  <2> QED
    BY <2>1, <2>2
<1>2. Handlers'
  BY DEF LateWrite, RunInsert, RunUpdate, Matches, NewPublishedAt, From, To, Await,
     Handlers
<1>3. Ids'
  BY DEF LateWrite, RunInsert, RunUpdate, Matches, NewPublishedAt, From, To, Await, Ids,
     Times, Effects
<1>4. Times'
  BY DEF LateWrite, RunInsert, RunUpdate, Matches, NewPublishedAt, From, To, Await,
     Times, Ids, Effects
<1>5. Effects'
  BY DEF LateWrite, RunInsert, RunUpdate, Matches, NewPublishedAt, From, To, Await,
     Effects, Ids, Times
<1>6. OneWinner'
  BY InsertWins, UpdateWins DEF LateWrite
<1>7. HonestAnswers'
  <2>1. CASE op[r] = "create"
    <3>1. RunInsert(r)
      BY <2>1 DEF LateWrite
    <3> QED
      BY <2>1, <3>1
         DEF LateWrite, RunInsert, Await, HonestAnswers, Rank, Ids, Times, Effects
  <2>2. CASE op[r] # "create"
    <3>1. RunUpdate(r)
      BY <2>2 DEF LateWrite
    <3>2. CASE Matches(r)
      BY <2>2, <3>1, <3>2
         DEF LateWrite, RunUpdate, Matches, NewPublishedAt, From, To, Await,
           HonestAnswers, Rank, Ids, Times, Effects
    <3>3. CASE ~Matches(r)
      BY <2>2, <3>1, <3>3
         DEF LateWrite, RunUpdate, Matches, Await, HonestAnswers, Rank, Ids, Times,
           Effects
    <3> QED
      BY <3>2, <3>3
  <2> QED
    BY <2>1, <2>2
<1> QED
  BY <1>1, <1>2, <1>3, <1>4, <1>5, <1>6, <1>7 DEF IInv

\* A crash ends every request in flight and keeps the table.
LEMMA CrashStep == ASSUME IInv, Crash PROVE IInv'
<1> USE DEF IInv, TypeOK, Handlers, PostStatus, Waiting, Crash, table
<1>1. TypeOK'
  BY DEF Time, NoTime
<1>2. Handlers'
  OBVIOUS
<1>3. Ids'
  BY DEF Ids
<1>4. Times'
  BY DEF Times
<1>5. Effects'
  BY DEF Effects
<1>6. OneWinner'
  BY SameWinners
<1>7. HonestAnswers'
  BY DEF HonestAnswers, Rank, To
<1> QED
  BY <1>1, <1>2, <1>3, <1>4, <1>5, <1>6, <1>7

\* Time passing disturbs nothing: no stamp lies in the future.
LEMMA TickStep == ASSUME IInv, Tick PROVE IInv'
<1> USE DEF IInv, TypeOK, Tick, table
<1>1. TypeOK'
  BY ClockAssumption DEF Time
<1>2. Handlers'
  BY DEF Handlers
<1>3. Ids'
  BY DEF Ids
<1>4. Times'
  BY ClockAssumption DEF Times, Handlers, Time, NoTime, Waiting
<1>5. Effects'
  BY DEF Effects
<1>6. OneWinner'
  BY SameWinners
<1>7. HonestAnswers'
  BY DEF HonestAnswers, Rank, To
<1> QED
  BY <1>1, <1>2, <1>3, <1>4, <1>5, <1>6, <1>7

\* Nothing changes, nothing is lost.
LEMMA StutterStep == ASSUME IInv, UNCHANGED vars PROVE IInv'
<1> USE DEF IInv, vars, table
<1>1. TypeOK' /\ Handlers' /\ Ids' /\ Times' /\ Effects'
  BY DEF TypeOK, Handlers, Ids, Times, Effects
<1>2. OneWinner'
  BY SameWinners
<1>3. HonestAnswers'
  BY DEF HonestAnswers, Rank, To
<1> QED
  BY <1>1, <1>2, <1>3

\* Every step preserves the invariant.
LEMMA NextIInv == IInv /\ [Next]_vars => IInv'
<1> SUFFICES ASSUME IInv, [Next]_vars PROVE IInv'
  OBVIOUS
<1>1. ASSUME NEW r \in Request, Serve(r) PROVE IInv'
  BY <1>1, CreatePostStep, InsertStep, ArriveStep, LookupStep, UpdateStep, RereadStep,
     ResolveStep, SqlErrorStep, TimedOutStep, LateWriteStep DEF Serve
<1>2. CASE Crash
  BY <1>2, CrashStep
<1>3. CASE Tick
  BY <1>3, TickStep
<1>4. CASE UNCHANGED vars
  BY <1>4, StutterStep
<1> QED
  BY <1>1, <1>2, <1>3, <1>4 DEF Next

\* The invariant holds in every state of every behaviour.
LEMMA Inductive == Spec => []IInv
  BY InitIInv, NextIInv, PTL DEF Spec

-----------------------------------------------------------------------------
(* The theorems *)

\* Type correctness of the table and of every handler.
THEOREM TypeCorrect == Spec => []TypeOK
<1>1. IInv => TypeOK
  BY DEF IInv
<1> QED
  BY <1>1, Inductive, PTL

\* A row carries a publish time, not before its creation, exactly when it has left
\* draft (publish and archive, lines 191-206).
THEOREM StampsCorrect == Spec => []Stamps
<1>1. IInv => Stamps
  <2> SUFFICES ASSUME IInv, NEW p \in PostId, publishedAt[p] # NoTime
               PROVE  createdAt[p] \in 1..publishedAt[p]
    BY DEF IInv, Times, Stamps
  <2>1. createdAt[p] # NoTime /\ createdAt[p] <= publishedAt[p]
    BY DEF IInv, TypeOK, Times
  <2> QED
    BY <2>1, ClockAssumption DEF IInv, TypeOK, Time, NoTime
<1> QED
  BY <1>1, Inductive, PTL

\* The guarded UPDATE has one winner per post and move, however many requests race
\* for it, time out or are cut short by a crash.
THEOREM OneWinnerCorrect == Spec => []OneWinner
<1>1. IInv => OneWinner
  BY DEF IInv
<1> QED
  BY <1>1, Inductive, PTL

\* Answers agree with what the request did and with how far the post has come.
THEOREM HonestAnswersCorrect == Spec => []HonestAnswers
<1>1. IInv => HonestAnswers
  BY DEF IInv
<1> QED
  BY <1>1, Inductive, PTL

\* Rows are never removed, re-dated or re-stamped.
LEMMA KeepsRowsStep == IInv /\ [Next]_vars => [KeepsRows]_vars
<1> SUFFICES ASSUME IInv, [Next]_vars PROVE KeepsRows
  OBVIOUS
<1> USE ClockAssumption DEF KeepsRows
<1>1. CASE UNCHANGED table
  BY <1>1 DEF table
<1>2. ASSUME NEW r \in Request, pc[r] \in {"insert", "orphan"}, op[r] = "create", RunInsert(r)
      PROVE  KeepsRows
  <2>1. id[r] \in PostId /\ status[id[r]] = "absent"
    BY <1>2 DEF IInv, Handlers, Ids
  <2> QED
    BY <1>2, <2>1 DEF RunInsert, IInv, TypeOK
<1>3. ASSUME NEW r \in Request, pc[r] \in {"update", "orphan"}, op[r] # "create", RunUpdate(r)
      PROVE  KeepsRows
  <2>1. id[r] \in PostId /\ op[r] \in {"publish", "archive"}
    BY <1>3 DEF IInv, Handlers
  <2>2. CASE Matches(r)
    BY <1>3, <2>1, <2>2
       DEF RunUpdate, Matches, NewPublishedAt, From, To, IInv, TypeOK, Times
  <2>3. CASE ~Matches(r)
    BY <1>3, <2>3 DEF RunUpdate
  <2> QED
    BY <2>2, <2>3
<1>4. CASE UNCHANGED vars
  BY <1>1, <1>4 DEF vars, table
<1>5. ASSUME NEW r \in Request, Serve(r) PROVE KeepsRows
  <2>1. CASE Insert(r)
    BY <2>1, <1>2 DEF Insert, IInv, Handlers
  <2>2. CASE Update(r)
    BY <2>2, <1>3 DEF Update, IInv, Handlers
  <2>3. CASE LateWrite(r)
    BY <2>3, <1>2, <1>3 DEF LateWrite
  <2> QED
    BY <1>1, <1>5, <2>1, <2>2, <2>3
       DEF Serve, CreatePost, Arrive, Lookup, Reread, Resolve, SqlError, TimedOut
<1> QED
  BY <1>1, <1>4, <1>5 DEF Next, Crash, Tick

\* No step of any request takes a row away, changes its creation time or overwrites
\* its publish time (the guarded UPDATE is the only writer of an existing row).
THEOREM WriteOnceCorrect == Spec => WriteOnce
  BY Inductive, KeepsRowsStep, PTL DEF Spec, WriteOnce

-----------------------------------------------------------------------------
(* BlogPosts implements BlogService *)

Results == [q \in Request |-> Result(q)]

\* A step that serves one request gives that request a result, the others keep theirs.
LEMMA ResultsOf ==
    ASSUME IInv, NEW r \in Request, Serve(r)
    PROVE  Results' = [Results EXCEPT ![r] = Result(r)']
<1>1. ASSUME NEW q \in Request, q # r
      PROVE  pc'[q] = pc[q] /\ changed'[q] = changed[q] /\ code'[q] = code[q]
  BY <1>1 DEF Serve, CreatePost, Insert, Arrive, Lookup, Update, Reread, Resolve, SqlError,
     TimedOut, LateWrite, RunInsert, RunUpdate, Answer, AnswerPost, Await, IInv, TypeOK
<1>2. ASSUME NEW q \in Request, q # r PROVE Result(q)' = Result(q)
  <2>1. pc'[q] = pc[q] /\ changed'[q] = changed[q] /\ code'[q] = code[q]
    BY <1>1, <1>2
  <2> QED
    BY <2>1 DEF Result
<1> QED
  BY <1>2 DEF Results

\* A step that leaves its own request's result alone leaves all results alone.
LEMMA SameResults ==
    ASSUME IInv, NEW r \in Request, Serve(r), Result(r)' = Result(r)
    PROVE  Results' = Results
<1>1. Results' = [Results EXCEPT ![r] = Results[r]]
  BY ResultsOf DEF Results
<1>2. Results = [q \in Request |-> Results[q]]
  BY DEF Results
<1> QED
  BY <1>1, <1>2

\* The initial states map to initial states of the service.
LEMMA InitService == Init => Service!SInit
  BY DEF Init, Service!SInit, Result

\* An arrival opens a request, a create without a title is refused at once.
LEMMA CreatePostServes ==
    ASSUME IInv, NEW r \in Request, CreatePost(r)
    PROVE  Service!Open(r) \/ Service!OpenInvalid(r)
<1> USE DEF IInv, TypeOK, Handlers, CreatePost, Answer, Await, table
<1>1. Results' = [Results EXCEPT ![r] = Result(r)']
  BY ResultsOf DEF Serve
<1>2. Result(r) = "idle" /\ ~changed'[r]
  BY DEF Result
<1>3. CASE Answer(r, 400)
  <2>1. Result(r)' = "refused"
    BY <1>2, <1>3 DEF Result
  <2> QED
    BY <1>1, <1>2, <1>3, <2>1 DEF Service!OpenInvalid, Results
<1>4. CASE Await(r, "insert")
  <2>1. Result(r)' = "open"
    BY <1>2, <1>4 DEF Result
  <2> QED
    BY <1>1, <1>2, <1>4, <2>1 DEF Service!Open, Results
<1> QED
  BY <1>3, <1>4

\* An arrival opens a request.
LEMMA ArriveServes == ASSUME IInv, NEW r \in Request, Arrive(r) PROVE Service!Open(r)
<1> USE DEF IInv, TypeOK, Handlers, Arrive, Await, table
<1>1. Results' = [Results EXCEPT ![r] = Result(r)']
  BY ResultsOf DEF Serve
<1>2. Result(r) = "idle" /\ Result(r)' = "open"
  BY DEF Result
<1> QED
  BY <1>1, <1>2 DEF Service!Open, Results

\* A write takes effect: the INSERT of a create, or an UPDATE that matches its row.
LEMMA WriteApplies ==
    ASSUME IInv, IInv', NEW r \in Request, Serve(r), UNCHANGED <<op, id>>,
           \/ pc[r] \in {"insert", "orphan"} /\ op[r] = "create" /\ RunInsert(r)
           \/ /\ pc[r] \in {"update", "orphan"} /\ op[r] # "create"
              /\ RunUpdate(r) /\ Matches(r)
    PROVE  Service!Apply(r)
<1> USE DEF IInv, TypeOK, Handlers, Service!From, Service!To
<1>1. Results' = [Results EXCEPT ![r] = Result(r)']
  BY ResultsOf
<1>2. Result(r) = "open"
  BY DEF Result
<1>3. Result(r)' = "applied"
  <2>1. changed'[r]
    BY DEF RunInsert, RunUpdate, Matches
  <2> QED
    BY <2>1 DEF Result
<1>4. CASE op[r] = "create"
  <2>1. RunInsert(r)
    BY <1>4
  <2>2. status[id[r]] = "absent"
    BY <1>4 DEF Ids
  <2> QED
    BY <1>1, <1>2, <1>3, <1>4, <2>1, <2>2 DEF RunInsert, Service!Apply, Results
<1>5. CASE op[r] # "create"
  <2>1. RunUpdate(r) /\ Matches(r) /\ op[r] \in {"publish", "archive"} /\ id[r] \in PostId
    BY <1>5
  <2>2. status' = [status EXCEPT ![id[r]] = To(op[r])] /\ status[id[r]] = From(op[r])
    BY <2>1 DEF RunUpdate, Matches
  <2>3. CASE op[r] = "publish"
    <3>1. stamp[r] \in Time
      BY <1>5, <2>1, <2>3 DEF Times, Time, NoTime
    <3>2. publishedAt' = [publishedAt EXCEPT ![id[r]] = stamp[r]]
      BY <2>1, <2>3 DEF RunUpdate, NewPublishedAt
    <3> QED
      BY <1>1, <1>2, <1>3, <2>2, <2>3, <3>1, <3>2 DEF From, To, Service!Apply, Results
  <2>4. CASE op[r] = "archive"
    <3>1. publishedAt' = publishedAt
      BY <2>1, <2>4 DEF RunUpdate, NewPublishedAt
    <3> QED
      BY <1>1, <1>2, <1>3, <2>2, <2>4, <3>1 DEF From, To, Service!Apply, Results
  <2> QED
    BY <2>1, <2>3, <2>4
<1> QED
  BY <1>4, <1>5

\* A request ends open and without an effect.
LEMMA EndsVoid ==
    ASSUME IInv, NEW r \in Request, Serve(r), Result(r) = "open", Result(r)' = "void",
           UNCHANGED <<status, publishedAt, op, id>>
    PROVE  Service!GiveUp
<1>1. Results' = [Results EXCEPT ![r] = "void"]
  BY ResultsOf
<1>2. {r} \in SUBSET {q \in Request : Results[q] = "open"}
  BY DEF Results
<1>3. Results' = [q \in Request |-> IF q \in {r} THEN "void" ELSE Results[q]]
  BY <1>1 DEF Results
<1> QED
  BY <1>2, <1>3 DEF Service!GiveUp, Results

\* The first get settles the request, or decides nothing.
LEMMA LookupServes ==
    ASSUME IInv, NEW r \in Request, Lookup(r)
    PROVE  Service!Verdict(r) \/ UNCHANGED Service!svars
<1> USE DEF IInv, TypeOK, Handlers, Lookup, table
<1>1. Results' = [Results EXCEPT ![r] = Result(r)']
  BY ResultsOf DEF Serve
<1>2. Result(r) = "open" /\ ~changed[r] /\ code[r] = 0
  BY DEF Result, Waiting
<1>3. UNCHANGED <<status, publishedAt, op, id, changed>>
  OBVIOUS
<1>4. CASE Missing(r) /\ Answer(r, 404)
  <2>1. Result(r)' = "unknown id"
    BY <1>2, <1>4 DEF Answer, Result
  <2> QED
    BY <1>1, <1>2, <1>3, <1>4, <2>1 DEF Missing, Service!Verdict, Results
<1>5. CASE op[r] = "get" /\ ~Missing(r) /\ AnswerPost(r, 200, status[id[r]])
  <2>1. Result(r)' = "applied"
    BY <1>2, <1>5 DEF AnswerPost, Result
  <2> QED
    BY <1>1, <1>2, <1>3, <1>5, <2>1 DEF Missing, Service!Verdict, Results
<1>6. CASE op[r] # "get" /\ ~Missing(r) /\ status[id[r]] # From(op[r]) /\ Answer(r, 400)
  <2>1. Result(r)' = "refused"
    BY <1>2, <1>6 DEF Answer, Result
  <2>2. status[id[r]] # Service!From(op[r])
    BY <1>6 DEF From, Service!From
  <2> QED
    BY <1>1, <1>2, <1>3, <1>6, <2>1, <2>2 DEF Missing, Service!Verdict, Results
<1>7. CASE Await(r, "update") /\ UNCHANGED code
  <2>1. Result(r)' = "open"
    BY <1>2, <1>7 DEF Await, Result
  <2>2. Results' = Results
    BY <1>2, <2>1, SameResults DEF Serve
  <2> QED
    BY <1>3, <2>2 DEF Service!svars, Results
<1> QED
  BY <1>4, <1>5, <1>6, <1>7

\* A won UPDATE is the instant the move takes effect; a lost one is not seen.
LEMMA UpdateServes ==
    ASSUME IInv, IInv', NEW r \in Request, Update(r)
    PROVE  Service!Apply(r) \/ UNCHANGED Service!svars
<1>1. CASE Matches(r)
  BY <1>1, WriteApplies DEF Update, Serve, IInv, Handlers
<1>2. CASE ~Matches(r)
  <2>1. UNCHANGED <<status, publishedAt, op, id, code, changed>>
    BY <1>2 DEF Update, RunUpdate, Matches, IInv, TypeOK, Handlers
  <2>2. Result(r)' = Result(r)
    BY <1>2, <2>1 DEF Update, Await, Result, IInv, TypeOK, Handlers
  <2>3. Results' = [Results EXCEPT ![r] = Result(r)']
    BY ResultsOf DEF Serve
  <2> QED
    BY <2>1, <2>2, <2>3 DEF Service!svars, Results
<1> QED
  BY <1>1, <1>2

\* The second get of a winner adds nothing to what its UPDATE did.
LEMMA RereadServes == ASSUME IInv, NEW r \in Request, Reread(r) PROVE UNCHANGED Service!svars
<1> USE DEF IInv, TypeOK, Handlers, Reread, Answer, AnswerPost, table
<1>1. Result(r) = "applied" /\ Result(r)' = "applied"
  BY DEF Result
<1>2. Results' = Results
  BY <1>1, SameResults DEF Serve
<1> QED
  BY <1>2 DEF Service!svars, Results

\* A lost race is refused, at an instant when the post is in another state.
LEMMA ResolveServes == ASSUME IInv, NEW r \in Request, Resolve(r) PROVE Service!Verdict(r)
<1> USE DEF IInv, TypeOK, Handlers, Resolve, LostRaceCode, Missing, Answer, table
<1>1. Results' = [Results EXCEPT ![r] = Result(r)']
  BY ResultsOf DEF Serve
<1>2. Result(r) = "open" /\ Result(r)' = "refused"
  BY DEF Result, Effects, Waiting
<1>3. status[id[r]] # Service!From(op[r]) /\ status[id[r]] # "absent"
  BY DEF Effects, Service!From
<1> QED
  BY <1>1, <1>2, <1>3 DEF Service!Verdict, Results

\* A failure before the write gives the request up; one after it changes nothing.
LEMMA SqlErrorServes ==
    ASSUME IInv, NEW r \in Request, SqlError(r)
    PROVE  Service!GiveUp \/ UNCHANGED Service!svars
<1> USE DEF IInv, TypeOK, Handlers, SqlError, Answer, Waiting, table
<1>1. CASE changed[r]
  <2>1. Result(r)' = Result(r)
    BY <1>1 DEF Result
  <2>2. Results' = Results
    BY <2>1, SameResults DEF Serve
  <2> QED
    BY <2>2 DEF Service!svars, Results
<1>2. CASE ~changed[r]
  <2>1. Result(r) = "open" /\ Result(r)' = "void"
    BY <1>2 DEF Result
  <2> QED
    BY <2>1, EndsVoid DEF Serve
<1> QED
  BY <1>1, <1>2

\* A timeout gives the request up, unless its write has run or still may.
LEMMA TimedOutServes ==
    ASSUME IInv, NEW r \in Request, TimedOut(r)
    PROVE  Service!GiveUp \/ UNCHANGED Service!svars
<1> USE DEF IInv, TypeOK, Handlers, TimedOut, Answer, Waiting, table
<1>1. CASE changed[r] \/ pc'[r] = "orphan"
  <2>1. Result(r)' = Result(r)
    <3>1. CASE changed[r]
      BY <3>1 DEF Result
    <3>2. CASE ~changed[r] /\ pc'[r] = "orphan"
      <4>1. code'[r] = 408 /\ ~changed'[r]
        BY <3>2
      <4>2. Result(r)' = "open"
        BY <3>2, <4>1 DEF Result
      <4>3. pc[r] \notin {"idle", "done"} /\ code[r] = 0
        BY <3>2
      <4>4. Result(r) = "open"
        BY <3>2, <4>3 DEF Result
      <4> QED
        BY <4>2, <4>4
    <3> QED
      BY <1>1, <3>1, <3>2
  <2>2. Results' = Results
    BY <2>1, SameResults DEF Serve
  <2> QED
    BY <2>2 DEF Service!svars, Results
<1>2. CASE ~changed[r] /\ pc'[r] # "orphan"
  <2>1. Result(r) = "open" /\ Result(r)' = "void"
    BY <1>2 DEF Result
  <2> QED
    BY <2>1, EndsVoid DEF Serve
<1> QED
  BY <1>1, <1>2

\* A late write takes effect or gives the request up.
LEMMA LateWriteServes ==
    ASSUME IInv, IInv', NEW r \in Request, LateWrite(r)
    PROVE  Service!Apply(r) \/ Service!GiveUp
<1>1. CASE op[r] = "create"
  BY <1>1, WriteApplies DEF LateWrite, Serve
<1>2. CASE op[r] # "create" /\ Matches(r)
  BY <1>2, WriteApplies DEF LateWrite, Serve
<1>3. CASE op[r] # "create" /\ ~Matches(r)
  <2>1. RunUpdate(r)
    BY <1>3 DEF LateWrite
  <2>2. UNCHANGED <<op, id>>
    BY DEF LateWrite
  <2>3. UNCHANGED <<status, publishedAt, changed>> /\ ~changed[r]
    BY <1>3, <2>1 DEF LateWrite, RunUpdate, Matches, IInv, TypeOK, Handlers
  <2>4. Result(r) = "open" /\ Result(r)' = "void"
    BY <2>3 DEF LateWrite, Await, Result, IInv, TypeOK, Handlers
  <2> QED
    BY <2>2, <2>3, <2>4, EndsVoid DEF Serve
<1> QED
  BY <1>1, <1>2, <1>3

\* A crash gives up every open request.
LEMMA CrashServes == ASSUME IInv, Crash PROVE Service!GiveUp
<1> USE DEF IInv, TypeOK, Handlers, Crash, table
<1> DEFINE Lost == {q \in Request : Results[q] = "open"}
<1>1. ASSUME NEW q \in Request
      PROVE  Result(q)' = IF Result(q) = "open" THEN "void" ELSE Result(q)
  BY DEF Result
<1>2. Results' = [q \in Request |-> IF q \in Lost THEN "void" ELSE Results[q]]
  BY <1>1 DEF Results
<1>3. Lost \in SUBSET {q \in Request : Results[q] = "open"}
  OBVIOUS
<1>4. UNCHANGED <<status, publishedAt, op, id>>
  OBVIOUS
<1> HIDE DEF Lost
<1> QED
  BY <1>2, <1>3, <1>4 DEF Service!GiveUp, Results

\* Every step of the handlers is a step of the service or a stutter.
LEMMA NextServes == IInv /\ IInv' /\ [Next]_vars => [Service!SNext]_(Service!svars)
<1> SUFFICES ASSUME IInv, IInv', [Next]_vars PROVE Service!SNext \/ UNCHANGED Service!svars
  OBVIOUS
<1>1. ASSUME NEW r \in Request, Serve(r) PROVE Service!SNext \/ UNCHANGED Service!svars
  <2>1. CASE CreatePost(r)
    BY <2>1, CreatePostServes DEF Service!SNext
  <2>2. CASE Insert(r)
    BY <1>1, <2>2, WriteApplies DEF Insert, Service!SNext, IInv, Handlers
  <2>3. CASE Arrive(r)
    BY <2>3, ArriveServes DEF Service!SNext
  <2>4. CASE Lookup(r)
    BY <2>4, LookupServes DEF Service!SNext
  <2>5. CASE Update(r)
    BY <2>5, UpdateServes DEF Service!SNext
  <2>6. CASE Reread(r)
    BY <2>6, RereadServes
  <2>7. CASE Resolve(r)
    BY <2>7, ResolveServes DEF Service!SNext
  <2>8. CASE SqlError(r)
    BY <2>8, SqlErrorServes DEF Service!SNext
  <2>9. CASE TimedOut(r)
    BY <2>9, TimedOutServes DEF Service!SNext
  <2>10. CASE LateWrite(r)
    BY <2>10, LateWriteServes DEF Service!SNext
  <2> QED
    BY <1>1, <2>1, <2>2, <2>3, <2>4, <2>5, <2>6, <2>7, <2>8, <2>9, <2>10 DEF Serve
<1>2. CASE Crash
  BY <1>2, CrashServes DEF Service!SNext
<1>3. CASE Tick \/ UNCHANGED vars
  <2>1. UNCHANGED <<status, publishedAt, op, id, pc, code, changed>>
    BY <1>3 DEF Tick, vars, table
  <2> QED
    BY <2>1 DEF Service!svars, Result
<1> QED
  BY <1>1, <1>2, <1>3 DEF Next

\* Every behaviour of the handlers, statement by statement and with timeouts, errors
\* and crashes, is one of the service in which each request takes effect at most
\* once and at one instant.
THEOREM ImplementsService == Spec => Implements
<1>1. Init => Service!SInit
  BY InitService
<1>2. IInv /\ IInv' /\ [Next]_vars => [Service!SNext]_(Service!svars)
  BY NextServes
<1> QED
  BY <1>1, <1>2, Inductive, PTL DEF Spec, Implements, Service!SSpec
-----------------------------------------------------------------------------
(* Lists and statistics beside the handlers *)

Unbroken == filter \in {"all", "archived"} \/ ~left

\* The rows of the list that come before p.
Ahead(p) == {q \in Rows(filter) : createdAt[q] > createdAt[p]}

WalkTypes ==
    /\ walk \in {"none", "walking", "over"}
    /\ filter \in PostStatus \cup {"all"}
    /\ limit \in Int
    /\ offset \in Nat
    /\ listed \in SUBSET PostId
    /\ since \in SUBSET PostId
    /\ left \in BOOLEAN

\* Posts leave only the lists of drafts and of published posts.
Leaving ==
    /\ ~left => since \subseteq Rows(filter)
    /\ filter \in {"all", "archived"} => ~left
    /\ walk = "none" => filter = "all" /\ since = {} /\ offset = 0

\* A post of the list not received yet is still to come: there are as many rows before
\* it as have been received.
Caught ==
    walk # "none" /\ ~left =>
        \A p \in since : Untied(p) =>
            p \in listed \/ (walk = "walking" /\ Cardinality(Ahead(p)) >= offset)

At(S) == {p \in PostId : status[p] \in S}

\* What the last statistics counted is there still, or further along.
Counted ==
    /\ counts \in [PostStatus -> Nat]
    /\ counts["archived"] <= Cardinality(At({"archived"}))
    /\ PastDraft(counts) <= Cardinality(At({"published", "archived"}))
    /\ counts["draft"] + PastDraft(counts) <= Cardinality(At(PostStatus))

LInv == IInv /\ WalkTypes /\ Leaving /\ Caught /\ Counted

\* The posts in given states are finitely many, like all posts.
LEMMA FiniteRows ==
    ASSUME NEW S \in SUBSET PostId
    PROVE  IsFiniteSet(S) /\ Cardinality(S) \in Nat /\ Cardinality(S) <= Cardinality(PostId)
  BY PostIdAssumption, FS_Subset, FS_CardinalityType

\* More rows count for more.
LEMMA MoreRows ==
    ASSUME NEW S \in SUBSET PostId, NEW T \in SUBSET S
    PROVE  Cardinality(T) <= Cardinality(S)
  BY FiniteRows, FS_Subset

\* Rows of one kind and rows of another add up.
LEMMA ApartRows ==
    ASSUME NEW S \in SUBSET PostId, NEW T \in SUBSET PostId, S \cap T = {}
    PROVE  Cardinality(S \cup T) = Cardinality(S) + Cardinality(T)
<1>1. /\ IsFiniteSet(S) /\ IsFiniteSet(T)
      /\ Cardinality(S) \in Nat /\ Cardinality(T) \in Nat
  BY FiniteRows
<1>2. Cardinality(S \cup T) = Cardinality(S) + Cardinality(T) - Cardinality(S \cap T)
  BY <1>1, FS_Union
<1>3. Cardinality(S \cap T) = 0
  BY FS_EmptySet
<1> QED
  BY <1>1, <1>2, <1>3

\* No request moves a post back.
MovesOn ==
    \A p \in PostId :
        /\ status[p] = "archived" => status'[p] = "archived"
        /\ status[p] \in {"published", "archived"} => status'[p] \in {"published", "archived"}

LEMMA MovesOnStep == IInv /\ [Next]_vars => MovesOn
<1> SUFFICES ASSUME IInv, [Next]_vars PROVE MovesOn
  OBVIOUS
<1> USE DEF MovesOn
<1>1. CASE UNCHANGED table
  BY <1>1 DEF table
<1>2. ASSUME NEW r \in Request, pc[r] \in {"insert", "orphan"}, op[r] = "create", RunInsert(r)
      PROVE  MovesOn
  <2>1. id[r] \in PostId /\ status[id[r]] = "absent"
    BY <1>2 DEF IInv, Handlers, Ids
  <2> QED
    BY <1>2, <2>1 DEF RunInsert, IInv, TypeOK
<1>3. ASSUME NEW r \in Request, pc[r] \in {"update", "orphan"}, op[r] # "create", RunUpdate(r)
      PROVE  MovesOn
  <2>1. id[r] \in PostId /\ op[r] \in {"publish", "archive"}
    BY <1>3 DEF IInv, Handlers
  <2>2. CASE Matches(r)
    BY <1>3, <2>1, <2>2 DEF RunUpdate, Matches, From, To, IInv, TypeOK
  <2>3. CASE ~Matches(r)
    BY <1>3, <2>3 DEF RunUpdate
  <2> QED
    BY <2>2, <2>3
<1>4. CASE UNCHANGED vars
  BY <1>1, <1>4 DEF vars, table
<1>5. ASSUME NEW r \in Request, Serve(r) PROVE MovesOn
  <2>1. CASE Insert(r)
    BY <2>1, <1>2 DEF Insert, IInv, Handlers
  <2>2. CASE Update(r)
    BY <2>2, <1>3 DEF Update, IInv, Handlers
  <2>3. CASE LateWrite(r)
    BY <2>3, <1>2, <1>3 DEF LateWrite
  <2> QED
    BY <1>1, <1>5, <2>1, <2>2, <2>3
       DEF Serve, CreatePost, Arrive, Lookup, Reread, Resolve, SqlError, TimedOut
<1> QED
  BY <1>1, <1>4, <1>5 DEF Next, Crash, Tick

\* Rows stay, with their creation time, and move on only: the table as lists and
\* statistics see it.
LEMMA TableStep ==
    ASSUME IInv, [Next]_vars, NEW p \in PostId, status[p] # "absent"
    PROVE  /\ status'[p] # "absent" /\ createdAt'[p] = createdAt[p]
           /\ status[p] = "archived" => status'[p] = "archived"
           /\ status[p] \in {"published", "archived"} => status'[p] \in {"published", "archived"}
<1>1. KeepsRows
  <2>1. CASE UNCHANGED vars
    BY <2>1 DEF vars, KeepsRows
  <2>2. CASE ~UNCHANGED vars
    BY <2>2, KeepsRowsStep
  <2> QED
    BY <2>1, <2>2
<1>2. MovesOn
  BY MovesOnStep
<1> QED
  BY <1>1, <1>2 DEF KeepsRows, MovesOn

\* A page that passes over a row of the list without a tie is full, and everything
\* up to its end comes before that row.
LEMMA PageCatches ==
    ASSUME NEW R \in SUBSET PostId, NEW P \in SUBSET R, NEW size \in Nat, NEW skip \in Nat,
           IsPage(P, R, size, skip), createdAt \in [PostId -> Nat],
           NEW p \in R, p \notin P, \A q \in R \ {p} : createdAt[q] # createdAt[p],
           Cardinality({q \in R : createdAt[q] > createdAt[p]}) >= skip
    PROVE  /\ Cardinality(P) = size
           /\ Cardinality({q \in R : createdAt[q] > createdAt[p]}) >= skip + Cardinality(P)
<1> DEFINE Newer == {q \in R : createdAt[q] > createdAt[p]}
<1>1. PICK A \in SUBSET (R \ P) :
        /\ Cardinality(A) = Smaller(skip, Cardinality(R))
        /\ Cardinality(P) = Smaller(size, Cardinality(R) - Cardinality(A))
        /\ NotOlder(A, R \ A)
        /\ NotOlder(P, R \ (A \cup P))
  BY DEF IsPage
<1>2. /\ IsFiniteSet(Newer) /\ IsFiniteSet(A) /\ IsFiniteSet(P) /\ IsFiniteSet(R)
      /\ Cardinality(Newer) \in Nat /\ Cardinality(A) \in Nat
      /\ Cardinality(P) \in Nat /\ Cardinality(R) \in Nat
  BY FiniteRows
<1>3. p \notin Newer /\ Newer \in SUBSET R
  OBVIOUS
<1>4. p \notin A
  <2> SUFFICES ASSUME p \in A PROVE FALSE
    OBVIOUS
  <2>1. ASSUME NEW q \in Newer PROVE q \in A
    BY <1>1, <2>1 DEF NotOlder
  <2>2. Newer \cup {p} \in SUBSET A
    BY <2>1
  <2>3. Cardinality(Newer \cup {p}) = Cardinality(Newer) + 1
    BY <1>2, <1>3, FS_AddElement
  <2>4. Cardinality(Newer \cup {p}) <= Cardinality(A)
    BY <2>2, MoreRows
  <2>5. Cardinality(A) <= skip
    BY <1>1, <1>2 DEF Smaller
  <2> QED
    BY <1>2, <2>3, <2>4, <2>5
<1>5. A \cup P \in SUBSET Newer
  <2> SUFFICES ASSUME NEW q \in A \cup P PROVE q \in Newer
    OBVIOUS
  <2>1. q \in R \ {p}
    BY <1>4
  <2>2. createdAt[q] >= createdAt[p]
    BY <1>1, <1>4 DEF NotOlder
  <2> QED
    BY <2>1, <2>2
<1>6. Cardinality(A \cup P) = Cardinality(A) + Cardinality(P)
  BY ApartRows
<1>7. Cardinality(A) + Cardinality(P) <= Cardinality(Newer)
  BY <1>5, <1>6, MoreRows
<1>8. Cardinality(Newer) < Cardinality(R)
  <2>1. Cardinality(Newer \cup {p}) = Cardinality(Newer) + 1
    BY <1>2, <1>3, FS_AddElement
  <2>2. Cardinality(Newer \cup {p}) <= Cardinality(R)
    BY <1>3, MoreRows
  <2> QED
    BY <1>2, <2>1, <2>2
<1> HIDE DEF Newer
<1>9. Cardinality(A) = skip
  <2>1. Cardinality(Newer) >= skip
    BY DEF Newer
  <2> QED
    BY <1>1, <1>2, <1>8, <2>1 DEF Smaller
<1>10. Cardinality(P) = size
  BY <1>1, <1>2, <1>7, <1>8, <1>9 DEF Smaller
<1>11. Cardinality(Newer) >= skip + Cardinality(P)
  BY <1>2, <1>7, <1>9
<1> QED
  BY <1>10, <1>11 DEF Newer

\* The first state.
LEMMA InitLInv == LInit => LInv
<1> SUFFICES ASSUME LInit PROVE LInv
  OBVIOUS
<1>1. IInv
  BY InitIInv DEF LInit
<1>2. WalkTypes
  <2>1. left \in BOOLEAN
    BY DEF LInit
  <2>2. /\ walk = "none" /\ filter = "all" /\ limit = 1 /\ offset = 0
        /\ listed = {} /\ since = {}
    BY DEF LInit
  <2> QED
    BY <2>1, <2>2 DEF WalkTypes
<1>3. Leaving /\ Caught
  <2>1. walk = "none" /\ filter = "all" /\ since = {} /\ offset = 0 /\ left = FALSE
    BY DEF LInit
  <2>2. ~left
    BY <2>1
  <2> QED
    BY <2>1, <2>2 DEF Leaving, Caught
<1>4. Counted
  BY FiniteRows DEF LInit, Counted, PastDraft, At, PostStatus
<1> QED
  BY <1>1, <1>2, <1>3, <1>4 DEF LInv

\* Nothing that a walk or the statistics rely on is undone by a handler.
LEMMA HandleLInv == LInv /\ Handle => LInv'
<1> SUFFICES ASSUME LInv, Handle PROVE LInv'
  OBVIOUS
<1> USE DEF LInv
<1>1. IInv /\ [Next]_vars /\ IInv'
  BY NextIInv DEF Handle
<1>2. UNCHANGED <<walk, filter, limit, offset, listed, since, counts>>
  BY DEF Handle
<1>3. WalkTypes'
  BY <1>2 DEF WalkTypes, Handle
<1>4. filter \in {"all", "archived"} => ~left'
  <2> SUFFICES ASSUME filter \in {"all", "archived"}, NEW p \in PostId, InList(p, filter)
               PROVE  InList(p, filter)'
    BY DEF Handle, Leaving, WalkTypes
  <2> QED
    BY <1>1, <1>2, TableStep DEF InList
<1>5. ASSUME ~left' PROVE ~left /\ Rows(filter) \subseteq Rows(filter)'
  BY <1>5 DEF Handle, Rows, WalkTypes
<1>6. Leaving'
  BY <1>2, <1>4, <1>5 DEF Leaving
<1>7. Caught'
  <2> SUFFICES ASSUME walk # "none", ~left', NEW p \in since, Untied(p)', p \notin listed
               PROVE  walk = "walking" /\ Cardinality(Ahead(p)') >= offset
    BY <1>2 DEF Caught
  <2>1. p \in Rows(filter) /\ p \in PostId /\ status[p] # "absent"
    BY <1>5 DEF Leaving, Rows, InList
  <2>2. Untied(p)
    <3> SUFFICES ASSUME NEW q \in PostId \ {p}, status[q] # "absent"
                 PROVE  createdAt[q] # createdAt[p]
      BY DEF Untied
    <3>1. /\ status'[q] # "absent" /\ createdAt'[q] = createdAt[q]
          /\ createdAt'[p] = createdAt[p]
      BY <1>1, <2>1, TableStep
    <3>2. createdAt'[q] # createdAt'[p]
      BY <3>1 DEF Untied
    <3> QED
      BY <3>1, <3>2
  <2>3. walk = "walking" /\ Cardinality(Ahead(p)) >= offset
    BY <1>5, <2>2 DEF Caught
  <2>4. Ahead(p) \in SUBSET Ahead(p)'
    <3> SUFFICES ASSUME NEW q \in Rows(filter), createdAt[q] > createdAt[p]
                 PROVE  q \in Rows(filter)' /\ createdAt'[q] > createdAt'[p]
      BY DEF Ahead
    <3>1. q \in PostId /\ status[q] # "absent" /\ q \in Rows(filter)'
      BY <1>5 DEF Rows, InList
    <3>2. createdAt'[q] = createdAt[q] /\ createdAt'[p] = createdAt[p]
      BY <1>1, <2>1, <3>1, TableStep
    <3> QED
      BY <3>1, <3>2
  <2>5. Ahead(p)' \in SUBSET PostId
    BY DEF Ahead, Rows
  <2>6. Ahead(p) \in SUBSET PostId
    BY DEF Ahead, Rows
  <2>7. /\ Cardinality(Ahead(p)) <= Cardinality(Ahead(p)')
        /\ Cardinality(Ahead(p)) \in Nat /\ Cardinality(Ahead(p)') \in Nat
    BY <2>4, <2>5, <2>6, MoreRows, FiniteRows
  <2> QED
    BY <2>3, <2>7 DEF WalkTypes
<1>8. Counted'
  <2>1. /\ At({"archived"}) \in SUBSET At({"archived"})'
        /\ At({"published", "archived"}) \in SUBSET At({"published", "archived"})'
    BY <1>1, TableStep DEF At
  <2>2. At(PostStatus) \in SUBSET At(PostStatus)'
    <3> SUFFICES ASSUME NEW p \in PostId, status[p] \in PostStatus
                 PROVE  status'[p] \in PostStatus
      BY DEF At
    <3>1. status[p] # "absent"
      BY DEF PostStatus
    <3>2. status'[p] # "absent"
      BY <1>1, <3>1, TableStep
    <3> QED
      BY <1>1, <3>2 DEF IInv, TypeOK
  <2>3. \A S : At(S) \in SUBSET PostId /\ At(S)' \in SUBSET PostId
    BY DEF At
  <2>4. /\ Cardinality(At({"archived"})) <= Cardinality(At({"archived"})')
        /\ Cardinality(At({"published", "archived"}))
              <= Cardinality(At({"published", "archived"})')
        /\ Cardinality(At(PostStatus)) <= Cardinality(At(PostStatus)')
    BY <2>1, <2>2, <2>3, MoreRows
  <2>5. \A S : Cardinality(At(S)) \in Nat /\ Cardinality(At(S)') \in Nat
    BY <2>3, FiniteRows
  <2>6. counts' = counts /\ PastDraft(counts) \in Nat /\ counts["draft"] \in Nat
        /\ counts["archived"] \in Nat
    BY <1>2 DEF Counted, PastDraft, PostStatus
  <2> QED
    BY <2>4, <2>5, <2>6 DEF Counted
<1> QED
  BY <1>1, <1>3, <1>6, <1>7, <1>8

\* A walk begins with nothing received and nothing lost.
LEMMA BeginLInv == LInv /\ Begin /\ UNCHANGED <<vars, counts>> => LInv'
<1> SUFFICES ASSUME LInv, Begin, UNCHANGED <<vars, counts>> PROVE LInv'
  OBVIOUS
<1> USE DEF LInv
<1>1. IInv'
  BY StutterStep
<1>2. UNCHANGED <<status, createdAt>>
  BY DEF vars
<1>3. Counted'
  BY <1>2 DEF Counted, At
<1>4. ~left /\ ~left' /\ offset' = 0 /\ walk' = "walking"
  BY DEF Begin, Leaving
<1>5. since' = Rows(filter)' /\ since' \in SUBSET PostId
  BY <1>2 DEF Begin, Rows, InList
<1>6. WalkTypes'
  BY <1>5, PageAssumption DEF Begin, WalkTypes
<1>7. Leaving'
  BY <1>4, <1>5 DEF Leaving
<1>8. Caught'
  <2>1. ASSUME NEW p \in since' PROVE Cardinality(Ahead(p)') >= offset'
    <3>1. Ahead(p)' \in SUBSET PostId
      BY DEF Ahead, Rows
    <3>2. Cardinality(Ahead(p)') \in Nat
      BY <3>1, FiniteRows
    <3> QED
      BY <1>4, <3>2
  <2> QED
    BY <1>4, <2>1 DEF Caught
<1> QED
  BY <1>1, <1>3, <1>6, <1>7, <1>8

\* A page leaves no row behind that it should have had.
LEMMA PageLInv == LInv /\ Page /\ UNCHANGED <<vars, counts>> => LInv'
<1> SUFFICES ASSUME LInv, Page, UNCHANGED <<vars, counts>> PROVE LInv'
  OBVIOUS
<1> USE DEF LInv
<1>1. IInv'
  BY StutterStep
<1>2. UNCHANGED <<status, createdAt, filter, limit, since, left>> /\ walk = "walking"
  BY DEF vars, Page
<1>3. Counted'
  BY <1>2 DEF Counted, At, vars
<1>4. PICK P \in SUBSET Rows(filter) :
        /\ IsPage(P, Rows(filter), Limit(limit), offset)
        /\ listed' = listed \cup P
        /\ offset' = offset + Cardinality(P)
        /\ walk' = IF LastPage(P) THEN "over" ELSE "walking"
  BY DEF Page
<1>5. Rows(filter) \in SUBSET PostId /\ P \in SUBSET PostId /\ Cardinality(P) \in Nat
  BY FiniteRows DEF Rows
<1>6. WalkTypes'
  BY <1>2, <1>4, <1>5 DEF WalkTypes
<1>7. Rows(filter)' = Rows(filter)
  BY <1>2 DEF Rows, InList
<1>8. Leaving'
  BY <1>2, <1>4, <1>7 DEF Leaving
<1>9. Limit(limit) \in Nat /\ (LastPage(P) => Cardinality(P) < Limit(limit))
  BY <1>5, PageAssumption DEF WalkTypes, LastPage, Limit, AtMost
<1>10. Caught'
  <2> SUFFICES ASSUME ~left, NEW p \in since, Untied(p), p \notin listed \cup P
               PROVE  walk' = "walking" /\ Cardinality(Ahead(p)) >= offset'
    BY <1>2, <1>4, <1>7 DEF Caught, Untied, Ahead
  <2>1. p \in Rows(filter)
    BY DEF Leaving
  <2>2. Cardinality(Ahead(p)) >= offset
    BY <1>2 DEF Caught
  <2>3. \A q \in Rows(filter) \ {p} : createdAt[q] # createdAt[p]
    BY DEF Untied, Rows, InList
  <2>4. createdAt \in [PostId -> Nat] /\ offset \in Nat
    BY ClockAssumption DEF IInv, TypeOK, Time, NoTime, WalkTypes
  <2>5. /\ Cardinality(P) = Limit(limit)
        /\ Cardinality(Ahead(p)) >= offset + Cardinality(P)
    BY <1>4, <1>5, <1>9, <2>1, <2>2, <2>3, <2>4, PageCatches DEF Ahead
  <2>6. ~LastPage(P)
    BY <1>9, <2>5
  <2> QED
    BY <1>4, <2>5, <2>6
<1> QED
  BY <1>1, <1>3, <1>6, <1>8, <1>10

\* The groups of the statistics add up to the posts past draft, and to all.
LEMMA GroupsAddUp ==
    ASSUME TypeOK, Stats
    PROVE  /\ counts' \in [PostStatus -> Nat]
           /\ counts'["archived"] = Cardinality(At({"archived"}))
           /\ PastDraft(counts') = Cardinality(At({"published", "archived"}))
           /\ counts'["draft"] + PastDraft(counts') = Cardinality(At(PostStatus))
<1>1. counts' = [s \in PostStatus |-> Cardinality(At({s}))]
  BY DEF Stats, Field, At
<1>2. \A S : At(S) \in SUBSET PostId /\ Cardinality(At(S)) \in Nat
  BY FiniteRows DEF At
<1>3. /\ At({"published", "archived"}) = At({"published"}) \cup At({"archived"})
      /\ At({"published"}) \cap At({"archived"}) = {}
      /\ At(PostStatus) = At({"draft"}) \cup At({"published", "archived"})
      /\ At({"draft"}) \cap At({"published", "archived"}) = {}
  BY DEF At, PostStatus
<1>4. Cardinality(At({"published", "archived"})) =
         Cardinality(At({"published"})) + Cardinality(At({"archived"}))
  BY <1>2, <1>3, ApartRows
<1>5. Cardinality(At(PostStatus)) =
         Cardinality(At({"draft"})) + Cardinality(At({"published", "archived"}))
  BY <1>2, <1>3, ApartRows
<1>6. /\ counts'["draft"] = Cardinality(At({"draft"}))
      /\ counts'["published"] = Cardinality(At({"published"}))
      /\ counts'["archived"] = Cardinality(At({"archived"}))
  BY <1>1 DEF PostStatus
<1> QED
  BY <1>1, <1>2, <1>4, <1>5, <1>6 DEF PastDraft

\* Statistics count what is there.
LEMMA StatsLInv == LInv /\ Stats /\ UNCHANGED <<vars, walkVars>> => LInv'
<1> SUFFICES ASSUME LInv, Stats, UNCHANGED <<vars, walkVars>> PROVE LInv'
  OBVIOUS
<1> USE DEF LInv
<1>1. IInv'
  BY StutterStep
<1>2. UNCHANGED <<status, createdAt>>
  BY DEF vars
<1>3. WalkTypes'
  BY DEF walkVars, WalkTypes
<1>4. Leaving' /\ Caught'
  BY <1>2 DEF walkVars, Leaving, Caught, Rows, InList, Untied, Ahead
<1>5. \A S : At(S)' = At(S) /\ Cardinality(At(S)) \in Nat
  BY <1>2, FiniteRows DEF At
<1>6. Counted'
  BY <1>5, GroupsAddUp DEF Counted, IInv
<1> QED
  BY <1>1, <1>3, <1>4, <1>6

\* Every step preserves the invariant.
LEMMA NextLInv == LInv /\ [LNext]_lvars => LInv'
<1> SUFFICES ASSUME LInv, [LNext]_lvars PROVE LInv'
  OBVIOUS
<1>1. CASE UNCHANGED lvars
  <2>1. IInv'
    BY <1>1, StutterStep DEF lvars, LInv
  <2>2. UNCHANGED <<status, createdAt, walk, filter, limit, offset, listed, since, left, counts>>
    BY <1>1 DEF lvars, vars, walkVars
  <2>3. (WalkTypes /\ Leaving /\ Caught /\ Counted)'
    BY <2>2 DEF LInv, WalkTypes, Leaving, Caught, Counted, Rows, InList, Untied, Ahead, At
  <2> QED
    BY <2>1, <2>3 DEF LInv
<1> QED
  BY <1>1, HandleLInv, BeginLInv, PageLInv, StatsLInv DEF LNext

LEMMA LInductive == LSpec => []LInv
  BY InitLInv, NextLInv, PTL DEF LSpec

\* A walk through the pages of list_posts misses no post that was in the list when it
\* began and stayed in it, whatever page size it asks for, however many posts there are
\* and whatever the handlers do between its pages.
THEOREM MissesNoneCorrect == LSpec => []MissesNone
<1>1. LInv => MissesNone
  BY DEF LInv, MissesNone, Caught, Leaving, WalkTypes
<1> QED
  BY <1>1, LInductive, PTL

\* One answer of post_stats after another shows the lifecycle moving on.
THEOREM StatsGrowCorrect == LSpec => StatsGrow
<1>1. LInv /\ [LNext]_lvars => [Grows]_lvars
  <2> SUFFICES ASSUME LInv, LNext PROVE Grows
    OBVIOUS
  <2>1. /\ counts \in [PostStatus -> Nat]
        /\ counts["archived"] \in Nat /\ PastDraft(counts) \in Nat /\ counts["draft"] \in Nat
    BY DEF LInv, Counted, PastDraft, PostStatus
  <2>2. CASE UNCHANGED counts
    BY <2>1, <2>2 DEF Grows
  <2>3. CASE Stats
    <3>1. \A S : Cardinality(At(S)) \in Nat
      BY FiniteRows DEF At
    <3> QED
      BY <2>1, <2>3, <3>1, GroupsAddUp DEF Grows, LInv, IInv, Counted
  <2> QED
    BY <2>2, <2>3 DEF LNext, Handle
<1> QED
  BY <1>1, LInductive, PTL DEF LSpec, StatsGrow
=============================================================================
