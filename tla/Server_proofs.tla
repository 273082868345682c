---------------------------- MODULE Server_proofs ----------------------------
(***************************************************************************)
(* Proofs about Server for any finite set of requests, any pool and any    *)
(* number of statements.                                                   *)
(*                                                                         *)
(* The connections are counted: free ones, those of running statements and *)
(* those of abandoned ones make up the pool. Every operation keeps that    *)
(* sum and the line of waiting requests in step with their stages. With    *)
(* them, each step of the server is a step of RequestLife or none.         *)
(***************************************************************************)
EXTENDS Server, FiniteSetTheorems, SequenceTheorems, TLAPS

RunningOf(st) == {r \in Requests : st[r] = "running"}

\* The line q holds the requests that wait according to st, once each.
Line(st, q) ==
    /\ q \in Seq(Requests)
    /\ \A r \in Requests : st[r] = "waiting" <=> \E i \in 1..Len(q) : q[i] = r
    /\ \A i, j \in 1..Len(q) : q[i] = q[j] => i = j

Places ==
    /\ stage \in [Requests -> Stage]
    /\ left \in [Requests -> 0..Statements]
    /\ abandoned \subseteq Requests
    /\ \A r \in abandoned : stage[r] \in Cut
    /\ \A r \in Requests : stage[r] \in {"waiting", "running"} => left[r] # 0

Connections ==
    /\ free \in Nat
    /\ free + Cardinality(RunningOf(stage)) + Cardinality(abandoned) = Pool
    /\ queue # <<>> => free = 0

IInv == accepting \in BOOLEAN /\ ended \in BOOLEAN /\ Places /\ Line(stage, queue) /\ Connections

-----------------------------------------------------------------------------
(* Lines *)

LEMMA HeadServed ==
    ASSUME NEW st \in [Requests -> Stage], NEW q, Line(st, q), q # <<>>
    PROVE  /\ Head(q) \in Requests /\ st[Head(q)] = "waiting"
           /\ Line([st EXCEPT ![Head(q)] = "running"], Tail(q))
<1> DEFINE h == Head(q)
           t == Tail(q)
           st2 == [st EXCEPT ![h] = "running"]
<1>1. /\ h \in Requests /\ t \in Seq(Requests) /\ Len(t) = Len(q) - 1
      /\ \A i \in 1..Len(t) : t[i] = q[i + 1]
      /\ Len(q) \in Nat /\ Len(q) # 0
  BY HeadTailProperties, EmptySeq, LenProperties DEF Line
<1>2. h = q[1]
  BY DEF Line
<1>3. st[h] = "waiting"
  BY <1>1, <1>2 DEF Line
<1>4. \A r \in Requests : st2[r] = IF r = h THEN "running" ELSE st[r]
  BY <1>1
<1> HIDE DEF h, t, st2
<1>5. \A i, j \in 1..Len(t) : t[i] = t[j] => i = j
  BY <1>1 DEF Line
<1>6. ASSUME NEW r \in Requests
      PROVE  st2[r] = "waiting" <=> \E i \in 1..Len(t) : t[i] = r
  <2>1. ASSUME NEW i \in 1..Len(t), t[i] = r PROVE st2[r] = "waiting"
    <3>1. q[i + 1] = r /\ i + 1 \in 1..Len(q) /\ i + 1 # 1 /\ 1 \in 1..Len(q)
      BY <1>1, <2>1
    <3>2. r # h /\ st[r] = "waiting"
      BY <1>2, <3>1 DEF Line
    <3> QED
      BY <1>4, <3>2
  <2>2. ASSUME st2[r] = "waiting" PROVE \E i \in 1..Len(t) : t[i] = r
    <3>1. r # h /\ st[r] = "waiting"
      BY <1>4, <2>2
    <3>2. PICK j \in 1..Len(q) : q[j] = r
      BY <3>1 DEF Line
    <3>3. j # 1
      BY <1>2, <3>1, <3>2
    <3>4. j - 1 \in 1..Len(t) /\ (j - 1) + 1 = j
      BY <1>1, <3>2, <3>3
    <3> QED
      BY <1>1, <3>2, <3>4
  <2> QED
    BY <2>1, <2>2
<1>7. Line(st2, t)
  BY <1>1, <1>5, <1>6 DEF Line
<1> QED
  BY <1>1, <1>3, <1>7 DEF h, t, st2

LEMMA Joined ==
    ASSUME NEW st \in [Requests -> Stage], NEW q, Line(st, q),
           NEW r \in Requests, st[r] # "waiting"
    PROVE  Line([st EXCEPT ![r] = "waiting"], Append(q, r)) /\ Append(q, r) # <<>>
<1> DEFINE a == Append(q, r)
           st2 == [st EXCEPT ![r] = "waiting"]
<1>1. /\ a \in Seq(Requests) /\ a # <<>> /\ Len(a) = Len(q) + 1 /\ Len(q) \in Nat
      /\ \A i \in 1..Len(q) : a[i] = q[i]
      /\ a[Len(q) + 1] = r
  BY AppendProperties, LenProperties DEF Line
<1>2. \A s \in Requests : st2[s] = IF s = r THEN "waiting" ELSE st[s]
  OBVIOUS
<1>3. \A i \in 1..Len(q) : q[i] # r
  BY DEF Line
<1> HIDE DEF a, st2
<1>4. \A i, j \in 1..Len(a) : a[i] = a[j] => i = j
  BY <1>1, <1>3 DEF Line
<1>5. ASSUME NEW s \in Requests
      PROVE  st2[s] = "waiting" <=> \E i \in 1..Len(a) : a[i] = s
  <2>1. CASE s = r
    BY <1>1, <1>2, <2>1
  <2>2. CASE s # r
    <3>1. (\E i \in 1..Len(a) : a[i] = s) <=> \E i \in 1..Len(q) : q[i] = s
      BY <1>1, <2>2
    <3> QED
      BY <1>2, <2>2, <3>1 DEF Line
  <2> QED
    BY <2>1, <2>2
<1> QED
  BY <1>1, <1>4, <1>5 DEF Line, a, st2

LEMMA SteppedOut ==
    ASSUME NEW st \in [Requests -> Stage], NEW q, Line(st, q),
           NEW i \in 1..Len(q), NEW r \in Requests, q[i] = r,
           NEW o \in Stage, o # "waiting"
    PROVE  Line([st EXCEPT ![r] = o], RemoveAt(q, i))
<1> DEFINE front == SubSeq(q, 1, i - 1)
           back == SubSeq(q, i + 1, Len(q))
           a == front \o back
           st2 == [st EXCEPT ![r] = o]
<1>0. q \in Seq(Requests) /\ Len(q) \in Nat /\ \A k \in 1..Len(q) : q[k] \in Requests
  BY LenProperties, ElementOfSeq DEF Line
<1>1. /\ front \in Seq(Requests) /\ Len(front) = i - 1
      /\ \A k \in 1..i - 1 : front[k] = q[k]
  <2>1. \A k \in 1..i - 1 : q[k] \in Requests
    BY <1>0
  <2> QED
    BY <1>0, <2>1, SubSeqProperties
<1>2. /\ back \in Seq(Requests) /\ Len(back) = Len(q) - i
      /\ \A k \in 1..Len(q) - i : back[k] = q[i + k]
  <2>1. \A k \in i + 1..Len(q) : q[k] \in Requests
    BY <1>0
  <2> QED
    BY <1>0, <2>1, SubSeqProperties
<1> HIDE DEF front, back
<1>3. /\ a \in Seq(Requests) /\ Len(a) = Len(front) + Len(back)
      /\ \A k \in 1..Len(front) + Len(back) :
            a[k] = IF k <= Len(front) THEN front[k] ELSE back[k - Len(front)]
  BY <1>1, <1>2, ConcatProperties
<1> HIDE DEF a
<1>4. /\ Len(a) = Len(q) - 1
      /\ \A k \in 1..Len(a) : a[k] = IF k < i THEN q[k] ELSE q[k + 1]
  <2>1. Len(a) = Len(q) - 1 /\ Len(front) = i - 1 /\ i \in 1..Len(q)
    BY <1>0, <1>1, <1>2, <1>3
  <2>2. ASSUME NEW k \in 1..Len(a), k < i PROVE a[k] = q[k]
    BY <1>0, <1>1, <1>2, <1>3, <2>1, <2>2
  <2>3. ASSUME NEW k \in 1..Len(a), ~ (k < i) PROVE a[k] = q[k + 1]
    <3>1. k - (i - 1) \in 1..Len(q) - i /\ i + (k - (i - 1)) = k + 1
      BY <1>0, <2>1, <2>3
    <3>2. a[k] = back[k - (i - 1)]
      BY <1>0, <1>2, <1>3, <2>1, <2>3
    <3> QED
      BY <1>2, <3>1, <3>2
  <2> QED
    BY <2>1, <2>2, <2>3
<1>5. \A s \in Requests : st2[s] = IF s = r THEN o ELSE st[s]
  OBVIOUS
<1> HIDE DEF st2
<1>6. \A j, k \in 1..Len(a) : a[j] = a[k] => j = k
  <2> DEFINE at(k) == IF k < i THEN k ELSE k + 1
  <2>1. \A k \in 1..Len(a) : at(k) \in 1..Len(q) /\ a[k] = q[at(k)]
    BY <1>0, <1>4
  <2>2. \A j, k \in 1..Len(a) : at(j) = at(k) => j = k
    BY <1>0, <1>4
  <2> HIDE DEF at
  <2> QED
    BY <2>1, <2>2 DEF Line
<1>7. ASSUME NEW s \in Requests
      PROVE  st2[s] = "waiting" <=> \E k \in 1..Len(a) : a[k] = s
  <2>1. ASSUME NEW k \in 1..Len(a), a[k] = s PROVE st2[s] = "waiting"
    <3>1. PICK j \in 1..Len(q) : q[j] = s /\ j # i
      BY <1>0, <1>4, <2>1
    <3>2. s # r /\ st[s] = "waiting"
      BY <3>1 DEF Line
    <3> QED
      BY <1>5, <3>2
  <2>2. ASSUME st2[s] = "waiting" PROVE \E k \in 1..Len(a) : a[k] = s
    <3>1. s # r /\ st[s] = "waiting"
      BY <1>5, <2>2
    <3>2. PICK j \in 1..Len(q) : q[j] = s
      BY <3>1 DEF Line
    <3>3. j # i
      BY <3>1, <3>2
    <3>4. CASE j < i
      <4>1. j \in 1..Len(a) /\ a[j] = q[j]
        BY <1>0, <1>4, <3>4
      <4> QED
        BY <3>2, <4>1
    <3>5. CASE j > i
      <4>1. j - 1 \in 1..Len(a) /\ a[j - 1] = q[j]
        BY <1>0, <1>4, <3>5
      <4> QED
        BY <3>2, <4>1
    <3> QED
      BY <1>0, <3>3, <3>4, <3>5
  <2> QED
    BY <2>1, <2>2
<1>8. Line(st2, a)
  BY <1>3, <1>6, <1>7 DEF Line
<1> QED
  BY <1>8 DEF st2, a, front, back, RemoveAt

\* The line does not depend on who else is where.
LEMMA SameLine ==
    ASSUME NEW st, NEW st2, NEW q, Line(st, q),
           \A r \in Requests : st2[r] = "waiting" <=> st[r] = "waiting"
    PROVE  Line(st2, q)
BY DEF Line

-----------------------------------------------------------------------------
(* Connections *)

LEMMA Sizes ==
    ASSUME NEW S \in SUBSET Requests
    PROVE  IsFiniteSet(S) /\ Cardinality(S) \in Nat
BY RequestsAssumption, FS_Subset, FS_CardinalityType

\* A stage that begins or ends a statement changes the number of those that run.
LEMMA OneMoreRuns ==
    ASSUME NEW st \in [Requests -> Stage], NEW r \in Requests, st[r] # "running"
    PROVE  Cardinality(RunningOf([st EXCEPT ![r] = "running"])) = Cardinality(RunningOf(st)) + 1
<1>1. RunningOf([st EXCEPT ![r] = "running"]) = RunningOf(st) \cup {r}
  BY DEF RunningOf
<1>2. r \notin RunningOf(st) /\ IsFiniteSet(RunningOf(st))
  BY Sizes DEF RunningOf
<1> QED
  BY <1>1, <1>2, FS_AddElement

LEMMA OneLessRuns ==
    ASSUME NEW st \in [Requests -> Stage], NEW r \in Requests, st[r] = "running",
           NEW o \in Stage, o # "running"
    PROVE  Cardinality(RunningOf([st EXCEPT ![r] = o])) = Cardinality(RunningOf(st)) - 1
<1>1. RunningOf([st EXCEPT ![r] = o]) = RunningOf(st) \ {r}
  BY DEF RunningOf
<1>2. r \in RunningOf(st) /\ IsFiniteSet(RunningOf(st))
  BY Sizes DEF RunningOf
<1> QED
  BY <1>1, <1>2, FS_RemoveElement

LEMMA SameRun ==
    ASSUME NEW st, NEW st2, \A r \in Requests : st2[r] = "running" <=> st[r] = "running"
    PROVE  RunningOf(st2) = RunningOf(st)
BY DEF RunningOf

\* A connection that is given back is free, or the next in line's.
LEMMA HandedBack ==
    ASSUME NEW st \in [Requests -> Stage], Line(st, queue), free \in Nat, queue # <<>> => free = 0,
           abandoned' \subseteq Requests,
           free + Cardinality(RunningOf(st)) + Cardinality(abandoned') + 1 = Pool,
           Back(st)
    PROVE  /\ stage' \in [Requests -> Stage]
           /\ Line(stage, queue)'
           /\ Connections'
           /\ \A r \in Requests : stage'[r] = st[r] \/ (st[r] = "waiting" /\ stage'[r] = "running")
<1>0. Cardinality(RunningOf(st)) \in Nat /\ Cardinality(abandoned') \in Nat
  BY Sizes DEF RunningOf
<1>1. CASE queue = <<>>
  <2>1. stage' = st /\ free' = free + 1 /\ queue' = queue
    BY <1>1 DEF Back
  <2>2. Connections'
    BY <1>0, <1>1, <2>1 DEF Connections, RunningOf
  <2>3. Line(stage, queue)'
    BY <2>1 DEF Line
  <2> QED
    BY <2>1, <2>2, <2>3
<1>2. CASE queue # <<>>
  <2> DEFINE h == Head(queue)
  <2>1. /\ stage' = [st EXCEPT ![h] = "running"] /\ queue' = Tail(queue) /\ free' = free
        /\ free = 0
    BY <1>2 DEF Back
  <2>2. /\ h \in Requests /\ st[h] = "waiting"
        /\ Line([st EXCEPT ![h] = "running"], Tail(queue))
    BY <1>2, HeadServed
  <2> HIDE DEF h
  <2>3. Cardinality(RunningOf([st EXCEPT ![h] = "running"])) = Cardinality(RunningOf(st)) + 1
    BY <2>2, OneMoreRuns
  <2>4. Connections'
    <3>1. RunningOf(stage)' = RunningOf([st EXCEPT ![h] = "running"])
      BY <2>1 DEF RunningOf
    <3> QED
      BY <1>0, <2>1, <2>3, <3>1 DEF Connections
  <2>5. Line(stage, queue)'
    BY <2>1, <2>2 DEF Line
  <2>6. /\ stage' \in [Requests -> Stage]
        /\ \A r \in Requests : stage'[r] = st[r] \/ (st[r] = "waiting" /\ stage'[r] = "running")
    BY <2>1, <2>2 DEF Stage, Present
  <2> QED
    BY <2>4, <2>5, <2>6
<1> QED
  BY <1>1, <1>2

-----------------------------------------------------------------------------
(* The steps. SameKind: to RequestLife two stages are the same. *)

SameKind(a, b) == (a = "new" <=> b = "new") /\ (a \in Present <=> b \in Present)

\* At the start nothing runs and the whole pool is free.
THEOREM Initially == Init => IInv
<1> SUFFICES ASSUME Init PROVE IInv
  OBVIOUS
<1>1. Places
  <2>1. 0 \in 0..Statements
    BY PoolAssumption
  <2> QED
    BY <2>1 DEF Init, Places, Stage
<1>2. Line(stage, queue)
  BY EmptySeq DEF Init, Line
<1>3. Connections
  <2>1. RunningOf(stage) = {} /\ abandoned = {} /\ free = Pool /\ queue = <<>>
    BY DEF Init, RunningOf
  <2> QED
    BY <2>1, FS_EmptySet, PoolAssumption DEF Connections
<1> QED
  BY <1>1, <1>2, <1>3 DEF IInv, Init

LEMMA TakeStep ==
    ASSUME IInv, NEW r \in Requests, Take(r)
    PROVE  IInv'
<1>1. /\ stage[r] = "new" /\ stage' = [stage EXCEPT ![r] = "ready"]
      /\ UNCHANGED <<accepting, ended, free, queue, abandoned>>
      /\ \E n \in 0..Statements : left' = [left EXCEPT ![r] = n]
  BY DEF Take, pool
<1>2. /\ stage' \in [Requests -> Stage]
      /\ \A s \in Requests : stage'[s] = IF s = r THEN "ready" ELSE stage[s]
  BY <1>1 DEF IInv, Places, Stage, Present
<1>3. /\ left' \in [Requests -> 0..Statements]
      /\ \A s \in Requests : s # r => left'[s] = left[s]
  BY <1>1 DEF IInv, Places
<1>4. Places'
  BY <1>1, <1>2, <1>3 DEF IInv, Places, Outcome, Cut
<1>5. Line(stage', queue)
  <2>1. Line(stage, queue) /\ \A s \in Requests : stage'[s] = "waiting" <=> stage[s] = "waiting"
    BY <1>1, <1>2 DEF IInv
  <2> QED
    BY <2>1, SameLine
<1>6. RunningOf(stage') = RunningOf(stage)
  BY <1>1, <1>2, SameRun
<1>7. Connections'
  BY <1>1, <1>6 DEF IInv, Connections, RunningOf
<1> QED
  BY <1>1, <1>4, <1>5, <1>7 DEF IInv, Line

LEMMA AcquireStep ==
    ASSUME IInv, NEW r \in Requests, Acquire(r)
    PROVE  IInv' /\ UNCHANGED <<accepting, ended>> /\ \A s \in Requests : SameKind(stage[s], stage'[s])
<1>1. /\ stage[r] = "ready" /\ left[r] > 0
      /\ UNCHANGED <<accepting, ended, left, abandoned>>
  BY DEF Acquire
<1>2. /\ "running" \in Stage /\ "waiting" \in Stage /\ "ready" \in Stage
      /\ stage \in [Requests -> Stage]
  BY DEF Stage, Present, IInv, Places
<1>3. left[r] # 0
  BY <1>1 DEF IInv, Places
<1>4. CASE free > 0
  <2>1. stage' = [stage EXCEPT ![r] = "running"] /\ free' = free - 1 /\ queue' = queue
    BY <1>4 DEF Acquire
  <2>2. /\ stage' \in [Requests -> Stage]
        /\ \A s \in Requests : stage'[s] = IF s = r THEN "running" ELSE stage[s]
    BY <1>2, <2>1
  <2>3. Places'
    BY <1>1, <1>3, <2>2 DEF IInv, Places, Outcome, Cut
  <2>4. Line(stage', queue)
    <3>1. Line(stage, queue) /\ \A s \in Requests : stage'[s] = "waiting" <=> stage[s] = "waiting"
      BY <1>1, <2>2 DEF IInv
    <3> QED
      BY <3>1, SameLine
  <2>5. Cardinality(RunningOf(stage')) = Cardinality(RunningOf(stage)) + 1
    BY <1>1, <1>2, <2>1, OneMoreRuns
  <2>6. Cardinality(RunningOf(stage)) \in Nat /\ Cardinality(abandoned) \in Nat /\ free \in Nat
    BY Sizes DEF RunningOf, IInv, Places, Connections
  <2>7. Connections'
    <3>1. free' \in Nat /\ free' + Cardinality(RunningOf(stage')) + Cardinality(abandoned) = Pool
      BY <1>4, <2>1, <2>5, <2>6 DEF IInv, Connections
    <3>2. queue = <<>>
      BY <1>4 DEF IInv, Connections
    <3> QED
      BY <1>1, <2>1, <3>1, <3>2 DEF Connections, RunningOf
  <2> QED
    BY <1>1, <2>1, <2>2, <2>3, <2>4, <2>7 DEF IInv, Line, SameKind, Present
<1>5. CASE ~ (free > 0)
  <2>1. stage' = [stage EXCEPT ![r] = "waiting"] /\ queue' = Append(queue, r) /\ free' = free
    BY <1>5 DEF Acquire
  <2>2. /\ stage' \in [Requests -> Stage]
        /\ \A s \in Requests : stage'[s] = IF s = r THEN "waiting" ELSE stage[s]
    BY <1>2, <2>1
  <2>3. Places'
    BY <1>1, <1>3, <2>2 DEF IInv, Places, Outcome, Cut
  <2>4. Line(stage', queue')
    BY <1>1, <1>2, <2>1, Joined DEF IInv
  <2>5. RunningOf(stage') = RunningOf(stage)
    BY <1>1, <2>2, SameRun
  <2>6. free = 0
    BY <1>5 DEF IInv, Connections
  <2>7. Connections'
    BY <1>1, <2>1, <2>5, <2>6 DEF IInv, Connections, RunningOf
  <2> QED
    BY <1>1, <2>2, <2>3, <2>4, <2>7 DEF IInv, Line, SameKind, Present
<1> QED
  BY <1>4, <1>5

\* A statement ends and its connection goes on, whether the request goes on,
\* has failed, or was over before.
LEMMA ReturnStep ==
    ASSUME IInv, NEW st \in [Requests -> Stage], Back(st),
           \A r \in Requests : st[r] = "waiting" <=> stage[r] = "waiting",
           \A r \in Requests : st[r] = "running" => stage[r] = "running",
           \A r \in Requests : stage[r] \in Cut => st[r] = stage[r],
           abandoned' \subseteq abandoned,
           Cardinality(RunningOf(st)) + Cardinality(abandoned') + 1
              = Cardinality(RunningOf(stage)) + Cardinality(abandoned),
           left' \in [Requests -> 0..Statements],
           \A r \in Requests : st[r] \in {"waiting", "running"} => left'[r] = left[r],
           UNCHANGED <<accepting, ended>>
    PROVE  IInv' /\ \A r \in Requests : SameKind(st[r], stage'[r])
<1>1. Line(st, queue)
  <2>1. Line(stage, queue)
    BY DEF IInv
  <2> QED
    BY <2>1, SameLine
<1>2. /\ Cardinality(RunningOf(st)) \in Nat /\ Cardinality(abandoned') \in Nat
      /\ Cardinality(RunningOf(stage)) \in Nat /\ Cardinality(abandoned) \in Nat
      /\ free \in Nat
  BY Sizes DEF RunningOf, IInv, Places, Connections
<1>3. free + Cardinality(RunningOf(st)) + Cardinality(abandoned') + 1 = Pool
  BY <1>2 DEF IInv, Connections
<1>4. /\ stage' \in [Requests -> Stage]
      /\ Line(stage, queue)'
      /\ Connections'
      /\ \A r \in Requests : stage'[r] = st[r] \/ (st[r] = "waiting" /\ stage'[r] = "running")
  BY <1>1, <1>2, <1>3, HandedBack DEF IInv, Places, Connections
<1>5. Places'
  <2>1. \A r \in abandoned' : stage'[r] \in Cut
    BY <1>4 DEF IInv, Places, Outcome, Cut
  <2>2. \A r \in Requests : stage'[r] \in {"waiting", "running"} => left'[r] # 0
    BY <1>4 DEF IInv, Places
  <2> QED
    BY <1>4, <2>1, <2>2 DEF IInv, Places
<1>6. \A r \in Requests : SameKind(st[r], stage'[r])
  BY <1>4 DEF SameKind, Present
<1> QED
  BY <1>4, <1>5, <1>6 DEF IInv

LEMMA FinishStep ==
    ASSUME IInv, NEW r \in Requests, Finish(r)
    PROVE  IInv' /\ UNCHANGED <<accepting, ended>> /\ \A s \in Requests : SameKind(stage[s], stage'[s])
<1> DEFINE st == [stage EXCEPT ![r] = "ready"]
<1>1. /\ stage[r] = "running" /\ left' = [left EXCEPT ![r] = left[r] - 1]
      /\ Back(st) /\ UNCHANGED <<accepting, ended, abandoned>>
  BY DEF Finish
<1>2. /\ st \in [Requests -> Stage]
      /\ \A s \in Requests : st[s] = IF s = r THEN "ready" ELSE stage[s]
  BY DEF IInv, Places, Stage, Present
<1>3. Cardinality(RunningOf(st)) = Cardinality(RunningOf(stage)) - 1
  BY <1>1, OneLessRuns DEF IInv, Places, Stage, Present
<1> HIDE DEF st
<1>4. Cardinality(RunningOf(stage)) \in Nat /\ Cardinality(abandoned) \in Nat
  BY Sizes DEF RunningOf, IInv, Places
<1>5. left[r] - 1 \in 0..Statements
  BY <1>1, PoolAssumption DEF IInv, Places
<1>6. left' \in [Requests -> 0..Statements] /\ \A s \in Requests : s # r => left'[s] = left[s]
  BY <1>1, <1>5 DEF IInv, Places
<1>7. Cardinality(RunningOf(st)) + Cardinality(abandoned') + 1
         = Cardinality(RunningOf(stage)) + Cardinality(abandoned)
  BY <1>1, <1>3, <1>4
<1>8. IInv' /\ \A s \in Requests : SameKind(st[s], stage'[s])
  BY <1>1, <1>2, <1>6, <1>7, ReturnStep DEF Cut
<1> QED
  BY <1>1, <1>2, <1>8 DEF SameKind, Present

LEMMA CompleteStep ==
    ASSUME IInv, NEW r \in Requests, Complete(r)
    PROVE  IInv' /\ UNCHANGED <<accepting, ended>> /\ \A s \in Requests : SameKind(stage[s], stage'[s])
<1>1. /\ r \in abandoned /\ abandoned' = abandoned \ {r}
      /\ Back(stage) /\ UNCHANGED <<accepting, ended, left>>
  BY DEF Complete
<1>2. Cardinality(abandoned') = Cardinality(abandoned) - 1
  BY <1>1, Sizes, FS_RemoveElement DEF IInv, Places
<1>3. Cardinality(RunningOf(stage)) \in Nat /\ Cardinality(abandoned) \in Nat
  BY Sizes DEF RunningOf, IInv, Places
<1>4. Cardinality(RunningOf(stage)) + Cardinality(abandoned') + 1
         = Cardinality(RunningOf(stage)) + Cardinality(abandoned)
  BY <1>2, <1>3
<1>5. stage \in [Requests -> Stage] /\ left' \in [Requests -> 0..Statements] /\ left' = left
  BY <1>1 DEF IInv, Places
<1>6. IInv' /\ \A s \in Requests : SameKind(stage[s], stage'[s])
  BY <1>1, <1>4, <1>5, ReturnStep
<1> QED
  BY <1>1, <1>6

\* A request is over.
Over(r) ==
    /\ stage[r] \in Present /\ stage'[r] \in Outcome
    /\ \A s \in Requests : s # r => SameKind(stage[s], stage'[s])
    /\ UNCHANGED <<accepting, ended>>

LEMMA AnswerStep ==
    ASSUME IInv, NEW r \in Requests, Answer(r)
    PROVE  IInv' /\ Over(r)
<1>1. /\ stage[r] = "ready" /\ stage' = [stage EXCEPT ![r] = "answered"]
      /\ UNCHANGED <<accepting, ended, left, free, queue, abandoned>>
  BY DEF Answer, pool
<1>2. /\ stage' \in [Requests -> Stage]
      /\ \A s \in Requests : stage'[s] = IF s = r THEN "answered" ELSE stage[s]
  BY <1>1 DEF IInv, Places, Stage, Outcome
<1>3. Places'
  BY <1>1, <1>2 DEF IInv, Places, Outcome, Cut
<1>4. Line(stage', queue)
  <2>1. Line(stage, queue) /\ \A s \in Requests : stage'[s] = "waiting" <=> stage[s] = "waiting"
    BY <1>1, <1>2 DEF IInv
  <2> QED
    BY <2>1, SameLine
<1>5. RunningOf(stage') = RunningOf(stage)
  BY <1>1, <1>2, SameRun
<1>6. Connections'
  BY <1>1, <1>5 DEF IInv, Connections, RunningOf
<1> QED
  BY <1>1, <1>2, <1>3, <1>4, <1>6 DEF IInv, Line, Over, SameKind, Present, Outcome

\* The request leaves the line, if it is in it, with any outcome.
LEMMA StepsOut ==
    ASSUME IInv, NEW r \in Requests, StepOut(r), NEW o \in Outcome,
           stage' = [stage EXCEPT ![r] = o]
    PROVE  Line(stage', queue') /\ (queue' # <<>> => queue # <<>>)
<1>1. /\ o \in Stage /\ o # "waiting"
      /\ \A s \in Requests : stage'[s] = IF s = r THEN o ELSE stage[s]
      /\ stage \in [Requests -> Stage] /\ Line(stage, queue)
  BY DEF Stage, Outcome, IInv, Places
<1>2. CASE stage[r] = "waiting"
  <2>1. PICK i \in 1..Len(queue) : queue[i] = r /\ queue' = RemoveAt(queue, i)
    BY <1>2 DEF StepOut
  <2>2. Line([stage EXCEPT ![r] = o], RemoveAt(queue, i))
    BY <1>1, <2>1, SteppedOut
  <2>3. queue # <<>>
    BY <2>1, EmptySeq
  <2> QED
    BY <2>1, <2>2, <2>3
<1>3. CASE stage[r] # "waiting"
  <2>1. queue' = queue
    BY <1>3 DEF StepOut
  <2>2. \A s \in Requests : stage'[s] = "waiting" <=> stage[s] = "waiting"
    BY <1>1, <1>3
  <2>3. Line(stage', queue)
    BY <1>1, <2>2, SameLine
  <2> QED
    BY <2>1, <2>3
<1> QED
  BY <1>2, <1>3

LEMMA FailStep ==
    ASSUME IInv, NEW r \in Requests, Fail(r)
    PROVE  IInv' /\ Over(r)
<1> DEFINE st == [stage EXCEPT ![r] = "failed"]
<1>1. /\ st \in [Requests -> Stage]
      /\ \A s \in Requests : st[s] = IF s = r THEN "failed" ELSE stage[s]
      /\ "failed" \in Outcome /\ "failed" \in Stage
  BY DEF IInv, Places, Stage, Outcome
<1>2. UNCHANGED <<accepting, ended, left, abandoned>>
  BY DEF Fail
<1>3. CASE stage[r] = "running"
  <2>1. Back(st)
    BY <1>3 DEF Fail
  <2>2. Cardinality(RunningOf(st)) = Cardinality(RunningOf(stage)) - 1
    BY <1>1, <1>3, OneLessRuns DEF IInv, Places
  <2>3. Cardinality(RunningOf(stage)) \in Nat /\ Cardinality(abandoned) \in Nat
    BY Sizes DEF RunningOf, IInv, Places
  <2> HIDE DEF st
  <2>4. Cardinality(RunningOf(st)) + Cardinality(abandoned') + 1
           = Cardinality(RunningOf(stage)) + Cardinality(abandoned)
    BY <1>2, <2>2, <2>3
  <2>5. left' \in [Requests -> 0..Statements] /\ left' = left
    BY <1>2 DEF IInv, Places
  <2>6. IInv' /\ \A s \in Requests : SameKind(st[s], stage'[s])
    BY <1>1, <1>2, <1>3, <2>1, <2>4, <2>5, ReturnStep DEF Cut
  <2>7. stage'[r] \in Outcome
    <3>1. stage'[r] \in Stage
      BY <2>6 DEF IInv, Places
    <3> QED
      BY <1>1, <2>6, <3>1 DEF SameKind, Stage, Present
  <2> QED
    BY <1>1, <1>2, <1>3, <2>6, <2>7 DEF Over, SameKind, Present
<1>4. CASE stage[r] = "waiting"
  <2>1. StepOut(r) /\ stage' = st /\ free' = free
    BY <1>4 DEF Fail
  <2>2. Line(stage', queue') /\ (queue' # <<>> => queue # <<>>)
    BY <1>1, <2>1, StepsOut
  <2>3. RunningOf(stage') = RunningOf(stage)
    BY <1>1, <1>4, <2>1, SameRun
  <2>4. Connections'
    BY <1>2, <2>1, <2>2, <2>3 DEF IInv, Connections, RunningOf
  <2>5. Places'
    BY <1>1, <1>2, <1>4, <2>1 DEF IInv, Places, Cut
  <2> QED
    BY <1>1, <1>2, <1>4, <2>1, <2>2, <2>4, <2>5 DEF IInv, Line, Over, SameKind, Present
<1> QED
  BY <1>3, <1>4 DEF Fail

\* The dropped request's connection, if it had one, is the abandoned statement's.
LEMMA DropStep ==
    ASSUME IInv, NEW r \in Requests, NEW o \in Cut, stage[r] \in Present, Drop(r, o)
    PROVE  IInv' /\ Over(r)
<1>0. o \in Outcome
  BY DEF Cut, Outcome
<1>1. /\ stage' = [stage EXCEPT ![r] = o] /\ StepOut(r) /\ free' = free
      /\ abandoned' = IF stage[r] = "running" THEN abandoned \cup {r} ELSE abandoned
      /\ UNCHANGED <<accepting, ended, left>>
  BY DEF Drop, Release
<1>2. /\ stage' \in [Requests -> Stage] /\ stage \in [Requests -> Stage]
      /\ o \in Stage /\ o # "running" /\ o # "waiting"
      /\ \A s \in Requests : stage'[s] = IF s = r THEN o ELSE stage[s]
  BY <1>0, <1>1 DEF IInv, Places, Stage, Outcome
<1>3. Line(stage', queue') /\ (queue' # <<>> => queue # <<>>)
  BY <1>0, <1>1, StepsOut
<1>4. Places'
  BY <1>1, <1>2 DEF IInv, Places
<1>5. free + Cardinality(RunningOf(stage')) + Cardinality(abandoned') = Pool
  <2>1. CASE stage[r] = "running"
    <3>1. Cardinality(RunningOf(stage')) = Cardinality(RunningOf(stage)) - 1
      BY <1>1, <1>2, <2>1, OneLessRuns
    <3>2. r \notin abandoned
      BY <2>1 DEF IInv, Places, Outcome, Cut
    <3>3. Cardinality(abandoned') = Cardinality(abandoned) + 1
      BY <1>1, <2>1, <3>2, Sizes, FS_AddElement DEF IInv, Places
    <3>4. /\ Cardinality(RunningOf(stage)) \in Nat /\ Cardinality(abandoned) \in Nat
          /\ free \in Nat /\ Pool \in Nat
      BY Sizes, PoolAssumption DEF RunningOf, IInv, Places, Connections
    <3> QED
      BY <3>1, <3>3, <3>4 DEF IInv, Connections
  <2>2. CASE stage[r] # "running"
    <3>1. RunningOf(stage') = RunningOf(stage)
      BY <1>2, <2>2, SameRun
    <3> QED
      BY <1>1, <2>2, <3>1 DEF IInv, Connections
  <2> QED
    BY <2>1, <2>2
<1>6. Connections'
  BY <1>1, <1>3, <1>5 DEF IInv, Connections, RunningOf
<1> QED
  BY <1>0, <1>1, <1>2, <1>3, <1>4, <1>6 DEF IInv, Line, Over, SameKind

LEMMA HandleStep ==
    ASSUME IInv, NEW r \in Requests, Handle(r)
    PROVE  IInv' /\ (Acquire(r) \/ Over(r))
<1>1. CASE Expire(r)
  BY <1>1, DropStep DEF Expire, Limited, Cut
<1>2. CASE Leave(r)
  BY <1>2, DropStep DEF Leave, Cut
<1> QED
  BY <1>1, <1>2, AcquireStep, AnswerStep, FailStep DEF Handle

LEMMA FlagStep == IInv /\ (Signal \/ End \/ UNCHANGED vars) => IInv'
<1> SUFFICES ASSUME IInv, Signal \/ End \/ UNCHANGED vars PROVE IInv'
  OBVIOUS
<1>1. UNCHANGED <<stage, left, free, queue, abandoned>> /\ accepting' \in BOOLEAN /\ ended' \in BOOLEAN
  BY DEF Signal, End, vars, pool, IInv
<1> QED
  BY <1>1 DEF IInv, Places, Line, Connections, RunningOf

LEMMA Inductive == IInv /\ [Next]_vars => IInv'
BY TakeStep, HandleStep, FinishStep, CompleteStep, FlagStep DEF Next

\* The count and the line hold whatever the requests, the pool and the clients do.
THEOREM Invariance == Spec => []IInv
BY Initially, Inductive, PTL DEF Spec

-----------------------------------------------------------------------------
(* What follows *)

\* Every variable stays in its range, and the line for a connection holds the
\* requests that wait, once each (TypeOK).
THEOREM Types == Spec => []TypeOK
<1>1. ASSUME IInv PROVE TypeOK
  <2>1. free \in 0..Pool
    <3>1. /\ free \in Nat /\ Pool \in Nat
          /\ Cardinality(RunningOf(stage)) \in Nat /\ Cardinality(abandoned) \in Nat
      BY <1>1, Sizes, PoolAssumption DEF RunningOf, IInv, Places, Connections
    <3> QED
      BY <1>1, <3>1 DEF IInv, Connections
  <2>2. queue \in Seq(Requests) /\ Len(queue) \in Nat
        /\ \A i \in 1..Len(queue) : queue[i] \in Requests
    BY <1>1, LenProperties, ElementOfSeq DEF IInv, Line
  <2>3. DOMAIN queue = 1..Len(queue)
    BY <2>2, LenProperties
  <2>4. ToSet(queue) = Waiting
    BY <1>1, <2>2, <2>3 DEF ToSet, Waiting, IInv, Line
  <2>5. IsInjective(queue)
    BY <1>1, <2>3 DEF IsInjective, IInv, Line
  <2> QED
    BY <1>1, <2>1, <2>2, <2>4, <2>5 DEF TypeOK, IInv, Places
<1> QED
  BY <1>1, Invariance, PTL

\* The connections that are free, that run a statement of a request and that
\* run an abandoned one make up the pool, always (NoLeak).
THEOREM PoolIsWhole == Spec => []NoLeak
<1>1. IInv => NoLeak
  BY DEF IInv, Connections, NoLeak, Running, RunningOf
<1> QED
  BY <1>1, Invariance, PTL

\* Who waits for a connection waits for statements that run, never for
\* another request that waits (WaitsForWork).
THEOREM NoHoldAndWait == Spec => []WaitsForWork
<1>1. ASSUME IInv, queue # <<>> PROVE Cardinality(Running) + Cardinality(abandoned) = Pool
  <2>1. free = 0 /\ Running = RunningOf(stage)
    BY <1>1 DEF IInv, Connections, Running, RunningOf
  <2>2. Cardinality(RunningOf(stage)) \in Nat /\ Cardinality(abandoned) \in Nat
    BY <1>1, Sizes DEF RunningOf, IInv, Places
  <2> QED
    BY <1>1, <2>1, <2>2 DEF IInv, Connections
<1>2. IInv => WaitsForWork
  BY <1>1 DEF WaitsForWork
<1> QED
  BY <1>2, Invariance, PTL

\* Once main has returned no request is present, and nothing brings one back.
Rest == ended => ~ accepting /\ \A r \in Requests : stage[r] \notin Present

LEMMA RestStep == IInv /\ Rest /\ [Next]_vars => Rest'
<1> SUFFICES ASSUME IInv, Rest, [Next]_vars PROVE Rest'
  OBVIOUS
<1>1. CASE End
  BY <1>1 DEF End, Drained, Rest
<1>2. CASE Signal
  BY <1>2 DEF Signal, Rest
<1>3. CASE UNCHANGED vars
  BY <1>3 DEF vars, Rest
<1>4. ASSUME NEW r \in Requests, Take(r) PROVE ~ ended /\ ended' = ended
  BY <1>4 DEF Take, Rest, IInv
<1>5. ASSUME NEW r \in Requests, Handle(r) PROVE ~ ended /\ ended' = ended
  <2>1. stage[r] \in Present
    BY <1>5 DEF Handle, Acquire, Answer, Fail, Expire, Limited, Leave, Present
  <2>2. ended' = ended
    BY <1>5 DEF Handle, Acquire, Answer, Fail, Expire, Leave, Drop
  <2> QED
    BY <2>1, <2>2 DEF Rest
<1>6. ASSUME NEW r \in Requests, Finish(r) \/ Complete(r) PROVE ~ ended /\ ended' = ended
  BY <1>6 DEF Finish, Complete
<1>7. ~ ended /\ ended' = ended => Rest'
  BY DEF Rest
<1> QED
  BY <1>1, <1>2, <1>3, <1>4, <1>5, <1>6, <1>7 DEF Next

\* When main returns, what it may cut short are statements of requests that were
\* told 408 or whose clients had gone, never one of a request that was answered
\* (EndsIdle).
THEOREM EndIsIdle == Spec => []EndsIdle
<1>1. ASSUME IInv, Rest PROVE EndsIdle
  <2>1. \A r \in abandoned : stage[r] \in Cut
    BY <1>1 DEF IInv, Places
  <2>2. ASSUME ended PROVE queue = <<>> /\ free + Cardinality(abandoned) = Pool
    <3>1. RunningOf(stage) = {}
      BY <1>1, <2>2 DEF Rest, RunningOf, Present
    <3>2. Cardinality(RunningOf(stage)) = 0 /\ Cardinality(abandoned) \in Nat /\ free \in Nat
      BY <1>1, <3>1, Sizes, FS_EmptySet DEF IInv, Places, Connections
    <3>3. free + Cardinality(abandoned) = Pool
      BY <1>1, <3>2 DEF IInv, Connections
    <3>4. queue = <<>>
      <4> SUFFICES ASSUME queue # <<>> PROVE FALSE
        OBVIOUS
      <4>1. Head(queue) \in Requests /\ stage[Head(queue)] = "waiting"
        BY <1>1, HeadServed DEF IInv, Places
      <4> QED
        BY <1>1, <2>2, <4>1 DEF Rest, Present
    <3> QED
      BY <3>3, <3>4
  <2> QED
    BY <2>1, <2>2 DEF EndsIdle
<1>2. Init => Rest
  BY DEF Init, Rest
<1> QED
  BY <1>1, <1>2, Invariance, RestStep, PTL DEF Spec

-----------------------------------------------------------------------------
(* The server implements RequestLife *)

LifeOf(st) == [r \in Requests |->
    IF st[r] = "new" THEN "none" ELSE IF st[r] \in Present THEN "open" ELSE "over"]

LEMMA Unmoved ==
    ASSUME \A r \in Requests : SameKind(stage[r], stage'[r])
    PROVE  LifeOf(stage') = LifeOf(stage)
BY DEF LifeOf, SameKind

LEMMA OverMaps ==
    ASSUME NEW r \in Requests, Over(r)
    PROVE  Life!Over(r)
<1>1. LifeOf(stage)[r] = "open" /\ LifeOf(stage')[r] = "over"
  BY DEF Over, LifeOf, Present, Outcome
<1>2. \A s \in Requests : s # r => LifeOf(stage')[s] = LifeOf(stage)[s]
  BY DEF Over, LifeOf, SameKind
<1>3. LifeOf(stage') = [LifeOf(stage) EXCEPT ![r] = "over"]
  BY <1>1, <1>2 DEF LifeOf
<1> QED
  BY <1>1, <1>3 DEF Life!Over, Over, LifeOf

LEMMA TakeMaps ==
    ASSUME IInv, NEW r \in Requests, Take(r)
    PROVE  Life!Take(r)
<1>1. /\ stage[r] = "new" /\ stage' = [stage EXCEPT ![r] = "ready"] /\ accepting
      /\ UNCHANGED <<accepting, ended>>
  BY DEF Take
<1>2. \A s \in Requests : stage'[s] = IF s = r THEN "ready" ELSE stage[s]
  BY <1>1 DEF IInv, Places
<1>3. LifeOf(stage)[r] = "none" /\ LifeOf(stage')[r] = "open"
  BY <1>1, <1>2 DEF LifeOf, Present
<1>4. \A s \in Requests : s # r => LifeOf(stage')[s] = LifeOf(stage)[s]
  BY <1>2 DEF LifeOf
<1>5. LifeOf(stage') = [LifeOf(stage) EXCEPT ![r] = "open"]
  BY <1>3, <1>4 DEF LifeOf
<1> QED
  BY <1>1, <1>3, <1>5 DEF Life!Take, LifeOf

LEMMA EndMaps ==
    ASSUME End
    PROVE  Life!End
BY DEF End, Drained, Life!End

LEMMA StepMaps == IInv /\ [Next]_vars => [Life!Next]_(Life!vars)
<1> SUFFICES ASSUME IInv, [Next]_vars PROVE [Life!Next]_(Life!vars)
  OBVIOUS
<1>1. ASSUME UNCHANGED <<accepting, ended>>, \A r \in Requests : SameKind(stage[r], stage'[r])
      PROVE  UNCHANGED Life!vars
  BY <1>1, Unmoved DEF Life!vars, LifeOf
<1>2. CASE Signal
  BY <1>2 DEF Signal, Life!Next, Life!Stop
<1>3. CASE End
  BY <1>3, EndMaps DEF Life!Next
<1>4. ASSUME NEW r \in Requests, Take(r) PROVE Life!Next
  BY <1>4, TakeMaps DEF Life!Next
<1>5. ASSUME NEW r \in Requests, Handle(r) PROVE [Life!Next]_(Life!vars)
  <2>1. CASE Acquire(r)
    BY <1>1, <2>1, AcquireStep
  <2>2. CASE Over(r)
    BY <2>2, OverMaps DEF Life!Next
  <2> QED
    BY <1>5, <2>1, <2>2, HandleStep
<1>6. ASSUME NEW r \in Requests, Finish(r) \/ Complete(r) PROVE UNCHANGED Life!vars
  BY <1>1, <1>6, FinishStep, CompleteStep
<1>7. CASE UNCHANGED vars
  BY <1>7 DEF vars, Life!vars
<1> QED
  BY <1>2, <1>3, <1>4, <1>5, <1>6, <1>7 DEF Next

\* Whatever the database does, a request is taken before the signal only, is
\* over once, and the process ends only after the signal, with none open: every
\* step of the server is a step of RequestLife or none. (KeepsPromise without
\* its fairness.)
THEOREM ServerImplementsLife == Spec => Life!Spec
<1>1. Init => Life!Init
  BY DEF Init, Life!Init
<1> QED
  BY <1>1, Invariance, StepMaps, PTL DEF Spec, Life!Spec
=============================================================================
