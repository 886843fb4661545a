--------------------------- MODULE TelemetryProofs ---------------------------
(***************************************************************************)
(* Proofs about Telemetry, and about VariableUpdate, which it extends, for *)
(* any number of packets, variables, jobs and timer callbacks.             *)
(* The worker: no value is overtaken by a flush that was alone, the last   *)
(* value of a variable falls between no two batches, and a worker that has *)
(* stopped holds nothing back.                                             *)
(* The path: the listener and the worker implement VariableUpdate under    *)
(* any faults, so that its theorems hold of the whole path, and what is    *)
(* shown is kept.                                                          *)
(***************************************************************************)
EXTENDS Telemetry, TLAPS, WellFoundedInduction, SequenceTheorems

-----------------------------------------------------------------------------
(* The invariant of the worker *)

\* Who is where: an UPDATE in flight has a batch, a job that was taken is being
\* processed, and the shutdown hook flushes when the worker has closed.
Places ==
    /\ \A p \in Procs \ Writing : writing[p] = None
    /\ \A p \in Procs : at[p] = "complete" => p = Worker
    /\ at[Worker] = "idle" <=> job = 0
    /\ phase \in {"final", "stopped"} => at[Worker] = "idle" /\ updates = <<>>
    /\ at[Closer] # "idle" => phase = "final"

\* Nothing has a value for a variable before one was pushed.
Pushed ==
    \A v \in Variables :
        last[v] = 0 =>
            /\ db[v] = 0
            /\ \A p \in Procs : writing[p][v] = 0
            /\ \A k \in 1 .. Len(updates) : v \notin carries[updates[k]]

\* The queue is sorted, what it holds is newer than what was taken from it, and
\* what was pushed since a flush began is newer than what it writes.
Sorted ==
    /\ stalled = {}
    /\ \A i, j \in 1 .. Len(queue) : i < j => queue[i] < queue[j]
    /\ \A i \in 1 .. Len(queue), k \in 1 .. Len(updates) : updates[k] < queue[i]
    /\ \A i \in 1 .. Len(queue), v \in Variables :
          db[v] < queue[i] /\ \A p \in Procs : writing[p][v] < queue[i]
    /\ \A k \in 1 .. Len(updates), v \in Variables :
          db[v] < updates[k] /\ \A p \in Procs : writing[p][v] < updates[k]

\* A flush that is alone writes values newer than those in the table.
Alone ==
    \A p \in alone :
        /\ Writing = {p}
        /\ crashes = 0 => \A v \in Variables : writing[p][v] = 0 \/ db[v] < writing[p][v]

IInv ==
    /\ TypeOK /\ Places /\ Pushed /\ LastValueKept
    /\ crashes = 0 => Sorted
    /\ Alone

\* The worker, the shutdown hook and the timer callbacks are different processes.
LEMMA ProcsApart ==
    /\ Worker \in Procs /\ Closer \in Procs /\ Ticks \subseteq Procs
    /\ Worker # Closer /\ \A t \in Ticks : t # Worker /\ t # Closer
    /\ \A p \in Procs : p = Worker \/ p = Closer \/ p \in Ticks
BY UpdateAssumption DEF Procs

-----------------------------------------------------------------------------
(* The last entry of a batch *)

\* A set of positions that is not empty has a last one.
LEMMA LastPosition ==
    ASSUME NEW n \in Nat, NEW S \in SUBSET (1 .. n), S # {}
    PROVE  \E i \in S : \A j \in S : j =< i
<1> DEFINE T == {n - i : i \in S}
<1>1. T \in SUBSET Nat /\ T # {}
  <2>1. PICK e \in S : TRUE
    OBVIOUS
  <2>2. n - e \in T /\ \A i \in S : n - i \in Nat
    OBVIOUS
  <2>3. QED
    BY <2>2
<1> DEFINE R == OpToRel(<, Nat)
<1>2. IsWellFoundedOn(R, Nat)
  BY NatLessThanWellFounded
<1>3. PICK x \in T : \A y \in T : ~ (<<y, x>> \in R)
  <2> HIDE DEF T, R
  <2> QED
    BY <1>1, <1>2, WFMin
<1>4. \A y \in T : ~ (y < x)
  BY <1>1, <1>3 DEF OpToRel
<1>5. PICK i \in S : x = n - i
  OBVIOUS
<1>6. \A j \in S : ~ (n - j < n - i)
  BY <1>4, <1>5
<1>7. QED
  BY <1>6

\* Max picks that position.
LEMMA MaxPosition ==
    ASSUME NEW n \in Nat, NEW S \in SUBSET (1 .. n), S # {}
    PROVE  Max(S) \in S /\ \A j \in S : j =< Max(S)
BY LastPosition DEF Max

\* Latest returns an entry of the batch that is for v, or 0 if there is none.
LEMMA LatestOf ==
    ASSUME NEW batch \in Seq(Nat), NEW v
    PROVE  \/ \E k \in 1 .. Len(batch) : v \in carries[batch[k]] /\ Latest(batch, v) = batch[k]
           \/ Latest(batch, v) = 0 /\ \A k \in 1 .. Len(batch) : v \notin carries[batch[k]]
<1> DEFINE P == Positions(batch, v)
<1>1. Len(batch) \in Nat /\ P \in SUBSET (1 .. Len(batch)) /\ \A k \in P : v \in carries[batch[k]]
  BY DEF Positions
<1>2. CASE P = {}
  BY <1>2 DEF Positions, Latest
<1>3. CASE P # {}
  <2>1. Max(P) \in P
    <3> HIDE DEF P
    <3> QED BY <1>1, <1>3, MaxPosition
  <2>2. Latest(batch, v) = batch[Max(P)]
    BY <1>3 DEF Latest
  <2>3. QED
    BY <1>1, <2>1, <2>2
<1>4. QED
  BY <1>2, <1>3

\* An entry that is pushed is the latest of its variables, and of no other.
LEMMA LatestPushed ==
    ASSUME NEW batch \in Seq(Nat), NEW n \in Nat, NEW v
    PROVE  Latest(Append(batch, n), v) = IF v \in carries[n] THEN n ELSE Latest(batch, v)
<1> DEFINE m == Len(batch)
           pushed == Append(batch, n)
           P == Positions(batch, v)
           Q == Positions(pushed, v)
<1>1. m \in Nat /\ DOMAIN batch = 1 .. m /\ DOMAIN pushed = 1 .. m + 1
  OBVIOUS
<1>2. pushed[m + 1] = n /\ \A i \in 1 .. m : pushed[i] = batch[i]
  OBVIOUS
<1>3. P \in SUBSET (1 .. m) /\ Q \in SUBSET (1 .. m + 1)
  BY <1>1 DEF Positions
<1>4. CASE v \in carries[n]
  <2>1. m + 1 \in Q
    BY <1>1, <1>2, <1>4 DEF Positions
  <2>2. m + 1 \in Nat /\ Q # {}
    BY <1>1, <2>1
  <2>3. Max(Q) = m + 1
    <3> HIDE DEF Q, m
    <3>1. Max(Q) \in Q /\ \A j \in Q : j =< Max(Q)
      BY <1>3, <2>2, MaxPosition
    <3>2. Max(Q) \in 1 .. m + 1 /\ m \in Nat
      BY <1>1, <1>3, <3>1
    <3>3. m + 1 =< Max(Q)
      BY <2>1, <3>1
    <3>4. QED
      BY <3>2, <3>3
  <2>4. QED
    BY <1>2, <1>4, <2>1, <2>3 DEF Latest
<1>5. CASE v \notin carries[n]
  <2>1. Q = P
    BY <1>1, <1>2, <1>5 DEF Positions
  <2>2. CASE P = {}
    BY <1>5, <2>1, <2>2 DEF Latest
  <2>3. CASE P # {}
    <3>1. Max(P) \in 1 .. m
      <4> HIDE DEF P
      <4> QED BY <1>1, <1>3, <2>3, MaxPosition
    <3>2. QED
      BY <1>2, <1>5, <2>1, <2>3, <3>1 DEF Latest
  <2>4. QED
    BY <2>2, <2>3
<1>6. QED
  BY <1>4, <1>5

-----------------------------------------------------------------------------
(* The invariant holds initially *)

\* The initial states satisfy the inductive invariant.
LEMMA InitIInv == Init => IInv
<1> SUFFICES ASSUME Init PROVE IInv
  OBVIOUS
<1> USE UpdateAssumption
<1>1. TypeOK
  BY DEF Init, TypeOK, Point, None, Jobs
<1>2. Places /\ Pushed
  BY DEF Init, Places, Pushed, None, Procs
<1>3. LastValueKept
  BY DEF Init, LastValueKept
<1>4. Sorted /\ Alone
  BY DEF Init, Sorted, Alone
<1>5. QED
  BY <1>1, <1>2, <1>3, <1>4 DEF IInv

-----------------------------------------------------------------------------
(* The invariant is preserved *)

\* A batch of jobs that have been added has their numbers for values.
LEMMA LatestAdded ==
    ASSUME TypeOK, NEW batch \in Seq(1 .. added), NEW v \in Variables
    PROVE  Latest(batch, v) \in 0 .. added
<1>1. added \in Nat /\ batch \in Seq(Nat) /\ \A k \in 1 .. Len(batch) : batch[k] \in 1 .. added
  BY UpdateAssumption DEF TypeOK
<1>2. QED
  BY <1>1, LatestOf

\* What the array holds does not change unless it or a job does.
LEMMA LatestSame ==
    ASSUME UNCHANGED <<updates, carries>>
    PROVE  \A v \in Variables : Latest(updates, v)' = Latest(updates, v)
<1>1. \A v \in Variables : Positions(updates, v)' = Positions(updates, v)
  BY DEF Positions
<1>2. QED
  BY <1>1 DEF Latest

\* A step that touches no value keeps what the invariant says about them.
LEMMA ValuesSame ==
    ASSUME IInv, Writing' = Writing,
           UNCHANGED <<updates, carries, queue, stalled, writing, db, crashes, last, lost, alone>>
    PROVE  Pushed' /\ LastValueKept' /\ (crashes' = 0 => Sorted') /\ Alone'
<1> USE DEF IInv
<1>1. Pushed' /\ Alone'
  BY DEF Pushed, Alone
<1>2. LastValueKept'
  BY LatestSame DEF LastValueKept
<1>3. crashes' = 0 => Sorted'
  BY DEF Sorted
<1>4. QED
  BY <1>1, <1>2, <1>3

\* A job is added behind the others, with a number of its own.
LEMMA AddKeeps ==
    ASSUME IInv, NEW S \in SUBSET Variables, Add(S)
    PROVE  IInv'
<1> USE DEF Add, IInv, lifeVars
<1>1. added \in Nat /\ added' = added + 1 /\ added + 1 \in Jobs /\ 1 .. added \subseteq Jobs
  BY UpdateAssumption DEF TypeOK, Jobs
<1>2. \A n \in 1 .. added : carries'[n] = carries[n]
  BY <1>1 DEF TypeOK
<1>3. TypeOK'
  <2>1. 0 .. added \subseteq 0 .. added' /\ 1 .. added \subseteq 1 .. added' /\ added' \in 0 .. MaxJobs
    BY <1>1, UpdateAssumption DEF TypeOK
  <2>2. queue' \in Seq(1 .. added') /\ updates' \in Seq(1 .. added')
    BY <1>1, <2>1 DEF TypeOK
  <2>3. carries' \in [Jobs -> SUBSET Variables]
    BY <1>1 DEF TypeOK
  <2>4. writing' \in [Procs -> [Variables -> 0 .. added']] /\ db' \in [Variables -> 0 .. added']
        /\ last' \in [Variables -> 0 .. added'] /\ job' \in 0 .. added' /\ stalled' \in SUBSET (1 .. added')
    BY <2>1 DEF TypeOK
  <2>5. QED
    BY <2>1, <2>2, <2>3, <2>4 DEF TypeOK
<1>4. Places'
  BY DEF Places, Writing
<1>5. Pushed'
  BY <1>2 DEF Pushed, TypeOK
<1>6. LastValueKept'
  <2>1. ASSUME NEW v \in Variables PROVE Latest(updates, v)' = Latest(updates, v)
    <3>1. \A i \in DOMAIN updates : carries'[updates[i]] = carries[updates[i]]
      BY <1>2 DEF TypeOK
    <3>2. Positions(updates, v)' = Positions(updates, v)
      BY <3>1 DEF Positions
    <3>3. QED
      BY <3>2 DEF Latest
  <2>2. QED
    BY <2>1 DEF LastValueKept, Writing
<1>7. crashes' = 0 => Sorted'
  <2> SUFFICES ASSUME crashes = 0 PROVE Sorted'
    OBVIOUS
  <2>1. queue \in Seq(Nat) /\ updates \in Seq(Nat) /\ \A i \in 1 .. Len(queue) : queue[i] =< added
    BY <1>1 DEF TypeOK
  <2>2. Len(queue') = Len(queue) + 1 /\ queue'[Len(queue) + 1] = added + 1
        /\ \A i \in 1 .. Len(queue) : queue'[i] = queue[i]
    BY <2>1
  <2>3. \A i, j \in 1 .. Len(queue') : i < j => queue'[i] < queue'[j]
    <3> SUFFICES ASSUME NEW i \in 1 .. Len(queue) + 1, NEW j \in 1 .. Len(queue) + 1, i < j
                 PROVE  queue'[i] < queue'[j]
      BY <2>2
    <3>1. i \in 1 .. Len(queue) /\ queue'[i] = queue[i] /\ queue[i] =< added /\ queue[i] \in Nat
      BY <2>1, <2>2
    <3>2. CASE j = Len(queue) + 1
      BY <1>1, <2>2, <3>1, <3>2
    <3>3. CASE j \in 1 .. Len(queue)
      <4>1. Sorted
        OBVIOUS
      <4>2. queue[i] < queue[j] /\ queue'[j] = queue[j]
        BY <2>2, <3>1, <3>3, <4>1 DEF Sorted
      <4>3. QED
        BY <3>1, <4>2
    <3>4. Len(queue) \in Nat
      BY <2>1
    <3>5. QED
      BY <3>2, <3>3, <3>4
  <2>4. \A k \in 1 .. Len(updates) : updates[k] < added + 1
    BY <1>1 DEF TypeOK
  <2>5. \A v \in Variables : db[v] < added + 1 /\ \A p \in Procs : writing[p][v] < added + 1
    BY <1>1 DEF TypeOK
  <2>6. Sorted /\ stalled' = {}
    BY DEF Sorted
  <2>7. \A i \in 1 .. Len(queue'), k \in 1 .. Len(updates) : updates[k] < queue'[i]
    BY <2>1, <2>2, <2>4, <2>6 DEF Sorted
  <2>8. \A i \in 1 .. Len(queue'), v \in Variables :
            db[v] < queue'[i] /\ \A p \in Procs : writing[p][v] < queue'[i]
    BY <2>1, <2>2, <2>5, <2>6 DEF Sorted
  <2>9. QED
    BY <2>3, <2>6, <2>7, <2>8 DEF Sorted
<1>8. Alone'
  BY DEF Alone, Writing
<1>9. QED
  BY <1>3, <1>4, <1>5, <1>6, <1>7, <1>8

\* A flush that begins takes the whole batch with it.
LEMMA Begun ==
    ASSUME TypeOK, NEW p \in Procs, NEW batch \in Seq(1 .. added), Begin(p, batch)
    PROVE  /\ at' \in [Procs -> Point] /\ at'[p] = "write" /\ Writing' = Writing \cup {p}
           /\ \A q \in Procs \ {p} : at'[q] = at[q] /\ writing'[q] = writing[q]
           /\ writing' \in [Procs -> [Variables -> 0 .. added]]
           /\ \A v \in Variables : writing'[p][v] = Latest(batch, v)
           /\ updates' = <<>> /\ updates' \in Seq(1 .. added)
           /\ alone' \in SUBSET Procs
           /\ \A v \in Variables :
                 \/ \E k \in 1 .. Len(batch) : v \in carries[batch[k]] /\ writing'[p][v] = batch[k]
                 \/ writing'[p][v] = 0 /\ \A k \in 1 .. Len(batch) : v \notin carries[batch[k]]
<1> USE DEF Begin
<1>1. at' \in [Procs -> Point] /\ at'[p] = "write" /\ \A q \in Procs \ {p} : at'[q] = at[q]
  BY DEF TypeOK, Point
<1>2. [v \in Variables |-> Latest(batch, v)] \in [Variables -> 0 .. added]
  BY LatestAdded
<1>3. writing' \in [Procs -> [Variables -> 0 .. added]]
      /\ \A q \in Procs \ {p} : writing'[q] = writing[q]
      /\ \A v \in Variables : writing'[p][v] = Latest(batch, v)
  BY <1>2 DEF TypeOK
<1>4. batch \in Seq(Nat)
  BY DEF TypeOK
<1>5. \A v \in Variables :
                 \/ \E k \in 1 .. Len(batch) : v \in carries[batch[k]] /\ writing'[p][v] = batch[k]
                 \/ writing'[p][v] = 0 /\ \A k \in 1 .. Len(batch) : v \notin carries[batch[k]]
  BY <1>3, <1>4, LatestOf
<1>6. Writing' = Writing \cup {p}
  BY <1>1 DEF Writing
<1>7. QED
  BY <1>1, <1>3, <1>5, <1>6

\* A flush of the array, by the timer or the shutdown hook, keeps what the
\* invariant says about values.
LEMMA BeginKeeps ==
    ASSUME IInv, NEW p \in Procs, at[p] = "idle", Begin(p, updates),
           UNCHANGED <<queueVars, db, crashes, last, lost>>
    PROVE  Pushed' /\ LastValueKept' /\ (crashes' = 0 => Sorted') /\ Alone'
<1> USE DEF IInv, queueVars
<1>1. updates \in Seq(1 .. added) /\ added \in Nat
  BY UpdateAssumption DEF TypeOK
<1>3. /\ updates' = <<>> /\ at'[p] = "write" /\ Writing' = Writing \cup {p}
      /\ \A q \in Procs \ {p} : writing'[q] = writing[q]
      /\ \A v \in Variables : writing'[p][v] = Latest(updates, v)
      /\ \A v \in Variables :
            \/ \E i \in 1 .. Len(updates) : v \in carries[updates[i]] /\ writing'[p][v] = updates[i]
            \/ writing'[p][v] = 0 /\ \A i \in 1 .. Len(updates) : v \notin carries[updates[i]]
  BY <1>1, Begun
<1>4. p \notin Writing /\ \A v \in Variables : writing[p][v] = 0
  BY DEF Writing, Places, None
<1>5. Pushed'
  BY <1>3 DEF Pushed
<1>6. LastValueKept'
  <2> SUFFICES ASSUME NEW v \in Variables \ lost, db[v] # last[v]
               PROVE  \E q \in Writing' : writing'[q][v] = last[v]
    BY DEF LastValueKept
  <2>1. CASE Latest(updates, v) = last[v]
    BY <1>3, <2>1
  <2>2. CASE \E q \in Writing : writing[q][v] = last[v]
    <3>1. PICK q \in Writing : writing[q][v] = last[v]
      BY <2>2
    <3>2. q \in Procs \ {p} /\ q \in Writing'
      BY <1>3, <1>4 DEF Writing
    <3>3. QED
      BY <1>3, <3>1, <3>2
  <2>3. QED
    BY <2>1, <2>2 DEF LastValueKept
<1>7. ASSUME crashes = 0 PROVE Sorted'
  <2>1. Sorted /\ Len(updates') = 0
    BY <1>3, <1>7
  <2>2. \A i \in 1 .. Len(queue), v \in Variables : writing'[p][v] < queue[i]
    <3> SUFFICES ASSUME NEW i \in 1 .. Len(queue), NEW v \in Variables
                 PROVE  writing'[p][v] < queue[i]
      OBVIOUS
    <3>1. queue[i] \in 1 .. added
      BY DEF TypeOK
    <3>2. CASE writing'[p][v] = 0
      BY <1>1, <3>1, <3>2
    <3>3. CASE \E k \in 1 .. Len(updates) : writing'[p][v] = updates[k]
      BY <2>1, <3>3 DEF Sorted
    <3>4. QED
      BY <1>3, <3>2, <3>3
  <2>3. \A i \in 1 .. Len(queue), v \in Variables, q \in Procs : writing'[q][v] < queue[i]
    BY <1>3, <2>1, <2>2 DEF Sorted
  <2>4. QED
    BY <2>1, <2>3 DEF Sorted
<1>8. Alone'
  <2> SUFFICES ASSUME Writing = {}, alone' = {p}
               PROVE  Writing' = {p} /\ (crashes = 0 =>
                        \A v \in Variables : writing'[p][v] = 0 \/ db[v] < writing'[p][v])
    BY DEF Alone, Begin
  <2>1. Writing' = {p}
    BY <1>3
  <2>2. ASSUME crashes = 0, NEW v \in Variables PROVE writing'[p][v] = 0 \/ db[v] < writing'[p][v]
    <3>1. Sorted
      BY <2>2
    <3>2. QED
      BY <1>3, <3>1 DEF Sorted
  <2>3. QED
    BY <2>1, <2>2
<1>9. QED
  BY <1>5, <1>6, <1>7, <1>8

\* The timer flushes the array, or finds it empty.
LEMMA TickKeeps ==
    ASSUME IInv, NEW t \in Ticks, Tick(t)
    PROVE  IInv'
<1> USE DEF Tick, lifeVars
<1>1. t \in Procs /\ t # Worker /\ t # Closer
  BY ProcsApart
<1>2. CASE updates = <<>>
  <2>1. UNCHANGED vars
    BY <1>2 DEF vars, queueVars
  <2>2. Pushed' /\ LastValueKept' /\ (crashes' = 0 => Sorted') /\ Alone'
    BY <2>1, ValuesSame DEF vars, queueVars, Writing
  <2>3. TypeOK' /\ Places'
    BY <2>1 DEF IInv, TypeOK, Places, Writing, vars, queueVars
  <2>4. QED
    BY <2>2, <2>3 DEF IInv
<1>3. CASE updates # <<>>
  <2>1. Begin(t, updates)
    BY <1>3
  <2>2. updates \in Seq(1 .. added) /\ TypeOK
    BY DEF IInv, TypeOK
  <2>3. Pushed' /\ LastValueKept' /\ (crashes' = 0 => Sorted') /\ Alone'
    BY <1>1, <2>1, BeginKeeps
  <2>4. TypeOK'
    BY <1>1, <2>1, <2>2, Begun DEF TypeOK, queueVars
  <2>5. Places'
    BY <1>1, <2>1, <2>2, Begun, ProcsApart DEF Places, Writing, IInv
  <2>6. QED
    BY <2>3, <2>4, <2>5 DEF IInv
<1>4. QED
  BY <1>2, <1>3

\* The final flush takes what is left of the array, or finds it empty.
LEMMA FinalFlushKeeps == IInv /\ FinalFlush => IInv'
<1> SUFFICES ASSUME IInv, FinalFlush PROVE IInv'
  OBVIOUS
<1> USE DEF FinalFlush
<1>1. Closer \in Procs /\ Worker \in Procs /\ Worker # Closer /\ at[Closer] = "idle"
  BY ProcsApart DEF IInv, Places
<1>2. CASE updates = <<>>
  <2>1. UNCHANGED <<queueVars, job, at, updates, writing, db, stops, crashes, last, lost, alone>>
        /\ phase = "closing" /\ at[Worker] = "idle" /\ phase' = "stopped"
    BY <1>2
  <2>2. Pushed' /\ LastValueKept' /\ (crashes' = 0 => Sorted') /\ Alone'
    BY <2>1, ValuesSame DEF queueVars, Writing
  <2>3. TypeOK' /\ Places'
    BY <1>1, <1>2, <2>1 DEF IInv, TypeOK, Places, Writing, queueVars
  <2>4. QED
    BY <2>2, <2>3 DEF IInv
<1>3. CASE updates # <<>>
  <2>1. Begin(Closer, updates) /\ phase' = "final"
    BY <1>3
  <2>2. updates \in Seq(1 .. added) /\ TypeOK
    BY DEF IInv, TypeOK
  <2>3. Pushed' /\ LastValueKept' /\ (crashes' = 0 => Sorted') /\ Alone'
    BY <1>1, <2>1, BeginKeeps
  <2>4. TypeOK'
    BY <1>1, <2>1, <2>2, Begun DEF TypeOK, queueVars
  <2>5. Places'
    BY <1>1, <2>1, <2>2, Begun, ProcsApart DEF Places, Writing, IInv
  <2>6. QED
    BY <2>3, <2>4, <2>5 DEF IInv
<1>4. QED
  BY <1>2, <1>3

\* The queue learns that a job is done.
LEMMA CompleteJobKeeps == IInv /\ CompleteJob => IInv'
<1> SUFFICES ASSUME IInv, CompleteJob PROVE IInv'
  OBVIOUS
<1> USE DEF CompleteJob, IInv, queueVars, lifeVars
<1>1. Worker \in Procs /\ Worker # Closer /\ at'[Worker] = "idle" /\ Writing' = Writing
  BY ProcsApart DEF TypeOK, Writing
<1>2. TypeOK' /\ Places'
  BY <1>1 DEF TypeOK, Places, Point
<1>3. Pushed' /\ LastValueKept' /\ (crashes' = 0 => Sorted') /\ Alone'
  BY <1>1, ValuesSame
<1>4. QED
  BY <1>2, <1>3

\* Shutting down begins.
LEMMA ShutdownKeeps == IInv /\ Shutdown => IInv'
<1> SUFFICES ASSUME IInv, Shutdown PROVE IInv'
  OBVIOUS
<1> USE DEF Shutdown, queueVars
<1>1. Pushed' /\ LastValueKept' /\ (crashes' = 0 => Sorted') /\ Alone'
  BY ValuesSame DEF Writing
<1>2. TypeOK' /\ Places'
  BY ProcsApart DEF IInv, TypeOK, Places, Writing
<1>3. QED
  BY <1>1, <1>2 DEF IInv

\* A crash or an exit empties the memory.
LEMMA RestartKeeps ==
    ASSUME IInv, Restart, \/ phase = "stopped" /\ crashes' = crashes
                          \/ crashes' = crashes + 1
    PROVE  IInv'
<1> USE DEF Restart, IInv, None
<1>1. added \in Nat /\ crashes \in Nat /\ crashes' \in Nat
  BY UpdateAssumption DEF TypeOK
<1>2. Writing' = {}
  BY DEF Writing
<1>3. TypeOK'
  BY <1>1, UpdateAssumption DEF TypeOK, Point, Stalls
<1>4. Places' /\ Pushed'
  BY <1>2, ProcsApart DEF Places, Pushed
<1>5. LastValueKept' /\ Alone'
  BY DEF LastValueKept, Alone
<1>6. ASSUME crashes' = 0 PROVE Sorted'
  <2>1. phase = "stopped" /\ crashes = 0
    BY <1>1, <1>6
  <2>2. stalled' = {}
    BY <2>1 DEF Places, Sorted, Stalls
  <2>3. \A i \in 1 .. Len(queue) : queue[i] \in 1 .. added
    BY DEF TypeOK
  <2>4. QED
    BY <1>1, <2>1, <2>2, <2>3 DEF Sorted
<1>7. QED
  BY <1>3, <1>4, <1>5, <1>6

\* A job that stalled is handed out again, which there are only after a crash.
LEMMA RedeliverKeeps ==
    ASSUME IInv, NEW n \in stalled, Redeliver(n)
    PROVE  IInv'
<1> USE DEF Redeliver, IInv, lifeVars
<1>1. crashes # 0
  BY DEF Sorted
<1>2. queue' \in Seq(1 .. added)
  <2>1. queue \in Seq(1 .. added) /\ <<n>> \in Seq(1 .. added)
    BY DEF TypeOK
  <2>2. <<n>> \o queue \in Seq(1 .. added)
    BY <2>1, ConcatProperties
  <2>3. QED
    BY <2>1, <2>2
<1>3. TypeOK' /\ Places' /\ Pushed' /\ Alone'
  BY <1>2 DEF TypeOK, Places, Pushed, Alone, Writing
<1>4. LastValueKept'
  BY LatestSame DEF LastValueKept, Writing
<1>5. QED
  BY <1>1, <1>3, <1>4

\* A flush that ends leaves no trace in memory.
LEMMA Ended ==
    ASSUME IInv, NEW p \in Procs, at[p] = "write", End(p), UNCHANGED updates
    PROVE  /\ Writing' = Writing \ {p} /\ writing'[p] = None
           /\ \A q \in Procs \ {p} : writing'[q] = writing[q] /\ at'[q] = at[q]
           /\ writing' \in [Procs -> [Variables -> 0 .. added]] /\ at' \in [Procs -> Point]
           /\ phase' \in {"up", "closing", "final", "stopped"}
           /\ Places'
<1> USE DEF End, IInv
<1>1. Worker \in Procs /\ Closer \in Procs /\ Worker # Closer
  BY ProcsApart
<1>2. added \in Nat /\ None \in [Variables -> 0 .. added]
  BY UpdateAssumption DEF TypeOK, None
<1>3. Writing' = Writing \ {p} /\ writing'[p] = None
      /\ \A q \in Procs \ {p} : writing'[q] = writing[q] /\ at'[q] = at[q]
  BY DEF TypeOK, Writing
<1>4. writing' \in [Procs -> [Variables -> 0 .. added]] /\ at' \in [Procs -> Point]
      /\ phase' \in {"up", "closing", "final", "stopped"}
  BY <1>2 DEF TypeOK, Point
<1>5. p = Closer => phase = "final"
  BY DEF Places
<1>6. at'[p] = IF p = Worker THEN "complete" ELSE "idle"
  BY DEF TypeOK
<1>7. Places'
  <2>1. \A q \in Procs \ Writing' : writing'[q] = None
    BY <1>3 DEF Places
  <2>2. \A q \in Procs : at'[q] = "complete" => q = Worker
    BY <1>3, <1>6 DEF Places
  <2>3. at'[Worker] = "idle" <=> job' = 0
    BY <1>1, <1>3, <1>6 DEF Places
  <2>4. phase' \in {"final", "stopped"} => at'[Worker] = "idle" /\ updates' = <<>>
    BY <1>1, <1>3, <1>5, <1>6 DEF Places
  <2>5. at'[Closer] # "idle" => phase' = "final"
    BY <1>1, <1>3, <1>5, <1>6 DEF Places
  <2>6. QED
    BY <2>1, <2>2, <2>3, <2>4, <2>5 DEF Places
<1>8. QED
  BY <1>3, <1>4, <1>7

\* An UPDATE that fails drops its batch.
LEMMA WriteFailsKeeps ==
    ASSUME IInv, NEW p \in Procs, WriteFails(p)
    PROVE  IInv'
<1> USE DEF WriteFails, IInv
<1>1. /\ Writing' = Writing \ {p} /\ writing'[p] = None
      /\ \A q \in Procs \ {p} : writing'[q] = writing[q] /\ at'[q] = at[q]
      /\ writing' \in [Procs -> [Variables -> 0 .. added]] /\ at' \in [Procs -> Point]
      /\ phase' \in {"up", "closing", "final", "stopped"}
      /\ Places'
  BY Ended
<1> USE DEF End, queueVars
<1>2. TypeOK'
  BY <1>1 DEF TypeOK
<1>3. Pushed'
  BY <1>1 DEF Pushed, None
<1>4. LastValueKept'
  <2> SUFFICES ASSUME NEW v \in Variables \ lost', db[v] # last[v], Latest(updates, v) # last[v]
               PROVE  \E q \in Writing' : writing'[q][v] = last[v]
    BY LatestSame DEF LastValueKept
  <2>1. PICK q \in Writing : writing[q][v] = last[v]
    BY DEF LastValueKept
  <2>2. q # p /\ q \in Procs
    BY <2>1 DEF Writing
  <2>3. QED
    BY <1>1, <2>1, <2>2
<1>5. ASSUME crashes' = 0 PROVE Sorted'
  <2>1. Sorted
    BY <1>5
  <2>2. \A q \in Procs, v \in Variables : writing'[q][v] = writing[q][v] \/ writing'[q][v] = 0
    BY <1>1 DEF None
  <2>3. \A i \in 1 .. Len(queue) : queue[i] > 0
    BY UpdateAssumption DEF TypeOK
  <2>4. \A i \in 1 .. Len(updates) : updates[i] > 0
    BY UpdateAssumption DEF TypeOK
  <2>5. QED
    BY <2>1, <2>2, <2>3, <2>4 DEF Sorted
<1>6. Alone'
  BY <1>1 DEF Alone
<1>7. QED
  BY <1>1, <1>2, <1>3, <1>4, <1>5, <1>6

\* An UPDATE that succeeds sets the variables of its batch.
LEMMA WriteSucceedsKeeps ==
    ASSUME IInv, NEW p \in Procs, WriteSucceeds(p)
    PROVE  IInv'
<1> USE DEF WriteSucceeds, IInv
<1>1. /\ Writing' = Writing \ {p} /\ writing'[p] = None
      /\ \A q \in Procs \ {p} : writing'[q] = writing[q] /\ at'[q] = at[q]
      /\ writing' \in [Procs -> [Variables -> 0 .. added]] /\ at' \in [Procs -> Point]
      /\ phase' \in {"up", "closing", "final", "stopped"}
      /\ Places'
  BY Ended
<1>2. \A v \in Variables : db'[v] = IF writing[p][v] # 0 THEN writing[p][v] ELSE db[v]
  OBVIOUS
<1> USE DEF End, queueVars
<1>3. TypeOK'
  <2>1. db' \in [Variables -> 0 .. added]
    BY DEF TypeOK
  <2>2. QED
    BY <1>1, <2>1 DEF TypeOK
<1>4. Pushed'
  BY <1>1, <1>2 DEF Pushed, None
<1>5. LastValueKept'
  <2> SUFFICES ASSUME NEW v \in Variables \ lost', db'[v] # last[v], Latest(updates, v) # last[v]
               PROVE  \E q \in Writing' : writing'[q][v] = last[v]
    BY LatestSame DEF LastValueKept
  <2>1. db[v] # last[v]
    OBVIOUS
  <2>2. PICK q \in Writing : writing[q][v] = last[v]
    BY <2>1 DEF LastValueKept
  <2>3. last[v] # 0
    BY <2>1 DEF Pushed
  <2>4. q # p /\ q \in Procs
    BY <1>2, <2>2, <2>3 DEF Writing
  <2>5. QED
    BY <1>1, <2>2, <2>4
<1>6. ASSUME crashes' = 0 PROVE Sorted'
  <2>1. Sorted
    BY <1>6
  <2>2. \A q \in Procs, v \in Variables : writing'[q][v] = writing[q][v] \/ writing'[q][v] = 0
    BY <1>1 DEF None
  <2>3. \A i \in 1 .. Len(queue) : queue[i] > 0
    BY UpdateAssumption DEF TypeOK
  <2>4. \A i \in 1 .. Len(updates) : updates[i] > 0
    BY UpdateAssumption DEF TypeOK
  <2>5. \A v \in Variables : db'[v] = db[v] \/ db'[v] = writing[p][v]
    BY <1>2
  <2>6. QED
    BY <2>1, <2>2, <2>3, <2>4, <2>5 DEF Sorted
<1>7. Alone'
  BY <1>1 DEF Alone, Writing
<1>8. QED
  BY <1>1, <1>3, <1>4, <1>5, <1>6, <1>7

\* A job is taken and pushed, and the array is flushed if it has become full.
LEMMA TakeJobKeeps == IInv /\ TakeJob => IInv'
<1> SUFFICES ASSUME IInv, TakeJob PROVE IInv'
  OBVIOUS
<1> DEFINE n == Head(queue)
           pushed == Append(updates, n)
<1> USE DEF IInv, lifeVars
<1>1. /\ phase = "up" /\ at[Worker] = "idle" /\ queue # <<>>
      /\ queue' = Tail(queue) /\ job' = n /\ lost' = lost \ carries[n]
      /\ last' = [v \in Variables |-> IF v \in carries[n] THEN n ELSE last[v]]
      /\ UNCHANGED <<added, stalled, carries, db, phase, stops, crashes>>
      /\ \/ Begin(Worker, pushed)
         \/ /\ at' = [at EXCEPT ![Worker] = "complete"]
            /\ updates' = pushed
            /\ UNCHANGED <<writing, alone>>
  BY DEF TakeJob
<1>2. added \in Nat /\ n \in 1 .. added /\ n \in Nat /\ pushed \in Seq(1 .. added)
      /\ updates \in Seq(Nat) /\ pushed \in Seq(Nat)
  BY <1>1, UpdateAssumption DEF TypeOK
<1>3. Worker \in Procs /\ Closer \in Procs /\ Worker # Closer
  BY ProcsApart
<1>4. Worker \notin Writing /\ \A v \in Variables : writing[Worker][v] = 0
  BY <1>1, <1>3 DEF Writing, Places, None
<1>5. /\ Len(pushed) = Len(updates) + 1 /\ Len(updates) \in Nat
      /\ \A k \in 1 .. Len(pushed) : \/ pushed[k] = n
                                     \/ k \in 1 .. Len(updates) /\ pushed[k] = updates[k]
  <2>1. Len(pushed) = Len(updates) + 1 /\ pushed[Len(updates) + 1] = n /\ Len(updates) \in Nat
        /\ \A k \in 1 .. Len(updates) : pushed[k] = updates[k]
    BY <1>2
  <2>2. \A k \in 1 .. Len(updates) + 1 : k = Len(updates) + 1 \/ k \in 1 .. Len(updates)
    BY <2>1
  <2>3. QED
    BY <2>1, <2>2
<1>6. /\ queue' \in Seq(1 .. added) /\ Len(queue) \in Nat \ {0} /\ queue[1] = n
      /\ Len(queue') = Len(queue) - 1
      /\ \A i \in 1 .. Len(queue') : queue'[i] = queue[i + 1]
  BY <1>1 DEF TypeOK
<1>7. \A v \in Variables : Latest(pushed, v) = IF v \in carries[n] THEN n ELSE Latest(updates, v)
  BY <1>2, LatestPushed
<1>8. lost' \in SUBSET Variables /\ last' \in [Variables -> 0 .. added]
      /\ \A v \in Variables : last'[v] = IF v \in carries[n] THEN n ELSE last[v]
  BY <1>1, <1>2 DEF TypeOK
<1>9. ASSUME crashes = 0
      PROVE  /\ stalled = {}
             /\ \A i, j \in 1 .. Len(queue') : i < j => queue'[i] < queue'[j]
             /\ \A i \in 1 .. Len(queue'), k \in 1 .. Len(pushed) : pushed[k] < queue'[i]
             /\ \A i \in 1 .. Len(queue'), v \in Variables :
                   db[v] < queue'[i] /\ \A p \in Procs : writing[p][v] < queue'[i]
             /\ \A k \in 1 .. Len(pushed), v \in Variables :
                   db[v] < pushed[k] /\ \A p \in Procs : writing[p][v] < pushed[k]
  <2> HIDE DEF n, pushed
  <2>1. Sorted
    BY <1>9
  <2>2. \A i \in 1 .. Len(queue') :
           i + 1 \in 1 .. Len(queue) /\ 1 < i + 1 /\ queue'[i] = queue[i + 1]
    BY <1>6
  <2>3. 1 \in 1 .. Len(queue) /\ queue[1] = n
    <3>1. Len(queue) \in Nat \ {0} /\ queue[1] = n
      BY <1>6
    <3>2. QED
      BY <3>1
  <2>4. \A i, j \in 1 .. Len(queue') : i < j => queue'[i] < queue'[j]
    <3> SUFFICES ASSUME NEW i \in 1 .. Len(queue'), NEW j \in 1 .. Len(queue'), i < j
                 PROVE  queue'[i] < queue'[j]
      OBVIOUS
    <3>1. i + 1 < j + 1 /\ i + 1 \in 1 .. Len(queue) /\ j + 1 \in 1 .. Len(queue)
      BY <2>2
    <3>2. queue[i + 1] < queue[j + 1]
      BY <2>1, <3>1 DEF Sorted
    <3>3. QED
      BY <2>2, <3>2
  <2>5. \A i \in 1 .. Len(queue') : n < queue'[i]
    BY <2>1, <2>2, <2>3 DEF Sorted
  <2>6. \A i \in 1 .. Len(queue'), k \in 1 .. Len(pushed) : pushed[k] < queue'[i]
    BY <1>5, <2>1, <2>2, <2>5 DEF Sorted
  <2>7. \A i \in 1 .. Len(queue'), v \in Variables :
           db[v] < queue'[i] /\ \A p \in Procs : writing[p][v] < queue'[i]
    BY <2>1, <2>2 DEF Sorted
  <2>8. \A v \in Variables : db[v] < n /\ \A p \in Procs : writing[p][v] < n
    BY <2>1, <2>3 DEF Sorted
  <2>9. \A k \in 1 .. Len(pushed), v \in Variables :
           db[v] < pushed[k] /\ \A p \in Procs : writing[p][v] < pushed[k]
    BY <1>5, <2>1, <2>8 DEF Sorted
  <2>10. QED
    BY <2>1, <2>4, <2>6, <2>7, <2>9 DEF Sorted
<1> HIDE DEF n, pushed
<1>10. CASE Begin(Worker, pushed)
  <2>1. /\ at' \in [Procs -> Point] /\ at'[Worker] = "write" /\ Writing' = Writing \cup {Worker}
        /\ \A q \in Procs \ {Worker} : at'[q] = at[q] /\ writing'[q] = writing[q]
        /\ writing' \in [Procs -> [Variables -> 0 .. added]]
        /\ \A v \in Variables : writing'[Worker][v] = Latest(pushed, v)
        /\ updates' = <<>> /\ updates' \in Seq(1 .. added)
        /\ alone' \in SUBSET Procs
        /\ \A v \in Variables :
              \/ \E k \in 1 .. Len(pushed) : v \in carries[pushed[k]] /\ writing'[Worker][v] = pushed[k]
              \/ writing'[Worker][v] = 0 /\ \A k \in 1 .. Len(pushed) : v \notin carries[pushed[k]]
    BY <1>2, <1>3, <1>10, Begun
  <2>2. TypeOK'
    <3>1. job' \in 0 .. added /\ queue' \in Seq(1 .. added)
      BY <1>1, <1>2, <1>6
    <3>2. QED
      BY <1>1, <1>8, <2>1, <3>1 DEF TypeOK
  <2>3. Places'
    <3>1. job' # 0 /\ at'[Worker] # "idle" /\ phase' = "up"
      BY <1>1, <1>2, <2>1
    <3>2. \A p \in Procs \ Writing' : writing'[p] = None
      BY <2>1 DEF Places
    <3>3. \A p \in Procs : at'[p] = "complete" => p = Worker
      BY <2>1 DEF Places
    <3>4. at'[Closer] # "idle" => phase' = "final"
      BY <1>1, <1>3, <2>1 DEF Places
    <3>5. QED
      BY <3>1, <3>2, <3>3, <3>4 DEF Places
  <2>4. Pushed'
    <3> SUFFICES ASSUME NEW v \in Variables, last'[v] = 0
                 PROVE  db[v] = 0 /\ \A p \in Procs : writing'[p][v] = 0
      BY <1>1, <2>1 DEF Pushed
    <3>1. v \notin carries[n] /\ last[v] = 0
      BY <1>2, <1>8
    <3>2. \A k \in 1 .. Len(pushed) : v \notin carries[pushed[k]]
      BY <1>2, <1>5, <3>1 DEF Pushed
    <3>3. QED
      BY <2>1, <3>1, <3>2 DEF Pushed
  <2>5. LastValueKept'
    <3> SUFFICES ASSUME NEW v \in Variables \ lost', db[v] # last'[v]
                 PROVE  \E q \in Writing' : writing'[q][v] = last'[v]
      BY <1>1 DEF LastValueKept
    <3>1. CASE v \in carries[n]
      <4>1. Worker \in Writing' /\ writing'[Worker][v] = last'[v]
        BY <1>7, <1>8, <2>1, <3>1
      <4>2. QED
        BY <4>1
    <3>2. CASE v \notin carries[n]
      <4>1. v \notin lost /\ last'[v] = last[v] /\ Latest(pushed, v) = Latest(updates, v)
        BY <1>1, <1>7, <1>8, <3>2
      <4>2. CASE Latest(updates, v) = last[v]
        <5>1. Worker \in Writing' /\ writing'[Worker][v] = last'[v]
          BY <2>1, <4>1, <4>2
        <5>2. QED
          BY <5>1
      <4>3. CASE \E q \in Writing : writing[q][v] = last[v]
        <5>1. PICK q \in Writing : writing[q][v] = last[v]
          BY <4>3
        <5>2. q \in Procs \ {Worker} /\ q \in Writing'
          BY <1>4, <2>1 DEF Writing
        <5>3. QED
          BY <2>1, <4>1, <5>1, <5>2
      <4>4. QED
        BY <4>1, <4>2, <4>3 DEF LastValueKept
    <3>3. QED
      BY <3>1, <3>2
  <2>6. ASSUME crashes' = 0 PROVE Sorted'
    <3>1. crashes = 0
      BY <1>1, <2>6
    <3>2. \A i \in 1 .. Len(queue') : queue'[i] \in Nat /\ queue'[i] > 0
      <4>1. queue' \in Seq(1 .. added)
        BY <1>6
      <4>2. \A i \in 1 .. Len(queue') : queue'[i] \in 1 .. added
        BY <4>1, ElementOfSeq
      <4>3. QED
        BY <1>2, <4>2
    <3>3. \A i \in 1 .. Len(queue'), v \in Variables : writing'[Worker][v] < queue'[i]
      BY <1>9, <2>1, <3>1, <3>2
    <3>4. \A i \in 1 .. Len(queue'), v \in Variables, p \in Procs : writing'[p][v] < queue'[i]
      BY <1>9, <2>1, <3>1, <3>3
    <3>5. Len(updates') = 0
      BY <2>1
    <3>6. QED
      BY <1>1, <1>9, <3>1, <3>4, <3>5 DEF Sorted
  <2>7. Alone'
    <3> SUFFICES ASSUME Writing = {}, alone' = {Worker}
                 PROVE  Writing' = {Worker} /\ (crashes = 0 =>
                          \A v \in Variables : writing'[Worker][v] = 0 \/ db[v] < writing'[Worker][v])
      BY <1>1, <1>10 DEF Alone, Begin
    <3>1. Writing' = {Worker}
      BY <2>1
    <3>2. ASSUME crashes = 0
          PROVE  \A k \in 1 .. Len(pushed), v \in Variables : db[v] < pushed[k]
      BY <1>9, <3>2
    <3>3. QED
      BY <2>1, <3>1, <3>2
  <2>8. QED
    BY <2>2, <2>3, <2>4, <2>5, <2>6, <2>7
<1>11. CASE /\ at' = [at EXCEPT ![Worker] = "complete"]
            /\ updates' = pushed
            /\ UNCHANGED <<writing, alone>>
  <2>1. at' \in [Procs -> Point] /\ at'[Worker] = "complete" /\ Writing' = Writing
        /\ \A q \in Procs \ {Worker} : at'[q] = at[q]
    BY <1>3, <1>4, <1>11 DEF TypeOK, Point, Writing
  <2>2. TypeOK'
    BY <1>1, <1>2, <1>6, <1>8, <1>11, <2>1 DEF TypeOK
  <2>3. Places'
    BY <1>1, <1>2, <1>3, <1>11, <2>1 DEF Places
  <2>4. Pushed'
    <3> SUFFICES ASSUME NEW v \in Variables, last'[v] = 0
                 PROVE  /\ db[v] = 0 /\ \A p \in Procs : writing[p][v] = 0
                        /\ \A k \in 1 .. Len(pushed) : v \notin carries[pushed[k]]
      BY <1>1, <1>11 DEF Pushed
    <3>1. v \notin carries[n] /\ last[v] = 0
      BY <1>2, <1>8
    <3>2. QED
      BY <1>2, <1>5, <3>1 DEF Pushed
  <2>5. LastValueKept'
    <3>1. \A v \in Variables : Latest(updates, v)' = Latest(pushed, v)
      BY <1>1, <1>11 DEF Latest, Positions
    <3>2. QED
      BY <1>1, <1>7, <1>8, <1>11, <2>1, <3>1 DEF LastValueKept
  <2>6. ASSUME crashes' = 0 PROVE Sorted'
    BY <1>1, <1>9, <1>11, <2>6 DEF Sorted
  <2>7. Alone'
    BY <1>1, <1>11, <2>1 DEF Alone
  <2>8. QED
    BY <2>2, <2>3, <2>4, <2>5, <2>6, <2>7
<1>12. QED
  BY <1>1, <1>10, <1>11 DEF n, pushed

\* Every step of the worker, its timer, its shutdown and its queue preserves
\* the invariant.
LEMMA NextIInv == IInv /\ [Next]_vars => IInv'
<1> SUFFICES ASSUME IInv, [Next]_vars PROVE IInv'
  OBVIOUS
<1>1. ASSUME NEW S \in (SUBSET Variables) \ {{}}, Add(S) PROVE IInv'
  BY <1>1, AddKeeps
<1>2. ASSUME NEW p \in Procs, WriteEnds(p) PROVE IInv'
  BY <1>2, WriteSucceedsKeeps, WriteFailsKeeps DEF WriteEnds
<1>3. ASSUME NEW t \in Ticks, Tick(t) PROVE IInv'
  BY <1>3, TickKeeps
<1>4. CASE TakeJob \/ CompleteJob \/ Shutdown \/ FinalFlush
  BY <1>4, TakeJobKeeps, CompleteJobKeeps, ShutdownKeeps, FinalFlushKeeps
<1>5. CASE Exit \/ Crash
  BY <1>5, RestartKeeps DEF Exit, Crash
<1>6. ASSUME NEW n \in stalled, Redeliver(n) PROVE IInv'
  BY <1>6, RedeliverKeeps
<1>7. CASE UNCHANGED vars
  <2>1. Pushed' /\ LastValueKept' /\ (crashes' = 0 => Sorted') /\ Alone'
    BY <1>7, ValuesSame DEF vars, queueVars, lifeVars, Writing
  <2>2. TypeOK' /\ Places'
    BY <1>7 DEF IInv, TypeOK, Places, Writing, vars, queueVars, lifeVars
  <2>3. QED
    BY <2>1, <2>2 DEF IInv
<1>8. QED
  BY <1>1, <1>2, <1>3, <1>4, <1>5, <1>6, <1>7 DEF Next, WorkerStep

-----------------------------------------------------------------------------
(* What follows *)

\* The invariant holds of every behaviour of the worker.
LEMMA SpecIInv == Spec => []IInv
BY InitIInv, NextIInv, PTL DEF Spec

\* The variables of the worker keep their types (variable.worker.ts).
THEOREM UpdateTypes == Spec => []TypeOK
<1>1. IInv => TypeOK
  BY DEF IInv
<1>2. QED
  BY <1>1, SpecIInv, PTL

\* The last value pushed for a variable is in the table, in the array or in an
\* UPDATE in flight, unless an error, a restart or an older UPDATE cost it
\* (variable.worker.ts, process and flush).
THEOREM LastValuesKept == Spec => []LastValueKept
<1>1. IInv => LastValueKept
  BY DEF IInv
<1>2. QED
  BY <1>1, SpecIInv, PTL

\* Nothing is left in the array of a worker that has stopped, whatever was in
\* flight when it was told to (variable.worker.ts, onApplicationShutdown).
THEOREM NothingLeft == Spec => []StoppedEmpty
<1>1. IInv => StoppedEmpty
  <2> SUFFICES ASSUME IInv, phase = "stopped" PROVE updates = <<>> /\ Writing \subseteq Ticks
    BY DEF StoppedEmpty
  <2>1. updates = <<>> /\ at[Worker] = "idle" /\ at[Closer] = "idle"
    BY DEF IInv, Places
  <2>2. QED
    BY <2>1, ProcsApart DEF Writing
<1>2. QED
  BY <1>1, SpecIInv, PTL

\* A flush that was alone in flight never replaces a value by an older one, as
\* long as the queue hands out each job once (variable.worker.ts, flush).
THEOREM AloneInOrder == Spec => NoStaleOverwrite
<1>1. ASSUME IInv, Next, NEW p \in alone, crashes = 0, at[p] = "write", at'[p] # "write",
             NEW v \in Variables
      PROVE  db'[v] >= db[v]
  <2>1. p \in Procs /\ Writing = {p} /\ (writing[p][v] = 0 \/ db[v] < writing[p][v])
        /\ db[v] \in Nat /\ writing[p][v] \in Nat
    BY <1>1, UpdateAssumption DEF IInv, Alone, TypeOK
  <2>2. CASE db'[v] = db[v]
    BY <2>1, <2>2
  <2>3. ASSUME NEW q \in Procs, WriteSucceeds(q) PROVE db'[v] >= db[v]
    <3>1. q = p
      BY <2>1, <2>3 DEF WriteSucceeds, Writing
    <3>2. db'[v] = IF writing[p][v] # 0 THEN writing[p][v] ELSE db[v]
      BY <2>3, <3>1 DEF WriteSucceeds
    <3>3. QED
      BY <2>1, <3>2
  <2>4. CASE UNCHANGED db
    BY <2>1, <2>4
  <2>5. QED
    BY <1>1, <2>3, <2>4 DEF Next, WorkerStep, Add, TakeJob, CompleteJob, WriteEnds, WriteFails, Tick, Shutdown,
       FinalFlush, Exit, Crash, Restart, Redeliver
<1>2. IInv /\ [Next]_vars =>
        [\A p \in alone : crashes = 0 /\ at[p] = "write" /\ at'[p] # "write" =>
           \A v \in Variables : db'[v] >= db[v]]_vars
  BY <1>1
<1>3. QED
  BY <1>2, SpecIInv, PTL DEF Spec, NoStaleOverwrite

-----------------------------------------------------------------------------
(* The invariant of the listener *)

\* The listener's own part of the type invariant.
PacketTypes ==
    /\ pc \in [Packets -> At]
    /\ reply \in [Packets -> {"none", "pending", "done"}]
    /\ cached \in BOOLEAN /\ deaf \in BOOLEAN
    /\ jobOf \in [Packets -> 0 .. added]
    /\ live \subseteq Packets /\ shown \subseteq Packets
    /\ dlq \subseteq Packets /\ dropped \subseteq Packets

\* How far a packet that is still on its way has come.
OnItsWay ==
    \A p \in Packets :
        /\ pc[p] \in {"expire", "add", "alarm"} => p \in live
        /\ pc[p] = "alarm" => jobOf[p] # 0
        /\ jobOf[p] # 0 => carries[jobOf[p]] = Holds[p]

TelemetryIInv == TypeOK /\ PacketTypes /\ OnItsWay /\ ShownIsKept

-----------------------------------------------------------------------------
(* The listener is an environment of VariableUpdate *)

\* Every step of the whole is a step of VariableUpdate, or changes none of its
\* variables.
LEMMA StepIsWorkerStep == [TelemetryNext]_telemetryVars => [Next]_vars
<1> SUFFICES ASSUME TelemetryNext PROVE Next \/ UNCHANGED vars
  BY DEF telemetryVars
<1>1. ASSUME NEW p \in Packets, AddUpdate(p) PROVE Next
  <2>1. Holds[p] \in (SUBSET Variables) \ {{}} /\ Add(Holds[p])
    BY <1>1, TelemetryAssumption DEF AddUpdate
  <2>2. QED
    BY <2>1 DEF Next
<1>2. ASSUME NEW p \in Packets, Handle(p), ~ AddUpdate(p) PROVE UNCHANGED vars
  BY <1>2 DEF Handle, ReadGlobal, ReadConfig, FetchConfig, StoreConfig, FailMessage, Emit, Count,
     FailEvent, SetLive, ExpireLive, AddAlarm, FailJob
<1>3. ASSUME NEW p \in Packets, Arrive(p) \/ Ignore(p) \/ Answer(p) PROVE UNCHANGED vars
  BY <1>3 DEF Arrive, Ignore, Answer, Reply, FailReply
<1>4. CASE Destroy \/ ExpireConfig
  BY <1>4 DEF Destroy, ExpireConfig
<1>5. CASE WorkerStep \/ Shutdown \/ Exit \/ Crash
  BY <1>5 DEF Next
<1>6. QED
  BY <1>1, <1>2, <1>3, <1>4, <1>5 DEF TelemetryNext

\* The path does nothing to the worker but what the worker's own specification has
\* (telemetry.listener.ts is the only producer of the queue variable.worker.ts
\* consumes), so that its theorems hold of the path.
LEMMA PathIsWorker == TelemetrySpec => Spec
<1>1. TelemetryInit => Init
  BY DEF TelemetryInit
<1>2. QED
  BY <1>1, StepIsWorkerStep, PTL DEF TelemetrySpec, Spec

\* So the last value pushed for a variable falls between no two batches, for any
\* packets, faults, crashes and shutdowns of the path as a whole.
THEOREM PathKeepsLastValues == TelemetrySpec => []LastValueKept
BY PathIsWorker, LastValuesKept

-----------------------------------------------------------------------------
(* What is shown is kept *)

\* The initial states satisfy the invariant.
LEMMA InitTelemetry == TelemetryInit => PacketTypes /\ OnItsWay /\ ShownIsKept
<1> SUFFICES ASSUME TelemetryInit PROVE PacketTypes /\ OnItsWay /\ ShownIsKept
  OBVIOUS
<1>1. added = 0 /\ 0 \in 0 .. added
  BY DEF TelemetryInit, Init
<1>2. PacketTypes
  BY <1>1 DEF TelemetryInit, PacketTypes, At
<1>3. QED
  BY <1>2 DEF TelemetryInit, OnItsWay, ShownIsKept

\* A handler's step keeps it.
LEMMA HandlerKeeps ==
    ASSUME TelemetryIInv, NEW p \in Packets, Arrive(p) \/ Ignore(p) \/ Handle(p) \/ Answer(p)
    PROVE  PacketTypes' /\ OnItsWay' /\ ShownIsKept'
<1> USE DEF TelemetryIInv, MoveTo
<1>1. CASE AddUpdate(p)
  <2> USE DEF AddUpdate, Add
  <2>1. added \in Nat /\ added + 1 \in Jobs /\ \A n \in 1 .. added : n # added + 1 /\ n \in Jobs
    BY <1>1, UpdateAssumption DEF TypeOK, Jobs
  <2>2. carries'[added + 1] = Holds[p] /\ \A n \in 1 .. added : carries'[n] = carries[n]
    BY <1>1, <2>1 DEF TypeOK
  <2>3. \A q \in Packets : jobOf[q] # 0 => jobOf[q] \in 1 .. added
    BY <2>1 DEF PacketTypes
  <2>4. jobOf'[p] = added + 1 /\ \A q \in Packets \ {p} : jobOf'[q] = jobOf[q]
    BY <1>1 DEF PacketTypes
  <2>5. pc'[p] = "alarm" /\ \A q \in Packets \ {p} : pc'[q] = pc[q]
    BY <1>1 DEF PacketTypes
  <2>6. PacketTypes'
    <3>1. added' = added + 1 /\ 0 .. added \subseteq 0 .. added'
      BY <1>1, <2>1
    <3>2. QED
      BY <1>1, <2>1, <3>1 DEF PacketTypes, At
  <2>7. OnItsWay'
    BY <1>1, <2>1, <2>2, <2>3, <2>4, <2>5 DEF OnItsWay
  <2>8. ShownIsKept'
    <3> SUFFICES ASSUME NEW q \in shown
                 PROVE  q \in live /\ (q \in dlq \/ (jobOf'[q] # 0 /\ carries'[jobOf'[q]] = Holds[q]))
      BY <1>1 DEF ShownIsKept
    <3>1. q \in Packets
      BY DEF PacketTypes
    <3>2. CASE q = p
      BY <2>1, <2>2, <2>4, <3>2 DEF ShownIsKept
    <3>3. CASE q # p
      BY <2>2, <2>3, <2>4, <3>1, <3>3 DEF ShownIsKept
    <3>4. QED
      BY <3>2, <3>3
  <2>9. QED
    BY <2>6, <2>7, <2>8
<1>2. CASE AddAlarm(p) \/ FailJob(p)
  <2> USE DEF AddAlarm, FailJob, Show
  <2>1. UNCHANGED <<vars, jobOf, live, cached, deaf, reply, dropped>> /\ shown' = shown \cup {p}
        /\ pc[p] \in {"add", "alarm"} /\ dlq \subseteq dlq' /\ dlq' \subseteq Packets
        /\ (pc[p] = "alarm" \/ p \in dlq')
    BY <1>2 DEF PacketTypes
  <2>2. pc' \in [Packets -> At] /\ pc'[p] = "done" /\ \A q \in Packets \ {p} : pc'[q] = pc[q]
    BY <1>2 DEF PacketTypes, At
  <2>3. QED
    BY <2>1, <2>2 DEF PacketTypes, OnItsWay, ShownIsKept, vars, queueVars
<1>3. CASE Arrive(p) \/ Ignore(p) \/ Answer(p)
  BY <1>3 DEF Arrive, Ignore, Answer, Reply, FailReply, PacketTypes, OnItsWay, ShownIsKept, At,
     vars, queueVars
<1>4. CASE ReadGlobal(p) \/ FailMessage(p) \/ FetchConfig(p) \/ FailEvent(p) \/ ExpireLive(p)
  BY <1>4 DEF ReadGlobal, FailMessage, FetchConfig, FailEvent, ExpireLive, PacketTypes, OnItsWay,
     ShownIsKept, At, vars, queueVars
<1>5. CASE Count(p) \/ SetLive(p)
  BY <1>5 DEF Count, SetLive, PacketTypes, OnItsWay, ShownIsKept, At, vars, queueVars
<1>6. CASE ReadConfig(p) \/ StoreConfig(p)
  <2>1. UNCHANGED <<vars, jobOf, live, shown, dlq, deaf>> /\ cached' \in BOOLEAN
        /\ dropped' \subseteq Packets /\ reply' \in [Packets -> {"none", "pending", "done"}]
    BY <1>6 DEF ReadConfig, StoreConfig, Emit, PacketTypes
  <2>2. pc' \in [Packets -> At] /\ pc'[p] \in {"done", "count", "fetch"}
        /\ \A q \in Packets \ {p} : pc'[q] = pc[q]
    BY <1>6 DEF ReadConfig, StoreConfig, Emit, PacketTypes, At
  <2>3. QED
    BY <2>1, <2>2 DEF PacketTypes, OnItsWay, ShownIsKept, vars, queueVars
<1>7. QED
  BY <1>1, <1>2, <1>3, <1>4, <1>5, <1>6 DEF Handle

\* And so does every other step.
LEMMA TelemetryStepKeeps ==
    TelemetryIInv /\ [TelemetryNext]_telemetryVars => PacketTypes' /\ OnItsWay' /\ ShownIsKept'
<1> SUFFICES ASSUME TelemetryIInv, [TelemetryNext]_telemetryVars
             PROVE  PacketTypes' /\ OnItsWay' /\ ShownIsKept'
  OBVIOUS
<1>1. CASE UNCHANGED <<packetVars, cached, added, carries>> /\ deaf' \in BOOLEAN
  BY <1>1 DEF TelemetryIInv, PacketTypes, OnItsWay, ShownIsKept, packetVars
<1>2. CASE ExpireConfig
  BY <1>2 DEF ExpireConfig, TelemetryIInv, PacketTypes, OnItsWay, ShownIsKept, packetVars, vars, queueVars
<1>3. CASE (Exit \/ Crash) /\ HandlersDie
  BY <1>3 DEF Exit, Crash, Restart, HandlersDie, TelemetryIInv, PacketTypes, OnItsWay, ShownIsKept, At
<1>4. WorkerStep \/ Shutdown => UNCHANGED <<added, carries>>
  BY DEF WorkerStep, Shutdown, TakeJob, CompleteJob, WriteEnds, WriteSucceeds, WriteFails, End, Tick,
     FinalFlush, Redeliver, queueVars
<1>5. Destroy => UNCHANGED <<packetVars, cached, added, carries>> /\ deaf' \in BOOLEAN
  BY DEF Destroy, vars, queueVars
<1>6. deaf \in BOOLEAN
  BY DEF TelemetryIInv, PacketTypes
<1>7. UNCHANGED telemetryVars => UNCHANGED <<packetVars, cached, added, carries>> /\ deaf' \in BOOLEAN
  BY <1>6 DEF telemetryVars, vars, queueVars
<1>8. QED
  BY <1>1, <1>2, <1>3, <1>4, <1>5, <1>6, <1>7, HandlerKeeps DEF TelemetryNext

\* The invariant holds of every behaviour of the path.
LEMMA SpecTelemetryIInv == TelemetrySpec => []TelemetryIInv
<1>1. TelemetrySpec => []TypeOK
  BY PathIsWorker, UpdateTypes
<1>2. TypeOK /\ (PacketTypes /\ OnItsWay /\ ShownIsKept) /\ [TelemetryNext]_telemetryVars
        => (PacketTypes /\ OnItsWay /\ ShownIsKept)'
  BY TelemetryStepKeeps DEF TelemetryIInv
<1>3. QED
  BY <1>1, <1>2, InitTelemetry, PTL DEF TelemetrySpec, TelemetryIInv

\* The variables of the path keep their types (data-source.service.ts,
\* telemetry.listener.ts, variable.worker.ts).
THEOREM TelemetryTypes == TelemetrySpec => []TelemetryTypeOK
<1>1. TelemetryIInv => TelemetryTypeOK
  BY DEF TelemetryIInv, PacketTypes, TelemetryTypeOK
<1>2. QED
  BY <1>1, SpecTelemetryIInv, PTL

\* What the screens show is in the queue of the database or in the dead letter
\* file (telemetry.listener.ts, handleTelemetryUpdated).
THEOREM ShownAlwaysKept == TelemetrySpec => []ShownIsKept
<1>1. TelemetryIInv => ShownIsKept
  BY DEF TelemetryIInv
<1>2. QED
  BY <1>1, SpecTelemetryIInv, PTL

=============================================================================
