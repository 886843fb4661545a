--------------------------- MODULE VariableUpdate ---------------------------
(***************************************************************************)
(* VariableWorker: batch-update jobs are pushed to one in-memory array,    *)
(* which a full array, a 500 ms timer and the shutdown hook flush to the   *)
(* table reading_variable.  Nothing keeps the flushes apart: each takes    *)
(* the array and suspends on its UPDATE, and the database may carry out    *)
(* the UPDATEs that are in flight in any order.  A value is named by the   *)
(* job that brought it; jobs are numbered in the order they are queued.    *)
(***************************************************************************)
EXTENDS Integers, Sequences, FiniteSets, FiniteSetsExt

CONSTANTS
    Variables,   \* reading variables
    MaxJobs,     \* bound: how many batch-update jobs are ever added
    Worker,      \* the worker's only slot: concurrency 1
    Ticks,       \* timer callbacks that may overlap
    Closer,      \* onApplicationShutdown
    BatchSize,   \* BATCH_SIZE: 50 in the code
    DbFails,     \* whether the UPDATE may still fail after its retries
    MaxStops,    \* bound: how often the process is shut down
    MaxCrashes   \* bound: how often it dies

Procs == {Worker, Closer} \cup Ticks
Jobs == 1 .. MaxJobs

ASSUME UpdateAssumption ==
    /\ Worker # Closer /\ Worker \notin Ticks /\ Closer \notin Ticks
    /\ IsFiniteSet(Variables)
    /\ BatchSize \in Nat \ {0}
    /\ DbFails \in BOOLEAN
    /\ MaxJobs \in Nat /\ MaxStops \in Nat /\ MaxCrashes \in Nat

VARIABLES
    added,     \* how many jobs have been added
    queue,     \* the jobs that wait
    stalled,   \* the jobs that were active when the process died
    carries,   \* the variables a job has a value for
    job,       \* the job the worker runs, or 0
    at,        \* where the worker, a callback or the hook is suspended
    updates,   \* the array, by the jobs whose entries it holds
    writing,   \* per flush in flight: the value its UPDATE sets, or 0
    db,        \* reading_variable.value
    phase, stops, crashes,
    (* What happened to the values, for the properties: *)
    last,      \* the last value pushed for a variable
    lost,      \* variables whose last value was dropped or overwritten
    alone      \* flushes no other flush has been in flight with

queueVars == <<added, queue, stalled, carries>>
lifeVars == <<phase, stops, crashes>>
vars == <<queueVars, job, at, updates, writing, db, lifeVars, last, lost, alone>>

\* "write": the UPDATE is in flight; "complete": process() has returned.
Point == {"idle", "write", "complete"}

TypeOK ==
    /\ added \in 0 .. MaxJobs
    /\ queue \in Seq(1 .. added)
    /\ stalled \in SUBSET (1 .. added)
    /\ carries \in [Jobs -> SUBSET Variables]
    /\ job \in 0 .. added
    /\ at \in [Procs -> Point]
    /\ updates \in Seq(1 .. added)
    /\ writing \in [Procs -> [Variables -> 0 .. added]]
    /\ db \in [Variables -> 0 .. added]
    /\ phase \in {"up", "closing", "final", "stopped"}
    /\ stops \in Nat /\ crashes \in Nat
    /\ last \in [Variables -> 0 .. added]
    /\ lost \in SUBSET Variables
    /\ alone \in SUBSET Procs

None == [v \in Variables |-> 0]
Writing == {p \in Procs : at[p] = "write"}

Init ==
    /\ added = 0 /\ queue = <<>> /\ stalled = {} /\ job = 0
    /\ carries = [n \in Jobs |-> {}]
    /\ at = [p \in Procs |-> "idle"]
    /\ updates = <<>>
    /\ writing = [p \in Procs |-> None]
    /\ db = None
    /\ phase = "up" /\ stops = 0 /\ crashes = 0
    /\ last = None /\ lost = {} /\ alone = {}

-----------------------------------------------------------------------------
(* flush() *)

\* The entries of a batch that are for v.
Positions(batch, v) == {i \in DOMAIN batch : v \in carries[batch[i]]}

\* The value the Map keeps for v: that of its last entry in the batch.
Latest(batch, v) ==
    IF Positions(batch, v) = {} THEN 0 ELSE batch[Max(Positions(batch, v))]

\* flush takes the whole batch and suspends on the UPDATE.
Begin(p, batch) ==
    /\ at' = [at EXCEPT ![p] = "write"]
    /\ writing' = [writing EXCEPT ![p] = [v \in Variables |-> Latest(batch, v)]]
    /\ updates' = <<>>
    /\ alone' = IF Writing = {} THEN {p} ELSE {}

\* Where the caller of flush goes on.
End(p) ==
    /\ at' = [at EXCEPT ![p] = IF p = Worker THEN "complete" ELSE "idle"]
    /\ writing' = [writing EXCEPT ![p] = None]
    /\ alone' = alone \ {p}
    /\ phase' = IF p = Closer THEN "stopped" ELSE phase
    /\ UNCHANGED <<queueVars, job, stops, crashes, last>>

\* Mutant: the array is reset when the UPDATE is done.
WriteThenReset(p) ==
    /\ at[p] = "write"
    /\ End(p)
    /\ db' = [v \in Variables |-> IF writing[p][v] # 0 THEN writing[p][v] ELSE db[v]]
    /\ lost' = lost \cup {v \in Variables : db[v] = last[v] /\ db'[v] # last[v]}
    /\ updates' = <<>>

\* The UPDATE sets every variable of the batch.
WriteSucceeds(p) ==
    /\ at[p] = "write"
    /\ End(p)
    /\ db' = [v \in Variables |-> IF writing[p][v] # 0 THEN writing[p][v] ELSE db[v]]
    /\ lost' = lost \cup {v \in Variables : db[v] = last[v] /\ db'[v] # last[v]}
    /\ UNCHANGED updates

\* Mutant: what could not be written is put back, behind what came since.
Requeue(p) ==
    /\ DbFails
    /\ at[p] = "write"
    /\ End(p)
    /\ \E v \in {u \in Variables : writing[p][u] # 0} : updates' = Append(updates, writing[p][v])
    /\ UNCHANGED <<db, lost>>

\* The error is caught and the batch is gone.
WriteFails(p) ==
    /\ DbFails
    /\ at[p] = "write"
    /\ End(p)
    /\ lost' = lost \cup {v \in Variables : writing[p][v] = last[v] /\ db[v] # last[v]}
    /\ UNCHANGED <<db, updates>>

-----------------------------------------------------------------------------
(* process() *)

\* How many entries the array has: one per variable that a job carries.
Size(batch) == Cardinality({e \in (DOMAIN batch) \X Variables : e[2] \in carries[batch[e[1]]]})

\* The worker takes a job, process() pushes its entries, and flushes if the
\* array has become full.
TakeJob ==
    /\ phase = "up"
    /\ at[Worker] = "idle"
    /\ queue # <<>>
    /\ LET n == Head(queue)
           pushed == Append(updates, n)
       IN  /\ queue' = Tail(queue)
           /\ job' = n
           /\ last' = [v \in Variables |-> IF v \in carries[n] THEN n ELSE last[v]]
           /\ lost' = lost \ carries[n]
           /\ IF Size(pushed) >= BatchSize
              THEN Begin(Worker, pushed)
              ELSE /\ at' = [at EXCEPT ![Worker] = "complete"]
                   /\ updates' = pushed
                   /\ UNCHANGED <<writing, alone>>
    /\ UNCHANGED <<added, stalled, carries, db, lifeVars>>

\* The queue learns that the job is done, and forgets it.
CompleteJob ==
    /\ at[Worker] = "complete"
    /\ at' = [at EXCEPT ![Worker] = "idle"]
    /\ job' = 0
    /\ UNCHANGED <<queueVars, updates, writing, db, lifeVars, last, lost, alone>>

-----------------------------------------------------------------------------
(* The timer, shutdown, crash and restart *)

\* Mutant: the timer flushes full batches only.
TickWhenFull(t) ==
    /\ phase = "up"
    /\ at[t] = "idle"
    /\ IF Size(updates) < BatchSize
       THEN UNCHANGED <<at, updates, writing, alone>> ELSE Begin(t, updates)
    /\ UNCHANGED <<queueVars, job, db, lifeVars, last, lost>>

\* The timer calls flush, which returns at once if there is nothing to write.
Tick(t) ==
    /\ phase = "up"
    /\ at[t] = "idle"
    /\ IF updates = <<>> THEN UNCHANGED <<at, updates, writing, alone>> ELSE Begin(t, updates)
    /\ UNCHANGED <<queueVars, job, db, lifeVars, last, lost>>

\* onApplicationShutdown stops the timer; worker.close() lets no job be taken
\* any more and waits for the one that is active.
Shutdown ==
    /\ phase = "up" /\ stops < MaxStops
    /\ phase' = "closing"
    /\ stops' = stops + 1
    /\ UNCHANGED <<queueVars, job, at, updates, writing, db, crashes, last, lost, alone>>

\* Mutant: the final flush is skipped while another is in flight.
FinalFlushUnlessBusy ==
    /\ phase = "closing"
    /\ at[Worker] = "idle"
    /\ IF updates = <<>> \/ Writing # {}
       THEN phase' = "stopped" /\ UNCHANGED <<at, updates, writing, alone>>
       ELSE phase' = "final" /\ Begin(Closer, updates)
    /\ UNCHANGED <<queueVars, job, db, stops, crashes, last, lost>>

FinalFlush ==
    /\ phase = "closing"
    /\ at[Worker] = "idle"
    /\ IF updates = <<>>
       THEN phase' = "stopped" /\ UNCHANGED <<at, updates, writing, alone>>
       ELSE phase' = "final" /\ Begin(Closer, updates)
    /\ UNCHANGED <<queueVars, job, db, stops, crashes, last, lost>>

\* The job that the process leaves active, if there is one.
Stalls == {job} \ {0}

\* The process is gone and starts again: its memory is lost and an active job
\* stalls.  An UPDATE that reached the database all the same is one that
\* succeeded just before.
Restart ==
    /\ stalled' = stalled \cup Stalls
    /\ job' = 0
    /\ at' = [p \in Procs |-> "idle"]
    /\ updates' = <<>>
    /\ writing' = [p \in Procs |-> None]
    /\ alone' = {}
    /\ phase' = "up"
    /\ lost' = lost \cup {v \in Variables : db[v] # last[v]}
    /\ UNCHANGED <<added, queue, carries, db, stops, last>>

\* process.exit(0) once every hook has run.
Exit == phase = "stopped" /\ Restart /\ UNCHANGED crashes

\* A crash at any moment; or process.exit(1) when shutting down takes 15 s.
Crash == crashes < MaxCrashes /\ crashes' = crashes + 1 /\ Restart

-----------------------------------------------------------------------------

\* TelemetryListener adds a job with the values of the variables of S.
Add(S) ==
    /\ added < MaxJobs
    /\ added' = added + 1
    /\ carries' = [carries EXCEPT ![added + 1] = S]
    /\ queue' = Append(queue, added + 1)
    /\ UNCHANGED <<stalled, job, at, updates, writing, db, lifeVars, last, lost, alone>>

\* The queue hands a stalled job out again, before the others; or it fails the
\* job, if it stalled before.
Redeliver(n) ==
    /\ n \in stalled
    /\ stalled' = stalled \ {n}
    /\ queue' = <<n>> \o queue \/ UNCHANGED queue
    /\ UNCHANGED <<added, carries, job, at, updates, writing, db, lifeVars, last, lost, alone>>

WriteEnds(p) == WriteSucceeds(p) \/ WriteFails(p)

\* What the worker, its timer, its shutdown and its queue do.
WorkerStep ==
    \/ TakeJob \/ CompleteJob
    \/ \E p \in Procs : WriteEnds(p)
    \/ \E t \in Ticks : Tick(t)
    \/ FinalFlush
    \/ \E n \in stalled : Redeliver(n)

Next ==
    \/ \E S \in (SUBSET Variables) \ {{}} : Add(S)
    \/ WorkerStep
    \/ Shutdown \/ Exit \/ Crash

Spec == Init /\ [][Next]_vars

-----------------------------------------------------------------------------
(* Properties *)

\* As long as jobs are not handed out twice, a flush replaces a value by an
\* older one only if another flush was in flight with it: within a batch, and
\* from one batch to the next, the order of the queue is kept.
NoStaleOverwrite ==
    [][\A p \in alone : crashes = 0 /\ at[p] = "write" /\ at'[p] # "write" =>
          \A v \in Variables : db'[v] >= db[v]]_vars

\* The last value pushed for a variable is in the table, in the array (where
\* nothing comes after it) or in an UPDATE in flight, unless its batch was
\* dropped by an error or a restart or an older UPDATE came after its own: no
\* await of flush lets a push fall between two batches.
LastValueKept ==
    \A v \in Variables \ lost :
        \/ db[v] = last[v]
        \/ Latest(updates, v) = last[v]
        \/ \E p \in Writing : writing[p][v] = last[v]

\* Once the worker has stopped, the array is empty, and its own and the final
\* flush are done (variable.worker.ts:36 "Perform final flush").  An UPDATE the
\* timer began may still be in flight: the hook does not wait for it.
StoppedEmpty == phase = "stopped" => updates = <<>> /\ Writing \subseteq Ticks

=============================================================================
