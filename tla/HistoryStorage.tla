--------------------------- MODULE HistoryStorage ---------------------------
(***************************************************************************)
(* HistoryStorageWorker: store-history jobs are pushed to one of two       *)
(* in-memory batches, which a full batch, a timer and the shutdown hook    *)
(* flush to the database.  The slots of the worker, the callbacks of the   *)
(* timer and the shutdown hook run on one event loop and interleave at     *)
(* their awaits; a flag per batch is to keep their flushes apart.          *)
(***************************************************************************)
EXTENDS Integers, FiniteSets

CONSTANTS
    Entries,     \* the samples to store, one store-history job each
    Loads,       \* which of them may come
    LaneOf,      \* the batch an entry goes to: by its historyType
    Slots,       \* the worker's concurrency: 10 in the code
    Ticks,       \* timer callbacks that may overlap
    Closer,      \* onApplicationShutdown
    BatchSize,   \* BATCH_SIZE: 500 in the code
    DbFails,     \* whether createMany may reject
    MaxStops,    \* bound: how often the process is shut down
    MaxCrashes   \* bound: how often it dies

Lanes == {"history", "utility"}
Procs == Slots \cup Ticks \cup {Closer}

ASSUME StorageAssumption ==
    /\ LaneOf \in [Entries -> Lanes] /\ Loads \subseteq SUBSET Entries
    /\ IsFiniteSet(Slots)
    /\ Slots \cap Ticks = {} /\ Closer \notin Slots \cup Ticks
    /\ BatchSize \in Nat \ {0}
    /\ DbFails \in BOOLEAN
    /\ MaxStops \in Nat /\ MaxCrashes \in Nat

VARIABLES
    fresh,     \* entries a job will be added for
    waiting,   \* entries whose job waits in the queue
    stalled,   \* entries whose job was active when the process died
    job,       \* the entry whose job a slot runs, as a set
    at,        \* where a slot, a callback or the hook is suspended
    lane,      \* the batch it is concerned with there
    batch,     \* historyBatch and utilityBatch; HeldOnce shows them to be sets
    flushing,  \* flushingHistory and flushingUtility
    writing,   \* the copied batch a flush has handed to createMany
    rows,      \* how often an entry was written to its table
    phase,     \* of the worker
    stops, crashes

vars == <<fresh, waiting, stalled, job, at, lane, batch, flushing, writing, rows,
          phase, stops, crashes>>
queueVars == <<fresh, waiting, stalled>>
lifeVars == <<phase, stops, crashes>>

\* "wait": polling for the flag; "flush": about to call flush;
\* "write": createMany in flight; "after": flush has returned;
\* "complete": process() has returned and the job is being completed.
Point == {"idle", "wait", "flush", "write", "after", "complete"}

TypeOK ==
    /\ fresh \in SUBSET Entries
    /\ waiting \in SUBSET Entries
    /\ stalled \in SUBSET Entries
    /\ job \in [Slots -> SUBSET Entries]
    /\ at \in [Procs -> Point]
    /\ lane \in [Procs -> Lanes]
    /\ batch \in [Lanes -> SUBSET Entries]
    /\ flushing \in [Lanes -> BOOLEAN]
    /\ writing \in [Procs -> SUBSET Entries]
    /\ rows \in [Entries -> Nat]
    /\ phase \in {"up", "closing", "final", "stopped"}
    /\ stops \in Nat /\ crashes \in Nat

Empty == [l \in Lanes |-> {}]

Init ==
    /\ fresh \in Loads
    /\ waiting = {} /\ stalled = {}
    /\ job = [w \in Slots |-> {}]
    /\ at = [p \in Procs |-> "idle"]
    /\ lane = [p \in Procs |-> "history"]
    /\ batch = Empty
    /\ flushing = [l \in Lanes |-> FALSE]
    /\ writing = [p \in Procs |-> {}]
    /\ rows = [e \in Entries |-> 0]
    /\ phase = "up" /\ stops = 0 /\ crashes = 0

Goto(p, point, l) ==
    /\ at' = [at EXCEPT ![p] = point]
    /\ lane' = [lane EXCEPT ![p] = l]

\* createMany has inserted the entries of S.
Written(S) == rows' = [e \in Entries |-> IF e \in S THEN rows[e] + 1 ELSE rows[e]]

-----------------------------------------------------------------------------
(* flushHistory and flushUtility *)

\* Mutant: flush does not look at its flag.
SkipsEmpty(l) == batch[l] = {}

\* flush returns at once if one is in flight or there is nothing to flush.
Skips(l) == flushing[l] \/ batch[l] = {}

\* Mutant: the batch is copied and not reset.
Keep(l) == UNCHANGED batch

\* The batch is replaced by an empty one.
Reset(l) == batch' = [batch EXCEPT ![l] = {}]

\* flush is called by p: unless it skips, it takes the batch and suspends on
\* createMany.
Flush(p, l) ==
    IF Skips(l)
    THEN Goto(p, "after", l) /\ UNCHANGED <<flushing, writing, batch>>
    ELSE /\ Goto(p, "write", l)
         /\ flushing' = [flushing EXCEPT ![l] = TRUE]
         /\ writing' = [writing EXCEPT ![p] = batch[l]]
         /\ Reset(l)

EndWrite(p) ==
    /\ at[p] = "write"
    /\ Goto(p, "after", lane[p])
    /\ flushing' = [flushing EXCEPT ![lane[p]] = FALSE]
    /\ writing' = [writing EXCEPT ![p] = {}]
    /\ UNCHANGED <<queueVars, job, batch, lifeVars>>

\* Mutant: no finally, so the flag stays up when createMany rejects.
FailsRaised(p) ==
    /\ DbFails
    /\ at[p] = "write"
    /\ Goto(p, "after", lane[p])
    /\ writing' = [writing EXCEPT ![p] = {}]
    /\ UNCHANGED <<queueVars, job, batch, flushing, rows, lifeVars>>

\* createMany inserts all rows of the batch, or rejects and the batch is gone.
WriteSucceeds(p) == EndWrite(p) /\ Written(writing[p])
WriteFails(p) == DbFails /\ EndWrite(p) /\ UNCHANGED rows

-----------------------------------------------------------------------------
(* process() *)

\* Mutant: a batch counts as full one entry late.
IsFullLate(S) == Cardinality(S) > BatchSize

IsFull(S) == Cardinality(S) >= BatchSize

\* Mutant: historyType is not looked at.
PushHistory(e) == batch' = [batch EXCEPT !["history"] = @ \cup {e}]

\* The entry is pushed to the batch of its type.
Push(e) == batch' = [batch EXCEPT ![LaneOf[e]] = @ \cup {e}]

\* process() looks whether batch l is full.  If it is, the call waits for a
\* flush that is in flight and flushes itself; if not, it looks at the other
\* batch, utility being the last.
LookAt(w, l, held) ==
    IF IsFull(held[l])
    THEN Goto(w, IF flushing[l] THEN "wait" ELSE "flush", l)
    ELSE IF l = "history" /\ IsFull(held["utility"])
    THEN Goto(w, IF flushing["utility"] THEN "wait" ELSE "flush", "utility")
    ELSE Goto(w, "complete", "utility")

\* A slot takes a job and process() pushes its entry.
TakeJob(w) ==
    /\ phase = "up"
    /\ at[w] = "idle"
    /\ \E e \in waiting :
        /\ waiting' = waiting \ {e}
        /\ job' = [job EXCEPT ![w] = {e}]
        /\ Push(e)
    /\ LookAt(w, "history", batch')
    /\ UNCHANGED <<fresh, stalled, flushing, writing, rows, lifeVars>>

\* The poll of waitForHistoryFlush or waitForUtilityFlush sees the flag down.
StopWaiting(w) ==
    /\ at[w] = "wait"
    /\ ~flushing[lane[w]]
    /\ Goto(w, "flush", lane[w])
    /\ UNCHANGED <<queueVars, job, batch, flushing, writing, rows, lifeVars>>

FlushFull(w) ==
    /\ at[w] = "flush"
    /\ Flush(w, lane[w])
    /\ UNCHANGED <<queueVars, job, rows, lifeVars>>

\* process() goes on after its flush: to the utility batch, or to its end.
Proceed(w) ==
    /\ at[w] = "after"
    /\ IF lane[w] = "history" THEN LookAt(w, "utility", batch)
                              ELSE Goto(w, "complete", "utility")
    /\ UNCHANGED <<queueVars, job, batch, flushing, writing, rows, lifeVars>>

\* The queue learns that the job is done, and forgets it.
CompleteJob(w) ==
    /\ at[w] = "complete"
    /\ Goto(w, "idle", "history")
    /\ job' = [job EXCEPT ![w] = {}]
    /\ UNCHANGED <<queueVars, batch, flushing, writing, rows, lifeVars>>

SlotStep(w) ==
    \/ TakeJob(w) \/ StopWaiting(w) \/ FlushFull(w) \/ Proceed(w) \/ CompleteJob(w)
    \/ WriteSucceeds(w) \/ WriteFails(w)

-----------------------------------------------------------------------------
(* The 6 s timer *)

Tick(t) ==
    /\ phase = "up"
    /\ at[t] = "idle"
    /\ Flush(t, "history")
    /\ UNCHANGED <<queueVars, job, rows, lifeVars>>

\* Mutant: the callback never flushes the utility batch.
TickOnHistory(t) ==
    /\ at[t] = "after"
    /\ Goto(t, "idle", "history")
    /\ UNCHANGED <<queueVars, job, batch, flushing, writing, rows, lifeVars>>

\* The callback goes on after its first flush, and ends after its second.
TickOn(t) ==
    /\ at[t] = "after"
    /\ IF lane[t] = "history" THEN Flush(t, "utility")
       ELSE Goto(t, "idle", "history") /\ UNCHANGED <<batch, flushing, writing>>
    /\ UNCHANGED <<queueVars, job, rows, lifeVars>>

TickStep(t) == TickOn(t) \/ WriteSucceeds(t) \/ WriteFails(t)

-----------------------------------------------------------------------------
(* Shutdown, crash and restart *)

\* onApplicationShutdown stops the timer and closes the worker: no job is taken
\* any more, and those taken are waited for.
Shutdown ==
    /\ phase = "up" /\ stops < MaxStops
    /\ phase' = "closing"
    /\ stops' = stops + 1
    /\ UNCHANGED <<queueVars, job, at, lane, batch, flushing, writing, rows, crashes>>

\* Mutant: worker.close() is not awaited.
DrainedAtOnce == TRUE

\* worker.close() resolves when no job is active.
Drained == \A w \in Slots : at[w] = "idle"

FinalFlush ==
    /\ phase = "closing"
    /\ Drained
    /\ Flush(Closer, "history")
    /\ phase' = "final"
    /\ UNCHANGED <<queueVars, job, rows, stops, crashes>>

FinalFlushOn ==
    /\ at[Closer] = "after"
    /\ IF lane[Closer] = "history" THEN Flush(Closer, "utility") /\ UNCHANGED phase
       ELSE /\ Goto(Closer, "idle", "history")
            /\ phase' = "stopped"
            /\ UNCHANGED <<batch, flushing, writing>>
    /\ UNCHANGED <<queueVars, job, rows, stops, crashes>>

CloserStep == FinalFlush \/ FinalFlushOn \/ WriteSucceeds(Closer) \/ WriteFails(Closer)

\* The process is gone and starts again: memory is lost, active jobs stall, and
\* each write in flight has reached the database or has not.
Restart(reached) ==
    /\ Written(UNION {writing[p] : p \in reached})
    /\ stalled' = stalled \cup UNION {job[w] : w \in Slots}
    /\ job' = [w \in Slots |-> {}]
    /\ at' = [p \in Procs |-> "idle"]
    /\ lane' = [p \in Procs |-> "history"]
    /\ batch' = Empty
    /\ flushing' = [l \in Lanes |-> FALSE]
    /\ writing' = [p \in Procs |-> {}]
    /\ phase' = "up"
    /\ UNCHANGED <<fresh, waiting, stops>>

\* process.exit(0) once every hook has run.
Exit == phase = "stopped" /\ (\E reached \in SUBSET Procs : Restart(reached)) /\ UNCHANGED crashes

\* A crash at any moment; or process.exit(1) when shutting down takes 15 s.
Crash ==
    /\ crashes < MaxCrashes
    /\ crashes' = crashes + 1
    /\ \E reached \in SUBSET Procs : Restart(reached)

-----------------------------------------------------------------------------

\* processDueVariables adds the jobs of one tick of the clock in bulk.
Add ==
    /\ \E S \in (SUBSET fresh) \ {{}} : fresh' = fresh \ S /\ waiting' = waiting \cup S
    /\ UNCHANGED <<stalled, job, at, lane, batch, flushing, writing, rows, lifeVars>>

\* The queue hands a stalled job out again, or fails it if it stalled before.
Redeliver(e) ==
    /\ e \in stalled
    /\ stalled' = stalled \ {e}
    /\ waiting' = waiting \cup {e} \/ UNCHANGED waiting
    /\ UNCHANGED <<fresh, job, at, lane, batch, flushing, writing, rows, lifeVars>>

Next ==
    \/ Add
    \/ \E w \in Slots : SlotStep(w)
    \/ \E t \in Ticks : Tick(t) \/ TickStep(t)
    \/ Shutdown \/ CloserStep \/ Exit \/ Crash
    \/ \E e \in Entries : Redeliver(e)

Spec == Init /\ [][Next]_vars

\* The event loop runs whatever is not suspended, the timer keeps firing, and
\* the database answers; nobody has to shut the process down or to crash it.
Fairness ==
    /\ \A w \in Slots : WF_vars(SlotStep(w))
    /\ \A t \in Ticks : WF_vars(Tick(t)) /\ WF_vars(TickStep(t))
    /\ WF_vars(CloserStep) /\ WF_vars(Exit)

FairSpec == Spec /\ Fairness

-----------------------------------------------------------------------------
(* Properties *)

InFlight == UNION {writing[p] : p \in Procs}
Held == InFlight \cup UNION {batch[l] : l \in Lanes}

\* A batch is being written exactly while its flag is up, and by one flush
\* only (flushHistory, flushUtility: several slots, callbacks of the timer and
\* the shutdown hook may call them at once).
OneFlushPerLane ==
    \A l \in Lanes :
        /\ flushing[l] <=> \E p \in Procs : at[p] = "write" /\ lane[p] = l
        /\ \A p, q \in Procs :
              at[p] = "write" /\ at[q] = "write" /\ lane[p] = l /\ lane[q] = l => p = q

\* An entry is in memory once at most, in the batch of its own table, and is
\* never in memory while the queue may still hand out its job: no await of
\* process() or flush lets an entry be pushed or copied twice.
HeldOnce ==
    /\ \A l \in Lanes : \A e \in batch[l] : LaneOf[e] = l /\ e \notin InFlight
    /\ \A p \in Procs : \A e \in writing[p] : at[p] = "write" /\ LaneOf[e] = lane[p]
    /\ Held \cap (fresh \cup waiting \cup stalled) = {}

\* A row is written twice only if the process died after the first write and
\* before the queue heard that the job was done.
StoredOnce ==
    \A e \in Entries :
        rows[e] + (IF e \in Held \cup waiting \cup fresh THEN 1 ELSE 0) =< 1 + crashes

\* A batch outgrows its limit only by entries of process() calls that are
\* still waiting to flush it, however long a flush takes.
BatchBounded ==
    \A l \in Lanes :
        Cardinality(batch[l]) < BatchSize + Cardinality({w \in Slots : job[w] # {}})

\* The samples that have come get written or dropped, even one that no full batch pushes
\* out; only a process that stops may keep some: its final flush passes by a batch whose
\* flag is up.
EveryEntrySettles == []<>(waiting \cup Held = {} \/ phase = "stopped")

\* However its writes end, a shutdown gets to its end, or to the restart after
\* a crash: no process() call that worker.close() waits for is left waiting
\* itself.
ShutdownEnds == phase = "closing" ~> phase \in {"stopped", "up"}

Delivery == INSTANCE HistoryDelivery WITH
    active <- UNION {job[w] : w \in Slots},
    buffer <- [l \in Lanes |-> batch[l] \cup UNION {writing[p] : p \in {q \in Procs : lane[q] = l}}]

\* The worker implements HistoryDelivery: batches are written or dropped whole,
\* and nothing is buffered that the queue did not hand out.
DeliverySpec == Delivery!Spec

=============================================================================
