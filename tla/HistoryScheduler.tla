-------------------------- MODULE HistoryScheduler --------------------------
(***************************************************************************)
(* HistorySchedulerService and its worker: a heartbeat, a repeatable job,  *)
(* looks every second for the variables whose next_run_at has come, moves  *)
(* next_run_at to the next multiple of the variable's interval, with one   *)
(* query per interval, and queues a sample per variable, stamped with the  *)
(* multiple of the interval that has just passed.  HistoryConfigService    *)
(* changes the intervals meanwhile.  lastRunAt is left out, as nothing     *)
(* reads it, and so is the value of a sample, which Telemetry is about.    *)
(***************************************************************************)
EXTENDS Integers, FiniteSets

CONSTANTS
    Variables,
    Intervals,    \* the logging times in use, in seconds
    Batch,        \* batchSize: 500 in the code
    Faults,       \* queries that may reject: subset of Queries
    MaxTime, MaxFaults, MaxEvents  \* bounds of the environment

Queries == {"find", "mark", "advance", "add"}

ASSUME HistorySchedulerAssumption ==
    /\ Batch \in Nat \ {0}
    /\ Intervals \subseteq Nat \ {0}
    /\ Faults \subseteq Queries
    /\ MaxTime \in Nat \ {0} /\ MaxFaults \in Nat /\ MaxEvents \in Nat

VARIABLES
    now,        \* Date.now(), in seconds
    interval,   \* loggingTime of a variable whose history is SCHEDULED or UTILITY, else 0
    next,       \* next_run_at, 0 for null
    beat,       \* the time of the heartbeat's next job in Redis: {} or {time}
    stalled,    \* whether a heartbeat job lost its worker
    starting,   \* whether initializeSystem has yet to set the heartbeat up
    at, base, due,  \* processDueVariables: where it is, its now, [variable |-> loggingTime]
    landing,    \* updates of next_run_at in flight; late: Promise.all no longer waits
    last,       \* the stamp of the last sample added for a variable, -1 at first
    excused,    \* variables whose interval, or whose samples, changed or got lost since
    faults, events

redisVars == <<beat, stalled>>
procVars == <<at, base, due>>
envVars == <<faults, events>>
vars == <<now, interval, next, redisVars, starting, procVars, landing, last,
          excused, envVars>>

Time == 0 .. MaxTime
Update == [ids : SUBSET Variables, next : Nat, late : BOOLEAN]
NoneDue == [v \in {} |-> 0]

TypeOK ==
    /\ now \in Time
    /\ interval \in [Variables -> Intervals \cup {0}]
    /\ next \in [Variables -> Nat] /\ last \in [Variables -> Int]
    /\ beat \in SUBSET Nat /\ \A t, u \in beat : t = u
    /\ stalled \in BOOLEAN /\ starting \in BOOLEAN
    /\ at \in {"idle"} \cup Queries
    /\ base \in Time
    /\ DOMAIN due \in SUBSET Variables /\ \A v \in DOMAIN due : due[v] \in Intervals
    /\ landing \in SUBSET Update
    /\ excused \in SUBSET Variables
    /\ faults \in Nat /\ events \in Nat

\* The last multiple of i up to t.
Grid(t, i) == t - (t % i)

-----------------------------------------------------------------------------
(* The heartbeat.  Its time is a second's, as that of processDueVariables. *)

\* A second on; the last second of the model lasts for ever.
Later == IF now < MaxTime THEN now + 1 ELSE now

\* The worker, which has one slot, takes the job, and Redis schedules the one after
\* it; or it is given the job that stalled.
TakeBeat ==
    /\ at = "idle"
    /\ \/ /\ \E t \in beat : t <= now
          /\ beat' = {Later} /\ UNCHANGED stalled
       \/ stalled /\ stalled' = FALSE /\ UNCHANGED beat
    /\ at' = "find" /\ base' = now
    /\ UNCHANGED <<now, interval, next, starting, due, landing, last, excused, envVars>>

\* setupHistorySync: whatever heartbeat there was is replaced.
Setup ==
    /\ starting
    /\ starting' = FALSE
    /\ beat' = {Later}
    /\ UNCHANGED <<now, interval, next, stalled, procVars, landing, last, excused, envVars>>

\* clearAllJobs, for a RESET, after which nobody sets the heartbeat up, or for
\* initializeSystem, which will.
ClearJobs(byInitialize) ==
    /\ events < MaxEvents
    /\ events' = events + 1
    /\ beat' = {}
    /\ starting' = (starting \/ byInitialize)
    /\ UNCHANGED <<now, interval, next, stalled, procVars, landing, last, excused, faults>>

-----------------------------------------------------------------------------
(* processDueVariables *)

Return == at' = "idle" /\ due' = NoneDue
Abandon(updates) == landing' = {[l EXCEPT !.late = TRUE] : l \in updates}

\* A query rejects: the catch logs, and the heartbeat is over.
Fail(query) ==
    /\ at = query /\ query \in Faults \ {"advance"} /\ faults < MaxFaults
    /\ faults' = faults + 1
    /\ Return
    /\ excused' = IF query = "add" THEN excused \cup DOMAIN due ELSE excused
    /\ UNCHANGED <<now, interval, next, redisVars, starting, base, landing, last, events>>

\* Mutant: a variable that was never sampled is not due.
DueSince(t) == {v \in Variables : interval[v] # 0 /\ next[v] \in 1 .. t}

\* What findMany looks for: SCHEDULED or UTILITY, a logging time, and due or never sampled.
Due(t) == {v \in Variables : interval[v] # 0 /\ next[v] <= t}

\* findMany: up to batchSize of them, in the order the database likes.
Find ==
    /\ at = "find"
    /\ \E chosen \in SUBSET Due(base) :
        /\ Cardinality(chosen) <= Batch
        /\ chosen = Due(base) \/ Cardinality(chosen) = Batch
        /\ due' = [v \in chosen |-> interval[v]]
        /\ at' = IF chosen = {} THEN "idle" ELSE "mark"
    /\ UNCHANGED <<now, interval, next, redisVars, starting, base, landing, last,
                   excused, envVars>>

\* Mutant: next_run_at is one interval from now.
AdvanceFromNow(i) == base + i

\* nextTime
Advance(i) == Grid(base, i) + i

Group(i) == {v \in DOMAIN due : due[v] = i}

\* lastRunAt is written; then an update begins per interval.
Mark ==
    /\ at = "mark"
    /\ at' = "advance"
    /\ landing' = landing \cup {[ids |-> Group(i), next |-> Advance(i), late |-> FALSE] :
                                i \in {due[v] : v \in DOMAIN due}}
    /\ UNCHANGED <<now, interval, next, redisVars, starting, base, due, last,
                   excused, envVars>>

\* An update of next_run_at lands, whether or not it is still waited for.
Land(l) ==
    /\ landing' = landing \ {l}
    /\ next' = [v \in Variables |-> IF v \in l.ids THEN l.next ELSE next[v]]
    /\ UNCHANGED <<now, interval, redisVars, starting, procVars, last, excused, envVars>>

\* An update rejects, and Promise.all with it: the others stay in flight.
FailAdvance(l) ==
    /\ at = "advance" /\ ~l.late
    /\ "advance" \in Faults /\ faults < MaxFaults
    /\ faults' = faults + 1
    /\ Return
    /\ Abandon(landing \ {l})
    /\ excused' = excused \cup DOMAIN due
    /\ UNCHANGED <<now, interval, next, redisVars, starting, base, last, events>>

\* Mutant: the updates are not awaited.
AdvancedUnawaited ==
    /\ at = "advance"
    /\ at' = "add"
    /\ UNCHANGED <<now, interval, next, redisVars, starting, base, due, landing,
                   last, excused, envVars>>

\* Promise.all resolves.
Advanced ==
    /\ at = "advance"
    /\ \A l \in landing : l.late
    /\ at' = "add"
    /\ UNCHANGED <<now, interval, next, redisVars, starting, base, due, landing,
                   last, excused, envVars>>

\* triggerTime, on the grid of the interval that the variable was found with.
Stamp(v) == Grid(base, due[v])

\* Those whose row follows again from what was added for them.
Settled == {v \in DOMAIN due : /\ due[v] = interval[v] /\ next[v] = Advance(due[v])
                              /\ \A l \in landing : v \notin l.ids}

\* addBulk.  A job whose id is still in the queue would not be added twice.
Add ==
    /\ at = "add"
    /\ Return
    /\ last' = [v \in Variables |-> IF v \in DOMAIN due THEN Stamp(v) ELSE last[v]]
    /\ excused' = excused \ Settled
    /\ UNCHANGED <<now, interval, next, redisVars, starting, base, landing, envVars>>

Process == TakeBeat \/ Setup \/ Find \/ Mark \/ Advanced \/ Add \/ \E l \in landing : Land(l)
Fault == \/ \E query \in {"find", "mark", "add"} : Fail(query)
         \/ \E l \in landing : FailAdvance(l)

-----------------------------------------------------------------------------
(* The environment *)

\* HistoryConfigService.update and remove: next_run_at stays what it was.
SetInterval(v, i) ==
    /\ events < MaxEvents /\ i # interval[v]
    /\ events' = events + 1
    /\ interval' = [interval EXCEPT ![v] = i]
    /\ excused' = excused \cup {v}
    /\ UNCHANGED <<now, next, redisVars, starting, procVars, landing, last, faults>>

Pass ==
    /\ now' = Later
    /\ UNCHANGED <<interval, next, redisVars, starting, procVars, landing, last,
                   excused, envVars>>

\* The process dies with its queries, which land or not, and starts again; its
\* heartbeats stay in Redis until initializeSystem clears them.
Crash ==
    /\ events < MaxEvents
    /\ events' = events + 1
    /\ \E landed \in SUBSET landing : Abandon(landed)
    /\ Return
    /\ stalled' = (stalled \/ at # "idle")
    /\ starting' = TRUE /\ beat' = {}
    /\ excused' = excused \cup DOMAIN due
    /\ UNCHANGED <<now, interval, next, base, last, faults>>

Init ==
    /\ now = 1
    /\ interval \in [Variables -> Intervals]
    /\ next = [v \in Variables |-> 0]
    /\ beat = {} /\ stalled = FALSE /\ starting = TRUE
    /\ at = "idle" /\ base = 0 /\ due = NoneDue
    /\ landing = {}
    /\ last = [v \in Variables |-> -1]
    /\ excused = {}
    /\ faults = 0 /\ events = 0

Next ==
    \/ Process \/ Fault \/ Pass \/ Crash
    \/ \E byInitialize \in BOOLEAN : ClearJobs(byInitialize)
    \/ \E v \in Variables, i \in Intervals \cup {0} : SetInterval(v, i)

Spec == Init /\ [][Next]_vars

\* The queries of a heartbeat are answered and the worker takes the next; time passes.
FairSpec == Spec /\ WF_vars(Process) /\ WF_vars(Pass)

-----------------------------------------------------------------------------
(* Properties *)

\* Outside of its heartbeat, next_run_at is one interval behind the last sample of a
\* variable, however late the heartbeats came and in whichever order the updates of
\* its groups landed: no interval passes without a sample but those that found no
\* heartbeat.  Excepted is a variable whose interval changed, or whose sample a fault
\* took, until its next sample.
NextFollowsLast ==
    \A v \in Variables \ (excused \cup DOMAIN due) :
        interval[v] # 0 /\ next[v] # 0 => next[v] = last[v] + interval[v]

\* A sample is stamped later than the one before it: no tick is stored twice, and
\* none behind another, unless the interval changed or an update that nobody waits
\* for any longer put next_run_at back.
StampsIncrease ==
    [][\A v \in DOMAIN due \ excused :
        at = "add" /\ at' = "idle" /\ envVars' = envVars => last'[v] > last[v]]_vars

Owed(v) == interval[v] # 0 /\ next[v] <= now

\* A variable whose time has come, or that was never sampled, gets its sample, unless
\* a RESET cleared the heartbeat or more variables than a batch are due, of which the
\* query takes any.
DueIsSampled ==
    \A v \in Variables :
        Owed(v) ~> \/ ~Owed(v) \/ v \in excused
                   \/ beat = {} /\ ~starting
                   \/ Cardinality({u \in Variables : Owed(u)}) > Batch
=============================================================================
