--------------------------- MODULE FreezeScheduler ---------------------------
(***************************************************************************)
(* FreezeSchedulerService, its worker, and FreezeConfigurationService:     *)
(* variables hold one value inside of weekly time windows and another      *)
(* outside.  A mapping has a delayed job for its next start and one for    *)
(* its next end; the handler of a job writes the value and adds the jobs   *)
(* that come next.  The clock shows the second of the week; what begins in *)
(* a second ends in it, unless the process dies.                           *)
(* The columns lastStartTriggeredAt, nextStartRunAt and so on are left     *)
(* out: nothing reads them.                                                *)
(***************************************************************************)
EXTENDS Integers, FiniteSets

CONSTANTS
    Mappings,    \* ids of WritingVariableFreezeMap rows, each of its own configuration
    Prefixed,    \* [Mappings -> SUBSET Mappings]: the ids whose text begins with an id
    Workers,     \* slots of FreezeWorker: 2 in the code
    Client, Boot,\* the request in flight; initializeSystem
    Days, Day,   \* days of a week, seconds of a day
    WindowSets,  \* the time windows a configuration may have
    Choices,     \* what requests make of the configuration of a mapping: its bound
    Faults,      \* queries that may reject: subset of Point
    MaxFaults, MaxCalls   \* bounds of the environment

Seconds == 0 .. Day - 1
Windows == [day : 0 .. Days - 1, start : Seconds, end : Seconds]
Configurations == [active : BOOLEAN, windows : WindowSets]

ASSUME FreezeAssumption ==
    /\ Days \in Nat \ {0} /\ Day \in Nat \ {0}
    /\ WindowSets \subseteq SUBSET Windows
    /\ Choices \in [Mappings -> SUBSET Configurations]
    /\ Mappings # {}
    /\ Prefixed \in [Mappings -> SUBSET Mappings]
    /\ \A m \in Mappings : m \in Prefixed[m]
    /\ Client # Boot /\ {Client, Boot} \cap Workers = {}
    /\ MaxFaults \in Nat /\ MaxCalls \in Nat

VARIABLES
    now,         \* the second of the week
    down,        \* whether the process is dead
    row,         \* a mapping and its configuration: {} or {[active, windows]}
    value,       \* what the variable of a mapping was last set to
    delayed, waiting, stalled,   \* jobs in Redis
    at,          \* where a process is suspended
    job,         \* the job a worker has: {} or {it}
    of,          \* the mapping a process is at
    seen,        \* the windows it has read
    todo,        \* mappings Boot has yet to sync; jobs a client has yet to remove
    faults, calls,   \* rejections and crashes; requests
    excused,     \* mappings whose value does not follow the clock for a known reason
    broken       \* mappings whose next jobs could not be added, or were removed along
                 \* with those of another

clockVars == <<now, down>>
queueVars == <<delayed, waiting, stalled>>
procVars == <<at, job, of, seen, todo>>
countVars == <<faults, calls>>
vars == <<clockVars, row, value, queueVars, procVars, countVars, excused, broken>>

Week == Days * Day
Times == 0 .. Week - 1
Kinds == {"start", "end"}
Jobs == [kind : Kinds, m : Mappings, at : Times]
Callers == {Client, Boot}
Procs == Workers \cup Callers
Point == {"idle", "apply", "reread", "plan", "sync", "check", "list", "drop",
          "clear", "load", "wipe"}

TypeOK ==
    /\ now \in Times /\ down \in BOOLEAN
    /\ row \in [Mappings -> SUBSET Configurations]
    /\ \A m \in Mappings : \A r, s \in row[m] : r = s
    /\ value \in [Mappings -> Kinds \cup {"other"}]
    /\ delayed \in SUBSET Jobs /\ waiting \in SUBSET Jobs /\ stalled \in SUBSET Jobs
    /\ at \in [Procs -> Point]
    /\ job \in [Workers -> SUBSET Jobs]
    /\ of \in [Procs -> Mappings]
    /\ seen \in [Procs -> [Mappings -> WindowSets \cup {{}}]]
    /\ todo \in [Callers -> SUBSET (Mappings \cup Jobs)]
    /\ faults \in Nat /\ calls \in Nat
    /\ excused \in SUBSET Mappings /\ broken \in SUBSET Mappings

Active(m) == \E r \in row[m] : r.active
WindowsOf(m) == UNION {r.windows : r \in row[m]}
Unseen == [m \in Mappings |-> {}]
Some == CHOOSE m \in Mappings : TRUE

-----------------------------------------------------------------------------
(* time-calculation.util.ts *)

\* Mutant: a target in this very second is not moved to next week.
TargetNow(day, second) ==
    LET ahead == (day - (now \div Day) + Days) % Days
        t == ((now \div Day) + ahead) * Day + second
    IN IF t < now THEN t + Week ELSE t

\* When a weekday and a second of the day come next: today's date moved by the
\* days that are missing, and a week on if that is not later than now.
Target(day, second) ==
    LET ahead == (day - (now \div Day) + Days) % Days
        t == ((now \div Day) + ahead) * Day + second
    IN IF t <= now THEN t + Week ELSE t

\* Mutant: the second is counted from the beginning of this week.
NextRunUnwrapped(windows, kind) ==
    LET targets == {Target(w.day, w[kind]) : w \in windows}
    IN CHOOSE t \in targets : \A u \in targets : t <= u

\* calculateNextRun, as a second of the week.
NextRun(windows, kind) ==
    LET targets == {Target(w.day, w[kind]) : w \in windows}
    IN (CHOOSE t \in targets : \A u \in targets : t <= u) % Week

\* isCurrentlyInWindow: the last second of a window belongs to it.
InWindow(windows) ==
    \E w \in windows : /\ w.day = now \div Day
                       /\ now % Day >= w.start
                       /\ now % Day <= w.end

-----------------------------------------------------------------------------
(* Steps that workers and callers share *)

Goto(p, point) == at' = [at EXCEPT ![p] = point]
Finish(p) ==
    /\ Goto(p, "idle")
    /\ seen' = [seen EXCEPT ![p] = Unseen] /\ of' = [of EXCEPT ![p] = Some]

\* The seconds in which a window of m starts or ends.
Edges(m, kind) == {w.day * Day + w[kind] : w \in WindowsOf(m)}
Held(m) == \E w \in WindowsOf(m) : w.day = now \div Day /\ now % Day \in w.start .. w.end - 1

\* No mapping yet, or mappings that an earlier run of the process has synced.
Init ==
    /\ now = 0 /\ down = FALSE
    /\ row \in [Mappings -> SUBSET Configurations]
    /\ \A m \in Mappings : row[m] = {} \/ \E r \in Choices[m] : row[m] = {r}
    /\ value = [m \in Mappings |-> IF Active(m) /\ Held(m) THEN "start" ELSE "other"]
    /\ delayed = {j \in Jobs : /\ Active(j.m) /\ WindowsOf(j.m) # {}
                              /\ j.at = NextRun(WindowsOf(j.m), j.kind)}
    /\ waiting = {} /\ stalled = {}
    /\ at = [p \in Procs |-> "idle"]
    /\ job = [w \in Workers |-> {}]
    /\ of = [p \in Procs |-> Some]
    /\ seen = [p \in Procs |-> Unseen]
    /\ todo = [c \in Callers |-> {}]
    /\ faults = 0 /\ calls = 0
    /\ excused = {} /\ broken = {}

\* The value of a mapping is written, by a handler or an immediate freeze; it
\* follows the clock if this second calls for it.
WriteValue(m, kind, timely) ==
    /\ value' = [value EXCEPT ![m] = kind]
    /\ excused' = IF timely THEN excused \ {m} ELSE excused \cup {m}

\* What the mappings ms were due is not done in time.
Miss(ms) == excused' = excused \cup ms

\* The next jobs of m, of these kinds; without windows there is none.
JobsOf(m, ws, kinds) ==
    IF ws = {} THEN {} ELSE {[kind |-> k, m |-> m, at |-> NextRun(ws, k)] : k \in kinds}

\* scheduleNextFreezeEvent: jobs that are there already are not added again.
AddJobs(p) ==
    LET m == of[p]
        ws == seen[p][m]
    IN /\ delayed' = delayed \cup JobsOf(m, ws, Kinds)
       /\ broken' = IF ws = WindowsOf(m) THEN broken \ {m} ELSE broken

\* It rejects, with the job of the next start there or not.
AddFewer(p) ==
    /\ \/ UNCHANGED delayed
       \/ at[p] = "plan" /\ delayed' = delayed \cup JobsOf(of[p], seen[p][of[p]], {"start"})
    /\ broken' = broken \cup {of[p]}

-----------------------------------------------------------------------------
(* FreezeWorker: handleFreezeStart, handleFreezeEnd *)

\* A job is taken and its mapping read; one that is gone or inactive is left
\* alone.
TakeJob(w) ==
    /\ at[w] = "idle" /\ ~down
    /\ \E j \in waiting :
          /\ waiting' = waiting \ {j}
          /\ job' = [job EXCEPT ![w] = {j}]
          /\ of' = [of EXCEPT ![w] = j.m]
          /\ IF Active(j.m) THEN Goto(w, "apply") /\ UNCHANGED excused
             ELSE Goto(w, "reread") /\ Miss({j.m})
    /\ UNCHANGED <<clockVars, row, value, delayed, stalled, seen, todo, countVars, broken>>

Apply(w) ==
    /\ at[w] = "apply"
    /\ \E j \in job[w] : WriteValue(j.m, j.kind, now \in Edges(j.m, j.kind))
    /\ Goto(w, "reread")
    /\ UNCHANGED <<clockVars, row, queueVars, job, of, seen, todo, countVars, broken>>

\* Mutant: a handler whose write failed does not reschedule.
FailForGood(w) ==
    /\ at[w] = "apply" /\ "apply" \in Faults
    /\ faults < MaxFaults /\ faults' = faults + 1
    /\ Finish(w) /\ job' = [job EXCEPT ![w] = {}]
    /\ Miss({of[w]})
    /\ UNCHANGED <<clockVars, row, value, queueVars, todo, calls, broken>>

\* The first try block rejects and its error is logged: the value is not
\* written, or only its time.
FailHandler(w) ==
    /\ at[w] = "apply" /\ "apply" \in Faults
    /\ faults < MaxFaults /\ faults' = faults + 1
    /\ Goto(w, "reread")
    /\ Miss({of[w]})
    /\ UNCHANGED <<clockVars, row, value, queueVars, job, of, seen, todo, calls, broken>>

\* Mutant: only syncs schedule a mapping.
RereadNothing(w) ==
    /\ at[w] = "reread"
    /\ Finish(w) /\ job' = [job EXCEPT ![w] = {}]
    /\ UNCHANGED <<clockVars, row, value, queueVars, todo, countVars, excused, broken>>

\* finally: the mapping is read again, and scheduled if it is active.
Reread(w) ==
    /\ at[w] = "reread"
    /\ IF Active(of[w])
       THEN /\ Goto(w, "plan")
            /\ seen' = [seen EXCEPT ![w][of[w]] = WindowsOf(of[w])]
            /\ UNCHANGED <<job, of>>
       ELSE Finish(w) /\ job' = [job EXCEPT ![w] = {}]
    /\ UNCHANGED <<clockVars, row, value, queueVars, todo, countVars, excused, broken>>

\* The next jobs are added, and this one is complete.
Plan(w) ==
    /\ at[w] = "plan"
    /\ AddJobs(w)
    /\ Finish(w) /\ job' = [job EXCEPT ![w] = {}]
    /\ UNCHANGED <<clockVars, row, value, waiting, stalled, todo, countVars, excused>>

\* finally rejects, and the job fails: nothing reschedules the mapping.
FailFinally(w) ==
    /\ at[w] \in {"reread", "plan"} \cap Faults
    /\ faults < MaxFaults /\ faults' = faults + 1
    /\ Finish(w) /\ job' = [job EXCEPT ![w] = {}]
    /\ AddFewer(w)
    /\ UNCHANGED <<clockVars, row, value, waiting, stalled, todo, calls, excused>>

-----------------------------------------------------------------------------
(* FreezeConfigurationService *)

\* A request commits the row r of m; then its mapping is synced or unsynced.
Request(m, r, point) ==
    /\ at[Client] = "idle" /\ ~down
    /\ calls < MaxCalls /\ calls' = calls + 1
    /\ row' = [row EXCEPT ![m] = r]
    /\ Goto(Client, point)
    /\ of' = [of EXCEPT ![Client] = m]
    /\ UNCHANGED <<clockVars, value, queueVars, job, seen, todo, faults, broken>>

\* The variable may still hold what an earlier mapping set it to.
Create ==
    \E m \in Mappings : \E r \in Choices[m] :
        /\ row[m] = {}
        /\ Request(m, {r}, "sync")
        /\ Miss({m} \cap {n \in Mappings : value[n] = "start"})

\* New windows do not undo what the old ones have done.
Update ==
    \E m \in Mappings : \E r \in row[m], s \in Choices[m] :
        /\ Request(m, {s}, "sync")
        /\ excused' = IF r.windows = s.windows THEN excused ELSE excused \cup {m}

Remove == \E m \in Mappings : row[m] # {} /\ Request(m, {}, "list") /\ UNCHANGED excused

-----------------------------------------------------------------------------
(* syncMapping, unsyncMapping and syncAllFreezeSchedules *)

Sync ==
    /\ at[Client] = "sync"
    /\ LET m == of[Client] IN
       /\ Goto(Client, IF Active(m) THEN "check" ELSE "list")
       /\ seen' = [seen EXCEPT ![Client][m] = WindowsOf(m)]
    /\ UNCHANGED <<clockVars, row, value, queueVars, job, of, todo, countVars, excused, broken>>

\* Mutant: a mapping that is activated inside of its window waits for the end.
CheckLater(c) ==
    /\ at[c] = "check"
    /\ Goto(c, "plan")
    /\ UNCHANGED <<clockVars, row, value, queueVars, job, of, seen, todo, countVars, excused, broken>>

\* checkAndApplyImmediateFreeze, with the windows that were read.
Check(c) ==
    /\ at[c] = "check"
    /\ IF InWindow(seen[c][of[c]]) THEN WriteValue(of[c], "start", Held(of[c]))
       ELSE UNCHANGED <<value, excused>>
    /\ Goto(c, "plan")
    /\ UNCHANGED <<clockVars, row, queueVars, job, of, seen, todo, countVars, broken>>

\* A mapping is synced: Boot goes on with the next one, a request is over.
Synced(c) == IF c = Boot THEN Goto(c, "load") /\ UNCHANGED <<seen, of>> ELSE Finish(c)

\* The immediate freeze or the scheduling rejects, and the mapping is not scheduled; the
\* others of an initialization are (allSettled).
FailSync(c) ==
    /\ at[c] \in {"check", "plan"} \cap Faults
    /\ faults < MaxFaults /\ faults' = faults + 1
    /\ Synced(c)
    /\ AddFewer(c)
    /\ IF at[c] = "check" THEN Miss({of[c]}) ELSE UNCHANGED excused
    /\ UNCHANGED <<clockVars, row, value, waiting, stalled, job, todo, calls>>

SyncPlan(c) ==
    /\ at[c] = "plan"
    /\ AddJobs(c)
    /\ Synced(c)
    /\ UNCHANGED <<clockVars, row, value, waiting, stalled, job, todo, countVars, excused>>

\* getJobs: the jobs whose id begins with the mapping's are to be removed, and with them
\* those of another mapping whose id is longer.
List ==
    /\ at[Client] = "list"
    /\ todo' = [todo EXCEPT ![Client] =
                   {j \in delayed \cup waiting : j.m \in Prefixed[of[Client]]}]
    /\ Goto(Client, "drop")
    /\ UNCHANGED <<clockVars, row, value, queueVars, job, of, seen, countVars, excused, broken>>

\* One of them is removed; a job that a worker has taken since is locked, and
\* the call ends with an error.
Drop ==
    /\ at[Client] = "drop"
    /\ \/ \E j \in todo[Client] :
             /\ delayed' = delayed \ {j} /\ waiting' = waiting \ {j}
             /\ Miss({j.m} \cap {k.m : k \in waiting})
             /\ broken' = broken \cup ({j.m} \ {of[Client]})
             /\ IF \E w \in Workers : j \in job[w]
                THEN todo' = [todo EXCEPT ![Client] = {}] /\ Finish(Client)
                ELSE todo' = [todo EXCEPT ![Client] = @ \ {j}] /\ UNCHANGED <<at, seen, of>>
       \/ todo[Client] = {} /\ Finish(Client) /\ UNCHANGED <<delayed, waiting, todo, excused, broken>>
    /\ UNCHANGED <<clockVars, row, value, stalled, job, countVars>>

\* initializeSystem, at a start or after a restore, and handleSystemReset.
Reinitialize(c) ==
    /\ at[c] = "idle" /\ ~down
    /\ calls < MaxCalls /\ calls' = calls + 1
    /\ Goto(c, "clear")
    /\ UNCHANGED <<clockVars, row, value, queueVars, job, of, seen, todo, faults, excused, broken>>

\* clearAllJobs: jobs that are due go, too.
Clear(c) ==
    /\ at[c] = "clear"
    /\ Miss({j.m : j \in waiting})
    /\ delayed' = {} /\ waiting' = {}
    /\ IF c = Boot
       THEN Goto(c, "load") /\ todo' = [todo EXCEPT ![c] = Mappings]
       ELSE Goto(c, "wipe") /\ UNCHANGED todo
    /\ UNCHANGED <<clockVars, row, value, stalled, job, of, seen, countVars, broken>>

\* resetSystemConfig deletes every configuration.
Wipe ==
    /\ at[Client] = "wipe"
    /\ row' = [m \in Mappings |-> {}]
    /\ Finish(Client)
    /\ UNCHANGED <<clockVars, value, queueVars, job, todo, countVars, excused, broken>>

\* The active mappings are read at once, and synced.
Load ==
    /\ at[Boot] = "load"
    /\ LET first == seen[Boot] = Unseen
           left == IF first THEN {m \in todo[Boot] : Active(m)} ELSE todo[Boot]
       IN /\ IF left = {} THEN Finish(Boot)
             ELSE /\ \E m \in left : of' = [of EXCEPT ![Boot] = m]
                  /\ Goto(Boot, "check")
                  /\ seen' = IF first THEN [seen EXCEPT ![Boot] = [m \in Mappings |-> WindowsOf(m)]]
                             ELSE seen
          /\ todo' = [todo EXCEPT ![Boot] = left \ {of'[Boot]}]
    /\ UNCHANGED <<clockVars, row, value, queueVars, job, countVars, excused, broken>>

-----------------------------------------------------------------------------
(* The clock, and crashes *)

Quiet == ~down /\ waiting = {} /\ stalled = {} /\ \A p \in Procs : at[p] = "idle"

\* A second passes, and jobs become due.
Tick ==
    /\ Quiet \/ down
    /\ now' = (now + 1) % Week
    /\ LET due == {j \in delayed : j.at = now'} IN
       delayed' = delayed \ due /\ waiting' = waiting \cup due
    /\ Miss({m \in Mappings : now' \in Edges(m, "end") /\ (down \/ ~Active(m))}
            \cup {m \in broken : now' \in (Edges(m, "start") \cup Edges(m, "end"))})
    /\ UNCHANGED <<down, row, value, stalled, procVars, countVars, broken>>

\* BullMQ hands a job out again whose worker has died.
Redeliver ==
    /\ ~down
    /\ \E j \in stalled : stalled' = stalled \ {j} /\ waiting' = waiting \cup {j}
    /\ UNCHANGED <<clockVars, row, value, delayed, procVars, countVars, excused, broken>>

Crash ==
    /\ ~down
    /\ faults < MaxFaults /\ faults' = faults + 1
    /\ down' = TRUE
    /\ LET held == UNION {job[w] : w \in Workers} IN
       stalled' = stalled \cup held /\ Miss({j.m : j \in held})
    /\ at' = [p \in Procs |-> "idle"] /\ of' = [p \in Procs |-> Some]
    /\ job' = [w \in Workers |-> {}]
    /\ seen' = [p \in Procs |-> Unseen]
    /\ todo' = [c \in Callers |-> {}]
    /\ UNCHANGED <<now, row, value, delayed, waiting, calls, broken>>

Restart ==
    /\ down /\ down' = FALSE
    /\ Goto(Boot, "clear")
    /\ UNCHANGED <<now, row, value, queueVars, job, of, seen, todo, countVars, excused, broken>>

WorkerStep(w) ==
    \/ TakeJob(w) \/ Apply(w) \/ FailHandler(w) \/ Reread(w) \/ Plan(w) \/ FailFinally(w)

CallerStep(c) == Check(c) \/ FailSync(c) \/ SyncPlan(c) \/ Clear(c)
ClientStep == Sync \/ List \/ Drop \/ Wipe \/ CallerStep(Client)
BootStep == Load \/ CallerStep(Boot)

\* What the event loop, BullMQ and the clock do of their own.
SystemStep ==
    \/ \E w \in Workers : WorkerStep(w)
    \/ ClientStep \/ BootStep
    \/ Tick \/ Redeliver

Next ==
    \/ SystemStep \/ Restart
    \/ Create \/ Update \/ Remove \/ \E c \in Callers : Reinitialize(c)
    \/ Crash

Spec == Init /\ [][Next]_vars

\* The clock waits for what is in flight, so that no step is passed over for
\* ever as long as some step is taken.
Fairness == WF_vars(SystemStep) /\ WF_vars(Restart)

FairSpec == Spec /\ Fairness

-----------------------------------------------------------------------------
(* Properties *)

\* The next run of a set of windows is the first second after this one in which
\* a window starts (or ends), however the week wraps around.
NextRunIsNext ==
    \A windows \in WindowSets \ {{}}, kind \in Kinds :
        LET edges == {w.day * Day + w[kind] : w \in windows}
            wait(t) == (t - now - 1 + Week) % Week
        IN /\ NextRun(windows, kind) \in edges
           /\ \A t \in edges : wait(NextRun(windows, kind)) <= wait(t)

\* freeze-scheduler.service.ts:197 "Ensure rescheduling always happens": when
\* nothing is in flight, an active mapping has a job for its next start and its
\* next end, whatever handlers, requests, failed writes, crashes and restarts
\* led there; except that it waits for the next handler or sync that gets through
\* (broken) after its immediate freeze, or the queries and adds of finally or of a sync,
\* rejected, and after unsyncMapping took its jobs along with those of a mapping whose
\* id its own begins with, though freeze-scheduler.service.ts:287 calls the removal
\* correct.
ChainAlive ==
    Quiet => \A m \in Mappings \ broken : \A r \in row[m] : \A kind \in Kinds :
                 r.active /\ r.windows # {} =>
                     [kind |-> kind, m |-> m, at |-> NextRun(r.windows, kind)] \in delayed

\* A window that meets or overlaps another is left out: its edges race.
Apart(windows) ==
    \A v, w \in windows : /\ v.start < v.end
                          /\ v = w \/ v.day # w.day \/ v.end < w.start \/ w.end < v.start

\* Inside of a window the variable of an active mapping is frozen, outside it is
\* not, unless a write came late or failed, an end passed while the process was
\* down or the mapping inactive, an edge passed while the mapping had no jobs
\* (broken), or the windows were changed (excused).
WindowRespected ==
    Quiet => \A m \in Mappings \ excused :
                 Active(m) /\ Apart(WindowsOf(m)) => (value[m] = "start") = Held(m)

\* A mapping that stays active, and whose chain does not break for good (broken), is
\* frozen and released again and again.
EveryWindowServed ==
    \A m \in Mappings :
        <>[](Active(m) /\ WindowsOf(m) # {} /\ m \notin broken) =>
            []<>(value[m] = "start") /\ []<>(value[m] = "end")

=============================================================================
