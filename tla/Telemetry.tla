------------------------------ MODULE Telemetry ------------------------------
(***************************************************************************)
(* The way of an MQTT packet through the service: DataSourceService        *)
(* decodes it and maps its values to reading variables, the event          *)
(* TELEMETRY_UPDATED starts TelemetryListener, which puts the values into  *)
(* the cache, a job into the queue of VariableWorker (module               *)
(* VariableUpdate) and one into that of the alarm worker, and shows the    *)
(* values on the screens.  Every packet has a handler of its own, and the  *)
(* handlers interleave at their awaits.  What cannot be processed goes to  *)
(* a dead letter file.                                                     *)
(***************************************************************************)
EXTENDS VariableUpdate

CONSTANTS
    Packets,     \* packets of one data source
    Holds,       \* the variables a packet has values for
    MaxQueue,    \* the backpressure limit: 10000 in the code
    Faults       \* the awaits that may reject

Await == {"config", "count", "live", "add", "alarm", "reply"}

ASSUME TelemetryAssumption ==
    /\ Holds \in [Packets -> (SUBSET Variables) \ {{}}]
    /\ MaxQueue \in Nat
    /\ Faults \subseteq Await

VARIABLES
    pc,          \* the await a packet's handler is suspended at
    reply,       \* where handleMessage is, which goes on while the listener runs
    cached,      \* whether the variables of the data source are in the cache
    jobOf,       \* the job a packet was queued as, or 0
    live,        \* packets whose values were put into the cache
    shown,       \* packets whose values were shown
    dlq,         \* packets in telemetry-dlq.ndjson
    dropped,     \* packets without values, dropped by backpressure, or turned away
    deaf         \* isShuttingDown of the listener

packetVars == <<pc, reply, jobOf, live, shown, dlq, dropped>>
telemetryVars == <<vars, packetVars, cached, deaf>>

\* "global": the configuration is read; "config", "fetch", "store": the cached
\* variables are read, loaded from the database, and cached; "count": the queues
\* are asked for their length; "live", "expire": the values are cached; "add",
\* "alarm": the jobs are added.  "gone": the process died.
At == {"coming", "global", "config", "fetch", "store", "count", "live", "expire", "add",
       "alarm", "done", "gone"}

TelemetryTypeOK ==
    /\ TypeOK
    /\ pc \in [Packets -> At]
    /\ reply \in [Packets -> {"none", "pending", "done"}]
    /\ cached \in BOOLEAN /\ deaf \in BOOLEAN
    /\ jobOf \in [Packets -> 0 .. added]
    /\ live \subseteq Packets /\ shown \subseteq Packets
    /\ dlq \subseteq Packets /\ dropped \subseteq Packets

TelemetryInit ==
    /\ Init
    /\ pc = [p \in Packets |-> "coming"]
    /\ reply = [p \in Packets |-> "none"]
    /\ jobOf = [p \in Packets |-> 0]
    /\ cached = FALSE /\ deaf = FALSE
    /\ live = {} /\ shown = {} /\ dlq = {} /\ dropped = {}

MoveTo(p, await) == pc' = [pc EXCEPT ![p] = await]

-----------------------------------------------------------------------------
(* handleMessage and updateReadingVariablesByIndex *)

\* A message arrives and is decoded.
Arrive(p) ==
    /\ pc[p] = "coming"
    /\ phase = "up"
    /\ MoveTo(p, "global")
    /\ UNCHANGED <<vars, reply, cached, jobOf, live, shown, dlq, dropped, deaf>>

\* A message that is empty, or too long to be decoded, has no values to update.
Ignore(p) ==
    /\ pc[p] = "coming"
    /\ phase = "up"
    /\ MoveTo(p, "done")
    /\ reply' = [reply EXCEPT ![p] = "pending"]
    /\ dropped' = dropped \cup {p}
    /\ UNCHANGED <<vars, cached, jobOf, live, shown, dlq, deaf>>

\* An await of handleMessage rejects: the message goes to the dead letter file.
FailMessage(p) ==
    /\ pc[p] \in {"global", "config", "fetch", "store"}
    /\ "config" \in Faults
    /\ MoveTo(p, "done")
    /\ dlq' = dlq \cup {p}
    /\ UNCHANGED <<vars, reply, cached, jobOf, live, shown, dropped, deaf>>

\* The configuration has been read, from the cache or the database.
ReadGlobal(p) ==
    /\ pc[p] = "global"
    /\ MoveTo(p, "config")
    /\ UNCHANGED <<vars, reply, cached, jobOf, live, shown, dlq, dropped, deaf>>

\* TELEMETRY_UPDATED is emitted: the listener runs to its first await, or turns
\* the event away, and handleMessage goes on.
Emit(p) ==
    /\ reply' = [reply EXCEPT ![p] = "pending"]
    /\ IF deaf THEN MoveTo(p, "done") /\ dropped' = dropped \cup {p}
               ELSE MoveTo(p, "count") /\ UNCHANGED dropped
    /\ UNCHANGED <<vars, jobOf, live, shown, dlq, deaf>>

ReadConfig(p) ==
    /\ pc[p] = "config"
    /\ IF cached THEN Emit(p)
       ELSE MoveTo(p, "fetch") /\ UNCHANGED <<vars, reply, jobOf, live, shown, dlq, dropped, deaf>>
    /\ UNCHANGED cached

FetchConfig(p) ==
    /\ pc[p] = "fetch"
    /\ MoveTo(p, "store")
    /\ UNCHANGED <<vars, reply, cached, jobOf, live, shown, dlq, dropped, deaf>>

\* The variables are cached for a minute.
StoreConfig(p) ==
    /\ pc[p] = "store"
    /\ cached' = TRUE
    /\ Emit(p)

\* handleMessage reads the writing variables and publishes them.
Reply(p) ==
    /\ reply[p] = "pending"
    /\ reply' = [reply EXCEPT ![p] = "done"]
    /\ UNCHANGED <<vars, pc, cached, jobOf, live, shown, dlq, dropped, deaf>>

\* Or it cannot, and the message goes to the dead letter file although the
\* listener has its values.
FailReply(p) ==
    /\ reply[p] = "pending"
    /\ "reply" \in Faults
    /\ reply' = [reply EXCEPT ![p] = "done"]
    /\ dlq' = dlq \cup {p}
    /\ UNCHANGED <<vars, pc, cached, jobOf, live, shown, dropped, deaf>>

-----------------------------------------------------------------------------
(* handleTelemetryUpdated *)

\* The length of the update queue, what is active included.
Congestion == Len(queue) + (IF job = 0 THEN 0 ELSE 1)

\* Backpressure: the values are dropped if the queue is too long.
Count(p) ==
    /\ pc[p] = "count"
    /\ IF Congestion > MaxQueue THEN MoveTo(p, "done") /\ dropped' = dropped \cup {p}
                                ELSE MoveTo(p, "live") /\ UNCHANGED dropped
    /\ UNCHANGED <<vars, reply, cached, jobOf, live, shown, dlq, deaf>>

\* An await outside the inner try rejects: an error is logged.
FailEvent(p) ==
    /\ \/ pc[p] = "count" /\ "count" \in Faults
       \/ pc[p] \in {"live", "expire"} /\ "live" \in Faults
    /\ MoveTo(p, "done")
    /\ UNCHANGED <<vars, reply, cached, jobOf, live, shown, dlq, dropped, deaf>>

SetLive(p) ==
    /\ pc[p] = "live"
    /\ MoveTo(p, "expire")
    /\ live' = live \cup {p}
    /\ UNCHANGED <<vars, reply, cached, jobOf, shown, dlq, dropped, deaf>>

ExpireLive(p) ==
    /\ pc[p] = "expire"
    /\ MoveTo(p, "add")
    /\ UNCHANGED <<vars, reply, cached, jobOf, live, shown, dlq, dropped, deaf>>

\* A job for the database is queued.
AddUpdate(p) ==
    /\ pc[p] = "add"
    /\ Add(Holds[p])
    /\ jobOf' = [jobOf EXCEPT ![p] = added + 1]
    /\ MoveTo(p, "alarm")
    /\ UNCHANGED <<reply, cached, live, shown, dlq, dropped, deaf>>

\* The values are shown on the screens, and the listener is done.
Show(p) ==
    /\ MoveTo(p, "done")
    /\ shown' = shown \cup {p}
    /\ UNCHANGED <<reply, cached, jobOf, live, dropped, deaf>>

\* An alarm job is queued (AlarmSystem goes on from there).
AddAlarm(p) ==
    /\ pc[p] = "alarm"
    /\ Show(p)
    /\ UNCHANGED <<vars, dlq>>

\* Mutant: a job that cannot be added is only logged.
ForgetJob(p) ==
    /\ pc[p] \in {"add", "alarm"} \cap Faults
    /\ Show(p)
    /\ UNCHANGED <<vars, dlq>>

\* A job cannot be added: the values go to the dead letter file instead.
FailJob(p) ==
    /\ pc[p] \in {"add", "alarm"} \cap Faults
    /\ Show(p)
    /\ dlq' = dlq \cup {p}
    /\ UNCHANGED <<vars>>

Handle(p) ==
    \/ ReadGlobal(p) \/ ReadConfig(p) \/ FetchConfig(p) \/ StoreConfig(p) \/ FailMessage(p)
    \/ Count(p) \/ FailEvent(p) \/ SetLive(p) \/ ExpireLive(p)
    \/ AddUpdate(p) \/ AddAlarm(p) \/ FailJob(p)

Answer(p) == Reply(p) \/ FailReply(p)


-----------------------------------------------------------------------------
(* Shutdown, crash and restart *)

\* onModuleDestroy of the listener comes before onApplicationShutdown of the
\* worker.
Destroy ==
    /\ ~deaf
    /\ stops < MaxStops
    /\ deaf' = TRUE
    /\ UNCHANGED <<vars, packetVars, cached>>

\* The process that ends takes the handlers with it.
HandlersDie ==
    /\ pc' = [p \in Packets |-> IF pc[p] \in {"coming", "done"} THEN pc[p] ELSE "gone"]
    /\ reply' = [p \in Packets |-> IF reply[p] = "pending" THEN "done" ELSE reply[p]]
    /\ deaf' = FALSE
    /\ UNCHANGED <<jobOf, live, shown, dlq, dropped, cached>>

\* A minute after they were cached, or on clearCache, the variables are not.
ExpireConfig ==
    /\ cached
    /\ cached' = FALSE
    /\ UNCHANGED <<vars, packetVars, deaf>>

TelemetryNext ==
    \/ \E p \in Packets : Arrive(p) \/ Ignore(p) \/ Handle(p) \/ Answer(p)
    \/ WorkerStep /\ UNCHANGED <<packetVars, cached, deaf>>
    \/ Destroy
    \/ deaf /\ Shutdown /\ UNCHANGED <<packetVars, cached, deaf>>
    \/ (Exit \/ Crash) /\ HandlersDie
    \/ ExpireConfig

TelemetrySpec == TelemetryInit /\ [][TelemetryNext]_telemetryVars

\* The worker runs, the timer fires, the shutdown hook goes on once the worker has
\* closed, and the database answers every UPDATE; a handler goes on when its await
\* ends, with a result or an error.  Nobody has to send packets.
TelemetryFairness ==
    /\ \A p \in Packets : WF_telemetryVars(Handle(p))
    /\ WF_telemetryVars(TakeJob /\ UNCHANGED <<packetVars, cached, deaf>>)
    /\ WF_telemetryVars(CompleteJob /\ UNCHANGED <<packetVars, cached, deaf>>)
    /\ WF_telemetryVars(FinalFlush /\ UNCHANGED <<packetVars, cached, deaf>>)
    /\ \A q \in Procs : WF_telemetryVars(WriteEnds(q) /\ UNCHANGED <<packetVars, cached, deaf>>)
    /\ \A t \in Ticks : WF_telemetryVars(Tick(t) /\ UNCHANGED <<packetVars, cached, deaf>>)

TelemetryFairSpec == TelemetrySpec /\ TelemetryFairness

-----------------------------------------------------------------------------
(* Properties *)

\* What the screens show has been put into the cache first, and is in the queue
\* of the database or in the dead letter file, whichever await rejects and
\* wherever the process dies: no operator sees a value that is kept nowhere.
ShownIsKept ==
    \A p \in shown :
        p \in live /\ (p \in dlq \/ (jobOf[p] # 0 /\ carries[jobOf[p]] = Holds[p]))

\* What data-source.service.ts:419 promises, "If the DB is down or decoding fails,
\* we CANNOT lose the data": the values of a packet come into the database, or
\* newer ones do, or the packet is in the dead letter file, unless it was dropped
\* by intent.  A batch whose UPDATE failed (variable.worker.ts:127-129) breaks it.
EveryPacketKept ==
    \A p \in Packets :
        pc[p] = "global" ~>
            \/ p \in dlq \cup dropped
            \/ jobOf[p] # 0 /\ \A v \in Holds[p] : db[v] >= jobOf[p]

\* Once no packet comes any more, the table has the last value that was pushed for
\* a variable, however few entries the array has, unless its batch was dropped by
\* an error or a restart or an older UPDATE came after its own (variable.worker.ts
\* flush by the timer, the full array and the shutdown hook).
LastValueSettles == \A v \in Variables : <>[](db[v] = last[v] \/ v \in lost)

=============================================================================
