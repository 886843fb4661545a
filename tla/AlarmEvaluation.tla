--------------------------- MODULE AlarmEvaluation ---------------------------
(***************************************************************************)
(* AlarmWorker and AlarmEvaluationService: the slots of the                *)
(* alarm-evaluation queue's worker take evaluate-batch jobs, and each runs *)
(* handleBatchUpdated, suspending at every await, so that the steps of two *)
(* slots and of the alarm API interleave.  A slot reads configurations and *)
(* statuses once (a snapshot) and evaluates all alarms of its batch        *)
(* against it concurrently.                                                *)
(***************************************************************************)
EXTENDS AlarmStore

CONSTANTS
    Slots,    \* the worker's concurrency: { alarm: concurrency 2 } in the code
    MaxJobs   \* bound: how many batches telemetry submits

ASSUME EvaluationAssumption == MaxJobs \in Nat

\* One value for each of some variables: what TelemetryListener enqueues.
Batch == UNION {[S -> Values] : S \in (SUBSET Variables) \ {{}}}

VARIABLES
    queue,      \* waiting evaluate-batch jobs, oldest first
    submitted,  \* how many were ever enqueued
    pc,         \* the await each slot is suspended at
    batch,      \* the job a slot processes
    config,     \* alarmConfigsMap, flattened to alarms
    missing,    \* missingIds whose list is still to be fetched or cached
    snapshot,   \* statusMap
    pending,    \* alarms whose status is to be loaded or cached, then evaluated
    committed   \* alarms whose trigger() has committed but not yet published

slotVars == <<pc, batch, config, missing, snapshot, pending, committed>>
evalVars == <<queue, submitted, slotVars>>

SlotPhase == {"idle", "config", "fetch", "store", "status", "load", "keep", "evaluate"}
NoStatus == [a \in Alarms |-> None]

EvalTypeOK ==
    /\ queue \in Seq(Batch)
    /\ submitted \in Nat
    /\ pc \in [Slots -> SlotPhase]
    /\ batch \in [Slots -> Batch \cup {<<>>}]
    /\ config \in [Slots -> ConfigList]
    /\ missing \in [Slots -> SUBSET Variables]
    /\ snapshot \in [Slots -> [Alarms -> Status \cup {None}]]
    /\ pending \in [Slots -> SUBSET Alarms]
    /\ committed \in [Slots -> SUBSET Alarms]

SlotsIdle ==
    /\ pc = [w \in Slots |-> "idle"]
    /\ batch = [w \in Slots |-> <<>>]
    /\ config = [w \in Slots |-> NoConfig]
    /\ missing = [w \in Slots |-> {}]
    /\ snapshot = [w \in Slots |-> NoStatus]
    /\ pending = [w \in Slots |-> {}]
    /\ committed = [w \in Slots |-> {}]

EvalInit == queue = <<>> /\ submitted = 0 /\ SlotsIdle

Configured(list) == {a \in Alarms : list[a] # None}

\* statusMap.get(id), with its default for an alarm without a status row.
StatusSeen(w, a) == IF snapshot[w][a] = None THEN Inactive ELSE snapshot[w][a]

\* evaluateAlarm(): the value is a number and the alarm's state flipped.
Flips(w, a) ==
    LET val == batch[w][VariableOf[a]]
    IN  val # NaN /\ Met(config[w][a], val) # StatusSeen(w, a).isActive

\* trigger()'s active and eventType.
Activates(w, a) == ~StatusSeen(w, a).isActive

TriggerEvent(w, a) ==
    IF Activates(w, a) THEN "I"
    ELSE IF StatusSeen(w, a).isAcknowledged THEN "IAO" ELSE "IO"

-----------------------------------------------------------------------------

\* TelemetryListener enqueues an evaluate-batch job.
Submit(b) ==
    /\ submitted < MaxJobs
    /\ submitted' = submitted + 1
    /\ queue' = Append(queue, b)
    /\ UNCHANGED <<slotVars, storeVars>>

\* A free slot takes the oldest job.
TakeJob(w) ==
    /\ pc[w] = "idle"
    /\ queue # <<>>
    /\ queue' = Tail(queue)
    /\ batch' = [batch EXCEPT ![w] = Head(queue)]
    /\ pc' = [pc EXCEPT ![w] = "config"]
    /\ UNCHANGED <<submitted, config, missing, snapshot, pending, committed, storeVars>>

\* The slot is done with its job, however it ended.
Release(w) ==
    /\ pc' = [pc EXCEPT ![w] = "idle"]
    /\ batch' = [batch EXCEPT ![w] = <<>>]
    /\ config' = [config EXCEPT ![w] = NoConfig]
    /\ missing' = [missing EXCEPT ![w] = {}]
    /\ snapshot' = [snapshot EXCEPT ![w] = NoStatus]
    /\ pending' = [pending EXCEPT ![w] = {}]
    /\ committed' = [committed EXCEPT ![w] = {}]
    /\ UNCHANGED <<queue, submitted>>

\* Once the configurations are known: evaluate (nothing) if there are no alarms.
AfterConfigs(w, list) ==
    pc' = [pc EXCEPT ![w] = IF Configured(list) = {} THEN "evaluate" ELSE "status"]

\* mget of the batch's alarm_config keys; the misses go to the database.
ReadConfigs(w) ==
    /\ pc[w] = "config"
    /\ LET misses == {v \in DOMAIN batch[w] : configCache[v] = None}
           list == [a \in Alarms |->
                      IF VariableOf[a] \in DOMAIN batch[w] \ misses
                      THEN configCache[VariableOf[a]][a]
                      ELSE None]
       IN  /\ config' = [config EXCEPT ![w] = list]
           /\ missing' = [missing EXCEPT ![w] = misses]
           /\ IF misses = {} THEN AfterConfigs(w, list)
                             ELSE pc' = [pc EXCEPT ![w] = "fetch"]
    /\ UNCHANGED <<queue, submitted, batch, snapshot, pending, committed, storeVars>>

\* findMany of the enabled alarms of the missing variables.
FetchConfigs(w) ==
    /\ pc[w] = "fetch"
    /\ config' = [config EXCEPT ![w] =
            [a \in Alarms |-> IF VariableOf[a] \in missing[w]
                              THEN EnabledAlarms(missing[w])[a]
                              ELSE @[a]]]
    /\ pc' = [pc EXCEPT ![w] = "store"]
    /\ UNCHANGED <<queue, submitted, batch, missing, snapshot, pending, committed, storeVars>>

\* One turn of the loop that caches the fetched lists, empty ones included.
StoreConfig(w) ==
    /\ pc[w] = "store"
    /\ \E v \in missing[w] :
        /\ CacheConfig(v, OfVariable(config[w], v))
        /\ missing' = [missing EXCEPT ![w] = @ \ {v}]
        /\ IF missing[w] = {v} THEN AfterConfigs(w, config[w]) ELSE UNCHANGED pc
    /\ UNCHANGED <<queue, submitted, batch, config, snapshot, pending, committed,
                   dbVars, shown>>

\* mget of the alarm_status keys: the snapshot, and the misses still to load.
ReadStatuses(w) ==
    /\ pc[w] = "status"
    /\ LET alarms == Configured(config[w])
           misses == {a \in alarms : statusCache[a] = None}
       IN  /\ snapshot' = [snapshot EXCEPT ![w] =
                    [a \in Alarms |-> IF a \in alarms THEN statusCache[a] ELSE None]]
           /\ pending' = [pending EXCEPT ![w] = IF misses = {} THEN alarms ELSE misses]
           /\ pc' = [pc EXCEPT ![w] = IF misses = {} THEN "evaluate" ELSE "load"]
    /\ UNCHANGED <<queue, submitted, batch, config, missing, committed, storeVars>>

\* findMany of the missing status rows; rows that do not exist are not cached.
LoadStatuses(w) ==
    /\ pc[w] = "load"
    /\ LET rows == {a \in pending[w] : status[a] # None}
       IN  /\ snapshot' = [snapshot EXCEPT ![w] =
                    [a \in Alarms |-> IF a \in pending[w] THEN status[a] ELSE @[a]]]
           /\ pending' = [pending EXCEPT ![w] = IF rows = {} THEN Configured(config[w]) ELSE rows]
           /\ pc' = [pc EXCEPT ![w] = IF rows = {} THEN "evaluate" ELSE "keep"]
    /\ UNCHANGED <<queue, submitted, batch, config, missing, committed, storeVars>>

\* One turn of the loop that caches the loaded rows.
StoreStatus(w) ==
    /\ pc[w] = "keep"
    /\ \E a \in pending[w] :
        /\ CacheStatus(a, snapshot[w][a], TRUE)
        /\ pending' = [pending EXCEPT ![w] =
                IF @ = {a} THEN Configured(config[w]) ELSE @ \ {a}]
        /\ pc' = [pc EXCEPT ![w] = IF pending[w] = {a} THEN "evaluate" ELSE @]
    /\ UNCHANGED <<queue, submitted, batch, config, missing, snapshot, committed,
                   dbVars, shown>>

Evaluated(w, a) ==
    /\ pc[w] = "evaluate"
    /\ a \in pending[w]
    /\ pending' = [pending EXCEPT ![w] = @ \ {a}]
    /\ UNCHANGED <<queue, submitted, pc, batch, config, missing, snapshot>>

\* evaluateAlarm() of an alarm that stays as it is.
KeepState(w, a) ==
    /\ Evaluated(w, a)
    /\ ~Flips(w, a)
    /\ UNCHANGED <<committed, storeVars>>

\* trigger(): the transaction commits, whichever of its attempts it is.
CommitTrigger(w, a) ==
    /\ Evaluated(w, a)
    /\ Flips(w, a)
    /\ TriggerTx(a, Activates(w, a), TriggerEvent(w, a))
    /\ committed' = [committed EXCEPT ![w] = @ \cup {a}]
    /\ UNCHANGED <<cacheVars, shown>>

\* Mutant: the cache write and the event are outside the try.
FailTriggerShown(w, a) ==
    /\ Evaluated(w, a)
    /\ Flips(w, a)
    /\ status[a] = None \/ "tx" \in Faults
    /\ CacheStatus(a, [isActive |-> Activates(w, a), isAcknowledged |-> FALSE], TRUE)
    /\ Show(a, TriggerEvent(w, a))
    /\ UNCHANGED <<committed, dbVars>>

\* trigger(): every attempt fails, or there is no row; the error is logged.
FailTrigger(w, a) ==
    /\ Evaluated(w, a)
    /\ Flips(w, a)
    /\ status[a] = None \/ "tx" \in Faults
    /\ UNCHANGED <<committed, storeVars>>

Published(w, a) ==
    /\ a \in committed[w]
    /\ committed' = [committed EXCEPT ![w] = @ \ {a}]
    /\ UNCHANGED <<queue, submitted, pc, batch, config, missing, snapshot, pending, dbVars>>

\* trigger(): the new status is cached, then the event goes out.
PublishTrigger(w, a) ==
    /\ Published(w, a)
    /\ CacheStatus(a, [isActive |-> Activates(w, a),
                       isAcknowledged |-> ~Activates(w, a) /\ StatusSeen(w, a).isAcknowledged],
                   TRUE)
    /\ Show(a, TriggerEvent(w, a))

\* trigger(): the cache write rejects inside the same try, so no event goes out.
FailPublish(w, a) ==
    /\ Published(w, a)
    /\ "cache" \in Faults
    /\ UNCHANGED <<cacheVars, shown>>

\* Promise.all resolves and the job completes.
FinishJob(w) ==
    /\ pc[w] = "evaluate"
    /\ pending[w] = {} /\ committed[w] = {}
    /\ Release(w)
    /\ UNCHANGED storeVars

\* A read or cache write before the evaluation rejects: the job fails, and no
\* attempts option asks the queue to run it again.
AbandonJob(w) ==
    /\ "read" \in Faults
    /\ pc[w] \in SlotPhase \ {"idle", "evaluate"}
    /\ Release(w)
    /\ UNCHANGED storeVars

SlotStep(w) ==
    \/ TakeJob(w)
    \/ ReadConfigs(w) \/ FetchConfigs(w) \/ StoreConfig(w)
    \/ ReadStatuses(w) \/ LoadStatuses(w) \/ StoreStatus(w)
    \/ \E a \in Alarms : \/ KeepState(w, a)
                         \/ CommitTrigger(w, a) \/ FailTrigger(w, a)
                         \/ PublishTrigger(w, a) \/ FailPublish(w, a)
    \/ FinishJob(w) \/ AbandonJob(w)

=============================================================================
