----------------------------- MODULE AlarmSystem -----------------------------
(***************************************************************************)
(* The evaluation workers and the alarm API over one database and cache,   *)
(* with key expiry, clearCache() calls of other services and crashes of    *)
(* the process.                                                            *)
(***************************************************************************)
EXTENDS AlarmEvaluation, AlarmConfig

CONSTANT MaxCrashes   \* bound: how often the process dies

ASSUME SystemAssumption == MaxCrashes \in Nat

VARIABLES
    crashes,   \* how often it died
    stalled    \* the job each slot held when the process died, not yet requeued

vars == <<storeVars, evalVars, configVars, crashes, stalled>>

TypeOK ==
    /\ StoreTypeOK /\ EvalTypeOK /\ ConfigTypeOK
    /\ crashes \in Nat
    /\ stalled \in [Slots -> Batch \cup {<<>>}]

Init ==
    /\ StoreInit /\ EvalInit /\ ConfigInit
    /\ crashes = 0
    /\ stalled = [w \in Slots |-> <<>>]

-----------------------------------------------------------------------------

Telemetry == (\E b \in Batch : Submit(b)) /\ UNCHANGED <<configVars, crashes, stalled>>

Evaluate(w) == SlotStep(w) /\ UNCHANGED <<configVars, crashes, stalled>>

Call(r) == ClientStep(r) /\ UNCHANGED <<evalVars, crashes, stalled>>

Serve(r) == RequestStep(r) /\ UNCHANGED <<evalVars, crashes, stalled>>

Expire ==
    /\ (\E a \in Alarms : ExpireStatus(a)) \/ (\E v \in Variables : ExpireConfig(v))
    /\ UNCHANGED <<evalVars, configVars, crashes, stalled>>

\* initializeSystem() makes ReadingVariablesService clear the whole cache.
Clear == ClearCache /\ UNCHANGED <<evalVars, configVars, crashes, stalled>>

\* The process dies: slots and requests are gone, the queue is in Redis; the
\* cache survives if it is in Redis too, and not in the degraded mode.
Crash ==
    /\ crashes < MaxCrashes
    /\ crashes' = crashes + 1
    /\ stalled' = [w \in Slots |-> IF pc[w] = "idle" THEN stalled[w] ELSE batch[w]]
    /\ pc' = [w \in Slots |-> "idle"]
    /\ batch' = [w \in Slots |-> <<>>]
    /\ config' = [w \in Slots |-> NoConfig]
    /\ missing' = [w \in Slots |-> {}]
    /\ snapshot' = [w \in Slots |-> NoStatus]
    /\ pending' = [w \in Slots |-> {}]
    /\ committed' = [w \in Slots |-> {}]
    /\ op' = [r \in Requests |-> "none"]
    /\ at' = [r \in Requests |-> "idle"]
    /\ rows' = [r \in Requests |-> NoStatus]
    /\ list' = [r \in Requests |-> NoConfig]
    /\ todo' = [r \in Requests |-> {}]
    /\ chunk' = [r \in Requests |-> {}]
    /\ keys' = [r \in Requests |-> {}]
    /\ removed' = [r \in Requests |-> {}]
    /\ ClearCache \/ UNCHANGED storeVars
    /\ UNCHANGED <<queue, submitted, issued>>

\* The queue's stalled check puts the job of a dead worker back in front, or
\* fails it when it has stalled before.
Recover(w) ==
    /\ stalled[w] # <<>>
    /\ stalled' = [stalled EXCEPT ![w] = <<>>]
    /\ queue' = <<stalled[w]>> \o queue \/ UNCHANGED queue
    /\ UNCHANGED <<submitted, slotVars, configVars, crashes, storeVars>>

\* Nothing is in flight and the bounded supply of work is used up.
Idle ==
    /\ queue = <<>> /\ submitted = MaxJobs
    /\ \A w \in Slots : pc[w] = "idle" /\ stalled[w] = <<>>
    /\ \A r \in Requests : at[r] = "idle"
    /\ UNCHANGED vars

Next ==
    \/ Telemetry
    \/ \E w \in Slots : Evaluate(w) \/ Recover(w)
    \/ \E r \in Requests : Call(r) \/ Serve(r)
    \/ Expire \/ Clear \/ Crash \/ Idle

Spec == Init /\ [][Next]_vars

\* The event loop runs every slot and request that is not waiting for work,
\* Redis times out every key that has a TTL and requeues stalled jobs; what
\* clients, telemetry and failures do is not fair.
Fairness ==
    /\ \A w \in Slots : WF_vars(Evaluate(w)) /\ WF_vars(Recover(w))
    /\ \A r \in Requests : WF_vars(Serve(r))
    /\ \A a \in Alarms : WF_vars(ExpireStatus(a) /\ UNCHANGED <<evalVars, configVars, crashes, stalled>>)

FairSpec == Spec /\ Fairness

-----------------------------------------------------------------------------
(* Properties of the whole system *)

Journal == INSTANCE AlarmJournal

\* Every step of the workers, the requests, the cache and the failures is, for
\* alarm_status and alarm_history, one transaction of AlarmJournal or none at
\* all: trigger(), acknowledge*() and the CRUD calls never let them part.
JournalSpec == Journal!Spec

\* The status row says what replaying the alarm's log says, whoever raced to
\* write them (alarm-evaluation.service.ts trigger, alarm-config.service.ts
\* acknowledge, acknowledgeAll, acknowledgeBatch, create, remove).
StatusMatchesLog == Journal!StatusMatchesLog

Logged(a, events) == \E i \in 1..Len(history[a]) : history[a][i] \in events

\* What a status read or cached at some time claims is borne out by the log.
Evidenced(a, s) ==
    /\ s.isActive => Logged(a, {"I"})
    /\ s.isAcknowledged => Logged(a, AckEvents)

\* However stale, a cached status never claims an activation or an
\* acknowledgement that did not commit, and no screen shows one: trigger() and
\* the acknowledge calls write the cache and emit only after the commit.
CacheNeverInvents ==
    \A a \in Alarms : status[a] # None =>
        /\ statusCache[a] # None => Evidenced(a, statusCache[a])
        /\ shown[a] = "triggered" => Logged(a, {"I", "IA"})

\* The first n entries of a log leave its alarm activated.
Raised(h, n) == \E i \in 1..n : h[i] = "I" /\ \A j \in i + 1 .. n : h[j] \notin ClearEvents

\* What alarm-evaluation.service.ts:176-178 promises, "We only trigger state changes
\* if the alarm status actually flipped": no alarm is activated twice without
\* having been cleared in between, nor cleared twice.  Two slots that both read
\* the status before either commits break it.
Alternates(h) ==
    \A n \in 1..Len(h) :
        /\ h[n] = "I" => ~Raised(h, n - 1)
        /\ h[n] \in ClearEvents => Raised(h, n - 1)
NoRedundantTrigger == \A a \in Alarms : Alternates(history[a])

\* Once requests stop coming, a stale status does not stay in the cache: every
\* key written by trigger() and the acknowledge calls has a TTL.
StaleStatusHeals ==
    \A a \in Alarms :
        <>[](statusCache[a] \in {None, status[a]})

=============================================================================
