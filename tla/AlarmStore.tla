----------------------------- MODULE AlarmStore -----------------------------
(***************************************************************************)
(* What the alarm evaluation workers and the alarm API share: the tables   *)
(* alarms, alarm_status and alarm_history, the cache keys                  *)
(* alarm_config:variable:<id> and alarm_status:<id>, and the state of an   *)
(* alarm on the operators' screens.  The operators below are the           *)
(* transactions, cache accesses and notifications both sides are built     *)
(* from; a transaction of the database is one step.                        *)
(***************************************************************************)
EXTENDS Integers, Sequences, FiniteSets

CONSTANTS
    Alarms,      \* alarm ids
    ReuseIds,    \* whether clients give a new alarm the id of a deleted one
    Variables,   \* reading variable ids
    VariableOf,  \* the reading variable an alarm watches
    Conditions,  \* (conditionType, thresholdValue) pairs an alarm may carry
    Values,      \* telemetry values, after Number()
    NaN,         \* Number() of a value that is not a number
    None,        \* undefined or null: no row, no cache entry, no alarm
    Faults       \* which awaits may reject: transactions, cache writes, reads

ConditionType == {"GT", "LT", "GTE", "LTE", "EQ", "NEQ"}
Status == [isActive : BOOLEAN, isAcknowledged : BOOLEAN]
ConfigList == [Alarms -> Conditions \cup {None}]

ASSUME StoreAssumption ==
    /\ VariableOf \in [Alarms -> Variables]
    /\ Conditions \subseteq [conditionType : ConditionType, thresholdValue : Int]
    /\ Values \subseteq Int \cup {NaN}
    /\ NaN \notin Int
    /\ None \notin Status
    /\ None \notin Conditions
    /\ None \notin ConfigList
    /\ ReuseIds \in BOOLEAN
    /\ Faults \subseteq {"tx", "cache", "read"}

EventType == {"I", "IO", "IA", "IOA", "IAO"}
ClearEvents == {"IO", "IAO"}
AckEvents == {"IA", "IOA"}

Inactive == [isActive |-> FALSE, isAcknowledged |-> FALSE]
NoConfig == [a \in Alarms |-> None]

VARIABLES
    alarm,        \* alarms: row state, condition and isEnabled of every id
    status,       \* alarm_status, None where there is no row
    history,      \* alarm_history: the event types logged for an alarm
    configCache,  \* alarm_config:variable:<id>, None on a miss
    statusCache,  \* alarm_status:<id>, None on a miss
    expiring,     \* alarms whose alarm_status key was set with a TTL
    shown         \* the lane the UI last put an alarm in

dbVars == <<alarm, status, history>>
cacheVars == <<configCache, statusCache, expiring>>
storeVars == <<alarm, status, history, configCache, statusCache, expiring, shown>>

AlarmRow == [row : {"new", "live", "gone"}, condition : Conditions, isEnabled : BOOLEAN]

StoreTypeOK ==
    /\ alarm \in [Alarms -> AlarmRow]
    /\ status \in [Alarms -> Status \cup {None}]
    /\ history \in [Alarms -> Seq(EventType)]
    /\ configCache \in [Variables -> ConfigList \cup {None}]
    /\ statusCache \in [Alarms -> Status \cup {None}]
    /\ expiring \in SUBSET Alarms
    /\ shown \in [Alarms -> {"none", "triggered", "cleared"}]

\* A database in which some alarms have been created and nothing has happened
\* to them yet, and the empty cache initializeSystem starts from.
StoreInit ==
    /\ alarm \in [Alarms -> [row : {"new", "live"}, condition : Conditions, isEnabled : {TRUE}]]
    /\ status = [a \in Alarms |-> IF alarm[a].row = "live" THEN Inactive ELSE None]
    /\ history = [a \in Alarms |-> <<>>]
    /\ configCache = [v \in Variables |-> None]
    /\ statusCache = [a \in Alarms |-> None]
    /\ expiring = {}
    /\ shown = [a \in Alarms |-> "none"]

-----------------------------------------------------------------------------
(* Pure helpers *)

\* The rule the engine runs: conditionType names the operator.
Met(c, val) ==
    \/ c.conditionType = "GT" /\ val > c.thresholdValue
    \/ c.conditionType = "LT" /\ val < c.thresholdValue
    \/ c.conditionType = "GTE" /\ val >= c.thresholdValue
    \/ c.conditionType = "LTE" /\ val =< c.thresholdValue
    \/ c.conditionType = "EQ" /\ val = c.thresholdValue
    \/ c.conditionType = "NEQ" /\ val # c.thresholdValue

\* The event a screen gets for a log type.
Lane(type) == IF type \in {"I", "IA"} THEN "triggered" ELSE "cleared"

\* The enabled alarms of the variables in vs, as findMany returns them.
EnabledAlarms(vs) ==
    [a \in Alarms |->
        IF VariableOf[a] \in vs /\ alarm[a].row = "live" /\ alarm[a].isEnabled
        THEN alarm[a].condition
        ELSE None]

\* The alarms of variable v among those of a list.
OfVariable(list, v) ==
    [a \in Alarms |-> IF VariableOf[a] = v THEN list[a] ELSE None]

-----------------------------------------------------------------------------
(* Transactions *)

\* Mutant: the row update commits, the log entry does not.
TriggerUnlogged(a, active, type) ==
    /\ status[a] # None
    /\ status' = [status EXCEPT ![a] =
                    [isActive |-> active,
                     isAcknowledged |-> ~active /\ @.isAcknowledged]]
    /\ UNCHANGED <<alarm, history>>

\* trigger()'s transaction: a row update and a log entry, or nothing.
TriggerTx(a, active, type) ==
    /\ status[a] # None
    /\ status' = [status EXCEPT ![a] =
                    [isActive |-> active,
                     isAcknowledged |-> ~active /\ @.isAcknowledged]]
    /\ history' = [history EXCEPT ![a] = Append(@, type)]
    /\ UNCHANGED alarm

\* Mutant: an acknowledgement is not logged.
AckUnlogged(S, type) ==
    /\ \A a \in S : status[a] # None
    /\ status' = [a \in Alarms |->
                    IF a \in S THEN [isActive |-> status[a].isActive, isAcknowledged |-> TRUE]
                               ELSE status[a]]
    /\ UNCHANGED <<alarm, history>>

\* An acknowledge transaction over the alarms of S, type[a] being logged for a.
\* The log row of a deleted alarm breaks its foreign key and fails all of it.
AckTx(S, type) ==
    /\ \A a \in S : status[a] # None
    /\ status' = [a \in Alarms |->
                    IF a \in S THEN [isActive |-> status[a].isActive, isAcknowledged |-> TRUE]
                               ELSE status[a]]
    /\ history' = [a \in Alarms |->
                    IF a \in S THEN Append(history[a], type[a]) ELSE history[a]]
    /\ UNCHANGED alarm

\* create(): the alarm and its status row in one transaction.  The id is new,
\* by autoincrement, unless the request names one.
CreateTx(a, condition, isEnabled) ==
    /\ alarm[a].row = "new" \/ (ReuseIds /\ alarm[a].row = "gone")
    /\ alarm' = [alarm EXCEPT ![a] =
            [row |-> "live", condition |-> condition, isEnabled |-> isEnabled]]
    /\ status' = [status EXCEPT ![a] = Inactive]
    /\ UNCHANGED history

\* update(): never touches the status row.
UpdateTx(a, condition, isEnabled) ==
    /\ alarm[a].row = "live"
    /\ alarm' = [alarm EXCEPT ![a].condition = condition, ![a].isEnabled = isEnabled]
    /\ UNCHANGED <<status, history>>

\* remove(): the status row and the log go with the alarm (onDelete: Cascade).
DeleteTx(a) ==
    /\ alarm[a].row = "live"
    /\ alarm' = [alarm EXCEPT ![a].row = "gone"]
    /\ status' = [status EXCEPT ![a] = None]
    /\ history' = [history EXCEPT ![a] = <<>>]

-----------------------------------------------------------------------------
(* Cache *)

\* cacheService.set of an alarm_status key, with or without a TTL argument.
CacheStatus(a, s, ttl) ==
    /\ statusCache' = [statusCache EXCEPT ![a] = s]
    /\ expiring' = IF ttl THEN expiring \cup {a} ELSE expiring \ {a}
    /\ UNCHANGED configCache

\* cacheService.set of an alarm_config:variable key.
CacheConfig(v, list) ==
    /\ configCache' = [configCache EXCEPT ![v] = list]
    /\ UNCHANGED <<statusCache, expiring>>

\* cacheService.del of an alarm_status key.
UncacheStatus(a) ==
    /\ statusCache' = [statusCache EXCEPT ![a] = None]
    /\ expiring' = expiring \ {a}
    /\ UNCHANGED configCache

\* A key set with a TTL expires.
ExpireStatus(a) ==
    /\ a \in expiring
    /\ UncacheStatus(a)
    /\ UNCHANGED <<alarm, status, history, shown>>

ExpireConfig(v) ==
    /\ configCache[v] # None
    /\ CacheConfig(v, None)
    /\ UNCHANGED <<alarm, status, history, shown>>

\* clearCache() empties everything; so does a restart without Redis.
ClearCache ==
    /\ configCache' = [v \in Variables |-> None]
    /\ statusCache' = [a \in Alarms |-> None]
    /\ expiring' = {}
    /\ UNCHANGED <<alarm, status, history, shown>>

\* eventBus.emit, delivered synchronously to AlarmListener.
Show(a, type) == shown' = [shown EXCEPT ![a] = Lane(type)]

=============================================================================
