----------------------------- MODULE AlarmConfig -----------------------------
(***************************************************************************)
(* AlarmConfigService: the requests that acknowledge, create, change and   *)
(* delete alarms, and the warm-up of the alarm cache.  Every request runs  *)
(* next to the others and next to the evaluation workers and is suspended  *)
(* at each await; what it read from the database before an await is what   *)
(* it writes to the cache after it.                                        *)
(***************************************************************************)
EXTENDS AlarmStore

CONSTANTS
    Requests,     \* requests that may be in flight together
    Operations,   \* the operations clients call
    ChunkSize,    \* rows per acknowledge transaction: 100 in the code
    MaxRequests   \* bound: how many requests clients make

Operation == {"acknowledge", "acknowledgeAll", "acknowledgeBatch",
              "create", "update", "remove", "initialize"}

ASSUME ConfigAssumption ==
    /\ Operations \subseteq Operation
    /\ ChunkSize \in Nat \ {0}
    /\ MaxRequests \in Nat

VARIABLES
    issued,   \* how many requests were made
    op,       \* the operation a request runs
    at,       \* the await it is suspended at
    rows,     \* the status rows it read
    list,     \* the alarm list it read
    todo,     \* alarms it has still to acknowledge, to cache or to announce
    chunk,    \* alarms of the last committed chunk, still to be cached
    keys,     \* variables whose alarm list it has still to cache
    removed   \* the alarm it deleted, whose key it has still to drop

configVars == <<issued, op, at, rows, list, todo, chunk, keys, removed>>

RequestPhase == {"idle", "ackTx", "ackCache", "ackEmit",
                 "load", "warm", "cacheConfig", "cacheStatus"}

ConfigTypeOK ==
    /\ issued \in Nat
    /\ op \in [Requests -> Operation \cup {"none"}]
    /\ at \in [Requests -> RequestPhase]
    /\ rows \in [Requests -> [Alarms -> Status \cup {None}]]
    /\ list \in [Requests -> ConfigList]
    /\ todo \in [Requests -> SUBSET Alarms]
    /\ chunk \in [Requests -> SUBSET Alarms]
    /\ keys \in [Requests -> SUBSET Variables]
    /\ removed \in [Requests -> SUBSET Alarms]

RequestsIdle ==
    /\ op = [r \in Requests |-> "none"]
    /\ at = [r \in Requests |-> "idle"]
    /\ rows = [r \in Requests |-> [a \in Alarms |-> None]]
    /\ list = [r \in Requests |-> NoConfig]
    /\ todo = [r \in Requests |-> {}]
    /\ chunk = [r \in Requests |-> {}]
    /\ keys = [r \in Requests |-> {}]
    /\ removed = [r \in Requests |-> {}]

ConfigInit == issued = 0 /\ RequestsIdle

Found(r) == {a \in Alarms : rows[r][a] # None}

\* The event type an acknowledgement logs, from the row read before it.
AckEvent(r, a) ==
    IF op[r] = "acknowledgeAll" \/ rows[r][a].isActive THEN "IA" ELSE "IOA"

\* The sets the next chunk of 100 may be.
Chunks(r) ==
    {S \in SUBSET todo[r] :
        /\ S # {}
        /\ Cardinality(S) =< ChunkSize
        /\ S = todo[r] \/ Cardinality(S) = ChunkSize}

-----------------------------------------------------------------------------

\* A client calls operation o.
Begin(r, o) ==
    /\ at[r] = "idle"
    /\ o \in Operations
    /\ issued < MaxRequests
    /\ issued' = issued + 1
    /\ op' = [op EXCEPT ![r] = o]

\* The request has returned or rejected.
End(r) ==
    /\ op' = [op EXCEPT ![r] = "none"]
    /\ at' = [at EXCEPT ![r] = "idle"]
    /\ rows' = [rows EXCEPT ![r] = [a \in Alarms |-> None]]
    /\ list' = [list EXCEPT ![r] = NoConfig]
    /\ todo' = [todo EXCEPT ![r] = {}]
    /\ chunk' = [chunk EXCEPT ![r] = {}]
    /\ keys' = [keys EXCEPT ![r] = {}]
    /\ removed' = [removed EXCEPT ![r] = {}]
    /\ UNCHANGED issued

\* The rows each acknowledge operation looks up.
Acknowledgeable(o, ids) ==
    {a \in Alarms :
        /\ status[a] # None
        /\ CASE o = "acknowledge"      -> a \in ids
             [] o = "acknowledgeAll"   -> status[a].isActive /\ ~status[a].isAcknowledged
             [] o = "acknowledgeBatch" -> a \in ids /\ ~status[a].isAcknowledged}

\* acknowledge, acknowledgeAll, acknowledgeBatch: read the rows.  With no row
\* the call returns and nothing changes.
ReadAcknowledgeable(r, o, ids) ==
    /\ Begin(r, o)
    /\ o = "acknowledge" => Cardinality(ids) = 1
    /\ LET found == Acknowledgeable(o, ids)
       IN  /\ found # {}
           /\ rows' = [rows EXCEPT ![r] =
                    [a \in Alarms |-> IF a \in found THEN status[a] ELSE None]]
           /\ todo' = [todo EXCEPT ![r] = found]
    /\ at' = [at EXCEPT ![r] = "ackTx"]
    /\ UNCHANGED <<list, chunk, keys, removed, storeVars>>

\* The transaction of one chunk commits.
CommitAck(r) ==
    /\ at[r] = "ackTx"
    /\ \E S \in Chunks(r) :
        /\ AckTx(S, [a \in S |-> AckEvent(r, a)])
        /\ chunk' = [chunk EXCEPT ![r] = S]
        /\ todo' = [todo EXCEPT ![r] = @ \ S]
    /\ at' = [at EXCEPT ![r] = "ackCache"]
    /\ UNCHANGED <<issued, op, rows, list, keys, removed, cacheVars, shown>>

\* It fails for good, and so does the request: later chunks are left alone.
FailAck(r) ==
    /\ at[r] = "ackTx"
    /\ "tx" \in Faults \/ \E S \in Chunks(r) : \E a \in S : status[a] = None
    /\ End(r)
    /\ UNCHANGED storeVars

\* Mutant: the key is set without its TTL.
CacheAckForGood(r) ==
    /\ at[r] = "ackCache"
    /\ \E a \in chunk[r] :
        /\ CacheStatus(a, [rows[r][a] EXCEPT !.isAcknowledged = TRUE], FALSE)
        /\ chunk' = [chunk EXCEPT ![r] = @ \ {a}]
        /\ IF chunk[r] # {a} THEN UNCHANGED <<at, todo>>
           ELSE IF todo[r] # {}
           THEN at' = [at EXCEPT ![r] = "ackTx"] /\ UNCHANGED todo
           ELSE /\ at' = [at EXCEPT ![r] = "ackEmit"]
                /\ todo' = [todo EXCEPT ![r] = Found(r)]
    /\ UNCHANGED <<issued, op, rows, list, keys, removed, dbVars, shown>>

\* One turn of the loop that caches the chunk: acknowledged, and as active as
\* the row was when it was read.
CacheAck(r) ==
    /\ at[r] = "ackCache"
    /\ \E a \in chunk[r] :
        /\ CacheStatus(a, [rows[r][a] EXCEPT !.isAcknowledged = TRUE], TRUE)
        /\ chunk' = [chunk EXCEPT ![r] = @ \ {a}]
        /\ IF chunk[r] # {a} THEN UNCHANGED <<at, todo>>
           ELSE IF todo[r] # {}
           THEN at' = [at EXCEPT ![r] = "ackTx"] /\ UNCHANGED todo
           ELSE /\ at' = [at EXCEPT ![r] = "ackEmit"]
                /\ todo' = [todo EXCEPT ![r] = Found(r)]
    /\ UNCHANGED <<issued, op, rows, list, keys, removed, dbVars, shown>>

\* One turn of the loop that announces the acknowledgements of alarms that
\* still exist.
EmitAck(r) ==
    /\ at[r] = "ackEmit"
    /\ \E a \in todo[r] :
        /\ IF alarm[a].row = "live" THEN Show(a, AckEvent(r, a)) ELSE UNCHANGED shown
        /\ IF todo[r] = {a} THEN End(r)
           ELSE /\ todo' = [todo EXCEPT ![r] = @ \ {a}]
                /\ UNCHANGED <<issued, op, at, rows, list, chunk, keys, removed>>
    /\ UNCHANGED <<dbVars, cacheVars>>

-----------------------------------------------------------------------------

\* create, update, remove: the database first, then refreshAlarmCache.
Refresh(r, a) ==
    /\ at' = [at EXCEPT ![r] = "load"]
    /\ keys' = [keys EXCEPT ![r] = {VariableOf[a]}]
    /\ UNCHANGED <<rows, list, todo, chunk, cacheVars, shown>>

Create(r, a, condition, isEnabled) ==
    /\ Begin(r, "create")
    /\ CreateTx(a, condition, isEnabled)
    /\ Refresh(r, a)
    /\ UNCHANGED removed

Update(r, a, condition, isEnabled) ==
    /\ Begin(r, "update")
    /\ UpdateTx(a, condition, isEnabled)
    /\ Refresh(r, a)
    /\ UNCHANGED removed

Remove(r, a) ==
    /\ Begin(r, "remove")
    /\ DeleteTx(a)
    /\ Refresh(r, a)
    /\ removed' = [removed EXCEPT ![r] = {a}]

\* refreshAlarmCache's findMany, which brings the status rows along.
LoadAlarms(r) ==
    /\ at[r] = "load"
    /\ LET found == EnabledAlarms(keys[r])
       IN  /\ list' = [list EXCEPT ![r] = found]
           /\ rows' = [rows EXCEPT ![r] =
                    [a \in Alarms |-> IF found[a] # None THEN status[a] ELSE None]]
    /\ at' = [at EXCEPT ![r] = "cacheConfig"]
    /\ UNCHANGED <<issued, op, todo, chunk, keys, removed, storeVars>>

\* initialize: the alarms of all variables first, all status rows next.
LoadAllAlarms(r) ==
    /\ Begin(r, "initialize")
    /\ list' = [list EXCEPT ![r] = EnabledAlarms(Variables)]
    /\ keys' = [keys EXCEPT ![r] = {VariableOf[a] : a \in {b \in Alarms : list'[r][b] # None}}]
    /\ at' = [at EXCEPT ![r] = "warm"]
    /\ UNCHANGED <<rows, todo, chunk, removed, storeVars>>

LoadAllStatuses(r) ==
    /\ at[r] = "warm"
    /\ rows' = [rows EXCEPT ![r] = status]
    /\ IF keys[r] # {}
       THEN at' = [at EXCEPT ![r] = "cacheConfig"] /\ UNCHANGED todo
       ELSE /\ at' = [at EXCEPT ![r] = "cacheStatus"]
            /\ todo' = [todo EXCEPT ![r] = {a \in Alarms : status[a] # None}]
    /\ UNCHANGED <<issued, op, list, chunk, keys, removed, storeVars>>

\* The alarm list of one variable is cached.
CacheList(r) ==
    /\ at[r] = "cacheConfig"
    /\ \E v \in keys[r] :
        /\ CacheConfig(v, OfVariable(list[r], v))
        /\ keys' = [keys EXCEPT ![r] = @ \ {v}]
        /\ IF keys[r] # {v} THEN UNCHANGED <<at, todo>>
           ELSE /\ at' = [at EXCEPT ![r] = "cacheStatus"]
                /\ todo' = [todo EXCEPT ![r] = Found(r)]
    /\ UNCHANGED <<issued, op, rows, list, chunk, removed, dbVars, shown>>

\* The status of one alarm is cached, with no TTL argument.
CacheRow(r) ==
    /\ at[r] = "cacheStatus"
    /\ \E a \in todo[r] :
        /\ CacheStatus(a, rows[r][a], FALSE)
        /\ todo' = [todo EXCEPT ![r] = @ \ {a}]
    /\ UNCHANGED <<issued, op, at, rows, list, chunk, keys, removed, dbVars, shown>>

\* The refresh is complete; remove still drops the key of its alarm.
FinishRefresh(r) ==
    /\ at[r] = "cacheStatus"
    /\ todo[r] = {}
    /\ IF removed[r] = {} THEN UNCHANGED cacheVars
       ELSE \E a \in removed[r] : UncacheStatus(a)
    /\ End(r)
    /\ UNCHANGED <<dbVars, shown>>

\* A read or a cache write rejects, and the request with it: what it committed
\* stays, what it had still to cache or to announce does not happen.
FailRequest(r) ==
    /\ at[r] \in RequestPhase \ {"idle", "ackTx"}
    /\ Faults \cap {"cache", "read"} # {}
    /\ End(r)
    /\ UNCHANGED storeVars

ClientStep(r) ==
    \/ \E o \in Operations \cap {"acknowledge", "acknowledgeAll", "acknowledgeBatch"} :
         \E ids \in (SUBSET Alarms) \ {{}} : ReadAcknowledgeable(r, o, ids)
    \/ \E a \in Alarms : \/ Remove(r, a)
                         \/ \E c \in Conditions, e \in BOOLEAN :
                               Create(r, a, c, e) \/ Update(r, a, c, e)
    \/ LoadAllAlarms(r)

RequestStep(r) ==
    \/ CommitAck(r) \/ FailAck(r) \/ CacheAck(r) \/ EmitAck(r)
    \/ LoadAlarms(r) \/ LoadAllStatuses(r) \/ CacheList(r) \/ CacheRow(r)
    \/ FinishRefresh(r) \/ FailRequest(r)

=============================================================================
