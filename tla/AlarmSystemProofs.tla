-------------------------- MODULE AlarmSystemProofs --------------------------
(***************************************************************************)
(* Proofs about AlarmSystem for any number of alarms, slots and requests:  *)
(* its type invariant, that it implements AlarmJournal, whence every       *)
(* status row equals its replayed log, and that the cache never shows a    *)
(* status the log does not justify.                                        *)
(***************************************************************************)
EXTENDS AlarmSystem, TLAPS

-----------------------------------------------------------------------------
(* Types of the helpers *)

\* The lists of alarm configurations the code builds have their type.
LEMMA ListTypes ==
    ASSUME TypeOK
    PROVE  /\ NoConfig \in ConfigList
           /\ NoStatus \in [Alarms -> Status \cup {None}]
           /\ Inactive \in Status
           /\ \A vs : EnabledAlarms(vs) \in ConfigList
           /\ \A l \in ConfigList : \A v : OfVariable(l, v) \in ConfigList
<1>1. NoConfig \in ConfigList /\ NoStatus \in [Alarms -> Status \cup {None}]
  BY DEF NoConfig, NoStatus, ConfigList
<1>2. Inactive \in Status
  BY DEF Inactive, Status
<1>3. \A vs : EnabledAlarms(vs) \in ConfigList
  BY DEF EnabledAlarms, ConfigList, TypeOK, StoreTypeOK, AlarmRow
<1>4. \A l \in ConfigList : \A v : OfVariable(l, v) \in ConfigList
  BY DEF OfVariable, ConfigList
<1>5. QED
  BY <1>1, <1>2, <1>3, <1>4

\* What evaluateAlarm() and trigger() derive from the snapshot has its type.
LEMMA SeenType ==
    ASSUME TypeOK, NEW w \in Slots, NEW a \in Alarms
    PROVE  /\ StatusSeen(w, a) \in Status
           /\ Activates(w, a) \in BOOLEAN
           /\ TriggerEvent(w, a) \in EventType
           /\ TriggerEvent(w, a) = "I" <=> Activates(w, a)
           /\ TriggerEvent(w, a) \in ClearEvents <=> ~Activates(w, a)
<1>1. StatusSeen(w, a) \in Status
  BY ListTypes DEF StatusSeen, TypeOK, EvalTypeOK
<1>2. QED
  BY <1>1 DEF Activates, TriggerEvent, EventType, ClearEvents, Status

\* An acknowledgement logs one of the two acknowledge events.
LEMMA AckEventType ==
    ASSUME NEW r \in Requests, NEW a \in Alarms
    PROVE  AckEvent(r, a) \in AckEvents /\ AckEvent(r, a) \in EventType
BY DEF AckEvent, AckEvents, EventType

-----------------------------------------------------------------------------
(* The type invariant *)

\* The default status is a status, and no missing row.
LEMMA InactiveIsStatus == Inactive \in Status /\ Inactive # None
<1>1. Inactive \in Status
  BY DEF Inactive, Status
<1>2. QED
  BY <1>1, StoreAssumption

\* The initial states are well typed.
LEMMA InitType == Init => TypeOK
<1> SUFFICES ASSUME Init PROVE TypeOK
  OBVIOUS
<1>1. Inactive \in Status
  BY DEF Inactive, Status
<1>2. StoreTypeOK
  <2>1. alarm \in [Alarms -> AlarmRow]
    BY DEF Init, StoreInit, AlarmRow
  <2>2. /\ status \in [Alarms -> Status \cup {None}]
        /\ history \in [Alarms -> Seq(EventType)]
        /\ statusCache \in [Alarms -> Status \cup {None}]
    BY <1>1 DEF Init, StoreInit
  <2>3. /\ configCache \in [Variables -> ConfigList \cup {None}]
        /\ expiring \in SUBSET Alarms
        /\ shown \in [Alarms -> {"none", "triggered", "cleared"}]
    BY DEF Init, StoreInit
  <2>4. QED
    BY <2>1, <2>2, <2>3 DEF StoreTypeOK
<1>3. EvalTypeOK
  BY DEF Init, EvalInit, SlotsIdle, EvalTypeOK, SlotPhase, NoConfig, NoStatus, ConfigList
<1>4. ConfigTypeOK
  BY DEF Init, ConfigInit, RequestsIdle, ConfigTypeOK, RequestPhase, NoConfig, ConfigList
<1>5. QED
  BY <1>2, <1>3, <1>4 DEF Init, TypeOK

\* The operators that write the store keep its types.
LEMMA StoreWrites ==
    ASSUME TypeOK
    PROVE  /\ UNCHANGED storeVars => StoreTypeOK'
           /\ \A v \in Variables, l \in ConfigList \cup {None} :
                CacheConfig(v, l) /\ UNCHANGED <<dbVars, shown>> => StoreTypeOK'
           /\ \A a \in Alarms, s \in Status \cup {None}, ttl \in BOOLEAN :
                CacheStatus(a, s, ttl) /\ UNCHANGED <<dbVars, shown>> => StoreTypeOK'
           /\ \A a \in Alarms :
                UncacheStatus(a) /\ UNCHANGED <<dbVars, shown>> => StoreTypeOK'
           /\ ClearCache => StoreTypeOK'
<1>1. UNCHANGED storeVars => StoreTypeOK'
  BY DEF storeVars, TypeOK, StoreTypeOK
<1>2. ASSUME NEW v \in Variables, NEW l \in ConfigList \cup {None},
             CacheConfig(v, l), UNCHANGED <<dbVars, shown>>
      PROVE  StoreTypeOK'
  BY <1>2 DEF CacheConfig, dbVars, TypeOK, StoreTypeOK
<1>3. ASSUME NEW a \in Alarms, NEW s \in Status \cup {None}, NEW ttl \in BOOLEAN,
             CacheStatus(a, s, ttl), UNCHANGED <<dbVars, shown>>
      PROVE  StoreTypeOK'
  BY <1>3 DEF CacheStatus, dbVars, TypeOK, StoreTypeOK
<1>4. ASSUME NEW a \in Alarms, UncacheStatus(a), UNCHANGED <<dbVars, shown>>
      PROVE  StoreTypeOK'
  BY <1>4 DEF UncacheStatus, dbVars, TypeOK, StoreTypeOK
<1>5. ASSUME ClearCache
      PROVE  StoreTypeOK'
  BY <1>5 DEF ClearCache, TypeOK, StoreTypeOK
<1>6. QED
  BY <1>1, <1>2, <1>3, <1>4, <1>5

\* A request has a row for every alarm it has still to acknowledge, cache or
\* announce; before it has read any it has none to work on.
RowsKnown ==
    \A r \in Requests :
        /\ todo[r] \cup chunk[r] \subseteq Found(r)
        /\ at[r] \in {"idle", "load", "warm", "cacheConfig"} => todo[r] = {} /\ chunk[r] = {}

\* An alarm has a status row exactly as long as it exists.
StatusPerAlarm == \A a \in Alarms : alarm[a].row = "live" <=> status[a] # None

IInv == TypeOK /\ RowsKnown /\ StatusPerAlarm

\* A slot that ends its job keeps the types.
LEMMA ReleaseType ==
    ASSUME TypeOK, NEW w \in Slots, Release(w)
    PROVE  EvalTypeOK'
BY ListTypes DEF Release, TypeOK, EvalTypeOK, SlotPhase

\* A request that ends keeps the types.
LEMMA EndType ==
    ASSUME TypeOK, NEW r \in Requests, End(r)
    PROVE  ConfigTypeOK'
<1>1. [a \in Alarms |-> None] \in [Alarms -> Status \cup {None}]
  OBVIOUS
<1>2. QED
  BY <1>1, ListTypes DEF End, TypeOK, ConfigTypeOK, RequestPhase

\* Every step of an evaluation slot keeps the types.
LEMMA SlotType ==
    ASSUME TypeOK, NEW w \in Slots, SlotStep(w)
    PROVE  StoreTypeOK' /\ EvalTypeOK'
<1> USE StoreAssumption
<1> DEFINE T == StoreTypeOK' /\ EvalTypeOK'
<1>1. CASE TakeJob(w)
  BY <1>1, StoreWrites DEF TakeJob, TypeOK, EvalTypeOK, SlotPhase
<1>2. CASE ReadConfigs(w)
  <2> DEFINE misses == {v \in DOMAIN batch[w] : configCache[v] = None}
             l == [a \in Alarms |->
                      IF VariableOf[a] \in DOMAIN batch[w] \ misses
                      THEN configCache[VariableOf[a]][a]
                      ELSE None]
  <2>1. DOMAIN batch[w] \subseteq Variables
    BY DEF TypeOK, EvalTypeOK, Batch
  <2>2. l \in ConfigList
    BY <2>1 DEF TypeOK, StoreTypeOK, ConfigList
  <2>3. misses \in SUBSET Variables
    BY <2>1
  <2>4. pc' \in [Slots -> SlotPhase]
    BY <1>2 DEF ReadConfigs, AfterConfigs, TypeOK, EvalTypeOK, SlotPhase
  <2>5. config' \in [Slots -> ConfigList] /\ missing' \in [Slots -> SUBSET Variables]
    BY <1>2, <2>2, <2>3 DEF ReadConfigs, TypeOK, EvalTypeOK
  <2>6. QED
    BY <1>2, <2>4, <2>5, StoreWrites DEF ReadConfigs, TypeOK, EvalTypeOK
<1>3. CASE FetchConfigs(w)
  <2>1. [a \in Alarms |-> IF VariableOf[a] \in missing[w]
                          THEN EnabledAlarms(missing[w])[a]
                          ELSE config[w][a]] \in ConfigList
    BY ListTypes DEF TypeOK, EvalTypeOK, ConfigList
  <2>2. QED
    BY <1>3, <2>1, StoreWrites DEF FetchConfigs, TypeOK, EvalTypeOK, SlotPhase
<1>4. CASE StoreConfig(w)
  <2>1. PICK v \in missing[w] :
            /\ CacheConfig(v, OfVariable(config[w], v))
            /\ missing' = [missing EXCEPT ![w] = @ \ {v}]
            /\ IF missing[w] = {v} THEN AfterConfigs(w, config[w]) ELSE UNCHANGED pc
    BY <1>4 DEF StoreConfig
  <2>2. v \in Variables /\ OfVariable(config[w], v) \in ConfigList
    BY ListTypes DEF TypeOK, EvalTypeOK
  <2>3. StoreTypeOK'
    BY <1>4, <2>1, <2>2, StoreWrites DEF StoreConfig
  <2>4. pc' \in [Slots -> SlotPhase]
    BY <2>1 DEF AfterConfigs, TypeOK, EvalTypeOK, SlotPhase
  <2>5. QED
    BY <1>4, <2>1, <2>3, <2>4 DEF StoreConfig, TypeOK, EvalTypeOK
<1>5. CASE ReadStatuses(w)
  <2>1. [a \in Alarms |-> IF a \in Configured(config[w]) THEN statusCache[a] ELSE None]
            \in [Alarms -> Status \cup {None}]
    BY DEF TypeOK, StoreTypeOK
  <2>2. QED
    BY <1>5, <2>1, StoreWrites DEF ReadStatuses, Configured, TypeOK, EvalTypeOK, SlotPhase
<1>6. CASE LoadStatuses(w)
  <2>1. [a \in Alarms |-> IF a \in pending[w] THEN status[a] ELSE snapshot[w][a]]
            \in [Alarms -> Status \cup {None}]
    BY DEF TypeOK, StoreTypeOK, EvalTypeOK
  <2>2. QED
    BY <1>6, <2>1, StoreWrites DEF LoadStatuses, Configured, TypeOK, EvalTypeOK, SlotPhase
<1>7. CASE StoreStatus(w)
  <2>1. PICK a \in pending[w] :
            /\ CacheStatus(a, snapshot[w][a], TRUE)
            /\ pending' = [pending EXCEPT ![w] =
                    IF @ = {a} THEN Configured(config[w]) ELSE @ \ {a}]
            /\ pc' = [pc EXCEPT ![w] = IF pending[w] = {a} THEN "evaluate" ELSE @]
    BY <1>7 DEF StoreStatus
  <2>2. a \in Alarms /\ snapshot[w][a] \in Status \cup {None}
    BY DEF TypeOK, EvalTypeOK
  <2>3. StoreTypeOK'
    BY <1>7, <2>1, <2>2, StoreWrites DEF StoreStatus
  <2>4. QED
    BY <1>7, <2>1, <2>3 DEF StoreStatus, Configured, TypeOK, EvalTypeOK, SlotPhase
<1>8. ASSUME NEW a \in Alarms, KeepState(w, a)
      PROVE  T
  BY <1>8, StoreWrites DEF KeepState, Evaluated, TypeOK, EvalTypeOK
<1>9. ASSUME NEW a \in Alarms, CommitTrigger(w, a)
      PROVE  T
  <2>1. EvalTypeOK'
    BY <1>9 DEF CommitTrigger, Evaluated, TypeOK, EvalTypeOK
  <2>2. status[a] \in Status
    BY <1>9 DEF CommitTrigger, TriggerTx, TypeOK, StoreTypeOK
  <2>3. [isActive |-> Activates(w, a),
         isAcknowledged |-> ~Activates(w, a) /\ status[a].isAcknowledged] \in Status
    BY <2>2, SeenType DEF Status
  <2>4. status' \in [Alarms -> Status \cup {None}]
    BY <1>9, <2>3 DEF CommitTrigger, TriggerTx, TypeOK, StoreTypeOK
  <2>5. Append(history[a], TriggerEvent(w, a)) \in Seq(EventType)
    BY SeenType DEF TypeOK, StoreTypeOK
  <2>6. history' \in [Alarms -> Seq(EventType)]
    BY <1>9, <2>5 DEF CommitTrigger, TriggerTx, TypeOK, StoreTypeOK
  <2>7. QED
    BY <1>9, <2>1, <2>4, <2>6 DEF CommitTrigger, TriggerTx, cacheVars, TypeOK, StoreTypeOK
<1>10. ASSUME NEW a \in Alarms, FailTrigger(w, a)
       PROVE  T
  BY <1>10, StoreWrites DEF FailTrigger, Evaluated, TypeOK, EvalTypeOK
<1>11. ASSUME NEW a \in Alarms, PublishTrigger(w, a)
       PROVE  T
  <2>1. [isActive |-> Activates(w, a),
         isAcknowledged |-> ~Activates(w, a) /\ StatusSeen(w, a).isAcknowledged] \in Status
    BY SeenType DEF Status
  <2>2. QED
    BY <1>11, <2>1 DEF PublishTrigger, Published, CacheStatus, Show, Lane, dbVars,
                       TypeOK, StoreTypeOK, EvalTypeOK
<1>12. ASSUME NEW a \in Alarms, FailPublish(w, a)
       PROVE  T
  BY <1>12 DEF FailPublish, Published, dbVars, cacheVars, TypeOK, StoreTypeOK, EvalTypeOK
<1>13. CASE FinishJob(w)
  BY <1>13, ReleaseType, StoreWrites DEF FinishJob
<1>14. CASE AbandonJob(w)
  BY <1>14, ReleaseType, StoreWrites DEF AbandonJob
<1>15. QED
  BY <1>1, <1>2, <1>3, <1>4, <1>5, <1>6, <1>7, <1>8, <1>9, <1>10, <1>11, <1>12,
     <1>13, <1>14 DEF SlotStep

\* Every call of the alarm API keeps the types.
LEMMA ClientType ==
    ASSUME TypeOK, NEW r \in Requests, ClientStep(r)
    PROVE  StoreTypeOK' /\ ConfigTypeOK'
<1> USE StoreAssumption, ConfigAssumption
<1> DEFINE T == StoreTypeOK' /\ ConfigTypeOK'
<1>1. ASSUME NEW o \in Operations, NEW ids \in SUBSET Alarms, ReadAcknowledgeable(r, o, ids)
      PROVE  T
  <2>1. [a \in Alarms |-> IF a \in Acknowledgeable(o, ids) THEN status[a] ELSE None]
            \in [Alarms -> Status \cup {None}]
    BY DEF TypeOK, StoreTypeOK
  <2>2. Acknowledgeable(o, ids) \in SUBSET Alarms
    BY DEF Acknowledgeable
  <2>3. QED
    BY <1>1, <2>1, <2>2, StoreWrites
    DEF ReadAcknowledgeable, Begin, TypeOK, ConfigTypeOK, RequestPhase
<1>2. ASSUME NEW a \in Alarms, Refresh(r, a)
      PROVE  /\ at' \in [Requests -> RequestPhase]
             /\ keys' \in [Requests -> SUBSET Variables]
  BY <1>2 DEF Refresh, TypeOK, ConfigTypeOK, RequestPhase
<1>3. ASSUME NEW o \in Operation, Begin(r, o)
      PROVE  issued' \in Nat /\ op' \in [Requests -> Operation \cup {"none"}]
  BY <1>3 DEF Begin, TypeOK, ConfigTypeOK
<1>4. ASSUME NEW a \in Alarms, Remove(r, a)
      PROVE  T
  <2>1. StoreTypeOK'
    <3>1. [alarm[a] EXCEPT !.row = "gone"] \in AlarmRow
      <4>1. alarm[a] \in AlarmRow
        BY DEF TypeOK, StoreTypeOK
      <4>2. QED
        BY <4>1 DEF AlarmRow
    <3>2. alarm' \in [Alarms -> AlarmRow]
      BY <1>4, <3>1 DEF Remove, DeleteTx, TypeOK, StoreTypeOK
    <3>3. /\ status' \in [Alarms -> Status \cup {None}]
          /\ history' \in [Alarms -> Seq(EventType)]
      BY <1>4 DEF Remove, DeleteTx, TypeOK, StoreTypeOK
    <3>4. QED
      BY <1>4, <3>2, <3>3 DEF Remove, Refresh, cacheVars, TypeOK, StoreTypeOK
  <2>2. QED
    BY <1>2, <1>3, <1>4, <2>1 DEF Remove, Refresh, Operation, TypeOK, ConfigTypeOK
<1>5. ASSUME NEW a \in Alarms, NEW c \in Conditions, NEW e \in BOOLEAN, Create(r, a, c, e)
      PROVE  T
  <2>1. StoreTypeOK'
    BY <1>5, ListTypes DEF Create, CreateTx, Refresh, cacheVars, TypeOK, StoreTypeOK, AlarmRow
  <2>2. QED
    BY <1>2, <1>3, <1>5, <2>1 DEF Create, Refresh, Operation, TypeOK, ConfigTypeOK
<1>6. ASSUME NEW a \in Alarms, NEW c \in Conditions, NEW e \in BOOLEAN, Update(r, a, c, e)
      PROVE  T
  <2>1. StoreTypeOK'
    <3>1. [alarm[a] EXCEPT !.condition = c, !.isEnabled = e] \in AlarmRow
      <4>1. alarm[a] \in AlarmRow
        BY DEF TypeOK, StoreTypeOK
      <4>2. QED
        BY <4>1 DEF AlarmRow
    <3>2. alarm' \in [Alarms -> AlarmRow]
      BY <1>6, <3>1 DEF Update, UpdateTx, TypeOK, StoreTypeOK
    <3>3. QED
      BY <1>6, <3>2 DEF Update, UpdateTx, Refresh, cacheVars, TypeOK, StoreTypeOK
  <2>2. QED
    BY <1>2, <1>3, <1>6, <2>1 DEF Update, Refresh, Operation, TypeOK, ConfigTypeOK
<1>7. CASE LoadAllAlarms(r)
  <2>1. EnabledAlarms(Variables) \in ConfigList
    BY ListTypes
  <2>2. keys' \in [Requests -> SUBSET Variables]
    BY <1>7 DEF LoadAllAlarms, TypeOK, ConfigTypeOK
  <2>3. at' \in [Requests -> RequestPhase] /\ list' \in [Requests -> ConfigList]
    BY <1>7, <2>1 DEF LoadAllAlarms, RequestPhase, TypeOK, ConfigTypeOK
  <2>4. QED
    BY <1>3, <1>7, <2>2, <2>3, StoreWrites DEF LoadAllAlarms, Operation, TypeOK, ConfigTypeOK
<1>8. QED
  BY <1>1, <1>4, <1>5, <1>6, <1>7 DEF ClientStep

\* Every later step of a request keeps the types.
LEMMA RequestType ==
    ASSUME TypeOK, RowsKnown, NEW r \in Requests, RequestStep(r)
    PROVE  StoreTypeOK' /\ ConfigTypeOK'
<1> USE StoreAssumption, ConfigAssumption
<1>1. CASE CommitAck(r)
  <2>1. PICK S \in Chunks(r) :
            /\ AckTx(S, [a \in S |-> AckEvent(r, a)])
            /\ chunk' = [chunk EXCEPT ![r] = S]
            /\ todo' = [todo EXCEPT ![r] = @ \ S]
    BY <1>1 DEF CommitAck
  <2>2. S \in SUBSET Alarms
    BY <2>1 DEF Chunks, TypeOK, ConfigTypeOK
  <2>3. ASSUME NEW a \in S
        PROVE  /\ [isActive |-> status[a].isActive, isAcknowledged |-> TRUE] \in Status
               /\ Append(history[a], AckEvent(r, a)) \in Seq(EventType)
    <3>1. status[a] \in Status /\ history[a] \in Seq(EventType) /\ AckEvent(r, a) \in EventType
      BY <2>1, <2>2, AckEventType DEF AckTx, TypeOK, StoreTypeOK
    <3>2. [isActive |-> status[a].isActive, isAcknowledged |-> TRUE] \in Status
      BY <3>1 DEF Status
    <3>3. Append(history[a], AckEvent(r, a)) \in Seq(EventType)
      BY <3>1
    <3>4. QED
      BY <3>2, <3>3
  <2>4. status' \in [Alarms -> Status \cup {None}] /\ history' \in [Alarms -> Seq(EventType)]
    BY <2>1, <2>2, <2>3 DEF AckTx, TypeOK, StoreTypeOK
  <2>5. StoreTypeOK'
    BY <1>1, <2>1, <2>4 DEF CommitAck, AckTx, cacheVars, TypeOK, StoreTypeOK
  <2>6. QED
    BY <1>1, <2>1, <2>2, <2>5 DEF CommitAck, TypeOK, ConfigTypeOK, RequestPhase
<1>2. CASE FailAck(r)
  BY <1>2, EndType, StoreWrites DEF FailAck
<1>3. CASE CacheAck(r)
  <2>1. PICK a \in chunk[r] :
            /\ CacheStatus(a, [rows[r][a] EXCEPT !.isAcknowledged = TRUE], TRUE)
            /\ chunk' = [chunk EXCEPT ![r] = @ \ {a}]
            /\ IF chunk[r] # {a} THEN UNCHANGED <<at, todo>>
               ELSE IF todo[r] # {}
               THEN at' = [at EXCEPT ![r] = "ackTx"] /\ UNCHANGED todo
               ELSE /\ at' = [at EXCEPT ![r] = "ackEmit"]
                    /\ todo' = [todo EXCEPT ![r] = Found(r)]
    BY <1>3 DEF CacheAck
  <2>2. a \in Alarms /\ Found(r) \in SUBSET Alarms
    BY DEF Found, TypeOK, ConfigTypeOK
  <2>3. rows[r][a] \in Status
    BY <2>2 DEF RowsKnown, Found, TypeOK, ConfigTypeOK
  <2>4. [rows[r][a] EXCEPT !.isAcknowledged = TRUE] \in Status
    BY <2>3 DEF Status
  <2>5. StoreTypeOK'
    BY <1>3, <2>1, <2>2, <2>4, StoreWrites DEF CacheAck
  <2>6. at' \in [Requests -> RequestPhase] /\ todo' \in [Requests -> SUBSET Alarms]
    <3>1. CASE chunk[r] # {a}
      BY <2>1, <3>1 DEF TypeOK, ConfigTypeOK
    <3>2. CASE chunk[r] = {a} /\ todo[r] # {}
      BY <2>1, <3>2 DEF TypeOK, ConfigTypeOK, RequestPhase
    <3>3. CASE chunk[r] = {a} /\ todo[r] = {}
      <4>1. at' = [at EXCEPT ![r] = "ackEmit"] /\ todo' = [todo EXCEPT ![r] = Found(r)]
        BY <2>1, <3>3
      <4>2. at' \in [Requests -> RequestPhase]
        BY <4>1 DEF TypeOK, ConfigTypeOK, RequestPhase
      <4>3. todo' \in [Requests -> SUBSET Alarms]
        BY <2>2, <4>1 DEF TypeOK, ConfigTypeOK
      <4>4. QED
        BY <4>2, <4>3
    <3>4. QED
      BY <3>1, <3>2, <3>3
  <2>7. QED
    BY <1>3, <2>1, <2>5, <2>6 DEF CacheAck, TypeOK, ConfigTypeOK
<1>4. CASE EmitAck(r)
  <2>1. PICK a \in todo[r] :
            /\ IF alarm[a].row = "live" THEN Show(a, AckEvent(r, a)) ELSE UNCHANGED shown
            /\ IF todo[r] = {a} THEN End(r)
               ELSE /\ todo' = [todo EXCEPT ![r] = @ \ {a}]
                    /\ UNCHANGED <<issued, op, at, rows, list, chunk, keys, removed>>
    BY <1>4 DEF EmitAck
  <2>2. shown' \in [Alarms -> {"none", "triggered", "cleared"}]
    BY <2>1 DEF Show, Lane, TypeOK, StoreTypeOK
  <2>3. StoreTypeOK'
    BY <1>4, <2>2 DEF EmitAck, dbVars, cacheVars, TypeOK, StoreTypeOK
  <2>4. ConfigTypeOK'
    <3>1. CASE todo[r] = {a}
      BY <2>1, <3>1, EndType
    <3>2. CASE todo[r] # {a}
      BY <2>1, <3>2 DEF TypeOK, ConfigTypeOK
    <3>3. QED
      BY <3>1, <3>2
  <2>5. QED
    BY <2>3, <2>4
<1>5. CASE LoadAlarms(r)
  <2>1. EnabledAlarms(keys[r]) \in ConfigList
    BY ListTypes
  <2>2. [a \in Alarms |-> IF EnabledAlarms(keys[r])[a] # None THEN status[a] ELSE None]
            \in [Alarms -> Status \cup {None}]
    BY DEF TypeOK, StoreTypeOK
  <2>3. QED
    BY <1>5, <2>1, <2>2, StoreWrites DEF LoadAlarms, TypeOK, ConfigTypeOK, RequestPhase
<1>6. CASE LoadAllStatuses(r)
  <2>1. at' \in [Requests -> RequestPhase] /\ todo' \in [Requests -> SUBSET Alarms]
    <3>1. CASE keys[r] # {}
      BY <1>6, <3>1 DEF LoadAllStatuses, TypeOK, ConfigTypeOK, RequestPhase
    <3>2. CASE keys[r] = {}
      <4> DEFINE found == {a \in Alarms : status[a] # None}
      <4>1. at' = [at EXCEPT ![r] = "cacheStatus"] /\ todo' = [todo EXCEPT ![r] = found]
        BY <1>6, <3>2 DEF LoadAllStatuses
      <4>2. at' \in [Requests -> RequestPhase]
        BY <4>1 DEF TypeOK, ConfigTypeOK, RequestPhase
      <4>3. todo' \in [Requests -> SUBSET Alarms]
        BY <4>1 DEF TypeOK, ConfigTypeOK
      <4>4. QED
        BY <4>2, <4>3
    <3>3. QED
      BY <3>1, <3>2
  <2>2. rows' \in [Requests -> [Alarms -> Status \cup {None}]]
    BY <1>6 DEF LoadAllStatuses, TypeOK, StoreTypeOK, ConfigTypeOK
  <2>3. QED
    BY <1>6, <2>1, <2>2, StoreWrites DEF LoadAllStatuses, TypeOK, ConfigTypeOK
<1>7. CASE CacheList(r)
  <2>1. PICK v \in keys[r] :
            /\ CacheConfig(v, OfVariable(list[r], v))
            /\ keys' = [keys EXCEPT ![r] = @ \ {v}]
            /\ IF keys[r] # {v} THEN UNCHANGED <<at, todo>>
               ELSE /\ at' = [at EXCEPT ![r] = "cacheStatus"]
                    /\ todo' = [todo EXCEPT ![r] = Found(r)]
    BY <1>7 DEF CacheList
  <2>2. v \in Variables /\ OfVariable(list[r], v) \in ConfigList
    BY ListTypes DEF TypeOK, ConfigTypeOK
  <2>3. StoreTypeOK'
    BY <1>7, <2>1, <2>2, StoreWrites DEF CacheList
  <2>4. at' \in [Requests -> RequestPhase] /\ todo' \in [Requests -> SUBSET Alarms]
    <3>1. CASE keys[r] # {v}
      BY <2>1, <3>1 DEF TypeOK, ConfigTypeOK
    <3>2. CASE keys[r] = {v}
      <4>1. at' = [at EXCEPT ![r] = "cacheStatus"] /\ todo' = [todo EXCEPT ![r] = Found(r)]
        BY <2>1, <3>2
      <4>2. Found(r) \in SUBSET Alarms
        BY DEF Found
      <4>3. at' \in [Requests -> RequestPhase]
        BY <4>1 DEF TypeOK, ConfigTypeOK, RequestPhase
      <4>4. todo' \in [Requests -> SUBSET Alarms]
        BY <4>1, <4>2 DEF TypeOK, ConfigTypeOK
      <4>5. QED
        BY <4>3, <4>4
    <3>3. QED
      BY <3>1, <3>2
  <2>5. QED
    BY <1>7, <2>1, <2>3, <2>4 DEF CacheList, TypeOK, ConfigTypeOK
<1>8. CASE CacheRow(r)
  <2>1. PICK a \in todo[r] :
            /\ CacheStatus(a, rows[r][a], FALSE)
            /\ todo' = [todo EXCEPT ![r] = @ \ {a}]
    BY <1>8 DEF CacheRow
  <2>2. a \in Alarms /\ rows[r][a] \in Status \cup {None}
    BY DEF TypeOK, ConfigTypeOK
  <2>3. StoreTypeOK'
    BY <1>8, <2>1, <2>2, StoreWrites DEF CacheRow
  <2>4. QED
    BY <1>8, <2>1, <2>3 DEF CacheRow, TypeOK, ConfigTypeOK
<1>9. CASE FinishRefresh(r)
  <2>1. StoreTypeOK'
    <3>1. CASE removed[r] = {}
      BY <1>9, <3>1, StoreWrites DEF FinishRefresh, cacheVars, dbVars, storeVars
    <3>2. CASE removed[r] # {}
      <4>1. PICK a \in removed[r] : UncacheStatus(a)
        BY <1>9, <3>2 DEF FinishRefresh
      <4>2. a \in Alarms
        BY DEF TypeOK, ConfigTypeOK
      <4>3. QED
        BY <1>9, <4>1, <4>2, StoreWrites DEF FinishRefresh
    <3>3. QED
      BY <3>1, <3>2
  <2>2. QED
    BY <1>9, <2>1, EndType DEF FinishRefresh
<1>10. CASE FailRequest(r)
  BY <1>10, EndType, StoreWrites DEF FailRequest
<1>11. QED
  BY <1>1, <1>2, <1>3, <1>4, <1>5, <1>6, <1>7, <1>8, <1>9, <1>10 DEF RequestStep

\* Telemetry, expiry, clearCache, crash and recovery keep the types.
LEMMA OtherType ==
    ASSUME TypeOK,
           \/ Telemetry \/ Expire \/ Clear \/ Crash
           \/ \E w \in Slots : Recover(w)
           \/ UNCHANGED vars
    PROVE  TypeOK'
<1>1. CASE Telemetry
  <2>1. PICK b \in Batch : Submit(b)
    BY <1>1 DEF Telemetry
  <2>2. queue' \in Seq(Batch) /\ submitted' \in Nat
    BY <2>1 DEF Submit, TypeOK, EvalTypeOK
  <2>3. EvalTypeOK'
    BY <2>1, <2>2 DEF Submit, slotVars, TypeOK, EvalTypeOK
  <2>4. QED
    BY <1>1, <2>1, <2>3, StoreWrites DEF Telemetry, Submit, configVars, TypeOK, ConfigTypeOK
<1>2. CASE Expire
  <2>1. StoreTypeOK'
    <3>1. ASSUME NEW a \in Alarms, ExpireStatus(a)
          PROVE  StoreTypeOK'
      BY <3>1, StoreWrites DEF ExpireStatus, dbVars
    <3>2. ASSUME NEW v \in Variables, ExpireConfig(v)
          PROVE  StoreTypeOK'
      BY <3>2, StoreWrites DEF ExpireConfig, dbVars
    <3>3. QED
      BY <1>2, <3>1, <3>2 DEF Expire
  <2>2. QED
    BY <1>2, <2>1 DEF Expire, evalVars, slotVars, configVars, TypeOK, EvalTypeOK, ConfigTypeOK
<1>3. CASE Clear
  BY <1>3, StoreWrites
  DEF Clear, evalVars, slotVars, configVars, TypeOK, EvalTypeOK, ConfigTypeOK
<1>4. CASE Crash
  <2>1. StoreTypeOK'
    BY <1>4, StoreWrites DEF Crash
  <2>2. EvalTypeOK'
    <3>1. /\ queue' \in Seq(Batch) /\ submitted' \in Nat
          /\ pc' \in [Slots -> SlotPhase]
          /\ batch' \in [Slots -> Batch \cup {<<>>}]
      BY <1>4 DEF Crash, SlotPhase, TypeOK, EvalTypeOK
    <3>2. /\ config' \in [Slots -> ConfigList]
          /\ snapshot' \in [Slots -> [Alarms -> Status \cup {None}]]
      BY <1>4, ListTypes DEF Crash
    <3>3. /\ missing' \in [Slots -> SUBSET Variables]
          /\ pending' \in [Slots -> SUBSET Alarms]
          /\ committed' \in [Slots -> SUBSET Alarms]
      BY <1>4 DEF Crash
    <3>4. QED
      BY <3>1, <3>2, <3>3 DEF EvalTypeOK
  <2>3. ConfigTypeOK'
    <3>1. /\ issued' \in Nat
          /\ op' \in [Requests -> Operation \cup {"none"}]
          /\ at' \in [Requests -> RequestPhase]
      BY <1>4 DEF Crash, RequestPhase, TypeOK, ConfigTypeOK
    <3>2. /\ rows' \in [Requests -> [Alarms -> Status \cup {None}]]
          /\ list' \in [Requests -> ConfigList]
      BY <1>4, ListTypes DEF Crash
    <3>3. /\ todo' \in [Requests -> SUBSET Alarms]
          /\ chunk' \in [Requests -> SUBSET Alarms]
          /\ keys' \in [Requests -> SUBSET Variables]
          /\ removed' \in [Requests -> SUBSET Alarms]
      BY <1>4 DEF Crash
    <3>4. QED
      BY <3>1, <3>2, <3>3 DEF ConfigTypeOK
  <2>4. crashes' \in Nat /\ stalled' \in [Slots -> Batch \cup {<<>>}]
    BY <1>4 DEF Crash, TypeOK, EvalTypeOK
  <2>5. QED
    BY <2>1, <2>2, <2>3, <2>4 DEF TypeOK
<1>5. ASSUME NEW w \in Slots, Recover(w)
      PROVE  TypeOK'
  <2>1. stalled[w] \in Batch
    BY <1>5 DEF Recover, TypeOK
  <2>2. <<stalled[w]>> \o queue \in Seq(Batch)
    BY <2>1 DEF TypeOK, EvalTypeOK
  <2>3. queue' \in Seq(Batch)
    BY <1>5, <2>2 DEF Recover, TypeOK, EvalTypeOK
  <2>4. EvalTypeOK'
    BY <1>5, <2>3 DEF Recover, slotVars, TypeOK, EvalTypeOK
  <2>5. stalled' \in [Slots -> Batch \cup {<<>>}]
    BY <1>5 DEF Recover, TypeOK
  <2>6. QED
    BY <1>5, <2>4, <2>5, StoreWrites DEF Recover, configVars, TypeOK, ConfigTypeOK
<1>6. CASE UNCHANGED vars
  BY <1>6, StoreWrites DEF vars, evalVars, slotVars, configVars, TypeOK, EvalTypeOK, ConfigTypeOK
<1>7. QED
  BY <1>1, <1>2, <1>3, <1>4, <1>5, <1>6

\* So every step keeps them.
LEMMA NextType == ASSUME TypeOK, RowsKnown, [Next]_vars PROVE TypeOK'
<1>1. ASSUME NEW w \in Slots, Evaluate(w)
      PROVE  TypeOK'
  BY <1>1, SlotType DEF Evaluate, configVars, TypeOK, ConfigTypeOK
<1>2. ASSUME NEW r \in Requests, Call(r)
      PROVE  TypeOK'
  BY <1>2, ClientType DEF Call, evalVars, slotVars, TypeOK, EvalTypeOK
<1>3. ASSUME NEW r \in Requests, Serve(r)
      PROVE  TypeOK'
  BY <1>3, RequestType DEF Serve, evalVars, slotVars, TypeOK, EvalTypeOK
<1>4. QED
  BY <1>1, <1>2, <1>3, OtherType DEF Next, Idle

-----------------------------------------------------------------------------
(* The strengthening: what a request has read, and which alarms have a row *)

\* RowsKnown is kept by a step that keeps it for r and leaves the other
\* requests alone.
LEMMA RowsFrame ==
    ASSUME RowsKnown, NEW r \in Requests,
           \A q \in Requests \ {r} :
              rows'[q] = rows[q] /\ todo'[q] = todo[q] /\ chunk'[q] = chunk[q] /\ at'[q] = at[q],
           todo'[r] \cup chunk'[r] \subseteq {a \in Alarms : rows'[r][a] # None},
           at'[r] \in {"idle", "load", "warm", "cacheConfig"} => todo'[r] = {} /\ chunk'[r] = {}
    PROVE  RowsKnown'
BY DEF RowsKnown, Found

\* A request that ends leaves nothing to acknowledge.
LEMMA EndRows ==
    ASSUME TypeOK, RowsKnown, NEW r \in Requests, End(r)
    PROVE  RowsKnown'
<1>1. todo'[r] = {} /\ chunk'[r] = {}
  BY DEF End, TypeOK, ConfigTypeOK
<1>2. \A q \in Requests \ {r} :
        rows'[q] = rows[q] /\ todo'[q] = todo[q] /\ chunk'[q] = chunk[q] /\ at'[q] = at[q]
  BY DEF End, TypeOK, ConfigTypeOK
<1>3. QED
  BY <1>1, <1>2, RowsFrame

\* A call has read the row of every alarm it is to acknowledge.
LEMMA ClientRows ==
    ASSUME TypeOK, RowsKnown, NEW r \in Requests, ClientStep(r)
    PROVE  RowsKnown'
<1>1. ASSUME NEW o \in Operations, NEW ids \in SUBSET Alarms, ReadAcknowledgeable(r, o, ids)
      PROVE  RowsKnown'
  <2> DEFINE found == Acknowledgeable(o, ids)
  <2>1. found \subseteq Alarms /\ \A a \in found : status[a] # None
    BY DEF Acknowledgeable
  <2>2. chunk[r] = {}
    BY <1>1 DEF ReadAcknowledgeable, Begin, RowsKnown
  <2>3. /\ rows'[r] = [a \in Alarms |-> IF a \in found THEN status[a] ELSE None]
        /\ todo'[r] = found /\ chunk'[r] = {} /\ at'[r] = "ackTx"
    BY <1>1, <2>2 DEF ReadAcknowledgeable, TypeOK, ConfigTypeOK
  <2>4. \A q \in Requests \ {r} :
          rows'[q] = rows[q] /\ todo'[q] = todo[q] /\ chunk'[q] = chunk[q] /\ at'[q] = at[q]
    BY <1>1 DEF ReadAcknowledgeable, TypeOK, ConfigTypeOK
  <2> HIDE DEF found
  <2>5. QED
    BY <2>1, <2>3, <2>4, RowsFrame
<1>2. ASSUME NEW a \in Alarms, Refresh(r, a), at[r] = "idle"
      PROVE  RowsKnown'
  BY <1>2 DEF Refresh, TypeOK, ConfigTypeOK, RowsKnown, Found
<1>3. ASSUME NEW a \in Alarms,
             \/ Remove(r, a)
             \/ \E c \in Conditions, e \in BOOLEAN : Create(r, a, c, e) \/ Update(r, a, c, e)
      PROVE  RowsKnown'
  BY <1>2, <1>3 DEF Remove, Create, Update, Begin
<1>4. CASE LoadAllAlarms(r)
  BY <1>4 DEF LoadAllAlarms, Begin, TypeOK, ConfigTypeOK, RowsKnown, Found
<1>5. QED
  BY <1>1, <1>3, <1>4 DEF ClientStep

\* No later step of a request loses the rows it has still to use.
LEMMA RequestRows ==
    ASSUME TypeOK, RowsKnown, NEW r \in Requests, RequestStep(r)
    PROVE  RowsKnown'
<1>1. CASE CommitAck(r)
  BY <1>1 DEF CommitAck, Chunks, TypeOK, ConfigTypeOK, RowsKnown, Found
<1>2. CASE FailAck(r)
  BY <1>2, EndRows DEF FailAck
<1>3. CASE CacheAck(r)
  <2>1. PICK a \in chunk[r] :
            /\ chunk' = [chunk EXCEPT ![r] = @ \ {a}]
            /\ IF chunk[r] # {a} THEN UNCHANGED <<at, todo>>
               ELSE IF todo[r] # {}
               THEN at' = [at EXCEPT ![r] = "ackTx"] /\ UNCHANGED todo
               ELSE /\ at' = [at EXCEPT ![r] = "ackEmit"]
                    /\ todo' = [todo EXCEPT ![r] = Found(r)]
    BY <1>3 DEF CacheAck
  <2>2. at[r] = "ackCache" /\ UNCHANGED rows
    BY <1>3 DEF CacheAck
  <2>3. /\ chunk'[r] \subseteq Found(r) /\ todo'[r] \subseteq Found(r)
        /\ at'[r] \in {"ackCache", "ackTx", "ackEmit"}
    BY <2>1, <2>2 DEF TypeOK, ConfigTypeOK, RowsKnown
  <2>4. \A q \in Requests \ {r} :
          rows'[q] = rows[q] /\ todo'[q] = todo[q] /\ chunk'[q] = chunk[q] /\ at'[q] = at[q]
    BY <2>1, <2>2 DEF TypeOK, ConfigTypeOK
  <2>5. QED
    BY <2>2, <2>3, <2>4, RowsFrame DEF Found
<1>4. CASE EmitAck(r)
  <2>1. PICK a \in todo[r] :
            IF todo[r] = {a} THEN End(r)
            ELSE /\ todo' = [todo EXCEPT ![r] = @ \ {a}]
                 /\ UNCHANGED <<issued, op, at, rows, list, chunk, keys, removed>>
    BY <1>4 DEF EmitAck
  <2>2. CASE todo[r] = {a}
    BY <2>1, <2>2, EndRows
  <2>3. CASE todo[r] # {a}
    BY <1>4, <2>1, <2>3 DEF EmitAck, TypeOK, ConfigTypeOK, RowsKnown, Found
  <2>4. QED
    BY <2>2, <2>3
<1>5. CASE LoadAlarms(r)
  <2>1. todo[r] = {} /\ chunk[r] = {}
    BY <1>5 DEF LoadAlarms, RowsKnown
  <2>2. todo'[r] = {} /\ chunk'[r] = {}
    BY <1>5, <2>1 DEF LoadAlarms
  <2>3. \A q \in Requests \ {r} :
          rows'[q] = rows[q] /\ todo'[q] = todo[q] /\ chunk'[q] = chunk[q] /\ at'[q] = at[q]
    BY <1>5 DEF LoadAlarms, TypeOK, ConfigTypeOK
  <2>4. QED
    BY <2>2, <2>3, RowsFrame
<1>6. CASE LoadAllStatuses(r)
  <2>1. todo[r] = {} /\ chunk'[r] = {}
    BY <1>6 DEF LoadAllStatuses, RowsKnown
  <2>2. rows'[r] = status
    BY <1>6 DEF LoadAllStatuses, TypeOK, ConfigTypeOK
  <2>3. \/ todo'[r] = {}
        \/ todo'[r] = {a \in Alarms : status[a] # None} /\ at'[r] = "cacheStatus"
    BY <1>6, <2>1 DEF LoadAllStatuses, TypeOK, ConfigTypeOK
  <2>4. \A q \in Requests \ {r} :
          rows'[q] = rows[q] /\ todo'[q] = todo[q] /\ chunk'[q] = chunk[q] /\ at'[q] = at[q]
    BY <1>6 DEF LoadAllStatuses, TypeOK, ConfigTypeOK
  <2>5. QED
    BY <2>1, <2>2, <2>3, <2>4, RowsFrame
<1>7. CASE CacheList(r)
  <2>1. todo[r] = {} /\ chunk'[r] = {} /\ UNCHANGED rows
    BY <1>7 DEF CacheList, RowsKnown
  <2>2. \/ todo'[r] = {}
        \/ todo'[r] = Found(r) /\ at'[r] = "cacheStatus"
    BY <1>7, <2>1 DEF CacheList, TypeOK, ConfigTypeOK
  <2>3. \A q \in Requests \ {r} :
          rows'[q] = rows[q] /\ todo'[q] = todo[q] /\ chunk'[q] = chunk[q] /\ at'[q] = at[q]
    BY <1>7 DEF CacheList, TypeOK, ConfigTypeOK
  <2>4. QED
    BY <2>1, <2>2, <2>3, RowsFrame DEF Found
<1>8. CASE CacheRow(r)
  BY <1>8 DEF CacheRow, TypeOK, ConfigTypeOK, RowsKnown, Found
<1>9. CASE FinishRefresh(r)
  BY <1>9, EndRows DEF FinishRefresh
<1>10. CASE FailRequest(r)
  BY <1>10, EndRows DEF FailRequest
<1>11. QED
  BY <1>1, <1>2, <1>3, <1>4, <1>5, <1>6, <1>7, <1>8, <1>9, <1>10 DEF RequestStep

\* So every step keeps RowsKnown.
LEMMA NextRows == ASSUME TypeOK, RowsKnown, [Next]_vars PROVE RowsKnown'
<1>1. CASE UNCHANGED configVars
  BY <1>1 DEF configVars, RowsKnown, Found
<1>2. CASE Crash
  BY <1>2 DEF Crash, RowsKnown
<1>3. QED
  BY <1>1, <1>2, ClientRows, RequestRows
  DEF Next, Telemetry, Evaluate, Recover, Call, Serve, Expire, Clear, Idle, vars

-----------------------------------------------------------------------------
(* The journal: a status row equals its replayed log *)

\* What one more event does to the question whether an event of E was lastly
\* logged: it answers it if it is in E or F, and leaves it open otherwise.
LEMMA LastlyInAppend ==
    ASSUME NEW h \in Seq(Journal!EventType), NEW e, NEW E, NEW F
    PROVE  Journal!LastlyIn(Append(h, e), E, F) <=> (e \in E \/ (e \notin F /\ Journal!LastlyIn(h, E, F)))
<1> DEFINE g == Append(h, e)
<1>1. /\ Len(h) \in Nat
      /\ Len(g) = Len(h) + 1
      /\ g[Len(h) + 1] = e
      /\ \A i \in 1..Len(h) : g[i] = h[i]
  OBVIOUS
<1> HIDE DEF g
<1>2. ASSUME Journal!LastlyIn(g, E, F), e \notin E
      PROVE  e \notin F /\ Journal!LastlyIn(h, E, F)
  <2>1. PICK i \in 1..Len(g) : g[i] \in E /\ \A j \in i + 1 .. Len(g) : g[j] \notin F
    BY <1>2 DEF Journal!LastlyIn
  <2>2. i \in 1..Len(h)
    BY <1>1, <1>2, <2>1
  <2>3. h[i] \in E /\ \A j \in i + 1 .. Len(h) : h[j] \notin F
    BY <1>1, <2>1, <2>2
  <2>4. Len(h) + 1 \in i + 1 .. Len(g)
    BY <1>1, <2>2
  <2>5. QED
    BY <1>1, <2>1, <2>2, <2>3, <2>4 DEF Journal!LastlyIn
<1>3. ASSUME e \in E
      PROVE  Journal!LastlyIn(g, E, F)
  <2>1. Len(g) \in 1..Len(g) /\ \A j \in Len(g) + 1 .. Len(g) : g[j] \notin F
    BY <1>1
  <2>2. QED
    BY <1>1, <1>3, <2>1 DEF Journal!LastlyIn
<1>4. ASSUME e \notin F, Journal!LastlyIn(h, E, F)
      PROVE  Journal!LastlyIn(g, E, F)
  <2>1. PICK i \in 1..Len(h) : h[i] \in E /\ \A j \in i + 1 .. Len(h) : h[j] \notin F
    BY <1>4 DEF Journal!LastlyIn
  <2>2. i \in 1..Len(g) /\ g[i] \in E
    BY <1>1, <2>1
  <2>3. \A j \in i + 1 .. Len(g) : g[j] \notin F
    BY <1>1, <1>4, <2>1
  <2>4. QED
    BY <2>2, <2>3 DEF Journal!LastlyIn
<1>5. QED
  BY <1>2, <1>3, <1>4 DEF g

\* An empty log answers no question.
LEMMA LastlyInEmpty ==
    ASSUME NEW E, NEW F
    PROVE  ~Journal!LastlyIn(<<>>, E, F)
BY DEF Journal!LastlyIn

\* What an event does to each of the two flags of a status.
LEMMA AfterFields ==
    ASSUME NEW s \in Journal!Status, NEW e
    PROVE  /\ Journal!After(s, e).isActive <=> e = "I" \/ (s.isActive /\ e \notin Journal!ClearEvents)
           /\ Journal!After(s, e).isAcknowledged <=> e \in Journal!AckEvents \/ (s.isAcknowledged /\ e # "I")
<1>1. Journal!After(s, e).isActive = (e = "I" \/ (s.isActive /\ e \notin Journal!ClearEvents))
  BY Zenon DEF Journal!After
<1>2. Journal!After(s, e).isAcknowledged = (e \in Journal!AckEvents \/ (s.isAcknowledged /\ e # "I"))
  BY Zenon DEF Journal!After
<1>3. QED
  BY <1>1, <1>2, Zenon

JournalInv == Journal!TypeOK /\ Journal!StatusMatchesLog

\* A new journal satisfies the invariant.
LEMMA JournalInitInv == ASSUME Journal!Init PROVE JournalInv
<1>1. Journal!Inactive \in Journal!Status /\ ~Journal!Inactive.isActive /\ ~Journal!Inactive.isAcknowledged
  BY DEF Journal!Inactive, Journal!Status
<1>2. Journal!TypeOK
  BY <1>1 DEF Journal!Init, Journal!TypeOK
<1>3. Journal!StatusMatchesLog
  BY <1>1, LastlyInEmpty DEF Journal!Init, Journal!StatusMatchesLog
<1>4. QED
  BY <1>2, <1>3 DEF JournalInv

\* Logging an event for a set of alarms keeps it: both flags follow the event.
LEMMA JournalLogInv ==
    ASSUME JournalInv, NEW S \in SUBSET Alarms, NEW event \in [S -> Journal!EventType], Journal!Log(S, event)
    PROVE  JournalInv'
<1>1. ASSUME NEW a \in S
      PROVE  /\ status'[a] = Journal!After(status[a], event[a])
             /\ history'[a] = Append(history[a], event[a])
             /\ status[a] \in Journal!Status /\ history[a] \in Seq(Journal!EventType)
             /\ event[a] \in Journal!EventType
  BY DEF Journal!Log, JournalInv, Journal!TypeOK
<1>2. ASSUME NEW a \in Alarms \ S
      PROVE  status'[a] = status[a] /\ history'[a] = history[a]
  BY DEF Journal!Log, JournalInv, Journal!TypeOK
<1>0. None \notin Journal!Status
  BY StoreAssumption DEF Status, Journal!Status
<1>3. \A s \in Journal!Status, e \in Journal!EventType : Journal!After(s, e) \in Journal!Status
  BY DEF Journal!After, Journal!Status, Journal!EventType
<1>4. Journal!TypeOK'
  <2>1. ASSUME NEW a \in Alarms
        PROVE  status'[a] \in Journal!Status \cup {None} /\ history'[a] \in Seq(Journal!EventType)
    <3>1. CASE a \in S
      <4>1. Append(history[a], event[a]) \in Seq(Journal!EventType)
        BY <1>1, <3>1
      <4>2. QED
        BY <1>1, <1>3, <3>1, <4>1
    <3>2. CASE a \notin S
      BY <1>2, <3>2 DEF JournalInv, Journal!TypeOK
    <3>3. QED
      BY <3>1, <3>2
  <2>2. QED
    BY <2>1 DEF Journal!Log, Journal!TypeOK
<1>5. ASSUME NEW a \in Alarms
      PROVE  IF status'[a] = None
             THEN history'[a] = <<>>
             ELSE /\ status'[a].isActive <=> Journal!LastlyIn(history'[a], {"I"}, Journal!ClearEvents)
                  /\ status'[a].isAcknowledged <=> Journal!LastlyIn(history'[a], Journal!AckEvents, {"I"})
  <2>1. CASE a \notin S
    BY <1>2, <2>1 DEF JournalInv, Journal!StatusMatchesLog
  <2>2. CASE a \in S
    <3>1. /\ status[a].isActive <=> Journal!LastlyIn(history[a], {"I"}, Journal!ClearEvents)
          /\ status[a].isAcknowledged <=> Journal!LastlyIn(history[a], Journal!AckEvents, {"I"})
      <4>1. status[a] # None
        BY <1>0, <1>1, <2>2
      <4>2. QED
        BY <4>1 DEF JournalInv, Journal!StatusMatchesLog
    <3>2. /\ Journal!LastlyIn(history'[a], {"I"}, Journal!ClearEvents) <=>
                event[a] \in {"I"} \/ (event[a] \notin Journal!ClearEvents /\ Journal!LastlyIn(history[a], {"I"}, Journal!ClearEvents))
          /\ Journal!LastlyIn(history'[a], Journal!AckEvents, {"I"}) <=>
                event[a] \in Journal!AckEvents \/ (event[a] \notin {"I"} /\ Journal!LastlyIn(history[a], Journal!AckEvents, {"I"}))
      <4>1. history'[a] = Append(history[a], event[a]) /\ history[a] \in Seq(Journal!EventType)
        BY <1>1, <2>2
      <4>2. \A E, F : Journal!LastlyIn(Append(history[a], event[a]), E, F) <=>
                event[a] \in E \/ (event[a] \notin F /\ Journal!LastlyIn(history[a], E, F))
        BY <4>1, LastlyInAppend
      <4>3. QED
        BY <4>1, <4>2
    <3>3. /\ status'[a].isActive <=> event[a] = "I" \/ (status[a].isActive /\ event[a] \notin Journal!ClearEvents)
          /\ status'[a].isAcknowledged <=> event[a] \in Journal!AckEvents \/ (status[a].isAcknowledged /\ event[a] # "I")
      <4>1. Journal!After(status[a], event[a]) = status'[a] /\ status[a] \in Journal!Status
        BY <1>1, <2>2
      <4>2. QED
        BY <4>1, AfterFields
    <3>4. status'[a] # None
      BY <1>0, <1>1, <1>3, <2>2
    <3>5. QED
      BY <3>1, <3>2, <3>3, <3>4
  <2>3. QED
    BY <2>1, <2>2
<1>6. QED
  BY <1>4, <1>5 DEF JournalInv, Journal!StatusMatchesLog

\* Every transaction of the journal keeps it.
LEMMA JournalNextInv == ASSUME JournalInv, [Journal!Next]_(Journal!vars) PROVE JournalInv'
<1>1. ASSUME NEW S \in SUBSET Alarms, NEW event \in [S -> Journal!EventType], Journal!Log(S, event)
      PROVE  JournalInv'
  BY <1>1, JournalLogInv
<1>2. ASSUME NEW a \in Alarms, Journal!Create(a)
      PROVE  JournalInv'
  <2>1. Journal!Inactive \in Journal!Status /\ ~Journal!Inactive.isActive /\ ~Journal!Inactive.isAcknowledged
    BY DEF Journal!Inactive, Journal!Status
  <2>2. Journal!TypeOK'
    BY <1>2, <2>1 DEF Journal!Create, JournalInv, Journal!TypeOK
  <2>3. Journal!StatusMatchesLog'
    BY <1>2, <2>1, LastlyInEmpty DEF Journal!Create, JournalInv, Journal!TypeOK, Journal!StatusMatchesLog
  <2>4. QED
    BY <2>2, <2>3 DEF JournalInv
<1>3. ASSUME NEW a \in Alarms, Journal!Delete(a)
      PROVE  JournalInv'
  BY <1>3 DEF Journal!Delete, JournalInv, Journal!TypeOK, Journal!StatusMatchesLog
<1>4. CASE UNCHANGED Journal!vars
  BY <1>4 DEF Journal!vars, JournalInv, Journal!TypeOK, Journal!StatusMatchesLog
<1>5. QED
  BY <1>1, <1>2, <1>3, <1>4 DEF Journal!Next

\* Every reachable status row equals what its log replays to.
THEOREM JournalMatchesLog == Journal!Spec => []Journal!StatusMatchesLog
<1>1. Journal!Init => JournalInv
  BY JournalInitInv
<1>2. JournalInv /\ [Journal!Next]_(Journal!vars) => JournalInv'
  BY JournalNextInv
<1>3. JournalInv => Journal!StatusMatchesLog
  BY DEF JournalInv
<1>4. QED
  BY <1>1, <1>2, <1>3, PTL DEF Journal!Spec

-----------------------------------------------------------------------------
(* The steps as steps of the journal *)

\* The status trigger() writes is what its event leaves behind.
LEMMA TriggerIsLog ==
    ASSUME TypeOK, NEW w \in Slots, NEW a \in Alarms,
           TriggerTx(a, Activates(w, a), TriggerEvent(w, a))
    PROVE  Journal!Log({a}, [b \in {a} |-> TriggerEvent(w, a)])
<1> DEFINE e == TriggerEvent(w, a)
           s == status[a]
           new == [isActive |-> Activates(w, a),
                   isAcknowledged |-> ~Activates(w, a) /\ s.isAcknowledged]
<1>1. /\ s # None
      /\ status' = [status EXCEPT ![a] = new]
      /\ history' = [history EXCEPT ![a] = Append(@, e)]
  BY DEF TriggerTx
<1>2. s \in Status /\ s.isActive \in BOOLEAN /\ s.isAcknowledged \in BOOLEAN
  BY <1>1 DEF TypeOK, StoreTypeOK, Status
<1>3. /\ e \in EventType
      /\ e = "I" <=> Activates(w, a)
      /\ e \in Journal!ClearEvents <=> ~Activates(w, a)
      /\ Activates(w, a) \in BOOLEAN
  BY SeenType DEF ClearEvents, Journal!ClearEvents
<1>4. e \notin Journal!AckEvents
  BY <1>3 DEF Journal!AckEvents, Journal!ClearEvents
<1>5. Journal!After(s, e) = new
  <2>1. (e = "I" \/ (s.isActive /\ e \notin Journal!ClearEvents)) = Activates(w, a)
    BY <1>2, <1>3
  <2>2. (e \in Journal!AckEvents \/ (s.isAcknowledged /\ e # "I"))
            = (~Activates(w, a) /\ s.isAcknowledged)
    BY <1>2, <1>3, <1>4
  <2>3. QED
    BY <2>1, <2>2, Zenon DEF Journal!After
<1> HIDE DEF e, s, new
<1>6. status' = [b \in Alarms |-> IF b \in {a} THEN Journal!After(status[b], [c \in {a} |-> e][b])
                                            ELSE status[b]]
  BY <1>1, <1>5 DEF TypeOK, StoreTypeOK, s
<1>7. history' = [b \in Alarms |-> IF b \in {a} THEN Append(history[b], [c \in {a} |-> e][b])
                                             ELSE history[b]]
  BY <1>1 DEF TypeOK, StoreTypeOK
<1>8. QED
  BY <1>1, <1>6, <1>7 DEF Journal!Log, e, s

\* So is the status an acknowledgement writes, for every alarm of its chunk.
LEMMA AckIsLog ==
    ASSUME TypeOK, NEW S \in SUBSET Alarms, S # {}, NEW event \in [S -> AckEvents], AckTx(S, event)
    PROVE  Journal!Log(S, event)
<1>1. ASSUME NEW a \in S
      PROVE  [isActive |-> status[a].isActive, isAcknowledged |-> TRUE] = Journal!After(status[a], event[a])
  <2>1. status[a] \in Status
    BY DEF AckTx, TypeOK, StoreTypeOK
  <2>3. event[a] \in Journal!AckEvents /\ event[a] \notin Journal!ClearEvents /\ event[a] # "I"
    BY DEF AckEvents, Journal!AckEvents, Journal!ClearEvents
  <2>4. status[a].isActive \in BOOLEAN
    BY <2>1 DEF Status
  <2>5. (event[a] = "I" \/ (status[a].isActive /\ event[a] \notin Journal!ClearEvents))
            = status[a].isActive
    BY <2>3, <2>4
  <2>6. (event[a] \in Journal!AckEvents \/ (status[a].isAcknowledged /\ event[a] # "I")) = TRUE
    BY <2>3
  <2>7. QED
    BY <2>5, <2>6, Zenon DEF Journal!After
<1>2. status' = [a \in Alarms |-> IF a \in S THEN Journal!After(status[a], event[a]) ELSE status[a]]
  BY <1>1 DEF AckTx
<1>3. QED
  BY <1>2 DEF AckTx, Journal!Log

\* A call of the alarm API is one transaction of the journal or none.
LEMMA ClientJournal ==
    ASSUME IInv, NEW r \in Requests, ClientStep(r)
    PROVE  (Journal!Next \/ UNCHANGED <<status, history>>) /\ StatusPerAlarm'
<1> USE DEF IInv
<1>1. Inactive = Journal!Inactive /\ Inactive # None
  BY InactiveIsStatus DEF Inactive, Journal!Inactive
<1>2. ASSUME NEW a \in Alarms, Remove(r, a)
      PROVE  Journal!Delete(a) /\ StatusPerAlarm'
  <2>1. DeleteTx(a) /\ status[a] # None
    BY <1>2 DEF Remove, DeleteTx, StatusPerAlarm
  <2>2. StatusPerAlarm'
    <3>1. \A b \in Alarms \ {a} : alarm'[b] = alarm[b] /\ status'[b] = status[b]
      BY <2>1 DEF DeleteTx, TypeOK, StoreTypeOK
    <3>2. alarm'[a].row = "gone" /\ status'[a] = None
      <4>1. alarm[a] \in AlarmRow
        BY DEF TypeOK, StoreTypeOK
      <4>2. alarm'[a] = [alarm[a] EXCEPT !.row = "gone"]
        BY <2>1 DEF DeleteTx, TypeOK, StoreTypeOK
      <4>3. QED
        BY <2>1, <4>1, <4>2 DEF DeleteTx, AlarmRow, TypeOK, StoreTypeOK
    <3>3. QED
      BY <3>1, <3>2 DEF StatusPerAlarm
  <2>3. QED
    BY <2>1, <2>2 DEF DeleteTx, Journal!Delete
<1>3. ASSUME NEW a \in Alarms, NEW c, NEW e, Create(r, a, c, e)
      PROVE  Journal!Create(a) /\ StatusPerAlarm'
  <2>1. CreateTx(a, c, e) /\ status[a] = None
    BY <1>3 DEF Create, CreateTx, StatusPerAlarm
  <2>2. StatusPerAlarm'
    BY <1>1, <2>1 DEF CreateTx, TypeOK, StoreTypeOK, StatusPerAlarm
  <2>3. QED
    BY <1>1, <2>1, <2>2 DEF CreateTx, Journal!Create
<1>4. ASSUME NEW a \in Alarms, NEW c, NEW e, Update(r, a, c, e)
      PROVE  UNCHANGED <<status, history>> /\ StatusPerAlarm'
  <2>1. UpdateTx(a, c, e)
    BY <1>4 DEF Update
  <2>2. \A b \in Alarms : alarm'[b].row = alarm[b].row
    <3>1. \A b \in Alarms : alarm[b] \in AlarmRow
      BY DEF TypeOK, StoreTypeOK
    <3>2. alarm'[a] = [alarm[a] EXCEPT !.condition = c, !.isEnabled = e]
      BY <2>1 DEF UpdateTx, TypeOK, StoreTypeOK
    <3>3. alarm'[a].row = alarm[a].row
      BY <3>1, <3>2 DEF AlarmRow
    <3>4. \A b \in Alarms \ {a} : alarm'[b] = alarm[b]
      BY <2>1 DEF UpdateTx, TypeOK, StoreTypeOK
    <3>5. QED
      BY <3>3, <3>4
  <2>3. QED
    BY <2>1, <2>2 DEF UpdateTx, StatusPerAlarm
<1>5. CASE UNCHANGED storeVars
  BY <1>5 DEF storeVars, StatusPerAlarm
<1>6. QED
  BY <1>2, <1>3, <1>4, <1>5 DEF ClientStep, ReadAcknowledgeable, LoadAllAlarms, Journal!Next

\* Every step of the system is one transaction of the journal or none.
LEMMA StepJournal ==
    ASSUME IInv, [Next]_vars
    PROVE  (Journal!Next \/ UNCHANGED <<status, history>>) /\ StatusPerAlarm'
<1> USE DEF IInv
<1> DEFINE J == (Journal!Next \/ UNCHANGED <<status, history>>) /\ StatusPerAlarm'
<1>1. CASE UNCHANGED dbVars
  BY <1>1 DEF dbVars, StatusPerAlarm
<1>2. ASSUME NEW w \in Slots, NEW a \in Alarms, CommitTrigger(w, a)
      PROVE  J
  <2>1. TriggerTx(a, Activates(w, a), TriggerEvent(w, a))
    BY <1>2 DEF CommitTrigger
  <2>2. [b \in {a} |-> TriggerEvent(w, a)] \in [{a} -> Journal!EventType]
    BY SeenType DEF EventType, Journal!EventType
  <2>3. Journal!Next
    BY <2>1, <2>2, TriggerIsLog DEF Journal!Next
  <2>4. StatusPerAlarm'
    <3>1. [isActive |-> Activates(w, a),
           isAcknowledged |-> ~Activates(w, a) /\ status[a].isAcknowledged] # None
      <4>1. status[a] \in Status
        BY <2>1 DEF TriggerTx, TypeOK, StoreTypeOK
      <4>2. [isActive |-> Activates(w, a),
             isAcknowledged |-> ~Activates(w, a) /\ status[a].isAcknowledged] \in Status
        BY <4>1, SeenType DEF Status
      <4>3. QED
        BY <4>2, StoreAssumption
    <3>2. QED
      BY <2>1, <3>1 DEF TriggerTx, TypeOK, StoreTypeOK, StatusPerAlarm
  <2>5. QED
    BY <2>3, <2>4
<1>3. ASSUME NEW r \in Requests, CommitAck(r)
      PROVE  J
  <2>1. PICK S \in Chunks(r) : AckTx(S, [a \in S |-> AckEvent(r, a)])
    BY <1>3 DEF CommitAck
  <2>2. S \in SUBSET Alarms /\ S # {}
    BY DEF Chunks, TypeOK, ConfigTypeOK
  <2> DEFINE event == [a \in S |-> AckEvent(r, a)]
  <2>3. event \in [S -> AckEvents] /\ event \in [S -> Journal!EventType]
    BY <2>2, AckEventType DEF EventType, Journal!EventType
  <2> HIDE DEF event
  <2>4. Journal!Log(S, event)
    BY <2>1, <2>2, <2>3, AckIsLog DEF event
  <2>5. \A a \in Alarms : (status'[a] = None) = (status[a] = None)
    <3>1. ASSUME NEW a \in S
          PROVE  [isActive |-> status[a].isActive, isAcknowledged |-> TRUE] # None /\ status[a] # None
      <4>1. status[a] \in Status
        BY <2>1, <2>2 DEF AckTx, TypeOK, StoreTypeOK
      <4>2. [isActive |-> status[a].isActive, isAcknowledged |-> TRUE] \in Status
        BY <4>1 DEF Status
      <4>3. QED
        BY <4>1, <4>2, StoreAssumption
    <3>2. QED
      BY <2>1, <3>1 DEF AckTx
  <2>6. StatusPerAlarm'
    BY <2>1, <2>5 DEF AckTx, StatusPerAlarm
  <2>7. QED
    BY <2>2, <2>3, <2>4, <2>6 DEF Journal!Next
<1>4. ASSUME NEW w \in Slots, Evaluate(w)
      PROVE  J
  <2>1. \/ UNCHANGED dbVars
        \/ \E a \in Alarms : CommitTrigger(w, a)
    BY <1>4
    DEF Evaluate, SlotStep, TakeJob, ReadConfigs, FetchConfigs, StoreConfig, ReadStatuses,
        LoadStatuses, StoreStatus, KeepState, FailTrigger, PublishTrigger, FailPublish,
        Published, FinishJob, AbandonJob, storeVars, dbVars
  <2>2. QED
    BY <1>1, <1>2, <2>1
<1>5. ASSUME NEW r \in Requests, Serve(r)
      PROVE  J
  <2>1. UNCHANGED dbVars \/ CommitAck(r)
    BY <1>5
    DEF Serve, RequestStep, FailAck, CacheAck, EmitAck, LoadAlarms, LoadAllStatuses,
        CacheList, CacheRow, FinishRefresh, FailRequest, storeVars, dbVars
  <2>2. QED
    BY <1>1, <1>3, <2>1
<1>6. ASSUME NEW r \in Requests, Call(r)
      PROVE  J
  BY <1>6, ClientJournal DEF Call
<1>7. CASE \/ Telemetry \/ Expire \/ Clear \/ Crash
           \/ \E w \in Slots : Recover(w)
           \/ UNCHANGED vars
  <2>1. UNCHANGED dbVars
    BY <1>7 DEF Telemetry, Submit, Expire, ExpireStatus, ExpireConfig, Clear, ClearCache,
                Crash, Recover, vars, storeVars, dbVars
  <2>2. QED
    BY <1>1, <2>1
<1>8. QED
  BY <1>4, <1>5, <1>6, <1>7 DEF Next, Idle

\* The initial states satisfy the inductive invariant.
LEMMA InitIInv == Init => IInv
<1> SUFFICES ASSUME Init PROVE IInv
  OBVIOUS
<1>1. RowsKnown
  BY DEF Init, ConfigInit, RequestsIdle, RowsKnown
<1>2. StatusPerAlarm
  BY InactiveIsStatus DEF Init, StoreInit, StatusPerAlarm
<1>3. QED
  BY <1>1, <1>2, InitType DEF IInv

\* Every step keeps the inductive invariant.
LEMMA NextIInv == IInv /\ [Next]_vars => IInv'
BY NextType, NextRows, StepJournal DEF IInv

-----------------------------------------------------------------------------

\* Every variable of the alarm subsystem keeps its type, whatever the number of
\* alarms, evaluation slots and requests.
THEOREM TypeCorrect == Spec => []TypeOK
<1>1. Init => IInv
  BY InitIInv
<1>2. IInv /\ [Next]_vars => IInv'
  BY NextIInv
<1>3. IInv => TypeOK
  BY DEF IInv
<1>4. QED
  BY <1>1, <1>2, <1>3, PTL DEF Spec

\* The evaluation workers and the alarm API, crashes included, implement the
\* journal: alarm_status and alarm_history only ever move together.
THEOREM ImplementsJournal == Spec => JournalSpec
<1>1. Init => IInv /\ Journal!Init
  <2>1. Init => Journal!Init
    BY DEF Init, StoreInit, Journal!Init, Inactive, Journal!Inactive
  <2>2. QED
    BY <2>1, InitIInv
<1>2. IInv /\ [Next]_vars => IInv' /\ [Journal!Next]_(Journal!vars)
  BY NextIInv, StepJournal DEF Journal!vars
<1>3. QED
  BY <1>1, <1>2, PTL DEF Spec, JournalSpec, Journal!Spec

\* Whoever raced to write it, a status row is what its log replays to.
THEOREM StatusAlwaysMatchesLog == Spec => []StatusMatchesLog
BY ImplementsJournal, JournalMatchesLog, PTL DEF JournalSpec, StatusMatchesLog

-----------------------------------------------------------------------------
(* What is cached and shown is borne out by the log *)

\* The events the log of an alarm must have for what may be said of it.
ActiveOnce(a) == Logged(a, {"I"})
AckedOnce(a) == Logged(a, AckEvents)
ShownOnce(a) == Logged(a, {"I", "IA"})

\* The status row, its cached copy, the snapshot of a slot and the rows of a
\* request claim no more than the log shows.
StatusBacked(a) ==
    status[a] # None =>
        (status[a].isActive => ActiveOnce(a)) /\ (status[a].isAcknowledged => AckedOnce(a))
CacheBacked(a) ==
    statusCache[a] # None =>
        (statusCache[a].isActive => ActiveOnce(a)) /\ (statusCache[a].isAcknowledged => AckedOnce(a))
SnapshotBacked(w, a) ==
    snapshot[w][a] # None =>
        (snapshot[w][a].isActive => ActiveOnce(a)) /\ (snapshot[w][a].isAcknowledged => AckedOnce(a))
RowBacked(r, a) ==
    rows[r][a] # None =>
        (rows[r][a].isActive => ActiveOnce(a)) /\ (rows[r][a].isAcknowledged => AckedOnce(a))

\* So does the screen.
ScreenBacked(a) == shown[a] = "triggered" => ShownOnce(a)

\* What a slot is about to publish has been logged.
PublishBacked(w, a) == a \in committed[w] /\ Activates(w, a) => ActiveOnce(a)

\* A request has acknowledged an alarm it found, or is past acknowledging.
Acked(r, a) ==
    /\ rows[r][a] # None
    /\ at[r] = "ackEmit" \/ (at[r] \in {"ackTx", "ackCache"} /\ a \notin todo[r])

\* What a request is about to cache or to announce has been logged.
AckBacked(r, a) ==
    Acked(r, a) => AckedOnce(a) /\ (AckEvent(r, a) = "IA" => ShownOnce(a))

Backed(a) ==
    /\ CacheBacked(a) /\ ScreenBacked(a)
    /\ \A w \in Slots : SnapshotBacked(w, a) /\ PublishBacked(w, a)
    /\ \A r \in Requests : RowBacked(r, a) /\ AckBacked(r, a)

Alive(a) == alarm[a].row # "gone"

\* A slot publishes with the snapshot it evaluated; a request caches what it
\* has just acknowledged.
Publishing ==
    /\ \A w \in Slots : committed[w] # {} => pc[w] = "evaluate"
    /\ \A r \in Requests : chunk[r] # {} => at[r] = "ackCache" /\ chunk[r] \cap todo[r] = {}

BackedInv == Publishing /\ \A a \in Alarms : Alive(a) => Backed(a)

\* A status row that matches its log claims no more than the log shows.
LEMMA MatchBacks ==
    ASSUME StatusMatchesLog, NEW a \in Alarms
    PROVE  StatusBacked(a)
<1> SUFFICES ASSUME status[a] # None PROVE StatusBacked(a)
  BY DEF StatusBacked
<1>1. /\ status[a].isActive => Journal!LastlyIn(history[a], {"I"}, Journal!ClearEvents)
      /\ status[a].isAcknowledged => Journal!LastlyIn(history[a], Journal!AckEvents, {"I"})
  BY DEF StatusMatchesLog, Journal!StatusMatchesLog
<1>2. QED
  BY <1>1 DEF StatusBacked, ActiveOnce, AckedOnce, Logged, Journal!LastlyIn, Journal!AckEvents, AckEvents

\* An activation puts an alarm on the screen, and so does an acknowledgement of
\* an active one.
LEMMA LogImplies == \A a \in Alarms : ActiveOnce(a) => ShownOnce(a)
BY DEF ActiveOnce, ShownOnce, Logged

\* How a step may change what the log of an alarm shows: not at all, or by one
\* event more.
Grown(a) == history'[a] = history[a] \/ \E e \in EventType : history'[a] = Append(history[a], e)

\* One event more takes nothing away, and shows what it says.
LEMMA GrownKeeps ==
    ASSUME TypeOK, NEW a \in Alarms, Grown(a)
    PROVE  /\ ActiveOnce(a) => ActiveOnce(a)'
           /\ AckedOnce(a) => AckedOnce(a)'
           /\ ShownOnce(a) => ShownOnce(a)'
<1>1. CASE history'[a] = history[a]
  BY <1>1 DEF ActiveOnce, AckedOnce, ShownOnce, Logged
<1>2. CASE \E e \in EventType : history'[a] = Append(history[a], e)
  <2>1. PICK e \in EventType : history'[a] = Append(history[a], e)
    BY <1>2
  <2>2. /\ history[a] \in Seq(EventType)
        /\ Len(history[a]) \in Nat /\ Len(history'[a]) = Len(history[a]) + 1
        /\ \A i \in 1..Len(history[a]) : history'[a][i] = history[a][i]
    BY <2>1 DEF TypeOK, StoreTypeOK
  <2>3. ASSUME NEW E, NEW i \in 1..Len(history[a]), history[a][i] \in E
        PROVE  i \in 1..Len(history'[a]) /\ history'[a][i] \in E
    BY <2>2, <2>3
  <2>4. QED
    BY <2>3 DEF ActiveOnce, AckedOnce, ShownOnce, Logged
<1>3. QED
  BY <1>1, <1>2 DEF Grown

\* The event a transaction logs is in the log after it.
LEMMA EventLogged ==
    ASSUME TypeOK, NEW a \in Alarms, NEW e \in EventType, history'[a] = Append(history[a], e)
    PROVE  /\ e = "I" => ActiveOnce(a)'
           /\ e \in AckEvents => AckedOnce(a)'
           /\ e = "IA" => ShownOnce(a)'
<1>1. /\ Len(history[a]) \in Nat /\ Len(history'[a]) = Len(history[a]) + 1
      /\ history'[a][Len(history[a]) + 1] = e
  BY DEF TypeOK, StoreTypeOK
<1>2. Len(history'[a]) \in 1..Len(history'[a]) /\ history'[a][Len(history'[a])] = e
  BY <1>1
<1>3. QED
  BY <1>2 DEF ActiveOnce, AckedOnce, ShownOnce, Logged

\* What trigger(), an acknowledgement and the other steps do to the database.
LEMMA DbSteps ==
    ASSUME [Next]_vars
    PROVE  \/ UNCHANGED dbVars
           \/ \E w \in Slots, a \in Alarms : CommitTrigger(w, a)
           \/ \E r \in Requests : CommitAck(r)
           \/ \E r \in Requests : ClientStep(r)
<1>1. ASSUME NEW w \in Slots, Evaluate(w)
      PROVE  UNCHANGED dbVars \/ \E a \in Alarms : CommitTrigger(w, a)
  BY <1>1
  DEF Evaluate, SlotStep, TakeJob, ReadConfigs, FetchConfigs, StoreConfig, ReadStatuses,
      LoadStatuses, StoreStatus, KeepState, FailTrigger, PublishTrigger, FailPublish,
      Published, FinishJob, AbandonJob, storeVars, dbVars
<1>2. ASSUME NEW r \in Requests, Serve(r)
      PROVE  UNCHANGED dbVars \/ CommitAck(r)
  BY <1>2
  DEF Serve, RequestStep, FailAck, CacheAck, EmitAck, LoadAlarms, LoadAllStatuses,
      CacheList, CacheRow, FinishRefresh, FailRequest, storeVars, dbVars
<1>3. CASE \/ Telemetry \/ Expire \/ Clear \/ Crash
           \/ \E w \in Slots : Recover(w)
           \/ UNCHANGED vars
  BY <1>3 DEF Telemetry, Submit, Expire, ExpireStatus, ExpireConfig, Clear, ClearCache,
              Crash, Recover, vars, storeVars, dbVars
<1>4. QED
  BY <1>1, <1>2, <1>3 DEF Next, Idle, Call

\* Unless deleted ids are used again, an alarm that is there after a step was
\* not deleted before it, and its log only grows.
LEMMA LogGrows ==
    ASSUME TypeOK, ~ReuseIds, [Next]_vars, NEW a \in Alarms, Alive(a)'
    PROVE  Alive(a) /\ Grown(a)
<1>1. CASE UNCHANGED dbVars
  BY <1>1 DEF dbVars, Alive, Grown
<1>2. ASSUME NEW w \in Slots, NEW b \in Alarms, CommitTrigger(w, b)
      PROVE  Alive(a) /\ Grown(a)
  <2>1. TriggerTx(b, Activates(w, b), TriggerEvent(w, b)) /\ TriggerEvent(w, b) \in EventType
    BY <1>2, SeenType DEF CommitTrigger
  <2>2. QED
    BY <2>1 DEF TriggerTx, Alive, Grown, TypeOK, StoreTypeOK
<1>3. ASSUME NEW r \in Requests, CommitAck(r)
      PROVE  Alive(a) /\ Grown(a)
  <2>1. PICK S \in Chunks(r) : AckTx(S, [b \in S |-> AckEvent(r, b)])
    BY <1>3 DEF CommitAck
  <2>2. \/ history'[a] = history[a]
        \/ history'[a] = Append(history[a], AckEvent(r, a))
    BY <2>1 DEF AckTx
  <2>3. AckEvent(r, a) \in EventType /\ alarm' = alarm
    BY <2>1, AckEventType DEF AckTx
  <2>4. QED
    BY <2>2, <2>3 DEF Alive, Grown
<1>4. ASSUME NEW r \in Requests, ClientStep(r)
      PROVE  Alive(a) /\ Grown(a)
  <2>1. CASE UNCHANGED storeVars
    BY <2>1 DEF storeVars, Alive, Grown
  <2>2. ASSUME NEW b \in Alarms, Remove(r, b)
        PROVE  Alive(a) /\ Grown(a)
    <3>1. DeleteTx(b) /\ alarm[b] \in AlarmRow
      BY <2>2 DEF Remove, TypeOK, StoreTypeOK
    <3>2. alarm'[b].row = "gone"
      BY <3>1 DEF DeleteTx, AlarmRow, TypeOK, StoreTypeOK
    <3>3. a # b
      BY <3>2 DEF Alive
    <3>4. QED
      BY <3>1, <3>3 DEF DeleteTx, Alive, Grown, TypeOK, StoreTypeOK
  <2>3. ASSUME NEW b \in Alarms, NEW c, NEW e, Create(r, b, c, e)
        PROVE  Alive(a) /\ Grown(a)
    <3>1. CreateTx(b, c, e) /\ alarm[b].row = "new"
      BY <2>3 DEF Create, CreateTx
    <3>2. QED
      BY <3>1 DEF CreateTx, Alive, Grown, TypeOK, StoreTypeOK
  <2>4. ASSUME NEW b \in Alarms, NEW c, NEW e, Update(r, b, c, e)
        PROVE  Alive(a) /\ Grown(a)
    <3>1. UpdateTx(b, c, e)
      BY <2>4 DEF Update
    <3>2. a # b => alarm'[a] = alarm[a]
      BY <3>1 DEF UpdateTx, TypeOK, StoreTypeOK
    <3>3. alarm[b].row = "live"
      BY <3>1 DEF UpdateTx
    <3>4. QED
      BY <3>1, <3>2, <3>3 DEF UpdateTx, Alive, Grown
  <2>5. QED
    BY <1>4, <2>1, <2>2, <2>3, <2>4 DEF ClientStep, ReadAcknowledgeable, LoadAllAlarms
<1>5. QED
  BY <1>1, <1>2, <1>3, <1>4, DbSteps

\* A slot's snapshot of an alarm comes from the cache or from the table.
LEMMA SnapshotSteps ==
    ASSUME TypeOK, [Next]_vars, NEW w \in Slots, NEW a \in Alarms
    PROVE  /\ snapshot'[w][a] \in {None, snapshot[w][a], statusCache[a], status[a]}
           /\ pc[w] = "evaluate" /\ pc'[w] = "evaluate" => snapshot'[w] = snapshot[w]
<1>1. ASSUME NEW v \in Slots, SlotStep(v)
      PROVE  /\ snapshot'[w][a] \in {None, snapshot[w][a], statusCache[a], status[a]}
             /\ pc[w] = "evaluate" /\ pc'[w] = "evaluate" => snapshot'[w] = snapshot[w]
  <2>1. CASE Release(v)
    BY <2>1 DEF Release, NoStatus, TypeOK, EvalTypeOK
  <2>2. CASE ReadStatuses(v)
    BY <2>2 DEF ReadStatuses, TypeOK, EvalTypeOK
  <2>3. CASE LoadStatuses(v)
    BY <2>3 DEF LoadStatuses, TypeOK, EvalTypeOK
  <2>4. CASE UNCHANGED snapshot
    BY <2>4
  <2>5. QED
    BY <1>1, <2>1, <2>2, <2>3, <2>4
    DEF SlotStep, TakeJob, ReadConfigs, FetchConfigs, StoreConfig, StoreStatus, KeepState,
        CommitTrigger, FailTrigger, PublishTrigger, FailPublish, Evaluated, Published,
        FinishJob, AbandonJob
<1>2. CASE UNCHANGED snapshot
  BY <1>2
<1>3. CASE Crash
  BY <1>3 DEF Crash, NoStatus
<1>4. QED
  BY <1>1, <1>2, <1>3
  DEF Next, Telemetry, Submit, Evaluate, Recover, slotVars, evalVars, Call, Serve, Expire,
      Clear, Idle, vars

\* A request's rows come from the table, and stay until it ends.
LEMMA RowSteps ==
    ASSUME TypeOK, [Next]_vars, NEW r \in Requests, NEW a \in Alarms
    PROVE  rows'[r][a] \in {None, rows[r][a], status[a]}
<1>1. ASSUME NEW q \in Requests, ClientStep(q)
      PROVE  rows'[r][a] \in {None, rows[r][a], status[a]}
  <2>1. CASE UNCHANGED rows
    BY <2>1
  <2>2. ASSUME NEW o, NEW ids, ReadAcknowledgeable(q, o, ids)
        PROVE  rows'[r][a] \in {None, rows[r][a], status[a]}
    BY <2>2 DEF ReadAcknowledgeable, TypeOK, ConfigTypeOK
  <2>3. QED
    BY <1>1, <2>1, <2>2 DEF ClientStep, Remove, Create, Update, Refresh, LoadAllAlarms
<1>2. ASSUME NEW q \in Requests, RequestStep(q)
      PROVE  rows'[r][a] \in {None, rows[r][a], status[a]}
  <2>1. CASE End(q)
    BY <2>1 DEF End, TypeOK, ConfigTypeOK
  <2>2. CASE UNCHANGED rows
    BY <2>2
  <2>3. CASE LoadAlarms(q) \/ LoadAllStatuses(q)
    BY <2>3 DEF LoadAlarms, LoadAllStatuses, TypeOK, ConfigTypeOK
  <2>4. QED
    BY <1>2, <2>1, <2>2, <2>3
    DEF RequestStep, CommitAck, FailAck, CacheAck, EmitAck, CacheList, CacheRow, FinishRefresh,
        FailRequest
<1>3. CASE UNCHANGED rows
  BY <1>3
<1>4. CASE Crash
  BY <1>4 DEF Crash, NoStatus
<1>5. QED
  BY <1>1, <1>2, <1>3, <1>4
  DEF Next, Telemetry, Evaluate, Recover, configVars, Call, Serve, Expire, Clear, Idle, vars

\* Only four steps put something into the cache of an alarm's status.
LEMMA CacheSteps ==
    ASSUME TypeOK, [Next]_vars, NEW a \in Alarms
    PROVE  \/ statusCache'[a] \in {None, statusCache[a]}
           \/ \E w \in Slots : statusCache'[a] = snapshot[w][a]
           \/ \E w \in Slots : PublishTrigger(w, a)
           \/ \E r \in Requests :
                 /\ at[r] = "ackCache" /\ a \in chunk[r]
                 /\ statusCache'[a] = [rows[r][a] EXCEPT !.isAcknowledged = TRUE]
           \/ \E r \in Requests : statusCache'[a] = rows[r][a]
<1>1. ASSUME NEW b \in Alarms, NEW s, NEW ttl, CacheStatus(b, s, ttl)
      PROVE  statusCache'[a] = IF a = b THEN s ELSE statusCache[a]
  BY <1>1 DEF CacheStatus, TypeOK, StoreTypeOK
<1>2. ASSUME \/ UNCHANGED statusCache
             \/ ClearCache
             \/ \E b \in Alarms : UncacheStatus(b)
             \/ \E v \in Variables : \E l : CacheConfig(v, l)
      PROVE  statusCache'[a] \in {None, statusCache[a]}
  BY <1>2 DEF ClearCache, UncacheStatus, CacheConfig, TypeOK, StoreTypeOK
<1>3. ASSUME NEW w \in Slots, SlotStep(w)
      PROVE  \/ statusCache'[a] \in {None, statusCache[a]}
             \/ statusCache'[a] = snapshot[w][a]
             \/ PublishTrigger(w, a)
  <2>1. CASE StoreStatus(w)
    BY <2>1 DEF StoreStatus, CacheStatus, TypeOK, StoreTypeOK
  <2>2. CASE StoreConfig(w)
    BY <2>2 DEF StoreConfig, CacheConfig
  <2>3. ASSUME NEW b \in Alarms, PublishTrigger(w, b)
        PROVE  statusCache'[a] = statusCache[a] \/ PublishTrigger(w, a)
    BY <2>3 DEF PublishTrigger, CacheStatus, TypeOK, StoreTypeOK
  <2>4. QED
    BY <1>3, <2>1, <2>2, <2>3
    DEF SlotStep, TakeJob, ReadConfigs, FetchConfigs, ReadStatuses, LoadStatuses, KeepState,
        CommitTrigger, FailTrigger, FailPublish, FinishJob, AbandonJob, storeVars, cacheVars
<1>4. ASSUME NEW r \in Requests, RequestStep(r)
      PROVE  \/ statusCache'[a] \in {None, statusCache[a]}
             \/ /\ at[r] = "ackCache" /\ a \in chunk[r]
                /\ statusCache'[a] = [rows[r][a] EXCEPT !.isAcknowledged = TRUE]
             \/ statusCache'[a] = rows[r][a]
  <2>1. CASE CacheAck(r)
    BY <2>1 DEF CacheAck, CacheStatus, TypeOK, StoreTypeOK
  <2>2. CASE CacheRow(r)
    BY <2>2 DEF CacheRow, CacheStatus, TypeOK, StoreTypeOK
  <2>3. CASE CacheList(r)
    BY <2>3 DEF CacheList, CacheConfig
  <2>4. CASE FinishRefresh(r)
    BY <2>4 DEF FinishRefresh, UncacheStatus, cacheVars, TypeOK, StoreTypeOK
  <2>5. QED
    BY <1>4, <2>1, <2>2, <2>3, <2>4
    DEF RequestStep, CommitAck, FailAck, EmitAck, LoadAlarms, LoadAllStatuses, FailRequest,
        storeVars, cacheVars
<1>5. ASSUME NEW r \in Requests, ClientStep(r)
      PROVE  UNCHANGED statusCache
  BY <1>5 DEF ClientStep, ReadAcknowledgeable, Remove, Create, Update, Refresh, LoadAllAlarms,
              storeVars, cacheVars
<1>6. CASE Expire
  BY <1>6 DEF Expire, ExpireStatus, ExpireConfig, UncacheStatus, CacheConfig, TypeOK, StoreTypeOK
<1>7. CASE Clear \/ Crash
  BY <1>2, <1>7 DEF Clear, Crash, storeVars
<1>8. QED
  BY <1>2, <1>3, <1>4, <1>5, <1>6, <1>7
  DEF Next, Telemetry, Submit, Evaluate, Recover, Call, Serve, Idle, vars, storeVars

\* Only trigger() and an acknowledgement put an alarm on the screen.
LEMMA ScreenSteps ==
    ASSUME TypeOK, [Next]_vars, NEW a \in Alarms, shown'[a] = "triggered"
    PROVE  \/ shown[a] = "triggered"
           \/ \E w \in Slots : a \in committed[w] /\ TriggerEvent(w, a) \in {"I", "IA"}
           \/ \E r \in Requests : at[r] = "ackEmit" /\ a \in todo[r] /\ AckEvent(r, a) \in {"I", "IA"}
<1>1. ASSUME NEW b \in Alarms, NEW type, Show(b, type)
      PROVE  shown[a] = "triggered" \/ (a = b /\ type \in {"I", "IA"})
  BY <1>1 DEF Show, Lane, TypeOK, StoreTypeOK
<1>2. ASSUME NEW w \in Slots, SlotStep(w)
      PROVE  \/ shown[a] = "triggered"
             \/ a \in committed[w] /\ TriggerEvent(w, a) \in {"I", "IA"}
  <2>1. ASSUME NEW b \in Alarms, PublishTrigger(w, b)
        PROVE  \/ shown[a] = "triggered"
               \/ a \in committed[w] /\ TriggerEvent(w, a) \in {"I", "IA"}
    BY <2>1 DEF PublishTrigger, Published, Show, Lane, TypeOK, StoreTypeOK
  <2>2. QED
    BY <1>2, <2>1
    DEF SlotStep, TakeJob, ReadConfigs, FetchConfigs, ReadStatuses, LoadStatuses, KeepState,
        CommitTrigger, FailTrigger, FailPublish, FinishJob, AbandonJob, StoreConfig, StoreStatus,
        storeVars
<1>3. ASSUME NEW r \in Requests, RequestStep(r)
      PROVE  \/ shown[a] = "triggered"
             \/ at[r] = "ackEmit" /\ a \in todo[r] /\ AckEvent(r, a) \in {"I", "IA"}
  <2>1. CASE EmitAck(r)
    BY <2>1 DEF EmitAck, Show, Lane, TypeOK, StoreTypeOK
  <2>2. QED
    BY <1>3, <2>1
    DEF RequestStep, CommitAck, FailAck, CacheAck, LoadAlarms, LoadAllStatuses, CacheList, CacheRow,
        FinishRefresh, FailRequest, storeVars
<1>4. ASSUME NEW r \in Requests, ClientStep(r)
      PROVE  UNCHANGED shown
  BY <1>4 DEF ClientStep, ReadAcknowledgeable, Remove, Create, Update, Refresh, LoadAllAlarms,
              storeVars
<1>5. QED
  BY <1>2, <1>3, <1>4
  DEF Next, Telemetry, Submit, Evaluate, Recover, Call, Serve, Idle, vars, storeVars, Expire,
      ExpireStatus, ExpireConfig, Clear, ClearCache, Crash

\* A slot publishes only once it evaluates; a request has cached a chunk before
\* it takes the next.
LEMMA PublishingNext ==
    ASSUME TypeOK, RowsKnown, Publishing, [Next]_vars
    PROVE  Publishing'
<1> DEFINE Slotwise == \A w \in Slots : committed[w] # {} => pc[w] = "evaluate"
           Requestwise == \A r \in Requests :
                chunk[r] # {} => at[r] = "ackCache" /\ chunk[r] \cap todo[r] = {}
<1>1. Slotwise /\ Requestwise
  BY DEF Publishing
<1>2. ASSUME NEW w \in Slots, SlotStep(w)
      PROVE  Slotwise'
  <2>1. CASE Release(w)
    BY <1>1, <2>1 DEF Release, TypeOK, EvalTypeOK
  <2>2. CASE \/ TakeJob(w) \/ ReadConfigs(w) \/ FetchConfigs(w) \/ StoreConfig(w)
             \/ ReadStatuses(w) \/ LoadStatuses(w) \/ StoreStatus(w)
    <3>1. pc[w] # "evaluate" /\ UNCHANGED committed /\ \A v \in Slots \ {w} : pc'[v] = pc[v]
      BY <2>2 DEF TakeJob, ReadConfigs, FetchConfigs, StoreConfig, AfterConfigs, ReadStatuses,
                  LoadStatuses, StoreStatus, TypeOK, EvalTypeOK
    <3>2. QED
      BY <1>1, <3>1
  <2>3. ASSUME NEW a \in Alarms,
               \/ KeepState(w, a) \/ CommitTrigger(w, a) \/ FailTrigger(w, a)
               \/ PublishTrigger(w, a) \/ FailPublish(w, a)
        PROVE  Slotwise'
    <3>1. /\ UNCHANGED pc
          /\ \A v \in Slots \ {w} : committed'[v] = committed[v]
          /\ committed'[w] # {} => committed[w] # {} \/ pc[w] = "evaluate"
      BY <2>3 DEF KeepState, CommitTrigger, FailTrigger, PublishTrigger, FailPublish, Evaluated,
                  Published, TypeOK, EvalTypeOK
    <3>2. QED
      BY <1>1, <3>1
  <2>4. QED
    BY <1>2, <2>1, <2>2, <2>3 DEF SlotStep, FinishJob, AbandonJob
<1>3. ASSUME NEW r \in Requests, \A q \in Requests \ {r} :
                 chunk'[q] = chunk[q] /\ at'[q] = at[q] /\ todo'[q] = todo[q],
             chunk'[r] # {} => at'[r] = "ackCache" /\ chunk'[r] \cap todo'[r] = {}
      PROVE  Requestwise'
  BY <1>1, <1>3
<1>4. ASSUME NEW r \in Requests, ClientStep(r)
      PROVE  Requestwise'
  <2>1. at[r] = "idle" /\ UNCHANGED chunk
    BY <1>4 DEF ClientStep, ReadAcknowledgeable, Remove, Create, Update, Refresh, LoadAllAlarms, Begin
  <2>2. \A q \in Requests \ {r} : at'[q] = at[q] /\ todo'[q] = todo[q]
    <3>1. CASE UNCHANGED todo /\ \E x : at' = [at EXCEPT ![r] = x]
      BY <3>1 DEF TypeOK, ConfigTypeOK
    <3>2. CASE \E x, y : at' = [at EXCEPT ![r] = x] /\ todo' = [todo EXCEPT ![r] = y]
      BY <3>2 DEF TypeOK, ConfigTypeOK
    <3>3. QED
      BY <1>4, <3>1, <3>2 DEF ClientStep, ReadAcknowledgeable, Remove, Create, Update, Refresh,
                              LoadAllAlarms
  <2>3. QED
    BY <1>1, <2>1, <2>2
<1>5. ASSUME NEW r \in Requests, RequestStep(r)
      PROVE  Requestwise'
  <2>1. CASE End(r)
    BY <1>1, <2>1 DEF End, TypeOK, ConfigTypeOK
  <2>2. CASE CommitAck(r)
    BY <1>3, <2>2 DEF CommitAck, TypeOK, ConfigTypeOK
  <2>3. CASE CacheAck(r)
    <3>1. PICK a \in chunk[r] :
            /\ chunk' = [chunk EXCEPT ![r] = @ \ {a}]
            /\ IF chunk[r] # {a} THEN UNCHANGED <<at, todo>>
               ELSE IF todo[r] # {}
               THEN at' = [at EXCEPT ![r] = "ackTx"] /\ UNCHANGED todo
               ELSE /\ at' = [at EXCEPT ![r] = "ackEmit"]
                    /\ todo' = [todo EXCEPT ![r] = Found(r)]
      BY <2>3 DEF CacheAck
    <3>2. chunk'[r] = chunk[r] \ {a}
      BY <3>1 DEF TypeOK, ConfigTypeOK
    <3>3. chunk'[r] # {} => UNCHANGED <<at, todo>>
      BY <3>1, <3>2
    <3>4. \A q \in Requests \ {r} : chunk'[q] = chunk[q] /\ at'[q] = at[q] /\ todo'[q] = todo[q]
      BY <3>1 DEF TypeOK, ConfigTypeOK
    <3>5. QED
      BY <1>1, <1>3, <3>2, <3>3, <3>4
  <2>4. CASE EmitAck(r)
    <3>1. at[r] = "ackEmit" /\ (End(r) \/ UNCHANGED <<at, chunk>>)
      BY <2>4 DEF EmitAck
    <3>2. CASE UNCHANGED <<at, chunk>>
      <4>1. \A q \in Requests \ {r} : todo'[q] = todo[q]
        BY <2>4, <3>2 DEF EmitAck, End, TypeOK, ConfigTypeOK
      <4>2. QED
        BY <1>1, <3>1, <3>2, <4>1
    <3>3. QED
      BY <2>1, <3>1, <3>2
  <2>5. CASE LoadAlarms(r) \/ LoadAllStatuses(r) \/ CacheList(r) \/ CacheRow(r)
    <3>1. at[r] # "ackCache" /\ UNCHANGED chunk
      BY <2>5 DEF LoadAlarms, LoadAllStatuses, CacheList, CacheRow
    <3>2. \A q \in Requests \ {r} : at'[q] = at[q] /\ todo'[q] = todo[q]
      BY <2>5 DEF LoadAlarms, LoadAllStatuses, CacheList, CacheRow, TypeOK, ConfigTypeOK
    <3>3. QED
      BY <1>1, <3>1, <3>2
  <2>6. QED
    BY <1>5, <2>1, <2>2, <2>3, <2>4, <2>5 DEF RequestStep, FailAck, FinishRefresh, FailRequest
<1>6. ASSUME UNCHANGED <<committed, pc>>
      PROVE  Slotwise'
  BY <1>1, <1>6
<1>7. ASSUME UNCHANGED <<chunk, at, todo>>
      PROVE  Requestwise'
  BY <1>1, <1>7
<1>8. CASE Crash
  BY <1>8 DEF Crash, Publishing
<1>9. Slotwise' /\ Requestwise' => Publishing'
  BY DEF Publishing
<1> HIDE DEF Slotwise, Requestwise
<1>10. QED
  BY <1>2, <1>4, <1>5, <1>6, <1>7, <1>8, <1>9
  DEF Next, Telemetry, Submit, Evaluate, Recover, Call, Serve, Expire, Clear, Idle, vars,
      evalVars, slotVars, configVars

\* What a slot has still to publish it has committed, now or before, and it has
\* kept the snapshot it evaluated.
LEMMA PublishSteps ==
    ASSUME TypeOK, RowsKnown, Publishing, [Next]_vars, NEW w \in Slots, NEW a \in Alarms, a \in committed'[w]
    PROVE  /\ snapshot'[w] = snapshot[w]
           /\ a \in committed[w] \/ CommitTrigger(w, a)
<1>1. a \in committed[w] \/ CommitTrigger(w, a)
  <2>1. ASSUME NEW v \in Slots, SlotStep(v)
        PROVE  a \in committed[w] \/ CommitTrigger(w, a)
    <3>1. CASE Release(v)
      BY <3>1 DEF Release, TypeOK, EvalTypeOK
    <3>2. ASSUME NEW b \in Alarms,
                 \/ CommitTrigger(v, b) \/ PublishTrigger(v, b) \/ FailPublish(v, b)
          PROVE  a \in committed[w] \/ CommitTrigger(w, a)
      <4>1. CASE CommitTrigger(v, b) /\ v = w /\ a = b
        BY <4>1
      <4>2. CASE CommitTrigger(v, b) /\ ~(v = w /\ a = b)
        BY <4>2 DEF CommitTrigger, TypeOK, EvalTypeOK
      <4>3. CASE PublishTrigger(v, b) \/ FailPublish(v, b)
        BY <4>3 DEF PublishTrigger, FailPublish, Published, TypeOK, EvalTypeOK
      <4>4. QED
        BY <3>2, <4>1, <4>2, <4>3
    <3>3. CASE UNCHANGED committed
      BY <3>3
    <3>4. QED
      BY <2>1, <3>1, <3>2, <3>3
      DEF SlotStep, TakeJob, ReadConfigs, FetchConfigs, StoreConfig, ReadStatuses, LoadStatuses,
          StoreStatus, KeepState, FailTrigger, FinishJob, AbandonJob
  <2>2. CASE UNCHANGED committed
    BY <2>2
  <2>3. ~Crash
    BY DEF Crash
  <2>4. QED
    BY <2>1, <2>2, <2>3
    DEF Next, Telemetry, Submit, Evaluate, Recover, Call, Serve, Expire, Clear, Idle, vars,
        evalVars, slotVars
<1>2. pc'[w] = "evaluate"
  BY PublishingNext DEF Publishing
<1>3. pc[w] = "evaluate"
  BY <1>1 DEF Publishing, CommitTrigger, Evaluated
<1>4. QED
  BY <1>1, <1>2, <1>3, SnapshotSteps

\* What a request has acknowledged it has acknowledged in this step or before,
\* and it logs for it what it has logged or logs now.
LEMMA AckSteps ==
    ASSUME TypeOK, RowsKnown, Publishing, [Next]_vars,
           NEW r \in Requests, NEW a \in Alarms, Acked(r, a)'
    PROVE  /\ rows'[r] = rows[r] /\ op'[r] = op[r]
           /\ Acked(r, a) \/ \E S \in SUBSET Alarms : a \in S /\ AckTx(S, [b \in S |-> AckEvent(r, b)])
<1> DEFINE Q == /\ rows'[r] = rows[r] /\ op'[r] = op[r]
                /\ Acked(r, a) \/ \E S \in SUBSET Alarms : a \in S /\ AckTx(S, [b \in S |-> AckEvent(r, b)])
<1>1. /\ rows'[r][a] # None /\ at'[r] \in {"ackEmit", "ackTx", "ackCache"}
      /\ at'[r] # "ackEmit" => a \notin todo'[r]
  BY DEF Acked
<1>2. ASSUME rows'[r] = rows[r], op'[r] = op[r], at'[r] = at[r],
             at[r] # "ackEmit" => todo'[r] = todo[r]
      PROVE  Q
  BY <1>1, <1>2 DEF Acked
<1>3. ASSUME NEW q \in Requests, ClientStep(q)
      PROVE  Q
  <2>1. ASSUME NEW o, NEW ids, ReadAcknowledgeable(q, o, ids)
        PROVE  Q
    <3>1. CASE q = r
      BY <1>1, <2>1, <3>1 DEF ReadAcknowledgeable, TypeOK, ConfigTypeOK
    <3>2. CASE q # r
      BY <1>2, <2>1, <3>2 DEF ReadAcknowledgeable, Begin, TypeOK, ConfigTypeOK
    <3>3. QED
      BY <3>1, <3>2
  <2>2. ASSUME UNCHANGED <<rows, todo>>, NEW o, op' = [op EXCEPT ![q] = o],
               NEW x \in {"load", "warm"}, at' = [at EXCEPT ![q] = x]
        PROVE  Q
    <3>1. q # r
      BY <1>1, <2>2 DEF TypeOK, ConfigTypeOK
    <3>2. QED
      BY <1>2, <2>2, <3>1 DEF TypeOK, ConfigTypeOK
  <2> HIDE DEF Q
  <2>3. QED
    BY <1>3, <2>1, <2>2 DEF ClientStep, Remove, Create, Update, Refresh, LoadAllAlarms, Begin
<1>4. ASSUME NEW q \in Requests, RequestStep(q)
      PROVE  Q
  <2>1. CASE q = r
    <3>1. ~End(r)
      BY <1>1 DEF End, TypeOK, ConfigTypeOK
    <3>2. CASE CommitAck(r)
      <4>1. PICK S \in Chunks(r) :
                /\ AckTx(S, [b \in S |-> AckEvent(r, b)])
                /\ todo' = [todo EXCEPT ![r] = @ \ S]
        BY <3>2 DEF CommitAck
      <4>2. S \in SUBSET Alarms
        BY DEF Chunks, TypeOK, ConfigTypeOK
      <4>3. UNCHANGED <<op, rows>> /\ at[r] = "ackTx" /\ at'[r] = "ackCache"
        BY <3>2 DEF CommitAck, TypeOK, ConfigTypeOK
      <4>4. CASE a \in S
        BY <4>1, <4>2, <4>3, <4>4
      <4>5. CASE a \notin S
        <5>1. a \notin todo[r]
          BY <1>1, <4>1, <4>3, <4>5 DEF TypeOK, ConfigTypeOK
        <5>2. QED
          BY <1>1, <4>3, <5>1 DEF Acked
      <4>6. QED
        BY <4>4, <4>5
    <3>3. CASE CacheAck(r)
      <4>1. /\ UNCHANGED <<op, rows>> /\ at[r] = "ackCache"
            /\ UNCHANGED todo \/ todo[r] = {}
        BY <3>3 DEF CacheAck
      <4>2. a \notin todo[r]
        <5>1. CASE UNCHANGED todo /\ at'[r] # "ackEmit"
          BY <1>1, <5>1
        <5>2. CASE todo[r] = {}
          BY <5>2
        <5>3. at'[r] = "ackEmit" => todo[r] = {}
          BY <3>3 DEF CacheAck, TypeOK, ConfigTypeOK
        <5>4. QED
          BY <4>1, <5>1, <5>2, <5>3
      <4>3. QED
        BY <1>1, <4>1, <4>2 DEF Acked
    <3>4. CASE EmitAck(r)
      <4>1. at[r] = "ackEmit" /\ UNCHANGED <<op, at, rows>>
        BY <3>1, <3>4 DEF EmitAck
      <4>2. QED
        BY <1>2, <4>1
    <3>5. ~LoadAlarms(r) /\ ~LoadAllStatuses(r) /\ ~CacheList(r) /\ ~CacheRow(r)
      BY <1>1 DEF LoadAlarms, LoadAllStatuses, CacheList, CacheRow, TypeOK, ConfigTypeOK
    <3>6. QED
      BY <1>4, <2>1, <3>1, <3>2, <3>3, <3>4, <3>5
      DEF RequestStep, FailAck, FinishRefresh, FailRequest
  <2>2. CASE q # r
    <3>1. rows'[r] = rows[r] /\ op'[r] = op[r] /\ at'[r] = at[r] /\ todo'[r] = todo[r]
      <4>1. CASE End(q)
        BY <2>2, <4>1 DEF End, TypeOK, ConfigTypeOK
      <4>2. CASE CommitAck(q) \/ CacheAck(q)
        BY <2>2, <4>2 DEF CommitAck, CacheAck, TypeOK, ConfigTypeOK
      <4>3. CASE EmitAck(q)
        BY <2>2, <4>1, <4>3 DEF EmitAck, TypeOK, ConfigTypeOK
      <4>4. CASE LoadAlarms(q) \/ LoadAllStatuses(q) \/ CacheList(q) \/ CacheRow(q)
        BY <2>2, <4>4 DEF LoadAlarms, LoadAllStatuses, CacheList, CacheRow, TypeOK, ConfigTypeOK
      <4>5. QED
        BY <1>4, <4>1, <4>2, <4>3, <4>4 DEF RequestStep, FailAck, FinishRefresh, FailRequest
    <3>2. QED
      BY <1>2, <3>1
  <2>3. QED
    BY <2>1, <2>2
<1>5. CASE UNCHANGED configVars
  BY <1>2, <1>5 DEF configVars
<1>6. ~Crash
  BY <1>1 DEF Crash
<1>7. \/ UNCHANGED configVars
      \/ Crash
      \/ \E q \in Requests : ClientStep(q) \/ RequestStep(q)
  BY DEF Next, Telemetry, Evaluate, Recover, Call, Serve, Expire, Clear, Idle, vars
<1>8. QED
  BY <1>3, <1>4, <1>5, <1>6, <1>7

\* Every step keeps what is said of an alarm within what its log shows.
LEMMA NextBacked ==
    ASSUME IInv, IInv', StatusMatchesLog, BackedInv, ~ReuseIds, [Next]_vars
    PROVE  BackedInv'
<1> USE DEF IInv
<1>1. Publishing /\ Publishing'
  BY PublishingNext DEF BackedInv
<1>2. ASSUME NEW a \in Alarms, Alive(a)'
      PROVE  Backed(a)'
  <2>1. Grown(a) /\ StatusBacked(a) /\ Backed(a)
    BY <1>2, LogGrows, MatchBacks DEF BackedInv
  <2>2. /\ ActiveOnce(a) => ActiveOnce(a)'
        /\ AckedOnce(a) => AckedOnce(a)'
        /\ ShownOnce(a) => ShownOnce(a)'
    BY <2>1, GrownKeeps
  <2>3. ActiveOnce(a) => ShownOnce(a)
    BY LogImplies
  <2>4. ASSUME NEW w \in Slots
        PROVE  SnapshotBacked(w, a)'
    <3>1. snapshot'[w][a] \in {None, snapshot[w][a], statusCache[a], status[a]}
      BY SnapshotSteps
    <3>2. SnapshotBacked(w, a) /\ CacheBacked(a)
      BY <2>1 DEF Backed
    <3>3. QED
      BY <2>1, <2>2, <3>1, <3>2 DEF SnapshotBacked, CacheBacked, StatusBacked
  <2>5. ASSUME NEW r \in Requests
        PROVE  RowBacked(r, a)'
    <3>1. rows'[r][a] \in {None, rows[r][a], status[a]}
      BY RowSteps
    <3>2. RowBacked(r, a)
      BY <2>1 DEF Backed
    <3>3. QED
      BY <2>1, <2>2, <3>1, <3>2 DEF RowBacked, StatusBacked
  <2>6. ASSUME NEW w \in Slots
        PROVE  PublishBacked(w, a)'
    <3>1. SUFFICES ASSUME a \in committed'[w], Activates(w, a)' PROVE ActiveOnce(a)'
      BY DEF PublishBacked
    <3>2. snapshot'[w] = snapshot[w] /\ (a \in committed[w] \/ CommitTrigger(w, a))
      BY <1>1, <3>1, PublishSteps
    <3>3. Activates(w, a)
      BY <3>1, <3>2 DEF Activates, StatusSeen
    <3>4. CASE a \in committed[w]
      BY <2>1, <2>2, <3>3, <3>4 DEF Backed, PublishBacked
    <3>5. CASE CommitTrigger(w, a)
      <4>1. TriggerEvent(w, a) = "I" /\ "I" \in EventType
        BY <3>3, SeenType DEF EventType
      <4>2. history'[a] = Append(history[a], "I")
        BY <3>5, <4>1 DEF CommitTrigger, TriggerTx, TypeOK, StoreTypeOK
      <4>3. QED
        BY <4>1, <4>2, EventLogged
    <3>6. QED
      BY <3>2, <3>4, <3>5
  <2>7. ASSUME NEW r \in Requests
        PROVE  AckBacked(r, a)'
    <3>1. SUFFICES ASSUME Acked(r, a)'
                   PROVE  AckedOnce(a)' /\ (AckEvent(r, a)' = "IA" => ShownOnce(a)')
      BY DEF AckBacked
    <3>2. /\ rows'[r] = rows[r] /\ op'[r] = op[r]
          /\ Acked(r, a) \/ \E S \in SUBSET Alarms : a \in S /\ AckTx(S, [b \in S |-> AckEvent(r, b)])
      BY <1>1, <3>1, AckSteps
    <3>3. AckEvent(r, a)' = AckEvent(r, a)
      BY <3>2 DEF AckEvent
    <3>4. CASE Acked(r, a)
      BY <2>1, <2>2, <3>3, <3>4 DEF Backed, AckBacked
    <3>5. CASE \E S \in SUBSET Alarms : a \in S /\ AckTx(S, [b \in S |-> AckEvent(r, b)])
      <4>1. history'[a] = Append(history[a], AckEvent(r, a))
        BY <3>5 DEF AckTx
      <4>2. AckEvent(r, a) \in AckEvents /\ AckEvent(r, a) \in EventType
        BY AckEventType
      <4>3. PICK e \in EventType : e = AckEvent(r, a)
        BY <4>2
      <4>4. (e \in AckEvents => AckedOnce(a)') /\ (e = "IA" => ShownOnce(a)')
        BY <4>1, <4>3, EventLogged
      <4>5. QED
        BY <3>3, <4>2, <4>3, <4>4
    <3>6. QED
      BY <3>2, <3>4, <3>5
  <2>8. CacheBacked(a)'
    <3>1. CASE statusCache'[a] \in {None, statusCache[a]}
      BY <2>1, <2>2, <3>1 DEF Backed, CacheBacked
    <3>2. ASSUME NEW w \in Slots, statusCache'[a] = snapshot[w][a]
          PROVE  CacheBacked(a)'
      <4>1. SnapshotBacked(w, a)
        BY <2>1 DEF Backed
      <4>2. QED
        BY <2>2, <3>2, <4>1 DEF SnapshotBacked, CacheBacked
    <3>3. ASSUME NEW w \in Slots, PublishTrigger(w, a)
          PROVE  CacheBacked(a)'
      <4>1. /\ a \in committed[w]
            /\ statusCache'[a] = [isActive |-> Activates(w, a),
                                  isAcknowledged |-> ~Activates(w, a) /\ StatusSeen(w, a).isAcknowledged]
        BY <3>3 DEF PublishTrigger, Published, CacheStatus, TypeOK, StoreTypeOK
      <4>2. Activates(w, a) => ActiveOnce(a)
        BY <2>1, <4>1 DEF Backed, PublishBacked
      <4>3. StatusSeen(w, a).isAcknowledged => AckedOnce(a)
        BY <2>1 DEF Backed, SnapshotBacked, StatusSeen, Inactive
      <4>4. /\ statusCache'[a].isActive = Activates(w, a)
            /\ statusCache'[a].isAcknowledged = (~Activates(w, a) /\ StatusSeen(w, a).isAcknowledged)
        BY <4>1
      <4>5. QED
        BY <2>2, <4>2, <4>3, <4>4, Zenon DEF CacheBacked
    <3>4. ASSUME NEW r \in Requests, at[r] = "ackCache", a \in chunk[r],
                 statusCache'[a] = [rows[r][a] EXCEPT !.isAcknowledged = TRUE]
          PROVE  CacheBacked(a)'
      <4>1. rows[r][a] # None
        BY <3>4 DEF RowsKnown, Found
      <4>2. rows[r][a] \in Status
        BY <4>1 DEF TypeOK, ConfigTypeOK
      <4>3. statusCache'[a].isActive = rows[r][a].isActive
        BY <3>4, <4>2 DEF Status
      <4>4. a \notin todo[r]
        BY <1>1, <3>4 DEF Publishing
      <4>5. AckedOnce(a) /\ (rows[r][a].isActive => ActiveOnce(a))
        BY <2>1, <3>4, <4>1, <4>4 DEF Backed, AckBacked, Acked, RowBacked
      <4>6. QED
        BY <2>2, <4>3, <4>5 DEF CacheBacked
    <3>5. ASSUME NEW r \in Requests, statusCache'[a] = rows[r][a]
          PROVE  CacheBacked(a)'
      <4>1. RowBacked(r, a)
        BY <2>1 DEF Backed
      <4>2. QED
        BY <2>2, <3>5, <4>1 DEF RowBacked, CacheBacked
    <3>6. QED
      BY <3>1, <3>2, <3>3, <3>4, <3>5, CacheSteps
  <2>9. ScreenBacked(a)'
    <3>1. SUFFICES ASSUME shown'[a] = "triggered" PROVE ShownOnce(a)'
      BY DEF ScreenBacked
    <3>2. CASE shown[a] = "triggered"
      BY <2>1, <2>2, <3>2 DEF Backed, ScreenBacked
    <3>3. ASSUME NEW w \in Slots, a \in committed[w], TriggerEvent(w, a) \in {"I", "IA"}
          PROVE  ShownOnce(a)'
      <4>1. Activates(w, a)
        BY <3>3, SeenType DEF ClearEvents, TriggerEvent
      <4>2. QED
        BY <2>1, <2>2, <2>3, <3>3, <4>1 DEF Backed, PublishBacked
    <3>4. ASSUME NEW r \in Requests, at[r] = "ackEmit", a \in todo[r], AckEvent(r, a) \in {"I", "IA"}
          PROVE  ShownOnce(a)'
      <4>1. Acked(r, a)
        BY <3>4 DEF Acked, RowsKnown, Found
      <4>2. AckEvent(r, a) = "IA"
        BY <3>4 DEF AckEvent
      <4>3. QED
        BY <2>1, <2>2, <4>1, <4>2 DEF Backed, AckBacked
    <3>5. QED
      BY <3>1, <3>2, <3>3, <3>4, ScreenSteps
  <2>10. QED
    BY <2>4, <2>5, <2>6, <2>7, <2>8, <2>9 DEF Backed
<1>3. QED
  BY <1>1, <1>2 DEF BackedInv

\* At the start nothing is said of any alarm.
LEMMA InitBacked == Init => BackedInv
<1> SUFFICES ASSUME Init PROVE BackedInv
  OBVIOUS
<1>1. \A a \in Alarms : statusCache[a] = None /\ shown[a] = "none"
  BY DEF Init, StoreInit
<1>2. \A w \in Slots : committed[w] = {} /\ \A a \in Alarms : snapshot[w][a] = None
  BY DEF Init, EvalInit, SlotsIdle, NoStatus
<1>3. \A r \in Requests : chunk[r] = {} /\ \A a \in Alarms : rows[r][a] = None
  BY DEF Init, ConfigInit, RequestsIdle
<1>4. QED
  BY <1>1, <1>2, <1>3
  DEF BackedInv, Publishing, Backed, CacheBacked, ScreenBacked, SnapshotBacked, PublishBacked,
      RowBacked, AckBacked, Acked

\* However stale, a cached status claims no activation or acknowledgement that
\* did not commit, and no screen shows one (trigger, acknowledge, acknowledgeAll,
\* acknowledgeBatch, refreshAlarmCache, initialize): for any number of alarms,
\* slots, requests and crashes, as long as clients leave the ids of new alarms to
\* the database.
THEOREM CacheNeverInventsStatus == ASSUME ~ReuseIds PROVE Spec => []CacheNeverInvents
<1>1. Init => IInv /\ BackedInv
  BY InitIInv, InitBacked
<1>2. IInv /\ StatusMatchesLog /\ BackedInv /\ [Next]_vars => IInv' /\ BackedInv'
  BY NextIInv, NextBacked
<1>3. IInv /\ BackedInv => CacheNeverInvents
  <2> SUFFICES ASSUME IInv, BackedInv, NEW a \in Alarms, status[a] # None
               PROVE  /\ statusCache[a] # None => Evidenced(a, statusCache[a])
                      /\ shown[a] = "triggered" => Logged(a, {"I", "IA"})
    BY DEF CacheNeverInvents
  <2>1. Alive(a)
    BY DEF IInv, StatusPerAlarm, Alive
  <2>2. QED
    BY <2>1 DEF BackedInv, Backed, CacheBacked, ScreenBacked, ActiveOnce, AckedOnce, ShownOnce, Evidenced
<1>4. Spec => []StatusMatchesLog
  BY StatusAlwaysMatchesLog
<1>5. QED
  BY <1>1, <1>2, <1>3, <1>4, PTL DEF Spec

=============================================================================
