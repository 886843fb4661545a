-------------------------- MODULE ReadingVariables --------------------------
(***************************************************************************)
(* ReadingVariablesService, for one configuration: the rows of its         *)
(* variables, the cached list of them that a message is decoded with, and  *)
(* what messages, requests, a restore and the removal of the configuration *)
(* do to both between two awaits.                                          *)
(* What becomes of the updates is modelled in Telemetry.                   *)
(***************************************************************************)
EXTENDS Decoding

CONSTANTS
    Names,       \* names of the variables of the configuration
    Variables,   \* what a row may say: [fn, start, seq]
    Requests,    \* requests in flight, a restore among them
    Messages,    \* messages in flight
    Payloads,    \* what a message may hold: [kind, items]
    Limit,       \* maxReadingVariables of the configuration; 0 is none
    MaxStart,    \* bound: the starts that ReadThrowsFromEnd looks at
    MaxCalls, MaxFaults   \* bounds of the environment

ASSUME ReadingAssumption ==
    /\ Requests \cap Messages = {}
    /\ Limit \in Nat /\ MaxStart \in Nat /\ MaxCalls \in Nat /\ MaxFaults \in Nat

\* A value is a byte.
ASSUME PayloadAssumption ==
    \A payload \in Payloads :
        /\ payload.kind \in {"JSON", "KV", "HEX", "text"}
        /\ payload.items \in Seq(IF payload.kind = "HEX" THEN Digits ELSE Bytes)

VARIABLES
    rows,      \* committed: [Names -> {} or {a variable}]
    tx,        \* the transaction of a restore: {} or {rows}
    list,      \* reading_variables_config_<id>: {} or {rows}
    at,        \* where a request or a message is suspended
    got,       \* the list a message has
    valuesOf,  \* what a message that has a list is decoded to: {} or {values}
    updated,   \* the names that the last message updated; none if it went to the
               \* dead letters
    stale,     \* whether the list is known to be outdated
    calls, faults

dbVars == <<rows, tx>>
cacheVars == <<list, stale>>
envVars == <<calls, faults>>
messageVars == <<got, valuesOf, updated>>
vars == <<dbVars, cacheVars, at, messageVars, envVars>>

Procs == Requests \cup Messages
Tables == [Names -> {{}} \cup {{v} : v \in Variables}]
None == [n \in Names |-> {}]
Point == {"idle", "del", "txDel", "commit", "clear", "load", "store", "apply"}

\* What each payload is decoded to, computed once.
Decoded == [payload \in Payloads |-> Decode(payload, Limit)]

TypeOK ==
    /\ rows \in Tables /\ got \in [Messages -> Tables]
    /\ tx \in SUBSET Tables /\ \A t, u \in tx : t = u
    /\ list \in SUBSET Tables /\ \A t, u \in list : t = u
    /\ at \in [Procs -> Point]
    /\ valuesOf \in [Messages -> SUBSET {Decoded[payload] : payload \in Payloads}]
    /\ \A m \in Messages : \A v, w \in valuesOf[m] : v = w
    /\ updated \in SUBSET Names
    /\ stale \in BOOLEAN
    /\ calls \in Nat /\ faults \in Nat

Init ==
    /\ rows \in Tables
    /\ tx = {} /\ list = {} /\ stale = FALSE
    /\ at = [p \in Procs |-> "idle"]
    /\ got = [m \in Messages |-> None] /\ valuesOf = [m \in Messages |-> {}]
    /\ updated = {}
    /\ calls = 0 /\ faults = 0

Goto(p, point) == at' = [at EXCEPT ![p] = point]
Drop == list' = {} /\ stale' = FALSE

\* The list is left as it is, whatever the table is now.
Leave == UNCHANGED list /\ stale' = (list # {} /\ list # {rows'})

-----------------------------------------------------------------------------
(* Requests *)

Begin(q, point) ==
    /\ at[q] = "idle" /\ tx = {}
    /\ calls < MaxCalls /\ calls' = calls + 1
    /\ Goto(q, point)
    /\ UNCHANGED <<tx, messageVars, faults>>

\* An upsert: of the row that an id names, which gets the name if no other row has it,
\* or of the row of a name.
ById ==
    \E o, n \in Names, v \in Variables :
        /\ rows[o] # {}
        /\ n = o \/ rows[n] = {}
        /\ rows' = [rows EXCEPT ![o] = {}, ![n] = {v}]
ByName == \E n \in Names, v \in Variables : rows' = [rows EXCEPT ![n] = {v}]

\* createReadingVariable: the row is there, then the cached list goes.
Save(q) == Begin(q, "del") /\ (ById \/ ByName) /\ UNCHANGED cacheVars

\* The id names a row of this configuration and globalConfigId another one, whose
\* list is the one that goes.
SaveElsewhere(q) == Begin(q, "idle") /\ ById /\ Leave

DeleteAll(q) == Begin(q, "del") /\ rows' = None /\ UNCHANGED cacheVars

\* The configuration is removed, or the system reset: the rows go with it, and
\* nothing drops the list.
Cascade(q) == Begin(q, "idle") /\ rows' = None /\ Leave

\* Mutant: the copy that a message made since is not dropped.
DelMissing(q) ==
    /\ at[q] \in {"del", "txDel"}
    /\ Goto(q, IF at[q] = "del" THEN "idle" ELSE "commit")
    /\ UNCHANGED <<dbVars, cacheVars, messageVars, envVars>>

Del(q) ==
    /\ at[q] \in {"del", "txDel"}
    /\ Drop
    /\ Goto(q, IF at[q] = "del" THEN "idle" ELSE "commit")
    /\ UNCHANGED <<dbVars, messageVars, envVars>>

\* del rejects: the row is there all the same, and the list stays.
FailDel(q) ==
    /\ at[q] = "del"
    /\ faults < MaxFaults /\ faults' = faults + 1
    /\ UNCHANGED <<dbVars, messageVars, calls>>
    /\ Goto(q, "idle") /\ Leave

\* A restore creates its variables in a transaction, which drops the list before the
\* commit, and clears the whole cache when it initializes the system.
Restore(q) ==
    \E table \in Tables :
        /\ at[q] = "idle" /\ tx = {}
        /\ calls < MaxCalls /\ calls' = calls + 1
        /\ Goto(q, "txDel")
        /\ tx' = {table}
        /\ UNCHANGED <<rows, cacheVars, messageVars, faults>>

Commit(q) ==
    /\ at[q] = "commit"
    /\ \/ (\E table \in tx : rows' = table) /\ Goto(q, "clear")
       \/ UNCHANGED rows /\ Goto(q, "idle")   \* a dry run, or a failed restore
    /\ tx' = {}
    /\ UNCHANGED <<cacheVars, messageVars, envVars>>

ClearCache(q) ==
    /\ at[q] = "clear"
    /\ Drop /\ Goto(q, "idle")
    /\ UNCHANGED <<dbVars, messageVars, envVars>>

\* The initialization catches the error of a cache that cannot be cleared.
FailClear(q) ==
    /\ at[q] = "clear"
    /\ faults < MaxFaults /\ faults' = faults + 1
    /\ UNCHANGED <<dbVars, messageVars, calls>>
    /\ Goto(q, "idle") /\ Leave

-----------------------------------------------------------------------------
(* updateReadingVariablesByIndex *)

\* A message with its list.  What it is decoded to, which nothing reads before, is
\* chosen here.
Continue(m) ==
    /\ Goto(m, "apply")
    /\ \E payload \in Payloads : valuesOf' = [valuesOf EXCEPT ![m] = {Decoded[payload]}]

\* The list is asked for.
Ask(m) ==
    /\ at[m] = "idle"
    /\ \/ list = {} /\ Goto(m, "load") /\ UNCHANGED <<got, valuesOf>>
       \/ \E table \in list : got' = [got EXCEPT ![m] = table] /\ Continue(m)
    /\ UNCHANGED <<dbVars, cacheVars, updated, envVars>>

Load(m) ==
    /\ at[m] = "load"
    /\ got' = [got EXCEPT ![m] = rows]
    /\ Goto(m, "store")
    /\ UNCHANGED <<dbVars, cacheVars, valuesOf, updated, envVars>>

Store(m) ==
    /\ at[m] = "store"
    /\ list' = {got[m]} /\ stale' = (got[m] # rows)
    /\ Continue(m)
    /\ UNCHANGED <<dbVars, got, updated, envVars>>

\* The values are given out to the variables; if a handler throws, none is.
Apply(m) ==
    /\ at[m] = "apply"
    /\ \E useFunction \in BOOLEAN :
          LET outcome(n) == {Calculate(v, vs, useFunction) : v \in got[m][n], vs \in valuesOf[m]}
          IN updated' = IF \E n \in Names : "throw" \in outcome(n) THEN {}
                        ELSE {n \in Names : "value" \in outcome(n)}
    /\ Goto(m, "idle")
    /\ got' = [got EXCEPT ![m] = None] /\ valuesOf' = [valuesOf EXCEPT ![m] = {}]
    /\ UNCHANGED <<dbVars, cacheVars, envVars>>

\* Mutant: the list is cached without a time to live.
ExpireNever == FALSE /\ UNCHANGED vars

\* Redis drops the list 60 seconds after it was stored.
Expire ==
    /\ list # {}
    /\ Drop
    /\ UNCHANGED <<dbVars, at, messageVars, envVars>>

RequestStep(q) == Del(q) \/ Commit(q) \/ ClearCache(q)
MessageStep(m) == Load(m) \/ Store(m) \/ Apply(m)

Next ==
    \/ \E q \in Requests :
          \/ Save(q) \/ SaveElsewhere(q) \/ DeleteAll(q) \/ Cascade(q) \/ Restore(q)
          \/ FailDel(q) \/ FailClear(q) \/ RequestStep(q)
    \/ \E m \in Messages : Ask(m) \/ MessageStep(m)
    \/ Expire

Spec == Init /\ [][Next]_vars

\* The database and Redis answer, and time passes.
FairSpec ==
    /\ Spec
    /\ WF_vars(\E q \in Requests : RequestStep(q))
    /\ \A m \in Messages : WF_vars(MessageStep(m))
    /\ WF_vars(Expire)

-----------------------------------------------------------------------------
(* Properties *)

\* The cached list is what the database has, whatever requests, a restore and messages
\* that load it overlap, unless a request that changed a row has yet to drop the list,
\* or the list is outdated for one of these reasons (stale): it was loaded before a
\* change and stored after it, it could not be dropped, its configuration was removed or
\* the system reset, or an id led a request to a row that is not of its configuration.
ListAgrees ==
    list # {} /\ ~stale /\ (\A q \in Requests : at[q] \notin {"del", "clear"}) => list = {rows}

\* A variable that is gone for good is, from some time on, in the list of no message,
\* though nothing drops the list that a message stored too late.
GoneFallsSilent ==
    \A n \in Names : <>[](rows[n] = {}) => <>[](\A m \in Messages : got[m][n] = {})

-----------------------------------------------------------------------------
(* What a decoded message is good for: laws of the decoders and functions, *)
(* each stated of a payload or of the values it is decoded to              *)

InOrder(payload) ==
    LET items == payload.items
        decoded == Decoded[payload]
        chunks == (Len(items) + 1) \div 2
    IN /\ payload.kind = "JSON" /\ Len(items) <= 10 => decoded = Limited(items, Limit)
       /\ payload.kind = "JSON" /\ Len(items) > 10 /\ Limit \notin {1, 2} => decoded[3] = items[11]
       /\ payload.kind = "HEX" =>
            /\ Len(decoded) = IF Limit \in 1 .. chunks THEN Limit ELSE chunks
            /\ \A i \in DOMAIN decoded :
                  /\ decoded[i] \div 16 = items[2 * i - 1]
                  /\ decoded[i] % 16 = IF 2 * i > Len(items) THEN 0 ELSE items[2 * i]

FloatsBack(vs) ==
    Len(vs) >= 4 => \A order \in Orders :
        LET four == SubSeq(vs, 1, 4)
            word == FloatWord(four, order)
        IN /\ FloatToOrder(word, order) = four
           /\ Quarters(word) => \A f \in FloatFromOrder(four, order) : FloatToOrder(f, order) = four
           /\ BytesToFloat(four, order) = word <=> \A i \in 1 .. 4 : four[i] < 10

NumbersBack(vs) ==
    Len(vs) >= 2 => \A order \in TwoByteOrders :
        LET two == SubSeq(vs, 1, 2)
            num == HexToDecimal2Bytes(two, order)
            signed == HexToSignedDecimal2Bytes(two, order)
        IN /\ DecimalToHex2Bytes(num, order) = two
           /\ -32768 <= signed /\ signed < 32768 /\ num - signed \in {0, 65536}

BitsBack(vs) ==
    \A i \in DOMAIN vs :
        /\ vs[i] = BitToHex([d \in 1 .. 8 |-> HexToBit(vs[i], d - 1)], TRUE)
        /\ vs[i] = BitToHex([d \in 1 .. 8 |-> HexToBit(vs[i], 8 - d)], FALSE)

\* A variable that reads by f from start on, as it fares with the values vs.
Fate(f, start, vs) == Calculate([fn |-> {f}, start |-> start, seq |-> 1], vs, TRUE)

ThrowsFromEnd(vs) ==
    \A f \in ReadFunctions \cap DerivedFunctions, start \in -MaxStart .. MaxStart :
        \A count \in ParameterCount(f) :
            Fate(f, start, vs) = "throw" <=>
                /\ start < 0 /\ start + count <= Len(vs)
                /\ start + count >= 0 \/ Len(vs) + start < 0

\* The payloads for which the laws hold, found once.
Lawful == {payload \in Payloads :
              InOrder(payload) /\ FloatsBack(Decoded[payload])
              /\ NumbersBack(Decoded[payload]) /\ BitsBack(Decoded[payload])}
Throwing == {payload \in Payloads : ThrowsFromEnd(Decoded[payload])}

\* From a message to a value and back nothing is lost but what is named here.  A message
\* gives its values in the order of its bytes or elements, up to the limit: digits keep
\* their weight, and an array keeps its order up to ten elements, and no further: the
\* eleventh, whose key is "10", comes third.  What its bytes are read as is written as
\* the same bytes, by the function of the same order: a float of four bytes if it is a
\* multiple of a quarter, for its two decimals then lose nothing (of other floats only
\* the order of the bytes is said to come back); a number of two, of which the signed one
\* stays in its range and differs by 2^16 or not at all; and the bits of one, bit 0 being
\* the first digit that BYTE takes and the last that BYTE_SWAP takes.  bytesToFloat, which
\* takes the digits of a byte for a decimal number, reads the same word only of bytes
\* below ten.
RoundTrips ==
    \A m \in Messages : valuesOf[m] \subseteq {Decoded[payload] : payload \in Lawful}

\* A function that is registered to read throws on a message only if its variable has a
\* negative start, which nothing forbids: slice counts it from the end, and what it
\* gives is short unless the message has as many values and the slice ends before the
\* last.  From 0 on the count in the registry is the handler's own, and a message that is
\* too short skips the variable.  (A function to write does throw: one variable that names
\* BYTE keeps its whole configuration from being updated.)
ReadThrowsFromEnd ==
    \A m \in Messages : valuesOf[m] \subseteq {Decoded[payload] : payload \in Throwing}
=============================================================================
