-------------------------- MODULE WritingVariables --------------------------
(***************************************************************************)
(* WritingVariablesService: the writing variables of one configuration,    *)
(* their bits (MBO rows), and the two caches the service keeps in memory:  *)
(* the encoded values a packet is answered with, and the alterFlag of the  *)
(* configuration.  A call suspends at every await: two calls for the same  *)
(* variable interleave between them, and only a transaction is atomic.     *)
(* A variable of kind "byte" has function BYTE or BYTE_SWAP, one of kind   *)
(* "plain" has no function.                                                *)
(***************************************************************************)
EXTENDS Integers, Sequences, FiniteSets, SequencesExt

CONSTANTS
    Variables,   \* writing variables of the configuration
    Clients,     \* calls that may be in flight at once
    Readers,     \* calls of findAllEncodedWritingVariables in flight at once
    Width,       \* bits of a byte: 8 in the code
    Values,      \* the values requests to update carry
    Creates,     \* what requests to create carry
    Default,     \* stands for the value of a listed bit that names none
    Places,      \* bound: the sequence numbers of bits are below it
    Fails,       \* whether a query may fail
    MaxCalls,    \* bound: how many calls clients make
    MaxResets,   \* bound: how often RESET is emitted
    MaxCrashes   \* bound: how often the process dies

ASSUME WritingAssumption ==
    /\ Width \in Nat \ {0}
    /\ Values \subseteq Nat
    /\ Places \in Nat /\ Width =< Places
    /\ \A q \in Creates :
          /\ q = [x |-> q.x, kind |-> q.kind, first |-> q.first, bits |-> q.bits, given |-> q.given]
          /\ q.x \in Nat /\ q.first \in Nat /\ q.kind \in {"byte", "plain"} /\ q.given \in BOOLEAN
          /\ DOMAIN q.bits \subseteq 0 .. Places - 1
          /\ q.bits \in [DOMAIN q.bits -> Nat \cup {Default}]
    /\ Clients \cap Readers = {}
    /\ Fails \in BOOLEAN
    /\ MaxCalls \in Nat /\ MaxResets \in Nat /\ MaxCrashes \in Nat

NoRow == [kind |-> "none"]
NoRaw == [encoded |-> "none"]
NoCall == [op |-> "none"]
NoBits == [p \in {} |-> 0]
NaN == -1

VARIABLES
    row,         \* the row of a variable
    mbo,         \* its bits: their values by sequence number
    alterFlag,   \* the configuration's alterFlag
    flagCache,   \* globalConfigCache: a set with the flag, or empty
    encoded,     \* encodedCache: a set with the list, or empty
    at,          \* where a call is suspended
    call,        \* what it was asked to do
    flag,        \* the alterFlag it uses
    list,        \* the rows a reader has loaded
    calls, resets, crashes,
    (* What happened, for the properties: *)
    torn,        \* variables whose bits a client wrote at odds with the value
    missed,      \* the cached list may differ from the table for a known reason
    alone        \* calls that had their variable to themselves

dbVars == <<row, mbo, alterFlag>>
cacheVars == <<flagCache, encoded>>
callVars == <<at, call, flag, list>>
countVars == <<calls, resets, crashes>>
vars == <<dbVars, cacheVars, callVars, countVars, torn, missed, alone>>

Procs == Clients \cup Readers

\* "find", "bit", "bits", "flag", "tx", "load": the query is in flight;
\* "clear": the transaction has committed; "fill": the rows are there.
Point == {"idle", "find", "bit", "bits", "flag", "tx", "clear", "load", "fill"}

\* A raw value is encoded as hex or text, or given by the client as it is.
Raws == [value : Int, encoded : {"hex", "text", "given"}] \cup {NoRaw}
Rows == [kind : {"byte", "plain"}, first : Int, value : Int, raw : Raws, hasMbo : BOOLEAN]
Calls == [op : {"variable", "toggle"}, v : Variables, x : Int]
    \cup [op : {"raw"}, v : Variables]
    \cup [op : {"bit"}, v : Variables, i : 0 .. Places - 1, x : Int]
    \cup [op : {"create"}, v : Variables, as : Creates]

TypeOK ==
    /\ row \in [Variables -> Rows \cup {NoRow}]
    /\ mbo = [v \in Variables |-> mbo[v]]
    /\ \A v \in Variables : /\ DOMAIN mbo[v] \subseteq 0 .. Places - 1
                           /\ mbo[v] \in [DOMAIN mbo[v] -> Int]
    /\ alterFlag \in BOOLEAN
    /\ flagCache \in SUBSET BOOLEAN
    /\ encoded \in SUBSET [Variables -> Raws]
    /\ at \in [Procs -> Point]
    /\ call \in [Clients -> Calls \cup {NoCall}]
    /\ flag \in [Clients -> BOOLEAN]
    /\ list \in [Readers -> [Variables -> Raws]]
    /\ calls \in Nat /\ resets \in Nat /\ crashes \in Nat
    /\ torn \in SUBSET Variables /\ missed \in BOOLEAN /\ alone \in SUBSET Clients

NoRaws == [v \in Variables |-> NoRaw]

\* toString(2).padStart(8, '0').slice(-8), digit by digit.
BitsOf(x) == [i \in 1 .. Width |-> (x \div 2 ^ (Width - i)) % 2]

\* The raw value of a variable that no function encodes.
Text(x) == [value |-> x, encoded |-> "text"]

\* The raw value a client gives: an array of strings, stored as JSON.
Given == [value |-> 0, encoded |-> "given"]

\* A row as a restore leaves it: a byte of value x, its bits from number 0 on.
Restored(x) == [kind |-> "byte", first |-> 0, value |-> x, raw |-> Text(x), hasMbo |-> TRUE]

\* The table as an earlier run of the process left it.
Init ==
    /\ \/ row = [v \in Variables |-> NoRow] /\ mbo = [v \in Variables |-> NoBits]
       \/ \E x \in Values : /\ row = [v \in Variables |-> Restored(x)]
                            /\ mbo = [v \in Variables |-> [p \in 0 .. Width - 1 |-> BitsOf(x)[p + 1]]]
    /\ alterFlag \in BOOLEAN
    /\ flagCache = {} /\ encoded = {}
    /\ at = [p \in Procs |-> "idle"]
    /\ call = [c \in Clients |-> NoCall]
    /\ flag = [c \in Clients |-> FALSE]
    /\ list = [r \in Readers |-> NoRaws]
    /\ calls = 0 /\ resets = 0 /\ crashes = 0
    /\ torn = {} /\ missed = FALSE /\ alone = {}

-----------------------------------------------------------------------------
(* Values, bits and encodings *)

\* The value the first k digits stand for.
Binary(s, k) ==
    LET upTo[n \in 0 .. k] == IF n = 0 THEN 0 ELSE 2 * upTo[n - 1] + s[n] IN upTo[k]

\* The decimal digits of a number of at most ten digits (toString).
Decimal(x) ==
    LET len == Cardinality({k \in 0 .. 9 : k = 0 \/ 10 ^ k =< x})
    IN [i \in 1 .. len |-> (x \div 10 ^ (len - i)) % 10]

\* The values of all bits as one text, by sequence number.
BitText(bits) ==
    FlattenSeq([n \in 1 .. Places |-> IF n - 1 \in DOMAIN bits THEN Decimal(bits[n - 1]) ELSE <<>>])

\* parseInt(s, 2) reads up to the first digit that is not binary; one that
\* starts with another digit, or is empty, is not a number.
ParseBinary(s) ==
    LET Good(k) == \A n \in 1 .. k : s[n] \in {0, 1}
        prefixes == {k \in 1 .. Len(s) : Good(k)}
    IN IF prefixes = {} THEN NaN
       ELSE Binary(s, CHOOSE k \in prefixes : \A n \in prefixes : n =< k)

\* Bits that say the same as value x: those of a byte that starts at number
\* first are its digits, those of a plain variable repeat it.
Spells(kind, first, x, bits) ==
    \A p \in DOMAIN bits :
        IF kind = "byte" THEN p - first \in 0 .. Width - 1 => bits[p] = BitsOf(x)[p - first + 1]
        ELSE bits[p] = x

\* What calculateRawValue makes of a value: the handler of a byte refuses one
\* of more than Width digits.
Calculated(kind, x) ==
    IF kind = "byte" /\ x < 2 ^ Width THEN {[value |-> x, encoded |-> "hex"]} ELSE {}

\* performWritingVariableUpdate falls back on the text of the value.
RawOf(kind, x, f) ==
    IF f /\ Calculated(kind, x) # {} THEN CHOOSE r \in Calculated(kind, x) : TRUE ELSE Text(x)

\* createWritingVariable takes the raw value it is given; it leaves the column
\* alone if the function of the variable gives nothing.
RawCreated(kind, x, given, f, old) ==
    IF given THEN Given
    ELSE IF ~(f /\ kind = "byte") THEN Text(x)
    ELSE IF Calculated(kind, x) # {} THEN RawOf(kind, x, f)
    ELSE IF old = NoRow THEN NoRaw ELSE old.raw

\* The list findMany returns.
Table == [v \in Variables |-> IF row[v] = NoRow THEN NoRaw ELSE row[v].raw]

-----------------------------------------------------------------------------
(* The steps of a call *)

Goto(p, point) == at' = [at EXCEPT ![p] = point]

\* Every other call for the variable stops being alone, and so does this one.
Enter(c, request, point) ==
    /\ calls < MaxCalls
    /\ at[c] = "idle"
    /\ Goto(c, point)
    /\ call' = [call EXCEPT ![c] = request]
    /\ calls' = calls + 1
    /\ LET others == {d \in Clients \ {c} : at[d] # "idle" /\ call[d].v = request.v}
       IN alone' = IF others = {} THEN alone \cup {c} ELSE alone \ (others \cup {c})
    /\ UNCHANGED <<dbVars, cacheVars, list, resets, crashes, torn, missed>>

\* A call is over, by its end or by an error.
Leave(c) ==
    /\ Goto(c, "idle")
    /\ call' = [call EXCEPT ![c] = NoCall]
    /\ alone' = alone \ {c}
    /\ UNCHANGED <<flag, list, countVars>>

\* The flag is taken from the cache, or asked for.
AfterFlag == IF flagCache = {} THEN "flag" ELSE "tx"
FlagSeen(c) == flag' = [flag EXCEPT ![c] = IF flagCache = {} THEN @ ELSE TRUE \in flagCache]
GetFlag(c) == Goto(c, AfterFlag) /\ FlagSeen(c) /\ UNCHANGED list

\* A value, or a raw value without one.
UpdateVariable(c) ==
    \E v \in Variables :
        /\ \/ \E x \in Values : Enter(c, [op |-> "variable", v |-> v, x |-> x], "find")
           \/ Enter(c, [op |-> "raw", v |-> v], "find")
        /\ UNCHANGED flag

\* Any number is taken for the value of a bit.
UpdateMbo(c) ==
    \E v \in Variables, i \in 0 .. Places - 1, x \in Values \cup {0, 1} :
        /\ Enter(c, [op |-> "bit", v |-> v, i |-> i, x |-> x], "bit")
        /\ UNCHANGED flag

\* createWritingVariable looks for the flag first.
Create(c) ==
    \E v \in Variables, q \in Creates :
        /\ Enter(c, [op |-> "create", v |-> v, as |-> q], AfterFlag)
        /\ FlagSeen(c)

\* updateWritingVariable does nothing for a variable that is not there, and
\* needs no flag to store a raw value.
Find(c) ==
    /\ at[c] = "find"
    /\ \/ row[call[c].v] = NoRow /\ Leave(c)
       \/ /\ row[call[c].v] # NoRow
          /\ IF call[c].op = "raw" THEN Goto(c, "tx") /\ UNCHANGED <<flag, list>> ELSE GetFlag(c)
          /\ UNCHANGED <<call, countVars, alone>>
    /\ UNCHANGED <<dbVars, cacheVars, torn, missed>>

\* updateMboVariable writes the bit on its own.
WriteBit(c) ==
    /\ at[c] = "bit"
    /\ LET v == call[c].v IN
       IF call[c].i \notin DOMAIN mbo[v] THEN Leave(c) /\ UNCHANGED <<mbo, torn>>
       ELSE /\ mbo' = [mbo EXCEPT ![v][call[c].i] = call[c].x]
            /\ torn' = torn \cup {v}
            /\ Goto(c, "bits")
            /\ UNCHANGED <<call, flag, list, countVars, alone>>
    /\ UNCHANGED <<row, alterFlag, cacheVars, missed>>

\* Mutant: the bits are combined as they were listed, the last one first.
ReadReversed(c) ==
    /\ at[c] = "bits"
    /\ call' = [call EXCEPT ![c] =
                  [op |-> "toggle", v |-> @.v, x |-> ParseBinary(Reverse(BitText(mbo[@.v])))]]
    /\ GetFlag(c)
    /\ UNCHANGED <<dbVars, cacheVars, countVars, torn, missed, alone>>

\* It then reads all the bits, and goes on as an update of the variable to
\* the value they make.
ReadBits(c) ==
    /\ at[c] = "bits"
    /\ call' = [call EXCEPT ![c] =
                  [op |-> "toggle", v |-> @.v, x |-> ParseBinary(BitText(mbo[@.v]))]]
    /\ GetFlag(c)
    /\ UNCHANGED <<dbVars, cacheVars, countVars, torn, missed, alone>>

\* The flag of the configuration (findOne), cached for good.
ReadFlag(c) ==
    /\ at[c] = "flag"
    /\ flagCache' = {alterFlag}
    /\ flag' = [flag EXCEPT ![c] = alterFlag]
    /\ Goto(c, "tx")
    /\ UNCHANGED <<dbVars, encoded, call, list, countVars, torn, missed, alone>>

\* The bits of a variable once its value is x: those of a byte are looked up by
\* their sequence numbers.
BitsSet(v, x) ==
    [p \in DOMAIN mbo[v] |->
        IF ~row[v].hasMbo THEN mbo[v][p]
        ELSE IF row[v].kind = "plain" THEN x
        ELSE IF p - row[v].first \in 0 .. Width - 1 THEN BitsOf(x)[p - row[v].first + 1]
        ELSE mbo[v][p]]

\* Mutant: the bits of a deleted variable are written, and a row comes back.
UpdateRevives(c, v, x) ==
    /\ x # NaN
    /\ row' = [row EXCEPT ![v] = [value |-> x, raw |-> Text(x)]]
    /\ mbo' = mbo
    /\ torn' = torn \ {v}

\* The transaction of performWritingVariableUpdate.
Update(c, v, x) ==
    /\ row[v] # NoRow /\ x # NaN
    /\ row' = [row EXCEPT ![v].value = x, ![v].raw = RawOf(row[v].kind, x, flag[c])]
    /\ mbo' = [mbo EXCEPT ![v] = BitsSet(v, x)]
    /\ torn' = torn \ {v}

\* The same for a request that has a raw value only.
UpdateRaw(v) ==
    /\ row[v] # NoRow
    /\ row' = [row EXCEPT ![v].raw = Given]
    /\ UNCHANGED <<mbo, torn>>

\* The bits a request lists; one that names no value gets the variable's.
Listed(q) == [p \in DOMAIN q.bits |-> IF q.bits[p] = Default THEN q.x ELSE q.bits[p]]

\* The row createWritingVariable upserts.
Upserted(c, v, q) ==
    [kind |-> q.kind, first |-> q.first, value |-> q.x, hasMbo |-> q.kind = "byte" \/ q.bits # NoBits,
     raw |-> RawCreated(q.kind, q.x, q.given, flag[c], row[v])]

\* The bits after a list: torn if they do not spell the value.
AfterList(v, q) == IF Spells(q.kind, q.first, q.x, Listed(q)) THEN torn \ {v} ELSE torn \cup {v}

\* Mutant: bits that are not listed any more are kept, with their values.
CreateKeeping(c, v, q) ==
    /\ row' = [row EXCEPT ![v] = Upserted(c, v, q)]
    /\ mbo' = [mbo EXCEPT ![v] = Listed(q) @@ @]
    /\ torn' = AfterList(v, q)

\* The transaction of createWritingVariable: listed bits are stored as they
\* are listed and the others deleted, whatever the value; the 8 bits a byte
\* gets otherwise are deleted in the same transaction; a plain variable keeps
\* the rows it had.
CreateTx(c, v, q) ==
    /\ row' = [row EXCEPT ![v] = Upserted(c, v, q)]
    /\ mbo' = [mbo EXCEPT ![v] = IF q.bits # NoBits THEN Listed(q)
                                 ELSE IF q.kind = "byte" THEN NoBits ELSE @]
    /\ torn' = AfterList(v, q)

Commit(c) ==
    /\ at[c] = "tx"
    /\ LET q == call[c] IN
       CASE q.op = "create" -> CreateTx(c, q.v, q.as)
         [] q.op = "raw" -> UpdateRaw(q.v)
         [] OTHER -> Update(c, q.v, q.x)
    /\ Goto(c, "clear")
    /\ UNCHANGED <<alterFlag, cacheVars, call, flag, list, countVars, missed, alone>>

\* Mutant: the entry of the configuration is left in the cache.
ClearNothing(c) ==
    /\ at[c] = "clear"
    /\ Leave(c)
    /\ UNCHANGED <<dbVars, cacheVars, torn, missed>>

\* clearCache(globalConfigId) once the transaction has committed.
Clear(c) ==
    /\ at[c] = "clear"
    /\ encoded' = {}
    /\ missed' = FALSE
    /\ Leave(c)
    /\ UNCHANGED <<dbVars, flagCache, torn>>

\* A query rejects, and so does the call; so does a transaction whose row is
\* gone or whose value is not a number.
Fail(c) ==
    /\ at[c] \in {"find", "bit", "bits", "flag", "tx"}
    /\ \/ Fails
       \/ at[c] = "tx" /\ call[c].op # "create" /\ row[call[c].v] = NoRow
       \/ at[c] = "tx" /\ call[c].op = "toggle" /\ call[c].x = NaN
    /\ Leave(c)
    /\ UNCHANGED <<dbVars, cacheVars, torn, missed>>

\* deleteAllWritingVariables leaves the cached list as it is.
DeleteAll ==
    /\ calls < MaxCalls
    /\ calls' = calls + 1
    /\ row' = [v \in Variables |-> NoRow]
    /\ mbo' = [v \in Variables |-> NoBits]
    /\ missed' = TRUE
    /\ torn' = {}
    /\ UNCHANGED <<alterFlag, cacheVars, callVars, resets, crashes, alone>>

-----------------------------------------------------------------------------
(* findAllEncodedWritingVariables *)

\* A list that is cached is returned at once; another is loaded.
Ask(r) ==
    /\ at[r] = "idle"
    /\ encoded = {}
    /\ Goto(r, "load")
    /\ UNCHANGED <<dbVars, cacheVars, call, flag, list, countVars, torn, missed, alone>>

Load(r) ==
    /\ at[r] = "load"
    /\ list' = [list EXCEPT ![r] = Table]
    /\ Goto(r, "fill")
    /\ UNCHANGED <<dbVars, cacheVars, call, flag, countVars, torn, missed, alone>>

\* The loaded list is cached, whatever has been written since.
Fill(r) ==
    /\ at[r] = "fill"
    /\ encoded' = {list[r]}
    /\ missed' = (list[r] # Table)
    /\ list' = [list EXCEPT ![r] = NoRaws]
    /\ Goto(r, "idle")
    /\ UNCHANGED <<dbVars, flagCache, call, flag, countVars, torn, alone>>

-----------------------------------------------------------------------------
(* Around the service *)

\* PATCH /global-configurations: nothing tells this service.
SwitchFlag ==
    /\ calls < MaxCalls
    /\ calls' = calls + 1
    /\ alterFlag' = ~alterFlag
    /\ UNCHANGED <<row, mbo, cacheVars, callVars, resets, crashes, torn, missed, alone>>

\* handleSystemReset clears both caches.
Reset ==
    /\ resets < MaxResets
    /\ resets' = resets + 1
    /\ encoded' = {} /\ flagCache' = {}
    /\ missed' = FALSE
    /\ UNCHANGED <<dbVars, callVars, calls, crashes, torn, alone>>

\* The process dies and starts again: calls and caches are gone.
Crash ==
    /\ crashes < MaxCrashes
    /\ crashes' = crashes + 1
    /\ encoded' = {} /\ flagCache' = {}
    /\ at' = [p \in Procs |-> "idle"]
    /\ call' = [c \in Clients |-> NoCall]
    /\ list' = [r \in Readers |-> NoRaws]
    /\ missed' = FALSE /\ alone' = {}
    /\ UNCHANGED <<dbVars, flag, calls, resets, torn>>

ClientStep(c) ==
    \/ UpdateVariable(c) \/ UpdateMbo(c) \/ Create(c)
    \/ Find(c) \/ WriteBit(c) \/ ReadBits(c) \/ ReadFlag(c)
    \/ Commit(c) \/ Clear(c) \/ Fail(c)

ReaderStep(r) == Ask(r) \/ Load(r) \/ Fill(r)

Next ==
    \/ \E c \in Clients : ClientStep(c)
    \/ \E r \in Readers : ReaderStep(r)
    \/ DeleteAll \/ SwitchFlag \/ Reset \/ Crash

Spec == Init /\ [][Next]_vars

-----------------------------------------------------------------------------
(* Properties *)

\* The bits of a byte are the digits of its value, and those of a plain variable
\* repeat it, whichever calls overlap (performWritingVariableUpdate writes both
\* in one transaction), unless a client wrote the bits at odds with the value
\* and no update has committed since (torn): a bit on its own in
\* updateMboVariable, or a list that does not spell the value in
\* createWritingVariable.
BitsAgree ==
    \A v \in Variables \ torn :
        row[v] # NoRow /\ row[v].hasMbo => Spells(row[v].kind, row[v].first, row[v].value, mbo[v])

\* All Width bits of a byte are there, no others, and each is 0 or 1.
Whole(v) ==
    /\ row[v].kind = "byte" /\ row[v].hasMbo
    /\ DOMAIN mbo[v] = row[v].first .. row[v].first + Width - 1
    /\ \A p \in DOMAIN mbo[v] : mbo[v][p] \in {0, 1}

\* What parseInt makes of the bits, toString(2) makes bits of again: a toggle
\* that had its byte to itself, and leaves it whole, changes no other bit
\* (updateMboVariable and the transaction that follows).
ToggleAlone ==
    [][\A c \in alone :
          at[c] = "tx" /\ at'[c] = "clear" /\ call[c].op = "toggle" =>
              (Whole(call[c].v) => mbo'[call[c].v] = mbo[call[c].v])]_vars

\* The list a packet is answered with is the table's, unless a call that has
\* committed is about to clear it, all variables were deleted, or a load that
\* a commit overtook filled it (missed).
EncodedAgrees ==
    encoded # {} /\ ~missed =>
        encoded = {Table} \/ \E c \in Clients : at[c] = "clear"

=============================================================================
