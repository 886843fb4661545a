------------------------ MODULE GlobalConfigurations ------------------------
(***************************************************************************)
(* GlobalConfigurationsService: rows of configurations with their data     *)
(* source, the certificate files of a data source on disk, and two caches: *)
(* one configuration, and the list of all.  A call is a program: a         *)
(* sequence of steps [do, g], each of them what the service does up to the *)
(* next await, that is cut short when a step throws.  A row's content is   *)
(* its data source: a broker (type, address and credentials) and the paths *)
(* of its certificates.  The id of a data source, which names the directory*)
(* of its files, goes with that of its configuration.                      *)
(***************************************************************************)
EXTENDS Naturals, Sequences, FiniteSets, SequencesExt

CONSTANTS
    Configs,     \* ids of configurations
    Brokers,     \* what a data source may say of its broker
    Kinds,       \* certificates of a data source: of the authority, of the client, its key
    Bodies,      \* what clients send
    Requests, Boot,  \* requests in flight; the initialization at the start
    Faults,      \* steps that may reject
    MaxCalls, MaxFaults   \* bounds of the environment

Procs == Requests \cup {Boot}

VARIABLES
    row,     \* committed rows: [Configs -> {} or {a Row}]
    tx,      \* the transaction of a restore: {} or {[by, rows]}
    files,   \* the certificates on disk: <<g, k>>, each in the directory of its data source
    one, all,  \* the caches: {} or {a Row} per id; {} or {rows}
    todo,    \* the steps a process has before it
    want,    \* the rows a call is to create, or what it changes a row to
    got,     \* the rows a process has read
    stale,   \* ids, or "all", whose cached copy is known to be outdated
    lost,    \* files that were removed under the rows that name them, or that a client
             \* named before they were there
    dirty,   \* whether rows changed since DataSourceService loaded them, or a call
             \* threw that had disconnected its clients
    calls, faults

\* A path leads to a file of its kind in the directory of some data source, or elsewhere.
Paths == [Kinds -> Configs \cup {"none", "other"}]
NoPaths == [k \in Kinds |-> "none"]

\* A row without a data source has the broker "none".  A request carries paths, and
\* the contents of certificates.
Row == [broker : Brokers \cup {"none"}, path : Paths]
Wanted == [broker : Brokers \cup {"none"}, path : Paths, cert : SUBSET Kinds]
Nothing == [g \in Configs |-> {}]
Steps == {"insert", "update", "write", "paths", "find", "delete", "rm", "delAll", "delOne",
          "getAll", "loadAll", "setAll", "getOne", "loadOne", "setOne",
          "begin", "commit", "rollback", "wipe", "emit", "deleteAll", "rmCerts",
          "readRows", "readFiles", "clear", "disconnect", "query", "connect", "start"}

ASSUME GlobalConfigurationsAssumption ==
    /\ Boot \notin Requests
    /\ {"all", "none", "other"} \cap Configs = {} /\ "none" \notin Brokers
    /\ IsFiniteSet(Configs)
    /\ Bodies \subseteq Wanted
    /\ \A w \in Bodies : w.broker = "none" => w.cert = {} /\ w.path = NoPaths
    /\ MaxCalls \in Nat /\ MaxFaults \in Nat

dbVars == <<row, tx>>
cacheVars == <<one, all>>
ghostVars == <<stale, lost, dirty>>
envVars == <<calls, faults>>

ConfigTypeOK ==
    /\ row \in [Configs -> SUBSET Row]
    /\ tx \in SUBSET [by : Procs, rows : [Configs -> SUBSET Row]]
    /\ \A s \in {row, one} \cup {t.rows : t \in tx} : \A g \in Configs : \A a, b \in s[g] : a = b
    /\ \A t, u \in tx : t = u
    /\ files \in SUBSET (Configs \X Kinds)
    /\ one \in [Configs -> SUBSET Row]
    /\ all \in SUBSET [Configs -> SUBSET Row] /\ \A a, b \in all : a = b
    /\ todo \in [Procs -> Seq([do : Steps, g : Configs])]
    /\ want \in [Procs -> [Configs -> SUBSET Wanted]]
    /\ got \in [Procs -> [Configs -> SUBSET Row]]
    /\ stale \in SUBSET (Configs \cup {"all"}) /\ lost \in SUBSET (Configs \X Kinds)
    /\ dirty \in BOOLEAN
    /\ calls \in Nat /\ faults \in Nat

-----------------------------------------------------------------------------
(* Steps and programs *)

Ahead(p, do) == todo[p] # <<>> /\ Head(todo[p]).do = do
Subject(p) == Head(todo[p]).g
Pending(p, dos) == \E i \in DOMAIN todo[p] : todo[p][i].do \in dos
PendingOn(p, dos, g) == \E i \in DOMAIN todo[p] : todo[p][i].do \in dos /\ todo[p][i].g = g

\* The caller gets its answer; what it had read is forgotten.
Continue(p, rest) ==
    /\ todo' = [todo EXCEPT ![p] = rest]
    /\ got' = IF rest = <<>> THEN [got EXCEPT ![p] = Nothing] ELSE got
    /\ want' = IF rest = <<>> THEN [want EXCEPT ![p] = Nothing] ELSE want
Proceed(p) == Continue(p, Tail(todo[p]))

InTx(p) == \E t \in tx : t.by = p

\* Copies that p's remaining steps would have dropped.
Abandoned(p) ==
    {g \in Configs : PendingOn(p, {"delOne"}, g) \/ Pending(p, {"clear"})}
    \cup {a \in {"all"} : Pending(p, {"delAll", "clear"})}

\* An exception ends the call; a transaction is rolled back.
Throw(p) ==
    /\ Continue(p, <<>>)
    /\ tx' = {t \in tx : t.by # p}
    /\ stale' = stale \cup Abandoned(p)
    /\ dirty' = (dirty \/ Pending(p, {"deleteAll", "query", "connect"}))
    /\ UNCHANGED <<row, files, cacheVars, lost>>

\* Rows as p sees them, and a change to one of them.  While a restore is at it, its
\* deleteMany keeps everybody else from writing.
Rows(p) == IF InTx(p) THEN (CHOOSE t \in tx : t.by = p).rows ELSE row
MayWrite(p) == tx = {} \/ InTx(p)
WriteRow(p, g, new) ==
    IF InTx(p)
    THEN /\ tx' = {[t EXCEPT !.rows[g] = new] : t \in tx}
         /\ UNCHANGED <<row, dirty>>
    ELSE /\ row' = [row EXCEPT ![g] = new]
         /\ dirty' = TRUE
         /\ UNCHANGED tx

At(do, g) == [do |-> do, g |-> g]
\* The paths that processCertificates returns: its own of the contents that were given,
\* the client's of the others.
Returned(g, w) == [k \in Kinds |-> IF k \in w.cert THEN g ELSE w.path[k]]
Certificates(g, w) ==
    (IF w.cert # {} THEN <<At("write", g)>> ELSE <<>>)
    \o (IF Returned(g, w) # NoPaths THEN <<At("paths", g)>> ELSE <<>>)

\* Mutant: the paths are in the row before the files are on disk.
CreatePathsFirst(g, w) ==
    <<At("insert", g)>> \o Reverse(Certificates(g, w)) \o <<At("delAll", g)>>

Create(g, w) == <<At("insert", g)>> \o Certificates(g, w) \o <<At("delAll", g)>>

\* Mutant: the copy of the one configuration is forgotten.
UpdateForgets(g, w) == <<At("update", g)>> \o Certificates(g, w) \o <<At("delAll", g)>>

Update(g, w) ==
    <<At("update", g)>> \o Certificates(g, w) \o
    (IF Returned(g, w) # NoPaths THEN <<At("delOne", g), At("delAll", g)>>
                                 ELSE <<At("delAll", g), At("delOne", g)>>)
Removal(g) == <<At("find", g), At("delete", g), At("rm", g), At("delAll", g), At("delOne", g)>>
FindAll(g) == <<At("getAll", g), At("loadAll", g), At("setAll", g)>>
FindOne(g) == <<At("getOne", g), At("loadOne", g), At("setOne", g)>>

-----------------------------------------------------------------------------
(* create and update *)

\* Mutant: the contents of the certificates go into the row.
NewRowWhole(w) == w

\* The row of a data source is made with the paths that the request carries.
NewRow(w) == [broker |-> w.broker, path |-> w.path]

\* Fields that an update leaves out stay, the data source as a whole among them.
Over(new, old) == [k \in Kinds |-> IF new[k] # "none" THEN new[k] ELSE old[k]]
Changed(r, w) ==
    [broker |-> IF w.broker = "none" THEN r.broker ELSE w.broker, path |-> Over(w.path, r.path)]

\* Files that a row names.
Named(path) == {f \in Configs \X Kinds : path[f[2]] = f[1]}
ClientNames(w) == lost' = lost \cup (Named(w.path) \ files)

\* A client may choose the id of a configuration that is to be: one that is taken is
\* a violated key.
Insert(p) ==
    /\ Ahead(p, "insert") /\ MayWrite(p)
    /\ LET g == Subject(p) IN
        \/ /\ Rows(p)[g] = {}
           /\ \E w \in want[p][g] : WriteRow(p, g, {NewRow(w)}) /\ ClientNames(w)
           /\ Proceed(p)
           /\ UNCHANGED <<files, cacheVars, stale>>
        \/ Rows(p)[g] # {} /\ Throw(p)
    /\ UNCHANGED envVars

UpdateRow(p) ==
    /\ Ahead(p, "update") /\ MayWrite(p)
    /\ LET g == Subject(p) IN
        \/ /\ row[g] # {}
           /\ \E w \in want[p][g] : WriteRow(p, g, {Changed(r, w) : r \in row[g]}) /\ ClientNames(w)
           /\ Proceed(p)
           /\ UNCHANGED <<files, cacheVars, stale>>
        \/ row[g] = {} /\ Throw(p)
    /\ UNCHANGED envVars

\* processCertificates: only what was given is written, and lands on disk whatever
\* becomes of a transaction.
WriteFiles(p) ==
    /\ Ahead(p, "write")
    /\ LET new == {Subject(p)} \X UNION {w.cert : w \in want[p][Subject(p)]}
       IN files' = files \cup new /\ lost' = lost \ new
    /\ Proceed(p)
    /\ UNCHANGED <<dbVars, cacheVars, stale, dirty, envVars>>

\* The paths, in the row of the data source.  create never drops the one configuration
\* that a reader may have cached before its paths were known.
SetPaths(p) ==
    /\ Ahead(p, "paths") /\ MayWrite(p)
    /\ LET g == Subject(p) IN
        \/ /\ \E r \in Rows(p)[g] : r.broker # "none"
           /\ \E w \in want[p][g] :
                WriteRow(p, g, {[r EXCEPT !.path = Over(Returned(g, w), @)] : r \in Rows(p)[g]})
           /\ stale' = stale \cup {c \in {g} : one[c] # {} /\ ~PendingOn(p, {"delOne"}, c)}
           /\ Proceed(p)
           /\ UNCHANGED <<files, cacheVars, lost>>
        \/ (\A r \in Rows(p)[g] : r.broker = "none") /\ Throw(p)
    /\ UNCHANGED envVars

-----------------------------------------------------------------------------
(* remove *)

Find(p) ==
    /\ Ahead(p, "find")
    /\ todo' = [todo EXCEPT ![p] = Tail(@)]
    /\ got' = [got EXCEPT ![p] = row]
    /\ UNCHANGED <<dbVars, files, cacheVars, want, ghostVars, envVars>>

Delete(p) ==
    /\ Ahead(p, "delete") /\ MayWrite(p)
    /\ LET g == Subject(p) IN
        \/ row[g] # {} /\ WriteRow(p, g, {}) /\ Proceed(p)
           /\ UNCHANGED <<files, cacheVars, stale, lost>>
        \/ row[g] = {} /\ Throw(p)
    /\ UNCHANGED envVars

RemoveFiles(p) ==
    /\ Ahead(p, "rm")
    /\ LET gone == {g \in {Subject(p)} : \E r \in got[p][g] : r.broker # "none"} \X Kinds
       IN files' = files \ gone /\ lost' = lost \cup gone
    /\ Proceed(p)
    /\ UNCHANGED <<dbVars, cacheVars, stale, dirty, envVars>>

-----------------------------------------------------------------------------
(* The caches *)

DelAll(p) ==
    /\ Ahead(p, "delAll")
    /\ all' = {} /\ stale' = stale \ {"all"}
    /\ Proceed(p)
    /\ UNCHANGED <<dbVars, files, one, lost, dirty, envVars>>

DelOne(p) ==
    /\ Ahead(p, "delOne")
    /\ one' = [one EXCEPT ![Subject(p)] = {}]
    /\ stale' = stale \ {Subject(p)}
    /\ Proceed(p)
    /\ UNCHANGED <<dbVars, files, all, lost, dirty, envVars>>

\* A hit is the answer.
Get(p) ==
    /\ \E do \in {"getAll", "getOne"} : Ahead(p, do)
    /\ LET cached == IF Ahead(p, "getAll") THEN all ELSE one[Subject(p)]
       IN Continue(p, IF cached # {} THEN <<>> ELSE Tail(todo[p]))
    /\ UNCHANGED <<dbVars, files, cacheVars, ghostVars, envVars>>

Load(p) ==
    /\ \E do \in {"loadAll", "loadOne"} : Ahead(p, do)
    /\ todo' = [todo EXCEPT ![p] = Tail(@)]
    /\ got' = [got EXCEPT ![p] = row]
    /\ UNCHANGED <<dbVars, files, cacheVars, want, ghostVars, envVars>>

Outdated(p, key, is) == stale' = IF is THEN stale \cup {key} ELSE stale \ {key}

SetAll(p) ==
    /\ Ahead(p, "setAll")
    /\ all' = {got[p]}
    /\ Outdated(p, "all", got[p] # row)
    /\ Proceed(p)
    /\ UNCHANGED <<dbVars, files, one, lost, dirty, envVars>>

\* A row that is not there is not cached, and does not drop a copy either.
SetOne(p) ==
    /\ Ahead(p, "setOne")
    /\ LET g == Subject(p) IN
        IF got[p][g] = {} THEN UNCHANGED <<one, stale>>
        ELSE /\ one' = [one EXCEPT ![g] = got[p][g]]
             /\ Outdated(p, g, got[p][g] # row[g])
    /\ Proceed(p)
    /\ UNCHANGED <<dbVars, files, all, lost, dirty, envVars>>

\* The service names no time to live; the store may have a default one.
Expire ==
    /\ \/ all # {} /\ all' = {} /\ stale' = stale \ {"all"} /\ UNCHANGED one
       \/ \E g \in Configs :
            /\ one[g] # {} /\ one' = [one EXCEPT ![g] = {}]
            /\ stale' = stale \ {g}
            /\ UNCHANGED all
    /\ UNCHANGED <<dbVars, files, todo, want, got, lost, dirty, envVars>>

ConfigStep(p) ==
    \/ Insert(p) \/ UpdateRow(p) \/ WriteFiles(p) \/ SetPaths(p)
    \/ Find(p) \/ Delete(p) \/ RemoveFiles(p)
    \/ DelAll(p) \/ DelOne(p) \/ Get(p) \/ Load(p) \/ SetAll(p) \/ SetOne(p)

-----------------------------------------------------------------------------
(* Properties *)

\* Whatever calls overlap, a cached configuration, and the cached list, are what the
\* database has, unless a call that changed it has yet to drop the copy, or the copy
\* is known to be outdated: it was read before a change and stored after it, its
\* call failed on the way, or a reset or the second write of a create, neither of
\* which drops it, left it behind.
CachesAgree ==
    /\ \A g \in Configs \ stale :
        one[g] # {} /\ (\A p \in Procs : ~PendingOn(p, {"delOne"}, g) /\ ~Pending(p, {"clear"}))
            => one[g] = row[g]
    /\ all # {} /\ "all" \notin stale /\ (\A p \in Procs : ~Pending(p, {"delAll", "clear"}))
        => all = {row}

\* A row whose certificates the system keeps finds them on disk.
CertsOnDisk == \A g \in Configs : \A r \in row[g] : Named(r.path) \subseteq files

\* It does so unless a restore, a reset or a removal took the file away, or a client
\* named it before it was there: neither calls that overlap nor files that cannot be
\* written leave a path that the system chose to nothing.
CertsKept == \A g \in Configs : \A r \in row[g] : Named(r.path) \subseteq files \cup lost
=============================================================================
