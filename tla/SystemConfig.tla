---------------------------- MODULE SystemConfig ----------------------------
(***************************************************************************)
(* SystemConfigService and SystemInitializerService: a backup reads rows   *)
(* and certificate files; a restore replaces all rows in one transaction,  *)
(* with GlobalConfigurationsService.create, then resets and initializes    *)
(* the running system; a reset removes everything.  The rows of variables, *)
(* alarms and freeze configurations come and go with their configuration.  *)
(***************************************************************************)
EXTENDS DataSource

VARIABLES
    saved,     \* the last backup: [Configs -> {} or {a Wanted}]
    running    \* whether the schedulers' jobs are set up

vars == <<dbVars, files, cacheVars, todo, want, got, ghostVars, envVars,
          sourceVars, saved, running>>

Idle(p) == todo[p] = <<>>

\* initializeSystem.  Its "disconnect" clears the schedulers' jobs as well.
Initialize(g) ==
    <<At("clear", g), At("disconnect", g), At("query", g), At("connect", g), At("start", g)>>

\* The configurations of a backup, in the order of their ids; a dry run throws where
\* another commits.
Restore(g, backup, dryRun) ==
    LET creates == [i \in 1 .. Cardinality(Configs) |->
                       LET c == SetToSeq(Configs)[i]
                       IN FlattenSeq(SetToSeq({Create(c, w) : w \in backup[c]}))]
    IN <<At("begin", g), At("delAll", g)>> \o FlattenSeq(creates) \o
       (IF dryRun THEN <<At("rollback", g)>>
                  ELSE <<At("commit", g), At("wipe", g)>> \o Initialize(g))

Reset(g) == <<At("emit", g), At("deleteAll", g), At("rmCerts", g), At("delAll", g)>>

Backup(g) == <<At("readRows", g), At("readFiles", g)>>

-----------------------------------------------------------------------------
(* The steps of a restore *)

Begin(p) ==
    /\ Ahead(p, "begin") /\ tx = {}
    /\ tx' = {[by |-> p, rows |-> Nothing]}
    /\ Proceed(p)
    /\ UNCHANGED <<row, files, cacheVars, ghostVars, envVars, sourceVars, saved, running>>

Commit(p) ==
    /\ Ahead(p, "commit")
    /\ row' = Rows(p) /\ tx' = {}
    /\ dirty' = TRUE
    /\ Proceed(p)
    /\ UNCHANGED <<files, cacheVars, stale, lost, envVars, sourceVars, saved, running>>

Rollback(p) ==
    /\ Ahead(p, "rollback")
    /\ Throw(p)
    /\ UNCHANGED <<envVars, sourceVars, saved, running>>

\* The certificates' directory goes and RESET is emitted, whose listeners disconnect
\* the clients and clear the schedulers' jobs.
Wipe(p) ==
    /\ Ahead(p, "wipe")
    /\ files' = {} /\ lost' = Configs \X Kinds
    /\ DisconnectAll /\ running' = FALSE
    /\ Proceed(p)
    /\ UNCHANGED <<dbVars, cacheVars, stale, dirty, envVars, saved>>

-----------------------------------------------------------------------------
(* The steps of initializeSystem that are not DataSourceService's *)

\* clear() empties the whole cache.
Clear(p) ==
    /\ Ahead(p, "clear")
    /\ one' = Nothing /\ all' = {} /\ stale' = {}
    /\ Proceed(p)
    /\ UNCHANGED <<dbVars, files, lost, dirty, envVars, sourceVars, saved, running>>

Stop(p) == Disconnect(p) /\ running' = FALSE /\ UNCHANGED saved

Start(p) ==
    /\ Ahead(p, "start")
    /\ running' = TRUE
    /\ Proceed(p)
    /\ UNCHANGED <<dbVars, files, cacheVars, ghostVars, envVars, sourceVars, saved>>

-----------------------------------------------------------------------------
(* Reset and backup *)

Emit(p) ==
    /\ Ahead(p, "emit")
    /\ DisconnectAll /\ running' = FALSE
    /\ Proceed(p)
    /\ UNCHANGED <<dbVars, files, cacheVars, ghostVars, envVars, saved>>

\* The cached copies of the single configurations stay.
DeleteAll(p) ==
    /\ Ahead(p, "deleteAll") /\ tx = {}
    /\ row' = Nothing
    /\ dirty' = TRUE
    /\ stale' = stale \cup Configs
    /\ Proceed(p)
    /\ UNCHANGED <<tx, files, cacheVars, lost, envVars, sourceVars, saved, running>>

RemoveCertificates(p) ==
    /\ Ahead(p, "rmCerts")
    /\ files' = {} /\ lost' = Configs \X Kinds
    /\ Proceed(p)
    /\ UNCHANGED <<dbVars, cacheVars, stale, dirty, envVars, sourceVars, saved, running>>

ReadRows(p) ==
    /\ Ahead(p, "readRows")
    /\ todo' = [todo EXCEPT ![p] = Tail(@)]
    /\ got' = [got EXCEPT ![p] = row]
    /\ UNCHANGED <<dbVars, files, cacheVars, want, ghostVars, envVars, sourceVars,
                   saved, running>>

\* readFileSafe: a path whose file is not there is backed up without content.  What a
\* client keeps elsewhere may be there or not.
ReadFiles(p) ==
    /\ Ahead(p, "readFiles")
    /\ \E elsewhere \in SUBSET Kinds :
        saved' = [g \in Configs |->
                    {[broker |-> r.broker, path |-> r.path,
                      cert |-> {k \in Kinds : \/ <<r.path[k], k>> \in files
                                              \/ r.path[k] = "other" /\ k \in elsewhere}]
                        : r \in got[p][g]}]
    /\ Proceed(p)
    /\ UNCHANGED <<dbVars, files, cacheVars, ghostVars, envVars, sourceVars, running>>

SystemStep(p) ==
    \/ Begin(p) \/ Commit(p) \/ Rollback(p) \/ Wipe(p)
    \/ Clear(p) \/ Stop(p) \/ Start(p)
    \/ Emit(p) \/ DeleteAll(p) \/ RemoveCertificates(p) \/ ReadRows(p) \/ ReadFiles(p)
    \/ (Query(p) \/ Connect(p)) /\ UNCHANGED <<saved, running>>
    \/ ConfigStep(p) /\ UNCHANGED <<sourceVars, saved, running>>

-----------------------------------------------------------------------------
(* The environment *)

\* A step rejects.
Fail(p) ==
    /\ ~Idle(p) /\ Head(todo[p]).do \in Faults /\ faults < MaxFaults
    /\ faults' = faults + 1
    /\ Throw(p)
    /\ UNCHANGED <<calls, sourceVars, saved, running>>

\* withRetry: a transaction that met a deadlock is tried again from its beginning.
Retry(p) ==
    /\ InTx(p) /\ ~Idle(p) /\ faults < MaxFaults
    /\ faults' = faults + 1
    /\ tx' = {}
    /\ todo' = [todo EXCEPT ![p] = Restore(Subject(p), want[p], Pending(p, {"rollback"}))]
    /\ UNCHANGED <<row, files, cacheVars, want, got, ghostVars, calls, sourceVars, saved, running>>

Ask(p, program, wanted) ==
    /\ todo' = [todo EXCEPT ![p] = program]
    /\ want' = [want EXCEPT ![p] = wanted]

GlobalRequest(p, g) ==
    \/ \E w \in Bodies :
        \/ Ask(p, Create(g, w), [Nothing EXCEPT ![g] = {w}])
        \/ Ask(p, Update(g, w), [Nothing EXCEPT ![g] = {w}])
    \/ Ask(p, Removal(g), Nothing)
    \/ Ask(p, FindOne(g), Nothing)

\* A backup that is sent as JSON goes without the contents of certificates, which the
\* pipe refuses; an uploaded file does not pass the pipe.
Bare(backup) ==
    [g \in Configs |-> {[broker |-> w.broker, path |-> w.path, cert |-> {}] : w \in backup[g]}]

\* Requests that are about no configuration of their own.
SystemRequest(p, g) ==
    \/ Ask(p, FindAll(g), Nothing)
    \/ Ask(p, Reset(g), Nothing)
    \/ Ask(p, Backup(g), Nothing)
    \/ saved # Nothing /\ \E dryRun \in BOOLEAN, backup \in {saved, Bare(saved)} :
                            Ask(p, Restore(g, backup, dryRun), backup)

Request(p) ==
    /\ Idle(p) /\ calls < MaxCalls
    /\ calls' = calls + 1
    /\ \/ \E g \in Configs : GlobalRequest(p, g)
       \/ SystemRequest(p, CHOOSE g \in Configs : TRUE)
    /\ UNCHANGED <<dbVars, files, cacheVars, got, ghostVars, faults, sourceVars, saved, running>>

\* The system starts on a database that has no configuration, or one that was created
\* and whose backup an administrator keeps.
Init ==
    /\ \E g \in Configs, made \in {{}} \cup {{w} : w \in Bodies} :
        /\ row = [Nothing EXCEPT ![g] = {[broker |-> w.broker, path |-> Returned(g, w)] : w \in made}]
        /\ files = {g} \X UNION {w.cert : w \in made}
        /\ lost = (UNION {Named(w.path) : w \in made}) \ files
        /\ saved = [Nothing EXCEPT ![g] = {[w EXCEPT !.path = Returned(g, w)] : w \in made}]
    /\ tx = {} /\ one = Nothing /\ all = {}
    /\ todo = [p \in Procs |-> IF p = Boot THEN Initialize(CHOOSE g \in Configs : TRUE) ELSE <<>>]
    /\ want = [p \in Procs |-> Nothing] /\ got = [p \in Procs |-> Nothing]
    /\ stale = {} /\ dirty = TRUE
    /\ calls = 0 /\ faults = 0
    /\ sources = Nothing /\ clients = {}
    /\ running = FALSE

Next ==
    \/ \E p \in Procs : SystemStep(p) \/ Fail(p) \/ Retry(p)
    \/ \E p \in Requests : Request(p)
    \/ Expire /\ UNCHANGED <<sourceVars, saved, running>>

Spec == Init /\ [][Next]_vars

-----------------------------------------------------------------------------
(* Properties *)

TypeOK ==
    /\ ConfigTypeOK /\ SourceTypeOK
    /\ saved \in [Configs -> SUBSET Wanted]
    /\ running \in BOOLEAN

\* Once no initialization or reset is under way, a system whose schedulers run has
\* loaded what the database has; every MQTT source has a client with its own credentials
\* and certificates, unless its host has an underscore, and no client is left whose broker
\* no row names, even if two initializations overlapped.  Excepted is what a request
\* changed since, what a load read before a change and used after it, and what a call
\* that threw left behind.
SourcesFollow ==
    running /\ ~dirty /\ (\A p \in Procs : ~Pending(p, {"deleteAll", "disconnect", "query", "connect", "start"}))
        => /\ sources = row
           /\ \A c \in MqttKeys(row) : BrokerBase[c.broker] \notin Odd => c \in clients
           /\ \A c \in clients : BrokerBase[c.broker] \in BasesOf(row)
=============================================================================
