----------------------------- MODULE DataSource -----------------------------
(***************************************************************************)
(* DataSourceService: the configurations it loaded, and its MQTT clients,  *)
(* one per key: a broker with its credentials, and the paths of the        *)
(* certificates.  What it does with a message is modelled in Telemetry.    *)
(* Whether a client is connected is left out: it decides whether a client  *)
(* is taken over or replaced, not which keys have one.                     *)
(***************************************************************************)
EXTENDS GlobalConfigurations

CONSTANTS
    BrokerBase,   \* protocol, host and port of a broker
    Mqtt,   \* the brokers of type MQTT; others get no client
    Odd     \* the bases whose host has an underscore

ASSUME DataSourceAssumption == Mqtt \subseteq Brokers

VARIABLES
    sources,   \* dataSources and topicConfigMap: the rows they were made from
    clients    \* the keys of mqttClients

sourceVars == <<sources, clients>>

SourceTypeOK ==
    /\ sources \in [Configs -> SUBSET Row]
    /\ clients \in SUBSET [broker : Brokers, path : Paths]

\* The keys of a table's data sources, of any type, and of those that get a client.
\* A row is its own key: the broker and the paths are what makes both.
KeysOf(rows) == UNION {rows[g] : g \in Configs}
MqttKeys(rows) == {r \in KeysOf(rows) : r.broker \in Mqtt}
BasesOf(rows) == {BrokerBase[r.broker] : r \in KeysOf(rows)}

\* disconnectAll, for initializeSystem and for RESET.
DisconnectAll == sources' = Nothing /\ clients' = {}

Disconnect(p) ==
    /\ Ahead(p, "disconnect")
    /\ DisconnectAll
    /\ Proceed(p)
    /\ UNCHANGED <<dbVars, files, cacheVars, ghostVars, envVars>>

\* loadConfigurations asks the database, again and again until it answers.
Query(p) ==
    /\ Ahead(p, "query")
    /\ todo' = [todo EXCEPT ![p] = Tail(@)]
    /\ got' = [got EXCEPT ![p] = row]
    /\ UNCHANGED <<dbVars, files, cacheVars, want, ghostVars, envVars, sourceVars>>

\* An old client stays as long as some row has its base, whatever its credentials and
\* certificates are.  The base of a key ends at its first underscore, and is no row's
\* when the host has one.
StillNeeded(c, rows) == BrokerBase[c.broker] \in BasesOf(rows) \ Odd

\* Mutant: rows are grouped by broker without regard to credentials and certificates.
ConnectOnce(rows) ==
    clients' = {CHOOSE c \in MqttKeys(rows) : BrokerBase[c.broker] = b :
                b \in {BrokerBase[c.broker] : c \in MqttKeys(rows)}}

\* connectAllMqttSources, and the end of the old clients that are no longer needed, also
\* of one that was just taken over.
ConnectBrokers(rows) ==
    clients' = {c \in clients \cup MqttKeys(rows) : c \in clients => StillNeeded(c, rows)}

\* The rest of loadConfigurations: a row without a data source is a TypeError, which
\* ends the initialization before anything is set.
Connect(p) ==
    /\ Ahead(p, "connect")
    /\ LET whole == \A g \in Configs : \A r \in got[p][g] : r.broker # "none"
       IN \/ /\ whole
             /\ sources' = got[p]
             /\ ConnectBrokers(got[p])
             /\ dirty' = (got[p] # row)
             /\ Proceed(p)
             /\ UNCHANGED <<dbVars, files, cacheVars, stale, lost>>
          \/ ~whole /\ Throw(p) /\ UNCHANGED sourceVars
    /\ UNCHANGED envVars
=============================================================================
