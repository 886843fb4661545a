---------------------------- MODULE AlarmJournal ----------------------------
(***************************************************************************)
(* What alarm handling promises about the database, whatever the workers,  *)
(* the requests, the cache and the failures between them do: the status of *)
(* an alarm moves only together with its log, one entry at a time, and an  *)
(* alarm that is not there is neither moved nor logged.                    *)
(***************************************************************************)
EXTENDS Integers, Sequences

CONSTANTS Alarms, None

VARIABLES status, history

vars == <<status, history>>

Status == [isActive : BOOLEAN, isAcknowledged : BOOLEAN]
EventType == {"I", "IO", "IA", "IOA", "IAO"}
ClearEvents == {"IO", "IAO"}
AckEvents == {"IA", "IOA"}

\* The status an event leaves behind.
After(s, event) ==
    [isActive |-> event = "I" \/ (s.isActive /\ event \notin ClearEvents),
     isAcknowledged |-> event \in AckEvents \/ (s.isAcknowledged /\ event # "I")]

Inactive == [isActive |-> FALSE, isAcknowledged |-> FALSE]

Init ==
    /\ status \in [Alarms -> {Inactive, None}]
    /\ history = [a \in Alarms |-> <<>>]

\* One event is logged for every alarm of S, in one transaction.
Log(S, event) ==
    /\ S # {}
    /\ \A a \in S : status[a] # None
    /\ status' = [a \in Alarms |->
                    IF a \in S THEN After(status[a], event[a]) ELSE status[a]]
    /\ history' = [a \in Alarms |->
                    IF a \in S THEN Append(history[a], event[a]) ELSE history[a]]

Create(a) ==
    /\ status[a] = None
    /\ status' = [status EXCEPT ![a] = Inactive]
    /\ UNCHANGED history

Delete(a) ==
    /\ status[a] # None
    /\ status' = [status EXCEPT ![a] = None]
    /\ history' = [history EXCEPT ![a] = <<>>]

Next ==
    \/ \E S \in SUBSET Alarms : \E event \in [S -> EventType] : Log(S, event)
    \/ \E a \in Alarms : Create(a) \/ Delete(a)

Spec == Init /\ [][Next]_vars

-----------------------------------------------------------------------------

\* The log contains an event of E that no event of F follows.
LastlyIn(h, E, F) ==
    \E i \in 1..Len(h) : h[i] \in E /\ \A j \in i + 1 .. Len(h) : h[j] \notin F

TypeOK ==
    /\ status \in [Alarms -> Status \cup {None}]
    /\ history \in [Alarms -> Seq(EventType)]

\* An alarm is active exactly when its log's last activation has not been
\* followed by a clearance, and acknowledged exactly when an acknowledgement
\* has not been followed by an activation; a missing alarm has no log.
StatusMatchesLog ==
    \A a \in Alarms :
        IF status[a] = None
        THEN history[a] = <<>>
        ELSE /\ status[a].isActive <=> LastlyIn(history[a], {"I"}, ClearEvents)
             /\ status[a].isAcknowledged <=> LastlyIn(history[a], AckEvents, {"I"})

=============================================================================
