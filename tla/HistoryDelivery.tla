--------------------------- MODULE HistoryDelivery ---------------------------
(***************************************************************************)
(* What storing history promises, without the slots, timers and flags that *)
(* do it: a store-history job taken from the queue is buffered once; what  *)
(* is buffered is written in one piece or dropped in one piece, never both *)
(* and never twice; only a crash makes the queue hand out a job again.     *)
(***************************************************************************)
EXTENDS Integers

CONSTANTS Entries, LaneOf

Lanes == {"history", "utility"}

VARIABLES
    fresh,    \* entries a job will be added for
    waiting,  \* entries whose job is in the queue
    active,   \* entries whose job a worker has taken and not completed
    stalled,  \* entries whose job was active when its worker died
    buffer,   \* entries held in memory, per lane
    rows      \* how often an entry was written to its table

vars == <<fresh, waiting, active, stalled, buffer, rows>>

Init ==
    /\ fresh \in SUBSET Entries
    /\ waiting = {} /\ active = {} /\ stalled = {}
    /\ buffer = [l \in Lanes |-> {}]
    /\ rows = [e \in Entries |-> 0]

Written(S) == rows' = [e \in Entries |-> IF e \in S THEN rows[e] + 1 ELSE rows[e]]

Add(S) ==
    /\ fresh' = fresh \ S
    /\ waiting' = waiting \cup S
    /\ UNCHANGED <<active, stalled, buffer, rows>>

Accept(e) ==
    /\ waiting' = waiting \ {e}
    /\ active' = active \cup {e}
    /\ buffer' = [buffer EXCEPT ![LaneOf[e]] = @ \cup {e}]
    /\ UNCHANGED <<fresh, stalled, rows>>

Complete(e) ==
    /\ active' = active \ {e}
    /\ UNCHANGED <<fresh, waiting, stalled, buffer, rows>>

Write(l, S) ==
    /\ buffer' = [buffer EXCEPT ![l] = @ \ S]
    /\ Written(S)
    /\ UNCHANGED <<fresh, waiting, active, stalled>>

Drop(l, S) ==
    /\ buffer' = [buffer EXCEPT ![l] = @ \ S]
    /\ UNCHANGED <<fresh, waiting, active, stalled, rows>>

\* Memory is lost; a write in flight may have reached the database.
Crash(S) ==
    /\ Written(S)
    /\ buffer' = [l \in Lanes |-> {}]
    /\ active' = {}
    /\ stalled' = stalled \cup active
    /\ UNCHANGED <<fresh, waiting>>

Redeliver(e) ==
    /\ stalled' = stalled \ {e}
    /\ waiting' = waiting \cup {e} \/ UNCHANGED waiting
    /\ UNCHANGED <<fresh, active, buffer, rows>>

Next ==
    \/ \E S \in SUBSET fresh : Add(S)
    \/ \E e \in waiting : Accept(e)
    \/ \E e \in active : Complete(e)
    \/ \E l \in Lanes : \E S \in SUBSET buffer[l] : Write(l, S) \/ Drop(l, S)
    \/ \E S \in SUBSET UNION {buffer[l] : l \in Lanes} : Crash(S)
    \/ \E e \in stalled : Redeliver(e)

Spec == Init /\ [][Next]_vars

=============================================================================
