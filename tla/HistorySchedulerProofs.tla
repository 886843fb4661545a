------------------------ MODULE HistorySchedulerProofs ------------------------
(***************************************************************************)
(* Proofs about HistoryScheduler for any number of variables, intervals,   *)
(* heartbeats, faults, crashes and changes of intervals: next_run_at       *)
(* follows the last sample, and the stamps of the samples increase.        *)
(***************************************************************************)
EXTENDS HistoryScheduler, TLAPS

\* next_run_at is one interval behind the last sample, or was never set.
Follows(v) == interval[v] # 0 /\ next[v] # 0 => next[v] = last[v] + interval[v]

\* A heartbeat that has found nothing yet has nothing to advance.
NothingFound == at \in {"idle", "find"} => DOMAIN due = {}

\* An update in flight is one that the heartbeat waits for, and brings what the
\* heartbeat's sample is followed by; or nobody waits for it, and its variables
\* are excepted until it has landed.
Landings ==
    \A l \in landing :
        /\ l.next # 0
        /\ l.late => l.ids \subseteq excused
        /\ ~l.late => /\ at = "advance"
                      /\ l.ids \subseteq DOMAIN due
                      /\ \A v \in l.ids : l.next = Advance(due[v])

\* A variable that was found keeps the interval it was found with, and its stamp is
\* behind its last sample.
Found == \A v \in DOMAIN due \ excused : due[v] = interval[v] /\ Stamp(v) > last[v]

\* Until the updates begin, the variables found are as they were.
NotYetMoved == at \in {"find", "mark"} => \A v \in Variables \ excused : Follows(v)

\* Then each is moved on, or its update is in flight.
Moved ==
    at \in {"advance", "add"} =>
        \A v \in DOMAIN due \ excused :
            \/ next[v] = Advance(due[v])
            \/ at = "advance" /\ \E l \in landing : ~l.late /\ v \in l.ids

\* A variable without next_run_at was never sampled.
NeverSampled == \A v \in Variables \ excused : next[v] = 0 => last[v] = -1

IInv ==
    /\ TypeOK
    /\ NothingFound
    /\ Landings
    /\ Found
    /\ NotYetMoved
    /\ Moved
    /\ NeverSampled
    /\ NextFollowsLast

-----------------------------------------------------------------------------
(* The grid of an interval *)

LEMMA GridBounds ==
    ASSUME NEW t \in Nat, NEW i \in Nat \ {0}
    PROVE  Grid(t, i) \in Nat /\ Grid(t, i) <= t /\ t < Grid(t, i) + i
<1>1. t % i \in 0 .. i - 1
  OBVIOUS
<1>2. t % i <= t
  OBVIOUS
<1>3. QED
  BY <1>1, <1>2 DEF Grid

\* The time after an interval's last tick is a time, and later than now.
LEMMA AdvanceIsLater ==
    ASSUME TypeOK, NEW i \in Intervals
    PROVE  Advance(i) \in Nat /\ Advance(i) # 0 /\ Grid(base, i) \in Nat
<1>1. base \in Nat /\ i \in Nat \ {0}
  BY HistorySchedulerAssumption DEF TypeOK, Time
<1>2. QED
  BY <1>1, GridBounds DEF Advance

-----------------------------------------------------------------------------
(* Types *)

LEMMA InitTypes == Init => TypeOK
<1> SUFFICES ASSUME Init PROVE TypeOK
  OBVIOUS
<1>1. now \in Time /\ base \in Time
  BY HistorySchedulerAssumption DEF Init, Time
<1>2. interval \in [Variables -> Intervals \cup {0}]
  BY DEF Init
<1>3. next \in [Variables -> Nat] /\ last \in [Variables -> Int]
  BY DEF Init
<1>4. DOMAIN due = {}
  BY DEF Init, NoneDue
<1>5. QED
  BY <1>1, <1>2, <1>3, <1>4 DEF Init, TypeOK

\* An update that nobody waits for any longer is the same update.
LEMMA AbandonedUpdates ==
    ASSUME TypeOK, NEW S \in SUBSET landing, Abandon(S)
    PROVE  /\ landing' \in SUBSET Update
           /\ \A k \in landing' : k.late /\ \E l \in S : k.ids = l.ids /\ k.next = l.next
<1>1. ASSUME NEW l \in S
      PROVE  LET late == [l EXCEPT !.late = TRUE]
             IN  late \in Update /\ late.late /\ late.ids = l.ids /\ late.next = l.next
  BY <1>1 DEF TypeOK, Update
<1>2. QED
  BY <1>1, Zenon DEF Abandon

LEMMA TypesKept == TypeOK /\ [Next]_vars => TypeOK'
<1> SUFFICES ASSUME TypeOK, [Next]_vars PROVE TypeOK'
  OBVIOUS
<1> USE HistorySchedulerAssumption DEF TypeOK
<1>0. Later \in Time /\ Later \in Nat
  BY DEF Later, Time
<1>1. CASE TakeBeat
  <2>1. beat' \in SUBSET Nat /\ \A t, u \in beat' : t = u
    BY <1>1, <1>0 DEF TakeBeat
  <2>2. QED
    BY <1>1, <2>1 DEF TakeBeat, Queries, envVars
<1>2. CASE Setup
  BY <1>2, <1>0 DEF Setup, procVars, envVars
<1>3. CASE Find
  BY <1>3 DEF Find, Due, Queries, redisVars, envVars
<1>4. CASE Mark
  <2>1. \A i \in Intervals : Advance(i) \in Nat
    BY AdvanceIsLater
  <2>2. \A i \in {due[v] : v \in DOMAIN due} :
            [ids |-> Group(i), next |-> Advance(i), late |-> FALSE] \in Update
    BY <2>1 DEF Group, Update
  <2>3. QED
    BY <1>4, <2>2 DEF Mark, Queries, redisVars, envVars
<1>5. CASE Advanced
  BY <1>5 DEF Advanced, Queries, redisVars, envVars
<1>6. CASE Add
  <2>1. ASSUME NEW v \in DOMAIN due PROVE Stamp(v) \in Int
    <3>1. Grid(base, due[v]) \in Nat
      BY AdvanceIsLater
    <3>2. QED
      BY <3>1 DEF Stamp
  <2>2. last' \in [Variables -> Int]
    BY <1>6, <2>1 DEF Add
  <2>3. QED
    BY <1>6, <2>2 DEF Add, Return, NoneDue, redisVars, envVars
<1>7. ASSUME NEW l \in landing, Land(l) PROVE TypeOK'
  <2>1. next' \in [Variables -> Nat]
    BY <1>7 DEF Land, Update
  <2>2. QED
    BY <1>7, <2>1 DEF Land, redisVars, procVars, envVars
<1>8. ASSUME NEW query \in {"find", "mark", "add"}, Fail(query) PROVE TypeOK'
  BY <1>8 DEF Fail, Return, NoneDue, redisVars
<1>9. ASSUME NEW l \in landing, FailAdvance(l) PROVE TypeOK'
  <2>1. landing' \in SUBSET Update
    BY <1>9, AbandonedUpdates, landing \ {l} \in SUBSET landing DEF FailAdvance
  <2>2. QED
    BY <1>9, <2>1 DEF FailAdvance, Return, NoneDue, redisVars
<1>10. CASE Pass
  BY <1>10, <1>0 DEF Pass, redisVars, procVars, envVars
<1>11. CASE Crash
  <2>1. landing' \in SUBSET Update
    BY <1>11, AbandonedUpdates DEF Crash
  <2>2. QED
    BY <1>11, <2>1 DEF Crash, Return, NoneDue
<1>12. ASSUME NEW byInitialize \in BOOLEAN, ClearJobs(byInitialize) PROVE TypeOK'
  BY <1>12 DEF ClearJobs, procVars
<1>13. ASSUME NEW v \in Variables, NEW i \in Intervals \cup {0}, SetInterval(v, i) PROVE TypeOK'
  BY <1>13 DEF SetInterval, redisVars, procVars
<1>14. CASE UNCHANGED vars
  BY <1>14 DEF vars, redisVars, procVars, envVars
<1>15. QED
  BY <1>1, <1>2, <1>3, <1>4, <1>5, <1>6, <1>7, <1>8, <1>9, <1>10, <1>11, <1>12, <1>13, <1>14
  DEF Next, Process, Fault

-----------------------------------------------------------------------------
(* The invariant *)

LEMMA InitInv == Init => IInv
<1> SUFFICES ASSUME Init PROVE IInv
  OBVIOUS
<1>1. DOMAIN due = {}
  BY DEF Init, NoneDue
<1>2. NothingFound /\ Found /\ Moved
  BY <1>1 DEF Init, NothingFound, Found, Moved
<1>3. Landings /\ NotYetMoved /\ NeverSampled /\ NextFollowsLast
  BY DEF Init, Landings, NotYetMoved, Follows, NeverSampled, NextFollowsLast
<1>4. QED
  BY <1>2, <1>3, InitTypes DEF IInv

\* Unless a heartbeat awaits its updates, nobody waits for the updates in flight.
LEMMA OnlyLate ==
    ASSUME IInv, at # "advance"
    PROVE  \A l \in landing : l.late /\ l.ids \subseteq excused
BY DEF IInv, Landings, TypeOK, Update

LEMMA InvKept == IInv /\ [Next]_vars => IInv'
<1> SUFFICES ASSUME IInv, [Next]_vars PROVE IInv'
  OBVIOUS
<1>0. TypeOK /\ TypeOK'
  BY TypesKept DEF IInv
<1>1. ASSUME UNCHANGED <<interval, next, procVars, landing, last, excused>> PROVE IInv'
  BY <1>0, <1>1 DEF IInv, procVars, NothingFound, Landings, Found, Stamp, Grid, NotYetMoved,
     Follows, Moved, Advance, NeverSampled, NextFollowsLast
<1>2. CASE TakeBeat
  <2>1. /\ at = "idle" /\ at' = "find" /\ DOMAIN due = {}
        /\ UNCHANGED <<interval, next, due, landing, last, excused>>
    BY <1>2 DEF TakeBeat, IInv, NothingFound
  <2>2. NothingFound' /\ Found' /\ Moved'
    BY <2>1 DEF NothingFound, Found, Moved
  <2>3. Landings'
    BY <2>1, OnlyLate DEF IInv, Landings
  <2>4. NotYetMoved' /\ NeverSampled' /\ NextFollowsLast'
    BY <2>1 DEF IInv, NotYetMoved, Follows, NeverSampled, NextFollowsLast
  <2>5. QED
    BY <1>0, <2>2, <2>3, <2>4 DEF IInv
<1>3. CASE Find
  <2>1. PICK chosen \in SUBSET Due(base) :
            /\ due' = [v \in chosen |-> interval[v]]
            /\ at' = IF chosen = {} THEN "idle" ELSE "mark"
    BY <1>3 DEF Find
  <2>2. /\ at = "find" /\ DOMAIN due = {} /\ DOMAIN due' = chosen
        /\ UNCHANGED <<interval, next, base, landing, last, excused>>
    BY <1>3, <2>1 DEF Find, IInv, NothingFound
  <2>3. NothingFound' /\ Moved'
    BY <2>1, <2>2 DEF NothingFound, Moved
  <2>4. Landings'
    BY <2>1, <2>2, OnlyLate DEF IInv, Landings
  <2>5. Found'
    <3> SUFFICES ASSUME NEW v \in chosen, v \notin excused
                 PROVE  due'[v] = interval[v] /\ Grid(base, due'[v]) > last[v]
      BY <2>2 DEF Found, Stamp, Grid
    <3>0. v \in Variables /\ interval[v] # 0 /\ next[v] <= base
      BY DEF Due
    <3>a. interval[v] \in Nat \ {0}
      <4>1. interval[v] \in Intervals
        BY <3>0, <1>0 DEF TypeOK
      <4>2. QED
        BY <4>1, HistorySchedulerAssumption
    <3>b. base \in Nat
      BY <1>0, HistorySchedulerAssumption DEF TypeOK, Time
    <3>c. next[v] \in Nat /\ last[v] \in Int
      BY <3>0, <1>0 DEF TypeOK
    <3>1. /\ interval[v] \in Nat \ {0} /\ base \in Nat
          /\ next[v] \in Nat /\ last[v] \in Int
      BY <3>a, <3>b, <3>c
    <3>2. Grid(base, interval[v]) \in Nat /\ base < Grid(base, interval[v]) + interval[v]
      BY <3>1, GridBounds
    <3>3. next[v] = 0 => last[v] = -1
      BY <3>0 DEF IInv, NeverSampled
    <3>4. next[v] # 0 => next[v] = last[v] + interval[v]
      BY <3>0, <2>2 DEF IInv, NotYetMoved, Follows
    <3>5. QED
      BY <2>1, <3>0, <3>1, <3>2, <3>3, <3>4
  <2>6. NotYetMoved' /\ NeverSampled' /\ NextFollowsLast'
    BY <2>1, <2>2 DEF IInv, NotYetMoved, Follows, NeverSampled, NextFollowsLast
  <2>7. QED
    BY <1>0, <2>3, <2>4, <2>5, <2>6 DEF IInv
<1>4. CASE Mark
  <2>1. /\ at = "mark" /\ at' = "advance"
        /\ landing' = landing \cup {[ids |-> Group(i), next |-> Advance(i), late |-> FALSE] :
                                    i \in {due[v] : v \in DOMAIN due}}
        /\ UNCHANGED <<interval, next, base, due, last, excused>>
    BY <1>4 DEF Mark
  <2>2. \A i \in {due[v] : v \in DOMAIN due} : i \in Intervals /\ Advance(i) # 0
    BY <1>0, AdvanceIsLater DEF TypeOK
  <2>3. Landings'
    <3> SUFFICES ASSUME NEW l \in landing'
                 PROVE  /\ l.next # 0
                        /\ l.late => l.ids \subseteq excused
                        /\ ~l.late => /\ l.ids \subseteq DOMAIN due
                                      /\ \A v \in l.ids : l.next = Advance(due[v])
      BY <2>1 DEF Landings, Advance
    <3>1. CASE l \in landing
      BY <3>1, <2>1, OnlyLate DEF IInv, Landings
    <3>2. CASE l \notin landing
      <4>1. PICK i \in {due[v] : v \in DOMAIN due} :
                l = [ids |-> Group(i), next |-> Advance(i), late |-> FALSE]
        BY <3>2, <2>1
      <4>2. QED
        BY <4>1, <2>2 DEF Group
    <3>3. QED
      BY <3>1, <3>2
  <2>4. Moved'
    <3> SUFFICES ASSUME NEW v \in DOMAIN due
                 PROVE  \E l \in landing' : ~l.late /\ v \in l.ids
      BY <2>1 DEF Moved
    <3>1. [ids |-> Group(due[v]), next |-> Advance(due[v]), late |-> FALSE] \in landing'
      BY <2>1
    <3>2. v \in Group(due[v])
      BY DEF Group
    <3>3. QED
      BY <3>1, <3>2
  <2>5. NothingFound' /\ Found' /\ NotYetMoved' /\ NeverSampled' /\ NextFollowsLast'
    BY <2>1 DEF IInv, NothingFound, Found, Stamp, NotYetMoved, NeverSampled, NextFollowsLast
  <2>6. QED
    BY <1>0, <2>3, <2>4, <2>5 DEF IInv
<1>5. CASE Advanced
  <2>1. /\ at' = "add" /\ \A l \in landing : l.late
        /\ UNCHANGED <<interval, next, base, due, landing, last, excused>>
    BY <1>5 DEF Advanced
  <2>2. Moved'
    BY <1>5, <2>1 DEF IInv, Moved, Advance, Advanced
  <2>3. QED
    BY <1>0, <2>1, <2>2 DEF IInv, NothingFound, Landings, Found, Stamp, NotYetMoved,
       NeverSampled, NextFollowsLast
<1>6. CASE Add
  <2>1. /\ at = "add" /\ at' = "idle" /\ DOMAIN due' = {}
        /\ last' = [v \in Variables |-> IF v \in DOMAIN due THEN Stamp(v) ELSE last[v]]
        /\ excused' = excused \ Settled
        /\ UNCHANGED <<interval, next, base, landing>>
    BY <1>6 DEF Add, Return, NoneDue
  <2>2. Landings'
    BY <2>1, OnlyLate DEF IInv, Landings, Settled
  <2>3. ASSUME NEW v \in DOMAIN due, v \notin excused'
        PROVE  due[v] = interval[v] /\ next[v] = Advance(due[v])
    BY <2>1, <2>3 DEF IInv, Found, Moved, Settled
  <2>4. ASSUME NEW v \in Variables, v \notin DOMAIN due, v \notin excused'
        PROVE  v \notin excused /\ last'[v] = last[v]
    BY <2>1, <2>4 DEF Settled
  <2>5. ASSUME NEW v \in DOMAIN due
        PROVE  /\ v \in Variables /\ due[v] \in Intervals
               /\ last'[v] = Grid(base, due[v])
               /\ Advance(due[v]) = Grid(base, due[v]) + due[v]
               /\ Advance(due[v]) # 0
    BY <1>0, <2>1, AdvanceIsLater DEF TypeOK, Stamp, Advance
  <2>6. NeverSampled' /\ NextFollowsLast'
    BY <2>1, <2>3, <2>4, <2>5 DEF IInv, NeverSampled, NextFollowsLast
  <2>7. NothingFound' /\ Found' /\ NotYetMoved' /\ Moved'
    BY <2>1 DEF NothingFound, Found, NotYetMoved, Moved
  <2>8. QED
    BY <1>0, <2>2, <2>6, <2>7 DEF IInv
<1>7. ASSUME NEW l \in landing, Land(l) PROVE IInv'
  <2>1. /\ landing' = landing \ {l}
        /\ next' = [v \in Variables |-> IF v \in l.ids THEN l.next ELSE next[v]]
        /\ UNCHANGED <<interval, at, base, due, last, excused>>
    BY <1>7 DEF Land, procVars
  <2>2. l.next # 0 /\ (l.late => l.ids \subseteq excused)
    BY DEF IInv, Landings
  <2>3. ~l.late => /\ at = "advance" /\ l.ids \subseteq DOMAIN due
                   /\ \A v \in l.ids : l.next = Advance(due[v])
    BY DEF IInv, Landings
  <2>4. NothingFound' /\ Landings' /\ Found'
    BY <2>1 DEF IInv, NothingFound, Landings, Advance, Found, Stamp
  <2>5. NotYetMoved' /\ NeverSampled' /\ NextFollowsLast'
    BY <2>1, <2>2, <2>3 DEF IInv, NotYetMoved, Follows, NeverSampled, NextFollowsLast
  <2>6. Moved'
    <3> SUFFICES ASSUME at \in {"advance", "add"}, NEW v \in DOMAIN due \ excused
                 PROVE  \/ next'[v] = Advance(due[v])
                        \/ at = "advance" /\ \E k \in landing' : ~k.late /\ v \in k.ids
      BY <2>1 DEF Moved, Advance
    <3>0. v \in Variables
      BY <1>0 DEF TypeOK
    <3>1. CASE v \in l.ids
      BY <3>0, <3>1, <2>1, <2>2, <2>3
    <3>2. CASE v \notin l.ids
      BY <3>0, <3>2, <2>1 DEF IInv, Moved
    <3>3. QED
      BY <3>1, <3>2
  <2>7. QED
    BY <1>0, <2>4, <2>5, <2>6 DEF IInv
<1>8. ASSUME NEW query \in {"find", "mark", "add"}, Fail(query) PROVE IInv'
  <2>1. /\ at = query /\ at' = "idle" /\ DOMAIN due' = {}
        /\ excused' = IF query = "add" THEN excused \cup DOMAIN due ELSE excused
        /\ UNCHANGED <<interval, next, landing, last>>
    BY <1>8 DEF Fail, Return, NoneDue
  <2>2. Landings'
    BY <2>1, OnlyLate DEF IInv, Landings
  <2>3. NothingFound' /\ Found' /\ NotYetMoved' /\ Moved'
    BY <2>1 DEF NothingFound, Found, NotYetMoved, Moved
  <2>4. NeverSampled' /\ NextFollowsLast'
    BY <2>1 DEF IInv, NotYetMoved, Follows, NeverSampled, NextFollowsLast
  <2>5. QED
    BY <1>0, <2>2, <2>3, <2>4 DEF IInv
<1>9. ASSUME NEW S \in SUBSET landing, Abandon(S), Return,
             excused' = excused \cup DOMAIN due, UNCHANGED <<interval, next, last>>
      PROVE  IInv'
  <2>1. at' = "idle" /\ DOMAIN due' = {}
    BY <1>9 DEF Return, NoneDue
  <2>2. Landings'
    BY <1>0, <1>9, <2>1, AbandonedUpdates DEF IInv, Landings
  <2>3. NothingFound' /\ Found' /\ NotYetMoved' /\ Moved'
    BY <2>1 DEF NothingFound, Found, NotYetMoved, Moved
  <2>4. NeverSampled' /\ NextFollowsLast'
    BY <1>9, <2>1 DEF IInv, NeverSampled, NextFollowsLast
  <2>5. QED
    BY <1>0, <2>2, <2>3, <2>4 DEF IInv
<1>10. ASSUME NEW l \in landing, FailAdvance(l) PROVE IInv'
  BY <1>9, <1>10, landing \ {l} \in SUBSET landing DEF FailAdvance
<1>11. CASE Crash
  BY <1>9, <1>11 DEF Crash
<1>12. ASSUME NEW u \in Variables, NEW i \in Intervals \cup {0}, SetInterval(u, i) PROVE IInv'
  <2>1. /\ excused' = excused \cup {u}
        /\ \A v \in Variables \ {u} : interval'[v] = interval[v]
        /\ UNCHANGED <<next, at, base, due, landing, last>>
    BY <1>0, <1>12 DEF SetInterval, procVars, TypeOK
  <2>2. NothingFound' /\ Landings' /\ Moved'
    BY <2>1 DEF IInv, NothingFound, Landings, Moved, Advance
  <2>3. Found' /\ NotYetMoved' /\ NeverSampled' /\ NextFollowsLast'
    BY <1>0, <2>1 DEF TypeOK, IInv, Found, Stamp, NotYetMoved, Follows, NeverSampled,
       NextFollowsLast
  <2>4. QED
    BY <1>0, <2>2, <2>3 DEF IInv
<1>13. CASE Setup
  BY <1>1, <1>13 DEF Setup
<1>14. CASE Pass
  BY <1>1, <1>14 DEF Pass
<1>15. ASSUME NEW byInitialize \in BOOLEAN, ClearJobs(byInitialize) PROVE IInv'
  BY <1>1, <1>15 DEF ClearJobs
<1>16. CASE UNCHANGED vars
  BY <1>1, <1>16 DEF vars
<1>17. QED
  BY <1>2, <1>3, <1>4, <1>5, <1>6, <1>7, <1>8, <1>10, <1>11, <1>12, <1>13, <1>14, <1>15, <1>16
  DEF Next, Process, Fault

LEMMA Invariant == Spec => []IInv
BY InitInv, InvKept, PTL DEF Spec

-----------------------------------------------------------------------------
(* The theorems *)

\* Every variable of the scheduler keeps its type: an update in flight and a heartbeat's
\* variables are of the table (processDueVariables, history-scheduler.service.ts:81).
THEOREM SchedulerTypes == Spec => []TypeOK
<1>1. IInv => TypeOK
  BY DEF IInv
<1>2. QED
  BY <1>1, Invariant, PTL

\* Outside of a heartbeat next_run_at is one interval behind the last sample, for any
\* number of variables, intervals and faults, and however late the heartbeats come
\* (nextTime and triggerTime, history-scheduler.service.ts:131-148).
THEOREM NextAlwaysFollows == Spec => []NextFollowsLast
<1>1. IInv => NextFollowsLast
  BY DEF IInv
<1>2. QED
  BY <1>1, Invariant, PTL

\* A sample is stamped later than the last of its variable, unless the interval changed
\* or an abandoned update put next_run_at back (history-scheduler.service.ts:147-168).
THEOREM StampsAlwaysIncrease == Spec => StampsIncrease
<1>1. ASSUME IInv, [Next]_vars
      PROVE  [\A v \in DOMAIN due \ excused :
                 at = "add" /\ at' = "idle" /\ envVars' = envVars => last'[v] > last[v]]_vars
  <2> SUFFICES ASSUME Next, at = "add", at' = "idle", envVars' = envVars,
                      NEW v \in DOMAIN due \ excused
               PROVE  last'[v] > last[v]
    BY <1>1
  <2>0. v \in Variables /\ faults \in Nat /\ events \in Nat
    BY <1>1 DEF IInv, TypeOK
  <2>1. CASE Add
    BY <1>1, <2>0, <2>1 DEF Add, IInv, Found
  <2>2. CASE TakeBeat \/ Setup \/ Find \/ Mark \/ Advanced \/ Pass
    BY <2>2 DEF TakeBeat, Setup, Find, Mark, Advanced, Pass, procVars
  <2>3. CASE \E l \in landing : Land(l)
    BY <2>3 DEF Land, procVars
  <2>4. CASE Fault \/ Crash
    BY <2>0, <2>4 DEF Fault, Fail, FailAdvance, Crash, envVars
  <2>5. CASE \E byInitialize \in BOOLEAN : ClearJobs(byInitialize)
    BY <2>5 DEF ClearJobs, procVars
  <2>6. CASE \E u \in Variables, i \in Intervals \cup {0} : SetInterval(u, i)
    BY <2>6 DEF SetInterval, procVars
  <2>7. QED
    BY <2>1, <2>2, <2>3, <2>4, <2>5, <2>6 DEF Next, Process
<1>2. QED
  BY <1>1, Invariant, PTL DEF Spec, StampsIncrease
=============================================================================
