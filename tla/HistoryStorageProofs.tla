------------------------ MODULE HistoryStorageProofs ------------------------
(***************************************************************************)
(* Proofs about HistoryStorage for any number of entries, slots and timer  *)
(* callbacks and any batch size: flushes of a batch exclude each other,    *)
(* and no entry is held or stored twice.                                   *)
(***************************************************************************)
EXTENDS HistoryStorage, FiniteSetTheorems, TLAPS

\* A job is in one place: to be added, queued, stalled or run by one slot.
OneJob ==
    /\ fresh \cap waiting = {} /\ fresh \cap stalled = {} /\ waiting \cap stalled = {}
    /\ \A w \in Slots : job[w] \cap (fresh \cup waiting \cup stalled) = {}
    /\ \A w, v \in Slots : w # v => job[w] \cap job[v] = {}
    /\ \A w \in Slots : \A e, f \in job[w] : e = f

\* A stalled job's entry was written by lives of the process that have ended.
StalledRows == \A e \in stalled : rows[e] =< crashes

\* An idle slot runs no job, and the shutdown hook flushes when all are idle.
Life ==
    /\ \A w \in Slots : at[w] = "idle" => job[w] = {}
    /\ phase \in {"final", "stopped"} => \A w \in Slots : at[w] = "idle"
    /\ at[Closer] # "idle" => phase = "final"

IInv ==
    /\ TypeOK /\ OneFlushPerLane /\ HeldOnce /\ OneJob
    /\ StoredOnce /\ StalledRows /\ Life

\* Slots, callbacks of the timer and the shutdown hook are different processes.
LEMMA ProcsApart ==
    /\ Slots \subseteq Procs /\ Ticks \subseteq Procs /\ Closer \in Procs
    /\ \A w \in Slots : w # Closer /\ w \notin Ticks
    /\ \A t \in Ticks : t # Closer /\ t \notin Slots
BY StorageAssumption DEF Procs

\* The initial states satisfy the inductive invariant.
LEMMA InitIInv == Init => IInv
<1> SUFFICES ASSUME Init PROVE IInv
  OBVIOUS
<1>1. TypeOK
  BY StorageAssumption DEF Init, TypeOK, Point, Lanes, Empty
<1>2. InFlight = {} /\ Held = {}
  BY DEF Init, InFlight, Held, Empty
<1>3. OneFlushPerLane
  BY DEF Init, OneFlushPerLane
<1>4. HeldOnce /\ OneJob
  BY <1>2 DEF Init, HeldOnce, OneJob, Empty
<1>5. StoredOnce /\ StalledRows
  BY <1>2 DEF Init, StoredOnce, StalledRows
<1>6. Life
  BY ProcsApart DEF Init, Life
<1>7. QED
  BY <1>1, <1>3, <1>4, <1>5, <1>6 DEF IInv

-----------------------------------------------------------------------------
(* The parts of the invariant the steps share *)

\* What the memory of the worker looks like: the invariants about it.
Memory == OneFlushPerLane /\ HeldOnce /\ OneJob /\ StoredOnce /\ StalledRows

\* Moving a process between points other than "write" disturbs no memory.
LEMMA MoveMemory ==
    ASSUME IInv, NEW p \in Procs, at[p] # "write", NEW point \in Point \ {"write"}, NEW l \in Lanes,
           Goto(p, point, l), UNCHANGED <<fresh, waiting, stalled, batch, flushing, writing, rows, crashes>>,
           \/ UNCHANGED job
           \/ p \in Slots /\ job' = [job EXCEPT ![p] = {}]
    PROVE  Memory'
<1> USE DEF IInv
<1>1. \A q \in Procs \ {p} : at'[q] = at[q] /\ lane'[q] = lane[q]
  BY DEF Goto, TypeOK
<1>2. at'[p] # "write"
  BY DEF Goto, TypeOK
<1>3. OneFlushPerLane'
  BY <1>1, <1>2 DEF OneFlushPerLane
<1>4. InFlight' = InFlight /\ Held' = Held
  BY DEF InFlight, Held
<1>5. HeldOnce'
  BY <1>1, <1>2, <1>4 DEF HeldOnce
<1>6. \A w \in Slots : job'[w] \subseteq job[w]
  BY DEF TypeOK
<1>7. OneJob'
  BY <1>6 DEF OneJob
<1>8. StoredOnce' /\ StalledRows'
  BY <1>4 DEF StoredOnce, StalledRows
<1>9. QED
  BY <1>3, <1>5, <1>7, <1>8 DEF Memory

\* A flush, skipped or begun, keeps everything the memory promises.
LEMMA FlushMemory ==
    ASSUME IInv, NEW p \in Procs, at[p] # "write", NEW l \in Lanes, Flush(p, l),
           UNCHANGED <<fresh, waiting, stalled, job, rows, crashes>>
    PROVE  /\ Memory' /\ Held' = Held
           /\ at' = [at EXCEPT ![p] = at'[p]] /\ at'[p] \in {"after", "write"}
           /\ lane' \in [Procs -> Lanes]
           /\ batch' \in [Lanes -> SUBSET Entries]
           /\ flushing' \in [Lanes -> BOOLEAN]
           /\ writing' \in [Procs -> SUBSET Entries]
<1> USE DEF IInv
<1>1. CASE Skips(l)
  <2>1. Goto(p, "after", l) /\ UNCHANGED <<flushing, writing, batch>>
    BY <1>1 DEF Flush
  <2>2. Memory'
    BY <2>1, MoveMemory DEF Point
  <2>3. Held' = Held
    BY <2>1 DEF Held, InFlight
  <2>4. QED
    BY <2>1, <2>2, <2>3 DEF Goto, TypeOK
<1>2. CASE ~Skips(l)
  <2>1. /\ Goto(p, "write", l)
        /\ flushing' = [flushing EXCEPT ![l] = TRUE]
        /\ writing' = [writing EXCEPT ![p] = batch[l]]
        /\ batch' = [batch EXCEPT ![l] = {}]
        /\ ~flushing[l]
    BY <1>2 DEF Flush, Reset, Skips
  <2>2. /\ at'[p] = "write" /\ lane'[p] = l
        /\ \A q \in Procs \ {p} : at'[q] = at[q] /\ lane'[q] = lane[q] /\ writing'[q] = writing[q]
        /\ writing'[p] = batch[l]
        /\ batch'[l] = {} /\ \A k \in Lanes \ {l} : batch'[k] = batch[k]
    BY <2>1 DEF Goto, TypeOK
  <2>3. writing[p] = {}
    BY DEF HeldOnce
  <2>4. OneFlushPerLane'
    <3>1. \A q \in Procs \ {p} : ~(at[q] = "write" /\ lane[q] = l)
      BY <2>1 DEF OneFlushPerLane
    <3>2. \A k \in Lanes : flushing'[k] <=> (k = l \/ flushing[k])
      BY <2>1 DEF TypeOK
    <3>3. QED
      BY <2>2, <3>1, <3>2 DEF OneFlushPerLane
  <2>5. InFlight' = InFlight \cup batch[l]
    <3>1. \A e : e \in InFlight' <=> e \in InFlight \/ e \in batch[l]
      <4>1. \A q \in Procs \ {p} : writing'[q] = writing[q]
        BY <2>2
      <4>2. \A e : (\E q \in Procs : e \in writing'[q])
                      <=> (\E q \in Procs : e \in writing[q]) \/ e \in batch[l]
        BY <2>2, <2>3, <4>1
      <4>3. QED
        BY <4>2 DEF InFlight
    <3>2. QED
      BY <3>1
  <2>6. (UNION {batch'[k] : k \in Lanes}) \cup batch[l] = UNION {batch[k] : k \in Lanes}
    BY <2>2
  <2>7. Held' = Held
    BY <2>5, <2>6 DEF Held
  <2>8. HeldOnce'
    <3>1. \A k \in Lanes : \A e \in batch'[k] : LaneOf[e] = k /\ e \notin InFlight'
      BY <2>2, <2>5 DEF HeldOnce
    <3>2. \A q \in Procs : \A e \in writing'[q] : at'[q] = "write" /\ LaneOf[e] = lane'[q]
      BY <2>2 DEF HeldOnce
    <3>3. (Held \cap (fresh \cup waiting \cup stalled) = {})'
      BY <2>7 DEF HeldOnce
    <3>4. QED
      BY <3>1, <3>2, <3>3 DEF HeldOnce
  <2>9. OneJob' /\ StoredOnce' /\ StalledRows'
    BY <2>7 DEF OneJob, StoredOnce, StalledRows
  <2>10. QED
    BY <2>1, <2>4, <2>7, <2>8, <2>9 DEF Memory, Goto, TypeOK
<1>3. QED
  BY <1>1, <1>2

\* So does the end of a write, whether its rows were inserted or not.
LEMMA WriteMemory ==
    ASSUME IInv, NEW p \in Procs, EndWrite(p), Written(writing[p]) \/ UNCHANGED rows
    PROVE  TypeOK' /\ Memory' /\ Held' = Held \ writing[p]
<1> USE DEF IInv
<1> DEFINE l == lane[p]
<1>1. /\ at[p] = "write" /\ l \in Lanes
      /\ Goto(p, "after", l)
      /\ flushing' = [flushing EXCEPT ![l] = FALSE]
      /\ writing' = [writing EXCEPT ![p] = {}]
      /\ UNCHANGED <<queueVars, job, batch, lifeVars>>
  BY DEF EndWrite, TypeOK
<1>2. /\ at'[p] = "after" /\ writing'[p] = {}
      /\ \A q \in Procs \ {p} : at'[q] = at[q] /\ lane'[q] = lane[q] /\ writing'[q] = writing[q]
  BY <1>1 DEF Goto, TypeOK
<1>3. rows' \in [Entries -> Nat]
  BY DEF Written, TypeOK
<1>4. TypeOK'
  BY <1>1, <1>3 DEF Goto, queueVars, lifeVars, Point, TypeOK
<1>5. OneFlushPerLane'
  <2>1. \A q \in Procs \ {p} : at[q] = "write" => lane[q] # l
    BY <1>1 DEF OneFlushPerLane
  <2>2. flushing'[l] = FALSE /\ \A k \in Lanes \ {l} : flushing'[k] = flushing[k]
    BY <1>1 DEF TypeOK
  <2>3. \A k \in Lanes \ {l}, q \in Procs : at[q] = "write" /\ lane[q] = k => q # p
    OBVIOUS
  <2>4. \A k \in Lanes : flushing'[k] <=> \E q \in Procs : at'[q] = "write" /\ lane'[q] = k
    <3>1. ASSUME NEW k \in Lanes, k # l
          PROVE  flushing'[k] <=> \E q \in Procs : at'[q] = "write" /\ lane'[q] = k
      <4>1. flushing[k] <=> \E q \in Procs : at[q] = "write" /\ lane[q] = k
        BY DEF OneFlushPerLane
      <4>2. \A q \in Procs : (at'[q] = "write" /\ lane'[q] = k) <=> (at[q] = "write" /\ lane[q] = k)
        BY <1>2, <3>1
      <4>3. QED
        BY <2>2, <3>1, <4>1, <4>2
    <3>2. ~\E q \in Procs : at'[q] = "write" /\ lane'[q] = l
      BY <1>2, <2>1
    <3>3. QED
      BY <2>2, <3>1, <3>2
  <2>5. QED
    BY <1>2, <2>4 DEF OneFlushPerLane
<1>6. \A e \in writing[p] : e \notin InFlight'
  <2>1. ASSUME NEW e \in writing[p], NEW q \in Procs, e \in writing'[q]
        PROVE  FALSE
    <3>1. q # p /\ e \in writing[q]
      BY <1>2, <2>1
    <3>2. at[q] = "write" /\ LaneOf[e] = lane[q] /\ LaneOf[e] = lane[p]
      BY <2>1, <3>1 DEF HeldOnce
    <3>3. QED
      BY <1>1, <3>1, <3>2 DEF OneFlushPerLane
  <2>2. QED
    BY <2>1 DEF InFlight
<1>7. InFlight' \subseteq InFlight /\ batch' = batch
  BY <1>1, <1>2 DEF InFlight
<1>8. /\ Held' \subseteq Held /\ \A e \in writing[p] : e \in Held /\ e \notin Held'
      /\ Held' = Held \ writing[p]
  <2>1. InFlight \subseteq InFlight' \cup writing[p]
    BY <1>2 DEF InFlight
  <2>2. Held' \subseteq Held /\ \A e \in writing[p] : e \in Held /\ e \notin Held'
    BY <1>6, <1>7 DEF Held, InFlight, HeldOnce
  <2>3. Held \subseteq Held' \cup writing[p]
    BY <1>7, <2>1 DEF Held
  <2>4. QED
    BY <2>2, <2>3
<1>9. HeldOnce'
  BY <1>1, <1>2, <1>7, <1>8 DEF HeldOnce, queueVars
<1>10. OneJob'
  BY <1>1 DEF OneJob, queueVars
<1>11. StoredOnce'
  <2>1. ASSUME NEW e \in Entries
        PROVE  rows'[e] + (IF e \in Held' \cup waiting' \cup fresh' THEN 1 ELSE 0) =< 1 + crashes'
    <3>1. rows[e] + (IF e \in Held \cup waiting \cup fresh THEN 1 ELSE 0) =< 1 + crashes
      BY DEF StoredOnce
    <3>2. crashes' = crashes /\ waiting' = waiting /\ fresh' = fresh
      BY <1>1 DEF queueVars, lifeVars
    <3>3. CASE e \in writing[p]
      <4>1. e \in Held /\ e \notin Held' \cup waiting' \cup fresh'
        BY <1>8, <3>2, <3>3 DEF HeldOnce
      <4>2. rows'[e] \in {rows[e], rows[e] + 1} /\ rows[e] \in Nat /\ crashes \in Nat
        BY DEF Written, TypeOK
      <4>3. QED
        BY <3>1, <3>2, <4>1, <4>2
    <3>4. CASE e \notin writing[p]
      <4>1. rows'[e] = rows[e] /\ rows[e] \in Nat /\ crashes \in Nat
        BY <3>4 DEF Written, TypeOK
      <4>2. e \in Held' \cup waiting' \cup fresh' => e \in Held \cup waiting \cup fresh
        BY <1>8, <3>2
      <4>3. QED
        BY <3>1, <3>2, <4>1, <4>2
    <3>5. QED
      BY <3>3, <3>4
  <2>2. QED
    BY <2>1 DEF StoredOnce
<1>12. StalledRows'
  <2>1. \A e \in stalled : e \notin writing[p]
    BY <1>8 DEF HeldOnce
  <2>2. \A e \in stalled : rows'[e] = rows[e]
    BY <2>1 DEF Written, TypeOK
  <2>3. QED
    BY <1>1, <2>2 DEF StalledRows, queueVars, lifeVars
<1>13. QED
  BY <1>4, <1>5, <1>8, <1>9, <1>10, <1>11, <1>12 DEF Memory

-----------------------------------------------------------------------------
(* The steps *)

\* Where process() goes after looking at a batch.
LEMMA LookAtGoes ==
    ASSUME NEW w, NEW l \in Lanes, NEW held, LookAt(w, l, held)
    PROVE  \E point \in {"wait", "flush", "complete"}, k \in Lanes : Goto(w, point, k)
BY DEF LookAt, Lanes

\* Taking a job keeps it: the entry moves from the queue to one batch.
LEMMA TakeJobInv ==
    ASSUME IInv, NEW w \in Slots, TakeJob(w)
    PROVE  IInv'
<1> USE ProcsApart DEF IInv
<1>1. PICK e \in waiting :
        /\ waiting' = waiting \ {e}
        /\ job' = [job EXCEPT ![w] = {e}]
        /\ batch' = [batch EXCEPT ![LaneOf[e]] = @ \cup {e}]
  BY DEF TakeJob, Push
<1>2. PICK point \in {"wait", "flush", "complete"}, k \in Lanes : Goto(w, point, k)
  BY LookAtGoes DEF TakeJob, Lanes
<1>3. /\ e \in Entries /\ LaneOf[e] \in Lanes
      /\ at[w] = "idle" /\ phase = "up" /\ job[w] = {}
      /\ UNCHANGED <<fresh, stalled, flushing, writing, rows, phase, stops, crashes>>
  BY <1>1, StorageAssumption DEF TakeJob, lifeVars, TypeOK, Life
<1>4. /\ at'[w] = point /\ \A q \in Procs \ {w} : at'[q] = at[q] /\ lane'[q] = lane[q]
      /\ job'[w] = {e} /\ \A v \in Slots \ {w} : job'[v] = job[v]
  BY <1>1, <1>2 DEF Goto, TypeOK
<1>5. TypeOK'
  BY <1>1, <1>2, <1>3 DEF Goto, TypeOK, Point
<1>6. OneFlushPerLane'
  BY <1>2, <1>3, <1>4 DEF OneFlushPerLane
<1>7. InFlight' = InFlight /\ e \notin Held /\ e \notin fresh \cup stalled
  BY <1>3 DEF InFlight, HeldOnce, OneJob
<1>8. \A l \in Lanes : batch'[l] = IF l = LaneOf[e] THEN batch[l] \cup {e} ELSE batch[l]
  BY <1>1, <1>3 DEF TypeOK
<1>9. (UNION {batch'[l] : l \in Lanes}) = (UNION {batch[l] : l \in Lanes}) \cup {e}
  <2>1. ASSUME NEW f
        PROVE  (\E l \in Lanes : f \in batch'[l]) <=> (\E l \in Lanes : f \in batch[l]) \/ f = e
    BY <1>3, <1>8
  <2>2. QED
    BY <2>1
<1>10. Held' = Held \cup {e}
  BY <1>7, <1>9 DEF Held
<1>11. HeldOnce'
  <2>1. ASSUME NEW l \in Lanes, NEW f \in batch'[l]
        PROVE  LaneOf[f] = l /\ f \notin InFlight'
    <3>1. CASE f \in batch[l]
      BY <1>7, <3>1 DEF HeldOnce
    <3>2. CASE f \notin batch[l]
      <4>1. f = e /\ l = LaneOf[e]
        BY <1>8, <3>2
      <4>2. QED
        BY <1>7, <4>1 DEF Held
    <3>3. QED
      BY <3>1, <3>2
  <2>2. \A p \in Procs : \A f \in writing'[p] : at'[p] = "write" /\ LaneOf[f] = lane'[p]
    BY <1>3, <1>4 DEF HeldOnce
  <2>3. Held' \cap (fresh' \cup waiting' \cup stalled') = {}
    BY <1>1, <1>3, <1>7, <1>10 DEF HeldOnce
  <2>4. QED
    BY <2>1, <2>2, <2>3 DEF HeldOnce
<1>12. OneJob'
  BY <1>1, <1>3, <1>4, <1>7 DEF OneJob
<1>13. StoredOnce' /\ StalledRows'
  <2>1. \A f \in Entries : f \in Held' \cup waiting' \cup fresh' <=> f \in Held \cup waiting \cup fresh
    BY <1>1, <1>3, <1>10
  <2>2. QED
    BY <1>3, <2>1 DEF StoredOnce, StalledRows
<1>14. Life'
  BY <1>3, <1>4 DEF Life
<1>15. QED
  BY <1>5, <1>6, <1>11, <1>12, <1>13, <1>14

\* Every step of a slot keeps it.
LEMMA SlotInv ==
    ASSUME IInv, NEW w \in Slots, SlotStep(w)
    PROVE  IInv'
<1> USE ProcsApart DEF IInv
<1>1. CASE TakeJob(w)
  BY <1>1, TakeJobInv
<1>2. ASSUME NEW point \in Point \ {"write", "idle"}, NEW l \in Lanes, at[w] \notin {"idle", "write"},
             Goto(w, point, l),
             UNCHANGED <<queueVars, job, batch, flushing, writing, rows, lifeVars>>
      PROVE  IInv'
  <2>1. TypeOK'
    BY <1>2 DEF Goto, queueVars, lifeVars, TypeOK
  <2>2. Memory'
    BY <1>2, MoveMemory DEF queueVars, lifeVars
  <2>3. Life'
    BY <1>2 DEF Goto, lifeVars, TypeOK, Life
  <2>4. QED
    BY <2>1, <2>2, <2>3 DEF Memory
<1>3. CASE StopWaiting(w)
  BY <1>2, <1>3 DEF StopWaiting, Point, TypeOK
<1>4. CASE FlushFull(w)
  <2>1. /\ at[w] = "flush" /\ lane[w] \in Lanes /\ Flush(w, lane[w])
        /\ UNCHANGED <<queueVars, job, rows, lifeVars>>
    BY <1>4 DEF FlushFull, TypeOK
  <2>2. /\ Memory'
        /\ at' = [at EXCEPT ![w] = at'[w]] /\ at'[w] \in {"after", "write"}
        /\ lane' \in [Procs -> Lanes]
        /\ batch' \in [Lanes -> SUBSET Entries]
        /\ flushing' \in [Lanes -> BOOLEAN]
        /\ writing' \in [Procs -> SUBSET Entries]
    BY <2>1, FlushMemory DEF queueVars, lifeVars
  <2>3. TypeOK'
    BY <2>1, <2>2 DEF queueVars, lifeVars, Point, TypeOK
  <2>4. Life'
    BY <2>1, <2>2 DEF lifeVars, TypeOK, Life
  <2>5. QED
    BY <2>2, <2>3, <2>4 DEF Memory
<1>5. CASE Proceed(w)
  <2>1. PICK point \in {"wait", "flush", "complete"}, l \in Lanes : Goto(w, point, l)
    BY <1>5, LookAtGoes DEF Proceed, Lanes
  <2>2. QED
    BY <1>2, <1>5, <2>1 DEF Proceed, Point
<1>6. CASE CompleteJob(w)
  <2>1. /\ at[w] = "complete" /\ Goto(w, "idle", "history")
        /\ job' = [job EXCEPT ![w] = {}]
        /\ UNCHANGED <<queueVars, batch, flushing, writing, rows, lifeVars>>
    BY <1>6 DEF CompleteJob
  <2>2. TypeOK'
    BY <2>1 DEF Goto, queueVars, lifeVars, Point, Lanes, TypeOK
  <2>3. Memory'
    BY <2>1, MoveMemory DEF queueVars, lifeVars, Point, Lanes
  <2>4. Life'
    BY <2>1 DEF Goto, lifeVars, TypeOK, Life
  <2>5. QED
    BY <2>2, <2>3, <2>4 DEF Memory
<1>7. CASE WriteSucceeds(w) \/ WriteFails(w)
  <2>1. EndWrite(w) /\ (Written(writing[w]) \/ UNCHANGED rows)
    BY <1>7 DEF WriteSucceeds, WriteFails
  <2>2. Life'
    BY <2>1 DEF EndWrite, Goto, lifeVars, TypeOK, Life
  <2>3. QED
    BY <2>1, <2>2, WriteMemory DEF Memory
<1>8. QED
  BY <1>1, <1>3, <1>4, <1>5, <1>6, <1>7 DEF SlotStep

\* Every step of a callback of the timer keeps it.
LEMMA TickInv ==
    ASSUME IInv, NEW t \in Ticks, Tick(t) \/ TickStep(t)
    PROVE  IInv'
<1> USE ProcsApart DEF IInv
<1>1. ASSUME at[t] # "write", NEW l \in Lanes, Flush(t, l), UNCHANGED <<queueVars, job, rows, lifeVars>>
      PROVE  IInv'
  <2>1. /\ Memory'
        /\ at' = [at EXCEPT ![t] = at'[t]] /\ at'[t] \in {"after", "write"}
        /\ lane' \in [Procs -> Lanes]
        /\ batch' \in [Lanes -> SUBSET Entries]
        /\ flushing' \in [Lanes -> BOOLEAN]
        /\ writing' \in [Procs -> SUBSET Entries]
    BY <1>1, FlushMemory DEF queueVars, lifeVars
  <2>2. TypeOK'
    BY <1>1, <2>1 DEF queueVars, lifeVars, Point, TypeOK
  <2>3. Life'
    BY <1>1, <2>1 DEF lifeVars, TypeOK, Life
  <2>4. QED
    BY <2>1, <2>2, <2>3 DEF Memory
<1>2. CASE Tick(t)
  BY <1>1, <1>2 DEF Tick, Lanes
<1>3. CASE TickOn(t)
  <2>1. CASE lane[t] = "history"
    BY <1>1, <1>3, <2>1 DEF TickOn, Lanes
  <2>2. CASE lane[t] # "history"
    <3>1. /\ at[t] = "after" /\ Goto(t, "idle", "history")
          /\ UNCHANGED <<queueVars, job, batch, flushing, writing, rows, lifeVars>>
      BY <1>3, <2>2 DEF TickOn
    <3>2. TypeOK'
      BY <3>1 DEF Goto, queueVars, lifeVars, Point, Lanes, TypeOK
    <3>3. Memory'
      BY <3>1, MoveMemory DEF queueVars, lifeVars, Point, Lanes
    <3>4. Life'
      BY <3>1 DEF Goto, lifeVars, TypeOK, Life
    <3>5. QED
      BY <3>2, <3>3, <3>4 DEF Memory
  <2>3. QED
    BY <2>1, <2>2
<1>4. CASE WriteSucceeds(t) \/ WriteFails(t)
  <2>1. EndWrite(t) /\ (Written(writing[t]) \/ UNCHANGED rows)
    BY <1>4 DEF WriteSucceeds, WriteFails
  <2>2. Life'
    BY <2>1 DEF EndWrite, Goto, lifeVars, TypeOK, Life
  <2>3. QED
    BY <2>1, <2>2, WriteMemory DEF Memory
<1>5. QED
  BY <1>2, <1>3, <1>4 DEF TickStep

\* The shutdown hook keeps it, and so does the call that starts it.
LEMMA CloserInv ==
    ASSUME IInv, Shutdown \/ CloserStep
    PROVE  IInv'
<1> USE ProcsApart DEF IInv
<1>1. CASE Shutdown
  BY <1>1 DEF Shutdown, queueVars, TypeOK, OneFlushPerLane, HeldOnce, Held, InFlight, OneJob,
              StoredOnce, StalledRows, Life
<1>2. ASSUME at[Closer] # "write", NEW l \in Lanes, Flush(Closer, l),
             UNCHANGED <<queueVars, job, rows, stops, crashes>>,
             phase' = "final", \A w \in Slots : at[w] = "idle"
      PROVE  IInv'
  <2>1. /\ Memory'
        /\ at' = [at EXCEPT ![Closer] = at'[Closer]] /\ at'[Closer] \in {"after", "write"}
        /\ lane' \in [Procs -> Lanes]
        /\ batch' \in [Lanes -> SUBSET Entries]
        /\ flushing' \in [Lanes -> BOOLEAN]
        /\ writing' \in [Procs -> SUBSET Entries]
    BY <1>2, FlushMemory DEF queueVars
  <2>2. TypeOK'
    BY <1>2, <2>1 DEF queueVars, Point, TypeOK
  <2>3. Life'
    BY <1>2, <2>1 DEF TypeOK, Life
  <2>4. QED
    BY <2>1, <2>2, <2>3 DEF Memory
<1>3. CASE FinalFlush
  <2>1. at[Closer] = "idle"
    BY <1>3 DEF FinalFlush, Life
  <2>2. QED
    BY <1>2, <1>3, <2>1 DEF FinalFlush, Drained, Lanes
<1>4. CASE FinalFlushOn
  <2>1. at[Closer] = "after" /\ phase = "final" /\ \A w \in Slots : at[w] = "idle"
    BY <1>4 DEF FinalFlushOn, Life
  <2>2. CASE lane[Closer] = "history"
    BY <1>2, <1>4, <2>1, <2>2 DEF FinalFlushOn, Lanes
  <2>3. CASE lane[Closer] # "history"
    <3>1. /\ Goto(Closer, "idle", "history") /\ phase' = "stopped"
          /\ UNCHANGED <<queueVars, job, batch, flushing, writing, rows, stops, crashes>>
      BY <1>4, <2>3 DEF FinalFlushOn
    <3>2. TypeOK'
      BY <3>1 DEF Goto, queueVars, Point, Lanes, TypeOK
    <3>3. Memory'
      BY <2>1, <3>1, MoveMemory DEF queueVars, Point, Lanes
    <3>4. Life'
      BY <2>1, <3>1 DEF Goto, TypeOK, Life
    <3>5. QED
      BY <3>2, <3>3, <3>4 DEF Memory
  <2>4. QED
    BY <2>2, <2>3
<1>5. CASE WriteSucceeds(Closer) \/ WriteFails(Closer)
  <2>1. EndWrite(Closer) /\ (Written(writing[Closer]) \/ UNCHANGED rows)
    BY <1>5 DEF WriteSucceeds, WriteFails
  <2>2. Life'
    BY <2>1 DEF EndWrite, Goto, lifeVars, TypeOK, Life
  <2>3. QED
    BY <2>1, <2>2, WriteMemory DEF Memory
<1>6. QED
  BY <1>1, <1>3, <1>4, <1>5 DEF CloserStep

\* A restart keeps the invariant: what was in memory is gone, and an entry may
\* be written once more only if a crash has been counted.
LEMMA RestartInv ==
    ASSUME IInv, Exit \/ Crash
    PROVE  IInv'
<1> USE ProcsApart DEF IInv
<1>1. PICK reached \in SUBSET Procs : Restart(reached)
  BY DEF Exit, Crash
<1> DEFINE S == UNION {writing[p] : p \in reached}
           active == UNION {job[w] : w \in Slots}
<1>2. S \subseteq InFlight /\ InFlight \subseteq Entries /\ active \subseteq Entries
  BY DEF InFlight, TypeOK
<1>3. crashes' \in Nat /\ crashes' >= crashes /\ (crashes' = crashes => active = {})
  <2>1. CASE Exit
    <3>1. \A w \in Slots : job[w] = {}
      BY <2>1 DEF Exit, Life
    <3>2. QED
      BY <2>1, <3>1 DEF Exit, TypeOK
  <2>2. CASE Crash
    BY <2>2 DEF Crash, TypeOK
  <2>3. QED
    BY <2>1, <2>2
<1>4. /\ rows' = [e \in Entries |-> IF e \in S THEN rows[e] + 1 ELSE rows[e]]
      /\ stalled' = stalled \cup active
      /\ UNCHANGED <<fresh, waiting, stops>>
  BY <1>1 DEF Restart, Written
<1>5. TypeOK'
  <2>1. /\ rows' \in [Entries -> Nat]
        /\ stalled' \in SUBSET Entries /\ fresh' \in SUBSET Entries /\ waiting' \in SUBSET Entries
        /\ stops' \in Nat /\ crashes' \in Nat
    BY <1>2, <1>3, <1>4 DEF TypeOK
  <2>2. /\ at' \in [Procs -> Point] /\ lane' \in [Procs -> Lanes]
        /\ job' \in [Slots -> SUBSET Entries] /\ writing' \in [Procs -> SUBSET Entries]
        /\ batch' \in [Lanes -> SUBSET Entries] /\ flushing' \in [Lanes -> BOOLEAN]
        /\ phase' = "up"
    BY <1>1 DEF Restart, Empty, Point, Lanes
  <2>3. QED
    BY <2>1, <2>2 DEF TypeOK
<1>6. Held' = {} /\ InFlight' = {}
  BY <1>1 DEF Restart, Empty, Held, InFlight
<1>7. OneFlushPerLane' /\ HeldOnce'
  BY <1>1, <1>6 DEF Restart, Empty, OneFlushPerLane, HeldOnce
<1>8. OneJob'
  BY <1>1, <1>4 DEF Restart, OneJob
<1>9. Life'
  BY <1>1 DEF Restart, Life
<1>10. \A e \in Entries : /\ rows[e] \in Nat /\ crashes \in Nat
                          /\ rows[e] + (IF e \in Held \cup waiting \cup fresh THEN 1 ELSE 0) =< 1 + crashes
                          /\ e \in S => e \in Held /\ e \notin waiting \cup fresh \cup stalled
  BY <1>2 DEF TypeOK, StoredOnce, HeldOnce, Held
<1>11. StoredOnce'
  BY <1>3, <1>4, <1>6, <1>10 DEF StoredOnce
<1>12. StalledRows'
  <2>1. ASSUME NEW e \in stalled
        PROVE  rows'[e] =< crashes'
    BY <1>3, <1>4, <1>10, <2>1 DEF StalledRows, TypeOK
  <2>2. ASSUME NEW e \in active
        PROVE  rows'[e] =< crashes'
    <3>1. crashes' >= crashes + 1
      BY <1>3, <2>2 DEF TypeOK
    <3>2. rows'[e] =< 1 + crashes
      BY <1>2, <1>4, <1>10
    <3>3. e \in Entries /\ rows'[e] \in Nat
      BY <1>2, <1>5 DEF TypeOK
    <3>4. QED
      BY <1>3, <3>1, <3>2, <3>3, <1>10
  <2>3. QED
    BY <1>4, <2>1, <2>2 DEF StalledRows
<1>13. QED
  BY <1>5, <1>7, <1>8, <1>9, <1>11, <1>12

\* The queue keeps it: adding jobs and handing out stalled ones.
LEMMA QueueInv ==
    ASSUME IInv, Add \/ \E e \in Entries : Redeliver(e)
    PROVE  IInv'
<1> USE DEF IInv
<1>1. CASE Add
  <2>1. PICK S \in SUBSET fresh : fresh' = fresh \ S /\ waiting' = waiting \cup S
    BY <1>1 DEF Add
  <2>2. UNCHANGED <<stalled, job, at, lane, batch, flushing, writing, rows, lifeVars>>
    BY <1>1 DEF Add
  <2>3. waiting' \cup fresh' = waiting \cup fresh
    BY <2>1
  <2>4. Held' = Held /\ InFlight' = InFlight
    BY <2>2 DEF Held, InFlight
  <2>5. TypeOK'
    BY <2>1, <2>2 DEF lifeVars, TypeOK
  <2>6. OneFlushPerLane' /\ Life'
    BY <2>2 DEF lifeVars, OneFlushPerLane, Life
  <2>7. HeldOnce'
    BY <2>2, <2>3, <2>4 DEF HeldOnce
  <2>8. OneJob'
    BY <2>1, <2>2 DEF OneJob
  <2>9. StoredOnce' /\ StalledRows'
    <3>1. Held' \cup waiting' \cup fresh' = Held \cup waiting \cup fresh
      BY <2>3, <2>4
    <3>2. QED
      BY <2>2, <3>1 DEF lifeVars, StoredOnce, StalledRows
  <2>10. QED
    BY <2>5, <2>6, <2>7, <2>8, <2>9
<1>2. ASSUME NEW e \in Entries, Redeliver(e)
      PROVE  IInv'
  <2>1. /\ e \in stalled /\ stalled' = stalled \ {e}
        /\ waiting' = waiting \cup {e} \/ waiting' = waiting
        /\ UNCHANGED <<fresh, job, at, lane, batch, flushing, writing, rows, lifeVars>>
    BY <1>2 DEF Redeliver
  <2>2. Held' = Held /\ InFlight' = InFlight
    BY <2>1 DEF Held, InFlight
  <2>3. TypeOK'
    BY <2>1 DEF lifeVars, TypeOK
  <2>4. OneFlushPerLane' /\ Life'
    BY <2>1 DEF lifeVars, OneFlushPerLane, Life
  <2>5. HeldOnce'
    BY <2>1, <2>2 DEF HeldOnce
  <2>6. OneJob'
    BY <2>1 DEF OneJob
  <2>7. StoredOnce'
    <3>1. e \notin Held /\ rows[e] =< crashes /\ rows[e] \in Nat /\ crashes \in Nat
      BY <2>1 DEF HeldOnce, StalledRows, TypeOK
    <3>2. ASSUME NEW f \in Entries
          PROVE  rows'[f] + (IF f \in Held' \cup waiting' \cup fresh' THEN 1 ELSE 0) =< 1 + crashes'
      <4>1. CASE f = e
        BY <2>1, <3>1, <4>1 DEF lifeVars
      <4>2. CASE f # e
        <5>1. f \in Held' \cup waiting' \cup fresh' => f \in Held \cup waiting \cup fresh
          BY <2>1, <2>2, <4>2
        <5>2. rows[f] \in Nat /\ crashes \in Nat
          BY DEF TypeOK
        <5>3. QED
          BY <2>1, <5>1, <5>2 DEF lifeVars, StoredOnce
      <4>3. QED
        BY <4>1, <4>2
    <3>3. QED
      BY <3>2 DEF StoredOnce
  <2>8. StalledRows'
    BY <2>1 DEF lifeVars, StalledRows
  <2>9. QED
    BY <2>3, <2>4, <2>5, <2>6, <2>7, <2>8
<1>3. QED
  BY <1>1, <1>2

\* So every step keeps the inductive invariant.
LEMMA NextIInv == IInv /\ [Next]_vars => IInv'
<1> SUFFICES ASSUME IInv, [Next]_vars PROVE IInv'
  OBVIOUS
<1>1. CASE UNCHANGED vars
  BY <1>1 DEF vars, IInv, TypeOK, OneFlushPerLane, HeldOnce, Held, InFlight, OneJob,
              StoredOnce, StalledRows, Life
<1>2. QED
  BY <1>1, SlotInv, TickInv, CloserInv, RestartInv, QueueInv DEF Next

-----------------------------------------------------------------------------
(* How far a batch may grow *)

\* process() of slot w is to flush batch l, unless it finds it below its limit
\* by then: it waits for the batch or is about to flush it, or it is on its way
\* to the utility batch past the other one.
OnWay(w, l) ==
    \/ at[w] \in {"wait", "flush"} /\ lane[w] = l
    \/ l = "utility" /\ lane[w] = "history" /\ at[w] \in {"wait", "flush", "write", "after"}

\* The slots whose own entry is in batch l and that are to flush it.
Pushers(l) == {w \in Slots : job[w] # {} /\ job[w] \subseteq batch[l] /\ OnWay(w, l)}

\* Every entry of a batch beyond its limit belongs to such a slot, and a slot
\* about to flush the batch its entry is in will not skip it.
Bounded ==
    /\ \A l \in Lanes :
          /\ IsFiniteSet(batch[l])
          /\ Cardinality(batch[l]) < BatchSize + Cardinality(Pushers(l))
    /\ \A w \in Slots : at[w] = "flush" /\ job[w] \cap batch[lane[w]] # {} => ~flushing[lane[w]]

\* A batch that did not grow is within its bound if its slots are still to
\* flush it, or if it is below its limit or empty.
LEMMA StillBounded ==
    ASSUME IInv, Bounded, NEW l \in Lanes,
           \/ batch'[l] = {}
           \/ /\ batch'[l] = batch[l]
              /\ Cardinality(batch[l]) < BatchSize \/ Pushers(l) \subseteq Pushers(l)'
    PROVE  IsFiniteSet(batch[l])' /\ Cardinality(batch'[l]) < BatchSize + Cardinality(Pushers(l)')
<1>1. IsFiniteSet(Pushers(l)) /\ IsFiniteSet(Pushers(l)')
  BY FS_Subset, StorageAssumption DEF Pushers
<1>2. Cardinality(Pushers(l)) \in Nat /\ Cardinality(Pushers(l)') \in Nat /\ BatchSize \in Nat \ {0}
  BY <1>1, FS_CardinalityType, StorageAssumption
<1>3. CASE batch'[l] = {}
  BY <1>2, <1>3, FS_EmptySet
<1>4. CASE batch'[l] = batch[l]
  <2>1. IsFiniteSet(batch[l]) /\ Cardinality(batch[l]) \in Nat
    BY FS_CardinalityType DEF Bounded
  <2>2. CASE Cardinality(batch[l]) < BatchSize
    BY <1>2, <1>4, <2>1, <2>2
  <2>3. CASE Pushers(l) \subseteq Pushers(l)'
    <3>1. Cardinality(Pushers(l)) =< Cardinality(Pushers(l)')
      BY <1>1, <2>3, FS_Subset
    <3>2. Cardinality(batch[l]) < BatchSize + Cardinality(Pushers(l))
      BY DEF Bounded
    <3>3. QED
      BY <1>2, <1>4, <2>1, <3>1, <3>2
  <2>4. QED
    BY <1>3, <1>4, <2>2, <2>3
<1>5. QED
  BY <1>3, <1>4

\* A slot that leaves nothing it is to flush, or another process, keeps the
\* bound while it moves between points that are no flush.
LEMMA MoveBounded ==
    ASSUME IInv, Bounded, NEW p \in Procs, NEW point \in Point, NEW k \in Lanes,
           Goto(p, point, k), UNCHANGED <<batch, job>>,
           \A l \in Lanes : p \in Pushers(l) => p \in Pushers(l)' \/ Cardinality(batch[l]) < BatchSize,
           \A l \in Lanes : flushing'[l] => flushing[l],
           p \in Slots /\ point = "flush" => ~flushing'[k]
    PROVE  Bounded'
<1>1. /\ at'[p] = point /\ lane'[p] = k
      /\ \A q \in Procs \ {p} : at'[q] = at[q] /\ lane'[q] = lane[q]
  BY DEF IInv, TypeOK, Goto
<1>2. ASSUME NEW l \in Lanes
      PROVE  IsFiniteSet(batch[l])' /\ Cardinality(batch'[l]) < BatchSize + Cardinality(Pushers(l)')
  <2>1. \A w \in Slots \ {p} : w \in Pushers(l) => w \in Pushers(l)'
    BY <1>1, ProcsApart DEF Pushers, OnWay
  <2>2. Cardinality(batch[l]) < BatchSize \/ Pushers(l) \subseteq Pushers(l)'
    BY <2>1 DEF Pushers
  <2>3. QED
    BY <2>2, StillBounded
<1>3. ASSUME NEW w \in Slots, at'[w] = "flush", job'[w] \cap batch'[lane'[w]] # {}
      PROVE  ~flushing'[lane'[w]]
  <2>1. CASE w = p
    BY <1>1, <1>3, <2>1
  <2>2. CASE w # p
    BY <1>1, <1>3, <2>2, ProcsApart DEF Bounded, IInv, TypeOK
  <2>3. QED
    BY <2>1, <2>2
<1>4. QED
  BY <1>2, <1>3 DEF Bounded

\* A flush keeps the bound: it empties the batch, or skips one that its caller
\* is not the one to flush.
LEMMA FlushBounded ==
    ASSUME IInv, Bounded, NEW p \in Procs, at[p] # "write", NEW k \in Lanes, Flush(p, k),
           UNCHANGED job, p \in Slots => at[p] = "flush" /\ lane[p] = k
    PROVE  Bounded'
<1>1. /\ at'[p] \in {"after", "write"} /\ lane'[p] = k
      /\ \A q \in Procs \ {p} : at'[q] = at[q] /\ lane'[q] = lane[q]
  BY DEF IInv, TypeOK, Flush, Goto
<1>2. CASE Skips(k)
  <2>1. Goto(p, "after", k) /\ UNCHANGED <<flushing, writing, batch>>
    BY <1>2 DEF Flush
  <2>2. ASSUME p \in Slots
        PROVE  p \notin Pushers(k)
    <3>1. batch[k] = {} => p \notin Pushers(k)
      BY DEF Pushers
    <3>2. p \in Pushers(k) => job[p] \cap batch[k] # {}
      BY DEF Pushers
    <3>3. QED
      BY <1>2, <2>2, <3>1, <3>2 DEF Skips, Bounded
  <2>3. ASSUME NEW l \in Lanes, p \in Pushers(l)
        PROVE  p \in Pushers(l)'
    <3>1. p \in Slots /\ l # k
      BY <2>2, <2>3 DEF Pushers
    <3>2. l = "utility" /\ k = "history"
      BY <2>3, <3>1 DEF Pushers, OnWay
    <3>3. at'[p] = "after" /\ job' = job /\ batch' = batch
      BY <2>1, <1>1 DEF Goto, IInv, TypeOK
    <3>4. QED
      BY <1>1, <2>3, <3>1, <3>2, <3>3 DEF Pushers, OnWay
  <2>4. QED
    BY <2>1, <2>3, MoveBounded DEF Point
<1>3. CASE ~Skips(k)
  <2>1. /\ batch' = [batch EXCEPT ![k] = {}] /\ flushing' = [flushing EXCEPT ![k] = TRUE]
        /\ at'[p] = "write"
    BY <1>3 DEF Flush, Reset, Goto, IInv, TypeOK
  <2>2. batch'[k] = {} /\ \A l \in Lanes \ {k} : batch'[l] = batch[l] /\ flushing'[l] = flushing[l]
    BY <2>1 DEF IInv, TypeOK
  <2>3. ASSUME NEW l \in Lanes \ {k}
        PROVE  Pushers(l) \subseteq Pushers(l)'
    BY <1>1, <2>1, <2>2, ProcsApart DEF Pushers, OnWay, Lanes
  <2>4. \A l \in Lanes : IsFiniteSet(batch[l])' /\ Cardinality(batch'[l]) < BatchSize + Cardinality(Pushers(l)')
    BY <2>2, <2>3, StillBounded
  <2>5. \A w \in Slots : at'[w] = "flush" /\ job'[w] \cap batch'[lane'[w]] # {} => ~flushing'[lane'[w]]
    <3>1. ASSUME NEW w \in Slots, at'[w] = "flush", job'[w] \cap batch'[lane'[w]] # {}
          PROVE  ~flushing'[lane'[w]]
      <4>1. w # p /\ lane'[w] = lane[w] /\ at[w] = "flush" /\ lane[w] \in Lanes
        BY <1>1, <2>1, <3>1, ProcsApart DEF IInv, TypeOK
      <4>2. lane[w] # k
        BY <2>2, <3>1, <4>1
      <4>3. QED
        BY <2>2, <3>1, <4>1, <4>2 DEF Bounded
    <3>2. QED
      BY <3>1
  <2>6. QED
    BY <2>4, <2>5 DEF Bounded
<1>4. QED
  BY <1>2, <1>3

\* A slot that fills a batch is from then on to flush it.
LEMMA TakeJobBounded ==
    ASSUME IInv, Bounded, NEW w \in Slots, TakeJob(w)
    PROVE  Bounded'
<1> USE ProcsApart
<1>1. PICK e \in waiting :
        /\ waiting' = waiting \ {e}
        /\ job' = [job EXCEPT ![w] = {e}]
        /\ batch' = [batch EXCEPT ![LaneOf[e]] = @ \cup {e}]
  BY DEF TakeJob, Push
<1>2. /\ LookAt(w, "history", batch') /\ flushing' = flushing
      /\ at[w] = "idle" /\ e \in Entries /\ LaneOf[e] \in Lanes
  BY <1>1, StorageAssumption DEF TakeJob, IInv, TypeOK
<1>3. /\ \A q \in Procs \ {w} : at'[q] = at[q] /\ lane'[q] = lane[q]
      /\ job'[w] = {e} /\ \A v \in Slots \ {w} : job'[v] = job[v]
      /\ \A v \in Slots \ {w} : e \notin job[v]
  BY <1>1, <1>2 DEF LookAt, Goto, IInv, TypeOK, OneJob
<1>4. e \notin batch[LaneOf[e]]
  BY <1>1, <1>2 DEF IInv, HeldOnce, Held
<1>5. \A l \in Lanes : batch'[l] = IF l = LaneOf[e] THEN batch[l] \cup {e} ELSE batch[l]
  BY <1>1, <1>2 DEF IInv, TypeOK
<1>6. \A l \in Lanes : Pushers(l) \subseteq Pushers(l)' /\ w \notin Pushers(l)
  BY <1>2, <1>3, <1>5 DEF Pushers, OnWay
<1>7. ASSUME NEW l \in Lanes
      PROVE  IsFiniteSet(batch[l])' /\ Cardinality(batch'[l]) < BatchSize + Cardinality(Pushers(l)')
  <2>1. CASE l # LaneOf[e]
    BY <1>5, <1>6, <2>1, StillBounded
  <2>2. CASE l = LaneOf[e]
    <3>1. /\ IsFiniteSet(batch[l]) /\ batch'[l] = batch[l] \cup {e} /\ e \notin batch[l]
          /\ Cardinality(batch[l]) < BatchSize + Cardinality(Pushers(l))
      BY <1>4, <1>5, <2>2 DEF Bounded
    <3>2. IsFiniteSet(batch'[l]) /\ Cardinality(batch'[l]) = Cardinality(batch[l]) + 1
      BY <3>1, FS_AddElement
    <3>3. IsFiniteSet(Pushers(l)) /\ IsFiniteSet(Pushers(l)')
      BY FS_Subset, StorageAssumption DEF Pushers
    <3>4. /\ Cardinality(Pushers(l)) \in Nat /\ Cardinality(Pushers(l)') \in Nat
          /\ Cardinality(batch[l]) \in Nat /\ BatchSize \in Nat \ {0}
      BY <3>1, <3>3, FS_CardinalityType, StorageAssumption
    <3>5. CASE ~IsFull(batch'[l])
      BY <3>2, <3>4, <3>5 DEF IsFull
    <3>6. CASE IsFull(batch'[l])
      <4>1. w \in Pushers(l)'
        <5>1. OnWay(w, l)'
          BY <1>2, <2>2, <3>6 DEF LookAt, Goto, OnWay, Lanes, IInv, TypeOK
        <5>2. QED
          BY <1>3, <3>1, <5>1 DEF Pushers
      <4>2. Cardinality(Pushers(l) \cup {w}) = Cardinality(Pushers(l)) + 1
        BY <1>6, <3>3, FS_AddElement
      <4>3. Cardinality(Pushers(l) \cup {w}) =< Cardinality(Pushers(l)')
        BY <1>6, <3>3, <4>1, FS_Subset
      <4>4. QED
        BY <3>1, <3>2, <3>4, <4>2, <4>3
    <3>7. QED
      BY <3>5, <3>6
  <2>3. QED
    BY <2>1, <2>2
<1>8. ASSUME NEW v \in Slots, at'[v] = "flush", job'[v] \cap batch'[lane'[v]] # {}
      PROVE  ~flushing'[lane'[v]]
  <2>1. CASE v = w
    BY <1>2, <1>8, <2>1 DEF LookAt, Goto, IInv, TypeOK
  <2>2. CASE v # w
    <3>1. /\ at[v] = "flush" /\ lane'[v] = lane[v] /\ lane[v] \in Lanes
          /\ job'[v] = job[v] /\ e \notin job[v]
      BY <1>3, <1>8, <2>2 DEF IInv, TypeOK
    <3>2. job[v] \cap batch[lane[v]] # {}
      BY <1>5, <1>8, <3>1
    <3>3. QED
      BY <1>2, <3>1, <3>2 DEF Bounded
  <2>3. QED
    BY <2>1, <2>2
<1>9. QED
  BY <1>7, <1>8 DEF Bounded

\* Every step keeps the bound.
LEMMA NextBounded == IInv /\ Bounded /\ [Next]_vars => Bounded'
<1> SUFFICES ASSUME IInv, Bounded, [Next]_vars PROVE Bounded'
  OBVIOUS
<1> USE ProcsApart
<1>1. ASSUME NEW p \in Procs, EndWrite(p)
      PROVE  Bounded'
  <2>1. /\ at[p] = "write" /\ lane[p] \in Lanes /\ Goto(p, "after", lane[p])
        /\ flushing' = [flushing EXCEPT ![lane[p]] = FALSE]
        /\ UNCHANGED <<batch, job>>
    BY <1>1 DEF EndWrite, IInv, TypeOK
  <2>2. \A l \in Lanes : flushing'[l] => flushing[l]
    BY <2>1 DEF IInv, TypeOK
  <2>3. at'[p] = "after" /\ lane'[p] = lane[p]
    BY <2>1 DEF Goto, IInv, TypeOK
  <2>4. \A l \in Lanes : p \in Pushers(l) => p \in Pushers(l)'
    BY <2>1, <2>3 DEF Pushers, OnWay
  <2>5. QED
    BY <2>1, <2>2, <2>4, MoveBounded DEF Point
<1>2. ASSUME NEW w \in Slots, SlotStep(w)
      PROVE  Bounded'
  <2>1. CASE TakeJob(w)
    BY <2>1, TakeJobBounded
  <2>2. CASE StopWaiting(w)
    <3>1. /\ at[w] = "wait" /\ ~flushing[lane[w]] /\ lane[w] \in Lanes
          /\ Goto(w, "flush", lane[w]) /\ UNCHANGED <<batch, job, flushing>>
      BY <2>2 DEF StopWaiting, IInv, TypeOK
    <3>2. at'[w] = "flush" /\ lane'[w] = lane[w]
      BY <3>1 DEF Goto, IInv, TypeOK
    <3>3. \A l \in Lanes : w \in Pushers(l) => w \in Pushers(l)'
      BY <3>1, <3>2 DEF Pushers, OnWay
    <3>4. QED
      BY <3>1, <3>3, MoveBounded DEF Point
  <2>3. CASE FlushFull(w)
    BY <2>3, FlushBounded DEF FlushFull, IInv, TypeOK
  <2>4. CASE Proceed(w)
    <3>1. at[w] = "after" /\ UNCHANGED <<batch, job, flushing>>
      BY <2>4 DEF Proceed
    <3>2. CASE lane[w] = "history"
      <4>1. LookAt(w, "utility", batch)
        BY <2>4, <3>2 DEF Proceed
      <4>2. PICK point \in {"wait", "flush", "complete"} :
                /\ Goto(w, point, "utility")
                /\ point = "flush" => ~flushing["utility"]
                /\ IsFull(batch["utility"]) => point \in {"wait", "flush"}
        BY <4>1 DEF LookAt
      <4>3. at'[w] = point /\ lane'[w] = "utility"
        BY <4>2 DEF Goto, IInv, TypeOK
      <4>4. ASSUME NEW l \in Lanes, w \in Pushers(l)
            PROVE  w \in Pushers(l)' \/ Cardinality(batch[l]) < BatchSize
        <5>1. l = "utility"
          BY <3>1, <4>4 DEF Pushers, OnWay
        <5>2. CASE IsFull(batch["utility"])
          BY <3>1, <4>2, <4>3, <4>4, <5>1, <5>2 DEF Pushers, OnWay
        <5>3. CASE ~IsFull(batch["utility"])
          <6>1. Cardinality(batch[l]) \in Nat /\ BatchSize \in Nat
            BY FS_CardinalityType, StorageAssumption DEF Bounded
          <6>2. QED
            BY <5>1, <5>3, <6>1 DEF IsFull
        <5>4. QED
          BY <5>2, <5>3
      <4>5. QED
        BY <3>1, <4>2, <4>4, MoveBounded DEF Point, Lanes
    <3>3. CASE lane[w] # "history"
      <4>1. Goto(w, "complete", "utility")
        BY <2>4, <3>3 DEF Proceed
      <4>2. \A l \in Lanes : w \notin Pushers(l)
        BY <3>1, <3>3 DEF Pushers, OnWay
      <4>3. QED
        BY <3>1, <4>1, <4>2, MoveBounded DEF Point, Lanes
    <3>4. QED
      BY <3>2, <3>3
  <2>5. CASE CompleteJob(w)
    <3>1. /\ at[w] = "complete" /\ Goto(w, "idle", "history")
          /\ job' = [job EXCEPT ![w] = {}] /\ UNCHANGED <<batch, flushing>>
      BY <2>5 DEF CompleteJob
    <3>2. /\ at'[w] = "idle" /\ job'[w] = {}
          /\ \A v \in Slots \ {w} : at'[v] = at[v] /\ lane'[v] = lane[v] /\ job'[v] = job[v]
      BY <3>1 DEF Goto, IInv, TypeOK
    <3>3. \A l \in Lanes : Pushers(l) \subseteq Pushers(l)'
      BY <3>1, <3>2 DEF Pushers, OnWay
    <3>4. \A l \in Lanes : IsFiniteSet(batch[l])' /\ Cardinality(batch'[l]) < BatchSize + Cardinality(Pushers(l)')
      BY <3>1, <3>3, StillBounded
    <3>5. \A v \in Slots : at'[v] = "flush" /\ job'[v] \cap batch'[lane'[v]] # {} => ~flushing'[lane'[v]]
      BY <3>1, <3>2 DEF Bounded
    <3>6. QED
      BY <3>4, <3>5 DEF Bounded
  <2>6. CASE WriteSucceeds(w) \/ WriteFails(w)
    BY <1>1, <2>6 DEF WriteSucceeds, WriteFails
  <2>7. QED
    BY <1>2, <2>1, <2>2, <2>3, <2>4, <2>5, <2>6 DEF SlotStep
<1>3. ASSUME NEW p \in Procs \ Slots, at[p] # "write", Goto(p, "idle", "history"),
             UNCHANGED <<batch, job, flushing>>
      PROVE  Bounded'
  <2>1. \A l \in Lanes : p \notin Pushers(l)
    BY DEF Pushers
  <2>2. QED
    BY <1>3, <2>1, MoveBounded DEF Point, Lanes
<1>4. ASSUME NEW t \in Ticks, Tick(t) \/ TickStep(t)
      PROVE  Bounded'
  <2>1. CASE Tick(t)
    BY <2>1, FlushBounded DEF Tick, Lanes
  <2>2. CASE TickOn(t)
    <3>1. CASE lane[t] = "history"
      BY <2>2, <3>1, FlushBounded DEF TickOn, Lanes
    <3>2. CASE lane[t] # "history"
      BY <1>3, <2>2, <3>2 DEF TickOn
    <3>3. QED
      BY <3>1, <3>2
  <2>3. CASE WriteSucceeds(t) \/ WriteFails(t)
    BY <1>1, <2>3 DEF WriteSucceeds, WriteFails
  <2>4. QED
    BY <1>4, <2>1, <2>2, <2>3 DEF TickStep
<1>5. CASE CloserStep
  <2>1. CASE FinalFlush
    <3>1. at[Closer] # "write"
      BY <2>1 DEF FinalFlush, IInv, Life
    <3>2. QED
      BY <2>1, <3>1, FlushBounded DEF FinalFlush, Lanes
  <2>2. CASE FinalFlushOn
    <3>1. CASE lane[Closer] = "history"
      BY <2>2, <3>1, FlushBounded DEF FinalFlushOn, Lanes
    <3>2. CASE lane[Closer] # "history"
      BY <1>3, <2>2, <3>2 DEF FinalFlushOn
    <3>3. QED
      BY <3>1, <3>2
  <2>3. CASE WriteSucceeds(Closer) \/ WriteFails(Closer)
    BY <1>1, <2>3 DEF WriteSucceeds, WriteFails
  <2>4. QED
    BY <1>5, <2>1, <2>2, <2>3 DEF CloserStep
<1>6. CASE Exit \/ Crash
  <2>1. PICK reached \in SUBSET Procs : Restart(reached)
    BY <1>6 DEF Exit, Crash
  <2>2. \A l \in Lanes : batch'[l] = {}
    BY <2>1 DEF Restart, Empty
  <2>3. \A w \in Slots : at'[w] = "idle"
    BY <2>1 DEF Restart
  <2>4. QED
    BY <2>2, <2>3, StillBounded DEF Bounded
<1>7. CASE UNCHANGED <<job, at, lane, batch, flushing>>
  BY <1>7 DEF Bounded, Pushers, OnWay
<1>8. QED
  BY <1>2, <1>4, <1>5, <1>6, <1>7 DEF Next, vars, Shutdown, Add, Redeliver, queueVars

\* The bound of a batch follows: a slot that is to flush runs a job.
LEMMA BoundedBatch == Bounded => BatchBounded
<1> SUFFICES ASSUME Bounded, NEW l \in Lanes
             PROVE  Cardinality(batch[l]) < BatchSize + Cardinality({w \in Slots : job[w] # {}})
  BY DEF BatchBounded
<1> DEFINE Busy == {w \in Slots : job[w] # {}}
<1>1. IsFiniteSet(Busy) /\ Pushers(l) \subseteq Busy
  BY FS_Subset, StorageAssumption DEF Pushers
<1>2. Cardinality(Pushers(l)) =< Cardinality(Busy) /\ IsFiniteSet(Pushers(l))
  BY <1>1, FS_Subset
<1>3. /\ Cardinality(batch[l]) < BatchSize + Cardinality(Pushers(l))
      /\ Cardinality(batch[l]) \in Nat
  BY FS_CardinalityType DEF Bounded
<1>4. Cardinality(Pushers(l)) \in Nat /\ Cardinality(Busy) \in Nat /\ BatchSize \in Nat
  BY <1>1, <1>2, FS_CardinalityType, StorageAssumption
<1>5. QED
  BY <1>2, <1>3, <1>4

-----------------------------------------------------------------------------
(* The worker implements HistoryDelivery *)

Active == UNION {job[w] : w \in Slots}
Buffer == [l \in Lanes |-> batch[l] \cup UNION {writing[p] : p \in {q \in Procs : lane[q] = l}}]

\* What HistoryDelivery has in the buffer of a lane is what the worker holds
\* for the table of that lane, in the batch or on its way to the database.
LEMMA BufferIsHeld == IInv => Buffer = [l \in Lanes |-> {e \in Held : LaneOf[e] = l}]
<1> SUFFICES ASSUME IInv, NEW l \in Lanes
             PROVE  Buffer[l] = {e \in Held : LaneOf[e] = l}
  BY DEF Buffer
<1>1. ASSUME NEW e \in Buffer[l]
      PROVE  e \in Held /\ LaneOf[e] = l
  <2>1. CASE e \in batch[l]
    BY <2>1 DEF IInv, HeldOnce, Held
  <2>2. CASE e \notin batch[l]
    <3>1. PICK p \in Procs : lane[p] = l /\ e \in writing[p]
      BY <1>1, <2>2 DEF Buffer
    <3>2. QED
      BY <3>1 DEF IInv, HeldOnce, Held, InFlight
  <2>3. QED
    BY <2>1, <2>2
<1>2. ASSUME NEW e \in Held, LaneOf[e] = l
      PROVE  e \in Buffer[l]
  <2>1. CASE e \in InFlight
    <3>1. PICK p \in Procs : e \in writing[p]
      BY <2>1 DEF InFlight
    <3>2. lane[p] = l
      BY <1>2, <3>1 DEF IInv, HeldOnce
    <3>3. QED
      BY <3>1, <3>2 DEF Buffer
  <2>2. CASE e \notin InFlight
    <3>1. PICK k \in Lanes : e \in batch[k]
      BY <2>2 DEF Held
    <3>2. k = l
      BY <1>2, <3>1 DEF IInv, HeldOnce
    <3>3. QED
      BY <3>1, <3>2 DEF Buffer
  <2>3. QED
    BY <2>1, <2>2
<1>3. QED
  BY <1>1, <1>2

\* The same of the state after a step.
LEMMA BufferIsHeldNext == IInv' => (Buffer = [l \in Lanes |-> {e \in Held : LaneOf[e] = l}])'
BY BufferIsHeld, PTL

\* A step that only moves a process, or hands it a batch, is a stutter.
LEMMA StepsStutter ==
    ASSUME IInv, IInv', Held' = Held, UNCHANGED <<fresh, waiting, stalled, job, rows>>
    PROVE  UNCHANGED Delivery!vars
<1>1. Buffer' = Buffer
  BY BufferIsHeld, BufferIsHeldNext
<1>2. Active' = Active
  BY DEF Active
<1>3. QED
  BY <1>1, <1>2 DEF Delivery!vars, Active, Buffer

\* Writing or dropping a part of a lane's buffer is a step of HistoryDelivery.
LEMMA WritesAreSteps ==
    ASSUME NEW k \in Lanes, NEW T \in SUBSET Buffer[k], Delivery!Write(k, T) \/ Delivery!Drop(k, T)
    PROVE  Delivery!Next
BY DEF Delivery!Next, Delivery!Lanes, Lanes, Buffer

\* So is a crash that leaves a part of the buffers written.
LEMMA CrashesAreSteps ==
    ASSUME NEW T \in SUBSET UNION {Buffer[l] : l \in Lanes}, Delivery!Crash(T)
    PROVE  Delivery!Next
BY DEF Delivery!Next, Delivery!Lanes, Lanes, Buffer

\* The end of a write is a Write of the batch that was written, or a Drop.
LEMMA EndOfWrite ==
    ASSUME IInv, IInv', NEW p \in Procs, EndWrite(p), Written(writing[p]) \/ UNCHANGED rows
    PROVE  Delivery!Next
<1>0. PICK l, S : l = lane[p] /\ S = writing[p]
  OBVIOUS
<1>1. /\ l \in Lanes /\ UNCHANGED <<fresh, waiting, stalled, job>>
      /\ \A e \in S : LaneOf[e] = l /\ e \in Held
  BY <1>0 DEF IInv, TypeOK, HeldOnce, Held, InFlight, EndWrite, queueVars
<1>2. Held' = Held \ S
  BY <1>0, WriteMemory
<1>3. Buffer = [k \in Lanes |-> {e \in Held : LaneOf[e] = k}]
  BY BufferIsHeld
<1>4. Buffer' = [k \in Lanes |-> {e \in Held' : LaneOf[e] = k}]
  BY BufferIsHeldNext
<1>5. Buffer' = [Buffer EXCEPT ![l] = @ \ S]
  <2>1. \A k \in Lanes : Buffer'[k] = IF k = l THEN Buffer[k] \ S ELSE Buffer[k]
    BY <1>1, <1>2, <1>3, <1>4
  <2>2. QED
    <3>1. Buffer' = [k \in Lanes |-> Buffer'[k]] /\ Buffer = [k \in Lanes |-> Buffer[k]]
      BY <1>3, <1>4
    <3>2. Buffer' = [k \in Lanes |-> IF k = l THEN Buffer[k] \ S ELSE Buffer[k]]
      BY <2>1, <3>1, Zenon
    <3>3. QED
      BY <1>1, <3>1, <3>2
<1>6. S \in SUBSET Buffer[l] /\ Active' = Active
  BY <1>1, <1>3 DEF Active
<1>7. Delivery!Write(l, S) \/ Delivery!Drop(l, S)
  <2>1. CASE Written(S)
    BY <1>1, <1>5, <1>6, <2>1 DEF Delivery!Write, Delivery!Written, Written, Active, Buffer
  <2>2. CASE UNCHANGED rows
    BY <1>1, <1>5, <1>6, <2>2 DEF Delivery!Drop, Active, Buffer
  <2>3. QED
    BY <1>0, <2>1, <2>2
<1>8. QED
  BY <1>1, <1>6, <1>7, WritesAreSteps

\* Taking a job is an Accept: the entry goes to the buffer of its lane.
LEMMA TakesAccept ==
    ASSUME IInv, IInv', NEW w \in Slots, TakeJob(w)
    PROVE  Delivery!Next
<1>1. PICK e \in waiting :
        /\ waiting' = waiting \ {e}
        /\ job' = [job EXCEPT ![w] = {e}]
        /\ batch' = [batch EXCEPT ![LaneOf[e]] = @ \cup {e}]
  BY DEF TakeJob, Push
<1>2. /\ UNCHANGED <<fresh, stalled, writing, rows>>
      /\ job[w] = {} /\ e \in Entries /\ LaneOf[e] \in Lanes
  BY <1>1, StorageAssumption DEF TakeJob, IInv, Life, TypeOK
<1>3. Held' = Held \cup {e}
  <2>1. \A l \in Lanes : batch'[l] = IF l = LaneOf[e] THEN batch[l] \cup {e} ELSE batch[l]
    BY <1>1, <1>2 DEF IInv, TypeOK
  <2>2. \A f : (\E l \in Lanes : f \in batch'[l]) <=> (\E l \in Lanes : f \in batch[l]) \/ f = e
    BY <1>2, <2>1
  <2>3. InFlight' = InFlight
    BY <1>2 DEF InFlight
  <2>4. QED
    BY <2>2, <2>3 DEF Held
<1>4. Active' = Active \cup {e}
  <2>1. \A v \in Slots : job'[v] = IF v = w THEN {e} ELSE job[v]
    BY <1>1 DEF IInv, TypeOK
  <2>2. \A f : (\E v \in Slots : f \in job'[v]) <=> (\E v \in Slots : f \in job[v]) \/ f = e
    BY <1>2, <2>1
  <2>3. QED
    BY <2>2 DEF Active
<1>5. Buffer = [k \in Lanes |-> {f \in Held : LaneOf[f] = k}]
  BY BufferIsHeld
<1>6. Buffer' = [k \in Lanes |-> {f \in Held' : LaneOf[f] = k}]
  BY BufferIsHeldNext
<1>7. Buffer' = [Buffer EXCEPT ![LaneOf[e]] = @ \cup {e}]
  <2>1. \A k \in Lanes : Buffer'[k] = IF k = LaneOf[e] THEN Buffer[k] \cup {e} ELSE Buffer[k]
    BY <1>3, <1>5, <1>6
  <2>2. QED
    <3>1. Buffer' = [k \in Lanes |-> Buffer'[k]] /\ Buffer = [k \in Lanes |-> Buffer[k]]
      BY <1>5, <1>6
    <3>2. Buffer' = [k \in Lanes |-> IF k = LaneOf[e] THEN Buffer[k] \cup {e} ELSE Buffer[k]]
      BY <2>1, <3>1, Zenon
    <3>3. QED
      BY <1>2, <3>1, <3>2
<1>8. Delivery!Accept(e)
  BY <1>1, <1>2, <1>4, <1>7 DEF Delivery!Accept, Active, Buffer
<1>9. QED
  BY <1>8 DEF Delivery!Next

\* The end of a job is a Complete.
LEMMA JobsComplete ==
    ASSUME IInv, IInv', NEW w \in Slots, CompleteJob(w)
    PROVE  Delivery!Next \/ UNCHANGED Delivery!vars
<1>1. /\ job' = [job EXCEPT ![w] = {}]
      /\ UNCHANGED <<fresh, waiting, stalled, batch, writing, rows>>
  BY DEF CompleteJob, queueVars
<1>2. Held' = Held
  BY <1>1 DEF Held, InFlight
<1>3. Buffer' = Buffer
  BY <1>2, BufferIsHeld, BufferIsHeldNext
<1>4. CASE job[w] = {}
  <2>1. job' = job
    BY <1>1, <1>4 DEF IInv, TypeOK
  <2>2. QED
    BY <1>1, <1>2, <2>1, StepsStutter
<1>5. CASE job[w] # {}
  <2>1. PICK e : job[w] = {e}
    BY <1>5 DEF IInv, OneJob
  <2>2. \A v \in Slots : job'[v] = job[v] \ {e}
    <3>1. \A v \in Slots : v # w => e \notin job[v]
      BY <2>1 DEF IInv, OneJob
    <3>2. QED
      BY <1>1, <2>1, <3>1 DEF IInv, TypeOK
  <2>3. Active' = Active \ {e} /\ e \in Active
    <3>1. \A f : (\E v \in Slots : f \in job'[v]) <=> (\E v \in Slots : f \in job[v]) /\ f # e
      BY <2>2
    <3>2. QED
      BY <2>1, <3>1 DEF Active
  <2>4. Delivery!Complete(e)
    BY <1>1, <1>3, <2>3 DEF Delivery!Complete, Active, Buffer
  <2>5. QED
    BY <2>3, <2>4 DEF Delivery!Next, Active
<1>6. QED
  BY <1>4, <1>5

\* The end of the process is a Crash.
LEMMA RestartsCrash ==
    ASSUME IInv, IInv', NEW reached \in SUBSET Procs, Restart(reached)
    PROVE  Delivery!Next
<1>0. PICK S : S = UNION {writing[p] : p \in reached}
  OBVIOUS
<1>1. Buffer = [k \in Lanes |-> {e \in Held : LaneOf[e] = k}]
  BY BufferIsHeld
<1>2. S \in SUBSET UNION {Buffer[l] : l \in Lanes}
  <2>1. ASSUME NEW e \in S
        PROVE  \E l \in Lanes : e \in Buffer[l]
    <3>1. PICK p \in Procs : e \in writing[p]
      BY <1>0
    <3>2. e \in Held /\ LaneOf[e] = lane[p] /\ lane[p] \in Lanes
      BY <3>1 DEF Held, InFlight, IInv, HeldOnce, TypeOK
    <3>3. QED
      BY <1>1, <3>2
  <2>2. QED
    BY <2>1
<1>3. Held' = {} /\ Active' = {}
  BY DEF Restart, Empty, Held, InFlight, Active
<1>4. Buffer' = [l \in Lanes |-> {}]
  <2>1. Buffer' = [k \in Lanes |-> {e \in Held' : LaneOf[e] = k}]
    BY BufferIsHeldNext
  <2>2. QED
    BY <1>3, <2>1
<1>5. Delivery!Crash(S)
  <2>1. /\ Written(S) /\ stalled' = stalled \cup Active
        /\ UNCHANGED <<fresh, waiting>>
    BY <1>0 DEF Restart, Active
  <2>2. QED
    BY <1>3, <1>4, <2>1 DEF Delivery!Crash, Delivery!Written, Delivery!Lanes, Written, Lanes, Active, Buffer
<1>6. QED
  BY <1>2, <1>5, CrashesAreSteps

\* A call of flush is a stutter.
LEMMA FlushesStutter ==
    ASSUME IInv, IInv', NEW p \in Procs, at[p] # "write", NEW l \in Lanes, Flush(p, l),
           UNCHANGED <<fresh, waiting, stalled, job, rows, crashes>>
    PROVE  UNCHANGED Delivery!vars
<1>1. Held' = Held
  BY FlushMemory
<1>2. QED
  BY <1>1, StepsStutter

\* Every step of the worker is a step of HistoryDelivery or a stutter.
LEMMA StepsDeliver ==
    ASSUME IInv, IInv', [Next]_vars
    PROVE  [Delivery!Next]_(Delivery!vars)
<1> USE ProcsApart
<1>1. ASSUME NEW p \in Procs, WriteSucceeds(p) \/ WriteFails(p)
      PROVE  Delivery!Next
  BY <1>1, EndOfWrite DEF WriteSucceeds, WriteFails
<1>2. ASSUME UNCHANGED <<fresh, waiting, stalled, job, batch, writing, rows>>
      PROVE  UNCHANGED Delivery!vars
  BY <1>2, StepsStutter DEF Held, InFlight
<1>3. ASSUME NEW w \in Slots, SlotStep(w)
      PROVE  Delivery!Next \/ UNCHANGED Delivery!vars
  <2>1. CASE TakeJob(w)
    BY <2>1, TakesAccept
  <2>2. CASE StopWaiting(w)
    BY <1>2, <2>2 DEF StopWaiting, queueVars
  <2>3. CASE FlushFull(w)
    <3>1. at[w] = "flush" /\ lane[w] \in Lanes
      BY <2>3 DEF FlushFull, IInv, TypeOK
    <3>2. QED
      BY <2>3, <3>1, FlushesStutter DEF FlushFull, queueVars, lifeVars
  <2>4. CASE Proceed(w)
    BY <1>2, <2>4 DEF Proceed, queueVars
  <2>5. CASE CompleteJob(w)
    BY <2>5, JobsComplete
  <2>6. QED
    BY <1>1, <1>3, <2>1, <2>2, <2>3, <2>4, <2>5 DEF SlotStep
<1>4. ASSUME NEW t \in Ticks, Tick(t) \/ TickStep(t)
      PROVE  Delivery!Next \/ UNCHANGED Delivery!vars
  <2>1. CASE Tick(t)
    BY <2>1, FlushesStutter DEF Tick, queueVars, lifeVars, Lanes
  <2>2. CASE TickOn(t)
    <3>1. CASE lane[t] = "history"
      BY <2>2, <3>1, FlushesStutter DEF TickOn, queueVars, lifeVars, Lanes
    <3>2. CASE lane[t] # "history"
      BY <1>2, <2>2, <3>2 DEF TickOn, queueVars
    <3>3. QED
      BY <3>1, <3>2
  <2>3. QED
    BY <1>1, <1>4, <2>1, <2>2 DEF TickStep
<1>5. CASE CloserStep
  <2>1. CASE FinalFlush
    <3>1. at[Closer] # "write"
      BY <2>1 DEF FinalFlush, IInv, Life
    <3>2. QED
      BY <2>1, <3>1, FlushesStutter DEF FinalFlush, queueVars, Lanes
  <2>2. CASE FinalFlushOn
    <3>1. CASE lane[Closer] = "history"
      BY <2>2, <3>1, FlushesStutter DEF FinalFlushOn, queueVars, Lanes
    <3>2. CASE lane[Closer] # "history"
      BY <1>2, <2>2, <3>2 DEF FinalFlushOn, queueVars
    <3>3. QED
      BY <3>1, <3>2
  <2>3. QED
    BY <1>1, <1>5, <2>1, <2>2 DEF CloserStep
<1>6. CASE Shutdown
  BY <1>2, <1>6 DEF Shutdown, queueVars
<1>7. CASE Exit \/ Crash
  BY <1>7, RestartsCrash DEF Exit, Crash
<1>8. ASSUME UNCHANGED <<job, batch, writing, lane>>
      PROVE  Active' = Active /\ Buffer' = Buffer
  BY <1>8 DEF Active, Buffer
<1>9. CASE Add
  <2>1. PICK S \in SUBSET fresh : fresh' = fresh \ S /\ waiting' = waiting \cup S
    BY <1>9 DEF Add
  <2>2. Delivery!Add(S)
    BY <1>8, <1>9, <2>1 DEF Add, Delivery!Add, Active, Buffer
  <2>3. QED
    BY <2>2 DEF Delivery!Next
<1>10. CASE \E e \in Entries : Redeliver(e)
  <2>1. PICK e \in stalled : Redeliver(e)
    BY <1>10 DEF Redeliver
  <2>2. Delivery!Redeliver(e)
    BY <1>8, <2>1 DEF Redeliver, Delivery!Redeliver, Active, Buffer
  <2>3. QED
    BY <2>2 DEF Delivery!Next
<1>11. CASE UNCHANGED vars
  BY <1>2, <1>11 DEF vars
<1>12. QED
  BY <1>3, <1>4, <1>5, <1>6, <1>7, <1>9, <1>10, <1>11 DEF Next

-----------------------------------------------------------------------------

\* The worker's variables keep their types (scheduler.worker.ts).
THEOREM StorageTypes == Spec => []TypeOK
<1>1. Init => IInv
  BY InitIInv
<1>2. IInv /\ [Next]_vars => IInv'
  BY NextIInv
<1>3. IInv => TypeOK
  BY DEF IInv
<1>4. QED
  BY <1>1, <1>2, <1>3, PTL DEF Spec

\* flushHistory and flushUtility never run twice at once for a batch, and a flag
\* is up only while its batch is being written, so no flag can stay up for ever.
THEOREM FlushesExclude == Spec => []OneFlushPerLane
<1>1. Init => IInv
  BY InitIInv
<1>2. IInv /\ [Next]_vars => IInv'
  BY NextIInv
<1>3. IInv => OneFlushPerLane
  BY DEF IInv
<1>4. QED
  BY <1>1, <1>2, <1>3, PTL DEF Spec

\* No entry is in memory twice, or in memory and in the queue at once.
THEOREM EntriesHeldOnce == Spec => []HeldOnce
<1>1. Init => IInv
  BY InitIInv
<1>2. IInv /\ [Next]_vars => IInv'
  BY NextIInv
<1>3. IInv => HeldOnce
  BY DEF IInv
<1>4. QED
  BY <1>1, <1>2, <1>3, PTL DEF Spec

\* No entry is written more often than one plus the number of crashes: without
\* a crash no sample is stored twice, shutdowns and restarts included.
THEOREM EntriesStoredOnce == Spec => []StoredOnce
<1>1. Init => IInv
  BY InitIInv
<1>2. IInv /\ [Next]_vars => IInv'
  BY NextIInv
<1>3. IInv => StoredOnce
  BY DEF IInv
<1>4. QED
  BY <1>1, <1>2, <1>3, PTL DEF Spec

\* A batch outgrows BATCH_SIZE by the entries of calls of process() that are
\* still to flush it, and so by fewer than there are slots, whatever the
\* database does (process, waitForHistoryFlush and waitForUtilityFlush).
THEOREM BatchesBounded == Spec => []BatchBounded
<1>1. Init => IInv /\ Bounded
  <2> SUFFICES ASSUME Init PROVE IInv /\ Bounded
    OBVIOUS
  <2>1. IInv
    BY InitIInv
  <2>2. \A l \in Lanes : IsFiniteSet(batch[l]) /\ Cardinality(batch[l]) < BatchSize + Cardinality(Pushers(l))
    <3>1. ASSUME NEW l \in Lanes
          PROVE  IsFiniteSet(batch[l]) /\ Cardinality(batch[l]) < BatchSize + Cardinality(Pushers(l))
      <4>1. IsFiniteSet(Pushers(l))
        BY FS_Subset, StorageAssumption DEF Pushers
      <4>2. Cardinality(Pushers(l)) \in Nat /\ BatchSize \in Nat \ {0}
        BY <4>1, FS_CardinalityType, StorageAssumption
      <4>3. QED
        BY <4>2, FS_EmptySet DEF Init, Empty
    <3>2. QED
      BY <3>1
  <2>3. \A w \in Slots : at[w] = "idle"
    BY ProcsApart DEF Init
  <2>4. QED
    BY <2>1, <2>2, <2>3 DEF Bounded
<1>2. IInv /\ Bounded /\ [Next]_vars => IInv' /\ Bounded'
  BY NextIInv, NextBounded
<1>3. Bounded => BatchBounded
  BY BoundedBatch
<1>4. QED
  BY <1>1, <1>2, <1>3, PTL DEF Spec

\* The worker implements HistoryDelivery, for any number of slots, callbacks and
\* samples: what it buffers it was handed out, a batch is written in one piece or
\* dropped in one piece, and only a crash makes the queue hand out a job again.
THEOREM ImplementsDelivery == Spec => DeliverySpec
<1>1. Init => IInv
  BY InitIInv
<1>2. IInv /\ [Next]_vars => IInv'
  BY NextIInv
<1>3. Init => Delivery!Init
  <2> SUFFICES ASSUME Init PROVE Delivery!Init
    OBVIOUS
  <2>1. Active = {}
    BY DEF Init, Active
  <2>2. Buffer = [l \in Lanes |-> {}]
    <3>1. Held = {}
      BY DEF Init, Held, InFlight, Empty
    <3>2. QED
      BY <1>1, <3>1, BufferIsHeld
  <2>3. fresh \in SUBSET Entries
    BY StorageAssumption DEF Init
  <2>4. QED
    BY <2>1, <2>2, <2>3 DEF Init, Delivery!Init, Delivery!Lanes, Lanes, Active, Buffer
<1>4. IInv /\ IInv' /\ [Next]_vars => [Delivery!Next]_(Delivery!vars)
  BY StepsDeliver
<1>5. QED
  BY <1>1, <1>2, <1>3, <1>4, PTL DEF Spec, DeliverySpec, Delivery!Spec

=============================================================================
