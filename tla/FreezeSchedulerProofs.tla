------------------------ MODULE FreezeSchedulerProofs ------------------------
(***************************************************************************)
(* Proofs about FreezeScheduler for any number of mappings, workers and    *)
(* windows and for days and weeks of any length: types, the next run of a  *)
(* set of windows, the chain of jobs that each mapping lives by, and the   *)
(* values that variables hold.  The first part is arithmetic: where the    *)
(* edges of windows lie in the week and how they come nearer as the clock  *)
(* goes on.  Then come the invariants, and each step of each process.      *)
(***************************************************************************)
EXTENDS FreezeScheduler, TLAPS, WellFoundedInduction

(* The week *)

\* Division with a remainder, and multiples in order: all the provers need to know of the
\* products of days and seconds.
LEMMA Division ==
    ASSUME NEW n \in Nat, NEW d \in Nat \ {0}
    PROVE  /\ n \div d \in Nat /\ n % d \in 0 .. d - 1
           /\ n = d * (n \div d) + (n % d)
OBVIOUS

LEMMA Products ==
    ASSUME NEW d \in Nat \ {0}, NEW a \in Nat, NEW b \in Nat, a < b
    PROVE  a * d + d <= b * d
<1>1. PICK k \in Nat : b = a + 1 + k
  <2>1. b - a - 1 \in Nat /\ b = a + 1 + (b - a - 1)
    OBVIOUS
  <2>2. QED
    BY <2>1
<1>2. b * d = a * d + d + k * d
  BY <1>1
<1>3. k * d \in Nat /\ a * d \in Nat
  OBVIOUS
<1>4. QED
  BY <1>2, <1>3

\* The edges of windows are seconds of the week.
LEMMA Numbers ==
    /\ Week \in Nat \ {0} /\ Day \in Nat \ {0} /\ Days \in Nat \ {0}
    /\ \A d \in 0 .. Days - 1, s \in Seconds : d * Day + s \in Times
<1>0. Day \in Nat \ {0} /\ Days \in Nat \ {0}
  BY FreezeAssumption
<1>1. Week \in Nat \ {0}
  <2>1. 0 * Day + Day <= Days * Day
    BY <1>0, Products
  <2>2. QED
    BY <1>0, <2>1 DEF Week
<1>2. ASSUME NEW d \in 0 .. Days - 1, NEW s \in Seconds PROVE d * Day + s \in Times
  <2>1. d * Day + Day <= Week /\ d * Day \in Nat
    BY <1>0, Products DEF Week
  <2>2. QED
    BY <1>0, <1>1, <2>1 DEF Seconds, Times
<1>3. QED
  BY <1>0, <1>1, <1>2

\* This second, as a day and a second of the day.
LEMMA Second ==
    ASSUME now \in Times
    PROVE  /\ now \div Day \in 0 .. Days - 1 /\ now % Day \in Seconds
           /\ now = (now \div Day) * Day + (now % Day)
<1>1. /\ now \div Day \in Nat /\ now % Day \in 0 .. Day - 1
      /\ now = Day * (now \div Day) + (now % Day)
  <2>1. now \in Nat
    BY Numbers DEF Times
  <2>2. QED
    BY <2>1, Numbers, Division, Zenon
<1> DEFINE q == now \div Day
<1>1a. q \in Nat
  BY <1>1
<1>1b. Day * q = q * Day
  BY <1>1a, Numbers
<1>2. q < Days
  <2> SUFFICES ASSUME q >= Days PROVE FALSE
    BY <1>1a, Numbers
  <2>1. Days * Day <= q * Day
    BY <1>1a, Numbers, Products
  <2>2. QED
    BY <1>1, <1>1b, <2>1, Numbers DEF Week, Times
<1>3. QED
  BY <1>1, <1>1b, <1>2, Numbers DEF Seconds

\* How the edge that a target is for comes next.
Upcoming(e) == IF e <= now THEN e + Week ELSE e

\* A target is the edge itself, or that of next week.
LEMMA TargetIs ==
    ASSUME now \in Times, NEW day \in 0 .. Days - 1, NEW second \in Seconds
    PROVE  Target(day, second) = Upcoming(day * Day + second)
<1> DEFINE q == now \div Day
           ahead == (day - q + Days) % Days
           t == (q + ahead) * Day + second
<1>0. q \in 0 .. Days - 1 /\ now = q * Day + (now % Day) /\ now % Day \in Seconds
  BY Second
<1>1. Target(day, second) = IF t <= now THEN t + Week ELSE t
  BY DEF Target
<1>2. CASE q <= day
  <2>1. ahead = day - q
    BY <1>0, <1>2, Numbers
  <2>2. q + ahead = day
    BY <1>0, <2>1
  <2>3. t = day * Day + second
    BY <2>2
  <2>4. QED
    BY <1>1, <2>3 DEF Upcoming
<1>3. CASE q > day
  <2>1. ahead = day - q + Days
    BY <1>0, <1>3, Numbers
  <2>2. q + ahead = day + Days
    BY <1>0, <2>1, Numbers
  <2>3. t = (day + Days) * Day + second
    BY <2>2
  <2>4. (day + Days) * Day = day * Day + Week
    BY Numbers DEF Week
  <2>5. day * Day + Day <= q * Day
    BY <1>0, <1>3, Numbers, Products
  <2>6. day * Day \in Nat /\ q * Day \in Nat /\ second \in Nat /\ second < Day
    BY <1>0, Numbers DEF Seconds
  <2>7. day * Day + second <= now
    BY <1>0, <2>5, <2>6, Numbers DEF Seconds
  <2>8. t = day * Day + second + Week
    BY <2>3, <2>4, <2>6, Numbers
  <2>9. t > now
    BY <2>6, <2>8, Numbers DEF Times
  <2>10. ~ (t <= now)
    BY <2>6, <2>8, <2>9, Numbers DEF Times
  <2>11. Target(day, second) = t
    BY <1>1, <2>10
  <2>12. QED
    BY <2>7, <2>8, <2>11 DEF Upcoming
<1>4. QED
  BY <1>0, <1>2, <1>3

\* A set of numbers has a least one, be it finite or not.
LEMMA Least ==
    ASSUME NEW S, S \subseteq Nat, S # {}
    PROVE  \E x \in S : \A y \in S : x <= y
<1> DEFINE R == OpToRel(<, Nat)
<1>1. IsWellFoundedOn(R, Nat)
  BY NatLessThanWellFounded
<1>2. \A x, y \in Nat : x < y => <<x, y>> \in R
  BY Zenon DEF OpToRel
<1> HIDE DEF R
<1>3. PICK x \in S : \A y \in S : ~ (<<y, x>> \in R)
  <2>1. S \subseteq Nat /\ S # {}
    OBVIOUS
  <2>2. QED
    BY <1>1, <2>1, WFMin
<1>4. \A y \in S : x <= y
  <2> SUFFICES ASSUME NEW y \in S PROVE x <= y
    OBVIOUS
  <2>1. x \in Nat /\ y \in Nat
    OBVIOUS
  <2>2. ~ (y < x)
    BY <1>2, <1>3, <2>1
  <2>3. QED
    BY <2>1, <2>2
<1>5. QED
  BY <1>4

\* The seconds in which a window begins or ends.
EdgesOf(windows, kind) == {w.day * Day + w[kind] : w \in windows}

LEMMA EdgeTimes ==
    ASSUME NEW windows \in SUBSET Windows, NEW kind \in Kinds
    PROVE  EdgesOf(windows, kind) \subseteq Times
<1> SUFFICES ASSUME NEW w \in windows PROVE w.day * Day + w[kind] \in Times
  BY DEF EdgesOf
<1>1. w.day \in 0 .. Days - 1 /\ w[kind] \in Seconds
  BY DEF Windows, Kinds
<1>2. QED
  BY <1>1, Numbers

\* The next run is an edge, and none comes sooner.
LEMMA NextRunFact ==
    ASSUME now \in Times, NEW windows \in SUBSET Windows, windows # {}, NEW kind \in Kinds
    PROVE  /\ NextRun(windows, kind) \in EdgesOf(windows, kind)
           /\ \A e \in EdgesOf(windows, kind) : Upcoming(NextRun(windows, kind)) <= Upcoming(e)
<1> DEFINE targets == {Target(w.day, w[kind]) : w \in windows}
           edges == EdgesOf(windows, kind)
<1>1. edges \subseteq Times /\ edges # {}
  BY EdgeTimes DEF EdgesOf
<1>2. \A w \in windows : Target(w.day, w[kind]) = Upcoming(w.day * Day + w[kind])
  <2> SUFFICES ASSUME NEW w \in windows
               PROVE  Target(w.day, w[kind]) = Upcoming(w.day * Day + w[kind])
    OBVIOUS
  <2>1. w.day \in 0 .. Days - 1 /\ w[kind] \in Seconds
    BY DEF Windows, Kinds
  <2>2. QED
    BY <2>1, TargetIs
<1>3. \A t : t \in targets <=> \E e \in edges : t = Upcoming(e)
  BY <1>2 DEF EdgesOf
<1>4. \A e \in edges : Upcoming(e) \in Nat /\ Upcoming(e) % Week = e
  <2> SUFFICES ASSUME NEW e \in edges PROVE Upcoming(e) \in Nat /\ Upcoming(e) % Week = e
    OBVIOUS
  <2>1. e \in 0 .. Week - 1 /\ Week \in Nat \ {0}
    BY <1>1, Numbers DEF Times
  <2>2. e % Week = e /\ (e + Week) % Week = e
    BY <2>1
  <2>3. QED
    BY <2>1, <2>2 DEF Upcoming
<1> HIDE DEF targets, edges
<1>5. targets \subseteq Nat /\ targets # {}
  BY <1>1, <1>3, <1>4
<1>6. PICK t \in targets : \A u \in targets : t <= u
  BY <1>5, Least
<1> DEFINE c == CHOOSE x \in targets : \A u \in targets : x <= u
<1>7. c \in targets /\ \A u \in targets : c <= u
  BY <1>6
<1>8. NextRun(windows, kind) = c % Week
  BY DEF NextRun, targets
<1> HIDE DEF c
<1>9. PICK e \in edges : c = Upcoming(e)
  BY <1>3, <1>7
<1>10. NextRun(windows, kind) = e
  BY <1>4, <1>8, <1>9
<1>11. \A f \in edges : Upcoming(e) <= Upcoming(f)
  BY <1>3, <1>7, <1>9
<1>12. QED
  BY <1>10, <1>11 DEF edges

\* The next run is told apart from the other edges by how soon it comes.
LEMMA NextRunIs ==
    ASSUME now \in Times, NEW windows \in SUBSET Windows, NEW kind \in Kinds,
           NEW e \in EdgesOf(windows, kind),
           \A f \in EdgesOf(windows, kind) : Upcoming(e) <= Upcoming(f)
    PROVE  NextRun(windows, kind) = e
<1>1. windows # {}
  BY DEF EdgesOf
<1> DEFINE n == NextRun(windows, kind)
<1>2. /\ n \in EdgesOf(windows, kind)
      /\ \A f \in EdgesOf(windows, kind) : Upcoming(n) <= Upcoming(f)
  BY <1>1, NextRunFact
<1> HIDE DEF n
<1>3. n \in Times /\ e \in Times
  BY <1>2, EdgeTimes
<1>4. Upcoming(n) <= Upcoming(e) /\ Upcoming(e) <= Upcoming(n)
  BY <1>2
<1>5. n = e
  BY <1>3, <1>4, Numbers DEF Upcoming, Times
<1>6. QED
  BY <1>5 DEF n

LEMMA NextRunIsFirst == (now \in Times) => NextRunIsNext
<1> SUFFICES ASSUME now \in Times,
                    NEW windows \in WindowSets \ {{}}, NEW kind \in Kinds
             PROVE  LET edges == {w.day * Day + w[kind] : w \in windows}
                        wait(t) == (t - now - 1 + Week) % Week
                    IN /\ NextRun(windows, kind) \in edges
                       /\ \A t \in edges : wait(NextRun(windows, kind)) <= wait(t)
  BY DEF NextRunIsNext
<1> DEFINE wait(t) == (t - now - 1 + Week) % Week
           edges == EdgesOf(windows, kind)
           n == NextRun(windows, kind)
<1>1. windows \in SUBSET Windows /\ windows # {}
  BY FreezeAssumption
<1>2. edges \subseteq Times
  BY <1>1, EdgeTimes
<1>3. n \in edges /\ \A e \in edges : Upcoming(n) <= Upcoming(e)
  BY <1>1, NextRunFact
<1>4. \A t \in edges : wait(t) = Upcoming(t) - now - 1
  <2> SUFFICES ASSUME NEW t \in edges PROVE wait(t) = Upcoming(t) - now - 1
    OBVIOUS
  <2>1. t \in 0 .. Week - 1 /\ now \in 0 .. Week - 1 /\ Week \in Nat \ {0}
    BY <1>2, Numbers DEF Times
  <2>2. CASE t <= now
    <3>1. (t - now - 1 + Week) \in 0 .. Week - 1
      BY <2>1, <2>2
    <3>2. wait(t) = t - now - 1 + Week
      BY <2>1, <3>1
    <3>3. QED
      BY <2>1, <2>2, <3>2 DEF Upcoming
  <2>3. CASE t > now
    <3>1. t - now - 1 \in 0 .. Week - 1 /\ t - now - 1 + Week = (t - now - 1) + Week
      BY <2>1, <2>3
    <3>2. wait(t) = t - now - 1
      BY <2>1, <3>1
    <3>3. QED
      BY <2>1, <2>3, <3>2 DEF Upcoming
  <2>4. QED
    BY <2>1, <2>2, <2>3
<1>5. \A t \in edges : Upcoming(t) \in Nat
  BY <1>2, Numbers DEF Upcoming, Times
<1>6. \A t \in edges : wait(n) <= wait(t)
  <2> SUFFICES ASSUME NEW t \in edges PROVE wait(n) <= wait(t)
    OBVIOUS
  <2>1. wait(n) = Upcoming(n) - now - 1 /\ wait(t) = Upcoming(t) - now - 1
    BY <1>3, <1>4
  <2>2. QED
    BY <1>3, <1>5, <2>1, Numbers DEF Times
<1>7. QED
  BY <1>3, <1>6 DEF EdgesOf

LEMMA NextRunChosen ==
    now \in Times =>
        \A windows \in SUBSET Windows, kind \in Kinds : \A e \in EdgesOf(windows, kind) :
            (\A f \in EdgesOf(windows, kind) : Upcoming(e) <= Upcoming(f)) => NextRun(windows, kind) = e
BY NextRunIs

LEMMA NextRunChosenNext ==
    (now \in Times)' =>
        (\A windows \in SUBSET Windows, kind \in Kinds : \A e \in EdgesOf(windows, kind) :
            (\A f \in EdgesOf(windows, kind) : Upcoming(e) <= Upcoming(f)) => NextRun(windows, kind) = e)'
BY NextRunChosen, PTL

\* As long as the clock stands still the next run is the same.
LEMMA StandingClock ==
    ASSUME now \in Times, now' = now, NEW windows \in SUBSET Windows, windows # {}, NEW kind \in Kinds
    PROVE  NextRun(windows, kind)' = NextRun(windows, kind)
<1>1. PICK e \in EdgesOf(windows, kind) :
          e = NextRun(windows, kind) /\ \A f \in EdgesOf(windows, kind) : Upcoming(e) <= Upcoming(f)
  BY NextRunFact
<1>2. \A f \in EdgesOf(windows, kind) : Upcoming(e)' <= Upcoming(f)'
  BY <1>1 DEF Upcoming
<1>3. NextRun(windows, kind)' = e
  BY <1>2, NextRunChosenNext
<1>4. QED
  BY <1>1, <1>3

LEMMA Tomorrow ==
    ASSUME now \in Times, now' = (now + 1) % Week
    PROVE  now' \in Times /\ (IF now = Week - 1 THEN now' = 0 ELSE now' = now + 1)
<1>1. now \in 0 .. Week - 1 /\ Week \in Nat \ {0}
  BY Numbers DEF Times
<1>2. QED
  BY <1>1 DEF Times

\* A second in which no window begins (or ends) leaves the next run as it is, and a
\* second in which one does is the next run of the second before.
LEMMA NextRunOfTick ==
    ASSUME now \in Times, now' = (now + 1) % Week,
           NEW windows \in SUBSET Windows, windows # {}, NEW kind \in Kinds
    PROVE  IF now' \in EdgesOf(windows, kind) THEN NextRun(windows, kind) = now'
           ELSE NextRun(windows, kind)' = NextRun(windows, kind) /\ NextRun(windows, kind) # now'
<1> DEFINE edges == EdgesOf(windows, kind)
<1>0. edges \subseteq Times
  BY EdgeTimes
<1>1. PICK e \in edges : e = NextRun(windows, kind) /\ \A f \in edges : Upcoming(e) <= Upcoming(f)
  BY NextRunFact
<1>2. now' \in Times /\ (IF now = Week - 1 THEN now' = 0 ELSE now' = now + 1)
  BY Tomorrow
<1> HIDE DEF edges
<1>3. CASE now' \in edges
  <2>1. \A f \in edges : Upcoming(now') <= Upcoming(f)
    <3> SUFFICES ASSUME NEW f \in edges PROVE Upcoming(now') <= Upcoming(f)
      OBVIOUS
    <3>1. f \in Times /\ now' \in Times /\ Week \in Nat \ {0}
      BY <1>0, <1>2, Numbers
    <3>2. Upcoming(now') = now + 1
      BY <1>2, <3>1 DEF Upcoming, Times
    <3>3. Upcoming(f) >= now + 1
      BY <3>1 DEF Upcoming, Times
    <3>4. QED
      BY <3>1, <3>2, <3>3 DEF Upcoming, Times
  <2>2. PICK n : n = now'
    OBVIOUS
  <2>3. n \in edges /\ \A f \in edges : Upcoming(n) <= Upcoming(f)
    BY <1>3, <2>1, <2>2
  <2>4. NextRun(windows, kind) = n
    BY <2>3, NextRunChosen DEF edges
  <2>5. QED
    BY <1>3, <2>2, <2>4 DEF edges
<1>4. CASE ~ (now' \in edges)
  <2>1. \A f \in edges : Upcoming(e)' <= Upcoming(f)'
    <3> SUFFICES ASSUME NEW f \in edges PROVE Upcoming(e)' <= Upcoming(f)'
      OBVIOUS
    <3>1. f # now' /\ e # now' /\ f \in Times /\ e \in Times /\ Week \in Nat \ {0}
      BY <1>0, <1>4, Numbers
    <3>2. Upcoming(e) <= Upcoming(f)
      BY <1>1
    <3>3. CASE now = Week - 1
      BY <1>2, <3>1, <3>2, <3>3 DEF Upcoming, Times
    <3>4. CASE now # Week - 1
      BY <1>2, <3>1, <3>2, <3>4 DEF Upcoming, Times
    <3>5. QED
      BY <3>3, <3>4
  <2>2. NextRun(windows, kind)' = e
    BY <1>2, <2>1, NextRunChosenNext DEF edges
  <2>3. QED
    BY <1>1, <1>4, <2>2 DEF edges
<1>5. QED
  BY <1>3, <1>4

-----------------------------------------------------------------------------
(* What windows mean in a second *)

Begin(w) == w.day * Day + w.start
Over(w) == w.day * Day + w.end

HeldAt(windows, t) == \E w \in windows : Begin(w) <= t /\ t < Over(w)

LEMMA BeginOver == \A w \in Windows : Begin(w) \in Times /\ Over(w) \in Times
BY Numbers DEF Windows, Begin, Over

\* The window of a day and its seconds, as an interval of the week.
LEMMA HeldInWindow ==
    ASSUME now \in Times, NEW w \in Windows
    PROVE  (w.day = now \div Day /\ now % Day \in w.start .. w.end - 1)
               <=> (Begin(w) <= now /\ now < Over(w))
<1> DEFINE q == now \div Day
           r == now % Day
<1>1. q \in 0 .. Days - 1 /\ r \in Seconds /\ now = q * Day + r
  BY Second
<1>2. w.day \in 0 .. Days - 1 /\ w.start \in Seconds /\ w.end \in Seconds
  BY DEF Windows
<1>3. Day \in Nat \ {0} /\ q * Day \in Nat /\ w.day * Day \in Nat
  BY <1>1, <1>2, Numbers
<1> HIDE DEF q, r
<1>4. CASE w.day = q
  <2>1. PICK b \in Nat : b = q * Day
    BY <1>3
  <2>2. Begin(w) = b + w.start /\ Over(w) = b + w.end /\ now = b + r
    BY <1>1, <1>4, <2>1 DEF Begin, Over
  <2>3. r \in w.start .. w.end - 1 <=> Begin(w) <= now /\ now < Over(w)
    BY <1>1, <1>2, <2>2 DEF Seconds
  <2>4. QED
    BY <1>4, <2>3 DEF q, r
<1>5. CASE w.day < q
  <2>1. w.day * Day + Day <= q * Day
    BY <1>1, <1>2, <1>5, Numbers, Products
  <2>2. Over(w) <= now
    BY <1>1, <1>2, <1>3, <2>1 DEF Over, Seconds
  <2>3. now \in Nat /\ Over(w) \in Nat
    BY <1>1, <1>2, <1>3 DEF Over, Seconds
  <2>4. QED
    BY <1>1, <1>2, <1>5, <2>2, <2>3 DEF q
<1>6. CASE w.day > q
  <2>1. q * Day + Day <= w.day * Day
    BY <1>1, <1>2, <1>6, Numbers, Products
  <2>2. Begin(w) > now
    BY <1>1, <1>2, <1>3, <2>1 DEF Begin, Seconds
  <2>3. now \in Nat /\ Begin(w) \in Nat
    BY <1>1, <1>2, <1>3 DEF Begin, Seconds
  <2>4. QED
    BY <1>1, <1>2, <1>6, <2>2, <2>3 DEF q
<1>7. QED
  BY <1>1, <1>2, <1>4, <1>5, <1>6

\* Windows that are apart are apart in the week, too.
LEMMA ApartInWeek ==
    ASSUME NEW windows \in SUBSET Windows, Apart(windows), NEW v \in windows, NEW w \in windows
    PROVE  Begin(v) < Over(v) /\ (v = w \/ Over(v) < Begin(w) \/ Over(w) < Begin(v))
<1>1. /\ v.day \in 0 .. Days - 1 /\ v.start \in Seconds /\ v.end \in Seconds
      /\ w.day \in 0 .. Days - 1 /\ w.start \in Seconds /\ w.end \in Seconds
  BY DEF Windows
<1>2. Day \in Nat \ {0} /\ v.day * Day \in Nat /\ w.day * Day \in Nat
  BY <1>1, Numbers
<1>3. v.start < v.end /\ (v = w \/ v.day # w.day \/ v.end < w.start \/ w.end < v.start)
  BY DEF Apart
<1>4. Begin(v) < Over(v)
  BY <1>1, <1>2, <1>3 DEF Begin, Over, Seconds
<1>5. CASE v.day < w.day
  <2>1. v.day * Day + Day <= w.day * Day
    BY <1>1, <1>5, Numbers, Products
  <2>2. QED
    BY <1>1, <1>2, <1>4, <2>1 DEF Begin, Over, Seconds
<1>6. CASE w.day < v.day
  <2>1. w.day * Day + Day <= v.day * Day
    BY <1>1, <1>6, Numbers, Products
  <2>2. QED
    BY <1>1, <1>2, <1>4, <2>1 DEF Begin, Over, Seconds
<1>7. CASE v.day = w.day
  BY <1>1, <1>2, <1>3, <1>4, <1>7 DEF Begin, Over, Seconds
<1>8. QED
  BY <1>1, <1>5, <1>6, <1>7

\* What an edge begins and what it ends.
LEMMA AtEdge ==
    ASSUME NEW windows \in SUBSET Windows, Apart(windows), NEW t \in Times
    PROVE  /\ t \in EdgesOf(windows, "start") => HeldAt(windows, t)
           /\ t \in EdgesOf(windows, "end") => ~ HeldAt(windows, t)
<1>1. ASSUME t \in EdgesOf(windows, "start") PROVE HeldAt(windows, t)
  <2>1. PICK w \in windows : t = Begin(w)
    BY <1>1 DEF EdgesOf, Begin
  <2>2. Begin(w) < Over(w) /\ Begin(w) \in Times
    BY ApartInWeek, BeginOver
  <2>3. QED
    BY <2>1, <2>2, Numbers DEF HeldAt, Times
<1>2. ASSUME t \in EdgesOf(windows, "end"), HeldAt(windows, t) PROVE FALSE
  <2>1. PICK w \in windows : t = Over(w)
    BY <1>2 DEF EdgesOf, Over
  <2>2. PICK v \in windows : Begin(v) <= t /\ t < Over(v)
    BY <1>2 DEF HeldAt
  <2>3. /\ Begin(v) \in Nat /\ Over(v) \in Nat /\ Begin(w) \in Nat /\ Over(w) \in Nat
    BY BeginOver, Numbers DEF Times
  <2>4. v # w
    BY <2>1, <2>2, <2>3
  <2>5. Over(v) < Begin(w) \/ Over(w) < Begin(v)
    BY <2>4, ApartInWeek
  <2>6. Begin(w) < Over(w)
    BY ApartInWeek
  <2>7. QED
    BY <2>1, <2>2, <2>3, <2>5, <2>6
<1>3. QED
  BY <1>1, <1>2

\* A second in which no window begins or ends is like the one before.
LEMMA BetweenEdges ==
    ASSUME NEW windows \in SUBSET Windows, Apart(windows), NEW t \in Times, NEW u \in Times,
           IF t = Week - 1 THEN u = 0 ELSE u = t + 1,
           u \notin EdgesOf(windows, "start"), u \notin EdgesOf(windows, "end")
    PROVE  HeldAt(windows, u) <=> HeldAt(windows, t)
<1>1. \A w \in windows : /\ Begin(w) \in Times /\ Over(w) \in Times
                         /\ Begin(w) # u /\ Over(w) # u
  BY BeginOver DEF EdgesOf, Begin, Over
<1>2. \A w \in windows : (Begin(w) <= u /\ u < Over(w)) <=> (Begin(w) <= t /\ t < Over(w))
  BY <1>1, Numbers DEF Times
<1>3. QED
  BY <1>2 DEF HeldAt

-----------------------------------------------------------------------------
(* The invariants *)

\* The points a process can be at.
Points ==
    /\ \A w \in Workers : at[w] \in {"idle", "apply", "reread", "plan"}
    /\ at[Boot] \in {"idle", "clear", "load", "check", "plan"}
    /\ at[Client] \in {"idle", "sync", "check", "plan", "list", "drop", "clear", "wipe"}
    /\ down => \A p \in Procs : at[p] = "idle"

\* What a process knows at a point: a worker at work has one job, of the mapping
\* it is at; Boot has read nothing before it has cleared the queue; a request
\* schedules the windows its mapping has, and removes jobs of a mapping that is
\* inactive or gone.
Known ==
    /\ \A w \in Workers : at[w] # "idle" => \E j \in Jobs : job[w] = {j} /\ j.m = of[w]
    /\ at[Boot] \in {"idle", "clear"} => seen[Boot] = Unseen
    /\ todo[Boot] \subseteq Mappings
    /\ todo[Client] \subseteq Jobs
    /\ at[Client] \in {"check", "plan"} => seen[Client][of[Client]] = WindowsOf(of[Client])
    /\ at[Client] \in {"list", "drop"} => ~Active(of[Client])
    /\ at[Client] = "drop" => \A j \in todo[Client] : j.m \in Prefixed[of[Client]]

\* Boot has yet to reach m, with windows that are those of its row.
Ahead(m) ==
    \/ at[Boot] = "clear"
    \/ at[Boot] = "load" /\ m \in todo[Boot] /\ (seen[Boot] = Unseen \/ seen[Boot][m] = WindowsOf(m))
    \/ at[Boot] \in {"check", "plan"} /\ m \in todo[Boot] /\ seen[Boot][m] = WindowsOf(m)

\* A mapping that has jobs to have.
Due(m) == Active(m) /\ WindowsOf(m) # {}

\* Both of them are there.
Scheduled(m) ==
    \A kind \in Kinds : [kind |-> kind, m |-> m, at |-> NextRun(WindowsOf(m), kind)] \in delayed

\* A worker, the request, or Boot is going to add them, or to make them superfluous.
Serves(w, m) ==
    /\ of[w] = m
    /\ at[w] \in {"apply", "reread"} \/ (at[w] = "plan" /\ seen[w][m] = WindowsOf(m))
Requested(m) ==
    \/ at[Client] \in {"sync", "check", "plan"} /\ of[Client] = m
    \/ at[Client] = "wipe"
Initialized(m) ==
    \/ Ahead(m)
    \/ at[Boot] \in {"check", "plan"} /\ of[Boot] = m /\ seen[Boot][m] = WindowsOf(m)

Attended(m) ==
    \/ down
    \/ \E j \in waiting \cup stalled : j.m = m
    \/ \E w \in Workers : Serves(w, m)
    \/ Requested(m)
    \/ Initialized(m)

\* No mapping is forgotten.
Chained == \A m \in Mappings \ broken : Due(m) => Scheduled(m) \/ Attended(m)

\* A handler is going to write the value of m.
Coming(m) ==
    \/ \E j \in waiting : j.m = m
    \/ \E w \in Workers : at[w] = "apply" /\ of[w] = m

\* An immediate freeze of m is ahead.
FreezeRequested(m) == at[Client] \in {"sync", "check"} /\ of[Client] = m
FreezeInitialized(m) ==
    \/ Ahead(m)
    \/ at[Boot] = "check" /\ of[Boot] = m /\ seen[Boot][m] = WindowsOf(m)
Freezing(m) == down \/ FreezeRequested(m) \/ FreezeInitialized(m)

\* The value of a mapping follows the clock, or is about to.
Followed(m) ==
    \/ Coming(m)
    \/ /\ value[m] = "start" => Held(m)
       /\ Active(m) /\ Held(m) => value[m] = "start" \/ Freezing(m)

Respected ==
    \A m \in Mappings \ excused : row[m] # {} /\ Apart(WindowsOf(m)) => Followed(m)

-----------------------------------------------------------------------------
(* Types, the points of the processes, and what is known at a point *)

Base == TypeOK /\ Points /\ Known

LEMMA Actors ==
    /\ Client \in Procs /\ Boot \in Procs /\ Client # Boot
    /\ Client \in Callers /\ Boot \in Callers
    /\ \A w \in Workers : w \in Procs /\ w # Client /\ w # Boot
    /\ \A p \in Procs : p \in Workers \/ p = Client \/ p = Boot
BY FreezeAssumption DEF Procs, Callers

LEMMA GotoMoves ==
    ASSUME at \in [Procs -> Point], NEW p \in Procs, NEW point \in Point, Goto(p, point)
    PROVE  at' \in [Procs -> Point] /\ at'[p] = point /\ \A q \in Procs : q # p => at'[q] = at[q]
BY DEF Goto

LEMMA FinishMoves ==
    ASSUME at \in [Procs -> Point], NEW p \in Procs, Finish(p), of \in [Procs -> Mappings],
           seen \in [Procs -> [Mappings -> WindowSets \cup {{}}]]
    PROVE  /\ at' \in [Procs -> Point] /\ at'[p] = "idle"
           /\ \A q \in Procs : q # p => at'[q] = at[q]
           /\ seen' \in [Procs -> [Mappings -> WindowSets \cup {{}}]] /\ seen'[p] = Unseen
           /\ \A q \in Procs : q # p => seen'[q] = seen[q]
           /\ of' \in [Procs -> Mappings] /\ \A q \in Procs : q # p => of'[q] = of[q]
<1>1. "idle" \in Point
  BY DEF Point
<1>2. Unseen \in [Mappings -> WindowSets \cup {{}}]
  BY DEF Unseen
<1>3. /\ Goto(p, "idle") /\ seen' = [seen EXCEPT ![p] = Unseen]
      /\ of' = [of EXCEPT ![p] = Some]
  BY DEF Finish
<1>4. Some \in Mappings
  BY FreezeAssumption DEF Some
<1>5. QED
  BY <1>1, <1>2, <1>3, <1>4, GotoMoves

LEMMA WindowsTyped ==
    ASSUME TypeOK, NEW m \in Mappings
    PROVE  /\ WindowsOf(m) \in WindowSets \cup {{}} /\ WindowsOf(m) \in SUBSET Windows
           /\ \A r \in row[m] : row[m] = {r} /\ WindowsOf(m) = r.windows
<1>1. CASE row[m] = {}
  BY <1>1 DEF WindowsOf
<1>2. CASE row[m] # {}
  <2>1. PICK r \in Configurations : row[m] = {r}
    BY <1>2 DEF TypeOK
  <2>2. r.windows \in WindowSets /\ WindowsOf(m) = r.windows
    BY <2>1 DEF Configurations, WindowsOf
  <2>3. QED
    BY <2>1, <2>2, FreezeAssumption
<1>3. QED
  BY <1>1, <1>2

LEMMA NextRunTyped ==
    ASSUME now \in Times, NEW windows \in SUBSET Windows, windows # {}, NEW kind \in Kinds
    PROVE  NextRun(windows, kind) \in Times
BY NextRunFact, EdgeTimes

\* Jobs that are added are jobs, and none that is there is lost.
LEMMA JobsTyped ==
    ASSUME Base, NEW p \in Procs, NEW kinds \in SUBSET Kinds
    PROVE  JobsOf(of[p], seen[p][of[p]], kinds) \in SUBSET Jobs
<1> DEFINE m == of[p]
           ws == seen[p][m]
<1>1. m \in Mappings /\ ws \in WindowSets \cup {{}} /\ now \in Times
  BY DEF Base, TypeOK
<1>2. ws \in SUBSET Windows
  BY <1>1, FreezeAssumption
<1> HIDE DEF ws, m
<1>3. ASSUME ws # {}, NEW k \in kinds PROVE [kind |-> k, m |-> m, at |-> NextRun(ws, k)] \in Jobs
  BY <1>1, <1>2, <1>3, NextRunTyped DEF Jobs
<1>4. JobsOf(m, ws, kinds) \in SUBSET Jobs
  BY <1>3 DEF JobsOf
<1>5. QED
  BY <1>4 DEF m, ws

LEMMA AddJobsTyped ==
    ASSUME Base, NEW p \in Procs, AddJobs(p) \/ AddFewer(p)
    PROVE  /\ delayed' \in SUBSET Jobs /\ broken' \in SUBSET Mappings
           /\ delayed \subseteq delayed'
<1>1. /\ delayed \in SUBSET Jobs /\ broken \in SUBSET Mappings /\ of[p] \in Mappings
      /\ Kinds \in SUBSET Kinds /\ {"start"} \in SUBSET Kinds
  BY DEF Base, TypeOK, Kinds
<1>2. /\ JobsOf(of[p], seen[p][of[p]], Kinds) \in SUBSET Jobs
      /\ JobsOf(of[p], seen[p][of[p]], {"start"}) \in SUBSET Jobs
  BY <1>1, JobsTyped
<1>3. QED
  BY <1>1, <1>2 DEF AddJobs, AddFewer

LEMMA BaseInit == Init => Base
<1> SUFFICES ASSUME Init PROVE Base
  OBVIOUS
<1>1. now = 0 /\ now \in Times
  BY Numbers DEF Init, Times
<1>2. row \in [Mappings -> SUBSET Configurations] /\ \A m \in Mappings : \A r, s \in row[m] : r = s
  <2>1. /\ row \in [Mappings -> SUBSET Configurations]
        /\ \A m \in Mappings : row[m] = {} \/ \E r \in Choices[m] : row[m] = {r}
    BY DEF Init
  <2>2. \A m \in Mappings : \A r, s \in row[m] : r = s
    BY <2>1
  <2>3. QED
    BY <2>1, <2>2
<1>3. value \in [Mappings -> Kinds \cup {"other"}]
  BY DEF Init, Kinds
<1>4. delayed \in SUBSET Jobs /\ waiting = {} /\ stalled = {}
  BY DEF Init
<1>5. /\ at = [p \in Procs |-> "idle"] /\ job = [w \in Workers |-> {}]
      /\ todo = [c \in Callers |-> {}]
      /\ seen = [p \in Procs |-> Unseen] /\ down = FALSE
      /\ faults = 0 /\ calls = 0 /\ excused = {} /\ broken = {}
  BY DEF Init
<1>6. of \in [Procs -> Mappings]
  BY FreezeAssumption DEF Init, Some
<1>7. seen \in [Procs -> [Mappings -> WindowSets \cup {{}}]]
  BY <1>5 DEF Unseen
<1>8. at \in [Procs -> Point]
  BY <1>5 DEF Point
<1>9. TypeOK
  BY <1>1, <1>2, <1>3, <1>4, <1>5, <1>6, <1>7, <1>8 DEF TypeOK
<1>10. Points
  BY <1>5, Actors DEF Points
<1>11. Known
  BY <1>5, Actors DEF Known
<1>12. QED
  BY <1>9, <1>10, <1>11 DEF Base

\* A step of a worker leaves the rows, the callers and the other workers alone.
LEMMA WorkerBase ==
    ASSUME Base, NEW w \in Workers, TypeOK', row' = row, todo' = todo, down' = FALSE,
           \A p \in Procs : p # w => at'[p] = at[p] /\ of'[p] = of[p] /\ seen'[p] = seen[p],
           \A v \in Workers : v # w => job'[v] = job[v],
           at'[w] \in {"idle", "apply", "reread", "plan"},
           at'[w] # "idle" => \E j \in Jobs : job'[w] = {j} /\ j.m = of'[w]
    PROVE  Base'
<1>1. Points'
  BY Actors DEF Base, Points
<1>2. \A v \in Workers : at'[v] # "idle" => \E j \in Jobs : job'[v] = {j} /\ j.m = of'[v]
  BY Actors DEF Base, Known
<1>3. /\ at'[Boot] = at[Boot] /\ at'[Client] = at[Client]
      /\ seen'[Boot] = seen[Boot] /\ seen'[Client] = seen[Client] /\ of'[Client] = of[Client]
  BY Actors
<1>4. Known'
  BY <1>2, <1>3 DEF Base, Known, Active, WindowsOf, Unseen
<1>5. QED
  BY <1>1, <1>4 DEF Base

LEMMA TakeJobBase == ASSUME Base, NEW w \in Workers, TakeJob(w) PROVE Base'
<1>0. TypeOK /\ w \in Procs /\ {"apply", "reread"} \subseteq Point
  BY Actors DEF Base, Point
<1>1. PICK j \in waiting :
          /\ waiting' = waiting \ {j}
          /\ job' = [job EXCEPT ![w] = {j}]
          /\ of' = [of EXCEPT ![w] = j.m]
          /\ IF Active(j.m) THEN Goto(w, "apply") /\ UNCHANGED excused
             ELSE Goto(w, "reread") /\ Miss({j.m})
  BY DEF TakeJob
<1>2. /\ at[w] = "idle" /\ down = FALSE
      /\ UNCHANGED <<now, down, row, value, delayed, stalled, seen, todo, faults, calls, broken>>
  BY <1>0 DEF TakeJob, clockVars, countVars, TypeOK
<1>3. j \in Jobs /\ j.m \in Mappings
  BY <1>0 DEF TypeOK, Jobs
<1>4. PICK point \in {"apply", "reread"} : Goto(w, point)
  BY <1>1
<1>5. at' \in [Procs -> Point] /\ at'[w] = point /\ \A q \in Procs : q # w => at'[q] = at[q]
  BY <1>0, <1>4, GotoMoves DEF TypeOK
<1>6. excused' \in SUBSET Mappings
  BY <1>0, <1>1, <1>3 DEF TypeOK, Miss
<1>7. /\ job' \in [Workers -> SUBSET Jobs] /\ job'[w] = {j}
      /\ \A v \in Workers : v # w => job'[v] = job[v]
      /\ of' \in [Procs -> Mappings] /\ of'[w] = j.m
      /\ \A p \in Procs : p # w => of'[p] = of[p]
  BY <1>0, <1>1, <1>3 DEF TypeOK
<1>8. waiting' \in SUBSET Jobs
  BY <1>0, <1>1 DEF TypeOK
<1>9. TypeOK'
  BY <1>0, <1>2, <1>5, <1>6, <1>7, <1>8 DEF TypeOK
<1>10. QED
  BY <1>2, <1>3, <1>5, <1>7, <1>9, WorkerBase

\* A worker at work: the process is alive.
LEMMA WorkerAtWork ==
    ASSUME Base, NEW w \in Workers, at[w] # "idle"
    PROVE  /\ TypeOK /\ w \in Procs /\ of[w] \in Mappings /\ down = FALSE
           /\ \E j \in Jobs : job[w] = {j} /\ j.m = of[w]
BY Actors DEF Base, TypeOK, Points, Known

LEMMA ApplyBase == ASSUME Base, NEW w \in Workers, Apply(w) PROVE Base'
<1>0. at[w] = "apply"
  BY DEF Apply
<1>1. /\ TypeOK /\ w \in Procs /\ of[w] \in Mappings /\ down = FALSE
      /\ \E j \in Jobs : job[w] = {j} /\ j.m = of[w]
  BY <1>0, WorkerAtWork
<1>2. PICK j \in Jobs : job[w] = {j} /\ j.m = of[w]
  BY <1>1
<1>3. WriteValue(j.m, j.kind, now \in Edges(j.m, j.kind)) /\ Goto(w, "reread")
  BY <1>2 DEF Apply
<1>4. UNCHANGED <<now, down, row, delayed, waiting, stalled, job, of, seen, todo, faults, calls, broken>>
  BY DEF Apply, clockVars, queueVars, countVars
<1>5. value' \in [Mappings -> Kinds \cup {"other"}] /\ excused' \in SUBSET Mappings
  <2>1. j.m \in Mappings /\ j.kind \in Kinds
    BY DEF Jobs
  <2>2. /\ value' = [value EXCEPT ![j.m] = j.kind]
        /\ excused' = excused \ {j.m} \/ excused' = excused \cup {j.m}
    BY <1>3 DEF WriteValue
  <2>3. QED
    BY <1>1, <2>1, <2>2 DEF TypeOK
<1>6. at' \in [Procs -> Point] /\ at'[w] = "reread" /\ \A q \in Procs : q # w => at'[q] = at[q]
  BY <1>1, <1>3, GotoMoves DEF TypeOK, Point
<1>7. TypeOK'
  BY <1>1, <1>4, <1>5, <1>6 DEF TypeOK
<1>8. QED
  BY <1>1, <1>2, <1>4, <1>6, <1>7, WorkerBase

LEMMA FailHandlerBase == ASSUME Base, NEW w \in Workers, FailHandler(w) PROVE Base'
<1>0. at[w] = "apply"
  BY DEF FailHandler
<1>1. /\ TypeOK /\ w \in Procs /\ of[w] \in Mappings /\ down = FALSE
      /\ \E j \in Jobs : job[w] = {j} /\ j.m = of[w]
  BY <1>0, WorkerAtWork
<1>2. /\ Goto(w, "reread") /\ excused' = excused \cup {of[w]} /\ faults' = faults + 1
      /\ UNCHANGED <<now, down, row, value, delayed, waiting, stalled, job, of, seen, todo, calls, broken>>
  BY DEF FailHandler, Miss, clockVars, queueVars
<1>3. at' \in [Procs -> Point] /\ at'[w] = "reread" /\ \A q \in Procs : q # w => at'[q] = at[q]
  BY <1>1, <1>2, GotoMoves DEF TypeOK, Point
<1>4. TypeOK'
  BY <1>1, <1>2, <1>3 DEF TypeOK
<1>5. QED
  BY <1>1, <1>2, <1>3, <1>4, WorkerBase

\* A worker is done with its job.
LEMMA WorkerDone ==
    ASSUME Base, NEW w \in Workers, at[w] # "idle", Finish(w), job' = [job EXCEPT ![w] = {}],
           UNCHANGED <<now, down, row, value, waiting, stalled, todo, calls>>,
           delayed' \in SUBSET Jobs, broken' \in SUBSET Mappings, excused' = excused,
           faults' \in {faults, faults + 1}
    PROVE  Base'
<1>1. /\ TypeOK /\ w \in Procs /\ down = FALSE
  BY WorkerAtWork
<1>2. /\ at' \in [Procs -> Point] /\ at'[w] = "idle" /\ \A q \in Procs : q # w => at'[q] = at[q]
      /\ seen' \in [Procs -> [Mappings -> WindowSets \cup {{}}]]
      /\ \A q \in Procs : q # w => seen'[q] = seen[q]
      /\ of' \in [Procs -> Mappings] /\ \A q \in Procs : q # w => of'[q] = of[q]
  BY <1>1, FinishMoves DEF TypeOK
<1>3. job' \in [Workers -> SUBSET Jobs] /\ \A v \in Workers : v # w => job'[v] = job[v]
  BY <1>1 DEF TypeOK
<1>4. TypeOK'
  BY <1>1, <1>2, <1>3 DEF TypeOK
<1>5. QED
  BY <1>1, <1>2, <1>3, <1>4, WorkerBase

LEMMA RereadBase == ASSUME Base, NEW w \in Workers, Reread(w) PROVE Base'
<1>0. at[w] = "reread"
  BY DEF Reread
<1>1. /\ TypeOK /\ w \in Procs /\ of[w] \in Mappings /\ down = FALSE
      /\ \E j \in Jobs : job[w] = {j} /\ j.m = of[w]
  BY <1>0, WorkerAtWork
<1>2. UNCHANGED <<now, down, row, value, delayed, waiting, stalled, todo, faults, calls, excused, broken>>
  BY DEF Reread, clockVars, queueVars, countVars
<1>3. CASE Active(of[w])
  <2>1. /\ Goto(w, "plan") /\ job' = job /\ of' = of
        /\ seen' = [seen EXCEPT ![w][of[w]] = WindowsOf(of[w])]
    BY <1>3 DEF Reread
  <2>2. at' \in [Procs -> Point] /\ at'[w] = "plan" /\ \A q \in Procs : q # w => at'[q] = at[q]
    BY <1>1, <2>1, GotoMoves DEF TypeOK, Point
  <2>3. WindowsOf(of[w]) \in WindowSets \cup {{}}
    BY <1>1, WindowsTyped
  <2>4. /\ seen' \in [Procs -> [Mappings -> WindowSets \cup {{}}]]
        /\ \A q \in Procs : q # w => seen'[q] = seen[q]
    BY <1>1, <2>1, <2>3 DEF TypeOK
  <2>5. TypeOK'
    BY <1>1, <1>2, <2>1, <2>2, <2>4 DEF TypeOK
  <2>6. QED
    BY <1>1, <1>2, <2>1, <2>2, <2>4, <2>5, WorkerBase
<1>4. CASE ~ Active(of[w])
  <2>1. Finish(w) /\ job' = [job EXCEPT ![w] = {}]
    BY <1>4 DEF Reread
  <2>2. delayed' \in SUBSET Jobs /\ broken' \in SUBSET Mappings
    BY <1>1, <1>2 DEF TypeOK
  <2>3. QED
    BY <1>0, <1>2, <2>1, <2>2, WorkerDone
<1>5. QED
  BY <1>3, <1>4

LEMMA PlanBase == ASSUME Base, NEW w \in Workers, Plan(w) \/ FailFinally(w) PROVE Base'
<1>1. CASE Plan(w)
  <2>1. /\ at[w] = "plan" /\ AddJobs(w) /\ Finish(w) /\ job' = [job EXCEPT ![w] = {}]
        /\ UNCHANGED <<now, down, row, value, waiting, stalled, todo, faults, calls, excused>>
    BY <1>1 DEF Plan, clockVars, countVars
  <2>2. delayed' \in SUBSET Jobs /\ broken' \in SUBSET Mappings
    BY <2>1, Actors, AddJobsTyped
  <2>3. QED
    BY <2>1, <2>2, WorkerDone
<1>2. CASE FailFinally(w)
  <2>1. /\ at[w] # "idle" /\ Finish(w) /\ job' = [job EXCEPT ![w] = {}]
        /\ faults' = faults + 1 /\ AddFewer(w)
        /\ UNCHANGED <<now, down, row, value, waiting, stalled, todo, calls, excused>>
    BY <1>2 DEF FailFinally, clockVars
  <2>2. delayed' \in SUBSET Jobs /\ broken' \in SUBSET Mappings
    BY <2>1, Actors, AddJobsTyped
  <2>3. QED
    BY <2>1, <2>2, WorkerDone
<1>3. QED
  BY <1>1, <1>2

\* A step of a request leaves Boot and the workers alone.
LEMMA ClientBase ==
    ASSUME Base, TypeOK', down' = FALSE, job' = job,
           \A p \in Procs : p # Client => at'[p] = at[p] /\ of'[p] = of[p] /\ seen'[p] = seen[p],
           todo'[Boot] = todo[Boot],
           at'[Client] \in {"idle", "sync", "check", "plan", "list", "drop", "clear", "wipe"},
           todo'[Client] \subseteq Jobs,
           at'[Client] \in {"check", "plan"} => seen'[Client][of'[Client]] = WindowsOf(of[Client])',
           at'[Client] \in {"list", "drop"} => ~ Active(of[Client])',
           at'[Client] = "drop" => \A j \in todo'[Client] : j.m \in Prefixed[of'[Client]]
    PROVE  Base'
<1>1. \A w \in Workers : at'[w] = at[w] /\ of'[w] = of[w]
  BY Actors
<1>2. Points'
  BY <1>1, Actors DEF Base, Points
<1>3. at'[Boot] = at[Boot] /\ seen'[Boot] = seen[Boot]
  BY Actors
<1>4. \A w \in Workers : at'[w] # "idle" => \E j \in Jobs : job'[w] = {j} /\ j.m = of'[w]
  BY <1>1 DEF Base, Known
<1>5. /\ at'[Boot] \in {"idle", "clear"} => seen'[Boot] = Unseen
      /\ todo'[Boot] \subseteq Mappings
  BY <1>3 DEF Base, Known
<1>6. Known'
  BY <1>4, <1>5 DEF Known, Unseen
<1>7. QED
  BY <1>2, <1>6 DEF Base

\* A step of Boot leaves the request and the workers alone.
LEMMA BootBase ==
    ASSUME Base, TypeOK', down' = FALSE, job' = job, row' = row,
           \A p \in Procs : p # Boot => at'[p] = at[p] /\ of'[p] = of[p] /\ seen'[p] = seen[p],
           todo'[Client] = todo[Client],
           at'[Boot] \in {"idle", "clear", "load", "check", "plan"},
           todo'[Boot] \subseteq Mappings,
           at'[Boot] \in {"idle", "clear"} => seen'[Boot] = Unseen
    PROVE  Base'
<1>1. \A w \in Workers : at'[w] = at[w] /\ of'[w] = of[w]
  BY Actors
<1>2. Points'
  BY <1>1, Actors DEF Base, Points
<1>3. at'[Client] = at[Client] /\ seen'[Client] = seen[Client] /\ of'[Client] = of[Client]
  BY Actors
<1>4. \A w \in Workers : at'[w] # "idle" => \E j \in Jobs : job'[w] = {j} /\ j.m = of'[w]
  BY <1>1 DEF Base, Known
<1>5. Known'
  BY <1>3, <1>4 DEF Base, Known, Unseen, Active, WindowsOf
<1>6. QED
  BY <1>2, <1>5 DEF Base

\* A request at work: the process is alive.
LEMMA CallerAtWork ==
    ASSUME Base, NEW c \in Callers, at[c] # "idle"
    PROVE  /\ TypeOK /\ c \in Procs /\ of[c] \in Mappings /\ down = FALSE
BY Actors DEF Base, TypeOK, Points, Procs

LEMMA RequestBase ==
    ASSUME Base, NEW m \in Mappings, NEW r \in SUBSET Configurations,
           \A x, y \in r : x = y, NEW point \in {"sync", "list"},
           point = "list" => r = {}, Request(m, r, point), excused' \in SUBSET Mappings
    PROVE  Base'
<1>1. /\ TypeOK /\ at[Client] = "idle" /\ down = FALSE /\ calls' = calls + 1
      /\ row' = [row EXCEPT ![m] = r] /\ Goto(Client, point)
      /\ of' = [of EXCEPT ![Client] = m]
      /\ UNCHANGED <<now, down, value, delayed, waiting, stalled, job, seen, todo, faults, broken>>
  BY DEF Request, clockVars, queueVars, Base, TypeOK
<1>2. /\ at' \in [Procs -> Point] /\ at'[Client] = point
      /\ \A q \in Procs : q # Client => at'[q] = at[q]
  BY <1>1, Actors, GotoMoves DEF TypeOK, Point
<1>3. /\ of' \in [Procs -> Mappings] /\ of'[Client] = m
      /\ \A q \in Procs : q # Client => of'[q] = of[q]
  BY <1>1, Actors DEF TypeOK
<1>4. row' \in [Mappings -> SUBSET Configurations] /\ row'[m] = r
  BY <1>1 DEF TypeOK
<1>5. \A n \in Mappings : \A x, y \in row'[n] : x = y
  BY <1>1 DEF TypeOK
<1>6. TypeOK'
  BY <1>1, <1>2, <1>3, <1>4, <1>5 DEF TypeOK
<1>7. point = "list" => ~ Active(of[Client])'
  BY <1>3, <1>4 DEF Active
<1>8. todo'[Client] \subseteq Jobs /\ todo'[Boot] = todo[Boot]
  BY <1>1 DEF Base, Known
<1>9. QED
  BY <1>1, <1>2, <1>3, <1>6, <1>7, <1>8, ClientBase

\* What requests make of a mapping is a configuration.
LEMMA ChoicesTyped == \A m \in Mappings : Choices[m] \subseteq Configurations
BY FreezeAssumption

LEMMA RequestsBase == ASSUME Base, Create \/ Update \/ Remove PROVE Base'
<1>0. TypeOK
  BY DEF Base
<1>1. CASE Create
  <2>1. PICK m \in Mappings, r \in Configurations :
            Request(m, {r}, "sync") /\ Miss({m} \cap {n \in Mappings : value[n] = "start"})
    BY <1>1, ChoicesTyped DEF Create
  <2>2. excused' \in SUBSET Mappings
    BY <1>0, <2>1 DEF Miss, TypeOK
  <2>3. QED
    BY <2>1, <2>2, RequestBase
<1>2. CASE Update
  <2>0. PICK m \in Mappings : \E r \in row[m], s \in Configurations :
            /\ Request(m, {s}, "sync")
            /\ excused' = IF r.windows = s.windows THEN excused ELSE excused \cup {m}
    BY <1>2, ChoicesTyped DEF Update
  <2>1. PICK r \in row[m], s \in Configurations :
            /\ Request(m, {s}, "sync")
            /\ excused' = IF r.windows = s.windows THEN excused ELSE excused \cup {m}
    BY <2>0
  <2>2. excused' \in SUBSET Mappings
    BY <1>0, <2>1 DEF TypeOK
  <2>3. QED
    BY <2>1, <2>2, RequestBase
<1>3. CASE Remove
  <2>1. PICK m \in Mappings : Request(m, {}, "list") /\ excused' = excused
    BY <1>3 DEF Remove
  <2>2. excused' \in SUBSET Mappings
    BY <1>0, <2>1 DEF TypeOK
  <2>3. QED
    BY <2>1, <2>2, RequestBase
<1>4. QED
  BY <1>1, <1>2, <1>3

LEMMA SyncBase == ASSUME Base, Sync PROVE Base'
<1> DEFINE m == of[Client]
           point == IF Active(m) THEN "check" ELSE "list"
<1>1. /\ at[Client] = "sync" /\ Goto(Client, point)
      /\ seen' = [seen EXCEPT ![Client][m] = WindowsOf(m)]
      /\ UNCHANGED <<now, down, row, value, delayed, waiting, stalled, job, of, todo, faults, calls, excused, broken>>
  BY DEF Sync, clockVars, queueVars, countVars
<1>2. TypeOK /\ m \in Mappings /\ down = FALSE
  BY <1>1, Actors, CallerAtWork
<1> HIDE DEF m
<1>3. /\ at' \in [Procs -> Point] /\ at'[Client] = point
      /\ \A q \in Procs : q # Client => at'[q] = at[q]
  BY <1>1, <1>2, Actors, GotoMoves DEF TypeOK, Point
<1>4. WindowsOf(m) \in WindowSets \cup {{}}
  BY <1>2, WindowsTyped
<1>5. /\ seen' \in [Procs -> [Mappings -> WindowSets \cup {{}}]]
      /\ seen'[Client][m] = WindowsOf(m)
      /\ \A q \in Procs : q # Client => seen'[q] = seen[q]
  BY <1>1, <1>2, <1>4, Actors DEF TypeOK
<1>6. TypeOK'
  BY <1>1, <1>2, <1>3, <1>5 DEF TypeOK
<1>7. WindowsOf(m)' = WindowsOf(m) /\ Active(m)' = Active(m) /\ m' = m
  BY <1>1 DEF WindowsOf, Active, m
<1>8. /\ at'[Client] \in {"check", "plan"} => seen'[Client][of'[Client]] = WindowsOf(of[Client])'
      /\ at'[Client] \in {"list", "drop"} => ~ Active(of[Client])'
      /\ at'[Client] \in {"check", "list"}
  BY <1>1, <1>3, <1>5, <1>7 DEF m, WindowsOf, Active
<1>9. todo'[Client] \subseteq Jobs /\ todo'[Boot] = todo[Boot]
  BY <1>1 DEF Base, Known
<1>10. QED
  BY <1>1, <1>2, <1>3, <1>5, <1>6, <1>8, <1>9, ClientBase

\* A caller moves on with what it has read.
LEMMA CallerMoves ==
    ASSUME Base, NEW c \in Callers, at[c] # "idle", TypeOK',
           UNCHANGED <<down, row, job, of, todo, seen>>,
           at'[c] \in Point, \A p \in Procs : p # c => at'[p] = at[p],
           IF c = Boot THEN at'[c] \in {"load", "check", "plan"}
           ELSE at[c] \in {"check", "plan"} /\ at'[c] \in {"check", "plan"}
    PROVE  Base'
<1>1. TypeOK /\ down = FALSE
  BY CallerAtWork
<1>2. todo[Client] \subseteq Jobs /\ todo[Boot] \subseteq Mappings
  BY DEF Base, Known
<1>3. CASE c = Boot
  BY <1>1, <1>2, <1>3, BootBase
<1>4. CASE c = Client
  <2>1. seen[Client][of[Client]] = WindowsOf(of[Client])
    BY <1>4, Actors DEF Base, Known
  <2>2. seen'[Client][of'[Client]] = WindowsOf(of[Client])'
    BY <2>1 DEF WindowsOf
  <2>3. at'[Client] \in {"check", "plan"}
    BY <1>4, Actors
  <2>4. QED
    BY <1>1, <1>2, <1>4, <2>2, <2>3, ClientBase
<1>5. QED
  BY <1>3, <1>4 DEF Callers

\* A caller is done.
LEMMA CallerDone ==
    ASSUME Base, NEW c \in Callers, TypeOK', Finish(c), down = FALSE,
           UNCHANGED <<down, job>>, c = Boot => row' = row,
           \A d \in Callers : d # c => todo'[d] = todo[d],
           todo'[c] \subseteq todo[c]
    PROVE  Base'
<1>1. /\ at' \in [Procs -> Point] /\ at'[c] = "idle"
      /\ \A q \in Procs : q # c => at'[q] = at[q]
      /\ seen'[c] = Unseen
      /\ \A q \in Procs : q # c => seen'[q] = seen[q]
      /\ \A q \in Procs : q # c => of'[q] = of[q]
  BY Actors, FinishMoves DEF Base, TypeOK, Procs
<1>2. todo[Client] \subseteq Jobs /\ todo[Boot] \subseteq Mappings
  BY DEF Base, Known
<1>3. CASE c = Boot
  BY <1>1, <1>2, <1>3, Actors, BootBase
<1>4. CASE c = Client
  BY <1>1, <1>2, <1>4, Actors, ClientBase
<1>5. QED
  BY <1>3, <1>4 DEF Callers

\* A mapping is synced.
LEMMA SyncedBase ==
    ASSUME Base, NEW c \in Callers, at[c] # "idle", Synced(c),
           UNCHANGED <<now, down, row, value, waiting, stalled, job, todo, calls>>,
           delayed' \in SUBSET Jobs, broken' \in SUBSET Mappings, excused' \in SUBSET Mappings,
           faults' \in {faults, faults + 1}
    PROVE  Base'
<1>1. TypeOK /\ c \in Procs /\ down = FALSE
  BY CallerAtWork
<1>2. CASE c = Boot
  <2>1. Goto(c, "load") /\ seen' = seen /\ of' = of
    BY <1>2 DEF Synced
  <2>2. /\ at' \in [Procs -> Point] /\ at'[c] = "load"
        /\ \A q \in Procs : q # c => at'[q] = at[q]
    BY <1>1, <2>1, GotoMoves DEF TypeOK, Point
  <2>3. TypeOK'
    BY <1>1, <2>1, <2>2 DEF TypeOK
  <2>4. QED
    BY <1>2, <2>1, <2>2, <2>3, CallerMoves DEF Point
<1>3. CASE c # Boot
  <2>1. Finish(c)
    BY <1>3 DEF Synced
  <2>2. /\ at' \in [Procs -> Point] /\ seen' \in [Procs -> [Mappings -> WindowSets \cup {{}}]]
        /\ of' \in [Procs -> Mappings]
    BY <1>1, <2>1, FinishMoves DEF TypeOK
  <2>3. TypeOK'
    BY <1>1, <2>2 DEF TypeOK
  <2>4. QED
    BY <1>1, <1>3, <2>1, <2>3, CallerDone
<1>4. QED
  BY <1>2, <1>3

LEMMA CallerStepsBase == ASSUME Base, NEW c \in Callers, Check(c) \/ FailSync(c) \/ SyncPlan(c) PROVE Base'
<1>0. at[c] \in {"check", "plan"} /\ TypeOK /\ c \in Procs /\ of[c] \in Mappings /\ down = FALSE
  BY CallerAtWork DEF Check, FailSync, SyncPlan
<1>1. CASE Check(c)
  <2>1. /\ Goto(c, "plan")
        /\ UNCHANGED <<now, down, row, delayed, waiting, stalled, job, of, seen, todo, faults, calls, broken>>
    BY <1>1 DEF Check, clockVars, queueVars, countVars
  <2>2. value' \in [Mappings -> Kinds \cup {"other"}] /\ excused' \in SUBSET Mappings
    <3>1. \/ WriteValue(of[c], "start", Held(of[c]))
          \/ value' = value /\ excused' = excused
      BY <1>1 DEF Check
    <3>2. /\ value' = value \/ value' = [value EXCEPT ![of[c]] = "start"]
          /\ excused' = excused \/ excused' = excused \ {of[c]} \/ excused' = excused \cup {of[c]}
      BY <3>1 DEF WriteValue
    <3>3. QED
      BY <1>0, <3>2 DEF TypeOK, Kinds
  <2>3. /\ at' \in [Procs -> Point] /\ at'[c] = "plan"
        /\ \A q \in Procs : q # c => at'[q] = at[q]
    BY <1>0, <2>1, GotoMoves DEF TypeOK, Point
  <2>4. TypeOK'
    BY <1>0, <2>1, <2>2, <2>3 DEF TypeOK
  <2>5. QED
    BY <1>0, <1>1, <2>1, <2>3, <2>4, CallerMoves DEF Point, Check
<1>2. CASE FailSync(c)
  <2>1. /\ Synced(c) /\ AddFewer(c) /\ faults' = faults + 1
        /\ excused' = excused \cup {of[c]} \/ excused' = excused
        /\ UNCHANGED <<now, down, row, value, waiting, stalled, job, todo, calls>>
    BY <1>2 DEF FailSync, Miss, clockVars
  <2>2. delayed' \in SUBSET Jobs /\ broken' \in SUBSET Mappings /\ excused' \in SUBSET Mappings
    BY <1>0, <2>1, AddJobsTyped DEF TypeOK
  <2>3. QED
    BY <1>0, <2>1, <2>2, SyncedBase
<1>3. CASE SyncPlan(c)
  <2>1. /\ Synced(c) /\ AddJobs(c)
        /\ UNCHANGED <<now, down, row, value, waiting, stalled, job, todo, faults, calls, excused>>
    BY <1>3 DEF SyncPlan, clockVars, countVars
  <2>2. delayed' \in SUBSET Jobs /\ broken' \in SUBSET Mappings /\ excused' \in SUBSET Mappings
    BY <1>0, <2>1, AddJobsTyped DEF TypeOK
  <2>3. QED
    BY <1>0, <2>1, <2>2, SyncedBase
<1>4. QED
  BY <1>1, <1>2, <1>3

LEMMA ListBase == ASSUME Base, List PROVE Base'
<1>1. /\ at[Client] = "list" /\ Goto(Client, "drop")
      /\ todo' = [todo EXCEPT ![Client] =
                     {j \in delayed \cup waiting : j.m \in Prefixed[of[Client]]}]
      /\ UNCHANGED <<now, down, row, value, delayed, waiting, stalled, job, of, seen, faults, calls, excused, broken>>
  BY DEF List, clockVars, queueVars, countVars
<1>2. TypeOK /\ down = FALSE /\ ~ Active(of[Client])
  BY <1>1, Actors, CallerAtWork DEF Base, Known
<1>3. /\ at' \in [Procs -> Point] /\ at'[Client] = "drop"
      /\ \A q \in Procs : q # Client => at'[q] = at[q]
  BY <1>1, <1>2, Actors, GotoMoves DEF TypeOK, Point
<1>4. /\ todo' \in [Callers -> SUBSET (Mappings \cup Jobs)] /\ todo'[Boot] = todo[Boot]
      /\ todo'[Client] \subseteq Jobs
      /\ \A j \in todo'[Client] : j.m \in Prefixed[of[Client]]
  BY <1>1, <1>2, Actors DEF TypeOK
<1>5. TypeOK'
  BY <1>1, <1>2, <1>3, <1>4 DEF TypeOK
<1>6. ~ Active(of[Client])'
  BY <1>1, <1>2 DEF Active
<1>7. QED
  BY <1>1, <1>2, <1>3, <1>4, <1>5, <1>6, ClientBase

LEMMA DropBase == ASSUME Base, Drop PROVE Base'
<1>1. /\ at[Client] = "drop"
      /\ UNCHANGED <<now, down, row, value, stalled, job, faults, calls>>
  BY DEF Drop, clockVars, countVars
<1>2. /\ TypeOK /\ down = FALSE /\ ~ Active(of[Client]) /\ todo[Client] \subseteq Jobs
      /\ \A j \in todo[Client] : j.m \in Prefixed[of[Client]]
  BY <1>1, Actors, CallerAtWork DEF Base, Known
<1>4. CASE todo[Client] = {} /\ Finish(Client) /\ UNCHANGED <<delayed, waiting, todo, excused, broken>>
  <2>1. /\ at' \in [Procs -> Point] /\ seen' \in [Procs -> [Mappings -> WindowSets \cup {{}}]]
        /\ of' \in [Procs -> Mappings]
    BY <1>2, <1>4, Actors, FinishMoves DEF TypeOK
  <2>2. TypeOK'
    BY <1>1, <1>2, <1>4, <2>1 DEF TypeOK
  <2>3. QED
    BY <1>1, <1>2, <1>4, <2>2, Actors, CallerDone
<1>5. ASSUME NEW j \in todo[Client],
             delayed' = delayed \ {j}, waiting' = waiting \ {j},
             Miss({j.m} \cap {k.m : k \in waiting}),
             broken' = broken \cup ({j.m} \ {of[Client]}),
             IF \E w \in Workers : j \in job[w]
             THEN todo' = [todo EXCEPT ![Client] = {}] /\ Finish(Client)
             ELSE todo' = [todo EXCEPT ![Client] = @ \ {j}] /\ UNCHANGED <<at, seen, of>>
      PROVE  Base'
  <2>1. /\ delayed' \in SUBSET Jobs /\ waiting' \in SUBSET Jobs
        /\ excused' \in SUBSET Mappings /\ broken' \in SUBSET Mappings
    BY <1>2, <1>5 DEF Miss, TypeOK, Jobs
  <2>2. CASE todo' = [todo EXCEPT ![Client] = {}] /\ Finish(Client)
    <3>1. /\ at' \in [Procs -> Point] /\ seen' \in [Procs -> [Mappings -> WindowSets \cup {{}}]]
          /\ of' \in [Procs -> Mappings]
      BY <1>2, <2>2, Actors, FinishMoves DEF TypeOK
    <3>2. /\ todo' \in [Callers -> SUBSET (Mappings \cup Jobs)]
          /\ \A d \in Callers : d # Client => todo'[d] = todo[d]
          /\ todo'[Client] \subseteq todo[Client]
      BY <1>2, <2>2, Actors DEF TypeOK
    <3>3. TypeOK'
      BY <1>1, <1>2, <2>1, <3>1, <3>2 DEF TypeOK
    <3>4. QED
      BY <1>1, <1>2, <2>2, <3>2, <3>3, Actors, CallerDone
  <2>3. CASE todo' = [todo EXCEPT ![Client] = @ \ {j}] /\ UNCHANGED <<at, seen, of>>
    <3>0. ~ Active(of[Client])'
      BY <1>1, <1>2, <2>3 DEF Active
    <3>1. /\ todo' \in [Callers -> SUBSET (Mappings \cup Jobs)]
          /\ todo'[Boot] = todo[Boot] /\ todo'[Client] \subseteq todo[Client]
      BY <1>2, <2>3, Actors DEF TypeOK
    <3>2. TypeOK'
      BY <1>1, <1>2, <2>1, <2>3, <3>1 DEF TypeOK
    <3>3. QED
      BY <1>1, <1>2, <2>3, <3>0, <3>1, <3>2, ClientBase
  <2>4. QED
    BY <1>5, <2>2, <2>3
<1>6. QED
  BY <1>4, <1>5 DEF Drop

LEMMA ReinitializeBase == ASSUME Base, NEW c \in Callers, Reinitialize(c) PROVE Base'
<1>1. /\ at[c] = "idle" /\ down = FALSE /\ TypeOK /\ calls' = calls + 1 /\ Goto(c, "clear")
      /\ UNCHANGED <<now, down, row, value, delayed, waiting, stalled, job, of, seen, todo, faults, excused, broken>>
  BY DEF Reinitialize, clockVars, queueVars, Base, TypeOK
<1>2. /\ at' \in [Procs -> Point] /\ at'[c] = "clear"
      /\ \A q \in Procs : q # c => at'[q] = at[q]
  BY <1>1, GotoMoves DEF TypeOK, Point, Procs
<1>3. TypeOK'
  BY <1>1, <1>2 DEF TypeOK
<1>4. /\ todo[Client] \subseteq Jobs /\ todo[Boot] \subseteq Mappings
      /\ at[Boot] = "idle" => seen[Boot] = Unseen
  BY DEF Base, Known
<1>5. CASE c = Boot
  <2>1. seen'[Boot] = Unseen
    BY <1>1, <1>4, <1>5 DEF Unseen
  <2>2. QED
    BY <1>1, <1>2, <1>3, <1>4, <1>5, <2>1, BootBase
<1>6. CASE c = Client
  BY <1>1, <1>2, <1>3, <1>4, <1>6, ClientBase
<1>7. QED
  BY <1>5, <1>6 DEF Callers

LEMMA ClearBase == ASSUME Base, NEW c \in Callers, Clear(c) PROVE Base'
<1>1. /\ at[c] = "clear" /\ delayed' = {} /\ waiting' = {}
      /\ excused' = excused \cup {j.m : j \in waiting}
      /\ UNCHANGED <<now, down, row, value, stalled, job, of, seen, faults, calls, broken>>
  BY DEF Clear, Miss, clockVars, countVars
<1>2. TypeOK /\ c \in Procs /\ down = FALSE
  BY <1>1, CallerAtWork
<1>3. excused' \in SUBSET Mappings
  BY <1>1, <1>2 DEF TypeOK, Jobs
<1>4. todo[Client] \subseteq Jobs /\ todo[Boot] \subseteq Mappings
  BY DEF Base, Known
<1>5. CASE c = Boot
  <2>1. Goto(c, "load") /\ todo' = [todo EXCEPT ![c] = Mappings]
    BY <1>5 DEF Clear
  <2>2. /\ at' \in [Procs -> Point] /\ at'[c] = "load"
        /\ \A q \in Procs : q # c => at'[q] = at[q]
    BY <1>2, <2>1, GotoMoves DEF TypeOK, Point
  <2>3. /\ todo' \in [Callers -> SUBSET (Mappings \cup Jobs)]
        /\ todo'[Boot] = Mappings /\ todo'[Client] = todo[Client]
    BY <1>2, <1>5, <2>1, Actors DEF TypeOK
  <2>4. TypeOK'
    BY <1>1, <1>2, <1>3, <2>2, <2>3 DEF TypeOK
  <2>5. QED
    BY <1>1, <1>2, <1>5, <2>2, <2>3, <2>4, BootBase
<1>6. CASE c = Client
  <2>1. Goto(c, "wipe") /\ todo' = todo
    BY <1>6, Actors DEF Clear
  <2>2. /\ at' \in [Procs -> Point] /\ at'[c] = "wipe"
        /\ \A q \in Procs : q # c => at'[q] = at[q]
    BY <1>2, <2>1, GotoMoves DEF TypeOK, Point
  <2>3. TypeOK'
    BY <1>1, <1>2, <1>3, <2>1, <2>2 DEF TypeOK
  <2>4. QED
    BY <1>1, <1>2, <1>4, <1>6, <2>1, <2>2, <2>3, ClientBase
<1>7. QED
  BY <1>5, <1>6 DEF Callers

LEMMA WipeBase == ASSUME Base, Wipe PROVE Base'
<1>1. /\ at[Client] = "wipe" /\ row' = [m \in Mappings |-> {}] /\ Finish(Client)
      /\ UNCHANGED <<now, down, value, delayed, waiting, stalled, job, todo, faults, calls, excused, broken>>
  BY DEF Wipe, clockVars, queueVars, countVars
<1>2. TypeOK /\ down = FALSE
  BY <1>1, Actors, CallerAtWork
<1>3. /\ at' \in [Procs -> Point] /\ seen' \in [Procs -> [Mappings -> WindowSets \cup {{}}]]
      /\ of' \in [Procs -> Mappings]
  BY <1>1, <1>2, Actors, FinishMoves DEF TypeOK
<1>4. /\ row' \in [Mappings -> SUBSET Configurations]
      /\ \A m \in Mappings : \A r, s \in row'[m] : r = s
  BY <1>1
<1>5. TypeOK'
  BY <1>1, <1>2, <1>3, <1>4 DEF TypeOK
<1>6. QED
  BY <1>1, <1>2, <1>5, Actors, CallerDone

\* Boot reads the active mappings, or takes the next one of them.
LEMMA LoadTakes ==
    ASSUME Base, Load
    PROVE  \E left \in SUBSET todo[Boot] :
              /\ left = IF seen[Boot] = Unseen THEN {m \in todo[Boot] : Active(m)} ELSE todo[Boot]
              /\ todo' = [todo EXCEPT ![Boot] = left \ {of'[Boot]}]
              /\ IF left = {} THEN Finish(Boot)
                 ELSE /\ \E m \in left : of' = [of EXCEPT ![Boot] = m]
                      /\ Goto(Boot, "check")
                      /\ seen' = IF seen[Boot] = Unseen
                                 THEN [seen EXCEPT ![Boot] = [m \in Mappings |-> WindowsOf(m)]]
                                 ELSE seen
<1> DEFINE left == IF seen[Boot] = Unseen THEN {m \in todo[Boot] : Active(m)} ELSE todo[Boot]
<1>1. left \in SUBSET todo[Boot]
  OBVIOUS
<1>2. QED
  BY <1>1 DEF Load

LEMMA LoadBase == ASSUME Base, Load PROVE Base'
<1>1. /\ at[Boot] = "load"
      /\ UNCHANGED <<now, down, row, value, delayed, waiting, stalled, job, faults, calls, excused, broken>>
  BY DEF Load, clockVars, queueVars, countVars
<1>2. TypeOK /\ down = FALSE /\ todo[Boot] \subseteq Mappings
  BY <1>1, Actors, CallerAtWork DEF Base, Known
<1>3. PICK left \in SUBSET todo[Boot] :
              /\ todo' = [todo EXCEPT ![Boot] = left \ {of'[Boot]}]
              /\ IF left = {} THEN Finish(Boot)
                 ELSE /\ \E m \in left : of' = [of EXCEPT ![Boot] = m]
                      /\ Goto(Boot, "check")
                      /\ seen' = IF seen[Boot] = Unseen
                                 THEN [seen EXCEPT ![Boot] = [m \in Mappings |-> WindowsOf(m)]]
                                 ELSE seen
  BY LoadTakes
<1>4. /\ todo' \in [Callers -> SUBSET (Mappings \cup Jobs)] /\ todo'[Client] = todo[Client]
      /\ todo'[Boot] \subseteq todo[Boot]
  BY <1>2, <1>3, Actors DEF TypeOK
<1>5. CASE left = {}
  <2>1. Finish(Boot)
    BY <1>3, <1>5
  <2>2. /\ at' \in [Procs -> Point] /\ seen' \in [Procs -> [Mappings -> WindowSets \cup {{}}]]
        /\ of' \in [Procs -> Mappings]
    BY <1>2, <2>1, Actors, FinishMoves DEF TypeOK
  <2>3. TypeOK'
    BY <1>1, <1>2, <1>4, <2>1, <2>2 DEF TypeOK
  <2>4. \A d \in Callers : d # Boot => todo'[d] = todo[d]
    BY <1>4 DEF Callers
  <2>5. QED
    BY <1>1, <1>2, <1>4, <2>1, <2>3, <2>4, Actors, CallerDone
<1>6. CASE left # {}
  <2>1. PICK m \in left : of' = [of EXCEPT ![Boot] = m]
    BY <1>3, <1>6
  <2>2. of' \in [Procs -> Mappings] /\ \A p \in Procs : p # Boot => of'[p] = of[p]
    BY <1>2, <2>1, Actors DEF TypeOK
  <2>3. /\ at' \in [Procs -> Point] /\ at'[Boot] = "check"
        /\ \A q \in Procs : q # Boot => at'[q] = at[q]
    BY <1>2, <1>3, <1>6, Actors, GotoMoves DEF TypeOK, Point
  <2>4. [n \in Mappings |-> WindowsOf(n)] \in [Mappings -> WindowSets \cup {{}}]
    BY <1>2, WindowsTyped
  <2>5. seen' \in [Procs -> [Mappings -> WindowSets \cup {{}}]] /\ \A p \in Procs : p # Boot => seen'[p] = seen[p]
    <3> DEFINE read == [n \in Mappings |-> WindowsOf(n)]
    <3>1. seen' = seen \/ seen' = [seen EXCEPT ![Boot] = read]
      BY <1>3, <1>6
    <3> HIDE DEF read
    <3>2. seen \in [Procs -> [Mappings -> WindowSets \cup {{}}]] /\ read \in [Mappings -> WindowSets \cup {{}}]
      BY <1>2, <2>4 DEF TypeOK, read
    <3>3. QED
      BY <3>1, <3>2, Actors
  <2>6. TypeOK'
    BY <1>1, <1>2, <1>4, <2>2, <2>3, <2>5 DEF TypeOK
  <2>7. QED
    BY <1>1, <1>2, <1>4, <2>2, <2>3, <2>5, <2>6, BootBase
<1>7. QED
  BY <1>5, <1>6

\* The clock, the queue and a restart leave the callers alone, a crash stops them.
LEMMA TickBase == ASSUME Base, Tick \/ Redeliver PROVE Base'
<1>0. TypeOK
  BY DEF Base
<1>1. UNCHANGED <<down, row, value, at, job, of, seen, todo, faults, calls, broken>>
  BY DEF Tick, Redeliver, procVars, countVars, clockVars
<1>2. /\ now' \in Times /\ delayed' \in SUBSET Jobs /\ waiting' \in SUBSET Jobs
      /\ stalled' \in SUBSET Jobs /\ excused' \in SUBSET Mappings
  <2>1. CASE Tick
    <3>1. now' \in Times
      BY <1>0, <2>1, Tomorrow DEF Tick, TypeOK
    <3>2. /\ delayed' \subseteq delayed /\ waiting' \subseteq waiting \cup delayed
          /\ stalled' = stalled
      BY <2>1 DEF Tick
    <3>3. excused' \in SUBSET Mappings
      BY <1>0, <2>1 DEF Tick, Miss, TypeOK
    <3>4. QED
      BY <1>0, <3>1, <3>2, <3>3 DEF TypeOK
  <2>2. CASE Redeliver
    BY <1>0, <2>2 DEF Redeliver, TypeOK, clockVars
  <2>3. QED
    BY <2>1, <2>2
<1>3. TypeOK'
  BY <1>0, <1>1, <1>2 DEF TypeOK
<1>4. Points' /\ Known'
  BY <1>1 DEF Base, Points, Known, Active, WindowsOf, Unseen
<1>5. QED
  BY <1>3, <1>4 DEF Base

LEMMA CrashBase == ASSUME Base, Crash PROVE Base'
<1> DEFINE held == UNION {job[w] : w \in Workers}
<1>0. TypeOK
  BY DEF Base
<1>1. /\ down' = TRUE /\ faults' = faults + 1
      /\ stalled' = stalled \cup held /\ Miss({j.m : j \in held})
      /\ at' = [p \in Procs |-> "idle"] /\ job' = [w \in Workers |-> {}]
      /\ of' = [p \in Procs |-> Some]
      /\ seen' = [p \in Procs |-> Unseen] /\ todo' = [c \in Callers |-> {}]
      /\ UNCHANGED <<now, row, value, delayed, waiting, calls, broken>>
  BY DEF Crash
<1>2. held \in SUBSET Jobs
  BY <1>0 DEF TypeOK
<1> HIDE DEF held
<1>3. excused' \in SUBSET Mappings /\ stalled' \in SUBSET Jobs
  BY <1>0, <1>1, <1>2 DEF TypeOK, Miss, Jobs
<1>4. /\ at' \in [Procs -> Point] /\ \A p \in Procs : at'[p] = "idle"
      /\ of' \in [Procs -> Mappings]
  BY <1>1, FreezeAssumption DEF Point, Some
<1>5. seen' \in [Procs -> [Mappings -> WindowSets \cup {{}}]] /\ seen'[Boot] = Unseen
  BY <1>1, Actors DEF Unseen
<1>6. TypeOK'
  BY <1>0, <1>1, <1>3, <1>4, <1>5 DEF TypeOK
<1>7. Points'
  BY <1>4, Actors DEF Points
<1>8. Known'
  BY <1>1, <1>4, <1>5, Actors DEF Known, Unseen
<1>9. QED
  BY <1>6, <1>7, <1>8 DEF Base

LEMMA RestartBase == ASSUME Base, Restart PROVE Base'
<1>1. /\ TypeOK /\ down = TRUE /\ down' = FALSE /\ Goto(Boot, "clear")
      /\ UNCHANGED <<now, row, value, delayed, waiting, stalled, job, of, seen, todo, faults, calls, excused, broken>>
  BY DEF Restart, queueVars, countVars, Base, TypeOK
<1>2. /\ at' \in [Procs -> Point] /\ at'[Boot] = "clear"
      /\ \A q \in Procs : q # Boot => at'[q] = at[q]
  BY <1>1, Actors, GotoMoves DEF TypeOK, Point
<1>3. TypeOK'
  BY <1>1, <1>2 DEF TypeOK
<1>4. at[Boot] = "idle"
  BY <1>1, Actors DEF Base, Points
<1>5. seen'[Boot] = Unseen /\ todo'[Boot] \subseteq Mappings
  BY <1>1, <1>4 DEF Base, Known, Unseen
<1>6. QED
  BY <1>1, <1>2, <1>3, <1>5, BootBase

LEMMA BaseKept == Base /\ [Next]_vars => Base'
<1> SUFFICES ASSUME Base, [Next]_vars PROVE Base'
  OBVIOUS
<1>1. CASE UNCHANGED vars
  BY <1>1 DEF vars, clockVars, queueVars, procVars, countVars, Base, TypeOK, Points, Known,
              Active, WindowsOf, Unseen
<1>2. CASE \E w \in Workers : WorkerStep(w)
  BY <1>2, TakeJobBase, ApplyBase, FailHandlerBase, RereadBase, PlanBase DEF WorkerStep
<1>3. ASSUME NEW c \in Callers, CallerStep(c) PROVE Base'
  BY <1>3, CallerStepsBase, ClearBase DEF CallerStep
<1>4. CASE ClientStep
  BY <1>3, <1>4, Actors, SyncBase, ListBase, DropBase, WipeBase DEF ClientStep
<1>5. CASE BootStep
  BY <1>3, <1>5, Actors, LoadBase DEF BootStep
<1>6. CASE Tick \/ Redeliver \/ Restart \/ Crash
  BY <1>6, TickBase, RestartBase, CrashBase
<1>7. CASE Create \/ Update \/ Remove \/ \E c \in Callers : Reinitialize(c)
  BY <1>7, RequestsBase, ReinitializeBase
<1>8. QED
  BY <1>1, <1>2, <1>4, <1>5, <1>6, <1>7 DEF Next, SystemStep

LEMMA BaseAlways == Spec => []Base
BY BaseInit, BaseKept, PTL DEF Spec

\* Every variable of the scheduler keeps its type, whatever is requested, fails or dies:
\* above all the next runs that calculateNextRun computes lie within the week.
THEOREM FreezeTypes == Spec => []TypeOK
<1>1. Base => TypeOK
  BY DEF Base
<1>2. QED
  BY <1>1, BaseAlways, PTL

\* A target is never in this second, never behind another edge, and never more than a week
\* ahead (time-calculation.util.ts, calculateNextRun): whichever windows, second and length
\* of a day, at every moment the system gets to.
THEOREM NextRunAlwaysNext == Spec => []NextRunIsNext
<1>1. Base => NextRunIsNext
  BY NextRunIsFirst DEF Base, TypeOK
<1>2. QED
  BY <1>1, BaseAlways, PTL

-----------------------------------------------------------------------------
(* No mapping is forgotten *)

LEMMA NextWindows ==
    ASSUME NEW m, row'[m] = row[m]
    PROVE  WindowsOf(m)' = WindowsOf(m) /\ Active(m)' = Active(m) /\ Due(m)' = Due(m)
BY DEF WindowsOf, Active, Due

\* While the clock stands still jobs stay scheduled unless they are taken away.
LEMMA ScheduledKept ==
    ASSUME TypeOK, NEW m \in Mappings, now' = now, row'[m] = row[m], Due(m), Scheduled(m),
           \A j \in delayed : j.m = m => j \in delayed'
    PROVE  Scheduled(m)'
<1>1. WindowsOf(m) \in SUBSET Windows /\ WindowsOf(m) # {} /\ now \in Times
  BY WindowsTyped DEF Due, TypeOK
<1>2. PICK ws \in SUBSET Windows : ws = WindowsOf(m) /\ ws # {}
  BY <1>1
<1>3. WindowsOf(m)' = ws
  BY <1>2, NextWindows
<1>4. \A kind \in Kinds : NextRun(ws, kind)' = NextRun(ws, kind)
  BY <1>1, <1>2, StandingClock
<1>5. \A kind \in Kinds : [kind |-> kind, m |-> m, at |-> NextRun(ws, kind)] \in delayed
  BY <1>2 DEF Scheduled
<1>6. \A kind \in Kinds : [kind |-> kind, m |-> m, at |-> NextRun(ws, kind)] \in delayed'
  BY <1>5
<1>7. \A kind \in Kinds : [kind |-> kind, m |-> m, at |-> NextRun(ws, kind)'] \in delayed'
  BY <1>4, <1>6
<1>8. QED
  BY <1>3, <1>7 DEF Scheduled

\* Adding the jobs of the windows a mapping has schedules it.
LEMMA AddJobsSchedules ==
    ASSUME TypeOK, NEW p \in Procs, AddJobs(p), now' = now, row' = row,
           NEW m \in Mappings, m = of[p], Due(m), seen[p][m] = WindowsOf(m)
    PROVE  Scheduled(m)'
<1>1. PICK ws \in SUBSET Windows : ws = WindowsOf(m) /\ ws # {}
  BY WindowsTyped DEF Due
<1>2. delayed' = delayed \cup {[kind |-> k, m |-> m, at |-> NextRun(ws, k)] : k \in Kinds}
  BY <1>1 DEF AddJobs, JobsOf
<1>3. \A kind \in Kinds : NextRun(ws, kind)' = NextRun(ws, kind)
  BY <1>1, StandingClock DEF TypeOK
<1>4. WindowsOf(m)' = ws
  BY <1>1, NextWindows
<1>5. \A kind \in Kinds : [kind |-> kind, m |-> m, at |-> NextRun(ws, kind)] \in delayed'
  BY <1>2
<1>6. QED
  BY <1>3, <1>4, <1>5 DEF Scheduled

\* A mapping that was cared for still is, unless it was the stepping worker, or a job that
\* has gone, that cared for it.
LEMMA WorkerStays ==
    ASSUME NEW w \in Workers, NEW m \in Mappings, UNCHANGED <<down, row, todo>>,
           \A p \in Procs : p # w => at'[p] = at[p] /\ of'[p] = of[p] /\ seen'[p] = seen[p],
           \A j \in waiting \cup stalled : j.m = m => j \in waiting' \cup stalled',
           Attended(m)
    PROVE  Attended(m)' \/ Serves(w, m)
<1>1. WindowsOf(m)' = WindowsOf(m)
  BY NextWindows
<1>2. /\ at'[Boot] = at[Boot] /\ of'[Boot] = of[Boot] /\ seen'[Boot] = seen[Boot]
      /\ at'[Client] = at[Client] /\ of'[Client] = of[Client]
  BY Actors
<1>3. ASSUME NEW v \in Workers, v # w, Serves(v, m) PROVE Serves(v, m)'
  <2>1. at'[v] = at[v] /\ of'[v] = of[v] /\ seen'[v] = seen[v]
    BY <1>3, Actors
  <2>2. QED
    BY <1>1, <1>3, <2>1 DEF Serves
<1>4. Requested(m)' = Requested(m)
  BY <1>2 DEF Requested
<1>5. Initialized(m)' = Initialized(m)
  BY <1>1, <1>2 DEF Initialized, Ahead, Unseen
<1>6. QED
  BY <1>3, <1>4, <1>5 DEF Attended

LEMMA WorkersStay ==
    ASSUME NEW m \in Mappings, row'[m] = row[m],
           \A w \in Workers : at'[w] = at[w] /\ of'[w] = of[w] /\ seen'[w] = seen[w],
           \E w \in Workers : Serves(w, m)
    PROVE  \E w \in Workers : Serves(w, m)'
<1>1. WindowsOf(m)' = WindowsOf(m)
  BY NextWindows
<1>2. PICK w \in Workers : Serves(w, m)
  OBVIOUS
<1>3. Serves(w, m)'
  BY <1>1, <1>2 DEF Serves
<1>4. QED
  BY <1>3

LEMMA ClientStays ==
    ASSUME NEW m \in Mappings, row'[m] = row[m], down' = down, todo'[Boot] = todo[Boot],
           \A p \in Procs : p # Client => at'[p] = at[p] /\ of'[p] = of[p] /\ seen'[p] = seen[p],
           \A j \in waiting \cup stalled : j.m = m => j \in waiting' \cup stalled',
           Attended(m)
    PROVE  Attended(m)' \/ Requested(m)
<1>1. WindowsOf(m)' = WindowsOf(m)
  BY NextWindows
<1>2. at'[Boot] = at[Boot] /\ of'[Boot] = of[Boot] /\ seen'[Boot] = seen[Boot]
  BY Actors
<1>3. (\E w \in Workers : Serves(w, m)) => \E w \in Workers : Serves(w, m)'
  <2>1. \A w \in Workers : at'[w] = at[w] /\ of'[w] = of[w] /\ seen'[w] = seen[w]
    BY Actors
  <2>2. QED
    BY <2>1, WorkersStay
<1>4. Initialized(m)' = Initialized(m)
  BY <1>1, <1>2 DEF Initialized, Ahead, Unseen
<1>5. QED
  BY <1>3, <1>4 DEF Attended

LEMMA BootStays ==
    ASSUME NEW m \in Mappings, row'[m] = row[m], down' = down,
           \A p \in Procs : p # Boot => at'[p] = at[p] /\ of'[p] = of[p] /\ seen'[p] = seen[p],
           \A j \in waiting \cup stalled : j.m = m => j \in waiting' \cup stalled',
           Attended(m)
    PROVE  Attended(m)' \/ Initialized(m)
<1>1. at'[Client] = at[Client] /\ of'[Client] = of[Client]
  BY Actors
<1>2. (\E w \in Workers : Serves(w, m)) => \E w \in Workers : Serves(w, m)'
  <2>1. \A w \in Workers : at'[w] = at[w] /\ of'[w] = of[w] /\ seen'[w] = seen[w]
    BY Actors
  <2>2. QED
    BY <2>1, WorkersStay
<1>3. Requested(m)' = Requested(m)
  BY <1>1 DEF Requested
<1>4. QED
  BY <1>2, <1>3 DEF Attended

\* What a step of a worker leaves for the others to see.
LEMMA WorkerChain ==
    ASSUME Base, Chained, NEW w \in Workers, UNCHANGED <<now, down, row, todo>>,
           \A p \in Procs : p # w => at'[p] = at[p] /\ of'[p] = of[p] /\ seen'[p] = seen[p],
           \A m \in Mappings : \A j \in waiting \cup stalled :
               j.m = m => j \in waiting' \cup stalled' \/ Serves(w, m)',
           delayed \subseteq delayed',
           \A m \in broken \ broken' : Due(m) => Scheduled(m)',
           \A m \in Mappings \ broken' : Due(m) /\ Serves(w, m) => Scheduled(m)' \/ Attended(m)'
    PROVE  Chained'
<1> SUFFICES ASSUME NEW m \in Mappings, m \notin broken', Due(m)'
             PROVE  (Scheduled(m) \/ Attended(m))'
  BY DEF Chained
<1>0. row'[m] = row[m] /\ Due(m) /\ TypeOK
  BY NextWindows DEF Base
<1>1. CASE m \in broken
  BY <1>0, <1>1
<1>2. CASE m \notin broken /\ Scheduled(m)
  BY <1>0, <1>2, ScheduledKept
<1>3. CASE m \notin broken /\ Attended(m)
  <2>1. CASE \A j \in waiting \cup stalled : j.m = m => j \in waiting' \cup stalled'
    <3>1. Attended(m)' \/ Serves(w, m)
      BY <1>3, <2>1, WorkerStays
    <3>2. QED
      BY <1>0, <3>1
  <2>2. CASE Serves(w, m)'
    BY <2>2 DEF Attended
  <2>3. QED
    BY <2>1, <2>2
<1>4. QED
  BY <1>0, <1>1, <1>2, <1>3 DEF Chained

LEMMA WorkerStepChain == ASSUME Base, Base', Chained, NEW w \in Workers, WorkerStep(w) PROVE Chained'
<1>0. /\ TypeOK /\ w \in Procs
      /\ UNCHANGED <<now, down, row, todo>> /\ delayed \subseteq delayed'
      /\ \A p \in Procs : p # w => at'[p] = at[p] /\ of'[p] = of[p] /\ seen'[p] = seen[p]
  <2>1. TypeOK /\ w \in Procs
    BY Actors DEF Base
  <2>2. UNCHANGED <<now, down, row, todo>>
    BY DEF WorkerStep, TakeJob, Apply, FailHandler, Reread, Plan, FailFinally,
           clockVars, countVars, queueVars
  <2>3. delayed \subseteq delayed'
    BY DEF WorkerStep, TakeJob, Apply, FailHandler, Reread, Plan, FailFinally, AddJobs, AddFewer, queueVars
  <2>4. ASSUME NEW p \in Procs, p # w PROVE at'[p] = at[p]
    BY <2>1, <2>4 DEF WorkerStep, TakeJob, Apply, FailHandler, Reread, Plan, FailFinally, Goto, Finish, TypeOK
  <2>5. ASSUME NEW p \in Procs, p # w PROVE of'[p] = of[p]
    BY <2>1, <2>5 DEF WorkerStep, TakeJob, Apply, FailHandler, Reread, Plan, FailFinally, Finish, TypeOK
  <2>6. ASSUME NEW p \in Procs, p # w PROVE seen'[p] = seen[p]
    BY <2>1, <2>6 DEF WorkerStep, TakeJob, Apply, FailHandler, Reread, Plan, FailFinally, Finish, TypeOK
  <2>7. QED
    BY <2>1, <2>2, <2>3, <2>4, <2>5, <2>6
<1>1. CASE TakeJob(w)
  <2>1. PICK j \in waiting :
            waiting' = waiting \ {j} /\ of' = [of EXCEPT ![w] = j.m]
            /\ (Goto(w, "apply") \/ Goto(w, "reread"))
    BY <1>1 DEF TakeJob
  <2>2. at[w] = "idle" /\ stalled' = stalled /\ broken' = broken
    BY <1>1 DEF TakeJob
  <2>3. of'[w] = j.m /\ at'[w] \in {"apply", "reread"}
    BY <1>0, <2>1 DEF TypeOK, Goto
  <2>4. \A m \in Mappings : \A k \in waiting \cup stalled :
               k.m = m => k \in waiting' \cup stalled' \/ Serves(w, m)'
    BY <2>1, <2>2, <2>3 DEF Serves
  <2>5. \A m \in Mappings : ~ Serves(w, m)
    BY <2>2 DEF Serves
  <2>6. QED
    BY <1>0, <2>2, <2>4, <2>5, WorkerChain
<1>2. CASE Apply(w) \/ FailHandler(w)
  <2>1. /\ UNCHANGED <<waiting, stalled, of, broken>> /\ Goto(w, "reread")
    BY <1>2 DEF Apply, FailHandler, queueVars
  <2>2. at'[w] = "reread"
    BY <1>0, <2>1 DEF TypeOK, Goto
  <2>3. ASSUME NEW m \in Mappings, Serves(w, m) PROVE Attended(m)'
    <3>1. Serves(w, m)'
      BY <2>1, <2>2, <2>3 DEF Serves
    <3>2. QED
      BY <3>1 DEF Attended
  <2>4. QED
    BY <1>0, <2>1, <2>3, WorkerChain
<1>3. CASE Reread(w)
  <2>1. UNCHANGED <<waiting, stalled, broken>> /\ at[w] = "reread"
    BY <1>3 DEF Reread, queueVars
  <2>2. ASSUME NEW m \in Mappings, Serves(w, m), Due(m) PROVE Attended(m)'
    <3>1. of[w] = m /\ Active(m)
      BY <2>2 DEF Serves, Due
    <3>2. Goto(w, "plan") /\ of' = of /\ seen' = [seen EXCEPT ![w][m] = WindowsOf(m)]
      BY <1>3, <3>1 DEF Reread
    <3>3. at'[w] = "plan" /\ seen'[w][m] = WindowsOf(m)
      BY <1>0, <3>2 DEF TypeOK, Goto
    <3>4. Serves(w, m)'
      BY <1>0, <3>1, <3>2, <3>3, NextWindows DEF Serves
    <3>5. QED
      BY <3>4 DEF Attended
  <2>3. QED
    BY <1>0, <2>1, <2>2, WorkerChain
<1>4. CASE Plan(w)
  <2>1. UNCHANGED <<waiting, stalled>> /\ at[w] = "plan" /\ AddJobs(w)
    BY <1>4 DEF Plan
  <2>2. ASSUME NEW m \in Mappings, Due(m), m = of[w], seen[w][m] = WindowsOf(m)
        PROVE  Scheduled(m)'
    BY <1>0, <2>1, <2>2, AddJobsSchedules
  <2>3. \A m \in broken \ broken' : m \in Mappings /\ m = of[w] /\ seen[w][m] = WindowsOf(m)
    BY <1>0, <2>1 DEF AddJobs, TypeOK
  <2>4. \A m \in Mappings : Serves(w, m) => m = of[w] /\ seen[w][m] = WindowsOf(m)
    BY <2>1 DEF Serves
  <2>5. QED
    BY <1>0, <2>1, <2>2, <2>3, <2>4, WorkerChain
<1>5. CASE FailFinally(w)
  <2>1. UNCHANGED <<waiting, stalled>> /\ broken' = broken \cup {of[w]}
    BY <1>5 DEF FailFinally, AddFewer
  <2>2. \A m \in Mappings \ broken' : ~ Serves(w, m)
    BY <2>1 DEF Serves
  <2>3. QED
    BY <1>0, <2>1, <2>2, WorkerChain
<1>6. QED
  BY <1>1, <1>2, <1>3, <1>4, <1>5 DEF WorkerStep

\* What a step of a request leaves for the others to see.
LEMMA ClientChain ==
    ASSUME Base, Chained, UNCHANGED <<now, down>>, todo'[Boot] = todo[Boot],
           \A p \in Procs : p # Client => at'[p] = at[p] /\ of'[p] = of[p] /\ seen'[p] = seen[p],
           \A m \in Mappings \ broken' : Due(m)' =>
               \/ Scheduled(m)' \/ Attended(m)'
               \/ /\ row'[m] = row[m] /\ m \notin broken /\ ~ Requested(m)
                  /\ \A j \in delayed : j.m = m => j \in delayed'
                  /\ \A j \in waiting \cup stalled : j.m = m => j \in waiting' \cup stalled'
    PROVE  Chained'
<1> SUFFICES ASSUME NEW m \in Mappings, m \notin broken', Due(m)',
                    row'[m] = row[m], m \notin broken, ~ Requested(m),
                    \A j \in delayed : j.m = m => j \in delayed',
                    \A j \in waiting \cup stalled : j.m = m => j \in waiting' \cup stalled'
             PROVE  (Scheduled(m) \/ Attended(m))'
  BY DEF Chained
<1>0. Due(m) /\ TypeOK
  BY NextWindows DEF Base
<1>1. CASE Scheduled(m)
  BY <1>0, <1>1, ScheduledKept
<1>2. CASE Attended(m)
  BY <1>0, <1>2, ClientStays
<1>3. QED
  BY <1>0, <1>1, <1>2 DEF Chained

\* What a step of Boot leaves for the others to see.
LEMMA BootChain ==
    ASSUME Base, Chained, UNCHANGED <<now, down, row>>,
           \A p \in Procs : p # Boot => at'[p] = at[p] /\ of'[p] = of[p] /\ seen'[p] = seen[p],
           \A j \in delayed : j \in delayed',
           \A j \in waiting \cup stalled : j \in waiting' \cup stalled',
           \A m \in broken \ broken' : Due(m) => Scheduled(m)' \/ Attended(m)',
           \A m \in Mappings \ broken' : Due(m) /\ Initialized(m) => Scheduled(m)' \/ Attended(m)'
    PROVE  Chained'
<1> SUFFICES ASSUME NEW m \in Mappings, m \notin broken', Due(m)'
             PROVE  (Scheduled(m) \/ Attended(m))'
  BY DEF Chained
<1>0. row'[m] = row[m] /\ Due(m) /\ TypeOK
  BY NextWindows DEF Base
<1>1. CASE m \in broken
  BY <1>0, <1>1
<1>2. CASE m \notin broken /\ Scheduled(m)
  BY <1>0, <1>2, ScheduledKept
<1>3. CASE m \notin broken /\ Attended(m)
  BY <1>0, <1>3, BootStays
<1>4. QED
  BY <1>0, <1>1, <1>2, <1>3 DEF Chained

LEMMA RequestsChain == ASSUME Base, Base', Chained, Create \/ Update \/ Remove PROVE Chained'
<1>1. ASSUME NEW n \in Mappings, NEW r \in SUBSET Configurations, NEW point \in {"sync", "list"},
             point = "list" => r = {}, Request(n, r, point)
      PROVE  Chained'
  <2>0. TypeOK
    BY DEF Base
  <2>1. /\ at[Client] = "idle" /\ row' = [row EXCEPT ![n] = r] /\ Goto(Client, point)
        /\ of' = [of EXCEPT ![Client] = n]
        /\ UNCHANGED <<now, down, delayed, waiting, stalled, seen, todo, broken>>
    BY <1>1 DEF Request, clockVars, queueVars
  <2>2. /\ at'[Client] = point /\ of'[Client] = n /\ row'[n] = r
        /\ \A m \in Mappings : m # n => row'[m] = row[m]
        /\ \A p \in Procs : p # Client => at'[p] = at[p] /\ of'[p] = of[p] /\ seen'[p] = seen[p]
    BY <2>0, <2>1, Actors DEF TypeOK, Goto
  <2>3. \A m \in Mappings : ~ Requested(m)
    BY <2>1 DEF Requested
  <2>4. ASSUME Due(n)' PROVE Attended(n)'
    <3>1. point = "sync"
      BY <1>1, <2>2, <2>4 DEF Due, Active
    <3>2. Requested(n)'
      BY <2>2, <3>1 DEF Requested
    <3>3. QED
      BY <3>2 DEF Attended
  <2>5. QED
    BY <2>0, <2>1, <2>2, <2>3, <2>4, Actors, ClientChain DEF Base
<1>2. CASE Create
  <2>1. PICK m \in Mappings, r \in Configurations : Request(m, {r}, "sync")
    BY <1>2, ChoicesTyped DEF Create
  <2>2. QED
    BY <1>1, <2>1
<1>3. CASE Update
  <2>1. PICK m \in Mappings : \E s \in Configurations : Request(m, {s}, "sync")
    BY <1>3, ChoicesTyped DEF Update
  <2>2. QED
    BY <1>1, <2>1
<1>4. CASE Remove
  <2>1. PICK m \in Mappings : Request(m, {}, "list")
    BY <1>4 DEF Remove
  <2>2. QED
    BY <1>1, <2>1
<1>5. QED
  BY <1>2, <1>3, <1>4

\* Whatever a caller that is not Boot does, the others are as they were.
LEMMA ClientFrame ==
    ASSUME TypeOK, Sync \/ Check(Client) \/ FailSync(Client) \/ SyncPlan(Client) \/ List \/ Drop \/ Wipe
    PROVE  /\ UNCHANGED <<now, down, stalled>> /\ todo'[Boot] = todo[Boot]
           /\ \A p \in Procs : p # Client => at'[p] = at[p] /\ of'[p] = of[p] /\ seen'[p] = seen[p]
<1>0. Client # Boot /\ Client \in Procs /\ Client \in Callers /\ Boot \in Callers
  BY Actors
<1>1. UNCHANGED <<now, down, stalled>>
  BY DEF Sync, Check, FailSync, SyncPlan, List, Drop, Wipe, clockVars, queueVars
<1>2. todo'[Boot] = todo[Boot]
  BY <1>0 DEF Sync, Check, FailSync, SyncPlan, List, Drop, Wipe, TypeOK
<1>3. ASSUME NEW p \in Procs, p # Client PROVE at'[p] = at[p]
  BY <1>0, <1>3 DEF Sync, Check, FailSync, SyncPlan, Synced, List, Drop, Wipe, Goto, Finish, TypeOK
<1>4. ASSUME NEW p \in Procs, p # Client PROVE seen'[p] = seen[p]
  BY <1>0, <1>4 DEF Sync, Check, FailSync, SyncPlan, Synced, List, Drop, Wipe, Finish, TypeOK
<1>5. ASSUME NEW p \in Procs, p # Client PROVE of'[p] = of[p]
  BY <1>0, <1>5 DEF Sync, Check, FailSync, SyncPlan, Synced, List, Drop, Wipe, Finish, TypeOK
<1>6. QED
  BY <1>1, <1>2, <1>3, <1>4, <1>5

LEMMA ClientStepChain ==
    ASSUME Base, Base', Chained,
           Sync \/ Check(Client) \/ FailSync(Client) \/ SyncPlan(Client) \/ List \/ Drop \/ Wipe
    PROVE  Chained'
<1>0. TypeOK /\ Client \in Procs /\ of[Client] \in Mappings
  BY Actors DEF Base, TypeOK
<1>1. /\ UNCHANGED <<now, down, stalled>> /\ todo'[Boot] = todo[Boot]
      /\ \A p \in Procs : p # Client => at'[p] = at[p] /\ of'[p] = of[p] /\ seen'[p] = seen[p]
  BY <1>0, ClientFrame
<1>2. CASE Sync
  <2>1. /\ UNCHANGED <<row, delayed, waiting, of, broken>> /\ at[Client] = "sync"
        /\ Goto(Client, IF Active(of[Client]) THEN "check" ELSE "list")
    BY <1>2 DEF Sync, queueVars
  <2>2. ASSUME NEW m \in Mappings, Due(m)', Requested(m) PROVE Attended(m)'
    <3>1. of[Client] = m /\ Active(m)
      BY <2>1, <2>2, NextWindows DEF Requested, Due
    <3>2. at'[Client] = "check" /\ of'[Client] = m
      BY <1>0, <2>1, <3>1 DEF Goto, TypeOK
    <3>3. QED
      BY <3>2 DEF Attended, Requested
  <2>3. ASSUME NEW m \in Mappings \ broken', Due(m)'
        PROVE  \/ Attended(m)'
               \/ /\ row'[m] = row[m] /\ m \notin broken /\ ~ Requested(m)
                  /\ delayed' = delayed /\ waiting' = waiting
    BY <2>1, <2>2, <2>3
  <2>4. QED
    BY <1>1, <2>3, ClientChain
<1>3. CASE Check(Client)
  <2>1. /\ UNCHANGED <<row, delayed, waiting, of, broken>> /\ at[Client] = "check"
        /\ Goto(Client, "plan")
    BY <1>3 DEF Check, queueVars
  <2>2. ASSUME NEW m \in Mappings, Requested(m) PROVE Attended(m)'
    <3>1. of[Client] = m
      BY <2>1, <2>2 DEF Requested
    <3>2. at'[Client] = "plan" /\ of'[Client] = m
      BY <1>0, <2>1, <3>1 DEF Goto, TypeOK
    <3>3. QED
      BY <3>2 DEF Attended, Requested
  <2>3. ASSUME NEW m \in Mappings \ broken', Due(m)'
        PROVE  \/ Attended(m)'
               \/ /\ row'[m] = row[m] /\ m \notin broken /\ ~ Requested(m)
                  /\ delayed' = delayed /\ waiting' = waiting
    BY <2>1, <2>2, <2>3
  <2>4. QED
    BY <1>1, <2>3, ClientChain
<1>4. CASE FailSync(Client)
  <2>1. /\ UNCHANGED <<row, waiting>> /\ at[Client] \in {"check", "plan"}
        /\ delayed \subseteq delayed' /\ broken' = broken \cup {of[Client]}
    BY <1>4 DEF FailSync, AddFewer
  <2>2. ASSUME NEW m \in Mappings \ broken'
        PROVE  row'[m] = row[m] /\ m \notin broken /\ ~ Requested(m)
    BY <2>1, <2>2 DEF Requested
  <2>3. QED
    BY <1>1, <2>1, <2>2, ClientChain
<1>5. CASE SyncPlan(Client)
  <2>1. UNCHANGED <<row, waiting>> /\ at[Client] = "plan" /\ AddJobs(Client)
    BY <1>5 DEF SyncPlan
  <2>2. ASSUME NEW m \in Mappings, Due(m)', m = of[Client] PROVE Scheduled(m)'
    <3>1. Due(m) /\ seen[Client][m] = WindowsOf(m)
      BY <2>1, <2>2, NextWindows DEF Base, Known
    <3>2. QED
      BY <1>0, <1>1, <2>1, <2>2, <3>1, AddJobsSchedules
  <2>3. ASSUME NEW m \in Mappings \ broken', m # of[Client]
        PROVE  row'[m] = row[m] /\ m \notin broken /\ ~ Requested(m)
    BY <2>1, <2>3 DEF AddJobs, Requested
  <2>4. delayed \subseteq delayed'
    BY <2>1 DEF AddJobs
  <2>5. QED
    BY <1>1, <2>1, <2>2, <2>3, <2>4, ClientChain
<1>6. CASE List
  <2>1. UNCHANGED <<row, delayed, waiting, broken>> /\ at[Client] = "list"
    BY <1>6 DEF List, queueVars
  <2>2. \A m \in Mappings \ broken' : row'[m] = row[m] /\ m \notin broken /\ ~ Requested(m)
    BY <2>1 DEF Requested
  <2>3. QED
    BY <1>1, <2>1, <2>2, ClientChain
<1>7. CASE Drop
  <2>1. row' = row /\ broken \subseteq broken' /\ at[Client] = "drop"
    BY <1>7 DEF Drop
  <2>2. ~ Active(of[Client])
    BY <1>0, <2>1 DEF Base, Known
  <2>3. /\ \A j \in delayed : j \in delayed' \/ j.m = of[Client] \/ j.m \in broken'
        /\ \A j \in waiting : j \in waiting' \/ j.m = of[Client] \/ j.m \in broken'
    BY <1>7 DEF Drop
  <2>4. ASSUME NEW m \in Mappings \ broken', Due(m)'
        PROVE  /\ row'[m] = row[m] /\ m \notin broken /\ ~ Requested(m)
               /\ \A j \in delayed : j.m = m => j \in delayed'
               /\ \A j \in waiting \cup stalled : j.m = m => j \in waiting' \cup stalled'
    <3>1. Active(m)
      BY <2>1, <2>4, NextWindows DEF Due
    <3>2. QED
      BY <1>1, <2>1, <2>2, <2>3, <2>4, <3>1 DEF Requested
  <2>5. QED
    BY <1>1, <2>4, ClientChain
<1>8. CASE Wipe
  <2>1. row' = [m \in Mappings |-> {}]
    BY <1>8 DEF Wipe
  <2>2. \A m \in Mappings : ~ Due(m)'
    BY <2>1 DEF Due, Active
  <2>3. QED
    BY <2>2 DEF Chained
<1>9. QED
  BY <1>2, <1>3, <1>4, <1>5, <1>6, <1>7, <1>8

LEMMA BootFrame ==
    ASSUME TypeOK, Check(Boot) \/ FailSync(Boot) \/ SyncPlan(Boot) \/ Load
    PROVE  /\ UNCHANGED <<now, down, row, waiting, stalled>> /\ delayed \subseteq delayed'
           /\ \A p \in Procs : p # Boot => at'[p] = at[p] /\ of'[p] = of[p] /\ seen'[p] = seen[p]
<1>0. Boot \in Procs
  BY Actors
<1>1. UNCHANGED <<now, down, row, waiting, stalled>> /\ delayed \subseteq delayed'
  BY DEF Check, FailSync, SyncPlan, Load, AddJobs, AddFewer, clockVars, queueVars
<1>2. ASSUME NEW p \in Procs, p # Boot PROVE at'[p] = at[p]
  BY <1>0, <1>2 DEF Check, FailSync, SyncPlan, Synced, Load, Goto, Finish, TypeOK
<1>3. ASSUME NEW p \in Procs, p # Boot PROVE seen'[p] = seen[p]
  BY <1>0, <1>3 DEF Check, FailSync, SyncPlan, Synced, Load, Finish, TypeOK
<1>4. ASSUME NEW p \in Procs, p # Boot PROVE of'[p] = of[p]
  BY <1>0, <1>4 DEF Check, FailSync, SyncPlan, Synced, Load, Finish, TypeOK
<1>5. QED
  BY <1>1, <1>2, <1>3, <1>4

\* An active mapping that Boot has yet to reach is reached with the windows it has.
LEMMA LoadReaches ==
    ASSUME Base, Load, NEW m \in Mappings, Active(m), Ahead(m)
    PROVE  /\ at'[Boot] = "check" /\ (of'[Boot] = m \/ m \in todo'[Boot])
           /\ seen'[Boot][m] = WindowsOf(m)' /\ at[Boot] = "load"
<1>0. TypeOK /\ Boot \in Procs /\ Boot \in Callers
  BY Actors DEF Base
<1>1. at[Boot] = "load" /\ row' = row
  BY DEF Load
<1>2. m \in todo[Boot] /\ (seen[Boot] = Unseen \/ seen[Boot][m] = WindowsOf(m))
  BY <1>1 DEF Ahead
<1>3. PICK left \in SUBSET todo[Boot] :
         /\ left = IF seen[Boot] = Unseen THEN {n \in todo[Boot] : Active(n)} ELSE todo[Boot]
         /\ todo' = [todo EXCEPT ![Boot] = left \ {of'[Boot]}]
         /\ IF left = {} THEN Finish(Boot)
            ELSE /\ \E n \in left : of' = [of EXCEPT ![Boot] = n]
                 /\ Goto(Boot, "check")
                 /\ seen' = IF seen[Boot] = Unseen
                            THEN [seen EXCEPT ![Boot] = [n \in Mappings |-> WindowsOf(n)]]
                            ELSE seen
  BY LoadTakes
<1>4. m \in left
  BY <1>2, <1>3
<1>5. at'[Boot] = "check" /\ (of'[Boot] = m \/ m \in todo'[Boot])
  <2>1. Goto(Boot, "check")
    BY <1>3, <1>4
  <2>2. todo'[Boot] = left \ {of'[Boot]}
    BY <1>0, <1>3 DEF TypeOK
  <2>3. QED
    BY <1>0, <1>4, <2>1, <2>2 DEF Goto, TypeOK
<1>6. seen'[Boot][m] = WindowsOf(m)
  <2>1. CASE seen[Boot] = Unseen
    <3> DEFINE read == [n \in Mappings |-> WindowsOf(n)]
    <3>1. seen' = [seen EXCEPT ![Boot] = read]
      BY <1>3, <1>4, <2>1
    <3>2. read[m] = WindowsOf(m)
      OBVIOUS
    <3> HIDE DEF read
    <3>3. seen'[Boot] = read
      BY <1>0, <3>1 DEF TypeOK
    <3>4. QED
      BY <3>2, <3>3
  <2>2. CASE seen[Boot] # Unseen
    <3>1. seen' = seen /\ seen[Boot][m] = WindowsOf(m)
      BY <1>2, <1>3, <1>4, <2>2
    <3>2. QED
      BY <3>1
  <2>3. QED
    BY <2>1, <2>2
<1>7. WindowsOf(m)' = WindowsOf(m)
  BY <1>1, NextWindows
<1>8. QED
  BY <1>1, <1>5, <1>6, <1>7

LEMMA LoadChain == ASSUME Base, Load, NEW m \in Mappings, Due(m), Initialized(m) PROVE Initialized(m)'
<1>1. Active(m) /\ at[Boot] = "load"
  BY DEF Due, Load
<1>2. Ahead(m)
  BY <1>1 DEF Initialized
<1>3. QED
  BY <1>1, <1>2, LoadReaches DEF Initialized, Ahead

LEMMA BootStepChain ==
    ASSUME Base, Base', Chained, Check(Boot) \/ FailSync(Boot) \/ SyncPlan(Boot) \/ Load
    PROVE  Chained'
<1>0. TypeOK /\ Boot \in Procs /\ of[Boot] \in Mappings
  BY Actors DEF Base, TypeOK
<1>1. /\ UNCHANGED <<now, down, row, waiting, stalled>> /\ delayed \subseteq delayed'
      /\ \A p \in Procs : p # Boot => at'[p] = at[p] /\ of'[p] = of[p] /\ seen'[p] = seen[p]
  BY <1>0, BootFrame
<1>2. CASE Load
  <2>1. broken' = broken
    BY <1>2 DEF Load
  <2>2. \A m \in Mappings : Due(m) /\ Initialized(m) => Attended(m)'
    BY <1>2, LoadChain DEF Attended
  <2>3. QED
    BY <1>1, <2>1, <2>2, BootChain
<1>3. ASSUME UNCHANGED <<of, todo, seen>>, at[Boot] \in {"check", "plan"},
             at'[Boot] \in {"load", "plan"},
             NEW m \in Mappings, Initialized(m), m # of[Boot] \/ at'[Boot] = "plan"
      PROVE  Attended(m)'
  <2>1. WindowsOf(m)' = WindowsOf(m)
    BY <1>1, NextWindows
  <2>2. Initialized(m)'
    BY <1>3, <2>1 DEF Initialized, Ahead, Unseen
  <2>3. QED
    BY <2>2 DEF Attended
<1>4. CASE Check(Boot)
  <2>1. UNCHANGED <<of, todo, seen, broken>> /\ at[Boot] = "check" /\ Goto(Boot, "plan")
    BY <1>4 DEF Check
  <2>2. at'[Boot] = "plan"
    BY <1>0, <2>1 DEF Goto, TypeOK
  <2>3. \A m \in Mappings : Initialized(m) => Attended(m)'
    BY <1>3, <2>1, <2>2
  <2>4. QED
    BY <1>1, <2>1, <2>3, BootChain
<1>5. CASE FailSync(Boot)
  <2>1. /\ UNCHANGED <<of, todo, seen>> /\ at[Boot] \in {"check", "plan"} /\ Goto(Boot, "load")
        /\ broken' = broken \cup {of[Boot]}
    BY <1>5 DEF FailSync, AddFewer, Synced
  <2>2. at'[Boot] = "load"
    BY <1>0, <2>1 DEF Goto, TypeOK
  <2>3. \A m \in Mappings \ broken' : Initialized(m) => Attended(m)'
    BY <1>3, <2>1, <2>2
  <2>4. QED
    BY <1>1, <2>1, <2>3, BootChain
<1>6. CASE SyncPlan(Boot)
  <2>1. /\ UNCHANGED <<of, todo, seen>> /\ at[Boot] = "plan" /\ Goto(Boot, "load")
        /\ AddJobs(Boot)
    BY <1>6 DEF SyncPlan, Synced
  <2>2. at'[Boot] = "load"
    BY <1>0, <2>1 DEF Goto, TypeOK
  <2>3. ASSUME NEW m \in Mappings, Due(m), m = of[Boot], seen[Boot][m] = WindowsOf(m)
        PROVE  Scheduled(m)'
    BY <1>0, <1>1, <2>1, <2>3, AddJobsSchedules
  <2>4. \A m \in Mappings : Initialized(m) /\ m # of[Boot] => Attended(m)'
    BY <1>3, <2>1, <2>2
  <2>5. \A m \in Mappings : Initialized(m) /\ m = of[Boot] => seen[Boot][m] = WindowsOf(m)
    BY <2>1 DEF Initialized, Ahead
  <2>6. \A m \in broken \ broken' : m \in Mappings /\ m = of[Boot] /\ seen[Boot][m] = WindowsOf(m)
    BY <1>0, <2>1 DEF AddJobs, TypeOK
  <2>7. QED
    BY <1>1, <2>3, <2>4, <2>5, <2>6, BootChain
<1>7. QED
  BY <1>2, <1>4, <1>5, <1>6

LEMMA ReinitializeChain == ASSUME Base, Chained, NEW c \in Callers, Reinitialize(c) PROVE Chained'
<1>0. TypeOK /\ c \in Procs
  BY DEF Base, Procs
<1>1. /\ at[c] = "idle" /\ Goto(c, "clear")
      /\ UNCHANGED <<now, down, row, delayed, waiting, stalled, of, seen, todo, broken>>
  BY DEF Reinitialize, clockVars, queueVars
<1>2. at'[c] = "clear" /\ \A p \in Procs : p # c => at'[p] = at[p]
  BY <1>0, <1>1 DEF TypeOK, Goto
<1>3. CASE c = Boot
  <2>1. \A m \in Mappings : Attended(m)'
    BY <1>2, <1>3 DEF Attended, Initialized, Ahead
  <2>2. QED
    BY <2>1 DEF Chained
<1>4. CASE c = Client
  <2>1. \A m \in Mappings : ~ Requested(m)
    BY <1>1, <1>4 DEF Requested
  <2>2. QED
    BY <1>1, <1>2, <1>4, <2>1, ClientChain
<1>5. QED
  BY <1>3, <1>4 DEF Callers

LEMMA ClearChain == ASSUME Base, Chained, NEW c \in Callers, Clear(c) PROVE Chained'
<1>0. TypeOK /\ c \in Procs
  BY DEF Base, Procs
<1>1. at[c] = "clear" /\ UNCHANGED seen
  BY DEF Clear
<1>2. CASE c = Boot
  <2>1. Goto(c, "load") /\ todo' = [todo EXCEPT ![c] = Mappings]
    BY <1>2 DEF Clear
  <2>2. at'[Boot] = "load" /\ todo'[Boot] = Mappings
    BY <1>0, <1>2, <2>1 DEF TypeOK, Goto
  <2>3. seen'[Boot] = Unseen
    BY <1>1, <1>2 DEF Base, Known
  <2>4. \A m \in Mappings : Ahead(m)'
    BY <2>2, <2>3 DEF Ahead, Unseen
  <2>5. QED
    BY <2>4 DEF Chained, Attended, Initialized
<1>3. CASE c = Client
  <2>1. Goto(c, "wipe")
    BY <1>3, Actors DEF Clear
  <2>2. at'[Client] = "wipe"
    BY <1>0, <1>3, <2>1 DEF TypeOK, Goto
  <2>3. QED
    BY <2>2 DEF Chained, Attended, Requested
<1>4. QED
  BY <1>2, <1>3 DEF Callers

\* In a quiet system nobody has to be waited for.
LEMMA NobodyWaited ==
    ASSUME Base, Quiet, NEW m \in Mappings
    PROVE  ~ Attended(m)
<1>1. at[Client] = "idle" /\ at[Boot] = "idle" /\ \A w \in Workers : at[w] = "idle"
  BY Actors DEF Quiet
<1>2. QED
  BY <1>1 DEF Quiet, Attended, Serves, Requested, Initialized, Ahead

LEMMA TickChain == ASSUME Base, Base', Chained, Tick PROVE Chained'
<1> DEFINE due == {j \in delayed : j.at = now'}
<1>0. TypeOK /\ down' = down
  BY DEF Base, Tick
<1>1. CASE down
  BY <1>0, <1>1 DEF Chained, Attended
<1>2. CASE ~ down
  <2>1. Quiet /\ now' = (now + 1) % Week /\ delayed' = delayed \ due /\ waiting' = waiting \cup due
        /\ UNCHANGED <<row, broken>>
    BY <1>2 DEF Tick
  <2> SUFFICES ASSUME NEW m \in Mappings, m \notin broken', Due(m)', ~ Attended(m)'
               PROVE  Scheduled(m)'
    BY DEF Chained
  <2>2. Due(m) /\ ~ Attended(m) /\ Scheduled(m)
    BY <2>1, NobodyWaited, NextWindows DEF Chained
  <2>3. PICK ws \in SUBSET Windows : ws = WindowsOf(m) /\ ws # {}
    BY <1>0, <2>2, WindowsTyped DEF Due
  <2>4. WindowsOf(m)' = ws
    BY <2>1, <2>3, NextWindows
  <2>5. ASSUME NEW kind \in Kinds
        PROVE  [kind |-> kind, m |-> m, at |-> NextRun(ws, kind)'] \in delayed'
    <3> DEFINE next == [kind |-> kind, m |-> m, at |-> NextRun(ws, kind)]
    <3>1. next \in delayed /\ next.m = m /\ next.at = NextRun(ws, kind)
      BY <2>2, <2>3 DEF Scheduled
    <3>2. next \notin waiting'
      <4> SUFFICES ASSUME next \in waiting' PROVE FALSE
        OBVIOUS
      <4>1. Attended(m)'
        BY <3>1 DEF Attended
      <4>2. QED
        BY <4>1
    <3>3. next.at # now' /\ next \in delayed'
      BY <2>1, <3>1, <3>2
    <3>4. NextRun(ws, kind)' = NextRun(ws, kind)
      BY <1>0, <2>1, <2>3, <3>1, <3>3, NextRunOfTick DEF TypeOK
    <3>5. QED
      BY <3>3, <3>4
  <2>6. QED
    BY <2>4, <2>5 DEF Scheduled
<1>3. QED
  BY <1>1, <1>2

LEMMA QueueChain == ASSUME Base, Base', Chained, Redeliver \/ Crash \/ Restart PROVE Chained'
<1>1. CASE Crash
  BY <1>1 DEF Crash, Chained, Attended
<1>2. CASE Restart
  <2>1. Goto(Boot, "clear")
    BY <1>2 DEF Restart
  <2>2. at'[Boot] = "clear"
    BY <2>1, Actors DEF Base, TypeOK, Goto
  <2>3. QED
    BY <2>2 DEF Chained, Attended, Initialized, Ahead
<1>3. CASE Redeliver
  <2>1. UNCHANGED <<now, down, row, delayed, at, of, seen, todo, broken>>
    BY <1>3 DEF Redeliver, clockVars, procVars
  <2>2. waiting \cup stalled = waiting' \cup stalled'
    BY <1>3 DEF Redeliver
  <2>3. \A m \in Mappings : Initialized(m) => Initialized(m)'
    BY <2>1 DEF Initialized, Ahead, Unseen, WindowsOf
  <2>4. \A m \in Mappings : Initialized(m) => Attended(m)'
    BY <2>3 DEF Attended
  <2>5. QED
    BY <2>1, <2>2, <2>4, BootChain
<1>4. QED
  BY <1>1, <1>2, <1>3

LEMMA ChainInit == Init => Chained
<1> SUFFICES ASSUME Init, NEW m \in Mappings, Due(m) PROVE Scheduled(m)
  BY DEF Chained
<1>1. TypeOK
  BY BaseInit DEF Base
<1>2. PICK ws \in SUBSET Windows : ws = WindowsOf(m) /\ ws # {}
  BY <1>1, WindowsTyped DEF Due
<1>3. \A kind \in Kinds : NextRun(ws, kind) \in Times
  BY <1>1, <1>2, NextRunTyped DEF TypeOK
<1>4. ASSUME NEW kind \in Kinds
      PROVE  [kind |-> kind, m |-> m, at |-> NextRun(ws, kind)] \in delayed
  <2> DEFINE next == [kind |-> kind, m |-> m, at |-> NextRun(ws, kind)]
  <2>1. /\ next \in Jobs /\ next.m = m /\ next.kind = kind
        /\ next.at = NextRun(ws, kind)
    BY <1>3 DEF Jobs
  <2> HIDE DEF next
  <2>2. Active(next.m) /\ WindowsOf(next.m) # {} /\ next.at = NextRun(WindowsOf(next.m), next.kind)
    BY <1>2, <2>1 DEF Due
  <2>3. delayed = {j \in Jobs : /\ Active(j.m) /\ WindowsOf(j.m) # {}
                                /\ j.at = NextRun(WindowsOf(j.m), j.kind)}
    BY DEF Init
  <2>4. next \in delayed
    BY <2>1, <2>2, <2>3
  <2>5. QED
    BY <2>4 DEF next
<1>5. QED
  BY <1>2, <1>4 DEF Scheduled

LEMMA ChainKept == Base /\ Base' /\ Chained /\ [Next]_vars => Chained'
<1> SUFFICES ASSUME Base, Base', Chained, [Next]_vars PROVE Chained'
  OBVIOUS
<1>1. CASE UNCHANGED vars
  <2>1. UNCHANGED <<now, down, row, delayed, waiting, stalled, at, of, seen, todo, broken>>
    BY <1>1 DEF vars, clockVars, queueVars, procVars
  <2>2. \A m \in Mappings : Initialized(m) => Initialized(m)'
    BY <2>1 DEF Initialized, Ahead, Unseen, WindowsOf
  <2>3. \A m \in Mappings : Initialized(m) => Attended(m)'
    BY <2>2 DEF Attended
  <2>4. QED
    BY <2>1, <2>3, BootChain
<1>2. CASE \E w \in Workers : WorkerStep(w)
  BY <1>2, WorkerStepChain
<1>3. CASE ClientStep
  BY <1>3, ClientStepChain, ClearChain, Actors DEF ClientStep, CallerStep
<1>4. CASE BootStep
  BY <1>4, BootStepChain, ClearChain, Actors DEF BootStep, CallerStep
<1>5. CASE Tick \/ Redeliver \/ Restart \/ Crash
  BY <1>5, TickChain, QueueChain
<1>6. CASE Create \/ Update \/ Remove \/ \E c \in Callers : Reinitialize(c)
  BY <1>6, RequestsChain, ReinitializeChain
<1>7. QED
  BY <1>1, <1>2, <1>3, <1>4, <1>5, <1>6 DEF Next, SystemStep

\* "Ensure rescheduling always happens" (freeze-scheduler.service.ts:197): a quiet system has
\* the next jobs of every active mapping, for any number of mappings, workers, windows and
\* seconds and whichever ids begin with which, but for the rejections that ChainAlive names
\* and for the mappings whose jobs unsyncMapping removed along with those of another.
THEOREM ChainAlwaysAlive == Spec => []ChainAlive
<1>1. Base /\ Chained => ChainAlive
  <2> SUFFICES ASSUME Base, Chained, Quiet, NEW m \in Mappings \ broken, NEW r \in row[m],
                      NEW kind \in Kinds, r.active, r.windows # {}
               PROVE  [kind |-> kind, m |-> m, at |-> NextRun(r.windows, kind)] \in delayed
    BY DEF ChainAlive
  <2>1. WindowsOf(m) = r.windows
    BY WindowsTyped DEF Base
  <2>2. Due(m)
    BY <2>1 DEF Due, Active
  <2>3. Scheduled(m)
    BY <2>2, NobodyWaited DEF Chained
  <2>4. QED
    BY <2>1, <2>3 DEF Scheduled
<1>2. Init => Base /\ Chained
  BY BaseInit, ChainInit
<1>3. Base /\ Chained /\ [Next]_vars => (Base /\ Chained)'
  BY BaseKept, ChainKept
<1>4. QED
  BY <1>1, <1>2, <1>3, PTL DEF Spec

-----------------------------------------------------------------------------
(* Values follow the clock *)

LEMMA HeldIs == Base => \A m \in Mappings : Held(m) <=> HeldAt(WindowsOf(m), now)
<1> SUFFICES ASSUME Base, NEW m \in Mappings PROVE Held(m) <=> HeldAt(WindowsOf(m), now)
  OBVIOUS
<1>1. WindowsOf(m) \in SUBSET Windows /\ now \in Times
  BY WindowsTyped DEF Base, TypeOK
<1>2. \A w \in WindowsOf(m) : (w.day = now \div Day /\ now % Day \in w.start .. w.end - 1)
                                  <=> (Begin(w) <= now /\ now < Over(w))
  BY <1>1, HeldInWindow
<1>3. QED
  BY <1>2 DEF Held, HeldAt

LEMMA HeldIsNext == Base' => (\A m \in Mappings : Held(m) <=> HeldAt(WindowsOf(m), now))'
BY HeldIs, PTL

\* A second in which a variable is held belongs to a window, for the immediate freeze, too.
LEMMA HeldInside == ASSUME Base, NEW m \in Mappings, Held(m) PROVE InWindow(WindowsOf(m))
<1>1. PICK w \in WindowsOf(m) : w.day = now \div Day /\ now % Day \in w.start .. w.end - 1
  BY DEF Held
<1>2. w \in Windows /\ now % Day \in Seconds
  BY WindowsTyped, Second DEF Base, TypeOK
<1>3. now % Day >= w.start /\ now % Day <= w.end
  BY <1>1, <1>2, Numbers DEF Windows, Seconds
<1>4. QED
  BY <1>1, <1>3 DEF InWindow

\* A step that does not take away what a mapping is waiting for.
LEMMA FollowedKept ==
    ASSUME Base, Respected, now' = now,
           \A m \in Mappings \ excused' : row'[m] # {} /\ Apart(WindowsOf(m)') =>
               \/ Followed(m)'
               \/ /\ row'[m] = row[m] /\ value'[m] = value[m] /\ m \notin excused
                  /\ Coming(m) => Coming(m)'
                  /\ Active(m) /\ Held(m) /\ Freezing(m) => Freezing(m)'
    PROVE  Respected'
<1> SUFFICES ASSUME NEW m \in Mappings, m \notin excused', row'[m] # {}, Apart(WindowsOf(m)'),
                    row'[m] = row[m], value'[m] = value[m], m \notin excused,
                    Coming(m) => Coming(m)',
                    Active(m) /\ Held(m) /\ Freezing(m) => Freezing(m)'
             PROVE  Followed(m)'
  BY DEF Respected
<1>1. WindowsOf(m)' = WindowsOf(m) /\ Active(m)' = Active(m)
  BY NextWindows
<1>2. Held(m)' = Held(m)
  BY <1>1 DEF Held
<1>3. Followed(m)
  BY <1>1 DEF Respected
<1>4. QED
  BY <1>1, <1>2, <1>3 DEF Followed

LEMMA FreezeInitializedKept ==
    ASSUME NEW m, row'[m] = row[m], at'[Boot] = at[Boot], of'[Boot] = of[Boot],
           seen'[Boot] = seen[Boot], todo'[Boot] = todo[Boot], FreezeInitialized(m)
    PROVE  FreezeInitialized(m)'
BY NextWindows DEF FreezeInitialized, Ahead, Unseen

LEMMA FreezeRequestedKept ==
    ASSUME NEW m, at'[Client] = at[Client], of'[Client] = of[Client], FreezeRequested(m)
    PROVE  FreezeRequested(m)'
BY DEF FreezeRequested

\* The write of an edge that is due puts the value right.
LEMMA WrittenInTime ==
    ASSUME Base, Base', NEW m \in Mappings, NEW kind \in Kinds, UNCHANGED <<now, row>>,
           now \in Edges(m, kind), value'[m] = kind, Apart(WindowsOf(m)')
    PROVE  Followed(m)'
<1>1. PICK ws \in SUBSET Windows : ws = WindowsOf(m)
  BY WindowsTyped DEF Base
<1>2. WindowsOf(m)' = ws
  BY <1>1, NextWindows
<1>3. now \in EdgesOf(ws, kind) /\ now' \in Times
  BY <1>1 DEF Edges, EdgesOf, Base, TypeOK
<1>4. HeldAt(ws, now') <=> kind = "start"
  BY <1>2, <1>3, AtEdge DEF Kinds
<1>5. Held(m)' <=> kind = "start"
  BY <1>2, <1>4, HeldIsNext
<1>6. QED
  BY <1>5 DEF Followed

LEMMA WorkerStepRespects == ASSUME Base, Base', Respected, NEW w \in Workers, WorkerStep(w) PROVE Respected'
<1>0. /\ TypeOK /\ w \in Procs /\ w # Client /\ w # Boot
      /\ UNCHANGED <<now, down, row, todo>>
      /\ \A p \in Procs : p # w => at'[p] = at[p] /\ of'[p] = of[p] /\ seen'[p] = seen[p]
  <2>1. TypeOK /\ w \in Procs /\ w # Client /\ w # Boot
    BY Actors DEF Base
  <2>2. UNCHANGED <<now, down, row, todo>>
    BY DEF WorkerStep, TakeJob, Apply, FailHandler, Reread, Plan, FailFinally,
           clockVars, countVars, queueVars
  <2>3. ASSUME NEW p \in Procs, p # w PROVE at'[p] = at[p]
    BY <2>1, <2>3 DEF WorkerStep, TakeJob, Apply, FailHandler, Reread, Plan, FailFinally, Goto, Finish, TypeOK
  <2>4. ASSUME NEW p \in Procs, p # w PROVE of'[p] = of[p]
    BY <2>1, <2>4 DEF WorkerStep, TakeJob, Apply, FailHandler, Reread, Plan, FailFinally, Finish, TypeOK
  <2>5. ASSUME NEW p \in Procs, p # w PROVE seen'[p] = seen[p]
    BY <2>1, <2>5 DEF WorkerStep, TakeJob, Apply, FailHandler, Reread, Plan, FailFinally, Finish, TypeOK
  <2>6. QED
    BY <2>1, <2>2, <2>3, <2>4, <2>5
<1>1. ASSUME NEW m \in Mappings, Freezing(m) PROVE Freezing(m)'
  <2>1. /\ at'[Boot] = at[Boot] /\ of'[Boot] = of[Boot] /\ seen'[Boot] = seen[Boot]
        /\ at'[Client] = at[Client] /\ of'[Client] = of[Client]
        /\ todo' = todo /\ row' = row /\ down' = down
    BY <1>0, Actors
  <2>2. FreezeInitialized(m) => FreezeInitialized(m)'
    BY <2>1, FreezeInitializedKept
  <2>3. FreezeRequested(m) => FreezeRequested(m)'
    BY <2>1, FreezeRequestedKept
  <2>4. QED
    BY <1>1, <2>1, <2>2, <2>3 DEF Freezing
<1>2. ASSUME NEW m \in Mappings, Coming(m),
             \A j \in waiting : j.m = m => j \in waiting' \/ Coming(m)',
             at[w] = "apply" /\ of[w] = m => Coming(m)'
      PROVE  Coming(m)'
  <2>1. CASE \E j \in waiting : j.m = m
    BY <1>2, <2>1 DEF Coming
  <2>2. ASSUME NEW v \in Workers, at[v] = "apply", of[v] = m PROVE Coming(m)'
    <3>1. CASE v = w
      BY <1>2, <2>2, <3>1
    <3>2. CASE v # w
      <4>1. at'[v] = "apply" /\ of'[v] = m
        BY <1>0, <2>2, <3>2, Actors
      <4>2. QED
        BY <4>1 DEF Coming
    <3>3. QED
      BY <3>1, <3>2
  <2>3. QED
    BY <1>2, <2>1, <2>2 DEF Coming
<1>3. CASE TakeJob(w)
  <2>1. PICK j \in waiting :
            /\ waiting' = waiting \ {j} /\ of' = [of EXCEPT ![w] = j.m]
            /\ IF Active(j.m) THEN Goto(w, "apply") /\ UNCHANGED excused
               ELSE Goto(w, "reread") /\ Miss({j.m})
    BY <1>3 DEF TakeJob
  <2>2. at[w] = "idle" /\ value' = value
    BY <1>3 DEF TakeJob
  <2>3. of'[w] = j.m
    BY <1>0, <2>1 DEF TypeOK
  <2>4. ASSUME NEW m \in Mappings \ excused', m = j.m PROVE Coming(m)'
    <3>1. Goto(w, "apply")
      BY <2>1, <2>4 DEF Miss
    <3>2. at'[w] = "apply"
      BY <1>0, <3>1 DEF TypeOK, Goto
    <3>3. QED
      BY <2>3, <2>4, <3>2 DEF Coming
  <2>5. ASSUME NEW m \in Mappings \ excused'
        PROVE  /\ row'[m] = row[m] /\ value'[m] = value[m] /\ m \notin excused
               /\ Coming(m) => Coming(m)'
    <3>1. m \notin excused
      BY <2>1, <2>5 DEF Miss
    <3>2. \A k \in waiting : k.m = m => k \in waiting' \/ Coming(m)'
      BY <2>1, <2>4, <2>5
    <3>3. Coming(m) => Coming(m)'
      BY <1>2, <2>2, <3>2
    <3>4. QED
      BY <1>0, <2>2, <3>1, <3>3
  <2>6. QED
    BY <1>0, <1>1, <2>5, FollowedKept
<1>4. CASE Apply(w)
  <2>1. at[w] = "apply" /\ UNCHANGED <<waiting, of>>
    BY <1>4 DEF Apply, queueVars
  <2>2. PICK j \in Jobs : job[w] = {j} /\ j.m = of[w]
    BY <2>1, WorkerAtWork
  <2>3. /\ value' = [value EXCEPT ![j.m] = j.kind]
        /\ excused' = IF now \in Edges(j.m, j.kind) THEN excused \ {j.m} ELSE excused \cup {j.m}
    BY <1>4, <2>2 DEF Apply, WriteValue
  <2>4. j.m \in Mappings /\ j.kind \in Kinds
    BY DEF Jobs
  <2>5. ASSUME j.m \notin excused', Apart(WindowsOf(j.m)') PROVE Followed(j.m)'
    <3>1. now \in Edges(j.m, j.kind)
      BY <2>3, <2>5
    <3>2. value'[j.m] = j.kind
      BY <1>0, <2>3, <2>4 DEF TypeOK
    <3>3. QED
      BY <1>0, <2>4, <2>5, <3>1, <3>2, WrittenInTime
  <2>6. ASSUME NEW m \in Mappings \ excused', m # j.m
        PROVE  /\ row'[m] = row[m] /\ value'[m] = value[m] /\ m \notin excused
               /\ Coming(m) => Coming(m)'
    <3>1. value'[m] = value[m] /\ m \notin excused
      BY <1>0, <2>3, <2>4, <2>6 DEF TypeOK
    <3>2. Coming(m) => Coming(m)'
      BY <1>2, <2>1, <2>2, <2>6
    <3>3. QED
      BY <1>0, <3>1, <3>2
  <2>7. QED
    BY <1>0, <1>1, <2>4, <2>5, <2>6, FollowedKept
<1>5. CASE FailHandler(w)
  <2>1. UNCHANGED <<waiting, of, value>> /\ excused' = excused \cup {of[w]}
    BY <1>5 DEF FailHandler, Miss, queueVars
  <2>2. ASSUME NEW m \in Mappings \ excused'
        PROVE  /\ row'[m] = row[m] /\ value'[m] = value[m] /\ m \notin excused
               /\ Coming(m) => Coming(m)'
    BY <1>0, <1>2, <2>1, <2>2
  <2>3. QED
    BY <1>0, <1>1, <2>2, FollowedKept
<1>6. CASE Reread(w) \/ Plan(w) \/ FailFinally(w)
  <2>1. UNCHANGED <<waiting, value, excused>> /\ at[w] # "apply"
    BY <1>6 DEF Reread, Plan, FailFinally, queueVars
  <2>2. ASSUME NEW m \in Mappings \ excused'
        PROVE  /\ row'[m] = row[m] /\ value'[m] = value[m] /\ m \notin excused
               /\ Coming(m) => Coming(m)'
    BY <1>0, <1>2, <2>1, <2>2
  <2>3. QED
    BY <1>0, <1>1, <2>2, FollowedKept
<1>7. QED
  BY <1>3, <1>4, <1>5, <1>6 DEF WorkerStep

\* Handlers are as near as they were.
LEMMA ComingKept ==
    ASSUME NEW m \in Mappings, \A j \in waiting : j.m = m => j \in waiting',
           \A w \in Workers : at'[w] = at[w] /\ of'[w] = of[w], Coming(m)
    PROVE  Coming(m)'
BY DEF Coming

LEMMA RequestsRespect == ASSUME Base, Base', Respected, Create \/ Update \/ Remove PROVE Respected'
<1>0. TypeOK
  BY DEF Base
<1>1. ASSUME NEW n \in Mappings, NEW r, NEW point, Request(n, r, point)
      PROVE  /\ UNCHANGED <<now, value>> /\ row'[n] = r
             /\ \A m \in Mappings : m # n => row'[m] = row[m]
             /\ \A m \in Mappings : Coming(m) => Coming(m)'
             /\ \A m \in Mappings : Freezing(m) /\ row'[m] = row[m] => Freezing(m)'
             /\ point = "sync" => Freezing(n)'
  <2>1. /\ at[Client] = "idle" /\ row' = [row EXCEPT ![n] = r] /\ Goto(Client, point)
        /\ of' = [of EXCEPT ![Client] = n]
        /\ UNCHANGED <<now, down, value, waiting, seen, todo>>
    BY <1>1 DEF Request, clockVars, queueVars
  <2>2. /\ at'[Client] = point /\ of'[Client] = n /\ row'[n] = r
        /\ \A m \in Mappings : m # n => row'[m] = row[m]
        /\ \A p \in Procs : p # Client => at'[p] = at[p] /\ of'[p] = of[p]
    BY <1>0, <2>1, Actors DEF TypeOK, Goto
  <2>3. \A w \in Workers : at'[w] = at[w] /\ of'[w] = of[w]
    BY <2>2, Actors
  <2>4. ASSUME NEW m \in Mappings, Freezing(m), row'[m] = row[m] PROVE Freezing(m)'
    <3>1. ~ FreezeRequested(m)
      BY <2>1 DEF FreezeRequested
    <3>2. at'[Boot] = at[Boot] /\ of'[Boot] = of[Boot]
      BY <2>2, Actors
    <3>3. FreezeInitialized(m) => FreezeInitialized(m)'
      BY <2>1, <2>4, <3>2, FreezeInitializedKept
    <3>4. QED
      BY <2>1, <2>4, <3>1, <3>3 DEF Freezing
  <2>5. point = "sync" => Freezing(n)'
    BY <2>2 DEF Freezing, FreezeRequested
  <2>6. \A m \in Mappings : Coming(m) => Coming(m)'
    BY <2>1, <2>3, ComingKept
  <2>7. QED
    BY <2>1, <2>2, <2>4, <2>5, <2>6
<1>2. CASE Create
  <2>1. PICK n \in Mappings, r \in Configurations :
            /\ Request(n, {r}, "sync")
            /\ Miss({n} \cap {k \in Mappings : value[k] = "start"})
    BY <1>2, ChoicesTyped DEF Create
  <2>2. ASSUME n \notin excused' PROVE Followed(n)'
    <3>1. value[n] # "start"
      BY <2>1, <2>2 DEF Miss
    <3>2. value'[n] # "start" /\ Freezing(n)'
      BY <1>1, <2>1, <3>1
    <3>3. QED
      BY <3>2 DEF Followed
  <2>3. ASSUME NEW m \in Mappings \ excused', m # n
        PROVE  /\ row'[m] = row[m] /\ value'[m] = value[m] /\ m \notin excused
               /\ Coming(m) => Coming(m)'
               /\ Freezing(m) => Freezing(m)'
    BY <1>1, <2>1, <2>3 DEF Miss
  <2>4. now' = now
    BY <1>1, <2>1
  <2>5. ASSUME NEW m \in Mappings \ excused'
        PROVE  \/ Followed(m)'
               \/ /\ row'[m] = row[m] /\ value'[m] = value[m] /\ m \notin excused
                  /\ Coming(m) => Coming(m)'
                  /\ Freezing(m) => Freezing(m)'
    BY <2>2, <2>3, <2>5
  <2>6. QED
    BY <2>4, <2>5, FollowedKept
<1>3. CASE Update
  <2>0. PICK n \in Mappings : \E r \in row[n], s \in Configurations :
            /\ Request(n, {s}, "sync")
            /\ excused' = IF r.windows = s.windows THEN excused ELSE excused \cup {n}
    BY <1>3, ChoicesTyped DEF Update
  <2>1. PICK r \in row[n], s \in Configurations :
            /\ Request(n, {s}, "sync")
            /\ excused' = IF r.windows = s.windows THEN excused ELSE excused \cup {n}
    BY <2>0
  <2>2. /\ UNCHANGED <<now, value>> /\ row'[n] = {s} /\ Freezing(n)'
        /\ \A m \in Mappings : m # n => row'[m] = row[m]
        /\ \A m \in Mappings : Coming(m) => Coming(m)'
        /\ \A m \in Mappings : Freezing(m) /\ row'[m] = row[m] => Freezing(m)'
    BY <1>1, <2>1
  <2>3. ASSUME n \notin excused', Apart(WindowsOf(n)') PROVE Followed(n)'
    <3>1. r.windows = s.windows /\ n \notin excused
      BY <2>1, <2>3
    <3>2. WindowsOf(n) = r.windows
      BY <1>0, WindowsTyped
    <3>3. WindowsOf(n)' = s.windows
      BY <2>2 DEF WindowsOf
    <3>4. Held(n)' = Held(n)
      BY <2>2, <3>1, <3>2, <3>3 DEF Held
    <3>5. Followed(n)
      BY <2>1, <2>3, <3>1, <3>2, <3>3 DEF Respected
    <3>6. QED
      BY <2>2, <3>4, <3>5 DEF Followed
  <2>4. ASSUME NEW m \in Mappings \ excused', m # n
        PROVE  /\ row'[m] = row[m] /\ value'[m] = value[m] /\ m \notin excused
               /\ Coming(m) => Coming(m)'
               /\ Freezing(m) => Freezing(m)'
    BY <2>1, <2>2, <2>4
  <2>5. QED
    BY <2>2, <2>3, <2>4, FollowedKept
<1>4. CASE Remove
  <2>1. PICK n \in Mappings : Request(n, {}, "list") /\ excused' = excused
    BY <1>4 DEF Remove
  <2>2. row'[n] = {} /\ now' = now
    BY <1>1, <2>1
  <2>3. ASSUME NEW m \in Mappings \ excused', m # n
        PROVE  /\ row'[m] = row[m] /\ value'[m] = value[m] /\ m \notin excused
               /\ Coming(m) => Coming(m)'
               /\ Freezing(m) => Freezing(m)'
    BY <1>1, <2>1, <2>3
  <2>4. ASSUME NEW m \in Mappings \ excused', row'[m] # {}
        PROVE  /\ row'[m] = row[m] /\ value'[m] = value[m] /\ m \notin excused
               /\ Coming(m) => Coming(m)'
               /\ Freezing(m) => Freezing(m)'
    BY <2>2, <2>3, <2>4
  <2>5. QED
    BY <2>2, <2>4, FollowedKept
<1>5. QED
  BY <1>2, <1>3, <1>4

\* An immediate freeze leaves the variable as its windows want it.
LEMMA CheckRespects ==
    ASSUME Base, Base', Respected, NEW c \in Callers, Check(c)
    PROVE  Respected'
<1> DEFINE n == of[c]
<1>0. TypeOK /\ c \in Procs /\ n \in Mappings
  BY DEF Base, TypeOK, Procs
<1>1. /\ UNCHANGED <<now, down, row, waiting, of, seen, todo>> /\ at[c] = "check" /\ Goto(c, "plan")
      /\ IF InWindow(seen[c][n]) THEN WriteValue(n, "start", Held(n))
         ELSE UNCHANGED <<value, excused>>
  BY DEF Check, clockVars, queueVars
<1>2. at'[c] = "plan" /\ \A p \in Procs : p # c => at'[p] = at[p]
  BY <1>0, <1>1 DEF TypeOK, Goto
<1>3. \A m \in Mappings : Coming(m) => Coming(m)'
  <2>1. \A w \in Workers : at'[w] = at[w] /\ of'[w] = of[w]
    BY <1>1, <1>2, Actors DEF Callers
  <2>2. QED
    BY <1>1, <2>1, ComingKept
<1>4. ASSUME NEW m \in Mappings, Freezing(m), m # n PROVE Freezing(m)'
  <2>1. WindowsOf(m)' = WindowsOf(m)
    BY <1>1, NextWindows
  <2>2. CASE c = Boot
    <3>1. FreezeRequested(m) => FreezeRequested(m)'
      BY <1>1, <1>2, <2>2, Actors DEF FreezeRequested
    <3>2. FreezeInitialized(m) => FreezeInitialized(m)'
      BY <1>1, <1>2, <1>4, <2>1, <2>2 DEF FreezeInitialized, Ahead
    <3>3. QED
      BY <1>1, <1>4, <3>1, <3>2 DEF Freezing
  <2>3. CASE c = Client
    <3>1. ~ FreezeRequested(m)
      BY <1>4, <2>3 DEF FreezeRequested
    <3>2. at'[Boot] = at[Boot]
      BY <1>2, <2>3, Actors
    <3>3. FreezeInitialized(m) => FreezeInitialized(m)'
      BY <1>1, <3>2, FreezeInitializedKept
    <3>4. QED
      BY <1>1, <1>4, <3>1, <3>3 DEF Freezing
  <2>4. QED
    BY <2>2, <2>3 DEF Callers
<1>5. ASSUME NEW m \in Mappings \ excused', m # n
      PROVE  /\ row'[m] = row[m] /\ value'[m] = value[m] /\ m \notin excused
             /\ Coming(m) => Coming(m)'
  <2>1. value'[m] = value[m] /\ m \notin excused
    BY <1>0, <1>1, <1>5 DEF WriteValue, TypeOK
  <2>2. QED
    BY <1>1, <1>3, <1>5, <2>1
<1>6. Held(n)' = Held(n)
  BY <1>1 DEF Held, WindowsOf
<1>7. CASE InWindow(seen[c][n])
  <2>1. ASSUME n \notin excused' PROVE Followed(n)'
    <3>1. Held(n) /\ value'[n] = "start"
      BY <1>0, <1>1, <1>7, <2>1 DEF WriteValue, TypeOK
    <3>2. QED
      BY <1>1, <1>6, <3>1 DEF Followed
  <2>2. QED
    BY <1>1, <1>4, <1>5, <2>1, FollowedKept
<1>8. CASE ~ InWindow(seen[c][n])
  <2>1. UNCHANGED <<value, excused>>
    BY <1>1, <1>8
  <2>2. ASSUME Freezing(n), Held(n) PROVE Freezing(n)'
    <3>1. seen[c][n] # WindowsOf(n)
      BY <1>0, <1>8, <2>2, HeldInside
    <3>2. WindowsOf(n)' = WindowsOf(n)
      BY <1>1, NextWindows
    <3>3. CASE c = Client
      BY <1>1, <3>1, <3>3 DEF Base, Known
    <3>4. CASE c = Boot
      <4>1. FreezeRequested(n) => FreezeRequested(n)'
        BY <1>1, <1>2, <3>4, Actors DEF FreezeRequested
      <4>2. ~ FreezeInitialized(n)
        BY <1>1, <3>1, <3>4 DEF FreezeInitialized, Ahead
      <4>3. QED
        BY <1>1, <2>2, <4>1, <4>2 DEF Freezing
    <3>5. QED
      BY <3>3, <3>4 DEF Callers
  <2>3. QED
    BY <1>1, <1>3, <1>4, <1>5, <2>1, <2>2, FollowedKept
<1>9. QED
  BY <1>7, <1>8

LEMMA CallerStepRespects ==
    ASSUME Base, Base', Respected, NEW c \in Callers, FailSync(c) \/ SyncPlan(c)
    PROVE  Respected'
<1>0. TypeOK /\ c \in Procs
  BY DEF Base, Procs
<1>1. /\ UNCHANGED <<now, down, row, value, waiting, todo>> /\ Synced(c)
      /\ excused' = excused \/ excused' = excused \cup {of[c]}
      /\ at[c] = "check" => of[c] \in excused'
      /\ at[c] \in {"check", "plan"}
  BY DEF FailSync, SyncPlan, Miss, clockVars, countVars, queueVars
<1>2. /\ \A p \in Procs : p # c => at'[p] = at[p] /\ seen'[p] = seen[p] /\ of'[p] = of[p]
      /\ c = Boot => at'[c] = "load" /\ seen'[c] = seen[c]
  BY <1>0, <1>1 DEF Synced, Finish, Goto, TypeOK
<1>3. \A m \in Mappings : Coming(m) => Coming(m)'
  <2>1. \A w \in Workers : at'[w] = at[w] /\ of'[w] = of[w]
    BY <1>1, <1>2, Actors DEF Callers
  <2>2. QED
    BY <1>1, <2>1, ComingKept
<1>4. ASSUME NEW m \in Mappings \ excused', Freezing(m) PROVE Freezing(m)'
  <2>1. WindowsOf(m)' = WindowsOf(m)
    BY <1>1, NextWindows
  <2>2. CASE c = Boot
    <3>1. FreezeRequested(m) => FreezeRequested(m)'
      BY <1>1, <1>2, <2>2, Actors DEF FreezeRequested
    <3>2. FreezeInitialized(m) => FreezeInitialized(m)'
      BY <1>1, <1>2, <1>4, <2>1, <2>2 DEF FreezeInitialized, Ahead
    <3>3. QED
      BY <1>1, <1>4, <3>1, <3>2 DEF Freezing
  <2>3. CASE c = Client
    <3>1. ~ FreezeRequested(m)
      BY <1>1, <1>4, <2>3 DEF FreezeRequested
    <3>2. at'[Boot] = at[Boot] /\ seen'[Boot] = seen[Boot] /\ of'[Boot] = of[Boot]
      BY <1>2, <2>3, Actors
    <3>3. FreezeInitialized(m) => FreezeInitialized(m)'
      BY <1>1, <3>2, FreezeInitializedKept
    <3>4. QED
      BY <1>1, <1>4, <3>1, <3>3 DEF Freezing
  <2>4. QED
    BY <2>2, <2>3 DEF Callers
<1>5. QED
  BY <1>1, <1>3, <1>4, FollowedKept

LEMMA ClientRespects ==
    ASSUME Base, Base', Respected, Sync \/ List \/ Drop \/ Wipe
    PROVE  Respected'
<1>0. TypeOK /\ Client \in Procs
  BY Actors DEF Base
<1>1. /\ UNCHANGED <<now, down>> /\ todo'[Boot] = todo[Boot]
      /\ \A p \in Procs : p # Client => at'[p] = at[p] /\ of'[p] = of[p] /\ seen'[p] = seen[p]
  BY <1>0, ClientFrame
<1>2. \A w \in Workers : at'[w] = at[w] /\ of'[w] = of[w]
  BY <1>1, Actors
<1>3. ASSUME NEW m \in Mappings, row'[m] = row[m], Freezing(m), ~ FreezeRequested(m) PROVE Freezing(m)'
  <2>1. at'[Boot] = at[Boot] /\ of'[Boot] = of[Boot] /\ seen'[Boot] = seen[Boot]
    BY <1>1, Actors
  <2>2. FreezeInitialized(m) => FreezeInitialized(m)'
    BY <1>1, <1>3, <2>1, FreezeInitializedKept
  <2>3. QED
    BY <1>1, <1>3, <2>2 DEF Freezing
<1>4. CASE Sync
  <2>1. /\ UNCHANGED <<row, value, waiting, of, excused>> /\ at[Client] = "sync"
        /\ Goto(Client, IF Active(of[Client]) THEN "check" ELSE "list")
    BY <1>4 DEF Sync, queueVars
  <2>2. \A m \in Mappings : Coming(m) => Coming(m)'
    BY <1>2, <2>1, ComingKept
  <2>3. ASSUME NEW m \in Mappings, FreezeRequested(m), Active(m) PROVE FreezeRequested(m)'
    <3>1. of[Client] = m
      BY <2>3 DEF FreezeRequested
    <3>2. at'[Client] = "check" /\ of'[Client] = m
      BY <1>0, <2>1, <2>3, <3>1 DEF Goto, TypeOK
    <3>3. QED
      BY <3>2 DEF FreezeRequested
  <2>4. \A m \in Mappings : Active(m) /\ Freezing(m) => Freezing(m)'
    BY <1>3, <2>1, <2>3 DEF Freezing
  <2>5. QED
    BY <1>1, <2>1, <2>2, <2>4, FollowedKept
<1>5. CASE List
  <2>1. UNCHANGED <<row, value, waiting, excused>> /\ at[Client] = "list"
    BY <1>5 DEF List, queueVars
  <2>2. \A m \in Mappings : Coming(m) => Coming(m)'
    BY <1>2, <2>1, ComingKept
  <2>3. \A m \in Mappings : Freezing(m) => Freezing(m)'
    BY <1>3, <2>1 DEF FreezeRequested
  <2>4. QED
    BY <1>1, <2>1, <2>2, <2>3, FollowedKept
<1>6. CASE Drop
  <2>1. UNCHANGED <<row, value>> /\ at[Client] = "drop"
    BY <1>6 DEF Drop
  <2>2. /\ excused \subseteq excused'
        /\ \A j \in waiting : j \in waiting' \/ j.m \in excused'
    BY <1>6 DEF Drop, Miss
  <2>3. \A m \in Mappings \ excused' : Coming(m) => Coming(m)'
    BY <1>2, <2>2, ComingKept
  <2>4. \A m \in Mappings : Freezing(m) => Freezing(m)'
    BY <1>3, <2>1 DEF FreezeRequested
  <2>5. QED
    BY <1>1, <2>1, <2>2, <2>3, <2>4, FollowedKept
<1>7. CASE Wipe
  BY <1>7 DEF Wipe, Respected
<1>8. QED
  BY <1>4, <1>5, <1>6, <1>7

LEMMA ReinitializeRespects ==
    ASSUME Base, Base', Respected, NEW c \in Callers, Reinitialize(c) \/ Clear(c)
    PROVE  Respected'
<1>0. TypeOK /\ c \in Procs
  BY DEF Base, Procs
<1>1. /\ UNCHANGED <<now, down, row, value, of, seen>>
      /\ excused \subseteq excused' /\ \A j \in waiting : j \in waiting' \/ j.m \in excused'
      /\ at[c] \in {"idle", "clear"}
      /\ todo'[Boot] = todo[Boot] \/ c = Boot
  BY <1>0, Actors DEF Reinitialize, Clear, Miss, clockVars, countVars, queueVars, TypeOK
<1>2. \A p \in Procs : p # c => at'[p] = at[p]
  BY <1>0 DEF Reinitialize, Clear, Goto, TypeOK
<1>3. \A m \in Mappings \ excused' : Coming(m) => Coming(m)'
  <2>1. \A w \in Workers : at'[w] = at[w] /\ of'[w] = of[w]
    BY <1>1, <1>2, Actors DEF Callers
  <2>2. QED
    BY <1>1, <2>1, ComingKept
<1>4. ASSUME NEW m \in Mappings, Freezing(m) PROVE Freezing(m)'
  <2>1. CASE c = Client
    <3>1. ~ FreezeRequested(m)
      BY <1>1, <2>1 DEF FreezeRequested
    <3>2. at'[Boot] = at[Boot]
      BY <1>2, <2>1, Actors
    <3>3. FreezeInitialized(m) => FreezeInitialized(m)'
      BY <1>1, <2>1, <3>2, Actors, FreezeInitializedKept
    <3>4. QED
      BY <1>1, <1>4, <3>1, <3>3 DEF Freezing
  <2>2. CASE c = Boot /\ Reinitialize(c)
    <3>1. at'[Boot] = "clear"
      BY <1>0, <2>2 DEF Reinitialize, Goto, TypeOK
    <3>2. QED
      BY <3>1 DEF Freezing, FreezeInitialized, Ahead
  <2>3. CASE c = Boot /\ Clear(c)
    <3>1. at'[Boot] = "load" /\ todo'[Boot] = Mappings
      BY <1>0, <2>3 DEF Clear, Goto, TypeOK
    <3>2. seen'[Boot] = Unseen
      BY <1>1, <2>3 DEF Base, Known
    <3>3. QED
      BY <3>1, <3>2 DEF Freezing, FreezeInitialized, Ahead, Unseen
  <2>4. QED
    BY <2>1, <2>2, <2>3 DEF Callers
<1>5. QED
  BY <1>1, <1>3, <1>4, FollowedKept

LEMMA LoadRespects == ASSUME Base, Base', Respected, Load PROVE Respected'
<1>0. TypeOK /\ Boot \in Procs
  BY Actors DEF Base
<1>1. UNCHANGED <<now, down, row, value, waiting, excused>> /\ at[Boot] = "load"
  BY DEF Load, clockVars, queueVars
<1>2. \A p \in Procs : p # Boot => at'[p] = at[p] /\ of'[p] = of[p] /\ seen'[p] = seen[p]
  BY <1>0, BootFrame
<1>3. \A m \in Mappings : Coming(m) => Coming(m)'
  <2>1. \A w \in Workers : at'[w] = at[w] /\ of'[w] = of[w]
    BY <1>2, Actors
  <2>2. QED
    BY <1>1, <2>1, ComingKept
<1>4. ASSUME NEW m \in Mappings, Active(m), Freezing(m) PROVE Freezing(m)'
  <2>1. FreezeRequested(m) => FreezeRequested(m)'
    BY <1>2, Actors DEF FreezeRequested
  <2>2. FreezeInitialized(m) => FreezeInitialized(m)'
    <3> SUFFICES ASSUME FreezeInitialized(m) PROVE FreezeInitialized(m)'
      OBVIOUS
    <3>1. Ahead(m)
      BY <1>1 DEF FreezeInitialized
    <3>2. QED
      BY <1>4, <3>1, LoadReaches DEF FreezeInitialized, Ahead
  <2>3. QED
    BY <1>1, <1>4, <2>1, <2>2 DEF Freezing
<1>5. QED
  BY <1>1, <1>3, <1>4, FollowedKept

\* In a quiet system values follow the clock already.
LEMMA NothingComing ==
    ASSUME Base, Quiet, NEW m \in Mappings
    PROVE  ~ Coming(m) /\ ~ Freezing(m)
<1>1. at[Client] = "idle" /\ at[Boot] = "idle" /\ \A w \in Workers : at[w] = "idle"
  BY Actors DEF Quiet
<1>2. QED
  BY <1>1 DEF Quiet, Coming, Freezing, FreezeRequested, FreezeInitialized, Ahead

LEMMA TickRespects == ASSUME Base, Base', Chained, Respected, Tick PROVE Respected'
<1> DEFINE due == {j \in delayed : j.at = now'}
<1>0. TypeOK /\ now \in Times
  BY DEF Base, TypeOK
<1>1. /\ now' = (now + 1) % Week
      /\ delayed' = delayed \ due /\ waiting' = waiting \cup due
      /\ excused' = excused \cup
             ({m \in Mappings : now' \in Edges(m, "end") /\ (down \/ ~Active(m))}
              \cup {m \in broken : now' \in (Edges(m, "start") \cup Edges(m, "end"))})
      /\ UNCHANGED <<down, row, value, at, of, broken>>
      /\ Quiet \/ down
  BY DEF Tick, Miss, procVars
<1>2. now' \in Times /\ (IF now = Week - 1 THEN now' = 0 ELSE now' = now + 1)
  BY <1>0, <1>1, Tomorrow
<1> SUFFICES ASSUME NEW m \in Mappings, m \notin excused', row'[m] # {}, Apart(WindowsOf(m)'),
                    ~ Coming(m)'
             PROVE  Followed(m)'
  BY DEF Respected, Followed
<1>3. PICK ws \in SUBSET Windows : ws = WindowsOf(m)
  BY <1>0, WindowsTyped
<1>4. WindowsOf(m)' = ws /\ Active(m)' = Active(m) /\ m \notin excused /\ row[m] # {}
  BY <1>1, <1>3, NextWindows
<1>5. Apart(ws) /\ Followed(m)
  BY <1>3, <1>4 DEF Respected
<1>6. ~ Coming(m)
  BY <1>1 DEF Coming
<1>7. /\ value[m] = "start" => Held(m)
      /\ Active(m) /\ Held(m) => value[m] = "start" \/ Freezing(m)
  BY <1>5, <1>6 DEF Followed
<1>8. (Held(m) <=> HeldAt(ws, now)) /\ (Held(m)' <=> HeldAt(ws, now'))
  BY <1>3, <1>4, HeldIs, HeldIsNext
<1>9. \A kind \in Kinds : Edges(m, kind) = EdgesOf(ws, kind)
  BY <1>3 DEF Edges, EdgesOf
<1>10. ASSUME NEW kind \in Kinds, now' \in EdgesOf(ws, kind) PROVE down \/ ~ Active(m)
  <2> SUFFICES ASSUME ~ down, Active(m) PROVE FALSE
    OBVIOUS
  <2>1. Quiet /\ ws # {} /\ m \notin broken
    BY <1>1, <1>9, <1>10 DEF EdgesOf, Kinds
  <2>2. Scheduled(m)
    BY <1>3, <2>1, NobodyWaited DEF Chained, Due
  <2>3. NextRun(ws, kind) = now'
    BY <1>0, <1>1, <1>10, <2>1, NextRunOfTick
  <2> DEFINE next == [kind |-> kind, m |-> m, at |-> NextRun(ws, kind)]
  <2>4. next \in delayed /\ next.at = now' /\ next.m = m
    BY <1>3, <2>2, <2>3 DEF Scheduled
  <2>5. next \in waiting'
    BY <1>1, <2>4
  <2>6. QED
    BY <2>4, <2>5 DEF Coming
<1>11. now' \notin EdgesOf(ws, "end")
  BY <1>1, <1>9, <1>10 DEF Kinds
<1>12. CASE now' \in EdgesOf(ws, "start")
  <2>1. Held(m)'
    BY <1>2, <1>5, <1>8, <1>12, AtEdge
  <2>2. down' \/ ~ Active(m)'
    BY <1>1, <1>4, <1>10, <1>12 DEF Kinds
  <2>3. QED
    BY <2>1, <2>2 DEF Followed, Freezing
<1>13. CASE now' \notin EdgesOf(ws, "start")
  <2>1. Held(m)' <=> Held(m)
    BY <1>0, <1>2, <1>5, <1>8, <1>11, <1>13, BetweenEdges
  <2>2. ~ down => ~ Freezing(m)
    BY <1>1, NothingComing
  <2>3. down => Freezing(m)'
    BY <1>1 DEF Freezing
  <2>4. QED
    BY <1>1, <1>4, <1>7, <2>1, <2>2, <2>3 DEF Followed
<1>14. QED
  BY <1>12, <1>13

LEMMA QueueRespects == ASSUME Base, Base', Respected, Redeliver \/ Crash \/ Restart PROVE Respected'
<1>0. TypeOK /\ Boot \in Procs
  BY Actors DEF Base
<1>1. CASE Crash
  <2>1. /\ UNCHANGED <<now, row, value, waiting>> /\ down' = TRUE
        /\ excused' = excused \cup {j.m : j \in UNION {job[w] : w \in Workers}}
    BY <1>1 DEF Crash, Miss
  <2>2. \A m \in Mappings : Freezing(m)'
    BY <2>1 DEF Freezing
  <2>3. ASSUME NEW m \in Mappings \ excused', Coming(m) PROVE Coming(m)'
    <3>1. CASE \E j \in waiting : j.m = m
      BY <2>1, <3>1 DEF Coming
    <3>2. ASSUME NEW w \in Workers, at[w] = "apply", of[w] = m PROVE FALSE
      <4>1. PICK j \in Jobs : job[w] = {j} /\ j.m = of[w]
        BY <3>2, WorkerAtWork
      <4>2. m \in excused'
        BY <2>1, <3>2, <4>1
      <4>3. QED
        BY <2>3, <4>2
    <3>3. QED
      BY <2>3, <3>1, <3>2 DEF Coming
  <2>4. QED
    BY <2>1, <2>2, <2>3, FollowedKept
<1>2. CASE Restart
  <2>1. UNCHANGED <<now, row, value, waiting, of, excused>> /\ Goto(Boot, "clear")
    BY <1>2 DEF Restart, queueVars
  <2>2. at'[Boot] = "clear" /\ \A w \in Workers : at'[w] = at[w]
    BY <1>0, <2>1, Actors DEF Goto, TypeOK
  <2>3. \A m \in Mappings : Freezing(m)'
    BY <2>2 DEF Freezing, FreezeInitialized, Ahead
  <2>4. \A m \in Mappings : Coming(m) => Coming(m)'
    BY <2>1, <2>2, ComingKept
  <2>5. QED
    BY <2>1, <2>3, <2>4, FollowedKept
<1>3. CASE Redeliver
  <2>1. /\ UNCHANGED <<now, down, row, value, at, of, seen, todo, excused>>
        /\ waiting \subseteq waiting'
    BY <1>3 DEF Redeliver, clockVars, procVars
  <2>2. \A m \in Mappings : Coming(m) => Coming(m)'
    BY <2>1, ComingKept
  <2>3. \A m \in Mappings : Freezing(m) => Freezing(m)'
    BY <2>1, FreezeRequestedKept, FreezeInitializedKept DEF Freezing
  <2>4. QED
    BY <2>1, <2>2, <2>3, FollowedKept
<1>4. QED
  BY <1>1, <1>2, <1>3

LEMMA RespectedInit == Init => Respected
<1> SUFFICES ASSUME Init, NEW m \in Mappings PROVE Followed(m)
  BY DEF Respected
<1>1. value[m] = IF Active(m) /\ Held(m) THEN "start" ELSE "other"
  BY DEF Init
<1>2. QED
  BY <1>1 DEF Followed

LEMMA RespectedKept == Base /\ Base' /\ Chained /\ Respected /\ [Next]_vars => Respected'
<1> SUFFICES ASSUME Base, Base', Chained, Respected, [Next]_vars PROVE Respected'
  OBVIOUS
<1>1. CASE UNCHANGED vars
  <2>1. UNCHANGED <<now, down, row, value, waiting, at, of, seen, todo, excused>>
    BY <1>1 DEF vars, clockVars, queueVars, procVars
  <2>2. \A m \in Mappings : Coming(m) => Coming(m)'
    BY <2>1, ComingKept
  <2>3. \A m \in Mappings : Freezing(m) => Freezing(m)'
    BY <2>1, FreezeRequestedKept, FreezeInitializedKept DEF Freezing
  <2>4. QED
    BY <2>1, <2>2, <2>3, FollowedKept
<1>2. CASE \E w \in Workers : WorkerStep(w)
  BY <1>2, WorkerStepRespects
<1>3. ASSUME NEW c \in Callers, CallerStep(c) PROVE Respected'
  BY <1>3, CheckRespects, CallerStepRespects, ReinitializeRespects DEF CallerStep
<1>4. CASE ClientStep \/ BootStep
  BY <1>3, <1>4, Actors, ClientRespects, LoadRespects DEF ClientStep, BootStep
<1>5. CASE Tick \/ Redeliver \/ Restart \/ Crash
  BY <1>5, TickRespects, QueueRespects
<1>6. CASE Create \/ Update \/ Remove \/ \E c \in Callers : Reinitialize(c)
  BY <1>6, RequestsRespect, ReinitializeRespects
<1>7. QED
  BY <1>1, <1>2, <1>4, <1>5, <1>6 DEF Next, SystemStep

\* A quiet system holds the value that the windows of its active mappings call for, whichever
\* handlers, immediate freezes, requests, rejections, crashes and restarts led there, for any
\* number of each, but for the cases that WindowRespected names: a mapping has a job in the
\* very second of each of its edges (ChainAlive), and an immediate freeze ahead of it wherever
\* a start may have been missed (freeze-scheduler.service.ts, checkAndApplyImmediateFreeze).
THEOREM WindowsAlwaysRespected == Spec => []WindowRespected
<1>1. Base /\ Respected => WindowRespected
  <2> SUFFICES ASSUME Base, Respected, Quiet, NEW m \in Mappings \ excused,
                      Active(m), Apart(WindowsOf(m))
               PROVE  (value[m] = "start") = Held(m)
    BY DEF WindowRespected
  <2>1. Followed(m)
    BY DEF Respected, Active
  <2>2. ~ Coming(m) /\ ~ Freezing(m)
    BY NothingComing
  <2>3. value[m] = "start" <=> Held(m)
    BY <2>1, <2>2 DEF Followed
  <2>4. Held(m) \in BOOLEAN
    BY DEF Held
  <2>5. QED
    BY <2>3, <2>4
<1>2. Init => Base /\ Chained /\ Respected
  BY BaseInit, ChainInit, RespectedInit
<1>3. Base /\ Chained /\ Respected /\ [Next]_vars => (Base /\ Chained /\ Respected)'
  BY BaseKept, ChainKept, RespectedKept
<1>4. QED
  BY <1>1, <1>2, <1>3, PTL DEF Spec
=============================================================================
