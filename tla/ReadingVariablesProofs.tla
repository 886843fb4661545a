------------------------ MODULE ReadingVariablesProofs ------------------------
(***************************************************************************)
(* Proofs about ReadingVariables for any number of variables, requests,    *)
(* messages and payloads: the cached list of variables is the table's      *)
(* unless it is known not to be, nothing but what is named is lost between *)
(* a message and a value, and a function that is registered to read throws *)
(* only if it counts from the end.                                         *)
(***************************************************************************)
EXTENDS ReadingVariables, TLAPS, FiniteSetTheorems, FunctionTheorems, SequenceTheorems,
        WellFoundedInduction

LEMMA InitTypes == Init => TypeOK
<1> SUFFICES ASSUME Init PROVE TypeOK
  OBVIOUS
<1>1. None \in Tables
  BY DEF None, Tables
<1>2. rows \in Tables /\ got \in [Messages -> Tables]
  BY <1>1 DEF Init
<1>3. at \in [Procs -> Point]
  BY DEF Init, Point
<1>4. tx = {} /\ list = {} /\ stale = FALSE /\ updated = {} /\ calls = 0 /\ faults = 0
  BY DEF Init
<1>5. valuesOf = [m \in Messages |-> {}]
  BY DEF Init
<1>6. QED
  BY <1>2, <1>3, <1>4, <1>5 DEF TypeOK

\* An upsert, by name or by id, leaves a table.
LEMMA UpsertTypes == TypeOK /\ (ById \/ ByName) => rows' \in Tables
BY DEF ById, ByName, TypeOK, Tables

\* Every step keeps the types.
LEMMA TypesKept == TypeOK /\ [Next]_vars => TypeOK'
<1> SUFFICES ASSUME TypeOK, [Next]_vars PROVE TypeOK'
  OBVIOUS
<1> USE DEF TypeOK
<1>0. None \in Tables
  BY DEF None, Tables
<1>1. ASSUME NEW q \in Requests, Save(q) PROVE TypeOK'
  <2>1. rows' \in Tables
    BY <1>1, UpsertTypes DEF Save
  <2>2. at' \in [Procs -> Point]
    BY <1>1 DEF Save, Begin, Goto, Procs, Point
  <2>3. QED
    BY <1>1, <2>1, <2>2 DEF Save, Begin, cacheVars, messageVars
<1>2. ASSUME NEW q \in Requests, DeleteAll(q) PROVE TypeOK'
  <2>1. at' \in [Procs -> Point]
    BY <1>2 DEF DeleteAll, Begin, Goto, Procs, Point
  <2>2. QED
    BY <1>0, <1>2, <2>1 DEF DeleteAll, Begin, cacheVars, messageVars
<1>3. ASSUME NEW q \in Requests, Restore(q) PROVE TypeOK'
  <2>1. at' \in [Procs -> Point]
    BY <1>3 DEF Restore, Goto, Procs, Point
  <2>2. QED
    BY <1>3, <2>1 DEF Restore, cacheVars, messageVars
<1>4. ASSUME NEW q \in Requests, FailDel(q) PROVE TypeOK'
  <2>1. at' \in [Procs -> Point]
    BY <1>4 DEF FailDel, Goto, Procs, Point
  <2>2. stale' \in BOOLEAN
    BY <1>4 DEF FailDel, Leave
  <2>3. QED
    BY <1>4, <2>1, <2>2 DEF FailDel, Leave, dbVars, messageVars
<1>5. ASSUME NEW q \in Requests, Del(q) PROVE TypeOK'
  <2>1. at' \in [Procs -> Point]
    BY <1>5 DEF Del, Goto, Procs, Point
  <2>2. QED
    BY <1>5, <2>1 DEF Del, Drop, dbVars, messageVars, envVars
<1>6. ASSUME NEW q \in Requests, Commit(q) PROVE TypeOK'
  <2>1. at' \in [Procs -> Point]
    BY <1>6 DEF Commit, Goto, Procs, Point
  <2>2. rows' \in Tables
    BY <1>6 DEF Commit
  <2>3. QED
    BY <1>6, <2>1, <2>2 DEF Commit, cacheVars, messageVars, envVars
<1>7. ASSUME NEW q \in Requests, ClearCache(q) PROVE TypeOK'
  <2>1. at' \in [Procs -> Point]
    BY <1>7 DEF ClearCache, Goto, Procs, Point
  <2>2. QED
    BY <1>7, <2>1 DEF ClearCache, Drop, dbVars, messageVars, envVars
<1>8. ASSUME NEW m \in Messages, Continue(m)
      PROVE  /\ at' \in [Procs -> Point]
             /\ valuesOf' \in [Messages -> SUBSET {Decoded[payload] : payload \in Payloads}]
             /\ \A k \in Messages : \A v, w \in valuesOf'[k] : v = w
  <2>1. at' \in [Procs -> Point]
    BY <1>8 DEF Continue, Goto, Procs, Point
  <2>2. PICK payload \in Payloads : valuesOf' = [valuesOf EXCEPT ![m] = {Decoded[payload]}]
    BY <1>8 DEF Continue
  <2>3. QED
    BY <2>1, <2>2
<1>9. ASSUME NEW m \in Messages, Ask(m) PROVE TypeOK'
  <2>1. CASE Goto(m, "load") /\ UNCHANGED <<got, valuesOf>>
    <3>1. at' \in [Procs -> Point]
      BY <2>1 DEF Goto, Procs, Point
    <3>2. QED
      BY <1>9, <2>1, <3>1 DEF Ask, dbVars, cacheVars, envVars
  <2>2. CASE \E table \in list : got' = [got EXCEPT ![m] = table] /\ Continue(m)
    <3>1. got' \in [Messages -> Tables]
      BY <2>2
    <3>2. QED
      BY <1>8, <1>9, <2>2, <3>1 DEF Ask, dbVars, cacheVars, envVars
  <2>3. QED
    BY <1>9, <2>1, <2>2 DEF Ask
<1>10. ASSUME NEW m \in Messages, Load(m) PROVE TypeOK'
  <2>1. at' \in [Procs -> Point]
    BY <1>10 DEF Load, Goto, Procs, Point
  <2>2. QED
    BY <1>10, <2>1 DEF Load, dbVars, cacheVars, envVars
<1>11. ASSUME NEW m \in Messages, Store(m) PROVE TypeOK'
  BY <1>8, <1>11 DEF Store, dbVars, envVars
<1>12. ASSUME NEW m \in Messages, Apply(m) PROVE TypeOK'
  <2>1. at' \in [Procs -> Point]
    BY <1>12 DEF Apply, Goto, Procs, Point
  <2>2. updated' \in SUBSET Names
    BY <1>12 DEF Apply
  <2>3. QED
    BY <1>0, <1>12, <2>1, <2>2 DEF Apply, dbVars, cacheVars, envVars
<1>13. CASE Expire
  BY <1>13 DEF Expire, Drop, dbVars, messageVars, envVars
<1>14. CASE UNCHANGED vars
  BY <1>14 DEF vars, dbVars, cacheVars, messageVars, envVars
<1>15. ASSUME NEW q \in Requests, SaveElsewhere(q) PROVE TypeOK'
  <2>1. rows' \in Tables
    BY <1>15, UpsertTypes DEF SaveElsewhere
  <2>2. at' \in [Procs -> Point]
    BY <1>15 DEF SaveElsewhere, Begin, Goto, Procs, Point
  <2>3. stale' \in BOOLEAN
    BY <1>15 DEF SaveElsewhere, Leave
  <2>4. QED
    BY <1>15, <2>1, <2>2, <2>3 DEF SaveElsewhere, Begin, Leave, messageVars
<1>16. ASSUME NEW q \in Requests, Cascade(q) PROVE TypeOK'
  <2>1. at' \in [Procs -> Point]
    BY <1>16 DEF Cascade, Begin, Goto, Procs, Point
  <2>2. stale' \in BOOLEAN
    BY <1>16 DEF Cascade, Leave
  <2>3. QED
    BY <1>0, <1>16, <2>1, <2>2 DEF Cascade, Begin, Leave, messageVars
<1>17. ASSUME NEW q \in Requests, FailClear(q) PROVE TypeOK'
  <2>1. at' \in [Procs -> Point]
    BY <1>17 DEF FailClear, Goto, Procs, Point
  <2>2. stale' \in BOOLEAN
    BY <1>17 DEF FailClear, Leave
  <2>3. QED
    BY <1>17, <2>1, <2>2 DEF FailClear, Leave, dbVars, messageVars
<1>18. QED
  BY <1>1, <1>2, <1>3, <1>4, <1>5, <1>6, <1>7, <1>9, <1>10, <1>11, <1>12, <1>13, <1>14, <1>15,
     <1>16, <1>17
  DEF Next, RequestStep, MessageStep

-----------------------------------------------------------------------------
(* The cached list *)

\* A request that has yet to drop the list.
WillDrop(q) == at[q] \in {"del", "clear"}

LEMMA AgreementKept == TypeOK /\ ListAgrees /\ [Next]_vars => ListAgrees'
<1> SUFFICES ASSUME TypeOK, ListAgrees, [Next]_vars,
                    list' # {}, ~stale', \A q \in Requests : ~WillDrop(q)'
             PROVE  list' = {rows'}
  BY DEF ListAgrees, WillDrop
<1>0. \A q \in Requests : q \in Procs /\ q \notin Messages
  BY ReadingAssumption DEF Procs
<1>1. ASSUME UNCHANGED <<list, stale, rows>>, \A q \in Requests : WillDrop(q) => WillDrop(q)'
      PROVE  list' = {rows'}
  BY <1>1 DEF ListAgrees, WillDrop
<1>2. ASSUME NEW q \in Requests, Begin(q, "del") PROVE FALSE
  BY <1>0, <1>2 DEF Begin, Goto, WillDrop, TypeOK
<1>3. ASSUME NEW q \in Requests, Restore(q) PROVE list' = {rows'}
  BY <1>0, <1>1, <1>3 DEF Restore, Goto, WillDrop, TypeOK, cacheVars
<1>4. ASSUME Leave PROVE list' = {rows'}
  BY <1>4 DEF Leave
<1>5. ASSUME NEW q \in Requests, Commit(q) PROVE list' = {rows'}
  <2>1. at'[q] # "clear"
    BY DEF WillDrop
  <2>2. UNCHANGED rows /\ at' = [at EXCEPT ![q] = "idle"]
    BY <1>0, <1>5, <2>1 DEF Commit, Goto, TypeOK
  <2>3. \A p \in Requests : WillDrop(p) => WillDrop(p)'
    BY <1>0, <1>5, <2>2 DEF Commit, WillDrop, TypeOK
  <2>4. QED
    BY <1>1, <1>5, <2>2, <2>3 DEF Commit, cacheVars
<1>6. ASSUME NEW m \in Messages, NEW point, Goto(m, point)
      PROVE  \A q \in Requests : WillDrop(q) => WillDrop(q)'
  BY <1>0, <1>6 DEF Goto, WillDrop, TypeOK
<1>7. ASSUME NEW m \in Messages, Ask(m) PROVE list' = {rows'}
  BY <1>1, <1>6, <1>7 DEF Ask, Continue, dbVars, cacheVars
<1>8. ASSUME NEW m \in Messages, Load(m) \/ Apply(m) PROVE list' = {rows'}
  BY <1>1, <1>6, <1>8 DEF Load, Apply, dbVars, cacheVars
<1>9. ASSUME NEW m \in Messages, Store(m) PROVE list' = {rows'}
  BY <1>9 DEF Store, dbVars
<1>10. CASE Expire \/ \E q \in Requests : Del(q) \/ ClearCache(q)
  BY <1>10 DEF Expire, Del, ClearCache, Drop
<1>11. CASE UNCHANGED vars
  BY <1>1, <1>11 DEF vars, cacheVars, dbVars, WillDrop
<1>12. QED
  BY <1>2, <1>3, <1>4, <1>5, <1>7, <1>8, <1>9, <1>10, <1>11
  DEF Next, Save, SaveElsewhere, DeleteAll, Cascade, FailDel, FailClear, RequestStep, MessageStep

LEMMA Invariant == Spec => [](TypeOK /\ ListAgrees)
<1>1. Init => TypeOK /\ ListAgrees
  BY InitTypes DEF Init, ListAgrees
<1>2. QED
  BY <1>1, TypesKept, AgreementKept, PTL DEF Spec

\* The variables of the service keep their types: whatever requests and messages overlap,
\* a message is given a table of its configuration and values that a decoder made
\* (updateReadingVariablesByIndex, reading-variables.service.ts:134).
THEOREM ReadingTypes == Spec => []TypeOK
BY Invariant, PTL

\* The cached list is the table's but for the cases it names, for any number of
\* variables, requests and messages (createReadingVariable drops the list behind its
\* row, reading-variables.service.ts:118; a message stores it, 166).
THEOREM ListAlwaysAgrees == Spec => []ListAgrees
BY Invariant, PTL

-----------------------------------------------------------------------------
(* The order of texts *)

\* Strong induction over the natural numbers, for a set.
LEMMA SetInduction ==
    ASSUME NEW S, \A n \in Nat : (\A m \in 0 .. n - 1 : m \in S) => n \in S
    PROVE  Nat \subseteq S
<1> SUFFICES ASSUME Nat \ S # {} PROVE FALSE
  OBVIOUS
<1> DEFINE R == OpToRel(<, Nat)
<1>1. IsWellFoundedOn(R, Nat)
  BY NatLessThanWellFounded
<1>2. \A x \in Nat : \A y \in 0 .. x - 1 : y \in Nat /\ <<y, x>> \in R
  BY DEF OpToRel
<1> HIDE DEF R
<1>3. PICK x \in Nat \ S : \A y \in Nat \ S : ~(<<y, x>> \in R)
  <2>1. Nat \ S \subseteq Nat
    OBVIOUS
  <2>2. QED
    BY <1>1, <2>1, WFMin
<1>4. \A y \in 0 .. x - 1 : y \in S
  BY <1>2, <1>3
<1>5. QED
  BY <1>3, <1>4

\* A set of natural numbers has a least element.
LEMMA LeastOf == ASSUME NEW S, S \subseteq Nat, S # {} PROVE \E x \in S : \A y \in S : x <= y
<1> SUFFICES ASSUME \A x \in S : \E y \in S : ~(x <= y) PROVE FALSE
  OBVIOUS
<1> DEFINE T == Nat \ S
<1>1. \A n \in Nat : (\A m \in 0 .. n - 1 : m \in T) => n \in T
  OBVIOUS
<1>2. Nat \subseteq T
  <2> HIDE DEF T
  <2>1. QED
    BY <1>1, SetInduction
<1>3. QED
  BY <1>2

\* A function that spells the keys up to k.
Spells(f, k) ==
    /\ DOMAIN f = 0 .. k
    /\ \A n \in 0 .. k : f[n] = IF n < 10 THEN <<n>> ELSE Append(f[n \div 10], n % 10)

LEMMA TextDef == ASSUME NEW k \in Nat PROVE \E f : Spells(f, k) /\ Text(k) = f[k]
<1> DEFINE Sound(j, f) == f = [n \in 0 .. j |-> IF n < 10 THEN <<n>> ELSE Append(f[n \div 10], n % 10)]
<1> DEFINE S == {j \in Nat : \E f : Sound(j, f)}
<1>1. ASSUME NEW j \in Nat, \A m \in 0 .. j - 1 : m \in S PROVE j \in S
  <2>1. CASE j = 0
    <3> DEFINE g == [n \in 0 .. j |-> <<n>>]
    <3>1. Sound(j, g)
      BY <2>1
    <3> HIDE DEF g, Sound
    <3>2. QED
      BY <3>1
  <2>2. CASE j # 0
    <3>1. j - 1 \in S
      <4> HIDE DEF S
      <4>1. QED
        BY <1>1, <2>2
    <3> HIDE DEF Sound
    <3>2. PICK f : Sound(j - 1, f)
      BY <3>1
    <3> DEFINE g == [n \in 0 .. j |-> IF n < 10 THEN <<n>> ELSE Append(f[n \div 10], n % 10)]
    <3>3. \A n \in 0 .. j - 1 : f[n] = IF n < 10 THEN <<n>> ELSE Append(f[n \div 10], n % 10)
      BY <3>2 DEF Sound
    <3>4. \A n \in 0 .. j : g[n] = IF n < 10 THEN <<n>> ELSE Append(f[n \div 10], n % 10)
      OBVIOUS
    <3>5. \A n \in 0 .. j : n >= 10 => n \div 10 \in 0 .. j - 1
      BY <2>2
    <3>6. \A n \in 0 .. j - 1 : g[n] = f[n]
      <4> HIDE DEF g
      <4>1. \A n \in 0 .. j - 1 : n \in 0 .. j
        OBVIOUS
      <4>2. QED
        BY <3>3, <3>4, <4>1
    <3>7. \A n \in 0 .. j : g[n] = IF n < 10 THEN <<n>> ELSE Append(g[n \div 10], n % 10)
      <4> HIDE DEF g
      <4> TAKE n \in 0 .. j
      <4>1. CASE n < 10
        BY <3>4, <4>1
      <4>2. CASE ~(n < 10)
        <5>1. n \div 10 \in 0 .. j - 1
          BY <3>5, <4>2
        <5>2. g[n \div 10] = f[n \div 10]
          BY <3>6, <5>1
        <5>3. g[n] = Append(f[n \div 10], n % 10)
          BY <3>4, <4>2
        <5>4. QED
          BY <4>2, <5>2, <5>3
      <4>3. QED
        BY <4>1, <4>2
    <3>8. g = [n \in 0 .. j |-> g[n]]
      OBVIOUS
    <3> HIDE DEF g
    <3>9. Sound(j, g)
      BY <3>7, <3>8 DEF Sound
    <3>10. QED
      BY <3>9
  <2>3. QED
    BY <2>1, <2>2
<1>2. k \in S
  <2> HIDE DEF S
  <2>1. QED
    BY <1>1, SetInduction
<1> DEFINE c == CHOOSE f : Sound(k, f)
<1>3. Sound(k, c)
  <2> HIDE DEF Sound
  <2>1. QED
    BY <1>2
<1>4. Text(k) = c[k]
  BY DEF Text
<1> HIDE DEF c
<1>5. Spells(c, k)
  BY <1>3 DEF Spells
<1>6. QED
  BY <1>4, <1>5

\* A text has a digit at least, and two if its key is ten or more, and no leading zero then.
LEMMA SpellsDigits ==
    ASSUME NEW k \in Nat, NEW f, Spells(f, k)
    PROVE  \A n \in 0 .. k : /\ f[n] \in Seq(0 .. 9) /\ Len(f[n]) >= 1
                             /\ n >= 10 => Len(f[n]) >= 2 /\ f[n][1] >= 1
<1> DEFINE Good(n) == /\ f[n] \in Seq(0 .. 9) /\ Len(f[n]) >= 1
                      /\ n >= 1 => f[n][1] >= 1
                      /\ n >= 10 => Len(f[n]) >= 2
<1> DEFINE S == {n \in Nat : n <= k => Good(n)}
<1>1. ASSUME NEW n \in Nat, \A m \in 0 .. n - 1 : m \in S PROVE n \in S
  <2> SUFFICES ASSUME n <= k PROVE Good(n)
    OBVIOUS
  <2>1. CASE n < 10
    <3>1. f[n] = <<n>>
      BY <2>1 DEF Spells
    <3>2. QED
      BY <2>1, <3>1
  <2>2. CASE n >= 10
    <3>1. f[n] = Append(f[n \div 10], n % 10)
      BY <2>2 DEF Spells
    <3>2. n \div 10 \in 0 .. n - 1 /\ n \div 10 >= 1 /\ n \div 10 <= k /\ n % 10 \in 0 .. 9
      BY <2>2
    <3>3. n \div 10 \in S
      <4> HIDE DEF S
      <4>1. QED
        BY <1>1, <3>2
    <3> DEFINE t == f[n \div 10]
    <3>4. t \in Seq(0 .. 9) /\ Len(t) >= 1 /\ t[1] >= 1
      BY <3>2, <3>3
    <3> HIDE DEF t
    <3>5. Append(t, n % 10) \in Seq(0 .. 9) /\ Len(Append(t, n % 10)) = Len(t) + 1 /\ Append(t, n % 10)[1] = t[1]
      BY <3>2, <3>4
    <3>6. f[n] = Append(t, n % 10)
      BY <3>1 DEF t
    <3>7. QED
      BY <3>4, <3>5, <3>6
  <2>3. QED
    BY <2>1, <2>2
<1>2. Nat \subseteq S
  <2> HIDE DEF S
  <2>1. QED
    BY <1>1, SetInduction
<1>3. QED
  BY <1>2

LEMMA TextTypes ==
    ASSUME NEW k \in Nat
    PROVE  /\ Text(k) \in Seq(0 .. 9) /\ Len(Text(k)) >= 1
           /\ k < 10 => Text(k) = <<k>>
           /\ k >= 10 => Len(Text(k)) >= 2 /\ Text(k)[1] >= 1
<1>1. PICK f : Spells(f, k) /\ Text(k) = f[k]
  BY TextDef
<1>2. k < 10 => f[k] = <<k>>
  BY <1>1 DEF Spells
<1>3. QED
  BY <1>1, <1>2, SpellsDigits

LEMMA LastDigit == ASSUME NEW x \in Int PROVE x = 10 * (x \div 10) + (x % 10)
OBVIOUS

\* Texts tell keys apart.
LEMMA SpellsApart ==
    ASSUME NEW j \in Nat, NEW k \in Nat, NEW f, NEW g, Spells(f, j), Spells(g, k)
    PROVE  \A n \in 0 .. j, m \in 0 .. k : f[n] = g[m] => n = m
<1> DEFINE S == {n \in Nat : n <= j => \A m \in 0 .. k : f[n] = g[m] => n = m}
<1>1. ASSUME NEW n \in Nat, \A i \in 0 .. n - 1 : i \in S PROVE n \in S
  <2> SUFFICES ASSUME n <= j, NEW m \in 0 .. k, f[n] = g[m] PROVE n = m
    OBVIOUS
  <2>1. CASE n < 10 /\ m < 10
    <3>1. f[n] = <<n>> /\ g[m] = <<m>>
      BY <2>1 DEF Spells
    <3>2. <<n>>[1] = <<m>>[1]
      BY <3>1
    <3>3. QED
      BY <3>2
  <2>2. CASE n >= 10 /\ m < 10
    <3>1. Len(f[n]) >= 2 /\ g[m] = <<m>>
      BY <2>2, SpellsDigits DEF Spells
    <3>2. QED
      BY <3>1
  <2>3. CASE n < 10 /\ m >= 10
    <3>1. Len(g[m]) >= 2 /\ f[n] = <<n>>
      BY <2>3, SpellsDigits DEF Spells
    <3>2. QED
      BY <3>1
  <2>4. CASE n >= 10 /\ m >= 10
    <3>1. n \div 10 \in 0 .. n - 1 /\ n \div 10 <= j /\ m \div 10 \in 0 .. k
      BY <2>4
    <3> DEFINE s == f[n \div 10]
               t == g[m \div 10]
    <3>2. f[n] = Append(s, n % 10) /\ g[m] = Append(t, m % 10)
      BY <2>4 DEF Spells
    <3>3. s \in Seq(0 .. 9) /\ t \in Seq(0 .. 9)
      BY <3>1, SpellsDigits
    <3>4. n \div 10 \in S
      <4> HIDE DEF S
      <4>1. QED
        BY <1>1, <3>1
    <3>5. s = t => n \div 10 = m \div 10
      BY <3>1, <3>4
    <3> HIDE DEF s, t
    <3>6. n % 10 \in 0 .. 9 /\ m % 10 \in 0 .. 9
      OBVIOUS
    <3>7. s = t /\ n % 10 = m % 10
      <4>1. Append(s, n % 10) = Append(t, m % 10)
        BY <3>2
      <4>2. Len(s) = Len(t)
        BY <3>3, <3>6, <4>1
      <4>3. \A i \in 1 .. Len(s) : s[i] = t[i]
        BY <3>3, <3>6, <4>1, <4>2
      <4>4. s = t
        BY <3>3, <4>2, <4>3
      <4>5. QED
        BY <3>3, <3>6, <4>1, <4>2, <4>4
    <3>8. n = 10 * (n \div 10) + (n % 10) /\ m = 10 * (m \div 10) + (m % 10)
      <4>1. m \in Nat
        OBVIOUS
      <4>2. QED
        BY <4>1, LastDigit
    <3>9. QED
      BY <3>5, <3>7, <3>8
  <2>5. QED
    BY <2>1, <2>2, <2>3, <2>4
<1>2. Nat \subseteq S
  <2> HIDE DEF S
  <2>1. QED
    BY <1>1, SetInduction
<1>3. QED
  BY <1>2

LEMMA TextsApart == ASSUME NEW j \in Nat, NEW k \in Nat, Text(j) = Text(k) PROVE j = k
<1>1. PICK f : Spells(f, j) /\ Text(j) = f[j]
  BY TextDef
<1>2. PICK g : Spells(g, k) /\ Text(k) = g[k]
  BY TextDef
<1>3. \A n \in 0 .. j, m \in 0 .. k : f[n] = g[m] => n = m
  BY <1>1, <1>2, SpellsApart
<1>4. f[j] = g[k]
  BY <1>1, <1>2
<1>5. j \in 0 .. j /\ k \in 0 .. k
  OBVIOUS
<1>6. QED
  BY <1>3, <1>4, <1>5

\* The order of texts is one.
LEMMA PrecedesOrders ==
    ASSUME NEW s \in Seq(Int), NEW t \in Seq(Int), NEW u \in Seq(Int)
    PROVE  /\ ~Precedes(s, s)
           /\ Precedes(s, t) /\ Precedes(t, u) => Precedes(s, u)
           /\ s # t => Precedes(s, t) \/ Precedes(t, s)
<1> DEFINE Splits(a, b, i) == /\ i \in Nat /\ 1 <= i /\ i <= Len(a) /\ i <= Len(b) /\ a[i] < b[i]
                              /\ \A h \in Nat : 1 <= h /\ h < i => a[h] = b[h]
           Begins(a, b) == Len(a) < Len(b) /\ \A h \in Nat : 1 <= h /\ h <= Len(a) => a[h] = b[h]
<1>0. /\ Len(s) \in Nat /\ Len(t) \in Nat /\ Len(u) \in Nat
      /\ \A i \in Nat : 1 <= i /\ i <= Len(s) => s[i] \in Int
      /\ \A i \in Nat : 1 <= i /\ i <= Len(t) => t[i] \in Int
      /\ \A i \in Nat : 1 <= i /\ i <= Len(u) => u[i] \in Int
  OBVIOUS
<1>1. \A a, b \in Seq(Int) : Precedes(a, b) <=> (\E i : Splits(a, b, i)) \/ Begins(a, b)
  <2> TAKE a, b \in Seq(Int)
  <2>1. /\ DOMAIN a = 1 .. Len(a) /\ DOMAIN b = 1 .. Len(b) /\ Len(a) \in Nat /\ Len(b) \in Nat
    OBVIOUS
  <2>2. ASSUME NEW i \in DOMAIN a \cap DOMAIN b, a[i] < b[i], \A h \in 1 .. i - 1 : a[h] = b[h]
        PROVE  \E j : Splits(a, b, j)
    <3>1. Splits(a, b, i)
      BY <2>1, <2>2
    <3> HIDE DEF Splits
    <3>2. QED
      BY <3>1
  <2>3. ASSUME NEW i, Splits(a, b, i)
        PROVE  \E j \in DOMAIN a \cap DOMAIN b : a[j] < b[j] /\ \A h \in 1 .. j - 1 : a[h] = b[h]
    <3>1. i \in DOMAIN a \cap DOMAIN b /\ a[i] < b[i] /\ \A h \in 1 .. i - 1 : a[h] = b[h]
      BY <2>1, <2>3
    <3>2. QED
      BY <3>1
  <2>4. (Len(a) < Len(b) /\ \A h \in DOMAIN a : a[h] = b[h]) <=> Begins(a, b)
    <3>1. \A h : h \in DOMAIN a <=> h \in Nat /\ 1 <= h /\ h <= Len(a)
      BY <2>1
    <3>2. QED
      BY <3>1, Zenon
  <2> HIDE DEF Splits, Begins
  <2>5. QED
    BY <2>2, <2>3, <2>4 DEF Precedes
<1>2. ~Precedes(s, s)
  <2>1. \A i : ~Splits(s, s, i)
    BY <1>0
  <2>2. ~Begins(s, s)
    BY <1>0
  <2> HIDE DEF Splits, Begins
  <2>3. QED
    BY <1>1, <2>1, <2>2
<1>3. ASSUME Precedes(s, t), Precedes(t, u) PROVE Precedes(s, u)
  <2>1. ASSUME NEW i, NEW j, Splits(s, t, i), Splits(t, u, j) PROVE \E h : Splits(s, u, h)
    <3>1. CASE i <= j
      <4>1. s[i] < u[i]
        <5>1. i \in Nat /\ j \in Nat /\ s[i] \in Int /\ t[i] \in Int /\ u[i] \in Int /\ s[i] < t[i]
          BY <1>0, <2>1, <3>1
        <5>2. CASE i < j
          <6>1. t[i] = u[i]
            BY <2>1, <5>1, <5>2
          <6>2. QED
            BY <5>1, <6>1
        <5>3. CASE i = j
          <6>1. t[i] < u[i]
            BY <2>1, <5>3
          <6>2. QED
            BY <5>1, <6>1
        <5>4. QED
          BY <3>1, <5>1, <5>2, <5>3
      <4>2. \A h \in Nat : 1 <= h /\ h < i => s[h] = u[h]
        BY <2>1, <3>1
      <4>3. i \in Nat /\ 1 <= i /\ i <= Len(s) /\ i <= Len(u)
        <5>1. i \in Nat /\ 1 <= i /\ i <= Len(s) /\ j \in Nat /\ j <= Len(u)
          BY <2>1
        <5>2. QED
          BY <1>0, <3>1, <5>1
      <4>4. Splits(s, u, i)
        BY <4>1, <4>2, <4>3, Zenon
      <4> HIDE DEF Splits
      <4>5. QED
        BY <4>4
    <3>2. CASE ~(i <= j)
      <4>1. i \in Nat /\ 1 <= i /\ i <= Len(s) /\ j \in Nat /\ 1 <= j /\ j <= Len(u) /\ t[j] < u[j]
        BY <2>1
      <4>2. j < i /\ j <= Len(s)
        BY <1>0, <3>2, <4>1
      <4>3. s[j] = t[j]
        BY <2>1, <4>1, <4>2
      <4>4. s[j] < u[j]
        BY <4>1, <4>3
      <4>5. \A h \in Nat : 1 <= h /\ h < j => s[h] = u[h]
        <5>1. \A h \in Nat : 1 <= h /\ h < j => t[h] = u[h]
          BY <2>1, Zenon
        <5>2. \A h \in Nat : 1 <= h /\ h < i => s[h] = t[h]
          BY <2>1, Zenon
        <5> HIDE DEF Splits
        <5>3. QED
          BY <4>1, <4>2, <5>1, <5>2
      <4>6. Splits(s, u, j)
        BY <4>1, <4>2, <4>4, <4>5, Zenon
      <4> HIDE DEF Splits
      <4>7. QED
        BY <4>6
    <3>3. QED
      BY <3>1, <3>2
  <2>2. ASSUME NEW i, Splits(s, t, i), Begins(t, u) PROVE \E h : Splits(s, u, h)
    <3>1. Splits(s, u, i)
      BY <1>0, <2>2
    <3> HIDE DEF Splits
    <3>2. QED
      BY <3>1
  <2>3. ASSUME NEW j, Begins(s, t), Splits(t, u, j) PROVE (\E h : Splits(s, u, h)) \/ Begins(s, u)
    <3>1. CASE j <= Len(s)
      <4>1. Splits(s, u, j)
        BY <1>0, <2>3, <3>1
      <4> HIDE DEF Splits
      <4>2. QED
        BY <4>1
    <3>2. CASE ~(j <= Len(s))
      <4>1. Begins(s, u)
        BY <1>0, <2>3, <3>2
      <4>2. QED
        BY <4>1
    <3>3. QED
      BY <3>1, <3>2
  <2>4. ASSUME Begins(s, t), Begins(t, u) PROVE Begins(s, u)
    BY <1>0, <2>4
  <2> HIDE DEF Splits, Begins
  <2>5. QED
    BY <1>1, <1>3, <2>1, <2>2, <2>3, <2>4
<1>4. ASSUME s # t PROVE Precedes(s, t) \/ Precedes(t, s)
  <2> DEFINE apart == {h \in DOMAIN s \cap DOMAIN t : s[h] # t[h]}
  <2>1. CASE apart = {}
    <3>1. \A h \in DOMAIN s \cap DOMAIN t : s[h] = t[h]
      BY <2>1
    <3>2. Len(s) # Len(t)
      BY <1>4, <3>1
    <3>3. Begins(s, t) \/ Begins(t, s)
      BY <3>1, <3>2
    <3> HIDE DEF Begins, Splits
    <3>4. QED
      BY <1>1, <3>3
  <2>2. CASE apart # {}
    <3>1. PICK i \in apart : \A h \in apart : i <= h
      <4>1. apart \subseteq Nat
        OBVIOUS
      <4> HIDE DEF apart
      <4>2. QED
        BY <2>2, <4>1, LeastOf
    <3>2. i \in DOMAIN s \cap DOMAIN t /\ s[i] # t[i] /\ \A h \in 1 .. i - 1 : s[h] = t[h]
      BY <3>1
    <3>3. Splits(s, t, i) \/ Splits(t, s, i)
      BY <3>2
    <3> HIDE DEF Begins, Splits
    <3>4. QED
      BY <1>1, <3>3
  <2>3. QED
    BY <2>1, <2>2
<1>5. QED
  BY <1>2, <1>3, <1>4

LEMMA BeforeOrders ==
    ASSUME NEW j \in Nat, NEW k \in Nat, NEW l \in Nat
    PROVE  /\ ~Before(j, j)
           /\ Before(j, k) /\ Before(k, l) => Before(j, l)
           /\ j # k => Before(j, k) \/ Before(k, j)
<1>1. Text(j) \in Seq(Int) /\ Text(k) \in Seq(Int) /\ Text(l) \in Seq(Int)
  <2>1. \A s \in Seq(0 .. 9) : s \in Seq(Int)
    OBVIOUS
  <2>2. QED
    BY <2>1, TextTypes
<1>2. j # k => Text(j) # Text(k)
  BY TextsApart
<1>3. QED
  BY <1>1, <1>2, PrecedesOrders DEF Before
-----------------------------------------------------------------------------
(* Decoders *)

\* Keys of one digit are in the order of their numbers; "10" comes behind "0" and "1",
\* and before every other (sort, json.decoder.ts:18).
LEMMA OneDigitOrder == \A j, k \in 0 .. 9 : Before(j, k) <=> j < k
<1> TAKE j, k \in 0 .. 9
<1>1. Text(j) = <<j>> /\ Text(k) = <<k>>
  <2>1. j \in Nat /\ j < 10 /\ k \in Nat /\ k < 10
    OBVIOUS
  <2>2. QED
    BY <2>1, TextTypes
<1>2. Precedes(<<j>>, <<k>>) <=> j < k
  <2>1. \A i : i \in DOMAIN <<j>> \cap DOMAIN <<k>> <=> i = 1
    OBVIOUS
  <2>2. ~(Len(<<j>>) < Len(<<k>>))
    OBVIOUS
  <2>3. Precedes(<<j>>, <<k>>) <=> <<j>>[1] < <<k>>[1] /\ \A h \in 1 .. 1 - 1 : <<j>>[h] = <<k>>[h]
    BY <2>1, <2>2, Zenon DEF Precedes
  <2>4. QED
    BY <2>3
<1>3. QED
  BY <1>1, <1>2 DEF Before

LEMMA TextOfTen == Text(10) = <<1, 0>>
<1>1. PICK f : Spells(f, 10) /\ Text(10) = f[10]
  BY TextDef
<1>2. f[10] = Append(f[1], 0)
  <2>1. \A x \in Int : x = 10 => x \div 10 = 1 /\ x % 10 = 0
    BY SMT
  <2>2. QED
    BY <1>1, <2>1 DEF Spells
<1>3. f[1] = <<1>>
  BY <1>1 DEF Spells
<1>4. Append(<<1>>, 0) = <<1, 0>>
  <2>1. <<1>> \in Seq(Nat) /\ Len(<<1>>) = 1
    OBVIOUS
  <2>2. Append(<<1>>, 0) \in Seq(Nat) /\ Len(Append(<<1>>, 0)) = 2
    BY <2>1
  <2>3. Append(<<1>>, 0)[1] = 1 /\ Append(<<1>>, 0)[2] = 0
    BY <2>1
  <2>4. \A s \in Seq(Nat) : Len(s) = 2 /\ s[1] = 1 /\ s[2] = 0 => s = <<1, 0>>
    OBVIOUS
  <2>5. QED
    BY <2>2, <2>3, <2>4
<1>5. QED
  BY <1>1, <1>2, <1>3, <1>4

LEMMA OneIsFirst ==
    /\ \A k \in Nat : k # 0 => Before(0, k)
    /\ \A k \in Nat \ {0, 1} : Before(1, k)
    /\ \A k \in Nat \ {0, 1, 10} : Before(10, k)
<1> SUFFICES ASSUME NEW k \in Nat, k # 0
             PROVE  Before(0, k) /\ (k # 1 => Before(1, k)) /\ (k \notin {1, 10} => Before(10, k))
  OBVIOUS
<1>0. Text(0) = <<0>> /\ Text(1) = <<1>> /\ Text(10) = <<1, 0>>
  BY TextTypes, TextOfTen
<1>1. CASE k < 10
  <2>1. Text(k) = <<k>> /\ k >= 1
    BY <1>1, TextTypes
  <2>2. Precedes(<<0>>, <<k>>) /\ (k # 1 => Precedes(<<1>>, <<k>>) /\ Precedes(<<1, 0>>, <<k>>))
    <3>1. Precedes(<<0>>, <<k>>)
      BY <2>1 DEF Precedes
    <3>2. k # 1 => Precedes(<<1>>, <<k>>)
      BY <2>1 DEF Precedes
    <3>3. ASSUME k # 1 PROVE Precedes(<<1, 0>>, <<k>>)
      <4>1. 1 \in DOMAIN <<1, 0>> \cap DOMAIN <<k>> /\ <<1, 0>>[1] < <<k>>[1] /\ \A h \in 1 .. 1 - 1 : <<1, 0>>[h] = <<k>>[h]
        BY <2>1, <3>3
      <4>2. QED
        BY <4>1 DEF Precedes
    <3>4. QED
      BY <3>1, <3>2, <3>3
  <2>3. QED
    BY <1>0, <2>1, <2>2 DEF Before
<1>2. CASE k >= 10
  <2> DEFINE t == Text(k)
  <2>1. t \in Seq(0 .. 9) /\ Len(t) >= 2 /\ t[1] >= 1
    BY <1>2, TextTypes
  <2>2. t[1] \in 0 .. 9 /\ t[2] \in 0 .. 9
    BY <2>1
  <2>3. k # 10 => t # <<1, 0>>
    BY TextsApart, TextOfTen
  <2> HIDE DEF t
  <2>4. Precedes(<<0>>, t)
    <3>1. 1 \in DOMAIN <<0>> \cap DOMAIN t /\ <<0>>[1] < t[1] /\ \A h \in 1 .. 1 - 1 : <<0>>[h] = t[h]
      BY <2>1, <2>2
    <3>2. QED
      BY <3>1 DEF Precedes
  <2>5. Precedes(<<1>>, t)
    <3>1. CASE t[1] = 1
      <4>1. Len(<<1>>) < Len(t) /\ \A h \in DOMAIN <<1>> : <<1>>[h] = t[h]
        BY <2>1, <3>1
      <4>2. QED
        BY <4>1 DEF Precedes
    <3>2. CASE t[1] # 1
      <4>1. 1 \in DOMAIN <<1>> \cap DOMAIN t /\ <<1>>[1] < t[1] /\ \A h \in 1 .. 1 - 1 : <<1>>[h] = t[h]
        BY <2>1, <2>2, <3>2
      <4>2. QED
        BY <4>1 DEF Precedes
    <3>3. QED
      BY <3>1, <3>2
  <2>6. ASSUME k # 10 PROVE Precedes(<<1, 0>>, t)
    <3>1. CASE t[1] # 1
      <4>1. 1 \in DOMAIN <<1, 0>> \cap DOMAIN t /\ <<1, 0>>[1] < t[1] /\ \A h \in 1 .. 1 - 1 : <<1, 0>>[h] = t[h]
        BY <2>1, <2>2, <3>1
      <4>2. QED
        BY <4>1 DEF Precedes
    <3>2. CASE t[1] = 1 /\ t[2] # 0
      <4>1. 2 \in DOMAIN <<1, 0>> \cap DOMAIN t /\ <<1, 0>>[2] < t[2] /\ \A h \in 1 .. 2 - 1 : <<1, 0>>[h] = t[h]
        BY <2>1, <2>2, <3>2
      <4>2. QED
        BY <4>1 DEF Precedes
    <3>3. CASE t[1] = 1 /\ t[2] = 0
      <4>1. Len(t) # 2
        BY <2>1, <2>3, <2>6, <3>3
      <4>2. Len(<<1, 0>>) < Len(t) /\ \A h \in DOMAIN <<1, 0>> : <<1, 0>>[h] = t[h]
        BY <2>1, <3>3, <4>1
      <4>3. QED
        BY <4>2 DEF Precedes
    <3>4. QED
      BY <3>1, <3>2, <3>3
  <2>7. QED
    BY <1>0, <2>4, <2>5, <2>6 DEF Before, t
<1>3. QED
  BY <1>1, <1>2

LEMMA TenIsThird ==
    /\ \A j \in Nat : Before(j, 10) <=> j \in {0, 1}
    /\ \A j \in Nat : ~Before(j, 0)
    /\ \A j \in Nat : Before(j, 1) <=> j = 0
    /\ \A k \in Nat \ {0, 1, 10} : Before(0, k) /\ Before(1, k) /\ Before(10, k)
<1>1. \A j, k \in Nat : ~(Before(j, k) /\ Before(k, j)) /\ ~Before(j, j)
  BY BeforeOrders
<1>2. QED
  BY <1>1, OneIsFirst

LEMMA ThreeElements == IsFiniteSet({0, 1}) /\ Cardinality({0, 1}) = 2 /\ Cardinality({0, 1, 10}) = 3
<1>1. IsFiniteSet({0}) /\ Cardinality({0}) = 1
  BY FS_Singleton
<1>2. {0, 1} = {0} \cup {1} /\ {0, 1, 10} = {0, 1} \cup {10}
  OBVIOUS
<1>3. IsFiniteSet({0, 1}) /\ Cardinality({0, 1}) = 2
  BY <1>1, <1>2, FS_AddElement
<1>4. QED
  BY <1>2, <1>3, FS_AddElement

Rank(keys, k) == Cardinality({j \in keys : Before(j, k)})

LEMMA SortedIs ==
    ASSUME NEW items
    PROVE  LET keys == 0 .. Len(items) - 1
           IN SortedByKey(items) =
                [i \in DOMAIN items |-> items[(CHOOSE k \in keys : Rank(keys, k) = i - 1) + 1]]
BY DEF SortedByKey, Rank

\* Every place has one key: sorting loses no value.
LEMMA RanksApart ==
    ASSUME NEW n \in Nat
    PROVE  LET keys == 0 .. n - 1
           IN /\ \A k \in keys : Rank(keys, k) \in keys
              /\ \A j, k \in keys : Rank(keys, j) = Rank(keys, k) => j = k
              /\ \A i \in keys : \E k \in keys : Rank(keys, k) = i
<1> DEFINE keys == 0 .. n - 1
           before(k) == {j \in keys : Before(j, k)}
<1>1. IsFiniteSet(keys) /\ Cardinality(keys) = n
  BY n - 1 \in Int, FS_Interval
<1>2. \A k \in keys : IsFiniteSet(before(k)) /\ Cardinality(before(k)) \in Nat
  <2> TAKE k \in keys
  <2>1. before(k) \in SUBSET keys
    OBVIOUS
  <2> HIDE DEF keys, before
  <2>2. QED
    BY <1>1, <2>1, FS_Subset, FS_CardinalityType
<1>3. ASSUME NEW j \in keys, NEW k \in keys, Before(j, k)
      PROVE  Cardinality(before(j)) < Cardinality(before(k))
  <2>1. before(j) \cup {j} \subseteq before(k)
    BY <1>3, BeforeOrders
  <2>2. j \notin before(j)
    BY BeforeOrders
  <2> HIDE DEF before, keys
  <2>3. Cardinality(before(j) \cup {j}) = Cardinality(before(j)) + 1
    BY <1>2, <2>2, FS_AddElement
  <2>4. Cardinality(before(j) \cup {j}) <= Cardinality(before(k))
    BY <1>2, <2>1, FS_Subset
  <2>5. QED
    BY <1>2, <2>3, <2>4
<1>4. \A k \in keys : Rank(keys, k) \in keys
  <2> TAKE k \in keys
  <2>1. before(k) \in SUBSET (keys \ {k})
    BY BeforeOrders
  <2>2. IsFiniteSet(keys \ {k}) /\ Cardinality(keys \ {k}) = n - 1
    <3> HIDE DEF keys
    <3>1. QED
      BY <1>1, FS_RemoveElement
  <2>3. Cardinality(before(k)) <= n - 1
    <3> HIDE DEF before, keys
    <3>1. QED
      BY <2>1, <2>2, FS_Subset
  <2>4. Rank(keys, k) = Cardinality(before(k))
    BY DEF Rank
  <2> HIDE DEF before
  <2>5. QED
    BY <1>2, <2>3, <2>4
<1>5. \A j, k \in keys : Rank(keys, j) = Rank(keys, k) => j = k
  <2> TAKE j, k \in keys
  <2>1. Rank(keys, j) = Cardinality(before(j)) /\ Rank(keys, k) = Cardinality(before(k))
    BY DEF Rank
  <2>2. j # k => Before(j, k) \/ Before(k, j)
    BY BeforeOrders
  <2> HIDE DEF before
  <2>3. QED
    BY <1>2, <1>3, <2>1, <2>2
<1>6. \A i \in keys : \E k \in keys : Rank(keys, k) = i
  <2> DEFINE rank == [k \in keys |-> Rank(keys, k)]
  <2> HIDE DEF keys
  <2>1. rank \in Injection(keys, keys)
    BY <1>4, <1>5, Fun_IsInj
  <2>2. rank \in Surjection(keys, keys)
    BY <1>1, <2>1, FS_Injection
  <2>3. QED
    BY <2>2 DEF Surjection
<1>7. QED
  BY <1>4, <1>5, <1>6

LEMMA SortedTypes ==
    ASSUME NEW items \in Seq(Bytes)
    PROVE  SortedByKey(items) \in Seq(Bytes) /\ Len(SortedByKey(items)) = Len(items)
<1> DEFINE n == Len(items)
           keys == 0 .. n - 1
           key(i) == CHOOSE k \in keys : Rank(keys, k) = i - 1
<1>1. \A i \in 1 .. n : key(i) \in keys
  <2> TAKE i \in 1 .. n
  <2>1. n \in Nat /\ i - 1 \in keys
    OBVIOUS
  <2>2. \E k \in keys : Rank(keys, k) = i - 1
    BY <2>1, RanksApart
  <2>3. QED
    BY <2>2
<1>2. SortedByKey(items) = [i \in 1 .. n |-> items[key(i) + 1]]
  BY DOMAIN items = 1 .. n, SortedIs
<1> HIDE DEF key
<1>3. \A i \in 1 .. n : items[key(i) + 1] \in Bytes
  BY <1>1
<1>4. n \in Nat
  OBVIOUS
<1> HIDE DEF n
<1>5. QED
  BY <1>2, <1>3, <1>4 DEF n

\* Up to ten values keep their places.
LEMMA SortedKeepsTen ==
    ASSUME NEW items \in Seq(Bytes), Len(items) <= 10
    PROVE  SortedByKey(items) = items
<1> DEFINE keys == 0 .. Len(items) - 1
<1>1. \A k \in keys : Rank(keys, k) = k
  <2> TAKE k \in keys
  <2>1. {j \in keys : Before(j, k)} = 0 .. k - 1
    <3>1. keys \subseteq 0 .. 9
      OBVIOUS
    <3> HIDE DEF keys
    <3>2. \A j \in keys : Before(j, k) <=> j < k
      BY <3>1, OneDigitOrder
    <3>3. \A j : j \in 0 .. k - 1 <=> j \in keys /\ j < k
      BY DEF keys
    <3>4. QED
      BY <3>2, <3>3, Zenon
  <2>2. Cardinality(0 .. k - 1) = k
    BY FS_Interval
  <2>3. QED
    BY <2>1, <2>2 DEF Rank
<1>2. \A i \in DOMAIN items : (CHOOSE k \in keys : Rank(keys, k) = i - 1) = i - 1
  <2> TAKE i \in DOMAIN items
  <2>1. i - 1 \in keys
    OBVIOUS
  <2>2. QED
    BY <1>1, <2>1
<1>3. SortedByKey(items) = [i \in DOMAIN items |-> items[(i - 1) + 1]]
  BY <1>2, SortedIs
<1>4. \A i \in DOMAIN items : (i - 1) + 1 = i
  OBVIOUS
<1>5. QED
  BY <1>3, <1>4

\* Of more than ten values the eleventh comes third.
LEMMA SortedMovesEleventh ==
    ASSUME NEW items \in Seq(Bytes), Len(items) > 10
    PROVE  SortedByKey(items)[3] = items[11]
<1> DEFINE keys == 0 .. Len(items) - 1
<1>1. 0 \in keys /\ 1 \in keys /\ 10 \in keys /\ keys \subseteq Nat /\ IsFiniteSet(keys)
  <2>1. IsFiniteSet(keys)
    BY Len(items) - 1 \in Int, FS_Interval
  <2>2. QED
    BY <2>1
<1> HIDE DEF keys
<1>2. Rank(keys, 10) = 2
  <2>1. {j \in keys : Before(j, 10)} = {0, 1}
    BY <1>1, TenIsThird
  <2>2. QED
    BY <2>1, ThreeElements DEF Rank
<1>3. \A k \in keys : Rank(keys, k) = 2 => k = 10
  <2> TAKE k \in keys
  <2> DEFINE before == {j \in keys : Before(j, k)}
  <2>1. CASE k = 0
    <3>1. before = {}
      BY <1>1, <2>1, TenIsThird
    <3>2. Cardinality(before) = 0
      BY <3>1, FS_EmptySet
    <3>3. QED
      BY <3>2 DEF Rank
  <2>2. CASE k = 1
    <3>1. before = {0}
      BY <1>1, <2>2, TenIsThird
    <3>2. Cardinality(before) = 1
      BY <3>1, FS_Singleton
    <3>3. QED
      BY <3>2 DEF Rank
  <2>3. CASE k \notin {0, 1, 10}
    <3>1. {0, 1, 10} \subseteq before
      BY <1>1, <2>3, TenIsThird
    <3>2. before \in SUBSET keys
      OBVIOUS
    <3>3. IsFiniteSet(before) /\ Cardinality(before) \in Nat
      BY <1>1, <3>2, FS_Subset, FS_CardinalityType
    <3>4. Cardinality({0, 1, 10}) <= Cardinality(before)
      BY <3>1, <3>3, FS_Subset
    <3>5. Cardinality(before) >= 3
      BY <3>3, <3>4, ThreeElements
    <3>6. QED
      BY <3>3, <3>5 DEF Rank
  <2>4. QED
    BY <2>1, <2>2, <2>3
<1>4. (CHOOSE k \in keys : Rank(keys, k) = 3 - 1) = 10
  BY <1>1, <1>2, <1>3
<1>5. 3 \in DOMAIN items
  OBVIOUS
<1>6. SortedByKey(items)[3] = items[(CHOOSE k \in keys : Rank(keys, k) = 3 - 1) + 1]
  BY <1>5, SortedIs DEF keys
<1>7. SortedByKey(items)[3] = items[10 + 1]
  BY <1>4, <1>6
<1>8. QED
  BY <1>7

\* A limit cuts the values behind it off, and none other.
LEMMA LimitCuts ==
    ASSUME NEW S, NEW values \in Seq(S), NEW limit \in Nat
    PROVE  /\ Limited(values, limit) \in Seq(S)
           /\ Len(Limited(values, limit)) = IF limit \in 1 .. Len(values) THEN limit ELSE Len(values)
           /\ \A i \in 1 .. Len(Limited(values, limit)) : Limited(values, limit)[i] = values[i]
<1>1. CASE limit > 0 /\ limit < Len(values)
  <2>1. Limited(values, limit) = SubSeq(values, 1, limit)
    BY <1>1 DEF Limited
  <2>2. /\ SubSeq(values, 1, limit) \in Seq(S)
        /\ Len(SubSeq(values, 1, limit)) = limit
        /\ \A i \in 1 .. limit : SubSeq(values, 1, limit)[i] = values[i]
    BY <1>1
  <2>3. QED
    BY <1>1, <2>1, <2>2
<1>2. CASE ~(limit > 0 /\ limit < Len(values))
  <2>1. Limited(values, limit) = values
    BY <1>2 DEF Limited
  <2>2. QED
    BY <1>2, <2>1
<1>3. QED
  BY <1>1, <1>2

\* Two digits are a byte, the first of them the heavier (hex.decoder.ts:19-22).
LEMMA ChunksAre ==
    ASSUME NEW digits \in Seq(Digits)
    PROVE  /\ HexChunks(digits) \in Seq(Bytes)
           /\ Len(HexChunks(digits)) = (Len(digits) + 1) \div 2
           /\ \A i \in 1 .. (Len(digits) + 1) \div 2 :
                /\ HexChunks(digits)[i] \div 16 = digits[2 * i - 1]
                /\ HexChunks(digits)[i] % 16 = IF 2 * i > Len(digits) THEN 0 ELSE digits[2 * i]
<1> DEFINE n == (Len(digits) + 1) \div 2
           low(i) == IF 2 * i > Len(digits) THEN 0 ELSE digits[2 * i]
           chunk(i) == 16 * digits[2 * i - 1] + low(i)
<1>1. n \in Nat /\ \A i \in 1 .. n : 2 * i - 1 \in 1 .. Len(digits)
  OBVIOUS
<1>2. \A i \in 1 .. n : digits[2 * i - 1] \in 0 .. 15 /\ low(i) \in 0 .. 15
  <2> TAKE i \in 1 .. n
  <2>1. digits[2 * i - 1] \in 0 .. 15
    BY <1>1 DEF Digits
  <2>2. CASE 2 * i > Len(digits)
    BY <2>1, <2>2
  <2>3. CASE ~(2 * i > Len(digits))
    <3>1. 2 * i \in 1 .. Len(digits)
      BY <2>3
    <3>2. digits[2 * i] \in 0 .. 15
      BY <3>1 DEF Digits
    <3>3. QED
      BY <2>1, <2>3, <3>2
  <2>4. QED
    BY <2>2, <2>3
<1>3. HexChunks(digits) = [i \in 1 .. n |-> chunk(i)]
  BY DEF HexChunks
<1> HIDE DEF n, low
<1>4. \A i \in 1 .. n : chunk(i) \in Bytes /\ chunk(i) \div 16 = digits[2 * i - 1] /\ chunk(i) % 16 = low(i)
  <2>1. \A a, b \in 0 .. 15 : 16 * a + b \in 0 .. 255 /\ (16 * a + b) \div 16 = a /\ (16 * a + b) % 16 = b
    OBVIOUS
  <2>2. QED
    BY <1>2, <2>1 DEF Bytes
<1> HIDE DEF chunk
<1>5. HexChunks(digits) \in Seq(Bytes) /\ Len(HexChunks(digits)) = n
  BY <1>1, <1>3, <1>4
<1>6. \A i \in 1 .. n : HexChunks(digits)[i] \div 16 = digits[2 * i - 1] /\ HexChunks(digits)[i] % 16 = low(i)
  BY <1>3, <1>4
<1>7. QED
  BY <1>5, <1>6 DEF n, low

LEMMA DecodedBytes ==
    ASSUME NEW payload \in Payloads
    PROVE  Decoded[payload] = Decode(payload, Limit) /\ Decoded[payload] \in Seq(Bytes)
<1> DEFINE items == payload.items
<1>1. Limit \in Nat /\ payload.kind \in {"JSON", "KV", "HEX", "text"}
  BY ReadingAssumption, PayloadAssumption
<1>2. items \in Seq(IF payload.kind = "HEX" THEN Digits ELSE Bytes)
  BY PayloadAssumption
<1>3. Decoded[payload] = Decode(payload, Limit)
  BY DEF Decoded
<1> HIDE DEF items
<1>4. CASE payload.kind = "JSON"
  <2>1. Decode(payload, Limit) = Limited(SortedByKey(items), Limit)
    BY <1>4 DEF Decode, items
  <2>2. items \in Seq(Bytes)
    BY <1>2, <1>4
  <2>3. SortedByKey(items) \in Seq(Bytes)
    BY <2>2, SortedTypes
  <2>4. QED
    BY <1>1, <1>3, <2>1, <2>3, LimitCuts
<1>5. CASE payload.kind = "KV"
  <2>1. Decode(payload, Limit) = Limited(items, Limit)
    BY <1>5 DEF Decode, items
  <2>2. items \in Seq(Bytes)
    BY <1>2, <1>5
  <2>3. QED
    BY <1>1, <1>3, <2>1, <2>2, LimitCuts
<1>6. CASE payload.kind = "HEX"
  <2>1. Decode(payload, Limit) = Limited(HexChunks(items), Limit)
    BY <1>6 DEF Decode, items
  <2>2. items \in Seq(Digits)
    BY <1>2, <1>6
  <2>3. HexChunks(items) \in Seq(Bytes)
    BY <2>2, ChunksAre
  <2>4. QED
    BY <1>1, <1>3, <2>1, <2>3, LimitCuts
<1>7. CASE payload.kind = "text"
  <2>1. Decode(payload, Limit) = items
    BY <1>7 DEF Decode, items
  <2>2. items \in Seq(Bytes)
    BY <1>2, <1>7
  <2>3. QED
    BY <1>3, <2>1, <2>2
<1>8. QED
  BY <1>1, <1>4, <1>5, <1>6, <1>7

\* Values are given in the order they were sent in, up to the limit.
LEMMA AlwaysPositioned == ASSUME NEW payload \in Payloads PROVE InOrder(payload)
<1> DEFINE items == payload.items
           decoded == Decoded[payload]
           chunks == (Len(items) + 1) \div 2
<1>1. Limit \in Nat /\ items \in Seq(IF payload.kind = "HEX" THEN Digits ELSE Bytes)
  BY ReadingAssumption, PayloadAssumption
<1>2. decoded = Decode(payload, Limit)
  BY DecodedBytes
<1>3. ASSUME payload.kind = "JSON", Len(items) <= 10 PROVE decoded = Limited(items, Limit)
  <2>1. items \in Seq(Bytes)
    BY <1>1, <1>3
  <2>2. SortedByKey(items) = items
    BY <1>3, <2>1, SortedKeepsTen
  <2>3. QED
    BY <1>2, <1>3, <2>2 DEF Decode
<1>4. ASSUME payload.kind = "JSON", Len(items) > 10, Limit \notin {1, 2} PROVE decoded[3] = items[11]
  <2> DEFINE sorted == SortedByKey(items)
  <2>1. items \in Seq(Bytes)
    BY <1>1, <1>4
  <2>2. sorted \in Seq(Bytes) /\ Len(sorted) = Len(items) /\ sorted[3] = items[11]
    BY <1>4, <2>1, SortedMovesEleventh, SortedTypes
  <2>3. decoded = Limited(sorted, Limit)
    BY <1>2, <1>4 DEF Decode
  <2> HIDE DEF sorted, decoded, items
  <2>4. Len(decoded) = IF Limit \in 1 .. Len(sorted) THEN Limit ELSE Len(sorted)
    BY <1>1, <2>2, <2>3, LimitCuts
  <2>5. 3 \in 1 .. Len(decoded)
    BY <1>1, <1>4, <2>2, <2>4
  <2>6. decoded[3] = sorted[3]
    BY <1>1, <2>2, <2>3, <2>5, LimitCuts
  <2>7. QED
    BY <2>2, <2>6
<1>5. ASSUME payload.kind = "HEX"
      PROVE  /\ Len(decoded) = IF Limit \in 1 .. chunks THEN Limit ELSE chunks
             /\ \A i \in DOMAIN decoded :
                  /\ decoded[i] \div 16 = items[2 * i - 1]
                  /\ decoded[i] % 16 = IF 2 * i > Len(items) THEN 0 ELSE items[2 * i]
  <2> DEFINE all == HexChunks(items)
  <2>1. items \in Seq(Digits)
    BY <1>1, <1>5
  <2>2. /\ all \in Seq(Bytes) /\ Len(all) = chunks
        /\ \A i \in 1 .. chunks :
             /\ all[i] \div 16 = items[2 * i - 1]
             /\ all[i] % 16 = IF 2 * i > Len(items) THEN 0 ELSE items[2 * i]
    BY <2>1, ChunksAre
  <2>3. decoded = Limited(all, Limit)
    BY <1>2, <1>5 DEF Decode
  <2>4. decoded \in Seq(Bytes)
    BY DecodedBytes
  <2>5. chunks \in Nat
    <3> HIDE DEF items
    <3>1. Len(items) \in Nat
      BY <2>1
    <3>2. QED
      BY <3>1
  <2> HIDE DEF all, decoded, chunks, items
  <2>6. /\ Len(decoded) = IF Limit \in 1 .. chunks THEN Limit ELSE chunks
        /\ \A i \in 1 .. Len(decoded) : decoded[i] = all[i]
    <3>1. /\ Len(Limited(all, Limit)) = IF Limit \in 1 .. Len(all) THEN Limit ELSE Len(all)
          /\ \A i \in 1 .. Len(Limited(all, Limit)) : Limited(all, Limit)[i] = all[i]
      BY <1>1, <2>2, LimitCuts
    <3>2. QED
      BY <2>2, <2>3, <3>1
  <2>7. \A i \in DOMAIN decoded : i \in 1 .. chunks /\ decoded[i] = all[i]
    BY <1>1, <2>4, <2>5, <2>6
  <2>8. QED
    BY <2>2, <2>6, <2>7
<1>6. QED
  BY <1>3, <1>4, <1>5 DEF InOrder

-----------------------------------------------------------------------------
(* Derived functions *)

\* Each order is its own inverse.
LEMMA OrdersTurnBack ==
    ASSUME NEW order \in Orders
    PROVE  \A pos \in 1 .. 4 :
             /\ BYTE_ORDERS[order][pos] \in 0 .. 3
             /\ BYTE_ORDERS[order][BYTE_ORDERS[order][pos] + 1] + 1 = pos
             /\ (CHOOSE i \in 1 .. 4 : BYTE_ORDERS[order][i] = pos - 1) = BYTE_ORDERS[order][pos] + 1
<1> DEFINE o == BYTE_ORDERS[order]
<1>1. o \in {<<0, 1, 2, 3>>, <<1, 0, 3, 2>>, <<3, 2, 1, 0>>, <<2, 3, 0, 1>>}
  BY DEF Orders, BYTE_ORDERS
<1> HIDE DEF o
<1>2. \A pos \in 1 .. 4 : pos \in {1, 2, 3, 4}
  OBVIOUS
<1>3. \A pos \in 1 .. 4 : o[pos] \in 0 .. 3 /\ o[o[pos] + 1] + 1 = pos
  BY <1>1, <1>2
<1>4. \A pos \in 1 .. 4 : (CHOOSE i \in 1 .. 4 : o[i] = pos - 1) = o[pos] + 1
  <2> TAKE pos \in 1 .. 4
  <2>1. o[pos] + 1 \in 1 .. 4 /\ o[o[pos] + 1] = pos - 1
    BY <1>3
  <2>2. \A i \in 1 .. 4 : o[i] = pos - 1 => i = o[pos] + 1
    BY <1>3
  <2>3. QED
    BY <2>1, <2>2
<1>5. QED
  BY <1>3, <1>4 DEF o

LEMMA BytesAre == \A byte \in Bytes : byte \in Nat /\ byte < 256
BY DEF Bytes

\* setUint8 reads the digits of a byte right only below ten.
LEMMA NumberOfDigit == ASSUME NEW byte \in Bytes PROVE NumberOf(byte) = byte <=> byte < 10
<1> DEFINE tens == byte \div 16
           ones == byte % 16
<1>1. tens \in Nat /\ ones \in Nat /\ byte = 16 * tens + ones /\ ones < 16
  BY BytesAre
<1>2. NumberOf(byte) = IF tens > 9 \/ ones > 9 THEN 0 ELSE 10 * tens + ones
  BY DEF NumberOf
<1> HIDE DEF tens, ones
<1>3. QED
  BY <1>1, <1>2

LEMMA Powers ==
    /\ 2 ^ 0 = 1 /\ 2 ^ 1 = 2 /\ 2 ^ 2 = 4 /\ 2 ^ 3 = 8
    /\ 2 ^ 4 = 16 /\ 2 ^ 5 = 32 /\ 2 ^ 6 = 64 /\ 2 ^ 7 = 128
BY SMT

\* A number is halved again and again.
LEMMA Halved ==
    ASSUME NEW x \in Int
    PROVE  /\ x \div 4 = (x \div 2) \div 2 /\ x \div 8 = (x \div 4) \div 2
           /\ x \div 16 = (x \div 8) \div 2 /\ x \div 32 = (x \div 16) \div 2
           /\ x \div 64 = (x \div 32) \div 2 /\ x \div 128 = (x \div 64) \div 2
           /\ x \div 256 = (x \div 128) \div 2
OBVIOUS

\* What eight digits weigh together.
LEMMA SumOfDigits ==
    ASSUME NEW x \in Int
    PROVE  x % 256 = 128 * ((x \div 128) % 2) + 64 * ((x \div 64) % 2)
                     + 32 * ((x \div 32) % 2) + 16 * ((x \div 16) % 2)
                     + 8 * ((x \div 8) % 2) + 4 * ((x \div 4) % 2)
                     + 2 * ((x \div 2) % 2) + (x % 2)
<1>1. \A y \in Int : y \div 2 \in Int /\ y % 2 \in Int /\ y = 2 * (y \div 2) + (y % 2)
  OBVIOUS
<1>2. /\ x \div 4 = (x \div 2) \div 2 /\ x \div 8 = (x \div 4) \div 2
      /\ x \div 16 = (x \div 8) \div 2 /\ x \div 32 = (x \div 16) \div 2
      /\ x \div 64 = (x \div 32) \div 2 /\ x \div 128 = (x \div 64) \div 2
      /\ x \div 256 = (x \div 128) \div 2
  BY Halved, Zenon
<1>3. x = 256 * (x \div 256) + (x % 256) /\ x % 256 \in Int /\ x \div 256 \in Int
  OBVIOUS
<1>4. QED
  <2> DEFINE a == x \div 2  b == x \div 4  c == x \div 8  d == x \div 16
             e == x \div 32  f == x \div 64  g == x \div 128  h == x \div 256
  <2>1. /\ x = 2 * a + (x % 2) /\ a = 2 * b + (a % 2) /\ b = 2 * c + (b % 2) /\ c = 2 * d + (c % 2)
        /\ d = 2 * e + (d % 2) /\ e = 2 * f + (e % 2) /\ f = 2 * g + (f % 2) /\ g = 2 * h + (g % 2)
    BY <1>1, <1>2
  <2>2. /\ a \in Int /\ b \in Int /\ c \in Int /\ d \in Int /\ e \in Int /\ f \in Int /\ g \in Int
        /\ x % 2 \in Int /\ a % 2 \in Int /\ b % 2 \in Int /\ c % 2 \in Int /\ d % 2 \in Int
        /\ e % 2 \in Int /\ f % 2 \in Int /\ g % 2 \in Int
    BY <1>1, <1>2
  <2>3. x = 256 * h + (x % 256) /\ h \in Int /\ x % 256 \in Int
    BY <1>3
  <2> SUFFICES x % 256 = 128 * (g % 2) + 64 * (f % 2) + 32 * (e % 2) + 16 * (d % 2)
                         + 8 * (c % 2) + 4 * (b % 2) + 2 * (a % 2) + (x % 2)
    OBVIOUS
  <2> HIDE DEF a, b, c, d, e, f, g, h
  <2>4. QED
    BY <2>1, <2>2, <2>3

\* The bytes of a float are written as they were read, in each order.
LEMMA FloatsTurnBack ==
    ASSUME NEW four \in Seq(Bytes), Len(four) = 4, NEW order \in Orders
    PROVE  LET word == FloatWord(four, order)
           IN /\ FloatToOrder(word, order) = four
              /\ Quarters(word) => \A f \in FloatFromOrder(four, order) : FloatToOrder(f, order) = four
              /\ BytesToFloat(four, order) = word <=> \A i \in 1 .. 4 : four[i] < 10
<1> DEFINE word == FloatWord(four, order)
           place(pos) == BYTE_ORDERS[order][pos] + 1
<1>1. \A pos \in 1 .. 4 : place(pos) \in 1 .. 4 /\ place(place(pos)) = pos
  BY OrdersTurnBack
<1>2. word = [pos \in 1 .. 4 |-> four[place(pos)]]
  BY OrdersTurnBack DEF FloatWord
<1>10. Quarters(word) => FloatFromOrder(four, order) = {word}
  BY DEF FloatFromOrder
<1>3. FloatToOrder(word, order) = [i \in 1 .. 4 |-> word[place(i)]]
  BY DEF FloatToOrder
<1>4. BytesToFloat(four, order) = [i \in 1 .. 4 |-> NumberOf(four[place(i)])]
  BY DEF BytesToFloat
<1> HIDE DEF word, place
<1>5. four = [i \in 1 .. 4 |-> four[i]]
  OBVIOUS
<1>6. FloatToOrder(word, order) = four
  <2>1. \A i \in 1 .. 4 : word[place(i)] = four[i]
    BY <1>1, <1>2
  <2>2. QED
    BY <1>3, <1>5, <2>1
<1>7. \A i \in 1 .. 4 : NumberOf(four[i]) = four[i] <=> four[i] < 10
  <2> TAKE i \in 1 .. 4
  <2>1. four[i] \in Bytes
    OBVIOUS
  <2>2. QED
    BY <2>1, NumberOfDigit
<1>8. BytesToFloat(four, order) = word <=> \A i \in 1 .. 4 : NumberOf(four[place(i)]) = four[place(i)]
  BY <1>2, <1>4
<1>9. QED
  BY <1>1, <1>6, <1>7, <1>8, <1>10 DEF word

\* Two bytes make a number, which is written as the same two; its sign changes 2^16 of it.
LEMMA NumbersTurnBack ==
    ASSUME NEW two \in Seq(Bytes), Len(two) = 2, NEW order \in TwoByteOrders
    PROVE  LET num == HexToDecimal2Bytes(two, order)
               signed == HexToSignedDecimal2Bytes(two, order)
           IN /\ DecimalToHex2Bytes(num, order) = two
              /\ -32768 <= signed /\ signed < 32768 /\ num - signed \in {0, 65536}
<1> DEFINE num == HexToDecimal2Bytes(two, order)
<1>1. two[1] \in Bytes /\ two[2] \in Bytes /\ two = <<two[1], two[2]>>
  <2>1. two[1] \in Bytes /\ two[2] \in Bytes
    OBVIOUS
  <2> DEFINE pair == <<two[1], two[2]>>
  <2>2. pair \in Seq(Bytes) /\ Len(pair) = 2 /\ pair[1] = two[1] /\ pair[2] = two[2]
    BY <2>1
  <2>3. \A i \in 1 .. 2 : i = 1 \/ i = 2
    OBVIOUS
  <2> HIDE DEF pair
  <2>4. \A i \in 1 .. Len(two) : two[i] = pair[i]
    BY <2>2, <2>3
  <2>5. two = pair
    BY <2>2, <2>4
  <2>6. QED
    BY <2>1, <2>5 DEF pair
<1>2. \A a, b \in Bytes :
        /\ 256 * a + b \in Nat /\ 256 * a + b < 65536
        /\ (256 * a + b) \div 256 = a /\ (256 * a + b) % 256 = b
  <2>1. \A a, b \in Nat : b < 256 => (256 * a + b) \div 256 = a /\ (256 * a + b) % 256 = b
    BY SMT
  <2> TAKE a, b \in Bytes
  <2>2. a \in Nat /\ b \in Nat /\ a < 256 /\ b < 256
    BY BytesAre
  <2>3. 256 * a + b \in Nat /\ 256 * a + b < 65536
    BY <2>2
  <2>4. QED
    BY <2>1, <2>2, <2>3
<1>3. order = "AB" \/ order = "BA"
  BY DEF TwoByteOrders
<1>4. num \in Nat /\ num < 65536 /\ DecimalToHex2Bytes(num, order) = two
  <2>1. CASE order = "AB"
    <3>1. num = 256 * two[1] + two[2]
      BY <2>1 DEF HexToDecimal2Bytes
    <3> HIDE DEF num
    <3>2. num \in Nat /\ num < 65536 /\ num \div 256 = two[1] /\ num % 256 = two[2]
      BY <1>1, <1>2, <3>1
    <3>3. DecimalToHex2Bytes(num, order) = <<num \div 256, num % 256>>
      BY <2>1 DEF DecimalToHex2Bytes
    <3>4. QED
      BY <1>1, <3>2, <3>3
  <2>2. CASE order = "BA"
    <3>1. num = 256 * two[2] + two[1]
      BY <2>2 DEF HexToDecimal2Bytes
    <3> HIDE DEF num
    <3>2. num \in Nat /\ num < 65536 /\ num \div 256 = two[2] /\ num % 256 = two[1]
      BY <1>1, <1>2, <3>1
    <3>3. DecimalToHex2Bytes(num, order) = <<num % 256, num \div 256>>
      BY <2>2 DEF DecimalToHex2Bytes
    <3>4. QED
      BY <1>1, <3>2, <3>3
  <2>3. QED
    BY <1>3, <2>1, <2>2
<1>5. 2 ^ 15 = 32768 /\ 2 ^ 16 = 65536
  BY SMT
<1>6. HexToSignedDecimal2Bytes(two, order) = IF num < 32768 THEN num ELSE num - 65536
  BY <1>5 DEF HexToSignedDecimal2Bytes
<1> HIDE DEF num
<1>7. QED
  BY <1>4, <1>6 DEF num

\* The bits of a byte, taken from either end, are the byte.
LEMMA BitsTurnBack ==
    ASSUME NEW byte \in Bytes
    PROVE  /\ byte = BitToHex([d \in 1 .. 8 |-> HexToBit(byte, d - 1)], TRUE)
           /\ byte = BitToHex([d \in 1 .. 8 |-> HexToBit(byte, 8 - d)], FALSE)
<1> DEFINE up == [d \in 1 .. 8 |-> HexToBit(byte, d - 1)]
           down == [d \in 1 .. 8 |-> HexToBit(byte, 8 - d)]
           bit(i) == HexToBit(byte, i)
           sum == 128 * bit(7) + 64 * bit(6) + 32 * bit(5) + 16 * bit(4)
                  + 8 * bit(3) + 4 * bit(2) + 2 * bit(1) + bit(0)
<1>1. /\ HexToBit(byte, 0) = byte % 2 /\ HexToBit(byte, 1) = (byte \div 2) % 2
      /\ HexToBit(byte, 2) = (byte \div 4) % 2 /\ HexToBit(byte, 3) = (byte \div 8) % 2
      /\ HexToBit(byte, 4) = (byte \div 16) % 2 /\ HexToBit(byte, 5) = (byte \div 32) % 2
      /\ HexToBit(byte, 6) = (byte \div 64) % 2 /\ HexToBit(byte, 7) = (byte \div 128) % 2
  <2>1. byte \in Int /\ byte \div 1 = byte
    BY BytesAre
  <2>2. QED
    BY <2>1, Powers DEF HexToBit
<1>2. byte = sum
  <2>1. byte \in Int /\ byte % 256 = byte
    BY BytesAre
  <2>2. byte = 128 * ((byte \div 128) % 2) + 64 * ((byte \div 64) % 2)
               + 32 * ((byte \div 32) % 2) + 16 * ((byte \div 16) % 2)
               + 8 * ((byte \div 8) % 2) + 4 * ((byte \div 4) % 2)
               + 2 * ((byte \div 2) % 2) + (byte % 2)
    BY <2>1, SumOfDigits
  <2>3. QED
    BY <1>1, <2>2, Zenon
<1>3. BitToHex(up, TRUE) = sum
  <2>1. /\ up[1] = bit(0) /\ up[2] = bit(1) /\ up[3] = bit(2)
        /\ up[4] = bit(3) /\ up[5] = bit(4) /\ up[6] = bit(5)
        /\ up[7] = bit(6) /\ up[8] = bit(7)
    OBVIOUS
  <2> HIDE DEF up, bit
  <2>2. BitToHex(up, TRUE) = 128 * up[8] + 64 * up[7] + 32 * up[6] + 16 * up[5]
                             + 8 * up[4] + 4 * up[3] + 2 * up[2] + up[1]
    BY DEF BitToHex
  <2>3. QED
    BY <2>1, <2>2, Zenon
<1>4. BitToHex(down, FALSE) = sum
  <2>1. /\ down[8] = bit(0) /\ down[7] = bit(1) /\ down[6] = bit(2)
        /\ down[5] = bit(3) /\ down[4] = bit(4) /\ down[3] = bit(5)
        /\ down[2] = bit(6) /\ down[1] = bit(7)
    OBVIOUS
  <2> HIDE DEF down, bit
  <2>2. BitToHex(down, FALSE) = 128 * down[1] + 64 * down[2] + 32 * down[3] + 16 * down[4]
                                + 8 * down[5] + 4 * down[6] + 2 * down[7] + down[8]
    BY DEF BitToHex
  <2>3. QED
    BY <2>1, <2>2, Zenon
<1> HIDE DEF up, down, sum, bit
<1>5. QED
  BY <1>2, <1>3, <1>4 DEF up, down

\* Any bytes are written back as they were read.
LEMMA BytesReadBack ==
    ASSUME NEW vs \in Seq(Bytes)
    PROVE  FloatsBack(vs) /\ NumbersBack(vs) /\ BitsBack(vs)
<1>1. ASSUME NEW n \in {2, 4}, Len(vs) >= n
      PROVE  SubSeq(vs, 1, n) \in Seq(Bytes) /\ Len(SubSeq(vs, 1, n)) = n
  BY <1>1
<1>2. FloatsBack(vs)
  <2> SUFFICES ASSUME Len(vs) >= 4, NEW order \in Orders
      PROVE  LET four == SubSeq(vs, 1, 4)
                 word == FloatWord(four, order)
             IN /\ FloatToOrder(word, order) = four
                /\ Quarters(word) => \A f \in FloatFromOrder(four, order) : FloatToOrder(f, order) = four
                /\ BytesToFloat(four, order) = word <=> \A i \in 1 .. 4 : four[i] < 10
    BY DEF FloatsBack
  <2> DEFINE four == SubSeq(vs, 1, 4)
  <2>1. four \in Seq(Bytes) /\ Len(four) = 4
    BY <1>1
  <2> HIDE DEF four
  <2>2. QED
    BY <2>1, FloatsTurnBack DEF four
<1>3. NumbersBack(vs)
  <2> SUFFICES ASSUME Len(vs) >= 2, NEW order \in TwoByteOrders
      PROVE  LET two == SubSeq(vs, 1, 2)
                 num == HexToDecimal2Bytes(two, order)
                 signed == HexToSignedDecimal2Bytes(two, order)
             IN /\ DecimalToHex2Bytes(num, order) = two
                /\ -32768 <= signed /\ signed < 32768 /\ num - signed \in {0, 65536}
    BY DEF NumbersBack
  <2> DEFINE two == SubSeq(vs, 1, 2)
  <2>1. two \in Seq(Bytes) /\ Len(two) = 2
    BY <1>1
  <2> HIDE DEF two
  <2>2. LET num == HexToDecimal2Bytes(two, order)
            signed == HexToSignedDecimal2Bytes(two, order)
        IN /\ DecimalToHex2Bytes(num, order) = two
           /\ -32768 <= signed /\ signed < 32768 /\ num - signed \in {0, 65536}
    BY <2>1, NumbersTurnBack
  <2>3. QED
    BY <2>2 DEF two
<1>4. BitsBack(vs)
  <2> SUFFICES ASSUME NEW i \in DOMAIN vs
      PROVE  /\ vs[i] = BitToHex([d \in 1 .. 8 |-> HexToBit(vs[i], d - 1)], TRUE)
             /\ vs[i] = BitToHex([d \in 1 .. 8 |-> HexToBit(vs[i], 8 - d)], FALSE)
    BY DEF BitsBack
  <2>1. vs[i] \in Bytes
    OBVIOUS
  <2>2. QED
    BY <2>1, BitsTurnBack
<1>5. QED
  BY <1>2, <1>3, <1>4

\* The laws hold of every payload.
LEMMA AllLawful == Lawful = Payloads
<1>1. ASSUME NEW payload \in Payloads PROVE Decoded[payload] \in Seq(Bytes)
  BY DecodedBytes
<1>2. QED
  BY <1>1, AlwaysPositioned, BytesReadBack DEF Lawful

\* A function that has a handler and reads numbers names their order.
LEMMA HandlersExist ==
    ASSUME NEW f \in DerivedFunctions
    PROVE  /\ f.name \notin {"BYTE_TO_REAL", "HEX_TO_INDEX"}
           /\ f.name = "HEX_TO_DECIMAL" => f.order \in TwoByteOrders
<1>1. \A name, orders : \A g \in Ordered(name, orders) : g.name = name /\ g.order \in orders
  BY DEF Ordered
<1>2. \A g \in HexToBits : g.name = "HEX_TO_BIT"
  BY DEF HexToBits
<1> DEFINE floats == {"float", "floatTo", "bytesToFloat", "floatToBytes"}
           numbers == {"HEX_TO_DECIMAL", "HEX_TO_SIGNED_DECIMAL", "DECIMAL_TO_HEX"}
<1>3. \/ f \in UNION {Ordered(name, Orders) : name \in floats}
      \/ f \in UNION {Ordered(name, TwoByteOrders) : name \in numbers}
      \/ f \in HexToBits
      \/ f \in Ordered("BYTE", {"-"}) \/ f \in Ordered("BYTE_SWAP", {"-"})
  BY DEF DerivedFunctions, Plain
<1>4. ASSUME f \in UNION {Ordered(name, Orders) : name \in floats} PROVE f.name \in floats
  <2>1. PICK name \in floats : f \in Ordered(name, Orders)
    BY <1>4, Zenon
  <2>2. QED
    BY <1>1, <2>1
<1>5. ASSUME f \in UNION {Ordered(name, TwoByteOrders) : name \in numbers}
      PROVE  f.name \in numbers /\ f.order \in TwoByteOrders
  <2>1. PICK name \in numbers : f \in Ordered(name, TwoByteOrders)
    BY <1>5, Zenon
  <2>2. QED
    BY <1>1, <2>1
<1>6. \/ f.name \in floats
      \/ f.name \in numbers /\ f.order \in TwoByteOrders
      \/ f.name \in {"HEX_TO_BIT", "BYTE", "BYTE_SWAP"}
  BY <1>1, <1>2, <1>3, <1>4, <1>5
<1>7. QED
  BY <1>6

\* A sequence of one element at most is empty or has one.
LEMMA NoneOrOne == ASSUME NEW S, NEW s \in Seq(S), Len(s) <= 1 PROVE s = <<>> <=> Len(s) # 1
<1>1. Len(s) = 0 \/ Len(s) = 1
  <2> DEFINE n == Len(s)
  <2>1. n \in Nat /\ n <= 1
    OBVIOUS
  <2> HIDE DEF n
  <2>2. n = 0 \/ n = 1
    BY <2>1
  <2>3. QED
    BY <2>2 DEF n
<1>2. s = <<>> => Len(s) = 0
  OBVIOUS
<1>3. Len(s) = 0 => s = <<>>
  OBVIOUS
<1>4. QED
  BY <1>1, <1>2, <1>3

\* A handler throws on all but as many values as the registry says.
LEMMA CountsAgree ==
    ASSUME NEW f \in ReadFunctions, f \in DerivedFunctions, NEW count \in ParameterCount(f),
           NEW inputs \in Seq(Bytes), Len(inputs) <= count
    PROVE  Throws(f, inputs) <=> Len(inputs) # count
<1>1. f.name \in {"float", "bytesToFloat", "HEX_TO_DECIMAL", "HEX_TO_BIT", "BYTE_TO_REAL", "HEX_TO_INDEX"}
  BY DEF ReadFunctions, Ordered, Plain, HexToBits
<1>2. CASE f.name = "float"
  BY <1>2 DEF ParameterCount, Throws
<1>3. CASE f.name = "bytesToFloat"
  <2>1. count = 4
    BY <1>3 DEF ParameterCount
  <2>2. Throws(f, inputs) = (Len(inputs) # 4)
    BY <1>3 DEF Throws
  <2>3. QED
    BY <2>1, <2>2
<1>4. CASE f.name = "HEX_TO_DECIMAL"
  <2>1. f.order \in TwoByteOrders
    BY <1>4, HandlersExist
  <2>2. count = 2
    BY <1>4, <2>1 DEF ParameterCount
  <2>3. QED
    BY <1>4, <2>2 DEF Throws
<1>5. CASE f.name = "HEX_TO_BIT"
  <2>1. count = 1
    BY <1>5 DEF ParameterCount
  <2>2. inputs = <<>> <=> Len(inputs) # 1
    BY <2>1, NoneOrOne
  <2>3. QED
    BY <1>5, <2>1, <2>2 DEF Throws
<1>6. CASE f.name \in {"BYTE_TO_REAL", "HEX_TO_INDEX"}
  <2>1. f.name \notin {"BYTE_TO_REAL", "HEX_TO_INDEX"}
    BY f \in DerivedFunctions, HandlersExist
  <2>2. QED
    BY <1>6, <2>1
<1>7. QED
  BY <1>1, <1>2, <1>3, <1>4, <1>5, <1>6

\* A function takes one count of values, if any.
LEMMA OneCount ==
    ASSUME NEW f, NEW count \in ParameterCount(f)
    PROVE  count \in {1, 2, 4} /\ ParameterCount(f) = {count}
BY DEF ParameterCount

\* What slice gives from a start of a list that is long enough: all that is asked for,
\* unless the start counts from the end and the slice reaches it.
LEMMA SliceLength ==
    ASSUME NEW vs \in Seq(Bytes), NEW start \in Int, NEW count \in {1, 2, 4},
           start + count <= Len(vs)
    PROVE  LET inputs == Slice(vs, start, start + count)
           IN /\ inputs \in Seq(Bytes) /\ Len(inputs) <= count
              /\ Len(inputs) # count <=>
                     start < 0 /\ (start + count >= 0 \/ Len(vs) + start < 0)
<1> DEFINE from == Place(vs, start)
           to == Place(vs, start + count)
           inputs == SubSeq(vs, from + 1, to)
<1>1. Len(vs) \in Nat
  OBVIOUS
<1>2. from \in 0 .. Len(vs) /\ to \in 0 .. Len(vs)
  BY <1>1 DEF Place
<1>3. from = IF start >= 0 THEN start ELSE IF Len(vs) + start > 0 THEN Len(vs) + start ELSE 0
  BY <1>1 DEF Place
<1>4. to = IF start + count >= 0 THEN start + count
           ELSE IF Len(vs) + (start + count) > 0 THEN Len(vs) + (start + count) ELSE 0
  BY <1>1 DEF Place
<1> HIDE DEF from, to
<1>5. \A i \in from + 1 .. to : vs[i] \in Bytes
  BY <1>1, <1>2
<1>6. inputs \in Seq(Bytes) /\ Len(inputs) = IF from + 1 <= to THEN to - (from + 1) + 1 ELSE 0
  BY <1>2, <1>5, SubSeqProperties
<1> DEFINE len == Len(inputs)
<1>7. len = IF from < to THEN to - from ELSE 0
  BY <1>1, <1>2, <1>6
<1>8. Slice(vs, start, start + count) = inputs
  BY DEF Slice, from, to
<1> HIDE DEF inputs
<1>9. inputs \in Seq(Bytes)
  BY <1>6
<1> HIDE DEF len
<1> DEFINE size == Len(vs)
<1>10. /\ len <= count
       /\ len # count <=> start < 0 /\ (start + count >= 0 \/ size + start < 0)
  <2>1. start + count <= size
    OBVIOUS
  <2> HIDE DEF size
  <2>2. from = IF start >= 0 THEN start ELSE IF size + start > 0 THEN size + start ELSE 0
    BY <1>3 DEF size
  <2>3. to = IF start + count >= 0 THEN start + count
             ELSE IF size + (start + count) > 0 THEN size + (start + count) ELSE 0
    BY <1>4 DEF size
  <2>4. size \in Nat /\ count \in Nat /\ count > 0
    BY <1>1 DEF size
  <2>5. CASE start >= 0
    BY <1>7, <2>1, <2>2, <2>3, <2>4, <2>5
  <2>6. CASE start < 0 /\ start + count >= 0
    BY <1>7, <2>1, <2>2, <2>3, <2>4, <2>6
  <2>7. CASE start + count < 0
    BY <1>7, <2>1, <2>2, <2>3, <2>4, <2>7
  <2>8. QED
    BY <2>4, <2>5, <2>6, <2>7
<1>11. QED
  BY <1>8, <1>9, <1>10 DEF len, size

\* A function to read fares as its slice does.
LEMMA FateIs ==
    ASSUME NEW vs \in Seq(Bytes), NEW f \in ReadFunctions, f \in DerivedFunctions,
           NEW start \in Int, NEW count \in ParameterCount(f)
    PROVE  Fate(f, start, vs) = "throw" <=>
             /\ start < 0 /\ start + count <= Len(vs)
             /\ start + count >= 0 \/ Len(vs) + start < 0
<1> DEFINE counts == {c \in ParameterCount(f) : Enough(start, c, vs)}
           some == CHOOSE c \in counts : TRUE
           inputs == Slice(vs, start, start + some)
<1>1. Fate(f, start, vs) = IF counts = {} \/ f \notin DerivedFunctions THEN "skip"
                           ELSE IF Throws(f, inputs) THEN "throw" ELSE "value"
  <2>1. (CHOOSE g \in {f} : TRUE) = f
    OBVIOUS
  <2>2. QED
    BY <2>1 DEF Calculate, Fate
<1>2. count \in {1, 2, 4} /\ ParameterCount(f) = {count}
  BY OneCount
<1>3. CASE ~(start + count <= Len(vs))
  <2>1. counts = {}
    BY <1>2, <1>3 DEF Enough
  <2>2. QED
    BY <1>1, <1>3, <2>1
<1>4. CASE start + count <= Len(vs)
  <2>1. counts = {count} /\ some = count
    BY <1>2, <1>4 DEF Enough
  <2>2. inputs = Slice(vs, start, start + count)
    BY <2>1
  <2> HIDE DEF counts, some, inputs
  <2>3. inputs \in Seq(Bytes) /\ Len(inputs) <= count
    BY <1>2, <1>4, <2>2, SliceLength
  <2>4. Len(inputs) # count <=> start < 0 /\ (start + count >= 0 \/ Len(vs) + start < 0)
    BY <1>2, <1>4, <2>2, SliceLength
  <2>5. Throws(f, inputs) <=> Len(inputs) # count
    BY <2>3, CountsAgree
  <2>6. Fate(f, start, vs) = IF Throws(f, inputs) THEN "throw" ELSE "value"
    BY <1>1, <2>1
  <2>7. QED
    BY <1>4, <2>4, <2>5, <2>6
<1>5. QED
  BY <1>3, <1>4

\* Every payload leaves the functions to read throwing only from the end.
LEMMA AllThrowFromEnd == Throwing = Payloads
<1>1. ASSUME NEW payload \in Payloads PROVE ThrowsFromEnd(Decoded[payload])
  <2> DEFINE vs == Decoded[payload]
  <2>1. vs \in Seq(Bytes)
    BY DecodedBytes
  <2> HIDE DEF vs
  <2> SUFFICES ASSUME NEW f \in ReadFunctions \cap DerivedFunctions,
                      NEW start \in -MaxStart .. MaxStart, NEW count \in ParameterCount(f)
               PROVE  Fate(f, start, vs) = "throw" <=>
                         /\ start < 0 /\ start + count <= Len(vs)
                         /\ start + count >= 0 \/ Len(vs) + start < 0
    BY DEF ThrowsFromEnd, vs
  <2>2. start \in Int
    BY ReadingAssumption
  <2>3. QED
    BY <2>1, <2>2, FateIs
<1>2. QED
  BY <1>1 DEF Throwing

\* From a message to a value and back nothing is lost but what RoundTrips names, for any
\* payloads, of any length, and any limit (json.decoder.ts:18, hex.decoder.ts:19,
\* derived-function-handlers.ts).
THEOREM AlwaysRoundTrips == Spec => []RoundTrips
<1>1. TypeOK => RoundTrips
  BY AllLawful DEF RoundTrips, TypeOK
<1>2. QED
  BY <1>1, Invariant, PTL

\* A function registered to read throws if and only if its start counts from the end and
\* its slice is short, for any payloads, any limit and any start
\* (calculateReadingValue, reading-variables.service.ts:507).
THEOREM ThrowsOnlyFromEnd == Spec => []ReadThrowsFromEnd
<1>1. TypeOK => ReadThrowsFromEnd
  BY AllThrowFromEnd DEF ReadThrowsFromEnd, TypeOK
<1>2. QED
  BY <1>1, Invariant, PTL
=============================================================================
