------------------------ MODULE WritingVariablesProofs ------------------------
(***************************************************************************)
(* Proofs about WritingVariables for any number of variables, calls and    *)
(* readers.  For any width: the encoded values that packets are answered   *)
(* with are the table's unless they are known not to be.  For a byte of    *)
(* eight bits: types, and the agreement of a variable with its bits.       *)
(***************************************************************************)
EXTENDS WritingVariables, TLAPS, WellFoundedInduction, SequenceTheorems, FiniteSetTheorems

AtKnown == at \in [Procs -> Point]

\* A call that has committed and has yet to clear the cached list.
WillClear(c) == c \in Clients /\ at[c] = "clear"

IInv == AtKnown /\ EncodedAgrees

LEMMA InitInv == Init => IInv
<1> SUFFICES ASSUME Init PROVE IInv
  OBVIOUS
<1>1. at = [p \in Procs |-> "idle"] /\ encoded = {}
  BY DEF Init
<1>2. AtKnown /\ EncodedAgrees
  BY <1>1 DEF AtKnown, Point, EncodedAgrees
<1>3. QED
  BY <1>2 DEF IInv

\* A step that leaves the list, the table and what is known of them alone, and by which
\* no call forgets to clear, keeps the invariant.
LEMMA Quiet ==
    ASSUME IInv, AtKnown', UNCHANGED <<row, encoded, missed>>,
           \A c : WillClear(c) => WillClear(c)'
    PROVE  IInv'
BY DEF IInv, EncodedAgrees, WillClear, Table

\* A call that is not about to clear moves on.
LEMMA Moves ==
    ASSUME AtKnown, NEW p \in Procs, at[p] # "clear", NEW point \in Point, Goto(p, point)
    PROVE  AtKnown' /\ \A c : WillClear(c) => WillClear(c)'
BY DEF AtKnown, Goto, WillClear, Procs

LEMMA ClientKeeps == ASSUME IInv, NEW c \in Clients, ClientStep(c) PROVE IInv'
<1>0. /\ AtKnown /\ c \in Procs /\ AfterFlag \in Point
      /\ {"idle", "find", "bit", "bits", "tx", "clear"} \subseteq Point
  BY DEF IInv, Procs, Point, AfterFlag
<1>1. ASSUME NEW request, NEW point \in Point, Enter(c, request, point) PROVE IInv'
  <2>1. at[c] # "clear" /\ Goto(c, point) /\ UNCHANGED <<row, encoded, missed>>
    BY <1>1 DEF Enter, dbVars, cacheVars
  <2>2. QED
    BY <1>0, <2>1, Moves, Quiet
<1>2. CASE UpdateVariable(c) \/ UpdateMbo(c) \/ Create(c)
  BY <1>0, <1>1, <1>2 DEF UpdateVariable, UpdateMbo, Create
<1>3. CASE Find(c)
  <2>1. /\ at[c] # "clear" /\ UNCHANGED <<row, encoded, missed>>
        /\ Goto(c, "idle") \/ Goto(c, "tx") \/ Goto(c, AfterFlag)
    BY <1>3 DEF Find, Leave, GetFlag, dbVars, cacheVars
  <2>2. QED
    BY <1>0, <2>1, Moves, Quiet
<1>4. CASE WriteBit(c)
  <2>1. /\ at[c] # "clear" /\ UNCHANGED <<row, encoded, missed>>
        /\ Goto(c, "idle") \/ Goto(c, "bits")
    BY <1>4 DEF WriteBit, Leave, cacheVars
  <2>2. QED
    BY <1>0, <2>1, Moves, Quiet
<1>5. CASE ReadBits(c)
  <2>1. at[c] # "clear" /\ UNCHANGED <<row, encoded, missed>> /\ Goto(c, AfterFlag)
    BY <1>5 DEF ReadBits, GetFlag, dbVars, cacheVars
  <2>2. QED
    BY <1>0, <2>1, Moves, Quiet
<1>6. CASE ReadFlag(c)
  <2>1. at[c] # "clear" /\ UNCHANGED <<row, encoded, missed>> /\ Goto(c, "tx")
    BY <1>6 DEF ReadFlag, dbVars
  <2>2. QED
    BY <1>0, <2>1, Moves, Quiet
<1>7. CASE Commit(c)
  <2>1. at[c] # "clear" /\ Goto(c, "clear")
    BY <1>7 DEF Commit
  <2>2. AtKnown' /\ at'[c] = "clear"
    BY <1>0, <2>1, Moves DEF AtKnown, Goto
  <2>3. QED
    BY <2>2 DEF IInv, EncodedAgrees
<1>8. CASE Clear(c)
  <2>1. encoded' = {} /\ Goto(c, "idle")
    BY <1>8 DEF Clear, Leave
  <2>2. AtKnown'
    BY <1>0, <2>1 DEF AtKnown, Goto
  <2>3. QED
    BY <2>1, <2>2 DEF IInv, EncodedAgrees
<1>9. CASE Fail(c)
  <2>1. at[c] # "clear" /\ UNCHANGED <<row, encoded, missed>> /\ Goto(c, "idle")
    BY <1>9 DEF Fail, Leave, dbVars, cacheVars
  <2>2. QED
    BY <1>0, <2>1, Moves, Quiet
<1>10. QED
  BY <1>2, <1>3, <1>4, <1>5, <1>6, <1>7, <1>8, <1>9, ClientStep(c) DEF ClientStep

LEMMA ReaderKeeps == ASSUME IInv, NEW r \in Readers, ReaderStep(r) PROVE IInv'
<1>0. AtKnown /\ r \in Procs /\ {"idle", "load", "fill"} \subseteq Point
  BY DEF IInv, Procs, Point
<1>1. CASE Ask(r) \/ Load(r)
  <2>1. /\ at[r] # "clear" /\ UNCHANGED <<row, encoded, missed>>
        /\ Goto(r, "load") \/ Goto(r, "fill")
    BY <1>1 DEF Ask, Load, dbVars, cacheVars
  <2>2. QED
    BY <1>0, <2>1, Moves, Quiet
<1>2. CASE Fill(r)
  <2>1. /\ at[r] # "clear" /\ Goto(r, "idle") /\ UNCHANGED row
        /\ encoded' = {list[r]} /\ missed' = (list[r] # Table)
    BY <1>2 DEF Fill, dbVars
  <2>2. AtKnown'
    BY <1>0, <2>1, Moves
  <2>3. QED
    BY <2>1, <2>2 DEF IInv, EncodedAgrees, Table
<1>3. QED
  BY <1>1, <1>2, ReaderStep(r) DEF ReaderStep

LEMMA InvKept == IInv /\ [Next]_vars => IInv'
<1> SUFFICES ASSUME IInv, [Next]_vars PROVE IInv'
  OBVIOUS
<1>1. ASSUME UNCHANGED <<row, encoded, missed, at>> PROVE IInv'
  BY <1>1, Quiet DEF IInv, AtKnown, WillClear
<1>2. CASE SwitchFlag \/ UNCHANGED vars
  BY <1>1, <1>2 DEF SwitchFlag, vars, dbVars, cacheVars, callVars
<1>3. ASSUME UNCHANGED at \/ at' = [p \in Procs |-> "idle"], missed' \/ encoded' = {}
      PROVE  IInv'
  BY <1>3 DEF IInv, AtKnown, Point, EncodedAgrees
<1>4. CASE DeleteAll \/ Reset \/ Crash
  BY <1>3, <1>4 DEF DeleteAll, Reset, Crash, callVars
<1>5. QED
  BY <1>2, <1>4, ClientKeeps, ReaderKeeps DEF Next

\* The list a packet is answered with is the table's but for the cases it names, for any
\* number of variables, calls and readers: a call clears it behind its transaction
\* (writing-variables.service.ts, performWritingVariableUpdate and createWritingVariable),
\* and a reader fills it with what it loaded (findAllEncodedWritingVariables).
THEOREM EncodedAlwaysAgrees == Spec => []EncodedAgrees
<1>1. IInv => EncodedAgrees
  BY DEF IInv
<1>2. QED
  BY <1>1, InitInv, InvKept, PTL DEF Spec

-----------------------------------------------------------------------------
(* Digits and texts *)

\* Induction over the natural numbers, for a set.
LEMMA SetInduction ==
    ASSUME NEW S, 0 \in S, \A n \in S \cap Nat : n + 1 \in S
    PROVE  Nat \subseteq S
<1> SUFFICES ASSUME Nat \ S # {} PROVE FALSE
  OBVIOUS
<1> DEFINE R == OpToRel(<, Nat)
<1>1. IsWellFoundedOn(R, Nat)
  BY NatLessThanWellFounded
<1>2. \A x \in Nat : x # 0 => x - 1 \in Nat /\ <<x - 1, x>> \in R
  BY DEF OpToRel
<1> HIDE DEF R
<1>3. PICK x \in Nat \ S : \A y \in Nat \ S : ~(<<y, x>> \in R)
  <2>1. Nat \ S \subseteq Nat
    OBVIOUS
  <2>2. QED
    BY <1>1, <2>1, WFMin
<1>4. x # 0 /\ x - 1 \in Nat /\ x - 1 \in S
  BY <1>2, <1>3
<1>5. (x - 1) + 1 = x
  BY <1>3
<1>6. QED
  BY <1>3, <1>4, <1>5

\* The value of a prefix is computed digit by digit: parseInt and parseHexToBinary go
\* over the digits from the left.
LEMMA BinaryDef ==
    ASSUME NEW s \in Seq(Int), NEW k \in 0 .. Len(s)
    PROVE  \E f : /\ Binary(s, k) = f[k]
                  /\ \A n \in 0 .. k : /\ f[n] \in Int
                                        /\ f[n] = IF n = 0 THEN 0 ELSE 2 * f[n - 1] + s[n]
<1> DEFINE Sound(j, f) == f = [n \in 0 .. j |-> IF n = 0 THEN 0 ELSE 2 * f[n - 1] + s[n]]
<1> DEFINE S == {j \in Nat : j <= Len(s) => \E f \in [0 .. j -> Int] : Sound(j, f)}
<1>1. 0 \in S
  <2> DEFINE g == [n \in 0 .. 0 |-> 0]
  <2>1. g \in [0 .. 0 -> Int] /\ Sound(0, g)
    OBVIOUS
  <2> HIDE DEF g, Sound
  <2>2. QED
    BY <2>1
<1>2. ASSUME NEW j \in S PROVE j + 1 \in S
  <2> SUFFICES ASSUME j + 1 <= Len(s) PROVE \E f \in [0 .. j + 1 -> Int] : Sound(j + 1, f)
    <3> HIDE DEF Sound
    <3>1. QED
      OBVIOUS
  <2> HIDE DEF Sound
  <2>1. PICK f \in [0 .. j -> Int] : Sound(j, f)
    BY Len(s) \in Nat
  <2> DEFINE g == [n \in 0 .. j + 1 |-> IF n = j + 1 THEN 2 * f[j] + s[j + 1] ELSE f[n]]
  <2>2. g \in [0 .. j + 1 -> Int]
    BY Len(s) \in Nat, s[j + 1] \in Int
  <2>3. \A n \in 0 .. j + 1 : g[n] = IF n = 0 THEN 0 ELSE 2 * g[n - 1] + s[n]
    <3>1. \A n \in 0 .. j : f[n] = IF n = 0 THEN 0 ELSE 2 * f[n - 1] + s[n]
      BY <2>1 DEF Sound
    <3>2. TAKE n \in 0 .. j + 1
    <3>3. CASE n = j + 1
      BY <3>3
    <3>4. CASE n \in 0 .. j
      BY <3>1, <3>4
    <3>5. QED
      BY <3>3, <3>4
  <2>4. Sound(j + 1, g)
    BY <2>2, <2>3 DEF Sound
  <2>5. QED
    BY <2>2, <2>4
<1>3. k \in S
  <2> HIDE DEF S
  <2>1. QED
    BY <1>1, <1>2, SetInduction, Len(s) \in Nat
<1>4. \E f \in [0 .. k -> Int] : Sound(k, f)
  <2> HIDE DEF Sound
  <2>1. QED
    BY <1>3, Len(s) \in Nat
<1> DEFINE c == CHOOSE f : Sound(k, f)
<1>5. Sound(k, c)
  <2> HIDE DEF Sound
  <2>1. QED
    BY <1>4
<1>6. Binary(s, k) = c[k]
  BY DEF Binary
<1> HIDE DEF c
<1>7. \A n \in 0 .. k : c[n] = IF n = 0 THEN 0 ELSE 2 * c[n - 1] + s[n]
  BY <1>5
<1>8. \A j \in Nat : j <= k => c[j] \in Int
  <2> DEFINE T == {j \in Nat : j <= k => c[j] \in Int}
  <2>1. 0 \in T
    BY <1>7, Len(s) \in Nat
  <2>2. ASSUME NEW j \in T PROVE j + 1 \in T
    <3> SUFFICES ASSUME j + 1 <= k PROVE c[j + 1] \in Int
      OBVIOUS
    <3>1. c[j + 1] = 2 * c[j] + s[j + 1] /\ c[j] \in Int /\ s[j + 1] \in Int
      BY <1>7, Len(s) \in Nat
    <3>2. QED
      BY <3>1
  <2>3. Nat \subseteq T
    <3> HIDE DEF T
    <3>1. QED
      BY <2>1, <2>2, SetInduction
  <2>4. QED
    BY <2>3
<1>9. QED
  BY <1>6, <1>7, <1>8, Len(s) \in Nat

\* The powers that the eight digits of a byte weigh.
LEMMA Powers ==
  /\ 2 ^ 0 = 1 /\ 2 ^ 1 = 2 /\ 2 ^ 2 = 4 /\ 2 ^ 3 = 8 /\ 2 ^ 4 = 16
  /\ 2 ^ 5 = 32 /\ 2 ^ 6 = 64 /\ 2 ^ 7 = 128 /\ 2 ^ 8 = 256
BY SMT

\* The digits of a number, one by one (toString(2).padStart(8, '0').slice(-8)).
LEMMA Digits ==
    ASSUME Width = 8, NEW x \in Int
    PROVE  /\ BitsOf(x) \in [1 .. 8 -> {0, 1}]
           /\ BitsOf(x)[1] = (x \div 128) % 2
           /\ BitsOf(x)[2] = (x \div 64) % 2
           /\ BitsOf(x)[3] = (x \div 32) % 2
           /\ BitsOf(x)[4] = (x \div 16) % 2
           /\ BitsOf(x)[5] = (x \div 8) % 2
           /\ BitsOf(x)[6] = (x \div 4) % 2
           /\ BitsOf(x)[7] = (x \div 2) % 2
           /\ BitsOf(x)[8] = x % 2
<1> DEFINE d(i) == (x \div 2 ^ (8 - i)) % 2
<1>1. /\ d(1) = (x \div 128) % 2 /\ d(2) = (x \div 64) % 2 /\ d(3) = (x \div 32) % 2
      /\ d(4) = (x \div 16) % 2 /\ d(5) = (x \div 8) % 2 /\ d(6) = (x \div 4) % 2
      /\ d(7) = (x \div 2) % 2 /\ d(8) = x % 2
  BY Powers
<1>2. BitsOf(x) = [i \in 1 .. 8 |-> d(i)]
  BY DEF BitsOf
<1> HIDE DEF d
<1>3. \A i \in 1 .. 8 : d(i) \in {0, 1}
  <2>1. \A i \in 1 .. 8 : i \in {1, 2, 3, 4, 5, 6, 7, 8}
    OBVIOUS
  <2>2. QED
    BY <1>1, <2>1
<1>4. QED
  BY <1>1, <1>2, <1>3

\* A set of natural numbers that has a bound has a greatest element.
LEMMA Greatest ==
    ASSUME NEW S \in SUBSET Nat, S # {}, NEW b \in Nat, \A n \in S : n =< b
    PROVE  \E m \in S : \A n \in S : n =< m
<1> DEFINE T == {j \in Nat : (\E n \in S : n =< j) =>
                               \E m \in S : m =< j /\ \A n \in S : n =< j => n =< m}
<1>1. 0 \in T
  OBVIOUS
<1>2. ASSUME NEW j \in T PROVE j + 1 \in T
  <2>1. CASE j + 1 \in S
    BY <2>1
  <2>2. CASE j + 1 \notin S
    <3>1. \A n \in S : n =< j + 1 <=> n =< j
      BY <2>2
    <3>2. QED
      BY <3>1
  <2>3. QED
    BY <2>1, <2>2
<1>3. b \in T
  <2> HIDE DEF T
  <2>1. QED
    BY <1>1, <1>2, SetInduction
<1>4. QED
  BY <1>3

\* Whatever the bits are, parseInt gives a number or NaN.
LEMMA ParsedType ==
    ASSUME NEW s \in Seq(Int)
    PROVE  ParseBinary(s) \in Int
<1> DEFINE prefixes == {k \in 1 .. Len(s) : \A n \in 1 .. k : s[n] \in {0, 1}}
           longest == CHOOSE k \in prefixes : \A n \in prefixes : n =< k
<1>1. ParseBinary(s) = IF prefixes = {} THEN NaN ELSE Binary(s, longest)
  BY DEF ParseBinary
<1>2. ASSUME prefixes # {} PROVE longest \in 0 .. Len(s)
  <2>1. Len(s) \in Nat /\ prefixes \in SUBSET Nat /\ \A n \in prefixes : n =< Len(s) /\ n \in 0 .. Len(s)
    OBVIOUS
  <2> HIDE DEF prefixes
  <2>2. \E m \in prefixes : \A n \in prefixes : n =< m
    BY <1>2, <2>1, Greatest
  <2>3. longest \in prefixes
    BY <2>2
  <2>4. QED
    BY <2>1, <2>3
<1> HIDE DEF prefixes, longest
<1>3. ASSUME NEW k \in 0 .. Len(s) PROVE Binary(s, k) \in Int
  <2>1. PICK f : Binary(s, k) = f[k] /\ \A n \in 0 .. k : f[n] \in Int
    BY BinaryDef, Zenon
  <2>2. k \in 0 .. k
    OBVIOUS
  <2>3. QED
    BY <2>1, <2>2
<1>4. QED
  BY <1>1, <1>2, <1>3 DEF NaN

\* A number has digits that are numbers.
LEMMA DecimalType == ASSUME NEW x \in Int PROVE Decimal(x) \in Seq(Int)
<1> DEFINE S == {k \in 0 .. 9 : k = 0 \/ 10 ^ k =< x}
           len == Cardinality(S)
           d(i) == (x \div 10 ^ (len - i)) % 10
<1>1. len \in Nat
  <2>1. S \subseteq 0 .. 9
    OBVIOUS
  <2> HIDE DEF S
  <2>2. IsFiniteSet(0 .. 9)
    BY FS_Interval, 0 \in Int, 9 \in Int
  <2>3. QED
    BY <2>1, <2>2, FS_Subset, FS_CardinalityType
<1>2. len =< 10
  <2>1. S \subseteq 0 .. 9
    OBVIOUS
  <2> HIDE DEF S
  <2>2. IsFiniteSet(0 .. 9) /\ Cardinality(0 .. 9) = 10
    <3>1. Cardinality(0 .. 9) = IF 0 > 9 THEN 0 ELSE 9 - 0 + 1
      BY FS_Interval, 0 \in Int, 9 \in Int, Zenon
    <3>2. Cardinality(0 .. 9) = 10
      BY <3>1
    <3>3. IsFiniteSet(0 .. 9)
      BY FS_Interval, 0 \in Int, 9 \in Int
    <3>4. QED
      BY <3>2, <3>3
  <2>3. Cardinality(S) =< Cardinality(0 .. 9)
    BY <2>1, <2>2, FS_Subset, Zenon
  <2>4. QED
    BY <2>2, <2>3
<1> HIDE DEF S, len
<1>3. \A k \in 0 .. 9 : 10 ^ k \in Nat \ {0}
  <2>1. \A k \in 0 .. 9 : k \in {0, 1, 2, 3, 4, 5, 6, 7, 8, 9}
    OBVIOUS
  <2>2. /\ 10 ^ 0 \in Nat \ {0} /\ 10 ^ 1 \in Nat \ {0} /\ 10 ^ 2 \in Nat \ {0} /\ 10 ^ 3 \in Nat \ {0}
        /\ 10 ^ 4 \in Nat \ {0} /\ 10 ^ 5 \in Nat \ {0} /\ 10 ^ 6 \in Nat \ {0} /\ 10 ^ 7 \in Nat \ {0}
        /\ 10 ^ 8 \in Nat \ {0} /\ 10 ^ 9 \in Nat \ {0}
    OBVIOUS
  <2>3. QED
    BY <2>1, <2>2
<1>4. \A i \in 1 .. len : d(i) \in Int
  <2>1. TAKE i \in 1 .. len
  <2>2. len - i \in 0 .. 9
    BY <1>1, <1>2
  <2>3. PICK b \in Nat \ {0} : b = 10 ^ (len - i)
    BY <1>3, <2>2
  <2>4. (x \div b) % 10 \in Int
    BY <2>3
  <2>5. QED
    BY <2>3, <2>4
<1> HIDE DEF d
<1>5. [i \in 1 .. len |-> d(i)] \in Seq(Int)
  BY <1>1, <1>4, SeqDef
<1>6. Decimal(x) = [i \in 1 .. len |-> d(i)]
  BY Zenon DEF Decimal, len, S, d
<1>7. QED
  BY <1>5, <1>6

\* Texts put together are a text.
LEMMA FlattenType == ASSUME NEW s \in Seq(Seq(Int)) PROVE FlattenSeq(s) \in Seq(Int)
<1> DEFINE Sound(j, f) == f = [i \in 1 .. j |-> IF i = 1 THEN s[i] ELSE f[i - 1] \o s[i]]
<1> DEFINE S == {j \in Nat : j + 1 <= Len(s) => \E f \in [1 .. j + 1 -> Seq(Int)] : Sound(j + 1, f)}
<1>0. Len(s) \in Nat /\ \A i \in 1 .. Len(s) : s[i] \in Seq(Int)
  OBVIOUS
<1>1. 0 \in S
  <2> SUFFICES ASSUME 1 <= Len(s) PROVE \E f \in [1 .. 1 -> Seq(Int)] : Sound(1, f)
    <3>1. 0 + 1 = 1 /\ 0 \in Nat
      OBVIOUS
    <3> HIDE DEF Sound
    <3>2. QED
      BY <3>1
  <2> DEFINE g == [i \in 1 .. 1 |-> s[i]]
  <2>1. g \in [1 .. 1 -> Seq(Int)]
    BY <1>0
  <2>2. Sound(1, g)
    OBVIOUS
  <2> HIDE DEF g, Sound
  <2>3. QED
    BY <2>1, <2>2
<1>2. ASSUME NEW j \in S PROVE j + 1 \in S
  <2>0. j \in Nat
    OBVIOUS
  <2> SUFFICES ASSUME j + 2 <= Len(s) PROVE \E f \in [1 .. j + 2 -> Seq(Int)] : Sound(j + 2, f)
    <3>1. (j + 1) + 1 = j + 2 /\ j + 1 \in Nat
      BY <2>0
    <3> HIDE DEF Sound
    <3>2. QED
      BY <3>1
  <2> HIDE DEF Sound
  <2>1. PICK f \in [1 .. j + 1 -> Seq(Int)] : Sound(j + 1, f)
    BY <1>0, <2>0
  <2> DEFINE g == [i \in 1 .. j + 2 |-> IF i = j + 2 THEN f[j + 1] \o s[j + 2] ELSE f[i]]
  <2>2. g \in [1 .. j + 2 -> Seq(Int)]
    <3>1. f[j + 1] \in Seq(Int) /\ s[j + 2] \in Seq(Int)
      BY <1>0, <2>0
    <3>2. f[j + 1] \o s[j + 2] \in Seq(Int)
      BY <3>1
    <3>3. QED
      BY <2>0, <3>2
  <2>3. \A i \in 1 .. j + 2 : g[i] = IF i = 1 THEN s[i] ELSE g[i - 1] \o s[i]
    <3>1. \A i \in 1 .. j + 1 : f[i] = IF i = 1 THEN s[i] ELSE f[i - 1] \o s[i]
      BY <2>1 DEF Sound
    <3>2. TAKE i \in 1 .. j + 2
    <3>3. CASE i = j + 2
      <4>0. j + 2 \in 1 .. j + 2 /\ j + 1 \in 1 .. j + 2 /\ j + 1 # j + 2 /\ j + 2 # 1 /\ i - 1 = j + 1
        BY <2>0, <3>3
      <4>1. g[i] = f[j + 1] \o s[j + 2] /\ i # 1 /\ g[i - 1] = f[j + 1]
        BY <3>3, <4>0, Zenon
      <4>2. QED
        BY <3>3, <4>1
    <3>4. CASE i \in 1 .. j + 1
      <4>0. i # j + 2 /\ (i # 1 => i - 1 \in 1 .. j + 2 /\ i - 1 # j + 2)
        BY <2>0, <3>4
      <4>1. g[i] = f[i] /\ (i # 1 => g[i - 1] = f[i - 1])
        BY <3>2, <4>0, Zenon
      <4>2. QED
        BY <3>1, <3>4, <4>1
    <3>5. QED
      BY <2>0, <3>3, <3>4
  <2>4. Sound(j + 2, g)
    BY <2>3 DEF Sound
  <2>5. QED
    BY <2>2, <2>4
<1>3. CASE Len(s) = 0
  <2>1. FlattenSeq(s) = s /\ s = <<>>
    BY <1>3 DEF FlattenSeq
  <2>2. QED
    BY <2>1
<1>4. CASE Len(s) # 0
  <2>1. Len(s) - 1 \in S
    <3>1. Len(s) - 1 \in Nat
      BY <1>0, <1>4
    <3> HIDE DEF S
    <3>2. QED
      BY <1>1, <1>2, <3>1, SetInduction
  <2>2. \E f \in [1 .. Len(s) -> Seq(Int)] : Sound(Len(s), f)
    <3>1. (Len(s) - 1) + 1 = Len(s)
      BY <1>0
    <3> HIDE DEF Sound
    <3>2. QED
      BY <2>1, <3>1
  <2> DEFINE c == CHOOSE f : Sound(Len(s), f)
  <2>3. Sound(Len(s), c)
    <3> HIDE DEF Sound
    <3>1. QED
      BY <2>2
  <2>4. FlattenSeq(s) = c[Len(s)]
    BY <1>4 DEF FlattenSeq
  <2> HIDE DEF c
  <2>5. \A i \in 1 .. Len(s) : c[i] = IF i = 1 THEN s[i] ELSE c[i - 1] \o s[i]
    BY <2>3
  <2> DEFINE T == {j \in Nat : j + 1 <= Len(s) => c[j + 1] \in Seq(Int)}
  <2>6. 0 \in T
    BY <1>0, <2>5
  <2>7. ASSUME NEW j \in T PROVE j + 1 \in T
    <3> SUFFICES ASSUME j + 2 <= Len(s) PROVE c[j + 2] \in Seq(Int)
      OBVIOUS
    <3>1. c[j + 1] \in Seq(Int) /\ s[j + 2] \in Seq(Int) /\ j + 2 # 1 /\ (j + 2) - 1 = j + 1
      BY <1>0
    <3>0. j + 2 \in 1 .. Len(s)
      BY <1>0
    <3>2. c[j + 2] = c[j + 1] \o s[j + 2]
      BY <2>5, <3>0, <3>1, Zenon
    <3>3. QED
      BY <3>1, <3>2
  <2>8. Len(s) - 1 \in T
    <3>1. Len(s) - 1 \in Nat
      BY <1>0, <1>4
    <3> HIDE DEF T
    <3>2. QED
      BY <2>6, <2>7, <3>1, SetInduction
  <2>9. (Len(s) - 1) + 1 = Len(s)
    BY <1>0
  <2>10. QED
    BY <1>0, <2>4, <2>8, <2>9
<1>5. QED
  BY <1>3, <1>4

\* The text of a variable's bits is one that parseInt reads.
LEMMA TextType ==
    ASSUME NEW bits, bits \in [DOMAIN bits -> Int]
    PROVE  BitText(bits) \in Seq(Int)
<1> DEFINE t(n) == IF n - 1 \in DOMAIN bits THEN Decimal(bits[n - 1]) ELSE <<>>
<1>1. \A n : t(n) \in Seq(Int)
  <2>1. ASSUME NEW n, n - 1 \in DOMAIN bits PROVE Decimal(bits[n - 1]) \in Seq(Int)
    BY <2>1, DecimalType
  <2>2. QED
    BY <2>1
<1> HIDE DEF t
<1>2. [n \in 1 .. Places |-> t(n)] \in Seq(Seq(Int))
  BY <1>1, WritingAssumption, SeqDef
<1>3. QED
  BY <1>2, FlattenType DEF BitText, t

-----------------------------------------------------------------------------
(* The table and its bits *)

\* What a call is asked to do fits where it is suspended.
Asked ==
    \A c \in Clients :
        /\ at[c] # "idle" => call[c] \in Calls
        /\ at[c] = "find" => call[c].op \in {"variable", "raw"}
        /\ at[c] \in {"bit", "bits"} => call[c].op = "bit"
        /\ at[c] \in {"flag", "tx", "clear"} => call[c].op # "bit"

BitsInv == TypeOK /\ Asked /\ BitsAgree

\* The bits of a value are numbers.
LEMMA BitType == ASSUME Width = 8, NEW x \in Int PROVE \A i \in 1 .. 8 : BitsOf(x)[i] \in Int
<1> DEFINE d(i) == (x \div 2 ^ (8 - i)) % 2
<1>1. /\ d(1) \in Int /\ d(2) \in Int /\ d(3) \in Int /\ d(4) \in Int
      /\ d(5) \in Int /\ d(6) \in Int /\ d(7) \in Int /\ d(8) \in Int
  BY Powers
<1>2. BitsOf(x) = [i \in 1 .. 8 |-> d(i)]
  BY DEF BitsOf
<1> HIDE DEF d
<1>3. \A i \in 1 .. 8 : i \in {1, 2, 3, 4, 5, 6, 7, 8}
  OBVIOUS
<1>4. QED
  BY <1>1, <1>2, <1>3

\* The rows and raw values that calls write have their types.
LEMMA WrittenTypes ==
    ASSUME NEW kind \in {"byte", "plain"}, NEW x \in Int, NEW f \in BOOLEAN
    PROVE  /\ RawOf(kind, x, f) \in Raws /\ Text(x) \in Raws /\ NoRaw \in Raws /\ Given \in Raws
           /\ \A old \in Rows \cup {NoRow}, g \in BOOLEAN : RawCreated(kind, x, g, f, old) \in Raws
           /\ NoRow \notin Rows
<1>1. Text(x) \in Raws /\ NoRaw \in Raws /\ Given \in Raws
  BY DEF Text, Given, Raws
<1>2. Calculated(kind, x) \subseteq Raws
  BY DEF Calculated, Raws
<1>3. RawOf(kind, x, f) \in Raws
  BY <1>1, <1>2 DEF RawOf
<1>4. NoRow \notin Rows
  BY DEF NoRow, Rows
<1>5. \A old \in Rows \cup {NoRow}, g \in BOOLEAN : RawCreated(kind, x, g, f, old) \in Raws
  <2>1. \A old \in Rows : old.raw \in Raws
    BY DEF Rows
  <2>2. QED
    BY <1>1, <1>3, <2>1 DEF RawCreated
<1>6. QED
  BY <1>1, <1>3, <1>4, <1>5

\* A step that leaves the table alone keeps the agreement of bits and values.
LEMMA BitsUntouched ==
    ASSUME BitsInv, TypeOK', Asked', UNCHANGED <<row, mbo>>, torn \subseteq torn'
    PROVE  BitsInv'
<1>1. BitsAgree'
  BY DEF BitsInv, BitsAgree
<1>2. QED
  BY <1>1 DEF BitsInv

\* A call begins.
LEMMA EnterKeeps ==
    ASSUME BitsInv, NEW c \in Clients, NEW request \in Calls, NEW point, Enter(c, request, point),
           flag' \in [Clients -> BOOLEAN],
           \/ point = "find" /\ request.op \in {"variable", "raw"}
           \/ point = "bit" /\ request.op = "bit"
           \/ point \in {"flag", "tx"} /\ request.op = "create"
    PROVE  BitsInv'
<1>0. TypeOK /\ c \in Procs /\ point \in Point
  BY DEF BitsInv, Procs, Point
<1>1. /\ at' = [at EXCEPT ![c] = point] /\ call' = [call EXCEPT ![c] = request]
      /\ at \in [Procs -> Point] /\ call \in [Clients -> Calls \cup {NoCall}]
  BY <1>0 DEF Enter, Goto, TypeOK
<1>2. /\ at'[c] = point /\ call'[c] = request
      /\ \A d \in Clients \ {c} : at'[d] = at[d] /\ call'[d] = call[d]
  BY <1>0, <1>1 DEF Procs
<1>3. alone' \subseteq alone \cup {c} /\ UNCHANGED <<row, mbo, torn>>
  BY DEF Enter, dbVars
<1>4. TypeOK'
  <2>1. at' \in [Procs -> Point] /\ call' \in [Clients -> Calls \cup {NoCall}]
    BY <1>0, <1>1
  <2>2. calls' \in Nat /\ alone' \in SUBSET Clients
    BY <1>0, <1>3 DEF TypeOK, Enter
  <2>3. QED
    BY <1>0, <2>1, <2>2 DEF TypeOK, Enter, dbVars, cacheVars
<1>5. Asked'
  BY <1>2 DEF Asked, BitsInv
<1>6. QED
  BY <1>3, <1>4, <1>5, BitsUntouched

\* A call ends.
LEMMA LeaveKeeps ==
    ASSUME BitsInv, NEW c \in Clients, Leave(c), UNCHANGED <<row, mbo, alterFlag, flagCache, torn>>,
           encoded' \in {encoded, {}}, missed' \in BOOLEAN
    PROVE  BitsInv'
<1>0. TypeOK /\ c \in Procs
  BY DEF BitsInv, Procs
<1>1. /\ at' = [at EXCEPT ![c] = "idle"] /\ call' = [call EXCEPT ![c] = NoCall]
      /\ at \in [Procs -> Point] /\ call \in [Clients -> Calls \cup {NoCall}]
      /\ alone' = alone \ {c} /\ UNCHANGED <<flag, list, calls, resets, crashes>>
  BY <1>0 DEF Leave, Goto, TypeOK, countVars
<1>2. /\ at'[c] = "idle"
      /\ \A d \in Clients \ {c} : at'[d] = at[d] /\ call'[d] = call[d]
  BY <1>0, <1>1 DEF Procs
<1>3. TypeOK'
  <2>1. at' \in [Procs -> Point] /\ call' \in [Clients -> Calls \cup {NoCall}]
    BY <1>0, <1>1 DEF Point
  <2>2. encoded' \in SUBSET [Variables -> Raws]
    BY <1>0 DEF TypeOK
  <2>3. QED
    BY <1>0, <1>1, <2>1, <2>2 DEF TypeOK
<1>4. Asked'
  BY <1>2 DEF Asked, BitsInv
<1>5. QED
  BY <1>3, <1>4, BitsUntouched

\* A call, or a reader, moves on and leaves the table alone.
LEMMA MoveKeeps ==
    ASSUME BitsInv, NEW p \in Procs, NEW point \in Point, Goto(p, point),
           UNCHANGED <<row, mbo, alterFlag, call, calls, resets, crashes, torn, alone>>,
           flag' \in [Clients -> BOOLEAN], flagCache' \in SUBSET BOOLEAN,
           encoded' \in SUBSET [Variables -> Raws], missed' \in BOOLEAN,
           list' \in [Readers -> [Variables -> Raws]],
           p \in Clients => at[p] \in {"find", "flag"} /\ point \in {"flag", "tx"}
    PROVE  BitsInv'
<1>0. TypeOK
  BY DEF BitsInv
<1>1. at' = [at EXCEPT ![p] = point] /\ at \in [Procs -> Point]
  BY <1>0 DEF Goto, TypeOK
<1>2. at'[p] = point /\ \A d \in Procs \ {p} : at'[d] = at[d]
  BY <1>1
<1>3. TypeOK'
  <2>1. at' \in [Procs -> Point]
    BY <1>1
  <2>2. QED
    BY <1>0, <2>1 DEF TypeOK
<1>4. Clients \subseteq Procs
  BY DEF Procs
<1>5. Asked'
  BY <1>2, <1>4 DEF Asked, BitsInv
<1>6. QED
  BY <1>3, <1>5, BitsUntouched

\* A bit is written on its own.
LEMMA WriteBitKeeps ==
    ASSUME BitsInv, NEW c \in Clients, WriteBit(c)
    PROVE  BitsInv'
<1>0. TypeOK /\ c \in Procs /\ at[c] = "bit" /\ call[c] \in Calls /\ call[c].op = "bit"
  BY DEF BitsInv, Procs, WriteBit, Asked
<1> DEFINE v == call[c].v  i == call[c].i  x == call[c].x
<1>1. v \in Variables /\ x \in Int
  <2>1. call[c] \in [op : {"bit"}, v : Variables, i : 0 .. Places - 1, x : Int]
    BY <1>0 DEF Calls
  <2>2. QED
    BY <2>1
<1>2. CASE i \notin DOMAIN mbo[v]
  <2>1. Leave(c) /\ UNCHANGED <<row, mbo, alterFlag, flagCache, encoded, torn, missed>>
    BY <1>2 DEF WriteBit, cacheVars
  <2>2. QED
    BY <1>0, <2>1, LeaveKeeps DEF TypeOK
<1>3. CASE i \in DOMAIN mbo[v]
  <2>1. /\ mbo' = [mbo EXCEPT ![v][i] = x] /\ torn' = torn \cup {v}
        /\ at' = [at EXCEPT ![c] = "bits"]
        /\ UNCHANGED <<row, alterFlag, flagCache, encoded, call, flag, list, calls, resets, crashes,
                       missed, alone>>
    BY <1>3 DEF WriteBit, Goto, cacheVars, countVars
  <2>2. mbo = [u \in Variables |-> mbo[u]]
    BY <1>0 DEF TypeOK
  <2>3. mbo'[v] = [mbo[v] EXCEPT ![i] = x] /\ \A u \in Variables \ {v} : mbo'[u] = mbo[u]
    BY <1>1, <2>1, <2>2
  <2>4. DOMAIN mbo'[v] = DOMAIN mbo[v] /\ mbo'[v] \in [DOMAIN mbo[v] -> Int]
    <3>1. mbo[v] \in [DOMAIN mbo[v] -> Int]
      BY <1>0, <1>1 DEF TypeOK
    <3>2. QED
      BY <1>1, <2>3, <3>1
  <2>5. at'[c] = "bits" /\ \A d \in Clients \ {c} : at'[d] = at[d]
    BY <1>0, <2>1 DEF TypeOK, Procs
  <2>6. TypeOK'
    <3>1. mbo' = [u \in Variables |-> mbo'[u]]
      BY <2>1, <2>2
    <3>2. \A u \in Variables : DOMAIN mbo'[u] \subseteq 0 .. Places - 1 /\ mbo'[u] \in [DOMAIN mbo'[u] -> Int]
      <4>1. TAKE u \in Variables
      <4>2. /\ DOMAIN mbo[u] \subseteq 0 .. Places - 1
            /\ mbo[u] \in [DOMAIN mbo[u] -> Int]
        BY <1>0 DEF TypeOK
      <4>3. CASE u = v
        BY <2>4, <4>2, <4>3
      <4>4. CASE u # v
        BY <2>3, <4>2, <4>4
      <4>5. QED
        BY <4>3, <4>4
    <3>3. at' \in [Procs -> Point]
      BY <1>0, <2>1 DEF TypeOK, Point
    <3>4. QED
      BY <1>0, <1>1, <2>1, <3>1, <3>2, <3>3 DEF TypeOK
  <2>7. Asked'
    BY <1>0, <2>1, <2>5 DEF BitsInv, Asked
  <2>8. BitsAgree'
    BY <2>1, <2>3 DEF BitsInv, BitsAgree
  <2>9. QED
    BY <2>6, <2>7, <2>8 DEF BitsInv
<1>4. QED
  BY <1>2, <1>3

\* The flag that a call uses is TRUE or FALSE.
LEMMA FlagType ==
    ASSUME flag \in [Clients -> BOOLEAN], NEW c \in Clients, FlagSeen(c)
    PROVE  flag' \in [Clients -> BOOLEAN]
<1> DEFINE b == IF flagCache = {} THEN flag[c] ELSE TRUE \in flagCache
<1>1. b \in BOOLEAN
  <2>1. flag[c] \in BOOLEAN
    OBVIOUS
  <2>2. (TRUE \in flagCache) \in BOOLEAN
    OBVIOUS
  <2>3. QED
    BY <2>1, <2>2, Zenon
<1>2. flag' = [flag EXCEPT ![c] = b]
  BY Zenon DEF FlagSeen
<1> HIDE DEF b
<1>3. QED
  BY <1>1, <1>2

\* The bits are read and combined.
LEMMA ReadBitsKeeps ==
    ASSUME BitsInv, NEW c \in Clients, ReadBits(c)
    PROVE  BitsInv'
<1>0. TypeOK /\ c \in Procs /\ at[c] = "bits" /\ call[c] \in Calls
  BY DEF BitsInv, Procs, ReadBits, Asked
<1> DEFINE v == call[c].v  x == ParseBinary(BitText(mbo[v]))
<1>1. v \in Variables /\ x \in Int
  <2>1. v \in Variables
    BY <1>0 DEF Calls
  <2>2. mbo[v] \in [DOMAIN mbo[v] -> Int]
    BY <1>0, <2>1 DEF TypeOK
  <2>3. BitText(mbo[v]) \in Seq(Int)
    BY <2>2, TextType
  <2>4. QED
    BY <2>1, <2>3, ParsedType
<1> HIDE DEF x
<1>2. PICK point \in {"flag", "tx"} : at' = [at EXCEPT ![c] = point]
  BY DEF ReadBits, GetFlag, Goto, AfterFlag
<1> DEFINE request == [op |-> "toggle", v |-> v, x |-> x]
<1>3. /\ call' = [call EXCEPT ![c] = request]
      /\ UNCHANGED <<row, mbo, alterFlag, flagCache, encoded, list, calls, resets, crashes,
                     torn, missed, alone>>
      /\ flag' \in [Clients -> BOOLEAN]
  <2>1. flag' \in [Clients -> BOOLEAN]
    BY <1>0, FlagType DEF ReadBits, GetFlag, TypeOK
  <2>2. QED
    BY <2>1 DEF ReadBits, GetFlag, dbVars, cacheVars, countVars, x
<1>4. /\ at'[c] = point /\ call'[c] = request
      /\ \A d \in Clients \ {c} : at'[d] = at[d] /\ call'[d] = call[d]
  BY <1>0, <1>2, <1>3 DEF TypeOK, Procs
<1>5. request \in Calls
  BY <1>1 DEF Calls
<1>6. TypeOK'
  <2>1. at' \in [Procs -> Point]
    BY <1>0, <1>2 DEF TypeOK, Point
  <2>2. call' \in [Clients -> Calls \cup {NoCall}]
    BY <1>0, <1>3, <1>5 DEF TypeOK
  <2>3. QED
    BY <1>0, <1>3, <2>1, <2>2 DEF TypeOK
<1>7. Asked'
  BY <1>4, <1>5 DEF BitsInv, Asked
<1>8. QED
  BY <1>3, <1>6, <1>7, BitsUntouched

\* A transaction that gives a variable a row, and bits that agree with it unless it is torn.
LEMMA CommitKeeps ==
    ASSUME BitsInv, NEW c \in Clients, Commit(c), NEW r \in Rows, NEW b,
           row' = [row EXCEPT ![call[c].v] = r], mbo' = [mbo EXCEPT ![call[c].v] = b],
           DOMAIN b \subseteq 0 .. Places - 1, b \in [DOMAIN b -> Int],
           torn' \in SUBSET Variables, torn \ {call[c].v} \subseteq torn',
           call[c].v \notin torn' => (r.hasMbo => Spells(r.kind, r.first, r.value, b))
    PROVE  BitsInv'
<1>0. TypeOK /\ c \in Procs /\ at[c] = "tx" /\ call[c] \in Calls /\ call[c].op # "bit"
  BY DEF BitsInv, Procs, Commit, Asked
<1> DEFINE v == call[c].v
<1>1. v \in Variables
  BY <1>0 DEF Calls
<1>2. /\ at' = [at EXCEPT ![c] = "clear"]
      /\ UNCHANGED <<alterFlag, flagCache, encoded, call, flag, list, calls, resets, crashes,
                     missed, alone>>
  BY DEF Commit, Goto, cacheVars, countVars
<1>3. /\ row'[v] = r /\ mbo'[v] = b
      /\ \A u \in Variables \ {v} : row'[u] = row[u] /\ mbo'[u] = mbo[u]
      /\ mbo' = [u \in Variables |-> mbo'[u]]
  <2>1. mbo = [u \in Variables |-> mbo[u]] /\ row = [u \in Variables |-> row[u]]
    BY <1>0 DEF TypeOK
  <2>2. QED
    BY <1>1, <2>1
<1>4. at'[c] = "clear" /\ \A d \in Clients \ {c} : at'[d] = at[d]
  BY <1>0, <1>2 DEF TypeOK, Procs
<1>5. TypeOK'
  <2>1. row' \in [Variables -> Rows \cup {NoRow}]
    BY <1>0, <1>1 DEF TypeOK
  <2>2. \A u \in Variables : DOMAIN mbo'[u] \subseteq 0 .. Places - 1 /\ mbo'[u] \in [DOMAIN mbo'[u] -> Int]
    <3>1. TAKE u \in Variables
    <3>2. CASE u = v
      BY <1>3, <3>2
    <3>3. CASE u # v
      BY <1>0, <1>3, <3>3 DEF TypeOK
    <3>4. QED
      BY <3>2, <3>3
  <2>3. at' \in [Procs -> Point]
    BY <1>0, <1>2 DEF TypeOK, Point
  <2>4. QED
    BY <1>0, <1>2, <1>3, <2>1, <2>2, <2>3 DEF TypeOK
<1>6. Asked'
  BY <1>0, <1>2, <1>4 DEF BitsInv, Asked
<1>7. BitsAgree'
  <2>1. ASSUME NEW u \in Variables, u \notin torn', row'[u] # NoRow, row'[u].hasMbo
        PROVE  Spells(row'[u].kind, row'[u].first, row'[u].value, mbo'[u])
    <3>1. CASE u = v
      BY <1>3, <2>1, <3>1
    <3>2. CASE u # v
      <4>1. u \notin torn /\ row'[u] = row[u] /\ mbo'[u] = mbo[u]
        BY <1>3, <2>1, <3>2
      <4>2. Spells(row[u].kind, row[u].first, row[u].value, mbo[u])
        BY <2>1, <4>1 DEF BitsInv, BitsAgree
      <4>3. QED
        BY <4>1, <4>2
    <3>3. QED
      BY <3>1, <3>2
  <2>2. QED
    BY <2>1 DEF BitsAgree
<1>8. QED
  BY <1>5, <1>6, <1>7 DEF BitsInv

\* The transaction of createWritingVariable.
LEMMA CreateKeeps ==
    ASSUME Width = 8, BitsInv, NEW c \in Clients, Commit(c), call[c].op = "create"
    PROVE  BitsInv'
<1>0. TypeOK /\ at[c] = "tx" /\ call[c] \in Calls
  BY DEF BitsInv, Commit, Asked
<1> DEFINE v == call[c].v  q == call[c].as  r == Upserted(c, v, q)
           b == IF q.bits # NoBits THEN Listed(q) ELSE IF q.kind = "byte" THEN NoBits ELSE mbo[v]
<1>1. v \in Variables /\ q \in Creates
  <2>1. call[c] \in [op : {"create"}, v : Variables, as : Creates]
    BY <1>0 DEF Calls
  <2>2. QED
    BY <2>1
<1>2. /\ q.x \in Nat /\ q.first \in Nat /\ q.kind \in {"byte", "plain"} /\ q.given \in BOOLEAN
      /\ DOMAIN q.bits \subseteq 0 .. Places - 1
      /\ q.bits \in [DOMAIN q.bits -> Nat \cup {Default}]
  BY <1>1, WritingAssumption
<1>3. CreateTx(c, v, q)
  BY DEF Commit
<1>4. row' = [row EXCEPT ![v] = r] /\ mbo' = [mbo EXCEPT ![v] = b] /\ torn' = AfterList(v, q)
  BY <1>3 DEF CreateTx
<1> HIDE DEF q, v
<1>5. r \in Rows /\ r.kind = q.kind /\ r.first = q.first /\ r.value = q.x
      /\ r.hasMbo = (q.kind = "byte" \/ q.bits # NoBits)
  <2>1. flag[c] \in BOOLEAN /\ row[v] \in Rows \cup {NoRow}
    BY <1>0, <1>1 DEF TypeOK
  <2>2. RawCreated(q.kind, q.x, q.given, flag[c], row[v]) \in Raws
    <3>1. q.x \in Int
      BY <1>2
    <3>2. \A old \in Rows \cup {NoRow}, g \in BOOLEAN :
             RawCreated(q.kind, q.x, g, flag[c], old) \in Raws
      BY <1>2, <2>1, <3>1, WrittenTypes, Zenon
    <3>3. QED
      BY <1>2, <2>1, <3>2, Zenon
  <2>3. (q.kind = "byte" \/ q.bits # NoBits) \in BOOLEAN
    OBVIOUS
  <2>4. QED
    BY <1>2, <2>2, <2>3 DEF Rows, Upserted
<1>6. DOMAIN Listed(q) = DOMAIN q.bits /\ Listed(q) \in [DOMAIN q.bits -> Int]
  BY <1>2 DEF Listed
<1>7. DOMAIN NoBits = {} /\ NoBits \in [{} -> Int]
  BY DEF NoBits
<1>8. DOMAIN b \subseteq 0 .. Places - 1 /\ b \in [DOMAIN b -> Int]
  <2>1. DOMAIN mbo[v] \subseteq 0 .. Places - 1 /\ mbo[v] \in [DOMAIN mbo[v] -> Int]
    BY <1>0, <1>1 DEF TypeOK
  <2>2. CASE q.bits # NoBits
    BY <1>2, <1>6, <2>2
  <2>3. CASE q.bits = NoBits /\ q.kind = "byte"
    BY <1>7, <2>3
  <2>4. CASE q.bits = NoBits /\ q.kind # "byte"
    BY <2>1, <2>4
  <2>5. QED
    BY <2>2, <2>3, <2>4
<1>9. torn' \in SUBSET Variables /\ torn \ {v} \subseteq torn'
      /\ (v \notin torn' => Spells(q.kind, q.first, q.x, Listed(q)))
  BY <1>0, <1>1, <1>4 DEF TypeOK, AfterList
<1>10. ASSUME v \notin torn', r.hasMbo PROVE Spells(r.kind, r.first, r.value, b)
  <2>1. CASE q.bits # NoBits
    <3>1. b = Listed(q)
      BY <2>1
    <3>2. QED
      BY <1>5, <1>9, <1>10, <3>1
  <2>2. CASE q.bits = NoBits
    <3>1. b = NoBits
      BY <1>5, <1>10, <2>2
    <3>2. QED
      BY <1>7, <3>1 DEF Spells
  <2>3. QED
    BY <2>1, <2>2
<1> HIDE DEF r, b
<1> USE DEF v
<1>11. QED
  BY <1>4, <1>5, <1>8, <1>9, <1>10, CommitKeeps

\* The transaction of performWritingVariableUpdate, with a value.
LEMMA UpdateKeeps ==
    ASSUME Width = 8, BitsInv, NEW c \in Clients, Commit(c), call[c].op \notin {"create", "raw"}
    PROVE  BitsInv'
<1>0. TypeOK /\ at[c] = "tx" /\ call[c] \in Calls /\ call[c].op # "bit"
  BY DEF BitsInv, Commit, Asked
<1> DEFINE v == call[c].v  x == call[c].x
<1>1. v \in Variables /\ x \in Int
  <2>1. call[c] \in [op : {"variable", "toggle"}, v : Variables, x : Int]
    BY <1>0 DEF Calls
  <2>2. QED
    BY <2>1
<1>2. Update(c, v, x)
  BY DEF Commit
<1> DEFINE r == [row[v] EXCEPT !.value = x, !.raw = RawOf(row[v].kind, x, flag[c])]
           b == BitsSet(v, x)
<1>3. row' = [row EXCEPT ![v] = r] /\ mbo' = [mbo EXCEPT ![v] = b] /\ row[v] # NoRow
      /\ torn' = torn \ {v}
  BY <1>0, <1>1, <1>2 DEF Update, TypeOK
<1>4. row[v] \in Rows
  BY <1>0, <1>1, <1>3 DEF TypeOK
<1>5. r \in Rows /\ r.kind = row[v].kind /\ r.first = row[v].first /\ r.value = x
      /\ r.hasMbo = row[v].hasMbo /\ row[v].kind \in {"byte", "plain"} /\ row[v].first \in Int
  <2>1. flag[c] \in BOOLEAN /\ row[v].kind \in {"byte", "plain"}
    BY <1>0, <1>4 DEF TypeOK, Rows
  <2>2. RawOf(row[v].kind, x, flag[c]) \in Raws
    BY <1>1, <2>1, WrittenTypes
  <2>3. QED
    BY <1>1, <1>4, <2>2 DEF Rows
<1>6. DOMAIN mbo[v] \subseteq 0 .. Places - 1 /\ mbo[v] \in [DOMAIN mbo[v] -> Int]
  BY <1>0, <1>1 DEF TypeOK
<1>7. DOMAIN b = DOMAIN mbo[v] /\ \A p \in DOMAIN mbo[v] :
          b[p] = IF ~row[v].hasMbo THEN mbo[v][p]
                 ELSE IF row[v].kind = "plain" THEN x
                 ELSE IF p - row[v].first \in 0 .. Width - 1 THEN BitsOf(x)[p - row[v].first + 1]
                 ELSE mbo[v][p]
  BY DEF BitsSet
<1>8. \A p \in DOMAIN mbo[v] : b[p] \in Int
  <2>1. TAKE p \in DOMAIN mbo[v]
  <2>2. p \in Int /\ mbo[v][p] \in Int
    BY <1>6
  <2>3. ASSUME p - row[v].first \in 0 .. Width - 1 PROVE BitsOf(x)[p - row[v].first + 1] \in Int
    <3>1. p - row[v].first + 1 \in 1 .. 8
      BY <1>5, <2>2, <2>3
    <3>2. QED
      BY <1>1, <3>1, BitType
  <2>4. QED
    BY <1>1, <1>7, <2>2, <2>3
<1>9. b \in [DOMAIN b -> Int]
  <2>1. b = [p \in DOMAIN mbo[v] |-> b[p]]
    BY DEF BitsSet
  <2> HIDE DEF b
  <2>2. QED
    BY <1>7, <1>8, <2>1
<1>10. r.hasMbo => Spells(r.kind, r.first, r.value, b)
  <2> HIDE DEF r, b
  <2>1. QED
    BY <1>5, <1>7 DEF Spells
<1> HIDE DEF r, b
<1>11. torn' \in SUBSET Variables /\ torn \ {v} \subseteq torn'
  BY <1>0, <1>3 DEF TypeOK
<1>12. DOMAIN b \subseteq 0 .. Places - 1
  BY <1>6, <1>7
<1>13. QED
  BY <1>3, <1>5, <1>9, <1>10, <1>11, <1>12, CommitKeeps

\* The same with a raw value only.
LEMMA RawKeeps ==
    ASSUME BitsInv, NEW c \in Clients, Commit(c), call[c].op = "raw"
    PROVE  BitsInv'
<1>0. TypeOK /\ at[c] = "tx" /\ call[c] \in Calls
  BY DEF BitsInv, Commit, Asked
<1> DEFINE v == call[c].v  r == [row[v] EXCEPT !.raw = Given]
<1>1. v \in Variables
  BY <1>0 DEF Calls
<1>2. UpdateRaw(v)
  BY DEF Commit
<1>3. row' = [row EXCEPT ![v] = r] /\ UNCHANGED <<mbo, torn>> /\ row[v] # NoRow
  BY <1>0, <1>1, <1>2 DEF UpdateRaw, TypeOK
<1>4. row[v] \in Rows
  BY <1>0, <1>1, <1>3 DEF TypeOK
<1>5. Given \in Raws
  BY DEF Given, Raws
<1>6. r \in Rows /\ r.kind = row[v].kind /\ r.first = row[v].first /\ r.value = row[v].value
      /\ r.hasMbo = row[v].hasMbo
  BY <1>4, <1>5 DEF Rows
<1>7. mbo' = [mbo EXCEPT ![v] = mbo[v]]
  BY <1>0, <1>1, <1>3 DEF TypeOK
<1>8. DOMAIN mbo[v] \subseteq 0 .. Places - 1 /\ mbo[v] \in [DOMAIN mbo[v] -> Int]
  BY <1>0, <1>1 DEF TypeOK
<1>9. torn' \in SUBSET Variables /\ torn \ {v} \subseteq torn'
  BY <1>0, <1>3 DEF TypeOK
<1>10. v \notin torn' => (r.hasMbo => Spells(r.kind, r.first, r.value, mbo[v]))
  <2> HIDE DEF r
  <2>1. QED
    BY <1>1, <1>3, <1>6 DEF BitsInv, BitsAgree
<1> HIDE DEF r
<1>11. QED
  BY <1>3, <1>6, <1>7, <1>8, <1>9, <1>10, CommitKeeps

\* The list of raw values has its type.
LEMMA TableType == ASSUME TypeOK PROVE Table \in [Variables -> Raws] /\ NoRaws \in [Variables -> Raws]
<1>1. \A v \in Variables : row[v] # NoRow => row[v].raw \in Raws
  BY DEF TypeOK, Rows
<1>2. NoRaw \in Raws
  BY DEF Raws
<1>3. QED
  BY <1>1, <1>2 DEF Table, NoRaws

LEMMA ClientBits ==
    ASSUME Width = 8, BitsInv, NEW c \in Clients, ClientStep(c)
    PROVE  BitsInv'
<1>0. TypeOK /\ c \in Procs /\ AfterFlag \in {"flag", "tx"} /\ {"flag", "tx"} \subseteq Point
  BY DEF BitsInv, Procs, AfterFlag, Point
<1>1. CASE UpdateVariable(c)
  <2>1. PICK v \in Variables : \/ \E x \in Values : Enter(c, [op |-> "variable", v |-> v, x |-> x], "find")
                              \/ Enter(c, [op |-> "raw", v |-> v], "find")
    BY <1>1 DEF UpdateVariable
  <2>2. flag' \in [Clients -> BOOLEAN]
    BY <1>0, <1>1 DEF TypeOK, UpdateVariable
  <2>3. ASSUME NEW request \in Calls, request.op \in {"variable", "raw"}, Enter(c, request, "find")
        PROVE  BitsInv'
    BY <2>2, <2>3, EnterKeeps
  <2>4. ASSUME NEW x \in Values, Enter(c, [op |-> "variable", v |-> v, x |-> x], "find") PROVE BitsInv'
    <3> DEFINE request == [op |-> "variable", v |-> v, x |-> x]
    <3>1. request \in Calls /\ request.op = "variable"
      BY WritingAssumption DEF Calls
    <3> HIDE DEF request
    <3>2. Enter(c, request, "find")
      BY <2>4 DEF request
    <3>3. QED
      BY <2>3, <3>1, <3>2
  <2>5. ASSUME Enter(c, [op |-> "raw", v |-> v], "find") PROVE BitsInv'
    <3> DEFINE request == [op |-> "raw", v |-> v]
    <3>1. request \in Calls /\ request.op = "raw"
      BY DEF Calls
    <3> HIDE DEF request
    <3>2. Enter(c, request, "find")
      BY <2>5 DEF request
    <3>3. QED
      BY <2>3, <3>1, <3>2
  <2>6. QED
    BY <2>1, <2>4, <2>5
<1>2. CASE UpdateMbo(c)
  <2>1. PICK v \in Variables, i \in 0 .. Places - 1, x \in Values \cup {0, 1} :
            Enter(c, [op |-> "bit", v |-> v, i |-> i, x |-> x], "bit") /\ UNCHANGED flag
    BY <1>2 DEF UpdateMbo
  <2> DEFINE request == [op |-> "bit", v |-> v, i |-> i, x |-> x]
  <2>2. request \in Calls /\ request.op = "bit"
    BY WritingAssumption DEF Calls
  <2>3. flag' \in [Clients -> BOOLEAN]
    BY <1>0, <2>1 DEF TypeOK
  <2> HIDE DEF request
  <2>4. Enter(c, request, "bit")
    BY <2>1 DEF request
  <2>5. QED
    BY <2>2, <2>3, <2>4, EnterKeeps
<1>3. CASE Create(c)
  <2>1. PICK v \in Variables, q \in Creates :
            Enter(c, [op |-> "create", v |-> v, as |-> q], AfterFlag) /\ FlagSeen(c)
    BY <1>3 DEF Create
  <2> DEFINE request == [op |-> "create", v |-> v, as |-> q]
  <2>2. request \in Calls /\ request.op = "create"
    BY DEF Calls
  <2>3. flag' \in [Clients -> BOOLEAN]
    BY <1>0, <2>1, FlagType DEF TypeOK
  <2> HIDE DEF request
  <2>4. Enter(c, request, AfterFlag)
    BY <2>1 DEF request
  <2>5. QED
    BY <1>0, <2>2, <2>3, <2>4, EnterKeeps
<1>4. CASE Find(c)
  <2>1. at[c] = "find" /\ UNCHANGED <<row, mbo, alterFlag, flagCache, encoded, torn, missed>>
    BY <1>4 DEF Find, dbVars, cacheVars
  <2>2. CASE Leave(c)
    BY <1>0, <2>1, <2>2, LeaveKeeps DEF TypeOK
  <2>3. ASSUME Goto(c, "tx") \/ Goto(c, AfterFlag), flag' \in [Clients -> BOOLEAN],
               UNCHANGED <<list, call, calls, resets, crashes, alone>>
        PROVE  BitsInv'
    <3>1. /\ flagCache' \in SUBSET BOOLEAN /\ encoded' \in SUBSET [Variables -> Raws]
          /\ missed' \in BOOLEAN /\ list' \in [Readers -> [Variables -> Raws]]
      BY <1>0, <2>1, <2>3 DEF TypeOK
    <3>2. PICK point \in {"flag", "tx"} : Goto(c, point)
      BY <1>0, <2>3
    <3>3. QED
      BY <1>0, <2>1, <2>3, <3>1, <3>2, MoveKeeps
  <2>4. CASE Goto(c, "tx") /\ UNCHANGED <<flag, list>> /\ UNCHANGED <<call, countVars, alone>>
    <3>1. flag' \in [Clients -> BOOLEAN] /\ UNCHANGED <<list, call, calls, resets, crashes, alone>>
      BY <1>0, <2>4 DEF TypeOK, countVars
    <3>2. QED
      BY <2>3, <2>4, <3>1
  <2>5. CASE GetFlag(c) /\ UNCHANGED <<call, countVars, alone>>
    <3>1. Goto(c, AfterFlag) /\ UNCHANGED <<list, call, calls, resets, crashes, alone>>
      BY <2>5 DEF GetFlag, countVars
    <3>2. flag' \in [Clients -> BOOLEAN]
      BY <1>0, <2>5, FlagType DEF GetFlag, TypeOK
    <3>3. QED
      BY <2>3, <3>1, <3>2
  <2>6. QED
    BY <1>4, <2>2, <2>4, <2>5 DEF Find
<1>5. CASE WriteBit(c)
  BY <1>5, WriteBitKeeps
<1>6. CASE ReadBits(c)
  BY <1>6, ReadBitsKeeps
<1>7. CASE ReadFlag(c)
  <2>1. at[c] = "flag" /\ Goto(c, "tx")
        /\ UNCHANGED <<row, mbo, alterFlag, encoded, call, list, calls, resets, crashes, torn, missed, alone>>
        /\ flagCache' = {alterFlag} /\ flag' = [flag EXCEPT ![c] = alterFlag]
    BY <1>7 DEF ReadFlag, dbVars, countVars
  <2>2. /\ flagCache' \in SUBSET BOOLEAN /\ encoded' \in SUBSET [Variables -> Raws]
        /\ missed' \in BOOLEAN /\ list' \in [Readers -> [Variables -> Raws]]
        /\ flag' \in [Clients -> BOOLEAN] /\ "tx" \in Point
    BY <1>0, <2>1 DEF TypeOK
  <2>3. QED
    BY <1>0, <2>1, <2>2, MoveKeeps
<1>8. CASE Commit(c)
  BY <1>8, CreateKeeps, UpdateKeeps, RawKeeps
<1>9. CASE Clear(c)
  <2>1. /\ Leave(c) /\ UNCHANGED <<row, mbo, alterFlag, flagCache, torn>> /\ encoded' = {}
        /\ missed' \in BOOLEAN
    BY <1>9 DEF Clear, dbVars
  <2>2. QED
    BY <2>1, LeaveKeeps
<1>10. CASE Fail(c)
  <2>1. Leave(c) /\ UNCHANGED <<row, mbo, alterFlag, flagCache, encoded, torn, missed>>
    BY <1>10 DEF Fail, dbVars, cacheVars
  <2>2. QED
    BY <1>0, <2>1, LeaveKeeps DEF TypeOK
<1>11. QED
  BY <1>1, <1>2, <1>3, <1>4, <1>5, <1>6, <1>7, <1>8, <1>9, <1>10, ClientStep(c) DEF ClientStep

LEMMA ReaderBits ==
    ASSUME BitsInv, NEW r \in Readers, ReaderStep(r)
    PROVE  BitsInv'
<1>0. /\ TypeOK /\ r \in Procs /\ r \notin Clients /\ {"idle", "load", "fill"} \subseteq Point
      /\ Table \in [Variables -> Raws] /\ NoRaws \in [Variables -> Raws]
      /\ (list[r] # Table) \in BOOLEAN
  BY WritingAssumption, TableType DEF BitsInv, Procs, Point
<1>1. ASSUME NEW point \in Point, Goto(r, point),
             UNCHANGED <<row, mbo, alterFlag, flagCache, call, flag, calls, resets, crashes, torn, alone>>,
             encoded' \in SUBSET [Variables -> Raws], missed' \in BOOLEAN,
             list' \in [Readers -> [Variables -> Raws]]
      PROVE  BitsInv'
  <2>1. flag' \in [Clients -> BOOLEAN] /\ flagCache' \in SUBSET BOOLEAN
    BY <1>0, <1>1 DEF TypeOK
  <2>2. QED
    BY <1>0, <1>1, <2>1, MoveKeeps
<1>2. CASE Ask(r)
  <2>1. Goto(r, "load") /\ UNCHANGED <<row, mbo, alterFlag, flagCache, encoded, call, flag, list,
                                       calls, resets, crashes, torn, missed, alone>>
    BY <1>2 DEF Ask, dbVars, cacheVars, countVars
  <2>2. /\ encoded' \in SUBSET [Variables -> Raws] /\ missed' \in BOOLEAN
        /\ list' \in [Readers -> [Variables -> Raws]]
    BY <1>0, <2>1 DEF TypeOK
  <2>3. QED
    BY <1>0, <1>1, <2>1, <2>2
<1>3. CASE Load(r)
  <2>1. Goto(r, "fill") /\ list' = [list EXCEPT ![r] = Table]
        /\ UNCHANGED <<row, mbo, alterFlag, flagCache, encoded, call, flag,
                       calls, resets, crashes, torn, missed, alone>>
    BY <1>3 DEF Load, dbVars, cacheVars, countVars
  <2>2. /\ encoded' \in SUBSET [Variables -> Raws] /\ missed' \in BOOLEAN
        /\ list' \in [Readers -> [Variables -> Raws]]
    BY <1>0, <2>1 DEF TypeOK
  <2>3. QED
    BY <1>0, <1>1, <2>1, <2>2
<1>4. CASE Fill(r)
  <2>1. Goto(r, "idle") /\ list' = [list EXCEPT ![r] = NoRaws]
        /\ encoded' = {list[r]} /\ missed' = (list[r] # Table)
        /\ UNCHANGED <<row, mbo, alterFlag, flagCache, call, flag, calls, resets, crashes, torn, alone>>
    BY <1>4 DEF Fill, dbVars, countVars
  <2>2. /\ encoded' \in SUBSET [Variables -> Raws] /\ missed' \in BOOLEAN
        /\ list' \in [Readers -> [Variables -> Raws]]
    BY <1>0, <2>1 DEF TypeOK
  <2>3. QED
    BY <1>0, <1>1, <2>1, <2>2
<1>5. QED
  BY <1>2, <1>3, <1>4, ReaderStep(r) DEF ReaderStep

LEMMA NextBits == ASSUME Width = 8, BitsInv, [Next]_vars PROVE BitsInv'
<1>0. TypeOK
  BY DEF BitsInv
<1>1. CASE DeleteAll
  <2>1. /\ row' = [v \in Variables |-> NoRow] /\ mbo' = [v \in Variables |-> NoBits]
        /\ missed' = TRUE /\ torn' = {} /\ calls' = calls + 1
        /\ UNCHANGED <<alterFlag, flagCache, encoded, at, call, flag, list, resets, crashes, alone>>
    BY <1>1 DEF DeleteAll, cacheVars, callVars
  <2>2. DOMAIN NoBits = {} /\ NoBits \in [{} -> Int]
    BY DEF NoBits
  <2>3. /\ row' \in [Variables -> Rows \cup {NoRow}] /\ mbo' = [v \in Variables |-> mbo'[v]]
        /\ \A v \in Variables : /\ row'[v] = NoRow /\ DOMAIN mbo'[v] \subseteq 0 .. Places - 1
                               /\ mbo'[v] \in [DOMAIN mbo'[v] -> Int]
    BY <2>1, <2>2
  <2>4. TypeOK' /\ BitsAgree' /\ Asked'
    <3>1. TypeOK'
      BY <1>0, <2>1, <2>3 DEF TypeOK
    <3>2. BitsAgree'
      BY <2>3 DEF BitsAgree
    <3>3. Asked'
      BY <2>1 DEF BitsInv, Asked
    <3>4. QED
      BY <3>1, <3>2, <3>3
  <2>5. QED
    BY <2>4 DEF BitsInv
<1>2. CASE Crash
  <2>1. /\ encoded' = {} /\ flagCache' = {} /\ at' = [p \in Procs |-> "idle"]
        /\ call' = [c \in Clients |-> NoCall] /\ list' = [r \in Readers |-> NoRaws]
        /\ missed' = FALSE /\ alone' = {} /\ crashes' = crashes + 1
        /\ UNCHANGED <<row, mbo, alterFlag, flag, calls, resets, torn>>
    BY <1>2 DEF Crash, dbVars
  <2>2. at' \in [Procs -> Point] /\ call' \in [Clients -> Calls \cup {NoCall}]
    BY <2>1 DEF Point
  <2>3. list' \in [Readers -> [Variables -> Raws]]
    BY <1>0, <2>1, TableType
  <2>4. TypeOK'
    <3>1. /\ flagCache' \in SUBSET BOOLEAN /\ encoded' \in SUBSET [Variables -> Raws]
          /\ alone' \in SUBSET Clients /\ missed' \in BOOLEAN
      BY <2>1
    <3>2. crashes' \in Nat
      BY <1>0, <2>1 DEF TypeOK
    <3>3. QED
      BY <1>0, <2>1, <2>2, <2>3, <3>1, <3>2 DEF TypeOK
  <2>5. Asked'
    BY <2>1 DEF Asked, Procs
  <2>6. QED
    BY <2>1, <2>4, <2>5, BitsUntouched
<1>3. CASE SwitchFlag \/ Reset \/ UNCHANGED vars
  <2>1. /\ UNCHANGED <<row, mbo, at, call, flag, list, crashes, torn, alone>>
        /\ alterFlag' \in {alterFlag, ~alterFlag} /\ flagCache' \in {flagCache, {}}
        /\ encoded' \in {encoded, {}} /\ missed' \in {missed, FALSE}
        /\ calls' \in {calls, calls + 1} /\ resets' \in {resets, resets + 1}
    BY <1>3 DEF SwitchFlag, Reset, vars, dbVars, cacheVars, callVars, countVars
  <2>2. alterFlag' \in BOOLEAN /\ missed' \in BOOLEAN
    BY <1>0, <2>1 DEF TypeOK
  <2>3. TypeOK'
    BY <1>0, <2>1, <2>2 DEF TypeOK
  <2>4. Asked'
    BY <2>1 DEF BitsInv, Asked
  <2>5. QED
    BY <2>1, <2>3, <2>4, BitsUntouched
<1>4. QED
  BY <1>1, <1>2, <1>3, ClientBits, ReaderBits DEF Next

LEMMA InitBits == ASSUME Width = 8, Init PROVE BitsInv
<1>1. ASSUME NEW x \in Values
      PROVE  /\ Restored(x) \in Rows /\ Restored(x).kind = "byte" /\ Restored(x).value = x
             /\ Restored(x).first = 0 /\ x \in Int
  <2>1. x \in Int
    BY WritingAssumption
  <2>2. Text(x) \in Raws
    BY <2>1 DEF Text, Raws
  <2>3. QED
    BY <2>1, <2>2 DEF Restored, Rows
<1>2. /\ row \in [Variables -> Rows \cup {NoRow}] /\ mbo = [v \in Variables |-> mbo[v]] /\ BitsAgree
      /\ \A v \in Variables : DOMAIN mbo[v] \subseteq 0 .. Places - 1 /\ mbo[v] \in [DOMAIN mbo[v] -> Int]
  <2>1. CASE row = [v \in Variables |-> NoRow] /\ mbo = [v \in Variables |-> NoBits]
    <3>1. DOMAIN NoBits = {} /\ NoBits \in [{} -> Int]
      BY DEF NoBits
    <3>2. BitsAgree
      BY <2>1 DEF BitsAgree
    <3>3. QED
      BY <2>1, <3>1, <3>2
  <2>2. ASSUME NEW x \in Values, row = [v \in Variables |-> Restored(x)],
               mbo = [v \in Variables |-> [p \in 0 .. Width - 1 |-> BitsOf(x)[p + 1]]]
        PROVE  /\ row \in [Variables -> Rows \cup {NoRow}] /\ mbo = [v \in Variables |-> mbo[v]] /\ BitsAgree
               /\ \A v \in Variables : /\ DOMAIN mbo[v] \subseteq 0 .. Places - 1
                                      /\ mbo[v] \in [DOMAIN mbo[v] -> Int]
    <3> DEFINE b == [p \in 0 .. Width - 1 |-> BitsOf(x)[p + 1]]
    <3>1. DOMAIN b = 0 .. 7 /\ b \in [0 .. 7 -> Int] /\ \A p \in 0 .. 7 : b[p] = BitsOf(x)[p + 1]
      <4>1. \A p \in 0 .. 7 : p + 1 \in 1 .. 8
        OBVIOUS
      <4>2. \A p \in 0 .. 7 : BitsOf(x)[p + 1] \in Int
        BY <1>1, <4>1, BitType
      <4>3. QED
        BY <4>2
    <3> HIDE DEF b
    <3>2. \A v \in Variables : row[v] = Restored(x) /\ mbo[v] = b
      BY <2>2 DEF b
    <3>3. Spells("byte", 0, x, b)
      <4>1. \A p \in DOMAIN b : b[p] = BitsOf(x)[p - 0 + 1]
        BY <3>1
      <4>2. QED
        BY <4>1 DEF Spells
    <3>4. BitsAgree
      <4>1. \A v \in Variables : Spells(row[v].kind, row[v].first, row[v].value, mbo[v])
        BY <1>1, <3>2, <3>3
      <4>2. QED
        BY <4>1 DEF BitsAgree
    <3>5. 0 .. 7 \subseteq 0 .. Places - 1
      BY WritingAssumption
    <3>6. row \in [Variables -> Rows \cup {NoRow}] /\ mbo = [v \in Variables |-> mbo[v]]
      BY <1>1, <2>2
    <3>7. QED
      BY <3>1, <3>2, <3>4, <3>5, <3>6
  <2>3. QED
    BY <2>1, <2>2 DEF Init
<1>3. at \in [Procs -> Point] /\ \A c \in Clients : at[c] = "idle"
  BY DEF Init, Point, Procs
<1>4. NoRaws \in [Variables -> Raws]
  BY DEF NoRaws, Raws
<1>5. list \in [Readers -> [Variables -> Raws]]
  BY <1>4 DEF Init
<1>6. call \in [Clients -> Calls \cup {NoCall}] /\ flag \in [Clients -> BOOLEAN]
  BY DEF Init
<1>7. TypeOK
  BY <1>2, <1>3, <1>5, <1>6 DEF Init, TypeOK
<1>8. Asked
  BY <1>3 DEF Asked
<1>9. QED
  BY <1>2, <1>7, <1>8 DEF BitsInv

\* The variables of the service keep their types, for any number of variables, calls and
\* readers and the eight bits that a byte has in the code: a call knows what it was asked
\* to do wherever it is suspended (writing-variables.service.ts, performWritingVariableUpdate),
\* and what parseInt makes of the text of any bits is a number or NaN.
THEOREM WritingTypes == ASSUME Width = 8 PROVE Spec => []TypeOK
<1>1. BitsInv => TypeOK
  BY DEF BitsInv
<1>2. Init => BitsInv
  BY InitBits
<1>3. BitsInv /\ [Next]_vars => BitsInv'
  BY NextBits
<1>4. QED
  BY <1>1, <1>2, <1>3, PTL DEF Spec

\* The bits of a byte are the digits of its value, and those of a plain variable repeat it,
\* whatever calls interleave, for any number of them, any lists and numbers that requests
\* carry and the eight bits of the code, unless a client wrote the bits at odds with the
\* value: every transaction of performWritingVariableUpdate writes the value and its bits
\* together, and createWritingVariable stores a list that is complete in one transaction.
THEOREM BitsAlwaysAgree == ASSUME Width = 8 PROVE Spec => []BitsAgree
<1>1. BitsInv => BitsAgree
  BY DEF BitsInv
<1>2. Init => BitsInv
  BY InitBits
<1>3. BitsInv /\ [Next]_vars => BitsInv'
  BY NextBits
<1>4. QED
  BY <1>1, <1>2, <1>3, PTL DEF Spec

=============================================================================
