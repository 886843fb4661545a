-------------------------- MODULE SystemConfigProofs --------------------------
(***************************************************************************)
(* Proofs about SystemConfig for any number of configurations, brokers and *)
(* requests, whatever steps reject.  A call is a program, so the first     *)
(* part is about programs: what each of them still owes after each of its  *)
(* steps, and that the programs of a restore, concatenations of those of   *)
(* create, owe no less.  The invariants say that every process keeps the   *)
(* rest of such a program, and what follows for rows, files, caches and    *)
(* clients.                                                                *)
(***************************************************************************)
EXTENDS SystemConfig, TLAPS, FiniteSetTheorems, SequenceTheorems, WellFoundedInduction

Step == [do : Steps, g : Configs]

\* A step of a program, one about a configuration, one that is followed by others.
Has(s, dos) == \E i \in DOMAIN s : s[i].do \in dos
HasOn(s, dos, g) == \E i \in DOMAIN s : s[i].do \in dos /\ s[i].g = g
Later(s, i, dos) == \E j \in DOMAIN s : j > i /\ s[j].do \in dos

\* What a program owes after a step: a change of rows drops the cached list, and that of one
\* row its copy; a committed restore clears the caches; who disconnects the clients connects
\* them again or deletes the rows.
Owes(s, i) ==
    /\ s[i].do \in {"insert", "update", "paths", "delete", "deleteAll"} => Later(s, i, {"delAll"})
    /\ s[i].do \in {"update", "delete"} =>
           \E j \in DOMAIN s : j > i /\ s[j].do = "delOne" /\ s[j].g = s[i].g
    /\ s[i].do = "commit" => Later(s, i, {"clear"})
    /\ s[i].do = "emit" => Later(s, i, {"deleteAll"})
    /\ s[i].do \in {"wipe", "disconnect", "query"} => Later(s, i, {"connect"})

Reads == {"getAll", "loadAll", "setAll", "getOne", "loadOne", "setOne"}
Creates == {"insert", "write", "paths", "delAll"}
Initializes == {"commit", "wipe", "clear", "disconnect", "query", "connect", "start"}
Restores == Creates \cup {"rollback"} \cup Initializes

\* A reader changes nothing; a restore commits or rolls back, after creates, and drops no
\* single copies.
Keeps(s, i) ==
    /\ s[i].do \in {"getAll", "getOne"} => \A j \in DOMAIN s : s[j].do \in Reads
    /\ s[i].do = "rollback" => \A j \in DOMAIN s : s[j].do \notin Initializes
    /\ s[i].do = "begin" => \A j \in DOMAIN s : j > i => s[j].do \in Restores
    /\ s[i].do = "begin" => Later(s, i, {"commit", "rollback"})

Programs == {s \in Seq(Step) : \A i \in DOMAIN s : Owes(s, i) /\ Keeps(s, i)}

\* Before the paths of each data source, but for some, there is another step about it.
Preceded(s, dos, done) ==
    \A i \in DOMAIN s :
        s[i].do = "paths" =>
            \/ s[i].g \in done
            \/ \E j \in DOMAIN s : j < i /\ s[j].do \in dos /\ s[j].g = s[i].g

\* Paths follow the row that is to have them, and the files, where some are to be written.
Covered(s, done) == Preceded(s, {"write"}, done) /\ Preceded(s, {"insert", "update"}, {})

-----------------------------------------------------------------------------
(* Sequences *)

LEMMA SetInduction ==
    ASSUME NEW S, 0 \in S, \A n \in S \cap Nat : n + 1 \in S
    PROVE  Nat \subseteq S
<1> SUFFICES ASSUME Nat \ S # {} PROVE FALSE
  OBVIOUS
<1> DEFINE R == OpToRel(<, Nat)
<1>1. IsWellFoundedOn(R, Nat)
  BY NatLessThanWellFounded
<1>2. \A m \in Nat : m # 0 => m - 1 \in Nat /\ <<m - 1, m>> \in R
  BY DEF OpToRel
<1> HIDE DEF R
<1>3. PICK m \in Nat \ S : \A k \in Nat \ S : ~(<<k, m>> \in R)
  <2>1. Nat \ S \subseteq Nat
    OBVIOUS
  <2>2. QED
    BY <1>1, <2>1, WFMin
<1>4. m # 0 /\ m - 1 \in Nat /\ m - 1 \in S
  BY <1>2, <1>3
<1>5. (m - 1) + 1 = m
  BY <1>3
<1>6. QED
  BY <1>3, <1>4, <1>5

\* The steps of two programs one after the other.
LEMMA Joined ==
    ASSUME NEW s \in Seq(Step), NEW t \in Seq(Step)
    PROVE  /\ s \o t \in Seq(Step)
           /\ DOMAIN s = 1 .. Len(s) /\ DOMAIN t = 1 .. Len(t) /\ Len(s) \in Nat /\ Len(t) \in Nat
           /\ DOMAIN (s \o t) = 1 .. Len(s) + Len(t)
           /\ \A i \in 1 .. Len(s) : (s \o t)[i] = s[i]
           /\ \A i \in 1 .. Len(t) : (s \o t)[Len(s) + i] = t[i]
BY ConcatProperties, LenProperties

\* What is left of a program after its first step.
LEMMA Rest ==
    ASSUME NEW s \in Seq(Step), s # <<>>
    PROVE  /\ Tail(s) \in Seq(Step) /\ Len(s) \in Nat \ {0}
           /\ DOMAIN s = 1 .. Len(s) /\ DOMAIN Tail(s) = 1 .. Len(s) - 1
           /\ \A i \in DOMAIN Tail(s) : Tail(s)[i] = s[i + 1]
           /\ Head(s) = s[1] /\ s[1] \in Step
BY HeadTailProperties, LenProperties, EmptySeq

\* A set of sequences that is closed under concatenation has what is made by it.
LEMMA Flattened ==
    ASSUME NEW S, NEW B \in SUBSET Seq(S), <<>> \in B,
           \A s, t \in B : s \o t \in B,
           NEW n \in Nat, NEW ss \in [1 .. n -> B]
    PROVE  FlattenSeq(ss) \in B
<1>1. ss \in Seq(B) /\ Len(ss) = n
  OBVIOUS
<1>2. CASE n = 0
  <2>1. ss = <<>>
    BY <1>1, <1>2
  <2>2. QED
    BY <2>1 DEF FlattenSeq
<1>3. CASE n > 0
  <2> DEFINE Flat(j, f) == f = [i \in 1 .. j |-> IF i = 1 THEN ss[i] ELSE f[i - 1] \o ss[i]]
  <2> DEFINE M == {j \in Nat : j + 1 <= n => \E f : Flat(j + 1, f) /\ \A i \in 1 .. j + 1 : f[i] \in B}
  <2>1. 0 \in M
    <3> DEFINE f == [i \in 1 .. 1 |-> ss[1]]
    <3>1. Flat(1, f) /\ \A i \in 1 .. 1 : f[i] \in B
      BY <1>3
    <3> HIDE DEF f, Flat
    <3>2. QED
      BY <3>1
  <2>2. ASSUME NEW j \in M PROVE j + 1 \in M
    <3> HIDE DEF Flat
    <3> SUFFICES ASSUME j + 2 <= n
                 PROVE  \E f : Flat(j + 2, f) /\ \A i \in 1 .. j + 2 : f[i] \in B
      OBVIOUS
    <3>1. PICK f : Flat(j + 1, f) /\ \A i \in 1 .. j + 1 : f[i] \in B
      OBVIOUS
    <3> DEFINE h == [i \in 1 .. j + 2 |-> IF i = j + 2 THEN f[j + 1] \o ss[j + 2] ELSE f[i]]
    <3>2. \A i \in 1 .. j + 2 : h[i] \in B
      BY <3>1
    <3>3. \A i \in 1 .. j + 1 : f[i] = IF i = 1 THEN ss[i] ELSE f[i - 1] \o ss[i]
      BY <3>1 DEF Flat
    <3>4. \A i \in 1 .. j + 2 : h[i] = IF i = 1 THEN ss[i] ELSE h[i - 1] \o ss[i]
      <4>1. TAKE i \in 1 .. j + 2
      <4>2. CASE i = j + 2
        <5>1. i # 1 /\ i - 1 = j + 1 /\ j + 1 \in 1 .. j + 2 /\ j + 1 # j + 2
          BY <4>2
        <5>2. h[j + 1] = f[j + 1] /\ h[i] = f[j + 1] \o ss[i]
          BY <4>2, <5>1
        <5>3. QED
          BY <5>1, <5>2
      <4>3. CASE i \in 1 .. j + 1
        <5>1. h[i] = f[i] /\ f[i] = IF i = 1 THEN ss[i] ELSE f[i - 1] \o ss[i]
          <6>1. i \in 1 .. j + 2 /\ i # j + 2
            BY <4>3
          <6>2. h[i] = f[i]
            BY <6>1
          <6> HIDE DEF h
          <6>3. f[i] = IF i = 1 THEN ss[i] ELSE f[i - 1] \o ss[i]
            BY <3>3, <4>3, Zenon
          <6>4. QED
            BY <6>2, <6>3, Zenon
        <5>2. CASE i = 1
          BY <5>1, <5>2
        <5>3. CASE i # 1
          <6>1. i - 1 \in 1 .. j + 2 /\ i - 1 # j + 2
            BY <4>3, <5>3
          <6>2. h[i - 1] = f[i - 1]
            BY <6>1
          <6>3. QED
            BY <5>1, <5>3, <6>2
        <5>4. QED
          BY <5>2, <5>3
      <4>4. QED
        BY <4>2, <4>3
    <3>5. Flat(j + 2, h)
      BY <3>4 DEF Flat
    <3> HIDE DEF h
    <3>6. QED
      BY <3>2, <3>5
  <2>3. n - 1 \in M
    <3> HIDE DEF M
    <3>1. Nat \subseteq M
      BY <2>1, <2>2, SetInduction
    <3>2. QED
      BY <1>3, <3>1
  <2>4. PICK f : Flat(n, f) /\ \A i \in 1 .. n : f[i] \in B
    <3> HIDE DEF Flat
    <3>1. QED
      BY <1>3, <2>3
  <2> DEFINE c == CHOOSE f1 : Flat(n, f1)
  <2>5. Flat(n, c)
    <3> HIDE DEF Flat
    <3>1. QED
      BY <2>4
  <2>6. FlattenSeq(ss) = c[n]
    BY <1>1, <1>3 DEF FlattenSeq
  <2> HIDE DEF c
  <2>7. \A i \in 1 .. n : c[i] = IF i = 1 THEN ss[i] ELSE c[i - 1] \o ss[i]
    BY <2>5
  <2> DEFINE T == {j \in Nat : j + 1 <= n => c[j + 1] \in B}
  <2>8. 0 \in T
    BY <2>7, <1>3
  <2>9. ASSUME NEW j \in T PROVE j + 1 \in T
    <3> SUFFICES ASSUME j + 2 <= n PROVE c[j + 2] \in B
      OBVIOUS
    <3>1. c[j + 2] = c[j + 1] \o ss[j + 2] /\ c[j + 1] \in B
      <4>1. j + 2 \in 1 .. n /\ j + 2 # 1 /\ (j + 2) - 1 = j + 1
        OBVIOUS
      <4>2. c[j + 2] = c[(j + 2) - 1] \o ss[j + 2]
        BY <2>7, <4>1
      <4>3. QED
        BY <4>1, <4>2
    <3>2. QED
      BY <3>1
  <2>10. n - 1 \in T
    <3> HIDE DEF T
    <3>1. Nat \subseteq T
      BY <2>8, <2>9, SetInduction
    <3>2. QED
      BY <1>3, <3>1
  <2>11. c[n] \in B
    BY <1>3, <2>10
  <2>12. QED
    BY <2>6, <2>11
<1>4. QED
  BY <1>2, <1>3

\* A finite set in a row.
LEMMA InARow ==
    ASSUME NEW S, IsFiniteSet(S)
    PROVE  SetToSeq(S) \in [1 .. Cardinality(S) -> S] /\ Cardinality(S) \in Nat
<1>1. Cardinality(S) \in Nat /\ ExistsBijection(1 .. Cardinality(S), S)
  BY FS_CardinalityType
<1>2. \E f \in [1 .. Cardinality(S) -> S] : IsInjective(f)
  BY <1>1 DEF ExistsBijection, Bijection, Injection, IsInjective
<1>3. QED
  BY <1>1, <1>2 DEF SetToSeq

LEMMA NoneInARow == FlattenSeq(SetToSeq({})) = <<>>
<1>1. SetToSeq({}) \in [1 .. 0 -> {}]
  BY InARow, FS_EmptySet
<1>2. SetToSeq({}) = <<>>
  BY <1>1
<1>3. QED
  BY <1>2 DEF FlattenSeq

LEMMA OneInARow ==
    ASSUME NEW S, NEW s \in Seq(S)
    PROVE  FlattenSeq(SetToSeq({s})) = s
<1> DEFINE ss == SetToSeq({s})
<1>1. ss \in [1 .. 1 -> {s}]
  <2>1. IsFiniteSet({s}) /\ Cardinality({s}) = 1
    BY FS_Singleton
  <2>2. QED
    BY <2>1, InARow
<1> HIDE DEF ss
<1>2. Len(ss) = 1 /\ ss[1] = s /\ ss \in Seq({s})
  BY <1>1
<1> DEFINE Flat(f) == f = [i \in 1 .. Len(ss) |-> IF i = 1 THEN ss[i] ELSE f[i - 1] \o ss[i]]
<1> DEFINE c == CHOOSE f : Flat(f)
<1>3. Flat(c)
  <2> DEFINE h == [i \in 1 .. Len(ss) |-> s]
  <2>1. Flat(h)
    BY <1>2
  <2> HIDE DEF Flat, h
  <2>2. QED
    BY <2>1
<1>4. FlattenSeq(ss) = c[Len(ss)]
  BY <1>2 DEF FlattenSeq
<1> HIDE DEF c
<1>5. c[1] = ss[1]
  BY <1>2, <1>3
<1>6. QED
  BY <1>2, <1>4, <1>5 DEF ss

\* Concatenations of tuples.
LEMMA SameSteps ==
    ASSUME NEW S, NEW s \in Seq(S), NEW t \in Seq(S), NEW u \in Seq(S), Len(u) = Len(s) + Len(t),
           \A i \in 1 .. Len(u) : u[i] = IF i <= Len(s) THEN s[i] ELSE t[i - Len(s)]
    PROVE  s \o t = u
BY ConcatProperties, SeqEqual

LEMMA Tuples ==
    /\ \A a, b, c \in Step : <<a>> \o <<b, c>> = <<a, b, c>>
    /\ \A a, b, c, d \in Step : <<a, b, c>> \o <<d>> = <<a, b, c, d>>
    /\ \A a, b, c, d, e \in Step : <<a, b, c>> \o <<d, e>> = <<a, b, c, d, e>>
    /\ \A a \in Step : <<a>> \o <<>> = <<a>>
    /\ \A a, d \in Step : <<a>> \o <<d>> = <<a, d>>
    /\ \A a, d, e \in Step : <<a>> \o <<d, e>> = <<a, d, e>>
    /\ \A a, b, c \in Step : <<a, b>> \o <<c>> = <<a, b, c>>
    /\ \A a, b, c, d \in Step : <<a, b>> \o <<c, d>> = <<a, b, c, d>>
<1>1. ASSUME NEW a \in Step, NEW b \in Step, NEW c \in Step PROVE <<a>> \o <<b, c>> = <<a, b, c>>
  <2>1. /\ <<a>> \in Seq(Step) /\ <<b, c>> \in Seq(Step) /\ <<a, b, c>> \in Seq(Step)
        /\ Len(<<a, b, c>>) = Len(<<a>>) + Len(<<b, c>>)
    OBVIOUS
  <2>2. \A i \in 1 .. Len(<<a, b, c>>) : <<a, b, c>>[i] = IF i <= Len(<<a>>) THEN <<a>>[i] ELSE <<b, c>>[i - Len(<<a>>)]
    OBVIOUS
  <2>3. QED
    BY <2>1, <2>2, SameSteps
<1>2. ASSUME NEW a \in Step, NEW b \in Step, NEW c \in Step, NEW d \in Step PROVE <<a, b, c>> \o <<d>> = <<a, b, c, d>>
  <2>1. /\ <<a, b, c>> \in Seq(Step) /\ <<d>> \in Seq(Step) /\ <<a, b, c, d>> \in Seq(Step)
        /\ Len(<<a, b, c, d>>) = Len(<<a, b, c>>) + Len(<<d>>)
    OBVIOUS
  <2>2. \A i \in 1 .. Len(<<a, b, c, d>>) : <<a, b, c, d>>[i] = IF i <= Len(<<a, b, c>>) THEN <<a, b, c>>[i] ELSE <<d>>[i - Len(<<a, b, c>>)]
    OBVIOUS
  <2>3. QED
    BY <2>1, <2>2, SameSteps
<1>3. ASSUME NEW a \in Step, NEW b \in Step, NEW c \in Step, NEW d \in Step, NEW e \in Step PROVE <<a, b, c>> \o <<d, e>> = <<a, b, c, d, e>>
  <2>1. /\ <<a, b, c>> \in Seq(Step) /\ <<d, e>> \in Seq(Step) /\ <<a, b, c, d, e>> \in Seq(Step)
        /\ Len(<<a, b, c, d, e>>) = Len(<<a, b, c>>) + Len(<<d, e>>)
    OBVIOUS
  <2>2. \A i \in 1 .. Len(<<a, b, c, d, e>>) : <<a, b, c, d, e>>[i] = IF i <= Len(<<a, b, c>>) THEN <<a, b, c>>[i] ELSE <<d, e>>[i - Len(<<a, b, c>>)]
    OBVIOUS
  <2>3. QED
    BY <2>1, <2>2, SameSteps
<1>4. ASSUME NEW a \in Step PROVE <<a>> \o <<>> = <<a>>
  <2>1. /\ <<a>> \in Seq(Step) /\ <<>> \in Seq(Step) /\ <<a>> \in Seq(Step)
        /\ Len(<<a>>) = Len(<<a>>) + Len(<<>>)
    OBVIOUS
  <2>2. \A i \in 1 .. Len(<<a>>) : <<a>>[i] = IF i <= Len(<<a>>) THEN <<a>>[i] ELSE <<>>[i - Len(<<a>>)]
    OBVIOUS
  <2>3. QED
    BY <2>1, <2>2, SameSteps
<1>5. ASSUME NEW a \in Step, NEW d \in Step PROVE <<a>> \o <<d>> = <<a, d>>
  <2>1. /\ <<a>> \in Seq(Step) /\ <<d>> \in Seq(Step) /\ <<a, d>> \in Seq(Step)
        /\ Len(<<a, d>>) = Len(<<a>>) + Len(<<d>>)
    OBVIOUS
  <2>2. \A i \in 1 .. Len(<<a, d>>) : <<a, d>>[i] = IF i <= Len(<<a>>) THEN <<a>>[i] ELSE <<d>>[i - Len(<<a>>)]
    OBVIOUS
  <2>3. QED
    BY <2>1, <2>2, SameSteps
<1>6. ASSUME NEW a \in Step, NEW d \in Step, NEW e \in Step PROVE <<a>> \o <<d, e>> = <<a, d, e>>
  <2>1. /\ <<a>> \in Seq(Step) /\ <<d, e>> \in Seq(Step) /\ <<a, d, e>> \in Seq(Step)
        /\ Len(<<a, d, e>>) = Len(<<a>>) + Len(<<d, e>>)
    OBVIOUS
  <2>2. \A i \in 1 .. Len(<<a, d, e>>) : <<a, d, e>>[i] = IF i <= Len(<<a>>) THEN <<a>>[i] ELSE <<d, e>>[i - Len(<<a>>)]
    OBVIOUS
  <2>3. QED
    BY <2>1, <2>2, SameSteps
<1>7. ASSUME NEW a \in Step, NEW b \in Step, NEW c \in Step PROVE <<a, b>> \o <<c>> = <<a, b, c>>
  <2>1. /\ <<a, b>> \in Seq(Step) /\ <<c>> \in Seq(Step) /\ <<a, b, c>> \in Seq(Step)
        /\ Len(<<a, b, c>>) = Len(<<a, b>>) + Len(<<c>>)
    OBVIOUS
  <2>2. \A i \in 1 .. Len(<<a, b, c>>) : <<a, b, c>>[i] = IF i <= Len(<<a, b>>) THEN <<a, b>>[i] ELSE <<c>>[i - Len(<<a, b>>)]
    OBVIOUS
  <2>3. QED
    BY <2>1, <2>2, SameSteps
<1>8. ASSUME NEW a \in Step, NEW b \in Step, NEW c \in Step, NEW d \in Step PROVE <<a, b>> \o <<c, d>> = <<a, b, c, d>>
  <2>1. /\ <<a, b>> \in Seq(Step) /\ <<c, d>> \in Seq(Step) /\ <<a, b, c, d>> \in Seq(Step)
        /\ Len(<<a, b, c, d>>) = Len(<<a, b>>) + Len(<<c, d>>)
    OBVIOUS
  <2>2. \A i \in 1 .. Len(<<a, b, c, d>>) : <<a, b, c, d>>[i] = IF i <= Len(<<a, b>>) THEN <<a, b>>[i] ELSE <<c, d>>[i - Len(<<a, b>>)]
    OBVIOUS
  <2>3. QED
    BY <2>1, <2>2, SameSteps
<1>9. QED
  BY <1>1, <1>2, <1>3, <1>4, <1>5, <1>6, <1>7, <1>8

-----------------------------------------------------------------------------
(* Programs *)

\* What a program owes it owes as a part of another.
LEMMA OwesLeft ==
    ASSUME NEW s \in Seq(Step), NEW t \in Seq(Step), NEW i \in DOMAIN s, Owes(s, i)
    PROVE  Owes(s \o t, i) /\ i \in DOMAIN (s \o t)
<1>1. /\ \A j \in DOMAIN s : j \in DOMAIN (s \o t) /\ (s \o t)[j] = s[j]
  BY Joined
<1>2. \A dos : Later(s, i, dos) => Later(s \o t, i, dos)
  BY <1>1 DEF Later
<1>3. \A g : (\E j \in DOMAIN s : j > i /\ s[j].do = "delOne" /\ s[j].g = g)
            => \E j \in DOMAIN (s \o t) : j > i /\ (s \o t)[j].do = "delOne" /\ (s \o t)[j].g = g
  BY <1>1
<1>4. (s \o t)[i] = s[i]
  BY <1>1
<1>5. QED
  BY <1>1, <1>2, <1>3, <1>4 DEF Owes

LEMMA OwesRight ==
    ASSUME NEW s \in Seq(Step), NEW t \in Seq(Step), NEW i \in DOMAIN t, Owes(t, i)
    PROVE  Owes(s \o t, Len(s) + i) /\ Len(s) + i \in DOMAIN (s \o t)
<1>1. \A j \in DOMAIN t : /\ Len(s) + j \in DOMAIN (s \o t) /\ (s \o t)[Len(s) + j] = t[j]
                           /\ j > i => Len(s) + j > Len(s) + i
  BY Joined
<1> DEFINE k == Len(s) + i
           r == s \o t
<1>2. \A dos : Later(t, i, dos) => Later(r, k, dos)
  BY <1>1 DEF Later
<1>3. \A g : (\E j \in DOMAIN t : j > i /\ t[j].do = "delOne" /\ t[j].g = g)
            => \E j \in DOMAIN r : j > k /\ r[j].do = "delOne" /\ r[j].g = g
  BY <1>1
<1>4. r[k] = t[i] /\ k \in DOMAIN r
  BY <1>1
<1> HIDE DEF k, r
<1>5. Owes(r, k)
  BY <1>2, <1>3, <1>4 DEF Owes
<1>6. QED
  BY <1>4, <1>5 DEF k, r

\* Every step of two programs is one of the first or one of the second.
LEMMA Either ==
    ASSUME NEW s \in Seq(Step), NEW t \in Seq(Step), NEW i \in DOMAIN (s \o t)
    PROVE  i \in DOMAIN s \/ \E k \in DOMAIN t : i = Len(s) + k
<1>1. i \in 1 .. Len(s) \/ (i - Len(s) \in 1 .. Len(t) /\ i = Len(s) + (i - Len(s)))
  BY Joined
<1>2. QED
  BY <1>1, Joined

LEMMA PrecededJoin ==
    ASSUME NEW s \in Seq(Step), NEW t \in Seq(Step), NEW dos, NEW done,
           Preceded(s, dos, done), Preceded(t, dos, done)
    PROVE  Preceded(s \o t, dos, done)
<1> DEFINE Follows(r, i) == \/ r[i].g \in done
                            \/ \E j \in DOMAIN r : j < i /\ r[j].do \in dos /\ r[j].g = r[i].g
<1> SUFFICES ASSUME NEW i \in DOMAIN (s \o t), (s \o t)[i].do = "paths"
             PROVE  Follows(s \o t, i)
  BY DEF Preceded
<1>1. CASE i \in DOMAIN s
  <2>1. (s \o t)[i] = s[i]
    BY <1>1, Joined
  <2>2. CASE s[i].g \in done
    BY <2>1, <2>2
  <2>3. ASSUME NEW j \in DOMAIN s, j < i, s[j].do \in dos, s[j].g = s[i].g
        PROVE  Follows(s \o t, i)
    <3>1. j \in DOMAIN (s \o t) /\ (s \o t)[j] = s[j]
      BY Joined
    <3>2. QED
      BY <2>1, <2>3, <3>1
  <2>4. QED
    BY <1>1, <2>1, <2>2, <2>3 DEF Preceded
<1>2. ASSUME NEW k \in DOMAIN t, i = Len(s) + k
      PROVE  Follows(s \o t, i)
  <2>1. (s \o t)[i] = t[k]
    BY <1>2, Joined
  <2>2. CASE t[k].g \in done
    BY <2>1, <2>2
  <2>3. ASSUME NEW j \in DOMAIN t, j < k, t[j].do \in dos, t[j].g = t[k].g
        PROVE  Follows(s \o t, i)
    <3>1. Len(s) + j \in DOMAIN (s \o t) /\ (s \o t)[Len(s) + j] = t[j] /\ Len(s) + j < i
      BY <1>2, <2>3, Joined
    <3>2. QED
      BY <2>1, <2>3, <3>1
  <2>4. QED
    BY <2>1, <2>2, <2>3 DEF Preceded
<1>3. QED
  BY <1>1, <1>2, Either

LEMMA CoveredJoin ==
    ASSUME NEW s \in Seq(Step), NEW t \in Seq(Step), NEW done, Covered(s, done), Covered(t, done)
    PROVE  Covered(s \o t, done)
BY PrecededJoin DEF Covered

LEMMA CoveredMore ==
    ASSUME NEW s \in Seq(Step), NEW small, NEW big, small \subseteq big, Covered(s, small)
    PROVE  Covered(s, big)
BY DEF Covered, Preceded

LEMMA NoPathsCovered ==
    ASSUME NEW s \in Seq(Step), NEW done, \A i \in DOMAIN s : s[i].do # "paths"
    PROVE  Covered(s, done)
BY DEF Covered, Preceded

\* The certificates of a request: written before the paths, which there are if any are written.
LEMMA CertificatesAre ==
    ASSUME NEW g \in Configs, NEW w \in Wanted
    PROVE  \/ Certificates(g, w) = <<>> /\ Returned(g, w) = NoPaths
           \/ Certificates(g, w) = <<At("paths", g)>> /\ Returned(g, w) # NoPaths /\ w.cert = {}
           \/ Certificates(g, w) = <<At("write", g), At("paths", g)>> /\ Returned(g, w) # NoPaths
<1>1. At("write", g) \in Step /\ At("paths", g) \in Step
  BY DEF At, Step, Steps
<1>2. w.cert # {} => Returned(g, w) # NoPaths
  <2> SUFFICES ASSUME w.cert # {} PROVE Returned(g, w) # NoPaths
    OBVIOUS
  <2>1. PICK k \in w.cert : TRUE
    OBVIOUS
  <2>2. k \in Kinds /\ g # "none"
    BY GlobalConfigurationsAssumption DEF Wanted
  <2>3. Returned(g, w)[k] = g /\ NoPaths[k] = "none"
    BY <2>1, <2>2 DEF Returned, NoPaths
  <2>4. QED
    BY <2>2, <2>3
<1> DEFINE b == At("write", g)
           c == At("paths", g)
<1>3. Certificates(g, w) = (IF w.cert # {} THEN <<b>> ELSE <<>>)
                           \o (IF Returned(g, w) # NoPaths THEN <<c>> ELSE <<>>)
  BY DEF Certificates
<1> HIDE DEF b, c
<1>4. <<b>> \o <<c>> = <<b, c>> /\ <<>> \o <<c>> = <<c>> /\ <<>> \o <<>> = <<>>
  <2>1. b \in Step /\ c \in Step
    BY <1>1 DEF b, c
  <2>2. <<b>> \o <<c>> = <<b, c>>
    BY <2>1, Tuples
  <2>3. <<c>> \in Seq(Step) /\ <<>> \in Seq(Step)
    BY <2>1
  <2>4. QED
    BY <2>2, <2>3
<1>5. QED
  BY <1>2, <1>3, <1>4 DEF b, c

\* The steps by which create brings configurations into a transaction.
Batches(done) == {s \in Programs : Covered(s, done) /\ \A i \in DOMAIN s : s[i].do \in Creates}

LEMMA CreateIs ==
    ASSUME NEW g \in Configs, NEW w \in Wanted, NEW done, w.cert = {} => g \in done
    PROVE  Create(g, w) \in Batches(done)
<1> DEFINE a == At("insert", g)
           b == At("write", g)
           c == At("paths", g)
           d == At("delAll", g)
<1>1. /\ a \in Step /\ b \in Step /\ c \in Step /\ d \in Step
      /\ a.do = "insert" /\ b.do = "write" /\ c.do = "paths" /\ d.do = "delAll"
      /\ a.g = g /\ b.g = g /\ c.g = g
  BY DEF At, Step, Steps
<1>2. Create(g, w) = <<a>> \o Certificates(g, w) \o <<d>>
  BY DEF Create
<1>3. CASE Certificates(g, w) = <<b, c>>
  <2> HIDE DEF a, b, c, d
  <2>1. Create(g, w) = <<a, b, c, d>>
    <3>1. <<a>> \o <<b, c>> = <<a, b, c>>
      BY <1>1, Tuples
    <3>2. <<a, b, c>> \o <<d>> = <<a, b, c, d>>
      BY <1>1, Tuples
    <3>3. QED
      BY <1>2, <1>3, <3>1, <3>2
  <2>2. Create(g, w) \in Seq(Step) /\ DOMAIN Create(g, w) = 1 .. 4
    BY <1>1, <2>1
  <2>3. Covered(Create(g, w), done)
    BY <1>1, <2>1, <2>2 DEF Covered, Preceded
  <2>4. QED
    BY <1>1, <2>1, <2>2, <2>3 DEF Batches, Programs, Creates, Owes, Keeps, Later
<1>4. CASE Certificates(g, w) = <<c>> /\ w.cert = {}
  <2> HIDE DEF a, b, c, d
  <2>1. Create(g, w) = <<a, c, d>>
    <3>1. <<a>> \o <<c>> = <<a, c>>
      BY <1>1, Tuples
    <3>2. <<a, c>> \o <<d>> = <<a, c, d>>
      BY <1>1, Tuples
    <3>3. QED
      BY <1>2, <1>4, <3>1, <3>2
  <2>2. Create(g, w) \in Seq(Step) /\ DOMAIN Create(g, w) = 1 .. 3
    BY <1>1, <2>1
  <2>3. Covered(Create(g, w), done)
    BY <1>1, <1>4, <2>1, <2>2 DEF Covered, Preceded
  <2>4. QED
    BY <1>1, <2>1, <2>2, <2>3 DEF Batches, Programs, Creates, Owes, Keeps, Later
<1>5. CASE Certificates(g, w) = <<>>
  <2> HIDE DEF a, b, c, d
  <2>1. Create(g, w) = <<a, d>>
    BY <1>1, <1>2, <1>5, Tuples
  <2>2. Create(g, w) \in Seq(Step) /\ DOMAIN Create(g, w) = 1 .. 2
    BY <1>1, <2>1
  <2>3. Covered(Create(g, w), done)
    BY <1>1, <2>1, <2>2 DEF Covered, Preceded
  <2>4. QED
    BY <1>1, <2>1, <2>2, <2>3 DEF Batches, Programs, Creates, Owes, Keeps, Later
<1>6. QED
  BY <1>3, <1>4, <1>5, CertificatesAre DEF b, c

LEMMA BatchesJoin ==
    ASSUME NEW done
    PROVE  /\ \A s, t \in Batches(done) : s \o t \in Batches(done)
           /\ <<>> \in Batches(done) /\ Batches(done) \subseteq Seq(Step)
<1>1. ASSUME NEW s \in Batches(done), NEW t \in Batches(done)
      PROVE  s \o t \in Batches(done)
  <2>1. s \in Seq(Step) /\ t \in Seq(Step) /\ Covered(s, done) /\ Covered(t, done)
    BY DEF Batches, Programs
  <2>2. s \o t \in Seq(Step) /\ Covered(s \o t, done)
    BY <2>1, Joined, CoveredJoin
  <2>3. ASSUME NEW i \in DOMAIN (s \o t)
        PROVE  Owes(s \o t, i) /\ (s \o t)[i].do \in Creates
    <3>1. CASE i \in DOMAIN s
      BY <2>1, <3>1, OwesLeft, Joined DEF Batches, Programs
    <3>2. ASSUME NEW k \in DOMAIN t, i = Len(s) + k
          PROVE  Owes(s \o t, i) /\ (s \o t)[i].do \in Creates
      BY <2>1, <3>2, OwesRight, Joined DEF Batches, Programs
    <3>3. QED
      BY <2>1, <3>1, <3>2, Either
  <2>4. \A i \in DOMAIN (s \o t) : Keeps(s \o t, i)
    BY <2>3 DEF Keeps, Creates
  <2>5. QED
    BY <2>2, <2>3, <2>4 DEF Batches, Programs
<1>2. <<>> \in Batches(done) /\ Batches(done) \subseteq Seq(Step)
  BY DEF Batches, Programs, Covered, Preceded
<1>3. QED
  BY <1>1, <1>2

Wishes == {s \in [Configs -> SUBSET Wanted] : \A g \in Configs : \A a, b \in s[g] : a = b}

\* The data sources of which no contents are given.
Bared(wanted) == {g \in Configs : \A w \in wanted[g] : w.cert = {}}

\* The program of a request: it pays what it owes, and writes the files that are given, and
\* the row, before their paths.
Requested(wanted) == {s \in Programs : Covered(s, Bared(wanted))}

LEMMA UpdateIs ==
    ASSUME NEW g \in Configs, NEW w \in Wanted, NEW done, w.cert = {} => g \in done
    PROVE  Update(g, w) \in Programs /\ Covered(Update(g, w), done)
<1> DEFINE a == At("update", g)
           b == At("write", g)
           c == At("paths", g)
           d == At("delAll", g)
           e == At("delOne", g)
<1>1. /\ a \in Step /\ b \in Step /\ c \in Step /\ d \in Step /\ e \in Step
      /\ a.do = "update" /\ b.do = "write" /\ c.do = "paths" /\ d.do = "delAll" /\ e.do = "delOne"
      /\ a.g = g /\ b.g = g /\ c.g = g /\ e.g = g
  BY DEF At, Step, Steps
<1>2. Update(g, w) = <<a>> \o Certificates(g, w) \o
                     (IF Returned(g, w) # NoPaths THEN <<e, d>> ELSE <<d, e>>)
  BY DEF Update
<1>3. CASE Certificates(g, w) = <<b, c>> /\ Returned(g, w) # NoPaths
  <2> HIDE DEF a, b, c, d, e
  <2>1. Update(g, w) = <<a, b, c, e, d>>
    <3>1. <<a>> \o <<b, c>> = <<a, b, c>>
      BY <1>1, Tuples
    <3>2. <<a, b, c>> \o <<e, d>> = <<a, b, c, e, d>>
      BY <1>1, Tuples
    <3>3. QED
      BY <1>2, <1>3, <3>1, <3>2
  <2>2. Update(g, w) \in Seq(Step) /\ DOMAIN Update(g, w) = 1 .. 5
    BY <1>1, <2>1
  <2>3. Covered(Update(g, w), done)
    BY <1>1, <2>1, <2>2 DEF Covered, Preceded
  <2>4. QED
    BY <1>1, <2>1, <2>2, <2>3 DEF Programs, Owes, Keeps, Later
<1>4. CASE Certificates(g, w) = <<c>> /\ Returned(g, w) # NoPaths /\ w.cert = {}
  <2> HIDE DEF a, b, c, d, e
  <2>1. Update(g, w) = <<a, c, e, d>>
    <3>1. <<a>> \o <<c>> = <<a, c>>
      BY <1>1, Tuples
    <3>2. <<a, c>> \o <<e, d>> = <<a, c, e, d>>
      BY <1>1, Tuples
    <3>3. QED
      BY <1>2, <1>4, <3>1, <3>2
  <2>2. Update(g, w) \in Seq(Step) /\ DOMAIN Update(g, w) = 1 .. 4
    BY <1>1, <2>1
  <2>3. Covered(Update(g, w), done)
    BY <1>1, <1>4, <2>1, <2>2 DEF Covered, Preceded
  <2>4. QED
    BY <1>1, <2>1, <2>2, <2>3 DEF Programs, Owes, Keeps, Later
<1>5. CASE Certificates(g, w) = <<>> /\ Returned(g, w) = NoPaths
  <2> HIDE DEF a, b, c, d, e
  <2>1. Update(g, w) = <<a, d, e>>
    BY <1>1, <1>2, <1>5, Tuples
  <2>2. Update(g, w) \in Seq(Step) /\ DOMAIN Update(g, w) = 1 .. 3
    BY <1>1, <2>1
  <2>3. Covered(Update(g, w), done)
    BY <1>1, <2>1, <2>2 DEF Covered, Preceded
  <2>4. QED
    BY <1>1, <2>1, <2>2, <2>3 DEF Programs, Owes, Keeps, Later
<1>6. QED
  BY <1>3, <1>4, <1>5, CertificatesAre DEF b, c

LEMMA ShortProgramsAre ==
    ASSUME NEW g \in Configs, NEW wanted
    PROVE  /\ Removal(g) \in Requested(wanted) /\ FindAll(g) \in Requested(wanted) /\ FindOne(g) \in Requested(wanted)
           /\ Reset(g) \in Requested(wanted) /\ Backup(g) \in Requested(wanted) /\ Initialize(g) \in Requested(wanted)
<1>1. Removal(g) \in Requested(wanted)
  <2>1. Removal(g) \in Seq(Step) /\ DOMAIN Removal(g) = 1 .. 5
    BY DEF Removal, At, Step, Steps
  <2> DEFINE t == Removal(g)
  <2>2. /\ t[1].do = "find" /\ t[2].do = "delete" /\ t[3].do = "rm" /\ t[4].do = "delAll" /\ t[5].do = "delOne"
        /\ t[2].g = g /\ t[5].g = g
    BY DEF Removal, At
  <2>3. t \in Seq(Step) /\ DOMAIN t = 1 .. 5
    BY <2>1
  <2> HIDE DEF t
  <2>4. \A i \in DOMAIN t : t[i].do \in {"find", "delete", "rm", "delAll", "delOne"} /\ (t[i].do = "delete" => i = 2)
    BY <2>2, <2>3
  <2>5. Later(t, 2, {"delAll"}) /\ \E j \in DOMAIN t : j > 2 /\ t[j].do = "delOne" /\ t[j].g = t[2].g
    BY <2>2, <2>3 DEF Later
  <2>6. \A i \in DOMAIN t : Owes(t, i) /\ Keeps(t, i)
    BY <2>4, <2>5 DEF Owes, Keeps
  <2>7. t \in Requested(wanted)
    BY <2>3, <2>4, <2>6 DEF Requested, Programs, Covered, Preceded
  <2>8. QED
    BY <2>7 DEF t
<1>2. FindAll(g) \in Requested(wanted)
  <2>1. FindAll(g) \in Seq(Step) /\ DOMAIN FindAll(g) = 1 .. 3
    BY DEF FindAll, At, Step, Steps
  <2>2. QED
    BY <2>1 DEF FindAll, At, Requested, Programs, Covered, Preceded, Owes, Keeps, Later, Reads
<1>3. FindOne(g) \in Requested(wanted)
  <2>1. FindOne(g) \in Seq(Step) /\ DOMAIN FindOne(g) = 1 .. 3
    BY DEF FindOne, At, Step, Steps
  <2>2. QED
    BY <2>1 DEF FindOne, At, Requested, Programs, Covered, Preceded, Owes, Keeps, Later, Reads
<1>4. Reset(g) \in Requested(wanted)
  <2>1. Reset(g) \in Seq(Step) /\ DOMAIN Reset(g) = 1 .. 4
    BY DEF Reset, At, Step, Steps
  <2>2. QED
    BY <2>1 DEF Reset, At, Requested, Programs, Covered, Preceded, Owes, Keeps, Later
<1>5. Backup(g) \in Requested(wanted)
  <2>1. Backup(g) \in Seq(Step) /\ DOMAIN Backup(g) = 1 .. 2
    BY DEF Backup, At, Step, Steps
  <2>2. QED
    BY <2>1 DEF Backup, At, Requested, Programs, Covered, Preceded, Owes, Keeps, Later
<1>6. Initialize(g) \in Requested(wanted)
  <2>1. Initialize(g) \in Seq(Step) /\ DOMAIN Initialize(g) = 1 .. 5
    BY DEF Initialize, At, Step, Steps
  <2> DEFINE t == Initialize(g)
  <2>2. /\ t[1].do = "clear" /\ t[2].do = "disconnect" /\ t[3].do = "query" /\ t[4].do = "connect"
        /\ t[5].do = "start"
    BY DEF Initialize, At
  <2>3. t \in Seq(Step) /\ DOMAIN t = 1 .. 5
    BY <2>1
  <2> HIDE DEF t
  <2>4. \A i \in DOMAIN t : /\ t[i].do \in {"clear", "disconnect", "query", "connect", "start"}
                            /\ t[i].do \in {"disconnect", "query"} => i \in {2, 3}
    BY <2>2, <2>3
  <2>5. \A i \in DOMAIN t : i \in {2, 3} => Later(t, i, {"connect"})
    BY <2>2, <2>3 DEF Later
  <2>6. \A i \in DOMAIN t : Owes(t, i)
    BY <2>4, <2>5 DEF Owes
  <2>7. \A i \in DOMAIN t : Keeps(t, i)
    BY <2>4 DEF Keeps
  <2>8. t \in Programs /\ Covered(t, Bared(wanted))
    BY <2>3, <2>4, <2>6, <2>7 DEF Programs, Covered, Preceded
  <2>9. QED
    BY <2>8 DEF t, Requested
<1>7. QED
  BY <1>1, <1>2, <1>3, <1>4, <1>5, <1>6

LEMMA CreatedIs ==
    ASSUME NEW backup \in Wishes, NEW c \in Configs
    PROVE  FlattenSeq(SetToSeq({Create(c, w) : w \in backup[c]})) \in Batches(Bared(backup))
<1>1. CASE backup[c] = {}
  <2>1. {Create(c, w) : w \in backup[c]} = {}
    BY <1>1
  <2>2. QED
    BY <2>1, NoneInARow, BatchesJoin
<1>2. ASSUME NEW w \in backup[c]
      PROVE  FlattenSeq(SetToSeq({Create(c, v) : v \in backup[c]})) \in Batches(Bared(backup))
  <2>1. backup[c] = {w} /\ w \in Wanted
    BY DEF Wishes
  <2>2. {Create(c, v) : v \in backup[c]} = {Create(c, w)}
    BY <2>1
  <2>3. w.cert = {} => c \in Bared(backup)
    BY <2>1 DEF Bared
  <2>4. Create(c, w) \in Batches(Bared(backup)) /\ Create(c, w) \in Seq(Step)
    BY <2>1, <2>3, CreateIs, BatchesJoin
  <2>5. QED
    BY <2>2, <2>4, OneInARow
<1>3. QED
  BY <1>1, <1>2

\* The end of a restore, and of a dry run.
Ending(g, dryRun) == IF dryRun THEN <<At("rollback", g)>>
                               ELSE <<At("commit", g), At("wipe", g)>> \o Initialize(g)

LEMMA EndingIs ==
    ASSUME NEW g \in Configs, NEW dryRun \in BOOLEAN, NEW wanted
    PROVE  /\ Ending(g, dryRun) \in Requested(wanted)
           /\ \A i \in DOMAIN Ending(g, dryRun) : Ending(g, dryRun)[i].do \in Restores \ Creates
           /\ dryRun \/ (Has(Ending(g, dryRun), {"clear"}) /\ Has(Ending(g, dryRun), {"connect"}))
           /\ dryRun => \A i \in DOMAIN Ending(g, dryRun) : Ending(g, dryRun)[i].do \notin Initializes
           /\ ~dryRun => \A i \in DOMAIN Ending(g, dryRun) : Ending(g, dryRun)[i].do # "rollback"
           /\ Has(Ending(g, dryRun), {"commit", "rollback"})
<1> DEFINE e == Ending(g, dryRun)
<1>1. CASE dryRun
  <2>1. e = <<At("rollback", g)>> /\ e \in Seq(Step) /\ DOMAIN e = 1 .. 1
    BY <1>1 DEF Ending, At, Step, Steps
  <2> HIDE DEF e
  <2>2. e \in Requested(wanted) /\ \A i \in DOMAIN e : e[i].do \in Restores \ Creates /\ e[i].do \notin Initializes
    BY <2>1 DEF Requested, Programs, Covered, Preceded, Owes, Keeps, Later, At, Initializes, Restores, Creates
  <2>3. Has(e, {"commit", "rollback"})
    BY <2>1 DEF Has, At
  <2>4. QED
    BY <1>1, <2>2, <2>3 DEF e
<1>2. CASE ~dryRun
  <2> DEFINE s == <<At("commit", g), At("wipe", g)>>
             f == Initialize(g)
             t == <<At("commit", g), At("wipe", g), At("clear", g), At("disconnect", g), At("query", g),
                    At("connect", g), At("start", g)>>
  <2>1. /\ s \in Seq(Step) /\ f \in Seq(Step) /\ t \in Seq(Step)
        /\ Len(s) = 2 /\ Len(f) = 5 /\ Len(t) = 7
    BY DEF Initialize, At, Step, Steps
  <2>2. \A i \in 1 .. 7 : t[i] = IF i <= 2 THEN s[i] ELSE f[i - 2]
    BY DEF Initialize
  <2>3. /\ t[1].do = "commit" /\ t[2].do = "wipe" /\ t[3].do = "clear" /\ t[4].do = "disconnect"
        /\ t[5].do = "query" /\ t[6].do = "connect" /\ t[7].do = "start"
    BY DEF At
  <2>4. e = s \o f
    BY <1>2 DEF Ending
  <2> HIDE DEF s, f, t, e
  <2>5. e = t
    <3>1. Len(t) = Len(s) + Len(f) /\ \A i \in 1 .. Len(t) : t[i] = IF i <= Len(s) THEN s[i] ELSE f[i - Len(s)]
      BY <2>1, <2>2
    <3>2. QED
      BY <2>1, <2>4, <3>1, SameSteps
  <2>6. DOMAIN t = 1 .. 7
    BY <2>1
  <2>7. \A i \in DOMAIN t : t[i].do \in Initializes
    BY <2>3, <2>6 DEF Initializes
  <2>8. \A i \in DOMAIN t : Keeps(t, i) /\ t[i].do \in Restores \ Creates /\ t[i].do # "rollback" /\ t[i].do # "paths"
    BY <2>7 DEF Keeps, Initializes, Restores, Creates
  <2>9. Has(t, {"clear"}) /\ Has(t, {"connect"}) /\ Has(t, {"commit", "rollback"})
    BY <2>3, <2>6 DEF Has
  <2>10. \A i \in DOMAIN t : Owes(t, i)
    <3>1. \A i \in DOMAIN t : /\ i = 1 => Later(t, i, {"clear"})
                              /\ i \in {2, 4, 5} => Later(t, i, {"connect"})
      BY <2>3, <2>6 DEF Later
    <3>2. \A i \in DOMAIN t : i \in 1 .. 7
      BY <2>6
    <3>3. QED
      BY <2>3, <3>1, <3>2 DEF Owes
  <2>11. t \in Requested(wanted)
    BY <2>1, <2>8, <2>10 DEF Requested, Programs, Covered, Preceded
  <2>12. QED
    BY <1>2, <2>5, <2>8, <2>9, <2>11 DEF e
<1>3. QED
  BY <1>1, <1>2

\* The program of a restore drops the list, and if it commits it clears the caches and
\* connects the clients.
LEMMA RestoreIs ==
    ASSUME NEW g \in Configs, NEW backup \in Wishes, NEW dryRun \in BOOLEAN
    PROVE  /\ Restore(g, backup, dryRun) \in Requested(backup)
           /\ Has(Restore(g, backup, dryRun), {"delAll"})
           /\ Has(Restore(g, backup, dryRun), {"commit", "rollback"})
           /\ dryRun \/ (Has(Restore(g, backup, dryRun), {"clear"})
                          /\ Has(Restore(g, backup, dryRun), {"connect"}))
<1> DEFINE n == Cardinality(Configs)
           creates == [i \in 1 .. n |->
                         LET c == SetToSeq(Configs)[i]
                         IN FlattenSeq(SetToSeq({Create(c, w) : w \in backup[c]}))]
           begin == <<At("begin", g), At("delAll", g)>>
           made == FlattenSeq(creates)
           end == Ending(g, dryRun)
           s == begin \o made
<1>1. Restore(g, backup, dryRun) = s \o end
  BY DEF Restore, Ending
<1>2. made \in Batches(Bared(backup))
  <2>1. SetToSeq(Configs) \in [1 .. n -> Configs] /\ n \in Nat
    BY GlobalConfigurationsAssumption, InARow
  <2>2. creates \in [1 .. n -> Batches(Bared(backup))]
    BY <2>1, CreatedIs
  <2> HIDE DEF creates, n
  <2>3. QED
    BY <2>1, <2>2, BatchesJoin, Flattened
<1>3. begin \in Seq(Step) /\ Len(begin) = 2 /\ begin[1].do = "begin" /\ begin[2].do = "delAll"
  BY DEF At, Step, Steps
<1>4. end \in Requested(backup) /\ end \in Seq(Step) /\ made \in Seq(Step)
  BY <1>2, EndingIs, BatchesJoin DEF Requested, Programs
<1> HIDE DEF begin, made, end
<1>5. /\ s \in Seq(Step) /\ s \o end \in Seq(Step)
      /\ DOMAIN s = 1 .. 2 + Len(made) /\ Len(s) = 2 + Len(made) /\ Len(made) \in Nat
      /\ s[1].do = "begin" /\ s[2].do = "delAll"
  <2>1. s \in Seq(Step) /\ DOMAIN s = 1 .. 2 + Len(made) /\ Len(made) \in Nat
    BY <1>3, <1>4, Joined
  <2>2. s[1] = begin[1] /\ s[2] = begin[2]
    <3>1. 1 \in 1 .. Len(begin) /\ 2 \in 1 .. Len(begin)
      BY <1>3
    <3>2. QED
      BY <1>3, <1>4, <3>1, Joined
  <2>3. Len(s) = 2 + Len(made)
    BY <2>1
  <2> HIDE DEF s
  <2>4. s \o end \in Seq(Step)
    BY <1>4, <2>1, Joined
  <2>5. QED
    BY <1>3, <2>1, <2>2, <2>3, <2>4
<1>6. \A i \in DOMAIN s : Owes(s, i) /\ (i = 1 \/ s[i].do \in Creates)
  <2>1. TAKE i \in DOMAIN s
  <2>2. CASE i = 1
    BY <1>5, <2>2 DEF Owes
  <2>3. CASE i = 2
    BY <1>5, <2>3 DEF Owes, Creates
  <2>4. ASSUME NEW k \in DOMAIN made, i = 2 + k
        PROVE  Owes(s, i) /\ s[i].do \in Creates
    <3>1. Owes(made, k) /\ made[k].do \in Creates
      BY <1>2 DEF Batches, Programs
    <3>2. s[i] = made[k]
      <4>1. k \in 1 .. Len(made)
        BY <1>4, LenProperties
      <4>2. (begin \o made)[Len(begin) + k] = made[k]
        BY <1>3, <1>4, <4>1, Joined
      <4>3. QED
        BY <1>3, <2>4, <4>2
    <3>3. Owes(s, i)
      BY <1>3, <1>4, <2>4, <3>1, OwesRight
    <3>4. QED
      BY <3>1, <3>2, <3>3
  <2>5. i \in {1, 2} \/ (i - 2 \in DOMAIN made /\ i = 2 + (i - 2))
    BY <1>4, <1>5, Joined
  <2>6. QED
    BY <2>2, <2>3, <2>4, <2>5
<1>7. Covered(s, Bared(backup))
  <2>1. Covered(made, Bared(backup))
    BY <1>2 DEF Batches
  <2>2. Covered(begin, Bared(backup))
    BY <1>3 DEF Covered, Preceded
  <2>3. QED
    BY <1>3, <1>4, <2>1, <2>2, CoveredJoin
<1> HIDE DEF s
<1> DEFINE r == s \o end
<1>8. \A i \in DOMAIN r : Owes(r, i)
  <2>1. TAKE i \in DOMAIN r
  <2>2. CASE i \in DOMAIN s
    BY <1>4, <1>5, <1>6, <2>2, OwesLeft
  <2>3. ASSUME NEW k \in DOMAIN end, i = Len(s) + k
        PROVE  Owes(r, i)
    BY <1>4, <1>5, <2>3, OwesRight DEF Requested, Programs
  <2>4. QED
    BY <1>4, <1>5, <2>2, <2>3, Either
<1>9. \A i \in DOMAIN r : \/ i \in DOMAIN s /\ r[i] = s[i]
                          \/ \E k \in DOMAIN end : i = Len(s) + k /\ r[i] = end[k]
  BY <1>4, <1>5, Either, Joined
<1>10. \A k \in DOMAIN end : Len(s) + k \in DOMAIN r /\ r[Len(s) + k] = end[k]
  BY <1>4, <1>5, Joined
<1>11. 2 \in DOMAIN r /\ r[2] = s[2] /\ 1 \in DOMAIN r /\ r[1] = s[1] /\ DOMAIN r \subseteq Nat
  BY <1>4, <1>5, Joined
<1>12. Covered(r, Bared(backup))
  BY <1>4, <1>5, <1>7, CoveredJoin DEF Requested
<1> HIDE DEF r
<1>13. \A i \in DOMAIN r : i = 1 \/ r[i].do \in Restores
  BY <1>6, <1>9, EndingIs DEF end, Restores
<1>14. \A i \in DOMAIN r : Keeps(r, i)
  <2>1. TAKE i \in DOMAIN r
  <2>2. r[i].do \notin {"getAll", "getOne"}
    BY <1>5, <1>11, <1>13 DEF Restores, Creates, Initializes
  <2>3. ASSUME r[i].do = "rollback", NEW j \in DOMAIN r
        PROVE  r[j].do \notin Initializes
    <3>1. dryRun
      BY <1>5, <1>6, <1>9, <2>3, EndingIs DEF end, Creates
    <3>2. QED
      BY <1>5, <1>6, <1>9, <3>1, EndingIs DEF end, Creates, Initializes
  <2>4. r[i].do = "begin" => i = 1
    BY <1>13 DEF Restores, Creates, Initializes
  <2>5. Later(r, 1, {"commit", "rollback"})
    <3>1. PICK k \in DOMAIN end : end[k].do \in {"commit", "rollback"}
      BY EndingIs DEF Has, end
    <3>2. k \in Nat /\ k >= 1
      BY <1>4, LenProperties
    <3>3. Len(s) + k > 1
      BY <1>5, <3>2
    <3>4. QED
      BY <1>10, <3>1, <3>3 DEF Later
  <2>6. QED
    BY <1>11, <1>13, <2>2, <2>3, <2>4, <2>5 DEF Keeps
<1>15. r \in Requested(backup)
  BY <1>5, <1>8, <1>12, <1>14 DEF Requested, Programs, r
<1>16. Has(r, {"delAll"})
  BY <1>5, <1>11 DEF Has
<1>17. dryRun \/ (Has(r, {"clear"}) /\ Has(r, {"connect"}))
  BY <1>10, EndingIs DEF Has, end
<1>18. Has(r, {"commit", "rollback"})
  BY <1>10, EndingIs DEF Has, end
<1>19. QED
  BY <1>1, <1>15, <1>16, <1>17, <1>18 DEF r

-----------------------------------------------------------------------------
(* Types *)

Tables == {s \in [Configs -> SUBSET Row] : \A g \in Configs : \A a, b \in s[g] : a = b}

\* What processes have before them, and what they have read.
Control ==
    /\ todo \in [Procs -> Programs]
    /\ want \in [Procs -> Wishes]
    /\ got \in [Procs -> Tables]

\* Rows, files and caches.
Stored ==
    /\ row \in Tables /\ one \in Tables /\ all \in SUBSET Tables
    /\ \A a, b \in all : a = b
    /\ tx \in SUBSET [by : Procs, rows : Tables]
    /\ \A t, u \in tx : t = u
    /\ files \in SUBSET (Configs \X Kinds)
    /\ stale \in SUBSET (Configs \cup {"all"}) /\ lost \in SUBSET (Configs \X Kinds)
    /\ dirty \in BOOLEAN

\* The rest of the system.
Kept ==
    /\ calls \in Nat /\ faults \in Nat
    /\ sources \in Tables /\ clients \in SUBSET [broker : Brokers, path : Paths]
    /\ saved \in Wishes /\ running \in BOOLEAN

\* Whoever has a transaction is a restore that has begun, and has yet to end it.
Restoring ==
    \A p \in Procs : InTx(p) =>
        /\ \A i \in DOMAIN todo[p] : todo[p][i].do \in Restores
        /\ Has(todo[p], {"commit", "rollback"})

Base == Control /\ Stored /\ Kept /\ Restoring /\ Configs # {}

LEMMA BaseTypes == Base => TypeOK
<1> SUFFICES ASSUME Base PROVE TypeOK
  OBVIOUS
<1>1. /\ row \in [Configs -> SUBSET Row] /\ one \in [Configs -> SUBSET Row]
      /\ all \in SUBSET [Configs -> SUBSET Row]
      /\ \A a, b \in all : a = b
      /\ \A t, u \in tx : t = u
  BY DEF Base, Stored, Tables
<1>2. tx \in SUBSET [by : Procs, rows : [Configs -> SUBSET Row]]
  BY DEF Base, Stored, Tables
<1>3. \A s \in {row, one} \cup {t.rows : t \in tx} : \A g \in Configs : \A a, b \in s[g] : a = b
  BY DEF Base, Stored, Tables
<1>4. todo \in [Procs -> Seq([do : Steps, g : Configs])]
  BY DEF Base, Control, Programs, Step
<1>5. want \in [Procs -> [Configs -> SUBSET Wanted]] /\ got \in [Procs -> [Configs -> SUBSET Row]]
  BY DEF Base, Control, Wishes, Tables
<1>6. /\ files \in SUBSET (Configs \X Kinds) /\ stale \in SUBSET (Configs \cup {"all"})
      /\ lost \in SUBSET (Configs \X Kinds)
      /\ calls \in Nat /\ faults \in Nat
  BY DEF Base, Stored, Kept
<1>7. dirty \in BOOLEAN /\ running \in BOOLEAN
  BY DEF Base, Stored, Kept
<1>8. ConfigTypeOK
  BY <1>1, <1>2, <1>3, <1>4, <1>5, <1>6, <1>7 DEF ConfigTypeOK
<1>9. SourceTypeOK /\ saved \in [Configs -> SUBSET Wanted]
  BY DEF Base, Kept, SourceTypeOK, Tables, Wishes
<1>10. QED
  BY <1>7, <1>8, <1>9 DEF TypeOK

LEMMA NothingIs == Nothing \in Tables /\ Nothing \in Wishes
BY DEF Nothing, Tables, Wishes

LEMMA TableWith ==
    ASSUME NEW s \in Tables, NEW g \in Configs, NEW new \in SUBSET Row, \A a, b \in new : a = b
    PROVE  [s EXCEPT ![g] = new] \in Tables
BY DEF Tables

\* What is left of a program is the rest of a program.
LEMMA RestIs ==
    ASSUME NEW s \in Programs, s # <<>>
    PROVE  Tail(s) \in Programs
<1>1. s \in Seq(Step) /\ \A i \in DOMAIN s : Owes(s, i) /\ Keeps(s, i)
  BY DEF Programs
<1> DEFINE r == Tail(s)
<1>2. /\ r \in Seq(Step) /\ \A i \in DOMAIN r : i \in Nat /\ i + 1 \in DOMAIN s /\ r[i] = s[i + 1]
      /\ \A j \in DOMAIN s : j \in Nat /\ (j > 1 => j - 1 \in DOMAIN r /\ r[j - 1] = s[j])
  BY <1>1, Rest
<1> HIDE DEF r
<1>3. ASSUME NEW i \in DOMAIN r PROVE Owes(r, i)
  <2>1. i \in Nat /\ i + 1 \in DOMAIN s /\ r[i] = s[i + 1] /\ Owes(s, i + 1) /\ i >= 1
    BY <1>1, <1>2, LenProperties
  <2>2. \A dos : Later(s, i + 1, dos) => Later(r, i, dos)
    <3>1. \A j \in DOMAIN s : j > i + 1 => j - 1 \in DOMAIN r /\ r[j - 1] = s[j] /\ j - 1 > i
      BY <1>2, <2>1
    <3>2. QED
      BY <3>1 DEF Later
  <2>3. \A g : (\E j \in DOMAIN s : j > i + 1 /\ s[j].do = "delOne" /\ s[j].g = g)
              => \E j \in DOMAIN r : j > i /\ r[j].do = "delOne" /\ r[j].g = g
    <3>1. \A j \in DOMAIN s : j > i + 1 => j - 1 \in DOMAIN r /\ r[j - 1] = s[j] /\ j - 1 > i
      BY <1>2, <2>1
    <3>2. QED
      BY <3>1
  <2>4. QED
    BY <2>1, <2>2, <2>3 DEF Owes
<1>4. ASSUME NEW i \in DOMAIN r PROVE Keeps(r, i)
  <2>1. Keeps(s, i + 1) /\ r[i] = s[i + 1] /\ \A j \in DOMAIN r : j > i => j + 1 > i + 1
    BY <1>1, <1>2
  <2>2. \A dos : Later(s, i + 1, dos) => Later(r, i, dos)
    <3>1. \A j \in DOMAIN s : j > i + 1 => j - 1 \in DOMAIN r /\ r[j - 1] = s[j] /\ j - 1 > i
      BY <1>2
    <3>2. QED
      BY <3>1 DEF Later
  <2>3. QED
    BY <1>2, <2>1, <2>2 DEF Keeps
<1>5. QED
  BY <1>2, <1>3, <1>4 DEF Programs, r

\* What a program has before it, it still has after another step.
LEMMA StillHas ==
    ASSUME NEW s \in Seq(Step), s # <<>>
    PROVE  /\ \A dos : Has(s, dos) /\ Head(s).do \notin dos => Has(Tail(s), dos)
           /\ \A dos : Later(s, 1, dos) => Has(Tail(s), dos)
           /\ \A dos : Has(Tail(s), dos) => Has(s, dos)
           /\ \A dos, g : HasOn(s, dos, g) /\ ~ (Head(s).do \in dos /\ Head(s).g = g) => HasOn(Tail(s), dos, g)
           /\ \A dos, g : HasOn(Tail(s), dos, g) => HasOn(s, dos, g)
<1>1. \A j \in DOMAIN s : j # 1 => j - 1 \in DOMAIN Tail(s) /\ Tail(s)[j - 1] = s[j]
  <2>1. TAKE j \in DOMAIN s
  <2>2. HAVE j # 1
  <2>3. j - 1 \in DOMAIN Tail(s) /\ (j - 1) + 1 = j
    BY <2>2, Rest
  <2>4. QED
    BY <2>3, Rest
<1>2. \A j \in DOMAIN Tail(s) : j + 1 \in DOMAIN s /\ Tail(s)[j] = s[j + 1]
  BY Rest
<1>3. Head(s) = s[1]
  BY Rest
<1>4. \A dos : Has(s, dos) /\ Head(s).do \notin dos => Has(Tail(s), dos)
  BY <1>1, <1>3 DEF Has
<1>5. \A dos : Later(s, 1, dos) => Has(Tail(s), dos)
  <2> SUFFICES ASSUME NEW dos, Later(s, 1, dos) PROVE Has(Tail(s), dos)
    OBVIOUS
  <2>1. PICK j \in DOMAIN s : j > 1 /\ s[j].do \in dos
    BY DEF Later
  <2>2. j # 1
    BY <2>1, Rest
  <2>3. QED
    BY <1>1, <2>1, <2>2 DEF Has
<1>6. \A dos : Has(Tail(s), dos) => Has(s, dos)
  BY <1>2 DEF Has
<1>7. \A dos, g : HasOn(s, dos, g) /\ ~ (Head(s).do \in dos /\ Head(s).g = g) => HasOn(Tail(s), dos, g)
  BY <1>1, <1>3 DEF HasOn
<1>8. \A dos, g : HasOn(Tail(s), dos, g) => HasOn(s, dos, g)
  BY <1>2 DEF HasOn
<1>9. QED
  BY <1>4, <1>5, <1>6, <1>7, <1>8

\* A process goes a step on, or is done.
Shortened(p) ==
    /\ todo[p] # <<>>
    /\ todo'[p] \in {Tail(todo[p]), <<>>}
    /\ \A q \in Procs \ {p} : todo'[q] = todo[q]

LEMMA ProgramOf ==
    ASSUME Control, NEW p \in Procs, todo[p] # <<>>
    PROVE  /\ todo[p] \in Programs /\ todo[p] \in Seq(Step)
           /\ Head(todo[p]) = todo[p][1] /\ Head(todo[p]) \in Step /\ Subject(p) \in Configs
           /\ 1 \in DOMAIN todo[p]
           /\ Tail(todo[p]) \in Programs
<1>1. todo[p] \in Programs /\ todo[p] \in Seq(Step)
  BY DEF Control, Programs
<1>2. Head(todo[p]) = todo[p][1] /\ Head(todo[p]) \in Step /\ 1 \in DOMAIN todo[p]
  BY <1>1, Rest
<1>3. QED
  BY <1>1, <1>2, RestIs DEF Subject, Step

LEMMA NoProgram == <<>> \in Programs
BY DEF Programs

LEMMA Continues ==
    ASSUME Control, NEW p \in Procs, NEW rest \in {Tail(todo[p]), <<>>}, todo[p] # <<>>, Continue(p, rest)
    PROVE  /\ Control' /\ Shortened(p) /\ todo'[p] = rest
           /\ \A q \in Procs : want'[q] \in {want[q], Nothing} /\ got'[q] \in {got[q], Nothing}
<1>1. rest \in Programs
  BY ProgramOf, NoProgram
<1>2. todo' \in [Procs -> Programs] /\ todo'[p] = rest /\ \A q \in Procs \ {p} : todo'[q] = todo[q]
  BY <1>1 DEF Continue, Control
<1>3. want' \in [Procs -> Wishes] /\ \A q \in Procs : want'[q] \in {want[q], Nothing}
  BY NothingIs DEF Continue, Control
<1>4. got' \in [Procs -> Tables] /\ \A q \in Procs : got'[q] \in {got[q], Nothing}
  BY NothingIs DEF Continue, Control
<1>5. QED
  BY <1>2, <1>3, <1>4 DEF Control, Shortened

\* A query: its rows are what it leaves behind.
LEMMA Queries ==
    ASSUME Base, NEW p \in Procs, todo[p] # <<>>,
           todo' = [todo EXCEPT ![p] = Tail(todo[p])], got' = [got EXCEPT ![p] = row], UNCHANGED want
    PROVE  /\ Control' /\ Shortened(p) /\ todo'[p] = Tail(todo[p])
           /\ \A q \in Procs : got'[q] \in {got[q], row}
<1>1. Tail(todo[p]) \in Programs /\ Control
  BY ProgramOf DEF Base
<1>2. todo' \in [Procs -> Programs] /\ todo'[p] = Tail(todo[p]) /\ \A q \in Procs \ {p} : todo'[q] = todo[q]
  BY <1>1 DEF Control
<1>3. got' \in [Procs -> Tables] /\ \A q \in Procs : got'[q] \in {got[q], row}
  BY <1>1 DEF Base, Control, Stored
<1>4. QED
  BY <1>1, <1>2, <1>3 DEF Control, Shortened

LEMMA ProceedsOrThrows ==
    ASSUME Base, NEW p \in Procs, todo[p] # <<>>, Proceed(p) \/ Throw(p)
    PROVE  Control' /\ Shortened(p)
BY Continues DEF Proceed, Throw, Base

LEMMA ConfigStepAdvances == ASSUME Base, NEW p \in Procs, ConfigStep(p) PROVE Control' /\ Shortened(p)
<1> USE DEF Ahead
<1>1. CASE Insert(p)
  BY <1>1, ProceedsOrThrows DEF Insert
<1>2. CASE UpdateRow(p)
  BY <1>2, ProceedsOrThrows DEF UpdateRow
<1>3. CASE WriteFiles(p)
  BY <1>3, ProceedsOrThrows DEF WriteFiles
<1>4. CASE SetPaths(p)
  BY <1>4, ProceedsOrThrows DEF SetPaths
<1>5. CASE Find(p)
  BY <1>5, Queries DEF Find
<1>6. CASE Delete(p)
  BY <1>6, ProceedsOrThrows DEF Delete
<1>7. CASE RemoveFiles(p)
  BY <1>7, ProceedsOrThrows DEF RemoveFiles
<1>8. CASE DelAll(p)
  BY <1>8, ProceedsOrThrows DEF DelAll
<1>9. CASE DelOne(p)
  BY <1>9, ProceedsOrThrows DEF DelOne
<1>10. CASE Get(p)
  <2>1. /\ todo[p] # <<>>
        /\ Continue(p, Tail(todo[p])) \/ Continue(p, <<>>)
    BY <1>10 DEF Get
  <2>2. QED
    BY <2>1, Continues DEF Base
<1>11. CASE Load(p)
  BY <1>11, Queries DEF Load
<1>12. CASE SetAll(p)
  BY <1>12, ProceedsOrThrows DEF SetAll
<1>13. CASE SetOne(p)
  BY <1>13, ProceedsOrThrows DEF SetOne
<1>14. QED
  BY <1>1, <1>2, <1>3, <1>4, <1>5, <1>6, <1>7, <1>8, <1>9, <1>10, <1>11, <1>12, <1>13 DEF ConfigStep

LEMMA SystemStepAdvances == ASSUME Base, NEW p \in Procs, SystemStep(p) \/ Fail(p) PROVE Control' /\ Shortened(p)
<1> USE DEF Ahead
<1>1. CASE Begin(p)
  BY <1>1, ProceedsOrThrows DEF Begin
<1>2. CASE Commit(p)
  BY <1>2, ProceedsOrThrows DEF Commit
<1>3. CASE Rollback(p)
  BY <1>3, ProceedsOrThrows DEF Rollback
<1>4. CASE Wipe(p)
  BY <1>4, ProceedsOrThrows DEF Wipe
<1>5. CASE Clear(p)
  BY <1>5, ProceedsOrThrows DEF Clear
<1>6. CASE Stop(p)
  BY <1>6, ProceedsOrThrows DEF Stop, Disconnect
<1>7. CASE Start(p)
  BY <1>7, ProceedsOrThrows DEF Start
<1>8. CASE Emit(p)
  BY <1>8, ProceedsOrThrows DEF Emit
<1>9. CASE DeleteAll(p)
  BY <1>9, ProceedsOrThrows DEF DeleteAll
<1>10. CASE RemoveCertificates(p)
  BY <1>10, ProceedsOrThrows DEF RemoveCertificates
<1>11. CASE ReadRows(p)
  BY <1>11, Queries DEF ReadRows
<1>12. CASE ReadFiles(p)
  BY <1>12, ProceedsOrThrows DEF ReadFiles
<1>13. CASE Query(p)
  BY <1>13, Queries DEF Query
<1>14. CASE Connect(p)
  BY <1>14, ProceedsOrThrows DEF Connect
<1>15. CASE ConfigStep(p)
  BY <1>15, ConfigStepAdvances
<1>16. CASE Fail(p)
  BY <1>16, ProceedsOrThrows DEF Fail, Idle
<1>17. QED
  BY <1>1, <1>2, <1>3, <1>4, <1>5, <1>6, <1>7, <1>8, <1>9, <1>10, <1>11, <1>12, <1>13, <1>14, <1>15, <1>16 DEF SystemStep

\* The rows that a process sees, and a change to one of them.
LEMMA RowsAre ==
    ASSUME Base, NEW p \in Procs
    PROVE  /\ Rows(p) \in Tables
           /\ ~ InTx(p) => Rows(p) = row
           /\ InTx(p) => \E t \in tx : tx = {t} /\ t.by = p /\ Rows(p) = t.rows
<1>1. CASE InTx(p)
  <2>1. PICK t \in tx : t.by = p
    BY <1>1 DEF InTx
  <2>2. tx = {t} /\ t.rows \in Tables
    BY <2>1 DEF Base, Stored
  <2>3. (CHOOSE u \in tx : u.by = p) = t
    BY <2>1, <2>2
  <2>4. QED
    BY <1>1, <2>1, <2>2, <2>3 DEF Rows
<1>2. CASE ~ InTx(p)
  BY <1>2 DEF Rows, Base, Stored
<1>3. QED
  BY <1>1, <1>2

\* In the transaction, or in the table.
InTransaction(p, g, new) ==
    \E t, u \in [by : Procs, rows : Tables] :
        /\ tx = {t} /\ tx' = {u} /\ t.by = p /\ u.by = p
        /\ t.rows = Rows(p) /\ u.rows = [Rows(p) EXCEPT ![g] = new]
        /\ UNCHANGED <<row, dirty>>
InTable(g, new) ==
    row' = [row EXCEPT ![g] = new] /\ dirty' = TRUE /\ UNCHANGED tx

LEMMA WriteRowIs ==
    ASSUME Base, NEW p \in Procs, NEW g \in Configs, NEW new \in SUBSET Row,
           \A a, b \in new : a = b, WriteRow(p, g, new)
    PROVE  /\ row' \in Tables /\ tx' \in SUBSET [by : Procs, rows : Tables] /\ dirty' \in BOOLEAN
           /\ \A t, u \in tx' : t = u
           /\ \A t \in tx' : \E u \in tx : u.by = t.by
           /\ IF InTx(p) THEN InTransaction(p, g, new) ELSE InTable(g, new) /\ Rows(p) = row
<1>1. CASE InTx(p)
  <2>1. PICK t \in tx : tx = {t} /\ t.by = p /\ Rows(p) = t.rows
    BY <1>1, RowsAre
  <2>2. t \in [by : Procs, rows : Tables]
    BY <2>1 DEF Base, Stored
  <2> DEFINE u == [t EXCEPT !.rows[g] = new]
  <2>3. u \in [by : Procs, rows : Tables] /\ u.by = p /\ u.rows = [t.rows EXCEPT ![g] = new]
    <3>1. t.rows \in Tables
      BY <2>2
    <3>2. [t.rows EXCEPT ![g] = new] \in Tables
      BY <3>1, TableWith
    <3>3. QED
      BY <2>1, <2>2, <3>2
  <2>4. UNCHANGED <<row, dirty>>
    BY <1>1 DEF WriteRow
  <2>5. tx' = {u}
    <3>1. tx' = {[v EXCEPT !.rows[g] = new] : v \in tx}
      BY <1>1 DEF WriteRow
    <3>2. QED
      BY <2>1, <3>1
  <2> HIDE DEF u
  <2>6. InTransaction(p, g, new)
    BY <2>1, <2>2, <2>3, <2>4, <2>5 DEF InTransaction
  <2>7. QED
    BY <1>1, <2>1, <2>2, <2>3, <2>4, <2>5, <2>6 DEF Base, Stored
<1>2. CASE ~ InTx(p)
  <2>1. InTable(g, new) /\ Rows(p) = row
    BY <1>2, RowsAre DEF WriteRow, InTable
  <2>2. row' \in Tables
    BY <2>1, TableWith DEF InTable, Base, Stored
  <2>3. QED
    BY <1>2, <2>1, <2>2 DEF InTable, Base, Stored
<1>3. QED
  BY <1>1, <1>2

\* The transactions there are, are those there were.
TxKept == \A t \in tx' : \E u \in tx : u.by = t.by

\* How a step goes on: it throws, is a hit in a cache, or has a next one.
Moves(p) ==
    \/ Throw(p)
    \/ (Ahead(p, "getAll") \/ Ahead(p, "getOne")) /\ UNCHANGED tx
    \/ todo'[p] = Tail(todo[p]) /\ (Ahead(p, "commit") => tx' = {}) /\ ~ Ahead(p, "rollback")

LEMMA ProceedMoves ==
    ASSUME Base, NEW p \in Procs, Proceed(p), todo[p] # <<>>,
           Ahead(p, "commit") => tx' = {}, ~ Ahead(p, "rollback")
    PROVE  Moves(p)
BY Continues DEF Moves, Proceed, Base

LEMMA ConfigStepMoves == ASSUME Base, NEW p \in Procs, ConfigStep(p) PROVE Moves(p)
<1>1. CASE Get(p)
  BY <1>1 DEF Get, Moves, dbVars
<1>2. CASE Find(p) \/ Load(p)
  <2>1. todo' = [todo EXCEPT ![p] = Tail(todo[p])] /\ ~ Ahead(p, "commit") /\ ~ Ahead(p, "rollback")
    BY <1>2 DEF Find, Load, Ahead
  <2>2. QED
    BY <2>1 DEF Moves, Base, Control
<1>3. CASE ~ (Get(p) \/ Find(p) \/ Load(p))
  <2>1. todo[p] # <<>> /\ ~ Ahead(p, "commit") /\ ~ Ahead(p, "rollback") /\ (Proceed(p) \/ Throw(p))
    BY <1>3 DEF ConfigStep, Insert, UpdateRow, WriteFiles, SetPaths, Delete, RemoveFiles, DelAll, DelOne, SetAll,
                SetOne, Ahead
  <2>2. QED
    BY <2>1, ProceedMoves DEF Moves
<1>4. QED
  BY <1>1, <1>2, <1>3

LEMMA SystemStepMoves == ASSUME Base, NEW p \in Procs, SystemStep(p) \/ Fail(p) PROVE Moves(p)
<1>1. CASE ConfigStep(p)
  BY <1>1, ConfigStepMoves
<1>2. CASE Commit(p)
  BY <1>2, ProceedMoves DEF Commit, Ahead
<1>3. CASE Rollback(p) \/ Fail(p)
  BY <1>3 DEF Rollback, Fail, Moves
<1>4. CASE ReadRows(p) \/ Query(p)
  <2>1. todo' = [todo EXCEPT ![p] = Tail(todo[p])] /\ ~ Ahead(p, "commit") /\ ~ Ahead(p, "rollback")
    BY <1>4 DEF ReadRows, Query, Ahead
  <2>2. QED
    BY <2>1 DEF Moves, Base, Control
<1>5. CASE \/ Begin(p) \/ Wipe(p) \/ Clear(p) \/ Stop(p) \/ Start(p) \/ Emit(p) \/ DeleteAll(p)
           \/ RemoveCertificates(p) \/ ReadFiles(p) \/ Connect(p)
  <2>1. todo[p] # <<>> /\ ~ Ahead(p, "commit") /\ ~ Ahead(p, "rollback") /\ (Proceed(p) \/ Throw(p))
    BY <1>5 DEF Begin, Wipe, Clear, Stop, Disconnect, Start, Emit, DeleteAll, RemoveCertificates, ReadFiles,
                Connect, Ahead
  <2>2. QED
    BY <2>1, ProceedMoves DEF Moves
<1>6. QED
  BY <1>1, <1>2, <1>3, <1>4, <1>5 DEF SystemStep

LEMMA StillRestoring ==
    ASSUME Base, Control', NEW p \in Procs, Shortened(p), Moves(p), TxKept
    PROVE  Restoring'
<1> SUFFICES ASSUME NEW q \in Procs, InTx(q)'
             PROVE  (\A i \in DOMAIN todo'[q] : todo'[q][i].do \in Restores) /\ Has(todo'[q], {"commit", "rollback"})
  BY DEF Restoring
<1>1. InTx(q)
  BY DEF InTx, TxKept
<1>2. (\A j \in DOMAIN todo[q] : todo[q][j].do \in Restores) /\ Has(todo[q], {"commit", "rollback"})
  BY <1>1 DEF Base, Restoring
<1>3. CASE q # p
  BY <1>2, <1>3 DEF Shortened
<1>4. CASE q = p
  <2>1. todo[p] # <<>> /\ todo[p] \in Seq(Step) /\ 1 \in DOMAIN todo[p] /\ Head(todo[p]) = todo[p][1]
    BY ProgramOf DEF Base, Shortened
  <2>2. todo'[p] = Tail(todo[p]) /\ ~ Ahead(p, "commit") /\ ~ Ahead(p, "rollback")
    <3>1. ~ Throw(p)
      BY <1>4 DEF Throw, InTx
    <3>2. ~ (Ahead(p, "getAll") \/ Ahead(p, "getOne"))
      BY <1>2, <1>4, <2>1 DEF Ahead, Restores, Creates, Initializes
    <3>3. tx' # {}
      BY <1>4 DEF InTx
    <3>4. QED
      BY <3>1, <3>2, <3>3 DEF Moves
  <2>3. Head(todo[p]).do \notin {"commit", "rollback"}
    BY <2>1, <2>2 DEF Ahead
  <2>4. Has(todo'[p], {"commit", "rollback"})
    BY <1>2, <1>4, <2>1, <2>2, <2>3, StillHas
  <2>5. ASSUME NEW i \in DOMAIN todo'[p] PROVE todo'[p][i].do \in Restores
    <3>1. i + 1 \in DOMAIN todo[p] /\ todo'[p][i] = todo[p][i + 1]
      BY <2>1, <2>2, Rest
    <3>2. QED
      BY <1>2, <1>4, <3>1
  <2>6. QED
    BY <1>4, <2>4, <2>5
<1>5. QED
  BY <1>3, <1>4

\* Paths that are put over others, and those that a request's certificates get.
LEMMA PathsAre ==
    /\ NoPaths \in Paths
    /\ \A a, b \in Paths : Over(a, b) \in Paths
    /\ \A g \in Configs, w \in Wanted : Returned(g, w) \in Paths
<1>1. \A a, b \in Paths : Over(a, b) \in Paths
  BY DEF Over, Paths
<1>2. \A g \in Configs, w \in Wanted : Returned(g, w) \in Paths
  <2>1. TAKE g \in Configs, w \in Wanted
  <2>2. w.path \in Paths
    BY DEF Wanted
  <2>3. QED
    BY <2>2 DEF Returned, Paths
<1>3. QED
  BY <1>1, <1>2 DEF NoPaths, Paths

LEMMA RowsWritten ==
    /\ \A w \in Wanted : NewRow(w) \in Row
    /\ \A r \in Row, w \in Wanted : Changed(r, w) \in Row
    /\ \A r \in Row, w \in Wanted, g \in Configs : [r EXCEPT !.path = Over(Returned(g, w), @)] \in Row
<1>1. \A w \in Wanted : NewRow(w) \in Row
  BY DEF NewRow, Wanted, Row
<1>2. \A r \in Row, w \in Wanted : Changed(r, w) \in Row
  <2>1. TAKE r \in Row, w \in Wanted
  <2>2. /\ r.broker \in Brokers \cup {"none"} /\ w.broker \in Brokers \cup {"none"}
        /\ r.path \in Paths /\ w.path \in Paths
    BY DEF Row, Wanted
  <2>3. Over(w.path, r.path) \in Paths
    BY <2>2, PathsAre
  <2>4. QED
    BY <2>2, <2>3 DEF Changed, Row
<1>3. \A r \in Row, w \in Wanted, g \in Configs : [r EXCEPT !.path = Over(Returned(g, w), @)] \in Row
  <2>1. TAKE r \in Row, w \in Wanted, g \in Configs
  <2>2. Over(Returned(g, w), r.path) \in Paths
    <3>1. r.path \in Paths
      BY DEF Row
    <3>2. QED
      BY <3>1, PathsAre
  <2>3. QED
    BY <2>2 DEF Row
<1>4. QED
  BY <1>1, <1>2, <1>3

\* What the steps that write a row have in common: the copy that becomes outdated was not there,
\* or is yet to be dropped, or is known to be outdated.
Writes(p) == Insert(p) \/ UpdateRow(p) \/ SetPaths(p) \/ Delete(p)
Wrote(p, g, new) ==
    /\ g = Subject(p) /\ \A a, b \in new : a = b
    /\ todo[p] # <<>> /\ Head(todo[p]).do \in {"insert", "update", "paths", "delete"}
    /\ WriteRow(p, g, new) /\ Proceed(p)
    /\ UNCHANGED <<files, one, all>>
    /\ stale' \in SUBSET (Configs \cup {"all"}) /\ stale \subseteq stale'
    /\ lost' \in SUBSET (Configs \X Kinds) /\ lost \subseteq lost'
    /\ \/ Head(todo[p]).do \in {"update", "delete"}
       \/ Rows(p)[g] = {} \/ one[g] = {} \/ g \in stale' \/ PendingOn(p, {"delOne"}, g)

LEMMA WritesIs ==
    ASSUME Base, NEW p \in Procs, Writes(p), ~ Throw(p)
    PROVE  \E g \in Configs, new \in SUBSET Row : Wrote(p, g, new)
<1> DEFINE g == Subject(p)
<1>1. todo[p] # <<>> /\ g \in Configs
  BY ProgramOf DEF Base, Writes, Insert, UpdateRow, SetPaths, Delete, Ahead
<1> HIDE DEF g
<1>2. stale \in SUBSET (Configs \cup {"all"}) /\ lost \in SUBSET (Configs \X Kinds)
  BY DEF Base, Stored
<1>3. ASSUME NEW w PROVE ClientNames(w) => lost' \in SUBSET (Configs \X Kinds) /\ lost \subseteq lost'
  BY <1>2 DEF ClientNames, Named
<1>4. want[p][g] \subseteq Wanted /\ \A v, w \in want[p][g] : v = w
  BY <1>1 DEF Base, Control, Wishes
<1>5. /\ row[g] \subseteq Row /\ \A a, b \in row[g] : a = b
      /\ Rows(p)[g] \subseteq Row /\ \A a, b \in Rows(p)[g] : a = b
  <2>1. row \in Tables /\ Rows(p) \in Tables
    BY RowsAre DEF Base, Stored
  <2>2. QED
    BY <1>1, <2>1 DEF Tables
<1>6. CASE Insert(p)
  <2>1. PICK w \in want[p][g] : WriteRow(p, g, {NewRow(w)}) /\ ClientNames(w)
    BY <1>6 DEF Insert, g
  <2>2. {NewRow(w)} \in SUBSET Row
    BY <1>4, RowsWritten
  <2>3. /\ Rows(p)[g] = {} /\ Proceed(p) /\ Head(todo[p]).do = "insert"
        /\ UNCHANGED <<files, one, all, stale>>
    BY <1>6 DEF Insert, Ahead, cacheVars, g
  <2>4. Wrote(p, g, {NewRow(w)})
    BY <1>1, <1>2, <1>3, <2>1, <2>3 DEF Wrote, g
  <2>5. QED
    BY <1>1, <2>2, <2>4
<1>7. CASE UpdateRow(p)
  <2>1. PICK w \in want[p][g] : WriteRow(p, g, {Changed(r, w) : r \in row[g]}) /\ ClientNames(w)
    BY <1>7 DEF UpdateRow, g
  <2> DEFINE new == {Changed(r, w) : r \in row[g]}
  <2>2. new \in SUBSET Row /\ \A a, b \in new : a = b
    BY <1>4, <1>5, RowsWritten
  <2>3. WriteRow(p, g, new)
    BY <2>1
  <2> HIDE DEF new
  <2>4. Proceed(p) /\ Head(todo[p]).do = "update" /\ UNCHANGED <<files, one, all, stale>>
    BY <1>7 DEF UpdateRow, Ahead, cacheVars
  <2>5. Wrote(p, g, new)
    BY <1>1, <1>2, <1>3, <2>1, <2>2, <2>3, <2>4 DEF Wrote, g
  <2>6. QED
    BY <1>1, <2>2, <2>5
<1>8. CASE SetPaths(p)
  <2>1. PICK w \in want[p][g] :
            WriteRow(p, g, {[r EXCEPT !.path = Over(Returned(g, w), @)] : r \in Rows(p)[g]})
    BY <1>8 DEF SetPaths, g
  <2> DEFINE new == {[r EXCEPT !.path = Over(Returned(g, w), @)] : r \in Rows(p)[g]}
  <2>2. new \in SUBSET Row /\ \A a, b \in new : a = b
    BY <1>1, <1>4, <1>5, RowsWritten
  <2>3. WriteRow(p, g, new)
    BY <2>1
  <2> HIDE DEF new
  <2>4. /\ Proceed(p) /\ Head(todo[p]).do = "paths" /\ UNCHANGED <<files, one, all, lost>>
        /\ stale' = stale \cup {c \in {g} : one[c] # {} /\ ~PendingOn(p, {"delOne"}, c)}
    BY <1>8 DEF SetPaths, Ahead, cacheVars, g
  <2>5. /\ stale' \in SUBSET (Configs \cup {"all"}) /\ stale \subseteq stale'
        /\ one[g] = {} \/ g \in stale' \/ PendingOn(p, {"delOne"}, g)
    BY <1>1, <1>2, <2>4
  <2>6. Wrote(p, g, new)
    BY <1>1, <1>2, <2>2, <2>3, <2>4, <2>5 DEF Wrote, g
  <2>7. QED
    BY <1>1, <2>2, <2>6
<1>9. CASE Delete(p)
  <2>1. /\ WriteRow(p, g, {}) /\ Proceed(p) /\ Head(todo[p]).do = "delete"
        /\ UNCHANGED <<files, one, all, stale, lost>>
    BY <1>9 DEF Delete, Ahead, cacheVars, g
  <2>2. Wrote(p, g, {})
    BY <1>1, <1>2, <2>1 DEF Wrote, g
  <2>3. QED
    BY <1>1, <2>2
<1>10. QED
  BY <1>6, <1>7, <1>8, <1>9 DEF Writes

LEMMA ThrowStores ==
    ASSUME Base, NEW p \in Procs, Throw(p)
    PROVE  Stored' /\ TxKept
<1>1. Abandoned(p) \in SUBSET (Configs \cup {"all"})
  BY DEF Abandoned
<1>2. dirty' \in BOOLEAN
  <2>1. dirty' = (dirty \/ Pending(p, {"deleteAll", "query", "connect"}))
    BY DEF Throw
  <2>2. QED
    BY <2>1
<1>3. UNCHANGED <<row, files, one, all, lost>> /\ tx' = {t \in tx : t.by # p} /\ stale' = stale \cup Abandoned(p)
  BY DEF Throw, cacheVars
<1>4. QED
  BY <1>1, <1>2, <1>3 DEF Base, Stored, TxKept

LEMMA ConfigStepStores == ASSUME Base, NEW p \in Procs, ConfigStep(p) PROVE Stored' /\ TxKept
<1>1. \A do : Ahead(p, do) => Subject(p) \in Configs
  BY ProgramOf DEF Ahead, Base
<1>2. CASE Writes(p)
  <2>1. CASE Throw(p)
    BY <2>1, ThrowStores
  <2>2. CASE ~ Throw(p)
    <3>1. PICK g \in Configs, new \in SUBSET Row : Wrote(p, g, new)
      BY <1>2, <2>2, WritesIs
    <3>2. /\ row' \in Tables /\ tx' \in SUBSET [by : Procs, rows : Tables] /\ dirty' \in BOOLEAN
          /\ \A t, u \in tx' : t = u
          /\ \A t \in tx' : \E u \in tx : u.by = t.by
      BY <3>1, WriteRowIs DEF Wrote
    <3>3. /\ UNCHANGED <<files, one, all>> /\ stale' \in SUBSET (Configs \cup {"all"})
          /\ lost' \in SUBSET (Configs \X Kinds)
      BY <3>1 DEF Wrote
    <3>4. QED
      BY <3>2, <3>3 DEF Base, Stored, TxKept
  <2>3. QED
    BY <2>1, <2>2
<1>3. CASE WriteFiles(p)
  <2>1. /\ UNCHANGED <<row, tx, one, all, stale, dirty>>
        /\ \E new \in SUBSET (Configs \X Kinds) : files' = files \cup new /\ lost' = lost \ new
    <3> DEFINE new == {Subject(p)} \X UNION {w.cert : w \in want[p][Subject(p)]}
    <3>1. Subject(p) \in Configs
      BY <1>1, <1>3 DEF WriteFiles
    <3>2. \A w \in want[p][Subject(p)] : w.cert \subseteq Kinds
      BY <3>1 DEF Base, Control, Wishes, Wanted
    <3>3. new \in SUBSET (Configs \X Kinds)
      BY <3>1, <3>2
    <3>4. files' = files \cup new /\ lost' = lost \ new /\ UNCHANGED <<row, tx, one, all, stale, dirty>>
      BY <1>3 DEF WriteFiles, dbVars, cacheVars
    <3> HIDE DEF new
    <3>5. QED
      BY <3>3, <3>4
  <2>2. QED
    BY <2>1 DEF Base, Stored, TxKept
<1>4. CASE Find(p) \/ Get(p) \/ Load(p)
  BY <1>4 DEF Find, Get, Load, dbVars, cacheVars, ghostVars, Base, Stored, TxKept
<1>5. CASE RemoveFiles(p)
  <2>1. /\ UNCHANGED <<row, tx, one, all, stale, dirty>>
        /\ \E gone \in SUBSET (Configs \X Kinds) : files' = files \ gone /\ lost' = lost \cup gone
    <3> DEFINE gone == {g \in {Subject(p)} : \E r \in got[p][g] : r.broker # "none"} \X Kinds
    <3>1. Subject(p) \in Configs
      BY <1>1, <1>5 DEF RemoveFiles
    <3>2. gone \in SUBSET (Configs \X Kinds)
      BY <3>1
    <3>3. files' = files \ gone /\ lost' = lost \cup gone /\ UNCHANGED <<row, tx, one, all, stale, dirty>>
      BY <1>5 DEF RemoveFiles, dbVars, cacheVars
    <3> HIDE DEF gone
    <3>4. QED
      BY <3>2, <3>3
  <2>2. QED
    BY <2>1 DEF Base, Stored, TxKept
<1>6. CASE DelAll(p)
  BY <1>6 DEF DelAll, dbVars, Base, Stored, TxKept
<1>7. CASE DelOne(p)
  <2>1. /\ Subject(p) \in Configs /\ UNCHANGED <<row, tx, files, all, lost, dirty>>
        /\ one' = [one EXCEPT ![Subject(p)] = {}] /\ stale' = stale \ {Subject(p)}
    BY <1>1, <1>7 DEF DelOne, dbVars
  <2>2. one' \in Tables
    BY <2>1, TableWith DEF Base, Stored
  <2>3. QED
    BY <2>1, <2>2 DEF Base, Stored, TxKept
<1>8. CASE SetAll(p)
  <2>1. /\ UNCHANGED <<row, tx, files, one, lost, dirty>> /\ all' = {got[p]}
        /\ stale' \in {stale \cup {"all"}, stale \ {"all"}}
    BY <1>8 DEF SetAll, dbVars, Outdated
  <2>2. got[p] \in Tables
    BY DEF Base, Control
  <2>3. QED
    BY <2>1, <2>2 DEF Base, Stored, TxKept
<1>9. CASE SetOne(p)
  <2>1. UNCHANGED <<row, tx, files, all, lost, dirty>> /\ Subject(p) \in Configs
    BY <1>1, <1>9 DEF SetOne, dbVars
  <2>2. \/ UNCHANGED <<one, stale>>
        \/ /\ one' = [one EXCEPT ![Subject(p)] = got[p][Subject(p)]]
           /\ stale' \in {stale \cup {Subject(p)}, stale \ {Subject(p)}}
    BY <1>9 DEF SetOne, Outdated
  <2>3. got[p][Subject(p)] \in SUBSET Row /\ \A a, b \in got[p][Subject(p)] : a = b
    BY <2>1 DEF Base, Control, Tables
  <2>4. one' \in Tables
    <3>1. one \in Tables
      BY DEF Base, Stored
    <3>2. [one EXCEPT ![Subject(p)] = got[p][Subject(p)]] \in Tables
      BY <2>1, <2>3, <3>1, TableWith
    <3>3. QED
      BY <2>2, <3>1, <3>2
  <2>5. QED
    BY <2>1, <2>2, <2>4 DEF Base, Stored, TxKept
<1>10. QED
  BY <1>2, <1>3, <1>4, <1>5, <1>6, <1>7, <1>8, <1>9 DEF ConfigStep, Writes

\* A restore that begins has only its creates, and its end, before it.
LEMMA BeginRestores == ASSUME Base, Control', NEW p \in Procs, Shortened(p), Begin(p) PROVE Restoring'
<1> SUFFICES ASSUME NEW q \in Procs, InTx(q)'
             PROVE  (\A i \in DOMAIN todo'[q] : todo'[q][i].do \in Restores) /\ Has(todo'[q], {"commit", "rollback"})
  BY DEF Restoring
<1>1. tx' = {[by |-> p, rows |-> Nothing]} /\ todo[p] # <<>> /\ Head(todo[p]).do = "begin" /\ Proceed(p)
  BY DEF Begin, Ahead
<1>2. q = p
  BY <1>1 DEF InTx
<1>3. todo'[p] = Tail(todo[p])
  BY <1>1, Continues DEF Proceed, Base
<1>4. todo[p] \in Programs /\ todo[p] \in Seq(Step) /\ todo[p][1].do = "begin" /\ 1 \in DOMAIN todo[p]
  BY <1>1, ProgramOf DEF Base
<1>5. /\ \A j \in DOMAIN todo[p] : j > 1 => todo[p][j].do \in Restores
      /\ Later(todo[p], 1, {"commit", "rollback"})
  BY <1>4 DEF Programs, Keeps
<1>6. Has(todo'[p], {"commit", "rollback"})
  BY <1>1, <1>3, <1>4, <1>5, StillHas
<1>7. ASSUME NEW i \in DOMAIN todo'[p] PROVE todo'[p][i].do \in Restores
  <2>1. i \in Nat /\ i >= 1 /\ i + 1 \in DOMAIN todo[p] /\ todo'[p][i] = todo[p][i + 1]
    BY <1>1, <1>3, <1>4, Rest
  <2>2. QED
    BY <1>5, <2>1
<1>8. QED
  BY <1>2, <1>6, <1>7

LEMMA SystemStepStores == ASSUME Base, NEW p \in Procs, SystemStep(p) \/ Fail(p) PROVE Stored' /\ (TxKept \/ Begin(p))
<1> USE DEF dbVars, cacheVars, ghostVars
<1>1. CASE Begin(p)
  <2>1. tx' = {[by |-> p, rows |-> Nothing]} /\ UNCHANGED <<row, files, one, all, stale, lost, dirty>>
    BY <1>1 DEF Begin
  <2>2. QED
    BY <1>1, <2>1, NothingIs DEF Base, Stored
<1>2. CASE Commit(p)
  <2>1. row' = Rows(p) /\ tx' = {} /\ dirty' = TRUE /\ UNCHANGED <<files, one, all, stale, lost>>
    BY <1>2 DEF Commit
  <2>2. QED
    BY <2>1, RowsAre DEF Base, Stored, TxKept
<1>3. CASE Rollback(p) \/ Fail(p)
  BY <1>3, ThrowStores DEF Rollback, Fail
<1>4. CASE Wipe(p)
  BY <1>4 DEF Wipe, Base, Stored, TxKept
<1>5. CASE Clear(p)
  BY <1>5, NothingIs DEF Clear, Base, Stored, TxKept
<1>6. CASE Stop(p) \/ Start(p) \/ Emit(p) \/ ReadRows(p) \/ ReadFiles(p) \/ Query(p)
  BY <1>6 DEF Stop, Disconnect, Start, Emit, ReadRows, ReadFiles, Query, Base, Stored, TxKept
<1>7. CASE DeleteAll(p)
  BY <1>7, NothingIs DEF DeleteAll, Base, Stored, TxKept
<1>8. CASE RemoveCertificates(p)
  BY <1>8 DEF RemoveCertificates, Base, Stored, TxKept
<1>9. CASE Connect(p)
  <2>1. CASE Throw(p)
    BY <2>1, ThrowStores
  <2>2. CASE ~ Throw(p)
    <3>1. dirty' = (got[p] # row) /\ UNCHANGED <<row, tx, files, one, all, stale, lost>>
      BY <1>9, <2>2 DEF Connect
    <3>2. QED
      BY <3>1 DEF Base, Stored, TxKept
  <2>3. QED
    BY <2>1, <2>2
<1>10. CASE ConfigStep(p)
  BY <1>10, ConfigStepStores
<1>11. QED
  BY <1>1, <1>2, <1>3, <1>4, <1>5, <1>6, <1>7, <1>8, <1>9, <1>10 DEF SystemStep

\* The keys of the clients.
LEMMA KeysAre == ASSUME NEW s \in Tables PROVE MqttKeys(s) \in SUBSET [broker : Brokers, path : Paths]
<1>1. KeysOf(s) \subseteq Row
  BY DEF KeysOf, Tables
<1>2. \A r \in Row : r.broker \in Mqtt => r \in [broker : Brokers, path : Paths]
  BY DataSourceAssumption DEF Row
<1>3. QED
  BY <1>1, <1>2 DEF MqttKeys

\* What a backup saves can be restored.
LEMMA ReadFilesKeeps == ASSUME Base, NEW p \in Procs, ReadFiles(p) PROVE saved' \in Wishes
<1>1. PICK elsewhere \in SUBSET Kinds :
        saved' = [g \in Configs |->
                    {[broker |-> r.broker, path |-> r.path,
                      cert |-> {k \in Kinds : \/ <<r.path[k], k>> \in files
                                              \/ r.path[k] = "other" /\ k \in elsewhere}]
                        : r \in got[p][g]}]
  BY DEF ReadFiles
<1> DEFINE Found(r) == {k \in Kinds : \/ <<r.path[k], k>> \in files
                                      \/ r.path[k] = "other" /\ k \in elsewhere}
           Saved(g) == {[broker |-> r.broker, path |-> r.path, cert |-> Found(r)] : r \in got[p][g]}
<1>2. saved' = [g \in Configs |-> Saved(g)]
  BY <1>1
<1>3. \A r : Found(r) \in SUBSET Kinds
  OBVIOUS
<1> HIDE DEF Found
<1>4. ASSUME NEW g \in Configs
      PROVE  Saved(g) \in SUBSET Wanted /\ \A a, b \in Saved(g) : a = b
  <2>1. got[p][g] \subseteq Row /\ \A a, b \in got[p][g] : a = b
    BY DEF Base, Control, Tables
  <2>2. ASSUME NEW r \in Row PROVE [broker |-> r.broker, path |-> r.path, cert |-> Found(r)] \in Wanted
    <3>1. r.broker \in Brokers \cup {"none"} /\ r.path \in Paths
      BY DEF Row
    <3>2. QED
      BY <1>3, <3>1 DEF Wanted
  <2>3. QED
    BY <2>1, <2>2
<1> HIDE DEF Saved
<1>5. QED
  BY <1>2, <1>4 DEF Wishes

LEMMA SystemStepKeeps == ASSUME Base, NEW p \in Procs, SystemStep(p) \/ Fail(p) PROVE Kept'
<1> USE DEF envVars, sourceVars
<1>1. CASE Begin(p) \/ Commit(p) \/ Rollback(p) \/ Clear(p) \/ DeleteAll(p) \/ RemoveCertificates(p) \/ ReadRows(p)
  BY <1>1 DEF Begin, Commit, Rollback, Clear, DeleteAll, RemoveCertificates, ReadRows, Base, Kept
<1>2. CASE Wipe(p) \/ Emit(p) \/ Stop(p)
  BY <1>2, NothingIs DEF Wipe, Emit, Stop, Disconnect, DisconnectAll, Base, Kept
<1>3. CASE Start(p)
  BY <1>3 DEF Start, Base, Kept
<1>4. CASE ReadFiles(p)
  BY <1>4, ReadFilesKeeps DEF ReadFiles, Base, Kept
<1>5. CASE (Query(p) \/ Connect(p)) /\ UNCHANGED <<saved, running>>
  <2>1. CASE Query(p)
    BY <1>5, <2>1 DEF Query, Base, Kept
  <2>2. CASE Connect(p)
    <3>1. /\ UNCHANGED <<calls, faults>>
          /\ \/ UNCHANGED <<sources, clients>>
             \/ sources' = got[p] /\ clients' \in SUBSET (clients \cup MqttKeys(got[p]))
      BY <2>2 DEF Connect, ConnectBrokers
    <3>2. got[p] \in Tables /\ MqttKeys(got[p]) \in SUBSET [broker : Brokers, path : Paths]
      BY KeysAre DEF Base, Control
    <3>3. QED
      BY <1>5, <3>1, <3>2 DEF Base, Kept
  <2>3. QED
    BY <1>5, <2>1, <2>2
<1>6. CASE ConfigStep(p) /\ UNCHANGED <<sourceVars, saved, running>>
  <2>1. UNCHANGED <<calls, faults>>
    BY <1>6 DEF ConfigStep, Insert, UpdateRow, WriteFiles, SetPaths, Find, Delete, RemoveFiles, DelAll, DelOne,
                Get, Load, SetAll, SetOne
  <2>2. QED
    BY <1>6, <2>1 DEF Base, Kept
<1>7. CASE Fail(p)
  <2>1. calls' = calls /\ faults' = faults + 1 /\ UNCHANGED <<sources, clients, saved, running>>
    BY <1>7 DEF Fail
  <2>2. QED
    BY <2>1 DEF Base, Kept
<1>8. QED
  BY <1>1, <1>2, <1>3, <1>4, <1>5, <1>6, <1>7 DEF SystemStep

LEMMA SystemStepBase == ASSUME Base, NEW p \in Procs, SystemStep(p) \/ Fail(p) PROVE Base'
<1>1. Control' /\ Shortened(p)
  BY SystemStepAdvances
<1>2. Stored' /\ Kept' /\ (TxKept \/ Begin(p))
  BY SystemStepStores, SystemStepKeeps
<1>3. Restoring'
  BY <1>1, <1>2, SystemStepMoves, StillRestoring, BeginRestores
<1>4. QED
  BY <1>1, <1>2, <1>3 DEF Base

\* A restore that is tried again starts with nothing in its transaction; it still drops the
\* list, and it still ends as it was asked to.
LEMMA RetryIs ==
    ASSUME Base, NEW p \in Procs, Retry(p)
    PROVE  /\ InTx(p) /\ tx' = {} /\ todo[p] # <<>>
           /\ todo'[p] \in Requested(want[p]) /\ Has(todo'[p], {"delAll"})
           /\ Pending(p, {"rollback"}) \/ (Has(todo'[p], {"clear"}) /\ Has(todo'[p], {"connect"}))
           /\ \A q \in Procs \ {p} : todo'[q] = todo[q]
           /\ UNCHANGED <<row, files, one, all, want, got, stale, lost, dirty, sources, clients, saved, running>>
<1>1. /\ todo[p] # <<>> /\ InTx(p) /\ tx' = {}
      /\ todo' = [todo EXCEPT ![p] = Restore(Subject(p), want[p], Pending(p, {"rollback"}))]
      /\ UNCHANGED <<row, files, one, all, want, got, stale, lost, dirty, sources, clients, saved, running>>
  BY DEF Retry, Idle, cacheVars, ghostVars, sourceVars
<1>2. Subject(p) \in Configs /\ want[p] \in Wishes
  BY <1>1, ProgramOf DEF Base, Control
<1>3. PICK dryRun \in BOOLEAN : dryRun = Pending(p, {"rollback"})
  <2>1. Pending(p, {"rollback"}) \in BOOLEAN
    BY DEF Pending
  <2>2. QED
    BY <2>1
<1> DEFINE r == Restore(Subject(p), want[p], dryRun)
<1>4. r \in Requested(want[p]) /\ Has(r, {"delAll"}) /\ (dryRun \/ (Has(r, {"clear"}) /\ Has(r, {"connect"})))
  BY <1>2, RestoreIs
<1>5. todo' = [todo EXCEPT ![p] = r]
  BY <1>1, <1>3
<1> HIDE DEF r
<1>6. todo'[p] = r /\ \A q \in Procs \ {p} : todo'[q] = todo[q]
  BY <1>5 DEF Base, Control
<1>7. QED
  BY <1>1, <1>3, <1>4, <1>6

LEMMA RetryBase == ASSUME Base, NEW p \in Procs, Retry(p) PROVE Base'
<1>1. Control'
  <2>1. todo' = [todo EXCEPT ![p] = todo'[p]]
    BY DEF Retry, Base, Control
  <2>2. todo'[p] \in Programs /\ UNCHANGED <<want, got>>
    BY RetryIs DEF Requested
  <2>3. QED
    BY <2>1, <2>2 DEF Base, Control
<1>2. Stored'
  BY RetryIs DEF Base, Stored
<1>3. Kept'
  <2>1. calls' = calls /\ faults' = faults + 1
    BY DEF Retry
  <2>2. QED
    BY <2>1, RetryIs DEF Base, Kept
<1>4. Restoring'
  BY RetryIs DEF Restoring, InTx
<1>5. QED
  BY <1>1, <1>2, <1>3, <1>4 DEF Base

\* A request is a program that pays what it owes, and writes what it was given.
LEMMA GlobalRequestIs ==
    ASSUME Base, NEW p \in Procs, NEW g \in Configs, GlobalRequest(p, g)
    PROVE  \E wanted \in Wishes : \E program \in Requested(wanted) : Ask(p, program, wanted)
<1>1. CASE \E w \in Bodies : \/ Ask(p, Create(g, w), [Nothing EXCEPT ![g] = {w}])
                             \/ Ask(p, Update(g, w), [Nothing EXCEPT ![g] = {w}])
  <2>1. PICK w \in Bodies : \/ Ask(p, Create(g, w), [Nothing EXCEPT ![g] = {w}])
                            \/ Ask(p, Update(g, w), [Nothing EXCEPT ![g] = {w}])
    BY <1>1
  <2> DEFINE wanted == [Nothing EXCEPT ![g] = {w}]
  <2>2. w \in Wanted
    BY GlobalConfigurationsAssumption
  <2>3. wanted \in Wishes /\ wanted[g] = {w}
    BY <2>2 DEF Nothing, Wishes
  <2>4. Ask(p, Create(g, w), wanted) \/ Ask(p, Update(g, w), wanted)
    BY <2>1
  <2> HIDE DEF wanted
  <2>5. w.cert = {} => g \in Bared(wanted)
    BY <2>3 DEF Bared
  <2>6. Create(g, w) \in Requested(wanted) /\ Update(g, w) \in Requested(wanted)
    BY <2>2, <2>5, CreateIs, UpdateIs DEF Batches, Requested
  <2>7. QED
    BY <2>3, <2>4, <2>6
<1>2. CASE Ask(p, Removal(g), Nothing) \/ Ask(p, FindOne(g), Nothing)
  BY <1>2, ShortProgramsAre, NothingIs
<1>3. QED
  BY <1>1, <1>2 DEF GlobalRequest

LEMMA SystemRequestIs ==
    ASSUME Base, NEW p \in Procs, NEW g \in Configs, SystemRequest(p, g)
    PROVE  \E wanted \in Wishes : \E program \in Requested(wanted) : Ask(p, program, wanted)
<1>1. CASE Ask(p, FindAll(g), Nothing) \/ Ask(p, Reset(g), Nothing) \/ Ask(p, Backup(g), Nothing)
  BY <1>1, ShortProgramsAre, NothingIs
<1>2. CASE \E dryRun \in BOOLEAN, backup \in {saved, Bare(saved)} :
              Ask(p, Restore(g, backup, dryRun), backup)
  <2>1. PICK dryRun \in BOOLEAN, backup \in {saved, Bare(saved)} :
              Ask(p, Restore(g, backup, dryRun), backup)
    BY <1>2
  <2>2. saved \in Wishes
    BY DEF Base, Kept
  <2>3. Bare(saved) \in Wishes
    <3> DEFINE Without(w) == [broker |-> w.broker, path |-> w.path, cert |-> {}]
    <3>1. Bare(saved) = [c \in Configs |-> {Without(w) : w \in saved[c]}]
      BY DEF Bare
    <3>2. \A w \in Wanted : Without(w) \in Wanted
      BY DEF Wanted
    <3> HIDE DEF Without
    <3>3. QED
      BY <2>2, <3>1, <3>2 DEF Wishes
  <2>4. backup \in Wishes
    BY <2>2, <2>3
  <2>5. Restore(g, backup, dryRun) \in Requested(backup)
    BY <2>4, RestoreIs
  <2>6. QED
    BY <2>1, <2>4, <2>5
<1>3. QED
  BY <1>1, <1>2 DEF SystemRequest

LEMMA RequestIs ==
    ASSUME Base, NEW p \in Procs, Request(p)
    PROVE  /\ todo[p] = <<>> /\ todo'[p] \in Requested(want'[p])
           /\ \A q \in Procs \ {p} : todo'[q] = todo[q] /\ want'[q] = want[q]
           /\ todo' \in [Procs -> Programs] /\ want' \in [Procs -> Wishes]
           /\ UNCHANGED <<row, tx, files, one, all, got, stale, lost, dirty, faults, sources, clients,
                          saved, running>>
           /\ calls' = calls + 1
<1>1. /\ todo[p] = <<>> /\ calls' = calls + 1
      /\ UNCHANGED <<row, tx, files, one, all, got, stale, lost, dirty, faults, sources, clients,
                     saved, running>>
  BY DEF Request, Idle, dbVars, cacheVars, ghostVars, sourceVars
<1>2. (CHOOSE g \in Configs : TRUE) \in Configs
  BY DEF Base
<1>3. \/ \E g \in Configs : GlobalRequest(p, g)
      \/ \E g \in Configs : SystemRequest(p, g)
  BY <1>2 DEF Request
<1>4. PICK wanted \in Wishes : \E program \in Requested(wanted) : Ask(p, program, wanted)
  BY <1>3, GlobalRequestIs, SystemRequestIs
<1>5. PICK program \in Requested(wanted) : Ask(p, program, wanted)
  BY <1>4
<1>6. program \in Programs
  BY DEF Requested
<1>7. todo' = [todo EXCEPT ![p] = program] /\ want' = [want EXCEPT ![p] = wanted]
  BY <1>5 DEF Ask
<1>8. todo'[p] = program /\ want'[p] = wanted /\ \A q \in Procs \ {p} : todo'[q] = todo[q] /\ want'[q] = want[q]
  BY <1>7 DEF Base, Control
<1>9. todo' \in [Procs -> Programs] /\ want' \in [Procs -> Wishes]
  BY <1>6, <1>7 DEF Base, Control
<1>10. QED
  BY <1>1, <1>8, <1>9

LEMMA RequestBase == ASSUME Base, NEW p \in Procs, Request(p) PROVE Base'
<1>1. Control' /\ Stored' /\ Kept'
  BY RequestIs DEF Base, Control, Stored, Kept
<1>2. Restoring'
  <2> SUFFICES ASSUME NEW q \in Procs, InTx(q)'
               PROVE  (\A i \in DOMAIN todo'[q] : todo'[q][i].do \in Restores) /\ Has(todo'[q], {"commit", "rollback"})
    BY DEF Restoring
  <2>1. InTx(q)
    BY RequestIs DEF InTx
  <2>2. (\A i \in DOMAIN todo[q] : todo[q][i].do \in Restores) /\ Has(todo[q], {"commit", "rollback"})
    BY <2>1 DEF Base, Restoring
  <2>3. todo[q] # <<>>
    BY <2>2 DEF Has
  <2>4. todo'[q] = todo[q]
    BY <2>3, RequestIs
  <2>5. QED
    BY <2>2, <2>4
<1>3. QED
  BY <1>1, <1>2 DEF Base

LEMMA ExpireIs ==
    ASSUME Base, Expire
    PROVE  /\ \/ all' = {} /\ stale' = stale \ {"all"} /\ UNCHANGED one
              \/ \E g \in Configs : /\ one' = [one EXCEPT ![g] = {}] /\ stale' = stale \ {g}
                                    /\ UNCHANGED all
           /\ UNCHANGED <<row, tx, files, todo, want, got, lost, dirty, calls, faults>>
BY DEF Expire, dbVars, envVars

LEMMA ExpireBase == ASSUME Base, Expire, UNCHANGED <<sourceVars, saved, running>> PROVE Base'
<1>1. Control' /\ Restoring'
  BY ExpireIs DEF Base, Control, Restoring, InTx
<1>2. Kept'
  BY ExpireIs DEF Base, Kept, sourceVars
<1>3. one' \in Tables /\ all' \in SUBSET Tables /\ stale' \in SUBSET (Configs \cup {"all"})
      /\ \A a, b \in all' : a = b
  <2>1. CASE all' = {} /\ stale' = stale \ {"all"} /\ UNCHANGED one
    BY <2>1 DEF Base, Stored
  <2>2. ASSUME NEW g \in Configs, one' = [one EXCEPT ![g] = {}], stale' = stale \ {g}, UNCHANGED all
        PROVE  one' \in Tables /\ all' \in SUBSET Tables /\ stale' \in SUBSET (Configs \cup {"all"})
               /\ \A a, b \in all' : a = b
    BY <2>2, TableWith DEF Base, Stored
  <2>3. QED
    BY <2>1, <2>2, ExpireIs
<1>4. Stored'
  BY <1>3, ExpireIs DEF Base, Stored
<1>5. QED
  BY <1>1, <1>2, <1>4 DEF Base

\* What an initial state has on disk and in its table.
Made(g, made) ==
    /\ row = [Nothing EXCEPT ![g] = {[broker |-> w.broker, path |-> Returned(g, w)] : w \in made}]
    /\ files = {g} \X UNION {w.cert : w \in made}
    /\ lost = (UNION {Named(w.path) : w \in made}) \ files
    /\ saved = [Nothing EXCEPT ![g] = {[w EXCEPT !.path = Returned(g, w)] : w \in made}]

LEMMA InitBase == Init => Base
<1> SUFFICES ASSUME Init PROVE Base
  OBVIOUS
<1>1. PICK g \in Configs, made \in {{}} \cup {{w} : w \in Bodies} : Made(g, made)
  BY DEF Init, Made
<1>2. /\ tx = {} /\ one = Nothing /\ all = {} /\ stale = {} /\ dirty = TRUE
      /\ todo = [p \in Procs |-> IF p = Boot THEN Initialize(CHOOSE c \in Configs : TRUE) ELSE <<>>]
      /\ want = [p \in Procs |-> Nothing] /\ got = [p \in Procs |-> Nothing]
      /\ calls = 0 /\ faults = 0 /\ sources = Nothing /\ clients = {} /\ running = FALSE
  BY DEF Init
<1>3. made \in SUBSET Wanted /\ \A a, b \in made : a = b
  BY GlobalConfigurationsAssumption
<1>4. row \in Tables
  <2> DEFINE Row1(w) == [broker |-> w.broker, path |-> Returned(g, w)]
  <2>1. ASSUME NEW w \in Wanted PROVE Row1(w) \in Row
    <3>1. w.broker \in Brokers \cup {"none"} /\ Returned(g, w) \in Paths
      BY PathsAre DEF Wanted
    <3>2. QED
      BY <3>1 DEF Row
  <2>2. row = [Nothing EXCEPT ![g] = {Row1(w) : w \in made}]
    BY <1>1 DEF Made
  <2> HIDE DEF Row1
  <2>3. {Row1(w) : w \in made} \in SUBSET Row /\ \A a, b \in {Row1(w) : w \in made} : a = b
    BY <1>3, <2>1
  <2>4. QED
    BY <2>2, <2>3, NothingIs, TableWith
<1>5. saved \in Wishes
  <2> DEFINE Saved(w) == [w EXCEPT !.path = Returned(g, w)]
  <2>1. ASSUME NEW w \in Wanted PROVE Saved(w) \in Wanted
    <3>1. Returned(g, w) \in Paths
      BY PathsAre
    <3>2. QED
      BY <3>1 DEF Wanted
  <2>2. saved = [Nothing EXCEPT ![g] = {Saved(w) : w \in made}]
    BY <1>1 DEF Made
  <2> HIDE DEF Saved
  <2>3. {Saved(w) : w \in made} \in SUBSET Wanted /\ \A a, b \in {Saved(w) : w \in made} : a = b
    BY <1>3, <2>1
  <2>4. QED
    BY <2>2, <2>3 DEF Nothing, Wishes
<1>6. files \in SUBSET (Configs \X Kinds) /\ lost \in SUBSET (Configs \X Kinds)
  <2>1. \A w \in made : w.cert \subseteq Kinds /\ Named(w.path) \subseteq Configs \X Kinds
    BY <1>3 DEF Wanted, Named
  <2>2. QED
    BY <1>1, <2>1 DEF Made
<1>7. Control
  <2>1. (CHOOSE c \in Configs : TRUE) \in Configs
    OBVIOUS
  <2>2. Initialize(CHOOSE c \in Configs : TRUE) \in Programs
    BY <2>1, ShortProgramsAre DEF Requested
  <2>3. QED
    BY <1>2, <2>2, NoProgram, NothingIs DEF Control
<1>8. Stored
  BY <1>2, <1>4, <1>6, NothingIs DEF Stored
<1>9. Kept
  BY <1>2, <1>5, NothingIs DEF Kept
<1>10. Restoring
  BY <1>2 DEF Restoring, InTx
<1>11. QED
  BY <1>7, <1>8, <1>9, <1>10 DEF Base

LEMMA NextBase == Base /\ [Next]_vars => Base'
<1> SUFFICES ASSUME Base, [Next]_vars PROVE Base'
  OBVIOUS
<1>1. CASE \E p \in Procs : SystemStep(p) \/ Fail(p) \/ Retry(p)
  BY <1>1, SystemStepBase, RetryBase
<1>2. CASE \E p \in Requests : Request(p)
  BY <1>2, RequestBase DEF Procs
<1>3. CASE Expire /\ UNCHANGED <<sourceVars, saved, running>>
  BY <1>3, ExpireBase
<1>4. CASE UNCHANGED vars
  BY <1>4 DEF vars, dbVars, cacheVars, ghostVars, envVars, sourceVars, Base, Control, Stored, Kept, Restoring, InTx
<1>5. QED
  BY <1>1, <1>2, <1>3, <1>4 DEF Next

LEMMA AlwaysBase == Spec => []Base
<1>1. QED
  BY InitBase, NextBase, PTL DEF Spec

\* Whatever calls overlap, throw or are tried again: there is at most one transaction, each id
\* has at most one row, and what a call has read, is to create or has yet to do is of the kind
\* that the service's types promise.
THEOREM ConfigTypes == Spec => []TypeOK
<1>1. QED
  BY AlwaysBase, BaseTypes, PTL

-----------------------------------------------------------------------------
(* Caches *)

\* Somebody has yet to drop a copy.
DropsOne(g) == \E q \in Procs : HasOn(todo[q], {"delOne"}, g) \/ Has(todo[q], {"clear"})
DropsAll == \E q \in Procs : Has(todo[q], {"delAll", "clear"})

OneAgrees(g) == one[g] = {} \/ g \in stale \/ DropsOne(g) \/ one[g] = row[g]
AllAgrees == all = {} \/ "all" \in stale \/ DropsAll \/ all = {row}
Agree == (\A g \in Configs : OneAgrees(g)) /\ AllAgrees

LEMMA AgreeIs == Agree <=> CachesAgree
<1>1. \A g \in Configs : DropsOne(g) <=> ~ \A p \in Procs : ~ PendingOn(p, {"delOne"}, g) /\ ~ Pending(p, {"clear"})
  BY DEF DropsOne, PendingOn, Pending, Has, HasOn
<1>2. DropsAll <=> ~ \A p \in Procs : ~ Pending(p, {"delAll", "clear"})
  BY DEF DropsAll, Pending, Has
<1>3. QED
  BY <1>1, <1>2 DEF Agree, OneAgrees, AllAgrees, CachesAgree

\* What the first step of a program owes is among the rest.
LEMMA FirstOwes ==
    ASSUME Base, NEW p \in Procs, todo[p] # <<>>
    PROVE  /\ Head(todo[p]).do \in {"insert", "update", "paths", "delete", "deleteAll"} => Has(Tail(todo[p]), {"delAll"})
           /\ Head(todo[p]).do \in {"update", "delete"} => HasOn(Tail(todo[p]), {"delOne"}, Subject(p))
           /\ Head(todo[p]).do = "commit" => Has(Tail(todo[p]), {"clear"})
           /\ Head(todo[p]).do = "emit" => Has(Tail(todo[p]), {"deleteAll"})
           /\ Head(todo[p]).do \in {"wipe", "disconnect", "query"} => Has(Tail(todo[p]), {"connect"})
<1> DEFINE s == todo[p]
<1>1. s \in Seq(Step) /\ s # <<>> /\ 1 \in DOMAIN s /\ Head(s) = s[1] /\ Owes(s, 1)
  BY ProgramOf DEF Base, Programs
<1>2. \A dos : Later(s, 1, dos) => Has(Tail(s), dos)
  BY <1>1, StillHas
<1>3. \A j \in DOMAIN s : j > 1 => j - 1 \in DOMAIN Tail(s) /\ Tail(s)[j - 1] = s[j]
  <2> SUFFICES ASSUME NEW j \in DOMAIN s, j > 1 PROVE j - 1 \in DOMAIN Tail(s) /\ Tail(s)[j - 1] = s[j]
    OBVIOUS
  <2>1. j - 1 \in DOMAIN Tail(s) /\ (j - 1) + 1 = j
    BY <1>1, Rest
  <2>2. QED
    BY <1>1, <2>1, Rest
<1>4. s[1].do \in {"update", "delete"} => HasOn(Tail(s), {"delOne"}, s[1].g)
  BY <1>1, <1>3 DEF Owes, HasOn
<1>5. QED
  BY <1>1, <1>2, <1>4 DEF Owes, Subject

\* Whoever throws leaves the copies that it was to drop known to be outdated.
LEMMA ThrowDrops ==
    ASSUME Base, NEW p \in Procs, Shortened(p), Throw(p)
    PROVE  /\ \A g \in Configs : DropsOne(g) => DropsOne(g)' \/ g \in stale'
           /\ DropsAll => DropsAll' \/ "all" \in stale'
<1>0. \A q \in Procs \ {p} : todo'[q] = todo[q]
  BY DEF Shortened
<1>1. stale' = stale \cup Abandoned(p)
  BY DEF Throw
<1>2. ASSUME NEW g \in Configs, HasOn(todo[p], {"delOne"}, g) \/ Has(todo[p], {"clear"})
      PROVE  g \in stale'
  BY <1>1, <1>2 DEF Abandoned, PendingOn, Pending, HasOn, Has
<1>3. ASSUME Has(todo[p], {"delAll", "clear"}) PROVE "all" \in stale'
  BY <1>1, <1>3 DEF Abandoned, Pending, Has
<1>4. ASSUME NEW g \in Configs, DropsOne(g) PROVE DropsOne(g)' \/ g \in stale'
  <2>1. PICK q \in Procs : HasOn(todo[q], {"delOne"}, g) \/ Has(todo[q], {"clear"})
    BY <1>4 DEF DropsOne
  <2>2. CASE q = p
    BY <1>2, <2>1, <2>2
  <2>3. CASE q # p
    BY <1>0, <2>1, <2>3 DEF DropsOne
  <2>4. QED
    BY <2>2, <2>3
<1>5. ASSUME DropsAll PROVE DropsAll' \/ "all" \in stale'
  <2>1. PICK q \in Procs : Has(todo[q], {"delAll", "clear"})
    BY <1>5 DEF DropsAll
  <2>2. CASE q = p
    BY <1>3, <2>1, <2>2
  <2>3. CASE q # p
    BY <1>0, <2>1, <2>3 DEF DropsAll
  <2>4. QED
    BY <2>2, <2>3
<1>6. QED
  BY <1>4, <1>5

\* A copy that somebody is to drop still is to be dropped, or known to be outdated, or is
\* dropped now.
LEMMA DropsKept ==
    ASSUME Base, NEW p \in Procs, Shortened(p), Moves(p)
    PROVE  /\ \A g \in Configs : DropsOne(g) /\ ~ Ahead(p, "clear") /\ ~ (Ahead(p, "delOne") /\ Subject(p) = g)
                 => DropsOne(g)' \/ g \in stale'
           /\ DropsAll /\ ~ Ahead(p, "clear") /\ ~ Ahead(p, "delAll") => DropsAll' \/ "all" \in stale'
<1>1. /\ todo[p] # <<>> /\ todo[p] \in Seq(Step) /\ todo[p] \in Programs /\ Head(todo[p]) = todo[p][1]
      /\ 1 \in DOMAIN todo[p] /\ \A q \in Procs \ {p} : todo'[q] = todo[q]
  BY ProgramOf DEF Shortened, Base
<1>2. CASE Throw(p)
  BY <1>2, ThrowDrops
<1>3. CASE Ahead(p, "getAll") \/ Ahead(p, "getOne")
  <2>1. \A i \in DOMAIN todo[p] : todo[p][i].do \in Reads
    BY <1>1, <1>3 DEF Ahead, Programs, Keeps
  <2>2. \A g : ~ HasOn(todo[p], {"delOne"}, g)
    BY <2>1 DEF HasOn, Reads
  <2>3. ~ Has(todo[p], {"clear"}) /\ ~ Has(todo[p], {"delAll", "clear"})
    BY <2>1 DEF Has, Reads
  <2>4. QED
    BY <1>1, <2>2, <2>3 DEF DropsOne, DropsAll
<1>4. CASE todo'[p] = Tail(todo[p])
  <2>1. ASSUME NEW g \in Configs, DropsOne(g), ~ Ahead(p, "clear"), ~ (Ahead(p, "delOne") /\ Subject(p) = g)
        PROVE  DropsOne(g)'
    <3>1. PICK q \in Procs : HasOn(todo[q], {"delOne"}, g) \/ Has(todo[q], {"clear"})
      BY <2>1 DEF DropsOne
    <3>2. CASE q = p
      <4>1. ~ (Head(todo[p]).do \in {"delOne"} /\ Head(todo[p]).g = g) /\ Head(todo[p]).do \notin {"clear"}
        BY <1>1, <2>1 DEF Ahead, Subject
      <4>2. HasOn(todo'[p], {"delOne"}, g) \/ Has(todo'[p], {"clear"})
        BY <1>1, <1>4, <3>1, <3>2, <4>1, StillHas
      <4>3. QED
        BY <4>2 DEF DropsOne
    <3>3. CASE q # p
      BY <1>1, <3>1, <3>3 DEF DropsOne
    <3>4. QED
      BY <3>2, <3>3
  <2>2. ASSUME DropsAll, ~ Ahead(p, "clear"), ~ Ahead(p, "delAll")
        PROVE  DropsAll'
    <3>1. PICK q \in Procs : Has(todo[q], {"delAll", "clear"})
      BY <2>2 DEF DropsAll
    <3>2. CASE q = p
      <4>1. Head(todo[p]).do \notin {"delAll", "clear"}
        BY <1>1, <2>2 DEF Ahead
      <4>2. Has(todo'[p], {"delAll", "clear"})
        BY <1>1, <1>4, <3>1, <3>2, <4>1, StillHas
      <4>3. QED
        BY <4>2 DEF DropsAll
    <3>3. CASE q # p
      BY <1>1, <3>1, <3>3 DEF DropsAll
    <3>4. QED
      BY <3>2, <3>3
  <2>3. QED
    BY <2>1, <2>2
<1>5. QED
  BY <1>2, <1>3, <1>4 DEF Moves

\* What a step does to one copy and to the list: it drops it, keeps it in order, or leaves it
\* alone, with the rows it is of.
OneKept(p, g) ==
    /\ one'[g] = one[g] /\ (row'[g] = row[g] \/ row[g] = {}) /\ (g \in stale => g \in stale')
    /\ ~ Ahead(p, "clear") /\ ~ (Ahead(p, "delOne") /\ Subject(p) = g)
OneSettled(p, g) ==
    \/ one'[g] = {} \/ g \in stale' \/ one'[g] = row'[g]
    \/ HasOn(todo'[p], {"delOne"}, g) \/ Has(todo'[p], {"clear"})
    \/ OneKept(p, g)
AllSettled(p) ==
    \/ all' = {} \/ "all" \in stale' \/ all' = {row'} \/ Has(todo'[p], {"delAll", "clear"})
    \/ all' = all /\ row' = row /\ ("all" \in stale => "all" \in stale') /\ ~ Ahead(p, "clear") /\ ~ Ahead(p, "delAll")
Settled(p) == (\A g \in Configs : OneSettled(p, g)) /\ AllSettled(p)

\* A step that leaves the caches and the table alone.
LEMMA NothingSettled ==
    ASSUME NEW p \in Procs, ~ Ahead(p, "clear"), ~ Ahead(p, "delAll"), ~ Ahead(p, "delOne"),
           UNCHANGED <<one, all, row>>, stale \subseteq stale'
    PROVE  Settled(p)
BY DEF Settled, OneSettled, OneKept, AllSettled

LEMMA ThrowSettled ==
    ASSUME NEW p \in Procs, ~ Ahead(p, "clear"), ~ Ahead(p, "delAll"), ~ Ahead(p, "delOne"), Throw(p)
    PROVE  Settled(p)
BY NothingSettled DEF Throw, cacheVars

\* A change of a row whose program drops the copy, or that had none to have a copy of.
LEMMA WriteSettled ==
    ASSUME Base, NEW p \in Procs, NEW g \in Configs, NEW new \in SUBSET Row, Wrote(p, g, new)
    PROVE  Settled(p)
<1> USE DEF Wrote
<1>1. todo'[p] = Tail(todo[p]) /\ todo[p] \in Seq(Step)
  BY Continues, ProgramOf DEF Proceed, Base
<1>2. ~ Ahead(p, "clear") /\ ~ Ahead(p, "delAll") /\ ~ Ahead(p, "delOne")
  BY DEF Ahead
<1>3. CASE InTx(p)
  <2>1. UNCHANGED row
    BY <1>3, WriteRowIs DEF InTransaction
  <2>2. QED
    BY <1>2, <2>1, NothingSettled
<1>4. CASE ~ InTx(p)
  <2>1. row' = [row EXCEPT ![g] = new] /\ Rows(p) = row
    BY <1>4, WriteRowIs DEF InTable
  <2>2. Has(todo'[p], {"delAll"})
    BY <1>1, FirstOwes
  <2>3. AllSettled(p)
    BY <2>2 DEF AllSettled, Has
  <2>4. \A c \in Configs \ {g} : OneSettled(p, c)
    BY <1>2, <2>1 DEF OneSettled, OneKept, Base, Stored, Tables
  <2>5. CASE Head(todo[p]).do \in {"update", "delete"}
    <3>1. HasOn(todo'[p], {"delOne"}, g)
      BY <1>1, <2>5, FirstOwes
    <3>2. QED
      BY <2>3, <2>4, <3>1 DEF Settled, OneSettled
  <2>6. CASE Rows(p)[g] = {} \/ one[g] = {} \/ g \in stale'
    <3>1. OneSettled(p, g)
      BY <1>2, <2>1, <2>6 DEF OneSettled, OneKept
    <3>2. QED
      BY <2>3, <2>4, <3>1 DEF Settled
  <2>7. CASE PendingOn(p, {"delOne"}, g)
    <3>1. HasOn(todo[p], {"delOne"}, g) /\ Head(todo[p]).do \notin {"delOne"}
      BY <2>7 DEF PendingOn, HasOn
    <3>2. HasOn(todo'[p], {"delOne"}, g)
      BY <1>1, <3>1, StillHas
    <3>3. QED
      BY <2>3, <2>4, <3>2 DEF Settled, OneSettled
  <2>8. QED
    BY <2>5, <2>6, <2>7
<1>5. QED
  BY <1>3, <1>4

LEMMA ConfigStepSettled == ASSUME Base, NEW p \in Procs, ConfigStep(p) PROVE Settled(p)
<1> DEFINE g == Subject(p)
<1>1. \A do : Ahead(p, do) => g \in Configs
  BY ProgramOf DEF Ahead, Base
<1>2. CASE Writes(p)
  <2>1. ~ Ahead(p, "clear") /\ ~ Ahead(p, "delAll") /\ ~ Ahead(p, "delOne")
    BY <1>2 DEF Writes, Insert, UpdateRow, SetPaths, Delete, Ahead
  <2>2. CASE Throw(p)
    BY <2>1, <2>2, ThrowSettled
  <2>3. CASE ~ Throw(p)
    BY <1>2, <2>3, WritesIs, WriteSettled
  <2>4. QED
    BY <2>2, <2>3
<1>3. CASE WriteFiles(p) \/ Find(p) \/ RemoveFiles(p) \/ Get(p) \/ Load(p)
  <2>1. UNCHANGED <<one, all, row, stale>> /\ ~ Ahead(p, "clear") /\ ~ Ahead(p, "delAll") /\ ~ Ahead(p, "delOne")
    BY <1>3 DEF WriteFiles, Find, RemoveFiles, Get, Load, dbVars, cacheVars, ghostVars, Ahead
  <2>2. QED
    BY <2>1, NothingSettled
<1>4. CASE DelAll(p)
  <2>1. all' = {} /\ UNCHANGED <<one, row>> /\ stale' = stale \ {"all"} /\ ~ Ahead(p, "clear") /\ ~ Ahead(p, "delOne")
    BY <1>4 DEF DelAll, Ahead, dbVars
  <2>2. \A c \in Configs : c # "all"
    BY GlobalConfigurationsAssumption
  <2>3. QED
    BY <2>1, <2>2 DEF Settled, OneSettled, OneKept, AllSettled
<1>5. CASE DelOne(p)
  <2>1. /\ g \in Configs /\ one' = [one EXCEPT ![g] = {}] /\ UNCHANGED <<all, row>> /\ stale' = stale \ {g}
        /\ ~ Ahead(p, "clear") /\ ~ Ahead(p, "delAll")
    BY <1>1, <1>5 DEF DelOne, Ahead, dbVars
  <2>2. g # "all"
    BY <2>1, GlobalConfigurationsAssumption
  <2>3. QED
    BY <2>1, <2>2 DEF Settled, OneSettled, OneKept, AllSettled, Base, Stored, Tables
<1>6. CASE SetAll(p)
  <2>1. /\ all' = {got[p]} /\ UNCHANGED <<one, row>> /\ Outdated(p, "all", got[p] # row)
        /\ ~ Ahead(p, "clear") /\ ~ Ahead(p, "delOne")
    BY <1>6 DEF SetAll, Ahead, dbVars
  <2>2. \A c \in Configs : c # "all"
    BY GlobalConfigurationsAssumption
  <2>3. QED
    BY <2>1, <2>2 DEF Settled, OneSettled, OneKept, AllSettled, Outdated
<1>7. CASE SetOne(p)
  <2>1. /\ g \in Configs /\ UNCHANGED <<all, row>>
        /\ ~ Ahead(p, "clear") /\ ~ Ahead(p, "delOne") /\ ~ Ahead(p, "delAll")
    BY <1>1, <1>7 DEF SetOne, Ahead, dbVars
  <2>2. CASE UNCHANGED <<one, stale>>
    BY <2>1, <2>2, NothingSettled
  <2>3. CASE one' = [one EXCEPT ![g] = got[p][g]] /\ Outdated(p, g, got[p][g] # row[g])
    <3>1. g # "all"
      BY <2>1, GlobalConfigurationsAssumption
    <3>2. AllSettled(p)
      BY <2>1, <2>3, <3>1 DEF AllSettled, Outdated
    <3>3. \A c \in Configs \ {g} : OneSettled(p, c)
      BY <2>1, <2>3 DEF OneSettled, OneKept, Outdated, Base, Stored, Tables
    <3>4. OneSettled(p, g)
      BY <2>1, <2>3 DEF OneSettled, Outdated, Base, Stored, Tables
    <3>5. QED
      BY <3>2, <3>3, <3>4 DEF Settled
  <2>4. QED
    BY <1>7, <2>2, <2>3 DEF SetOne
<1>8. QED
  BY <1>2, <1>3, <1>4, <1>5, <1>6, <1>7 DEF ConfigStep, Writes

LEMMA SystemStepSettled == ASSUME Base, NEW p \in Procs, SystemStep(p) PROVE Settled(p)
<1>1. CASE Begin(p) \/ Wipe(p) \/ Stop(p) \/ Start(p) \/ Emit(p) \/ RemoveCertificates(p) \/ ReadRows(p) \/ ReadFiles(p) \/ Query(p)
  <2>1. UNCHANGED <<one, all, row, stale>> /\ ~ Ahead(p, "clear") /\ ~ Ahead(p, "delAll") /\ ~ Ahead(p, "delOne")
    BY <1>1 DEF Begin, Wipe, Stop, Disconnect, Start, Emit, RemoveCertificates, ReadRows, ReadFiles, Query,
                dbVars, cacheVars, ghostVars, Ahead
  <2>2. QED
    BY <2>1, NothingSettled
<1>2. CASE Commit(p)
  <2>1. Has(todo'[p], {"clear"})
    BY <1>2, FirstOwes, Continues DEF Commit, Ahead, Proceed, Base
  <2>2. QED
    BY <2>1 DEF Settled, OneSettled, AllSettled, Has
<1>3. CASE Rollback(p)
  BY <1>3, ThrowSettled DEF Rollback, Ahead
<1>4. CASE Clear(p)
  BY <1>4 DEF Clear, Nothing, Settled, OneSettled, AllSettled
<1>5. CASE DeleteAll(p)
  <2>1. Has(todo'[p], {"delAll"})
    BY <1>5, FirstOwes, Continues DEF DeleteAll, Ahead, Proceed, Base
  <2>2. QED
    BY <1>5, <2>1 DEF Settled, OneSettled, AllSettled, Has, DeleteAll
<1>6. CASE Connect(p)
  <2>1. CASE Throw(p)
    BY <1>6, <2>1, ThrowSettled DEF Connect, Ahead
  <2>2. CASE ~ Throw(p)
    <3>1. UNCHANGED <<one, all, row, stale>> /\ ~ Ahead(p, "clear") /\ ~ Ahead(p, "delAll") /\ ~ Ahead(p, "delOne")
      BY <1>6, <2>2 DEF Connect, Ahead, dbVars, cacheVars
    <3>2. QED
      BY <3>1, NothingSettled
  <2>3. QED
    BY <2>1, <2>2
<1>7. CASE ConfigStep(p)
  BY <1>7, ConfigStepSettled
<1>8. QED
  BY <1>1, <1>2, <1>3, <1>4, <1>5, <1>6, <1>7 DEF SystemStep

LEMMA StepAgrees == ASSUME Base, Agree, NEW p \in Procs, SystemStep(p) \/ Fail(p) PROVE Agree'
<1>1. Shortened(p) /\ Moves(p)
  BY SystemStepAdvances, SystemStepMoves
<1>2. CASE Throw(p)
  <2>1. UNCHANGED <<one, all, row>> /\ stale \subseteq stale'
    BY <1>2 DEF Throw, cacheVars
  <2>2. \A g \in Configs : DropsOne(g) => DropsOne(g)' \/ g \in stale'
    BY <1>1, <1>2, ThrowDrops
  <2>3. DropsAll => DropsAll' \/ "all" \in stale'
    BY <1>1, <1>2, ThrowDrops
  <2>4. \A g \in Configs : OneAgrees(g)'
    BY <2>1, <2>2 DEF Agree, OneAgrees
  <2>5. AllAgrees'
    BY <2>1, <2>3 DEF Agree, AllAgrees
  <2>6. QED
    BY <2>4, <2>5 DEF Agree
<1>3. CASE SystemStep(p)
  <2>1. Settled(p)
    BY <1>3, SystemStepSettled
  <2>2. ASSUME NEW g \in Configs PROVE OneAgrees(g)'
    <3>1. OneSettled(p, g) /\ OneAgrees(g)
      BY <2>1 DEF Settled, Agree
    <3>2. HasOn(todo'[p], {"delOne"}, g) \/ Has(todo'[p], {"clear"}) => DropsOne(g)'
      BY DEF DropsOne
    <3>3. CASE ~ OneKept(p, g)
      BY <3>1, <3>2, <3>3 DEF OneSettled, OneAgrees
    <3>4. CASE OneKept(p, g)
      <4>1. DropsOne(g) => DropsOne(g)' \/ g \in stale'
        BY <1>1, <3>4, DropsKept DEF OneKept
      <4>2. QED
        BY <3>1, <3>4, <4>1 DEF OneKept, OneAgrees
    <3>5. QED
      BY <3>3, <3>4
  <2>3. AllAgrees'
    <3>1. AllSettled(p) /\ AllAgrees
      BY <2>1 DEF Settled, Agree
    <3>2. Has(todo'[p], {"delAll", "clear"}) => DropsAll'
      BY DEF DropsAll
    <3>3. ~ Ahead(p, "clear") /\ ~ Ahead(p, "delAll") => (DropsAll => DropsAll' \/ "all" \in stale')
      BY <1>1, DropsKept
    <3>4. QED
      BY <3>1, <3>2, <3>3 DEF AllSettled, AllAgrees
  <2>4. QED
    BY <2>2, <2>3 DEF Agree
<1>4. CASE Fail(p)
  BY <1>2, <1>4 DEF Fail
<1>5. QED
  BY <1>3, <1>4

\* A restore that starts again drops what it was to drop.
LEMMA RetryAgrees == ASSUME Base, Agree, NEW p \in Procs, Retry(p) PROVE Agree'
<1>1. /\ InTx(p) /\ todo[p] # <<>> /\ Has(todo'[p], {"delAll"})
      /\ Pending(p, {"rollback"}) \/ Has(todo'[p], {"clear"})
      /\ \A q \in Procs \ {p} : todo'[q] = todo[q]
      /\ UNCHANGED <<row, one, all, stale>>
  BY RetryIs
<1>2. todo[p] \in Programs /\ \A i \in DOMAIN todo[p] : todo[p][i].do \in Restores
  BY <1>1, ProgramOf DEF Base, Restoring
<1>3. \A g : ~ HasOn(todo[p], {"delOne"}, g)
  BY <1>2 DEF HasOn, Restores, Creates, Initializes
<1>4. Has(todo[p], {"clear"}) => Has(todo'[p], {"clear"})
  BY <1>1, <1>2 DEF Has, Pending, Programs, Keeps, Initializes
<1>5. ASSUME NEW g \in Configs PROVE OneAgrees(g)'
  <2>1. DropsOne(g) => DropsOne(g)'
    <3> SUFFICES ASSUME NEW q \in Procs, HasOn(todo[q], {"delOne"}, g) \/ Has(todo[q], {"clear"})
                 PROVE  DropsOne(g)'
      BY DEF DropsOne
    <3>1. CASE q = p
      BY <1>3, <1>4, <3>1 DEF DropsOne
    <3>2. CASE q # p
      BY <1>1, <3>2 DEF DropsOne
    <3>3. QED
      BY <3>1, <3>2
  <2>2. QED
    BY <1>1, <2>1 DEF Agree, OneAgrees
<1>6. DropsAll'
  BY <1>1 DEF DropsAll, Has
<1>7. QED
  BY <1>5, <1>6 DEF Agree, AllAgrees

LEMMA RequestAgrees == ASSUME Base, Agree, NEW p \in Procs, Request(p) PROVE Agree'
<1>1. /\ todo[p] = <<>> /\ \A q \in Procs \ {p} : todo'[q] = todo[q]
      /\ UNCHANGED <<row, one, all, stale>>
  BY RequestIs
<1>2. ~ Has(todo[p], {"clear"}) /\ ~ Has(todo[p], {"delAll", "clear"}) /\ \A g : ~ HasOn(todo[p], {"delOne"}, g)
  BY <1>1 DEF Has, HasOn
<1>3. ASSUME NEW g \in Configs PROVE OneAgrees(g)'
  <2>1. ASSUME DropsOne(g) PROVE DropsOne(g)'
    <3>1. PICK q \in Procs : HasOn(todo[q], {"delOne"}, g) \/ Has(todo[q], {"clear"})
      BY <2>1 DEF DropsOne
    <3>2. todo'[q] = todo[q]
      BY <1>1, <1>2, <3>1
    <3>3. QED
      BY <3>1, <3>2 DEF DropsOne
  <2>2. QED
    BY <1>1, <2>1 DEF Agree, OneAgrees
<1>4. AllAgrees'
  <2>1. DropsAll => DropsAll'
    BY <1>1, <1>2 DEF DropsAll
  <2>2. QED
    BY <1>1, <2>1 DEF Agree, AllAgrees
<1>5. QED
  BY <1>3, <1>4 DEF Agree

LEMMA ExpireAgrees == ASSUME Base, Agree, Expire PROVE Agree'
<1>1. UNCHANGED <<row, todo>>
  BY ExpireIs
<1>2. (\A g \in Configs : DropsOne(g) <=> DropsOne(g)') /\ (DropsAll <=> DropsAll')
  BY <1>1 DEF DropsOne, DropsAll
<1>3. \A c \in Configs : c # "all"
  BY GlobalConfigurationsAssumption
<1>4. CASE all' = {} /\ stale' = stale \ {"all"} /\ UNCHANGED one
  <2>1. AllAgrees'
    BY <1>4 DEF AllAgrees
  <2>2. \A g \in Configs : OneAgrees(g)'
    BY <1>1, <1>2, <1>3, <1>4 DEF Agree, OneAgrees
  <2>3. QED
    BY <2>1, <2>2 DEF Agree
<1>5. ASSUME NEW g \in Configs, one' = [one EXCEPT ![g] = {}], stale' = stale \ {g}, UNCHANGED all
      PROVE  Agree'
  <2>1. AllAgrees'
    BY <1>1, <1>2, <1>3, <1>5 DEF Agree, AllAgrees
  <2>2. \A c \in Configs : c # g => one'[c] = one[c]
    BY <1>5 DEF Base, Stored, Tables
  <2>3. one'[g] = {}
    BY <1>5 DEF Base, Stored, Tables
  <2>4. \A c \in Configs : OneAgrees(c)'
    BY <1>1, <1>2, <1>5, <2>2, <2>3 DEF Agree, OneAgrees
  <2>5. QED
    BY <2>1, <2>4 DEF Agree
<1>6. QED
  BY <1>4, <1>5, ExpireIs

LEMMA NextAgrees == Base /\ Agree /\ [Next]_vars => Agree'
<1> SUFFICES ASSUME Base, Agree, [Next]_vars PROVE Agree'
  OBVIOUS
<1>1. CASE \E p \in Procs : SystemStep(p) \/ Fail(p) \/ Retry(p)
  BY <1>1, StepAgrees, RetryAgrees
<1>2. CASE \E p \in Requests : Request(p)
  BY <1>2, RequestAgrees DEF Procs
<1>3. CASE Expire /\ UNCHANGED <<sourceVars, saved, running>>
  BY <1>3, ExpireAgrees
<1>4. CASE UNCHANGED vars
  BY <1>4 DEF vars, dbVars, cacheVars, ghostVars, Agree, OneAgrees, AllAgrees, DropsOne, DropsAll
<1>5. QED
  BY <1>1, <1>2, <1>3, <1>4 DEF Next

\* Whatever calls overlap, are tried again or fail at any step: a cached configuration, and
\* the cached list, are what the database has, unless a call has yet to drop the copy or the
\* copy is known to be outdated, by a read before a change that was stored after it, by a
\* call that failed on the way, or by a reset or the second write of a create.
THEOREM CachesAlwaysAgree == Spec => []CachesAgree
<1>1. Init => Agree
  BY DEF Init, Agree, OneAgrees, AllAgrees, Nothing
<1>2. Spec => []Agree
  BY <1>1, AlwaysBase, NextAgrees, PTL DEF Spec
<1>3. QED
  BY <1>2, AgreeIs, PTL

-----------------------------------------------------------------------------
(* Certificates *)

\* The files that were on disk, and those that a client named before they were: what is
\* known of them is never forgotten.
Written == files \cup lost

\* Rows that name no other files, and the data sources whose request has all its contents on
\* disk, or has had all its paths named.
Firm(rows, written) == \A g \in Configs : \A r \in rows[g] : Named(r.path) \subseteq written
Given(wanted, written) == {g \in Configs : \A w \in wanted[g] : {g} \X w.cert \subseteq written}
Certed(p) == Given(want[p], Written)
Announced(p) == {g \in Configs : \A w \in want[p][g] : Named(w.path) \subseteq Written}

Ready(p) ==
    /\ Preceded(todo[p], {"write"}, Certed(p))
    /\ Preceded(todo[p], {"insert", "update"}, Announced(p))

Founded ==
    /\ Firm(row, Written) /\ \A t \in tx : Firm(t.rows, Written)
    /\ \A p \in Procs : Ready(p)

LEMMA FoundedKeepsCerts == Founded => CertsKept
BY DEF Founded, Firm, CertsKept, Written

LEMMA FirmMore ==
    ASSUME NEW rows, NEW small, NEW big, small \subseteq big, Firm(rows, small)
    PROVE  Firm(rows, big)
BY DEF Firm

LEMMA NothingFirm == ASSUME NEW written PROVE Firm(Nothing, written)
BY DEF Firm, Nothing

\* What is named after paths were put over others.
LEMMA NamedIs ==
    /\ \A a, b \in Paths : Named(Over(a, b)) \subseteq Named(a) \cup Named(b)
    /\ \A g \in Configs, w \in Wanted : Named(Returned(g, w)) \subseteq ({g} \X w.cert) \cup Named(w.path)
<1>1. ASSUME NEW a \in Paths, NEW b \in Paths, NEW f \in Named(Over(a, b))
      PROVE  f \in Named(a) \cup Named(b)
  <2>1. f \in Configs \X Kinds /\ f[2] \in Kinds /\ Over(a, b)[f[2]] = f[1]
    BY DEF Named
  <2>2. a[f[2]] = f[1] \/ b[f[2]] = f[1]
    BY <2>1 DEF Over
  <2>3. QED
    BY <2>1, <2>2 DEF Named
<1>2. ASSUME NEW g \in Configs, NEW w \in Wanted, NEW f \in Named(Returned(g, w))
      PROVE  f \in ({g} \X w.cert) \cup Named(w.path)
  <2>1. f \in Configs \X Kinds /\ f[2] \in Kinds /\ Returned(g, w)[f[2]] = f[1] /\ f = <<f[1], f[2]>>
    BY DEF Named
  <2>2. CASE f[2] \in w.cert
    <3>1. f[1] = g
      BY <2>1, <2>2 DEF Returned
    <3>2. QED
      BY <2>1, <2>2, <3>1
  <2>3. CASE f[2] \notin w.cert
    <3>1. w.path[f[2]] = f[1]
      BY <2>1, <2>3 DEF Returned
    <3>2. QED
      BY <2>1, <3>1 DEF Named
  <2>4. QED
    BY <2>2, <2>3
<1>3. QED
  BY <1>1, <1>2

LEMMA PrecededMore ==
    ASSUME NEW s, NEW dos, NEW small, NEW big, small \subseteq big, Preceded(s, dos, small)
    PROVE  Preceded(s, dos, big)
BY DEF Preceded

\* A program whose first step is done follows what this step did.
LEMMA PrecededRest ==
    ASSUME NEW s \in Seq(Step), s # <<>>, NEW dos, NEW small, NEW big, small \subseteq big,
           Preceded(s, dos, small), Head(s).do \in dos => Head(s).g \in big
    PROVE  Preceded(Tail(s), dos, big)
<1> DEFINE r == Tail(s)
<1>1. /\ \A i \in DOMAIN r : i \in Nat /\ i >= 1 /\ i + 1 \in DOMAIN s /\ r[i] = s[i + 1]
      /\ \A j \in DOMAIN s : j \in Nat /\ (j = 1 \/ (j - 1 \in DOMAIN r /\ (j - 1) + 1 = j))
      /\ Head(s) = s[1]
  BY Rest
<1> HIDE DEF r
<1>2. \A j \in DOMAIN s : j = 1 \/ (j - 1 \in DOMAIN r /\ r[j - 1] = s[j])
  BY <1>1
<1>3. ASSUME NEW i \in DOMAIN r, r[i].do = "paths"
      PROVE  r[i].g \in big \/ \E j \in DOMAIN r : j < i /\ r[j].do \in dos /\ r[j].g = r[i].g
  <2>1. i \in Nat /\ i + 1 \in DOMAIN s /\ r[i] = s[i + 1]
    BY <1>1
  <2>2. \/ s[i + 1].g \in small
        \/ \E j \in DOMAIN s : j < i + 1 /\ s[j].do \in dos /\ s[j].g = s[i + 1].g
    BY <1>3, <2>1 DEF Preceded
  <2>3. CASE s[i + 1].g \in small
    BY <2>1, <2>3
  <2>4. ASSUME NEW j \in DOMAIN s, j < i + 1, s[j].do \in dos, s[j].g = s[i + 1].g
        PROVE  r[i].g \in big \/ \E k \in DOMAIN r : k < i /\ r[k].do \in dos /\ r[k].g = r[i].g
    <3>1. CASE j = 1
      BY <1>1, <2>1, <2>4, <3>1
    <3>2. CASE j # 1
      <4>1. j - 1 \in DOMAIN r /\ r[j - 1] = s[j] /\ j - 1 < i
        BY <1>1, <1>2, <2>1, <2>4, <3>2
      <4>2. QED
        BY <2>1, <2>4, <4>1
    <3>3. QED
      BY <3>1, <3>2
  <2>5. QED
    BY <2>2, <2>3, <2>4
<1>4. QED
  BY <1>3 DEF Preceded, r

\* What processes remember of their requests after a step, they remembered before.
Remembers == \A q \in Procs : want'[q] \in {want[q], Nothing}

LEMMA ContinueRemembers ==
    ASSUME Base, NEW p \in Procs, todo[p] # <<>>, NEW rest \in {Tail(todo[p]), <<>>}, Continue(p, rest)
    PROVE  Remembers
BY Continues DEF Remembers, Base

LEMMA QueryRemembers ==
    ASSUME UNCHANGED want
    PROVE  Remembers
BY DEF Remembers

LEMMA StepRemembers == ASSUME Base, NEW p \in Procs, SystemStep(p) \/ Fail(p) PROVE Remembers
<1>1. CASE Find(p) \/ Load(p) \/ ReadRows(p) \/ Query(p)
  BY <1>1, QueryRemembers DEF Find, Load, ReadRows, Query
<1>2. CASE Get(p)
  <2>1. todo[p] # <<>> /\ (Continue(p, Tail(todo[p])) \/ Continue(p, <<>>))
    BY <1>2 DEF Get, Ahead
  <2>2. QED
    BY <2>1, ContinueRemembers
<1>3. CASE /\ ConfigStep(p)
           /\ ~ (Find(p) \/ Load(p) \/ Get(p))
  <2>1. todo[p] # <<>> /\ (Proceed(p) \/ Throw(p))
    BY <1>3 DEF ConfigStep, Insert, UpdateRow, WriteFiles, SetPaths, Delete, RemoveFiles, DelAll, DelOne, SetAll,
                SetOne, Ahead
  <2>2. QED
    BY <2>1, ContinueRemembers DEF Proceed, Throw
<1>4. CASE \/ Begin(p) \/ Commit(p) \/ Rollback(p) \/ Wipe(p) \/ Clear(p) \/ Stop(p) \/ Start(p) \/ Emit(p)
           \/ DeleteAll(p) \/ RemoveCertificates(p) \/ ReadFiles(p) \/ Connect(p) \/ Fail(p)
  <2>1. todo[p] # <<>> /\ (Proceed(p) \/ Throw(p))
    BY <1>4 DEF Begin, Commit, Rollback, Wipe, Clear, Stop, Disconnect, Start, Emit, DeleteAll, RemoveCertificates,
                ReadFiles, Connect, Fail, Idle, Ahead
  <2>2. QED
    BY <2>1, ContinueRemembers DEF Proceed, Throw
<1>5. QED
  BY <1>1, <1>2, <1>3, <1>4 DEF SystemStep

\* A step forgets no file, puts in rows what is known of files alone, and makes known what its
\* request is about.
FirmRows == Firm(row, Written) /\ \A t \in tx : Firm(t.rows, Written)
Grounds(p) ==
    /\ Written \subseteq Written' /\ FirmRows'
    /\ Ahead(p, "write") => Subject(p) \in Certed(p)'
    /\ Ahead(p, "insert") \/ Ahead(p, "update") => Subject(p) \in Announced(p)'

Unfounding(p) == Ahead(p, "write") \/ Ahead(p, "insert") \/ Ahead(p, "update")

LEMMA SameGrounds ==
    ASSUME Founded, NEW p \in Procs, ~ Unfounding(p), UNCHANGED row, tx' \subseteq tx, Written \subseteq Written'
    PROVE  Grounds(p)
<1>1. Firm(row, Written') /\ \A t \in tx' : Firm(t.rows, Written')
  BY FirmMore DEF Founded
<1>2. QED
  BY <1>1 DEF Grounds, FirmRows, Unfounding

LEMMA ThrowGrounds == ASSUME Base, Founded, NEW p \in Procs, todo[p] # <<>>, Throw(p) PROVE Grounds(p)
<1>1. UNCHANGED <<row, files, lost>> /\ tx' \subseteq tx /\ want' = [want EXCEPT ![p] = Nothing]
  BY DEF Throw, Continue
<1>2. Written' = Written /\ FirmRows'
  BY <1>1 DEF Written, FirmRows, Founded
<1>3. Subject(p) \in Configs /\ want'[p] = Nothing
  BY <1>1, ProgramOf DEF Base, Control
<1>4. Subject(p) \in Certed(p)' /\ Subject(p) \in Announced(p)'
  BY <1>3 DEF Certed, Given, Announced, Nothing
<1>5. QED
  BY <1>2, <1>4 DEF Grounds

\* A changed row that names nothing unknown.
LEMMA WriteFirm ==
    ASSUME Base, Founded, NEW p \in Procs, NEW g \in Configs, NEW new \in SUBSET Row, \A a, b \in new : a = b,
           WriteRow(p, g, new), Written \subseteq Written', \A r \in new : Named(r.path) \subseteq Written'
    PROVE  FirmRows'
<1>1. Firm(row, Written) /\ Firm(Rows(p), Written) /\ \A t \in tx : Firm(t.rows, Written)
  BY RowsAre DEF Founded
<1>2. Firm(row, Written') /\ \A t \in tx : Firm(t.rows, Written')
  BY <1>1, FirmMore
<1>3. Rows(p) \in Tables
  BY RowsAre
<1>4. Firm([Rows(p) EXCEPT ![g] = new], Written')
  <2>1. ASSUME NEW c \in Configs, NEW r \in [Rows(p) EXCEPT ![g] = new][c]
        PROVE  Named(r.path) \subseteq Written'
    <3>1. CASE c = g
      <4>1. r \in new
        BY <1>3, <2>1, <3>1 DEF Tables
      <4>2. QED
        BY <4>1
    <3>2. CASE c # g
      <4>1. r \in Rows(p)[c]
        BY <1>3, <2>1, <3>2 DEF Tables
      <4>2. QED
        BY <1>1, <4>1 DEF Firm
    <3>3. QED
      BY <3>1, <3>2
  <2>2. QED
    BY <2>1 DEF Firm
<1>5. CASE InTx(p)
  <2>1. UNCHANGED row /\ \A u \in tx' : u.rows = [Rows(p) EXCEPT ![g] = new]
    BY <1>5, WriteRowIs DEF InTransaction
  <2>2. QED
    BY <1>2, <1>4, <2>1 DEF FirmRows
<1>6. CASE ~ InTx(p)
  <2>1. row' = [Rows(p) EXCEPT ![g] = new] /\ UNCHANGED tx
    BY <1>6, WriteRowIs DEF InTable
  <2>2. QED
    BY <1>2, <1>4, <2>1 DEF FirmRows
<1>7. QED
  BY <1>5, <1>6

\* The paths of a request become known with the row.
LEMMA NamesGround ==
    ASSUME Base, Remembers, NEW p \in Procs, NEW g \in Configs, NEW w \in want[p][g], ClientNames(w), UNCHANGED files
    PROVE  /\ Written' = Written \cup Named(w.path)
           /\ g \in Announced(p)'
<1>1. Written' = Written \cup Named(w.path)
  BY DEF ClientNames, Written
<1>2. want[p][g] = {w}
  BY DEF Base, Control, Wishes
<1>3. want'[p][g] \subseteq {w}
  BY <1>2 DEF Remembers, Nothing
<1>4. QED
  BY <1>1, <1>3 DEF Announced

\* The steps that write a row.
LEMMA InsertGrounds == ASSUME Base, Founded, Remembers, NEW p \in Procs, Insert(p) PROVE Grounds(p)
<1> DEFINE g == Subject(p)
<1>1. todo[p] # <<>> /\ g \in Configs /\ ~ Ahead(p, "write")
  BY ProgramOf DEF Insert, Ahead, Base
<1>2. CASE Throw(p)
  BY <1>1, <1>2, ThrowGrounds
<1>3. CASE ~ Throw(p)
  <2>1. PICK w \in want[p][g] : WriteRow(p, g, {NewRow(w)}) /\ ClientNames(w)
    BY <1>3 DEF Insert
  <2>2. UNCHANGED files
    BY <1>3 DEF Insert
  <2>3. Written' = Written \cup Named(w.path) /\ g \in Announced(p)'
    BY <1>1, <2>1, <2>2, NamesGround
  <2>4. w \in Wanted
    BY <1>1, <2>1 DEF Base, Control, Wishes
  <2>5. NewRow(w) \in Row /\ NewRow(w).path = w.path
    BY <2>4, RowsWritten DEF NewRow
  <2>6. FirmRows'
    BY <1>1, <2>1, <2>3, <2>5, WriteFirm
  <2>7. QED
    BY <1>1, <2>3, <2>6 DEF Grounds
<1>4. QED
  BY <1>2, <1>3

LEMMA UpdateGrounds == ASSUME Base, Founded, Remembers, NEW p \in Procs, UpdateRow(p) PROVE Grounds(p)
<1> DEFINE g == Subject(p)
<1>1. todo[p] # <<>> /\ g \in Configs /\ ~ Ahead(p, "write")
  BY ProgramOf DEF UpdateRow, Ahead, Base
<1>2. CASE Throw(p)
  BY <1>1, <1>2, ThrowGrounds
<1>3. CASE ~ Throw(p)
  <2>1. PICK w \in want[p][g] : WriteRow(p, g, {Changed(r, w) : r \in row[g]}) /\ ClientNames(w)
    BY <1>3 DEF UpdateRow
  <2>2. UNCHANGED files
    BY <1>3 DEF UpdateRow
  <2>3. Written' = Written \cup Named(w.path) /\ g \in Announced(p)'
    BY <1>1, <2>1, <2>2, NamesGround
  <2>4. w \in Wanted /\ w.path \in Paths
    BY <1>1, <2>1 DEF Base, Control, Wishes, Wanted
  <2> DEFINE new == {Changed(r, w) : r \in row[g]}
  <2>5. row[g] \in SUBSET Row /\ \A a, b \in row[g] : a = b
    BY <1>1 DEF Base, Stored, Tables
  <2>6. new \in SUBSET Row /\ \A a, b \in new : a = b
    BY <2>4, <2>5, RowsWritten
  <2>7. ASSUME NEW r \in row[g] PROVE Named(Changed(r, w).path) \subseteq Written'
    <3>1. Changed(r, w).path = Over(w.path, r.path)
      BY DEF Changed
    <3>2. r.path \in Paths
      BY <2>5 DEF Row
    <3>3. Named(Over(w.path, r.path)) \subseteq Named(w.path) \cup Named(r.path)
      BY <2>4, <3>2, NamedIs
    <3>4. Named(r.path) \subseteq Written
      BY <1>1 DEF Founded, Firm
    <3>5. QED
      BY <2>3, <3>1, <3>3, <3>4
  <2>8. \A r \in new : Named(r.path) \subseteq Written'
    BY <2>7
  <2>9. WriteRow(p, g, new)
    BY <2>1
  <2> HIDE DEF new
  <2>10. FirmRows'
    BY <1>1, <2>3, <2>6, <2>8, <2>9, WriteFirm
  <2>11. QED
    BY <1>1, <2>3, <2>10 DEF Grounds
<1>4. QED
  BY <1>2, <1>3

LEMMA SetPathsGrounds == ASSUME Base, Founded, NEW p \in Procs, SetPaths(p) PROVE Grounds(p)
<1> DEFINE g == Subject(p)
<1>1. /\ todo[p] # <<>> /\ g \in Configs /\ ~ Unfounding(p)
      /\ todo[p][1].do = "paths" /\ todo[p][1].g = g /\ 1 \in DOMAIN todo[p]
  BY ProgramOf DEF SetPaths, Ahead, Base, Unfounding, Subject
<1>2. CASE Throw(p)
  BY <1>1, <1>2, ThrowGrounds
<1>3. CASE ~ Throw(p)
  <2>1. PICK w \in want[p][g] :
            WriteRow(p, g, {[r EXCEPT !.path = Over(Returned(g, w), @)] : r \in Rows(p)[g]})
    BY <1>3 DEF SetPaths
  <2>2. UNCHANGED <<files, lost>>
    BY <1>3 DEF SetPaths
  <2>3. Written' = Written
    BY <2>2 DEF Written
  <2>4. w \in Wanted
    BY <1>1, <2>1 DEF Base, Control, Wishes
  <2>5. g \in Certed(p) /\ g \in Announced(p)
    <3>1. Preceded(todo[p], {"write"}, Certed(p)) /\ Preceded(todo[p], {"insert", "update"}, Announced(p))
      BY DEF Founded, Ready
    <3>2. \A j \in DOMAIN todo[p] : ~ (j < 1)
      BY <1>1, ProgramOf, Rest DEF Base
    <3>3. QED
      BY <1>1, <3>1, <3>2 DEF Preceded
  <2>6. Named(Returned(g, w)) \subseteq Written
    <3>1. {g} \X w.cert \subseteq Written /\ Named(w.path) \subseteq Written
      BY <2>1, <2>5 DEF Certed, Given, Announced
    <3>2. Named(Returned(g, w)) \subseteq ({g} \X w.cert) \cup Named(w.path)
      BY <1>1, <2>4, NamedIs
    <3>3. QED
      BY <3>1, <3>2
  <2> DEFINE New(r) == [r EXCEPT !.path = Over(Returned(g, w), @)]
             new == {New(r) : r \in Rows(p)[g]}
  <2>7. Rows(p)[g] \in SUBSET Row /\ \A a, b \in Rows(p)[g] : a = b
    BY <1>1, RowsAre DEF Tables
  <2>8. \A r \in Row : New(r) \in Row /\ New(r).path = Over(Returned(g, w), r.path)
    <3>1. \A r \in Row : New(r) \in Row
      BY <1>1, <2>4, RowsWritten
    <3>2. \A r \in Row : New(r).path = Over(Returned(g, w), r.path)
      BY DEF Row
    <3>3. QED
      BY <3>1, <3>2
  <2>9. WriteRow(p, g, new)
    BY <2>1
  <2> HIDE DEF New
  <2>10. new \in SUBSET Row /\ \A a, b \in new : a = b
    BY <2>7, <2>8
  <2>11. ASSUME NEW r \in Rows(p)[g] PROVE Named(New(r).path) \subseteq Written'
    <3>1. r \in Row /\ r.path \in Paths /\ Returned(g, w) \in Paths
      BY <1>1, <2>4, <2>7, PathsAre DEF Row
    <3>2. Named(Over(Returned(g, w), r.path)) \subseteq Named(Returned(g, w)) \cup Named(r.path)
      BY <3>1, NamedIs
    <3>3. Firm(Rows(p), Written)
      BY RowsAre DEF Founded
    <3>4. Named(r.path) \subseteq Written
      BY <1>1, <3>3 DEF Firm
    <3>5. QED
      BY <2>3, <2>6, <2>8, <3>1, <3>2, <3>4
  <2>12. \A r \in new : Named(r.path) \subseteq Written'
    BY <2>11
  <2> HIDE DEF new
  <2>13. FirmRows'
    BY <1>1, <2>3, <2>9, <2>10, <2>12, WriteFirm
  <2>14. QED
    BY <1>1, <2>3, <2>13 DEF Grounds, Unfounding
<1>4. QED
  BY <1>2, <1>3

LEMMA ConfigStepGrounds == ASSUME Base, Founded, Remembers, NEW p \in Procs, ConfigStep(p) PROVE Grounds(p)
<1> DEFINE g == Subject(p)
<1>1. \A do : Ahead(p, do) => todo[p] # <<>> /\ g \in Configs
  BY ProgramOf DEF Ahead, Base
<1>2. CASE Insert(p) \/ UpdateRow(p) \/ SetPaths(p)
  BY <1>2, InsertGrounds, UpdateGrounds, SetPathsGrounds
<1>3. CASE WriteFiles(p)
  <2> DEFINE new == {g} \X UNION {w.cert : w \in want[p][g]}
  <2>1. files' = files \cup new /\ lost' = lost \ new /\ UNCHANGED <<row, tx>> /\ g \in Configs
    BY <1>1, <1>3 DEF WriteFiles, dbVars
  <2>2. \A w \in want[p][g] : {g} \X w.cert \subseteq new
    OBVIOUS
  <2> HIDE DEF new
  <2>3. Written' = Written \cup new
    BY <2>1 DEF Written
  <2>4. want'[p][g] \subseteq want[p][g]
    BY <2>1 DEF Remembers, Nothing
  <2>5. g \in Certed(p)'
    BY <2>1, <2>2, <2>3, <2>4 DEF Certed, Given
  <2>6. FirmRows'
    BY <2>1, <2>3, FirmMore DEF FirmRows, Founded
  <2>7. ~ Ahead(p, "insert") /\ ~ Ahead(p, "update")
    BY <1>3 DEF WriteFiles, Ahead
  <2>8. QED
    BY <2>3, <2>5, <2>6, <2>7 DEF Grounds
<1>4. CASE Delete(p)
  <2>1. CASE Throw(p)
    BY <1>1, <1>4, <2>1, ThrowGrounds DEF Delete
  <2>2. CASE ~ Throw(p)
    <3>1. g \in Configs /\ WriteRow(p, g, {}) /\ UNCHANGED <<files, lost>> /\ ~ Unfounding(p)
      BY <1>1, <1>4, <2>2 DEF Delete, Ahead, Unfounding
    <3>2. Written' = Written
      BY <3>1 DEF Written
    <3>3. FirmRows'
      BY <3>1, <3>2, WriteFirm
    <3>4. QED
      BY <3>1, <3>2, <3>3 DEF Grounds, Unfounding
  <2>3. QED
    BY <2>1, <2>2
<1>5. CASE RemoveFiles(p)
  <2>1. /\ UNCHANGED <<row, tx>> /\ ~ Unfounding(p)
        /\ \E gone : files' = files \ gone /\ lost' = lost \cup gone
    BY <1>5 DEF RemoveFiles, dbVars, Ahead, Unfounding
  <2>2. Written \subseteq Written'
    BY <2>1 DEF Written
  <2>3. QED
    BY <2>1, <2>2, SameGrounds
<1>6. CASE Find(p) \/ DelAll(p) \/ DelOne(p) \/ Get(p) \/ Load(p) \/ SetAll(p) \/ SetOne(p)
  <2>1. UNCHANGED <<row, tx, files, lost>> /\ ~ Unfounding(p)
    BY <1>6 DEF Find, DelAll, DelOne, Get, Load, SetAll, SetOne, dbVars, ghostVars, Ahead, Unfounding
  <2>2. QED
    BY <2>1, SameGrounds DEF Written
<1>7. QED
  BY <1>2, <1>3, <1>4, <1>5, <1>6 DEF ConfigStep

LEMMA SystemStepGrounds ==
    ASSUME Base, Founded, Remembers, NEW p \in Procs, SystemStep(p) \/ Fail(p)
    PROVE  Grounds(p)
<1>1. CASE Begin(p)
  <2>1. /\ tx' = {[by |-> p, rows |-> Nothing]} /\ UNCHANGED <<row, files, lost>> /\ ~ Unfounding(p)
    BY <1>1 DEF Begin, ghostVars, Ahead, Unfounding
  <2>2. Written' = Written
    BY <2>1 DEF Written
  <2>3. FirmRows'
    BY <2>1, <2>2, NothingFirm DEF FirmRows, Founded
  <2>4. QED
    BY <2>1, <2>2, <2>3 DEF Grounds, Unfounding
<1>2. CASE Commit(p)
  <2>1. row' = Rows(p) /\ tx' = {} /\ UNCHANGED <<files, lost>> /\ ~ Unfounding(p)
    BY <1>2 DEF Commit, Ahead, Unfounding
  <2>2. Written' = Written /\ Firm(Rows(p), Written)
    BY <2>1, RowsAre DEF Written, Founded
  <2>3. FirmRows'
    BY <2>1, <2>2 DEF FirmRows
  <2>4. QED
    BY <2>1, <2>2, <2>3 DEF Grounds, Unfounding
<1>3. CASE Rollback(p) \/ Fail(p)
  BY <1>3, ThrowGrounds DEF Rollback, Fail, Idle, Ahead
<1>4. CASE Wipe(p) \/ RemoveCertificates(p)
  <2>1. lost' = Configs \X Kinds /\ UNCHANGED <<row, tx>> /\ ~ Unfounding(p)
    BY <1>4 DEF Wipe, RemoveCertificates, dbVars, Ahead, Unfounding
  <2>2. Written \subseteq Written'
    BY <2>1 DEF Written, Base, Stored
  <2>3. QED
    BY <2>1, <2>2, SameGrounds
<1>5. CASE DeleteAll(p)
  <2>1. row' = Nothing /\ UNCHANGED <<tx, files, lost>> /\ ~ Unfounding(p)
    BY <1>5 DEF DeleteAll, Ahead, Unfounding
  <2>2. Written' = Written
    BY <2>1 DEF Written
  <2>3. FirmRows'
    BY <2>1, <2>2, NothingFirm DEF FirmRows, Founded
  <2>4. QED
    BY <2>1, <2>2, <2>3 DEF Grounds, Unfounding
<1>6. CASE Clear(p) \/ Stop(p) \/ Start(p) \/ Emit(p) \/ ReadRows(p) \/ ReadFiles(p) \/ Query(p)
  <2>1. UNCHANGED <<row, tx, files, lost>> /\ ~ Unfounding(p)
    BY <1>6 DEF Clear, Stop, Disconnect, Start, Emit, ReadRows, ReadFiles, Query, dbVars, ghostVars, Ahead, Unfounding
  <2>2. QED
    BY <2>1, SameGrounds DEF Written
<1>7. CASE Connect(p)
  <2>1. CASE Throw(p)
    BY <1>7, <2>1, ThrowGrounds DEF Connect, Ahead
  <2>2. CASE ~ Throw(p)
    <3>1. UNCHANGED <<row, tx, files, lost>> /\ ~ Unfounding(p)
      BY <1>7, <2>2 DEF Connect, dbVars, Ahead, Unfounding
    <3>2. QED
      BY <3>1, SameGrounds DEF Written
  <2>3. QED
    BY <2>1, <2>2
<1>8. CASE ConfigStep(p)
  BY <1>8, ConfigStepGrounds
<1>9. QED
  BY <1>1, <1>2, <1>3, <1>4, <1>5, <1>6, <1>7, <1>8 DEF SystemStep

\* What a request has on disk, and has named, it has after a step.
LEMMA GroundsKept ==
    ASSUME Written \subseteq Written', Remembers, NEW q \in Procs
    PROVE  Certed(q) \subseteq Certed(q)' /\ Announced(q) \subseteq Announced(q)'
<1>1. \A c \in Configs : want'[q][c] \subseteq want[q][c]
  BY DEF Remembers, Nothing
<1>2. QED
  BY <1>1 DEF Certed, Given, Announced

LEMMA StepFounded == ASSUME Base, Founded, NEW p \in Procs, SystemStep(p) \/ Fail(p) PROVE Founded'
<1>1. Remembers /\ Grounds(p) /\ Shortened(p)
  BY StepRemembers, SystemStepGrounds, SystemStepAdvances
<1>2. ASSUME NEW q \in Procs PROVE Ready(q)'
  <2>1. /\ Preceded(todo[q], {"write"}, Certed(q)) /\ Preceded(todo[q], {"insert", "update"}, Announced(q))
        /\ Certed(q) \subseteq Certed(q)' /\ Announced(q) \subseteq Announced(q)'
    BY <1>1, GroundsKept DEF Founded, Ready, Grounds
  <2>2. CASE q # p
    <3>1. todo'[q] = todo[q]
      BY <1>1, <2>2 DEF Shortened
    <3>2. /\ Preceded(todo[q], {"write"}, Certed(q)')
          /\ Preceded(todo[q], {"insert", "update"}, Announced(q)')
      BY <2>1, PrecededMore
    <3>3. QED
      BY <3>1, <3>2 DEF Ready
  <2>3. CASE q = p /\ todo'[p] = <<>>
    BY <2>3 DEF Ready, Preceded
  <2>4. CASE q = p /\ todo'[p] # <<>>
    <3>1. todo'[p] = Tail(todo[p]) /\ todo[p] # <<>> /\ todo[p] \in Seq(Step)
      BY <1>1, <2>4, ProgramOf DEF Shortened, Base
    <3>2. /\ Head(todo[p]).do \in {"write"} => Head(todo[p]).g \in Certed(p)'
          /\ Head(todo[p]).do \in {"insert", "update"} => Head(todo[p]).g \in Announced(p)'
      BY <1>1, <3>1 DEF Grounds, Ahead, Subject
    <3>3. Preceded(Tail(todo[p]), {"write"}, Certed(p)')
      BY <2>1, <2>4, <3>1, <3>2, PrecededRest
    <3>4. Preceded(Tail(todo[p]), {"insert", "update"}, Announced(p)')
      BY <2>1, <2>4, <3>1, <3>2, PrecededRest
    <3>5. QED
      BY <2>4, <3>1, <3>3, <3>4 DEF Ready
  <2>5. QED
    BY <2>2, <2>3, <2>4
<1>3. QED
  BY <1>1, <1>2 DEF Founded, Grounds, FirmRows

\* Who was given no contents has them all on disk.
LEMMA BaredIs ==
    ASSUME NEW wanted, NEW written
    PROVE  Bared(wanted) \subseteq Given(wanted, written)
<1>1. ASSUME NEW g \in Bared(wanted), NEW w \in wanted[g] PROVE {g} \X w.cert \subseteq written
  BY DEF Bared
<1>2. QED
  BY <1>1 DEF Bared, Given

\* A program that has been requested writes what it was given, and names the rest.
LEMMA RequestedReady ==
    ASSUME NEW s, NEW wanted, NEW written, s \in Requested(wanted), NEW named
    PROVE  /\ Preceded(s, {"write"}, Given(wanted, written))
           /\ Preceded(s, {"insert", "update"}, named)
<1>1. Preceded(s, {"write"}, Bared(wanted)) /\ Preceded(s, {"insert", "update"}, {})
  BY DEF Requested, Covered
<1>2. Preceded(s, {"write"}, Given(wanted, written))
  BY <1>1, BaredIs, PrecededMore
<1>3. Preceded(s, {"insert", "update"}, named)
  BY <1>1, PrecededMore
<1>4. QED
  BY <1>2, <1>3

LEMMA RetryFounded == ASSUME Base, Founded, NEW p \in Procs, Retry(p) PROVE Founded'
<1>1. /\ todo'[p] \in Requested(want'[p]) /\ tx' = {} /\ \A q \in Procs \ {p} : todo'[q] = todo[q]
      /\ UNCHANGED <<row, files, want, lost>>
  BY RetryIs
<1>2. Written' = Written
  BY <1>1 DEF Written
<1>3. \A q \in Procs : Certed(q)' = Certed(q) /\ Announced(q)' = Announced(q)
  BY <1>1, <1>2 DEF Certed, Announced
<1>4. Ready(p)'
  <2>1. /\ Preceded(todo'[p], {"write"}, Certed(p)')
        /\ Preceded(todo'[p], {"insert", "update"}, Announced(p)')
    BY <1>1, RequestedReady DEF Certed
  <2>2. QED
    BY <2>1 DEF Ready
<1>5. \A q \in Procs \ {p} : Ready(q)'
  BY <1>1, <1>3 DEF Founded, Ready
<1>6. QED
  BY <1>1, <1>2, <1>4, <1>5 DEF Founded

LEMMA RequestFounded == ASSUME Base, Founded, NEW p \in Procs, Request(p) PROVE Founded'
<1>1. /\ todo'[p] \in Requested(want'[p]) /\ \A q \in Procs \ {p} : todo'[q] = todo[q] /\ want'[q] = want[q]
      /\ UNCHANGED <<row, tx, files, lost>>
  BY RequestIs
<1>2. Written' = Written
  BY <1>1 DEF Written
<1>3. \A q \in Procs \ {p} : Certed(q)' = Certed(q) /\ Announced(q)' = Announced(q)
  BY <1>1, <1>2 DEF Certed, Announced
<1>4. Ready(p)'
  <2>1. /\ Preceded(todo'[p], {"write"}, Certed(p)')
        /\ Preceded(todo'[p], {"insert", "update"}, Announced(p)')
    BY <1>1, RequestedReady DEF Certed
  <2>2. QED
    BY <2>1 DEF Ready
<1>5. \A q \in Procs \ {p} : Ready(q)'
  BY <1>1, <1>3 DEF Founded, Ready
<1>6. QED
  BY <1>1, <1>2, <1>4, <1>5 DEF Founded

LEMMA NextFounded == Base /\ Founded /\ [Next]_vars => Founded'
<1> SUFFICES ASSUME Base, Founded, [Next]_vars PROVE Founded'
  OBVIOUS
<1>1. CASE \E p \in Procs : SystemStep(p) \/ Fail(p) \/ Retry(p)
  BY <1>1, StepFounded, RetryFounded
<1>2. CASE \E p \in Requests : Request(p)
  BY <1>2, RequestFounded DEF Procs
<1>3. CASE UNCHANGED <<row, tx, files, todo, want, lost>>
  <2>1. Written' = Written
    BY <1>3 DEF Written
  <2>2. \A q \in Procs : Ready(q)'
    BY <1>3, <2>1 DEF Founded, Ready, Certed, Announced
  <2>3. QED
    BY <1>3, <2>1, <2>2 DEF Founded
<1>4. CASE Expire /\ UNCHANGED <<sourceVars, saved, running>>
  BY <1>3, <1>4, ExpireIs
<1>5. CASE UNCHANGED vars
  BY <1>3, <1>5 DEF vars, dbVars, ghostVars
<1>6. QED
  BY <1>1, <1>2, <1>4, <1>5 DEF Next

LEMMA InitFounded == Init => Founded
<1> SUFFICES ASSUME Init PROVE Founded
  OBVIOUS
<1>1. PICK g \in Configs, made \in {{}} \cup {{w} : w \in Bodies} : Made(g, made)
  BY DEF Init, Made
<1>2. /\ tx = {} /\ want = [p \in Procs |-> Nothing]
      /\ todo = [p \in Procs |-> IF p = Boot THEN Initialize(CHOOSE c \in Configs : TRUE) ELSE <<>>]
  BY DEF Init
<1>3. made \in SUBSET Wanted
  BY GlobalConfigurationsAssumption
<1>4. ASSUME NEW w \in made PROVE Named(Returned(g, w)) \subseteq Written
  <2>1. Named(Returned(g, w)) \subseteq ({g} \X w.cert) \cup Named(w.path)
    BY <1>3, NamedIs
  <2>2. {g} \X w.cert \subseteq files
    <3>1. files = {g} \X UNION {v.cert : v \in made}
      BY <1>1 DEF Made
    <3>2. w.cert \subseteq UNION {v.cert : v \in made}
      OBVIOUS
    <3>3. QED
      BY <3>1, <3>2
  <2>3. Named(w.path) \subseteq files \cup lost
    <3>1. lost = (UNION {Named(v.path) : v \in made}) \ files
      BY <1>1 DEF Made
    <3> DEFINE names == {Named(v.path) : v \in made}
    <3>2. Named(w.path) \in names
      BY Zenon
    <3>3. lost = (UNION names) \ files
      BY <3>1
    <3> HIDE DEF names
    <3>4. \A f \in Named(w.path) : f \in UNION names
      BY <3>2, Zenon
    <3>5. \A f \in UNION names : f \in files \cup lost
      BY <3>3
    <3>6. QED
      BY <3>4, <3>5, Zenon
  <2>4. QED
    BY <2>1, <2>2, <2>3 DEF Written
<1>5. Firm(row, Written)
  <2>1. row = [Nothing EXCEPT ![g] = {[broker |-> w.broker, path |-> Returned(g, w)] : w \in made}]
    BY <1>1 DEF Made
  <2>2. \A c \in Configs : \A r \in row[c] : \E w \in made : r.path = Returned(g, w)
    BY <2>1 DEF Nothing
  <2>3. QED
    BY <1>4, <2>2 DEF Firm
<1>6. ASSUME NEW p \in Procs PROVE Ready(p)
  <2>1. (CHOOSE c \in Configs : TRUE) \in Configs
    OBVIOUS
  <2>2. Initialize(CHOOSE c \in Configs : TRUE) \in Requested(want[p])
    BY <2>1, ShortProgramsAre
  <2>3. CASE p = Boot
    BY <1>2, <2>2, <2>3, RequestedReady DEF Ready, Certed
  <2>4. CASE p # Boot
    <3>1. todo[p] = <<>>
      BY <1>2, <2>4
    <3>2. QED
      BY <3>1 DEF Ready, Preceded
  <2>5. QED
    BY <2>3, <2>4
<1>7. QED
  BY <1>2, <1>5, <1>6 DEF Founded

\* Whatever calls overlap, fail, are rolled back or tried again: a row finds on disk the
\* certificates that it names in the directories of data sources, unless a restore, a reset or
\* a removal took the files away under it, or a client named them before they were there.
THEOREM CertsAlwaysKept == Spec => []CertsKept
<1>1. Spec => []Founded
  BY InitFounded, AlwaysBase, NextFounded, PTL DEF Spec
<1>2. QED
  BY <1>1, FoundedKeepsCerts, PTL

-----------------------------------------------------------------------------
(* What was loaded *)

Reloading == {"deleteAll", "disconnect", "query", "connect"}
Reloads == \E q \in Procs : Has(todo[q], Reloading)

\* Unless rows changed since, or somebody is to load them again, what was loaded is what there
\* is.
Follows ==
    /\ sources = row
    /\ \A c \in MqttKeys(row) : BrokerBase[c.broker] \notin Odd => c \in clients
    /\ \A c \in clients : BrokerBase[c.broker] \in BasesOf(row)
Loaded == dirty \/ Reloads \/ Follows

LEMMA LoadedFollows == Loaded => SourcesFollow
<1> SUFFICES ASSUME Loaded, ~ dirty,
                    \A p \in Procs : ~ Pending(p, {"deleteAll", "disconnect", "query", "connect", "start"})
             PROVE  Follows
  BY DEF SourcesFollow, Follows
<1>1. ~ Reloads
  BY DEF Reloads, Reloading, Has, Pending
<1>2. QED
  BY <1>1 DEF Loaded

\* Who is to disconnect is to connect again.
LEMMA DisconnectsConnect ==
    ASSUME Base, NEW p \in Procs, Has(todo[p], Reloading)
    PROVE  Pending(p, {"deleteAll", "query", "connect"})
<1>1. PICK i \in DOMAIN todo[p] : todo[p][i].do \in Reloading
  BY DEF Has
<1>2. Owes(todo[p], i)
  BY DEF Base, Control, Programs
<1>3. CASE todo[p][i].do = "disconnect"
  <2>1. \E j \in DOMAIN todo[p] : todo[p][j].do = "connect"
    BY <1>2, <1>3 DEF Owes, Later
  <2>2. QED
    BY <2>1 DEF Pending
<1>4. QED
  BY <1>1, <1>3 DEF Pending, Reloading

LEMMA ThrowLoaded ==
    ASSUME Base, Loaded, NEW p \in Procs, Shortened(p), Throw(p), UNCHANGED sourceVars
    PROVE  Loaded'
<1>1. /\ dirty' = (dirty \/ Pending(p, {"deleteAll", "query", "connect"})) /\ UNCHANGED <<row, sources, clients>>
      /\ \A q \in Procs \ {p} : todo'[q] = todo[q]
  BY DEF Throw, sourceVars, Shortened
<1>2. CASE dirty \/ Has(todo[p], Reloading)
  <2>1. dirty'
    BY <1>1, <1>2, DisconnectsConnect
  <2>2. QED
    BY <2>1 DEF Loaded
<1>3. CASE Reloads /\ ~ Has(todo[p], Reloading)
  <2>1. PICK q \in Procs : Has(todo[q], Reloading)
    BY <1>3 DEF Reloads
  <2>2. todo'[q] = todo[q]
    BY <1>1, <1>3, <2>1
  <2>3. Reloads'
    BY <2>1, <2>2 DEF Reloads
  <2>4. QED
    BY <2>3 DEF Loaded
<1>4. CASE Follows
  BY <1>1, <1>4 DEF Follows, Loaded
<1>5. QED
  BY <1>2, <1>3, <1>4 DEF Loaded

\* What a step that does not throw does to what is loaded.
LoadSettled(p) ==
    \/ dirty' = TRUE \/ Has(todo'[p], Reloading) \/ Follows'
    \/ /\ UNCHANGED <<row, sources, clients, dirty>> /\ Head(todo[p]).do \notin Reloading

LEMMA WriteLoads ==
    ASSUME Base, NEW p \in Procs, NEW g \in Configs, NEW new \in SUBSET Row, \A a, b \in new : a = b,
           WriteRow(p, g, new), UNCHANGED sourceVars, Head(todo[p]).do \notin Reloading
    PROVE  LoadSettled(p)
<1>1. CASE InTx(p)
  BY <1>1, WriteRowIs DEF InTransaction, LoadSettled, sourceVars
<1>2. CASE ~ InTx(p)
  BY <1>2, WriteRowIs DEF InTable, LoadSettled
<1>3. QED
  BY <1>1, <1>2

LEMMA ConfigStepLoads ==
    ASSUME Base, NEW p \in Procs, ConfigStep(p), UNCHANGED sourceVars
    PROVE  Throw(p) \/ LoadSettled(p)
<1> SUFFICES ASSUME ~ Throw(p) PROVE LoadSettled(p)
  OBVIOUS
<1>1. CASE Writes(p)
  <2>1. PICK g \in Configs, new \in SUBSET Row : Wrote(p, g, new)
    BY <1>1, WritesIs
  <2>2. Head(todo[p]).do \notin Reloading /\ WriteRow(p, g, new) /\ \A a, b \in new : a = b
    BY <2>1 DEF Wrote, Reloading
  <2>3. QED
    BY <2>2, WriteLoads
<1>2. CASE \/ WriteFiles(p) \/ Find(p) \/ RemoveFiles(p) \/ DelAll(p) \/ DelOne(p) \/ Get(p) \/ Load(p)
           \/ SetAll(p) \/ SetOne(p)
  <2>1. UNCHANGED <<row, dirty>> /\ Head(todo[p]).do \notin Reloading
    BY <1>2 DEF WriteFiles, Find, RemoveFiles, DelAll, DelOne, Get, Load, SetAll, SetOne, dbVars, ghostVars, Ahead,
                Reloading
  <2>2. QED
    BY <2>1 DEF LoadSettled, sourceVars
<1>3. QED
  BY <1>1, <1>2 DEF ConfigStep, Writes

LEMMA SystemStepLoads ==
    ASSUME Base, NEW p \in Procs, SystemStep(p) \/ Fail(p)
    PROVE  LoadSettled(p) \/ (Throw(p) /\ UNCHANGED sourceVars)
<1>1. CASE Begin(p) \/ Clear(p) \/ Start(p) \/ RemoveCertificates(p) \/ ReadRows(p) \/ ReadFiles(p)
  <2>1. UNCHANGED <<row, sources, clients, dirty>> /\ Head(todo[p]).do \notin Reloading
    BY <1>1 DEF Begin, Clear, Start, RemoveCertificates, ReadRows, ReadFiles, dbVars, ghostVars, sourceVars, Ahead,
                Reloading
  <2>2. QED
    BY <2>1 DEF LoadSettled
<1>2. CASE Commit(p) \/ DeleteAll(p)
  BY <1>2 DEF Commit, DeleteAll, LoadSettled
<1>3. CASE Rollback(p) \/ Fail(p)
  BY <1>3 DEF Rollback, Fail, sourceVars
<1>4. CASE Wipe(p) \/ Emit(p) \/ Stop(p) \/ Query(p)
  <2>1. todo[p] # <<>> /\ Head(todo[p]).do \in {"wipe", "emit", "disconnect", "query"}
    BY <1>4 DEF Wipe, Emit, Stop, Disconnect, Query, Ahead
  <2>2. Has(Tail(todo[p]), {"connect"}) \/ Has(Tail(todo[p]), {"deleteAll"})
    BY <2>1, FirstOwes
  <2>3. todo'[p] = Tail(todo[p])
    <3>1. CASE Query(p)
      BY <3>1 DEF Query, Base, Control
    <3>2. CASE Wipe(p) \/ Emit(p) \/ Stop(p)
      BY <2>1, <3>2, Continues DEF Wipe, Emit, Stop, Disconnect, Proceed, Base
    <3>3. QED
      BY <1>4, <3>1, <3>2
  <2>4. QED
    BY <2>2, <2>3 DEF LoadSettled, Has, Reloading
<1>5. CASE Connect(p)
  <2>1. CASE Throw(p) /\ UNCHANGED sourceVars
    BY <2>1
  <2>2. CASE sources' = got[p] /\ ConnectBrokers(got[p]) /\ dirty' = (got[p] # row) /\ UNCHANGED row
    <3>1. CASE got[p] = row
      <4>1. clients' = {c \in clients \cup MqttKeys(row) : c \in clients => StillNeeded(c, row)}
        BY <2>2, <3>1 DEF ConnectBrokers
      <4>2. \A c \in MqttKeys(row) : BrokerBase[c.broker] \in BasesOf(row)
        BY DEF MqttKeys, BasesOf
      <4>3. \A c \in MqttKeys(row) : BrokerBase[c.broker] \notin Odd => c \in clients'
        BY <4>1, <4>2 DEF StillNeeded
      <4>4. \A c \in clients' : BrokerBase[c.broker] \in BasesOf(row)
        BY <4>1, <4>2 DEF StillNeeded
      <4>5. MqttKeys(row)' = MqttKeys(row) /\ BasesOf(row)' = BasesOf(row)
        BY <2>2 DEF MqttKeys, BasesOf, KeysOf
      <4>6. Follows'
        BY <2>2, <3>1, <4>3, <4>4, <4>5 DEF Follows
      <4>7. QED
        BY <4>6 DEF LoadSettled
    <3>2. CASE got[p] # row
      BY <2>2, <3>2 DEF LoadSettled
    <3>3. QED
      BY <3>1, <3>2
  <2>3. QED
    BY <1>5, <2>1, <2>2 DEF Connect, dbVars
<1>6. CASE ConfigStep(p) /\ UNCHANGED sourceVars
  BY <1>6, ConfigStepLoads
<1>7. QED
  BY <1>1, <1>2, <1>3, <1>4, <1>5, <1>6 DEF SystemStep

LEMMA StepLoaded == ASSUME Base, Loaded, NEW p \in Procs, SystemStep(p) \/ Fail(p) PROVE Loaded'
<1>1. Shortened(p) /\ Moves(p)
  BY SystemStepAdvances, SystemStepMoves
<1>2. CASE Throw(p) /\ UNCHANGED sourceVars
  BY <1>1, <1>2, ThrowLoaded
<1>3. CASE LoadSettled(p) /\ ~ Throw(p)
  <2>1. CASE dirty' = TRUE \/ Has(todo'[p], Reloading) \/ Follows'
    BY <2>1 DEF Loaded, Reloads
  <2>2. CASE UNCHANGED <<row, sources, clients, dirty>> /\ Head(todo[p]).do \notin Reloading
    <3>1. CASE Follows \/ dirty
      BY <2>2, <3>1 DEF Loaded, Follows
    <3>2. CASE Reloads
      <4>1. PICK q \in Procs : Has(todo[q], Reloading)
        BY <3>2 DEF Reloads
      <4>2. /\ todo[p] # <<>> /\ todo[p] \in Seq(Step) /\ todo[p] \in Programs /\ Head(todo[p]) = todo[p][1]
            /\ 1 \in DOMAIN todo[p] /\ \A r \in Procs \ {p} : todo'[r] = todo[r]
        BY <1>1, ProgramOf DEF Shortened, Base
      <4>3. CASE q # p
        BY <4>1, <4>2, <4>3 DEF Loaded, Reloads
      <4>4. CASE q = p
        <5>1. ~ (Ahead(p, "getAll") \/ Ahead(p, "getOne"))
          <6>1. (\A i \in DOMAIN todo[p] : todo[p][i].do \in Reads) => ~ Has(todo[p], Reloading)
            BY DEF Has, Reads, Reloading
          <6>2. Ahead(p, "getAll") \/ Ahead(p, "getOne") => \A i \in DOMAIN todo[p] : todo[p][i].do \in Reads
            BY <4>2 DEF Ahead, Programs, Keeps
          <6>3. QED
            BY <4>1, <4>4, <6>1, <6>2
        <5>2. todo'[p] = Tail(todo[p])
          BY <1>1, <1>3, <5>1 DEF Moves
        <5>3. Has(todo'[p], Reloading)
          BY <2>2, <4>1, <4>2, <4>4, <5>2, StillHas
        <5>4. QED
          BY <5>3 DEF Loaded, Reloads
      <4>5. QED
        BY <4>3, <4>4
    <3>3. QED
      BY <3>1, <3>2 DEF Loaded
  <2>3. QED
    BY <1>3, <2>1, <2>2 DEF LoadSettled
<1>4. CASE LoadSettled(p) /\ Throw(p)
  <2>1. CASE UNCHANGED sourceVars
    BY <1>2, <1>4, <2>1
  <2>2. CASE dirty' = TRUE \/ Has(todo'[p], Reloading) \/ Follows'
    BY <2>2 DEF Loaded, Reloads
  <2>3. QED
    BY <1>4, <2>1, <2>2 DEF LoadSettled, sourceVars
<1>5. QED
  BY <1>2, <1>3, <1>4, SystemStepLoads

LEMMA RetryLoaded == ASSUME Base, Loaded, NEW p \in Procs, Retry(p) PROVE Loaded'
<1>1. /\ InTx(p) /\ todo[p] # <<>>
      /\ Pending(p, {"rollback"}) \/ Has(todo'[p], {"connect"})
      /\ \A q \in Procs \ {p} : todo'[q] = todo[q]
      /\ UNCHANGED <<row, sources, clients, dirty>>
  BY RetryIs
<1>2. todo[p] \in Programs /\ \A i \in DOMAIN todo[p] : todo[p][i].do \in Restores
  BY <1>1, ProgramOf DEF Base, Restoring
<1>3. Has(todo[p], Reloading) => Has(todo'[p], Reloading)
  <2>1. Has(todo[p], Reloading) => Has(todo[p], Initializes)
    BY <1>2 DEF Has, Reloading, Restores, Creates, Initializes
  <2>2. Has(todo[p], Initializes) => ~ Pending(p, {"rollback"})
    BY <1>2 DEF Has, Pending, Programs, Keeps
  <2>3. Has(todo'[p], {"connect"}) => Has(todo'[p], Reloading)
    BY DEF Has, Reloading
  <2>4. QED
    BY <1>1, <2>1, <2>2, <2>3
<1>4. Reloads => Reloads'
  <2> SUFFICES ASSUME NEW q \in Procs, Has(todo[q], Reloading) PROVE Reloads'
    BY DEF Reloads
  <2>1. CASE q = p
    BY <1>3, <2>1 DEF Reloads
  <2>2. CASE q # p
    BY <1>1, <2>2 DEF Reloads
  <2>3. QED
    BY <2>1, <2>2
<1>5. QED
  BY <1>1, <1>4 DEF Loaded, Follows

LEMMA RequestLoaded == ASSUME Base, Loaded, NEW p \in Procs, Request(p) PROVE Loaded'
<1>1. /\ todo[p] = <<>> /\ \A q \in Procs \ {p} : todo'[q] = todo[q]
      /\ UNCHANGED <<row, sources, clients, dirty>>
  BY RequestIs
<1>2. ~ Has(todo[p], Reloading)
  BY <1>1 DEF Has
<1>3. Reloads => Reloads'
  BY <1>1, <1>2 DEF Reloads
<1>4. QED
  BY <1>1, <1>3 DEF Loaded, Follows

LEMMA NextLoaded == Base /\ Loaded /\ [Next]_vars => Loaded'
<1> SUFFICES ASSUME Base, Loaded, [Next]_vars PROVE Loaded'
  OBVIOUS
<1>1. CASE \E p \in Procs : SystemStep(p) \/ Fail(p) \/ Retry(p)
  BY <1>1, StepLoaded, RetryLoaded
<1>2. CASE \E p \in Requests : Request(p)
  BY <1>2, RequestLoaded DEF Procs
<1>3. CASE UNCHANGED <<row, todo, dirty, sources, clients>>
  BY <1>3 DEF Loaded, Reloads, Follows
<1>4. CASE Expire /\ UNCHANGED <<sourceVars, saved, running>>
  BY <1>3, <1>4, ExpireIs DEF sourceVars
<1>5. CASE UNCHANGED vars
  BY <1>3, <1>5 DEF vars, dbVars, ghostVars, sourceVars
<1>6. QED
  BY <1>1, <1>2, <1>4, <1>5 DEF Next

\* Even if initializations, resets and restores overlap, and whatever calls fail: once none of
\* them is under way, a system whose schedulers run has loaded the configurations of the
\* database; each of its MQTT sources has a client with its credentials and certificates,
\* unless its host has an underscore, and no client is left for a broker that no row names;
\* excepted is what a request changed since, what a load read before a change and used after
\* it, and what a call that threw left behind.
THEOREM SourcesAlwaysFollow == Spec => []SourcesFollow
<1>1. Init => Loaded
  BY DEF Init, Loaded
<1>2. Spec => []Loaded
  BY <1>1, AlwaysBase, NextLoaded, PTL DEF Spec
<1>3. QED
  BY <1>2, LoadedFollows, PTL
=============================================================================
