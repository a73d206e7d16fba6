--------------------------- MODULE SequenceFacts ---------------------------
(***************************************************************************)
(* Facts about taking entries out of a sequence, stated once and cited by  *)
(* the proofs about the components that keep queues.                       *)
(***************************************************************************)
EXTENDS Integers, Sequences, SequencesExt, FiniteSetTheorems, SequenceTheorems,
        WellFoundedInduction, TLAPS

\* RemoveAt closes the gap: the entries before i stay, those after it move up.
LEMMA RemoveAtShape ==
  ASSUME NEW S, NEW s \in Seq(S), NEW i \in 1 .. Len(s)
  PROVE  /\ RemoveAt(s, i) \in Seq(S)
         /\ Len(RemoveAt(s, i)) = Len(s) - 1
         /\ \A j \in 1 .. Len(s) - 1 :
              RemoveAt(s, i)[j] = IF j < i THEN s[j] ELSE s[j + 1]
<1> DEFINE before == SubSeq(s, 1, i - 1)
           after == SubSeq(s, i + 1, Len(s))
<1>1. /\ before \in Seq(S) /\ Len(before) = i - 1
      /\ \A j \in 1 .. i - 1 : before[j] = s[j]
  BY SubSeqProperties
<1>2. /\ after \in Seq(S) /\ Len(after) = Len(s) - i
      /\ \A j \in 1 .. Len(s) - i : after[j] = s[i + j]
  BY SubSeqProperties
<1> HIDE DEF before, after
<1>3. /\ before \o after \in Seq(S) /\ Len(before \o after) = Len(s) - 1
      /\ \A j \in 1 .. i - 1 : (before \o after)[j] = s[j]
      /\ \A j \in i .. Len(s) - 1 : (before \o after)[j] = s[j + 1]
  <2>1. /\ before \o after \in Seq(S)
        /\ Len(before \o after) = Len(before) + Len(after)
        /\ \A j \in 1 .. Len(before) + Len(after) : (before \o after)[j] =
             IF j <= Len(before) THEN before[j] ELSE after[j - Len(before)]
    BY <1>1, <1>2, ConcatProperties
  <2>2. ASSUME NEW j \in i .. Len(s) - 1 PROVE (before \o after)[j] = s[j + 1]
    <3>1. j - Len(before) \in 1 .. Len(s) - i
      BY <1>1
    <3> QED
      BY <1>1, <1>2, <2>1, <3>1
  <2> QED
    BY <1>1, <1>2, <2>1, <2>2
<1>4. RemoveAt(s, i) = before \o after
  BY DEF RemoveAt, before, after
<1> QED
  BY <1>3, <1>4

\* A member is found at its first position.
LEMMA SelectFirst ==
  ASSUME NEW S, NEW s \in Seq(S), NEW e, \E i \in 1 .. Len(s) : s[i] = e
  PROVE  \E i \in 1 .. Len(s) : s[i] = e /\ RemoveFirst(s, e) = RemoveAt(s, i)
<1> DEFINE I == {i \in 1 .. Len(s) : s[i] = e}
<1>1. SelectInSeq(s, LAMBDA v : v = e) = Min(I)
  BY DEF SelectInSeq
<1>2. \E m \in I : \A n \in I : m <= n
  <2>1. I \in SUBSET Nat /\ I # {}
    OBVIOUS
  <2> DEFINE upTo(i) == 1 .. i
             T == {upTo(i) : i \in I}
  <2>2. T \subseteq SUBSET (1 .. Len(s)) /\ T # {}
    BY <2>1
  <2>3. IsFiniteSet(1 .. Len(s))
    BY FS_Interval
  <2>4. PICK t \in T : \A u \in T : ~ (<<u, t>> \in StrictSubsetOrdering(1 .. Len(s)))
    <3>1. IsWellFoundedOn(StrictSubsetOrdering(1 .. Len(s)), SUBSET (1 .. Len(s)))
      BY <2>3, FS_FiniteSubsetsOfFinite, FS_StrictSubsetOrderingWellFounded
    <3> HIDE DEF T
    <3> QED
      BY <2>2, <3>1, WFMin
  <2>5. PICK m \in I : t = upTo(m)
    OBVIOUS
  <2>6. ASSUME NEW n \in I, n < m PROVE FALSE
    <3>1. upTo(n) \in T /\ upTo(n) \subseteq upTo(m) /\ upTo(n) # upTo(m)
      BY <2>1, <2>6
    <3>2. <<upTo(n), t>> \in StrictSubsetOrdering(1 .. Len(s))
      BY <2>2, <2>5, <3>1 DEF StrictSubsetOrdering
    <3> QED
      BY <2>4, <3>1, <3>2
  <2> QED
    BY <2>1, <2>6
<1>3. Min(I) \in I
  BY <1>2 DEF Min
<1> QED
  BY <1>1, <1>3 DEF RemoveFirst

LEMMA RemoveFirstType ==
  ASSUME NEW S, NEW s \in Seq(S), NEW e
  PROVE  RemoveFirst(s, e) \in Seq(S)
<1>1. CASE \E i \in 1 .. Len(s) : s[i] = e
  <2>1. PICK i \in 1 .. Len(s) : RemoveFirst(s, e) = RemoveAt(s, i)
    BY <1>1, SelectFirst
  <2> QED
    BY <2>1, RemoveAtShape
<1>2. CASE ~ \E i \in 1 .. Len(s) : s[i] = e
  BY <1>2 DEF RemoveFirst
<1> QED
  BY <1>1, <1>2
-----------------------------------------------------------------------------
(* Duplicate-free sequences                                                *)

LEMMA InjectiveSeq ==
  ASSUME NEW S, NEW s \in Seq(S)
  PROVE  IsInjective(s) <=> \A i, j \in 1 .. Len(s) : s[i] = s[j] => i = j
BY LenProperties DEF IsInjective

LEMMA DistinctAppend ==
  ASSUME NEW S, NEW s \in Seq(S), NEW e \in S, IsInjective(s), ~Contains(s, e)
  PROVE  /\ IsInjective(Append(s, e))
         /\ \A x : Contains(Append(s, e), x) <=> Contains(s, x) \/ x = e
<1>1. /\ Append(s, e) \in Seq(S) /\ Len(Append(s, e)) = Len(s) + 1
      /\ \A i \in 1 .. Len(s) : Append(s, e)[i] = s[i]
      /\ Append(s, e)[Len(s) + 1] = e
  BY AppendProperties
<1> DEFINE t == Append(s, e)
<1> HIDE DEF t
<1>2. /\ t \in Seq(S) /\ Len(t) = Len(s) + 1 /\ t[Len(s) + 1] = e
      /\ \A i \in 1 .. Len(s) : t[i] = s[i]
  BY <1>1 DEF t
<1>3. Len(s) \in Nat
  BY LenProperties
<1>4. IsInjective(t)
  <2>1. \A i, j \in 1 .. Len(s) : s[i] = s[j] => i = j
    BY InjectiveSeq
  <2>2. \A i, j \in 1 .. Len(t) : t[i] = t[j] => i = j
    BY <1>2, <1>3, <2>1 DEF Contains
  <2> QED
    BY <1>2, <1>3, <2>2, InjectiveSeq
<1>5. \A x : Contains(t, x) <=> Contains(s, x) \/ x = e
  BY <1>2, <1>3 DEF Contains
<1> QED
  BY <1>4, <1>5 DEF t

LEMMA DistinctRemoveAt ==
  ASSUME NEW S, NEW s \in Seq(S), NEW i \in 1 .. Len(s), IsInjective(s)
  PROVE  /\ IsInjective(RemoveAt(s, i))
         /\ \A x : Contains(RemoveAt(s, i), x) <=> Contains(s, x) /\ x # s[i]
<1> DEFINE t == RemoveAt(s, i)
<1>1. /\ t \in Seq(S) /\ Len(t) = Len(s) - 1
      /\ \A j \in 1 .. Len(s) - 1 : t[j] = IF j < i THEN s[j] ELSE s[j + 1]
  BY RemoveAtShape
<1> HIDE DEF t
<1>2. Len(s) \in Nat
  BY LenProperties
<1>3. IsInjective(t)
  <2> DEFINE from(j) == IF j < i THEN j ELSE j + 1
  <2>1. \A j, k \in 1 .. Len(s) : s[j] = s[k] => j = k
    BY InjectiveSeq
  <2>2. \A j \in 1 .. Len(t) : from(j) \in 1 .. Len(s) /\ t[j] = s[from(j)]
    BY <1>1, <1>2
  <2>3. \A j, k \in 1 .. Len(t) : from(j) = from(k) => j = k
    BY <1>1, <1>2
  <2>4. \A j, k \in 1 .. Len(t) : t[j] = t[k] => j = k
    <3> HIDE DEF from
    <3> QED
      BY <2>1, <2>2, <2>3
  <2> QED
    BY <1>1, <2>4, InjectiveSeq
<1>4. ASSUME NEW x, Contains(t, x) PROVE Contains(s, x) /\ x # s[i]
  BY <1>1, <1>2, <1>4 DEF IsInjective, Contains
<1>5. ASSUME NEW x, Contains(s, x), x # s[i] PROVE Contains(t, x)
  <2>1. PICK j \in 1 .. Len(s) : s[j] = x
    BY <1>5 DEF Contains
  <2>2. CASE j < i
    <3>1. j \in 1 .. Len(t) /\ t[j] = x
      BY <1>1, <1>2, <2>1, <2>2
    <3> QED
      BY <3>1 DEF Contains
  <2>3. CASE j > i
    <3>1. j - 1 \in 1 .. Len(t) /\ t[j - 1] = x
      BY <1>1, <1>2, <2>1, <2>3
    <3> QED
      BY <3>1 DEF Contains
  <2>4. j # i
    BY <1>5, <2>1
  <2> QED
    BY <2>1, <2>2, <2>3, <2>4
<1> QED
  BY <1>3, <1>4, <1>5 DEF t

LEMMA DistinctRemoveFirst ==
  ASSUME NEW S, NEW s \in Seq(S), NEW e, IsInjective(s)
  PROVE  /\ IsInjective(RemoveFirst(s, e))
         /\ \A x : Contains(RemoveFirst(s, e), x) <=> Contains(s, x) /\ x # e
<1>1. CASE Contains(s, e)
  <2>1. PICK i \in 1 .. Len(s) : s[i] = e /\ RemoveFirst(s, e) = RemoveAt(s, i)
    BY <1>1, SelectFirst DEF Contains
  <2> QED
    BY <2>1, DistinctRemoveAt
<1>2. CASE ~Contains(s, e)
  BY <1>2 DEF RemoveFirst, Contains
<1> QED
  BY <1>1, <1>2

LEMMA DistinctTail ==
  ASSUME NEW S, NEW s \in Seq(S), s # <<>>, IsInjective(s)
  PROVE  /\ IsInjective(Tail(s))
         /\ \A x : Contains(Tail(s), x) <=> Contains(s, x) /\ x # Head(s)
<1> DEFINE t == Tail(s)
<1>1. /\ t \in Seq(S) /\ Len(t) = Len(s) - 1 /\ Head(s) = s[1] /\ Len(s) \in Nat \ {0}
      /\ \A j \in 1 .. Len(s) - 1 : t[j] = s[j + 1]
  BY HeadTailProperties, LenProperties, EmptySeq
<1> HIDE DEF t
<1>2. IsInjective(t)
  <2>1. \A i, j \in 1 .. Len(s) : s[i] = s[j] => i = j
    BY InjectiveSeq
  <2>2. \A i, j \in 1 .. Len(t) : t[i] = t[j] => i = j
    BY <1>1, <2>1
  <2> QED
    BY <1>1, <2>2, InjectiveSeq
<1>3. ASSUME NEW x, Contains(t, x) PROVE Contains(s, x) /\ x # Head(s)
  BY <1>1, <1>3 DEF IsInjective, Contains
<1>4. ASSUME NEW x, Contains(s, x), x # Head(s) PROVE Contains(t, x)
  <2>1. PICK j \in 1 .. Len(s) : s[j] = x
    BY <1>4 DEF Contains
  <2>2. j - 1 \in 1 .. Len(t) /\ t[j - 1] = x
    BY <1>1, <1>4, <2>1
  <2> QED
    BY <2>2 DEF Contains
<1> QED
  BY <1>2, <1>3, <1>4 DEF t

LEMMA AppendContains ==
  ASSUME NEW S, NEW s \in Seq(S), NEW e \in S
  PROVE  \A x : Contains(Append(s, e), x) <=> Contains(s, x) \/ x = e
<1>1. /\ Append(s, e) \in Seq(S) /\ Len(Append(s, e)) = Len(s) + 1 /\ Len(s) \in Nat
      /\ \A i \in 1 .. Len(s) : Append(s, e)[i] = s[i]
      /\ Append(s, e)[Len(s) + 1] = e
  BY AppendProperties, LenProperties
<1> DEFINE t == Append(s, e)
<1> HIDE DEF t
<1>2. \A x : Contains(t, x) <=> Contains(s, x) \/ x = e
  BY <1>1 DEF Contains, t
<1> QED
  BY <1>2 DEF t

LEMMA TailContains ==
  ASSUME NEW S, NEW s \in Seq(S), s # <<>>
  PROVE  \A x : Contains(s, x) => x = Head(s) \/ Contains(Tail(s), x)
<1> DEFINE t == Tail(s)
<1>1. /\ t \in Seq(S) /\ Len(t) = Len(s) - 1 /\ Head(s) = s[1] /\ Len(s) \in Nat \ {0}
      /\ \A j \in 1 .. Len(s) - 1 : t[j] = s[j + 1]
  BY HeadTailProperties, LenProperties, EmptySeq
<1> HIDE DEF t
<1>2. ASSUME NEW x, Contains(s, x), x # Head(s) PROVE Contains(t, x)
  <2>1. PICK j \in 1 .. Len(s) : s[j] = x
    BY <1>2 DEF Contains
  <2>2. j - 1 \in 1 .. Len(t) /\ t[j - 1] = x
    BY <1>1, <1>2, <2>1
  <2> QED
    BY <2>2 DEF Contains
<1> QED
  BY <1>2 DEF t

LEMMA ConcatContains ==
  ASSUME NEW S, NEW s \in Seq(S), NEW t \in Seq(S)
  PROVE  \A x : Contains(s \o t, x) <=> Contains(s, x) \/ Contains(t, x)
<1> DEFINE u == s \o t
<1>1. /\ Len(u) = Len(s) + Len(t) /\ Len(s) \in Nat /\ Len(t) \in Nat
      /\ \A i \in 1 .. Len(s) + Len(t) : u[i] = IF i <= Len(s) THEN s[i] ELSE t[i - Len(s)]
  BY ConcatProperties, LenProperties
<1> HIDE DEF u
<1>2. ASSUME NEW x, Contains(u, x) PROVE Contains(s, x) \/ Contains(t, x)
  <2>1. PICK i \in 1 .. Len(u) : u[i] = x
    BY <1>2 DEF Contains
  <2>2. IF i <= Len(s) THEN i \in 1 .. Len(s) /\ s[i] = x
                       ELSE i - Len(s) \in 1 .. Len(t) /\ t[i - Len(s)] = x
    BY <1>1, <2>1
  <2> QED
    BY <2>2 DEF Contains
<1>3. ASSUME NEW x, Contains(s, x) PROVE Contains(u, x)
  <2>1. PICK i \in 1 .. Len(s) : s[i] = x
    BY <1>3 DEF Contains
  <2>2. i \in 1 .. Len(u) /\ u[i] = x
    BY <1>1, <2>1
  <2> QED
    BY <2>2 DEF Contains
<1>4. ASSUME NEW x, Contains(t, x) PROVE Contains(u, x)
  <2>1. PICK i \in 1 .. Len(t) : t[i] = x
    BY <1>4 DEF Contains
  <2>2. i + Len(s) \in 1 .. Len(u) /\ u[i + Len(s)] = x
    BY <1>1, <2>1
  <2> QED
    BY <2>2 DEF Contains
<1> QED
  BY <1>2, <1>3, <1>4 DEF u

LEMMA RemoveFirstContains ==
  ASSUME NEW S, NEW s \in Seq(S), NEW e, Contains(s, e)
  PROVE  \A x : Contains(s, x) /\ x # e => Contains(RemoveFirst(s, e), x)
<1>1. PICK i \in 1 .. Len(s) : s[i] = e /\ RemoveFirst(s, e) = RemoveAt(s, i)
  BY SelectFirst DEF Contains
<1> DEFINE t == RemoveAt(s, i)
<1>2. /\ Len(t) = Len(s) - 1 /\ Len(s) \in Nat
      /\ \A j \in 1 .. Len(s) - 1 : t[j] = IF j < i THEN s[j] ELSE s[j + 1]
  BY RemoveAtShape, LenProperties
<1> HIDE DEF t
<1>3. ASSUME NEW x, Contains(s, x), x # e PROVE Contains(t, x)
  <2>1. PICK j \in 1 .. Len(s) : s[j] = x
    BY <1>3 DEF Contains
  <2>2. j # i
    BY <1>1, <1>3, <2>1
  <2>3. IF j < i THEN j \in 1 .. Len(t) /\ t[j] = x
                 ELSE j - 1 \in 1 .. Len(t) /\ t[j - 1] = x
    BY <1>2, <2>1, <2>2
  <2> QED
    BY <2>3 DEF Contains
<1> QED
  BY <1>1, <1>3 DEF t

-----------------------------------------------------------------------------
(* Order and number of the entries                                         *)

\* Of any two entries the earlier and the later are related by R.
OrderedBy(s, R) == \A p, q \in DOMAIN s : p < q => <<s[p], s[q]>> \in R

LEMMA Positions ==
  ASSUME NEW S, NEW s \in Seq(S)
  PROVE  /\ DOMAIN s = 1 .. Len(s) /\ Len(s) \in Nat
         /\ \A i \in 1 .. Len(s) : s[i] \in S
         /\ \A x : Contains(s, x) <=> \E i \in 1 .. Len(s) : s[i] = x
BY LenProperties, ElementOfSeq DEF Contains

LEMMA TailShape ==
  ASSUME NEW S, NEW s \in Seq(S), s # <<>>
  PROVE  /\ Tail(s) \in Seq(S) /\ Len(s) \in Nat \ {0} /\ Head(s) = s[1] /\ Head(s) \in S
         /\ DOMAIN s = 1 .. Len(s) /\ DOMAIN Tail(s) = 1 .. Len(s) - 1
         /\ \A i \in 1 .. Len(s) - 1 : Tail(s)[i] = s[i + 1]
         /\ \A x : Contains(Tail(s), x) <=> \E i \in 1 .. Len(s) - 1 : Tail(s)[i] = x
<1> DEFINE t == Tail(s)
<1>1. /\ t \in Seq(S) /\ Len(t) = Len(s) - 1
      /\ Len(s) \in Nat \ {0} /\ Head(s) = s[1] /\ Head(s) \in S
      /\ \A i \in 1 .. Len(s) - 1 : t[i] = s[i + 1]
  BY HeadTailProperties, LenProperties, EmptySeq
<1> HIDE DEF t
<1>2. DOMAIN s = 1 .. Len(s) /\ DOMAIN t = 1 .. Len(t)
  BY <1>1, LenProperties
<1>3. \A x : Contains(t, x) <=> \E i \in 1 .. Len(s) - 1 : t[i] = x
  BY <1>1 DEF Contains
<1> QED
  BY <1>1, <1>2, <1>3 DEF t

LEMMA AppendShape ==
  ASSUME NEW S, NEW s \in Seq(S), NEW e \in S
  PROVE  /\ Len(s) \in Nat /\ DOMAIN s = 1 .. Len(s)
         /\ DOMAIN Append(s, e) = 1 .. Len(s) + 1
         /\ \A i \in 1 .. Len(s) : Append(s, e)[i] = s[i]
         /\ Append(s, e)[Len(s) + 1] = e
<1>1. Append(s, e) \in Seq(S) /\ Len(Append(s, e)) = Len(s) + 1
  BY AppendProperties
<1>2. DOMAIN Append(s, e) = 1 .. Len(s) + 1
  BY <1>1, LenProperties
<1> QED
  BY <1>2, AppendProperties, LenProperties

LEMMA AppendIs ==
  ASSUME NEW S, NEW s \in Seq(S), NEW t \in Seq(S), NEW e \in S,
         Len(t) = Len(s) + 1, \A i \in 1 .. Len(s) : t[i] = s[i], t[Len(s) + 1] = e
  PROVE  Append(s, e) = t
<1>1. /\ Append(s, e) \in Seq(S) /\ Len(Append(s, e)) = Len(t) /\ Len(s) \in Nat
      /\ \A i \in 1 .. Len(s) : Append(s, e)[i] = t[i]
      /\ Append(s, e)[Len(s) + 1] = t[Len(s) + 1]
  BY AppendProperties, LenProperties
<1>2. \A i \in 1 .. Len(Append(s, e)) : Append(s, e)[i] = t[i]
  BY <1>1
<1> QED
  BY <1>1, <1>2, SeqEqual

LEMMA AppendPair ==
  ASSUME NEW a, NEW b
  PROVE  Append(<<a>>, b) = <<a, b>>
<1>1. /\ <<a>> \in Seq({a, b}) /\ <<a, b>> \in Seq({a, b}) /\ b \in {a, b}
      /\ Len(<<a>>) = 1 /\ Len(<<a, b>>) = 2
      /\ <<a>>[1] = a /\ <<a, b>>[1] = a /\ <<a, b>>[2] = b
  OBVIOUS
<1>2. ASSUME NEW S, NEW s \in Seq(S), NEW t \in Seq(S), NEW e \in S,
             Len(s) = 1, Len(t) = 2, t[1] = s[1], t[2] = e
      PROVE  Append(s, e) = t
  <2>1. Len(t) = Len(s) + 1 /\ t[Len(s) + 1] = e
    BY <1>2
  <2>2. \A i \in 1 .. Len(s) : t[i] = s[i]
    BY <1>2
  <2> QED
    BY <2>1, <2>2, AppendIs
<1> QED
  BY <1>1, <1>2, Zenon

LEMMA TailWithin ==
  ASSUME NEW S, NEW s \in Seq(S), s # <<>>
  PROVE  Contains(s, Head(s)) /\ \A x : Contains(Tail(s), x) => Contains(s, x)
<1> DEFINE t == Tail(s)
<1>1. /\ Len(s) \in Nat \ {0} /\ Head(s) = s[1]
      /\ \A i \in 1 .. Len(s) - 1 : t[i] = s[i + 1]
      /\ \A x : Contains(t, x) <=> \E i \in 1 .. Len(s) - 1 : t[i] = x
  BY TailShape
<1>2. \A x : Contains(s, x) <=> \E i \in 1 .. Len(s) : s[i] = x
  BY Positions
<1> HIDE DEF t
<1>3. ASSUME NEW x, Contains(t, x) PROVE Contains(s, x)
  <2>1. PICK i \in 1 .. Len(s) - 1 : t[i] = x
    BY <1>1, <1>3
  <2>2. i + 1 \in 1 .. Len(s) /\ s[i + 1] = x
    BY <1>1, <2>1
  <2> QED
    BY <1>2, <2>2
<1> QED
  BY <1>1, <1>2, <1>3 DEF t

LEMMA OrderedAppend ==
  ASSUME NEW S, NEW s \in Seq(S), NEW e \in S, NEW R, OrderedBy(s, R),
         \A x \in S : Contains(s, x) => <<x, e>> \in R
  PROVE  OrderedBy(Append(s, e), R)
<1> DEFINE t == Append(s, e)
<1>0. \A i \in 1 .. Len(s) : s[i] \in S /\ Contains(s, s[i])
  BY Positions
<1>1. /\ Len(s) \in Nat /\ DOMAIN t = 1 .. Len(s) + 1 /\ DOMAIN s = 1 .. Len(s)
      /\ \A i \in 1 .. Len(s) : t[i] = s[i]
      /\ t[Len(s) + 1] = e
  BY AppendShape
<1> HIDE DEF t
<1>2. SUFFICES ASSUME NEW p \in 1 .. Len(s) + 1, NEW q \in 1 .. Len(s) + 1, p < q
               PROVE  <<t[p], t[q]>> \in R
  BY <1>1 DEF OrderedBy, t
<1>3. p \in 1 .. Len(s)
  BY <1>1, <1>2
<1>4. CASE q \in 1 .. Len(s)
  BY <1>1, <1>2, <1>3, <1>4 DEF OrderedBy
<1>5. CASE q = Len(s) + 1
  BY <1>0, <1>1, <1>3, <1>5
<1> QED
  BY <1>1, <1>4, <1>5

LEMMA OrderedTail ==
  ASSUME NEW S, NEW s \in Seq(S), s # <<>>, NEW R, OrderedBy(s, R)
  PROVE  /\ OrderedBy(Tail(s), R)
         /\ \A x : Contains(Tail(s), x) => Contains(s, x) /\ <<Head(s), x>> \in R
<1> DEFINE t == Tail(s)
<1>1. /\ Len(s) \in Nat \ {0} /\ Head(s) = s[1]
      /\ \A i \in 1 .. Len(s) - 1 : t[i] = s[i + 1]
      /\ DOMAIN t = 1 .. Len(s) - 1 /\ DOMAIN s = 1 .. Len(s)
      /\ \A x : Contains(t, x) <=> \E i \in 1 .. Len(s) - 1 : t[i] = x
  BY TailShape
<1>0. \A x : Contains(s, x) <=> \E i \in 1 .. Len(s) : s[i] = x
  BY Positions
<1> HIDE DEF t
<1>2. ASSUME NEW p \in 1 .. Len(s) - 1, NEW q \in 1 .. Len(s) - 1, p < q
      PROVE  <<t[p], t[q]>> \in R
  <2>1. p + 1 \in DOMAIN s /\ q + 1 \in DOMAIN s /\ p + 1 < q + 1
    BY <1>1, <1>2
  <2>2. <<s[p + 1], s[q + 1]>> \in R
    BY <2>1 DEF OrderedBy
  <2> QED
    BY <1>1, <2>2
<1>3. ASSUME NEW x, Contains(t, x) PROVE Contains(s, x) /\ <<s[1], x>> \in R
  <2>1. PICK i \in 1 .. Len(s) - 1 : t[i] = x
    BY <1>1, <1>3
  <2>2. 1 \in DOMAIN s /\ i + 1 \in DOMAIN s /\ 1 < i + 1 /\ s[i + 1] = x
    BY <1>1, <2>1
  <2>3. <<s[1], s[i + 1]>> \in R
    BY <2>2 DEF OrderedBy
  <2> QED
    BY <1>0, <1>1, <2>2, <2>3
<1> QED
  BY <1>1, <1>2, <1>3 DEF OrderedBy, t

LEMMA OrderedRemoveFirst ==
  ASSUME NEW S, NEW s \in Seq(S), NEW e, Contains(s, e), NEW R, OrderedBy(s, R)
  PROVE  /\ OrderedBy(RemoveFirst(s, e), R)
         /\ \A x : Contains(RemoveFirst(s, e), x) => Contains(s, x)
         /\ <<e, e>> \notin R => ~Contains(RemoveFirst(s, e), e)
<1>1. PICK i \in 1 .. Len(s) : s[i] = e /\ RemoveFirst(s, e) = RemoveAt(s, i)
  BY SelectFirst, Positions
<1> DEFINE t == RemoveFirst(s, e)
           Old(j) == IF j < i THEN j ELSE j + 1
<1>2. /\ t \in Seq(S) /\ Len(t) = Len(s) - 1
      /\ \A j \in 1 .. Len(s) - 1 : t[j] = IF j < i THEN s[j] ELSE s[j + 1]
  BY <1>1, RemoveAtShape
<1>3. /\ Len(s) \in Nat /\ DOMAIN t = 1 .. Len(s) - 1 /\ DOMAIN s = 1 .. Len(s)
      /\ \A x : Contains(s, x) <=> \E j \in 1 .. Len(s) : s[j] = x
      /\ \A x : Contains(t, x) <=> \E j \in 1 .. Len(s) - 1 : t[j] = x
  BY <1>2, Positions
<1> HIDE DEF t
<1>4. \A j \in 1 .. Len(s) - 1 : Old(j) \in 1 .. Len(s) /\ Old(j) # i /\ t[j] = s[Old(j)]
  BY <1>2, <1>3
<1>5. ASSUME NEW p \in 1 .. Len(s) - 1, NEW q \in 1 .. Len(s) - 1, p < q
      PROVE  <<t[p], t[q]>> \in R
  <2>1. Old(p) \in DOMAIN s /\ Old(q) \in DOMAIN s /\ Old(p) < Old(q)
    BY <1>3, <1>4, <1>5
  <2>2. <<s[Old(p)], s[Old(q)]>> \in R
    BY <2>1 DEF OrderedBy
  <2> QED
    BY <1>4, <2>2
<1>6. \A x : Contains(t, x) => Contains(s, x)
  BY <1>3, <1>4
<1>7. ASSUME Contains(t, e) PROVE <<e, e>> \in R
  <2>1. PICK j \in 1 .. Len(s) - 1 : t[j] = e
    BY <1>3, <1>7
  <2>2. /\ Old(j) \in DOMAIN s /\ i \in DOMAIN s /\ s[Old(j)] = e /\ s[i] = e
        /\ Old(j) < i \/ i < Old(j)
    BY <1>1, <1>3, <1>4, <2>1
  <2> QED
    BY <2>2 DEF OrderedBy
<1> QED
  BY <1>3, <1>5, <1>6, <1>7 DEF OrderedBy, t

LEMMA OrderedConcat ==
  ASSUME NEW S, NEW s \in Seq(S), NEW t \in Seq(S), NEW R,
         OrderedBy(s, R), OrderedBy(t, R),
         \A x \in S, y \in S : Contains(s, x) /\ Contains(t, y) => <<x, y>> \in R
  PROVE  OrderedBy(s \o t, R)
<1> DEFINE u == s \o t
<1>1. /\ u \in Seq(S) /\ Len(u) = Len(s) + Len(t)
      /\ \A i \in 1 .. Len(s) + Len(t) : u[i] = IF i <= Len(s) THEN s[i] ELSE t[i - Len(s)]
  BY ConcatProperties
<1>2. /\ Len(s) \in Nat /\ Len(t) \in Nat /\ DOMAIN u = 1 .. Len(s) + Len(t)
      /\ DOMAIN s = 1 .. Len(s) /\ DOMAIN t = 1 .. Len(t)
      /\ \A i \in 1 .. Len(s) : s[i] \in S /\ Contains(s, s[i])
      /\ \A i \in 1 .. Len(t) : t[i] \in S /\ Contains(t, t[i])
  BY <1>1, Positions
<1> HIDE DEF u
<1>3. SUFFICES ASSUME NEW p \in DOMAIN u, NEW q \in DOMAIN u, p < q
               PROVE  <<u[p], u[q]>> \in R
  BY DEF OrderedBy, u
<1>7. p \in Nat /\ q \in Nat /\ Len(s) \in Nat
  BY <1>2
<1>4. CASE q <= Len(s)
  <2>1. p \in DOMAIN s /\ q \in DOMAIN s /\ u[p] = s[p] /\ u[q] = s[q]
    BY <1>1, <1>2, <1>3, <1>4
  <2> QED
    BY <1>3, <2>1 DEF OrderedBy
<1>5. CASE p > Len(s)
  <2>1. /\ p - Len(s) \in DOMAIN t /\ q - Len(s) \in DOMAIN t /\ p - Len(s) < q - Len(s)
        /\ u[p] = t[p - Len(s)] /\ u[q] = t[q - Len(s)]
    BY <1>1, <1>2, <1>3, <1>5
  <2> QED
    BY <2>1 DEF OrderedBy
<1>6. CASE p <= Len(s) /\ q > Len(s)
  <2>1. /\ p \in 1 .. Len(s) /\ q - Len(s) \in 1 .. Len(t)
        /\ u[p] = s[p] /\ u[q] = t[q - Len(s)]
    BY <1>1, <1>2, <1>3, <1>6
  <2> QED
    BY <1>2, <2>1
<1>8. q <= Len(s) \/ p > Len(s) \/ (p <= Len(s) /\ q > Len(s))
  BY <1>7
<1> QED
  BY <1>4, <1>5, <1>6, <1>8

LEMMA OrderedSingle == ASSUME NEW x, NEW R PROVE OrderedBy(<<x>>, R)
<1>1. \A p, q \in DOMAIN <<x>> : ~(p < q)
  OBVIOUS
<1> QED
  BY <1>1 DEF OrderedBy

LEMMA OrderedMore ==
  ASSUME NEW S, NEW s \in Seq(S), NEW R, NEW Q, OrderedBy(s, R),
         \A x, y \in S : <<x, y>> \in R => <<x, y>> \in Q
  PROVE  OrderedBy(s, Q)
BY Positions DEF OrderedBy

-----------------------------------------------------------------------------
\* How often x is an entry of s.
Count(s, x) == Cardinality({k \in DOMAIN s : s[k] = x})

LEMMA CountFinite ==
  ASSUME NEW S, NEW s \in Seq(S), NEW x
  PROVE  IsFiniteSet({k \in DOMAIN s : s[k] = x}) /\ Count(s, x) \in Nat
<1>1. DOMAIN s = 1 .. Len(s) /\ Len(s) \in Nat
  BY Positions
<1>2. IsFiniteSet(1 .. Len(s))
  BY <1>1, FS_Interval
<1>3. IsFiniteSet({k \in DOMAIN s : s[k] = x})
  BY <1>1, <1>2, FS_Subset
<1> QED
  BY <1>3, FS_CardinalityType DEF Count

LEMMA CountAppend ==
  ASSUME NEW S, NEW s \in Seq(S), NEW e \in S, NEW x
  PROVE  Count(Append(s, e), x) = IF e = x THEN Count(s, x) + 1 ELSE Count(s, x)
<1> DEFINE t == Append(s, e)
           A == {k \in DOMAIN s : s[k] = x}
           B == {k \in DOMAIN t : t[k] = x}
<1>1. /\ DOMAIN t = 1 .. Len(s) + 1 /\ Len(s) \in Nat /\ DOMAIN s = 1 .. Len(s)
      /\ \A i \in 1 .. Len(s) : t[i] = s[i]
      /\ t[Len(s) + 1] = e
  BY AppendShape
<1> HIDE DEF t
<1>6. IsFiniteSet(A)
  BY CountFinite
<1>2. IsFiniteSet(A) /\ Len(s) + 1 \notin A
  BY <1>1, <1>6
<1>3. CASE e = x
  <2>1. B = A \union {Len(s) + 1}
    BY <1>1, <1>3
  <2> HIDE DEF A, B
  <2>2. Cardinality(B) = Cardinality(A) + 1
    BY <1>2, <2>1, FS_AddElement
  <2> QED
    BY <1>3, <2>2 DEF Count, A, B, t
<1>4. CASE e # x
  <2>1. B = A
    BY <1>1, <1>4
  <2> QED
    BY <1>4, <2>1 DEF Count, t
<1> QED
  BY <1>3, <1>4

LEMMA CountTail ==
  ASSUME NEW S, NEW s \in Seq(S), s # <<>>, NEW x
  PROVE  Count(s, x) = IF Head(s) = x THEN Count(Tail(s), x) + 1 ELSE Count(Tail(s), x)
<1> DEFINE t == Tail(s)
           A == {k \in DOMAIN t : t[k] = x}
           B == {k \in DOMAIN s : s[k] = x}
           C == B \ {1}
           up == [k \in A |-> k + 1]
<1>1. /\ t \in Seq(S) /\ Len(s) \in Nat \ {0} /\ Head(s) = s[1]
      /\ \A i \in 1 .. Len(s) - 1 : t[i] = s[i + 1]
      /\ DOMAIN t = 1 .. Len(s) - 1 /\ DOMAIN s = 1 .. Len(s)
  BY TailShape
<1>2. IsFiniteSet(A) /\ IsFiniteSet(B)
  BY <1>1, CountFinite
<1> HIDE DEF t
<1>3. up \in Bijection(A, C)
  <2>1. up \in [A -> C]
    BY <1>1
  <2>2. \A a, b \in A : up[a] = up[b] => a = b
    BY <1>1
  <2>3. \A c \in C : \E a \in A : up[a] = c
    <3> TAKE c \in C
    <3>1. c \in 2 .. Len(s) /\ s[c] = x
      BY <1>1
    <3>2. c - 1 \in 1 .. Len(s) - 1 /\ (c - 1) + 1 = c
      BY <1>1, <3>1
    <3>3. c - 1 \in A
      BY <1>1, <3>1, <3>2
    <3> QED
      BY <3>2, <3>3
  <2> HIDE DEF A, C, up
  <2> QED
    BY <2>1, <2>2, <2>3 DEF Bijection, Injection, Surjection, IsInjective
<1>4. Cardinality(C) = Cardinality(A)
  BY <1>2, <1>3, FS_Bijection DEF ExistsBijection
<1>5. CASE Head(s) = x
  <2>1. B = C \union {1} /\ 1 \notin C /\ IsFiniteSet(C)
    BY <1>1, <1>2, <1>5, FS_Subset
  <2> HIDE DEF B, C
  <2>2. Cardinality(B) = Cardinality(C) + 1
    BY <2>1, FS_AddElement
  <2> QED
    BY <1>4, <1>5, <2>2 DEF Count, A, B, t
<1>6. CASE Head(s) # x
  <2>1. B = C
    BY <1>1, <1>6
  <2> HIDE DEF C
  <2> QED
    BY <1>4, <1>6, <2>1 DEF Count, t
<1> QED
  BY <1>5, <1>6

LEMMA CountConcat ==
  ASSUME NEW S, NEW s \in Seq(S), NEW t \in Seq(S), NEW x, ~Contains(t, x)
  PROVE  Count(s \o t, x) = Count(s, x)
<1> DEFINE u == s \o t
<1>1. /\ u \in Seq(S) /\ Len(u) = Len(s) + Len(t)
      /\ \A i \in 1 .. Len(s) + Len(t) : u[i] = IF i <= Len(s) THEN s[i] ELSE t[i - Len(s)]
  BY ConcatProperties
<1>2. /\ Len(s) \in Nat /\ Len(t) \in Nat /\ DOMAIN u = 1 .. Len(s) + Len(t)
      /\ DOMAIN s = 1 .. Len(s) /\ \A i \in 1 .. Len(t) : t[i] # x
  BY <1>1, Positions
<1> HIDE DEF u
<1>3. \A k \in DOMAIN u : u[k] = x => k \in DOMAIN s
  BY <1>1, <1>2
<1>4. \A k \in DOMAIN s : k \in DOMAIN u /\ u[k] = s[k]
  BY <1>1, <1>2
<1>5. {k \in DOMAIN u : u[k] = x} = {k \in DOMAIN s : s[k] = x}
  BY <1>3, <1>4
<1> QED
  BY <1>5 DEF Count, u

LEMMA CountNone ==
  ASSUME NEW S, NEW s \in Seq(S), NEW x, ~Contains(s, x)
  PROVE  Count(s, x) = 0
<1>1. {k \in DOMAIN s : s[k] = x} = {}
  BY Positions
<1> QED
  BY <1>1, FS_EmptySet DEF Count
=============================================================================
