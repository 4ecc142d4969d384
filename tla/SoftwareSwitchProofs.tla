------------------------ MODULE SoftwareSwitchProofs ------------------------
(***************************************************************************)
(* The operators of FlowTable for tables of any length, with the binary    *)
(* search of add_entry that computes one of them; then SoftwareSwitch: its *)
(* table stays typed, bounded, sorted and free of duplicates under every   *)
(* sequence of messages, packets and sweeps.                               *)
(***************************************************************************)
EXTENDS SoftwareSwitchProps, TableSearch, SequenceTheorems, WellFoundedInduction,
        FiniteSetTheorems, TLAPS
-----------------------------------------------------------------------------
(* Tables.                                                                 *)

(***************************************************************************)
(* Induction on a set of naturals: the form of the induction principle the *)
(* provers can use, as it takes no operator parameter.                     *)
(***************************************************************************)
LEMMA NatSetInduction ==
  ASSUME NEW S, 0 \in S, \A n \in Nat : n \in S => n + 1 \in S
  PROVE  \A n \in Nat : n \in S
<1> DEFINE T == {n \in Nat : n \notin S}
<1> SUFFICES ASSUME T # {} PROVE FALSE
  OBVIOUS
<1>1. PICK x \in T : \A y \in T : ~ (<<y, x>> \in OpToRel(<, Nat))
  BY NatLessThanWellFounded, WFMin, T \subseteq Nat
<1>2. x \in Nat /\ x # 0 /\ x - 1 \in Nat
  OBVIOUS
<1>3. <<x - 1, x>> \in OpToRel(<, Nat)
  BY <1>2 DEF OpToRel
<1>4. x - 1 \in S
  BY <1>1, <1>2, <1>3
<1> QED
  BY <1>2, <1>4

\* A set of naturals that is not empty has a least element.
LEMMA MinimumExists ==
  ASSUME NEW S, S \subseteq Nat, S # {}
  PROVE  \E m \in S : \A k \in S : m <= k
<1>1. PICK m \in S : \A k \in S : ~ (<<k, m>> \in OpToRel(<, Nat))
  BY NatLessThanWellFounded, WFMin
<1>2. ASSUME NEW k \in S PROVE m <= k
  <2>1. m \in Nat /\ k \in Nat
    OBVIOUS
  <2>2. ~(k < m)
    BY <1>1, <2>1 DEF OpToRel
  <2> QED BY <2>1, <2>2
<1> QED BY <1>2

(***************************************************************************)
(* InsertAt(t, i, e) is t with e put in position i, the others in order.   *)
(***************************************************************************)
LEMMA InsertAtProperties ==
  ASSUME NEW E, NEW t \in Seq(E), NEW e \in E, NEW i \in 1 .. Len(t) + 1
  PROVE  /\ InsertAt(t, i, e) \in Seq(E)
         /\ Len(InsertAt(t, i, e)) = Len(t) + 1
         /\ \A j \in 1 .. Len(t) + 1 :
              InsertAt(t, i, e)[j] = IF j < i THEN t[j] ELSE IF j = i THEN e ELSE t[j - 1]
<1> DEFINE l == SubSeq(t, 1, i - 1)
           r == SubSeq(t, i, Len(t))
<1>1. l \in Seq(E) /\ Len(l) = i - 1 /\ \A j \in 1 .. i - 1 : l[j] = t[j]
  BY SubSeqProperties
<1>2. r \in Seq(E) /\ Len(r) = Len(t) - i + 1
      /\ \A j \in 1 .. Len(t) - i + 1 : r[j] = t[i + j - 1]
  BY SubSeqProperties
<1>3. InsertAt(t, i, e) = l \o <<e>> \o r
  BY DEF InsertAt
<1> HIDE DEF l, r
<1>4. /\ l \o <<e>> \in Seq(E) /\ Len(l \o <<e>>) = i
      /\ \A j \in 1 .. i : (l \o <<e>>)[j] = IF j < i THEN t[j] ELSE e
  BY <1>1
<1> DEFINE k == l \o <<e>>
<1>k. k \in Seq(E) /\ r \in Seq(E)
  BY <1>2, <1>4
<1> HIDE DEF k
<1>5. /\ k \o r \in Seq(E) /\ Len(k \o r) = Len(k) + Len(r)
      /\ \A j \in 1 .. Len(k) + Len(r) :
           (k \o r)[j] = IF j <= Len(k) THEN k[j] ELSE r[j - Len(k)]
  BY <1>k, ConcatProperties
<1>6. InsertAt(t, i, e) = k \o r
  BY <1>3 DEF k
<1>7. ASSUME NEW j \in 1 .. Len(t) + 1
      PROVE  (k \o r)[j] = IF j < i THEN t[j] ELSE IF j = i THEN e ELSE t[j - 1]
  <2>1. CASE j <= i
    BY <1>2, <1>4, <1>5, <2>1 DEF k
  <2>2. CASE j > i
    <3>1. Len(k) = i /\ Len(r) = Len(t) - i + 1
      BY <1>2, <1>4 DEF k
    <3>2. (k \o r)[j] = r[j - i] /\ j - i \in 1 .. Len(t) - i + 1
      BY <1>5, <2>2, <3>1
    <3> QED BY <1>2, <2>2, <3>2
  <2>3. j <= i \/ j > i
    BY LenProperties
  <2> QED BY <2>1, <2>2, <2>3, Zenon
<1>8. Len(k \o r) = Len(t) + 1
  BY <1>2, <1>4, <1>5, LenProperties DEF k
<1> QED BY <1>5, <1>6, <1>7, <1>8
-----------------------------------------------------------------------------
Kept(t, gone, f, n) ==
  f = [m \in 0 .. n |->
         IF m = 0 THEN <<>>
         ELSE IF t[m] \in gone THEN f[m - 1] ELSE Append(f[m - 1], t[m])]

LEMMA KeptExists ==
  ASSUME NEW t, NEW gone
  PROVE  \A n \in Nat : \E f : Kept(t, gone, f, n)
<1> DEFINE S == {n \in Nat : \E f : Kept(t, gone, f, n)}
<1>1. 0 \in S
  <2> DEFINE f == [m \in 0 .. 0 |-> <<>>]
  <2>1. Kept(t, gone, f, 0)
    BY DEF Kept
  <2> QED BY <2>1
<1>2. ASSUME NEW n \in Nat, n \in S PROVE n + 1 \in S
  <2>1. PICK f : Kept(t, gone, f, n)
    BY <1>2
  <2> DEFINE g == [m \in 0 .. n + 1 |->
         IF m = 0 THEN <<>>
         ELSE IF t[m] \in gone THEN f[m - 1] ELSE Append(f[m - 1], t[m])]
  <2>2. ASSUME NEW m \in 0 .. n PROVE g[m] = f[m]
    <3>1. g[m] = IF m = 0 THEN <<>>
                 ELSE IF t[m] \in gone THEN f[m - 1] ELSE Append(f[m - 1], t[m])
      BY m \in 0 .. n + 1
    <3>2. f[m] = IF m = 0 THEN <<>>
                 ELSE IF t[m] \in gone THEN f[m - 1] ELSE Append(f[m - 1], t[m])
      BY <2>1, Zenon DEF Kept
    <3> QED BY <3>1, <3>2
  <2>3. Kept(t, gone, g, n + 1)
    <3>1. ASSUME NEW m \in 0 .. n + 1, m # 0 PROVE g[m - 1] = f[m - 1]
      <4>1. m - 1 \in 0 .. n
        BY <3>1
      <4> HIDE DEF g
      <4> QED BY <4>1, <2>2
    <3>2. g = [m \in 0 .. n + 1 |->
                 IF m = 0 THEN <<>>
                 ELSE IF t[m] \in gone THEN g[m - 1] ELSE Append(g[m - 1], t[m])]
      <4> DEFINE h == [m \in 0 .. n + 1 |->
                 IF m = 0 THEN <<>>
                 ELSE IF t[m] \in gone THEN g[m - 1] ELSE Append(g[m - 1], t[m])]
      <4>1. ASSUME NEW m \in 0 .. n + 1 PROVE h[m] = g[m]
        <5>1. h[m] = IF m = 0 THEN <<>>
                 ELSE IF t[m] \in gone THEN g[m - 1] ELSE Append(g[m - 1], t[m])
          BY Zenon
        <5>2. g[m] = IF m = 0 THEN <<>>
                 ELSE IF t[m] \in gone THEN f[m - 1] ELSE Append(f[m - 1], t[m])
          BY Zenon
        <5> HIDE DEF g, h
        <5> QED BY <5>1, <5>2, <3>1
      <4>2. h = g
        BY <4>1, Zenon
      <4> QED BY <4>2
    <3> HIDE DEF g
    <3> QED BY <3>2 DEF Kept
  <2> QED BY <2>3
<1>3. \A n \in Nat : n \in S
  <2> HIDE DEF S
  <2> QED BY <1>1, <1>2, NatSetInduction
<1> QED BY <1>3

LEMMA RemoveUnfold ==
  ASSUME NEW t, NEW gone, Len(t) \in Nat
  PROVE  \E f : Kept(t, gone, f, Len(t)) /\ RemoveSpecificEntries(t, gone) = f[Len(t)]
<1> DEFINE F == CHOOSE f : Kept(t, gone, f, Len(t))
<1>1. Kept(t, gone, F, Len(t))
  BY KeptExists
<1>2. RemoveSpecificEntries(t, gone) = F[Len(t)]
  BY DEF RemoveSpecificEntries, Kept
<1> QED BY <1>1, <1>2

(***************************************************************************)
(* What is left after a removal is what was there and is not removed, in   *)
(* the same order: any relation R between earlier and later entries holds  *)
(* of the result.                                                          *)
(***************************************************************************)
Prefix(t, gone, E, R, u, n) ==
  /\ u \in Seq(E) /\ Len(u) <= n
  /\ \A j \in 1 .. Len(u) : u[j] \notin gone /\ \E i \in 1 .. n : u[j] = t[i]
  /\ \A i \in 1 .. n : t[i] \notin gone => \E j \in 1 .. Len(u) : u[j] = t[i]
  /\ \A i, j \in 1 .. Len(u) : i < j => <<u[i], u[j]>> \in R
  /\ Len(u) = n => \A i \in 1 .. n : t[i] \notin gone

LEMMA PrefixStep ==
  ASSUME NEW E, NEW t \in Seq(E), NEW gone, NEW R, NEW n \in Nat, n + 1 \in 1 .. Len(t),
         \A i, j \in 1 .. Len(t) : i < j => <<t[i], t[j]>> \in R,
         NEW u, Prefix(t, gone, E, R, u, n)
  PROVE  Prefix(t, gone, E, R,
                IF t[n + 1] \in gone THEN u ELSE Append(u, t[n + 1]), n + 1)
<1>1. CASE t[n + 1] \in gone
  BY <1>1 DEF Prefix
<1>2. CASE t[n + 1] \notin gone
  <2> DEFINE v == Append(u, t[n + 1])
  <2>1. /\ v \in Seq(E) /\ Len(v) = Len(u) + 1 /\ v[Len(u) + 1] = t[n + 1]
        /\ \A j \in 1 .. Len(u) : v[j] = u[j]
    BY t[n + 1] \in E, AppendProperties DEF Prefix
  <2>2. Len(u) \in Nat /\ Len(v) <= n + 1
    BY <2>1 DEF Prefix
  <2> HIDE DEF v
  <2>3. ASSUME NEW j \in 1 .. Len(v)
        PROVE  v[j] \notin gone /\ \E i \in 1 .. n + 1 : v[j] = t[i]
    <3>1. CASE j = Len(u) + 1
      BY <1>2, <2>1, <3>1
    <3>2. CASE j \in 1 .. Len(u)
      <4>1. u[j] \notin gone /\ \E i \in 1 .. n : u[j] = t[i]
        BY <3>2 DEF Prefix
      <4>2. 1 .. n \subseteq 1 .. n + 1 /\ v[j] = u[j]
        BY <2>1, <3>2
      <4> QED BY <4>1, <4>2
    <3> QED BY <2>1, <2>2, <3>1, <3>2
  <2>4. ASSUME NEW i \in 1 .. n + 1, t[i] \notin gone
        PROVE  \E j \in 1 .. Len(v) : v[j] = t[i]
    <3>1. CASE i = n + 1
      BY <2>1, <2>2, <3>1
    <3>2. CASE i \in 1 .. n
      <4>1. PICK j \in 1 .. Len(u) : u[j] = t[i]
        BY <2>4, <3>2 DEF Prefix
      <4> QED BY <4>1, <2>1, <2>2
    <3> QED BY <3>1, <3>2
  <2>5. ASSUME NEW i \in 1 .. Len(v), NEW j \in 1 .. Len(v), i < j
        PROVE  <<v[i], v[j]>> \in R
    <3>1. CASE j = Len(u) + 1
      <4>1. i \in 1 .. Len(u)
        BY <2>2, <2>5, <3>1
      <4>2. PICK k \in 1 .. n : u[i] = t[k]
        BY <4>1 DEF Prefix
      <4>3. <<t[k], t[n + 1]>> \in R
        BY <4>2
      <4> QED BY <2>1, <3>1, <4>1, <4>2, <4>3
    <3>2. CASE j \in 1 .. Len(u)
      <4>1. i \in 1 .. Len(u)
        BY <2>2, <2>5, <3>2
      <4>2. <<u[i], u[j]>> \in R
        BY <2>5, <3>2, <4>1 DEF Prefix
      <4> QED BY <2>1, <3>2, <4>1, <4>2
    <3> QED BY <2>1, <2>2, <3>1, <3>2
  <2>6. ASSUME Len(v) = n + 1, NEW i \in 1 .. n + 1 PROVE t[i] \notin gone
    BY <1>2, <2>1, <2>2, <2>6 DEF Prefix
  <2>7. Prefix(t, gone, E, R, v, n + 1)
    BY <2>1, <2>2, <2>3, <2>4, <2>5, <2>6 DEF Prefix
  <2> QED BY <1>2, <2>7 DEF v
<1> QED BY <1>1, <1>2

LEMMA RemoveProperties ==
  ASSUME NEW E, NEW t \in Seq(E), NEW gone, NEW R,
         \A i, j \in 1 .. Len(t) : i < j => <<t[i], t[j]>> \in R
  PROVE  Prefix(t, gone, E, R, RemoveSpecificEntries(t, gone), Len(t))
<1>1. PICK f : Kept(t, gone, f, Len(t)) /\ RemoveSpecificEntries(t, gone) = f[Len(t)]
  BY RemoveUnfold
<1>2. \A m \in 0 .. Len(t) :
        f[m] = IF m = 0 THEN <<>>
               ELSE IF t[m] \in gone THEN f[m - 1] ELSE Append(f[m - 1], t[m])
  BY <1>1, Zenon DEF Kept
<1> DEFINE S == {n \in Nat : n <= Len(t) => Prefix(t, gone, E, R, f[n], n)}
<1>3. 0 \in S
  <2>1. f[0] = <<>>
    BY <1>2
  <2>2. Prefix(t, gone, E, R, <<>>, 0)
    BY EmptySeq DEF Prefix
  <2> QED BY <2>1, <2>2
<1>4. ASSUME NEW n \in Nat, n \in S PROVE n + 1 \in S
  <2> SUFFICES ASSUME n + 1 <= Len(t) PROVE Prefix(t, gone, E, R, f[n + 1], n + 1)
    OBVIOUS
  <2>1. Prefix(t, gone, E, R, f[n], n) /\ n + 1 \in 1 .. Len(t)
    BY <1>4
  <2>2. f[n + 1] = IF t[n + 1] \in gone THEN f[n] ELSE Append(f[n], t[n + 1])
    BY <1>2, <2>1
  <2>3. Prefix(t, gone, E, R,
               IF t[n + 1] \in gone THEN f[n] ELSE Append(f[n], t[n + 1]), n + 1)
    BY <2>1, PrefixStep
  <2> QED BY <2>2, <2>3
<1> HIDE DEF S
<1>5. \A n \in Nat : n \in S
  BY <1>3, <1>4, NatSetInduction
<1> QED BY <1>1, <1>5 DEF S

(***************************************************************************)
(* The binary search has a place to stop: in a sorted table some index     *)
(* separates the entries of higher priority from the others.               *)
(***************************************************************************)
LEMMA EffectivePriorityType ==
  ASSUME NEW e \in Entry
  PROVE  EffectivePriority(e) \in Nat
<1>1. MaxPriority \in Nat
  BY DEF MaxPriority
<1>2. e.priority \in Priorities
  BY DEF Entry
<1>3. e.priority \in Nat
  <2>1. \A p \in Priorities : p \in Nat
    BY <1>1, PrioritiesAssumption
  <2> QED BY <1>2, <2>1, Zenon
<1>4. ExactPriority \in Nat
  BY <1>1 DEF ExactPriority
<1> QED BY <1>3, <1>4, Zenon DEF EffectivePriority

LEMMA InsertIndexProperties ==
  ASSUME NEW t \in Seq(Entry), Sorted(t), NEW p \in Nat
  PROVE  InsertIndex(t, p) \in 1 .. Len(t) + 1 /\ IsInsertIndex(t, p, InsertIndex(t, p))
<1> DEFINE Higher(i) == \A j \in 1 .. i - 1 : EffectivePriority(t[j]) > p
           S == {n \in Nat : n <= Len(t) => Higher(n + 1)}
<1> SUFFICES \E i \in 1 .. Len(t) + 1 : IsInsertIndex(t, p, i)
  BY DEF InsertIndex
<1>1. \A j \in 1 .. Len(t) : EffectivePriority(t[j]) \in Nat
  BY EffectivePriorityType, ElementOfSeq
<1>2. SUFFICES ASSUME \A i \in 1 .. Len(t) + 1 : ~IsInsertIndex(t, p, i) PROVE FALSE
  OBVIOUS
<1>3. 0 \in S
  OBVIOUS
<1>4. ASSUME NEW n \in Nat, n \in S PROVE n + 1 \in S
  <2> SUFFICES ASSUME n + 1 <= Len(t) PROVE Higher(n + 2)
    OBVIOUS
  <2>1. Higher(n + 1) /\ n + 1 \in 1 .. Len(t)
    BY <1>4
  <2>2. EffectivePriority(t[n + 1]) > p
    <3>1. SUFFICES ASSUME p >= EffectivePriority(t[n + 1]) PROVE FALSE
      BY <1>1, <2>1
    <3>2. \A j \in n + 1 .. Len(t) : p >= EffectivePriority(t[j])
      BY <1>1, <2>1, <3>1 DEF Sorted
    <3> QED BY <1>2, <2>1, <3>2 DEF IsInsertIndex
  <2> QED BY <2>1, <2>2
<1>5. \A n \in Nat : n \in S
  <2> HIDE DEF S
  <2> QED BY <1>3, <1>4, NatSetInduction
<1>6. Higher(Len(t) + 1)
  BY <1>5
<1> QED BY <1>2, <1>6 DEF IsInsertIndex

LEMMA AddEntryProperties ==
  ASSUME NEW t \in Seq(Entry), Sorted(t), NEW e \in Entry
  PROVE  /\ AddEntry(t, e) \in Seq(Entry)
         /\ Len(AddEntry(t, e)) = Len(t) + 1
         /\ Sorted(AddEntry(t, e))
         /\ \E i \in 1 .. Len(t) + 1 : \A j \in 1 .. Len(t) + 1 :
              AddEntry(t, e)[j] = IF j < i THEN t[j] ELSE IF j = i THEN e ELSE t[j - 1]
<1> DEFINE p == EffectivePriority(e)
           i == InsertIndex(t, p)
           u == AddEntry(t, e)
<1>1. p \in Nat /\ \A j \in 1 .. Len(t) : EffectivePriority(t[j]) \in Nat
  BY EffectivePriorityType, ElementOfSeq
<1>2. i \in 1 .. Len(t) + 1 /\ IsInsertIndex(t, p, i)
  BY <1>1, InsertIndexProperties
<1>3. u = InsertAt(t, i, e)
  BY DEF AddEntry
<1>s. \A j, k \in 1 .. Len(t) : j < k => EffectivePriority(t[j]) >= EffectivePriority(t[k])
  BY DEF Sorted
<1> HIDE DEF i, u
<1>i. i \in 1 .. Len(t) + 1
  BY <1>2
<1>4. /\ u \in Seq(Entry) /\ Len(u) = Len(t) + 1
      /\ \A j \in 1 .. Len(t) + 1 :
           u[j] = IF j < i THEN t[j] ELSE IF j = i THEN e ELSE t[j - 1]
  <2>1. /\ InsertAt(t, i, e) \in Seq(Entry)
        /\ Len(InsertAt(t, i, e)) = Len(t) + 1
        /\ \A j \in 1 .. Len(t) + 1 :
             InsertAt(t, i, e)[j] = IF j < i THEN t[j] ELSE IF j = i THEN e ELSE t[j - 1]
    <3> HIDE DEF p
    <3> QED BY <1>i, InsertAtProperties, SMTT(30)
  <2> QED BY <1>3, <2>1, Zenon
<1>5. ASSUME NEW j \in 1 .. Len(u), NEW k \in 1 .. Len(u), j < k
      PROVE  EffectivePriority(u[j]) >= EffectivePriority(u[k])
  <2>1. CASE k < i
    <3>1. u[j] = t[j] /\ u[k] = t[k] /\ j \in 1 .. Len(t) /\ k \in 1 .. Len(t)
      BY <1>2, <1>4, <1>5, <2>1
    <3> QED BY <1>s, <1>5, <3>1
  <2>2. CASE k = i
    <3>1. u[j] = t[j] /\ u[k] = e /\ j \in 1 .. i - 1 /\ j \in 1 .. Len(t)
      BY <1>2, <1>4, <1>5, <2>2
    <3>2. EffectivePriority(t[j]) > p
      BY <1>2, <3>1 DEF IsInsertIndex
    <3> QED BY <1>1, <3>1, <3>2
  <2>3. CASE k > i /\ j = i
    <3>1. u[j] = e /\ u[k] = t[k - 1] /\ k - 1 \in i .. Len(t)
      BY <1>2, <1>4, <1>5, <2>3
    <3> QED BY <1>2, <3>1 DEF IsInsertIndex
  <2>4. CASE k > i /\ j > i
    <3>1. /\ u[j] = t[j - 1] /\ u[k] = t[k - 1] /\ j - 1 \in 1 .. Len(t)
          /\ k - 1 \in 1 .. Len(t) /\ j - 1 < k - 1
      BY <1>2, <1>4, <1>5, <2>4
    <3> QED BY <1>s, <3>1
  <2>5. CASE k > i /\ j < i
    <3>2. u[j] = t[j] /\ u[k] = t[k - 1] /\ j \in 1 .. i - 1 /\ k - 1 \in i .. Len(t)
      BY <1>2, <1>4, <1>5, <2>5
    <3>3. EffectivePriority(t[j]) > p /\ p >= EffectivePriority(t[k - 1])
      BY <1>2, <3>2 DEF IsInsertIndex
    <3>4. j \in 1 .. Len(t) /\ k - 1 \in 1 .. Len(t)
      BY <1>2, <3>2
    <3> QED BY <1>1, <3>2, <3>3, <3>4
  <2> QED BY <1>2, <2>1, <2>2, <2>3, <2>4, <2>5
<1> QED BY <1>2, <1>4, <1>5 DEF Sorted, u

(***************************************************************************)
(* The set of entries of a table: what a removal and an insertion do to it *)
(* is all that the properties which ignore the order need to know.         *)
(***************************************************************************)
Elements(t) == {t[i] : i \in DOMAIN t}

LEMMA ElementsType ==
  ASSUME NEW E, NEW t \in Seq(E)
  PROVE  Elements(t) = {t[i] : i \in 1 .. Len(t)} /\ Elements(t) \subseteq E
<1>1. DOMAIN t = 1 .. Len(t) /\ \A i \in 1 .. Len(t) : t[i] \in E
  BY LenProperties, ElementOfSeq
<1> QED BY <1>1 DEF Elements

LEMMA RemoveElements ==
  ASSUME NEW E, NEW t \in Seq(E), NEW gone
  PROVE  /\ RemoveSpecificEntries(t, gone) \in Seq(E)
         /\ Elements(RemoveSpecificEntries(t, gone)) = Elements(t) \ gone
         /\ Len(RemoveSpecificEntries(t, gone)) < Len(t) \/ Elements(t) \cap gone = {}
<1> DEFINE R == {z \in E \X E : TRUE}
           u == RemoveSpecificEntries(t, gone)
<1>1. \A i, j \in 1 .. Len(t) : i < j => <<t[i], t[j]>> \in R
  BY ElementOfSeq
<1> HIDE DEF R
<1>2. Prefix(t, gone, E, R, u, Len(t))
  BY <1>1, RemoveProperties
<1> HIDE DEF u
<1>3. u \in Seq(E) /\ Len(u) \in Nat /\ Len(t) \in Nat
  BY <1>2, LenProperties DEF Prefix
<1>4. /\ Elements(t) = {t[i] : i \in 1 .. Len(t)}
      /\ Elements(u) = {u[i] : i \in 1 .. Len(u)}
  BY <1>3, ElementsType
<1>5. Elements(u) = Elements(t) \ gone
  BY <1>2, <1>4 DEF Prefix
<1>6. ASSUME ~(Len(u) < Len(t)) PROVE Elements(t) \cap gone = {}
  <2>1. Len(u) <= Len(t) /\ (Len(u) = Len(t) => \A i \in 1 .. Len(t) : t[i] \notin gone)
    BY <1>2 DEF Prefix
  <2>2. \A i \in 1 .. Len(t) : t[i] \notin gone
    BY <1>3, <1>6, <2>1
  <2> QED BY <1>4, <2>2
<1> QED BY <1>3, <1>5, <1>6 DEF u

LEMMA AddElements ==
  ASSUME NEW t \in Seq(Entry), Sorted(t), NEW e \in Entry
  PROVE  Elements(AddEntry(t, e)) = Elements(t) \cup {e}
<1> DEFINE u == AddEntry(t, e)
<1>1. /\ u \in Seq(Entry) /\ Len(u) = Len(t) + 1 /\ Len(t) \in Nat
      /\ \E i \in 1 .. Len(t) + 1 : \A j \in 1 .. Len(t) + 1 :
           u[j] = IF j < i THEN t[j] ELSE IF j = i THEN e ELSE t[j - 1]
  BY AddEntryProperties, LenProperties
<1> HIDE DEF u
<1>2. PICK i \in 1 .. Len(t) + 1 : \A j \in 1 .. Len(t) + 1 :
           u[j] = IF j < i THEN t[j] ELSE IF j = i THEN e ELSE t[j - 1]
  BY <1>1
<1>3. /\ Elements(t) = {t[k] : k \in 1 .. Len(t)}
      /\ Elements(u) = {u[k] : k \in 1 .. Len(t) + 1}
  BY <1>1, ElementsType
<1>4. ASSUME NEW x \in Elements(u) PROVE x \in Elements(t) \cup {e}
  <2>1. PICK j \in 1 .. Len(t) + 1 : x = u[j]
    BY <1>3
  <2>2. j < i => j \in 1 .. Len(t)
    BY <1>1, <1>2
  <2>3. j > i => j - 1 \in 1 .. Len(t)
    BY <1>1, <1>2
  <2> QED BY <1>2, <1>3, <2>1, <2>2, <2>3
<1>5. ASSUME NEW x \in Elements(t) PROVE x \in Elements(u)
  <2>1. PICK k \in 1 .. Len(t) : x = t[k]
    BY <1>3
  <2>2. CASE k < i
    <3>1. u[k] = t[k] /\ k \in 1 .. Len(t) + 1
      BY <1>1, <1>2, <2>2
    <3> QED BY <1>3, <2>1, <3>1
  <2>3. CASE ~(k < i)
    <3>1. u[k + 1] = t[k] /\ k + 1 \in 1 .. Len(t) + 1
      BY <1>1, <1>2, <2>3
    <3> QED BY <1>3, <2>1, <3>1
  <2> QED BY <2>2, <2>3
<1>6. e \in Elements(u)
  BY <1>1, <1>2, <1>3
<1> QED BY <1>4, <1>5, <1>6 DEF u

LEMMA RemoveKeepsSorted ==
  ASSUME NEW t \in Seq(Entry), Sorted(t), NEW gone
  PROVE  /\ RemoveSpecificEntries(t, gone) \in Seq(Entry)
         /\ Len(RemoveSpecificEntries(t, gone)) <= Len(t)
         /\ Sorted(RemoveSpecificEntries(t, gone))
<1> DEFINE R == {z \in Entry \X Entry : EffectivePriority(z[1]) >= EffectivePriority(z[2])}
           u == RemoveSpecificEntries(t, gone)
<1>1. \A i, j \in 1 .. Len(t) : i < j => <<t[i], t[j]>> \in R
  BY ElementOfSeq DEF Sorted
<1> HIDE DEF R
<1>2. Prefix(t, gone, Entry, R, u, Len(t))
  BY <1>1, RemoveProperties
<1>3. u \in Seq(Entry) /\ Len(u) <= Len(t) /\ \A i, j \in 1 .. Len(u) : i < j => <<u[i], u[j]>> \in R
  BY <1>2 DEF Prefix
<1>4. ASSUME NEW i \in 1 .. Len(u), NEW j \in 1 .. Len(u), i < j
      PROVE  EffectivePriority(u[i]) >= EffectivePriority(u[j])
  BY <1>3, <1>4 DEF R
<1> HIDE DEF u
<1>5. Sorted(u)
  BY <1>3, <1>4 DEF Sorted
<1> QED BY <1>3, <1>5 DEF u

UniqueKeys(t) ==
  \A i, j \in DOMAIN t :
    t[i].match = t[j].match /\ t[i].priority = t[j].priority => i = j

LEMMA RemoveKeepsUnique ==
  ASSUME NEW t \in Seq(Entry), UniqueKeys(t), NEW gone
  PROVE  UniqueKeys(RemoveSpecificEntries(t, gone))
<1> DEFINE R == {z \in Entry \X Entry :
                   ~(z[1].match = z[2].match /\ z[1].priority = z[2].priority)}
           u == RemoveSpecificEntries(t, gone)
<1>1. ASSUME NEW i \in 1 .. Len(t), NEW j \in 1 .. Len(t), i < j
      PROVE  <<t[i], t[j]>> \in R
  <2>1. ~(t[i].match = t[j].match /\ t[i].priority = t[j].priority)
    BY <1>1 DEF UniqueKeys
  <2>2. t[i] \in Entry /\ t[j] \in Entry
    BY ElementOfSeq
  <2> QED BY <2>1, <2>2
<1> HIDE DEF R
<1>2. Prefix(t, gone, Entry, R, u, Len(t))
  BY <1>1, RemoveProperties
<1>3. u \in Seq(Entry) /\ \A i, j \in 1 .. Len(u) : i < j => <<u[i], u[j]>> \in R
  BY <1>2 DEF Prefix
<1> HIDE DEF u
<1>4. ASSUME NEW i \in 1 .. Len(u), NEW j \in 1 .. Len(u),
             u[i].match = u[j].match, u[i].priority = u[j].priority
      PROVE  i = j
  <2>1. ~(<<u[i], u[j]>> \in R) /\ ~(<<u[j], u[i]>> \in R)
    BY <1>4 DEF R
  <2>2. ~(i < j) /\ ~(j < i)
    BY <1>3, <2>1
  <2>3. i \in Int /\ j \in Int
    BY <1>3, LenProperties
  <2> QED BY <2>2, <2>3
<1>5. DOMAIN u = 1 .. Len(u)
  BY <1>3, LenProperties
<1>6. UniqueKeys(u)
  BY <1>4, <1>5 DEF UniqueKeys
<1> QED BY <1>6 DEF u

LEMMA AddKeepsUnique ==
  ASSUME NEW t \in Seq(Entry), Sorted(t), UniqueKeys(t), NEW e \in Entry,
         \A i \in 1 .. Len(t) : ~(t[i].match = e.match /\ t[i].priority = e.priority)
  PROVE  UniqueKeys(AddEntry(t, e))
<1> DEFINE u == AddEntry(t, e)
<1>1. u \in Seq(Entry) /\ Len(u) = Len(t) + 1
  BY AddEntryProperties
<1>2. PICK i \in 1 .. Len(t) + 1 : \A j \in 1 .. Len(t) + 1 :
        u[j] = IF j < i THEN t[j] ELSE IF j = i THEN e ELSE t[j - 1]
  BY AddEntryProperties
<1> HIDE DEF u
<1>0. Len(t) \in Nat /\ DOMAIN t = 1 .. Len(t)
  BY LenProperties
<1> DEFINE old(j) == IF j < i THEN j ELSE j - 1
<1>3. ASSUME NEW j \in 1 .. Len(u), j # i
      PROVE  old(j) \in 1 .. Len(t) /\ u[j] = t[old(j)]
  BY <1>0, <1>1, <1>2, <1>3
<1>4. ASSUME NEW j \in 1 .. Len(u), NEW k \in 1 .. Len(u),
             u[j].match = u[k].match, u[j].priority = u[k].priority
      PROVE  j = k
  <2>0. u[i] = e
    BY <1>2
  <2>1. CASE j = i /\ k # i
    <3>1. old(k) \in 1 .. Len(t) /\ u[k] = t[old(k)]
      BY <1>3, <2>1
    <3> HIDE DEF old
    <3> QED BY <1>4, <2>0, <2>1, <3>1
  <2>2. CASE j # i /\ k = i
    <3>1. old(j) \in 1 .. Len(t) /\ u[j] = t[old(j)]
      BY <1>3, <2>2
    <3> HIDE DEF old
    <3> QED BY <1>4, <2>0, <2>2, <3>1
  <2>3. CASE j # i /\ k # i
    <3>1. old(j) = old(k)
      BY <1>0, <1>3, <1>4, <2>3 DEF UniqueKeys
    <3> QED BY <1>0, <1>1, <2>3, <3>1
  <2> QED BY <2>1, <2>2, <2>3
<1>5. DOMAIN u = 1 .. Len(u)
  BY <1>1, LenProperties
<1>6. UniqueKeys(u)
  BY <1>4, <1>5 DEF UniqueKeys
<1> QED BY <1>6 DEF u
-----------------------------------------------------------------------------
(***************************************************************************)
(* The search of add_entry.                                                *)
(***************************************************************************)

\* There is only one place where the loop may stop.
LEMMA InsertIndexUnique ==
  ASSUME NEW t \in Seq(Entry), Sorted(t), NEW p \in Nat,
         NEW i \in 1 .. Len(t) + 1, IsInsertIndex(t, p, i)
  PROVE  InsertIndex(t, p) = i
<1> DEFINE k == InsertIndex(t, p)
<1>1. k \in 1 .. Len(t) + 1 /\ IsInsertIndex(t, p, k)
  BY InsertIndexProperties
<1> HIDE DEF k
<1>2. Len(t) \in Nat /\ \A j \in 1 .. Len(t) : EffectivePriority(t[j]) \in Nat
  BY LenProperties, EffectivePriorityType, ElementOfSeq
<1>3. ~(k < i)
  <2> SUFFICES ASSUME k < i PROVE FALSE
    OBVIOUS
  <2>1. k \in 1 .. i - 1 /\ k \in k .. Len(t) /\ k \in 1 .. Len(t)
    BY <1>1, <1>2
  <2> QED BY <1>1, <1>2, <2>1 DEF IsInsertIndex
<1>4. ~(i < k)
  <2> SUFFICES ASSUME i < k PROVE FALSE
    OBVIOUS
  <2>1. i \in 1 .. k - 1 /\ i \in i .. Len(t) /\ i \in 1 .. Len(t)
    BY <1>1, <1>2
  <2> QED BY <1>1, <1>2, <2>1 DEF IsInsertIndex
<1> QED BY <1>1, <1>2, <1>3, <1>4 DEF k

SearchType ==
  /\ searched \in Seq(Entry) /\ entry \in Entry
  /\ ~inserted => Sorted(searched)

SearchIInv == SearchType /\ SearchInv

LEMMA SearchInitInv ==
  ASSUME SortedTables, SearchInit PROVE SearchIInv
<1>1. searched \in Seq(Entry) /\ Sorted(searched) /\ entry \in Entry
  BY DEF SearchInit, SortedTables
<1>2. Len(searched) \in Nat
  BY <1>1, LenProperties
<1> QED BY <1>1, <1>2 DEF SearchInit, SearchIInv, SearchType, SearchInv

LEMMA SearchStepInv == SearchIInv /\ [SearchNext]_searchVars => SearchIInv'
<1> SUFFICES ASSUME SearchIInv, [SearchNext]_searchVars PROVE SearchIInv'
  OBVIOUS
<1> USE DEF SearchIInv
<1>0. /\ searched \in Seq(Entry) /\ Len(searched) \in Nat /\ entry \in Entry
      /\ DOMAIN searched = 1 .. Len(searched) /\ priority \in Nat
      /\ \A j \in 1 .. Len(searched) : EffectivePriority(searched[j]) \in Nat
  BY LenProperties, ElementOfSeq, EffectivePriorityType DEF SearchType, priority
<1>a. ASSUME low < high, ~inserted
      PROVE  middle \in Nat /\ low <= middle /\ middle < high /\ middle + 1 \in 1 .. Len(searched)
  BY <1>0, <1>a DEF SearchInv, middle
<1>1. CASE SearchLeft /\ ~inserted
  <2>1. middle \in Nat /\ low <= middle /\ middle < high /\ middle + 1 \in 1 .. Len(searched)
    BY <1>1, <1>a DEF SearchLeft
  <2>2. priority >= EffectivePriority(searched[middle + 1])
    BY <1>1 DEF SearchLeft, Before
  <2>3. ASSUME NEW j \in middle + 1 .. Len(searched)
        PROVE  priority >= EffectivePriority(searched[j])
    <3>1. EffectivePriority(searched[middle + 1]) >= EffectivePriority(searched[j])
      BY <1>0, <1>1, <2>1 DEF SearchType, Sorted
    <3>2. j \in 1 .. Len(searched)
      BY <1>0, <2>1
    <3> QED BY <1>0, <2>1, <2>2, <3>1, <3>2
  <2> QED BY <1>1, <2>1, <2>3 DEF SearchLeft, SearchInv, SearchType, priority
<1>2. CASE SearchRight /\ ~inserted
  <2>1. middle \in Nat /\ low <= middle /\ middle < high /\ middle + 1 \in 1 .. Len(searched)
    BY <1>2, <1>a DEF SearchRight
  <2>2. EffectivePriority(searched[middle + 1]) > priority
    BY <1>0, <1>2, <2>1 DEF SearchRight, Before
  <2>3. ASSUME NEW j \in 1 .. middle + 1
        PROVE  EffectivePriority(searched[j]) > priority
    <3>1. EffectivePriority(searched[j]) >= EffectivePriority(searched[middle + 1])
      BY <1>0, <1>2, <2>1 DEF SearchType, Sorted
    <3>2. j \in 1 .. Len(searched)
      BY <1>0, <2>1
    <3> QED BY <1>0, <2>1, <2>2, <3>1, <3>2
  <2> QED BY <1>2, <2>1, <2>3 DEF SearchRight, SearchInv, SearchType, priority
<1>3. CASE Insert
  <2>1. low + 1 \in 1 .. Len(searched) + 1
    BY <1>0, <1>3 DEF Insert, SearchInv
  <2>2. InsertAt(searched, low + 1, entry) \in Seq(Entry)
    BY <1>0, <2>1, InsertAtProperties
  <2> QED BY <1>0, <1>3, <2>2 DEF Insert, SearchInv, SearchType
<1>4. CASE UNCHANGED searchVars
  BY <1>4 DEF searchVars, SearchInv, SearchType, priority
<1>5. CASE inserted /\ (SearchLeft \/ SearchRight)
  BY <1>5 DEF SearchLeft, SearchRight, SearchInv, SearchType
<1> QED BY <1>1, <1>2, <1>3, <1>4, <1>5 DEF SearchNext

\* Where the search ends is where AddEntry inserts.
LEMMA InsertIsAddEntry ==
  ASSUME SearchIInv, Insert PROVE searched' = AddEntry(searched, entry)
<1>1. /\ searched \in Seq(Entry) /\ Sorted(searched) /\ entry \in Entry /\ priority \in Nat
      /\ low = high /\ low \in 0 .. Len(searched)
  BY LenProperties, EffectivePriorityType DEF SearchIInv, SearchType, SearchInv, Insert, priority
<1>2. IsInsertIndex(searched, priority, low + 1)
  BY <1>1 DEF SearchIInv, SearchInv, Insert, IsInsertIndex
<1>3. low + 1 \in 1 .. Len(searched) + 1
  BY <1>1, LenProperties
<1>4. InsertIndex(searched, priority) = low + 1
  BY <1>1, <1>2, <1>3, InsertIndexUnique
<1> QED BY <1>4 DEF Insert, AddEntry, priority

(***************************************************************************)
(* However long the table, add_entry's search keeps everything before low  *)
(* above the new entry and everything from high on at or below it.         *)
(***************************************************************************)
THEOREM SearchCorrect ==
  ASSUME SortedTables PROVE SearchSpec => []SearchInv
<1>1. SearchInit => SearchIInv
  BY SearchInitInv
<1>2. SearchSpec => []SearchIInv
  BY <1>1, SearchStepInv, PTL DEF SearchSpec
<1>3. SearchIInv => SearchInv
  BY DEF SearchIInv
<1> QED BY <1>2, <1>3, PTL

(***************************************************************************)
(* The loop computes AddEntry, the step SoftwareSwitch takes in its place. *)
(***************************************************************************)
THEOREM SearchComputesAddEntry ==
  ASSUME SortedTables PROVE SearchSpec => ComputesAddEntry
<1>1. SearchInit => SearchIInv
  BY SearchInitInv
<1>2. SearchSpec => []SearchIInv
  BY <1>1, SearchStepInv, PTL DEF SearchSpec
<1>3. SearchIInv => [Insert => searched' = AddEntry(searched, entry)]_searchVars
  BY InsertIsAddEntry
<1> QED BY <1>2, <1>3, PTL DEF ComputesAddEntry

-----------------------------------------------------------------------------
(* The switch.                                                             *)


TableOK(t) ==
  t \in Seq(Entry) /\ Len(t) <= MaxEntries /\ Sorted(t) /\ UniqueKeys(t)

BufferOK(b) == b \in Seq(Packets \cup {None}) /\ Len(b) <= MaxBuffers

\* The inductive invariant: TypeOK, TableSorted and UniqueRules together. Each
\* needs the others: an insertion is sorted only into a sorted table, and the
\* table stays within its bound only if a replacement removes its duplicate.
IInv == TableOK(table) /\ BufferOK(buffer) /\ now \in Nat /\ sweepAt \in Nat /\ now <= sweepAt

LEMMA RemoveOK ==
  ASSUME NEW t, TableOK(t), NEW gone
  PROVE  TableOK(RemoveSpecificEntries(t, gone))
<1>1. /\ RemoveSpecificEntries(t, gone) \in Seq(Entry)
      /\ Len(RemoveSpecificEntries(t, gone)) <= Len(t)
      /\ Sorted(RemoveSpecificEntries(t, gone))
  BY RemoveKeepsSorted DEF TableOK
<1>2. UniqueKeys(RemoveSpecificEntries(t, gone))
  BY RemoveKeepsUnique DEF TableOK
<1>3. Len(t) \in Nat /\ Len(RemoveSpecificEntries(t, gone)) \in Nat
  BY <1>1, LenProperties DEF TableOK
<1> QED BY <1>1, <1>2, <1>3, SizesAssumption DEF TableOK

LEMMA AddOK ==
  ASSUME NEW t, TableOK(t), ~TableFull(t), NEW e \in Entry,
         \A i \in 1 .. Len(t) : ~(t[i].match = e.match /\ t[i].priority = e.priority)
  PROVE  TableOK(AddEntry(t, e))
<1>1. /\ AddEntry(t, e) \in Seq(Entry)
      /\ Len(AddEntry(t, e)) = Len(t) + 1
      /\ Sorted(AddEntry(t, e))
  BY AddEntryProperties DEF TableOK
<1>2. UniqueKeys(AddEntry(t, e))
  BY AddKeepsUnique DEF TableOK
<1>3. Len(t) \in Nat
  BY LenProperties DEF TableOK
<1> QED BY <1>1, <1>2, <1>3, SizesAssumption DEF TableOK, TableFull

\* Changing only the actions or the last use of entries leaves the order, the
\* keys and the length of the table alone.
LEMMA TouchOK ==
  ASSUME NEW t, TableOK(t), NEW u \in Seq(Entry), Len(u) = Len(t),
         \A i \in 1 .. Len(t) : u[i].match = t[i].match /\ u[i].priority = t[i].priority
  PROVE  TableOK(u)
<1>1. DOMAIN t = 1 .. Len(t) /\ DOMAIN u = 1 .. Len(t)
  BY LenProperties DEF TableOK
<1>2. \A i \in 1 .. Len(t) : EffectivePriority(u[i]) = EffectivePriority(t[i])
  BY DEF EffectivePriority
<1>3. Sorted(u)
  BY <1>1, <1>2 DEF Sorted, TableOK
<1>4. UniqueKeys(u)
  BY <1>1 DEF UniqueKeys, TableOK
<1> QED BY <1>3, <1>4 DEF TableOK

LEMMA BufferPacketOK ==
  ASSUME NEW b, BufferOK(b), NEW p \in Packets
  PROVE  /\ BufferOK(BufferPacket(b, p))
         /\ Len(b) <= Len(BufferPacket(b, p))
<1>1. b \in Seq(Packets \cup {None}) /\ Len(b) \in Nat /\ DOMAIN b = 1 .. Len(b) /\ Len(b) <= MaxBuffers
  BY LenProperties DEF BufferOK
<1>2. CASE FreeSlots(b) # {}
  <2>1. FreeSlots(b) \subseteq Nat
    BY <1>1 DEF FreeSlots
  <2>2. BufferId(b) \in FreeSlots(b)
    BY <1>2, <2>1, MinimumExists DEF BufferId
  <2>3. BufferId(b) \in DOMAIN b /\ BufferId(b) # None
    BY <1>1, <2>2, SizesAssumption DEF FreeSlots
  <2>4. BufferPacket(b, p) = [b EXCEPT ![BufferId(b)] = p]
    BY <2>3 DEF BufferPacket
  <2> QED BY <1>1, <2>3, <2>4, ExceptSeq DEF BufferOK
<1>3. CASE FreeSlots(b) = {} /\ Len(b) < MaxBuffers
  <2>1. BufferId(b) = Len(b) + 1 /\ BufferId(b) # None /\ BufferId(b) \notin DOMAIN b
    BY <1>1, <1>3, SizesAssumption DEF BufferId
  <2>2. BufferPacket(b, p) = Append(b, p)
    BY <2>1 DEF BufferPacket
  <2> QED BY <1>1, <1>3, <2>2, SizesAssumption, AppendProperties DEF BufferOK
<1>4. CASE FreeSlots(b) = {} /\ ~(Len(b) < MaxBuffers)
  <2>1. BufferId(b) = None /\ None \notin DOMAIN b
    BY <1>1, <1>4, SizesAssumption DEF BufferId
  <2>2. BufferPacket(b, p) = b
    BY <2>1 DEF BufferPacket
  <2> QED BY <1>1, <2>2 DEF BufferOK
<1> QED BY <1>2, <1>3, <1>4

LEMMA ReleaseBufferOK ==
  ASSUME NEW b, BufferOK(b), NEW id, NEW actions
  PROVE  BufferOK(ReleaseBuffer(b, id, actions))
<1>1. CASE ~Holds(b, id)
  BY <1>1 DEF ReleaseBuffer
<1>2. CASE Holds(b, id)
  <2>1. Len(b) \in Nat /\ DOMAIN b = 1 .. Len(b) /\ b[id] \in Packets
    BY <1>2, LenProperties, ElementOfSeq DEF Holds, BufferOK
  <2> DEFINE c == ActionsBuffer(b, b[id], actions)
  <2>2. BufferOK(c) /\ Len(b) <= Len(c)
    BY <2>1, BufferPacketOK DEF ActionsBuffer
  <2>3. ReleaseBuffer(b, id, actions) = [c EXCEPT ![id] = None]
    BY <1>2 DEF ReleaseBuffer
  <2> HIDE DEF c
  <2>4. id \in 1 .. Len(c)
    BY <1>2, <2>1, <2>2, LenProperties DEF Holds, BufferOK
  <2> QED BY <2>2, <2>3, <2>4, ExceptSeq DEF BufferOK
<1> QED BY <1>1, <1>2

LEMMA FromFlowModType ==
  ASSUME NEW fm \in FlowMods, now \in Nat
  PROVE  /\ FromFlowMod(fm) \in Entry
         /\ FromFlowMod(fm).match = fm.match /\ FromFlowMod(fm).priority = fm.priority
BY FlowModsAssumption DEF FromFlowMod, Entry

\* _flow_mod_add: if no entry has the flow_mod's key, or the command is
\* OFPFC_ADD and the duplicate goes first, the table is as good as before.
LEMMA FlowModAddOK ==
  ASSUME NEW fm \in FlowMods, TableOK(table), now \in Nat,
         fm.command = "ADD" \/
           \A i \in 1 .. Len(table) :
              ~(table[i].match = fm.match /\ table[i].priority = fm.priority)
  PROVE  TableOK(FlowModAdd(fm).table)
<1> DEFINE new == FromFlowMod(fm)
           base == Replaced(fm)
<1>1. TableOK(base)
  BY RemoveOK DEF Replaced
<1>2. \A i \in 1 .. Len(base) : ~(base[i].match = fm.match /\ base[i].priority = fm.priority)
  <2>1. CASE fm.command = "ADD"
    <3> DEFINE gone == MatchingEntries(table, fm.match, fm.priority, TRUE, NoPort)
               R == {z \in Entry \X Entry : TRUE}
    <3>1. base = RemoveSpecificEntries(table, gone)
      BY <2>1 DEF Replaced
    <3>2. \A i, j \in 1 .. Len(table) : i < j => <<table[i], table[j]>> \in R
      BY ElementOfSeq DEF TableOK
    <3> HIDE DEF R
    <3>3. Prefix(table, gone, Entry, R, base, Len(table))
      BY <3>1, <3>2, RemoveProperties DEF TableOK
    <3>4. ASSUME NEW i \in 1 .. Len(base),
                 base[i].match = fm.match, base[i].priority = fm.priority
          PROVE  FALSE
      <4>1. PICK k \in 1 .. Len(table) : base[i] = table[k] /\ base[i] \notin gone
        BY <3>3 DEF Prefix
      <4>2. k \in DOMAIN table
        BY LenProperties DEF TableOK
      <4>3. table[k] \in gone
        BY <3>4, <4>1, <4>2 DEF MatchingEntries, IsMatchedBy
      <4> QED BY <4>1, <4>3
    <3> QED BY <3>4
  <2>2. CASE fm.command # "ADD"
    BY <2>2 DEF Replaced
  <2> QED BY <2>1, <2>2
<1>3. TableOK(AddEntry(base, new)) \/ TableFull(base)
  <2> HIDE DEF base, new
  <2>1. new \in Entry /\ new.match = fm.match /\ new.priority = fm.priority
    BY FromFlowModType DEF new
  <2> QED BY <1>1, <1>2, <2>1, AddOK
<1> QED BY <1>1, <1>3 DEF FlowModAdd

LEMMA FlowModModifyOK ==
  ASSUME NEW fm \in FlowMods, TableOK(table), now \in Nat
  PROVE  TableOK(FlowModModify(fm).table)
<1> DEFINE S == Selected(fm, NoPort)
<1>0. table \in Seq(Entry) /\ DOMAIN table = 1 .. Len(table) /\ Len(table) \in Nat
  BY LenProperties DEF TableOK
<1>1. CASE S = {}
  <2>1. ASSUME NEW i \in 1 .. Len(table),
               table[i].match = fm.match, table[i].priority = fm.priority
        PROVE  FALSE
    <3>1. MatchesWithWildcards(fm.match, table[i].match)
      BY <2>1 DEF MatchesWithWildcards
    <3>2. table[i] \in S
      BY <1>0, <2>1, <3>1 DEF Selected, MatchingEntries, IsMatchedBy
    <3> QED BY <1>1, <3>2
  <2> QED BY <1>1, <2>1, FlowModAddOK DEF FlowModModify
<1>2. CASE S # {}
  <2> DEFINE u == [i \in DOMAIN table |->
                     IF table[i] \in S THEN [table[i] EXCEPT !.actions = fm.actions]
                     ELSE table[i]]
  <2>1. FlowModModify(fm).table = u
    BY <1>2 DEF FlowModModify
  <2>2. fm.actions \in Action
    BY FlowModsAssumption
  <2>3. ASSUME NEW i \in 1 .. Len(table)
        PROVE  u[i] \in Entry /\ u[i].match = table[i].match
               /\ u[i].priority = table[i].priority
    <3>1. table[i] \in Entry
      BY <1>0, ElementOfSeq
    <3>2. LET e == [table[i] EXCEPT !.actions = fm.actions]
          IN  e \in Entry /\ e.match = table[i].match /\ e.priority = table[i].priority
      BY <2>2, <3>1 DEF Entry
    <3>3. u[i] = IF table[i] \in S THEN [table[i] EXCEPT !.actions = fm.actions]
                 ELSE table[i]
      BY <1>0
    <3> QED BY <3>1, <3>2, <3>3
  <2>4. u \in Seq(Entry) /\ Len(u) = Len(table)
    BY <1>0, <2>3
  <2> HIDE DEF u
  <2> QED BY <2>1, <2>3, <2>4, TouchOK
<1> QED BY <1>1, <1>2

LEMMA FlowModOK ==
  ASSUME NEW fm \in FlowMods, TableOK(table), now \in Nat
  PROVE  TableOK(FlowModResult(fm).table)
<1>1. CASE fm.command = "ADD"
  BY <1>1, FlowModAddOK DEF FlowModResult
<1>2. CASE fm.command \in {"MODIFY", "MODIFY_STRICT"}
  BY <1>2, FlowModModifyOK DEF FlowModResult
<1>3. CASE fm.command \notin {"ADD", "MODIFY", "MODIFY_STRICT"}
  BY <1>3, RemoveOK DEF FlowModResult, FlowModDelete
<1> QED BY <1>1, <1>2, <1>3

LEMMA InitIInv == Init => IInv
<1> SUFFICES ASSUME Init PROVE IInv
  OBVIOUS
<1>1. table = <<>> /\ buffer = <<>> /\ now = 0 /\ sweepAt = Period
  BY DEF Init
<1>2. Sorted(<<>>) /\ UniqueKeys(<<>>)
  BY DEF Sorted, UniqueKeys
<1> QED BY <1>1, <1>2, SizesAssumption DEF IInv, TableOK, BufferOK

LEMMA StepIInv == IInv /\ [Next]_vars => IInv'
<1> SUFFICES ASSUME IInv, [Next]_vars PROVE IInv'
  OBVIOUS
<1> USE DEF IInv
<1>1. ASSUME NEW fm \in FlowMods, NEW id, RxFlowMod(fm, id) PROVE IInv'
  <2>1. TableOK(table')
    BY <1>1, FlowModOK DEF RxFlowMod
  <2>2. BufferOK(buffer')
    BY <1>1, ReleaseBufferOK DEF RxFlowMod
  <2> QED BY <1>1, <2>1, <2>2 DEF RxFlowMod, TableOK, BufferOK, Sorted, UniqueKeys
<1>2. ASSUME NEW actions, NEW id, RxPacketOut(actions, id) PROVE IInv'
  <2>1. BufferOK(buffer')
    BY <1>2, ReleaseBufferOK DEF RxPacketOut
  <2> QED BY <1>2, <2>1 DEF RxPacketOut, TableOK, BufferOK, Sorted, UniqueKeys
<1>8. ASSUME NEW actions, NEW p \in Packets, RxPacketOutData(actions, p) PROVE IInv'
  <2>1. BufferOK(buffer')
    BY <1>8, BufferPacketOK DEF RxPacketOutData, ActionsBuffer
  <2> QED BY <1>8, <2>1 DEF RxPacketOutData, TableOK, BufferOK, Sorted, UniqueKeys
<1>3. ASSUME NEW p \in Packets, RxPacketHit(p) PROVE IInv'
  <2> DEFINE i == EntryForPacket(table, p)
  <2>1. table \in Seq(Entry) /\ Len(table) \in Nat /\ DOMAIN table = 1 .. Len(table)
    BY LenProperties DEF TableOK
  <2>2. Hits(table, p) \subseteq Nat /\ Hits(table, p) # {}
    BY <1>3, <2>1 DEF RxPacketHit, Hits
  <2>3. i \in 1 .. Len(table)
    <3>1. i \in Hits(table, p)
      BY <2>2, MinimumExists DEF EntryForPacket
    <3> QED BY <2>1, <3>1 DEF Hits
  <2> HIDE DEF i
  <2>4. table' = [table EXCEPT ![i] = [table[i] EXCEPT !.touched = now]]
    BY <1>3 DEF RxPacketHit, i
  <2>5. LET e == [table[i] EXCEPT !.touched = now]
        IN  e \in Entry /\ e.match = table[i].match /\ e.priority = table[i].priority
    <3>1. table[i] \in Entry
      BY <2>1, <2>3, ElementOfSeq
    <3> QED BY <3>1 DEF Entry
  <2>6. /\ table' \in Seq(Entry) /\ Len(table') = Len(table)
        /\ \A j \in 1 .. Len(table) :
             table'[j] = IF j = i THEN [table[i] EXCEPT !.touched = now] ELSE table[j]
    BY <2>1, <2>3, <2>4, <2>5, ExceptSeq
  <2>7. TableOK(table')
    BY <2>5, <2>6, TouchOK
  <2>8. BufferOK(buffer')
    BY <1>3, BufferPacketOK DEF RxPacketHit, ActionsBuffer
  <2> QED BY <1>3, <2>7, <2>8 DEF RxPacketHit, TableOK, BufferOK, Sorted, UniqueKeys
<1>4. ASSUME NEW p \in Packets, RxPacketMiss(p) PROVE IInv'
  <2>1. BufferOK(buffer')
    BY <1>4, BufferPacketOK DEF RxPacketMiss
  <2> QED BY <1>4, <2>1 DEF RxPacketMiss, TableOK, BufferOK, Sorted, UniqueKeys
<1>5. CASE RemoveExpiredEntries
  <2>1. TableOK(table')
    BY <1>5, RemoveOK DEF RemoveExpiredEntries
  <2>2. now' \in Nat /\ sweepAt' \in Nat /\ now' <= sweepAt'
    BY <1>5, SizesAssumption DEF RemoveExpiredEntries
  <2> QED BY <1>5, <2>1, <2>2 DEF RemoveExpiredEntries, TableOK, BufferOK, Sorted, UniqueKeys
<1>6. CASE Tick
  <2>1. now' \in Nat /\ sweepAt' \in Nat /\ now' <= sweepAt'
    BY <1>6 DEF Tick
  <2> QED BY <1>6, <2>1 DEF Tick, TableOK, BufferOK, Sorted, UniqueKeys
<1>7. CASE UNCHANGED vars
  BY <1>7 DEF vars, TableOK, BufferOK, Sorted, UniqueKeys
<1> QED BY <1>1, <1>2, <1>3, <1>4, <1>5, <1>6, <1>7, <1>8 DEF Next

LEMMA IInvImplies == IInv => TypeOK /\ TableSorted /\ UniqueRules
<1> SUFFICES ASSUME IInv PROVE TypeOK /\ TableSorted /\ UniqueRules
  OBVIOUS
<1>1. TypeOK /\ TableSorted
  BY DEF IInv, TableOK, BufferOK, TypeOK, TableSorted
<1>2. UniqueRules
  BY DEF IInv, TableOK, UniqueKeys, UniqueRules, SameKey
<1> QED BY <1>1, <1>2

LEMMA Invariance == Spec => []IInv
BY InitIInv, StepIInv, PTL DEF Spec

(***************************************************************************)
(* The table and the packet buffer are typed and never exceed max_entries  *)
(* and max_buffers.                                                        *)
(***************************************************************************)
THEOREM SwitchTypeOK == Spec => []TypeOK
BY Invariance, IInvImplies, PTL

(***************************************************************************)
(* The order entry_for_packet and check_for_overlapping_entry depend on.   *)
(***************************************************************************)
THEOREM SwitchTableSorted == Spec => []TableSorted
BY Invariance, IInvImplies, PTL

(***************************************************************************)
(* At most one entry per match and priority.                               *)
(***************************************************************************)
THEOREM SwitchUniqueRules == Spec => []UniqueRules
BY Invariance, IInvImplies, PTL
-----------------------------------------------------------------------------
(***************************************************************************)
(* What a flow_mod does to the set of entries, whatever their order: the   *)
(* three effects a handler can have, each for a set of entries of the      *)
(* table it finds.  The other theorems are about these sets.               *)
(***************************************************************************)
Removed(u, S) == S \subseteq Entries /\ Elements(u) = Entries \ S

Installed(u, new) == Elements(u) = {e \in Entries : ~SameKey(e, new)} \cup {new}

Amended(u, S, actions) ==
  /\ S \subseteq Entries
  /\ Elements(u) = (Entries \ S) \cup {[e EXCEPT !.actions = actions] : e \in S}

LEMMA EntriesProperties ==
  ASSUME IInv
  PROVE  /\ Entries = Elements(table) /\ Entries \subseteq Entry
         /\ table \in Seq(Entry) /\ Sorted(table)
         /\ Len(table) \in Nat /\ Len(table) <= MaxEntries
         /\ \A e, f \in Entries : SameKey(e, f) => e = f
<1>1. table \in Seq(Entry) /\ Sorted(table) /\ Len(table) <= MaxEntries
  BY DEF IInv, TableOK
<1>2. /\ Entries = Elements(table) /\ Entries = {table[i] : i \in 1 .. Len(table)}
      /\ Entries \subseteq Entry
  BY <1>1, ElementsType DEF Entries, Elements
<1>3. Len(table) \in Nat
  BY <1>1, LenProperties
<1>4. ASSUME NEW e \in Entries, NEW f \in Entries, SameKey(e, f) PROVE e = f
  <2>1. PICK i \in 1 .. Len(table), j \in 1 .. Len(table) : e = table[i] /\ f = table[j]
    BY <1>2
  <2> QED BY <1>4, <2>1 DEF IInv, TableOK, UniqueKeys, SameKey
<1> QED BY <1>1, <1>2, <1>3, <1>4

\* The entries an ADD removes are exactly those with the key of the flow_mod.
\* The table is full after that only if there was none: a replaced entry never
\* disappears because its successor is refused.
LEMMA ReplacedElements ==
  ASSUME IInv, NEW fm \in FlowMods,
         fm.command = "ADD" \/ \A e \in Entries : ~SameKey(e, FromFlowMod(fm))
  PROVE  /\ Replaced(fm) \in Seq(Entry) /\ Sorted(Replaced(fm))
         /\ Elements(Replaced(fm)) = {e \in Entries : ~SameKey(e, FromFlowMod(fm))}
         /\ TableFull(Replaced(fm)) => Elements(Replaced(fm)) = Entries
<1> DEFINE new == FromFlowMod(fm)
           gone == MatchingEntries(table, fm.match, fm.priority, TRUE, NoPort)
           u == RemoveSpecificEntries(table, gone)
<1>1. new.match = fm.match /\ new.priority = fm.priority
  BY FromFlowModType DEF IInv
<1> HIDE DEF new
<1>2. CASE fm.command = "ADD"
  <2>1. Replaced(fm) = u
    BY <1>2 DEF Replaced
  <2>2. gone = {e \in Entries : SameKey(e, new)}
    BY <1>1 DEF MatchingEntries, IsMatchedBy, Entries, SameKey
  <2> HIDE DEF gone
  <2>3. /\ u \in Seq(Entry) /\ Elements(u) = Entries \ gone
        /\ Len(u) < Len(table) \/ Entries \cap gone = {}
    BY EntriesProperties, RemoveElements
  <2>4. Sorted(u)
    BY EntriesProperties, RemoveKeepsSorted
  <2> HIDE DEF u
  <2>5. Len(u) \in Nat
    BY <2>3, LenProperties
  <2>6. TableFull(u) => Entries \cap gone = {}
    BY <2>3, <2>5, EntriesProperties, SizesAssumption DEF TableFull
  <2> QED BY <2>1, <2>2, <2>3, <2>4, <2>6 DEF new
<1>3. CASE fm.command # "ADD"
  <2>1. Replaced(fm) = table
    BY <1>3 DEF Replaced
  <2>2. Entries = {e \in Entries : ~SameKey(e, new)}
    BY <1>3 DEF new
  <2> QED BY <2>1, <2>2, EntriesProperties DEF new
<1> QED BY <1>2, <1>3

LEMMA FlowModAddEffect ==
  ASSUME IInv, NEW fm \in FlowMods,
         fm.command = "ADD" \/ \A e \in Entries : ~SameKey(e, FromFlowMod(fm))
  PROVE  /\ \/ Elements(FlowModAdd(fm).table) = Entries
            \/ /\ "EMERG" \notin fm.flags
               /\ Installed(FlowModAdd(fm).table, FromFlowMod(fm))
         /\ \A m \in FlowModAdd(fm).sent : m.type = "error"
<1> DEFINE new == FromFlowMod(fm)
           base == Replaced(fm)
<1>1. new \in Entry
  BY FromFlowModType DEF IInv
<1>2. /\ base \in Seq(Entry) /\ Sorted(base)
      /\ Elements(base) = {e \in Entries : ~SameKey(e, new)}
      /\ TableFull(base) => Elements(base) = Entries
  BY ReplacedElements
<1>3. FlowModAdd(fm) =
        IF "EMERG" \in fm.flags
        THEN [table |-> table, sent |-> {Error(EmergencyCode(fm))}]
        ELSE IF "CHECK_OVERLAP" \in fm.flags /\ CheckForOverlappingEntry(table, new)
        THEN [table |-> table, sent |-> {Error("OVERLAP")}]
        ELSE IF TableFull(base)
        THEN [table |-> base, sent |-> {Error("ALL_TABLES_FULL")}]
        ELSE [table |-> AddEntry(base, new), sent |-> {}]
  BY DEF FlowModAdd
<1> HIDE DEF new, base
<1>4. Elements(AddEntry(base, new)) = Elements(base) \cup {new}
  BY <1>1, <1>2, AddElements
<1>5. Installed(AddEntry(base, new), new)
  BY <1>2, <1>4 DEF Installed
<1>6. \A code : Error(code).type = "error"
  BY DEF Error
<1>7. Elements(table) = Entries
  BY EntriesProperties
<1>8. ASSUME NEW code, FlowModAdd(fm) = [table |-> table, sent |-> {Error(code)}]
      PROVE  /\ Elements(FlowModAdd(fm).table) = Entries
             /\ \A m \in FlowModAdd(fm).sent : m.type = "error"
  BY <1>6, <1>7, <1>8
<1>9. ASSUME FlowModAdd(fm) = [table |-> base, sent |-> {Error("ALL_TABLES_FULL")}],
             TableFull(base)
      PROVE  /\ Elements(FlowModAdd(fm).table) = Entries
             /\ \A m \in FlowModAdd(fm).sent : m.type = "error"
  <2>1. Elements(base) = Entries
    BY <1>2, <1>9
  <2> QED BY <1>6, <1>9, <2>1
<1>10. ASSUME FlowModAdd(fm) = [table |-> AddEntry(base, new), sent |-> {}]
       PROVE  /\ Installed(FlowModAdd(fm).table, new)
              /\ \A m \in FlowModAdd(fm).sent : m.type = "error"
  BY <1>5, <1>10
<1> QED BY <1>3, <1>8, <1>9, <1>10, Zenon DEF new

LEMMA AmendElements ==
  ASSUME IInv, NEW S \in SUBSET Entries, NEW actions, NEW u,
         u = [i \in DOMAIN table |->
                IF table[i] \in S THEN [table[i] EXCEPT !.actions = actions] ELSE table[i]]
  PROVE  Amended(u, S, actions)
<1>1. Entries = {table[i] : i \in DOMAIN table}
  BY DEF Entries
<1>2. Elements(u) = {u[i] : i \in DOMAIN table}
  BY DEF Elements
<1>3. \A i \in DOMAIN table :
        u[i] = IF table[i] \in S THEN [table[i] EXCEPT !.actions = actions] ELSE table[i]
  OBVIOUS
<1>4. ASSUME NEW x \in Elements(u)
      PROVE  x \in (Entries \ S) \cup {[e EXCEPT !.actions = actions] : e \in S}
  BY <1>1, <1>2, <1>3, Zenon
<1>5. ASSUME NEW e \in Entries \ S PROVE e \in Elements(u)
  <2>1. PICK i \in DOMAIN table : e = table[i]
    BY <1>1
  <2> QED BY <1>2, <1>3, <2>1
<1>6. ASSUME NEW e \in S PROVE [e EXCEPT !.actions = actions] \in Elements(u)
  <2>1. PICK i \in DOMAIN table : e = table[i]
    BY <1>1
  <2>2. u[i] = [e EXCEPT !.actions = actions]
    BY <1>3, <2>1
  <2> QED BY <1>2, <2>1, <2>2
<1> QED BY <1>4, <1>5, <1>6 DEF Amended

\* The effect of every flow_mod, and the only messages it can cause beside the
\* release of a buffered packet.
LEMMA FlowModEffect ==
  ASSUME IInv, NEW fm \in FlowMods
  PROVE  \/ /\ Elements(FlowModResult(fm).table) = Entries
            /\ \A m \in FlowModResult(fm).sent : m.type = "error"
         \/ /\ "EMERG" \notin fm.flags
            /\ Installed(FlowModResult(fm).table, FromFlowMod(fm))
            /\ \A m \in FlowModResult(fm).sent : m.type = "error"
         \/ \E S \in SUBSET Entries :
              /\ Amended(FlowModResult(fm).table, S, fm.actions)
              /\ FlowModResult(fm).sent = {}
         \/ \E S \in SUBSET Entries :
              /\ Removed(FlowModResult(fm).table, S)
              /\ FlowModResult(fm).sent = Notices(S, "DELETE")
<1>1. CASE fm.command = "ADD"
  <2>1. FlowModResult(fm) = FlowModAdd(fm)
    BY <1>1 DEF FlowModResult
  <2> QED BY <1>1, <2>1, FlowModAddEffect
<1>2. CASE fm.command \in {"MODIFY", "MODIFY_STRICT"}
  <2> DEFINE S == Selected(fm, NoPort)
             u == [i \in DOMAIN table |->
                     IF table[i] \in S THEN [table[i] EXCEPT !.actions = fm.actions]
                     ELSE table[i]]
  <2>1. FlowModResult(fm) = FlowModModify(fm)
    BY <1>2 DEF FlowModResult
  <2>2. S \subseteq Entries
    BY DEF Selected, MatchingEntries, Entries
  <2>3. CASE S = {}
    <3>1. FlowModModify(fm) = FlowModAdd(fm)
      BY <2>3 DEF FlowModModify
    <3>2. FromFlowMod(fm).match = fm.match /\ FromFlowMod(fm).priority = fm.priority
      BY FromFlowModType DEF IInv
    <3>3. ASSUME NEW e \in Entries, SameKey(e, FromFlowMod(fm)) PROVE FALSE
      <4>1. e.match = fm.match /\ e.priority = fm.priority
        BY <3>2, <3>3 DEF SameKey
      <4>2. MatchesWithWildcards(fm.match, e.match)
        BY <4>1 DEF MatchesWithWildcards
      <4>3. e \in S
        BY <4>1, <4>2 DEF Selected, MatchingEntries, IsMatchedBy, Entries
      <4> QED BY <2>3, <4>3
    <3> QED BY <2>1, <3>1, <3>3, FlowModAddEffect
  <2>4. CASE S # {}
    <3>1. FlowModModify(fm) = [table |-> u, sent |-> {}]
      BY <2>4 DEF FlowModModify
    <3>2. Amended(u, S, fm.actions)
      BY <2>2, AmendElements
    <3> HIDE DEF S, u
    <3> QED BY <2>1, <2>2, <3>1, <3>2
  <2> QED BY <2>3, <2>4
<1>3. CASE fm.command \notin {"ADD", "MODIFY", "MODIFY_STRICT"}
  <2> DEFINE S == Selected(fm, fm.outPort)
  <2>1. FlowModResult(fm) = [table |-> RemoveSpecificEntries(table, S),
                             sent |-> Notices(S, "DELETE")]
    BY <1>3 DEF FlowModResult, FlowModDelete
  <2>2. S \subseteq Entries
    BY DEF Selected, MatchingEntries, Entries
  <2>3. Removed(RemoveSpecificEntries(table, S), S)
    BY <2>2, EntriesProperties, RemoveElements DEF Removed
  <2> HIDE DEF S
  <2> QED BY <2>1, <2>2, <2>3
<1> QED BY <1>1, <1>2, <1>3

\* What a packet that hits does to the entries: one of them is touched.
LEMMA HitEffect ==
  ASSUME IInv, NEW p \in Packets, RxPacketHit(p)
  PROVE  LET e == table[EntryForPacket(table, p)] IN
         /\ EntryForPacket(table, p) \in Hits(table, p)
         /\ \A j \in Hits(table, p) : EntryForPacket(table, p) <= j
         /\ e \in Entries
         /\ Elements(table') = (Entries \ {e}) \cup {[e EXCEPT !.touched = now]}
<1> DEFINE i == EntryForPacket(table, p)
           e == table[i]
<1>1. table \in Seq(Entry) /\ Len(table) \in Nat /\ DOMAIN table = 1 .. Len(table)
  BY EntriesProperties, LenProperties
<1>2. Hits(table, p) \subseteq Nat /\ Hits(table, p) # {}
  BY <1>1 DEF RxPacketHit, Hits
<1>3. i \in Hits(table, p) /\ \A j \in Hits(table, p) : i <= j
  BY <1>2, MinimumExists DEF EntryForPacket
<1>4. table' = [table EXCEPT ![i] = [e EXCEPT !.touched = now]]
  BY DEF RxPacketHit
<1> HIDE DEF i
<1>5. i \in DOMAIN table /\ e \in Entries
  BY <1>3 DEF Hits, Entries
<1>6. /\ DOMAIN table' = DOMAIN table
      /\ \A j \in DOMAIN table : table'[j] = IF j = i THEN [e EXCEPT !.touched = now]
                                             ELSE table[j]
  BY <1>4, <1>5
<1>7. \A j \in DOMAIN table : table[j] = e => j = i
  BY <1>1, <1>5 DEF IInv, TableOK, UniqueKeys
<1> DEFINE touched == [e EXCEPT !.touched = now]
<1>8. Elements(table') = (Entries \ {e}) \cup {touched}
  <2> HIDE DEF touched, e
  <2>1. Elements(table') = {table'[j] : j \in DOMAIN table}
    BY <1>6 DEF Elements
  <2>2. ASSUME NEW x \in Elements(table') PROVE x \in (Entries \ {e}) \cup {touched}
    <3>1. PICK j \in DOMAIN table : x = table'[j]
      BY <2>1
    <3>2. j = i => x = touched
      BY <1>6, <3>1 DEF touched
    <3>3. j # i => x = table[j] /\ x # e /\ x \in Entries
      BY <1>6, <1>7, <3>1 DEF Entries
    <3> QED BY <3>2, <3>3
  <2>3. ASSUME NEW x \in Entries \ {e} PROVE x \in Elements(table')
    <3>1. PICK j \in DOMAIN table : x = table[j]
      BY DEF Entries
    <3>2. j # i
      BY <2>3, <3>1 DEF e
    <3> QED BY <1>6, <2>1, <3>1, <3>2
  <2>4. touched \in Elements(table')
    BY <1>5, <1>6, <2>1 DEF touched
  <2> QED BY <2>2, <2>3, <2>4
<1> QED BY <1>3, <1>5, <1>8 DEF i

\* A sweep leaves exactly the entries with neither timeout over.
LEMMA SweepEffect ==
  ASSUME IInv, RemoveExpiredEntries
  PROVE  Elements(table') = Entries \ (IdleEntries \cup HardEntries)
<1> DEFINE u == RemoveSpecificEntries(table, IdleEntries)
<1>1. u \in Seq(Entry) /\ Elements(u) = Entries \ IdleEntries
  BY EntriesProperties, RemoveElements
<1>2. table' = RemoveSpecificEntries(u, HardEntries)
  BY DEF RemoveExpiredEntries
<1> HIDE DEF u
<1>3. Elements(table') = Elements(u) \ HardEntries
  BY <1>1, <1>2, RemoveElements
<1> QED BY <1>1, <1>3
-----------------------------------------------------------------------------
(***************************************************************************)
(* How long an entry lives.  What bounds it is that each entry had not     *)
(* expired at the last sweep, one period before the next: an entry that    *)
(* had would be gone, and one added or touched since is younger.  The      *)
(* second part, that emergency entries are always refused, is what lets a  *)
(* removal send its flow_removed for every entry that asks for one.        *)
(***************************************************************************)
LastSweep == sweepAt - Period

Survived(e) ==
  /\ e.hard > 0 => LastSweep - e.created <= e.hard
  /\ e.idle > 0 => LastSweep - e.touched <= e.idle

EInv ==
  /\ LastSweep <= now
  /\ \A e \in Entries : "EMERG" \notin e.flags /\ Survived(e)

LEMMA InitEInv == Init => EInv
BY SizesAssumption DEF Init, EInv, LastSweep, Entries

LEMMA EntryTimes ==
  ASSUME NEW e \in Entry
  PROVE  e.created \in Nat /\ e.touched \in Nat /\ e.idle \in Nat /\ e.hard \in Nat
BY DEF Entry

LEMMA StepEInv == IInv /\ EInv /\ [Next]_vars => EInv'
<1> SUFFICES ASSUME IInv, EInv, [Next]_vars PROVE EInv'
  OBVIOUS
<1>1. /\ Entries' = Elements(table') /\ Elements(table) = Entries /\ Entries \subseteq Entry
      /\ now \in Nat /\ sweepAt \in Nat /\ Period \in Nat /\ LastSweep \in Int
      /\ LastSweep <= now
  BY EntriesProperties, SizesAssumption DEF Entries, Elements, IInv, EInv, LastSweep
<1>2. ASSUME now' = now, sweepAt' = sweepAt, Elements(table') \subseteq Entries
      PROVE  EInv'
  BY <1>1, <1>2 DEF EInv, Survived, LastSweep
<1>3. ASSUME NEW fm \in FlowMods, NEW id, RxFlowMod(fm, id) PROVE EInv'
  <2>1. table' = FlowModResult(fm).table /\ now' = now /\ sweepAt' = sweepAt
    BY <1>3 DEF RxFlowMod
  <2>2. CASE Elements(table') = Entries
    BY <1>2, <2>1, <2>2
  <2>3. CASE "EMERG" \notin fm.flags /\ Installed(table', FromFlowMod(fm))
    <3> DEFINE new == FromFlowMod(fm)
    <3>1. new.flags = fm.flags /\ new.created = now /\ new.touched = now /\ new \in Entry
      BY <1>1, FromFlowModType DEF FromFlowMod
    <3> HIDE DEF new
    <3>2. Survived(new)
      BY <1>1, <3>1, EntryTimes DEF Survived
    <3>3. \A e \in Elements(table') : "EMERG" \notin e.flags /\ Survived(e)
      BY <2>3, <3>1, <3>2 DEF Installed, EInv, new
    <3> QED BY <1>1, <2>1, <3>3 DEF EInv, Survived, LastSweep
  <2>4. ASSUME NEW S \in SUBSET Entries, Amended(table', S, fm.actions) PROVE EInv'
    <3>1. ASSUME NEW e \in S
          PROVE  LET f == [e EXCEPT !.actions = fm.actions]
                 IN  "EMERG" \notin f.flags /\ Survived(f)
      <4>1. e \in Entry /\ "EMERG" \notin e.flags /\ Survived(e)
        BY <1>1 DEF EInv
      <4> QED BY <4>1 DEF Entry, Survived
    <3>2. \A e \in Elements(table') : "EMERG" \notin e.flags /\ Survived(e)
      BY <2>4, <3>1 DEF Amended, EInv
    <3> QED BY <1>1, <2>1, <3>2 DEF EInv, Survived, LastSweep
  <2>5. ASSUME NEW S \in SUBSET Entries, Removed(table', S) PROVE EInv'
    BY <1>2, <2>1, <2>5 DEF Removed
  <2> QED BY <2>1, <2>2, <2>3, <2>4, <2>5, FlowModEffect
<1>4. ASSUME NEW actions, NEW id, RxPacketOut(actions, id) PROVE EInv'
  BY <1>1, <1>2, <1>4 DEF RxPacketOut
<1>10. ASSUME NEW actions, NEW p \in Packets, RxPacketOutData(actions, p) PROVE EInv'
  BY <1>1, <1>2, <1>10 DEF RxPacketOutData
<1>5. ASSUME NEW p \in Packets, RxPacketHit(p) PROVE EInv'
  <2> DEFINE e == table[EntryForPacket(table, p)]
             f == [e EXCEPT !.touched = now]
  <2>1. e \in Entries /\ Elements(table') = (Entries \ {e}) \cup {f}
    BY <1>5, HitEffect
  <2> HIDE DEF e
  <2>2. e \in Entry /\ "EMERG" \notin e.flags /\ Survived(e)
    BY <1>1, <2>1 DEF EInv
  <2>3. /\ f.flags = e.flags /\ f.touched = now /\ f.created = e.created
        /\ f.idle = e.idle /\ f.hard = e.hard
    BY <2>2 DEF Entry
  <2> HIDE DEF f
  <2>4. "EMERG" \notin f.flags /\ Survived(f)
    BY <1>1, <2>2, <2>3, EntryTimes DEF Survived
  <2>5. \A x \in Elements(table') : "EMERG" \notin x.flags /\ Survived(x)
    BY <2>1, <2>4 DEF EInv
  <2>6. now' = now /\ sweepAt' = sweepAt
    BY <1>5 DEF RxPacketHit
  <2> QED BY <1>1, <2>5, <2>6 DEF EInv, Survived, LastSweep
<1>6. ASSUME NEW p \in Packets, RxPacketMiss(p) PROVE EInv'
  BY <1>1, <1>2, <1>6 DEF RxPacketMiss
<1>7. CASE RemoveExpiredEntries
  <2>1. now' = now /\ sweepAt' = now + Period
    BY <1>7 DEF RemoveExpiredEntries
  <2>2. LastSweep' = now
    BY <1>1, <2>1 DEF LastSweep
  <2>3. ASSUME NEW e \in Elements(table')
        PROVE  "EMERG" \notin e.flags /\ ~IsIdleTimedOut(e, now) /\ ~IsHardTimedOut(e, now)
               /\ e \in Entry
    BY <1>1, <1>7, SweepEffect DEF EInv, IdleEntries, HardEntries, Entries
  <2>4. ASSUME NEW e \in Elements(table') PROVE Survived(e)'
    <3>1. e.created \in Nat /\ e.touched \in Nat /\ e.idle \in Nat /\ e.hard \in Nat
      BY <2>3, EntryTimes
    <3> QED BY <1>1, <2>2, <2>3, <3>1 DEF IsIdleTimedOut, IsHardTimedOut, Survived
  <2> QED BY <1>1, <2>1, <2>2, <2>3, <2>4 DEF EInv
<1>8. CASE Tick
  BY <1>1, <1>8 DEF Tick, EInv, Survived, LastSweep, Elements
<1>9. CASE UNCHANGED vars
  BY <1>1, <1>2, <1>9 DEF vars
<1> QED BY <1>3, <1>4, <1>5, <1>6, <1>7, <1>8, <1>9, <1>10 DEF Next

LEMMA EInvImplies == IInv /\ EInv => LifetimeBounded
<1> SUFFICES ASSUME IInv, EInv, NEW e \in Entries
             PROVE  /\ e.hard > 0 => now - e.created <= e.hard + Period
                    /\ e.idle > 0 => now - e.touched <= e.idle + Period
  BY DEF LifetimeBounded
<1>1. e.created \in Nat /\ e.touched \in Nat /\ e.idle \in Nat /\ e.hard \in Nat
  BY EntriesProperties, EntryTimes
<1>2. now \in Nat /\ sweepAt \in Nat /\ Period \in Nat /\ now <= sweepAt
  BY SizesAssumption DEF IInv
<1>3. Survived(e)
  BY DEF EInv
<1> QED BY <1>1, <1>2, <1>3 DEF Survived, LastSweep

LEMMA EInvariance == Spec => []EInv
<1>1. IInv /\ EInv /\ [Next]_vars => EInv'
  BY StepEInv
<1> QED BY <1>1, InitEInv, Invariance, PTL DEF Spec

(***************************************************************************)
(* No entry outlives an idle or hard timeout by more than one period, for  *)
(* every period, table size and sequence of messages and packets.          *)
(***************************************************************************)
THEOREM SwitchLifetimeBounded == Spec => []LifetimeBounded
BY Invariance, EInvariance, EInvImplies, PTL
-----------------------------------------------------------------------------
(***************************************************************************)
(* What leaves the table and the buffer leaves a message behind.           *)
(***************************************************************************)
RemovalsAnnounced ==
  \A e \in Entries : "SEND_FLOW_REM" \in e.flags =>
    ((\A f \in Entries' : ~SameKey(e, f))
       <=> \E m \in out' : /\ m.type = "flow_removed"
                           /\ m.match = e.match /\ m.priority = e.priority)

Announced(sent, e) ==
  \E m \in sent : /\ m.type = "flow_removed"
                  /\ m.match = e.match /\ m.priority = e.priority

\* The messages of a packet released from the buffer or sent by an entry.
LEMMA ActionsOutMessages ==
  ASSUME NEW b, NEW p, NEW actions, NEW via
  PROVE  \A m \in ActionsOut(b, p, actions, via) :
           \/ m = Forward(via, p, actions) /\ m.type = "forward" /\ m.via = via
           \/ m.type = "packet_in" /\ m.reason = "ACTION"
BY DEF ActionsOut, Forward, PacketIn

LEMMA ReleaseOutMessages ==
  ASSUME NEW b, NEW id, NEW actions
  PROVE  \A m \in ReleaseOut(b, id, actions) :
           \/ m.type = "forward" /\ m.via = "release"
           \/ m.type = "packet_in" /\ m.reason = "ACTION"
BY ActionsOutMessages DEF ReleaseOut

\* The notices for some entries of the table name exactly those of them that
\* ask for one: no other entry has their match and priority.
LEMMA NoticesAnnounce ==
  ASSUME IInv, EInv, NEW S \in SUBSET Entries, NEW reason,
         NEW e \in Entries, "SEND_FLOW_REM" \in e.flags
  PROVE  Announced(Notices(S, reason), e) <=> e \in S
<1>1. \A g : /\ FlowRemoved(g, reason).type = "flow_removed"
             /\ FlowRemoved(g, reason).match = g.match
             /\ FlowRemoved(g, reason).priority = g.priority
  BY DEF FlowRemoved
<1>2. ASSUME e \in S PROVE Announced(Notices(S, reason), e)
  <2>1. FlowRemoved(e, reason) \in Notices(S, reason)
    BY <1>2 DEF Notices, EInv
  <2> QED BY <1>1, <2>1 DEF Announced
<1>3. ASSUME Announced(Notices(S, reason), e) PROVE e \in S
  <2>1. PICK g \in S : FlowRemoved(g, reason).match = e.match
                       /\ FlowRemoved(g, reason).priority = e.priority
    BY <1>3 DEF Announced, Notices
  <2>2. g \in Entries /\ SameKey(g, e)
    BY <1>1, <2>1 DEF SameKey
  <2>3. g = e
    BY <2>2, EntriesProperties
  <2> QED BY <2>3
<1> QED BY <1>2, <1>3

LEMMA StepAnnounced == IInv /\ EInv /\ Next => RemovalsAnnounced
<1> SUFFICES ASSUME IInv, EInv, Next PROVE RemovalsAnnounced
  OBVIOUS
<1>1. /\ Entries' = Elements(table') /\ Elements(table) = Entries /\ Entries \subseteq Entry
      /\ \A e, f \in Entries : SameKey(e, f) => e = f
      /\ \A e : SameKey(e, e)
  BY EntriesProperties DEF Entries, Elements, SameKey
\* A step that keeps every key and sends no flow_removed.
<1>2. ASSUME \A e \in Entries : \E f \in Elements(table') : SameKey(e, f),
             \A m \in out' : m.type # "flow_removed"
      PROVE  RemovalsAnnounced
  BY <1>1, <1>2 DEF RemovalsAnnounced
\* A step that removes S and sends the notices for S.
<1>3. ASSUME NEW S \in SUBSET Entries, Elements(table') = Entries \ S,
             \A e \in Entries : "SEND_FLOW_REM" \in e.flags =>
               (Announced(out', e) <=> e \in S)
      PROVE  RemovalsAnnounced
  <2>1. ASSUME NEW e \in Entries
        PROVE  (\A f \in Entries' : ~SameKey(e, f)) <=> e \in S
    BY <1>1, <1>3
  <2> QED BY <1>3, <2>1 DEF RemovalsAnnounced, Announced
<1>4. ASSUME NEW fm \in FlowMods, NEW id, RxFlowMod(fm, id) PROVE RemovalsAnnounced
  <2> DEFINE u == FlowModResult(fm).table
             sent == FlowModResult(fm).sent
             released == ReleaseOut(buffer, id, fm.actions)
  <2>1. table' = u /\ out' = sent \cup released
    BY <1>4 DEF RxFlowMod
  <2>2. \A m \in released : m.type # "flow_removed"
    BY ReleaseOutMessages
  <2>3. \/ Elements(u) = Entries /\ \A m \in sent : m.type = "error"
        \/ Installed(u, FromFlowMod(fm)) /\ \A m \in sent : m.type = "error"
        \/ \E S \in SUBSET Entries : Amended(u, S, fm.actions) /\ sent = {}
        \/ \E S \in SUBSET Entries : Removed(u, S) /\ sent = Notices(S, "DELETE")
    BY FlowModEffect
  <2> HIDE DEF u, sent, released
  <2>4. ASSUME Elements(u) = Entries, \A m \in sent : m.type = "error"
        PROVE  RemovalsAnnounced
    BY <1>1, <1>2, <2>1, <2>2, <2>4
  <2>5. ASSUME Installed(u, FromFlowMod(fm)), \A m \in sent : m.type = "error"
        PROVE  RemovalsAnnounced
    <3>1. \A e \in Entries : \E f \in Elements(u) : SameKey(e, f)
      BY <1>1, <2>5 DEF Installed
    <3> QED BY <1>2, <2>1, <2>2, <2>5, <3>1
  <2>6. ASSUME NEW S \in SUBSET Entries, Amended(u, S, fm.actions), sent = {}
        PROVE  RemovalsAnnounced
    <3>1. ASSUME NEW e \in Entries PROVE \E f \in Elements(u) : SameKey(e, f)
      <4> DEFINE f == [e EXCEPT !.actions = fm.actions]
      <4>1. SameKey(e, f)
        BY <1>1 DEF SameKey, Entry
      <4> HIDE DEF f
      <4>2. e \in S => f \in Elements(u)
        BY <2>6 DEF Amended, f
      <4>3. e \notin S => e \in Elements(u)
        BY <2>6 DEF Amended
      <4> QED BY <1>1, <4>1, <4>2, <4>3
    <3> QED BY <1>2, <2>1, <2>2, <2>6, <3>1
  <2>7. ASSUME NEW S \in SUBSET Entries, Removed(u, S), sent = Notices(S, "DELETE")
        PROVE  RemovalsAnnounced
    <3>1. \A e \in Entries : "SEND_FLOW_REM" \in e.flags =>
            (Announced(out', e) <=> e \in S)
      <4> SUFFICES ASSUME NEW e \in Entries, "SEND_FLOW_REM" \in e.flags
                   PROVE  Announced(out', e) <=> e \in S
        OBVIOUS
      <4>1. Announced(out', e) <=> Announced(Notices(S, "DELETE"), e)
        BY <2>1, <2>2, <2>7 DEF Announced
      <4> QED BY <4>1, NoticesAnnounce
    <3> QED BY <1>3, <2>1, <2>7, <3>1 DEF Removed
  <2> QED BY <2>3, <2>4, <2>5, <2>6, <2>7
<1>5. ASSUME NEW actions, NEW id, RxPacketOut(actions, id) PROVE RemovalsAnnounced
  <2>1. table' = table /\ \A m \in out' : m.type # "flow_removed"
    BY <1>5, ReleaseOutMessages DEF RxPacketOut
  <2> QED BY <1>1, <1>2, <2>1
<1>10. ASSUME NEW actions, NEW p \in Packets, RxPacketOutData(actions, p) PROVE RemovalsAnnounced
  <2>1. table' = table /\ \A m \in out' : m.type # "flow_removed"
    BY <1>10, ActionsOutMessages DEF RxPacketOutData
  <2> QED BY <1>1, <1>2, <2>1
<1>6. ASSUME NEW p \in Packets, RxPacketHit(p) PROVE RemovalsAnnounced
  <2> DEFINE e == table[EntryForPacket(table, p)]
             f == [e EXCEPT !.touched = now]
  <2>1. e \in Entries /\ Elements(table') = (Entries \ {e}) \cup {f}
    BY <1>6, HitEffect
  <2>2. \A m \in out' : m.type # "flow_removed"
    BY <1>6, ActionsOutMessages DEF RxPacketHit
  <2> HIDE DEF e
  <2>3. SameKey(e, f)
    BY <1>1, <2>1 DEF SameKey, Entry
  <2> HIDE DEF f
  <2> QED BY <1>1, <1>2, <2>1, <2>2, <2>3
<1>7. ASSUME NEW p \in Packets, RxPacketMiss(p) PROVE RemovalsAnnounced
  <2>1. table' = table /\ \A m \in out' : m.type # "flow_removed"
    BY <1>7 DEF RxPacketMiss, PacketIn
  <2> QED BY <1>1, <1>2, <2>1
<1>8. CASE RemoveExpiredEntries
  <2>1. Elements(table') = Entries \ (IdleEntries \cup HardEntries)
    BY <1>8, SweepEffect
  <2>2. IdleEntries \in SUBSET Entries /\ HardEntries \in SUBSET Entries
    BY DEF IdleEntries, HardEntries, Entries
  <2>3. ASSUME NEW e \in Entries, "SEND_FLOW_REM" \in e.flags
        PROVE  Announced(out', e) <=> e \in IdleEntries \cup HardEntries
    <3>1. out' = Notices(IdleEntries, "IDLE_TIMEOUT") \cup Notices(HardEntries, "HARD_TIMEOUT")
      BY <1>8 DEF RemoveExpiredEntries
    <3>2. Announced(out', e) <=> \/ Announced(Notices(IdleEntries, "IDLE_TIMEOUT"), e)
                                 \/ Announced(Notices(HardEntries, "HARD_TIMEOUT"), e)
      BY <3>1 DEF Announced
    <3> QED BY <2>2, <2>3, <3>2, NoticesAnnounce
  <2>4. IdleEntries \cup HardEntries \in SUBSET Entries
    BY <2>2
  <2> QED BY <1>3, <2>1, <2>3, <2>4
<1>9. CASE Tick
  <2>1. table' = table /\ out' = {}
    BY <1>9 DEF Tick
  <2> QED BY <1>1, <1>2, <2>1
<1> QED BY <1>4, <1>5, <1>6, <1>7, <1>8, <1>9, <1>10 DEF Next

(***************************************************************************)
(* Every step that removes an entry installed with OFPFF_SEND_FLOW_REM     *)
(* sends its flow_removed, and no other step does.                         *)
(***************************************************************************)
THEOREM SwitchNoSilentRemoval == Spec => NoSilentRemoval
<1>1. IInv /\ EInv /\ [Next]_vars =>
        [\A e \in Entries : "SEND_FLOW_REM" \in e.flags =>
           ((\A f \in Entries' : ~SameKey(e, f))
              <=> \E m \in out' : /\ m.type = "flow_removed"
                                  /\ m.match = e.match /\ m.priority = e.priority)]_vars
  BY StepAnnounced DEF RemovalsAnnounced
<1> QED BY <1>1, Invariance, EInvariance, PTL DEF Spec, NoSilentRemoval

\* Buffering a packet fills a free slot or a new one.
LEMMA BufferPacketKeeps ==
  ASSUME NEW b, BufferOK(b), NEW p \in Packets, NEW i \in DOMAIN b, b[i] # None
  PROVE  i \in DOMAIN BufferPacket(b, p) /\ BufferPacket(b, p)[i] = b[i]
<1>1. b \in Seq(Packets \cup {None}) /\ Len(b) \in Nat /\ DOMAIN b = 1 .. Len(b)
  BY LenProperties DEF BufferOK
<1>2. CASE FreeSlots(b) # {}
  <2>1. FreeSlots(b) \subseteq Nat
    BY <1>1 DEF FreeSlots
  <2>2. BufferId(b) \in FreeSlots(b)
    BY <1>2, <2>1, MinimumExists DEF BufferId
  <2>3. BufferId(b) \in DOMAIN b /\ BufferId(b) # None /\ BufferId(b) # i
    BY <1>1, <2>2, SizesAssumption DEF FreeSlots
  <2>4. BufferPacket(b, p) = [b EXCEPT ![BufferId(b)] = p]
    BY <2>3 DEF BufferPacket
  <2> QED BY <1>1, <2>3, <2>4
<1>3. CASE FreeSlots(b) = {} /\ Len(b) < MaxBuffers
  <2>1. BufferId(b) = Len(b) + 1 /\ BufferId(b) # None /\ BufferId(b) \notin DOMAIN b
    BY <1>1, <1>3, SizesAssumption DEF BufferId
  <2>2. BufferPacket(b, p) = Append(b, p)
    BY <2>1 DEF BufferPacket
  <2>3. p \in Packets \cup {None} /\ i \in 1 .. Len(b)
    BY <1>1
  <2> QED BY <1>1, <2>2, <2>3, AppendProperties
<1>4. CASE FreeSlots(b) = {} /\ ~(Len(b) < MaxBuffers)
  <2>1. BufferId(b) = None /\ None \notin DOMAIN b
    BY <1>1, <1>4, SizesAssumption DEF BufferId
  <2>2. BufferPacket(b, p) = b
    BY <2>1 DEF BufferPacket
  <2> QED BY <2>2
<1> QED BY <1>2, <1>3, <1>4

LEMMA ReleaseBufferKeeps ==
  ASSUME NEW b, BufferOK(b), NEW id, NEW actions, NEW i \in DOMAIN b, b[i] # None
  PROVE  LET c == ReleaseBuffer(b, id, actions) IN
         \/ i \in DOMAIN c /\ c[i] = b[i]
         \/ \E m \in ReleaseOut(b, id, actions) :
              m.type = "forward" /\ m.via = "release" /\ m.packet = b[i]
<1>1. CASE ~Holds(b, id)
  BY <1>1 DEF ReleaseBuffer
<1>2. CASE Holds(b, id) /\ id = i
  <2>1. Forward("release", b[id], actions) \in ReleaseOut(b, id, actions)
    BY <1>2 DEF ReleaseOut, ActionsOut
  <2> QED BY <1>2, <2>1 DEF Forward
<1>3. CASE Holds(b, id) /\ id # i
  <2> DEFINE c == ActionsBuffer(b, b[id], actions)
  <2>1. ReleaseBuffer(b, id, actions) = [c EXCEPT ![id] = None]
    BY <1>3 DEF ReleaseBuffer
  <2>2. b[id] \in Packets
    BY <1>3, LenProperties, ElementOfSeq DEF Holds, BufferOK
  <2>3. i \in DOMAIN c /\ c[i] = b[i]
    BY <2>2, BufferPacketKeeps DEF ActionsBuffer
  <2> HIDE DEF c
  <2> QED BY <1>3, <2>1, <2>3
<1> QED BY <1>1, <1>2, <1>3

BuffersKept ==
  \A i \in DOMAIN buffer :
    buffer[i] # None /\ (i \notin DOMAIN buffer' \/ buffer'[i] # buffer[i])
      => \E m \in out' : /\ m.type = "forward" /\ m.via = "release"
                         /\ m.packet = buffer[i]

LEMMA StepBuffersKept == IInv /\ Next => BuffersKept
<1> SUFFICES ASSUME IInv, Next, NEW i \in DOMAIN buffer, buffer[i] # None
             PROVE  \/ i \in DOMAIN buffer' /\ buffer'[i] = buffer[i]
                    \/ \E m \in out' : /\ m.type = "forward" /\ m.via = "release"
                                       /\ m.packet = buffer[i]
  BY DEF BuffersKept
<1>0. BufferOK(buffer)
  BY DEF IInv
<1>1. ASSUME NEW fm \in FlowMods, NEW id, RxFlowMod(fm, id)
      PROVE  \/ i \in DOMAIN buffer' /\ buffer'[i] = buffer[i]
             \/ \E m \in out' : /\ m.type = "forward" /\ m.via = "release"
                                /\ m.packet = buffer[i]
  <2>1. buffer' = ReleaseBuffer(buffer, id, fm.actions)
        /\ ReleaseOut(buffer, id, fm.actions) \subseteq out'
    BY <1>1 DEF RxFlowMod
  <2> QED BY <1>0, <2>1, ReleaseBufferKeeps
<1>2. ASSUME NEW actions, NEW id, RxPacketOut(actions, id)
      PROVE  \/ i \in DOMAIN buffer' /\ buffer'[i] = buffer[i]
             \/ \E m \in out' : /\ m.type = "forward" /\ m.via = "release"
                                /\ m.packet = buffer[i]
  <2>1. buffer' = ReleaseBuffer(buffer, id, actions)
        /\ out' = ReleaseOut(buffer, id, actions)
    BY <1>2 DEF RxPacketOut
  <2> QED BY <1>0, <2>1, ReleaseBufferKeeps
<1>3. ASSUME NEW p \in Packets, RxPacketHit(p) \/ RxPacketMiss(p)
      PROVE  i \in DOMAIN buffer' /\ buffer'[i] = buffer[i]
  <2>1. buffer' = buffer \/ buffer' = BufferPacket(buffer, p)
    BY <1>3 DEF RxPacketHit, RxPacketMiss, ActionsBuffer
  <2> QED BY <1>0, <2>1, BufferPacketKeeps
<1>5. ASSUME NEW actions, NEW p \in Packets, RxPacketOutData(actions, p)
      PROVE  i \in DOMAIN buffer' /\ buffer'[i] = buffer[i]
  <2>1. buffer' = buffer \/ buffer' = BufferPacket(buffer, p)
    BY <1>5 DEF RxPacketOutData, ActionsBuffer
  <2> QED BY <1>0, <2>1, BufferPacketKeeps
<1>4. ASSUME RemoveExpiredEntries \/ Tick PROVE buffer' = buffer
  BY <1>4 DEF RemoveExpiredEntries, Tick
<1> QED BY <1>1, <1>2, <1>3, <1>4, <1>5 DEF Next

(***************************************************************************)
(* A buffered packet leaves its slot only when a message's actions are     *)
(* applied to it: no other packet takes a slot that is occupied.           *)
(***************************************************************************)
THEOREM SwitchBufferedUntilReleased == Spec => BufferedUntilReleased
<1>1. IInv /\ [Next]_vars =>
        [\A i \in DOMAIN buffer :
           buffer[i] # None /\ (i \notin DOMAIN buffer' \/ buffer'[i] # buffer[i])
             => \E m \in out' : /\ m.type = "forward" /\ m.via = "release"
                                /\ m.packet = buffer[i]]_vars
  BY StepBuffersKept DEF BuffersKept
<1> QED BY <1>1, Invariance, PTL DEF Spec, BufferedUntilReleased
-----------------------------------------------------------------------------
(***************************************************************************)
(* The switch implements RuleSet.  Its rules are the entries without their *)
(* times and flags; each step is mapped by its effect on the entries.      *)
(***************************************************************************)
RulesOf(S) == {Rule(e) : e \in S}

LEMMA RuleProperties ==
  ASSUME NEW e \in Entry
  PROVE  /\ Rule(e) \in RuleType
         /\ Rule(e).match = e.match /\ Rule(e).priority = e.priority
         /\ Rule(e).actions = e.actions
         /\ EffectivePriority(Rule(e)) = EffectivePriority(e)
BY DEF Rule, RuleType, Entry, EffectivePriority

LEMMA SameRuleIsSameKey ==
  ASSUME NEW e \in Entry, NEW f \in Entry
  PROVE  Abstract!SameRule(Rule(e), Rule(f)) <=> SameKey(e, f)
BY RuleProperties DEF Abstract!SameRule, SameKey

\* As many rules as entries at most.
LEMMA RulesBounded ==
  ASSUME NEW t \in Seq(Entry)
  PROVE  /\ Cardinality(RulesOf(Elements(t))) \in Nat
         /\ Cardinality(RulesOf(Elements(t))) <= Len(t)
<1> DEFINE f == [i \in 1 .. Len(t) |-> Rule(t[i])]
           R == RulesOf(Elements(t))
<1>1. Elements(t) = {t[i] : i \in 1 .. Len(t)} /\ Len(t) \in Nat
  BY ElementsType, LenProperties
<1>2. \A i \in 1 .. Len(t) : f[i] \in R
  BY <1>1 DEF RulesOf
<1>3. \A r \in R : \E i \in 1 .. Len(t) : f[i] = r
  BY <1>1 DEF RulesOf
<1> HIDE DEF f
<1>4. f \in [1 .. Len(t) -> R]
  BY <1>2 DEF f
<1>5. f \in Surjection(1 .. Len(t), R)
  BY <1>3, <1>4 DEF Surjection
<1>6. ExistsSurjection(1 .. Len(t), R)
  BY <1>5 DEF ExistsSurjection
<1> HIDE DEF R
<1>7. IsFiniteSet(R)
  BY <1>1, <1>6, FS_NatSurjection
<1>8. Cardinality(R) \in Nat
  BY <1>7, FS_CardinalityType
<1>9. Cardinality(R) <= Len(t)
  BY <1>1, <1>6, FS_SurjCardinalityBound
<1> QED BY <1>8, <1>9 DEF R

\* Steps that take S away are withdrawals, or stutter if S is empty: the key of
\* a rule tells its entry apart from the others.
LEMMA RemovedIsWithdraw ==
  ASSUME IInv, NEW S \in SUBSET Entries, Elements(table') = Entries \ S, Decisions' = {}
  PROVE  Abstract!Next
<1>1. /\ Entries' = Elements(table') /\ Entries \subseteq Entry
      /\ \A e, f \in Entries : SameKey(e, f) => e = f
  BY EntriesProperties DEF Entries, Elements
<1>2. ASSUME NEW e \in Entries, NEW f \in Entries, Rule(e) = Rule(f) PROVE e = f
  <2>1. SameKey(e, f)
    BY <1>1, <1>2, RuleProperties DEF SameKey
  <2> QED BY <1>1, <2>1
<1>3. RulesOf(Entries \ S) = RulesOf(Entries) \ RulesOf(S)
  BY <1>2 DEF RulesOf
<1>4. {Rule(e) : e \in Entries}' = {Rule(e) : e \in Entries} \ RulesOf(S)
  BY <1>1, <1>3 DEF RulesOf
<1>5. Abstract!Withdraw(RulesOf(S))
  BY <1>4 DEF Abstract!Withdraw
<1>6. RulesOf(S) \in SUBSET {Rule(e) : e \in Entries}
  BY DEF RulesOf
<1> QED BY <1>5, <1>6 DEF Abstract!Next

LEMMA AmendedIsAmend ==
  ASSUME IInv, NEW S \in SUBSET Entries, NEW r \in RuleType,
         Amended(table', S, r.actions), Decisions' = {}
  PROVE  Abstract!Next
<1>1. /\ Entries' = Elements(table') /\ Entries \subseteq Entry
      /\ \A e, f \in Entries : SameKey(e, f) => e = f
  BY EntriesProperties DEF Entries, Elements
<1>2. ASSUME NEW e \in Entries, NEW f \in Entries, Rule(e) = Rule(f) PROVE e = f
  <2>1. SameKey(e, f)
    BY <1>1, <1>2, RuleProperties DEF SameKey
  <2> QED BY <1>1, <2>1
<1>3. RulesOf(Entries \ S) = RulesOf(Entries) \ RulesOf(S)
  BY <1>2 DEF RulesOf
<1>4. \A e \in S : Rule([e EXCEPT !.actions = r.actions]) = [Rule(e) EXCEPT !.actions = r.actions]
  BY <1>1 DEF Rule, Entry
<1> DEFINE amend(q) == [q EXCEPT !.actions = r.actions]
<1>5. RulesOf({amend(e) : e \in S}) = {amend(q) : q \in RulesOf(S)}
  <2>1. \A e \in S : Rule(amend(e)) = amend(Rule(e))
    BY <1>4
  <2> HIDE DEF amend
  <2> QED BY <2>1 DEF RulesOf
<1>6. RulesOf(Entries') = RulesOf(Entries \ S)
                            \cup RulesOf({[e EXCEPT !.actions = r.actions] : e \in S})
  BY <1>1 DEF Amended, RulesOf
<1>7. Abstract!Amend(RulesOf(S), r.actions)
  BY <1>3, <1>5, <1>6 DEF Abstract!Amend, RulesOf
<1>8. RulesOf(S) \in SUBSET {Rule(e) : e \in Entries}
  BY DEF RulesOf
<1> QED BY <1>7, <1>8 DEF Abstract!Next

\* RuleSet has its own instance of Cardinality, defined in the same way.
LEMMA SameCardinality ==
  ASSUME NEW S PROVE Abstract!Cardinality(S) = Cardinality(S)
BY DEF Abstract!Cardinality, Cardinality, Abstract!IsFiniteSet, IsFiniteSet

LEMMA InstalledIsInstall ==
  ASSUME IInv, IInv', NEW new \in Entry, Installed(table', new), Decisions' = {}
  PROVE  Abstract!Next
<1>1. Entries' = Elements(table') /\ Entries \subseteq Entry
  BY EntriesProperties DEF Entries, Elements
<1>2. table' \in Seq(Entry) /\ Len(table') <= MaxEntries
  BY DEF IInv, TableOK
<1>3. \A e \in Entries : Abstract!SameRule(Rule(e), Rule(new)) <=> SameKey(e, new)
  BY <1>1, SameRuleIsSameKey
<1>4. RulesOf(Entries') = {q \in RulesOf(Entries) : ~Abstract!SameRule(q, Rule(new))}
                             \cup {Rule(new)}
  BY <1>1, <1>3 DEF Installed, RulesOf
<1>5. Cardinality(RulesOf(Entries')) <= MaxEntries
  <2>1. Cardinality(RulesOf(Entries')) <= Len(table')
        /\ Cardinality(RulesOf(Entries')) \in Nat
    BY <1>1, <1>2, RulesBounded
  <2>2. Len(table') \in Nat
    BY <1>2, LenProperties
  <2> QED BY <1>2, <2>1, <2>2, SizesAssumption
<1>6. RulesOf(Entries) = {Rule(e) : e \in Entries}
      /\ RulesOf(Entries') = {Rule(e) : e \in Entries}'
  BY DEF RulesOf
<1>7. Abstract!Install(Rule(new))
  BY <1>4, <1>5, <1>6, SameCardinality DEF Abstract!Install
<1> QED BY <1>7, RuleProperties DEF Abstract!Next

\* The mapped decisions of a step that decides nothing.
LEMMA NoDecision ==
  ASSUME \A m \in out' : \/ m.type \in {"error", "flow_removed"}
                         \/ m.type = "forward" /\ m.via \in {"release", "data"}
                         \/ m.type = "packet_in" /\ m.reason = "ACTION"
  PROVE  Decisions' = {}
<1>1. ~ \E m \in out' : m.type = "forward" /\ m.via = "table"
  OBVIOUS
<1>2. ~ \E m \in out' : m.type = "packet_in" /\ m.reason = "NO_MATCH"
  OBVIOUS
<1> QED BY <1>1, <1>2 DEF Decisions

LEMMA NoticeTypes ==
  ASSUME NEW S, NEW reason
  PROVE  \A m \in Notices(S, reason) : m.type = "flow_removed"
BY DEF Notices, FlowRemoved

\* An entry decides a packet with its own actions: the packet_in that an output
\* to the controller causes stands for OFPP_CONTROLLER among them.
LEMMA HitDecision ==
  ASSUME NEW p, NEW actions, out' = ActionsOut(buffer, p, actions, "table")
  PROVE  Decisions' = {<<p, actions>>}
<1> DEFINE f == Forward("table", p, actions)
           c == PacketIn("ACTION", p, BufferId(buffer))
<1>1. /\ f.type = "forward" /\ f.via = "table" /\ f.packet = p
      /\ f.ports = actions \ {CONTROLLER}
      /\ c.type = "packet_in" /\ c.reason = "ACTION"
  BY DEF Forward, PacketIn
<1>2. out' = {f} \cup (IF CONTROLLER \in actions THEN {c} ELSE {})
  BY DEF ActionsOut
<1> HIDE DEF f, c
<1>3. {o \in out' : o.type = "forward" /\ o.via = "table"} = {f}
  BY <1>1, <1>2
<1>4. {o \in out' : o.type = "packet_in" /\ o.reason = "NO_MATCH"} = {}
  BY <1>1, <1>2
<1>5. (\E o \in out' : o.type = "packet_in") <=> CONTROLLER \in actions
  BY <1>1, <1>2
<1>6. f.ports \cup (IF \E o \in out' : o.type = "packet_in" THEN {CONTROLLER} ELSE {})
        = actions
  BY <1>1, <1>5
<1> DEFINE F == {o \in out' : o.type = "forward" /\ o.via = "table"}
           M == {o \in out' : o.type = "packet_in" /\ o.reason = "NO_MATCH"}
           C == IF \E o \in out' : o.type = "packet_in" THEN {CONTROLLER} ELSE {}
<1>7. Decisions' = {<<m.packet, m.ports \cup C>> : m \in F} \cup {<<m.packet, None>> : m \in M}
  BY DEF Decisions
<1>8. F = {f} /\ M = {} /\ f.ports \cup C = actions
  BY <1>3, <1>4, <1>6
<1> HIDE DEF F, M, C
<1>9. {<<m.packet, m.ports \cup C>> : m \in F} = {<<p, actions>>}
  BY <1>1, <1>8
<1> QED BY <1>7, <1>8, <1>9

LEMMA MissDecision ==
  ASSUME NEW p, NEW id, out' = {PacketIn("NO_MATCH", p, id)}
  PROVE  Decisions' = {<<p, None>>}
<1> DEFINE c == PacketIn("NO_MATCH", p, id)
<1>1. c.type = "packet_in" /\ c.reason = "NO_MATCH" /\ c.packet = p
  BY DEF PacketIn
<1>2. out' = {c}
  OBVIOUS
<1> HIDE DEF c
<1>3. {o \in out' : o.type = "forward" /\ o.via = "table"} = {}
  BY <1>1, <1>2
<1>4. {o \in out' : o.type = "packet_in" /\ o.reason = "NO_MATCH"} = {c}
  BY <1>1, <1>2
<1> QED BY <1>1, <1>3, <1>4 DEF Decisions

\* The first entry that matches has the highest effective priority of those
\* that do, because the list is sorted.
LEMMA HitIsDecide ==
  ASSUME IInv, NEW p \in Packets, RxPacketHit(p)
  PROVE  Abstract!Decide(p)
<1> DEFINE i == EntryForPacket(table, p)
           e == table[i]
           f == [e EXCEPT !.touched = now]
           R == {Rule(x) : x \in Entries}
<1>1. /\ Entries' = Elements(table') /\ Entries \subseteq Entry
      /\ Entries = {table[j] : j \in 1 .. Len(table)} /\ DOMAIN table = 1 .. Len(table)
      /\ Len(table) \in Nat /\ table \in Seq(Entry)
  BY EntriesProperties, ElementsType, LenProperties DEF Entries, Elements
<1>2. /\ i \in Hits(table, p) /\ \A j \in Hits(table, p) : i <= j
      /\ e \in Entries /\ Elements(table') = (Entries \ {e}) \cup {f}
  BY HitEffect
<1>3. out' = ActionsOut(buffer, p, e.actions, "table")
  BY DEF RxPacketHit
<1> HIDE DEF i
<1>4. Rule(f) = Rule(e)
  BY <1>1, <1>2 DEF Rule, Entry
<1> HIDE DEF e, f
<1>5. {Rule(x) : x \in Entries}' = R
  BY <1>1, <1>2, <1>4
<1>6. Decisions' = {<<p, e.actions>>}
  BY <1>3, HitDecision
<1>7. Rule(e) \in Abstract!Best(p)
  <2>1. RuleCovers(Rule(e), p) /\ Rule(e) \in R
    BY <1>1, <1>2, RuleProperties DEF RuleCovers, Hits, e
  <2>2. ASSUME NEW q \in R, RuleCovers(q, p)
        PROVE  EffectivePriority(Rule(e)) >= EffectivePriority(q)
    <3>1. PICK j \in 1 .. Len(table) : q = Rule(table[j])
      BY <1>1
    <3>2. table[j] \in Entry /\ e \in Entry
      BY <1>1, <1>2, ElementOfSeq
    <3>3. j \in Hits(table, p)
      BY <1>1, <2>2, <3>1, <3>2, RuleProperties DEF RuleCovers, Hits
    <3>4. i \in 1 .. Len(table) /\ i <= j
      BY <1>1, <1>2, <3>3 DEF Hits
    <3>5. EffectivePriority(e) >= EffectivePriority(table[j])
      <4>1. CASE i = j
        BY <3>2, <4>1, EffectivePriorityType DEF e
      <4>2. CASE i # j
        BY <1>1, <3>4, <4>2, EntriesProperties DEF Sorted, e
      <4> QED BY <4>1, <4>2
    <3> QED BY <3>1, <3>2, <3>5, RuleProperties
  <2> QED BY <2>1, <2>2 DEF Abstract!Best
<1>8. Rule(e).actions = e.actions
  BY <1>1, <1>2, RuleProperties
<1> QED BY <1>5, <1>6, <1>7, <1>8 DEF Abstract!Decide

LEMMA MissIsDecide ==
  ASSUME IInv, NEW p \in Packets, RxPacketMiss(p)
  PROVE  Abstract!Decide(p)
<1>1. Decisions' = {<<p, None>>}
  BY MissDecision DEF RxPacketMiss
<1>2. Entries' = Entries
  BY DEF RxPacketMiss, Entries
<1>3. Abstract!Best(p) = {}
  <2> SUFFICES ASSUME NEW e \in Entries, RuleCovers(Rule(e), p) PROVE FALSE
    BY DEF Abstract!Best
  <2>1. PICK i \in DOMAIN table : e = table[i]
    BY DEF Entries
  <2>2. Rule(e).match = e.match
    BY EntriesProperties, RuleProperties
  <2>3. i \in Hits(table, p)
    BY <2>1, <2>2 DEF RuleCovers, Hits
  <2> QED BY <2>3 DEF RxPacketMiss
<1> QED BY <1>1, <1>2, <1>3 DEF Abstract!Decide

LEMMA InitRefines == Init => Abstract!Init
BY DEF Init, Abstract!Init, Entries, Decisions

\* Every step of the switch is a step of the rule set, or leaves it alone.
LEMMA StepRefines == IInv /\ IInv' /\ [Next]_vars => [Abstract!Next]_(Abstract!vars)
<1> SUFFICES ASSUME IInv, IInv', [Next]_vars
             PROVE  Abstract!Next \/ UNCHANGED Abstract!vars
  OBVIOUS
<1>1. /\ Elements(table) = Entries
      /\ \A S \in SUBSET Entries : Removed(table', S) => Elements(table') = Entries \ S
  BY EntriesProperties DEF Removed
<1>2. ASSUME table' = table, Decisions' = {} PROVE Abstract!Next
  <2>1. Elements(table') = Entries \ {}
    BY <1>1, <1>2
  <2>2. {} \in SUBSET Entries
    OBVIOUS
  <2> QED BY <1>2, <2>1, <2>2, RemovedIsWithdraw
<1>3. ASSUME NEW fm \in FlowMods, NEW id, RxFlowMod(fm, id) PROVE Abstract!Next
  <2>1. /\ table' = FlowModResult(fm).table
        /\ out' = FlowModResult(fm).sent \cup ReleaseOut(buffer, id, fm.actions)
    BY <1>3 DEF RxFlowMod
  <2>2. FromFlowMod(fm) \in Entry /\ Rule(FromFlowMod(fm)) \in RuleType
        /\ Rule(FromFlowMod(fm)).actions = fm.actions
    BY FromFlowModType, RuleProperties DEF IInv, FromFlowMod, Rule
  <2>3. \A m \in FlowModResult(fm).sent : m.type \in {"error", "flow_removed"}
    BY FlowModEffect, NoticeTypes
  <2>4. Decisions' = {}
    BY <2>1, <2>3, ReleaseOutMessages, NoDecision
  <2>5. CASE Elements(table') = Entries
    <3>1. Elements(table') = Entries \ {} /\ {} \in SUBSET Entries
      BY <2>5
    <3> QED BY <2>4, <3>1, RemovedIsWithdraw
  <2>6. CASE Installed(table', FromFlowMod(fm))
    BY <2>2, <2>4, <2>6, InstalledIsInstall
  <2>7. ASSUME NEW S \in SUBSET Entries, Amended(table', S, fm.actions)
        PROVE  Abstract!Next
    <3> DEFINE r == Rule(FromFlowMod(fm))
    <3>1. r \in RuleType /\ Amended(table', S, r.actions)
      BY <2>2, <2>7
    <3> HIDE DEF r
    <3> QED BY <2>4, <3>1, AmendedIsAmend
  <2>8. ASSUME NEW S \in SUBSET Entries, Removed(table', S) PROVE Abstract!Next
    BY <1>1, <2>4, <2>8, RemovedIsWithdraw
  <2> QED BY <2>1, <2>5, <2>6, <2>7, <2>8, FlowModEffect
<1>4. ASSUME NEW actions, NEW id, RxPacketOut(actions, id) PROVE Abstract!Next
  <2>1. table' = table /\ out' = ReleaseOut(buffer, id, actions)
    BY <1>4 DEF RxPacketOut
  <2>2. Decisions' = {}
    BY <2>1, ReleaseOutMessages, NoDecision
  <2> QED BY <1>2, <2>1, <2>2
<1>10. ASSUME NEW actions, NEW p \in Packets, RxPacketOutData(actions, p) PROVE Abstract!Next
  <2>1. table' = table /\ out' = ActionsOut(buffer, p, actions, "data")
    BY <1>10 DEF RxPacketOutData
  <2>2. Decisions' = {}
    BY <2>1, ActionsOutMessages, NoDecision
  <2> QED BY <1>2, <2>1, <2>2
<1>5. ASSUME NEW p \in Packets, RxPacketHit(p) PROVE Abstract!Next
  BY <1>5, HitIsDecide DEF Abstract!Next
<1>6. ASSUME NEW p \in Packets, RxPacketMiss(p) PROVE Abstract!Next
  BY <1>6, MissIsDecide DEF Abstract!Next
<1>7. CASE RemoveExpiredEntries
  <2>1. Elements(table') = Entries \ (IdleEntries \cup HardEntries)
    BY <1>7, SweepEffect
  <2>2. IdleEntries \cup HardEntries \in SUBSET Entries
    BY DEF IdleEntries, HardEntries, Entries
  <2>3. Decisions' = {}
    BY <1>7, NoticeTypes, NoDecision DEF RemoveExpiredEntries
  <2> QED BY <2>1, <2>2, <2>3, RemovedIsWithdraw
<1>8. CASE Tick
  <2>1. table' = table /\ out' = {}
    BY <1>8 DEF Tick
  <2>2. Decisions' = {}
    BY <2>1, NoDecision
  <2> QED BY <1>2, <2>1, <2>2
<1>9. CASE UNCHANGED vars
  BY <1>9 DEF vars, Abstract!vars, Entries, Decisions
<1> QED BY <1>3, <1>4, <1>5, <1>6, <1>7, <1>8, <1>9, <1>10 DEF Next

(***************************************************************************)
(* The switch implements the rule set: for every table size and every      *)
(* sequence of messages, packets and sweeps, each packet is decided by a   *)
(* highest-priority rule covering it, and rules appear, change and go only *)
(* as the rule set's own operations allow.                                 *)
(***************************************************************************)
THEOREM SwitchImplementsRuleSet == Spec => ImplementsRuleSet
BY Invariance, InitRefines, StepRefines, PTL DEF Spec, ImplementsRuleSet, Abstract!Spec
=============================================================================
