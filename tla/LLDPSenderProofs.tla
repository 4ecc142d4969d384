-------------------------- MODULE LLDPSenderProofs --------------------------
(***************************************************************************)
(* WithinTimeout for all ports, intervals and numbers of events: while the *)
(* timer is left alone, the packets in front of a port's in the two lists  *)
(* and the time since it was last sent stay in balance.                    *)
(***************************************************************************)
EXTENDS LLDPSender, SequenceTheorems, FiniteSetTheorems, WellFoundedInduction, TLAPS

LEMMA Constants ==
  /\ Cycle \in Nat /\ MinInterval \in Nat /\ 1 <= MinInterval /\ MinInterval <= Cycle
  /\ LinkTimeout = 2 * Cycle /\ LinkTimeout \in Nat
  /\ IsFiniteSet(Known)
BY TimeAssumption, KnownAssumption DEF LinkTimeout

\* Induction up to a number.
LEMMA UpTo ==
  ASSUME NEW N \in Nat, NEW S, 0 \in S, \A n \in 0 .. N : n \in S /\ n < N => n + 1 \in S
  PROVE  N \in S
<1> DEFINE T == {n \in 0 .. N : n \notin S}
<1> SUFFICES ASSUME T # {} PROVE FALSE
  OBVIOUS
<1>1. PICK x \in T : \A y \in T : ~ (<<y, x>> \in OpToRel(<, Nat))
  <2>1. T \subseteq Nat
    OBVIOUS
  <2> QED BY <2>1, NatLessThanWellFounded, WFMin
<1>2. x \in 0 .. N /\ x # 0 /\ x - 1 \in 0 .. N /\ x - 1 < x /\ x - 1 \in Nat /\ x \in Nat
  OBVIOUS
<1>3. <<x - 1, x>> \in OpToRel(<, Nat)
  BY <1>2 DEF OpToRel
<1>4. x - 1 \in S
  BY <1>1, <1>2, <1>3
<1> QED BY <1>2, <1>4
-----------------------------------------------------------------------------
(* Lists.                                                                  *)

LEMMA Images ==
  ASSUME NEW S, NEW q \in Seq(S)
  PROVE  /\ Len(q) \in Nat /\ DOMAIN q = 1 .. Len(q)
         /\ \A i \in 1 .. Len(q) : q[i] \in S
         /\ \A x : x \in ToSet(q) <=> \E i \in 1 .. Len(q) : q[i] = x
         /\ ToSet(q) \subseteq S
BY ElementOfSeq, LenProperties DEF ToSet

\* The recursion of Without
LEMMA WithoutUnfold ==
  ASSUME NEW q, NEW S, Len(q) \in Nat
  PROVE  \E f : /\ f[0] = <<>> /\ Without(q, S) = f[Len(q)]
                /\ \A n \in 1 .. Len(q) :
                     f[n] = IF q[n] \in S THEN f[n - 1] ELSE Append(f[n - 1], q[n])
<1> DEFINE Is(f, k) ==
             f = [n \in 0 .. k |->
                    IF n = 0 THEN <<>>
                    ELSE IF q[n] \in S THEN f[n - 1] ELSE Append(f[n - 1], q[n])]
           f == CHOOSE g : Is(g, Len(q))
           N == Len(q)
           R == {k \in 0 .. N : \E g : Is(g, k)}
<1>1. 0 \in R
  <2> DEFINE e == [n \in 0 .. 0 |-> <<>>]
  <2>1. Is(e, 0)
    OBVIOUS
  <2> HIDE DEF Is, e
  <2> QED BY <2>1
<1>2. ASSUME NEW k \in 0 .. N, k \in R, k < N PROVE k + 1 \in R
  <2>1. PICK g : Is(g, k)
    BY <1>2
  <2> DEFINE new == IF q[k + 1] \in S THEN g[k] ELSE Append(g[k], q[k + 1])
             e == [n \in 0 .. k + 1 |-> IF n = k + 1 THEN new ELSE g[n]]
  <2>2. \A n \in 0 .. k : e[n] = g[n]
    OBVIOUS
  <2>3. ASSUME NEW n \in 0 .. k + 1
        PROVE  e[n] = IF n = 0 THEN <<>>
                      ELSE IF q[n] \in S THEN e[n - 1] ELSE Append(e[n - 1], q[n])
    <3>1. CASE n = k + 1
      <4>1. n # 0 /\ n - 1 = k /\ k \in 0 .. k
        BY <3>1
      <4> QED BY <2>2, <3>1, <4>1
    <3>2. CASE n # k + 1
      <4>1. n \in 0 .. k /\ (n # 0 => n - 1 \in 0 .. k)
        BY <3>2
      <4>2. g[n] = IF n = 0 THEN <<>>
                   ELSE IF q[n] \in S THEN g[n - 1] ELSE Append(g[n - 1], q[n])
        BY <2>1, <4>1
      <4> QED BY <2>2, <4>1, <4>2
    <3> QED BY <3>1, <3>2
  <2>4. e = [n \in 0 .. k + 1 |-> e[n]]
    OBVIOUS
  <2> HIDE DEF e
  <2>5. Is(e, k + 1)
    BY <2>3, <2>4
  <2> HIDE DEF Is
  <2>6. k + 1 \in 0 .. N
    BY <1>2
  <2> QED BY <2>5, <2>6
<1> HIDE DEF Is
<1>3. N \in R
  <2> HIDE DEF R
  <2> QED BY <1>1, <1>2, UpTo
<1>4. Is(f, N)
  BY <1>3
<1>5. Without(q, S) = f[N]
  BY DEF Without, Is
<1> HIDE DEF f
<1> USE DEF Is
<1>6. f[0] = <<>>
  BY <1>4
<1>7. ASSUME NEW n \in 1 .. N
      PROVE  f[n] = IF q[n] \in S THEN f[n - 1] ELSE Append(f[n - 1], q[n])
  <2>1. n \in 0 .. N /\ n # 0
    OBVIOUS
  <2> QED BY <1>4, <2>1
<1> QED BY <1>5, <1>6, <1>7

\* What is left of a list, in which only packets of S are gone: none has moved back.
LEMMA WithoutProperties ==
  ASSUME NEW E, NEW q \in Seq(E), NEW S
  PROVE  /\ Without(q, S) \in Seq(E)
         /\ Len(Without(q, S)) <= Len(q)
         /\ ToSet(q) \cap S # {} => Len(Without(q, S)) < Len(q)
         /\ ToSet(Without(q, S)) = ToSet(q) \ S
         /\ \A i \in 1 .. Len(q) : q[i] \notin S =>
              \E j \in 1 .. Len(Without(q, S)) : j <= i /\ Without(q, S)[j] = q[i]
<1> DEFINE N == Len(q)
<1>0. N \in Nat /\ \A i \in 1 .. N : q[i] \in E
  BY Images
<1>1. PICK f : /\ f[0] = <<>> /\ Without(q, S) = f[N]
               /\ \A n \in 1 .. N : f[n] = IF q[n] \in S THEN f[n - 1] ELSE Append(f[n - 1], q[n])
  BY <1>0, WithoutUnfold
<1> DEFINE From(u, n) == /\ u \in Seq(E) /\ Len(u) <= n
                         /\ (\E i \in 1 .. n : q[i] \in S) => Len(u) < n
                         /\ \A j \in 1 .. Len(u) : u[j] \notin S /\ \E i \in 1 .. n : u[j] = q[i]
                         /\ \A i \in 1 .. n : q[i] \notin S =>
                              \E j \in 1 .. Len(u) : j <= i /\ u[j] = q[i]
           R == {n \in 0 .. N : From(f[n], n)}
<1>2. 0 \in R
  <2>1. <<>> \in Seq(E) /\ Len(<<>>) = 0
    BY EmptySeq
  <2>2. From(<<>>, 0)
    BY <2>1
  <2> HIDE DEF From
  <2> QED BY <1>0, <1>1, <2>2
<1>3. ASSUME NEW n \in 0 .. N, n \in R, n < N PROVE n + 1 \in R
  <2> DEFINE u == f[n]
             x == q[n + 1]
  <2>1. /\ n + 1 \in 1 .. N /\ (n + 1) - 1 = n /\ n \in Nat /\ n + 1 \in 0 .. N
        /\ \A i \in 1 .. n + 1 : i = n + 1 \/ i \in 1 .. n
        /\ \A i \in 1 .. n : i \in 1 .. n + 1
    BY <1>0, <1>3
  <2>2. From(u, n) /\ x \in E /\ Len(u) \in Nat
    BY <1>0, <1>3, <2>1, Images
  <2>3. f[n + 1] = IF x \in S THEN u ELSE Append(u, x)
    BY <1>1, <2>1
  <2> HIDE DEF u, x
  <2>4. CASE x \in S
    <3>1. From(u, n + 1)
      BY <2>1, <2>2, <2>4 DEF x
    <3> QED BY <2>1, <2>3, <2>4, <3>1
  <2>5. CASE x \notin S
    <3> DEFINE v == Append(u, x)
    <3>1. /\ v \in Seq(E) /\ Len(v) = Len(u) + 1 /\ v[Len(u) + 1] = x
          /\ \A j \in 1 .. Len(u) : v[j] = u[j]
      BY <2>2, AppendProperties
    <3> HIDE DEF v
    <3>2. (\E i \in 1 .. n + 1 : q[i] \in S) => Len(v) < n + 1
      BY <2>1, <2>2, <2>5, <3>1 DEF x
    <3>3. ASSUME NEW j \in 1 .. Len(v) PROVE v[j] \notin S /\ \E i \in 1 .. n + 1 : v[j] = q[i]
      <4>1. CASE j = Len(u) + 1
        BY <2>1, <2>5, <3>1, <4>1 DEF x
      <4>2. CASE j # Len(u) + 1
        <5>1. j \in 1 .. Len(u)
          BY <2>2, <3>1, <4>2
        <5> QED BY <2>1, <2>2, <3>1, <5>1
      <4> QED BY <4>1, <4>2
    <3>4. ASSUME NEW i \in 1 .. n + 1, q[i] \notin S
          PROVE  \E j \in 1 .. Len(v) : j <= i /\ v[j] = q[i]
      <4>1. CASE i = n + 1
        <5>1. Len(u) + 1 \in 1 .. Len(v) /\ Len(u) + 1 <= i
          BY <2>2, <3>1, <4>1
        <5> QED BY <3>1, <4>1, <5>1 DEF x
      <4>2. CASE i # n + 1
        <5>1. PICK j \in 1 .. Len(u) : j <= i /\ u[j] = q[i]
          BY <2>1, <2>2, <3>4, <4>2
        <5>2. j \in 1 .. Len(v) /\ v[j] = q[i]
          BY <2>2, <3>1, <5>1
        <5> QED BY <5>1, <5>2
      <4> QED BY <4>1, <4>2
    <3>5. From(v, n + 1)
      BY <2>1, <2>2, <3>1, <3>2, <3>3, <3>4
    <3> QED BY <2>1, <2>3, <2>5, <3>5 DEF v
  <2> QED BY <2>4, <2>5
<1>4. From(Without(q, S), N)
  <2>1. N \in R
    <3> HIDE DEF R
    <3> QED BY <1>0, <1>2, <1>3, UpTo
  <2> QED BY <1>1, <2>1
<1> DEFINE u == Without(q, S)
<1> HIDE DEF u
<1>5. u \in Seq(E)
  BY <1>4 DEF u
<1>6. \A x : x \in ToSet(u) <=> \E i \in 1 .. Len(u) : u[i] = x
  BY <1>5, Images
<1>7. \A x : x \in ToSet(q) <=> \E i \in 1 .. N : q[i] = x
  BY Images
<1>8. ToSet(u) = ToSet(q) \ S
  BY <1>4, <1>6, <1>7 DEF u
<1> QED BY <1>4, <1>5, <1>7, <1>8 DEF u
-----------------------------------------------------------------------------
(* Sending.                                                                *)

\* The recursion of Sends
LEMMA SendsUnfold ==
  ASSUME NEW c, NEW k \in Nat
  PROVE  \E f : /\ f[0] = c /\ Sends(c, k) = f[k]
                /\ \A n \in 1 .. k : f[n] = SendOne(f[n - 1])
<1> DEFINE Is(f, m) == f = [n \in 0 .. m |-> IF n = 0 THEN c ELSE SendOne(f[n - 1])]
           f == CHOOSE g : Is(g, k)
           R == {m \in 0 .. k : \E g : Is(g, m)}
<1>1. 0 \in R
  <2> DEFINE e == [n \in 0 .. 0 |-> c]
  <2>1. Is(e, 0)
    OBVIOUS
  <2> HIDE DEF Is, e
  <2> QED BY <2>1
<1>2. ASSUME NEW m \in 0 .. k, m \in R, m < k PROVE m + 1 \in R
  <2>1. PICK g : Is(g, m)
    BY <1>2
  <2> DEFINE e == [n \in 0 .. m + 1 |-> IF n = m + 1 THEN SendOne(g[m]) ELSE g[n]]
  <2>2. \A n \in 0 .. m : e[n] = g[n]
    OBVIOUS
  <2>3. ASSUME NEW n \in 0 .. m + 1 PROVE e[n] = IF n = 0 THEN c ELSE SendOne(e[n - 1])
    <3>1. CASE n = m + 1
      <4>1. n # 0 /\ n - 1 = m /\ m \in 0 .. m
        BY <3>1
      <4> QED BY <2>2, <3>1, <4>1
    <3>2. CASE n # m + 1
      <4>1. n \in 0 .. m /\ (n # 0 => n - 1 \in 0 .. m)
        BY <3>2
      <4>2. g[n] = IF n = 0 THEN c ELSE SendOne(g[n - 1])
        BY <2>1, <4>1
      <4> QED BY <2>2, <4>1, <4>2
    <3> QED BY <3>1, <3>2
  <2>4. e = [n \in 0 .. m + 1 |-> e[n]]
    OBVIOUS
  <2> HIDE DEF e
  <2>5. Is(e, m + 1)
    BY <2>3, <2>4
  <2> HIDE DEF Is
  <2>6. m + 1 \in 0 .. k
    BY <1>2
  <2> QED BY <2>5, <2>6
<1> HIDE DEF Is
<1>3. k \in R
  <2> HIDE DEF R
  <2> QED BY <1>1, <1>2, UpTo
<1>4. Is(f, k)
  BY <1>3
<1>5. Sends(c, k) = f[k]
  BY DEF Sends, Is
<1> HIDE DEF f
<1> USE DEF Is
<1>6. f[0] = c
  BY <1>4
<1>7. ASSUME NEW n \in 1 .. k PROVE f[n] = SendOne(f[n - 1])
  <2>1. n \in 0 .. k /\ n # 0
    OBVIOUS
  <2> QED BY <1>4, <2>1
<1> QED BY <1>5, <1>6, <1>7

Total(t, n) == Len(t) + Len(n)
Members(t, n) == ToSet(t) \cup ToSet(n)

\* Port x is sent within the next u packets: a packet goes to the end of the next
\* cycle, which is twice as far away as this one is long.
Due(t, n, x, u) ==
  \/ \E i \in 1 .. Len(t) : t[i] = x /\ i <= u
  \/ x \in ToSet(n) /\ 2 * Len(t) + Len(n) <= u

LEMMA MemberDue ==
  ASSUME NEW t \in Seq(Known), NEW n \in Seq(Known), NEW x \in Members(t, n)
  PROVE  Due(t, n, x, 2 * Total(t, n) - 1)
<1>1. Len(t) \in Nat /\ Len(n) \in Nat
  BY Images
<1>2. CASE \E i \in 1 .. Len(t) : t[i] = x
  BY <1>1, <1>2 DEF Due, Total
<1>3. CASE \E i \in 1 .. Len(n) : n[i] = x
  <2>1. x \in ToSet(n) /\ Len(n) >= 1
    BY <1>1, <1>3, Images
  <2> QED BY <1>1, <2>1 DEF Due, Total
<1> QED BY <1>2, <1>3, Images DEF Members

\* The state of the lists after packets for some ports have been sent, as far as
\* WithinTimeout is concerned.
After(t, n, d, k) ==
  /\ d.this \in Seq(Known) /\ d.next \in Seq(Known)
  /\ Total(d.this, d.next) = Total(t, n)
  /\ Members(d.this, d.next) = Members(t, n)
  /\ \A x \in Known, u \in Int : Due(t, n, x, u) => x \in d.sent \/ Due(d.this, d.next, x, u - k)

LEMMA SendOneAfter ==
  ASSUME NEW t \in Seq(Known), NEW n \in Seq(Known), NEW sent, Total(t, n) > 0,
         NEW c, c.this = t, c.next = n, c.sent = sent
  PROVE  After(t, n, SendOne(c), 1) /\ sent \subseteq SendOne(c).sent
<1> DEFINE cycle == IF t = <<>> THEN n ELSE t
           rest  == IF t = <<>> THEN <<>> ELSE n
           d     == SendOne(c)
<1>1. /\ Len(t) \in Nat /\ Len(n) \in Nat /\ Len(<<>>) = 0
      /\ (t = <<>> <=> Len(t) = 0) /\ (n = <<>> <=> Len(n) = 0)
  BY Images, EmptySeq
<1>2. /\ d.this = Tail(cycle) /\ d.next = Append(rest, Head(cycle))
      /\ d.sent = sent \cup {Head(cycle)}
  BY DEF SendOne
<1> HIDE DEF d
<1>3. /\ cycle \in Seq(Known) /\ cycle # <<>> /\ rest \in Seq(Known)
      /\ Len(cycle) \in Nat /\ Len(cycle) >= 1 /\ Len(rest) \in Nat
      /\ Len(cycle) + Len(rest) = Total(t, n)
      /\ Members(cycle, rest) = Members(t, n)
  <2>1. ToSet(<<>>) = {} /\ <<>> \in Seq(Known)
    BY EmptySeq DEF ToSet
  <2> QED BY <1>1, <2>1 DEF Total, Members
<1>4. ASSUME NEW x \in Known, NEW u \in Int, Due(t, n, x, u)
      PROVE  \/ \E i \in 1 .. Len(cycle) : cycle[i] = x /\ i <= u
             \/ x \in ToSet(rest) /\ 2 * Len(cycle) + Len(rest) <= u
  <2>1. CASE t = <<>>
    <3>1. x \in ToSet(n) /\ Len(n) <= u
      BY <1>1, <1>4, <2>1 DEF Due
    <3>2. PICK i \in 1 .. Len(n) : n[i] = x
      BY <3>1, Images
    <3> QED BY <1>1, <2>1, <3>1, <3>2
  <2>2. CASE t # <<>>
    BY <1>4, <2>2 DEF Due
  <2> QED BY <2>1, <2>2
<1> HIDE DEF cycle, rest
<1> DEFINE h == Head(cycle)
<1>5. /\ Tail(cycle) \in Seq(Known) /\ Len(Tail(cycle)) = Len(cycle) - 1
      /\ \A i \in 1 .. Len(cycle) - 1 : Tail(cycle)[i] = cycle[i + 1]
      /\ h = cycle[1] /\ h \in Known
  BY <1>3, HeadTailProperties
<1>6. /\ Append(rest, h) \in Seq(Known) /\ Len(Append(rest, h)) = Len(rest) + 1
      /\ Append(rest, h)[Len(rest) + 1] = h
      /\ \A i \in 1 .. Len(rest) : Append(rest, h)[i] = rest[i]
  BY <1>3, <1>5, AppendProperties
<1>7. ToSet(Append(rest, h)) = ToSet(rest) \cup {h}
  <2> DEFINE a == Append(rest, h)
  <2>1. /\ \A x : x \in ToSet(a) <=> \E i \in 1 .. Len(a) : a[i] = x
        /\ \A x : x \in ToSet(rest) <=> \E i \in 1 .. Len(rest) : rest[i] = x
    BY <1>3, <1>6, Images
  <2> HIDE DEF a
  <2>2. ASSUME NEW x \in ToSet(a) PROVE x \in ToSet(rest) \cup {h}
    BY <1>3, <1>6, <2>1 DEF a
  <2>3. ASSUME NEW x \in ToSet(rest) \cup {h} PROVE x \in ToSet(a)
    <3>1. CASE x = h
      <4>1. Len(rest) + 1 \in 1 .. Len(a) /\ a[Len(rest) + 1] = h
        BY <1>3, <1>6 DEF a
      <4> QED BY <2>1, <3>1, <4>1
    <3>2. CASE x \in ToSet(rest)
      <4>1. PICK i \in 1 .. Len(rest) : rest[i] = x
        BY <2>1, <3>2
      <4>2. i \in 1 .. Len(a) /\ a[i] = x
        BY <1>3, <1>6, <4>1 DEF a
      <4> QED BY <2>1, <4>2
    <3> QED BY <2>3, <3>1, <3>2
  <2> QED BY <2>2, <2>3 DEF a
<1>8. ToSet(cycle) = ToSet(Tail(cycle)) \cup {h}
  <2> DEFINE a == Tail(cycle)
  <2>0. /\ \A x : x \in ToSet(a) <=> \E i \in 1 .. Len(a) : a[i] = x
        /\ \A x : x \in ToSet(cycle) <=> \E i \in 1 .. Len(cycle) : cycle[i] = x
    BY <1>3, <1>5, Images
  <2> HIDE DEF a
  <2>1. ASSUME NEW x \in ToSet(a) PROVE x \in ToSet(cycle)
    <3>1. PICK i \in 1 .. Len(cycle) - 1 : a[i] = x
      BY <1>5, <2>0 DEF a
    <3>2. i + 1 \in 1 .. Len(cycle) /\ cycle[i + 1] = x
      BY <1>3, <1>5, <3>1 DEF a
    <3> QED BY <2>0, <3>2
  <2>2. ASSUME NEW x \in ToSet(cycle), x # h PROVE x \in ToSet(a)
    <3>1. PICK i \in 1 .. Len(cycle) : cycle[i] = x
      BY <2>0
    <3>2. i - 1 \in 1 .. Len(cycle) - 1 /\ (i - 1) + 1 = i
      BY <1>3, <1>5, <2>2, <3>1
    <3>3. a[i - 1] = x /\ i - 1 \in 1 .. Len(a)
      BY <1>5, <3>1, <3>2 DEF a
    <3> QED BY <2>0, <3>3
  <2>3. h \in ToSet(cycle)
    BY <1>3, <1>5, <2>0
  <2> QED BY <2>1, <2>2, <2>3 DEF a
<1>9. Total(d.this, d.next) = Total(t, n) /\ Members(d.this, d.next) = Members(t, n)
  BY <1>2, <1>3, <1>5, <1>6, <1>7, <1>8 DEF Total, Members
<1>10. ASSUME NEW x \in Known, NEW u \in Int, Due(t, n, x, u)
       PROVE  x \in d.sent \/ Due(d.this, d.next, x, u - 1)
  <2>1. CASE \E i \in 1 .. Len(cycle) : cycle[i] = x /\ i <= u
    <3>1. PICK i \in 1 .. Len(cycle) : cycle[i] = x /\ i <= u
      BY <2>1
    <3>2. CASE i = 1
      BY <1>2, <1>5, <3>1, <3>2
    <3>3. CASE i # 1
      <4>1. /\ i - 1 \in 1 .. Len(cycle) - 1 /\ (i - 1) + 1 = i /\ i - 1 <= u - 1
        BY <1>3, <3>1, <3>3
      <4>2. Tail(cycle)[i - 1] = x /\ i - 1 \in 1 .. Len(Tail(cycle))
        BY <1>5, <3>1, <4>1
      <4> QED BY <1>2, <4>1, <4>2 DEF Due
    <3> QED BY <3>2, <3>3
  <2>2. CASE x \in ToSet(rest) /\ 2 * Len(cycle) + Len(rest) <= u
    <3>1. x \in ToSet(d.next)
      BY <1>2, <1>7, <2>2
    <3>2. 2 * Len(d.this) + Len(d.next) <= u - 1
      BY <1>2, <1>3, <1>5, <1>6, <2>2
    <3> QED BY <3>1, <3>2 DEF Due
  <2> QED BY <1>4, <1>10, <2>1, <2>2
<1> QED BY <1>2, <1>5, <1>6, <1>9, <1>10 DEF After, d

LEMMA SendsAfter ==
  ASSUME NEW t \in Seq(Known), NEW n \in Seq(Known), Total(t, n) > 0, NEW k \in Nat
  PROVE  After(t, n, Sends([this |-> t, next |-> n, sent |-> {}], k), k)
<1> DEFINE c == [this |-> t, next |-> n, sent |-> {}]
<1>1. c.this = t /\ c.next = n
  OBVIOUS
<1> HIDE DEF c
<1>2. PICK f : /\ f[0] = c /\ Sends(c, k) = f[k]
               /\ \A m \in 1 .. k : f[m] = SendOne(f[m - 1])
  BY SendsUnfold
<1> DEFINE R == {m \in 0 .. k : After(t, n, f[m], m)}
<1>3. 0 \in R
  <2>1. \A u \in Int : u - 0 = u
    OBVIOUS
  <2> QED BY <1>1, <1>2, <2>1 DEF After
<1>4. ASSUME NEW m \in 0 .. k, m \in R, m < k PROVE m + 1 \in R
  <2> DEFINE d == f[m]
             e == f[m + 1]
  <2>1. m + 1 \in 1 .. k /\ m + 1 \in 0 .. k /\ (m + 1) - 1 = m
    BY <1>4
  <2>2. e = SendOne(d) /\ After(t, n, d, m)
    BY <1>2, <1>4, <2>1
  <2> HIDE DEF d, e
  <2>3. After(d.this, d.next, e, 1) /\ d.sent \subseteq e.sent
    <3>1. d.this \in Seq(Known) /\ d.next \in Seq(Known) /\ Total(d.this, d.next) > 0
      BY <2>2 DEF After
    <3> QED BY <2>2, <3>1, SendOneAfter
  <2>4. ASSUME NEW x \in Known, NEW u \in Int, Due(t, n, x, u), x \notin e.sent
        PROVE  Due(e.this, e.next, x, u - (m + 1))
    <3>1. Due(d.this, d.next, x, u - m)
      BY <2>2, <2>3, <2>4 DEF After
    <3>2. u - m \in Int /\ (u - m) - 1 = u - (m + 1)
      OBVIOUS
    <3>3. Due(e.this, e.next, x, (u - m) - 1)
      BY <2>3, <2>4, <3>1, <3>2 DEF After
    <3> QED BY <3>2, <3>3
  <2>5. After(t, n, e, m + 1)
    BY <2>2, <2>3, <2>4 DEF After
  <2> QED BY <2>1, <2>5 DEF e
<1>5. k \in R
  <2> HIDE DEF R
  <2> QED BY <1>3, <1>4, UpTo
<1> QED BY <1>2, <1>5 DEF c
-----------------------------------------------------------------------------
(* The timer's arithmetic.                                                 *)

LEMMA IntervalType ==
  ASSUME NEW n \in Nat, n > 0
  PROVE  /\ Interval(n) \in Nat /\ Chunks(n) \subseteq Nat
         /\ \A k \in Chunks(n) : k >= 1
BY Constants DEF Interval, Chunks

\* Only where the rounding is exact is there one size of chunk to choose.
LEMMA OneChunk ==
  ASSUME NEW n \in Nat, n > 0, Batch(n), Whole(n), NEW k \in Chunks(n)
  PROVE  k * Cycle = n * MinInterval
<1> DEFINE C == Cycle
           q == (n * MinInterval) \div C
<1>1. C \in Nat /\ C > 0 /\ n * MinInterval \in Nat /\ k \in Nat /\ q \in Nat
  BY Constants, IntervalType
<1>2. n * MinInterval = C * q
  BY <1>1, Constants DEF Whole
<1>3. k * C - n * MinInterval \in 1 - C .. C - 1
  BY DEF Chunks
<1> HIDE DEF C, q
<1>4. C * k - C * q \in 1 - C .. C - 1
  BY <1>1, <1>2, <1>3
<1>5. CASE k > q
  <2>1. C * k >= C * (q + 1) /\ C * (q + 1) = C * q + C
    BY <1>1, <1>5
  <2> QED BY <1>1, <1>4, <2>1
<1>6. CASE k < q
  <2>1. C * q >= C * (k + 1) /\ C * (k + 1) = C * k + C
    BY <1>1, <1>6
  <2> QED BY <1>1, <1>4, <2>1
<1>7. CASE k = q
  BY <1>1, <1>2, <1>7 DEF C
<1> QED BY <1>1, <1>5, <1>6, <1>7

LEMMA SomeChunk ==
  ASSUME NEW n \in Nat, n > 0, Whole(n)
  PROVE  Chunks(n) # {}
<1>1. CASE ~ Batch(n)
  BY <1>1 DEF Chunks
<1>2. CASE Batch(n)
  <2> DEFINE C == Cycle
             q == (n * MinInterval) \div C
  <2>1. /\ C \in Nat /\ C > 0 /\ n * MinInterval \in Nat /\ q \in Nat
        /\ n * MinInterval = C * q /\ C * q = q * C
    BY <1>2, Constants DEF Whole
  <2>2. q >= 1
    <3>1. C * q > C
      BY <1>2, <2>1 DEF Batch
    <3> HIDE DEF q, C
    <3> QED BY <2>1, <3>1
  <2>3. q <= n
    <3>1. C * q <= n * C
      BY <2>1, Constants
    <3> HIDE DEF q, C
    <3>2. CASE q > n
      <4>1. C * q >= C * (n + 1) /\ C * (n + 1) = n * C + C
        BY <2>1, <3>2
      <4> QED BY <2>1, <3>1, <4>1
    <3> QED BY <2>1, <3>2
  <2>4. q \in 1 .. n /\ q * C - n * MinInterval = 0 /\ 0 \in 1 - C .. C - 1
    BY <2>1, <2>2, <2>3
  <2> QED BY <1>2, <2>4 DEF Chunks
<1> QED BY <1>1, <1>2

LEMMA SameChunk ==
  ASSUME NEW n \in Nat, n > 0, Whole(n), NEW k \in Chunks(n), NEW l \in Chunks(n)
  PROVE  k = l
<1>1. CASE ~ Batch(n)
  BY <1>1 DEF Chunks
<1>2. CASE Batch(n)
  <2>1. k \in Nat /\ l \in Nat /\ Cycle \in Nat /\ Cycle > 0
    BY Constants, IntervalType
  <2>2. k * Cycle = l * Cycle
    BY <1>2, OneChunk
  <2> QED BY <2>1, <2>2
<1> QED BY <1>1, <1>2

\* The highest rate divides a link's timeout; 15 packets in a second do, whatever
\* the number of seconds.
Divides == LinkTimeout % MinInterval = 0

\* All ports have their turn within a link's timeout, if the highest rate divides it.
LEMMA Ample ==
  ASSUME Divides, NEW n \in Nat, n > 0, Whole(n), NEW k \in Chunks(n)
  PROVE  \E j \in 1 .. LinkTimeout : 2 * n - 1 <= j * k /\ j * Interval(n) <= LinkTimeout
<1>1. CASE ~ Batch(n)
  <2>1. k = 1 /\ Interval(n) = Cycle \div n /\ n * MinInterval <= Cycle
    BY <1>1, Constants DEF Chunks, Interval, Batch
  <2>2. n <= n * MinInterval
    BY Constants
  <2>3. 2 * n \in 1 .. LinkTimeout
    BY <2>1, <2>2, Constants
  <2>4. Cycle \div n \in Nat /\ n * (Cycle \div n) <= Cycle
    BY Constants
  <2>5. (2 * n) * (Cycle \div n) = 2 * (n * (Cycle \div n))
    BY <2>4
  <2>6. (2 * n) * Interval(n) <= LinkTimeout
    BY <2>1, <2>4, <2>5, Constants
  <2> QED BY <2>1, <2>3, <2>6
<1>2. CASE Batch(n)
  <2> DEFINE j == LinkTimeout \div MinInterval
  <2>1. Interval(n) = MinInterval /\ k \in Nat /\ k * Cycle = n * MinInterval
    BY <1>2, OneChunk, IntervalType DEF Interval
  <2>2. j \in Nat /\ LinkTimeout = j * MinInterval
    BY Constants DEF Divides
  <2> HIDE DEF j
  <2>3. j \in 1 .. LinkTimeout
    <3>1. j # 0
      BY <2>2, Constants
    <3>2. j <= j * MinInterval
      BY <2>2, Constants
    <3> QED BY <2>2, <3>1, <3>2, Constants
  <2>4. j * k = 2 * n
    <3>1. (j * k) * MinInterval = (j * MinInterval) * k
      BY <2>1, <2>2, Constants
    <3>2. (2 * Cycle) * k = 2 * (k * Cycle)
      BY <2>1, Constants
    <3>3. 2 * (n * MinInterval) = (2 * n) * MinInterval
      BY Constants
    <3>4. (j * k) * MinInterval = (2 * n) * MinInterval
      BY <2>1, <2>2, <3>1, <3>2, <3>3, Constants
    <3>5. j * k \in Nat /\ 2 * n \in Nat /\ MinInterval \in Nat /\ MinInterval > 0
      BY <2>1, <2>2, Constants
    <3> QED BY <3>4, <3>5
  <2> QED BY <2>1, <2>2, <2>3, <2>4
<1> QED BY <1>1, <1>2
-----------------------------------------------------------------------------
(* The inductive invariant.                                                *)

Shape ==
  /\ this \in Seq(Known) /\ next \in Seq(Known)
  /\ chunkOf \in Nat /\ clock \in Nat /\ quiet \in Nat
  /\ waited \in [Known -> Nat] /\ ports \subseteq Known
  /\ chunkOf > 0 => Total(this, next) > 0 /\ clock <= Interval(chunkOf)

Queued == Members(this, next)

\* No port of a session is forgotten.
Reached == Probed \subseteq Queued

\* The timer was set for as many packets as there are.
Counted == NoStray => Total(this, next) <= chunkOf

\* Every port is sent by one of the next j calls of the timer, and these end before
\* it, or the timer, has waited for LinkTimeout.
InTurn ==
  Divides /\ NoStray /\ Whole(chunkOf) =>
    \A x \in Queued, k \in Chunks(chunkOf) : \E j \in 1 .. LinkTimeout :
      /\ Due(this, next, x, j * k)
      /\ LET left == clock + (j - 1) * Interval(chunkOf)
         IN  waited[x] + left <= LinkTimeout \/ quiet + left <= LinkTimeout

IInv == Shape /\ Reached /\ Counted /\ InTurn

LEMMA QueuedTotal ==
  ASSUME NEW t \in Seq(Known), NEW n \in Seq(Known), Members(t, n) # {}
  PROVE  Total(t, n) > 0
<1>1. Len(t) \in Nat /\ Len(n) \in Nat
  BY Images
<1>2. (\E x, i : i \in 1 .. Len(t) /\ t[i] = x) \/ (\E x, i : i \in 1 .. Len(n) /\ n[i] = x)
  BY Images DEF Members
<1> QED BY <1>1, <1>2 DEF Total

\* A port in the lists has not waited too long.
LEMMA IInvImplies == Divides /\ IInv => WithinTimeout
<1> SUFFICES ASSUME Divides, IInv, NoStray, Whole(chunkOf), NEW p \in Probed
             PROVE  waited[p] <= LinkTimeout \/ quiet <= LinkTimeout
  BY DEF WithinTimeout
<1>1. p \in Queued /\ p \in Known /\ Shape /\ waited[p] \in Nat
  BY DEF IInv, Reached, Probed, Shape
<1>2. Len(this) \in Nat /\ Len(next) \in Nat
  BY <1>1, Images DEF Shape
<1>3. chunkOf \in Nat /\ chunkOf > 0
  <2>1. Total(this, next) > 0
    BY <1>1, QueuedTotal DEF Queued, Shape
  <2>2. Total(this, next) <= chunkOf /\ Total(this, next) \in Nat
    BY <1>2 DEF IInv, Counted, Total
  <2> QED BY <1>1, <2>1, <2>2 DEF Shape
<1>4. PICK k : k \in Chunks(chunkOf)
  BY <1>3, SomeChunk
<1>5. PICK j \in 1 .. LinkTimeout :
        LET left == clock + (j - 1) * Interval(chunkOf)
        IN  waited[p] + left <= LinkTimeout \/ quiet + left <= LinkTimeout
  BY <1>1, <1>4 DEF IInv, InTurn
<1>6. clock + (j - 1) * Interval(chunkOf) \in Nat
  <2>1. clock \in Nat /\ Interval(chunkOf) \in Nat /\ j - 1 \in Nat
    BY <1>1, <1>3, IntervalType, Constants DEF Shape
  <2> QED BY <2>1
<1> QED BY <1>1, <1>5, <1>6, Constants DEF Shape

LEMMA DueLater ==
  ASSUME NEW t \in Seq(Known), NEW n \in Seq(Known), NEW x, NEW u \in Int, NEW v \in Int,
         u <= v, Due(t, n, x, u)
  PROVE  Due(t, n, x, v)
BY Images DEF Due

\* The events that restart the timer: their ports have all the time there is.
LEMMA Restarted ==
  ASSUME SetTimer, Reached',
         this' \in Seq(Known), next' \in Seq(Known),
         waited' \in [Known -> Nat], ports' \subseteq Known
  PROVE  IInv'
<1> DEFINE n == Total(this', next')
           I == Interval(n)
<1>1. n \in Nat /\ chunkOf' = n /\ quiet' = 0 /\ clock' = IF n = 0 THEN 0 ELSE I
  BY Images DEF SetTimer, Total
<1>2. n > 0 => I \in Nat
  BY <1>1, IntervalType
<1>3. Shape'
  BY <1>1, <1>2 DEF Shape
<1>4. Counted'
  BY <1>1 DEF Counted
<1>5. ASSUME Divides, Whole(n), NEW x \in Queued', NEW k \in Chunks(n)
      PROVE  \E j \in 1 .. LinkTimeout :
               /\ Due(this', next', x, j * k)
               /\ quiet' + (clock' + (j - 1) * I) <= LinkTimeout
  <2>1. Due(this', next', x, 2 * n - 1)
    BY <1>5, MemberDue DEF Queued
  <2>2. n > 0
    BY <1>5, QueuedTotal DEF Queued
  <2>3. PICK j \in 1 .. LinkTimeout : 2 * n - 1 <= j * k /\ j * I <= LinkTimeout
    BY <1>1, <1>5, <2>2, Ample
  <2>4. k \in Nat /\ j \in Nat /\ I \in Nat
    BY <1>1, <1>5, <2>2, IntervalType, Constants
  <2>5. I + (j - 1) * I = j * I /\ j * k \in Int /\ j * I \in Int
    BY <2>4
  <2>6. Due(this', next', x, j * k)
    BY <1>1, <2>1, <2>3, <2>5, DueLater
  <2>7. clock' = I /\ quiet' = 0
    BY <1>1, <2>2
  <2> HIDE DEF I
  <2>8. quiet' + (clock' + (j - 1) * I) = j * I
    BY <2>4, <2>5, <2>7
  <2> QED BY <2>3, <2>6, <2>8
<1> HIDE DEF n
<1>6. InTurn'
  <2> SUFFICES ASSUME Divides, Whole(n), NEW x \in Queued', NEW k \in Chunks(n)
               PROVE  \E j \in 1 .. LinkTimeout :
                        /\ Due(this', next', x, j * k)
                        /\ LET left == clock' + (j - 1) * Interval(n)
                           IN  waited'[x] + left <= LinkTimeout \/ quiet' + left <= LinkTimeout
    BY <1>1 DEF InTurn
  <2> QED BY <1>5
<1> QED BY <1>3, <1>4, <1>6 DEF IInv

\* Dropping some ports, and putting others in front.
LEMMA Dropped ==
  ASSUME NEW t \in Seq(Known), NEW n \in Seq(Known), NEW S
  PROVE  /\ Without(t, S) \in Seq(Known) /\ Without(n, S) \in Seq(Known)
         /\ Members(Without(t, S), Without(n, S)) = Members(t, n) \ S
BY WithoutProperties DEF Members

LEMMA InFront ==
  ASSUME NEW o \in Seq(Known), NEW n \in Seq(Known)
  PROVE  o \o n \in Seq(Known) /\ ToSet(o \o n) = ToSet(o) \cup ToSet(n)
<1> DEFINE c == o \o n
<1>1. /\ c \in Seq(Known) /\ Len(c) = Len(o) + Len(n) /\ Len(o) \in Nat /\ Len(n) \in Nat
      /\ \A i \in 1 .. Len(o) + Len(n) : c[i] = IF i <= Len(o) THEN o[i] ELSE n[i - Len(o)]
  BY ConcatProperties, Images
<1> HIDE DEF c
<1>2. /\ \A x : x \in ToSet(c) <=> \E i \in 1 .. Len(c) : c[i] = x
      /\ \A x : x \in ToSet(o) <=> \E i \in 1 .. Len(o) : o[i] = x
      /\ \A x : x \in ToSet(n) <=> \E i \in 1 .. Len(n) : n[i] = x
  BY <1>1, Images
<1>3. ASSUME NEW x \in ToSet(c) PROVE x \in ToSet(o) \cup ToSet(n)
  <2>1. PICK i \in 1 .. Len(c) : c[i] = x
    BY <1>2
  <2>2. CASE i <= Len(o)
    BY <1>1, <1>2, <2>1, <2>2
  <2>3. CASE i > Len(o)
    <3>1. i - Len(o) \in 1 .. Len(n) /\ n[i - Len(o)] = x
      BY <1>1, <2>1, <2>3
    <3> QED BY <1>2, <3>1
  <2> QED BY <1>1, <2>2, <2>3
<1>4. ASSUME NEW x \in ToSet(o) PROVE x \in ToSet(c)
  <2>1. PICK i \in 1 .. Len(o) : o[i] = x
    BY <1>2
  <2>2. i \in 1 .. Len(c) /\ c[i] = x
    BY <1>1, <2>1
  <2> QED BY <1>2, <2>2
<1>5. ASSUME NEW x \in ToSet(n) PROVE x \in ToSet(c)
  <2>1. PICK i \in 1 .. Len(n) : n[i] = x
    BY <1>2
  <2>2. /\ i + Len(o) \in 1 .. Len(c) /\ i + Len(o) \in 1 .. Len(o) + Len(n)
        /\ ~ (i + Len(o) <= Len(o)) /\ (i + Len(o)) - Len(o) = i
    BY <1>1, <2>1
  <2>3. c[i + Len(o)] = x
    BY <1>1, <2>1, <2>2
  <2> QED BY <1>2, <2>2, <2>3
<1> QED BY <1>1, <1>3, <1>4, <1>5 DEF c

LEMMA Single ==
  ASSUME NEW p \in Known
  PROVE  <<p>> \in Seq(Known) /\ Len(<<p>>) = 1 /\ ToSet(<<p>>) = {p}
<1>1. <<p>> \in Seq(Known) /\ Len(<<p>>) = 1 /\ <<p>>[1] = p
  OBVIOUS
<1>2. ToSet(<<p>>) = {p}
  BY <1>1 DEF ToSet
<1> QED BY <1>1, <1>2

LEMMA OrderType ==
  ASSUME NEW P, P \subseteq Known, NEW order \in SetToSeqs(P)
  PROVE  order \in Seq(Known)
<1>1. Cardinality(P) \in Nat
  BY Constants, FS_Subset, FS_CardinalityType
<1>2. order \in [1 .. Cardinality(P) -> Known]
  BY DEF SetToSeqs
<1> QED BY <1>1, <1>2, SeqDef

LEMMA SentType ==
  ASSUME NEW S, Sent(S), Shape
  PROVE  /\ waited' \in [Known -> Nat]
         /\ \A x \in Known : waited'[x] = IF x \in S THEN 0 ELSE waited[x]
BY DEF Sent, Shape

LEMMA ConnectionUpStep ==
  ASSUME IInv, NEW s, NEW P, P \subseteq PortsOf(s),
         NEW order \in SetToSeqs(P), ConnectionUp(s, order)
  PROVE  IInv'
<1> DEFINE S == PortsOf(s)
<1>1. this \in Seq(Known) /\ next \in Seq(Known) /\ S \subseteq Known /\ Shape
  BY DEF IInv, Shape, PortsOf
<1>2. order \in Seq(Known) /\ ToSet(order) \subseteq Known
  BY <1>1, OrderType, Images
<1>3. this' = Without(this, S) /\ next' = order \o Without(next, S)
  BY DEF ConnectionUp
<1>4. /\ this' \in Seq(Known) /\ next' \in Seq(Known)
      /\ Queued' = (Queued \ S) \cup ToSet(order)
  <2> DEFINE rest == Without(next, S)
  <2>1. rest \in Seq(Known) /\ Without(this, S) \in Seq(Known)
    BY <1>1, Dropped
  <2>2. next' \in Seq(Known) /\ ToSet(next') = ToSet(order) \cup ToSet(rest)
    BY <1>2, <1>3, <2>1, InFront
  <2>3. Members(this', rest) = Members(this, next) \ S
    BY <1>1, <1>3, Dropped
  <2> HIDE DEF rest
  <2> QED BY <1>3, <2>1, <2>2, <2>3 DEF Queued, Members
<1>5. /\ ports' = (ports \ S) \cup ToSet(order) /\ ports' \subseteq Known
      /\ connected' = connected \cup {s} /\ hidden' = hidden \ {s}
  BY <1>1, <1>2 DEF ConnectionUp, Shape
<1>6. Reached'
  <2> SUFFICES ASSUME NEW p \in Probed' PROVE p \in Queued'
    BY DEF Reached
  <2>1. p \in ports' /\ p[1] \in connected' \ hidden' /\ p \in Known
    BY <1>5 DEF Probed
  <2>2. CASE p \in ToSet(order)
    BY <1>4, <2>2
  <2>3. CASE p \notin ToSet(order)
    <3>1. p \in ports /\ p \notin S /\ p[1] # s
      BY <1>5, <2>1, <2>3 DEF PortsOf
    <3>2. p \in Probed
      BY <1>5, <2>1, <3>1 DEF Probed
    <3> QED BY <1>4, <3>1, <3>2 DEF IInv, Reached
  <2> QED BY <2>2, <2>3
<1>7. waited' \in [Known -> Nat]
  BY <1>1, SentType DEF ConnectionUp
<1> QED BY <1>4, <1>5, <1>6, <1>7, Restarted DEF ConnectionUp

LEMMA SessionDownStep ==
  ASSUME IInv, NEW s, ConnectionDown(s) \/ OlderDown(s)
  PROVE  IInv'
<1> DEFINE S == PortsOf(s)
<1>1. this \in Seq(Known) /\ next \in Seq(Known) /\ S \subseteq Known /\ Shape
  BY DEF IInv, Shape, PortsOf
<1>2. this' = Without(this, S) /\ next' = Without(next, S) /\ waited' = waited /\ SetTimer
  BY DEF ConnectionDown, OlderDown, DelSwitch
<1>3. this' \in Seq(Known) /\ next' \in Seq(Known) /\ Queued' = Queued \ S
  BY <1>1, <1>2, Dropped DEF Queued
<1>4. ports' \subseteq ports /\ waited' \in [Known -> Nat]
  BY <1>1, <1>2 DEF ConnectionDown, OlderDown, Shape
<1>5. Reached'
  <2> SUFFICES ASSUME NEW p \in Probed' PROVE p \in Queued'
    BY DEF Reached
  <2>1. p \in ports' /\ p \in ports /\ p[1] \in connected' \ hidden' /\ p \in Known
    BY <1>1, <1>4 DEF Probed, Shape
  <2>2. p[1] # s
    BY <2>1 DEF ConnectionDown, OlderDown, PortsOf
  <2>3. p \in Probed /\ p \notin S
    BY <2>1, <2>2 DEF ConnectionDown, OlderDown, Probed, PortsOf
  <2> QED BY <1>3, <2>3 DEF IInv, Reached
<1> QED BY <1>1, <1>2, <1>3, <1>4, <1>5, Restarted DEF Shape

LEMMA PortAddedStep ==
  ASSUME IInv, NEW p \in Known, PortAdded(p)
  PROVE  IInv'
<1>1. this \in Seq(Known) /\ next \in Seq(Known) /\ Shape
  BY DEF IInv, Shape
<1>2. /\ this' = Without(this, {p}) /\ next' = <<p>> \o Without(next, {p})
      /\ SetTimer /\ Sent({p}) /\ ports' = ports \cup {p}
      /\ connected' = connected /\ hidden' = hidden
  BY DEF PortAdded
<1>3. this' \in Seq(Known) /\ next' \in Seq(Known) /\ Queued' = Queued \cup {p}
  <2> DEFINE S == {p}
             rest == Without(next, S)
  <2>1. /\ rest \in Seq(Known) /\ this' \in Seq(Known)
        /\ Members(this', rest) = Members(this, next) \ S
    <3> HIDE DEF S
    <3>1. this' = Without(this, S)
      BY <1>2 DEF S
    <3> QED BY <1>1, <3>1, Dropped
  <2>2. next' \in Seq(Known) /\ ToSet(next') = {p} \cup ToSet(rest)
    BY <1>2, <2>1, InFront, Single
  <2> HIDE DEF rest
  <2> QED BY <1>2, <2>1, <2>2 DEF Queued, Members
<1>4. Reached' /\ ports' \subseteq Known
  BY <1>1, <1>2, <1>3 DEF IInv, Reached, Probed, Shape
<1>5. waited' \in [Known -> Nat]
  BY <1>1, <1>2, SentType
<1> QED BY <1>2, <1>3, <1>4, <1>5, Restarted

LEMMA PortDeletedStep ==
  ASSUME IInv, NEW p \in Known, PortDeleted(p)
  PROVE  IInv'
<1>1. this \in Seq(Known) /\ next \in Seq(Known) /\ Shape
  BY DEF IInv, Shape
<1>2. /\ this' = Without(this, {p}) /\ next' = Without(next, {p})
      /\ SetTimer /\ ports' = ports \ {p} /\ waited' = waited
      /\ connected' = connected /\ hidden' = hidden
  BY DEF PortDeleted
<1>3. this' \in Seq(Known) /\ next' \in Seq(Known) /\ Queued' = Queued \ {p}
  <2> DEFINE S == {p}
  <2> HIDE DEF S
  <2>1. this' = Without(this, S) /\ next' = Without(next, S)
    BY <1>2 DEF S
  <2>2. this' \in Seq(Known) /\ next' \in Seq(Known) /\ Queued' = Queued \ S
    BY <1>1, <2>1, Dropped DEF Queued
  <2> QED BY <2>2 DEF S
<1>4. Reached' /\ ports' \subseteq Known
  BY <1>1, <1>2, <1>3 DEF IInv, Reached, Probed, Shape
<1> QED BY <1>1, <1>2, <1>3, <1>4, Restarted DEF Shape

\* What putting the ports S in front leaves of the lists t and n.
Modified(t, n, S, u, v) ==
  /\ u \in Seq(Known) /\ v \in Seq(Known) /\ Members(u, v) = Members(t, n)
  /\ Total(u, v) <= Total(t, n) /\ Total(u, v) > 0
  /\ \A x \in Known \ S, i \in Int : Due(t, n, x, i) => Due(u, v, x, i)

\* A modified port goes to the front of the next cycle, and no other is later for it.
LEMMA ModifiedDue ==
  ASSUME NEW t \in Seq(Known), NEW n \in Seq(Known), NEW p \in Members(t, n),
         NEW S, p \in S, \A x \in S : x = p,
         NEW o \in Seq(Known), Len(o) = 1, ToSet(o) = S
  PROVE  Modified(t, n, S, Without(t, S), o \o Without(n, S))
<1> SUFFICES ASSUME NEW u, NEW v, u = Without(t, S), v = o \o Without(n, S)
             PROVE  Modified(t, n, S, u, v)
  OBVIOUS
<1> DEFINE rest == Without(n, S)
<1>1. /\ Len(t) \in Nat /\ Len(n) \in Nat /\ Len(u) \in Nat /\ Len(rest) \in Nat
      /\ rest \in Seq(Known) /\ u \in Seq(Known) /\ p \in Known
  BY WithoutProperties, Images DEF Members
<1>2. /\ Len(u) <= Len(t) /\ (p \in ToSet(t) => Len(u) < Len(t))
      /\ Len(rest) <= Len(n) /\ (p \in ToSet(n) => Len(rest) < Len(n))
      /\ p \in ToSet(t) \/ p \in ToSet(n)
  <2>1. /\ p \in ToSet(t) => ToSet(t) \cap S # {}
        /\ p \in ToSet(n) => ToSet(n) \cap S # {}
    OBVIOUS
  <2> QED BY <2>1, WithoutProperties DEF Members
<1>3. Members(u, rest) = Members(t, n) \ S
  BY Dropped
<1>4. v \in Seq(Known) /\ Len(v) = Len(rest) + 1 /\ ToSet(v) = S \cup ToSet(rest)
  <2>1. Len(v) = Len(o) + Len(rest)
    BY <1>1, ConcatProperties
  <2> QED BY <1>1, <2>1, InFront
<1> HIDE DEF rest
<1>6. Members(u, v) = Members(t, n)
  BY <1>3, <1>4 DEF Members
<1>7. /\ Total(u, v) <= Total(t, n) /\ Total(u, v) > 0
      /\ 2 * Len(u) + Len(v) <= 2 * Len(t) + Len(n)
  BY <1>1, <1>2, <1>4 DEF Total
<1>8. ASSUME NEW x \in Known \ S, NEW i \in Int, Due(t, n, x, i) PROVE Due(u, v, x, i)
  <2>1. CASE \E a \in 1 .. Len(t) : t[a] = x /\ a <= i
    <3>1. PICK a \in 1 .. Len(t) : t[a] = x /\ a <= i
      BY <2>1
    <3>2. PICK b \in 1 .. Len(u) : b <= a /\ u[b] = x
      <4>1. \A c \in 1 .. Len(t) : t[c] \notin S =>
              \E b \in 1 .. Len(Without(t, S)) : b <= c /\ Without(t, S)[b] = t[c]
        BY WithoutProperties
      <4>2. t[a] \notin S
        BY <1>8, <3>1
      <4> QED BY <3>1, <4>1, <4>2
    <3>3. b <= i
      BY <1>1, <3>1, <3>2
    <3> QED BY <3>2, <3>3 DEF Due
  <2>2. CASE x \in ToSet(n) /\ 2 * Len(t) + Len(n) <= i
    <3>1. x \in ToSet(v)
      BY <1>4, <1>8, <2>2, WithoutProperties DEF rest
    <3>2. 2 * Len(u) + Len(v) <= i
      BY <1>1, <1>4, <1>7, <2>2
    <3> QED BY <3>1, <3>2 DEF Due
  <2> QED BY <1>8, <2>1, <2>2 DEF Due
<1> QED BY <1>1, <1>4, <1>6, <1>7, <1>8 DEF Modified

\* A port sent just now can wait for the rest of a round.
LEMMA Fresh ==
  ASSUME Divides, NEW t \in Seq(Known), NEW n \in Seq(Known),
         NEW N \in Nat, Total(t, n) <= N, N > 0, Whole(N), NEW k \in Chunks(N),
         NEW x \in Members(t, n)
  PROVE  \E j \in 1 .. LinkTimeout :
           Due(t, n, x, j * k) /\ Interval(N) + (j - 1) * Interval(N) <= LinkTimeout
<1> DEFINE I == Interval(N)
<1>1. Due(t, n, x, 2 * Total(t, n) - 1) /\ Total(t, n) \in Nat
  BY MemberDue, Images DEF Total
<1>2. PICK j \in 1 .. LinkTimeout : 2 * N - 1 <= j * k /\ j * I <= LinkTimeout
  BY Ample
<1>3. k \in Nat /\ j \in Nat /\ I \in Nat
  BY IntervalType, Constants
<1>4. I + (j - 1) * I = j * I /\ j * k \in Int
  BY <1>3
<1>5. Due(t, n, x, j * k)
  <2>1. 2 * Total(t, n) - 1 <= j * k /\ 2 * Total(t, n) - 1 \in Int
    BY <1>1, <1>2, <1>4
  <2> QED BY <1>1, <1>4, <2>1, DueLater
<1> QED BY <1>2, <1>4, <1>5

LEMMA PortModifiedStep ==
  ASSUME IInv, NEW p \in Known, PortModified(p)
  PROVE  IInv'
<1> DEFINE S == {p}
           o == <<p>>
<1>1. this \in Seq(Known) /\ next \in Seq(Known) /\ Shape
  BY DEF IInv, Shape
<1>2. /\ p \in ports /\ p[1] \in connected
      /\ this' = Without(this, S) /\ next' = o \o Without(next, S) /\ Sent(S)
      /\ chunkOf' = chunkOf /\ clock' = clock /\ quiet' = quiet
      /\ connected' = connected /\ hidden' = hidden /\ ports' = ports
  BY DEF PortModified, network
<1>3. o \in Seq(Known) /\ Len(o) = 1 /\ ToSet(o) = S /\ \A x : x \in S <=> x = p
  BY Single
<1> HIDE DEF S, o
<1>4. /\ waited' \in [Known -> Nat]
      /\ \A x \in Known : waited'[x] = IF x = p THEN 0 ELSE waited[x]
  BY <1>1, <1>2, <1>3, SentType
<1>5. CASE p \in Queued
  <2>1. /\ this' \in Seq(Known) /\ next' \in Seq(Known) /\ Queued' = Queued
        /\ Total(this', next') <= Total(this, next) /\ Total(this', next') > 0
        /\ \A x \in Known \ S, i \in Int : Due(this, next, x, i) => Due(this', next', x, i)
    <3>1. p \in Members(this, next)
      BY <1>5 DEF Queued
    <3>2. p \in S /\ \A x \in S : x = p
      BY <1>3
    <3>3. Modified(this, next, S, Without(this, S), o \o Without(next, S))
      BY <1>1, <1>3, <3>1, <3>2, ModifiedDue
    <3>4. Modified(this, next, S, this', next')
      BY <1>2, <3>3
    <3> QED BY <3>4 DEF Queued, Modified
  <2>2. Total(this, next) \in Nat /\ Total(this', next') \in Nat
    BY <1>1, <2>1, Images DEF Total
  <2>3. Shape' /\ Reached'
    BY <1>1, <1>2, <1>4, <2>1 DEF IInv, Shape, Reached, Probed
  <2>4. NoStray' => NoStray
    BY <1>2, <2>1 DEF NoStray, Queued, Members
  <2>5. Counted'
    BY <1>1, <1>2, <2>1, <2>2, <2>4 DEF IInv, Counted, Shape
  <2>6. ASSUME Divides, NoStray', Whole(chunkOf), NEW x \in Queued, NEW k \in Chunks(chunkOf)
        PROVE  \E j \in 1 .. LinkTimeout :
                 /\ Due(this', next', x, j * k)
                 /\ LET left == clock + (j - 1) * Interval(chunkOf)
                    IN  waited'[x] + left <= LinkTimeout \/ quiet + left <= LinkTimeout
    <3>1. Total(this', next') <= chunkOf /\ chunkOf \in Nat /\ chunkOf > 0
      BY <1>1, <1>2, <2>1, <2>2, <2>5, <2>6 DEF Counted, Shape
    <3>2. x \in Known /\ k \in Nat
      BY <1>1, <2>6, <3>1, Images, IntervalType DEF Queued, Members
    <3>3. CASE x = p
      <4>1. PICK j \in 1 .. LinkTimeout :
              Due(this', next', x, j * k) /\ Interval(chunkOf) + (j - 1) * Interval(chunkOf) <= LinkTimeout
        BY <2>1, <2>6, <3>1, Fresh DEF Queued
      <4>2. waited'[x] = 0 /\ clock \in Nat /\ clock <= Interval(chunkOf)
        BY <1>1, <1>4, <3>1, <3>2, <3>3 DEF IInv, Shape
      <4>3. Interval(chunkOf) \in Nat /\ j - 1 \in Nat
        BY <3>1, IntervalType, Constants
      <4>4. (j - 1) * Interval(chunkOf) \in Nat
        BY <4>3
      <4> DEFINE r == (j - 1) * Interval(chunkOf)
      <4> HIDE DEF r
      <4>5. waited'[x] + (clock + r) <= LinkTimeout
        BY <4>1, <4>2, <4>3, <4>4, Constants DEF r
      <4> QED BY <4>1, <4>5 DEF r
    <3>4. CASE x # p
      <4>1. PICK j \in 1 .. LinkTimeout :
              /\ Due(this, next, x, j * k)
              /\ LET left == clock + (j - 1) * Interval(chunkOf)
                 IN  waited[x] + left <= LinkTimeout \/ quiet + left <= LinkTimeout
        BY <2>4, <2>6 DEF IInv, InTurn
      <4>2. j * k \in Int
        BY <3>2, Constants
      <4>3. Due(this', next', x, j * k)
        BY <1>3, <2>1, <3>2, <3>4, <4>1, <4>2
      <4>4. waited'[x] = waited[x]
        BY <1>4, <3>2, <3>4
      <4> QED BY <4>1, <4>3, <4>4
    <3> QED BY <3>3, <3>4
  <2>7. InTurn'
    BY <1>2, <2>1, <2>6 DEF InTurn
  <2> QED BY <2>3, <2>5, <2>7 DEF IInv
<1>6. CASE p \notin Queued
  <2>1. p[1] \in hidden
    BY <1>2, <1>6 DEF IInv, Reached, Probed
  <2>2. /\ this' \in Seq(Known) /\ next' \in Seq(Known)
        /\ Queued' = (Queued \ S) \cup S /\ Len(next') >= 1
    <3> DEFINE rest == Without(next, S)
    <3>1. /\ rest \in Seq(Known) /\ this' \in Seq(Known)
          /\ Members(this', rest) = Members(this, next) \ S
      BY <1>1, <1>2, Dropped
    <3>2. next' \in Seq(Known) /\ ToSet(next') = S \cup ToSet(rest)
      BY <1>2, <1>3, <3>1, InFront
    <3>3. Len(next') >= 1
      <4>1. p \in ToSet(next')
        BY <1>3, <3>2
      <4>2. PICK i \in 1 .. Len(next') : next'[i] = p
        BY <3>2, <4>1, Images
      <4> QED BY <3>2, Images
    <3> HIDE DEF rest
    <3> QED BY <3>1, <3>2, <3>3 DEF Queued, Members
  <2>3. p \in Queued' /\ Queued' = Queued \cup S
    BY <1>3, <1>6, <2>2
  <2>4. ~ NoStray'
    BY <1>2, <2>1, <2>3 DEF NoStray, Queued, Members
  <2>5. Len(this') \in Nat /\ Len(next') \in Nat
    BY <2>2, Images
  <2>6. Shape'
    BY <1>1, <1>2, <1>4, <2>2, <2>5 DEF Shape, Total
  <2>7. Reached'
    BY <1>2, <2>3 DEF IInv, Reached, Probed
  <2> QED BY <2>4, <2>6, <2>7 DEF IInv, Counted, InTurn
<1> QED BY <1>5, <1>6

LEMMA TimerHandlerStep ==
  ASSUME IInv, TimerHandler
  PROVE  IInv'
<1>1. this \in Seq(Known) /\ next \in Seq(Known) /\ Shape
  BY DEF IInv, Shape
<1>2. /\ chunkOf \in Nat /\ chunkOf > 0 /\ clock = 0
      /\ clock' = Interval(chunkOf) /\ Interval(chunkOf) \in Nat
      /\ chunkOf' = chunkOf /\ quiet' = quiet
      /\ connected' = connected /\ hidden' = hidden /\ ports' = ports
  BY <1>1, IntervalType DEF TimerHandler, Shape, network
<1>3. PICK k \in Chunks(chunkOf) :
        LET after == Sends([this |-> this, next |-> next, sent |-> {}], k)
        IN  this' = after.this /\ next' = after.next /\ Sent(after.sent)
  BY DEF TimerHandler
<1> DEFINE d == Sends([this |-> this, next |-> next, sent |-> {}], k)
<1>4. k \in Nat /\ Total(this, next) > 0
  BY <1>1, <1>2, IntervalType DEF Shape
<1>5. After(this, next, d, k)
  BY <1>1, <1>4, SendsAfter
<1>6. this' = d.this /\ next' = d.next /\ Sent(d.sent)
  BY <1>3
<1> HIDE DEF d
<1>7. /\ this' \in Seq(Known) /\ next' \in Seq(Known)
      /\ Total(this', next') = Total(this, next) /\ Queued' = Queued
  BY <1>5, <1>6 DEF After, Queued
<1>8. /\ waited' \in [Known -> Nat]
      /\ \A x \in Known : waited'[x] = IF x \in d.sent THEN 0 ELSE waited[x]
  BY <1>1, <1>6, SentType
<1>9. Shape' /\ Reached'
  BY <1>1, <1>2, <1>7, <1>8 DEF IInv, Shape, Reached, Probed
<1>10. NoStray' => NoStray
  BY <1>2, <1>7 DEF NoStray, Queued, Members
<1>11. Counted'
  BY <1>2, <1>7, <1>10 DEF IInv, Counted
<1>12. ASSUME Divides, NoStray', Whole(chunkOf), NEW x \in Queued, NEW l \in Chunks(chunkOf)
       PROVE  \E j \in 1 .. LinkTimeout :
                /\ Due(this', next', x, j * l)
                /\ LET left == Interval(chunkOf) + (j - 1) * Interval(chunkOf)
                   IN  waited'[x] + left <= LinkTimeout \/ quiet + left <= LinkTimeout
  <2> DEFINE I == Interval(chunkOf)
  <2>1. l = k /\ x \in Known
    BY <1>1, <1>2, <1>12, SameChunk, Images DEF Queued, Members
  <2>2. Total(this', next') <= chunkOf
    BY <1>2, <1>11, <1>12 DEF Counted
  <2>3. CASE x \in d.sent
    <3>1. PICK j \in 1 .. LinkTimeout :
            Due(this', next', x, j * l) /\ I + (j - 1) * I <= LinkTimeout
      BY <1>2, <1>7, <1>12, <2>2, Fresh DEF Queued
    <3>2. waited'[x] = 0 /\ I \in Nat /\ j - 1 \in Nat
      BY <1>2, <1>8, <2>1, <2>3, Constants
    <3>3. I + (j - 1) * I \in Nat
      BY <3>2
    <3> DEFINE left == I + (j - 1) * I
    <3>4. waited'[x] + left <= LinkTimeout
      <4> HIDE DEF left
      <4>1. left \in Nat /\ left <= LinkTimeout
        BY <3>1, <3>3 DEF left
      <4> QED BY <3>2, <4>1
    <3> QED BY <3>1, <3>4
  <2>4. CASE x \notin d.sent
    <3>1. PICK j \in 1 .. LinkTimeout :
            /\ Due(this, next, x, j * l)
            /\ LET left == clock + (j - 1) * I
               IN  waited[x] + left <= LinkTimeout \/ quiet + left <= LinkTimeout
      BY <1>10, <1>12 DEF IInv, InTurn
    <3>2. j \in Nat /\ k \in Nat /\ I \in Nat /\ j * k \in Int
      BY <1>2, <1>4, Constants
    <3>3. Due(this', next', x, j * k - k)
      BY <1>5, <1>6, <2>1, <2>4, <3>1, <3>2 DEF After
    <3>4. j * k - k = (j - 1) * k
      BY <3>2
    <3>5. j # 1
      <4> SUFFICES ASSUME j = 1 PROVE FALSE
        OBVIOUS
      <4>1. Due(this', next', x, 0)
        BY <3>2, <3>3
      <4>2. Len(this') \in Nat /\ Len(next') \in Nat /\ Total(this', next') > 0
        BY <1>4, <1>7, Images
      <4> QED BY <4>1, <4>2 DEF Due, Total
    <3>6. j - 1 \in 1 .. LinkTimeout /\ I + ((j - 1) - 1) * I = (j - 1) * I /\ (j - 1) * I \in Nat
      BY <3>2, <3>5, Constants
    <3>7. waited'[x] = waited[x]
      BY <1>8, <2>1, <2>4
    <3>8. clock + (j - 1) * I = I + ((j - 1) - 1) * I
      BY <1>2, <3>6
    <3>9. Due(this', next', x, (j - 1) * l)
      BY <2>1, <3>3, <3>4
    <3> QED BY <3>1, <3>6, <3>7, <3>8, <3>9
  <2> QED BY <2>3, <2>4
<1>13. InTurn'
  BY <1>2, <1>7, <1>12 DEF InTurn
<1> QED BY <1>9, <1>11, <1>13 DEF IInv

LEMMA ElapseStep ==
  ASSUME IInv, Elapse
  PROVE  IInv'
<1>1. Shape /\ this \in Seq(Known) /\ next \in Seq(Known)
  BY DEF IInv, Shape
<1>2. /\ this' = this /\ next' = next /\ chunkOf' = chunkOf
      /\ connected' = connected /\ hidden' = hidden /\ ports' = ports
      /\ Queued' = Queued
  BY DEF Elapse, lists, network, Queued
<1>3. /\ chunkOf > 0 => clock > 0 /\ clock' = clock - 1
      /\ ~ (chunkOf > 0) => clock' = clock
  BY DEF Elapse
<1>4. /\ quiet' \in Nat /\ quiet' <= quiet + 1
      /\ waited' \in [Known -> Nat] /\ \A x \in Known : waited'[x] <= waited[x] + 1
  BY <1>1, Constants DEF Elapse, Later, Shape
<1>5. Shape' /\ Reached' /\ Counted'
  <2>1. clock' \in Nat /\ (chunkOf > 0 => clock' <= Interval(chunkOf))
    <3>1. chunkOf \in Nat /\ clock \in Nat /\ (chunkOf > 0 => clock <= Interval(chunkOf))
      BY <1>1 DEF Shape
    <3> QED BY <1>3, <3>1, IntervalType
  <2>2. Shape'
    BY <1>1, <1>2, <1>4, <2>1 DEF Shape
  <2> QED BY <1>2, <2>2 DEF IInv, Reached, Counted, Probed, NoStray
<1>6. ASSUME Divides, NoStray, Whole(chunkOf), NEW x \in Queued, NEW k \in Chunks(chunkOf)
      PROVE  \E j \in 1 .. LinkTimeout :
               /\ Due(this, next, x, j * k)
               /\ LET left == clock' + (j - 1) * Interval(chunkOf)
                  IN  waited'[x] + left <= LinkTimeout \/ quiet' + left <= LinkTimeout
  <2>1. chunkOf \in Nat /\ chunkOf > 0 /\ x \in Known
    <3>1. Total(this, next) > 0
      BY <1>1, <1>6, QueuedTotal DEF Queued
    <3>2. Total(this, next) <= chunkOf /\ Total(this, next) \in Nat
      BY <1>1, <1>6, Images DEF IInv, Counted, Total
    <3> QED BY <1>1, <1>6, <3>1, <3>2, Images DEF Shape, Queued, Members
  <2>2. PICK j \in 1 .. LinkTimeout :
          /\ Due(this, next, x, j * k)
          /\ LET left == clock + (j - 1) * Interval(chunkOf)
             IN  waited[x] + left <= LinkTimeout \/ quiet + left <= LinkTimeout
    BY <1>6 DEF IInv, InTurn
  <2> DEFINE r == (j - 1) * Interval(chunkOf)
  <2>3. r \in Nat
    <3>1. j - 1 \in Nat /\ Interval(chunkOf) \in Nat
      BY <2>1, IntervalType, Constants
    <3> QED BY <3>1
  <2>4. waited[x] + (clock + r) <= LinkTimeout \/ quiet + (clock + r) <= LinkTimeout
    BY <2>2
  <2> HIDE DEF r
  <2>5. waited'[x] + (clock' + r) <= LinkTimeout \/ quiet' + (clock' + r) <= LinkTimeout
    <3>1. /\ waited[x] \in Nat /\ waited'[x] \in Nat /\ waited'[x] <= waited[x] + 1
          /\ clock \in Nat /\ clock' = clock - 1 /\ quiet \in Nat
      BY <1>1, <1>3, <1>4, <2>1 DEF Shape
    <3>2. quiet' \in Nat /\ quiet' <= quiet + 1 /\ LinkTimeout \in Nat /\ r \in Nat
      BY <1>4, <2>3, Constants
    <3>3. PICK c \in Nat : c = clock + r
      BY <3>1, <3>2
    <3>4. clock' + r = c - 1
      BY <3>1, <3>2, <3>3
    <3>5. PICK w \in Nat, v \in Nat, q \in Nat, s \in Nat :
            w = waited[x] /\ v = waited'[x] /\ q = quiet /\ s = quiet'
      BY <3>1, <3>2
    <3>6. v <= w + 1 /\ s <= q + 1
      BY <3>1, <3>2, <3>5
    <3>7. w + c <= LinkTimeout \/ q + c <= LinkTimeout
      BY <2>4, <3>3, <3>5
    <3>8. v + (c - 1) <= LinkTimeout \/ s + (c - 1) <= LinkTimeout
      BY <3>2, <3>6, <3>7
    <3> QED BY <3>4, <3>5, <3>8
  <2> QED BY <2>2, <2>5 DEF r
<1>7. InTurn'
  BY <1>2, <1>6 DEF InTurn, NoStray
<1> QED BY <1>5, <1>7 DEF IInv
-----------------------------------------------------------------------------
LEMMA InitIInv == Init => IInv
<1> SUFFICES ASSUME Init PROVE IInv
  OBVIOUS
<1>1. this = <<>> /\ next = <<>> /\ ports = {} /\ chunkOf = 0 /\ clock = 0 /\ quiet = 0
  BY DEF Init
<1>2. /\ this \in Seq(Known) /\ next \in Seq(Known) /\ Total(this, next) = 0
      /\ Queued = {}
  BY <1>1, EmptySeq DEF Total, Queued, Members, ToSet
<1>3. waited \in [Known -> Nat]
  BY DEF Init
<1> QED BY <1>1, <1>2, <1>3 DEF IInv, Shape, Reached, Counted, InTurn, Probed

LEMMA StepIInv == IInv /\ [Next]_vars => IInv'
<1> SUFFICES ASSUME IInv, [Next]_vars PROVE IInv'
  OBVIOUS
<1>1. ASSUME NEW s \in Switches, NEW P \in SUBSET Known, P \subseteq PortsOf(s),
             NEW order \in SetToSeqs(P), ConnectionUp(s, order)
      PROVE  IInv'
  BY <1>1, ConnectionUpStep
<1>2. ASSUME NEW s \in Switches, ConnectionDown(s) \/ OlderDown(s) PROVE IInv'
  BY <1>2, SessionDownStep
<1>3. ASSUME NEW p \in Known, PortAdded(p) PROVE IInv'
  BY <1>3, PortAddedStep
<1>4. ASSUME NEW p \in Known, PortDeleted(p) PROVE IInv'
  BY <1>4, PortDeletedStep
<1>5. ASSUME NEW p \in Known, PortModified(p) PROVE IInv'
  BY <1>5, PortModifiedStep
<1>6. CASE Time
  BY <1>6, TimerHandlerStep, ElapseStep DEF Time
<1>7. CASE UNCHANGED vars
  BY <1>7 DEF vars, lists, network, IInv, Shape, Reached, Counted, InTurn, Probed, Queued, NoStray
<1> QED BY <1>1, <1>2, <1>3, <1>4, <1>5, <1>6, <1>7 DEF Next

\* The timer runs while there is a port to be sent.
Running == Probed # {} => chunkOf > 0

LEMMA InitRunning == Init => Running
BY DEF Init, Running, Probed

LEMMA StepRunning == IInv /\ IInv' /\ Running /\ [Next]_vars => Running'
<1> SUFFICES ASSUME IInv', Running, [Next]_vars PROVE Running'
  OBVIOUS
<1>1. CASE SetTimer
  <2>1. this' \in Seq(Known) /\ next' \in Seq(Known) /\ Probed' \subseteq Members(this', next')
    BY DEF IInv, Shape, Reached, Queued
  <2>2. Probed' # {} => Total(this', next') > 0
    BY <2>1, QueuedTotal
  <2> QED BY <1>1, <2>2 DEF SetTimer, Total, Running
<1>2. CASE /\ chunkOf' = chunkOf
           /\ connected' = connected /\ hidden' = hidden /\ ports' = ports
  BY <1>2 DEF Running, Probed
<1>3. CASE Next
  <2>1. ASSUME NEW s, NEW order, ConnectionUp(s, order) PROVE SetTimer
    BY <2>1 DEF ConnectionUp
  <2>2. ASSUME NEW s, ConnectionDown(s) \/ OlderDown(s) PROVE SetTimer
    BY <2>2 DEF ConnectionDown, OlderDown
  <2>3. ASSUME NEW p, PortAdded(p) \/ PortDeleted(p) PROVE SetTimer
    BY <2>3 DEF PortAdded, PortDeleted
  <2>4. ASSUME NEW p, PortModified(p) PROVE Running'
    BY <1>2, <2>4 DEF PortModified, network
  <2>5. ASSUME Time PROVE Running'
    BY <1>2, <2>5 DEF Time, TimerHandler, Elapse, network
  <2> QED BY <1>1, <1>3, <2>1, <2>2, <2>3, <2>4, <2>5 DEF Next
<1> QED BY <1>2, <1>3 DEF vars, network

\* No port of a session is lost: it is in one of the lists, and the timer that sends
\* them runs, however sessions overlap and in whatever order ports change.
PortsKept == Probed \subseteq ToSet(this) \cup ToSet(next) /\ (Probed # {} => chunkOf > 0)

THEOREM ProbedPortsKept == Spec => []PortsKept
<1>1. Spec => [](IInv /\ Running)
  BY InitIInv, StepIInv, InitRunning, StepRunning, PTL DEF Spec
<1>2. IInv /\ Running => PortsKept
  BY DEF IInv, Reached, Queued, Members, Running, PortsKept
<1> QED BY <1>1, <1>2, PTL

\* Where the highest rate divides a link's timeout, as 15 packets in a second do any
\* number of seconds, no port of a session waits for longer than that for its
\* packet while the timer is left alone, whatever the number of ports, however
\* often some are modified and whatever happened before.
THEOREM ProbedInTime == LinkTimeout % MinInterval = 0 => (Spec => []WithinTimeout)
<1> SUFFICES ASSUME Divides PROVE Spec => []WithinTimeout
  BY DEF Divides
<1>1. IInv => WithinTimeout
  BY IInvImplies
<1> QED BY <1>1, InitIInv, StepIInv, PTL DEF Spec
=============================================================================
