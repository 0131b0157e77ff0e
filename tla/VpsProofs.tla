------------------------------ MODULE VpsProofs ------------------------------
(***************************************************************************)
(* Proofs about Vps: however commands, failures and kills interleave, a    *)
(* config.json that can be read is sound, and the services follow their    *)
(* files, for any processes, clients, cascades, bypass routes, regions,    *)
(* connections, sites and bounds.                                          *)
(*                                                                         *)
(* This is not inductive: a command writes what it computed earlier, and   *)
(* puts back what it set aside.  The invariant says of every process that  *)
(* whatever step is left in its plan will find what it uses: a config to   *)
(* write is sound once it was computed, a copy to put back, or an archive, *)
(* is one that was in place, sound or cut.                                 *)
(*                                                                         *)
(* ServicesFollow is not inductive either: between a write and the restart *)
(* a service runs on what was.  FInv says that then some process is due to *)
(* make it follow: in every plan, and in what its failure leads to, a step *)
(* that lets a service stray comes right before one that makes it follow.  *)
(***************************************************************************)
EXTENDS Vps, SequenceTheorems, FiniteSetTheorems, WellFoundedInduction, TLAPS

-----------------------------------------------------------------------------
(***************************************************************************)
(* Sequences in an order.                                                  *)
(***************************************************************************)
\* A sequence over T in which what comes before stands in relation R to what comes after.
Ordered(s, T, R) == s \in Seq(T) /\ \A i, k \in 1 .. Len(s) : i < k => <<s[i], s[k]>> \in R

\* The elements of a sequence, by index.
LEMMA ToSetOf ==
  ASSUME NEW T, NEW s \in Seq(T)
  PROVE  /\ ToSet(s) = {s[i] : i \in 1 .. Len(s)} /\ ToSet(s) \subseteq T
         /\ DOMAIN s = 1 .. Len(s) /\ Len(s) \in Nat
         /\ \A i \in 1 .. Len(s) : s[i] \in T /\ s[i] \in ToSet(s)
  BY DEF ToSet

\* What Ordered says of a sequence, spelled out.
LEMMA OrderedTypes ==
  ASSUME NEW T, NEW R, NEW s, Ordered(s, T, R)
  PROVE  /\ s \in Seq(T) /\ ToSet(s) \subseteq T
         /\ DOMAIN s = 1 .. Len(s) /\ Len(s) \in Nat
         /\ \A i \in 1 .. Len(s) : s[i] \in T /\ s[i] \in ToSet(s)
         /\ \A i, k \in 1 .. Len(s) : i < k => <<s[i], s[k]>> \in R
         /\ \A x \in ToSet(s) : \E i \in 1 .. Len(s) : x = s[i]
  BY ToSetOf DEF Ordered

\* The empty sequence is in any order.
LEMMA OrderedEmpty ==
  ASSUME NEW T, NEW R
  PROVE  Ordered(<<>>, T, R) /\ ToSet(<<>>) = {}
  BY DEF Ordered, ToSet

\* So is a sequence of one.
LEMMA OrderedOne ==
  ASSUME NEW T, NEW R, NEW x \in T
  PROVE  /\ Ordered(<<x>>, T, R) /\ ToSet(<<x>>) = {x}
         /\ Len(<<x>>) = 1 /\ <<x>>[1] = x /\ <<x>> # <<>>
  BY DEF Ordered, ToSet

\* Two ordered sequences are ordered one after the other, if all of the first goes before
\* all of the second.
LEMMA OrderedConcat ==
  ASSUME NEW T, NEW R, NEW s, NEW t, Ordered(s, T, R), Ordered(t, T, R),
         \A a \in ToSet(s), b \in ToSet(t) : <<a, b>> \in R
  PROVE  /\ Ordered(s \o t, T, R) /\ \A x : x \in ToSet(s \o t) <=> x \in ToSet(s) \union ToSet(t)
         /\ Len(s \o t) = Len(s) + Len(t)
         /\ s # <<>> => s \o t # <<>> /\ (s \o t)[1] = s[1]
<1>1. s \in Seq(T) /\ t \in Seq(T)
  BY DEF Ordered
<1> DEFINE st == s \o t
<1>2. /\ st \in Seq(T) /\ Len(st) = Len(s) + Len(t)
      /\ \A i \in 1 .. Len(s) + Len(t) : st[i] = IF i <= Len(s) THEN s[i] ELSE t[i - Len(s)]
  BY <1>1, ConcatProperties
<1>3. Len(s) \in Nat /\ Len(t) \in Nat
  BY <1>1
<1>4. ToSet(st) = {st[i] : i \in 1 .. Len(st)} /\ ToSet(s) = {s[i] : i \in 1 .. Len(s)} /\ ToSet(t) = {t[i] : i \in 1 .. Len(t)}
  BY <1>1, <1>2, ToSetOf
<1>5. \A i \in 1 .. Len(s) : st[i] = s[i]
  BY <1>2, <1>3
<1>6. \A i \in 1 .. Len(t) : i + Len(s) \in 1 .. Len(st) /\ st[i + Len(s)] = t[i]
  BY <1>2, <1>3
<1> HIDE DEF st
<1>7. ToSet(st) = ToSet(s) \union ToSet(t)
  <2>1. ToSet(st) \subseteq ToSet(s) \union ToSet(t)
    <3> SUFFICES ASSUME NEW i \in 1 .. Len(st) PROVE st[i] \in ToSet(s) \union ToSet(t)
      BY <1>4
    <3> CASE i <= Len(s)
      BY <1>2, <1>3, <1>4
    <3> CASE i > Len(s)
      <4>1. i - Len(s) \in 1 .. Len(t) /\ st[i] = t[i - Len(s)]
        BY <1>2, <1>3
      <4> QED BY <4>1, <1>4
    <3> QED BY <1>2, <1>3
  <2>2. ToSet(s) \subseteq ToSet(st)
    <3> SUFFICES ASSUME NEW i \in 1 .. Len(s) PROVE s[i] \in ToSet(st)
      BY <1>4
    <3>1. i \in 1 .. Len(st) /\ st[i] = s[i]
      BY <1>2, <1>3, <1>5
    <3> QED BY <3>1, <1>4
  <2>3. ToSet(t) \subseteq ToSet(st)
    BY <1>4, <1>6
  <2> QED BY <2>1, <2>2, <2>3
<1>8. ASSUME NEW i \in 1 .. Len(st), NEW k \in 1 .. Len(st), i < k PROVE <<st[i], st[k]>> \in R
  <2>1. \A m \in 1 .. Len(s) : s[m] \in ToSet(s)
    BY <1>4
  <2>2. \A m \in 1 .. Len(t) : t[m] \in ToSet(t)
    BY <1>4
  <2>3. CASE k <= Len(s)
    BY <1>2, <1>3, <1>8, <2>3 DEF Ordered
  <2>4. CASE i > Len(s)
    <3>1. i - Len(s) \in 1 .. Len(t) /\ k - Len(s) \in 1 .. Len(t) /\ i - Len(s) < k - Len(s)
      BY <1>2, <1>3, <1>8, <2>4
    <3>2. st[i] = t[i - Len(s)] /\ st[k] = t[k - Len(s)]
      BY <1>2, <1>3, <1>8, <2>4
    <3> QED BY <3>1, <3>2 DEF Ordered
  <2>5. CASE i <= Len(s) /\ k > Len(s)
    <3>1. i \in 1 .. Len(s) /\ k - Len(s) \in 1 .. Len(t) /\ st[i] = s[i] /\ st[k] = t[k - Len(s)]
      BY <1>2, <1>3, <1>8, <2>5
    <3> QED BY <3>1, <2>1, <2>2
  <2> QED BY <1>2, <1>3, <2>3, <2>4, <2>5
<1>9. s # <<>> => st # <<>> /\ st[1] = s[1]
  <2> SUFFICES ASSUME s # <<>> PROVE st # <<>> /\ st[1] = s[1]
    OBVIOUS
  <2>1. Len(s) > 0
    BY <1>1, <1>3, EmptySeq
  <2> QED BY <2>1, <1>2, <1>3, <1>5
<1> QED
  BY <1>2, <1>7, <1>8, <1>9 DEF st, Ordered

\* What stands between two places of a sequence.
Between(s, m, n) == {s[i] : i \in m .. n}

\* A stretch of an ordered sequence is ordered.
LEMMA OrderedSub ==
  ASSUME NEW T, NEW R, NEW s, Ordered(s, T, R), NEW m \in 1 .. Len(s) + 1, NEW n \in 0 .. Len(s), m <= n + 1
  PROVE  /\ Ordered(SubSeq(s, m, n), T, R)
         /\ ToSet(SubSeq(s, m, n)) = Between(s, m, n)
         /\ Len(SubSeq(s, m, n)) = n - m + 1
         /\ \A i \in 1 .. n - m + 1 : SubSeq(s, m, n)[i] = s[m + i - 1]
<1>1. s \in Seq(T) /\ Len(s) \in Nat /\ \A i \in 1 .. Len(s) : s[i] \in T
  BY OrderedTypes
<1> DEFINE u == SubSeq(s, m, n)
<1>2. /\ u \in Seq(T) /\ Len(u) = n - m + 1
      /\ \A i \in 1 .. n - m + 1 : u[i] = s[m + i - 1]
  <2>1. m \in Int /\ n \in Int /\ \A i \in m .. n : s[i] \in T
    BY <1>1
  <2> QED
    BY <1>1, <2>1, SubSeqProperties
<1> HIDE DEF u
<1>3. ToSet(u) = {u[i] : i \in 1 .. Len(u)}
  BY <1>2, ToSetOf
<1>4. ToSet(u) = {s[i] : i \in m .. n}
  <2>1. \A i \in 1 .. Len(u) : m + i - 1 \in m .. n /\ u[i] = s[m + i - 1]
    BY <1>1, <1>2
  <2>2. \A i \in m .. n : i - m + 1 \in 1 .. Len(u) /\ u[i - m + 1] = s[i]
    BY <1>1, <1>2
  <2>3. \A i \in 1 .. Len(u) : u[i] \in {s[k] : k \in m .. n}
    BY <2>1
  <2>4. \A i \in m .. n : s[i] \in {u[k] : k \in 1 .. Len(u)}
    BY <2>2
  <2> QED BY <1>3, <2>3, <2>4
<1>6. ToSet(u) = Between(s, m, n)
  BY <1>4 DEF Between
<1>5. ASSUME NEW i \in 1 .. Len(u), NEW k \in 1 .. Len(u), i < k PROVE <<u[i], u[k]>> \in R
  <2>1. /\ m + i - 1 \in 1 .. Len(s) /\ m + k - 1 \in 1 .. Len(s) /\ m + i - 1 < m + k - 1
        /\ u[i] = s[m + i - 1] /\ u[k] = s[m + k - 1]
    BY <1>1, <1>2, <1>5
  <2> QED BY <2>1 DEF Ordered
<1> QED
  BY <1>2, <1>5, <1>6 DEF u, Ordered

\* s lists the elements of A, which are of T, in an order R allows.
Lists(s, A, T, R) == Ordered(s, T, R) /\ ToSet(s) = A
\* All of A goes before all of B.
Cross(A, B, R) == \A a \in A, b \in B : <<a, b>> \in R
\* The sequence starts with x.
Heads(s, x) == s # <<>> /\ s[1] = x

\* What Lists says of a sequence, spelled out.
LEMMA ListsTypes ==
  ASSUME NEW T, NEW R, NEW A, NEW s, Lists(s, A, T, R)
  PROVE  /\ s \in Seq(T) /\ ToSet(s) = A /\ A \subseteq T
         /\ DOMAIN s = 1 .. Len(s) /\ Len(s) \in Nat
         /\ \A i \in 1 .. Len(s) : s[i] \in T /\ s[i] \in A
         /\ \A i, k \in 1 .. Len(s) : i < k => <<s[i], s[k]>> \in R
         /\ \A x \in A : \E i \in 1 .. Len(s) : x = s[i]
  BY OrderedTypes DEF Lists

\* A sequence of one lists one element.
LEMMA ListsOne ==
  ASSUME NEW T, NEW R, NEW x \in T
  PROVE  Lists(<<x>>, {x}, T, R) /\ Heads(<<x>>, x) /\ Len(<<x>>) = 1
<1>1. <<x>> # <<>>
  OBVIOUS
<1> QED BY <1>1, OrderedOne DEF Lists, Heads

\* Lists one after the other.
LEMMA ListsConcat ==
  ASSUME NEW T, NEW R, NEW A, NEW B, NEW s, NEW t, Lists(s, A, T, R), Lists(t, B, T, R), Cross(A, B, R)
  PROVE  /\ Lists(s \o t, A \union B, T, R) /\ Len(s \o t) = Len(s) + Len(t)
         /\ \A x : Heads(s, x) => Heads(s \o t, x)
<1>1. \A a \in ToSet(s), b \in ToSet(t) : <<a, b>> \in R
  BY DEF Lists, Cross
<1>2. Ordered(s, T, R) /\ Ordered(t, T, R) /\ ToSet(s) = A /\ ToSet(t) = B
  BY DEF Lists
<1> DEFINE st == s \o t
<1>3. Ordered(st, T, R)
  BY <1>1, <1>2, OrderedConcat
<1>4. \A x : x \in ToSet(st) <=> x \in ToSet(s) \union ToSet(t)
  BY <1>1, <1>2, OrderedConcat
<1>5. Len(st) = Len(s) + Len(t)
  BY <1>1, <1>2, OrderedConcat
<1>6. s # <<>> => st # <<>> /\ st[1] = s[1]
  BY <1>1, <1>2, OrderedConcat
<1> HIDE DEF st
<1>7. ToSet(st) = A \union B
  BY <1>2, <1>4
<1>8. Lists(st, A \union B, T, R) /\ \A x : Heads(s, x) => Heads(st, x)
  BY <1>3, <1>6, <1>7 DEF Lists, Heads
<1> QED BY <1>5, <1>8 DEF st

\* A stretch of a list.
LEMMA ListsSub ==
  ASSUME NEW T, NEW R, NEW A, NEW s, Lists(s, A, T, R), NEW m \in 1 .. Len(s) + 1, NEW n \in 0 .. Len(s), m <= n + 1
  PROVE  /\ Lists(SubSeq(s, m, n), Between(s, m, n), T, R)
         /\ Len(SubSeq(s, m, n)) = n - m + 1
         /\ \A i \in 1 .. n - m + 1 : SubSeq(s, m, n)[i] = s[m + i - 1]
<1>1. Ordered(s, T, R)
  BY DEF Lists
<1>2. ToSet(SubSeq(s, m, n)) = Between(s, m, n)
  BY <1>1, OrderedSub
<1>3. Ordered(SubSeq(s, m, n), T, R) /\ Len(SubSeq(s, m, n)) = n - m + 1
  BY <1>1, OrderedSub
<1>4. \A i \in 1 .. n - m + 1 : SubSeq(s, m, n)[i] = s[m + i - 1]
  BY <1>1, OrderedSub
<1> QED BY <1>2, <1>3, <1>4 DEF Lists

\* What precedes a place, and what follows it.
Till(s, at) == Between(s, 1, at - 1)
\* The elements from a place on.
From(s, at) == Between(s, at, Len(s))

\* A list cut in two.
LEMMA ListsSplit ==
  ASSUME NEW T, NEW R, NEW A, NEW s, Lists(s, A, T, R), NEW at \in 1 .. Len(s) + 1
  PROVE  /\ Lists(SubSeq(s, 1, at - 1), Till(s, at), T, R)
         /\ Lists(SubSeq(s, at, Len(s)), From(s, at), T, R)
         /\ Till(s, at) \union From(s, at) = A
         /\ Cross(Till(s, at), From(s, at), R)
         /\ at > 1 => Heads(SubSeq(s, 1, at - 1), s[1])
<1>1. Len(s) \in Nat /\ A = {s[i] : i \in 1 .. Len(s)}
  BY ListsTypes, ToSetOf
<1> DEFINE a == SubSeq(s, 1, at - 1)
           b == SubSeq(s, at, Len(s))
<1>2. Lists(a, Till(s, at), T, R) /\ Len(a) = at - 1 - 1 + 1
      /\ \A i \in 1 .. at - 1 - 1 + 1 : a[i] = s[1 + i - 1]
  <2>1. 1 \in 1 .. Len(s) + 1 /\ at - 1 \in 0 .. Len(s) /\ 1 <= at - 1 + 1
    BY <1>1
  <2> QED BY <2>1, ListsSub DEF Till, From
<1>3. Lists(b, From(s, at), T, R)
  <2>1. Len(s) \in 0 .. Len(s) /\ at <= Len(s) + 1
    BY <1>1
  <2> QED BY <2>1, ListsSub DEF Till, From
<1>4. Till(s, at) \union From(s, at) = A
  <2>1. \A i \in 1 .. Len(s) : i \in 1 .. at - 1 \/ i \in at .. Len(s)
    BY <1>1
  <2>2. (1 .. at - 1) \subseteq 1 .. Len(s) /\ (at .. Len(s)) \subseteq 1 .. Len(s)
    BY <1>1
  <2> QED BY <1>1, <2>1, <2>2 DEF Till, From, Between
<1>5. Cross(Till(s, at), From(s, at), R)
  <2> SUFFICES ASSUME NEW i \in 1 .. at - 1, NEW k \in at .. Len(s) PROVE <<s[i], s[k]>> \in R
    BY DEF Cross, Till, From, Between
  <2>1. i \in 1 .. Len(s) /\ k \in 1 .. Len(s) /\ i < k
    BY <1>1
  <2> QED BY <2>1, ListsTypes
<1>6. at > 1 => Heads(a, s[1])
  <2> SUFFICES ASSUME at > 1 PROVE Heads(a, s[1])
    OBVIOUS
  <2>1. Len(a) > 0 /\ a[1] = s[1]
    <3>1. at - 1 - 1 + 1 = at - 1 /\ 1 \in 1 .. at - 1 /\ 1 + 1 - 1 = 1
      BY <1>1
    <3> HIDE DEF a
    <3> QED BY <1>2, <3>1
  <2>2. a # <<>>
    <3>1. Len(<<>>) = 0
      OBVIOUS
    <3> HIDE DEF a
    <3> QED BY <2>1, <3>1
  <2> QED BY <2>1, <2>2 DEF Heads
<1> QED
  BY <1>2, <1>3, <1>4, <1>5, <1>6

\* An element put into a list where the order has room for it.
LEMMA ListsInsert ==
  ASSUME NEW T, NEW R, NEW A, NEW s, Lists(s, A, T, R), NEW x \in T, NEW at \in 1 .. Len(s) + 1,
         \A i \in 1 .. Len(s) : IF i < at THEN <<s[i], x>> \in R ELSE <<x, s[i]>> \in R
  PROVE  /\ Lists(InsertAt(s, at, x), A \union {x}, T, R)
         /\ at > 1 => Heads(InsertAt(s, at, x), s[1])
<1>1. Len(s) \in Nat /\ ToSet(s) = A /\ A = {s[i] : i \in 1 .. Len(s)}
  BY ListsTypes, ToSetOf
<1> DEFINE a == SubSeq(s, 1, at - 1)
           b == SubSeq(s, at, Len(s))
           one == <<x>>
           ax == a \o one
           AA == Till(s, at)
           BB == From(s, at)
<1>2. Lists(a, AA, T, R) /\ Lists(b, BB, T, R) /\ AA \union BB = A /\ Cross(AA, BB, R) /\ (at > 1 => Heads(a, s[1]))
  <2>1. Lists(a, AA, T, R) /\ Lists(b, BB, T, R) /\ Cross(AA, BB, R) /\ (at > 1 => Heads(a, s[1]))
    BY ListsSplit
  <2>2. AA \union BB = A
    BY ListsSplit
  <2> QED BY <2>1, <2>2
<1>4. InsertAt(s, at, x) = ax \o b
  BY DEF InsertAt
<1>5. Lists(one, {x}, T, R)
  BY ListsOne
<1>a. Cross(AA, {x}, R)
  <2> SUFFICES ASSUME NEW i \in 1 .. at - 1 PROVE <<s[i], x>> \in R
    BY DEF Cross, Till, From, Between
  <2>1. i \in 1 .. Len(s) /\ i < at
    BY <1>1
  <2> QED BY <2>1
<1>b. Cross({x}, BB, R)
  <2> SUFFICES ASSUME NEW i \in at .. Len(s) PROVE <<x, s[i]>> \in R
    BY DEF Cross, Till, From, Between
  <2>1. i \in 1 .. Len(s) /\ ~(i < at)
    BY <1>1
  <2> QED BY <2>1
<1> HIDE DEF a, b, one, AA, BB
<1>6. Lists(ax, AA \union {x}, T, R) /\ (at > 1 => Heads(ax, s[1]))
  BY <1>2, <1>5, <1>a, ListsConcat
<1> HIDE DEF ax
<1>7. Cross(AA \union {x}, BB, R)
  BY <1>2, <1>b DEF Cross
<1>8. Lists(ax \o b, (AA \union {x}) \union BB, T, R) /\ (at > 1 => Heads(ax \o b, s[1]))
  BY <1>2, <1>6, <1>7, ListsConcat
<1>9. (AA \union {x}) \union BB = A \union {x}
  BY <1>2
<1> QED
  BY <1>4, <1>8, <1>9

\* An element put at the end.
LEMMA ListsAppend ==
  ASSUME NEW T, NEW R, NEW A, NEW s, Lists(s, A, T, R), NEW x \in T, \A y \in A : <<y, x>> \in R
  PROVE  /\ Lists(Append(s, x), A \union {x}, T, R)
         /\ \A h : Heads(s, h) => Heads(Append(s, x), h)
<1> DEFINE one == <<x>>
<1>1. s \in Seq(T)
  BY ListsTypes
<1>2. Append(s, x) = s \o one
  BY <1>1, AppendIsConcat
<1>3. Lists(one, {x}, T, R)
  BY ListsOne
<1> HIDE DEF one
<1>4. Cross(A, {x}, R)
  BY DEF Cross
<1> QED
  BY <1>2, <1>3, <1>4, ListsConcat

\* The sequence of the elements of a finite set.
LEMMA SetToSeqIs ==
  ASSUME NEW S, IsFiniteSet(S)
  PROVE  /\ SetToSeq(S) \in [1 .. Cardinality(S) -> S] /\ Cardinality(S) \in Nat
         /\ \A i, k \in 1 .. Cardinality(S) : i # k => SetToSeq(S)[i] # SetToSeq(S)[k]
         /\ \A x \in S : \E i \in 1 .. Cardinality(S) : SetToSeq(S)[i] = x
<1> DEFINE n == Cardinality(S)
           s == SetToSeq(S)
<1>1. n \in Nat /\ ExistsBijection(1 .. n, S)
  BY FS_CardinalityType
<1>2. \E f \in [1 .. n -> S] : IsInjective(f)
  BY <1>1 DEF ExistsBijection, Bijection, Injection, IsInjective
<1>3. s \in [1 .. n -> S] /\ IsInjective(s)
  BY <1>2 DEF SetToSeq
<1> HIDE DEF s
<1>4. \A i, k \in 1 .. n : s[i] = s[k] => i = k
  BY <1>3 DEF IsInjective
<1>5. s \in Injection(1 .. n, S)
  BY <1>3 DEF Injection
<1>6. IsFiniteSet(1 .. n) /\ Cardinality(1 .. n) = n
  BY <1>1, FS_Interval
<1>7. s \in Surjection(1 .. n, S)
  BY <1>5, <1>6, FS_Injection
<1> QED
  BY <1>1, <1>3, <1>4, <1>7 DEF s, Surjection

\* A sequence given as a function of its index.
LEMMA ListsMade ==
  ASSUME NEW T, NEW R, NEW n \in Nat, NEW f \in [1 .. n -> T],
         \A i, k \in 1 .. n : i < k => <<f[i], f[k]>> \in R
  PROVE  Lists(f, {f[i] : i \in 1 .. n}, T, R) /\ Len(f) = n
<1>1. f \in Seq(T) /\ Len(f) = n
  OBVIOUS
<1> QED
  BY <1>1, ToSetOf DEF Lists, Ordered

\* kept[i] holds the elements of S among the first i of s.
Keeps(s, S, n, kept) ==
  kept = [i \in 0 .. n |->
            IF i = 0 THEN <<>> ELSE IF s[i] \in S THEN Append(kept[i - 1], s[i]) ELSE kept[i - 1]]

\* The function behind Only, one element further.
LEMMA KeepsStep ==
  ASSUME NEW s, NEW S, NEW n, NEW kept, Keeps(s, S, n, kept), NEW i \in 0 .. n
  PROVE  kept[i] = IF i = 0 THEN <<>> ELSE IF s[i] \in S THEN Append(kept[i - 1], s[i]) ELSE kept[i - 1]
<1> DEFINE e(k) == IF k = 0 THEN <<>> ELSE IF s[k] \in S THEN Append(kept[k - 1], s[k]) ELSE kept[k - 1]
<1>1. kept = [k \in 0 .. n |-> e(k)]
  BY DEF Keeps
<1> HIDE DEF e
<1>2. kept[i] = e(i)
  BY <1>1
<1> QED BY <1>2 DEF e

\* There is such a function.
LEMMA KeepsExist ==
  ASSUME NEW s, NEW S, NEW n \in Nat
  PROVE  \E kept : Keeps(s, S, n, kept)
<1> DEFINE Bad == {m \in Nat : ~\E kept : Keeps(s, S, m, kept)}
<1>1. SUFFICES ASSUME Bad # {} PROVE FALSE
  OBVIOUS
<1>2. PICK m \in Bad : \A k \in Bad : m <= k
  <2>1. Bad \subseteq Nat
    OBVIOUS
  <2>2. IsWellFoundedOn(OpToRel(<, Nat), Nat)
    BY NatLessThanWellFounded
  <2> HIDE DEF Bad
  <2>3. PICK m \in Bad : \A k \in Bad : ~(<<k, m>> \in OpToRel(<, Nat))
    BY <1>1, <2>1, <2>2, WFMin
  <2>4. \A k \in Bad : ~(k < m)
    BY <2>1, <2>3 DEF OpToRel
  <2> QED BY <2>1, <2>4
<1>3. CASE m = 0
  <2> DEFINE kept == [i \in 0 .. 0 |-> <<>>]
  <2>1. Keeps(s, S, 0, kept)
    <3>1. \A i \in 0 .. 0 : i = 0
      OBVIOUS
    <3> QED BY <3>1 DEF Keeps
  <2> QED BY <1>3, <2>1
<1>4. CASE m # 0
  <2>1. m - 1 \in Nat /\ m - 1 \notin Bad
    BY <1>2, <1>4
  <2>2. PICK less : Keeps(s, S, m - 1, less)
    BY <2>1
  <2> DEFINE e(i) == IF i = 0 THEN <<>> ELSE IF s[i] \in S THEN Append(less[i - 1], s[i]) ELSE less[i - 1]
             kept == [i \in 0 .. m |-> e(i)]
  <2>3. \A i \in 0 .. m - 1 : less[i] = e(i)
    BY <2>2, KeepsStep
  <2>4. \A i \in 0 .. m : i # 0 => i - 1 \in 0 .. m - 1 /\ i - 1 \in 0 .. m
    BY <1>4
  <2>5. \A i \in 0 .. m : i # 0 => less[i - 1] = kept[i - 1]
    <3> HIDE DEF e
    <3> QED BY <2>3, <2>4
  <2>6. \A i \in 0 .. m : e(i) = IF i = 0 THEN <<>> ELSE IF s[i] \in S THEN Append(kept[i - 1], s[i]) ELSE kept[i - 1]
    <3> HIDE DEF kept
    <3> QED BY <2>5
  <2>7. kept = [i \in 0 .. m |-> IF i = 0 THEN <<>> ELSE IF s[i] \in S THEN Append(kept[i - 1], s[i]) ELSE kept[i - 1]]
    <3> HIDE DEF e
    <3> QED BY <2>6
  <2>8. Keeps(s, S, m, kept)
    <3> HIDE DEF kept
    <3> QED BY <2>7 DEF Keeps
  <2> QED BY <2>8
<1> QED BY <1>3, <1>4

\* Only is its last value.
LEMMA OnlyIs ==
  ASSUME NEW s, NEW S, Len(s) \in Nat
  PROVE  \E kept : Keeps(s, S, Len(s), kept) /\ Only(s, S) = kept[Len(s)]
<1> DEFINE kept == CHOOSE k : Keeps(s, S, Len(s), k)
<1>1. Keeps(s, S, Len(s), kept)
  BY KeepsExist
<1>2. Only(s, S) = kept[Len(s)]
  BY DEF Only, Keeps
<1> QED BY <1>1, <1>2

\* Only(s, S) lists the elements of s that are in S, in the order of s.
LEMMA ListsOnly ==
  ASSUME NEW T, NEW R, NEW A, NEW s, Lists(s, A, T, R), NEW S
  PROVE  /\ Lists(Only(s, S), A \intersect S, T, R)
         /\ s[1] \in S /\ s # <<>> => Heads(Only(s, S), s[1])
<1>1. /\ Len(s) \in Nat /\ s \in Seq(T) /\ A = {s[i] : i \in 1 .. Len(s)}
      /\ \A i \in 1 .. Len(s) : s[i] \in T
      /\ \A i, k \in 1 .. Len(s) : i < k => <<s[i], s[k]>> \in R
  BY ListsTypes, ToSetOf
<1>2. PICK kept : Keeps(s, S, Len(s), kept) /\ Only(s, S) = kept[Len(s)]
  BY <1>1, OnlyIs
<1> DEFINE Some(i) == {s[k] : k \in 1 .. i} \intersect S
           Fine(i) == /\ Lists(kept[i], Some(i), T, R)
                      /\ i # 0 /\ s[1] \in S => Heads(kept[i], s[1])
           Bad == {i \in 0 .. Len(s) : ~Fine(i)}
<1>3. kept[0] = <<>> /\ Fine(0)
  <2>1. 0 \in 0 .. Len(s)
    BY <1>1
  <2>2. kept[0] = <<>>
    BY <2>1, <1>2, KeepsStep
  <2>3. Lists(<<>>, {}, T, R)
    BY OrderedEmpty DEF Lists
  <2>4. Some(0) = {}
    OBVIOUS
  <2> QED BY <2>2, <2>3, <2>4
<1>4. ASSUME NEW i \in 1 .. Len(s), Fine(i - 1) PROVE Fine(i)
  <2>1. i \in 0 .. Len(s) /\ i # 0 /\ i - 1 \in 0 .. Len(s)
    BY <1>1
  <2>2. kept[i] = IF s[i] \in S THEN Append(kept[i - 1], s[i]) ELSE kept[i - 1]
    BY <2>1, <1>2, KeepsStep
  <2>3. {s[k] : k \in 1 .. i} = {s[k] : k \in 1 .. i - 1} \union {s[i]}
    <3>1. \A k \in 1 .. i : k = i \/ k \in 1 .. i - 1
      BY <1>1
    <3>2. \A k \in 1 .. i - 1 : k \in 1 .. i
      BY <1>1
    <3>3. i \in 1 .. i
      BY <1>1
    <3> QED BY <3>1, <3>2, <3>3
  <2>4. CASE s[i] \notin S
    <3>1. Some(i) = Some(i - 1) /\ kept[i] = kept[i - 1]
      BY <2>2, <2>3, <2>4
    <3>2. s[1] \in S => i - 1 # 0
      BY <2>4
    <3> HIDE DEF Some
    <3> QED BY <1>4, <3>1, <3>2
  <2>5. CASE s[i] \in S
    <3>1. Some(i) = Some(i - 1) \union {s[i]} /\ kept[i] = Append(kept[i - 1], s[i])
      BY <2>2, <2>3, <2>5
    <3>2. \A y \in Some(i - 1) : <<y, s[i]>> \in R
      <4> SUFFICES ASSUME NEW k \in 1 .. i - 1 PROVE <<s[k], s[i]>> \in R
        OBVIOUS
      <4>1. k \in 1 .. Len(s) /\ k < i
        BY <1>1
      <4> QED BY <4>1, <1>1
    <3>3. s[i] \in T /\ Lists(kept[i - 1], Some(i - 1), T, R)
      BY <1>1, <1>4
    <3> HIDE DEF Some
    <3>4. /\ Lists(Append(kept[i - 1], s[i]), Some(i - 1) \union {s[i]}, T, R)
          /\ \A h : Heads(kept[i - 1], h) => Heads(Append(kept[i - 1], s[i]), h)
      BY <3>2, <3>3, ListsAppend
    <3>5. CASE i = 1
      <4>1. i - 1 = 0
        BY <3>5
      <4>2. kept[i] = Append(<<>>, s[1])
        BY <3>1, <3>5, <1>3, <4>1
      <4>3. Append(<<>>, s[1])[1] = s[1] /\ Append(<<>>, s[1]) # <<>>
        OBVIOUS
      <4>4. Heads(kept[i], s[1])
        BY <4>2, <4>3 DEF Heads
      <4> QED BY <3>1, <3>4, <4>4
    <3>6. CASE i # 1
      <4>1. i - 1 # 0
        BY <3>6
      <4> QED BY <3>1, <3>4, <4>1, <1>4
    <3> QED BY <3>5, <3>6
  <2> QED BY <2>4, <2>5
<1>5. Bad = {}
  <2> SUFFICES ASSUME Bad # {} PROVE FALSE
    OBVIOUS
  <2>1. Bad \subseteq Nat
    BY <1>1
  <2>2. PICK m \in Bad : \A k \in Bad : ~(k < m)
    <3>1. IsWellFoundedOn(OpToRel(<, Nat), Nat)
      BY NatLessThanWellFounded
    <3> HIDE DEF Bad
    <3>2. PICK m \in Bad : \A k \in Bad : ~(<<k, m>> \in OpToRel(<, Nat))
      BY <2>1, <3>1, WFMin
    <3> QED BY <2>1, <3>2 DEF OpToRel
  <2>3. m \in 0 .. Len(s) /\ ~Fine(m)
    OBVIOUS
  <2> HIDE DEF Fine
  <2>4. m # 0
    BY <1>3, <2>3
  <2>5. m \in 1 .. Len(s) /\ m - 1 \in 0 .. Len(s) /\ m - 1 < m
    BY <2>3, <2>4, <1>1
  <2>6. Fine(m - 1)
    BY <2>2, <2>5
  <2> QED BY <1>4, <2>3, <2>5, <2>6
<1>6. Fine(Len(s))
  <2>1. Len(s) \in 0 .. Len(s)
    BY <1>1
  <2> HIDE DEF Fine
  <2> QED BY <1>5, <2>1
<1>7. s # <<>> => Len(s) # 0
  BY <1>1
<1> QED
  BY <1>1, <1>2, <1>6, <1>7

-----------------------------------------------------------------------------
(***************************************************************************)
(* What a sound config.json is.                                            *)
(***************************************************************************)
\* A nonempty set of numbers has a least element.
LEMMA LeastIs ==
  ASSUME NEW S, S \subseteq Nat, S # {}
  PROVE  \E m \in S : \A k \in S : m <= k
<1>1. IsWellFoundedOn(OpToRel(<, Nat), Nat)
  BY NatLessThanWellFounded
<1>2. PICK m \in S : \A k \in S : ~(<<k, m>> \in OpToRel(<, Nat))
  BY <1>1, WFMin
<1>3. \A k \in S : ~(k < m)
  BY <1>2 DEF OpToRel
<1>4. \A k \in S : m \in Nat /\ k \in Nat
  OBVIOUS
<1>5. \A k \in S : m <= k
  BY <1>3, <1>4
<1> QED BY <1>5

\* Min of indices is one of them, and the least.
LEMMA MinIs ==
  ASSUME NEW n \in Nat, NEW S, S \subseteq 1 .. n, S # {}
  PROVE  Min(S) \in S /\ \A k \in S : Min(S) <= k
<1>1. S \subseteq Nat
  OBVIOUS
<1>2. \E m \in S : \A k \in S : m =< k
  BY <1>1, LeastIs
<1> QED
  BY <1>2 DEF Min

\* Max of indices is one of them, and the greatest.
LEMMA MaxIs ==
  ASSUME NEW n \in Nat, NEW S, S \subseteq 1 .. n, S # {}
  PROVE  Max(S) \in S /\ \A k \in S : k <= Max(S)
<1> DEFINE T == {n - x : x \in S}
<1>0. \A x \in S : x \in Int /\ n - x \in Nat
  OBVIOUS
<1>1. T \subseteq Nat /\ T # {}
  BY <1>0
<1>2. PICK m \in T : \A k \in T : m <= k
  <2> HIDE DEF T
  <2> QED BY <1>1, LeastIs
<1>3. PICK x \in S : m = n - x
  OBVIOUS
<1>4. \A y \in S : n - x <= n - y
  BY <1>2, <1>3
<1>5. \E z \in S : \A y \in S : z >= y
  <2> HIDE DEF T
  <2> QED BY <1>0, <1>4
<1>6. Max(S) \in S /\ \A y \in S : Max(S) >= y
  BY <1>5 DEF Max
<1> QED BY <1>0, <1>6

-----------------------------------------------------------------------------
\* The tags an outbound may have.
Named == {"direct", "blocked", "warp"} \union Cascades \union Bypasses \union Regions
\* The settings an outbound may be a copy of.
Settings == {"direct", "blocked", "warp"} \union Cascades \union Bypasses
\* An outbound.
AnOutbound == [tag : Named, as : Settings]
\* Outbounds of different tags.
Apart == {both \in AnOutbound \X AnOutbound : both[1].tag # both[2].tag}
\* The first outbound of every config.
Direct == [tag |-> "direct", as |-> "direct"]

\* The kinds of rules.
RuleKinds == {"block", "torrent", "warning", "client", "catchall", "probe"}
\* What rules are about.
Subjects == Clients \union Regions \union Targets \union {"warp", "cascade", "bypass"}
\* A rule leads where its kind may lead.
ARule ==
  {r \in [kind : RuleKinds, of : SUBSET Subjects, to : Named] :
     /\ r.kind = "warning" => r.to \in Regions /\ r.of = {r.to}
     /\ r.kind = "client" => r.to \in Cascades
     /\ r.kind = "catchall" => r.to \in Cascades \union {"warp"}
     /\ r.kind \in {"block", "torrent"} => r.to = "blocked"}
\* The order of the rules: torrents and blocks, warnings, clients, the catchall, of which
\* there is one.
Fits ==
  {both \in ARule \X ARule :
     /\ both[1].kind \in {"warning", "client", "catchall"} => both[2].kind \notin {"torrent", "block"}
     /\ both[1].kind \in {"client", "catchall"} => both[2].kind # "warning"
     /\ both[1].kind = "catchall" => both[2].kind # "catchall"}

\* An inbound of a connection.
AnInbound == [tag : Reals \union Fronts, port : Ports, look : Looks]
\* Inbounds of different tags and ports.
Beside == {both \in AnInbound \X AnInbound : both[1].tag # both[2].tag /\ both[1].port # both[2].port}

\* The shape of config.json.
Config ==
  [outbounds : Seq(AnOutbound), rules : Seq(ARule), strategy : {Own, "IPOnDemand", "IPIfNonMatch"},
   inbounds : Seq(AnInbound)]

\* No two inbounds share a tag or a port, and there is a Reality connection.
InboundsFine(c) ==
  Lists(c.inbounds, ToSet(c.inbounds), AnInbound, Beside) /\ \E x \in ToSet(c.inbounds) : x.tag \in Reals

\* In the midst of a command.
OutboundsFine(c) ==
  /\ Lists(c.outbounds, ToSet(c.outbounds), AnOutbound, Apart)
  /\ Heads(c.outbounds, Direct) /\ "blocked" \in Tags(c)
\* The rules are in their order.
RulesFine(c) == Lists(c.rules, RulesIn(c), ARule, Fits)
\* A config as any step of a computation may leave it.
Fine(c) == c \in Config /\ OutboundsFine(c) /\ RulesFine(c) /\ InboundsFine(c)

\* Every rule that is not of a test leads to an outbound, those beside apart.
Leads(c, beside) == \A r \in RulesIn(c) : r.kind # "probe" /\ r.to \notin beside => r.to \in Tags(c)
\* Rules of clients come with a catchall of a cascade.
Routed(c) ==
  (\E r \in RulesIn(c) : r.kind = "client") => \E r \in RulesIn(c) : r.kind = "catchall" /\ r.to \in Cascades
\* A config as a command may leave it: the invariant of config.json.
Sound(c) == Fine(c) /\ Leads(c, {}) /\ Routed(c)
\* What may be in config.json: a config to go on from, or what a cut left.
Usable(c) == c = Half \/ Sound(c)

\* The parts of a fine config.
LEMMA FineShape ==
  ASSUME NEW c, Fine(c)
  PROVE  /\ c \in Config
         /\ DOMAIN c = {"outbounds", "rules", "strategy", "inbounds"}
         /\ Tags(c) = {o.tag : o \in ToSet(c.outbounds)}
         /\ ToSet(c.outbounds) \subseteq AnOutbound /\ RulesIn(c) \subseteq ARule
         /\ RulesIn(c) = ToSet(c.rules)
         /\ "direct" \in Tags(c) /\ "blocked" \in Tags(c) /\ Tags(c) \subseteq Named
         /\ \A r \in RulesIn(c) : r.kind = "warning" => r = WarningRule(r.to) /\ r.to \in Regions
<1>1. c \in Config /\ OutboundsFine(c) /\ RulesFine(c)
  BY DEF Fine
<1>2. DOMAIN c = {"outbounds", "rules", "strategy", "inbounds"}
  BY <1>1 DEF Config
<1>3. c.outbounds \in Seq(AnOutbound) /\ c.rules \in Seq(ARule)
  BY <1>1 DEF Config
<1>4. ToSet(c.outbounds) = {c.outbounds[i] : i \in DOMAIN c.outbounds} /\ RulesIn(c) = ToSet(c.rules)
  BY DEF ToSet, RulesIn
<1>5. Tags(c) = {o.tag : o \in ToSet(c.outbounds)}
  BY <1>4 DEF Tags
<1>6. ToSet(c.outbounds) \subseteq AnOutbound /\ RulesIn(c) \subseteq ARule
  BY <1>3, <1>4, ToSetOf
<1>7. Direct \in ToSet(c.outbounds)
  BY <1>1, <1>3, ToSetOf, EmptySeq DEF OutboundsFine, Heads
<1>8. "direct" \in Tags(c) /\ "blocked" \in Tags(c)
  BY <1>1, <1>5, <1>7 DEF Direct, OutboundsFine
<1>9. Tags(c) \subseteq Named
  BY <1>5, <1>6 DEF AnOutbound
<1>10. ASSUME NEW r \in RulesIn(c), r.kind = "warning" PROVE r = WarningRule(r.to) /\ r.to \in Regions
  <2>1. r \in ARule
    BY <1>6
  <2>2. r = [kind |-> r.kind, of |-> r.of, to |-> r.to]
    BY <2>1 DEF ARule
  <2> QED BY <1>10, <2>1, <2>2 DEF ARule, WarningRule, Rule
<1> QED
  BY <1>1, <1>2, <1>4, <1>5, <1>6, <1>8, <1>9, <1>10

-----------------------------------------------------------------------------
\* A config with other rules, with other outbounds, with another strategy.
LEMMA FineRules ==
  ASSUME NEW c, Fine(c), NEW s, NEW A, Lists(s, A, ARule, Fits), NEW d, d = [c EXCEPT !.rules = s]
  PROVE  /\ Fine(d) /\ RulesIn(d) = A /\ Tags(d) = Tags(c) /\ d.rules = s
         /\ d.outbounds = c.outbounds /\ d.inbounds = c.inbounds /\ d.strategy = c.strategy
<1>1. /\ d.rules = s /\ d.outbounds = c.outbounds /\ d.inbounds = c.inbounds /\ d.strategy = c.strategy
      /\ d = [outbounds |-> c.outbounds, rules |-> s, strategy |-> c.strategy, inbounds |-> c.inbounds]
  BY DEF Fine, Config
<1>2. d \in Config
  BY <1>1, ListsTypes DEF Fine, Config
<1>3. RulesIn(d) = A /\ Tags(d) = Tags(c)
  BY <1>1, ListsTypes DEF RulesIn, Tags
<1>4. OutboundsFine(d) /\ InboundsFine(d) /\ RulesFine(d)
  BY <1>1, <1>3 DEF Fine, OutboundsFine, InboundsFine, RulesFine
<1> QED
  BY <1>1, <1>2, <1>3, <1>4 DEF Fine

\* Other outbounds in a fine config.
LEMMA FineOutbounds ==
  ASSUME NEW c, Fine(c), NEW s, NEW A, Lists(s, A, AnOutbound, Apart), Heads(s, Direct), "blocked" \in {o.tag : o \in A},
         NEW d, d = [c EXCEPT !.outbounds = s]
  PROVE  /\ Fine(d) /\ RulesIn(d) = RulesIn(c) /\ Tags(d) = {o.tag : o \in A} /\ d.outbounds = s
         /\ d.rules = c.rules /\ d.inbounds = c.inbounds /\ d.strategy = c.strategy
<1>1. /\ d.rules = c.rules /\ d.outbounds = s /\ d.inbounds = c.inbounds /\ d.strategy = c.strategy
      /\ d = [outbounds |-> s, rules |-> c.rules, strategy |-> c.strategy, inbounds |-> c.inbounds]
  BY DEF Fine, Config
<1>0. s \in Seq(AnOutbound)
  BY ListsTypes
<1>2. d \in Config
  BY <1>0, <1>1 DEF Fine, Config
<1>3. RulesIn(d) = RulesIn(c)
  BY <1>1 DEF RulesIn
<1>4. ToSet(s) = A
  BY ListsTypes
<1>5. Tags(d) = {o.tag : o \in A}
  BY <1>1, <1>4 DEF Tags, ToSet
<1>6. OutboundsFine(d) /\ InboundsFine(d) /\ RulesFine(d)
  BY <1>1, <1>3, <1>4, <1>5 DEF Fine, OutboundsFine, InboundsFine, RulesFine
<1> QED
  BY <1>1, <1>2, <1>3, <1>5, <1>6 DEF Fine

\* Another strategy in a fine config.
LEMMA FineStrategy ==
  ASSUME NEW c, Fine(c), NEW s \in {Own, "IPOnDemand", "IPIfNonMatch"}, NEW d, d = [c EXCEPT !.strategy = s]
  PROVE  /\ Fine(d) /\ RulesIn(d) = RulesIn(c) /\ Tags(d) = Tags(c) /\ d.strategy = s
         /\ d.rules = c.rules /\ d.inbounds = c.inbounds /\ d.outbounds = c.outbounds
<1>1. /\ d.rules = c.rules /\ d.outbounds = c.outbounds /\ d.inbounds = c.inbounds /\ d.strategy = s
      /\ d = [outbounds |-> c.outbounds, rules |-> c.rules, strategy |-> s, inbounds |-> c.inbounds]
  BY DEF Fine, Config
<1>2. d \in Config
  BY <1>1 DEF Fine, Config
<1>3. RulesIn(d) = RulesIn(c) /\ Tags(d) = Tags(c)
  BY <1>1 DEF RulesIn, Tags
<1>4. OutboundsFine(d) /\ InboundsFine(d) /\ RulesFine(d)
  BY <1>1, <1>3 DEF Fine, OutboundsFine, InboundsFine, RulesFine
<1> QED
  BY <1>1, <1>2, <1>3, <1>4 DEF Fine

-----------------------------------------------------------------------------
(***************************************************************************)
(* The operators the commands are built from.                              *)
(***************************************************************************)
\* d is c but for its rules.
SameBesideRules(c, d) ==
  /\ Fine(d) /\ Tags(d) = Tags(c) /\ d.outbounds = c.outbounds /\ d.inbounds = c.inbounds /\ d.strategy = c.strategy
\* The same config, its outbounds apart.
SameBesideOutbounds(c, d) ==
  /\ Fine(d) /\ RulesIn(d) = RulesIn(c) /\ d.rules = c.rules /\ d.inbounds = c.inbounds /\ d.strategy = c.strategy

\* What WithoutRules leaves.
LEMMA WithoutRulesFine ==
  ASSUME NEW c, Fine(c), NEW drop
  PROVE  SameBesideRules(c, WithoutRules(c, drop)) /\ RulesIn(WithoutRules(c, drop)) = RulesIn(c) \ drop
<1> DEFINE s == Only(c.rules, ToSet(c.rules) \ drop)
           d == [c EXCEPT !.rules = s]
<1>1. WithoutRules(c, drop) = d
  BY DEF WithoutRules
<1>2. Lists(c.rules, RulesIn(c), ARule, Fits) /\ RulesIn(c) = ToSet(c.rules)
  BY FineShape DEF Fine, RulesFine
<1>3. Lists(s, RulesIn(c) \intersect (ToSet(c.rules) \ drop), ARule, Fits)
  BY <1>2, ListsOnly
<1>4. RulesIn(c) \intersect (ToSet(c.rules) \ drop) = RulesIn(c) \ drop
  BY <1>2
<1> HIDE DEF s
<1>5. SameBesideRules(c, d) /\ RulesIn(d) = RulesIn(c) \ drop
  BY <1>3, <1>4, FineRules DEF SameBesideRules
<1> QED BY <1>1, <1>5

\* What WithoutOutbounds leaves.
LEMMA WithoutOutboundsFine ==
  ASSUME NEW c, Fine(c), NEW tags, "direct" \notin tags, "blocked" \notin tags
  PROVE  /\ SameBesideOutbounds(c, WithoutOutbounds(c, tags))
         /\ Tags(WithoutOutbounds(c, tags)) = Tags(c) \ tags
         /\ ToSet(WithoutOutbounds(c, tags).outbounds) = {o \in ToSet(c.outbounds) : o.tag \notin tags}
<1> DEFINE S == {o \in ToSet(c.outbounds) : o.tag \notin tags}
           s == Only(c.outbounds, S)
           d == [c EXCEPT !.outbounds = s]
<1>1. WithoutOutbounds(c, tags) = d
  BY DEF WithoutOutbounds
<1>2. /\ Lists(c.outbounds, ToSet(c.outbounds), AnOutbound, Apart) /\ c.outbounds # <<>> /\ c.outbounds[1] = Direct
      /\ Tags(c) = {o.tag : o \in ToSet(c.outbounds)} /\ "blocked" \in Tags(c)
  BY FineShape DEF Fine, OutboundsFine, Heads
<1>3. Direct \in S
  <2>1. Direct \in ToSet(c.outbounds)
    BY <1>2, ListsTypes, EmptySeq
  <2> QED BY <2>1 DEF Direct
<1>4. Lists(s, ToSet(c.outbounds) \intersect S, AnOutbound, Apart) /\ Heads(s, Direct)
  <2> HIDE DEF S
  <2> QED BY <1>2, <1>3, ListsOnly
<1>5. ToSet(c.outbounds) \intersect S = S
  OBVIOUS
<1>6. {o.tag : o \in S} = Tags(c) \ tags
  BY <1>2
<1>7. "blocked" \in {o.tag : o \in S}
  BY <1>2, <1>6
<1> HIDE DEF S, s
<1>8. ToSet(s) = S
  <2>1. Lists(s, S, AnOutbound, Apart)
    BY <1>4, <1>5
  <2> QED BY <2>1 DEF Lists
<1>9. SameBesideOutbounds(c, d) /\ Tags(d) = {o.tag : o \in S} /\ d.outbounds = s
  BY <1>4, <1>5, <1>7, FineOutbounds DEF SameBesideOutbounds
<1> QED BY <1>1, <1>6, <1>8, <1>9 DEF S

\* An outbound after the last of a family, or at the end.
LEMMA InsertOutboundFine ==
  ASSUME NEW c, Fine(c), NEW x \in AnOutbound, x.tag \notin Tags(c), NEW at \in 2 .. Len(c.outbounds) + 1,
         NEW d, d = [c EXCEPT !.outbounds = InsertAt(c.outbounds, at, x)]
  PROVE  SameBesideOutbounds(c, d) /\ Tags(d) = Tags(c) \union {x.tag}
<1> DEFINE A == ToSet(c.outbounds)
           s == InsertAt(c.outbounds, at, x)
<1>1. /\ Lists(c.outbounds, A, AnOutbound, Apart) /\ c.outbounds[1] = Direct
      /\ Tags(c) = {o.tag : o \in A} /\ "blocked" \in Tags(c)
  BY FineShape DEF Fine, OutboundsFine, Heads
<1>2. Len(c.outbounds) \in Nat /\ \A i \in 1 .. Len(c.outbounds) : c.outbounds[i] \in A /\ c.outbounds[i] \in AnOutbound
  BY <1>1, ListsTypes
<1>3. \A i \in 1 .. Len(c.outbounds) : <<c.outbounds[i], x>> \in Apart /\ <<x, c.outbounds[i]>> \in Apart
  BY <1>1, <1>2 DEF Apart
<1>4. at \in 1 .. Len(c.outbounds) + 1 /\ at > 1
  BY <1>2
<1>5. Lists(s, A \union {x}, AnOutbound, Apart) /\ Heads(s, Direct)
  <2> HIDE DEF A
  <2> QED BY <1>1, <1>3, <1>4, ListsInsert
<1>6. {o.tag : o \in A \union {x}} = Tags(c) \union {x.tag}
  BY <1>1
<1> HIDE DEF A, s
<1>7. "blocked" \in {o.tag : o \in A \union {x}}
  BY <1>1, <1>6
<1>8. SameBesideOutbounds(c, d) /\ Tags(d) = {o.tag : o \in A \union {x}}
  <2>1. d = [c EXCEPT !.outbounds = s]
    BY DEF s
  <2> QED BY <2>1, <1>5, <1>7, FineOutbounds DEF SameBesideOutbounds
<1> QED BY <1>6, <1>8

\* What Append1 adds.
LEMMA Append1Fine ==
  ASSUME NEW c, Fine(c), NEW tag \in Named, NEW as \in Settings, tag \notin Tags(c)
  PROVE  SameBesideOutbounds(c, Append1(c, tag, as)) /\ Tags(Append1(c, tag, as)) = Tags(c) \union {tag}
<1> DEFINE A == ToSet(c.outbounds)
           x == [tag |-> tag, as |-> as]
           s == Append(c.outbounds, x)
           d == [c EXCEPT !.outbounds = s]
<1>1. /\ Lists(c.outbounds, A, AnOutbound, Apart) /\ Heads(c.outbounds, Direct)
      /\ Tags(c) = {o.tag : o \in A} /\ "blocked" \in Tags(c) /\ A \subseteq AnOutbound
  BY FineShape DEF Fine, OutboundsFine
<1>2. x \in AnOutbound /\ x.tag = tag
  BY DEF AnOutbound
<1> HIDE DEF A, x
<1>3. \A y \in A : <<y, x>> \in Apart
  BY <1>1, <1>2 DEF Apart
<1>4. Lists(s, A \union {x}, AnOutbound, Apart) /\ Heads(s, Direct)
  BY <1>1, <1>2, <1>3, ListsAppend
<1>5. {o.tag : o \in A \union {x}} = Tags(c) \union {tag}
  BY <1>1, <1>2
<1>6. "blocked" \in {o.tag : o \in A \union {x}}
  BY <1>1, <1>5
<1>7. Append1(c, tag, as) = d
  BY DEF Append1, x
<1> HIDE DEF s
<1>8. SameBesideOutbounds(c, d) /\ Tags(d) = {o.tag : o \in A \union {x}}
  BY <1>4, <1>6, FineOutbounds DEF SameBesideOutbounds
<1> QED BY <1>5, <1>7, <1>8

\* What Upsert adds.
LEMMA UpsertFine ==
  ASSUME NEW c, Fine(c), NEW tag \in Cascades \union Bypasses, NEW family
  PROVE  SameBesideOutbounds(c, Upsert(c, tag, family)) /\ Tags(Upsert(c, tag, family)) = Tags(c) \union {tag}
<1>1. CASE tag \in Tags(c)
  <2>1. Upsert(c, tag, family) = c
    BY <1>1 DEF Upsert
  <2>2. Tags(c) = Tags(c) \union {tag}
    BY <1>1
  <2> QED BY <2>1, <2>2 DEF SameBesideOutbounds
<1>2. CASE tag \notin Tags(c)
  <2> DEFINE at == Max(PlacesOf(c, family) \union {1}) + 1
             x == [tag |-> tag, as |-> tag]
             d == [c EXCEPT !.outbounds = InsertAt(c.outbounds, at, x)]
  <2>1. Upsert(c, tag, family) = d
    BY <1>2 DEF Upsert
  <2>2. at \in 2 .. Len(c.outbounds) + 1
    <3>1. Len(c.outbounds) \in Nat /\ c.outbounds # <<>> /\ DOMAIN c.outbounds = 1 .. Len(c.outbounds) /\ c.outbounds \in Seq(AnOutbound)
      BY ListsTypes DEF Fine, OutboundsFine, Heads
    <3>2. Len(c.outbounds) >= 1
      BY <3>1
    <3>3. PlacesOf(c, family) \union {1} \subseteq 1 .. Len(c.outbounds) /\ PlacesOf(c, family) \union {1} # {}
      BY <3>1, <3>2 DEF PlacesOf
    <3>4. Max(PlacesOf(c, family) \union {1}) \in 1 .. Len(c.outbounds)
      BY <3>1, <3>3, MaxIs
    <3> QED BY <3>1, <3>4
  <2>3. x \in AnOutbound /\ x.tag = tag
    BY DEF AnOutbound, Named, Settings
  <2> HIDE DEF at, x
  <2>4. SameBesideOutbounds(c, d) /\ Tags(d) = Tags(c) \union {x.tag}
    BY <1>2, <2>2, <2>3, InsertOutboundFine
  <2> QED BY <2>1, <2>3, <2>4
<1> QED BY <1>1, <1>2

\* ToFront only moves.
LEMMA ToFrontFine ==
  ASSUME NEW c, Fine(c), NEW tag \in Cascades, tag \in Tags(c)
  PROVE  SameBesideOutbounds(c, ToFront(c, tag)) /\ Tags(ToFront(c, tag)) = Tags(c)
<1> DEFINE o == c.outbounds
           A == ToSet(o)
           first == Min(PlacesOf(c, Cascades))
           x == [tag |-> tag, as |-> tag]
           one == <<x>>
           beside == {y \in A : y.tag # tag}
           a == SubSeq(o, 1, first - 1)
           b == Only(SubSeq(o, first, Len(o)), beside)
           ax == a \o one
           s == ax \o b
           AA == Till(o, first)
           BB == From(o, first) \intersect beside
           d == [c EXCEPT !.outbounds = s]
<1>1. ToFront(c, tag) = d
  BY DEF ToFront
<1>2. /\ Lists(o, A, AnOutbound, Apart) /\ Heads(o, Direct) /\ o[1] = Direct
      /\ Tags(c) = {y.tag : y \in A} /\ "blocked" \in Tags(c) /\ A \subseteq AnOutbound
      /\ DOMAIN o = 1 .. Len(o) /\ Len(o) \in Nat /\ A = {o[i] : i \in 1 .. Len(o)}
  BY FineShape, ListsTypes, ToSetOf DEF Fine, OutboundsFine, Heads
<1>3. /\ first \in 2 .. Len(o) /\ first \in 1 .. Len(o) + 1 /\ first > 1
      /\ \A i \in 1 .. first - 1 : o[i].tag \notin Cascades
  <2> DEFINE P == PlacesOf(c, Cascades)
  <2>1. P = {i \in 1 .. Len(o) : o[i].tag \in Cascades}
    BY <1>2 DEF PlacesOf
  <2>2. P # {}
    BY <1>2, <2>1
  <2>3. first \in P /\ \A k \in P : first <= k
    <3> HIDE DEF P
    <3>1. P \subseteq 1 .. Len(o)
      BY <2>1
    <3> QED BY <3>1, <2>2, <1>2, MinIs DEF P
  <2>4. 1 \notin P
    BY <1>2, <2>1, RoutingAssumption DEF Direct
  <2> HIDE DEF P, first, o
  <2>5. first \in 2 .. Len(o)
    BY <1>2, <2>1, <2>3, <2>4
  <2>6. ASSUME NEW i \in 1 .. first - 1 PROVE o[i].tag \notin Cascades
    BY <1>2, <2>1, <2>3, <2>5
  <2> QED BY <1>2, <2>5, <2>6
<1>4. x \in AnOutbound /\ x.tag = tag
  BY DEF AnOutbound, Named, Settings
<1>5. Lists(one, {x}, AnOutbound, Apart)
  BY <1>4, ListsOne
<1> HIDE DEF o, A, first, x, one, AA, beside
<1>6. /\ Lists(a, AA, AnOutbound, Apart) /\ Lists(SubSeq(o, first, Len(o)), From(o, first), AnOutbound, Apart)
      /\ Cross(AA, From(o, first), Apart) /\ Heads(a, Direct)
  BY <1>2, <1>3, ListsSplit DEF AA
<1>7. AA \union From(o, first) = A
  BY <1>2, <1>3, ListsSplit DEF AA
<1>8. Lists(b, BB, AnOutbound, Apart)
  BY <1>6, ListsOnly
<1>9. ASSUME NEW y \in AA PROVE y \in AnOutbound /\ y.tag # tag
  <2>1. PICK i \in 1 .. first - 1 : y = o[i]
    BY DEF AA, Till, Between
  <2>2. y \in A
    BY <1>7
  <2> QED BY <2>1, <2>2, <1>2, <1>3
<1>10. Cross(AA, {x}, Apart) /\ Cross({x}, BB, Apart) /\ Cross(AA, BB, Apart)
  <2>1. Cross(AA, {x}, Apart)
    BY <1>4, <1>9 DEF Cross, Apart
  <2>2. Cross({x}, BB, Apart)
    BY <1>2, <1>4 DEF Cross, Apart, beside
  <2>3. Cross(AA, BB, Apart)
    BY <1>6 DEF Cross
  <2> QED BY <2>1, <2>2, <2>3
<1> HIDE DEF BB, a, b
<1>11. Lists(ax, AA \union {x}, AnOutbound, Apart) /\ Heads(ax, Direct)
  BY <1>5, <1>6, <1>10, ListsConcat
<1> HIDE DEF ax
<1>12. Cross(AA \union {x}, BB, Apart)
  BY <1>10 DEF Cross
<1>13. Lists(s, (AA \union {x}) \union BB, AnOutbound, Apart) /\ Heads(s, Direct)
  BY <1>8, <1>11, <1>12, ListsConcat
<1> HIDE DEF s
<1>14. {y.tag : y \in (AA \union {x}) \union BB} = Tags(c)
  <2>1. \A y \in (AA \union {x}) \union BB : y.tag \in Tags(c)
    BY <1>2, <1>4, <1>7 DEF BB
  <2>2. ASSUME NEW y \in A PROVE \E z \in (AA \union {x}) \union BB : z.tag = y.tag
    <3>1. CASE y.tag = tag
      BY <1>4, <3>1
    <3>2. CASE y.tag # tag
      BY <1>7, <3>2 DEF BB, beside
    <3> QED BY <3>1, <3>2
  <2> QED BY <1>2, <2>1, <2>2
<1>15. SameBesideOutbounds(c, d) /\ Tags(d) = {y.tag : y \in (AA \union {x}) \union BB}
  <2>1. "blocked" \in {y.tag : y \in (AA \union {x}) \union BB}
    BY <1>2, <1>14
  <2> DEFINE U == (AA \union {x}) \union BB
  <2> HIDE DEF U
  <2>2. Lists(s, U, AnOutbound, Apart) /\ "blocked" \in {y.tag : y \in U}
    BY <2>1, <1>13 DEF U
  <2>3. SameBesideOutbounds(c, d) /\ Tags(d) = {y.tag : y \in U}
    BY <2>2, <1>13, FineOutbounds DEF SameBesideOutbounds
  <2> QED BY <2>3 DEF U
<1> QED BY <1>1, <1>14, <1>15

\* The rules of a fine config, by index.
LEMMA RulesAre ==
  ASSUME NEW c, Fine(c)
  PROVE  /\ Lists(c.rules, RulesIn(c), ARule, Fits) /\ RulesIn(c) \subseteq ARule
         /\ DOMAIN c.rules = 1 .. Len(c.rules) /\ Len(c.rules) \in Nat
         /\ \A i \in 1 .. Len(c.rules) : c.rules[i] \in RulesIn(c) /\ c.rules[i] \in ARule
         /\ \A r \in RulesIn(c) : \E i \in 1 .. Len(c.rules) : r = c.rules[i]
         /\ \A i, k \in 1 .. Len(c.rules) : i < k => <<c.rules[i], c.rules[k]>> \in Fits
  BY ListsTypes DEF Fine, RulesFine

\* Catchall is where the one catchall leads.
LEMMA CatchallIs ==
  ASSUME NEW c, Fine(c)
  PROVE  /\ \A r \in RulesIn(c) : r.kind = "catchall" => r.to = Catchall(c)
         /\ (\E r \in RulesIn(c) : r.kind = "catchall") \/ Catchall(c) = Nothing
<1> DEFINE at == {i \in DOMAIN c.rules : c.rules[i].kind = "catchall"}
           n == Len(c.rules)
<1>1. at = {i \in 1 .. n : c.rules[i].kind = "catchall"} /\ n \in Nat
  BY RulesAre
<1>2. CASE at = {}
  <2>1. Catchall(c) = Nothing
    BY <1>2 DEF Catchall
  <2>2. \A r \in RulesIn(c) : r.kind # "catchall"
    BY <1>1, <1>2, RulesAre
  <2> QED BY <2>1, <2>2
<1>3. CASE at # {}
  <2>1. Catchall(c) = c.rules[Max(at)].to
    BY <1>3 DEF Catchall
  <2>2. Max(at) \in at
    <3>1. at \subseteq 1 .. n
      BY <1>1
    <3> HIDE DEF at, n
    <3> QED BY <3>1, <1>1, <1>3, MaxIs
  <2>3. ASSUME NEW i \in at, NEW k \in at PROVE i = k
    <3>1. i \in 1 .. n /\ k \in 1 .. n /\ c.rules[i] \in ARule /\ c.rules[k] \in ARule
      BY <1>1, RulesAre
    <3>a. ASSUME i < k PROVE FALSE
      <4>1. <<c.rules[i], c.rules[k]>> \in Fits
        BY <3>1, <3>a, RulesAre
      <4> QED BY <4>1, <3>1 DEF Fits
    <3>b. ASSUME k < i PROVE FALSE
      <4>1. <<c.rules[k], c.rules[i]>> \in Fits
        BY <3>1, <3>b, RulesAre
      <4> QED BY <4>1, <3>1 DEF Fits
    <3>2. ~(i < k) /\ ~(k < i)
      BY <3>a, <3>b
    <3> QED BY <3>1, <3>2, <1>1
  <2> DEFINE m == Max(at)
  <2> HIDE DEF m
  <2>4. c.rules[m] \in RulesIn(c) /\ c.rules[m].kind = "catchall" /\ Catchall(c) = c.rules[m].to
    BY <1>1, <2>1, <2>2, RulesAre DEF m
  <2>5. ASSUME NEW r \in RulesIn(c), r.kind = "catchall" PROVE r.to = Catchall(c)
    <3>1. PICK i \in 1 .. n : r = c.rules[i]
      BY RulesAre
    <3>2. i \in at /\ m \in at
      BY <3>1, <2>2, <2>5, <1>1 DEF m
    <3> HIDE DEF at
    <3>3. i = m
      BY <2>3, <3>2
    <3> QED BY <3>1, <3>3, <2>4
  <2> QED BY <2>4, <2>5
<1> QED BY <1>2, <1>3

\* Active is a cascade that is there.
LEMMA ActiveIs ==
  ASSUME NEW c, Fine(c)
  PROVE  /\ Active(c) \in Cascades \union {Nothing}
         /\ Active(c) # Nothing =>
              /\ Active(c) \in Cascades /\ Active(c) \in Tags(c)
              /\ \E r \in RulesIn(c) : r.kind = "catchall" /\ r.to = Active(c)
         /\ Active(c) = Nothing => \A r \in RulesIn(c) : r.kind = "catchall" /\ r.to \in Cascades => r.to \notin Tags(c)
<1>1. Nothing \notin Cascades
  BY RoutingAssumption
<1>2. CASE Catchall(c) \in Cascades \intersect Tags(c)
  <2>1. Active(c) = Catchall(c)
    BY <1>2 DEF Active
  <2>2. \E r \in RulesIn(c) : r.kind = "catchall" /\ r.to = Active(c)
    BY <1>1, <1>2, <2>1, CatchallIs
  <2> QED BY <1>1, <1>2, <2>1, <2>2
<1>3. CASE Catchall(c) \notin Cascades \intersect Tags(c)
  <2>1. Active(c) = Nothing
    BY <1>3 DEF Active
  <2> QED BY <2>1, <1>3, CatchallIs
<1> QED BY <1>2, <1>3

\* Activate puts one catchall in the place of the one before.
LEMMA ActivateFine ==
  ASSUME NEW c, Fine(c), NEW tag \in Cascades \union {"warp"}
  PROVE  /\ SameBesideRules(c, Activate(c, tag))
         /\ RulesIn(Activate(c, tag)) = {r \in RulesIn(c) : r.kind # "catchall"} \union {Rule("catchall", {}, tag)}
<1> DEFINE drop == {r \in RulesIn(c) : r.kind = "catchall"}
           w == WithoutRules(c, drop)
           x == Rule("catchall", {}, tag)
           s == Append(w.rules, x)
           d == [w EXCEPT !.rules = s]
           A == {r \in RulesIn(c) : r.kind # "catchall"}
<1>1. SameBesideRules(c, w) /\ RulesIn(w) = RulesIn(c) \ drop
  BY WithoutRulesFine
<1>2. RulesIn(c) \ drop = A
  OBVIOUS
<1>3. Activate(c, tag) = d
  BY DEF Activate, WithoutCatchall
<1>4. x \in ARule
  BY DEF ARule, Rule, RuleKinds, Named
<1>5. \A y \in A : <<y, x>> \in Fits
  <2>1. A \subseteq ARule
    BY RulesAre
  <2> QED BY <2>1, <1>4 DEF Fits, Rule
<1> HIDE DEF w, x, A, drop
<1>6. Lists(w.rules, A, ARule, Fits) /\ Fine(w)
  BY <1>1, <1>2, RulesAre DEF SameBesideRules
<1>7. Lists(s, A \union {x}, ARule, Fits)
  BY <1>4, <1>5, <1>6, ListsAppend
<1> HIDE DEF s
<1>8. SameBesideRules(w, d) /\ RulesIn(d) = A \union {x}
  BY <1>6, <1>7, FineRules DEF SameBesideRules
<1>9. SameBesideRules(c, d)
  BY <1>1, <1>8 DEF SameBesideRules
<1> QED BY <1>3, <1>8, <1>9 DEF A, x

\* Before puts a rule where the order has room for it.
LEMMA BeforeFine ==
  ASSUME NEW c, Fine(c), NEW kinds, NEW x \in ARule,
         \A r \in ARule : r.kind \notin kinds => <<r, x>> \in Fits,
         \A r, q \in ARule : r.kind \in kinds /\ (r = q \/ <<r, q>> \in Fits) => <<x, q>> \in Fits
  PROVE  SameBesideRules(c, Before(c, kinds, x)) /\ RulesIn(Before(c, kinds, x)) = RulesIn(c) \union {x}
<1> DEFINE at == {i \in DOMAIN c.rules : c.rules[i].kind \in kinds}
           n == Len(c.rules)
           place == IF at = {} THEN n + 1 ELSE Min(at)
           s == InsertAt(c.rules, place, x)
           d == [c EXCEPT !.rules = s]
<1>1. Before(c, kinds, x) = d
  BY DEF Before
<1>2. /\ at = {i \in 1 .. n : c.rules[i].kind \in kinds} /\ n \in Nat
      /\ \A i \in 1 .. n : c.rules[i] \in ARule
  BY RulesAre
<1>3. at # {} => Min(at) \in at /\ \A k \in at : Min(at) <= k
  <2>1. at \subseteq 1 .. n
    BY <1>2
  <2> HIDE DEF at, n
  <2> QED BY <2>1, <1>2, MinIs
<1>4. place \in 1 .. n + 1
  <2> HIDE DEF at
  <2> QED BY <1>2, <1>3
<1>5. ASSUME NEW i \in 1 .. n PROVE IF i < place THEN <<c.rules[i], x>> \in Fits ELSE <<x, c.rules[i]>> \in Fits
  <2>1. CASE i < place
    <3>1. i \notin at
      <4> HIDE DEF at
      <4> QED BY <1>2, <1>3, <2>1
    <3>2. c.rules[i].kind \notin kinds
      BY <3>1, <1>2
    <3> QED BY <3>2, <1>2, <2>1
  <2>2. CASE ~(i < place)
    <3>1. at # {} /\ place = Min(at) /\ Min(at) <= i
      <4> HIDE DEF at
      <4> QED BY <1>2, <1>3, <1>4, <2>2
    <3> DEFINE m == Min(at)
    <3> HIDE DEF m
    <3>2. m \in 1 .. n /\ c.rules[m].kind \in kinds /\ m <= i
      BY <3>1, <1>2, <1>3 DEF m
    <3>3. m = i \/ m < i
      BY <3>2, <1>2
    <3>4. c.rules[m] = c.rules[i] \/ <<c.rules[m], c.rules[i]>> \in Fits
      BY <3>2, <3>3, RulesAre
    <3> QED BY <3>2, <3>4, <1>2, <2>2
  <2> QED BY <2>1, <2>2
<1> HIDE DEF place
<1>6. Lists(s, RulesIn(c) \union {x}, ARule, Fits)
  BY <1>4, <1>5, RulesAre, ListsInsert
<1> HIDE DEF s
<1>7. SameBesideRules(c, d) /\ RulesIn(d) = RulesIn(c) \union {x}
  <2> DEFINE U == RulesIn(c) \union {x}
  <2>1. Lists(s, U, ARule, Fits)
    BY <1>6
  <2> HIDE DEF U
  <2>2. SameBesideRules(c, d) /\ RulesIn(d) = U
    BY <2>1, FineRules DEF SameBesideRules
  <2> QED BY <2>2 DEF U
<1> QED BY <1>1, <1>7

\* A rule before all others: of torrents, or of a probe.
LEMMA FirstRuleFine ==
  ASSUME NEW c, Fine(c), NEW x \in ARule, x.kind \in {"torrent", "probe"},
         NEW d, d = [c EXCEPT !.rules = <<x>> \o c.rules]
  PROVE  SameBesideRules(c, d) /\ RulesIn(d) = {x} \union RulesIn(c)
<1> DEFINE one == <<x>>
           s == one \o c.rules
           U == {x} \union RulesIn(c)
<1>1. Lists(one, {x}, ARule, Fits)
  BY ListsOne
<1> HIDE DEF one
<1>2. Cross({x}, RulesIn(c), Fits)
  BY RulesAre DEF Cross, Fits
<1>3. Lists(s, U, ARule, Fits)
  BY <1>1, <1>2, RulesAre, ListsConcat
<1>4. d = [c EXCEPT !.rules = s]
  BY DEF one
<1> HIDE DEF s, U
<1>5. SameBesideRules(c, d) /\ RulesIn(d) = U
  BY <1>3, <1>4, FineRules DEF SameBesideRules
<1> QED BY <1>5 DEF U

\* The choices of the clients.
ClientChoices == [Clients -> Cascades \union {Nothing}]

\* The first cascade of a config.
LEMMA FirstIs ==
  ASSUME NEW c, Fine(c)
  PROVE  /\ First(c) \in Cascades \union {Nothing}
         /\ First(c) # Nothing => First(c) \in Cascades \intersect Tags(c)
         /\ First(c) = Nothing => Cascades \intersect Tags(c) = {}
<1> DEFINE P == PlacesOf(c, Cascades)
           n == Len(c.outbounds)
           m == Min(P)
<1>1. /\ P = {i \in 1 .. n : c.outbounds[i].tag \in Cascades} /\ n \in Nat
      /\ Tags(c) = {c.outbounds[i].tag : i \in 1 .. n}
  BY ListsTypes DEF PlacesOf, Fine, OutboundsFine, Tags
<1>2. CASE P = {}
  <2>1. First(c) = Nothing
    BY <1>2 DEF First
  <2>2. Cascades \intersect Tags(c) = {}
    BY <1>1, <1>2
  <2> QED BY <2>1, <2>2
<1>3. CASE P # {}
  <2>1. First(c) = c.outbounds[m].tag
    BY <1>3 DEF First
  <2>2. m \in P
    <3>1. P \subseteq 1 .. n
      BY <1>1
    <3> HIDE DEF P, n
    <3> QED BY <3>1, <1>1, <1>3, MinIs
  <2> HIDE DEF m
  <2>3. First(c) \in Cascades \intersect Tags(c)
    BY <1>1, <2>1, <2>2
  <2>4. First(c) # Nothing
    BY <2>3, RoutingAssumption
  <2> QED BY <2>3, <2>4
<1> QED BY <1>2, <1>3

\* Whose settings an outbound carries.
LEMMA SettingsIs ==
  ASSUME NEW c, Fine(c), NEW tag \in Tags(c)
  PROVE  SettingsOf(c, tag) \in Settings
<1> DEFINE P == PlacesOf(c, {tag})
           n == Len(c.outbounds)
           m == Min(P)
<1>1. /\ P = {i \in 1 .. n : c.outbounds[i].tag = tag} /\ n \in Nat
      /\ Tags(c) = {c.outbounds[i].tag : i \in 1 .. n}
      /\ \A i \in 1 .. n : c.outbounds[i] \in AnOutbound
  BY ListsTypes DEF PlacesOf, Fine, OutboundsFine, Tags
<1>2. P # {}
  BY <1>1
<1>3. m \in P
  <2>1. P \subseteq 1 .. n
    BY <1>1
  <2> HIDE DEF P, n
  <2> QED BY <2>1, <1>1, <1>2, MinIs
<1>4. SettingsOf(c, tag) = c.outbounds[m].as
  BY DEF SettingsOf
<1> HIDE DEF m
<1>5. c.outbounds[m] \in AnOutbound
  BY <1>1, <1>3
<1> QED BY <1>4, <1>5 DEF AnOutbound

\* Defaults gives every client a cascade that is there, as soon as one is the catch-all.
LEMMA DefaultsFine ==
  ASSUME NEW c, Fine(c), NEW chosen \in ClientChoices
  PROVE  /\ Defaults(c, chosen) \in ClientChoices
         /\ Active(c) # Nothing => \A x \in Clients : Defaults(c, chosen)[x] \in Cascades \intersect Tags(c)
<1>1. Nothing \notin Tags(c)
  <2>1. Nothing \notin Named
    BY RoutingAssumption DEF Named
  <2> QED BY <2>1, FineShape
<1>2. /\ Active(c) \in Cascades \union {Nothing}
      /\ Active(c) # Nothing => Active(c) \in Cascades \intersect Tags(c)
  BY ActiveIs
<1>3. \A x \in Clients : chosen[x] \in Cascades \union {Nothing}
  BY DEF ClientChoices
<1>4. \A x \in Clients : Defaults(c, chosen)[x] =
        IF Active(c) = Nothing \/ chosen[x] \in Tags(c) THEN chosen[x] ELSE Active(c)
  BY DEF Defaults
<1>5. \A x \in Clients : Defaults(c, chosen)[x] \in Cascades \union {Nothing}
  BY <1>2, <1>3, <1>4
<1>6. Defaults(c, chosen) \in ClientChoices
  BY <1>5 DEF ClientChoices, Defaults
<1>7. Active(c) # Nothing => \A x \in Clients : Defaults(c, chosen)[x] \in Cascades \intersect Tags(c)
  BY <1>1, <1>2, <1>3, <1>4
<1> QED BY <1>6, <1>7

\* The same, of a set by name.
LEMMA MadeLists ==
  ASSUME NEW T, NEW R, NEW n \in Nat, NEW f \in [1 .. n -> T],
         \A i, k \in 1 .. n : i < k => <<f[i], f[k]>> \in R,
         NEW A, {f[i] : i \in 1 .. n} = A
  PROVE  Lists(f, A, T, R)
<1>1. Lists(f, {f[i] : i \in 1 .. n}, T, R)
  BY ListsMade
<1> QED BY <1>1

\* The rules of the clients stand right before the catch-all.
LEMMA ClientRulesFine ==
  ASSUME NEW c, Fine(c), NEW chosen \in ClientChoices,
         Active(c) # Nothing => \A x \in Clients : chosen[x] \in Cascades \intersect Tags(c)
  PROVE  /\ SameBesideRules(c, ClientRules(c, chosen))
         /\ RulesIn(ClientRules(c, chosen)) =
              {r \in RulesIn(c) : r.kind # "client"} \union
              (IF Active(c) = Nothing THEN {} ELSE {Rule("client", {x}, chosen[x]) : x \in Clients})
<1> DEFINE drop == {r \in RulesIn(c) : r.kind = "client"}
           w == WithoutRules(c, drop)
           A == {r \in RulesIn(c) : r.kind # "client"}
           B == {Rule("client", {x}, chosen[x]) : x \in Clients}
           n == Cardinality(Clients)
           rules == [i \in 1 .. n |-> Rule("client", {SetToSeq(Clients)[i]}, chosen[SetToSeq(Clients)[i]])]
           N == Len(w.rules)
           S == {i \in DOMAIN w.rules : w.rules[i].kind = "catchall"}
           at == Min(S)
           before == SubSeq(w.rules, 1, at - 1)
           after == SubSeq(w.rules, at, Len(w.rules))
           br == before \o rules
           s == br \o after
           d == [w EXCEPT !.rules = s]
<1>1. SameBesideRules(c, w) /\ RulesIn(w) = A
  <2>1. RulesIn(c) \ drop = A
    OBVIOUS
  <2>2. SameBesideRules(c, w) /\ RulesIn(w) = RulesIn(c) \ drop
    BY WithoutRulesFine
  <2> QED BY <2>1, <2>2
<1>2. WithoutClients(c) = w
  BY DEF WithoutClients
<1>3. CASE Active(c) = Nothing
  <2>1. ClientRules(c, chosen) = w
    BY <1>2, <1>3 DEF ClientRules
  <2> QED BY <1>1, <1>3, <2>1
<1>4. CASE Active(c) # Nothing
  <2>1. ClientRules(c, chosen) = d
    BY <1>2, <1>4 DEF ClientRules
  <2>2. n \in Nat /\ SetToSeq(Clients) \in [1 .. n -> Clients] /\ \A x \in Clients : \E i \in 1 .. n : SetToSeq(Clients)[i] = x
    BY RoutingAssumption, SetToSeqIs
  <2>3. \A x \in Clients : Rule("client", {x}, chosen[x]) \in ARule /\ chosen[x] \in Cascades
    BY <1>4 DEF ARule, Rule, RuleKinds, Subjects, Named
  <2>4. /\ rules \in [1 .. n -> ARule]
        /\ \A i, k \in 1 .. n : i < k => <<rules[i], rules[k]>> \in Fits
    <3>1. \A i \in 1 .. n : rules[i] \in ARule /\ rules[i].kind = "client"
      BY <2>2, <2>3 DEF Rule
    <3>2. \A i, k \in 1 .. n : <<rules[i], rules[k]>> \in Fits
      <4> HIDE DEF rules, n
      <4> QED BY <3>1 DEF Fits
    <3> QED BY <3>1, <3>2
  <2>5. {rules[i] : i \in 1 .. n} = B
    BY <2>2
  <2>6. Lists(rules, B, ARule, Fits)
    <3> HIDE DEF rules, n, B
    <3>1. Lists(rules, B, ARule, Fits)
      BY <2>2, <2>4, <2>5, MadeLists
    <3> QED BY <3>1
  <2>7. /\ Lists(w.rules, A, ARule, Fits) /\ Fine(w) /\ N \in Nat /\ DOMAIN w.rules = 1 .. N
        /\ \A i \in 1 .. N : w.rules[i] \in ARule /\ w.rules[i] \in A
        /\ \A r \in A : \E i \in 1 .. N : r = w.rules[i]
        /\ \A i, k \in 1 .. N : i < k => <<w.rules[i], w.rules[k]>> \in Fits
    <3>1. Fine(w)
      BY <1>1 DEF SameBesideRules
    <3> HIDE DEF w, A
    <3> QED BY <3>1, <1>1, RulesAre
  <2>8. S # {}
    <3>1. PICK r \in RulesIn(c) : r.kind = "catchall"
      BY <1>4, ActiveIs
    <3>2. r \in A
      BY <3>1
    <3> HIDE DEF w, A
    <3> QED BY <2>7, <3>1, <3>2
  <2>9. at \in S /\ \A k \in S : at <= k
    <3>1. S \subseteq 1 .. N
      BY <2>7
    <3> HIDE DEF S, N
    <3> QED BY <2>7, <2>8, <3>1, MinIs
  <2> HIDE DEF w, at, N, rules, n, A, B
  <2>10. at \in 1 .. N /\ w.rules[at].kind = "catchall" /\ \A i \in 1 .. N : i < at => w.rules[i].kind # "catchall"
    BY <2>7, <2>9
  <2>11. /\ Lists(before, Till(w.rules, at), ARule, Fits) /\ Lists(after, From(w.rules, at), ARule, Fits)
         /\ Till(w.rules, at) \union From(w.rules, at) = A
         /\ Cross(Till(w.rules, at), From(w.rules, at), Fits)
    <3>1. at \in 1 .. Len(w.rules) + 1
      BY <2>7, <2>10 DEF N
    <3> QED BY <2>7, <3>1, ListsSplit
  <2>12. ASSUME NEW r \in B PROVE r \in ARule /\ r.kind = "client"
    BY <2>3 DEF B, Rule
  <2>13. Cross(Till(w.rules, at), B, Fits)
    <3>1. ASSUME NEW q \in Till(w.rules, at), NEW r \in B PROVE <<q, r>> \in Fits
      <4>1. PICK i \in 1 .. at - 1 : q = w.rules[i]
        BY DEF Till, Between
      <4>2. i \in 1 .. N /\ i < at
        BY <2>7, <2>10
      <4>3. q \in ARule /\ q.kind # "catchall" /\ q.kind # "client"
        BY <2>7, <2>10, <4>1, <4>2 DEF A
      <4> QED BY <4>3, <2>12 DEF Fits
    <3> QED BY <3>1 DEF Cross
  <2>14. Cross(B, From(w.rules, at), Fits)
    <3>1. ASSUME NEW q \in From(w.rules, at), NEW r \in B PROVE <<r, q>> \in Fits
      <4>1. PICK i \in at .. Len(w.rules) : q = w.rules[i]
        BY DEF From, Between
      <4>2. i \in 1 .. N /\ (i = at \/ at < i)
        BY <2>7, <2>10 DEF N
      <4>3. q \in ARule /\ w.rules[at] \in ARule
        BY <2>7, <2>10, <4>1, <4>2
      <4>4. CASE i = at
        BY <4>1, <4>3, <4>4, <2>10, <2>12 DEF Fits
      <4>5. CASE at < i
        <5>1. <<w.rules[at], q>> \in Fits
          BY <4>1, <4>2, <4>5, <2>7, <2>10
        <5> QED BY <5>1, <4>3, <2>10, <2>12 DEF Fits
      <4> QED BY <4>2, <4>4, <4>5
    <3> QED BY <3>1 DEF Cross
  <2> HIDE DEF before, after
  <2>15. Lists(br, Till(w.rules, at) \union B, ARule, Fits)
    BY <2>6, <2>11, <2>13, ListsConcat
  <2> HIDE DEF br
  <2>16. Cross(Till(w.rules, at) \union B, From(w.rules, at), Fits)
    BY <2>11, <2>14 DEF Cross
  <2> DEFINE U == (Till(w.rules, at) \union B) \union From(w.rules, at)
  <2>17. Lists(s, U, ARule, Fits)
    BY <2>11, <2>15, <2>16, ListsConcat
  <2>18. U = A \union B
    BY <2>11
  <2> HIDE DEF s, U
  <2>19. SameBesideRules(w, d) /\ RulesIn(d) = U
    BY <2>7, <2>17, FineRules DEF SameBesideRules
  <2>20. SameBesideRules(c, d)
    BY <1>1, <2>19 DEF SameBesideRules
  <2>21. RulesIn(ClientRules(c, chosen)) = A \union B
    BY <2>1, <2>18, <2>19
  <2>22. A \union B = {r \in RulesIn(c) : r.kind # "client"} \union
              (IF Active(c) = Nothing THEN {} ELSE {Rule("client", {x}, chosen[x]) : x \in Clients})
    BY <1>4 DEF A, B
  <2> QED BY <2>1, <2>20, <2>21, <2>22
<1> QED BY <1>3, <1>4

\* The prefixes keep the families apart.
LEMMA Families ==
         /\ "direct" \notin Regions /\ "blocked" \notin Regions /\ "warp" \notin Regions /\ Nothing \notin Regions
         /\ "direct" \notin Cascades /\ "blocked" \notin Cascades /\ "warp" \notin Cascades /\ Nothing \notin Cascades
         /\ "direct" \notin Bypasses /\ "blocked" \notin Bypasses /\ "warp" \notin Bypasses /\ Nothing \notin Bypasses
         /\ Cascades \intersect Regions = {} /\ Bypasses \intersect Regions = {} /\ Cascades \intersect Bypasses = {}
         /\ Nothing \notin Named /\ Nothing # "direct" /\ Nothing # "warp" /\ Nothing # "blocked"
<1>1. \A tag \in {"direct", "blocked", "warp", Nothing} : tag \notin Cascades \union Bypasses \union Regions
  BY RoutingAssumption
<1>2. Nothing \notin {"direct", "blocked", "warp"} /\ Nothing \notin Named
  BY <1>1, RoutingAssumption DEF Named
<1>3. Cascades \intersect Regions = {} /\ Bypasses \intersect Regions = {} /\ Cascades \intersect Bypasses = {}
  BY RoutingAssumption
<1> QED BY <1>1, <1>2, <1>3

\* The outbound whose settings a region's copy takes.
LEMMA WarningSourceIs ==
  ASSUME NEW c, Fine(c), NEW r, NEW source \in Settings \union {Nothing}, NEW enabled, enabled \subseteq Bypasses
  PROVE  WarningSource(c, r, source, enabled) \in Settings
<1>1. CatchallSource(c, source) \in Settings
  <2>1. CASE Catchall(c) \in Tags(c)
    BY <2>1, SettingsIs DEF CatchallSource
  <2>2. CASE Catchall(c) \notin Tags(c)
    BY <2>2 DEF CatchallSource, Settings
  <2> QED BY <2>1, <2>2
<1>2. CASE enabled \intersect Tags(c) # {}
  <2>1. WarningSource(c, r, source, enabled) \in enabled \intersect Tags(c)
    BY <1>2 DEF WarningSource
  <2> QED BY <2>1 DEF Settings
<1>3. CASE enabled \intersect Tags(c) = {} /\ Covered(c, r)
  <2>1. WarningSource(c, r, source, enabled) = SettingsOf(c, r)
    BY <1>3 DEF WarningSource
  <2> QED BY <1>3, <2>1, SettingsIs DEF Covered
<1>4. CASE enabled \intersect Tags(c) = {} /\ ~Covered(c, r)
  BY <1>1, <1>4 DEF WarningSource
<1> QED BY <1>2, <1>3, <1>4

\* Every copy a rule needs is there after a synchronisation, and no other tag changes.
LEMMA SyncWarningsFine ==
  ASSUME NEW c, Fine(c), NEW source \in Settings \union {Nothing}
  PROVE  /\ SameBesideOutbounds(c, SyncWarnings(c, source))
         /\ Tags(SyncWarnings(c, source)) = Tags(c) \union Warned(c)
<1> DEFINE w == WithoutOutbounds(c, Regions)
           W == Warned(c)
           n == Cardinality(W)
           as(r) == WarningSource(c, r, source, EnabledRoute(r))
           Copy(r) == [tag |-> r, as |-> as(r)]
           f == [i \in 1 .. n |-> Copy(SetToSeq(W)[i])]
           B == {Copy(r) : r \in W}
           A == ToSet(w.outbounds)
           s == w.outbounds \o f
           U == A \union B
           d == [c EXCEPT !.outbounds = s]
<1>1. /\ SameBesideOutbounds(c, w) /\ Tags(w) = Tags(c) \ Regions
      /\ A = {o \in ToSet(c.outbounds) : o.tag \notin Regions}
  BY Families, WithoutOutboundsFine
<1>2. W \subseteq Regions /\ IsFiniteSet(W)
  <2>1. W \subseteq Regions
    BY DEF Warned
  <2> HIDE DEF W
  <2> QED BY <2>1, RoutingAssumption, FS_Subset
<1>3. /\ n \in Nat /\ SetToSeq(W) \in [1 .. n -> W]
      /\ \A i, k \in 1 .. n : i # k => SetToSeq(W)[i] # SetToSeq(W)[k]
      /\ \A x \in W : \E i \in 1 .. n : SetToSeq(W)[i] = x
  <2> HIDE DEF W
  <2> QED BY <1>2, SetToSeqIs
<1>4. \A r \in W : Copy(r) \in AnOutbound /\ Copy(r).tag = r
  <2>1. ASSUME NEW r \in W PROVE as(r) \in Settings
    <3>1. EnabledRoute(r) \subseteq Bypasses
      BY DEF EnabledRoute
    <3> QED BY <3>1, WarningSourceIs
  <2> HIDE DEF as
  <2> QED BY <1>2, <2>1 DEF AnOutbound, Named
<1>5. SyncWarnings(c, source) = d
  <2>1. DOMAIN SetToSeq(W) = 1 .. n
    <3> HIDE DEF W, n
    <3> QED BY <1>3
  <2> QED BY <2>1 DEF SyncWarnings
<1> HIDE DEF W, Copy
<1>6. Lists(f, B, AnOutbound, Apart)
  <2>1. f \in [1 .. n -> AnOutbound] /\ {f[i] : i \in 1 .. n} = B
    <3>1. {f[i] : i \in 1 .. n} = B
      <4> HIDE DEF n
      <4> QED BY <1>3
    <3>2. f \in [1 .. n -> AnOutbound]
      <4> HIDE DEF n
      <4> QED BY <1>3, <1>4
    <3> QED BY <3>1, <3>2
  <2>2. \A i \in 1 .. n : f[i] \in AnOutbound /\ f[i].tag = SetToSeq(W)[i]
    <3>1. \A i \in 1 .. n : f[i].tag = SetToSeq(W)[i]
      <4> HIDE DEF n
      <4> QED BY <1>3, <1>4
    <3> HIDE DEF f
    <3> QED BY <2>1, <3>1
  <2> HIDE DEF f, n, B
  <2>3. \A i, k \in 1 .. n : i < k => <<f[i], f[k]>> \in Apart
    BY <1>3, <2>2 DEF Apart
  <2> QED BY <1>3, <2>1, <2>3, MadeLists
<1>7. /\ Lists(w.outbounds, A, AnOutbound, Apart) /\ Heads(w.outbounds, Direct) /\ "blocked" \in Tags(w)
      /\ A \subseteq AnOutbound /\ Tags(w) = {o.tag : o \in A}
  BY <1>1, FineShape DEF SameBesideOutbounds, Fine, OutboundsFine
<1>8. Cross(A, B, Apart)
  BY <1>1, <1>2, <1>4, <1>7 DEF Cross, Apart
<1>9. {o.tag : o \in U} = Tags(c) \union W
  <2>1. {o.tag : o \in B} = W
    BY <1>4
  <2>2. {o.tag : o \in U} = {o.tag : o \in A} \union {o.tag : o \in B}
    OBVIOUS
  <2>3. {o.tag : o \in U} = (Tags(c) \ Regions) \union W
    BY <1>1, <1>7, <2>1, <2>2
  <2>4. Tags(c) \intersect Regions \subseteq W
    BY DEF W, Warned
  <2> HIDE DEF U
  <2>5. (Tags(c) \ Regions) \union W = Tags(c) \union W
    BY <1>2, <2>4
  <2> QED BY <2>3, <2>5
<1> HIDE DEF w, f, n, B
<1>10. Lists(s, U, AnOutbound, Apart) /\ Heads(s, Direct)
  <2> HIDE DEF A
  <2> QED BY <1>6, <1>7, <1>8, ListsConcat
<1>11. "blocked" \in {o.tag : o \in U}
  <2>1. "blocked" \in Tags(c)
    BY FineShape
  <2> HIDE DEF U
  <2> QED BY <2>1, <1>9
<1> HIDE DEF s, U
<1>12. SameBesideOutbounds(c, d) /\ Tags(d) = {o.tag : o \in U}
  BY <1>10, <1>11, FineOutbounds DEF SameBesideOutbounds
<1> QED BY <1>5, <1>9, <1>12 DEF W

\* A GeoIP rule with its outbound.
LEMMA WarnFine ==
  ASSUME NEW c, Fine(c), NEW r \in Regions, NEW as \in Settings
  PROVE  /\ Fine(Warn(c, r, as)) /\ Tags(Warn(c, r, as)) = Tags(c) \union {r}
         /\ RulesIn(Warn(c, r, as)) = RulesIn(c) \union {WarningRule(r)}
         /\ Warn(c, r, as).inbounds = c.inbounds /\ Warn(c, r, as).strategy = c.strategy
<1> DEFINE less == WithoutOutbounds(c, {r})
           copied == Append1(less, r, as)
           x == WarningRule(r)
           kinds == {"client", "catchall"}
<1>1. SameBesideOutbounds(c, less) /\ Tags(less) = Tags(c) \ {r}
  BY Families, WithoutOutboundsFine
<1>2. SameBesideOutbounds(less, copied) /\ Tags(copied) = Tags(less) \union {r}
  <2>1. r \in Named /\ r \notin Tags(less) /\ Fine(less)
    BY <1>1 DEF Named, SameBesideOutbounds
  <2> HIDE DEF less
  <2> QED BY <2>1, Append1Fine
<1>3. SameBesideOutbounds(c, copied) /\ Tags(copied) = Tags(c) \union {r}
  BY <1>1, <1>2 DEF SameBesideOutbounds
<1> HIDE DEF less, copied
<1>4. CASE \E i \in DOMAIN c.rules : c.rules[i] = x
  <2>1. Warn(c, r, as) = copied
    BY <1>4 DEF Warn, less, copied
  <2>2. x \in RulesIn(c)
    BY <1>4, RulesAre
  <2> HIDE DEF x
  <2>3. RulesIn(c) = RulesIn(c) \union {x}
    BY <2>2
  <2> QED BY <1>3, <2>1, <2>3 DEF SameBesideOutbounds, x
<1>5. CASE ~\E i \in DOMAIN c.rules : c.rules[i] = x
  <2>1. Warn(c, r, as) = Before(copied, kinds, x)
    BY <1>5 DEF Warn, less, copied
  <2>2. x \in ARule /\ x.kind = "warning"
    BY DEF WarningRule, Rule, ARule, RuleKinds, Subjects, Named
  <2> HIDE DEF x
  <2>3. \A q \in ARule : q.kind \notin kinds => <<q, x>> \in Fits
    BY <2>2 DEF Fits
  <2>4. ASSUME NEW q \in ARule, NEW z \in ARule, q.kind \in kinds, q = z \/ <<q, z>> \in Fits PROVE <<x, z>> \in Fits
    BY <2>2, <2>4 DEF Fits
  <2>5. SameBesideRules(copied, Before(copied, kinds, x)) /\ RulesIn(Before(copied, kinds, x)) = RulesIn(copied) \union {x}
    <3>1. Fine(copied)
      BY <1>3 DEF SameBesideOutbounds
    <3> HIDE DEF kinds
    <3> QED BY <2>2, <2>3, <2>4, <3>1, BeforeFine
  <2> QED BY <1>3, <2>1, <2>5 DEF SameBesideOutbounds, SameBesideRules, x
<1> QED BY <1>4, <1>5

\* The GeoIP rules of some regions gone, with their outbounds.
LEMMA UnwarnFine ==
  ASSUME NEW c, Fine(c), NEW regions, regions \subseteq Regions \union {Nothing}
  PROVE  /\ Fine(Unwarn(c, regions)) /\ Tags(Unwarn(c, regions)) = Tags(c) \ regions
         /\ RulesIn(Unwarn(c, regions)) = {r \in RulesIn(c) : r.kind # "warning" \/ r.to \notin regions}
         /\ Unwarn(c, regions).inbounds = c.inbounds /\ Unwarn(c, regions).strategy = c.strategy
<1> DEFINE less == WithoutOutbounds(c, regions)
           drop == {WarningRule(r) : r \in regions}
           d == WithoutRules(less, drop)
<1>1. SameBesideOutbounds(c, less) /\ Tags(less) = Tags(c) \ regions
  <2>1. "direct" \notin regions /\ "blocked" \notin regions
    BY Families
  <2> QED BY <2>1, WithoutOutboundsFine
<1>2. SameBesideRules(less, d) /\ RulesIn(d) = RulesIn(less) \ drop
  <2>1. Fine(less)
    BY <1>1 DEF SameBesideOutbounds
  <2> HIDE DEF less, drop
  <2> QED BY <2>1, WithoutRulesFine
<1>3. RulesIn(c) \ drop = {r \in RulesIn(c) : r.kind # "warning" \/ r.to \notin regions}
  <2>1. ASSUME NEW r \in RulesIn(c), r \in drop PROVE r.kind = "warning" /\ r.to \in regions
    BY <2>1 DEF WarningRule, Rule
  <2>2. ASSUME NEW r \in RulesIn(c), r.kind = "warning", r.to \in regions PROVE r \in drop
    BY <2>2, FineShape
  <2> HIDE DEF drop
  <2> QED BY <2>1, <2>2
<1>4. Unwarn(c, regions) = d
  BY DEF Unwarn
<1> HIDE DEF less, drop
<1>5. RulesIn(d) = RulesIn(c) \ drop
  BY <1>1, <1>2 DEF SameBesideOutbounds
<1>6. RulesIn(d) = {r \in RulesIn(c) : r.kind # "warning" \/ r.to \notin regions}
  BY <1>3, <1>5
<1>7. Fine(d) /\ Tags(d) = Tags(c) \ regions /\ d.inbounds = c.inbounds /\ d.strategy = c.strategy
  BY <1>1, <1>2 DEF SameBesideOutbounds, SameBesideRules
<1> HIDE DEF d
<1> QED BY <1>4, <1>6, <1>7

\* The rules of the blocklist are rewritten, the others are kept.
OthersStay(c, d) ==
  /\ SameBesideRules(c, d)
  /\ \A r \in RulesIn(d) : r.kind = "block" \/ r \in RulesIn(c)
  /\ \A r \in RulesIn(c) : r.kind = "block" \/ r \in RulesIn(d)

\* SyncBlocks moves nothing but blocks.
LEMMA SyncBlocksFine ==
  ASSUME NEW c, Fine(c), NEW active \in SUBSET Targets, NEW known
  PROVE  OthersStay(c, SyncBlocks(c, active, known))
<1> DEFINE Kept(r) == IF r.kind = "block" THEN [r EXCEPT !.of = @ \ (known \union active)] ELSE r
           n == Len(c.rules)
           less == [i \in DOMAIN c.rules |-> Kept(c.rules[i])]
           A == {Kept(c.rules[i]) : i \in 1 .. n}
           S == {r \in ToSet(less) : r.kind # "block" \/ r.of # {}}
           B == A \intersect S
           s == Only(less, S)
           kept == [c EXCEPT !.rules = s]
           x == Rule("block", active, "blocked")
           kinds == {"warning", "client", "catchall"}
<1>1. SyncBlocks(c, active, known) = IF active = {} THEN kept ELSE Before(kept, kinds, x)
  BY DEF SyncBlocks
<1>2. /\ n \in Nat /\ DOMAIN c.rules = 1 .. n /\ \A i \in 1 .. n : c.rules[i] \in ARule
      /\ \A i, k \in 1 .. n : i < k => <<c.rules[i], c.rules[k]>> \in Fits
      /\ RulesIn(c) = {c.rules[i] : i \in 1 .. n}
  <2>1. RulesIn(c) = {c.rules[i] : i \in 1 .. n}
    BY RulesAre DEF RulesIn, ToSet
  <2> QED BY <2>1, RulesAre
<1>3. ASSUME NEW r \in ARule PROVE Kept(r) \in ARule /\ Kept(r).kind = r.kind /\ (r.kind # "block" => Kept(r) = r)
  <2>1. CASE r.kind # "block"
    BY <2>1
  <2>2. CASE r.kind = "block"
    <3>1. r = [kind |-> r.kind, of |-> r.of, to |-> r.to] /\ r.to = "blocked" /\ r.of \in SUBSET Subjects
      BY <2>2 DEF ARule
    <3>2. Kept(r) = [kind |-> r.kind, of |-> r.of \ (known \union active), to |-> r.to]
      BY <2>2, <3>1
    <3> HIDE DEF Kept
    <3>3. r.of \ (known \union active) \in SUBSET Subjects
      BY <3>1
    <3>4. Kept(r) \in [kind : RuleKinds, of : SUBSET Subjects, to : Named]
      BY <2>2, <3>1, <3>2, <3>3 DEF RuleKinds, Named
    <3>5. Kept(r).kind = r.kind /\ Kept(r).to = r.to
      BY <3>2
    <3> QED BY <2>2, <3>1, <3>4, <3>5 DEF ARule
  <2> QED BY <2>1, <2>2
<1> HIDE DEF Kept, n
<1>4. ASSUME NEW r \in ARule, NEW q \in ARule, <<r, q>> \in Fits PROVE <<Kept(r), Kept(q)>> \in Fits
  <2>1. Kept(r) \in ARule /\ Kept(q) \in ARule /\ Kept(r).kind = r.kind /\ Kept(q).kind = q.kind
    BY <1>3
  <2> QED BY <1>4, <2>1 DEF Fits
<1>5. Lists(less, A, ARule, Fits)
  <2>1. less \in [1 .. n -> ARule]
    BY <1>2, <1>3
  <2>2. \A i, k \in 1 .. n : i < k => <<less[i], less[k]>> \in Fits
    BY <1>2, <1>4
  <2>3. {less[i] : i \in 1 .. n} = A
    BY <1>2
  <2> HIDE DEF less, A
  <2> QED BY <1>2, <2>1, <2>2, <2>3, MadeLists
<1>6. ToSet(less) = A
  <2> HIDE DEF less, A
  <2> QED BY <1>5, ListsTypes
<1>7. Lists(s, B, ARule, Fits)
  <2> HIDE DEF less, A, S
  <2> QED BY <1>5, ListsOnly
<1>8. SameBesideRules(c, kept) /\ RulesIn(kept) = B
  <2> HIDE DEF s, B
  <2> QED BY <1>7, FineRules DEF SameBesideRules
<1>9. \A r \in B : r.kind = "block" \/ r \in RulesIn(c)
  <2>1. ASSUME NEW r \in A, r.kind # "block" PROVE r \in RulesIn(c)
    <3>1. PICK i \in 1 .. n : r = Kept(c.rules[i])
      OBVIOUS
    <3>2. c.rules[i] \in ARule /\ c.rules[i] \in RulesIn(c)
      BY <1>2
    <3>3. r = c.rules[i]
      BY <1>3, <2>1, <3>1, <3>2
    <3> QED BY <3>2, <3>3
  <2> HIDE DEF A, S
  <2> QED BY <2>1
<1>10. ASSUME NEW r \in RulesIn(c), r.kind # "block" PROVE r \in B
  <2>1. PICK i \in 1 .. n : r = c.rules[i]
    BY <1>2
  <2>2. r = Kept(c.rules[i])
    BY <1>2, <1>3, <1>10, <2>1
  <2>3. r \in A
    BY <2>2
  <2> HIDE DEF A, less
  <2> QED BY <1>6, <1>10, <2>3
<1> HIDE DEF B, kept, x, kinds
<1>11. OthersStay(c, kept)
  BY <1>8, <1>9, <1>10 DEF OthersStay
<1>12. CASE active = {}
  BY <1>1, <1>11, <1>12
<1>13. CASE active # {}
  <2>1. x \in ARule /\ x.kind = "block"
    BY DEF x, Rule, ARule, RuleKinds, Subjects, Named
  <2>2. \A q \in ARule : q.kind \notin kinds => <<q, x>> \in Fits
    BY <2>1 DEF Fits, kinds
  <2>3. ASSUME NEW q \in ARule, NEW z \in ARule, q.kind \in kinds, q = z \/ <<q, z>> \in Fits PROVE <<x, z>> \in Fits
    BY <2>1, <2>3 DEF Fits, kinds
  <2> DEFINE d == Before(kept, kinds, x)
  <2>4. SameBesideRules(kept, d) /\ RulesIn(d) = RulesIn(kept) \union {x}
    <3>1. Fine(kept)
      BY <1>8 DEF SameBesideRules
    <3> QED BY <2>1, <2>2, <2>3, <3>1, BeforeFine
  <2> HIDE DEF d
  <2>5. SameBesideRules(c, d)
    BY <1>8, <2>4 DEF SameBesideRules
  <2>6. OthersStay(c, d)
    BY <1>11, <2>1, <2>4, <2>5 DEF OthersStay
  <2> QED BY <1>1, <1>13, <2>6 DEF d
<1> QED BY <1>12, <1>13

\* The rule against torrents is the first.
LEMMA TorrentsFine ==
  ASSUME NEW c, Fine(c), NEW blocked \in BOOLEAN
  PROVE  /\ SameBesideRules(c, Torrents(c, blocked))
         /\ RulesIn(Torrents(c, blocked)) = {r \in RulesIn(c) : r.kind # "torrent"} \union
              (IF blocked THEN {Rule("torrent", {}, "blocked")} ELSE {})
<1> DEFINE drop == {r \in RulesIn(c) : r.kind = "torrent"}
           rest == WithoutRules(c, drop)
           A == {r \in RulesIn(c) : r.kind # "torrent"}
           x == Rule("torrent", {}, "blocked")
           d == [rest EXCEPT !.rules = <<x>> \o rest.rules]
<1>1. SameBesideRules(c, rest) /\ RulesIn(rest) = RulesIn(c) \ drop
  BY WithoutRulesFine
<1>2. RulesIn(c) \ drop = A
  OBVIOUS
<1>3. Torrents(c, blocked) = IF blocked THEN d ELSE rest
  BY DEF Torrents
<1>4. x \in ARule /\ x.kind = "torrent"
  BY DEF Rule, ARule, RuleKinds, Subjects, Named
<1> HIDE DEF drop, rest, A, x
<1>5. SameBesideRules(rest, d) /\ RulesIn(d) = {x} \union RulesIn(rest)
  <2>1. Fine(rest)
    BY <1>1 DEF SameBesideRules
  <2> QED BY <1>4, <2>1, FirstRuleFine
<1>6. SameBesideRules(c, d)
  BY <1>1, <1>5 DEF SameBesideRules
<1> HIDE DEF d
<1>7. CASE blocked
  <2>1. RulesIn(Torrents(c, blocked)) = A \union {x}
    BY <1>1, <1>2, <1>3, <1>5, <1>7
  <2>2. SameBesideRules(c, Torrents(c, blocked))
    BY <1>3, <1>6, <1>7
  <2> QED BY <1>7, <2>1, <2>2 DEF A, x
<1>8. CASE ~blocked
  <2>1. RulesIn(Torrents(c, blocked)) = A
    BY <1>1, <1>2, <1>3, <1>8
  <2>2. SameBesideRules(c, Torrents(c, blocked))
    BY <1>1, <1>3, <1>8
  <2> QED BY <1>8, <2>1, <2>2 DEF A
<1> QED BY <1>7, <1>8

\* The temporary inbound of a probe, and the config without it.
LEMMA WithoutProbeFine ==
  ASSUME NEW c, Fine(c), NEW owner
  PROVE  /\ SameBesideRules(c, WithoutProbe(c, owner)) /\ RulesIn(WithoutProbe(c, owner)) \subseteq RulesIn(c)
         /\ \A r \in RulesIn(c) : r.kind = "probe" \/ r \in RulesIn(WithoutProbe(c, owner))
<1> DEFINE drop == {r \in RulesIn(c) : r.kind = "probe" /\ r.of = {owner}}
           d == WithoutRules(c, drop)
<1>1. SameBesideRules(c, d) /\ RulesIn(d) = RulesIn(c) \ drop
  BY WithoutRulesFine
<1>2. \A r \in drop : r.kind = "probe"
  OBVIOUS
<1>3. WithoutProbe(c, owner) = d
  BY DEF WithoutProbe
<1> HIDE DEF drop, d
<1> QED BY <1>1, <1>2, <1>3

\* WithWarp adds the outbound of WARP.
LEMMA WithWarpFine ==
  ASSUME NEW c, Fine(c)
  PROVE  SameBesideOutbounds(c, WithWarp(c)) /\ Tags(WithWarp(c)) = Tags(c) \union {"warp"}
<1>1. CASE "warp" \in Tags(c)
  <2>1. WithWarp(c) = c /\ Tags(c) = Tags(c) \union {"warp"}
    BY <1>1 DEF WithWarp
  <2> QED BY <2>1 DEF SameBesideOutbounds
<1>2. CASE "warp" \notin Tags(c)
  <2>1. WithWarp(c) = Append1(c, "warp", "warp")
    BY <1>2 DEF WithWarp
  <2>2. "warp" \in Named /\ "warp" \in Settings
    BY DEF Named, Settings
  <2> QED BY <1>2, <2>1, <2>2, Append1Fine
<1> QED BY <1>1, <1>2

\* The strategy that is put back, and the one kept in server.env.
SameBesideStrategy(c, d) ==
  /\ Fine(d) /\ Tags(d) = Tags(c) /\ RulesIn(d) = RulesIn(c) /\ d.rules = c.rules /\ d.outbounds = c.outbounds
  /\ d.inbounds = c.inbounds

\* OnDemand changes the strategy alone.
LEMMA OnDemandFine ==
  ASSUME NEW c, Fine(c)
  PROVE  SameBesideStrategy(c, OnDemand(c))
  BY FineStrategy DEF OnDemand, SameBesideStrategy

\* So does Restored.
LEMMA RestoredFine ==
  ASSUME NEW c, Fine(c), NEW e, e.prev \in {Nothing, Own, "IPIfNonMatch"}
  PROVE  SameBesideStrategy(c, Restored(c, e))
<1>1. \E s \in {Own, "IPOnDemand", "IPIfNonMatch"} : Restored(c, e) = [c EXCEPT !.strategy = s]
  <2>1. c.strategy \in {Own, "IPOnDemand", "IPIfNonMatch"} /\ c = [c EXCEPT !.strategy = c.strategy]
    BY DEF Fine, Config
  <2>2. CASE ~Unused(c)
    BY <2>1, <2>2 DEF Restored
  <2>3. CASE Unused(c) /\ e.prev # Nothing
    BY <2>3 DEF Restored
  <2>4. CASE Unused(c) /\ e.prev = Nothing
    <3>1. Restored(c, e) = [c EXCEPT !.strategy = IF c.strategy = "IPOnDemand" THEN "IPIfNonMatch" ELSE c.strategy]
      BY <2>4 DEF Restored
    <3> QED BY <2>1, <3>1
  <2> QED BY <2>2, <2>3, <2>4
<1>2. PICK s \in {Own, "IPOnDemand", "IPIfNonMatch"} : Restored(c, e) = [c EXCEPT !.strategy = s]
  BY <1>1
<1>3. SameBesideStrategy(c, [c EXCEPT !.strategy = s])
  BY FineStrategy DEF SameBesideStrategy
<1> QED BY <1>2, <1>3

-----------------------------------------------------------------------------
(***************************************************************************)
(* What the commands of the routes compute is sound.                       *)
(***************************************************************************)
\* The bypass routes in manager.db.
RouteRows == [Bypasses -> [region : Regions \union {Nothing}, enabled : BOOLEAN]]
\* What server.env may say.
EnvFine(e) ==
  /\ DOMAIN e = {"prev", "watched", "described"}
  /\ e.prev \in {Nothing, Own, "IPIfNonMatch"} /\ e.watched \in Regions \union {Nothing}
\* The blocks in manager.db.
BlockRows == [Targets -> {"none", "on", "expired"}]
\* What the stores beside config.json hold is of its kind.
StoresFine == choice \in ClientChoices /\ routes \in RouteRows /\ EnvFine(env)

\* What a command computes can be written.
Given(g) == Sound(g.config) /\ g.choice \in ClientChoices /\ g.routes \in RouteRows /\ EnvFine(g.env)

\* SyncWarnings keeps a config in order.
LEMMA SyncSound ==
  ASSUME NEW c, Fine(c), NEW source \in Settings \union {Nothing}
  PROVE  /\ Fine(SyncWarnings(c, source)) /\ RulesIn(SyncWarnings(c, source)) = RulesIn(c)
         /\ Leads(c, {}) => Leads(SyncWarnings(c, source), {})
         /\ Routed(c) => Routed(SyncWarnings(c, source))
         /\ Tags(c) \subseteq Tags(SyncWarnings(c, source))
<1> DEFINE d == SyncWarnings(c, source)
<1>1. SameBesideOutbounds(c, d) /\ Tags(d) = Tags(c) \union Warned(c)
  BY SyncWarningsFine
<1> HIDE DEF d
<1>2. Fine(d) /\ RulesIn(d) = RulesIn(c) /\ Tags(c) \subseteq Tags(d)
  BY <1>1 DEF SameBesideOutbounds
<1>3. Leads(c, {}) => Leads(d, {})
  BY <1>2 DEF Leads
<1>4. Routed(c) => Routed(d)
  BY <1>2 DEF Routed
<1> QED BY <1>2, <1>3, <1>4 DEF d

\* Activate leads to an outbound that is there.
LEMMA ActivateSound ==
  ASSUME NEW c, Fine(c), Leads(c, {}), NEW tag \in Cascades \union {"warp"}, tag \in Tags(c)
  PROVE  /\ Fine(Activate(c, tag)) /\ Leads(Activate(c, tag), {}) /\ Tags(Activate(c, tag)) = Tags(c)
         /\ RulesIn(Activate(c, tag)) = {r \in RulesIn(c) : r.kind # "catchall"} \union {Rule("catchall", {}, tag)}
         /\ tag \in Cascades => Routed(Activate(c, tag))
<1> DEFINE d == Activate(c, tag)
           x == Rule("catchall", {}, tag)
<1>1. /\ SameBesideRules(c, d) /\ RulesIn(d) = {r \in RulesIn(c) : r.kind # "catchall"} \union {x}
  BY ActivateFine
<1>2. x.kind = "catchall" /\ x.to = tag
  BY DEF Rule
<1> HIDE DEF d, x
<1>3. Fine(d) /\ Tags(d) = Tags(c)
  BY <1>1 DEF SameBesideRules
<1>4. Leads(d, {})
  BY <1>1, <1>2, <1>3 DEF Leads
<1>5. tag \in Cascades => Routed(d)
  BY <1>1, <1>2 DEF Routed
<1> QED BY <1>1, <1>3, <1>4, <1>5 DEF d, x

\* Fewer rules.
LEMMA WithoutSound ==
  ASSUME NEW c, Fine(c), Leads(c, {}), NEW drop
  PROVE  /\ Fine(WithoutRules(c, drop)) /\ Leads(WithoutRules(c, drop), {}) /\ Tags(WithoutRules(c, drop)) = Tags(c)
         /\ RulesIn(WithoutRules(c, drop)) = RulesIn(c) \ drop
         /\ (\A r \in drop : r.kind # "catchall") /\ Routed(c) => Routed(WithoutRules(c, drop))
<1> DEFINE d == WithoutRules(c, drop)
<1>1. SameBesideRules(c, d) /\ RulesIn(d) = RulesIn(c) \ drop
  BY WithoutRulesFine
<1> HIDE DEF d
<1>2. Fine(d) /\ Tags(d) = Tags(c)
  BY <1>1 DEF SameBesideRules
<1>3. Leads(d, {})
  BY <1>1, <1>2 DEF Leads
<1>4. (\A r \in drop : r.kind # "catchall") /\ Routed(c) => Routed(d)
  BY <1>1 DEF Routed
<1> QED BY <1>1, <1>2, <1>3, <1>4 DEF d

\* The rules of clients lead to cascades that are there.
LEMMA ClientsSound ==
  ASSUME NEW c, Fine(c), Leads(c, {}), NEW chosen \in ClientChoices,
         Active(c) # Nothing => \A x \in Clients : chosen[x] \in Cascades \intersect Tags(c)
  PROVE  /\ Sound(ClientRules(c, chosen)) /\ Tags(ClientRules(c, chosen)) = Tags(c)
         /\ \A r \in RulesIn(ClientRules(c, chosen)) : r.kind = "client" \/ r \in RulesIn(c)
<1> DEFINE d == ClientRules(c, chosen)
           more == IF Active(c) = Nothing THEN {} ELSE {Rule("client", {x}, chosen[x]) : x \in Clients}
           kept == {r \in RulesIn(c) : r.kind # "client"}
<1>1. SameBesideRules(c, d) /\ RulesIn(d) = kept \union more
  BY ClientRulesFine
<1>2. \A r \in more : r.kind = "client" /\ r.to \in Tags(c)
  BY DEF Rule
<1> HIDE DEF d, more
<1>3. Fine(d) /\ Tags(d) = Tags(c)
  BY <1>1 DEF SameBesideRules
<1>4. Leads(d, {})
  BY <1>1, <1>2, <1>3 DEF Leads
<1>5. Routed(d)
  <2>1. CASE Active(c) = Nothing
    <3>1. more = {}
      BY <2>1 DEF more
    <3> QED BY <1>1, <3>1 DEF Routed
  <2>2. CASE Active(c) # Nothing
    <3>1. PICK r \in RulesIn(c) : r.kind = "catchall" /\ r.to \in Cascades
      BY <2>2, ActiveIs
    <3>2. r \in RulesIn(d)
      BY <1>1, <3>1
    <3> QED BY <3>1, <3>2 DEF Routed
  <2> QED BY <2>1, <2>2
<1>6. \A r \in RulesIn(d) : r.kind = "client" \/ r \in RulesIn(c)
  BY <1>1, <1>2
<1> QED BY <1>3, <1>4, <1>5, <1>6 DEF d, Sound

\* A result with the choices of the clients settled is sound.
LEMMA GivesChoiceSound ==
  ASSUME NEW c, Fine(c), Leads(c, {}), NEW chosen \in ClientChoices, StoresFine
  PROVE  /\ Given(GivesChoice(c, chosen)) /\ Tags(GivesChoice(c, chosen).config) = Tags(c)
         /\ \A r \in RulesIn(GivesChoice(c, chosen).config) : r.kind = "client" \/ r \in RulesIn(c)
         /\ GivesChoice(c, chosen).routes = routes /\ GivesChoice(c, chosen).env = env
         /\ DOMAIN GivesChoice(c, chosen) = {"config", "choice", "routes", "env"}
<1> DEFINE picked == Defaults(c, chosen)
           d == ClientRules(c, picked)
           g == GivesChoice(c, chosen)
<1>1. picked \in ClientChoices /\ (Active(c) # Nothing => \A x \in Clients : picked[x] \in Cascades \intersect Tags(c))
  BY DefaultsFine
<1>2. Sound(d) /\ Tags(d) = Tags(c) /\ \A r \in RulesIn(d) : r.kind = "client" \/ r \in RulesIn(c)
  <2> HIDE DEF picked
  <2> QED BY <1>1, ClientsSound
<1>3. /\ g.config = d /\ g.choice = picked /\ g.routes = routes /\ g.env = env
      /\ DOMAIN g = {"config", "choice", "routes", "env"}
  <2>1. g = [Gives(d) EXCEPT !.choice = picked]
    BY DEF GivesChoice
  <2> HIDE DEF g, d, picked
  <2> QED BY <2>1 DEF Gives
<1> HIDE DEF g, d, picked
<1>4. Given(g)
  BY <1>1, <1>2, <1>3 DEF Given, StoresFine
<1> QED BY <1>2, <1>3, <1>4 DEF g

\* So is a result that leaves the choices as they are.
LEMMA GivesSound ==
  ASSUME NEW c, Sound(c), StoresFine
  PROVE  /\ Given(Gives(c)) /\ DOMAIN Gives(c) = {"config", "choice", "routes", "env"}
         /\ Gives(c).config = c /\ Gives(c).choice = choice /\ Gives(c).routes = routes /\ Gives(c).env = env
<1>1. /\ DOMAIN Gives(c) = {"config", "choice", "routes", "env"}
      /\ Gives(c).config = c /\ Gives(c).choice = choice /\ Gives(c).routes = routes /\ Gives(c).env = env
  BY DEF Gives
<1> QED BY <1>1 DEF Given, StoresFine

-----------------------------------------------------------------------------
(***************************************************************************)
(* Cascades.                                                               *)
(***************************************************************************)
LEMMA CascadeAddSound ==
  ASSUME StoresFine, Sound(config), NEW tag \in Cascades
  PROVE  Given(CascadeAdd(tag))
<1> DEFINE added == Upsert(config, tag, Cascades)
           on == Activate(added, tag)
           c == IF First(config) = Nothing THEN SyncWarnings(on, tag) ELSE SyncWarnings(added, Nothing)
<1>1. SameBesideOutbounds(config, added) /\ Tags(added) = Tags(config) \union {tag}
  BY UpsertFine DEF Sound
<1>2. Fine(added) /\ Leads(added, {}) /\ tag \in Tags(added)
  <2>1. RulesIn(added) = RulesIn(config) /\ Fine(added)
    BY <1>1 DEF SameBesideOutbounds
  <2> QED BY <1>1, <2>1 DEF Leads, Sound
<1> HIDE DEF added
<1>3. Fine(on) /\ Leads(on, {})
  BY <1>2, ActivateSound
<1> HIDE DEF on
<1>4. Fine(SyncWarnings(on, tag)) /\ Leads(SyncWarnings(on, tag), {})
  BY <1>3, SyncSound DEF Settings
<1>5. Fine(SyncWarnings(added, Nothing)) /\ Leads(SyncWarnings(added, Nothing), {})
  BY <1>2, SyncSound
<1>6. Fine(c) /\ Leads(c, {})
  BY <1>4, <1>5
<1>7. Defaults(config, choice) \in ClientChoices
  BY DefaultsFine DEF Sound, StoresFine
<1>8. CascadeAdd(tag) = GivesChoice(c, Defaults(config, choice))
  BY DEF CascadeAdd, added, on
<1> HIDE DEF c
<1> QED BY <1>6, <1>7, <1>8, GivesChoiceSound

\* Another cascade becomes the catch-all.
LEMMA SetActiveSound ==
  ASSUME NEW c, Fine(c), Leads(c, {}), NEW tag \in Cascades, tag \in Tags(c)
  PROVE  Sound(SetActive(c, tag)) /\ Tags(c) \subseteq Tags(SetActive(c, tag))
<1> DEFINE front == ToFront(c, tag)
           on == Activate(front, tag)
<1>1. SameBesideOutbounds(c, front) /\ Tags(front) = Tags(c)
  BY ToFrontFine
<1>2. Fine(front) /\ Leads(front, {}) /\ tag \in Tags(front)
  BY <1>1 DEF Leads, SameBesideOutbounds
<1> HIDE DEF front
<1>3. Fine(on) /\ Leads(on, {}) /\ Routed(on) /\ Tags(on) = Tags(front)
  BY <1>2, ActivateSound
<1> HIDE DEF on
<1>4. /\ Fine(SyncWarnings(on, tag)) /\ Leads(SyncWarnings(on, tag), {}) /\ Routed(SyncWarnings(on, tag))
      /\ Tags(on) \subseteq Tags(SyncWarnings(on, tag))
  BY <1>3, SyncSound DEF Settings
<1>5. SetActive(c, tag) = SyncWarnings(on, tag)
  BY DEF SetActive, on, front
<1> QED BY <1>1, <1>3, <1>4, <1>5 DEF Sound

\* What CascadeUse gives is sound.
LEMMA CascadeUseSound ==
  ASSUME StoresFine, Sound(config), NEW tag \in Cascades, tag \in Tags(config)
  PROVE  Given(CascadeUse(tag))
<1>1. Sound(SetActive(config, tag))
  BY SetActiveSound DEF Sound
<1> QED BY <1>1, GivesChoiceSound DEF CascadeUse, Sound, StoresFine

\* What CascadeRemove gives is sound.
LEMMA CascadeRemoveSound ==
  ASSUME StoresFine, Sound(config), NEW tag \in Cascades
  PROVE  Given(CascadeRemove(tag))
<1> DEFINE drop == {r \in RulesIn(config) : r.to = tag}
           fewer == WithoutOutbounds(config, {tag})
           less == WithoutRules(fewer, drop)
           after == IF Active(config) = tag /\ First(less) # Nothing
                    THEN SetActive(less, First(less)) ELSE SyncWarnings(less, Nothing)
           moved == [x \in Clients |-> IF choice[x] = tag THEN Active(after) ELSE choice[x]]
           picked == Defaults(after, moved)
<1>1. SameBesideOutbounds(config, fewer) /\ Tags(fewer) = Tags(config) \ {tag}
  <2>1. "direct" \notin {tag} /\ "blocked" \notin {tag}
    BY Families
  <2> QED BY <2>1, WithoutOutboundsFine DEF Sound
<1>2. Fine(fewer) /\ RulesIn(fewer) = RulesIn(config)
  BY <1>1 DEF SameBesideOutbounds
<1> HIDE DEF fewer
<1>3. SameBesideRules(fewer, less) /\ RulesIn(less) = RulesIn(fewer) \ drop
  BY <1>2, WithoutRulesFine
<1>4. RulesIn(less) = {r \in RulesIn(config) : r.to # tag}
  <2> HIDE DEF less
  <2> QED BY <1>2, <1>3
<1> HIDE DEF less
<1>5. Fine(less) /\ Tags(less) = Tags(config) \ {tag} /\ Leads(less, {})
  <2>1. Fine(less) /\ Tags(less) = Tags(config) \ {tag}
    BY <1>1, <1>3 DEF SameBesideRules
  <2> QED BY <2>1, <1>4 DEF Leads, Sound
<1>6. First(less) = Nothing => ~\E r \in RulesIn(less) : r.kind = "client"
  <2> SUFFICES ASSUME First(less) = Nothing, NEW r \in RulesIn(less), r.kind = "client" PROVE FALSE
    OBVIOUS
  <2>1. r.to \in Cascades /\ r.to \in Tags(less)
    BY <1>5, FineShape DEF Leads, ARule
  <2> QED BY <2>1, <1>5, FirstIs
<1>7. Active(config) # tag => Routed(less)
  <2> SUFFICES ASSUME Active(config) # tag, NEW r \in RulesIn(less), r.kind = "client"
               PROVE  \E q \in RulesIn(less) : q.kind = "catchall" /\ q.to \in Cascades
    BY DEF Routed
  <2>1. PICK q \in RulesIn(config) : q.kind = "catchall" /\ q.to \in Cascades
    <3>1. r \in RulesIn(config)
      BY <1>4
    <3> QED BY <3>1 DEF Sound, Routed
  <2>2. q.to \in Tags(config)
    BY <2>1 DEF Sound, Leads
  <2>3. q.to = Catchall(config)
    BY <2>1, CatchallIs DEF Sound
  <2>4. Active(config) = q.to
    BY <2>1, <2>2, <2>3 DEF Active
  <2>5. q \in RulesIn(less)
    BY <1>4, <2>4
  <2> QED BY <2>1, <2>5
<1>8. Sound(after)
  <2>1. CASE Active(config) = tag /\ First(less) # Nothing
    BY <1>5, <2>1, FirstIs, SetActiveSound
  <2>2. CASE ~(Active(config) = tag /\ First(less) # Nothing)
    <3>1. Routed(less)
      <4>1. CASE First(less) = Nothing
        BY <1>6, <4>1 DEF Routed
      <4>2. CASE First(less) # Nothing
        BY <1>7, <2>2, <4>2
      <4> QED BY <4>1, <4>2
    <3>2. after = SyncWarnings(less, Nothing)
      BY <2>2
    <3> QED BY <1>5, <3>1, <3>2, SyncSound DEF Sound
  <2> QED BY <2>1, <2>2
<1> HIDE DEF after
<1>9. moved \in ClientChoices
  <2>1. Active(after) \in Cascades \union {Nothing}
    BY <1>8, ActiveIs DEF Sound
  <2> QED BY <2>1 DEF ClientChoices, StoresFine
<1> HIDE DEF moved
<1>10. picked \in ClientChoices
  BY <1>8, <1>9, DefaultsFine DEF Sound
<1>11. CascadeRemove(tag) = [Gives(after) EXCEPT !.choice = picked]
  BY DEF CascadeRemove, after, less, fewer, moved
<1> DEFINE g == CascadeRemove(tag)
<1> HIDE DEF picked, g
<1>12. g.config = after /\ g.choice = picked /\ g.routes = routes /\ g.env = env
  BY <1>11 DEF Gives, g
<1> QED BY <1>8, <1>10, <1>12 DEF Given, StoresFine, g

\* What CascadeOff gives is sound.
LEMMA CascadeOffSound ==
  ASSUME StoresFine, Sound(config)
  PROVE  Given(CascadeOff)
<1> DEFINE all == {r \in RulesIn(config) : r.kind = "catchall" /\ r.to \in Cascades}
           off == WithoutRules(config, all)
           clients == {r \in RulesIn(off) : r.kind = "client"}
           none == WithoutRules(off, clients)
<1>1. Fine(off) /\ Leads(off, {})
  BY WithoutSound DEF Sound
<1> HIDE DEF off
<1>2. Fine(none) /\ Leads(none, {}) /\ RulesIn(none) = RulesIn(off) \ clients
  BY <1>1, WithoutSound
<1>3. Routed(none)
  BY <1>2 DEF Routed
<1> HIDE DEF none
<1>4. Sound(SyncWarnings(none, Nothing))
  BY <1>2, <1>3, SyncSound DEF Sound
<1>5. CascadeOff = Gives(SyncWarnings(none, Nothing))
  BY DEF CascadeOff, WithoutClients, none, off
<1> QED BY <1>4, <1>5, GivesSound

(***************************************************************************)
(* WARP.                                                                   *)
(***************************************************************************)
LEMMA WarpCleanSound ==
  ASSUME NEW c, Sound(c)
  PROVE  Sound(WarpClean(c)) /\ Tags(WarpClean(c)) = Tags(c) /\ RulesIn(WarpClean(c)) \subseteq RulesIn(c)
<1> DEFINE drop == {r \in RulesIn(c) : r.kind = "probe" /\ r.of = {"warp"}}
           d == WithoutRules(c, drop)
<1>1. \A r \in drop : r.kind # "catchall"
  OBVIOUS
<1>2. WarpClean(c) = d
  BY DEF WarpClean
<1> HIDE DEF drop
<1>3. Fine(d) /\ Leads(d, {}) /\ Tags(d) = Tags(c) /\ RulesIn(d) = RulesIn(c) \ drop /\ Routed(d)
  BY <1>1, WithoutSound DEF Sound
<1> QED BY <1>2, <1>3 DEF Sound

\* What WithWarp gives is sound.
LEMMA WithWarpSound ==
  ASSUME NEW c, Sound(c)
  PROVE  Sound(WithWarp(c)) /\ Tags(WithWarp(c)) = Tags(c) \union {"warp"} /\ RulesIn(WithWarp(c)) = RulesIn(c)
         /\ WithWarp(c).inbounds = c.inbounds
<1> DEFINE d == WithWarp(c)
<1>1. SameBesideOutbounds(c, d) /\ Tags(d) = Tags(c) \union {"warp"}
  BY WithWarpFine DEF Sound
<1> HIDE DEF d
<1>2. Fine(d) /\ RulesIn(d) = RulesIn(c) /\ d.inbounds = c.inbounds
  BY <1>1 DEF SameBesideOutbounds
<1>3. Leads(d, {}) /\ Routed(d)
  BY <1>1, <1>2 DEF Leads, Routed, Sound
<1> QED BY <1>1, <1>2, <1>3 DEF d, Sound

\* What WarpEnable gives is sound.
LEMMA WarpEnableSound ==
  ASSUME StoresFine, Sound(config)
  PROVE  Given(WarpEnable)
<1> DEFINE c == WarpClean(WithWarp(config))
           clients == {r \in RulesIn(c) : r.kind = "client"}
           none == WithoutRules(c, clients)
           on == Activate(none, "warp")
<1>1. Sound(c) /\ "warp" \in Tags(c)
  BY WithWarpSound, WarpCleanSound
<1> HIDE DEF c
<1>2. Fine(none) /\ Leads(none, {}) /\ Tags(none) = Tags(c) /\ RulesIn(none) = RulesIn(c) \ clients
  BY <1>1, WithoutSound DEF Sound
<1> HIDE DEF none
<1>3. /\ Fine(on) /\ Leads(on, {})
      /\ RulesIn(on) = {r \in RulesIn(none) : r.kind # "catchall"} \union {Rule("catchall", {}, "warp")}
  BY <1>1, <1>2, ActivateSound
<1>4. \A r \in RulesIn(on) : r.kind # "client"
  BY <1>2, <1>3 DEF Rule
<1> HIDE DEF on
<1>5. Sound(on)
  BY <1>3, <1>4 DEF Sound, Routed
<1>6. WarpEnable = Gives(on)
  BY DEF WarpEnable, WithoutClients, on, none, c
<1> QED BY <1>5, <1>6, GivesSound

\* What WarpDisable gives is sound.
LEMMA WarpDisableSound ==
  ASSUME StoresFine, Sound(config)
  PROVE  /\ Given(WarpDisable) /\ DOMAIN WarpDisable = {"config", "choice", "routes", "env"}
         /\ \A r \in RulesIn(WarpDisable.config) : r.kind = "catchall" => r.to \in Cascades
<1> DEFINE c == WarpClean(config)
           all == {r \in RulesIn(c) : r.kind = "catchall"}
           plain == WithoutRules(c, all)
           on == Activate(plain, First(plain))
           d == IF First(plain) = Nothing THEN plain ELSE on
<1>1. Sound(c)
  BY WarpCleanSound
<1> HIDE DEF c
<1>2. Fine(plain) /\ Leads(plain, {}) /\ RulesIn(plain) = RulesIn(c) \ all
  BY <1>1, WithoutSound DEF Sound
<1>3. \A r \in RulesIn(plain) : r.kind # "catchall"
  <2> HIDE DEF plain
  <2> QED BY <1>2
<1>4. WarpDisable = GivesChoice(d, choice)
  BY DEF WarpDisable, WithoutCatchall, plain, c
<1> HIDE DEF plain
<1>5. First(plain) # Nothing =>
        /\ Fine(on) /\ Leads(on, {}) /\ First(plain) \in Cascades
        /\ RulesIn(on) = {r \in RulesIn(plain) : r.kind # "catchall"} \union {Rule("catchall", {}, First(plain))}
  BY <1>2, FirstIs, ActivateSound
<1> HIDE DEF on
<1>6. Fine(d) /\ Leads(d, {}) /\ \A r \in RulesIn(d) : r.kind = "catchall" => r.to \in Cascades
  BY <1>2, <1>3, <1>5 DEF Rule
<1> HIDE DEF d
<1>7. /\ Given(GivesChoice(d, choice)) /\ DOMAIN GivesChoice(d, choice) = {"config", "choice", "routes", "env"}
      /\ \A r \in RulesIn(GivesChoice(d, choice).config) : r.kind = "client" \/ r \in RulesIn(d)
  BY <1>6, GivesChoiceSound DEF StoresFine
<1> QED BY <1>4, <1>6, <1>7

\* What WarpRemove gives is sound.
LEMMA WarpRemoveSound ==
  ASSUME StoresFine, Sound(config)
  PROVE  Given(WarpRemove)
<1> DEFINE g == WarpDisable
           c == g.config
           d == WithoutOutbounds(c, {"warp"})
           h == WarpRemove
<1>1. /\ Given(g) /\ DOMAIN g = {"config", "choice", "routes", "env"}
      /\ \A r \in RulesIn(c) : r.kind = "catchall" => r.to \in Cascades
  BY WarpDisableSound
<1>2. h = [g EXCEPT !.config = d]
  BY DEF WarpRemove
<1> HIDE DEF g, h
<1>3. h.config = d /\ h.choice = g.choice /\ h.routes = g.routes /\ h.env = g.env
  BY <1>1, <1>2
<1>4. Sound(c)
  BY <1>1 DEF Given
<1> HIDE DEF c
<1>5. SameBesideOutbounds(c, d) /\ Tags(d) = Tags(c) \ {"warp"}
  <2>1. "direct" \notin {"warp"} /\ "blocked" \notin {"warp"}
    OBVIOUS
  <2> QED BY <1>4, <2>1, WithoutOutboundsFine DEF Sound
<1>6. Fine(d) /\ RulesIn(d) = RulesIn(c)
  BY <1>5 DEF SameBesideOutbounds
<1> HIDE DEF d
<1>7. \A r \in RulesIn(c) : r.kind # "probe" => r.to # "warp"
  <2> SUFFICES ASSUME NEW r \in RulesIn(c), r.kind # "probe" PROVE r.to # "warp"
    OBVIOUS
  <2>1. r \in ARule
    BY <1>4, FineShape DEF Sound
  <2> QED BY <1>1, <2>1, Families DEF ARule, RuleKinds, c
<1>8. Leads(d, {}) /\ Routed(d)
  BY <1>4, <1>5, <1>6, <1>7 DEF Sound, Leads, Routed
<1> QED BY <1>1, <1>3, <1>6, <1>8 DEF Given, Sound, h

-----------------------------------------------------------------------------
(***************************************************************************)
(* GeoIP rules: the bypass routes and the watched region.                  *)
(***************************************************************************)
LEMMA UnwarnSound ==
  ASSUME NEW c, Sound(c), NEW regions, regions \subseteq Regions \union {Nothing}
  PROVE  Sound(Unwarn(c, regions))
<1> DEFINE d == Unwarn(c, regions)
<1>1. /\ Fine(d) /\ Tags(d) = Tags(c) \ regions
      /\ RulesIn(d) = {r \in RulesIn(c) : r.kind # "warning" \/ r.to \notin regions}
  BY UnwarnFine DEF Sound
<1> HIDE DEF d
<1>2. ASSUME NEW r \in RulesIn(d), r.kind # "probe" PROVE r.to \in Tags(d)
  <2>1. r \in RulesIn(c) /\ r \in ARule
    BY <1>1, FineShape
  <2>2. r.to \in Tags(c)
    BY <1>2, <2>1 DEF Sound, Leads
  <2>3. r.to \notin regions
    BY <1>1, <1>2, <2>1, Families DEF ARule, RuleKinds
  <2> QED BY <1>1, <2>2, <2>3
<1>3. Routed(d)
  BY <1>1 DEF Sound, Routed
<1> QED BY <1>1, <1>2, <1>3 DEF Sound, Leads, d

\* What Warn gives is sound.
LEMMA WarnSound ==
  ASSUME NEW c, Sound(c), NEW r \in Regions, NEW as \in Settings
  PROVE  Sound(Warn(c, r, as))
<1> DEFINE d == Warn(c, r, as)
           x == WarningRule(r)
<1>1. Fine(d) /\ Tags(d) = Tags(c) \union {r} /\ RulesIn(d) = RulesIn(c) \union {x}
  BY WarnFine DEF Sound
<1>2. x.kind = "warning" /\ x.to = r
  BY DEF WarningRule, Rule
<1> HIDE DEF d, x
<1>3. Leads(d, {}) /\ Routed(d)
  BY <1>1, <1>2 DEF Sound, Leads, Routed
<1> QED BY <1>1, <1>3 DEF Sound, d

\* The strategy alone makes no config unsound.
LEMMA SameBesideStrategySound ==
  ASSUME NEW c, Sound(c), NEW d, SameBesideStrategy(c, d)
  PROVE  Sound(d)
  BY DEF SameBesideStrategy, Sound, Leads, Routed

\* What Restored gives is sound.
LEMMA RestoredSound ==
  ASSUME NEW c, Sound(c), NEW e, EnvFine(e)
  PROVE  Sound(Restored(c, e)) /\ EnvFine(RestoredEnv(c, e))
<1>1. Sound(Restored(c, e))
  <2>1. Fine(c) /\ e.prev \in {Nothing, Own, "IPIfNonMatch"}
    BY DEF Sound, EnvFine
  <2>2. SameBesideStrategy(c, Restored(c, e))
    BY <2>1, RestoredFine
  <2> QED BY <2>2, SameBesideStrategySound
<1>2. EnvFine(RestoredEnv(c, e))
  <2>1. RestoredEnv(c, e) = IF Unused(c) THEN [e EXCEPT !.prev = Nothing] ELSE e
    BY DEF RestoredEnv
  <2> QED BY <2>1 DEF EnvFine
<1> QED BY <1>1, <1>2

\* KeepStrategy notes a strategy.
LEMMA KeepStrategyFine ==
  ASSUME NEW c, Sound(c), NEW e, EnvFine(e)
  PROVE  EnvFine(KeepStrategy(c, e))
<1>1. c.strategy \in {Own, "IPOnDemand", "IPIfNonMatch"}
  BY DEF Sound, Fine, Config
<1> QED BY <1>1 DEF KeepStrategy, EnvFine

\* The parts of a result.
Fourfold(g) == DOMAIN g = {"config", "choice", "routes", "env"}

\* What BypassOff gives is sound.
LEMMA BypassOffSound ==
  ASSUME NEW g, Given(g), Fourfold(g), NEW r \in Regions \union {Nothing}
  PROVE  /\ Given(BypassOff(g, r)) /\ Fourfold(BypassOff(g, r)) /\ BypassOff(g, r).routes = g.routes
         /\ BypassOff(g, r).choice = g.choice
<1> DEFINE c == Unwarn(g.config, {r})
           h == BypassOff(g, r)
<1>1. Sound(c)
  BY UnwarnSound DEF Given
<1>2. h = [g EXCEPT !.config = Restored(c, g.env), !.env = RestoredEnv(c, g.env)]
  BY DEF BypassOff
<1> HIDE DEF c, h
<1>3. /\ h.config = Restored(c, g.env) /\ h.env = RestoredEnv(c, g.env) /\ h.choice = g.choice /\ h.routes = g.routes
      /\ Fourfold(h)
  BY <1>2 DEF Fourfold
<1>4. Sound(Restored(c, g.env)) /\ EnvFine(RestoredEnv(c, g.env))
  BY <1>1, RestoredSound DEF Given
<1> QED BY <1>3, <1>4 DEF Given, h

\* What BypassOn gives is sound.
LEMMA BypassOnSound ==
  ASSUME StoresFine, NEW g, Given(g), Fourfold(g), NEW tag \in Bypasses, NEW r \in Regions
  PROVE  Given(BypassOn(g, tag, r))
<1> DEFINE rivals == EnabledRoute(r) \ {tag}
           alone == IF rivals = {} THEN g ELSE BypassOff(g, r)
           rows == [b \in Bypasses |->
                      IF b = tag THEN [region |-> r, enabled |-> TRUE]
                      ELSE IF b \in rivals THEN [routes[b] EXCEPT !.enabled = FALSE] ELSE routes[b]]
           c == OnDemand(Warn(alone.config, r, tag))
           e == KeepStrategy(alone.config, alone.env)
           h == BypassOn(g, tag, r)
<1>1. h = [config |-> c, env |-> e, choice |-> g.choice, routes |-> rows]
  BY DEF BypassOn
<1>2. Given(alone)
  BY BypassOffSound
<1> HIDE DEF alone, rivals
<1>3. rows \in RouteRows
  BY DEF RouteRows, StoresFine
<1>4. Sound(c)
  <2>1. Sound(Warn(alone.config, r, tag))
    <3>1. tag \in Settings /\ Sound(alone.config)
      BY <1>2 DEF Settings, Given
    <3> QED BY <3>1, WarnSound
  <2>2. SameBesideStrategy(Warn(alone.config, r, tag), c)
    BY <2>1, OnDemandFine DEF Sound
  <2> QED BY <2>1, <2>2, SameBesideStrategySound
<1>5. EnvFine(e)
  BY <1>2, KeepStrategyFine DEF Given
<1> HIDE DEF rows, c, e, h
<1>6. h.config = c /\ h.env = e /\ h.choice = g.choice /\ h.routes = rows
  BY <1>1
<1> QED BY <1>3, <1>4, <1>5, <1>6 DEF Given, h

\* A plain result has its parts.
LEMMA GivesFour ==
  ASSUME NEW c, Sound(c), StoresFine
  PROVE  Given(Gives(c)) /\ Fourfold(Gives(c)) /\ Gives(c).routes = routes
  BY GivesSound DEF Fourfold

\* What BypassAdd gives is sound.
LEMMA BypassAddSound ==
  ASSUME StoresFine, Sound(config), NEW tag \in Bypasses, NEW r \in Regions
  PROVE  Given(BypassAdd(tag, r))
<1> DEFINE c == Upsert(config, tag, Bypasses)
<1>1. Sound(c)
  <2>1. SameBesideOutbounds(config, c) /\ Tags(c) = Tags(config) \union {tag}
    BY UpsertFine DEF Sound
  <2> HIDE DEF c
  <2>2. Fine(c) /\ RulesIn(c) = RulesIn(config)
    BY <2>1 DEF SameBesideOutbounds
  <2> QED BY <2>1, <2>2 DEF Sound, Leads, Routed
<1>2. BypassAdd(tag, r) = BypassOn(Gives(c), tag, r)
  BY DEF BypassAdd
<1> HIDE DEF c
<1> QED BY <1>1, <1>2, GivesFour, BypassOnSound

\* What BypassEnable gives is sound.
LEMMA BypassEnableSound ==
  ASSUME StoresFine, Sound(config), NEW tag \in Bypasses, NEW r \in Regions
  PROVE  Given(BypassEnable(tag, r))
  BY GivesFour, BypassOnSound DEF BypassEnable

\* What BypassRegion gives is sound.
LEMMA BypassRegionSound ==
  ASSUME StoresFine, Sound(config), NEW tag \in Bypasses, NEW r \in Regions
  PROVE  Given(BypassRegion(tag, r))
<1>1. routes[tag].region \in Regions \union {Nothing} /\ routes \in RouteRows
  BY DEF StoresFine, RouteRows
<1>2. Given(Gives(config)) /\ Fourfold(Gives(config)) /\ Gives(config).routes = routes
  BY GivesFour
<1>3. CASE routes[tag].enabled
  <2>1. Given(BypassOff(Gives(config), routes[tag].region)) /\ Fourfold(BypassOff(Gives(config), routes[tag].region))
    BY <1>1, <1>2, BypassOffSound
  <2> QED BY <1>3, <2>1, BypassOnSound DEF BypassRegion
<1>4. CASE ~routes[tag].enabled
  <2> DEFINE g == Gives(config)
             h == [g EXCEPT !.routes[tag].region = r]
  <2>1. BypassRegion(tag, r) = h
    BY <1>4 DEF BypassRegion
  <2> HIDE DEF g
  <2>2. h.config = g.config /\ h.env = g.env /\ h.choice = g.choice /\ h.routes = [routes EXCEPT ![tag].region = r]
    BY <1>2 DEF g, Fourfold
  <2>3. [routes EXCEPT ![tag].region = r] \in RouteRows
    BY <1>1 DEF RouteRows
  <2> QED BY <1>2, <2>1, <2>2, <2>3 DEF Given, g
<1> QED BY <1>3, <1>4

\* What BypassDisable gives is sound.
LEMMA BypassDisableSound ==
  ASSUME StoresFine, Sound(config), NEW tag \in Bypasses
  PROVE  Given(BypassDisable(tag))
<1>1. routes[tag].region \in Regions \union {Nothing} /\ routes \in RouteRows
  BY DEF StoresFine, RouteRows
<1> DEFINE g == BypassOff(Gives(config), routes[tag].region)
           h == [g EXCEPT !.routes[tag].enabled = FALSE]
<1>2. Given(g) /\ Fourfold(g) /\ g.routes = routes
  BY <1>1, GivesFour, BypassOffSound
<1>3. BypassDisable(tag) = h
  BY DEF BypassDisable
<1> HIDE DEF g
<1>4. h.config = g.config /\ h.env = g.env /\ h.choice = g.choice /\ h.routes = [routes EXCEPT ![tag].enabled = FALSE]
  BY <1>2 DEF Fourfold
<1>5. [routes EXCEPT ![tag].enabled = FALSE] \in RouteRows
  BY <1>1 DEF RouteRows
<1> QED BY <1>2, <1>3, <1>4, <1>5 DEF Given

\* What BypassRemove gives is sound.
LEMMA BypassRemoveSound ==
  ASSUME StoresFine, Sound(config), NEW tag \in Bypasses
  PROVE  Given(BypassRemove(tag))
<1>1. routes[tag].region \in Regions \union {Nothing} /\ routes \in RouteRows
  BY DEF StoresFine, RouteRows
<1> DEFINE c == WithoutOutbounds(config, {tag})
           g == BypassOff(Gives(c), routes[tag].region)
           h == [g EXCEPT !.routes[tag] = NoRow]
<1>2. SameBesideOutbounds(config, c) /\ Tags(c) = Tags(config) \ {tag}
  <2>1. "direct" \notin {tag} /\ "blocked" \notin {tag}
    BY Families
  <2> QED BY <2>1, WithoutOutboundsFine DEF Sound
<1>3. Fine(c) /\ RulesIn(c) = RulesIn(config)
  BY <1>2 DEF SameBesideOutbounds
<1> HIDE DEF c
<1>4. \A r \in RulesIn(config) : r.kind # "probe" => r.to # tag
  <2> SUFFICES ASSUME NEW r \in RulesIn(config), r.kind # "probe" PROVE r.to # tag
    OBVIOUS
  <2>1. r \in ARule
    BY FineShape DEF Sound
  <2> QED BY <2>1, Families DEF ARule, RuleKinds
<1>5. Sound(c)
  BY <1>2, <1>3, <1>4 DEF Sound, Leads, Routed
<1>6. Given(g) /\ Fourfold(g) /\ g.routes = routes
  BY <1>1, <1>5, GivesFour, BypassOffSound
<1>7. BypassRemove(tag) = h
  BY DEF BypassRemove, c
<1> HIDE DEF g
<1>8. h.config = g.config /\ h.env = g.env /\ h.choice = g.choice /\ h.routes = [routes EXCEPT ![tag] = NoRow]
  BY <1>6 DEF Fourfold
<1>9. [routes EXCEPT ![tag] = NoRow] \in RouteRows
  BY <1>1 DEF RouteRows, NoRow
<1> QED BY <1>6, <1>7, <1>8, <1>9 DEF Given

\* What Watch gives is sound.
LEMMA WatchSound ==
  ASSUME StoresFine, Sound(config), NEW r \in Regions
  PROVE  Given(Watch(r))
<1> DEFINE old == env.watched
           c == IF old \in {Nothing, r} \/ Covered(config, old) THEN config ELSE Unwarn(config, {old})
           as == WarningSource(c, r, Nothing, {})
           d == OnDemand(Warn(c, r, as))
           e == KeepStrategy(c, env)
           h == Watch(r)
<1>1. Sound(c)
  <2>1. old \in Regions \union {Nothing}
    BY DEF StoresFine, EnvFine
  <2>2. Sound(Unwarn(config, {old}))
    BY <2>1, UnwarnSound
  <2> QED BY <2>2
<1>2. h = [Gives(d) EXCEPT !.env = [e EXCEPT !.watched = r]]
  BY DEF Watch
<1> HIDE DEF c
<1>3. as \in Settings
  BY <1>1, WarningSourceIs DEF Sound
<1> HIDE DEF as
<1>4. Sound(d)
  <2>1. Sound(Warn(c, r, as))
    BY <1>1, <1>3, WarnSound
  <2>2. SameBesideStrategy(Warn(c, r, as), d)
    BY <2>1, OnDemandFine DEF Sound
  <2> QED BY <2>1, <2>2, SameBesideStrategySound
<1>5. EnvFine(e)
  BY <1>1, KeepStrategyFine DEF StoresFine
<1> HIDE DEF d, e, h
<1>6. /\ Fourfold(Gives(d)) /\ Gives(d).config = d /\ Gives(d).choice = choice /\ Gives(d).routes = routes
  BY DEF Gives, Fourfold
<1>7. h.config = d /\ h.choice = choice /\ h.routes = routes /\ h.env = [e EXCEPT !.watched = r]
  BY <1>2, <1>6 DEF Fourfold
<1>8. EnvFine([e EXCEPT !.watched = r])
  BY <1>5 DEF EnvFine
<1> QED BY <1>4, <1>7, <1>8 DEF Given, StoresFine, h

\* What Unwatch gives is sound.
LEMMA UnwatchSound ==
  ASSUME StoresFine, Sound(config)
  PROVE  Given(Unwatch)
<1> DEFINE mine == IF env.watched # Nothing THEN {env.watched} ELSE Warned(config)
           gone == {r \in mine : ~Covered(config, r)}
           c == Unwarn(config, gone)
           d == Restored(c, env)
           e == RestoredEnv(c, env)
           h == Unwatch
<1>1. gone \subseteq Regions \union {Nothing}
  <2>1. mine \subseteq Regions \union {Nothing}
    BY DEF StoresFine, EnvFine, Warned
  <2> QED BY <2>1
<1>2. h = [Gives(d) EXCEPT !.env = [e EXCEPT !.watched = Nothing]]
  BY DEF Unwatch
<1> HIDE DEF gone
<1>3. Sound(c)
  BY <1>1, UnwarnSound
<1> HIDE DEF c
<1>4. Sound(d) /\ EnvFine(e)
  BY <1>3, RestoredSound DEF StoresFine
<1> HIDE DEF d, e, h
<1>6. /\ Fourfold(Gives(d)) /\ Gives(d).config = d /\ Gives(d).choice = choice /\ Gives(d).routes = routes
  BY DEF Gives, Fourfold
<1>7. h.config = d /\ h.choice = choice /\ h.routes = routes /\ h.env = [e EXCEPT !.watched = Nothing]
  BY <1>2, <1>6 DEF Fourfold
<1>8. EnvFine([e EXCEPT !.watched = Nothing])
  BY <1>4 DEF EnvFine
<1> QED BY <1>4, <1>7, <1>8 DEF Given, StoresFine, h

-----------------------------------------------------------------------------
(***************************************************************************)
(* Torrents and the blocklist.                                             *)
(***************************************************************************)
LEMMA TorrentsSound ==
  ASSUME NEW c, Sound(c), NEW blocked \in BOOLEAN
  PROVE  Sound(Torrents(c, blocked))
<1> DEFINE d == Torrents(c, blocked)
           more == IF blocked THEN {Rule("torrent", {}, "blocked")} ELSE {}
           kept == {r \in RulesIn(c) : r.kind # "torrent"}
<1>1. SameBesideRules(c, d) /\ RulesIn(d) = kept \union more
  BY TorrentsFine DEF Sound
<1>2. \A r \in more : r.kind = "torrent" /\ r.to = "blocked"
  BY DEF Rule
<1> HIDE DEF d, more
<1>3. Fine(d) /\ Tags(d) = Tags(c) /\ "blocked" \in Tags(d)
  BY <1>1, FineShape DEF SameBesideRules
<1>4. Leads(d, {})
  BY <1>1, <1>2, <1>3 DEF Leads, Sound
<1>5. Routed(d)
  <2> SUFFICES ASSUME NEW r \in RulesIn(d), r.kind = "client"
               PROVE  \E q \in RulesIn(d) : q.kind = "catchall" /\ q.to \in Cascades
    BY DEF Routed
  <2>1. r \in RulesIn(c)
    BY <1>1, <1>2
  <2>2. PICK q \in RulesIn(c) : q.kind = "catchall" /\ q.to \in Cascades
    BY <2>1 DEF Sound, Routed
  <2>3. q \in RulesIn(d)
    BY <1>1, <2>2
  <2> QED BY <2>2, <2>3
<1> QED BY <1>3, <1>4, <1>5 DEF Sound, d

\* What SyncBlocks gives is sound.
LEMMA SyncBlocksSound ==
  ASSUME NEW c, Sound(c), NEW active \in SUBSET Targets, NEW known
  PROVE  Sound(SyncBlocks(c, active, known))
<1> DEFINE d == SyncBlocks(c, active, known)
<1>1. OthersStay(c, d)
  BY SyncBlocksFine DEF Sound
<1> HIDE DEF d
<1>2. Fine(d) /\ Tags(d) = Tags(c) /\ "blocked" \in Tags(d)
  BY <1>1, FineShape DEF SameBesideRules, OthersStay
<1>3. ASSUME NEW r \in RulesIn(d), r.kind # "probe" PROVE r.to \in Tags(d)
  <2>1. CASE r.kind = "block"
    <3>1. r \in ARule
      BY <1>2, FineShape
    <3> QED BY <1>2, <2>1, <3>1 DEF ARule
  <2>2. CASE r \in RulesIn(c)
    BY <1>2, <1>3, <2>2 DEF Sound, Leads
  <2> QED BY <1>1, <2>1, <2>2 DEF OthersStay
<1>4. Routed(d)
  <2> SUFFICES ASSUME NEW r \in RulesIn(d), r.kind = "client"
               PROVE  \E q \in RulesIn(d) : q.kind = "catchall" /\ q.to \in Cascades
    BY DEF Routed
  <2>1. r \in RulesIn(c)
    BY <1>1 DEF OthersStay
  <2>2. PICK q \in RulesIn(c) : q.kind = "catchall" /\ q.to \in Cascades
    BY <2>1 DEF Sound, Routed
  <2>3. q \in RulesIn(d)
    BY <1>1, <2>2 DEF OthersStay
  <2> QED BY <2>2, <2>3
<1> QED BY <1>2, <1>3, <1>4 DEF Sound, Leads, d

-----------------------------------------------------------------------------
(***************************************************************************)
(* Probes.                                                                 *)
(***************************************************************************)
LEMMA WithoutProbeSound ==
  ASSUME NEW c, Sound(c), NEW owner
  PROVE  Sound(WithoutProbe(c, owner))
<1> DEFINE d == WithoutProbe(c, owner)
<1>1. /\ SameBesideRules(c, d) /\ RulesIn(d) \subseteq RulesIn(c)
      /\ \A r \in RulesIn(c) : r.kind = "probe" \/ r \in RulesIn(d)
  BY WithoutProbeFine DEF Sound
<1> HIDE DEF d
<1>2. Fine(d) /\ Tags(d) = Tags(c)
  BY <1>1 DEF SameBesideRules
<1>3. Leads(d, {})
  BY <1>1, <1>2 DEF Leads, Sound
<1>4. Routed(d)
  <2> SUFFICES ASSUME NEW r \in RulesIn(d), r.kind = "client"
               PROVE  \E q \in RulesIn(d) : q.kind = "catchall" /\ q.to \in Cascades
    BY DEF Routed
  <2>1. PICK q \in RulesIn(c) : q.kind = "catchall" /\ q.to \in Cascades
    BY <1>1 DEF Sound, Routed
  <2>2. q \in RulesIn(d)
    BY <1>1, <2>1
  <2> QED BY <2>1, <2>2
<1> QED BY <1>2, <1>3, <1>4 DEF Sound, d

\* The rule of a test may lead anywhere.
LEMMA WithProbeSound ==
  ASSUME NEW c, Sound(c), NEW j, j.arg \in Cascades \union Bypasses \union {"warp"}
  PROVE  Sound(WithProbe(c, j))
<1> DEFINE a == IF j.arg = "warp" THEN WithWarp(c) ELSE c
           plain == WithoutProbe(a, Owner(j))
           x == Rule("probe", {Owner(j)}, j.arg)
           d == [plain EXCEPT !.rules = <<x>> \o plain.rules]
<1>1. Sound(plain)
  BY WithWarpSound, WithoutProbeSound
<1>2. WithProbe(c, j) = d
  BY DEF WithProbe
<1>3. x \in ARule /\ x.kind = "probe"
  BY DEF x, Rule, Owner, ARule, RuleKinds, Subjects, Named
<1> HIDE DEF plain, x
<1>4. SameBesideRules(plain, d) /\ RulesIn(d) = {x} \union RulesIn(plain)
  BY <1>1, <1>3, FirstRuleFine DEF Sound
<1> HIDE DEF d
<1>5. Fine(d) /\ Tags(d) = Tags(plain)
  BY <1>4 DEF SameBesideRules
<1>6. Leads(d, {})
  BY <1>1, <1>3, <1>4, <1>5 DEF Leads, Sound
<1>7. Routed(d)
  BY <1>1, <1>3, <1>4 DEF Routed, Sound
<1> QED BY <1>2, <1>5, <1>6, <1>7 DEF Sound

\* So may those of the text a test of a bypass writes.
LEMMA ProbeTextSound ==
  ASSUME Sound(config), NEW j
  PROVE  Sound(ProbeText(j))
  BY WithoutProbeSound DEF ProbeText

-----------------------------------------------------------------------------
(***************************************************************************)
(* What the commands of the connections compute is sound.                  *)
(***************************************************************************)
\* A config with other connections.
LEMMA FineInbounds ==
  ASSUME NEW c, Sound(c), NEW s, NEW A, Lists(s, A, AnInbound, Beside), \E x \in A : x.tag \in Reals,
         NEW d, d = [c EXCEPT !.inbounds = s]
  PROVE  Sound(d)
<1>1. /\ d.rules = c.rules /\ d.outbounds = c.outbounds /\ d.inbounds = s /\ d.strategy = c.strategy
      /\ d = [outbounds |-> c.outbounds, rules |-> c.rules, strategy |-> c.strategy, inbounds |-> s]
  BY DEF Sound, Fine, Config
<1>0. s \in Seq(AnInbound) /\ ToSet(s) = A
  BY ListsTypes
<1>2. d \in Config
  BY <1>0, <1>1 DEF Sound, Fine, Config
<1>3. RulesIn(d) = RulesIn(c) /\ Tags(d) = Tags(c)
  BY <1>1 DEF RulesIn, Tags
<1>4. OutboundsFine(d) /\ RulesFine(d)
  BY <1>1, <1>3 DEF Sound, Fine, OutboundsFine, RulesFine
<1>5. InboundsFine(d)
  BY <1>0, <1>1 DEF InboundsFine
<1>6. Leads(d, {}) /\ Routed(d)
  BY <1>3 DEF Sound, Leads, Routed
<1> QED BY <1>2, <1>4, <1>5, <1>6 DEF Sound, Fine

\* The inbounds of a sound config, by index.
LEMMA InboundsAre ==
  ASSUME NEW c, Sound(c)
  PROVE  /\ Lists(c.inbounds, ToSet(c.inbounds), AnInbound, Beside)
         /\ DOMAIN c.inbounds = 1 .. Len(c.inbounds) /\ Len(c.inbounds) \in Nat
         /\ \A i \in 1 .. Len(c.inbounds) :
              /\ c.inbounds[i] \in AnInbound /\ c.inbounds[i] \in ToSet(c.inbounds)
              /\ c.inbounds[i].tag \in Reals \union Fronts /\ c.inbounds[i].port \in Ports /\ c.inbounds[i].look \in Looks
         /\ \A i, k \in 1 .. Len(c.inbounds) : i < k =>
              c.inbounds[i].tag # c.inbounds[k].tag /\ c.inbounds[i].port # c.inbounds[k].port
         /\ \E i \in 1 .. Len(c.inbounds) : c.inbounds[i].tag \in Reals
         /\ In(c) = {c.inbounds[i].tag : i \in 1 .. Len(c.inbounds)}
<1>1. Lists(c.inbounds, ToSet(c.inbounds), AnInbound, Beside) /\ \E x \in ToSet(c.inbounds) : x.tag \in Reals
  BY DEF Sound, Fine, InboundsFine
<1>2. /\ DOMAIN c.inbounds = 1 .. Len(c.inbounds) /\ Len(c.inbounds) \in Nat
      /\ \A i \in 1 .. Len(c.inbounds) : c.inbounds[i] \in AnInbound /\ c.inbounds[i] \in ToSet(c.inbounds)
      /\ \A i, k \in 1 .. Len(c.inbounds) : i < k => <<c.inbounds[i], c.inbounds[k]>> \in Beside
      /\ \A x \in ToSet(c.inbounds) : \E i \in 1 .. Len(c.inbounds) : x = c.inbounds[i]
  BY <1>1, ListsTypes
<1>3. \A i \in 1 .. Len(c.inbounds) :
        c.inbounds[i].tag \in Reals \union Fronts /\ c.inbounds[i].port \in Ports /\ c.inbounds[i].look \in Looks
  BY <1>2 DEF AnInbound
<1>4. \A i, k \in 1 .. Len(c.inbounds) : i < k =>
        c.inbounds[i].tag # c.inbounds[k].tag /\ c.inbounds[i].port # c.inbounds[k].port
  BY <1>2 DEF Beside
<1>5. In(c) = {c.inbounds[i].tag : i \in 1 .. Len(c.inbounds)}
  BY <1>2 DEF In
<1>6. \E i \in 1 .. Len(c.inbounds) : c.inbounds[i].tag \in Reals
  BY <1>1, <1>2
<1> QED BY <1>1, <1>2, <1>3, <1>4, <1>5, <1>6

\* The connection of a tag.
LEMMA InboundIs ==
  ASSUME NEW c, Sound(c), NEW tag \in In(c)
  PROVE  \E i \in 1 .. Len(c.inbounds) : c.inbounds[i].tag = tag /\ InboundOf(c, tag) = c.inbounds[i]
<1> DEFINE n == Len(c.inbounds)
           P == {i \in DOMAIN c.inbounds : c.inbounds[i].tag = tag}
           m == Min(P)
<1>1. n \in Nat /\ P \subseteq 1 .. n /\ P # {}
  BY InboundsAre
<1>2. m \in P
  <2> HIDE DEF n, P
  <2> QED BY <1>1, MinIs
<1>3. InboundOf(c, tag) = c.inbounds[m]
  BY DEF InboundOf
<1> QED BY <1>1, <1>2, <1>3

\* A new connection has a tag and a port of its own.
AnOffer == [kind : {Reals, Fronts}, port : Ports, look : Looks, host : Domains \union {Nothing}, caddy : BOOLEAN]

\* A connection on a free port keeps the config sound.
LEMMA AddedSound ==
  ASSUME Sound(config), NEW a \in AnOffer, a.port \notin PortsBeside(config, Nothing), FreeTags(config, a.kind) # {}
  PROVE  Sound(Added(a).config)
<1> DEFINE tag == NextTag(config, a.kind)
           x == Inbound(tag, a.port, a.look)
           n == Len(config.inbounds)
           A == ToSet(config.inbounds)
           s == Append(config.inbounds, x)
           d == [config EXCEPT !.inbounds = s]
<1>1. Added(a).config = d
  BY DEF Added, Yields
<1>2. tag \in FreeTags(config, a.kind)
  BY DEF NextTag
<1>3. tag \in Reals \union Fronts /\ tag \notin In(config)
  BY <1>2 DEF FreeTags, AnOffer
<1> HIDE DEF tag
<1>4. x \in AnInbound /\ x.tag = tag /\ x.port = a.port
  BY <1>3 DEF Inbound, AnInbound, AnOffer
<1> HIDE DEF x
<1>5. \A i \in 1 .. n : config.inbounds[i].port # a.port /\ config.inbounds[i].tag # tag
  <2>1. \A i \in 1 .. n : config.inbounds[i].tag # tag
    BY <1>3, InboundsAre
  <2>2. \A i \in 1 .. n : config.inbounds[i].tag # Nothing
    BY InboundsAre, ConnectionsAssumption
  <2>3. \A i \in 1 .. n : config.inbounds[i].port \in PortsBeside(config, Nothing)
    BY <2>2, InboundsAre DEF PortsBeside
  <2> QED BY <2>1, <2>3
<1>6. \A y \in A : <<y, x>> \in Beside
  <2> SUFFICES ASSUME NEW y \in A PROVE <<y, x>> \in Beside
    OBVIOUS
  <2>1. PICK i \in 1 .. n : y = config.inbounds[i]
    BY InboundsAre, ListsTypes
  <2>2. y \in AnInbound
    BY <2>1, InboundsAre
  <2> QED BY <1>4, <1>5, <2>1, <2>2 DEF Beside
<1>7. Lists(s, A \union {x}, AnInbound, Beside)
  <2> HIDE DEF A
  <2> QED BY <1>4, <1>6, InboundsAre, ListsAppend DEF A
<1>8. \E y \in A \union {x} : y.tag \in Reals
  BY InboundsAre
<1> DEFINE U == A \union {x}
<1> HIDE DEF U, s
<1>9. Lists(s, U, AnInbound, Beside) /\ \E y \in U : y.tag \in Reals
  BY <1>7, <1>8 DEF U
<1>10. Sound(d)
  BY <1>9, FineInbounds
<1> QED BY <1>1, <1>10

\* A connection changed in its place.
LEMMA ReplacedSound ==
  ASSUME NEW c, Sound(c), NEW x \in AnInbound, x.tag \in In(c), x.port \notin PortsBeside(c, x.tag)
  PROVE  Sound(Replaced(c, x))
<1> DEFINE n == Len(c.inbounds)
           f == [i \in DOMAIN c.inbounds |-> IF c.inbounds[i].tag = x.tag THEN x ELSE c.inbounds[i]]
           A == {f[i] : i \in 1 .. n}
           d == [c EXCEPT !.inbounds = f]
<1>1. Replaced(c, x) = d
  BY DEF Replaced
<1>2. n \in Nat /\ f \in [1 .. n -> AnInbound] /\ \A i \in 1 .. n : f[i].tag = c.inbounds[i].tag
  BY InboundsAre
<1>3. \A i \in 1 .. n : c.inbounds[i].tag # x.tag => c.inbounds[i].port # x.port
  BY InboundsAre DEF PortsBeside
<1>4. \A i \in 1 .. n : f[i] = IF c.inbounds[i].tag = x.tag THEN x ELSE c.inbounds[i]
  BY InboundsAre
<1>5. ASSUME NEW i \in 1 .. n, NEW k \in 1 .. n, i < k PROVE <<f[i], f[k]>> \in Beside
  <2>1. c.inbounds[i].tag # c.inbounds[k].tag /\ c.inbounds[i].port # c.inbounds[k].port
    BY <1>5, InboundsAre
  <2>2. f[i].port # f[k].port
    <3> HIDE DEF f
    <3> QED BY <1>3, <1>4, <2>1
  <2>3. f[i].tag # f[k].tag
    BY <1>2, <2>1
  <2>4. f[i] \in AnInbound /\ f[k] \in AnInbound
    <3> HIDE DEF f
    <3> QED BY <1>2
  <2> HIDE DEF f
  <2> QED BY <2>2, <2>3, <2>4 DEF Beside
<1>6. \E y \in A : y.tag \in Reals
  <2>1. PICK i \in 1 .. n : c.inbounds[i].tag \in Reals
    BY InboundsAre
  <2>2. f[i] \in A /\ f[i].tag \in Reals
    <3> HIDE DEF f
    <3> QED BY <1>2, <2>1
  <2> QED BY <2>2
<1>7. {f[i] : i \in 1 .. n} = A
  OBVIOUS
<1> HIDE DEF f, A
<1>8. Lists(f, A, AnInbound, Beside)
  BY <1>2, <1>5, <1>7, MadeLists
<1>9. Sound(d)
  BY <1>6, <1>8, FineInbounds
<1> QED BY <1>1, <1>9

\* What a change of a connection asks.
AnAsk ==
  [tag : Reals \union Fronts, port : Ports \union {Nothing}, look : Looks \union {Nothing}, host : Domains \union {Nothing}]

\* So does a change that keeps to a port of its own or a free one.
LEMMA ChangedSound ==
  ASSUME Sound(config), NEW a \in AnAsk, a.tag \in In(config), a.port \notin PortsBeside(config, a.tag)
  PROVE  Sound(Changed(a).config) /\ Sound(TrojanChanged(a).config)
<1> DEFINE y == InboundOf(config, a.tag)
           x == Becomes(a)
           n == Len(config.inbounds)
<1>1. PICK i \in 1 .. n : config.inbounds[i].tag = a.tag /\ y = config.inbounds[i]
  BY InboundIs
<1>2. y.port \in Ports /\ y.look \in Looks /\ y.tag = a.tag
  BY <1>1, InboundsAre
<1>3. x = Inbound(a.tag, IF a.port = Nothing THEN y.port ELSE a.port, IF a.look = Nothing THEN y.look ELSE a.look)
  BY DEF Becomes
<1> HIDE DEF y, x
<1>4. x \in AnInbound /\ x.tag = a.tag /\ x.port = IF a.port = Nothing THEN y.port ELSE a.port
  BY <1>2, <1>3 DEF Inbound, AnInbound, AnAsk
<1>5. x.port \notin PortsBeside(config, x.tag)
  <2>1. ASSUME NEW k \in 1 .. n, config.inbounds[k].tag # a.tag PROVE config.inbounds[k].port # y.port
    <3>1. k # i
      BY <1>1, <2>1
    <3>2. k < i \/ i < k
      BY <3>1, InboundsAre
    <3> QED BY <1>1, <3>2, InboundsAre
  <2>2. \A k \in 1 .. n : config.inbounds[k].tag # a.tag => config.inbounds[k].port # a.port
    BY InboundsAre DEF PortsBeside
  <2>3. \A k \in 1 .. n : config.inbounds[k].tag # a.tag => config.inbounds[k].port # x.port
    BY <1>4, <2>1, <2>2
  <2> QED BY <1>4, <2>3, InboundsAre DEF PortsBeside
<1>6. Sound(Replaced(config, x))
  BY <1>4, <1>5, ReplacedSound
<1>7. Changed(a).config = Replaced(config, x) /\ TrojanChanged(a).config = Replaced(config, x)
  BY DEF Changed, TrojanChanged, Yields, x
<1> QED BY <1>6, <1>7

\* The last Reality connection stays.
LEMMA RemovedSound ==
  ASSUME Sound(config), NEW a, a.tag \in Reals => Cardinality(RealsIn(config)) > 1
  PROVE  Sound(Removed(a).config)
<1> DEFINE n == Len(config.inbounds)
           A == ToSet(config.inbounds)
           S == {x \in A : x.tag # a.tag}
           s == Only(config.inbounds, S)
           d == [config EXCEPT !.inbounds = s]
<1>1. Removed(a).config = d
  BY DEF Removed, Yields
<1>2. Lists(s, A \intersect S, AnInbound, Beside)
  <2> HIDE DEF A, S
  <2> QED BY InboundsAre, ListsOnly DEF A
<1>3. A \intersect S = S
  OBVIOUS
<1>4. \E y \in S : y.tag \in Reals
  <2>1. PICK i \in 1 .. n : config.inbounds[i].tag \in Reals
    BY InboundsAre
  <2>2. CASE config.inbounds[i].tag # a.tag
    BY <2>1, <2>2, InboundsAre
  <2>3. CASE config.inbounds[i].tag = a.tag
    <3> SUFFICES ASSUME \A k \in 1 .. n : config.inbounds[k].tag \in Reals => config.inbounds[k].tag = a.tag PROVE FALSE
      BY InboundsAre
    <3>1. \A k \in RealsIn(config) : k = i
      <4> SUFFICES ASSUME NEW k \in RealsIn(config), k # i PROVE FALSE
        OBVIOUS
      <4>1. k \in 1 .. n /\ config.inbounds[k].tag = config.inbounds[i].tag
        BY <2>3, InboundsAre DEF RealsIn
      <4>2. k < i \/ i < k
        BY <4>1, InboundsAre
      <4> QED BY <4>1, <4>2, InboundsAre
    <3>2. i \in RealsIn(config)
      BY <2>1, InboundsAre DEF RealsIn
    <3>3. RealsIn(config) = {i}
      BY <3>1, <3>2
    <3>4. Cardinality(RealsIn(config)) = 1
      BY <3>3, FS_Singleton
    <3> QED BY <2>1, <2>3, <3>4
  <2> QED BY <2>2, <2>3
<1> HIDE DEF s, S
<1>5. Lists(s, S, AnInbound, Beside)
  BY <1>2, <1>3
<1>6. Sound(d)
  BY <1>4, <1>5, FineInbounds
<1> QED BY <1>1, <1>6

\* The rules of the clients are put right.
LEMMA SettledSound ==
  ASSUME StoresFine, NEW c, Sound(c)
  PROVE  Sound(Settled(c)) /\ Defaults(c, choice) \in ClientChoices
<1>1. /\ Defaults(c, choice) \in ClientChoices
      /\ Active(c) # Nothing => \A x \in Clients : Defaults(c, choice)[x] \in Cascades \intersect Tags(c)
  BY DefaultsFine DEF StoresFine, Sound
<1>2. Sound(ClientRules(c, Defaults(c, choice)))
  BY <1>1, ClientsSound DEF Sound
<1> QED BY <1>1, <1>2 DEF Settled

-----------------------------------------------------------------------------
\* A list of two.
LEMMA ListsTwo ==
  ASSUME NEW T, NEW R, NEW x \in T, NEW y \in T, <<x, y>> \in R
  PROVE  Lists(<<x, y>>, ToSet(<<x, y>>), T, R) /\ Heads(<<x, y>>, x) /\ ToSet(<<x, y>>) = {x, y}
<1> DEFINE s == <<x, y>>
<1>1. s \in Seq(T) /\ Len(s) = 2 /\ s[1] = x /\ s[2] = y /\ s # <<>> /\ DOMAIN s = {1, 2}
  OBVIOUS
<1>2. ToSet(s) = {s[i] : i \in {1, 2}}
  BY <1>1 DEF ToSet
<1>3. ToSet(s) = {x, y}
  BY <1>2
<1> HIDE DEF s
<1>4. Ordered(s, T, R)
  BY <1>1 DEF Ordered
<1> QED BY <1>1, <1>3, <1>4 DEF Lists, Heads, s

\* A server as it is installed.
LEMMA FreshSound ==
         Sound(FreshServer)
<1> DEFINE c == FreshServer
           o1 == [tag |-> "direct", as |-> "direct"]
           o2 == [tag |-> "blocked", as |-> "blocked"]
<1>1. Start.tag = Default /\ Start.port \in Ports /\ Start.look \in Looks /\ Start \in AnInbound
  <2>1. Ports # {} /\ Looks # {} /\ Default \in Reals
    BY ConnectionsAssumption
  <2> QED BY <2>1 DEF Start, Inbound, AnInbound
<1>2. StartFront \in AnInbound /\ <<Start, StartFront>> \in Beside
  <2>1. Ports \ {Start.port} # {} /\ Fronts # {} /\ Reals \intersect Fronts = {} /\ Default \in Reals
    BY ConnectionsAssumption
  <2> HIDE DEF c
  <2>2. StartFront.tag \in Fronts /\ StartFront.port \in Ports \ {Start.port} /\ StartFront.look = Start.look
    BY <2>1 DEF StartFront, Inbound
  <2>3. StartFront \in AnInbound
    BY <1>1, <2>1 DEF StartFront, Inbound, AnInbound
  <2>4. StartFront.tag # Start.tag
    BY <1>1, <2>1, <2>2
  <2> QED BY <1>1, <2>2, <2>3, <2>4 DEF Beside
<1>3. c.outbounds = <<o1, o2>> /\ c.rules = <<>> /\ c.strategy = Own /\ c.inbounds = <<Start, StartFront>>
      /\ c = [outbounds |-> <<o1, o2>>, rules |-> <<>>, strategy |-> Own, inbounds |-> <<Start, StartFront>>]
  BY DEF FreshServer, FreshRouting
<1>4. o1 \in AnOutbound /\ o2 \in AnOutbound /\ <<o1, o2>> \in Apart /\ o1 = Direct /\ o2.tag = "blocked"
  BY DEF AnOutbound, Named, Settings, Apart, Direct
<1> HIDE DEF c
<1>6. Lists(<<Start, StartFront>>, ToSet(<<Start, StartFront>>), AnInbound, Beside) /\ ToSet(<<Start, StartFront>>) = {Start, StartFront}
  BY <1>1, <1>2, ListsTwo
<1>7. InboundsFine(c)
  <2>1. Start \in ToSet(c.inbounds) /\ Start.tag \in Reals
    BY <1>1, <1>3, <1>6, ConnectionsAssumption
  <2> QED BY <1>3, <1>6, <2>1 DEF InboundsFine
<1> HIDE DEF o1, o2
<1>8. Lists(<<o1, o2>>, ToSet(<<o1, o2>>), AnOutbound, Apart) /\ ToSet(<<o1, o2>>) = {o1, o2} /\ Heads(<<o1, o2>>, o1)
  BY <1>4, ListsTwo
<1>9. OutboundsFine(c)
  <2>1. "blocked" \in Tags(c)
    <3>1. DOMAIN c.outbounds = {1, 2} /\ c.outbounds[2] = o2
      BY <1>3
    <3> QED BY <1>4, <3>1 DEF Tags
  <2> QED BY <1>3, <1>4, <1>8, <2>1 DEF OutboundsFine
<1>10. RulesIn(c) = {}
  BY <1>3 DEF RulesIn, ToSet
<1>11. RulesFine(c)
  <2>1. Lists(<<>>, {}, ARule, Fits)
    BY OrderedEmpty DEF Lists
  <2> QED BY <1>3, <1>10, <2>1 DEF RulesFine
<1>12. c \in Config
  <2>1. <<o1, o2>> \in Seq(AnOutbound) /\ <<>> \in Seq(ARule) /\ <<Start, StartFront>> \in Seq(AnInbound)
    BY <1>1, <1>2, <1>4
  <2> QED BY <1>3, <2>1 DEF Config
<1> QED BY <1>7, <1>9, <1>10, <1>11, <1>12 DEF Sound, Fine, Leads, Routed, c

-----------------------------------------------------------------------------
(***************************************************************************)
(* Sound configs are as the runs ask.                                      *)
(***************************************************************************)
\* The places of the rules of two kinds.
LEMMA RulesOrder ==
  ASSUME NEW c, Fine(c), NEW i \in DOMAIN c.rules, NEW k \in DOMAIN c.rules,
         \/ c.rules[i].kind \in {"torrent", "block"} /\ c.rules[k].kind \in {"warning", "client", "catchall"}
         \/ c.rules[i].kind = "warning" /\ c.rules[k].kind \in {"client", "catchall"}
  PROVE  i < k
<1>1. i \in 1 .. Len(c.rules) /\ k \in 1 .. Len(c.rules) /\ Len(c.rules) \in Nat
  BY RulesAre
<1>2. i # k
  OBVIOUS
<1>3. ASSUME k < i PROVE FALSE
  <2>1. <<c.rules[k], c.rules[i]>> \in Fits
    BY <1>1, <1>3, RulesAre
  <2> QED BY <2>1 DEF Fits
<1> QED BY <1>1, <1>2, <1>3

\* A fine config has one catchall.
LEMMA OneCatchall ==
  ASSUME NEW c, Fine(c), NEW i \in DOMAIN c.rules, NEW k \in DOMAIN c.rules,
         c.rules[i].kind = "catchall", c.rules[k].kind = "catchall"
  PROVE  i = k
<1>1. i \in 1 .. Len(c.rules) /\ k \in 1 .. Len(c.rules) /\ Len(c.rules) \in Nat
  BY RulesAre
<1>2. ASSUME k < i PROVE FALSE
  <2>1. <<c.rules[k], c.rules[i]>> \in Fits
    BY <1>1, <1>2, RulesAre
  <2> QED BY <2>1 DEF Fits
<1>3. ASSUME i < k PROVE FALSE
  <2>1. <<c.rules[i], c.rules[k]>> \in Fits
    BY <1>1, <1>3, RulesAre
  <2> QED BY <2>1 DEF Fits
<1> QED BY <1>1, <1>2, <1>3

\* Sound implies what Routing asks of config.json.
LEMMA SoundRoutes ==
  ASSUME NEW c, Sound(c)
  PROVE  RoutesSound(c)
<1> DEFINE R == DOMAIN c.rules
           K(k) == {i \in R : c.rules[i].kind = k}
<1>1. Fine(c) /\ Leads(c, {}) /\ Routed(c)
  BY DEF Sound
<1>2. c.outbounds[1].tag = "direct" /\ "blocked" \in Tags(c)
  BY <1>1 DEF Fine, OutboundsFine, Heads, Direct
<1>3. \A i, k \in DOMAIN c.outbounds : c.outbounds[i].tag = c.outbounds[k].tag => i = k
  <2> SUFFICES ASSUME NEW i \in DOMAIN c.outbounds, NEW k \in DOMAIN c.outbounds,
                      c.outbounds[i].tag = c.outbounds[k].tag
               PROVE  i = k
    OBVIOUS
  <2>1. /\ DOMAIN c.outbounds = 1 .. Len(c.outbounds) /\ Len(c.outbounds) \in Nat
        /\ \A x, y \in 1 .. Len(c.outbounds) : x < y => <<c.outbounds[x], c.outbounds[y]>> \in Apart
    BY <1>1, ListsTypes DEF Fine, OutboundsFine
  <2>2. \A x, y \in 1 .. Len(c.outbounds) : x < y => c.outbounds[x].tag # c.outbounds[y].tag
    BY <2>1 DEF Apart
  <2>3. ~(i < k) /\ ~(k < i)
    BY <2>1, <2>2
  <2> QED BY <2>1, <2>3
<1>4. Cardinality(K("catchall")) <= 1
  <2> DEFINE C == K("catchall")
  <2>1. \A i, k \in C : i = k
    BY <1>1, OneCatchall
  <2> HIDE DEF C
  <2>2. CASE C = {}
    BY <2>2, FS_EmptySet DEF C
  <2>3. CASE C # {}
    <3>1. PICK i \in C : TRUE
      BY <2>3
    <3>2. C = {i}
      BY <2>1, <3>1
    <3>3. Cardinality(C) = 1
      BY <3>2, FS_Singleton
    <3> QED BY <3>3 DEF C
  <2> QED BY <2>2, <2>3
<1>5. \A i \in R \ K("probe") : c.rules[i].to \in Tags(c)
  <2> SUFFICES ASSUME NEW i \in R, c.rules[i].kind # "probe" PROVE c.rules[i].to \in Tags(c)
    OBVIOUS
  <2>1. c.rules[i] \in RulesIn(c)
    BY <1>1, RulesAre
  <2> QED BY <1>1, <2>1 DEF Leads
<1>6. K("client") # {} => Active(c) # Nothing
  <2> SUFFICES ASSUME NEW i \in R, c.rules[i].kind = "client" PROVE Active(c) # Nothing
    OBVIOUS
  <2>1. c.rules[i] \in RulesIn(c)
    BY <1>1, RulesAre
  <2>2. PICK r \in RulesIn(c) : r.kind = "catchall" /\ r.to \in Cascades
    BY <1>1, <2>1 DEF Routed
  <2>3. r.to \in Tags(c)
    BY <1>1, <2>2 DEF Leads
  <2> QED BY <1>1, <2>2, <2>3, ActiveIs
<1>7. \A i \in K("torrent") \union K("block"), k \in K("warning") \union K("client") \union K("catchall") : i < k
  BY <1>1, RulesOrder
<1>8. \A i \in K("warning"), k \in K("client") \union K("catchall") : i < k
  BY <1>1, RulesOrder
<1> QED BY <1>2, <1>3, <1>4, <1>5, <1>6, <1>7, <1>8 DEF RoutesSound

\* Sound implies what Connections asks of it.
LEMMA SoundInbounds ==
  ASSUME NEW c, Sound(c)
  PROVE  InboundsSound(c)
<1>1. RealsIn(c) # {}
  BY InboundsAre DEF RealsIn
<1>2. ASSUME NEW i \in DOMAIN c.inbounds, NEW k \in DOMAIN c.inbounds, i # k
      PROVE  c.inbounds[i].tag # c.inbounds[k].tag /\ c.inbounds[i].port # c.inbounds[k].port
  <2>1. i \in 1 .. Len(c.inbounds) /\ k \in 1 .. Len(c.inbounds) /\ Len(c.inbounds) \in Nat /\ (i < k \/ k < i)
    BY <1>2, InboundsAre
  <2> QED BY <2>1, InboundsAre
<1> QED BY <1>1, <1>2 DEF InboundsSound

-----------------------------------------------------------------------------
(***************************************************************************)
(* Plans: every step finds what it uses.                                   *)
(***************************************************************************)
\* Whatever step of uses is left in a plan, the value it takes is good by then: some step
\* of makes comes before it and no step of resets between them, or the value is good
\* now and no step of resets comes before.
Guarded(plan, uses, makes, resets, good) ==
  \A k \in DOMAIN plan : plan[k] \in uses =>
    \/ \E i \in 1 .. k - 1 : plan[i] \in makes /\ \A m \in i + 1 .. k - 1 : plan[m] \notin resets
    \/ good /\ \A m \in 1 .. k - 1 : plan[m] \notin resets

\* Some step of steps is left.
Left(plan, steps) == \E k \in DOMAIN plan : plan[k] \in steps

\* The steps that put an archive in place.
PlaceSteps == {"place config", "place env", "place db", "place sites", "serve sites", "start"}
\* The steps of the updates that a failure takes back.
UpdateSteps == {"place bin", "place geo", "restart", "place source", "place wrappers", "rename old", "rename new", "sync", "validate"}
\* The steps of the SSH login.
SshSteps == {"dropin", "include", "legacy", "ask sshd", "reload sshd", "back include", "back dropin", "back legacy"}
\* The steps that set something else aside.
KeptSteps == {"put", "extract", "seek", "keep", "set aside", "end copy", "choose", "texts"}
\* The steps that note something else in rows.
RowsSteps == {"read", "list", "act"}

\* The steps that take a value the command has in hand, and the others.
Uses == {"load", "save", "try", "commit", "undo", "unprobe", "serve", "rows", "env", "probe", "read db", "halt", "copy server"}
        \union PlaceSteps
\* The steps that take no value in hand.
Others ==
  UpdateSteps \union SshSteps \union KeptSteps \union RowsSteps \union
  {"redo", "absent", "accept", "archive", "describe", "fetch", "note", "obtain", "begin copy", "reply", "read files", "ready",
   "reload old", "resume", "run", "clear", "take back", "reload", "uncommit", "record"}
\* Every step.
Names == Uses \union Others

\* The plan after its first step.
LEMMA TailIs ==
  ASSUME NEW plan \in Seq(Names), plan # <<>>
  PROVE  /\ Tail(plan) \in Seq(Names) /\ Len(Tail(plan)) = Len(plan) - 1
         /\ DOMAIN Tail(plan) = 1 .. Len(plan) - 1 /\ DOMAIN plan = 1 .. Len(plan)
         /\ \A k \in 1 .. Len(plan) - 1 : Tail(plan)[k] = plan[k + 1]
         /\ Head(plan) = plan[1] /\ 1 \in DOMAIN plan /\ Len(plan) \in Nat
  OBVIOUS

\* A guarded plan stays guarded after its first step.
LEMMA GuardedTail ==
  ASSUME NEW plan \in Seq(Names), plan # <<>>, NEW uses, NEW makes, NEW resets, NEW P \in BOOLEAN, NEW Q \in BOOLEAN,
         Guarded(plan, uses, makes, resets, P),
         Head(plan) \in makes => Q,
         Head(plan) \notin makes /\ Head(plan) \notin resets /\ P => Q
  PROVE  Guarded(Tail(plan), uses, makes, resets, Q)
<1> DEFINE t == Tail(plan)
<1>1. /\ DOMAIN t = 1 .. Len(plan) - 1 /\ DOMAIN plan = 1 .. Len(plan) /\ Len(plan) \in Nat
      /\ \A k \in 1 .. Len(plan) - 1 : t[k] = plan[k + 1]
      /\ Head(plan) = plan[1]
  BY TailIs
<1> HIDE DEF t
<1> SUFFICES ASSUME NEW k \in DOMAIN t, t[k] \in uses
             PROVE  \/ \E i \in 1 .. k - 1 : t[i] \in makes /\ \A m \in i + 1 .. k - 1 : t[m] \notin resets
                    \/ Q /\ \A m \in 1 .. k - 1 : t[m] \notin resets
  BY DEF Guarded, t
<1>2. k + 1 \in DOMAIN plan /\ plan[k + 1] \in uses /\ k \in 1 .. Len(plan) - 1
  BY <1>1
<1>3. \/ \E i \in 1 .. (k + 1) - 1 : plan[i] \in makes /\ \A m \in i + 1 .. (k + 1) - 1 : plan[m] \notin resets
      \/ P /\ \A m \in 1 .. (k + 1) - 1 : plan[m] \notin resets
  BY <1>2 DEF Guarded
<1>4. CASE \E i \in 1 .. (k + 1) - 1 : plan[i] \in makes /\ \A m \in i + 1 .. (k + 1) - 1 : plan[m] \notin resets
  <2>1. PICK i \in 1 .. k : plan[i] \in makes /\ \A m \in i + 1 .. k : plan[m] \notin resets
    BY <1>4, <1>2
  <2>2. \A m \in i .. k - 1 : t[m] \notin resets
    <3> TAKE m \in i .. k - 1
    <3>1. m \in 1 .. Len(plan) - 1 /\ m + 1 \in i + 1 .. k
      BY <1>2
    <3> QED BY <3>1, <2>1, <1>1
  <2>3. CASE i = 1
    BY <2>1, <2>2, <2>3, <1>1
  <2>4. CASE i # 1
    <3>1. i - 1 \in 1 .. k - 1 /\ i - 1 \in 1 .. Len(plan) - 1 /\ (i - 1) + 1 = i
      BY <2>4, <1>2
    <3>2. t[i - 1] \in makes
      BY <3>1, <2>1, <1>1
    <3> QED BY <3>1, <3>2, <2>2
  <2> QED BY <2>3, <2>4
<1>5. CASE P /\ \A m \in 1 .. (k + 1) - 1 : plan[m] \notin resets
  <2>1. \A m \in 1 .. k - 1 : t[m] \notin resets
    <3> TAKE m \in 1 .. k - 1
    <3>1. m \in 1 .. Len(plan) - 1 /\ m + 1 \in 1 .. (k + 1) - 1
      BY <1>2
    <3> QED BY <3>1, <1>5, <1>1
  <2>2. Head(plan) \notin resets
    BY <1>1, <1>2, <1>5
  <2> QED BY <2>1, <2>2, <1>5
<1> QED BY <1>3, <1>4, <1>5

\* The first step of a guarded plan finds its value good.
LEMMA GuardedHead ==
  ASSUME NEW plan \in Seq(Names), plan # <<>>, NEW uses, NEW makes, NEW resets, NEW P \in BOOLEAN,
         Guarded(plan, uses, makes, resets, P), Head(plan) \in uses
  PROVE  P
<1>1. 1 \in DOMAIN plan /\ Head(plan) = plan[1]
  BY TailIs
<1> QED BY <1>1 DEF Guarded

\* What is left later was left before.
LEMMA LeftTail ==
  ASSUME NEW plan \in Seq(Names), plan # <<>>, NEW steps
  PROVE  (Left(Tail(plan), steps) => Left(plan, steps)) /\ (Head(plan) \in steps => Left(plan, steps))
<1> DEFINE t == Tail(plan)
<1>1. /\ DOMAIN t = 1 .. Len(plan) - 1 /\ DOMAIN plan = 1 .. Len(plan) /\ Len(plan) \in Nat
      /\ \A k \in 1 .. Len(plan) - 1 : t[k] = plan[k + 1]
      /\ Head(plan) = plan[1] /\ 1 \in DOMAIN plan
  BY TailIs
<1> HIDE DEF t
<1>2. ASSUME NEW k \in DOMAIN t, t[k] \in steps PROVE Left(plan, steps)
  <2>1. k + 1 \in DOMAIN plan /\ plan[k + 1] = t[k]
    BY <1>1
  <2> QED BY <2>1, <1>2 DEF Left
<1> QED BY <1>1, <1>2 DEF Left, t

\* A plan without the steps that use a value is guarded.
LEMMA Away ==
  ASSUME NEW S, NEW plan \in Seq(S), NEW uses, S \intersect uses = {}
  PROVE  ~Left(plan, uses) /\ \A m, r, P : Guarded(plan, uses, m, r, P)
  BY DEF Left, Guarded

\* A sequence over a subset.
LEMMA SeqIn ==
  ASSUME NEW S, NEW T, S \subseteq T, NEW plan \in Seq(S)
  PROVE  plan \in Seq(T)
  OBVIOUS

\* The steps that use a value and the others.
LEMMA Apartness ==
         /\ Others \intersect (Uses \ {"serve"}) = {} /\ "serve" \notin Others
         /\ Uses \subseteq Names /\ Others \subseteq Names
  BY DEF Uses, Others, Names, PlaceSteps, UpdateSteps, SshSteps, KeptSteps, RowsSteps

\* Plans one after the other.
LEMMA ConcatIn ==
  ASSUME NEW S, NEW s \in Seq(S), NEW t \in Seq(S)
  PROVE  s \o t \in Seq(S)
  OBVIOUS

\* A plan after two steps.
LEMMA AfterTwo ==
  ASSUME NEW S, NEW t \in Seq(S), NEW x, NEW y
  PROVE  /\ DOMAIN (<<x, y>> \o t) = 1 .. Len(t) + 2 /\ Len(t) \in Nat
         /\ (<<x, y>> \o t)[1] = x /\ (<<x, y>> \o t)[2] = y
         /\ \A i \in 3 .. Len(t) + 2 : (<<x, y>> \o t)[i] \in S
<1> DEFINE s == <<x, y>>
           U == {x, y} \union S
<1>1. Len(s) = 2 /\ s[1] = x /\ s[2] = y
  OBVIOUS
<1>2. s \in Seq(U)
  OBVIOUS
<1>3. S \subseteq U
  OBVIOUS
<1> HIDE DEF s, U
<1>4. t \in Seq(U) /\ Len(t) \in Nat /\ \A i \in 1 .. Len(t) : t[i] \in S
  BY <1>3, SeqIn
<1>5. s \o t \in Seq(U) /\ Len(s \o t) = Len(s) + Len(t)
      /\ \A i \in 1 .. Len(s) + Len(t) : (s \o t)[i] = IF i <= Len(s) THEN s[i] ELSE t[i - Len(s)]
  BY <1>2, <1>4, ConcatProperties
<1>6. DOMAIN (s \o t) = 1 .. Len(t) + 2
  BY <1>1, <1>4, <1>5
<1>7. (s \o t)[1] = x /\ (s \o t)[2] = y
  BY <1>1, <1>4, <1>5
<1>8. \A i \in 3 .. Len(t) + 2 : (s \o t)[i] = t[i - 2] /\ i - 2 \in 1 .. Len(t)
  BY <1>1, <1>4, <1>5
<1> QED BY <1>4, <1>6, <1>7, <1>8 DEF s

\* The fields of a job.
Fields == {"op", "arg", "locked", "plan", "back", "in", "was", "new", "rows", "env", "kept"}

\* The commands of the bypass routes.
BypassOps == {"bypass add", "bypass enable", "bypass region", "bypass disable", "bypass remove"}
\* The commands of the blocklist, the timer's one among them.
BlockOps == {"block", "unblock", "reconcile"}
\* A sound archive.
ArchiveFine(a) ==
  /\ DOMAIN a = {"config", "env", "sites", "db"} /\ DOMAIN a.db = {"records", "choice", "routes", "blocks"}
  /\ Usable(a.config) /\ EnvFine(a.env) /\ a.db.choice \in ClientChoices /\ a.db.routes \in RouteRows

\* The outbounds a temporary inbound is led to.
Probed == Cascades \union Bypasses \union {"warp"}

\* What a command was asked is of its kind.
ArgFine(op, arg) ==
  /\ op \in {"cascade add", "cascade use", "cascade remove"} => arg \in Cascades
  /\ op \in BypassOps => arg.tag \in Bypasses /\ arg.region \in Regions
  /\ op = "watch" => arg \in Regions
  /\ op = "torrents" => arg \in BOOLEAN
  /\ op = "warp disable" => arg \in Probed
  /\ op = "connection add" => arg \in AnOffer
  /\ op \in ConnectionOps \ {"connection add"} => arg \in AnAsk
  /\ op = "restore" => ArchiveFine(arg)

\* How apply_config puts back.
Rolls == <<"undo", "redo">>

\* The config to write is sound, and the one to put back, when there is one.
NewFine(j) == Sound(j.new) /\ (j.was = Nothing \/ Usable(j.was))
\* The config to put back is there and sound.
WasFine(j) == Usable(j.was)
\* What will be stored in manager.db is of its kind.
RowsFine(j) == j.rows.choice \in ClientChoices /\ (j.op \in RoutingOps => j.rows.routes \in RouteRows)
\* What will be stored in server.env is of its kind.
EnvGood(j) == EnvFine(j.env)
\* The blocks that were read.
ActiveFine(j) == j.rows.active \in SUBSET Targets
\* The snapshot that was set aside is sound.
KeptFine(j) == ArchiveFine(j.kept)

\* What a command that fails puts back is known.
RollsBack(j) == j.back = Rolls /\ (j.was = Nothing \/ Usable(j.was))

\* The steps that put back what the command wrote.
WasSteps(op) == {"try", "commit", "undo", "unprobe"} \union IF op = "trojan update" THEN {"serve"} ELSE {}
\* The load of a command of the blocklist uses what it read.
ReadSteps(op) == IF op \in BlockOps THEN {"load"} ELSE {}

\* A list of steps with which nothing is written into config.json, the rows or server.env.
Harmless(plan) == plan \in Seq(Others)
\* What a restore falls back to puts an archive in place.
BackPlaces(back) == \A k \in DOMAIN back : back[k] \in PlaceSteps \union {"resume"}

\* What is left of a plan finds what it needs.
PlanFine(j, plan) ==
  /\ Guarded(plan, {"save"}, {"load"}, {}, NewFine(j))
  /\ Guarded(plan, WasSteps(j.op), {"save", "probe"}, {"load", "unprobe"}, WasFine(j))
  /\ Guarded(plan, {"rows", "commit"}, {"load"}, RowsSteps, RowsFine(j))
  /\ Guarded(plan, {"env"}, {"load"}, {}, EnvGood(j))
  /\ Guarded(plan, ReadSteps(j.op), {"read"}, {"load", "list", "act"}, ActiveFine(j))
  /\ Guarded(plan, PlaceSteps \union {"read db"}, {"copy server", "read files"}, KeptSteps, KeptFine(j))
  /\ Left(plan, {"probe"}) => j.arg \in Probed
  /\ Left(plan, {"load", "try", "commit"}) => RollsBack(j)
  /\ Left(plan, {"halt", "copy server"} \union PlaceSteps) => j.op = "restore" /\ BackPlaces(j.back)
  /\ Left(plan, UpdateSteps \union SshSteps) => Harmless(j.back)

\* A process has a plan in order.
JobFine(j) ==
  /\ DOMAIN j = Fields
  /\ j.plan \in Seq(Names) /\ j.back \in Seq(Names)
  /\ ArgFine(j.op, j.arg)
  /\ PlanFine(j, j.plan)

\* config.json, the archive and the stores are sound.
StateFine ==
  /\ Usable(config) /\ StoresFine
  /\ saved = Nothing \/ ArchiveFine(saved)

\* Every process has a plan in order.
JobsFine == DOMAIN job = Procs /\ \A p \in Procs : JobFine(job[p])

\* The conditions are truth values.
LEMMA AllBoolean ==
  ASSUME NEW j
  PROVE  /\ NewFine(j) \in BOOLEAN /\ WasFine(j) \in BOOLEAN /\ RowsFine(j) \in BOOLEAN /\ EnvGood(j) \in BOOLEAN
         /\ ActiveFine(j) \in BOOLEAN /\ KeptFine(j) \in BOOLEAN
  BY DEF NewFine, WasFine, RowsFine, EnvGood, ActiveFine, KeptFine, Usable, Sound, EnvFine, ArchiveFine

\* The next step, with what this one prepared.
LEMMA NextFine ==
  ASSUME NEW j, JobFine(j), j.plan # <<>>, NEW k, DOMAIN k = Fields,
         k.op = j.op, k.arg = j.arg, k.plan = Tail(j.plan), k.back = j.back,
         NEW h, h = Head(j.plan),
         h = "load" => NewFine(k) /\ RowsFine(k) /\ EnvGood(k),
         h # "load" => k.new = j.new /\ k.env = j.env,
         h \in {"save", "probe"} => WasFine(k),
         h = "unprobe" => k.was = j.was \/ k.was = Nothing,
         h \notin {"save", "probe", "load", "unprobe"} => k.was = j.was,
         h \notin {"load", "read", "list", "act"} => k.rows = j.rows,
         h = "read" => ActiveFine(k),
         h \in {"copy server", "read files"} => KeptFine(k),
         h \notin {"copy server", "read files"} \union KeptSteps => k.kept = j.kept
  PROVE  JobFine(k)
<1> DEFINE t == Tail(j.plan)
<1>1. j.plan \in Seq(Names) /\ t \in Seq(Names)
  BY TailIs DEF JobFine
<1>2. PlanFine(j, j.plan)
  BY DEF JobFine
<1> HIDE DEF t
<1>3. Guarded(t, {"save"}, {"load"}, {}, NewFine(k))
  <2>1. Guarded(j.plan, {"save"}, {"load"}, {}, NewFine(j))
    BY <1>2 DEF PlanFine
  <2>2. (h = "load" => NewFine(k)) /\ (h # "load" /\ NewFine(j) => NewFine(k))
    BY DEF NewFine, WasFine
  <2>3. NewFine(j) \in BOOLEAN /\ NewFine(k) \in BOOLEAN
    BY AllBoolean
  <2> QED BY <1>1, <2>1, <2>2, <2>3, GuardedTail DEF t
<1>4. Guarded(t, WasSteps(k.op), {"save", "probe"}, {"load", "unprobe"}, WasFine(k))
  <2>1. Guarded(j.plan, WasSteps(j.op), {"save", "probe"}, {"load", "unprobe"}, WasFine(j))
    BY <1>2 DEF PlanFine
  <2>2. h \notin {"save", "probe"} /\ h \notin {"load", "unprobe"} /\ WasFine(j) => WasFine(k)
    BY DEF WasFine
  <2>3. WasFine(j) \in BOOLEAN /\ WasFine(k) \in BOOLEAN
    BY AllBoolean
  <2> QED BY <1>1, <2>1, <2>2, <2>3, GuardedTail DEF t
<1>5. Guarded(t, {"rows", "commit"}, {"load"}, RowsSteps, RowsFine(k))
  <2>1. Guarded(j.plan, {"rows", "commit"}, {"load"}, RowsSteps, RowsFine(j))
    BY <1>2 DEF PlanFine
  <2>2. h # "load" /\ h \notin RowsSteps /\ RowsFine(j) => RowsFine(k)
    BY DEF RowsFine, RowsSteps
  <2>3. RowsFine(j) \in BOOLEAN /\ RowsFine(k) \in BOOLEAN
    BY AllBoolean
  <2> QED BY <1>1, <2>1, <2>2, <2>3, GuardedTail DEF t
<1>6. Guarded(t, {"env"}, {"load"}, {}, EnvGood(k))
  <2>1. Guarded(j.plan, {"env"}, {"load"}, {}, EnvGood(j))
    BY <1>2 DEF PlanFine
  <2>2. h # "load" /\ EnvGood(j) => EnvGood(k)
    BY DEF EnvGood
  <2>3. EnvGood(j) \in BOOLEAN /\ EnvGood(k) \in BOOLEAN
    BY AllBoolean
  <2> QED BY <1>1, <2>1, <2>2, <2>3, GuardedTail DEF t
<1>7. Guarded(t, ReadSteps(k.op), {"read"}, {"load", "list", "act"}, ActiveFine(k))
  <2>1. Guarded(j.plan, ReadSteps(j.op), {"read"}, {"load", "list", "act"}, ActiveFine(j))
    BY <1>2 DEF PlanFine
  <2>2. h # "read" /\ h \notin {"load", "list", "act"} /\ ActiveFine(j) => ActiveFine(k)
    BY DEF ActiveFine
  <2>3. ActiveFine(j) \in BOOLEAN /\ ActiveFine(k) \in BOOLEAN
    BY AllBoolean
  <2> QED BY <1>1, <2>1, <2>2, <2>3, GuardedTail DEF t
<1>8. Guarded(t, PlaceSteps \union {"read db"}, {"copy server", "read files"}, KeptSteps, KeptFine(k))
  <2>1. Guarded(j.plan, PlaceSteps \union {"read db"}, {"copy server", "read files"}, KeptSteps, KeptFine(j))
    BY <1>2 DEF PlanFine
  <2>2. h \notin {"copy server", "read files"} /\ h \notin KeptSteps /\ KeptFine(j) => KeptFine(k)
    BY DEF KeptFine
  <2>3. KeptFine(j) \in BOOLEAN /\ KeptFine(k) \in BOOLEAN
    BY AllBoolean
  <2> QED BY <1>1, <2>1, <2>2, <2>3, GuardedTail DEF t
<1>9. /\ Left(t, {"probe"}) => k.arg \in Probed
      /\ Left(t, {"load", "try", "commit"}) => RollsBack(k)
      /\ Left(t, {"halt", "copy server"} \union PlaceSteps) => k.op = "restore" /\ BackPlaces(k.back)
      /\ Left(t, UpdateSteps \union SshSteps) => Harmless(k.back)
  <2>1. \A steps : Left(t, steps) => Left(j.plan, steps)
    BY <1>1, LeftTail DEF t
  <2>2. RollsBack(j) /\ (h = "load" => NewFine(k)) => RollsBack(k)
    BY DEF RollsBack, WasFine, NewFine
  <2> QED BY <1>2, <2>1, <2>2 DEF PlanFine
<1>10. PlanFine(k, k.plan)
  BY <1>3, <1>4, <1>5, <1>6, <1>7, <1>8, <1>9 DEF PlanFine, t
<1>11. ArgFine(k.op, k.arg)
  BY DEF ArgFine, JobFine
<1> QED BY <1>1, <1>10, <1>11 DEF JobFine, t

-----------------------------------------------------------------------------
(***************************************************************************)
(* Commands that begin.                                                    *)
(***************************************************************************)
\* A command that begins.
Made(c, op, arg, plan) ==
  /\ DOMAIN c = Fields /\ c.op = op /\ c.arg = arg /\ c.plan = plan /\ c.back = Rolls
  /\ c.in = FALSE /\ c.was = Nothing /\ c.new = Nothing /\ c.rows = Nothing /\ c.env = Nothing /\ c.kept = Nothing

\* The fields of a command that begins.
LEMMA CommandIs ==
  ASSUME NEW op, NEW arg, NEW plan
  PROVE  Made(Command(op, arg, plan), op, arg, plan) /\ Made(Unlocked(op, arg, plan), op, arg, plan)
<1>1. DOMAIN Idle = Fields
  BY DEF Idle, Fields
<1>2. /\ Idle.in = FALSE /\ Idle.was = Nothing /\ Idle.new = Nothing /\ Idle.rows = Nothing /\ Idle.env = Nothing
      /\ Idle.kept = Nothing
  BY DEF Idle
<1> HIDE DEF Idle
<1> DEFINE d == Command(op, arg, plan)
           c == Unlocked(op, arg, plan)
<1>3. d = [Idle EXCEPT !.op = op, !.arg = arg, !.locked = TRUE, !.plan = plan, !.back = Rolls]
  BY DEF Command, Rolls
<1>5. c = [d EXCEPT !.locked = FALSE]
  BY DEF Unlocked
<1> HIDE DEF d, c
<1>4. Made(d, op, arg, plan)
  BY <1>1, <1>2, <1>3 DEF Fields, Made
<1>6. Made(c, op, arg, plan)
  BY <1>4, <1>5 DEF Made, Fields
<1> QED BY <1>4, <1>6 DEF d, c

\* Nothing to do is in order.
LEMMA IdleFine ==
         JobFine(Idle)
<1>1. DOMAIN Idle = Fields /\ Idle.op = "none" /\ Idle.plan = <<>> /\ Idle.back = <<>>
  BY DEF Idle, Fields
<1>2. <<>> \in Seq(Names) /\ DOMAIN <<>> = {}
  OBVIOUS
<1>3. PlanFine(Idle, <<>>)
  BY <1>2 DEF PlanFine, Guarded, Left
<1>4. ArgFine(Idle.op, Idle.arg)
  BY <1>1 DEF ArgFine, BypassOps, ConnectionOps
<1> QED BY <1>1, <1>2, <1>3, <1>4 DEF JobFine

\* So is a plan that takes no value in hand.
LEMMA HarmlessFine ==
  ASSUME NEW k, DOMAIN k = Fields, ArgFine(k.op, k.arg), Harmless(k.plan), k.back \in Seq(Names),
         Left(k.plan, UpdateSteps \union SshSteps) => Harmless(k.back)
  PROVE  JobFine(k)
<1>1. k.plan \in Seq(Others) /\ k.plan \in Seq(Names)
  BY Apartness, SeqIn DEF Harmless
<1>2. \A S : S \intersect Others = {} => ~Left(k.plan, S) /\ \A m, r, P : Guarded(k.plan, S, m, r, P)
  BY <1>1, Away
<1>3. /\ WasSteps(k.op) \intersect Others \subseteq {"serve"} /\ ReadSteps(k.op) \intersect Others = {}
      /\ {"save"} \intersect Others = {} /\ {"rows", "commit"} \intersect Others = {} /\ {"env"} \intersect Others = {}
      /\ (PlaceSteps \union {"read db"}) \intersect Others = {} /\ {"probe"} \intersect Others = {}
      /\ {"load", "try", "commit"} \intersect Others = {} /\ ({"halt", "copy server"} \union PlaceSteps) \intersect Others = {}
  BY Apartness DEF WasSteps, ReadSteps, Uses
<1>4. WasSteps(k.op) \intersect Others = {}
  BY <1>3, Apartness
<1>5. PlanFine(k, k.plan)
  BY <1>2, <1>3, <1>4 DEF PlanFine
<1> QED BY <1>1, <1>5 DEF JobFine

\* Site files and Caddy, for a command that puts no config.json back.
LEMMA SiteFine ==
  ASSUME NEW k, DOMAIN k = Fields, ArgFine(k.op, k.arg), k.op # "trojan update", k.plan \in Seq(Others \union {"serve"}),
         k.back \in Seq(Names), ~Left(k.plan, UpdateSteps \union SshSteps)
  PROVE  JobFine(k)
<1> DEFINE Sites == Others \union {"serve"}
<1>0. Sites \subseteq Names
  BY Apartness DEF Uses
<1>1. k.plan \in Seq(Sites) /\ k.plan \in Seq(Names)
  BY <1>0, SeqIn
<1>2. \A S : S \intersect Sites = {} => ~Left(k.plan, S) /\ \A m, r, P : Guarded(k.plan, S, m, r, P)
  <2> HIDE DEF Sites
  <2> QED BY <1>1, Away
<1>3. /\ {"save"} \intersect Others = {} /\ {"rows", "commit"} \intersect Others = {} /\ {"env"} \intersect Others = {}
      /\ (PlaceSteps \union {"read db"}) \intersect Others = {} /\ {"probe"} \intersect Others = {}
      /\ {"load", "try", "commit"} \intersect Others = {} /\ ({"halt", "copy server"} \union PlaceSteps) \intersect Others = {}
      /\ {"try", "commit", "undo", "unprobe"} \intersect Others = {} /\ {"load"} \intersect Others = {}
  BY Apartness DEF Uses
<1>4. /\ {"save"} \intersect Sites = {} /\ {"rows", "commit"} \intersect Sites = {} /\ {"env"} \intersect Sites = {}
      /\ {"probe"} \intersect Sites = {} /\ {"load", "try", "commit"} \intersect Sites = {}
  BY <1>3
<1>5. (PlaceSteps \union {"read db"}) \intersect Sites = {} /\ ({"halt", "copy server"} \union PlaceSteps) \intersect Sites = {}
  BY <1>3 DEF PlaceSteps
<1>6. WasSteps(k.op) \intersect Sites = {}
  BY <1>3 DEF WasSteps
<1>7. ReadSteps(k.op) \intersect Sites = {}
  BY <1>3 DEF ReadSteps
<1>8. PlanFine(k, k.plan)
  <2> HIDE DEF Sites
  <2> QED BY <1>2, <1>4, <1>5, <1>6, <1>7 DEF PlanFine
<1> QED BY <1>1, <1>8 DEF JobFine

\* Nothing left is such a plan.
LEMMA HarmlessEnd ==
         Harmless(<<>>)
<1>1. <<>> \in Seq(Others)
  OBVIOUS
<1> QED BY <1>1 DEF Harmless

\* A command may end at any step.
LEMMA EndFine ==
  ASSUME NEW j, JobFine(j)
  PROVE  JobFine([j EXCEPT !.plan = <<>>])
<1> DEFINE k == [j EXCEPT !.plan = <<>>]
<1>1. DOMAIN j = Fields /\ j.back \in Seq(Names) /\ ArgFine(j.op, j.arg)
  BY DEF JobFine
<1>2. DOMAIN k = Fields /\ k.op = j.op /\ k.arg = j.arg /\ k.plan = <<>> /\ k.back = j.back
  BY <1>1 DEF Fields
<1> HIDE DEF k
<1>3. ArgFine(k.op, k.arg)
  BY <1>1, <1>2 DEF ArgFine
<1>4. ~Left(k.plan, UpdateSteps \union SshSteps)
  <2>1. DOMAIN <<>> = {}
    OBVIOUS
  <2> QED BY <1>2, <2>1 DEF Left
<1> QED BY <1>1, <1>2, <1>3, <1>4, HarmlessEnd, HarmlessFine DEF k

\* The next step, when this one prepared nothing.
LEMMA FollowFine ==
  ASSUME NEW j, JobFine(j), j.plan # <<>>,
         Head(j.plan) \notin {"load", "save", "probe", "read", "copy server", "read files"}
  PROVE  JobFine(Next1(j))
<1> DEFINE k == Next1(j)
<1>1. DOMAIN j = Fields
  BY DEF JobFine
<1>2. /\ DOMAIN k = Fields /\ k.op = j.op /\ k.arg = j.arg /\ k.plan = Tail(j.plan) /\ k.back = j.back
      /\ k.new = j.new /\ k.env = j.env /\ k.was = j.was /\ k.rows = j.rows /\ k.kept = j.kept
  BY <1>1 DEF Next1, Fields
<1> HIDE DEF k
<1> QED BY <1>2, NextFine DEF k

-----------------------------------------------------------------------------
\* A plan that starts with nothing in hand.
Starts(op, plan) ==
  /\ Guarded(plan, {"save"}, {"load"}, {}, FALSE)
  /\ Guarded(plan, WasSteps(op), {"save", "probe"}, {"load", "unprobe"}, FALSE)
  /\ Guarded(plan, {"rows", "commit"}, {"load"}, RowsSteps, FALSE)
  /\ Guarded(plan, {"env"}, {"load"}, {}, FALSE)
  /\ Guarded(plan, ReadSteps(op), {"read"}, {"load", "list", "act"}, FALSE)
  /\ Guarded(plan, PlaceSteps \union {"read db"}, {"copy server", "read files"}, KeptSteps, FALSE)

\* A command whose plan prepares every value it uses.
LEMMA StartsFine ==
  ASSUME NEW k, DOMAIN k = Fields, ArgFine(k.op, k.arg), k.plan \in Seq(Names), k.back \in Seq(Names),
         Starts(k.op, k.plan),
         Left(k.plan, {"probe"}) => k.arg \in Probed,
         Left(k.plan, {"load", "try", "commit"}) => RollsBack(k),
         Left(k.plan, {"halt", "copy server"} \union PlaceSteps) => k.op = "restore" /\ BackPlaces(k.back),
         Left(k.plan, UpdateSteps \union SshSteps) => Harmless(k.back)
  PROVE  JobFine(k)
<1>1. \A u, m, r, P : Guarded(k.plan, u, m, r, FALSE) => Guarded(k.plan, u, m, r, P)
  BY DEF Guarded
<1>2. PlanFine(k, k.plan)
  BY <1>1 DEF PlanFine, Starts
<1> QED BY <1>2 DEF JobFine

\* The steps that put a config back.
Backs == {"try", "commit", "undo", "unprobe", "serve"}
\* The steps far from config.json's.
Far == {"halt", "copy server", "read db"} \union PlaceSteps \union UpdateSteps \union SshSteps

\* The steps of the commands that write config.json.
ConfigSteps == {"load", "save", "try", "rows", "env", "probe", "unprobe", "redo", "undo", "note", "read", "commit", "absent",
                "put", "serve", "record", "describe", "take back", "reload", "uncommit"}
\* The steps on config.json are apart from those.
LEMMA ConfigStepsAre ==
         ConfigSteps \subseteq Names /\ ConfigSteps \intersect Far = {}
<1>1. ConfigSteps \subseteq Names
  BY DEF ConfigSteps, Names, Uses, Others, KeptSteps, RowsSteps
<1>2. ConfigSteps \intersect {"halt", "copy server", "read db"} = {} /\ ConfigSteps \intersect PlaceSteps = {}
  BY DEF ConfigSteps, PlaceSteps
<1>3. ConfigSteps \intersect UpdateSteps = {} /\ ConfigSteps \intersect SshSteps = {}
  BY DEF ConfigSteps, UpdateSteps, SshSteps
<1> QED BY <1>1, <1>2, <1>3 DEF Far

\* A plan of steps on config.json.
LEMMA SeqFrom ==
  ASSUME NEW S, S \subseteq ConfigSteps, NEW plan \in Seq(S)
  PROVE  plan \in Seq(Names) /\ ~Left(plan, Far)
<1>1. S \subseteq Names /\ S \intersect Far = {}
  BY ConfigStepsAre
<1> QED BY <1>1, SeqIn, Away

\* A command on config.json whose plan prepares every value it uses.
LEMMA CommandFine ==
  ASSUME NEW op, NEW arg, NEW plan \in Seq(Names), Starts(op, plan), ~Left(plan, Far), ArgFine(op, arg),
         Left(plan, {"probe"}) => arg \in Probed
  PROVE  JobFine(Command(op, arg, plan)) /\ JobFine(Unlocked(op, arg, plan))
<1>1. ASSUME NEW c, Made(c, op, arg, plan) PROVE JobFine(c)
  <2>1. DOMAIN c = Fields /\ c.op = op /\ c.arg = arg /\ c.plan = plan /\ c.back = Rolls /\ RollsBack(c)
    BY <1>1 DEF Made, RollsBack
  <2>2. Rolls \in Seq(Names)
    <3>1. Rolls \in Seq({"undo", "redo"})
      BY DEF Rolls
    <3>2. {"undo", "redo"} \subseteq Names
      BY DEF Names, Uses, Others
    <3> QED BY <3>1, <3>2, SeqIn
  <2>3. /\ ~Left(plan, {"halt", "copy server"} \union PlaceSteps)
        /\ ~Left(plan, UpdateSteps \union SshSteps)
    BY DEF Left, Far
  <2> QED BY <2>1, <2>2, <2>3, StartsFine
<1> QED BY <1>1, CommandIs

\* A plan guarded for more steps is guarded for fewer.
LEMMA Narrower ==
  ASSUME NEW plan, NEW uses, NEW makes, NEW resets, NEW P \in BOOLEAN, Guarded(plan, uses, makes, resets, P),
         NEW fewer, fewer \subseteq uses
  PROVE  Guarded(plan, fewer, makes, resets, P)
  BY DEF Guarded

\* A plan that computes a config before it writes it, and sets aside what it may put back.
Prepared(plan) ==
  /\ Guarded(plan, {"save"}, {"load"}, {}, FALSE) /\ Guarded(plan, {"env"}, {"load"}, {}, FALSE)
  /\ Guarded(plan, Backs, {"save", "probe"}, {"load", "unprobe"}, FALSE)
  /\ Guarded(plan, {"rows", "commit"}, {"load"}, RowsSteps, FALSE)

\* A plan of the steps of the commands, as the first values are made in it.
LEMMA PlanStarts ==
  ASSUME NEW S, S \subseteq ConfigSteps, NEW plan \in Seq(S), NEW op, Prepared(plan),
         op \in BlockOps => Guarded(plan, {"load"}, {"read"}, {"load", "list", "act"}, FALSE)
  PROVE  plan \in Seq(Names) /\ Starts(op, plan) /\ ~Left(plan, Far) /\ ("probe" \notin S => ~Left(plan, {"probe"}))
<1>1. S \subseteq Names /\ S \intersect Far = {} /\ S \intersect (PlaceSteps \union {"read db"}) = {}
  BY ConfigStepsAre DEF Far
<1>2. Guarded(plan, WasSteps(op), {"save", "probe"}, {"load", "unprobe"}, FALSE)
  <2>1. WasSteps(op) \subseteq Backs
    BY DEF WasSteps, Backs
  <2> QED BY <2>1, Narrower DEF Prepared
<1>3. Guarded(plan, ReadSteps(op), {"read"}, {"load", "list", "act"}, FALSE)
  BY DEF Guarded, ReadSteps
<1>4. Guarded(plan, PlaceSteps \union {"read db"}, {"copy server", "read files"}, KeptSteps, FALSE)
  BY <1>1, Away
<1>5. "probe" \notin S => ~Left(plan, {"probe"})
  BY Away
<1> QED BY <1>2, <1>3, <1>4, <1>5, SeqFrom DEF Starts, Prepared

\* A plan that prepares what it uses: a command of the routes that stores rows.
LEMMA PlanRows ==
  ASSUME NEW plan, plan = <<"load", "save", "try", "rows">>, NEW op, op \notin BlockOps
  PROVE  plan \in Seq(Names) /\ Starts(op, plan) /\ ~Left(plan, Far) /\ ~Left(plan, {"probe"})
<1> DEFINE S == {"load", "save", "try", "rows"}
<1>1. plan \in Seq(S)
  OBVIOUS
<1>2. S \subseteq ConfigSteps /\ "probe" \notin S
  BY DEF ConfigSteps
<1>3. Prepared(plan)
  BY DEF Prepared, Guarded, Backs, RowsSteps
<1> HIDE DEF S
<1> QED BY <1>1, <1>2, <1>3, PlanStarts

\* A plan that prepares what it uses: one that stores nothing else.
LEMMA PlanBare ==
  ASSUME NEW plan, plan = <<"load", "save", "try">>, NEW op, op \notin BlockOps
  PROVE  plan \in Seq(Names) /\ Starts(op, plan) /\ ~Left(plan, Far) /\ ~Left(plan, {"probe"})
<1> DEFINE S == {"load", "save", "try"}
<1>1. plan \in Seq(S)
  OBVIOUS
<1>2. S \subseteq ConfigSteps /\ "probe" \notin S
  BY DEF ConfigSteps
<1>3. Prepared(plan)
  BY DEF Prepared, Guarded, Backs, RowsSteps
<1> HIDE DEF S
<1> QED BY <1>1, <1>2, <1>3, PlanStarts

\* A plan that prepares what it uses: a test.
LEMMA PlanTrial ==
  ASSUME NEW plan, plan = Trial, NEW op, op \notin BlockOps
  PROVE  plan \in Seq(Names) /\ Starts(op, plan) /\ ~Left(plan, Far)
<1> DEFINE S == {"probe", "unprobe", "redo"}
<1>1. plan \in Seq(S)
  BY DEF Trial
<1>2. S \subseteq ConfigSteps
  BY DEF ConfigSteps
<1>3. Prepared(plan)
  BY DEF Prepared, Guarded, Backs, RowsSteps, Trial
<1> HIDE DEF S
<1> QED BY <1>1, <1>2, <1>3, PlanStarts

\* A plan that prepares what it uses: a new WARP, tested first.
LEMMA PlanCreate ==
  ASSUME NEW plan, plan = Trial \o <<"load", "save", "try">>, NEW op, op \notin BlockOps
  PROVE  plan \in Seq(Names) /\ Starts(op, plan) /\ ~Left(plan, Far)
<1> DEFINE S == {"probe", "unprobe", "redo", "load", "save", "try"}
<1>1. plan \in Seq(S)
  BY DEF Trial
<1>2. S \subseteq ConfigSteps
  BY DEF ConfigSteps
<1>3. Prepared(plan)
  BY DEF Prepared, Guarded, Backs, RowsSteps, Trial
<1> HIDE DEF S
<1> QED BY <1>1, <1>2, <1>3, PlanStarts

\* A plan that prepares what it uses: WARP enabled, tested with the config in hand.
LEMMA PlanEnable ==
  ASSUME NEW plan, plan = <<"load">> \o Trial \o <<"save", "try">>, NEW op, op \notin BlockOps
  PROVE  plan \in Seq(Names) /\ Starts(op, plan) /\ ~Left(plan, Far)
<1> DEFINE S == {"load", "probe", "unprobe", "redo", "save", "try"}
<1>1. plan \in Seq(S)
  BY DEF Trial
<1>2. S \subseteq ConfigSteps
  BY DEF ConfigSteps
<1>3. Prepared(plan)
  BY DEF Prepared, Guarded, Backs, RowsSteps, Trial
<1> HIDE DEF S
<1> QED BY <1>1, <1>2, <1>3, PlanStarts

\* A plan that prepares what it uses: WARP disabled, tested last.
LEMMA PlanDisable ==
  ASSUME NEW plan, plan = <<"load", "save", "try", "rows">> \o Trial, NEW op, op \notin BlockOps
  PROVE  plan \in Seq(Names) /\ Starts(op, plan) /\ ~Left(plan, Far)
<1> DEFINE S == {"load", "save", "try", "rows", "probe", "unprobe", "redo"}
<1>1. plan \in Seq(S)
  BY DEF Trial
<1>2. S \subseteq ConfigSteps
  BY DEF ConfigSteps
<1>3. Prepared(plan)
  BY DEF Prepared, Guarded, Backs, RowsSteps, Trial
<1> HIDE DEF S
<1> QED BY <1>1, <1>2, <1>3, PlanStarts

\* A plan that prepares what it uses: a bypass route.
LEMMA PlanBypass ==
  ASSUME NEW plan, plan = <<"load", "save", "try", "rows", "env">>, NEW op, op \notin BlockOps
  PROVE  plan \in Seq(Names) /\ Starts(op, plan) /\ ~Left(plan, Far) /\ ~Left(plan, {"probe"})
<1> DEFINE S == {"load", "save", "try", "rows", "env"}
<1>1. plan \in Seq(S)
  OBVIOUS
<1>2. S \subseteq ConfigSteps /\ "probe" \notin S
  BY DEF ConfigSteps
<1>3. Prepared(plan)
  BY DEF Prepared, Guarded, Backs, RowsSteps
<1> HIDE DEF S
<1> QED BY <1>1, <1>2, <1>3, PlanStarts

\* A plan that prepares what it uses: the watched region.
LEMMA PlanEnv ==
  ASSUME NEW plan, plan = <<"load", "save", "try", "env">>, NEW op, op \notin BlockOps
  PROVE  plan \in Seq(Names) /\ Starts(op, plan) /\ ~Left(plan, Far) /\ ~Left(plan, {"probe"})
<1> DEFINE S == {"load", "save", "try", "env"}
<1>1. plan \in Seq(S)
  OBVIOUS
<1>2. S \subseteq ConfigSteps /\ "probe" \notin S
  BY DEF ConfigSteps
<1>3. Prepared(plan)
  BY DEF Prepared, Guarded, Backs, RowsSteps
<1> HIDE DEF S
<1> QED BY <1>1, <1>2, <1>3, PlanStarts

\* A plan that prepares what it uses: a block.
LEMMA PlanBlock ==
  ASSUME NEW plan, plan = <<"note", "read", "load", "save", "try">>, NEW op
  PROVE  plan \in Seq(Names) /\ Starts(op, plan) /\ ~Left(plan, Far) /\ ~Left(plan, {"probe"})
<1> DEFINE S == {"note", "read", "load", "save", "try"}
<1>1. plan \in Seq(S)
  OBVIOUS
<1>2. S \subseteq ConfigSteps /\ "probe" \notin S
  BY DEF ConfigSteps
<1>3. Prepared(plan)
  BY DEF Prepared, Guarded, Backs, RowsSteps
<1>4. Guarded(plan, {"load"}, {"read"}, {"load", "list", "act"}, FALSE)
  BY DEF Guarded
<1> HIDE DEF S
<1> QED BY <1>1, <1>2, <1>3, <1>4, PlanStarts

\* A plan that prepares what it uses: the timer's run.
LEMMA PlanReconcile ==
  ASSUME NEW plan, plan = <<"read", "load", "save", "try">>, NEW op
  PROVE  plan \in Seq(Names) /\ Starts(op, plan) /\ ~Left(plan, Far) /\ ~Left(plan, {"probe"})
<1> DEFINE S == {"read", "load", "save", "try"}
<1>1. plan \in Seq(S)
  OBVIOUS
<1>2. S \subseteq ConfigSteps /\ "probe" \notin S
  BY DEF ConfigSteps
<1>3. Prepared(plan)
  BY DEF Prepared, Guarded, Backs, RowsSteps
<1>4. Guarded(plan, {"load"}, {"read"}, {"load", "list", "act"}, FALSE)
  BY DEF Guarded
<1> HIDE DEF S
<1> QED BY <1>1, <1>2, <1>3, <1>4, PlanStarts

\* A plan that prepares what it uses: a connection.
LEMMA PlanStored ==
  ASSUME NEW plan, plan = Stored, NEW op, op \notin BlockOps
  PROVE  plan \in Seq(Names) /\ Starts(op, plan) /\ ~Left(plan, Far) /\ ~Left(plan, {"probe"})
<1> DEFINE S == {"load", "save", "try", "commit"}
<1>1. plan \in Seq(S)
  BY DEF Stored
<1>2. S \subseteq ConfigSteps /\ "probe" \notin S
  BY DEF ConfigSteps
<1>3. Prepared(plan)
  BY DEF Prepared, Guarded, Backs, RowsSteps, Stored
<1> HIDE DEF S
<1> QED BY <1>1, <1>2, <1>3, PlanStarts

\* A plan that prepares what it uses: a connection behind a site of its own.
LEMMA PlanBehind ==
  ASSUME NEW plan, plan = Stored \o (<<"absent">> \o Served), NEW op, op \notin BlockOps
  PROVE  plan \in Seq(Names) /\ Starts(op, plan) /\ ~Left(plan, Far) /\ ~Left(plan, {"probe"})
<1> DEFINE S == {"load", "save", "try", "commit", "absent", "put", "serve"}
<1>1. plan \in Seq(S)
  BY DEF Stored, Served
<1>2. S \subseteq ConfigSteps /\ "probe" \notin S
  BY DEF ConfigSteps
<1>3. Prepared(plan)
  BY DEF Prepared, Guarded, Backs, RowsSteps, Stored, Served
<1> HIDE DEF S
<1> QED BY <1>1, <1>2, <1>3, PlanStarts

\* A plan that prepares what it uses: a connection server.env tells of.
LEMMA PlanDescribed ==
  ASSUME NEW plan, plan = Stored \o <<"env">>, NEW op, op \notin BlockOps
  PROVE  plan \in Seq(Names) /\ Starts(op, plan) /\ ~Left(plan, Far) /\ ~Left(plan, {"probe"})
<1> DEFINE S == {"load", "save", "try", "commit", "env"}
<1>1. plan \in Seq(S)
  BY DEF Stored
<1>2. S \subseteq ConfigSteps /\ "probe" \notin S
  BY DEF ConfigSteps
<1>3. Prepared(plan)
  BY DEF Prepared, Guarded, Backs, RowsSteps, Stored
<1> HIDE DEF S
<1> QED BY <1>1, <1>2, <1>3, PlanStarts

\* A plan that prepares what it uses: a connection and its site.
LEMMA PlanTrojan ==
  ASSUME NEW plan, plan = Stored \o Served, NEW op, op \notin BlockOps
  PROVE  plan \in Seq(Names) /\ Starts(op, plan) /\ ~Left(plan, Far) /\ ~Left(plan, {"probe"})
<1> DEFINE S == {"load", "save", "try", "commit", "put", "serve"}
<1>1. plan \in Seq(S)
  BY DEF Stored, Served
<1>2. S \subseteq ConfigSteps /\ "probe" \notin S
  BY DEF ConfigSteps
<1>3. Prepared(plan)
  BY DEF Prepared, Guarded, Backs, RowsSteps, Stored, Served
<1> HIDE DEF S
<1> QED BY <1>1, <1>2, <1>3, PlanStarts

\* A plan that prepares what it uses: a Reality connection from the menus, and server.env.
LEMMA PlanMenu ==
  ASSUME NEW plan, plan = <<"load", "save", "try", "record">> \o <<"describe">>, NEW op, op \notin BlockOps
  PROVE  plan \in Seq(Names) /\ Starts(op, plan) /\ ~Left(plan, Far) /\ ~Left(plan, {"probe"})
<1> DEFINE S == {"load", "save", "try", "record", "describe"}
<1>1. plan \in Seq(S)
  OBVIOUS
<1>2. S \subseteq ConfigSteps /\ "probe" \notin S
  BY DEF ConfigSteps
<1>3. Prepared(plan)
  BY DEF Prepared, Guarded, Backs, RowsSteps
<1> HIDE DEF S
<1> QED BY <1>1, <1>2, <1>3, PlanStarts

\* A plan that prepares what it uses: a Reality connection from the menus.
LEMMA PlanRecord ==
  ASSUME NEW plan, plan = <<"load", "save", "try", "record">>, NEW op, op \notin BlockOps
  PROVE  plan \in Seq(Names) /\ Starts(op, plan) /\ ~Left(plan, Far) /\ ~Left(plan, {"probe"})
<1> DEFINE S == {"load", "save", "try", "record"}
<1>1. plan \in Seq(S)
  OBVIOUS
<1>2. S \subseteq ConfigSteps /\ "probe" \notin S
  BY DEF ConfigSteps
<1>3. Prepared(plan)
  BY DEF Prepared, Guarded, Backs, RowsSteps
<1> HIDE DEF S
<1> QED BY <1>1, <1>2, <1>3, PlanStarts

-----------------------------------------------------------------------------
(***************************************************************************)
(* The invariant, and steps in general.                                    *)
(***************************************************************************)
\* The inductive invariant.
VInv == StateFine /\ JobsFine

\* A process that goes on with a plan in order, or ends.
LEMMA ThenFine ==
  ASSUME JobsFine, NEW p \in Procs, NEW j, JobFine(j), Then(p, j)
  PROVE  JobsFine'
<1>1. job' = [job EXCEPT ![p] = Idle] \/ job' = [job EXCEPT ![p] = j]
  BY DEF Then
<1> QED BY <1>1, IdleFine DEF JobsFine

\* A process that ends.
LEMMA IdlesFine ==
  ASSUME JobsFine, NEW p \in Procs, job' = [job EXCEPT ![p] = Idle]
  PROVE  JobsFine'
  BY IdleFine DEF JobsFine

\* A process that begins.
LEMMA BeginsFine ==
  ASSUME VInv, NEW p \in Procs, NEW j, JobFine(j), Begin(p, j), UNCHANGED <<routingVars, saved>>
  PROVE  VInv'
<1>1. JobsFine'
  BY DEF Begin, JobsFine, VInv
<1>2. UNCHANGED <<config, choice, routes, env, saved>>
  BY DEF Begin, files, routingVars
<1>3. StateFine'
  BY <1>2 DEF StateFine, StoresFine, VInv
<1> QED BY <1>1, <1>3 DEF VInv

\* A step that changes no store.
LEMMA StillFine ==
  ASSUME StateFine, UNCHANGED <<config, choice, routes, env, saved>>
  PROVE  StateFine'
  BY DEF StateFine, StoresFine

\* The job of a process.
LEMMA InFine ==
  ASSUME JobsFine, NEW p \in Procs
  PROVE  JobFine(job[p]) /\ DOMAIN job[p] = Fields
  BY DEF JobsFine, JobFine

-----------------------------------------------------------------------------
(***************************************************************************)
(* Every command begins in order.                                          *)
(***************************************************************************)
\* The plans of the commands of the routes, begun with a fine argument.
LEMMA RouteJobs ==
  ASSUME NEW op, op \notin BlockOps, NEW arg, ArgFine(op, arg)
  PROVE  /\ JobFine(Command(op, arg, <<"load", "save", "try">>)) /\ JobFine(Command(op, arg, <<"load", "save", "try", "rows">>))
         /\ JobFine(Unlocked(op, arg, <<"load", "save", "try">>)) /\ JobFine(Unlocked(op, arg, <<"load", "save", "try", "env">>))
         /\ JobFine(Command(op, arg, <<"load", "save", "try", "rows", "env">>))
         /\ arg \in Probed => /\ JobFine(Command(op, arg, Trial)) /\ JobFine(Command(op, arg, Trial \o <<"load", "save", "try">>))
                              /\ JobFine(Command(op, arg, <<"load">> \o Trial \o <<"save", "try">>))
                              /\ JobFine(Command(op, arg, <<"load", "save", "try", "rows">> \o Trial))
<1>1. /\ JobFine(Command(op, arg, <<"load", "save", "try">>)) /\ JobFine(Unlocked(op, arg, <<"load", "save", "try">>))
  BY PlanBare, CommandFine
<1>2. JobFine(Command(op, arg, <<"load", "save", "try", "rows">>))
  BY PlanRows, CommandFine
<1>3. JobFine(Unlocked(op, arg, <<"load", "save", "try", "env">>))
  BY PlanEnv, CommandFine
<1>4. JobFine(Command(op, arg, <<"load", "save", "try", "rows", "env">>))
  BY PlanBypass, CommandFine
<1>5. CASE arg \in Probed
  <2>1. JobFine(Command(op, arg, Trial))
    BY <1>5, PlanTrial, CommandFine
  <2>2. JobFine(Command(op, arg, Trial \o <<"load", "save", "try">>))
    BY <1>5, PlanCreate, CommandFine
  <2>3. JobFine(Command(op, arg, <<"load">> \o Trial \o <<"save", "try">>))
    BY <1>5, PlanEnable, CommandFine
  <2>4. JobFine(Command(op, arg, <<"load", "save", "try", "rows">> \o Trial))
    BY <1>5, PlanDisable, CommandFine
  <2> QED BY <1>1, <1>2, <1>3, <1>4, <2>1, <2>2, <2>3, <2>4
<1> QED BY <1>1, <1>2, <1>3, <1>4, <1>5

\* The commands of the cascade, WARP, the menus and the blocklist begin in order.
LEMMA RoutesBegin ==
  ASSUME VInv, NEW p \in Procs, UNCHANGED <<routingVars, saved>>,
         Cascade(p) \/ TestCascade(p) \/ Warp(p) \/ TestWarp(p) \/ TestBypass(p) \/ Menu(p) \/ Block(p)
  PROVE  VInv'
<1>1. CASE Cascade(p) \/ TestCascade(p)
  <2>1. \A op \in {"cascade add", "cascade use", "cascade remove", "cascade test"}, tag \in Cascades :
          op \notin BlockOps /\ ArgFine(op, tag) /\ tag \in Probed
    BY DEF BlockOps, ArgFine, BypassOps, ConnectionOps, Probed
  <2>2. "cascade off" \notin BlockOps /\ ArgFine("cascade off", Nothing)
    BY DEF BlockOps, ArgFine, BypassOps, ConnectionOps
  <2> QED BY <1>1, <2>1, <2>2, RouteJobs, BeginsFine DEF Cascade, TestCascade
<1>2. CASE Warp(p) \/ TestWarp(p)
  <2>1. \A op \in {"warp create", "warp enable", "warp disable", "warp remove", "warp test"} :
          op \notin BlockOps /\ ArgFine(op, "warp") /\ "warp" \in Probed
    BY DEF BlockOps, ArgFine, BypassOps, ConnectionOps, Probed
  <2> QED BY <1>2, <2>1, RouteJobs, BeginsFine DEF Warp, TestWarp
<1>3. CASE TestBypass(p)
  <2>1. \A tag \in Bypasses : "bypass test" \notin BlockOps /\ ArgFine("bypass test", tag) /\ tag \in Probed
    BY DEF BlockOps, ArgFine, BypassOps, ConnectionOps, Probed
  <2> QED BY <1>3, <2>1, RouteJobs, BeginsFine DEF TestBypass
<1>4. CASE Menu(p)
  <2>1. /\ {"torrents", "watch", "unwatch"} \intersect BlockOps = {} /\ ArgFine("unwatch", Nothing)
        /\ \A b \in BOOLEAN : ArgFine("torrents", b)
        /\ \A r \in Regions : ArgFine("watch", r)
    BY DEF BlockOps, ArgFine, BypassOps, ConnectionOps
  <2> QED BY <1>4, <2>1, RouteJobs, BeginsFine DEF Menu
<1>5. CASE Block(p)
  <2>1. \A t : \A op \in {"block", "unblock"} : ArgFine(op, t)
    BY DEF ArgFine, BypassOps, ConnectionOps
  <2>2. \A t : \A op \in {"block", "unblock"} : JobFine(Unlocked(op, t, <<"note", "read", "load", "save", "try">>))
    BY <2>1, PlanBlock, CommandFine
  <2> QED BY <1>5, <2>2, BeginsFine DEF Block
<1> QED BY <1>1, <1>2, <1>3, <1>4, <1>5

\* Bypass begins with a plan in order.
LEMMA BypassBegins ==
  ASSUME VInv, NEW p \in Procs, Bypass(p), UNCHANGED <<routingVars, saved>>
  PROVE  VInv'
<1>1. ASSUME NEW op \in BypassOps, NEW tag \in Bypasses, NEW r \in Regions, AskBypass(p, op, tag, r) PROVE VInv'
  <2>1. ASSUME NEW a, a.tag = tag, a.region = r PROVE op \notin BlockOps /\ ArgFine(op, a)
    BY <1>1, <2>1 DEF BlockOps, ArgFine, BypassOps, ConnectionOps
  <2> QED BY <1>1, <2>1, RouteJobs, BeginsFine DEF AskBypass
<1> QED BY <1>1, RoutesBegin DEF Bypass, AddBypass, EnableBypass, MoveBypass, DropBypass, BypassOps

\* Reconcile begins with a plan in order.
LEMMA ReconcileBegins ==
  ASSUME VInv, Reconcile, UNCHANGED <<routingVars, saved>>
  PROVE  VInv'
<1>1. JobFine(Unlocked("reconcile", Nothing, <<"read", "load", "save", "try">>))
  <2>1. ArgFine("reconcile", Nothing)
    BY DEF ArgFine, BypassOps, ConnectionOps
  <2> QED BY <2>1, PlanReconcile, CommandFine
<1>2. JobsFine'
  BY <1>1, RoutingAssumption DEF VInv, JobsFine, Reconcile
<1>3. StateFine'
  BY StillFine DEF Reconcile, files, routingVars, VInv
<1> QED BY <1>2, <1>3 DEF VInv

\* What the commands of the connections are asked is fine.
LEMMA ConnectionArgs ==
  /\ {"connection add", "connection transport", "connection remove", "trojan update", "menu reality"} \intersect BlockOps = {}
  /\ \A port \in Ports, look \in Looks : ArgFine("connection add", AskNew(Reals, port, look, Nothing, FALSE))
  /\ \A port \in Ports, look \in Looks, host \in Domains, behind \in BOOLEAN : ArgFine("connection add", AskFront(port, look, host, behind))
  /\ \A op \in {"connection transport", "connection remove", "trojan update", "menu reality"}, tag \in Reals \union Fronts,
        port \in Ports \union {Nothing}, look \in Looks \union {Nothing}, host \in Domains \union {Nothing} :
        ArgFine(op, Ask(tag, port, look, host))
  BY DEF BlockOps, ArgFine, BypassOps, ConnectionOps, AnOffer, AnAsk, Ask, AskNew, AskFront

\* The commands that change a connection begin in order.
LEMMA ConnectionsBegin ==
  ASSUME VInv, NEW p \in Procs, UNCHANGED <<routingVars, saved>>,
         AddReality(p) \/ Transport(p) \/ RemoveConnection(p) \/ UpdateTrojan(p)
  PROVE  VInv'
<1>1. ASSUME NEW op, op \notin BlockOps, NEW arg, ArgFine(op, arg)
      PROVE  /\ JobFine(Command(op, arg, Stored)) /\ JobFine(Command(op, arg, Stored \o <<"env">>))
             /\ JobFine(Command(op, arg, Stored \o Served))
  BY <1>1, PlanStored, PlanDescribed, PlanTrojan, CommandFine
<1>2. CASE AddReality(p)
  BY <1>1, <1>2, ConnectionArgs, BeginsFine DEF AddReality
<1>3. CASE Transport(p)
  BY <1>1, <1>3, ConnectionArgs, BeginsFine DEF Transport
<1>4. CASE RemoveConnection(p)
  BY <1>1, <1>4, ConnectionArgs, BeginsFine DEF RemoveConnection
<1>5. CASE UpdateTrojan(p)
  BY <1>1, <1>5, ConnectionArgs, BeginsFine DEF UpdateTrojan
<1> QED BY <1>2, <1>3, <1>4, <1>5

\* AddTrojan begins with a plan in order.
LEMMA AddTrojanBegins ==
  ASSUME VInv, NEW p \in Procs, AddTrojan(p), UNCHANGED <<routingVars, saved>>
  PROVE  VInv'
<1>1. PICK port \in Ports, look \in Looks, host \in Domains, behind \in BOOLEAN :
        Begin(p, Command("connection add", AskFront(port, look, host, behind),
                         Stored \o IF behind THEN <<"absent">> \o Served ELSE <<>>))
  BY DEF AddTrojan
<1> DEFINE plan == Stored \o IF behind THEN <<"absent">> \o Served ELSE <<>>
<1>2. "connection add" \notin BlockOps /\ ArgFine("connection add", AskFront(port, look, host, behind))
  BY ConnectionArgs
<1>3. plan = Stored \o (<<"absent">> \o Served) \/ plan = Stored
  <2>1. CASE behind
    BY <2>1
  <2>2. CASE ~behind
    <3>1. Stored \in Seq({"load", "save", "try", "commit"})
      BY DEF Stored
    <3>2. Stored \o <<>> = Stored
      BY <3>1
    <3> QED BY <2>2, <3>2
  <2> QED BY <2>1, <2>2
<1> HIDE DEF plan
<1>4. JobFine(Command("connection add", AskFront(port, look, host, behind), plan))
  BY <1>2, <1>3, PlanStored, PlanBehind, CommandFine
<1> QED BY <1>1, <1>4, BeginsFine DEF plan

\* Reality begins with a plan in order.
LEMMA RealityBegins ==
  ASSUME VInv, NEW p \in Procs, Reality(p), UNCHANGED <<routingVars, saved>>
  PROVE  VInv'
<1>1. PICK tag \in Reals \intersect In(config), port \in Ports \union {Nothing}, look \in Looks \union {Nothing} :
        Begin(p, Command("menu reality", Ask(tag, port, look, Nothing),
                <<"load", "save", "try", "record">> \o IF tag = Default THEN <<"describe">> ELSE <<>>))
  BY DEF Reality
<1> DEFINE plan == <<"load", "save", "try", "record">> \o IF tag = Default THEN <<"describe">> ELSE <<>>
<1>2. "menu reality" \notin BlockOps /\ ArgFine("menu reality", Ask(tag, port, look, Nothing))
  BY ConnectionArgs
<1>3. plan = <<"load", "save", "try", "record">> \o <<"describe">> \/ plan = <<"load", "save", "try", "record">>
  <2>1. CASE tag = Default
    BY <2>1
  <2>2. CASE tag # Default
    <3>1. <<"load", "save", "try", "record">> \in Seq({"load", "save", "try", "record"})
      OBVIOUS
    <3>2. <<"load", "save", "try", "record">> \o <<>> = <<"load", "save", "try", "record">>
      BY <3>1
    <3> QED BY <2>2, <3>2
  <2> QED BY <2>1, <2>2
<1> HIDE DEF plan
<1>4. JobFine(Command("menu reality", Ask(tag, port, look, Nothing), plan))
  BY <1>2, <1>3, PlanMenu, PlanRecord, CommandFine
<1> QED BY <1>1, <1>4, BeginsFine DEF plan

\* The commands that edit sites and those that change nothing of config.json.
QuietSteps == {"put", "serve", "extract", "seek", "archive", "accept", "act", "reply", "list", "run", "clear", "obtain", "begin copy",
               "end copy", "choose", "fetch", "keep", "set aside", "ready", "take back", "reload"}
\* The steps on the sites and the panel's.
LEMMA QuietStepsAre ==
         QuietSteps \subseteq Others \union {"serve"} /\ QuietSteps \intersect (UpdateSteps \union SshSteps) = {}
<1>1. QuietSteps \subseteq Others \union {"serve"}
  BY DEF QuietSteps, Others, KeptSteps, RowsSteps
<1>2. QuietSteps \intersect UpdateSteps = {} /\ QuietSteps \intersect SshSteps = {}
  BY DEF QuietSteps, UpdateSteps, SshSteps
<1> QED BY <1>1, <1>2

\* Rolls is a plan.
LEMMA RollsIn ==
         Rolls \in Seq(Names)
<1>1. Rolls \in Seq({"undo", "redo"})
  BY DEF Rolls
<1>2. {"undo", "redo"} \subseteq Names
  BY DEF Names, Uses, Others
<1> QED BY <1>1, <1>2, SeqIn

\* What an operation that is none of those of the routes, the connections or a restore is
\* asked, is free.
FreeOp(op) == op \notin RoutingOps \union ConnectionOps \union {"restore"}
\* A command whose argument no store takes.
LEMMA FreeArg ==
  ASSUME NEW op, FreeOp(op), NEW arg
  PROVE  ArgFine(op, arg) /\ op # "trojan update"
  BY DEF FreeOp, ArgFine, RoutingOps, KeepsLoaded, BypassOps, ConnectionOps

\* A command on the sites or of the panel begins in order.
LEMMA QuietCommand ==
  ASSUME NEW op, FreeOp(op), NEW arg, NEW plan \in Seq(QuietSteps)
  PROVE  JobFine(Unlocked(op, arg, plan))
<1> DEFINE c == Unlocked(op, arg, plan)
<1>0. Made(c, op, arg, plan)
  BY CommandIs
<1> HIDE DEF c
<1>1. DOMAIN c = Fields /\ c.op = op /\ c.arg = arg /\ c.plan = plan /\ c.back = Rolls
  BY <1>0 DEF Made
<1>2. plan \in Seq(Others \union {"serve"}) /\ ~Left(plan, UpdateSteps \union SshSteps)
  BY QuietStepsAre, SeqIn, Away
<1>3. ArgFine(op, arg) /\ op # "trojan update"
  BY FreeArg
<1> QED BY <1>1, <1>2, <1>3, RollsIn, SiteFine DEF c

\* The steps of the updates, the rollbacks and the SSH items.
UpkeepSteps == UpdateSteps \union SshSteps \union
  {"ready", "fetch", "keep", "set aside", "obtain", "begin copy", "end copy", "choose", "texts", "reload old"}
\* The steps of the updates.
LEMMA UpkeepStepsAre ==
         UpkeepSteps \subseteq Others /\ UpkeepSteps \subseteq Names
<1>1. UpkeepSteps \subseteq Others
  BY DEF UpkeepSteps, Others, KeptSteps
<1> QED BY <1>1, Apartness

\* An update begins in order.
LEMMA UpkeepCommand ==
  ASSUME NEW op, FreeOp(op), NEW arg, NEW plan \in Seq(UpkeepSteps), NEW back \in Seq(UpkeepSteps), NEW kept
  PROVE  /\ JobFine([Unlocked(op, arg, plan) EXCEPT !.back = back])
         /\ JobFine([Unlocked(op, arg, plan) EXCEPT !.back = back, !.kept = kept])
<1> DEFINE c == Unlocked(op, arg, plan)
<1>0. Made(c, op, arg, plan)
  BY CommandIs
<1> HIDE DEF c
<1>1. plan \in Seq(Others) /\ back \in Seq(Others) /\ back \in Seq(Names)
  BY UpkeepStepsAre, SeqIn
<1>2. ArgFine(op, arg)
  BY FreeArg
<1>3. ASSUME NEW d, DOMAIN d = Fields, d.op = op, d.arg = arg, d.plan = plan, d.back = back PROVE JobFine(d)
  BY <1>1, <1>2, <1>3, HarmlessFine DEF Harmless
<1>4. DEFINE d == [c EXCEPT !.back = back]
<1>5. DOMAIN d = Fields /\ d.op = op /\ d.arg = arg /\ d.plan = plan /\ d.back = back
  BY <1>0 DEF Made, Fields
<1>6. DEFINE e == [c EXCEPT !.back = back, !.kept = kept]
<1>7. DOMAIN e = Fields /\ e.op = op /\ e.arg = arg /\ e.plan = plan /\ e.back = back
  BY <1>0 DEF Made, Fields
<1> HIDE DEF d, e
<1>8. JobFine(d) /\ JobFine(e)
  BY <1>3, <1>5, <1>7
<1> QED BY <1>8 DEF c, d, e

\* A place in a plan that is neither the first nor beyond the second.
LEMMA Second ==
  ASSUME NEW n \in Nat, NEW k \in 1 .. n, k # 1, k \notin 3 .. n
  PROVE  1 \in 1 .. k - 1 /\ \A m \in 1 + 1 .. k - 1 : FALSE
  OBVIOUS

\* A place in a plan beyond the second.
LEMMA Third ==
  ASSUME NEW n \in Nat, NEW k \in 1 .. n, k # 1, k # 2
  PROVE  2 \in 1 .. k - 1 /\ \A m \in 2 + 1 .. k - 1 : m \in 3 .. n
  OBVIOUS

\* A backup reads the files first.
LEMMA ReadsFirst ==
  ASSUME NEW plan, NEW n \in Nat, DOMAIN plan = 1 .. n, plan[1] = "read files",
         \A k \in 3 .. n : plan[k] \notin PlaceSteps \union {"read db"}
  PROVE  Guarded(plan, PlaceSteps \union {"read db"}, {"copy server", "read files"}, KeptSteps, FALSE)
<1>1. "read files" \notin PlaceSteps \union {"read db"}
  BY DEF PlaceSteps
<1>2. ASSUME NEW k \in DOMAIN plan, plan[k] \in PlaceSteps \union {"read db"}
      PROVE  1 \in 1 .. k - 1 /\ \A m \in 1 + 1 .. k - 1 : plan[m] \notin KeptSteps
  <2>1. k # 1 /\ k \notin 3 .. n
    BY <1>1, <1>2
  <2>2. k \in 1 .. n
    BY <1>2
  <2> QED BY <2>1, <2>2, Second
<1> QED BY <1>2 DEF Guarded

\* A restore copies the server before it places anything.
LEMMA CopyFirst ==
  ASSUME NEW plan, NEW n \in Nat, DOMAIN plan = 1 .. n, plan[1] \notin PlaceSteps \union {"read db"}, plan[2] = "copy server",
         \A k \in 3 .. n : plan[k] \notin KeptSteps
  PROVE  Guarded(plan, PlaceSteps \union {"read db"}, {"copy server", "read files"}, KeptSteps, FALSE)
<1>1. "copy server" \notin PlaceSteps \union {"read db"}
  BY DEF PlaceSteps
<1>2. ASSUME NEW k \in DOMAIN plan, plan[k] \in PlaceSteps \union {"read db"}
      PROVE  2 \in 1 .. k - 1 /\ \A m \in 2 + 1 .. k - 1 : plan[m] \notin KeptSteps
  <2>1. k # 1 /\ k # 2 /\ k \in 1 .. n
    BY <1>1, <1>2
  <2>2. 2 \in 1 .. k - 1 /\ \A m \in 2 + 1 .. k - 1 : m \in 3 .. n
    BY <2>1, Third
  <2> QED BY <2>2
<1> QED BY <1>2 DEF Guarded

\* A backup begins in order.
LEMMA BackupJob ==
         JobFine(Unlocked("backup", Nothing, <<"read files", "read db">>))
<1> DEFINE plan == <<"read files", "read db">>
           S == {"read files", "read db"}
           c == Unlocked("backup", Nothing, plan)
<1>0. Made(c, "backup", Nothing, plan)
  BY CommandIs
<1>1. plan \in Seq(S)
  OBVIOUS
<1>2. S \subseteq Names
  BY DEF Names, Uses, Others
<1>3. Guarded(plan, PlaceSteps \union {"read db"}, {"copy server", "read files"}, KeptSteps, FALSE)
  <2>1. DOMAIN plan = 1 .. 2 /\ plan[1] = "read files"
    OBVIOUS
  <2>2. 2 \in Nat /\ \A k \in 3 .. 2 : plan[k] \notin PlaceSteps \union {"read db"}
    OBVIOUS
  <2> HIDE DEF plan, S
  <2> QED BY <2>1, <2>2, ReadsFirst
<1>4. plan \in Seq(Names)
  <2> HIDE DEF plan, S
  <2> QED BY <1>1, <1>2, SeqIn
<1>5. /\ S \intersect {"save"} = {} /\ S \intersect WasSteps("backup") = {} /\ S \intersect {"rows", "commit"} = {}
      /\ S \intersect {"env"} = {} /\ S \intersect ReadSteps("backup") = {}
      /\ S \intersect {"probe"} = {} /\ S \intersect {"load", "try", "commit"} = {}
  BY DEF WasSteps, ReadSteps, BlockOps
<1>6. S \intersect ({"halt", "copy server"} \union PlaceSteps) = {} /\ S \intersect (UpdateSteps \union SshSteps) = {}
  BY DEF PlaceSteps, UpdateSteps, SshSteps
<1>7. ArgFine("backup", Nothing)
  BY FreeArg DEF FreeOp, RoutingOps, KeepsLoaded, ConnectionOps
<1> HIDE DEF plan, S, c
<1>8. Starts("backup", plan)
  BY <1>1, <1>3, <1>5, Away DEF Starts
<1>9. /\ ~Left(plan, {"probe"}) /\ ~Left(plan, {"load", "try", "commit"})
      /\ ~Left(plan, {"halt", "copy server"} \union PlaceSteps) /\ ~Left(plan, UpdateSteps \union SshSteps)
  BY <1>1, <1>5, <1>6, Away
<1>10. DOMAIN c = Fields /\ c.op = "backup" /\ c.arg = Nothing /\ c.plan = plan /\ c.back = Rolls
  BY <1>0 DEF Made
<1>11. JobFine(c)
  BY <1>4, <1>7, <1>8, <1>9, <1>10, RollsIn, StartsFine
<1> QED BY <1>11 DEF c, plan

\* The steps of a restore.
LEMMA PlacingIs ==
         /\ Placing \in Seq(PlaceSteps \union {"resume"}) /\ Placing \in Seq(Names) /\ BackPlaces(Placing)
         /\ <<"halt", "copy server">> \o Placing \in Seq(Names)
         /\ Guarded(<<"halt", "copy server">> \o Placing, PlaceSteps \union {"read db"}, {"copy server", "read files"}, KeptSteps, FALSE)
<1> DEFINE S == {"place config", "place env", "place db", "place sites", "serve sites", "start", "resume"}
           T == {"halt", "copy server"} \union S
           plan == <<"halt", "copy server">> \o Placing
<1>1. Placing \in Seq(S)
  BY DEF Placing
<1>2. S = PlaceSteps \union {"resume"} /\ S \subseteq Names /\ T \subseteq Names
  BY DEF Names, Uses, Others, PlaceSteps
<1>3. <<"halt", "copy server">> \in Seq(T)
  OBVIOUS
<1>4. Placing \in Seq(T)
  <2>1. S \subseteq T
    OBVIOUS
  <2> HIDE DEF S, T
  <2> QED BY <1>1, <2>1, SeqIn
<1>5. plan \in Seq(T)
  <2> HIDE DEF S, T
  <2> QED BY <1>3, <1>4, ConcatIn
<1>6. Guarded(plan, PlaceSteps \union {"read db"}, {"copy server", "read files"}, KeptSteps, FALSE)
  <2>0. plan = <<"halt", "copy server">> \o Placing
    OBVIOUS
  <2>6. plan[1] = "halt"
    BY DEF Placing
  <2>7. plan[2] = "copy server"
    BY DEF Placing
  <2>1. S \intersect KeptSteps = {} /\ "halt" \notin PlaceSteps \union {"read db"}
    BY DEF KeptSteps, PlaceSteps
  <2> HIDE DEF plan, S
  <2>2. DOMAIN plan = 1 .. Len(Placing) + 2
    BY <1>1, <2>0, AfterTwo
  <2>3. Len(Placing) \in Nat
    BY <1>1
  <2>4. \A i \in 3 .. Len(Placing) + 2 : plan[i] \in S
    BY <1>1, <2>0, AfterTwo
  <2>5. Len(Placing) + 2 \in Nat
    BY <2>3
  <2>8. \A i \in 3 .. Len(Placing) + 2 : plan[i] \notin KeptSteps
    BY <2>1, <2>4
  <2> DEFINE n == Len(Placing) + 2
  <2> HIDE DEF n
  <2>9. n \in Nat /\ DOMAIN plan = 1 .. n /\ \A i \in 3 .. n : plan[i] \notin KeptSteps
    BY <2>2, <2>5, <2>8 DEF n
  <2> QED BY <2>1, <2>6, <2>7, <2>9, CopyFirst
<1>7. plan \in Seq(Names) /\ Placing \in Seq(Names)
  <2> HIDE DEF plan, S, T
  <2> QED BY <1>1, <1>2, <1>5, SeqIn
<1>8. BackPlaces(Placing)
  <2> HIDE DEF S
  <2>1. \A i \in DOMAIN Placing : Placing[i] \in S
    BY <1>1
  <2>2. S = PlaceSteps \union {"resume"}
    BY <1>2
  <2> QED BY <2>1, <2>2 DEF BackPlaces
<1>9. Placing \in Seq(PlaceSteps \union {"resume"})
  <2> HIDE DEF S
  <2> QED BY <1>1, <1>2
<1> QED BY <1>6, <1>7, <1>8, <1>9

\* A restore begins in order.
LEMMA RestoreJob ==
  ASSUME NEW a, ArchiveFine(a)
  PROVE  JobFine([Command("restore", a, <<"halt", "copy server">> \o Placing) EXCEPT !.back = Placing])
<1> DEFINE plan == <<"halt", "copy server">> \o Placing
           c == Command("restore", a, plan)
           d == [c EXCEPT !.back = Placing]
           S == {"halt", "copy server", "place config", "place env", "place db", "place sites", "serve sites", "start", "resume"}
<1>0. Made(c, "restore", a, plan)
  BY CommandIs
<1> HIDE DEF c
<1>1. DOMAIN d = Fields /\ d.op = "restore" /\ d.arg = a /\ d.plan = plan /\ d.back = Placing
  <2> HIDE DEF plan
  <2> QED BY <1>0 DEF Made, Fields
<1>2. plan \in Seq(S)
  <2>1. S = {"halt", "copy server"} \union PlaceSteps \union {"resume"}
    BY DEF PlaceSteps
  <2>2. <<"halt", "copy server">> \in Seq(S)
    OBVIOUS
  <2>3. Placing \in Seq(S)
    <3> HIDE DEF S
    <3> QED BY <2>1, PlacingIs, SeqIn
  <2> HIDE DEF S
  <2> QED BY <2>2, <2>3, ConcatIn
<1>5. /\ S \intersect {"save"} = {} /\ S \intersect WasSteps("restore") = {} /\ S \intersect {"rows", "commit"} = {}
      /\ S \intersect {"env"} = {} /\ S \intersect ReadSteps("restore") = {}
      /\ S \intersect {"probe"} = {} /\ S \intersect {"load", "try", "commit"} = {}
  BY DEF WasSteps, ReadSteps, BlockOps
<1>6. S \intersect (UpdateSteps \union SshSteps) = {}
  BY DEF UpdateSteps, SshSteps
<1>7. ArgFine("restore", a)
  BY DEF ArgFine, BypassOps, ConnectionOps
<1>8. Guarded(plan, PlaceSteps \union {"read db"}, {"copy server", "read files"}, KeptSteps, FALSE) /\ plan \in Seq(Names)
      /\ Placing \in Seq(Names) /\ BackPlaces(Placing)
  BY PlacingIs
<1> HIDE DEF plan, S, d
<1>9. Starts("restore", plan)
  BY <1>2, <1>5, <1>8, Away DEF Starts
<1>10. /\ ~Left(plan, {"probe"}) /\ ~Left(plan, {"load", "try", "commit"}) /\ ~Left(plan, UpdateSteps \union SshSteps)
  BY <1>2, <1>5, <1>6, Away
<1>11. JobFine(d)
  BY <1>1, <1>7, <1>8, <1>9, <1>10, StartsFine
<1> QED BY <1>11 DEF d, c, plan

\* Backups begins with a plan in order.
LEMMA BackupsBegins ==
  ASSUME VInv, NEW p \in Procs, Backups(p), UNCHANGED <<routingVars, saved>>
  PROVE  VInv'
<1>1. saved # Nothing => JobFine([Command("restore", saved, <<"halt", "copy server">> \o Placing) EXCEPT !.back = Placing])
  BY RestoreJob DEF VInv, StateFine
<1> QED BY <1>1, BackupJob, BeginsFine DEF Backups

\* The commands of Caddy begin in order.
LEMMA SitesBegin ==
  ASSUME VInv, NEW p \in Procs, UNCHANGED <<routingVars, saved>>,
         CreateSite(p) \/ SiteUpstream(p) \/ SiteTls(p) \/ SiteDomain(p) \/ DeleteSite(p) \/ CaddyBackups(p) \/ RandomTls(p)
  PROVE  VInv'
<1> DEFINE Ops == {"site create", "site upstream", "site tls", "site domain", "site delete", "caddy backup", "caddy restore", "tls switch"}
<1>1. \A op \in Ops : FreeOp(op)
  BY DEF FreeOp, RoutingOps, KeepsLoaded, ConnectionOps
<1>2. /\ Served \in Seq(QuietSteps) /\ <<"archive">> \in Seq(QuietSteps)
      /\ <<"extract", "serve">> \in Seq(QuietSteps) /\ <<"seek">> \o Served \in Seq(QuietSteps)
  BY DEF QuietSteps, Served
<1>3. \A arg : \A op \in Ops : /\ JobFine(Unlocked(op, arg, Served)) /\ JobFine(Unlocked(op, arg, <<"archive">>))
                               /\ JobFine(Unlocked(op, arg, <<"extract", "serve">>)) /\ JobFine(Unlocked(op, arg, <<"seek">> \o Served))
  BY <1>1, <1>2, QuietCommand
<1> QED BY <1>3, BeginsFine DEF CreateSite, SiteUpstream, SiteTls, SiteDomain, DeleteSite, CaddyBackups, RandomTls

\* Panel begins with a plan in order.
LEMMA PanelBegins ==
  ASSUME VInv, NEW p \in Procs, Tap(p) \/ Type(p), UNCHANGED <<routingVars, saved>>
  PROVE  VInv'
<1>1. FreeOp("panel")
  BY DEF FreeOp, RoutingOps, KeepsLoaded, ConnectionOps
<1>2. <<"accept", "act">> \in Seq(QuietSteps) /\ <<"act">> \in Seq(QuietSteps)
  BY DEF QuietSteps
<1>3. \A arg : JobFine(Unlocked("panel", arg, <<"accept", "act">>)) /\ JobFine(Unlocked("panel", arg, <<"act">>))
  BY <1>1, <1>2, QuietCommand
<1> QED BY <1>3, BeginsFine DEF Tap, Type, Update

\* So do the updates and the rollbacks.
LEMMA UpdatesBegin ==
  ASSUME VInv, NEW p \in Procs, UNCHANGED <<routingVars, saved>>,
         UpdateXray(p) \/ UpdateAssets(p) \/ RollbackXray(p) \/ UpdateManager(p) \/ RollbackManager(p)
  PROVE  VInv'
<1>1. \A op \in {"xray update", "assets update", "xray rollback", "manager update", "manager rollback"} : FreeOp(op)
  BY DEF FreeOp, RoutingOps, KeepsLoaded, ConnectionOps
<1>2. /\ <<"ready", "fetch", "keep", "place bin", "place geo", "restart">> \in Seq(UpkeepSteps)
      /\ <<"fetch", "set aside", "place geo", "restart">> \in Seq(UpkeepSteps) /\ <<"place geo", "restart">> \in Seq(UpkeepSteps)
      /\ <<"place bin", "place geo", "restart">> \in Seq(UpkeepSteps) /\ <<>> \in Seq(UpkeepSteps)
      /\ <<"obtain", "begin copy", "end copy">> \o Install \in Seq(UpkeepSteps) /\ Reinstall \in Seq(UpkeepSteps)
      /\ <<"choose">> \o Install \in Seq(UpkeepSteps)
  BY DEF UpkeepSteps, UpdateSteps, SshSteps, Install, Reinstall
<1>3. CASE UpdateXray(p)
  BY <1>1, <1>2, <1>3, UpkeepCommand, BeginsFine DEF UpdateXray
<1>4. CASE UpdateAssets(p)
  BY <1>1, <1>2, <1>4, UpkeepCommand, BeginsFine DEF UpdateAssets
<1>5. CASE RollbackXray(p)
  BY <1>1, <1>2, <1>5, UpkeepCommand, BeginsFine DEF RollbackXray
<1>6. CASE UpdateManager(p)
  BY <1>1, <1>2, <1>6, UpkeepCommand, BeginsFine DEF UpdateManager
<1>7. CASE RollbackManager(p)
  BY <1>1, <1>2, <1>7, UpkeepCommand, BeginsFine DEF RollbackManager
<1> QED BY <1>3, <1>4, <1>5, <1>6, <1>7

\* SshItem begins with a plan in order.
LEMMA SshItemBegins ==
  ASSUME VInv, NEW p \in Procs, SshItem(p), UNCHANGED <<routingVars, saved>>
  PROVE  VInv'
<1>1. PICK op \in SshOps :
        Begin(p, [Unlocked(op, Wanted(op), <<"texts">> \o Edits(op) \o <<"ask sshd", "reload sshd">>)
                    EXCEPT !.back = PutBacks \o <<"reload old">>])
  BY DEF SshItem
<1>2. FreeOp(op)
  BY DEF FreeOp, RoutingOps, KeepsLoaded, ConnectionOps, SshOps
<1>3. Edits(op) \in Seq(UpkeepSteps) /\ PutBacks \in Seq(UpkeepSteps) /\ <<"texts">> \in Seq(UpkeepSteps)
      /\ <<"ask sshd", "reload sshd">> \in Seq(UpkeepSteps) /\ <<"reload old">> \in Seq(UpkeepSteps)
  <2>1. Edits(op) = <<"dropin", "include", "legacy">> \/ Edits(op) = <<"include", "dropin", "legacy">>
    BY DEF Edits
  <2>2. <<"dropin", "include", "legacy">> \in Seq(UpkeepSteps) /\ <<"include", "dropin", "legacy">> \in Seq(UpkeepSteps)
    BY DEF UpkeepSteps, SshSteps
  <2>3. PutBacks \in Seq(UpkeepSteps)
    BY DEF UpkeepSteps, SshSteps, PutBacks
  <2>4. <<"texts">> \in Seq(UpkeepSteps) /\ <<"ask sshd", "reload sshd">> \in Seq(UpkeepSteps) /\ <<"reload old">> \in Seq(UpkeepSteps)
    BY DEF UpkeepSteps, SshSteps
  <2> QED BY <2>1, <2>2, <2>3, <2>4, Zenon
<1>4. <<"texts">> \o Edits(op) \o <<"ask sshd", "reload sshd">> \in Seq(UpkeepSteps) /\ PutBacks \o <<"reload old">> \in Seq(UpkeepSteps)
  BY <1>3, ConcatIn
<1>5. JobFine([Unlocked(op, Wanted(op), <<"texts">> \o Edits(op) \o <<"ask sshd", "reload sshd">>)
                    EXCEPT !.back = PutBacks \o <<"reload old">>])
  BY <1>2, <1>4, UpkeepCommand
<1> QED BY <1>1, <1>5, BeginsFine

-----------------------------------------------------------------------------
(***************************************************************************)
(* Every step keeps the invariant.                                         *)
(***************************************************************************)
\* What the next step needs.
LEMMA HeadFine ==
  ASSUME NEW j, JobFine(j), j.plan # <<>>, NEW h, h = Head(j.plan)
  PROVE  /\ h = "save" => NewFine(j)
         /\ h \in WasSteps(j.op) => WasFine(j)
         /\ h \in {"rows", "commit"} => RowsFine(j)
         /\ h = "env" => EnvGood(j)
         /\ h \in ReadSteps(j.op) => ActiveFine(j)
         /\ h \in PlaceSteps \union {"read db"} => KeptFine(j)
         /\ h = "probe" => j.arg \in Probed
         /\ h \in {"load", "try", "commit"} => RollsBack(j)
         /\ h \in {"halt", "copy server"} \union PlaceSteps => j.op = "restore" /\ BackPlaces(j.back)
         /\ h \in UpdateSteps \union SshSteps => Harmless(j.back)
<1>1. j.plan \in Seq(Names) /\ PlanFine(j, j.plan)
  BY DEF JobFine
<1>2. /\ NewFine(j) \in BOOLEAN /\ WasFine(j) \in BOOLEAN /\ RowsFine(j) \in BOOLEAN /\ EnvGood(j) \in BOOLEAN
      /\ ActiveFine(j) \in BOOLEAN /\ KeptFine(j) \in BOOLEAN
  BY AllBoolean
<1>3. \A u, m, r : \A P \in BOOLEAN : Guarded(j.plan, u, m, r, P) /\ h \in u => P
  BY <1>1, GuardedHead
<1>4. \A steps : h \in steps => Left(j.plan, steps)
  BY <1>1, LeftTail
<1>5. /\ h = "save" => NewFine(j)
      /\ h \in WasSteps(j.op) => WasFine(j)
      /\ h \in {"rows", "commit"} => RowsFine(j)
      /\ h = "env" => EnvGood(j)
  BY <1>1, <1>2, <1>3 DEF PlanFine
<1>6. /\ h \in ReadSteps(j.op) => ActiveFine(j)
      /\ h \in PlaceSteps \union {"read db"} => KeptFine(j)
  BY <1>1, <1>2, <1>3 DEF PlanFine
<1>7. /\ h = "probe" => j.arg \in Probed
      /\ h \in {"load", "try", "commit"} => RollsBack(j)
      /\ h \in {"halt", "copy server"} \union PlaceSteps => j.op = "restore" /\ BackPlaces(j.back)
      /\ h \in UpdateSteps \union SshSteps => Harmless(j.back)
  BY <1>1, <1>4 DEF PlanFine
<1> QED BY <1>5, <1>6, <1>7

\* The steps that put back.
BackSteps == {"undo", "redo", "unprobe", "take back", "reload", "uncommit"}

\* The plan to put a config back.
LEMMA RollsPlan ==
  ASSUME NEW plan, plan = Rolls
  PROVE  /\ plan \in Seq(BackSteps)
         /\ Guarded(plan, Backs, {"save", "probe"}, {"load", "unprobe"}, TRUE)
<1>1. plan \in Seq(BackSteps)
  BY DEF Rolls, BackSteps
<1>2. Guarded(plan, Backs, {"save", "probe"}, {"load", "unprobe"}, TRUE)
  BY DEF Rolls, Guarded, Backs
<1> QED BY <1>1, <1>2

\* The plan to end a test.
LEMMA UnprobePlan ==
  ASSUME NEW plan, plan = <<"unprobe", "redo">>
  PROVE  /\ plan \in Seq(BackSteps)
         /\ Guarded(plan, Backs, {"save", "probe"}, {"load", "unprobe"}, TRUE)
<1>1. plan \in Seq(BackSteps)
  BY DEF BackSteps
<1>2. Guarded(plan, Backs, {"save", "probe"}, {"load", "unprobe"}, TRUE)
  BY DEF Guarded, Backs
<1> QED BY <1>1, <1>2

\* The plan to put back a change of a connection and its site, as a sequence.
LEMMA TrojanBack ==
         <<"take back", "reload", "undo", "redo", "uncommit">> \in Seq({"undo", "redo", "take back", "reload", "uncommit"})
  BY SMT

\* Nothing of a plan without resets takes a good value away.
LEMMA GoodAll ==
  ASSUME NEW S, NEW plan \in Seq(S), NEW uses, NEW makes, NEW resets, S \intersect resets = {}
  PROVE  Guarded(plan, uses, makes, resets, TRUE)
<1>1. DOMAIN plan = 1 .. Len(plan) /\ Len(plan) \in Nat /\ \A i \in 1 .. Len(plan) : plan[i] \in S
  OBVIOUS
<1>2. ASSUME NEW k \in DOMAIN plan, NEW m \in 1 .. k - 1 PROVE plan[m] \notin resets
  <2>1. m \in 1 .. Len(plan)
    BY <1>1
  <2> QED BY <1>1, <2>1
<1> QED BY <1>2 DEF Guarded

\* Sequences over a larger set.
LEMMA SeqWider ==
  ASSUME NEW S, NEW T, S \subseteq T
  PROVE  Seq(S) \subseteq Seq(T)
  OBVIOUS

\* It is in order.
LEMMA TrojanPlan ==
  ASSUME NEW plan, plan = <<"take back", "reload", "undo", "redo", "uncommit">>
  PROVE  /\ plan \in Seq(BackSteps)
         /\ Guarded(plan, Backs, {"save", "probe"}, {"load", "unprobe"}, TRUE)
<1> DEFINE S == {"undo", "redo", "take back", "reload", "uncommit"}
<1>1. plan \in Seq(S)
  BY TrojanBack, Zenon
<1>2. S \subseteq BackSteps /\ S \intersect {"load", "unprobe"} = {}
  BY DEF BackSteps
<1>3. plan \in Seq(BackSteps)
  <2> HIDE DEF S
  <2>1. Seq(S) \subseteq Seq(BackSteps)
    BY <1>2, SeqWider
  <2> QED BY <1>1, <2>1, Zenon
<1>4. Guarded(plan, Backs, {"save", "probe"}, {"load", "unprobe"}, TRUE)
  <2> HIDE DEF S
  <2> QED BY <1>1, <1>2, GoodAll, Zenon
<1> QED BY <1>3, <1>4

\* What is put back after a failed start or a probe without an answer.
LEMMA RollsFine ==
  ASSUME NEW k, DOMAIN k = Fields, ArgFine(k.op, k.arg), k.back \in Seq(Names), WasFine(k),
         k.plan \in {Rolls, <<"unprobe", "redo">>, <<"take back", "reload", "undo", "redo", "uncommit">>}
  PROVE  JobFine(k)
<1> DEFINE S == BackSteps
<1>1. k.plan \in Seq(S) /\ Guarded(k.plan, Backs, {"save", "probe"}, {"load", "unprobe"}, TRUE)
  BY RollsPlan, UnprobePlan, TrojanPlan
<1>2. S \subseteq Names
  BY DEF BackSteps, Names, Uses, Others
<1>3. /\ S \intersect {"save"} = {} /\ S \intersect {"rows", "commit"} = {}
      /\ S \intersect {"env"} = {} /\ S \intersect ReadSteps(k.op) = {} /\ S \intersect (PlaceSteps \union {"read db"}) = {}
      /\ S \intersect {"probe"} = {} /\ S \intersect {"load", "try", "commit"} = {} /\ S \intersect ({"halt", "copy server"} \union PlaceSteps) = {}
  BY DEF BackSteps, PlaceSteps, ReadSteps
<1>4. S \intersect (UpdateSteps \union SshSteps) = {}
  BY DEF BackSteps, UpdateSteps, SshSteps
<1>5. WasFine(k) = TRUE /\ WasSteps(k.op) \subseteq Backs
  BY AllBoolean DEF WasSteps, Backs
<1>6. Guarded(k.plan, WasSteps(k.op), {"save", "probe"}, {"load", "unprobe"}, WasFine(k))
  BY <1>1, <1>5, Narrower
<1> HIDE DEF S
<1>7. \A T : S \intersect T = {} => ~Left(k.plan, T) /\ \A m, r, P : Guarded(k.plan, T, m, r, P)
  BY <1>1, Away
<1>8. k.plan \in Seq(Names)
  BY <1>1, <1>2, SeqIn
<1>9. PlanFine(k, k.plan)
  BY <1>3, <1>4, <1>6, <1>7 DEF PlanFine
<1> QED BY <1>8, <1>9 DEF JobFine

-----------------------------------------------------------------------------
\* Save keeps the invariant.
LEMMA SaveFine ==
  ASSUME VInv, NEW p \in Procs, Save(p), UNCHANGED <<routingVars, saved>>
  PROVE  VInv'
<1> DEFINE j == job[p]
           k == [Next1(j) EXCEPT !.was = Backup(p)]
<1>1. JobFine(j) /\ DOMAIN j = Fields /\ Usable(config)
  BY InFine DEF VInv, StateFine
<1>2. j.plan # <<>> /\ Head(j.plan) = "save" /\ config' = j.new /\ Then(p, k)
  BY DEF Save, At
<1>3. NewFine(j)
  BY <1>1, <1>2, HeadFine
<1>4. Usable(Backup(p))
  BY <1>1, <1>3 DEF Backup, NewFine
<1>5. /\ DOMAIN k = Fields /\ k.op = j.op /\ k.arg = j.arg /\ k.plan = Tail(j.plan) /\ k.back = j.back
      /\ k.new = j.new /\ k.env = j.env /\ k.was = Backup(p) /\ k.rows = j.rows /\ k.kept = j.kept
  BY <1>1 DEF Next1, Fields
<1> HIDE DEF j, k
<1>6. JobFine(k)
  BY <1>1, <1>2, <1>4, <1>5, NextFine DEF WasFine
<1>7. JobsFine'
  BY <1>2, <1>6, ThenFine DEF VInv
<1>8. StateFine'
  BY <1>2, <1>3 DEF VInv, StateFine, StoresFine, routingVars, NewFine, Usable, Sound
<1> QED BY <1>7, <1>8 DEF VInv

\* Try keeps the invariant.
LEMMA TryFine ==
  ASSUME VInv, NEW p \in Procs, Try(p), UNCHANGED <<routingVars, saved>>
  PROVE  VInv'
<1> DEFINE j == job[p]
           k == [j EXCEPT !.plan = j.back]
<1>1. JobFine(j) /\ DOMAIN j = Fields
  BY InFine DEF VInv
<1>2. j.plan # <<>> /\ Head(j.plan) = "try" /\ (Then(p, Next1(j)) \/ Then(p, k)) /\ UNCHANGED config
  BY DEF Try, At, Follow
<1>5. DOMAIN k = Fields /\ k.op = j.op /\ k.arg = j.arg /\ k.plan = j.back /\ k.back = j.back /\ k.was = j.was
  BY <1>1 DEF Fields
<1> HIDE DEF j, k
<1>3. WasFine(j) /\ j.back = Rolls
  <2>1. "try" \in WasSteps(j.op)
    BY DEF WasSteps
  <2> QED BY <1>1, <1>2, <2>1, HeadFine DEF RollsBack
<1>4. JobFine(Next1(j))
  BY <1>1, <1>2, FollowFine
<1>6. JobFine(k)
  BY <1>1, <1>3, <1>5, RollsFine DEF JobFine, WasFine
<1>7. JobsFine'
  BY <1>2, <1>4, <1>6, ThenFine DEF VInv
<1>8. StateFine'
  BY <1>2, StillFine DEF VInv, routingVars
<1> QED BY <1>7, <1>8 DEF VInv

\* Undo keeps the invariant.
LEMMA UndoFine ==
  ASSUME VInv, NEW p \in Procs, Undo(p), UNCHANGED <<routingVars, saved>>
  PROVE  VInv'
<1> DEFINE j == job[p]
<1>1. JobFine(j) /\ DOMAIN j = Fields
  BY InFine DEF VInv
<1>2. j.plan # <<>> /\ Head(j.plan) = "undo" /\ Then(p, Next1(j)) /\ config' = j.was
  BY DEF Undo, At, Follow
<1> HIDE DEF j
<1>3. WasFine(j)
  <2>1. "undo" \in WasSteps(j.op)
    BY DEF WasSteps
  <2> QED BY <1>1, <1>2, <2>1, HeadFine
<1>4. JobFine(Next1(j))
  BY <1>1, <1>2, FollowFine
<1>7. JobsFine'
  BY <1>2, <1>4, ThenFine DEF VInv
<1>8. StateFine'
  BY <1>2, <1>3 DEF VInv, StateFine, StoresFine, routingVars, WasFine, Usable, Sound
<1> QED BY <1>7, <1>8 DEF VInv

\* Redo keeps the invariant.
LEMMA RedoFine ==
  ASSUME VInv, NEW p \in Procs, Redo(p), UNCHANGED <<routingVars, saved>>
  PROVE  VInv'
<1> DEFINE j == job[p]
           k == [j EXCEPT !.plan = <<>>]
<1>1. JobFine(j) /\ DOMAIN j = Fields
  BY InFine DEF VInv
<1>2. j.plan # <<>> /\ Head(j.plan) = "redo" /\ (Then(p, Next1(j)) \/ Then(p, k)) /\ UNCHANGED config
  BY DEF Redo, At, Follow
<1>6. JobFine(k)
  BY <1>1, EndFine
<1> HIDE DEF j, k
<1>4. JobFine(Next1(j))
  BY <1>1, <1>2, FollowFine
<1>7. JobsFine'
  BY <1>2, <1>4, <1>6, ThenFine DEF VInv
<1>8. StateFine'
  BY <1>2, StillFine DEF VInv, routingVars
<1> QED BY <1>7, <1>8 DEF VInv

\* A command that is refused, killed, or cut while it puts config.json back.
LEMMA StopsFine ==
  ASSUME VInv, NEW p \in Procs, Refused(p) \/ Kill(p) \/ CutBack(p), UNCHANGED <<routingVars, saved>>
  PROVE  VInv'
<1> USE DEF Refused, Kill, CutBack, Dies, VInv
<1>1. JobsFine'
  BY IdlesFine
<1>2. Usable(config)'
  BY DEF files, StateFine, Usable, Sound
<1> QED BY <1>1, <1>2 DEF StateFine, StoresFine, routingVars

\* The steps of apply_config keep the invariant.
LEMMA StepFine ==
  ASSUME VInv, NEW p \in Procs, Step(p), UNCHANGED <<routingVars, saved>>
  PROVE  VInv'
  BY SaveFine, TryFine, UndoFine, RedoFine, StopsFine DEF Step

\* What a command computes from the files it loads is sound.
LEMMA OutcomeSound ==
  ASSUME VInv, Readable, NEW j, ArgFine(j.op, j.arg), j.op \in RoutingOps, Allowed(j), j.op \in BlockOps => ActiveFine(j)
  PROVE  Given(Outcome(j))
<1>1. StoresFine /\ Sound(config)
  BY DEF VInv, StateFine, Readable, Usable
<1>2. CASE j.op \in {"cascade add", "cascade use", "cascade remove", "cascade off"}
  <2>1. j.op # "cascade off" => j.arg \in Cascades
    BY <1>2 DEF ArgFine
  <2>2. j.op = "cascade use" => j.arg \in Tags(config)
    BY DEF Allowed
  <2>3. /\ j.op = "cascade add" => Outcome(j) = CascadeAdd(j.arg)
        /\ j.op = "cascade use" => Outcome(j) = CascadeUse(j.arg)
        /\ j.op = "cascade remove" => Outcome(j) = CascadeRemove(j.arg)
        /\ j.op = "cascade off" => Outcome(j) = CascadeOff
    BY DEF Outcome
  <2> QED BY <1>1, <1>2, <2>1, <2>2, <2>3, CascadeAddSound, CascadeUseSound, CascadeRemoveSound, CascadeOffSound
<1>3. CASE j.op \in {"warp create", "warp enable", "warp disable", "warp remove"}
  <2>1. /\ j.op = "warp create" => Outcome(j) = Gives(WithWarp(config))
        /\ j.op = "warp enable" => Outcome(j) = WarpEnable
        /\ j.op = "warp disable" => Outcome(j) = WarpDisable
        /\ j.op = "warp remove" => Outcome(j) = WarpRemove
    BY DEF Outcome
  <2>2. Given(Gives(WithWarp(config)))
    BY <1>1, WithWarpSound, GivesSound
  <2> QED BY <1>1, <1>3, <2>1, <2>2, WarpEnableSound, WarpDisableSound, WarpRemoveSound
<1>4. CASE j.op \in BypassOps
  <2>1. j.arg.tag \in Bypasses /\ j.arg.region \in Regions
    BY <1>4 DEF ArgFine
  <2>2. /\ j.op = "bypass add" => Outcome(j) = BypassAdd(j.arg.tag, j.arg.region)
        /\ j.op = "bypass enable" => Outcome(j) = BypassEnable(j.arg.tag, j.arg.region)
        /\ j.op = "bypass region" => Outcome(j) = BypassRegion(j.arg.tag, j.arg.region)
        /\ j.op = "bypass disable" => Outcome(j) = BypassDisable(j.arg.tag)
        /\ j.op = "bypass remove" => Outcome(j) = BypassRemove(j.arg.tag)
    BY DEF Outcome
  <2>3. j.op \in {"bypass add", "bypass enable", "bypass region", "bypass disable", "bypass remove"}
    BY <1>4 DEF BypassOps
  <2> QED BY <1>1, <2>1, <2>2, <2>3, BypassAddSound, BypassEnableSound, BypassRegionSound, BypassDisableSound, BypassRemoveSound
<1>5. CASE j.op \in {"watch", "unwatch", "torrents"}
  <2>1. /\ j.op = "watch" => Outcome(j) = Watch(j.arg)
        /\ j.op = "unwatch" => Outcome(j) = Unwatch
        /\ j.op = "torrents" => Outcome(j) = Gives(Torrents(config, j.arg))
    BY DEF Outcome
  <2>2. (j.op = "watch" => j.arg \in Regions) /\ (j.op = "torrents" => j.arg \in BOOLEAN)
    BY DEF ArgFine
  <2>3. j.op = "torrents" => Given(Gives(Torrents(config, j.arg)))
    BY <1>1, <2>2, TorrentsSound, GivesSound
  <2> QED BY <1>1, <1>5, <2>1, <2>2, <2>3, WatchSound, UnwatchSound
<1>6. CASE j.op \in BlockOps
  <2>1. Outcome(j) = Gives(SyncBlocks(config, j.rows.active, j.rows.known))
    BY <1>6 DEF Outcome, BlockOps
  <2>2. j.rows.active \in SUBSET Targets
    BY <1>6 DEF ActiveFine
  <2> QED BY <1>1, <2>1, <2>2, SyncBlocksSound, GivesSound
<1> QED BY <1>2, <1>3, <1>4, <1>5, <1>6 DEF RoutingOps, KeepsLoaded, BypassOps, BlockOps

\* The rest of a bypass command that changes no config.
LEMMA RowsEnvPlan ==
  ASSUME NEW k, DOMAIN k = Fields, ArgFine(k.op, k.arg), k.back \in Seq(Names), k.plan = <<"rows", "env">>, RowsFine(k), EnvGood(k),
         k.op \notin BlockOps
  PROVE  JobFine(k)
<1> DEFINE S == {"rows", "env"}
           plan == k.plan
<1>1. plan \in Seq(S) /\ DOMAIN plan = 1 .. 2 /\ plan[1] = "rows" /\ plan[2] = "env"
  OBVIOUS
<1> HIDE DEF plan
<1>2. S \subseteq Names
  BY DEF Names, Uses, Others
<1>3. /\ S \intersect {"save"} = {} /\ S \intersect WasSteps(k.op) = {}
      /\ S \intersect ReadSteps(k.op) = {} /\ S \intersect (PlaceSteps \union {"read db"}) = {}
      /\ S \intersect {"probe"} = {} /\ S \intersect {"load", "try", "commit"} = {} /\ S \intersect ({"halt", "copy server"} \union PlaceSteps) = {}
  BY DEF PlaceSteps, ReadSteps, WasSteps
<1>4. S \intersect (UpdateSteps \union SshSteps) = {}
  BY DEF UpdateSteps, SshSteps
<1>5. RowsFine(k) = TRUE /\ EnvGood(k) = TRUE
  BY AllBoolean
<1>6. Guarded(plan, {"rows", "commit"}, {"load"}, RowsSteps, TRUE)
  <2>1. \A i \in DOMAIN plan : plan[i] \in S
    BY <1>1
  <2>2. S \intersect RowsSteps = {}
    BY DEF RowsSteps
  <2>3. \A i \in 1 .. 2 : 1 .. i - 1 \subseteq 1 .. 2
    OBVIOUS
  <2> HIDE DEF S
  <2>4. \A i \in DOMAIN plan : \A m \in 1 .. i - 1 : plan[m] \notin RowsSteps
    BY <1>1, <2>1, <2>2, <2>3
  <2> QED BY <2>4 DEF Guarded
<1>7. Guarded(plan, {"env"}, {"load"}, {}, TRUE)
  BY DEF Guarded
<1> HIDE DEF S
<1>8. \A T : S \intersect T = {} => ~Left(plan, T) /\ \A m, r, P : Guarded(plan, T, m, r, P)
  BY <1>1, Away
<1>9. plan \in Seq(Names)
  BY <1>1, <1>2, SeqIn
<1>10. PlanFine(k, plan)
  BY <1>3, <1>4, <1>5, <1>6, <1>7, <1>8 DEF PlanFine
<1> QED BY <1>9, <1>10 DEF JobFine, plan

\* The job after a load.
Loaded(j, k, g, plan) ==
  /\ DOMAIN k = Fields /\ k.op = j.op /\ k.arg = j.arg /\ k.back = j.back /\ k.plan = plan /\ k.kept = j.kept
  /\ k.new = g.config /\ k.was \in {config, Nothing} /\ k.rows.choice = g.choice /\ k.rows.routes = g.routes /\ k.env = g.env

\* The plan of a test.
LEMMA TrialIs ==
         Trial \in Seq({"probe", "unprobe", "redo"})
  BY DEF Trial

\* A command that has loaded, with what it will write, goes on in order.
LEMMA LoadedFine ==
  ASSUME VInv, NEW j, JobFine(j), j.plan # <<>>, Head(j.plan) = "load", NEW g, Given(g), NEW k,
         NEW plan, Loaded(j, k, g, plan),
         \/ plan = Tail(j.plan)
         \/ plan = Trial /\ j.op = "warp disable"
         \/ plan = <<"rows", "env">> /\ j.op = "bypass region"
         \/ plan = <<>>
  PROVE  JobFine(k)
<1>1. NewFine(k) /\ RowsFine(k) /\ EnvGood(k)
  BY DEF Loaded, Given, NewFine, RowsFine, EnvGood, VInv, StateFine, Usable
<1>2. DOMAIN k = Fields /\ ArgFine(k.op, k.arg) /\ k.back \in Seq(Names)
  BY DEF Loaded, JobFine, ArgFine
<1>3. CASE plan = Tail(j.plan)
  <2>1. k.op = j.op /\ k.arg = j.arg /\ k.plan = Tail(j.plan) /\ k.back = j.back /\ k.kept = j.kept
    BY <1>3 DEF Loaded
  <2> QED BY <1>1, <1>2, <2>1, NextFine
<1>4. CASE plan = Trial /\ j.op = "warp disable"
  <2>1. k.op = "warp disable" /\ k.plan = Trial
    BY <1>4 DEF Loaded
  <2>2. k.op \notin BlockOps /\ k.arg \in Probed
    BY <1>2, <2>1 DEF BlockOps, ArgFine
  <2>3. k.plan \in Seq(Names) /\ Starts(k.op, k.plan) /\ ~Left(k.plan, Far)
    BY <2>1, <2>2, PlanTrial
  <2>4. ~Left(k.plan, {"load", "try", "commit"})
    <3> DEFINE t == k.plan
    <3>2. t = Trial /\ {"probe", "unprobe", "redo"} \intersect {"load", "try", "commit"} = {}
      BY <2>1
    <3> QED BY <3>2, TrialIs, Away
  <2>5. /\ ~Left(k.plan, {"halt", "copy server"} \union PlaceSteps)
        /\ ~Left(k.plan, UpdateSteps \union SshSteps)
    BY <2>3 DEF Left, Far
  <2> QED BY <1>2, <2>2, <2>3, <2>4, <2>5, StartsFine
<1>5. CASE plan = <<"rows", "env">> /\ j.op = "bypass region"
  <2>1. k.op = "bypass region" /\ k.plan = <<"rows", "env">>
    BY <1>5 DEF Loaded
  <2>2. k.op \notin BlockOps
    BY <2>1 DEF BlockOps
  <2> QED BY <1>1, <1>2, <2>1, <2>2, RowsEnvPlan
<1>6. CASE plan = <<>>
  <2>1. k.plan = <<>> /\ DOMAIN <<>> = {}
    BY <1>6 DEF Loaded
  <2>2. ~Left(k.plan, UpdateSteps \union SshSteps)
    BY <2>1 DEF Left
  <2> QED BY <1>2, <2>1, <2>2, HarmlessEnd, HarmlessFine
<1> QED BY <1>3, <1>4, <1>5, <1>6

\* A value given by cases.
LEMMA FiveWays ==
  ASSUME NEW a \in BOOLEAN, NEW b \in BOOLEAN, NEW c \in BOOLEAN, NEW d \in BOOLEAN, NEW t, NEW u, NEW v, NEW w,
         NEW r, r = CASE a -> t [] b -> u [] c -> t [] d -> v [] OTHER -> w
  PROVE  r = t \/ (r = u /\ b) \/ (r = v /\ d) \/ r = w
  OBVIOUS

\* What Remaining leaves.
LEMMA RemainingIs ==
  ASSUME NEW j, NEW g
  PROVE  \/ Remaining(j, g) = Tail(j.plan)
         \/ Remaining(j, g) = Trial /\ j.op = "warp disable"
         \/ Remaining(j, g) = <<"rows", "env">> /\ j.op = "bypass region"
         \/ Remaining(j, g) = <<>>
<1> DEFINE kept == g.config # config \/ j.op \notin {"bypass region", "block", "unblock", "reconcile", "torrents", "warp disable", "warp remove"}
           off == j.op \in {"warp disable", "warp remove"} /\ First(config) # Nothing
           again == j.op = "bypass region" /\ routes[j.arg.tag].enabled
           more == <<"rows", "env">>
<1>1. CASE kept
  BY <1>1, Zenon DEF Remaining
<1>2. CASE ~kept
  <2>0. Remaining(j, g) = CASE off -> Tail(j.plan)
                            [] j.op = "warp disable" -> Trial
                            [] again -> Tail(j.plan)
                            [] j.op = "bypass region" -> more
                            [] OTHER -> <<>>
    BY <1>2, Zenon DEF Remaining
  <2>1. off \in BOOLEAN /\ again \in BOOLEAN /\ (j.op = "warp disable") \in BOOLEAN /\ (j.op = "bypass region") \in BOOLEAN
    OBVIOUS
  <2> HIDE DEF off, again
  <2> QED BY <2>0, <2>1, FiveWays
<1> QED BY <1>1, <1>2

\* Load keeps the invariant.
LEMMA LoadFine ==
  ASSUME VInv, NEW p \in Procs, Load(p), UNCHANGED saved
  PROVE  VInv'
<1> DEFINE j == job[p]
           g == Outcome(j)
           d == [j EXCEPT !.plan = <<>>]
           k == [j EXCEPT !.plan = Remaining(j, g), !.in = TRUE, !.new = g.config,
                        !.was = IF j.op \in KeepsLoaded THEN config ELSE Nothing,
                        !.rows = [choice |-> g.choice, routes |-> g.routes],
                        !.env = g.env]
<1>1. JobFine(j) /\ DOMAIN j = Fields
  BY InFine DEF VInv
<1>2. /\ j.plan # <<>> /\ Head(j.plan) = "load" /\ j.op \in RoutingOps
      /\ Then(p, d) \/ (Readable /\ Allowed(j) /\ Then(p, k))
      /\ UNCHANGED <<config, choice, routes, env>>
  BY DEF Load, At, files, routingVars
<1>3. JobFine(d)
  BY <1>1, EndFine
<1>4. Loaded(j, k, g, Remaining(j, g))
  <2> HIDE DEF j, g
  <2> QED BY <1>1 DEF Loaded, Fields
<1> HIDE DEF j, k, d, g
<1>5. ASSUME Readable, Allowed(j) PROVE JobFine(k)
  <2>1. j.op \in BlockOps => ActiveFine(j)
    BY <1>1, <1>2, HeadFine DEF ReadSteps
  <2>2. Given(g)
    BY <1>1, <1>2, <1>5, <2>1, OutcomeSound DEF JobFine, g
  <2> QED BY <1>1, <1>2, <1>4, <2>2, RemainingIs, LoadedFine
<1>6. JobsFine'
  BY <1>2, <1>3, <1>5, ThenFine DEF VInv
<1>7. StateFine'
  BY <1>2, StillFine DEF VInv
<1> QED BY <1>6, <1>7 DEF VInv

\* Probe keeps the invariant.
LEMMA ProbeFine ==
  ASSUME VInv, NEW p \in Procs, Probe(p), UNCHANGED saved
  PROVE  VInv'
<1> DEFINE j == job[p]
           d == [j EXCEPT !.plan = <<>>]
           c == WithProbe(config, j)
           probing == [j EXCEPT !.in = TRUE, !.was = ProbeText(j)]
           k(plan) == [probing EXCEPT !.plan = plan]
<1>1. JobFine(j) /\ DOMAIN j = Fields
  BY InFine DEF VInv
<1>2. /\ j.plan # <<>> /\ Head(j.plan) = "probe"
      /\ UNCHANGED <<choice, routes, env>>
      /\ \/ Then(p, d) /\ UNCHANGED config
         \/ Readable /\ config' = c /\ \E plan \in {Tail(j.plan), Unanswered(j)} : Then(p, k(plan))
  BY DEF Probe, At, files, routingVars
<1>3. JobFine(d)
  BY <1>1, EndFine
<1>4. \A plan : /\ DOMAIN k(plan) = Fields /\ k(plan).op = j.op /\ k(plan).arg = j.arg /\ k(plan).back = j.back /\ k(plan).plan = plan
                /\ k(plan).kept = j.kept /\ k(plan).new = j.new /\ k(plan).rows = j.rows /\ k(plan).env = j.env
                /\ k(plan).was = ProbeText(j)
  <2> HIDE DEF j
  <2> QED BY <1>1 DEF Fields
<1> HIDE DEF j, k, d, c
<1>5. Readable => Sound(c) /\ Sound(ProbeText(j))
  <2>1. j.arg \in Probed
    BY <1>1, <1>2, HeadFine
  <2> QED BY <2>1, WithProbeSound, ProbeTextSound DEF Probed, c, VInv, StateFine, Usable, Readable
<1>6. Readable => \A plan : WasFine(k(plan))
  BY <1>4, <1>5 DEF WasFine, Usable
<1>7. Readable => JobFine(k(Tail(j.plan)))
  <2> DEFINE e == k(Tail(j.plan))
  <2>1. /\ DOMAIN e = Fields /\ e.op = j.op /\ e.arg = j.arg /\ e.back = j.back /\ e.plan = Tail(j.plan)
        /\ e.kept = j.kept /\ e.new = j.new /\ e.rows = j.rows /\ e.env = j.env
    BY <1>4
  <2>2. Readable => WasFine(e)
    BY <1>6
  <2> HIDE DEF e
  <2>3. Readable => JobFine(e)
    BY <1>1, <1>2, <2>1, <2>2, NextFine
  <2> QED BY <2>3 DEF e
<1>8. Readable => JobFine(k(<<"unprobe", "redo">>))
  <2> DEFINE e == k(<<"unprobe", "redo">>)
  <2>1. /\ DOMAIN e = Fields /\ e.op = j.op /\ e.arg = j.arg /\ e.back = j.back /\ e.plan = <<"unprobe", "redo">>
    BY <1>4
  <2>2. Readable => WasFine(e)
    BY <1>6
  <2> HIDE DEF e
  <2>3. ArgFine(e.op, e.arg) /\ e.back \in Seq(Names)
    BY <1>1, <2>1 DEF JobFine, ArgFine
  <2>4. Readable => JobFine(e)
    BY <2>1, <2>2, <2>3, RollsFine
  <2> QED BY <2>4 DEF e
<1>9. JobsFine'
  <2>1. Readable => \A plan \in {Tail(j.plan), Unanswered(j)} : JobFine(k(plan))
    BY <1>7, <1>8 DEF Unanswered
  <2> QED BY <1>2, <1>3, <2>1, ThenFine DEF VInv
<1>10. StateFine'
  <2>1. Usable(config)'
    BY <1>2, <1>5 DEF VInv, StateFine, Usable, Sound
  <2> QED BY <1>2, <2>1 DEF VInv, StateFine, StoresFine
<1> QED BY <1>9, <1>10 DEF VInv

\* Unprobe keeps the invariant.
LEMMA UnprobeFine ==
  ASSUME VInv, NEW p \in Procs, Unprobe(p), UNCHANGED saved
  PROVE  VInv'
<1> DEFINE j == job[p]
           k == [Next1(j) EXCEPT !.was = Nothing]
<1>1. JobFine(j) /\ DOMAIN j = Fields
  BY InFine DEF VInv
<1>2. j.plan # <<>> /\ Head(j.plan) = "unprobe" /\ config' = j.was /\ Then(p, k) /\ UNCHANGED <<choice, routes, env>>
  BY DEF Unprobe, At, routingVars
<1>5. /\ DOMAIN k = Fields /\ k.op = j.op /\ k.arg = j.arg /\ k.plan = Tail(j.plan) /\ k.back = j.back
      /\ k.new = j.new /\ k.env = j.env /\ k.was = Nothing /\ k.rows = j.rows /\ k.kept = j.kept
  BY <1>1 DEF Next1, Fields
<1> HIDE DEF j, k
<1>3. WasFine(j)
  <2>1. "unprobe" \in WasSteps(j.op)
    BY DEF WasSteps
  <2> QED BY <1>1, <1>2, <2>1, HeadFine
<1>6. JobFine(k)
  BY <1>1, <1>2, <1>5, NextFine
<1>7. JobsFine'
  BY <1>2, <1>6, ThenFine DEF VInv
<1>8. StateFine'
  <2>1. Usable(config)'
    BY <1>2, <1>3 DEF WasFine, Usable, Sound
  <2> QED BY <1>2, <2>1 DEF VInv, StateFine, StoresFine
<1> QED BY <1>7, <1>8 DEF VInv

\* Rows keeps the invariant.
LEMMA RowsActFine ==
  ASSUME VInv, NEW p \in Procs, Rows(p), UNCHANGED saved
  PROVE  VInv'
<1> DEFINE j == job[p]
           d == [j EXCEPT !.plan = <<>>]
<1>1. JobFine(j) /\ DOMAIN j = Fields
  BY InFine DEF VInv
<1>2. /\ j.plan # <<>> /\ Head(j.plan) = "rows" /\ j.op \in RoutingOps
      /\ (choice' = j.rows.choice /\ routes' = j.rows.routes) \/ UNCHANGED <<choice, routes>>
      /\ Then(p, Next1(j)) \/ Then(p, d)
      /\ UNCHANGED <<config, env>>
  BY DEF Rows, At, files, Follow
<1>3. JobFine(d)
  BY <1>1, EndFine
<1> HIDE DEF j, d
<1>4. JobFine(Next1(j))
  BY <1>1, <1>2, FollowFine
<1>5. RowsFine(j)
  BY <1>1, <1>2, HeadFine
<1>6. JobsFine'
  BY <1>2, <1>3, <1>4, ThenFine DEF VInv
<1>7. StateFine'
  BY <1>2, <1>5 DEF VInv, StateFine, StoresFine, RowsFine
<1> QED BY <1>6, <1>7 DEF VInv

\* Env keeps the invariant.
LEMMA EnvActFine ==
  ASSUME VInv, NEW p \in Procs, Env(p), UNCHANGED saved
  PROVE  VInv'
<1> DEFINE j == job[p]
           d == [j EXCEPT !.plan = <<>>]
<1>1. JobFine(j) /\ DOMAIN j = Fields
  BY InFine DEF VInv
<1>2. /\ j.plan # <<>> /\ Head(j.plan) = "env"
      /\ env' = j.env \/ UNCHANGED env
      /\ Then(p, Next1(j)) \/ Then(p, d)
      /\ UNCHANGED <<config, choice, routes>>
  BY DEF Env, At, files, Follow
<1>3. JobFine(d)
  BY <1>1, EndFine
<1> HIDE DEF j, d
<1>4. JobFine(Next1(j))
  BY <1>1, <1>2, FollowFine
<1>5. EnvGood(j)
  BY <1>1, <1>2, HeadFine
<1>6. JobsFine'
  BY <1>2, <1>3, <1>4, ThenFine DEF VInv
<1>7. StateFine'
  <2>1. EnvFine(env)'
    BY <1>2, <1>5 DEF EnvGood, EnvFine, VInv, StateFine, StoresFine
  <2> QED BY <1>2, <2>1 DEF VInv, StateFine, StoresFine
<1> QED BY <1>6, <1>7 DEF VInv

\* Note keeps the invariant.
LEMMA NoteFine ==
  ASSUME VInv, NEW p \in Procs, Note(p), UNCHANGED saved
  PROVE  VInv'
<1> DEFINE j == job[p]
           k == [Next1(j) EXCEPT !.in = TRUE]
<1>1. JobFine(j) /\ DOMAIN j = Fields
  BY InFine DEF VInv
<1>2. j.plan # <<>> /\ Head(j.plan) = "note" /\ Then(p, k) /\ UNCHANGED <<config, choice, routes, env>>
  BY DEF Note, At, files
<1>5. /\ DOMAIN k = Fields /\ k.op = j.op /\ k.arg = j.arg /\ k.plan = Tail(j.plan) /\ k.back = j.back
      /\ k.new = j.new /\ k.env = j.env /\ k.was = j.was /\ k.rows = j.rows /\ k.kept = j.kept
  BY <1>1 DEF Next1, Fields
<1> HIDE DEF j, k
<1>6. JobFine(k)
  BY <1>1, <1>2, <1>5, NextFine
<1>7. JobsFine'
  BY <1>2, <1>6, ThenFine DEF VInv
<1>8. StateFine'
  BY <1>2, StillFine DEF VInv
<1> QED BY <1>7, <1>8 DEF VInv

\* Read keeps the invariant.
LEMMA ReadFine ==
  ASSUME VInv, NEW p \in Procs, Read(p), UNCHANGED saved
  PROVE  VInv'
<1> DEFINE j == job[p]
           on == {t \in Targets : blocks[t] = "on"}
           gone == IF j.op = "unblock" THEN {j.arg} ELSE {}
           rows == [active |-> on, known |-> {t \in Targets : blocks[t] # "none"} \union gone]
           k == [Next1(j) EXCEPT !.rows = rows]
<1>1. JobFine(j) /\ DOMAIN j = Fields
  BY InFine DEF VInv
<1>2. j.plan # <<>> /\ Head(j.plan) = "read" /\ Then(p, k) /\ UNCHANGED <<config, choice, routes, env>>
  BY DEF Read, At, files, routingVars
<1>3. rows.active = on
  OBVIOUS
<1>4. on \in SUBSET Targets
  OBVIOUS
<1> HIDE DEF rows, on, j
<1>5. /\ DOMAIN k = Fields /\ k.op = j.op /\ k.arg = j.arg /\ k.plan = Tail(j.plan) /\ k.back = j.back
      /\ k.new = j.new /\ k.env = j.env /\ k.was = j.was /\ k.rows = rows /\ k.kept = j.kept
  BY <1>1 DEF Next1, Fields
<1> HIDE DEF k
<1>6. JobFine(k)
  BY <1>1, <1>2, <1>3, <1>4, <1>5, NextFine DEF ActiveFine
<1>7. JobsFine'
  BY <1>2, <1>6, ThenFine DEF VInv
<1>8. StateFine'
  BY <1>2, StillFine DEF VInv
<1> QED BY <1>7, <1>8 DEF VInv

\* Expire keeps the invariant.
LEMMA ExpireFine ==
  ASSUME VInv, Expire, UNCHANGED saved
  PROVE  VInv'
<1>1. UNCHANGED <<job, config, choice, routes, env>>
  BY DEF Expire, serverVars
<1>2. StateFine'
  BY <1>1, StillFine DEF VInv
<1> QED BY <1>1, <1>2 DEF VInv, JobsFine

\* The steps of the routes keep the invariant.
LEMMA RoutingFine ==
  ASSUME VInv, RoutingNext, UNCHANGED saved
  PROVE  VInv'
<1>1. ASSUME NEW p \in Procs, RoutingProgress(p) PROVE VInv'
  BY <1>1, StepFine, LoadFine, ProbeFine, UnprobeFine, RowsActFine, EnvActFine, NoteFine, ReadFine DEF RoutingProgress
<1>2. ASSUME NEW p \in Procs, UNCHANGED routingVars,
             Cascade(p) \/ TestCascade(p) \/ Warp(p) \/ TestWarp(p) \/ Bypass(p) \/ Menu(p) \/ Block(p) \/ Kill(p) \/ CutBack(p)
      PROVE  VInv'
  BY <1>2, RoutesBegin, BypassBegins, StopsFine
<1> QED BY <1>1, <1>2, ReconcileBegins, ExpireFine DEF RoutingNext

\* What is left to do after a load, without what follows the commit.
LEMMA TailStored ==
  ASSUME NEW plan, plan = Tail(Stored)
  PROVE  /\ plan \in Seq({"save", "try", "commit"}) /\ DOMAIN plan = 1 .. 3
         /\ plan[1] = "save" /\ plan[2] = "try" /\ plan[3] = "commit"
  BY DEF Stored

\* A command of the connections after its load.
LEMMA StoredTail ==
  ASSUME NEW k, DOMAIN k = Fields, ArgFine(k.op, k.arg), k.op \in ConnectionOps, RollsBack(k), k.plan = Tail(Stored),
         NewFine(k), RowsFine(k)
  PROVE  JobFine(k)
<1> DEFINE S == {"save", "try", "commit"}
           plan == k.plan
<1>1. /\ plan \in Seq(S) /\ DOMAIN plan = 1 .. 3
      /\ plan[1] = "save" /\ plan[2] = "try" /\ plan[3] = "commit"
  BY TailStored
<1> HIDE DEF plan
<1>2. S \subseteq Names
  BY DEF Names, Uses
<1>3. /\ S \intersect {"env"} = {} /\ S \intersect (PlaceSteps \union {"read db"}) = {}
      /\ S \intersect {"probe"} = {} /\ S \intersect ({"halt", "copy server"} \union PlaceSteps) = {}
  BY DEF PlaceSteps
<1>4. S \intersect (UpdateSteps \union SshSteps) = {}
  BY DEF UpdateSteps, SshSteps
<1>5. S \intersect ReadSteps(k.op) = {}
  BY DEF ReadSteps
<1>6. NewFine(k) = TRUE /\ RowsFine(k) = TRUE /\ WasFine(k) \in BOOLEAN
  BY AllBoolean
<1>7. Guarded(plan, {"save"}, {"load"}, {}, TRUE)
  BY DEF Guarded
<1>8. Guarded(plan, {"rows", "commit"}, {"load"}, RowsSteps, TRUE)
  <2>1. \A i \in DOMAIN plan : plan[i] \in S
    BY <1>1
  <2>2. S \intersect RowsSteps = {}
    BY DEF RowsSteps
  <2>3. \A i \in 1 .. 3 : 1 .. i - 1 \subseteq 1 .. 3
    OBVIOUS
  <2> HIDE DEF S
  <2>4. \A i \in DOMAIN plan : \A m \in 1 .. i - 1 : plan[m] \notin RowsSteps
    BY <1>1, <2>1, <2>2, <2>3
  <2> QED BY <2>4 DEF Guarded
<1>9. Guarded(plan, WasSteps(k.op), {"save", "probe"}, {"load", "unprobe"}, WasFine(k))
  <2>1. "save" \notin WasSteps(k.op)
    BY DEF WasSteps
  <2>2. ASSUME NEW i \in DOMAIN plan, plan[i] \in WasSteps(k.op)
        PROVE  1 \in 1 .. i - 1 /\ \A m \in 1 + 1 .. i - 1 : plan[m] \in {"try", "commit"}
    <3>1. i \in 2 .. 3
      BY <1>1, <2>1, <2>2
    <3> QED BY <3>1, <1>1
  <2> QED BY <2>2, <1>1 DEF Guarded
<1> HIDE DEF S
<1>10. \A T : S \intersect T = {} => ~Left(plan, T) /\ \A m, r, P : Guarded(plan, T, m, r, P)
  BY <1>1, Away
<1>11. plan \in Seq(Names)
  BY <1>1, <1>2, SeqIn
<1>12. PlanFine(k, plan)
  BY <1>3, <1>4, <1>5, <1>6, <1>7, <1>8, <1>9, <1>10 DEF PlanFine
<1> QED BY <1>11, <1>12, RollsIn DEF JobFine, RollsBack, plan

\* What a command that may go on writes is sound.
LEMMA PermittedSound ==
  ASSUME VInv, Readable, NEW j, ArgFine(j.op, j.arg), j.op \in ConnectionOps, Permitted(j)
  PROVE  Sound(Result(j).config)
<1>0. Sound(config)
  BY DEF VInv, StateFine, Readable, Usable
<1>1. CASE j.op = "connection add"
  <2>1. j.arg \in AnOffer
    BY <1>1 DEF ArgFine
  <2>2. j.arg.port \notin PortsBeside(config, Nothing) /\ FreeTags(config, j.arg.kind) # {}
    BY <1>1 DEF Permitted
  <2>3. Result(j) = Added(j.arg)
    BY <1>1 DEF Result
  <2> QED BY <1>0, <2>1, <2>2, <2>3, AddedSound
<1>2. CASE j.op = "connection remove"
  <2>1. j.arg.tag \in Reals => Cardinality(RealsIn(config)) > 1
    BY <1>2 DEF Permitted
  <2>2. Result(j) = Removed(j.arg)
    BY <1>2 DEF Result
  <2> QED BY <1>0, <2>1, <2>2, RemovedSound
<1>3. CASE j.op \notin {"connection add", "connection remove"}
  <2>1. j.arg \in AnAsk
    BY <1>3 DEF ArgFine
  <2>2. j.arg.tag \in In(config) /\ j.arg.port \notin PortsBeside(config, j.arg.tag)
    BY <1>3, Zenon DEF Permitted
  <2>3. Result(j) = TrojanChanged(j.arg) \/ Result(j) = Changed(j.arg)
    BY <1>3 DEF Result
  <2> QED BY <1>0, <2>1, <2>2, <2>3, ChangedSound
<1> QED BY <1>1, <1>2, <1>3

\* Commands of the connections are none of the routes.
LEMMA ConnectionOpsApart ==
  ASSUME NEW op \in ConnectionOps
  PROVE  op \notin RoutingOps
  BY DEF ConnectionOps, RoutingOps, KeepsLoaded

\* LoadConnection keeps the invariant.
LEMMA LoadConnectionFine ==
  ASSUME VInv, NEW p \in Procs, LoadConnection(p), UNCHANGED saved
  PROVE  VInv'
<1> DEFINE j == job[p]
           g == Result(j)
           d == [j EXCEPT !.plan = <<>>]
           new == IF j.op = "menu reality" THEN g.config ELSE Settled(g.config)
           rows == [records |-> g.records, old |-> records,
                    choice |-> IF j.op = "menu reality" THEN choice ELSE Defaults(g.config, choice)]
           e == [env EXCEPT !.described = g.described]
           k(plan) == [j EXCEPT !.plan = plan, !.in = TRUE, !.new = new, !.rows = rows, !.env = e]
<1>1. JobFine(j) /\ DOMAIN j = Fields
  BY InFine DEF VInv
<1>2. /\ j.plan # <<>> /\ Head(j.plan) = "load" /\ j.op \in ConnectionOps
      /\ Then(p, d) \/ (Readable /\ Permitted(j) /\ \E plan \in {Tail(Stored), Tail(j.plan)} : Then(p, k(plan)))
      /\ UNCHANGED <<config, choice, routes, env>>
  BY DEF LoadConnection, At, files, routingVars
<1>3. JobFine(d)
  BY <1>1, EndFine
<1>4. \A plan : /\ DOMAIN k(plan) = Fields /\ k(plan).op = j.op /\ k(plan).arg = j.arg /\ k(plan).back = j.back
                /\ k(plan).plan = plan /\ k(plan).kept = j.kept /\ k(plan).new = new /\ k(plan).rows = rows
                /\ k(plan).env = e /\ k(plan).was = j.was
  <2> HIDE DEF j, g, new, rows, e
  <2> QED BY <1>1 DEF Fields
<1>5. StoresFine
  BY DEF VInv, StateFine
<1>6. rows.choice = IF j.op = "menu reality" THEN choice ELSE Defaults(g.config, choice)
  OBVIOUS
<1>7. EnvFine(e)
  <2> HIDE DEF g
  <2> QED BY <1>5 DEF StoresFine, EnvFine
<1> HIDE DEF j, k, d, g, rows, e
<1>8. ASSUME Readable, Permitted(j) PROVE Sound(g.config) /\ Sound(new) /\ rows.choice \in ClientChoices
  <2>1. Sound(g.config)
    BY <1>1, <1>2, <1>8, PermittedSound DEF JobFine, g
  <2>2. Sound(Settled(g.config)) /\ Defaults(g.config, choice) \in ClientChoices
    BY <1>5, <2>1, SettledSound
  <2> QED BY <1>5, <1>6, <2>1, <2>2 DEF StoresFine
<1> HIDE DEF new
<1>9. ASSUME Readable, Permitted(j), NEW plan \in {Tail(Stored), Tail(j.plan)} PROVE JobFine(k(plan))
  <2> DEFINE f == k(plan)
  <2>1. /\ DOMAIN f = Fields /\ f.op = j.op /\ f.arg = j.arg /\ f.back = j.back /\ f.plan = plan
        /\ f.kept = j.kept /\ f.new = new /\ f.rows = rows /\ f.env = e /\ f.was = j.was
    BY <1>4
  <2> HIDE DEF f
  <2>2. j.op \notin RoutingOps /\ j.was = j.was
    BY <1>2, ConnectionOpsApart
  <2>3. RowsFine(f) /\ EnvGood(f)
    BY <1>7, <1>8, <1>9, <2>1, <2>2 DEF RowsFine, EnvGood
  <2>4. j.back = Rolls /\ (j.was = Nothing \/ Usable(j.was))
    BY <1>1, <1>2, HeadFine DEF RollsBack
  <2>5. NewFine(f)
    <3>1. Sound(f.new)
      BY <1>8, <1>9, <2>1
    <3> QED BY <2>1, <2>4, <3>1 DEF NewFine
  <2>8. RollsBack(f)
    BY <2>1, <2>4 DEF RollsBack
  <2>6. ArgFine(f.op, f.arg)
    BY <1>1, <2>1 DEF JobFine, ArgFine
  <2>7. JobFine(f)
    <3>1. CASE plan = Tail(j.plan)
      BY <1>1, <1>2, <2>1, <2>3, <2>5, <3>1, NextFine
    <3>2. CASE plan = Tail(Stored)
      BY <1>2, <2>1, <2>3, <2>5, <2>6, <2>8, <3>2, StoredTail
    <3> QED BY <3>1, <3>2
  <2> QED BY <2>7 DEF f
<1>10. JobsFine'
  BY <1>2, <1>3, <1>9, ThenFine DEF VInv
<1>11. StateFine'
  BY <1>2, StillFine DEF VInv
<1> QED BY <1>10, <1>11 DEF VInv

-----------------------------------------------------------------------------
\* Steps that write neither config.json nor what goes with it end or go on.
LEMMA GoesOn ==
  ASSUME VInv, NEW p \in Procs, job[p].plan # <<>>,
         Head(job[p].plan) \notin {"load", "save", "probe", "read", "copy server", "read files"},
         Follow(p) \/ Then(p, [job[p] EXCEPT !.plan = <<>>])
  PROVE  JobsFine'
<1> DEFINE j == job[p]
           d == [j EXCEPT !.plan = <<>>]
<1>1. JobFine(j) /\ (Then(p, Next1(j)) \/ Then(p, d))
  BY InFine DEF VInv, Follow
<1>2. JobFine(d)
  BY <1>1, EndFine
<1> HIDE DEF d
<1>3. JobFine(Next1(j))
  BY <1>1, FollowFine
<1> QED BY <1>1, <1>2, <1>3, ThenFine DEF VInv

\* So do those that only add to what the command has in hand.
LEMMA KeepsOn ==
  ASSUME NEW j, JobFine(j), j.plan # <<>>, Head(j.plan) \in KeptSteps \union {"note", "obtain"}, NEW kept,
         Head(j.plan) \in KeptSteps \/ kept = j.kept
  PROVE  /\ JobFine([Next1(j) EXCEPT !.in = TRUE, !.kept = kept])
         /\ JobFine([Next1(j) EXCEPT !.kept = kept])
<1> DEFINE k == [Next1(j) EXCEPT !.in = TRUE, !.kept = kept]
           g == [Next1(j) EXCEPT !.kept = kept]
<1>1. DOMAIN j = Fields
  BY DEF JobFine
<1>2. /\ DOMAIN k = Fields /\ k.op = j.op /\ k.arg = j.arg /\ k.plan = Tail(j.plan) /\ k.back = j.back
      /\ k.new = j.new /\ k.env = j.env /\ k.was = j.was /\ k.rows = j.rows /\ k.kept = kept
  BY <1>1 DEF Next1, Fields
<1>3. /\ DOMAIN g = Fields /\ g.op = j.op /\ g.arg = j.arg /\ g.plan = Tail(j.plan) /\ g.back = j.back
      /\ g.new = j.new /\ g.env = j.env /\ g.was = j.was /\ g.rows = j.rows /\ g.kept = kept
  BY <1>1 DEF Next1, Fields
<1>4. Head(j.plan) \notin {"load", "save", "probe", "read", "unprobe", "copy server", "read files"}
  BY DEF KeptSteps
<1> HIDE DEF k, g
<1>5. JobFine(k) /\ JobFine(g)
  BY <1>2, <1>3, <1>4, NextFine
<1> QED BY <1>5 DEF k, g

\* What ends with steps of Caddy, the panel or the manager alone.
LEMMA PlainFine ==
  ASSUME NEW j, JobFine(j), NEW plan \in Seq(Others), ~Left(plan, UpdateSteps \union SshSteps)
  PROVE  JobFine([j EXCEPT !.plan = plan])
<1> DEFINE k == [j EXCEPT !.plan = plan]
<1>1. DOMAIN j = Fields /\ j.back \in Seq(Names) /\ ArgFine(j.op, j.arg)
  BY DEF JobFine
<1>2. DOMAIN k = Fields /\ k.op = j.op /\ k.arg = j.arg /\ k.plan = plan /\ k.back = j.back
  BY <1>1 DEF Fields
<1> HIDE DEF k
<1>3. ArgFine(k.op, k.arg)
  BY <1>1, <1>2 DEF ArgFine
<1> QED BY <1>1, <1>2, <1>3, HarmlessFine DEF k, Harmless

\* Commit keeps the invariant.
LEMMA CommitFine ==
  ASSUME VInv, NEW p \in Procs, Commit(p), UNCHANGED saved
  PROVE  VInv'
<1> DEFINE j == job[p]
           k == [j EXCEPT !.plan = j.back]
<1>1. JobFine(j) /\ DOMAIN j = Fields
  BY InFine DEF VInv
<1>2. /\ j.plan # <<>> /\ Head(j.plan) = "commit"
      /\ (choice' = j.rows.choice /\ Then(p, Next1(j))) \/ (UNCHANGED choice /\ Then(p, k))
      /\ UNCHANGED <<config, routes, env>>
  BY DEF Commit, At, files, Follow
<1>5. DOMAIN k = Fields /\ k.op = j.op /\ k.arg = j.arg /\ k.plan = j.back /\ k.back = j.back /\ k.was = j.was
  BY <1>1 DEF Fields
<1> HIDE DEF j, k
<1>3. WasFine(j) /\ j.back = Rolls /\ RowsFine(j)
  <2>1. "commit" \in WasSteps(j.op)
    BY DEF WasSteps
  <2> QED BY <1>1, <1>2, <2>1, HeadFine DEF RollsBack
<1>4. JobFine(Next1(j))
  BY <1>1, <1>2, FollowFine
<1>6. JobFine(k)
  BY <1>1, <1>3, <1>5, RollsFine DEF JobFine, WasFine
<1>7. JobsFine'
  BY <1>2, <1>4, <1>6, ThenFine DEF VInv
<1>8. StateFine'
  BY <1>2, <1>3 DEF VInv, StateFine, StoresFine, RowsFine
<1> QED BY <1>7, <1>8 DEF VInv

\* Describe keeps the invariant.
LEMMA DescribeFine ==
  ASSUME VInv, NEW p \in Procs, Describe(p), UNCHANGED saved
  PROVE  VInv'
<1> DEFINE e == [env EXCEPT !.described = job[p].env.described]
<1>1. /\ JobsFine'
      /\ env' = e \/ UNCHANGED env
      /\ UNCHANGED <<config, choice, routes>>
  BY GoesOn DEF Describe, At, files
<1>2. EnvFine(e)
  BY DEF VInv, StateFine, StoresFine, EnvFine
<1> HIDE DEF e
<1>3. EnvFine(env)'
  BY <1>1, <1>2 DEF VInv, StateFine, StoresFine, EnvFine
<1>4. StateFine'
  BY <1>1, <1>3 DEF VInv, StateFine, StoresFine
<1> QED BY <1>1, <1>4 DEF VInv

\* The steps on the sites that change no store keep the invariant.
LEMMA QuietConnectionFine ==
  ASSUME VInv, NEW p \in Procs,
         NoteRecord(p) \/ Absent(p) \/ TakeBack(p) \/ Reload(p) \/ Uncommit(p) \/ Archive(p), UNCHANGED saved
  PROVE  VInv'
<1>1. UNCHANGED <<config, choice, routes, env>>
  BY DEF NoteRecord, Absent, TakeBack, Reload, Uncommit, Archive, files, routingVars
<1>2. ASSUME NoteRecord(p) \/ Absent(p) PROVE JobsFine'
  BY <1>2, GoesOn DEF NoteRecord, Absent, At
<1>3. ASSUME TakeBack(p) \/ Reload(p) \/ Uncommit(p) \/ Archive(p) PROVE JobsFine'
  BY <1>3, GoesOn DEF TakeBack, Reload, Uncommit, Archive, At
<1>4. StateFine'
  BY <1>1, StillFine DEF VInv
<1> QED BY <1>2, <1>3, <1>4 DEF VInv

\* Setting a site file aside, extracting one and seeking one keep the invariant.
LEMMA PutFine ==
  ASSUME VInv, NEW p \in Procs, Put(p) \/ Extract(p) \/ Seek(p), UNCHANGED saved
  PROVE  VInv'
<1> DEFINE j == job[p]
           k(kept) == [Next1(j) EXCEPT !.in = TRUE, !.kept = kept]
           d(plan) == [j EXCEPT !.plan = plan]
<1>1. JobFine(j)
  BY InFine DEF VInv
<1>2. /\ j.plan # <<>> /\ Head(j.plan) \in {"put", "extract", "seek"}
      /\ (\E kept : Then(p, k(kept))) \/ Then(p, d(<<>>)) \/ Then(p, d(<<"reply">>))
      /\ UNCHANGED <<config, choice, routes, env>>
  BY DEF Put, Extract, Seek, At, files, routingVars
<1>3. \A kept : JobFine(k(kept))
  BY <1>1, <1>2, KeepsOn DEF KeptSteps
<1>4. JobFine(d(<<>>)) /\ JobFine(d(<<"reply">>))
  <2>1. <<"reply">> \in Seq({"reply"}) /\ {"reply"} \subseteq Others /\ {"reply"} \intersect (UpdateSteps \union SshSteps) = {}
    BY DEF Others, UpdateSteps, SshSteps
  <2>2. <<"reply">> \in Seq(Others) /\ ~Left(<<"reply">>, UpdateSteps \union SshSteps)
    BY <2>1, SeqIn, Away
  <2> QED BY <1>1, <2>2, EndFine, PlainFine
<1> HIDE DEF j, k, d
<1>5. JobsFine'
  BY <1>2, <1>3, <1>4, ThenFine DEF VInv
<1>6. StateFine'
  BY <1>2, StillFine DEF VInv
<1> QED BY <1>5, <1>6 DEF VInv

\* The ends of a failed change of a site.
LEMMA PutBackPlans ==
  /\ <<>> \in Seq({"take back", "reload", "reply"})
  /\ <<"take back", "reload">> \in Seq({"take back", "reload", "reply"})
  /\ <<"take back", "reload", "reply">> \in Seq({"take back", "reload", "reply"})
<1>1. <<>> \in Seq({"take back", "reload", "reply"})
  OBVIOUS
<1>2. <<"take back", "reload">> \in Seq({"take back", "reload", "reply"})
  BY SMT
<1>3. <<"take back", "reload", "reply">> \in Seq({"take back", "reload", "reply"})
  BY SMT
<1> QED BY <1>1, <1>2, <1>3, Zenon

\* When Caddy refuses, what follows needs the config to put back only after an update of a
\* Trojan connection, which has one.
LEMMA RefusalFine ==
  ASSUME NEW j, JobFine(j), j.op = "trojan update" => WasFine(j)
  PROVE  JobFine([j EXCEPT !.plan = Refusal(j)])
<1> DEFINE k == [j EXCEPT !.plan = Refusal(j)]
           S == {"take back", "reload", "reply"}
<1>1. DOMAIN j = Fields /\ j.back \in Seq(Names) /\ ArgFine(j.op, j.arg)
  BY DEF JobFine
<1>2. CASE j.op = "trojan update"
  <2>1. Refusal(j) = <<"take back", "reload", "undo", "redo", "uncommit">>
    BY <1>2 DEF Refusal
  <2>2. DOMAIN k = Fields /\ k.op = j.op /\ k.arg = j.arg /\ k.plan = Refusal(j) /\ k.back = j.back /\ k.was = j.was
    BY <1>1 DEF Fields
  <2> HIDE DEF k
  <2>3. ArgFine(k.op, k.arg) /\ WasFine(k)
    BY <1>1, <1>2, <2>2 DEF ArgFine, WasFine
  <2> QED BY <1>1, <2>1, <2>2, <2>3, RollsFine DEF k
<1>3. CASE j.op # "trojan update"
  <2>1. S \subseteq Others /\ S \intersect (UpdateSteps \union SshSteps) = {}
    BY DEF Others, UpdateSteps, SshSteps
  <2>2. <<>> \in Seq(S) /\ <<"take back", "reload">> \in Seq(S) /\ <<"take back", "reload", "reply">> \in Seq(S)
    BY PutBackPlans, Zenon
  <2>3. Refusal(j) = <<>> \/ Refusal(j) = <<"take back", "reload">> \/ Refusal(j) = <<"take back", "reload", "reply">>
    BY <1>3 DEF Refusal
  <2> HIDE DEF S
  <2>5. Refusal(j) \in Seq(S)
    BY <2>2, <2>3, Zenon
  <2>4. Refusal(j) \in Seq(Others) /\ ~Left(Refusal(j), UpdateSteps \union SshSteps)
    BY <2>1, <2>5, SeqIn, Away
  <2> QED BY <2>4, PlainFine
<1> QED BY <1>2, <1>3

\* Serve keeps the invariant.
LEMMA ServeFine ==
  ASSUME VInv, NEW p \in Procs, Serve(p), UNCHANGED saved
  PROVE  VInv'
<1> DEFINE j == job[p]
           k == [j EXCEPT !.plan = Refusal(j)]
<1>1. JobFine(j)
  BY InFine DEF VInv
<1>2. /\ j.plan # <<>> /\ Head(j.plan) = "serve"
      /\ Then(p, Next1(j)) \/ Then(p, k)
      /\ UNCHANGED <<config, choice, routes, env>>
  BY DEF Serve, At, files, routingVars, Follow
<1>3. j.op = "trojan update" => WasFine(j)
  <2>1. j.op = "trojan update" => "serve" \in WasSteps(j.op)
    BY DEF WasSteps
  <2> QED BY <1>1, <1>2, <2>1, HeadFine
<1>4. JobFine(k)
  BY <1>1, <1>3, RefusalFine
<1> HIDE DEF j, k
<1>5. JobFine(Next1(j))
  BY <1>1, <1>2, FollowFine
<1>6. JobsFine'
  BY <1>2, <1>4, <1>5, ThenFine DEF VInv
<1>7. StateFine'
  BY <1>2, StillFine DEF VInv
<1> QED BY <1>6, <1>7 DEF VInv

\* The steps of the connections keep the invariant.
LEMMA ConnectionsFine ==
  ASSUME VInv, ConnectionsNext, UNCHANGED saved
  PROVE  VInv'
<1>1. ASSUME NEW p \in Procs, ConnectionsProgress(p) PROVE VInv'
  BY <1>1, LoadConnectionFine, CommitFine, DescribeFine, QuietConnectionFine, PutFine, ServeFine DEF ConnectionsProgress
<1>2. ASSUME NEW p \in Procs, UNCHANGED routingVars,
             \/ AddReality(p) \/ AddTrojan(p) \/ Transport(p) \/ RemoveConnection(p) \/ UpdateTrojan(p) \/ Reality(p)
             \/ CreateSite(p) \/ SiteUpstream(p) \/ SiteTls(p) \/ SiteDomain(p) \/ DeleteSite(p)
             \/ CaddyBackups(p) \/ RandomTls(p)
      PROVE  VInv'
  BY <1>2, ConnectionsBegin, AddTrojanBegins, RealityBegins,
     SitesBegin
<1> QED BY <1>1, <1>2 DEF ConnectionsNext

\* The ends of the upkeep.
LEMMA EndHarmless ==
         Harmless(<<>>) /\ Harmless(<<"resume">>) /\ BackPlaces(<<>>)
<1>1. <<>> \in Seq(Others) /\ DOMAIN <<>> = {}
  OBVIOUS
<1>2. <<"resume">> \in Seq(Others)
  BY DEF Others
<1> QED BY <1>1, <1>2 DEF Harmless, BackPlaces

\* A harmless plan is a plan.
LEMMA HarmlessIn ==
  ASSUME NEW plan, Harmless(plan)
  PROVE  plan \in Seq(Names)
  BY Apartness, SeqIn DEF Harmless

\* Putting an archive in place that is there.
LEMMA PlacesFine ==
  ASSUME NEW k, DOMAIN k = Fields, k.op = "restore", ArgFine(k.op, k.arg), KeptFine(k), k.plan \in Seq(Names), BackPlaces(k.plan),
         k.back = <<>>
  PROVE  JobFine(k)
<1> DEFINE S == PlaceSteps \union {"resume"}
           plan == k.plan
<1>1. plan \in Seq(S)
  <2>1. DOMAIN plan = 1 .. Len(plan) /\ Len(plan) \in Nat /\ \A i \in 1 .. Len(plan) : plan[i] \in S
    BY DEF BackPlaces
  <2>2. plan = [i \in 1 .. Len(plan) |-> plan[i]]
    OBVIOUS
  <2> HIDE DEF plan, S
  <2> QED BY <2>1, <2>2
<1> HIDE DEF plan
<1>2. /\ S \intersect {"save"} = {} /\ S \intersect {"rows", "commit"} = {} /\ S \intersect {"env"} = {}
      /\ S \intersect {"probe"} = {} /\ S \intersect {"load", "try", "commit"} = {}
  BY DEF PlaceSteps
<1>3. S \intersect WasSteps(k.op) = {} /\ S \intersect ReadSteps(k.op) = {}
  BY DEF PlaceSteps, WasSteps, ReadSteps
<1>4. S \intersect (UpdateSteps \union SshSteps) = {}
  BY DEF PlaceSteps, UpdateSteps, SshSteps
<1>5. S \intersect KeptSteps = {}
  BY DEF PlaceSteps, KeptSteps
<1>6. KeptFine(k) = TRUE
  BY AllBoolean
<1> HIDE DEF S
<1>7. \A T : S \intersect T = {} => ~Left(plan, T) /\ \A m, r, P : Guarded(plan, T, m, r, P)
  BY <1>1, Away
<1>8. Guarded(plan, PlaceSteps \union {"read db"}, {"copy server", "read files"}, KeptSteps, TRUE)
  BY <1>1, <1>5, GoodAll
<1>9. BackPlaces(k.back) /\ Harmless(k.back) /\ k.back \in Seq(Names)
  BY EndHarmless, HarmlessIn
<1>10. PlanFine(k, plan)
  BY <1>2, <1>3, <1>4, <1>6, <1>7, <1>8, <1>9 DEF PlanFine
<1> QED BY <1>9, <1>10 DEF JobFine, plan

\* The steps that put back what was there.
LEMMA BackFine ==
  ASSUME NEW j, JobFine(j), j.plan # <<>>, Head(j.plan) \in PlaceSteps \union UpdateSteps \union SshSteps,
         NEW k, DOMAIN k = Fields, k.op = j.op, k.arg = j.arg, k.kept = j.kept, k.plan = j.back, k.back = <<>>
  PROVE  JobFine(k)
<1>1. ArgFine(k.op, k.arg) /\ k.plan \in Seq(Names) /\ k.back \in Seq(Names)
  BY EndHarmless, HarmlessIn DEF JobFine, ArgFine
<1>2. CASE Head(j.plan) \in PlaceSteps
  <2>1. k.op = "restore" /\ BackPlaces(k.plan) /\ KeptFine(k)
    BY <1>2, HeadFine DEF KeptFine
  <2> QED BY <1>1, <2>1, PlacesFine
<1>3. CASE Head(j.plan) \in UpdateSteps \union SshSteps
  <2>1. Harmless(k.plan)
    BY <1>3, HeadFine
  <2>2. Harmless(k.back)
    BY EndHarmless
  <2> QED BY <1>1, <2>1, <2>2, HarmlessFine
<1> QED BY <1>2, <1>3

\* A command that falls back to such a plan.
LEMMA OverFine ==
  ASSUME NEW j, JobFine(j), NEW plan, Harmless(plan)
  PROVE  JobFine([j EXCEPT !.plan = plan, !.back = <<>>])
<1> DEFINE k == [j EXCEPT !.plan = plan, !.back = <<>>]
<1>1. DOMAIN j = Fields /\ ArgFine(j.op, j.arg)
  BY DEF JobFine
<1>2. DOMAIN k = Fields /\ k.op = j.op /\ k.arg = j.arg /\ k.plan = plan /\ k.back = <<>>
  BY <1>1 DEF Fields
<1> HIDE DEF k
<1>3. ArgFine(k.op, k.arg) /\ k.back \in Seq(Names) /\ Harmless(k.back)
  BY <1>1, <1>2, EndHarmless, HarmlessIn DEF ArgFine
<1> QED BY <1>2, <1>3, HarmlessFine DEF k

\* A failed step falls back to a plan in order.
LEMMA FallbackFine ==
  ASSUME VInv, NEW p \in Procs, FallsBack(p), job[p].plan # <<>>, Head(job[p].plan) \in PlaceSteps \union UpdateSteps
  PROVE  JobsFine'
<1> DEFINE j == job[p]
           k(plan) == [j EXCEPT !.plan = plan, !.back = <<>>]
<1>1. JobFine(j) /\ DOMAIN j = Fields
  BY InFine DEF VInv
<1>2. \/ Then(p, k(j.back))
      \/ Then(p, k(<<"resume">>)) \/ Then(p, k(<<>>))
  <2> DEFINE e == [j EXCEPT !.back = <<>>, !.plan =
                     IF j.back # <<>> THEN j.back ELSE IF "resume" \in ToSet(@) THEN <<"resume">> ELSE <<>>]
  <2>1. Then(p, e)
    BY DEF FallsBack
  <2>2. DOMAIN e = DOMAIN j /\ \A x \in DOMAIN j : e[x] = IF x = "back" THEN <<>> ELSE IF x = "plan" THEN e.plan ELSE j[x]
    BY <1>1 DEF Fields
  <2>3. e.plan = j.back \/ e.plan = <<"resume">> \/ e.plan = <<>>
    BY <1>1 DEF Fields
  <2>4. \A plan : DOMAIN k(plan) = DOMAIN j /\ \A x \in DOMAIN j : k(plan)[x] = IF x = "back" THEN <<>> ELSE IF x = "plan" THEN plan ELSE j[x]
    BY <1>1 DEF Fields
  <2>5. e = [x \in DOMAIN j |-> e[x]] /\ \A plan : k(plan) = [x \in DOMAIN j |-> k(plan)[x]]
    BY <2>2, <2>4
  <2> HIDE DEF e, k, j
  <2>6. \A plan : e.plan = plan => e = k(plan)
    BY <2>2, <2>4, <2>5
  <2> QED BY <2>1, <2>3, <2>6
<1>3. JobFine(k(j.back))
  <2> DEFINE f == k(j.back)
  <2>1. DOMAIN f = Fields /\ f.op = j.op /\ f.arg = j.arg /\ f.kept = j.kept /\ f.plan = j.back /\ f.back = <<>>
    BY <1>1 DEF Fields
  <2> HIDE DEF f
  <2>2. JobFine(f)
    BY <1>1, <2>1, BackFine
  <2> QED BY <2>2 DEF f
<1>4. JobFine(k(<<"resume">>)) /\ JobFine(k(<<>>))
  BY <1>1, EndHarmless, OverFine
<1> HIDE DEF j, k
<1> QED BY <1>2, <1>3, <1>4, ThenFine DEF VInv

\* What is there can be put in an archive.
LEMMA SnapshotFine ==
  ASSUME StateFine
  PROVE  ArchiveFine(Snapshot)
<1>1. /\ Snapshot.config = config /\ Snapshot.env = env /\ Snapshot.db.choice = choice /\ Snapshot.db.routes = routes
      /\ DOMAIN Snapshot = {"config", "env", "sites", "db"}
      /\ DOMAIN Snapshot.db = {"records", "choice", "routes", "blocks"}
  BY DEF Snapshot
<1> QED BY <1>1 DEF ArchiveFine, StateFine, StoresFine

\* ReadFiles keeps the invariant.
LEMMA ReadFilesFine ==
  ASSUME VInv, NEW p \in Procs, ReadFiles(p)
  PROVE  VInv'
<1> DEFINE j == job[p]
           k == [Next1(j) EXCEPT !.in = TRUE, !.kept = Snapshot]
<1>1. JobFine(j) /\ DOMAIN j = Fields
  BY InFine DEF VInv
<1>2. j.plan # <<>> /\ Head(j.plan) = "read files" /\ Then(p, k) /\ UNCHANGED <<config, choice, routes, env, saved>>
  BY DEF ReadFiles, At, files, routingVars, upkeepVars
<1>5. /\ DOMAIN k = Fields /\ k.op = j.op /\ k.arg = j.arg /\ k.plan = Tail(j.plan) /\ k.back = j.back
      /\ k.new = j.new /\ k.env = j.env /\ k.was = j.was /\ k.rows = j.rows /\ k.kept = Snapshot
  BY <1>1 DEF Next1, Fields
<1> HIDE DEF j, k
<1>6. KeptFine(k)
  BY <1>5, SnapshotFine DEF KeptFine, VInv
<1>7. JobFine(k)
  BY <1>1, <1>2, <1>5, <1>6, NextFine
<1>8. JobsFine'
  BY <1>2, <1>7, ThenFine DEF VInv
<1>9. StateFine'
  BY <1>2, StillFine DEF VInv
<1> QED BY <1>8, <1>9 DEF VInv

\* ReadDb keeps the invariant.
LEMMA ReadDbFine ==
  ASSUME VInv, NEW p \in Procs, ReadDb(p)
  PROVE  VInv'
<1> DEFINE j == job[p]
           a == [j.kept EXCEPT !.db = Snapshot.db]
<1>1. JobFine(j)
  BY InFine DEF VInv
<1>2. /\ j.plan # <<>> /\ Head(j.plan) = "read db" /\ Follow(p) /\ saved' = a
      /\ UNCHANGED <<config, choice, routes, env>>
  BY DEF ReadDb, At, files, routingVars
<1>3. ArchiveFine(j.kept) /\ ArchiveFine(Snapshot)
  BY <1>1, <1>2, HeadFine, SnapshotFine DEF KeptFine, VInv
<1>4. ArchiveFine(a)
  <2> HIDE DEF j
  <2>1. /\ DOMAIN a = {"config", "env", "sites", "db"} /\ a.config = j.kept.config /\ a.env = j.kept.env
        /\ a.db = Snapshot.db
    BY <1>3 DEF ArchiveFine
  <2> HIDE DEF a
  <2> QED BY <1>3, <2>1 DEF ArchiveFine
<1>5. JobsFine'
  BY <1>2, GoesOn
<1> HIDE DEF a
<1>6. StateFine'
  <2>1. ArchiveFine(saved')
    BY <1>2, <1>4
  <2>2. Usable(config)' /\ StoresFine'
    BY <1>2 DEF VInv, StateFine, StoresFine
  <2> QED BY <2>1, <2>2 DEF StateFine, ArchiveFine
<1> QED BY <1>5, <1>6 DEF VInv

\* The end of a restore that places nothing.
LEMMA BackOutPlan ==
         <<"start", "resume">> \in Seq(Names) /\ BackPlaces(<<"start", "resume">>)
<1> DEFINE S == {"start", "resume"}
<1>1. <<"start", "resume">> \in Seq(S)
  BY SMT
<1>2. S \subseteq Names /\ S \subseteq PlaceSteps \union {"resume"}
  BY DEF Names, Uses, Others, PlaceSteps
<1> HIDE DEF S
<1>3. ASSUME NEW plan \in Seq(S) PROVE plan \in Seq(Names) /\ BackPlaces(plan)
  BY <1>2, SeqIn DEF BackPlaces
<1> QED BY <1>1, <1>3

\* A restore that places nothing ends in order.
LEMMA BackOutFine ==
  ASSUME StateFine, NEW j, JobFine(j), j.op = "restore"
  PROVE  JobFine([j EXCEPT !.plan = <<"start", "resume">>, !.back = <<>>, !.in = TRUE, !.kept = Snapshot])
<1> DEFINE k == [j EXCEPT !.plan = <<"start", "resume">>, !.back = <<>>, !.in = TRUE, !.kept = Snapshot]
<1>1. DOMAIN j = Fields /\ ArgFine(j.op, j.arg)
  BY DEF JobFine
<1>2. DOMAIN k = Fields /\ k.op = j.op /\ k.arg = j.arg /\ k.plan = <<"start", "resume">> /\ k.back = <<>> /\ k.kept = Snapshot
  BY <1>1 DEF Fields
<1> HIDE DEF k
<1>3. ArgFine(k.op, k.arg) /\ KeptFine(k)
  BY <1>1, <1>2, SnapshotFine DEF ArgFine, KeptFine
<1>4. k.plan \in Seq(Names) /\ BackPlaces(k.plan)
  BY <1>2, BackOutPlan
<1> QED BY <1>2, <1>3, <1>4, PlacesFine DEF k

\* The halt and the copy of the server keep the invariant.
LEMMA HaltFine ==
  ASSUME VInv, NEW p \in Procs, Halt(p) \/ CopyServer(p)
  PROVE  VInv'
<1> DEFINE j == job[p]
           k == [Next1(j) EXCEPT !.in = TRUE]
           c == [Next1(j) EXCEPT !.kept = Snapshot]
           b == [j EXCEPT !.plan = <<"start", "resume">>, !.back = <<>>, !.in = TRUE, !.kept = Snapshot]
<1>1. JobFine(j) /\ DOMAIN j = Fields
  BY InFine DEF VInv
<1>2. /\ j.plan # <<>> /\ Head(j.plan) \in {"halt", "copy server"}
      /\ \/ job' = [job EXCEPT ![Timer] = Idle]
         \/ Head(j.plan) = "halt" /\ Then(p, k)
         \/ Head(j.plan) = "copy server" /\ Then(p, c)
         \/ Then(p, b)
      /\ UNCHANGED <<config, choice, routes, env, saved>>
  BY DEF Halt, CopyServer, BackOut, At, files, routingVars, upkeepVars
<1>3. j.op = "restore"
  BY <1>1, <1>2, HeadFine
<1>4. JobFine(b)
  BY <1>1, <1>3, BackOutFine DEF VInv
<1>5. ASSUME Head(j.plan) = "halt" PROVE JobFine(k)
  <2>1. /\ DOMAIN k = Fields /\ k.op = j.op /\ k.arg = j.arg /\ k.plan = Tail(j.plan) /\ k.back = j.back
        /\ k.new = j.new /\ k.env = j.env /\ k.was = j.was /\ k.rows = j.rows /\ k.kept = j.kept
    BY <1>1 DEF Next1, Fields
  <2> HIDE DEF k
  <2> QED BY <1>1, <1>2, <1>5, <2>1, NextFine
<1>6. ASSUME Head(j.plan) = "copy server" PROVE JobFine(c)
  <2>1. /\ DOMAIN c = Fields /\ c.op = j.op /\ c.arg = j.arg /\ c.plan = Tail(j.plan) /\ c.back = j.back
        /\ c.new = j.new /\ c.env = j.env /\ c.was = j.was /\ c.rows = j.rows /\ c.kept = Snapshot
    BY <1>1 DEF Next1, Fields
  <2> HIDE DEF c
  <2>2. KeptFine(c)
    BY <2>1, SnapshotFine DEF KeptFine, VInv
  <2> QED BY <1>1, <1>2, <1>6, <2>1, <2>2, NextFine
<1> HIDE DEF j, k, b, c
<1>7. ASSUME job' = [job EXCEPT ![Timer] = Idle] PROVE JobsFine'
  BY <1>7, IdlesFine, RoutingAssumption DEF VInv
<1>8. JobsFine'
  BY <1>2, <1>4, <1>5, <1>6, <1>7, ThenFine DEF VInv
<1>9. StateFine'
  BY <1>2, StillFine DEF VInv
<1> QED BY <1>8, <1>9 DEF VInv

\* Whatever is put in place can be.
LEMMA SourceFine ==
  ASSUME NEW j, JobFine(j), j.plan # <<>>, Head(j.plan) \in PlaceSteps
  PROVE  ArchiveFine(Source(j))
<1>1. j.op = "restore" /\ KeptFine(j)
  BY HeadFine
<1>2. ArchiveFine(j.arg)
  BY <1>1 DEF JobFine, ArgFine
<1> QED BY <1>1, <1>2 DEF Source, KeptFine

\* Putting a part of an archive in place keeps the invariant.
LEMMA PlaceFine ==
  ASSUME VInv, NEW p \in Procs, Place(p)
  PROVE  VInv'
<1> DEFINE j == job[p]
           a == Source(j)
<1>1. JobFine(j)
  BY InFine DEF VInv
<1>2. /\ j.plan # <<>> /\ Head(j.plan) \in {"place config", "place env", "place db", "place sites", "serve sites"}
      /\ Follow(p) /\ UNCHANGED saved
      /\ \/ config' = a.config /\ UNCHANGED <<choice, routes, env>>
         \/ env' = a.env /\ UNCHANGED <<config, choice, routes>>
         \/ choice' = a.db.choice /\ routes' = a.db.routes /\ UNCHANGED <<config, env>>
         \/ UNCHANGED <<config, choice, routes, env>>
  BY DEF Place, Goes1, At, files, routingVars, upkeepVars
<1>3. ArchiveFine(a)
  BY <1>1, <1>2, SourceFine DEF PlaceSteps
<1>4. JobsFine'
  BY <1>2, GoesOn
<1> HIDE DEF j, a
<1>5. StateFine'
  <2>1. CASE UNCHANGED <<config, choice, routes, env>>
    BY <1>2, <2>1, StillFine DEF VInv
  <2>2. CASE config' = a.config /\ UNCHANGED <<choice, routes, env>>
    BY <1>2, <1>3, <2>2 DEF VInv, StateFine, StoresFine, ArchiveFine, Usable, Sound
  <2>3. CASE env' = a.env /\ UNCHANGED <<config, choice, routes>>
    <3>1. EnvFine(env)'
      BY <1>3, <2>3 DEF ArchiveFine, EnvFine
    <3> QED BY <1>2, <2>3, <3>1 DEF VInv, StateFine, StoresFine
  <2>4. CASE choice' = a.db.choice /\ routes' = a.db.routes /\ UNCHANGED <<config, env>>
    BY <1>2, <1>3, <2>4 DEF VInv, StateFine, StoresFine, ArchiveFine
  <2> QED BY <1>2, <2>1, <2>2, <2>3, <2>4
<1> QED BY <1>4, <1>5 DEF VInv

-----------------------------------------------------------------------------
\* The steps that leave config.json, the choices, the routes, server.env and the backup alone.
LEMMA ReplacesFine ==
  ASSUME VInv, NEW p \in Procs, job[p].plan # <<>>, Head(job[p].plan) \in PlaceSteps \union UpdateSteps,
         Follow(p) \/ Then(p, [job[p] EXCEPT !.plan = <<>>]) \/ FallsBack(p),
         config' \in {config, Half}, UNCHANGED <<choice, routes, env, saved>>
  PROVE  VInv'
<1>1. Head(job[p].plan) \notin {"load", "save", "probe", "read", "copy server", "read files"}
  BY DEF PlaceSteps, UpdateSteps
<1>2. JobsFine'
  BY <1>1, GoesOn, FallbackFine
<1>3. StateFine'
  <2>1. Usable(config)'
    BY DEF VInv, StateFine, Usable, Sound
  <2> QED BY <2>1 DEF VInv, StateFine, StoresFine
<1> QED BY <1>2, <1>3 DEF VInv

\* The steps of the updates and the failures of a restore keep the invariant.
LEMMA PiecesFine ==
  ASSUME VInv, NEW p \in Procs,
         PlaceFails(p) \/ Restart(p) \/ PlacePart(p) \/ PlaceManager(p) \/ RenameOld(p) \/ RenameNew(p) \/ Sync(p) \/ Validate(p)
  PROVE  VInv'
<1>1. job[p].plan # <<>>
  BY DEF PlaceFails, Restart, PlacePart, PlaceManager, RenameOld, RenameNew, Sync, Validate, At
<1>2. Head(job[p].plan) \in PlaceSteps \union UpdateSteps
  <2>1. ASSUME PlaceFails(p) \/ Restart(p) \/ PlacePart(p) PROVE Head(job[p].plan) \in PlaceSteps \union UpdateSteps
    BY <2>1 DEF PlaceFails, Restart, PlacePart, At, PlaceSteps, UpdateSteps
  <2>2. ASSUME PlaceManager(p) \/ RenameOld(p) \/ RenameNew(p) \/ Sync(p) \/ Validate(p) PROVE Head(job[p].plan) \in UpdateSteps
    BY <2>2 DEF PlaceManager, RenameOld, RenameNew, Sync, Validate, At, UpdateSteps
  <2> QED BY <2>1, <2>2
<1>3. Follow(p) \/ Then(p, [job[p] EXCEPT !.plan = <<>>]) \/ FallsBack(p)
  BY Zenon DEF Fallback, PlaceFails, Restart, PlacePart, PlaceManager, RenameOld, RenameNew, Sync, Validate, Goes1
<1>4. config' \in {config, Half} /\ UNCHANGED <<choice, routes, env, saved>>
  <2>1. ASSUME PlaceFails(p) \/ Restart(p) \/ PlacePart(p)
        PROVE  config' \in {config, Half} /\ UNCHANGED <<choice, routes, env, saved>>
    BY <2>1 DEF PlaceFails, Restart, PlacePart, files, routingVars, upkeepVars
  <2>2. ASSUME PlaceManager(p) \/ RenameOld(p) \/ RenameNew(p) \/ Sync(p) \/ Validate(p) PROVE UNCHANGED <<config, choice, routes, env, saved>>
    BY <2>2 DEF PlaceManager, RenameOld, RenameNew, Sync, Validate, OnlyManager, files, routingVars
  <2> QED BY <2>1, <2>2
<1> QED BY <1>1, <1>2, <1>3, <1>4, ReplacesFine

\* So do the steps that check.
LEMMA ChecksFine ==
  ASSUME VInv, NEW p \in Procs, Resume(p) \/ Ready(p) \/ Fetch(p) \/ UpdateRefused(p)
  PROVE  VInv'
<1>1. /\ job[p].plan # <<>> /\ Head(job[p].plan) \in {"resume", "ready", "fetch", "obtain", "choose"}
      /\ Follow(p) \/ Then(p, [job[p] EXCEPT !.plan = <<>>])
      /\ UNCHANGED <<config, choice, routes, env, saved>>
  BY DEF Resume, Ready, Fetch, UpdateRefused, Goes1, At, OnlyManager, files, routingVars, upkeepVars
<1>2. JobsFine'
  BY <1>1, GoesOn
<1>3. StateFine'
  BY <1>1, StillFine DEF VInv
<1> QED BY <1>2, <1>3 DEF VInv

\* What a command sets aside for itself.
LEMMA AsideFine ==
  ASSUME VInv, NEW p \in Procs, NEW kept, job[p].plan # <<>>, Head(job[p].plan) \in KeptSteps \union {"note", "obtain"},
         Head(job[p].plan) \in KeptSteps \/ kept = job[p].kept,
         \/ Then(p, [Next1(job[p]) EXCEPT !.in = TRUE, !.kept = kept])
         \/ Then(p, [Next1(job[p]) EXCEPT !.kept = kept])
  PROVE  JobsFine'
<1> DEFINE j == job[p]
           k == [Next1(j) EXCEPT !.in = TRUE, !.kept = kept]
           g == [Next1(j) EXCEPT !.kept = kept]
<1>1. JobFine(j)
  BY InFine DEF VInv
<1>2. JobFine(k) /\ JobFine(g)
  BY <1>1, KeepsOn
<1>3. Then(p, k) \/ Then(p, g)
  OBVIOUS
<1> HIDE DEF k, g
<1> QED BY <1>2, <1>3, ThenFine DEF VInv

\* So do those that keep what was.
LEMMA KeepingFine ==
  ASSUME VInv, NEW p \in Procs, Keep(p) \/ CopyManager(p) \/ ChooseBackup(p)
  PROVE  VInv'
<1>1. /\ job[p].plan # <<>>
      /\ \/ Head(job[p].plan) = "begin copy" /\ Follow(p)
         \/ /\ Head(job[p].plan) \in {"keep", "set aside", "end copy", "choose"}
            /\ \E kept : \/ Then(p, [Next1(job[p]) EXCEPT !.in = TRUE, !.kept = kept])
                         \/ Then(p, [Next1(job[p]) EXCEPT !.kept = kept])
  BY DEF Keep, CopyManager, ChooseBackup, At
<1>2. UNCHANGED <<config, choice, routes, env, saved>>
  BY DEF Keep, CopyManager, ChooseBackup, OnlyManager, files, routingVars
<1>3. {"keep", "set aside", "end copy", "choose"} \subseteq KeptSteps
  BY DEF KeptSteps
<1>4. JobsFine'
  BY <1>1, <1>3, GoesOn, AsideFine
<1>5. StateFine'
  BY <1>2, StillFine DEF VInv
<1> QED BY <1>4, <1>5 DEF VInv

\* Obtain keeps the invariant.
LEMMA ObtainFine ==
  ASSUME VInv, NEW p \in Procs, Obtain(p)
  PROVE  VInv'
<1> DEFINE j == job[p]
           k == [Next1(j) EXCEPT !.in = TRUE]
           d == [j EXCEPT !.plan = <<>>]
<1>1. JobFine(j) /\ DOMAIN j = Fields
  BY InFine DEF VInv
<1>2. /\ j.plan # <<>> /\ Head(j.plan) = "obtain" /\ (Then(p, k) \/ Then(p, d))
      /\ UNCHANGED <<config, choice, routes, env, saved>>
  BY DEF Obtain, At, OnlyManager, files, routingVars
<1>3. JobFine(d)
  BY <1>1, EndFine
<1>4. /\ DOMAIN k = Fields /\ k.op = j.op /\ k.arg = j.arg /\ k.plan = Tail(j.plan) /\ k.back = j.back
      /\ k.new = j.new /\ k.env = j.env /\ k.was = j.was /\ k.rows = j.rows /\ k.kept = j.kept
  BY <1>1 DEF Next1, Fields
<1> HIDE DEF j, k, d
<1>5. JobFine(k)
  BY <1>1, <1>2, <1>4, NextFine
<1>6. JobsFine'
  BY <1>2, <1>3, <1>5, ThenFine DEF VInv
<1>7. StateFine'
  BY <1>2, StillFine DEF VInv
<1> QED BY <1>6, <1>7 DEF VInv

\* The steps of the upkeep keep the invariant.
LEMMA UpkeepFine ==
  ASSUME VInv, UpkeepNext
  PROVE  VInv'
<1>1. ASSUME NEW p \in Procs, UpkeepProgress(p) PROVE VInv'
  BY <1>1, ReadFilesFine, ReadDbFine, HaltFine, PlaceFine, PiecesFine, ChecksFine, KeepingFine, ObtainFine DEF UpkeepProgress
<1>2. ASSUME NEW p \in Procs, UNCHANGED <<routingVars, connectionVars, upkeepVars>>,
             Backups(p) \/ UpdateXray(p) \/ UpdateAssets(p) \/ RollbackXray(p) \/ UpdateManager(p) \/ RollbackManager(p)
      PROVE  VInv'
  <2>1. UNCHANGED <<routingVars, saved>>
    BY <1>2 DEF upkeepVars
  <2> QED BY <1>2, <2>1, BackupsBegins, UpdatesBegin
<1> QED BY <1>1, <1>2 DEF UpkeepNext

-----------------------------------------------------------------------------
\* The steps of the panel.
LEMMA PanelPlans ==
  /\ <<"reply">> \in Seq({"run", "clear", "reply"})
  /\ <<"run", "clear", "reply">> \in Seq({"run", "clear", "reply"})
  /\ <<"put", "serve", "list", "reply">> \in Seq({"put", "serve", "list", "reply"})
<1>1. <<"reply">> \in Seq({"run", "clear", "reply"})
  BY SMT
<1>2. <<"run", "clear", "reply">> \in Seq({"run", "clear", "reply"})
  BY SMT
<1>3. <<"put", "serve", "list", "reply">> \in Seq({"put", "serve", "list", "reply"})
  BY SMT
<1> QED BY <1>1, <1>2, <1>3, Zenon

\* The owner's backup, as a sequence.
LEMMA ThreeSteps == <<"read files", "read db", "reply">> \in Seq({"read files", "read db", "reply"})
  BY SMT

\* A sequence of three.
LEMMA ThreeLong == \A a, b, c : DOMAIN <<a, b, c>> = 1 .. 3 /\ <<a, b, c>>[1] = a /\ <<a, b, c>>[3] = c
  OBVIOUS

\* The third of three.
LEMMA FromThree == 3 \in Nat /\ \A k \in 3 .. 3 : k = 3
  OBVIOUS

\* A reply places nothing.
LEMMA ReplyKeeps == "reply" \notin PlaceSteps \union {"read db"}
  BY DEF PlaceSteps

\* The owner's backup reads the files first.
LEMMA BackupPlan ==
  ASSUME NEW plan, plan = <<"read files", "read db", "reply">>
  PROVE  /\ plan \in Seq({"read files", "read db", "reply"})
         /\ Guarded(plan, PlaceSteps \union {"read db"}, {"copy server", "read files"}, KeptSteps, FALSE)
<1>3. DOMAIN plan = 1 .. 3 /\ plan[1] = "read files" /\ plan[3] = "reply"
  BY ThreeLong, Zenon
<1>4. plan \in Seq({"read files", "read db", "reply"})
  BY ThreeSteps, Zenon
<1>7. \A k \in 3 .. 3 : plan[k] \notin PlaceSteps \union {"read db"}
  BY <1>3, FromThree, ReplyKeeps, Zenon
<1> QED BY <1>3, <1>4, <1>7, FromThree, ReadsFirst, Zenon

\* The owner's backup begins in order.
LEMMA OwnerBackupFine ==
  ASSUME NEW k, DOMAIN k = Fields, ArgFine(k.op, k.arg), k.back \in Seq(Names), NEW plan, k.plan = plan,
         plan \in Seq({"read files", "read db", "reply"}),
         Guarded(plan, PlaceSteps \union {"read db"}, {"copy server", "read files"}, KeptSteps, FALSE)
  PROVE  JobFine(k)
<1> DEFINE S == {"read files", "read db", "reply"}
<1>1. S \subseteq Names
  BY DEF Names, Uses, Others
<1>2. /\ S \intersect {"save"} = {} /\ S \intersect {"rows", "commit"} = {} /\ S \intersect {"env"} = {}
      /\ S \intersect WasSteps(k.op) = {} /\ S \intersect ReadSteps(k.op) = {}
      /\ S \intersect {"probe"} = {} /\ S \intersect {"load", "try", "commit"} = {}
  BY DEF WasSteps, ReadSteps
<1>3. S \intersect ({"halt", "copy server"} \union PlaceSteps) = {} /\ S \intersect (UpdateSteps \union SshSteps) = {}
  BY DEF PlaceSteps, UpdateSteps, SshSteps
<1>4. plan \in Seq(S)
  OBVIOUS
<1> HIDE DEF S
<1>5. plan \in Seq(Names)
  BY <1>1, <1>4, SeqIn
<1>6. \A T : S \intersect T = {} => ~Left(plan, T) /\ \A m, r, P : Guarded(plan, T, m, r, P)
  BY <1>4, Away
<1>7. Starts(k.op, k.plan)
  BY <1>2, <1>6 DEF Starts
<1> QED BY <1>2, <1>3, <1>5, <1>6, <1>7, StartsFine

\* keeps the invariant.
LEMMA ActFine ==
  ASSUME VInv, NEW p \in Procs, Act(p), UNCHANGED <<routingVars, saved>>
  PROVE  VInv'
<1>1. PICK r : Then(p, [job[p] EXCEPT !.plan = Steps(r.run), !.rows = r,
                          !.op = IF r.run.what = "tls" THEN "owner tls" ELSE @,
                          !.arg = IF r.run.what = "tls" THEN [at |-> r.run.name, tls |-> r.run.to] ELSE @])
  BY Zenon DEF Act
<1> DEFINE j == job[p]
           tls == r.run.what = "tls"
           k == [j EXCEPT !.plan = Steps(r.run), !.rows = r,
                          !.op = IF tls THEN "owner tls" ELSE @,
                          !.arg = IF tls THEN [at |-> r.run.name, tls |-> r.run.to] ELSE @]
<1>2. JobFine(j) /\ DOMAIN j = Fields /\ j.back \in Seq(Names) /\ ArgFine(j.op, j.arg)
  BY InFine DEF VInv, JobFine
<1>3. Then(p, k) /\ UNCHANGED config
  BY <1>1 DEF Act, files
<1>4. /\ DOMAIN k = Fields /\ k.plan = Steps(r.run) /\ k.back = j.back
      /\ tls => k.op = "owner tls"
      /\ ~tls => k.op = j.op /\ k.arg = j.arg
  <2> DEFINE x == [at |-> r.run.name, tls |-> r.run.to]
  <2> HIDE DEF x, j, tls
  <2>1. /\ DOMAIN k = Fields /\ k.plan = Steps(r.run) /\ k.back = j.back
        /\ k.op = IF tls THEN "owner tls" ELSE j.op
        /\ k.arg = IF tls THEN x ELSE j.arg
    BY <1>2 DEF Fields, x
  <2> HIDE DEF k
  <2> QED BY <2>1
<1>5. /\ tls => Steps(r.run) = <<"put", "serve", "list", "reply">>
      /\ ~tls => \/ Steps(r.run) = <<"reply">> \/ Steps(r.run) = <<"run", "clear", "reply">>
                 \/ Steps(r.run) = <<"read files", "read db", "reply">>
  BY Zenon DEF Steps
<1>6. ArgFine(k.op, k.arg) /\ (tls => k.op # "trojan update")
  <2> HIDE DEF k, j, tls
  <2>1. CASE tls
    <3>1. FreeOp("owner tls")
      BY DEF FreeOp, RoutingOps, KeepsLoaded, ConnectionOps
    <3> QED BY <1>4, <2>1, <3>1, FreeArg
  <2>2. CASE ~tls
    BY <1>2, <1>4, <2>2 DEF ArgFine
  <2> QED BY <2>1, <2>2
<1> DEFINE plan == Steps(r.run)
<1> HIDE DEF k, j, plan, tls
<1>7. JobFine(k)
  <2>1. CASE tls
    <3> DEFINE S == {"put", "serve", "list", "reply"}
    <3>1. S \subseteq Others \union {"serve"} /\ S \intersect (UpdateSteps \union SshSteps) = {}
      BY DEF Others, KeptSteps, RowsSteps, UpdateSteps, SshSteps
    <3>2. plan \in Seq(S)
      BY <1>5, <2>1, PanelPlans, Zenon DEF plan
    <3> HIDE DEF S
    <3>3. plan \in Seq(Others \union {"serve"}) /\ ~Left(plan, UpdateSteps \union SshSteps)
      BY <3>1, <3>2, SeqIn, Away
    <3> QED BY <1>2, <1>4, <1>6, <2>1, <3>3, SiteFine DEF plan
  <2>2. CASE ~tls /\ plan # <<"read files", "read db", "reply">>
    <3> DEFINE S == {"run", "clear", "reply"}
    <3>1. S \subseteq Others /\ S \intersect (UpdateSteps \union SshSteps) = {}
      BY DEF Others, UpdateSteps, SshSteps
    <3>2. plan \in Seq(S)
      BY <1>5, <2>2, PanelPlans, Zenon DEF plan
    <3> HIDE DEF S
    <3>3. plan \in Seq(Others) /\ ~Left(plan, UpdateSteps \union SshSteps)
      BY <3>1, <3>2, SeqIn, Away
    <3> QED BY <1>2, <1>4, <1>6, <2>2, <3>3, HarmlessFine DEF plan, Harmless
  <2>3. CASE ~tls /\ plan = <<"read files", "read db", "reply">>
    <3>1. /\ plan \in Seq({"read files", "read db", "reply"})
          /\ Guarded(plan, PlaceSteps \union {"read db"}, {"copy server", "read files"}, KeptSteps, FALSE)
      BY <2>3, BackupPlan, Zenon
    <3>2. DOMAIN k = Fields /\ ArgFine(k.op, k.arg) /\ k.back \in Seq(Names) /\ k.plan = plan
      BY <1>2, <1>4, <1>6 DEF plan
    <3> HIDE DEF plan
    <3> QED BY <3>1, <3>2, OwnerBackupFine
  <2> QED BY <2>1, <2>2, <2>3
<1>8. JobsFine'
  BY <1>3, <1>7, ThenFine DEF VInv
<1>9. StateFine'
  BY <1>3, StillFine DEF VInv, routingVars
<1> QED BY <1>8, <1>9 DEF VInv

\* List keeps the invariant.
LEMMA ListFine ==
  ASSUME VInv, NEW p \in Procs, List(p), UNCHANGED <<routingVars, saved>>
  PROVE  VInv'
<1> DEFINE j == job[p]
           k == [Next1(j) EXCEPT !.rows = ListSites]
<1>1. JobFine(j) /\ DOMAIN j = Fields
  BY InFine DEF VInv
<1>2. j.plan # <<>> /\ Head(j.plan) = "list" /\ Then(p, k) /\ UNCHANGED config
  BY DEF List, At, files
<1>4. /\ DOMAIN k = Fields /\ k.op = j.op /\ k.arg = j.arg /\ k.plan = Tail(j.plan) /\ k.back = j.back
      /\ k.new = j.new /\ k.env = j.env /\ k.was = j.was /\ k.kept = j.kept
  BY <1>1 DEF Next1, Fields
<1> HIDE DEF j, k
<1>5. JobFine(k)
  BY <1>1, <1>2, <1>4, NextFine
<1>6. JobsFine'
  BY <1>2, <1>5, ThenFine DEF VInv
<1>7. StateFine'
  BY <1>2, StillFine DEF VInv, routingVars
<1> QED BY <1>6, <1>7 DEF VInv

\* The steps of the owner's panel keep the invariant.
LEMMA PanelFine ==
  ASSUME VInv, PanelNext, UNCHANGED <<routingVars, saved>>
  PROVE  VInv'
<1>1. CASE Elsewhere
  <2>1. UNCHANGED <<job, config, choice, routes, env, saved>>
    BY <1>1 DEF Elsewhere, files, routingVars
  <2>2. StateFine'
    BY <2>1, StillFine DEF VInv
  <2> QED BY <2>1, <2>2 DEF VInv, JobsFine
<1>2. ASSUME NEW p \in Procs, Accept(p) \/ RunCommand(p) \/ Clear(p) \/ Reply(p) PROVE VInv'
  <2>1. /\ job[p].plan # <<>> /\ Head(job[p].plan) \in {"accept", "run", "clear", "reply"}
        /\ Follow(p) \/ Then(p, [job[p] EXCEPT !.plan = <<>>])
        /\ UNCHANGED config
    BY <1>2 DEF Accept, RunCommand, Clear, Reply, At, files
  <2>2. JobsFine'
    BY <2>1, GoesOn
  <2>3. StateFine'
    BY <2>1, StillFine DEF VInv, routingVars
  <2> QED BY <2>2, <2>3 DEF VInv
<1>3. ASSUME NEW p \in Procs, Tap(p) \/ Type(p) PROVE VInv'
  BY <1>3, PanelBegins
<1> QED BY <1>1, <1>2, <1>3, ActFine, ListFine DEF PanelNext

-----------------------------------------------------------------------------
(***************************************************************************)
(* The SSH login, and the theorem.                                         *)
(***************************************************************************)
-----------------------------------------------------------------------------
\* The steps of the SSH login.
LEMMA SshFailsFine ==
  ASSUME VInv, NEW p \in Procs, job[p].plan # <<>>, Head(job[p].plan) \in SshSteps, SshFails(p)
  PROVE  JobsFine'
<1> DEFINE j == job[p]
           d == [j EXCEPT !.plan = <<>>]
           k == [j EXCEPT !.plan = j.back, !.back = <<>>]
<1>1. JobFine(j) /\ DOMAIN j = Fields
  BY InFine DEF VInv
<1>2. JobFine(d)
  BY <1>1, EndFine
<1>3. /\ DOMAIN k = Fields /\ k.op = j.op /\ k.arg = j.arg /\ k.kept = j.kept
      /\ k.plan = j.back /\ k.back = <<>>
  BY <1>1 DEF Fields
<1>4. Then(p, d) \/ Then(p, k)
  BY Zenon DEF SshFails
<1> HIDE DEF j, d, k
<1>5. JobFine(k)
  BY <1>1, <1>3, BackFine DEF j
<1> QED BY <1>2, <1>4, <1>5, ThenFine DEF VInv

\* A step of the SSH login keeps the invariant.
LEMMA SshStepFine ==
  ASSUME VInv, NEW p \in Procs, NEW h, h \in SshSteps \union {"reload old"}, At(p, h),
         Follow(p) \/ (h \in SshSteps /\ SshFails(p)),
         UNCHANGED <<config, choice, routes, env, saved>>
  PROVE  VInv'
<1>1. job[p].plan # <<>> /\ Head(job[p].plan) = h
  BY DEF At
<1>2. h \notin {"load", "save", "probe", "read", "copy server", "read files"}
  BY DEF SshSteps
<1>3. JobsFine'
  BY <1>1, <1>2, GoesOn, SshFailsFine
<1>4. StateFine'
  BY StillFine DEF VInv
<1> QED BY <1>3, <1>4 DEF VInv

\* The steps of the SSH login keep the invariant.
LEMMA SshFine ==
  ASSUME VInv, SshNext, UNCHANGED <<routingVars, saved>>
  PROVE  VInv'
<1> USE DEF OnlySsh, files, routingVars
<1>1. ASSUME NEW p \in Procs, Texts0(p) PROVE VInv'
  <2>1. job[p].plan # <<>> /\ Head(job[p].plan) = "texts" /\ Then(p, [Next1(job[p]) EXCEPT !.in = TRUE, !.kept = ssh])
    BY <1>1 DEF Texts0, At
  <2>2. "texts" \in KeptSteps
    BY DEF KeptSteps
  <2>3. JobsFine'
    BY <2>1, <2>2, AsideFine
  <2>4. UNCHANGED config
    BY <1>1 DEF Texts0
  <2>5. StateFine'
    BY <2>4, StillFine DEF VInv
  <2> QED BY <2>3, <2>5 DEF VInv
<1>2. ASSUME NEW p \in Procs, EditSsh(p) PROVE VInv'
  <2>1. PICK x \in Parts : At(p, x)
    BY <1>2 DEF EditSsh
  <2>2. x \in SshSteps /\ (Follow(p) \/ SshFails(p)) /\ UNCHANGED config
    BY <1>2 DEF EditSsh, Parts, SshSteps
  <2> QED BY <2>1, <2>2, SshStepFine
<1>3. ASSUME NEW p \in Procs, AskSshd(p) \/ ReloadSshd(p) PROVE VInv'
  <2>1. \E h \in {"ask sshd", "reload sshd"} : At(p, h)
    BY <1>3 DEF AskSshd, ReloadSshd
  <2>2. {"ask sshd", "reload sshd"} \subseteq SshSteps
    BY DEF SshSteps
  <2>3. (Follow(p) \/ SshFails(p)) /\ UNCHANGED config
    BY <1>3 DEF AskSshd, ReloadSshd
  <2> QED BY <2>1, <2>2, <2>3, SshStepFine
<1>4. ASSUME NEW p \in Procs, PutBackSsh(p) PROVE VInv'
  <2>1. \E h \in {"back include", "back dropin", "back legacy"} : At(p, h)
    BY <1>4, Zenon DEF PutBackSsh
  <2>2. {"back include", "back dropin", "back legacy"} \subseteq SshSteps
    BY DEF SshSteps
  <2>3. (Follow(p) \/ SshFails(p)) /\ UNCHANGED config
    BY <1>4, Zenon DEF PutBackSsh
  <2> QED BY <2>1, <2>2, <2>3, SshStepFine
<1>5. ASSUME NEW p \in Procs, ReloadOld(p) PROVE VInv'
  <2>1. At(p, "reload old") /\ Follow(p) /\ UNCHANGED config
    BY <1>5 DEF ReloadOld
  <2> QED BY <2>1, SshStepFine
<1> USE DEF SshNext
<1> QED BY <1>1, <1>2, <1>3, <1>4, <1>5, SshItemBegins

-----------------------------------------------------------------------------
\* The invariant holds at first.
LEMMA FirstFine ==
  ASSUME Init
  PROVE  VInv
<1>1. config = FreshServer /\ job = [p \in Procs |-> Idle]
  BY DEF Init, ServerInit
<1>2. choice \in ClientChoices
  BY DEF Init, RoutingInit, ClientChoices
<1>3. routes \in RouteRows
  BY DEF Init, RoutingInit, RouteRows, NoRow
<1>4. EnvFine(env)
  BY DEF Init, RoutingInit, EnvFine
<1>5. saved = Nothing
  BY DEF Init, UpkeepInit
<1>6. StateFine
  BY <1>1, <1>2, <1>3, <1>4, <1>5, FreshSound DEF StateFine, StoresFine, Usable
<1>7. JobsFine
  BY <1>1, IdleFine DEF JobsFine
<1> QED BY <1>6, <1>7 DEF VInv

\* Every step keeps it.
LEMMA EveryStepFine ==
  ASSUME VInv, [Next]_vars
  PROVE  VInv'
<1>1. CASE RoutingNext /\ UNCHANGED upkeepVars
  BY <1>1, RoutingFine DEF upkeepVars
<1>2. CASE ConnectionsNext /\ UNCHANGED upkeepVars
  BY <1>2, ConnectionsFine DEF upkeepVars
<1>3. CASE UpkeepNext
  BY <1>3, UpkeepFine
<1>4. CASE PanelNext /\ UNCHANGED <<routingVars, upkeepVars>>
  BY <1>4, PanelFine DEF upkeepVars
<1>5. CASE SshNext /\ UNCHANGED <<routingVars, upkeepVars>>
  BY <1>5, SshFine DEF upkeepVars
<1>6. CASE UNCHANGED vars
  <2>1. UNCHANGED <<job, config, choice, routes, env, saved>>
    BY <1>6 DEF vars, serverVars, routingVars, upkeepVars
  <2>2. StateFine'
    BY <2>1, StillFine DEF VInv
  <2> QED BY <2>1, <2>2 DEF VInv, JobsFine
<1> QED BY <1>1, <1>2, <1>3, <1>4, <1>5, <1>6 DEF Next, Quiet

-----------------------------------------------------------------------------
(***************************************************************************)
(* Services: what runs follows the files.                                  *)
(***************************************************************************)
\* The services, and what each runs by.
Services == {"xray", "caddy", "sshd", "units"}
\* A service runs what the files say.
Current(s) ==
  /\ s = "xray" => xray = config /\ Readable
  /\ s = "caddy" => caddy = sites
  /\ s = "sshd" => sshd = Passwords(ssh)
  /\ s = "units" => units = "on"

\* The steps of a command on its way to a service: what it does, or what its failure leads
\* to, makes the service follow again.
OnTheWay(h, s) ==
  \/ s = "xray" /\ h \in {"undo", "unprobe", "copy server", "place config", "place env", "place db", "place sites",
                          "serve sites", "place bin", "place geo"}
  \/ s = "caddy" /\ h \in {"take back", "place config", "place env", "place db", "place sites"}
  \/ s = "sshd" /\ h \in {"include", "dropin", "legacy", "ask sshd", "back include", "back dropin", "back legacy"}
  \/ s = "units" /\ h \in {"copy server", "place config", "place env", "place db", "place sites", "serve sites", "start"}

\* The steps after which a service may not follow the files.
Strays(h, s) ==
  \/ OnTheWay(h, s)
  \/ s = "xray" /\ h \in {"save", "probe", "halt"}
  \/ s = "caddy" /\ h \in {"put", "extract"}
  \/ s = "units" /\ h = "halt"

\* The steps a service that does not follow may wait for.
Due(h, s) ==
  \/ OnTheWay(h, s)
  \/ s = "xray" /\ h \in {"try", "redo", "start", "restart"}
  \/ s = "caddy" /\ h \in {"serve", "reload", "serve sites"}
  \/ s = "sshd" /\ h \in {"reload sshd", "reload old"}
  \/ s = "units" /\ h = "resume"

\* A service that a step lets stray is due at the next.
HandsOn(h, n) == \A s \in Services : Strays(h, s) => Due(n, s)
\* A step that lets no service stray.
Calm(h) == \A s \in Services : ~Strays(h, s)
\* What each step of a plan lets stray is due at the next; the last lets nothing stray.
Closed(plan) ==
  \A k \in DOMAIN plan : IF k + 1 \in DOMAIN plan THEN HandsOn(plan[k], plan[k + 1]) ELSE Calm(plan[k])

\* And what a failed step leads to starts on the way of every service that was.
BackOn(j) ==
  \/ j.back = <<>>
  \/ /\ Left(j.plan, PlaceSteps) => Head(j.back) = "place config"
     /\ Left(j.plan, {"place bin", "place geo", "restart"}) => Head(j.back) \in {"place bin", "place geo"}
     /\ Left(j.plan, SshSteps) => Head(j.back) = "back include"
\* Plans that leave no service behind, whether they end or fail.
PlanOn(j) == Closed(j.plan) /\ Closed(j.back) /\ BackOn(j)

\* manager.lock is held from the first step of a command that takes it.
Entries == {"load", "probe", "halt"}
\* A job j of p while l holds manager.lock.
Locks(j, p, l) ==
  /\ j.in /\ j.locked => l = p
  /\ j.locked => j.in \/ (j.plan # <<>> /\ Head(j.plan) \in Entries)
  /\ j.op = "none" => j.plan = <<>>

\* The next step of the job is due to make the service follow.
Awaits(j, s) == j.plan # <<>> /\ Due(Head(j.plan), s)
\* A service follows the files, or a command was cut short, or some process is due to make
\* it follow.
Follows(s) == torn \/ Current(s) \/ \E p \in Procs : Awaits(job[p], s)
\* Every process holds the lock it needs and has plans that leave no service behind.
JobsOn == \A p \in Procs : Locks(job[p], p, lock) /\ PlanOn(job[p])
\* The invariant the services are proved to follow by.
FInv == JobsOn /\ \A s \in Services : Follows(s)

-----------------------------------------------------------------------------
\* Nothing left to do lets nothing stray.
LEMMA ClosedEnd ==
  Closed(<<>>)
<1>1. DOMAIN <<>> = {}
  OBVIOUS
<1> QED BY <1>1 DEF Closed

\* A closed plan is closed after its first step, and a service that this step lets stray is
\* due at the next.
LEMMA ClosedTail ==
  ASSUME NEW plan \in Seq(Names), plan # <<>>, Closed(plan)
  PROVE  /\ Closed(Tail(plan))
         /\ \A s \in Services : Strays(Head(plan), s) => Tail(plan) # <<>> /\ Due(Head(Tail(plan)), s)
<1> DEFINE t == Tail(plan)
<1>1. /\ DOMAIN t = 1 .. Len(plan) - 1 /\ DOMAIN plan = 1 .. Len(plan) /\ Len(plan) \in Nat
      /\ \A k \in 1 .. Len(plan) - 1 : t[k] = plan[k + 1]
      /\ Head(plan) = plan[1] /\ t \in Seq(Names) /\ Len(t) = Len(plan) - 1 /\ 1 \in DOMAIN plan
  BY TailIs
<1> HIDE DEF t
<1>2. Closed(t)
  <2> SUFFICES ASSUME NEW k \in DOMAIN t
               PROVE  IF k + 1 \in DOMAIN t THEN HandsOn(t[k], t[k + 1]) ELSE Calm(t[k])
    BY DEF Closed
  <2>1. k + 1 \in DOMAIN plan /\ t[k] = plan[k + 1] /\ k \in Nat
    BY <1>1
  <2>2. IF (k + 1) + 1 \in DOMAIN plan THEN HandsOn(plan[k + 1], plan[(k + 1) + 1]) ELSE Calm(plan[k + 1])
    BY <2>1 DEF Closed
  <2>3. CASE k + 1 \in DOMAIN t
    <3>1. (k + 1) + 1 \in DOMAIN plan /\ t[k + 1] = plan[(k + 1) + 1]
      BY <1>1, <2>1, <2>3
    <3> QED BY <2>1, <2>2, <2>3, <3>1
  <2>4. CASE k + 1 \notin DOMAIN t
    <3>1. (k + 1) + 1 \notin DOMAIN plan
      BY <1>1, <2>1, <2>4
    <3> QED BY <2>1, <2>2, <2>4, <3>1
  <2> QED BY <2>3, <2>4
<1>3. ASSUME NEW s \in Services, Strays(Head(plan), s) PROVE t # <<>> /\ Due(Head(t), s)
  <2>1. ~Calm(plan[1])
    BY <1>1, <1>3 DEF Calm
  <2>2. 1 + 1 \in DOMAIN plan /\ HandsOn(plan[1], plan[1 + 1])
    BY <1>1, <2>1 DEF Closed
  <2>3. Len(t) >= 1 /\ 1 \in 1 .. Len(plan) - 1
    BY <1>1, <2>2
  <2>4. t # <<>> /\ Head(t) = plan[1 + 1]
    BY <1>1, <2>3
  <2> QED BY <1>1, <1>3, <2>2, <2>4 DEF HandsOn
<1> QED BY <1>2, <1>3 DEF t

\* Closed plans one after the other.
LEMMA ClosedConcat ==
  ASSUME NEW s \in Seq(Names), NEW t \in Seq(Names), Closed(s), Closed(t)
  PROVE  Closed(s \o t)
<1> DEFINE c == s \o t
<1>1. /\ DOMAIN c = 1 .. Len(s) + Len(t) /\ DOMAIN s = 1 .. Len(s) /\ DOMAIN t = 1 .. Len(t)
      /\ Len(s) \in Nat /\ Len(t) \in Nat
      /\ \A i \in 1 .. Len(s) + Len(t) : c[i] = IF i <= Len(s) THEN s[i] ELSE t[i - Len(s)]
  BY ConcatProperties
<1> HIDE DEF c
<1> SUFFICES ASSUME NEW k \in DOMAIN c
             PROVE  IF k + 1 \in DOMAIN c THEN HandsOn(c[k], c[k + 1]) ELSE Calm(c[k])
  BY DEF Closed, c
<1>2. CASE k + 1 <= Len(s)
  <2>1. k \in DOMAIN s /\ k + 1 \in DOMAIN s /\ k + 1 \in DOMAIN c /\ c[k] = s[k] /\ c[k + 1] = s[k + 1]
    BY <1>1, <1>2
  <2> QED BY <2>1 DEF Closed
<1>3. CASE k = Len(s)
  <2>1. k \in DOMAIN s /\ k + 1 \notin DOMAIN s /\ c[k] = s[k]
    BY <1>1, <1>3
  <2>2. Calm(c[k])
    BY <2>1 DEF Closed
  <2> QED BY <2>2 DEF Calm, HandsOn
<1>4. CASE k > Len(s)
  <2>1. k - Len(s) \in DOMAIN t /\ c[k] = t[k - Len(s)] /\ (k + 1) - Len(s) = (k - Len(s)) + 1
    BY <1>1, <1>4
  <2>2. IF (k - Len(s)) + 1 \in DOMAIN t THEN HandsOn(t[k - Len(s)], t[(k - Len(s)) + 1]) ELSE Calm(t[k - Len(s)])
    BY <2>1 DEF Closed
  <2>3. CASE k + 1 \in DOMAIN c
    <3>1. (k - Len(s)) + 1 \in DOMAIN t /\ c[k + 1] = t[(k - Len(s)) + 1]
      BY <1>1, <1>4, <2>3
    <3> QED BY <2>1, <2>2, <2>3, <3>1
  <2>4. CASE k + 1 \notin DOMAIN c
    <3>1. (k - Len(s)) + 1 \notin DOMAIN t
      BY <1>1, <1>4, <2>4
    <3> QED BY <2>1, <2>2, <2>4, <3>1
  <2> QED BY <2>3, <2>4
<1>5. k + 1 <= Len(s) \/ k = Len(s) \/ k > Len(s)
  BY <1>1
<1> QED BY <1>2, <1>3, <1>4, <1>5

\* Plans of steps that let nothing stray, and of one step more.
LEMMA ClosedCalm ==
  ASSUME NEW S, NEW plan \in Seq(S), \A h \in S : Calm(h)
  PROVE  Closed(plan)
<1>1. \A k \in DOMAIN plan : Calm(plan[k])
  OBVIOUS
<1> QED BY <1>1 DEF Closed, Calm, HandsOn

\* A plan of two steps.
LEMMA ClosedTwo ==
  ASSUME NEW a, NEW b, HandsOn(a, b), Calm(b)
  PROVE  Closed(<<a, b>>)
<1> DEFINE c == <<a, b>>
<1>1. DOMAIN c = 1 .. 2 /\ c[1] = a /\ c[2] = b
  OBVIOUS
<1> HIDE DEF c
<1>2. \A k \in 1 .. 2 : k = 1 \/ k = 2
  OBVIOUS
<1>3. 1 + 1 = 2 /\ 2 + 1 \notin 1 .. 2 /\ 1 + 1 \in 1 .. 2
  OBVIOUS
<1>4. Closed(c)
  BY <1>1, <1>2, <1>3 DEF Closed
<1> QED BY <1>4 DEF c

\* A plan of three steps.
LEMMA ClosedThree ==
  ASSUME NEW a, NEW b, NEW c, HandsOn(a, b), HandsOn(b, c), Calm(c)
  PROVE  Closed(<<a, b, c>>)
<1> DEFINE d == <<a, b, c>>
<1>1. DOMAIN d = 1 .. 3 /\ d[1] = a /\ d[2] = b /\ d[3] = c
  OBVIOUS
<1> HIDE DEF d
<1>2. \A k \in 1 .. 3 : k = 1 \/ k = 2 \/ k = 3
  OBVIOUS
<1>3. 1 + 1 = 2 /\ 2 + 1 = 3 /\ 3 + 1 \notin 1 .. 3 /\ 2 \in 1 .. 3 /\ 3 \in 1 .. 3
  OBVIOUS
<1>4. Closed(d)
  BY <1>1, <1>2, <1>3 DEF Closed
<1> QED BY <1>4 DEF d

-----------------------------------------------------------------------------
(***************************************************************************)
(* Steps that leave no service behind.                                     *)
(***************************************************************************)
\* A service that followed still does.
Still(s) == Current(s) => Current(s)'

\* A step of p that goes on with k leaves no service behind.
Carries(p, k, s) ==
  torn' \/ Current(s)' \/ Awaits(k, s) \/ (~Awaits(job[p], s) /\ Still(s))

\* And one that goes on with its next step.
Passes(h, s) == Strays(h, s) \/ torn' \/ Current(s)' \/ (~Due(h, s) /\ Still(s))

\* A service whose files and state a step leaves alone.
LEMMA StillIf ==
  /\ UNCHANGED <<config, xray>> => Still("xray")
  /\ UNCHANGED <<caddy, sites>> => Still("caddy")
  /\ UNCHANGED <<sshd, ssh, others>> => Still("sshd")
  /\ UNCHANGED units => Still("units")
  BY DEF Still, Current, Readable, Passwords

\* A step of p that goes on with a closed plan, and leaves no service behind, keeps the
\* invariant.
LEMMA Onward ==
  ASSUME VInv, FInv, NEW p \in Procs, NEW k, Then(p, k), torn => torn',
         k.plan # <<>> => k.op # "none" /\ PlanOn(k) /\ (k.locked => k.in /\ lock \in {NoProc, p}),
         \A s \in Services : Carries(p, k, s)
  PROVE  FInv'
<1>1. DOMAIN job = Procs /\ NoProc \notin Procs
  BY ServerAssumption DEF VInv, JobsFine
<1>2. /\ Idle.in = FALSE /\ Idle.locked = FALSE /\ Idle.op = "none" /\ Idle.plan = <<>> /\ Idle.back = <<>>
  BY DEF Idle
<1>3. PlanOn(Idle)
  BY <1>2, ClosedEnd DEF PlanOn, BackOn
<1>4. \A q \in Procs \ {p} : job'[q] = job[q]
  BY <1>1 DEF Then
<1>5. ASSUME NEW q \in Procs \ {p} PROVE Locks(job'[q], q, lock')
  <2>1. Locks(job[q], q, lock)
    BY DEF FInv, JobsOn
  <2>2. lock = q => lock' = q
    BY <1>1 DEF Then
  <2> QED BY <1>4, <2>1, <2>2 DEF Locks
<1>6. CASE k.plan = <<>>
  <2>1. job'[p] = Idle
    BY <1>1, <1>6 DEF Then
  <2>2. Locks(job'[p], p, lock') /\ PlanOn(job'[p])
    BY <1>2, <1>3, <2>1 DEF Locks
  <2>3. JobsOn'
    BY <1>4, <1>5, <2>2 DEF JobsOn, FInv
  <2>4. ASSUME NEW s \in Services PROVE Follows(s)'
    <3>1. ~Awaits(k, s)
      BY <1>6 DEF Awaits
    <3>2. Follows(s)
      BY DEF FInv
    <3>3. CASE torn' \/ Current(s)'
      BY <3>3 DEF Follows
    <3>4. CASE ~Awaits(job[p], s) /\ Still(s)
      <4>1. \A q \in Procs : Awaits(job[q], s) => Awaits(job'[q], s)
        BY <1>4, <3>4
      <4> QED BY <3>2, <3>4, <4>1 DEF Follows, Still
    <3> QED BY <3>1, <3>3, <3>4 DEF Carries
  <2> QED BY <2>3, <2>4 DEF FInv
<1>7. CASE k.plan # <<>>
  <2>1. job'[p] = k /\ (k.locked => k.in /\ lock' = p)
    BY <1>1, <1>7 DEF Then
  <2>2. Locks(job'[p], p, lock') /\ PlanOn(job'[p])
    BY <1>7, <2>1 DEF Locks
  <2>3. JobsOn'
    BY <1>4, <1>5, <2>2 DEF JobsOn, FInv
  <2>4. ASSUME NEW s \in Services PROVE Follows(s)'
    <3>2. Follows(s)
      BY DEF FInv
    <3>3. CASE torn' \/ Current(s)' \/ Awaits(k, s)
      BY <2>1, <3>3 DEF Follows
    <3>4. CASE ~Awaits(job[p], s) /\ Still(s)
      <4>1. \A q \in Procs : Awaits(job[q], s) => Awaits(job'[q], s)
        BY <1>4, <3>4
      <4> QED BY <3>2, <3>4, <4>1 DEF Follows, Still
    <3> QED BY <3>3, <3>4 DEF Carries
  <2> QED BY <2>3, <2>4 DEF FInv
<1> QED BY <1>6, <1>7

\* What holds of the job of a process at a step.
LEMMA AtStep ==
  ASSUME VInv, FInv, NEW p \in Procs, NEW j, j = job[p], NEW h, At(p, h)
  PROVE  /\ JobFine(j) /\ DOMAIN j = Fields /\ j.plan \in Seq(Names) /\ j.back \in Seq(Names)
         /\ j.plan # <<>> /\ Head(j.plan) = h /\ j.op # "none" /\ PlanOn(j)
         /\ j.locked /\ h \notin Entries => j.in /\ lock = p
         /\ \A s : Awaits(j, s) <=> Due(h, s)
<1>1. JobFine(j) /\ DOMAIN j = Fields
  BY InFine DEF VInv
<1>2. j.plan # <<>> /\ Head(j.plan) = h
  BY DEF At
<1>3. Locks(j, p, lock) /\ PlanOn(j)
  BY DEF FInv, JobsOn
<1>4. j.plan \in Seq(Names) /\ j.back \in Seq(Names)
  BY <1>1 DEF JobFine
<1> QED BY <1>1, <1>2, <1>3, <1>4 DEF Locks, Awaits

\* One step further, what a failure leads to starts as it should.
LEMMA BackTail ==
  ASSUME NEW j, JobFine(j), j.plan # <<>>, BackOn(j), NEW k, k.plan = Tail(j.plan), k.back = j.back
  PROVE  BackOn(k)
<1>1. j.plan \in Seq(Names)
  BY DEF JobFine
<1>2. \A steps : Left(k.plan, steps) => Left(j.plan, steps)
  BY <1>1, LeftTail
<1>3. /\ Left(k.plan, PlaceSteps) => Left(j.plan, PlaceSteps)
      /\ Left(k.plan, {"place bin", "place geo", "restart"}) => Left(j.plan, {"place bin", "place geo", "restart"})
      /\ Left(k.plan, SshSteps) => Left(j.plan, SshSteps)
  BY <1>2
<1> QED BY <1>3, Zenon DEF BackOn

\* The next step.
LEMMA NextOnward ==
  ASSUME VInv, FInv, NEW p \in Procs, NEW h, At(p, h), NEW k, Then(p, k), torn => torn',
         k.plan = Tail(job[p].plan), k.back = job[p].back, k.op = job[p].op, k.locked = job[p].locked,
         (h \notin Entries /\ k.in = job[p].in) \/ (k.in = TRUE /\ MayEnter(p)),
         \A s \in Services : Passes(h, s)
  PROVE  FInv'
<1> DEFINE j == job[p]
<1>1. /\ JobFine(j) /\ j.plan \in Seq(Names)
      /\ j.plan # <<>> /\ Head(j.plan) = h /\ j.op # "none" /\ PlanOn(j)
      /\ j.locked /\ h \notin Entries => j.in /\ lock = p
      /\ \A s : Awaits(j, s) <=> Due(h, s)
  BY AtStep
<1>2. k.locked => k.in /\ lock \in {NoProc, p}
  BY <1>1 DEF MayEnter
<1>3. Closed(k.plan) /\ \A s \in Services : Strays(h, s) => Awaits(k, s)
  BY <1>1, ClosedTail DEF Awaits, PlanOn
<1>4. BackOn(k)
  BY <1>1, BackTail DEF PlanOn
<1>5. PlanOn(k)
  BY <1>1, <1>3, <1>4 DEF PlanOn
<1>6. \A s \in Services : Carries(p, k, s)
  BY <1>1, <1>3 DEF Carries, Passes
<1> QED BY <1>1, <1>2, <1>5, <1>6, Onward

\* A step that goes on with the next one.
LEMMA FollowOnward ==
  ASSUME VInv, FInv, NEW p \in Procs, NEW h, At(p, h), Follow(p), torn => torn', h \notin Entries,
         \A s \in Services : Passes(h, s)
  PROVE  FInv'
<1> DEFINE j == job[p]
           k == Next1(j)
<1>1. DOMAIN j = Fields
  BY AtStep
<1>2. k.plan = Tail(j.plan) /\ k.back = j.back /\ k.op = j.op /\ k.locked = j.locked /\ k.in = j.in
  BY <1>1 DEF Next1, Fields
<1>3. Then(p, k)
  BY DEF Follow
<1> HIDE DEF k
<1> QED BY <1>2, <1>3, NextOnward

\* The end of a command, early or not.
Ends(h, s) == torn' \/ Current(s)' \/ (~Due(h, s) /\ Still(s))

\* A step that ends the command.
LEMMA EndOnward ==
  ASSUME VInv, FInv, NEW p \in Procs, NEW h, At(p, h), Then(p, [job[p] EXCEPT !.plan = <<>>]), torn => torn',
         \A s \in Services : Ends(h, s)
  PROVE  FInv'
<1> DEFINE j == job[p]
           k == [j EXCEPT !.plan = <<>>]
<1>1. DOMAIN j = Fields /\ \A s : Awaits(j, s) <=> Due(h, s)
  BY AtStep
<1>2. k.plan = <<>>
  BY <1>1 DEF Fields
<1>3. Then(p, k)
  OBVIOUS
<1> HIDE DEF k
<1>4. \A s \in Services : Carries(p, k, s)
  BY <1>1 DEF Carries, Ends
<1> QED BY <1>2, <1>3, <1>4, Onward

\* Another plan.
LEMMA TurnOnward ==
  ASSUME VInv, FInv, NEW p \in Procs, NEW h, At(p, h), NEW k, Then(p, k), torn => torn',
         k.op # "none", k.locked = job[p].locked,
         (h \notin Entries /\ k.in = job[p].in) \/ (k.in = TRUE /\ MayEnter(p)),
         PlanOn(k), \A s \in Services : Awaits(k, s) \/ Ends(h, s)
  PROVE  FInv'
<1> DEFINE j == job[p]
<1>1. /\ j.locked /\ h \notin Entries => j.in /\ lock = p
      /\ \A s : Awaits(j, s) <=> Due(h, s)
  BY AtStep
<1>2. k.locked => k.in /\ lock \in {NoProc, p}
  BY <1>1 DEF MayEnter
<1>6. \A s \in Services : Carries(p, k, s)
  BY <1>1 DEF Carries, Ends
<1> QED BY <1>2, <1>6, Onward

\* A command that begins.
Opens(k) ==
  /\ k.op # "none" /\ k.in = FALSE /\ PlanOn(k)
  /\ k.locked => k.plan # <<>> /\ Head(k.plan) \in Entries

\* A command that begins changes no service.
LEMMA OpensOnward ==
  ASSUME VInv, FInv, NEW p \in Procs, ~Busy(p), NEW k, Opens(k), job' = [job EXCEPT ![p] = k],
         UNCHANGED <<lock, torn>>, \A s \in Services : Still(s)
  PROVE  FInv'
<1>1. DOMAIN job = Procs
  BY DEF VInv, JobsFine
<1>2. job'[p] = k /\ \A q \in Procs \ {p} : job'[q] = job[q]
  BY <1>1
<1>3. Locks(k, p, lock') /\ PlanOn(k)
  BY DEF Opens, Locks
<1>4. JobsOn'
  BY <1>2, <1>3 DEF FInv, JobsOn
<1>5. \A s : ~Awaits(job[p], s)
  BY DEF FInv, JobsOn, Locks, Busy, Awaits
<1>6. ASSUME NEW s \in Services PROVE Follows(s)'
  <2>1. Follows(s) /\ Still(s)
    BY DEF FInv
  <2>2. \A q \in Procs : Awaits(job[q], s) => Awaits(job'[q], s)
    BY <1>2, <1>5
  <2> QED BY <2>1, <2>2 DEF Follows, Still
<1> QED BY <1>4, <1>6 DEF FInv

\* A process that ends at once: refused, or with everything torn.
LEMMA GoneOnward ==
  ASSUME VInv, FInv, NEW p \in Procs, job' = [job EXCEPT ![p] = Idle],
         lock' = lock \/ (lock' = NoProc /\ lock = p), torn => torn',
         torn' \/ ((\A s \in Services : ~Awaits(job[p], s)) /\ \A s \in Services : Still(s))
  PROVE  FInv'
<1>1. DOMAIN job = Procs /\ NoProc \notin Procs
  BY ServerAssumption DEF VInv, JobsFine
<1>2. /\ Idle.in = FALSE /\ Idle.locked = FALSE /\ Idle.op = "none" /\ Idle.plan = <<>> /\ Idle.back = <<>>
  BY DEF Idle
<1>3. PlanOn(Idle)
  BY <1>2, ClosedEnd DEF PlanOn, BackOn
<1>4. job'[p] = Idle /\ \A q \in Procs \ {p} : job'[q] = job[q]
  BY <1>1
<1>5. ASSUME NEW q \in Procs PROVE Locks(job'[q], q, lock') /\ PlanOn(job'[q])
  <2>1. CASE q = p
    BY <1>2, <1>3, <1>4, <2>1 DEF Locks
  <2>2. CASE q # p
    BY <1>4, <2>2 DEF FInv, JobsOn, Locks
  <2> QED BY <2>1, <2>2
<1>6. ASSUME NEW s \in Services PROVE Follows(s)'
  <2>1. Follows(s)
    BY DEF FInv
  <2>2. CASE torn'
    BY <2>2 DEF Follows
  <2>3. CASE ~Awaits(job[p], s) /\ Still(s)
    <3>1. \A q \in Procs : Awaits(job[q], s) => Awaits(job'[q], s)
      BY <1>4, <2>3
    <3> QED BY <2>1, <2>3, <3>1 DEF Follows, Still
  <2> QED BY <2>2, <2>3
<1> QED BY <1>5, <1>6 DEF FInv, JobsOn

\* Nothing but Xray and config.json is touched.
OnlyXray == UNCHANGED <<caddy, sites, sshd, ssh, others, units>>
\* A step that touches no service and no file a service runs by.
Untouched == UNCHANGED <<config, xray, caddy, sites, sshd, ssh, others, units>>

\* The steps that are on no way.
Aside(h) == \A s \in Services : ~Due(h, s) /\ ~Strays(h, s)

\* The steps no service depends on.
LEMMA AsideIf ==
  ASSUME NEW h, h \in {"load", "rows", "env", "note", "read", "commit", "record", "describe", "absent", "seek", "uncommit", "archive",
                       "read files", "read db", "ready", "fetch", "keep", "set aside", "obtain", "begin copy", "end copy", "choose",
                       "place source", "place wrappers", "rename old", "rename new", "sync", "validate",
                       "accept", "act", "run", "clear", "list", "reply", "texts"}
  PROVE  Aside(h)
  BY DEF Aside, Services, Due, Strays, OnTheWay

\* What is untouched follows as before.
LEMMA UntouchedStill ==
  ASSUME Untouched
  PROVE  \A s \in Services : Still(s)
  BY StillIf DEF Untouched, Services

\* A step of the config leaves every other service alone.
LEMMA OnlyXrayStill ==
  ASSUME OnlyXray
  PROVE  \A s \in Services \ {"xray"} : Still(s)
  BY StillIf DEF OnlyXray, Services

\* A step no service depends on leaves none behind.
LEMMA AsidePasses ==
  ASSUME NEW h, Aside(h), Untouched
  PROVE  \A s \in Services : Passes(h, s) /\ Ends(h, s)
  BY UntouchedStill DEF Aside, Passes, Ends

-----------------------------------------------------------------------------
\* Save leaves no service behind.
LEMMA SaveOn ==
  ASSUME VInv, FInv, NEW p \in Procs, Save(p), OnlyXray
  PROVE  FInv'
<1> DEFINE j == job[p]
           k == [Next1(j) EXCEPT !.was = Backup(p)]
<1>1. At(p, "save") /\ Then(p, k) /\ UNCHANGED torn
  BY DEF Save, fate
<1>2. DOMAIN j = Fields
  BY <1>1, AtStep
<1>3. k.plan = Tail(j.plan) /\ k.back = j.back /\ k.op = j.op /\ k.locked = j.locked /\ k.in = j.in
  BY <1>2 DEF Next1, Fields
<1> HIDE DEF k
<1>4. \A s \in Services : Passes("save", s)
  BY OnlyXrayStill DEF Passes, Strays, Due, OnTheWay, Services
<1> QED BY <1>1, <1>3, <1>4, NextOnward DEF Entries

\* Undoing a config ends with Xray on it.
LEMMA RollsClosed ==
  Closed(<<"undo", "redo">>)
<1>1. HandsOn("undo", "redo") /\ Calm("redo")
  BY DEF HandsOn, Calm, Services, Strays, Due, OnTheWay
<1> QED BY <1>1, ClosedTwo

\* So does the plan of a failed step.
LEMMA RollsOn ==
  ASSUME NEW k, k.plan = Rolls, k.back = Rolls
  PROVE  PlanOn(k) /\ Rolls # <<>> /\ Head(Rolls) = "undo"
<1>1. Closed(Rolls)
  BY RollsClosed DEF Rolls
<1>2. Rolls \in Seq({"undo", "redo"}) /\ Rolls # <<>> /\ Head(Rolls) = "undo"
  BY DEF Rolls
<1>3. /\ {"undo", "redo"} \intersect PlaceSteps = {} /\ {"undo", "redo"} \intersect {"place bin", "place geo", "restart"} = {}
      /\ {"undo", "redo"} \intersect SshSteps = {}
  BY DEF PlaceSteps, SshSteps
<1>4. ~Left(Rolls, PlaceSteps) /\ ~Left(Rolls, {"place bin", "place geo", "restart"}) /\ ~Left(Rolls, SshSteps)
  BY <1>2, <1>3, Away
<1>5. BackOn(k)
  BY <1>4, Zenon DEF BackOn
<1> QED BY <1>1, <1>2, <1>5 DEF PlanOn

\* Try leaves no service behind.
LEMMA TryOn ==
  ASSUME VInv, FInv, NEW p \in Procs, Try(p), OnlyXray
  PROVE  FInv'
<1> DEFINE j == job[p]
           k == [j EXCEPT !.plan = j.back]
<1>1. At(p, "try") /\ UNCHANGED torn
      /\ ((Readable /\ xray' = config /\ UNCHANGED config /\ Follow(p)) \/ Then(p, k))
  BY DEF Try, fate
<1>2. JobFine(j) /\ DOMAIN j = Fields /\ j.plan # <<>> /\ Head(j.plan) = "try" /\ j.op # "none"
  BY <1>1, AtStep
<1>3. j.back = Rolls
  BY <1>2, HeadFine DEF RollsBack
<1>4. k.plan = Rolls /\ k.back = Rolls /\ k.op = j.op /\ k.locked = j.locked /\ k.in = j.in
  BY <1>2, <1>3 DEF Fields
<1> HIDE DEF k
<1>5. PlanOn(k) /\ k.plan # <<>> /\ Head(k.plan) = "undo"
  BY <1>4, RollsOn
<1>6. CASE Readable /\ xray' = config /\ UNCHANGED config /\ Follow(p)
  <2>1. \A s \in Services : Passes("try", s)
    BY <1>6, OnlyXrayStill DEF Passes, Strays, Due, OnTheWay, Services, Current, Readable
  <2> QED BY <1>1, <1>6, <2>1, FollowOnward DEF Entries
<1>7. CASE Then(p, k)
  <2>1. \A s \in Services : Awaits(k, s) \/ Ends("try", s)
    BY <1>5, OnlyXrayStill DEF Awaits, Ends, Due, OnTheWay, Services
  <2> QED BY <1>1, <1>2, <1>4, <1>5, <1>7, <2>1, TurnOnward DEF Entries
<1> QED BY <1>1, <1>6, <1>7

\* Undo leaves no service behind.
LEMMA UndoOn ==
  ASSUME VInv, FInv, NEW p \in Procs, Undo(p), OnlyXray
  PROVE  FInv'
<1>1. At(p, "undo") /\ UNCHANGED torn /\ Follow(p)
  BY DEF Undo, fate
<1>2. \A s \in Services : Passes("undo", s)
  BY OnlyXrayStill DEF Passes, Strays, Due, OnTheWay, Services
<1> QED BY <1>1, <1>2, FollowOnward DEF Entries

\* Redo leaves no service behind.
LEMMA RedoOn ==
  ASSUME VInv, FInv, NEW p \in Procs, Redo(p), OnlyXray
  PROVE  FInv'
<1>1. At(p, "redo") /\ UNCHANGED config
  BY DEF Redo
<1>2. CASE Readable /\ xray' = config /\ Follow(p) /\ torn' = torn
  <2>1. \A s \in Services : Passes("redo", s)
    BY <1>1, <1>2, OnlyXrayStill DEF Passes, Strays, Due, OnTheWay, Services, Current, Readable
  <2> QED BY <1>1, <1>2, <2>1, FollowOnward DEF Entries
<1>3. CASE torn' /\ Then(p, [job[p] EXCEPT !.plan = <<>>])
  BY <1>1, <1>3, EndOnward DEF Ends
<1> QED BY <1>2, <1>3 DEF Redo

\* A config that the trial refuses leaves no service behind.
LEMMA RefusedOn ==
  ASSUME VInv, FInv, NEW p \in Procs, Refused(p), OnlyXray
  PROVE  FInv'
<1>1. job' = [job EXCEPT ![p] = Idle] /\ UNCHANGED <<lock, torn, config, xray>> /\ ~MayEnter(p)
  BY DEF Refused, files, fate
<1>2. job[p].locked /\ lock # p
  BY <1>1 DEF MayEnter
<1>3. job[p].plan # <<>> /\ Head(job[p].plan) \in Entries
  BY <1>2 DEF FInv, JobsOn, Locks
<1>4. \A s \in Services : ~Awaits(job[p], s)
  BY <1>3 DEF Awaits, Entries, Due, OnTheWay, Services
<1>5. \A s \in Services : Still(s)
  BY <1>1, UntouchedStill DEF Untouched, OnlyXray
<1> QED BY <1>1, <1>4, <1>5, GoneOnward

\* A process that is killed leaves torn files, if it leaves anything undone.
LEMMA KillOn ==
  ASSUME VInv, FInv, NEW p \in Procs, Kill(p) \/ CutBack(p)
  PROVE  FInv'
  BY GoneOnward DEF Kill, CutBack, Dies

\* A step of a command of the routes leaves no service behind.
LEMMA StepOn ==
  ASSUME VInv, FInv, NEW p \in Procs, Step(p), OnlyXray
  PROVE  FInv'
  BY SaveOn, TryOn, UndoOn, RedoOn, RefusedOn DEF Step

\* A process that has started its command may go on.
LEMMA MayGoOn ==
  ASSUME VInv, FInv, NEW p \in Procs, NEW h, At(p, h), h \notin Entries
  PROVE  MayEnter(p)
  BY AtStep DEF MayEnter

\* A step aside leaves the services alone, whatever is left to do after it.
LEMMA AsideOnward ==
  ASSUME VInv, FInv, NEW p \in Procs, NEW h, At(p, h), Aside(h), Untouched, torn => torn', NEW k, Then(p, k),
         \/ k.plan = <<>>
         \/ /\ k.op # "none" /\ k.locked = job[p].locked /\ PlanOn(k)
            /\ (h \notin Entries /\ k.in = job[p].in) \/ (k.in = TRUE /\ MayEnter(p))
  PROVE  FInv'
<1>1. \A s \in Services : Ends(h, s)
  BY AsidePasses
<1>2. CASE k.plan = <<>>
  <2>1. \A s : Awaits(job[p], s) <=> Due(h, s)
    BY AtStep
  <2>2. \A s \in Services : Carries(p, k, s)
    BY <1>1, <2>1 DEF Ends, Carries
  <2> QED BY <1>2, <2>2, Onward
<1>3. CASE k.plan # <<>>
  BY <1>1, <1>3, TurnOnward
<1> QED BY <1>2, <1>3

\* A step no service depends on, with the next one to do.
LEMMA AsideNext ==
  ASSUME VInv, FInv, NEW p \in Procs, NEW h, At(p, h), Aside(h), Untouched, torn => torn', NEW k, Then(p, k),
         k.plan = Tail(job[p].plan), k.back = job[p].back, k.op = job[p].op, k.locked = job[p].locked,
         (k.in = job[p].in /\ h \notin Entries) \/ (k.in = TRUE /\ MayEnter(p))
  PROVE  FInv'
<1>1. \A s \in Services : Passes(h, s)
  BY AsidePasses
<1> QED BY <1>1, NextOnward

\* The same, when nothing else of the job changes.
LEMMA AsideFollow ==
  ASSUME VInv, FInv, NEW p \in Procs, NEW h, At(p, h), Aside(h), Untouched, torn => torn', h \notin Entries, Follow(p)
  PROVE  FInv'
<1>1. \A s \in Services : Passes(h, s)
  BY AsidePasses
<1> QED BY <1>1, FollowOnward

\* The same, when the command ends.
LEMMA AsideEnd ==
  ASSUME VInv, FInv, NEW p \in Procs, NEW h, At(p, h), Aside(h), Untouched, torn => torn',
         Then(p, [job[p] EXCEPT !.plan = <<>>])
  PROVE  FInv'
<1>1. \A s \in Services : Ends(h, s)
  BY AsidePasses
<1> QED BY <1>1, EndOnward

\* A plan with no step that a failure takes back.
LEMMA PlainOn ==
  ASSUME NEW k, NEW S, k.plan \in Seq(S), S \intersect (PlaceSteps \union UpdateSteps \union SshSteps) = {},
         Closed(k.plan), Closed(k.back)
  PROVE  PlanOn(k)
<1>1. S \intersect PlaceSteps = {} /\ S \intersect {"place bin", "place geo", "restart"} = {} /\ S \intersect SshSteps = {}
  BY DEF UpdateSteps
<1>2. ~Left(k.plan, PlaceSteps) /\ ~Left(k.plan, {"place bin", "place geo", "restart"}) /\ ~Left(k.plan, SshSteps)
  BY <1>1, Away
<1>3. BackOn(k)
  BY <1>2, Zenon DEF BackOn
<1> QED BY <1>3 DEF PlanOn

-----------------------------------------------------------------------------
\* The steps of the routes.
LEMMA TrialClosed ==
  Closed(Trial)
<1>1. HandsOn("probe", "unprobe") /\ HandsOn("unprobe", "redo") /\ Calm("redo")
  BY DEF HandsOn, Calm, Services, Strays, Due, OnTheWay
<1> QED BY <1>1, ClosedThree DEF Trial

\* A trial that is broken off puts the config back, and Xray on it.
LEMMA UnprobeClosed ==
  Closed(<<"unprobe", "redo">>)
<1>1. HandsOn("unprobe", "redo") /\ Calm("redo")
  BY DEF HandsOn, Calm, Services, Strays, Due, OnTheWay
<1> QED BY <1>1, ClosedTwo

\* What is left after a config is on does not touch it.
LEMMA RowsEnvClosed ==
  Closed(<<"rows", "env">>)
<1>1. Calm("rows") /\ Calm("env")
  BY DEF Calm, Services, Strays, OnTheWay
<1> QED BY <1>1, ClosedTwo DEF HandsOn, Calm

\* Load leaves no service behind.
LEMMA LoadOn ==
  ASSUME VInv, FInv, NEW p \in Procs, Load(p), OnlyXray
  PROVE  FInv'
<1> DEFINE j == job[p]
           g == Outcome(j)
           d == [j EXCEPT !.plan = <<>>]
           w == IF j.op \in KeepsLoaded THEN config ELSE Nothing
           r == [choice |-> g.choice, routes |-> g.routes]
           k == [j EXCEPT !.plan = Remaining(j, g), !.in = TRUE, !.new = g.config, !.was = w, !.rows = r, !.env = g.env]
<1>1. At(p, "load") /\ MayEnter(p) /\ UNCHANGED <<torn, config, xray>> /\ (Then(p, d) \/ Then(p, k))
  BY DEF Load, files
<1>2. DOMAIN j = Fields /\ j.op # "none" /\ PlanOn(j)
  BY <1>1, AtStep
<1>3. k.plan = Remaining(j, g) /\ k.in = TRUE /\ k.op = j.op /\ k.locked = j.locked /\ k.back = j.back
  BY <1>2 DEF Fields
<1>4. Untouched
  BY <1>1 DEF Untouched, OnlyXray
<1>5. Aside("load")
  BY AsideIf
<1>6. CASE Then(p, d)
  <2> HIDE DEF k
  <2> QED BY <1>1, <1>4, <1>5, <1>6, AsideEnd
<1>7. Closed(j.back)
  BY <1>2 DEF PlanOn
<1>8. \/ Remaining(j, g) = Tail(j.plan)
      \/ Remaining(j, g) = Trial
      \/ Remaining(j, g) = <<"rows", "env">>
      \/ Remaining(j, g) = <<>>
  <2> HIDE DEF g, j
  <2> QED BY RemainingIs
<1> HIDE DEF k, d, g
<1>9. CASE Then(p, k) /\ k.plan = Tail(j.plan)
  BY <1>1, <1>3, <1>4, <1>5, <1>9, AsideNext
<1>10. CASE Then(p, k) /\ k.plan = <<>>
  BY <1>1, <1>4, <1>5, <1>10, AsideOnward
<1>11. CASE Then(p, k) /\ k.plan = Trial
  <2>1. Trial \in Seq({"probe", "unprobe", "redo"})
    BY TrialIs
  <2>2. {"probe", "unprobe", "redo"} \intersect (PlaceSteps \union UpdateSteps \union SshSteps) = {}
    BY DEF PlaceSteps, UpdateSteps, SshSteps
  <2>3. PlanOn(k)
    BY <1>3, <1>7, <1>11, <2>1, <2>2, TrialClosed, PlainOn
  <2> QED BY <1>1, <1>2, <1>3, <1>4, <1>5, <1>11, <2>3, AsideOnward
<1>12. CASE Then(p, k) /\ k.plan = <<"rows", "env">>
  <2>1. <<"rows", "env">> \in Seq({"rows", "env"})
    BY SMT
  <2>2. {"rows", "env"} \intersect (PlaceSteps \union UpdateSteps \union SshSteps) = {}
    BY DEF PlaceSteps, UpdateSteps, SshSteps
  <2>3. PlanOn(k)
    BY <1>3, <1>7, <1>12, <2>1, <2>2, RowsEnvClosed, PlainOn
  <2> QED BY <1>1, <1>2, <1>3, <1>4, <1>5, <1>12, <2>3, AsideOnward
<1> QED BY <1>1, <1>3, <1>6, <1>8, <1>9, <1>10, <1>11, <1>12

\* Probe leaves no service behind.
LEMMA ProbeOn ==
  ASSUME VInv, FInv, NEW p \in Procs, Probe(p), OnlyXray
  PROVE  FInv'
<1> DEFINE j == job[p]
           d == [j EXCEPT !.plan = <<>>]
           b == [j EXCEPT !.in = TRUE, !.was = ProbeText(j)]
           t == [b EXCEPT !.plan = Tail(j.plan)]
           u == [b EXCEPT !.plan = Unanswered(j)]
<1>1. At(p, "probe") /\ MayEnter(p) /\ UNCHANGED torn
  BY DEF Probe
<1>2. \/ Then(p, d) /\ UNCHANGED <<config, xray>>
      \/ Then(p, t)
      \/ Then(p, u)
  BY Zenon DEF Probe, files
<1>3. DOMAIN j = Fields /\ j.op # "none" /\ PlanOn(j)
  BY <1>1, AtStep
<1>4. /\ t.plan = Tail(j.plan) /\ t.in = TRUE /\ t.op = j.op /\ t.locked = j.locked /\ t.back = j.back
      /\ u.plan = Unanswered(j) /\ u.in = TRUE /\ u.op = j.op /\ u.locked = j.locked /\ u.back = j.back
  BY <1>3 DEF Fields
<1> HIDE DEF t, u
<1>5. CASE Then(p, d) /\ UNCHANGED <<config, xray>>
  <2>1. Untouched
    BY <1>5 DEF Untouched, OnlyXray
  <2>2. \A s \in Services : Ends("probe", s)
    BY <2>1, UntouchedStill DEF Ends, Due, OnTheWay, Services
  <2> QED BY <1>1, <1>5, <2>2, EndOnward
<1>6. \A s \in Services : Passes("probe", s)
  BY OnlyXrayStill DEF Passes, Strays, Due, OnTheWay, Services
<1>7. CASE Then(p, t)
  BY <1>1, <1>4, <1>6, <1>7, NextOnward
<1>8. CASE Then(p, u) /\ u.plan = Tail(j.plan)
  BY <1>1, <1>4, <1>6, <1>8, NextOnward
<1>9. CASE Then(p, u) /\ u.plan = <<"unprobe", "redo">>
  <2>1. <<"unprobe", "redo">> \in Seq({"unprobe", "redo"}) /\ Head(<<"unprobe", "redo">>) = "unprobe" /\ <<"unprobe", "redo">> # <<>>
    BY SMT
  <2>2. {"unprobe", "redo"} \intersect (PlaceSteps \union UpdateSteps \union SshSteps) = {}
    BY DEF PlaceSteps, UpdateSteps, SshSteps
  <2>3. PlanOn(u)
    BY <1>3, <1>4, <1>9, <2>1, <2>2, UnprobeClosed, PlainOn DEF PlanOn
  <2>4. \A s \in Services : Awaits(u, s) \/ Ends("probe", s)
    BY <1>9, <2>1, OnlyXrayStill DEF Awaits, Ends, Due, OnTheWay, Services
  <2> QED BY <1>1, <1>3, <1>4, <1>9, <2>3, <2>4, TurnOnward
<1>10. u.plan = Tail(j.plan) \/ u.plan = <<"unprobe", "redo">>
  BY <1>4 DEF Unanswered
<1> QED BY <1>2, <1>5, <1>7, <1>8, <1>9, <1>10

\* Unprobe leaves no service behind.
LEMMA UnprobeOn ==
  ASSUME VInv, FInv, NEW p \in Procs, Unprobe(p), OnlyXray
  PROVE  FInv'
<1> DEFINE j == job[p]
           k == [Next1(j) EXCEPT !.was = Nothing]
<1>1. At(p, "unprobe") /\ Then(p, k) /\ UNCHANGED torn
  BY DEF Unprobe, fate
<1>2. DOMAIN j = Fields
  BY <1>1, AtStep
<1>3. k.plan = Tail(j.plan) /\ k.back = j.back /\ k.op = j.op /\ k.locked = j.locked /\ k.in = j.in
  BY <1>2 DEF Next1, Fields
<1> HIDE DEF k
<1>4. \A s \in Services : Passes("unprobe", s)
  BY OnlyXrayStill DEF Passes, Strays, Due, OnTheWay, Services
<1> QED BY <1>1, <1>3, <1>4, NextOnward DEF Entries

\* RowsEnv leaves no service behind.
LEMMA RowsEnvOn ==
  ASSUME VInv, FInv, NEW p \in Procs, Rows(p) \/ Env(p), OnlyXray
  PROVE  FInv'
<1>1. PICK h \in {"rows", "env"} : At(p, h)
  BY DEF Rows, Env
<1>2. Follow(p) \/ Then(p, [job[p] EXCEPT !.plan = <<>>])
  BY DEF Rows, Env, Follow
<1>3. (torn => torn') /\ UNCHANGED <<config, xray>>
  BY DEF Rows, Env, files
<1>4. Untouched /\ Aside(h) /\ h \notin Entries
  BY <1>3, AsideIf DEF Untouched, OnlyXray, Entries
<1> QED BY <1>1, <1>2, <1>3, <1>4, AsideFollow, AsideEnd

\* NoteRead leaves no service behind.
LEMMA NoteReadOn ==
  ASSUME VInv, FInv, NEW p \in Procs, Note(p) \/ Read(p), OnlyXray
  PROVE  FInv'
<1> DEFINE j == job[p]
<1>1. PICK h \in {"note", "read"} : At(p, h)
  BY DEF Note, Read
<1>2. UNCHANGED <<config, xray, torn>>
  BY DEF Note, Read, files, fate
<1>3. Untouched /\ Aside(h) /\ h \notin Entries
  BY <1>2, AsideIf DEF Untouched, OnlyXray, Entries
<1>4. DOMAIN j = Fields /\ MayEnter(p)
  BY <1>1, <1>3, AtStep, MayGoOn
<1>5. PICK r : Then(p, [Next1(j) EXCEPT !.in = TRUE]) \/ Then(p, [Next1(j) EXCEPT !.rows = r])
  BY DEF Note, Read
<1> DEFINE k == [Next1(j) EXCEPT !.in = TRUE]
           l == [Next1(j) EXCEPT !.rows = r]
<1>6. /\ k.plan = Tail(j.plan) /\ k.back = j.back /\ k.op = j.op /\ k.locked = j.locked /\ k.in = TRUE
      /\ l.plan = Tail(j.plan) /\ l.back = j.back /\ l.op = j.op /\ l.locked = j.locked /\ l.in = j.in
  BY <1>4 DEF Next1, Fields
<1>7. Then(p, k) \/ Then(p, l)
  BY <1>5
<1> HIDE DEF k, l
<1> QED BY <1>1, <1>2, <1>3, <1>4, <1>6, <1>7, AsideNext

\* A plan of one step.
LEMMA ClosedOne ==
  ASSUME NEW a, Calm(a)
  PROVE  Closed(<<a>>)
<1> DEFINE c == <<a>>
<1>1. DOMAIN c = 1 .. 1 /\ c[1] = a
  OBVIOUS
<1> HIDE DEF c
<1>2. 1 + 1 \notin 1 .. 1 /\ \A k \in 1 .. 1 : k = 1
  OBVIOUS
<1>3. Closed(c)
  BY <1>1, <1>2 DEF Closed
<1> QED BY <1>3 DEF c

\* A plan of four steps.
LEMMA ClosedFour ==
  ASSUME NEW a, NEW b, NEW c, NEW d, HandsOn(a, b), HandsOn(b, c), HandsOn(c, d), Calm(d)
  PROVE  Closed(<<a, b, c, d>>)
<1> DEFINE e == <<a, b, c, d>>
<1>1. DOMAIN e = 1 .. 4 /\ e[1] = a /\ e[2] = b /\ e[3] = c /\ e[4] = d
  OBVIOUS
<1> HIDE DEF e
<1>2. \A k \in 1 .. 4 : k = 1 \/ k = 2 \/ k = 3 \/ k = 4
  OBVIOUS
<1>3. 1 + 1 = 2 /\ 2 + 1 = 3 /\ 3 + 1 = 4 /\ 4 + 1 \notin 1 .. 4 /\ 2 \in 1 .. 4 /\ 3 \in 1 .. 4 /\ 4 \in 1 .. 4
  OBVIOUS
<1>4. Closed(e)
  BY <1>1, <1>2, <1>3 DEF Closed
<1> QED BY <1>4 DEF e

\* A plan of five steps.
LEMMA ClosedFive ==
  ASSUME NEW a, NEW b, NEW c, NEW d, NEW e, HandsOn(a, b), HandsOn(b, c), HandsOn(c, d), HandsOn(d, e), Calm(e)
  PROVE  Closed(<<a, b, c, d, e>>)
<1> DEFINE f == <<a, b, c, d, e>>
<1>1. DOMAIN f = 1 .. 5 /\ f[1] = a /\ f[2] = b /\ f[3] = c /\ f[4] = d /\ f[5] = e
  OBVIOUS
<1> HIDE DEF f
<1>2. \A k \in 1 .. 5 : k = 1 \/ k = 2 \/ k = 3 \/ k = 4 \/ k = 5
  OBVIOUS
<1>3. /\ 1 + 1 = 2 /\ 2 + 1 = 3 /\ 3 + 1 = 4 /\ 4 + 1 = 5 /\ 5 + 1 \notin 1 .. 5
      /\ 2 \in 1 .. 5 /\ 3 \in 1 .. 5 /\ 4 \in 1 .. 5 /\ 5 \in 1 .. 5
  OBVIOUS
<1>4. Closed(f)
  BY <1>1, <1>2, <1>3 DEF Closed
<1> QED BY <1>4 DEF f

\* Nothing but Caddy and its sites is touched.
OnlyCaddy == UNCHANGED <<config, xray, sshd, ssh, others, units>>

\* A step of the sites leaves every other service alone.
LEMMA OnlyCaddyStill ==
  ASSUME OnlyCaddy
  PROVE  \A s \in Services \ {"caddy"} : Still(s)
  BY StillIf DEF OnlyCaddy, Services

\* A step of the connections that leaves the sites alone.
LEMMA AndCaddy ==
  ASSUME OnlyCaddy, UNCHANGED <<caddy, sites>>
  PROVE  Untouched
  BY DEF OnlyCaddy, Untouched

-----------------------------------------------------------------------------
\* What is left of a connection after its load.
LEMMA StoredClosed ==
  Closed(Tail(Stored))
<1>1. Tail(Stored) = <<"save", "try", "commit">>
  BY DEF Stored
<1>2. HandsOn("save", "try") /\ HandsOn("try", "commit") /\ Calm("commit")
  BY DEF HandsOn, Calm, Services, Strays, Due, OnTheWay
<1> QED BY <1>1, <1>2, ClosedThree

\* LoadConnection leaves no service behind.
LEMMA LoadConnectionOn ==
  ASSUME VInv, FInv, NEW p \in Procs, LoadConnection(p), OnlyCaddy
  PROVE  FInv'
<1> DEFINE j == job[p]
           g == Result(j)
           d == [j EXCEPT !.plan = <<>>]
           new == IF j.op = "menu reality" THEN g.config ELSE Settled(g.config)
           rows == [records |-> g.records, old |-> records,
                    choice |-> IF j.op = "menu reality" THEN choice ELSE Defaults(g.config, choice)]
           e == [env EXCEPT !.described = g.described]
           k(plan) == [j EXCEPT !.plan = plan, !.in = TRUE, !.new = new, !.rows = rows, !.env = e]
<1>1. At(p, "load") /\ MayEnter(p) /\ UNCHANGED <<torn, caddy, sites>>
      /\ (Then(p, d) \/ \E plan \in {Tail(Stored), Tail(j.plan)} : Then(p, k(plan)))
  BY DEF LoadConnection, connectionVars
<1>2. DOMAIN j = Fields /\ j.op # "none" /\ PlanOn(j)
  BY <1>1, AtStep
<1>3. \A plan : /\ k(plan).plan = plan /\ k(plan).in = TRUE /\ k(plan).op = j.op /\ k(plan).locked = j.locked
                /\ k(plan).back = j.back
  <2> HIDE DEF j, g, new, rows, e
  <2> QED BY <1>2 DEF Fields
<1>4. Untouched
  BY <1>1, AndCaddy
<1>5. Aside("load")
  BY AsideIf
<1>6. CASE Then(p, d)
  <2> HIDE DEF k
  <2> QED BY <1>1, <1>4, <1>5, <1>6, AsideEnd
<1> HIDE DEF k, d, g, new, rows, e
<1>7. CASE Then(p, k(Tail(j.plan)))
  <2>1. /\ k(Tail(j.plan)).plan = Tail(j.plan) /\ k(Tail(j.plan)).in = TRUE /\ k(Tail(j.plan)).op = j.op
        /\ k(Tail(j.plan)).locked = j.locked /\ k(Tail(j.plan)).back = j.back
    BY <1>3
  <2> QED BY <1>1, <1>4, <1>5, <1>7, <2>1, AsideNext
<1>8. CASE Then(p, k(Tail(Stored)))
  <2> DEFINE f == k(Tail(Stored))
  <2>1. f.plan = Tail(Stored) /\ f.in = TRUE /\ f.op = j.op /\ f.locked = j.locked /\ f.back = j.back
    BY <1>3
  <2> HIDE DEF f
  <2>2. Tail(Stored) \in Seq({"save", "try", "commit"})
    BY TailStored
  <2>3. {"save", "try", "commit"} \intersect (PlaceSteps \union UpdateSteps \union SshSteps) = {}
    BY DEF PlaceSteps, UpdateSteps, SshSteps
  <2>4. Closed(j.back)
    BY <1>2 DEF PlanOn
  <2>5. PlanOn(f)
    BY <2>1, <2>2, <2>3, <2>4, StoredClosed, PlainOn
  <2>6. Then(p, f)
    BY <1>8 DEF f
  <2> QED BY <1>1, <1>2, <1>4, <1>5, <2>1, <2>5, <2>6, AsideOnward
<1> QED BY <1>1, <1>6, <1>7, <1>8

\* Commit leaves no service behind.
LEMMA CommitOn ==
  ASSUME VInv, FInv, NEW p \in Procs, Commit(p), OnlyCaddy
  PROVE  FInv'
<1> DEFINE j == job[p]
           k == [j EXCEPT !.plan = j.back]
<1>1. At(p, "commit") /\ UNCHANGED <<torn, caddy, sites>> /\ (Follow(p) \/ Then(p, k))
  BY DEF Commit, fate
<1>2. JobFine(j) /\ DOMAIN j = Fields /\ j.plan # <<>> /\ Head(j.plan) = "commit" /\ j.op # "none"
  BY <1>1, AtStep
<1>3. j.back = Rolls
  BY <1>2, HeadFine DEF RollsBack
<1>4. k.plan = Rolls /\ k.back = Rolls /\ k.op = j.op /\ k.locked = j.locked /\ k.in = j.in
  BY <1>2, <1>3 DEF Fields
<1> HIDE DEF k
<1>5. PlanOn(k)
  BY <1>4, RollsOn
<1>6. Untouched /\ Aside("commit") /\ "commit" \notin Entries
  BY <1>1, AndCaddy, AsideIf DEF Entries
<1>7. CASE Follow(p)
  BY <1>1, <1>6, <1>7, AsideFollow
<1>8. CASE Then(p, k)
  BY <1>1, <1>2, <1>4, <1>5, <1>6, <1>8, AsideOnward
<1> QED BY <1>1, <1>7, <1>8

\* The steps on the stores.
LEMMA StoresOn ==
  ASSUME VInv, FInv, NEW p \in Procs, NoteRecord(p) \/ Describe(p) \/ Absent(p) \/ Uncommit(p) \/ Archive(p), OnlyCaddy
  PROVE  FInv'
<1>1. PICK h \in {"record", "describe", "absent", "uncommit", "archive"} : At(p, h)
  BY DEF NoteRecord, Describe, Absent, Uncommit, Archive
<1>2. /\ torn => torn'
      /\ UNCHANGED <<caddy, sites>>
      /\ Follow(p) \/ Then(p, [job[p] EXCEPT !.plan = <<>>])
  BY DEF NoteRecord, Describe, Absent, Uncommit, Archive, fate, connectionVars
<1>3. Untouched /\ Aside(h) /\ h \notin Entries
  BY <1>2, AndCaddy, AsideIf DEF Entries
<1> QED BY <1>1, <1>2, <1>3, AsideFollow, AsideEnd

\* The steps that follow when Caddy refuses.
LEMMA CaddySteps ==
  /\ HandsOn("take back", "reload") /\ HandsOn("reload", "undo") /\ HandsOn("undo", "redo") /\ HandsOn("redo", "uncommit")
  /\ HandsOn("reload", "reply") /\ Calm("reload") /\ Calm("uncommit") /\ Calm("reply")
  BY DEF HandsOn, Calm, Services, Strays, Due, OnTheWay

-----------------------------------------------------------------------------
\* The steps on the sites.
LEMMA SeekOn ==
  ASSUME VInv, FInv, NEW p \in Procs, Seek(p), OnlyCaddy
  PROVE  FInv'
<1> DEFINE j == job[p]
           k == [Next1(j) EXCEPT !.in = TRUE, !.kept = sites[j.arg.at]]
<1>1. At(p, "seek") /\ UNCHANGED <<torn, caddy, sites>> /\ (Then(p, [j EXCEPT !.plan = <<>>]) \/ Then(p, k))
  BY DEF Seek, connectionVars
<1>2. Untouched /\ Aside("seek") /\ "seek" \notin Entries
  BY <1>1, AndCaddy, AsideIf DEF Entries
<1>3. DOMAIN j = Fields /\ MayEnter(p)
  BY <1>1, <1>2, AtStep, MayGoOn
<1>4. k.plan = Tail(j.plan) /\ k.back = j.back /\ k.op = j.op /\ k.locked = j.locked /\ k.in = TRUE
  BY <1>3 DEF Next1, Fields
<1> HIDE DEF k
<1> QED BY <1>1, <1>2, <1>3, <1>4, AsideEnd, AsideNext

\* Put leaves no service behind.
LEMMA PutOn ==
  ASSUME VInv, FInv, NEW p \in Procs, Put(p) \/ Extract(p), OnlyCaddy
  PROVE  FInv'
<1> DEFINE j == job[p]
           k == [Next1(j) EXCEPT !.in = TRUE, !.kept = sites]
           d == [j EXCEPT !.plan = <<>>]
           r == [j EXCEPT !.plan = <<"reply">>]
<1>1. PICK h \in {"put", "extract"} : At(p, h)
  BY DEF Put, Extract
<1>2. UNCHANGED torn /\ (Then(p, k) \/ ((Then(p, d) \/ Then(p, r)) /\ UNCHANGED <<caddy, sites>>))
  BY DEF Put, Extract
<1>3. DOMAIN j = Fields /\ MayEnter(p) /\ h \notin Entries /\ j.op # "none" /\ PlanOn(j)
  BY <1>1, AtStep, MayGoOn DEF Entries
<1>4. k.plan = Tail(j.plan) /\ k.back = j.back /\ k.op = j.op /\ k.locked = j.locked /\ k.in = TRUE
  BY <1>3 DEF Next1, Fields
<1>5. r.plan = <<"reply">> /\ r.back = j.back /\ r.op = j.op /\ r.locked = j.locked /\ r.in = j.in
  BY <1>3 DEF Fields
<1> HIDE DEF k, r
<1>6. CASE Then(p, k)
  <2>1. \A s \in Services : Passes(h, s)
    BY OnlyCaddyStill DEF Passes, Strays, Due, OnTheWay, Services
  <2> QED BY <1>1, <1>2, <1>3, <1>4, <1>6, <2>1, NextOnward
<1>7. ASSUME UNCHANGED <<caddy, sites>> PROVE \A s \in Services : Ends(h, s)
  <2>1. \A s \in Services : Still(s)
    BY <1>7, AndCaddy, UntouchedStill
  <2> QED BY <2>1 DEF Ends, Due, OnTheWay, Services
<1>8. CASE Then(p, d) /\ UNCHANGED <<caddy, sites>>
  BY <1>1, <1>2, <1>7, <1>8, EndOnward
<1>9. CASE Then(p, r) /\ UNCHANGED <<caddy, sites>>
  <2>1. <<"reply">> \in Seq({"reply"})
    BY SMT
  <2>2. {"reply"} \intersect (PlaceSteps \union UpdateSteps \union SshSteps) = {}
    BY DEF PlaceSteps, UpdateSteps, SshSteps
  <2>4. Closed(<<"reply">>)
    BY CaddySteps, ClosedOne, Zenon
  <2>5. PlanOn(r)
    BY <1>3, <1>5, <2>1, <2>2, <2>4, PlainOn DEF PlanOn
  <2> QED BY <1>1, <1>2, <1>3, <1>5, <1>7, <1>9, <2>5, TurnOnward
<1> QED BY <1>2, <1>6, <1>8, <1>9

\* The plans of a refused site put it back, and Caddy on what was.
LEMMA RefusalsClosed ==
  /\ Closed(<<"take back", "reload">>)
  /\ Closed(<<"take back", "reload", "reply">>)
  /\ Closed(<<"take back", "reload", "undo", "redo", "uncommit">>)
<1>1. Closed(<<"take back", "reload">>)
  BY CaddySteps, ClosedTwo, Zenon
<1>2. Closed(<<"take back", "reload", "reply">>)
  BY CaddySteps, ClosedThree, Zenon
<1>3. Closed(<<"take back", "reload", "undo", "redo", "uncommit">>)
  BY CaddySteps, ClosedFive, Zenon
<1> QED BY <1>1, <1>2, <1>3, Zenon

\* How a plan of two begins.
LEMMA HeadOfTwo ==
         \A x, a, b : x = <<a, b>> => Head(x) = a /\ x # <<>>
  OBVIOUS

\* How a plan of three begins.
LEMMA HeadOfThree ==
         \A x, a, b, c : x = <<a, b, c>> => Head(x) = a /\ x # <<>>
  OBVIOUS

\* How a plan of four begins.
LEMMA HeadOfFour ==
         \A x, a, b, c, d : x = <<a, b, c, d>> => Head(x) = a /\ x # <<>>
  OBVIOUS

\* How a plan of five begins.
LEMMA HeadOfFive ==
         \A x, a, b, c, d, e : x = <<a, b, c, d, e>> => Head(x) = a /\ x # <<>>
  OBVIOUS

\* A refused site starts with the site put back.
LEMMA RefusalOn ==
  ASSUME NEW j, Closed(j.back), j.op # "connection add", NEW k, k.plan = Refusal(j), k.back = j.back
  PROVE  PlanOn(k) /\ k.plan # <<>> /\ Head(k.plan) = "take back"
<1> DEFINE S == {"take back", "reload", "reply", "undo", "redo", "uncommit"}
<1>1. \/ Refusal(j) = <<"take back", "reload">>
      \/ Refusal(j) = <<"take back", "reload", "reply">>
      \/ Refusal(j) = <<"take back", "reload", "undo", "redo", "uncommit">>
  BY Zenon DEF Refusal
<1>2. Seq({"take back", "reload", "reply"}) \subseteq Seq(S) /\ Seq({"undo", "redo", "take back", "reload", "uncommit"}) \subseteq Seq(S)
  <2>1. {"take back", "reload", "reply"} \subseteq S /\ {"undo", "redo", "take back", "reload", "uncommit"} \subseteq S
    OBVIOUS
  <2> HIDE DEF S
  <2> QED BY <2>1, SeqWider
<1>3. S \intersect (PlaceSteps \union UpdateSteps \union SshSteps) = {}
  BY DEF PlaceSteps, UpdateSteps, SshSteps
<1> HIDE DEF S
<1>4. Refusal(j) \in Seq(S)
  BY <1>1, <1>2, PutBackPlans, TrojanBack, Zenon
<1>5. Closed(Refusal(j))
  BY <1>1, RefusalsClosed, Zenon
<1>6. Refusal(j) # <<>> /\ Head(Refusal(j)) = "take back"
  <2>1. CASE Refusal(j) = <<"take back", "reload">>
    BY <2>1, HeadOfTwo, Zenon
  <2>2. CASE Refusal(j) = <<"take back", "reload", "reply">>
    BY <2>2, HeadOfThree, Zenon
  <2>3. CASE Refusal(j) = <<"take back", "reload", "undo", "redo", "uncommit">>
    BY <2>3, HeadOfFive, Zenon
  <2> HIDE DEF S
  <2> QED BY <1>1, <2>1, <2>2, <2>3, Zenon
<1>7. PlanOn(k)
  BY <1>3, <1>4, <1>5, PlainOn
<1> QED BY <1>6, <1>7

\* Serve leaves no service behind.
LEMMA ServeOn ==
  ASSUME VInv, FInv, NEW p \in Procs, Serve(p), OnlyCaddy
  PROVE  FInv'
<1> DEFINE j == job[p]
           k == [j EXCEPT !.plan = Refusal(j)]
<1>1. /\ At(p, "serve")
      /\ \/ caddy' = sites /\ UNCHANGED sites /\ Follow(p)
         \/ Then(p, k) /\ (j.op = "connection add" => torn')
  BY Zenon DEF Serve
<1>7. torn => torn'
  BY Zenon DEF Serve
<1>2. DOMAIN j = Fields /\ j.op # "none" /\ PlanOn(j)
  BY <1>1, AtStep
<1>3. k.plan = Refusal(j) /\ k.back = j.back /\ k.op = j.op /\ k.locked = j.locked /\ k.in = j.in
  BY <1>2 DEF Fields
<1> HIDE DEF k
<1>4. CASE caddy' = sites /\ UNCHANGED sites /\ Follow(p)
  <2>1. Current("caddy")'
    BY <1>4 DEF Current
  <2>2. \A s \in Services : Passes("serve", s)
    BY <2>1, OnlyCaddyStill DEF Passes, Strays, Due, OnTheWay, Services
  <2> QED BY <1>1, <1>4, <1>7, <2>2, FollowOnward DEF Entries
<1>5. CASE Then(p, k) /\ torn' /\ j.op = "connection add"
  <2>1. k.plan = <<>>
    BY <1>3, <1>5, Zenon DEF Refusal
  <2>2. \A s \in Services : Carries(p, k, s)
    BY <1>5 DEF Carries
  <2> QED BY <1>5, <2>1, <2>2, Onward
<1>6. CASE Then(p, k) /\ j.op # "connection add"
  <2>1. PlanOn(k) /\ k.plan # <<>> /\ Head(k.plan) = "take back"
    BY <1>2, <1>3, <1>6, RefusalOn DEF PlanOn
  <2>2. \A s \in Services : Awaits(k, s) \/ Ends("serve", s)
    BY <2>1, OnlyCaddyStill DEF Awaits, Ends, Due, OnTheWay, Services
  <2> QED BY <1>1, <1>2, <1>3, <1>6, <1>7, <2>1, <2>2, TurnOnward DEF Entries
<1> QED BY <1>1, <1>4, <1>5, <1>6

\* TakeBack leaves no service behind.
LEMMA TakeBackOn ==
  ASSUME VInv, FInv, NEW p \in Procs, TakeBack(p), OnlyCaddy
  PROVE  FInv'
<1>1. At(p, "take back") /\ Follow(p) /\ UNCHANGED torn
  BY DEF TakeBack, fate
<1>2. \A s \in Services : Passes("take back", s)
  BY OnlyCaddyStill DEF Passes, Strays, Due, OnTheWay, Services
<1> QED BY <1>1, <1>2, FollowOnward DEF Entries

\* Reload leaves no service behind.
LEMMA ReloadOn ==
  ASSUME VInv, FInv, NEW p \in Procs, Reload(p), OnlyCaddy
  PROVE  FInv'
<1>1. At(p, "reload") /\ Follow(p) /\ (torn => torn') /\ (torn' \/ (caddy' = sites /\ UNCHANGED sites))
  BY DEF Reload
<1>2. torn' \/ Current("caddy")'
  BY <1>1 DEF Current
<1>3. \A s \in Services : Passes("reload", s)
  BY <1>2, OnlyCaddyStill DEF Passes, Strays, Due, OnTheWay, Services
<1> QED BY <1>1, <1>3, FollowOnward DEF Entries

\* ConnectionStep leaves no service behind.
LEMMA ConnectionStepOn ==
  ASSUME VInv, FInv, NEW p \in Procs, ConnectionsProgress(p), UNCHANGED <<sshd, ssh, others, units>>
  PROVE  FInv'
<1>1. OnlyCaddy
  BY DEF OnlyCaddy, ConnectionsProgress, LoadConnection, Commit, NoteRecord, Describe, Absent, Seek, Put, Extract, Serve,
     TakeBack, Reload, Uncommit, Archive, files
<1> QED BY <1>1, LoadConnectionOn, CommitOn, StoresOn, SeekOn, PutOn, ServeOn, TakeBackOn, ReloadOn DEF ConnectionsProgress

\* What a failed step leads to starts on the way of what the step left behind.
LEMMA BackHead ==
  ASSUME NEW j, JobFine(j), j.plan # <<>>, PlanOn(j), j.back # <<>>, NEW h, h = Head(j.plan)
  PROVE  /\ h \in PlaceSteps => Head(j.back) = "place config"
         /\ h \in {"place bin", "place geo", "restart"} => Head(j.back) \in {"place bin", "place geo"}
         /\ h \in SshSteps => Head(j.back) = "back include"
<1>1. j.plan \in Seq(Names)
  BY DEF JobFine
<1>2. \A steps : h \in steps => Left(j.plan, steps)
  BY <1>1, LeftTail
<1>3. /\ Left(j.plan, PlaceSteps) => Head(j.back) = "place config"
      /\ Left(j.plan, {"place bin", "place geo", "restart"}) => Head(j.back) \in {"place bin", "place geo"}
      /\ Left(j.plan, SshSteps) => Head(j.back) = "back include"
  BY Zenon DEF PlanOn, BackOn
<1> QED BY <1>2, <1>3

\* The plans that start the writers again.
LEMMA ResumesOn ==
  ASSUME NEW k, k.plan = <<"resume">> \/ k.plan = <<"start", "resume">>, k.back = <<>>
  PROVE  PlanOn(k)
<1>1. Calm("resume") /\ HandsOn("start", "resume")
  BY DEF Calm, HandsOn, Services, Strays, Due, OnTheWay
<1>2. Closed(<<"resume">>) /\ Closed(<<"start", "resume">>)
  BY <1>1, ClosedOne, ClosedTwo
<1> QED BY <1>2, ClosedEnd DEF PlanOn, BackOn

\* A failed step of the upkeep leaves every service to what comes next, or the files torn.
LEMMA FallbackOn ==
  ASSUME VInv, FInv, NEW p \in Procs, NEW h, At(p, h), h \notin Entries, FallsBack(p),
         \A s \in Services : Ends(h, s) \/ (job[p].back # <<>> => Due(Head(job[p].back), s))
  PROVE  FInv'
<1> DEFINE j == job[p]
           k == [j EXCEPT !.back = <<>>, !.plan =
                   IF j.back # <<>> THEN j.back ELSE IF "resume" \in ToSet(@) THEN <<"resume">> ELSE <<>>]
<1>1. Then(p, k) /\ (torn => torn') /\ (j.back = <<>> => torn')
  BY DEF FallsBack
<1>2. DOMAIN j = Fields /\ j.op # "none" /\ PlanOn(j)
  BY AtStep
<1>3. /\ k.back = <<>> /\ k.op = j.op /\ k.locked = j.locked /\ k.in = j.in
      /\ j.back # <<>> => k.plan = j.back
      /\ j.back = <<>> => k.plan = <<"resume">> \/ k.plan = <<>>
  BY <1>2 DEF Fields
<1> HIDE DEF k
<1>4. CASE j.back # <<>>
  <2>1. PlanOn(k)
    BY <1>2, <1>3, <1>4, ClosedEnd DEF PlanOn, BackOn
  <2>2. \A s \in Services : Awaits(k, s) \/ Ends(h, s)
    BY <1>3, <1>4 DEF Awaits
  <2> QED BY <1>1, <1>2, <1>3, <2>1, <2>2, TurnOnward
<1>5. CASE j.back = <<>> /\ k.plan = <<"resume">>
  <2>1. PlanOn(k)
    BY <1>3, <1>5, ResumesOn
  <2>2. \A s \in Services : Awaits(k, s) \/ Ends(h, s)
    BY <1>1, <1>5 DEF Ends
  <2> QED BY <1>1, <1>2, <1>3, <2>1, <2>2, TurnOnward
<1>6. CASE j.back = <<>> /\ k.plan = <<>>
  <2>1. \A s \in Services : Carries(p, k, s)
    BY <1>1, <1>6 DEF Carries
  <2> QED BY <1>1, <1>6, <2>1, Onward
<1> QED BY <1>3, <1>4, <1>5, <1>6

\* The SSH login is left alone.
NotSsh == UNCHANGED <<sshd, ssh, others>>

\* What a step of the upkeep leaves alone.
LEMMA StillBut ==
  /\ NotSsh => Still("sshd")
  /\ UNCHANGED <<caddy, sites>> => Still("caddy")
  /\ UNCHANGED <<config, xray>> => Still("xray")
  /\ UNCHANGED units => Still("units")
  BY StillIf DEF NotSsh

\* A step of the upkeep that touches no file a service runs by.
LEMMA UntouchedIf ==
  ASSUME NotSsh, UNCHANGED <<config, xray, caddy, sites, units>>
  PROVE  Untouched
  BY DEF NotSsh, Untouched

-----------------------------------------------------------------------------
\* The backup and the restore.
LEMMA ReadsOn ==
  ASSUME VInv, FInv, NEW p \in Procs, ReadFiles(p) \/ ReadDb(p), NotSsh
  PROVE  FInv'
<1> DEFINE j == job[p]
           k == [Next1(j) EXCEPT !.in = TRUE, !.kept = Snapshot]
<1>1. PICK h \in {"read files", "read db"} : At(p, h)
  BY DEF ReadFiles, ReadDb
<1>2. UNCHANGED <<torn, config, xray, caddy, sites, units>> /\ (Follow(p) \/ Then(p, k))
  BY DEF ReadFiles, ReadDb, fate, files, connectionVars, upkeepVars
<1>3. Untouched /\ Aside(h) /\ h \notin Entries
  BY <1>2, UntouchedIf, AsideIf DEF Entries
<1>4. DOMAIN j = Fields /\ MayEnter(p)
  BY <1>1, <1>3, AtStep, MayGoOn
<1>5. k.plan = Tail(j.plan) /\ k.back = j.back /\ k.op = j.op /\ k.locked = j.locked /\ k.in = TRUE
  BY <1>4 DEF Next1, Fields
<1> HIDE DEF k
<1> QED BY <1>1, <1>2, <1>3, <1>4, <1>5, AsideFollow, AsideNext

\* A restore that finds no archive starts the writers again.
LEMMA BackOutOn ==
  ASSUME VInv, FInv, NEW p \in Procs, NEW h, At(p, h), MayEnter(p), BackOut(p), UNCHANGED torn,
         \A s \in {"caddy", "sshd"} : Ends(h, s)
  PROVE  FInv'
<1> DEFINE j == job[p]
           k == [j EXCEPT !.plan = <<"start", "resume">>, !.back = <<>>, !.in = TRUE, !.kept = Snapshot]
<1>1. Then(p, k)
  BY DEF BackOut
<1>2. DOMAIN j = Fields /\ j.op # "none"
  BY AtStep
<1>3. k.plan = <<"start", "resume">> /\ k.back = <<>> /\ k.op = j.op /\ k.locked = j.locked /\ k.in = TRUE
  BY <1>2 DEF Fields
<1> HIDE DEF k
<1>4. PlanOn(k) /\ k.plan # <<>> /\ Head(k.plan) = "start"
  <2>1. PlanOn(k)
    BY <1>3, ResumesOn
  <2>2. k.plan # <<>> /\ Head(k.plan) = "start"
    BY <1>3
  <2> QED BY <2>1, <2>2
<1>5. \A s \in Services : Awaits(k, s) \/ Ends(h, s)
  BY <1>4 DEF Awaits, Due, OnTheWay, Services
<1> QED BY <1>1, <1>2, <1>3, <1>4, <1>5, TurnOnward

\* Halt leaves no service behind.
LEMMA HaltOn ==
  ASSUME VInv, FInv, NEW p \in Procs, Halt(p), NotSsh
  PROVE  FInv'
<1> DEFINE j == job[p]
           k == [Next1(j) EXCEPT !.in = TRUE]
<1>1. At(p, "halt") /\ MayEnter(p) /\ UNCHANGED <<caddy, sites>>
      /\ \/ job' = [job EXCEPT ![Timer] = Idle] /\ torn' = TRUE /\ UNCHANGED lock
         \/ torn' = torn /\ (Then(p, k) \/ BackOut(p))
  BY DEF Halt, connectionVars
<1>2. Still("caddy") /\ Still("sshd")
  BY <1>1, StillBut
<1>3. CASE job' = [job EXCEPT ![Timer] = Idle] /\ torn' = TRUE /\ UNCHANGED lock
  <2>1. Timer \in Procs
    BY RoutingAssumption
  <2>2. torn' /\ (lock' = lock \/ (lock' = NoProc /\ lock = Timer))
    BY <1>3
  <2> QED BY <1>3, <2>1, <2>2, GoneOnward
<1>4. CASE torn' = torn /\ Then(p, k)
  <2>1. DOMAIN j = Fields
    BY <1>1, AtStep
  <2>2. k.plan = Tail(j.plan) /\ k.back = j.back /\ k.op = j.op /\ k.locked = j.locked /\ k.in = TRUE
    BY <2>1 DEF Next1, Fields
  <2> HIDE DEF k
  <2>3. \A s \in Services : Passes("halt", s)
    BY <1>2 DEF Passes, Strays, Due, OnTheWay, Services
  <2> QED BY <1>1, <1>4, <2>2, <2>3, NextOnward
<1>5. CASE torn' = torn /\ BackOut(p)
  <2>1. \A s \in {"caddy", "sshd"} : Ends("halt", s)
    BY <1>2 DEF Ends, Due, OnTheWay
  <2> QED BY <1>1, <1>5, <2>1, BackOutOn
<1> QED BY <1>1, <1>3, <1>4, <1>5

\* CopyServer leaves no service behind.
LEMMA CopyServerOn ==
  ASSUME VInv, FInv, NEW p \in Procs, CopyServer(p), NotSsh
  PROVE  FInv'
<1> DEFINE j == job[p]
           k == [Next1(j) EXCEPT !.kept = Snapshot]
<1>1. At(p, "copy server") /\ UNCHANGED <<torn, caddy, sites>> /\ (Then(p, k) \/ BackOut(p))
  BY DEF CopyServer, fate, connectionVars
<1>2. Still("caddy") /\ Still("sshd")
  BY <1>1, StillBut
<1>3. DOMAIN j = Fields /\ MayEnter(p)
  BY <1>1, AtStep, MayGoOn DEF Entries
<1>4. CASE Then(p, k)
  <2>1. k.plan = Tail(j.plan) /\ k.back = j.back /\ k.op = j.op /\ k.locked = j.locked /\ k.in = j.in
    BY <1>3 DEF Next1, Fields
  <2> HIDE DEF k
  <2>2. \A s \in Services : Passes("copy server", s)
    BY <1>2 DEF Passes, Strays, Due, OnTheWay, Services
  <2> QED BY <1>1, <1>4, <2>1, <2>2, NextOnward DEF Entries
<1>5. CASE BackOut(p)
  <2>1. \A s \in {"caddy", "sshd"} : Ends("copy server", s)
    BY <1>2 DEF Ends, Due, OnTheWay
  <2> QED BY <1>1, <1>3, <1>5, <2>1, BackOutOn
<1> QED BY <1>1, <1>4, <1>5

\* The steps of a restore.
PlaceHeads == {"place config", "place env", "place db", "place sites", "serve sites"}

\* Place leaves no service behind.
LEMMA PlaceOn ==
  ASSUME VInv, FInv, NEW p \in Procs, Place(p), NotSsh
  PROVE  FInv'
<1>1. PICK h \in PlaceHeads : At(p, h) /\ (h = "serve sites" => caddy' = sites /\ UNCHANGED sites)
  <2>1. \/ At(p, "place config") \/ At(p, "place env") \/ At(p, "place db") \/ At(p, "place sites")
        \/ At(p, "serve sites") /\ caddy' = sites /\ UNCHANGED sites
    BY DEF Place
  <2> QED BY <2>1 DEF PlaceHeads
<1>2. Follow(p) /\ torn' = torn
  BY DEF Place, Goes1
<1>3. h = "serve sites" => Current("caddy")'
  BY <1>1 DEF Current
<1>4. Still("sshd")
  BY StillBut
<1>5. \A s \in Services : Passes(h, s)
  BY <1>3, <1>4 DEF Passes, Strays, Due, OnTheWay, Services, PlaceHeads
<1>6. h \notin Entries
  BY DEF Entries, PlaceHeads
<1> QED BY <1>1, <1>2, <1>5, <1>6, FollowOnward

\* PlaceFails leaves no service behind.
LEMMA PlaceFailsOn ==
  ASSUME VInv, FInv, NEW p \in Procs, PlaceFails(p), NotSsh
  PROVE  FInv'
<1> DEFINE j == job[p]
<1>1. PICK h \in PlaceHeads : At(p, h)
  BY DEF PlaceFails, PlaceHeads, At
<1>2. FallsBack(p)
  BY DEF PlaceFails, Fallback
<1>3. j.back # <<>> => Head(j.back) = "place config"
  <2>1. h \in PlaceSteps
    BY DEF PlaceHeads, PlaceSteps
  <2> QED BY <1>1, <2>1, AtStep, BackHead
<1>4. Still("sshd")
  BY StillBut
<1>5. \A s \in Services : Ends(h, s) \/ (j.back # <<>> => Due(Head(j.back), s))
  BY <1>3, <1>4 DEF Ends, Due, OnTheWay, Services, PlaceHeads
<1>6. h \notin Entries
  BY DEF Entries, PlaceHeads
<1> QED BY <1>1, <1>2, <1>5, <1>6, FallbackOn

\* Restart leaves no service behind.
LEMMA RestartOn ==
  ASSUME VInv, FInv, NEW p \in Procs, Restart(p), NotSsh
  PROVE  FInv'
<1> DEFINE j == job[p]
<1>1. PICK h \in {"start", "restart"} : At(p, h)
  BY DEF Restart
<1>2. UNCHANGED <<config, caddy, sites, units>> /\ ((Readable /\ xray' = config /\ Follow(p) /\ torn' = torn) \/ FallsBack(p))
  BY DEF Restart, Goes1, connectionVars
<1>3. Still("caddy") /\ Still("sshd") /\ Still("units")
  BY <1>2, StillBut
<1>4. h \notin Entries
  BY DEF Entries
<1>5. CASE Readable /\ xray' = config /\ Follow(p) /\ torn' = torn
  <2>1. Current("xray")'
    BY <1>2, <1>5 DEF Current, Readable
  <2>2. \A s \in Services : Passes(h, s)
    BY <1>3, <2>1 DEF Passes, Strays, Due, OnTheWay, Services
  <2> QED BY <1>1, <1>4, <1>5, <2>2, FollowOnward
<1>6. CASE FallsBack(p)
  <2>1. j.back # <<>> => (h = "start" => Head(j.back) = "place config") /\ (h = "restart" => Head(j.back) \in {"place bin", "place geo"})
    <3>1. h = "start" => h \in PlaceSteps
      BY DEF PlaceSteps
    <3> QED BY <1>1, <3>1, AtStep, BackHead
  <2>2. \A s \in Services : Ends(h, s) \/ (j.back # <<>> => Due(Head(j.back), s))
    BY <1>3, <2>1 DEF Ends, Due, OnTheWay, Services
  <2> QED BY <1>1, <1>4, <1>6, <2>2, FallbackOn
<1> QED BY <1>2, <1>5, <1>6

\* Resume leaves no service behind.
LEMMA ResumeOn ==
  ASSUME VInv, FInv, NEW p \in Procs, Resume(p), NotSsh
  PROVE  FInv'
<1>1. At(p, "resume") /\ Follow(p) /\ UNCHANGED <<config, xray, caddy, sites>> /\ (torn => torn') /\ (torn' \/ units' = "on")
  BY DEF Resume, Goes1, files, connectionVars
<1>2. Still("caddy") /\ Still("sshd") /\ Still("xray") /\ (torn' \/ Current("units")')
  BY <1>1, StillBut DEF Current
<1>3. \A s \in Services : Passes("resume", s)
  BY <1>2 DEF Passes, Strays, Due, OnTheWay, Services
<1> QED BY <1>1, <1>3, FollowOnward DEF Entries

-----------------------------------------------------------------------------
\* The updates.
LEMMA ChecksOn ==
  ASSUME VInv, FInv, NEW p \in Procs, Ready(p) \/ Fetch(p), NotSsh
  PROVE  FInv'
<1>1. PICK h \in {"ready", "fetch"} : At(p, h)
  BY DEF Ready, Fetch
<1>2. UNCHANGED <<torn, config, xray, caddy, sites, units>> /\ (Follow(p) \/ Then(p, [job[p] EXCEPT !.plan = <<>>]))
  BY DEF Ready, Fetch, files, fate, connectionVars, upkeepVars
<1>3. Untouched /\ Aside(h) /\ h \notin Entries
  BY <1>2, UntouchedIf, AsideIf DEF Entries
<1> QED BY <1>1, <1>2, <1>3, AsideFollow, AsideEnd

\* PlacePart leaves no service behind.
LEMMA PlacePartOn ==
  ASSUME VInv, FInv, NEW p \in Procs, PlacePart(p), NotSsh
  PROVE  FInv'
<1> DEFINE j == job[p]
<1>1. PICK h \in {"place bin", "place geo"} : At(p, h)
  BY DEF PlacePart
<1>2. UNCHANGED <<caddy, sites, units>> /\ ((Follow(p) /\ torn' = torn) \/ FallsBack(p))
  BY DEF PlacePart, Fallback, Goes1, connectionVars
<1>3. Still("caddy") /\ Still("sshd") /\ Still("units")
  BY <1>2, StillBut
<1>4. h \notin Entries
  BY DEF Entries
<1>5. CASE Follow(p) /\ torn' = torn
  <2>1. \A s \in Services : Passes(h, s)
    BY <1>3 DEF Passes, Strays, Due, OnTheWay, Services
  <2> QED BY <1>1, <1>4, <1>5, <2>1, FollowOnward
<1>6. CASE FallsBack(p)
  <2>1. j.back # <<>> => Head(j.back) \in {"place bin", "place geo"}
    BY <1>1, AtStep, BackHead
  <2>2. \A s \in Services : Ends(h, s) \/ (j.back # <<>> => Due(Head(j.back), s))
    BY <1>3, <2>1 DEF Ends, Due, OnTheWay, Services
  <2> QED BY <1>1, <1>4, <1>6, <2>2, FallbackOn
<1> QED BY <1>2, <1>5, <1>6

\* The steps that only set something aside, or end.
LEMMA KeepingOn ==
  ASSUME VInv, FInv, NEW p \in Procs, NEW h, At(p, h), Aside(h), Untouched, UNCHANGED torn, h \notin Entries,
         \E kept : \/ Then(p, [Next1(job[p]) EXCEPT !.in = TRUE, !.kept = kept])
                   \/ Then(p, [Next1(job[p]) EXCEPT !.kept = kept])
                   \/ Then(p, [Next1(job[p]) EXCEPT !.in = TRUE])
                   \/ Then(p, [job[p] EXCEPT !.plan = <<>>])
                   \/ Follow(p)
  PROVE  FInv'
<1> DEFINE j == job[p]
           k(x) == [Next1(j) EXCEPT !.in = TRUE, !.kept = x]
           l(x) == [Next1(j) EXCEPT !.kept = x]
           m == [Next1(j) EXCEPT !.in = TRUE]
<1>1. DOMAIN j = Fields /\ MayEnter(p)
  BY AtStep, MayGoOn
<1>2. PICK kept : Then(p, k(kept)) \/ Then(p, l(kept)) \/ Then(p, m) \/ Then(p, [j EXCEPT !.plan = <<>>]) \/ Follow(p)
  OBVIOUS
<1> DEFINE a == k(kept)
           b == l(kept)
<1>3. /\ a.plan = Tail(j.plan) /\ a.back = j.back /\ a.op = j.op /\ a.locked = j.locked /\ a.in = TRUE
      /\ b.plan = Tail(j.plan) /\ b.back = j.back /\ b.op = j.op /\ b.locked = j.locked /\ b.in = j.in
      /\ m.plan = Tail(j.plan) /\ m.back = j.back /\ m.op = j.op /\ m.locked = j.locked /\ m.in = TRUE
  BY <1>1 DEF Next1, Fields
<1>4. Then(p, a) \/ Then(p, b) \/ Then(p, m) \/ Then(p, [j EXCEPT !.plan = <<>>]) \/ Follow(p)
  BY <1>2
<1> HIDE DEF a, b, m, k, l
<1>5. CASE Then(p, a)
  BY <1>1, <1>3, <1>5, AsideNext
<1>6. CASE Then(p, b)
  BY <1>3, <1>6, AsideNext
<1>7. CASE Then(p, m)
  BY <1>1, <1>3, <1>7, AsideNext
<1>8. CASE Then(p, [j EXCEPT !.plan = <<>>])
  BY <1>8, AsideEnd
<1>9. CASE Follow(p)
  BY <1>9, AsideFollow
<1> QED BY <1>4, <1>5, <1>6, <1>7, <1>8, <1>9

\* Keep leaves no service behind.
LEMMA KeepOn ==
  ASSUME VInv, FInv, NEW p \in Procs, Keep(p), NotSsh
  PROVE  FInv'
<1>1. PICK h \in {"keep", "set aside"} : At(p, h)
  BY DEF Keep
<1>2. UNCHANGED <<torn, config, xray, caddy, sites, units>> /\ Then(p, [Next1(job[p]) EXCEPT !.in = TRUE, !.kept = parts])
  BY DEF Keep, files, connectionVars
<1>3. Untouched /\ Aside(h) /\ h \notin Entries
  BY <1>2, UntouchedIf, AsideIf DEF Entries
<1> QED BY <1>1, <1>2, <1>3, KeepingOn

\* An update of the manager changes no file a service runs by.
LEMMA ManagerUntouched ==
  ASSUME OnlyManager, NotSsh
  PROVE  Untouched
  BY UntouchedIf DEF OnlyManager, files, connectionVars

\* Copies leaves no service behind.
LEMMA CopiesOn ==
  ASSUME VInv, FInv, NEW p \in Procs, Obtain(p) \/ CopyManager(p) \/ ChooseBackup(p) \/ UpdateRefused(p), NotSsh
  PROVE  FInv'
<1>1. PICK h \in {"obtain", "begin copy", "end copy", "choose"} : At(p, h)
  BY DEF Obtain, CopyManager, ChooseBackup, UpdateRefused
<1>2. /\ UNCHANGED torn /\ OnlyManager
      /\ \E kept : \/ Then(p, [Next1(job[p]) EXCEPT !.in = TRUE, !.kept = kept])
                   \/ Then(p, [Next1(job[p]) EXCEPT !.kept = kept])
                   \/ Then(p, [Next1(job[p]) EXCEPT !.in = TRUE])
                   \/ Then(p, [job[p] EXCEPT !.plan = <<>>])
                   \/ Follow(p)
  BY DEF Obtain, CopyManager, ChooseBackup, UpdateRefused
<1>3. Untouched /\ Aside(h) /\ h \notin Entries
  BY <1>2, ManagerUntouched, AsideIf DEF Entries
<1> QED BY <1>1, <1>2, <1>3, KeepingOn

\* Installs leaves no service behind.
LEMMA InstallsOn ==
  ASSUME VInv, FInv, NEW p \in Procs, PlaceManager(p) \/ RenameOld(p) \/ RenameNew(p) \/ Sync(p) \/ Validate(p), NotSsh
  PROVE  FInv'
<1>1. PICK h \in {"place source", "place wrappers", "rename old", "rename new", "sync", "validate"} : At(p, h)
  BY DEF PlaceManager, RenameOld, RenameNew, Sync, Validate
<1>2. OnlyManager
  BY DEF PlaceManager, RenameOld, RenameNew, Sync, Validate
<1>3. (((torn => torn') /\ (Follow(p) \/ Then(p, [job[p] EXCEPT !.plan = <<>>]))) \/ FallsBack(p))
  BY Zenon DEF Fallback, PlaceManager, RenameOld, RenameNew, Sync, Validate, Goes1
<1>4. Untouched /\ Aside(h) /\ h \notin Entries
  BY <1>2, ManagerUntouched, AsideIf DEF Entries
<1>5. CASE FallsBack(p)
  <2>1. \A s \in Services : Ends(h, s)
    BY <1>4, AsidePasses
  <2> QED BY <1>1, <1>4, <1>5, <2>1, FallbackOn
<1> QED BY <1>1, <1>3, <1>4, <1>5, AsideFollow, AsideEnd

\* UpkeepStep leaves no service behind.
LEMMA UpkeepStepOn ==
  ASSUME VInv, FInv, NEW p \in Procs, UpkeepProgress(p), NotSsh
  PROVE  FInv'
  BY ReadsOn, HaltOn, CopyServerOn, PlaceOn, PlaceFailsOn, RestartOn, ResumeOn, ChecksOn, KeepOn, PlacePartOn, CopiesOn, InstallsOn
     DEF UpkeepProgress

\* Nothing that the invariant speaks of changes.
LEMMA Unmoved ==
  ASSUME FInv, UNCHANGED <<job, lock, torn>>, Untouched
  PROVE  FInv'
<1>1. JobsOn'
  BY DEF FInv, JobsOn
<1>2. \A s \in Services : Still(s)
  BY UntouchedStill
<1>3. \A s \in Services : Follows(s) => Follows(s)'
  BY <1>2 DEF Follows, Still
<1> QED BY <1>1, <1>3 DEF FInv

-----------------------------------------------------------------------------
\* The steps of the panel.
LEMMA PanelClosed ==
  /\ Closed(<<"reply">>)
  /\ Closed(<<"run", "clear", "reply">>)
  /\ Closed(<<"put", "serve", "list", "reply">>)
  /\ Closed(<<"read files", "read db", "reply">>)
<1>1. /\ HandsOn("run", "clear") /\ HandsOn("clear", "reply") /\ Calm("reply")
      /\ HandsOn("put", "serve") /\ HandsOn("serve", "list") /\ HandsOn("list", "reply")
      /\ HandsOn("read files", "read db") /\ HandsOn("read db", "reply")
  BY DEF HandsOn, Calm, Services, Strays, Due, OnTheWay
<1>2. Closed(<<"reply">>)
  BY <1>1, ClosedOne, Zenon
<1>3. Closed(<<"run", "clear", "reply">>)
  BY <1>1, ClosedThree, Zenon
<1>4. Closed(<<"put", "serve", "list", "reply">>)
  BY <1>1, ClosedFour, Zenon
<1>5. Closed(<<"read files", "read db", "reply">>)
  BY <1>1, ClosedThree, Zenon
<1> QED BY <1>2, <1>3, <1>4, <1>5, Zenon

\* The plan of a tap in the owner's panel.
LEMMA StepsOn ==
  ASSUME NEW run, NEW k, k.plan = Steps(run), Closed(k.back)
  PROVE  PlanOn(k)
<1> DEFINE S == {"run", "clear", "put", "serve", "list", "read files", "read db", "reply"}
<1>1. \/ Steps(run) = <<"reply">>
      \/ Steps(run) = <<"run", "clear", "reply">>
      \/ Steps(run) = <<"put", "serve", "list", "reply">>
      \/ Steps(run) = <<"read files", "read db", "reply">>
  BY Zenon DEF Steps
<1>2. /\ Seq({"run", "clear", "reply"}) \subseteq Seq(S) /\ Seq({"put", "serve", "list", "reply"}) \subseteq Seq(S)
      /\ Seq({"read files", "read db", "reply"}) \subseteq Seq(S)
  <2>1. /\ {"run", "clear", "reply"} \subseteq S /\ {"put", "serve", "list", "reply"} \subseteq S
        /\ {"read files", "read db", "reply"} \subseteq S
    OBVIOUS
  <2> HIDE DEF S
  <2> QED BY <2>1, SeqWider
<1>3. S \intersect (PlaceSteps \union UpdateSteps \union SshSteps) = {}
  BY DEF PlaceSteps, UpdateSteps, SshSteps
<1> HIDE DEF S
<1>4. Steps(run) \in Seq(S)
  BY <1>1, <1>2, PanelPlans, ThreeSteps, Zenon
<1>5. Closed(Steps(run))
  BY <1>1, PanelClosed, Zenon
<1> QED BY <1>3, <1>4, <1>5, PlainOn

\* Act leaves no service behind.
LEMMA ActOn ==
  ASSUME VInv, FInv, NEW p \in Procs, Act(p), Untouched
  PROVE  FInv'
<1>1. PICK r : Then(p, [job[p] EXCEPT !.plan = Steps(r.run), !.rows = r,
                          !.op = IF r.run.what = "tls" THEN "owner tls" ELSE @,
                          !.arg = IF r.run.what = "tls" THEN [at |-> r.run.name, tls |-> r.run.to] ELSE @])
  BY Zenon DEF Act
<1> DEFINE j == job[p]
           tls == r.run.what = "tls"
           k == [j EXCEPT !.plan = Steps(r.run), !.rows = r,
                   !.op = IF tls THEN "owner tls" ELSE @,
                   !.arg = IF tls THEN [at |-> r.run.name, tls |-> r.run.to] ELSE @]
<1>2. At(p, "act") /\ UNCHANGED torn
  BY DEF Act, fate
<1>3. DOMAIN j = Fields /\ j.op # "none" /\ PlanOn(j)
  BY <1>2, AtStep
<1>4. /\ k.plan = Steps(r.run) /\ k.back = j.back /\ k.in = j.in /\ k.locked = j.locked
      /\ k.op = "owner tls" \/ k.op = j.op
  BY <1>3 DEF Fields
<1>5. Then(p, k)
  BY <1>1
<1> HIDE DEF k, tls
<1>6. PlanOn(k) /\ k.op # "none"
  BY <1>3, <1>4, StepsOn DEF PlanOn
<1>7. Aside("act") /\ "act" \notin Entries
  BY AsideIf DEF Entries
<1> QED BY <1>2, <1>4, <1>5, <1>6, <1>7, AsideOnward

\* List leaves no service behind.
LEMMA ListOn ==
  ASSUME VInv, FInv, NEW p \in Procs, List(p), Untouched
  PROVE  FInv'
<1> DEFINE j == job[p]
           k == [Next1(j) EXCEPT !.rows = ListSites]
<1>1. At(p, "list") /\ UNCHANGED torn /\ Then(p, k)
  BY Zenon DEF List, fate
<1>2. DOMAIN j = Fields
  BY <1>1, AtStep
<1>3. k.plan = Tail(j.plan) /\ k.back = j.back /\ k.op = j.op /\ k.locked = j.locked /\ k.in = j.in
  BY <1>2 DEF Next1, Fields
<1> HIDE DEF k
<1>4. Aside("list") /\ "list" \notin Entries
  BY AsideIf DEF Entries
<1> QED BY <1>1, <1>3, <1>4, AsideNext

\* Answers leaves no service behind.
LEMMA AnswersOn ==
  ASSUME VInv, FInv, NEW p \in Procs, Accept(p) \/ RunCommand(p) \/ Clear(p) \/ Reply(p), Untouched
  PROVE  FInv'
<1>1. PICK h \in {"accept", "run", "clear", "reply"} : At(p, h)
  BY Zenon DEF Accept, RunCommand, Clear, Reply
<1>2. UNCHANGED torn /\ (Follow(p) \/ Then(p, [job[p] EXCEPT !.plan = <<>>]))
  BY Zenon DEF Accept, RunCommand, Clear, Reply, fate
<1>3. Aside(h) /\ h \notin Entries
  BY AsideIf DEF Entries
<1> QED BY <1>1, <1>2, <1>3, AsideFollow, AsideEnd

-----------------------------------------------------------------------------
\* The steps of the SSH login.
OnlyLogin == UNCHANGED <<config, xray, caddy, sites, units>>

\* A step of the SSH login leaves every other service alone.
LEMMA LoginStill ==
  ASSUME OnlyLogin
  PROVE  \A s \in Services \ {"sshd"} : Still(s)
  BY StillIf DEF OnlyLogin, Services

\* SshFails leaves no service behind.
LEMMA SshFailsOn ==
  ASSUME VInv, FInv, NEW p \in Procs, NEW h \in SshSteps, At(p, h), SshFails(p), OnlyLogin
  PROVE  FInv'
<1> DEFINE j == job[p]
           d == [j EXCEPT !.plan = <<>>]
           k == [j EXCEPT !.plan = j.back, !.back = <<>>]
<1>1. JobFine(j) /\ DOMAIN j = Fields /\ j.plan # <<>> /\ Head(j.plan) = h /\ j.op # "none" /\ PlanOn(j)
  BY AtStep
<1>2. k.plan = j.back /\ k.back = <<>> /\ k.op = j.op /\ k.locked = j.locked /\ k.in = j.in
  BY <1>1 DEF Fields
<1>3. (torn' = TRUE /\ Then(p, d)) \/ (j.back # <<>> /\ torn' = torn /\ Then(p, k))
  BY Zenon DEF SshFails
<1> HIDE DEF k
<1>4. CASE torn' = TRUE /\ Then(p, d)
  <2>1. \A s \in Services : Ends(h, s)
    BY <1>4 DEF Ends
  <2> QED BY <1>4, <2>1, EndOnward
<1>5. CASE j.back # <<>> /\ torn' = torn /\ Then(p, k)
  <2>1. Head(k.plan) = "back include" /\ k.plan # <<>>
    BY <1>1, <1>2, <1>5, BackHead
  <2>2. PlanOn(k)
    BY <1>1, <1>2, ClosedEnd DEF PlanOn, BackOn
  <2>3. h \notin Entries /\ \A s \in Services \ {"sshd"} : ~Due(h, s)
    BY DEF SshSteps, Entries, Due, OnTheWay, Services
  <2>4. \A s \in Services : Awaits(k, s) \/ Ends(h, s)
    BY <2>1, <2>3, LoginStill DEF Awaits, Ends, Due, OnTheWay, Services
  <2> QED BY <1>1, <1>2, <1>5, <2>2, <2>3, <2>4, TurnOnward
<1> QED BY <1>3, <1>4, <1>5

\* A step that goes on.
LEMMA LoginOn ==
  ASSUME VInv, FInv, NEW p \in Procs, NEW h \in SshSteps \union {"reload old"}, At(p, h), Follow(p), torn => torn', OnlyLogin,
         h \in {"reload sshd", "reload old"} => torn' \/ Current("sshd")'
  PROVE  FInv'
<1>1. \A s \in Services : Passes(h, s)
  BY LoginStill DEF Passes, Strays, Due, OnTheWay, Services, SshSteps
<1>2. h \notin Entries
  BY DEF SshSteps, Entries
<1> QED BY <1>1, <1>2, FollowOnward

\* Texts leaves no service behind.
LEMMA TextsOn ==
  ASSUME VInv, FInv, NEW p \in Procs, Texts0(p), OnlyLogin
  PROVE  FInv'
<1>1. At(p, "texts") /\ UNCHANGED <<torn, sshVars>> /\ Then(p, [Next1(job[p]) EXCEPT !.in = TRUE, !.kept = ssh])
  BY DEF Texts0
<1>2. Untouched /\ Aside("texts") /\ "texts" \notin Entries
  BY <1>1, AsideIf DEF OnlyLogin, Untouched, sshVars, Entries
<1> QED BY <1>1, <1>2, KeepingOn

\* Edits leaves no service behind.
LEMMA EditsOn ==
  ASSUME VInv, FInv, NEW p \in Procs, EditSsh(p) \/ AskSshd(p) \/ PutBackSsh(p), OnlyLogin
  PROVE  FInv'
<1>1. PICK h \in {"include", "dropin", "legacy", "ask sshd", "back include", "back dropin", "back legacy"} : At(p, h)
  <2>1. CASE EditSsh(p)
    BY <2>1 DEF EditSsh, Parts
  <2>2. CASE AskSshd(p)
    BY <2>2 DEF AskSshd
  <2>3. CASE PutBackSsh(p)
    BY <2>3 DEF PutBackSsh
  <2> QED BY <2>1, <2>2, <2>3
<1>2. (Follow(p) /\ torn' = torn) \/ SshFails(p)
  BY Zenon DEF EditSsh, AskSshd, PutBackSsh
<1>3. h \in SshSteps /\ h \notin {"reload sshd", "reload old"}
  BY DEF SshSteps
<1>4. CASE Follow(p) /\ torn' = torn
  <2>1. h \in SshSteps \union {"reload old"} /\ (torn => torn') /\ (h \in {"reload sshd", "reload old"} => torn' \/ Current("sshd")')
    BY <1>3, <1>4
  <2> QED BY <1>1, <1>4, <2>1, LoginOn
<1>5. CASE SshFails(p)
  BY <1>1, <1>3, <1>5, SshFailsOn
<1> QED BY <1>2, <1>4, <1>5

\* Reloads leaves no service behind.
LEMMA ReloadsOn ==
  ASSUME VInv, FInv, NEW p \in Procs, ReloadSshd(p) \/ ReloadOld(p), OnlyLogin
  PROVE  FInv'
<1>1. PICK h \in {"reload sshd", "reload old"} : At(p, h) /\ (h = "reload old" => ReloadOld(p))
  BY DEF ReloadSshd, ReloadOld
<1>2. UNCHANGED <<others, ssh>>
  BY DEF ReloadSshd, ReloadOld
<1>3. \/ Follow(p) /\ (torn => torn') /\ (torn' \/ sshd' = Passwords(ssh))
      \/ ReloadSshd(p) /\ SshFails(p)
  BY DEF ReloadSshd, ReloadOld
<1>4. sshd' = Passwords(ssh) => Current("sshd")'
  BY <1>2 DEF Current, Passwords
<1>5. "reload sshd" \in SshSteps
  BY DEF SshSteps
<1>6. CASE Follow(p) /\ (torn => torn') /\ (torn' \/ sshd' = Passwords(ssh))
  BY <1>1, <1>4, <1>5, <1>6, LoginOn
<1>7. CASE ReloadSshd(p) /\ SshFails(p)
  <2>1. At(p, "reload sshd")
    BY <1>7 DEF ReloadSshd
  <2> QED BY <1>5, <1>7, <2>1, SshFailsOn
<1> QED BY <1>3, <1>6, <1>7

\* SshStep leaves no service behind.
LEMMA SshStepOn ==
  ASSUME VInv, FInv, NEW p \in Procs,
         Texts0(p) \/ EditSsh(p) \/ AskSshd(p) \/ ReloadSshd(p) \/ PutBackSsh(p) \/ ReloadOld(p),
         UNCHANGED <<caddy, sites, units>>
  PROVE  FInv'
<1>1. UNCHANGED <<config, xray>>
  BY DEF Texts0, EditSsh, AskSshd, ReloadSshd, PutBackSsh, ReloadOld, OnlySsh, files
<1>2. OnlyLogin
  BY <1>1 DEF OnlyLogin
<1> QED BY <1>2, TextsOn, EditsOn, ReloadsOn

\* PanelStep leaves no service behind.
LEMMA PanelStepOn ==
  ASSUME VInv, FInv, NEW p \in Procs,
         Accept(p) \/ Act(p) \/ RunCommand(p) \/ Clear(p) \/ List(p) \/ Reply(p),
         UNCHANGED <<caddy, sites, units, sshVars>>
  PROVE  FInv'
<1>1. UNCHANGED <<config, xray>>
  BY Zenon DEF Accept, Act, RunCommand, Clear, List, Reply, files
<1>2. Untouched
  BY <1>1 DEF Untouched, sshVars
<1> QED BY <1>2, ActOn, ListOn, AnswersOn

-----------------------------------------------------------------------------
(***************************************************************************)
(* The plans commands begin with.                                          *)
(***************************************************************************)
-----------------------------------------------------------------------------
\* The plans commands begin with.
Spots == PlaceSteps \union {"place bin", "place geo", "restart"} \union SshSteps
\* A closed plan without a step that a failure takes back in its own way.
Plain(plan) == Closed(plan) /\ ~Left(plan, Spots)
\* A plan that begins with the step that takes the lock.
EntersFirst(plan) == plan # <<>> /\ Head(plan) \in Entries

\* After a step that lets nothing stray, any step may come.
LEMMA CalmLeads ==
  ASSUME NEW a, Calm(a)
  PROVE  \A b : HandsOn(a, b)
  BY DEF Calm, HandsOn

\* Nor has a plan of other steps.
LEMMA SpotsAway ==
  ASSUME NEW S, S \intersect Spots = {}, NEW plan \in Seq(S)
  PROVE  ~Left(plan, Spots)
  BY Away

\* A plan of six steps.
LEMMA ClosedSix ==
  ASSUME NEW a, NEW b, NEW c, NEW d, NEW e, NEW f, HandsOn(a, b), HandsOn(b, c), HandsOn(c, d), HandsOn(d, e), HandsOn(e, f), Calm(f)
  PROVE  Closed(<<a, b, c, d, e, f>>)
<1> DEFINE x == <<a, b, c, d, e, f>>
<1>1. DOMAIN x = 1 .. 6 /\ x[1] = a /\ x[2] = b /\ x[3] = c /\ x[4] = d /\ x[5] = e /\ x[6] = f
  OBVIOUS
<1> HIDE DEF x
<1>2. \A k \in 1 .. 6 : k = 1 \/ k = 2 \/ k = 3 \/ k = 4 \/ k = 5 \/ k = 6
  OBVIOUS
<1>3. /\ 1 + 1 = 2 /\ 2 + 1 = 3 /\ 3 + 1 = 4 /\ 4 + 1 = 5 /\ 5 + 1 = 6 /\ 6 + 1 \notin 1 .. 6
      /\ 2 \in 1 .. 6 /\ 3 \in 1 .. 6 /\ 4 \in 1 .. 6 /\ 5 \in 1 .. 6 /\ 6 \in 1 .. 6
  OBVIOUS
<1>4. Closed(x)
  BY <1>1, <1>2, <1>3 DEF Closed
<1> QED BY <1>4 DEF x

\* One step before a closed plan.
LEMMA ClosedCons ==
  ASSUME NEW a \in Names, NEW plan \in Seq(Names), plan # <<>>, Closed(plan), HandsOn(a, Head(plan))
  PROVE  Closed(<<a>> \o plan)
<1> DEFINE c == <<a>> \o plan
<1>1. /\ DOMAIN c = 1 .. 1 + Len(plan) /\ DOMAIN plan = 1 .. Len(plan) /\ Len(plan) \in Nat /\ Len(plan) >= 1
      /\ c[1] = a /\ \A i \in 1 .. Len(plan) : c[i + 1] = plan[i]
      /\ Head(plan) = plan[1]
  OBVIOUS
<1> HIDE DEF c
<1> SUFFICES ASSUME NEW k \in DOMAIN c
             PROVE  IF k + 1 \in DOMAIN c THEN HandsOn(c[k], c[k + 1]) ELSE Calm(c[k])
  BY DEF Closed, c
<1>2. CASE k = 1
  <2>1. 1 \in 1 .. Len(plan) /\ k + 1 \in DOMAIN c
    BY <1>1, <1>2
  <2> QED BY <1>1, <1>2, <2>1
<1>3. CASE k # 1
  <2>1. k - 1 \in DOMAIN plan /\ (k - 1) + 1 = k /\ c[k] = plan[k - 1]
    BY <1>1, <1>3
  <2>2. IF k \in DOMAIN plan THEN HandsOn(plan[k - 1], plan[k]) ELSE Calm(plan[k - 1])
    BY <2>1 DEF Closed
  <2>3. CASE k \in DOMAIN plan
    <3>1. k + 1 \in DOMAIN c /\ c[k + 1] = plan[k]
      BY <1>1, <2>3
    <3> QED BY <2>1, <2>2, <2>3, <3>1
  <2>4. CASE k \notin DOMAIN plan
    <3>1. k + 1 \notin DOMAIN c
      BY <1>1, <2>1, <2>4
    <3> QED BY <2>1, <2>2, <2>4, <3>1
  <2> QED BY <2>3, <2>4
<1> QED BY <1>2, <1>3

\* Steps that let nothing stray.
LEMMA CalmSteps ==
  /\ Calm("load") /\ Calm("try") /\ Calm("rows") /\ Calm("env") /\ Calm("note") /\ Calm("read") /\ Calm("commit")
  /\ Calm("record") /\ Calm("describe") /\ Calm("absent") /\ Calm("serve") /\ Calm("seek") /\ Calm("archive")
  /\ Calm("redo") /\ Calm("accept") /\ Calm("act") /\ Calm("ready") /\ Calm("fetch") /\ Calm("keep")
  BY DEF Calm, Services, Strays, OnTheWay

\* More of them.
LEMMA CalmSpaced ==
  /\ Calm("read files") /\ Calm("read db") /\ Calm("set aside") /\ Calm("reload sshd") /\ Calm("reload old") /\ Calm("resume")
  /\ Calm("restart") /\ Calm("texts") /\ Calm("obtain") /\ Calm("begin copy") /\ Calm("end copy") /\ Calm("choose")
  /\ Calm("place source") /\ Calm("place wrappers") /\ Calm("rename old") /\ Calm("rename new") /\ Calm("sync") /\ Calm("validate")
  BY DEF Calm, Services, Strays, OnTheWay

\* The steps that let a service stray, and what makes it follow.
LEMMA LeadsOn ==
  /\ HandsOn("save", "try") /\ HandsOn("put", "serve") /\ HandsOn("extract", "serve")
  /\ HandsOn("probe", "unprobe") /\ HandsOn("unprobe", "redo")
  BY DEF HandsOn, Services, Strays, Due, OnTheWay

-----------------------------------------------------------------------------
\* Those of the routes and of the connections.

\* The steps of these plans.
Ordinary == {"load", "save", "try", "rows", "env", "probe", "unprobe", "redo", "note", "read", "commit", "absent", "put", "serve",
          "record", "describe", "archive", "extract", "accept", "act", "seek"}

\* A closed plan of these steps is plain.
LEMMA PlainIs ==
  ASSUME NEW plan \in Seq(Ordinary), Closed(plan)
  PROVE  Plain(plan)
<1>1. Ordinary \intersect Spots = {}
  BY DEF Ordinary, Spots, PlaceSteps, SshSteps
<1> QED BY <1>1, SpotsAway DEF Plain

\* The plan of a command of the routes that stores rows is plain.
LEMMA RowsPlain ==
  Plain(<<"load", "save", "try", "rows">>)
<1>1. <<"load", "save", "try", "rows">> \in Seq(Ordinary)
  BY DEF Ordinary
<1> QED BY <1>1, PlainIs, CalmSteps, CalmLeads, LeadsOn, ClosedFour, Zenon

\* The plan of one that stores nothing else is plain.
LEMMA BarePlain ==
  Plain(<<"load", "save", "try">>)
<1>1. <<"load", "save", "try">> \in Seq(Ordinary)
  BY DEF Ordinary
<1> QED BY <1>1, PlainIs, CalmSteps, CalmLeads, LeadsOn, ClosedThree, Zenon

\* The plan of a bypass route is plain.
LEMMA BypassPlain ==
  Plain(<<"load", "save", "try", "rows", "env">>)
<1>1. <<"load", "save", "try", "rows", "env">> \in Seq(Ordinary)
  BY DEF Ordinary
<1> QED BY <1>1, PlainIs, CalmSteps, CalmLeads, LeadsOn, ClosedFive, Zenon

\* The plan of the watched region is plain.
LEMMA EnvPlain ==
  Plain(<<"load", "save", "try", "env">>)
<1>1. <<"load", "save", "try", "env">> \in Seq(Ordinary)
  BY DEF Ordinary
<1> QED BY <1>1, PlainIs, CalmSteps, CalmLeads, LeadsOn, ClosedFour, Zenon

\* The plan of a block is plain.
LEMMA BlockPlain ==
  Plain(<<"note", "read", "load", "save", "try">>)
<1>1. <<"note", "read", "load", "save", "try">> \in Seq(Ordinary)
  BY DEF Ordinary
<1> QED BY <1>1, PlainIs, CalmSteps, CalmLeads, LeadsOn, ClosedFive, Zenon

\* The plan of the timer's run is plain.
LEMMA ReconcilePlain ==
  Plain(<<"read", "load", "save", "try">>)
<1>1. <<"read", "load", "save", "try">> \in Seq(Ordinary)
  BY DEF Ordinary
<1> QED BY <1>1, PlainIs, CalmSteps, CalmLeads, LeadsOn, ClosedFour, Zenon

\* The plan of a Reality connection from the menus is plain.
LEMMA RecordPlain ==
  Plain(<<"load", "save", "try", "record">>)
<1>1. <<"load", "save", "try", "record">> \in Seq(Ordinary)
  BY DEF Ordinary
<1> QED BY <1>1, PlainIs, CalmSteps, CalmLeads, LeadsOn, ClosedFour, Zenon

\* The plan of a connection is plain.
LEMMA StorePlain ==
  Plain(<<"load", "save", "try", "commit">>)
<1>1. <<"load", "save", "try", "commit">> \in Seq(Ordinary)
  BY DEF Ordinary
<1> QED BY <1>1, PlainIs, CalmSteps, CalmLeads, LeadsOn, ClosedFour, Zenon

\* The plan of a site is plain.
LEMMA ServePlain ==
  Plain(<<"put", "serve">>)
<1>1. <<"put", "serve">> \in Seq(Ordinary)
  BY DEF Ordinary
<1> QED BY <1>1, PlainIs, CalmSteps, CalmLeads, LeadsOn, ClosedTwo, Zenon

\* The plan of a site from an archive is plain.
LEMMA ArchivePlain ==
  Plain(<<"archive">>)
<1>1. <<"archive">> \in Seq(Ordinary)
  BY DEF Ordinary
<1> QED BY <1>1, PlainIs, CalmSteps, CalmLeads, LeadsOn, ClosedOne, Zenon

\* The plan of a site of the archives is plain.
LEMMA ExtractPlain ==
  Plain(<<"extract", "serve">>)
<1>1. <<"extract", "serve">> \in Seq(Ordinary)
  BY DEF Ordinary
<1> QED BY <1>1, PlainIs, CalmSteps, CalmLeads, LeadsOn, ClosedTwo, Zenon

\* The plan of a tap is plain.
LEMMA TapPlain ==
  Plain(<<"accept", "act">>)
<1>1. <<"accept", "act">> \in Seq(Ordinary)
  BY DEF Ordinary
<1> QED BY <1>1, PlainIs, CalmSteps, CalmLeads, LeadsOn, ClosedTwo, Zenon

\* The plan of a text is plain.
LEMMA TypePlain ==
  Plain(<<"act">>)
<1>1. <<"act">> \in Seq(Ordinary)
  BY DEF Ordinary
<1> QED BY <1>1, PlainIs, CalmSteps, CalmLeads, LeadsOn, ClosedOne, Zenon

\* A stored connection.
LEMMA StoredIs ==
  Plain(Stored)
  BY StorePlain DEF Stored

\* A served site.
LEMMA ServedIs ==
  Plain(Served)
  BY ServePlain DEF Served

\* The plan of a test is plain.
LEMMA TrialPlain ==
  Plain(Trial)
<1>1. Trial \in Seq(Ordinary)
  BY DEF Ordinary, Trial
<1> QED BY <1>1, TrialClosed, PlainIs

\* Pieces of plans that are closed.
LEMMA TailsClosed ==
  /\ Closed(<<"load">>) /\ Closed(<<"env">>) /\ Closed(<<"absent">>) /\ Closed(<<"describe">>) /\ Closed(<<"seek">>)
  /\ Closed(<<"save", "try">>)
<1>1. Closed(<<"load">>) /\ Closed(<<"env">>) /\ Closed(<<"absent">>) /\ Closed(<<"describe">>) /\ Closed(<<"seek">>)
  BY CalmSteps, ClosedOne, Zenon
<1>2. Closed(<<"save", "try">>)
  BY CalmSteps, LeadsOn, ClosedTwo, Zenon
<1> QED BY <1>1, <1>2

\* Pieces of plans are sequences of steps.
LEMMA TailsIn ==
  /\ <<"load">> \in Seq(Names) /\ <<"env">> \in Seq(Names) /\ <<"absent">> \in Seq(Names) /\ <<"describe">> \in Seq(Names)
  /\ <<"seek">> \in Seq(Names) /\ <<"save", "try">> \in Seq(Names) /\ <<"load", "save", "try">> \in Seq(Names)
  /\ <<"load", "save", "try", "rows">> \in Seq(Names) /\ <<"load", "save", "try", "record">> \in Seq(Names)
  /\ Trial \in Seq(Names) /\ Stored \in Seq(Names) /\ Served \in Seq(Names)
<1>1. /\ <<"load">> \in Seq(Ordinary) /\ <<"env">> \in Seq(Ordinary) /\ <<"absent">> \in Seq(Ordinary)
      /\ <<"describe">> \in Seq(Ordinary) /\ <<"seek">> \in Seq(Ordinary) /\ <<"save", "try">> \in Seq(Ordinary)
      /\ <<"load", "save", "try">> \in Seq(Ordinary) /\ <<"load", "save", "try", "rows">> \in Seq(Ordinary)
      /\ <<"load", "save", "try", "record">> \in Seq(Ordinary)
  BY DEF Ordinary
<1>2. Trial \in Seq(Ordinary) /\ Stored \in Seq(Ordinary) /\ Served \in Seq(Ordinary)
  BY DEF Ordinary, Trial, Stored, Served
<1>3. Ordinary \subseteq Names
  BY DEF Ordinary, Names, Uses, Others, KeptSteps, RowsSteps
<1> QED BY <1>1, <1>2, <1>3, SeqIn, Zenon

\* The plan of a new WARP is plain.
LEMMA CreatePlain ==
  Plain(Trial \o <<"load", "save", "try">>)
<1>1. Closed(Trial \o <<"load", "save", "try">>)
  BY TrialPlain, BarePlain, TailsIn, ClosedConcat DEF Plain
<1>2. Trial \o <<"load", "save", "try">> \in Seq(Ordinary)
  BY DEF Ordinary, Trial
<1> QED BY <1>1, <1>2, PlainIs

\* The plan of WARP enabled is plain.
LEMMA EnablePlain ==
  Plain(<<"load">> \o Trial \o <<"save", "try">>)
<1>1. Closed(<<"load">> \o Trial \o <<"save", "try">>)
  <2>1. Closed(<<"load">> \o Trial) /\ <<"load">> \o Trial \in Seq(Names)
    BY TrialPlain, TailsIn, TailsClosed, ClosedConcat, ConcatIn DEF Plain
  <2> QED BY <2>1, TailsIn, TailsClosed, ClosedConcat
<1>2. <<"load">> \o Trial \o <<"save", "try">> \in Seq(Ordinary)
  BY DEF Ordinary, Trial
<1> QED BY <1>1, <1>2, PlainIs

\* The plan of WARP disabled is plain.
LEMMA DisablePlain ==
  Plain(<<"load", "save", "try", "rows">> \o Trial)
<1>1. Closed(<<"load", "save", "try", "rows">> \o Trial)
  BY TrialPlain, RowsPlain, TailsIn, ClosedConcat DEF Plain
<1>2. <<"load", "save", "try", "rows">> \o Trial \in Seq(Ordinary)
  BY DEF Ordinary, Trial
<1> QED BY <1>1, <1>2, PlainIs

\* The plan of a connection server.env tells of is plain.
LEMMA DescribedPlain ==
  Plain(Stored \o <<"env">>)
<1>1. Closed(Stored \o <<"env">>)
  BY StoredIs, TailsIn, TailsClosed, ClosedConcat DEF Plain
<1>2. Stored \o <<"env">> \in Seq(Ordinary)
  BY DEF Ordinary, Stored
<1> QED BY <1>1, <1>2, PlainIs

\* The plan of a connection and its site is plain.
LEMMA TrojanPlain ==
  Plain(Stored \o Served)
<1>1. Closed(Stored \o Served)
  BY StoredIs, ServedIs, TailsIn, ClosedConcat DEF Plain
<1>2. Stored \o Served \in Seq(Ordinary)
  BY DEF Ordinary, Stored, Served
<1> QED BY <1>1, <1>2, PlainIs

\* The plan of a connection behind a site of its own is plain.
LEMMA BehindPlain ==
  Plain(Stored \o (<<"absent">> \o Served))
<1>1. Closed(Stored \o (<<"absent">> \o Served))
  <2>1. Closed(<<"absent">> \o Served) /\ <<"absent">> \o Served \in Seq(Names)
    BY ServedIs, TailsIn, TailsClosed, ClosedConcat, ConcatIn DEF Plain
  <2> QED BY <2>1, StoredIs, TailsIn, ClosedConcat DEF Plain
<1>2. Stored \o (<<"absent">> \o Served) \in Seq(Ordinary)
  BY DEF Ordinary, Stored, Served
<1> QED BY <1>1, <1>2, PlainIs

\* The plan of a Reality connection from the menus, and server.env is plain.
LEMMA MenuPlain ==
  Plain(<<"load", "save", "try", "record">> \o <<"describe">>)
<1>1. Closed(<<"load", "save", "try", "record">> \o <<"describe">>)
  BY RecordPlain, TailsIn, TailsClosed, ClosedConcat DEF Plain
<1>2. <<"load", "save", "try", "record">> \o <<"describe">> \in Seq(Ordinary)
  BY DEF Ordinary
<1> QED BY <1>1, <1>2, PlainIs

\* The plan of a switched transport is plain.
LEMMA SwitchPlain ==
  Plain(<<"seek">> \o Served)
<1>1. Closed(<<"seek">> \o Served)
  BY ServedIs, TailsIn, TailsClosed, ClosedConcat DEF Plain
<1>2. <<"seek">> \o Served \in Seq(Ordinary)
  BY DEF Ordinary, Served
<1> QED BY <1>1, <1>2, PlainIs

-----------------------------------------------------------------------------
\* The plans of the upkeep and of the SSH items, and what their failures lead to.
BackPlans(plan, back) == Closed(plan) /\ Closed(back) /\ \A k : k.plan = plan /\ k.back = back => BackOn(k)

\* A closed plan whose failure has nothing to take back.
LEMMA NoBack ==
  ASSUME NEW plan, Closed(plan)
  PROVE  BackPlans(plan, <<>>)
  BY ClosedEnd DEF BackPlans, BackOn

\* A plain plan, whatever closed plan its failure leads to.
LEMMA BackPlain ==
  ASSUME NEW plan, Plain(plan), NEW back, Closed(back)
  PROVE  BackPlans(plan, back)
<1>1. ~Left(plan, PlaceSteps) /\ ~Left(plan, {"place bin", "place geo", "restart"}) /\ ~Left(plan, SshSteps)
  BY DEF Plain, Left, Spots
<1>2. \A k : k.plan = plan /\ k.back = back => BackOn(k)
  BY <1>1, Zenon DEF BackOn
<1> QED BY <1>2 DEF BackPlans, Plain

\* The plan of a backup is plain.
LEMMA BackupPlain ==
  Plain(<<"read files", "read db">>)
<1> DEFINE S == {"read files", "read db"}
<1>1. Closed(<<"read files", "read db">>)
  BY CalmSpaced, CalmLeads, ClosedTwo, Zenon
<1>2. <<"read files", "read db">> \in Seq(S)
  OBVIOUS
<1>3. S \intersect Spots = {}
  BY DEF Spots, PlaceSteps, SshSteps
<1> HIDE DEF S
<1>4. ~Left(<<"read files", "read db">>, Spots)
  BY <1>2, <1>3, SpotsAway, Zenon
<1> QED BY <1>1, <1>4, Zenon DEF Plain

\* A plan of seven steps.
LEMMA ClosedSeven ==
  ASSUME NEW a, NEW b, NEW c, NEW d, NEW e, NEW f, NEW g,
         HandsOn(a, b), HandsOn(b, c), HandsOn(c, d), HandsOn(d, e), HandsOn(e, f), HandsOn(f, g), Calm(g)
  PROVE  Closed(<<a, b, c, d, e, f, g>>)
<1> DEFINE x == <<a, b, c, d, e, f, g>>
<1>1. DOMAIN x = 1 .. 7 /\ x[1] = a /\ x[2] = b /\ x[3] = c /\ x[4] = d /\ x[5] = e /\ x[6] = f /\ x[7] = g
  OBVIOUS
<1> HIDE DEF x
<1>2. \A k \in 1 .. 7 : k = 1 \/ k = 2 \/ k = 3 \/ k = 4 \/ k = 5 \/ k = 6 \/ k = 7
  OBVIOUS
<1>3. /\ 1 + 1 = 2 /\ 2 + 1 = 3 /\ 3 + 1 = 4 /\ 4 + 1 = 5 /\ 5 + 1 = 6 /\ 6 + 1 = 7 /\ 7 + 1 \notin 1 .. 7
      /\ 2 \in 1 .. 7 /\ 3 \in 1 .. 7 /\ 4 \in 1 .. 7 /\ 5 \in 1 .. 7 /\ 6 \in 1 .. 7 /\ 7 \in 1 .. 7
  OBVIOUS
<1>4. Closed(x)
  BY <1>1, <1>2, <1>3 DEF Closed
<1> QED BY <1>4 DEF x

\* The steps of a restore, each due to make follow what the one before let stray.
LEMMA PlacingLeads ==
  /\ HandsOn("place config", "place env") /\ HandsOn("place env", "place db") /\ HandsOn("place db", "place sites")
  /\ HandsOn("place sites", "serve sites") /\ HandsOn("serve sites", "start") /\ HandsOn("start", "resume")
  /\ HandsOn("halt", "copy server") /\ HandsOn("copy server", "place config")
  BY DEF HandsOn, Services, Strays, Due, OnTheWay

\* How a plan of seven begins.
LEMMA HeadOfSeven ==
  \A x, a, b, c, d, e, f, g : x = <<a, b, c, d, e, f, g>> => Head(x) = a /\ x # <<>>
  OBVIOUS

\* How a plan begins after a step is put before it.
LEMMA HeadAfter ==
  ASSUME NEW a \in Names, NEW plan \in Seq(Names)
  PROVE  <<a>> \o plan # <<>> /\ Head(<<a>> \o plan) = a /\ <<a>> \o plan \in Seq(Names)
  OBVIOUS

\* Two steps put before a plan, one by one.
LEMMA TwoByTwo ==
  ASSUME NEW a \in Names, NEW b \in Names, NEW plan \in Seq(Names)
  PROVE  <<a, b>> \o plan = <<a>> \o (<<b>> \o plan)
<1> DEFINE x == <<a, b>> \o plan
           y == <<a>> \o (<<b>> \o plan)
<1>1. Len(x) = Len(y) /\ x \in Seq(Names) /\ y \in Seq(Names) /\ Len(x) = Len(plan) + 2 /\ Len(plan) \in Nat
  OBVIOUS
<1>2. x[1] = a /\ y[1] = a /\ x[2] = b /\ y[2] = b
  OBVIOUS
<1>3. \A i \in 3 .. Len(plan) + 2 : x[i] = plan[i - 2] /\ y[i] = plan[i - 2]
  OBVIOUS
<1> HIDE DEF x, y
<1>4. \A i \in 1 .. Len(x) : x[i] = y[i]
  BY <1>1, <1>2, <1>3
<1>5. x = y
  BY <1>1, <1>4, SeqEqual, Zenon
<1> QED BY <1>5 DEF x, y

\* Placing an archive ends with every service on it.
LEMMA PlacingClosed ==
  Closed(Placing) /\ Placing # <<>> /\ Head(Placing) = "place config"
<1>1. Closed(<<"place config", "place env", "place db", "place sites", "serve sites", "start", "resume">>)
  BY PlacingLeads, CalmSpaced, ClosedSeven, Zenon
<1>2. Closed(Placing)
  BY <1>1, Zenon DEF Placing
<1>3. \A x : x = <<"place config", "place env", "place db", "place sites", "serve sites", "start", "resume">> => Head(x) = "place config" /\ x # <<>>
  BY HeadOfSeven, Zenon
<1>4. Placing = <<"place config", "place env", "place db", "place sites", "serve sites", "start", "resume">>
  BY Zenon DEF Placing
<1>5. Head(Placing) = "place config" /\ Placing # <<>>
  BY <1>3, <1>4, Zenon
<1> QED BY <1>2, <1>5, Zenon

\* A restore, and the restore of the copy when it fails.
LEMMA RestorePlans ==
  /\ BackPlans(<<"halt", "copy server">> \o Placing, Placing)
  /\ EntersFirst(<<"halt", "copy server">> \o Placing)
<1> DEFINE plan == <<"halt", "copy server">> \o Placing
           half == <<"copy server">> \o Placing
           S == {"halt", "copy server", "resume"} \union PlaceSteps
<1>1. Placing \in Seq(Names) /\ Placing \in Seq(PlaceSteps \union {"resume"})
  BY PlacingIs, Zenon
<1>2. "halt" \in Names /\ "copy server" \in Names
  BY DEF Names, Uses, Others
<1>3. plan = <<"halt">> \o half
  BY <1>1, <1>2, TwoByTwo, Zenon
<1>4. half # <<>> /\ Head(half) = "copy server" /\ half \in Seq(Names)
  BY <1>1, <1>2, HeadAfter, Zenon
<1>5. Closed(half)
  BY <1>1, <1>2, PlacingClosed, PlacingLeads, ClosedCons, Zenon
<1>6. Closed(<<"halt">> \o half)
  BY <1>2, <1>4, <1>5, PlacingLeads, ClosedCons, Zenon
<1>7. <<"halt">> \o half # <<>> /\ Head(<<"halt">> \o half) = "halt"
  BY <1>2, <1>4, HeadAfter, Zenon
<1>8. plan \in Seq(S)
  <2>1. <<"halt", "copy server">> \in Seq({"halt", "copy server"})
    BY SMT
  <2>2. {"halt", "copy server"} \subseteq S /\ PlaceSteps \union {"resume"} \subseteq S
    OBVIOUS
  <2> HIDE DEF S
  <2>3. <<"halt", "copy server">> \in Seq(S) /\ Placing \in Seq(S)
    BY <1>1, <2>1, <2>2, SeqIn, Zenon
  <2> QED BY <2>3, ConcatIn, Zenon
<1>9. S \intersect {"place bin", "place geo", "restart"} = {} /\ S \intersect SshSteps = {}
  BY DEF SshSteps, PlaceSteps
<1>10. ~Left(plan, {"place bin", "place geo", "restart"}) /\ ~Left(plan, SshSteps)
  <2> HIDE DEF plan, S
  <2> QED BY <1>8, <1>9, Away, Zenon
<1>11. \A k : k.plan = plan /\ k.back = Placing => BackOn(k)
  BY <1>10, PlacingClosed, Zenon DEF BackOn
<1>12. Closed(plan) /\ plan # <<>> /\ Head(plan) = "halt"
  BY <1>3, <1>6, <1>7, Zenon
<1> HIDE DEF plan
<1>13. Closed(Placing)
  BY PlacingClosed, Zenon
<1>14. BackPlans(plan, Placing)
  BY <1>11, <1>12, <1>13, Zenon DEF BackPlans
<1>15. EntersFirst(plan)
  BY <1>12, Zenon DEF EntersFirst, Entries
<1> QED BY <1>14, <1>15 DEF plan

\* The parts of Xray, and the restart.
LEMMA PartLeads ==
  /\ HandsOn("place bin", "place geo") /\ HandsOn("place geo", "restart")
  BY DEF HandsOn, Services, Strays, Due, OnTheWay

\* The updates of Xray end with the restart.
LEMMA UpdatesClosed ==
  /\ Closed(<<"ready", "fetch", "keep", "place bin", "place geo", "restart">>)
  /\ Closed(<<"place bin", "place geo", "restart">>)
  /\ Closed(<<"fetch", "set aside", "place geo", "restart">>)
  /\ Closed(<<"place geo", "restart">>)
<1>1. Closed(<<"ready", "fetch", "keep", "place bin", "place geo", "restart">>)
  BY PartLeads, CalmSteps, CalmSpaced, CalmLeads, ClosedSix, Zenon
<1>2. Closed(<<"place bin", "place geo", "restart">>)
  BY PartLeads, CalmSpaced, ClosedThree, Zenon
<1>3. Closed(<<"fetch", "set aside", "place geo", "restart">>)
  BY PartLeads, CalmSteps, CalmSpaced, CalmLeads, ClosedFour, Zenon
<1>4. Closed(<<"place geo", "restart">>)
  BY PartLeads, CalmSpaced, ClosedTwo, Zenon
<1> QED BY <1>1, <1>2, <1>3, <1>4, Zenon

\* The steps of an update of Xray.
LEMMA UpdatePlans ==
  ASSUME NEW plan \in Seq({"ready", "fetch", "keep", "set aside", "place bin", "place geo", "restart"}), Closed(plan),
         NEW back, Closed(back), Head(back) \in {"place bin", "place geo"}
  PROVE  BackPlans(plan, back)
<1> DEFINE S == {"ready", "fetch", "keep", "set aside", "place bin", "place geo", "restart"}
<1>1. S \intersect PlaceSteps = {} /\ S \intersect SshSteps = {}
  BY DEF PlaceSteps, SshSteps
<1> HIDE DEF S
<1>2. ~Left(plan, PlaceSteps) /\ ~Left(plan, SshSteps)
  BY <1>1, Away DEF S
<1>3. \A k : k.plan = plan /\ k.back = back => BackOn(k)
  BY <1>2, Zenon DEF BackOn
<1> QED BY <1>3 DEF BackPlans

\* The updates of Xray, and what their failure puts back.
LEMMA XrayPlans ==
  /\ BackPlans(<<"ready", "fetch", "keep", "place bin", "place geo", "restart">>, <<"place bin", "place geo", "restart">>)
  /\ BackPlans(<<"fetch", "set aside", "place geo", "restart">>, <<"place geo", "restart">>)
  /\ BackPlans(<<"place bin", "place geo", "restart">>, <<>>)
<1>1. /\ <<"ready", "fetch", "keep", "place bin", "place geo", "restart">> \in Seq({"ready", "fetch", "keep", "set aside", "place bin", "place geo", "restart"})
      /\ <<"fetch", "set aside", "place geo", "restart">> \in Seq({"ready", "fetch", "keep", "set aside", "place bin", "place geo", "restart"})
  BY SMT
<1>2. /\ \A x : x = <<"place bin", "place geo", "restart">> => Head(x) = "place bin"
      /\ \A x : x = <<"place geo", "restart">> => Head(x) = "place geo"
  BY HeadOfTwo, HeadOfThree, Zenon
<1>3. Head(<<"place bin", "place geo", "restart">>) = "place bin" /\ Head(<<"place geo", "restart">>) = "place geo"
  BY <1>2, Zenon
<1>6. "place bin" \in {"place bin", "place geo"} /\ "place geo" \in {"place bin", "place geo"}
  OBVIOUS
<1>7. Head(<<"place bin", "place geo", "restart">>) \in {"place bin", "place geo"} /\ Head(<<"place geo", "restart">>) \in {"place bin", "place geo"}
  BY <1>3, <1>6, Zenon
<1>4. BackPlans(<<"ready", "fetch", "keep", "place bin", "place geo", "restart">>, <<"place bin", "place geo", "restart">>)
  BY <1>1, <1>7, UpdatesClosed, UpdatePlans, Zenon
<1>5. BackPlans(<<"fetch", "set aside", "place geo", "restart">>, <<"place geo", "restart">>)
  BY <1>1, <1>7, UpdatesClosed, UpdatePlans, Zenon
<1>8. BackPlans(<<"place bin", "place geo", "restart">>, <<>>)
  BY UpdatesClosed, NoBack, Zenon
<1> QED BY <1>4, <1>5, <1>8, Zenon

\* The steps of an update of the manager.
ManagerSteps == {"obtain", "begin copy", "end copy", "choose", "place source", "place wrappers", "rename old", "rename new", "sync", "validate"}
\* A plan of them is plain.
LEMMA ManagerPlain ==
  ASSUME NEW plan \in Seq(ManagerSteps)
  PROVE  Plain(plan)
<1>1. \A h \in ManagerSteps : Calm(h)
  BY CalmSpaced DEF ManagerSteps
<1>2. ManagerSteps \intersect Spots = {}
  BY DEF ManagerSteps, Spots, PlaceSteps, SshSteps
<1> QED BY <1>1, <1>2, ClosedCalm, SpotsAway DEF Plain

\* The updates of the manager, and the install of the old one.
LEMMA ManagerPlans ==
  /\ BackPlans(<<"obtain", "begin copy", "end copy">> \o Install, Reinstall)
  /\ BackPlans(<<"choose">> \o Install, <<>>)
<1>1. Install \in Seq(ManagerSteps) /\ Reinstall \in Seq(ManagerSteps)
  BY DEF Install, Reinstall, ManagerSteps
<1>2. <<"obtain", "begin copy", "end copy">> \in Seq(ManagerSteps) /\ <<"choose">> \in Seq(ManagerSteps)
  BY DEF ManagerSteps
<1>3. <<"obtain", "begin copy", "end copy">> \o Install \in Seq(ManagerSteps) /\ <<"choose">> \o Install \in Seq(ManagerSteps)
  BY <1>1, <1>2, ConcatIn, Zenon
<1>4. Plain(<<"obtain", "begin copy", "end copy">> \o Install) /\ Plain(<<"choose">> \o Install) /\ Plain(Reinstall)
  BY <1>1, <1>3, ManagerPlain, Zenon
<1>5. BackPlans(<<"obtain", "begin copy", "end copy">> \o Install, Reinstall)
  BY <1>4, BackPlain, Zenon DEF Plain
<1>6. BackPlans(<<"choose">> \o Install, <<>>)
  BY <1>4, NoBack, Zenon DEF Plain
<1> QED BY <1>5, <1>6, Zenon

\* The edits of the SSH login, and sshd on them.
LEMMA SshLeads ==
  /\ HandsOn("dropin", "include") /\ HandsOn("include", "legacy") /\ HandsOn("include", "dropin") /\ HandsOn("dropin", "legacy")
  /\ HandsOn("legacy", "ask sshd") /\ HandsOn("ask sshd", "reload sshd")
  /\ HandsOn("back include", "back dropin") /\ HandsOn("back dropin", "back legacy") /\ HandsOn("back legacy", "reload old")
  BY DEF HandsOn, Services, Strays, Due, OnTheWay

\* Three steps and one.
LEMMA JoinOne ==
  ASSUME NEW a, NEW b, NEW c, NEW d
  PROVE  <<a, b, c>> \o <<d>> = <<a, b, c, d>>
<1> DEFINE x == <<a, b, c>> \o <<d>>
           y == <<a, b, c, d>>
           S == {a, b, c, d}
<1>1. x \in Seq(S) /\ y \in Seq(S) /\ Len(x) = 4 /\ Len(y) = 4
  OBVIOUS
<1>2. x[1] = a /\ x[2] = b /\ x[3] = c /\ x[4] = d
  OBVIOUS
<1>3. y[1] = a /\ y[2] = b /\ y[3] = c /\ y[4] = d
  OBVIOUS
<1> HIDE DEF x, y, S
<1>4. \A i \in 1 .. 4 : i = 1 \/ i = 2 \/ i = 3 \/ i = 4
  OBVIOUS
<1>5. \A i \in 1 .. Len(x) : x[i] = y[i]
  BY <1>1, <1>2, <1>3, <1>4
<1>6. x = y
  BY <1>1, <1>5, SeqEqual
<1> QED BY <1>6 DEF x, y

\* Three steps and two.
LEMMA JoinTwo ==
  ASSUME NEW a, NEW b, NEW c, NEW d, NEW e
  PROVE  <<a, b, c>> \o <<d, e>> = <<a, b, c, d, e>>
<1> DEFINE x == <<a, b, c>> \o <<d, e>>
           y == <<a, b, c, d, e>>
           S == {a, b, c, d, e}
<1>1. x \in Seq(S) /\ y \in Seq(S) /\ Len(x) = 5 /\ Len(y) = 5
  OBVIOUS
<1>2. x[1] = a /\ x[2] = b /\ x[3] = c /\ x[4] = d /\ x[5] = e
  OBVIOUS
<1>3. y[1] = a /\ y[2] = b /\ y[3] = c /\ y[4] = d /\ y[5] = e
  OBVIOUS
<1> HIDE DEF x, y, S
<1>4. \A i \in 1 .. 5 : i = 1 \/ i = 2 \/ i = 3 \/ i = 4 \/ i = 5
  OBVIOUS
<1>5. \A i \in 1 .. Len(x) : x[i] = y[i]
  BY <1>1, <1>2, <1>3, <1>4
<1>6. x = y
  BY <1>1, <1>5, SeqEqual
<1> QED BY <1>6 DEF x, y

\* Five steps in a row, after one that lets nothing stray.
LEMMA SshClosed ==
  ASSUME NEW a \in Names, NEW b \in Names, NEW c \in Names, NEW d \in Names, NEW f \in Names, NEW g \in Names,
         NEW e, e = <<b, c, d>>,
         Calm(a), HandsOn(b, c), HandsOn(c, d), HandsOn(d, f), HandsOn(f, g), Calm(g)
  PROVE  Closed((<<a>> \o e) \o <<f, g>>)
<1>1. (<<a>> \o e) \o <<f, g>> = <<a>> \o <<b, c, d, f, g>>
  <2>1. <<a>> \in Seq(Names) /\ e \in Seq(Names) /\ <<f, g>> \in Seq(Names)
    OBVIOUS
  <2>2. (<<a>> \o e) \o <<f, g>> = <<a>> \o (e \o <<f, g>>)
    BY <2>1, ConcatAssociative
  <2>3. e \o <<f, g>> = <<b, c, d, f, g>>
    BY JoinTwo
  <2> QED BY <2>2, <2>3
<1>2. <<a>> \in Seq(Names) /\ <<b, c, d, f, g>> \in Seq(Names)
  OBVIOUS
<1>3. Closed(<<a>>) /\ Closed(<<b, c, d, f, g>>)
  BY ClosedOne, ClosedFive, Zenon
<1>4. Closed(<<a>> \o <<b, c, d, f, g>>)
  BY <1>2, <1>3, ClosedConcat
<1> QED BY <1>1, <1>4

\* A switch of the SSH login, and what its failure puts back.
LEMMA SshPlans ==
  ASSUME NEW op
  PROVE  BackPlans((<<"texts">> \o Edits(op)) \o <<"ask sshd", "reload sshd">>, PutBacks \o <<"reload old">>)
<1> DEFINE plan == (<<"texts">> \o Edits(op)) \o <<"ask sshd", "reload sshd">>
           back == <<"back include", "back dropin", "back legacy", "reload old">>
           S == {"texts"} \union SshSteps
<1>1. Closed(back)
  BY SshLeads, CalmSpaced, ClosedFour, Zenon
<1>2. \A x : x = back => Head(x) = "back include"
  BY HeadOfFour, Zenon
<1>3. PutBacks \o <<"reload old">> = back
  BY JoinOne, Zenon DEF PutBacks
<1>4. Edits(op) = <<"dropin", "include", "legacy">> \/ Edits(op) = <<"include", "dropin", "legacy">>
  BY Zenon DEF Edits
<1>5. Closed(plan)
  <2>1. SshSteps \union {"texts"} \subseteq Names
    BY DEF SshSteps, Names, Others, KeptSteps
  <2>2. /\ "texts" \in Names /\ "dropin" \in Names /\ "include" \in Names /\ "legacy" \in Names /\ "ask sshd" \in Names
        /\ "reload sshd" \in Names
    BY <2>1 DEF SshSteps
  <2>3. CASE Edits(op) = <<"dropin", "include", "legacy">>
    BY <2>2, <2>3, SshLeads, CalmSpaced, SshClosed, Zenon
  <2>4. CASE Edits(op) = <<"include", "dropin", "legacy">>
    BY <2>2, <2>4, SshLeads, CalmSpaced, SshClosed, Zenon
  <2> QED BY <1>4, <2>3, <2>4, Zenon
<1>6. plan \in Seq(S)
  <2>1. /\ <<"dropin", "include", "legacy">> \in Seq(S) /\ <<"include", "dropin", "legacy">> \in Seq(S)
        /\ <<"texts">> \in Seq(S) /\ <<"ask sshd", "reload sshd">> \in Seq(S)
    BY SMT DEF SshSteps
  <2> HIDE DEF S
  <2>2. Edits(op) \in Seq(S)
    BY <1>4, <2>1, Zenon
  <2> QED BY <2>1, <2>2, ConcatIn, Zenon
<1>7. S \intersect PlaceSteps = {} /\ S \intersect {"place bin", "place geo", "restart"} = {}
  BY DEF SshSteps, PlaceSteps
<1> HIDE DEF S, plan, back
<1>8. ~Left(plan, PlaceSteps) /\ ~Left(plan, {"place bin", "place geo", "restart"})
  BY <1>6, <1>7, Away, Zenon
<1>9. \A k : k.plan = plan /\ k.back = back => BackOn(k)
  BY <1>2, <1>8, Zenon DEF BackOn
<1>10. BackPlans(plan, back)
  BY <1>1, <1>5, <1>9, Zenon DEF BackPlans
<1> QED BY <1>3, <1>10, Zenon DEF plan

-----------------------------------------------------------------------------
(***************************************************************************)
(* Every step, and the theorems.                                           *)
(***************************************************************************)
-----------------------------------------------------------------------------
\* A command that begins lets nothing stray.
Opening(p) == \E k : Opens(k) /\ Begin(p, k)

\* A command that begins leaves no service behind.
LEMMA OpeningOn ==
  ASSUME VInv, FInv, NEW p \in Procs, Opening(p), UNCHANGED <<caddy, sites, units, sshVars>>
  PROVE  FInv'
<1>1. PICK k : Opens(k) /\ Begin(p, k)
  BY DEF Opening
<1>2. ~Busy(p) /\ job' = [job EXCEPT ![p] = k] /\ UNCHANGED <<lock, torn, config, xray>>
  BY <1>1 DEF Begin, files, fate
<1>3. Untouched
  BY <1>2 DEF Untouched, sshVars
<1> QED BY <1>1, <1>2, <1>3, UntouchedStill, OpensOnward

\* What a job must be to begin.
LEMMA OpensIf ==
  ASSUME NEW op, op # "none", NEW arg, NEW plan, NEW k, k.op = op, k.in = FALSE, k.plan = plan, BackPlans(plan, k.back),
         k.locked => EntersFirst(plan)
  PROVE  Opens(k)
<1>1. PlanOn(k)
  BY DEF BackPlans, PlanOn
<1>2. k.locked => k.plan # <<>> /\ Head(k.plan) \in Entries
  BY DEF EntersFirst
<1> QED BY <1>1, <1>2 DEF Opens

\* A plain plan, with the config undone when it fails.
LEMMA RollsBackPlans ==
  ASSUME NEW plan, Plain(plan)
  PROVE  BackPlans(plan, Rolls)
  BY RollsClosed, BackPlain DEF Rolls

\* A command outside the lock.
LEMMA UnlockedIs ==
  ASSUME NEW op, NEW arg, NEW plan
  PROVE  Unlocked(op, arg, plan).locked = FALSE
<1>1. DOMAIN Command(op, arg, plan) = Fields
  BY CommandIs DEF Made
<1> QED BY <1>1 DEF Unlocked, Fields

\* A command with a plain plan begins.
LEMMA CommandOpens ==
  ASSUME NEW op, op # "none", NEW arg, NEW plan, Plain(plan)
  PROVE  Opens(Unlocked(op, arg, plan)) /\ (EntersFirst(plan) => Opens(Command(op, arg, plan)))
<1>1. Made(Command(op, arg, plan), op, arg, plan) /\ Made(Unlocked(op, arg, plan), op, arg, plan)
  BY CommandIs
<1>2. BackPlans(plan, Rolls)
  BY RollsBackPlans
<1>3. \A c : Made(c, op, arg, plan) /\ (c.locked => EntersFirst(plan)) => Opens(c)
  BY <1>2, OpensIf DEF Made
<1>4. Unlocked(op, arg, plan).locked = FALSE
  BY UnlockedIs
<1> QED BY <1>1, <1>3, <1>4

\* A command with plans of its own for its failure begins.
LEMMA UpkeepOpens ==
  ASSUME NEW op, op # "none", NEW arg, NEW plan, NEW back, BackPlans(plan, back), NEW kept
  PROVE  /\ Opens([Unlocked(op, arg, plan) EXCEPT !.back = back])
         /\ Opens([Unlocked(op, arg, plan) EXCEPT !.back = back, !.kept = kept])
         /\ EntersFirst(plan) => Opens([Command(op, arg, plan) EXCEPT !.back = back])
<1> DEFINE c == Unlocked(op, arg, plan)
           e == Command(op, arg, plan)
<1>1. Made(e, op, arg, plan) /\ Made(c, op, arg, plan) /\ c.locked = FALSE
  BY CommandIs, UnlockedIs
<1> HIDE DEF c, e
<1> DEFINE d == [c EXCEPT !.back = back]
           f == [c EXCEPT !.back = back, !.kept = kept]
           g == [e EXCEPT !.back = back]
<1>2. d.op = op /\ d.in = FALSE /\ d.plan = plan /\ d.back = back /\ d.locked = FALSE
  BY <1>1 DEF Made, Fields
<1>3. f.op = op /\ f.in = FALSE /\ f.plan = plan /\ f.back = back /\ f.locked = FALSE
  BY <1>1 DEF Made, Fields
<1>4. g.op = op /\ g.in = FALSE /\ g.plan = plan /\ g.back = back
  BY <1>1 DEF Made, Fields
<1> HIDE DEF d, f, g
<1>5. Opens(d) /\ Opens(f) /\ (EntersFirst(plan) => Opens(g))
  BY <1>2, <1>3, <1>4, OpensIf
<1> QED BY <1>5 DEF d, f, g, c, e

\* The plans of the commands that take the lock start with the step that takes it.
LEMMA LiteralsEnter ==
  /\ EntersFirst(<<"load", "save", "try", "rows">>) /\ EntersFirst(<<"load", "save", "try">>) /\ EntersFirst(<<"load", "save", "try", "rows", "env">>)
  /\ EntersFirst(<<"load", "save", "try", "record">>)
  BY DEF EntersFirst, Entries

\* Trials begin with the step that takes the lock.
LEMMA TrialEnters ==
  /\ EntersFirst(Trial) /\ EntersFirst(Trial \o <<"load", "save", "try">>) /\ EntersFirst(<<"load">> \o Trial \o <<"save", "try">>)
  /\ EntersFirst(<<"load", "save", "try", "rows">> \o Trial)
  BY DEF EntersFirst, Entries, Trial

\* So do stored connections.
LEMMA StoredEnters ==
  /\ EntersFirst(Stored) /\ EntersFirst(Stored \o <<"env">>) /\ EntersFirst(Stored \o Served) /\ EntersFirst(Stored \o (<<"absent">> \o Served))
  /\ EntersFirst(<<"load", "save", "try", "record">> \o <<"describe">>)
  BY DEF EntersFirst, Entries, Stored, Served

\* The plans of the routes, each one to begin with.
LEMMA RoutePlans ==
  ASSUME NEW op, op # "none", NEW arg
  PROVE  /\ Opens(Command(op, arg, <<"load", "save", "try">>)) /\ Opens(Command(op, arg, <<"load", "save", "try", "rows">>))
         /\ Opens(Command(op, arg, <<"load", "save", "try", "rows", "env">>))
         /\ Opens(Command(op, arg, Trial)) /\ Opens(Command(op, arg, Trial \o <<"load", "save", "try">>))
         /\ Opens(Command(op, arg, <<"load">> \o Trial \o <<"save", "try">>))
         /\ Opens(Command(op, arg, <<"load", "save", "try", "rows">> \o Trial))
  BY BarePlain, RowsPlain, BypassPlain, TrialPlain, CreatePlain, EnablePlain, DisablePlain, LiteralsEnter, TrialEnters, CommandOpens

\* The plans of the connections.
LEMMA ConnectionPlans ==
  ASSUME NEW op, op # "none", NEW arg
  PROVE  /\ Opens(Command(op, arg, Stored)) /\ Opens(Command(op, arg, Stored \o <<"env">>))
         /\ Opens(Command(op, arg, Stored \o Served)) /\ Opens(Command(op, arg, Stored \o (<<"absent">> \o Served)))
         /\ Opens(Command(op, arg, <<"load", "save", "try", "record">>))
         /\ Opens(Command(op, arg, <<"load", "save", "try", "record">> \o <<"describe">>))
  BY StoredIs, DescribedPlain, TrojanPlain, BehindPlain, RecordPlain, MenuPlain, LiteralsEnter, StoredEnters, CommandOpens

\* The plans of commands outside the lock.
LEMMA FreePlans ==
  ASSUME NEW op, op # "none", NEW arg
  PROVE  /\ Opens(Unlocked(op, arg, <<"load", "save", "try">>)) /\ Opens(Unlocked(op, arg, <<"load", "save", "try", "env">>))
         /\ Opens(Unlocked(op, arg, <<"note", "read", "load", "save", "try">>))
         /\ Opens(Unlocked(op, arg, Served)) /\ Opens(Unlocked(op, arg, <<"seek">> \o Served))
         /\ Opens(Unlocked(op, arg, <<"archive">>)) /\ Opens(Unlocked(op, arg, <<"extract", "serve">>))
         /\ Opens(Unlocked(op, arg, <<"accept", "act">>)) /\ Opens(Unlocked(op, arg, <<"act">>))
  BY BarePlain, EnvPlain, BlockPlain, ServedIs, SwitchPlain, ArchivePlain, ExtractPlain, TapPlain, TypePlain, CommandOpens

\* The commands of the routes begin on plans that leave no service behind.
LEMMA RoutesOpen ==
  ASSUME NEW p \in Procs,
         Cascade(p) \/ TestCascade(p) \/ Warp(p) \/ TestWarp(p) \/ Bypass(p) \/ Menu(p) \/ Block(p)
  PROVE  Opening(p)
<1>1. CASE Cascade(p)
  BY <1>1, RoutePlans DEF Cascade, Opening
<1>2. CASE TestCascade(p) \/ TestWarp(p) \/ TestBypass(p)
  BY <1>2, RoutePlans DEF TestCascade, TestWarp, TestBypass, Opening
<1>3. CASE Warp(p)
  BY <1>3, RoutePlans DEF Warp, Opening
<1>4. ASSUME NEW op \in BypassOps, NEW tag, NEW r, AskBypass(p, op, tag, r) PROVE Opening(p)
  <2>1. op # "none"
    BY DEF BypassOps
  <2> QED BY <1>4, <2>1, RoutePlans DEF AskBypass, Opening
<1>5. CASE AddBypass(p) \/ EnableBypass(p) \/ MoveBypass(p) \/ DropBypass(p)
  BY <1>4, <1>5 DEF AddBypass, EnableBypass, MoveBypass, DropBypass, BypassOps
<1>6. CASE Menu(p) \/ Block(p)
  BY <1>6, FreePlans DEF Menu, Block, Opening
<1> QED BY <1>1, <1>2, <1>3, <1>5, <1>6 DEF Bypass

\* So do those of the connections and sites.
LEMMA ConnectionsOpen ==
  ASSUME NEW p \in Procs,
         \/ AddReality(p) \/ Transport(p) \/ RemoveConnection(p) \/ UpdateTrojan(p)
         \/ CreateSite(p) \/ SiteUpstream(p) \/ SiteTls(p) \/ SiteDomain(p) \/ DeleteSite(p)
         \/ CaddyBackups(p) \/ RandomTls(p)
  PROVE  Opening(p)
<1>1. CASE AddReality(p) \/ Transport(p) \/ RemoveConnection(p) \/ UpdateTrojan(p)
  BY <1>1, ConnectionPlans DEF AddReality, Transport, RemoveConnection, UpdateTrojan, Opening
<1>2. CASE CreateSite(p) \/ SiteUpstream(p) \/ SiteTls(p) \/ SiteDomain(p) \/ DeleteSite(p)
  BY <1>2, FreePlans DEF CreateSite, SiteUpstream, SiteTls, SiteDomain, DeleteSite, Opening
<1>3. CASE CaddyBackups(p) \/ RandomTls(p)
  BY <1>3, FreePlans DEF CaddyBackups, RandomTls, Opening
<1> QED BY <1>1, <1>2, <1>3

\* AddTrojan begins on plans that leave no service behind.
LEMMA AddTrojanOpens ==
  ASSUME NEW p \in Procs, AddTrojan(p)
  PROVE  Opening(p)
<1>1. PICK port \in Ports, look \in Looks, host \in Domains, behind \in BOOLEAN :
        Begin(p, Command("connection add", AskFront(port, look, host, behind),
                         Stored \o IF behind THEN <<"absent">> \o Served ELSE <<>>))
  BY DEF AddTrojan
<1>2. CASE behind
  <2>1. Begin(p, Command("connection add", AskFront(port, look, host, behind), Stored \o (<<"absent">> \o Served)))
    BY <1>1, <1>2
  <2> QED BY <2>1, ConnectionPlans DEF Opening
<1>3. CASE ~behind
  <2>1. Stored \o <<>> = Stored
    BY TailsIn, ConcatEmptySeq
  <2>2. Begin(p, Command("connection add", AskFront(port, look, host, behind), Stored))
    BY <1>1, <1>3, <2>1
  <2> QED BY <2>2, ConnectionPlans DEF Opening
<1> QED BY <1>2, <1>3

\* Reality begins on plans that leave no service behind.
LEMMA RealityOpens ==
  ASSUME NEW p \in Procs, Reality(p)
  PROVE  Opening(p)
<1>1. PICK tag \in Reals \intersect In(config), port \in Ports \union {Nothing}, look \in Looks \union {Nothing} :
        Begin(p, Command("menu reality", Ask(tag, port, look, Nothing),
                <<"load", "save", "try", "record">> \o IF tag = Default THEN <<"describe">> ELSE <<>>))
  BY DEF Reality
<1>2. CASE tag = Default
  <2>1. Begin(p, Command("menu reality", Ask(tag, port, look, Nothing), <<"load", "save", "try", "record">> \o <<"describe">>))
    BY <1>1, <1>2
  <2> QED BY <2>1, ConnectionPlans DEF Opening
<1>3. CASE tag # Default
  <2>1. <<"load", "save", "try", "record">> \o <<>> = <<"load", "save", "try", "record">>
    BY TailsIn, ConcatEmptySeq
  <2>2. Begin(p, Command("menu reality", Ask(tag, port, look, Nothing), <<"load", "save", "try", "record">>))
    BY <1>1, <1>3, <2>1
  <2> QED BY <2>2, ConnectionPlans DEF Opening
<1> QED BY <1>2, <1>3

\* Panel begins on plans that leave no service behind.
LEMMA PanelOpens ==
  ASSUME NEW p \in Procs, Tap(p) \/ Type(p)
  PROVE  Opening(p)
  BY FreePlans DEF Tap, Type, Update, Opening

\* Backups begins on plans that leave no service behind.
LEMMA BackupsOpens ==
  ASSUME NEW p \in Procs, Backups(p)
  PROVE  Opening(p)
<1>1. Opens(Unlocked("backup", Nothing, <<"read files", "read db">>))
  BY BackupPlain, CommandOpens, Zenon
<1>2. Opens([Command("restore", saved, <<"halt", "copy server">> \o Placing) EXCEPT !.back = Placing])
  BY RestorePlans, UpkeepOpens, Zenon
<1> QED BY <1>1, <1>2, Zenon DEF Backups, Opening

\* Updates begins on plans that leave no service behind.
LEMMA UpdatesOpens ==
  ASSUME NEW p \in Procs, UpdateXray(p) \/ UpdateAssets(p) \/ RollbackXray(p) \/ UpdateManager(p) \/ RollbackManager(p)
  PROVE  Opening(p)
<1>1. CASE UpdateXray(p)
  BY <1>1, XrayPlans, UpkeepOpens, Zenon DEF UpdateXray, Opening
<1>2. CASE UpdateAssets(p)
  BY <1>2, XrayPlans, UpkeepOpens, Zenon DEF UpdateAssets, Opening
<1>3. CASE RollbackXray(p)
  BY <1>3, XrayPlans, UpkeepOpens, Zenon DEF RollbackXray, Opening
<1>4. CASE UpdateManager(p)
  BY <1>4, ManagerPlans, UpkeepOpens, Zenon DEF UpdateManager, Opening
<1>5. CASE RollbackManager(p)
  BY <1>5, ManagerPlans, UpkeepOpens, Zenon DEF RollbackManager, Opening
<1> QED BY <1>1, <1>2, <1>3, <1>4, <1>5

\* Ssh begins on plans that leave no service behind.
LEMMA SshOpens ==
  ASSUME NEW p \in Procs, SshItem(p)
  PROVE  Opening(p)
<1>1. PICK op \in SshOps :
        Begin(p, [Unlocked(op, Wanted(op), <<"texts">> \o Edits(op) \o <<"ask sshd", "reload sshd">>)
                    EXCEPT !.back = PutBacks \o <<"reload old">>])
  BY DEF SshItem
<1>2. op # "none"
  BY DEF SshOps
<1> QED BY <1>1, <1>2, SshPlans, UpkeepOpens, Zenon DEF Opening

-----------------------------------------------------------------------------
\* The parts of the server.
LEMMA ReconcileOn ==
  ASSUME VInv, FInv, Reconcile, UNCHANGED <<caddy, sites, units, sshVars>>
  PROVE  FInv'
<1>1. \A arg : Opens(Unlocked("reconcile", arg, <<"read", "load", "save", "try">>))
  BY ReconcilePlain, CommandOpens
<1>2. /\ ~Busy(Timer) /\ UNCHANGED <<lock, torn, config, xray>>
      /\ job' = [job EXCEPT ![Timer] = Unlocked("reconcile", Nothing, <<"read", "load", "save", "try">>)]
  BY DEF Reconcile, files, fate
<1>3. Untouched
  BY <1>2 DEF Untouched, sshVars
<1>4. Timer \in Procs
  BY RoutingAssumption
<1> QED BY <1>1, <1>2, <1>3, <1>4, UntouchedStill, OpensOnward

\* Every step of the routes leaves no service behind.
LEMMA RoutingOn ==
  ASSUME VInv, FInv, RoutingNext, UNCHANGED <<caddy, sites, units, sshVars>>
  PROVE  FInv'
<1>1. OnlyXray
  BY DEF OnlyXray, sshVars
<1>2. ASSUME NEW p \in Procs, RoutingProgress(p) PROVE FInv'
  BY <1>1, <1>2, StepOn, LoadOn, ProbeOn, UnprobeOn, RowsEnvOn, NoteReadOn DEF RoutingProgress
<1>3. ASSUME NEW p \in Procs, Cascade(p) \/ TestCascade(p) \/ Warp(p) \/ TestWarp(p) \/ Bypass(p) \/ Menu(p) \/ Block(p)
      PROVE  FInv'
  <2>1. Opening(p)
    BY <1>3, RoutesOpen
  <2> QED BY <2>1, OpeningOn
<1>4. ASSUME NEW p \in Procs, Kill(p) \/ CutBack(p) PROVE FInv'
  BY <1>4, KillOn
<1>5. CASE Expire
  <2>1. UNCHANGED <<job, lock, torn>> /\ Untouched
    BY <1>5 DEF Expire, serverVars, files, fate, Untouched, sshVars
  <2> QED BY <2>1, Unmoved
<1>6. CASE Reconcile
  BY <1>6, ReconcileOn
<1> QED BY <1>2, <1>3, <1>4, <1>5, <1>6 DEF RoutingNext

\* Every step of the connections leaves no service behind.
LEMMA ConnectionsOn ==
  ASSUME VInv, FInv, ConnectionsNext, UNCHANGED <<upkeepVars, sshVars>>
  PROVE  FInv'
<1>1. UNCHANGED <<sshd, ssh, others, units>>
  BY DEF sshVars, upkeepVars
<1>2. ASSUME NEW p \in Procs, ConnectionsProgress(p) PROVE FInv'
  BY <1>1, <1>2, ConnectionStepOn
<1>3. ASSUME NEW p \in Procs, UNCHANGED connectionVars,
             \/ AddReality(p) \/ AddTrojan(p) \/ Transport(p) \/ RemoveConnection(p) \/ UpdateTrojan(p) \/ Reality(p)
             \/ CreateSite(p) \/ SiteUpstream(p) \/ SiteTls(p) \/ SiteDomain(p) \/ DeleteSite(p)
             \/ CaddyBackups(p) \/ RandomTls(p)
      PROVE  FInv'
  <2>1. Opening(p)
    BY <1>3, ConnectionsOpen, AddTrojanOpens, RealityOpens
  <2>2. UNCHANGED <<caddy, sites, units, sshVars>>
    BY <1>3 DEF connectionVars, upkeepVars
  <2> QED BY <2>1, <2>2, OpeningOn
<1> QED BY <1>2, <1>3 DEF ConnectionsNext

\* Every step of the upkeep leaves no service behind.
LEMMA UpkeepOn ==
  ASSUME VInv, FInv, UpkeepNext, UNCHANGED sshVars
  PROVE  FInv'
<1>1. NotSsh
  BY DEF sshVars, NotSsh
<1>2. ASSUME NEW p \in Procs, UpkeepProgress(p) PROVE FInv'
  BY <1>1, <1>2, UpkeepStepOn
<1>3. ASSUME NEW p \in Procs, UNCHANGED <<connectionVars, upkeepVars>>,
             Backups(p) \/ UpdateXray(p) \/ UpdateAssets(p) \/ RollbackXray(p) \/ UpdateManager(p) \/ RollbackManager(p)
      PROVE  FInv'
  <2>1. Opening(p)
    BY <1>3, BackupsOpens, UpdatesOpens
  <2>2. UNCHANGED <<caddy, sites, units, sshVars>>
    BY <1>3 DEF connectionVars, upkeepVars
  <2> QED BY <2>1, <2>2, OpeningOn
<1> QED BY <1>2, <1>3 DEF UpkeepNext

\* Every step of the owner's panel leaves no service behind.
LEMMA PanelOn ==
  ASSUME VInv, FInv, PanelNext, UNCHANGED <<caddy, sites, units, sshVars>>
  PROVE  FInv'
<1>1. CASE Elsewhere
  <2>1. UNCHANGED <<job, lock, torn>> /\ Untouched
    BY <1>1 DEF Elsewhere, files, fate, Untouched, sshVars
  <2> QED BY <2>1, Unmoved
<1>2. ASSUME NEW p \in Procs, Tap(p) \/ Type(p) PROVE FInv'
  <2>1. Opening(p)
    BY <1>2, PanelOpens
  <2> QED BY <2>1, OpeningOn
<1>3. ASSUME NEW p \in Procs, Accept(p) \/ Act(p) \/ RunCommand(p) \/ Clear(p) \/ List(p) \/ Reply(p) PROVE FInv'
  BY <1>3, PanelStepOn
<1> QED BY <1>1, <1>2, <1>3 DEF PanelNext

\* Every step of the SSH login leaves no service behind.
LEMMA SshOn ==
  ASSUME VInv, FInv, SshNext, UNCHANGED <<caddy, sites, units>>
  PROVE  FInv'
<1>1. ASSUME NEW p \in Procs, SshItem(p), UNCHANGED sshVars PROVE FInv'
  BY <1>1, SshOpens, OpeningOn
<1>2. ASSUME NEW p \in Procs, Texts0(p) \/ EditSsh(p) \/ AskSshd(p) \/ ReloadSshd(p) \/ PutBackSsh(p) \/ ReloadOld(p) PROVE FInv'
  BY <1>2, SshStepOn
<1> QED BY <1>1, <1>2 DEF SshNext

\* Every step leaves no service behind.
LEMMA EveryStepOn ==
  ASSUME VInv, FInv, [Next]_vars
  PROVE  FInv'
<1>1. CASE RoutingNext /\ UNCHANGED <<connectionVars, upkeepVars, panelVars, sshVars>>
  <2>1. UNCHANGED <<caddy, sites, units, sshVars>>
    BY <1>1 DEF connectionVars, upkeepVars
  <2> QED BY <1>1, <2>1, RoutingOn
<1>2. CASE ConnectionsNext /\ UNCHANGED <<upkeepVars, panelVars, sshVars>>
  BY <1>2, ConnectionsOn
<1>3. CASE UpkeepNext /\ UNCHANGED <<panelVars, sshVars>>
  BY <1>3, UpkeepOn
<1>4. CASE PanelNext /\ UNCHANGED <<routingVars, connectionVars, upkeepVars, sshVars>>
  <2>1. UNCHANGED <<caddy, sites, units, sshVars>>
    BY <1>4 DEF connectionVars, upkeepVars
  <2> QED BY <1>4, <2>1, PanelOn
<1>5. CASE SshNext /\ UNCHANGED <<routingVars, connectionVars, upkeepVars, panelVars>>
  <2>1. UNCHANGED <<caddy, sites, units>>
    BY <1>5 DEF connectionVars, upkeepVars
  <2> QED BY <1>5, <2>1, SshOn
<1>6. CASE UNCHANGED vars
  <2>1. UNCHANGED <<job, lock, torn>> /\ Untouched
    BY <1>6 DEF vars, serverVars, connectionVars, upkeepVars, sshVars, Untouched
  <2> QED BY <2>1, Unmoved
<1> QED BY <1>1, <1>2, <1>3, <1>4, <1>5, <1>6 DEF Next, Quiet

\* At first every service follows, and no process has a plan.
LEMMA FirstOn ==
  ASSUME Init
  PROVE  FInv
<1>1. /\ job = [p \in Procs |-> Idle] /\ xray = config /\ caddy = sites /\ sshd = Passwords(ssh) /\ units = "on"
  BY DEF Init, ServerInit, ConnectionsInit, UpkeepInit, SshInit
<1>2. /\ Idle.in = FALSE /\ Idle.locked = FALSE /\ Idle.op = "none" /\ Idle.plan = <<>> /\ Idle.back = <<>>
  BY DEF Idle
<1>3. PlanOn(Idle)
  BY <1>2, ClosedEnd DEF PlanOn, BackOn
<1>4. JobsOn
  BY <1>1, <1>2, <1>3 DEF JobsOn, Locks
<1>5. \A s \in Services : Follows(s)
  BY <1>1 DEF Follows, Current, Services, Readable, Half, Init, ServerInit, FreshServer
<1> QED BY <1>4, <1>5 DEF FInv

\* What the invariant says when all are idle.
LEMMA AllFollow ==
  ASSUME FInv
  PROVE  ServicesFollow /\ LockHeld /\ (AllIdle /\ ~torn => Readable)
<1>1. LockHeld
  BY DEF FInv, JobsOn, Locks, LockHeld
<1>2. ASSUME AllIdle, ~torn, NEW s \in Services PROVE Current(s)
  <2>1. \A p \in Procs : job[p].plan = <<>>
    BY <1>2 DEF FInv, JobsOn, Locks, AllIdle, Busy
  <2> QED BY <1>2, <2>1 DEF FInv, Follows, Awaits
<1>3. AllIdle /\ ~torn => xray = config /\ Readable /\ caddy = sites /\ sshd = Passwords(ssh) /\ units = "on"
  BY <1>2 DEF Current, Services
<1> QED BY <1>1, <1>3 DEF ServicesFollow, XrayFollows, CaddyFollows, SshFollows, UnitsFollow

\* Both hold in every state.
LEMMA BothHold ==
  Spec => [](VInv /\ FInv)
<1>1. Init => VInv /\ FInv
  BY FirstFine, FirstOn
<1>2. (VInv /\ FInv) /\ [Next]_vars => (VInv /\ FInv)'
  BY EveryStepFine, EveryStepOn
<1> QED BY <1>1, <1>2, PTL DEF Spec

\* Whatever overlapped, when every command has ended and none was killed or failed to put
\* back what it changed, Xray runs on config.json, Caddy serves the site files, sshd does
\* what its files say and the writer units run.
THEOREM AllServicesFollow == Spec => []ServicesFollow
<1>1. VInv /\ FInv => ServicesFollow
  BY AllFollow
<1> QED BY <1>1, BothHold, PTL

\* A command that takes manager.lock has it from its load to its end.
THEOREM LockIsHeld == Spec => []LockHeld
<1>1. VInv /\ FInv => LockHeld
  BY AllFollow
<1> QED BY <1>1, BothHold, PTL

\* Whatever overlaps, fails or is killed, a config.json that can be read is sound: its rules
\* lead to outbounds that are there and stand in order, its inbounds are apart.  And it can
\* be read when every command has ended and none was killed or failed to put back.
THEOREM ConfigIsSound == Spec => []ConfigSound
<1>1. VInv /\ FInv => ConfigSound
  BY AllFollow, SoundRoutes, SoundInbounds DEF VInv, StateFine, Usable, Readable, ConfigSound
<1> QED BY <1>1, BothHold, PTL
=============================================================================
