--------------------------- MODULE TicketKeysProofs ---------------------------
(***************************************************************************)
(* Proofs about the session ticket keys: what the rules of rotation do to  *)
(* keys, what the store keeps and the services share, and that every       *)
(* native manager always has a valid key if the checks are frequent enough *)
(* for the failures of the storage.                                        *)
(***************************************************************************)
EXTENDS TicketKeys, SequenceTheorems, WellFoundedInduction, TLAPS

Quarter == Lifetime \div 4

\* Each key is a quarter of a lifetime older than the one before it, at least.
Spaced(keys) ==
  \A i, j \in 1..Len(keys) : i < j => keys[i].from - keys[j].from >= Quarter

Proper(keys) == Len(keys) \in 1..MaxKeys /\ Spaced(keys)

\* What of old is valid at t is in new.
Carries(old, new, t) == \A k \in ToSet(old) : NotAfter(k) >= t => k \in ToSet(new)

From(keys) == keys[1].from

\* The time from which a check replaces the snapshot.
Due(snap) ==
  IF snap.next > From(snap.keys) + Quarter THEN snap.next ELSE From(snap.keys) + Quarter

-------------------------------------------------------------------------------
(* The rules of rotation.                                                  *)

\* A lifetime has four quarters.
LEMMA QuarterFacts ==
  /\ Quarter \in Nat \ {0} /\ Lifetime = 4 * Quarter
  /\ MaxKeys \in Nat \ {0} /\ CheckEvery \in Nat \ {0}
  /\ MaxTime \in Nat /\ MaxFaults \in Nat
<1>1. Lifetime \in Nat \ {0} /\ Lifetime % 4 = 0
  BY TicketAssumption
<1>2. Quarter \in Nat \ {0} /\ Lifetime = 4 * Quarter
  BY <1>1 DEF Quarter
<1> QED
  BY <1>2, TicketAssumption

\* A set of numbers that has 0, and the successor of every number in it, has all.
LEMMA SetInduction ==
  ASSUME NEW S, 0 \in S, \A n \in Nat : n \in S => n + 1 \in S
  PROVE  Nat \subseteq S
<1> DEFINE T == Nat \ S
           R == OpToRel(<, Nat)
<1>1. SUFFICES ASSUME T # {} PROVE FALSE
  OBVIOUS
<1>2. IsWellFoundedOn(R, Nat)
  BY NatLessThanWellFounded
<1>3. T \subseteq Nat
  OBVIOUS
<1> HIDE DEF T, R
<1>4. PICK x \in T : \A y \in T : ~(<<y, x>> \in R)
  BY ONLY <1>1, <1>2, <1>3, WFMin
<1> USE DEF T
<1>5. x \in Nat /\ x \notin S
  OBVIOUS
<1>6. x # 0 /\ x - 1 \in Nat /\ x - 1 \in T
  BY <1>5
<1>7. <<x - 1, x>> \in R
  BY <1>5, <1>6 DEF R, OpToRel
<1> QED
  BY <1>4, <1>6, <1>7

\* The keys of a sequence, and their times.
LEMMA KeyFacts ==
  ASSUME NEW c \in Seq(Keys)
  PROVE  /\ Len(c) \in Nat /\ DOMAIN c = 1..Len(c)
         /\ \A i \in 1..Len(c) :
              c[i] \in Keys /\ c[i].from \in Nat /\ c[i].from \in Times
              /\ NotAfter(c[i]) \in Int
<1>1. Len(c) \in Nat /\ DOMAIN c = 1..Len(c)
  BY LenProperties
<1>2. ASSUME NEW i \in 1..Len(c)
      PROVE  c[i] \in Keys /\ c[i].from \in Nat /\ c[i].from \in Times
             /\ NotAfter(c[i]) \in Int
  <2>1. c[i] \in Keys
    BY ElementOfSeq
  <2> QED
    BY <2>1, QuarterFacts DEF Keys, Times, NotAfter
<1> QED
  BY <1>1, <1>2

\* f holds what is left of the first n keys of c when the expired are dropped.
KeptUpTo(f, c, t, n) ==
  /\ f[0] = <<>>
  /\ \A i \in 1..n :
       f[i] = IF NotAfter(c[i]) >= t THEN Append(f[i - 1], c[i]) ELSE f[i - 1]

\* There is such a function.
LEMMA KeptExists ==
  ASSUME NEW c \in Seq(Keys), NEW t \in Nat
  PROVE  \E f \in [0..Len(c) -> Seq(Keys)] : KeptUpTo(f, c, t, Len(c))
<1> DEFINE S == {n \in Nat : n <= Len(c) =>
                   \E f \in [0..n -> Seq(Keys)] : KeptUpTo(f, c, t, n)}
<1>c. Len(c) \in Nat /\ \A i \in 1..Len(c) : c[i] \in Keys
  BY LenProperties, ElementOfSeq
<1>1. 0 \in S
  <2> DEFINE z == [i \in 0..0 |-> <<>>]
  <2>1. z \in [0..0 -> Seq(Keys)] /\ KeptUpTo(z, c, t, 0)
    BY EmptySeq DEF KeptUpTo
  <2> QED
    BY <2>1
<1>2. ASSUME NEW n \in Nat, n \in S PROVE n + 1 \in S
  <2> SUFFICES ASSUME n + 1 <= Len(c)
               PROVE  \E f \in [0..(n + 1) -> Seq(Keys)] : KeptUpTo(f, c, t, n + 1)
    OBVIOUS
  <2>1. PICK f \in [0..n -> Seq(Keys)] : KeptUpTo(f, c, t, n)
    BY <1>2, <1>c
  <2> DEFINE last == IF NotAfter(c[n + 1]) >= t THEN Append(f[n], c[n + 1]) ELSE f[n]
             g == [i \in 0..(n + 1) |-> IF i <= n THEN f[i] ELSE last]
  <2>2. last \in Seq(Keys)
    <3>1. f[n] \in Seq(Keys) /\ c[n + 1] \in Keys
      BY <1>c
    <3> QED
      BY <3>1, AppendProperties
  <2>3. g \in [0..(n + 1) -> Seq(Keys)]
    <3> HIDE DEF last
    <3> QED
      BY <2>2
  <2>4. g[0] = <<>>
    BY <2>1 DEF KeptUpTo
  <2>5. ASSUME NEW i \in 1..(n + 1)
        PROVE  g[i] = IF NotAfter(c[i]) >= t THEN Append(g[i - 1], c[i]) ELSE g[i - 1]
    <3>1. CASE i = n + 1
      <4>1. g[i] = last /\ g[i - 1] = f[n]
        BY <3>1
      <4> QED
        BY <3>1, <4>1
    <3>2. CASE i # n + 1
      <4>1. i \in 1..n /\ i - 1 \in 0..n
        BY <3>2
      <4>2. g[i] = f[i] /\ g[i - 1] = f[i - 1]
        BY <4>1
      <4>3. f[i] = IF NotAfter(c[i]) >= t THEN Append(f[i - 1], c[i]) ELSE f[i - 1]
        BY <2>1, <4>1 DEF KeptUpTo
      <4> QED
        BY <4>2, <4>3
    <3> QED
      BY <3>1, <3>2
  <2> HIDE DEF g, last
  <2>6. KeptUpTo(g, c, t, n + 1)
    BY <2>4, <2>5 DEF KeptUpTo
  <2> QED
    BY <2>3, <2>6
<1> HIDE DEF S
<1>3. Nat \subseteq S
  BY <1>1, <1>2, SetInduction
<1>4. Len(c) \in S
  BY <1>3, <1>c
<1> QED
  BY <1>4, <1>c DEF S

\* p is what is left of the first n keys of c: all that are valid, in order.
PruneOf(p, c, t, n) ==
  /\ p \in Seq(Keys) /\ Len(p) <= n
  /\ \A a \in 1..Len(p) : \E b \in 1..n : p[a] = c[b] /\ NotAfter(c[b]) >= t
  /\ \A b \in 1..n : NotAfter(c[b]) >= t => \E a \in 1..Len(p) : p[a] = c[b]
  /\ Spaced(c) => Spaced(p)

\* One more key is dropped, or kept behind the others.
LEMMA PruneNext ==
  ASSUME NEW c \in Seq(Keys), NEW t \in Nat, NEW n \in Nat, n + 1 <= Len(c),
         NEW p, PruneOf(p, c, t, n),
         NEW q, q = IF NotAfter(c[n + 1]) >= t THEN Append(p, c[n + 1]) ELSE p
  PROVE  PruneOf(q, c, t, n + 1)
<1>1. /\ p \in Seq(Keys) /\ Len(p) \in Nat /\ Len(p) <= n
      /\ Len(c) \in Nat /\ c[n + 1] \in Keys
      /\ \A i \in 1..Len(c) : c[i].from \in Int
  <2>1. p \in Seq(Keys) /\ Len(p) <= n
    BY DEF PruneOf
  <2> QED
    BY <2>1, KeyFacts
<1>2. CASE NotAfter(c[n + 1]) < t
  <2>1. q = p
    BY <1>2, <1>1, QuarterFacts DEF NotAfter, Keys, Times
  <2>2. \A a \in 1..Len(p) : \E b \in 1..(n + 1) : p[a] = c[b] /\ NotAfter(c[b]) >= t
    BY DEF PruneOf
  <2>3. \A b \in 1..(n + 1) : NotAfter(c[b]) >= t => \E a \in 1..Len(p) : p[a] = c[b]
    <3> SUFFICES ASSUME NEW b \in 1..(n + 1), NotAfter(c[b]) >= t
                 PROVE  \E a \in 1..Len(p) : p[a] = c[b]
      OBVIOUS
    <3>1. b # n + 1
      BY <1>1, <1>2, QuarterFacts DEF NotAfter, Keys, Times
    <3>2. b \in 1..n
      BY <3>1
    <3> QED
      BY <3>2 DEF PruneOf
  <2> QED
    BY <1>1, <2>1, <2>2, <2>3 DEF PruneOf
<1>3. CASE NotAfter(c[n + 1]) >= t
  <2>1. /\ q \in Seq(Keys) /\ Len(q) = Len(p) + 1
        /\ \A i \in 1..Len(p) : q[i] = p[i]
        /\ q[Len(p) + 1] = c[n + 1]
    BY <1>1, <1>3, AppendProperties
  <2>2. ASSUME NEW a \in 1..Len(q)
        PROVE  \E b \in 1..(n + 1) : q[a] = c[b] /\ NotAfter(c[b]) >= t
    <3>1. CASE a = Len(p) + 1
      BY <1>3, <2>1, <3>1
    <3>2. CASE a # Len(p) + 1
      <4>1. a \in 1..Len(p)
        BY <1>1, <2>1, <3>2
      <4>2. PICK b \in 1..n : p[a] = c[b] /\ NotAfter(c[b]) >= t
        BY <4>1 DEF PruneOf
      <4> QED
        BY <2>1, <4>1, <4>2
    <3> QED
      BY <3>1, <3>2
  <2>3. ASSUME NEW b \in 1..(n + 1), NotAfter(c[b]) >= t
        PROVE  \E a \in 1..Len(q) : q[a] = c[b]
    <3>1. CASE b = n + 1
      <4>1. Len(p) + 1 \in 1..Len(q)
        BY <1>1, <2>1
      <4> QED
        BY <2>1, <3>1, <4>1
    <3>2. CASE b # n + 1
      <4>1. b \in 1..n
        BY <3>2
      <4>2. PICK a \in 1..Len(p) : p[a] = c[b]
        BY <2>3, <4>1 DEF PruneOf
      <4>3. a \in 1..Len(q) /\ q[a] = p[a]
        BY <1>1, <2>1
      <4> QED
        BY <4>2, <4>3
    <3> QED
      BY <3>1, <3>2
  <2>4. ASSUME Spaced(c), NEW i \in 1..Len(q), NEW j \in 1..Len(q), i < j
        PROVE  q[i].from - q[j].from >= Quarter
    <3>1. i \in 1..Len(p)
      BY <1>1, <2>1, <2>4
    <3>2. CASE j = Len(p) + 1
      <4>1. PICK b \in 1..n : p[i] = c[b]
        BY <3>1 DEF PruneOf
      <4>2. b \in 1..Len(c) /\ n + 1 \in 1..Len(c) /\ b < n + 1
        BY <1>1
      <4>3. c[b].from - c[n + 1].from >= Quarter
        BY <2>4, <4>2 DEF Spaced
      <4> QED
        BY <2>1, <3>1, <3>2, <4>1, <4>3
    <3>3. CASE j # Len(p) + 1
      <4>1. j \in 1..Len(p)
        BY <1>1, <2>1, <3>3
      <4>2. p[i].from - p[j].from >= Quarter
        BY <2>4, <3>1, <4>1 DEF PruneOf, Spaced
      <4> QED
        BY <2>1, <3>1, <4>1, <4>2
    <3> QED
      BY <3>2, <3>3
  <2>5. Spaced(c) => Spaced(q)
    BY <2>4 DEF Spaced
  <2>6. Len(q) <= n + 1
    BY <1>1, <2>1
  <2> QED
    BY ONLY <2>1, <2>2, <2>3, <2>5, <2>6 DEF PruneOf
<1>4. NotAfter(c[n + 1]) \in Int
  BY <1>1, QuarterFacts DEF NotAfter, Keys, Times
<1> QED
  BY <1>2, <1>3, <1>4

\* What dropping the expired keys leaves.
LEMMA PruneFacts ==
  ASSUME NEW c \in Seq(Keys), NEW t \in Nat
  PROVE  PruneOf(PruneExpired(c, t), c, t, Len(c))
<1> DEFINE n == Len(c)
           kept[i \in 0..n] ==
             IF i = 0 THEN <<>>
             ELSE IF NotAfter(c[i]) >= t THEN Append(kept[i - 1], c[i]) ELSE kept[i - 1]
<1>c. n \in Nat
  BY LenProperties
<1>1. PICK h \in [0..n -> Seq(Keys)] : KeptUpTo(h, c, t, n)
  BY KeptExists
<1>2. h = [i \in 0..n |->
             IF i = 0 THEN <<>>
             ELSE IF NotAfter(c[i]) >= t THEN Append(h[i - 1], c[i]) ELSE h[i - 1]]
  <2>1. ASSUME NEW i \in 0..n
        PROVE  h[i] = IF i = 0 THEN <<>>
                      ELSE IF NotAfter(c[i]) >= t THEN Append(h[i - 1], c[i]) ELSE h[i - 1]
    <3>1. CASE i = 0
      BY <1>1, <3>1 DEF KeptUpTo
    <3>2. CASE i # 0
      <4>1. i \in 1..n
        BY <1>c, <3>2
      <4> QED
        BY ONLY <1>1, <3>2, <4>1 DEF KeptUpTo
    <3> QED
      BY <3>1, <3>2
  <2> QED
    BY <2>1
<1>3. kept = [i \in 0..n |->
                IF i = 0 THEN <<>>
                ELSE IF NotAfter(c[i]) >= t THEN Append(kept[i - 1], c[i]) ELSE kept[i - 1]]
  BY <1>2
<1>4. PruneExpired(c, t) = kept[n]
  BY DEF PruneExpired
<1> HIDE DEF kept
<1>5. kept[0] = <<>>
  BY <1>3, <1>c
<1>6. ASSUME NEW i \in 1..n
      PROVE  kept[i] = IF NotAfter(c[i]) >= t THEN Append(kept[i - 1], c[i]) ELSE kept[i - 1]
  <2>1. i \in 0..n /\ i # 0
    BY <1>c
  <2> DEFINE next(x) == IF x = 0 THEN <<>>
                        ELSE IF NotAfter(c[x]) >= t THEN Append(kept[x - 1], c[x])
                        ELSE kept[x - 1]
  <2>2. kept = [x \in 0..n |-> next(x)]
    BY <1>3
  <2>3. kept[i] = next(i)
    <3> HIDE DEF next
    <3> QED
      BY ONLY <2>1, <2>2
  <2> QED
    BY ONLY <2>1, <2>3
<1> DEFINE S == {i \in Nat : i <= n => PruneOf(kept[i], c, t, i)}
<1>7. 0 \in S
  <2>1. <<>> \in Seq(Keys) /\ Len(<<>>) = 0
    BY EmptySeq
  <2>2. PruneOf(<<>>, c, t, 0)
    BY ONLY <2>1 DEF PruneOf, Spaced
  <2> QED
    BY <1>5, <2>2
<1>8. ASSUME NEW i \in Nat, i \in S PROVE i + 1 \in S
  <2> SUFFICES ASSUME i + 1 <= n PROVE PruneOf(kept[i + 1], c, t, i + 1)
    OBVIOUS
  <2>1. PruneOf(kept[i], c, t, i)
    BY <1>8, <1>c
  <2>2. i + 1 \in 1..n /\ (i + 1) - 1 = i
    BY <1>c
  <2>3. kept[i + 1] = IF NotAfter(c[i + 1]) >= t THEN Append(kept[i], c[i + 1]) ELSE kept[i]
    BY <1>6, <2>2
  <2> QED
    BY <2>1, <2>3, PruneNext
<1> HIDE DEF S
<1>9. n \in S
  BY <1>7, <1>8, <1>c, SetInduction
<1> QED
  BY <1>4, <1>9, <1>c DEF S

\* The keys that are retained are the first ones, all if they are few enough.
LEMMA RetainFacts ==
  ASSUME NEW c \in Seq(Keys), NEW r, r = RetainMax(c)
  PROVE  /\ r \in Seq(Keys) /\ Len(r) <= MaxKeys /\ Len(r) <= Len(c)
         /\ \A i \in 1..Len(r) : r[i] = c[i]
         /\ Len(c) > 0 => Len(r) > 0
         /\ Spaced(c) => Spaced(r)
         /\ Len(c) <= MaxKeys => r = c
<1> DEFINE n == IF Len(c) < MaxKeys THEN Len(c) ELSE MaxKeys
<1>1. /\ Len(c) \in Nat /\ n \in Nat /\ n <= Len(c) /\ n <= MaxKeys
      /\ Len(c) > 0 => n > 0
      /\ Len(c) <= MaxKeys => n = Len(c)
  BY KeyFacts, QuarterFacts
<1>2. r = SubSeq(c, 1, n)
  BY DEF RetainMax
<1> HIDE DEF n
<1>3. \A i \in 1..n : c[i] \in Keys
  BY <1>1, KeyFacts
<1>4. 1 \in Int /\ n \in Int /\ n - 1 + 1 = n
  BY <1>1
<1>5. /\ r \in Seq(Keys)
      /\ Len(r) = IF 1 <= n THEN n - 1 + 1 ELSE 0
      /\ \A i \in 1..(n - 1 + 1) : r[i] = c[1 + i - 1]
  BY ONLY <1>2, <1>3, <1>4, SubSeqProperties
<1>6. Len(r) = n
  BY <1>1, <1>5
<1>7. \A i \in 1..n : r[i] = c[i]
  <2> TAKE i \in 1..n
  <2>1. i \in 1..(n - 1 + 1) /\ 1 + i - 1 = i
    BY <1>1
  <2> QED
    BY ONLY <1>5, <2>1
<1>8. Spaced(c) => Spaced(r)
  BY ONLY <1>1, <1>6, <1>7 DEF Spaced
<1>9. n = Len(c) => r = c
  BY <1>2, SubSeqFull
<1> QED
  BY <1>1, <1>5, <1>6, <1>7, <1>8, <1>9

\* The members of a sequence of keys.
LEMMA Members ==
  ASSUME NEW c \in Seq(Keys)
  PROVE  \A k : k \in ToSet(c) <=> \E i \in 1..Len(c) : k = c[i]
  BY KeyFacts DEF ToSet

\* Keys in front of others that are all older by a quarter of a lifetime.
LEMMA PushFacts ==
  ASSUME NEW c \in Seq(Keys), Spaced(c), NEW k \in Keys,
         Len(c) > 0 => k.from - c[1].from >= Quarter,
         NEW r, r = <<k>> \o c
  PROVE  /\ r \in Seq(Keys) /\ Len(r) = Len(c) + 1 /\ r[1] = k
         /\ \A i \in 1..Len(c) : r[i + 1] = c[i]
         /\ Spaced(r)
<1>1. <<k>> \in Seq(Keys) /\ Len(<<k>>) = 1 /\ <<k>>[1] = k
  OBVIOUS
<1>2. Len(c) \in Nat /\ \A i \in 1..Len(c) : c[i].from \in Nat
  BY KeyFacts
<1>3. k.from \in Nat /\ Quarter \in Nat
  BY QuarterFacts DEF Keys, Times
<1>4. /\ r \in Seq(Keys) /\ Len(r) = 1 + Len(c)
      /\ \A i \in 1..(1 + Len(c)) : r[i] = IF i <= 1 THEN <<k>>[i] ELSE c[i - 1]
  BY ONLY <1>1, c \in Seq(Keys), r = <<k>> \o c, ConcatProperties
<1>5. r[1] = k /\ \A i \in 2..(1 + Len(c)) : r[i] = c[i - 1]
  BY <1>1, <1>2, <1>4
<1>6. \A i \in 1..Len(c) : r[i + 1] = c[i]
  BY <1>2, <1>5
<1>7. ASSUME NEW i \in 1..Len(r), NEW j \in 1..Len(r), i < j
      PROVE  r[i].from - r[j].from >= Quarter
  <2>1. j - 1 \in 1..Len(c) /\ r[j] = c[j - 1]
    BY <1>2, <1>4, <1>5, <1>7
  <2>2. CASE i = 1
    <3>1. c[1].from \in Nat /\ c[j - 1].from \in Nat /\ 1 \in 1..Len(c)
      BY <1>2, <2>1
    <3>2. j - 1 = 1 \/ c[1].from - c[j - 1].from >= Quarter
      BY <2>1, <3>1 DEF Spaced
    <3>3. k.from - c[1].from >= Quarter
      BY <3>1
    <3>4. k.from - c[j - 1].from >= Quarter
      BY <1>3, <3>1, <3>2, <3>3
    <3> QED
      BY <1>5, <2>1, <2>2, <3>4
  <2>3. CASE i # 1
    <3>1. i - 1 \in 1..Len(c) /\ r[i] = c[i - 1] /\ i - 1 < j - 1
      BY <1>2, <1>4, <1>5, <1>7, <2>3
    <3>2. c[i - 1].from - c[j - 1].from >= Quarter
      BY <2>1, <3>1 DEF Spaced
    <3> QED
      BY <2>1, <3>1, <3>2
  <2> QED
    BY <2>2, <2>3
<1> QED
  BY <1>2, <1>4, <1>5, <1>6, <1>7 DEF Spaced

\* Four times a quarter after another.
LEMMA FourQuarters ==
  ASSUME NEW a \in Nat, NEW b \in Nat, NEW c \in Nat, NEW d \in Nat, NEW t \in Nat,
         t - a >= Quarter, a - b >= Quarter, b - c >= Quarter, c - d >= Quarter
  PROVE  t >= d + Lifetime
<1>1. Quarter \in Nat /\ Lifetime = 4 * Quarter
  BY QuarterFacts
<1> HIDE DEF Quarter
<1>2. t >= b + 2 * Quarter
  BY ONLY a \in Nat, b \in Nat, t \in Nat, t - a >= Quarter, a - b >= Quarter, <1>1
<1>3. b >= d + 2 * Quarter
  BY ONLY b \in Nat, c \in Nat, d \in Nat, b - c >= Quarter, c - d >= Quarter, <1>1
<1> QED
  BY ONLY b \in Nat, d \in Nat, t \in Nat, <1>1, <1>2, <1>3

\* Of keys that are spaced, no more than three are valid at a time when a new
\* one is due.
LEMMA AtMostThree ==
  ASSUME NEW c \in Seq(Keys), Spaced(c), NEW t \in Nat,
         \A i \in 1..Len(c) : NotAfter(c[i]) >= t,
         Len(c) > 0 => t - c[1].from >= Quarter
  PROVE  Len(c) <= 3
<1> SUFFICES ASSUME Len(c) > 3 PROVE FALSE
  BY KeyFacts
<1>1. 1 \in 1..Len(c) /\ 2 \in 1..Len(c) /\ 3 \in 1..Len(c) /\ 4 \in 1..Len(c)
  BY KeyFacts
<1>2. /\ c[1].from \in Nat /\ c[2].from \in Nat /\ c[3].from \in Nat /\ c[4].from \in Nat
  BY <1>1, KeyFacts
<1>3. /\ c[1].from - c[2].from >= Quarter
      /\ c[2].from - c[3].from >= Quarter
      /\ c[3].from - c[4].from >= Quarter
  BY <1>1 DEF Spaced
<1>4. t - c[1].from >= Quarter
  BY <1>1
<1>5. c[4].from + Lifetime - 1 >= t
  BY <1>1 DEF NotAfter
<1>6. t >= c[4].from + Lifetime
  BY ONLY t \in Nat, <1>2, <1>3, <1>4, FourQuarters
<1> QED
  BY ONLY t \in Nat, <1>2, <1>5, <1>6, QuarterFacts

\* The keys after a rotation.
LEMMA RotateKeysFacts ==
  ASSUME NEW c \in Seq(Keys), Len(c) <= MaxKeys, Spaced(c), NEW t \in Times,
         NEW s \in Services, NEW r, r = RotateKeys(c, t, s)
  PROVE  /\ r \in Seq(Keys) /\ Proper(r)
         /\ t - From(r) < Quarter
         /\ From(r) = t \/ (Len(c) > 0 /\ From(r) <= From(c))
         /\ MaxKeys >= 4 => Carries(c, r, t)
<1> DEFINE p == PruneExpired(c, t)
           k == [from |-> t, by |-> s]
           q == <<k>> \o p
<1>1. t \in Nat /\ k \in Keys /\ k.from = t
  BY DEF Times, Keys
<1>2. /\ PruneOf(p, c, t, Len(c)) /\ p \in Seq(Keys) /\ Spaced(p)
      /\ Len(p) <= Len(c) /\ Len(c) \in Nat
  <2>1. PruneOf(p, c, t, Len(c))
    BY <1>1, PruneFacts
  <2> QED
    BY <2>1, KeyFacts DEF PruneOf
<1> HIDE DEF p
<1>3. /\ Len(p) \in Nat /\ Len(p) <= MaxKeys
      /\ \A i \in 1..Len(p) : p[i].from \in Nat
  BY <1>2, KeyFacts, QuarterFacts
<1>4. RetainMax(p) = p
  BY <1>2, <1>3, RetainFacts
<1>5. \A i \in 1..Len(p) : \E b \in 1..Len(c) : p[i] = c[b] /\ NotAfter(c[b]) >= t
  BY <1>2 DEF PruneOf
<1>6. Carries(c, p, t)
  <2>1. \A b \in 1..Len(c) : NotAfter(c[b]) >= t => \E a \in 1..Len(p) : p[a] = c[b]
    BY <1>2 DEF PruneOf
  <2> QED
    BY ONLY <1>2, <2>1, Members DEF Carries
<1>7. p # <<>> <=> Len(p) > 0
  BY <1>2, EmptySeq
<1>8. Len(p) > 0 => Head(p) = p[1] /\ 1 \in 1..Len(p)
  BY <1>2, <1>3
<1>9. CASE NeedsNewKey(p, t)
  <2>1. Len(p) > 0 => t - p[1].from >= Quarter
    BY <1>1, <1>3, <1>7, <1>8, <1>9, QuarterFacts DEF NeedsNewKey
  <2>2. r = RetainMax(q)
    BY <1>4, <1>9 DEF RotateKeys, p
  <2>3. /\ q \in Seq(Keys) /\ Len(q) = Len(p) + 1 /\ q[1] = k
        /\ \A i \in 1..Len(p) : q[i + 1] = p[i]
        /\ Spaced(q)
    BY <1>1, <1>2, <2>1, PushFacts
  <2> HIDE DEF q, k
  <2>4. /\ r \in Seq(Keys) /\ Len(r) <= MaxKeys /\ Len(r) > 0 /\ Spaced(r)
        /\ r[1] = q[1]
        /\ Len(q) <= MaxKeys => r = q
    <3>1. /\ r \in Seq(Keys) /\ Len(r) <= MaxKeys /\ Spaced(r)
          /\ \A i \in 1..Len(r) : r[i] = q[i]
          /\ Len(q) > 0 => Len(r) > 0
          /\ Len(q) <= MaxKeys => r = q
      BY <2>2, <2>3, RetainFacts
    <3>2. Len(r) > 0 /\ Len(r) \in Nat
      BY <1>3, <2>3, <3>1, KeyFacts
    <3> QED
      BY <3>1, <3>2
  <2>5. Proper(r)
    BY <2>4, KeyFacts, QuarterFacts DEF Proper
  <2>6. From(r) = t
    BY <1>1, <2>3, <2>4 DEF From
  <2>7. MaxKeys >= 4 => Carries(c, r, t)
    <3> SUFFICES ASSUME MaxKeys >= 4 PROVE Carries(c, r, t)
      OBVIOUS
    <3>1. Len(p) <= 3
      <4>1. \A i \in 1..Len(p) : NotAfter(p[i]) >= t
        BY <1>5
      <4> QED
        BY <1>1, <1>2, <2>1, <4>1, AtMostThree
    <3>2. r = q
      BY <1>3, <2>3, <2>4, <3>1, QuarterFacts
    <3>3. ToSet(p) \subseteq ToSet(q)
      <4>1. ASSUME NEW i \in 1..Len(p)
            PROVE  i + 1 \in 1..Len(q) /\ p[i] = q[i + 1]
        BY <1>3, <2>3
      <4> QED
        BY <1>2, <2>3, <4>1, Members
    <3> QED
      BY <1>6, <3>2, <3>3 DEF Carries
  <2> QED
    BY <1>1, <2>4, <2>5, <2>6, <2>7, QuarterFacts
<1>10. CASE ~NeedsNewKey(p, t)
  <2>1. r = p
    BY <1>4, <1>10 DEF RotateKeys, p
  <2>2. Len(p) > 0 /\ t - p[1].from < Quarter
    BY <1>1, <1>3, <1>7, <1>8, <1>10, QuarterFacts DEF NeedsNewKey
  <2>3. Proper(r)
    BY <1>2, <1>3, <2>1, <2>2 DEF Proper
  <2>4. Len(c) > 0 /\ From(r) <= From(c)
    <3>1. PICK b \in 1..Len(c) : p[1] = c[b]
      BY <1>5, <1>8, <2>2
    <3>2. c[1].from \in Nat /\ c[b].from \in Nat /\ 1 \in 1..Len(c)
      BY <1>2, KeyFacts
    <3>3. b = 1 \/ c[1].from - c[b].from >= Quarter
      BY <3>2 DEF Spaced
    <3> QED
      BY <2>1, <3>1, <3>2, <3>3, QuarterFacts DEF From
  <2> QED
    BY <1>2, <1>6, <2>1, <2>2, <2>3, <2>4 DEF From
<1> QED
  BY <1>9, <1>10

\* A snapshot that is there, and when it is due.
LEMMA SnapshotFacts ==
  ASSUME NEW v \in Snapshots, Proper(v.keys)
  PROVE  /\ v # Missing /\ v # Corrupt /\ v.keys \in Seq(Keys) /\ v.next \in Nat
         /\ Len(v.keys) \in Nat /\ Len(v.keys) > 0 /\ Len(v.keys) <= MaxKeys
         /\ From(v.keys) \in Nat /\ Due(v) \in Nat
         /\ Due(v) >= v.next /\ Due(v) >= From(v.keys) + Quarter
         /\ Due(v) = v.next \/ Due(v) = From(v.keys) + Quarter
<1>1. v.keys \in Seq(Keys) /\ v.next \in Nat
  BY DEF Snapshots
<1>2. Len(v.keys) \in Nat /\ Len(v.keys) > 0 /\ Len(v.keys) <= MaxKeys /\ 1 \in 1..Len(v.keys)
  BY <1>1, KeyFacts, QuarterFacts DEF Proper
<1>3. From(v.keys) \in Nat
  BY <1>1, <1>2, KeyFacts DEF From
<1>4. Missing.next = -1 /\ Corrupt.next = -2
  BY DEF Missing, Corrupt
<1>5. v # Missing /\ v # Corrupt
  BY <1>1, <1>4
<1>6. /\ Due(v) \in Nat /\ Due(v) >= v.next /\ Due(v) >= From(v.keys) + Quarter
      /\ Due(v) = v.next \/ Due(v) = From(v.keys) + Quarter
  BY <1>1, <1>3, QuarterFacts DEF Due
<1> QED
  BY <1>1, <1>2, <1>3, <1>5, <1>6

\* A rotated snapshot is as good as a fresh one.
LEMMA RotateSnapshotFacts ==
  ASSUME NEW snap, snap = Missing \/ (snap \in Snapshots /\ Proper(snap.keys)),
         NEW t \in Times, NEW s \in Services, NEW r, r = RotateSnapshot(snap, t, s)
  PROVE  /\ r \in Snapshots /\ Proper(r.keys) /\ Due(r) > t
         /\ (MaxKeys >= 4 /\ snap # Missing) => Carries(snap.keys, r.keys, t)
         /\ r # snap =>
              /\ r.next = t + Quarter /\ r.next <= From(r.keys) + 2 * Quarter
              /\ From(r.keys) = t \/ (snap # Missing /\ From(r.keys) <= From(snap.keys))
<1> DEFINE old == IF snap = Missing THEN <<>> ELSE snap.keys
           new == RotateKeys(old, t, s)
<1>1. old \in Seq(Keys) /\ Len(old) <= MaxKeys /\ Spaced(old)
  <2>1. CASE snap = Missing
    <3>1. old = <<>> /\ old \in Seq(Keys) /\ Len(old) = 0
      BY <2>1, EmptySeq
    <3> QED
      BY ONLY <3>1, QuarterFacts DEF Spaced
  <2>2. CASE snap # Missing
    <3>1. old = snap.keys
      BY <2>2
    <3>2. snap \in Snapshots /\ Proper(snap.keys)
      BY <2>2
    <3> QED
      BY ONLY <3>1, <3>2, SnapshotFacts DEF Proper
  <2> QED
    BY <2>1, <2>2
<1>2. snap = Missing => Len(old) = 0
  BY EmptySeq
<1>3. t \in Nat
  BY DEF Times
<1>4. r = IF snap # Missing /\ new = old THEN snap ELSE [keys |-> new, next |-> t + Quarter]
  BY DEF RotateSnapshot, Quarter
<1>5. snap # Missing => snap \in Snapshots /\ old = snap.keys
  OBVIOUS
<1> HIDE DEF old
<1>6. /\ new \in Seq(Keys) /\ Proper(new) /\ t - From(new) < Quarter
      /\ From(new) = t \/ (Len(old) > 0 /\ From(new) <= From(old))
      /\ MaxKeys >= 4 => Carries(old, new, t)
  BY <1>1, RotateKeysFacts
<1>7. From(new) \in Nat
  BY <1>6, KeyFacts, QuarterFacts DEF From, Proper
<1> HIDE DEF new
<1>8. CASE snap # Missing /\ new = old
  <2>1. r = snap /\ r \in Snapshots /\ r.keys = new
    BY <1>4, <1>5, <1>8
  <2>2. Proper(r.keys)
    BY <1>6, <2>1
  <2>3. Due(r) >= From(new) + Quarter /\ Due(r) \in Nat
    BY <2>1, <2>2, SnapshotFacts
  <2>4. Due(r) > t
    BY ONLY <1>3, <1>6, <1>7, <2>3, QuarterFacts
  <2> QED
    BY <1>5, <1>6, <1>8, <2>1, <2>2, <2>4
<1>9. CASE ~(snap # Missing /\ new = old)
  <2>1. r.keys = new /\ r.next = t + Quarter /\ r = [keys |-> new, next |-> t + Quarter]
    BY <1>4, <1>9
  <2>2. r \in Snapshots
    BY <1>3, <1>6, <2>1, QuarterFacts DEF Snapshots
  <2>3. Proper(r.keys)
    BY <1>6, <2>1
  <2>4. Due(r) >= r.next /\ Due(r) \in Nat
    BY <2>2, <2>3, SnapshotFacts
  <2>5. Due(r) > t /\ r.next <= From(r.keys) + 2 * Quarter
    BY ONLY <1>3, <1>6, <1>7, <2>1, <2>4, QuarterFacts
  <2>6. From(r.keys) = t \/ (snap # Missing /\ From(r.keys) <= From(snap.keys))
    BY <1>2, <1>5, <1>6, <2>1
  <2> QED
    BY <1>5, <1>6, <2>1, <2>2, <2>3, <2>5, <2>6
<1> QED
  BY <1>8, <1>9

\* So is what is found, renewed if it is due.
LEMMA RenewedFacts ==
  ASSUME NEW snap, snap = Missing \/ (snap \in Snapshots /\ Proper(snap.keys)),
         NEW t \in Times, NEW s \in Services, NEW r, r = Renewed(snap, t, s)
  PROVE  /\ r \in Snapshots /\ Proper(r.keys) /\ Due(r) > t
         /\ (MaxKeys >= 4 /\ snap # Missing) => Carries(snap.keys, r.keys, t)
         /\ r # snap =>
              /\ r.next = t + Quarter /\ r.next <= From(r.keys) + 2 * Quarter
              /\ From(r.keys) = t \/ (snap # Missing /\ From(r.keys) <= From(snap.keys))
<1>1. CASE snap = Missing \/ NeedsRotation(snap, t)
  <2>1. r = RotateSnapshot(snap, t, s)
    BY <1>1 DEF Renewed
  <2> QED
    BY <2>1, RotateSnapshotFacts
<1>2. CASE snap # Missing /\ ~NeedsRotation(snap, t)
  <2>1. r = snap /\ snap \in Snapshots /\ Proper(snap.keys)
    BY <1>2 DEF Renewed
  <2>2. ~(t >= r.next) /\ t \in Nat
    BY <1>2, <2>1 DEF NeedsRotation, Times
  <2>3. Due(r) \in Nat /\ Due(r) >= r.next /\ r.next \in Nat
    BY <2>1, SnapshotFacts
  <2>4. Due(r) > t
    BY ONLY <2>2, <2>3
  <2>5. Carries(snap.keys, r.keys, t)
    BY ONLY <2>1 DEF Carries
  <2> QED
    BY <2>1, <2>4, <2>5
<1> QED
  BY <1>1, <1>2

\* A key that is carried on is carried on later too, and over two steps.
LEMMA CarriesOn ==
  ASSUME NEW a, NEW b, NEW c, NEW t \in Int, NEW u \in Int, t <= u,
         a \in Seq(Keys), b \in Seq(Keys)
  PROVE  /\ Carries(a, a, t)
         /\ Carries(a, b, t) => Carries(a, b, u)
         /\ Carries(a, b, u) /\ Carries(b, c, t) => Carries(a, c, u)
<1>1. \A x \in {a, b} : \A k \in ToSet(x) : NotAfter(k) \in Int
  BY Members, KeyFacts
<1> QED
  BY ONLY <1>1, t \in Int, u \in Int, t <= u DEF Carries

-------------------------------------------------------------------------------
(* What the steps of a thread do.                                          *)

Places == {"off", "open", "openStore", "sleep", "load", "lock", "reload", "store",
           "replace", "list", "push", "done"}
Kept == Snapshots \cup {Missing}
Readable == store \notin {Missing, Corrupt}

\* The type invariant, with the variables as functions.
TypeInv ==
  /\ now \in Times /\ lock \in Services \cup {Free} /\ faults \in 0..MaxFaults
  /\ store \in Snapshots \cup {Missing, Corrupt}
  /\ snapshot \in [Services -> Kept] /\ base \in [Services -> Kept]
  /\ winner \in [Services -> Kept]
  /\ running \in [Services -> BOOLEAN] /\ loaded \in [Services -> BOOLEAN]
  /\ pc \in [Services -> Places]
  /\ at \in [Services -> Times] /\ checked \in [Services -> Times]
  /\ natives \in [Services -> SUBSET Managers] /\ todo \in [Services -> SUBSET Managers]
  /\ nat \in [Managers -> {"none", "added", "read", "attached", "detached"}]
  /\ since \in [Managers -> Times]
  /\ seen \in [Managers -> Seq(Keys)] /\ nativeKeys \in [Managers -> Seq(Keys)]

\* Parts of the state of a thread that a step leaves alone, or resets.
KeepsLocals(s) ==
  /\ at'[s] = at[s] /\ base'[s] = base[s] /\ winner'[s] = winner[s]
  /\ loaded'[s] = loaded[s] /\ checked'[s] = checked[s]
Clears(s) ==
  /\ checked'[s] = now /\ at'[s] = 0 /\ base'[s] = Missing /\ winner'[s] = Missing
  /\ loaded'[s] = TRUE
KeepsThread(s) ==
  snapshot'[s] = snapshot[s] /\ running'[s] = running[s] /\ todo'[s] = todo[s]
Moves(s, from, to) == pc[s] = from /\ pc'[s] = to
KeepsStore == store' = store /\ faults' = faults

\* The steps of the thread of s, as s sees them.
Opens(s) ==
  /\ Moves(s, "off", "open") /\ lock = Free /\ lock' = s /\ at'[s] = now
  /\ base'[s] = base[s] /\ winner'[s] = winner[s] /\ checked'[s] = checked[s]
  /\ KeepsThread(s) /\ KeepsStore
StartsWith(s) ==
  /\ \/ pc[s] = "open" /\ store' = store /\ store # Corrupt /\ store = Renewed(store, at[s], s)
     \/ pc[s] = "openStore" /\ store' = winner[s]
  /\ pc'[s] = "sleep" /\ lock = s /\ lock' = Free /\ Clears(s)
  /\ snapshot'[s] = store' /\ running'[s] = TRUE /\ todo'[s] = todo[s] /\ faults' = faults
Prepares(s) ==
  /\ Moves(s, "open", "openStore") /\ lock' = lock /\ store # Corrupt
  /\ winner'[s] = Renewed(store, at[s], s) /\ winner'[s] # store
  /\ at'[s] = at[s] /\ base'[s] = base[s] /\ checked'[s] = checked[s]
  /\ KeepsThread(s) /\ KeepsStore
FailsToOpen(s) ==
  /\ pc[s] \in {"open", "openStore"} /\ pc'[s] = "done" /\ lock = s /\ lock' = Free
  /\ KeepsLocals(s) /\ KeepsThread(s) /\ store' = store
Wakes(s) ==
  /\ Moves(s, "sleep", "load") /\ running[s] /\ lock' = lock
  /\ at'[s] = now /\ base'[s] = snapshot[s]
  /\ winner'[s] = winner[s] /\ checked'[s] = checked[s]
  /\ KeepsThread(s) /\ KeepsStore
Finds(s) ==
  /\ \/ pc[s] = "load" /\ ~NeedsRotation(store, at[s]) /\ lock' = lock
     \/ pc[s] = "reload" /\ store = Renewed(store, at[s], s) /\ lock = s /\ lock' = Free
  /\ pc'[s] = "replace" /\ Readable /\ winner'[s] = store
  /\ at'[s] = at[s] /\ base'[s] = base[s] /\ checked'[s] = checked[s]
  /\ KeepsThread(s) /\ KeepsStore
Waits(s) ==
  /\ Moves(s, "load", "lock") /\ lock' = lock
  /\ KeepsLocals(s) /\ KeepsThread(s) /\ KeepsStore
Locks(s) ==
  /\ Moves(s, "lock", "reload") /\ lock = Free /\ lock' = s
  /\ KeepsLocals(s) /\ KeepsThread(s) /\ KeepsStore
Renews(s) ==
  /\ Moves(s, "reload", "store") /\ lock' = lock
  /\ \/ loaded'[s] /\ Readable /\ faults' = faults /\ winner'[s] = Renewed(store, at[s], s)
     \/ /\ ~loaded'[s] /\ winner'[s] = Renewed(base[s], at[s], s)
        /\ store \in {Missing, Corrupt} \/ faults' = faults + 1
  /\ at'[s] = at[s] /\ base'[s] = base[s] /\ checked'[s] = checked[s]
  /\ KeepsThread(s) /\ store' = store
Stores(s) ==
  /\ Moves(s, "store", "replace") /\ lock = s /\ lock' = Free /\ store' = winner[s]
  /\ KeepsLocals(s) /\ KeepsThread(s) /\ faults' = faults
Finishes(s) ==
  /\ \/ pc[s] \in {"load", "lock"} /\ faults' = faults + 1 /\ lock' = lock
     \/ pc[s] = "store" /\ faults' = faults + 1 /\ lock = s /\ lock' = Free
     \/ pc[s] = "replace" /\ winner[s] = base[s] /\ faults' = faults /\ lock' = lock
     \/ pc[s] = "push" /\ todo[s] = {} /\ faults' = faults /\ lock' = lock
  /\ pc'[s] = "sleep" /\ Clears(s) /\ KeepsThread(s) /\ store' = store
Replaces(s) ==
  /\ Moves(s, "replace", "list") /\ lock' = lock /\ snapshot'[s] = winner[s]
  /\ running'[s] = running[s] /\ todo'[s] = todo[s] /\ KeepsLocals(s) /\ KeepsStore
Lists(s) ==
  /\ Moves(s, "list", "push") /\ lock' = lock /\ todo'[s] = natives[s]
  /\ snapshot'[s] = snapshot[s] /\ running'[s] = running[s] /\ KeepsLocals(s) /\ KeepsStore
Pushes(s) ==
  /\ Moves(s, "push", "push") /\ lock' = lock
  /\ \E m \in todo[s] :
       /\ nativeKeys' = [nativeKeys EXCEPT ![m] = snapshot[s].keys]
       /\ todo'[s] = todo[s] \ {m}
  /\ snapshot'[s] = snapshot[s] /\ running'[s] = running[s] /\ KeepsLocals(s) /\ KeepsStore
Leaves(s) ==
  /\ Moves(s, "sleep", "done") /\ ~running[s] /\ lock' = lock
  /\ KeepsLocals(s) /\ KeepsThread(s) /\ KeepsStore
Stops(s) ==
  /\ pc'[s] = pc[s] /\ lock' = lock /\ ~running'[s] /\ KeepsLocals(s)
  /\ snapshot'[s] = snapshot[s] /\ todo'[s] = todo[s] /\ KeepsStore
  /\ \A m \in Managers : Home[m] = s => nat[m] = "detached"

\* What others see of it.
Same(r) == pc'[r] = pc[r] /\ KeepsLocals(r) /\ KeepsThread(r)
Outside(s) ==
  /\ now' = now /\ \A r \in Services : r # s => Same(r)
  /\ faults' \in {faults, faults + 1}
  /\ lock' = lock \/ (lock = Free /\ lock' = s) \/ (lock = s /\ lock' = Free)
  /\ UNCHANGED <<natives, nat, since, seen>> /\ (Pushes(s) \/ UNCHANGED nativeKeys)

ThreadStep(s) == Open(s) \/ Opening(s) \/ Check(s) \/ CheckFails(s) \/ Stop(s)
Effect(s) ==
  \/ Opens(s) \/ StartsWith(s) \/ Prepares(s) \/ FailsToOpen(s) \/ Wakes(s) \/ Finds(s)
  \/ Waits(s) \/ Locks(s) \/ Renews(s) \/ Stores(s) \/ Finishes(s) \/ Replaces(s)
  \/ Lists(s) \/ Pushes(s) \/ Leaves(s) \/ Stops(s)

\* Each step of a thread is one of these.
LEMMA ThreadEffects ==
  ASSUME TypeInv, NEW s \in Services, ThreadStep(s)
  PROVE  Outside(s) /\ Effect(s)
<1> USE DEF TypeInv, Outside, Same, KeepsLocals, KeepsThread, KeepsStore, Moves, Clears,
            storeVars, threadVars, managerVars, At, NoFault, Release
<1>1. CASE Open(s)
  <2>1. Outside(s) /\ Opens(s)
    BY <1>1 DEF Open, Opens
  <2> QED
    BY <2>1 DEF Effect
<1>2. CASE OpenLoad(s)
  <2>1. CASE Renewed(store, at[s], s) = store /\ Starts(s, store, "open")
    <3>1. Outside(s) /\ StartsWith(s)
      BY <1>2, <2>1 DEF OpenLoad, Starts, Ends, StartsWith
    <3> QED
      BY <3>1 DEF Effect
  <2>2. CASE Renewed(store, at[s], s) # store
    <3>1. Outside(s) /\ Prepares(s)
      BY <1>2, <2>2 DEF OpenLoad, Prepares
    <3> QED
      BY <3>1 DEF Effect
  <2> QED
    BY <1>2, <2>1, <2>2 DEF OpenLoad
<1>3. CASE OpenStore(s)
  <2>1. Outside(s) /\ StartsWith(s)
    BY <1>3 DEF OpenStore, Starts, Ends, StartsWith
  <2> QED
    BY <2>1 DEF Effect
<1>4. CASE OpenFails(s)
  <2>1. Outside(s) /\ FailsToOpen(s)
    BY <1>4 DEF OpenFails, Fault, FailsToOpen
  <2> QED
    BY <2>1 DEF Effect
<1>5. CASE Wake(s)
  <2>1. Outside(s) /\ Wakes(s)
    BY <1>5 DEF Wake, Wakes
  <2> QED
    BY <2>1 DEF Effect
<1>6. CASE Load(s)
  <2>1. Outside(s) /\ (Finds(s) \/ Waits(s))
    BY <1>6 DEF Load, Finds, Waits, Readable
  <2> QED
    BY <2>1 DEF Effect
<1>7. CASE TakeLock(s)
  <2>1. Outside(s) /\ Locks(s)
    BY <1>7 DEF TakeLock, Locks
  <2> QED
    BY <2>1 DEF Effect
<1>8. CASE Reload(s)
  <2>1. PICK ok \in BOOLEAN :
          LET old == IF ok THEN store ELSE base[s]
              new == Renewed(old, at[s], s)
          IN
          /\ \/ ok /\ Readable /\ NoFault
             \/ ~ok /\ store \in {Missing, Corrupt} /\ NoFault
             \/ ~ok /\ Fault
          /\ loaded' = [loaded EXCEPT ![s] = ok]
          /\ winner' = [winner EXCEPT ![s] = new]
          /\ \/ ok /\ new = old /\ At(s, "reload", "replace") /\ Release(s)
             \/ (~ok \/ new # old) /\ At(s, "reload", "store") /\ UNCHANGED lock
          /\ UNCHANGED <<now, store, snapshot, running, at, base, checked, todo, managerVars>>
    BY <1>8 DEF Reload, Readable
  <2>2. CASE ok
    <3>1. Outside(s) /\ (Finds(s) \/ Renews(s))
      BY <2>1, <2>2 DEF Finds, Renews, Fault
    <3> QED
      BY <3>1 DEF Effect
  <2>3. CASE ~ok
    <3>1. Outside(s) /\ Renews(s)
      BY <2>1, <2>3 DEF Renews, Fault
    <3> QED
      BY <3>1 DEF Effect
  <2> QED
    BY <2>2, <2>3
<1>9. CASE Store(s)
  <2>1. Outside(s) /\ Stores(s)
    BY <1>9 DEF Store, Stores
  <2> QED
    BY <2>1 DEF Effect
<1>10. CASE Replace(s)
  <2>1. Outside(s) /\ (Finishes(s) \/ Replaces(s))
    BY <1>10 DEF Replace, Ends, Finishes, Replaces
  <2> QED
    BY <2>1 DEF Effect
<1>11. CASE ReadList(s)
  <2>1. Outside(s) /\ Lists(s)
    BY <1>11 DEF ReadList, Lists
  <2> QED
    BY <2>1 DEF Effect
<1>12. CASE Push(s)
  <2>1. Outside(s) /\ (Finishes(s) \/ Pushes(s))
    <3>1. CASE todo[s] = {}
      BY <1>12, <3>1 DEF Push, Ends, Finishes, Pushes
    <3>2. CASE todo[s] # {}
      BY <1>12, <3>2 DEF Push, Pushes
    <3> QED
      BY <3>1, <3>2
  <2> QED
    BY <2>1 DEF Effect
<1>13. CASE ThreadEnds(s)
  <2>1. Outside(s) /\ Leaves(s)
    BY <1>13 DEF ThreadEnds, Leaves
  <2> QED
    BY <2>1 DEF Effect
<1>14. CASE CheckFails(s)
  <2>1. Outside(s) /\ Finishes(s)
    BY <1>14 DEF CheckFails, GivesUp, Ends, Finishes, Fault
  <2> QED
    BY <2>1 DEF Effect
<1>15. CASE Stop(s)
  <2>1. Outside(s) /\ Stops(s)
    BY <1>15 DEF Stop, Stops
  <2> QED
    BY <2>1 DEF Effect
<1> QED
  BY <1>1, <1>2, <1>3, <1>4, <1>5, <1>6, <1>7, <1>8, <1>9, <1>10, <1>11, <1>12, <1>13,
     <1>14, <1>15 DEF ThreadStep, Opening, Check

-------------------------------------------------------------------------------
(* Types, and keys that are spaced.                                        *)

Good(v) == v # Missing => Proper(v.keys)

\* Snapshots have between one key and :max-keys, spaced.
SpacedInv ==
  /\ Readable => Proper(store.keys)
  /\ \A s \in Services : Good(snapshot[s]) /\ Good(base[s]) /\ Good(winner[s])

\* What a thread makes of the store or of its own snapshot.
LEMMA RenewedHere ==
  ASSUME TypeInv, SpacedInv, NEW s \in Services,
         NEW v, (v = store /\ store # Corrupt) \/ v = base[s],
         NEW r, r = Renewed(v, at[s], s)
  PROVE  /\ r \in Snapshots /\ Proper(r.keys) /\ Due(r) > at[s]
         /\ (MaxKeys >= 4 /\ v # Missing) => Carries(v.keys, r.keys, at[s])
         /\ r # v =>
              /\ r.next = at[s] + Quarter /\ r.next <= From(r.keys) + 2 * Quarter
              /\ From(r.keys) = at[s] \/ (v # Missing /\ From(r.keys) <= From(v.keys))
<1>1. v = Missing \/ (v \in Snapshots /\ Proper(v.keys))
  BY DEF TypeInv, SpacedInv, Good, Kept, Readable
<1>2. at[s] \in Times
  BY DEF TypeInv
<1> QED
  BY <1>1, <1>2, RenewedFacts

\* The keys of what may be no snapshot.
LEMMA KeysOfKept ==
  ASSUME NEW v \in Kept
  PROVE  v.keys \in Seq(Keys)
<1>1. CASE v = Missing
  <2>1. v.keys = <<>>
    BY <1>1 DEF Missing
  <2> QED
    BY <2>1, EmptySeq
<1>2. CASE v \in Snapshots
  BY <1>2 DEF Snapshots
<1> QED
  BY <1>1, <1>2 DEF Kept

\* A thread step keeps the types.
LEMMA ThreadTypes ==
  ASSUME TypeInv, SpacedInv, NEW s \in Services, ThreadStep(s)
  PROVE  TypeInv'
<1>1. /\ Missing \in Kept /\ Snapshots \subseteq Kept /\ 0 \in Times
      /\ faults' = faults + 1 /\ faults < MaxFaults => faults' \in 0..MaxFaults
  BY QuarterFacts DEF Kept, Times, TypeInv
<1>2. store # Corrupt => Renewed(store, at[s], s) \in Snapshots
  BY RenewedHere
<1>3. Renewed(base[s], at[s], s) \in Snapshots
  BY RenewedHere
<1> USE DEF TypeInv, Places, storeVars, threadVars, managerVars, At, NoFault, Release, Fault
<1>4. CASE Open(s)
  BY <1>1, <1>4 DEF Open
<1>5. CASE OpenLoad(s)
  <2>1. CASE Renewed(store, at[s], s) = store /\ Starts(s, store, "open")
    BY <1>1, <1>2, <1>5, <2>1 DEF OpenLoad, Starts, Ends
  <2>2. CASE Renewed(store, at[s], s) # store
    BY <1>1, <1>2, <1>5, <2>2 DEF OpenLoad
  <2> QED
    BY <1>5, <2>1, <2>2 DEF OpenLoad
<1>6. CASE OpenStore(s)
  BY <1>1, <1>6 DEF OpenStore, Starts, Ends, Kept
<1>7. CASE OpenFails(s)
  BY <1>1, <1>7 DEF OpenFails
<1>8. CASE Wake(s)
  BY <1>1, <1>8 DEF Wake
<1>9. CASE Load(s)
  <2>1. CASE pc' = [pc EXCEPT ![s] = "replace"]
    <3>1. winner' = [winner EXCEPT ![s] = store] /\ store \in Kept
      BY <1>9, <2>1 DEF Load, Kept
    <3> QED
      BY <1>9, <2>1, <3>1 DEF Load
  <2>2. CASE pc' = [pc EXCEPT ![s] = "lock"]
    <3>1. winner' = winner
      BY <1>9, <2>2 DEF Load
    <3> QED
      BY <1>9, <2>2, <3>1 DEF Load
  <2> QED
    BY <1>9, <2>1, <2>2 DEF Load
<1>10. CASE TakeLock(s)
  BY <1>1, <1>10 DEF TakeLock
<1>11. CASE Reload(s)
  <2>1. PICK ok \in BOOLEAN :
          LET old == IF ok THEN store ELSE base[s]
              new == Renewed(old, at[s], s)
          IN
          /\ \/ ok /\ store \notin {Missing, Corrupt} /\ NoFault
             \/ ~ok /\ store \in {Missing, Corrupt} /\ NoFault
             \/ ~ok /\ Fault
          /\ loaded' = [loaded EXCEPT ![s] = ok]
          /\ winner' = [winner EXCEPT ![s] = new]
          /\ \/ ok /\ new = old /\ At(s, "reload", "replace") /\ Release(s)
             \/ (~ok \/ new # old) /\ At(s, "reload", "store") /\ UNCHANGED lock
          /\ UNCHANGED <<now, store, snapshot, running, at, base, checked, todo, managerVars>>
    BY <1>11 DEF Reload
  <2>2. /\ faults' \in 0..MaxFaults
        /\ lock' \in Services \cup {Free}
        /\ pc' \in [Services -> Places]
    BY <1>1, <2>1
  <2>3. winner' \in [Services -> Kept]
    <3>1. CASE ok
      BY <1>1, <1>2, <2>1, <3>1
    <3>2. CASE ~ok
      BY <1>1, <1>3, <2>1, <3>2
    <3> QED
      BY <3>1, <3>2
  <2> QED
    BY <2>1, <2>2, <2>3
<1>12. CASE Store(s)
  BY <1>1, <1>12 DEF Store, Kept
<1>13. CASE Replace(s)
  <2>1. CASE winner[s] = base[s]
    <3>1. Ends(s, "replace") /\ UNCHANGED <<snapshot, now, storeVars, running, todo, managerVars>>
      BY ONLY <1>13, <2>1 DEF Replace
    <3> QED
      BY <1>1, <3>1 DEF Ends
  <2>2. CASE winner[s] # base[s]
    <3>1. /\ pc' = [pc EXCEPT ![s] = "list"]
          /\ snapshot' = [snapshot EXCEPT ![s] = winner[s]]
          /\ UNCHANGED <<now, storeVars, running, todo, at, base, winner, loaded, checked,
                         managerVars>>
      BY ONLY <1>13, <2>2 DEF Replace, At
    <3> QED
      BY <3>1
  <2> QED
    BY <2>1, <2>2
<1>14. CASE ReadList(s)
  BY <1>1, <1>14 DEF ReadList
<1>15. CASE Push(s)
  <2>1. pc[s] = "push" /\ UNCHANGED <<now, storeVars, snapshot, running, natives, nat, since, seen>>
    BY <1>15 DEF Push
  <2>2. CASE todo[s] = {} /\ Ends(s, "push") /\ UNCHANGED <<todo, nativeKeys>>
    BY <1>1, <2>1, <2>2 DEF Ends
  <2>3. CASE \E m \in todo[s] :
          /\ nativeKeys' = [nativeKeys EXCEPT ![m] = snapshot[s].keys]
          /\ todo' = [todo EXCEPT ![s] = @ \ {m}]
          /\ UNCHANGED <<pc, checked, at, base, winner, loaded>>
    <3>1. snapshot[s].keys \in Seq(Keys)
      BY KeysOfKept
    <3> QED
      BY <1>1, <2>1, <2>3, <3>1
  <2> QED
    BY <1>15, <2>1, <2>2, <2>3 DEF Push
<1>16. CASE ThreadEnds(s)
  BY <1>1, <1>16 DEF ThreadEnds
<1>17. CASE CheckFails(s)
  <2>1. /\ GivesUp(s, "load") \/ GivesUp(s, "lock") \/ GivesUp(s, "store")
        /\ Fault /\ UNCHANGED <<now, store, managerVars>>
    BY <1>17 DEF CheckFails
  <2>a. lock' = lock \/ lock' = Free
    BY <1>17 DEF CheckFails
  <2>2. /\ pc' = [pc EXCEPT ![s] = "sleep"]
        /\ checked' = [checked EXCEPT ![s] = now] /\ at' = [at EXCEPT ![s] = 0]
        /\ base' = [base EXCEPT ![s] = Missing] /\ winner' = [winner EXCEPT ![s] = Missing]
        /\ loaded' = [loaded EXCEPT ![s] = TRUE]
        /\ UNCHANGED <<snapshot, running, todo>>
    BY ONLY <2>1 DEF GivesUp, Ends, At
  <2>3. faults' \in 0..MaxFaults
    BY <1>1, <2>1
  <2>4. lock' \in Services \cup {Free}
    BY <2>a
  <2> QED
    BY ONLY TypeInv, <1>1, <2>1, <2>2, <2>3, <2>4 DEF TypeInv, Places, managerVars
<1>18. CASE Stop(s)
  BY <1>1, <1>18 DEF Stop
<1> QED
  BY <1>4, <1>5, <1>6, <1>7, <1>8, <1>9, <1>10, <1>11, <1>12, <1>13, <1>14, <1>15, <1>16,
     <1>17, <1>18 DEF ThreadStep, Opening, Check

\* The steps that no thread takes.
ManagerStep(m) == Attach(m) \/ ReadKeys(m) \/ SetKeys(m) \/ Detach(m)

LEMMA NextCases ==
  ASSUME [Next]_vars
  PROVE  \/ \E s \in Services : ThreadStep(s)
         \/ \E m \in Managers : ManagerStep(m)
         \/ Damage \/ Tick \/ UNCHANGED vars
  BY DEF Next, ThreadStep, ManagerStep

\* They keep the types too.
LEMMA OtherTypes ==
  ASSUME TypeInv, (\E m \in Managers : ManagerStep(m)) \/ Damage \/ Tick \/ UNCHANGED vars
  PROVE  TypeInv'
<1> USE DEF TypeInv, storeVars, threadVars, managerVars, Manager
<1>1. ASSUME NEW m \in Managers, ManagerStep(m) PROVE TypeInv'
  <2>1. Home[m] \in Services /\ 0 \in Times
    BY TicketAssumption DEF Times
  <2>2. <<[from |-> now, by |-> m]>> \in Seq(Keys) /\ <<>> \in Seq(Keys)
    <3>1. [from |-> now, by |-> m] \in Keys
      BY DEF Keys
    <3> QED
      BY <3>1, EmptySeq
  <2>3. snapshot[Home[m]].keys \in Seq(Keys)
    BY <2>1, KeysOfKept
  <2>4. CASE Attach(m)
    BY <2>1, <2>2, <2>4 DEF Attach
  <2>5. CASE ReadKeys(m)
    BY <2>3, <2>5 DEF ReadKeys
  <2>6. CASE SetKeys(m)
    BY <2>1, <2>2, <2>6 DEF SetKeys
  <2>7. CASE Detach(m)
    BY <2>1, <2>7 DEF Detach
  <2> QED
    BY <1>1, <2>4, <2>5, <2>6, <2>7 DEF ManagerStep
<1>2. CASE Damage
  <2>1. faults' \in 0..MaxFaults
    BY <1>2, QuarterFacts DEF Damage, Fault
  <2> QED
    BY <1>2, <2>1 DEF Damage
<1>3. CASE Tick
  <2>1. now' \in Times
    BY <1>3, QuarterFacts DEF Tick, Times
  <2> QED
    BY <1>3, <2>1 DEF Tick
<1>4. CASE UNCHANGED vars
  BY <1>4 DEF vars
<1> QED
  BY <1>1, <1>2, <1>3, <1>4

\* Only steps of threads, and damage, change what threads see.
LEMMA OtherEffects ==
  ASSUME TypeInv, (\E m \in Managers : ManagerStep(m)) \/ Damage \/ Tick \/ UNCHANGED vars
  PROVE  /\ \A s \in Services : Same(s)
         /\ lock' = lock
         /\ \/ store' = store /\ faults' = faults
            \/ store' \in {Missing, Corrupt} /\ lock = Free /\ faults' = faults + 1
  BY DEF Same, KeepsLocals, KeepsThread, ManagerStep, Attach, ReadKeys, SetKeys, Detach,
         Damage, Tick, Fault, vars, storeVars, threadVars, managerVars

\* Every snapshot that a step makes is spaced.
LEMMA SpacedStep ==
  ASSUME TypeInv, SpacedInv, [Next]_vars
  PROVE  SpacedInv'
<1>1. ASSUME NEW s \in Services, ThreadStep(s) PROVE SpacedInv'
  <2>1. Outside(s) /\ Effect(s)
    BY <1>1, ThreadEffects
  <2>2. ASSUME NEW r \in Services, r # s
        PROVE  Good(snapshot'[r]) /\ Good(base'[r]) /\ Good(winner'[r])
    BY <2>1, <2>2 DEF Outside, Same, KeepsLocals, KeepsThread, SpacedInv
  <2>3. /\ Good(Missing) /\ (store # Corrupt => Good(store))
        /\ Good(snapshot[s]) /\ Good(base[s]) /\ Good(winner[s])
        /\ store # Corrupt => Good(Renewed(store, at[s], s))
        /\ Good(Renewed(base[s], at[s], s))
    BY RenewedHere DEF SpacedInv, Good, Readable
  <2> HIDE DEF Good
  <2>4. /\ Good(snapshot'[s]) /\ Good(base'[s]) /\ Good(winner'[s])
        /\ store' = store \/ Good(store')
    BY <2>1, <2>3 DEF Effect, Opens, StartsWith, Prepares, FailsToOpen, Wakes, Finds, Waits,
       Locks, Renews, Stores, Finishes, Replaces, Lists, Pushes, Leaves, Stops, KeepsLocals,
       KeepsThread, KeepsStore, Clears, Moves, Readable
  <2>5. Readable' => Proper(store'.keys)
    BY <2>4 DEF SpacedInv, Readable, Good
  <2> QED
    BY <2>2, <2>4, <2>5 DEF SpacedInv
<1>2. CASE (\E m \in Managers : ManagerStep(m)) \/ Damage \/ Tick \/ UNCHANGED vars
  BY <1>2, OtherEffects DEF SpacedInv, Same, KeepsLocals, KeepsThread, Readable, Good
<1> QED
  BY <1>1, <1>2, NextCases

-------------------------------------------------------------------------------
(* The lock, and the locals of a check.                                    *)

Holding == {"open", "openStore", "reload", "store"}
Started == {"sleep", "load", "lock", "reload", "store", "replace", "list", "push"}
Looking == {"load", "lock", "reload", "store", "replace"}

LocalOf(s) ==
  /\ pc[s] \in Holding <=> lock = s
  /\ pc[s] \in Started => snapshot[s] # Missing
  /\ pc[s] \in Looking => base[s] = snapshot[s]
  /\ pc[s] \in {"openStore", "store", "replace"} => winner[s] # Missing
  /\ running[s] => pc[s] \in Started
LocalInv == \A s \in Services : LocalOf(s)

\* What the thread of s holds, it holds by itself.
LEMMA LocalStep ==
  ASSUME TypeInv, SpacedInv, LocalInv, [Next]_vars
  PROVE  LocalInv'
<1> USE DEF Holding, Started, Looking
<1>1. ASSUME NEW s \in Services, ThreadStep(s) PROVE LocalInv'
  <2>1. Outside(s) /\ Effect(s)
    BY <1>1, ThreadEffects
  <2>2. ASSUME NEW r \in Services, r # s PROVE LocalOf(r)'
    <3>1. Same(r) /\ (lock' = r <=> lock = r)
      BY <2>1, <2>2, TicketAssumption DEF Outside
    <3> QED
      BY <3>1 DEF LocalInv, LocalOf, Same, KeepsLocals, KeepsThread
  <2>3. LocalOf(s) /\ pc[s] \in Places /\ lock \in Services \cup {Free}
    BY DEF LocalInv, TypeInv
  <2>4. /\ store # Corrupt => Renewed(store, at[s], s) # Missing
        /\ Renewed(base[s], at[s], s) # Missing
    BY RenewedHere, SnapshotFacts
  <2>f. Free # s
    BY TicketAssumption
  <2>5. ASSUME Opens(s) \/ Prepares(s) \/ FailsToOpen(s) \/ Wakes(s)
       PROVE  LocalOf(s)'
    BY ONLY <2>3, <2>4, <2>f, <2>5
       DEF Opens, Prepares, FailsToOpen, Wakes, LocalOf, Moves, KeepsLocals, KeepsThread,
           KeepsStore, Clears, Readable, Holding, Started, Looking
  <2>6. ASSUME Finds(s) \/ StartsWith(s)
       PROVE  LocalOf(s)'
    BY ONLY <2>3, <2>4, <2>f, <2>6
       DEF Finds, StartsWith, LocalOf, Moves, KeepsLocals, KeepsThread,
           KeepsStore, Clears, Readable, Holding, Started, Looking
  <2>7. ASSUME Waits(s) \/ Locks(s) \/ Renews(s)
       PROVE  LocalOf(s)'
    BY ONLY <2>3, <2>4, <2>f, <2>7
       DEF Waits, Locks, Renews, LocalOf, Moves, KeepsLocals, KeepsThread,
           KeepsStore, Clears, Readable, Holding, Started, Looking
  <2>8. ASSUME Stores(s) \/ Finishes(s)
       PROVE  LocalOf(s)'
    BY ONLY <2>3, <2>4, <2>f, <2>8
       DEF Stores, Finishes, LocalOf, Moves, KeepsLocals, KeepsThread,
           KeepsStore, Clears, Readable, Holding, Started, Looking
  <2>9. ASSUME Replaces(s) \/ Lists(s) \/ Pushes(s) \/ Leaves(s) \/ Stops(s)
       PROVE  LocalOf(s)'
    BY ONLY <2>3, <2>4, <2>f, <2>9
       DEF Replaces, Lists, Pushes, Leaves, Stops, LocalOf, Moves, KeepsLocals, KeepsThread,
           KeepsStore, Clears, Readable, Holding, Started, Looking
  <2>10. LocalOf(s)'
    BY ONLY <2>1, <2>5, <2>6, <2>7, <2>8, <2>9 DEF Effect
  <2> QED
    BY <2>2, <2>10 DEF LocalInv
<1>2. CASE (\E m \in Managers : ManagerStep(m)) \/ Damage \/ Tick \/ UNCHANGED vars
  BY <1>2, OtherEffects DEF LocalInv, LocalOf, Same, KeepsLocals, KeepsThread
<1> QED
  BY <1>1, <1>2, NextCases

\* The managers on the list of a service are its own, and what a thread still
\* pushes to is on it or was.
ListInv ==
  /\ \A s \in Services :
       /\ natives[s] \subseteq {m \in Managers : Home[m] = s}
       /\ todo[s] \subseteq natives[s] \cup {m \in Managers : nat[m] = "detached"}
  /\ \A m \in Managers :
       nat[m] \in {"added", "read", "attached"} <=> m \in natives[Home[m]]

LEMMA ListStep ==
  ASSUME TypeInv, ListInv, [Next]_vars
  PROVE  ListInv'
<1>1. ASSUME NEW s \in Services, ThreadStep(s) PROVE ListInv'
  <2>1. Outside(s) /\ Effect(s)
    BY <1>1, ThreadEffects
  <2>2. \A r \in Services : r # s => todo'[r] = todo[r]
    BY <2>1 DEF Outside, Same, KeepsThread
  <2>3. todo'[s] \subseteq todo[s] \/ todo'[s] = natives[s]
    BY <2>1 DEF Effect, Opens, StartsWith, Prepares, FailsToOpen, Wakes, Finds, Waits,
       Locks, Renews, Stores, Finishes, Replaces, Lists, Pushes, Leaves, Stops, KeepsThread
  <2>4. natives' = natives /\ nat' = nat
    BY <2>1 DEF Outside
  <2> QED
    BY <2>2, <2>3, <2>4 DEF ListInv
<1>2. ASSUME NEW m \in Managers, ManagerStep(m) PROVE ListInv'
  <2>1. /\ \A s \in Services : todo'[s] = todo[s]
        /\ Home[m] \in Services
    BY <1>2, TicketAssumption DEF ManagerStep, Attach, ReadKeys, SetKeys, Detach, threadVars
  <2>2. CASE Attach(m)
    <3>1. /\ natives' = [natives EXCEPT ![Home[m]] = @ \cup {m}]
          /\ nat[m] = "none" /\ nat' = [nat EXCEPT ![m] = "added"]
      BY <2>2 DEF Attach, Manager
    <3> QED
      BY <2>1, <3>1 DEF ListInv, TypeInv
  <2>3. CASE ReadKeys(m) \/ SetKeys(m)
    <3>1. /\ natives' = natives /\ nat[m] \in {"added", "read"}
          /\ \E to \in {"read", "attached"} : nat' = [nat EXCEPT ![m] = to]
      BY <2>3 DEF ReadKeys, SetKeys, Manager
    <3> QED
      BY <2>1, <3>1 DEF ListInv, TypeInv
  <2>4. CASE Detach(m)
    <3>1. /\ natives' = [natives EXCEPT ![Home[m]] = @ \ {m}]
          /\ nat[m] = "attached" /\ nat' = [nat EXCEPT ![m] = "detached"]
      BY <2>4 DEF Detach, Manager
    <3> QED
      BY <2>1, <3>1 DEF ListInv, TypeInv
  <2> QED
    BY <1>2, <2>2, <2>3, <2>4 DEF ManagerStep
<1>3. CASE Damage \/ Tick \/ UNCHANGED vars
  BY <1>3 DEF ListInv, Damage, Tick, vars, threadVars, managerVars
<1> QED
  BY <1>1, <1>2, <1>3, NextCases

-------------------------------------------------------------------------------
(* Keys are kept, and shared.                                              *)

\* The time of a check is not ahead of the clock.
TimeInv == \A s \in Services : at[s] <= now

LEMMA TimeStep ==
  ASSUME TypeInv, TimeInv, [Next]_vars
  PROVE  TimeInv'
<1>1. /\ now \in Nat /\ \A s \in Services : at[s] \in Nat
  BY DEF TypeInv, Times
<1>2. ASSUME NEW s \in Services, ThreadStep(s) PROVE TimeInv'
  <2>1. Outside(s) /\ Effect(s)
    BY <1>2, ThreadEffects
  <2>2. now' = now /\ \A r \in Services : r # s => at'[r] = at[r]
    BY <2>1 DEF Outside, Same, KeepsLocals
  <2>3. at'[s] \in {at[s], now, 0}
    BY <2>1 DEF Effect, Opens, StartsWith, Prepares, FailsToOpen, Wakes, Finds, Waits,
       Locks, Renews, Stores, Finishes, Replaces, Lists, Pushes, Leaves, Stops, KeepsLocals,
       Clears
  <2> QED
    BY <1>1, <2>2, <2>3 DEF TimeInv
<1>3. CASE (\E m \in Managers : ManagerStep(m)) \/ Damage \/ Tick \/ UNCHANGED vars
  <2>1. \A s \in Services : at'[s] = at[s]
    BY <1>3, OtherEffects DEF Same, KeepsLocals
  <2>2. now' = now \/ now' = now + 1
    BY <1>3 DEF ManagerStep, Attach, ReadKeys, SetKeys, Detach, Damage, Tick, vars
  <2> QED
    BY <1>1, <2>1, <2>2 DEF TimeInv
<1> QED
  BY <1>2, <1>3, NextCases

\* Under the lock, what is about to be stored has all of what is stored.
KeptOf(s) ==
  (Readable /\ (pc[s] = "openStore" \/ (pc[s] = "store" /\ loaded[s])))
    => Carries(store.keys, winner[s].keys, at[s])
KeptInv == MaxKeys >= 4 => \A s \in Services : KeptOf(s)

LEMMA KeptStep ==
  ASSUME TypeInv, SpacedInv, LocalInv, KeptInv, [Next]_vars
  PROVE  KeptInv'
<1> SUFFICES ASSUME MaxKeys >= 4 PROVE \A s \in Services : KeptOf(s)'
  BY DEF KeptInv
<1>1. ASSUME NEW s \in Services, ThreadStep(s) PROVE \A r \in Services : KeptOf(r)'
  <2>1. Outside(s) /\ Effect(s)
    BY <1>1, ThreadEffects
  <2>2. ASSUME NEW r \in Services, r # s PROVE KeptOf(r)'
    <3>1. Same(r)
      BY <2>1, <2>2 DEF Outside
    <3>2. store' = store \/ lock = s
      BY <2>1 DEF Effect, Opens, StartsWith, Prepares, FailsToOpen, Wakes, Finds, Waits,
         Locks, Renews, Stores, Finishes, Replaces, Lists, Pushes, Leaves, Stops, KeepsStore
    <3>3. CASE store' = store
      BY <3>1, <3>3 DEF KeptInv, KeptOf, Same, KeepsLocals, Readable
    <3>4. CASE lock = s
      <4>1. pc'[r] \notin Holding
        BY <2>2, <3>1, <3>4 DEF LocalInv, LocalOf, Same
      <4> QED
        BY <4>1 DEF KeptOf, Holding
    <3> QED
      BY <3>2, <3>3, <3>4
  <2>3. Readable => Carries(store.keys, Renewed(store, at[s], s).keys, at[s])
    BY RenewedHere DEF Readable
  <2>4. KeptOf(s)
    BY DEF KeptInv
  <2> USE DEF KeptOf, Moves, KeepsLocals, KeepsThread, KeepsStore, Clears, Readable
  <2>5. ASSUME Prepares(s) \/ Renews(s) PROVE KeptOf(s)'
    BY <2>3, <2>5 DEF Prepares, Renews
  <2>6. ASSUME Stops(s) PROVE KeptOf(s)'
    BY <2>4, <2>6 DEF Stops
  <2>7. ASSUME ~(Prepares(s) \/ Renews(s) \/ Stops(s)) PROVE KeptOf(s)'
    <3>1. pc'[s] \notin {"openStore", "store"}
      BY <2>1, <2>7 DEF Effect, Opens, StartsWith, FailsToOpen, Wakes, Finds, Waits,
         Locks, Stores, Finishes, Replaces, Lists, Pushes, Leaves
    <3> QED
      BY <3>1
  <2> QED
    BY <2>2, <2>5, <2>6, <2>7
<1>2. CASE (\E m \in Managers : ManagerStep(m)) \/ Damage \/ Tick \/ UNCHANGED vars
  BY <1>2, OtherEffects DEF KeptInv, KeptOf, Same, KeepsLocals, Readable
<1> QED
  BY <1>1, <1>2, NextCases

\* Unless the store failed or was damaged, it has all that services have.
HasAll(v) == v # Missing => Readable /\ Carries(v.keys, store.keys, now)
SharedOf(s) ==
  /\ HasAll(snapshot[s])
  /\ pc[s] = "replace" => HasAll(winner[s])
  /\ pc[s] = "store" => loaded[s]
SharedInv ==
  (faults = 0 /\ MaxKeys >= 4) => store # Corrupt /\ \A s \in Services : SharedOf(s)

LEMMA SharedStep ==
  ASSUME TypeInv, SpacedInv, LocalInv, TimeInv, KeptInv, SharedInv, [Next]_vars
  PROVE  SharedInv'
<1> SUFFICES ASSUME faults' = 0, MaxKeys >= 4
             PROVE  store' # Corrupt /\ \A r \in Services : SharedOf(r)'
  BY DEF SharedInv
<1>n. now \in Nat /\ faults \in Nat /\ \A s \in Services : at[s] \in Nat /\ at[s] <= now
  BY QuarterFacts DEF TypeInv, Times, TimeInv
<1>1. ASSUME NEW s \in Services, ThreadStep(s)
      PROVE  store' # Corrupt /\ \A r \in Services : SharedOf(r)'
  <2>1. Outside(s) /\ Effect(s)
    BY <1>1, ThreadEffects
  <2>2. faults = 0 /\ now' = now
    BY <1>n, <2>1 DEF Outside
  <2>3. store # Corrupt /\ \A r \in Services : SharedOf(r) /\ KeptOf(r)
    BY <2>2 DEF SharedInv, KeptInv
  <2>s. SharedOf(s) /\ KeptOf(s) /\ LocalOf(s)
    BY <2>3 DEF LocalInv
  <2>4. winner[s] # Missing => winner[s] \in Snapshots /\ Proper(winner[s].keys)
    BY DEF TypeInv, Kept, SpacedInv, Good
  <2>5. winner[s] # Corrupt
    <3>1. Missing # Corrupt
      BY DEF Missing, Corrupt
    <3> QED
      BY <2>4, <3>1, SnapshotFacts
  <2>6. \/ store' = store
        \/ /\ store' = winner[s] /\ winner[s] # Missing
           /\ Readable => Carries(store.keys, winner[s].keys, at[s])
    <3>1. \/ store' = store
          \/ store' = winner[s] /\ (pc[s] = "openStore" \/ (pc[s] = "store" /\ loaded[s]))
      BY ONLY <2>1, <2>s DEF Effect, Opens, StartsWith, Prepares, FailsToOpen, Wakes, Finds,
         Waits, Locks, Renews, Stores, Finishes, Replaces, Lists, Pushes, Leaves, Stops,
         KeepsStore, Moves, SharedOf
    <3> QED
      BY <3>1, <2>s DEF LocalOf, KeptOf
  <2>7. store' # Corrupt /\ (Readable => Readable')
    BY <2>3, <2>5, <2>6 DEF Readable
  <2>8. ASSUME NEW v \in Kept, HasAll(v) PROVE HasAll(v)'
    <3> SUFFICES ASSUME v # Missing PROVE Readable' /\ Carries(v.keys, store'.keys, now)
      BY <2>2 DEF HasAll
    <3>1. Readable /\ Carries(v.keys, store.keys, now)
      BY <2>8 DEF HasAll
    <3>2. CASE store' = store
      BY <2>7, <3>1, <3>2
    <3>3. CASE /\ store' = winner[s] /\ winner[s] # Missing
               /\ Readable => Carries(store.keys, winner[s].keys, at[s])
      <4>1. v.keys \in Seq(Keys) /\ store.keys \in Seq(Keys)
        BY <3>1, KeysOfKept DEF TypeInv, Kept, Readable
      <4>2. at[s] \in Int /\ now \in Int /\ at[s] <= now
        BY <1>n
      <4>3. Carries(v.keys, store'.keys, now)
        BY <3>1, <3>3, <4>1, <4>2, CarriesOn
      <4> QED
        BY <2>7, <3>1, <4>3
    <3> QED
      BY <2>6, <3>2, <3>3
  <2>9. ASSUME NEW r \in Services, r # s PROVE SharedOf(r)'
    <3>1. Same(r)
      BY <2>1, <2>9 DEF Outside
    <3>2. SharedOf(r) /\ snapshot[r] \in Kept /\ winner[r] \in Kept
      BY <2>3 DEF TypeInv
    <3>3. HasAll(snapshot[r])'
      <4>1. (HasAll(snapshot[r]))' <=> \A v \in {snapshot'[r]} : HasAll(v)'
        BY DEF HasAll
      <4> QED
        BY <2>8, <3>1, <3>2, <4>1 DEF SharedOf, Same, KeepsThread
    <3>4. pc'[r] = "replace" => HasAll(winner[r])'
      <4>1. (HasAll(winner[r]))' <=> \A v \in {winner'[r]} : HasAll(v)'
        BY DEF HasAll
      <4> QED
        BY <2>8, <3>1, <3>2, <4>1 DEF SharedOf, Same, KeepsLocals
    <3> QED
      BY <3>1, <3>2, <3>3, <3>4 DEF SharedOf, Same, KeepsLocals
  <2>10. ASSUME NEW v, v = store' PROVE HasAll(v)'
    <3> SUFFICES ASSUME v # Missing PROVE Readable' /\ Carries(v.keys, store'.keys, now)
      BY <2>2 DEF HasAll
    <3> QED
      BY <2>7, <2>10 DEF Readable, Carries
  <2>11. HasAll(snapshot[s])'
    <3>1. (HasAll(snapshot[s]))' <=> \A v \in {snapshot'[s]} : HasAll(v)'
      BY DEF HasAll
    <3>2. snapshot[s] \in Kept /\ winner[s] \in Kept
      BY DEF TypeInv
    <3>3. \/ snapshot'[s] = snapshot[s] \/ snapshot'[s] = store'
          \/ pc[s] = "replace" /\ snapshot'[s] = winner[s]
      BY ONLY <2>1 DEF Effect, Opens, StartsWith, Prepares, FailsToOpen, Wakes, Finds,
         Waits, Locks, Renews, Stores, Finishes, Replaces, Lists, Pushes, Leaves, Stops,
         KeepsThread, Moves
    <3>4. CASE snapshot'[s] = snapshot[s]
      BY <2>8, <2>s, <3>1, <3>2, <3>4 DEF SharedOf
    <3>5. CASE snapshot'[s] = store'
      BY <2>10, <3>1, <3>5
    <3>6. CASE pc[s] = "replace" /\ snapshot'[s] = winner[s]
      BY <2>8, <2>s, <3>1, <3>2, <3>6 DEF SharedOf
    <3> QED
      BY <3>3, <3>4, <3>5, <3>6
  <2>12. pc'[s] = "replace" => HasAll(winner[s])'
    <3>1. (HasAll(winner[s]))' <=> \A v \in {winner'[s]} : HasAll(v)'
      BY DEF HasAll
    <3>2. winner[s] \in Kept
      BY DEF TypeInv
    <3>3. pc'[s] = "replace" =>
            winner'[s] = store' \/ (pc[s] = "replace" /\ winner'[s] = winner[s])
      BY ONLY <2>1 DEF Effect, Opens, StartsWith, Prepares, FailsToOpen, Wakes, Finds,
         Waits, Locks, Renews, Stores, Finishes, Replaces, Lists, Pushes, Leaves, Stops,
         KeepsLocals, KeepsStore, Moves
    <3>4. CASE winner'[s] = store'
      BY <2>10, <3>1, <3>4
    <3>5. CASE pc[s] = "replace" /\ winner'[s] = winner[s]
      BY <2>8, <2>s, <3>1, <3>2, <3>5 DEF SharedOf
    <3> QED
      BY <3>3, <3>4, <3>5
  <2>13. pc'[s] = "store" => loaded'[s]
    <3>1. pc'[s] = "store" =>
            \/ pc[s] = "store" /\ loaded'[s] = loaded[s]
            \/ loaded'[s]
            \/ pc[s] = "reload" /\ (store \in {Missing, Corrupt} \/ faults' = faults + 1)
      BY ONLY <2>1 DEF Effect, Opens, StartsWith, Prepares, FailsToOpen, Wakes, Finds,
         Waits, Locks, Renews, Stores, Finishes, Replaces, Lists, Pushes, Leaves, Stops,
         KeepsLocals, Moves
    <3>2. pc[s] = "reload" => store \notin {Missing, Corrupt}
      BY <2>s DEF LocalOf, SharedOf, HasAll, Started, Readable
    <3> QED
      BY <2>2, <2>s, <3>1, <3>2 DEF SharedOf
  <2>14. SharedOf(s)'
    BY <2>11, <2>12, <2>13 DEF SharedOf
  <2> QED
    BY <2>7, <2>9, <2>14
<1>2. CASE (\E m \in Managers : ManagerStep(m)) \/ Damage \/ Tick \/ UNCHANGED vars
  <2>1. /\ \A s \in Services : Same(s)
        /\ store' = store /\ faults = 0
    BY <1>n, <1>2, OtherEffects
  <2>2. store # Corrupt /\ \A r \in Services : SharedOf(r)
    BY <2>1 DEF SharedInv
  <2>3. now' = now \/ now' = now + 1
    BY <1>2 DEF ManagerStep, Attach, ReadKeys, SetKeys, Detach, Damage, Tick, vars
  <2>4. now \in Int /\ now' \in Int /\ now <= now'
    BY <1>n, <2>3
  <2>5. ASSUME NEW v \in Kept, HasAll(v) PROVE HasAll(v)'
    <3> SUFFICES ASSUME v # Missing PROVE Readable /\ Carries(v.keys, store.keys, now')
      BY <2>1 DEF HasAll, Readable
    <3>1. Readable /\ Carries(v.keys, store.keys, now)
      BY <2>5 DEF HasAll
    <3>2. v.keys \in Seq(Keys) /\ store.keys \in Seq(Keys)
      BY <3>1, KeysOfKept DEF TypeInv, Kept, Readable
    <3> QED
      BY <2>4, <3>1, <3>2, CarriesOn
  <2>6. ASSUME NEW r \in Services PROVE SharedOf(r)'
    <3>1. Same(r) /\ SharedOf(r) /\ snapshot[r] \in Kept /\ winner[r] \in Kept
      BY <2>1, <2>2 DEF TypeInv
    <3>2. HasAll(snapshot[r])'
      <4>1. (HasAll(snapshot[r]))' <=> \A v \in {snapshot'[r]} : HasAll(v)'
        BY DEF HasAll
      <4> QED
        BY <2>5, <3>1, <4>1 DEF SharedOf, Same, KeepsThread
    <3>3. pc'[r] = "replace" => HasAll(winner[r])'
      <4>1. (HasAll(winner[r]))' <=> \A v \in {winner'[r]} : HasAll(v)'
        BY DEF HasAll
      <4> QED
        BY <2>5, <3>1, <4>1 DEF SharedOf, Same, KeepsLocals
    <3> QED
      BY <3>1, <3>2, <3>3 DEF SharedOf, Same, KeepsLocals
  <2> QED
    BY <2>1, <2>2, <2>6
<1> QED
  BY <1>1, <1>2, NextCases

-------------------------------------------------------------------------------
(* The theorems on what is stored.                                         *)

StoreInv ==
  /\ TypeInv /\ SpacedInv /\ LocalInv /\ ListInv /\ TimeInv /\ KeptInv /\ SharedInv

LEMMA InitStore ==
  ASSUME Init
  PROVE  StoreInv
<1>1. <<>> \in Seq(Keys) /\ 0 \in Times /\ 0 \in 0..MaxFaults
  BY EmptySeq, QuarterFacts DEF Times
<1>2. TypeInv
  BY <1>1 DEF Init, TypeInv, Kept, Places
<1>3. SpacedInv
  BY DEF Init, SpacedInv, Readable, Good
<1>4. LocalInv
  BY TicketAssumption DEF Init, LocalInv, LocalOf, Holding, Started, Looking
<1>5. ListInv
  BY TicketAssumption DEF Init, ListInv
<1>6. TimeInv
  BY DEF Init, TimeInv
<1>7. KeptInv
  BY DEF Init, KeptInv, KeptOf
<1>8. SharedInv
  <2>1. Missing # Corrupt
    BY DEF Missing, Corrupt
  <2> QED
    BY <2>1 DEF Init, SharedInv, SharedOf, HasAll
<1> QED
  BY <1>2, <1>3, <1>4, <1>5, <1>6, <1>7, <1>8 DEF StoreInv

LEMMA StoreStep ==
  ASSUME StoreInv, [Next]_vars
  PROVE  StoreInv'
<1> USE DEF StoreInv
<1>1. TypeInv'
  BY NextCases, ThreadTypes, OtherTypes
<1>2. SpacedInv' /\ LocalInv'
  BY SpacedStep, LocalStep
<1>3. ListInv' /\ TimeInv'
  BY ListStep, TimeStep
<1>4. KeptInv' /\ SharedInv'
  BY KeptStep, SharedStep
<1> QED
  BY <1>1, <1>2, <1>3, <1>4

\* The inductive invariant of what is stored.
THEOREM StoreInvariant == Spec => []StoreInv
<1>1. Init => StoreInv
  BY InitStore
<1>2. StoreInv /\ [Next]_vars => StoreInv'
  BY StoreStep
<1> QED
  BY <1>1, <1>2, PTL DEF Spec

\* Keys are well-typed, the newest first, no more than :max-keys of them, and
\* shared by the store unless it failed (KeysSound).
THEOREM KeysAreSound == Spec => []KeysSound
<1>1. StoreInv => KeysSound
  <2> SUFFICES ASSUME StoreInv PROVE KeysSound
    OBVIOUS
  <2> USE DEF StoreInv
  <2>1. TypeOK
    <3>1. /\ now \in Times /\ lock \in Services \cup {Free} /\ faults \in 0..MaxFaults
          /\ store \in Snapshots \cup {Missing, Corrupt}
      BY DEF TypeInv
    <3>2. ASSUME NEW s \in Services
          PROVE  /\ {snapshot[s], base[s], winner[s]} \subseteq Snapshots \cup {Missing}
                 /\ pc[s] \in {"off", "open", "openStore", "sleep", "load", "lock", "reload",
                               "store", "replace", "list", "push", "done"}
                 /\ {at[s], checked[s]} \subseteq Times
                 /\ {running[s], loaded[s]} \subseteq BOOLEAN
                 /\ todo[s] \subseteq natives[s] \cup {m \in Managers : nat[m] = "detached"}
                 /\ natives[s] \subseteq {m \in Managers : Home[m] = s}
      BY DEF TypeInv, ListInv, Kept, Places
    <3>3. ASSUME NEW m \in Managers
          PROVE  /\ nat[m] \in {"none", "added", "read", "attached", "detached"}
                 /\ nativeKeys[m] \in Seq(Keys) /\ seen[m] \in Seq(Keys)
                 /\ since[m] \in Times
      BY DEF TypeInv
    <3> QED
      BY <3>1, <3>2, <3>3 DEF TypeOK
  <2>2. KeysShared
    BY DEF KeysShared, SharedInv, SharedOf, HasAll, Carries
  <2>3. ASSUME NEW keys \in KeySeqs
        PROVE  /\ Len(keys) \in 1..MaxKeys
               /\ \A i, j \in DOMAIN keys : i < j => keys[i].from > keys[j].from
    <3>1. keys \in Seq(Keys) /\ Proper(keys)
      <4>1. CASE \E s \in Services : snapshot[s] # Missing /\ keys = snapshot[s].keys
        BY <4>1, KeysOfKept DEF SpacedInv, Good, TypeInv
      <4>2. CASE Readable /\ keys = store.keys
        BY <4>2, KeysOfKept DEF SpacedInv, Readable, TypeInv, Kept
      <4> QED
        BY <4>1, <4>2 DEF KeySeqs, Readable
    <3>2. ASSUME NEW i \in DOMAIN keys, NEW j \in DOMAIN keys, i < j
          PROVE  keys[i].from > keys[j].from
      <4>1. i \in 1..Len(keys) /\ j \in 1..Len(keys)
        BY <3>1, KeyFacts
      <4>2. keys[i].from \in Nat /\ keys[j].from \in Nat
        BY <3>1, <4>1, KeyFacts
      <4>3. keys[i].from - keys[j].from >= Quarter
        BY <3>1, <3>2, <4>1 DEF Proper, Spaced
      <4> QED
        BY <4>2, <4>3, QuarterFacts
    <3> QED
      BY <3>1, <3>2 DEF Proper
  <2>4. \A s \in Services : pc[s] \in {"open", "openStore", "reload", "store"} <=> lock = s
    BY DEF LocalInv, LocalOf, Holding
  <2> QED
    BY <2>1, <2>2, <2>3, <2>4 DEF KeysSound
<1> QED
  BY <1>1, StoreInvariant, PTL

\* With four keys at least, a thread that could read the store under its lock
\* writes back every key that has not expired (KeysKept).
THEOREM KeysAreKept == Spec => KeysKept
<1>1. StoreInv /\ [Next]_vars =>
        [MaxKeys >= 4 =>
           \A s \in Services : (Store(s) /\ loaded[s] /\ store \notin {Missing, Corrupt}) =>
             \A k \in ToSet(store.keys) : NotAfter(k) >= at[s] => k \in ToSet(store'.keys)]_vars
  <2> SUFFICES ASSUME StoreInv, MaxKeys >= 4, NEW s \in Services, Store(s), loaded[s], Readable
               PROVE  \A k \in ToSet(store.keys) :
                        NotAfter(k) >= at[s] => k \in ToSet(store'.keys)
    BY DEF Readable
  <2>1. pc[s] = "store" /\ store' = winner[s]
    BY DEF Store, At
  <2>2. Carries(store.keys, winner[s].keys, at[s])
    BY <2>1 DEF StoreInv, KeptInv, KeptOf
  <2> QED
    BY <2>1, <2>2 DEF Carries
<1> QED
  BY <1>1, StoreInvariant, PTL DEF Spec, KeysKept

-------------------------------------------------------------------------------
(* Time.  A snapshot is due half a lifetime after its newest key was made  *)
(* at the latest, checks are at most CheckEvery apart, and each failure of *)
(* the storage costs one of them.                                          *)

Dated(v) ==
  v # Missing =>
    v.next <= now + Quarter /\ v.next <= From(v.keys) + 2 * Quarter /\ From(v.keys) <= now

DatedInv ==
  /\ Readable => Dated(store)
  /\ \A s \in Services : Dated(snapshot[s]) /\ Dated(base[s]) /\ Dated(winner[s])

LEMMA DatedFacts ==
  ASSUME NEW v \in Kept, v # Missing, Good(v)
  PROVE  /\ Len(v.keys) \in Nat /\ Len(v.keys) > 0
         /\ v.keys \in Seq(Keys) /\ v.next \in Nat
         /\ From(v.keys) \in Nat /\ Due(v) \in Nat
         /\ Due(v) >= v.next
         /\ (Dated(v) /\ now \in Nat) =>
              Due(v) <= From(v.keys) + 2 * Quarter /\ Due(v) <= now + Quarter
              /\ From(v.keys) <= now
<1>1. v \in Snapshots /\ Proper(v.keys)
  BY DEF Kept, Good
<1>2. /\ v.keys \in Seq(Keys) /\ v.next \in Nat
      /\ Len(v.keys) \in Nat /\ Len(v.keys) > 0
      /\ From(v.keys) \in Nat /\ Due(v) \in Nat /\ Due(v) >= v.next
      /\ Due(v) = v.next \/ Due(v) = From(v.keys) + Quarter
  BY <1>1, SnapshotFacts
<1>3. ASSUME Dated(v), now \in Nat
      PROVE  Due(v) <= From(v.keys) + 2 * Quarter /\ Due(v) <= now + Quarter
             /\ From(v.keys) <= now
  <2>1. v.next <= now + Quarter /\ v.next <= From(v.keys) + 2 * Quarter /\ From(v.keys) <= now
    BY <1>3 DEF Dated
  <2> QED
    BY ONLY <1>2, <1>3, <2>1, QuarterFacts
<1> QED
  BY <1>2, <1>3

\* No snapshot is made for more than half a lifetime of its newest key.
LEMMA DatedStep ==
  ASSUME TypeInv, SpacedInv, TimeInv, DatedInv, [Next]_vars
  PROVE  DatedInv'
<1>n. now \in Nat /\ now' \in {now, now + 1}
  <2>1. now \in Nat
    BY DEF TypeInv, Times
  <2>2. (\E s \in Services : ThreadStep(s)) => now' = now
    BY ThreadEffects DEF Outside
  <2> QED
    BY <2>1, <2>2, NextCases DEF ManagerStep, Attach, ReadKeys, SetKeys, Detach, Damage, Tick,
       vars
<1>1. ASSUME NEW s \in Services, ThreadStep(s) PROVE DatedInv'
  <2>1. Outside(s) /\ Effect(s)
    BY <1>1, ThreadEffects
  <2>2. now' = now
    BY <2>1 DEF Outside
  <2>3. ASSUME NEW v, (v = store /\ store # Corrupt) \/ v = base[s], Dated(v)
        PROVE  Dated(Renewed(v, at[s], s))
    <3> DEFINE r == Renewed(v, at[s], s)
    <3>1. /\ r \in Snapshots /\ Proper(r.keys)
          /\ r # v =>
               /\ r.next = at[s] + Quarter /\ r.next <= From(r.keys) + 2 * Quarter
               /\ From(r.keys) = at[s] \/ (v # Missing /\ From(r.keys) <= From(v.keys))
      BY <2>3, RenewedHere
    <3>2. at[s] \in Nat /\ at[s] <= now
      BY DEF TypeInv, Times, TimeInv
    <3>3. From(r.keys) \in Nat
      BY <3>1, SnapshotFacts
    <3>4. v # Missing => From(v.keys) \in Nat /\ From(v.keys) <= now
      <4>1. v \in Kept /\ Good(v)
        BY <2>3 DEF TypeInv, Kept, SpacedInv, Good, Readable
      <4> QED
        BY <2>3, <4>1, DatedFacts DEF Dated
    <3> HIDE DEF r
    <3>5. ASSUME r = v PROVE Dated(r)
      BY <2>3, <3>5
    <3>6. ASSUME r # v PROVE Dated(r)
      <4>1. r.next <= now + Quarter /\ From(r.keys) <= now
        BY ONLY <1>n, <3>1, <3>2, <3>3, <3>4, <3>6, QuarterFacts
      <4> QED
        BY <3>1, <3>6, <4>1 DEF Dated
    <3> QED
      BY <3>5, <3>6 DEF r
  <2>4. /\ Dated(Missing) /\ (store # Corrupt => Dated(store))
        /\ Dated(snapshot[s]) /\ Dated(base[s]) /\ Dated(winner[s])
        /\ store # Corrupt => Dated(Renewed(store, at[s], s))
        /\ Dated(Renewed(base[s], at[s], s))
    BY <2>3 DEF DatedInv, Dated, Readable
  <2>5. \A v : Dated(v)' <=> Dated(v)
    BY <2>2 DEF Dated
  <2>6. /\ (\A v \in {snapshot'[s], base'[s], winner'[s]} : Dated(v))
        /\ store' = store \/ Dated(store')
    <3> HIDE DEF Dated
    <3> QED
      BY <2>1, <2>4 DEF Effect, Opens, StartsWith, Prepares, FailsToOpen, Wakes, Finds, Waits,
         Locks, Renews, Stores, Finishes, Replaces, Lists, Pushes, Leaves, Stops, KeepsLocals,
         KeepsThread, KeepsStore, Clears, Moves, Readable
  <2>7. /\ Dated(snapshot[s])' /\ Dated(base[s])' /\ Dated(winner[s])'
        /\ store' = store \/ Dated(store)'
    BY <2>2, <2>6 DEF Dated
  <2>8. ASSUME NEW r \in Services, r # s
        PROVE  Dated(snapshot[r])' /\ Dated(base[r])' /\ Dated(winner[r])'
    BY <2>1, <2>2, <2>8 DEF Outside, Same, KeepsLocals, KeepsThread, DatedInv, Dated
  <2>9. Readable' => Dated(store)'
    BY <2>2, <2>7 DEF DatedInv, Readable, Dated
  <2> QED
    BY <2>7, <2>8, <2>9 DEF DatedInv
<1>2. CASE (\E m \in Managers : ManagerStep(m)) \/ Damage \/ Tick \/ UNCHANGED vars
  <2>1. ASSUME NEW v \in Kept, Good(v), Dated(v) PROVE Dated(v)'
    <3> SUFFICES ASSUME v # Missing
                 PROVE  v.next <= now' + Quarter /\ v.next <= From(v.keys) + 2 * Quarter
                        /\ From(v.keys) <= now'
      BY DEF Dated
    <3>1. v.next \in Nat /\ From(v.keys) \in Nat
      BY <2>1, DatedFacts
    <3>2. v.next <= now + Quarter /\ v.next <= From(v.keys) + 2 * Quarter /\ From(v.keys) <= now
      BY <2>1 DEF Dated
    <3> QED
      BY ONLY <1>n, <3>1, <3>2, QuarterFacts
  <2>2. /\ \A s \in Services : Same(s)
        /\ store' = store \/ store' \in {Missing, Corrupt}
    BY <1>2, OtherEffects
  <2>3. Readable => store \in Kept /\ Good(store) /\ Dated(store)
    BY DEF Readable, TypeInv, Kept, SpacedInv, Good, DatedInv
  <2>4. Readable' => Dated(store)'
    <3>1. Readable' => Readable /\ store' = store
      BY <2>2 DEF Readable
    <3>2. (Dated(store))' <=> \A v \in {store'} : Dated(v)'
      BY DEF Dated
    <3> QED
      BY <2>1, <2>3, <3>1, <3>2
  <2>5. ASSUME NEW s \in Services
        PROVE  Dated(snapshot[s])' /\ Dated(base[s])' /\ Dated(winner[s])'
    <3>1. snapshot'[s] = snapshot[s] /\ base'[s] = base[s] /\ winner'[s] = winner[s]
      BY <2>2 DEF Same, KeepsLocals, KeepsThread
    <3>2. \A v \in {snapshot[s], base[s], winner[s]} : v \in Kept /\ Good(v) /\ Dated(v)
      BY DEF TypeInv, SpacedInv, DatedInv
    <3>3. \A v \in {snapshot[s], base[s], winner[s]} : Dated(v)'
      BY <2>1, <3>2
    <3> QED
      BY <3>1, <3>3 DEF Dated
  <2> QED
    BY <2>4, <2>5 DEF DatedInv
<1> QED
  BY <1>1, <1>2, NextCases

\* The clock is not far ahead of a thread.
ClockOf(s) ==
  /\ pc[s] \in {"off", "open", "openStore"} => checked[s] = 0
  /\ pc[s] \in {"open", "openStore"} => now <= at[s] + CheckEvery
  /\ pc[s] \in Started => checked[s] <= now /\ now <= checked[s] + CheckEvery
  /\ pc[s] \in Started \ {"sleep"} => checked[s] <= at[s]
ClockInv == \A s \in Services : ClockOf(s)

LEMMA ClockStep ==
  ASSUME TypeInv, TimeInv, ClockInv, [Next]_vars
  PROVE  ClockInv'
<1>n. /\ now \in Nat /\ \A s \in Services : at[s] \in Nat /\ checked[s] \in Nat /\ at[s] <= now
      /\ CheckEvery \in Nat
  BY QuarterFacts DEF TypeInv, Times, TimeInv
<1>1. ASSUME NEW s \in Services, ThreadStep(s) PROVE ClockInv'
  <2>1. Outside(s) /\ Effect(s)
    BY <1>1, ThreadEffects
  <2>2. now' = now
    BY <2>1 DEF Outside
  <2>3. ASSUME NEW r \in Services, r # s PROVE ClockOf(r)'
    BY <2>1, <2>2, <2>3 DEF Outside, Same, KeepsLocals, ClockInv, ClockOf
  <2>4. ClockOf(s) /\ now \in Nat /\ at[s] \in Nat /\ checked[s] \in Nat /\ at[s] <= now
        /\ CheckEvery \in Nat
    BY <1>n DEF ClockInv
  <2>5. ASSUME Opens(s) \/ StartsWith(s) \/ Prepares(s) \/ FailsToOpen(s) \/ Wakes(s)
        PROVE  ClockOf(s)'
    BY ONLY <2>2, <2>4, <2>5 DEF ClockOf, Opens, StartsWith, Prepares, FailsToOpen, Wakes,
       Moves, KeepsLocals, Clears, Started
  <2>6. ASSUME Finds(s) \/ Waits(s) \/ Locks(s) \/ Renews(s) \/ Stores(s) \/ Finishes(s)
        PROVE  ClockOf(s)'
    BY ONLY <2>2, <2>4, <2>6 DEF ClockOf, Finds, Waits, Locks, Renews, Stores, Finishes,
       Moves, KeepsLocals, Clears, Started
  <2>7. ASSUME Replaces(s) \/ Lists(s) \/ Pushes(s) \/ Leaves(s) \/ Stops(s)
        PROVE  ClockOf(s)'
    BY ONLY <2>2, <2>4, <2>7 DEF ClockOf, Replaces, Lists, Pushes, Leaves, Stops,
       Moves, KeepsLocals, Started
  <2>8. ClockOf(s)'
    BY ONLY <2>1, <2>5, <2>6, <2>7 DEF Effect
  <2> QED
    BY <2>3, <2>8 DEF ClockInv
<1>2. CASE (\E m \in Managers : ManagerStep(m)) \/ Damage \/ Tick \/ UNCHANGED vars
  <2>1. ASSUME NEW s \in Services PROVE ClockOf(s)'
    <3>1. /\ pc'[s] = pc[s] /\ at'[s] = at[s] /\ checked'[s] = checked[s]
      BY <1>2, OtherEffects DEF Same, KeepsLocals
    <3>2. \/ now' = now
          \/ now' = now + 1 /\ (pc[s] \notin {"off", "done"} => now - checked[s] < CheckEvery)
      BY <1>2 DEF ManagerStep, Attach, ReadKeys, SetKeys, Detach, Damage, Tick, vars
    <3>3. ClockOf(s)
      BY DEF ClockInv
    <3> QED
      BY ONLY <1>n, <3>1, <3>2, <3>3 DEF ClockOf, Started
  <2> QED
    BY <2>1 DEF ClockInv
<1> QED
  BY <1>1, <1>2, NextCases

\* What the checks that failed cost, now and at the worst.
Delay == (1 + faults) * CheckEvery
Worst == (1 + MaxFaults) * CheckEvery

LEMMA DelayFacts ==
  ASSUME TypeInv
  PROVE  /\ Delay \in Nat /\ Worst \in Nat /\ CheckEvery \in Nat
         /\ CheckEvery <= Delay /\ Delay <= Worst
<1>1. faults \in Nat /\ faults <= MaxFaults /\ MaxFaults \in Nat /\ CheckEvery \in Nat
  BY QuarterFacts DEF TypeInv
<1>2. \A a \in Nat, b \in Nat : a <= b => a * CheckEvery <= b * CheckEvery
  BY <1>1
<1>3. /\ 1 * CheckEvery = CheckEvery
      /\ (1 + faults) * CheckEvery \in Nat /\ (1 + MaxFaults) * CheckEvery \in Nat
  BY <1>1
<1>4. 1 * CheckEvery <= Delay /\ Delay <= Worst
  BY <1>1, <1>2 DEF Delay, Worst
<1> QED
  BY <1>1, <1>3, <1>4 DEF Delay, Worst

LEMMA DelayGrows ==
  ASSUME TypeInv, faults' \in {faults, faults + 1}
  PROVE  /\ Delay' \in Nat /\ Delay <= Delay'
         /\ faults' = faults + 1 => Delay' = Delay + CheckEvery
<1>1. faults \in Nat /\ CheckEvery \in Nat
  BY QuarterFacts DEF TypeInv
<1>2. faults' = faults => Delay' = Delay
  BY DEF Delay
<1>3. faults' = faults + 1 => Delay' = Delay + CheckEvery
  BY <1>1 DEF Delay
<1>4. Delay \in Nat
  BY DelayFacts
<1> QED
  BY <1>1, <1>2, <1>3, <1>4

\* Snapshots are not past their due time for longer than the failures explain.
CurrentOf(s) ==
  /\ pc[s] \in {"sleep"} \cup Looking => Due(snapshot[s]) > checked[s] - Delay
  /\ pc[s] \in {"list", "push"} => Due(snapshot[s]) > at[s]
  /\ pc[s] \in {"openStore", "store", "replace"} => Due(winner[s]) > at[s]
CurrentInv == \A s \in Services : CurrentOf(s)

\* The numbers that these invariants speak of.
LEMMA Numbers ==
  ASSUME TypeInv, SpacedInv, LocalInv, NEW s \in Services
  PROVE  /\ now \in Nat /\ at[s] \in Nat /\ checked[s] \in Nat
         /\ snapshot[s] # Missing => Due(snapshot[s]) \in Nat
         /\ winner[s] # Missing => Due(winner[s]) \in Nat
         /\ pc[s] \in Started => Due(snapshot[s]) \in Nat
         /\ pc[s] \in {"openStore", "store", "replace"} => Due(winner[s]) \in Nat
<1>1. now \in Nat /\ at[s] \in Nat /\ checked[s] \in Nat
  BY DEF TypeInv, Times
<1>2. \A v \in {snapshot[s], winner[s]} : v # Missing => Due(v) \in Nat
  BY DatedFacts DEF TypeInv, SpacedInv
<1> QED
  BY <1>1, <1>2 DEF LocalInv, LocalOf

LEMMA CurrentStep ==
  ASSUME TypeInv, SpacedInv, LocalInv, TimeInv, ClockInv, CurrentInv, [Next]_vars
  PROVE  CurrentInv'
<1>d. /\ Delay \in Nat /\ CheckEvery \in Nat /\ CheckEvery <= Delay
  BY DelayFacts
<1>1. ASSUME NEW s \in Services, ThreadStep(s) PROVE CurrentInv'
  <2>1. Outside(s) /\ Effect(s)
    BY <1>1, ThreadEffects
  <2>2. /\ Delay' \in Nat /\ Delay <= Delay'
        /\ faults' = faults + 1 => Delay' = Delay + CheckEvery
    BY <2>1, DelayGrows DEF Outside
  <2>3. ASSUME NEW r \in Services, r # s PROVE CurrentOf(r)'
    <3>1. Same(r) /\ CurrentOf(r)
      BY <2>1, <2>3 DEF Outside, CurrentInv
    <3>2. checked[r] \in Nat /\ (pc[r] \in Started => Due(snapshot[r]) \in Nat)
      BY Numbers
    <3>3. /\ pc'[r] = pc[r] /\ checked'[r] = checked[r] /\ at'[r] = at[r]
          /\ Due(snapshot[r])' = Due(snapshot[r]) /\ Due(winner[r])' = Due(winner[r])
      BY <3>1 DEF Same, KeepsLocals, KeepsThread, Due
    <3> QED
      BY ONLY <1>d, <2>2, <3>1, <3>2, <3>3 DEF CurrentOf, Started, Looking
  <2>4. /\ now \in Nat /\ at[s] \in Nat /\ checked[s] \in Nat /\ at[s] <= now
        /\ pc[s] \in Started => Due(snapshot[s]) \in Nat
        /\ pc[s] \in {"openStore", "store", "replace"} => Due(winner[s]) \in Nat
    BY Numbers DEF TimeInv
  <2>5. CurrentOf(s) /\ ClockOf(s) /\ LocalOf(s)
    BY DEF CurrentInv, ClockInv, LocalInv
  <2>6. \A v : snapshot'[s] = v => Due(snapshot[s])' = Due(v)
    BY DEF Due
  <2>7. \A v : winner'[s] = v => Due(winner[s])' = Due(v)
    BY DEF Due
  <2>8. /\ store # Corrupt => Due(Renewed(store, at[s], s)) > at[s]
        /\ Due(Renewed(base[s], at[s], s)) > at[s]
    BY RenewedHere
  <2>9. ASSUME Opens(s) \/ FailsToOpen(s) \/ Leaves(s)
        PROVE  CurrentOf(s)'
    BY ONLY <2>9 DEF CurrentOf, Opens, FailsToOpen, Leaves, Moves, Looking
  <2>10. ASSUME StartsWith(s) PROVE CurrentOf(s)'
    <3>1. Due(snapshot[s])' > at[s] /\ Due(snapshot[s])' \in Nat
      <4>1. CASE store = Renewed(store, at[s], s) /\ store' = store /\ store # Corrupt
        <5>1. snapshot'[s] = Renewed(store, at[s], s)
          BY <2>10, <4>1 DEF StartsWith
        <5>2. Due(Renewed(store, at[s], s)) \in Nat
          BY <4>1, RenewedHere, SnapshotFacts
        <5> QED
          BY <2>6, <2>8, <4>1, <5>1, <5>2
      <4>2. CASE pc[s] = "openStore" /\ store' = winner[s]
        <5>1. snapshot'[s] = winner[s]
          BY <2>10, <4>2 DEF StartsWith
        <5> QED
          BY <2>4, <2>5, <2>6, <4>2, <5>1 DEF CurrentOf
      <4> QED
        BY <2>10, <4>1, <4>2 DEF StartsWith
    <3>2. /\ pc[s] \in {"open", "openStore"} /\ pc'[s] = "sleep" /\ checked'[s] = now
      BY <2>10 DEF StartsWith, Clears
    <3>3. now <= at[s] + CheckEvery
      BY <2>5, <3>2 DEF ClockOf
    <3>4. Due(snapshot[s])' > checked'[s] - Delay'
      BY ONLY <1>d, <2>2, <2>4, <3>1, <3>2, <3>3
    <3> QED
      BY ONLY <3>2, <3>4 DEF CurrentOf, Looking
  <2>11. ASSUME Prepares(s) \/ Renews(s) \/ Finds(s) PROVE CurrentOf(s)'
    <3>1. Due(winner[s])' > at[s] /\ at'[s] = at[s]
      <4>1. CASE Prepares(s)
        BY <2>7, <2>8, <4>1 DEF Prepares
      <4>2. CASE Renews(s)
        BY <2>7, <2>8, <4>2 DEF Renews, Readable
      <4>3. CASE Finds(s)
        <5>1. winner'[s] = store /\ Readable /\ at'[s] = at[s]
          BY <4>3 DEF Finds
        <5>2. Due(store) > at[s]
          <6>1. CASE store = Renewed(store, at[s], s)
            BY <2>8, <5>1, <6>1 DEF Readable
          <6>2. CASE ~NeedsRotation(store, at[s])
            <7>1. store \in Kept /\ store # Missing /\ Good(store)
              BY <5>1 DEF Readable, TypeInv, Kept, SpacedInv, Good
            <7>2. store.next \in Nat /\ Due(store) \in Nat /\ Due(store) >= store.next
              BY <7>1, DatedFacts
            <7>3. ~(at[s] >= store.next)
              BY <6>2 DEF NeedsRotation
            <7> QED
              BY ONLY <2>4, <7>2, <7>3
          <6> QED
            BY <4>3, <6>1, <6>2 DEF Finds
        <5> QED
          BY <2>7, <5>1, <5>2
      <4> QED
        BY <2>11, <4>1, <4>2, <4>3
    <3>2. /\ checked'[s] = checked[s] /\ Due(snapshot[s])' = Due(snapshot[s])
          /\ pc'[s] = "openStore" \/ (pc[s] \in {"load", "reload"} /\ pc'[s] \in Looking)
      BY <2>6, <2>11 DEF Prepares, Renews, Finds, KeepsThread, Moves, Looking
    <3>3. pc'[s] \in {"openStore", "store", "replace"}
      BY <2>11 DEF Prepares, Renews, Finds, Moves
    <3> QED
      BY ONLY <1>d, <2>2, <2>4, <2>5, <3>1, <3>2, <3>3 DEF CurrentOf, Looking, Started
  <2>12. ASSUME Wakes(s) \/ Waits(s) \/ Locks(s) \/ Stores(s) \/ Lists(s) \/ Pushes(s)
                \/ Stops(s)
         PROVE  CurrentOf(s)'
    <3>1. /\ Due(snapshot[s])' = Due(snapshot[s]) /\ Due(winner[s])' = Due(winner[s])
          /\ checked'[s] = checked[s]
          /\ at'[s] = at[s] \/ pc'[s] = "load"
          /\ \/ pc'[s] = pc[s]
             \/ pc[s] = "store" /\ pc'[s] = "replace"
             \/ pc[s] = "list" /\ pc'[s] = "push"
             \/ pc[s] \in {"sleep", "load", "lock"} /\ pc'[s] \in {"load", "lock", "reload"}
      BY <2>6, <2>7, <2>12 DEF Wakes, Waits, Locks, Stores, Lists, Pushes, Stops, KeepsThread,
         KeepsLocals, Moves
    <3> QED
      BY ONLY <1>d, <2>2, <2>4, <2>5, <3>1 DEF CurrentOf, Looking, Started
  <2>13. ASSUME Finishes(s) PROVE CurrentOf(s)'
    <3>1. /\ Due(snapshot[s])' = Due(snapshot[s]) /\ checked'[s] = now /\ pc'[s] = "sleep"
          /\ \/ pc[s] \in {"load", "lock", "store"} /\ faults' = faults + 1
             \/ pc[s] = "replace" /\ winner[s] = base[s]
             \/ pc[s] = "push"
      BY <2>6, <2>13 DEF Finishes, KeepsThread, Clears
    <3>2. pc[s] \in Started /\ now <= checked[s] + CheckEvery
      BY <2>5, <3>1 DEF ClockOf, Started
    <3>3. CASE pc[s] \in {"load", "lock", "store"} /\ faults' = faults + 1
      <4>1. Due(snapshot[s]) > checked[s] - Delay
        BY <2>5, <3>3 DEF CurrentOf, Looking
      <4>2. Due(snapshot[s])' > now - Delay'
        BY ONLY <1>d, <2>2, <2>4, <3>1, <3>2, <3>3, <4>1
      <4> QED
        BY ONLY <3>1, <4>2 DEF CurrentOf, Looking
    <3>4. CASE pc[s] \in {"replace", "push"} /\ Due(snapshot[s]) > at[s]
      <4>1. checked[s] <= at[s]
        BY <2>5, <3>4 DEF ClockOf, Started
      <4>2. Due(snapshot[s])' > now - Delay'
        BY ONLY <1>d, <2>2, <2>4, <3>1, <3>2, <3>4, <4>1
      <4> QED
        BY ONLY <3>1, <4>2 DEF CurrentOf, Looking
    <3> QED
      BY <2>5, <3>1, <3>3, <3>4 DEF CurrentOf, LocalOf, Looking
  <2>14. ASSUME Replaces(s) PROVE CurrentOf(s)'
    <3>1. /\ Due(snapshot[s])' = Due(winner[s]) /\ pc[s] = "replace" /\ pc'[s] = "list"
          /\ at'[s] = at[s]
      BY <2>6, <2>14 DEF Replaces, Moves, KeepsLocals
    <3> QED
      BY ONLY <2>5, <3>1 DEF CurrentOf, Looking
  <2>15. CurrentOf(s)'
    BY ONLY <2>1, <2>9, <2>10, <2>11, <2>12, <2>13, <2>14 DEF Effect
  <2> QED
    BY <2>3, <2>15 DEF CurrentInv
<1>2. CASE (\E m \in Managers : ManagerStep(m)) \/ Damage \/ Tick \/ UNCHANGED vars
  <2>1. /\ \A s \in Services : Same(s)
        /\ faults' \in {faults, faults + 1}
    BY <1>2, OtherEffects
  <2>2. Delay' \in Nat /\ Delay <= Delay'
    BY <2>1, DelayGrows
  <2>3. ASSUME NEW r \in Services PROVE CurrentOf(r)'
    <3>1. Same(r) /\ CurrentOf(r)
      BY <2>1 DEF CurrentInv
    <3>2. checked[r] \in Nat /\ (pc[r] \in Started => Due(snapshot[r]) \in Nat)
      BY Numbers
    <3>3. /\ pc'[r] = pc[r] /\ checked'[r] = checked[r] /\ at'[r] = at[r]
          /\ Due(snapshot[r])' = Due(snapshot[r]) /\ Due(winner[r])' = Due(winner[r])
      BY <3>1 DEF Same, KeepsLocals, KeepsThread, Due
    <3> QED
      BY ONLY <1>d, <2>2, <3>1, <3>2, <3>3 DEF CurrentOf, Started, Looking
  <2> QED
    BY <2>3 DEF CurrentInv
<1> QED
  BY <1>1, <1>2, NextCases

-------------------------------------------------------------------------------
(* The keys of native managers.                                            *)

Hooked == {"added", "read", "attached"}

\* The age that the snapshot behind the keys of a manager cannot pass.
Limit == 3 * Quarter + Worst + 2 * CheckEvery

\* The thread of its service has yet to push to x.
Pending(x) ==
  \/ pc[Home[x]] = "list"
  \/ pc[Home[x]] = "push" /\ x \in todo[Home[x]]

\* Keys, and the time of the first, which an attachment that began at from saw.
FreshAt(keys, from) ==
  keys # <<>> /\ From(keys) <= now /\ From(keys) + 2 * Quarter + Worst + CheckEvery > from

\* A manager has the keys of a snapshot that is not past its due time by much,
\* or the thread is about to push the newer ones.
NativeOf(x) ==
  /\ nat[x] \in Hooked => running[Home[x]]
  /\ nat[x] \in {"added", "read"} =>
       FreshAt(nativeKeys[x], since[x]) /\ since[x] <= now /\ now <= since[x] + CheckEvery
  /\ nat[x] = "read" => FreshAt(seen[x], since[x])
  /\ nat[x] = "attached" =>
       /\ nativeKeys[x] # <<>> /\ From(nativeKeys[x]) <= now
       /\ \/ Due(snapshot[Home[x]]) <= From(nativeKeys[x]) + Limit
          \/ Pending(x) /\ checked[Home[x]] < From(nativeKeys[x]) + Limit + Delay
NativeInv == \A x \in Managers : NativeOf(x)

ClockedInv == DatedInv /\ ClockInv /\ CurrentInv /\ NativeInv

\* What a running thread gives a manager is fresh.
LEMMA FreshFromThread ==
  ASSUME StoreInv, DatedInv, ClockInv, CurrentInv, NEW s \in Services, running[s],
         NEW t \in Nat, t <= now
  PROVE  /\ FreshAt(snapshot[s].keys, t)
         /\ Due(snapshot[s]) \in Nat /\ From(snapshot[s].keys) \in Nat
         /\ Due(snapshot[s]) <= From(snapshot[s].keys) + 2 * Quarter
         /\ Due(snapshot[s]) <= now + Quarter
         /\ Due(snapshot[s]) > checked[s] - Delay
<1> USE DEF StoreInv
<1>1. pc[s] \in Started /\ snapshot[s] \in Kept /\ snapshot[s] # Missing
  BY DEF LocalInv, LocalOf, TypeInv
<1>2. /\ Len(snapshot[s].keys) \in Nat /\ Len(snapshot[s].keys) > 0
      /\ Due(snapshot[s]) \in Nat /\ From(snapshot[s].keys) \in Nat
      /\ Due(snapshot[s]) <= From(snapshot[s].keys) + 2 * Quarter
      /\ Due(snapshot[s]) <= now + Quarter /\ From(snapshot[s].keys) <= now
  <2>1. Good(snapshot[s]) /\ Dated(snapshot[s]) /\ now \in Nat
    BY DEF SpacedInv, DatedInv, TypeInv, Times
  <2> QED
    BY <1>1, <2>1, DatedFacts
<1>3. /\ now \in Nat /\ at[s] \in Nat /\ checked[s] \in Nat
      /\ Delay \in Nat /\ Worst \in Nat /\ CheckEvery \in Nat /\ CheckEvery <= Delay
      /\ Delay <= Worst
  BY Numbers, DelayFacts
<1>4. now <= checked[s] + CheckEvery /\ (pc[s] \in {"list", "push"} => checked[s] <= at[s])
  BY <1>1 DEF ClockInv, ClockOf, Started
<1>5. Due(snapshot[s]) > checked[s] - Delay
  <2>1. CurrentOf(s)
    BY DEF CurrentInv
  <2>2. pc[s] \in {"sleep"} \cup Looking \/ pc[s] \in {"list", "push"}
    BY <1>1 DEF Started, Looking
  <2>3. CASE pc[s] \in {"sleep"} \cup Looking
    BY <2>1, <2>3 DEF CurrentOf
  <2>4. CASE pc[s] \in {"list", "push"}
    <3>1. Due(snapshot[s]) > at[s]
      BY <2>1, <2>4 DEF CurrentOf
    <3> QED
      BY ONLY <1>2, <1>3, <1>4, <2>4, <3>1
  <2> QED
    BY <2>2, <2>3, <2>4
<1>6. From(snapshot[s].keys) + 2 * Quarter + Worst + CheckEvery > t
  <2>1. checked[s] - Delay >= now - CheckEvery - Worst
    BY ONLY <1>3, <1>4
  <2>2. Due(snapshot[s]) > t - CheckEvery - Worst
    BY ONLY <1>2, <1>3, <1>5, <2>1, t \in Nat, t <= now
  <2> DEFINE due == Due(snapshot[s])
             made == From(snapshot[s].keys) + 2 * Quarter
  <2>3. /\ due <= made /\ due > t - CheckEvery - Worst
        /\ due \in Nat /\ made \in Nat /\ CheckEvery \in Nat /\ Worst \in Nat
    BY <1>2, <1>3, <2>2, QuarterFacts
  <2> HIDE DEF due, made
  <2>4. made + Worst + CheckEvery > t
    BY ONLY <2>3, t \in Nat
  <2> QED
    BY <2>4 DEF made
<1>7. snapshot[s].keys # <<>>
  BY <1>2, EmptySeq
<1> QED
  BY <1>2, <1>5, <1>6, <1>7 DEF FreshAt

\* The first of keys that are there.
LEMMA FromFacts ==
  ASSUME NEW keys \in Seq(Keys), keys # <<>>
  PROVE  From(keys) \in Nat
<1>1. Len(keys) \in Nat /\ Len(keys) > 0
  BY KeyFacts, EmptySeq
<1> QED
  BY <1>1, KeyFacts DEF From

\* The steps of a thread.
LEMMA NativeThreadStep ==
  ASSUME StoreInv, ClockedInv, NEW s \in Services, ThreadStep(s),
         NEW x \in Managers
  PROVE  NativeOf(x)'
<1> USE DEF StoreInv, ClockedInv
<1>1. Outside(s) /\ Effect(s)
  BY ThreadEffects
<1>2. now' = now /\ nat' = nat /\ since' = since /\ seen' = seen
  BY <1>1 DEF Outside
<1> SUFFICES ASSUME nat[x] \in Hooked PROVE NativeOf(x)'
  BY <1>2 DEF NativeOf, Hooked
<1> DEFINE h == Home[x]
<1>3. /\ h \in Services /\ running[h] /\ x \in natives[h] /\ pc[h] \in Started
      /\ nat[x] # "detached" /\ \A r \in Services : x \in natives[r] => r = h
  BY TicketAssumption DEF NativeInv, NativeOf, ListInv, Hooked, LocalInv, LocalOf
<1>4. NativeOf(x)
  BY DEF NativeInv
<1>5. /\ Delay \in Nat /\ Delay' \in Nat /\ Delay <= Delay'
      /\ Worst \in Nat /\ CheckEvery \in Nat /\ Quarter \in Nat
  BY <1>1, DelayFacts, DelayGrows, QuarterFacts DEF Outside
<1>6. /\ now \in Nat /\ since[x] \in Nat
      /\ nativeKeys[x] \in Seq(Keys) /\ nativeKeys'[x] \in Seq(Keys)
      /\ checked[h] \in Nat
  <2>1. TypeInv'
    BY ThreadTypes
  <2>2. nativeKeys'[x] \in Seq(Keys)
    BY <2>1 DEF TypeInv
  <2> QED
    BY <1>3, <2>2 DEF TypeInv, Times
<1>l. Limit \in Nat /\ Limit' = Limit /\ Worst' = Worst
  BY <1>5 DEF Limit, Worst
<1>7. \A keys, from : FreshAt(keys, from)' <=> FreshAt(keys, from)
  BY <1>2, <1>l DEF FreshAt
<1>8. ASSUME running'[h],
             nativeKeys'[x] = nativeKeys[x] \/ FreshAt(nativeKeys'[x], since[x]),
             nat[x] = "attached" =>
               /\ nativeKeys'[x] # <<>> /\ From(nativeKeys'[x]) <= now
               /\ \/ Due(snapshot[h])' <= From(nativeKeys'[x]) + Limit
                  \/ Pending(x)' /\ checked'[h] < From(nativeKeys'[x]) + Limit + Delay'
      PROVE  NativeOf(x)'
  <2>1. nat[x] \in {"added", "read"} => FreshAt(nativeKeys'[x], since[x])
    BY <1>4, <1>8 DEF NativeOf
  <2>2. /\ (nat[x] \in {"added", "read"} => FreshAt(nativeKeys[x], since[x])')
        /\ (nat[x] = "read" => FreshAt(seen[x], since[x])')
    BY <1>2, <1>4, <1>7, <2>1 DEF NativeOf, FreshAt
  <2> QED
    BY <1>2, <1>4, <1>8, <1>l, <2>2 DEF NativeOf
<1> DEFINE Near == Due(snapshot[h]) <= From(nativeKeys[x]) + Limit
           Soon == Pending(x) /\ checked[h] < From(nativeKeys[x]) + Limit + Delay
<1>9. nat[x] = "attached" =>
        /\ nativeKeys[x] # <<>> /\ From(nativeKeys[x]) <= now /\ From(nativeKeys[x]) \in Nat
        /\ Near \/ Soon
  BY <1>4, <1>6, FromFacts DEF NativeOf
<1>10. CASE h # s
  <2>1. Same(h)
    BY <1>1, <1>3, <1>10 DEF Outside
  <2>2. nativeKeys'[x] = nativeKeys[x]
    <3>1. x \notin todo[s]
      BY <1>3, <1>10 DEF ListInv
    <3> QED
      BY <1>1, <3>1 DEF Outside, Pushes, TypeInv
  <2>3. /\ running'[h] /\ checked'[h] = checked[h]
        /\ Due(snapshot[h])' = Due(snapshot[h]) /\ (Pending(x) => Pending(x)')
    BY <1>3, <2>1 DEF Same, KeepsThread, KeepsLocals, Due, Pending
  <2>4. nat[x] = "attached" =>
          \/ Due(snapshot[h])' <= From(nativeKeys[x]) + Limit
          \/ Pending(x)' /\ checked'[h] < From(nativeKeys[x]) + Limit + Delay'
    <3> HIDE DEF h
    <3> QED
      BY ONLY <1>5, <1>6, <1>9, <1>l, <2>3
  <2> QED
    BY <1>8, <1>9, <2>2, <2>3, <2>4
<1>11. CASE h = s
  <2>1. ~Opens(s) /\ ~StartsWith(s) /\ ~Prepares(s) /\ ~FailsToOpen(s) /\ ~Leaves(s)
        /\ ~Stops(s)
    BY <1>3, <1>11 DEF Opens, StartsWith, Prepares, FailsToOpen, Leaves, Stops, Started, Moves
  <2>2. running'[h]
    BY <1>1, <1>3, <1>11, <2>1 DEF Effect, Wakes, Finds, Waits, Locks, Renews, Stores, Finishes,
       Replaces, Lists, Pushes, KeepsThread
  <2>3. /\ FreshAt(snapshot[s].keys, since[x]) \/ ~(since[x] <= now)
        /\ Due(snapshot[s]) \in Nat /\ From(snapshot[s].keys) \in Nat
        /\ Due(snapshot[s]) <= From(snapshot[s].keys) + 2 * Quarter
        /\ Due(snapshot[s]) > checked[s] - Delay
    <3>1. running[s]
      BY <1>3, <1>11
    <3>2. now <= now
      BY <1>6
    <3> QED
      BY ONLY <1>6, <3>1, <3>2, StoreInv, ClockedInv, s \in Services, FreshFromThread
         DEF ClockedInv
  <2>4. CASE Pushes(s)
    <3>1. PICK m \in todo[s] :
            /\ nativeKeys' = [nativeKeys EXCEPT ![m] = snapshot[s].keys]
            /\ todo'[s] = todo[s] \ {m}
      BY <2>4 DEF Pushes
    <3>2. /\ checked'[s] = checked[s] /\ Due(snapshot[s])' = Due(snapshot[s])
          /\ pc[s] = "push" /\ pc'[s] = "push"
      BY <2>4 DEF Pushes, KeepsLocals, Moves, Due
    <3>3. CASE m = x
      <4>1. nativeKeys'[x] = snapshot[s].keys
        BY <3>1, <3>3 DEF TypeInv
      <4>2. FreshAt(snapshot[s].keys, since[x]) \/ nat[x] = "attached"
        BY <1>4, <2>3 DEF NativeOf, Hooked
      <4>3. FreshAt(snapshot[s].keys, now)
        BY <1>3, <1>6, <1>11, FreshFromThread
      <4>4. snapshot[s].keys # <<>> /\ From(snapshot[s].keys) <= now
        BY <4>3 DEF FreshAt
      <4>5. Due(snapshot[s])' <= From(snapshot[s].keys) + Limit
        BY ONLY <1>5, <2>3, <3>2 DEF Limit
      <4>6. NativeOf(x)'
        <5>1. nat[x] \in {"added", "read"} => FreshAt(nativeKeys'[x], since[x])
          BY <4>1, <4>2
        <5>2. /\ (nat[x] \in {"added", "read"} => FreshAt(nativeKeys[x], since[x])')
              /\ (nat[x] = "read" => FreshAt(seen[x], since[x])')
          BY <1>2, <1>4, <1>7, <5>1 DEF NativeOf, FreshAt
        <5>3. nat[x] = "attached" =>
                /\ nativeKeys'[x] # <<>> /\ From(nativeKeys'[x]) <= now
                /\ Due(snapshot[h])' <= From(nativeKeys'[x]) + Limit
          BY <1>11, <4>1, <4>4, <4>5
        <5> QED
          BY <1>2, <1>4, <1>l, <2>2, <5>2, <5>3 DEF NativeOf
      <4> QED
        BY <4>6
    <3>4. CASE m # x
      <4>1. nativeKeys'[x] = nativeKeys[x]
        BY <3>1, <3>4 DEF TypeInv
      <4>2. Pending(x) => Pending(x)'
        BY <1>11, <3>1, <3>2, <3>4 DEF Pending
      <4>3. nat[x] = "attached" =>
              \/ Due(snapshot[h])' <= From(nativeKeys[x]) + Limit
              \/ Pending(x)' /\ checked'[h] < From(nativeKeys[x]) + Limit + Delay'
        <5> HIDE DEF h
        <5> QED
          BY ONLY <1>5, <1>6, <1>9, <1>l, <1>11, <3>2, <4>2
      <4> QED
        BY <1>8, <1>9, <2>2, <4>1, <4>3
    <3> QED
      BY <3>3, <3>4
  <2>5. CASE ~Pushes(s)
    <3>1. nativeKeys'[x] = nativeKeys[x]
      BY <1>1, <2>5 DEF Outside
    <3>2. CASE Replaces(s)
      <4>1. pc[s] = "replace" /\ pc'[s] = "list" /\ checked'[s] = checked[s]
        BY <3>2 DEF Replaces, Moves, KeepsLocals
      <4>2. Pending(x)' /\ ~Pending(x)
        BY <1>11, <4>1 DEF Pending
      <4>3. nat[x] = "attached" => checked'[h] < From(nativeKeys[x]) + Limit + Delay'
        <5> HIDE DEF h
        <5> QED
          BY ONLY <1>5, <1>6, <1>9, <1>l, <1>11, <2>3, <4>1, <4>2
      <4> QED
        BY <1>8, <1>9, <2>2, <3>1, <4>2, <4>3
    <3>3. CASE ~Replaces(s)
      <4>1. snapshot'[s] = snapshot[s]
        BY <1>1, <2>1, <2>5, <3>3 DEF Effect, Wakes, Finds, Waits, Locks, Renews, Stores,
           Finishes, Lists, KeepsThread
      <4>2. Due(snapshot[h])' = Due(snapshot[h])
        BY <1>11, <4>1 DEF Due
      <4>3. Pending(x) => Pending(x)' /\ checked'[h] = checked[h]
        <5>1. CASE Lists(s)
          BY <1>3, <1>11, <5>1 DEF Lists, Moves, Pending, KeepsLocals
        <5>2. CASE ~Lists(s)
          <6>1. pc[s] \notin {"list", "push"} \/ todo[s] = {}
            BY ONLY <1>1, <2>1, <2>5, <3>3, <5>2 DEF Effect, Wakes, Finds, Waits, Locks, Renews,
               Stores, Finishes, Moves
          <6>2. pc[s] # "list"
            BY ONLY <1>1, <2>1, <2>5, <3>3, <5>2 DEF Effect, Wakes, Finds, Waits, Locks, Renews,
               Stores, Finishes, Moves
          <6> QED
            BY <1>11, <6>1, <6>2 DEF Pending
        <5> QED
          BY <5>1, <5>2
      <4>4. nat[x] = "attached" =>
              \/ Due(snapshot[h])' <= From(nativeKeys[x]) + Limit
              \/ Pending(x)' /\ checked'[h] < From(nativeKeys[x]) + Limit + Delay'
        <5> HIDE DEF h
        <5> QED
          BY ONLY <1>5, <1>6, <1>9, <1>l, <4>2, <4>3
      <4> QED
        BY <1>8, <1>9, <2>2, <3>1, <4>4
    <3> QED
      BY <3>2, <3>3
  <2> QED
    BY <2>4, <2>5
<1> QED
  BY <1>10, <1>11

\* The steps of no thread.
LEMMA NativeOtherStep ==
  ASSUME StoreInv, ClockedInv,
         (\E m \in Managers : ManagerStep(m)) \/ Damage \/ Tick \/ UNCHANGED vars,
         NEW x \in Managers
  PROVE  NativeOf(x)'
<1> USE DEF StoreInv, ClockedInv
<1> DEFINE h == Home[x]
<1>1. /\ \A s \in Services : Same(s)
      /\ faults' \in {faults, faults + 1}
  BY OtherEffects
<1>2. h \in Services
  BY TicketAssumption
<1>3. /\ running'[h] = running[h] /\ checked'[h] = checked[h]
      /\ Due(snapshot[h])' = Due(snapshot[h]) /\ (Pending(x) => Pending(x)')
  BY <1>1, <1>2 DEF Same, KeepsThread, KeepsLocals, Due, Pending
<1>4. /\ Delay \in Nat /\ Delay' \in Nat /\ Delay <= Delay'
      /\ Worst \in Nat /\ CheckEvery \in Nat /\ Quarter \in Nat
      /\ Limit = 3 * Quarter + Worst + 2 * CheckEvery /\ Limit \in Nat
  BY <1>1, DelayFacts, DelayGrows, QuarterFacts DEF Limit
<1>l. Limit' = Limit /\ Worst' = Worst
  BY DEF Limit, Worst
<1>5. /\ now \in Nat /\ since[x] \in Nat /\ now' \in {now, now + 1}
      /\ nativeKeys[x] \in Seq(Keys) /\ seen[x] \in Seq(Keys) /\ checked[h] \in Nat
  <2>1. now' \in {now, now + 1}
    BY DEF ManagerStep, Attach, ReadKeys, SetKeys, Detach, Damage, Tick, vars
  <2> QED
    BY <1>2, <2>1 DEF TypeInv, Times
<1>6. NativeOf(x)
  BY DEF NativeInv
<1>7. CASE nat'[x] = nat[x] /\ nativeKeys'[x] = nativeKeys[x] /\ seen'[x] = seen[x]
           /\ since'[x] = since[x]
           /\ (now' = now \/ (nat[x] \in {"added", "read"} => now - since[x] < CheckEvery))
  <2>1. \A keys \in Seq(Keys), from \in Nat : FreshAt(keys, from) => FreshAt(keys, from)'
    <3> SUFFICES ASSUME NEW keys \in Seq(Keys), NEW from \in Nat, FreshAt(keys, from)
                 PROVE  FreshAt(keys, from)'
      OBVIOUS
    <3>1. /\ keys # <<>> /\ From(keys) <= now
          /\ From(keys) + 2 * Quarter + Worst + CheckEvery > from
      BY DEF FreshAt
    <3>2. From(keys) \in Nat
      BY <3>1, FromFacts
    <3>3. From(keys) <= now'
      BY ONLY <1>5, <3>1, <3>2
    <3> QED
      BY <1>l, <3>1, <3>3 DEF FreshAt
  <2>2. nat[x] \in {"added", "read"} =>
          FreshAt(nativeKeys[x], since[x])' /\ since'[x] <= now' /\ now' <= since'[x] + CheckEvery
    <3> SUFFICES ASSUME nat[x] \in {"added", "read"}
                 PROVE  /\ FreshAt(nativeKeys[x], since[x])'
                        /\ since'[x] <= now' /\ now' <= since'[x] + CheckEvery
      OBVIOUS
    <3>1. /\ FreshAt(nativeKeys[x], since[x])
          /\ since[x] <= now /\ now <= since[x] + CheckEvery
      BY <1>6 DEF NativeOf
    <3>2. since'[x] <= now' /\ now' <= since'[x] + CheckEvery
      <4>1. now' = now \/ now - since[x] < CheckEvery
        BY <1>7
      <4>2. since'[x] = since[x] /\ CheckEvery \in Nat
        BY <1>4, <1>7
      <4> QED
        BY ONLY <1>5, <3>1, <4>1, <4>2
    <3>3. FreshAt(nativeKeys[x], since[x])'
      BY <1>5, <1>7, <2>1, <3>1 DEF FreshAt
    <3> QED
      BY <3>2, <3>3
  <2>3. nat[x] = "read" => FreshAt(seen[x], since[x])'
    BY <1>5, <1>6, <1>7, <2>1 DEF NativeOf, FreshAt
  <2>4. nat[x] = "attached" =>
          /\ nativeKeys[x] # <<>> /\ From(nativeKeys[x]) <= now'
          /\ \/ Due(snapshot[h])' <= From(nativeKeys[x]) + Limit
             \/ Pending(x)' /\ checked'[h] < From(nativeKeys[x]) + Limit + Delay'
    <3> SUFFICES ASSUME nat[x] = "attached"
                 PROVE  /\ nativeKeys[x] # <<>> /\ From(nativeKeys[x]) <= now'
                        /\ \/ Due(snapshot[h])' <= From(nativeKeys[x]) + Limit
                           \/ /\ Pending(x)'
                              /\ checked'[h] < From(nativeKeys[x]) + Limit + Delay'
      OBVIOUS
    <3>1. /\ nativeKeys[x] # <<>> /\ From(nativeKeys[x]) <= now
          /\ \/ Due(snapshot[h]) <= From(nativeKeys[x]) + Limit
             \/ Pending(x) /\ checked[h] < From(nativeKeys[x]) + Limit + Delay
      BY <1>6 DEF NativeOf
    <3>2. From(nativeKeys[x]) \in Nat
      BY <1>5, <3>1, FromFacts
    <3>3. From(nativeKeys[x]) <= now'
      BY ONLY <1>5, <3>1, <3>2
    <3>4. CASE Due(snapshot[h]) <= From(nativeKeys[x]) + Limit
      BY <1>3, <3>1, <3>3, <3>4
    <3>5. CASE Pending(x) /\ checked[h] < From(nativeKeys[x]) + Limit + Delay
      <4>1. checked[h] < From(nativeKeys[x]) + Limit + Delay'
        BY ONLY <1>4, <1>5, <3>2, <3>5
      <4> QED
        BY <1>3, <3>1, <3>3, <3>5, <4>1
    <3> QED
      BY <3>1, <3>4, <3>5
  <2>5. nat[x] \in Hooked => running'[h]
    BY <1>3, <1>6 DEF NativeOf
  <2> QED
    BY <1>7, <1>l, <2>2, <2>3, <2>4, <2>5 DEF NativeOf
<1>8. ASSUME NEW m \in Managers, ManagerStep(m) PROVE NativeOf(x)'
  <2>0. now' = now
    BY <1>8 DEF ManagerStep, Attach, ReadKeys, SetKeys, Detach
  <2>1. CASE m # x
    <3>1. nat'[x] = nat[x] /\ nativeKeys'[x] = nativeKeys[x] /\ seen'[x] = seen[x]
          /\ since'[x] = since[x]
      BY <1>8, <2>1 DEF ManagerStep, Attach, ReadKeys, SetKeys, Detach, Manager, TypeInv
    <3> QED
      BY <1>7, <2>0, <3>1
  <2>2. CASE m = x /\ Attach(x)
    <3> DEFINE new == <<[from |-> now, by |-> x]>>
    <3>1. /\ nat'[x] = "added" /\ nativeKeys'[x] = new /\ since'[x] = now /\ running[h]
      BY <2>2 DEF Attach, Manager, TypeInv
    <3>2. new # <<>> /\ From(new) = now
      BY DEF From
    <3> HIDE DEF new
    <3>3. From(new) + 2 * Quarter + Worst + CheckEvery > now
      BY ONLY <1>4, <1>5, <3>2, QuarterFacts
    <3>4. FreshAt(nativeKeys[x], since[x])'
      BY <1>5, <1>l, <2>0, <3>1, <3>2, <3>3 DEF FreshAt
    <3>5. since'[x] <= now' /\ now' <= since'[x] + CheckEvery
      BY ONLY <1>4, <1>5, <2>0, <3>1
    <3> QED
      BY <1>3, <3>1, <3>4, <3>5 DEF NativeOf
  <2>3. CASE m = x /\ ReadKeys(x)
    <3>1. /\ nat[x] = "added" /\ nat'[x] = "read" /\ seen'[x] = snapshot[h].keys
          /\ since'[x] = since[x] /\ nativeKeys'[x] = nativeKeys[x]
      BY <2>3 DEF ReadKeys, Manager, TypeInv
    <3>2. /\ running[h] /\ FreshAt(nativeKeys[x], since[x]) /\ since[x] <= now
          /\ now <= since[x] + CheckEvery
      BY <1>6, <3>1 DEF NativeOf, Hooked
    <3>3. FreshAt(snapshot[h].keys, since[x])
      BY <1>2, <1>5, <3>2, FreshFromThread
    <3>4. FreshAt(nativeKeys[x], since[x])' /\ FreshAt(seen[x], since[x])'
      BY <1>l, <2>0, <3>1, <3>2, <3>3 DEF FreshAt
    <3> QED
      BY <1>3, <2>0, <3>1, <3>2, <3>4 DEF NativeOf
  <2>4. CASE m = x /\ SetKeys(x)
    <3>1. /\ nat[x] = "read" /\ nat'[x] = "attached" /\ nativeKeys'[x] = seen[x]
      BY <2>4 DEF SetKeys, Manager, TypeInv
    <3>2. /\ running[h] /\ FreshAt(seen[x], since[x]) /\ since[x] <= now
          /\ now <= since[x] + CheckEvery
      BY <1>6, <3>1 DEF NativeOf, Hooked
    <3>3. Due(snapshot[h]) \in Nat /\ Due(snapshot[h]) <= now + Quarter
      <4>1. now <= now
        BY <1>5
      <4> QED
        BY <1>2, <1>5, <3>2, <4>1, FreshFromThread
    <3>4. /\ seen[x] # <<>> /\ From(seen[x]) <= now /\ From(seen[x]) \in Nat
          /\ From(seen[x]) + 2 * Quarter + Worst + CheckEvery > since[x]
      BY <1>5, <3>2, FromFacts DEF FreshAt
    <3>5. Due(snapshot[h])' <= From(seen[x]) + Limit
      <4> HIDE DEF h
      <4> QED
        BY ONLY <1>3, <1>4, <1>5, <3>2, <3>3, <3>4
    <3> QED
      BY <1>3, <1>l, <2>0, <3>1, <3>2, <3>4, <3>5 DEF NativeOf
  <2>5. CASE m = x /\ Detach(x)
    <3>1. nat'[x] = "detached"
      BY <2>5 DEF Detach, Manager, TypeInv
    <3> QED
      BY <3>1 DEF NativeOf, Hooked
  <2> QED
    BY <1>8, <2>1, <2>2, <2>3, <2>4, <2>5 DEF ManagerStep
<1>9. CASE Damage \/ Tick \/ UNCHANGED vars
  <2>1. /\ nat'[x] = nat[x] /\ nativeKeys'[x] = nativeKeys[x] /\ seen'[x] = seen[x]
        /\ since'[x] = since[x]
        /\ now' = now \/ (nat[x] \in {"added", "read"} => now - since[x] < CheckEvery)
    BY <1>9 DEF Damage, Tick, vars, managerVars
  <2> QED
    BY <1>7, <2>1
<1> QED
  BY <1>8, <1>9

-------------------------------------------------------------------------------
(* The theorem on what TLS issues tickets with.                            *)

LEMMA InitClocked ==
  ASSUME Init
  PROVE  ClockedInv
<1>1. DatedInv
  BY DEF Init, DatedInv, Readable, Dated
<1>2. ClockInv
  BY DEF Init, ClockInv, ClockOf, Started
<1>3. CurrentInv
  BY DEF Init, CurrentInv, CurrentOf, Looking
<1>4. NativeInv
  BY DEF Init, NativeInv, NativeOf, Hooked
<1> QED
  BY <1>1, <1>2, <1>3, <1>4 DEF ClockedInv

LEMMA ClockedStep ==
  ASSUME StoreInv, ClockedInv, [Next]_vars
  PROVE  ClockedInv'
<1>1. DatedInv' /\ ClockInv' /\ CurrentInv'
  BY DatedStep, ClockStep, CurrentStep DEF StoreInv, ClockedInv
<1>2. ASSUME NEW x \in Managers PROVE NativeOf(x)'
  BY <1>2, NextCases, NativeThreadStep, NativeOtherStep
<1> QED
  BY <1>1, <1>2 DEF ClockedInv, NativeInv

\* What a manager has is valid as long as no more than a quarter of a lifetime
\* goes by while the storage fails as often as it may.
LEMMA ValidKey ==
  ASSUME StoreInv, ClockedInv, 4 * ((2 * MaxFaults + 5) * CheckEvery + 1) <= Lifetime
  PROVE  AlwaysValidKey
<1> USE DEF StoreInv, ClockedInv
<1> SUFFICES ASSUME NEW x \in Managers, nat[x] \in Hooked
             PROVE  HasActive(nativeKeys[x], now)
  BY DEF AlwaysValidKey, Hooked
<1> DEFINE h == Home[x]
           f == From(nativeKeys[x])
<1>1. 2 * Worst + 3 * CheckEvery + 1 <= Quarter
  <2>1. (2 * MaxFaults + 5) * CheckEvery = 2 * Worst + 3 * CheckEvery
    <3>1. MaxFaults \in Nat /\ CheckEvery \in Nat
      BY QuarterFacts
    <3> QED
      BY ONLY <3>1 DEF Worst
  <2>2. 4 * (2 * Worst + 3 * CheckEvery + 1) <= Lifetime
    BY <2>1
  <2>3. Worst \in Nat /\ CheckEvery \in Nat
    BY DelayFacts
  <2> QED
    BY ONLY <2>2, <2>3, QuarterFacts
<1>2. NativeOf(x) /\ h \in Services /\ running[h]
  BY TicketAssumption DEF NativeInv, NativeOf
<1>3. /\ nativeKeys[x] # <<>> /\ f <= now /\ nativeKeys[x] \in Seq(Keys)
  BY <1>2 DEF NativeOf, FreshAt, Hooked, TypeInv
<1>4. /\ f \in Nat /\ now \in Nat /\ since[x] \in Nat /\ checked[h] \in Nat
      /\ Delay \in Nat /\ Worst \in Nat /\ CheckEvery \in Nat /\ Delay <= Worst
  <2>1. f \in Nat
    BY <1>3, FromFacts
  <2>2. now \in Nat /\ since[x] \in Nat /\ checked[h] \in Nat
    BY <1>2 DEF TypeInv, Times
  <2> QED
    BY <2>1, <2>2, DelayFacts
<1>5. now <= checked[h] + CheckEvery
  BY <1>2 DEF LocalInv, LocalOf, ClockInv, ClockOf
<1>6. Due(snapshot[h]) \in Nat /\ Due(snapshot[h]) > checked[h] - Delay
  <2>1. now <= now
    BY <1>4
  <2> QED
    BY <1>2, <1>4, <2>1, FreshFromThread
<1> HIDE DEF h, f
<1>7. now < f + 3 * Quarter + 2 * Worst + 3 * CheckEvery
  <2>1. CASE nat[x] \in {"added", "read"}
    <3>1. f + 2 * Quarter + Worst + CheckEvery > since[x] /\ now <= since[x] + CheckEvery
      BY <1>2, <2>1 DEF NativeOf, FreshAt, f
    <3> QED
      BY ONLY <1>4, <3>1, QuarterFacts
  <2>2. CASE nat[x] = "attached"
    <3>1. Due(snapshot[h]) <= f + Limit \/ checked[h] < f + Limit + Delay
      BY <1>2, <2>2 DEF NativeOf, f, h
    <3> QED
      BY ONLY <1>4, <1>5, <1>6, <3>1, QuarterFacts DEF Limit
  <2> QED
    BY <2>1, <2>2 DEF Hooked
<1>8. now < f + Lifetime - 1
  BY ONLY <1>1, <1>4, <1>7, QuarterFacts
<1>9. 1 \in DOMAIN nativeKeys[x]
  <2>1. Len(nativeKeys[x]) > 0
    BY <1>3, EmptySeq
  <2> QED
    BY <1>3, <2>1, KeyFacts
<1>10. f = nativeKeys[x][1].from
  BY DEF f, From
<1> QED
  BY <1>3, <1>8, <1>9, <1>10 DEF HasActive, Active, NotAfter

\* Every native manager has a currently valid key at every moment, if the checks
\* are frequent enough: if all that can go wrong, two checks for each failure of
\* the storage and five more, fits into a quarter of a lifetime (AlwaysValidKey).
THEOREM AlwaysValid ==
  ASSUME 4 * ((2 * MaxFaults + 5) * CheckEvery + 1) <= Lifetime
  PROVE  Spec => []AlwaysValidKey
<1>1. Init => StoreInv /\ ClockedInv
  BY InitStore, InitClocked
<1>2. StoreInv /\ ClockedInv /\ [Next]_vars => (StoreInv /\ ClockedInv)'
  BY StoreStep, ClockedStep
<1>3. StoreInv /\ ClockedInv => AlwaysValidKey
  BY ValidKey
<1> QED
  BY <1>1, <1>2, <1>3, PTL DEF Spec
====
