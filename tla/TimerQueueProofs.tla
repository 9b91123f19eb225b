-------------------------- MODULE TimerQueueProofs --------------------------
(***************************************************************************)
(* The queue and the free list of TimerQueue stay disjoint lists without   *)
(* repetition, for any number of timers, times and calls, wherever the     *)
(* handler interrupts the main program.                                    *)
(***************************************************************************)
EXTENDS TimerQueue, SelectionProofs

-----------------------------------------------------------------------------
(* Sequences without repetition.                                           *)

\* Concatenation: nothing is lost or added, and disjoint lists without
\* repetition make a list without repetition.
LEMMA ConcatFacts ==
  ASSUME NEW T, NEW r \in Seq(T), NEW s \in Seq(T)
  PROVE  /\ r \o s \in Seq(T)
         /\ ToSet(r \o s) = ToSet(r) \cup ToSet(s)
         /\ IsInjective(r) /\ IsInjective(s) /\ ToSet(r) \cap ToSet(s) = {}
              => IsInjective(r \o s)
<1> DEFINE c == r \o s
           m == Len(r)
           n == Len(s)
<1>1. /\ c \in Seq(T)
      /\ Len(c) = m + n
      /\ \A i \in 1 .. m + n : c[i] = IF i <= m THEN r[i] ELSE s[i - m]
  BY ConcatProperties
<1>2. m \in Nat /\ n \in Nat /\ DOMAIN r = 1 .. m /\ DOMAIN s = 1 .. n
  OBVIOUS
<1>3. DOMAIN c = 1 .. m + n
  BY <1>1
<1> HIDE DEF c, m, n
<1>4. \A i \in 1 .. m : i \in 1 .. m + n /\ c[i] = r[i]
  BY <1>1, <1>2
<1>5. \A i \in 1 .. m + n : i > m => i - m \in 1 .. n /\ c[i] = s[i - m]
  BY <1>1, <1>2
<1>6. \A j \in 1 .. n : m + j \in 1 .. m + n /\ c[m + j] = s[j]
  <2> TAKE j \in 1 .. n
  <2>1. m + j \in 1 .. m + n /\ m + j > m /\ m + j - m = j
    BY <1>2
  <2>2. c[m + j] = s[(m + j) - m]
    BY <2>1, <1>5
  <2> QED BY <1>2, <2>1, <2>2
<1>7. ToSet(c) \subseteq ToSet(r) \cup ToSet(s)
  <2> SUFFICES ASSUME NEW i \in 1 .. m + n PROVE c[i] \in ToSet(r) \cup ToSet(s)
    BY <1>3 DEF ToSet
  <2>1. CASE i <= m
    <3>1. i \in 1 .. m
      BY <2>1, <1>2
    <3> QED BY <3>1, <1>2, <1>4 DEF ToSet
  <2>2. CASE i > m
    BY <2>2, <1>2, <1>5 DEF ToSet
  <2> QED BY <2>1, <2>2, <1>2
<1>8. ToSet(r) \subseteq ToSet(c)
  BY <1>2, <1>3, <1>4 DEF ToSet
<1>9. ToSet(s) \subseteq ToSet(c)
  BY <1>2, <1>3, <1>6 DEF ToSet
<1>10. ASSUME IsInjective(r), IsInjective(s), ToSet(r) \cap ToSet(s) = {}
       PROVE  IsInjective(c)
  <2> SUFFICES ASSUME NEW i \in 1 .. m + n, NEW j \in 1 .. m + n, c[i] = c[j]
               PROVE  i = j
    BY <1>3 DEF IsInjective
  <2>1. \A x \in 1 .. m, y \in 1 .. n : r[x] # s[y]
    BY <1>2, <1>10 DEF ToSet
  <2>2. \A x, y \in 1 .. m : r[x] = r[y] => x = y
    BY <1>2, <1>10 DEF IsInjective
  <2>3. \A x, y \in 1 .. n : s[x] = s[y] => x = y
    BY <1>2, <1>10 DEF IsInjective
  <2>4. \A x \in 1 .. m + n : x <= m => x \in 1 .. m
    BY <1>2
  <2>5. CASE i <= m /\ j <= m
    BY <2>5, <2>4, <2>2, <1>4
  <2>6. CASE i <= m /\ j > m
    BY <2>6, <2>4, <2>1, <1>4, <1>5
  <2>7. CASE i > m /\ j <= m
    BY <2>7, <2>4, <2>1, <1>4, <1>5
  <2>8. CASE i > m /\ j > m
    <3>1. i - m = j - m
      BY <2>8, <2>3, <1>5
    <3> QED BY <3>1, <1>2
  <2> QED BY <2>5, <2>6, <2>7, <2>8, <1>2
<1> QED BY <1>1, <1>7, <1>8, <1>9, <1>10 DEF c

\* A stretch of a list without repetition is one too.
LEMMA SubSeqFacts ==
  ASSUME NEW T, NEW q \in Seq(T), IsInjective(q),
         NEW m \in Int, NEW n \in Int, 1 <= m, n <= Len(q)
  PROVE  /\ SubSeq(q, m, n) \in Seq(T)
         /\ ToSet(SubSeq(q, m, n)) = {q[i] : i \in m .. n}
         /\ IsInjective(SubSeq(q, m, n))
<1> DEFINE r == SubSeq(q, m, n)
<1>1. \A i \in m .. n : i \in 1 .. Len(q) /\ q[i] \in T
  OBVIOUS
<1>2. /\ r \in Seq(T)
      /\ Len(r) = IF m <= n THEN n - m + 1 ELSE 0
      /\ \A i \in 1 .. n - m + 1 : r[i] = q[m + i - 1]
  BY <1>1, SubSeqProperties
<1> HIDE DEF r
<1>3. DOMAIN r = 1 .. n - m + 1
  BY <1>2
<1>4. \A i \in 1 .. n - m + 1 : m + i - 1 \in m .. n
  OBVIOUS
<1>5. \A i \in m .. n : i - m + 1 \in 1 .. n - m + 1 /\ m + (i - m + 1) - 1 = i
  OBVIOUS
<1>6. ToSet(r) \subseteq {q[i] : i \in m .. n}
  BY <1>2, <1>3, <1>4 DEF ToSet
<1>7. {q[i] : i \in m .. n} \subseteq ToSet(r)
  <2> SUFFICES ASSUME NEW i \in m .. n PROVE q[i] \in ToSet(r)
    OBVIOUS
  <2>1. i - m + 1 \in DOMAIN r /\ r[i - m + 1] = q[i]
    BY <1>2, <1>3, <1>5
  <2> QED BY <2>1 DEF ToSet
<1>8. IsInjective(r)
  <2> SUFFICES ASSUME NEW i \in 1 .. n - m + 1, NEW j \in 1 .. n - m + 1, r[i] = r[j]
               PROVE  i = j
    BY <1>3 DEF IsInjective
  <2>1. q[m + i - 1] = q[m + j - 1]
    BY <1>2
  <2>2. m + i - 1 \in DOMAIN q /\ m + j - 1 \in DOMAIN q
    BY <1>1, <1>4
  <2>3. m + i - 1 = m + j - 1
    BY <2>1, <2>2 DEF IsInjective
  <2> QED BY <2>3
<1> QED BY <1>2, <1>6, <1>7, <1>8 DEF r

\* A list of one element.
LEMMA SingletonFacts ==
  ASSUME NEW T, NEW t \in T
  PROVE  <<t>> \in Seq(T) /\ ToSet(<<t>>) = {t} /\ IsInjective(<<t>>)
<1>1. <<t>> \in Seq(T) /\ DOMAIN <<t>> = {1} /\ <<t>>[1] = t
  OBVIOUS
<1> QED BY <1>1, Zenon DEF ToSet, IsInjective

\* Linking an element into a list (the march of timer_settime and of
\* alarm_handler) adds it and nothing else.
LEMMA InsertFacts ==
  ASSUME NEW T, NEW q \in Seq(T), NEW k \in 0 .. Len(q), NEW t \in T,
         IsInjective(q), t \notin ToSet(q)
  PROVE  /\ InsertAt(q, k + 1, t) \in Seq(T)
         /\ ToSet(InsertAt(q, k + 1, t)) = ToSet(q) \cup {t}
         /\ IsInjective(InsertAt(q, k + 1, t))
<1> DEFINE a == SubSeq(q, 1, (k + 1) - 1)
           b == SubSeq(q, k + 1, Len(q))
<1>1. Len(q) \in Nat /\ DOMAIN q = 1 .. Len(q)
  OBVIOUS
<1>2. a \in Seq(T) /\ ToSet(a) = {q[i] : i \in 1 .. (k + 1) - 1} /\ IsInjective(a)
  <2>1. 1 \in Int /\ (k + 1) - 1 \in Int /\ 1 <= 1 /\ (k + 1) - 1 <= Len(q)
    BY <1>1
  <2> QED BY <2>1, SubSeqFacts
<1>3. b \in Seq(T) /\ ToSet(b) = {q[i] : i \in k + 1 .. Len(q)} /\ IsInjective(b)
  <2>1. k + 1 \in Int /\ Len(q) \in Int /\ 1 <= k + 1 /\ Len(q) <= Len(q)
    BY <1>1
  <2> QED BY <2>1, SubSeqFacts
<1> HIDE DEF a, b
<1>4. ToSet(a) \cup ToSet(b) = ToSet(q)
  <2>1. \A i \in 1 .. Len(q) : i \in 1 .. (k + 1) - 1 \/ i \in k + 1 .. Len(q)
    BY <1>1
  <2>2. \A i \in 1 .. (k + 1) - 1 : i \in 1 .. Len(q)
    BY <1>1
  <2>3. \A i \in k + 1 .. Len(q) : i \in 1 .. Len(q)
    BY <1>1
  <2> QED BY <1>1, <1>2, <1>3, <2>1, <2>2, <2>3 DEF ToSet
<1>5. ToSet(a) \cap ToSet(b) = {}
  <2> SUFFICES ASSUME NEW i \in 1 .. (k + 1) - 1, NEW j \in k + 1 .. Len(q), q[i] = q[j]
               PROVE  FALSE
    BY <1>2, <1>3
  <2>1. i \in DOMAIN q /\ j \in DOMAIN q /\ i # j
    BY <1>1
  <2> QED BY <2>1 DEF IsInjective
<1> DEFINE one == <<t>>
<1>6. one \in Seq(T) /\ ToSet(one) = {t} /\ IsInjective(one)
  BY SingletonFacts
<1> HIDE DEF one
<1> DEFINE at == a \o one
<1>7. at \in Seq(T) /\ ToSet(at) = ToSet(a) \cup {t} /\ IsInjective(at)
  <2>1. ToSet(a) \cap ToSet(one) = {}
    BY <1>4, <1>6
  <2> QED BY <1>2, <1>6, <2>1, ConcatFacts
<1> HIDE DEF at
<1>8. ToSet(at) \cap ToSet(b) = {}
  BY <1>4, <1>5, <1>7
<1>9. /\ at \o b \in Seq(T)
      /\ ToSet(at \o b) = ToSet(at) \cup ToSet(b)
      /\ IsInjective(at \o b)
  BY <1>3, <1>7, <1>8, ConcatFacts
<1>10. InsertAt(q, k + 1, t) = at \o b
  <2>1. (a \o one) \o b = a \o (one \o b)
    BY <1>2, <1>3, <1>6, ConcatAssociative
  <2>2. InsertAt(q, k + 1, t) = SubSeq(q, 1, (k + 1) - 1) \o <<t>> \o SubSeq(q, k + 1, Len(q))
    BY DEF InsertAt
  <2>3. InsertAt(q, k + 1, t) = a \o one \o b
    BY <2>2 DEF a, b, one
  <2> QED BY <2>1, <2>3 DEF at
<1> QED BY <1>4, <1>7, <1>9, <1>10

\* Place finds an element of a list.
LEMMA PlaceFacts ==
  ASSUME NEW T, NEW q \in Seq(T), NEW t \in ToSet(q)
  PROVE  Place(q, t) \in 1 .. Len(q) /\ q[Place(q, t)] = t
BY DEF Place, ToSet

\* Unlinking an element (timer_cancel) removes it and nothing else.
LEMMA RemoveFacts ==
  ASSUME NEW T, NEW q \in Seq(T), NEW t \in ToSet(q), IsInjective(q)
  PROVE  /\ RemoveAt(q, Place(q, t)) \in Seq(T)
         /\ ToSet(RemoveAt(q, Place(q, t))) = ToSet(q) \ {t}
         /\ IsInjective(RemoveAt(q, Place(q, t)))
<1> DEFINE p == Place(q, t)
           a == SubSeq(q, 1, p - 1)
           b == SubSeq(q, p + 1, Len(q))
<1>1. Len(q) \in Nat /\ DOMAIN q = 1 .. Len(q) /\ p \in 1 .. Len(q) /\ q[p] = t
  BY PlaceFacts
<1> HIDE DEF p
<1>2. a \in Seq(T) /\ ToSet(a) = {q[i] : i \in 1 .. p - 1} /\ IsInjective(a)
  <2>1. 1 \in Int /\ p - 1 \in Int /\ 1 <= 1 /\ p - 1 <= Len(q)
    BY <1>1
  <2> QED BY <2>1, SubSeqFacts
<1>3. b \in Seq(T) /\ ToSet(b) = {q[i] : i \in p + 1 .. Len(q)} /\ IsInjective(b)
  <2>1. p + 1 \in Int /\ Len(q) \in Int /\ 1 <= p + 1 /\ Len(q) <= Len(q)
    BY <1>1
  <2> QED BY <2>1, SubSeqFacts
<1> HIDE DEF a, b
<1>4. \A i, j \in 1 .. Len(q) : q[i] = q[j] => i = j
  BY <1>1 DEF IsInjective
<1>5. ToSet(a) \cup ToSet(b) = ToSet(q) \ {t}
  <2>1. \A i \in 1 .. Len(q) : i # p => i \in 1 .. p - 1 \/ i \in p + 1 .. Len(q)
    BY <1>1
  <2>2. \A i \in 1 .. p - 1 : i \in 1 .. Len(q) /\ i # p
    BY <1>1
  <2>3. \A i \in p + 1 .. Len(q) : i \in 1 .. Len(q) /\ i # p
    BY <1>1
  <2>4. ToSet(a) \cup ToSet(b) \subseteq ToSet(q) \ {t}
    BY <1>1, <1>2, <1>3, <1>4, <2>2, <2>3 DEF ToSet
  <2>5. ToSet(q) \ {t} \subseteq ToSet(a) \cup ToSet(b)
    BY <1>1, <1>2, <1>3, <2>1 DEF ToSet
  <2> QED BY <2>4, <2>5
<1>6. ToSet(a) \cap ToSet(b) = {}
  <2> SUFFICES ASSUME NEW i \in 1 .. p - 1, NEW j \in p + 1 .. Len(q), q[i] = q[j]
               PROVE  FALSE
    BY <1>2, <1>3
  <2>1. i \in 1 .. Len(q) /\ j \in 1 .. Len(q) /\ i # j
    BY <1>1
  <2> QED BY <2>1, <1>4
<1>7. /\ a \o b \in Seq(T)
      /\ ToSet(a \o b) = ToSet(a) \cup ToSet(b)
      /\ IsInjective(a \o b)
  <2>1. a \in Seq(T) /\ b \in Seq(T) /\ IsInjective(a) /\ IsInjective(b)
    BY <1>2, <1>3
  <2> QED BY ONLY <2>1, <1>6, ConcatFacts
<1>8. RemoveAt(q, p) = a \o b
  BY Zenon DEF RemoveAt, a, b
<1> QED BY <1>5, <1>7, <1>8 DEF p

\* What follows an element of the free list (timer_create pops it) is a list
\* without that element.
LEMMA SuffixFacts ==
  ASSUME NEW T, NEW q \in Seq(T), NEW t \in ToSet(q), IsInjective(q)
  PROVE  /\ SubSeq(q, Place(q, t) + 1, Len(q)) \in Seq(T)
         /\ ToSet(SubSeq(q, Place(q, t) + 1, Len(q))) \subseteq ToSet(q) \ {t}
         /\ IsInjective(SubSeq(q, Place(q, t) + 1, Len(q)))
<1> DEFINE p == Place(q, t)
           b == SubSeq(q, p + 1, Len(q))
<1>1. Len(q) \in Nat /\ DOMAIN q = 1 .. Len(q) /\ p \in 1 .. Len(q) /\ q[p] = t
  BY PlaceFacts
<1> HIDE DEF p
<1>2. b \in Seq(T) /\ ToSet(b) = {q[i] : i \in p + 1 .. Len(q)} /\ IsInjective(b)
  <2>1. p + 1 \in Int /\ Len(q) \in Int /\ 1 <= p + 1 /\ Len(q) <= Len(q)
    BY <1>1
  <2> QED BY <2>1, SubSeqFacts
<1> HIDE DEF b
<1>3. \A i \in p + 1 .. Len(q) : i \in DOMAIN q /\ i # p
  BY <1>1
<1>4. \A i \in p + 1 .. Len(q) : q[i] # t
  BY <1>1, <1>3 DEF IsInjective
<1> QED BY <1>2, <1>3, <1>4 DEF ToSet, b, p

\* Taking the first element off.
LEMMA TailFacts ==
  ASSUME NEW T, NEW q \in Seq(T), q # <<>>, IsInjective(q)
  PROVE  /\ Head(q) \in T /\ Tail(q) \in Seq(T)
         /\ ToSet(q) = ToSet(Tail(q)) \cup {Head(q)}
         /\ Head(q) \notin ToSet(Tail(q))
         /\ IsInjective(Tail(q))
<1> DEFINE r == Tail(q)
<1>1. /\ Len(q) \in Nat \ {0}
      /\ r \in Seq(T)
      /\ Len(r) = Len(q) - 1
      /\ \A i \in 1 .. Len(q) - 1 : r[i] = q[i + 1]
      /\ Head(q) = q[1] /\ Head(q) \in T
  OBVIOUS
<1> HIDE DEF r
<1>2. DOMAIN q = 1 .. Len(q) /\ DOMAIN r = 1 .. Len(q) - 1
  BY <1>1
<1>3. \A m, n \in 1 .. Len(q) : q[m] = q[n] => m = n
  BY <1>2 DEF IsInjective
<1>4. ToSet(r) \cup {Head(q)} \subseteq ToSet(q)
  BY <1>1, <1>2 DEF ToSet
<1>5. ToSet(q) \subseteq ToSet(r) \cup {Head(q)}
  <2> SUFFICES ASSUME NEW i \in 1 .. Len(q), i # 1 PROVE q[i] \in ToSet(r)
    BY <1>1, <1>2 DEF ToSet
  <2>1. i - 1 \in DOMAIN r /\ r[i - 1] = q[i]
    BY <1>1, <1>2
  <2> QED BY <2>1 DEF ToSet
<1>6. Head(q) \notin ToSet(r)
  BY <1>1, <1>2, <1>3 DEF ToSet
<1>7. IsInjective(r)
  <2> SUFFICES ASSUME NEW i \in 1 .. Len(q) - 1, NEW j \in 1 .. Len(q) - 1, r[i] = r[j]
               PROVE  i = j
    BY <1>2 DEF IsInjective
  <2> QED BY <1>1, <1>3
<1> QED BY <1>1, <1>4, <1>5, <1>6, <1>7 DEF r

\* Putting an element in front (timer_delete links it to the free list).
LEMMA ConsFacts ==
  ASSUME NEW T, NEW q \in Seq(T), NEW t \in T
  PROVE  /\ <<t>> \o q \in Seq(T)
         /\ ToSet(<<t>> \o q) = ToSet(q) \cup {t}
         /\ IsInjective(q) /\ t \notin ToSet(q) => IsInjective(<<t>> \o q)
<1> DEFINE s == <<t>>
<1>1. s \in Seq(T) /\ ToSet(s) = {t} /\ IsInjective(s)
  BY SingletonFacts
<1> HIDE DEF s
<1>2. /\ s \o q \in Seq(T)
      /\ ToSet(s \o q) = ToSet(s) \cup ToSet(q)
      /\ IsInjective(s) /\ IsInjective(q) /\ ToSet(s) \cap ToSet(q) = {}
           => IsInjective(s \o q)
  BY <1>1, ConcatFacts
<1> QED BY <1>1, <1>2 DEF s

\* The march down the list stops at a place of the queue.
LEMMA AheadPlace ==
  ASSUME NEW q \in Seq(Timer), NEW val, NEW v
  PROVE  Ahead(q, val, v) \in 0 .. Len(q)
<1> DEFINE S == {k \in 1 .. Len(q) : Expiry(q, val, k) <= v}
<1>1. Len(q) \in Nat
  OBVIOUS
<1>2. IsFiniteSet(1 .. Len(q)) /\ Cardinality(1 .. Len(q)) = Len(q)
  BY <1>1, FS_Interval
<1>3. S \in SUBSET (1 .. Len(q))
  OBVIOUS
<1>4. IsFiniteSet(S) /\ Cardinality(S) <= Len(q)
  BY <1>2, <1>3, FS_Subset
<1>5. Cardinality(S) \in Nat
  BY <1>4, FS_CardinalityType
<1> QED BY <1>1, <1>4, <1>5 DEF Ahead

-----------------------------------------------------------------------------
(***************************************************************************)
(* Sums.  The times on the queue are relative, so that when a timer        *)
(* expires is a sum, a recursive function.                                 *)
(***************************************************************************)

LEMMA SumExists ==
  ASSUME NEW n \in Nat, NEW w \in [1 .. n -> Int]
  PROVE  \E g \in [0 .. n -> Int] : g[0] = 0 /\ \A i \in 1 .. n : g[i] = g[i - 1] + w[i]
<1> DEFINE Good(m, g) == g \in [0 .. m -> Int] /\ g[0] = 0 /\ \A i \in 1 .. m : g[i] = g[i - 1] + w[i]
           S == {m \in Nat : m <= n => \E g : Good(m, g)}
<1>1. 0 \in S
  <2>1. Good(0, [i \in 0 .. 0 |-> 0])
    OBVIOUS
  <2> QED BY <2>1
<1>2. ASSUME NEW m \in Nat, m \in S, m + 1 <= n PROVE \E g : Good(m + 1, g)
  <2>1. PICK g : Good(m, g)
    BY <1>2
  <2>2. PICK x \in Int : x = g[m] + w[m + 1]
    <3>1. g[m] \in Int /\ w[m + 1] \in Int
      BY <2>1, <1>2
    <3> QED BY <3>1
  <2> DEFINE h == [i \in 0 .. m + 1 |-> IF i = m + 1 THEN x ELSE g[i]]
  <2>3. h \in [0 .. m + 1 -> Int] /\ h[0] = 0
    BY <2>1
  <2>4. ASSUME NEW i \in 1 .. m + 1 PROVE h[i] = h[i - 1] + w[i]
    <3>1. CASE i = m + 1
      BY <2>2, <3>1
    <3>2. CASE i # m + 1
      <4>1. i \in 1 .. m /\ i - 1 \in 0 .. m /\ i - 1 # m + 1
        BY <3>2
      <4> QED BY <4>1, <2>1
    <3> QED BY <3>1, <3>2
  <2>5. Good(m + 1, h)
    BY <2>3, <2>4
  <2> QED BY <2>5
<1> HIDE DEF Good
<1>3. ASSUME NEW m \in Nat, m \in S PROVE m + 1 \in S
  BY <1>2, <1>3
<1> HIDE DEF S
<1>5. n \in S
  BY <1>1, <1>3, SetInduction
<1> QED BY <1>5 DEF S, Good

LEMMA ExpiryFacts ==
  ASSUME NEW T, NEW q \in Seq(T), NEW val \in [T -> Nat]
  PROVE  /\ Expiry(q, val, 0) = 0
         /\ \A k \in 0 .. Len(q) : Expiry(q, val, k) \in Int
         /\ \A k \in 1 .. Len(q) : Expiry(q, val, k) = Expiry(q, val, k - 1) + val[q[k]]
<1> DEFINE sum == CHOOSE sum : sum = [i \in 0 .. Len(q) |-> IF i = 0 THEN 0 ELSE sum[i - 1] + val[q[i]]]
           w == [i \in 1 .. Len(q) |-> val[q[i]]]
<1>1. Len(q) \in Nat /\ w \in [1 .. Len(q) -> Int]
  OBVIOUS
<1>2. PICK g \in [0 .. Len(q) -> Int] : g[0] = 0 /\ \A i \in 1 .. Len(q) : g[i] = g[i - 1] + w[i]
  BY <1>1, SumExists
<1>3. g = [i \in 0 .. Len(q) |-> IF i = 0 THEN 0 ELSE g[i - 1] + val[q[i]]]
  BY <1>1, <1>2
<1>4. sum = [i \in 0 .. Len(q) |-> IF i = 0 THEN 0 ELSE sum[i - 1] + val[q[i]]]
  BY <1>3
<1>5. \A k : Expiry(q, val, k) = sum[k]
  BY DEF Expiry
<1> HIDE DEF sum
<1>6. /\ sum[0] = 0
      /\ \A k \in 1 .. Len(q) : sum[k] = sum[k - 1] + val[q[k]]
  BY <1>4, <1>1
<1> DEFINE S == {k \in Nat : k <= Len(q) => sum[k] \in Int}
<1>7. 0 \in S
  BY <1>6
<1>8. ASSUME NEW k \in Nat, k \in S PROVE k + 1 \in S
  <2> SUFFICES ASSUME k + 1 <= Len(q) PROVE sum[k + 1] \in Int
    OBVIOUS
  <2>1. k + 1 \in 1 .. Len(q) /\ sum[k + 1] = sum[(k + 1) - 1] + val[q[k + 1]] /\ (k + 1) - 1 = k
    BY <1>6, <1>1
  <2>2. sum[k] \in Int
    BY <1>8, <1>1
  <2> QED BY <2>1, <2>2
<1> HIDE DEF S
<1>9. \A k \in Nat : k \in S
  BY <1>7, <1>8, SetInduction
<1>10. \A k \in 0 .. Len(q) : sum[k] \in Int
  BY <1>9, <1>1 DEF S
<1> QED BY <1>5, <1>6, <1>10

\* A timer further down the queue expires no earlier.
LEMMA ExpiryGrows ==
  ASSUME NEW T, NEW q \in Seq(T), NEW val \in [T -> Nat]
  PROVE  \A k \in 0 .. Len(q) : \A j \in 0 .. k : Expiry(q, val, j) <= Expiry(q, val, k)
<1> DEFINE E(k) == Expiry(q, val, k)
           S == {k \in Nat : k <= Len(q) => \A j \in 0 .. k : E(j) <= E(k)}
<1>1. /\ \A k \in 0 .. Len(q) : E(k) \in Int
      /\ \A k \in 1 .. Len(q) : E(k) = E(k - 1) + val[q[k]] /\ val[q[k]] \in Nat
      /\ Len(q) \in Nat
  BY ExpiryFacts
<1> HIDE DEF E
<1>2. 0 \in S
  BY <1>1
<1>3. ASSUME NEW k \in Nat, k \in S PROVE k + 1 \in S
  <2> SUFFICES ASSUME k + 1 <= Len(q), NEW j \in 0 .. k + 1 PROVE E(j) <= E(k + 1)
    OBVIOUS
  <2>1. /\ k + 1 \in 1 .. Len(q) /\ (k + 1) - 1 = k /\ k \in 0 .. Len(q) /\ k + 1 \in 0 .. Len(q)
        /\ j \in 0 .. Len(q)
    BY <1>1
  <2>2. E(k + 1) = E(k) + val[q[k + 1]] /\ val[q[k + 1]] \in Nat /\ E(k) \in Int /\ E(j) \in Int
    BY <1>1, <2>1
  <2>3. CASE j = k + 1
    BY <2>2, <2>3
  <2>4. CASE j # k + 1
    <3>1. j \in 0 .. k /\ k <= Len(q)
      BY <2>4, <1>1
    <3>2. E(j) <= E(k)
      BY <3>1, <1>3
    <3> QED BY <3>2, <2>2
  <2> QED BY <2>3, <2>4
<1> HIDE DEF S
<1>4. \A k \in Nat : k \in S
  BY <1>2, <1>3, SetInduction
<1> QED BY <1>4, <1>1 DEF S, E

\* The march down the list stops behind the last timer that expires no later.
LEMMA AheadFacts ==
  ASSUME NEW q \in Seq(Timer), NEW val \in [Timer -> Nat], NEW v \in Nat,
         NEW k, k = Ahead(q, val, v)
  PROVE  /\ k \in 0 .. Len(q) /\ Expiry(q, val, k) \in Int /\ Expiry(q, val, k) <= v
         /\ k < Len(q) => /\ Expiry(q, val, k) + val[q[k + 1]] > v
                          /\ val[q[k + 1]] \in Nat
<1> DEFINE E(j) == Expiry(q, val, j)
           S == {j \in 1 .. Len(q) : E(j) <= v}
<1>1. /\ E(0) = 0
      /\ \A j \in 0 .. Len(q) : E(j) \in Int
      /\ \A j \in 1 .. Len(q) : E(j) = E(j - 1) + val[q[j]] /\ val[q[j]] \in Nat
      /\ Len(q) \in Nat
  BY ExpiryFacts
<1>2. \A j \in 0 .. Len(q) : \A i \in 0 .. j : E(i) <= E(j)
  BY ExpiryGrows
<1>3. k \in 0 .. Len(q) /\ k = Cardinality(S)
  BY AheadPlace DEF Ahead
<1> HIDE DEF E
<1>4. IsFiniteSet(S)
  <2>1. IsFiniteSet(1 .. Len(q)) /\ S \in SUBSET (1 .. Len(q))
    BY <1>1, FS_Interval
  <2> QED BY <2>1, FS_Subset
<1>5. ASSUME NEW j \in S PROVE j <= k
  <2>1. j \in 1 .. Len(q) /\ E(j) <= v
    OBVIOUS
  <2>2. ASSUME NEW i \in 1 .. j PROVE i \in S
    <3>1. i \in 0 .. j /\ i \in 1 .. Len(q) /\ i \in 0 .. Len(q) /\ j \in 0 .. Len(q)
      BY <2>1, <1>1
    <3>2. E(i) <= E(j) /\ E(i) \in Int /\ E(j) \in Int
      BY <3>1, <1>1, <1>2
    <3> QED BY <3>1, <3>2, <2>1
  <2>3. 1 .. j \in SUBSET S
    BY <2>2
  <2>4. Cardinality(1 .. j) <= Cardinality(S)
    BY <2>3, <1>4, FS_Subset
  <2>5. 1 \in Int /\ j \in Int /\ ~(1 > j) /\ j - 1 + 1 = j
    BY <2>1, <1>1
  <2>6. Cardinality(1 .. j) = j
    BY <2>5, FS_Interval
  <2> QED BY <2>4, <2>6, <1>3
<1>6. S = 1 .. k
  <2>1. S \in SUBSET (1 .. k)
    BY <1>5, <1>1
  <2>2. IsFiniteSet(1 .. k) /\ Cardinality(1 .. k) = k
    BY <1>3, FS_Interval
  <2> QED BY <2>1, <2>2, <1>3, FS_Subset
<1>7. E(k) \in Int /\ E(k) <= v
  <2>1. CASE k = 0
    BY <2>1, <1>1
  <2>2. CASE k # 0
    <3>1. k \in 1 .. k
      BY <2>2, <1>3
    <3>2. k \in S
      BY <3>1, <1>6
    <3> QED BY <3>2, <1>1, <1>3
  <2> QED BY <2>1, <2>2
<1>8. ASSUME k < Len(q) PROVE E(k) + val[q[k + 1]] > v /\ val[q[k + 1]] \in Nat
  <2>1. /\ k + 1 \in 1 .. Len(q) /\ (k + 1) - 1 = k /\ k + 1 \notin 1 .. k
        /\ k + 1 \in 0 .. Len(q)
    BY <1>1, <1>3, <1>8
  <2>2. ~(E(k + 1) <= v)
    BY <2>1, <1>6
  <2>3. E(k + 1) = E(k) + val[q[k + 1]] /\ E(k + 1) \in Int /\ val[q[k + 1]] \in Nat
    BY <2>1, <1>1
  <2> QED BY <2>2, <2>3, <1>7
<1> QED BY <1>3, <1>7, <1>8 DEF E

-----------------------------------------------------------------------------
\* init_event_queue links all structures into one list without repetition.
LEMMA FreeListFacts ==
  SetToSeq(Timer) \in Seq(Timer) /\ IsInjective(SetToSeq(Timer))
<1> DEFINE n == Cardinality(Timer)
<1>1. n \in Nat /\ ExistsBijection(1 .. n, Timer)
  BY TimerAssumption, FS_CardinalityType
<1> HIDE DEF n
<1>2. \E f \in [1 .. n -> Timer] : IsInjective(f)
  BY <1>1, Zenon DEF ExistsBijection, Bijection, Injection
<1>3. SetToSeq(Timer) \in [1 .. n -> Timer] /\ IsInjective(SetToSeq(Timer))
  BY <1>2, Zenon DEF SetToSeq, n
<1> QED BY <1>1, <1>3, IsASeq

-----------------------------------------------------------------------------
(* The inductive invariant.                                                *)

(* The lists are lists of timers, and the flags sets of them.              *)
Shape ==
  /\ event_queue \in Seq(Timer)
  /\ event_freelist \in Seq(Timer)
  /\ next \in Seq(Timer)
  /\ cancelled \subseteq Timer
  /\ owned \subseteq Timer
  /\ after \in {"run", "free"}

(* A free structure belongs to no client.                                  *)
FreeUnowned == Free \cap owned = {}

(* What the main program relies on about its timer between two steps,      *)
(* although callbacks may run there.                                       *)
InHand ==
  /\ pc = "pop" => event \in Free
  /\ pc \in {"set", "insert", "issue", "cancel", "remove", "reissue", "free", "link"}
       => event \in owned
  /\ pc \in {"set", "insert"} => event \notin Armed
  /\ pc \in {"reissue", "free", "link"} => event \in cancelled

(* The free list as the main program saw it holds no client's structure,   *)
(* even when a callback has put more in front since.                       *)
NextFree == pc = "link" => IsInjective(next) /\ ToSet(next) \cap owned = {}

IInv == Shape /\ QueueSound /\ FreeUnowned /\ InHand /\ NextFree

\* The invariant holds once init_event_queue has run.
LEMMA InitKept == Init => IInv
<1> SUFFICES ASSUME Init PROVE IInv
  OBVIOUS
<1>1. event_queue \in Seq(Timer) /\ ToSet(event_queue) = {} /\ IsInjective(event_queue)
  <2>1. event_queue = <<>> /\ DOMAIN <<>> = {} /\ <<>> \in Seq(Timer)
    BY DEF Init
  <2> QED BY <2>1, Zenon DEF ToSet, IsInjective
<1>2. event_freelist \in Seq(Timer) /\ IsInjective(event_freelist)
  BY FreeListFacts DEF Init
<1> QED BY <1>1, <1>2 DEF Init, IInv, Shape, QueueSound, FreeUnowned, InHand,
            NextFree, Armed, Free

\* Steps that leave both lists alone.
LEMMA QuietKept ==
  ASSUME IInv,
         \/ timer_create
         \/ \E t \in Timer, value, period \in Time : timer_settime(t, value, period)
         \/ \E t \in Timer : timer_cancel(t) \/ timer_delete(t)
         \/ block_timer \/ Issue \/ Reissue \/ FreeNext
         \/ Deliver \/ Segv \/ HandlerReissue \/ Tick
         \/ UNCHANGED vars
  PROVE  IInv'
<1> USE DEF IInv, Shape, QueueSound, FreeUnowned, InHand, NextFree, Armed, Free
<1>1. CASE timer_create
  <2>1. event_freelist # <<>> => Head(event_freelist) \in ToSet(event_freelist)
    BY TailFacts
  <2> QED BY <1>1, <2>1 DEF timer_create, Call, lists, times, flags, clock
<1>2. CASE \E t \in Timer, value, period \in Time : timer_settime(t, value, period)
  BY <1>2 DEF timer_settime, Call, lists, times, flags, clock
<1>3. CASE \E t \in Timer : timer_cancel(t) \/ timer_delete(t)
  BY <1>3 DEF timer_cancel, timer_delete, Call, lists, times, flags, clock
<1>4. CASE block_timer
  BY <1>4 DEF block_timer, At, lists, times, flags, clock
<1>5. CASE Issue
  BY <1>5 DEF Issue, At, lists, flags
<1>6. CASE Reissue
  BY <1>6 DEF Reissue, At, lists, flags
<1>7. CASE FreeNext
  BY <1>7 DEF FreeNext, At, lists, times, clock
<1>8. CASE Deliver
  BY <1>8 DEF Deliver, lists, times, flags, main
<1>9. CASE Segv
  BY <1>9 DEF Segv, lists, times, flags, clock
<1>10. CASE HandlerReissue
  BY <1>10 DEF HandlerReissue, lists, flags, main
<1>11. CASE Tick
  BY <1>11 DEF Tick, lists, times, flags, main
<1>12. CASE UNCHANGED vars
  BY <1>12 DEF vars, lists, times, flags, clock, main
<1> QED BY <1>1, <1>2, <1>3, <1>4, <1>5, <1>6, <1>7, <1>8, <1>9, <1>10, <1>11, <1>12

\* timer_create takes a structure off the free list, whatever callbacks have
\* put in front of it.
LEMMA PopKept == ASSUME IInv, Pop PROVE IInv'
<1> USE DEF IInv, Shape, QueueSound, FreeUnowned, InHand, NextFree, Armed, Free
<1>1. event \in ToSet(event_freelist) /\ pc' = "run"
  BY DEF Pop, At
<1>2. event \in Timer
  <2>1. \A i \in DOMAIN event_freelist : event_freelist[i] \in Timer
    OBVIOUS
  <2> QED BY <1>1, <2>1 DEF ToSet
<1>3. /\ event_freelist' \in Seq(Timer)
      /\ ToSet(event_freelist') \subseteq ToSet(event_freelist) \ {event}
      /\ IsInjective(event_freelist')
  BY <1>1, SuffixFacts DEF Pop
<1> QED BY <1>1, <1>2, <1>3 DEF Pop, At, times, clock

\* timer_settime links a timer of its client's that is not on the queue.
LEMMA InsertKept == ASSUME IInv, Insert PROVE IInv'
<1> USE DEF IInv, Shape, QueueSound, FreeUnowned, InHand, NextFree, Armed, Free
<1>1. event \in owned /\ event \notin ToSet(event_queue) /\ event \in Timer
  BY DEF Insert, At
<1> DEFINE k == Ahead(event_queue, Current, timerroundup(it_value[event]))
<1>2. event_queue' = InsertAt(event_queue, k + 1, event)
  BY DEF Insert, Link
<1>3. k \in 0 .. Len(event_queue)
  BY AheadPlace
<1> HIDE DEF k
<1>4. /\ event_queue' \in Seq(Timer)
      /\ ToSet(event_queue') = ToSet(event_queue) \cup {event}
      /\ IsInjective(event_queue')
  BY <1>1, <1>2, <1>3, InsertFacts
<1>5. pc' \in {"issue", "run"}
  BY DEF Insert, FrontAfter
<1> QED BY <1>1, <1>4, <1>5 DEF Insert, At, clock

\* timer_cancel unlinks its timer and no other.
LEMMA UnlinkKept == ASSUME IInv, Unlink PROVE IInv'
<1> USE DEF IInv, Shape, QueueSound, FreeUnowned, InHand, NextFree, Armed, Free
<1>1. event \in owned /\ event \in Timer /\ pc' \in {"run", "free", "reissue"}
  BY DEF Unlink, At
<1>2. /\ event_queue' \in Seq(Timer)
      /\ ToSet(event_queue') = ToSet(event_queue) \ {event}
      /\ IsInjective(event_queue')
  <2>1. CASE event \notin ToSet(event_queue)
    BY <2>1 DEF Unlink
  <2>2. CASE event \in ToSet(event_queue)
    <3>1. event_queue' = RemoveAt(event_queue, Place(event_queue, event))
      BY <2>2 DEF Unlink
    <3> QED BY <2>2, <3>1, RemoveFacts
  <2> QED BY <2>1, <2>2
<1> QED BY <1>1, <1>2 DEF Unlink, At, clock

\* timer_delete links its structure to the free list it saw, which may be an
\* old one: structures are lost, but none is free and in use.
LEMMA FreeLinkKept == ASSUME IInv, FreeLink PROVE IInv'
<1> USE DEF IInv, Shape, QueueSound, FreeUnowned, InHand, NextFree, Armed, Free
<1>1. /\ event \in owned /\ event \in Timer /\ event \in cancelled /\ pc' = "run"
      /\ next \in Seq(Timer) /\ IsInjective(next) /\ ToSet(next) \cap owned = {}
  BY DEF FreeLink, At
<1>2. /\ event_freelist' \in Seq(Timer)
      /\ ToSet(event_freelist') = ToSet(next) \cup {event}
      /\ IsInjective(event_freelist')
  BY <1>1, ConsFacts DEF FreeLink
<1> QED BY <1>1, <1>2 DEF FreeLink, At, times, flags, clock

\* alarm_handler: the first timer leaves the queue, unless it recurs and its
\* callback has not deleted it.
LEMMA ExpireKept == ASSUME IInv, Expire PROVE IInv'
<1> USE DEF IInv, Shape, QueueSound, FreeUnowned, InHand, NextFree, Armed, Free
<1> DEFINE t == Head(event_queue)
           q == Tail(event_queue)
<1>1. /\ t \in Timer /\ q \in Seq(Timer)
      /\ ToSet(event_queue) = ToSet(q) \cup {t}
      /\ t \notin ToSet(q)
      /\ IsInjective(q)
  BY TailFacts DEF Expire
<1>2. /\ CallbackDeletes(t) \/ UNCHANGED <<event_freelist, flags, owned>>
      /\ \/ Recurring(t) /\ Link(q, it_value, t, timerroundup(it_interval[t]))
         \/ ~Recurring(t) /\ event_queue' = q
      /\ UNCHANGED main
  BY DEF Expire
<1> HIDE DEF t, q
<1>3. UNCHANGED <<pc, event, after, next>>
  BY <1>2 DEF main
<1>4. CASE Recurring(t)
  <2>1. t \notin cancelled'
    BY <1>4 DEF Recurring
  <2>2. UNCHANGED <<event_freelist, cancelled, owned>>
    BY <1>2, <2>1 DEF CallbackDeletes, flags
  <2> DEFINE k == Ahead(q, it_value, timerroundup(it_interval[t]))
  <2>3. event_queue' = InsertAt(q, k + 1, t)
    BY <1>2, <1>4 DEF Link
  <2>4. k \in 0 .. Len(q)
    BY <1>1, AheadPlace
  <2> HIDE DEF k
  <2>5. /\ event_queue' \in Seq(Timer)
        /\ ToSet(event_queue') = ToSet(event_queue)
        /\ IsInjective(event_queue')
    BY <1>1, <2>3, <2>4, InsertFacts
  <2> QED BY <1>3, <2>2, <2>5
<1>5. CASE ~Recurring(t) /\ CallbackDeletes(t)
  <2>1. /\ event_queue' = q
        /\ t \in owned /\ t \notin ToSet(event_freelist)
    BY <1>1, <1>2, <1>5
  <2>2. /\ event_freelist' \in Seq(Timer)
        /\ ToSet(event_freelist') = ToSet(event_freelist) \cup {t}
        /\ IsInjective(event_freelist')
    BY <1>1, <1>5, <2>1, ConsFacts DEF CallbackDeletes
  <2>3. /\ cancelled' = cancelled \cup {t} /\ owned' = owned \ {t}
        /\ pc # "run" => event # t
    BY <1>5 DEF CallbackDeletes
  <2> QED BY <1>1, <1>3, <2>1, <2>2, <2>3
<1>6. CASE ~Recurring(t) /\ UNCHANGED <<event_freelist, flags, owned>>
  <2>1. event_queue' = q /\ UNCHANGED <<event_freelist, cancelled, owned>>
    BY <1>2, <1>6 DEF flags
  <2> QED BY <1>1, <1>3, <2>1
<1> QED BY <1>2, <1>4, <1>5, <1>6

-----------------------------------------------------------------------------
LEMMA Kept == IInv /\ [Next]_vars => IInv'
<1> SUFFICES ASSUME IInv, [Next]_vars PROVE IInv'
  OBVIOUS
<1>1. CASE Pop \/ Insert \/ Unlink \/ FreeLink \/ Expire
  BY <1>1, PopKept, InsertKept, UnlinkKept, FreeLinkKept, ExpireKept
<1>2. CASE ~(Pop \/ Insert \/ Unlink \/ FreeLink \/ Expire)
  BY <1>2, QuietKept DEF Next, Library, alarm_handler
<1> QED BY <1>1, <1>2

\* For any number of timers, times and calls, wherever SIGALRM interrupts the
\* main program and whatever callbacks delete: the queue and the free list are
\* disjoint lists that do not loop back on themselves, and a timer on the queue
\* belongs to a client and is not cancelled.
THEOREM QueueKept == Spec => []QueueSound
<1>1. Init => IInv
  BY InitKept
<1>2. IInv => QueueSound
  BY DEF IInv
<1> QED BY <1>1, <1>2, Kept, PTL DEF Spec

-----------------------------------------------------------------------------
(***************************************************************************)
(* Times and the interval timer.                                           *)
(***************************************************************************)
Times ==
  /\ it_value \in [Timer -> Nat] /\ it_interval \in [Timer -> Nat]
  /\ itimer \in Nat /\ alarm \in BOOLEAN
  /\ due \in [Timer -> Nat]

Places ==
  /\ deleted \subseteq Timer
  /\ pc \in {"run", "pop", "set", "insert", "issue", "cancel", "remove",
             "reissue", "free", "link", "dead"}
  /\ event \in Timer \cup {Nobody}
  /\ handler \in {"no", "loop", "reissue"}
  /\ calls \in 0 .. MaxCalls

(* The handler stays out where SIGALRM is blocked.                         *)
KeptOut == Blocked => handler = "no"

(* Between the change of the queue and setitimer the interval timer may be *)
(* wrong; everywhere else it is set for the first timer or earlier.        *)
Waited ==
  /\ pc = "issue" => event_queue # <<>>
  /\ handler = "no" /\ pc \notin {"issue", "reissue", "dead"} /\ event_queue # <<>> =>
       /\ itimer > 0 \/ alarm
       /\ itimer <= it_value[Head(event_queue)]

TInv == Times /\ Places /\ KeptOut /\ Waited

LEMMA InitTimed == Init => TInv
<1> SUFFICES ASSUME Init PROVE TInv
  OBVIOUS
<1>1. Times
  BY DEF Init, Times
<1>2. Places
  BY TimerAssumption DEF Init, Places
<1>3. KeptOut /\ Waited
  BY DEF Init, KeptOut, Waited
<1> QED BY <1>1, <1>2, <1>3 DEF TInv

LEMMA HeadFacts ==
  ASSUME NEW q \in Seq(Timer), q # <<>>
  PROVE  Head(q) = q[1] /\ Head(q) \in Timer /\ Head(q) \in ToSet(q) /\ 1 \in DOMAIN q
<1>1. Head(q) = q[1] /\ 1 \in DOMAIN q /\ q[1] \in Timer
  OBVIOUS
<1> QED BY <1>1 DEF ToSet

\* Only an insertion before the first timer changes which one is first.
LEMMA InsertHead ==
  ASSUME NEW q \in Seq(Timer), NEW k \in 0 .. Len(q), NEW t \in Timer,
         NEW s, s = InsertAt(q, k + 1, t)
  PROVE  s # <<>> /\ Head(s) = IF k = 0 THEN t ELSE Head(q)
<1> DEFINE a == SubSeq(q, 1, (k + 1) - 1)
           b == SubSeq(q, k + 1, Len(q))
           one == <<t>>
<1>1. /\ Len(q) \in Nat /\ (k + 1) - 1 = k
      /\ k # 0 => 1 \in 1 .. k /\ 1 <= Len(q) /\ k \in 1 .. Len(q)
  OBVIOUS
<1>2. a \in Seq(Timer) /\ Len(a) = k /\ (k # 0 => a[1] = q[1])
  <2>1. CASE k = 0
    BY <2>1, <1>1
  <2>2. CASE k # 0
    BY <2>2, <1>1
  <2> QED BY <2>1, <2>2
<1>3. b \in Seq(Timer)
  <2>1. k + 1 \in Int /\ Len(q) \in Int /\ 1 <= k + 1 /\ Len(q) <= Len(q)
    BY <1>1
  <2> QED BY <2>1, SubSeqFacts
<1>4. one \in Seq(Timer) /\ Len(one) = 1 /\ one[1] = t
  OBVIOUS
<1>5. s = (a \o one) \o b
  BY Zenon DEF InsertAt, a, b, one
<1> HIDE DEF a, b, one
<1>6. PICK c : c = a \o one
  OBVIOUS
<1>7. c \in Seq(Timer) /\ Len(c) = k + 1 /\ c[1] = IF k = 0 THEN t ELSE q[1]
  <2>0. /\ c \in Seq(Timer) /\ Len(c) = Len(a) + Len(one)
        /\ \A i \in 1 .. Len(a) + Len(one) :
             c[i] = IF i <= Len(a) THEN a[i] ELSE one[i - Len(a)]
    BY <1>2, <1>4, <1>6, ConcatProperties
  <2>1. /\ Len(c) = k + 1
        /\ \A i \in 1 .. k + 1 : c[i] = IF i <= k THEN a[i] ELSE one[i - k]
    BY <2>0, <1>2, <1>4
  <2>2. 1 \in 1 .. k + 1 /\ (k = 0 => ~(1 <= k) /\ 1 - k = 1) /\ (k # 0 => 1 <= k)
    OBVIOUS
  <2> QED BY <2>0, <2>1, <2>2, <1>2, <1>4
<1>8. s \in Seq(Timer) /\ Len(s) > 0 /\ s[1] = c[1]
  <2>1. /\ s \in Seq(Timer) /\ Len(s) = Len(c) + Len(b) /\ Len(b) \in Nat
        /\ \A i \in 1 .. Len(c) + Len(b) :
             s[i] = IF i <= Len(c) THEN c[i] ELSE b[i - Len(c)]
    <3>1. s = c \o b
      BY <1>5, <1>6
    <3>2. Len(b) \in Nat
      BY <1>3
    <3>3. c \in Seq(Timer)
      BY <1>7
    <3>4. /\ c \o b \in Seq(Timer) /\ Len(c \o b) = Len(c) + Len(b)
          /\ \A i \in 1 .. Len(c) + Len(b) :
               (c \o b)[i] = IF i <= Len(c) THEN c[i] ELSE b[i - Len(c)]
      BY <3>3, <1>3, ConcatProperties
    <3> QED BY <3>1, <3>2, <3>4, Zenon
  <2>2. 1 \in 1 .. Len(c) + Len(b) /\ 1 <= Len(c) /\ Len(c) + Len(b) > 0
    BY <2>1, <1>7
  <2> QED BY <2>1, <2>2
<1>9. s # <<>> /\ Head(s) = s[1]
  BY <1>8
<1>10. k # 0 => Head(q) = q[1]
  BY <1>1
<1> QED BY <1>7, <1>8, <1>9, <1>10

\* Linking a timer keeps every time relative and none negative: the timer gets
\* what is left after the ones ahead of it, the next one what is left after it.
LEMMA LinkTimes ==
  ASSUME NEW q \in Seq(Timer), IsInjective(q), NEW val \in [Timer -> Nat],
         NEW t \in Timer, t \notin ToSet(q), NEW v \in Nat, Link(q, val, t, v)
  PROVE  /\ it_value' \in [Timer -> Nat]
         /\ event_queue' # <<>>
         /\ Head(event_queue') # t => /\ q # <<>> /\ Head(event_queue') = Head(q)
                                      /\ it_value'[Head(q)] = val[Head(q)]
<1>1. PICK k : k = Ahead(q, val, v)
  OBVIOUS
<1>2. /\ k \in 0 .. Len(q) /\ Expiry(q, val, k) \in Int /\ Expiry(q, val, k) <= v
      /\ k < Len(q) => /\ Expiry(q, val, k) + val[q[k + 1]] > v
                       /\ val[q[k + 1]] \in Nat
  BY <1>1, AheadFacts
<1>3. PICK r \in Nat : r = v - Expiry(q, val, k)
  BY <1>2
<1>4. k < Len(q) => val[q[k + 1]] - r \in Nat
  BY <1>2, <1>3
<1>5. /\ event_queue' = InsertAt(q, k + 1, t)
      /\ it_value' = [u \in Timer |->
                        IF u = t THEN r
                        ELSE IF k < Len(q) /\ u = q[k + 1] THEN val[u] - r
                        ELSE val[u]]
  BY <1>1, <1>3 DEF Link
<1>6. it_value' \in [Timer -> Nat]
  BY <1>3, <1>4, <1>5
<1>7. event_queue' # <<>> /\ Head(event_queue') = IF k = 0 THEN t ELSE Head(q)
  BY <1>2, <1>5, InsertHead
<1>8. ASSUME k # 0 PROVE q # <<>> /\ it_value'[Head(q)] = val[Head(q)]
  <2>1. Len(q) \in Nat /\ q # <<>> /\ 1 \in DOMAIN q
    BY <1>2, <1>8
  <2>2. Head(q) = q[1] /\ Head(q) \in Timer /\ Head(q) # t
    BY <2>1, HeadFacts
  <2>3. k < Len(q) => k + 1 \in DOMAIN q /\ k + 1 # 1
    BY <2>1, <1>2, <1>8
  <2>4. k < Len(q) => Head(q) # q[k + 1]
    BY <2>1, <2>2, <2>3 DEF IsInjective
  <2> QED BY <1>5, <2>1, <2>2, <2>4
<1> QED BY <1>6, <1>7, <1>8
LEMMA RoundType == \A x \in Nat : timerroundup(x) \in Nat \ {0}
BY DEF timerroundup

\* setitimer: the interval timer runs as long as the first timer waits.
LEMMA ItimerSet ==
  ASSUME IInv, Times, event_queue # <<>>, SetItimer, event_queue' = event_queue
  PROVE  /\ it_value' \in [Timer -> Nat] /\ itimer' \in Nat /\ itimer' > 0
         /\ itimer' <= it_value'[Head(event_queue')]
<1>1. PICK t \in Timer : t = Head(event_queue)
  BY HeadFacts DEF IInv, Shape
<1>2. PICK x \in Nat : x = timerroundup(it_value[t]) /\ x > 0
  <2>1. it_value[t] \in Nat
    BY DEF Times
  <2>2. timerroundup(it_value[t]) \in Nat \ {0}
    BY <2>1, RoundType
  <2>3. \A y \in Nat \ {0} : y > 0
    OBVIOUS
  <2> QED BY <2>2, <2>3
<1>3. itimer' = x /\ it_value' = [it_value EXCEPT ![t] = x]
  BY <1>1, <1>2 DEF SetItimer
<1> QED BY <1>1, <1>2, <1>3 DEF Times

\* The steps of the main program that leave the queue and the clock alone.
LEMMA CallsTimed ==
  ASSUME IInv, TInv,
         \/ timer_create
         \/ \E t \in Timer, value, period \in Time : timer_settime(t, value, period)
         \/ \E t \in Timer : timer_cancel(t) \/ timer_delete(t)
         \/ block_timer \/ FreeNext \/ FreeLink \/ Pop
         \/ UNCHANGED vars
  PROVE  TInv'
<1> USE DEF TInv, Places, KeptOut, Blocked, Waited
<1>0. \A n \in Nat : MaxCalls \in Nat /\ (n \in 0 .. MaxCalls /\ n < MaxCalls => n + 1 \in 0 .. MaxCalls)
  BY TimerAssumption
<1>1. CASE timer_create
  <2>1. event_freelist # <<>> => Head(event_freelist) \in Timer
    BY HeadFacts DEF IInv, Shape
  <2>2. Times'
    BY <1>1 DEF timer_create, times, clock, Times
  <2> QED BY <1>0, <1>1, <2>1, <2>2 DEF timer_create, Call, lists, times, flags, clock
<1>2. CASE \E t \in Timer, value, period \in Time : timer_settime(t, value, period)
  <2>1. PICK t \in Timer, value \in Time, period \in Time : timer_settime(t, value, period)
    BY <1>2
  <2>2. value \in Nat /\ period \in Nat
    BY TimerAssumption
  <2>3. Times'
    BY <2>1, <2>2 DEF timer_settime, clock, Times
  <2>4. event_queue # <<>> => it_value'[Head(event_queue)] = it_value[Head(event_queue)]
    <3>1. event_queue # <<>> => Head(event_queue) \in Armed
      BY HeadFacts DEF IInv, Shape, Armed
    <3> QED BY <2>1, <3>1 DEF timer_settime, Times
  <2> QED BY <1>0, <2>1, <2>3, <2>4 DEF timer_settime, Call, lists, flags, clock
<1>3. CASE \E t \in Timer : timer_cancel(t) \/ timer_delete(t)
  <2>1. Times'
    BY <1>3 DEF timer_cancel, timer_delete, times, clock, Times
  <2> QED BY <1>0, <1>3, <2>1 DEF timer_cancel, timer_delete, Call, lists, times, flags, clock
<1>4. CASE block_timer \/ FreeNext \/ FreeLink \/ Pop
  <2>1. Times'
    BY <1>4 DEF block_timer, FreeNext, FreeLink, Pop, times, clock, Times
  <2>2. event \in Timer \/ ~FreeNext
    BY DEF FreeNext, At, IInv, InHand, Shape
  <2> QED BY <1>4, <2>1, <2>2 DEF block_timer, FreeNext, FreeLink, Pop, At, lists, times, flags, clock
<1>5. CASE UNCHANGED vars
  BY <1>5 DEF vars, lists, times, flags, clock, main, Times
<1> QED BY <1>1, <1>2, <1>3, <1>4, <1>5

\* Time passes: what runs out leaves an alarm behind.
LEMMA TickTimed == ASSUME IInv, TInv, Tick PROVE TInv'
<1>1. Times'
  BY DEF Tick, TInv, Times, times
<1>2. /\ UNCHANGED <<event_queue, it_value, deleted, pc, event, handler, calls>>
      /\ itimer \in Nat /\ itimer > 0 /\ itimer' = itimer - 1 /\ alarm' = (alarm \/ itimer = 1)
  BY DEF Tick, lists, times, flags, main, TInv, Times
<1>3. itimer' <= itimer /\ (itimer' > 0 \/ itimer = 1) /\ itimer' \in Nat
  BY <1>2
<1>4. Waited'
  <2> SUFFICES ASSUME handler = "no", pc \notin {"issue", "reissue", "dead"}, event_queue # <<>>
               PROVE  (itimer' > 0 \/ alarm') /\ itimer' <= it_value[Head(event_queue)]
    BY <1>2 DEF Waited, TInv
  <2>1. itimer <= it_value[Head(event_queue)] /\ it_value[Head(event_queue)] \in Nat
    BY HeadFacts DEF Waited, TInv, Times, IInv, Shape
  <2>2. itimer = 1 => alarm'
    BY <1>2
  <2>3. itimer' > 0 \/ alarm'
    BY <1>3, <2>2, Zenon
  <2>4. itimer' <= it_value[Head(event_queue)]
    BY <1>2, <1>3, <2>1
  <2> QED BY <2>3, <2>4
<1> QED BY <1>1, <1>2, <1>4 DEF TInv, Places, KeptOut, Blocked

\* setitimer after the queue has changed, in the main program and the handler.
LEMMA ReissueTimed ==
  ASSUME IInv, TInv, Issue \/ Reissue \/ HandlerReissue
  PROVE  TInv'
<1>1. CASE event_queue # <<>>
  <2>1. SetItimer /\ UNCHANGED <<event_queue, it_interval, deleted, alarm, event, due, calls>>
    BY <1>1 DEF Issue, Reissue, HandlerReissue, lists, flags, main
  <2>2. /\ it_value' \in [Timer -> Nat] /\ itimer' \in Nat /\ itimer' > 0
        /\ itimer' <= it_value'[Head(event_queue')]
    BY <1>1, <2>1, ItimerSet DEF TInv
  <2>3. pc' \in {"run", "free"} \/ pc' = pc
    BY DEF Issue, Reissue, HandlerReissue, main, IInv, Shape
  <2>4. handler' = "no"
    BY DEF Issue, Reissue, HandlerReissue, At
  <2>5. Times'
    BY <2>1, <2>2 DEF TInv, Times
  <2>6. Waited'
    BY <1>1, <2>1, <2>2 DEF Waited
  <2> QED BY <2>1, <2>3, <2>4, <2>5, <2>6 DEF TInv, Places, KeptOut
<1>2. CASE event_queue = <<>>
  <2>1. ~Issue
    BY <1>2 DEF TInv, Waited, Issue, At
  <2>2. CASE Reissue
    <3>1. itimer' = 0 /\ UNCHANGED <<event_queue, it_value, it_interval, deleted, alarm, event, due, calls, handler>>
          /\ pc' \in {"run", "free"} /\ handler = "no"
      BY <1>2, <2>2 DEF Reissue, At, lists, flags, IInv, Shape
    <3> QED BY <1>2, <3>1 DEF TInv, Times, Places, KeptOut, Blocked, Waited
  <2>3. CASE HandlerReissue
    <3>1. UNCHANGED <<event_queue, itimer, it_value, it_interval, deleted, alarm, event, due, calls, pc>>
          /\ handler' = "no"
      BY <1>2, <2>3 DEF HandlerReissue, lists, flags, main
    <3> QED BY <1>2, <3>1 DEF TInv, Times, Places, KeptOut, Blocked, Waited
  <2> QED BY <2>1, <2>2, <2>3
<1> QED BY <1>1, <1>2

\* SIGALRM enters the handler, which may find the queue empty.
LEMMA DeliverTimed == ASSUME TInv, Deliver \/ Segv PROVE TInv'
<1>1. Times'
  BY DEF Deliver, Segv, TInv, Times, times, clock
<1>2. Places'
  BY DEF Deliver, Segv, TInv, Places, flags, main
<1>3. KeptOut' /\ Waited'
  BY DEF Deliver, Segv, TInv, KeptOut, Waited, Blocked, lists, main
<1> QED BY <1>1, <1>2, <1>3 DEF TInv
\* The first timer's time as Insert corrects it is still that of the clock.
LEMMA CurrentFacts ==
  ASSUME IInv, Times
  PROVE  /\ Current \in [Timer -> Nat]
         /\ event_queue # <<>> /\ itimer <= it_value[Head(event_queue)]
              => itimer <= Current[Head(event_queue)]
<1>1. event_queue # <<>> => Head(event_queue) \in Timer
  BY HeadFacts DEF IInv, Shape
<1>2. PICK t : t = Head(event_queue)
  OBVIOUS
<1>3. Current = IF itimer > 0 /\ event_queue # <<>> /\ itimer <= it_value[t]
                THEN [it_value EXCEPT ![t] = itimer] ELSE it_value
  BY <1>2 DEF Current
<1> QED BY <1>1, <1>2, <1>3 DEF Times

\* timer_settime: the interval timer is set anew exactly if the timer is first.
LEMMA InsertTimed == ASSUME IInv, TInv, Insert PROVE TInv'
<1>1. /\ event \in Timer /\ event \notin ToSet(event_queue) /\ pc = "insert" /\ handler = "no"
      /\ event_queue \in Seq(Timer) /\ IsInjective(event_queue)
  BY DEF Insert, At, IInv, InHand, Shape, Armed, QueueSound
<1>2. PICK v \in Nat : v = timerroundup(it_value[event])
  BY <1>1, RoundType DEF TInv, Times
<1>3. PICK c \in [Timer -> Nat] : c = Current
  BY CurrentFacts DEF TInv
<1>4. /\ Link(event_queue, c, event, v) /\ due' = [due EXCEPT ![event] = v]
      /\ pc' = FrontAfter(event_queue')
      /\ UNCHANGED <<it_interval, deleted, itimer, alarm, event, handler, calls>>
  BY <1>2, <1>3 DEF Insert, clock
<1>5. /\ it_value' \in [Timer -> Nat]
      /\ event_queue' # <<>>
      /\ Head(event_queue') # event => /\ event_queue # <<>> /\ Head(event_queue') = Head(event_queue)
                                       /\ it_value'[Head(event_queue)] = c[Head(event_queue)]
  BY <1>1, <1>4, LinkTimes
<1>6. Times'
  BY <1>4, <1>5 DEF TInv, Times
<1>7. CASE Head(event_queue') = event
  <2>1. pc' = "issue"
    BY <1>4, <1>7 DEF FrontAfter
  <2> QED BY <1>1, <1>4, <1>5, <1>6, <2>1 DEF TInv, Places, KeptOut, Waited
<1>8. CASE Head(event_queue') # event
  <2>1. pc' = "run"
    BY <1>4, <1>8 DEF FrontAfter
  <2>2. (itimer > 0 \/ alarm) /\ itimer <= it_value[Head(event_queue)]
    BY <1>1, <1>5, <1>8 DEF TInv, Waited
  <2>3. itimer <= c[Head(event_queue)]
    BY <1>3, <1>5, <1>8, <2>2, CurrentFacts DEF TInv
  <2>4. Waited'
    BY <1>4, <1>5, <1>8, <2>1, <2>2, <2>3 DEF Waited
  <2> QED BY <1>1, <1>4, <1>6, <2>1, <2>4 DEF TInv, Places, KeptOut
<1> QED BY <1>7, <1>8

\* timer_cancel: the time passed so far, given to the second timer, is not
\* negative, since the interval timer is not set for later than the first.
LEMMA UnlinkTimed == ASSUME IInv, TInv, Unlink PROVE TInv'
<1>1. /\ event \in Timer /\ pc = "remove" /\ handler = "no" /\ event_queue \in Seq(Timer)
      /\ UNCHANGED <<it_interval, deleted, itimer, alarm, event, handler, calls>>
      /\ due' = [due EXCEPT ![event] = 0]
  BY DEF Unlink, At, IInv, InHand, Shape, clock
<1>2. CASE event \notin Armed
  <2>1. pc' \in {"run", "free"} /\ UNCHANGED <<event_queue, it_value>>
    BY <1>2 DEF Unlink, IInv, Shape
  <2>2. Times'
    BY <1>1, <2>1 DEF TInv, Times
  <2>3. Waited'
    BY <1>1, <2>1 DEF TInv, Waited
  <2> QED BY <1>1, <2>1, <2>2, <2>3 DEF TInv, Places, KeptOut
<1>3. CASE event \in Armed
  <2>1. pc' = "reissue"
    BY <1>3 DEF Unlink
  <2>2. it_value' \in [Timer -> Nat]
    <3>1. CASE ~(event = Head(event_queue) /\ Len(event_queue) > 1)
      BY <1>3, <3>1 DEF Unlink, TInv, Times
    <3>2. CASE event = Head(event_queue) /\ Len(event_queue) > 1
      <4>1. event_queue # <<>> /\ event_queue[2] \in Timer
        BY <1>1, <3>2
      <4>2. itimer <= it_value[event] /\ itimer \in Nat /\ it_value[event] \in Nat
        BY <1>1, <3>2, <4>1 DEF TInv, Waited, Times
      <4>3. PICK p \in Nat : p = Passed
        BY <4>2 DEF Passed
      <4>4. PICK u \in Timer : u = event_queue[2]
        BY <4>1
      <4>5. it_value' = [it_value EXCEPT ![event] = p, ![u] = @ + p]
        BY <1>3, <3>2, <4>3, <4>4 DEF Unlink
      <4>6. it_value \in [Timer -> Nat]
        BY DEF TInv, Times
      <4>7. u # event
        <5>1. 1 \in DOMAIN event_queue /\ 2 \in DOMAIN event_queue /\ event = event_queue[1]
          BY <1>1, <3>2
        <5> QED BY <4>4, <5>1 DEF IInv, QueueSound, IsInjective
      <4>8. it_value' = [x \in Timer |-> IF x = event THEN p
                                        ELSE IF x = u THEN it_value[u] + p ELSE it_value[x]]
        BY <1>1, <4>5, <4>6, <4>7
      <4> QED BY <4>6, <4>8
    <3> QED BY <3>1, <3>2
  <2>3. Times'
    BY <1>1, <2>2 DEF TInv, Times
  <2> QED BY <1>1, <2>1, <2>3 DEF TInv, Places, KeptOut, Waited
<1> QED BY <1>2, <1>3

\* alarm_handler puts a recurring timer back at its place.
LEMMA ExpireTimed == ASSUME IInv, TInv, Expire PROVE TInv'
<1>1. PICK t \in Timer, q \in Seq(Timer) :
        /\ t = Head(event_queue) /\ q = Tail(event_queue)
        /\ t \notin ToSet(q) /\ IsInjective(q)
  BY TailFacts DEF Expire, IInv, Shape, QueueSound
<1>2. /\ handler = "loop" /\ handler' \in {"loop", "reissue"}
      /\ UNCHANGED <<it_interval, itimer, alarm, pc, event, calls>>
      /\ deleted' = deleted \cup {t} \/ deleted' = deleted
  BY <1>1 DEF Expire, clock, main, CallbackDeletes, flags
<1>3. PICK v \in Nat : v = timerroundup(it_interval[t])
  BY RoundType DEF TInv, Times
<1>4. \/ Link(q, it_value, t, v) /\ due' = [due EXCEPT ![t] = v]
      \/ due' = [due EXCEPT ![t] = 0] /\ UNCHANGED it_value
  BY <1>1, <1>3 DEF Expire
<1>5. it_value' \in [Timer -> Nat] /\ due' \in [Timer -> Nat]
  <2>1. it_value \in [Timer -> Nat] /\ due \in [Timer -> Nat]
    BY DEF TInv, Times
  <2>2. CASE Link(q, it_value, t, v) /\ due' = [due EXCEPT ![t] = v]
    <3>1. it_value' \in [Timer -> Nat]
      BY <1>1, <2>1, <2>2, LinkTimes
    <3>2. due' \in [Timer -> Nat]
      BY <2>1, <2>2
    <3> QED BY <3>1, <3>2
  <2>3. CASE due' = [due EXCEPT ![t] = 0] /\ UNCHANGED it_value
    BY <2>1, <2>3
  <2> QED BY <1>4, <2>2, <2>3
<1>6. pc # "issue"
  BY <1>2 DEF TInv, KeptOut, Blocked
<1>7. Times'
  BY <1>2, <1>5 DEF TInv, Times
<1> QED BY <1>2, <1>6, <1>7 DEF TInv, Places, KeptOut, Waited, Blocked

LEMMA Timed == IInv /\ TInv /\ [Next]_vars => TInv'
<1> SUFFICES ASSUME IInv, TInv, [Next]_vars PROVE TInv'
  OBVIOUS
<1>1. CASE Insert \/ Unlink \/ Expire \/ Tick
  BY <1>1, InsertTimed, UnlinkTimed, ExpireTimed, TickTimed
<1>2. CASE Issue \/ Reissue \/ HandlerReissue \/ Deliver \/ Segv
  BY <1>2, ReissueTimed, DeliverTimed
<1>3. CASE ~(\/ Insert \/ Unlink \/ Expire \/ Tick \/ Issue \/ Reissue
             \/ HandlerReissue \/ Deliver \/ Segv)
  BY <1>3, CallsTimed DEF Next, Library, alarm_handler
<1> QED BY <1>1, <1>2, <1>3

LEMMA TimedAlways == Spec => [](IInv /\ TInv)
BY InitKept, InitTimed, Kept, Timed, PTL DEF Spec

\* The variables of the timer library keep their types for any number of timers
\* and any times: the sums and differences of timer_settime, timer_cancel and
\* alarm_handler never make a time negative.
THEOREM TimesTyped == Spec => []TypeOK
<1>1. IInv /\ TInv => TypeOK
  BY DEF IInv, Shape, TInv, Times, Places, TypeOK
<1> QED BY <1>1, TimedAlways, PTL

\* Whenever alarm_handler could run, the interval timer is on or its alarm
\* pending, and it is not set for later than the first timer.
THEOREM AlarmKept == Spec => []AlarmSet
<1>1. TInv => AlarmSet
  BY DEF TInv, Waited, AlarmSet, Blocked
<1> QED BY <1>1, TimedAlways, PTL
=============================================================================
