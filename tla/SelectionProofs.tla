-------------------------- MODULE SelectionProofs --------------------------
(***************************************************************************)
(* Induction for a given set, and what it says of Selected: the lemmas     *)
(* that proofs about recursive functions need.                             *)
(***************************************************************************)
EXTENDS Selection, FiniteSets, FiniteSetTheorems, SequenceTheorems, TLAPS

\* Induction, for a set: what is missing from it up to n would map injectively,
\* by i - 1, into a proper part of itself.
LEMMA SetInduction ==
  ASSUME NEW S, 0 \in S, \A i \in Nat : i \in S => i + 1 \in S
  PROVE  \A n \in Nat : n \in S
<1> SUFFICES ASSUME NEW n \in Nat, n \notin S PROVE FALSE
  OBVIOUS
<1> DEFINE A == {i \in 0 .. n : i \notin S}
           B == A \ {n}
           f == [i \in A |-> i - 1]
<1>1. IsFiniteSet(A) /\ B \in SUBSET A /\ n \in A
  <2>1. A \in SUBSET (0 .. n) /\ IsFiniteSet(0 .. n)
    BY FS_Interval
  <2> QED
    BY <2>1, FS_Subset
<1>2. \A i \in A : i \in Nat /\ i <= n /\ i # 0 /\ i - 1 \in Nat /\ i - 1 \notin S
  <2> SUFFICES ASSUME NEW i \in 0 .. n, i \notin S
               PROVE  i # 0 /\ i - 1 \in Nat /\ i - 1 \notin S
    OBVIOUS
  <2>1. i # 0 /\ i - 1 \in Nat /\ (i - 1) + 1 = i
    OBVIOUS
  <2>2. PICK j \in Nat : j = i - 1 /\ j + 1 = i
    BY <2>1
  <2> QED
    BY <2>1, <2>2
<1>3. \A i \in A : i - 1 \in B
  BY <1>2
<1>4. f \in Injection(A, B)
  <2>1. f \in [A -> B]
    BY <1>3
  <2>2. \A i, j \in A : f[i] = f[j] => i = j
    BY <1>2
  <2> QED
    BY <2>1, <2>2 DEF Injection, IsInjective
<1> HIDE DEF A, B, f
<1>5. IsFiniteSet(B) /\ Cardinality(A) <= Cardinality(B) /\ Cardinality(B) <= Cardinality(A)
      /\ Cardinality(A) \in Nat /\ Cardinality(B) \in Nat
  BY <1>1, <1>4, FS_Injection, FS_Subset, FS_CardinalityType
<1>6. A = B
  <2>1. Cardinality(A) = Cardinality(B)
    BY <1>5
  <2> QED
    BY <1>1, <2>1, FS_Subset
<1> QED
  BY <1>1, <1>6 DEF B

-----------------------------------------------------------------------------
(* g follows the recursion of Selected.                                    *)
Selects(g, s, keep) ==
  /\ g[0] = <<>>
  /\ \A i \in 1 .. Len(s) : g[i] = IF i \in keep THEN Append(g[i - 1], s[i]) ELSE g[i - 1]

LEMMA SelectionExists ==
  ASSUME NEW T, NEW s \in Seq(T), NEW keep
  PROVE  \E g \in [0 .. Len(s) -> Seq(T)] : Selects(g, s, keep)
<1> DEFINE Good(m, g) == /\ g \in [0 .. m -> Seq(T)] /\ g[0] = <<>>
                         /\ \A i \in 1 .. m : g[i] = IF i \in keep THEN Append(g[i - 1], s[i])
                                                                   ELSE g[i - 1]
           S == {m \in Nat : m <= Len(s) => \E g : Good(m, g)}
<1>1. 0 \in S
  <2>1. Good(0, [i \in 0 .. 0 |-> <<>>])
    OBVIOUS
  <2> QED BY <2>1
<1>2. ASSUME NEW m \in Nat, m \in S, m + 1 <= Len(s) PROVE \E g : Good(m + 1, g)
  <2>0. m <= Len(s) /\ m + 1 \in 1 .. Len(s) /\ s[m + 1] \in T
    BY <1>2
  <2>1. PICK g : Good(m, g)
    <3> HIDE DEF Good
    <3> QED BY <2>0, <1>2
  <2>2. PICK x \in Seq(T) : x = IF m + 1 \in keep THEN Append(g[m], s[m + 1]) ELSE g[m]
    <3>1. g[m] \in Seq(T) /\ Append(g[m], s[m + 1]) \in Seq(T)
      <4>1. g[m] \in Seq(T)
        BY <2>1
      <4> QED BY <4>1, <2>0
    <3>2. (IF m + 1 \in keep THEN Append(g[m], s[m + 1]) ELSE g[m]) \in Seq(T)
      BY <3>1
    <3> QED BY <3>2
  <2> DEFINE h == [i \in 0 .. m + 1 |-> IF i = m + 1 THEN x ELSE g[i]]
  <2>3. h \in [0 .. m + 1 -> Seq(T)] /\ h[0] = <<>>
    BY <2>1
  <2>4. ASSUME NEW i \in 1 .. m + 1
        PROVE  h[i] = IF i \in keep THEN Append(h[i - 1], s[i]) ELSE h[i - 1]
    <3>1. CASE i = m + 1
      <4>1. i - 1 = m /\ h[m] = g[m] /\ h[m + 1] = x
        BY <3>1
      <4> QED BY <2>2, <3>1, <4>1
    <3>2. CASE i # m + 1
      <4>1. i \in 1 .. m /\ i - 1 \in 0 .. m /\ i - 1 # m + 1
        BY <3>2
      <4> QED BY <4>1, <2>1
    <3> QED BY <3>1, <3>2
  <2>5. Good(m + 1, h)
    BY <2>3, <2>4
  <2> QED BY <2>5
<1> HIDE DEF Good
<1>3. ASSUME NEW m \in Nat, m \in S PROVE m + 1 \in S
  BY <1>2, <1>3
<1> HIDE DEF S
<1>5. Len(s) \in S
  BY <1>1, <1>3, SetInduction
<1> QED BY <1>5 DEF S, Good, Selects

LEMMA SelectedRec ==
  ASSUME NEW T, NEW s \in Seq(T), NEW keep
  PROVE  \E g \in [0 .. Len(s) -> Seq(T)] : Selects(g, s, keep) /\ Selected(s, keep) = g[Len(s)]
<1> DEFINE e(f) == [i \in 0 .. Len(s) |-> IF i = 0 THEN <<>>
                                          ELSE IF i \in keep THEN Append(f[i - 1], s[i])
                                                             ELSE f[i - 1]]
           F == CHOOSE f : f = e(f)
<1>1. PICK g \in [0 .. Len(s) -> Seq(T)] : Selects(g, s, keep)
  BY SelectionExists
<1>2. g = e(g)
  <2>1. ASSUME NEW i \in 0 .. Len(s) PROVE g[i] = e(g)[i]
    <3>1. CASE i = 0
      BY <1>1, <3>1 DEF Selects
    <3>2. CASE i # 0
      <4>1. i \in 1 .. Len(s)
        BY <3>2
      <4> QED BY <1>1, <3>2, <4>1 DEF Selects
    <3> QED BY <3>1, <3>2
  <2> QED BY <2>1
<1>3. F = e(F)
  BY <1>2
<1>4. Selected(s, keep) = F[Len(s)]
  BY DEF Selected
<1>5. Len(s) \in Nat
  OBVIOUS
<1>6. DOMAIN F = 0 .. Len(s)
  BY <1>3
<1> HIDE DEF F
<1>7. Selects(F, s, keep)
  <2>1. \A i \in 0 .. Len(s) : F[i] = e(F)[i]
    BY <1>3
  <2> QED BY <2>1, <1>5 DEF Selects
<1> DEFINE S == {m \in Nat : m <= Len(s) => F[m] \in Seq(T)}
<1>8. 0 \in S
  <2>1. F[0] = <<>> /\ <<>> \in Seq(T)
    BY <1>7 DEF Selects
  <2> QED BY <2>1
<1>9. ASSUME NEW m \in Nat, m \in S PROVE m + 1 \in S
  <2> SUFFICES ASSUME m + 1 <= Len(s) PROVE F[m + 1] \in Seq(T)
    OBVIOUS
  <2>1. m + 1 \in 1 .. Len(s) /\ (m + 1) - 1 = m /\ s[m + 1] \in T
    OBVIOUS
  <2>2. F[m + 1] = IF m + 1 \in keep THEN Append(F[m], s[m + 1]) ELSE F[m]
    BY <2>1, <1>7 DEF Selects
  <2>3. F[m] \in Seq(T)
    BY <1>9, <1>5
  <2> QED BY <2>1, <2>2, <2>3
<1> HIDE DEF S
<1>10. \A m \in Nat : m \in S
  BY <1>8, <1>9, SetInduction
<1>11. \A m \in 0 .. Len(s) : F[m] \in Seq(T)
  BY <1>10, <1>5 DEF S
<1>12. F \in [0 .. Len(s) -> Seq(T)]
  <2>1. F = [i \in 0 .. Len(s) |-> F[i]]
    BY <1>3
  <2> QED BY <2>1, <1>11
<1> QED BY <1>4, <1>7, <1>12

LEMMA SelectedType ==
  ASSUME NEW T, NEW s \in Seq(T), NEW keep
  PROVE  Selected(s, keep) \in Seq(T)
<1>1. Len(s) \in 0 .. Len(s)
  OBVIOUS
<1> QED BY <1>1, SelectedRec

(* Whatever follows the recursion has its values.                          *)
LEMMA SelectedIs ==
  ASSUME NEW T, NEW s \in Seq(T), NEW keep, NEW h, Selects(h, s, keep)
  PROVE  Selected(s, keep) = h[Len(s)]
<1>1. PICK g \in [0 .. Len(s) -> Seq(T)] : Selects(g, s, keep) /\ Selected(s, keep) = g[Len(s)]
  BY SelectedRec
<1>2. Len(s) \in Nat
  OBVIOUS
<1> DEFINE S == {m \in Nat : m <= Len(s) => g[m] = h[m]}
<1>3. 0 \in S
  BY <1>1 DEF Selects
<1>4. ASSUME NEW m \in Nat, m \in S PROVE m + 1 \in S
  <2> SUFFICES ASSUME m + 1 <= Len(s) PROVE g[m + 1] = h[m + 1]
    OBVIOUS
  <2>1. m + 1 \in 1 .. Len(s) /\ (m + 1) - 1 = m
    BY <1>2
  <2>2. g[m] = h[m]
    BY <1>4, <1>2
  <2>3. g[m + 1] = IF m + 1 \in keep THEN Append(g[m], s[m + 1]) ELSE g[m]
    BY <2>1, <1>1 DEF Selects
  <2>4. h[m + 1] = IF m + 1 \in keep THEN Append(h[m], s[m + 1]) ELSE h[m]
    BY <2>1 DEF Selects
  <2> QED BY <2>2, <2>3, <2>4
<1> HIDE DEF S
<1>5. \A m \in Nat : m \in S
  BY <1>3, <1>4, SetInduction
<1> QED BY <1>1, <1>2, <1>5 DEF S

LEMMA AppendToConcat ==
  ASSUME NEW T, NEW a \in Seq(T), NEW b \in Seq(T), NEW x \in T
  PROVE  a \o Append(b, x) = Append(a \o b, x)
<1>1. a \o b \in Seq(T) /\ <<x>> \in Seq(T)
  BY ConcatProperties
<1>2. Append(b, x) = b \o <<x>> /\ Append(a \o b, x) = (a \o b) \o <<x>>
  BY <1>1, AppendIsConcat
<1>3. (a \o b) \o <<x>> = a \o (b \o <<x>>)
  BY <1>1, ConcatAssociative
<1> QED BY <1>2, <1>3

LEMMA SelectedConcat ==
  ASSUME NEW T, NEW s \in Seq(T), NEW t \in Seq(T), NEW keep, NEW rest,
         \A i \in 1 .. Len(t) : i \in rest <=> Len(s) + i \in keep
  PROVE  Selected(s \o t, keep) = Selected(s, keep) \o Selected(t, rest)
<1> DEFINE m == Len(s)
           n == Len(t)
<1>1. /\ m \in Nat /\ n \in Nat
      /\ s \o t \in Seq(T) /\ Len(s \o t) = m + n
      /\ \A i \in 1 .. m + n : (s \o t)[i] = IF i <= m THEN s[i] ELSE t[i - m]
  BY ConcatProperties
<1>2. PICK f \in [0 .. m -> Seq(T)] : Selects(f, s, keep) /\ Selected(s, keep) = f[m]
  BY SelectedRec
<1>3. PICK g \in [0 .. n -> Seq(T)] : Selects(g, t, rest) /\ Selected(t, rest) = g[n]
  BY SelectedRec
<1> HIDE DEF m, n
<1> DEFINE h == [i \in 0 .. m + n |-> IF i <= m THEN f[i] ELSE f[m] \o g[i - m]]
<1>4. f[m] \in Seq(T) /\ f[m] \o g[0] = f[m] /\ f[0] = <<>>
  <2>1. f[m] \in Seq(T) /\ g[0] = <<>> /\ f[0] = <<>>
    BY <1>1, <1>2, <1>3 DEF Selects
  <2> QED BY <2>1, ConcatEmptySeq
<1>5. \A i \in m .. m + n : h[i] = f[m] \o g[i - m]
  <2> SUFFICES ASSUME NEW i \in m .. m + n PROVE h[i] = f[m] \o g[i - m]
    OBVIOUS
  <2>1. CASE i = m
    <3>1. h[i] = f[m] /\ i - m = 0
      BY <2>1, <1>1
    <3> QED BY <3>1, <1>4
  <2>2. CASE i # m
    <3>1. i \in 0 .. m + n /\ ~(i <= m)
      BY <2>2, <1>1
    <3> QED BY <3>1
  <2> QED BY <2>1, <2>2
<1>6. ASSUME NEW i \in 1 .. m + n
      PROVE  h[i] = IF i \in keep THEN Append(h[i - 1], (s \o t)[i]) ELSE h[i - 1]
  <2>1. CASE i <= m
    <3>1. i \in 1 .. m /\ h[i] = f[i] /\ h[i - 1] = f[i - 1] /\ (s \o t)[i] = s[i]
      BY <1>1, <2>1
    <3>2. f[i] = IF i \in keep THEN Append(f[i - 1], s[i]) ELSE f[i - 1]
      BY <3>1, <1>2 DEF Selects, m
    <3> QED BY <3>1, <3>2
  <2>2. CASE ~(i <= m)
    <3>1. PICK j \in 1 .. n : j = i - m /\ i = m + j
      BY <1>1, <2>2
    <3>2. i \in m .. m + n /\ i - 1 \in m .. m + n /\ (i - 1) - m = j - 1 /\ j - 1 \in 0 .. n
      BY <1>1, <2>2, <3>1
    <3>3. h[i] = f[m] \o g[j] /\ h[i - 1] = f[m] \o g[j - 1]
      BY <3>1, <3>2, <1>5
    <3>4. (s \o t)[i] = t[j] /\ t[j] \in T
      <4>1. t[j] \in T
        BY <3>1, ElementOfSeq DEF n
      <4> QED BY <4>1, <1>1, <2>2, <3>1
    <3>5. j \in rest <=> i \in keep
      BY <3>1 DEF m, n
    <3>6. g[j] = IF j \in rest THEN Append(g[j - 1], t[j]) ELSE g[j - 1]
      BY <1>3, <3>1 DEF Selects, n
    <3>7. g[j - 1] \in Seq(T)
      BY <3>2
    <3>8. f[m] \o Append(g[j - 1], t[j]) = Append(f[m] \o g[j - 1], t[j])
      <4>1. PICK u \in Seq(T), v \in Seq(T), x \in T : u = f[m] /\ v = g[j - 1] /\ x = t[j]
        BY <1>4, <3>4, <3>7
      <4>2. u \o Append(v, x) = Append(u \o v, x)
        BY AppendToConcat
      <4> QED BY <4>1, <4>2
    <3> QED BY <3>3, <3>4, <3>5, <3>6, <3>8
  <2> QED BY <2>1, <2>2
<1>7. Selects(h, s \o t, keep)
  <2>1. h[0] = <<>>
    BY <1>1, <1>4
  <2> HIDE DEF h
  <2> QED BY <1>1, <1>6, <2>1 DEF Selects
<1>8. h[m + n] = f[m] \o g[n]
  <2>1. m + n \in m .. m + n /\ (m + n) - m = n
    BY <1>1
  <2> QED BY <2>1, <1>5
<1> HIDE DEF h
<1>9. Selected(s \o t, keep) = h[m + n]
  BY <1>1, <1>7, SelectedIs
<1> QED BY <1>2, <1>3, <1>8, <1>9

LEMMA SelectedAll ==
  ASSUME NEW T, NEW s \in Seq(T), NEW keep, 1 .. Len(s) \subseteq keep
  PROVE  Selected(s, keep) = s
<1> DEFINE h == [i \in 0 .. Len(s) |-> SubSeq(s, 1, i)]
<1>1. Len(s) \in Nat
  OBVIOUS
<1>2. h[0] = <<>>
  BY <1>1, SubSeqEmpty
<1>3. ASSUME NEW i \in 1 .. Len(s) PROVE h[i] = Append(h[i - 1], s[i])
  <2>1. i \in 0 .. Len(s) /\ i - 1 \in 0 .. Len(s) /\ 1 \in 1 .. Len(s) /\ i \in 1 .. Len(s)
    BY <1>1
  <2>2. h[i] = SubSeq(s, 1, i) /\ h[i - 1] = SubSeq(s, 1, i - 1)
    BY <2>1
  <2>3. SubSeq(s, 1, i) = SubSeq(s, 1, i - 1) \o <<s[i]>>
    BY <2>1, SubSeqRecursiveSecond
  <2>4. SubSeq(s, 1, i - 1) \in Seq(T) /\ s[i] \in T
    <3>1. \A j \in 1 .. i - 1 : s[j] \in T
      BY <2>1, ElementOfSeq
    <3> QED BY <3>1, <2>1, ElementOfSeq, SubSeqProperties
  <2> QED BY <2>2, <2>3, <2>4, AppendIsConcat
<1>4. h[Len(s)] = s
  BY <1>1, SubSeqFull
<1> HIDE DEF h
<1>5. Selects(h, s, keep)
  BY <1>2, <1>3 DEF Selects
<1> QED BY <1>4, <1>5, SelectedIs

LEMMA SelectedNone ==
  ASSUME NEW T, NEW s \in Seq(T), NEW keep, \A i \in 1 .. Len(s) : i \notin keep
  PROVE  Selected(s, keep) = <<>>
<1> DEFINE h == [i \in 0 .. Len(s) |-> <<>>]
<1>1. Len(s) \in Nat
  OBVIOUS
<1>2. Selects(h, s, keep) /\ h[Len(s)] = <<>>
  BY <1>1 DEF Selects
<1> HIDE DEF h
<1> QED BY <1>2, SelectedIs

(* Only the positions of the sequence count.                               *)
LEMMA SelectedSame ==
  ASSUME NEW T, NEW s \in Seq(T), NEW keep, NEW also,
         \A i \in 1 .. Len(s) : i \in keep <=> i \in also
  PROVE  Selected(s, keep) = Selected(s, also)
<1>1. PICK g \in [0 .. Len(s) -> Seq(T)] : Selects(g, s, keep) /\ Selected(s, keep) = g[Len(s)]
  BY SelectedRec
<1>2. Selects(g, s, also)
  BY <1>1 DEF Selects
<1> QED BY <1>1, <1>2, SelectedIs

(* Some items leave q, and r remains.                                      *)
Loses(q, r) ==
  \E gone \in SUBSET (1 .. Len(q)) : r = Selected(q, (1 .. Len(q)) \ gone)

(* A part in the middle is left out.                                       *)
LEMMA SelectedAround ==
  ASSUME NEW T, NEW a \in Seq(T), NEW b \in Seq(T), NEW c \in Seq(T)
  PROVE  Loses(a \o (b \o c), a \o c)
<1> DEFINE l == Len(a)
           m == Len(b)
           n == Len(c)
           gone == l + 1 .. l + m
           keep == (1 .. l + (m + n)) \ gone
           keepbc == {i \in 1 .. m + n : l + i \in keep}
           keepc == {i \in 1 .. n : m + i \in keepbc}
<1>1. /\ l \in Nat /\ m \in Nat /\ n \in Nat
      /\ b \o c \in Seq(T) /\ Len(b \o c) = m + n
  BY ConcatProperties
<1>2. Len(a \o (b \o c)) = l + (m + n)
  BY <1>1, ConcatProperties
<1>3. Selected(a \o (b \o c), keep) = Selected(a, keep) \o Selected(b \o c, keepbc)
  <2>1. \A i \in 1 .. Len(b \o c) : i \in keepbc <=> Len(a) + i \in keep
    BY <1>1
  <2> HIDE DEF keep, keepbc
  <2>2. PICK bc \in Seq(T) : bc = b \o c
    BY <1>1
  <2>3. \A i \in 1 .. Len(bc) : i \in keepbc <=> Len(a) + i \in keep
    BY <2>1, <2>2
  <2>4. Selected(a \o bc, keep) = Selected(a, keep) \o Selected(bc, keepbc)
    BY <2>3, SelectedConcat
  <2> QED BY <2>2, <2>4
<1>4. Selected(b \o c, keepbc) = Selected(b, keepbc) \o Selected(c, keepc)
  <2>1. \A i \in 1 .. Len(c) : i \in keepc <=> Len(b) + i \in keepbc
    BY <1>1
  <2> HIDE DEF keepc, keepbc
  <2> QED BY <2>1, SelectedConcat
<1>5. Selected(a, keep) = a
  <2>1. 1 .. Len(a) \subseteq keep
    BY <1>1
  <2> HIDE DEF keep
  <2> QED BY <2>1, SelectedAll
<1>6. Selected(b, keepbc) = <<>>
  <2>1. \A i \in 1 .. Len(b) : i \notin keepbc
    BY <1>1
  <2> HIDE DEF keepbc
  <2> QED BY <2>1, SelectedNone
<1>7. Selected(c, keepc) = c
  <2>1. 1 .. Len(c) \subseteq keepc
    BY <1>1
  <2> HIDE DEF keepc
  <2> QED BY <2>1, SelectedAll
<1>8. gone \in SUBSET (1 .. l + (m + n))
  BY <1>1
<1>9. <<>> \o c = c
  BY ConcatEmptySeq
<1> HIDE DEF l, m, n, gone, keepbc, keepc
<1>10. Selected(a \o (b \o c), (1 .. Len(a \o (b \o c))) \ gone) = a \o c
  BY <1>2, <1>3, <1>4, <1>5, <1>6, <1>7, <1>9
<1> QED BY <1>2, <1>8, <1>10 DEF Loses

Without(T, a, b, c, q, r) ==
  a \in Seq(T) /\ b \in Seq(T) /\ c \in Seq(T) /\ q = a \o (b \o c) /\ r = a \o c

LEMMA LosesMiddle ==
  ASSUME NEW T, NEW a, NEW b, NEW c, NEW q, NEW r, Without(T, a, b, c, q, r)
  PROVE  Loses(q, r)
BY SelectedAround DEF Without

LEMMA FilteredConcat ==
  ASSUME NEW T, NEW s \in Seq(T), NEW t \in Seq(T), NEW S
  PROVE  Filtered(s \o t, S) = Filtered(s, S) \o Filtered(t, S)
<1> DEFINE k1 == {k \in DOMAIN s : s[k] \in S}
           k2 == {k \in DOMAIN t : t[k] \in S}
           k == {i \in DOMAIN (s \o t) : (s \o t)[i] \in S}
           kt == {i \in 1 .. Len(t) : Len(s) + i \in k}
<1>1. /\ Len(s) \in Nat /\ Len(t) \in Nat
      /\ DOMAIN s = 1 .. Len(s) /\ DOMAIN t = 1 .. Len(t)
  BY LenProperties
<1>2. /\ s \o t \in Seq(T) /\ Len(s \o t) = Len(s) + Len(t)
      /\ \A i \in 1 .. Len(s) + Len(t) : (s \o t)[i] = IF i <= Len(s) THEN s[i] ELSE t[i - Len(s)]
  BY ConcatProperties
<1>3. DOMAIN (s \o t) = 1 .. Len(s) + Len(t)
  BY <1>2, LenProperties
<1>4. \A i \in 1 .. Len(s) : i \in k <=> i \in k1
  BY <1>1, <1>2, <1>3
<1>5. \A i \in 1 .. Len(t) : i \in kt <=> i \in k2
  <2> SUFFICES ASSUME NEW i \in 1 .. Len(t) PROVE i \in kt <=> i \in k2
    OBVIOUS
  <2>1. Len(s) + i \in 1 .. Len(s) + Len(t) /\ ~(Len(s) + i <= Len(s)) /\ (Len(s) + i) - Len(s) = i
    BY <1>1
  <2>2. (s \o t)[Len(s) + i] = t[i]
    BY <1>2, <2>1
  <2> QED BY <1>1, <1>3, <2>1, <2>2
<1>6. Filtered(s \o t, S) = Selected(s \o t, k) /\ Filtered(s, S) = Selected(s, k1)
      /\ Filtered(t, S) = Selected(t, k2)
  BY DEF Filtered
<1>7. Selected(s \o t, k) = Selected(s, k) \o Selected(t, kt)
  <2>1. \A i \in 1 .. Len(t) : i \in kt <=> Len(s) + i \in k
    OBVIOUS
  <2> HIDE DEF k, kt
  <2> QED BY <2>1, SelectedConcat
<1> HIDE DEF k, k1, k2, kt
<1>8. Selected(s, k) = Selected(s, k1) /\ Selected(t, kt) = Selected(t, k2)
  BY <1>4, <1>5, SelectedSame
<1> QED BY <1>6, <1>7, <1>8

LEMMA FilteredType ==
  ASSUME NEW T, NEW s \in Seq(T), NEW S
  PROVE  Filtered(s, S) \in Seq(T)
BY SelectedType DEF Filtered

LEMMA FilteredNone ==
  ASSUME NEW T, NEW s \in Seq(T), NEW S, \A i \in 1 .. Len(s) : s[i] \notin S
  PROVE  Filtered(s, S) = <<>>
<1>1. \A i \in 1 .. Len(s) : i \notin {k \in DOMAIN s : s[k] \in S}
  OBVIOUS
<1> QED BY <1>1, SelectedNone DEF Filtered

LEMMA FilteredAll ==
  ASSUME NEW T, NEW s \in Seq(T), NEW S, \A i \in 1 .. Len(s) : s[i] \in S
  PROVE  Filtered(s, S) = s
<1>1. 1 .. Len(s) \subseteq {k \in DOMAIN s : s[k] \in S}
  OBVIOUS
<1> QED BY <1>1, SelectedAll DEF Filtered

LEMMA HeadAndTail ==
  ASSUME NEW T, NEW s \in Seq(T), s # <<>>
  PROVE  /\ <<Head(s)>> \in Seq(T) /\ Tail(s) \in Seq(T) /\ Head(s) \in T
         /\ s = <<Head(s)>> \o Tail(s)
<1>1. Head(s) \in T /\ Tail(s) \in Seq(T) /\ <<Head(s)>> \in Seq(T) /\ Len(s) \in Nat \ {0}
  BY HeadTailProperties, EmptySeq
<1>2. PICK a \in Seq(T), b \in Seq(T) : a = <<Head(s)>> /\ b = Tail(s)
  BY <1>1
<1>3. Len(a) = 1 /\ a[1] = s[1] /\ Len(b) = Len(s) - 1 /\ \A i \in 1 .. Len(b) : b[i] = s[i + 1]
  <2>1. Len(a) = 1 /\ a[1] = s[1]
    BY <1>2
  <2> QED BY <2>1, <1>2, HeadTailProperties
<1>4. /\ a \o b \in Seq(T) /\ Len(a \o b) = Len(a) + Len(b)
      /\ \A i \in 1 .. Len(a) + Len(b) : (a \o b)[i] = IF i <= Len(a) THEN a[i] ELSE b[i - Len(a)]
  BY ConcatProperties
<1>5. ASSUME NEW i \in 1 .. Len(s) PROVE s[i] = (a \o b)[i]
  <2>1. i \in 1 .. Len(a) + Len(b)
    BY <1>1, <1>3
  <2>2. CASE i = 1
    BY <2>1, <2>2, <1>3, <1>4
  <2>3. CASE i # 1
    <3>1. PICK j \in 1 .. Len(b) : j = i - 1
      BY <2>3, <1>1, <1>3
    <3>2. b[j] = s[j + 1] /\ (a \o b)[i] = b[j]
      BY <2>1, <2>3, <3>1, <1>3, <1>4
    <3> QED BY <3>1, <3>2
  <2> QED BY <2>2, <2>3
<1>6. s = a \o b
  <2>1. Len(s) = Len(a \o b)
    BY <1>1, <1>3, <1>4
  <2> QED BY <2>1, <1>4, <1>5, SeqEqual
<1> QED BY <1>1, <1>2, <1>6

LEMMA ConsHead ==
  ASSUME NEW T, NEW x \in T, NEW t \in Seq(T), NEW s, s = <<x>> \o t
  PROVE  s \in Seq(T) /\ s # <<>> /\ Head(s) = x /\ Tail(s) = t
<1>1. PICK a \in Seq(T) : a = <<x>>
  <2>1. <<x>> \in Seq(T)
    OBVIOUS
  <2> QED BY <2>1
<1>2. /\ s \in Seq(T) /\ Len(s) = 1 + Len(t) /\ Len(t) \in Nat
      /\ \A i \in 1 .. 1 + Len(t) : s[i] = IF i <= 1 THEN a[i] ELSE t[i - 1]
  <2>1. Len(a) = 1
    BY <1>1
  <2>2. /\ a \o t \in Seq(T) /\ Len(a \o t) = Len(a) + Len(t) /\ Len(t) \in Nat
        /\ \A i \in 1 .. Len(a) + Len(t) : (a \o t)[i] = IF i <= Len(a) THEN a[i] ELSE t[i - Len(a)]
    BY ConcatProperties
  <2> QED BY <2>1, <2>2, <1>1
<1>3. s # <<>>
  BY <1>2, EmptySeq
<1>4. s[1] = x /\ Head(s) = x
  <2>1. 1 \in 1 .. 1 + Len(t) /\ a[1] = x
    BY <1>1, <1>2
  <2> QED BY <2>1, <1>2, <1>3
<1>5. /\ Tail(s) \in Seq(T) /\ Len(Tail(s)) = Len(s) - 1
      /\ \A i \in 1 .. Len(Tail(s)) : Tail(s)[i] = s[i + 1]
  BY <1>2, <1>3, HeadTailProperties
<1>6. Len(Tail(s)) = Len(t)
  BY <1>2, <1>5
<1>7. ASSUME NEW i \in 1 .. Len(Tail(s)) PROVE Tail(s)[i] = t[i]
  <2>1. PICK j \in 1 .. 1 + Len(t) : j = i + 1 /\ ~(j <= 1) /\ j - 1 = i
    BY <1>2, <1>6
  <2>2. s[j] = t[j - 1] /\ Tail(s)[i] = s[i + 1]
    BY <2>1, <1>2, <1>5
  <2> QED BY <2>1, <2>2
<1> QED BY <1>2, <1>3, <1>4, <1>5, <1>6, <1>7, SeqEqual

LEMMA FilteredOne ==
  ASSUME NEW T, NEW x \in T, NEW S
  PROVE  /\ x \in S => Filtered(<<x>>, S) = <<x>>
         /\ x \notin S => Filtered(<<x>>, S) = <<>>
<1>1. PICK s \in Seq(T) : s = <<x>>
  <2>1. <<x>> \in Seq(T)
    OBVIOUS
  <2> QED BY <2>1
<1>2. Len(s) = 1 /\ s[1] = x
  BY <1>1
<1>3. x \in S => Filtered(s, S) = s
  <2> SUFFICES ASSUME x \in S PROVE Filtered(s, S) = s
    OBVIOUS
  <2>1. \A i \in 1 .. Len(s) : s[i] \in S
    BY <1>2
  <2> QED BY <2>1, FilteredAll
<1>4. x \notin S => Filtered(s, S) = <<>>
  <2> SUFFICES ASSUME x \notin S PROVE Filtered(s, S) = <<>>
    OBVIOUS
  <2>1. \A i \in 1 .. Len(s) : s[i] \notin S
    BY <1>2
  <2> QED BY <2>1, FilteredNone
<1> QED
  BY <1>1, <1>3, <1>4
=============================================================================
