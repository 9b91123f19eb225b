-------------------------- MODULE NvramStoreProofs --------------------------
(***************************************************************************)
(* Proofs about NvramStore, for every set of names and values, hash        *)
(* function, size of the buffer and of its header, and boot image.         *)
(***************************************************************************)
EXTENDS NvramStore, FiniteSetTheorems, SequenceTheorems, TLAPS

-----------------------------------------------------------------------------
(***************************************************************************)
(* One chain of the hash table: what replacing, adding and removing a      *)
(* tuple does to the set of its tuples.                                    *)
(***************************************************************************)
Chain(s, b) ==
  /\ s \in Seq(Tuple)
  /\ \A j, k \in DOMAIN s :
       Hash[s[j].name] = b /\ (s[j].name = s[k].name => j = k)

Others(s, n) == {t \in ToSet(s) : t.name # n}

LEMMA ReplacedChain ==
  ASSUME NEW b, NEW s, Chain(s, b), NEW p \in DOMAIN s, NEW t \in Tuple,
         t.name = s[p].name,
         NEW r \in Seq(Tuple), DOMAIN r = DOMAIN s,
         \A j \in DOMAIN s : r[j] = IF j = p THEN t ELSE s[j]
  PROVE  Chain(r, b) /\ ToSet(r) = Others(s, t.name) \cup {t}
<1>1. s \in Seq(Tuple) /\ r \in Seq(Tuple) /\ DOMAIN r = DOMAIN s
  BY DEF Chain
<1>2. \A j \in DOMAIN s : r[j] = IF j = p THEN t ELSE s[j]
  OBVIOUS
<1>3. Chain(r, b)
  BY <1>1, <1>2 DEF Chain
<1>4. ToSet(r) \subseteq Others(s, t.name) \cup {t}
  BY <1>1, <1>2 DEF Chain, ToSet, Others
<1>5. Others(s, t.name) \cup {t} \subseteq ToSet(r)
  BY <1>1, <1>2 DEF Chain, ToSet, Others
<1> QED
  BY <1>3, <1>4, <1>5

LEMMA ExtendedChain ==
  ASSUME NEW b, NEW s, Chain(s, b), NEW t \in Tuple, Hash[t.name] = b,
         \A j \in DOMAIN s : s[j].name # t.name
  PROVE  /\ Chain(<<t>> \o s, b)
         /\ ToSet(<<t>> \o s) = Others(s, t.name) \cup {t}
<1> DEFINE r == <<t>> \o s
           m == Len(s)
<1>1. s \in Seq(Tuple) /\ m \in Nat /\ DOMAIN s = 1 .. m
  BY DEF Chain
<1>2. /\ r \in Seq(Tuple) /\ DOMAIN r = 1 .. m + 1
      /\ r[1] = t /\ \A j \in 1 .. m : r[j + 1] = s[j]
  BY <1>1
<1> HIDE DEF r, m
<1>3. \A j \in 1 .. m + 1 : j = 1 \/ (j - 1 \in 1 .. m /\ r[j] = s[j - 1])
  <2> TAKE j \in 1 .. m + 1
  <2>1. CASE j # 1
    <3>1. j - 1 \in 1 .. m /\ (j - 1) + 1 = j
      BY <1>1, <2>1
    <3>2. r[(j - 1) + 1] = s[j - 1]
      BY <3>1, <1>2
    <3> QED
      BY <3>1, <3>2
  <2> QED
    BY <2>1
<1>4. Chain(r, b)
  <2> SUFFICES ASSUME NEW j \in 1 .. m + 1, NEW k \in 1 .. m + 1
               PROVE  Hash[r[j].name] = b /\ (r[j].name = r[k].name => j = k)
    BY <1>2 DEF Chain
  <2>1. CASE j = 1 /\ k = 1
    BY <2>1, <1>2
  <2>2. CASE j = 1 /\ k # 1
    BY <2>2, <1>1, <1>2, <1>3
  <2>3. CASE j # 1 /\ k = 1
    <3>1. j - 1 \in DOMAIN s /\ r[j] = s[j - 1] /\ r[k] = t
      BY <2>3, <1>1, <1>2, <1>3
    <3> QED
      BY <3>1 DEF Chain
  <2>4. CASE j # 1 /\ k # 1
    <3>1. /\ j - 1 \in DOMAIN s /\ r[j] = s[j - 1]
          /\ k - 1 \in DOMAIN s /\ r[k] = s[k - 1]
      BY <2>4, <1>1, <1>3
    <3>2. Hash[r[j].name] = b /\ (r[j].name = r[k].name => j - 1 = k - 1)
      BY <3>1 DEF Chain
    <3> QED
      BY <3>2, <1>1
  <2> QED
    BY <2>1, <2>2, <2>3, <2>4
<1>5. ToSet(r) \subseteq Others(s, t.name) \cup {t}
  <2> SUFFICES ASSUME NEW j \in 1 .. m + 1 PROVE r[j] \in Others(s, t.name) \cup {t}
    BY <1>2 DEF ToSet
  <2> QED
    BY <1>1, <1>2, <1>3 DEF ToSet, Others
<1>6. Others(s, t.name) \cup {t} \subseteq ToSet(r)
  <2>1. t \in ToSet(r)
    BY <1>1, <1>2 DEF ToSet
  <2>2. ASSUME NEW j \in 1 .. m PROVE s[j] \in ToSet(r)
    <3>1. j + 1 \in 1 .. m + 1
      BY <1>1
    <3> QED
      BY <3>1, <1>2 DEF ToSet
  <2> QED
    BY <1>1, <2>1, <2>2 DEF ToSet, Others
<1> QED
  BY <1>4, <1>5, <1>6 DEF r

LEMMA ReducedChain ==
  ASSUME NEW b, NEW s, Chain(s, b), NEW p \in DOMAIN s
  PROVE  /\ Chain(RemoveAt(s, p), b)
         /\ ToSet(RemoveAt(s, p)) = Others(s, s[p].name)
<1> DEFINE r == RemoveAt(s, p)
           m == Len(s)
<1>1. s \in Seq(Tuple) /\ m \in Nat /\ DOMAIN s = 1 .. m /\ p \in 1 .. m
  BY DEF Chain
<1>2. /\ r \in Seq(Tuple) /\ DOMAIN r = 1 .. m - 1
      /\ \A j \in 1 .. m - 1 : r[j] = IF j < p THEN s[j] ELSE s[j + 1]
  <2> DEFINE f == SubSeq(s, 1, p - 1)
             g == SubSeq(s, p + 1, m)
  <2>1. /\ f \in Seq(Tuple) /\ Len(f) = p - 1
        /\ \A i \in 1 .. p - 1 : f[i] = s[i]
    BY <1>1, SubSeqProperties
  <2>2. /\ g \in Seq(Tuple) /\ Len(g) = m - p
        /\ \A i \in 1 .. m - p : g[i] = s[p + i]
    <3>1. CASE p = m
      BY <3>1, <1>1, SubSeqProperties
    <3>2. CASE p # m
      BY <3>2, <1>1, SubSeqProperties
    <3> QED
      BY <3>1, <3>2
  <2> HIDE DEF f, g
  <2>3. /\ f \o g \in Seq(Tuple)
        /\ Len(f \o g) = Len(f) + Len(g)
        /\ \A i \in 1 .. Len(f) + Len(g) :
             (f \o g)[i] = IF i <= Len(f) THEN f[i] ELSE g[i - Len(f)]
    BY <2>1, <2>2, ConcatProperties
  <2>4. ASSUME NEW j \in 1 .. m - 1
        PROVE  (f \o g)[j] = IF j < p THEN s[j] ELSE s[j + 1]
    <3>1. CASE j < p
      BY <3>1, <1>1, <2>1, <2>2, <2>3
    <3>2. CASE j >= p
      <4> DEFINE i == j - (p - 1)
      <4>1. i \in 1 .. m - p /\ p + i = j + 1 /\ ~(j < p)
        BY <3>2, <1>1
      <4>2. (f \o g)[j] = g[i]
        BY <3>2, <1>1, <2>1, <2>2, <2>3
      <4> HIDE DEF i
      <4>3. g[i] = s[j + 1]
        BY <4>1, <2>2
      <4> QED
        BY <4>1, <4>2, <4>3
    <3>3. j < p \/ j >= p
      BY <1>1
    <3> QED
      BY <3>1, <3>2, <3>3
  <2>5. r = f \o g
    BY DEF RemoveAt, f, g
  <2>6. DOMAIN (f \o g) = 1 .. m - 1
    <3>1. Len(f) + Len(g) = m - 1
      BY <1>1, <2>1, <2>2
    <3> QED
      BY <3>1, <2>3, LenProperties
  <2> QED
    BY <2>3, <2>4, <2>5, <2>6
<1> HIDE DEF r, m
<1> DEFINE old(j) == IF j < p THEN j ELSE j + 1
<1>3. \A j \in 1 .. m - 1 : old(j) \in 1 .. m /\ old(j) # p /\ r[j] = s[old(j)]
  BY <1>1, <1>2
<1>4. \A j, k \in 1 .. m - 1 : old(j) = old(k) => j = k
  BY <1>1
<1>5. \A i \in 1 .. m : i = p \/ \E j \in 1 .. m - 1 : old(j) = i
  <2> TAKE i \in 1 .. m
  <2>1. CASE i < p
    BY <2>1, <1>1
  <2>2. CASE i > p
    <3>1. i - 1 \in 1 .. m - 1 /\ old(i - 1) = i
      BY <2>2, <1>1
    <3> QED
      BY <3>1
  <2> QED
    BY <2>1, <2>2, <1>1
<1> HIDE DEF old
<1>6. Chain(r, b)
  <2> SUFFICES ASSUME NEW j \in 1 .. m - 1, NEW k \in 1 .. m - 1
               PROVE  Hash[r[j].name] = b /\ (r[j].name = r[k].name => j = k)
    BY <1>2 DEF Chain
  <2> QED
    BY <1>1, <1>3, <1>4 DEF Chain
<1>7. ToSet(r) \subseteq Others(s, s[p].name)
  BY <1>1, <1>2, <1>3 DEF Chain, ToSet, Others
<1>8. Others(s, s[p].name) \subseteq ToSet(r)
  <2> SUFFICES ASSUME NEW i \in 1 .. m, s[i].name # s[p].name PROVE s[i] \in ToSet(r)
    BY <1>1 DEF ToSet, Others
  <2>1. PICK j \in 1 .. m - 1 : old(j) = i
    BY <1>5
  <2> QED
    BY <2>1, <1>2, <1>3 DEF ToSet
<1> QED
  BY <1>6, <1>7, <1>8 DEF r

-----------------------------------------------------------------------------
(***************************************************************************)
(* The hash table as the set of its live tuples: a name has at most one.   *)
(***************************************************************************)
Table ==
  /\ nvram_hash \in [Bucket -> Seq(Tuple)]
  /\ \A b \in Bucket : Chain(nvram_hash[b], b)

LEMMA TableSound == Table => ChainsSound
<1> SUFFICES ASSUME Table,
                    NEW b \in Bucket, NEW c \in Bucket,
                    NEW j \in DOMAIN nvram_hash[b], NEW k \in DOMAIN nvram_hash[c]
             PROVE  /\ Hash[nvram_hash[b][j].name] = b
                    /\ nvram_hash[b][j].name = nvram_hash[c][k].name => b = c /\ j = k
  BY DEF ChainsSound
<1>1. Chain(nvram_hash[b], b) /\ Chain(nvram_hash[c], c)
  BY DEF Table
<1>2. Hash[nvram_hash[b][j].name] = b /\ Hash[nvram_hash[c][k].name] = c
  BY <1>1 DEF Chain
<1> QED
  BY <1>1, <1>2 DEF Chain

LEMMA HashType == \A n \in Name : Hash[n] \in Bucket
BY ConstantsAssumption

LEMMA PosFacts ==
  ASSUME Table, NEW n \in Name, Bound(n)
  PROVE  /\ Pos(n) \in DOMAIN nvram_hash[Hash[n]]
         /\ nvram_hash[Hash[n]][Pos(n)].name = n
<1>1. Chain(nvram_hash[Hash[n]], Hash[n])
  BY HashType DEF Table
<1>2. \A j, k \in Positions(n) : j = k
  BY <1>1 DEF Positions, Chain
<1>3. \A j \in Positions(n) : j \in Nat
  BY <1>1 DEF Positions, Chain
<1>4. \E j \in Positions(n) : \A k \in Positions(n) : j <= k
  BY <1>2, <1>3 DEF Bound
<1>5. Pos(n) \in Positions(n)
  BY <1>4 DEF Pos
<1> QED
  BY <1>5 DEF Positions

LiveSound ==
  /\ Live \subseteq Tuple
  /\ \A t, u \in Live : t.name = u.name => t = u
  /\ \A n \in Name : Bound(n) <=> \E t \in Live : t.name = n
  /\ \A t \in Live : _nvram_get(t.name) = t.value

LEMMA LiveFacts == Table => LiveSound
<1> SUFFICES ASSUME Table PROVE LiveSound
  OBVIOUS
<1>1. ASSUME NEW t \in Live
      PROVE  \E j \in DOMAIN nvram_hash[Hash[t.name]] :
               t \in Tuple /\ nvram_hash[Hash[t.name]][j] = t
  <2>1. PICK b \in Bucket : t \in ToSet(nvram_hash[b])
    BY <1>1 DEF Live
  <2>2. PICK j \in DOMAIN nvram_hash[b] : t = nvram_hash[b][j]
    BY <2>1 DEF ToSet
  <2>3. Chain(nvram_hash[b], b)
    BY DEF Table
  <2>4. t \in Tuple /\ Hash[t.name] = b
    BY <2>2, <2>3 DEF Chain
  <2> QED
    BY <2>2, <2>4
<1>2. ASSUME NEW n \in Name, NEW j \in DOMAIN nvram_hash[Hash[n]]
      PROVE  nvram_hash[Hash[n]][j] \in Live
  BY <1>2, HashType DEF Live, ToSet
<1>3. Live \subseteq Tuple
  BY <1>1
<1>4. ASSUME NEW t \in Live, NEW u \in Live, t.name = u.name PROVE t = u
  <2>1. t.name \in Name
    BY <1>3 DEF Tuple
  <2>2. Chain(nvram_hash[Hash[t.name]], Hash[t.name])
    BY <2>1, HashType DEF Table
  <2> QED
    BY <1>1, <1>4, <2>2 DEF Chain
<1>5. ASSUME NEW n \in Name PROVE Bound(n) <=> \E t \in Live : t.name = n
  <2>1. ASSUME Bound(n) PROVE \E t \in Live : t.name = n
    BY <2>1, <1>2, PosFacts
  <2>2. ASSUME NEW t \in Live, t.name = n PROVE Bound(n)
    BY <2>2, <1>1 DEF Bound, Positions
  <2> QED
    BY <2>1, <2>2
<1>6. ASSUME NEW t \in Live PROVE _nvram_get(t.name) = t.value
  <2>1. t.name \in Name
    BY <1>3 DEF Tuple
  <2>2. Bound(t.name)
    BY <2>1, <1>5
  <2>3. /\ Pos(t.name) \in DOMAIN nvram_hash[Hash[t.name]]
        /\ nvram_hash[Hash[t.name]][Pos(t.name)].name = t.name
    BY <2>1, <2>2, PosFacts
  <2>4. nvram_hash[Hash[t.name]][Pos(t.name)] \in Live
    BY <2>1, <2>3, <1>2
  <2> QED
    BY <1>4, <2>3, <2>4 DEF _nvram_get
<1> QED
  BY <1>3, <1>4, <1>5, <1>6 DEF LiveSound

LEMMA LiveFactsNext == Table' => LiveSound'
BY LiveFacts, PTL

(* Only the chain of one name changes.                                     *)
LEMMA OneChain ==
  ASSUME Table, NEW n \in Name, NEW c, NEW X,
         Chain(c, Hash[n]),
         ToSet(c) = Others(nvram_hash[Hash[n]], n) \cup X,
         nvram_hash' = [nvram_hash EXCEPT ![Hash[n]] = c]
  PROVE  /\ Table'
         /\ Live' = {t \in Live : t.name # n} \cup X
<1> DEFINE h == Hash[n]
<1>1. h \in Bucket
  BY HashType
<1>2. nvram_hash \in [Bucket -> Seq(Tuple)] /\ c \in Seq(Tuple)
  BY DEF Table, Chain
<1>3. /\ nvram_hash' \in [Bucket -> Seq(Tuple)]
      /\ \A b \in Bucket : nvram_hash'[b] = IF b = h THEN c ELSE nvram_hash[b]
  BY <1>1, <1>2
<1>4. Table'
  BY <1>3 DEF Table
<1>5. Live = UNION {ToSet(nvram_hash[b]) : b \in Bucket}
  BY DEF Live
<1>6. Live' = UNION {ToSet(nvram_hash'[b]) : b \in Bucket}
  BY DEF Live, Bucket
<1>7. ASSUME NEW b \in Bucket, b # h, NEW t \in ToSet(nvram_hash[b]) PROVE t.name # n
  <2>1. Chain(nvram_hash[b], b)
    BY DEF Table
  <2>2. PICK j \in DOMAIN nvram_hash[b] : t = nvram_hash[b][j]
    BY <1>7 DEF ToSet
  <2> QED
    BY <1>7, <2>1, <2>2 DEF Chain
<1> HIDE DEF h
<1>8. ToSet(c) = Others(nvram_hash[h], n) \cup X
  BY DEF h
<1>9. ASSUME NEW t \in Live' PROVE t \in {u \in Live : u.name # n} \cup X
  <2>1. PICK b \in Bucket : t \in ToSet(nvram_hash'[b])
    BY <1>6, <1>9
  <2>2. CASE b = h
    BY <2>1, <2>2, <1>1, <1>3, <1>5, <1>8 DEF Others
  <2>3. CASE b # h
    BY <2>1, <2>3, <1>3, <1>5, <1>7
  <2> QED
    BY <2>2, <2>3
<1>10. ASSUME NEW t \in {u \in Live : u.name # n} PROVE t \in Live'
  <2>1. PICK b \in Bucket : t \in ToSet(nvram_hash[b])
    BY <1>5, <1>10
  <2>2. CASE b = h
    <3>1. t \in ToSet(nvram_hash'[h])
      BY <2>1, <2>2, <1>1, <1>3, <1>8, <1>10 DEF Others
    <3> QED
      BY <3>1, <1>1, <1>6
  <2>3. CASE b # h
    <3>1. t \in ToSet(nvram_hash'[b])
      BY <2>1, <2>3, <1>3
    <3> QED
      BY <3>1, <1>6
  <2> QED
    BY <2>2, <2>3
<1>11. ASSUME NEW t \in X PROVE t \in Live'
  <2>1. t \in ToSet(nvram_hash'[h])
    BY <1>1, <1>3, <1>8, <1>11
  <2> QED
    BY <2>1, <1>1, <1>6
<1> QED
  BY <1>4, <1>9, <1>10, <1>11

LEMMA Linked ==
  ASSUME Table, NEW n \in Name, NEW off \in 0 .. NVRAM_SPACE - 1, LinkTuple(n, off)
  PROVE  /\ Table'
         /\ Live' = {t \in Live : t.name # n} \cup {[name |-> n, value |-> off]}
<1> DEFINE t == [name |-> n, value |-> off]
           s == nvram_hash[Hash[n]]
           c == IF Bound(n) THEN [s EXCEPT ![Pos(n)] = t] ELSE <<t>> \o s
<1>1. t \in Tuple /\ t.name = n
  BY DEF Tuple
<1>2. Chain(s, Hash[n])
  BY HashType DEF Table
<1>3. nvram_hash' = [nvram_hash EXCEPT ![Hash[n]] = c]
  BY DEF LinkTuple
<1> HIDE DEF t, s
<1>4. Chain(c, Hash[n]) /\ ToSet(c) = Others(s, n) \cup {t}
  <2>1. CASE Bound(n)
    <3>1. Pos(n) \in DOMAIN s /\ s[Pos(n)].name = n
      BY <2>1, PosFacts DEF s
    <3>2. c = [s EXCEPT ![Pos(n)] = t]
      BY <2>1
    <3> HIDE DEF c
    <3>3. s \in Seq(Tuple)
      BY <1>2 DEF Chain
    <3>4. /\ c \in Seq(Tuple) /\ DOMAIN c = DOMAIN s
          /\ \A j \in DOMAIN s : c[j] = IF j = Pos(n) THEN t ELSE s[j]
      BY <3>1, <3>2, <3>3, <1>1
    <3> QED
      BY <3>1, <3>4, <1>1, <1>2, ReplacedChain
  <2>2. CASE ~Bound(n)
    <3>1. \A j \in DOMAIN s : s[j].name # n
      BY <2>2 DEF Bound, Positions, s
    <3> QED
      BY <2>2, <3>1, <1>1, <1>2, ExtendedChain
  <2> QED
    BY <2>1, <2>2
<1> HIDE DEF c
<1> QED
  BY <1>3, <1>4, OneChain DEF s, t

LEMMA Unlinked ==
  ASSUME Table, NEW n \in Name, Bound(n), _nvram_unset(n)
  PROVE  /\ Table'
         /\ Live' = {t \in Live : t.name # n}
<1> DEFINE s == nvram_hash[Hash[n]]
           c == RemoveAt(s, Pos(n))
<1>1. Pos(n) \in DOMAIN s /\ s[Pos(n)].name = n
  BY PosFacts
<1>2. Chain(s, Hash[n])
  BY HashType DEF Table
<1>3. nvram_hash' = [nvram_hash EXCEPT ![Hash[n]] = c]
  BY DEF _nvram_unset
<1> HIDE DEF s
<1>4. Chain(c, Hash[n]) /\ ToSet(c) = Others(s, n) \cup {}
  BY <1>1, <1>2, ReducedChain
<1> HIDE DEF c
<1>5. Table' /\ Live' = {t \in Live : t.name # n} \cup {}
  BY <1>3, <1>4, OneChain DEF s
<1> QED
  BY <1>5

LEMMA Emptied ==
  ASSUME nvram_hash' = [b \in Bucket |-> <<>>]
  PROVE  Table' /\ Live' = {}
<1>1. \A b \in Bucket : nvram_hash'[b] = <<>>
  OBVIOUS
<1>2. Live' = UNION {ToSet(nvram_hash'[b]) : b \in Bucket}
  BY DEF Live, Bucket
<1>3. ToSet(<<>>) = {} /\ <<>> \in Seq(Tuple)
  BY DEF ToSet
<1>4. \A b : Chain(<<>>, b)
  BY <1>3 DEF Chain
<1> QED
  BY <1>1, <1>2, <1>3, <1>4 DEF Table

-----------------------------------------------------------------------------
(***************************************************************************)
(* Strings in the buffer.                                                  *)
(***************************************************************************)
BufTypes ==
  /\ nvram_buf \in [0 .. NVRAM_SPACE - 1 -> Cell]
  /\ nvram_offset \in 0 .. NVRAM_SPACE

LEMMA LenType ==
  /\ NVRAM_SPACE \in Nat
  /\ \A v \in Value : ValueLen[v] \in Nat /\ Bytes(v) = ValueLen[v] + 1 /\ Bytes(v) \in Nat
BY ConstantsAssumption DEF Bytes

LEMMA StringAtFacts ==
  ASSUME NEW off, NEW v \in Value, Holds(off, v)
  PROVE  StringAt(off) = v
<1>1. ASSUME NEW w \in Value, Holds(off, w) PROVE w = v
  <2>1. nvram_buf[off + 0] = <<v, 0>> /\ nvram_buf[off + 0] = <<w, 0>>
    BY <1>1, LenType DEF Holds
  <2> QED
    BY <2>1
<1> QED
  BY <1>1 DEF StringAt

StringsUnique == \A off : \A v \in Value : Holds(off, v) => StringAt(off) = v

LEMMA StringsFacts == StringsUnique
BY StringAtFacts DEF StringsUnique

LEMMA StringsFactsNext == StringsUnique'
BY StringsFacts, PTL

(* Copying behind nvram_offset.                                            *)
LEMMA Copied ==
  ASSUME BufTypes, NEW v \in Value, HasRoom(v), NEW off, off = nvram_offset,
         CopyAt(off, v), nvram_offset' = NextOffset(v)
  PROVE  /\ BufTypes'
         /\ Intact(off, v)'
         /\ \A o \in Nat : \A w \in Value : Intact(o, w) => Intact(o, w)'
<1>1. /\ off \in Nat /\ ValueLen[v] \in Nat /\ NVRAM_SPACE \in Nat
      /\ off + ValueLen[v] + 1 <= NVRAM_SPACE
      /\ nvram_offset' = off + ValueLen[v] + 1
      /\ Bytes(v) = ValueLen[v] + 1
  BY LenType DEF BufTypes, HasRoom, NextOffset
<1>2. DOMAIN nvram_buf = 0 .. NVRAM_SPACE - 1
  BY DEF BufTypes
<1>3. /\ nvram_buf' = [c \in 0 .. NVRAM_SPACE - 1 |->
                         IF c \in off .. off + ValueLen[v] THEN <<v, c - off>>
                                                          ELSE nvram_buf[c]]
  BY <1>2 DEF CopyAt
<1>4. BufTypes'
  <2>1. ASSUME NEW c \in 0 .. NVRAM_SPACE - 1, c \in off .. off + ValueLen[v]
        PROVE  <<v, c - off>> \in Cell
    BY <2>1, <1>1 DEF Cell
  <2>2. \A c \in 0 .. NVRAM_SPACE - 1 : nvram_buf'[c] \in Cell
    BY <2>1, <1>3 DEF BufTypes
  <2>3. Cell' = Cell
    BY DEF Cell
  <2> QED
    BY <2>2, <2>3, <1>1, <1>3 DEF BufTypes
<1>5. Intact(off, v)'
  <2>1. ASSUME NEW i \in 0 .. ValueLen[v] PROVE nvram_buf'[off + i] = <<v, i>>
    <3>1. off + i \in 0 .. NVRAM_SPACE - 1 /\ off + i \in off .. off + ValueLen[v]
          /\ (off + i) - off = i
      BY <1>1
    <3> QED
      BY <3>1, <1>3
  <2> QED
    BY <2>1, <1>1 DEF Intact, Holds, Bytes
<1>6. ASSUME NEW o \in Nat, NEW w \in Value, Intact(o, w) PROVE Intact(o, w)'
  <2>1. /\ ValueLen[w] \in Nat /\ o + ValueLen[w] + 1 <= off
        /\ o + Bytes(w) <= NVRAM_SPACE /\ Bytes(w) = ValueLen[w] + 1
        /\ \A i \in 0 .. ValueLen[w] : nvram_buf[o + i] = <<w, i>>
    BY <1>6, <1>1, LenType DEF Intact, Holds
  <2>2. ASSUME NEW i \in 0 .. ValueLen[w] PROVE nvram_buf'[o + i] = <<w, i>>
    <3>1. o + i \in 0 .. NVRAM_SPACE - 1 /\ ~(o + i \in off .. off + ValueLen[v])
      BY <2>1, <1>1
    <3>2. nvram_buf[o + i] = <<w, i>>
      BY <2>1
    <3> QED
      BY <3>1, <3>2, <1>3
  <2>3. o + Bytes(w) <= nvram_offset'
    BY <2>1, <1>1
  <2> QED
    BY <2>1, <2>2, <2>3 DEF Intact, Holds, Bytes
<1> QED
  BY <1>4, <1>5, <1>6

-----------------------------------------------------------------------------
(***************************************************************************)
(* The store between two operations.  Two tuples never share a string,     *)
(* live or dead: the bytes that Intact speaks of belong to one of them.    *)
(***************************************************************************)
Distinct ==
  /\ \A t, u \in Live : t.value = u.value => t = u
  /\ \A t \in Live : t.value \notin nvram_dead

Pointers ==
  /\ ptr \in [Reader -> [off : 0 .. NVRAM_SPACE - 1, val : Value] \cup {NULL}]
  /\ ReaderIntact

StoreInv ==
  /\ Table /\ BufTypes
  /\ nvram_dead \subseteq 0 .. NVRAM_SPACE - 1
  /\ Distinct
  /\ TuplesIntact

LookupSound ==
  \A n \in Name :
    /\ ~Bound(n) => Lookup(n) = NULL
    /\ Bound(n) => /\ Lookup(n) \in Value
                   /\ \E t \in Live : /\ t.name = n /\ _nvram_get(n) = t.value
                                      /\ Intact(t.value, Lookup(n))

LEMMA LookupFacts == StoreInv => LookupSound
<1> SUFFICES ASSUME StoreInv, NEW n \in Name, Bound(n)
             PROVE  /\ Lookup(n) \in Value
                    /\ \E t \in Live : /\ t.name = n /\ _nvram_get(n) = t.value
                                       /\ Intact(t.value, Lookup(n))
  BY DEF LookupSound, Lookup
<1>1. LiveSound
  BY LiveFacts DEF StoreInv
<1>2. PICK t \in Live : t.name = n /\ _nvram_get(n) = t.value
  BY <1>1 DEF LiveSound
<1>3. PICK v \in Value : Intact(t.value, v)
  BY <1>2 DEF StoreInv, TuplesIntact
<1>4. Lookup(n) = v
  BY <1>2, <1>3, StringsFacts DEF Lookup, Intact, StringsUnique
<1> QED
  BY <1>2, <1>3, <1>4

LEMMA LookupFactsNext == StoreInv' => LookupSound'
BY LookupFacts, PTL

(* A variable whose tuple and string are left alone keeps its value.       *)
LEMMA SameLookup ==
  ASSUME StoreInv, StoreInv', NEW n \in Name,
         \A t : t.name = n => (t \in Live <=> t \in Live'),
         \A o \in Nat : \A w \in Value : Intact(o, w) => Intact(o, w)'
  PROVE  Bound(n)' = Bound(n) /\ Lookup(n)' = Lookup(n)
<1>1. LiveSound /\ LiveSound' /\ LookupSound /\ LookupSound'
  BY LiveFacts, LiveFactsNext, LookupFacts, LookupFactsNext DEF StoreInv
<1>2. Bound(n)' <=> Bound(n)
  BY <1>1 DEF LiveSound
<1>3. Bound(n)' = Bound(n)
  BY <1>2 DEF Bound
<1>4. CASE ~Bound(n)
  BY <1>1, <1>2, <1>3, <1>4 DEF LookupSound
<1>5. CASE Bound(n)
  <2>1. PICK t \in Live : t.name = n /\ Intact(t.value, Lookup(n))
    BY <1>1, <1>5 DEF LookupSound
  <2>2. t \in Live' /\ t.value \in Nat
    BY <1>1, <2>1 DEF LiveSound, Tuple
  <2>3. Lookup(n) \in Value
    BY <1>1, <1>5 DEF LookupSound
  <2> DEFINE w == Lookup(n)
  <2>4. PICK v \in Value : v = w
    BY <2>3
  <2>5. Intact(t.value, v)'
    BY <2>1, <2>2, <2>4
  <2>6. _nvram_get(n)' = t.value
    BY <2>1, <2>2, <1>1 DEF LiveSound
  <2>7. StringAt(t.value)' = v
    BY <2>5, StringsFactsNext DEF StringsUnique, Intact
  <2>8. Lookup(n)' = v
    BY <2>6, <2>7, <1>2, <1>5 DEF Lookup
  <2> QED
    BY <2>4, <2>8, <1>3
<1> QED
  BY <1>3, <1>4, <1>5

LEMMA StoreFrame ==
  ASSUME StoreInv, UNCHANGED store
  PROVE  StoreInv' /\ Live' = Live /\ (\A o, w : Intact(o, w)' = Intact(o, w))
<1>1. /\ nvram_hash' = nvram_hash /\ nvram_dead' = nvram_dead
      /\ nvram_buf' = nvram_buf /\ nvram_offset' = nvram_offset
  BY DEF store
<1>2. Table'
  BY <1>1 DEF StoreInv, Table
<1>3. BufTypes'
  BY <1>1 DEF StoreInv, BufTypes
<1>4. Live' = Live
  BY <1>1 DEF Live
<1>5. \A o, w : Intact(o, w)' = Intact(o, w)
  BY <1>1 DEF Intact, Holds, Bytes
<1>6. Distinct' /\ TuplesIntact'
  BY <1>1, <1>4, <1>5 DEF StoreInv, Distinct, TuplesIntact
<1> QED
  BY <1>1, <1>2, <1>3, <1>4, <1>5, <1>6 DEF StoreInv

(* What a successful _nvram_set does to the variables.                     *)
Assigned(n, v) ==
  /\ Bound(n)' /\ Lookup(n)' = v
  /\ \A m \in Name \ {n} : Bound(m)' = Bound(m) /\ Lookup(m)' = Lookup(m)
  /\ nvram_offset' <= nvram_offset + Bytes(v)
  /\ \A o \in Nat : \A w \in Value : Intact(o, w) => Intact(o, w)'

LEMMA SetStore ==
  ASSUME StoreInv, NEW n \in Name, NEW v \in Value, HasRoom(v), _nvram_set(n, v)
  PROVE  StoreInv' /\ Assigned(n, v)
<1>0. LiveSound /\ LookupSound
  BY LiveFacts, LookupFacts DEF StoreInv
<1>1. CASE Bound(n) /\ Holds(_nvram_get(n), v)
  <2>1. UNCHANGED store
    BY <1>1 DEF _nvram_set, store
  <2>2. StoreInv'
    BY <2>1, StoreFrame
  <2>3. \A o, w : Intact(o, w) => Intact(o, w)'
    BY <2>1 DEF store, Intact, Holds, Bytes
  <2>4. Live' = Live
    BY <2>1 DEF store, Live, Bucket
  <2>5. \A m \in Name : Bound(m)' = Bound(m) /\ Lookup(m)' = Lookup(m)
    BY <2>2, <2>3, <2>4, SameLookup
  <2>6. Lookup(n) = v
    BY <1>1, StringsFacts DEF Lookup, StringsUnique
  <2>7. nvram_offset' <= nvram_offset + Bytes(v)
    BY <2>1, LenType DEF store, StoreInv, BufTypes
  <2> QED
    BY <2>2, <2>3, <2>5, <2>6, <2>7, <1>1 DEF Assigned
<1>2. CASE ~(Bound(n) /\ Holds(_nvram_get(n), v))
  <2>1. PICK off : off = nvram_offset
    OBVIOUS
  <2>2. /\ nvram_dead' = nvram_dead /\ CopyAt(off, v)
        /\ nvram_offset' = NextOffset(v) /\ LinkTuple(n, off)
    BY <1>2, <2>1 DEF _nvram_set
  <2>3. off \in 0 .. NVRAM_SPACE - 1 /\ nvram_offset' = nvram_offset + Bytes(v)
    BY <2>1, <2>2, LenType DEF StoreInv, BufTypes, HasRoom, NextOffset
  <2>4. /\ BufTypes'
        /\ Intact(off, v)'
        /\ \A o \in Nat : \A w \in Value : Intact(o, w) => Intact(o, w)'
    BY <2>1, <2>2, Copied DEF StoreInv
  <2> DEFINE t == [name |-> n, value |-> off]
  <2>5. Table' /\ Live' = {u \in Live : u.name # n} \cup {t}
    BY <2>2, <2>3, Linked DEF StoreInv
  <2>6. t.name = n /\ t.value = off
    OBVIOUS
  <2> HIDE DEF t
  <2>7. \A o \in {u.value : u \in Live} \cup nvram_dead :
           o \in Nat /\ o # off /\ \E w \in Value : Intact(o, w)
    <3> TAKE o \in {u.value : u \in Live} \cup nvram_dead
    <3>1. o \in Nat
      <4>1. CASE o \in nvram_dead
        BY <4>1, LenType DEF StoreInv
      <4>2. CASE o \notin nvram_dead
        <5>1. PICK u \in Tuple : o = u.value
          BY <4>2, <1>0 DEF LiveSound
        <5> QED
          BY <5>1, LenType DEF Tuple
      <4> QED
        BY <4>1, <4>2
    <3>2. PICK w \in Value : Intact(o, w)
      BY DEF StoreInv, TuplesIntact
    <3>3. o + Bytes(w) <= off /\ Bytes(w) \in Nat \ {0}
      BY <3>2, <2>1, LenType DEF Intact
    <3> QED
      BY <3>1, <3>2, <3>3, <2>3
  <2>8. Distinct'
    <3>1. \A u \in Live : u.value # off
      BY <2>7
    <3>2. off \notin nvram_dead
      BY <2>7
    <3> QED
      BY <3>1, <3>2, <2>2, <2>5, <2>6 DEF Distinct, StoreInv
  <2>9. TuplesIntact'
    <3> SUFFICES ASSUME NEW o \in {u.value : u \in Live'} \cup nvram_dead'
                 PROVE  \E w \in Value : Intact(o, w)'
      BY DEF TuplesIntact
    <3>1. CASE o = off
      BY <3>1, <2>4
    <3>2. CASE o # off
      BY <3>2, <2>2, <2>4, <2>5, <2>6, <2>7
    <3> QED
      BY <3>1, <3>2
  <2>10. StoreInv'
    BY <2>2, <2>4, <2>5, <2>8, <2>9 DEF StoreInv
  <2>11. LiveSound' /\ LookupSound'
    BY <2>10, LiveFactsNext, LookupFactsNext DEF StoreInv
  <2>12. Bound(n)' /\ Lookup(n)' = v
    <3>1. t \in Live'
      BY <2>5
    <3>2. Bound(n)' /\ _nvram_get(n)' = off
      BY <3>1, <2>6, <2>11 DEF LiveSound
    <3>3. StringAt(off)' = v
      BY <2>4, StringsFactsNext DEF StringsUnique, Intact
    <3> QED
      BY <3>2, <3>3 DEF Lookup
  <2>13. ASSUME NEW m \in Name \ {n}
         PROVE  Bound(m)' = Bound(m) /\ Lookup(m)' = Lookup(m)
    <3>1. \A u : u.name = m => (u \in Live <=> u \in Live')
      BY <2>5, <2>6
    <3> QED
      BY <3>1, <2>4, <2>10, SameLookup
  <2>14. nvram_offset' <= nvram_offset + Bytes(v)
    BY <2>3, LenType DEF StoreInv, BufTypes
  <2> QED
    BY <2>4, <2>10, <2>12, <2>13, <2>14 DEF Assigned
<1> QED
  BY <1>1, <1>2

LEMMA TrySetStore ==
  ASSUME StoreInv, NEW n \in Name, NEW v \in Value, NEW ok, TrySet(n, v, ok)
  PROVE  /\ StoreInv'
         /\ Allocatable(n, v, ok) => Assigned(n, v)
         /\ \A o \in Nat : \A w \in Value : Intact(o, w) => Intact(o, w)'
         /\ nvram_offset' <= nvram_offset + Bytes(v)
<1>1. CASE Allocatable(n, v, ok)
  BY <1>1, SetStore DEF TrySet, Allocatable, Assigned
<1>2. CASE ~Allocatable(n, v, ok)
  <2>1. UNCHANGED store
    BY <1>2 DEF TrySet
  <2>2. nvram_offset' <= nvram_offset + Bytes(v)
    BY <2>1, LenType DEF store, StoreInv, BufTypes
  <2> QED
    BY <1>2, <2>1, <2>2, StoreFrame
<1> QED
  BY <1>1, <1>2

LEMMA UnsetStore ==
  ASSUME StoreInv, NEW n \in Name, Bound(n), _nvram_unset(n),
         UNCHANGED <<nvram_buf, nvram_offset>>
  PROVE  /\ StoreInv'
         /\ ~Bound(n)'
         /\ \A m \in Name \ {n} : Bound(m)' = Bound(m) /\ Lookup(m)' = Lookup(m)
         /\ \A o, w : Intact(o, w)' = Intact(o, w)
<1>1. LiveSound /\ LookupSound
  BY LiveFacts, LookupFacts DEF StoreInv
<1>2. Table' /\ Live' = {t \in Live : t.name # n}
  BY Unlinked DEF StoreInv
<1>3. PICK t \in Live : t.name = n /\ _nvram_get(n) = t.value
  BY <1>1 DEF LookupSound
<1>4. nvram_dead' = nvram_dead \cup {t.value}
  BY <1>3 DEF _nvram_unset
<1>5. \A o, w : Intact(o, w)' = Intact(o, w)
  BY DEF Intact, Holds, Bytes
<1>6. BufTypes'
  BY DEF StoreInv, BufTypes
<1>7. t.value \in 0 .. NVRAM_SPACE - 1
  BY <1>1, <1>3 DEF LiveSound, Tuple
<1>8. Distinct'
  <2>1. \A u, w \in Live' : u.value = w.value => u = w
    BY <1>2 DEF Distinct, StoreInv
  <2>2. ASSUME NEW u \in Live' PROVE u.value \notin nvram_dead'
    <3>1. u \in Live /\ u # t
      BY <2>2, <1>2, <1>3
    <3>2. u.value # t.value /\ u.value \notin nvram_dead
      BY <3>1, <1>3 DEF Distinct, StoreInv
    <3> QED
      BY <3>2, <1>4
  <2> QED
    BY <2>1, <2>2 DEF Distinct
<1>9. TuplesIntact'
  <2> SUFFICES ASSUME NEW o \in {u.value : u \in Live'} \cup nvram_dead'
               PROVE  \E w \in Value : Intact(o, w)'
    BY DEF TuplesIntact
  <2>1. o \in {u.value : u \in Live} \cup nvram_dead
    BY <1>2, <1>3, <1>4
  <2> QED
    BY <2>1, <1>5 DEF TuplesIntact, StoreInv
<1>10. StoreInv'
  BY <1>2, <1>4, <1>6, <1>7, <1>8, <1>9 DEF StoreInv
<1>11. LiveSound'
  BY <1>2, LiveFactsNext
<1>12. ~Bound(n)'
  BY <1>2, <1>11 DEF LiveSound
<1>13. ASSUME NEW m \in Name \ {n} PROVE Bound(m)' = Bound(m) /\ Lookup(m)' = Lookup(m)
  BY <1>2, <1>5, <1>10, SameLookup
<1> QED
  BY <1>5, <1>10, <1>12, <1>13

LEMMA FreeStore ==
  ASSUME nvram_free
  PROVE  /\ StoreInv' /\ Pointers'
         /\ \A n \in Name : ~Bound(n)'
         /\ nvram_offset' = 0
<1>1. Table' /\ Live' = {}
  BY Emptied DEF nvram_free
<1>2. nvram_dead' = {} /\ nvram_offset' = 0
  BY DEF nvram_free
<1>3. BufTypes'
  BY LenType DEF nvram_free, BufTypes, Cell
<1>4. StoreInv'
  BY <1>1, <1>2, <1>3 DEF StoreInv, Distinct, TuplesIntact
<1>5. Pointers'
  BY DEF nvram_free, Pointers, ReaderIntact
<1> QED
  BY <1>1, <1>2, <1>4, <1>5, LiveFactsNext DEF LiveSound

LEMMA PointersFrame ==
  ASSUME Pointers, ptr' = ptr,
         \A o \in Nat : \A w \in Value : Intact(o, w) => Intact(o, w)'
  PROVE  Pointers'
<1>1. ASSUME NEW r \in Reader, ptr[r] # NULL PROVE Intact(ptr[r].off, ptr[r].val)'
  <2>1. ptr[r].off \in Nat /\ ptr[r].val \in Value /\ Intact(ptr[r].off, ptr[r].val)
    BY <1>1, LenType DEF Pointers, ReaderIntact
  <2>2. PICK o \in Nat, w \in Value : o = ptr[r].off /\ w = ptr[r].val
    BY <2>1
  <2>3. Intact(o, w)'
    BY <2>1, <2>2
  <2> QED
    BY <2>2, <2>3
<1> QED
  BY <1>1 DEF Pointers, ReaderIntact

-----------------------------------------------------------------------------
(***************************************************************************)
(* Images.  A packed list can be laid out behind the header, and what can  *)
(* be laid out with names fits the buffer without them.                    *)
(***************************************************************************)
LEMMA NameLenType == \A n \in Name : NameLen[n] \in Nat
BY ConstantsAssumption

LEMMA FitsEmpty ==
  ASSUME NEW end \in Nat, HeaderSize <= end
  PROVE  FitsImage(<<>>, end)
<1>1. HeaderSize \in Nat /\ Len(<<>>) = 0
  BY ConstantsAssumption
<1>2. PICK pos : pos = [k \in 0 .. 0 |-> HeaderSize]
  OBVIOUS
<1>3. pos \in [0 .. Len(<<>>) -> HeaderSize .. end]
  BY <1>1, <1>2
<1>4. \A k \in 1 .. Len(<<>>) : FALSE
  BY <1>1
<1> QED
  BY <1>3, <1>4 DEF FitsImage

LEMMA FitsAppend ==
  ASSUME NEW list \in Seq(Pair), NEW e \in Pair, NEW p \in Nat, FitsImage(list, p),
         NEW q \in Nat, p + NameLen[e.name] + 1 + Bytes(e.value) <= q
  PROVE  FitsImage(Append(list, e), q)
<1> DEFINE m == Len(list)
           l == Append(list, e)
<1>1. m \in Nat /\ Len(l) = m + 1 /\ l[m + 1] = e /\ \A k \in 1 .. m : l[k] = list[k]
  OBVIOUS
<1>2. PICK pos \in [0 .. m -> HeaderSize .. p] :
        \A k \in 1 .. m :
          pos[k - 1] + NameLen[list[k].name] + 1 + Bytes(list[k].value) <= pos[k]
  BY DEF FitsImage
<1>3. HeaderSize \in Nat /\ NameLen[e.name] \in Nat /\ Bytes(e.value) \in Nat
  BY ConstantsAssumption, LenType, NameLenType DEF Pair
<1>4. pos[m] \in HeaderSize .. p /\ HeaderSize <= p /\ p <= q
  BY <1>1, <1>2, <1>3
<1> HIDE DEF m, l
<1> DEFINE new == [k \in 0 .. m + 1 |-> IF k <= m THEN pos[k] ELSE q]
<1>5. new \in [0 .. m + 1 -> HeaderSize .. q]
  BY <1>1, <1>2, <1>3, <1>4
<1>6. new[m + 1] = q /\ \A k \in 0 .. m : new[k] = pos[k]
  BY <1>1
<1> HIDE DEF new
<1>7. ASSUME NEW k \in 1 .. m + 1
      PROVE  new[k - 1] + NameLen[l[k].name] + 1 + Bytes(l[k].value) <= new[k]
  <2>1. CASE k = m + 1
    <3>1. k - 1 = m /\ l[k] = e /\ new[k] = q /\ new[k - 1] = pos[m]
      BY <2>1, <1>1, <1>6
    <3> QED
      BY <3>1, <1>3, <1>4
  <2>2. CASE k # m + 1
    <3>1. k \in 1 .. m /\ k - 1 \in 0 .. m /\ k \in 0 .. m
      BY <2>2, <1>1
    <3>2. l[k] = list[k] /\ new[k] = pos[k] /\ new[k - 1] = pos[k - 1]
      BY <3>1, <1>1, <1>6
    <3> QED
      BY <3>1, <3>2, <1>2
  <2> QED
    BY <2>1, <2>2
<1>8. FitsImage(l, q)
  BY <1>1, <1>5, <1>7 DEF FitsImage
<1> QED
  BY <1>8 DEF l

LEMMA FitsLonger ==
  ASSUME NEW list \in Seq(Pair), NEW p \in Nat, NEW q \in Nat, p <= q, FitsImage(list, p)
  PROVE  FitsImage(list, q)
<1>1. HeaderSize \in Nat
  BY ConstantsAssumption
<1>2. [0 .. Len(list) -> HeaderSize .. p] \subseteq [0 .. Len(list) -> HeaderSize .. q]
  BY <1>1
<1> QED
  BY <1>2 DEF FitsImage

LEMMA EntriesFacts ==
  ASSUME NEW list \in Seq(Pair), NEW sdram \in [SdramNames -> Value]
  PROVE  /\ Entries(list, sdram) \in Seq(Entry)
         /\ Len(Entries(list, sdram)) = Len(list) + Len(SdramSeq)
         /\ \A k \in 1 .. Len(list) :
              Entries(list, sdram)[k] =
                [name |-> list[k].name, value |-> list[k].value, ifUnset |-> FALSE]
         /\ \A k \in 1 .. Len(SdramSeq) :
              Entries(list, sdram)[Len(list) + k] =
                [name |-> SdramSeq[k], value |-> sdram[SdramSeq[k]], ifUnset |-> TRUE]
<1> DEFINE m == Len(list)
           n == Len(SdramSeq)
           f == [k \in 1 .. m |-> [name |-> list[k].name, value |-> list[k].value,
                                   ifUnset |-> FALSE]]
           g == [k \in 1 .. n |-> [name |-> SdramSeq[k], value |-> sdram[SdramSeq[k]],
                                   ifUnset |-> TRUE]]
<1>1. m \in Nat /\ n \in Nat /\ SdramSeq \in Seq(Name)
  BY ConstantsAssumption
<1>2. \A k \in 1 .. m : list[k] \in Pair
  OBVIOUS
<1>3. \A k \in 1 .. n : SdramSeq[k] \in Name /\ SdramSeq[k] \in SdramNames
  BY <1>1 DEF SdramNames, ToSet
<1>4. f \in [1 .. m -> Entry]
  BY <1>2 DEF Pair, Entry
<1>5. g \in [1 .. n -> Entry]
  BY <1>3 DEF Entry
<1>7. Entries(list, sdram) = f \o g
  BY DEF Entries
<1> HIDE DEF f, g, m, n
<1>6. f \in Seq(Entry) /\ Len(f) = m /\ g \in Seq(Entry) /\ Len(g) = n
  <2>1. DOMAIN f = 1 .. m /\ DOMAIN g = 1 .. n
    BY <1>4, <1>5
  <2>2. f \in Seq(Entry) /\ g \in Seq(Entry)
    BY <1>1, <1>4, <1>5, IsASeq
  <2> QED
    BY <2>1, <2>2, <1>1, LenProperties
<1>8. /\ f \o g \in Seq(Entry) /\ Len(f \o g) = m + n
      /\ \A i \in 1 .. m + n : (f \o g)[i] = IF i <= m THEN f[i] ELSE g[i - m]
  BY <1>6, ConcatProperties
<1>9. ASSUME NEW k \in 1 .. m PROVE (f \o g)[k] = f[k]
  BY <1>1, <1>8
<1>10. ASSUME NEW k \in 1 .. n PROVE (f \o g)[m + k] = g[k]
  <2>1. m + k \in 1 .. m + n /\ ~(m + k <= m) /\ (m + k) - m = k
    BY <1>1
  <2>2. (f \o g)[m + k] = g[(m + k) - m]
    BY <2>1, <1>8
  <2> QED
    BY <2>1, <2>2
<1> QED
  BY <1>7, <1>8, <1>9, <1>10 DEF f, g, m, n

(***************************************************************************)
(* The entries s fit behind offset off, one after the other, up to where   *)
(* only sdram parameters follow.                                           *)
(***************************************************************************)
Room(s, off) ==
  \E m \in 0 .. Len(s) : \E pos \in [0 .. m -> 0 .. NVRAM_SPACE] :
    /\ off <= pos[0] \/ m = 0
    /\ \A k \in 1 .. m : pos[k - 1] + Bytes(s[k].value) <= pos[k]
    /\ \A k \in m + 1 .. Len(s) : s[k].ifUnset

LEMMA RoomStart ==
  ASSUME NEW list \in Seq(Pair), NEW sdram \in [SdramNames -> Value],
         FitsImage(list, NVRAM_SPACE)
  PROVE  Room(Entries(list, sdram), 0)
<1> DEFINE m == Len(list)
           s == Entries(list, sdram)
<1>1. m \in Nat /\ Len(SdramSeq) \in Nat /\ HeaderSize \in Nat /\ NVRAM_SPACE \in Nat
  BY ConstantsAssumption
<1>2. PICK pos \in [0 .. m -> HeaderSize .. NVRAM_SPACE] :
        \A k \in 1 .. m :
          pos[k - 1] + NameLen[list[k].name] + 1 + Bytes(list[k].value) <= pos[k]
  BY DEF FitsImage
<1>a. /\ Len(s) = m + Len(SdramSeq)
      /\ \A k \in 1 .. m :
           s[k] = [name |-> list[k].name, value |-> list[k].value, ifUnset |-> FALSE]
      /\ \A k \in 1 .. Len(SdramSeq) :
           s[m + k] = [name |-> SdramSeq[k], value |-> sdram[SdramSeq[k]], ifUnset |-> TRUE]
  BY EntriesFacts
<1>b. \A k \in 1 .. m : list[k] \in Pair
  OBVIOUS
<1> HIDE DEF m, s
<1>3. /\ Len(s) = m + Len(SdramSeq)
      /\ \A k \in 1 .. m : s[k].value = list[k].value
      /\ \A k \in 1 .. Len(SdramSeq) : s[m + k].ifUnset
  <2>1. ASSUME NEW k \in 1 .. m PROVE s[k].value = list[k].value
    <3>1. s[k] = [name |-> list[k].name, value |-> list[k].value, ifUnset |-> FALSE]
      BY <1>a
    <3> QED
      BY <3>1
  <2>2. ASSUME NEW k \in 1 .. Len(SdramSeq) PROVE s[m + k].ifUnset = TRUE
    <3>1. s[m + k] = [name |-> SdramSeq[k], value |-> sdram[SdramSeq[k]], ifUnset |-> TRUE]
      BY <1>a
    <3> QED
      BY <3>1
  <2> QED
    BY <1>a, <2>1, <2>2
<1>4. m \in 0 .. Len(s) /\ pos \in [0 .. m -> 0 .. NVRAM_SPACE] /\ 0 <= pos[0]
  BY <1>1, <1>2, <1>3
<1>5. ASSUME NEW k \in 1 .. m PROVE pos[k - 1] + Bytes(s[k].value) <= pos[k]
  <2>1. list[k] \in Pair
    BY <1>b
  <2>2. NameLen[list[k].name] \in Nat /\ Bytes(list[k].value) \in Nat
    BY <2>1, NameLenType, LenType DEF Pair
  <2>3. pos[k - 1] \in Nat /\ pos[k] \in Nat
    <3>1. k - 1 \in 0 .. m /\ k \in 0 .. m
      BY <1>1
    <3> QED
      BY <3>1, <1>4
  <2>4. pos[k - 1] + NameLen[list[k].name] + 1 + Bytes(list[k].value) <= pos[k]
    BY <1>2
  <2> QED
    BY <2>2, <2>3, <2>4, <1>3
<1>6. ASSUME NEW k \in m + 1 .. Len(s) PROVE s[k].ifUnset
  <2> DEFINE i == k - m
  <2>1. i \in 1 .. Len(SdramSeq) /\ m + i = k
    BY <1>1, <1>3
  <2> HIDE DEF i
  <2> QED
    BY <2>1, <1>3
<1>7. Room(s, 0)
  BY <1>4, <1>5, <1>6 DEF Room
<1> QED
  BY <1>7 DEF s

LEMMA RoomTail ==
  ASSUME NEW s \in Seq(Entry), s # <<>>, NEW off \in Nat, NEW new \in Nat, Room(s, off),
         new <= off + Bytes(Head(s).value)
  PROVE  /\ Room(Tail(s), new)
         /\ ~Head(s).ifUnset => off + Bytes(Head(s).value) <= NVRAM_SPACE
<1> DEFINE n == Len(s)
           r == Tail(s)
<1>1. /\ n \in Nat \ {0} /\ Head(s) = s[1] /\ s[1] \in Entry
      /\ r \in Seq(Entry) /\ Len(r) = n - 1
      /\ \A k \in 1 .. n - 1 : r[k] = s[k + 1]
  OBVIOUS
<1>a. PICK m \in 0 .. n : \E pos \in [0 .. m -> 0 .. NVRAM_SPACE] :
        /\ off <= pos[0] \/ m = 0
        /\ \A k \in 1 .. m : pos[k - 1] + Bytes(s[k].value) <= pos[k]
        /\ \A k \in m + 1 .. n : s[k].ifUnset
  BY DEF Room
<1>2. PICK pos \in [0 .. m -> 0 .. NVRAM_SPACE] :
        /\ off <= pos[0] \/ m = 0
        /\ \A k \in 1 .. m : pos[k - 1] + Bytes(s[k].value) <= pos[k]
        /\ \A k \in m + 1 .. n : s[k].ifUnset
  BY <1>a
<1>3. Bytes(s[1].value) \in Nat /\ NVRAM_SPACE \in Nat
  BY <1>1, LenType DEF Entry
<1> HIDE DEF n, r
<1>4. CASE m = 0
  <2>1. \A k \in 1 .. n : s[k].ifUnset
    BY <1>2, <1>4
  <2>2. \A k \in 1 .. n - 1 : r[k].ifUnset
    <3> TAKE k \in 1 .. n - 1
    <3>1. k + 1 \in 1 .. n
      BY <1>1
    <3> QED
      BY <3>1, <2>1, <1>1
  <2>3. pos \in [0 .. 0 -> 0 .. NVRAM_SPACE] /\ 0 \in 0 .. Len(r) /\ 0 + 1 = 1
    BY <1>1, <1>2, <1>4
  <2>4. Room(r, new)
    <3>1. \A k \in 0 + 1 .. Len(r) : r[k].ifUnset
      BY <2>2, <1>1
    <3>2. \A k \in 1 .. 0 : FALSE
      OBVIOUS
    <3> QED
      BY <2>3, <3>1, <3>2 DEF Room
  <2>5. s[1].ifUnset
    BY <2>1, <1>1
  <2> QED
    BY <2>4, <2>5, <1>1 DEF r
<1>5. CASE m # 0
  <2> DEFINE q == [k \in 0 .. m - 1 |-> pos[k + 1]]
  <2>1. m \in 1 .. n /\ m - 1 \in 0 .. Len(r)
    BY <1>1, <1>5
  <2>2. q \in [0 .. m - 1 -> 0 .. NVRAM_SPACE] /\ \A k \in 0 .. m - 1 : q[k] = pos[k + 1]
    BY <2>1, <1>2
  <2> HIDE DEF q
  <2>3. /\ 0 \in 0 .. m - 1 /\ 0 \in 0 .. m /\ 1 \in 0 .. m /\ 1 \in 1 .. m
        /\ 0 + 1 = 1 /\ 1 - 1 = 0
    BY <2>1
  <2>4. off <= pos[0] /\ pos[0] + Bytes(s[1].value) <= pos[1]
    BY <2>3, <1>2, <1>5
  <2>5. pos[0] \in 0 .. NVRAM_SPACE /\ pos[1] \in 0 .. NVRAM_SPACE /\ q[0] = pos[1]
    BY <2>2, <2>3
  <2>6. new <= q[0] /\ off + Bytes(s[1].value) <= NVRAM_SPACE
    BY <2>4, <2>5, <1>1, <1>3
  <2>7. ASSUME NEW k \in 1 .. m - 1 PROVE q[k - 1] + Bytes(r[k].value) <= q[k]
    <3>1. /\ k \in 0 .. m - 1 /\ k - 1 \in 0 .. m - 1 /\ (k - 1) + 1 = k
          /\ k + 1 \in 1 .. m /\ (k + 1) - 1 = k /\ k \in 1 .. n - 1
      BY <2>1, <1>1
    <3>2. q[k - 1] = pos[k] /\ q[k] = pos[k + 1] /\ r[k] = s[k + 1]
      BY <3>1, <2>2, <1>1
    <3>3. pos[(k + 1) - 1] + Bytes(s[k + 1].value) <= pos[k + 1]
      BY <3>1, <1>2
    <3> QED
      BY <3>1, <3>2, <3>3
  <2>8. ASSUME NEW k \in (m - 1) + 1 .. Len(r) PROVE r[k].ifUnset
    <3>1. k + 1 \in m + 1 .. n /\ k \in 1 .. n - 1
      BY <2>1, <1>1
    <3> QED
      BY <3>1, <1>1, <1>2
  <2>9. Room(r, new)
    BY <2>1, <2>2, <2>6, <2>7, <2>8 DEF Room
  <2> QED
    BY <2>6, <2>9, <1>1 DEF r
<1> QED
  BY <1>4, <1>5

-----------------------------------------------------------------------------
(***************************************************************************)
(* The inductive invariant: the store, the readers' pointers, the types of *)
(* the lock holder's variables, the image it packs or applies, and what    *)
(* the latest set left behind.                                             *)
(***************************************************************************)
HeaderType == [list : Seq(Pair), ptr : Nat, sdram : [SdramNames -> Value]]

Control ==
  /\ pc \in {"unlocked", "pack", "parse"}
  /\ job \in Job \cup {NULL}
  /\ (job = NULL) <=> (pc = "unlocked")
  /\ (job # NULL /\ job.op = "set") => job.name \in Name /\ job.value \in Value
  /\ bucket \in Bucket
  /\ rest \in Seq(Tuple)
  /\ header \in HeaderType
  /\ todo \in Seq(Entry)
  /\ last \in [name : Name, value : Value, ret : {0, -12}] \cup {NULL}

Images ==
  /\ header.ptr + 2 <= NVRAM_SPACE
  /\ pc = "pack" => ToSet(rest) \subseteq Live /\ FitsImage(header.list, header.ptr)
  /\ pc = "parse" => Room(todo, nvram_offset)

Latest ==
  /\ pc # "unlocked" => last = NULL
  /\ SetTakesEffect

IInv == StoreInv /\ Pointers /\ Control /\ Images /\ Latest

LEMMA BucketType == 0 \in Bucket /\ NBucket - 1 \in Bucket /\ NBucket \in Nat
BY ConstantsAssumption DEF Bucket

LEMMA NoHeaderType ==
  NoHeader \in HeaderType /\ NoHeader.ptr = HeaderSize /\ NoHeader.list = <<>>
BY ConstantsAssumption DEF NoHeader, HeaderType

LEMMA SpaceFacts ==
  /\ HeaderSize \in Nat /\ NVRAM_SPACE \in Nat /\ HeaderSize + 2 <= NVRAM_SPACE
  /\ SdramNames \subseteq Name
<1>1. SdramSeq \in Seq(Name)
  BY ConstantsAssumption
<1> QED
  BY <1>1, ConstantsAssumption DEF SdramNames, ToSet

(* The double NUL and the rounding stay inside the image.                  *)
LEMMA ImageRounded == Control /\ Images => ImageInSpace
<1> SUFFICES ASSUME Control, Images PROVE ImageInSpace
  OBVIOUS
<1>1. header.ptr \in Nat /\ header.ptr + 2 <= NVRAM_SPACE
  BY DEF Control, HeaderType, Images
<1>2. NVRAM_SPACE \in Nat /\ NVRAM_SPACE % 4 = 0
  BY ConstantsAssumption
<1>3. PICK x \in Nat : x = header.ptr + 2
  BY <1>1
<1>4. ((x + 3) \div 4) * 4 <= NVRAM_SPACE
  BY <1>1, <1>2, <1>3
<1> QED
  BY <1>1, <1>3, <1>4 DEF ImageInSpace, HeaderLen, RoundUp

LEMMA HeaderSdramType == StoreInv => HeaderSdram \in [SdramNames -> Value]
<1> SUFFICES ASSUME StoreInv PROVE HeaderSdram \in [SdramNames -> Value]
  OBVIOUS
<1>1. LookupSound
  BY LookupFacts
<1>2. CASE \A s \in SdramNames : Bound(s)
  <2>1. \A s \in SdramNames : Lookup(s) \in Value
    BY <1>1, <1>2, SpaceFacts DEF LookupSound
  <2>2. \A s \in SdramNames : Reformat[Lookup(s)] \in Value
    BY <2>1, ConstantsAssumption
  <2> QED
    BY <1>2, <2>2 DEF HeaderSdram
<1>3. CASE ~\A s \in SdramNames : Bound(s)
  BY <1>3, ConstantsAssumption DEF HeaderSdram
<1> QED
  BY <1>2, <1>3

LEMMA StoreKept ==
  ASSUME StoreInv, Pointers, UNCHANGED <<store, ptr>>
  PROVE  StoreInv' /\ Pointers' /\ Live' = Live /\ nvram_offset' = nvram_offset
<1>1. StoreInv' /\ Live' = Live /\ (\A o, w : Intact(o, w)' = Intact(o, w))
  BY StoreFrame
<1> QED
  BY <1>1, PointersFrame DEF store

LEMMA InitHolds == Init => IInv
<1> SUFFICES ASSUME Init PROVE IInv
  OBVIOUS
<1>1. Table /\ Live = {}
  <2>1. ToSet(<<>>) = {} /\ <<>> \in Seq(Tuple)
    BY DEF ToSet
  <2>2. \A b : Chain(<<>>, b)
    BY <2>1 DEF Chain
  <2> QED
    BY <2>1, <2>2 DEF Init, Table, Live
<1>2. StoreInv
  BY <1>1, LenType DEF Init, StoreInv, BufTypes, Cell, Distinct, TuplesIntact
<1>3. Pointers
  BY DEF Init, Pointers, ReaderIntact
<1>4. Latest
  BY DEF Init, Latest, SetTakesEffect
<1>5. bucket \in Bucket /\ rest \in Seq(Tuple) /\ header \in HeaderType /\ header.ptr + 2 <= NVRAM_SPACE
  BY BucketType, NoHeaderType, SpaceFacts DEF Init
<1>6. ASSUME NEW b \in BootImage, todo = Entries(b.list, b.sdram), pc = "parse",
             job = [op |-> "init", name |-> NULL, value |-> NULL]
      PROVE  Control /\ Images
  <2>1. b.list \in Seq(Pair) /\ b.sdram \in [SdramNames -> Value]
        /\ FitsImage(b.list, NVRAM_SPACE)
    BY ConstantsAssumption
  <2>2. todo \in Seq(Entry) /\ Room(todo, 0)
    BY <1>6, <2>1, EntriesFacts, RoomStart
  <2>3. job \in Job /\ job # NULL /\ job.op # "set"
    BY <1>6, ConstantsAssumption DEF Job
  <2>4. Control
    BY <1>5, <1>6, <2>2, <2>3 DEF Init, Control
  <2> QED
    BY <1>5, <1>6, <2>2, <2>4 DEF Init, Images
<1>7. ASSUME todo = <<>>, pc = "unlocked", job = NULL PROVE Control /\ Images
  BY <1>5, <1>7 DEF Init, Control, Images
<1>8. Control /\ Images
  BY <1>6, <1>7 DEF Init
<1> QED
  BY <1>2, <1>3, <1>4, <1>8 DEF IInv

(* An entry point that leaves the lock free.                               *)
LEMMA UnlockedStep ==
  ASSUME IInv, pc = "unlocked", UNCHANGED <<pc, job, scratch>>, StoreInv', Pointers',
         last' \in [name : Name, value : Value, ret : {0, -12}] \cup {NULL},
         SetTakesEffect'
  PROVE  IInv'
<1>1. Control'
  BY DEF IInv, Control, scratch
<1>2. Images'
  BY DEF IInv, Images, scratch
<1>3. Latest'
  BY DEF Latest
<1> QED
  BY <1>1, <1>2, <1>3 DEF IInv

LEMMA StartCommitKeeps ==
  ASSUME IInv, pc = "unlocked", NEW j \in Job, StartCommit(j),
         j.op = "set" => j.name \in Name /\ j.value \in Value
  PROVE  IInv'
<1>1. StoreInv' /\ Pointers' /\ Live' = Live
  BY StoreKept DEF IInv, StartCommit
<1>2. HeaderSdram \in [SdramNames -> Value]
  BY HeaderSdramType DEF IInv
<1>3. /\ header' \in HeaderType /\ header'.ptr = HeaderSize /\ header'.list = <<>>
      /\ pc' = "pack" /\ job' = j /\ bucket' = 0 /\ rest' = nvram_hash[0] /\ last' = NULL
      /\ todo' = todo
  BY <1>2, NoHeaderType DEF StartCommit, HeaderType
<1>4. nvram_hash[0] \in Seq(Tuple) /\ ToSet(nvram_hash[0]) \subseteq Live
  BY BucketType DEF IInv, StoreInv, Table, Live
<1>5. j # NULL
  BY ConstantsAssumption
<1>6. Control'
  BY <1>3, <1>4, <1>5, BucketType DEF IInv, Control
<1>7. FitsImage(<<>>, HeaderSize)
  BY SpaceFacts, FitsEmpty
<1>8. Images'
  BY <1>1, <1>3, <1>4, <1>7, SpaceFacts DEF Images
<1>9. Latest'
  BY <1>3 DEF Latest, SetTakesEffect
<1> QED
  BY <1>1, <1>6, <1>8, <1>9 DEF IInv

LEMMA PackTupleKeeps ==
  ASSUME IInv, PackTuple
  PROVE  IInv'
<1> DEFINE t == Head(rest)
           e == [name |-> t.name, value |-> StringAt(t.value)]
           size == PackedSize(t)
<1>1. /\ pc = "pack" /\ rest # <<>> /\ pc' = "pack"
      /\ UNCHANGED <<store, pc, job, bucket, todo, last, ptr>>
      /\ \/ rest' = <<>> /\ header' = header
         \/ /\ ~(header.ptr + size > PackEnd)
            /\ header' = [header EXCEPT !.ptr = @ + size, !.list = Append(@, e)]
            /\ rest' = Tail(rest)
  BY DEF PackTuple
<1>2. StoreInv' /\ Pointers' /\ Live' = Live
  BY <1>1, StoreKept DEF IInv
<1>3. /\ rest \in Seq(Tuple) /\ header \in HeaderType /\ header.ptr + 2 <= NVRAM_SPACE
      /\ ToSet(rest) \subseteq Live /\ FitsImage(header.list, header.ptr)
  BY <1>1 DEF IInv, Control, Images
<1>4. /\ t \in Tuple /\ Tail(rest) \in Seq(Tuple) /\ t \in ToSet(rest)
      /\ ToSet(Tail(rest)) \subseteq ToSet(rest)
  <2>1. /\ Len(rest) \in Nat \ {0} /\ t = rest[1] /\ Tail(rest) \in Seq(Tuple)
        /\ Len(Tail(rest)) = Len(rest) - 1
        /\ \A k \in 1 .. Len(rest) - 1 : Tail(rest)[k] = rest[k + 1]
    BY <1>1, <1>3
  <2>2. \A k \in 1 .. Len(rest) - 1 : k + 1 \in 1 .. Len(rest)
    BY <2>1
  <2>3. DOMAIN rest = 1 .. Len(rest) /\ DOMAIN Tail(rest) = 1 .. Len(rest) - 1
    BY <2>1, <1>3
  <2>4. t \in ToSet(rest)
    BY <2>1, <2>3 DEF ToSet
  <2> QED
    BY <2>1, <2>2, <2>3, <2>4, <1>3 DEF ToSet
<1>5. PICK v \in Value : Intact(t.value, v)
  BY <1>3, <1>4 DEF IInv, StoreInv, TuplesIntact
<1>6. StringAt(t.value) = v
  BY <1>5, StringsFacts DEF StringsUnique, Intact
<1>7. /\ e \in Pair /\ size = NameLen[e.name] + 1 + Bytes(e.value)
      /\ size \in Nat /\ NameLen[e.name] \in Nat /\ Bytes(e.value) \in Nat
  BY <1>4, <1>6, LenType, NameLenType DEF Pair, Tuple, PackedSize
<1> HIDE DEF t, e, size
<1>8. CASE rest' = <<>> /\ header' = header
  <2>1. Control'
    BY <1>1, <1>8 DEF IInv, Control
  <2>2. ToSet(rest') = {}
    BY <1>8 DEF ToSet
  <2>3. Images'
    BY <1>1, <1>3, <1>8, <2>2 DEF Images
  <2>4. Latest'
    BY <1>1 DEF IInv, Latest, SetTakesEffect
  <2> QED
    BY <1>2, <2>1, <2>3, <2>4 DEF IInv
<1>9. CASE /\ ~(header.ptr + size > PackEnd)
           /\ header' = [header EXCEPT !.ptr = @ + size, !.list = Append(@, e)]
           /\ rest' = Tail(rest)
  <2>1. header.ptr \in Nat /\ header.list \in Seq(Pair) /\ header.ptr + size + 2 <= NVRAM_SPACE
    BY <1>3, <1>7, <1>9, SpaceFacts DEF HeaderType, PackEnd
  <2>2. /\ header' \in HeaderType /\ header'.ptr = header.ptr + size
        /\ header'.list = Append(header.list, e)
    <3>a. Append(header.list, e) \in Seq(Pair)
      BY <1>7, <2>1, AppendProperties
    <3>b. header.ptr + size \in Nat
      BY <1>7, <2>1
    <3>1. PICK l \in Seq(Pair), q \in Nat : l = Append(header.list, e) /\ q = header.ptr + size
      BY <3>a, <3>b
    <3>2. header' = [header EXCEPT !.ptr = q, !.list = l]
      BY <1>9, <3>1
    <3> QED
      BY <1>3, <3>1, <3>2 DEF HeaderType
  <2>3. FitsImage(Append(header.list, e), header.ptr + size)
    <3>1. PICK q \in Nat : q = header.ptr + size
      BY <1>7, <2>1
    <3>2. header.ptr + NameLen[e.name] + 1 + Bytes(e.value) <= q
      BY <1>7, <2>1, <3>1
    <3>3. FitsImage(Append(header.list, e), q)
      BY <1>3, <1>7, <2>1, <3>2, FitsAppend
    <3> QED
      BY <3>1, <3>3
  <2>4. Control'
    BY <1>1, <1>4, <1>9, <2>2 DEF IInv, Control
  <2>5. Images'
    BY <1>1, <1>2, <1>3, <1>4, <1>9, <2>1, <2>2, <2>3 DEF Images
  <2>6. Latest'
    BY <1>1 DEF IInv, Latest, SetTakesEffect
  <2> QED
    BY <1>2, <2>4, <2>5, <2>6 DEF IInv
<1> QED
  BY <1>1, <1>8, <1>9

LEMMA PackNextBucketKeeps ==
  ASSUME IInv, PackNextBucket
  PROVE  IInv'
<1>1. /\ pc = "pack" /\ bucket + 1 \in Bucket /\ bucket' = bucket + 1
      /\ rest' = nvram_hash[bucket + 1]
      /\ UNCHANGED <<store, pc, job, header, todo, last, ptr>>
  BY BucketType DEF PackNextBucket, IInv, Control, Bucket
<1>2. StoreInv' /\ Pointers' /\ Live' = Live
  BY <1>1, StoreKept DEF IInv
<1>3. rest' \in Seq(Tuple) /\ ToSet(rest') \subseteq Live
  BY <1>1 DEF IInv, StoreInv, Table, Live
<1>4. Control'
  BY <1>1, <1>3 DEF IInv, Control
<1>5. Images'
  BY <1>1, <1>2, <1>3 DEF IInv, Images
<1>6. Latest'
  BY <1>1 DEF IInv, Latest, SetTakesEffect
<1> QED
  BY <1>2, <1>4, <1>5, <1>6 DEF IInv

LEMMA StartRehashKeeps ==
  ASSUME IInv, StartRehash
  PROVE  IInv'
<1>1. /\ pc = "pack" /\ nvram_free /\ pc' = "parse"
      /\ todo' = Entries(header.list, header.sdram)
      /\ UNCHANGED <<job, bucket, rest, header, last>>
  BY DEF StartRehash
<1>2. StoreInv' /\ Pointers' /\ nvram_offset' = 0
  BY <1>1, FreeStore
<1>3. /\ header.list \in Seq(Pair) /\ header.sdram \in [SdramNames -> Value]
      /\ header.ptr \in Nat /\ header.ptr <= NVRAM_SPACE
      /\ FitsImage(header.list, header.ptr)
  BY <1>1, SpaceFacts DEF IInv, Control, Images, HeaderType
<1>4. FitsImage(header.list, NVRAM_SPACE)
  BY <1>3, SpaceFacts, FitsLonger
<1>5. todo' \in Seq(Entry) /\ Room(todo', 0)
  BY <1>1, <1>3, <1>4, EntriesFacts, RoomStart
<1>6. Control'
  BY <1>1, <1>5 DEF IInv, Control
<1>7. Images'
  BY <1>1, <1>2, <1>5 DEF IInv, Images, Room
<1>8. Latest'
  BY <1>1 DEF IInv, Latest, SetTakesEffect
<1> QED
  BY <1>2, <1>6, <1>7, <1>8 DEF IInv

LEMMA RehashEntryKeeps ==
  ASSUME IInv, RehashEntry
  PROVE  IInv'
<1> DEFINE e == Head(todo)
<1>1. /\ pc = "parse" /\ todo # <<>> /\ todo' = Tail(todo)
      /\ UNCHANGED <<pc, job, bucket, rest, header, last, ptr>>
      /\ UNCHANGED store \/ \E ok \in KmallocOutcome : TrySet(e.name, e.value, ok)
  BY DEF RehashEntry
<1>2. todo \in Seq(Entry) /\ Room(todo, nvram_offset) /\ nvram_offset \in Nat
  BY <1>1 DEF IInv, Control, Images, StoreInv, BufTypes
<1>3. e \in Entry /\ Tail(todo) \in Seq(Entry)
  BY <1>1, <1>2
<1>4. /\ StoreInv'
      /\ \A o \in Nat : \A w \in Value : Intact(o, w) => Intact(o, w)'
      /\ nvram_offset' <= nvram_offset + Bytes(e.value)
  <2>1. CASE UNCHANGED store
    <3>1. nvram_offset' <= nvram_offset + Bytes(e.value)
      BY <2>1, <1>2, <1>3, LenType DEF store, Entry
    <3> QED
      BY <2>1, <3>1, StoreFrame DEF IInv
  <2>2. ASSUME NEW ok \in KmallocOutcome, TrySet(e.name, e.value, ok)
        PROVE  /\ StoreInv'
               /\ \A o \in Nat : \A w \in Value : Intact(o, w) => Intact(o, w)'
               /\ nvram_offset' <= nvram_offset + Bytes(e.value)
    <3>1. e.name \in Name /\ e.value \in Value
      BY <1>3 DEF Entry
    <3> HIDE DEF e
    <3> QED
      BY <2>2, <3>1, TrySetStore DEF IInv
  <2> QED
    BY <1>1, <2>1, <2>2
<1>5. Pointers'
  BY <1>1, <1>4, PointersFrame DEF IInv
<1>6. nvram_offset' \in Nat
  BY <1>4, LenType DEF StoreInv, BufTypes
<1>7. Room(Tail(todo), nvram_offset')
  BY <1>1, <1>2, <1>4, <1>6, RoomTail
<1>8. Control'
  BY <1>1, <1>3 DEF IInv, Control
<1>9. Images'
  BY <1>1, <1>7 DEF IInv, Images, Room
<1>10. Latest'
  BY <1>1 DEF IInv, Latest, SetTakesEffect
<1> QED
  BY <1>4, <1>5, <1>8, <1>9, <1>10 DEF IInv

LEMMA ResultFacts ==
  ASSUME NEW n \in Name, NEW v \in Value, NEW r \in {0, -12}
  PROVE  /\ Result(n, v, r) \in [name : Name, value : Value, ret : {0, -12}]
         /\ Result(n, v, r).name = n /\ Result(n, v, r).value = v /\ Result(n, v, r).ret = r
BY DEF Result

(* The lock is released after a rehash.                                    *)
LEMMA EndRehashKeeps ==
  ASSUME IInv, pc = "parse", todo = <<>>, EndRehash, StoreInv', Pointers',
         last' \in [name : Name, value : Value, ret : {0, -12}] \cup {NULL},
         SetTakesEffect'
  PROVE  IInv'
<1>1. /\ pc' = "unlocked" /\ job' = NULL /\ bucket' = 0 /\ header' = NoHeader
      /\ UNCHANGED <<rest, todo>>
  BY DEF EndRehash
<1>2. Control'
  BY <1>1, BucketType, NoHeaderType DEF IInv, Control
<1>3. Images'
  BY <1>1, NoHeaderType, SpaceFacts DEF Images
<1>4. Latest'
  BY <1>1 DEF Latest
<1> QED
  BY <1>2, <1>3, <1>4 DEF IInv

LEMMA RehashDoneKeeps ==
  ASSUME IInv, RehashDone
  PROVE  IInv'
<1>1. /\ pc = "parse" /\ todo = <<>> /\ EndRehash
      /\ UNCHANGED <<store, ptr, last>> /\ last = NULL
  BY DEF RehashDone, EndRehash, IInv, Latest
<1>2. StoreInv' /\ Pointers'
  BY <1>1, StoreKept DEF IInv
<1>3. SetTakesEffect'
  BY <1>1 DEF SetTakesEffect
<1> QED
  BY <1>1, <1>2, <1>3, EndRehashKeeps

LEMMA RetrySetKeeps ==
  ASSUME IInv, RetrySet
  PROVE  IInv'
<1>1. PICK ok \in KmallocOutcome :
        /\ pc = "parse" /\ todo = <<>> /\ job.op = "set" /\ EndRehash /\ ptr' = ptr
        /\ TrySet(job.name, job.value, ok)
        /\ last' = Result(job.name, job.value,
                          IF Allocatable(job.name, job.value, ok) THEN 0 ELSE -12)
  BY DEF RetrySet, EndRehash
<1>2. PICK n \in Name, v \in Value : n = job.name /\ v = job.value
  BY <1>1 DEF IInv, Control
<1>3. /\ StoreInv'
      /\ Allocatable(n, v, ok) => Assigned(n, v)
      /\ \A o \in Nat : \A w \in Value : Intact(o, w) => Intact(o, w)'
  BY <1>1, <1>2, TrySetStore DEF IInv
<1>4. Pointers'
  BY <1>1, <1>3, PointersFrame DEF IInv
<1>5. CASE Allocatable(n, v, ok)
  <2>1. last' = Result(n, v, 0)
    BY <1>1, <1>2, <1>5
  <2>2. SetTakesEffect'
    BY <1>3, <1>5, <2>1, ResultFacts DEF SetTakesEffect, Assigned
  <2> QED
    BY <1>1, <1>3, <1>4, <2>1, <2>2, ResultFacts, EndRehashKeeps
<1>6. CASE ~Allocatable(n, v, ok)
  <2>1. last' = Result(n, v, -12)
    BY <1>1, <1>2, <1>6
  <2>2. SetTakesEffect'
    BY <2>1, ResultFacts DEF SetTakesEffect
  <2> QED
    BY <1>1, <1>3, <1>4, <2>1, <2>2, ResultFacts, EndRehashKeeps
<1> QED
  BY <1>5, <1>6

LEMMA SetKeeps ==
  ASSUME IInv, NEW n \in Name, NEW v \in Value, nvram_set(n, v)
  PROVE  IInv'
<1>1. pc = "unlocked"
  BY DEF nvram_set
<1>2. ASSUME NEW ok \in KmallocOutcome, Allocatable(n, v, ok), _nvram_set(n, v),
             last' = Result(n, v, 0), UNCHANGED <<pc, job, scratch, ptr>>
      PROVE  IInv'
  <2>1. StoreInv' /\ Assigned(n, v)
    BY <1>2, SetStore DEF Allocatable, IInv
  <2>2. Pointers'
    BY <1>2, <2>1, PointersFrame DEF IInv, Assigned
  <2>3. SetTakesEffect'
    BY <1>2, <2>1, ResultFacts DEF SetTakesEffect, Assigned
  <2> QED
    BY <1>1, <1>2, <2>1, <2>2, <2>3, ResultFacts, UnlockedStep
<1>3. ASSUME StartCommit([op |-> "set", name |-> n, value |-> v]) PROVE IInv'
  <2>1. PICK j \in Job : j = [op |-> "set", name |-> n, value |-> v]
    BY DEF Job
  <2>2. j.name \in Name /\ j.value \in Value
    BY <2>1
  <2> QED
    BY <1>1, <1>3, <2>1, <2>2, StartCommitKeeps
<1>4. ASSUME last' = Result(n, v, -12), UNCHANGED <<store, pc, job, scratch, ptr>>
      PROVE  IInv'
  <2>1. StoreInv' /\ Pointers'
    BY <1>4, StoreKept DEF IInv
  <2>2. SetTakesEffect'
    BY <1>4, ResultFacts DEF SetTakesEffect
  <2> QED
    BY <1>1, <1>4, <2>1, <2>2, ResultFacts, UnlockedStep
<1> QED
  BY <1>2, <1>3, <1>4 DEF nvram_set

LEMMA CfeSetKeeps ==
  ASSUME IInv, NEW n \in Name, NEW v \in Value, CfeSet(n, v)
  PROVE  IInv'
<1>1. /\ pc = "unlocked" /\ last' = NULL /\ UNCHANGED <<pc, job, scratch, ptr>>
      /\ \E ok \in KmallocOutcome : TrySet(n, v, ok)
  BY DEF CfeSet
<1>2. StoreInv' /\ \A o \in Nat : \A w \in Value : Intact(o, w) => Intact(o, w)'
  BY <1>1, TrySetStore DEF IInv
<1>3. Pointers'
  BY <1>1, <1>2, PointersFrame DEF IInv
<1>4. SetTakesEffect'
  BY <1>1 DEF SetTakesEffect
<1> QED
  BY <1>1, <1>2, <1>3, <1>4, UnlockedStep

LEMMA UnsetKeeps ==
  ASSUME IInv, NEW n \in Name, nvram_unset(n)
  PROVE  IInv'
<1>1. /\ pc = "unlocked" /\ Bound(n) /\ _nvram_unset(n) /\ last' = NULL
      /\ UNCHANGED <<nvram_buf, nvram_offset, pc, job, scratch, ptr>>
  BY DEF nvram_unset
<1>2. StoreInv' /\ \A o, w : Intact(o, w)' = Intact(o, w)
  BY <1>1, UnsetStore DEF IInv
<1>3. Pointers'
  BY <1>1, <1>2, PointersFrame DEF IInv
<1>4. SetTakesEffect'
  BY <1>1 DEF SetTakesEffect
<1> QED
  BY <1>1, <1>2, <1>3, <1>4, UnlockedStep

LEMMA GetKeeps ==
  ASSUME IInv, NEW r \in Reader, NEW n \in Name, nvram_get(r, n)
  PROVE  IInv'
<1> DEFINE p == IF Bound(n) THEN [off |-> _nvram_get(n), val |-> Lookup(n)] ELSE NULL
<1>1. /\ pc = "unlocked" /\ ptr' = [ptr EXCEPT ![r] = p]
      /\ UNCHANGED <<store, pc, job, scratch, last>>
  BY DEF nvram_get
<1>2. StoreInv' /\ \A o, w : Intact(o, w)' = Intact(o, w)
  BY <1>1, StoreFrame DEF IInv
<1>3. /\ p \in [off : 0 .. NVRAM_SPACE - 1, val : Value] \cup {NULL}
      /\ p # NULL => Intact(p.off, p.val)
  <2>1. LookupSound /\ LiveSound
    BY LookupFacts, LiveFacts DEF IInv, StoreInv
  <2>2. CASE Bound(n)
    <3>1. PICK t \in Live : _nvram_get(n) = t.value /\ Intact(t.value, Lookup(n))
      BY <2>1, <2>2 DEF LookupSound
    <3>2. t.value \in 0 .. NVRAM_SPACE - 1
      BY <2>1, <3>1 DEF LiveSound, Tuple
    <3>3. Lookup(n) \in Value
      BY <2>1, <2>2 DEF LookupSound
    <3> QED
      BY <2>2, <3>1, <3>2, <3>3
  <2>3. CASE ~Bound(n)
    BY <2>3
  <2> QED
    BY <2>2, <2>3
<1> HIDE DEF p
<1>4. Pointers'
  <2>1. ptr' \in [Reader -> [off : 0 .. NVRAM_SPACE - 1, val : Value] \cup {NULL}]
    BY <1>1, <1>3 DEF IInv, Pointers
  <2>2. ASSUME NEW q \in Reader, ptr'[q] # NULL PROVE Intact(ptr'[q].off, ptr'[q].val)
    <3>1. CASE q = r
      BY <2>2, <3>1, <1>1, <1>3 DEF IInv, Pointers
    <3>2. CASE q # r
      BY <2>2, <3>2, <1>1 DEF IInv, Pointers, ReaderIntact
    <3> QED
      BY <3>1, <3>2
  <2>3. ReaderIntact'
    BY <2>2, <1>2 DEF ReaderIntact
  <2> QED
    BY <2>1, <2>3 DEF Pointers
<1>5. last' \in [name : Name, value : Value, ret : {0, -12}] \cup {NULL}
  BY <1>1 DEF IInv, Control
<1>6. SetTakesEffect'
  <2>1. \A m \in Name : Lookup(m)' = Lookup(m)
    BY <1>2, <1>1, StoreFrame, SameLookup DEF IInv
  <2>2. last # NULL => last.name \in Name
    BY DEF IInv, Control
  <2> QED
    BY <1>1, <2>1, <2>2 DEF IInv, Latest, SetTakesEffect
<1> QED
  BY <1>1, <1>2, <1>4, <1>5, <1>6, UnlockedStep

LEMMA CommitKeeps ==
  ASSUME IInv, nvram_commit
  PROVE  IInv'
<1>1. PICK j \in Job : j = [op |-> "commit", name |-> NULL, value |-> NULL]
  BY DEF Job
<1>2. j.op # "set"
  BY <1>1
<1> QED
  BY <1>1, <1>2, StartCommitKeeps DEF nvram_commit

LEMMA StutterKeeps ==
  ASSUME IInv, UNCHANGED vars
  PROVE  IInv'
<1>1. UNCHANGED <<store, ptr>> /\ UNCHANGED <<pc, job, scratch, last>>
  BY DEF vars
<1>2. StoreInv' /\ Pointers' /\ Live' = Live /\ nvram_offset' = nvram_offset
  BY <1>1, StoreKept DEF IInv
<1>3. Control'
  BY <1>1 DEF IInv, Control, scratch
<1>4. Images'
  BY <1>1, <1>2 DEF IInv, Images, Room, scratch
<1>5. \A m \in Name : Lookup(m)' = Lookup(m)
  BY <1>1, StoreFrame, SameLookup DEF IInv
<1>6. Latest'
  <2>1. last # NULL => last.name \in Name
    BY DEF IInv, Control
  <2> QED
    BY <1>1, <1>5, <2>1 DEF IInv, Latest, SetTakesEffect
<1> QED
  BY <1>2, <1>3, <1>4, <1>6 DEF IInv

LEMMA NextKeeps == IInv /\ [Next]_vars => IInv'
<1> SUFFICES ASSUME IInv, [Next]_vars PROVE IInv'
  OBVIOUS
<1>1. CASE Next
  BY <1>1, SetKeeps, CfeSetKeeps, UnsetKeeps, GetKeeps, CommitKeeps, PackTupleKeeps,
     PackNextBucketKeeps, StartRehashKeeps, RehashEntryKeeps, RehashDoneKeeps, RetrySetKeeps
     DEF Next
<1> QED
  BY <1>1, StutterKeeps

LEMMA Invariant == Spec => []IInv
BY InitHolds, NextKeeps, PTL DEF Spec

-----------------------------------------------------------------------------
(* What the invariant says of the properties of NvramStore.                *)

LEMMA TypeImplied == IInv => TypeOK
BY DEF IInv, StoreInv, Table, BufTypes, Pointers, Control, HeaderType, TypeOK

LEMMA RoomImplied == IInv => RehashHasRoom
<1> SUFFICES ASSUME IInv, pc = "parse", todo # <<>>, ~Head(todo).ifUnset
             PROVE  HasRoom(Head(todo).value)
  BY DEF RehashHasRoom
<1>1. todo \in Seq(Entry) /\ Room(todo, nvram_offset) /\ nvram_offset \in Nat
  BY DEF IInv, Control, Images, StoreInv, BufTypes
<1>2. Head(todo) \in Entry
  BY <1>1
<1>3. Bytes(Head(todo).value) \in Nat
  BY <1>2, LenType DEF Entry
<1>4. nvram_offset <= nvram_offset + Bytes(Head(todo).value)
  BY <1>1, <1>3
<1> QED
  BY <1>1, <1>4, RoomTail DEF HasRoom

(* Live and dead tuples have their own first bytes below nvram_offset.     *)
LEMMA BoundImplied == IInv => TuplesBounded
<1> SUFFICES ASSUME IInv PROVE TuplesBounded
  OBVIOUS
<1> DEFINE S == {t.value : t \in Live}
           T == 0 .. nvram_offset - 1
           f == [t \in Live |-> t.value]
<1>1. nvram_offset \in Nat /\ nvram_offset <= NVRAM_SPACE
  BY LenType DEF IInv, StoreInv, BufTypes
<1>2. IsFiniteSet(T) /\ Cardinality(T) = nvram_offset
  BY <1>1, FS_Interval
<1>3. ASSUME NEW o \in S \cup nvram_dead PROVE o \in T
  <2>1. o \in Nat
    <3>1. CASE o \in nvram_dead
      BY <3>1, LenType DEF IInv, StoreInv
    <3>2. CASE o \in S
      <4>1. PICK t \in Live : o = t.value
        BY <3>2
      <4>2. t \in Tuple
        BY <4>1, LiveFacts DEF LiveSound, IInv, StoreInv
      <4> QED
        BY <4>1, <4>2, LenType DEF Tuple
    <3> QED
      BY <3>1, <3>2
  <2>2. PICK v \in Value : Intact(o, v)
    BY DEF IInv, StoreInv, TuplesIntact
  <2>3. o + Bytes(v) <= nvram_offset /\ Bytes(v) \in Nat \ {0}
    BY <2>2, LenType DEF Intact
  <2> QED
    BY <1>1, <2>1, <2>3
<1>4. S \cap nvram_dead = {}
  BY DEF IInv, StoreInv, Distinct
<1>5. f \in Injection(Live, S)
  <2>1. f \in [Live -> S] /\ DOMAIN f = Live
    OBVIOUS
  <2>2. \A t, u \in Live : f[t] = f[u] => t = u
    BY DEF IInv, StoreInv, Distinct
  <2> HIDE DEF f
  <2> QED
    BY <2>1, <2>2 DEF Injection, IsInjective
<1> HIDE DEF S, T, f
<1>6. S \cup nvram_dead \subseteq T
  BY <1>3
<1>7. IsFiniteSet(S) /\ IsFiniteSet(nvram_dead) /\ IsFiniteSet(S \cup nvram_dead)
  BY <1>2, <1>6, FS_Subset
<1>8. Cardinality(S \cup nvram_dead) <= nvram_offset
  BY <1>2, <1>6, FS_Subset
<1>9. Cardinality(S \cup nvram_dead) = Cardinality(S) + Cardinality(nvram_dead)
  <2>1. Cardinality(S \cup nvram_dead) =
          Cardinality(S) + Cardinality(nvram_dead) - Cardinality(S \cap nvram_dead)
    BY <1>7, FS_Union
  <2>2. Cardinality(S \cap nvram_dead) = 0
    BY <1>4, FS_EmptySet
  <2>3. Cardinality(S) \in Nat /\ Cardinality(nvram_dead) \in Nat
    BY <1>7, FS_CardinalityType
  <2> QED
    BY <2>1, <2>2, <2>3
<1>10. Cardinality(Live) <= Cardinality(S) /\ Cardinality(Live) \in Nat
  <2>1. IsFiniteSet(Live) /\ Cardinality(Live) <= Cardinality(S)
    BY <1>5, <1>7, FS_Injection
  <2> QED
    BY <2>1, FS_CardinalityType
<1>11. Cardinality(S) \in Nat /\ Cardinality(nvram_dead) \in Nat
  BY <1>7, FS_CardinalityType
<1> QED
  BY <1>1, <1>8, <1>9, <1>10, <1>11 DEF TuplesBounded

-----------------------------------------------------------------------------
\* The hash table, the buffer and the variables of the lock holder keep their
\* shape, whatever is set, unset, read and committed.
THEOREM TypeCorrect == Spec => []TypeOK
BY Invariant, TypeImplied, PTL

\* _nvram_realloc never writes over a string that a live or dead tuple refers
\* to, for every size of the buffer and every sequence of calls.
THEOREM TuplesKept == Spec => []TuplesIntact
<1>1. IInv => TuplesIntact
  BY DEF IInv, StoreInv
<1> QED
  BY <1>1, Invariant, PTL

\* A pointer nvram_get has returned reads the value it was returned for until
\* the next rehash.
THEOREM ReadersKept == Spec => []ReaderIntact
<1>1. IInv => ReaderIntact
  BY DEF IInv, Pointers
<1> QED
  BY <1>1, Invariant, PTL

\* _nvram_set, _nvram_unset and nvram_rehash keep every tuple on the chain its
\* name hashes to, and no name bound twice, whatever the hash function.
THEOREM ChainsKept == Spec => []ChainsSound
<1>1. IInv => ChainsSound
  BY TableSound DEF IInv, StoreInv
<1> QED
  BY <1>1, Invariant, PTL

\* The packing loop of _nvram_commit and the length it stores stay within
\* NVRAM_SPACE.
THEOREM ImageBounded == Spec => []ImageInSpace
<1>1. IInv => ImageInSpace
  BY ImageRounded DEF IInv
<1> QED
  BY <1>1, Invariant, PTL

\* Whatever _nvram_commit packed, or nvram_rehash found in flash, fits the
\* buffer again, entry by entry.
THEOREM RehashFits == Spec => []RehashHasRoom
BY Invariant, RoomImplied, PTL

\* A set that returns 0 can be read back, also after a consolidation.
THEOREM SetsTakeEffect == Spec => []SetTakesEffect
<1>1. IInv => SetTakesEffect
  BY DEF IInv, Latest
<1> QED
  BY <1>1, Invariant, PTL

\* The tuples of the store, dead ones included, are never more than the bytes
\* of the buffer.
THEOREM TuplesAreBounded == Spec => []TuplesBounded
BY Invariant, BoundImplied, PTL
=============================================================================
