--------------------------- MODULE NvramMapProofs ---------------------------
(***************************************************************************)
(* The store of NvramStore implements the map of NvramMap, for every set   *)
(* of names and values, hash function and buffer, as long as everything    *)
(* fits.  Packing visits every tuple once, and applying the image gives    *)
(* every variable back its value.                                          *)
(***************************************************************************)
EXTENDS NvramStoreProofs

-----------------------------------------------------------------------------
(***************************************************************************)
(* The walk of _nvram_commit: which tuples it has packed.                  *)
(***************************************************************************)
Packed == {header.list[k].name : k \in DOMAIN header.list}

Visited ==
  \A t \in Live : Hash[t.name] < bucket \/ (Hash[t.name] = bucket /\ t \notin ToSet(rest))
                    => t.name \in Packed

PackedValues ==
  \A k \in DOMAIN header.list :
    /\ Hash[header.list[k].name] <= bucket
    /\ Bound(header.list[k].name)
    /\ Lookup(header.list[k].name) = header.list[k].value

PackedOnce ==
  \A j, k \in DOMAIN header.list : header.list[j].name = header.list[k].name => j = k

Unpacked ==
  /\ \A t \in ToSet(rest) : Hash[t.name] = bucket /\ t.name \notin Packed
  /\ \A j, k \in DOMAIN rest : rest[j].name = rest[k].name => j = k

Packing == pc = "pack" => Visited /\ PackedValues /\ PackedOnce /\ Unpacked

(***************************************************************************)
(* The loop of nvram_rehash: the entries of the image, each name once,     *)
(* come before the sdram parameters.                                       *)
(***************************************************************************)
Ordered(s) ==
  /\ \A j, k \in DOMAIN s : ~s[j].ifUnset /\ ~s[k].ifUnset /\ s[j].name = s[k].name => j = k
  /\ \A j, k \in DOMAIN s : j <= k /\ s[j].ifUnset => s[k].ifUnset
  /\ \A k \in DOMAIN s : s[k].ifUnset => s[k].name \in SdramNames

Parsing == Ordered(todo) /\ (pc # "parse" => todo = <<>>)

RInv == Packing /\ Parsing

(* The value of a variable, without the choice of an entry.                *)
Waits(k, n) == todo[k].name = n /\ ~todo[k].ifUnset

MapSound ==
  \A n \in Name :
    /\ \A k \in DOMAIN todo : Waits(k, n) => MapValue(n) = todo[k].value
    /\ (\A k \in DOMAIN todo : ~Waits(k, n)) => MapValue(n) = Lookup(n)

LEMMA MapFacts == Parsing => MapSound
<1> SUFFICES ASSUME Parsing, NEW n \in Name
             PROVE  /\ \A k \in DOMAIN todo : Waits(k, n) => MapValue(n) = todo[k].value
                    /\ (\A k \in DOMAIN todo : ~Waits(k, n)) => MapValue(n) = Lookup(n)
  BY DEF MapSound
<1> DEFINE W == {k \in DOMAIN todo : todo[k].name = n /\ ~todo[k].ifUnset}
<1>1. MapValue(n) = IF W = {} THEN Lookup(n) ELSE todo[CHOOSE k \in W : TRUE].value
  BY DEF MapValue
<1>2. ASSUME NEW k \in DOMAIN todo, Waits(k, n) PROVE W = {k}
  BY <1>2 DEF Waits, Parsing, Ordered
<1>3. ASSUME NEW k \in DOMAIN todo, Waits(k, n) PROVE MapValue(n) = todo[k].value
  <2>1. W = {k}
    BY <1>2, <1>3
  <2> HIDE DEF W
  <2>2. (CHOOSE j \in W : TRUE) = k
    BY <2>1
  <2> QED
    BY <1>1, <2>1, <2>2
<1>4. ASSUME \A k \in DOMAIN todo : ~Waits(k, n) PROVE MapValue(n) = Lookup(n)
  BY <1>1, <1>4 DEF Waits
<1> QED
  BY <1>3, <1>4

LEMMA MapFactsNext == Parsing' => MapSound'
BY MapFacts, PTL

LEMMA NothingWaits ==
  ASSUME Parsing, todo = <<>>
  PROVE  \A n \in Name : MapValue(n) = Lookup(n)
BY MapFacts DEF MapSound

LEMMA NothingWaitsNext ==
  ASSUME Parsing', todo' = <<>>
  PROVE  \A n \in Name : MapValue(n)' = Lookup(n)'
BY MapFactsNext DEF MapSound

(* The tail of a list, entry by entry.                                     *)
LEMMA TailFacts ==
  ASSUME NEW S, NEW s \in Seq(S), s # <<>>
  PROVE  /\ Head(s) = s[1] /\ 1 \in DOMAIN s /\ Head(s) \in S
         /\ Tail(s) \in Seq(S)
         /\ \A k \in DOMAIN Tail(s) : k + 1 \in DOMAIN s /\ Tail(s)[k] = s[k + 1] /\ k \in Nat
         /\ \A k \in DOMAIN s : k # 1 => k - 1 \in DOMAIN Tail(s) /\ s[k] = Tail(s)[k - 1]
         /\ DOMAIN s \subseteq Nat
<1>1. /\ Len(s) \in Nat \ {0} /\ Head(s) = s[1] /\ Tail(s) \in Seq(S)
      /\ Len(Tail(s)) = Len(s) - 1
      /\ \A k \in 1 .. Len(s) - 1 : Tail(s)[k] = s[k + 1]
  OBVIOUS
<1>2. DOMAIN s = 1 .. Len(s) /\ DOMAIN Tail(s) = 1 .. Len(s) - 1
  BY <1>1
<1>3. \A k \in 1 .. Len(s) - 1 : k + 1 \in 1 .. Len(s) /\ k \in Nat
  BY <1>1
<1>4. ASSUME NEW k \in 1 .. Len(s), k # 1
      PROVE  k - 1 \in 1 .. Len(s) - 1 /\ s[k] = Tail(s)[k - 1]
  <2>1. k - 1 \in 1 .. Len(s) - 1 /\ (k - 1) + 1 = k
    BY <1>1, <1>4
  <2> QED
    BY <2>1, <1>1
<1>5. 1 \in DOMAIN s /\ Head(s) \in S /\ DOMAIN s \subseteq Nat
  BY <1>1, <1>2
<1> QED
  BY <1>1, <1>2, <1>3, <1>4, <1>5

(* Nothing a lookup reads changes.                                         *)
LEMMA SameLookups ==
  ASSUME UNCHANGED store
  PROVE  /\ Live' = Live
         /\ \A n : Bound(n)' = Bound(n) /\ Lookup(n)' = Lookup(n)
BY DEF store, Live, Bound, Positions, Lookup, StringAt, _nvram_get, Pos, Holds

(* The tuples on a chain are the live ones that hash to it.                *)
LEMMA ChainLive ==
  ASSUME Table, NEW b \in Bucket
  PROVE  \A t : t \in ToSet(nvram_hash[b]) <=> t \in Live /\ Hash[t.name] = b
<1>1. ASSUME NEW c \in Bucket, NEW t \in ToSet(nvram_hash[c]) PROVE Hash[t.name] = c
  BY DEF Table, Chain, ToSet
<1>2. \A t : t \in Live <=> \E c \in Bucket : t \in ToSet(nvram_hash[c])
  BY DEF Live
<1> QED
  BY <1>1, <1>2
(* The entries of an image whose names are distinct.                       *)
LEMMA EntriesOrder ==
  ASSUME NEW list \in Seq(Pair), NEW sdram \in [SdramNames -> Value],
         \A j, k \in DOMAIN list : list[j].name = list[k].name => j = k,
         NEW s, s = Entries(list, sdram)
  PROVE  Ordered(s)
<1> DEFINE m == Len(list)
           n == Len(SdramSeq)
<1>1. /\ s \in Seq(Entry) /\ Len(s) = m + n /\ m \in Nat /\ n \in Nat
      /\ \A k \in 1 .. m : s[k] = [name |-> list[k].name, value |-> list[k].value,
                                      ifUnset |-> FALSE]
      /\ \A k \in 1 .. n : s[m + k] = [name |-> SdramSeq[k], value |-> sdram[SdramSeq[k]],
                                          ifUnset |-> TRUE]
  BY EntriesFacts, ConstantsAssumption
<1>2. DOMAIN s = 1 .. m + n /\ DOMAIN list = 1 .. m
  BY <1>1
<1> HIDE DEF m, n
<1>3. \A k \in DOMAIN s :
        \/ k \in 1 .. m /\ s[k].name = list[k].name /\ ~s[k].ifUnset
        \/ k > m /\ s[k].ifUnset /\ s[k].name \in SdramNames
  <2> SUFFICES ASSUME NEW k \in 1 .. m + n
               PROVE  \/ k \in 1 .. m /\ s[k].name = list[k].name /\ ~s[k].ifUnset
                      \/ k > m /\ s[k].ifUnset /\ s[k].name \in SdramNames
    BY <1>2
  <2>1. CASE k \in 1 .. m
    <3>1. s[k] = [name |-> list[k].name, value |-> list[k].value, ifUnset |-> FALSE]
      BY <2>1, <1>1
    <3> QED
      BY <2>1, <3>1
  <2>2. CASE k \notin 1 .. m
    <3>1. PICK i \in 1 .. n : k = m + i
      <4>1. k - m \in 1 .. n /\ k = m + (k - m)
        BY <2>2, <1>1
      <4> QED
        BY <4>1
    <3>2. SdramSeq[i] \in SdramNames
      <4>1. SdramSeq \in Seq(Name) /\ i \in 1 .. Len(SdramSeq)
        BY ConstantsAssumption DEF n
      <4>2. i \in DOMAIN SdramSeq
        BY <4>1
      <4> QED
        BY <4>2 DEF SdramNames, ToSet
    <3>3. k > m
      BY <2>2, <1>1
    <3>4. s[k] = [name |-> SdramSeq[i], value |-> sdram[SdramSeq[i]], ifUnset |-> TRUE]
      BY <3>1, <1>1
    <3> QED
      BY <3>2, <3>3, <3>4
  <2> QED
    BY <2>1, <2>2
<1>4. \A j, k \in DOMAIN s : ~s[j].ifUnset /\ ~s[k].ifUnset /\ s[j].name = s[k].name => j = k
  BY <1>2, <1>3
<1>5. \A j, k \in DOMAIN s : j <= k /\ s[j].ifUnset => s[k].ifUnset
  <2>1. \A j, k \in 1 .. m + n : j <= k /\ j > m => ~(k \in 1 .. m)
    BY <1>1
  <2>2. \A k \in 1 .. m : ~(k > m)
    BY <1>1
  <2> QED
    BY <2>1, <2>2, <1>2, <1>3
<1> QED
  BY <1>3, <1>4, <1>5 DEF Ordered
-----------------------------------------------------------------------------
(***************************************************************************)
(* The walk and the loop keep to that.                                     *)
(***************************************************************************)
LEMMA MapInit ==
  ASSUME DistinctImages, Init
  PROVE  RInv
<1>1. CASE pc = "unlocked"
  BY <1>1 DEF Init, RInv, Packing, Parsing, Ordered
<1>2. CASE pc # "unlocked"
  <2>1. PICK b \in BootImage : todo = Entries(b.list, b.sdram) /\ pc = "parse"
    BY <1>2 DEF Init
  <2>2. b.list \in Seq(Pair) /\ b.sdram \in [SdramNames -> Value]
    BY <2>1, ConstantsAssumption
  <2>3. \A j, k \in DOMAIN b.list : b.list[j].name = b.list[k].name => j = k
    BY <2>1 DEF DistinctImages
  <2> QED
    BY <2>1, <2>2, <2>3, EntriesOrder DEF RInv, Packing, Parsing
<1> QED
  BY <1>1, <1>2

(* Whoever does not hold the lock leaves it alone.                         *)
LEMMA UnlockedMap ==
  ASSUME RInv, pc = "unlocked", UNCHANGED <<pc, scratch>>
  PROVE  RInv'
BY DEF RInv, Packing, Parsing, Ordered, scratch

LEMMA StartCommitMap ==
  ASSUME IInv, RInv, pc = "unlocked", NEW j, StartCommit(j)
  PROVE  RInv'
<1>1. /\ pc' = "pack" /\ bucket' = 0 /\ rest' = nvram_hash[0] /\ header'.list = <<>>
      /\ UNCHANGED store /\ todo' = todo /\ todo = <<>>
  BY DEF StartCommit, NoHeader, RInv, Parsing
<1>2. Table /\ 0 \in Bucket
  BY BucketType DEF IInv, StoreInv
<1>3. Live' = Live
  BY <1>1, SameLookups
<1>4. \A t : t \in ToSet(rest') <=> t \in Live /\ Hash[t.name] = 0
  BY <1>1, <1>2, ChainLive
<1>5. ASSUME NEW t \in Live PROVE ~(Hash[t.name] < 0)
  <2>1. Hash[t.name] \in Bucket
    BY <1>2, LiveFacts, HashType DEF LiveSound, Tuple
  <2> QED
    BY <2>1, BucketType DEF Bucket
<1>6. Visited'
  BY <1>1, <1>3, <1>4, <1>5 DEF Visited
<1>7. Packed' = {} /\ DOMAIN header'.list = {}
  BY <1>1 DEF Packed
<1>8. PackedValues' /\ PackedOnce'
  BY <1>7 DEF PackedValues, PackedOnce
<1>9. Unpacked'
  BY <1>1, <1>2, <1>4, <1>7 DEF Unpacked, Table, Chain
<1>10. Parsing'
  BY <1>1 DEF Parsing, Ordered
<1> QED
  BY <1>6, <1>8, <1>9, <1>10 DEF RInv, Packing

LEMMA PackTupleMap ==
  ASSUME IInv, RInv, AllFits, PackTuple
  PROVE  RInv'
<1> DEFINE e == [name |-> Head(rest).name, value |-> StringAt(Head(rest).value)]
<1>1. /\ pc = "pack" /\ rest # <<>> /\ pc' = "pack" /\ todo' = todo /\ todo = <<>>
      /\ UNCHANGED <<store, bucket>>
  BY DEF PackTuple, RInv, Parsing
<1>2. /\ rest \in Seq(Tuple) /\ header.list \in Seq(Pair) /\ ToSet(rest) \subseteq Live
      /\ Visited /\ PackedValues /\ PackedOnce /\ Unpacked
  BY <1>1 DEF IInv, Control, HeaderType, Images, RInv, Packing
<1>3. PICK t \in Tuple : t = Head(rest)
  BY <1>1, <1>2
<1>4. t \in Live /\ t \in ToSet(rest) /\ t = rest[1] /\ 1 \in DOMAIN rest
  BY <1>1, <1>2, <1>3, TailFacts DEF ToSet
<1>5. ~(header.ptr + PackedSize(t) > PackEnd)
  <2>1. header.ptr + PackedSize(t) <= PackEnd
    BY <1>1, <1>3 DEF AllFits
  <2>2. PICK v \in Value : StringAt(t.value) = v
    BY <1>4, StringsFacts DEF IInv, StoreInv, TuplesIntact, Intact, StringsUnique
  <2>3. PackedSize(t) \in Nat /\ header.ptr \in Nat /\ PackEnd \in Int
    BY <2>2, <1>3, LenType, NameLenType, SpaceFacts
       DEF PackedSize, PackEnd, Tuple, IInv, Control, HeaderType
  <2> QED
    BY <2>1, <2>3
<1>6. /\ header' = [header EXCEPT !.ptr = @ + PackedSize(t), !.list = Append(@, e)]
      /\ rest' = Tail(rest)
  BY <1>3, <1>5 DEF PackTuple
<1>7. PICK l : l = header.list
  OBVIOUS
<1>8. /\ e.name = t.name /\ e.value = StringAt(t.value)
  BY <1>3
<1> HIDE DEF e
<1>9. header'.list = Append(l, e)
  BY <1>6, <1>7 DEF IInv, Control, HeaderType
<1>10. /\ DOMAIN l = 1 .. Len(l) /\ Len(l) \in Nat
       /\ DOMAIN Append(l, e) = 1 .. Len(l) + 1
       /\ \A k \in 1 .. Len(l) : Append(l, e)[k] = l[k]
       /\ Append(l, e)[Len(l) + 1] = e
  BY <1>2, <1>7
<1>11. Live' = Live /\ \A n : Bound(n)' = Bound(n) /\ Lookup(n)' = Lookup(n)
  BY <1>1, SameLookups
<1>12. Bound(t.name) /\ Lookup(t.name) = e.value /\ Hash[t.name] = bucket /\ t.name \notin Packed
  <2>1. Bound(t.name) /\ _nvram_get(t.name) = t.value
    BY <1>3, <1>4, LiveFacts DEF IInv, StoreInv, LiveSound, Tuple
  <2> QED
    BY <2>1, <1>2, <1>4, <1>8 DEF Lookup, Unpacked
<1>13. Packed' = Packed \cup {t.name}
  <2>1. \A k \in 1 .. Len(l) + 1 : k \in 1 .. Len(l) \/ k = Len(l) + 1
    BY <1>10
  <2>2. 1 .. Len(l) \subseteq 1 .. Len(l) + 1 /\ Len(l) + 1 \in 1 .. Len(l) + 1
    BY <1>10
  <2> QED
    BY <2>1, <2>2, <1>7, <1>8, <1>9, <1>10 DEF Packed
<1>14. \A u : u \in ToSet(rest) <=> u = t \/ u \in ToSet(Tail(rest))
  <2>1. ASSUME NEW u \in ToSet(rest), u # t PROVE u \in ToSet(Tail(rest))
    <3>1. PICK k \in DOMAIN rest : u = rest[k]
      BY DEF ToSet
    <3>2. k - 1 \in DOMAIN Tail(rest) /\ u = Tail(rest)[k - 1]
      BY <2>1, <3>1, <1>1, <1>2, <1>4, TailFacts
    <3> QED
      BY <3>2 DEF ToSet
  <2>2. \A u \in ToSet(Tail(rest)) : u \in ToSet(rest)
    BY <1>1, <1>2, TailFacts DEF ToSet
  <2> QED
    BY <2>1, <2>2, <1>4
<1>15. Visited'
  BY <1>1, <1>2, <1>6, <1>11, <1>13, <1>14 DEF Visited
<1>16. PackedValues'
  <2> SUFFICES ASSUME NEW k \in 1 .. Len(l) + 1
               PROVE  /\ Hash[Append(l, e)[k].name] <= bucket
                      /\ Bound(Append(l, e)[k].name)
                      /\ Lookup(Append(l, e)[k].name) = Append(l, e)[k].value
    BY <1>1, <1>9, <1>10, <1>11 DEF PackedValues
  <2>1. CASE k \in 1 .. Len(l)
    BY <2>1, <1>2, <1>7, <1>10 DEF PackedValues
  <2>2. CASE k = Len(l) + 1
    <3>1. bucket <= bucket
      BY BucketType DEF IInv, Control, Bucket
    <3> QED
      BY <2>2, <3>1, <1>8, <1>10, <1>12
  <2> QED
    BY <2>1, <2>2, <1>10
<1>17. PackedOnce'
  <2> SUFFICES ASSUME NEW j \in 1 .. Len(l) + 1, NEW k \in 1 .. Len(l) + 1,
                      Append(l, e)[j].name = Append(l, e)[k].name
               PROVE  j = k
    BY <1>9, <1>10 DEF PackedOnce
  <2>1. \A i \in 1 .. Len(l) : l[i].name # t.name
    BY <1>7, <1>10, <1>12 DEF Packed
  <2>2. \A i \in 1 .. Len(l) + 1 : i \in 1 .. Len(l) \/ i = Len(l) + 1
    BY <1>10
  <2> QED
    BY <2>1, <2>2, <1>2, <1>7, <1>8, <1>10 DEF PackedOnce
<1>18. Unpacked'
  <2>1. \A j, k \in DOMAIN rest : rest[j].name = rest[k].name => j = k
    BY <1>2 DEF Unpacked
  <2>2. \A j, k \in DOMAIN Tail(rest) : Tail(rest)[j].name = Tail(rest)[k].name => j = k
    BY <2>1, <1>1, <1>2, TailFacts
  <2>3. ASSUME NEW u \in ToSet(Tail(rest)) PROVE u.name # t.name
    <3>1. PICK k \in DOMAIN Tail(rest) : u = Tail(rest)[k]
      BY DEF ToSet
    <3>2. k + 1 \in DOMAIN rest /\ u = rest[k + 1] /\ k + 1 # 1
      BY <3>1, <1>1, <1>2, TailFacts
    <3> QED
      BY <3>2, <2>1, <1>4
  <2> QED
    BY <2>2, <2>3, <1>1, <1>2, <1>6, <1>13, <1>14 DEF Unpacked
<1>19. Parsing'
  BY <1>1 DEF Parsing, Ordered
<1> QED
  BY <1>15, <1>16, <1>17, <1>18, <1>19 DEF RInv, Packing

LEMMA PackNextBucketMap ==
  ASSUME IInv, RInv, PackNextBucket
  PROVE  RInv'
<1>1. /\ pc = "pack" /\ rest = <<>> /\ bucket + 1 \in Bucket /\ bucket' = bucket + 1
      /\ rest' = nvram_hash[bucket + 1] /\ bucket \in Nat
      /\ UNCHANGED <<store, pc, header, todo>>
  BY BucketType DEF PackNextBucket, IInv, Control, Bucket
<1>2. Table /\ Visited /\ PackedValues /\ PackedOnce
  BY <1>1 DEF IInv, StoreInv, RInv, Packing
<1>3. Live' = Live /\ \A n : Bound(n)' = Bound(n) /\ Lookup(n)' = Lookup(n)
  BY <1>1, SameLookups
<1>4. \A t : t \in ToSet(rest') <=> t \in Live /\ Hash[t.name] = bucket + 1
  BY <1>1, <1>2, ChainLive
<1>5. Packed' = Packed
  BY <1>1 DEF Packed
<1>6. \A t \in Live : Hash[t.name] \in Nat
  <2>1. \A t \in Live : Hash[t.name] \in Bucket
    BY <1>2, LiveFacts, HashType DEF LiveSound, Tuple
  <2> QED
    BY <2>1, BucketType DEF Bucket
<1>7. Visited'
  <2>1. \A t \in Live : Hash[t.name] <= bucket => t.name \in Packed
    <3>1. ToSet(rest) = {}
      BY <1>1 DEF ToSet
    <3> QED
      BY <3>1, <1>1, <1>2, <1>6 DEF Visited
  <2> SUFFICES ASSUME NEW t \in Live, Hash[t.name] < bucket + 1 PROVE t.name \in Packed
    BY <1>1, <1>3, <1>4, <1>5 DEF Visited
  <2> QED
    BY <2>1, <1>1, <1>6
<1>8. header.list \in Seq(Pair)
  BY DEF IInv, Control, HeaderType
<1>9. \A k \in DOMAIN header.list : Hash[header.list[k].name] \in Nat
  <2>1. ASSUME NEW k \in DOMAIN header.list PROVE Hash[header.list[k].name] \in Bucket
    <3>1. header.list[k] \in Pair
      BY <1>8
    <3> QED
      BY <3>1, HashType DEF Pair
  <2> QED
    BY <2>1, BucketType DEF Bucket
<1>10. \A k \in DOMAIN header.list : /\ Hash[header.list[k].name] <= bucket + 1
                                     /\ Hash[header.list[k].name] # bucket + 1
  BY <1>1, <1>2, <1>9 DEF PackedValues
<1>11. PackedValues' /\ PackedOnce'
  BY <1>1, <1>2, <1>3, <1>10 DEF PackedValues, PackedOnce
<1>12. Unpacked'
  <2>1. ASSUME NEW t \in ToSet(rest'), t.name \in Packed PROVE FALSE
    <3>1. PICK k \in DOMAIN header.list : t.name = header.list[k].name
      BY <2>1 DEF Packed
    <3> QED
      BY <2>1, <3>1, <1>4, <1>10
  <2>2. \A j, k \in DOMAIN rest' : rest'[j].name = rest'[k].name => j = k
    BY <1>1, <1>2 DEF Table, Chain
  <2> QED
    BY <2>1, <2>2, <1>1, <1>4, <1>5 DEF Unpacked
<1>13. Parsing'
  BY <1>1 DEF RInv, Parsing, Ordered
<1> QED
  BY <1>7, <1>11, <1>12, <1>13 DEF RInv, Packing
(* The image is applied from its start; an entry is taken off.             *)
LEMMA StartRehashMap ==
  ASSUME IInv, RInv, StartRehash
  PROVE  RInv'
<1>1. /\ pc = "pack" /\ pc' = "parse" /\ todo' = Entries(header.list, header.sdram)
  BY DEF StartRehash
<1>2. header.list \in Seq(Pair) /\ header.sdram \in [SdramNames -> Value] /\ PackedOnce
  BY <1>1 DEF IInv, Control, HeaderType, RInv, Packing
<1>3. Ordered(todo')
  <2>1. PICK l \in Seq(Pair), w \in [SdramNames -> Value] : l = header.list /\ w = header.sdram
    BY <1>2
  <2>2. \A j, k \in DOMAIN l : l[j].name = l[k].name => j = k
    BY <1>2, <2>1 DEF PackedOnce
  <2> QED
    BY <1>1, <2>1, <2>2, EntriesOrder
<1> QED
  BY <1>1, <1>3 DEF RInv, Packing, Parsing, Ordered

LEMMA OrderedTail ==
  ASSUME NEW s \in Seq(Entry), s # <<>>, Ordered(s)
  PROVE  Ordered(Tail(s))
<1>1. \A k \in DOMAIN Tail(s) : k + 1 \in DOMAIN s /\ Tail(s)[k] = s[k + 1] /\ k \in Nat
  BY TailFacts
<1> PICK r : r = Tail(s)
  OBVIOUS
<1>2. \A k \in DOMAIN r : k + 1 \in DOMAIN s /\ r[k] = s[k + 1] /\ k \in Nat
  BY <1>1
<1>3. \A j, k \in Nat : (j + 1 = k + 1 => j = k) /\ (j <= k => j + 1 <= k + 1)
  OBVIOUS
<1> QED
  BY <1>2, <1>3 DEF Ordered

LEMMA RehashMap ==
  ASSUME IInv, RInv, RehashEntry \/ RehashDone \/ RetrySet
  PROVE  RInv'
<1>1. CASE RehashEntry
  <2>1. pc = "parse" /\ pc' = "parse" /\ todo # <<>> /\ todo' = Tail(todo)
    BY <1>1 DEF RehashEntry
  <2>2. Ordered(todo')
    BY <2>1, OrderedTail DEF IInv, Control, RInv, Parsing
  <2> QED
    BY <2>1, <2>2 DEF RInv, Packing, Parsing, Ordered
<1>2. CASE RehashDone \/ RetrySet
  BY <1>2 DEF RehashDone, RetrySet, EndRehash, RInv, Packing, Parsing, Ordered
<1> QED
  BY <1>1, <1>2

LEMMA MapNext == IInv /\ RInv /\ AllFits /\ [Next]_vars => RInv'
<1> SUFFICES ASSUME IInv, RInv, AllFits, [Next]_vars PROVE RInv'
  OBVIOUS
<1>1. CASE \E n \in Name, v \in Value : nvram_set(n, v)
  BY <1>1, UnlockedMap, StartCommitMap DEF nvram_set
<1>2. CASE \/ \E n \in Name, v \in Value : CfeSet(n, v)
           \/ \E n \in Name : nvram_unset(n)
           \/ \E r \in Reader, n \in Name : nvram_get(r, n)
  BY <1>2, UnlockedMap DEF CfeSet, nvram_unset, nvram_get
<1>3. CASE nvram_commit
  BY <1>3, StartCommitMap DEF nvram_commit
<1>4. CASE PackTuple \/ PackNextBucket \/ StartRehash
  BY <1>4, PackTupleMap, PackNextBucketMap, StartRehashMap
<1>5. CASE RehashEntry \/ RehashDone \/ RetrySet
  BY <1>5, RehashMap
<1>6. CASE UNCHANGED vars
  <2>1. UNCHANGED <<store, pc, bucket, rest, header, todo>>
    BY <1>6 DEF vars, scratch
  <2>2. Live' = Live /\ \A n : Bound(n)' = Bound(n) /\ Lookup(n)' = Lookup(n)
    BY <2>1, SameLookups
  <2>3. Packed' = Packed
    BY <2>1 DEF Packed
  <2>4. Packing'
    BY <2>1, <2>2, <2>3 DEF RInv, Packing, Visited, PackedValues, PackedOnce, Unpacked
  <2> QED
    BY <2>1, <2>4 DEF RInv, Parsing, Ordered
<1> QED
  BY <1>1, <1>2, <1>3, <1>4, <1>5, <1>6 DEF Next

-----------------------------------------------------------------------------
(***************************************************************************)
(* What a step does to the map.                                            *)
(***************************************************************************)
LEMMA SameMap ==
  ASSUME job' = job, \A n \in Name : MapValue(n)' = MapValue(n)
  PROVE  UNCHANGED Map!vars
BY DEF Map!vars

LEMMA ChangedMap ==
  ASSUME NEW n \in Name, NEW v, MapValue(n)' = v,
         \A m \in Name \ {n} : MapValue(m)' = MapValue(m)
  PROVE  [m \in Name |-> MapValue(m)]' = [[m \in Name |-> MapValue(m)] EXCEPT ![n] = v]
OBVIOUS

LEMMA SetMap ==
  ASSUME IInv, RInv, RInv', KmallocOutcome = {TRUE}, NEW n \in Name, NEW v \in Value,
         nvram_set(n, v) \/ CfeSet(n, v)
  PROVE  [Map!Next]_(Map!vars)
<1>1. pc = "unlocked" /\ job = NULL /\ todo = <<>>
  BY DEF nvram_set, CfeSet, IInv, Control, RInv, Parsing
<1>2. \A m \in Name : MapValue(m) = Lookup(m)
  BY <1>1, NothingWaits DEF RInv
<1>3. todo' = <<>>
  BY <1>1 DEF nvram_set, CfeSet, StartCommit, scratch
<1>4. \A m \in Name : MapValue(m)' = Lookup(m)'
  BY <1>3, NothingWaitsNext DEF RInv
<1>5. ASSUME HasRoom(v), _nvram_set(n, v), job' = job PROVE Map!Next
  <2>1. Assigned(n, v)
    BY <1>5, SetStore DEF IInv
  <2>2. MapValue(n)' = v /\ \A m \in Name \ {n} : MapValue(m)' = MapValue(m)
    BY <2>1, <1>2, <1>4 DEF Assigned
  <2>3. Map!Set(n, v)
    BY <1>1, <1>5, <2>2, ChangedMap DEF Map!Set
  <2> QED
    BY <2>3 DEF Map!Next
<1>6. ASSUME UNCHANGED <<store, job>> PROVE UNCHANGED Map!vars
  <2>1. \A m \in Name : MapValue(m)' = MapValue(m)
    BY <1>2, <1>4, <1>6, SameLookups
  <2> QED
    BY <1>6, <2>1, SameMap
<1>7. ASSUME StartCommit([op |-> "set", name |-> n, value |-> v]) PROVE Map!Next
  <2>1. UNCHANGED store /\ job' = [op |-> "set", name |-> n, value |-> v]
    BY <1>7 DEF StartCommit
  <2>2. \A m \in Name : MapValue(m)' = MapValue(m)
    BY <1>2, <1>4, <2>1, SameLookups
  <2>3. Map!BeginSet(n, v)
    BY <1>1, <2>1, <2>2 DEF Map!BeginSet
  <2> QED
    BY <2>3 DEF Map!Next
<1>8. CASE nvram_set(n, v)
  BY <1>5, <1>7, <1>8 DEF nvram_set, Allocatable
<1>9. CASE CfeSet(n, v)
  BY <1>5, <1>6, <1>9 DEF CfeSet, TrySet, Allocatable
<1> QED
  BY <1>8, <1>9
LEMMA UnsetMap ==
  ASSUME IInv, IInv', RInv, RInv', NEW n \in Name, nvram_unset(n)
  PROVE  Map!Next
<1>1. /\ pc = "unlocked" /\ job = NULL /\ todo = <<>> /\ todo' = <<>> /\ job' = job
      /\ Bound(n) /\ _nvram_unset(n) /\ UNCHANGED <<nvram_buf, nvram_offset>>
  BY DEF nvram_unset, scratch, IInv, Control, RInv, Parsing
<1>2. \A m \in Name : MapValue(m) = Lookup(m) /\ MapValue(m)' = Lookup(m)'
  BY <1>1, NothingWaits, NothingWaitsNext DEF RInv
<1>3. /\ ~Bound(n)'
      /\ \A m \in Name \ {n} : Lookup(m)' = Lookup(m)
  BY <1>1, UnsetStore DEF IInv
<1>4. Lookup(n)' = NULL
  BY <1>3 DEF Lookup
<1>5. Map!Unset(n)
  BY <1>1, <1>2, <1>3, <1>4, ChangedMap DEF Map!Unset
<1> QED
  BY <1>5 DEF Map!Next

LEMMA CommitMap ==
  ASSUME IInv, RInv, RInv', nvram_commit
  PROVE  Map!Next
<1>1. /\ pc = "unlocked" /\ job = NULL /\ todo = <<>> /\ todo' = <<>> /\ UNCHANGED store
      /\ job' = [op |-> "commit", name |-> NULL, value |-> NULL]
  BY DEF nvram_commit, StartCommit, IInv, Control, RInv, Parsing
<1>2. \A m \in Name : MapValue(m)' = MapValue(m)
  BY <1>1, NothingWaits, NothingWaitsNext, SameLookups DEF RInv
<1>3. Map!BeginCommit
  BY <1>1, <1>2 DEF Map!BeginCommit
<1> QED
  BY <1>3 DEF Map!Next

(* Reading and packing.                                                    *)
LEMMA QuietMap ==
  ASSUME UNCHANGED <<store, job, todo>>
  PROVE  UNCHANGED Map!vars
<1>1. \A n \in Name : MapValue(n)' = MapValue(n)
  BY SameLookups DEF MapValue
<1> QED
  BY <1>1, SameMap

(* The table is freed when every variable is in the image.                 *)
LEMMA AllPacked ==
  ASSUME IInv, RInv, pc = "pack", rest = <<>>, bucket = NBucket - 1
  PROVE  \A n \in Name : Bound(n) <=> n \in Packed
<1>1. Visited /\ PackedValues /\ ToSet(rest) = {}
  BY DEF RInv, Packing, ToSet
<1>2. ASSUME NEW n \in Name, Bound(n) PROVE n \in Packed
  <2>1. PICK t \in Live : t.name = n
    BY <1>2, LiveFacts DEF IInv, StoreInv, LiveSound
  <2>2. Hash[n] < bucket \/ Hash[n] = bucket
    BY HashType, BucketType DEF Bucket
  <2> QED
    BY <1>1, <2>1, <2>2 DEF Visited
<1>3. ASSUME NEW n \in Name, n \in Packed PROVE Bound(n)
  BY <1>1, <1>3 DEF Packed, PackedValues
<1> QED
  BY <1>2, <1>3

LEMMA StartRehashStep ==
  ASSUME IInv, RInv, RInv', StartRehash
  PROVE  UNCHANGED Map!vars
<1>1. /\ pc = "pack" /\ rest = <<>> /\ bucket = NBucket - 1 /\ job' = job
      /\ nvram_free /\ todo' = Entries(header.list, header.sdram) /\ todo = <<>>
  BY DEF StartRehash, RInv, Parsing
<1>2. PICK l \in Seq(Pair), w \in [SdramNames -> Value] : l = header.list /\ w = header.sdram
  BY DEF IInv, Control, HeaderType
<1>3. /\ todo' \in Seq(Entry) /\ Len(todo') = Len(l) + Len(SdramSeq)
      /\ \A k \in 1 .. Len(l) :
           todo'[k] = [name |-> l[k].name, value |-> l[k].value, ifUnset |-> FALSE]
      /\ \A k \in 1 .. Len(SdramSeq) :
           todo'[Len(l) + k] = [name |-> SdramSeq[k], value |-> w[SdramSeq[k]], ifUnset |-> TRUE]
      /\ Len(l) \in Nat /\ Len(SdramSeq) \in Nat
  <2>1. todo' = Entries(l, w)
    BY <1>1, <1>2
  <2>2. Len(l) \in Nat /\ Len(SdramSeq) \in Nat
    BY <1>2, ConstantsAssumption
  <2> QED
    BY <2>1, <2>2, EntriesFacts
<1>4. DOMAIN todo' = 1 .. Len(l) + Len(SdramSeq) /\ DOMAIN l = 1 .. Len(l)
  BY <1>2, <1>3
<1>5. \A k \in 1 .. Len(l) :
        k \in DOMAIN todo' /\ todo'[k].name = l[k].name /\ todo'[k].value = l[k].value
          /\ ~todo'[k].ifUnset
  <2> SUFFICES ASSUME NEW k \in 1 .. Len(l)
               PROVE  /\ k \in DOMAIN todo'
                      /\ todo'[k].name = l[k].name /\ todo'[k].value = l[k].value
                      /\ ~todo'[k].ifUnset
    OBVIOUS
  <2>1. todo'[k] = [name |-> l[k].name, value |-> l[k].value, ifUnset |-> FALSE]
    BY <1>3
  <2>2. k \in DOMAIN todo'
    BY <1>3, <1>4
  <2> QED
    BY <2>1, <2>2
<1>6. \A k \in DOMAIN todo' : k \notin 1 .. Len(l) => todo'[k].ifUnset
  <2> SUFFICES ASSUME NEW k \in 1 .. Len(l) + Len(SdramSeq), k \notin 1 .. Len(l)
               PROVE  todo'[k].ifUnset
    BY <1>4
  <2>1. k - Len(l) \in 1 .. Len(SdramSeq) /\ k = Len(l) + (k - Len(l))
    BY <1>3
  <2>2. PICK i \in 1 .. Len(SdramSeq) : k = Len(l) + i
    BY <2>1
  <2>3. todo'[k] = [name |-> SdramSeq[i], value |-> w[SdramSeq[i]], ifUnset |-> TRUE]
    BY <2>2, <1>3
  <2> QED
    BY <2>3
<1>7. \A n \in Name : ~Bound(n)'
  BY <1>1, FreeStore
<1>8. MapSound' /\ \A n \in Name : MapValue(n) = Lookup(n)
  BY <1>1, NothingWaits, MapFactsNext DEF RInv
<1>9. ASSUME NEW n \in Name PROVE MapValue(n)' = MapValue(n)
  <2>1. CASE Bound(n)
    <3>1. PICK k \in DOMAIN l : l[k].name = n
      BY <2>1, <1>1, <1>2, AllPacked DEF Packed
    <3>2. Lookup(n) = l[k].value
      BY <3>1, <1>1, <1>2 DEF RInv, Packing, PackedValues
    <3>3. Waits(k, n)' /\ k \in DOMAIN todo' /\ todo'[k].value = l[k].value
      BY <3>1, <1>4, <1>5 DEF Waits
    <3> QED
      BY <3>2, <3>3, <1>8 DEF MapSound
  <2>2. CASE ~Bound(n)
    <3>1. \A k \in DOMAIN l : l[k].name # n
      BY <2>2, <1>1, <1>2, AllPacked DEF Packed
    <3>2. \A k \in DOMAIN todo' : ~Waits(k, n)'
      BY <3>1, <1>4, <1>5, <1>6 DEF Waits
    <3>3. MapValue(n)' = Lookup(n)'
      BY <3>2, <1>8 DEF MapSound
    <3>4. Lookup(n)' = NULL /\ Lookup(n) = NULL
      BY <2>2, <1>7 DEF Lookup
    <3> QED
      BY <3>3, <3>4, <1>8
  <2> QED
    BY <2>1, <2>2
<1> QED
  BY <1>1, <1>9, SameMap

(* An entry is taken off the list: the others wait as before.              *)
LEMMA RestWaits ==
  ASSUME IInv, RInv, RInv', todo # <<>>, todo' = Tail(todo),
         NEW n \in Name, ~Waits(1, n), Lookup(n)' = Lookup(n)
  PROVE  MapValue(n)' = MapValue(n)
<1>1. todo \in Seq(Entry)
  BY DEF IInv, Control
<1>2. MapSound /\ MapSound'
  BY MapFacts, MapFactsNext DEF RInv
<1>3. /\ \A k \in DOMAIN todo' : k + 1 \in DOMAIN todo /\ todo'[k] = todo[k + 1]
      /\ \A k \in DOMAIN todo : k # 1 => k - 1 \in DOMAIN todo' /\ todo[k] = todo'[k - 1]
  BY <1>1, TailFacts
<1>4. CASE \E k \in DOMAIN todo : Waits(k, n)
  <2>1. PICK k \in DOMAIN todo : Waits(k, n)
    BY <1>4
  <2>2. k # 1
    BY <2>1
  <2>3. k - 1 \in DOMAIN todo' /\ todo[k] = todo'[k - 1]
    BY <1>3, <2>2
  <2>4. PICK i \in DOMAIN todo' : i = k - 1
    BY <2>3
  <2>5. Waits(i, n)' /\ todo'[i].value = todo[k].value
    BY <2>1, <2>3, <2>4 DEF Waits
  <2> QED
    BY <1>2, <2>1, <2>4, <2>5 DEF MapSound
<1>5. CASE \A k \in DOMAIN todo : ~Waits(k, n)
  <2>1. \A k \in DOMAIN todo' : ~Waits(k, n)'
    BY <1>3, <1>5 DEF Waits
  <2> QED
    BY <1>2, <1>5, <2>1 DEF MapSound
<1> QED
  BY <1>4, <1>5

LEMMA RehashEntryStep ==
  ASSUME IInv, RInv, RInv', KmallocOutcome = {TRUE}, RehashEntry
  PROVE  [Map!Next]_(Map!vars)
<1>1. /\ pc = "parse" /\ todo # <<>> /\ todo' = Tail(todo) /\ job' = job /\ job # NULL
      /\ todo \in Seq(Entry)
  BY DEF RehashEntry, IInv, Control
<1>2. PICK e \in Entry : e = Head(todo)
  BY <1>1
<1>3. e = todo[1] /\ 1 \in DOMAIN todo /\ e.name \in Name /\ e.value \in Value
  BY <1>1, <1>2, TailFacts DEF Entry
<1>4. /\ \A k \in DOMAIN todo' : k + 1 \in DOMAIN todo /\ todo'[k] = todo[k + 1] /\ k \in Nat
  BY <1>1, TailFacts
<1>5. MapSound /\ MapSound' /\ Ordered(todo)
  BY MapFacts, MapFactsNext DEF RInv, Parsing
<1>6. \A n \in Name : Waits(1, n) <=> (n = e.name /\ ~e.ifUnset)
  BY <1>3 DEF Waits
<1>7. CASE e.ifUnset /\ Bound(e.name)
  <2>1. UNCHANGED store
    BY <1>2, <1>7 DEF RehashEntry
  <2>2. \A n \in Name : MapValue(n)' = MapValue(n)
    BY <2>1, <1>1, <1>6, <1>7, SameLookups, RestWaits
  <2> QED
    BY <2>2, <1>1, SameMap
<1>8. CASE ~(e.ifUnset /\ Bound(e.name))
  <2>1. TrySet(e.name, e.value, TRUE)
    BY <1>2, <1>8 DEF RehashEntry
  <2>2. CASE HasRoom(e.value)
    <3>1. Assigned(e.name, e.value)
      BY <2>1, <2>2, <1>3, TrySetStore DEF IInv, Allocatable
    <3>2. \A m \in Name \ {e.name} : MapValue(m)' = MapValue(m)
      BY <3>1, <1>1, <1>6, RestWaits DEF Assigned
    <3>3. \A k \in DOMAIN todo' : ~Waits(k, e.name)'
      <4> SUFFICES ASSUME NEW k \in DOMAIN todo', Waits(k, e.name)' PROVE FALSE
        OBVIOUS
      <4>1. /\ k + 1 \in DOMAIN todo /\ todo[k + 1].name = e.name /\ ~todo[k + 1].ifUnset
            /\ k + 1 # 1 /\ 1 <= k + 1
        <5>1. k \in Nat /\ k + 1 \in DOMAIN todo /\ todo'[k] = todo[k + 1]
          BY <1>4
        <5>3. todo' \in Seq(Entry)
          BY <1>1, TailFacts
        <5>4. k # 0
          BY <5>3
        <5>2. todo'[k].name = e.name /\ ~todo'[k].ifUnset
          BY DEF Waits
        <5> QED
          BY <5>1, <5>2, <5>4
      <4>2. ~e.ifUnset
        BY <4>1, <1>3, <1>5 DEF Ordered
      <4> QED
        BY <4>1, <4>2, <1>3, <1>5 DEF Ordered
    <3>4. MapValue(e.name)' = e.value
      BY <3>1, <3>3, <1>3, <1>5 DEF MapSound, Assigned
    <3>5. CASE ~e.ifUnset
      <4>1. MapValue(e.name) = e.value
        BY <3>5, <1>3, <1>5 DEF MapSound, Waits
      <4>2. \A n \in Name : MapValue(n)' = MapValue(n)
        BY <3>2, <3>4, <4>1
      <4> QED
        BY <4>2, <1>1, SameMap
    <3>6. CASE e.ifUnset
      <4>1. \A k \in DOMAIN todo : ~Waits(k, e.name)
        <5>1. \A k \in DOMAIN todo : 1 <= k
          BY <1>1
        <5> QED
          BY <5>1, <3>6, <1>3, <1>5 DEF Ordered, Waits
      <4>2. MapValue(e.name) = NULL
        BY <4>1, <3>6, <1>3, <1>5, <1>8 DEF MapSound, Lookup
      <4>3. e.name \in SdramNames
        BY <3>6, <1>3, <1>5 DEF Ordered
      <4>4. Map!FillSdram(e.name, e.value)
        BY <3>2, <3>4, <4>2, <4>3, <1>1, <1>3, ChangedMap DEF Map!FillSdram
      <4> QED
        BY <4>4, <1>3 DEF Map!Next
    <3> QED
      BY <3>5, <3>6
  <2>3. CASE ~HasRoom(e.value)
    <3>1. UNCHANGED store
      BY <2>1, <2>3 DEF TrySet, Allocatable
    <3>2. e.ifUnset
      BY <2>3, <1>1, <1>2, RoomImplied DEF RehashHasRoom
    <3>3. \A n \in Name : MapValue(n)' = MapValue(n)
      BY <3>1, <3>2, <1>1, <1>6, SameLookups, RestWaits
    <3> QED
      BY <3>3, <1>1, SameMap
  <2> QED
    BY <2>2, <2>3
<1> QED
  BY <1>7, <1>8

LEMMA EndMap ==
  ASSUME IInv, RInv, RInv', AllFits, KmallocOutcome = {TRUE}, RehashDone \/ RetrySet
  PROVE  Map!Next
<1>1. /\ pc = "parse" /\ todo = <<>> /\ todo' = <<>> /\ job # NULL /\ job' = NULL
  BY DEF RehashDone, RetrySet, EndRehash, IInv, Control
<1>2. \A n \in Name : MapValue(n) = Lookup(n) /\ MapValue(n)' = Lookup(n)'
  BY <1>1, NothingWaits, NothingWaitsNext DEF RInv
<1>3. CASE RehashDone
  <2>1. UNCHANGED store /\ job.op # "set"
    BY <1>3 DEF RehashDone
  <2>2. \A n \in Name : MapValue(n)' = MapValue(n)
    BY <2>1, <1>2, SameLookups
  <2>3. Map!End
    BY <2>1, <2>2, <1>1 DEF Map!End
  <2> QED
    BY <2>3 DEF Map!Next
<1>4. CASE RetrySet
  <2>1. job.op = "set" /\ TrySet(job.name, job.value, TRUE)
    BY <1>4 DEF RetrySet
  <2>2. PICK n \in Name, v \in Value : n = job.name /\ v = job.value
    BY <2>1, <1>1 DEF IInv, Control
  <2>3. Allocatable(n, v, TRUE)
    BY <2>1, <2>2, <1>1 DEF AllFits, Allocatable
  <2>4. Assigned(n, v)
    BY <2>1, <2>2, <2>3, TrySetStore DEF IInv
  <2>5. MapValue(n)' = v /\ \A m \in Name \ {n} : MapValue(m)' = MapValue(m)
    BY <2>4, <1>2 DEF Assigned
  <2>6. Map!End
    BY <2>1, <2>2, <2>5, <1>1, ChangedMap DEF Map!End
  <2> QED
    BY <2>6 DEF Map!Next
<1> QED
  BY <1>3, <1>4

LEMMA StepMap ==
  ASSUME IInv, IInv', RInv, RInv', AllFits, KmallocOutcome = {TRUE}, [Next]_vars
  PROVE  [Map!Next]_(Map!vars)
<1>1. CASE \E n \in Name, v \in Value : nvram_set(n, v) \/ CfeSet(n, v)
  BY <1>1, SetMap
<1>2. CASE \/ \E r \in Reader, n \in Name : nvram_get(r, n)
           \/ PackTuple \/ PackNextBucket \/ UNCHANGED vars
  BY <1>2, QuietMap DEF nvram_get, PackTuple, PackNextBucket, vars, scratch
<1>3. CASE (\E n \in Name : nvram_unset(n)) \/ nvram_commit \/ StartRehash
  BY <1>3, UnsetMap, CommitMap, StartRehashStep
<1>4. CASE RehashEntry \/ RehashDone \/ RetrySet
  BY <1>4, RehashEntryStep, EndMap
<1> QED
  BY <1>1, <1>2, <1>3, <1>4 DEF Next

LEMMA InitMap ==
  ASSUME Init, IInv, RInv
  PROVE  Map!Init
<1>1. job \in {NULL, [op |-> "init", name |-> NULL, value |-> NULL]}
  BY DEF Init
<1>2. ASSUME NEW n \in Name PROVE MapValue(n) \in Value \cup {NULL}
  <2>1. MapSound /\ LookupSound /\ todo \in Seq(Entry)
    BY MapFacts, LookupFacts DEF RInv, IInv, Control
  <2>2. ASSUME NEW k \in DOMAIN todo, Waits(k, n) PROVE MapValue(n) \in Value
    <3>1. todo[k] \in Entry
      BY <2>1
    <3> QED
      BY <2>1, <2>2, <3>1 DEF MapSound, Entry
  <2>3. Lookup(n) \in Value \cup {NULL}
    BY <2>1 DEF LookupSound
  <2> QED
    BY <2>1, <2>2, <2>3 DEF MapSound
<1> QED
  BY <1>1, <1>2 DEF Map!Init

-----------------------------------------------------------------------------
\* The image holds every bound variable before nvram_rehash frees the table,
\* unless one did not fit (the packing loop leaves the rest of its bucket out).
THEOREM FittingIsPacked ==
  ASSUME DistinctImages
  PROVE  Spec /\ []AllFits => []CommitPacksAll
<1>1. IInv /\ RInv => CommitPacksAll
  BY AllPacked DEF CommitPacksAll, Packed
<1>2. Init => RInv
  BY MapInit
<1>3. Spec /\ []AllFits => []RInv
  BY <1>2, Invariant, MapNext, PTL DEF Spec
<1> QED
  BY <1>1, <1>3, Invariant, PTL

\* The hash table, the bump allocator and the image of nvram.c implement a map
\* from names to values: if every variable fits one image and memory for tuples
\* is found, a commit or a consolidation loses and changes nothing, and a set
\* that had to consolidate first takes effect.
THEOREM StoreImplementsMap ==
  ASSUME DistinctImages, KmallocOutcome = {TRUE}
  PROVE  Spec /\ []AllFits => ImplementsMap
<1>1. Init => RInv
  BY MapInit
<1>2. Spec /\ []AllFits => []RInv
  BY <1>1, Invariant, MapNext, PTL DEF Spec
<1>3. Init /\ IInv /\ RInv => Map!Init
  BY InitMap
<1>4. IInv /\ IInv' /\ RInv /\ RInv' /\ AllFits /\ [Next]_vars => [Map!Next]_(Map!vars)
  BY StepMap
<1> QED
  BY <1>2, <1>3, <1>4, Invariant, PTL DEF Spec, ImplementsMap, Map!Spec
-----------------------------------------------------------------------------
(***************************************************************************)
(* When everything fits.  L bytes are enough for any entry "name=value"    *)
(* with its NUL; an image has room for one entry of every name, and the    *)
(* buffer for one value more, the one a set is about to write.             *)
(***************************************************************************)
RoomForAll(L) ==
  /\ IsFiniteSet(Name)
  /\ \A n \in Name, v \in Value : NameLen[n] + 1 + Bytes(v) <= L
  /\ HeaderSize + Cardinality(Name) * L + 2 <= NVRAM_SPACE
  /\ (Cardinality(Name) + 1) * L <= NVRAM_SPACE

BoundNames == {n \in Name : Bound(n)}

(* The image grows by at most L for a name, and so does the buffer while   *)
(* the image is applied: no name of the image is bound before its entry.   *)
Grown(L) ==
  /\ pc = "pack" => header.ptr <= HeaderSize + Cardinality(Packed) * L
  /\ pc = "parse" => /\ nvram_offset <= Cardinality(BoundNames) * L
                     /\ \A n \in Name : \A k \in DOMAIN todo : Waits(k, n) => ~Bound(n)

LEMMA OneMore ==
  ASSUME NEW L \in Nat, IsFiniteSet(Name), NEW S \in SUBSET Name, NEW n \in Name, n \notin S
  PROVE  /\ Cardinality(S) * L + L = Cardinality(S \cup {n}) * L
         /\ Cardinality(S) * L + L <= Cardinality(Name) * L
         /\ Cardinality(S) * L \in Nat
<1>1. PICK c \in Nat : Cardinality(S) = c /\ IsFiniteSet(S)
  BY FS_Subset, FS_CardinalityType
<1>2. Cardinality(S \cup {n}) = c + 1
  BY <1>1, FS_AddElement
<1>3. S \cup {n} \in SUBSET Name
  OBVIOUS
<1>4. PICK d \in Nat : d = Cardinality(Name)
  BY FS_CardinalityType
<1>5. c + 1 <= d
  BY <1>2, <1>3, <1>4, FS_Subset
<1>6. PICK m \in Nat : d = c + 1 + m
  <2>1. d - (c + 1) \in Nat /\ d = c + 1 + (d - (c + 1))
    BY <1>5
  <2> QED
    BY <2>1
<1>7. (c + 1) * L = c * L + L /\ d * L = c * L + L + m * L /\ c * L \in Nat /\ m * L \in Nat
  BY <1>6
<1> QED
  BY <1>1, <1>2, <1>4, <1>7

LEMMA AtMostAll ==
  ASSUME NEW L \in Nat, IsFiniteSet(Name), NEW S \in SUBSET Name
  PROVE  /\ Cardinality(S) * L <= Cardinality(Name) * L /\ Cardinality(S) * L \in Nat
         /\ Cardinality(Name) * L \in Nat
         /\ (Cardinality(Name) + 1) * L = Cardinality(Name) * L + L
<1>1. PICK c \in Nat, d \in Nat : Cardinality(S) = c /\ Cardinality(Name) = d /\ c <= d
  BY FS_Subset, FS_CardinalityType
<1>2. PICK m \in Nat : d = c + m
  <2>1. d - c \in Nat /\ d = c + (d - c)
    BY <1>1
  <2> QED
    BY <2>1
<1>3. /\ d * L = c * L + m * L /\ c * L \in Nat /\ m * L \in Nat /\ d * L \in Nat
      /\ (d + 1) * L = d * L + L
  BY <1>2
<1> QED
  BY <1>1, <1>3

LEMMA EntryBound ==
  ASSUME NEW L \in Nat, RoomForAll(L), NEW n \in Name, NEW v \in Value
  PROVE  NameLen[n] + 1 + Bytes(v) <= L /\ Bytes(v) <= L /\ Bytes(v) \in Nat
<1>1. NameLen[n] \in Nat /\ Bytes(v) \in Nat
  BY NameLenType, LenType
<1>2. NameLen[n] + 1 + Bytes(v) <= L
  BY DEF RoomForAll
<1> HIDE DEF Bytes
<1> QED
  BY <1>1, <1>2

LEMMA GrownFits ==
  ASSUME NEW L \in Nat, RoomForAll(L), IInv, RInv, Grown(L)
  PROVE  AllFits
<1>0. IsFiniteSet(Name) /\ HeaderSize \in Nat /\ NVRAM_SPACE \in Nat
  BY SpaceFacts DEF RoomForAll
<1>1. ASSUME pc = "pack", rest # <<>> PROVE header.ptr + PackedSize(Head(rest)) <= PackEnd
  <2>1. /\ rest \in Seq(Tuple) /\ header \in HeaderType /\ ToSet(rest) \subseteq Live
        /\ Unpacked
    BY <1>1 DEF IInv, Control, Images, RInv, Packing
  <2>2. PICK t \in Tuple : t = Head(rest)
    BY <1>1, <2>1
  <2>3. t \in Live /\ t \in ToSet(rest) /\ t.name \in Name
    BY <1>1, <2>1, <2>2, TailFacts DEF ToSet, Tuple
  <2>4. PICK v \in Value : StringAt(t.value) = v
    BY <2>3, StringsFacts DEF IInv, StoreInv, TuplesIntact, Intact, StringsUnique
  <2>5. PackedSize(t) <= L /\ PackedSize(t) \in Nat
    BY <2>3, <2>4, EntryBound, NameLenType DEF PackedSize
  <2>6. Packed \in SUBSET Name /\ t.name \notin Packed
    <3>1. \A k \in DOMAIN header.list : header.list[k] \in Pair
      BY <2>1 DEF HeaderType
    <3> QED
      BY <2>1, <2>3, <3>1 DEF Packed, Unpacked, Pair
  <2>7. PICK c \in Nat, d \in Nat :
          c = Cardinality(Packed) * L /\ d = Cardinality(Name) * L /\ c + L <= d
    BY <1>0, <2>3, <2>6, OneMore, AtMostAll
  <2>8. header.ptr <= HeaderSize + c /\ header.ptr \in Nat /\ HeaderSize + d + 2 <= NVRAM_SPACE
    BY <1>1, <2>1, <2>7 DEF Grown, RoomForAll, HeaderType
  <2> QED
    BY <1>0, <2>2, <2>5, <2>7, <2>8 DEF PackEnd
<1>2. ASSUME pc = "parse", todo = <<>>, job.op = "set" PROVE HasRoom(job.value)
  <2>1. PICK n \in Name, v \in Value : n = job.name /\ v = job.value
    BY <1>2 DEF IInv, Control
  <2>2. Bytes(v) <= L /\ Bytes(v) \in Nat
    BY EntryBound
  <2>3. BoundNames \in SUBSET Name
    BY DEF BoundNames
  <2>4. PICK c \in Nat, d \in Nat :
          c = Cardinality(BoundNames) * L /\ d = Cardinality(Name) * L /\ c <= d
          /\ (Cardinality(Name) + 1) * L = d + L
    BY <1>0, <2>3, AtMostAll
  <2>5. nvram_offset <= c /\ nvram_offset \in Nat /\ d + L <= NVRAM_SPACE
    BY <1>2, <2>4 DEF Grown, RoomForAll, IInv, StoreInv, BufTypes
  <2> QED
    BY <1>0, <2>1, <2>2, <2>4, <2>5 DEF HasRoom
<1> QED
  BY <1>1, <1>2 DEF AllFits
LEMMA GrownInit ==
  ASSUME NEW L \in Nat, RoomForAll(L), Init
  PROVE  Grown(L)
<1>1. \A n \in Name : ~Bound(n) 
  <2>1. \A n \in Name : nvram_hash[Hash[n]] = <<>>
    BY HashType DEF Init
  <2> QED
    BY <2>1 DEF Bound, Positions
<1>2. BoundNames = {} /\ Cardinality({}) = 0 /\ nvram_offset = 0 /\ pc # "pack"
  BY <1>1, FS_EmptySet DEF BoundNames, Init
<1> QED
  BY <1>1, <1>2 DEF Grown

LEMMA GrownCommit ==
  ASSUME NEW L \in Nat, NEW j, StartCommit(j)
  PROVE  Grown(L)'
<1>1. pc' = "pack" /\ header'.list = <<>> /\ header'.ptr = HeaderSize
  BY DEF StartCommit, NoHeader
<1>2. Packed' = {}
  BY <1>1 DEF Packed
<1> QED
  BY <1>1, <1>2, FS_EmptySet, SpaceFacts DEF Grown

LEMMA GrownPack ==
  ASSUME NEW L \in Nat, RoomForAll(L), IInv, RInv, AllFits, Grown(L), PackTuple
  PROVE  Grown(L)'
<1>0. IsFiniteSet(Name) /\ HeaderSize \in Nat
  BY SpaceFacts DEF RoomForAll
<1>1. /\ pc = "pack" /\ rest # <<>> /\ pc' = "pack"
      /\ rest \in Seq(Tuple) /\ header \in HeaderType /\ ToSet(rest) \subseteq Live
      /\ Unpacked
  BY DEF PackTuple, IInv, Control, Images, RInv, Packing
<1>2. PICK t \in Tuple : t = Head(rest)
  BY <1>1
<1>3. t \in Live /\ t \in ToSet(rest) /\ t.name \in Name
  BY <1>1, <1>2, TailFacts DEF ToSet, Tuple
<1>4. PICK v \in Value : StringAt(t.value) = v
  BY <1>3, StringsFacts DEF IInv, StoreInv, TuplesIntact, Intact, StringsUnique
<1>5. PackedSize(t) <= L /\ PackedSize(t) \in Nat
  BY <1>3, <1>4, EntryBound, NameLenType DEF PackedSize
<1>6. ~(header.ptr + PackedSize(t) > PackEnd)
  <2>1. header.ptr + PackedSize(t) <= PackEnd
    BY <1>1, <1>2 DEF AllFits
  <2>2. header.ptr \in Nat /\ PackEnd \in Int
    BY <1>1, SpaceFacts DEF PackEnd, HeaderType
  <2> QED
    BY <2>1, <2>2, <1>5
<1>7. PICK e, l, p : /\ e = [name |-> t.name, value |-> v] /\ l = header.list /\ p = header.ptr
  OBVIOUS
<1>8. header' = [header EXCEPT !.ptr = @ + PackedSize(t), !.list = Append(@, e)]
  BY <1>2, <1>4, <1>6, <1>7 DEF PackTuple
<1>9. header'.list = Append(l, e) /\ header'.ptr = p + PackedSize(t)
      /\ l \in Seq(Pair) /\ p \in Nat /\ e \in Pair /\ e.name = t.name
  BY <1>1, <1>3, <1>7, <1>8 DEF HeaderType, Pair
<1>10. Packed' = Packed \cup {t.name}
  <2>1. /\ DOMAIN l = 1 .. Len(l) /\ Len(l) \in Nat
        /\ DOMAIN Append(l, e) = 1 .. Len(l) + 1
        /\ \A k \in 1 .. Len(l) : Append(l, e)[k] = l[k]
        /\ Append(l, e)[Len(l) + 1] = e
    BY <1>9
  <2>2. Packed = {l[k].name : k \in DOMAIN l} /\ Packed' = {Append(l, e)[k].name : k \in DOMAIN Append(l, e)}
    BY <1>7, <1>9 DEF Packed
  <2>3. \A k \in 1 .. Len(l) + 1 : k \in 1 .. Len(l) \/ k = Len(l) + 1
    BY <2>1
  <2>4. (\A k \in 1 .. Len(l) : k \in 1 .. Len(l) + 1) /\ Len(l) + 1 \in 1 .. Len(l) + 1
    BY <2>1
  <2>5. ASSUME NEW n \in Packed' PROVE n \in Packed \cup {t.name}
    <3>1. PICK k \in 1 .. Len(l) + 1 : n = Append(l, e)[k].name
      BY <2>1, <2>2, <2>5
    <3> QED
      BY <3>1, <2>1, <2>2, <2>3, <1>9
  <2>6. ASSUME NEW n \in Packed PROVE n \in Packed'
    <3>1. PICK k \in 1 .. Len(l) : n = l[k].name
      BY <2>1, <2>2, <2>6
    <3> QED
      BY <3>1, <2>1, <2>2, <2>4
  <2>7. t.name \in Packed'
    BY <2>1, <2>2, <2>4, <1>9
  <2> QED
    BY <2>5, <2>6, <2>7
<1>11. Packed \in SUBSET Name /\ t.name \notin Packed
  <2>1. \A k \in DOMAIN header.list : header.list[k] \in Pair
    BY <1>1 DEF HeaderType
  <2> QED
    BY <1>1, <1>3, <2>1 DEF Packed, Unpacked, Pair
<1>12. PICK c \in Nat : c = Cardinality(Packed) * L /\ Cardinality(Packed') * L = c + L
  BY <1>0, <1>3, <1>10, <1>11, OneMore
<1>13. p <= HeaderSize + c
  BY <1>1, <1>7, <1>12 DEF Grown
<1>14. header'.ptr <= HeaderSize + Cardinality(Packed') * L
  BY <1>0, <1>5, <1>9, <1>12, <1>13
<1> QED
  BY <1>1, <1>14 DEF Grown

LEMMA GrownRehash ==
  ASSUME NEW L \in Nat, StartRehash
  PROVE  Grown(L)'
<1>1. nvram_free /\ pc' = "parse"
  BY DEF StartRehash
<1>2. (\A n \in Name : ~Bound(n)') /\ nvram_offset' = 0
  BY <1>1, FreeStore
<1>3. BoundNames' = {}
  BY <1>2 DEF BoundNames
<1> QED
  BY <1>1, <1>2, <1>3, FS_EmptySet DEF Grown
LEMMA GrownEntry ==
  ASSUME NEW L \in Nat, RoomForAll(L), IInv, RInv, Grown(L), RehashEntry
  PROVE  Grown(L)'
<1>0. IsFiniteSet(Name) /\ StoreInv
  BY DEF RoomForAll, IInv
<1>1. /\ pc = "parse" /\ pc' = "parse" /\ todo # <<>> /\ todo' = Tail(todo)
      /\ todo \in Seq(Entry) /\ Ordered(todo)
  BY DEF RehashEntry, IInv, Control, RInv, Parsing
<1>2. PICK e \in Entry : e = Head(todo)
  BY <1>1
<1>3. e = todo[1] /\ 1 \in DOMAIN todo /\ e.name \in Name /\ e.value \in Value
  BY <1>1, <1>2, TailFacts DEF Entry
<1>4. \A k \in DOMAIN todo' : k + 1 \in DOMAIN todo /\ todo'[k] = todo[k + 1] /\ k \in Nat
  BY <1>1, TailFacts
<1>5. /\ nvram_offset <= Cardinality(BoundNames) * L
      /\ \A n \in Name : \A k \in DOMAIN todo : Waits(k, n) => ~Bound(n)
  BY <1>1 DEF Grown
<1>6. todo' \in Seq(Entry)
  BY <1>1, TailFacts
<1>7. CASE UNCHANGED store
  <2>1. nvram_offset' = nvram_offset /\ \A n : Bound(n)' = Bound(n)
    BY <1>7, SameLookups DEF store
  <2>2. BoundNames' = BoundNames
    BY <2>1 DEF BoundNames
  <2>3. \A n \in Name : \A k \in DOMAIN todo' : Waits(k, n)' => ~Bound(n)'
    BY <2>1, <1>4, <1>5 DEF Waits
  <2> QED
    BY <1>1, <1>5, <2>1, <2>2, <2>3 DEF Grown
<1>8. CASE ~UNCHANGED store
  <2>1. PICK ok \in KmallocOutcome : TrySet(e.name, e.value, ok)
    BY <1>2, <1>8 DEF RehashEntry
  <2>2. Assigned(e.name, e.value)
    BY <2>1, <1>0, <1>3, <1>8, TrySetStore DEF TrySet
  <2>3. ~Bound(e.name)
    <3>1. ~(e.ifUnset /\ Bound(e.name))
      BY <1>2, <1>8 DEF RehashEntry
    <3> QED
      BY <3>1, <1>3, <1>5 DEF Waits
  <2>4. BoundNames' = BoundNames \cup {e.name} /\ e.name \notin BoundNames
    BY <2>2, <2>3, <1>3 DEF BoundNames, Assigned
  <2>5. PICK c \in Nat : c = Cardinality(BoundNames) * L /\ Cardinality(BoundNames') * L = c + L
    <3>1. BoundNames \in SUBSET Name
      BY DEF BoundNames
    <3> QED
      BY <3>1, <2>4, <1>0, <1>3, OneMore
  <2>6. nvram_offset' <= c + L
    <3>1. Bytes(e.value) <= L /\ Bytes(e.value) \in Nat
      BY <1>3, EntryBound
    <3>2. nvram_offset' <= nvram_offset + Bytes(e.value)
      BY <2>2 DEF Assigned
    <3>3. nvram_offset \in Nat /\ nvram_offset' \in Nat
      BY <2>1, <1>0, <1>3, TrySetStore DEF StoreInv, BufTypes
    <3> HIDE DEF Bytes
    <3> QED
      BY <3>1, <3>2, <3>3, <2>5, <1>5
  <2>7. ASSUME NEW n \in Name, NEW k \in DOMAIN todo', Waits(k, n)' PROVE ~Bound(n)'
    <3>1. PICK i \in DOMAIN todo : i = k + 1 /\ todo'[k] = todo[i] /\ i # 1 /\ 1 <= i
      <4>1. k \in Nat /\ k # 0
        BY <1>4, <1>6
      <4> QED
        BY <4>1, <1>4
    <3>2. ~todo[i].ifUnset /\ todo[i].name = n /\ ~Bound(n)
      BY <2>7, <3>1, <1>5 DEF Waits
    <3>3. ~todo[1].ifUnset
      BY <3>1, <3>2, <1>1, <1>3 DEF Ordered
    <3>4. n # e.name
      BY <3>1, <3>2, <3>3, <1>1, <1>3 DEF Ordered
    <3> QED
      BY <3>1, <3>2, <3>4, <2>2 DEF Assigned
  <2> QED
    BY <1>1, <2>5, <2>6, <2>7 DEF Grown
<1> QED
  BY <1>7, <1>8

LEMMA GrownNext ==
  ASSUME NEW L \in Nat, RoomForAll(L), IInv, IInv', RInv, AllFits, Grown(L), [Next]_vars
  PROVE  Grown(L)'
<1>1. CASE UNCHANGED <<pc, scratch>> /\ pc = "unlocked"
  BY <1>1 DEF Grown
<1>2. CASE \E n \in Name, v \in Value : nvram_set(n, v)
  BY <1>1, <1>2, GrownCommit DEF nvram_set
<1>3. CASE \/ \E n \in Name, v \in Value : CfeSet(n, v)
           \/ \E n \in Name : nvram_unset(n)
           \/ \E r \in Reader, n \in Name : nvram_get(r, n)
  BY <1>1, <1>3 DEF CfeSet, nvram_unset, nvram_get
<1>4. CASE nvram_commit
  BY <1>4, GrownCommit DEF nvram_commit
<1>5. CASE PackTuple \/ StartRehash \/ RehashEntry
  BY <1>5, GrownPack, GrownRehash, GrownEntry
<1>6. CASE PackNextBucket
  BY <1>6 DEF PackNextBucket, Grown, Packed
<1>7. CASE RehashDone \/ RetrySet
  BY <1>7 DEF RehashDone, RetrySet, EndRehash, Grown
<1>8. CASE UNCHANGED vars
  <2>1. UNCHANGED <<store, pc, header, todo, nvram_offset>>
    BY <1>8 DEF vars, scratch, store
  <2>2. \A n : Bound(n)' = Bound(n)
    BY <2>1, SameLookups
  <2>3. Packed' = Packed /\ BoundNames' = BoundNames
    BY <2>1, <2>2 DEF Packed, BoundNames
  <2>4. \A n, k : Waits(k, n)' = Waits(k, n)
    BY <2>1 DEF Waits
  <2> QED
    BY <2>1, <2>2, <2>3, <2>4 DEF Grown
<1> QED
  BY <1>2, <1>3, <1>4, <1>5, <1>6, <1>7, <1>8 DEF Next

\* If the image has room for an entry of every name, and the buffer for one
\* value more, then no tuple is ever skipped by the packing loop of
\* _nvram_commit, and a set that consolidated finds room.
THEOREM SmallStoreFits ==
  ASSUME DistinctImages, NEW L \in Nat, RoomForAll(L)
  PROVE  Spec => []AllFits
<1>1. Init => IInv /\ RInv /\ Grown(L)
  BY InitHolds, MapInit, GrownInit
<1>2. IInv /\ RInv /\ Grown(L) => AllFits
  BY GrownFits
<1>3. IInv /\ IInv' /\ RInv /\ AllFits /\ Grown(L) /\ [Next]_vars => RInv' /\ Grown(L)'
  BY MapNext, GrownNext
<1> QED
  BY <1>1, <1>2, <1>3, Invariant, PTL DEF Spec

\* Such a store implements the map of bcmnvram.h whatever is set, unset and
\* committed, in whatever order: the hypothesis is about its size alone.
THEOREM SmallStoreImplementsMap ==
  ASSUME DistinctImages, KmallocOutcome = {TRUE}, NEW L \in Nat, RoomForAll(L)
  PROVE  Spec => ImplementsMap
BY SmallStoreFits, StoreImplementsMap, PTL
=============================================================================
