----------------------------- MODULE NvramStore -----------------------------
(***************************************************************************)
(* The in-memory NVRAM variable store of the router kernel:                *)
(* shared/nvram/nvram.c (hash table, dead table, rehash, image packing)    *)
(* on top of the allocator of brcm-boards/bcm947xx/nvram_linux.c (a bump   *)
(* allocator over nvram_buf, the page-aligned buffer user processes map).  *)
(*                                                                         *)
(* Every entry point runs under nvram_lock with interrupts off on a        *)
(* uniprocessor, so nothing interleaves with one of them.  nvram_set (when *)
(* it consolidates) and the in-memory half of nvram_commit are still       *)
(* written as several steps, pc # "unlocked", because they walk lists: the *)
(* packing loop of _nvram_commit and the parsing loop of nvram_rehash.     *)
(*                                                                         *)
(* A string is a value v of length ValueLen[v]; byte i of it, the final    *)
(* NUL included, is the cell <<v, i>>.  A char pointer into nvram_buf is   *)
(* its offset, which is what dev_nvram_read hands to user space.           *)
(***************************************************************************)
EXTENDS Integers, Sequences, SequencesExt

CONSTANTS
  Name,            \* variable names
  Value,           \* value strings
  NBucket,         \* ARRAYSIZE(nvram_hash)
  Hash,            \* hash(name) % ARRAYSIZE(nvram_hash)
  NameLen,         \* strlen of a name
  ValueLen,        \* strlen of a value
  NVRAM_SPACE,     \* size of nvram_buf and of a flash image
  HeaderSize,      \* sizeof(struct nvram_header)
  SdramSeq,        \* the sdram_* names, in the order nvram_rehash tests them
  SdramDefault,    \* SDRAM_INIT, SDRAM_CONFIG, ... as printed by nvram_rehash
  Reformat,        \* strtoul, mask and sprintf "0x%04X" of a value
  BootImage,       \* images _nvram_read may find at boot
  CfeNames,        \* names that are also set through the "asuscfe" prefix
  KmallocOutcome,  \* results of an atomic kmalloc: {TRUE} or BOOLEAN
  Reader,          \* user processes holding a pointer into the mapped buffer
  NULL

Bucket == 0 .. NBucket - 1
SdramNames == ToSet(SdramSeq)
Tuple == [name : Name, value : 0 .. NVRAM_SPACE - 1]
Entry == [name : Name, value : Value, ifUnset : BOOLEAN]
Pair  == [name : Name, value : Value]
Job   == [op : {"init", "commit", "set"}, name : Name \cup {NULL},
          value : Value \cup {NULL}]

Bytes(v) == ValueLen[v] + 1

(***************************************************************************)
(* The entries "name=value" follow one another behind the header, the k-th *)
(* one ending at pos[k].                                                   *)
(***************************************************************************)
FitsImage(list, end) ==
  \E pos \in [0 .. Len(list) -> HeaderSize .. end] :
    \A k \in 1 .. Len(list) :
      pos[k - 1] + NameLen[list[k].name] + 1 + Bytes(list[k].value) <= pos[k]

ASSUME ConstantsAssumption ==
  /\ NBucket \in Nat \ {0}
  /\ Hash \in [Name -> Bucket]
  /\ NameLen \in [Name -> Nat \ {0}]
  /\ ValueLen \in [Value -> Nat]
  /\ HeaderSize \in Nat \ {0}
  /\ NVRAM_SPACE \in Nat
  /\ NVRAM_SPACE % 4 = 0
  /\ HeaderSize + 2 <= NVRAM_SPACE
  /\ SdramSeq \in Seq(Name)
  /\ SdramDefault \in [SdramNames -> Value]
  /\ Reformat \in [Value -> Value]
  /\ BootImage \subseteq [list : Seq(Pair), sdram : [SdramNames -> Value]]
  /\ \A b \in BootImage : FitsImage(b.list, NVRAM_SPACE)
  /\ CfeNames \subseteq Name
  /\ KmallocOutcome \subseteq BOOLEAN
  /\ NULL \notin Value /\ NULL \notin Job

VARIABLES
  nvram_hash,    \* bucket -> list of live tuples, newest first
  nvram_dead,    \* value pointers of the tuples of unset variables, which only
                 \* the next rehash frees
  nvram_buf,     \* the bytes user processes map
  nvram_offset,  \* first free byte of nvram_buf
  pc,            \* where the holder of nvram_lock is
  job,           \* why it is rehashing: boot, commit or a set to retry
  bucket, rest,  \* cursor of the packing loop
  header,        \* the image being packed: entries, write offset, sdram words
  todo,          \* entries nvram_rehash has still to apply
  last,          \* name, value and result of the latest set, if nothing since
  ptr            \* pointers returned by nvram_get and still in use, per reader

store   == <<nvram_hash, nvram_dead, nvram_buf, nvram_offset>>
scratch == <<bucket, rest, header, todo>>
vars    == <<store, pc, job, scratch, last, ptr>>

-----------------------------------------------------------------------------
(* Strings in the buffer.                                                  *)

Holds(off, v) ==
  /\ off + Bytes(v) <= NVRAM_SPACE
  /\ \A i \in 0 .. ValueLen[v] : nvram_buf[off + i] = <<v, i>>

StringAt(off) == CHOOSE v \in Value : Holds(off, v)

(* Lookup: the first tuple of that name on the bucket's chain.             *)

Positions(n) ==
  {j \in DOMAIN nvram_hash[Hash[n]] : nvram_hash[Hash[n]][j].name = n}

Bound(n) == Positions(n) # {}
Pos(n)   == CHOOSE j \in Positions(n) : \A k \in Positions(n) : j <= k

_nvram_get(n) == nvram_hash[Hash[n]][Pos(n)].value

Lookup(n) == IF Bound(n) THEN StringAt(_nvram_get(n)) ELSE NULL

(***************************************************************************)
(* _nvram_realloc fails when the value does not fit behind nvram_offset,   *)
(* even if it is the value already stored, and when a new tuple cannot be  *)
(* allocated.                                                              *)
(***************************************************************************)
\* Mutant: the test is one byte short of the end.
HasRoom_offByOne(v) == nvram_offset + ValueLen[v] <= NVRAM_SPACE

HasRoom(v) == nvram_offset + Bytes(v) <= NVRAM_SPACE

Allocatable(n, v, ok) == HasRoom(v) /\ (Bound(n) \/ ok)

\* Mutant: the allocator forgets the terminating NUL.
NextOffset_noNul(v) == nvram_offset + ValueLen[v]

NextOffset(v) == nvram_offset + Bytes(v)

(***************************************************************************)
(* A successful _nvram_set.  An existing tuple keeps its place on the      *)
(* chain and only its value pointer moves; a new one goes to the front.    *)
(***************************************************************************)
CopyAt(off, v) ==
  nvram_buf' = [c \in DOMAIN nvram_buf |->
                  IF c \in off .. off + ValueLen[v] THEN <<v, c - off>>
                                                   ELSE nvram_buf[c]]

LinkTuple(n, off) ==
  LET t == [name |-> n, value |-> off]
  IN  nvram_hash' = [nvram_hash EXCEPT ![Hash[n]] =
                       IF Bound(n) THEN [@ EXCEPT ![Pos(n)] = t]
                                   ELSE <<t>> \o @]

\* Mutant: a value that is not longer is copied over the one it replaces.
_nvram_set_inPlace(n, v) ==
  /\ UNCHANGED nvram_dead
  /\ IF Bound(n) /\ Bytes(v) <= Bytes(StringAt(_nvram_get(n)))
     THEN CopyAt(_nvram_get(n), v) /\ UNCHANGED <<nvram_hash, nvram_offset>>
     ELSE /\ CopyAt(nvram_offset, v)
          /\ nvram_offset' = NextOffset(v)
          /\ LinkTuple(n, nvram_offset)

_nvram_set(n, v) ==
  /\ UNCHANGED nvram_dead
  /\ IF Bound(n) /\ Holds(_nvram_get(n), v)
     THEN UNCHANGED <<nvram_hash, nvram_buf, nvram_offset>>
     ELSE /\ CopyAt(nvram_offset, v)
          /\ nvram_offset' = NextOffset(v)
          /\ LinkTuple(n, nvram_offset)

TrySet(n, v, ok) ==
  IF Allocatable(n, v, ok) THEN _nvram_set(n, v) ELSE UNCHANGED store

Result(n, v, r) == [name |-> n, value |-> v, ret |-> r]

-----------------------------------------------------------------------------
(* _nvram_commit: regenerate the header and pack every tuple.              *)

HeaderSdram ==
  IF \A s \in SdramNames : Bound(s)
  THEN [s \in SdramNames |-> Reformat[Lookup(s)]]
  ELSE SdramDefault

NoHeader == [list |-> <<>>, ptr |-> HeaderSize, sdram |-> SdramDefault]

StartCommit(j) ==
  /\ pc' = "pack"
  /\ job' = j
  /\ bucket' = 0
  /\ rest' = nvram_hash[0]
  /\ header' = [NoHeader EXCEPT !.sdram = HeaderSdram]
  /\ last' = NULL
  /\ UNCHANGED <<store, todo, ptr>>

PackedSize(t) == NameLen[t.name] + 1 + Bytes(StringAt(t.value))

\* Mutant: no room is left for the double NUL that ends the list.
PackEnd_full == NVRAM_SPACE

PackEnd == NVRAM_SPACE - 2

(* A tuple that does not fit ends the walk of its bucket, not the packing. *)
PackTuple ==
  /\ pc = "pack" /\ rest # <<>>
  /\ LET t == Head(rest)
         e == [name |-> t.name, value |-> StringAt(t.value)]
     IN IF header.ptr + PackedSize(t) > PackEnd
        THEN rest' = <<>> /\ UNCHANGED header
        ELSE /\ header' = [header EXCEPT !.ptr = @ + PackedSize(t),
                                         !.list = Append(@, e)]
             /\ rest' = Tail(rest)
  /\ UNCHANGED <<store, pc, job, bucket, todo, last, ptr>>

PackNextBucket ==
  /\ pc = "pack" /\ rest = <<>> /\ bucket < NBucket - 1
  /\ bucket' = bucket + 1
  /\ rest' = nvram_hash[bucket + 1]
  /\ UNCHANGED <<store, pc, job, header, todo, last, ptr>>

RoundUp(x, y) == ((x + (y - 1)) \div y) * y

HeaderLen == RoundUp(header.ptr + 2, 4)

(***************************************************************************)
(* nvram_rehash: free every tuple and start the buffer over, then apply    *)
(* the entries of the image and the sdram words it lacks.  A pointer a     *)
(* reader still holds is dangling from here on.  The code leaves the old   *)
(* bytes above nvram_offset; nobody may rely on them, so they are NULL.    *)
(***************************************************************************)
Entries(list, sdram) ==
  [k \in 1 .. Len(list) |-> [name |-> list[k].name, value |-> list[k].value,
                             ifUnset |-> FALSE]]
  \o
  [k \in 1 .. Len(SdramSeq) |-> [name |-> SdramSeq[k],
                                 value |-> sdram[SdramSeq[k]],
                                 ifUnset |-> TRUE]]

\* Mutant: the port's "all tuples freed" call does not reset the offset.
nvram_free_leak ==
  /\ nvram_hash' = [b \in Bucket |-> <<>>]
  /\ nvram_dead' = {}
  /\ nvram_buf' = [c \in 0 .. NVRAM_SPACE - 1 |-> NULL]
  /\ ptr' = [r \in Reader |-> NULL]
  /\ UNCHANGED nvram_offset

nvram_free ==
  /\ nvram_hash' = [b \in Bucket |-> <<>>]
  /\ nvram_dead' = {}
  /\ nvram_offset' = 0
  /\ nvram_buf' = [c \in 0 .. NVRAM_SPACE - 1 |-> NULL]
  /\ ptr' = [r \in Reader |-> NULL]

StartRehash ==
  /\ pc = "pack" /\ rest = <<>> /\ bucket = NBucket - 1
  /\ nvram_free
  /\ pc' = "parse"
  /\ todo' = Entries(header.list, header.sdram)
  /\ UNCHANGED <<job, bucket, rest, header, last>>

(* The result of _nvram_set is ignored here: a failure drops the variable. *)
RehashEntry ==
  /\ pc = "parse" /\ todo # <<>>
  /\ LET e == Head(todo)
     IN IF e.ifUnset /\ Bound(e.name)
        THEN UNCHANGED store
        ELSE \E ok \in KmallocOutcome : TrySet(e.name, e.value, ok)
  /\ todo' = Tail(todo)
  /\ UNCHANGED <<pc, job, bucket, rest, header, last, ptr>>

EndRehash ==
  /\ pc' = "unlocked"
  /\ job' = NULL
  /\ bucket' = 0
  /\ header' = NoHeader
  /\ UNCHANGED <<rest, todo, ptr>>

(* Boot and commit return 0 whatever happened to the entries.              *)
RehashDone ==
  /\ pc = "parse" /\ todo = <<>> /\ job.op # "set"
  /\ EndRehash
  /\ UNCHANGED <<store, last>>

(* nvram_set retries once after consolidating.                             *)
\* Mutant: the retry is forgotten and the result of the commit returned.
RetrySet_skipped ==
  /\ pc = "parse" /\ todo = <<>> /\ job.op = "set"
  /\ EndRehash
  /\ last' = Result(job.name, job.value, 0)
  /\ UNCHANGED store

RetrySet ==
  /\ pc = "parse" /\ todo = <<>> /\ job.op = "set"
  /\ EndRehash
  /\ \E ok \in KmallocOutcome :
       /\ TrySet(job.name, job.value, ok)
       /\ last' = Result(job.name, job.value,
                         IF Allocatable(job.name, job.value, ok) THEN 0
                                                                 ELSE -12)

-----------------------------------------------------------------------------
(* The entry points.                                                       *)

nvram_set(n, v) ==
  /\ pc = "unlocked"
  /\ \E ok, headerOk \in KmallocOutcome :
       \/ /\ Allocatable(n, v, ok)
          /\ _nvram_set(n, v)
          /\ last' = Result(n, v, 0)
          /\ UNCHANGED <<pc, job, scratch, ptr>>
       \/ /\ ~Allocatable(n, v, ok) /\ headerOk
          /\ StartCommit([op |-> "set", name |-> n, value |-> v])
       \/ /\ ~Allocatable(n, v, ok) /\ ~headerOk
          /\ last' = Result(n, v, -12)
          /\ UNCHANGED <<store, pc, job, scratch, ptr>>

(***************************************************************************)
(* nvram_set of "asuscfe<name>": the same _nvram_set, but its result is    *)
(* dropped, there is no consolidation, and the function returns the        *)
(* uninitialised ret.  What cfe_update does to the boot loader's copy is   *)
(* not part of this module.                                                *)
(***************************************************************************)
CfeSet(n, v) ==
  /\ pc = "unlocked"
  /\ n \in CfeNames
  /\ \E ok \in KmallocOutcome : TrySet(n, v, ok)
  /\ last' = NULL
  /\ UNCHANGED <<pc, job, scratch, ptr>>

\* Mutant: the tuple is left on its chain as well.
_nvram_unset_linked(n) ==
  /\ nvram_dead' = nvram_dead \cup {_nvram_get(n)}
  /\ nvram_hash' = [nvram_hash EXCEPT ![Hash[n]] =
                      <<nvram_hash[Hash[n]][Pos(n)]>> \o @]

_nvram_unset(n) ==
  /\ nvram_dead' = nvram_dead \cup {_nvram_get(n)}
  /\ nvram_hash' = [nvram_hash EXCEPT ![Hash[n]] = RemoveAt(@, Pos(n))]

nvram_unset(n) ==
  /\ pc = "unlocked"
  /\ Bound(n)
  /\ _nvram_unset(n)
  /\ last' = NULL
  /\ UNCHANGED <<nvram_buf, nvram_offset, pc, job, scratch, ptr>>

(* The step of nvram_commit taken under nvram_lock.                        *)
nvram_commit ==
  /\ pc = "unlocked"
  /\ StartCommit([op |-> "commit", name |-> NULL, value |-> NULL])

(* A user process resolves a name to an offset and keeps the pointer.      *)
nvram_get(r, n) ==
  /\ pc = "unlocked"
  /\ ptr' = [ptr EXCEPT ![r] =
               IF Bound(n) THEN [off |-> _nvram_get(n), val |-> Lookup(n)]
                           ELSE NULL]
  /\ UNCHANGED <<store, pc, job, scratch, last>>

-----------------------------------------------------------------------------
(* Boot: _nvram_init rehashes the image it found, if it found one.         *)
Init ==
  /\ nvram_hash = [b \in Bucket |-> <<>>]
  /\ nvram_dead = {}
  /\ nvram_buf = [c \in 0 .. NVRAM_SPACE - 1 |-> NULL]
  /\ nvram_offset = 0
  /\ bucket = 0
  /\ rest = <<>>
  /\ header = NoHeader
  /\ last = NULL
  /\ ptr = [r \in Reader |-> NULL]
  /\ \/ /\ \E b \in BootImage : todo = Entries(b.list, b.sdram)
        /\ pc = "parse"
        /\ job = [op |-> "init", name |-> NULL, value |-> NULL]
     \/ /\ todo = <<>>
        /\ pc = "unlocked"
        /\ job = NULL

Next ==
  \/ \E n \in Name, v \in Value : nvram_set(n, v) \/ CfeSet(n, v)
  \/ \E n \in Name : nvram_unset(n)
  \/ \E r \in Reader, n \in Name : nvram_get(r, n)
  \/ nvram_commit
  \/ PackTuple \/ PackNextBucket \/ StartRehash
  \/ RehashEntry \/ RehashDone \/ RetrySet

Spec == Init /\ [][Next]_vars

-----------------------------------------------------------------------------
(* Properties.                                                             *)

Live == UNION {ToSet(nvram_hash[b]) : b \in Bucket}

Cell == {NULL} \cup {<<v, i>> : v \in Value, i \in 0 .. NVRAM_SPACE - 1}

\* Every variable of the store and of its lock holder keeps its shape.
TypeOK ==
  /\ nvram_hash \in [Bucket -> Seq(Tuple)]
  /\ nvram_dead \subseteq 0 .. NVRAM_SPACE - 1
  /\ nvram_buf \in [0 .. NVRAM_SPACE - 1 -> Cell]
  /\ nvram_offset \in 0 .. NVRAM_SPACE
  /\ pc \in {"unlocked", "pack", "parse"}
  /\ job \in Job \cup {NULL}
  /\ (job = NULL) <=> (pc = "unlocked")
  /\ (job # NULL /\ job.op = "set") => job.name \in Name /\ job.value \in Value
  /\ bucket \in Bucket
  /\ rest \in Seq(Tuple)
  /\ header \in [list : Seq(Pair), ptr : Nat, sdram : [SdramNames -> Value]]
  /\ todo \in Seq(Entry)
  /\ last \in [name : Name, value : Value, ret : {0, -12}] \cup {NULL}
  /\ ptr \in [Reader -> [off : 0 .. NVRAM_SPACE - 1, val : Value] \cup {NULL}]

Intact(off, v) == Holds(off, v) /\ off + Bytes(v) <= nvram_offset

\* No allocation ever touches a string that is still referenced: the value of
\* every live tuple, and of every tuple nvram_unset moved to the dead table, is
\* a complete NUL-terminated string below nvram_offset (_nvram_realloc).
TuplesIntact ==
  \A off \in {t.value : t \in Live} \cup nvram_dead :
     \E v \in Value : Intact(off, v)

\* A pointer that nvram_get handed to a user process keeps reading the value it
\* was returned for, although other processes set and unset variables (that
\* one included), until the store is next consolidated or committed.
ReaderIntact ==
  \A r \in Reader : ptr[r] # NULL => Intact(ptr[r].off, ptr[r].val)

\* Lookup by hash is sound: a tuple sits on the chain its name hashes to, and no
\* name is bound twice, so a set never leaves a shadowed older value for the
\* packing loop of _nvram_commit to write out.
ChainsSound ==
  \A b, c \in Bucket : \A j \in DOMAIN nvram_hash[b], k \in DOMAIN nvram_hash[c] :
     /\ Hash[nvram_hash[b][j].name] = b
     /\ nvram_hash[b][j].name = nvram_hash[c][k].name => b = c /\ j = k

\* The packing loop never writes beyond the scratch image, nor does the length
\* it stores: list, double NUL and rounding stay within NVRAM_SPACE.
ImageInSpace == header.ptr + 2 <= NVRAM_SPACE /\ HeaderLen <= NVRAM_SPACE

\* What was packed can always be loaded again: when nvram_rehash reapplies an
\* image entry, the value fits behind nvram_offset (the code ignores the result
\* of that _nvram_set, so a failure would silently drop the variable).
RehashHasRoom ==
  pc = "parse" /\ todo # <<>> /\ ~Head(todo).ifUnset => HasRoom(Head(todo).value)

\* A set that reported success can be retrieved, also when it succeeded only
\* after the consolidation rebuilt the whole table.
SetTakesEffect == last # NULL /\ last.ret = 0 => Lookup(last.name) = last.value

\* Kernel memory held by tuples is bounded by the buffer: a tuple, live or dead,
\* has a byte of nvram_buf of its own, so any sequence of sets and unsets runs
\* into a consolidation, which frees the dead ones.
TuplesBounded ==
  /\ Cardinality(Live) + Cardinality(nvram_dead) <= nvram_offset
  /\ nvram_offset <= NVRAM_SPACE

\* Before nvram_rehash frees the table, the image holds every bound variable,
\* so a commit stores them all and a consolidation keeps them all.
CommitPacksAll ==
  pc = "pack" /\ rest = <<>> /\ bucket = NBucket - 1 =>
     \A n \in Name : Bound(n) => \E k \in DOMAIN header.list : header.list[k].name = n

(* No image found at boot binds a name twice; _nvram_commit writes none.   *)
DistinctImages ==
  \A b \in BootImage : \A j, k \in DOMAIN b.list :
    b.list[j].name = b.list[k].name => j = k

\* All variables fit one image, and a consolidation makes room: the packing loop
\* of _nvram_commit never skips a tuple and the second attempt of nvram_set does
\* not fail for lack of space.
AllFits ==
  /\ pc = "pack" /\ rest # <<>> => header.ptr + PackedSize(Head(rest)) <= PackEnd
  /\ pc = "parse" /\ todo = <<>> /\ job.op = "set" => HasRoom(job.value)

(***************************************************************************)
(* Refinement: while an image is being applied, a variable has the value   *)
(* the rest of the image is about to give it.                              *)
(***************************************************************************)
MapValue(n) ==
  LET waiting == {k \in DOMAIN todo : todo[k].name = n /\ ~todo[k].ifUnset}
  IN  IF waiting = {} THEN Lookup(n) ELSE todo[CHOOSE k \in waiting : TRUE].value

Map == INSTANCE NvramMap WITH map <- [n \in Name |-> MapValue(n)], pending <- job

\* The store implements the map of bcmnvram.h as long as all variables fit one
\* image: rebuilding the table from the image loses and changes nothing, and a
\* set that had to consolidate first takes effect.
ImplementsMap == Map!Spec
=============================================================================
