----------------------------- MODULE NvramFlash -----------------------------
(***************************************************************************)
(* Writing the variable store to flash and reading it back at boot:        *)
(* nvram_commit, early_nvram_init, _nvram_read and _nvram_init of the      *)
(* kernel's nvram driver, with several processes committing, others        *)
(* setting variables meanwhile, I/O errors, a loss of power or a reboot at *)
(* any point.  The reset button's erase of the whole partition, which      *)
(* takes no lock, is not part of Spec but of ResetSpec.                    *)
(*                                                                         *)
(* What the store contains is a version number: every nvram_set makes a    *)
(* new one.  The image of version v takes chunks 1 .. ImageChunks[v] of    *)
(* the partition, the first of which holds the header (length and CRC);    *)
(* chunk 0 stands for the part of the first erase block before the image,  *)
(* which is backed up and written back.  A chunk that was programmed over  *)
(* something else is Garbage.  The header's magic word is kept apart       *)
(* because the protocol writes it apart.                                   *)
(***************************************************************************)
EXTENDS Integers, FiniteSets

CONSTANTS
  Committer,     \* processes that call nvram_commit
  NChunk,        \* chunks of the largest image
  NBlock,        \* erase blocks of the partition
  BlockOf,       \* chunk -> erase block
  HasPre,        \* is erasesize larger than NVRAM_SPACE?
  MaxVersion,    \* bound: versions of the store
  ImageChunks,   \* version -> chunks its image takes (header->len)
  MaxCommits,    \* bound: calls of nvram_commit
  MaxCrashes,    \* bound: power losses and reboots
  IOErrors       \* may MTD operations fail?

Chunk   == 0 .. NChunk
Block   == 1 .. NBlock
Default == 0              \* the image embedded in the boot loader
Corrupt == -1             \* what is loaded from an incomplete image
Version == 0 .. MaxVersion
PreData == -2             \* what the partition holds before the image
Erased  == -3
Garbage == -4
NoCommit == -5
Content == Version \cup {Corrupt, PreData, Erased, Garbage}
Magic   == {"MAGIC", "ZERO", "ONES", "PARTIAL"}

ASSUME FlashAssumption ==
  /\ NChunk \in Nat \ {0} /\ NBlock \in Nat \ {0}
  /\ BlockOf \in [Chunk -> Block]
  /\ BlockOf[0] = 1 /\ BlockOf[1] = 1
  /\ \A j, k \in Chunk : j <= k => BlockOf[j] <= BlockOf[k]
  /\ HasPre \in BOOLEAN
  /\ MaxVersion \in Nat \ {0}
  /\ ImageChunks \in [Version \cup {Corrupt} -> 1 .. NChunk]
  /\ MaxCommits \in Nat /\ MaxCrashes \in Nat
  /\ IOErrors \in BOOLEAN

VARIABLES
  mem,        \* version in memory
  newest,     \* the newest version made so far
  magic,      \* the magic word in flash
  chunk,      \* the chunks of the partition
  nvram_sem,  \* 1 when free
  pc,         \* committer -> where it is in nvram_commit
  task,       \* committer -> its scheduler state
  pre,        \* committer -> chunk 0 as backed up in its scratch buffer
  version,    \* committer -> version packed into its scratch buffer
  blk,        \* committer -> erase block of the erase loop
  chk,        \* committer -> next chunk of the partition write
  ret,        \* committer -> result
  seen,       \* committer -> version in memory when it called nvram_commit
  stored,     \* the version of the latest commit that returned 0, until the
              \* next one starts to overwrite it
  risked,     \* "yes" once a commit ended while it alone had the data before
              \* the image
  reset,      \* blocks the reset button's erase has done
  commits, crashes

world   == <<mem, newest, reset, commits, crashes>>
scratch == <<pre, version>>
loop    == <<task, blk, chk, seen>>
proc    == <<pc, ret, scratch, loop>>
flash   == <<magic, chunk>>
vars    == <<world, flash, nvram_sem, proc, stored, risked>>

-----------------------------------------------------------------------------
(* NOR flash: programming only clears bits, erasing sets a whole block.    *)

Program(old, new) == IF old \in {Erased, new} THEN new ELSE Garbage

ProgramMagic(old, new) ==
  IF new = "ZERO" THEN "ZERO"
  ELSE IF new # "ONES" /\ old = "ONES" THEN new ELSE old

(* Chunk 1 holds the magic word, so erasing its block erases the word too. *)
EraseBlock(b, c, m) ==
  /\ magic' = IF b = BlockOf[1] THEN m ELSE magic
  /\ chunk' = [k \in Chunk |-> IF BlockOf[k] = b THEN c ELSE chunk[k]]

(***************************************************************************)
(* Boot.  _nvram_read accepts whatever has the right magic word, without   *)
(* checking the CRC; otherwise the early copy is used, which comes from    *)
(* the defaults embedded in the boot loader.                               *)
(***************************************************************************)
Complete ==
  /\ chunk[1] \in Version
  /\ \A k \in 1 .. ImageChunks[chunk[1]] : chunk[k] = chunk[1]

Loaded ==
  IF magic # "MAGIC" THEN Default
  ELSE IF Complete THEN chunk[1] ELSE Corrupt

-----------------------------------------------------------------------------
(* nvram_commit, one action per MTD operation or lock operation.           *)

Goto(p, l) == pc' = [pc EXCEPT ![p] = l]
Return(p, r) == ret' = [ret EXCEPT ![p] = r]

(* What MTD_WRITE of the partition puts in its next chunk.                 *)
\* Mutant: the whole scratch buffer is taken for the image.
NewChunk_imageOnly(p) == version[p]

NewChunk(p) == IF chk[p] = 0 THEN pre[p] ELSE version[p]

(* What an operation that fails or is cut off by a power loss may leave.   *)
CutOff(p) ==
  \/ /\ pc[p] = "clear"
     /\ magic' \in {magic, "PARTIAL", "ZERO"}
     /\ UNCHANGED chunk
  \/ /\ pc[p] = "erasing"
     /\ \E c \in {Garbage, Erased}, m \in {magic, "PARTIAL", "ONES"} :
           EraseBlock(blk[p], c, m)
  \/ /\ pc[p] = "write"
     /\ \E c \in {Garbage, Program(chunk[chk[p]], NewChunk(p)), chunk[chk[p]]} :
           chunk' = [chunk EXCEPT ![chk[p]] = c]
     /\ UNCHANGED magic
  \/ /\ pc[p] = "magic"
     /\ magic' \in {magic, "PARTIAL", ProgramMagic(magic, "MAGIC")}
     /\ UNCHANGED chunk
  \/ /\ pc[p] \notin {"clear", "erasing", "write", "magic"}
     /\ UNCHANGED flash

(* From the first erase to the first write, the data before the image is   *)
(* nowhere but in the scratch buffer.                                      *)
OnlyInBuffer(p) ==
  /\ HasPre
  /\ \/ pc[p] \in {"erasing", "schedule"}
     \/ pc[p] = "erase" /\ blk[p] > 1
     \/ pc[p] = "write" /\ chk[p] = 0

Fail(p) ==
  /\ IOErrors
  /\ CutOff(p)
  /\ risked' = IF OnlyInBuffer(p) THEN "yes" ELSE risked
  /\ Return(p, "EIO")
  /\ Goto(p, "done")

(* kmalloc may fail; then, as without a partition or in an interrupt, the   *)
(* call returns before it takes the semaphore.                             *)
Call(p) ==
  /\ pc[p] = "idle"
  /\ commits < MaxCommits
  /\ commits' = commits + 1
  /\ seen' = [seen EXCEPT ![p] = mem]
  /\ \/ Goto(p, "down") /\ UNCHANGED ret
     \/ Return(p, "ENOMEM") /\ UNCHANGED pc
  /\ UNCHANGED <<scratch, mem, newest, flash, nvram_sem, task, blk, chk, stored, risked, reset, crashes>>

Down(p) ==
  /\ pc[p] = "down"
  /\ nvram_sem = 1
  /\ nvram_sem' = 0
  /\ Goto(p, "backup")
  /\ UNCHANGED <<world, loop, scratch, flash, ret, stored, risked>>

Backup(p) ==
  /\ pc[p] = "backup"
  /\ \/ /\ pre' = [pre EXCEPT ![p] = IF HasPre THEN chunk[0] ELSE @]
        /\ Goto(p, "clear")
        /\ UNCHANGED <<flash, ret, risked>>
     \/ HasPre /\ Fail(p) /\ UNCHANGED pre
  /\ UNCHANGED <<version, world, loop, nvram_sem, stored>>

(* Mark the image in flash unusable before anything else is touched.       *)
\* Mutant: the old magic word is left in place.
ClearMagic_skipped(p) ==
  /\ pc[p] = "clear"
  /\ stored' = NoCommit
  /\ Goto(p, "regen")
  /\ UNCHANGED <<world, loop, scratch, flash, nvram_sem, ret, risked>>

ClearMagic(p) ==
  /\ pc[p] = "clear"
  /\ stored' = NoCommit
  /\ \/ /\ magic' = ProgramMagic(magic, "ZERO") /\ UNCHANGED chunk
        /\ Goto(p, "regen")
        /\ UNCHANGED <<ret, risked>>
     \/ Fail(p)
  /\ UNCHANGED <<world, loop, scratch, nvram_sem>>

(* _nvram_commit under nvram_lock: the scratch image becomes what memory   *)
(* holds now.  (The rehash that ends it is the subject of NvramStore.)     *)
\* Mutant: an image packed before is packed again without looking at memory.
Regenerate_stale(p) ==
  /\ pc[p] = "regen"
  /\ version' = [version EXCEPT ![p] = IF Complete THEN chunk[1] ELSE mem]
  /\ blk' = [blk EXCEPT ![p] = 1]
  /\ Goto(p, "erase")
  /\ UNCHANGED <<pre, world, flash, nvram_sem, task, chk, ret, seen, stored, risked>>

Regenerate(p) ==
  /\ pc[p] = "regen"
  /\ version' = [version EXCEPT ![p] = mem]
  /\ blk' = [blk EXCEPT ![p] = 1]
  /\ Goto(p, "erase")
  /\ UNCHANGED <<pre, world, flash, nvram_sem, task, chk, ret, seen, stored, risked>>

(* The erase loop covers the blocks up to header->len.  The task declares  *)
(* itself asleep before it starts the erase, so that a callback that runs  *)
(* before schedule() is not lost.                                          *)
\* Mutant: only the block of the header is erased.
LastBlock_first(p) == 1

LastBlock(p) == BlockOf[ImageChunks[version[p]]]

PrepareErase(p) ==
  /\ pc[p] = "erase"
  /\ task' = [task EXCEPT ![p] = "INTERRUPTIBLE"]
  /\ Goto(p, "erasing")
  /\ UNCHANGED <<world, scratch, flash, nvram_sem, blk, chk, ret, seen, stored, risked>>

(* The flash driver calls erase_callback, hence wake_up, before it returns. *)
\* Mutant: the task declares itself asleep after the erase was started.
Erase_sleepLate(p) ==
  /\ pc[p] = "erasing"
  /\ EraseBlock(blk[p], Erased, "ONES")
  /\ task' = [task EXCEPT ![p] = "INTERRUPTIBLE"]
  /\ Goto(p, "schedule")
  /\ UNCHANGED <<world, scratch, nvram_sem, blk, chk, seen, stored, ret, risked>>

Erase(p) ==
  /\ pc[p] = "erasing"
  /\ task' = [task EXCEPT ![p] = "RUNNING"]
  /\ \/ /\ EraseBlock(blk[p], Erased, "ONES")
        /\ Goto(p, "schedule")
        /\ UNCHANGED <<ret, risked>>
     \/ Fail(p)
  /\ UNCHANGED <<world, scratch, nvram_sem, blk, chk, seen, stored>>

\* Mutant: the loop condition lets one block too many through.
Schedule_offByOne(p) ==
  /\ pc[p] = "schedule"
  /\ task[p] = "RUNNING"
  /\ IF blk[p] <= LastBlock(p)
     THEN blk' = [blk EXCEPT ![p] = @ + 1] /\ Goto(p, "erase") /\ UNCHANGED chk
     ELSE /\ chk' = [chk EXCEPT ![p] = IF HasPre THEN 0 ELSE 1]
          /\ Goto(p, "write")
          /\ UNCHANGED blk
  /\ UNCHANGED <<world, scratch, flash, nvram_sem, task, ret, seen, stored, risked>>

Schedule(p) ==
  /\ pc[p] = "schedule"
  /\ task[p] = "RUNNING"
  /\ IF blk[p] < LastBlock(p)
     THEN blk' = [blk EXCEPT ![p] = @ + 1] /\ Goto(p, "erase") /\ UNCHANGED chk
     ELSE /\ chk' = [chk EXCEPT ![p] = IF HasPre THEN 0 ELSE 1]
          /\ Goto(p, "write")
          /\ UNCHANGED blk
  /\ UNCHANGED <<world, scratch, flash, nvram_sem, task, ret, seen, stored, risked>>

(* One MTD_WRITE of the whole image, chunk by chunk because it can be cut  *)
(* off.  Its magic word is all ones, which programs nothing.               *)
\* Mutant: the image is written with its valid magic word.
BodyMagic_valid == "MAGIC"

BodyMagic == "ONES"

WriteBody(p) ==
  /\ pc[p] = "write"
  /\ \/ /\ magic' = IF chk[p] = 1 THEN ProgramMagic(magic, BodyMagic) ELSE magic
        /\ chunk' = [chunk EXCEPT ![chk[p]] = Program(@, NewChunk(p))]
        /\ IF chk[p] = ImageChunks[version[p]]
           THEN Goto(p, "magic") /\ UNCHANGED chk
           ELSE chk' = [chk EXCEPT ![p] = @ + 1] /\ UNCHANGED pc
        /\ UNCHANGED <<ret, risked>>
     \/ Fail(p) /\ UNCHANGED chk
  /\ UNCHANGED <<world, scratch, nvram_sem, task, blk, seen, stored>>

WriteMagic(p) ==
  /\ pc[p] = "magic"
  /\ \/ /\ magic' = ProgramMagic(magic, "MAGIC") /\ UNCHANGED chunk
        /\ Goto(p, "reread")
        /\ UNCHANGED <<ret, risked>>
     \/ Fail(p)
  /\ UNCHANGED <<world, loop, scratch, nvram_sem, stored>>

Reread(p) ==
  /\ pc[p] = "reread"
  /\ \/ Return(p, "0") /\ Goto(p, "done") /\ UNCHANGED <<flash, risked>>
     \/ Fail(p)
  /\ UNCHANGED <<world, loop, scratch, nvram_sem, stored>>

\* Mutant: an error return forgets the semaphore.
Done_leak(p) ==
  /\ pc[p] = "done"
  /\ nvram_sem' = IF ret[p] = "0" THEN 1 ELSE nvram_sem
  /\ stored' = IF ret[p] = "0" THEN version[p] ELSE stored
  /\ Goto(p, "idle")
  /\ UNCHANGED <<world, loop, scratch, flash, ret, risked>>

Done(p) ==
  /\ pc[p] = "done"
  /\ nvram_sem' = 1
  /\ stored' = IF ret[p] = "0" THEN version[p] ELSE stored
  /\ Goto(p, "idle")
  /\ UNCHANGED <<world, loop, scratch, flash, ret, risked>>

-----------------------------------------------------------------------------
(* The environment.                                                        *)

(* Any process sets a variable; nvram_lock is only held for Regenerate.    *)
nvram_set ==
  /\ newest < MaxVersion
  /\ newest' = newest + 1
  /\ mem' = newest + 1
  /\ UNCHANGED <<proc, flash, nvram_sem, stored, risked, reset, commits, crashes>>

(* btn_check runs "erase /dev/mtd/3", mtd_erase block by block.            *)
ResetErase ==
  /\ reset < NBlock
  /\ reset' = reset + 1
  /\ EraseBlock(reset + 1, Erased, "ONES")
  /\ UNCHANGED <<proc, mem, newest, nvram_sem, stored, risked, commits, crashes>>

NoProc == [p \in Committer |-> "idle"]

Crash ==
  /\ crashes < MaxCrashes
  /\ crashes' = crashes + 1
  /\ UNCHANGED flash \/ \E p \in Committer : CutOff(p)
  /\ mem' = Loaded'
  /\ nvram_sem' = 1
  /\ pc' = NoProc
  /\ task' = [p \in Committer |-> "RUNNING"]
  /\ ret' = [p \in Committer |-> "none"]
  /\ reset' = 0
  /\ stored' = IF flash' = flash THEN stored ELSE NoCommit
  /\ risked' = IF \E p \in Committer : OnlyInBuffer(p) THEN "yes" ELSE risked
  /\ UNCHANGED <<scratch, newest, blk, chk, seen, commits>>

-----------------------------------------------------------------------------
(* Version 1 is in flash, or the partition was erased.                     *)
Init ==
  /\ \/ /\ mem = 1 /\ stored = 1
        /\ magic = "MAGIC"
        /\ chunk = [k \in Chunk |-> IF k = 0 THEN PreData
                                   ELSE IF k <= ImageChunks[1] THEN 1 ELSE Erased]
     \/ /\ mem = Default /\ stored = NoCommit
        /\ magic = "ONES"
        /\ chunk = [k \in Chunk |-> IF k = 0 THEN PreData ELSE Erased]
  /\ newest = 1
  /\ nvram_sem = 1
  /\ pc = NoProc
  /\ task = [p \in Committer |-> "RUNNING"]
  /\ pre = [p \in Committer |-> Garbage]
  /\ version = [p \in Committer |-> Default]
  /\ blk = [p \in Committer |-> 1]
  /\ chk = [p \in Committer |-> 1]
  /\ ret = [p \in Committer |-> "none"]
  /\ seen = [p \in Committer |-> Default]
  /\ risked = "no"
  /\ reset = 0 /\ commits = 0 /\ crashes = 0

Step(p) ==
  \/ Down(p) \/ Backup(p) \/ ClearMagic(p) \/ Regenerate(p) \/ PrepareErase(p)
  \/ Erase(p) \/ Schedule(p) \/ WriteBody(p) \/ WriteMagic(p) \/ Reread(p)
  \/ Done(p)

Next ==
  \/ \E p \in Committer : Call(p) \/ Step(p)
  \/ nvram_set \/ Crash

Spec == Init /\ [][Next]_vars

(* The same with somebody at the reset button.                             *)
ResetSpec == Init /\ [][Next \/ ResetErase]_vars

(* A process in the kernel is scheduled; waiters on the semaphore are       *)
(* served because the number of commits is bounded.                         *)
FairSpec == Spec /\ \A p \in Committer : WF_vars(Step(p))

-----------------------------------------------------------------------------
(* Properties.                                                             *)

Holding == {"backup", "clear", "regen", "erase", "erasing", "schedule",
            "write", "magic", "reread", "done"}

\* The driver's variables keep their types.
TypeOK ==
  /\ mem \in Version \cup {Corrupt}
  /\ newest \in Version
  /\ magic \in Magic
  /\ chunk \in [Chunk -> Content]
  /\ nvram_sem \in {0, 1}
  /\ pc \in [Committer -> Holding \cup {"idle", "down"}]
  /\ task \in [Committer -> {"RUNNING", "INTERRUPTIBLE"}]
  /\ pre \in [Committer -> Content]
  /\ version \in [Committer -> Version \cup {Corrupt}]
  /\ blk \in [Committer -> Block]
  /\ chk \in [Committer -> Chunk]
  /\ ret \in [Committer -> {"none", "0", "EIO", "ENOMEM"}]
  /\ seen \in [Committer -> Version \cup {Corrupt}]
  /\ stored \in Version \cup {Corrupt, NoCommit}
  /\ risked \in {"yes", "no"}
  /\ reset \in 0 .. NBlock
  /\ commits \in 0 .. MaxCommits
  /\ crashes \in 0 .. MaxCrashes

\* The semaphore is held by exactly one committer inside the protocol, and is
\* free again once it left, by whichever of the error returns.
SemaphoreBalanced ==
  /\ \A p, q \in Committer : pc[p] \in Holding /\ pc[q] \in Holding => p = q
  /\ nvram_sem = IF \E p \in Committer : pc[p] \in Holding THEN 0 ELSE 1

\* Whenever the magic word in flash is the valid one, the image behind it is one
\* complete version, at every point of a commit and after any failure.
ValidImage == magic = "MAGIC" => Complete

\* No boot loads a torn image, although _nvram_read does not check the CRC.
BootSound == mem # Corrupt

\* A commit that returned 0 is durable: until the next commit starts to
\* overwrite it, a boot loads exactly that version.
Durable == stored # NoCommit => Loaded = stored

\* A commit that returns 0 stored everything set before the call: waiting for
\* the semaphore behind another commit cannot make it write an older image.
CommitCoversCaller ==
  \A p \in Committer :
     pc[p] = "done" /\ ret[p] = "0" => version[p] >= seen[p]

\* The data before the image, which shares its erase block, stays what it was
\* through any number of commits, sets, failures and power losses: it is in flash,
\* or in the buffer of the commit that will write it back; unless a commit fails
\* or is cut off in the one phase in which that buffer is the only copy.
PreAreaKept ==
  HasPre /\ risked = "no" =>
    \/ chunk[0] = PreData
    \/ \E p \in Committer : OnlyInBuffer(p) /\ pre[p] = PreData

\* Every nvram_commit returns: nobody sleeps through the end of an erase, and
\* nobody waits forever for the semaphore.
CommitReturns == \A p \in Committer : pc[p] # "idle" ~> pc[p] = "idle"
=============================================================================
