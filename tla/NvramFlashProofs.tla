-------------------------- MODULE NvramFlashProofs --------------------------
(***************************************************************************)
(* Proofs about NvramFlash, for every number of committers, chunks, erase  *)
(* blocks, versions, commits and crashes.                                  *)
(***************************************************************************)
EXTENDS NvramFlash, TLAPS

-----------------------------------------------------------------------------
(* Lemmas about the flash operators.                                       *)

USE FlashAssumption DEF Default, Corrupt, PreData, Erased, Garbage, NoCommit

LEMMA ProgramType ==
  ASSUME NEW old \in Content, NEW new \in Content
  PROVE  Program(old, new) \in Content
BY DEF Program, Content

LEMMA ProgramMagicType ==
  ASSUME NEW old \in Magic, NEW new \in Magic
  PROVE  ProgramMagic(old, new) \in Magic
BY DEF ProgramMagic, Magic

(* An interrupted operation leaves a flash of the right shape.             *)
LEMMA CutOffType ==
  ASSUME TypeOK, NEW p \in Committer, CutOff(p)
  PROVE  magic' \in Magic /\ chunk' \in [Chunk -> Content]
<1> USE DEF TypeOK
<1>1. CASE pc[p] = "clear"
  BY <1>1 DEF CutOff, Magic
<1>2. CASE pc[p] = "erasing"
  BY <1>2 DEF CutOff, EraseBlock, Magic, Content
<1>3. CASE pc[p] = "write"
  <2>1. NewChunk(p) \in Content
    BY DEF NewChunk, Content
  <2>2. chk[p] \in Chunk /\ chunk[chk[p]] \in Content /\ Garbage \in Content
    BY DEF Content
  <2>3. Program(chunk[chk[p]], NewChunk(p)) \in Content
    BY <2>1, <2>2, ProgramType
  <2> QED
    BY <1>3, <2>2, <2>3 DEF CutOff
<1>4. CASE pc[p] = "magic"
  BY <1>4, ProgramMagicType DEF CutOff, Magic
<1>5. CASE pc[p] \notin {"clear", "erasing", "write", "magic"}
  BY <1>5 DEF CutOff, flash
<1> QED
  BY <1>1, <1>2, <1>3, <1>4, <1>5

-----------------------------------------------------------------------------
(* Type correctness.  TypeOK is not inductive: the write loop stays within *)
(* the partition because it stops at the last chunk of the image.          *)

ChunkInv(p) == pc[p] = "write" => chk[p] <= ImageChunks[version[p]]

TypeInv == TypeOK /\ \A p \in Committer : ChunkInv(p)

LEMMA TypeInit == Init => TypeInv
<1> SUFFICES ASSUME Init PROVE TypeInv
  OBVIOUS
<1>1. /\ mem \in Version \cup {Corrupt} /\ magic \in Magic
      /\ stored \in Version \cup {Corrupt, NoCommit} /\ risked \in {"yes", "no"}
  BY DEF Init, Version, Magic
<1>2. chunk \in [Chunk -> Content]
  BY DEF Init, Content, Version
<1>3. /\ newest \in Version /\ nvram_sem \in {0, 1}
      /\ reset \in 0 .. NBlock /\ commits \in 0 .. MaxCommits
      /\ crashes \in 0 .. MaxCrashes
  BY DEF Init, Version
<1>4. /\ pc = NoProc
      /\ pc \in [Committer -> Holding \cup {"idle", "down"}]
      /\ task \in [Committer -> {"RUNNING", "INTERRUPTIBLE"}]
      /\ ret \in [Committer -> {"none", "0", "EIO", "ENOMEM"}]
  BY DEF Init, NoProc
<1>5. /\ pre \in [Committer -> Content]
      /\ version \in [Committer -> Version \cup {Corrupt}]
      /\ seen \in [Committer -> Version \cup {Corrupt}]
  BY DEF Init, Content, Version
<1>6. blk \in [Committer -> Block] /\ chk \in [Committer -> Chunk]
  BY DEF Init, Block, Chunk
<1> QED
  BY <1>1, <1>2, <1>3, <1>4, <1>5, <1>6 DEF TypeInv, TypeOK, ChunkInv, NoProc

(* One step of nvram_commit.                                               *)
LEMMA TypeStep ==
  ASSUME TypeInv, NEW p \in Committer, Call(p) \/ Step(p)
  PROVE  TypeOK'
<1> TypeOK /\ ChunkInv(p)
  BY DEF TypeInv
<1> USE DEF TypeOK, Goto, Return, Holding, world, scratch, loop, flash
<1>0. Fail(p) => /\ magic' \in Magic /\ chunk' \in [Chunk -> Content]
                 /\ pc' = [pc EXCEPT ![p] = "done"] /\ ret' = [ret EXCEPT ![p] = "EIO"]
                 /\ risked' \in {"yes", "no"}
  BY CutOffType DEF Fail
<1>1. CASE Call(p)
  BY <1>1 DEF Call
<1>2. CASE Down(p)
  BY <1>2 DEF Down
<1>3. CASE Backup(p)
  <2>1. chunk[0] \in Content
    BY DEF Chunk
  <2>2. pre' \in [Committer -> Content]
    BY <1>3, <2>1 DEF Backup
  <2> QED
    BY <1>0, <1>3, <2>2 DEF Backup
<1>4. CASE ClearMagic(p)
  BY <1>0, <1>4, ProgramMagicType DEF ClearMagic, Magic
<1>5. CASE Regenerate(p)
  BY <1>5 DEF Regenerate, Block
<1>6. CASE PrepareErase(p)
  BY <1>6 DEF PrepareErase
<1>7. CASE Erase(p)
  BY <1>0, <1>7 DEF Erase, EraseBlock, Magic, Content
<1>8. CASE Schedule(p)
  <2>1. LastBlock(p) \in Block
    BY DEF LastBlock, Chunk
  <2> QED
    <3>1. blk' \in [Committer -> Block]
      BY <1>8, <2>1 DEF Schedule, Block
    <3>2. chk' \in [Committer -> Chunk]
      <4>1. 0 \in Chunk /\ 1 \in Chunk
        BY DEF Chunk
      <4>2. CASE blk[p] < LastBlock(p)
        BY <1>8, <4>2 DEF Schedule
      <4>3. CASE ~(blk[p] < LastBlock(p))
        <5>1. chk' = [chk EXCEPT ![p] = IF HasPre THEN 0 ELSE 1]
          BY <1>8, <4>3 DEF Schedule
        <5> QED
          BY <4>1, <5>1
      <4> QED
        BY <4>2, <4>3
    <3> QED
      BY <1>8, <3>1, <3>2 DEF Schedule
<1>9. CASE WriteBody(p)
  <2>1. NewChunk(p) \in Content
    BY DEF NewChunk, Content
  <2>2. Program(chunk[chk[p]], NewChunk(p)) \in Content
    BY <2>1, ProgramType
  <2>3. ProgramMagic(magic, BodyMagic) \in Magic
    BY ProgramMagicType DEF BodyMagic, Magic
  <2>4. magic' \in Magic /\ chunk' \in [Chunk -> Content]
    BY <1>0, <1>9, <2>2, <2>3 DEF WriteBody
  <2>5. chk' \in [Committer -> Chunk]
    <3>1. ImageChunks[version[p]] \in 1 .. NChunk
      OBVIOUS
    <3>2. chk[p] # ImageChunks[version[p]] => chk[p] + 1 \in Chunk
      BY <1>9, <3>1 DEF WriteBody, ChunkInv, Chunk
    <3> QED
      BY <1>9, <3>2 DEF WriteBody
  <2> QED
    BY <1>0, <1>9, <2>4, <2>5 DEF WriteBody
<1>10. CASE WriteMagic(p)
  BY <1>0, <1>10, ProgramMagicType DEF WriteMagic, Magic
<1>11. CASE Reread(p)
  BY <1>0, <1>11 DEF Reread
<1>12. CASE Done(p)
  BY <1>12 DEF Done
<1> QED
  BY <1>1, <1>2, <1>3, <1>4, <1>5, <1>6, <1>7, <1>8, <1>9, <1>10, <1>11, <1>12
     DEF Step

(* Only Schedule and WriteBody reach or stay at the write loop.            *)
LEMMA ChunkStep ==
  ASSUME TypeInv, NEW p \in Committer, Call(p) \/ Step(p), NEW q \in Committer
  PROVE  ChunkInv(q)'
<1> TypeOK /\ ChunkInv(p) /\ ChunkInv(q)
  BY DEF TypeInv
<1> USE DEF Goto, Return, world, scratch, loop, flash
<1>1. ImageChunks[version[p]] \in 1 .. NChunk
  BY DEF TypeOK
<1>2. CASE Schedule(p)
  BY <1>1, <1>2 DEF Schedule, ChunkInv, TypeOK
<1>3. CASE WriteBody(p)
  <2>1. CASE p = q
    BY <1>1, <1>3, <2>1 DEF WriteBody, ChunkInv, TypeOK, Fail, Chunk
  <2>2. CASE p # q
    BY <1>3, <2>2 DEF WriteBody, ChunkInv, TypeOK, Fail
  <2> QED
    BY <2>1, <2>2
<1>4. CASE Call(p) \/ Down(p) \/ Backup(p) \/ ClearMagic(p) \/ PrepareErase(p)
           \/ Erase(p) \/ WriteMagic(p) \/ Reread(p) \/ Done(p)
  BY <1>4 DEF Call, Down, Backup, ClearMagic, PrepareErase, Erase, WriteMagic,
              Reread, Done, Fail, ChunkInv, TypeOK
<1>5. CASE Regenerate(p)
  BY <1>5 DEF Regenerate, ChunkInv, TypeOK
<1> QED
  BY <1>2, <1>3, <1>4, <1>5 DEF Step

LEMMA TypeNext == TypeInv /\ [Next]_vars => TypeInv'
<1> SUFFICES ASSUME TypeInv, [Next]_vars PROVE TypeInv'
  OBVIOUS
<1> TypeOK
  BY DEF TypeInv
<1> USE DEF world, scratch, loop, proc, flash
<1>1. ASSUME NEW p \in Committer, Call(p) \/ Step(p) PROVE TypeInv'
  BY <1>1, TypeStep, ChunkStep DEF TypeInv
<1>2. CASE nvram_set
  BY <1>2 DEF nvram_set, TypeInv, ChunkInv, TypeOK, Version
<1>3. CASE Crash
  <2>1. magic' \in Magic /\ chunk' \in [Chunk -> Content]
    BY <1>3, CutOffType DEF Crash, TypeOK
  <2>2. mem' \in Version \cup {Corrupt}
    BY <1>3, <2>1 DEF Crash, Loaded, Complete, Version
  <2>3. TypeOK'
    BY <1>3, <2>1, <2>2 DEF Crash, NoProc, TypeOK
  <2> QED
    BY <1>3, <2>3 DEF Crash, NoProc, TypeInv, ChunkInv
<1>4. CASE UNCHANGED vars
  BY <1>4 DEF vars, TypeInv, ChunkInv, TypeOK
<1> QED
  BY <1>1, <1>2, <1>3, <1>4 DEF Next

\* The driver's variables keep their types, whatever processes, errors and
\* power losses do: no loop of nvram_commit leaves the partition.
THEOREM TypeCorrect == Spec => []TypeOK
<1>1. TypeInv => TypeOK
  BY DEF TypeInv
<1> QED
  BY <1>1, TypeInit, TypeNext, PTL DEF Spec

-----------------------------------------------------------------------------
(***************************************************************************)
(* What the protocol has established when committer p is at a given point. *)
(* ValidImage alone is not inductive: that the magic word may be written   *)
(* at "magic" depends on the blocks erased and the chunks written before.  *)
(***************************************************************************)
Image(v) == \A k \in 1 .. ImageChunks[v] : chunk[k] = v

Working == {"regen", "erase", "erasing", "schedule", "write", "magic"}

WorkingInv(p) ==
  pc[p] \in Working => magic # "MAGIC" /\ stored = NoCommit

VersionInv(p) ==
  pc[p] \in {"erase", "erasing", "schedule", "write", "magic", "reread"} =>
     version[p] \in Version

EraseInv(p) ==
  pc[p] \in {"erase", "erasing"} =>
     /\ blk[p] <= LastBlock(p)
     /\ \A k \in Chunk : BlockOf[k] < blk[p] => chunk[k] = Erased
     /\ blk[p] > 1 => magic = "ONES"

ScheduleInv(p) ==
  pc[p] = "schedule" =>
     /\ blk[p] <= LastBlock(p)
     /\ \A k \in Chunk : BlockOf[k] <= blk[p] => chunk[k] = Erased
     /\ magic = "ONES"

WriteInv(p) ==
  pc[p] = "write" =>
     /\ magic = "ONES"
     /\ chk[p] <= ImageChunks[version[p]]
     /\ \A k \in 1 .. ImageChunks[version[p]] :
           chunk[k] = IF k < chk[p] THEN version[p] ELSE Erased

MagicInv(p) ==
  pc[p] = "magic" => magic = "ONES" /\ Image(version[p])

WrittenInv(p) ==
  pc[p] = "reread" \/ (pc[p] = "done" /\ ret[p] = "0") =>
     /\ magic = "MAGIC"
     /\ version[p] \in Version
     /\ Image(version[p])
     /\ stored = NoCommit

PhaseInv(p) ==
  /\ WorkingInv(p) /\ VersionInv(p) /\ EraseInv(p) /\ ScheduleInv(p)
  /\ WriteInv(p) /\ MagicInv(p) /\ WrittenInv(p)

IInv ==
  /\ TypeInv
  /\ SemaphoreBalanced
  /\ ValidImage
  /\ BootSound
  /\ Durable
  /\ \A p \in Committer : PhaseInv(p)

-----------------------------------------------------------------------------
(* Nothing is claimed of a committer outside the protocol, and nothing that *)
(* is claimed depends on more than its own state, the flash and stored.     *)

LEMMA OutsideInv ==
  ASSUME NEW q \in Committer, pc[q] \notin Holding
  PROVE  PhaseInv(q)
BY DEF PhaseInv, WorkingInv, Working, VersionInv, EraseInv, ScheduleInv, WriteInv,
       MagicInv, WrittenInv, Holding

(* While p is inside, another committer is outside, and stays there.       *)
LEMMA OthersInv ==
  ASSUME IInv, NEW p \in Committer, NEW q \in Committer, p # q,
         pc[p] \in Holding, NEW l, Goto(p, l)
  PROVE  PhaseInv(q)'
<1>1. pc[q] \notin Holding
  BY DEF IInv, SemaphoreBalanced
<1>2. pc'[q] \notin Holding
  BY <1>1 DEF Goto, IInv, TypeInv, TypeOK
<1> QED
  BY <1>2 DEF PhaseInv, WorkingInv, Working, VersionInv, EraseInv, ScheduleInv,
              WriteInv, MagicInv, WrittenInv, Holding

(* A complete image of version v is what a boot finds behind the magic.    *)
LEMMA ImageComplete ==
  ASSUME NEW v \in Version, Image(v)
  PROVE  Complete /\ chunk[1] = v
<1>1. 1 \in 1 .. ImageChunks[v]
  OBVIOUS
<1> QED
  BY <1>1 DEF Image, Complete

(***************************************************************************)
(* The heart of the argument: an MTD operation that fails or is cut off    *)
(* leaves the magic word invalid, or a complete image behind it.           *)
(***************************************************************************)
LEMMA CutOffValid ==
  ASSUME IInv, NEW p \in Committer, CutOff(p)
  PROVE  ValidImage'
<1> PhaseInv(p) /\ TypeOK /\ ValidImage
  BY DEF IInv, TypeInv
<1>1. CASE pc[p] = "clear"
  BY <1>1 DEF CutOff, ValidImage, Complete
<1>2. CASE pc[p] = "erasing"
  <2>1. magic # "MAGIC"
    BY <1>2 DEF PhaseInv, WorkingInv, Working
  <2> QED
    BY <1>2, <2>1 DEF CutOff, EraseBlock, ValidImage
<1>3. CASE pc[p] = "write"
  BY <1>3 DEF CutOff, PhaseInv, WriteInv, ValidImage
<1>4. CASE pc[p] = "magic"
  <2>1. version[p] \in Version /\ Image(version[p])
    BY <1>4 DEF PhaseInv, VersionInv, MagicInv
  <2>2. Complete
    BY <2>1, ImageComplete
  <2> QED
    BY <1>4, <2>2 DEF CutOff, ValidImage, Complete
<1>5. CASE pc[p] \notin {"clear", "erasing", "write", "magic"}
  BY <1>5 DEF CutOff, flash, ValidImage, Complete
<1> QED
  BY <1>1, <1>2, <1>3, <1>4, <1>5

(* A failed operation ends the call with an error.                         *)
LEMMA FailPhase ==
  ASSUME IInv, NEW p \in Committer, Fail(p)
  PROVE  PhaseInv(p)'
<1>1. pc'[p] = "done" /\ ret'[p] = "EIO"
  BY DEF Fail, Goto, Return, IInv, TypeInv, TypeOK
<1> QED
  BY <1>1 DEF PhaseInv, WorkingInv, Working, VersionInv, EraseInv, ScheduleInv,
              WriteInv, MagicInv, WrittenInv

-----------------------------------------------------------------------------
(* The semaphore.                                                          *)

LEMMA SemStep ==
  ASSUME IInv, NEW p \in Committer, Call(p) \/ Step(p)
  PROVE  SemaphoreBalanced'
<1> TypeOK /\ SemaphoreBalanced
  BY DEF IInv, TypeInv
<1> USE DEF Goto, SemaphoreBalanced, TypeOK
<1>1. CASE Call(p)
  <2>1. \A q \in Committer : pc'[q] \in Holding <=> pc[q] \in Holding
    BY <1>1 DEF Call, Holding
  <2> QED
    BY <1>1, <2>1 DEF Call
<1>2. CASE Down(p)
  <2>1. \A q \in Committer : pc[q] \notin Holding
    BY <1>2 DEF Down
  <2>2. pc'[p] \in Holding /\ \A q \in Committer : q # p => pc'[q] \notin Holding
    BY <1>2, <2>1 DEF Down, Holding
  <2> QED
    BY <1>2, <2>2 DEF Down
<1>3. CASE Done(p)
  <2>1. \A q \in Committer : pc'[q] \notin Holding
    BY <1>3 DEF Done, Holding
  <2> QED
    BY <1>3, <2>1 DEF Done
<1>4. CASE Backup(p) \/ ClearMagic(p) \/ Regenerate(p) \/ PrepareErase(p) \/ Erase(p)
           \/ Schedule(p) \/ WriteBody(p) \/ WriteMagic(p) \/ Reread(p)
  <2>1. pc[p] \in Holding /\ pc'[p] \in Holding
    BY <1>4 DEF Backup, ClearMagic, Regenerate, PrepareErase, Erase, Schedule,
                WriteBody, WriteMagic, Reread, Fail, Holding
  <2>2. nvram_sem' = nvram_sem /\ \A q \in Committer : q # p => pc'[q] = pc[q]
    BY <1>4 DEF Backup, ClearMagic, Regenerate, PrepareErase, Erase, Schedule,
                WriteBody, WriteMagic, Reread, Fail
  <2> QED
    BY <2>1, <2>2
<1> QED
  BY <1>1, <1>2, <1>3, <1>4 DEF Step

-----------------------------------------------------------------------------
(* One step of nvram_commit keeps the flash part of the invariant.         *)

FlashInv == ValidImage /\ BootSound /\ Durable /\ \A q \in Committer : PhaseInv(q)

(* Call and Down change neither the flash nor what a holder relies on.     *)
LEMMA EnterStep ==
  ASSUME IInv, NEW p \in Committer, Call(p) \/ Down(p)
  PROVE  FlashInv'
<1> USE DEF Goto, Return, world, scratch, loop, flash
<1>1. ASSUME NEW q \in Committer PROVE PhaseInv(q)'
  <2> PhaseInv(q) /\ TypeOK
    BY <1>1 DEF IInv, TypeInv
  <2>1. CASE p = q
    <3>1. pc'[p] \in {"idle", "down", "backup"}
      BY <2>1 DEF Call, Down, TypeOK
    <3> QED
      BY <2>1, <3>1 DEF PhaseInv, WorkingInv, Working, VersionInv, EraseInv,
         ScheduleInv, WriteInv, MagicInv, WrittenInv
  <2>2. CASE p # q
    <3>1. /\ pc'[q] = pc[q] /\ ret'[q] = ret[q]
          /\ UNCHANGED <<magic, chunk, stored, version, blk, chk>>
      BY <2>2 DEF Call, Down, TypeOK
    <3> QED
      BY <3>1 DEF PhaseInv, WorkingInv, Working, VersionInv, EraseInv, LastBlock,
         ScheduleInv, WriteInv, MagicInv, WrittenInv, Image
  <2> QED
    BY <2>1, <2>2
<1>2. ValidImage' /\ BootSound' /\ Durable'
  BY DEF IInv, Call, Down, ValidImage, BootSound, Durable, Loaded, Complete
<1> QED
  BY <1>1, <1>2 DEF FlashInv

(* A step inside the protocol: what it must show for p itself is enough.   *)
LEMMA InsideStep ==
  ASSUME IInv, NEW p \in Committer, pc[p] \in Holding, NEW l, Goto(p, l),
         UNCHANGED mem, ValidImage', Durable', PhaseInv(p)'
  PROVE  FlashInv'
<1>1. BootSound'
  BY DEF IInv, BootSound
<1>2. \A q \in Committer : q # p => PhaseInv(q)'
  BY OthersInv
<1> QED
  BY <1>1, <1>2 DEF FlashInv

(* A failed operation of a committer that has cleared the magic word, or   *)
(* that touches nothing.                                                   *)
LEMMA FailStep ==
  ASSUME IInv, NEW p \in Committer, pc[p] \in Holding, Fail(p), UNCHANGED mem,
         stored' = NoCommit \/ UNCHANGED <<flash, stored>>
  PROVE  FlashInv'
<1>1. ValidImage'
  BY CutOffValid DEF Fail
<1>2. Durable'
  BY DEF IInv, Durable, Loaded, Complete, flash
<1>3. PhaseInv(p)' /\ Goto(p, "done")
  BY FailPhase DEF Fail
<1> QED
  BY <1>1, <1>2, <1>3, InsideStep

LEMMA FlashStep ==
  ASSUME IInv, NEW p \in Committer, Step(p)
  PROVE  FlashInv'
<1> TypeOK /\ PhaseInv(p) /\ ValidImage /\ Durable /\ BootSound
  BY DEF IInv, TypeInv
<1> USE DEF Return, world, scratch, loop, flash
<1>c. ImageChunks[version[p]] \in 1 .. NChunk /\ blk[p] \in Nat /\ chk[p] \in Nat
  BY DEF TypeOK, Block, Chunk
<1>1. CASE Down(p)
  BY <1>1, EnterStep
<1>2. CASE Backup(p)
  <2>0. pc[p] \in Holding /\ UNCHANGED <<mem, stored>>
    BY <1>2 DEF Backup, Holding
  <2>1. CASE Fail(p)
    <3>1. UNCHANGED flash
      BY <1>2, <2>1 DEF Backup, Fail, CutOff
    <3> QED
      BY <2>0, <2>1, <3>1, FailStep
  <2>2. CASE ~Fail(p)
    <3>1. Goto(p, "clear") /\ UNCHANGED <<magic, chunk>>
      BY <1>2, <2>2 DEF Backup
    <3>2. PhaseInv(p)'
      BY <3>1 DEF Goto, TypeOK, PhaseInv, WorkingInv, Working, VersionInv,
         EraseInv, ScheduleInv, WriteInv, MagicInv, WrittenInv
    <3>3. ValidImage' /\ Durable'
      BY <2>0, <3>1 DEF ValidImage, Durable, Loaded, Complete
    <3> QED
      BY <2>0, <3>1, <3>2, <3>3, InsideStep
  <2> QED
    BY <2>1, <2>2
<1>3. CASE ClearMagic(p)
  <2>0. pc[p] \in Holding /\ UNCHANGED mem /\ stored' = NoCommit
    BY <1>3 DEF ClearMagic, Holding
  <2>1. CASE Fail(p)
    BY <2>0, <2>1, FailStep
  <2>2. CASE ~Fail(p)
    <3>1. Goto(p, "regen") /\ magic' = "ZERO"
      BY <1>3, <2>2 DEF ClearMagic, ProgramMagic
    <3>2. PhaseInv(p)'
      BY <2>0, <3>1 DEF Goto, TypeOK, PhaseInv, WorkingInv, Working, VersionInv,
         EraseInv, ScheduleInv, WriteInv, MagicInv, WrittenInv
    <3>3. ValidImage' /\ Durable'
      BY <2>0, <3>1 DEF ValidImage, Durable
    <3> QED
      BY <2>0, <3>1, <3>2, <3>3, InsideStep
  <2> QED
    BY <2>1, <2>2
<1>4. CASE Regenerate(p)
  <2>0. /\ pc[p] \in Holding /\ Goto(p, "erase")
        /\ UNCHANGED <<mem, magic, chunk, stored>>
    BY <1>4 DEF Regenerate, Holding
  <2>1. version'[p] = mem /\ mem \in Version /\ blk'[p] = 1
    BY <1>4 DEF Regenerate, TypeOK, BootSound
  <2>2. magic # "MAGIC" /\ stored = NoCommit
    BY <1>4 DEF Regenerate, PhaseInv, WorkingInv, Working
  <2>3. blk'[p] <= LastBlock(p)'
    <3>1. BlockOf[ImageChunks[mem]] \in Block
      BY <2>1 DEF Chunk
    <3> QED
      BY <2>1, <3>1 DEF LastBlock, Block
  <2>4. \A k \in Chunk : ~(BlockOf[k] < 1)
    BY DEF Block
  <2>5. PhaseInv(p)'
    BY <2>0, <2>1, <2>2, <2>3, <2>4 DEF Goto, TypeOK, PhaseInv, WorkingInv, Working,
       VersionInv, EraseInv, ScheduleInv, WriteInv, MagicInv, WrittenInv
  <2>6. ValidImage' /\ Durable'
    BY <2>0, <2>2 DEF ValidImage, Durable
  <2> QED
    BY <2>0, <2>5, <2>6, InsideStep
<1>5. CASE PrepareErase(p)
  <2>0. /\ pc[p] \in Holding /\ pc[p] = "erase" /\ Goto(p, "erasing")
        /\ UNCHANGED <<mem, magic, chunk, stored, version, blk, chk, ret>>
    BY <1>5 DEF PrepareErase, Holding
  <2>1. PhaseInv(p)'
    BY <2>0 DEF Goto, TypeOK, PhaseInv, WorkingInv, Working, VersionInv, EraseInv,
       LastBlock, ScheduleInv, WriteInv, MagicInv, WrittenInv
  <2>2. ValidImage' /\ Durable'
    BY <2>0 DEF ValidImage, Durable, Loaded, Complete
  <2> QED
    BY <2>0, <2>1, <2>2, InsideStep
<1>6. CASE Erase(p)
  <2>0. /\ pc[p] \in Holding /\ pc[p] = "erasing"
        /\ UNCHANGED <<mem, stored, version, blk, chk>>
    BY <1>6 DEF Erase, Holding
  <2>1. magic # "MAGIC" /\ stored = NoCommit
    BY <2>0 DEF PhaseInv, WorkingInv, Working
  <2>2. CASE Fail(p)
    BY <2>0, <2>1, <2>2, FailStep
  <2>3. CASE ~Fail(p)
    <3>1. Goto(p, "schedule") /\ EraseBlock(blk[p], Erased, "ONES")
      BY <1>6, <2>3 DEF Erase
    <3>2. magic' = "ONES"
      BY <1>c, <2>0, <3>1 DEF EraseBlock, PhaseInv, EraseInv, TypeOK, Block
    <3>3. \A k \in Chunk : BlockOf[k] <= blk[p] => chunk'[k] = Erased
      <4>1. \A k \in Chunk : BlockOf[k] \in Nat
        BY DEF Block
      <4>2. \A k \in Chunk : BlockOf[k] < blk[p] => chunk[k] = Erased
        BY <2>0 DEF PhaseInv, EraseInv
      <4>3. \A k \in Chunk : chunk'[k] = IF BlockOf[k] = blk[p] THEN Erased ELSE chunk[k]
        BY <3>1 DEF EraseBlock
      <4> QED
        BY <1>c, <4>1, <4>2, <4>3
    <3>4. blk[p] <= LastBlock(p) /\ version[p] \in Version /\ LastBlock(p)' = LastBlock(p)
      BY <2>0 DEF PhaseInv, EraseInv, VersionInv, LastBlock
    <3>5. PhaseInv(p)'
      BY <2>0, <2>1, <3>1, <3>2, <3>3, <3>4 DEF Goto, TypeOK, PhaseInv, WorkingInv,
         Working, VersionInv, EraseInv, ScheduleInv, WriteInv, MagicInv, WrittenInv
    <3>6. ValidImage' /\ Durable'
      BY <2>0, <2>1, <3>2 DEF ValidImage, Durable
    <3> QED
      BY <2>0, <3>1, <3>5, <3>6, InsideStep
  <2> QED
    BY <2>2, <2>3
<1>7. CASE Schedule(p)
  <2>0. /\ pc[p] \in Holding /\ pc[p] = "schedule"
        /\ UNCHANGED <<mem, magic, chunk, stored, version, ret>>
    BY <1>7 DEF Schedule, Holding
  <2>1. /\ magic = "ONES" /\ stored = NoCommit /\ version[p] \in Version
        /\ \A k \in Chunk : BlockOf[k] <= blk[p] => chunk[k] = Erased
    BY <2>0 DEF PhaseInv, WorkingInv, Working, ScheduleInv, VersionInv
  <2>2. LastBlock(p) \in Nat /\ \A k \in Chunk : BlockOf[k] \in Nat
    BY <1>c DEF LastBlock, Block, Chunk
  <2>3. ValidImage' /\ Durable'
    BY <2>0, <2>1 DEF ValidImage, Durable
  <2>4. CASE blk[p] < LastBlock(p)
    <3>1. Goto(p, "erase") /\ blk'[p] = blk[p] + 1
      BY <1>7, <2>4 DEF Schedule, TypeOK
    <3>2. LastBlock(p)' = LastBlock(p)
      BY <2>0 DEF LastBlock
    <3>3. blk'[p] <= LastBlock(p)' /\ \A k \in Chunk : BlockOf[k] < blk'[p] => chunk[k] = Erased
      BY <1>c, <2>1, <2>2, <2>4, <3>1, <3>2
    <3>4. PhaseInv(p)'
      BY <2>0, <2>1, <3>1, <3>3 DEF Goto, TypeOK, PhaseInv, WorkingInv, Working,
         VersionInv, EraseInv, ScheduleInv, WriteInv, MagicInv, WrittenInv
    <3> QED
      BY <2>0, <2>3, <3>1, <3>4, InsideStep
  <2>5. CASE ~(blk[p] < LastBlock(p))
    <3>1. Goto(p, "write") /\ chk'[p] = (IF HasPre THEN 0 ELSE 1)
      BY <1>7, <2>5 DEF Schedule, TypeOK
    <3>2. \A k \in 1 .. ImageChunks[version[p]] : chunk[k] = Erased
      <4> SUFFICES ASSUME NEW k \in 1 .. ImageChunks[version[p]]
                   PROVE  chunk[k] = Erased
        OBVIOUS
      <4>1. k \in Chunk /\ ImageChunks[version[p]] \in Chunk /\ k <= ImageChunks[version[p]]
        BY <1>c DEF Chunk
      <4>2. BlockOf[k] <= LastBlock(p)
        BY <4>1 DEF LastBlock
      <4> QED
        BY <1>c, <2>1, <2>2, <2>5, <4>1, <4>2
    <3>3. WriteInv(p)'
      <4>1. chk'[p] <= ImageChunks[version'[p]]
        BY <1>c, <2>0, <3>1
      <4>2. \A k \in 1 .. ImageChunks[version[p]] : ~(k < chk'[p])
        BY <1>c, <3>1
      <4> QED
        BY <2>0, <2>1, <3>2, <4>1, <4>2 DEF WriteInv
    <3>4. PhaseInv(p)'
      BY <2>0, <2>1, <3>1, <3>3 DEF Goto, TypeOK, PhaseInv, WorkingInv, Working,
         VersionInv, EraseInv, ScheduleInv, MagicInv, WrittenInv
    <3> QED
      BY <2>0, <2>3, <3>1, <3>4, InsideStep
  <2> QED
    BY <2>4, <2>5
<1>8. CASE WriteBody(p)
  <2>0. /\ pc[p] \in Holding /\ pc[p] = "write"
        /\ UNCHANGED <<mem, stored, version, blk>>
    BY <1>8 DEF WriteBody, Holding
  <2>1. /\ magic = "ONES" /\ stored = NoCommit /\ version[p] \in Version
        /\ chk[p] <= ImageChunks[version[p]]
        /\ \A k \in 1 .. ImageChunks[version[p]] :
              chunk[k] = IF k < chk[p] THEN version[p] ELSE Erased
    BY <2>0 DEF PhaseInv, WorkingInv, Working, WriteInv, VersionInv
  <2>2. CASE Fail(p)
    BY <2>0, <2>1, <2>2, FailStep
  <2>3. CASE ~Fail(p)
    <3>1. magic' = "ONES"
      BY <1>8, <2>1, <2>3 DEF WriteBody, ProgramMagic, BodyMagic
    <3>2. chunk' = [chunk EXCEPT ![chk[p]] = Program(@, NewChunk(p))]
      BY <1>8, <2>3 DEF WriteBody
    <3>3. \A k \in 1 .. ImageChunks[version[p]] :
              chunk'[k] = IF k < chk[p] + 1 THEN version[p] ELSE Erased
      <4> SUFFICES ASSUME NEW k \in 1 .. ImageChunks[version[p]]
                   PROVE  chunk'[k] = IF k < chk[p] + 1 THEN version[p] ELSE Erased
        OBVIOUS
      <4>1. k \in Chunk /\ chk[p] \in Chunk /\ k # 0 /\ k \in Nat
        BY <1>c DEF Chunk, TypeOK
      <4>2. CASE k = chk[p]
        <5>1. chunk[k] = Erased
          BY <2>1, <4>1, <4>2
        <5>2. chunk'[k] = version[p]
          BY <3>2, <4>1, <4>2, <5>1 DEF Program, NewChunk, TypeOK
        <5> QED
          BY <1>c, <4>2, <5>2
      <4>3. CASE k # chk[p]
        <5>1. chunk'[k] = chunk[k]
          BY <3>2, <4>1, <4>3 DEF TypeOK
        <5>2. (k < chk[p] + 1) <=> (k < chk[p])
          BY <1>c, <4>1, <4>3
        <5> QED
          BY <2>1, <5>1, <5>2
      <4> QED
        BY <4>2, <4>3
    <3>4. ValidImage' /\ Durable'
      BY <2>0, <2>1, <3>1 DEF ValidImage, Durable
    <3>5. CASE chk[p] = ImageChunks[version[p]]
      <4>1. Goto(p, "magic")
        BY <1>8, <2>3, <3>5 DEF WriteBody
      <4>2. Image(version[p])'
        BY <1>c, <2>0, <3>3, <3>5 DEF Image
      <4>3. PhaseInv(p)'
        BY <2>0, <2>1, <3>1, <4>1, <4>2 DEF Goto, TypeOK, PhaseInv, WorkingInv, Working,
           VersionInv, EraseInv, ScheduleInv, WriteInv, MagicInv, WrittenInv
      <4> QED
        BY <2>0, <3>4, <4>1, <4>3, InsideStep
    <3>6. CASE chk[p] # ImageChunks[version[p]]
      <4>1. chk'[p] = chk[p] + 1 /\ UNCHANGED pc
        BY <1>8, <2>3, <3>6 DEF WriteBody, TypeOK
      <4>2. Goto(p, "write")
        BY <2>0, <4>1 DEF Goto, TypeOK
      <4>3. chk'[p] <= ImageChunks[version[p]]
        BY <1>c, <2>1, <3>6, <4>1
      <4>4. WriteInv(p)'
        BY <2>0, <3>1, <3>3, <4>1, <4>3 DEF WriteInv
      <4>5. PhaseInv(p)'
        BY <2>0, <2>1, <3>1, <4>1, <4>4 DEF PhaseInv, WorkingInv, Working,
           VersionInv, EraseInv, ScheduleInv, MagicInv, WrittenInv
      <4> QED
        BY <2>0, <3>4, <4>2, <4>5, InsideStep
    <3> QED
      BY <3>5, <3>6
  <2> QED
    BY <2>2, <2>3
<1>9. CASE WriteMagic(p)
  <2>0. /\ pc[p] \in Holding /\ pc[p] = "magic"
        /\ UNCHANGED <<mem, stored, version>>
    BY <1>9 DEF WriteMagic, Holding
  <2>1. /\ magic = "ONES" /\ stored = NoCommit /\ version[p] \in Version
        /\ Image(version[p])
    BY <2>0 DEF PhaseInv, WorkingInv, Working, MagicInv, VersionInv
  <2>2. CASE Fail(p)
    BY <2>0, <2>1, <2>2, FailStep
  <2>3. CASE ~Fail(p)
    <3>1. Goto(p, "reread") /\ magic' = "MAGIC" /\ UNCHANGED chunk
      BY <1>9, <2>1, <2>3 DEF WriteMagic, ProgramMagic
    <3>2. Complete
      BY <2>1, ImageComplete
    <3>3. ValidImage' /\ Durable'
      BY <2>0, <2>1, <3>1, <3>2 DEF ValidImage, Durable, Complete
    <3>4. PhaseInv(p)'
      BY <2>0, <2>1, <3>1 DEF Goto, TypeOK, PhaseInv, WorkingInv, Working,
         VersionInv, EraseInv, ScheduleInv, WriteInv, MagicInv, WrittenInv, Image
    <3> QED
      BY <2>0, <3>1, <3>3, <3>4, InsideStep
  <2> QED
    BY <2>2, <2>3
<1>10. CASE Reread(p)
  <2>0. /\ pc[p] \in Holding /\ pc[p] = "reread"
        /\ UNCHANGED <<mem, stored, version>>
    BY <1>10 DEF Reread, Holding
  <2>1. CASE Fail(p)
    <3>1. UNCHANGED flash
      BY <2>0, <2>1 DEF Fail, CutOff
    <3> QED
      BY <2>0, <2>1, <3>1, FailStep
  <2>2. CASE ~Fail(p)
    <3>1. Goto(p, "done") /\ UNCHANGED <<magic, chunk>>
      BY <1>10, <2>2 DEF Reread
    <3>2. PhaseInv(p)'
      BY <2>0, <3>1 DEF Goto, TypeOK, PhaseInv, WorkingInv, Working, VersionInv,
         EraseInv, ScheduleInv, WriteInv, MagicInv, WrittenInv, Image
    <3>3. ValidImage' /\ Durable'
      BY <2>0, <3>1 DEF ValidImage, Durable, Loaded, Complete
    <3> QED
      BY <2>0, <3>1, <3>2, <3>3, InsideStep
  <2> QED
    BY <2>1, <2>2
<1>11. CASE Done(p)
  <2>0. /\ pc[p] \in Holding /\ pc[p] = "done" /\ Goto(p, "idle")
        /\ UNCHANGED <<mem, magic, chunk, version>>
    BY <1>11 DEF Done, Holding
  <2>1. ret[p] = "0" => stored' = version[p] /\ Loaded = version[p]
    BY <1>11, <2>0, ImageComplete DEF Done, PhaseInv, WrittenInv, Loaded
  <2>2. ret[p] # "0" => stored' = stored
    BY <1>11 DEF Done
  <2>3. ValidImage' /\ Durable'
    BY <2>0, <2>1, <2>2 DEF ValidImage, Durable, Loaded, Complete
  <2>4. PhaseInv(p)'
    BY <2>0 DEF Goto, TypeOK, PhaseInv, WorkingInv, Working, VersionInv, EraseInv,
       ScheduleInv, WriteInv, MagicInv, WrittenInv
  <2> QED
    BY <2>0, <2>3, <2>4, InsideStep
<1> QED
  BY <1>1, <1>2, <1>3, <1>4, <1>5, <1>6, <1>7, <1>8, <1>9, <1>10, <1>11 DEF Step

-----------------------------------------------------------------------------
(* The invariant, provided that nothing erases behind the driver's back.   *)

LEMMA IInvInit == Init => IInv
<1> SUFFICES ASSUME Init PROVE IInv
  OBVIOUS
<1>1. TypeInv
  BY TypeInit
<1>2. \A p \in Committer : pc[p] = "idle"
  BY DEF Init, NoProc
<1>3. SemaphoreBalanced
  BY <1>2 DEF SemaphoreBalanced, Holding, Init
<1>4. magic = "MAGIC" => /\ 1 \in Version /\ stored = 1
                         /\ \A k \in 1 .. ImageChunks[1] : chunk[k] = 1
  BY DEF Init, Version, Chunk
<1>5. magic = "MAGIC" => Complete /\ chunk[1] = 1
  BY <1>4, ImageComplete DEF Image
<1>6. ValidImage /\ BootSound /\ Durable
  BY <1>4, <1>5 DEF ValidImage, BootSound, Durable, Loaded, Init
<1>7. \A p \in Committer : PhaseInv(p)
  BY <1>2, OutsideInv DEF Holding
<1> QED
  BY <1>1, <1>3, <1>6, <1>7 DEF IInv

(* A power loss leaves what CutOffValid says; the boot that follows loads  *)
(* a complete image or the defaults.                                       *)
LEMMA CrashStep ==
  ASSUME IInv, Crash
  PROVE  SemaphoreBalanced' /\ FlashInv'
<1> USE DEF flash
<1>1. \A p \in Committer : pc'[p] = "idle"
  BY DEF Crash, NoProc
<1>2. SemaphoreBalanced'
  BY <1>1 DEF SemaphoreBalanced, Holding, Crash
<1>3. \A p \in Committer : PhaseInv(p)'
  BY <1>1 DEF PhaseInv, WorkingInv, Working, VersionInv, EraseInv, ScheduleInv,
              WriteInv, MagicInv, WrittenInv
<1>4. ValidImage'
  <2>1. CASE UNCHANGED flash
    BY <2>1 DEF IInv, ValidImage, Complete
  <2>2. CASE \E p \in Committer : CutOff(p)
    BY <2>2, CutOffValid
  <2> QED
    BY <2>1, <2>2 DEF Crash
<1>5. BootSound'
  <2>1. mem' = Loaded'
    BY DEF Crash
  <2>2. Loaded' # Corrupt
    BY <1>4 DEF ValidImage, Loaded, Complete, Version
  <2> QED
    BY <2>1, <2>2 DEF BootSound
<1>6. Durable'
  <2>1. CASE flash' = flash
    <3>1. stored' = stored
      BY <2>1 DEF Crash
    <3> QED
      BY <2>1, <3>1 DEF IInv, Durable, Loaded, Complete
  <2>2. CASE flash' # flash
    <3>1. stored' = NoCommit
      BY <2>2 DEF Crash
    <3> QED
      BY <3>1 DEF Durable
  <2> QED
    BY <2>1, <2>2
<1> QED
  BY <1>2, <1>3, <1>4, <1>5, <1>6 DEF FlashInv

(* A step that changes nothing the invariant speaks of but the memory.     *)
LEMMA SetStep ==
  ASSUME IInv, mem' # Corrupt, UNCHANGED <<proc, flash, nvram_sem, stored>>
  PROVE  SemaphoreBalanced' /\ FlashInv'
<1> USE DEF proc, scratch, loop, flash
<1>1. SemaphoreBalanced'
  BY DEF IInv, SemaphoreBalanced
<1>2. ASSUME NEW q \in Committer PROVE PhaseInv(q)'
  <2>1. PhaseInv(q)
    BY DEF IInv
  <2> QED
    BY <2>1 DEF PhaseInv, WorkingInv, Working, VersionInv, EraseInv, LastBlock,
       ScheduleInv, WriteInv, MagicInv, WrittenInv, Image
<1>3. ValidImage' /\ BootSound' /\ Durable'
  BY DEF IInv, ValidImage, BootSound, Durable, Loaded, Complete
<1> QED
  BY <1>1, <1>2, <1>3 DEF FlashInv

LEMMA IInvNext == IInv /\ [Next]_vars => IInv'
<1> SUFFICES ASSUME IInv, [Next]_vars PROVE IInv'
  OBVIOUS
<1>1. TypeInv'
  BY TypeNext DEF IInv
<1>2. ASSUME NEW p \in Committer, Call(p) PROVE SemaphoreBalanced' /\ FlashInv'
  BY <1>2, SemStep, EnterStep
<1>3. ASSUME NEW p \in Committer, Step(p) PROVE SemaphoreBalanced' /\ FlashInv'
  BY <1>3, SemStep, FlashStep
<1>4. ASSUME nvram_set PROVE SemaphoreBalanced' /\ FlashInv'
  <2>1. mem' # Corrupt
    BY <1>4 DEF nvram_set, IInv, TypeInv, TypeOK, Version
  <2> QED
    BY <1>4, <2>1, SetStep DEF nvram_set
<1>5. ASSUME Crash PROVE SemaphoreBalanced' /\ FlashInv'
  BY <1>5, CrashStep
<1>6. ASSUME UNCHANGED vars PROVE SemaphoreBalanced' /\ FlashInv'
  BY <1>6, SetStep DEF vars, world, IInv, BootSound
<1>7. SemaphoreBalanced' /\ FlashInv'
  BY <1>2, <1>3, <1>4, <1>5, <1>6 DEF Next
<1> QED
  BY <1>1, <1>7 DEF IInv, FlashInv

\* The flash never holds a valid magic word in front of an image that is not one
\* complete version: at no point of any nvram_commit, after no I/O error and
\* after no power loss.
THEOREM CrashSafe == Spec => []ValidImage
<1>1. IInv => ValidImage
  BY DEF IInv
<1> QED
  BY IInvInit, IInvNext, <1>1, PTL DEF Spec

\* No boot loads a torn image, although _nvram_read checks the magic word and
\* not the CRC.
THEOREM BootsSound == Spec => []BootSound
<1>1. IInv => BootSound
  BY DEF IInv
<1> QED
  BY IInvInit, IInvNext, <1>1, PTL DEF Spec

\* What an nvram_commit that returned 0 wrote is what a boot loads, until the
\* next commit starts to overwrite it.
THEOREM CommitDurable == Spec => []Durable
<1>1. IInv => Durable
  BY DEF IInv
<1> QED
  BY IInvInit, IInvNext, <1>1, PTL DEF Spec

\* At most one nvram_commit is between down and up of nvram_sem, and the
\* semaphore is free exactly when none is, by whichever return it left.
THEOREM SemaphoreKept == Spec => []SemaphoreBalanced
<1>1. IInv => SemaphoreBalanced
  BY DEF IInv
<1> QED
  BY IInvInit, IInvNext, <1>1, PTL DEF Spec

-----------------------------------------------------------------------------
(***************************************************************************)
(* What a commit stores is not older than its call.  No version is newer   *)
(* than the newest one made, wherever it is kept, so that a set replaces   *)
(* what is in memory by something newer; and a committer carries a version *)
(* at least as new as the one it saw.                                      *)
(***************************************************************************)
BoundInv ==
  /\ mem <= newest
  /\ \A k \in Chunk : chunk[k] <= newest
  /\ \A p \in Committer : pre[p] <= newest /\ version[p] <= newest

CoverInv(p) ==
  /\ pc[p] \in {"down", "backup", "clear", "regen"} => seen[p] <= mem
  /\ \/ pc[p] \in {"erase", "erasing", "schedule", "write", "magic", "reread"}
     \/ pc[p] = "done" /\ ret[p] = "0"
     => seen[p] <= version[p]

Covered == BoundInv /\ \A p \in Committer : CoverInv(p)

LEMMA CutOffBound ==
  ASSUME TypeOK, BoundInv, NEW p \in Committer, CutOff(p)
  PROVE  \A k \in Chunk : chunk'[k] <= newest
<1> USE DEF TypeOK, BoundInv, Version
<1>1. CASE pc[p] = "erasing"
  BY <1>1 DEF CutOff, EraseBlock
<1>2. CASE pc[p] = "write"
  <2>1. NewChunk(p) <= newest /\ chk[p] \in Chunk
    BY DEF NewChunk
  <2>2. Program(chunk[chk[p]], NewChunk(p)) <= newest
    BY <2>1 DEF Program
  <2> QED
    BY <1>2, <2>1, <2>2 DEF CutOff
<1>3. CASE pc[p] \notin {"erasing", "write"}
  BY <1>3 DEF CutOff, flash
<1> QED
  BY <1>1, <1>2, <1>3

LEMMA BoundStep ==
  ASSUME TypeOK, BoundInv, NEW p \in Committer, Call(p) \/ Step(p)
  PROVE  BoundInv'
<1> USE DEF world, loop, scratch, flash
<1>0. Fail(p) => \A k \in Chunk : chunk'[k] <= newest
  BY CutOffBound DEF Fail
<1>1. mem' = mem /\ newest' = newest
  BY DEF Step, Call, Down, Backup, ClearMagic, Regenerate, PrepareErase, Erase, Schedule,
         WriteBody, WriteMagic, Reread, Done
<1>2. \A q \in Committer : pre'[q] <= newest /\ version'[q] <= newest
  <2>1. CASE Backup(p)
    <3>1. chunk[0] <= newest
      BY DEF BoundInv, Chunk
    <3>2. \A q \in Committer : pre'[q] \in {pre[q], chunk[0]}
      BY <2>1 DEF Backup, TypeOK
    <3> QED
      BY <2>1, <3>1, <3>2 DEF Backup, BoundInv
  <2>2. CASE Regenerate(p)
    BY <2>2 DEF Regenerate, BoundInv, TypeOK
  <2>3. CASE UNCHANGED <<pre, version>>
    BY <2>3 DEF BoundInv
  <2> QED
    BY <2>1, <2>2, <2>3 DEF Step, Call, Down, ClearMagic, PrepareErase, Erase, Schedule,
         WriteBody, WriteMagic, Reread, Done
<1>3. \A k \in Chunk : chunk'[k] <= newest
  <2>1. CASE Erase(p)
    BY <1>0, <2>1 DEF Erase, EraseBlock, BoundInv, TypeOK, Version
  <2>2. CASE WriteBody(p)
    <3>1. NewChunk(p) <= newest /\ chk[p] \in Chunk
      BY DEF NewChunk, BoundInv, TypeOK
    <3>2. Program(chunk[chk[p]], NewChunk(p)) <= newest
      BY <3>1 DEF Program, BoundInv, TypeOK, Version
    <3> QED
      BY <1>0, <2>2, <3>1, <3>2 DEF WriteBody, BoundInv, TypeOK
  <2>3. CASE UNCHANGED chunk
    BY <2>3 DEF BoundInv
  <2> QED
    BY <1>0, <2>1, <2>2, <2>3 DEF Step, Call, Down, Backup, ClearMagic, Regenerate,
       PrepareErase, Schedule, WriteMagic, Reread, Done
<1> QED
  BY <1>1, <1>2, <1>3 DEF BoundInv

LEMMA CoverStep ==
  ASSUME TypeOK, BoundInv, NEW p \in Committer, Call(p) \/ Step(p),
         NEW q \in Committer, CoverInv(q)
  PROVE  CoverInv(q)'
<1> USE DEF world, loop, scratch, flash, Goto, Return, CoverInv, TypeOK, Version
<1>1. CASE p # q
  <2>1. /\ pc'[q] = pc[q] /\ ret'[q] = ret[q] /\ seen'[q] = seen[q]
        /\ version'[q] = version[q] /\ mem' = mem
    BY <1>1 DEF Step, Call, Down, Backup, ClearMagic, Regenerate, PrepareErase, Erase,
       Schedule, WriteBody, WriteMagic, Reread, Done, Fail
  <2> QED
    BY <2>1
<1>2. CASE p = q
  <2>1. CASE Call(p)
    BY <1>2, <2>1 DEF Call
  <2>2. CASE Regenerate(p)
    BY <1>2, <2>2 DEF Regenerate
  <2>3. CASE Down(p) \/ Backup(p) \/ ClearMagic(p)
    BY <1>2, <2>3 DEF Down, Backup, ClearMagic, Fail
  <2>4. CASE PrepareErase(p) \/ Erase(p) \/ Schedule(p) \/ WriteBody(p) \/ WriteMagic(p)
             \/ Reread(p)
    BY <1>2, <2>4 DEF PrepareErase, Erase, Schedule, WriteBody, WriteMagic, Reread, Fail
  <2>5. CASE Done(p)
    BY <1>2, <2>5 DEF Done
  <2> QED
    BY <2>1, <2>2, <2>3, <2>4, <2>5 DEF Step
<1> QED
  BY <1>1, <1>2

LEMMA CoveredNext == TypeOK /\ Covered /\ [Next]_vars => Covered'
<1> SUFFICES ASSUME TypeOK, Covered, [Next]_vars PROVE Covered'
  OBVIOUS
<1> USE DEF world, scratch, loop, proc, flash
<1>1. ASSUME NEW p \in Committer, Call(p) \/ Step(p) PROVE Covered'
  BY <1>1, BoundStep, CoverStep DEF Covered
<1>2. CASE nvram_set
  BY <1>2 DEF nvram_set, Covered, BoundInv, CoverInv, TypeOK, Version, Content
<1>3. CASE Crash
  <2>1. \A k \in Chunk : chunk'[k] <= newest
    BY <1>3, CutOffBound DEF Crash, Covered, BoundInv
  <2>2. mem' <= newest
    <3>1. chunk'[1] <= newest
      BY <2>1 DEF Chunk
    <3> QED
      BY <1>3, <3>1 DEF Crash, Loaded, TypeOK, Version
  <2> QED
    BY <1>3, <2>1, <2>2 DEF Crash, NoProc, Covered, BoundInv, CoverInv
<1>4. CASE UNCHANGED vars
  BY <1>4 DEF vars, Covered, BoundInv, CoverInv
<1> QED
  BY <1>1, <1>2, <1>3, <1>4 DEF Next

\* An nvram_commit that returns 0 stored everything set before it was called,
\* however many others wrote while it waited for the semaphore.
THEOREM CallerCovered == Spec => []CommitCoversCaller
<1>1. Init => Covered
  BY DEF Init, Covered, BoundInv, CoverInv, NoProc, Version
<1>2. Covered /\ TypeOK => CommitCoversCaller
  BY DEF Covered, CoverInv, CommitCoversCaller, TypeOK, Version
<1> QED
  BY TypeCorrect, CoveredNext, <1>1, <1>2, PTL DEF Spec

-----------------------------------------------------------------------------
(***************************************************************************)
(* The data before the image.  While nothing is risked, every commit backs *)
(* up the original data; outside the phase in which its buffer is the only *)
(* copy, the data is in flash.                                             *)
(***************************************************************************)
PreInv(p) ==
  HasPre /\ risked = "no" =>
    /\ pc[p] \in {"clear", "regen", "erase", "erasing", "schedule", "write"} => pre[p] = PreData
    /\ pc[p] = "write" /\ chk[p] = 0 => chunk[0] = Erased

PreHome ==
  HasPre /\ risked = "no" /\ (\A p \in Committer : ~OnlyInBuffer(p)) => chunk[0] = PreData

PreKept == (\A p \in Committer : PreInv(p)) /\ PreHome

LEMMA CutOffHome ==
  ASSUME TypeOK, NEW p \in Committer, CutOff(p), HasPre, ~OnlyInBuffer(p)
  PROVE  chunk'[0] = chunk[0]
<1>1. CASE pc[p] = "write"
  <2>1. chk[p] \in Chunk /\ chk[p] # 0 /\ 0 \in Chunk
    BY <1>1 DEF OnlyInBuffer, TypeOK, Chunk
  <2>2. PICK c : chunk' = [chunk EXCEPT ![chk[p]] = c]
    BY <1>1 DEF CutOff
  <2> QED
    BY <2>1, <2>2 DEF TypeOK
<1>2. CASE pc[p] # "write"
  BY <1>2 DEF CutOff, OnlyInBuffer, flash
<1> QED
  BY <1>1, <1>2

(* Another committer does not see the step of one that has the semaphore.  *)
LEMMA PreOthers ==
  ASSUME IInv, PreKept, NEW p \in Committer, Call(p) \/ Step(p),
         NEW q \in Committer, q # p
  PROVE  /\ pc[p] \in Holding => ~OnlyInBuffer(q) /\ PreInv(q)'
         /\ OnlyInBuffer(q)' = OnlyInBuffer(q)
<1> TypeOK /\ SemaphoreBalanced
  BY DEF IInv, TypeInv
<1> USE DEF world, loop, scratch, flash, Goto, Return
<1>1. pc'[q] = pc[q] /\ chk'[q] = chk[q] /\ blk'[q] = blk[q]
  BY DEF Step, Call, Down, Backup, ClearMagic, Regenerate, PrepareErase, Erase,
     Schedule, WriteBody, WriteMagic, Reread, Done, Fail, TypeOK
<1>2. pc[p] \in Holding => pc[q] \notin Holding
  BY DEF SemaphoreBalanced
<1> QED
  BY <1>1, <1>2 DEF OnlyInBuffer, PreInv, Holding

(* Steps that leave the data alone: to reach or leave the only copy takes  *)
(* an erase or a write.                                                    *)
LEMMA PreQuiet ==
  ASSUME IInv, PreKept, NEW p \in Committer, Call(p) \/ Step(p),
         pc[p] \in Holding, chunk'[0] = chunk[0], ~OnlyInBuffer(p), PreInv(p)',
         risked' = "no" => risked = "no"
  PROVE  PreKept'
<1>1. \A q \in Committer : PreInv(q)'
  BY PreOthers
<1>2. \A q \in Committer : ~OnlyInBuffer(q)
  BY PreOthers
<1> QED
  BY <1>1, <1>2 DEF PreKept, PreHome

(* ... and steps that end where the buffer is the only copy, or must be.   *)
LEMMA PreHeld ==
  ASSUME IInv, PreKept, NEW p \in Committer, Call(p) \/ Step(p),
         pc[p] \in Holding, PreInv(p)', HasPre => OnlyInBuffer(p)' \/ risked' # "no"
  PROVE  PreKept'
<1>1. \A q \in Committer : PreInv(q)'
  BY PreOthers
<1> QED
  BY <1>1 DEF PreKept, PreHome

LEMMA PreStep ==
  ASSUME IInv, PreKept, NEW p \in Committer, Call(p) \/ Step(p)
  PROVE  PreKept'
<1> TypeOK /\ SemaphoreBalanced /\ PhaseInv(p) /\ PreInv(p)
  BY DEF IInv, TypeInv, PreKept
<1> USE DEF world, loop, scratch, flash, Goto, Return
<1>f. Fail(p) => /\ pc'[p] = "done" /\ PreInv(p)'
                 /\ OnlyInBuffer(p) => risked' # "no"
                 /\ risked' = "no" => risked = "no"
                 /\ ~OnlyInBuffer(p) /\ HasPre => chunk'[0] = chunk[0]
  <2> SUFFICES ASSUME Fail(p)
               PROVE  /\ pc'[p] = "done" /\ PreInv(p)'
                      /\ OnlyInBuffer(p) => risked' # "no"
                      /\ risked' = "no" => risked = "no"
                      /\ ~OnlyInBuffer(p) /\ HasPre => chunk'[0] = chunk[0]
    OBVIOUS
  <2>1. pc'[p] = "done" /\ PreInv(p)'
    BY DEF Fail, TypeOK, PreInv
  <2>2. (OnlyInBuffer(p) => risked' # "no") /\ (risked' = "no" => risked = "no")
    BY DEF Fail
  <2>3. ASSUME ~OnlyInBuffer(p), HasPre PROVE chunk'[0] = chunk[0]
    BY <2>3, CutOffHome DEF Fail
  <2> QED
    BY <2>1, <2>2, <2>3
<1>1. CASE Call(p) \/ Down(p)
  <2>1. /\ UNCHANGED <<chunk, risked, pre, chk, blk>>
        /\ pc[p] \in {"idle", "down"} /\ pc'[p] \in {"idle", "down", "backup"}
        /\ \A q \in Committer : q # p => pc'[q] = pc[q]
    BY <1>1 DEF Call, Down, TypeOK
  <2>2. \A q \in Committer : OnlyInBuffer(q)' = OnlyInBuffer(q)
    BY <2>1 DEF OnlyInBuffer
  <2>3. \A q \in Committer : PreInv(q)'
    BY <2>1 DEF PreInv, PreKept
  <2> QED
    BY <2>1, <2>2, <2>3 DEF PreKept, PreHome
<1>2. CASE Backup(p)
  <2>0. pc[p] = "backup" /\ pc[p] \in Holding /\ ~OnlyInBuffer(p)
    BY <1>2 DEF Backup, Holding, OnlyInBuffer
  <2>1. CASE Fail(p)
    <3>1. chunk' = chunk
      BY <2>0, <2>1 DEF Fail, CutOff
    <3> QED
      BY <2>0, <2>1, <3>1, <1>f, PreQuiet
  <2>2. CASE ~Fail(p)
    <3>1. HasPre /\ risked = "no" => chunk[0] = PreData
      BY <2>0, PreOthers DEF PreKept, PreHome
    <3>2. UNCHANGED <<chunk, risked>> /\ pc'[p] = "clear" /\ (HasPre => pre'[p] = chunk[0])
      BY <1>2, <2>2 DEF Backup, TypeOK
    <3>3. PreInv(p)'
      BY <3>1, <3>2 DEF PreInv
    <3> QED
      BY <2>0, <3>2, <3>3, PreQuiet
  <2> QED
    BY <2>1, <2>2
<1>3. CASE ClearMagic(p) \/ Regenerate(p)
  <2>0. pc[p] \in {"clear", "regen"} /\ pc[p] \in Holding /\ ~OnlyInBuffer(p)
    BY <1>3 DEF ClearMagic, Regenerate, Holding, OnlyInBuffer
  <2>1. CASE Fail(p)
    <3>1. chunk' = chunk
      BY <2>0, <2>1 DEF Fail, CutOff
    <3> QED
      BY <2>0, <2>1, <3>1, <1>f, PreQuiet
  <2>2. CASE ~Fail(p)
    <3>1. UNCHANGED <<chunk, risked, pre>> /\ pc'[p] \in {"regen", "erase"}
      BY <1>3, <2>2 DEF ClearMagic, Regenerate, TypeOK
    <3>2. PreInv(p)'
      BY <2>0, <3>1 DEF PreInv
    <3> QED
      BY <2>0, <3>1, <3>2, PreQuiet
  <2> QED
    BY <2>1, <2>2
<1>4. CASE PrepareErase(p) \/ Erase(p)
  <2>0. pc[p] \in {"erase", "erasing"} /\ pc[p] \in Holding
    BY <1>4 DEF PrepareErase, Erase, Holding
  <2>1. CASE Fail(p) /\ Erase(p)
    <3>1. HasPre => OnlyInBuffer(p)
      BY <2>1 DEF Erase, OnlyInBuffer
    <3> QED
      BY <2>0, <2>1, <3>1, <1>f, PreHeld
  <2>2. CASE ~(Fail(p) /\ Erase(p))
    <3>1. UNCHANGED <<risked, pre>> /\ pc'[p] \in {"erasing", "schedule"}
      BY <1>4, <2>2 DEF PrepareErase, Erase, TypeOK
    <3>2. PreInv(p)' /\ (HasPre => OnlyInBuffer(p)')
      BY <2>0, <3>1 DEF PreInv, OnlyInBuffer
    <3> QED
      BY <2>0, <3>2, PreHeld
  <2> QED
    BY <2>1, <2>2
<1>5. CASE Schedule(p)
  <2>0. pc[p] = "schedule" /\ pc[p] \in Holding /\ blk[p] \in Nat /\ blk[p] >= 1
    BY <1>5 DEF Schedule, Holding, TypeOK, Block
  <2>1. chunk[0] = Erased
    BY <1>5 DEF Schedule, PhaseInv, ScheduleInv, TypeOK, Chunk, Block
  <2>2. /\ UNCHANGED <<chunk, risked, pre>>
        /\ \/ pc'[p] = "erase" /\ blk'[p] = blk[p] + 1
           \/ pc'[p] = "write" /\ (HasPre => chk'[p] = 0)
    BY <1>5 DEF Schedule, TypeOK
  <2>3. PreInv(p)'
    BY <2>0, <2>1, <2>2 DEF PreInv
  <2>4. HasPre => OnlyInBuffer(p)'
    BY <2>0, <2>2 DEF OnlyInBuffer
  <2> QED
    BY <2>0, <2>3, <2>4, PreHeld
<1>6. CASE WriteBody(p)
  <2>0. pc[p] = "write" /\ pc[p] \in Holding /\ chk[p] \in Chunk /\ 0 \in Chunk
        /\ ImageChunks[version[p]] \in 1 .. NChunk
    BY <1>6 DEF WriteBody, Holding, TypeOK, Chunk
  <2>1. CASE Fail(p) /\ OnlyInBuffer(p)
    BY <2>0, <2>1, <1>f, PreHeld
  <2>2. CASE ~HasPre
    BY <2>2 DEF PreKept, PreInv, PreHome
  <2>3. CASE Fail(p) /\ ~OnlyInBuffer(p) /\ HasPre
    BY <2>0, <2>3, <1>f, PreQuiet
  <2>4. CASE ~Fail(p) /\ HasPre /\ chk[p] = 0
    <3>1. /\ UNCHANGED <<risked, pre>> /\ chunk'[0] = Program(chunk[0], pre[p])
          /\ pc'[p] = "write" /\ chk'[p] = 1
      BY <1>6, <2>0, <2>4 DEF WriteBody, NewChunk, TypeOK
    <3>2. risked = "no" => chunk'[0] = PreData
      BY <2>0, <2>4, <3>1 DEF PreInv, Program
    <3>3. PreInv(p)'
      BY <2>0, <3>1 DEF PreInv
    <3>4. \A q \in Committer : PreInv(q)'
      BY <2>0, <3>3, PreOthers
    <3> QED
      BY <3>1, <3>2, <3>4 DEF PreKept, PreHome
  <2>5. CASE ~Fail(p) /\ HasPre /\ chk[p] # 0
    <3>1. /\ UNCHANGED <<risked, pre>> /\ chunk'[0] = chunk[0]
          /\ pc'[p] \in {"write", "magic"} /\ (pc'[p] = "write" => chk'[p] # 0)
      <4>1. UNCHANGED <<risked, pre>>
        BY <1>6, <2>5 DEF WriteBody
      <4>2. chunk'[0] = chunk[0]
        BY <1>6, <2>0, <2>5 DEF WriteBody, TypeOK
      <4>3. pc'[p] \in {"write", "magic"} /\ (pc'[p] = "write" => chk'[p] # 0)
        BY <1>6, <2>0, <2>5 DEF WriteBody, TypeOK, Chunk
      <4> QED
        BY <4>1, <4>2, <4>3
    <3>2. PreInv(p)' /\ ~OnlyInBuffer(p)
      BY <2>0, <2>5, <3>1 DEF PreInv, OnlyInBuffer
    <3> QED
      BY <2>0, <3>1, <3>2, PreQuiet
  <2> QED
    BY <2>1, <2>2, <2>3, <2>4, <2>5
<1>7. CASE WriteMagic(p) \/ Reread(p) \/ Done(p)
  <2>0. pc[p] \in {"magic", "reread", "done"} /\ pc[p] \in Holding /\ ~OnlyInBuffer(p)
    BY <1>7 DEF WriteMagic, Reread, Done, Holding, OnlyInBuffer
  <2>1. CASE Fail(p)
    <3>1. chunk' = chunk
      BY <2>0, <2>1 DEF Fail, CutOff
    <3> QED
      BY <2>0, <2>1, <3>1, <1>f, PreQuiet
  <2>2. CASE ~Fail(p)
    <3>1. UNCHANGED <<chunk, risked>> /\ pc'[p] \in {"reread", "done", "idle"}
      BY <1>7, <2>2 DEF WriteMagic, Reread, Done, TypeOK
    <3>2. PreInv(p)'
      BY <3>1 DEF PreInv
    <3> QED
      BY <2>0, <3>1, <3>2, PreQuiet
  <2> QED
    BY <2>1, <2>2
<1> QED
  BY <1>1, <1>2, <1>3, <1>4, <1>5, <1>6, <1>7 DEF Step

LEMMA PreNext == IInv /\ PreKept /\ [Next]_vars => PreKept'
<1> SUFFICES ASSUME IInv, PreKept, [Next]_vars PROVE PreKept'
  OBVIOUS
<1> USE DEF world, scratch, loop, proc, flash
<1>1. ASSUME NEW p \in Committer, Call(p) \/ Step(p) PROVE PreKept'
  BY <1>1, PreStep
<1>2. CASE nvram_set
  BY <1>2 DEF nvram_set, PreKept, PreHome, PreInv, OnlyInBuffer
<1>3. CASE Crash
  <2>1. \A q \in Committer : pc'[q] = "idle"
    BY <1>3 DEF Crash, NoProc
  <2>2. ASSUME HasPre, risked' = "no" PROVE chunk'[0] = PreData
    <3>1. risked = "no" /\ \A q \in Committer : ~OnlyInBuffer(q)
      BY <1>3, <2>2 DEF Crash
    <3>2. chunk[0] = PreData
      BY <2>2, <3>1 DEF PreKept, PreHome
    <3>3. ASSUME NEW p \in Committer, CutOff(p) PROVE chunk'[0] = chunk[0]
      <4>1. ~OnlyInBuffer(p) /\ TypeOK
        BY <3>1 DEF IInv, TypeInv
      <4> QED
        BY <2>2, <3>3, <4>1, CutOffHome
    <3> QED
      BY <1>3, <3>2, <3>3 DEF Crash
  <2> QED
    BY <2>1, <2>2 DEF PreKept, PreHome, PreInv
<1>4. CASE UNCHANGED vars
  BY <1>4 DEF vars, PreKept, PreHome, PreInv, OnlyInBuffer
<1> QED
  BY <1>1, <1>2, <1>3, <1>4 DEF Next

\* However many commits, failures and power losses there are, the original data
\* before the image is in flash, or in the buffer of the commit that will write it
\* back, until a commit fails or is cut off while its buffer is the only copy.
THEOREM PreAreaSafe == Spec => []PreAreaKept
<1>1. Init => PreKept
  BY DEF Init, NoProc, PreKept, PreInv, PreHome, Chunk
<1>2. PreKept => PreAreaKept
  <2> SUFFICES ASSUME PreKept, HasPre, risked = "no", NEW p \in Committer, OnlyInBuffer(p)
               PROVE  pre[p] = PreData
    BY DEF PreKept, PreHome, PreAreaKept
  <2> QED
    BY DEF PreKept, PreInv, OnlyInBuffer
<1> QED
  BY IInvInit, IInvNext, PreNext, <1>1, <1>2, PTL DEF Spec
=============================================================================
