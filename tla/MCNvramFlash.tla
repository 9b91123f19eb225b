---------------------------- MODULE MCNvramFlash ----------------------------
(* Two layouts: one erase block that also holds data before the image, and  *)
(* two erase blocks of which short images use only the first.               *)
EXTENDS NvramFlash

MCBlockOf == [k \in Chunk |-> IF NBlock > 1 /\ k = NChunk THEN 2 ELSE 1]
MCImageChunks == [v \in Version \cup {Corrupt} |-> IF v % 2 = 0 THEN NChunk ELSE NChunk - 1]
=============================================================================
