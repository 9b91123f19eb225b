---------------------------- MODULE MCNvramStore ----------------------------
(* Small instances of NvramStore: two variables whose names collide, a and  *)
(* b, and one sdram parameter, s, in a bucket of its own.                   *)
EXTENDS NvramStore

CONSTANTS a, b, s,  \* names
          empty, x, z   \* values, of length 0, 1 and 1

MCHash == [n \in Name |-> IF n = s THEN 1 ELSE 0]
MCNameLen == [n \in Name |-> 1]
MCValueLen == [v \in Value |-> IF v = empty THEN 0 ELSE 1]
MCSdramSeq == <<s>>
MCSdramDefault == [n \in {s} |-> IF empty \in Value THEN empty ELSE z]
MCReformat == [v \in Value |-> x]
MCBootImage ==
  {[list |-> <<[name |-> a, value |-> x]>>, sdram |-> [n \in {s} |-> x]]}
=============================================================================
