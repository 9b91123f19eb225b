------------------------------ MODULE NvramMap ------------------------------
(***************************************************************************)
(* What the callers of the variable store rely on, without hash table,     *)
(* buffer or image: a map from names to values that only a set or an unset *)
(* changes.  bcmnvram.h promises less: it leaves values undefined after a  *)
(* commit.  The code does better, and rc and httpd read on after one.      *)
(* A commit, and a set that has to make room first, keep the store locked  *)
(* for a while (pending); meanwhile nothing is lost and only missing sdram *)
(* parameters are filled in.                                               *)
(***************************************************************************)
CONSTANTS Name, Value, SdramNames, NULL

VARIABLES map,      \* name -> value, or NULL when undefined
          pending   \* NULL, or the operation that holds the store

vars == <<map, pending>>

Init == map \in [Name -> Value \cup {NULL}] /\ pending \in {NULL, [op |-> "init", name |-> NULL, value |-> NULL]}

Set(n, v) == pending = NULL /\ map' = [map EXCEPT ![n] = v] /\ UNCHANGED pending

Unset(n) == pending = NULL /\ map' = [map EXCEPT ![n] = NULL] /\ UNCHANGED pending

BeginSet(n, v) ==
  /\ pending = NULL
  /\ pending' = [op |-> "set", name |-> n, value |-> v]
  /\ UNCHANGED map

BeginCommit ==
  /\ pending = NULL
  /\ pending' = [op |-> "commit", name |-> NULL, value |-> NULL]
  /\ UNCHANGED map

FillSdram(n, v) ==
  /\ pending # NULL
  /\ n \in SdramNames /\ map[n] = NULL
  /\ map' = [map EXCEPT ![n] = v]
  /\ UNCHANGED pending

End ==
  /\ pending # NULL
  /\ pending' = NULL
  /\ map' = IF pending.op = "set" THEN [map EXCEPT ![pending.name] = pending.value]
                                  ELSE map

Next ==
  \/ \E n \in Name, v \in Value : Set(n, v) \/ BeginSet(n, v) \/ FillSdram(n, v)
  \/ \E n \in Name : Unset(n)
  \/ BeginCommit \/ End

Spec == Init /\ [][Next]_vars
=============================================================================
