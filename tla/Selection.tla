----------------------------- MODULE Selection -----------------------------
(***************************************************************************)
(* What remains of a sequence when only some of its positions are kept, in *)
(* the same order.                                                         *)
(***************************************************************************)
EXTENDS Naturals, Sequences

Selected(s, keep) ==
  LET F[i \in 0 .. Len(s)] ==
        IF i = 0 THEN <<>>
        ELSE IF i \in keep THEN Append(F[i - 1], s[i]) ELSE F[i - 1]
  IN  F[Len(s)]

Filtered(s, S) == Selected(s, {k \in DOMAIN s : s[k] \in S})
=============================================================================
