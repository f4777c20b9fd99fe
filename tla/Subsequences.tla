---------------------------- MODULE Subsequences ----------------------------
(***************************************************************************)
(* The arrays of connections of the data-flow graph lose elements but keep *)
(* their order.  This is SelectSeq for a set instead of a test, in a form  *)
(* that proofs can use.                                                    *)
(***************************************************************************)
EXTENDS Naturals, Sequences

(* What is left of the first k elements of s, for each k                   *)
RemainingIn(s, gone) ==
  LET kept[k \in 0 .. Len(s)] ==
        IF k = 0 THEN <<>>
        ELSE IF s[k] \in gone THEN kept[k - 1]
        ELSE Append(kept[k - 1], s[k])
  IN  kept

(* The elements of s that are not in the set gone                          *)
Remaining(s, gone) == RemainingIn(s, gone)[Len(s)]

=============================================================================
