------------------------------- MODULE Filters -------------------------------
(***************************************************************************)
(* Filtering a sequence by a set.  It is SelectSeq with the members to keep *)
(* given as a set, written as a recursive function so that FilterProofs     *)
(* can reason about it.                                                     *)
(***************************************************************************)
EXTENDS Integers, Sequences

\* What is kept of each prefix of s, by the length of the prefix.
Kept(s, S) ==
  LET kept[n \in 0 .. Len(s)] ==
        IF n = 0 THEN <<>>
        ELSE IF s[n] \in S THEN Append(kept[n - 1], s[n]) ELSE kept[n - 1]
  IN  kept

\* The elements of s that are in S, in their order.
Keep(s, S) == Kept(s, S)[Len(s)]
=============================================================================
