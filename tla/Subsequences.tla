---------------------------- MODULE Subsequences ----------------------------
(* SelectSeq for membership, in a form that can be reasoned about. *)
EXTENDS Naturals, Sequences

\* The elements of s that are in S, in their order.
Only(s, S) ==
  LET chosen[n \in 0..Len(s)] ==
        IF n = 0 THEN <<>>
        ELSE IF s[n] \in S THEN Append(chosen[n - 1], s[n])
        ELSE chosen[n - 1]
  IN chosen[Len(s)]
=============================================================================
