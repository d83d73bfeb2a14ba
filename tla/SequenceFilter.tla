--------------------------- MODULE SequenceFilter ---------------------------
(***************************************************************************)
(* Array.prototype.filter, which the queues of requests and of messages    *)
(* are cut with: what SelectSeq computes, as a function of the prefixes of *)
(* the sequence and with a set for the test, so that its properties can be *)
(* proved.                                                                 *)
(***************************************************************************)
EXTENDS Naturals, Sequences

\* What is left of each prefix of s when only the elements of S stay.
FilterOfPrefix(s, S) ==
  LET left[n \in 0 .. Len(s)] == IF n = 0 THEN <<>>
                                 ELSE IF s[n] \in S THEN Append(left[n - 1], s[n]) ELSE left[n - 1]
  IN  left

Filter(s, S) == FilterOfPrefix(s, S)[Len(s)]

=============================================================================
