---------------------------- MODULE Subsequences ----------------------------
(***************************************************************************)
(* The loop that goes through a list and keeps what belongs to a set, as a *)
(* recursive function: it can be reasoned about for lists of any length.   *)
(***************************************************************************)
EXTENDS Integers, Sequences

\* What is kept of the first i members of s.
OnlyUpTo(s, S) ==
    LET kept[i \in 0 .. Len(s)] ==
            IF i = 0 THEN <<>>
            ELSE IF s[i] \in S THEN Append(kept[i - 1], s[i]) ELSE kept[i - 1]
    IN  kept

\* The members of s that are in S, in their order.
Only(s, S) == OnlyUpTo(s, S)[Len(s)]
=============================================================================
