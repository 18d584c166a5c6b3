----------------------------- MODULE Selections -----------------------------
(***************************************************************************)
(* Loops over a list, as recursive functions, which the provers can expand *)
(* (they know nothing of SelectSeq or of a fold): what a loop keeps, `for  *)
(* x in s: if ...: append(x)`, with the condition given as the set of the  *)
(* positions that meet it, and what it adds up, `for x in s: sum += x`.    *)
(***************************************************************************)
EXTENDS Integers, Sequences

\* The elements of s at the positions in S, in the order of s.
Selected(s, S) ==
    LET kept[k \in 0 .. Len(s)] ==
            IF k = 0 THEN <<>>
            ELSE IF k \in S THEN Append(kept[k - 1], s[k]) ELSE kept[k - 1]
    IN  kept[Len(s)]

\* The sum of s.
Total(s) ==
    LET sum[k \in 0 .. Len(s)] == IF k = 0 THEN 0 ELSE sum[k - 1] + s[k]
    IN  sum[Len(s)]

=============================================================================
