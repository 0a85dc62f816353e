-------------------------------- MODULE Lists --------------------------------
(* What a comprehension with a condition leaves of a list (SelectSeq by    *)
(* positions) and what sum() makes of one: recursive functions, so that    *)
(* theorems can be proved of lists of every length.                        *)
EXTENDS Integers, Sequences

(* What is taken of the first n elements, for every n.                     *)
TakenUpTo(s, positions) ==
    LET taken[n \in 0..Len(s)] ==
            IF n = 0 THEN <<>>
            ELSE IF n \in positions THEN Append(taken[n - 1], s[n])
            ELSE taken[n - 1]
    IN  taken

(* The elements at these positions, in order.                              *)
Subsequence(s, positions) == TakenUpTo(s, positions)[Len(s)]

(* The sum of all elements: that of a range is that of its halves, so that *)
(* a long list does not nest the evaluation once per element.              *)
SumOfRanges(s) ==
    LET sum[r \in (0..Len(s)) \X (0..Len(s))] ==
            IF r[2] = r[1] THEN 0
            ELSE IF r[2] = r[1] + 1 THEN s[r[2]]
            ELSE LET mid == (r[1] + r[2]) \div 2
                 IN  sum[<<r[1], mid>>] + sum[<<mid, r[2]>>]
    IN  sum

Total(s) == SumOfRanges(s)[<<0, Len(s)>>]

=============================================================================
