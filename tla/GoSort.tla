------------------------------- MODULE GoSort -------------------------------
(***************************************************************************)
(* The parts of Go's package sort that the code relies on, as the library  *)
(* computes them: what they return for an argument that breaks their       *)
(* contract (a predicate that is not monotone, a comparison with NaN)      *)
(* follows from the algorithm.                                             *)
(***************************************************************************)
EXTENDS Integers, Sequences

\* sort.Search: the least i in 0 .. n with P(i), for a P that stays true; P(n) is
\* never asked.  It bisects.
Search(n, P(_)) ==
    LET f[r \in (0 .. n) \X (0 .. n)] ==
            LET i == r[1]
                j == r[2]
                h == (i + j) \div 2
            IN  IF i >= j THEN i
                ELSE IF P(h) THEN f[<<i, h>>] ELSE f[<<h + 1, j>>]
    IN  f[<<0, n>>]

\* sort.SliceStable, and sort.Slice for at most a dozen elements: insertion sort.
\* Each element moves to the left while it is less than its neighbour.
StableSort(s, Less(_, _)) ==
    LET place[sorted \in Seq({s[i] : i \in DOMAIN s}), k \in 0 .. Len(s)] ==
            LET x == s[Len(sorted) + 1]
            IN  IF k > 0 /\ Less(x, sorted[k]) THEN place[sorted, k - 1] ELSE k
        f[n \in 0 .. Len(s)] ==
            IF n = 0 THEN <<>>
            ELSE LET p == place[f[n - 1], n - 1]
                 IN  SubSeq(f[n - 1], 1, p) \o <<s[n]>> \o SubSeq(f[n - 1], p + 1, n - 1)
    IN  f[Len(s)]
=============================================================================
