---------------------------- MODULE MCFreqIndex ----------------------------
EXTENDS FreqIndex

CONSTANTS f1, f2, f3

\* row 1 folds f1 and f3 into one column, row 2 folds f1 and f2
MCHash == [r \in 1..2 |-> IF r = 1 THEN (f1 :> 1 @@ f2 :> 2 @@ f3 :> 1)
                                   ELSE (f1 :> 1 @@ f2 :> 1 @@ f3 :> 2)]

MCFps == {f1, f2, f3}
\* sessions run the same code on their own state: they are interchangeable
MCSymmetry == Permutations(Sessions)
=============================================================================
