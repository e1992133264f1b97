---------------------------- MODULE MCMeGAIndex ----------------------------
(* Model values and a fixed sketch hash for checking MeGAIndex with TLC. *)
EXTENDS MeGAIndex

CONSTANTS f1, f2, f3

MCFps == {f1, f2, f3}

\* two rows; f1 and f3 collide in row 1, f1 and f2 in row 2
MCHash == [r \in 1..2 |-> IF r = 1 THEN (f1 :> 1 @@ f2 :> 2 @@ f3 :> 1)
                                   ELSE (f1 :> 1 @@ f2 :> 1 @@ f3 :> 2)]

MCSymmetry == Permutations(Sessions)
====
