---------------------------- MODULE MCJobRunner ----------------------------
(* Instances of JobRunner for TLC. *)
EXTENDS JobRunner, TLC

CONSTANTS j1, j2, w1, w2

OneJob == {j1}
TwoJobs == {j1, j2}
TwoWorkers == {w1, w2}

RankOne == (j1 :> 1)
RankTwo == (j1 :> 1 @@ j2 :> 2)

Nobody == {}
SecondJob == {j2}

WorkerSymmetry == Permutations(Workers)
=============================================================================
