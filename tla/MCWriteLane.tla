---------------------------- MODULE MCWriteLane ----------------------------
(* Instances of WriteLane for TLC: a small lane, seen through its jobs.    *)
EXTENDS WriteLane, TLC

\* Executors are interchangeable; used with invariants only.
ExecSymmetry == Permutations(Execs)

\* People commit to the first repository until its branch has n commits. The
\* other one gets commits of jobs only.
StopsAt(n) == [u \in Urls |-> IF u = HomeUrl THEN n ELSE 1]
TwoCommits == StopsAt(2)
ThreeCommits == StopsAt(3)
FourCommits == StopsAt(4)
=============================================================================
