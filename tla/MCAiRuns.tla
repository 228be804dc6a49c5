------------------------------ MODULE MCAiRuns ------------------------------
(* Instances of AiRuns for TLC.                                            *)
EXTENDS AiRuns, TLC

CONSTANTS j1, j2, j3

TwoJobs   == {j1, j2}
ThreeJobs == {j1, j2, j3}

\* A prompt fills the window alone or with one other, a repair is longer.
Prompts == [t \in Tasks |-> 1]
Repaired == [t \in Tasks |-> 2]
Reported == {0, 3}
Pauses12 == {1, 2}

Symmetric == Permutations(Tasks)
=============================================================================
