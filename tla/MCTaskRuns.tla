----------------------------- MODULE MCTaskRuns -----------------------------
(* Instances of TaskRuns for TLC.                                          *)
EXTENDS TaskRuns

CONSTANTS w1, w2, p1, b1

TwoWorkers == {w1, w2}
OnePortal  == {p1}
OneBorrower == {b1}
=============================================================================
