------------------------- MODULE MCDurableModelJobs -------------------------
(***************************************************************************)
(* Small instances of DurableModelJobs: one or two jobs, two workers.  Its *)
(* run evaluates AssistantChecks first.                                    *)
(***************************************************************************)
EXTENDS DurableModelJobs, AssistantChecks, TLC

CONSTANTS j1, j2, w1, w2

OneJob == {j1}
TwoJobs == {j1, j2}
OneWorker == {w1}
TwoWorkers == {w1, w2}

Names == Permutations(TwoJobs) \union Permutations(TwoWorkers)
=============================================================================
