--------------------------- MODULE MCAsyncCaptioner ---------------------------
(* Instances of AsyncCaptioner for TLC: one window of each kind (missing     *)
(* input, one stage, two stages) and, for the semaphore, a second one-stage  *)
(* window and another batch.                                                 *)
EXTENDS AsyncCaptioner, TLC

CONSTANTS wm, wa, wb, wt

AllWindows == {wm, wa, wb, wt}
OneOfEach  == {wm, wa, wt}
MissingOnes == {wm}
TwoStageOnes == {wt}
=============================================================================
