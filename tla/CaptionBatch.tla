---------------------------- MODULE CaptionBatch ----------------------------
(***************************************************************************)
(* What vllm_caption_async promises for one batch of windows: each window  *)
(* gets one verdict, a caption or "unknown"; the batch returns when every  *)
(* window has its verdict, or is abandoned as a whole (engine death,       *)
(* cancellation), in which case nothing more is reported.                  *)
(***************************************************************************)
CONSTANT Windows

VARIABLES verdict,  \* what the caller has been told of each window
          batch     \* running, returned or abandoned

vars == <<verdict, batch>>

Init ==
  /\ verdict = [w \in Windows |-> "none"]
  /\ batch = "running"

Decide(w) ==
  /\ batch = "running"
  /\ verdict[w] = "none"
  /\ \E v \in {"caption", "unknown"} : verdict' = [verdict EXCEPT ![w] = v]
  /\ UNCHANGED batch

Return ==
  /\ batch = "running"
  /\ \A w \in Windows : verdict[w] # "none"
  /\ batch' = "returned"
  /\ UNCHANGED verdict

Abandon ==
  /\ batch = "running"
  /\ batch' = "abandoned"
  /\ UNCHANGED verdict

Next == Return \/ Abandon \/ \E w \in Windows : Decide(w)

Spec == Init /\ [][Next]_vars
=============================================================================
