---------------------------- MODULE PipelineSlot ----------------------------
(***************************************************************************)
(* What the NVCF front end promises its clients, without workers, files or *)
(* threads: one request at a time holds the pipeline slot; it is given a   *)
(* record when its work begins, and gives the slot back only once the      *)
(* record says how it ended.  A termination may condemn a request whose    *)
(* record says running, or that has just been recorded as done.            *)
(***************************************************************************)
CONSTANTS Requests, None

VARIABLES slot,   \* the request that holds the slot, or None
          record  \* what a client that asks for the status is told

vars == <<slot, record>>

TypeOK ==
  /\ slot \in Requests \cup {None}
  /\ record \in [Requests -> {"not-found", "running", "done", "failed"}]

Init ==
  /\ slot = None
  /\ record = [r \in Requests |-> "not-found"]

Admit(r) ==
  /\ slot = None
  /\ slot' = r
  /\ UNCHANGED record

Begin(r) ==
  /\ slot = r
  /\ record[r] = "not-found"
  /\ record' = [record EXCEPT ![r] = "running"]
  /\ UNCHANGED slot

Conclude(r) ==
  /\ slot = r
  /\ record[r] = "running"
  /\ \E outcome \in {"done", "failed"} : record' = [record EXCEPT ![r] = outcome]
  /\ UNCHANGED slot

Condemn(r) ==
  /\ record[r] \in {"running", "done"}
  /\ record' = [record EXCEPT ![r] = "failed"]
  /\ UNCHANGED slot

Leave(r) ==
  /\ slot = r
  /\ record[r] \in {"done", "failed"}
  /\ slot' = None
  /\ UNCHANGED record

Next == \E r \in Requests :
          Admit(r) \/ Begin(r) \/ Conclude(r) \/ Condemn(r) \/ Leave(r)

Spec == Init /\ [][Next]_vars
=============================================================================
