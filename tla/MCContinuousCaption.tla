------------------------- MODULE MCContinuousCaption -------------------------
(* Instances for TLC of ContinuousCaption and, for its liveness, of a call   *)
(* of the synchronous captioner.  A behaviour is one of one part; the other  *)
(* has ended.                                                                *)
EXTENDS ContinuousCaption, TLC

CONSTANTS t1, t2, t3, t4, N, MaxLimit

VARIABLES part, mode, limit, twoStage, run, queue, inflight, finished, index, results, tokens

FourTasks  == {t1, t2, t3, t4}
NoWindows  == {t3}

Sync == INSTANCE SyncCaptioner

callVars == <<mode, limit, twoStage, run, queue, inflight, finished, index, results, tokens>>

NoCall ==
  /\ mode = "inflight" /\ limit = 0 /\ twoStage = {} /\ run = "returned"
  /\ queue = <<>> /\ inflight = {} /\ finished = <<>>
  /\ index = <<>> /\ results = <<>> /\ tokens = <<>>

NoStage ==
  /\ loop = "exited" /\ stop = TRUE /\ coming = Tasks /\ input = <<>>
  /\ get = "none" /\ gotten = None /\ dropped = None /\ trackers = {}
  /\ caption = [t \in Tasks |-> "none"] /\ output = <<>>

CaptionInit ==
  \/ part = "stage" /\ Init /\ NoCall
  \/ part = "call" /\ NoStage /\ Sync!Init

CaptionNext ==
  \/ part = "stage" /\ Next      /\ UNCHANGED <<part, callVars>>
  \/ part = "call"  /\ Sync!Next /\ UNCHANGED <<part, vars>>

CaptionSpec ==
  CaptionInit /\ [][CaptionNext]_<<part, vars, callVars>> /\ Fairness /\ Sync!Fairness

\* A captioning call ends: see SyncCaptioner.
CallEnds == Sync!CallEnds
=============================================================================
