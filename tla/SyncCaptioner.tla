--------------------------- MODULE SyncCaptioner ---------------------------
(***************************************************************************)
(* vllm_caption of cosmos_curator/models/vllm_interface.py: the two        *)
(* synchronous runners.  With in-flight batching one request is submitted  *)
(* before each step of the engine, up to a limit, and a step returns the   *)
(* requests that are finished, in any order.  Without it the requests of a *)
(* stage go through LLM.generate in chunks, and are looked at when all of  *)
(* them are through.                                                       *)
(*                                                                         *)
(* A request is known by its id; request_id_to_index tells for which       *)
(* window it was made.  Here the id says of which window and stage the     *)
(* request really is, so that a wrong entry can be seen.                   *)
(***************************************************************************)
EXTENDS Naturals, FiniteSets, Sequences, SequencesExt

CONSTANTS N,         \* the windows of a call are 1 .. N, in the order of the inputs
          MaxLimit   \* bound on max_inflight_requests and batch_size

ASSUME SyncAssumption == N \in Nat /\ MaxLimit \in Nat \ {0}

VARIABLES
  mode,      \* inflight or chunks
  limit,     \* max_inflight_requests (0: unlimited) or batch_size
  twoStage,  \* the windows with a stage-2 prompt
  run,       \* engine (head of the loop), step, handle, returned or raised
  queue,     \* request_q: requests that the engine has not seen
  inflight,  \* in_flight_requests
  finished,  \* answered requests that are still to be handled
  index,     \* request_id_to_index
  results,   \* results, by index
  tokens     \* token_counts, by index: answers that were counted

vars == <<mode, limit, twoStage, run, queue, inflight, finished, index, results, tokens>>
call == <<mode, limit, twoStage>>

Windows     == 1 .. N
Request(w, s) == [of |-> w, stage |-> s]
Refines(r)  == r.stage = 1 /\ r.of \in twoStage   \* stage2_prompt is not None
LastStage(w) == IF w \in twoStage THEN 2 ELSE 1

Init ==
  /\ mode \in {"inflight", "chunks"}
  /\ limit \in IF mode = "inflight" THEN 0 .. MaxLimit ELSE 1 .. MaxLimit
  /\ twoStage \in SUBSET Windows
  /\ run = "engine"
  /\ queue = [w \in Windows |-> Request(w, 1)]
  /\ inflight = {}
  /\ finished = <<>>
  /\ index = [r \in {Request(w, 1) : w \in Windows} |-> r.of]
  /\ results = <<>>
  /\ tokens = [w \in Windows |-> 0]

-----------------------------------------------------------------------------
(* _caption_inflight_batching: one turn of the loop.                       *)

\* Mutant: a limit of 0 is a limit.
RoomUnderLimit == Cardinality(inflight) < limit

Complete == Cardinality(DOMAIN results) = N
Room     == limit = 0 \/ Cardinality(inflight) < limit

Submit ==
  /\ mode = "inflight" /\ run = "engine" /\ ~Complete
  /\ queue # <<>> /\ Room
  /\ inflight' = inflight \cup {Head(queue)}
  /\ queue' = Tail(queue)
  /\ run' = "step"
  /\ UNCHANGED <<call, finished, index, results, tokens>>

SubmitNothing ==
  /\ mode = "inflight" /\ run = "engine" /\ ~Complete
  /\ queue = <<>> \/ ~Room
  /\ run' = "step"
  /\ UNCHANGED <<call, queue, inflight, finished, index, results, tokens>>

Step(done) ==
  /\ run = "step"
  /\ finished' \in SetToSeqs(done)
  /\ inflight' = inflight \ done
  /\ run' = "handle"
  /\ UNCHANGED <<call, queue, index, results, tokens>>

-----------------------------------------------------------------------------
(* _caption_no_inflight_batching                                           *)

Smaller(a, b) == IF a < b THEN a ELSE b

\* one chunk through LLM.generate
Generate ==
  /\ mode = "chunks" /\ run = "engine"
  /\ queue # <<>>
  /\ LET n == Smaller(limit, Len(queue))
     IN /\ finished' = finished \o SubSeq(queue, 1, n)
        /\ queue' = SubSeq(queue, n + 1, Len(queue))
  /\ UNCHANGED <<call, run, inflight, index, results, tokens>>

\* the stage is through
Generated ==
  /\ mode = "chunks" /\ run = "engine"
  /\ queue = <<>> /\ finished # <<>>
  /\ run' = "handle"
  /\ UNCHANGED <<call, queue, inflight, finished, index, results, tokens>>

-----------------------------------------------------------------------------
(* What both do with a finished request.                                   *)

Counted(i) == [tokens EXCEPT ![i] = @ + 1]

\* Mutant: a result goes to the next free place.
HandleInOrderOfCompletion ==
  /\ run = "handle" /\ finished # <<>>
  /\ ~Refines(Head(finished))
  /\ LET r == Head(finished)
         i == Cardinality(DOMAIN results) + 1
     IN /\ tokens' = Counted(i)
        /\ \E text \in {"caption", "unknown"} :
             results' = [j \in DOMAIN results \cup {i} |->
                          IF j = i THEN [of |-> r.of, stage |-> r.stage, text |-> text] ELSE results[j]]
  /\ finished' = Tail(finished)
  /\ UNCHANGED <<call, run, queue, inflight, index>>

\* An empty caption becomes the unknown one.
HandleFinal ==
  /\ run = "handle" /\ finished # <<>>
  /\ ~Refines(Head(finished))
  /\ LET r == Head(finished)
         i == index[r]
     IN /\ tokens' = Counted(i)
        /\ \E text \in {"caption", "unknown"} :
             results' = [j \in DOMAIN results \cup {i} |->
                          IF j = i THEN [of |-> r.of, stage |-> r.stage, text |-> text] ELSE results[j]]
  /\ finished' = Tail(finished)
  /\ UNCHANGED <<call, run, queue, inflight, index>>

\* Mutant: the result of the first stage is kept as well.
HandleRefinedTwice ==
  /\ run = "handle" /\ finished # <<>>
  /\ Refines(Head(finished))
  /\ LET r == Head(finished)
         refined == Request(r.of, 2)
         i == index[r]
     IN /\ tokens' = Counted(i)
        /\ queue' = Append(queue, refined)
        /\ index' = [q \in DOMAIN index \cup {refined} |-> IF q = refined THEN i ELSE index[q]]
        /\ results' = [j \in DOMAIN results \cup {i} |->
                        IF j = i THEN [of |-> r.of, stage |-> r.stage, text |-> "unknown"] ELSE results[j]]
  /\ finished' = Tail(finished)
  /\ UNCHANGED <<call, run, inflight>>

HandleRefined ==
  /\ run = "handle" /\ finished # <<>>
  /\ Refines(Head(finished))
  /\ LET r == Head(finished)
         refined == Request(r.of, 2)
         i == index[r]
     IN /\ tokens' = Counted(i)
        /\ queue' = Append(queue, refined)
        /\ index' = [q \in DOMAIN index \cup {refined} |-> IF q = refined THEN i ELSE index[q]]
  /\ finished' = Tail(finished)
  /\ UNCHANGED <<call, run, inflight, results>>

Handled ==
  /\ run = "handle" /\ finished = <<>>
  /\ run' = "engine"
  /\ UNCHANGED <<call, queue, inflight, finished, index, results, tokens>>

-----------------------------------------------------------------------------
(* The end of the call.                                                    *)

AtEnd == /\ run = "engine"
         /\ IF mode = "inflight" THEN Complete ELSE queue = <<>> /\ finished = <<>>

\* [results[i] for i in range(n)] raises when one is missing.
Return ==
  /\ AtEnd
  /\ run' = IF Windows \subseteq DOMAIN results THEN "returned" ELSE "raised"
  /\ UNCHANGED <<call, queue, inflight, finished, index, results, tokens>>

\* The engine, the decoding of an answer or the making of a refined request raises.
Raise ==
  /\ run \in {"engine", "step", "handle"} /\ ~AtEnd
  /\ run' = "raised"
  /\ UNCHANGED <<call, queue, inflight, finished, index, results, tokens>>

-----------------------------------------------------------------------------
Steps == \E done \in SUBSET inflight : Step(done)
Goes  == Submit \/ SubmitNothing \/ Generate \/ Generated
           \/ HandleFinal \/ HandleRefined \/ Handled \/ Return

Next == Goes \/ Steps \/ Raise

Spec == Init /\ [][Next]_vars

\* The loop goes on, and the engine finishes each request at one of its steps.
Answers(r) == \E done \in SUBSET inflight : r \in done /\ Step(done)

Fairness ==
  /\ WF_vars(Goes) /\ WF_vars(Steps)
  /\ \A w \in Windows, s \in {1, 2} : SF_vars(Answers(Request(w, s)))

-----------------------------------------------------------------------------
(* Properties.                                                             *)

TypeOK ==
  /\ mode \in {"inflight", "chunks"}
  /\ limit \in 0 .. MaxLimit
  /\ twoStage \subseteq Windows
  /\ run \in {"engine", "step", "handle", "returned", "raised"}
  /\ queue \in Seq([of : Windows, stage : {1, 2}])
  /\ inflight \subseteq [of : Windows, stage : {1, 2}]
  /\ finished \in Seq([of : Windows, stage : {1, 2}])
  /\ DOMAIN index \subseteq [of : Windows, stage : {1, 2}]
  /\ index \in [DOMAIN index -> Windows]
  /\ DOMAIN results \subseteq Windows
  /\ results \in [DOMAIN results -> [of : Windows, stage : {1, 2}, text : {"caption", "unknown"}]]
  /\ tokens \in [Windows -> Nat]

\* Whatever order the engine finishes them in, each place holds the answer of
\* the last stage of its own window, with the tokens of all its stages, and a
\* call returns all places.
CaptionsInPlace ==
  /\ \A w \in DOMAIN results :
       results[w].of = w /\ results[w].stage = LastStage(w) /\ tokens[w] = LastStage(w)
  /\ run = "returned" => DOMAIN results = Windows

\* A call ends: no request is left behind in a queue or at the limit.
CallEnds == <>(run \in {"returned", "raised"})

-----------------------------------------------------------------------------
Verdict == [w \in Windows |-> IF w \in DOMAIN results THEN results[w].text ELSE "none"]

State == CASE run = "returned" -> "returned"
           [] run = "raised" -> "abandoned"
           [] OTHER -> "running"

Batch == INSTANCE CaptionBatch WITH Windows <- Windows, verdict <- Verdict, batch <- State

\* The synchronous runners keep the promise of the asynchronous one: a window
\* is decided once, and the call returns when all are.
KeepsPromise == Batch!Spec
=============================================================================
