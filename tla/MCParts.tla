------------------------------- MODULE MCParts -------------------------------
(* Instances for TLC of parts that do not interact: the engine of a          *)
(* captioning actor, the semantic deduplication, the shard pipeline, the      *)
(* client of the service, and the splitting pipeline on Ray Data.  A          *)
(* behaviour is one of one part; the variables of the others do not change.  *)
EXTENDS EngineWatchdog, ClipShards

CONSTANTS N, MaxClusters, MaxActors, MaxRuns, SameConfig,
          MaxJobs, MaxFuncs, RetryCnt,
          v1, v2, RayVideos, Duration, RayJobs, Outcomes, BatchSize

\* There are finitely many clips and clusters.
ASSUME DedupAssumption == N \in Nat /\ MaxClusters \in Nat

\* The service is asked once at least.
ASSUME ClientAssumption == MaxJobs \in Nat /\ MaxFuncs \in Nat /\ RetryCnt \in Nat \ {0}

\* Videos have a length, and clips are cut from them by steps.
ASSUME RayAssumption ==
  /\ Duration \in [RayVideos -> Nat]
  /\ RayJobs \subseteq
       [inputs : SUBSET RayVideos, method : {"fixed", "scenes"}, len : Nat, stride : Nat \ {0},
        min : Nat, limit : Nat, caption : BOOLEAN]

VARIABLES
  part,
  similar, chunks, summary, phase, config, label, rank,
  toWrite, rows, toDedup, tables, counts, csv, runs,
  jobs, funcs, temp, batch, files, step, cnt, tries, server, unknown, unsure, fails, final,
  job, rayPhase, begun, video, spans, rayRows, batches, mp4s, metas, raySummary

Good(b, size, captions) ==
  [readable |-> TRUE, valid |-> TRUE, bin |-> b, size |-> size, captions |-> captions]

Plain == Good("b1", 1, <<TRUE>>)

AllMetas ==
  {Plain, Good("b1", 2, <<TRUE, TRUE>>), Good("b2", 1, <<TRUE>>), Good(NoBin, 1, <<TRUE>>),
   Good("b1", 1, <<TRUE, FALSE>>), Good("b1", 1, <<FALSE, TRUE>>),
   [Plain EXCEPT !.readable = FALSE], [Plain EXCEPT !.valid = FALSE]}

Dedup   == INSTANCE SemanticDedup
Client  == INSTANCE NvcfClient

Job(inputs, method, length, shortest, limit, caption) ==
  [inputs |-> inputs, method |-> method, len |-> length, stride |-> 1, min |-> shortest,
   limit |-> limit, caption |-> caption]

TwoVideos    == {v1, v2}
TwoDurations == [v \in TwoVideos |-> IF v = v1 THEN 2 ELSE 1]

\* Overlapping clips with captions; one video of each; and one that leaves no clip of the short one.
ThreeJobs ==
  {Job({v1}, "fixed", 2, 1, 0, TRUE), Job({v2}, "scenes", 1, 1, 1, TRUE),
   Job({v1, v2}, "fixed", 2, 2, 0, FALSE)}

RayData == INSTANCE RayDataSplit
  WITH Jobs <- RayJobs, MaxJobs <- MaxRuns, phase <- rayPhase, rows <- rayRows, summary <- raySummary

engineVars == <<pc, llm, processor, captured, attempt, errors, outcome, calls, live, orphans,
                doomed, spared, built, thread, event, active, watchdog, stopped, deaths>>
dedupVars  == <<similar, chunks, summary, phase, config, label, rank, toWrite, rows, toDedup,
                tables, counts, csv, runs>>
clientVars == <<jobs, funcs, temp, batch, files, step, cnt, tries, server, unknown, unsure, fails,
                final>>
rayVars    == <<job, rayPhase, begun, video, spans, rayRows, batches, mp4s, metas, raySummary>>
partVars   == <<part, engineVars, dedupVars, shardVars, clientVars, rayVars>>

PartInit ==
  /\ part \in {"engine", "dedup", "shard", "client", "raydata"}
  /\ Init
  /\ IF part = "dedup" THEN chunks \in {1..N, 1..(N - 1)}   \* one file missing, or none
                      ELSE similar = {} /\ chunks = 1..N /\ summary = FALSE
  /\ Dedup!Init
  /\ IF part = "shard" THEN TRUE ELSE meta = [c \in 1..NumClips |-> Plain] /\ excluded = {} /\ drop = FALSE
  /\ Shard!Init
  /\ IF part = "client" THEN TRUE ELSE jobs = 1 /\ funcs = 0 /\ temp = FALSE
  /\ Client!Init
  /\ part = "raydata" \/ job = CHOOSE j \in RayJobs : TRUE
  /\ RayData!Init

PartNext ==
  \/ part = "engine"  /\ Next
     /\ UNCHANGED <<part, dedupVars, shardVars, clientVars, rayVars>>
  \/ part = "dedup"   /\ Dedup!Next
     /\ UNCHANGED <<part, engineVars, shardVars, clientVars, rayVars>>
  \/ part = "shard"   /\ Shard!Next
     /\ UNCHANGED <<part, engineVars, dedupVars, clientVars, rayVars>>
  \/ part = "client"  /\ Client!Next
     /\ UNCHANGED <<part, engineVars, dedupVars, shardVars, rayVars>>
  \/ part = "raydata" /\ RayData!Next
     /\ UNCHANGED <<part, engineVars, dedupVars, shardVars, clientVars>>

PartSpec == PartInit /\ [][PartNext]_partVars /\ Fairness

\* A clip is left out only for one that stays in, and the summary counts what is left out: see
\* SemanticDedup.
DedupSound == Dedup!DedupSound

\* A batch of invocations reports what became of each job, and does no work twice that the client
\* knows of: see NvcfClient.
BatchSound == Client!BatchSound

\* The output of the Ray Data pipeline: captions in place, a true summary: see RayDataSplit.
RayDataSound == RayData!RayDataSound
=============================================================================
