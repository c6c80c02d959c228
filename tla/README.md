# wm-curator in TLA+

Specifications, model-checking configurations and proofs for wm-curator
(`src/cosmos_curator`).  The curator splits videos into clips, filters,
captions and embeds them, deduplicates them and packs them into data sets; it
does the same for images.  It runs as a Ray pipeline, on a workstation, a Slurm
cluster, or behind NVIDIA Cloud Functions (NVCF).  Two kinds of things are
modelled: the places where processes, threads, coroutines, nodes, restarts and
shared files meet, and the pipelines themselves, whose stages hand data to each
other under hundreds of combinations of options.

## 1. The system

### 1.1 Components that are modelled

| Component | State | Operations | Modules |
|---|---|---|---|
| NVCF service (`core/cf/nvcf_main.py`) | in `/tmp`: `pipeline_status`, `pipeline.lock`, `pipeline_status.lock`, `progress_*`, `logs_*`, `done_*`, `failed_*`; per request: a progress thread, a stop event, a log queue, a Ray job | admission, the request handler, the progress thread, termination, worker start | `NvcfService`, `PipelineSlot` |
| Model weights (`core/utils/model/model_utils.py`, `core/cf/nvcf_utils.py`, `nvcf_model_manager.py`) | model directories and tracking file of each node | check, copy from storage or a directory, fetch from the registry, mark, fail | `ModelWeights` |
| Split pipeline (`pipelines/video/splitting_pipeline.py` and its stages) | what each clip carries, where it is listed, its errors | assembly from options, download, split, transcode, decode, filter, embed, caption, track, preview, write | `SplitFlow` |
| Ray Data pipeline (`pipelines/ray_data`) | a row per video or clip, batches of the captioner, clips, metadata, summary | read, split, transcode, write, prepare, ask, return, summarise, run again | `RayDataSplit` |
| Cutting (`clipping/`, `utils/windowing_utils.py`) | predictions, scenes, spans, windows | batches, scenes, truncate, divide, crop, fixed stride, windows | `VideoCuts` |
| Sensors (`core/sensors`) | windows of the timeline, picks, decode plan, rows | sample, decode by group of pictures, bundle | `SensorSampling` |
| Caption engine (`captioning/vllm_caption_stage.py`) | engine process, watchdog thread, orphans, attempts | set up, sweep, call, retry, reset, tear down, die | `EngineWatchdog` |
| Synchronous captioner (`models/vllm_interface.py`) | queue, requests in flight, index by id, results | submit, step, refine, chunk, return | `SyncCaptioner` |
| Async captioner (`models/vllm_interface.py`) | pending tasks, results, token counts, the semaphore of the actor, the engine | dispatch, retry, refinement, completion, cancellation, engine death | `AsyncCaptioner`, `CaptionBatch` |
| Continuous caption stage (`captioning/vllm_async_stage.py`) | input and output queue, `get_task`, trackers, caption tasks, `stop_event` | wait, register, reap, emit, time out, stop, drain | `ContinuousCaption` |
| Split output (`read_write/metadata_writer_stage.py`, `utils/video_pipe_input.py`) | clip files, completion records, grouped tables, Lance sidecars and dataset | scan for processed videos, write, retry, crash, consolidate | `SplitOutput` |
| Temporal annotation (`pipelines/video/annotation`, `models/normalcrafter.py`) | chunks and completion record of a clip, each actor's memory of published ranges | sample, decode, estimate by windows, write chunks, complete, reuse, refuse, run again with other options | `TemporalAnnotation` |
| Comparison of split outputs (`pipelines/video/split_comparison`, `summary_writers.py`) | two outputs: records, summary; the issues found | summarise, load, compare summaries, select clips, compare metadata, scores, captions and files | `SplitComparison` |
| Semantic deduplication (`dedup_pipeline.py`, `dedup/`) | shards per actor and cluster, pruning tables, summary | k-means, dedup, summarise, run again | `SemanticDedup` |
| Shard pipeline (`sharding_pipeline.py`) | groups, archives, `wdinfo.json`, list of the data set | select, group, encode, pack, summarise, refuse a restart | `ShardDataset` |
| Image pipeline (`pipelines/image`) | what each image carries, image, metadata and embedding files, summary | select, load, ask three models, judge, embed, write, run again | `ImageAnnotate` |
| Presigned ZIP transfer (`core/utils/storage/presigned_s3_zip.py`) | a directory per node, the archive, the parts that were sent, what the URL holds | fetch, gather, merge, zip, put whole or in parts, clean up | `PresignedZip` |
| NVCF command line client (`client/nvcf_cli/ncf/launcher`) | a job per function, the request id, its tries | deal out, invoke, poll, retry, download, give up | `NvcfClient` |
| Artifact transport (`core/utils/artifacts`) | staging directories of the nodes, the destination, per-node actors, `_collected` | collect, stream or upload, stall guard, node loss, clean-up | `ArtifactDelivery` |

How they interact.  NVCF admits a request and runs a pipeline as one Ray job.
The driver first brings the model weights to the nodes, scans the input and the
output directory, runs its stages under cosmos-xenna, consolidates Lance
fragments and writes summaries, and finally collects artifacts.  A caption stage is
an actor whose call goes to one of the captioners and through them to the
engine, a process of its own.  Deduplication reads the embeddings that the
split pipeline wrote; the shard pipeline reads the clips' metadata and the
pruning tables.  In front of NVCF the command line client invokes and polls; behind it the
outputs of the nodes are gathered for a presigned URL.  The comparison reads two finished outputs.  The components meet through narrow interfaces (a process that
ends with or without error, a caption call that returns or raises, a stage that
is called again, files that are there or not), which is why each has its own
module and sees its neighbours as nondeterministic outcomes.

### 1.2 What makes them correct

* **NVCF service.**  At most one pipeline runs, although the front end is two
  processes that only share files.  The slot is given back whatever happens; the
  record of a request is final and complete; a termination
  is not overwritten by success.
* **Model weights.**  A pipeline that goes on has the weights on every node, or they
  are reported missing; a failed or killed download is not taken for a model,
  where the code can know.
* **Split pipeline.**  A stage finds what it takes; what was asked for is there
  or an error says why; a filtered clip is filtered once and not worked on; an
  unreadable remote video does not stop the others; nothing heavy is left on a clip.
* **Cutting, sampling.**  Spans and windows partition or cover what the options
  say; a row of a sampled batch is the frame that governs its time.
* **Captioners.**  Each window gets one verdict, in its place, with its reason and tokens; the
  permits come back on every path; a batch ends; the engine's death reaches
  the actor.
* **Ray Data pipeline.**  A caption stands under its window although requests complete in any order; the summary
  counts what the metadata says, over repeated runs.
* **Engine.**  One engine and one watchdog are left by any sequence of deaths, but for processes that survive SIGKILL
  and those a node's set-up passes over (section 3); a call on a dead engine ends.
* **Continuous stage.**  One task in, one task out, except for one that a stop can lose (section 3); nothing leaves unfinished;
  stop ends the stage.
* **Split output.**  A record is written after what it records; a restart
  resumes; no fragment is lost or appended twice once archived.
* **Deduplication, sharding.**  A clip is left out only for one that stays; a
  listed data set is complete and its parts belong together.
* **Annotation.**  A record closes the right row of each frame of the span that was asked for,
  over repeated calls, killed runs and changed options; a task is answered with a record that fits it.
* **Comparison.**  It passes when and only when the outputs agree in what it looks at, and blames the side that differs.
* **Client, presigned ZIP.**  A job that is reported done was, unless its status came back as nothing, and is not
  invoked again while the client knows the first one runs; what the log calls uploaded is whole and of this run.
* **Images.**  Each question gets its own answer; an image passes only with an
  answer to each filter; metadata never precedes its image.
* **Artifacts.**  What is reported delivered is delivered; strict success means
  everything; a failed call can be repeated; each call ends, also when a node hangs where
  the stall guard can see it.

### 1.3 Not modelled

* *Neural networks and their wrappers* (`models/`, except the captioner, its
  engine and NormalCrafter's windows): what they compute is a choice of the environment.
* *Storage clients* and *retry helpers*: modelled where they are used, as
  atomic writes of an object store, torn writes of a local disk, and calls that fail.
* *Pipeline assembly and execution*: done by cosmos-xenna, whose directory is
  empty in this repository; its retries are actions of the modules.
* *`LazyData`*: its `store` and `release` are commented out wherever a stage would call them.
* *Launchers* (Slurm, local, image; `onto_slurm.py`, `onto_nvcf.py`): scripts around
  `sbatch`, `docker` and `ray`, which decide what happens.
* *Stage replay* (`core/interfaces`): a debugging aid; what it saves is read back by hand.
* *Sensor data* (GPS, IMU, MCAP, images): frozen types and parsers.  *Profiling,
  tracing*: observers.
* *Examples* (SAM3 events, super-resolution, hello world): the same stages in fixed orders.
* *Adapters of the annotation*, which make tasks from lists of inputs, and quality statistics
  of the split summary, which nothing reads.
* `field_spec` and `measurement_model` of the split comparison: nothing uses them.

## 2. Modules and the code

Every action stands for one uninterruptible piece of the code: what a process
does between two accesses to shared files, what a coroutine does between two
awaits, what the driver does for one chunk, what a stage does to one clip.  `PROJECT.json` "map" gives the lines of
each definition.  Definitions preceded by "Mutant:" are plausible bugs,
used to see that each property can fail; no specification uses them.

### NvcfService, PipelineSlot

Workers are uvicorn processes, each with a program counter over the middleware,
the handler and the clean-up; requests are ids.  `CheckBusy`, `AcquireLock`,
`WriteStatusFile` are the admission of `PipelineLockMiddleware.dispatch`;
`OpenProgressFile` to `LeaveHandler` is `curate_video`; `Unlink*` and
`ReleaseLock` are the clean-up that runs *inside* the lock it unlinks;
`CheckTermination` to `RecordTermination` is `_terminate_last_job`; `PollStatus` to
`RecordOutcome` is the thread `update_progress`; `Crash` and `Restart` are a
worker process and `setup_pipeline_middleware`.

A file lock has three values: free, held on the file at the path, held on a
file that was unlinked since (`orphan`).  `flock` locks inodes, so the
clean-up, which unlinks lock files while they are held, lets two holders
coexist; whether this breaks anything is one of the questions.

Assumptions: one request at a time per worker (`uvicorn --workers 2
--limit-concurrency 2` in `scripts/onto_nvcf.py`), `filelock` opens and locks in
one step, request ids are valid and unique, the mode without NVCF's
get-request-status, and a `ray job submit` whose exit code may be anything once
the job was stopped.  Readers (status, progress, logs) change nothing and are left out.

`PipelineSlot` is what clients are promised: one holder of the slot, a record
that goes from running to done or failed, the slot given back only after that.
The refinement maps the slot to the request of the worker in the section and the record to what
`_get_request_status` answers.

### ModelWeights

`Start` to `Ends` is `download_model_weights_on_all_nodes`; a node answers which
models it misses (`Answer`), and what it misses is copied, one file of a model
after the other, by a thread per model, or fetched from the registry one model after the other.
`Open`, `Write`, `Mark`, `ListTorn` follow the tracking file, which is truncated
before it is written.  `LoseWeights` and `LoseTracking` are disks that are replaced between runs.

### SplitFlow, VideoCuts, SensorSampling

`SplitFlow` has the options of the command line as a record, `Stages` as
`_assemble_stages` builds the list, and one operator per stage that tells what
the stage takes, leaves, clears, filters or records.  A clip is the set of what
it carries.  Windows of a clip are alike, so each stands for any number.
Every stage may fail on any clip where the code has a failure path.

`VideoCuts` follows one video by frames: batches of `2 * Half` frames with `Half`
frames of context on either side, `_get_scenes`, `_get_filtered_scenes` with both
modes, `_create_spans`, `_make_spans_fixed_stride`, `compute_windows`.  The network
says of each frame whether it belongs to a transition.

`SensorSampling` follows a group of cameras through the windows of a grid: the
nearest frame for each timestamp (`Picked`), the plan by keyframes
(`DecodePlan`), seek and decode (`Decode`), the batch, and the policies on
tolerance and overlap when the group bundles it (`Align`).

### EngineWatchdog

The main thread of an actor with its set-up, `process_data` and its retries,
`_reset` and `destroy`; the watchdog thread, which looks for a live engine
process and exits the process when there is none; the deaths of engines and
actors at any step, and the sweep of orphans by the next actor.  `SetUpOnNode` is an actor that prepares the node
(`stage_setup_on_node`): it builds an engine without the sweep, and its `stage_setup` finds `_llm` set and does not sweep either;
the orphans it passes over are `spared`.  `Kill` is the SIGKILL of the sweep and of a teardown: some victims may outlive the wait
(`doomed`), which the code only logs, and go later.  An actor that is PID 1, which skips its sweep, is left out: the code's comment says
that Ray does not run actors so.

### SyncCaptioner

`_caption_inflight_batching` (`Submit`, `Step`, `Handle*`) and
`_caption_no_inflight_batching` (`Generate`, by chunks).  Requests carry the
window and the stage they are for, so that a result in the wrong place shows.
It implements `CaptionBatch`'s promise that a window is decided once (`KeepsPromise`).

### AsyncCaptioner, CaptionBatch

`_AsyncCaptioner.run` for a batch: `Dispatch*`, then `Handle*` for completed
tasks, then `Return`, or `CancelRun`/`HandleEngineDeath`, `CancelPending`, `Raise`.
`StartAttempt` takes a permit, `Attempt*` and `DecodeFails` are its ends inside
the tenacity retry.  Other batches of the actor take and release permits.  The code handles
the completions of one wake in a row; the model one at a time, so
that more interleavings are covered.  `CaptionBatch` is the caller's view.

### ContinuousCaption

`run_continuous` from one await to the next: `EnterWait`, `HandleWake` with what is done
at once (`AtOnce`), `Expire` and `ContinueAfterTimeout` (the `asyncio.TimeoutError` path), `LeaveLoop`,
`Drain`, `Exit`.  A caption task is one step that returns or raises: its inside
is `AsyncCaptioner`.  Items still in the input queue at a stop stay there.  `LeaveLoop` is the `finally` clause: it
cancels a `get_task` that waits, and forgets one that is done, whose item is then nowhere (`dropped`).

### SplitOutput

A chunk of clips is one task of `ClipWriterStage`.  `WriteClips`/`ClipsFail` are the
per-clip futures and the barrier behind them; the items `video`, `chunk`, `parquet` and
`lance` are the futures after it, which run in parallel.  `Start` is the resume
scan, `ListSidecars`, `CommitFragments`, `ArchiveSidecar`, `DeleteSidecar` the
consolidation.  `Crash` ends the run anywhere; on a local disk it may leave
torn files, on an object store it does not.  Row buffers, formats, secondary
cameras and `--limit` are left out; one job at a time uses an output directory.
The records have distinct names per chunk, each chunk has clips with
embeddings, and cosmos-xenna calls `process_data` up to `num_run_attempts`
times and then fails the pipeline.

### SemanticDedup, ShardDataset

`SemanticDedup`: the input files are shared out to the actors, each writes its
rows of a cluster (`WriteShard`), clusters are deduplicated over all files that
are there (`Dedup`), and the tables are counted (`Summarise`).  Similarity is
a relation between clips, the distance to the centroid an order.

`ShardDataset`: `Samples`, `Grouped` and `TasksOf` select and group, `Encode` and
`WriteTar` work on a group, `WriteInfo` and `WriteList` close a bin and the data set.

### ImageAnnotate

`Stages` are the builders' list; a stage does something for a purpose (the semantic
filter, the classifier, the caption) by a model (vLLM, an OpenAI endpoint with or
without prepared payload, Gemini).  `Processed` and `Wanted` select the images of a
run, `Put`, `WriteMeta`, `WriteEmbedding` and `Finish` leave files, which the
next run finds; `WriteAgain` is a writer that is called again.

### ArtifactDelivery

`Call` is `collect` up to the point where the actors are deployed; to a local destination the driver then waits in
`next(state.gen)` for one node after the other (`seeding`), and again after each chunk for that node; `awaited` are the nodes
it waits for, `Draw` and `GeneratorEnds` what ends such a wait, which has no timeout.  A node hangs by `NodeHangs`.  (The
model lets the first chunks come in any order.)  `FirstChunk`,
`LastChunk`, `GeneratorEnds`, `StreamFails` are `_process_chunk` and
`_consume_ready_ref` for a local destination, `Upload*`, `UploadsEnd`, `TakeResult`,
`TakeFailure` the uploaders for a remote one; `Stall` is `_handle_timeout`;
`Finish*` and `Breaks` end the call; `NodeDies` is a node that leaves.  Files do
not change while they are collected.

### NvcfClient

`nvcf_helper_invoke_batch` deals jobs to functions, and each thread runs
`nvcf_helper_invoke_wait_retry_function`: `Post` and `Answer*` are the invocation with its answers (accepted, finished at once, refused or failed,
lost on the way), `Poll*` the status with its retries (`PollNothing`: an answer without headers, which may come at any poll), `CleanUp` the end of the batch with its temporary files.  The service is external: a function of one container that
takes one request, may fail, or is replaced.

### PresignedZip

`Fetch` brings the input to every node; `Gather`, `Merge*` bring outputs
together; `Put*` send the archive whole or in parts;
`CleanUp` removes what is removed on every path.  Nearly every failure is
logged and swallowed, and each is an action.

### SplitComparison

A pair of outputs is chosen; the summaries that the split pipeline would have written
for them are computed as its writer does (`Summary`, `ChunksOf`), and the
verdict is put together stage by stage (`CompareSummaries`, `CompareMetadata`, `CompareIndex`); each file can fail to be
read (`ReadScore`, `MetadataReadIssues`).  The property says of a pair when it should pass, without the stages.
Issues of layout (sources under more than one root), which can only make a report fail, are left out.

### TemporalAnnotation

One clip, which is a whole source or a span of it.  `Check`, `Decode`, `Recheck`, `Infer`,
`InferEnds`, `OpenChunk`, `CompleteClip` are `process_data` of both stages with the reuse
before and after decoding.  `Frames` chooses the nearest frames by packet times or,
where packets and frames do not agree, by decoded times (`Timeline`); `TemporalWindows`,
`PredictLatents`, `Estimate`, `Due` follow NormalCrafter from windows to rows.  A row is the frames it was
estimated from, so that a row in the wrong place, twice or blended from the wrong windows shows.
A whole source may be taken by two actors at a time, a span by one, as the
writer's contract says.

### RayDataSplit

A row is a video until `Transcode` and a clip from then on; each stage of `run_config` is an action on one
row, since Ray Data streams rows through all stages at once, and `Ask`, `Complete`, `Return` are the
captioner's call for a batch (`_generate_clip_rows`).  `Again` is a batch whose actor died and that Ray gives to another;
all other exceptions end the run (`Fails`).  `WriteSummary` is what the driver does after `take_all`.

### Instances

`MCNvcfService` and `MCAsyncCaptioner` give
constants.  `MCContinuousCaption`, `MCArtifactDelivery`, `MCSplitOutput`, `MCSplitFlow` and `MCParts` check several modules in
one run: `part` says which one a behaviour is of, and the variables of the others
stay as they are, so that the state spaces add up and do not multiply.
`SplitStages` brings together the captioner's calls, the cutting, the images and the stages of the split pipeline of that run
(their constants, variables and the instances of `ImageAnnotate` and `SplitFlow`): `MCSplitFlow` extends it to check them,
`SplitStages_proofs` to prove about them (about the cutting and the sampling,
`SplitOutput_proofs`; about the annotation, `ContinuousCaption_proofs`).  `ComparedOutputs` does that for the
comparison: it says which outputs a reader can find (`Output`) and instantiates `SplitComparison`; and `ClipShards` for the
sharding, with what is assumed of sizes and limits (`ShardAssumption`); and `SampledCameras` for the sampling, with what
the grid and the index of a camera let through (`SamplingAssumption`); and `AnnotatedClip` for the annotation, with what
decoder, `normalize_span` and constructors let through, and windows that leave no gap (`AnnotationAssumption`).

## 3. Runs

| Run | Instance | What is checked |
|---|---|---|
| `nvcf_safety` | 2 workers, 2 requests, symmetric | `OneActivePipeline`, `LogComplete`, `FailedSticks`, `ImplementsSlot` |
| `nvcf_crash` | 2 workers, one late, 1 request, 2 crashes | `SlotFreed`, `OutcomeRecorded` under fairness |
| `nvcf_late_worker` | one late worker | `OneActivePipeline` is **violated** |
| `captioner` | 4 windows of all kinds, 2 permits, 1 other batch, 2 attempts | `NoLeak`, `Accounted`, `ImplementsBatch`, `BatchEnds` (`Terminates`, `DeathRaised`) |
| `continuous` | 4 tasks, one without windows, burst of 1; synchronous calls of 3 windows | `OneInOneOut`, `OutputIsComplete`, `NoCaptionAfterExit`, `Drains`; `CallEnds` |
| `artifacts` | 2 nodes, a small and a large file each, all modes; archives of 2 nodes; 2 models on 2 nodes | `Accounted`, `StrictDelivers`, `RetryPossible`, `CollectedOnce`, `CallReturns`; `UploadSound` (PresignedZip); `WeightsInPlace` (ModelWeights) |
| `split_output` | 1 video, 2 chunks, 2 attempts, 2 troubles; 1 annotated clip, 2 actors, 3 tasks, 2 runs | `MarkedAfterClips`, `DatasetComplete`, `ArchivedNotAppended`, `EventuallyProcessed`; `AnnotationSound` |
| `split_skipped` | the split alone | `SkippedIsComplete` is **violated** |
| `split_flow` | six parts, see below | `FlowSound`; `CaptionsInPlace`, `KeepsPromise` (SyncCaptioner); `CutsSound`; `SamplesAligned`; `ImagesSound`; `ComparisonSound` |
| `parts` | five parts, see below | `OneOfEach`, `WedgedCallEnds` (EngineWatchdog); `DedupSound`; `ShardsSound`; `BatchSound` (NvcfClient); `RayDataSound` |
| `engine_retry` | 3 engines, 3 attempts, 2 deaths | `RetryOnNewEngine` is **violated** |
| `dedup_rerun` | 3 clips, 1 cluster, 2 runs with different numbers of actors | `GroupKept` is **violated** |

The properties are stated in words where they are defined.  Type invariants are not
checked by a run of their own where they are proved (section 4).  What the runs show beyond
"no error":

* The unlinking of a held lock file is harmless between workers that are up:
  it comes after the work, so the holder of an orphaned lock only answers.
* A done file that follows a failed one needs a third worker (section 4).
* The unlinking is not harmless at the start of a worker: a worker that starts, or is
  restarted, while another one runs a pipeline removes the live files
  (`nvcf_late_worker`).
* Completion records are written in parallel with the grouped tables, so a
  crash can leave a video that restarts skip without its embeddings
  (`split_skipped`).  Apart from this, the consolidation is right: nothing
  is lost, and nothing archived is appended again.
* A retry of the caption stage builds a new engine and calls the old one, which
  it had bound before (`engine_retry`).
* Deduplication into a place that holds files of a run with another number of actors
  removes clips for which nothing stays (`dedup_rerun`); with the same number it is right
  over any crashes and reruns.

Four more disagreements with what the code says of itself are stated as the exceptions of properties, so that these claim no
more than the code keeps, and everything else that they say is checked and proved:

* `OneInOneOut`: a `get_task` that is done in the tick in which its wait times out, with stop set, is neither cancelled nor
  registered on the way out of the loop (`vllm_async_stage.py:1193`): its task is lost, and only that one.  The comment says
  "a single get() never gets dropped on the floor" (line 1131).
* `CallReturns`: to a local destination `collect` hangs with a node that hangs while the driver is in `next(state.gen)`
  (`collector.py:975`, `1117`), where the comment expects that "`next(gen)` returns an ObjectRef quickly" (line 1115): the stall
  guard is in the other wait.
* `OneOfEach`: an orphan stays beside the new engine when the new actor is one that sets up the node
  (`vllm_caption_stage.py:613`, `618`), though the sweep is said to be "called from `stage_setup` on every newly-spawned
  actor" (line 788), or when it survives SIGKILL.
* `BatchSound`: a job whose status comes back as nothing (`nvcf_helper.py:1516`) is reported as done, since the
  wait breaks (line 1236) and returns like that of a job that is fulfilled.

### Bounds

Two workers are what the service is started with; two requests are needed for a
second one to be admitted; one output line shows whether lines are lost.
`MaxRestarts = 2` allows a crash of each worker or of the replacement.  A
window of each kind, a second ordinary one and a foreign batch make the two permits contended;
two attempts are the least with a retry.  Four tasks exceed burst, wait and
emission at once.  A large file is two chunks, so a stream can break
inside a file.  Two chunks make a half-processed video; two troubles cover
a failure followed by a crash, and a crash of the restart.

`split_flow` (884 000 states): two clips, so that one can fail where the other goes on, and
473 command lines, every one with a chain of stages that hand something on, each also with one more option; a
synchronous call of three windows with limits of 0 to 2 requests, so that the limit is below, at and above what is
left; videos of up to seven frames with batches of two, which makes a first, a
middle and a partial last batch, and options below, at and above these lengths; cameras with frames among
five timestamps, five grids with gaps, partial and empty windows, three policies; pairs of 42 outputs that differ in each thing the comparison looks at, on either side; one to
three images, each combination of models for two purposes and the third, two starts (`Setups`, a constant: `AllSetups` in the configuration).
`parts` (824 000 states): three engines, two attempts and two deaths give a death in a recovery from a death;
three clips in two clusters with two actors and two runs; three clips of eight kinds in two bins with a
target of two and two starts; up to two jobs over up to two functions, where a
job can meet another's request (three jobs alone: 4 740 000 states, no error); two videos of Ray Data in two runs with three configurations, one of which
makes overlapping clips with several windows, so that two clips share a batch; `RayVideos`, `Duration` and `RayJobs` are constants with these values (both videos with captions: 2 481 000 states, no error).
`artifacts` (553 000 states): besides the delivery, two nodes and an archive of up to
three parts, so that a node or a part can fail alone, and two models on two nodes with two pipelines
(alone with three: 446 000 states, no error).
`split_output` (460 000 states): for the annotation four sources (plain, packets that lose a frame,
gaps, a declared number that is wrong), spans inside, across and beyond them, five sets of options that differ in estimator,
grid, chunk and contract, two runs and three tasks, so that a call can fail, be
repeated, and its output be found by a run with other options.

`CHECK_DEADLOCK FALSE`
stands in every configuration because every system modelled here may come to rest:
requests answered, batch returned, stage exited, data set complete.

### Fairness

* `NvcfService`: processes and threads that are not blocked are scheduled, uvicorn
  replaces a dead worker, a Ray job ends.  No request need arrive.
* `AsyncCaptioner`: the event loop runs ready coroutines, the engine answers or
  dies, other batches release; strong fairness for permits, as
  `asyncio.Semaphore` is first-in first-out.
* `SyncCaptioner`: the loop goes on; a request that the engine steps on again
  and again is answered at last (strong, per request, as `step` is called for all of them).
* `ContinuousCaption`: the loop goes on, caption tasks end (`Terminates` above);
  strong fairness for `get`, as the queue wakes its waiters in order.
* `EngineWatchdog`: the watchdog thread and the recovery are scheduled; a call on a
  dead engine need not return by itself.
* `ArtifactDelivery`: the driver's loop, its clock, and generators that do not hang; a node may hang for ever.
* `SplitOutput`: workers and driver go on, and whoever runs the pipeline
  starts it again while videos are left ("a simple restart").

## 4. Proofs

The `*_proofs` modules prove, for all values of the constants that satisfy the
named assumptions:

* **NvcfService**: `Typing`; `MutualExclusion` (`OneActivePipeline`), assuming
  that no worker starts or dies while others serve (`NoRestart`; without
  it the property is false, see `nvcf_late_worker`); `LogsComplete` (`LogComplete`),
  with crashes and late workers; `TerminationSticks` (`FailedSticks`) and
  `ServiceImplementsSlot` (`ImplementsSlot`), both under `NoRestart`.
  The invariant behind mutual exclusion is that a
  worker is between its admission and its own unlinking of `pipeline.lock`
  exactly while it holds the lock file at the path, and that one worker does:
  the orphaned holds that the clean-up makes belong to workers that have left.
  Log completeness rests on the conservation of lines (emitted = logged + buffered
  + queued), on each request having one owner and untouched records until then, and on the
  stop event being set only by the end of the process or a failed file.
  `FailedSticks` holds for a reason that is not in the code that writes the
  records: the progress thread looks for a failed file and writes the done file under the log lock, but a
  clean-up unlinks that lock, too.  With two workers the one that cleans up is the one
  whose process is recorded, or the one that terminates, and neither can get in between; a third
  worker could.  So the theorem assumes `TwoWorkers`, which is what the service is started with
  (`scripts/onto_nvcf.py:164`, `nvcf_main.py:1167`), and
  `TerminationSticksUnderLock` says for any number of workers what the lock
  guarantees while it is at its path.  The status that is reported stays "failed" either way.
* **AsyncCaptioner**: `Typing`, `NothingLeaks`, `VerdictsAccounted`, `VerdictsOnce`, and
  `RunImplementsBatch`, the refinement of `CaptionBatch`.  The invariant says for each
  phase of a window what its task, results, tokens and errors are; the semaphore
  needs the cardinality of the generating windows; the type of `attempts` needs
  that a running attempt is below the limit.
* **ContinuousCaption_proofs**.  Captions: `Typing`, `ContractHolds` (`OneInOneOut`), `OutIsCaptioned`
  (`OutputIsComplete`), `ExitIsQuiet` (`NoCaptionAfterExit`), for any tasks and burst.  The invariant
  says where each task is (`Placed`), what is known of its caption task
  (`Captions`), and that only a stop drops one (`Dropping`).
  Annotation: `AnnotationIsSound` (`AnnotationSound`), for any sources, spans, options, actors, tasks and runs
  (`AnnotationAssumption`).  `ClipIs`: the grid counted by division has as many times as the span, and each has the nearest
  frame that decodes; `WindowsTile` and `BlendedIs`: a frame is blended from all windows that hold it
  and no others, of which there is at least one; `RowsAre`: whoever reads all chunks gets each row at its place.
  `AnnotationInv` says of a call how far its chunks are stored (`Writing`: all that end where the held ones begin), that without a
  whole source there is one call at a time (`OneWriter`), that calls at a time write the same document
  (`SameDocument`), and of the record that every chunk of its document is stored and right (`Closed`).  A chunk that is written again
  over one of a closed clip is therefore the same chunk, whatever failed in between; chunks of other options may lie
  around it.  That the writer compares its own published ranges is not needed for this.
* **ArtifactDelivery_proofs**.  Delivery: `Typing`, `NothingLostSilently` (`Accounted`), `StrictIsComplete`
  (`StrictDelivers`), `CallCanBeRepeated` (`RetryPossible`), `CollectsOnce`
  (`CollectedOnce`), for any nodes and files.  The invariant has a part about the
  phases of a call (`CallInv`), one about each file between staging and destination
  (`FileInv`), and what strictness adds (`StrictInv`).
  Weights: `WeightsAreInPlace` (`WeightsInPlace`), for any nodes and models, over failed runs and lost disks; the
  invariant follows each directory of a model from missing over torn to whole and ties the tracking file to it.
  Transfer: `UploadsAreSound` (`UploadSound`), for any nodes and parts (`ZipAssumption`); the invariant says
  which parts of which run are at the URL and what each node has contributed to the merged directory.
* **SplitOutput_proofs**.  Output: `Typing`, `RecordsFollowClips`, `NoFragmentLost`, `ArchivedOnce`, for
  any number of videos, chunks, retries and crashes.  The invariant adds that
  a task behind the barrier has its clips, and follows the fragments of
  a chunk from the writer over sidecar and batch to the dataset.
  Cuts: `CutsAreSound` (`CutsSound`), for any video, options and size of a batch
  (`CutsAssumption`).  `CutsInv` adds to the property how far the batches of predictions cover the frames, which scenes a scan
  that stands at a frame has closed, that the pieces of a scene follow one another and stay in it, and that the windows found so
  far tile the clip up to where the next one starts.
  Comparison: `ComparisonIsSound` (`ComparisonSound`), for any two outputs over finitely many clips, any tolerances, selections
  and limits (`ComparisonAssumption`).  `CompareInv` says that the issues are those of the summaries and of exactly the rows that
  are not left to do; the rest is about what issues are.  `IssuesTurned`: whoever is blamed, the other one is when the outputs change places
  (each kind of issue by itself, and the rows by a bijection).  `RowSame`: a row without issues is of a clip that is the same.
  `EnoughRows`: as many rows are looked at as there are clips, up to the limit, as `FirstRows` shows of any order without cycles.
  What the tokens of a summary add up to is not needed: the same function has the same sum.
  Sampling: `SamplesAreAligned` (`SamplesAligned`), for any cameras and timelines, with any policies
  (`SamplingAssumption`).  `ClosestIs`: the neighbours of the insertion point have the nearest frame among them, and the tie goes
  to the earlier one.  Later timestamps have no earlier picks; so a picture that is shown is for the next timestamps after those
  done, and the rows appended for it stand at their ranks (`RanksFollow`).  `SamplingInv` says that windows and aligned frames follow
  the grid (`Windowed`), that the cameras already asked have the rows they should (`RowsSoFar`), and of the one that decodes
  (`Decoding`) which picks it has shown, that those left lie ahead, each group of pictures behind its keyframe, and
  that its rows are exactly those of the timestamps whose picks were shown (`Busy`).
* **SplitStages_proofs**.  Synchronous captioner: `Typing`, `InPlace` (`CaptionsInPlace`) and
  `SyncKeepsPromise` (`KeepsPromise`, the refinement of `CaptionBatch`), for any windows and limit.  The
  invariant says that the windows not decided are, each once and each at one stage, the
  requests queued, in the engine, or answered and not yet handled.
  Images: `ImagesAreSound` (`ImagesSound`), for any number of images, any choice of models and filters, any runs and deaths
  (`ImageAssumption`: three questions, of which only the caption can be asked without a prep stage).  `StagesAre` works out
  the place of every stage that the command line's builders make; `ImageInv` then says by the place of an image which request it
  may carry (one, between its prep stage and the stage that asks), which answers it has, whether it is filtered, what its errors
  have to explain, and which of its files are there.
  Stages: `FlowIsSound` (`FlowSound`), for any finite set of clips and any command lines that `argparse` lets through
  (`FlowAssumption`), of which the pipeline refuses some (`Accepted`).  `FlowStagesAre` shows that what the builders of a command
  line put together are 29 places in a fixed order, each there or not by a condition on the options (`Assembled`); a task at one
  place goes to the next that is assembled (`HandedOn`, `Passing`).  The invariant says by place and options what a clip can carry
  wherever it is (`Anywhere`), what a clip of the task carries whether or not it failed (`Made`), what a clip without an error
  has for the stages to come and what was freed on it (`Sound`), and that a clip that was filtered is still unspent.  Whether a
  stage is in the way of a product is thereby settled for all command lines at once, where TLC tries some of them.
* **Parts_proofs**.  Engine: `OneOfEachHolds` (`OneOfEach`), for any number of engines, attempts,
  deaths and calls; the invariant ties the program counter of the actor to its engine and to the thread it started; of the
  engines it speaks of those `InService`, which no SIGKILL was sent to and no node's set-up passed over.
  Client: `BatchIsSound` (`BatchSound`), for any jobs, functions and retries (`ClientAssumption`); the invariant relates what a thread believes of
  its request to what the function does with it, also when the request of another job is there.
  Deduplication: `DedupIsSound` (`DedupSound`), for any clips, clusters, actors, crashes and reruns
  (`DedupAssumption`), assuming that each run has the same numbers of clusters and actors (`SameConfig`; without it
  the property is false, see `dedup_rerun`).  The invariant says
  that each shard of a cluster is missing or holds exactly the rows of its actor, and each table exactly what the shards of
  its cluster give.
  Ray Data: `RayDataIsSound` (`RayDataSound`), for any videos, lengths, configurations, batches and runs (`RayAssumption`).
  The invariant says what the row of a clip has done at each stage: its file, its windows in order with nothing but what was
  said about each, its metadata; two clips of a video never start together; a batch has the place of each window of its
  clips among its requests, and those that are over stand in theirs.
  Sharding: `ShardsAreSound` (`ShardsSound`), for any clips, bins, sizes, limits and starts (`ShardAssumption`).  `GroupedIs` shows
  what the plan of a run is (`TasksGood`, `AllThere`): tasks without a clip or a name in common, with all wanted clips of a bin
  but for the last few that may be dropped; it goes by induction over the samples of a bin (`GroupsAre`).  The invariant says
  that the store has what the tasks have packed so far and nothing else (`Stored`), that a bin is told of once all tasks are
  packed, with the keys and archives of its tasks (`Told`), and that each embedding has the number of its window (`InPlace`):
  a second start, refused over any output, changes nothing of it.

`SequenceLemmas` holds the lemmas that several modules cite: appending, taking, removing and filtering
without repetition, sorted and joined sequences, sets of indices, that a finite set with a strict total order
can be put in order, that finitely many numbers have a least and a greatest one, what `FlattenSeq` joins.  Induction over the naturals is done there on a set
(lemma `Induction`: a subset of `Nat` that has 0 and every successor is `Nat`), as the library's theorems
take an operator, which the provers cannot instantiate; where an operator of the community modules is
a fold, the lemma names its recursive function and counts up.

TLC checked most of the strengthened invariants before they were proved.  Only model-checked:

* Everything under fairness, which is out of the provers' reach: `SlotFreed`,
  `OutcomeRecorded`, `BatchEnds`, `Drains`, `CallEnds`,
  `CallReturns`, `EventuallyProcessed`, `WedgedCallEnds`.
* `TypeOK`s of the modules without proofs.

## 5. Known behaviour without a run

Service and weights:

* A request refused inside the handler is answered 500 and recorded as done (nvcf_main.py:119).
* A termination checks its request and then stops whatever job runs; if the
  request ended and the next one began in between, the wrong job is stopped.
* A termination right after success turns done into failed.
* Status requests read progress and log files while they are rewritten.
* Outputs are uploaded after done is recorded, and errors of the upload are swallowed.
* A copy of weights cut off after its first file leaves a directory that the next run takes
  for the model.  A remote prefix without objects, or a local source that is missing, leaves an empty
  directory that is not reported.  A crash between truncating and writing the tracking
  file leaves an empty file on which every later run raises.

Split pipeline:

* `slice_video_clips` shares one `clip_stats` among the chunks of a video; a video with no clips makes no task.
* One unreadable local video, or with TransNetV2 one without bytes, ends the pipeline;
  so does a clip without data when mp4 bytes are kept for the windows.
* With API captions a clip that is too short silently has no caption.
* A window whose answer Gemini blocked has a status that says so, and no error.
* Filters act on the primary camera of a task with several.
* A remainder threshold of 0 with a multiple of the window size makes an empty last window; one of 1 can make
  a window of one frame, on which `smart_nframes` raises.
* `_get_batches` never pads the last batch, though its docstring says so; a transition at the very first frames is not found;
  the trailing scene leaves out the last frame; without least length and crop a scene may have length 0;
  in stride mode the crop applies to each piece; `max_length` 0 with stride would not end.
* `decode_video_cpu_frame_ids` returns uninitialised rows for ids beyond the decodable frames.
* `sensor_overlap` above 0 raises when all cameras have a single identical timestamp in a window; frames before the first timestamp
  of a window are not eligible; a stream whose decoder emits leading frames after a seek makes decoding raise.

Captioning:

* A cancelled caption request is retried, as the retry policy excludes only the engine's death; all batches end nevertheless.
* When `auto_processor` fails in a reset, later calls raise for the missing processor.  A watchdog wedged in a scan may end the process in the middle
  of a teardown.  A retry on the stale engine may hang while the watchdog sees the new one.

Outputs:

* A torn local file is kept for ever ("already exists, skipping"); a torn
  record of a video makes each restart process the video again.
* A retried `process_data` adds the rows of the first attempt to its buffers again.
* A crash between commit and archiving appends Lance fragments twice.
* Lenient collection removes the driver's staged files although its own upload
  stalled or failed, where the docstring says that they are preserved "in both modes" (delivery.py:1301), and counts as collected
  (`RetryPossible` speaks of calls that did not); an uploader given up by the stall guard may finish before it is killed;
  a collection to a local destination with no live node still cleans up.
* Deduplication: a cluster without parquet file is counted in the summary; an actor keeps a pair with a
  score of at most 1 - eps while the shard pipeline removes from 1 - eps on; the representative that is kept may be a
  clip that the shard pipeline leaves out for another reason.
* Sharding: a clip whose caption is reported as dropped is packed all the same; a window without caption before
  one with ends the pipeline by an assertion; a bin whose only group was dropped ends the
  summary, and the output is refused to a second run; dropped tails are not counted.

Ray Data:

* An FFmpeg command that fails leaves what it has written; a clip cut short is written to `clips/`, and ends the run
  when its metadata cannot be read: it is then a file without metadata.
* Any exception ends the run without a summary, and the next one starts from nothing; metadata of earlier runs with other options stays.
* A video without clips, also because its frames could not be decoded, is not in the summary; only the number of inputs shows it.

Images:

* The summary of a finished run alone decides what is processed: with `--limit`, runs alternate between the same
  images and never reach the rest, and images with metadata are processed again.
* An unreadable image is in the summary and skipped from then on, though nothing was written for it.
* A crash between metadata and embedding loses the embedding: the restart skips the image.
* An image that is judged differently the second time is in both `images/` and `filtered_images/`.
* Filtered images are embedded, too.  A failed prep of a filter keeps the image from a vLLM caption later.
  A classifier answer that cannot be parsed passes when there is only a block list.

Annotation:

* The list of inputs refuses the same id twice but not the same clip twice, so that two tasks may
  write different spans of one clip at a time, outside of the writer's contract.
* Chunks that an actor remembers from a failed call count when it is called again; with another number of frames or layout
  each later `complete_clip` of that actor raises.
* Weights, `max_frames` and ViPE's chunks are not compared on reuse; a source that is replaced under its path is reused.
* Crashes leave `.partial-` files and chunks of other layouts behind.
* The same span may mean other frames after the fallback, as times count from the first packet or the first decoded frame.
* No pipeline of the repository uses the stages yet.

Client and transfer:

* A connection that drops while polling, or a failed download, ends the job at once, without the retries.
* A download that fails after the request ended invokes again; with fewer functions than jobs a job may be refused since another one of
  the batch occupies its function.
* A request whose worker died is polled for ever; so is, in the older mode, one that errored or was rejected.
* Presigned outputs: the 300 s limit is only logged, and leaving the executor waits on; a node that left before is not
  noticed; after a failed gather the upload goes on with what there is; the temporary directory is removed
  though the upload failed, and so is a user's directory with `output_split_` in its path; a failed input download
  with an output directory given uploads its old content.

Comparison:

* Only `qwen_caption` is compared; a window on one side with an empty caption is not reported, though the docstring of
  `_collect_caption_jobs` says it is; unknown keys of a summary are dropped, though the docstring says they raise.
* Metadata of filtered clips, and a record that is missing on both sides, are not looked at.
* Totals over videos differ between a resumed and a fresh run.
* The report is three datasets, overwritten one after the other.

Launchers and replay (not modelled):

* `wait_for_workers` on Slurm raises at the deadline even when enough workers are counted; the NVCF head waits without limit.
* If the user's command fails, `ray stop` is not run; a worker that fails after 600 s exits 0.
* Stage replay copies its counter of files to each actor, so actors of one stage overwrite each other's files.

## 6. Plan

Left, in the order of what each would add:

1. The launchers: heads that wait for workers with and without a limit, workers that
   count the nodes of a cluster and end when the head is gone.
2. Stage replay and its comparison, whose file names come from a counter copied to every actor.
3. The row buffers of `SplitOutput` (rows of a retried call), and its secondary cameras.
4. The arithmetic of chunks and frames (`smart_nframes`, the sizes of tasks) and the adapters of the annotation.

Order so far: the NVCF service first, as it has the hardest interleavings;
then the captioner and the stage around it; then the artifacts and the output
directory, where failures and restarts matter more than interleavings; then the
pipelines as compositions of stages, the engine's life, and what later pipelines make of their output.
