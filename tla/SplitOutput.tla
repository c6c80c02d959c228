---------------------------- MODULE SplitOutput ----------------------------
(***************************************************************************)
(* What the split pipeline leaves in its output directory, and how a       *)
(* restart uses it: the scan for processed videos                          *)
(* (pipelines/video/utils/video_pipe_input.py), ClipWriterStage and the    *)
(* consolidation of the Lance fragments                                    *)
(* (pipelines/video/read_write/metadata_writer_stage.py), as              *)
(* pipelines/video/splitting_pipeline.py runs them.                        *)
(*                                                                         *)
(* A video is cut into chunks of clips; each chunk is one task of the      *)
(* writer, which first writes the files of the single clips and then, in   *)
(* parallel, the completion records and the grouped tables.  Names are     *)
(* derived from the input, so that a restart meets its own files; clip     *)
(* files and records that exist are skipped, grouped tables overwritten.   *)
(***************************************************************************)
EXTENDS Naturals, FiniteSets

CONSTANTS Videos,
          Chunks,
          VideoOf,      \* the video of each chunk
          First,        \* the chunks with clip_chunk_index 0
          MaxAttempts,  \* num_run_attempts
          MaxTrouble    \* bound on crashes, failed writes and failed videos

ASSUME OutputAssumption ==
  /\ VideoOf \in [Chunks -> Videos]
  /\ First \subseteq Chunks
  /\ \A v \in Videos : \E c \in First : VideoOf[c] = v
  /\ MaxAttempts \in Nat \ {0}
  /\ MaxTrouble \in Nat

VARIABLES
  remote,     \* an object store: a write is there whole or not at all
  clips,      \* the files of the clips of a chunk
  parquet,    \* grouped embeddings of a chunk
  videoMark,  \* processed_videos/<video>.json
  chunkMark,  \* processed_clip_chunks/<video>_<idx>.json
  sidecar,    \* chunks with a staged sidecar of Lance fragments
  archived,   \* chunks with a processed sidecar
  dataset,    \* how often the fragments of a chunk were appended
  run,        \* the driver: down, running, listed, committed or done
  batch,      \* the sidecars that this consolidation has still to archive
  task,       \* of each chunk, in this run
  attempt,    \* of process_data
  pending,    \* futures_no_rt that are not done
  raised,     \* one of them raised
  erred,      \* video.errors is not empty
  trouble

vars == <<remote, clips, parquet, videoMark, chunkMark, sidecar, archived,
          dataset, run, batch, task, attempt, pending, raised, erred, trouble>>
marks == <<videoMark, chunkMark>>
lance == <<sidecar, archived, dataset>>
driver == <<run, batch>>
taskVars == <<task, attempt, pending, raised, erred>>

File == {"absent", "torn", "whole"}

ChunksOf(v) == {c \in Chunks : VideoOf[c] = v}

\* The record of the video can be read and one exists for each chunk.
Processed(v) ==
  /\ videoMark[v] = "whole"
  /\ \A c \in ChunksOf(v) : chunkMark[c] # "absent"

Init ==
  /\ remote \in BOOLEAN
  /\ clips = [c \in Chunks |-> "absent"]
  /\ parquet = [c \in Chunks |-> "absent"]
  /\ videoMark = [v \in Videos |-> "absent"]
  /\ chunkMark = [c \in Chunks |-> "absent"]
  /\ sidecar = {}
  /\ archived = {}
  /\ dataset = [c \in Chunks |-> 0]
  /\ run = "down"
  /\ batch = {}
  /\ task = [c \in Chunks |-> "none"]
  /\ attempt = [c \in Chunks |-> 0]
  /\ pending = [c \in Chunks |-> {}]
  /\ raised = [c \in Chunks |-> FALSE]
  /\ erred = [c \in Chunks |-> FALSE]
  /\ trouble = 0

\* write_bytes without overwrite: a file that exists, whole or not, is kept.
Kept(file) == IF file = "absent" THEN "whole" ELSE file

-----------------------------------------------------------------------------
(* The driver starts, or is started again.                                 *)

\* Mutant: a video is skipped for its own record, without one for each chunk.
StartUnverified ==
  /\ run = "down" \/ (run = "done" /\ \E v \in Videos : ~Processed(v))
  /\ run' = "running"
  /\ task' = [c \in Chunks |->
                IF videoMark[VideoOf[c]] = "whole" THEN "none" ELSE "queued"]
  /\ attempt' = [c \in Chunks |-> 0]
  /\ UNCHANGED <<remote, clips, parquet, marks, lance, batch, pending, raised,
                 erred, trouble>>

\* extract_single_cam_split_tasks: a task for each video that is not processed.
Start ==
  /\ run = "down" \/ (run = "done" /\ \E v \in Videos : ~Processed(v))
  /\ run' = "running"
  /\ task' = [c \in Chunks |-> IF Processed(VideoOf[c]) THEN "none" ELSE "queued"]
  /\ attempt' = [c \in Chunks |-> 0]
  /\ UNCHANGED <<remote, clips, parquet, marks, lance, batch, pending, raised,
                 erred, trouble>>

-----------------------------------------------------------------------------
(* ClipWriterStage: the tasks of different chunks run in different workers. *)

\* The task reaches the writer, with or without errors of the stages before.
Take(c) ==
  /\ run = "running"
  /\ task[c] = "queued"
  /\ \E e \in BOOLEAN :
       /\ e => trouble < MaxTrouble
       /\ trouble' = IF e THEN trouble + 1 ELSE trouble
       /\ erred' = [erred EXCEPT ![c] = e]
  /\ task' = [task EXCEPT ![c] = "clips"]
  /\ attempt' = [attempt EXCEPT ![c] = 1]
  /\ UNCHANGED <<remote, clips, parquet, marks, lance, driver, pending, raised>>

\* The parallel writes after the clips: the records of a video with errors
\* are replaced by an error file, which nothing reads.
TailOf(c) ==
  {"parquet", "lance"}
    \cup (IF erred[c] THEN {} ELSE {"chunk"} \cup (IF c \in First THEN {"video"} ELSE {}))

\* All clip-level futures are done.
WriteClips(c) ==
  /\ run = "running"
  /\ task[c] = "clips"
  /\ clips' = [clips EXCEPT ![c] = Kept(@)]
  /\ task' = [task EXCEPT ![c] = "tail"]
  /\ pending' = [pending EXCEPT ![c] = TailOf(c)]
  /\ raised' = [raised EXCEPT ![c] = FALSE]
  /\ UNCHANGED <<remote, parquet, marks, lance, driver, attempt, erred, trouble>>

\* The run ends under its tasks.
Down ==
  /\ run' = "down"
  /\ batch' = {}
  /\ task' = [c \in Chunks |-> "none"]
  /\ attempt' = [c \in Chunks |-> 0]
  /\ pending' = [c \in Chunks |-> {}]
  /\ raised' = [c \in Chunks |-> FALSE]
  /\ erred' = [c \in Chunks |-> FALSE]

\* process_data raised: it is called again, or the pipeline fails.
AttemptFails(c) ==
  IF attempt[c] < MaxAttempts
  THEN /\ task' = [task EXCEPT ![c] = "clips"]
       /\ attempt' = [attempt EXCEPT ![c] = @ + 1]
       /\ raised' = [raised EXCEPT ![c] = FALSE]
       /\ UNCHANGED <<driver, pending, erred>>
  ELSE Down

\* Mutant: a clip that could not be written is logged, and that is all.
ClipsFailQuietly(c) ==
  /\ run = "running"
  /\ task[c] = "clips"
  /\ trouble < MaxTrouble
  /\ trouble' = trouble + 1
  /\ task' = [task EXCEPT ![c] = "tail"]
  /\ pending' = [pending EXCEPT ![c] = TailOf(c)]
  /\ raised' = [raised EXCEPT ![c] = FALSE]
  /\ UNCHANGED <<remote, clips, parquet, marks, lance, driver, attempt, erred>>

\* future_c.result() raises for one clip: others may be there already.
ClipsFail(c) ==
  /\ run = "running"
  /\ task[c] = "clips"
  /\ trouble < MaxTrouble
  /\ trouble' = trouble + 1
  /\ AttemptFails(c)
  /\ UNCHANGED <<remote, clips, parquet, marks, lance>>

InTail(c, item) ==
  /\ run = "running"
  /\ task[c] = "tail"
  /\ item \in pending[c]

Finished(c, items) ==
  /\ pending' = [pending EXCEPT ![c] = @ \ items]
  /\ UNCHANGED <<remote, clips, driver, task, attempt, raised, erred, trouble>>

WriteVideoMark(c) ==
  /\ InTail(c, "video")
  /\ videoMark' = [videoMark EXCEPT ![VideoOf[c]] = Kept(@)]
  /\ Finished(c, {"video"})
  /\ UNCHANGED <<parquet, chunkMark, lance>>

\* _write_video_metadata writes the record of the video first.
WriteChunkMark(c) ==
  /\ InTail(c, "chunk")
  /\ "video" \notin pending[c]
  /\ chunkMark' = [chunkMark EXCEPT ![c] = Kept(@)]
  /\ Finished(c, {"chunk"})
  /\ UNCHANGED <<parquet, videoMark, lance>>

WriteParquet(c) ==
  /\ InTail(c, "parquet")
  /\ parquet' = [parquet EXCEPT ![c] = "whole"]
  /\ Finished(c, {"parquet"})
  /\ UNCHANGED <<marks, lance>>

\* New fragments, and then the sidecar that names them.
WriteSidecar(c) ==
  /\ InTail(c, "lance")
  /\ sidecar' = sidecar \cup {c}
  /\ Finished(c, {"lance"})
  /\ UNCHANGED <<parquet, marks, archived, dataset>>

\* A future raises.  The executor waits for the others.
TailFails(c, item) ==
  /\ InTail(c, item)
  /\ trouble < MaxTrouble
  /\ trouble' = trouble + 1
  /\ item = "chunk" => "video" \notin pending[c]
  /\ pending' = [pending EXCEPT
                   ![c] = @ \ (IF item = "video" THEN {"video", "chunk"} ELSE {item})]
  /\ raised' = [raised EXCEPT ![c] = TRUE]
  /\ UNCHANGED <<remote, clips, parquet, marks, lance, driver, task, attempt, erred>>

TailEnds(c) ==
  /\ run = "running"
  /\ task[c] = "tail"
  /\ pending[c] = {}
  /\ IF raised[c]
     THEN AttemptFails(c)
     ELSE /\ task' = [task EXCEPT ![c] = "done"]
          /\ UNCHANGED <<driver, attempt, pending, raised, erred>>
  /\ UNCHANGED <<remote, clips, parquet, marks, lance, trouble>>

-----------------------------------------------------------------------------
(* consolidate_lance_fragments, at the end of a run.                       *)

AllDone == run = "running" /\ \A c \in Chunks : task[c] \in {"none", "done"}

\* Mutant: no look at the processed sidecars.
ListAllSidecars ==
  /\ AllDone
  /\ batch' = sidecar
  /\ run' = IF batch' = {} THEN "done" ELSE "listed"
  /\ UNCHANGED <<remote, clips, parquet, marks, lance, taskVars, trouble>>

\* The staged sidecars that were not processed already are read.
ListSidecars ==
  /\ AllDone
  /\ batch' = sidecar \ archived
  /\ run' = IF batch' = {} THEN "done" ELSE "listed"
  /\ UNCHANGED <<remote, clips, parquet, marks, lance, taskVars, trouble>>

CommitFragments ==
  /\ run = "listed"
  /\ dataset' = [c \in Chunks |-> IF c \in batch THEN dataset[c] + 1 ELSE dataset[c]]
  /\ run' = "committed"
  /\ UNCHANGED <<remote, clips, parquet, marks, sidecar, archived, batch,
                 taskVars, trouble>>

\* Mutant: archive first, and commit then.
ArchiveEarly(c) ==
  /\ run \in {"listed", "committed"}
  /\ c \in batch \ archived
  /\ archived' = archived \cup {c}
  /\ UNCHANGED <<remote, clips, parquet, marks, sidecar, dataset, driver,
                 taskVars, trouble>>

ArchiveSidecar(c) ==
  /\ run = "committed"
  /\ c \in batch \ archived
  /\ archived' = archived \cup {c}
  /\ UNCHANGED <<remote, clips, parquet, marks, sidecar, dataset, driver,
                 taskVars, trouble>>

\* The staged sidecar of an archived one is deleted.
DeleteSidecar(c) ==
  /\ run = "committed"
  /\ c \in batch \cap archived
  /\ sidecar' = sidecar \ {c}
  /\ batch' = batch \ {c}
  /\ run' = IF batch' = {} THEN "done" ELSE "committed"
  /\ UNCHANGED <<remote, clips, parquet, marks, archived, dataset, taskVars, trouble>>

-----------------------------------------------------------------------------
(* A crash.  On a local disk the files that were being written are torn.   *)

Torn(file, writing) ==
  IF remote \/ file = "whole" \/ ~writing THEN {file} ELSE {file, "torn"}

Writing(c, item) == task[c] = "tail" /\ item \in pending[c]

Crash ==
  /\ run \notin {"down", "done"}
  /\ trouble < MaxTrouble
  /\ trouble' = trouble + 1
  /\ Down
  /\ clips' \in [Chunks -> File]
  /\ chunkMark' \in [Chunks -> File]
  /\ videoMark' \in [Videos -> File]
  /\ \A c \in Chunks :
       /\ clips'[c] \in Torn(clips[c], task[c] = "clips")
       /\ chunkMark'[c] \in Torn(chunkMark[c], Writing(c, "chunk"))
  /\ \A v \in Videos :
       videoMark'[v] \in Torn(videoMark[v], \E c \in ChunksOf(v) : Writing(c, "video"))
  /\ UNCHANGED <<remote, parquet, lance>>

-----------------------------------------------------------------------------
Work(c) ==
  \/ Take(c) \/ WriteClips(c) \/ TailEnds(c)
  \/ WriteVideoMark(c) \/ WriteChunkMark(c) \/ WriteParquet(c) \/ WriteSidecar(c)
  \/ ArchiveSidecar(c) \/ DeleteSidecar(c)

Progress ==
  \/ Start \/ ListSidecars \/ CommitFragments
  \/ \E c \in Chunks : Work(c)

Next ==
  \/ Progress
  \/ Crash
  \/ \E c \in Chunks : ClipsFail(c) \/ \E item \in pending[c] : TailFails(c, item)

Spec == Init /\ [][Next]_vars

\* The workers and the driver go on, and who runs the pipeline starts it
\* again as long as it leaves unprocessed videos.
FairSpec == Spec /\ WF_vars(Progress)

-----------------------------------------------------------------------------
(* Properties.                                                             *)

TypeOK ==
  /\ remote \in BOOLEAN
  /\ clips \in [Chunks -> File]
  /\ parquet \in [Chunks -> File]
  /\ videoMark \in [Videos -> File]
  /\ chunkMark \in [Chunks -> File]
  /\ sidecar \subseteq Chunks
  /\ archived \subseteq Chunks
  /\ dataset \in [Chunks -> Nat]
  /\ run \in {"down", "running", "listed", "committed", "done"}
  /\ batch \subseteq Chunks
  /\ task \in [Chunks -> {"none", "queued", "clips", "tail", "done"}]
  /\ attempt \in [Chunks -> 0 .. MaxAttempts]
  /\ pending \in [Chunks -> SUBSET {"video", "chunk", "parquet", "lance"}]
  /\ raised \in [Chunks -> BOOLEAN]
  /\ erred \in [Chunks -> BOOLEAN]
  /\ trouble \in 0 .. MaxTrouble

\* A chunk has a completion record only after all its clip files were
\* written, whatever failed, was retried or crashed in between; on an object
\* store they are whole.
MarkedAfterClips ==
  \A c \in Chunks :
    chunkMark[c] # "absent" =>
      clips[c] = "whole" \/ (~remote /\ clips[c] = "torn")

\* Fragments are archived only once they are in the dataset, and a run that
\* ends leaves the fragments of every chunk it wrote in the dataset.
DatasetComplete ==
  /\ \A c \in archived : dataset[c] > 0
  /\ run = "done" => \A c \in Chunks : task[c] = "done" => dataset[c] > 0

\* A chunk that is written again after its fragments were archived is not
\* appended to the dataset again.
ArchivedNotAppended == [][\A c \in archived : dataset'[c] = dataset[c]]_vars

\* "A simple restart would resume from where it left": once crashes and
\* failures end, every video is recorded as processed (on an object store).
EventuallyProcessed == remote ~> \A v \in Videos : Processed(v)

\* "A simple restart would resume [...] resulting in correct behavior": a video
\* that a restart skips has its embeddings, too (on an object store).
SkippedIsComplete ==
  remote /\ run = "down" =>
    \A v \in Videos : Processed(v) => \A c \in ChunksOf(v) : parquet[c] = "whole"
=============================================================================
