---------------------------- MODULE SplitStages ----------------------------
(* Parts of the pipelines that run by themselves: the calls of the           *)
(* captioner, the cutting of a video, the stages of the image pipeline, and  *)
(* those that a video passes in the split pipeline.                          *)
EXTENDS SyncCaptioner, VideoCuts

CONSTANTS
  MaxImageRuns, \* the image pipeline is started at most so often
  Setups,       \* its command lines, each with a number of images
  Clips,        \* the clips that the split pipeline may find in a video
  Options       \* its command lines

\* A model for each purpose, or none; only captions can be asked for without a prep stage.
ASSUME ImageAssumption ==
  Setups \subseteq
    [n : Nat, limit : Nat, semantic : {"off", "vllm", "openai", "gemini"},
     classifier : {"off", "vllm", "openai", "gemini"}, scoreOnly : BOOLEAN, allow : BOOLEAN, embed : BOOLEAN,
     caption : {"off", "vllm", "openai", "gemini", "raw"}]

\* A video has finitely many clips; what argparse lets a command line say.
ASSUME FlowAssumption ==
  /\ IsFiniteSet(Clips)
  /\ Options \subseteq
       [on : SUBSET {"sr", "aesthetics", "text", "previews", "predict", "sam3", "annotate", "events", "enhance"},
        split : {"stride", "transnet"}, transcode : BOOLEAN, local : BOOLEAN,
        motion : {"off", "score-only", "enable"}, filter : {"off", "local", "api"}, scoreOnly : BOOLEAN,
        classifier : {"off", "local", "api"}, embed : {"off", "model", "openai"},
        caption : {"off", "vllm", "api"}]

VARIABLES
  setup, phase, started, taken, images, at, files, metas, npys, summary,
  opts, stages, video, videoErr, made, clips, filtered, has, err, stats, halt

Image == INSTANCE ImageAnnotate

imageVars == <<setup, phase, started, taken, images, at, files, metas, npys, summary>>

Flow == INSTANCE SplitFlow

flowVars == <<opts, stages, video, videoErr, made, clips, filtered, has, err, stats, halt>>

\* An image is asked, filtered and written as it was asked for: see ImageAnnotate.
ImagesSound == Image!ImagesSound

\* Stages find what they take, what was asked for is there or an error says so, a clip is filtered
\* once, and one unreadable video does not stop the others: see SplitFlow.
FlowSound == Flow!FlowSound
=============================================================================
