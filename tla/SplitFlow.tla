----------------------------- MODULE SplitFlow -----------------------------
(***************************************************************************)
(* One video on its way through the stages of the split pipeline           *)
(* (pipelines/video/splitting_pipeline.py): which stages the options       *)
(* assemble, and what each of them takes from a clip, leaves on it, moves  *)
(* to filtered_clips or records as an error.                               *)
(*                                                                         *)
(* A clip is the set of what it carries: data (encoded_data), f1 and f2    *)
(* (extracted_frames at 1 and 2 fps), the inputs of models, the products   *)
(* that are asked for, and its windows.  The windows of a clip are alike:  *)
(* win stands for a non-empty clip.windows, fwin for filter_windows, and   *)
(* mp4, input, caption ... for what each of the windows carries.           *)
(*                                                                         *)
(* The stages hand a task on one after the other; a chunk of the clips is  *)
(* followed, the clips of the other chunks are elsewhere.                  *)
(***************************************************************************)
EXTENDS Naturals, Sequences, FiniteSets, SequencesExt

CONSTANTS Clips,    \* the clips that the splitter may find
          Options   \* the command lines, before they are validated

VARIABLES
  opts,       \* the command line
  stages,     \* the stages that the task has before it
  video,      \* what the video carries
  videoErr,   \* video.errors or task.errors is not empty
  made,       \* the clips that the splitter made
  clips,      \* video.clips of the task that is followed
  filtered,   \* video.filtered_clips
  has,        \* what each clip carries
  err,        \* clips with an error recorded on them or on one of their windows
  stats,      \* video.clip_stats.num_filtered_by_*
  halt        \* running, done, vanished (no task is left) or aborted

vars == <<opts, stages, video, videoErr, made, clips, filtered, has, err, stats, halt>>

Item == {"data", "f1", "f2", "motion", "embinput", "embedding",
         "win", "mp4", "input", "caption", "enhanced", "webp", "t5",
         "fwin", "fmp4", "finput", "fcaption", "instances", "tracked", "events"}
Filters == {"motion", "aesthetic", "text", "semantic", "classifier"}

-----------------------------------------------------------------------------
(* The command line and the stages that it assembles. *)

Accepted(o) ==
  /\ "events" \in o.on => "sam3" \in o.on
  /\ ~o.transcode =>
       /\ o.on \cap {"sr", "aesthetics", "text", "previews", "predict", "sam3", "events"} = {}
       /\ o.motion = "off"
       /\ o.embed \in {"off", "openai"}
       /\ o.caption # "api" /\ o.filter # "api" /\ o.classifier # "api"
       /\ ~o.local => o.caption = "off" /\ o.embed = "off" /\ o.filter = "off" /\ o.classifier = "off"

If(b, s)   == IF b THEN s ELSE <<>>
Only(b, x) == IF b THEN x ELSE {}

ClipStages(o) ==
  <<"download">>
  \o (IF o.split = "transnet" THEN <<"videoframes", "transnet">> ELSE <<"stride">>)
  \o If(o.transcode, <<"transcode">>) \o <<"chunk">>

PixelStages(o) ==
  If("sr" \in o.on, <<"superres">>)
  \o If(o.motion # "off", <<"motiondecode", "motion">>)
  \o If("aesthetics" \in o.on \/ o.embed # "off", <<"frames">>)
  \o If("aesthetics" \in o.on, <<"aesthetic">>)
  \o If("text" \in o.on, <<"text">>)

SemanticStages   == <<"fprep", "fcaption", "semantic">>
ClassifierStages == <<"cprep", "ccaption", "classify">>

VlmStages(o) == If(o.filter # "off", SemanticStages) \o If(o.classifier # "off", ClassifierStages)

EmbeddingStages(o) ==
  If(o.embed = "model", <<"embedframes", "embed">>) \o If(o.embed = "openai", <<"embedapi">>)

CaptioningStages(o) ==
  <<"prep">> \o If("previews" \in o.on, <<"preview">>) \o <<"caption">> \o If("enhance" \in o.on, <<"enhance">>)

TrackingStages(o) == If("sam3" \in o.on, <<"sam3">>) \o If("events" \in o.on, <<"events">>)

Stages(o) ==
  ClipStages(o) \o PixelStages(o) \o VlmStages(o) \o EmbeddingStages(o)
  \o If(o.caption # "off", CaptioningStages(o)) \o TrackingStages(o)
  \o If("predict" \in o.on, <<"t5">>) \o <<"write">>

Stage(s) == halt = "running" /\ Head(stages) = s
Onward   == stages' = Tail(stages) /\ halt' = halt

\* mutant: one rate, of the stage that comes first
FrameRatesOne == IF "aesthetics" \in opts.on THEN {"f1"} ELSE Only(opts.embed # "off", {"f2"})
FrameRates == Only("aesthetics" \in opts.on, {"f1"}) \cup Only(opts.embed # "off", {"f2"})
\* mutant: the previews are forgotten
KeepMp4NoPreviews == "predict" \in opts.on \/ opts.caption = "api"
KeepMp4 == {"previews", "predict"} \cap opts.on # {} \/ opts.caption = "api"

Holding(x) == {c \in clips : x \in has[c]}

Give(cs, xs)  == [c \in Clips |-> IF c \in cs THEN has[c] \cup xs ELSE has[c]]
Strip(cs, xs) == [c \in Clips |-> IF c \in cs THEN has[c] \ xs ELSE has[c]]

-----------------------------------------------------------------------------
(* From a file to clips. *)

Init ==
  /\ opts \in {o \in Options : Accepted(o)}
  /\ stages = Stages(opts)
  /\ video = {} /\ videoErr = FALSE
  /\ made = {} /\ clips = {} /\ filtered = {}
  /\ has = [c \in Clips |-> {}]
  /\ err = {}
  /\ stats = [f \in Filters |-> 0]
  /\ halt = "running"

\* an unreadable file, one whose metadata cannot be read, one that cannot be remuxed
Download ==
  /\ Stage("download") /\ Onward
  /\ \/ video' = {} /\ videoErr' = TRUE
     \/ video' = {"data"} /\ videoErr' = videoErr
     \/ video' = {"data", "metadata"} /\ videoErr' \in BOOLEAN
  /\ UNCHANGED <<opts, made, clips, filtered, has, err, stats>>

VideoFrames ==
  /\ Stage("videoframes")
  /\ IF "data" \notin video THEN halt' = "aborted" /\ UNCHANGED <<stages, video, videoErr>>
     ELSE /\ Onward
          /\ \/ "metadata" \notin video /\ UNCHANGED <<video, videoErr>>
             \/ "metadata" \in video /\ video' = video \cup {"frames"} /\ UNCHANGED videoErr
             \/ "metadata" \in video /\ videoErr' = TRUE /\ UNCHANGED video
  /\ UNCHANGED <<opts, made, clips, filtered, has, err, stats>>

TransNet ==
  /\ Stage("transnet") /\ Onward
  /\ IF {"metadata", "frames"} \subseteq video
     THEN made' \in SUBSET Clips /\ video' = video \ {"frames"}
     ELSE UNCHANGED <<made, video>>
  /\ clips' = made'
  /\ UNCHANGED <<opts, videoErr, filtered, has, err, stats>>

\* spans need the metadata and the timestamps of the video
FixedStride ==
  /\ Stage("stride") /\ Onward
  /\ \/ "metadata" \in video /\ made' \in SUBSET Clips /\ UNCHANGED videoErr
     \/ videoErr' = TRUE /\ UNCHANGED made
  /\ clips' = made'
  /\ UNCHANGED <<opts, video, filtered, has, err, stats>>

\* ffmpeg fails for a batch, the metadata of a clip cannot be read, or the batches
\* from one on are lost to an exception
Transcode ==
  /\ Stage("transcode") /\ Onward
  /\ \E bad, lost \in SUBSET clips :
       /\ has' = Give(clips \ (bad \cup lost), {"data"})
       /\ err' = err \cup bad
       /\ videoErr' = (videoErr \/ "data" \notin video \/ lost # {})
  /\ video' = video \ {"data"}
  /\ UNCHANGED <<opts, made, clips, filtered, stats>>

\* a video without clips makes no task; else one of its chunks is followed
Chunk ==
  /\ Stage("chunk")
  /\ video' = video \ {"data"}
  /\ IF clips = {} THEN halt' = "vanished" /\ UNCHANGED <<stages, clips>>
     ELSE Onward /\ clips' \in (SUBSET clips) \ {{}}
  /\ UNCHANGED <<opts, videoErr, made, filtered, has, err, stats>>

-----------------------------------------------------------------------------
(* Filters.  out are the clips that leave, under the name of the filter. *)

\* mutant: the clip is appended to filtered_clips and stays in clips
LeaveCopied(out, filter) ==
  /\ clips' = clips
  /\ filtered' = filtered \cup out
  /\ stats' = [stats EXCEPT ![filter] = @ + Cardinality(out)]

Leave(out, filter) ==
  /\ clips' = clips \ out
  /\ filtered' = filtered \cup out
  /\ stats' = [stats EXCEPT ![filter] = @ + Cardinality(out)]

SuperResolution ==
  /\ Stage("superres") /\ Onward
  /\ \E bad \in SUBSET Holding("data") : err' = err \cup bad
  /\ UNCHANGED <<opts, video, videoErr, made, clips, filtered, has, stats>>

MotionDecode ==
  /\ Stage("motiondecode") /\ Onward
  /\ \E bad \in SUBSET clips :
       /\ clips \ Holding("data") \subseteq bad
       /\ has' = Give(clips \ bad, {"motion"})
       /\ err' = err \cup bad
  /\ UNCHANGED <<opts, video, videoErr, made, clips, filtered, stats>>

Motion ==
  /\ Stage("motion") /\ Onward
  /\ \E small \in SUBSET clips :
       /\ clips \ Holding("motion") \subseteq small
       /\ Leave(IF opts.motion = "score-only" THEN {} ELSE small, "motion")
  /\ has' = Strip(clips, {"motion"})
  /\ UNCHANGED <<opts, video, videoErr, made, err>>

\* a clip without data is read from its local source; one that cannot be decoded loses its data
Frames ==
  /\ Stage("frames") /\ Onward
  /\ \E bad \in SUBSET clips :
       /\ ~opts.local => clips \ Holding("data") \subseteq bad
       /\ has' = [c \in Clips |-> IF c \in bad THEN has[c] \ {"data"}
                                  ELSE IF c \in clips THEN has[c] \cup FrameRates ELSE has[c]]
       /\ err' = err \cup bad
       /\ UNCHANGED videoErr
  /\ UNCHANGED <<opts, video, made, clips, filtered, stats>>

\* the local source is opened for clips without data, before any clip is looked at
FramesUnopened ==
  /\ Stage("frames") /\ Onward
  /\ opts.local /\ clips # Holding("data")
  /\ videoErr' = TRUE
  /\ UNCHANGED <<opts, video, made, clips, filtered, has, err, stats>>

Aesthetic ==
  /\ Stage("aesthetic") /\ Onward
  /\ LET scored == Holding("data") \cap Holding("f1") IN
       /\ \E low \in SUBSET clips : clips \ scored \subseteq low /\ Leave(low, "aesthetic")
       /\ has' = Strip(scored, {"f1"})
       /\ err' = err \cup (clips \ scored)
  /\ UNCHANGED <<opts, video, videoErr, made>>

\* a clip that cannot be examined passes
ArtificialText ==
  /\ Stage("text") /\ Onward
  /\ \E found \in SUBSET Holding("data"), bad \in SUBSET clips :
       /\ clips \ Holding("data") \subseteq bad
       /\ found \cap bad = {}
       /\ Leave(found, "text")
       /\ err' = err \cup bad
  /\ UNCHANGED <<opts, video, videoErr, made, has>>

-----------------------------------------------------------------------------
(* Windows.  A clip with too few frames has none; without data the windows *)
(* come from the local source, which cannot give mp4 bytes.                *)

Unsourced == IF opts.local THEN {} ELSE clips \ Holding("data")

MakeWindows(keep, fresh, stale) ==
  IF keep /\ opts.local /\ clips # Holding("data")
  THEN halt' = "aborted" /\ UNCHANGED <<stages, has, err>>
  ELSE /\ Onward
       /\ \E short \in SUBSET (clips \ Unsourced) :
            LET windowed == clips \ (Unsourced \cup short) IN
            has' = [c \in Clips |-> IF c \in windowed THEN (has[c] \ stale) \cup fresh
                                    ELSE IF c \in clips THEN has[c] \ stale ELSE has[c]]
       /\ err' = err \cup Unsourced

FilterItems == {"fwin", "fmp4", "finput", "fcaption"}

\* filter_windows are replaced, so that a second filter does not see the captions of the first
FilterPrep(s, endpoint) ==
  /\ Stage(s)
  /\ IF endpoint = "api"
     THEN MakeWindows(TRUE, {"fwin", "fmp4"}, FilterItems)
     ELSE MakeWindows("previews" \in opts.on,
                      {"fwin", "finput"} \cup Only("previews" \in opts.on, {"fmp4"}), FilterItems)
  /\ UNCHANGED <<opts, video, videoErr, made, clips, filtered, stats>>

\* the retries of the local engine are used up, which leaves an error on the video
EngineGivenUp(endpoint, good) ==
  \/ UNCHANGED videoErr
  \/ endpoint # "api" /\ good = {} /\ videoErr' = TRUE

FilterCaption(s, endpoint) ==
  /\ Stage(s) /\ Onward
  /\ \E good \in SUBSET Holding("fwin") :
       /\ has' = [c \in Clips |->
                    IF c \in clips
                    THEN (has[c] \ Only(endpoint # "api", {"finput"} \cup Only("previews" \notin opts.on, {"fmp4"})))
                         \cup Only(c \in good, {"fcaption"})
                    ELSE has[c]]
       /\ err' = err \cup (Holding("fwin") \ good)
                     \cup Only(endpoint # "api", clips \ Holding("fwin"))
       /\ EngineGivenUp(endpoint, good)
  /\ UNCHANGED <<opts, video, made, clips, filtered, stats>>

FilterWindows(s, scoreOnly, name) ==
  /\ Stage(s) /\ Onward
  /\ \E rejected \in SUBSET Holding("fcaption") :
       Leave(IF scoreOnly THEN {} ELSE rejected \cup (clips \ Holding("fcaption")), name)
  /\ err' = err \cup (clips \ Holding("fcaption"))
  /\ has' = Strip(clips \cup filtered, {"finput", "fmp4"})
  /\ UNCHANGED <<opts, video, videoErr, made>>

SemanticFilter ==
  \/ FilterPrep("fprep", opts.filter)
  \/ FilterCaption("fcaption", opts.filter)
  \/ FilterWindows("semantic", opts.scoreOnly, "semantic")

Classifier ==
  \/ FilterPrep("cprep", opts.classifier)
  \/ FilterCaption("ccaption", opts.classifier)
  \/ FilterWindows("classify", FALSE, "classifier")

-----------------------------------------------------------------------------
(* Embeddings and captions. *)

\* mutant: the other rate is freed, not the one that was used
EmbedFramesWrongRate ==
  /\ Stage("embedframes") /\ Onward
  /\ LET fed == Holding("data") \cap Holding("f2") IN
       /\ has' = [c \in Clips |-> IF c \in fed THEN (has[c] \ {"f1"}) \cup {"embinput"} ELSE has[c]]
       /\ err' = err \cup (clips \ fed)
  /\ UNCHANGED <<opts, video, videoErr, made, clips, filtered, stats>>

\* InternVideo2 and Cosmos-Embed1: frames to model inputs, and the inputs to an embedding
EmbedFrames ==
  /\ Stage("embedframes") /\ Onward
  /\ LET fed == Holding("data") \cap Holding("f2") IN
       /\ has' = [c \in Clips |-> IF c \in fed THEN (has[c] \ {"f1", "f2"}) \cup {"embinput"} ELSE has[c]]
       /\ err' = err \cup (clips \ fed)
  /\ UNCHANGED <<opts, video, videoErr, made, clips, filtered, stats>>

\* mutant: only a missing input is an error
EmbedQuietly ==
  /\ Stage("embed") /\ Onward
  /\ \E good \in SUBSET Holding("embinput") :
       /\ has' = [c \in Clips |-> IF c \in clips THEN (has[c] \ {"embinput"}) \cup Only(c \in good, {"embedding"})
                                  ELSE has[c]]
       /\ err' = err \cup (clips \ Holding("embinput"))
  /\ UNCHANGED <<opts, video, videoErr, made, clips, filtered, stats>>

Embed ==
  /\ Stage("embed") /\ Onward
  /\ \E good \in SUBSET Holding("embinput") :
       /\ has' = [c \in Clips |-> IF c \in clips THEN (has[c] \ {"embinput"}) \cup Only(c \in good, {"embedding"})
                                  ELSE has[c]]
       /\ err' = err \cup (clips \ good)
  /\ UNCHANGED <<opts, video, videoErr, made, clips, filtered, stats>>

EmbedApi ==
  /\ Stage("embedapi") /\ Onward
  /\ \E good \in SUBSET Holding("f2") :
       /\ has' = [c \in Clips |-> IF c \in good THEN (has[c] \ {"f1", "f2"}) \cup {"embedding"} ELSE has[c]]
       /\ err' = err \cup (clips \ good)
  /\ UNCHANGED <<opts, video, videoErr, made, clips, filtered, stats>>

CaptionPrep ==
  /\ Stage("prep")
  /\ IF opts.caption = "api"
     THEN MakeWindows(TRUE, {"win", "mp4"}, {})
     ELSE MakeWindows(KeepMp4, {"win", "input"} \cup Only(KeepMp4, {"mp4"}), {})
  /\ UNCHANGED <<opts, video, videoErr, made, clips, filtered, stats>>

\* a failure of ffmpeg is logged only
Preview ==
  /\ Stage("preview")
  /\ IF Holding("win") \subseteq Holding("mp4")
     THEN Onward /\ \E good \in SUBSET Holding("win") : has' = Give(good, {"webp"})
     ELSE halt' = "aborted" /\ UNCHANGED <<stages, has>>
  /\ UNCHANGED <<opts, video, videoErr, made, clips, filtered, err, stats>>

\* the vLLM stages record a clip without windows, and free the inputs; the API stages do neither
Caption ==
  /\ Stage("caption") /\ Onward
  /\ LET ready == Holding("win") \cap Holding(IF opts.caption = "api" THEN "mp4" ELSE "input") IN
     \E good \in SUBSET ready :
       /\ has' = [c \in Clips |->
                    IF c \in clips
                    THEN (has[c] \ Only(opts.caption # "api", {"input"} \cup Only(~KeepMp4, {"mp4"})))
                         \cup Only(c \in good, {"caption"})
                    ELSE has[c]]
       /\ err' = err \cup (Holding("win") \ good)
                     \cup Only(opts.caption # "api", clips \ Holding("win"))
       /\ EngineGivenUp(opts.caption, good)
  /\ UNCHANGED <<opts, video, made, clips, filtered, stats>>

Enhance ==
  /\ Stage("enhance") /\ Onward
  /\ has' = Give(Holding("caption"), {"enhanced"})
  /\ err' = err \cup (clips \ Holding("caption"))
  /\ UNCHANGED <<opts, video, videoErr, made, clips, filtered, stats>>

\* event captions need the annotated video, which makes SAM3 draw it
Sam3 ==
  /\ Stage("sam3") /\ Onward
  /\ \E good \in SUBSET Holding("data") : \E seen \in SUBSET good :
       /\ has' = [c \in Clips |-> has[c] \cup Only(c \in seen, {"instances"})
                                         \cup Only(c \in good /\ ({"annotate", "events"} \cap opts.on # {}), {"tracked"})]
       /\ err' = err \cup (clips \ good)
  /\ UNCHANGED <<opts, video, videoErr, made, clips, filtered, stats>>

EventCaption ==
  /\ Stage("events") /\ Onward
  /\ \E good \in SUBSET (Holding("instances") \cap Holding("tracked")) :
       /\ has' = Give(good, {"events"})
       /\ err' = err \cup (Holding("instances") \ good)
  /\ UNCHANGED <<opts, video, videoErr, made, clips, filtered, stats>>

EncodeT5 ==
  /\ Stage("t5") /\ Onward
  /\ has' = Give(Holding("caption"), {"t5"})
  /\ UNCHANGED <<opts, video, videoErr, made, clips, filtered, err, stats>>

\* deleting from model_input while iterating over it raises unless it is empty
Write ==
  /\ Stage("write")
  /\ halt' = IF \A c \in clips \cup filtered : "input" \notin has[c] THEN "done" ELSE "aborted"
  /\ UNCHANGED <<opts, stages, video, videoErr, made, clips, filtered, has, err, stats>>

Next ==
  \/ Download \/ VideoFrames \/ TransNet \/ FixedStride \/ Transcode \/ Chunk
  \/ SuperResolution \/ MotionDecode \/ Motion \/ Frames \/ FramesUnopened \/ Aesthetic \/ ArtificialText
  \/ SemanticFilter \/ Classifier
  \/ EmbedFrames \/ Embed \/ EmbedApi
  \/ CaptionPrep \/ Preview \/ Caption \/ Enhance
  \/ Sam3 \/ EventCaption \/ EncodeT5 \/ Write

Spec == Init /\ [][Next]_vars

-----------------------------------------------------------------------------
(* Properties. *)

TypeOK ==
  /\ Accepted(opts)
  /\ IsSuffix(stages, Stages(opts)) /\ stages # <<>>
  /\ video \subseteq {"data", "metadata", "frames"} /\ videoErr \in BOOLEAN
  /\ made \subseteq Clips /\ clips \subseteq made /\ filtered \subseteq made
  /\ has \in [Clips -> SUBSET Item]
  /\ err \subseteq made
  /\ stats \in [Filters -> 0..Cardinality(Clips)]
  /\ halt \in {"running", "done", "vanished", "aborted"}

Intact(c) == c \notin err /\ ~videoErr

\* what a stage needs of a clip to do its work on it
Takes(s, c) ==
  CASE s \in {"superres", "motiondecode", "text", "sam3"} -> {"data"}
    [] s \in {"frames", "fprep", "cprep", "prep"} -> Only(~opts.local, {"data"})
    [] s = "motion"      -> {"motion"}
    [] s = "aesthetic"   -> {"data", "f1"}
    [] s = "embedframes" -> {"data", "f2"}
    [] s = "embed"       -> {"embinput"}
    [] s = "embedapi"    -> {"f2"}
    [] s = "fcaption"    -> Only("fwin" \in has[c], {IF opts.filter = "api" THEN "fmp4" ELSE "finput"})
    [] s = "ccaption"    -> Only("fwin" \in has[c], {IF opts.classifier = "api" THEN "fmp4" ELSE "finput"})
    [] s \in {"semantic", "classify"} -> Only("fwin" \in has[c], {"fcaption"})
    [] s = "preview"     -> Only("win" \in has[c], {"mp4"})
    [] s = "caption"     -> Only("win" \in has[c], {IF opts.caption = "api" THEN "mp4" ELSE "input"})
    [] s = "enhance"     -> Only("win" \in has[c], {"caption"})
    [] s = "events"      -> Only("instances" \in has[c], {"tracked"})
    [] OTHER             -> {}

\* Whatever the options assemble, a stage finds on a clip without an error all
\* that it takes: no stage before it consumed, replaced or failed to make it.
Fed ==
  halt = "running" => \A c \in clips : Intact(c) => Takes(Head(stages), c) \subseteq has[c]

\* A video that reaches the writer has, for each clip that passed the filters, the
\* products that the options ask for, or an error says that the clip lacks them.
\* A clip too short for a window is given no caption by an API endpoint, without an error.
AskedOrRecorded ==
  halt = "done" => \A c \in clips : Intact(c) =>
    /\ opts.embed # "off"      => "embedding" \in has[c]
    /\ opts.caption = "vllm"   => "caption" \in has[c]
    /\ opts.caption = "api"    => ("win" \in has[c] <=> "caption" \in has[c])
    /\ "enhance" \in opts.on  => ("caption" \in has[c] <=> "enhanced" \in has[c])
    /\ "predict" \in opts.on  => ("caption" \in has[c] <=> "t5" \in has[c])
    /\ "events" \in opts.on   => ("instances" \in has[c] <=> "events" \in has[c])

\* What stages hand to each other is freed on the way: a clip without an error takes no
\* frames, motion vectors or model inputs to the writer.
Released ==
  halt = "done" => \A c \in clips : Intact(c) =>
    has[c] \cap {"f1", "f2", "motion", "embinput", "input", "finput", "fmp4"} = {}

\* A clip is filtered once and by one filter, is counted there, and no stage spends an
\* embedding, a caption or a tracking on it afterwards.
FilteredStayOut ==
  /\ clips \cap filtered = {}
  /\ stats["motion"] + stats["aesthetic"] + stats["text"] + stats["semantic"] + stats["classifier"]
       = Cardinality(filtered)
  /\ \A c \in filtered : has[c] \cap {"embinput", "embedding", "win", "caption", "instances"} = {}

\* An unreadable video or clip does not stop the pipeline when the input is remote and
\* is split at a fixed stride: what is missing is recorded and the other videos go on.
RemoteKeepsGoing == ~opts.local /\ opts.split = "stride" => halt # "aborted"

\* The stages that a command line assembles fit together: what one of them still needs is not
\* freed before it, what none needs is not kept, and a clip leaves with what was asked for, is
\* filtered once, or an error says why not, and does not take the pipeline with it.
FlowSound == Fed /\ AskedOrRecorded /\ Released /\ FilteredStayOut /\ RemoteKeepsGoing
=============================================================================
