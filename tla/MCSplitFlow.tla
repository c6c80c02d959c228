---------------------------- MODULE MCSplitFlow ----------------------------
(* Instances for TLC of the stages of the split pipeline and, each by        *)
(* itself, of what three of them do: cut a video, sample the frames of a     *)
(* clip, caption the windows of clips; of the stages of the image pipeline;  *)
(* and of the comparison of two outputs of a split.  A behaviour is one of   *)
(* one part; the variables of the others do not change.                      *)
EXTENDS SplitStages, ComparedOutputs, SampledCameras, TLC

VARIABLE part

Plain == [on |-> {}, split |-> "stride", transcode |-> TRUE, local |-> FALSE, motion |-> "off",
          filter |-> "off", scoreOnly |-> FALSE, classifier |-> "off", embed |-> "off", caption |-> "off"]

\* command lines with one chain of stages that hand something to each other
Chains ==
  {Plain} \cup
  {[Plain EXCEPT !.split = "transnet"],
   [Plain EXCEPT !.on = {"sr", "aesthetics"}, !.motion = "enable", !.embed = "model"],
   [Plain EXCEPT !.on = {"aesthetics"}, !.embed = "openai", !.motion = "score-only"],
   [Plain EXCEPT !.on = {"aesthetics", "text"}],
   [Plain EXCEPT !.filter = "local", !.classifier = "local"],
   [Plain EXCEPT !.filter = "api", !.scoreOnly = TRUE, !.classifier = "local", !.caption = "vllm"],
   [Plain EXCEPT !.filter = "local", !.caption = "api"],
   [Plain EXCEPT !.classifier = "api", !.caption = "vllm", !.on = {"previews"}],
   [Plain EXCEPT !.filter = "local", !.caption = "vllm", !.on = {"previews"}],
   [Plain EXCEPT !.caption = "vllm", !.on = {"previews", "enhance", "predict"}],
   [Plain EXCEPT !.caption = "api", !.on = {"enhance", "predict"}],
   [Plain EXCEPT !.caption = "vllm", !.embed = "model", !.on = {"enhance"}],
   [Plain EXCEPT !.on = {"sam3"}], [Plain EXCEPT !.on = {"sam3", "annotate", "events"}],
   [Plain EXCEPT !.on = {"sam3", "events", "predict"}, !.caption = "vllm"],
   [Plain EXCEPT !.on = {"events"}],
   [Plain EXCEPT !.transcode = FALSE, !.embed = "openai", !.caption = "vllm"],
   [Plain EXCEPT !.transcode = FALSE, !.filter = "local", !.classifier = "local"]}

\* one more option than o
OneMore(o) ==
  {[o EXCEPT !.on = @ \cup {x}] : x \in {"sr", "aesthetics", "text", "previews", "predict", "sam3", "annotate", "events", "enhance"}}
  \cup {[o EXCEPT !.split = "transnet"], [o EXCEPT !.transcode = FALSE], [o EXCEPT !.local = TRUE], [o EXCEPT !.scoreOnly = TRUE]}
  \cup {[o EXCEPT !.motion = x] : x \in {"score-only", "enable"}}
  \cup UNION {{[o EXCEPT !.filter = x], [o EXCEPT !.classifier = x]} : x \in {"local", "api"}}
  \cup {[o EXCEPT !.embed = x] : x \in {"model", "openai"}}
  \cup {[o EXCEPT !.caption = x] : x \in {"vllm", "api"}}

AllOptions == Chains \cup UNION {OneMore(o) : o \in Chains \cup OneMore(Plain)}
Symmetry == Permutations(Clips)

\* what options of one kind of splitting are left alone when the other kind is checked
Scenes == [split |-> "transnet", mode |-> "stride", entire |-> TRUE, max |-> 0, min |-> 0, crop |-> 0,
           limit |-> 0, len |-> 1, stride |-> 1, size |-> 4, threshold |-> 2]

AllCuts ==
  {[Scenes EXCEPT !.entire = e, !.min = n, !.crop = c] : e \in BOOLEAN, n \in {0, 2}, c \in {0, 1}} \cup
  {[Scenes EXCEPT !.mode = o, !.max = x, !.min = n, !.crop = c] :
     o \in {"truncate", "stride"}, x \in {2, 3}, n \in {0, 2}, c \in {0, 1}} \cup
  {[Scenes EXCEPT !.max = 3, !.limit = 1]} \cup
  {[Scenes EXCEPT !.split = "stride", !.min = n, !.len = l, !.stride = d, !.size = z, !.threshold = r] :
     n \in {0, 3}, l \in {3, 7}, d \in {2, 3, 5}, z \in {2, 4, 5}, r \in {1, 2, 4}}

\* cameras of which not every frame is a keyframe, or whose first keyframe is discarded or missing
Frames  == {0, 1, 2, 4, 5}
Cameras == {c \in [frames : SUBSET Frames \ {{}}, keys : SUBSET Frames \ {{}}] :
              c.keys \subseteq c.frames \cup {0} /\ \A f \in c.frames : \E k \in c.keys : k <= f}

AllGroups ==
  {<<c>> : c \in Cameras} \cup {<<[frames |-> {1, 2}, keys |-> {2}]>>} \cup
  {<<[frames |-> Frames, keys |-> {0, 4}], c>> : c \in {d \in Cameras : Cardinality(d.frames) = 2}}

Grid(ts, from, to, d, l) == [ts |-> ts, start |-> from, end |-> to, stride |-> d, duration |-> l]

AllGrids ==
  {Grid({0, 1, 2, 3, 5}, 0, 6, 3, 3), Grid({0, 2, 4}, 0, 5, 2, 3), Grid({0, 3, 5}, 0, 7, 4, 2),
   Grid({1, 2, 5}, 1, 6, 5, 5), Grid({}, 2, 2, 1, 1)}

AllPolicies ==
  {[tolerance |-> -1, overlap |-> 0], [tolerance |-> 1, overlap |-> 0], [tolerance |-> 4, overlap |-> 2]}

\* an output of two videos, of three clips of which one is filtered, and of two windows; what can
\* be different about one
Base ==
  [readable |-> TRUE, inputs |-> {1, 2}, processed |-> {1, 2},
   chunk |-> [c \in 1..3 |-> [there |-> TRUE, kind |-> IF c = 2 THEN "filtered_clip" ELSE "clip",
                              windows |-> 2, tokens |-> 10]],
   meta  |-> [c \in 1..3 |-> [file |-> "ok", aesthetic |-> 5,
                motion |-> [there |-> TRUE, score |-> [f \in {"global_mean", "per_patch_min_256"} |-> 5]],
                caption |-> [w \in 1..2 |-> w]]],
   mp4   |-> [c \in 1..3 |-> "i1"]]

Different(o) ==
  {o, [o EXCEPT !.readable = FALSE], [o EXCEPT !.inputs = {1}], [o EXCEPT !.processed = {1}],
   [o EXCEPT !.processed = @ \cup {3}], [o EXCEPT !.chunk[1].windows = 1],
   [o EXCEPT !.chunk[3].there = FALSE], [o EXCEPT !.chunk[1].there = FALSE]}
  \cup {[o EXCEPT !.chunk[c].kind = k] : c \in {1, 2}, k \in {"clip", "filtered_clip"}}
  \cup {[o EXCEPT !.chunk[1].tokens = n] : n \in {11, 13}}
  \cup {[o EXCEPT !.meta[c].file = f] : c \in {1, 2, 3}, f \in {"missing", "unreadable"}}
  \cup UNION {{[o EXCEPT !.meta[1].aesthetic = x], [o EXCEPT !.meta[3].motion.score["global_mean"] = x],
               [o EXCEPT !.meta[1].caption[2] = x]} : x \in {-1, 0, 3, 6}}
  \cup {[o EXCEPT !.meta[1].aesthetic = -2], [o EXCEPT !.meta[3].motion.score["global_mean"] = -2],
        [o EXCEPT !.meta[3].motion.there = FALSE], [o EXCEPT !.meta[1].caption = [w \in 1..2 |-> -1]]}
  \cup {[o EXCEPT !.mp4[c] = x] : c \in {1, 2}, x \in {"missing", "no_index", "unreadable", "i2"}}

SourceOfAll == <<1, 1, 2>>
AllPairs == Different(Base) \X Different(Base)

Full == [captions |-> TRUE, index |-> TRUE, video |-> 0, limit |-> 0]
AllComparisons ==
  {Full, [Full EXCEPT !.captions = FALSE], [Full EXCEPT !.index = FALSE], [Full EXCEPT !.video = 2],
   [Full EXCEPT !.limit = 2], [Full EXCEPT !.video = 2, !.limit = 1]}

\* images that are asked about up to three times, by any models, and runs over several images
Setup(n, l, s, c, k) ==
  [n |-> n, limit |-> l, semantic |-> s, classifier |-> c, scoreOnly |-> FALSE, allow |-> FALSE,
   embed |-> FALSE, caption |-> k]

By == {"off", "vllm", "openai", "gemini"}

AllSetups ==
  UNION {{Setup(1, 0, s, "off", k), Setup(1, 0, "off", s, k)} : s \in By, k \in By \cup {"raw"}} \cup
  UNION {{Setup(1, 0, s, c, "off"), Setup(1, 0, s, c, s)} : s \in By, c \in By} \cup
  {[Setup(1, 0, s, c, "off") EXCEPT !.scoreOnly = TRUE] : s \in By \ {"off"}, c \in By} \cup
  {[Setup(1, 0, "off", c, "off") EXCEPT !.allow = TRUE] : c \in By \ {"off"}} \cup
  {[Setup(1, 0, s, "off", k) EXCEPT !.embed = TRUE] : s \in {"off", "vllm"}, k \in {"off", "openai"}} \cup
  {[Setup(3, 0, "off", "off", "off") EXCEPT !.embed = TRUE], Setup(3, 1, "off", "off", "off"),
   Setup(2, 0, "gemini", "off", "off")}

stageVars == <<part, vars, flowVars, cutVars, samplingVars, imageVars, compareVars>>

NoFlow == opts = Plain
NoCall == mode = "inflight" /\ limit = 0 /\ twoStage = {}
NoCuts == options = [Scenes EXCEPT !.min = 2] /\ total = 1 /\ cuts = [f \in {0} |-> 0]
NoSampling ==
  /\ group = <<[frames |-> {0}, keys |-> {0}]>> /\ policy = [tolerance |-> -1, overlap |-> 0]
  /\ grid = Grid({}, 2, 2, 1, 1)

NoImages == setup = Setup(1, 0, "off", "off", "off")

NoCompare == outputs = [a |-> Base, b |-> Base] /\ comparison = Full

StageInit ==
  /\ part \in {"flow", "call", "cuts", "sampling", "images", "compare"}
  /\ (IF part = "flow" THEN TRUE ELSE NoFlow)         /\ Flow!Init
  /\ (IF part = "call" THEN TRUE ELSE NoCall)         /\ Init
  /\ (IF part = "cuts" THEN TRUE ELSE NoCuts)         /\ CutInit
  /\ (IF part = "sampling" THEN TRUE ELSE NoSampling) /\ Sampling!Init
  /\ (IF part = "images" THEN TRUE ELSE NoImages)     /\ Image!Init
  /\ (IF part = "compare" THEN TRUE ELSE NoCompare)   /\ Compare!Init

StageNext ==
  \/ part = "flow"     /\ Flow!Next     /\ UNCHANGED <<part, vars, cutVars, samplingVars, imageVars, compareVars>>
  \/ part = "call"     /\ Next          /\ UNCHANGED <<part, flowVars, cutVars, samplingVars, imageVars, compareVars>>
  \/ part = "cuts"     /\ CutNext       /\ UNCHANGED <<part, vars, flowVars, samplingVars, imageVars, compareVars>>
  \/ part = "sampling" /\ Sampling!Next /\ UNCHANGED <<part, vars, flowVars, cutVars, imageVars, compareVars>>
  \/ part = "images"   /\ Image!Next    /\ UNCHANGED <<part, vars, flowVars, cutVars, samplingVars, compareVars>>
  \/ part = "compare"  /\ Compare!Next  /\ UNCHANGED <<part, vars, flowVars, cutVars, samplingVars, imageVars>>

StageSpec == StageInit /\ [][StageNext]_stageVars
=============================================================================
