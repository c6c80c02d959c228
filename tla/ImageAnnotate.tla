---------------------------- MODULE ImageAnnotate ----------------------------
(* The image pipeline: which images a run takes, the stages that each of     *)
(* them goes through, and what is left in the output directory, over runs    *)
(* that finish or die.  A model is asked about an image up to three times:   *)
(* by the semantic filter, by the classifier and for its caption; a prep     *)
(* stage puts the request on the image, and the answer stays there under a   *)
(* key.  Files are written in one step each, as on an object store.          *)
EXTENDS Integers, Sequences, FiniteSets

CONSTANTS
  Setups,      \* command lines, each with a number of images
  MaxImageRuns \* the pipeline is started at most so often

VARIABLES
  setup,
  phase,    \* idle, running or finished
  started,  \* how often the pipeline was started
  taken,    \* the images of this run
  images,   \* what they carry
  at,       \* the stage that each is before
  files,    \* the image files: directory and image
  metas,    \* the images with metadata, and what it says of the directory
  npys,     \* the images with an embedding file
  summary   \* the images that summary.json lists

imageVars == <<setup, phase, started, taken, images, at, files, metas, npys, summary>>

Purposes == {"semantic", "classifier", "caption"}
All      == 1..setup.n
NoAnswer == [says |-> "none", about |-> "none"]
NoMeta   == "none"

\* an image as extract_image_tasks makes it
Fresh ==
  [data |-> FALSE, frames |-> FALSE, filtered |-> FALSE, embedded |-> FALSE, errors |-> {},
   answers |-> [p \in Purposes |-> NoAnswer], status |-> [p \in Purposes |-> "none"],
   inputs |-> [m \in {"vllm", "openai"} |-> "none"]]

-----------------------------------------------------------------------------
\* the builders: a stage does something for a purpose, by a model
Does(what, p, m) == [do |-> what, for |-> p, by |-> m]
Asking(p, m)     == IF m = "gemini" THEN <<Does("ask", p, m)>>
                    ELSE IF m = "raw" THEN <<Does("ask", p, "openai")>>
                    ELSE <<Does("prep", p, m), Does("ask", p, m)>>
Judging(p, m)    == IF m = "off" THEN <<>> ELSE Asking(p, m) \o <<Does("judge", p, m)>>

Stages ==
  <<Does("load", "all", "none")>>
    \o Judging("semantic", setup.semantic) \o Judging("classifier", setup.classifier)
    \o (IF setup.embed THEN <<Does("embed", "all", "none")>> ELSE <<>>)
    \o (IF setup.caption = "off" THEN <<>> ELSE Asking("caption", setup.caption))
    \o [k \in 1..3 |-> Does(<<"write image", "write meta", "write embedding">>[k], "all", "none")]

Stage(i)      == Stages[at[i]]
Before(i, what) == phase = "running" /\ i \in taken /\ at[i] <= Len(Stages) /\ Stage(i).do = what

\* Mutant: the model alone, so that the classifier finds the answer to the semantic filter.
KeyModel(p, m) == IF p = "classifier" /\ setup.semantic = m THEN "semantic" ELSE p

\* the key under which an answer is kept: purpose and model
Key(p, m) == p

Init ==
  /\ setup \in Setups
  /\ phase = "idle" /\ started = 0 /\ taken = {}
  /\ images = [i \in All |-> Fresh] /\ at = [i \in All |-> 1]
  /\ files = {} /\ metas = [i \in All |-> NoMeta] /\ npys = {} /\ summary = {}

-----------------------------------------------------------------------------
\* a summary that lists anything decides alone; only without one are the metadata files read
Processed == IF summary # {} THEN summary ELSE {i \in All : metas[i] # NoMeta}

\* the first images, in order, that are not processed
Wanted ==
  LET left == All \ Processed
  IN  IF setup.limit = 0 THEN left ELSE {i \in left : Cardinality({j \in left : j <= i}) <= setup.limit}

Start ==
  /\ phase # "running" /\ started < MaxImageRuns /\ Wanted # {}
  /\ phase' = "running" /\ started' = started + 1
  /\ taken' = Wanted
  /\ images' = [i \in All |-> Fresh] /\ at' = [i \in All |-> 1]
  /\ UNCHANGED <<setup, files, metas, npys, summary>>

Unchanged == UNCHANGED <<setup, phase, started, taken, files, metas, npys, summary>>
GoOn(i)   == at' = [at EXCEPT ![i] = @ + 1]

\* the bytes and their decoding fail one after the other
Load(i) ==
  /\ Before(i, "load")
  /\ \/ images' = [images EXCEPT ![i].data = TRUE, ![i].frames = TRUE]
     \/ images' = [images EXCEPT ![i].data = TRUE, ![i].errors = @ \cup {"decode"}]
     \/ images' = [images EXCEPT ![i].errors = @ \cup {"download"}]
  /\ GoOn(i) /\ Unchanged

Prep(i) ==
  /\ Before(i, "prep")
  /\ LET s      == Stage(i)
         fails  == [images EXCEPT ![i].errors = @ \cup {"caption_prep"}]
     IN  IF images[i].filtered THEN images' = images
         ELSE IF ~images[i].frames THEN images' = fails
         ELSE images' \in {fails, [images EXCEPT ![i].inputs[s.by] = s.for]}
  /\ GoOn(i) /\ Unchanged

\* what a model may say
Texts(p) == IF p = "caption" THEN {"text"} ELSE {"pass", "reject", "malformed"}

\* the answer, blocked requests and errors without a text, under its key
Answered(i, s, about) ==
  {[images[i] EXCEPT !.answers[Key(s.for, s.by)] = [says |-> t, about |-> about],
                     !.status[Key(s.for, s.by)] = "success"] : t \in Texts(s.for)} \cup
  {[images[i] EXCEPT !.status[Key(s.for, s.by)] = x] :
     x \in IF s.by = "vllm" THEN {"error"} ELSE {"blocked", "error"}}

Skipped(i, s) ==
  \/ images[i].filtered
  \/ images[i].answers[Key(s.for, s.by)] # NoAnswer

\* ImageVllmCaptionStage: a prep that failed at any time leaves the image out; all inputs are cleared
AskVllm(i) ==
  /\ Before(i, "ask") /\ Stage(i).by = "vllm"
  /\ LET s == Stage(i)
         out == IF Skipped(i, s) \/ images[i].inputs["vllm"] = "none" \/ "caption_prep" \in images[i].errors
                THEN {images[i]} ELSE Answered(i, s, images[i].inputs["vllm"])
     IN  \E r \in out : images' = [images EXCEPT ![i] = [r EXCEPT !.inputs = Fresh.inputs]]
  /\ GoOn(i) /\ Unchanged

\* Mutant: the payload stays on the image.
KeepPayload(r) == r

\* cleanup_image: the payload is dropped
DropPayload(r) == [r EXCEPT !.inputs["openai"] = "none"]

\* the API stages: the payload of a prep stage, or the bytes of the file
AskApi(i) ==
  /\ Before(i, "ask") /\ Stage(i).by \in {"openai", "gemini"}
  /\ LET s       == Stage(i)
         payload == s.by = "openai" /\ images[i].inputs["openai"] # "none"
         about   == IF payload THEN images[i].inputs["openai"] ELSE "raw"
         failed  == [images[i] EXCEPT !.status[Key(s.for, s.by)] = "error"]
         out     == IF payload \/ images[i].data THEN Answered(i, s, about) ELSE {failed}
     IN  IF Skipped(i, s) THEN images' = images
         ELSE \E r \in out : images' = [images EXCEPT ![i] = IF s.by = "openai" THEN DropPayload(r) ELSE r]
  /\ GoOn(i) /\ Unchanged

\* Mutant: only a refusal filters, so that an image without an answer passes.
PassesUnlessRejected(s, says) ==
  \/ says \in {"pass", "none"}
  \/ s.for = "semantic" /\ setup.scoreOnly
  \/ s.for = "classifier" /\ says = "malformed" /\ ~setup.allow

\* a text that cannot be parsed does not stand for an allowed type, nor for a blocked one
PassesFilter(s, says) ==
  \/ says = "pass"
  \/ s.for = "semantic" /\ setup.scoreOnly
  \/ s.for = "classifier" /\ says = "malformed" /\ ~setup.allow

\* Mutant: an answer that is missing is no error.
MissedMalformed(i, s) == images[i].answers[Key(s.for, s.by)].says = "malformed"

\* an answer that says nothing is an error, and a missing one that no status explains
Missed(i, s) ==
  \/ images[i].answers[Key(s.for, s.by)].says = "malformed"
  \/ images[i].answers[Key(s.for, s.by)] = NoAnswer /\ images[i].status[Key(s.for, s.by)] \notin {"blocked", "error"}

\* ImageSemanticFilterStage, ImageClassifierStage
Judge(i) ==
  /\ Before(i, "judge")
  /\ LET s == Stage(i)
     IN  images' = IF images[i].filtered THEN images
                   ELSE [images EXCEPT
                           ![i].errors = IF Missed(i, s) THEN @ \cup {s.by} ELSE @,
                           ![i].filtered = ~PassesFilter(s, images[i].answers[Key(s.for, s.by)].says)]
  /\ GoOn(i) /\ Unchanged

\* the embedding stages do not ask whether an image is filtered
Embed(i) ==
  /\ Before(i, "embed")
  /\ \/ images[i].frames /\ images' = [images EXCEPT ![i].embedded = TRUE]
     \/ images' = [images EXCEPT ![i].errors = @ \cup {"embedding"}]
  /\ GoOn(i) /\ Unchanged

-----------------------------------------------------------------------------
Directory(i) == IF images[i].filtered THEN "filtered_images" ELSE "images"

\* Mutant: an image that an earlier run left in either directory is not written again.
PutNew(i) == IF \E d \in {"images", "filtered_images"} : <<d, i>> \in files
             THEN files ELSE files \cup {<<Directory(i), i>>}

\* written over what is there
Put(i) == files \cup {<<Directory(i), i>>}

\* ImageWriterStage: an image without bytes is not written at all
WriteImage(i) ==
  /\ Before(i, "write image")
  /\ IF images[i].data
     THEN files' = Put(i) /\ GoOn(i) /\ UNCHANGED images
     ELSE /\ images' = [images EXCEPT ![i].errors = @ \cup {"write"}]
          /\ at' = [at EXCEPT ![i] = Len(Stages) + 1] /\ UNCHANGED files
  /\ UNCHANGED <<setup, phase, started, taken, metas, npys, summary>>

WriteMeta(i) ==
  /\ Before(i, "write meta")
  /\ metas' = [metas EXCEPT ![i] = Directory(i)]
  /\ GoOn(i)
  /\ UNCHANGED <<setup, phase, started, taken, images, files, npys, summary>>

WriteEmbedding(i) ==
  /\ Before(i, "write embedding")
  /\ npys' = IF images[i].embedded THEN npys \cup {i} ELSE npys
  /\ GoOn(i)
  /\ UNCHANGED <<setup, phase, started, taken, images, files, metas, summary>>

\* a write raises and the stage is called again
WriteAgain(i) ==
  /\ Before(i, "write meta") \/ Before(i, "write embedding")
  /\ at' = [at EXCEPT ![i] = CHOOSE k \in 1..Len(Stages) : Stages[k].do = "write image"]
  /\ UNCHANGED <<images>> /\ Unchanged

\* write_summary: the summary is about the images of this run only
Finish ==
  /\ phase = "running" /\ \A i \in taken : at[i] > Len(Stages)
  /\ phase' = "finished" /\ summary' = taken
  /\ UNCHANGED <<setup, started, taken, images, at, files, metas, npys>>

Die ==
  /\ phase = "running"
  /\ phase' = "idle"
  /\ UNCHANGED <<setup, started, taken, images, at, files, metas, npys, summary>>

StageStep(i) ==
  Load(i) \/ Prep(i) \/ AskVllm(i) \/ AskApi(i) \/ Judge(i) \/ Embed(i)
    \/ WriteImage(i) \/ WriteMeta(i) \/ WriteEmbedding(i) \/ WriteAgain(i)

Next == Start \/ Finish \/ Die \/ \E i \in All : StageStep(i)
Spec == Init /\ [][Next]_imageVars

-----------------------------------------------------------------------------
Written(i)  == phase # "idle" /\ i \in taken /\ at[i] > Len(Stages)
Model(p)    == CASE p = "semantic" -> setup.semantic [] p = "classifier" -> setup.classifier
                 [] p = "caption" -> setup.caption
Asked(p)    == Model(p) # "off"

\* An answer is about what was prepared for its own question, or about the file: nothing is left
\* on the image by an earlier question, and an image that is written carries no request.
AnswersOwn ==
  \A i \in taken :
    /\ \A p \in Purposes :
         LET a == images[i].answers[p] IN
         a # NoAnswer => /\ a.about \in {p, "raw"}
                         /\ Model(p) = "vllm" => a.about = p
                         /\ Model(p) \in {"raw", "gemini"} => a.about = "raw"
    /\ Written(i) => images[i].inputs = Fresh.inputs

\* An image comes through both filters only with an answer to each that lets it through, and is
\* filtered only where one of them did not get such an answer; no model is asked about it afterwards.
Through(i, p) ==
  \/ ~Asked(p)
  \/ images[i].answers[p].says = "pass"
  \/ p = "semantic" /\ setup.scoreOnly
  \/ p = "classifier" /\ images[i].answers[p].says = "malformed" /\ ~setup.allow

Sorted ==
  \A i \in taken : Written(i) =>
    /\ images[i].filtered <=> ~(Through(i, "semantic") /\ Through(i, "classifier"))
    /\ ~Through(i, "semantic") => images[i].status["classifier"] = "none"
    /\ images[i].filtered => images[i].status["caption"] = "none"

\* What was asked for is there, or the image says why it is not.
Accounted ==
  \A i \in taken : Written(i) =>
    /\ (Asked("caption") /\ ~images[i].filtered) =>
         images[i].status["caption"] # "none" \/ "caption_prep" \in images[i].errors
    /\ \A p \in {"semantic", "classifier"} :
         (Asked(p) /\ images[i].status[p] = "none" /\ (p = "classifier" => Through(i, "semantic"))) =>
           Model(p) \in images[i].errors
    /\ setup.embed => images[i].embedded \/ "embedding" \in images[i].errors
    /\ ~images[i].data => "download" \in images[i].errors

\* Metadata never comes before its image, whoever dies or tries again; after a run that finished,
\* each of its images that could be read has both, and its embedding.
OutputWhole ==
  /\ \A i \in All : metas[i] # NoMeta => <<metas[i], i>> \in files
  /\ phase = "finished" =>
       \A i \in taken : images[i].data => metas[i] = Directory(i) /\ (images[i].embedded => i \in npys)

\* The promises of the image pipeline, from the first question to the last file.
ImagesSound == AnswersOwn /\ Sorted /\ Accounted /\ OutputWhole
=============================================================================
