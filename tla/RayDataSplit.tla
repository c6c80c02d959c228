---------------------------- MODULE RayDataSplit ----------------------------
(* The splitting pipeline on Ray Data (pipelines/ray_data).  A row stands    *)
(* for a video until its clips are transcoded, and then for a clip with the  *)
(* windows of its caption.  Rows go through the stages side by side, in any  *)
(* order; the captioner takes some of them in a batch, asks the engine about *)
(* all of their windows at once and puts what comes back, in any order, into *)
(* its window.  The driver collects the rows that are left and writes the    *)
(* summary.  An exception ends the run; the next one starts from nothing, in *)
(* the same output.  Times are in units of which a window of a caption is    *)
(* one, and a clip is its video, start, end and splitter, of which its uuid is made.         *)
EXTENDS Naturals, FiniteSets, FiniteSetsExt, Sequences, SequencesExt

CONSTANTS
  RayVideos, Duration,
  Jobs,       \* configs: what there is to split, how, and whether to caption
  Outcomes,   \* what the engine may do with a window: success, truncated, empty or error
  BatchSize,  \* rows that the captioner takes at once
  MaxJobs

VARIABLES
  job,
  phase,    \* idle, running, failed or done
  begun,    \* runs so far
  video,    \* the row of a video: listed, read, split or gone
  spans,    \* clip_starts and clip_ends
  rows,     \* the rows of clips: stage, and caption_windows
  batches,  \* of the captioner, that are under way
  mp4s,     \* clips/: whole or torn
  metas,    \* metas/v0/
  summary

rayVars == <<job, phase, begun, video, spans, rows, batches, mp4s, metas, summary>>
outputVars == <<mp4s, metas, summary>>

Nothing == [about |-> <<>>, how |-> "nothing"]

With(f, c, x) == [d \in DOMAIN f \cup {c} |-> IF d = c THEN x ELSE f[d]]
InOrder(S, Before(_, _)) ==
  CHOOSE q \in SetToSeqs(S) : \A i, k \in DOMAIN q : i < k => Before(q[i], q[k])

Init ==
  /\ job \in Jobs /\ phase = "idle" /\ begun = 0
  /\ video = [v \in RayVideos |-> "gone"] /\ spans = [v \in RayVideos |-> <<>>]
  /\ rows = <<>> /\ batches = {}
  /\ mp4s = <<>> /\ metas = <<>> /\ summary = <<>>

Begin ==
  /\ phase # "running" /\ begun < MaxJobs
  /\ phase' = "running" /\ begun' = begun + 1
  /\ job' \in IF begun = 0 THEN {job} ELSE Jobs
  /\ video' = [v \in RayVideos |-> IF v \in job'.inputs THEN "listed" ELSE "gone"]
  /\ spans' = [v \in RayVideos |-> <<>>]
  /\ rows' = <<>> /\ batches' = {}
  /\ UNCHANGED outputVars

\* The exception of a stage ends the run, and nothing is collected.
Fails ==
  /\ phase' = "failed" /\ rows' = <<>> /\ batches' = {}
  /\ UNCHANGED <<job, begun, video, spans, metas, summary>>

-----------------------------------------------------------------------------
(* Videos *)

Goes(v, from, to) ==
  /\ phase = "running" /\ video[v] = from
  /\ video' = [video EXCEPT ![v] = to]
  /\ UNCHANGED <<job, phase, begun, batches, outputVars>>

Read(v)      == Goes(v, "listed", "read") /\ UNCHANGED <<spans, rows>>
ReadFails(v) == phase = "running" /\ video[v] = "listed" /\ Fails /\ UNCHANGED mp4s

Limited(q) == IF job.limit = 0 \/ Len(q) <= job.limit THEN q ELSE SubSeq(q, 1, job.limit)

FixedSpans(d) ==
  LET End(s) == Min({s + job.len, d})
      starts == {s \in 0 .. (d - 1) : s % job.stride = 0 /\ End(s) - s >= job.min}
      q == InOrder(starts, <) IN
  [i \in DOMAIN q |-> <<q[i], End(q[i])>>]

\* What TransNetV2 may find: see VideoCuts.  A video whose frames cannot be had has no clip.
SceneSpans(d) == {<<>>, <<<<0, d>>>>} \cup {<<<<0, c>>, <<c, d>>>> : c \in 1 .. (d - 1)}

Spans(d) == {Limited(q) : q \in IF job.method = "fixed" THEN {FixedSpans(d)} ELSE SceneSpans(d)}

Split(v) ==
  /\ Goes(v, "read", "split")
  /\ \E q \in Spans(Duration[v]) : spans' = [spans EXCEPT ![v] = q]
  /\ UNCHANGED rows

ClipsOf(v) == {<<v>> \o spans[v][i] \o <<job.method>> : i \in DOMAIN spans[v]}

\* FFmpeg makes the clips, or fails and leaves some of them, perhaps cut short.
Transcode(v) ==
  /\ Goes(v, "split", "gone") /\ UNCHANGED spans
  /\ \E made \in SUBSET ClipsOf(v) : \E torn \in [made -> BOOLEAN] :
       rows' = [c \in DOMAIN rows \cup made |->
                  IF c \in made THEN [at |-> "clip", torn |-> torn[c], windows |-> <<>>] ELSE rows[c]]

-----------------------------------------------------------------------------
(* Clips *)

At(c, stage) == phase = "running" /\ c \in DOMAIN rows /\ rows[c].at = stage
Moves(c, to, windows) ==
  /\ rows' = [rows EXCEPT ![c].at = to, ![c].windows = windows]
  /\ UNCHANGED <<job, phase, begun, video, spans>>

\* The places of the windows that the engine is asked about.
Asked(q) ==
  InOrder({i \in DOMAIN q : q[i].index > 0}, LAMBDA i, k : q[i].index < q[k].index)

\* The metadata of a clip: its windows, and what is counted of them.
Answered(w) == w.said.how \in {"success", "truncated"}
Window(w) ==
  [index   |-> w.index,
   status  |-> IF Answered(w) THEN w.said.how ELSE "error",
   caption |-> IF Answered(w) THEN w.said.about ELSE <<>>]
Meta(q) == [i \in DOMAIN Asked(q) |-> Window(q[Asked(q)[i]])]

CountAsked(q) == Len(Asked(q))   \* mutant: the windows that failed count
NumWindows(q) == Cardinality({i \in DOMAIN Asked(q) : Answered(q[Asked(q)[i]])})

WriteClip(c) ==
  /\ At(c, "clip")
  /\ mp4s' = With(mp4s, c, IF rows[c].torn THEN "torn" ELSE "whole")
  /\ metas' = IF job.caption THEN metas ELSE With(metas, c, <<>>)
  /\ Moves(c, IF job.caption THEN "written" ELSE "out", <<>>)
  /\ UNCHANGED <<batches, summary>>

\* The file cannot be written, or what was written cannot be read for its metadata.
WriteFails(c) ==
  /\ At(c, "clip") /\ Fails
  /\ mp4s' \in {mp4s} \cup IF rows[c].torn THEN {With(mp4s, c, "torn")} ELSE {}

\* A window without frames is left out; a clip without any has one that the engine lets pass.
Prepare(c) ==
  /\ At(c, "written")
  /\ \E decoded \in SUBSET (1 .. (c[3] - c[2])) :
       LET q == InOrder(IF decoded = {} THEN {0} ELSE decoded, <) IN
       Moves(c, "windowed", [i \in DOMAIN q |-> [index |-> q[i], said |-> Nothing]])
  /\ UNCHANGED <<batches, outputVars>>

\* The decoding or the preparation raises.
PrepareFails(c) == At(c, "written") /\ Fails /\ UNCHANGED mp4s

\* index_to_window: the windows that are asked about, clip by clip.
Requests(q) ==
  FlattenSeq([k \in DOMAIN q |-> LET asked == Asked(rows[q[k]].windows) IN
                                [i \in DOMAIN asked |-> <<q[k], asked[i]>>]])

Ask(B) ==
  /\ phase = "running"
  /\ batches' = batches \cup {[clips |-> B, requests |-> Requests(SetToSeq(B)), over |-> {}]}
  /\ rows' = [c \in DOMAIN rows |-> IF c \in B THEN [rows[c] EXCEPT !.at = "asked"] ELSE rows[c]]
  /\ UNCHANGED <<job, phase, begun, video, spans, outputVars>>

Replace(b, new) == batches' = (batches \ {b}) \cup new

PlaceByCompletion(b, i) == b.requests[Cardinality(b.over) + 1]   \* mutant
Place(b, i) == b.requests[i]

\* The engine is done with request i.
Complete(b, i, how) ==
  /\ i \in DOMAIN b.requests \ b.over
  /\ Replace(b, {[b EXCEPT !.over = @ \cup {i}]})
  /\ LET p == Place(b, i)  r == b.requests[i] IN
     rows' = [rows EXCEPT ![p[1]].windows[p[2]].said =
                [about |-> <<r[1], rows[r[1]].windows[r[2]].index>>, how |-> how]]
  /\ UNCHANGED <<job, phase, begun, video, spans, outputVars>>

\* Mutant: the batch returns when some of its requests are over.
ReturnFirst(b) ==
  /\ b.over # {} \/ b.requests = <<>>
  /\ Replace(b, {})
  /\ rows' = [c \in DOMAIN rows |-> IF c \in b.clips THEN [rows[c] EXCEPT !.at = "captioned"] ELSE rows[c]]
  /\ UNCHANGED <<job, phase, begun, video, spans, outputVars>>

Return(b) ==
  /\ b.over = DOMAIN b.requests
  /\ Replace(b, {})
  /\ rows' = [c \in DOMAIN rows |-> IF c \in b.clips THEN [rows[c] EXCEPT !.at = "captioned"] ELSE rows[c]]
  /\ UNCHANGED <<job, phase, begun, video, spans, outputVars>>

\* The worker of the batch dies, and Ray calls another one with the same rows.
Again(b) ==
  /\ b.over # {}
  /\ Replace(b, {[b EXCEPT !.over = {}]})
  /\ rows' = [c \in DOMAIN rows |->
                IF c \notin b.clips THEN rows[c]
                ELSE [rows[c] EXCEPT !.windows = [i \in DOMAIN @ |-> [@[i] EXCEPT !.said = Nothing]]]]
  /\ UNCHANGED <<job, phase, begun, video, spans, outputVars>>

BatchFails(b) == Fails /\ UNCHANGED mp4s

WriteMeta(c) ==
  /\ At(c, "captioned")
  /\ metas' = With(metas, c, Meta(rows[c].windows))
  /\ Moves(c, "out", rows[c].windows)
  /\ UNCHANGED <<batches, mp4s, summary>>

-----------------------------------------------------------------------------
(* The driver *)

Listed(v) == {c \in DOMAIN rows : c[1] = v}

Entry(v) ==
  [clips   |-> InOrder(Listed(v), LAMBDA c, d : c[2] < d[2]),
   windows |-> MapThenSumSet(LAMBDA c : NumWindows(rows[c].windows), Listed(v)),
   said    |-> Cardinality({c \in Listed(v) : NumWindows(rows[c].windows) > 0})]

WriteSummary ==
  /\ phase = "running"
  /\ \A v \in RayVideos : video[v] = "gone"
  /\ \A c \in DOMAIN rows : rows[c].at = "out"
  /\ phase' = "done"
  /\ summary' = [v \in {v \in RayVideos : Listed(v) # {}} |-> Entry(v)]
  /\ UNCHANGED <<job, begun, video, spans, rows, batches, mp4s, metas>>

Next ==
  \/ Begin \/ WriteSummary
  \/ \E v \in RayVideos : Read(v) \/ ReadFails(v) \/ Split(v) \/ Transcode(v)
  \/ \E c \in DOMAIN rows : WriteClip(c) \/ WriteFails(c) \/ Prepare(c) \/ PrepareFails(c) \/ WriteMeta(c)
  \/ \E B \in SUBSET {c \in DOMAIN rows : rows[c].at = "windowed"} :
       Cardinality(B) \in 1 .. BatchSize /\ Ask(B)
  \/ \E b \in batches :
       \/ Return(b) \/ Again(b) \/ BatchFails(b)
       \/ \E i \in DOMAIN b.requests, how \in Outcomes : Complete(b, i, how)

Spec == Init /\ [][Next]_rayVars

-----------------------------------------------------------------------------
\* No metadata without the file that it describes, over all runs (_clip_writer, _vllm_caption).
FileFirst == DOMAIN metas \subseteq DOMAIN mp4s

\* A caption in the metadata is about the window under which it stands, each window stands there
\* once and in the order of the clip, and is an error when, and only when, it has no caption
\* (_generate_clip_rows, _make_clip_metadata_rows).
CaptionsHome ==
  \A c \in DOMAIN metas : \A i \in DOMAIN metas[c] :
    LET w == metas[c][i] IN
    /\ w.index \in 1 .. (c[3] - c[2])
    /\ i > 1 => metas[c][i - 1].index < w.index
    /\ w.caption \in {<<>>, <<c, w.index>>}
    /\ w.caption = <<>> <=> w.status = "error"

\* When a run is done, the summary lists each video that has a clip, with its clips in the order
\* of time; what it counts is what the metadata of these clips says (write_summary_from_rows).
Said(c) == Cardinality({i \in DOMAIN metas[c] : metas[c][i].caption # <<>>})

SummaryTrue ==
  phase = "done" =>
    /\ \A c \in DOMAIN rows : c[1] \in DOMAIN summary /\ c \in DOMAIN metas
    /\ \A v \in DOMAIN summary : LET e == summary[v] IN
         /\ ToSet(e.clips) \subseteq {c \in DOMAIN mp4s : c[1] = v} /\ e.clips # <<>>
         /\ \A i, k \in DOMAIN e.clips : i < k => e.clips[i][2] < e.clips[k][2]
         /\ e.windows = MapThenSumSet(Said, ToSet(e.clips))
         /\ e.said = Cardinality({c \in ToSet(e.clips) : Said(c) > 0})

\* When a run is done, its metadata has each window that the engine was asked about, and none of
\* them without what the engine made of it (pending_windows in _generate_clip_rows).
NothingLost ==
  phase = "done" /\ job.caption =>
    \A c \in DOMAIN rows : \A w \in ToSet(rows[c].windows) :
      w.index > 0 => w.said # Nothing /\ \E m \in ToSet(metas[c]) : m.index = w.index

RayDataSound == FileFirst /\ CaptionsHome /\ SummaryTrue /\ NothingLost
=============================================================================
