-------------------------- MODULE SplitComparison --------------------------
(* Two outputs of the split pipeline are compared: their summaries, then the *)
(* metadata of each clip that both list, then the index of each of its files *)
(* of video.  An output is what a reader finds: the records of the videos    *)
(* and of the chunks of clips, of which the summary is made, the metadata    *)
(* and the files of the clips.  A chunk holds one clip.  Scores and captions *)
(* are numbers, and those at most Near apart are close enough.               *)
EXTENDS Integers, FiniteSets, FiniteSetsExt

CONSTANTS
  Clips,      \* numbers, in the order of their uuids
  VideoOf,    \* the video of each clip, a number
  Windows,
  Pairs,      \* the outputs to compare
  Configs,    \* captions and index compared or not, one video or AnyVideo, NoLimit or a limit
  Near, Slack

AnyVideo == 0
NoLimit  == 0
Absent   == -1     \* null, NaN, infinite or no such key; a window that is not there
Corrupt  == -2     \* not a number
Empty    == 0      \* the caption without text
Sides    == {"a", "b"}
Fields   == {"global_mean", "per_patch_min_256"}

Other(s)    == CHOOSE t \in Sides : t # s
Close(x, y) == x - y <= Near /\ y - x <= Near

VARIABLES
  out,     \* the output of each side
  options,
  at,      \* "load", "summary", "metadata", "index", "report", "raised"
  todo,    \* the rows that the stage still has to look at
  issues,  \* what, about whom, and the side it blames or "both"
  passed

compareVars == <<out, options, at, todo, issues, passed>>

-----------------------------------------------------------------------------
(* What a run writes at its end: one entry for each input, made of the record of the video and of *)
(* the records of its chunks that are found; one that is missing is left out, with a line in the log. *)
ChunksOf(o, v) ==
  {c \in Clips : VideoOf[c] = v /\ v \in o.inputs \cap o.processed /\ o.chunk[c].there}

Kept(o, S, kind) == {c \in S : o.chunk[c].kind = kind}

Entry(o, v) ==
  LET S == ChunksOf(o, v) IN
  [processed |-> v \in o.processed,
   chunks    |-> Cardinality(S),
   windows   |-> SumFunction([c \in S |-> o.chunk[c].windows]),
   lists     |-> [kind \in {"clip", "filtered_clip"} |-> Kept(o, S, kind)]]

Summary(o) ==
  LET S == UNION {ChunksOf(o, v) : v \in o.inputs} IN
  [top    |-> [inputs    |-> Cardinality(o.inputs),
               processed |-> Cardinality(o.processed),
               passed    |-> Cardinality(Kept(o, S, "clip")),
               tokens    |-> SumFunction([c \in S |-> o.chunk[c].tokens])],
   videos |-> [v \in o.inputs |-> Entry(o, v)]]

-----------------------------------------------------------------------------
(* Summaries. *)
ValuesMatch(f, x, y) == x = y \/ (f = "tokens" /\ x - y <= Slack /\ y - x <= Slack)

TopLevelFieldIssues(s, t) ==
  {<<"summary_field_mismatch", f, "both">> : f \in {f \in DOMAIN s.top : ~ValuesMatch(f, s.top[f], t.top[f])}}

VideoKeyIssues(s, t) ==
  {<<"summary_video_only", v, "a">> : v \in DOMAIN s.videos \ DOMAIN t.videos} \cup
  {<<"summary_video_only", v, "b">> : v \in DOMAIN t.videos \ DOMAIN s.videos}

ProcessedVideoIssues(v, x, y) ==
  {<<"summary_video_field_mismatch", <<v, f>>, "both">> : f \in {f \in {"chunks", "windows"} : x[f] # y[f]}} \cup
  {<<"summary_clip_uuid_set_mismatch", <<v, k>>, "both">> : k \in {k \in DOMAIN x.lists : x.lists[k] # y.lists[k]}}

VideoIssues(v, x, y) ==
  IF x.processed # y.processed THEN {<<"summary_video_processed_state_mismatch", v, "both">>}
  ELSE IF x.processed THEN ProcessedVideoIssues(v, x, y) ELSE {}

Shared(s, t) == DOMAIN s.videos \cap DOMAIN t.videos

SummaryIssues(s, t) ==
  TopLevelFieldIssues(s, t) \cup VideoKeyIssues(s, t)
    \cup UNION {VideoIssues(v, s.videos[v], t.videos[v]) : v \in Shared(s, t)}

-----------------------------------------------------------------------------
(* Rows: a clip, the list it is on, and the sides that have it there. *)
PairedRows(kind, S, T) == {[clip |-> c, kind |-> kind, a |-> c \in S, b |-> c \in T] : c \in S \cup T}

DiscoverClips(s, t) ==
  UNION {PairedRows(k, s.videos[v].lists[k], t.videos[v].lists[k]) :
           v \in {v \in Shared(s, t) : s.videos[v].processed /\ t.videos[v].processed},
           k \in {"clip", "filtered_clip"}}

Before(q, r) ==
  LET v == VideoOf[q.clip]  w == VideoOf[r.clip] IN
  \/ v < w
  \/ v = w /\ q.kind = "clip" /\ r.kind = "filtered_clip"
  \/ v = w /\ q.kind = r.kind /\ q.clip < r.clip

SelectedFirst(R) ==   \* mutant: the first rows, and of these the ones of the video
  {r \in R : /\ options.limit = NoLimit \/ Cardinality({q \in R : Before(q, r)}) < options.limit
             /\ options.video \in {AnyVideo, VideoOf[r.clip]}}

\* the rows of the video that is asked for, and of these the first ones
Selected(R) ==
  LET K == {r \in R : options.video \in {AnyVideo, VideoOf[r.clip]}} IN
  {r \in K : options.limit = NoLimit \/ Cardinality({q \in K : Before(q, r)}) < options.limit}

RowsOf(o) == Selected(DiscoverClips(Summary(o["a"]), Summary(o["b"])))

-----------------------------------------------------------------------------
(* Metadata of a clip that passed the filters. *)
ReadScoreLenient(x) == IF x < 0 THEN "missing" ELSE "present"   \* mutant: no check of the type

ReadScore(x) == CASE x = Absent -> "missing" [] x = Corrupt -> "corrupt" [] OTHER -> "present"

\* x is the value of each side
ScoreIssues(c, f, x) ==
  LET Of(kind) == {s \in Sides : ReadScore(x[s]) = kind} IN
  IF Of("corrupt") # {} THEN {<<"metadata_value_invalid_type", <<c, f>>, s>> : s \in Of("corrupt")}
  ELSE IF Of("present") = Sides
       THEN IF Close(x["a"], x["b"]) THEN {} ELSE {<<"score_mismatch", <<c, f>>, "both">>}
       ELSE {<<"metadata_value_one_sided", <<c, f>>, Other(s)>> : s \in Of("present")}

MotionIssues(c, x) ==
  IF \A s \in Sides : x[s].there
  THEN UNION {ScoreIssues(c, f, [s \in Sides |-> x[s].score[f]]) : f \in Fields}
  ELSE {<<"metadata_value_one_sided", <<c, "motion_score">>, Other(s)>> : s \in {s \in Sides : x[s].there}}

CaptionText(x) == IF x = Absent THEN Empty ELSE x
Similar(x, y)  == x = y \/ (Empty \notin {x, y} /\ Close(x, y))

\* A window that only one side has is compared with the caption without text.
CaptionJobsOfBoth(x) ==   \* mutant: the windows that both sides have
  {w \in Windows : x["a"][w] # x["b"][w] /\ Absent \notin {x["a"][w], x["b"][w]}}

CaptionJobs(x) == {w \in Windows : x["a"][w] # x["b"][w]}

CaptionIssues(c, x) ==
  {<<"caption_similarity_below_threshold", <<c, w>>, "both">> :
     w \in {w \in CaptionJobs(x) : ~Similar(CaptionText(x["a"][w]), CaptionText(x["b"][w]))}}

MetadataReadIssuesOfA(c, meta) ==   \* mutant: the first side that fails is taken for both
  {<<IF \E s \in Sides : meta[s].file = "missing" THEN "metadata_one_sided" ELSE "metadata_unreadable", c,
     IF meta["a"].file # "ok" THEN "a" ELSE "b">>}

MetadataReadIssues(c, meta) ==
  {<<IF meta[s].file = "missing" THEN "metadata_one_sided" ELSE "metadata_unreadable", c, s>> :
     s \in {s \in Sides : meta[s].file # "ok"}}

MetadataIssues(o, r) ==
  LET meta == [s \in Sides |-> o[s].meta[r.clip]] IN
  IF ~(r.a /\ r.b) THEN {<<"metadata_one_sided", r.clip, IF r.a THEN "b" ELSE "a">>}
  ELSE IF \E s \in Sides : meta[s].file # "ok" THEN MetadataReadIssues(r.clip, meta)
  ELSE ScoreIssues(r.clip, "aesthetic_score", [s \in Sides |-> meta[s].aesthetic])
         \cup MotionIssues(r.clip, [s \in Sides |-> meta[s].motion])
         \cup IF options.captions THEN CaptionIssues(r.clip, [s \in Sides |-> meta[s].caption]) ELSE {}

-----------------------------------------------------------------------------
(* Files of video. *)
LoadIssues(o, r) ==
  {<<CASE o[s].mp4[r.clip] = "missing" -> "clip_mp4_missing"
       [] o[s].mp4[r.clip] = "no_index" -> "clip_mp4_header_index_unavailable"
       [] OTHER -> "clip_mp4_unreadable", <<r.clip, r.kind>>, s>> :
     s \in {s \in Sides : r[s] /\ o[s].mp4[r.clip] \in {"missing", "no_index", "unreadable"}}}

\* the arrays, the time base and the fields of the stream, within the tolerances
SameIndex(x, y) == x = y

IndexIssues(o, r) ==
  LoadIssues(o, r) \cup
  IF r.a # r.b THEN {<<"clip_mp4_missing", <<r.clip, r.kind>>, IF r.a THEN "b" ELSE "a">>}
  ELSE IF LoadIssues(o, r) = {} /\ ~SameIndex(o["a"].mp4[r.clip], o["b"].mp4[r.clip])
       THEN {<<"clip_mp4_index_mismatch", <<r.clip, r.kind>>, "both">>} ELSE {}

-----------------------------------------------------------------------------
Init ==
  /\ \E p \in Pairs : out = [a |-> p[1], b |-> p[2]]
  /\ options \in Configs
  /\ at = "load" /\ todo = {} /\ issues = {} /\ passed = FALSE

LoadFailures(o) == {<<"summary_load_failed", "summary", s>> : s \in {s \in Sides : ~o[s].readable}}

Load ==
  /\ at = "load"
  /\ issues' = LoadFailures(out)
  /\ at' = IF issues' = {} THEN "summary" ELSE "report"
  /\ UNCHANGED <<out, options, todo, passed>>

Passing(R) == {r \in R : r.kind = "clip"}

CompareSummaries ==
  /\ at = "summary"
  /\ issues' = SummaryIssues(Summary(out["a"]), Summary(out["b"]))
  /\ todo' = Passing(RowsOf(out))
  /\ at' = "metadata"
  /\ UNCHANGED <<out, options, passed>>

\* The actors of a stage look at the rows in any order.
CompareMetadata(r) ==
  /\ at = "metadata" /\ r \in todo
  /\ todo' = todo \ {r}
  /\ issues' = issues \cup MetadataIssues(out, r)
  /\ UNCHANGED <<out, options, at, passed>>

NextStage ==
  /\ at = "metadata" /\ todo = {}
  /\ todo' = IF options.index THEN RowsOf(out) ELSE {}
  /\ at' = "index"
  /\ UNCHANGED <<out, options, issues, passed>>

CompareIndex(r) ==
  /\ at = "index" /\ r \in todo
  /\ todo' = todo \ {r}
  /\ issues' = issues \cup IndexIssues(out, r)
  /\ UNCHANGED <<out, options, at, passed>>

Report ==
  /\ at = "index" /\ todo = {}
  /\ passed' = (issues = {})
  /\ at' = "report"
  /\ UNCHANGED <<out, options, todo, issues>>

\* An actor that cannot start, as without the weights of the caption model, ends the comparison
\* without a report.
Raises ==
  /\ at \in {"metadata", "index"} /\ todo # {}
  /\ at' = "raised"
  /\ UNCHANGED <<out, options, todo, issues, passed>>

Next ==
  \/ Load \/ CompareSummaries \/ NextStage \/ Report \/ Raises
  \/ \E r \in todo : CompareMetadata(r) \/ CompareIndex(r)
Spec == Init /\ [][Next]_compareVars

-----------------------------------------------------------------------------
(* What it means that two outputs are the same, without summaries, rows and issues. *)
SameScore(x, y) == (x = Absent /\ y = Absent) \/ (x >= 0 /\ y >= 0 /\ Close(x, y))

SameMeta(x, y) ==
  /\ x.file = "ok" /\ y.file = "ok"
  /\ SameScore(x.aesthetic, y.aesthetic)
  /\ x.motion.there <=> y.motion.there
  /\ x.motion.there => \A f \in Fields : SameScore(x.motion.score[f], y.motion.score[f])
  /\ options.captions => \A w \in Windows : LET t == Max({x.caption[w], 0})
                                                u == Max({y.caption[w], 0}) IN
                                            t = u \/ (t > 0 /\ u > 0 /\ Close(t, u))

SameClip(x, y, c) ==
  /\ x.chunk[c].kind = y.chunk[c].kind
  /\ x.chunk[c].kind = "clip" => SameMeta(x.meta[c], y.meta[c])
  /\ options.index => x.mp4[c] = y.mp4[c] /\ x.mp4[c] \notin {"missing", "no_index", "unreadable"}

Written(o)     == {c \in Clips : VideoOf[c] \in o.inputs \cap o.processed /\ o.chunk[c].there}
SameLists(x, y) ==
  /\ x.readable /\ y.readable
  /\ x.inputs = y.inputs /\ x.inputs \cap x.processed = y.inputs \cap y.processed
  /\ Written(x) = Written(y) /\ \A c \in Written(x) : x.chunk[c].kind = y.chunk[c].kind

SameCounts(x, y) ==
  LET Tokens(o) == SumFunction([c \in Written(o) |-> o.chunk[c].tokens]) IN
  /\ Cardinality(x.processed) = Cardinality(y.processed)
  /\ \A c \in Written(x) : x.chunk[c].windows = y.chunk[c].windows
  /\ Tokens(x) - Tokens(y) <= Slack /\ Tokens(y) - Tokens(x) <= Slack

Asked(c) == options.video \in {AnyVideo, VideoOf[c]}

\* A comparison that passes has seen the same clips on the same lists, and as many clips as it was
\* to look at are the same; and one of outputs that are the same passes.
SaysWhatIs ==
  LET x == out["a"]  y == out["b"]
      S == {c \in Written(x) : Asked(c)}  Same == {c \in S : SameClip(x, y, c)} IN
  /\ passed => /\ SameLists(x, y)
               /\ Cardinality(Same) >= IF options.limit = NoLimit THEN Cardinality(S)
                                       ELSE Min({options.limit, Cardinality(S)})
  /\ (SameLists(x, y) /\ SameCounts(x, y) /\ Same = S) => passed

\* It does not matter which output is called A, nor in which order the rows are looked at.
IssuesOf(o) ==
  IF LoadFailures(o) # {} THEN LoadFailures(o)
  ELSE SummaryIssues(Summary(o["a"]), Summary(o["b"]))
         \cup (UNION {MetadataIssues(o, r) : r \in Passing(RowsOf(o))})
         \cup IF options.index THEN UNION {IndexIssues(o, r) : r \in RowsOf(o)} ELSE {}

Mirrored ==
  {<<i[1], i[2], IF i[3] = "both" THEN "both" ELSE Other(i[3])>> : i \in issues}
    = IssuesOf([a |-> out["b"], b |-> out["a"]])

\* A report says what is.
ComparisonSound == at = "report" => SaysWhatIs /\ Mirrored
=============================================================================
