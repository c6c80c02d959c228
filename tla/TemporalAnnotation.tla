------------------------ MODULE TemporalAnnotation ------------------------
(***************************************************************************)
(* A clip is annotated frame by frame, with normals (NormalCrafter) or     *)
(* with depth and camera poses (ViPE): frames are sampled on a regular     *)
(* grid, estimated, written in chunks, and closed by one record, the       *)
(* metadata (pipelines/video/annotation).  An actor that is called again   *)
(* remembers the chunks it has published; a run that is started again,     *)
(* perhaps with other options, finds what the earlier ones left.           *)
(*                                                                         *)
(* Followed is one identity of a clip.  It stands for a whole source, and  *)
(* then two tasks of a run may name it (two links to one file), or for a   *)
(* span, which a list of inputs may give differently from task to task.    *)
(***************************************************************************)
EXTENDS Integers, FiniteSets, FiniteSetsExt, Functions, Sequences, SequencesExt

CONSTANTS
  Actors,
  Sources,       \* packets, decodable frames, declared number of frames (0: none), length of the last
  Spans,         \* what tasks ask for, if not for the whole source
  Configs,       \* estimator, step of the grid, frames in a chunk, most frames, and all else that is compared
  WindowSize, WindowStride,  \* of NormalCrafter
  MinFrames,     \* of ViPE
  MaxRuns, MaxTasks

Full == <<>>     \* no span: the whole source
NoDoc == <<>>

VARIABLES
  source, whole, config, runs, tasks,
  files,      \* chunks in the output: rows by range of frames
  meta,       \* the completion record
  published,  \* of an actor: published_ranges of the clip
  spot,       \* of an actor: idle, check, decode, recheck, infer, write, flush, complete, raised or done
  call,       \* of an actor: the span of its task; span and timestamps of the frames that are
              \* decoded; how many the estimator has returned; estimates that are not written yet
  given       \* tasks that were answered with a reference to the record

vars == <<source, whole, config, runs, tasks, files, meta, published, spot, call, given>>

NoClip   == [span |-> Full, ts |-> <<>>, src |-> <<>>]
Call(s)  == [span |-> s, clip |-> NoClip, count |-> 0, held |-> <<>>]
Rest     == {"idle", "raised", "done"}

Init ==
  /\ source \in Sources /\ whole \in BOOLEAN /\ config \in Configs
  /\ runs = 1 /\ tasks = 0 /\ files = <<>> /\ meta = NoDoc /\ given = {}
  /\ published = [a \in Actors |-> {}] /\ spot = [a \in Actors |-> "idle"]
  /\ call = [a \in Actors |-> Call(Full)]

\* The run is over, or is killed; the next one has options of its own.
NewRun ==
  /\ runs < MaxRuns
  /\ runs' = runs + 1 /\ config' \in Configs
  /\ published' = [a \in Actors |-> {}] /\ spot' = [a \in Actors |-> "idle"]
  /\ call' = [a \in Actors |-> Call(Full)]
  /\ UNCHANGED <<source, whole, tasks, files, meta, given>>

\* process_data: a task, or one that failed, again.  There is one active writer of a clip, or
\* several that were asked for the same.
Take(a, s) ==
  /\ spot[a] \in Rest /\ tasks < MaxTasks
  /\ whole <=> s = Full
  /\ whole \/ \A b \in Actors : spot[b] \in Rest
  /\ tasks' = tasks + 1
  /\ spot' = [spot EXCEPT ![a] = "check"]
  /\ call' = [call EXCEPT ![a] = Call(s)]
  /\ UNCHANGED <<source, whole, config, runs, files, meta, published, given>>

-----------------------------------------------------------------------------
(* The grid.                                                               *)

TickCount(s, step) == (s[2] - 1 - s[1]) \div step + 1
Grid(s, step)      == [i \in 1 .. TickCount(s, step) |-> s[1] + (i - 1) * step]

\* Presentation times relative to the first one, and the end of the last.
Times(P)    == {p - Min(P) : p \in P}
Duration(P) == Max(Times(P)) + source.last

Resolves(P, s) == s # Full => s[2] <= Duration(P)
Resolve(P, s) == IF s = Full THEN <<0, Duration(P)>> ELSE s

Abs(x) == IF x < 0 THEN -x ELSE x

\* Mutant: a frame at or after the time of the grid
NextFrame(C, t) == IF \E c \in C : c >= t THEN Min({c \in C : c >= t}) ELSE Max(C)

\* The nearest of the candidates C, the earlier one of two that are as near.
NearestFrame(C, t) ==
  LET right == IF \E c \in C : c >= t THEN Min({c \in C : c >= t}) ELSE Max(C)
      left  == Max({c \in C : c < right} \cup {Min(C)}) IN
  IF Abs(right - t) < Abs(t - left) THEN right ELSE left

Selected(P, s) ==
  LET C == {t \in Times(P) : s[1] <= t /\ t < s[2]}  g == Grid(s, config.step) IN
  [i \in DOMAIN g |-> NearestFrame(C, g[i])]

Least(c) == IF c.kind = "normal" THEN WindowSize ELSE MinFrames

\* The options and the timeline P allow the span.
Bounded(P, s) ==
  /\ Resolves(P, s)
  /\ LET r == Resolve(P, s) IN
     /\ TickCount(r, config.step) \in Least(config) .. config.max
     /\ \E t \in Times(P) : r[1] <= t /\ t < r[2]

Frames(P, s) ==
  LET r == Resolve(P, s) IN [span |-> r, ts |-> Grid(r, config.step), src |-> Selected(P, r)]

PacketsAgree == source.packets # {} /\ source.declared \in {0, Cardinality(source.packets)}

\* every selected frame comes out of the decoder, after a seek or from the start
Decodes(P, s) == \A t \in Range(Frames(P, s).src) : t + Min(P) \in source.frames

\* Packets that do not agree with what is displayed are replaced by the decoded frames.
Timeline(s) ==
  LET Fallback == ~PacketsAgree \/ (Bounded(source.packets, s) /\ ~Decodes(source.packets, s)) IN
  IF Fallback THEN source.frames ELSE source.packets

-----------------------------------------------------------------------------
(* The estimators.                                                         *)

RegularWindows(n) == [k \in 1 .. (n - WindowSize) \div WindowStride + 1 |-> (k - 1) * WindowStride]

TemporalWindowsNoTail(n) == RegularWindows(n)   \* mutant: no last window that ends with the clip

\* Windows of NormalCrafter, by their first frame; the last one ends with the clip.
TemporalWindows(n) ==
  LET S == RegularWindows(n) IN
  IF S[Len(S)] + WindowSize < n THEN Append(S, n - WindowSize) ELSE S

\* Of each frame, the windows whose estimates are blended: what is left of the one before where it
\* reaches, and nothing but the new one behind it.
PredictLatents(n) ==
  LET S == TemporalWindows(n)
      prediction[k \in 0 .. Len(S)] ==
        IF k = 0 THEN [i \in 0 .. (n - 1) |-> {}]
        ELSE [i \in 0 .. (n - 1) |->
                IF i \notin S[k] .. (S[k] + WindowSize - 1) THEN prediction[k - 1][i]
                ELSE IF k > 1 /\ i < S[k - 1] + WindowSize THEN prediction[k - 1][i] \cup {S[k]}
                ELSE {S[k]}] IN
  prediction[Len(S)]

Estimate(n, i) == [frame |-> i, by |-> IF config.kind = "normal" THEN PredictLatents(n)[i] ELSE {}]

Count(a) == Len(call[a].clip.ts)

\* How many frames a runtime returns at a time, NormalCrafter a chunk, ViPE one, and the first of
\* them, which is the next one, or the one behind it when that is lost.
Due(a)       == IF config.kind = "normal" THEN Min({config.chunk, Count(a) - call[a].count}) ELSE 1
MayReturn(a) == {n \in {call[a].count, call[a].count + 1} : n = call[a].count \/ n + Due(a) <= Count(a)}

-----------------------------------------------------------------------------
(* What a reader of the output finds.                                      *)

\* the k-th chunk of n frames
ChunkCount(n, chunk) == (n + chunk - 1) \div chunk
RangeOf(k, n, chunk) == <<(k - 1) * chunk, Min({k * chunk, n})>>
Ranges(n, chunk)     == {RangeOf(k, n, chunk) : k \in 1 .. ChunkCount(n, chunk)}

\* iter_chunks: the rows of all chunks; a chunk that is missing or has another length raises.
Readable(d) ==
  /\ Ranges(d.frames, d.chunk) \subseteq DOMAIN files
  /\ \A r \in Ranges(d.frames, d.chunk) : Len(files[r]) = r[2] - r[1]

Rows(d) == FlattenSeq([k \in 1 .. ChunkCount(d.frames, d.chunk) |-> files[RangeOf(k, d.frames, d.chunk)]])

-----------------------------------------------------------------------------
(* Reuse.                                                                  *)

ReuseAnyGrid(s) ==   \* mutant: the step of the grid is not compared
  /\ meta.kind = config.kind /\ meta.contract = config.contract
  /\ IF s = Full THEN meta.span[1] = 0 ELSE meta.span = s

\* The record is of the same source, producer and grid, and keeps the same contract.
Matches(s) ==
  /\ meta.kind = config.kind /\ meta.contract = config.contract /\ meta.step = config.step
  /\ meta.frames = TickCount(meta.span, config.step)
  /\ IF s = Full THEN meta.span[1] = 0 ELSE meta.span = s

Goes(a, to, c)  == spot' = [spot EXCEPT ![a] = to] /\ call' = [call EXCEPT ![a] = c]
Leaves(a, how)  == Goes(a, how, Call(Full))
Fails(a)        == Leaves(a, "raised") /\ UNCHANGED <<files, meta, published, given>>
Refers(a)       == given' = given \cup {[config |-> config, span |-> call[a].span]}
Fixed           == UNCHANGED <<source, whole, config, runs, tasks>>

\* _reuse_completed, before decoding with the span of the task, and after it with the decoded one
ReuseCompleted(a, s, next) ==
  /\ Fixed
  /\ \/ meta = NoDoc /\ Goes(a, next, call[a]) /\ UNCHANGED <<files, meta, published, given>>
     \/ meta # NoDoc /\ Matches(s) /\ Leaves(a, "done") /\ Refers(a) /\ UNCHANGED <<files, meta, published>>
     \/ meta # NoDoc /\ ~Matches(s) /\ Fails(a)

Check(a)   == spot[a] = "check" /\ ReuseCompleted(a, call[a].span, "decode")
Recheck(a) == spot[a] = "recheck" /\ ReuseCompleted(a, call[a].clip.span, "infer")

\* A complaint about the timeline ends the call.
Decode(a) ==
  /\ spot[a] = "decode" /\ Fixed
  /\ LET s == call[a].span  P == Timeline(s) IN
     \/ /\ P # {} /\ Bounded(P, s)
        /\ Goes(a, "recheck", [call[a] EXCEPT !.clip = Frames(P, s)])
        /\ UNCHANGED <<files, meta, published, given>>
     \/ ~(P # {} /\ Bounded(P, s)) /\ Fails(a)

-----------------------------------------------------------------------------
(* Estimating and writing.                                                 *)

\* the call with the results from first on
Taken(a, first) ==
  [call[a] EXCEPT !.held = @ \o [k \in 1 .. Due(a) |-> Estimate(Count(a), first + k - 1)],
                  !.count = @ + Due(a)]

Holds(a, c) == Goes(a, IF config.kind = "normal" \/ Len(c.held) = config.chunk THEN "write" ELSE "infer", c)

\* Mutant: what comes is taken for what is due.
InferAny(a, first) ==
  /\ spot[a] = "infer" /\ Fixed /\ call[a].count < Count(a)
  /\ Holds(a, Taken(a, first))
  /\ UNCHANGED <<files, meta, published, given>>

\* A result that is not the next one, is one too many, or has too few valid pixels ends the call;
\* NormalCrafter hands over chunks, ViPE frames, which are held until they are as many as a chunk.
Infer(a, first) ==
  /\ spot[a] = "infer" /\ Fixed
  /\ \/ /\ first = call[a].count /\ call[a].count < Count(a)
        /\ Holds(a, Taken(a, first))
        /\ UNCHANGED <<files, meta, published, given>>
     \/ Fails(a)

\* Mutant: a clip of which frames are missing goes on.
InferEndsEarly(a) ==
  /\ spot[a] = "infer" /\ Fixed
  /\ Goes(a, IF call[a].held # <<>> THEN "flush" ELSE "complete", call[a])
  /\ UNCHANGED <<files, meta, published, given>>

\* The estimator has no more results; ViPE's last chunk may be a partial one.
InferEnds(a) ==
  /\ spot[a] = "infer" /\ Fixed
  /\ \/ /\ call[a].count = Count(a)
        /\ Goes(a, IF call[a].held # <<>> THEN "flush" ELSE "complete", call[a])
        /\ UNCHANGED <<files, meta, published, given>>
     \/ call[a].count # Count(a) /\ Fails(a)

Chunk(c) == <<c.count - Len(c.held), c.count>>

RowsOf(c) ==
  LET from == c.count - Len(c.held) IN
  [k \in DOMAIN c.held |-> [of |-> c.held[k], ts |-> c.clip.ts[from + k], src |-> c.clip.src[from + k]]]

\* open_chunk: the file appears at its place whole, or not at all, over one that may be there.
OpenChunk(a) ==
  /\ spot[a] \in {"write", "flush"} /\ Fixed
  /\ LET r == Chunk(call[a]) IN
     \/ /\ files' = [q \in DOMAIN files \cup {r} |-> IF q = r THEN RowsOf(call[a]) ELSE files[q]]
        /\ published' = [published EXCEPT ![a] = @ \cup {r}]
        /\ Goes(a, IF spot[a] = "write" THEN "infer" ELSE "complete", [call[a] EXCEPT !.held = <<>>])
        /\ UNCHANGED <<meta, given>>
     \/ Fails(a)

Record(c) == [kind |-> config.kind, step |-> config.step, contract |-> config.contract,
              span |-> c.clip.span, frames |-> Len(c.clip.ts), chunk |-> config.chunk]

Covers(a) == published[a] = Ranges(Count(a), config.chunk)

\* complete_clip: the chunks that this actor knows to be published must be those of the clip.
CompleteClip(a) ==
  /\ spot[a] = "complete" /\ Fixed
  /\ \/ /\ Covers(a)
        /\ meta' = Record(call[a])
        /\ published' = [published EXCEPT ![a] = {}]
        /\ Refers(a) /\ Leaves(a, "done") /\ UNCHANGED files
     \/ Fails(a)

Next ==
  \/ NewRun
  \/ \E a \in Actors :
       \/ \E s \in Spans \cup {Full} : Take(a, s)
       \/ Check(a) \/ Decode(a) \/ Recheck(a)
       \/ \E first \in MayReturn(a) : Infer(a, first)
       \/ InferEnds(a) \/ OpenChunk(a) \/ CompleteClip(a)

Spec == Init /\ [][Next]_vars

-----------------------------------------------------------------------------
(* What must hold, of the output as a reader finds it.                     *)

\* Times of the grid.
Ticks(s, step) == {t \in s[1] .. (s[2] - 1) : (t - s[1]) % step = 0}

Timelines == {source.packets, source.frames} \ {{}}

\* x is one of C nearest to t, the earlier one
IsNearest(C, x, t) == x \in C /\ \A c \in C : Abs(x - t) < Abs(c - t) \/ (Abs(x - t) = Abs(c - t) /\ x <= c)

Right(d, k, row) ==
  /\ row.of.frame = k - 1
  /\ row.ts = d.span[1] + (k - 1) * d.step
  /\ \E P \in Timelines :
       /\ row.src + Min(P) \in source.frames
       /\ IsNearest({t \in Times(P) : d.span[1] <= t /\ t < d.span[2]}, row.src, row.ts)
  /\ d.kind = "normal" =>
       /\ row.of.by # {}
       /\ row.of.by = {s \in Range(TemporalWindows(d.frames)) : s <= k - 1 /\ k - 1 < s + WindowSize}

\* A record closes all rows of its span, each of its frame, whoever wrote the chunks and when.
Whole ==
  meta # NoDoc =>
    /\ meta.frames = Cardinality(Ticks(meta.span, meta.step))
    /\ Readable(meta)
    /\ Len(Rows(meta)) = meta.frames
    /\ \A k \in 1 .. meta.frames : Right(meta, k, Rows(meta)[k])

\* What was given to a task is what it asked for, and stays so in all later runs.
Answered ==
  \A t \in given :
    /\ meta # NoDoc
    /\ meta.kind = t.config.kind /\ meta.step = t.config.step /\ meta.contract = t.config.contract
    /\ IF t.span = Full THEN \E P \in Timelines : meta.span = <<0, Duration(P)>>
                        ELSE meta.span = t.span

AnnotationSound == Whole /\ Answered
=============================================================================
