------------------------------ MODULE VideoCuts ------------------------------
(* How one video is cut into clips and its clips into windows: the shot      *)
(* transitions that a network finds, batch by batch, the scenes between      *)
(* them, what the length options make of a scene, or spans at a fixed        *)
(* stride, and the windows that are captioned.  Times are counted in frames, *)
(* frames from 0 on; a span <<a, b>> holds the frames from a to b - 1.       *)
EXTENDS Integers, Sequences

CONSTANTS
  MaxFrames,          \* a video has at most so many frames
  Half,               \* a batch predicts 2 * Half frames and sees Half more on either side
  WINDOW_MIN_FRAMES,  \* a shorter clip has no windows
  CutOptions          \* the command lines; 0 stands for an option that is not set

ASSUME CutsAssumption ==
  /\ MaxFrames \in Nat \ {0} /\ Half \in Nat \ {0} /\ WINDOW_MIN_FRAMES \in Nat \ {0}
  /\ CutOptions \subseteq
       [split : {"transnet", "stride"}, mode : {"truncate", "stride"}, entire : BOOLEAN,
        max : Nat, min : Nat, crop : Nat, limit : Nat, len : Nat \ {0}, stride : Nat \ {0},
        size : Nat \ {0}, threshold : Nat \ {0}]

VARIABLES
  options, total, cuts,  \* the command line, the frames, and whether a frame belongs to a transition
  pc,
  predictions,        \* one for each frame of the batches so far
  i, t, tPrev, start, \* the loop of _get_scenes
  scenes,             \* found and, while they are cut, left
  current,            \* where the next piece of a scene, or the next span, begins
  spans,              \* the clips
  windows             \* the windows of the clips so far

cutVars == <<options, total, cuts, pc, predictions, i, t, tPrev, start, scenes, current, spans, windows>>

Least(a, b)    == IF a < b THEN a ELSE b
Greatest(a, b) == IF a > b THEN a ELSE b
Length(s)      == s[2] - s[1]

CutInit ==
  /\ options \in CutOptions
  /\ total \in 1..MaxFrames
  /\ cuts \in IF options.split = "transnet" THEN [0..(total - 1) -> {0, 1}] ELSE {[f \in 0..(total - 1) |-> 0]}
  /\ pc = IF options.split = "transnet" THEN "predict" ELSE "spans"
  /\ predictions = <<>> /\ scenes = <<>> /\ spans = <<>> /\ windows = <<>>
  /\ i = 0 /\ t = -1 /\ tPrev = 0 /\ start = 0 /\ current = 0

-----------------------------------------------------------------------------
\* the frames of the batch that begins at b: the first batch is padded in front with the first frame
BatchAt(b) ==
  LET first == Greatest(b - Half, 0)
      last  == Least(b + 3 * Half, total)
      pad   == IF b < Half THEN Half - b ELSE 0
  IN  [k \in 1..(pad + last - first) |-> IF k <= pad THEN 0 ELSE first + (k - pad) - 1]

\* the network is taken to be right: what it says of a frame of the middle of a batch is cuts
Predict ==
  /\ pc = "predict"
  /\ LET b     == Len(predictions)
         batch == BatchAt(b)
         mid   == SubSeq(batch, Half + 1, Least(3 * Half, Len(batch)))
         all   == predictions \o [k \in 1..Len(mid) |-> cuts[mid[k]]]
     IN  /\ predictions' = all
         /\ pc' = IF Len(all) >= total THEN "scenes" ELSE pc
  /\ UNCHANGED <<options, total, cuts, i, t, tPrev, start, scenes, current, spans, windows>>

\* one frame of the loop of _get_scenes
Scan ==
  /\ pc = "scenes" /\ i < total
  /\ t' = predictions[i + 1]
  /\ tPrev' = t'
  /\ start' = IF tPrev = 1 /\ t' = 0 THEN i ELSE start
  /\ scenes' = IF tPrev = 0 /\ t' = 1 /\ i # 0 THEN Append(scenes, <<start, i>>) ELSE scenes
  /\ i' = i + 1
  /\ UNCHANGED <<options, total, cuts, pc, predictions, current, spans, windows>>

\* the trailing scene ends at the last frame, the scene without transitions after it
Found ==
  IF scenes # <<>> THEN IF t = 0 THEN Append(scenes, <<start, total - 1>>) ELSE scenes
  ELSE IF options.entire THEN << <<0, total>> >> ELSE <<>>

Scanned ==
  /\ pc = "scenes" /\ i = total
  /\ scenes' = Found
  /\ current' = IF Found = <<>> THEN 0 ELSE Found[1][1]
  /\ pc' = "cut"
  /\ UNCHANGED <<options, total, cuts, predictions, i, t, tPrev, start, spans, windows>>

-----------------------------------------------------------------------------
\* a piece is cropped and then dropped when nothing, or too little, is left
Cropped(s) == <<s[1] + options.crop, s[2] - options.crop>>
Passes(s)    == (options.crop > 0 => Length(Cropped(s)) > 0) /\ Length(Cropped(s)) >= options.min
With(s)    == IF Passes(s) THEN Append(spans, Cropped(s)) ELSE spans

NextScene ==
  /\ scenes' = Tail(scenes)
  /\ current' = IF Len(scenes) > 1 THEN scenes[2][1] ELSE 0

\* a scene is left as it is or truncated
CutScene ==
  /\ pc = "cut" /\ scenes # <<>>
  /\ options.max = 0 \/ options.mode = "truncate"
  /\ LET s == scenes[1] IN
       spans' = With(<<s[1], IF options.max = 0 THEN s[2] ELSE Least(s[1] + options.max, s[2])>>)
  /\ NextScene
  /\ UNCHANGED <<options, total, cuts, pc, predictions, i, t, tPrev, start, windows>>

\* Mutant: the last piece of a scene is dropped, also when it is long enough.
CutPieceDropping ==
  /\ pc = "cut" /\ scenes # <<>>
  /\ options.max > 0 /\ options.mode = "stride"
  /\ LET end   == scenes[1][2]
         piece == <<current, Least(current + options.max, end)>>
     IN  IF current >= end \/ piece[2] = end
         THEN NextScene /\ UNCHANGED spans
         ELSE spans' = With(piece) /\ current' = piece[2] /\ UNCHANGED scenes
  /\ UNCHANGED <<options, total, cuts, pc, predictions, i, t, tPrev, start, windows>>

\* one turn of the loop of _create_spans: the last piece of a scene is dropped when it is too short
CutPiece ==
  /\ pc = "cut" /\ scenes # <<>>
  /\ options.max > 0 /\ options.mode = "stride"
  /\ LET end   == scenes[1][2]
         piece == <<current, Least(current + options.max, end)>>
     IN  IF current >= end \/ (Length(piece) < options.min /\ piece[2] = end)
         THEN NextScene /\ UNCHANGED spans
         ELSE spans' = With(piece) /\ current' = piece[2] /\ UNCHANGED scenes
  /\ UNCHANGED <<options, total, cuts, pc, predictions, i, t, tPrev, start, windows>>

\* one turn of the loop of _make_spans_fixed_stride
StrideSpan ==
  /\ pc = "spans" /\ current < total
  /\ LET span == <<current, Least(current + options.len, total)>> IN
       spans' = IF Length(span) >= options.min THEN Append(spans, span) ELSE spans
  /\ current' = current + options.stride
  /\ UNCHANGED <<options, total, cuts, pc, predictions, i, t, tPrev, start, scenes, windows>>

\* only the first clips are taken when their number is limited
Limit ==
  /\ (pc = "cut" /\ scenes = <<>>) \/ (pc = "spans" /\ current >= total)
  /\ spans' = IF options.limit > 0 THEN SubSeq(spans, 1, Least(options.limit, Len(spans))) ELSE spans
  /\ pc' = "windows"
  /\ UNCHANGED <<options, total, cuts, predictions, i, t, tPrev, start, scenes, current, windows>>

\* compute_windows, with inclusive ends: a remainder is a window of its own or joins the last one
compute_windows(n, size, threshold) ==
  LET full      == n \div size
      remainder == n % size
      Own       == remainder >= threshold
      count     == IF Own THEN full + 1 ELSE full
      EndOf(k)  == IF k = count THEN n - 1 ELSE k * size - 1
  IN  IF n < WINDOW_MIN_FRAMES THEN <<>>
      ELSE IF n <= size THEN << <<0, n - 1>> >>
      ELSE [k \in 1..count |-> <<(k - 1) * size, EndOf(k)>>]

Window ==
  /\ pc = "windows" /\ Len(windows) < Len(spans)
  /\ windows' = Append(windows, compute_windows(Length(spans[Len(windows) + 1]), options.size, options.threshold))
  /\ UNCHANGED <<options, total, cuts, pc, predictions, i, t, tPrev, start, scenes, current, spans>>

CutNext ==
  \/ Predict \/ Scan \/ Scanned \/ CutScene \/ CutPiece \/ StrideSpan \/ Limit \/ Window
CutSpec == CutInit /\ [][CutNext]_cutVars

-----------------------------------------------------------------------------
\* a scene between transitions was found
Detected == \E f \in 1..(total - 1) : cuts[f - 1] = 0 /\ cuts[f] = 1
Holds(s, f) == s[1] <= f /\ f < s[2]

\* Each prediction is about the frame in its place: batches overlap and are padded, their middles join.
Predicted == \A k \in 1..Len(predictions) : k <= total /\ predictions[k] = cuts[k - 1]

\* Clips lie in the video one after the other, are as long as the options allow and, when a
\* transition was found at all, show none.
ClipsSound ==
  \A k \in 1..Len(spans) :
    LET s == spans[k] IN
    /\ 0 <= s[1] /\ s[1] <= s[2] /\ s[2] <= total
    /\ options.min <= Length(s)
    /\ options.split = "transnet" =>
         /\ k > 1 => spans[k - 1][2] <= s[1]
         /\ options.max > 0 => Length(s) <= options.max
         /\ (options.crop > 0 \/ (options.max > 0 /\ options.mode = "stride")) => Length(s) > 0
         /\ Detected => \A f \in 0..(total - 1) : Holds(s, f) => cuts[f] = 0
    /\ options.split = "stride" => 0 < Length(s) /\ Length(s) <= options.len

\* Nothing that the options keep is lost: of a scene only the last frame of the video.
NothingLost ==
  (pc = "windows" /\ options.limit = 0 /\ options.min <= 1) =>
    /\ (options.split = "transnet" /\ options.min = 0 /\ options.crop = 0 /\ (options.max = 0 \/ options.mode = "stride")
        /\ (Detected \/ options.entire)) =>
         \A f \in 0..(total - 2) : cuts[f] = 0 => \E k \in 1..Len(spans) : Holds(spans[k], f)
    /\ (options.split = "stride" /\ options.stride <= options.len) =>
         \A f \in 0..(total - 1) : \E k \in 1..Len(spans) : Holds(spans[k], f)

\* The windows of a clip of n frames are consecutive and reach from the first frame to the last;
\* none but the last differs in size, and the last is neither shorter than the threshold nor
\* longer by as much.
Tiles(ws, n, size, threshold) ==
  IF n < WINDOW_MIN_FRAMES THEN ws = <<>>
  ELSE /\ ws # <<>> /\ ws[1][1] = 0 /\ ws[Len(ws)][2] = n - 1
       /\ \A k \in 1..Len(ws) :
            /\ ws[k][1] <= ws[k][2]
            /\ k < Len(ws) => ws[k + 1][1] = ws[k][2] + 1 /\ Length(ws[k]) + 1 = size
       /\ Length(ws[Len(ws)]) + 1 < size + threshold
       /\ Len(ws) > 1 => Length(ws[Len(ws)]) + 1 >= Least(threshold, size)

\* A video is cut where it should be, and all of it that should be kept is captioned once: the
\* loops of _get_batches, _get_scenes, _get_filtered_scenes, _make_spans_fixed_stride and
\* compute_windows meet at boundaries that each of them computes for itself.
CutsSound ==
  /\ Predicted
  /\ ClipsSound
  /\ NothingLost
  /\ \A k \in 1..Len(windows) : Tiles(windows[k], Length(spans[k]), options.size, options.threshold)
=============================================================================
