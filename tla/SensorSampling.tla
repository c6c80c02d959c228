--------------------------- MODULE SensorSampling ---------------------------
(* Cameras sampled along one timeline: the grid yields half-open windows of  *)
(* its timestamps, each camera of a group picks for every timestamp of a     *)
(* window the nearest of its frames in the window, decodes the picked frames *)
(* group of pictures by group of pictures, and the group bundles the rows.   *)
(* Arrays of timestamps that the code requires to increase are sets; a frame *)
(* is its timestamp, in units of which the stream and the grid agree.        *)
EXTENDS Integers, Sequences, FiniteSets, FiniteSetsExt

CONSTANTS
  Groups,   \* sequences of cameras: the frames shown, the keyframes, shown or discarded
  Grids,    \* timestamps, bounds, stride and duration
  Policies  \* tolerance and overlap, in quarters; NoPolicy when there is none

NoPolicy == [tolerance |-> -1, overlap |-> 0]

VARIABLES
  group, grid, policy,
  status,   \* "running", "done", or why an exception left the generator
  cursor,   \* where the next window begins
  window,   \* the window that is sampled
  turn,     \* the camera whose batch is made; 0 between windows
  plan,     \* the keyframes still to seek, each with the frames to take
  counts,   \* how often each picked frame is a row
  gop,      \* the frames still to take of the group of pictures that is decoded
  position, last,  \* the decoder: what it shows next, and what it showed last
  rows,     \* the rows of each camera in this window
  yielded   \* the aligned frames so far

samplingVars == <<group, grid, policy, status, cursor, window, turn, plan, counts, gop, position, last,
                  rows, yielded>>

Distance(a, b) == IF a < b THEN b - a ELSE a - b
Camera  == group[turn]
NoRows  == [s \in 1..Len(group) |-> <<>>]
NoneYet == -1

Init ==
  /\ group \in Groups /\ grid \in Grids /\ policy \in Policies
  /\ status = "running" /\ cursor = grid.start /\ window = [ts |-> {}, end |-> grid.start]
  /\ turn = 0 /\ plan = {} /\ counts = <<>> /\ gop = {} /\ position = 0 /\ last = NoneYet
  /\ rows = NoRows /\ yielded = <<>>

-----------------------------------------------------------------------------
\* SamplingGrid: windows at every stride; a grid without extent has one empty window
WindowAt(c) ==
  LET end == Min({c + grid.duration, grid.end})
  IN  [ts |-> {x \in grid.ts : c <= x /\ x < end}, end |-> end]

NextWindow ==
  /\ status = "running" /\ turn = 0
  /\ cursor < grid.end \/ (grid.start = grid.end /\ yielded = <<>>)
  /\ window' = WindowAt(cursor)
  /\ cursor' = cursor + grid.stride
  /\ turn' = 1 /\ rows' = NoRows
  /\ UNCHANGED <<group, grid, policy, status, plan, counts, gop, position, last, yielded>>

Exhausted ==
  /\ status = "running" /\ turn = 0
  /\ cursor >= grid.end /\ (grid.start = grid.end => yielded # <<>>)
  /\ status' = "done"
  /\ UNCHANGED <<group, grid, policy, cursor, window, turn, plan, counts, gop, position, last, rows, yielded>>

\* the frames of the window, counted from its first timestamp
Eligible == {f \in Camera.frames : Min(window.ts) <= f /\ f < window.end}
CanPick  == IF window.ts = {} THEN FALSE ELSE Eligible # {}

\* find_closest_indices: the neighbours of the insertion point, which is kept inside the array
Closest(E, x) ==
  IF Cardinality(E) = 1 THEN Max(E)
  ELSE LET inner == E \ {Min(E)}
           after == {f \in inner : f >= x}
           right == IF after = {} THEN Max(E) ELSE Min(after)
           left  == Max({f \in E : f < right})
       IN  IF Distance(x, right) < Distance(x, left) THEN right ELSE left

Picked(x)  == Closest(Eligible, x)

\* Mutant: searchsorted on the other side.
GovernsBefore(f) == {k \in Camera.keys : k < f \/ k = Min(Camera.keys)}

Governs(f) == {k \in Camera.keys : k <= f}

\* make_decode_plan: the picks by the last keyframe that is not after them
DecodePlan(picks) ==
  {[key |-> k, take |-> {f \in picks : Max(Governs(f)) = k}] : k \in {Max(Governs(f)) : f \in picks}}

\* CameraSensor.sample for one window: nothing to pick, or picks to decode
NothingToSample ==
  /\ status = "running" /\ turn \in 1..Len(group) /\ plan = {} /\ gop = {} /\ counts = <<>>
  /\ ~CanPick
  /\ turn' = turn + 1
  /\ UNCHANGED <<group, grid, policy, status, cursor, window, plan, counts, gop, position, last, rows, yielded>>

Pick ==
  /\ status = "running" /\ turn \in 1..Len(group) /\ plan = {} /\ gop = {} /\ counts = <<>>
  /\ CanPick
  /\ LET picks == {Picked(x) : x \in window.ts}
     IN  IF policy # NoPolicy /\ \E x \in window.ts : Distance(x, Picked(x)) > policy.tolerance
         THEN status' = "tolerance" /\ UNCHANGED <<plan, counts, last>>
         ELSE IF \E f \in picks : Governs(f) = {}
         THEN status' = "no keyframe" /\ UNCHANGED <<plan, counts, last>>
         ELSE /\ plan' = DecodePlan(picks)
              /\ counts' = [f \in picks |-> Cardinality({x \in window.ts : Picked(x) = f})]
              /\ last' = NoneYet
              /\ UNCHANGED status
  /\ UNCHANGED <<group, grid, policy, cursor, window, turn, gop, position, rows, yielded>>

\* CpuVideoDecoder: seek to the keyframe and show frames from there
Seek ==
  /\ status = "running" /\ plan # {} /\ gop = {}
  /\ LET g == CHOOSE p \in plan : \A q \in plan : p.key <= q.key
     IN  plan' = plan \ {g} /\ gop' = g.take /\ position' = g.key
  /\ UNCHANGED <<group, grid, policy, status, cursor, window, turn, counts, last, rows, yielded>>

\* the frame shown is taken if it is the next one wanted, as often as it was picked
Decode ==
  /\ status = "running" /\ gop # {}
  /\ LET shown == {f \in Camera.frames : f >= position}
         f     == Min(shown)
     IN  IF shown = {} THEN status' = "not found" /\ UNCHANGED <<gop, position, last, rows>>
         ELSE IF f <= last THEN status' = "regressed" /\ UNCHANGED <<gop, position, last, rows>>
         ELSE /\ last' = f /\ position' = f + 1
              /\ IF f = Min(gop)
                 THEN /\ gop' = gop \ {f}
                      /\ rows' = [rows EXCEPT ![turn] = @ \o [k \in 1..counts[f] |-> f]]
                 ELSE UNCHANGED <<gop, rows>>
              /\ UNCHANGED status
  /\ UNCHANGED <<group, grid, policy, cursor, window, turn, plan, counts, yielded>>

\* a batch has a row for each timestamp of the window, or CameraData refuses it
Batch ==
  /\ status = "running" /\ counts # <<>> /\ plan = {} /\ gop = {}
  /\ IF Len(rows[turn]) # Cardinality(window.ts)
     THEN status' = "lengths" /\ UNCHANGED <<turn, counts>>
     ELSE turn' = turn + 1 /\ counts' = <<>> /\ UNCHANGED status
  /\ UNCHANGED <<group, grid, policy, cursor, window, plan, gop, position, last, rows, yielded>>

\* the cameras of the window that have rows, from the first row of any of them to the last
Taking     == {s \in 1..Len(group) : rows[s] # <<>>}
First(s)   == rows[s][1]
Final(s)   == rows[s][Len(rows[s])]
SpanStart  == Min({First(s) : s \in Taking})
SpanEnd    == Max({Final(s) : s \in Taking})
OverlapLow == \E s \in Taking : 4 * (Final(s) - First(s)) < policy.overlap * (SpanEnd - SpanStart)

\* SensorGroup.sample: the aligned frame, unless the policy asks for more overlap
Align ==
  /\ status = "running" /\ turn = Len(group) + 1
  /\ IF policy.overlap > 0 /\ Cardinality(Taking) >= 2 /\ (SpanEnd <= SpanStart \/ OverlapLow)
     THEN status' = "overlap" /\ UNCHANGED <<turn, yielded>>
     ELSE /\ yielded' = Append(yielded, [ts |-> window.ts, rows |-> rows])
          /\ turn' = 0 /\ UNCHANGED status
  /\ UNCHANGED <<group, grid, policy, cursor, window, plan, counts, gop, position, last, rows>>

Next ==
  \/ NextWindow \/ Exhausted \/ NothingToSample \/ Pick \/ Seek \/ Decode \/ Batch \/ Align
Spec == Init /\ [][Next]_samplingVars

-----------------------------------------------------------------------------
\* what a row should be: of the frames between the first timestamp of the window and its end the
\* nearest one, and the earlier one of two
BoundAt(n) == Min({grid.start + n * grid.stride, grid.end})
EndAt(n)   == Min({BoundAt(n - 1) + grid.duration, grid.end})
InWindow(s, n) ==
  {f \in group[s].frames : Min(yielded[n].ts) <= f /\ f < EndAt(n)}
Nearest(E, x) ==
  CHOOSE f \in E : \A h \in E : Distance(x, f) < Distance(x, h) \/ (Distance(x, f) = Distance(x, h) /\ f <= h)

\* The row of x, of rows in the order of the timestamps.
Rank(ts, x) == Cardinality({y \in ts : y <= x})

\* The n-th aligned frame is about the n-th window, also when windows are empty, and holds for each
\* camera with a frame in it the nearest of its frames for every timestamp, in order: picks that
\* are decoded once and in file order come back as rows.  Only a policy, or a stream that shows
\* frames before its first keyframe, ends the sampling early.
RowsAligned ==
  /\ \A n \in 1..Len(yielded) :
       LET frame == yielded[n]
       IN  /\ frame.ts = {x \in grid.ts : BoundAt(n - 1) <= x /\ x < EndAt(n)}
           /\ \A s \in 1..Len(group) :
                IF frame.ts = {} \/ InWindow(s, n) = {} THEN frame.rows[s] = <<>>
                ELSE /\ Len(frame.rows[s]) = Cardinality(frame.ts)
                     /\ \A x \in frame.ts : frame.rows[s][Rank(frame.ts, x)] = Nearest(InWindow(s, n), x)
  /\ status \in {"running", "done", "tolerance", "no keyframe", "overlap"}
  /\ status \in {"tolerance", "overlap"} => policy # NoPolicy

\* With windows as long as the stride every timestamp is in one aligned frame; shorter windows
\* put none, and no frame of a camera, into two; longer ones leave none out.
EachOnce ==
  LET Ends(x)   == {n \in 1..Len(yielded) : x \in yielded[n].ts}
      Uses(s, f) == {n \in 1..Len(yielded) : \E k \in 1..Len(yielded[n].rows[s]) : yielded[n].rows[s][k] = f}
  IN  /\ grid.duration <= grid.stride =>
           /\ \A x \in grid.ts : Cardinality(Ends(x)) <= 1
           /\ \A s \in 1..Len(group) : \A f \in group[s].frames : Cardinality(Uses(s, f)) <= 1
      /\ (status = "done" /\ grid.duration >= grid.stride) => \A x \in grid.ts : Ends(x) # {}

\* Both together: across windows, cameras and groups of pictures no timestamp loses its row, gets
\* that of another one, or is counted in two windows.
SamplesAligned == RowsAligned /\ EachOnce
=============================================================================
