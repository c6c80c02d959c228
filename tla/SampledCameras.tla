--------------------------- MODULE SampledCameras ---------------------------
(* Cameras sampled along a timeline, as a part beside others: see            *)
(* SensorSampling.                                                           *)
EXTENDS Integers, Sequences, FiniteSets

CONSTANTS
  Groups,    \* the groups of cameras
  Grids,     \* the timelines
  Policies

\* What SamplingGrid and CameraIndex let through: a camera has finitely many frames, whose times are
\* counted from the first of any; a timeline lies within its bounds and moves on.
ASSUME SamplingAssumption ==
  /\ \A g \in Groups :
       /\ g \in Seq([frames : SUBSET Nat, keys : SUBSET Nat])
       /\ \A s \in DOMAIN g : IsFiniteSet(g[s].frames) /\ IsFiniteSet(g[s].keys)
  /\ \A g \in Grids :
       /\ {g.start, g.end} \subseteq Int /\ {g.stride, g.duration} \subseteq Nat \ {0}
       /\ g.start <= g.end /\ g.ts \subseteq g.start .. (g.end - 1)

VARIABLES
  group, grid, policy, status, cursor, window, turn, plan, counts, gop, position, last, rows, yielded

Sampling == INSTANCE SensorSampling

samplingVars == <<group, grid, policy, status, cursor, window, turn, plan, counts, gop, position, last,
                  rows, yielded>>

\* Rows and windows of sampled cameras agree: see SensorSampling.
SamplesAligned == Sampling!SamplesAligned
=============================================================================
