--------------------------- MODULE AnnotatedClip ---------------------------
(* A clip that actors annotate, as a part beside others: see                 *)
(* TemporalAnnotation.                                                       *)
EXTENDS Integers, Sequences, FiniteSets

CONSTANTS
  Annotators,                \* the actors
  Sources, Spans,            \* what is annotated
  Configs,                   \* with which options
  WindowSize, WindowStride, MinFrames,
  MaxRuns, MaxTasks

\* What the decoder, normalize_span and the constructors of the stages let through, and that the windows
\* of NormalCrafter leave no gap (14 frames, 10 apart).
ASSUME AnnotationAssumption ==
  /\ \A s \in Sources :
       /\ s.packets \subseteq Int /\ IsFiniteSet(s.packets)
       /\ s.frames \subseteq Int /\ IsFiniteSet(s.frames)
       /\ s.last \in Nat \ {0}
  /\ Spans \subseteq Nat \X Nat /\ \A s \in Spans : s[1] < s[2]
  /\ \A c \in Configs :
       c.kind \in {"normal", "depth"} /\ {c.step, c.chunk} \subseteq Nat \ {0} /\ c.max \in Nat
  /\ WindowSize \in Nat \ {0} /\ WindowStride \in 1 .. WindowSize /\ MinFrames \in Nat \ {0}

VARIABLES source, whole, config, runs, tasks, files, meta, published, spot, call, given

Annotation == INSTANCE TemporalAnnotation WITH Actors <- Annotators

annotationVars == <<source, whole, config, runs, tasks, files, meta, published, spot, call, given>>

\* A completion record closes the right row of each frame of its clip, and what was given to a task
\* stays what the task asked for: see TemporalAnnotation.
AnnotationSound == Annotation!AnnotationSound
=============================================================================
