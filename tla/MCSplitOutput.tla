--------------------------- MODULE MCSplitOutput ---------------------------
(* Instances for TLC of two writers that close their output by a record: of  *)
(* the split, with one video that is cut in two chunks, so that one of them  *)
(* can be done while the other is not; and of the annotation of a clip.  A   *)
(* behaviour is one of one part; the variables of the other do not change.   *)
EXTENDS SplitOutput, AnnotatedClip, TLC

CONSTANTS video, chunk0, chunk1

VARIABLE part

OneVideo    == {video}
TwoChunks   == {chunk0, chunk1}
Owner       == [c \in TwoChunks |-> video]
FirstChunks == {chunk0}

\* sources of which packets and frames agree or not, with gaps, or that declare another number
Src(p, f, d, l) == [packets |-> p, frames |-> f, declared |-> d, last |-> l]

AllSources ==
  {Src(0..4, 0..4, 5, 1), Src({0, 1, 2, 4}, {1, 2, 4}, 0, 1), Src({0, 3}, {0, 3}, 0, 3),
   Src(0..3, 0..2, 3, 1)}

Annotator(k, s, c, o) == [kind |-> k, step |-> s, chunk |-> c, contract |-> o, max |-> 5]

AllAnnotators ==
  {Annotator("normal", 1, 2, 1), Annotator("depth", 1, 2, 1), Annotator("depth", 1, 3, 1),
   Annotator("depth", 2, 2, 1), Annotator("depth", 1, 2, 2)}

AllSpans == {<<0, 4>>, <<1, 5>>, <<1, 3>>, <<2, 9>>}

NoSplit      == ~remote
NoAnnotation == source = Src({0, 3}, {0, 3}, 0, 3) /\ whole = TRUE /\ config = Annotator("normal", 1, 2, 1)

OutputInit ==
  /\ part \in {"split", "annotation"}
  /\ Init            /\ (part = "annotation" => NoSplit)
  /\ Annotation!Init /\ (part = "split" => NoAnnotation)

OutputNext ==
  \/ part = "split"      /\ Next            /\ UNCHANGED <<part, annotationVars>>
  \/ part = "annotation" /\ Annotation!Next /\ UNCHANGED <<part, vars>>

OutputSpec == OutputInit /\ [][OutputNext]_<<part, vars, annotationVars>>
\* Fair is the split; what is claimed of the annotation is safety.
FairOutput == OutputSpec /\ WF_vars(Progress)
=============================================================================
