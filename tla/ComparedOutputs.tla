-------------------------- MODULE ComparedOutputs --------------------------
(* The comparison of two outputs of the split pipeline, as a part beside     *)
(* others: see SplitComparison.                                              *)
EXTENDS Integers, FiniteSets

CONSTANTS
  ListedClips,     \* numbers, in the order of their uuids
  SourceOf,        \* the video of each of them
  CaptionWindows,
  OutputPairs,     \* the outputs to compare
  Comparisons,     \* the command lines
  Near, Slack      \* the tolerances

\* A score that is read is a number that is not negative, null (-1) or not a number (-2).
Scores   == Nat \cup {-1, -2}
Captions == Nat \cup {-1}

\* What a reader may find of one output, whatever wrote it.
Output ==
  [readable  : BOOLEAN, inputs : SUBSET Nat, processed : SUBSET Nat,
   chunk : [ListedClips -> [there : BOOLEAN, kind : {"clip", "filtered_clip"}, windows : Nat, tokens : Nat]],
   meta  : [ListedClips ->
              [file : {"ok", "missing", "unreadable"}, aesthetic : Scores,
               motion  : [there : BOOLEAN, score : [{"global_mean", "per_patch_min_256"} -> Scores]],
               caption : [CaptionWindows -> Captions]]],
   mp4   : [ListedClips -> STRING]]

\* There are finitely many clips; each output is any; a limit and a video are numbers, or 0 for none.
ASSUME ComparisonAssumption ==
  /\ IsFiniteSet(ListedClips) /\ ListedClips \subseteq Nat
  /\ SourceOf \in [ListedClips -> Nat]
  /\ OutputPairs \subseteq Output \X Output
  /\ Comparisons \subseteq [captions : BOOLEAN, index : BOOLEAN, video : Nat, limit : Nat]
  /\ Near \in Nat

VARIABLES outputs, comparison, compareAt, todo, issues, same

Compare == INSTANCE SplitComparison WITH Clips <- ListedClips, VideoOf <- SourceOf, Windows <- CaptionWindows,
             Pairs <- OutputPairs, Configs <- Comparisons, out <- outputs, options <- comparison,
             at <- compareAt, passed <- same

compareVars == <<outputs, comparison, compareAt, todo, issues, same>>

\* A comparison of two outputs says what is the same and what is not: see SplitComparison.
ComparisonSound == Compare!ComparisonSound
=============================================================================
