----------------------------- MODULE ClipShards -----------------------------
(* The sharding of described clips, as a part beside others: see             *)
(* ShardDataset.                                                             *)
EXTENDS Integers, Sequences

CONSTANTS
  NumClips,
  Bins, NoBin,
  Metas,                    \* what the metadata of a clip can say
  Target, MinClips, MaxTars, MaxStarts

\* Sizes and limits are numbers, a part holds an archive at least, and a clip has a bin or none.
ASSUME ShardAssumption ==
  /\ {NumClips, Target, MinClips} \subseteq Nat /\ MaxTars \in Nat \ {0}
  /\ NoBin \notin Bins
  /\ Metas \subseteq [readable : BOOLEAN, valid : BOOLEAN, bin : Bins \cup {NoBin}, size : Nat,
                      captions : Seq(BOOLEAN)]

VARIABLES meta, excluded, drop, progress, tasks, bins, dropped, stage, embedded, marked,
          tars, infos, listed, starts

Shard == INSTANCE ShardDataset WITH N <- NumClips, windows <- embedded

shardVars == <<meta, excluded, drop, progress, tasks, bins, dropped, stage, embedded, marked,
               tars, infos, listed, starts>>

\* A dataset that is listed holds every wanted clip once, and its embeddings in the order of the
\* windows: see ShardDataset.
ShardsSound == Shard!ShardsSound
=============================================================================
