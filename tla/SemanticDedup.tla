---------------------------- MODULE SemanticDedup ----------------------------
(* The semantic deduplication pipeline (pipelines/video/dedup_pipeline.py,   *)
(* dedup/dedup_actor.py) and what the shard pipeline takes from its output   *)
(* (utils/video_pipe_input.py).  A run clusters the embeddings: every actor  *)
(* writes its rows of a cluster to a file of its own.  Then, cluster by      *)
(* cluster, all files found under the cluster are read, the rows are ordered *)
(* by their distance to the centroid, and a row that is similar to an        *)
(* earlier one is marked in the cluster's pruning table.  A run may die at   *)
(* any point, and runs write over what earlier ones left in the same place.  *)
(*                                                                           *)
(* The embeddings themselves are abstracted to the pairs of clips whose      *)
(* cosine similarity reaches the threshold 1 - eps, the k-means to any       *)
(* labelling and any order of the distances, and every input file holds the  *)
(* embedding of one clip.  0 < eps < 1, and no similarity is equal to the    *)
(* threshold.                                                                *)
EXTENDS Integers, FiniteSets, Functions

CONSTANTS N,            \* number of clips
          MaxClusters,  \* bound: n_clusters
          MaxActors,    \* bound: GPUs of the cluster
          MaxRuns,      \* bound: runs into the same output
          SameConfig    \* is every run given the same clusters and GPUs as the first?

Clips   == 1..N
Pairs   == {p \in SUBSET Clips : Cardinality(p) = 2}
None    == [ids |-> {}, dups |-> {}]

VARIABLES
  similar,   \* the pairs of similar clips
  chunks,    \* the clips that have an embedding file
  summary,   \* does the input hold a summary.json that names all clips?
  phase,     \* "off", "kmeans", "dedup" or "failed"
  config,    \* clusters and pool of the last run
  label,     \* the cluster of every clip
  rank,      \* its distance to the centroid: a low rank is far away
  toWrite,   \* files of embs_by_nearest_center that are to be written
  rows,      \* rows of the files that exist: cluster, actor, clip, rank
  toDedup,   \* clusters that are to be deduplicated
  tables,    \* semdedup_pruning_tables: ids of each cluster, and the marked ones
  counts,    \* rows counted by the actors, kept and in all
  csv,       \* dedup_summary: what the last completed run counted
  runs

input == <<similar, chunks, summary>>
setup == <<config, label, rank>>
vars  == <<input, phase, setup, toWrite, rows, toDedup, tables, counts, csv, runs>>

Similar(c, d) == c = d \/ {c, d} \in similar

\* _get_parquet_files: by the summary, every chunk of every video; else what is there
Files == IF summary THEN Clips ELSE chunks

\* np.array_split: the actor, counted from 1, that gets the i-th of n things
Share(i, n, pool) ==
  LET size == n \div pool
      more == n % pool      \* so many actors get one more
  IN  IF i <= more * (size + 1) THEN (i - 1) \div (size + 1) + 1
                                ELSE (i - 1 - more) \div size + 1

ActorOf(c, pool) == Share(Cardinality({d \in Files : d <= c}), Cardinality(Files), pool)

Configs == [clusters : 1..MaxClusters, pool : 1..MaxActors]

Init ==
  /\ similar \in SUBSET Pairs
  /\ chunks \in (SUBSET Clips) \ {{}}
  /\ summary \in BOOLEAN
  /\ phase = "off"
  /\ config = [clusters |-> 0, pool |-> 0]
  /\ label = [c \in Clips |-> 0] /\ rank = [c \in Clips |-> 0]
  /\ toWrite = {} /\ rows = {}
  /\ toDedup = {} /\ tables = [k \in 1..MaxClusters |-> None]
  /\ counts = [kept |-> 0, total |-> 0] /\ csv = counts
  /\ runs = 0

-----------------------------------------------------------------------------

\* _create_actor_pool: no more actors than files.  The same input, clusters and actors
\* give the same result (random_state).
Run(cfg, labels, ranks) ==
  /\ phase = "off" /\ runs < MaxRuns
  /\ cfg.pool <= Cardinality(Files)
  /\ runs > 0 /\ (SameConfig \/ cfg = config) =>
       cfg = config /\ labels = label /\ ranks = rank
  /\ config' = cfg /\ label' = labels /\ rank' = ranks
  /\ phase' = "kmeans" /\ runs' = runs + 1
  /\ toWrite' = {<<labels[c], ActorOf(c, cfg.pool)>> : c \in Files}
  /\ toDedup' = 1..cfg.clusters
  /\ counts' = [kept |-> 0, total |-> 0]
  /\ UNCHANGED <<input, rows, tables, csv>>

\* _download: a chunk that the summary counts and that has no file ends the run, as no
\* file is written for a chunk without embeddings.
DownloadFails ==
  /\ phase = "kmeans" /\ ~ Files \subseteq chunks
  /\ phase' = "failed"
  /\ UNCHANGED <<input, setup, toWrite, rows, toDedup, tables, counts, csv, runs>>

\* mutant: one file for a cluster, whichever actor writes it
WriteOneFile(f) ==
  /\ phase = "kmeans" /\ Files \subseteq chunks
  /\ f \in toWrite /\ \A g \in toWrite : g[2] = f[2] => g[1] >= f[1]
  /\ rows' = {r \in rows : r.cluster # f[1]} \cup
             {[cluster |-> f[1], actor |-> f[2], clip |-> c, rank |-> rank[c]] :
                c \in {d \in Files : label[d] = f[1] /\ ActorOf(d, config.pool) = f[2]}}
  /\ toWrite' = toWrite \ {f}
  /\ UNCHANGED <<input, phase, setup, toDedup, tables, counts, csv, runs>>

\* SemDedupActor.kmeans, after the collective fit: an actor writes its rows cluster by
\* cluster, and nothing for a cluster in which it has none.
WriteShard(f) ==
  /\ phase = "kmeans" /\ Files \subseteq chunks
  /\ f \in toWrite /\ \A g \in toWrite : g[2] = f[2] => g[1] >= f[1]
  /\ rows' = {r \in rows : <<r.cluster, r.actor>> # f} \cup
             {[cluster |-> f[1], actor |-> f[2], clip |-> c, rank |-> rank[c]] :
                c \in {d \in Files : label[d] = f[1] /\ ActorOf(d, config.pool) = f[2]}}
  /\ toWrite' = toWrite \ {f}
  /\ UNCHANGED <<input, phase, setup, toDedup, tables, counts, csv, runs>>

\* _dedup waits for all actors before the second phase.
Clustered ==
  /\ phase = "kmeans" /\ toWrite = {}
  /\ phase' = "dedup"
  /\ UNCHANGED <<input, setup, toWrite, rows, toDedup, tables, counts, csv, runs>>

RowsOf(k) == {r \in rows : r.cluster = k}

\* The orders that sort_values can give the rows: those of equal distance in any order.
Orders(k) ==
  {o \in Injection(RowsOf(k), 1..Cardinality(RowsOf(k))) :
     \A r, s \in RowsOf(k) : r.rank < s.rank => o[r] < o[s]}

\* mutant: the triangle that is left of the similarities holds the diagonal
MarkedWithDiagonal(k, order) ==
  {r \in RowsOf(k) : \E s \in RowsOf(k) : order[s] <= order[r] /\ Similar(r.clip, s.clip)}

\* The rows whose best match among the earlier ones reaches the threshold.
Marked(k, order) ==
  {r \in RowsOf(k) : \E s \in RowsOf(k) : order[s] < order[r] /\ Similar(r.clip, s.clip)}

\* SemDedupActor.dedup for one cluster; a cluster without files leaves its table alone
Dedup(k, order) ==
  /\ phase = "dedup" /\ k \in toDedup
  /\ order \in Orders(k)
  /\ toDedup' = toDedup \ {k}
  /\ IF RowsOf(k) = {}
     THEN UNCHANGED <<tables, counts>>
     ELSE /\ tables' = [tables EXCEPT ![k] =
                          [ids  |-> {r.clip : r \in RowsOf(k)},
                           dups |-> {r.clip : r \in Marked(k, order)}]]
          /\ counts' = [kept  |-> counts.kept + Cardinality(RowsOf(k) \ Marked(k, order)),
                        total |-> counts.total + Cardinality(RowsOf(k))]
  /\ UNCHANGED <<input, phase, setup, toWrite, rows, csv, runs>>

\* _reduce_and_write_summary
Summarise ==
  /\ phase = "dedup" /\ toDedup = {}
  /\ csv' = counts
  /\ phase' = "off"
  /\ UNCHANGED <<input, setup, toWrite, rows, toDedup, tables, counts, runs>>

\* The process, an actor or a write dies; what was written stays.
Dies ==
  /\ phase \in {"kmeans", "dedup"}
  /\ phase' = "off"
  /\ toWrite' = {} /\ toDedup' = {}
  /\ UNCHANGED <<input, setup, rows, tables, counts, csv, runs>>

Next ==
  \/ \E cfg \in Configs :
       \E labels \in [Clips -> 1..cfg.clusters], ranks \in Injection(Clips, Clips) :
         Run(cfg, labels, ranks)
  \/ DownloadFails
  \/ \E f \in toWrite : WriteShard(f)
  \/ Clustered
  \/ \E k \in toDedup : \E order \in Orders(k) : Dedup(k, order)
  \/ Summarise
  \/ Dies

Spec == Init /\ [][Next]_vars

-----------------------------------------------------------------------------
(* What the shard pipeline leaves out: filter_shard_tasks_by_semantic_dedup   *)
(* takes the marked ids of all tables it finds.                              *)

Removed == UNION {tables[k].dups : k \in 1..MaxClusters}

\* c is similar to d, directly or through others: every set with c that is closed under Similar
\* has d.
Joined(c, d) ==
  \A G \in SUBSET Clips :
    c \in G /\ (\A x \in G, y \in Clips : Similar(x, y) => y \in G) => d \in G

\* "for each position j only earlier rows i<j are considered" (dedup_actor.py:324): a clip
\* is left out of the dataset only if a clip it is similar to, directly or through
\* others, stays in.
GroupKept == \A c \in Removed : \E d \in chunks \ Removed : Joined(c, d)

\* The summary of the last run that ended agrees with what is left out of the dataset, and
\* counts every clip once, also when runs before or after it died half-way.
SummaryAgrees ==
  phase = "off" /\ csv.total > 0 =>
    csv.total = Cardinality(Files) /\ csv.total - csv.kept = Cardinality(Removed)

\* Both, of the runs over one configuration: what dedup, _reduce_and_write_summary and the filter
\* of the shard pipeline make of the clips of a dataset.
DedupSound == GroupKept /\ SummaryAgrees

=============================================================================
