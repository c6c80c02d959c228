---------------------------- MODULE ShardDataset ----------------------------
(* The shard pipeline (pipelines/video/sharding_pipeline.py): it takes the   *)
(* clips the split pipeline has described, leaves out those that the         *)
(* semantic deduplication has marked, groups the rest by bin and by size,    *)
(* and writes three archives for each group: the clips, the embeddings of    *)
(* their captions, and their metadata.  Groups are encoded and packed by     *)
(* several workers; at the end every bin gets a wdinfo.json and the dataset  *)
(* a list of them.  A run may die at any point and there is no restart: a    *)
(* second run refuses an output that is not empty.                           *)
EXTENDS Integers, Sequences, FiniteSets, FiniteSetsExt, SequencesExt

CONSTANTS N,         \* number of clips, in the order of their metadata files
          Bins,      \* bins of resolution, aspect ratio and length
          NoBin,     \* find_appropriate_bin found none, or the frame rate is not positive
          Metas,     \* what the metadata of a clip can say
          Target,    \* target_tar_size_mb, in units of the sizes in Metas
          MinClips,  \* min_clips_per_tar
          MaxTars,   \* max_tars_per_part
          MaxStarts  \* bound: starts of the pipeline

Clips == 1..N
Kinds == <<"video", "t5_xxl", "metas">>   \* in the order in which they are written

VARIABLES
  meta,      \* metadata of every clip: readable, valid, bin, size, captions of its windows
  excluded,  \* ids that the tables of the semantic deduplication name
  drop,      \* drop_small_shards
  progress,  \* "off", "run", "summary" or "refused"
  tasks,     \* the groups: bin, part, tar and clips
  bins,      \* all_bins, in the order of their first clip
  dropped,   \* num_dropped_samples
  stage,     \* how far each task is: 0 new, 1 encoded, 2 to 4 archives written
  windows,   \* t5_xxl_embeddings of a clip: the windows they were made from
  marked,    \* clips whose metadata in memory were set to valid = False
  tars,      \* archives on the store: kind, bin, part, tar, clips, windows
  infos,     \* wdinfo.json of the bins: bin, tars, keys
  listed,    \* does wdinfo_list.csv exist?
  starts

input  == <<meta, excluded, drop>>
work   == <<tasks, bins, dropped, stage, windows, marked>>
output == <<tars, infos, listed>>
vars   == <<input, progress, work, output, starts>>

Init ==
  /\ meta \in [Clips -> Metas] /\ excluded \in SUBSET Clips /\ drop \in BOOLEAN
  /\ progress = "off" /\ starts = 0
  /\ tasks = <<>> /\ bins = <<>> /\ dropped = 0 /\ stage = <<>>
  /\ windows = [c \in Clips |-> <<>>] /\ marked = {}
  /\ tars = {} /\ infos = {} /\ listed = FALSE

-----------------------------------------------------------------------------
(* Grouping                                                                  *)

\* _worker_read_clip_metadata and filter_shard_tasks_by_semantic_dedup
Samples == {c \in Clips : meta[c].readable /\ meta[c].valid /\ c \notin excluded}

Ascending(S) == CHOOSE q \in SetToSeqs(S) : \A i, k \in DOMAIN q : i < k => q[i] < q[k]

Binned(b) == Ascending({c \in Samples : meta[c].bin = b})

\* all_bins: the keys of a dictionary, in the order of their first sample
BinsInOrder ==
  CHOOSE q \in SetToSeqs({meta[c].bin : c \in Samples} \ {NoBin}) :
    \A i, k \in DOMAIN q : i < k => Head(Binned(q[i])) < Head(Binned(q[k]))

\* mutant: the sample that starts the next archive is forgotten
AddForgetting(a, c) ==
  IF a.out # <<>> /\ a.size + meta[c].size > Target
  THEN [done |-> Append(a.done, a.out), out |-> <<>>, size |-> 0]
  ELSE [a EXCEPT !.out = Append(@, c), !.size = @ + meta[c].size]

\* A group ends where the next sample would pass the target.
Add(a, c) ==
  IF a.out # <<>> /\ a.size + meta[c].size > Target
  THEN [done |-> Append(a.done, a.out), out |-> <<c>>, size |-> meta[c].size]
  ELSE [a EXCEPT !.out = Append(@, c), !.size = @ + meta[c].size]

\* _group_samples_by_size
GroupBySize(samples) ==
  LET added[n \in 0 .. Len(samples)] ==
        IF n = 0 THEN [done |-> <<>>, out |-> <<>>, size |-> 0] ELSE Add(added[n - 1], samples[n])
      end == added[Len(samples)]
  IN  IF end.out # <<>> /\ ~ (drop /\ Len(end.out) < MinClips) THEN Append(end.done, end.out)
                                                              ELSE end.done

\* Parts that exist are not written to: numbers go on after the last one.
FirstPart(b) == Max({-1} \cup {t.part : t \in {u \in tars : u.bin = b /\ u.kind = "video"}}) + 1

TasksOf(b) ==
  LET groups == GroupBySize(Binned(b))
  IN  [g \in 1..Len(groups) |->
         [bin |-> b, part |-> FirstPart(b) + (g - 1) \div MaxTars, tar |-> (g - 1) % MaxTars,
          clips |-> groups[g]]]

Grouped == FlattenSeq([i \in 1..Len(BinsInOrder) |-> TasksOf(BinsInOrder[i])])

\* _shard up to run_pipeline; extract_shard_tasks refuses an output that holds anything
Start ==
  /\ progress = "off" /\ starts < MaxStarts
  /\ starts' = starts + 1
  /\ IF tars # {} \/ infos # {} \/ listed
     THEN progress' = "refused" /\ UNCHANGED work
     ELSE /\ tasks' = Grouped /\ bins' = BinsInOrder
          /\ dropped' = Len(Binned(NoBin))
          /\ stage' = [i \in 1..Len(Grouped) |-> 0]
          /\ windows' = [c \in Clips |-> <<>>] /\ marked' = {}
          /\ progress' = IF Grouped = <<>> THEN "off" ELSE "run"
  /\ UNCHANGED <<input, output>>

-----------------------------------------------------------------------------
(* The stages                                                                *)

\* the windows of a clip that have a caption
Captioned(c) == Ascending({w \in 1..Len(meta[c].captions) : meta[c].captions[w]})

Uncaptioned(i) == {c \in ToSet(tasks[i].clips) : Captioned(c) # [w \in 1..Len(meta[c].captions) |-> w]}

\* the assertion of T5StageForShard: the n-th embedding is the one of window n
Asserted(i) == \A c \in ToSet(tasks[i].clips) :
                 \A n \in 1..Len(Captioned(c)) : Captioned(c)[n] = n

\* mutant: the assertion is gone
EncodeUnchecked(i) ==
  /\ progress = "run" /\ stage[i] = 0
  /\ windows' = [c \in Clips |-> IF Contains(tasks[i].clips, c) THEN Captioned(c) ELSE windows[c]]
  /\ marked' = marked \cup Uncaptioned(i)
  /\ stage' = [stage EXCEPT ![i] = 1]
  /\ UNCHANGED <<input, progress, tasks, bins, dropped, output, starts>>

\* T5StageForShard.process_data.  A clip with a window that has no caption is marked in
\* memory, and stays in its group.
Encode(i) ==
  /\ progress = "run" /\ stage[i] = 0 /\ Asserted(i)
  /\ windows' = [c \in Clips |-> IF Contains(tasks[i].clips, c) THEN Captioned(c) ELSE windows[c]]
  /\ marked' = marked \cup Uncaptioned(i)
  /\ stage' = [stage EXCEPT ![i] = 1]
  /\ UNCHANGED <<input, progress, tasks, bins, dropped, output, starts>>

\* The exception ends the pipeline.
EncodeFails(i) ==
  /\ progress = "run" /\ stage[i] = 0 /\ ~Asserted(i)
  /\ progress' = "off"
  /\ UNCHANGED <<input, work, output, starts>>

SameName(t, u) == t.kind = u.kind /\ t.bin = u.bin /\ t.part = u.part /\ t.tar = u.tar

\* DownloadPackUpload.process_data writes one archive after the other; write_bytes skips
\* one that exists.
WriteTar(i) ==
  /\ progress = "run" /\ stage[i] \in 1..3
  /\ LET t == [kind |-> Kinds[stage[i]], bin |-> tasks[i].bin, part |-> tasks[i].part,
               tar |-> tasks[i].tar, clips |-> tasks[i].clips,
               windows |-> [n \in 1..Len(tasks[i].clips) |-> windows[tasks[i].clips[n]]],
               marked |-> marked \cap ToSet(tasks[i].clips)]
     IN  tars' = IF \E u \in tars : SameName(t, u) THEN tars ELSE tars \cup {t}
  /\ stage' = [stage EXCEPT ![i] = @ + 1]
  /\ UNCHANGED <<input, progress, tasks, bins, dropped, windows, marked, infos, listed, starts>>

\* run_pipeline returns when every task has been through both stages.
Packed ==
  /\ progress = "run" /\ \A i \in 1..Len(tasks) : stage[i] = 4
  /\ progress' = "summary"
  /\ UNCHANGED <<input, work, output, starts>>

-----------------------------------------------------------------------------
(* write_shard_summary                                                       *)

\* key_count of a task: the clips it packed
Keys(b) ==
  LET count[i \in 0 .. Len(tasks)] ==
        IF i = 0 THEN 0 ELSE count[i - 1] + IF tasks[i].bin = b THEN Len(tasks[i].clips) ELSE 0
  IN  count[Len(tasks)]

InTasks(b) == \E i \in 1..Len(tasks) : tasks[i].bin = b

WriteInfo ==
  /\ progress = "summary" /\ bins # <<>> /\ InTasks(Head(bins))
  /\ infos' = infos \cup {[bin |-> Head(bins), keys |-> Keys(Head(bins)),
                           list |-> {<<t.part, t.tar>> : t \in {u \in tars : u.bin = Head(bins) /\ u.kind = "video"}}]}
  /\ bins' = Tail(bins)
  /\ UNCHANGED <<input, progress, tasks, dropped, stage, windows, marked, tars, listed, starts>>

\* KeyError: the only group of the bin was dropped.
NoSuchBin ==
  /\ progress = "summary" /\ bins # <<>> /\ ~InTasks(Head(bins))
  /\ progress' = "off"
  /\ UNCHANGED <<input, work, output, starts>>

WriteList ==
  /\ progress = "summary" /\ bins = <<>>
  /\ listed' = TRUE
  /\ progress' = "off"
  /\ UNCHANGED <<input, work, tars, infos, starts>>

\* A download, a write or the process fails; what was written stays.
Dies ==
  /\ progress \in {"run", "summary"}
  /\ progress' = "off"
  /\ UNCHANGED <<input, work, output, starts>>

Next ==
  \/ Start
  \/ \E i \in 1..Len(tasks) : Encode(i) \/ EncodeFails(i) \/ WriteTar(i)
  \/ Packed \/ WriteInfo \/ NoSuchBin \/ WriteList
  \/ Dies

Spec == Init /\ [][Next]_vars

-----------------------------------------------------------------------------
(* Properties                                                                *)

Wanted == {c \in Samples : meta[c].bin # NoBin}

In(kind, c) == {t \in tars : t.kind = kind /\ Contains(t.clips, c)}

\* Once the list of the dataset exists, each clip that was wanted is in exactly one archive
\* of each kind, under the same name; only with drop_small_shards may the last group of a bin
\* be missing, and it is a small one.  No other clip is in the dataset, and what wdinfo.json
\* says of a bin is what its archives hold.
ShardsComplete ==
  listed =>
    /\ \A k \in ToSet(Kinds), c \in Clips : Cardinality(In(k, c)) <= IF c \in Wanted THEN 1 ELSE 0
    /\ \A k \in ToSet(Kinds) : \A v \in tars : v.kind = "video" =>
         \E t \in tars : t.kind = k /\ t.bin = v.bin /\ t.part = v.part /\ t.tar = v.tar /\ t.clips = v.clips
    /\ \A b \in Bins :
         LET missing == {c \in Wanted : meta[c].bin = b /\ In("video", c) = {}}
         IN  /\ missing # {} => drop /\ Cardinality(missing) < MinClips
             /\ \A c \in missing, d \in Wanted \ missing : meta[d].bin = b => d < c
    /\ \A b \in Bins, info \in infos : info.bin = b =>
         /\ info.keys = Cardinality({c \in Clips : \E t \in In("video", c) : t.bin = b})
         /\ info.list = {<<t.part, t.tar>> : t \in {u \in tars : u.bin = b /\ u.kind = "video"}}
    /\ {info.bin : info \in infos} = {t.bin : t \in tars}

\* In an archive of embeddings the n-th one of a clip is the one of its n-th window, whichever
\* captions are missing: a reader pairs them by position.
EmbeddingsAligned ==
  \A t \in tars : t.kind = "t5_xxl" =>
    \A c \in 1..Len(t.clips) : \A n \in 1..Len(t.windows[c]) : t.windows[c][n] = n

\* The promises of the shard pipeline: what is listed is there, and in its place.
ShardsSound == ShardsComplete /\ EmbeddingsAligned
=============================================================================
