------------------------- MODULE SplitOutput_proofs -------------------------
(***************************************************************************)
(* How the split pipeline begins and ends.  The writer and the driver, for *)
(* every set of videos and chunks and any number of retries, failures and  *)
(* crashes: the type invariant, that a completion record follows the clip  *)
(* files, and that the consolidation loses no fragments and appends no     *)
(* archived ones.  The cutting of a video, for any frames, command line    *)
(* and size of a batch: nothing is lost, torn or captioned twice.  The     *)
(* comparison of two outputs, for any two: a report says what is the same. *)
(* And the cameras sampled along a timeline, for any frames and timeline:  *)
(* each row holds the nearest frame of its timestamp.                      *)
(***************************************************************************)
EXTENDS SplitOutput, VideoCuts, ComparedOutputs, SampledCameras, SequenceLemmas

-----------------------------------------------------------------------------
(* The inductive invariant.                                                *)

\* The clip files of a chunk were all written, whole or over torn ones.
ClipsWritten(c) == clips[c] = "whole" \/ (~remote /\ clips[c] = "torn")

\* Only a local disk has torn files, and the writer goes on to the records
\* only with the clip files behind it.
ClipsInv ==
  \A c \in Chunks :
    /\ clips[c] = "torn" => ~remote
    /\ task[c] = "tail" => ClipsWritten(c)
    /\ chunkMark[c] # "absent" => ClipsWritten(c)

\* Where the fragments of a chunk are while the run goes on: on their way to
\* a sidecar, staged, in the batch, and then in the dataset.
FragmentsOf(c) ==
  /\ run = "running" /\ task[c] = "tail" =>
       "lance" \in pending[c] \/ raised[c] \/ c \in sidecar
  /\ run = "running" /\ task[c] = "done" => c \in sidecar
  /\ run = "listed" /\ task[c] = "done" => c \in batch \cup archived
  /\ run \in {"committed", "done"} /\ task[c] = "done" => dataset[c] > 0

LanceInv ==
  /\ \A c \in archived : dataset[c] > 0
  /\ run = "listed" => batch \cap archived = {}
  /\ run = "committed" => \A c \in batch : dataset[c] > 0
  /\ \A c \in Chunks : FragmentsOf(c)

IInv == TypeOK /\ ClipsInv /\ LanceInv
-----------------------------------------------------------------------------
(* Steps preserve the invariant.                                           *)

\* A raise of process_data keeps the types of what it changes.
LEMMA AttemptTypes ==
  ASSUME TypeOK, NEW c \in Chunks, AttemptFails(c)
  PROVE  /\ run' \in {"down", "running", "listed", "committed", "done"}
         /\ batch' \subseteq Chunks
         /\ task' \in [Chunks -> {"none", "queued", "clips", "tail", "done"}]
         /\ attempt' \in [Chunks -> 0 .. MaxAttempts]
         /\ pending' \in [Chunks -> SUBSET {"video", "chunk", "parquet", "lance"}]
         /\ raised' \in [Chunks -> BOOLEAN]
         /\ erred' \in [Chunks -> BOOLEAN]
<1> USE OutputAssumption DEF TypeOK
<1>1. CASE attempt[c] < MaxAttempts
  <2>1. attempt[c] + 1 \in 0 .. MaxAttempts
    <3>1. attempt[c] \in Nat /\ MaxAttempts \in Nat
      OBVIOUS
    <3> QED
      BY <1>1, <3>1
  <2>2. /\ task' = [task EXCEPT ![c] = "clips"]
        /\ attempt' = [attempt EXCEPT ![c] = @ + 1]
        /\ raised' = [raised EXCEPT ![c] = FALSE]
        /\ UNCHANGED <<run, batch, pending, erred>>
    BY <1>1 DEF AttemptFails, driver
  <2>3. attempt' \in [Chunks -> 0 .. MaxAttempts]
    BY <2>1, <2>2
  <2>4. raised' \in [Chunks -> BOOLEAN]
    BY <2>2
  <2>5. task' \in [Chunks -> {"none", "queued", "clips", "tail", "done"}]
    BY <2>2
  <2> QED
    BY <2>2, <2>3, <2>4, <2>5
<1>2. CASE ~(attempt[c] < MaxAttempts)
  <2>1. Down
    BY <1>2 DEF AttemptFails
  <2>2. 0 \in 0 .. MaxAttempts
    OBVIOUS
  <2> QED
    BY <2>1, <2>2 DEF Down
<1> QED
  BY <1>1, <1>2

\* Every step keeps the types: the retries of process_data stay within
\* num_run_attempts.
LEMMA TypeStep ==
  ASSUME TypeOK, [Next]_vars
  PROVE  TypeOK'
<1> USE OutputAssumption DEF TypeOK, File
<1>1. CASE Start
  BY <1>1
  DEF Start, marks, lance
<1>2. CASE ListSidecars
  BY <1>2
  DEF ListSidecars, AllDone, marks, lance, taskVars
<1>3. CASE CommitFragments
  BY <1>3
  DEF CommitFragments, marks, taskVars
<1>4. ASSUME NEW c \in Chunks, Take(c)
      PROVE  TypeOK'
  BY <1>4
  DEF Take, marks, lance, driver
<1>5. ASSUME NEW c \in Chunks, WriteClips(c)
      PROVE  TypeOK'
  BY <1>5
  DEF WriteClips, Kept, TailOf, marks, lance, driver
<1>6. ASSUME NEW c \in Chunks, TailEnds(c)
      PROVE  TypeOK'
  <2>1. CASE raised[c]
    BY <1>6, <2>1, AttemptTypes DEF TailEnds, marks, lance
  <2>2. CASE ~raised[c]
    BY <1>6, <2>2 DEF TailEnds, marks, lance, driver
  <2> QED
    BY <2>1, <2>2
<1>7. ASSUME NEW c \in Chunks, WriteVideoMark(c)
      PROVE  TypeOK'
  BY <1>7
  DEF WriteVideoMark, InTail, Finished, Kept, lance, driver
<1>8. ASSUME NEW c \in Chunks, WriteChunkMark(c)
      PROVE  TypeOK'
  BY <1>8
  DEF WriteChunkMark, InTail, Finished, Kept, lance, driver
<1>9. ASSUME NEW c \in Chunks, WriteParquet(c)
      PROVE  TypeOK'
  BY <1>9
  DEF WriteParquet, InTail, Finished, marks, lance, driver
<1>10. ASSUME NEW c \in Chunks, WriteSidecar(c)
      PROVE  TypeOK'
  BY <1>10
  DEF WriteSidecar, InTail, Finished, marks, driver
<1>11. ASSUME NEW c \in Chunks, ArchiveSidecar(c)
      PROVE  TypeOK'
  BY <1>11
  DEF ArchiveSidecar, marks, driver, taskVars
<1>12. ASSUME NEW c \in Chunks, DeleteSidecar(c)
      PROVE  TypeOK'
  BY <1>12
  DEF DeleteSidecar, marks, taskVars
<1>13. ASSUME NEW c \in Chunks, ClipsFail(c)
      PROVE  TypeOK'
  BY <1>13, AttemptTypes
  DEF ClipsFail, marks, lance
<1>14. ASSUME NEW c \in Chunks, NEW item \in pending[c], TailFails(c, item)
      PROVE  TypeOK'
  BY <1>14
  DEF TailFails, InTail, marks, lance, driver
<1>15. CASE Crash
  BY <1>15
  DEF Crash, Down, lance
<1>16. CASE UNCHANGED vars
  BY <1>16 DEF vars
<1> QED
  BY <1>1, <1>2, <1>3, <1>4, <1>5, <1>6, <1>7, <1>8,
     <1>9, <1>10, <1>11, <1>12, <1>13, <1>14, <1>15, <1>16
  DEF Next, Progress, Work

\* A record appears only behind the clip files, and nothing removes those.
LEMMA ClipsStep ==
  ASSUME TypeOK, ClipsInv, [Next]_vars
  PROVE  ClipsInv'
<1> USE DEF ClipsInv, ClipsWritten
<1>1. CASE Start
  BY <1>1
  DEF TypeOK, File, Start, marks, lance
<1>2. CASE ListSidecars
  BY <1>2
  DEF TypeOK, File, ListSidecars, AllDone, marks, lance, taskVars
<1>3. CASE CommitFragments
  BY <1>3
  DEF TypeOK, File, CommitFragments, marks, taskVars
<1>4. ASSUME NEW c \in Chunks, Take(c)
      PROVE  ClipsInv'
  BY <1>4
  DEF TypeOK, File, Take, marks, lance, driver
<1>5. ASSUME NEW c \in Chunks, WriteClips(c)
      PROVE  ClipsInv'
  BY <1>5
  DEF TypeOK, File, WriteClips, Kept, TailOf, marks, lance, driver
<1>6. ASSUME NEW c \in Chunks, TailEnds(c)
      PROVE  ClipsInv'
  BY <1>6
  DEF TypeOK, File, TailEnds, AttemptFails, Down, marks, lance, driver
<1>7. ASSUME NEW c \in Chunks, WriteVideoMark(c)
      PROVE  ClipsInv'
  BY <1>7
  DEF TypeOK, File, WriteVideoMark, InTail, Finished, Kept, lance, driver
<1>8. ASSUME NEW c \in Chunks, WriteChunkMark(c)
      PROVE  ClipsInv'
  BY <1>8
  DEF TypeOK, File, WriteChunkMark, InTail, Finished, Kept, lance, driver
<1>9. ASSUME NEW c \in Chunks, WriteParquet(c)
      PROVE  ClipsInv'
  BY <1>9
  DEF TypeOK, File, WriteParquet, InTail, Finished, marks, lance, driver
<1>10. ASSUME NEW c \in Chunks, WriteSidecar(c)
      PROVE  ClipsInv'
  BY <1>10
  DEF TypeOK, File, WriteSidecar, InTail, Finished, marks, driver
<1>11. ASSUME NEW c \in Chunks, ArchiveSidecar(c)
      PROVE  ClipsInv'
  BY <1>11
  DEF TypeOK, File, ArchiveSidecar, marks, driver, taskVars
<1>12. ASSUME NEW c \in Chunks, DeleteSidecar(c)
      PROVE  ClipsInv'
  BY <1>12
  DEF TypeOK, File, DeleteSidecar, marks, taskVars
<1>13. ASSUME NEW c \in Chunks, ClipsFail(c)
      PROVE  ClipsInv'
  BY <1>13
  DEF TypeOK, File, ClipsFail, AttemptFails, Down, marks, lance, driver
<1>14. ASSUME NEW c \in Chunks, NEW item \in pending[c], TailFails(c, item)
      PROVE  ClipsInv'
  BY <1>14
  DEF TypeOK, File, TailFails, InTail, marks, lance, driver
<1>15. CASE Crash
  <2> SUFFICES ASSUME NEW c \in Chunks
               PROVE  /\ clips'[c] = "torn" => ~remote'
                      /\ task'[c] = "tail" => ClipsWritten(c)'
                      /\ chunkMark'[c] # "absent" => ClipsWritten(c)'
    OBVIOUS
  <2>1. remote' = remote /\ task'[c] = "none"
    BY <1>15 DEF Crash, Down
  <2>2. clips'[c] \in Torn(clips[c], task[c] = "clips")
    BY <1>15 DEF Crash
  <2>3. chunkMark'[c] \in Torn(chunkMark[c], Writing(c, "chunk"))
    BY <1>15 DEF Crash
  <2>4. /\ clips'[c] = "torn" => ~remote
        /\ ClipsWritten(c) => ClipsWritten(c)'
    BY <2>1, <2>2 DEF Torn
  <2>5. chunkMark'[c] # "absent" => chunkMark[c] # "absent" \/ task[c] = "tail"
    BY <2>3 DEF Torn, Writing
  <2> QED
    BY <2>1, <2>4, <2>5
<1>16. CASE UNCHANGED vars
  BY <1>16 DEF TypeOK, File, vars
<1> QED
  BY <1>1, <1>2, <1>3, <1>4, <1>5, <1>6, <1>7, <1>8,
     <1>9, <1>10, <1>11, <1>12, <1>13, <1>14, <1>15, <1>16
  DEF Next, Progress, Work

\* Fragments move from the writer over the sidecar and the batch to the
\* dataset, and are archived last.
LEMMA LanceStep ==
  ASSUME TypeOK, LanceInv, [Next]_vars
  PROVE  LanceInv'
<1> USE DEF LanceInv, FragmentsOf
<1>1. CASE Start
  BY <1>1
  DEF TypeOK, Start, marks, lance
<1>2. CASE ListSidecars
  BY <1>2
  DEF TypeOK, ListSidecars, AllDone, marks, lance, taskVars
<1>3. CASE CommitFragments
  BY <1>3
  DEF TypeOK, CommitFragments, marks, taskVars
<1>4. ASSUME NEW c \in Chunks, Take(c)
      PROVE  LanceInv'
  BY <1>4
  DEF TypeOK, Take, marks, lance, driver
<1>5. ASSUME NEW c \in Chunks, WriteClips(c)
      PROVE  LanceInv'
  BY <1>5
  DEF TypeOK, WriteClips, Kept, TailOf, marks, lance, driver
<1>6. ASSUME NEW c \in Chunks, TailEnds(c)
      PROVE  LanceInv'
  BY <1>6
  DEF TypeOK, TailEnds, AttemptFails, Down, marks, lance, driver
<1>7. ASSUME NEW c \in Chunks, WriteVideoMark(c)
      PROVE  LanceInv'
  BY <1>7
  DEF TypeOK, WriteVideoMark, InTail, Finished, Kept, lance, driver
<1>8. ASSUME NEW c \in Chunks, WriteChunkMark(c)
      PROVE  LanceInv'
  BY <1>8
  DEF TypeOK, WriteChunkMark, InTail, Finished, Kept, lance, driver
<1>9. ASSUME NEW c \in Chunks, WriteParquet(c)
      PROVE  LanceInv'
  BY <1>9
  DEF TypeOK, WriteParquet, InTail, Finished, marks, lance, driver
<1>10. ASSUME NEW c \in Chunks, WriteSidecar(c)
      PROVE  LanceInv'
  BY <1>10
  DEF TypeOK, WriteSidecar, InTail, Finished, marks, driver
<1>11. ASSUME NEW c \in Chunks, ArchiveSidecar(c)
      PROVE  LanceInv'
  BY <1>11
  DEF TypeOK, ArchiveSidecar, marks, driver, taskVars
<1>12. ASSUME NEW c \in Chunks, DeleteSidecar(c)
      PROVE  LanceInv'
  BY <1>12
  DEF TypeOK, DeleteSidecar, marks, taskVars
<1>13. ASSUME NEW c \in Chunks, ClipsFail(c)
      PROVE  LanceInv'
  BY <1>13
  DEF TypeOK, ClipsFail, AttemptFails, Down, marks, lance, driver
<1>14. ASSUME NEW c \in Chunks, NEW item \in pending[c], TailFails(c, item)
      PROVE  LanceInv'
  BY <1>14
  DEF TypeOK, TailFails, InTail, marks, lance, driver
<1>15. CASE Crash
  BY <1>15
  DEF TypeOK, Crash, Down, lance
<1>16. CASE UNCHANGED vars
  BY <1>16 DEF TypeOK, vars
<1> QED
  BY <1>1, <1>2, <1>3, <1>4, <1>5, <1>6, <1>7, <1>8,
     <1>9, <1>10, <1>11, <1>12, <1>13, <1>14, <1>15, <1>16
  DEF Next, Progress, Work

\* The invariant is inductive and holds from the start.
LEMMA IInvAlways == Spec => []IInv
<1>1. Init => IInv
  <2> SUFFICES ASSUME Init PROVE IInv
    OBVIOUS
  <2>1. TypeOK
    BY OutputAssumption DEF Init, TypeOK, File
  <2>2. ClipsInv
    BY DEF Init, ClipsInv, ClipsWritten
  <2>3. LanceInv
    BY DEF Init, LanceInv, FragmentsOf
  <2> QED
    BY <2>1, <2>2, <2>3 DEF IInv
<1>2. IInv /\ [Next]_vars => IInv'
  BY TypeStep, ClipsStep, LanceStep DEF IInv
<1> QED
  BY <1>1, <1>2, PTL DEF Spec

-----------------------------------------------------------------------------
(* The theorems.                                                           *)

\* The variables keep their types, and process_data is called at most
\* num_run_attempts times per task.
THEOREM Typing == Spec => []TypeOK
<1>1. IInv => TypeOK
  BY DEF IInv
<1> QED
  BY <1>1, IInvAlways, PTL

\* A chunk with a completion record has all its clip files: the barrier of
\* _process_video holds over failures, retries, crashes and restarts.
THEOREM RecordsFollowClips == Spec => []MarkedAfterClips
<1>1. IInv => MarkedAfterClips
  BY DEF IInv, ClipsInv, ClipsWritten, MarkedAfterClips
<1> QED
  BY <1>1, IInvAlways, PTL

\* No fragment is archived before it is in the dataset, and a run that ends
\* has every chunk it wrote in the dataset.
THEOREM NoFragmentLost == Spec => []DatasetComplete
<1>1. IInv => DatasetComplete
  BY DEF IInv, LanceInv, FragmentsOf, TypeOK, DatasetComplete
<1> QED
  BY <1>1, IInvAlways, PTL

\* The look at the processed sidecars keeps a chunk that is written again
\* from being appended again once it was archived.
THEOREM ArchivedOnce == Spec => ArchivedNotAppended
<1>1. ASSUME IInv, [Next]_vars, NEW c \in archived
      PROVE  dataset'[c] = dataset[c]
  <2>1. CASE CommitFragments
    BY <1>1, <2>1 DEF IInv, LanceInv, TypeOK, CommitFragments
  <2>2. CASE UNCHANGED dataset
    BY <2>2
  <2>3. CommitFragments \/ UNCHANGED dataset
    BY <1>1
    DEF Next, Progress, Work, vars, lance, Start, ListSidecars, Take, WriteClips,
        TailEnds, WriteVideoMark, WriteChunkMark, WriteParquet, WriteSidecar,
        ArchiveSidecar, DeleteSidecar, ClipsFail, TailFails, Crash
  <2> QED
    BY <2>1, <2>2, <2>3
<1>2. IInv /\ [Next]_vars => [\A c \in archived : dataset'[c] = dataset[c]]_vars
  BY <1>1
<1> QED
  BY <1>2, IInvAlways, PTL DEF Spec, ArchivedNotAppended

-----------------------------------------------------------------------------
(* VideoCuts                                                               *)

CutTypes ==
  /\ options \in CutOptions /\ total \in 1 .. MaxFrames
  /\ cuts \in [0 .. (total - 1) -> {0, 1}]
  /\ pc \in {"predict", "scenes", "cut", "spans", "windows"}
  /\ pc \in {"predict", "scenes", "cut"} => options.split = "transnet"
  /\ pc = "spans" => options.split = "stride"
  /\ predictions \in Seq({0, 1}) /\ Len(predictions) <= total
  /\ i \in 0 .. total /\ start \in 0 .. total /\ t \in {-1, 0, 1} /\ tPrev \in {0, 1}
  /\ current \in Nat
  /\ scenes \in Seq(Nat \X Nat) /\ spans \in Seq(Nat \X Nat)
  /\ windows \in Seq({compute_windows(n, options.size, options.threshold) : n \in Nat})

Lined(ss)  == \A j, k \in 1 .. Len(ss) : j < k => ss[j][2] <= ss[k][1]
Inside(ss) == \A k \in 1 .. Len(ss) : ss[k][1] <= ss[k][2] /\ ss[k][2] <= total
Clean(s)   == \A f \in 0 .. (total - 1) : Holds(s, f) => cuts[f] = 0
Held(ss, f) == \E k \in 1 .. Len(ss) : Holds(ss[k], f)

\* The loop of _get_scenes has seen i frames; the scene at hand began at start.
ScanInv ==
  /\ pc = "predict" => i = 0 /\ Len(predictions) < total
  /\ pc \in {"scenes", "cut"} => Len(predictions) = total
  /\ pc \in {"predict", "scenes"} =>
       /\ spans = <<>> /\ start <= i
       /\ i = 0 => tPrev = 0 /\ start = 0 /\ scenes = <<>>
       /\ i > 0 => t = tPrev /\ tPrev = cuts[i - 1]
       /\ tPrev = 0 => (i > 0 => start < i) /\ \A f \in start .. (i - 1) : cuts[f] = 0
       /\ Lined(scenes) /\ Inside(scenes)
       /\ \A k \in 1 .. Len(scenes) :
            scenes[k][2] <= i /\ (tPrev = 0 => scenes[k][2] <= start) /\ Clean(scenes[k])
       /\ \A f \in 0 .. (i - 1) : cuts[f] = 0 => (tPrev = 0 /\ start <= f) \/ Held(scenes, f)
       /\ scenes = <<>> => \A f \in 1 .. (i - 1) : ~ (cuts[f - 1] = 0 /\ cuts[f] = 1)

\* What is left of the scenes lies behind the clips.
SceneInv ==
  pc = "cut" =>
    /\ Lined(scenes) /\ Inside(scenes)
    /\ Detected => \A k \in 1 .. Len(scenes) : Clean(scenes[k])
    /\ scenes # <<>> =>
         /\ scenes[1][1] <= current /\ current <= scenes[1][2]
         /\ options.max = 0 \/ options.mode = "truncate" => current = scenes[1][1]
         /\ \A k \in 1 .. Len(spans) : spans[k][2] <= current

KeepsScenes ==
  /\ options.min = 0 /\ options.crop = 0 /\ (options.max = 0 \/ options.mode = "stride")
  /\ Detected \/ options.entire

KeepsSpans == options.min <= 1 /\ options.stride <= options.len

\* What has to be kept is in a clip, or still to be cut.
CoverInv ==
  /\ pc = "cut" /\ KeepsScenes =>
       \A f \in 0 .. (total - 2) : cuts[f] = 0 =>
         \/ Held(spans, f)
         \/ \E k \in 1 .. Len(scenes) : Holds(scenes[k], f) /\ (k = 1 => current <= f)
  /\ pc = "spans" /\ KeepsSpans => \A f \in 0 .. (total - 1) : f < current => Held(spans, f)

WindowInv ==
  /\ pc # "windows" => windows = <<>>
  /\ Len(windows) <= Len(spans)
  /\ \A k \in 1 .. Len(windows) :
       windows[k] = compute_windows(Length(spans[k]), options.size, options.threshold)

CutsInv == CutTypes /\ Predicted /\ ScanInv /\ SceneInv /\ ClipsSound /\ CoverInv /\ NothingLost /\ WindowInv

LEMMA CutConstants ==
  /\ MaxFrames \in Nat \ {0} /\ Half \in Nat \ {0} /\ WINDOW_MIN_FRAMES \in Nat \ {0}
  /\ \A o \in CutOptions :
       /\ o.split \in {"transnet", "stride"} /\ o.mode \in {"truncate", "stride"} /\ o.entire \in BOOLEAN
       /\ o.max \in Nat /\ o.min \in Nat /\ o.crop \in Nat /\ o.limit \in Nat
       /\ o.len \in Nat \ {0} /\ o.stride \in Nat \ {0} /\ o.size \in Nat \ {0} /\ o.threshold \in Nat \ {0}
  BY CutsAssumption

LEMMA WindowsTile ==
  ASSUME NEW n \in Nat, NEW size \in Nat \ {0}, NEW threshold \in Nat \ {0}
  PROVE  Tiles(compute_windows(n, size, threshold), n, size, threshold)
<1>0. WINDOW_MIN_FRAMES \in Nat \ {0}
  BY CutConstants
<1>1. CASE n < WINDOW_MIN_FRAMES
  BY <1>1 DEF Tiles, compute_windows
<1>2. CASE ~ (n < WINDOW_MIN_FRAMES) /\ n <= size
  <2>1. compute_windows(n, size, threshold) = << <<0, n - 1>> >>
    BY <1>2 DEF compute_windows
  <2> QED
    BY <1>0, <1>2, <2>1 DEF Tiles, Length, Least
<1>3. CASE ~ (n < WINDOW_MIN_FRAMES) /\ n > size
  <2>0. PICK full \in Nat, rest \in 0 .. (size - 1) :
          n \div size = full /\ n % size = rest /\ n = full * size + rest /\ (n > size => full >= 1)
    BY Division
  <2> DEFINE count == IF rest >= threshold THEN full + 1 ELSE full
             ws    == [k \in 1 .. count |-> <<(k - 1) * size, IF k = count THEN n - 1 ELSE k * size - 1>>]
  <2>1. compute_windows(n, size, threshold) = ws
    <3> DEFINE c == IF n % size >= threshold THEN n \div size + 1 ELSE n \div size
    <3>1. compute_windows(n, size, threshold) =
            [k \in 1 .. c |-> <<(k - 1) * size, IF k = c THEN n - 1 ELSE k * size - 1>>]
      BY <1>0, <1>3 DEF compute_windows
    <3>2. n \div size = full /\ n % size = rest
      BY <2>0
    <3>3. c = count
      BY <3>2, Zenon
    <3> HIDE DEF c, count
    <3> QED
      BY <3>1, <3>3, Zenon
  <2>2. full \in Nat /\ full >= 1 /\ rest \in 0 .. (size - 1) /\ n = full * size + rest
    BY <1>3, <2>0
  <2>3. count \in Nat \ {0} /\ Len(ws) = count /\ DOMAIN ws = 1 .. count
    BY <2>2
  <2>4. \A k \in 1 .. count :
          ws[k][1] = (k - 1) * size /\ ws[k][2] = (IF k = count THEN n - 1 ELSE k * size - 1)
    OBVIOUS
  <2>5. \A k \in Int : k * size \in Int /\ (k - 1) * size = k * size - size
    OBVIOUS
  <2>6. (count - 1) * size = IF rest >= threshold THEN full * size ELSE full * size - size
    BY <2>2, <2>5
  <2>7. full * size \in Int
    BY <2>2
  <2>8. ws[count][1] <= ws[count][2] /\ ws[count][2] = n - 1
    BY <2>2, <2>3, <2>4, <2>6, <2>7
  <2>9. Length(ws[count]) + 1 < size + threshold /\ Length(ws[count]) + 1 >= Least(threshold, size)
    BY <2>2, <2>3, <2>4, <2>6, <2>7 DEF Length, Least
  <2>10. ASSUME NEW k \in 1 .. count, k < count
         PROVE  ws[k][1] <= ws[k][2] /\ ws[k + 1][1] = ws[k][2] + 1 /\ Length(ws[k]) + 1 = size
    <3>1. k + 1 \in 1 .. count /\ k \in Int /\ (k + 1) - 1 = k
      BY <2>3, <2>10
    <3>2. PICK p \in Int : p = k * size
      BY <3>1
    <3>3. ws[k][1] = p - size /\ ws[k][2] = p - 1
      BY <2>4, <2>5, <2>10, <3>1, <3>2
    <3>4. ws[k + 1][1] = p
      BY <2>4, <3>1, <3>2
    <3>5. Length(ws[k]) = (p - 1) - (p - size)
      BY <3>3 DEF Length
    <3> HIDE DEF ws
    <3> QED
      BY <3>3, <3>4, <3>5
  <2>11. ws[1][1] = 0 /\ ws # <<>>
    <3>1. 1 \in 1 .. count /\ (1 - 1) * size = 0
      BY <2>3
    <3>2. ws[1][1] = (1 - 1) * size
      BY <2>4, <3>1
    <3> QED
      BY <2>3, <3>1, <3>2
  <2> HIDE DEF ws, count
  <2>12. \A k \in 1 .. Len(ws) :
            /\ ws[k][1] <= ws[k][2]
            /\ k < Len(ws) => ws[k + 1][1] = ws[k][2] + 1 /\ Length(ws[k]) + 1 = size
    BY <2>3, <2>8, <2>10
  <2> QED
    BY <1>3, <2>1, <2>3, <2>8, <2>9, <2>11, <2>12 DEF Tiles
<1> QED
  BY <1>0, <1>1, <1>2, <1>3

LEMMA CutsStart == CutInit => CutsInv
<1> SUFFICES ASSUME CutInit PROVE CutsInv
  OBVIOUS
<1> USE DEF CutInit
<1>0. MaxFrames \in Nat /\ options \in CutOptions /\ options.split \in {"transnet", "stride"}
      /\ total \in 1 .. MaxFrames /\ total \in Nat
  BY CutConstants
<1>1. cuts \in [0 .. (total - 1) -> {0, 1}]
  BY <1>0
<1>2. CutTypes
  BY <1>0, <1>1 DEF CutTypes
<1>3. Predicted /\ ScanInv /\ SceneInv
  BY <1>0 DEF Predicted, ScanInv, SceneInv, Lined, Inside
<1>4. ClipsSound /\ CoverInv /\ NothingLost /\ WindowInv
  BY <1>0 DEF ClipsSound, CoverInv, NothingLost, WindowInv
<1> QED
  BY <1>2, <1>3, <1>4 DEF CutsInv

LEMMA PieceIs ==
  ASSUME NEW S, NEW s \in Seq(S), NEW a \in Nat, NEW z \in Nat, a <= z, z <= Len(s)
  PROVE  /\ Len(SubSeq(s, a + 1, z)) = z - a
         /\ \A k \in 1 .. (z - a) : SubSeq(s, a + 1, z)[k] = s[a + k]
<1>1. a + 1 \in Int /\ z \in Int /\ \A k \in a + 1 .. z : s[k] \in S
  BY ElementOfSeq
<1>2. /\ Len(SubSeq(s, a + 1, z)) = IF a + 1 <= z THEN z - (a + 1) + 1 ELSE 0
      /\ \A k \in 1 .. z - (a + 1) + 1 : SubSeq(s, a + 1, z)[k] = s[(a + 1) + k - 1]
  BY <1>1, SubSeqProperties
<1>3. z - (a + 1) + 1 = z - a /\ \A k \in Int : (a + 1) + k - 1 = a + k
  OBVIOUS
<1>4. ASSUME NEW k \in 1 .. (z - a) PROVE SubSeq(s, a + 1, z)[k] = s[a + k]
  BY <1>2, <1>3
<1> QED
  BY <1>2, <1>4

\* The frames of the middle of the batch at b: those from b on, as many as a batch predicts or as
\* there are.
Middle(b) == SubSeq(BatchAt(b), Half + 1, Least(3 * Half, Len(BatchAt(b))))

LEMMA MiddleOf ==
  ASSUME total \in Nat, NEW b \in Nat, b < total
  PROVE  /\ Len(Middle(b)) = Least(2 * Half, total - b) /\ Len(Middle(b)) \in Nat \ {0}
         /\ \A k \in 1 .. Len(Middle(b)) : Middle(b)[k] = b + k - 1
<1>0. Half \in Nat \ {0}
  BY CutConstants
<1> DEFINE first == Greatest(b - Half, 0)
           final  == Least(b + 3 * Half, total)
           pad   == IF b < Half THEN Half - b ELSE 0
           n     == pad + final - first
           seen == [k \in 1 .. n |-> IF k <= pad THEN 0 ELSE first + (k - pad) - 1]
           m     == Least(3 * Half, n)
<1>1. BatchAt(b) = seen
  BY DEF BatchAt
<1>2. /\ first \in Nat /\ final \in Nat /\ pad \in Nat /\ pad <= Half /\ n = Half - b + final
      /\ first - pad = b - Half /\ final > b /\ n > Half /\ n \in Nat
      /\ final = Least(b + 3 * Half, total)
  BY <1>0 DEF Greatest, Least
<1> HIDE DEF first, final, pad, n
<1>3. seen \in Seq(Int) /\ Len(seen) = n
  <2>1. \A k \in 1 .. n : (IF k <= pad THEN 0 ELSE first + (k - pad) - 1) \in Int
    BY <1>2
  <2> QED
    BY <1>2, <2>1
<1>4. m \in Nat /\ Half <= m /\ m <= n /\ m - Half = Least(2 * Half, total - b) /\ m - Half \in Nat \ {0}
  BY <1>0, <1>2 DEF Least
<1>5. Middle(b) = SubSeq(seen, Half + 1, m)
  BY <1>1, <1>3 DEF Middle
<1> HIDE DEF m
<1>6. ASSUME NEW k \in 1 .. (m - Half) PROVE seen[Half + k] = b + k - 1
  <2>1. PICK h \in Int : h = Half + k
    BY <1>0, <1>4
  <2>2. h \in 1 .. n /\ h > pad /\ first + (h - pad) - 1 = b + k - 1
    BY <1>0, <1>2, <1>4, <2>1
  <2>3. seen[h] = first + (h - pad) - 1
    BY <1>2, <2>2
  <2> QED
    BY <2>1, <2>2, <2>3
<1> HIDE DEF seen
<1>7. /\ Len(Middle(b)) = m - Half
      /\ \A k \in 1 .. (m - Half) : Middle(b)[k] = seen[Half + k]
  <2>1. PICK s, l, z : s = seen /\ l = Half /\ z = m
    OBVIOUS
  <2>2. s \in Seq(Int) /\ l \in Nat /\ z \in Nat /\ l <= z /\ z <= Len(s)
    BY <1>0, <1>3, <1>4, <2>1
  <2>3. /\ Len(SubSeq(s, l + 1, z)) = z - l
        /\ \A k \in 1 .. (z - l) : SubSeq(s, l + 1, z)[k] = s[l + k]
    BY ONLY <2>2, PieceIs
  <2>4. Middle(b) = SubSeq(s, l + 1, z)
    BY <1>5, <2>1
  <2> QED
    BY ONLY <2>1, <2>3, <2>4
<1> QED
  BY <1>4, <1>6, <1>7

LEMMA PredictKeeps ==
  ASSUME CutsInv, Predict
  PROVE  CutsInv'
<1>0. CutTypes /\ Predicted /\ ScanInv /\ pc = "predict" /\ total \in Nat
  BY CutConstants DEF CutsInv, CutTypes, Predict
<1> DEFINE b   == Len(predictions)
           mid == Middle(b)
           new == [k \in 1 .. Len(mid) |-> cuts[mid[k]]]
<1>1. b \in Nat /\ b < total
  BY <1>0 DEF CutTypes, ScanInv
<1>2. /\ Len(mid) = Least(2 * Half, total - b) /\ Len(mid) \in Nat \ {0}
      /\ \A k \in 1 .. Len(mid) : mid[k] = b + k - 1
  BY <1>0, <1>1, MiddleOf
<1>3. /\ predictions' = predictions \o new
      /\ pc' = IF Len(predictions') >= total THEN "scenes" ELSE pc
      /\ UNCHANGED <<options, total, cuts, i, t, tPrev, start, scenes, current, spans, windows>>
  BY DEF Predict, Middle
<1> HIDE DEF mid
<1>4. b + Len(mid) <= total
  BY <1>0, <1>1, <1>2, CutConstants DEF Least
<1>5. new \in Seq({0, 1}) /\ Len(new) = Len(mid) /\ \A k \in 1 .. Len(mid) : new[k] = cuts[b + k - 1]
  <2>1. \A k \in 1 .. Len(mid) : b + k - 1 \in 0 .. (total - 1)
    BY <1>0, <1>1, <1>2, <1>4
  <2>2. \A k \in 1 .. Len(mid) : cuts[mid[k]] = cuts[b + k - 1] /\ cuts[mid[k]] \in {0, 1}
    BY <1>0, <1>2, <2>1 DEF CutTypes
  <2> QED
    BY <1>2, <2>2
<1> HIDE DEF new
<1>6. /\ predictions' \in Seq({0, 1}) /\ Len(predictions') = b + Len(mid)
      /\ \A k \in 1 .. b : predictions'[k] = predictions[k]
      /\ \A k \in b + 1 .. b + Len(mid) : predictions'[k] = new[k - b]
  BY <1>0, <1>1, <1>2, <1>3, <1>5 DEF CutTypes
<1>7. Predicted'
  <2> SUFFICES ASSUME NEW k \in 1 .. Len(predictions')
               PROVE  k <= total /\ predictions'[k] = cuts[k - 1]
    BY <1>3 DEF Predicted
  <2>1. CASE k <= b
    BY <1>0, <1>1, <1>6, <2>1 DEF Predicted
  <2>2. CASE k > b
    <3>1. k - b \in 1 .. Len(mid) /\ b + (k - b) - 1 = k - 1
      BY <1>1, <1>2, <1>6, <2>2
    <3>2. predictions'[k] = new[k - b] /\ new[k - b] = cuts[b + (k - b) - 1]
      BY <1>1, <1>2, <1>5, <1>6, <2>2, <3>1
    <3>3. k <= total
      BY <1>0, <1>1, <1>2, <1>4, <1>6
    <3> QED
      BY <3>1, <3>2, <3>3
  <2> QED
    BY <1>1, <1>2, <1>6, <2>1, <2>2
<1>8. pc' \in {"predict", "scenes"} /\ (pc' = "predict" => Len(predictions') < total)
      /\ (pc' = "scenes" => Len(predictions') = total)
  BY <1>0, <1>1, <1>2, <1>3, <1>4, <1>6
<1>9. CutTypes'
  BY <1>0, <1>3, <1>4, <1>6, <1>8 DEF CutTypes
<1>10. ScanInv'
  BY <1>0, <1>3, <1>8 DEF ScanInv, Lined, Inside, Clean, Held, Holds
<1>11. SceneInv' /\ CoverInv' /\ NothingLost'
  BY <1>8 DEF SceneInv, CoverInv, NothingLost
<1>12. ClipsSound'
  BY <1>0, <1>3 DEF ScanInv, ClipsSound
<1>13. WindowInv'
  BY <1>0, <1>3 DEF CutsInv, WindowInv
<1> QED
  BY <1>7, <1>9, <1>10, <1>11, <1>12, <1>13 DEF CutsInv

\* A scene, or a clip, that is appended behind the others.
LEMMA AppendHeld ==
  ASSUME NEW ss \in Seq(Nat \X Nat), NEW s \in Nat \X Nat
  PROVE  /\ Append(ss, s) \in Seq(Nat \X Nat) /\ Len(Append(ss, s)) = Len(ss) + 1
         /\ \A k \in 1 .. Len(ss) : Append(ss, s)[k] = ss[k]
         /\ Append(ss, s)[Len(ss) + 1] = s
         /\ \A f : Held(Append(ss, s), f) <=> Held(ss, f) \/ Holds(s, f)
<1> DEFINE u == Append(ss, s)
<1>1. /\ u \in Seq(Nat \X Nat) /\ Len(u) = Len(ss) + 1 /\ Len(ss) \in Nat
      /\ \A k \in 1 .. Len(ss) : u[k] = ss[k]
      /\ u[Len(ss) + 1] = s
  BY AppendProperties
<1> HIDE DEF u
<1>2. ASSUME NEW f PROVE Held(u, f) <=> Held(ss, f) \/ Holds(s, f)
  <2>1. ASSUME Held(u, f) PROVE Held(ss, f) \/ Holds(s, f)
    <3>1. PICK k \in 1 .. Len(u) : Holds(u[k], f)
      BY <2>1 DEF Held
    <3>2. k \in 1 .. Len(ss) \/ k = Len(ss) + 1
      BY <1>1
    <3> QED
      BY <1>1, <3>1, <3>2 DEF Held
  <2>2. ASSUME Held(ss, f) \/ Holds(s, f) PROVE Held(u, f)
    <3>1. 1 .. Len(ss) \subseteq 1 .. Len(u) /\ Len(ss) + 1 \in 1 .. Len(u)
      BY <1>1
    <3> QED
      BY <1>1, <2>2, <3>1 DEF Held
  <2> QED
    BY <2>1, <2>2
<1> QED
  BY <1>1, <1>2 DEF u

LEMMA AppendLined ==
  ASSUME NEW ss \in Seq(Nat \X Nat), NEW s \in Nat \X Nat, Lined(ss), Inside(ss),
         s[1] <= s[2], s[2] <= total, \A k \in 1 .. Len(ss) : ss[k][2] <= s[1]
  PROVE  Lined(Append(ss, s)) /\ Inside(Append(ss, s))
<1> DEFINE u == Append(ss, s)
<1>1. /\ Len(u) = Len(ss) + 1 /\ Len(ss) \in Nat
      /\ \A k \in 1 .. Len(ss) : u[k] = ss[k]
      /\ u[Len(ss) + 1] = s
  BY AppendHeld
<1> HIDE DEF u
<1>2. \A k \in 1 .. Len(u) : k \in 1 .. Len(ss) \/ k = Len(ss) + 1
  BY <1>1
<1>3. Inside(u)
  BY <1>1, <1>2 DEF Inside
<1>4. ASSUME NEW j \in 1 .. Len(u), NEW k \in 1 .. Len(u), j < k PROVE u[j][2] <= u[k][1]
  <2>1. j \in 1 .. Len(ss)
    BY <1>1, <1>4
  <2> QED
    BY <1>1, <1>2, <1>4, <2>1 DEF Lined
<1> QED
  BY <1>3, <1>4 DEF Lined, u

LEMMA ScanKeeps ==
  ASSUME CutsInv, Scan
  PROVE  CutsInv'
<1>0. /\ CutTypes /\ Predicted /\ ScanInv /\ pc = "scenes" /\ total \in Nat \ {0}
      /\ i \in Nat /\ i < total /\ i \in 0 .. (total - 1) /\ start \in Nat /\ Len(scenes) \in Nat
      /\ scenes \in Seq(Nat \X Nat)
  BY CutConstants DEF CutsInv, CutTypes, Scan
<1>1. cuts[i] \in {0, 1} /\ predictions[i + 1] = cuts[i]
  <2>1. i + 1 \in 1 .. Len(predictions) /\ (i + 1) - 1 = i
    BY <1>0 DEF ScanInv
  <2> QED
    BY <1>0, <2>1 DEF Predicted, CutTypes
<1>2. /\ t' = cuts[i] /\ tPrev' = cuts[i] /\ i' = i + 1
      /\ start' = IF tPrev = 1 /\ cuts[i] = 0 THEN i ELSE start
      /\ scenes' = IF tPrev = 0 /\ cuts[i] = 1 /\ i # 0 THEN Append(scenes, <<start, i>>) ELSE scenes
      /\ UNCHANGED <<options, total, cuts, pc, predictions, current, spans, windows>>
  BY <1>1 DEF Scan
<1>3. /\ start <= i
      /\ i = 0 => tPrev = 0 /\ start = 0 /\ scenes = <<>>
      /\ i > 0 => tPrev = cuts[i - 1]
      /\ tPrev = 0 => (i > 0 => start < i) /\ \A f \in start .. (i - 1) : cuts[f] = 0
      /\ Lined(scenes) /\ Inside(scenes)
      /\ \A k \in 1 .. Len(scenes) :
           scenes[k][2] <= i /\ (tPrev = 0 => scenes[k][2] <= start) /\ Clean(scenes[k])
      /\ \A f \in 0 .. (i - 1) : cuts[f] = 0 => (tPrev = 0 /\ start <= f) \/ Held(scenes, f)
      /\ scenes = <<>> => \A f \in 1 .. (i - 1) : ~ (cuts[f - 1] = 0 /\ cuts[f] = 1)
      /\ tPrev \in {0, 1}
  BY <1>0 DEF ScanInv, CutTypes
<1>4. /\ scenes' \in Seq(Nat \X Nat) /\ Lined(scenes') /\ Inside(scenes')
      /\ \A k \in 1 .. Len(scenes') :
           scenes'[k][2] <= i + 1 /\ (cuts[i] = 0 => scenes'[k][2] <= start') /\ Clean(scenes'[k])
      /\ \A f \in 0 .. i : cuts[f] = 0 => (cuts[i] = 0 /\ start' <= f) \/ Held(scenes', f)
      /\ scenes' = <<>> => \A f \in 1 .. i : ~ (cuts[f - 1] = 0 /\ cuts[f] = 1)
  <2>1. CASE tPrev = 0 /\ cuts[i] = 1 /\ i # 0
    <3> DEFINE s == <<start, i>>
    <3>1. /\ scenes' = Append(scenes, s) /\ start' = start /\ s \in Nat \X Nat /\ s[1] = start /\ s[2] = i
      BY <1>0, <1>2, <2>1
    <3> HIDE DEF s
    <3>2. Clean(s)
      BY <1>0, <1>3, <2>1, <3>1 DEF Clean, Holds
    <3>3. /\ scenes' \in Seq(Nat \X Nat) /\ Len(scenes') = Len(scenes) + 1
          /\ \A k \in 1 .. Len(scenes) : scenes'[k] = scenes[k]
          /\ scenes'[Len(scenes) + 1] = s
          /\ \A f : Held(scenes', f) <=> Held(scenes, f) \/ Holds(s, f)
      BY <1>0, <3>1, AppendHeld
    <3>4. Lined(scenes') /\ Inside(scenes')
      <4>1. s[1] <= s[2] /\ s[2] <= total
        BY <1>0, <1>3, <3>1
      <4>2. \A k \in 1 .. Len(scenes) : scenes[k][2] <= s[1]
        BY <1>3, <2>1, <3>1
      <4> QED
        BY <1>0, <1>3, <3>1, <4>1, <4>2, AppendLined
    <3>5. ASSUME NEW k \in 1 .. Len(scenes') PROVE scenes'[k][2] <= i + 1 /\ Clean(scenes'[k])
      <4>1. k \in 1 .. Len(scenes) \/ k = Len(scenes) + 1
        BY <1>0, <3>3
      <4>2. CASE k \in 1 .. Len(scenes)
        <5>1. scenes'[k] = scenes[k]
          BY <3>3, <4>2
        <5>2. scenes[k][2] \in Nat /\ scenes[k][2] <= i /\ Clean(scenes[k])
          BY <1>0, <1>3, <4>2
        <5>3. Clean(scenes'[k])
          BY <5>1, <5>2, Zenon
        <5> QED
          BY <1>0, <5>1, <5>2, <5>3
      <4>3. CASE k = Len(scenes) + 1
        BY <1>0, <3>1, <3>2, <3>3, <4>3
      <4> QED
        BY <4>1, <4>2, <4>3
    <3>6. ASSUME NEW f \in 0 .. i, cuts[f] = 0 PROVE Held(scenes', f)
      <4>1. f \in 0 .. (i - 1)
        BY <1>0, <2>1, <3>6
      <4>2. start <= f => Holds(s, f)
        BY <1>0, <3>1, <4>1 DEF Holds
      <4> QED
        BY <1>3, <3>3, <3>6, <4>1, <4>2
    <3>7. scenes' # <<>>
      BY <1>0, <3>3
    <3> QED
      BY <2>1, <3>3, <3>4, <3>5, <3>6, <3>7
  <2>2. CASE ~ (tPrev = 0 /\ cuts[i] = 1 /\ i # 0)
    <3>1. scenes' = scenes
      BY <1>2, <2>2
    <3>2. ASSUME NEW k \in 1 .. Len(scenes)
          PROVE  scenes[k][2] <= i + 1 /\ (cuts[i] = 0 => scenes[k][2] <= start') /\ Clean(scenes[k])
      <4>1. scenes[k][2] \in Nat
        BY <1>0
      <4> QED
        BY <1>0, <1>2, <1>3, <4>1
    <3>3. ASSUME NEW f \in 0 .. i, cuts[f] = 0 PROVE (cuts[i] = 0 /\ start' <= f) \/ Held(scenes, f)
      BY <1>0, <1>1, <1>2, <1>3, <2>2, <3>3
    <3>4. ASSUME scenes = <<>>, NEW f \in 1 .. i PROVE ~ (cuts[f - 1] = 0 /\ cuts[f] = 1)
      <4>1. CASE f = i
        BY <1>0, <1>3, <2>2, <4>1
      <4>2. CASE f \in 1 .. (i - 1)
        BY <1>3, <3>4, <4>2
      <4> QED
        BY <1>0, <4>1, <4>2
    <3> QED
      BY <1>0, <1>3, <3>1, <3>2, <3>3, <3>4
  <2> QED
    BY <2>1, <2>2
<1>5. start' \in Nat /\ start' <= i /\ (cuts[i] = 0 => \A f \in start' .. i : cuts[f] = 0)
  <2>1. start' \in Nat /\ start' <= i
    BY <1>0, <1>2, <1>3
  <2>2. ASSUME cuts[i] = 0, NEW f \in start' .. i PROVE cuts[f] = 0
    <3>1. CASE f = i
      BY <2>2, <3>1
    <3>2. CASE f # i
      <4>1. tPrev = 0 /\ start' = start /\ f \in start .. (i - 1)
        BY <1>0, <1>2, <1>3, <2>2, <3>2
      <4> QED
        BY <1>3, <4>1
    <3> QED
      BY <3>1, <3>2
  <2> QED
    BY <2>1, <2>2
<1>6. CutTypes'
  BY <1>0, <1>1, <1>2, <1>4, <1>5 DEF CutTypes
<1>7. ScanInv'
  <2>1. i' = i + 1 /\ i' # 0 /\ i' - 1 = i /\ start' < i'
    BY <1>0, <1>2, <1>5
  <2>2. pc' = "scenes" /\ Len(predictions') = total' /\ spans' = <<>>
    BY <1>0, <1>2 DEF ScanInv
  <2>3. (Inside(scenes) /\ Lined(scenes))' /\ \A k \in 1 .. Len(scenes') : Clean(scenes[k])'
    BY <1>2, <1>4 DEF Inside, Lined, Clean, Holds
  <2>4. \A f \in 0 .. (i' - 1) : cuts'[f] = 0 => (tPrev' = 0 /\ start' <= f) \/ Held(scenes, f)'
    BY <1>2, <1>4, <2>1 DEF Held, Holds
  <2>5. \A k \in 1 .. Len(scenes') : scenes'[k][2] <= i' /\ (tPrev' = 0 => scenes'[k][2] <= start')
    BY <1>2, <1>4
  <2>6. /\ t' = tPrev' /\ tPrev' = cuts'[i' - 1]
        /\ (tPrev' = 0 => \A f \in start' .. (i' - 1) : cuts'[f] = 0)
        /\ (scenes' = <<>> => \A f \in 1 .. (i' - 1) : ~ (cuts'[f - 1] = 0 /\ cuts'[f] = 1))
    BY <1>2, <1>4, <1>5, <2>1
  <2>7. start' <= i' /\ (i' = 0 => tPrev' = 0 /\ start' = 0 /\ scenes' = <<>>)
    BY <1>0, <1>5, <2>1
  <2>8. Lined(scenes)' /\ Inside(scenes)'
    BY <2>3
  <2>9. /\ pc' # "predict" /\ Len(predictions') = total' /\ spans' = <<>>
    BY <2>2
  <2>10. \A k \in 1 .. Len(scenes') :
            scenes'[k][2] <= i' /\ (tPrev' = 0 => scenes'[k][2] <= start') /\ Clean(scenes[k])'
    BY <2>3, <2>5
  <2> QED
    BY <2>1, <2>4, <2>6, <2>7, <2>8, <2>9, <2>10, Zenon DEF ScanInv
<1>8. Predicted'
  BY <1>0, <1>2 DEF Predicted
<1>9. SceneInv' /\ CoverInv' /\ NothingLost'
  BY <1>0, <1>2 DEF SceneInv, CoverInv, NothingLost
<1>10. ClipsSound'
  BY <1>0, <1>2 DEF ScanInv, ClipsSound
<1>11. WindowInv'
  BY <1>2 DEF CutsInv, WindowInv
<1> QED
  BY <1>6, <1>7, <1>8, <1>9, <1>10, <1>11 DEF CutsInv

LEMMA ScannedKeeps ==
  ASSUME CutsInv, Scanned
  PROVE  CutsInv'
<1>0. /\ CutTypes /\ Predicted /\ ScanInv /\ pc = "scenes" /\ total \in Nat \ {0} /\ i = total
      /\ scenes \in Seq(Nat \X Nat) /\ start \in Nat /\ options.entire \in BOOLEAN
      /\ i - 1 = total - 1 /\ total - 1 \in Nat
  BY CutConstants DEF CutsInv, CutTypes, Scanned
<1>1. /\ scenes' = Found /\ pc' = "cut"
      /\ current' = IF Found = <<>> THEN 0 ELSE Found[1][1]
      /\ UNCHANGED <<options, total, cuts, predictions, i, t, tPrev, start, spans, windows>>
  BY DEF Scanned
<1>2. /\ spans = <<>> /\ t = tPrev /\ tPrev \in {0, 1}
      /\ tPrev = 0 => start <= total - 1 /\ \A f \in start .. (total - 1) : cuts[f] = 0
      /\ Lined(scenes) /\ Inside(scenes)
      /\ \A k \in 1 .. Len(scenes) : (tPrev = 0 => scenes[k][2] <= start) /\ Clean(scenes[k])
      /\ \A f \in 0 .. (total - 1) : cuts[f] = 0 => (tPrev = 0 /\ start <= f) \/ Held(scenes, f)
      /\ scenes = <<>> => ~ Detected
  BY <1>0 DEF ScanInv, CutTypes, Detected
<1>3. /\ Found \in Seq(Nat \X Nat) /\ Lined(Found) /\ Inside(Found)
      /\ Detected => \A k \in 1 .. Len(Found) : Clean(Found[k])
      /\ Detected \/ options.entire => \A f \in 0 .. (total - 2) : cuts[f] = 0 => Held(Found, f)
  <2>1. CASE scenes # <<>> /\ t = 0
    <3>1. PICK s \in Nat \X Nat : s = <<start, total - 1>>
      BY <1>0
    <3>2. Found = Append(scenes, s) /\ s[1] = start /\ s[2] = total - 1
      BY <2>1, <3>1 DEF Found
    <3>3. s[1] <= s[2] /\ s[2] <= total /\ \A k \in 1 .. Len(scenes) : scenes[k][2] <= s[1]
      BY <1>0, <1>2, <2>1, <3>2
    <3>4. Lined(Found) /\ Inside(Found)
      BY <1>0, <1>2, <3>2, <3>3, AppendLined
    <3>5. /\ Found \in Seq(Nat \X Nat) /\ Len(Found) = Len(scenes) + 1
          /\ \A k \in 1 .. Len(scenes) : Found[k] = scenes[k]
          /\ Found[Len(scenes) + 1] = s
          /\ \A f : Held(Found, f) <=> Held(scenes, f) \/ Holds(s, f)
      BY <1>0, <3>2, AppendHeld
    <3>6. Clean(s)
      BY <1>0, <1>2, <2>1, <3>2 DEF Clean, Holds
    <3>7. ASSUME NEW k \in 1 .. Len(Found) PROVE Clean(Found[k])
      <4>1. k \in 1 .. Len(scenes) \/ k = Len(scenes) + 1
        BY <1>0, <3>5
      <4>2. CASE k \in 1 .. Len(scenes)
        <5>1. Found[k] = scenes[k] /\ Clean(scenes[k])
          BY <1>2, <3>5, <4>2
        <5> QED
          BY <5>1, Zenon
      <4>3. CASE k = Len(scenes) + 1
        BY <3>5, <3>6, <4>3, Zenon
      <4> QED
        BY <4>1, <4>2, <4>3
    <3>8. ASSUME NEW f \in 0 .. (total - 2), cuts[f] = 0 PROVE Held(Found, f)
      <4>1. f \in 0 .. (total - 1) /\ (start <= f => Holds(s, f))
        BY <1>0, <3>2 DEF Holds
      <4> QED
        BY <1>2, <3>5, <3>8, <4>1
    <3> QED
      BY <3>4, <3>5, <3>7, <3>8
  <2>2. CASE scenes # <<>> /\ t # 0
    <3>1. Found = scenes
      BY <2>2 DEF Found
    <3>2. ASSUME NEW f \in 0 .. (total - 2), cuts[f] = 0 PROVE Held(scenes, f)
      <4>1. f \in 0 .. (total - 1)
        BY <1>0
      <4> QED
        BY <1>2, <2>2, <3>2, <4>1
    <3> QED
      BY <1>0, <1>2, <3>1, <3>2, Zenon
  <2>3. CASE scenes = <<>> /\ options.entire
    <3>1. Found = << <<0, total>> >>
      BY <2>3 DEF Found
    <3>2. Found \in Seq(Nat \X Nat) /\ Len(Found) = 1 /\ Found[1][1] = 0 /\ Found[1][2] = total
      BY <1>0, <3>1
    <3>3. Lined(Found) /\ Inside(Found)
      BY <1>0, <3>2 DEF Lined, Inside
    <3>4. ~ Detected
      BY <1>2, <2>3
    <3>5. \A f \in 0 .. (total - 2) : Holds(Found[1], f)
      BY <1>0, <3>2 DEF Holds
    <3> QED
      BY <3>2, <3>3, <3>4, <3>5 DEF Held
  <2>4. CASE scenes = <<>> /\ ~ options.entire
    <3>1. Found = <<>> /\ ~ Detected
      BY <1>2, <2>4 DEF Found
    <3> QED
      BY <2>4, <3>1 DEF Lined, Inside
  <2> QED
    BY <1>0, <2>1, <2>2, <2>3, <2>4
<1> DEFINE F == Found
<1> HIDE DEF F
<1>4. scenes' = F /\ F \in Seq(Nat \X Nat) /\ Len(F) \in Nat
  BY <1>1, <1>3 DEF F
<1>5. F # <<>> => 1 \in 1 .. Len(F) /\ current' = F[1][1] /\ F[1] \in Nat \X Nat
  BY <1>1, <1>3 DEF F
<1>6. current' \in Nat
  BY <1>1, <1>5 DEF F
<1>7. CutTypes'
  BY <1>0, <1>1, <1>4, <1>6 DEF CutTypes
<1>8. Predicted'
  BY <1>0, <1>1 DEF Predicted
<1>9. ScanInv'
  BY <1>0, <1>1 DEF ScanInv
<1>10. SceneInv'
  <2>1. Lined(scenes)' /\ Inside(scenes)'
    BY <1>1, <1>3 DEF Lined, Inside
  <2>2. Detected' => \A k \in 1 .. Len(scenes') : Clean(scenes[k])'
    BY <1>1, <1>3 DEF Detected, Clean, Holds
  <2>3. F # <<>> => F[1][1] <= F[1][2]
    BY <1>3, <1>5 DEF Inside, F
  <2>4. scenes' # <<>> => /\ scenes'[1][1] <= current' /\ current' <= scenes'[1][2]
                          /\ current' = scenes'[1][1]
    BY <1>4, <1>5, <1>6, <2>3
  <2>5. \A k \in 1 .. Len(spans') : spans'[k][2] <= current'
    BY <1>1, <1>2
  <2> QED
    BY <2>1, <2>2, <2>4, <2>5, Zenon DEF SceneInv
<1>11. CoverInv'
  <2> SUFFICES ASSUME KeepsScenes', NEW f \in 0 .. (total - 2), cuts[f] = 0
               PROVE  \E k \in 1 .. Len(F) : Holds(F[k], f) /\ (k = 1 => current' <= f)
    BY <1>1, <1>4 DEF CoverInv, Holds, Held
  <2>1. Held(F, f)
    BY <1>1, <1>3 DEF KeepsScenes, Detected, F
  <2>2. PICK k \in 1 .. Len(F) : Holds(F[k], f)
    BY <2>1 DEF Held
  <2>3. k = 1 => current' <= f
    BY <1>4, <1>5, <2>2 DEF Holds
  <2> QED
    BY <2>2, <2>3
<1>12. NothingLost'
  BY <1>1 DEF NothingLost
<1>13. ClipsSound'
  BY <1>1, <1>2 DEF ClipsSound
<1>14. WindowInv'
  BY <1>0, <1>1 DEF CutsInv, WindowInv
<1> QED
  BY <1>7, <1>8, <1>9, <1>10, <1>11, <1>12, <1>13, <1>14 DEF CutsInv

\* What ClipsSound asks of one clip by itself.
GoodClip(s) ==
  /\ 0 <= s[1] /\ s[1] <= s[2] /\ s[2] <= total
  /\ options.min <= Length(s)
  /\ options.split = "transnet" =>
       /\ options.max > 0 => Length(s) <= options.max
       /\ (options.crop > 0 \/ (options.max > 0 /\ options.mode = "stride")) => Length(s) > 0
       /\ Detected => Clean(s)
  /\ options.split = "stride" => 0 < Length(s) /\ Length(s) <= options.len

GoodClips(ss) ==
  \A k \in 1 .. Len(ss) :
    GoodClip(ss[k]) /\ (options.split = "transnet" /\ k > 1 => ss[k - 1][2] <= ss[k][1])

LEMMA GoodIsSound == ClipsSound <=> GoodClips(spans)
  BY DEF ClipsSound, GoodClips, GoodClip, Clean

LEMMA AppendGood ==
  ASSUME NEW ss \in Seq(Nat \X Nat), NEW s \in Nat \X Nat, GoodClips(ss), GoodClip(s),
         options.split = "transnet" => \A k \in 1 .. Len(ss) : ss[k][2] <= s[1]
  PROVE  GoodClips(Append(ss, s))
<1> DEFINE u == Append(ss, s)
<1>1. /\ Len(u) = Len(ss) + 1 /\ Len(ss) \in Nat
      /\ \A k \in 1 .. Len(ss) : u[k] = ss[k]
      /\ u[Len(ss) + 1] = s
  BY AppendHeld
<1> HIDE DEF u
<1> SUFFICES ASSUME NEW k \in 1 .. Len(u)
             PROVE  GoodClip(u[k]) /\ (options.split = "transnet" /\ k > 1 => u[k - 1][2] <= u[k][1])
  BY DEF GoodClips, u
<1>2. CASE k \in 1 .. Len(ss)
  <2>0. k > 1 => k - 1 \in 1 .. Len(ss)
    BY <1>1, <1>2
  <2>1. u[k] = ss[k] /\ (k > 1 => u[k - 1] = ss[k - 1])
    BY <1>1, <1>2, <2>0, Zenon
  <2>2. GoodClip(ss[k]) /\ (options.split = "transnet" /\ k > 1 => ss[k - 1][2] <= ss[k][1])
    BY <1>2 DEF GoodClips
  <2> QED
    BY <2>1, <2>2, Zenon
<1>3. CASE k = Len(ss) + 1
  <2>1. u[k] = s /\ (k > 1 => k - 1 \in 1 .. Len(ss) /\ u[k - 1] = ss[k - 1])
    BY <1>1, <1>3
  <2> QED
    BY <2>1, Zenon
<1> QED
  BY <1>1, <1>2, <1>3

LEMMA CropLeaves ==
  ASSUME NEW x \in Nat, NEW y \in Nat, NEW crop \in Nat, x <= y, crop > 0 => (y - crop) - (x + crop) > 0
  PROVE  /\ x + crop <= y - crop /\ x <= x + crop /\ y - crop <= y /\ x + crop \in Nat /\ y - crop \in Nat
  OBVIOUS

\* A piece of the scene at hand, and what is cropped off it and kept, behind the clips so far.
LEMMA WithKeeps ==
  ASSUME CutTypes, options.split = "transnet", GoodClips(spans), NEW p \in Nat \X Nat,
         p[1] <= p[2], p[2] <= total, \A k \in 1 .. Len(spans) : spans[k][2] <= p[1],
         options.max > 0 => Length(p) <= options.max,
         options.max > 0 /\ options.mode = "stride" => Length(p) > 0,
         Detected => Clean(p)
  PROVE  /\ With(p) \in Seq(Nat \X Nat) /\ GoodClips(With(p))
         /\ \A k \in 1 .. Len(With(p)) : With(p)[k][2] <= p[2]
         /\ options.min = 0 /\ options.crop = 0 => \A f : Held(spans, f) \/ Holds(p, f) => Held(With(p), f)
<1>0. /\ spans \in Seq(Nat \X Nat) /\ Len(spans) \in Nat /\ total \in Nat /\ p[1] \in Nat /\ p[2] \in Nat
      /\ options.min \in Nat /\ options.max \in Nat /\ options.crop \in Nat
  BY CutConstants DEF CutTypes
<1> DEFINE c == Cropped(p)
<1>1. c[1] = p[1] + options.crop /\ c[2] = p[2] - options.crop
  BY DEF Cropped
<1>2. c = <<p[1] + options.crop, p[2] - options.crop>>
  BY DEF Cropped
<1> PICK x \in Nat, y \in Nat, crop \in Nat : x = p[1] /\ y = p[2] /\ crop = options.crop
  BY <1>0
<1>3. CASE Passes(p)
  <2>1. (options.crop > 0 => c[2] - c[1] > 0) /\ c[2] - c[1] >= options.min
    BY <1>3 DEF Passes, Length
  <2>2. With(p) = Append(spans, c)
    BY <1>3 DEF With
  <2> HIDE DEF c
  <2>3. x + crop <= y - crop /\ x <= x + crop /\ y - crop <= y /\ x + crop \in Nat /\ y - crop \in Nat
    <3>1. x <= y
      BY Zenon
    <3>2. crop > 0 => (y - crop) - (x + crop) > 0
      BY <1>1, <2>1, Zenon DEF c
    <3> QED
      BY <3>1, <3>2, CropLeaves
  <2>4. PICK u \in Nat, v \in Nat : u = c[1] /\ v = c[2] /\ u = x + crop /\ v = y - crop
    BY <1>1, <2>3
  <2>5. x <= u /\ u <= v /\ v <= y /\ v - u <= y - x /\ (crop = 0 => v - u = y - x)
    BY <2>3, <2>4
  <2>6. c \in Nat \X Nat
    BY <1>1, <1>2, <2>4
  <2>7. Detected => Clean(c)
    <3> SUFFICES ASSUME Clean(p) PROVE Clean(c)
      OBVIOUS
    <3>1. ASSUME NEW f \in 0 .. (total - 1), u <= f, f < v PROVE x <= f /\ f < y
      <4>1. f \in Int
        BY <1>0
      <4> QED
        BY <2>5, <3>1, <4>1
    <3> QED
      BY <2>4, <3>1 DEF Clean, Holds
  <2>8. Length(c) = v - u /\ Length(p) = y - x
    BY <2>4 DEF Length
  <2>9. 0 <= c[1] /\ c[1] <= c[2] /\ c[2] <= total /\ options.min <= Length(c)
    <3>1. 0 <= u /\ u <= v /\ v <= total
      BY <1>0, <2>5
    <3> QED
      BY <2>1, <2>4, <2>8, <3>1
  <2>10. options.max > 0 => Length(c) <= options.max
    BY <1>0, <2>5, <2>8
  <2>11. options.crop > 0 \/ (options.max > 0 /\ options.mode = "stride") => Length(c) > 0
    <3>1. crop > 0 => v - u > 0
      BY <2>1, <2>4, Zenon
    <3>2. options.max > 0 /\ options.mode = "stride" => y - x > 0
      BY <2>8, Zenon
    <3>3. crop > 0 \/ crop = 0
      OBVIOUS
    <3>4. (crop > 0 => v - u > 0) /\ (crop = 0 => v - u = y - x)
      BY <2>5, <3>1
    <3> QED
      BY <2>8, <3>2, <3>3, <3>4, Zenon
  <2>12. GoodClip(c)
    BY <2>7, <2>9, <2>10, <2>11 DEF GoodClip
  <2>13. ASSUME NEW k \in 1 .. Len(spans) PROVE spans[k][2] <= c[1] /\ spans[k][2] <= p[2]
    <3>1. spans[k] \in Nat \X Nat
      BY <1>0, ElementOfSeq
    <3>2. PICK z \in Nat : z = spans[k][2]
      BY <3>1
    <3>3. z <= x
      BY <3>2, Zenon
    <3>4. z <= u /\ z <= y
      BY <2>5, <3>3
    <3> QED
      BY <2>4, <3>2, <3>4
  <2>14. GoodClips(Append(spans, c))
    BY <1>0, <2>6, <2>12, <2>13, AppendGood
  <2>15. /\ Append(spans, c) \in Seq(Nat \X Nat) /\ Len(Append(spans, c)) = Len(spans) + 1
         /\ \A k \in 1 .. Len(spans) : Append(spans, c)[k] = spans[k]
         /\ Append(spans, c)[Len(spans) + 1] = c
         /\ \A f : Held(Append(spans, c), f) <=> Held(spans, f) \/ Holds(c, f)
    BY <1>0, <2>6, AppendHeld
  <2>16. ASSUME NEW k \in 1 .. Len(spans) + 1 PROVE Append(spans, c)[k][2] <= p[2]
    <3>0. PICK m \in Nat : m = Len(spans)
      BY <1>0
    <3>1. k \in 1 .. Len(spans) \/ k = Len(spans) + 1
      BY <3>0
    <3>2. CASE k \in 1 .. Len(spans)
      BY <2>13, <2>15, <3>2, Zenon
    <3>3. CASE k = Len(spans) + 1
      BY <2>4, <2>5, <2>15, <3>3, Zenon
    <3> QED
      BY <3>1, <3>2, <3>3
  <2>17. options.crop = 0 => \A f : Holds(p, f) => Holds(c, f)
    BY <2>4 DEF Holds
  <2> QED
    BY <2>2, <2>14, <2>15, <2>16, <2>17, Zenon
<1>4. CASE ~ Passes(p)
  <2>1. With(p) = spans
    BY <1>4 DEF With
  <2>2. ~ (options.min = 0 /\ options.crop = 0)
    BY <1>0, <1>1, <1>4 DEF Passes, Length
  <2>3. \A k \in 1 .. Len(spans) : spans[k][2] <= p[2]
    <3> SUFFICES ASSUME NEW k \in 1 .. Len(spans) PROVE spans[k][2] <= p[2]
      OBVIOUS
    <3>0. spans[k] \in Nat \X Nat
      BY <1>0, ElementOfSeq
    <3>1. PICK z \in Nat : z = spans[k][2]
      BY <3>0
    <3>2. z <= x
      BY <3>1, Zenon
    <3>3. z <= y
      BY <3>2
    <3> QED
      BY <3>1, <3>3
  <2> QED
    BY <1>0, <2>1, <2>2, <2>3, Zenon
<1> QED
  BY <1>3, <1>4

\* The scene at hand is done.
LEMMA NextSceneKeeps ==
  ASSUME CutTypes, SceneInv, pc = "cut", scenes # <<>>, NextScene
  PROVE  /\ scenes' \in Seq(Nat \X Nat) /\ current' \in Nat /\ Lined(scenes') /\ Inside(scenes')
         /\ Detected => \A k \in 1 .. Len(scenes') : Clean(scenes'[k])
         /\ scenes' # <<>> => /\ 1 \in 1 .. Len(scenes') /\ current' = scenes'[1][1]
                              /\ scenes'[1][1] <= scenes'[1][2] /\ scenes[1][2] <= current'
         /\ \A k \in 2 .. Len(scenes) : k - 1 \in 1 .. Len(scenes') /\ scenes'[k - 1] = scenes[k]
<1>0. scenes \in Seq(Nat \X Nat) /\ Lined(scenes) /\ Inside(scenes) /\ Len(scenes) \in Nat \ {0}
  BY DEF CutTypes, SceneInv
<1>1. scenes' = Tail(scenes) /\ current' = IF Len(scenes) > 1 THEN scenes[2][1] ELSE 0
  BY DEF NextScene
<1>2. /\ scenes' \in Seq(Nat \X Nat) /\ Len(scenes') = Len(scenes) - 1
      /\ \A k \in 1 .. Len(scenes') : scenes'[k] = scenes[k + 1]
  BY <1>0, <1>1
<1>3. \A k \in 1 .. Len(scenes') : k + 1 \in 2 .. Len(scenes) /\ k + 1 \in 1 .. Len(scenes)
  BY <1>0, <1>2
<1>4. current' \in Nat
  BY <1>0, <1>1
<1>5. Inside(scenes')
  BY <1>2, <1>3, <1>0, Zenon DEF Inside
<1>6. Lined(scenes')
  <2> SUFFICES ASSUME NEW j \in 1 .. Len(scenes'), NEW k \in 1 .. Len(scenes'), j < k
               PROVE  scenes'[j][2] <= scenes'[k][1]
    BY DEF Lined
  <2>1. j + 1 < k + 1
    BY <1>0, <1>2
  <2>2. scenes[j + 1][2] <= scenes[k + 1][1]
    BY <1>0, <1>3, <2>1 DEF Lined
  <2> QED
    BY <1>2, <2>2
<1>7. Detected => \A k \in 1 .. Len(scenes') : Clean(scenes'[k])
  BY <1>2, <1>3, Zenon DEF SceneInv
<1>8. ASSUME scenes' # <<>>
      PROVE  /\ 1 \in 1 .. Len(scenes') /\ current' = scenes'[1][1]
             /\ scenes'[1][1] <= scenes'[1][2] /\ scenes[1][2] <= current'
  <2>1. 1 \in 1 .. Len(scenes') /\ Len(scenes) > 1 /\ 1 \in 1 .. Len(scenes) /\ 2 \in 1 .. Len(scenes) /\ 1 + 1 = 2
    BY <1>0, <1>2, <1>8
  <2>2. scenes'[1] = scenes[2] /\ current' = scenes[2][1]
    BY <1>1, <1>2, <2>1
  <2>3. scenes[1][2] <= scenes[2][1]
    <3>1. 1 < 2
      OBVIOUS
    <3> QED
      BY <1>0, <2>1, <3>1, Zenon DEF Lined
  <2>4. scenes'[1][1] <= scenes'[1][2]
    BY <1>5, <2>1 DEF Inside
  <2> QED
    BY <2>1, <2>2, <2>3, <2>4
<1>9. ASSUME NEW k \in 2 .. Len(scenes) PROVE k - 1 \in 1 .. Len(scenes') /\ scenes'[k - 1] = scenes[k]
  <2>1. k - 1 \in 1 .. Len(scenes') /\ (k - 1) + 1 = k
    BY <1>0, <1>2
  <2> QED
    BY <1>2, <2>1
<1> QED
  BY <1>2, <1>4, <1>5, <1>6, <1>7, <1>8, <1>9

\* What a turn of the loops that cut the scenes has to keep.
LEMMA CutTurn ==
  ASSUME CutsInv, pc = "cut",
         UNCHANGED <<options, total, cuts, pc, predictions, i, t, tPrev, start, windows>>,
         scenes' \in Seq(Nat \X Nat), spans' \in Seq(Nat \X Nat), current' \in Nat, GoodClips(spans'),
         Lined(scenes'), Inside(scenes'), Detected => \A k \in 1 .. Len(scenes') : Clean(scenes'[k]),
         scenes' # <<>> =>
           /\ scenes'[1][1] <= current' /\ current' <= scenes'[1][2]
           /\ options.max = 0 \/ options.mode = "truncate" => current' = scenes'[1][1]
           /\ \A k \in 1 .. Len(spans') : spans'[k][2] <= current',
         KeepsScenes =>
           \A f \in 0 .. (total - 2) : cuts[f] = 0 =>
             \/ Held(spans', f)
             \/ \E k \in 1 .. Len(scenes') : Holds(scenes'[k], f) /\ (k = 1 => current' <= f)
  PROVE  CutsInv'
<1>1. CutTypes'
  BY DEF CutsInv, CutTypes
<1>2. Predicted'
  BY DEF CutsInv, Predicted
<1>3. ScanInv'
  BY DEF CutsInv, ScanInv
<1>4. SceneInv'
  <2>1. Lined(scenes)' /\ Inside(scenes)'
    BY DEF Lined, Inside
  <2>2. Detected' => \A k \in 1 .. Len(scenes') : Clean(scenes[k])'
    BY DEF Detected, Clean, Holds
  <2>3. (options.max = 0 \/ options.mode = "truncate")' <=> (options.max = 0 \/ options.mode = "truncate")
    OBVIOUS
  <2> QED
    BY <2>1, <2>2, <2>3, Zenon DEF SceneInv
<1>5. ClipsSound'
  <2>1. GoodClips(spans)'
    BY DEF GoodClips, GoodClip, Detected, Clean, Holds, Length
  <2> QED
    BY <2>1 DEF ClipsSound, GoodClips, GoodClip, Clean
<1>6. CoverInv'
  BY DEF CoverInv, KeepsScenes, Detected, Held, Holds
<1>7. NothingLost'
  BY DEF NothingLost
<1>8. WindowInv'
  BY DEF CutsInv, WindowInv
<1> QED
  BY <1>1, <1>2, <1>3, <1>4, <1>5, <1>6, <1>7, <1>8 DEF CutsInv

\* What is known where a scene is cut.
LEMMA AtScene ==
  ASSUME CutsInv, pc = "cut", scenes # <<>>
  PROVE  /\ CutTypes /\ SceneInv /\ CoverInv /\ GoodClips(spans) /\ windows = <<>>
         /\ options.split = "transnet" /\ options.mode \in {"truncate", "stride"}
         /\ options.max \in Nat /\ options.min \in Nat /\ total \in Nat
         /\ 1 \in 1 .. Len(scenes) /\ scenes[1] \in Nat \X Nat /\ scenes[1][2] <= total
         /\ scenes[1][1] <= current /\ current <= scenes[1][2] /\ current \in Nat
         /\ scenes[1][1] \in Nat /\ scenes[1][2] \in Nat
         /\ \A k \in 1 .. Len(spans) : spans[k][2] <= current
         /\ \A k \in 1 .. Len(scenes) : k = 1 \/ k \in 2 .. Len(scenes)
         /\ spans \in Seq(Nat \X Nat) /\ scenes \in Seq(Nat \X Nat)
         /\ Detected => Clean(scenes[1])
         /\ options.max = 0 \/ options.mode = "truncate" => current = scenes[1][1]
<1>1. CutTypes /\ SceneInv /\ CoverInv /\ GoodClips(spans) /\ windows = <<>>
  BY GoodIsSound DEF CutsInv, WindowInv
<1>2. /\ options.split = "transnet" /\ options.mode \in {"truncate", "stride"}
      /\ options.max \in Nat /\ options.min \in Nat /\ total \in Nat /\ current \in Nat
      /\ spans \in Seq(Nat \X Nat) /\ scenes \in Seq(Nat \X Nat)
  BY <1>1, CutConstants DEF CutTypes
<1>3. 1 \in 1 .. Len(scenes) /\ scenes[1] \in Nat \X Nat /\ \A k \in 1 .. Len(scenes) : k = 1 \/ k \in 2 .. Len(scenes)
  BY <1>2
<1>4. scenes[1][2] <= total
  BY <1>1, <1>3 DEF SceneInv, Inside
<1>5. Detected => Clean(scenes[1])
  BY <1>1, <1>3, Zenon DEF SceneInv
<1>6. /\ scenes[1][1] <= current /\ current <= scenes[1][2]
      /\ \A k \in 1 .. Len(spans) : spans[k][2] <= current
      /\ options.max = 0 \/ options.mode = "truncate" => current = scenes[1][1]
  BY <1>1, Zenon DEF SceneInv
<1>7. scenes[1][1] \in Nat /\ scenes[1][2] \in Nat
  BY <1>3
<1> QED
  BY <1>1, <1>2, <1>3, <1>4, <1>5, <1>6, <1>7

\* A piece of the scene at hand shows no transition if the scene does not.
LEMMA PieceClean ==
  ASSUME NEW s \in Nat \X Nat, NEW p \in Nat \X Nat, s[1] <= p[1], p[2] <= s[2], Clean(s), total \in Nat
  PROVE  Clean(p)
<1> SUFFICES ASSUME NEW f \in 0 .. (total - 1), Holds(p, f) PROVE Holds(s, f)
  BY DEF Clean
<1>1. PICK a \in Nat, z \in Nat, b \in Nat, y \in Nat : a = s[1] /\ z = s[2] /\ b = p[1] /\ y = p[2]
  OBVIOUS
<1>2. f \in Int /\ a <= b /\ y <= z /\ b <= f /\ f < y
  BY <1>1 DEF Holds
<1>3. a <= f /\ f < z
  BY <1>2
<1> QED
  BY <1>1, <1>3 DEF Holds

LEMMA PieceEnds ==
  ASSUME NEW c \in Nat, NEW z \in Nat, NEW max \in Nat, NEW final \in Nat, c <= z, z <= final
  PROVE  /\ Least(c + max, z) \in Nat /\ c <= Least(c + max, z) /\ Least(c + max, z) <= z
         /\ Least(c + max, z) <= final /\ Least(c + max, z) - c <= max
         /\ c < z /\ max > 0 => Least(c + max, z) - c > 0
  BY DEF Least

LEMMA CutSceneKeeps ==
  ASSUME CutsInv, CutScene
  PROVE  CutsInv'
<1>0. pc = "cut" /\ scenes # <<>> /\ (options.max = 0 \/ options.mode = "truncate") /\ NextScene
      /\ UNCHANGED <<options, total, cuts, pc, predictions, i, t, tPrev, start, windows>>
  BY DEF CutScene
<1>1. /\ CutTypes /\ SceneInv /\ CoverInv /\ GoodClips(spans) /\ windows = <<>>
      /\ options.split = "transnet" /\ options.mode \in {"truncate", "stride"}
      /\ options.max \in Nat /\ options.min \in Nat /\ total \in Nat
      /\ 1 \in 1 .. Len(scenes) /\ scenes[1] \in Nat \X Nat /\ scenes[1][2] <= total
      /\ \A k \in 1 .. Len(spans) : spans[k][2] <= current
      /\ \A k \in 1 .. Len(scenes) : k = 1 \/ k \in 2 .. Len(scenes)
      /\ spans \in Seq(Nat \X Nat) /\ scenes \in Seq(Nat \X Nat)
      /\ Detected => Clean(scenes[1])
      /\ current = scenes[1][1] /\ scenes[1][1] <= scenes[1][2]
  BY <1>0, AtScene
<1> PICK a \in Nat, z \in Nat : a = scenes[1][1] /\ z = scenes[1][2]
  BY <1>1
<1>2. a <= z /\ z <= total /\ current = a
  BY <1>1
<1> DEFINE end == IF options.max = 0 THEN z ELSE Least(a + options.max, z)
           p   == <<a, end>>
<1>3. spans' = With(p)
  BY DEF CutScene
<1>4. end \in Nat /\ a <= end /\ end <= z /\ (options.max > 0 => end - a <= options.max)
      /\ (options.max = 0 => end = z) /\ end <= total
  <2>1. CASE options.max = 0
    BY <1>2, <2>1
  <2>2. CASE options.max # 0
    <3>1. end = Least(a + options.max, z)
      BY <2>2
    <3> HIDE DEF end
    <3> QED
      BY <1>1, <1>2, <2>2, <3>1, PieceEnds
  <2> QED
    BY <2>1, <2>2
<1> HIDE DEF end
<1>5. p \in Nat \X Nat /\ p[1] = a /\ p[2] = end /\ Length(p) = end - a
  BY <1>4 DEF Length
<1> HIDE DEF p
<1>6. Detected => Clean(p)
  <2>1. scenes[1][1] <= p[1] /\ p[2] <= scenes[1][2]
    BY <1>4, <1>5
  <2> QED
    BY <1>1, <1>5, <2>1, PieceClean
<1>7. p[1] <= p[2] /\ p[2] <= total /\ (options.max > 0 => Length(p) <= options.max)
      /\ ~ (options.max > 0 /\ options.mode = "stride") /\ \A k \in 1 .. Len(spans) : spans[k][2] <= p[1]
  BY <1>0, <1>1, <1>2, <1>4, <1>5
<1>8. /\ spans' \in Seq(Nat \X Nat) /\ GoodClips(spans')
      /\ \A k \in 1 .. Len(spans') : spans'[k][2] <= end
      /\ options.min = 0 /\ options.crop = 0 => \A f : Held(spans, f) \/ Holds(p, f) => Held(spans', f)
  BY <1>1, <1>3, <1>5, <1>6, <1>7, WithKeeps
<1>9. /\ scenes' \in Seq(Nat \X Nat) /\ current' \in Nat /\ Lined(scenes') /\ Inside(scenes')
      /\ Detected => \A k \in 1 .. Len(scenes') : Clean(scenes'[k])
      /\ scenes' # <<>> => /\ 1 \in 1 .. Len(scenes') /\ current' = scenes'[1][1]
                           /\ scenes'[1][1] <= scenes'[1][2] /\ scenes[1][2] <= current'
      /\ \A k \in 2 .. Len(scenes) : k - 1 \in 1 .. Len(scenes') /\ scenes'[k - 1] = scenes[k]
  BY <1>0, <1>1, NextSceneKeeps
<1>10. ASSUME scenes' # <<>>
       PROVE  /\ scenes'[1][1] <= current' /\ current' <= scenes'[1][2]
              /\ options.max = 0 \/ options.mode = "truncate" => current' = scenes'[1][1]
              /\ \A k \in 1 .. Len(spans') : spans'[k][2] <= current'
  <2>1. scenes'[1][1] <= current' /\ current' <= scenes'[1][2] /\ current' = scenes'[1][1]
    BY <1>9, <1>10
  <2>2. ASSUME NEW k \in 1 .. Len(spans') PROVE spans'[k][2] <= current'
    <3>1. spans'[k] \in Nat \X Nat
      BY <1>8, ElementOfSeq
    <3>2. PICK w \in Nat : w = spans'[k][2]
      BY <3>1
    <3>3. w <= end /\ end <= z /\ z <= current'
      BY <1>4, <1>8, <1>9, <1>10, <3>2, Zenon
    <3>4. w <= current'
      BY <1>4, <1>9, <3>3
    <3> QED
      BY <3>2, <3>4
  <2> QED
    BY <2>1, <2>2
<1>11. ASSUME KeepsScenes, NEW f \in 0 .. (total - 2), cuts[f] = 0
       PROVE  \/ Held(spans', f)
              \/ \E k \in 1 .. Len(scenes') : Holds(scenes'[k], f) /\ (k = 1 => current' <= f)
  <2>1. options.min = 0 /\ options.crop = 0 /\ options.max = 0
    BY <1>0, <1>11 DEF KeepsScenes
  <2>2. Holds(scenes[1], f) => Holds(p, f)
    BY <1>4, <1>5, <2>1 DEF Holds
  <2>3. Held(spans, f) \/ Holds(p, f) => Held(spans', f)
    BY <1>8, <2>1
  <2>4. Held(spans, f) \/ \E k \in 1 .. Len(scenes) : Holds(scenes[k], f)
    BY <1>0, <1>1, <1>11, Zenon DEF CoverInv
  <2>5. ASSUME NEW k \in 2 .. Len(scenes), Holds(scenes[k], f)
        PROVE  \E m \in 1 .. Len(scenes') : Holds(scenes'[m], f) /\ (m = 1 => current' <= f)
    <3>1. k - 1 \in 1 .. Len(scenes') /\ Holds(scenes'[k - 1], f)
      BY <1>9, <2>5
    <3>2. scenes' # <<>>
      BY <3>1
    <3>3. k - 1 = 1 => current' <= f
      BY <1>9, <3>1, <3>2, Zenon DEF Holds
    <3> QED
      BY <3>1, <3>3
  <2> QED
    BY <1>1, <2>2, <2>3, <2>4, <2>5
<1> QED
  BY <1>0, <1>8, <1>9, <1>10, <1>11, CutTurn

LEMMA CutPieceKeeps ==
  ASSUME CutsInv, CutPiece
  PROVE  CutsInv'
<1>0. pc = "cut" /\ scenes # <<>> /\ options.max > 0 /\ options.mode = "stride"
      /\ UNCHANGED <<options, total, cuts, pc, predictions, i, t, tPrev, start, windows>>
  BY DEF CutPiece
<1>1. /\ CutTypes /\ SceneInv /\ CoverInv /\ GoodClips(spans) /\ windows = <<>>
      /\ options.split = "transnet"
      /\ options.max \in Nat /\ options.min \in Nat /\ total \in Nat
      /\ 1 \in 1 .. Len(scenes) /\ scenes[1] \in Nat \X Nat /\ scenes[1][2] <= total
      /\ \A k \in 1 .. Len(spans) : spans[k][2] <= current
      /\ \A k \in 1 .. Len(scenes) : k = 1 \/ k \in 2 .. Len(scenes)
      /\ spans \in Seq(Nat \X Nat) /\ scenes \in Seq(Nat \X Nat)
      /\ Detected => Clean(scenes[1])
      /\ scenes[1][1] <= current /\ current <= scenes[1][2] /\ current \in Nat
  BY <1>0, AtScene
<1> PICK a \in Nat, z \in Nat : a = scenes[1][1] /\ z = scenes[1][2]
  BY <1>1
<1> DEFINE c   == current
           end == Least(c + options.max, z)
           p   == <<c, end>>
<1>2. a <= c /\ c <= z /\ z <= total /\ c \in Nat
  BY <1>1
<1>3. IF c >= z \/ (Length(p) < options.min /\ p[2] = z)
      THEN NextScene /\ UNCHANGED spans
      ELSE spans' = With(p) /\ current' = p[2] /\ UNCHANGED scenes
  BY DEF CutPiece
<1> HIDE DEF c
<1>4. end \in Nat /\ c <= end /\ end <= z /\ end <= total /\ end - c <= options.max /\ (c < z => end - c > 0)
  BY <1>0, <1>1, <1>2, PieceEnds
<1> HIDE DEF end
<1>5. p \in Nat \X Nat /\ p[1] = c /\ p[2] = end /\ Length(p) = end - c
  BY <1>2, <1>4 DEF Length
<1> HIDE DEF p
<1>6. CASE c >= z \/ (Length(p) < options.min /\ p[2] = z)
  <2>1. NextScene /\ spans' = spans
    BY <1>3, <1>6
  <2>2. /\ scenes' \in Seq(Nat \X Nat) /\ current' \in Nat /\ Lined(scenes') /\ Inside(scenes')
        /\ Detected => \A k \in 1 .. Len(scenes') : Clean(scenes'[k])
        /\ scenes' # <<>> => /\ 1 \in 1 .. Len(scenes') /\ current' = scenes'[1][1]
                             /\ scenes'[1][1] <= scenes'[1][2] /\ scenes[1][2] <= current'
        /\ \A k \in 2 .. Len(scenes) : k - 1 \in 1 .. Len(scenes') /\ scenes'[k - 1] = scenes[k]
    BY <1>0, <1>1, <2>1, NextSceneKeeps
  <2>3. ASSUME scenes' # <<>>
        PROVE  /\ scenes'[1][1] <= current' /\ current' <= scenes'[1][2]
               /\ options.max = 0 \/ options.mode = "truncate" => current' = scenes'[1][1]
               /\ \A k \in 1 .. Len(spans') : spans'[k][2] <= current'
    <3>1. scenes'[1][1] <= current' /\ current' <= scenes'[1][2] /\ current' = scenes'[1][1]
      BY <2>2, <2>3
    <3>2. ASSUME NEW k \in 1 .. Len(spans) PROVE spans[k][2] <= current'
      <4>1. spans[k] \in Nat \X Nat
        BY <1>1, ElementOfSeq
      <4>2. PICK w \in Nat : w = spans[k][2]
        BY <4>1
      <4>3. w <= c /\ z <= current'
        BY <1>1, <2>2, <2>3, <4>2, Zenon DEF c
      <4>4. w <= current'
        BY <1>2, <2>2, <4>3
      <4> QED
        BY <4>2, <4>4
    <3> QED
      BY <2>1, <3>1, <3>2
  <2>4. ASSUME KeepsScenes, NEW f \in 0 .. (total - 2), cuts[f] = 0
        PROVE  \/ Held(spans', f)
               \/ \E k \in 1 .. Len(scenes') : Holds(scenes'[k], f) /\ (k = 1 => current' <= f)
    <3>1. c >= z
      BY <1>4, <1>5, <1>6, <2>4, <1>2 DEF KeepsScenes
    <3>2. PICK k \in 1 .. Len(scenes) : ~ Held(spans, f) => Holds(scenes[k], f) /\ (k = 1 => c <= f)
      BY <1>0, <1>1, <2>4, Zenon DEF CoverInv, c
    <3>3. ~ (Holds(scenes[1], f) /\ c <= f)
      <4>1. f \in Int
        BY <1>1
      <4>2. ~ (c <= f /\ f < z)
        BY <1>2, <3>1, <4>1
      <4> QED
        BY <4>2 DEF Holds
    <3>4. ASSUME k \in 2 .. Len(scenes), Holds(scenes[k], f)
          PROVE  \E m \in 1 .. Len(scenes') : Holds(scenes'[m], f) /\ (m = 1 => current' <= f)
      <4>1. k - 1 \in 1 .. Len(scenes') /\ Holds(scenes'[k - 1], f)
        BY <2>2, <3>4
      <4>2. scenes' # <<>>
        BY <4>1
      <4>3. k - 1 = 1 => current' <= f
        BY <2>2, <4>1, <4>2, Zenon DEF Holds
      <4> QED
        BY <4>1, <4>3
    <3> QED
      BY <1>1, <2>1, <3>2, <3>3, <3>4
  <2>5. GoodClips(spans') /\ spans' \in Seq(Nat \X Nat)
    BY <1>1, <2>1
  <2> QED
    BY <1>0, <2>2, <2>3, <2>4, <2>5, CutTurn
<1>7. CASE ~ (c >= z \/ (Length(p) < options.min /\ p[2] = z))
  <2>1. spans' = With(p) /\ current' = end /\ scenes' = scenes /\ c < z
    BY <1>2, <1>3, <1>5, <1>7
  <2>2. Detected => Clean(p)
    <3>1. scenes[1][1] <= p[1] /\ p[2] <= scenes[1][2]
      BY <1>2, <1>4, <1>5
    <3> QED
      BY <1>1, <1>5, <3>1, PieceClean
  <2>3. p[1] <= p[2] /\ p[2] <= total /\ Length(p) <= options.max /\ Length(p) > 0
        /\ \A k \in 1 .. Len(spans) : spans[k][2] <= p[1]
    BY <1>1, <1>4, <1>5, <2>1, Zenon DEF c
  <2>4. /\ spans' \in Seq(Nat \X Nat) /\ GoodClips(spans')
        /\ \A k \in 1 .. Len(spans') : spans'[k][2] <= end
        /\ options.min = 0 /\ options.crop = 0 => \A f : Held(spans, f) \/ Holds(p, f) => Held(spans', f)
    BY <1>1, <1>5, <2>1, <2>2, <2>3, WithKeeps
  <2>5. Lined(scenes') /\ Inside(scenes') /\ (Detected => \A k \in 1 .. Len(scenes') : Clean(scenes'[k]))
    BY <1>0, <1>1, <2>1, Zenon DEF SceneInv
  <2>6. /\ scenes'[1][1] <= current' /\ current' <= scenes'[1][2]
        /\ ~ (options.max = 0 \/ options.mode = "truncate")
        /\ \A k \in 1 .. Len(spans') : spans'[k][2] <= current'
    <3>1. a <= end /\ end <= z
      BY <1>2, <1>4
    <3>2. ~ (options.max = 0 \/ options.mode = "truncate")
      BY <1>0, <1>1
    <3> QED
      BY <2>1, <2>4, <3>1, <3>2
  <2>7. ASSUME KeepsScenes, NEW f \in 0 .. (total - 2), cuts[f] = 0
        PROVE  \/ Held(spans', f)
               \/ \E k \in 1 .. Len(scenes') : Holds(scenes'[k], f) /\ (k = 1 => current' <= f)
    <3>1. options.min = 0 /\ options.crop = 0
      BY <2>7 DEF KeepsScenes
    <3>2. PICK k \in 1 .. Len(scenes) : ~ Held(spans, f) => Holds(scenes[k], f) /\ (k = 1 => c <= f)
      BY <1>0, <1>1, <2>7, Zenon DEF CoverInv, c
    <3>3. k = 1 /\ c <= f /\ ~ Holds(p, f) => end <= f
      <4>1. f \in Int
        BY <1>1
      <4>2. ~ (c <= f /\ f < end) /\ c <= f => end <= f
        BY <1>4, <4>1
      <4> QED
        BY <1>5, <4>2 DEF Holds
    <3>4. Held(spans, f) \/ Holds(p, f) => Held(spans', f)
      BY <2>4, <3>1
    <3> QED
      BY <2>1, <3>2, <3>3, <3>4
  <2>8. current' \in Nat /\ scenes' \in Seq(Nat \X Nat)
    BY <1>1, <1>4, <2>1
  <2> QED
    BY <1>0, <2>4, <2>5, <2>6, <2>7, <2>8, CutTurn
<1> QED
  BY <1>6, <1>7

LEMMA StrideSpanKeeps ==
  ASSUME CutsInv, StrideSpan
  PROVE  CutsInv'
<1>0. /\ pc = "spans" /\ current < total /\ options.split = "stride"
      /\ total \in Nat /\ current \in Nat /\ options.len \in Nat \ {0} /\ options.stride \in Nat \ {0}
      /\ options.min \in Nat /\ spans \in Seq(Nat \X Nat) /\ GoodClips(spans) /\ CoverInv /\ CutTypes
      /\ current' = current + options.stride /\ windows = <<>>
      /\ UNCHANGED <<options, total, cuts, pc, predictions, i, t, tPrev, start, scenes, windows>>
  <2>1. CutTypes /\ CoverInv /\ GoodClips(spans) /\ WindowInv
    BY GoodIsSound DEF CutsInv
  <2>2. /\ pc = "spans" /\ current < total /\ current' = current + options.stride
        /\ UNCHANGED <<options, total, cuts, pc, predictions, i, t, tPrev, start, scenes, windows>>
    BY DEF StrideSpan
  <2>3. /\ options.split = "stride" /\ total \in Nat /\ current \in Nat /\ options.len \in Nat \ {0}
        /\ options.stride \in Nat \ {0} /\ options.min \in Nat /\ spans \in Seq(Nat \X Nat)
    BY <2>1, <2>2, CutConstants DEF CutTypes
  <2>4. windows = <<>>
    BY <2>1, <2>2 DEF WindowInv
  <2> QED
    BY <2>1, <2>2, <2>3, <2>4, Zenon
<1> DEFINE end == Least(current + options.len, total)
           s   == <<current, end>>
<1>1. spans' = IF Length(s) >= options.min THEN Append(spans, s) ELSE spans
  BY DEF StrideSpan
<1>2. end \in Nat /\ current <= end /\ end <= total /\ end - current <= options.len /\ end - current > 0
  <2>1. current \in Nat /\ total \in Nat /\ current < total /\ current <= total /\ total <= total
        /\ options.len > 0 /\ options.len \in Nat
    BY <1>0
  <2> QED
    BY <2>1, PieceEnds
<1>3. end = total \/ end = current + options.len
  BY DEF Least
<1> HIDE DEF end
<1>4. s \in Nat \X Nat /\ s[1] = current /\ s[2] = end /\ Length(s) = end - current
  BY <1>0, <1>2 DEF Length
<1> HIDE DEF s
<1>5. /\ spans' \in Seq(Nat \X Nat) /\ GoodClips(spans')
      /\ \A f : Held(spans, f) => Held(spans', f)
      /\ options.min <= 1 => \A f : Holds(s, f) => Held(spans', f)
  <2>1. CASE Length(s) >= options.min
    <3>1. spans' = Append(spans, s)
      BY <1>1, <2>1
    <3>2. GoodClip(s)
      BY <1>0, <1>2, <1>4, <2>1 DEF GoodClip
    <3>3. GoodClips(spans')
      BY <1>0, <1>4, <3>1, <3>2, AppendGood
    <3>4. spans' \in Seq(Nat \X Nat) /\ \A f : Held(spans', f) <=> Held(spans, f) \/ Holds(s, f)
      BY <1>0, <1>4, <3>1, AppendHeld
    <3> QED
      BY <3>3, <3>4
  <2>2. CASE ~ (Length(s) >= options.min)
    <3>1. spans' = spans
      BY <1>1, <2>2
    <3>2. ~ (options.min <= 1)
      BY <1>0, <1>2, <1>4, <2>2
    <3> QED
      BY <1>0, <3>1, <3>2
  <2> QED
    BY <2>1, <2>2
<1>6. CutTypes'
  BY <1>0, <1>5 DEF CutTypes
<1>7. Predicted' /\ ScanInv' /\ SceneInv' /\ NothingLost'
  BY <1>0 DEF CutsInv, Predicted, ScanInv, SceneInv, NothingLost
<1>8. ClipsSound'
  <2>1. GoodClips(spans)'
    BY <1>0, <1>5 DEF GoodClips, GoodClip, Detected, Clean, Holds, Length
  <2> QED
    BY <2>1 DEF ClipsSound, GoodClips, GoodClip, Clean
<1>9. CoverInv'
  <2> SUFFICES ASSUME KeepsSpans, NEW f \in 0 .. (total - 1), f < current'
               PROVE  Held(spans', f)
    BY <1>0 DEF CoverInv, KeepsSpans, Held, Holds
  <2>1. CASE f < current
    BY <1>0, <1>5, <2>1 DEF CoverInv
  <2>2. CASE ~ (f < current)
    <3>1. f \in Int /\ current <= f /\ f < total /\ f < current + options.stride
      BY <1>0, <2>2
    <3>2. options.stride <= options.len /\ options.min <= 1
      BY DEF KeepsSpans
    <3>3. f < end
      BY <1>0, <1>2, <1>3, <3>1, <3>2
    <3>4. Holds(s, f)
      BY <1>4, <3>1, <3>3 DEF Holds
    <3> QED
      BY <1>5, <3>2, <3>4
  <2> QED
    BY <2>1, <2>2
<1>10. WindowInv'
  BY <1>0, <1>5 DEF WindowInv
<1> QED
  BY <1>6, <1>7, <1>8, <1>9, <1>10 DEF CutsInv

LEMMA LimitKeeps ==
  ASSUME CutsInv, Limit
  PROVE  CutsInv'
<1>0. /\ CutTypes /\ CoverInv /\ GoodClips(spans) /\ spans \in Seq(Nat \X Nat) /\ windows = <<>>
      /\ options.limit \in Nat /\ total \in Nat /\ current \in Nat /\ Len(spans) \in Nat
      /\ (pc = "cut" /\ scenes = <<>>) \/ (pc = "spans" /\ current >= total)
      /\ spans' = IF options.limit > 0 THEN SubSeq(spans, 1, Least(options.limit, Len(spans))) ELSE spans
      /\ pc' = "windows"
      /\ UNCHANGED <<options, total, cuts, predictions, i, t, tPrev, start, scenes, current, windows>>
  BY CutConstants, GoodIsSound DEF CutsInv, CutTypes, WindowInv, Limit
<1>1. spans' \in Seq(Nat \X Nat) /\ Len(spans') <= Len(spans) /\ \A k \in 1 .. Len(spans') : spans'[k] = spans[k]
  <2>1. CASE options.limit > 0
    <3> DEFINE n == Least(options.limit, Len(spans))
    <3>1. n \in Nat /\ n <= Len(spans)
      BY <1>0 DEF Least
    <3>2. spans' = SubSeq(spans, 0 + 1, n)
      <4>1. 0 + 1 = 1
        OBVIOUS
      <4> QED
        BY <1>0, <2>1, <4>1, Zenon
    <3> HIDE DEF n
    <3>3. spans' \in Seq(Nat \X Nat)
      BY <1>0, <3>1, <3>2, PieceOf
    <3>4. Len(spans') = n - 0 /\ \A k \in 1 .. (n - 0) : spans'[k] = spans[0 + k]
      <4>1. 0 \in Nat /\ 0 <= n
        BY <3>1
      <4> QED
        <5>1. spans \in Seq(Nat \X Nat)
          BY <1>0
        <5>2. Len(SubSeq(spans, 0 + 1, n)) = n - 0
              /\ \A k \in 1 .. (n - 0) : SubSeq(spans, 0 + 1, n)[k] = spans[0 + k]
          BY <3>1, <4>1, <5>1, PieceIs
        <5> QED
          BY <3>2, <5>2, Zenon
    <3>5. n - 0 = n /\ \A k \in Int : 0 + k = k
      BY <3>1
    <3>6. \A k \in 1 .. n : spans'[k] = spans[k]
      BY <3>4, <3>5
    <3> QED
      BY <1>0, <3>1, <3>3, <3>4, <3>5, <3>6, Zenon
  <2>2. CASE ~ (options.limit > 0)
    <3>1. spans' = spans
      BY <1>0, <2>2
    <3>2. Len(spans) <= Len(spans)
      <4> PICK m \in Nat : m = Len(spans)
        BY <1>0
      <4>1. m <= m
        OBVIOUS
      <4> QED
        BY <4>1
    <3> QED
      BY <1>0, <3>1, <3>2, Zenon
  <2> QED
    BY <2>1, <2>2
<1>2. GoodClips(spans')
  <2> SUFFICES ASSUME NEW k \in 1 .. Len(spans')
               PROVE  GoodClip(spans'[k]) /\ (options.split = "transnet" /\ k > 1 => spans'[k - 1][2] <= spans'[k][1])
    BY DEF GoodClips
  <2>1. PICK m \in Nat : m = Len(spans')
    BY <1>1
  <2>2. PICK n \in Nat : n = Len(spans)
    BY <1>0
  <2>3. k \in 1 .. Len(spans) /\ (k > 1 => k - 1 \in 1 .. Len(spans'))
    <3>1. m <= n /\ k \in 1 .. m
      BY <1>1, <2>1, <2>2, Zenon
    <3>2. k \in 1 .. n /\ (k > 1 => k - 1 \in 1 .. m)
      BY <3>1
    <3> QED
      BY <2>1, <2>2, <3>2, Zenon
  <2>4. spans'[k] = spans[k] /\ (k > 1 => spans'[k - 1] = spans[k - 1])
    BY <1>1, <2>3, Zenon
  <2>5. GoodClip(spans[k]) /\ (options.split = "transnet" /\ k > 1 => spans[k - 1][2] <= spans[k][1])
    BY <1>0, <2>3, Zenon DEF GoodClips
  <2> QED
    BY <2>4, <2>5, Zenon
<1>3. ClipsSound'
  <2>1. GoodClips(spans)'
    BY <1>0, <1>2 DEF GoodClips, GoodClip, Detected, Clean, Holds, Length
  <2> QED
    BY <2>1 DEF ClipsSound, GoodClips, GoodClip, Clean
<1>4. NothingLost'
  <2> SUFFICES ASSUME options.limit = 0, options.min <= 1
               PROVE  /\ options.split = "transnet" /\ KeepsScenes =>
                           \A f \in 0 .. (total - 2) : cuts[f] = 0 => Held(spans, f)
                      /\ options.split = "stride" /\ options.stride <= options.len =>
                           \A f \in 0 .. (total - 1) : Held(spans, f)
    <3>1. spans' = spans \/ options.limit # 0
      BY <1>0
    <3> QED
      BY <1>0, <3>1 DEF NothingLost, KeepsScenes, Held, Holds, Detected
  <2>1. ASSUME options.split = "transnet", KeepsScenes, NEW f \in 0 .. (total - 2), cuts[f] = 0
        PROVE  Held(spans, f)
    <3>1. pc = "cut" /\ scenes = <<>> /\ ~ \E k \in 1 .. Len(scenes) : TRUE
      BY <1>0, <2>1 DEF CutTypes
    <3> QED
      BY <1>0, <2>1, <3>1, Zenon DEF CoverInv
  <2>2. ASSUME options.split = "stride", options.stride <= options.len, NEW f \in 0 .. (total - 1)
        PROVE  Held(spans, f)
    <3>1. pc = "spans" /\ KeepsSpans /\ f < current
      BY <1>0, <2>2 DEF CutTypes, KeepsSpans
    <3> QED
      BY <1>0, <3>1, Zenon DEF CoverInv
  <2> QED
    BY <2>1, <2>2
<1>5. CutTypes'
  BY <1>0, <1>1 DEF CutTypes
<1>6. Predicted' /\ ScanInv' /\ SceneInv' /\ CoverInv'
  BY <1>0 DEF CutsInv, Predicted, ScanInv, SceneInv, CoverInv
<1>7. WindowInv'
  BY <1>0, <1>1 DEF WindowInv
<1> QED
  BY <1>3, <1>4, <1>5, <1>6, <1>7 DEF CutsInv

LEMMA WindowKeeps ==
  ASSUME CutsInv, Window
  PROVE  CutsInv'
<1> DEFINE S == {compute_windows(n, options.size, options.threshold) : n \in Nat}
           m == Len(windows) + 1
           w == compute_windows(Length(spans[m]), options.size, options.threshold)
<1>0. /\ CutTypes /\ WindowInv /\ pc = "windows" /\ spans \in Seq(Nat \X Nat) /\ windows \in Seq(S)
      /\ Len(windows) \in Nat /\ Len(windows) < Len(spans) /\ windows' = Append(windows, w)
      /\ UNCHANGED <<options, total, cuts, pc, predictions, i, t, tPrev, start, scenes, current, spans>>
  BY DEF CutsInv, CutTypes, Window
<1>1. m \in 1 .. Len(spans)
  BY <1>0
<1>2. Length(spans[m]) \in Nat
  <2>1. spans[m] \in Nat \X Nat
    BY <1>0, <1>1, ElementOfSeq
  <2>2. spans[m][1] <= spans[m][2]
    BY <1>1 DEF CutsInv, ClipsSound
  <2> QED
    BY <2>1, <2>2 DEF Length
<1>3. w \in S
  BY <1>2
<1> HIDE DEF S, w
<1>4. /\ windows' \in Seq(S) /\ Len(windows') = Len(windows) + 1
      /\ \A k \in 1 .. Len(windows) : windows'[k] = windows[k]
      /\ windows'[Len(windows) + 1] = w
  BY <1>0, <1>3, AppendProperties
<1>5. CutTypes'
  <2>1. S' = S
    BY <1>0 DEF S, compute_windows
  <2> QED
    BY <1>0, <1>4, <2>1 DEF CutTypes, S
<1>6. Predicted' /\ ScanInv' /\ SceneInv' /\ CoverInv'
  BY <1>0 DEF CutsInv, Predicted, ScanInv, SceneInv, CoverInv
<1>7. ClipsSound'
  BY <1>0 DEF CutsInv, ClipsSound, Detected, Holds, Length
<1>8. NothingLost'
  BY <1>0 DEF CutsInv, NothingLost, Detected, Holds
<1>9. WindowInv'
  <2>1. ASSUME NEW k \in 1 .. Len(windows')
        PROVE  windows'[k] = compute_windows(Length(spans[k]), options.size, options.threshold)
    <3>0. PICK n \in Nat : n = Len(windows)
      BY <1>0
    <3>1. k \in 1 .. Len(windows) \/ k = m
      <4>1. k \in 1 .. n + 1
        BY <1>4, <3>0, Zenon
      <4>2. k \in 1 .. n \/ k = n + 1
        BY <4>1
      <4> QED
        BY <3>0, <4>2, Zenon
    <3>2. CASE k \in 1 .. Len(windows)
      BY <1>0, <1>4, <3>2, Zenon DEF WindowInv
    <3>3. CASE k = m
      BY <1>4, <3>3, Zenon DEF w
    <3> QED
      BY <3>1, <3>2, <3>3
  <2>2. Len(windows') <= Len(spans')
    BY <1>0, <1>4
  <2> QED
    BY <1>0, <2>1, <2>2 DEF WindowInv, compute_windows, Length
<1> QED
  BY <1>5, <1>6, <1>7, <1>8, <1>9 DEF CutsInv

LEMMA CutsStep == CutsInv /\ [CutNext]_cutVars => CutsInv'
<1> SUFFICES ASSUME CutsInv, [CutNext]_cutVars PROVE CutsInv'
  OBVIOUS
<1>1. CASE UNCHANGED cutVars
  <2>0. UNCHANGED <<options, total, cuts, pc, predictions, i, t, tPrev, start, scenes, current, spans, windows>>
    BY <1>1 DEF cutVars
  <2>1. CutTypes'
    BY <2>0 DEF CutsInv, CutTypes, compute_windows
  <2>2. Predicted'
    BY <2>0 DEF CutsInv, Predicted
  <2>3. ScanInv'
    BY <2>0 DEF CutsInv, ScanInv, Lined, Inside, Clean, Held, Holds
  <2>4. SceneInv'
    BY <2>0 DEF CutsInv, SceneInv, Lined, Inside, Clean, Holds, Detected
  <2>5. ClipsSound'
    BY <2>0 DEF CutsInv, ClipsSound, Holds, Detected, Length
  <2>6. CoverInv'
    BY <2>0 DEF CutsInv, CoverInv, KeepsScenes, KeepsSpans, Held, Holds, Detected
  <2>7. NothingLost'
    BY <2>0 DEF CutsInv, NothingLost, Holds, Detected
  <2>8. WindowInv'
    BY <2>0 DEF CutsInv, WindowInv, compute_windows, Length
  <2> QED
    BY <2>1, <2>2, <2>3, <2>4, <2>5, <2>6, <2>7, <2>8 DEF CutsInv
<1> QED
  BY <1>1, PredictKeeps, ScanKeeps, ScannedKeeps, CutSceneKeeps, CutPieceKeeps, StrideSpanKeeps, LimitKeeps,
     WindowKeeps DEF CutNext

LEMMA CutsAreRight == CutsInv => CutsSound
<1> SUFFICES ASSUME CutsInv, NEW k \in 1 .. Len(windows)
             PROVE  Tiles(windows[k], Length(spans[k]), options.size, options.threshold)
  BY DEF CutsInv, CutsSound
<1>1. spans \in Seq(Nat \X Nat) /\ options.size \in Nat \ {0} /\ options.threshold \in Nat \ {0}
      /\ windows \in Seq({compute_windows(n, options.size, options.threshold) : n \in Nat})
  BY CutConstants DEF CutsInv, CutTypes
<1>2. k \in 1 .. Len(spans)
  <2>1. Len(windows) \in Nat /\ Len(spans) \in Nat /\ Len(windows) <= Len(spans)
    BY <1>1 DEF CutsInv, WindowInv
  <2> QED
    BY <2>1
<1>3. Length(spans[k]) \in Nat
  <2>1. spans[k] \in Nat \X Nat
    BY <1>1, <1>2, ElementOfSeq
  <2>2. spans[k][1] <= spans[k][2]
    BY <1>2 DEF CutsInv, ClipsSound
  <2> QED
    BY <2>1, <2>2 DEF Length
<1>4. windows[k] = compute_windows(Length(spans[k]), options.size, options.threshold)
  BY DEF CutsInv, WindowInv
<1> QED
  BY <1>1, <1>3, <1>4, WindowsTile

\* A video is cut where it should be and all of it that should be kept is captioned once (the
\* loops of transnetv2_extraction_stages.py, clip_extraction_stages.py and windowing_utils.py),
\* whatever its frames, the options and the size of a batch.
THEOREM CutsAreSound == CutSpec => []CutsSound
<1>1. CutSpec => []CutsInv
  BY CutsStart, CutsStep, PTL DEF CutSpec
<1> QED
  BY <1>1, CutsAreRight, PTL

-----------------------------------------------------------------------------
(* Another side is blamed when the outputs are taken the other way round. *)
Swapped(o) == [a |-> o["b"], b |-> o["a"]]
SwappedRow(r) == [clip |-> r.clip, kind |-> r.kind, a |-> r.b, b |-> r.a]
Blamed(iss)  == <<iss[1], iss[2], IF iss[3] = "both" THEN "both" ELSE Compare!Other(iss[3])>>
Turned(I)  == {Blamed(iss) : iss \in I}
RowsAny == [clip : ListedClips, kind : {"clip", "filtered_clip"}, a : BOOLEAN, b : BOOLEAN]

LEMMA OtherSide == Compare!Other("a") = "b" /\ Compare!Other("b") = "a"
BY DEF Compare!Other, Compare!Sides

LEMMA TurnedBoth ==
  ASSUME NEW I, \A iss \in I : iss = <<iss[1], iss[2], "both">>
  PROVE  Turned(I) = I
BY DEF Turned, Blamed

LEMMA TurnedUnion ==
  ASSUME NEW I, NEW J, NEW K, NEW S, S = (I \cup J) \cup K
  PROVE  Turned(S) = (Turned(I) \cup Turned(J)) \cup Turned(K)
BY DEF Turned

\* The issues of all of S, each a set.
AllOf(F, S) == UNION {F[r] : r \in S}

LEMMA TurnedMany ==
  ASSUME NEW S, NEW F, NEW G, \A r \in S : G[r] = Turned(F[r])
  PROVE  AllOf(G, S) = Turned(AllOf(F, S))
<1>1. ASSUME NEW iss \in Turned(AllOf(F, S)) PROVE iss \in AllOf(G, S)
  <2>1. PICK j \in AllOf(F, S) : iss = Blamed(j)
    BY DEF Turned
  <2>2. PICK r \in S : j \in F[r]
    BY <2>1 DEF AllOf
  <2>3. iss \in Turned(F[r])
    BY <2>1, <2>2 DEF Turned
  <2> QED
    BY <2>3 DEF AllOf
<1>2. ASSUME NEW iss \in AllOf(G, S) PROVE iss \in Turned(AllOf(F, S))
  <2>1. PICK r \in S : iss \in Turned(F[r])
    BY DEF AllOf
  <2>2. PICK j \in F[r] : iss = Blamed(j)
    BY <2>1 DEF Turned
  <2>3. j \in AllOf(F, S)
    BY <2>2 DEF AllOf
  <2> QED
    BY <2>2, <2>3 DEF Turned
<1> QED
  BY <1>1, <1>2

\* Issues of one kind about one thing.
About(k, w, S) == {<<k, w, s>> : s \in S}
Others(S) == {Compare!Other(s) : s \in S}

LEMMA TurnedSides ==
  ASSUME NEW k, NEW w, NEW S \in SUBSET Compare!Sides
  PROVE  Turned(About(k, w, S)) = About(k, w, Others(S)) /\ Others(Others(S)) = S
<1>1. \A s \in Compare!Sides : Blamed(<<k, w, s>>) = <<k, w, Compare!Other(s)>>
  BY OtherSide DEF Blamed, Compare!Sides
<1>2. Turned(About(k, w, S)) = About(k, w, Others(S))
  BY <1>1 DEF Turned, About, Others
<1>3. Others(Others(S)) = S
  BY OtherSide DEF Others, Compare!Sides
<1> QED
  BY <1>2, <1>3

\* The sides with a property, when the sides have changed.
LEMMA SidesSwapped ==
  ASSUME NEW P, NEW Q, (Q["a"] <=> P["b"]), (Q["b"] <=> P["a"])
  PROVE  /\ {s \in Compare!Sides : Q[s]} = Others({s \in Compare!Sides : P[s]})
         /\ {s \in Compare!Sides : P[s]} \in SUBSET Compare!Sides
BY OtherSide DEF Others, Compare!Sides

LEMMA ScoreTurned ==
  ASSUME NEW c, NEW f, NEW x, NEW y, y["a"] = x["b"], y["b"] = x["a"]
  PROVE  Compare!ScoreIssues(c, f, y) = Turned(Compare!ScoreIssues(c, f, x))
<1> DEFINE X(kind) == {s \in Compare!Sides : Compare!ReadScore(x[s]) = kind}
           Y(kind) == {s \in Compare!Sides : Compare!ReadScore(y[s]) = kind}
<1>1. Y("corrupt") = Others(X("corrupt")) /\ Y("present") = Others(X("present"))
  BY OtherSide DEF Others, Compare!Sides
<1>0. X("corrupt") \in SUBSET Compare!Sides /\ X("present") \in SUBSET Compare!Sides
  OBVIOUS
<1>2. Compare!Close(x["a"], x["b"]) <=> Compare!Close(y["a"], y["b"])
  BY DEF Compare!Close
<1>3. ASSUME NEW z, NEW C, NEW P, C = {s \in Compare!Sides : Compare!ReadScore(z[s]) = "corrupt"},
             P = {s \in Compare!Sides : Compare!ReadScore(z[s]) = "present"}
      PROVE  Compare!ScoreIssues(c, f, z) =
               IF C # {} THEN About("metadata_value_invalid_type", <<c, f>>, C)
               ELSE IF P = Compare!Sides
                    THEN IF Compare!Close(z["a"], z["b"]) THEN {} ELSE {<<"score_mismatch", <<c, f>>, "both">>}
                    ELSE About("metadata_value_one_sided", <<c, f>>, Others(P))
  BY <1>3 DEF Compare!ScoreIssues, About, Others
<1> HIDE DEF X, Y
<1>4. Turned({}) = {} /\ Turned({<<"score_mismatch", <<c, f>>, "both">>}) = {<<"score_mismatch", <<c, f>>, "both">>}
  BY TurnedBoth
<1>5. Others({}) = {} /\ Others(Compare!Sides) = Compare!Sides
  BY OtherSide DEF Others, Compare!Sides
<1>6. /\ Others(Others(X("corrupt"))) = X("corrupt") /\ Others(Others(X("present"))) = X("present")
      /\ Others(X("present")) \in SUBSET Compare!Sides
  BY <1>0, TurnedSides, OtherSide DEF Others, Compare!Sides
<1>7. /\ Compare!ScoreIssues(c, f, x) =
           IF X("corrupt") # {} THEN About("metadata_value_invalid_type", <<c, f>>, X("corrupt"))
           ELSE IF X("present") = Compare!Sides
                THEN IF Compare!Close(x["a"], x["b"]) THEN {} ELSE {<<"score_mismatch", <<c, f>>, "both">>}
                ELSE About("metadata_value_one_sided", <<c, f>>, Others(X("present")))
  BY <1>3 DEF X
<1>8. /\ Compare!ScoreIssues(c, f, y) =
           IF Y("corrupt") # {} THEN About("metadata_value_invalid_type", <<c, f>>, Y("corrupt"))
           ELSE IF Y("present") = Compare!Sides
                THEN IF Compare!Close(y["a"], y["b"]) THEN {} ELSE {<<"score_mismatch", <<c, f>>, "both">>}
                ELSE About("metadata_value_one_sided", <<c, f>>, Others(Y("present")))
  BY <1>3 DEF Y
<1>9. /\ Y("corrupt") = {} <=> X("corrupt") = {}
      /\ Y("present") = Compare!Sides <=> X("present") = Compare!Sides
  BY <1>1, <1>5, <1>6
<1>10. /\ Turned(About("metadata_value_invalid_type", <<c, f>>, X("corrupt")))
            = About("metadata_value_invalid_type", <<c, f>>, Y("corrupt"))
       /\ Turned(About("metadata_value_one_sided", <<c, f>>, Others(X("present"))))
            = About("metadata_value_one_sided", <<c, f>>, Others(Y("present")))
  BY <1>0, <1>1, <1>6, TurnedSides
<1> QED
  BY <1>2, <1>4, <1>7, <1>8, <1>9, <1>10

LEMMA MotionTurned ==
  ASSUME NEW c, NEW x, NEW y, y["a"] = x["b"], y["b"] = x["a"]
  PROVE  Compare!MotionIssues(c, y) = Turned(Compare!MotionIssues(c, x))
<1> DEFINE X == [f \in Compare!Fields |-> Compare!ScoreIssues(c, f, [s \in Compare!Sides |-> x[s].score[f]])]
           Y == [f \in Compare!Fields |-> Compare!ScoreIssues(c, f, [s \in Compare!Sides |-> y[s].score[f]])]
<1>1. CASE \A s \in Compare!Sides : x[s].there
  <2>1. \A s \in Compare!Sides : y[s].there
    BY <1>1 DEF Compare!Sides
  <2>2. ASSUME NEW f \in Compare!Fields PROVE Y[f] = Turned(X[f])
    BY ScoreTurned DEF Compare!Sides
  <2>3. Compare!MotionIssues(c, x) = AllOf(X, Compare!Fields)
    BY <1>1 DEF Compare!MotionIssues, AllOf
  <2>4. Compare!MotionIssues(c, y) = AllOf(Y, Compare!Fields)
    BY <2>1 DEF Compare!MotionIssues, AllOf
  <2> HIDE DEF X, Y
  <2> QED
    BY <2>2, <2>3, <2>4, TurnedMany
<1>2. CASE ~ \A s \in Compare!Sides : x[s].there
  <2> DEFINE S == {s \in Compare!Sides : x[s].there}
             T == {s \in Compare!Sides : y[s].there}
  <2>1. ~ \A s \in Compare!Sides : y[s].there
    BY <1>2 DEF Compare!Sides
  <2>2. Compare!MotionIssues(c, x) = About("metadata_value_one_sided", <<c, "motion_score">>, Others(S))
    BY <1>2 DEF Compare!MotionIssues, About, Others
  <2>3. Compare!MotionIssues(c, y) = About("metadata_value_one_sided", <<c, "motion_score">>, Others(T))
    BY <2>1 DEF Compare!MotionIssues, About, Others
  <2>4. T = Others(S) /\ Others(S) \in SUBSET Compare!Sides
    BY OtherSide DEF Compare!Sides, Others
  <2> QED
    BY <2>2, <2>3, <2>4, TurnedSides
<1> QED
  BY <1>1, <1>2

LEMMA CaptionTurned ==
  ASSUME NEW c, NEW x, NEW y, y["a"] = x["b"], y["b"] = x["a"]
  PROVE  Compare!CaptionIssues(c, y) = Turned(Compare!CaptionIssues(c, x))
<1>1. Compare!CaptionJobs(y) = Compare!CaptionJobs(x)
  BY DEF Compare!CaptionJobs
<1>2. ASSUME NEW u, NEW v PROVE Compare!Similar(u, v) <=> Compare!Similar(v, u)
  BY DEF Compare!Similar, Compare!Close
<1>3. Compare!CaptionIssues(c, y) = Compare!CaptionIssues(c, x)
  BY <1>1, <1>2 DEF Compare!CaptionIssues
<1>4. Turned(Compare!CaptionIssues(c, x)) = Compare!CaptionIssues(c, x)
  <2>1. \A iss \in Compare!CaptionIssues(c, x) : iss = <<iss[1], iss[2], "both">>
    BY DEF Compare!CaptionIssues
  <2> QED
    BY <2>1, TurnedBoth
<1> QED
  BY <1>3, <1>4

\* A row is of a clip that one of the outputs has at least.
ProperRow(r) == r \in RowsAny /\ (r.a \/ r.b)

LEMMA MetadataTurned ==
  ASSUME NEW o, NEW r, ProperRow(r)
  PROVE  Compare!MetadataIssues(Swapped(o), SwappedRow(r)) = Turned(Compare!MetadataIssues(o, r))
<1> DEFINE p  == Swapped(o)
           q  == SwappedRow(r)
           mo == [s \in Compare!Sides |-> o[s].meta[r.clip]]
           mp == [s \in Compare!Sides |-> p[s].meta[r.clip]]
<1>1. /\ mp["a"] = mo["b"] /\ mp["b"] = mo["a"]
      /\ q.clip = r.clip /\ q.kind = r.kind /\ q.a = r.b /\ q.b = r.a
  BY DEF Compare!Sides, Swapped, SwappedRow
<1>2. r.a \in BOOLEAN /\ r.b \in BOOLEAN /\ (r.a \/ r.b)
  BY DEF ProperRow, RowsAny
<1>3. CASE ~(r.a /\ r.b)
  <2> DEFINE S == {IF r.a THEN "b" ELSE "a"}
             T == {IF q.a THEN "b" ELSE "a"}
  <2>1. Compare!MetadataIssues(o, r) = About("metadata_one_sided", r.clip, S)
    BY <1>3 DEF Compare!MetadataIssues, About
  <2>2. Compare!MetadataIssues(p, q) = About("metadata_one_sided", r.clip, T)
    <3>1. ~(q.a /\ q.b)
      BY <1>1, <1>3
    <3> HIDE DEF p, q
    <3> QED
      BY <3>1, <1>1 DEF Compare!MetadataIssues, About
  <2>3. T = Others(S) /\ S \in SUBSET Compare!Sides
    BY <1>1, <1>2, <1>3, OtherSide DEF Others, Compare!Sides
  <2> HIDE DEF S, T
  <2> QED
    BY <2>1, <2>2, <2>3, TurnedSides
<1>4. CASE (r.a /\ r.b) /\ \E s \in Compare!Sides : mo[s].file # "ok"
  <2> DEFINE M(m) == {s \in Compare!Sides : m[s].file = "missing"}
             U(m) == {s \in Compare!Sides : m[s].file # "ok" /\ m[s].file # "missing"}
  <2>1. ASSUME NEW m, NEW c PROVE Compare!MetadataReadIssues(c, m) = About("metadata_one_sided", c, M(m)) \cup About("metadata_unreadable", c, U(m))
    BY DEF Compare!MetadataReadIssues, About
  <2>2. Compare!MetadataIssues(o, r) = Compare!MetadataReadIssues(r.clip, mo)
    BY <1>4 DEF Compare!MetadataIssues
  <2>3. Compare!MetadataIssues(p, q) = Compare!MetadataReadIssues(r.clip, mp)
    <3>1. (q.a /\ q.b) /\ \E s \in Compare!Sides : mp[s].file # "ok"
      BY <1>1, <1>4 DEF Compare!Sides
    <3>2. mp = [s \in Compare!Sides |-> p[s].meta[q.clip]]
      BY <1>1
    <3> HIDE DEF p, q
    <3> QED
      BY <3>1, <3>2, <1>1 DEF Compare!MetadataIssues
  <2>4. M(mp) = Others(M(mo)) /\ U(mp) = Others(U(mo))
    <3> HIDE DEF mp, mo
    <3> QED
      BY <1>1, OtherSide DEF Others, Compare!Sides
  <2>5. M(mo) \in SUBSET Compare!Sides /\ U(mo) \in SUBSET Compare!Sides
    OBVIOUS
  <2>6. Compare!MetadataReadIssues(r.clip, mo) = About("metadata_one_sided", r.clip, M(mo)) \cup About("metadata_unreadable", r.clip, U(mo))
    BY <2>1
  <2>7. Compare!MetadataReadIssues(r.clip, mp) = About("metadata_one_sided", r.clip, M(mp)) \cup About("metadata_unreadable", r.clip, U(mp))
    BY <2>1
  <2> HIDE DEF M, U, mo, mp, p, q
  <2>8. /\ Turned(About("metadata_one_sided", r.clip, M(mo))) = About("metadata_one_sided", r.clip, M(mp))
        /\ Turned(About("metadata_unreadable", r.clip, U(mo))) = About("metadata_unreadable", r.clip, U(mp))
    BY <2>4, <2>5, TurnedSides
  <2>9. Compare!MetadataIssues(p, q) = Turned(Compare!MetadataIssues(o, r))
    BY <2>2, <2>3, <2>6, <2>7, <2>8, TurnedUnion
  <2> QED
    BY <2>9 DEF p, q
<1>5. CASE (r.a /\ r.b) /\ ~ \E s \in Compare!Sides : mo[s].file # "ok"
  <2> DEFINE A(m) == Compare!ScoreIssues(r.clip, "aesthetic_score", [s \in Compare!Sides |-> m[s].aesthetic])
             B(m) == Compare!MotionIssues(r.clip, [s \in Compare!Sides |-> m[s].motion])
             C(m) == IF comparison.captions
                       THEN Compare!CaptionIssues(r.clip, [s \in Compare!Sides |-> m[s].caption]) ELSE {}
  <2>1. Compare!MetadataIssues(o, r) = A(mo) \cup B(mo) \cup C(mo)
    BY <1>5 DEF Compare!MetadataIssues
  <2>2. Compare!MetadataIssues(p, q) = A(mp) \cup B(mp) \cup C(mp)
    <3>1. (q.a /\ q.b) /\ ~ \E s \in Compare!Sides : mp[s].file # "ok"
      BY <1>1, <1>5 DEF Compare!Sides
    <3>2. mp = [s \in Compare!Sides |-> p[s].meta[q.clip]]
      BY <1>1
    <3> HIDE DEF p, q
    <3> QED
      BY <3>1, <3>2, <1>1 DEF Compare!MetadataIssues
  <2>3. A(mp) = Turned(A(mo)) /\ B(mp) = Turned(B(mo)) /\ C(mp) = Turned(C(mo))
    <3> HIDE DEF mp, mo
    <3>1. A(mp) = Turned(A(mo))
      BY <1>1, ScoreTurned DEF Compare!Sides
    <3>2. B(mp) = Turned(B(mo))
      BY <1>1, MotionTurned DEF Compare!Sides
    <3>3. Turned({}) = {}
      BY DEF Turned
    <3>4. C(mp) = Turned(C(mo))
      BY <1>1, <3>3, CaptionTurned DEF Compare!Sides
    <3> QED
      BY <3>1, <3>2, <3>4
  <2> HIDE DEF A, B, C, mo, mp, p, q
  <2>5. Compare!MetadataIssues(p, q) = Turned(Compare!MetadataIssues(o, r))
    <3>1. Turned(Compare!MetadataIssues(o, r)) = (Turned(A(mo)) \cup Turned(B(mo))) \cup Turned(C(mo))
      BY <2>1, TurnedUnion
    <3> QED
      BY <2>2, <2>3, <3>1
  <2> QED
    BY <2>5 DEF p, q
<1> QED
  BY <1>3, <1>4, <1>5

LEMMA LoadTurned ==
  ASSUME NEW o, NEW r
  PROVE  Compare!LoadIssues(Swapped(o), SwappedRow(r)) = Turned(Compare!LoadIssues(o, r))
<1> DEFINE p == Swapped(o)
           q == SwappedRow(r)
           L(oo, rr, x) == {s \in Compare!Sides : rr[s] /\ oo[s].mp4[r.clip] = x}
           Id == <<r.clip, r.kind>>
<1>1. /\ p["a"] = o["b"] /\ p["b"] = o["a"]
      /\ q.clip = r.clip /\ q.kind = r.kind /\ q["a"] = r["b"] /\ q["b"] = r["a"]
  BY DEF Swapped, SwappedRow
<1>2. ASSUME NEW oo, NEW rr, rr.clip = r.clip, rr.kind = r.kind
      PROVE  Compare!LoadIssues(oo, rr) = About("clip_mp4_missing", Id, L(oo, rr, "missing"))
               \cup About("clip_mp4_header_index_unavailable", Id, L(oo, rr, "no_index"))
               \cup About("clip_mp4_unreadable", Id, L(oo, rr, "unreadable"))
  BY <1>2 DEF Compare!LoadIssues, About
<1>3. ASSUME NEW x PROVE L(p, q, x) = Others(L(o, r, x)) /\ L(o, r, x) \in SUBSET Compare!Sides
  <2> HIDE DEF p, q
  <2> QED
    BY <1>1, OtherSide DEF Others, Compare!Sides
<1>4. Compare!LoadIssues(o, r) = About("clip_mp4_missing", Id, L(o, r, "missing"))
               \cup About("clip_mp4_header_index_unavailable", Id, L(o, r, "no_index"))
               \cup About("clip_mp4_unreadable", Id, L(o, r, "unreadable"))
  BY <1>2
<1>5. Compare!LoadIssues(p, q) = About("clip_mp4_missing", Id, L(p, q, "missing"))
               \cup About("clip_mp4_header_index_unavailable", Id, L(p, q, "no_index"))
               \cup About("clip_mp4_unreadable", Id, L(p, q, "unreadable"))
  <2> HIDE DEF p, q, L, Id
  <2> QED
    BY <1>1, <1>2
<1> HIDE DEF p, q, L, Id
<1>6. \A k, x : Turned(About(k, Id, L(o, r, x))) = About(k, Id, L(p, q, x))
  BY <1>3, TurnedSides
<1>7. Compare!LoadIssues(p, q) = Turned(Compare!LoadIssues(o, r))
  <2>1. Turned(Compare!LoadIssues(o, r)) =
           (Turned(About("clip_mp4_missing", Id, L(o, r, "missing")))
            \cup Turned(About("clip_mp4_header_index_unavailable", Id, L(o, r, "no_index"))))
            \cup Turned(About("clip_mp4_unreadable", Id, L(o, r, "unreadable")))
    BY <1>4, TurnedUnion
  <2> QED
    BY <2>1, <1>5, <1>6
<1> QED
  BY <1>7 DEF p, q

LEMMA IndexTurned ==
  ASSUME NEW o, NEW r, ProperRow(r)
  PROVE  Compare!IndexIssues(Swapped(o), SwappedRow(r)) = Turned(Compare!IndexIssues(o, r))
<1> DEFINE p == Swapped(o)
           q == SwappedRow(r)
           Id == <<r.clip, r.kind>>
           Rest(oo, rr) == IF rr.a # rr.b THEN About("clip_mp4_missing", Id, {IF rr.a THEN "b" ELSE "a"})
             ELSE IF Compare!LoadIssues(oo, rr) = {} /\ ~Compare!SameIndex(oo["a"].mp4[r.clip], oo["b"].mp4[r.clip])
                  THEN {<<"clip_mp4_index_mismatch", Id, "both">>} ELSE {}
<1>1. /\ p["a"] = o["b"] /\ p["b"] = o["a"]
      /\ q.clip = r.clip /\ q.kind = r.kind /\ q.a = r.b /\ q.b = r.a
  BY DEF Swapped, SwappedRow
<1>2. r.a \in BOOLEAN /\ r.b \in BOOLEAN
  BY DEF ProperRow, RowsAny
<1>3. ASSUME NEW oo, NEW rr, rr.clip = r.clip, rr.kind = r.kind
      PROVE  Compare!IndexIssues(oo, rr) = Compare!LoadIssues(oo, rr) \cup Rest(oo, rr)
  BY <1>3 DEF Compare!IndexIssues, About
<1>4. Compare!IndexIssues(o, r) = Compare!LoadIssues(o, r) \cup Rest(o, r)
  BY <1>3
<1>5. Compare!IndexIssues(p, q) = Compare!LoadIssues(p, q) \cup Rest(p, q)
  <2> HIDE DEF p, q
  <2> QED
    BY <1>1, <1>3
<1>6. Compare!LoadIssues(p, q) = Turned(Compare!LoadIssues(o, r))
  BY LoadTurned
<1>7. (Compare!LoadIssues(p, q) = {}) <=> (Compare!LoadIssues(o, r) = {})
  BY <1>6 DEF Turned
<1> HIDE DEF p, q
<1>8. Rest(p, q) = Turned(Rest(o, r))
  <2>1. CASE r.a # r.b
    <3> DEFINE S == {IF r.a THEN "b" ELSE "a"}
               T == {IF q.a THEN "b" ELSE "a"}
    <3>1. Rest(o, r) = About("clip_mp4_missing", Id, S) /\ Rest(p, q) = About("clip_mp4_missing", Id, T)
      BY <2>1, <1>1
    <3>2. T = Others(S) /\ S \in SUBSET Compare!Sides
      BY <2>1, <1>1, <1>2, OtherSide DEF Others, Compare!Sides
    <3> HIDE DEF S, T, Rest, Id
    <3> QED
      BY <3>1, <3>2, TurnedSides
  <2>2. CASE r.a = r.b
    <3>1. Rest(p, q) = Rest(o, r)
      BY <2>2, <1>1, <1>7 DEF Compare!SameIndex
    <3>2. \A iss \in Rest(o, r) : iss = <<iss[1], iss[2], "both">>
      BY <2>2
    <3> HIDE DEF Rest
    <3> QED
      BY <3>1, <3>2, TurnedBoth
  <2> QED
    BY <2>1, <2>2
<1> HIDE DEF Rest
<1>9. Compare!IndexIssues(p, q) = Turned(Compare!IndexIssues(o, r))
  BY <1>4, <1>5, <1>6, <1>8, TurnedUnion
<1> QED
  BY <1>9 DEF p, q

LEMMA SummaryShape ==
  ASSUME NEW o
  PROVE  /\ DOMAIN Compare!Summary(o).top = {"inputs", "processed", "passed", "tokens"}
         /\ DOMAIN Compare!Summary(o).videos = o.inputs
         /\ \A v \in o.inputs : /\ Compare!Summary(o).videos[v] = Compare!Entry(o, v)
                                /\ DOMAIN Compare!Entry(o, v).lists = {"clip", "filtered_clip"}
<1>1. \A v : DOMAIN Compare!Entry(o, v).lists = {"clip", "filtered_clip"}
  BY DEF Compare!Entry
<1>2. /\ DOMAIN Compare!Summary(o).top = {"inputs", "processed", "passed", "tokens"}
      /\ Compare!Summary(o).videos = [v \in o.inputs |-> Compare!Entry(o, v)]
  BY DEF Compare!Summary
<1> QED
  BY <1>1, <1>2

\* Nobody is blamed for what the summaries say, but for a video that only one lists.
LEMMA SummaryTurned ==
  ASSUME NEW x, NEW y
  PROVE  Compare!SummaryIssues(Compare!Summary(y), Compare!Summary(x))
           = Turned(Compare!SummaryIssues(Compare!Summary(x), Compare!Summary(y)))
<1> DEFINE s == Compare!Summary(x)
           tt == Compare!Summary(y)
           V(u, w) == [v \in Compare!Shared(s, tt) |-> Compare!VideoIssues(v, u.videos[v], w.videos[v])]
<1>1. /\ DOMAIN s.top = {"inputs", "processed", "passed", "tokens"}
      /\ DOMAIN tt.top = {"inputs", "processed", "passed", "tokens"}
      /\ \A v \in Compare!Shared(s, tt) : /\ DOMAIN s.videos[v].lists = {"clip", "filtered_clip"}
                                         /\ DOMAIN tt.videos[v].lists = {"clip", "filtered_clip"}
  BY SummaryShape DEF Compare!Shared
<1>2. Compare!Shared(tt, s) = Compare!Shared(s, tt)
  BY DEF Compare!Shared
<1> HIDE DEF s, tt
<1>3. Compare!TopLevelFieldIssues(tt, s) = Turned(Compare!TopLevelFieldIssues(s, tt))
  <2>1. \A f, v, w : Compare!ValuesMatch(f, v, w) <=> Compare!ValuesMatch(f, w, v)
    BY DEF Compare!ValuesMatch
  <2>2. Compare!TopLevelFieldIssues(tt, s) = Compare!TopLevelFieldIssues(s, tt)
    BY <1>1, <2>1 DEF Compare!TopLevelFieldIssues
  <2>3. \A iss \in Compare!TopLevelFieldIssues(s, tt) : iss = <<iss[1], iss[2], "both">>
    BY DEF Compare!TopLevelFieldIssues
  <2> QED
    BY <2>2, <2>3, TurnedBoth
<1>4. Compare!VideoKeyIssues(tt, s) = Turned(Compare!VideoKeyIssues(s, tt))
  <2>1. ASSUME NEW u, NEW w, NEW iss \in Compare!VideoKeyIssues(u, w)
        PROVE  Blamed(iss) \in Compare!VideoKeyIssues(w, u) /\ Blamed(Blamed(iss)) = iss
    BY <2>1, OtherSide DEF Compare!VideoKeyIssues, Blamed
  <2>2. Turned(Compare!VideoKeyIssues(s, tt)) \subseteq Compare!VideoKeyIssues(tt, s)
    BY <2>1 DEF Turned
  <2>3. Compare!VideoKeyIssues(tt, s) \subseteq Turned(Compare!VideoKeyIssues(s, tt))
    BY <2>1 DEF Turned
  <2> QED
    BY <2>2, <2>3
<1>5. ASSUME NEW v \in Compare!Shared(s, tt)
      PROVE  V(tt, s)[v] = Turned(V(s, tt)[v])
  <2> DEFINE e == s.videos[v]
             d == tt.videos[v]
  <2>1. DOMAIN e.lists = DOMAIN d.lists
    BY <1>1
  <2> HIDE DEF e, d
  <2>2. Compare!ProcessedVideoIssues(v, d, e) = Compare!ProcessedVideoIssues(v, e, d)
    BY <2>1 DEF Compare!ProcessedVideoIssues
  <2>3. Compare!VideoIssues(v, d, e) = Compare!VideoIssues(v, e, d)
    BY <2>2 DEF Compare!VideoIssues
  <2>4. \A iss \in Compare!VideoIssues(v, e, d) : iss = <<iss[1], iss[2], "both">>
    BY DEF Compare!VideoIssues, Compare!ProcessedVideoIssues
  <2>5. Compare!VideoIssues(v, d, e) = Turned(Compare!VideoIssues(v, e, d))
    BY <2>3, <2>4, TurnedBoth
  <2> QED
    BY <2>5 DEF e, d
<1>6. Compare!SummaryIssues(s, tt) = (Compare!TopLevelFieldIssues(s, tt) \cup Compare!VideoKeyIssues(s, tt))
                                       \cup AllOf(V(s, tt), Compare!Shared(s, tt))
  BY DEF Compare!SummaryIssues, AllOf
<1>7. Compare!SummaryIssues(tt, s) = (Compare!TopLevelFieldIssues(tt, s) \cup Compare!VideoKeyIssues(tt, s))
                                       \cup AllOf(V(tt, s), Compare!Shared(s, tt))
  BY <1>2 DEF Compare!SummaryIssues, AllOf
<1> HIDE DEF V
<1>8. AllOf(V(tt, s), Compare!Shared(s, tt)) = Turned(AllOf(V(s, tt), Compare!Shared(s, tt)))
  BY <1>5, TurnedMany
<1>9. Compare!SummaryIssues(tt, s) = Turned(Compare!SummaryIssues(s, tt))
  <2>1. Turned(Compare!SummaryIssues(s, tt)) =
          (Turned(Compare!TopLevelFieldIssues(s, tt)) \cup Turned(Compare!VideoKeyIssues(s, tt)))
            \cup Turned(AllOf(V(s, tt), Compare!Shared(s, tt)))
    BY <1>6, TurnedUnion
  <2> QED
    BY <2>1, <1>3, <1>4, <1>7, <1>8
<1> QED
  BY <1>9 DEF s, tt

LEMMA CompareCards == \A S : Compare!Cardinality(S) = Cardinality(S)
BY DEF Compare!Cardinality, Cardinality

-----------------------------------------------------------------------------
(* The rows are those of the outputs taken the other way round. *)
Rows(o) == Compare!DiscoverClips(Compare!Summary(o["a"]), Compare!Summary(o["b"]))

\* What a row of two outputs is.
RowIn(o, r) ==
  /\ r \in RowsAny
  /\ SourceOf[r.clip] \in o["a"].inputs \cap o["b"].inputs \cap o["a"].processed \cap o["b"].processed
  /\ \A s \in Compare!Sides : r[s] <=> (o[s].chunk[r.clip].there /\ o[s].chunk[r.clip].kind = r.kind)
  /\ r.a \/ r.b

LEMMA RowsAre ==
  ASSUME NEW o, o["a"] \in Output, o["b"] \in Output
  PROVE  \A r : r \in Rows(o) <=> RowIn(o, r)
<1> DEFINE x == o["a"]
           y == o["b"]
           s == Compare!Summary(x)
           tt == Compare!Summary(y)
           K(p, v, k) == Compare!Kept(p, Compare!ChunksOf(p, v), k)
<1>1. /\ Compare!Shared(s, tt) = x.inputs \cap y.inputs
      /\ \A v \in x.inputs : s.videos[v] = Compare!Entry(x, v)
      /\ \A v \in y.inputs : tt.videos[v] = Compare!Entry(y, v)
  BY SummaryShape DEF Compare!Shared
<1>2. \A p, v : /\ Compare!Entry(p, v).processed = (v \in p.processed)
                /\ \A k \in {"clip", "filtered_clip"} : Compare!Entry(p, v).lists[k] = K(p, v, k)
  BY DEF Compare!Entry
<1>3. ASSUME NEW p \in Output, NEW v, NEW k, NEW c, v \in p.inputs, v \in p.processed
      PROVE  c \in K(p, v, k) <=> /\ c \in ListedClips /\ SourceOf[c] = v
                                  /\ p.chunk[c].there /\ p.chunk[c].kind = k
  BY <1>3 DEF Compare!Kept, Compare!ChunksOf
<1>4. ASSUME NEW r PROVE r \in Rows(o) <=>
        \E v \in x.inputs \cap y.inputs, k \in {"clip", "filtered_clip"} :
          /\ v \in x.processed /\ v \in y.processed
          /\ \E c \in K(x, v, k) \cup K(y, v, k) :
               r = [clip |-> c, kind |-> k, a |-> c \in K(x, v, k), b |-> c \in K(y, v, k)]
  <2> HIDE DEF s, tt, K
  <2>1. Rows(o) = Compare!DiscoverClips(s, tt)
    BY DEF Rows, s, tt
  <2>2. \A v \in x.inputs \cap y.inputs : /\ s.videos[v].processed = (v \in x.processed)
                                          /\ tt.videos[v].processed = (v \in y.processed)
    BY <1>1, <1>2
  <2>3. \A v \in x.inputs \cap y.inputs : \A k \in {"clip", "filtered_clip"} :
           s.videos[v].lists[k] = K(x, v, k) /\ tt.videos[v].lists[k] = K(y, v, k)
    BY <1>1, <1>2
  <2>4. r \in Compare!DiscoverClips(s, tt) <=>
          \E v \in Compare!Shared(s, tt), k \in {"clip", "filtered_clip"} :
            /\ s.videos[v].processed /\ tt.videos[v].processed
            /\ r \in Compare!PairedRows(k, s.videos[v].lists[k], tt.videos[v].lists[k])
    BY DEF Compare!DiscoverClips
  <2>5. \A k, S, T : r \in Compare!PairedRows(k, S, T) <=>
          \E c \in S \cup T : r = [clip |-> c, kind |-> k, a |-> c \in S, b |-> c \in T]
    BY DEF Compare!PairedRows
  <2> HIDE DEF x, y
  <2> DEFINE P(v, k) == Compare!PairedRows(k, s.videos[v].lists[k], tt.videos[v].lists[k])
  <2>6. ASSUME NEW v \in x.inputs \cap y.inputs, NEW k \in {"clip", "filtered_clip"}
        PROVE  r \in P(v, k) <=> \E c \in K(x, v, k) \cup K(y, v, k) :
                 r = [clip |-> c, kind |-> k, a |-> c \in K(x, v, k), b |-> c \in K(y, v, k)]
    <3>1. P(v, k) = Compare!PairedRows(k, K(x, v, k), K(y, v, k))
      BY <2>3
    <3> HIDE DEF P
    <3> QED
      BY <3>1, <2>5
  <2>7. r \in Rows(o) <=>
          \E v \in x.inputs \cap y.inputs, k \in {"clip", "filtered_clip"} :
            v \in x.processed /\ v \in y.processed /\ r \in P(v, k)
    BY <1>1, <2>1, <2>2, <2>4
  <2> HIDE DEF P
  <2> QED
    BY <2>6, <2>7
<1> HIDE DEF K, s, tt
<1>5. ASSUME NEW r \in Rows(o) PROVE RowIn(o, r)
  <2>1. PICK v \in x.inputs \cap y.inputs, k \in {"clip", "filtered_clip"} :
          /\ v \in x.processed /\ v \in y.processed
          /\ \E c \in K(x, v, k) \cup K(y, v, k) :
               r = [clip |-> c, kind |-> k, a |-> c \in K(x, v, k), b |-> c \in K(y, v, k)]
    BY <1>4
  <2>2. PICK c \in K(x, v, k) \cup K(y, v, k) :
               r = [clip |-> c, kind |-> k, a |-> c \in K(x, v, k), b |-> c \in K(y, v, k)]
    BY <2>1
  <2>3. c \in ListedClips /\ SourceOf[c] = v
    BY <1>3, <2>1, <2>2
  <2>4. r \in RowsAny /\ (r.a \/ r.b) /\ r.clip = c /\ r.kind = k
    <3> DEFINE p == c \in K(x, v, k)
               q == c \in K(y, v, k)
    <3>1. r = [clip |-> c, kind |-> k, a |-> p, b |-> q] /\ (p \/ q) /\ p \in BOOLEAN /\ q \in BOOLEAN
      BY <2>2
    <3> HIDE DEF p, q
    <3>2. k \in {"clip", "filtered_clip"}
      BY <2>1
    <3> QED
      BY <3>1, <3>2, <2>3 DEF RowsAny
  <2>5. /\ r["a"] <=> (x.chunk[c].there /\ x.chunk[c].kind = k)
        /\ r["b"] <=> (y.chunk[c].there /\ y.chunk[c].kind = k)
    <3>1. r["a"] = (c \in K(x, v, k)) /\ r["b"] = (c \in K(y, v, k))
      BY <2>2
    <3>2. /\ c \in K(x, v, k) <=> (x.chunk[c].there /\ x.chunk[c].kind = k)
          /\ c \in K(y, v, k) <=> (y.chunk[c].there /\ y.chunk[c].kind = k)
      BY <1>3, <2>1, <2>3
    <3> QED
      BY <3>1, <3>2
  <2>6. \A ss \in Compare!Sides : r[ss] <=> (o[ss].chunk[r.clip].there /\ o[ss].chunk[r.clip].kind = r.kind)
    BY <2>4, <2>5 DEF Compare!Sides
  <2> QED
    BY <2>1, <2>3, <2>4, <2>6 DEF RowIn
<1>6. ASSUME NEW r, RowIn(o, r) PROVE r \in Rows(o)
  <2> DEFINE v == SourceOf[r.clip]
             k == r.kind
             c == r.clip
  <2>1. /\ v \in x.inputs \cap y.inputs /\ k \in {"clip", "filtered_clip"}
        /\ v \in x.processed /\ v \in y.processed /\ c \in ListedClips
    BY <1>6 DEF RowIn, RowsAny
  <2>2. /\ r["a"] <=> (x.chunk[c].there /\ x.chunk[c].kind = k)
        /\ r["b"] <=> (y.chunk[c].there /\ y.chunk[c].kind = k)
    BY <1>6 DEF RowIn, Compare!Sides
  <2>3. r = [clip |-> c, kind |-> k, a |-> r.a, b |-> r.b] /\ r.a \in BOOLEAN /\ r.b \in BOOLEAN /\ (r.a \/ r.b)
    BY <1>6 DEF RowIn, RowsAny
  <2>4. (r.a <=> c \in K(x, v, k)) /\ (r.b <=> c \in K(y, v, k))
    BY <1>3, <2>1, <2>2
  <2> HIDE DEF v, k, c
  <2>5. r = [clip |-> c, kind |-> k, a |-> c \in K(x, v, k), b |-> c \in K(y, v, k)] /\ c \in K(x, v, k) \cup K(y, v, k)
    BY <2>3, <2>4
  <2> QED
    BY <1>4, <2>1, <2>5
<1> QED
  BY <1>5, <1>6

LEMMA RowsFinite == IsFiniteSet(RowsAny)
<1> DEFINE T == (ListedClips \X {"clip", "filtered_clip"}) \X (BOOLEAN \X BOOLEAN)
           f == [r \in RowsAny |-> <<<<r.clip, r.kind>>, <<r.a, r.b>>>>]
<1>1. ASSUME NEW a, NEW b PROVE IsFiniteSet({a, b})
  <2> DEFINE g == [iss \in 1 .. 2 |-> IF iss = 1 THEN a ELSE b]
  <2>1. g \in Surjection(1 .. 2, {a, b})
    <3>1. g \in [1 .. 2 -> {a, b}]
      OBVIOUS
    <3>2. g[1] = a /\ g[2] = b
      OBVIOUS
    <3> HIDE DEF g
    <3> QED
      BY <3>1, <3>2 DEF Surjection
  <2>2. 1 \in Int /\ 2 \in Int
    OBVIOUS
  <2>3. IsFiniteSet(1 .. 2)
    BY <2>2, FS_Interval, Zenon
  <2> QED
    BY <2>1, <2>3, FS_Surjection
<1>2. IsFiniteSet(BOOLEAN)
  <2>1. BOOLEAN = {TRUE, FALSE}
    OBVIOUS
  <2> QED
    BY <1>1, <2>1, Zenon
<1>3. IsFiniteSet(T)
  BY <1>1, <1>2, FS_Product, ComparisonAssumption
<1>4. f \in Injection(RowsAny, T)
  <2>1. f \in [RowsAny -> T]
    BY DEF RowsAny
  <2>2. ASSUME NEW q \in RowsAny, NEW r \in RowsAny, f[q] = f[r] PROVE q = r
    <3>1. q.clip = r.clip /\ q.kind = r.kind /\ q.a = r.a /\ q.b = r.b
      BY <2>2
    <3>2. /\ q = [clip |-> q.clip, kind |-> q.kind, a |-> q.a, b |-> q.b]
          /\ r = [clip |-> r.clip, kind |-> r.kind, a |-> r.a, b |-> r.b]
      BY DEF RowsAny
    <3> QED
      BY <3>1, <3>2
  <2> QED
    BY <2>1, <2>2 DEF Injection, IsInjective
<1> QED
  BY <1>3, <1>4, FS_Injection

LEMMA RowTwice ==
  ASSUME NEW r \in RowsAny
  PROVE  /\ SwappedRow(r) \in RowsAny /\ SwappedRow(SwappedRow(r)) = r
         /\ SwappedRow(r).clip = r.clip /\ SwappedRow(r).kind = r.kind
         /\ SwappedRow(r)["a"] = r["b"] /\ SwappedRow(r)["b"] = r["a"]
BY DEF SwappedRow, RowsAny

\* The same rows, with the sides changed.
Changed(S, T) ==
  S \in SUBSET RowsAny /\ T \in SUBSET RowsAny /\ \A r \in RowsAny : r \in T <=> SwappedRow(r) \in S

LEMMA RowsChanged ==
  ASSUME NEW o, o["a"] \in Output, o["b"] \in Output
  PROVE  Changed(Rows(o), Rows(Swapped(o)))
<1>1. Swapped(o)["a"] = o["b"] /\ Swapped(o)["b"] = o["a"]
  BY DEF Swapped
<1>2. \A r : r \in Rows(Swapped(o)) <=> RowIn(Swapped(o), r)
  BY <1>1, RowsAre
<1>3. \A r : r \in Rows(o) <=> RowIn(o, r)
  BY RowsAre
<1>4. ASSUME NEW r \in RowsAny PROVE RowIn(Swapped(o), r) <=> RowIn(o, SwappedRow(r))
  BY <1>1, RowTwice DEF RowIn, Compare!Sides
<1>5. Rows(o) \in SUBSET RowsAny /\ Rows(Swapped(o)) \in SUBSET RowsAny
  BY <1>2, <1>3 DEF RowIn
<1> QED
  BY <1>2, <1>3, <1>4, <1>5 DEF Changed

LEMMA ChangedCount ==
  ASSUME NEW S, NEW T, Changed(S, T)
  PROVE  Cardinality(S) = Cardinality(T)
<1> DEFINE f == [r \in S |-> SwappedRow(r)]
<1>1. \A r \in RowsAny : SwappedRow(r) \in RowsAny /\ SwappedRow(SwappedRow(r)) = r
  BY RowTwice
<1>2. \A r \in S : SwappedRow(r) \in T
  BY <1>1 DEF Changed
<1>3. \A q \in T : SwappedRow(q) \in S /\ SwappedRow(SwappedRow(q)) = q
  BY <1>1 DEF Changed
<1>4. \A q, r \in S : SwappedRow(q) = SwappedRow(r) => q = r
  <2>1. \A r \in S : SwappedRow(SwappedRow(r)) = r
    BY <1>1 DEF Changed
  <2> QED
    BY <2>1
<1>5. f \in [S -> T]
  BY <1>2
<1>6. f \in Injection(S, T)
  BY <1>4, <1>5 DEF Injection, IsInjective
<1>7. f \in Surjection(S, T)
  BY <1>3, <1>5 DEF Surjection
<1>8. ExistsBijection(S, T)
  BY <1>6, <1>7 DEF ExistsBijection, Bijection
<1>9. IsFiniteSet(S)
  BY RowsFinite, FS_Subset DEF Changed
<1> QED
  BY <1>8, <1>9, FS_Bijection

LEMMA SelectedChanged ==
  ASSUME NEW R, NEW Q, Changed(R, Q)
  PROVE  Changed(Compare!Selected(R), Compare!Selected(Q))
<1> DEFINE Of(S) == {r \in S : comparison.video \in {Compare!AnyVideo, SourceOf[r.clip]}}
           To(S, r) == {q \in Of(S) : Compare!Before(q, r)}
<1>1. \A q \in RowsAny, r \in RowsAny : Compare!Before(SwappedRow(q), SwappedRow(r)) <=> Compare!Before(q, r)
  BY RowTwice DEF Compare!Before
<1>2. Changed(Of(R), Of(Q))
  <2>1. \A r \in RowsAny : SwappedRow(r).clip = r.clip
    BY RowTwice
  <2> QED
    BY <2>1 DEF Changed
<1>3. ASSUME NEW S
      PROVE  Compare!Selected(S) =
               {r \in Of(S) : comparison.limit = Compare!NoLimit \/ Cardinality(To(S, r)) < comparison.limit}
  BY CompareCards DEF Compare!Selected
<1> HIDE DEF Of
<1>4. ASSUME NEW r \in RowsAny PROVE Cardinality(To(R, SwappedRow(r))) = Cardinality(To(Q, r))
  <2>1. SwappedRow(r) \in RowsAny /\ SwappedRow(SwappedRow(r)) = r
    BY RowTwice
  <2>2. \A q \in RowsAny : Compare!Before(SwappedRow(q), SwappedRow(r)) <=> Compare!Before(q, r)
    BY <1>1
  <2>3. Changed(To(R, SwappedRow(r)), To(Q, r))
    BY <1>2, <2>2 DEF Changed
  <2> HIDE DEF To
  <2> QED
    BY <2>3, ChangedCount
<1> HIDE DEF To
<1> QED
  BY <1>2, <1>3, <1>4 DEF Changed

LEMMA TurnedRows ==
  ASSUME NEW S, NEW T, Changed(S, T), NEW F, NEW G, \A r \in S : G[SwappedRow(r)] = Turned(F[r])
  PROVE  AllOf(G, T) = Turned(AllOf(F, S))
<1> DEFINE H == [r \in S |-> G[SwappedRow(r)]]
<1>1. AllOf(H, S) = Turned(AllOf(F, S))
  BY TurnedMany
<1>2. \A r \in RowsAny : SwappedRow(r) \in RowsAny /\ SwappedRow(SwappedRow(r)) = r
  BY RowTwice
<1>3. \A r \in S : H[r] = G[SwappedRow(r)] /\ SwappedRow(r) \in T
  BY <1>2 DEF Changed
<1>4. \A q \in T : SwappedRow(q) \in S /\ H[SwappedRow(q)] = G[q]
  BY <1>2 DEF Changed
<1> HIDE DEF H
<1>5. AllOf(H, S) \subseteq AllOf(G, T)
  BY <1>3 DEF AllOf
<1>6. AllOf(G, T) \subseteq AllOf(H, S)
  BY <1>4 DEF AllOf
<1> QED
  BY <1>1, <1>5, <1>6

LEMMA IssuesTurned ==
  ASSUME NEW o, o["a"] \in Output, o["b"] \in Output
  PROVE  Compare!IssuesOf(Swapped(o)) = Turned(Compare!IssuesOf(o))
<1> DEFINE p == Swapped(o)
           S == Compare!Selected(Rows(o))
           T == Compare!Selected(Rows(p))
           C == Compare!Passing(S)
           D == Compare!Passing(T)
           M(oo) == [r \in RowsAny |-> Compare!MetadataIssues(oo, r)]
           X(oo) == [r \in RowsAny |-> Compare!IndexIssues(oo, r)]
           U(oo) == Compare!SummaryIssues(Compare!Summary(oo["a"]), Compare!Summary(oo["b"]))
<1>1. p["a"] = o["b"] /\ p["b"] = o["a"]
  BY DEF Swapped
<1>2. Changed(S, T)
  BY RowsChanged, SelectedChanged
<1>3. Changed(C, D)
  BY <1>2, RowTwice DEF Changed, Compare!Passing
<1>4. \A r \in S : ProperRow(r)
  BY RowsAre DEF Compare!Selected, RowIn, ProperRow
<1>5. C \subseteq S /\ S \subseteq RowsAny /\ D \subseteq RowsAny /\ T \subseteq RowsAny
  BY <1>2, <1>3 DEF Compare!Passing, Changed
<1>6. ASSUME NEW oo, NEW K \in SUBSET RowsAny
      PROVE  /\ UNION {Compare!MetadataIssues(oo, r) : r \in K} = AllOf(M(oo), K)
             /\ UNION {Compare!IndexIssues(oo, r) : r \in K} = AllOf(X(oo), K)
  BY DEF AllOf
<1>7. ASSUME NEW r \in S PROVE M(p)[SwappedRow(r)] = Turned(M(o)[r]) /\ X(p)[SwappedRow(r)] = Turned(X(o)[r])
  BY <1>4, <1>5, RowTwice, MetadataTurned, IndexTurned
<1>8. /\ Compare!RowsOf(o) = S /\ Compare!RowsOf(p) = T
  BY DEF Compare!RowsOf, Rows
<1> DEFINE I(oo, K, L) == (U(oo) \cup AllOf(M(oo), K)) \cup (IF comparison.index THEN AllOf(X(oo), L) ELSE {})
<1>9. /\ Compare!IssuesOf(o) = IF Compare!LoadFailures(o) # {} THEN Compare!LoadFailures(o) ELSE I(o, C, S)
      /\ Compare!IssuesOf(p) = IF Compare!LoadFailures(p) # {} THEN Compare!LoadFailures(p) ELSE I(p, D, T)
  <2>1. ASSUME NEW oo, Compare!RowsOf(oo) \in SUBSET RowsAny, Compare!Passing(Compare!RowsOf(oo)) \in SUBSET RowsAny
        PROVE  Compare!IssuesOf(oo) = IF Compare!LoadFailures(oo) # {} THEN Compare!LoadFailures(oo)
                                      ELSE I(oo, Compare!Passing(Compare!RowsOf(oo)), Compare!RowsOf(oo))
    <3> DEFINE J == UNION {Compare!MetadataIssues(oo, r) : r \in Compare!Passing(Compare!RowsOf(oo))}
               K == UNION {Compare!IndexIssues(oo, r) : r \in Compare!RowsOf(oo)}
    <3>1. /\ J = AllOf(M(oo), Compare!Passing(Compare!RowsOf(oo)))
          /\ K = AllOf(X(oo), Compare!RowsOf(oo))
      BY <1>6, <2>1
    <3>2. Compare!IssuesOf(oo) = IF Compare!LoadFailures(oo) # {} THEN Compare!LoadFailures(oo)
                                 ELSE (U(oo) \cup J) \cup (IF comparison.index THEN K ELSE {})
      BY DEF Compare!IssuesOf
    <3> HIDE DEF M, X, J, K, U
    <3> QED
      BY <3>1, <3>2
  <2> HIDE DEF I
  <2> QED
    BY <1>5, <1>8, <2>1
<1>10. U(p) = Turned(U(o))
  BY <1>1, SummaryTurned
<1>11. Compare!LoadFailures(p) = Turned(Compare!LoadFailures(o))
  <2> DEFINE F(oo) == {s \in Compare!Sides : ~oo[s].readable}
  <2>1. \A oo : Compare!LoadFailures(oo) = About("summary_load_failed", "summary", F(oo))
    BY DEF Compare!LoadFailures, About
  <2> HIDE DEF p
  <2>2. F(p) = Others(F(o)) /\ F(o) \in SUBSET Compare!Sides
    BY <1>1, OtherSide DEF Others, Compare!Sides
  <2> HIDE DEF F
  <2> QED
    BY <2>1, <2>2, TurnedSides
<1> HIDE DEF p, S, T, M, X, U, C, D
<1>12. AllOf(M(p), D) = Turned(AllOf(M(o), C)) /\ AllOf(X(p), T) = Turned(AllOf(X(o), S))
  <2>1. \A r \in C : r \in S
    BY <1>5
  <2> QED
    BY <1>2, <1>3, <1>7, <2>1, TurnedRows
<1>13. Turned({}) = {} /\ \A J : Turned(J) = {} => J = {}
  BY DEF Turned
<1>14. I(p, D, T) = Turned(I(o, C, S))
  <2>1. Turned(I(o, C, S)) = (Turned(U(o)) \cup Turned(AllOf(M(o), C)))
                                \cup Turned(IF comparison.index THEN AllOf(X(o), S) ELSE {})
    BY TurnedUnion
  <2> QED
    BY <2>1, <1>10, <1>12, <1>13
<1> HIDE DEF I
<1>15. Compare!IssuesOf(p) = Turned(Compare!IssuesOf(o))
  BY <1>9, <1>11, <1>13, <1>14
<1> QED
  BY <1>15 DEF p

-----------------------------------------------------------------------------
(* What has no issues. *)
LEMMA NoneAbout ==
  \A k, w, S : (About(k, w, S) = {} <=> S = {}) /\ (Others(S) = {} <=> S = {})
BY DEF About, Others

LEMMA ScoreSame ==
  ASSUME NEW c, NEW f, NEW x, x["a"] \in Scores, x["b"] \in Scores
  PROVE  Compare!ScoreIssues(c, f, x) = {} <=> Compare!SameScore(x["a"], x["b"])
<1> DEFINE X(kind) == {s \in Compare!Sides : Compare!ReadScore(x[s]) = kind}
<1>1. Compare!ScoreIssues(c, f, x) =
           IF X("corrupt") # {} THEN About("metadata_value_invalid_type", <<c, f>>, X("corrupt"))
           ELSE IF X("present") = Compare!Sides
                THEN IF Compare!Close(x["a"], x["b"]) THEN {} ELSE {<<"score_mismatch", <<c, f>>, "both">>}
                ELSE About("metadata_value_one_sided", <<c, f>>, Others(X("present")))
  BY DEF Compare!ScoreIssues, About, Others
<1>2. \A k, w, S : (About(k, w, S) = {} <=> S = {}) /\ (Others(S) = {} <=> S = {})
  BY NoneAbout
<1>3. ASSUME NEW s \in Compare!Sides
      PROVE  /\ Compare!ReadScore(x[s]) = "corrupt" <=> x[s] = -2
             /\ Compare!ReadScore(x[s]) = "present" <=> x[s] >= 0
             /\ x[s] \in Int /\ (x[s] = -1 \/ x[s] = -2 \/ x[s] >= 0)
  BY DEF Compare!ReadScore, Compare!Absent, Compare!Corrupt, Compare!Sides, Scores
<1>4. /\ X("corrupt") = {} <=> x["a"] # -2 /\ x["b"] # -2
      /\ X("present") = Compare!Sides <=> x["a"] >= 0 /\ x["b"] >= 0
      /\ X("present") = {} <=> ~(x["a"] >= 0) /\ ~(x["b"] >= 0)
  BY <1>3 DEF Compare!Sides
<1> HIDE DEF X
<1>5. x["a"] \in Int /\ (x["a"] = -1 \/ x["a"] = -2 \/ x["a"] >= 0) /\ x["b"] \in Int /\ (x["b"] = -1 \/ x["b"] = -2 \/ x["b"] >= 0)
  BY <1>3 DEF Compare!Sides
<1>6. Compare!SameScore(x["a"], x["b"]) <=>
        \/ x["a"] = -1 /\ x["b"] = -1
        \/ x["a"] >= 0 /\ x["b"] >= 0 /\ Compare!Close(x["a"], x["b"])
  BY DEF Compare!SameScore, Compare!Absent
<1> DEFINE I == Compare!ScoreIssues(c, f, x)
<1>7. CASE X("corrupt") # {}
  <2>1. I = About("metadata_value_invalid_type", <<c, f>>, X("corrupt"))
    BY <1>1, <1>7
  <2>2. I # {}
    BY <2>1, <1>2, <1>7, Zenon
  <2> QED
    BY <2>2, <1>4, <1>6, <1>7
<1>8. CASE X("corrupt") = {} /\ X("present") = Compare!Sides
  <2>1. I = IF Compare!Close(x["a"], x["b"]) THEN {} ELSE {<<"score_mismatch", <<c, f>>, "both">>}
    BY <1>1, <1>8
  <2>2. I = {} <=> Compare!Close(x["a"], x["b"])
    BY <2>1
  <2>3. x["a"] >= 0 /\ x["b"] >= 0
    BY <1>4, <1>8
  <2> HIDE DEF I
  <2>4. x["a"] # -1
    BY <1>5, <2>3
  <2>5. I = {} <=> Compare!SameScore(x["a"], x["b"])
    BY <2>2, <2>3, <2>4, <1>6
  <2> QED
    BY <2>5 DEF I
<1>9. CASE X("corrupt") = {} /\ X("present") # Compare!Sides
  <2>1. I = About("metadata_value_one_sided", <<c, f>>, Others(X("present")))
    BY <1>1, <1>9
  <2>2. I = {} <=> X("present") = {}
    BY <2>1, <1>2, Zenon
  <2> QED
    BY <2>2, <1>4, <1>5, <1>6, <1>9
<1> QED
  BY <1>7, <1>8, <1>9

LEMMA MotionSame ==
  ASSUME NEW c, NEW x,
         \A s \in Compare!Sides : x[s] \in [there : BOOLEAN, score : [{"global_mean", "per_patch_min_256"} -> Scores]]
  PROVE  Compare!MotionIssues(c, x) = {} <=>
           /\ x["a"].there <=> x["b"].there
           /\ x["a"].there => \A f \in Compare!Fields : Compare!SameScore(x["a"].score[f], x["b"].score[f])
<1> DEFINE X == [f \in Compare!Fields |-> Compare!ScoreIssues(c, f, [s \in Compare!Sides |-> x[s].score[f]])]
<1>1. CASE \A s \in Compare!Sides : x[s].there
  <2>1. Compare!MotionIssues(c, x) = AllOf(X, Compare!Fields)
    BY <1>1 DEF Compare!MotionIssues, AllOf
  <2>2. ASSUME NEW f \in Compare!Fields
        PROVE  X[f] = {} <=> Compare!SameScore(x["a"].score[f], x["b"].score[f])
    <3> DEFINE z == [s \in Compare!Sides |-> x[s].score[f]]
    <3>1. z["a"] = x["a"].score[f] /\ z["b"] = x["b"].score[f] /\ z["a"] \in Scores /\ z["b"] \in Scores
      BY DEF Compare!Fields, Compare!Sides
    <3>2. X[f] = Compare!ScoreIssues(c, f, z)
      OBVIOUS
    <3> HIDE DEF z, X
    <3> QED
      BY <3>1, <3>2, ScoreSame
  <2> HIDE DEF X
  <2>3. AllOf(X, Compare!Fields) = {} <=> \A f \in Compare!Fields : X[f] = {}
    BY DEF AllOf
  <2> QED
    BY <1>1, <2>1, <2>2, <2>3 DEF Compare!Sides
<1>2. CASE ~ \A s \in Compare!Sides : x[s].there
  <2> DEFINE S == {s \in Compare!Sides : x[s].there}
  <2>1. Compare!MotionIssues(c, x) = About("metadata_value_one_sided", <<c, "motion_score">>, Others(S))
    BY <1>2 DEF Compare!MotionIssues, About, Others
  <2>2. About("metadata_value_one_sided", <<c, "motion_score">>, Others(S)) = {} <=> S = {}
    <3> HIDE DEF S
    <3> QED
      BY NoneAbout, Zenon
  <2>3. S = {} <=> ~x["a"].there /\ ~x["b"].there
    BY DEF Compare!Sides
  <2>4. ~x["a"].there \/ ~x["b"].there
    BY <1>2 DEF Compare!Sides
  <2> QED
    BY <2>1, <2>2, <2>3, <2>4
<1> QED
  BY <1>1, <1>2

LEMMA GreatestLeast ==
  ASSUME NEW m \in Int, NEW n \in Int
  PROVE  /\ Compare!Max({m, n}) = IF m >= n THEN m ELSE n
         /\ Compare!Min({m, n}) = IF m =< n THEN m ELSE n
BY DEF Compare!Max, Compare!Min

LEMMA CaptionSame ==
  ASSUME NEW c, NEW x, \A s \in Compare!Sides : x[s] \in [CaptionWindows -> Captions]
  PROVE  Compare!CaptionIssues(c, x) = {} <=>
           \A w \in CaptionWindows :
             \/ Compare!Max({x["a"][w], 0}) = Compare!Max({x["b"][w], 0})
             \/ /\ Compare!Max({x["a"][w], 0}) > 0 /\ Compare!Max({x["b"][w], 0}) > 0
                /\ Compare!Close(Compare!Max({x["a"][w], 0}), Compare!Max({x["b"][w], 0}))
<1>1. ASSUME NEW v \in Captions
      PROVE  Compare!CaptionText(v) = Compare!Max({v, 0}) /\ Compare!Max({v, 0}) \in Nat
  <2>1. v \in Int /\ (v = -1 \/ v >= 0)
    BY DEF Captions
  <2>2. Compare!Max({v, 0}) = IF v >= 0 THEN v ELSE 0
    BY <2>1, GreatestLeast
  <2> QED
    BY <2>1, <2>2 DEF Compare!CaptionText, Compare!Absent, Compare!Empty
<1>2. ASSUME NEW w \in CaptionWindows
      PROVE  x["a"][w] \in Captions /\ x["b"][w] \in Captions
  BY DEF Compare!Sides
<1>3. Compare!CaptionIssues(c, x) = {} <=>
        \A w \in CaptionWindows : \/ x["a"][w] = x["b"][w]
                                  \/ Compare!Similar(Compare!CaptionText(x["a"][w]), Compare!CaptionText(x["b"][w]))
  BY DEF Compare!CaptionIssues, Compare!CaptionJobs
<1>4. \A m, n \in Nat : Compare!Similar(m, n) <=> (m = n \/ (m > 0 /\ n > 0 /\ Compare!Close(m, n)))
  BY DEF Compare!Similar, Compare!Empty
<1>5. ASSUME NEW w \in CaptionWindows
      PROVE  (\/ x["a"][w] = x["b"][w]
              \/ Compare!Similar(Compare!CaptionText(x["a"][w]), Compare!CaptionText(x["b"][w])))
             <=> (\/ Compare!Max({x["a"][w], 0}) = Compare!Max({x["b"][w], 0})
                  \/ /\ Compare!Max({x["a"][w], 0}) > 0 /\ Compare!Max({x["b"][w], 0}) > 0
                     /\ Compare!Close(Compare!Max({x["a"][w], 0}), Compare!Max({x["b"][w], 0})))
  <2> DEFINE m == Compare!Max({x["a"][w], 0})
             n == Compare!Max({x["b"][w], 0})
  <2>1. m \in Nat /\ n \in Nat /\ Compare!CaptionText(x["a"][w]) = m /\ Compare!CaptionText(x["b"][w]) = n
    BY <1>1, <1>2
  <2>2. x["a"][w] = x["b"][w] => m = n
    OBVIOUS
  <2> HIDE DEF m, n
  <2>3. (\/ x["a"][w] = x["b"][w]
         \/ Compare!Similar(Compare!CaptionText(x["a"][w]), Compare!CaptionText(x["b"][w])))
             <=> (m = n \/ (m > 0 /\ n > 0 /\ Compare!Close(m, n)))
    BY <2>1, <2>2, <1>4
  <2> QED
    BY <2>3 DEF m, n
<1> QED
  BY <1>3, <1>5

LEMMA MetadataSame ==
  ASSUME NEW o, o["a"] \in Output, o["b"] \in Output, NEW r, r.clip \in ListedClips, r.a, r.b
  PROVE  Compare!MetadataIssues(o, r) = {} <=> Compare!SameMeta(o["a"].meta[r.clip], o["b"].meta[r.clip])
<1> DEFINE m == [s \in Compare!Sides |-> o[s].meta[r.clip]]
           A == [s \in Compare!Sides |-> m[s].aesthetic]
           B == [s \in Compare!Sides |-> m[s].motion]
           C == [s \in Compare!Sides |-> m[s].caption]
           x == o["a"].meta[r.clip]
           y == o["b"].meta[r.clip]
<1>1. m["a"] = x /\ m["b"] = y
  BY DEF Compare!Sides
<1>2. /\ x.aesthetic \in Scores /\ y.aesthetic \in Scores
      /\ x.motion \in [there : BOOLEAN, score : [{"global_mean", "per_patch_min_256"} -> Scores]]
      /\ y.motion \in [there : BOOLEAN, score : [{"global_mean", "per_patch_min_256"} -> Scores]]
      /\ x.caption \in [CaptionWindows -> Captions] /\ y.caption \in [CaptionWindows -> Captions]
  BY DEF Output
<1> HIDE DEF x, y
<1>3. CASE \E s \in Compare!Sides : m[s].file # "ok"
  <2>1. Compare!MetadataIssues(o, r) = Compare!MetadataReadIssues(r.clip, m)
    BY <1>3 DEF Compare!MetadataIssues
  <2>2. Compare!MetadataReadIssues(r.clip, m) # {}
    BY <1>3 DEF Compare!MetadataReadIssues
  <2>3. ~(x.file = "ok" /\ y.file = "ok")
    BY <1>1, <1>3 DEF Compare!Sides
  <2>4. ~Compare!SameMeta(x, y)
    BY <2>3 DEF Compare!SameMeta
  <2> QED
    BY <2>1, <2>2, <2>4 DEF x, y
<1>4. CASE ~ \E s \in Compare!Sides : m[s].file # "ok"
  <2>1. Compare!MetadataIssues(o, r) =
          (Compare!ScoreIssues(r.clip, "aesthetic_score", A) \cup Compare!MotionIssues(r.clip, B))
            \cup (IF comparison.captions THEN Compare!CaptionIssues(r.clip, C) ELSE {})
    BY <1>4 DEF Compare!MetadataIssues
  <2>2. x.file = "ok" /\ y.file = "ok"
    BY <1>1, <1>4 DEF Compare!Sides
  <2>3. /\ A["a"] = x.aesthetic /\ A["b"] = y.aesthetic /\ B["a"] = x.motion /\ B["b"] = y.motion
        /\ C["a"] = x.caption /\ C["b"] = y.caption
    BY <1>1 DEF Compare!Sides
  <2> HIDE DEF A, B, C, m
  <2>4. Compare!ScoreIssues(r.clip, "aesthetic_score", A) = {} <=> Compare!SameScore(x.aesthetic, y.aesthetic)
    BY <1>2, <2>3, ScoreSame
  <2>5. Compare!MotionIssues(r.clip, B) = {} <=>
           /\ x.motion.there <=> y.motion.there
           /\ x.motion.there => \A f \in Compare!Fields : Compare!SameScore(x.motion.score[f], y.motion.score[f])
    <3>1. \A s \in Compare!Sides : B[s] \in [there : BOOLEAN, score : [{"global_mean", "per_patch_min_256"} -> Scores]]
      BY <1>2, <2>3 DEF Compare!Sides
    <3> QED
      BY <2>3, <3>1, MotionSame
  <2>6. Compare!CaptionIssues(r.clip, C) = {} <=>
           \A w \in CaptionWindows :
             \/ Compare!Max({x.caption[w], 0}) = Compare!Max({y.caption[w], 0})
             \/ /\ Compare!Max({x.caption[w], 0}) > 0 /\ Compare!Max({y.caption[w], 0}) > 0
                /\ Compare!Close(Compare!Max({x.caption[w], 0}), Compare!Max({y.caption[w], 0}))
    <3>1. \A s \in Compare!Sides : C[s] \in [CaptionWindows -> Captions]
      BY <1>2, <2>3 DEF Compare!Sides
    <3>2. \A w : C["a"][w] = x.caption[w] /\ C["b"][w] = y.caption[w]
      BY <2>3
    <3> QED
      BY <3>1, <3>2, CaptionSame
  <2>7. Compare!MetadataIssues(o, r) = {} <=> Compare!SameMeta(x, y)
    BY <2>1, <2>2, <2>4, <2>5, <2>6 DEF Compare!SameMeta
  <2> QED
    BY <2>7 DEF x, y
<1> QED
  BY <1>3, <1>4

LEMMA IndexSame ==
  ASSUME NEW o, NEW r, r.a, r.b
  PROVE  Compare!IndexIssues(o, r) = {} <=>
           /\ o["a"].mp4[r.clip] = o["b"].mp4[r.clip]
           /\ o["a"].mp4[r.clip] \notin {"missing", "no_index", "unreadable"}
<1> DEFINE Bad == {s \in Compare!Sides : r[s] /\ o[s].mp4[r.clip] \in {"missing", "no_index", "unreadable"}}
<1>1. Compare!LoadIssues(o, r) = {} <=> Bad = {}
  BY DEF Compare!LoadIssues
<1>2. Bad = {} <=> /\ o["a"].mp4[r.clip] \notin {"missing", "no_index", "unreadable"}
                   /\ o["b"].mp4[r.clip] \notin {"missing", "no_index", "unreadable"}
  BY DEF Compare!Sides
<1> HIDE DEF Bad
<1>3. Compare!IndexIssues(o, r) = Compare!LoadIssues(o, r) \cup
         (IF Compare!LoadIssues(o, r) = {} /\ ~(o["a"].mp4[r.clip] = o["b"].mp4[r.clip])
          THEN {<<"clip_mp4_index_mismatch", <<r.clip, r.kind>>, "both">>} ELSE {})
  BY DEF Compare!IndexIssues, Compare!SameIndex
<1> QED
  BY <1>1, <1>2, <1>3

-----------------------------------------------------------------------------
(* What the summaries agree on. *)
LEMMA WrittenChunks ==
  ASSUME NEW p \in Output
  PROVE  /\ \A v : Compare!ChunksOf(p, v) = {c \in Compare!Written(p) : SourceOf[c] = v}
         /\ UNION {Compare!ChunksOf(p, v) : v \in p.inputs} = Compare!Written(p)
<1>1. ASSUME NEW v PROVE Compare!ChunksOf(p, v) = {c \in Compare!Written(p) : SourceOf[c] = v}
  BY DEF Compare!ChunksOf, Compare!Written
<1>2. \A c \in Compare!Written(p) : SourceOf[c] \in p.inputs
  BY DEF Compare!Written
<1> QED
  BY <1>1, <1>2

LEMMA ListsSame ==
  ASSUME NEW o, o["a"] \in Output, o["b"] \in Output, Compare!LoadFailures(o) = {},
         Compare!SummaryIssues(Compare!Summary(o["a"]), Compare!Summary(o["b"])) = {}
  PROVE  Compare!SameLists(o["a"], o["b"])
<1> DEFINE x == o["a"]
           y == o["b"]
           s == Compare!Summary(x)
           tt == Compare!Summary(y)
<1>1. x.readable /\ y.readable
  BY DEF Compare!LoadFailures, Compare!Sides
<1>2. DOMAIN s.videos = x.inputs /\ DOMAIN tt.videos = y.inputs
  BY SummaryShape
<1>3. x.inputs = y.inputs
  <2>1. Compare!VideoKeyIssues(s, tt) = {}
    BY DEF Compare!SummaryIssues
  <2> HIDE DEF s, tt
  <2>2. DOMAIN s.videos \ DOMAIN tt.videos = {} /\ DOMAIN tt.videos \ DOMAIN s.videos = {}
    BY <2>1 DEF Compare!VideoKeyIssues
  <2> QED
    BY <1>2, <2>2
<1>4. ASSUME NEW v \in x.inputs
      PROVE  /\ v \in x.processed <=> v \in y.processed
             /\ v \in x.processed => \A k \in {"clip", "filtered_clip"} :
                  Compare!Kept(x, Compare!ChunksOf(x, v), k) = Compare!Kept(y, Compare!ChunksOf(y, v), k)
  <2> DEFINE e == Compare!Entry(x, v)
             d == Compare!Entry(y, v)
  <2>1. s.videos[v] = e /\ tt.videos[v] = d /\ v \in Compare!Shared(s, tt)
    BY <1>2, <1>3, SummaryShape DEF Compare!Shared
  <2>2. \A iss : iss \notin Compare!VideoIssues(v, s.videos[v], tt.videos[v])
    <3> HIDE DEF s, tt
    <3> QED
      BY <2>1 DEF Compare!SummaryIssues, s, tt
  <2>3. Compare!VideoIssues(v, e, d) = {}
    BY <2>1, <2>2
  <2>4. /\ e.processed = (v \in x.processed) /\ d.processed = (v \in y.processed)
        /\ DOMAIN e.lists = {"clip", "filtered_clip"}
        /\ \A k \in {"clip", "filtered_clip"} :
             /\ e.lists[k] = Compare!Kept(x, Compare!ChunksOf(x, v), k)
             /\ d.lists[k] = Compare!Kept(y, Compare!ChunksOf(y, v), k)
    BY DEF Compare!Entry
  <2> HIDE DEF e, d
  <2>5. e.processed = d.processed
    BY <2>3 DEF Compare!VideoIssues
  <2>6. e.processed => \A k \in {"clip", "filtered_clip"} : e.lists[k] = d.lists[k]
    <3> SUFFICES ASSUME e.processed PROVE \A k \in {"clip", "filtered_clip"} : e.lists[k] = d.lists[k]
      OBVIOUS
    <3>1. Compare!ProcessedVideoIssues(v, e, d) = {}
      BY <2>3, <2>5 DEF Compare!VideoIssues
    <3>2. {<<"summary_clip_uuid_set_mismatch", <<v, k>>, "both">> : k \in {k \in DOMAIN e.lists : e.lists[k] # d.lists[k]}} = {}
      BY <3>1 DEF Compare!ProcessedVideoIssues
    <3>3. {k \in DOMAIN e.lists : e.lists[k] # d.lists[k]} = {}
      BY <3>2
    <3> QED
      BY <3>3, <2>4
  <2> QED
    BY <2>4, <2>5, <2>6
<1>5. x.inputs \cap x.processed = y.inputs \cap y.processed
  BY <1>3, <1>4
<1>6. ASSUME NEW p, NEW v, NEW k, NEW c
      PROVE  c \in Compare!Kept(p, Compare!ChunksOf(p, v), k)
               <=> /\ c \in ListedClips /\ SourceOf[c] = v /\ v \in p.inputs \cap p.processed
                   /\ p.chunk[c].there /\ p.chunk[c].kind = k
  BY DEF Compare!Kept, Compare!ChunksOf
<1>7. ASSUME NEW p \in Output, NEW c
      PROVE  c \in Compare!Written(p) <=>
               c \in Compare!Kept(p, Compare!ChunksOf(p, SourceOf[c]), p.chunk[c].kind)
  BY <1>6 DEF Compare!Written
<1>8. ASSUME NEW p \in Output, NEW q \in Output, NEW c \in Compare!Written(p), p.inputs \cap p.processed = q.inputs \cap q.processed,
             \A v \in p.inputs \cap p.processed : \A k \in {"clip", "filtered_clip"} :
               Compare!Kept(p, Compare!ChunksOf(p, v), k) = Compare!Kept(q, Compare!ChunksOf(q, v), k)
      PROVE  c \in Compare!Written(q) /\ p.chunk[c].kind = q.chunk[c].kind
  <2> DEFINE v == SourceOf[c]
             k == p.chunk[c].kind
  <2>1. c \in ListedClips /\ v \in p.inputs \cap p.processed /\ k \in {"clip", "filtered_clip"}
    BY DEF Compare!Written, Output
  <2>2. c \in Compare!Kept(p, Compare!ChunksOf(p, v), k)
    BY <1>7
  <2> HIDE DEF v, k
  <2>3. c \in Compare!Kept(q, Compare!ChunksOf(q, v), k)
    BY <1>8, <2>1, <2>2
  <2>4. SourceOf[c] = v /\ v \in q.inputs \cap q.processed /\ q.chunk[c].there /\ q.chunk[c].kind = k
    BY <1>6, <2>3
  <2> QED
    BY <2>1, <2>4 DEF Compare!Written, k
<1>9. /\ \A c \in Compare!Written(x) : c \in Compare!Written(y) /\ x.chunk[c].kind = y.chunk[c].kind
      /\ \A c \in Compare!Written(y) : c \in Compare!Written(x)
  <2>1. \A v \in x.inputs \cap x.processed : \A k \in {"clip", "filtered_clip"} :
               Compare!Kept(x, Compare!ChunksOf(x, v), k) = Compare!Kept(y, Compare!ChunksOf(y, v), k)
    BY <1>4
  <2> QED
    BY <1>5, <1>8, <2>1
<1> HIDE DEF x, y
<1>10. Compare!SameLists(x, y)
  BY <1>1, <1>3, <1>5, <1>9 DEF Compare!SameLists
<1> QED
  BY <1>10 DEF x, y

\* The summaries of outputs with the same lists and counts.
LEMMA CountsSame ==
  ASSUME NEW x \in Output, NEW y \in Output, Compare!SameLists(x, y), Compare!SameCounts(x, y)
  PROVE  Compare!SummaryIssues(Compare!Summary(x), Compare!Summary(y)) = {}
<1> DEFINE s == Compare!Summary(x)
           tt == Compare!Summary(y)
           W == Compare!Written(x)
<1>1. x.inputs = y.inputs /\ x.inputs \cap x.processed = y.inputs \cap y.processed /\ W = Compare!Written(y)
  BY DEF Compare!SameLists
<1>2. \A c \in W : x.chunk[c].kind = y.chunk[c].kind /\ x.chunk[c].windows = y.chunk[c].windows
  BY DEF Compare!SameLists, Compare!SameCounts
<1>3. \A p \in Output : \A v : Compare!ChunksOf(p, v) = {c \in Compare!Written(p) : SourceOf[c] = v}
  BY WrittenChunks
<1>4. ASSUME NEW k, NEW S \in SUBSET W PROVE Compare!Kept(x, S, k) = Compare!Kept(y, S, k)
  BY <1>2 DEF Compare!Kept
<1>5. ASSUME NEW v \in x.inputs
      PROVE  Compare!VideoIssues(v, s.videos[v], tt.videos[v]) = {}
  <2> DEFINE e == Compare!Entry(x, v)
             d == Compare!Entry(y, v)
             S == Compare!ChunksOf(x, v)
  <2>1. s.videos[v] = e /\ tt.videos[v] = d
    BY <1>1, SummaryShape
  <2>2. S = Compare!ChunksOf(y, v) /\ S \in SUBSET W
    BY <1>1, <1>3
  <2>3. e.processed = d.processed
    BY <1>1 DEF Compare!Entry
  <2>4. e.chunks = d.chunks
    BY <2>2, Zenon DEF Compare!Entry
  <2>5. e.windows = d.windows
    <3>1. [c \in S |-> x.chunk[c].windows] = [c \in S |-> y.chunk[c].windows]
      BY <1>2, <2>2
    <3>2. /\ e.windows = Compare!SumFunction([c \in S |-> x.chunk[c].windows])
          /\ d.windows = Compare!SumFunction([c \in Compare!ChunksOf(y, v) |-> y.chunk[c].windows])
      BY DEF Compare!Entry
    <3> QED
      BY <2>2, <3>1, <3>2, Zenon
  <2>6. DOMAIN e.lists = {"clip", "filtered_clip"} /\ \A k \in {"clip", "filtered_clip"} : e.lists[k] = d.lists[k]
    <3>1. \A k \in {"clip", "filtered_clip"} :
             /\ e.lists[k] = Compare!Kept(x, Compare!ChunksOf(x, v), k)
             /\ d.lists[k] = Compare!Kept(y, Compare!ChunksOf(y, v), k)
      BY DEF Compare!Entry
    <3>2. DOMAIN e.lists = {"clip", "filtered_clip"}
      BY DEF Compare!Entry
    <3> HIDE DEF e, d, S
    <3>3. \A k : Compare!Kept(x, S, k) = Compare!Kept(y, S, k)
      BY <1>4, <2>2
    <3>4. Compare!ChunksOf(x, v) = S /\ Compare!ChunksOf(y, v) = S
      BY <2>2 DEF S
    <3> QED
      BY <3>1, <3>2, <3>3, <3>4
  <2> HIDE DEF e, d
  <2>7. Compare!VideoIssues(v, e, d) = {}
    BY <2>3, <2>4, <2>5, <2>6 DEF Compare!VideoIssues, Compare!ProcessedVideoIssues
  <2> QED
    BY <2>1, <2>7
<1>6. DOMAIN s.videos = x.inputs /\ DOMAIN tt.videos = x.inputs
  BY <1>1, SummaryShape
<1>7. Compare!TopLevelFieldIssues(s, tt) = {}
  <2> DEFINE S(p) == UNION {Compare!ChunksOf(p, v) : v \in p.inputs}
  <2>1. S(x) = W /\ S(y) = W
    BY <1>1, WrittenChunks
  <2>2. /\ s.top = [inputs |-> Compare!Cardinality(x.inputs), processed |-> Compare!Cardinality(x.processed),
                    passed |-> Compare!Cardinality(Compare!Kept(x, S(x), "clip")),
                    tokens |-> Compare!SumFunction([c \in S(x) |-> x.chunk[c].tokens])]
        /\ tt.top = [inputs |-> Compare!Cardinality(y.inputs), processed |-> Compare!Cardinality(y.processed),
                    passed |-> Compare!Cardinality(Compare!Kept(y, S(y), "clip")),
                    tokens |-> Compare!SumFunction([c \in S(y) |-> y.chunk[c].tokens])]
    BY DEF Compare!Summary
  <2> HIDE DEF S
  <2>3. s.top.inputs = tt.top.inputs
    BY <1>1, <2>2
  <2>4. s.top.processed = tt.top.processed
    BY <2>2 DEF Compare!SameCounts
  <2>5. s.top.passed = tt.top.passed
    <3>1. Compare!Kept(x, W, "clip") = Compare!Kept(y, W, "clip")
      BY <1>4
    <3> QED
      BY <2>1, <2>2, <3>1
  <2>6. s.top.tokens - tt.top.tokens <= Slack /\ tt.top.tokens - s.top.tokens <= Slack
    <3>1. /\ s.top.tokens = Compare!SumFunction([c \in W |-> x.chunk[c].tokens])
          /\ tt.top.tokens = Compare!SumFunction([c \in Compare!Written(y) |-> y.chunk[c].tokens])
      BY <1>1, <2>1, <2>2
    <3> QED
      BY <3>1 DEF Compare!SameCounts
  <2>7. DOMAIN s.top = {"inputs", "processed", "passed", "tokens"}
    BY SummaryShape
  <2> HIDE DEF s, tt
  <2>8. \A f \in DOMAIN s.top : Compare!ValuesMatch(f, s.top[f], tt.top[f])
    BY <2>3, <2>4, <2>5, <2>6, <2>7 DEF Compare!ValuesMatch
  <2> QED
    BY <2>8 DEF Compare!TopLevelFieldIssues
<1> HIDE DEF s, tt
<1>8. Compare!VideoKeyIssues(s, tt) = {}
  BY <1>6 DEF Compare!VideoKeyIssues
<1>9. Compare!SummaryIssues(s, tt) = {}
  BY <1>5, <1>6, <1>7, <1>8 DEF Compare!SummaryIssues, Compare!Shared
<1> QED
  BY <1>9 DEF s, tt

-----------------------------------------------------------------------------
(* The rows that are looked at. *)
LEMMA RowsBefore ==
  /\ \A q \in RowsAny : ~Compare!Before(q, q)
  /\ \A p \in RowsAny, q \in RowsAny, r \in RowsAny :
       Compare!Before(p, q) /\ Compare!Before(q, r) => Compare!Before(p, r)
<1>1. ASSUME NEW r \in RowsAny PROVE r.clip \in Int /\ SourceOf[r.clip] \in Int
  <2>1. r.clip \in ListedClips
    BY DEF RowsAny
  <2>2. ListedClips \subseteq Nat /\ SourceOf \in [ListedClips -> Nat]
    BY ComparisonAssumption
  <2>3. r.clip \in Nat /\ SourceOf[r.clip] \in Nat
    BY <2>1, <2>2
  <2> HIDE DEF RowsAny
  <2> QED
    BY <2>3
<1> QED
  BY <1>1 DEF Compare!Before

\* Of a set of rows, those with less than L before them are all, or L at least.
LEMMA FirstRows ==
  ASSUME NEW K \in SUBSET RowsAny, NEW L \in Nat,
         NEW F, F = {r \in K : Cardinality({q \in K : Compare!Before(q, r)}) < L}
  PROVE  F = K \/ Cardinality(F) >= L
<1> DEFINE P(r) == {q \in K : Compare!Before(q, r)}
           C == [r \in K |-> Cardinality(P(r))]
<1>1. IsFiniteSet(K) /\ \A S \in SUBSET K : IsFiniteSet(S) /\ Cardinality(S) \in Nat
  BY RowsFinite, FS_Subset, FS_CardinalityType
<1>2. \A r \in K : P(r) \in SUBSET K /\ C[r] = Cardinality(P(r)) /\ C[r] \in Nat
  BY <1>1
<1>3. F = {r \in K : C[r] < L}
  BY DEF C
<1> HIDE DEF C
<1> SUFFICES ASSUME F # K PROVE Cardinality(F) >= L
  OBVIOUS
<1> DEFINE N == {C[r] : r \in K \ F}
<1>4. N \in SUBSET Nat /\ N # {}
  BY <1>2, <1>3
<1>5. PICK n \in N : \A k \in N : n <= k
  BY <1>4, LeastOf
<1>6. PICK m \in K \ F : C[m] = n
  OBVIOUS
<1>7. ASSUME NEW q \in P(m) PROVE q \in F
  <2> SUFFICES ASSUME q \notin F PROVE FALSE
    OBVIOUS
  <2>1. q \in K \ F /\ Compare!Before(q, m)
    OBVIOUS
  <2>2. C[q] >= C[m]
    BY <1>2, <1>5, <1>6, <2>1
  <2>3. P(q) \in SUBSET P(m) /\ q \in P(m) /\ q \notin P(q)
    BY <2>1, RowsBefore
  <2>4. IsFiniteSet(P(m))
    BY <1>1, <1>2
  <2> HIDE DEF P
  <2>5. Cardinality(P(q)) <= Cardinality(P(m)) /\ Cardinality(P(q)) # Cardinality(P(m))
    BY <2>3, <2>4, FS_Subset
  <2>6. C[q] = Cardinality(P(q)) /\ C[m] = Cardinality(P(m)) /\ C[q] \in Nat /\ C[m] \in Nat
    BY <1>2, <1>6, <2>1
  <2> QED
    BY <2>2, <2>5, <2>6
<1>8. P(m) \in SUBSET F /\ F \in SUBSET K
  BY <1>3, <1>7
<1>9. Cardinality(P(m)) <= Cardinality(F) /\ Cardinality(F) \in Nat
  <2> HIDE DEF P
  <2> QED
    BY <1>1, <1>8, FS_Subset
<1>10. C[m] >= L /\ C[m] = Cardinality(P(m)) /\ C[m] \in Nat
  BY <1>2, <1>3, <1>6
<1> QED
  BY <1>9, <1>10

\* The rows of outputs with the same lists, one for each clip.
RowOf(p, c) == [clip |-> c, kind |-> p.chunk[c].kind, a |-> TRUE, b |-> TRUE]

LEMMA RowsSame ==
  ASSUME NEW o, o["a"] \in Output, o["b"] \in Output, Compare!SameLists(o["a"], o["b"])
  PROVE  Rows(o) = {RowOf(o["a"], c) : c \in Compare!Written(o["a"])}
<1> DEFINE x == o["a"]
           y == o["b"]
<1>1. /\ x.inputs = y.inputs /\ x.inputs \cap x.processed = y.inputs \cap y.processed
      /\ \A c : c \in Compare!Written(x) <=> c \in Compare!Written(y)
      /\ \A c \in Compare!Written(x) : x.chunk[c].kind = y.chunk[c].kind
  BY DEF Compare!SameLists
<1>2. ASSUME NEW r \in Rows(o) PROVE r.clip \in Compare!Written(x) /\ r = RowOf(x, r.clip)
  <2>1. RowIn(o, r)
    BY RowsAre
  <2>2. /\ r.clip \in ListedClips /\ r.a \in BOOLEAN /\ r.b \in BOOLEAN /\ (r.a \/ r.b)
        /\ r = [clip |-> r.clip, kind |-> r.kind, a |-> r.a, b |-> r.b]
    BY <2>1 DEF RowIn, RowsAny
  <2>3. /\ r.a <=> (x.chunk[r.clip].there /\ x.chunk[r.clip].kind = r.kind)
        /\ r.b <=> (y.chunk[r.clip].there /\ y.chunk[r.clip].kind = r.kind)
    BY <2>1 DEF RowIn, Compare!Sides
  <2>4. SourceOf[r.clip] \in x.inputs \cap y.inputs \cap x.processed \cap y.processed
    BY <2>1 DEF RowIn
  <2>5. /\ r.a => r.clip \in Compare!Written(x)
        /\ r.b => r.clip \in Compare!Written(y)
    BY <2>2, <2>3, <2>4 DEF Compare!Written
  <2>6. r.clip \in Compare!Written(x) /\ r.clip \in Compare!Written(y) /\ x.chunk[r.clip].kind = y.chunk[r.clip].kind
    BY <1>1, <2>2, <2>5
  <2>7. x.chunk[r.clip].there /\ y.chunk[r.clip].there
    BY <2>6 DEF Compare!Written
  <2>8. r.kind = x.chunk[r.clip].kind /\ r.a = TRUE /\ r.b = TRUE
    BY <2>2, <2>3, <2>6, <2>7
  <2> QED
    BY <2>2, <2>6, <2>8 DEF RowOf
<1>3. ASSUME NEW c \in Compare!Written(x) PROVE RowOf(x, c) \in Rows(o)
  <2> DEFINE r == RowOf(x, c)
  <2>1. /\ c \in ListedClips /\ SourceOf[c] \in x.inputs \cap x.processed /\ x.chunk[c].there
        /\ SourceOf[c] \in y.inputs \cap y.processed /\ y.chunk[c].there /\ x.chunk[c].kind = y.chunk[c].kind
    BY <1>1 DEF Compare!Written
  <2>2. x.chunk[c].kind \in {"clip", "filtered_clip"}
    BY <2>1 DEF Output
  <2>3. r.clip = c /\ r.kind = x.chunk[c].kind /\ r["a"] = TRUE /\ r["b"] = TRUE /\ r \in RowsAny
    BY <2>1, <2>2 DEF RowOf, RowsAny
  <2> HIDE DEF r
  <2>4. \A s \in Compare!Sides : r[s] <=> (o[s].chunk[r.clip].there /\ o[s].chunk[r.clip].kind = r.kind)
    BY <2>1, <2>3 DEF Compare!Sides
  <2>5. RowIn(o, r)
    BY <2>1, <2>3, <2>4 DEF RowIn
  <2> QED
    BY <2>5, RowsAre DEF r
<1> QED
  BY <1>2, <1>3

-----------------------------------------------------------------------------
(* A comparison says what is. *)
OptionsAny == [captions : BOOLEAN, index : BOOLEAN, video : Nat, limit : Nat]

AskedOf(p) == {c \in Compare!Written(p) : Compare!Asked(c)}
SameOf(p, q) == {c \in AskedOf(p) : Compare!SameClip(p, q, c)}

\* A row that is looked at, of outputs with the same lists.
LEMMA SelectedRows ==
  ASSUME NEW o, o["a"] \in Output, o["b"] \in Output, Compare!SameLists(o["a"], o["b"])
  PROVE  \A r \in Compare!RowsOf(o) :
           /\ r.clip \in AskedOf(o["a"]) /\ r = RowOf(o["a"], r.clip) /\ r.clip \in ListedClips
<1> DEFINE x == o["a"]
<1>1. Rows(o) = {RowOf(x, c) : c \in Compare!Written(x)}
  BY RowsSame
<1>2. Compare!RowsOf(o) = Compare!Selected(Rows(o))
  BY DEF Compare!RowsOf, Rows
<1>3. ASSUME NEW r \in Compare!Selected(Rows(o))
      PROVE  r \in Rows(o) /\ comparison.video \in {Compare!AnyVideo, SourceOf[r.clip]}
  BY DEF Compare!Selected
<1>4. ASSUME NEW r \in Compare!RowsOf(o)
      PROVE  r.clip \in AskedOf(x) /\ r = RowOf(x, r.clip) /\ r.clip \in ListedClips
  <2>1. r \in Rows(o) /\ comparison.video \in {Compare!AnyVideo, SourceOf[r.clip]}
    BY <1>2, <1>3
  <2>2. PICK c \in Compare!Written(x) : r = RowOf(x, c)
    BY <1>1, <2>1
  <2>3. r.clip = c /\ c \in ListedClips
    BY <2>2 DEF RowOf, Compare!Written
  <2> QED
    BY <2>1, <2>2, <2>3 DEF AskedOf, Compare!Asked
<1> QED
  BY <1>4

\* A row without issues is of a clip that is the same.
LEMMA RowSame ==
  ASSUME NEW o, o["a"] \in Output, o["b"] \in Output, Compare!SameLists(o["a"], o["b"]),
         NEW r \in Compare!RowsOf(o)
  PROVE  Compare!SameClip(o["a"], o["b"], r.clip) <=>
           /\ r.kind = "clip" => Compare!MetadataIssues(o, r) = {}
           /\ comparison.index => Compare!IndexIssues(o, r) = {}
<1>1. r = RowOf(o["a"], r.clip) /\ r.clip \in ListedClips /\ r.clip \in Compare!Written(o["a"])
  BY SelectedRows DEF AskedOf
<1>2. r.kind = o["a"].chunk[r.clip].kind /\ r.a = TRUE /\ r.b = TRUE
  BY <1>1 DEF RowOf
<1>3. o["a"].chunk[r.clip].kind = o["b"].chunk[r.clip].kind
  BY <1>1 DEF Compare!SameLists
<1>4. Compare!MetadataIssues(o, r) = {} <=> Compare!SameMeta(o["a"].meta[r.clip], o["b"].meta[r.clip])
  BY <1>1, <1>2, MetadataSame
<1>5. Compare!IndexIssues(o, r) = {} <=>
           /\ o["a"].mp4[r.clip] = o["b"].mp4[r.clip]
           /\ o["a"].mp4[r.clip] \notin {"missing", "no_index", "unreadable"}
  BY <1>2, IndexSame
<1> QED
  BY <1>2, <1>3, <1>4, <1>5 DEF Compare!SameClip

\* As many rows are looked at as there are clips, up to the limit.
LEMMA EnoughRows ==
  ASSUME NEW o, o["a"] \in Output, o["b"] \in Output, Compare!SameLists(o["a"], o["b"]), comparison \in OptionsAny
  PROVE  LET C == {r.clip : r \in Compare!RowsOf(o)}
             n == Cardinality(AskedOf(o["a"])) IN
         /\ C \in SUBSET ListedClips /\ IsFiniteSet(C) /\ Cardinality(C) \in Nat /\ n \in Nat
         /\ Cardinality(C) >= n \/ (comparison.limit # 0 /\ Cardinality(C) >= comparison.limit)
<1> DEFINE x == o["a"]
           R == Compare!RowsOf(o)
           C == {r.clip : r \in R}
           S == AskedOf(x)
           K == {r \in Rows(o) : comparison.video \in {Compare!AnyVideo, SourceOf[r.clip]}}
           f == [r \in R |-> r.clip]
           g == [c \in S |-> RowOf(x, c)]
<1>1. \A r \in R : r.clip \in ListedClips /\ r = RowOf(x, r.clip)
  BY SelectedRows
<1>2. K \in SUBSET RowsAny /\ IsFiniteSet(K)
  <2>1. Rows(o) \in SUBSET RowsAny
    BY RowsAre DEF RowIn
  <2> QED
    BY <2>1, RowsFinite, FS_Subset
<1>3. R = {r \in K : comparison.limit = 0 \/ Cardinality({q \in K : Compare!Before(q, r)}) < comparison.limit}
  <2>1. R = Compare!Selected(Rows(o))
    BY DEF Compare!RowsOf, Rows
  <2>2. Compare!Selected(Rows(o)) =
          {r \in K : comparison.limit = 0 \/ Cardinality({q \in K : Compare!Before(q, r)}) < comparison.limit}
    BY CompareCards DEF Compare!Selected, Compare!NoLimit
  <2> HIDE DEF R, K
  <2> QED
    BY <2>1, <2>2, Zenon
<1>4. R = K \/ (comparison.limit # 0 /\ Cardinality(R) >= comparison.limit)
  <2> HIDE DEF R, K
  <2>1. CASE comparison.limit = 0
    BY <1>3, <2>1
  <2>2. CASE comparison.limit # 0
    <3>1. R = {r \in K : Cardinality({q \in K : Compare!Before(q, r)}) < comparison.limit}
      BY <1>3, <2>2
    <3>2. comparison.limit \in Nat
      BY DEF OptionsAny
    <3> QED
      BY <1>2, <2>2, <3>1, <3>2, FirstRows
  <2> QED
    BY <2>1, <2>2
<1>5. IsFiniteSet(ListedClips) /\ IsFiniteSet(C) /\ C \in SUBSET ListedClips /\ Cardinality(C) \in Nat
  <2>1. C \in SUBSET ListedClips
    BY <1>1
  <2> HIDE DEF C
  <2> QED
    BY <2>1, ComparisonAssumption, FS_Subset, FS_CardinalityType
<1>6. IsFiniteSet(R) /\ Cardinality(R) \in Nat
  <2>1. R \in SUBSET K
    BY <1>3
  <2> HIDE DEF R, K
  <2> QED
    BY <2>1, <1>2, FS_Subset, FS_CardinalityType
<1>7. Cardinality(R) <= Cardinality(C)
  <2>1. f \in [R -> C]
    OBVIOUS
  <2>2. ASSUME NEW q \in R, NEW r \in R, f[q] = f[r] PROVE q = r
    <3>1. q.clip = r.clip
      BY <2>2
    <3> HIDE DEF R
    <3> QED
      BY <1>1, <3>1
  <2> HIDE DEF R, C
  <2>3. f \in Injection(R, C)
    BY <2>1, <2>2 DEF Injection, IsInjective
  <2> QED
    BY <1>5, <2>3, FS_Injection
<1>8. Cardinality(S) <= Cardinality(K) /\ Cardinality(S) \in Nat /\ Cardinality(K) \in Nat
  <2>1. g \in [S -> K]
    <3> SUFFICES ASSUME NEW c \in S PROVE RowOf(x, c) \in K
      OBVIOUS
    <3>1. RowOf(x, c) \in Rows(o) /\ RowOf(x, c).clip = c
      BY RowsSame DEF AskedOf, RowOf
    <3>2. comparison.video \in {Compare!AnyVideo, SourceOf[c]}
      BY DEF AskedOf, Compare!Asked
    <3> QED
      BY <3>1, <3>2
  <2>2. ASSUME NEW c \in S, NEW d \in S, g[c] = g[d] PROVE c = d
    <3>1. RowOf(x, c) = RowOf(x, d)
      BY <2>2
    <3> QED
      BY <3>1 DEF RowOf
  <2> HIDE DEF K, S
  <2>3. g \in Injection(S, K)
    BY <2>1, <2>2 DEF Injection, IsInjective
  <2> QED
    BY <1>2, <2>3, FS_Injection, FS_CardinalityType
<1> HIDE DEF R, C, S, K
<1>9. Cardinality(C) >= Cardinality(S) \/ (comparison.limit # 0 /\ Cardinality(C) >= comparison.limit)
  <2>1. comparison.limit \in Nat
    BY DEF OptionsAny
  <2> QED
    BY <1>4, <1>5, <1>6, <1>7, <1>8, <2>1
<1> QED
  BY <1>5, <1>8, <1>9 DEF C, S, R

\* The issues, part by part.
MetaOf  == [r \in RowsAny |-> Compare!MetadataIssues(outputs, r)]
IndexOf == [r \in RowsAny |-> Compare!IndexIssues(outputs, r)]
OfSummaries == Compare!SummaryIssues(Compare!Summary(outputs["a"]), Compare!Summary(outputs["b"]))
ListedRows  == IF comparison.index THEN Compare!RowsOf(outputs) ELSE {}
PassingRows == Compare!Passing(Compare!RowsOf(outputs))

LEMMA RowsTyped ==
  ASSUME outputs \in [a : Output, b : Output]
  PROVE  /\ Compare!RowsOf(outputs) \in SUBSET RowsAny
         /\ PassingRows \in SUBSET RowsAny /\ ListedRows \in SUBSET RowsAny
<1>1. outputs["a"] \in Output /\ outputs["b"] \in Output
  OBVIOUS
<1>2. Rows(outputs) \in SUBSET RowsAny
  BY <1>1, RowsAre DEF RowIn
<1>3. Compare!RowsOf(outputs) \subseteq Rows(outputs)
  BY DEF Compare!RowsOf, Rows, Compare!Selected
<1> QED
  BY <1>2, <1>3 DEF PassingRows, ListedRows, Compare!Passing

LEMMA IssuesAre ==
  ASSUME outputs \in [a : Output, b : Output], Compare!LoadFailures(outputs) = {}
  PROVE  Compare!IssuesOf(outputs) = (OfSummaries \cup AllOf(MetaOf, PassingRows)) \cup AllOf(IndexOf, ListedRows)
<1> DEFINE J == UNION {Compare!MetadataIssues(outputs, r) : r \in PassingRows}
           K == UNION {Compare!IndexIssues(outputs, r) : r \in Compare!RowsOf(outputs)}
<1>1. J = AllOf(MetaOf, PassingRows)
  BY RowsTyped DEF AllOf, MetaOf
<1>2. comparison.index => K = AllOf(IndexOf, ListedRows)
  BY RowsTyped DEF AllOf, IndexOf, ListedRows
<1>3. ~comparison.index => AllOf(IndexOf, ListedRows) = {}
  BY DEF AllOf, ListedRows
<1>4. Compare!IssuesOf(outputs) = (OfSummaries \cup J) \cup (IF comparison.index THEN K ELSE {})
  BY DEF Compare!IssuesOf, OfSummaries, PassingRows
<1> HIDE DEF J, K
<1> QED
  BY <1>1, <1>2, <1>3, <1>4

\* One more row is looked at.
LEMMA OneMoreRow ==
  ASSUME NEW F, NEW D, NEW E, NEW r, D = E \cup {r}
  PROVE  AllOf(F, D) = AllOf(F, E) \cup F[r]
BY DEF AllOf

\* The issues are those of the summaries and of the rows that are not left to do, and at the end
\* those of all rows, in whichever order they were looked at.
CompareInv ==
  /\ outputs \in [a : Output, b : Output]
  /\ comparison \in OptionsAny
  /\ compareAt \in {"load", "summary", "metadata", "index"} => same = FALSE
  /\ compareAt \in {"summary", "metadata", "index"} => Compare!LoadFailures(outputs) = {}
  /\ compareAt = "metadata" =>
       /\ todo \in SUBSET PassingRows
       /\ issues = OfSummaries \cup AllOf(MetaOf, PassingRows \ todo)
  /\ compareAt = "index" =>
       /\ todo \in SUBSET ListedRows
       /\ issues = (OfSummaries \cup AllOf(MetaOf, PassingRows)) \cup AllOf(IndexOf, ListedRows \ todo)
  /\ compareAt = "report" => issues = Compare!IssuesOf(outputs) /\ same = (issues = {})

LEMMA CompareInit == Compare!Init => CompareInv
<1> SUFFICES ASSUME Compare!Init PROVE CompareInv
  OBVIOUS
<1>1. PICK p \in OutputPairs : outputs = [a |-> p[1], b |-> p[2]]
  BY DEF Compare!Init
<1>2. outputs \in [a : Output, b : Output]
  BY <1>1, ComparisonAssumption
<1>3. comparison \in OptionsAny
  BY ComparisonAssumption DEF Compare!Init, OptionsAny
<1> QED
  BY <1>2, <1>3 DEF Compare!Init, CompareInv

LEMMA CompareStep == CompareInv /\ [Compare!Next]_(Compare!compareVars) => CompareInv'
<1> SUFFICES ASSUME CompareInv, [Compare!Next]_(Compare!compareVars) PROVE CompareInv'
  OBVIOUS
<1>1. outputs \in [a : Output, b : Output] /\ comparison \in OptionsAny
  BY DEF CompareInv
<1>2. PassingRows \in SUBSET RowsAny /\ ListedRows \in SUBSET RowsAny
  BY <1>1, RowsTyped
<1>3. ASSUME outputs' = outputs, comparison' = comparison
      PROVE  /\ OfSummaries' = OfSummaries /\ PassingRows' = PassingRows /\ ListedRows' = ListedRows
             /\ MetaOf' = MetaOf /\ IndexOf' = IndexOf
             /\ Compare!LoadFailures(outputs)' = Compare!LoadFailures(outputs)
             /\ Compare!IssuesOf(outputs)' = Compare!IssuesOf(outputs)
  <2>1. /\ OfSummaries' = OfSummaries /\ Compare!LoadFailures(outputs)' = Compare!LoadFailures(outputs)
    BY <1>3 DEF OfSummaries
  <2>2. Compare!RowsOf(outputs)' = Compare!RowsOf(outputs)
    BY <1>3 DEF Compare!RowsOf, Compare!Selected
  <2>3. PassingRows' = PassingRows /\ ListedRows' = ListedRows
    BY <1>3, <2>2 DEF PassingRows, ListedRows
  <2>4. \A r : Compare!MetadataIssues(outputs, r)' = Compare!MetadataIssues(outputs, r)
    BY <1>3 DEF Compare!MetadataIssues
  <2>5. \A r : Compare!IndexIssues(outputs, r)' = Compare!IndexIssues(outputs, r)
    BY <1>3 DEF Compare!IndexIssues
  <2>6. MetaOf' = MetaOf /\ IndexOf' = IndexOf
    BY <2>4, <2>5 DEF MetaOf, IndexOf
  <2>7. Compare!IssuesOf(outputs)' = Compare!IssuesOf(outputs)
    BY <1>3, <2>2, <2>4, <2>5 DEF Compare!IssuesOf
  <2> QED
    BY <2>1, <2>3, <2>6, <2>7
<1>4. CASE Compare!Load
  BY <1>1, <1>3, <1>4 DEF Compare!Load, CompareInv, Compare!IssuesOf
<1>5. CASE Compare!CompareSummaries
  <2>1. AllOf(MetaOf, PassingRows \ PassingRows) = {}
    BY DEF AllOf
  <2>2. issues' = OfSummaries /\ todo' = PassingRows
    BY <1>5 DEF Compare!CompareSummaries, OfSummaries, PassingRows
  <2>3. issues' = OfSummaries \cup AllOf(MetaOf, PassingRows \ todo')
    BY <2>1, <2>2
  <2> QED
    BY <1>1, <1>3, <1>5, <2>2, <2>3 DEF Compare!CompareSummaries, CompareInv
<1>6. CASE Compare!NextStage
  <2>1. PassingRows \ todo = PassingRows /\ todo' = ListedRows
    BY <1>6 DEF Compare!NextStage, ListedRows
  <2>2. AllOf(IndexOf, ListedRows \ ListedRows) = {}
    BY DEF AllOf
  <2>3. issues' = (OfSummaries \cup AllOf(MetaOf, PassingRows)) \cup AllOf(IndexOf, ListedRows \ todo')
    BY <1>6, <2>1, <2>2 DEF Compare!NextStage, CompareInv
  <2> QED
    BY <1>1, <1>3, <1>6, <2>1, <2>3 DEF Compare!NextStage, CompareInv
<1>7. CASE Compare!Report
  <2>1. ListedRows \ todo = ListedRows
    BY <1>7 DEF Compare!Report
  <2>2. issues = Compare!IssuesOf(outputs)
    BY <1>1, <1>7, <2>1, IssuesAre DEF Compare!Report, CompareInv
  <2> QED
    BY <1>1, <1>3, <1>7, <2>2 DEF Compare!Report, CompareInv
<1>8. CASE Compare!Raises
  BY <1>1, <1>3, <1>8 DEF Compare!Raises, CompareInv
<1>9. ASSUME NEW r \in todo, Compare!CompareMetadata(r) PROVE CompareInv'
  <2>1. r \in PassingRows /\ todo \in SUBSET PassingRows
    BY <1>9 DEF Compare!CompareMetadata, CompareInv
  <2>2. MetaOf[r] = Compare!MetadataIssues(outputs, r)
    BY <1>2, <2>1 DEF MetaOf
  <2>3. AllOf(MetaOf, PassingRows \ todo') = AllOf(MetaOf, PassingRows \ todo) \cup MetaOf[r]
    <3> DEFINE D == PassingRows \ todo'
               E == PassingRows \ todo
    <3>1. D = E \cup {r}
      BY <2>1, <1>9 DEF Compare!CompareMetadata
    <3> HIDE DEF D, E
    <3>3. AllOf(MetaOf, D) = AllOf(MetaOf, E) \cup MetaOf[r]
      BY <3>1, OneMoreRow
    <3> QED
      BY <3>3 DEF D, E
  <2>4. issues' = OfSummaries \cup AllOf(MetaOf, PassingRows \ todo')
    BY <1>9, <2>2, <2>3 DEF Compare!CompareMetadata, CompareInv
  <2> QED
    BY <1>1, <1>3, <1>9, <2>1, <2>4 DEF Compare!CompareMetadata, CompareInv
<1>10. ASSUME NEW r \in todo, Compare!CompareIndex(r) PROVE CompareInv'
  <2>1. r \in ListedRows /\ todo \in SUBSET ListedRows
    BY <1>10 DEF Compare!CompareIndex, CompareInv
  <2>2. IndexOf[r] = Compare!IndexIssues(outputs, r)
    BY <1>2, <2>1 DEF IndexOf
  <2>3. AllOf(IndexOf, ListedRows \ todo') = AllOf(IndexOf, ListedRows \ todo) \cup IndexOf[r]
    <3> DEFINE D == ListedRows \ todo'
               E == ListedRows \ todo
    <3>1. D = E \cup {r}
      BY <2>1, <1>10 DEF Compare!CompareIndex
    <3> HIDE DEF D, E
    <3>3. AllOf(IndexOf, D) = AllOf(IndexOf, E) \cup IndexOf[r]
      BY <3>1, OneMoreRow
    <3> QED
      BY <3>3 DEF D, E
  <2>4. issues' = (OfSummaries \cup AllOf(MetaOf, PassingRows)) \cup AllOf(IndexOf, ListedRows \ todo')
    BY <1>10, <2>2, <2>3 DEF Compare!CompareIndex, CompareInv
  <2> QED
    BY <1>1, <1>3, <1>10, <2>1, <2>4 DEF Compare!CompareIndex, CompareInv
<1>11. CASE UNCHANGED Compare!compareVars
  BY <1>1, <1>3, <1>11 DEF Compare!compareVars, CompareInv
<1> QED
  BY <1>4, <1>5, <1>6, <1>7, <1>8, <1>9, <1>10, <1>11 DEF Compare!Next

LEMMA SaysIt ==
  ASSUME outputs \in [a : Output, b : Output], comparison \in OptionsAny, same = (Compare!IssuesOf(outputs) = {})
  PROVE  Compare!SaysWhatIs
<1> DEFINE x == outputs["a"]
           y == outputs["b"]
           C == {r.clip : r \in Compare!RowsOf(outputs)}
           n == Cardinality(AskedOf(x))
<1>1. x \in Output /\ y \in Output
  OBVIOUS
<1>2. ASSUME Compare!LoadFailures(outputs) = {}
      PROVE  (Compare!IssuesOf(outputs) = {}) <=>
               /\ OfSummaries = {}
               /\ \A r \in PassingRows : Compare!MetadataIssues(outputs, r) = {}
               /\ \A r \in ListedRows : Compare!IndexIssues(outputs, r) = {}
  <2>1. Compare!IssuesOf(outputs) = (OfSummaries \cup AllOf(MetaOf, PassingRows)) \cup AllOf(IndexOf, ListedRows)
    BY <1>2, IssuesAre
  <2>2. /\ AllOf(MetaOf, PassingRows) = {} <=> \A r \in PassingRows : Compare!MetadataIssues(outputs, r) = {}
        /\ AllOf(IndexOf, ListedRows) = {} <=> \A r \in ListedRows : Compare!IndexIssues(outputs, r) = {}
    <3>1. /\ \A r \in PassingRows : MetaOf[r] = Compare!MetadataIssues(outputs, r)
          /\ \A r \in ListedRows : IndexOf[r] = Compare!IndexIssues(outputs, r)
      BY RowsTyped DEF MetaOf, IndexOf
    <3>2. \A F, S : AllOf(F, S) = {} <=> \A r \in S : F[r] = {}
      <4> SUFFICES ASSUME NEW F, NEW S PROVE AllOf(F, S) = {} <=> \A r \in S : F[r] = {}
        OBVIOUS
      <4>1. (\A r \in S : F[r] = {}) => AllOf(F, S) = {}
        BY DEF AllOf
      <4>2. ASSUME AllOf(F, S) = {}, NEW r \in S PROVE F[r] = {}
        BY <4>2 DEF AllOf
      <4> QED
        BY <4>1, <4>2
    <3> QED
      BY <3>1, <3>2
  <2> QED
    BY <2>1, <2>2
<1>3. ASSUME Compare!SameLists(x, y)
      PROVE  /\ Compare!LoadFailures(outputs) = {}
             /\ (\A r \in PassingRows : Compare!MetadataIssues(outputs, r) = {})
                  /\ (\A r \in ListedRows : Compare!IndexIssues(outputs, r) = {})
                <=> \A r \in Compare!RowsOf(outputs) : Compare!SameClip(x, y, r.clip)
  <2>1. Compare!LoadFailures(outputs) = {}
    BY <1>3 DEF Compare!SameLists, Compare!LoadFailures, Compare!Sides
  <2>2. \A r \in Compare!RowsOf(outputs) : Compare!SameClip(x, y, r.clip) <=>
           /\ r.kind = "clip" => Compare!MetadataIssues(outputs, r) = {}
           /\ comparison.index => Compare!IndexIssues(outputs, r) = {}
    BY <1>1, <1>3, RowSame
  <2>3. \A r : /\ r \in PassingRows <=> r \in Compare!RowsOf(outputs) /\ r.kind = "clip"
               /\ r \in ListedRows <=> r \in Compare!RowsOf(outputs) /\ comparison.index
    BY DEF PassingRows, ListedRows, Compare!Passing
  <2> HIDE DEF x, y
  <2> QED
    BY <2>1, <2>2, <2>3
<1>4. ASSUME same
      PROVE  /\ Compare!SameLists(x, y)
             /\ Compare!Cardinality(SameOf(x, y)) >=
                  IF comparison.limit = Compare!NoLimit THEN Compare!Cardinality(AskedOf(x))
                  ELSE Compare!Min({comparison.limit, Compare!Cardinality(AskedOf(x))})
  <2>1. Compare!IssuesOf(outputs) = {}
    BY <1>4
  <2>2. Compare!LoadFailures(outputs) = {}
    BY <2>1 DEF Compare!IssuesOf
  <2>3. Compare!SameLists(x, y)
    BY <1>1, <1>2, <2>1, <2>2, ListsSame DEF OfSummaries
  <2>4. \A r \in Compare!RowsOf(outputs) : Compare!SameClip(x, y, r.clip) /\ r.clip \in AskedOf(x)
    BY <1>1, <1>2, <1>3, <2>1, <2>2, <2>3, SelectedRows
  <2>5. C \in SUBSET SameOf(x, y)
    BY <2>4 DEF SameOf
  <2>6. /\ Cardinality(C) \in Nat /\ n \in Nat
        /\ Cardinality(C) >= n \/ (comparison.limit # 0 /\ Cardinality(C) >= comparison.limit)
    BY <1>1, <2>3, EnoughRows
  <2>7. IsFiniteSet(SameOf(x, y)) /\ Cardinality(SameOf(x, y)) \in Nat
    <3>1. SameOf(x, y) \in SUBSET ListedClips
      BY DEF SameOf, AskedOf, Compare!Written
    <3> QED
      BY <3>1, ComparisonAssumption, FS_Subset, FS_CardinalityType
  <2> HIDE DEF C, n, x, y
  <2>8. Cardinality(C) <= Cardinality(SameOf(x, y))
    BY <2>5, <2>7, FS_Subset
  <2>9. comparison.limit \in Nat
    BY DEF OptionsAny
  <2>10. Compare!Min({comparison.limit, n}) = IF comparison.limit =< n THEN comparison.limit ELSE n
    <3>1. comparison.limit \in Int /\ n \in Int
      BY <2>6, <2>9
    <3> QED
      BY <3>1, GreatestLeast, Zenon
  <2>11. Cardinality(SameOf(x, y)) >= IF comparison.limit = 0 THEN n ELSE Compare!Min({comparison.limit, n})
    BY <2>6, <2>7, <2>8, <2>9, <2>10
  <2> QED
    BY <2>3, <2>11, CompareCards DEF n, Compare!NoLimit
<1>5. ASSUME Compare!SameLists(x, y), Compare!SameCounts(x, y), SameOf(x, y) = AskedOf(x)
      PROVE  same
  <2>1. OfSummaries = {}
    BY <1>1, <1>5, CountsSame DEF OfSummaries
  <2>2. \A r \in Compare!RowsOf(outputs) : Compare!SameClip(x, y, r.clip)
    <3>1. \A r \in Compare!RowsOf(outputs) : r.clip \in AskedOf(x)
      BY <1>1, <1>5, SelectedRows
    <3>2. \A c \in AskedOf(x) : Compare!SameClip(x, y, c)
      BY <1>5 DEF SameOf
    <3> QED
      BY <3>1, <3>2
  <2> QED
    BY <1>2, <1>3, <1>5, <2>1, <2>2
<1> HIDE DEF x, y
<1>6. Compare!SaysWhatIs <=>
        /\ same => /\ Compare!SameLists(x, y)
                   /\ Compare!Cardinality(SameOf(x, y)) >=
                        IF comparison.limit = Compare!NoLimit THEN Compare!Cardinality(AskedOf(x))
                        ELSE Compare!Min({comparison.limit, Compare!Cardinality(AskedOf(x))})
        /\ (Compare!SameLists(x, y) /\ Compare!SameCounts(x, y) /\ SameOf(x, y) = AskedOf(x)) => same
  BY DEF Compare!SaysWhatIs, SameOf, AskedOf, x, y
<1> QED
  BY <1>4, <1>5, <1>6

\* A report of a comparison says what is: see ComparisonSound.
THEOREM ComparisonIsSound == Compare!Spec => []ComparisonSound
<1>1. CompareInv => ComparisonSound
  <2> SUFFICES ASSUME CompareInv, compareAt = "report" PROVE Compare!SaysWhatIs /\ Compare!Mirrored
    BY DEF ComparisonSound, Compare!ComparisonSound
  <2>1. /\ outputs \in [a : Output, b : Output] /\ comparison \in OptionsAny
        /\ issues = Compare!IssuesOf(outputs) /\ same = (issues = {})
    BY DEF CompareInv
  <2>2. Compare!SaysWhatIs
    BY <2>1, SaysIt
  <2>3. Compare!IssuesOf(Swapped(outputs)) = Turned(issues)
    BY <2>1, IssuesTurned
  <2>4. Compare!Mirrored
    BY <2>3 DEF Compare!Mirrored, Swapped, Turned, Blamed
  <2> QED
    BY <2>2, <2>4
<1> QED
  BY <1>1, CompareInit, CompareStep, PTL DEF Compare!Spec

-----------------------------------------------------------------------------
(* SensorSampling: rows and windows of cameras along a timeline.              *)

\* A finite set of numbers has a least and a greatest one.
LEMMA Extremes ==
  ASSUME NEW S, S \subseteq Int, IsFiniteSet(S), S # {}
  PROVE  /\ Sampling!Min(S) \in S /\ \A x \in S : Sampling!Min(S) <= x
         /\ Sampling!Max(S) \in S /\ \A x \in S : x <= Sampling!Max(S)
<1>1. Sampling!Min(S) = Min(S) /\ Sampling!Max(S) = Max(S)
  BY DEF Sampling!Min, Sampling!Max, Min, Max
<1> QED
  BY <1>1, LeastAndGreatest

LEMMA OfTwo ==
  ASSUME NEW a \in Int, NEW b \in Int
  PROVE  Sampling!Min({a, b}) = IF a <= b THEN a ELSE b
<1>1. Sampling!Min({a, b}) = Min({a, b})
  BY DEF Sampling!Min, Min
<1> QED
  BY <1>1, LeastOfTwo

-----------------------------------------------------------------------------
(* The nearest frame.                                                         *)

\* f is one of E that is nearest to x, the earlier one of two.
IsNear(E, x, f) ==
  /\ f \in E
  /\ \A h \in E : \/ Sampling!Distance(x, f) < Sampling!Distance(x, h)
                  \/ Sampling!Distance(x, f) = Sampling!Distance(x, h) /\ f <= h

LEMMA NearOnce ==
  ASSUME NEW E, E \subseteq Int, NEW x \in Int, NEW f, NEW h, IsNear(E, x, f), IsNear(E, x, h)
  PROVE  f = h
<1>1. f \in Int /\ h \in Int
  BY DEF IsNear
<1> QED
  BY <1>1 DEF IsNear, Sampling!Distance

LEMMA NearestIs ==
  ASSUME NEW E, E \subseteq Int, NEW x \in Int, NEW f, IsNear(E, x, f)
  PROVE  Sampling!Nearest(E, x) = f
<1> DEFINE g == Sampling!Nearest(E, x)
<1>1. IsNear(E, x, g)
  BY DEF IsNear, Sampling!Nearest
<1> QED
  BY <1>1, NearOnce

\* Of two neighbours around x, or with x beyond them, one is nearest.
LEMMA OneOfTwo ==
  ASSUME NEW E, E \subseteq Int, NEW x \in Int, NEW left \in E, NEW right \in E, left < right,
         \A h \in E : h <= left \/ right <= h,
         x <= right \/ \A h \in E : h <= right,
         left <= x \/ \A h \in E : left <= h
  PROVE  IsNear(E, x, IF Sampling!Distance(x, right) < Sampling!Distance(x, left) THEN right ELSE left)
<1> DEFINE got == IF Sampling!Distance(x, right) < Sampling!Distance(x, left) THEN right ELSE left
<1>1. got \in E
  OBVIOUS
<1>2. ASSUME NEW h \in E
      PROVE  \/ Sampling!Distance(x, got) < Sampling!Distance(x, h)
             \/ Sampling!Distance(x, got) = Sampling!Distance(x, h) /\ got <= h
  <2>1. h \in Int /\ left \in Int /\ right \in Int
    OBVIOUS
  <2>2. (h <= left \/ right <= h) /\ (x <= right \/ h <= right) /\ (left <= x \/ left <= h)
    OBVIOUS
  <2>3. CASE Sampling!Distance(x, right) < Sampling!Distance(x, left)
    <3>1. got = right
      BY <2>3
    <3> HIDE DEF got
    <3> QED
      BY <2>1, <2>2, <2>3, <3>1 DEF Sampling!Distance
  <2>4. CASE ~ (Sampling!Distance(x, right) < Sampling!Distance(x, left))
    <3>1. got = left
      BY <2>4
    <3> HIDE DEF got
    <3> QED
      BY <2>1, <2>2, <2>4, <3>1 DEF Sampling!Distance
  <2> QED
    BY <2>3, <2>4
<1> HIDE DEF got
<1>3. IsNear(E, x, got)
  BY <1>1, <1>2 DEF IsNear
<1> QED
  BY <1>3 DEF got

\* The neighbours of the place where x would be inserted.
LEMMA ClosestIs ==
  ASSUME NEW E, E \subseteq Int, IsFiniteSet(E), E # {}, NEW x \in Int
  PROVE  IsNear(E, x, Sampling!Closest(E, x))
<1> DEFINE least == Sampling!Min(E)
           most  == Sampling!Max(E)
           inner == E \ {least}
           after == {f \in inner : f >= x}
           right == IF after = {} THEN most ELSE Sampling!Min(after)
           below == {f \in E : f < right}
           left  == Sampling!Max(below)
<1>1. Sampling!Cardinality(E) = Cardinality(E)
  BY DEF Sampling!Cardinality, Cardinality
<1>2. least \in E /\ \A f \in E : least <= f
  BY Extremes
<1>3. most \in E /\ \A f \in E : f <= most
  BY Extremes
<1>4. Sampling!Closest(E, x)
        = IF Cardinality(E) = 1 THEN most
          ELSE IF Sampling!Distance(x, right) < Sampling!Distance(x, left) THEN right ELSE left
  BY <1>1 DEF Sampling!Closest
<1> HIDE DEF least, most
<1>5. CASE Cardinality(E) = 1
  <2>1. PICK e : E = {e}
    BY <1>5, FS_Singleton
  <2>2. Sampling!Closest(E, x) = e
    BY <1>3, <1>4, <1>5, <2>1
  <2> QED
    BY <2>1, <2>2 DEF IsNear, Sampling!Distance
<1>6. CASE Cardinality(E) # 1
  <2>1. PICK f \in inner : TRUE
    <3>1. ASSUME inner = {} PROVE FALSE
      <4>1. E = {least}
        BY <1>2, <3>1
      <4> QED
        BY <1>6, <4>1, FS_Singleton
    <3> QED
      BY <3>1
  <2>2. least < f /\ f <= most /\ least \in Int /\ f \in Int /\ most \in Int
    BY <1>2, <1>3, <2>1
  <2>3. most \in inner
    BY <1>3, <2>2
  <2>4. after # {} => right \in after /\ \A h \in after : right <= h
    <3>1. after \subseteq Int /\ after \in SUBSET E
      OBVIOUS
    <3>2. after # {} => right = Sampling!Min(after)
      OBVIOUS
    <3> HIDE DEF after, right
    <3>3. IsFiniteSet(after)
      BY <3>1, FS_Subset
    <3> SUFFICES ASSUME after # {} PROVE right \in after /\ \A h \in after : right <= h
      OBVIOUS
    <3>4. after \subseteq Int
      BY <3>1
    <3>5. Sampling!Min(after) \in after /\ \A h \in after : Sampling!Min(after) <= h
      BY <3>3, <3>4, Extremes
    <3> QED
      BY <3>2, <3>5
  <2>5. after = {} => right = most
    OBVIOUS
  <2>6. /\ \A h \in after : h \in inner /\ h >= x
        /\ \A h \in inner : h \in after \/ ~(h >= x)
        /\ \A h \in inner : h \in E /\ h # least
        /\ \A h \in E : h = least \/ h \in inner
    OBVIOUS
  <2>7. \A h \in below : h \in E /\ h < right
    OBVIOUS
  <2>8. \A h \in E : h < right => h \in below
    OBVIOUS
  <2>9. below \subseteq Int /\ below \in SUBSET E
    OBVIOUS
  <2> HIDE DEF after, inner, right
  <2>10. right \in inner
    BY <2>3, <2>4, <2>5, <2>6
  <2>11. right \in E /\ right \in Int /\ least < right
    BY <1>2, <2>2, <2>6, <2>10
  <2>12. least \in below
    BY <1>2, <2>8, <2>11
  <2> HIDE DEF below
  <2>13. left \in below /\ \A h \in below : h <= left
    BY <2>9, <2>12, FS_Subset, Extremes
  <2> HIDE DEF left
  <2>14. left \in E /\ left < right /\ left \in Int
    BY <2>7, <2>13
  <2>15. ASSUME NEW h \in E PROVE h <= left \/ right <= h
    BY <2>8, <2>11, <2>13
  <2>16. x <= right \/ \A h \in E : h <= right
    <3>1. CASE after = {}
      BY <1>3, <2>5, <3>1
    <3>2. CASE after # {}
      BY <2>4, <2>6, <2>11, <3>2
    <3> QED
      BY <3>1, <3>2
  <2>17. left <= x \/ left = least
    <3>1. CASE left \in inner /\ after = {}
      BY <2>6, <2>14, <3>1
    <3>2. CASE left \in inner /\ after # {}
      <4>1. left \notin after
        BY <2>4, <2>11, <2>14, <3>2
      <4> QED
        BY <2>6, <2>14, <3>2, <4>1
    <3> QED
      BY <2>6, <2>14, <3>1, <3>2
  <2>18. left <= x \/ \A h \in E : left <= h
    BY <1>2, <2>17
  <2>19. IsNear(E, x, IF Sampling!Distance(x, right) < Sampling!Distance(x, left) THEN right ELSE left)
    BY <2>11, <2>14, <2>15, <2>16, <2>18, OneOfTwo
  <2> QED
    BY <1>4, <1>6, <2>19
<1> QED
  BY <1>5, <1>6

\* The nearest frame of a later timestamp is not an earlier one.
LEMMA NearInOrder ==
  ASSUME NEW E, E \subseteq Int, NEW x \in Int, NEW y \in Int, NEW f, NEW h,
         IsNear(E, x, f), IsNear(E, y, h), x <= y
  PROVE  f <= h
<1>1. f \in Int /\ h \in Int
  BY DEF IsNear
<1>2. /\ Sampling!Distance(x, f) < Sampling!Distance(x, h)
         \/ (Sampling!Distance(x, f) = Sampling!Distance(x, h) /\ f <= h)
      /\ Sampling!Distance(y, h) < Sampling!Distance(y, f)
         \/ (Sampling!Distance(y, h) = Sampling!Distance(y, f) /\ h <= f)
  BY DEF IsNear
<1> QED
  BY <1>1, <1>2 DEF Sampling!Distance

-----------------------------------------------------------------------------
(* Rows by rank.                                                              *)

\* The ranks of B follow those of D when D lies before B and B before the rest.
LEMMA RanksFollow ==
  ASSUME NEW T, T \subseteq Int, IsFiniteSet(T), NEW D, NEW B, D \subseteq T, B \subseteq T,
         \A d \in D, b \in B : d < b,
         \A d \in D, y \in T \ D : d < y,
         \A b \in B, y \in T \ (D \cup B) : b < y
  PROVE  /\ Cardinality(D) \in Nat /\ Cardinality(B) \in Nat
         /\ Cardinality(D \cup B) = Cardinality(D) + Cardinality(B)
         /\ \A x \in D : Sampling!Rank(T, x) \in 1 .. Cardinality(D)
         /\ \A x \in B : Sampling!Rank(T, x) \in Cardinality(D) + 1 .. Cardinality(D) + Cardinality(B)
<1>1. \A S : Sampling!Cardinality(S) = Cardinality(S)
  BY DEF Sampling!Cardinality, Cardinality
<1>2. IsFiniteSet(D) /\ IsFiniteSet(B)
  BY FS_Subset
<1>3. Cardinality(D) \in Nat /\ Cardinality(B) \in Nat
  BY <1>2, FS_CardinalityType
<1>4. D \cap B = {}
  <2>1. ASSUME NEW d \in D, d \in B PROVE FALSE
    <3>1. d < d /\ d \in Int
      BY <2>1
    <3> QED
      BY <3>1
  <2> QED
    BY <2>1
<1>5. Cardinality(D \cup B) = Cardinality(D) + Cardinality(B)
  <2>1. Cardinality(D \cup B) = Cardinality(D) + Cardinality(B) - Cardinality(D \cap B)
    BY <1>2, FS_Union
  <2>2. Cardinality(D \cap B) = 0
    BY <1>4, FS_EmptySet
  <2> QED
    BY <1>3, <2>1, <2>2
<1>6. ASSUME NEW x \in D PROVE Sampling!Rank(T, x) \in 1 .. Cardinality(D)
  <2> DEFINE S == {y \in T : y <= x}
  <2>1. S \subseteq D
    <3>1. ASSUME NEW y \in S, y \notin D PROVE FALSE
      BY <3>1
    <3> QED
      BY <3>1
  <2>2. x \in S
    OBVIOUS
  <2>3. Sampling!Rank(T, x) = Cardinality(S)
    BY <1>1 DEF Sampling!Rank
  <2> HIDE DEF S
  <2>4. IsFiniteSet(S) /\ Cardinality(S) <= Cardinality(D) /\ Cardinality(S) \in Nat /\ Cardinality(S) # 0
    BY <1>2, <2>1, <2>2, FS_Subset, FS_CardinalityType, FS_EmptySet
  <2> QED
    BY <1>3, <2>3, <2>4
<1>7. ASSUME NEW x \in B
      PROVE  Sampling!Rank(T, x) \in Cardinality(D) + 1 .. Cardinality(D) + Cardinality(B)
  <2> DEFINE S == {y \in T : y <= x}
             C == {y \in B : y <= x}
  <2>1. S = D \cup C
    <3>1. ASSUME NEW y \in S, y \notin D, y \notin B PROVE FALSE
      BY <3>1
    <3>2. D \subseteq S
      <4>1. ASSUME NEW d \in D PROVE d \in T /\ d <= x
        BY d < x
      <4> QED
        BY <4>1
    <3> QED
      BY <3>1, <3>2
  <2>2. x \in C /\ C \subseteq B /\ D \cap C = {}
    <3>1. x <= x
      OBVIOUS
    <3> QED
      BY <1>4, <3>1
  <2>3. Sampling!Rank(T, x) = Cardinality(S)
    BY <1>1 DEF Sampling!Rank
  <2> HIDE DEF S, C
  <2>4. IsFiniteSet(C) /\ Cardinality(C) <= Cardinality(B) /\ Cardinality(C) \in Nat /\ Cardinality(C) # 0
    BY <1>2, <2>2, FS_Subset, FS_CardinalityType, FS_EmptySet
  <2>5. Cardinality(S) = Cardinality(D) + Cardinality(C)
    <3>1. Cardinality(D \cup C) = Cardinality(D) + Cardinality(C) - Cardinality(D \cap C)
      BY <1>2, <2>4, FS_Union
    <3>2. Cardinality(D \cap C) = 0
      BY <2>2, FS_EmptySet
    <3> QED
      BY <1>3, <2>1, <2>4, <3>1, <3>2
  <2> QED
    BY <1>3, <2>3, <2>4, <2>5
<1> QED
  BY <1>3, <1>5, <1>6, <1>7

-----------------------------------------------------------------------------
(* The windows and the picks.                                                 *)

SlotStart(n) == grid.start + (n - 1) * grid.stride

SlotEnd(n) == IF SlotStart(n) + grid.duration <= grid.end THEN SlotStart(n) + grid.duration ELSE grid.end

SlotTimes(n) == {x \in grid.ts : SlotStart(n) <= x /\ x < SlotEnd(n)}

FramesOf(s, ts, to) == {f \in group[s].frames : Sampling!Min(ts) <= f /\ f < to}

\* r holds, by rank, for each of the timestamps ts the nearest frame before the end of the window.
RowsRight(r, s, ts, to) ==
  IF ts = {} \/ FramesOf(s, ts, to) = {} THEN r = <<>>
  ELSE /\ Len(r) = Cardinality(ts)
       /\ \A x \in ts : IsNear(FramesOf(s, ts, to), x, r[Sampling!Rank(ts, x)])

SampledFrame == [ts : SUBSET Int, rows : [1 .. Len(group) -> Seq(Nat)]]

SampledType ==
  /\ group \in Groups /\ grid \in Grids
  /\ status \in {"running", "done", "tolerance", "no keyframe", "overlap"}
  /\ turn \in 0 .. Len(group) + 1
  /\ rows \in [1 .. Len(group) -> Seq(Nat)]
  /\ yielded \in Seq(SampledFrame) /\ position \in Nat

\* Frames are of their windows, one after the other, and the one that is sampled is the next.
WindowedBy(tu, cu, w, ys, st) ==
  /\ tu = 0 => cu = SlotStart(Len(ys) + 1)
  /\ tu # 0 => /\ cu = SlotStart(Len(ys) + 2) /\ SlotStart(Len(ys) + 1) <= grid.end
               /\ w = [ts |-> SlotTimes(Len(ys) + 1), end |-> SlotEnd(Len(ys) + 1)]
  /\ \A n \in 1 .. Len(ys) :
       /\ SlotStart(n) <= grid.end
       /\ ys[n].ts = SlotTimes(n)
       /\ \A s \in 1 .. Len(group) : RowsRight(ys[n].rows[s], s, SlotTimes(n), SlotEnd(n))
  /\ st = "done" => tu = 0 /\ cu >= grid.end

Windowed == WindowedBy(turn, cursor, window, yielded, status)

\* The cameras before the turn have their rows, the ones after it none.
RowsBy(tu, rs, w) ==
  tu # 0 => \A s \in 1 .. Len(group) :
              /\ s < tu => RowsRight(rs[s], s, w.ts, w.end)
              /\ s > tu => rs[s] = <<>>

RowsSoFar == RowsBy(turn, rows, window)

Picks == {Sampling!Picked(x) : x \in window.ts}

LeftOf(to, take) == take \cup UNION {p.take : p \in to}

DoneOf(to, take) == {x \in window.ts : Sampling!Picked(x) \notin LeftOf(to, take)}

\* What is left of the picks lies after what was shown, each group of pictures behind its keyframe and
\* before the next one's, and the rows are those of the timestamps whose picks are not left.
Busy(to, take, many, from, shown, r) ==
  /\ turn \in 1 .. Len(group) /\ Sampling!CanPick
  /\ many = [f \in Picks |-> Cardinality({x \in window.ts : Sampling!Picked(x) = f})]
  /\ \A f \in Picks : Sampling!Governs(f) # {}
  /\ to \subseteq Sampling!DecodePlan(Picks) /\ take \subseteq Picks
  /\ \A f \in Picks \ LeftOf(to, take), g \in LeftOf(to, take) : f < g
  /\ from \in Nat /\ shown \in Int
  /\ \A f \in take : from <= f /\ \A p \in to : f < p.key
  /\ take # {} => shown < from
  /\ \A p \in to : shown < p.key
  /\ r \in Seq(Nat) /\ Len(r) = Cardinality(DoneOf(to, take))
  /\ \A x \in DoneOf(to, take) : r[Sampling!Rank(window.ts, x)] = Sampling!Picked(x)

Decoding ==
  \/ plan = {} /\ gop = {} /\ counts = <<>> /\ (turn \in 1 .. Len(group) => rows[turn] = <<>>)
  \/ Busy(plan, gop, counts, position, last, rows[turn])

Policed == status \in {"tolerance", "overlap"} => policy # Sampling!NoPolicy

SamplingInv == SampledType /\ Windowed /\ RowsSoFar /\ Decoding /\ Policed

LEMMA SampledSets ==
  ASSUME SampledType
  PROVE  /\ Len(group) \in Nat /\ DOMAIN group = 1 .. Len(group)
         /\ \A s \in 1 .. Len(group) :
              /\ group[s].frames \subseteq Nat /\ group[s].keys \subseteq Nat
              /\ IsFiniteSet(group[s].frames) /\ IsFiniteSet(group[s].keys)
         /\ grid.start \in Int /\ grid.end \in Int /\ grid.stride \in Nat \ {0} /\ grid.duration \in Nat \ {0}
         /\ grid.start <= grid.end
         /\ grid.ts \subseteq Int /\ IsFiniteSet(grid.ts) /\ \A x \in grid.ts : grid.start <= x /\ x < grid.end
<1>1. group \in Groups /\ grid \in Grids
  BY DEF SampledType
<1>2. /\ group \in Seq([frames : SUBSET Nat, keys : SUBSET Nat])
      /\ \A s \in DOMAIN group : IsFiniteSet(group[s].frames) /\ IsFiniteSet(group[s].keys)
  BY <1>1, SamplingAssumption, Zenon
<1>3. Len(group) \in Nat /\ DOMAIN group = 1 .. Len(group)
  BY <1>2
<1>4. ASSUME NEW s \in 1 .. Len(group)
      PROVE  group[s].frames \subseteq Nat /\ group[s].keys \subseteq Nat
  <2> DEFINE T == [frames : SUBSET Nat, keys : SUBSET Nat]
  <2>1. group \in Seq(T)
    BY <1>2
  <2> HIDE DEF T
  <2>2. group[s] \in T
    BY <2>1
  <2> QED
    BY <2>2 DEF T
<1>5. /\ {grid.start, grid.end} \subseteq Int /\ {grid.stride, grid.duration} \subseteq Nat \ {0}
      /\ grid.start <= grid.end /\ grid.ts \subseteq grid.start .. (grid.end - 1)
  BY <1>1, SamplingAssumption, Zenon
<1>6. IsFiniteSet(grid.ts)
  <2>1. grid.start \in Int /\ grid.end - 1 \in Int
    BY <1>5
  <2>2. IsFiniteSet(grid.start .. (grid.end - 1))
    BY <2>1, FS_Interval
  <2> QED
    BY <1>5, <2>2, FS_Subset
<1>7. \A x \in grid.ts : grid.start <= x /\ x < grid.end /\ x \in Int
  <2>1. \A x \in grid.ts : x \in grid.start .. (grid.end - 1)
    BY <1>5
  <2> QED
    BY <1>5, <2>1
<1> QED
  BY <1>2, <1>3, <1>4, <1>5, <1>6, <1>7

\* Windows start one stride after the other.
LEMMA SlotsFollow ==
  ASSUME SampledType, NEW n \in Int
  PROVE  /\ SlotStart(n) \in Int /\ SlotEnd(n) \in Int
         /\ SlotStart(n + 1) = SlotStart(n) + grid.stride
         /\ \A k \in Int : n < k => SlotStart(n) + grid.stride <= SlotStart(k)
<1>1. grid.start \in Int /\ grid.end \in Int /\ grid.stride \in Nat \ {0} /\ grid.duration \in Nat \ {0}
  BY SampledSets
<1> DEFINE d == grid.stride
<1>2. ASSUME NEW k \in Int PROVE (k - 1) * d \in Int /\ SlotStart(k) = grid.start + (k - 1) * d
  BY <1>1 DEF SlotStart
<1>3. \A k \in Int : SlotStart(k) \in Int
  BY <1>1, <1>2
<1>4. SlotEnd(n) \in Int
  BY <1>1, <1>3 DEF SlotEnd
<1>5. d \in Nat \ {0}
  BY <1>1
<1> HIDE DEF d
<1>6. ASSUME NEW k \in Int, n < k PROVE (n - 1) * d + d <= (k - 1) * d
  <2>1. k - n >= 1 /\ k - n \in Nat
    BY <1>6
  <2>2. d <= (k - n) * d
    BY <1>5, <2>1
  <2>3. (k - 1) * d = (n - 1) * d + (k - n) * d
    BY <1>5
  <2> QED
    BY <1>5, <2>2, <2>3
<1>7. (n + 1 - 1) * d = (n - 1) * d + d
  BY <1>5
<1>8. n + 1 \in Int /\ (n + 1) - 1 = n /\ n - 1 \in Int
  OBVIOUS
<1>9. SlotStart(n + 1) = SlotStart(n) + d
  <2>1. SlotStart(n + 1) = grid.start + (n + 1 - 1) * d
    BY <1>2, <1>8
  <2>2. SlotStart(n) = grid.start + (n - 1) * d /\ (n - 1) * d \in Int
    BY <1>2
  <2> QED
    BY <1>1, <1>5, <1>7, <2>1, <2>2
<1>10. ASSUME NEW k \in Int, n < k PROVE SlotStart(n) + d <= SlotStart(k)
  <2>1. SlotStart(k) = grid.start + (k - 1) * d /\ (k - 1) * d \in Int
    BY <1>2
  <2>2. SlotStart(n) = grid.start + (n - 1) * d /\ (n - 1) * d \in Int
    BY <1>2
  <2>3. (n - 1) * d + d <= (k - 1) * d
    BY <1>6, <1>10
  <2> QED
    BY <1>1, <1>5, <2>1, <2>2, <2>3
<1> QED
  BY <1>3, <1>4, <1>9, <1>10 DEF d

\* What the camera whose turn it is can pick, and picks.
LEMMA PicksAre ==
  ASSUME SampledType, Windowed, turn \in 1 .. Len(group), Sampling!CanPick
  PROVE  /\ window.ts \subseteq Int /\ IsFiniteSet(window.ts) /\ window.ts # {}
         /\ Sampling!Eligible = FramesOf(turn, window.ts, window.end) /\ Sampling!Eligible # {}
         /\ Sampling!Eligible \subseteq group[turn].frames
         /\ \A x \in window.ts : IsNear(Sampling!Eligible, x, Sampling!Picked(x))
         /\ \A x, y \in window.ts : x <= y => Sampling!Picked(x) <= Sampling!Picked(y)
         /\ Picks \subseteq group[turn].frames /\ Picks \subseteq Nat /\ IsFiniteSet(Picks) /\ Picks # {}
<1>1. /\ group[turn].frames \subseteq Nat /\ IsFiniteSet(group[turn].frames)
      /\ grid.ts \subseteq Int /\ IsFiniteSet(grid.ts)
  BY SampledSets
<1>2. window.ts = SlotTimes(Len(yielded) + 1) /\ turn # 0
  BY DEF Windowed, WindowedBy
<1>3. window.ts \subseteq grid.ts
  BY <1>2 DEF SlotTimes
<1>4. window.ts \subseteq Int /\ IsFiniteSet(window.ts)
  BY <1>1, <1>3, FS_Subset
<1>5. window.ts # {} /\ Sampling!Eligible # {}
  BY DEF Sampling!CanPick
<1>6. Sampling!Eligible = FramesOf(turn, window.ts, window.end)
  BY DEF Sampling!Eligible, Sampling!Camera, FramesOf
<1>7. Sampling!Eligible \subseteq group[turn].frames
  BY <1>6 DEF FramesOf
<1> DEFINE E == Sampling!Eligible
<1>8. E \subseteq Int /\ IsFiniteSet(E) /\ E # {}
  BY <1>1, <1>5, <1>7, FS_Subset
<1>9. ASSUME NEW x \in window.ts PROVE IsNear(E, x, Sampling!Picked(x)) /\ Sampling!Picked(x) \in E
  <2>1. Sampling!Picked(x) = Sampling!Closest(E, x)
    BY DEF Sampling!Picked
  <2> HIDE DEF E
  <2>2. IsNear(E, x, Sampling!Closest(E, x))
    BY <1>4, <1>8, ClosestIs
  <2> QED
    BY <2>1, <2>2 DEF IsNear
<1>10. ASSUME NEW x \in window.ts, NEW y \in window.ts, x <= y PROVE Sampling!Picked(x) <= Sampling!Picked(y)
  <2> HIDE DEF E
  <2> QED
    BY <1>4, <1>8, <1>9, <1>10, NearInOrder
<1>11. Picks \subseteq E /\ Picks # {}
  BY <1>5, <1>9 DEF Picks
<1>12. Picks \subseteq group[turn].frames /\ Picks \subseteq Nat /\ IsFiniteSet(Picks)
  BY <1>1, <1>7, <1>11, FS_Subset
<1> QED
  BY <1>4, <1>5, <1>6, <1>7, <1>9, <1>10, <1>11, <1>12

\* The last keyframe that is not after f.
LEMMA GovernedBy ==
  ASSUME SampledType, turn \in 1 .. Len(group), NEW f \in Nat, Sampling!Governs(f) # {}
  PROVE  LET k == Sampling!Max(Sampling!Governs(f))
         IN  k \in group[turn].keys /\ k \in Nat /\ k <= f /\ \A g \in group[turn].keys : g <= f => g <= k
<1>1. group[turn].keys \subseteq Nat /\ IsFiniteSet(group[turn].keys)
  BY SampledSets
<1>2. Sampling!Governs(f) = {g \in group[turn].keys : g <= f}
  BY DEF Sampling!Governs, Sampling!Camera
<1> DEFINE G == Sampling!Governs(f)
<1>3. G \subseteq Int /\ IsFiniteSet(G) /\ G # {}
  BY <1>1, <1>2, FS_Subset
<1>4. Sampling!Max(G) \in G /\ \A g \in G : g <= Sampling!Max(G)
  <2> HIDE DEF G
  <2> QED
    BY <1>3, Extremes
<1> QED
  BY <1>1, <1>2, <1>4

LEMMA PlanIs ==
  ASSUME SampledType, Windowed, turn \in 1 .. Len(group), Sampling!CanPick,
         \A f \in Picks : Sampling!Governs(f) # {}
  PROVE  /\ \A p \in Sampling!DecodePlan(Picks) :
              /\ p.key \in group[turn].keys /\ p.key \in Nat /\ p.take \subseteq Picks /\ p.take # {}
              /\ \A f \in p.take : p.key <= f /\ \A g \in group[turn].keys : g <= f => g <= p.key
         /\ \A p, q \in Sampling!DecodePlan(Picks) : p.key = q.key => p = q
         /\ \A f \in Picks : \E p \in Sampling!DecodePlan(Picks) : f \in p.take
<1> DEFINE Key(f) == Sampling!Max(Sampling!Governs(f))
           Plan(k) == [key |-> k, take |-> {f \in Picks : Key(f) = k}]
<1>1. Sampling!DecodePlan(Picks) = {Plan(k) : k \in {Key(f) : f \in Picks}}
  BY DEF Sampling!DecodePlan
<1>2. Picks \subseteq Nat
  BY PicksAre
<1>3. ASSUME NEW f \in Picks
      PROVE  Key(f) \in group[turn].keys /\ Key(f) \in Nat /\ Key(f) <= f /\ \A g \in group[turn].keys : g <= f => g <= Key(f)
  BY <1>2, GovernedBy
<1> HIDE DEF Key
<1>4. ASSUME NEW p \in Sampling!DecodePlan(Picks)
      PROVE  /\ p.key \in group[turn].keys /\ p.key \in Nat /\ p.take \subseteq Picks /\ p.take # {}
             /\ \A f \in p.take : p.key <= f /\ \A g \in group[turn].keys : g <= f => g <= p.key
             /\ p = Plan(p.key)
  <2>1. PICK h \in Picks : p = Plan(Key(h))
    BY <1>1
  <2>2. p.key = Key(h) /\ p.take = {f \in Picks : Key(f) = Key(h)}
    BY <2>1
  <2>3. h \in p.take
    BY <2>2
  <2> QED
    BY <1>3, <2>1, <2>2, <2>3
<1>5. ASSUME NEW p \in Sampling!DecodePlan(Picks), NEW q \in Sampling!DecodePlan(Picks), p.key = q.key PROVE p = q
  <2>1. p = Plan(p.key) /\ q = Plan(q.key)
    BY <1>4
  <2> HIDE DEF Plan
  <2> QED
    BY <1>5, <2>1
<1>6. ASSUME NEW f \in Picks PROVE \E p \in Sampling!DecodePlan(Picks) : f \in p.take
  <2>1. Plan(Key(f)) \in Sampling!DecodePlan(Picks) /\ f \in Plan(Key(f)).take
    BY <1>1
  <2> QED
    BY <2>1
<1> QED
  BY <1>4, <1>5, <1>6

-----------------------------------------------------------------------------
(* Every step keeps the invariant.                                            *)

LEMMA WindowedStays ==
  ASSUME UNCHANGED <<group, grid>>, WindowedBy(turn', cursor', window', yielded', status')
  PROVE  Windowed'
<1>1. \A n : SlotStart(n)' = SlotStart(n)
  BY DEF SlotStart
<1>2. \A n : SlotEnd(n)' = SlotEnd(n)
  BY <1>1 DEF SlotEnd
<1>3. \A n : SlotTimes(n)' = SlotTimes(n)
  BY <1>1, <1>2 DEF SlotTimes
<1>4. \A r, s, ts, to : RowsRight(r, s, ts, to)' <=> RowsRight(r, s, ts, to)
  BY DEF RowsRight, FramesOf
<1> QED
  BY <1>1, <1>2, <1>3, <1>4 DEF Windowed, WindowedBy

LEMMA RowsStay ==
  ASSUME UNCHANGED group, RowsBy(turn', rows', window')
  PROVE  RowsSoFar'
BY DEF RowsSoFar, RowsBy, RowsRight, FramesOf

LEMMA PickedStays ==
  ASSUME UNCHANGED <<group, turn, window>>
  PROVE  /\ Sampling!CanPick' <=> Sampling!CanPick
         /\ \A x : Sampling!Picked(x)' = Sampling!Picked(x)
         /\ \A f : Sampling!Governs(f)' = Sampling!Governs(f)
         /\ Picks' = Picks
         /\ Sampling!DecodePlan(Picks)' = Sampling!DecodePlan(Picks)
<1>1. Sampling!Camera' = Sampling!Camera /\ Sampling!Eligible' = Sampling!Eligible
  BY DEF Sampling!Camera, Sampling!Eligible
<1>2. Sampling!CanPick' <=> Sampling!CanPick
  BY <1>1 DEF Sampling!CanPick
<1>3. \A x : Sampling!Picked(x)' = Sampling!Picked(x)
  BY <1>1 DEF Sampling!Picked
<1>4. \A f : Sampling!Governs(f)' = Sampling!Governs(f)
  BY <1>1 DEF Sampling!Governs
<1>5. Picks' = Picks
  BY <1>3 DEF Picks
<1>6. Sampling!DecodePlan(Picks)' = Sampling!DecodePlan(Picks)
  BY <1>4, <1>5 DEF Sampling!DecodePlan
<1> QED
  BY <1>2, <1>3, <1>4, <1>5, <1>6

LEMMA BusyStays ==
  ASSUME UNCHANGED <<group, turn, window>>, Busy(plan', gop', counts', position', last', rows'[turn])
  PROVE  Decoding'
<1>1. /\ Sampling!CanPick' <=> Sampling!CanPick
      /\ \A x : Sampling!Picked(x)' = Sampling!Picked(x)
      /\ \A f : Sampling!Governs(f)' = Sampling!Governs(f)
      /\ Picks' = Picks
      /\ Sampling!DecodePlan(Picks)' = Sampling!DecodePlan(Picks)
  BY PickedStays
<1>2. DoneOf(plan, gop)' = DoneOf(plan', gop') /\ LeftOf(plan, gop)' = LeftOf(plan', gop')
  BY <1>1 DEF DoneOf, LeftOf
<1>3. turn' = turn /\ window' = window /\ Len(group)' = Len(group)
  OBVIOUS
<1> QED
  BY <1>1, <1>2, <1>3 DEF Decoding, Busy

LEMMA NotIdle ==
  ASSUME SampledType, Windowed, Busy(plan, gop, counts, position, last, rows[turn])
  PROVE  counts # <<>>
<1>1. Picks # {}
  BY PicksAre DEF Busy
<1>2. DOMAIN counts = Picks
  BY DEF Busy
<1> QED
  BY <1>1, <1>2

LEMMA SamplingInit == Sampling!Init => SamplingInv
<1> SUFFICES ASSUME Sampling!Init PROVE SamplingInv
  OBVIOUS
<1>1. /\ group \in Groups /\ grid \in Grids /\ status = "running" /\ cursor = grid.start
      /\ turn = 0 /\ plan = {} /\ counts = <<>> /\ gop = {} /\ yielded = <<>> /\ position = 0
      /\ rows = [s \in 1 .. Len(group) |-> <<>>]
  BY DEF Sampling!Init, Sampling!NoRows
<1>2. SampledType
  <2>1. group \in Seq([frames : SUBSET Nat, keys : SUBSET Nat])
    BY <1>1, SamplingAssumption, Zenon
  <2>2. Len(group) \in Nat
    BY <2>1
  <2> QED
    BY <1>1, <2>2 DEF SampledType
<1>3. Windowed
  <2>1. grid.start \in Int /\ grid.stride \in Nat
    BY <1>2, SampledSets
  <2>2. SlotStart(0 + 1) = grid.start
    BY <2>1 DEF SlotStart
  <2>3. Len(yielded) = 0
    BY <1>1
  <2> QED
    BY <1>1, <2>2, <2>3 DEF Windowed, WindowedBy
<1>4. RowsSoFar /\ Decoding /\ Policed
  BY <1>1 DEF RowsSoFar, RowsBy, Decoding, Policed
<1> QED
  BY <1>2, <1>3, <1>4 DEF SamplingInv

LEMMA StepNextWindow == SamplingInv /\ Sampling!NextWindow => SamplingInv'
<1> SUFFICES ASSUME SamplingInv, Sampling!NextWindow PROVE SamplingInv'
  OBVIOUS
<1> USE DEF SamplingInv
<1>1. /\ UNCHANGED <<group, grid, policy, status, plan, counts, gop, position, last, yielded>>
      /\ status = "running" /\ turn = 0 /\ turn' = 1
      /\ cursor < grid.end \/ (grid.start = grid.end /\ yielded = <<>>)
      /\ cursor' = cursor + grid.stride
      /\ window' = Sampling!WindowAt(cursor) /\ rows' = [s \in 1 .. Len(group) |-> <<>>]
  BY DEF Sampling!NextWindow, Sampling!NoRows
<1> DEFINE n == Len(yielded)
<1>2. n \in Nat
  <2>1. yielded \in Seq(SampledFrame)
    BY DEF SampledType
  <2> QED
    BY <2>1
<1>3. cursor = SlotStart(n + 1)
  BY <1>1 DEF Windowed, WindowedBy
<1>4. /\ SlotStart(n + 1) \in Int /\ SlotStart(n + 2) = SlotStart(n + 1) + grid.stride
      /\ grid.duration \in Nat /\ grid.end \in Int /\ grid.start \in Int /\ grid.stride \in Nat
  <2>1. n + 1 \in Int /\ (n + 1) + 1 = n + 2
    BY <1>2
  <2> QED
    BY <2>1, SlotsFollow, SampledSets
<1>5. SlotStart(n + 1) <= grid.end
  <2>1. CASE cursor < grid.end
    BY <1>3, <1>4, <2>1
  <2>2. CASE grid.start = grid.end /\ yielded = <<>>
    <3>1. SlotStart(0 + 1) = grid.start
      BY <1>4 DEF SlotStart
    <3> QED
      BY <1>4, <2>2, <3>1
  <2> QED
    BY <1>1, <2>1, <2>2
<1>6. window' = [ts |-> SlotTimes(n + 1), end |-> SlotEnd(n + 1)]
  <2>1. Sampling!Min({cursor + grid.duration, grid.end}) = SlotEnd(n + 1)
    <3>1. cursor + grid.duration \in Int
      BY <1>3, <1>4
    <3>2. Sampling!Min({cursor + grid.duration, grid.end})
            = IF cursor + grid.duration <= grid.end THEN cursor + grid.duration ELSE grid.end
      BY <1>4, <3>1, OfTwo
    <3> QED
      BY <1>3, <3>2 DEF SlotEnd
  <2> QED
    BY <1>1, <1>3, <2>1 DEF Sampling!WindowAt, SlotTimes
<1>7. SampledType'
  BY <1>1, SampledSets DEF SampledType, SampledFrame
<1>8. Windowed'
  <2>1. WindowedBy(turn', cursor', window', yielded', status')
    BY <1>1, <1>3, <1>4, <1>5, <1>6 DEF Windowed, WindowedBy
  <2> QED
    BY <1>1, <2>1, WindowedStays
<1>9. RowsSoFar'
  <2>1. RowsBy(turn', rows', window')
    BY <1>1, SampledSets DEF RowsBy
  <2> QED
    BY <1>1, <2>1, RowsStay
<1>10. Decoding'
  <2>1. plan = {} /\ gop = {} /\ counts = <<>>
    BY <1>1 DEF Decoding, Busy
  <2>2. turn' \in 1 .. Len(group)' => rows'[turn'] = <<>>
    BY <1>1
  <2> QED
    BY <1>1, <2>1, <2>2 DEF Decoding
<1>11. Policed'
  BY <1>1 DEF Policed
<1> QED
  BY <1>7, <1>8, <1>9, <1>10, <1>11

LEMMA StepExhausted == SamplingInv /\ Sampling!Exhausted => SamplingInv'
<1> SUFFICES ASSUME SamplingInv, Sampling!Exhausted PROVE SamplingInv'
  OBVIOUS
<1> USE DEF SamplingInv
<1>1. /\ UNCHANGED <<group, grid, policy, cursor, window, turn, plan, counts, gop, position, last, rows, yielded>>
      /\ turn = 0 /\ cursor >= grid.end /\ status' = "done"
  BY DEF Sampling!Exhausted
<1>2. SampledType'
  BY <1>1 DEF SampledType, SampledFrame
<1>3. Windowed'
  <2>1. WindowedBy(turn', cursor', window', yielded', status')
    BY <1>1 DEF Windowed, WindowedBy
  <2> QED
    BY <1>1, <2>1, WindowedStays
<1>4. RowsSoFar'
  <2>1. RowsBy(turn', rows', window')
    BY <1>1 DEF RowsSoFar
  <2> QED
    BY <1>1, <2>1, RowsStay
<1>5. Decoding'
  BY <1>1 DEF Decoding, Busy
<1>6. Policed'
  BY <1>1 DEF Policed
<1> QED
  BY <1>2, <1>3, <1>4, <1>5, <1>6

LEMMA StepNothing == SamplingInv /\ Sampling!NothingToSample => SamplingInv'
<1> SUFFICES ASSUME SamplingInv, Sampling!NothingToSample PROVE SamplingInv'
  OBVIOUS
<1> USE DEF SamplingInv
<1>1. /\ UNCHANGED <<group, grid, policy, status, cursor, window, plan, counts, gop, position, last, rows, yielded>>
      /\ status = "running" /\ turn \in 1 .. Len(group) /\ turn' = turn + 1 /\ ~ Sampling!CanPick
  BY DEF Sampling!NothingToSample
<1>2. Len(group) \in Nat
  BY SampledSets
<1>3. plan = {} /\ gop = {} /\ counts = <<>> /\ rows[turn] = <<>>
  BY <1>1 DEF Decoding, Busy
<1>4. RowsRight(rows[turn], turn, window.ts, window.end)
  <2>1. window.ts = {} \/ FramesOf(turn, window.ts, window.end) = {}
    BY <1>1 DEF Sampling!CanPick, Sampling!Eligible, Sampling!Camera, FramesOf
  <2> QED
    BY <1>3, <2>1 DEF RowsRight
<1>5. SampledType'
  BY <1>1, <1>2 DEF SampledType, SampledFrame
<1>6. Windowed'
  <2>1. WindowedBy(turn', cursor', window', yielded', status')
    BY <1>1, <1>2 DEF Windowed, WindowedBy
  <2> QED
    BY <1>1, <2>1, WindowedStays
<1>7. \A s \in 1 .. Len(group) : (s < turn => RowsRight(rows[s], s, window.ts, window.end)) /\ (s > turn => rows[s] = <<>>)
  BY <1>1 DEF RowsSoFar, RowsBy
<1>8. RowsSoFar'
  <2>1. RowsBy(turn', rows', window')
    BY <1>1, <1>2, <1>4, <1>7 DEF RowsBy
  <2> QED
    BY <1>1, <2>1, RowsStay
<1>9. Decoding'
  BY <1>1, <1>2, <1>3, <1>7 DEF Decoding
<1>10. Policed'
  BY <1>1 DEF Policed
<1> QED
  BY <1>5, <1>6, <1>8, <1>9, <1>10

LEMMA StepPick == SamplingInv /\ Sampling!Pick => SamplingInv'
<1> SUFFICES ASSUME SamplingInv, Sampling!Pick PROVE SamplingInv'
  OBVIOUS
<1> USE DEF SamplingInv
<1>1. /\ UNCHANGED <<group, grid, policy, cursor, window, turn, gop, position, rows, yielded>>
      /\ status = "running" /\ turn \in 1 .. Len(group) /\ plan = {} /\ gop = {} /\ counts = <<>>
      /\ Sampling!CanPick
  BY DEF Sampling!Pick
<1>2. rows[turn] = <<>>
  BY <1>1, NotIdle DEF Decoding
<1>3. SampledType' /\ Policed' /\ Decoding' /\ status' # "done"
  <2>1. CASE policy # Sampling!NoPolicy /\ status' = "tolerance" /\ UNCHANGED <<plan, counts, last>>
    BY <1>1, <1>2, <2>1 DEF SampledType, SampledFrame, Policed, Decoding
  <2>2. CASE status' = "no keyframe" /\ UNCHANGED <<plan, counts, last>>
    BY <1>1, <1>2, <2>2 DEF SampledType, SampledFrame, Policed, Decoding
  <2>3. CASE /\ ~ \E f \in Picks : Sampling!Governs(f) = {}
             /\ plan' = Sampling!DecodePlan(Picks)
             /\ counts' = [f \in Picks |-> Sampling!Cardinality({x \in window.ts : Sampling!Picked(x) = f})]
             /\ last' = Sampling!NoneYet /\ UNCHANGED status
    <3>1. SampledType' /\ Policed'
      BY <1>1, <2>3 DEF SampledType, SampledFrame, Policed
    <3>2. \A f \in Picks : Sampling!Governs(f) # {}
      BY <2>3
    <3>3. counts' = [f \in Picks |-> Cardinality({x \in window.ts : Sampling!Picked(x) = f})]
      BY <2>3 DEF Sampling!Cardinality, Cardinality
    <3>4. gop' = {} /\ last' = -1 /\ position' = position
      BY <1>1, <2>3 DEF Sampling!NoneYet
    <3>5. \A f \in Picks : f \in LeftOf(plan', gop')
      BY <1>1, <2>3, <3>2, PlanIs DEF LeftOf
    <3>6. DoneOf(plan', gop') = {} /\ Picks \ LeftOf(plan', gop') = {}
      BY <3>5 DEF DoneOf, Picks
    <3>7. \A p \in plan' : last' < p.key
      BY <1>1, <2>3, <3>2, <3>4, PlanIs
    <3>8. rows'[turn] = <<>> /\ Len(rows'[turn]) = Cardinality(DoneOf(plan', gop')) /\ rows'[turn] \in Seq(Nat)
      <4>1. Cardinality(DoneOf(plan', gop')) = 0
        BY <3>6, FS_EmptySet
      <4>2. rows'[turn] = <<>>
        BY <1>1, <1>2
      <4> QED
        BY <4>1, <4>2
    <3>9. position' \in Nat
      BY <1>1 DEF SampledType
    <3>10. Busy(plan', gop', counts', position', last', rows'[turn])
      <4>1. plan' \subseteq Sampling!DecodePlan(Picks) /\ gop' \subseteq Picks
        BY <2>3, <3>4
      <4>2. \A f \in gop' : position' <= f /\ \A p \in plan' : f < p.key
        BY <3>4
      <4>3. \A x \in DoneOf(plan', gop') : rows'[turn][Sampling!Rank(window.ts, x)] = Sampling!Picked(x)
        BY <3>6
      <4>4. \A f \in Picks \ LeftOf(plan', gop'), k \in LeftOf(plan', gop') : f < k
        BY <3>6
      <4>5. last' \in Int /\ (gop' # {} => last' < position')
        BY <3>4
      <4> QED
        BY <1>1, <3>2, <3>3, <3>7, <3>8, <3>9, <4>1, <4>2, <4>3, <4>4, <4>5, Zenon DEF Busy
    <3> QED
      BY <1>1, <2>3, <3>1, <3>10, BusyStays
  <2> QED
    BY <1>1, <2>1, <2>2, <2>3 DEF Sampling!Pick, Picks
<1>4. Windowed'
  <2>1. WindowedBy(turn', cursor', window', yielded', status')
    BY <1>1, <1>3 DEF Windowed, WindowedBy
  <2> QED
    BY <1>1, <2>1, WindowedStays
<1>5. RowsSoFar'
  <2>1. RowsBy(turn', rows', window')
    BY <1>1 DEF RowsSoFar
  <2> QED
    BY <1>1, <2>1, RowsStay
<1> QED
  BY <1>3, <1>4, <1>5

LEMMA StepSeek == SamplingInv /\ Sampling!Seek => SamplingInv'
<1> SUFFICES ASSUME SamplingInv, Sampling!Seek PROVE SamplingInv'
  OBVIOUS
<1> USE DEF SamplingInv
<1> DEFINE g == CHOOSE p \in plan : \A q \in plan : p.key <= q.key
<1>1. /\ UNCHANGED <<group, grid, policy, status, cursor, window, turn, counts, last, rows, yielded>>
      /\ status = "running" /\ plan # {} /\ gop = {}
      /\ plan' = plan \ {g} /\ gop' = g.take /\ position' = g.key
  BY DEF Sampling!Seek
<1>2. Busy(plan, gop, counts, position, last, rows[turn])
  BY <1>1 DEF Decoding
<1>3. turn \in 1 .. Len(group) /\ Sampling!CanPick /\ plan \subseteq Sampling!DecodePlan(Picks)
      /\ \A f \in Picks : Sampling!Governs(f) # {}
  BY <1>2 DEF Busy
<1>4. /\ \A p \in plan :
           /\ p.key \in group[turn].keys /\ p.key \in Nat /\ p.take \subseteq Picks /\ p.take # {}
           /\ \A f \in p.take : p.key <= f /\ \A k \in group[turn].keys : k <= f => k <= p.key
      /\ \A p, q \in plan : p.key = q.key => p = q
  BY <1>3, PlanIs
<1>5. g \in plan /\ \A q \in plan : g.key <= q.key
  <2> DEFINE K == {p.key : p \in plan}
  <2>1. K \in SUBSET Nat /\ K # {}
    BY <1>1, <1>4
  <2>2. PICK k \in K : \A h \in K : k <= h
    <3> HIDE DEF K
    <3> QED
      BY <2>1, LeastOf
  <2>3. PICK p \in plan : p.key = k
    BY <2>2
  <2>4. \A q \in plan : p.key <= q.key
    BY <2>2, <2>3
  <2> QED
    BY <2>4
<1> HIDE DEF g
<1>6. LeftOf(plan', gop') = LeftOf(plan, gop) /\ DoneOf(plan', gop') = DoneOf(plan, gop)
  <2>1. LeftOf(plan', gop') = LeftOf(plan, gop)
    BY <1>1, <1>5 DEF LeftOf
  <2> QED
    BY <2>1 DEF DoneOf
<1>7. \A p \in plan' : p \in plan /\ p # g
  BY <1>1
<1>8. ASSUME NEW f \in gop' PROVE position' <= f /\ \A p \in plan' : f < p.key
  <2>1. g.key <= f /\ \A k \in group[turn].keys : k <= f => k <= g.key
    BY <1>1, <1>4, <1>5
  <2>2. f \in Nat
    BY <1>1, <1>3, <1>4, <1>5, PicksAre
  <2>3. ASSUME NEW p \in plan' PROVE f < p.key
    <3>1. p \in plan /\ p # g /\ p.key \in Nat /\ g.key \in Nat /\ p.key \in group[turn].keys
      BY <1>4, <1>5, <1>7
    <3>2. p.key # g.key /\ g.key <= p.key
      BY <1>4, <1>5, <3>1
    <3> QED
      BY <2>1, <2>2, <3>1, <3>2
  <2> QED
    BY <1>1, <2>1, <2>3
<1>9. last < g.key /\ \A p \in plan' : last < p.key
  BY <1>2, <1>5, <1>7 DEF Busy
<1>10. Busy(plan', gop', counts', position', last', rows'[turn])
  <2>1. plan' \subseteq Sampling!DecodePlan(Picks) /\ gop' \subseteq Picks /\ position' \in Nat
    BY <1>1, <1>3, <1>4, <1>5
  <2> QED
    BY <1>1, <1>2, <1>6, <1>8, <1>9, <2>1 DEF Busy
<1>11. Decoding'
  BY <1>1, <1>10, BusyStays
<1>12. Windowed'
  <2>1. WindowedBy(turn', cursor', window', yielded', status')
    BY <1>1 DEF Windowed
  <2> QED
    BY <1>1, <2>1, WindowedStays
<1>13. RowsSoFar'
  <2>1. RowsBy(turn', rows', window')
    BY <1>1 DEF RowsSoFar
  <2> QED
    BY <1>1, <2>1, RowsStay
<1>14. SampledType' /\ Policed'
  BY <1>1, <1>4, <1>5 DEF SampledType, SampledFrame, Policed
<1> QED
  BY <1>11, <1>12, <1>13, <1>14

LEMMA StepDecode == SamplingInv /\ Sampling!Decode => SamplingInv'
<1> SUFFICES ASSUME SamplingInv, Sampling!Decode PROVE SamplingInv'
  OBVIOUS
<1> USE DEF SamplingInv
<1> DEFINE shown == {h \in group[turn].frames : h >= position}
           f == Sampling!Min(shown)
           m == Sampling!Min(gop)
           L == LeftOf(plan, gop)
           D == DoneOf(plan, gop)
           B == {x \in window.ts : Sampling!Picked(x) = f}
           r == rows[turn]
<1>1. UNCHANGED <<group, grid, policy, cursor, window, turn, plan, counts, yielded>> /\ status = "running" /\ gop # {}
  BY DEF Sampling!Decode
<1>2. Busy(plan, gop, counts, position, last, rows[turn])
  BY <1>1 DEF Decoding
<1>3. turn \in 1 .. Len(group) /\ Sampling!CanPick /\ plan \subseteq Sampling!DecodePlan(Picks) /\ gop \subseteq Picks
      /\ \A h \in Picks : Sampling!Governs(h) # {}
  BY <1>2 DEF Busy
<1>4. /\ window.ts \subseteq Int /\ IsFiniteSet(window.ts)
      /\ \A x, y \in window.ts : x <= y => Sampling!Picked(x) <= Sampling!Picked(y)
      /\ Picks \subseteq group[turn].frames /\ Picks \subseteq Nat /\ IsFiniteSet(Picks)
  BY <1>3, PicksAre
<1>5. group[turn].frames \subseteq Nat /\ IsFiniteSet(group[turn].frames)
  BY <1>3, SampledSets
<1>6. \A p \in plan : p.key \in Nat /\ p.take \subseteq Picks /\ \A h \in p.take : p.key <= h
  BY <1>3, PlanIs
<1>7. position \in Nat /\ last \in Int /\ last < position /\ \A h \in gop : position <= h /\ \A p \in plan : h < p.key
  BY <1>1, <1>2 DEF Busy
<1>8. m \in gop /\ m \in Nat /\ \A h \in gop : m <= h /\ h \in Nat
  <2>1. gop \subseteq Int /\ IsFiniteSet(gop)
    <3>1. gop \in SUBSET Picks /\ Picks \subseteq Nat /\ IsFiniteSet(Picks)
      BY <1>3, <1>4
    <3>2. IsFiniteSet(gop)
      BY <3>1, FS_Subset
    <3> QED
      BY <3>1, <3>2
  <2>2. m \in gop /\ \A h \in gop : m <= h
    BY <1>1, <2>1, Extremes
  <2> QED
    BY <1>3, <1>4, <2>2
<1> HIDE DEF m
<1>9. m \in shown
  BY <1>3, <1>4, <1>7, <1>8
<1>10. f \in shown /\ f \in Nat /\ position <= f /\ f <= m
  <2>1. shown \subseteq Int /\ shown \in SUBSET group[turn].frames
    BY <1>5
  <2>2. IsFiniteSet(shown)
    BY <1>5, <2>1, FS_Subset
  <2> HIDE DEF shown
  <2>3. f \in shown /\ \A h \in shown : f <= h
    BY <1>9, <2>1, <2>2, Extremes
  <2> HIDE DEF f
  <2>4. f \in Nat /\ f <= m
    BY <1>5, <1>9, <2>1, <2>3
  <2>5. position <= f
    BY <1>7, <2>3, <2>4 DEF shown
  <2> QED
    BY <2>3, <2>4, <2>5
<1>11. /\ UNCHANGED status /\ last' = f /\ position' = f + 1
       /\ IF f = m THEN /\ gop' = gop \ {f}
                        /\ rows' = [rows EXCEPT ![turn] = @ \o [k \in 1 .. counts[f] |-> f]]
                   ELSE UNCHANGED <<gop, rows>>
  <2>1. shown # {} /\ ~(f <= last)
    BY <1>7, <1>10
  <2> QED
    BY <2>1 DEF Sampling!Decode, Sampling!Camera, m
<1> HIDE DEF f, shown
<1>12. \A p \in plan : f < p.key
  BY <1>6, <1>7, <1>8, <1>10
<1>13. /\ \A a \in Picks \ L, h \in L : a < h
       /\ Len(r) = Cardinality(D) /\ r \in Seq(Nat)
       /\ \A x \in D : r[Sampling!Rank(window.ts, x)] = Sampling!Picked(x)
       /\ counts = [h \in Picks |-> Cardinality({x \in window.ts : Sampling!Picked(x) = h})]
  BY <1>2 DEF Busy
<1>14. Decoding'
  <2>1. CASE f # m
    <3>1. UNCHANGED <<gop, rows>>
      BY <1>11, <2>1
    <3>2. \A h \in gop : f + 1 <= h
      BY <1>8, <1>10, <2>1
    <3>3. Busy(plan', gop', counts', position', last', rows'[turn])
      <4>1. position' \in Nat /\ last' \in Int /\ last' < position' /\ \A p \in plan : last' < p.key
        BY <1>10, <1>11, <1>12
      <4>2. \A h \in gop : position' <= h /\ \A p \in plan : h < p.key
        BY <1>7, <1>11, <3>2
      <4> QED
        BY <1>1, <1>2, <3>1, <4>1, <4>2 DEF Busy
    <3> QED
      BY <1>1, <3>3, BusyStays
  <2>2. CASE f = m
    <3>1. gop' = gop \ {f} /\ rows' = [rows EXCEPT ![turn] = @ \o [k \in 1 .. counts[f] |-> f]]
      BY <1>11, <2>2
    <3>2. f \in gop /\ f \in Picks /\ f \in L /\ f \in Nat
      BY <1>3, <1>8, <1>10, <2>2 DEF LeftOf
    <3>3. \A p \in plan : \A h \in p.take : f < h /\ h \in Nat
      <4>1. ASSUME NEW p \in plan, NEW h \in p.take PROVE f < h /\ h \in Nat
        <5>1. p.key \in Nat /\ p.key <= h /\ f < p.key /\ h \in Nat
          BY <1>4, <1>6, <1>12
        <5> QED
          BY <1>10, <5>1
      <4> QED
        BY <4>1
    <3>4. LeftOf(plan', gop') = L \ {f}
      <4>1. \A h \in UNION {p.take : p \in plan} : h # f
        BY <3>2, <3>3
      <4> QED
        BY <1>1, <3>1, <4>1 DEF LeftOf
    <3>5. \A h \in L \ {f} : f < h
      BY <1>8, <2>2, <3>2, <3>3 DEF LeftOf
    <3>6. DoneOf(plan', gop') = D \cup B
      BY <3>2, <3>4 DEF DoneOf
    <3>7. \A x \in window.ts : Sampling!Picked(x) \in Picks
      BY DEF Picks
    <3>8. \A x \in D : x \in window.ts /\ Sampling!Picked(x) \in Picks \ L
      BY <3>7 DEF DoneOf
    <3>9. \A x \in window.ts \ D : Sampling!Picked(x) \in L
      BY DEF DoneOf
    <3>10. \A x \in B : x \in window.ts /\ Sampling!Picked(x) = f
      OBVIOUS
    <3>11. \A x \in window.ts \ (D \cup B) : Sampling!Picked(x) \in L \ {f}
      BY <3>9
    <3>12. D \subseteq window.ts /\ B \subseteq window.ts
      BY <3>8, <3>10
    <3> HIDE DEF D, B, L
    <3>13. ASSUME NEW x \in window.ts, NEW y \in window.ts, Sampling!Picked(x) < Sampling!Picked(y) PROVE x < y
      <4>1. x \in Int /\ y \in Int /\ Sampling!Picked(x) \in Nat /\ Sampling!Picked(y) \in Nat
        BY <1>4, <3>7
      <4>2. y <= x => Sampling!Picked(y) <= Sampling!Picked(x)
        BY <1>4
      <4> QED
        BY <3>13, <4>1, <4>2
    <3>14. \A d \in D, b \in B : d < b
      BY <1>13, <3>2, <3>8, <3>10, <3>13
    <3>15. \A d \in D, y \in window.ts \ D : d < y
      BY <1>13, <3>8, <3>9, <3>13
    <3>16. \A b \in B, y \in window.ts \ (D \cup B) : b < y
      BY <3>5, <3>10, <3>11, <3>13
    <3>17. /\ Cardinality(D) \in Nat /\ Cardinality(B) \in Nat
           /\ Cardinality(D \cup B) = Cardinality(D) + Cardinality(B)
           /\ \A x \in D : Sampling!Rank(window.ts, x) \in 1 .. Cardinality(D)
           /\ \A x \in B : Sampling!Rank(window.ts, x) \in Cardinality(D) + 1 .. Cardinality(D) + Cardinality(B)
      BY <1>4, <3>12, <3>14, <3>15, <3>16, RanksFollow
    <3>18. counts[f] = Cardinality(B)
      BY <1>13, <3>2 DEF B
    <3> DEFINE more == [k \in 1 .. Cardinality(B) |-> f]
               q == r \o more
    <3>19. rows'[turn] = q /\ rows' \in [1 .. Len(group) -> Seq(Nat)]
      <4>1. more \in Seq(Nat)
        BY <3>2, <3>17
      <4>2. q \in Seq(Nat)
        BY <1>13, <4>1
      <4>3. rows \in [1 .. Len(group) -> Seq(Nat)]
        BY DEF SampledType
      <4>4. rows' = [rows EXCEPT ![turn] = q]
        BY <3>1, <3>18
      <4> HIDE DEF q
      <4> QED
        BY <1>3, <4>2, <4>3, <4>4
    <3>20. more \in Seq(Nat) /\ Len(more) = Cardinality(B) /\ \A k \in 1 .. Cardinality(B) : more[k] = f
      BY <3>2, <3>17
    <3> HIDE DEF more
    <3>21. /\ q \in Seq(Nat) /\ Len(q) = Cardinality(D) + Cardinality(B)
           /\ \A k \in 1 .. Cardinality(D) : q[k] = r[k]
           /\ \A k \in Cardinality(D) + 1 .. Cardinality(D) + Cardinality(B) : q[k] = f
      <4>1. Len(r) = Cardinality(D) /\ r \in Seq(Nat) /\ Cardinality(D) \in Nat /\ Cardinality(B) \in Nat
        BY <1>13, <3>17
      <4>2. q \in Seq(Nat) /\ Len(q) = Cardinality(D) + Cardinality(B)
        BY <3>20, <4>1
      <4>3. ASSUME NEW k \in 1 .. Cardinality(D) PROVE q[k] = r[k]
        BY <3>20, <4>1
      <4>4. ASSUME NEW k \in Cardinality(D) + 1 .. Cardinality(D) + Cardinality(B) PROVE q[k] = f
        <5>1. q[k] = more[k - Cardinality(D)]
          BY <3>20, <4>1
        <5>2. k - Cardinality(D) \in 1 .. Cardinality(B)
          BY <4>1
        <5> QED
          BY <3>20, <5>1, <5>2
      <4> QED
        BY <4>2, <4>3, <4>4
    <3> HIDE DEF q
    <3>22. \A x \in D \cup B : q[Sampling!Rank(window.ts, x)] = Sampling!Picked(x)
      BY <1>13, <3>10, <3>17, <3>21
    <3>23. Busy(plan', gop', counts', position', last', rows'[turn])
      <4>1. position' \in Nat /\ last' \in Int /\ last' < position' /\ \A p \in plan' : last' < p.key
        BY <1>1, <1>10, <1>11, <1>12
      <4>2. \A h \in gop' : position' <= h /\ \A p \in plan' : h < p.key
        <5>1. \A h \in gop' : h \in gop /\ h # f /\ h \in Nat /\ m <= h
          BY <1>8, <3>1
        <5> QED
          BY <1>1, <1>7, <1>10, <1>11, <2>2, <5>1
      <4>3. \A a \in Picks \ LeftOf(plan', gop'), h \in LeftOf(plan', gop') : a < h
        BY <1>13, <3>4, <3>5 DEF L
      <4>4. rows'[turn] \in Seq(Nat) /\ Len(rows'[turn]) = Cardinality(DoneOf(plan', gop'))
        BY <3>6, <3>17, <3>19, <3>21
      <4>5. \A x \in DoneOf(plan', gop') : rows'[turn][Sampling!Rank(window.ts, x)] = Sampling!Picked(x)
        BY <3>6, <3>19, <3>22
      <4>6. gop' \subseteq Picks /\ plan' \subseteq Sampling!DecodePlan(Picks)
        BY <1>1, <1>3, <3>1
      <4> QED
        BY <1>1, <1>3, <1>13, <4>1, <4>2, <4>3, <4>4, <4>5, <4>6, Zenon DEF Busy
    <3> QED
      BY <1>1, <3>23, BusyStays
  <2> QED
    BY <2>1, <2>2
<1>15. rows' \in [1 .. Len(group) -> Seq(Nat)] /\ \A s \in 1 .. Len(group) : s # turn => rows'[s] = rows[s]
  <2>1. rows \in [1 .. Len(group) -> Seq(Nat)]
    BY DEF SampledType
  <2>2. CASE f # m
    BY <1>11, <2>1, <2>2
  <2>3. CASE f = m
    <3>1. counts[f] \in Nat
      <4>1. f \in Picks
        BY <1>3, <1>8, <2>3
      <4>2. IsFiniteSet({x \in window.ts : Sampling!Picked(x) = f})
        BY <1>4, FS_Subset
      <4> QED
        BY <1>13, <4>1, <4>2, FS_CardinalityType
    <3>2. [k \in 1 .. counts[f] |-> f] \in Seq(Nat)
      BY <1>10, <3>1
    <3>3. r \o [k \in 1 .. counts[f] |-> f] \in Seq(Nat)
      BY <1>13, <3>2
    <3>4. rows' = [rows EXCEPT ![turn] = r \o [k \in 1 .. counts[f] |-> f]]
      BY <1>11, <2>3
    <3> QED
      BY <1>3, <2>1, <3>3, <3>4
  <2> QED
    BY <2>2, <2>3
<1>16. SampledType'
  <2>1. position' \in Nat
    BY <1>10, <1>11
  <2> QED
    BY <1>1, <1>11, <1>15, <2>1 DEF SampledType, SampledFrame
<1>17. Windowed'
  <2>1. WindowedBy(turn', cursor', window', yielded', status')
    BY <1>1, <1>11 DEF Windowed
  <2> QED
    BY <1>1, <2>1, WindowedStays
<1>18. RowsSoFar'
  <2>1. \A s \in 1 .. Len(group) : s < turn \/ s > turn => s # turn
    BY <1>3
  <2>2. RowsBy(turn', rows', window')
    BY <1>1, <1>15, <2>1 DEF RowsSoFar, RowsBy
  <2> QED
    BY <1>1, <2>2, RowsStay
<1>19. Policed'
  BY <1>1, <1>11 DEF Policed
<1> QED
  BY <1>14, <1>16, <1>17, <1>18, <1>19

LEMMA StepBatch == SamplingInv /\ Sampling!Batch => SamplingInv'
<1> SUFFICES ASSUME SamplingInv, Sampling!Batch PROVE SamplingInv'
  OBVIOUS
<1> USE DEF SamplingInv
<1>1. /\ UNCHANGED <<group, grid, policy, cursor, window, plan, gop, position, last, rows, yielded>>
      /\ status = "running" /\ counts # <<>> /\ plan = {} /\ gop = {}
  BY DEF Sampling!Batch
<1>2. Busy(plan, gop, counts, position, last, rows[turn])
  BY <1>1 DEF Decoding
<1>3. turn \in 1 .. Len(group) /\ Sampling!CanPick /\ Len(group) \in Nat
  BY <1>2, SampledSets DEF Busy
<1>4. DoneOf(plan, gop) = window.ts
  BY <1>1 DEF DoneOf, LeftOf
<1>5. /\ window.ts # {} /\ Sampling!Eligible = FramesOf(turn, window.ts, window.end) /\ Sampling!Eligible # {}
      /\ \A x \in window.ts : IsNear(Sampling!Eligible, x, Sampling!Picked(x))
  BY <1>3, PicksAre
<1>6. RowsRight(rows[turn], turn, window.ts, window.end)
  BY <1>2, <1>4, <1>5 DEF Busy, RowsRight
<1>7. UNCHANGED status /\ turn' = turn + 1 /\ counts' = <<>>
  <2>1. Len(rows[turn]) = Sampling!Cardinality(window.ts)
    BY <1>2, <1>4 DEF Busy, Sampling!Cardinality, Cardinality
  <2> QED
    BY <2>1 DEF Sampling!Batch
<1>8. SampledType'
  BY <1>1, <1>3, <1>7 DEF SampledType, SampledFrame
<1>9. Windowed'
  <2>1. WindowedBy(turn', cursor', window', yielded', status')
    BY <1>1, <1>3, <1>7 DEF Windowed, WindowedBy
  <2> QED
    BY <1>1, <2>1, WindowedStays
<1>10. \A s \in 1 .. Len(group) : (s < turn => RowsRight(rows[s], s, window.ts, window.end)) /\ (s > turn => rows[s] = <<>>)
  BY <1>3 DEF RowsSoFar, RowsBy
<1>11. RowsSoFar'
  <2>1. RowsBy(turn', rows', window')
    BY <1>1, <1>3, <1>6, <1>7, <1>10 DEF RowsBy
  <2> QED
    BY <1>1, <2>1, RowsStay
<1>12. Decoding'
  BY <1>1, <1>3, <1>7, <1>10 DEF Decoding
<1>13. Policed'
  BY <1>1, <1>7 DEF Policed
<1> QED
  BY <1>8, <1>9, <1>11, <1>12, <1>13

LEMMA StepAlign == SamplingInv /\ Sampling!Align => SamplingInv'
<1> SUFFICES ASSUME SamplingInv, Sampling!Align PROVE SamplingInv'
  OBVIOUS
<1> USE DEF SamplingInv
<1> DEFINE n == Len(yielded)
           frame == [ts |-> window.ts, rows |-> rows]
<1>1. /\ UNCHANGED <<group, grid, policy, cursor, window, plan, counts, gop, position, last, rows>>
      /\ status = "running" /\ turn = Len(group) + 1
      /\ \/ policy.overlap > 0 /\ status' = "overlap" /\ UNCHANGED <<turn, yielded>>
         \/ yielded' = Append(yielded, frame) /\ turn' = 0 /\ UNCHANGED status
  BY DEF Sampling!Align
<1>2. Len(group) \in Nat /\ turn # 0 /\ turn \notin 1 .. Len(group)
  <2>1. Len(group) \in Nat
    BY SampledSets
  <2> QED
    BY <1>1, <2>1
<1>3. plan = {} /\ gop = {} /\ counts = <<>>
  BY <1>2 DEF Decoding, Busy
<1>4. CASE policy.overlap > 0 /\ status' = "overlap" /\ UNCHANGED <<turn, yielded>>
  <2>1. SampledType'
    BY <1>1, <1>4 DEF SampledType, SampledFrame
  <2>2. Windowed'
    <3>1. WindowedBy(turn', cursor', window', yielded', status')
      BY <1>1, <1>4 DEF Windowed, WindowedBy
    <3> QED
      BY <1>1, <3>1, WindowedStays
  <2>3. RowsSoFar'
    <3>1. RowsBy(turn', rows', window')
      BY <1>1, <1>4 DEF RowsSoFar
    <3> QED
      BY <1>1, <3>1, RowsStay
  <2>4. Decoding'
    BY <1>1, <1>2, <1>3, <1>4 DEF Decoding
  <2>5. Policed'
    <3>1. policy # Sampling!NoPolicy
      BY <1>4 DEF Sampling!NoPolicy
    <3> QED
      BY <1>1, <3>1 DEF Policed
  <2> QED
    BY <2>1, <2>2, <2>3, <2>4, <2>5
<1>5. CASE yielded' = Append(yielded, frame) /\ turn' = 0 /\ UNCHANGED status
  <2>1. yielded \in Seq(SampledFrame) /\ rows \in [1 .. Len(group) -> Seq(Nat)]
    BY DEF SampledType
  <2>2. /\ cursor = SlotStart(n + 2) /\ SlotStart(n + 1) <= grid.end
        /\ window = [ts |-> SlotTimes(n + 1), end |-> SlotEnd(n + 1)]
        /\ \A k \in 1 .. n :
             /\ SlotStart(k) <= grid.end
             /\ yielded[k].ts = SlotTimes(k)
             /\ \A s \in 1 .. Len(group) : RowsRight(yielded[k].rows[s], s, SlotTimes(k), SlotEnd(k))
    BY <1>2 DEF Windowed, WindowedBy
  <2>3. \A s \in 1 .. Len(group) : RowsRight(rows[s], s, SlotTimes(n + 1), SlotEnd(n + 1))
    BY <1>1, <1>2, <2>2 DEF RowsSoFar, RowsBy
  <2>4. frame \in SampledFrame
    <3>1. window.ts \subseteq Int
      BY <2>2, SampledSets DEF SlotTimes
    <3> QED
      BY <2>1, <3>1 DEF SampledFrame
  <2>5. frame.ts = SlotTimes(n + 1) /\ frame.rows = rows
    BY <2>2
  <2> HIDE DEF frame
  <2>6. /\ yielded' \in Seq(SampledFrame) /\ Len(yielded') = n + 1 /\ n \in Nat
        /\ yielded'[n + 1] = frame /\ \A k \in 1 .. n : yielded'[k] = yielded[k]
    BY <1>5, <2>1, <2>4
  <2>7. SampledType'
    BY <1>1, <1>5, <2>6 DEF SampledType, SampledFrame
  <2>8. Windowed'
    <3>1. ASSUME NEW k \in 1 .. n + 1
          PROVE  /\ SlotStart(k) <= grid.end
                 /\ yielded'[k].ts = SlotTimes(k)
                 /\ \A s \in 1 .. Len(group) : RowsRight(yielded'[k].rows[s], s, SlotTimes(k), SlotEnd(k))
      <4>1. CASE k = n + 1
        BY <2>2, <2>3, <2>5, <2>6, <4>1
      <4>2. CASE k \in 1 .. n
        BY <2>2, <2>6, <4>2
      <4> QED
        BY <2>6, <4>1, <4>2
    <3>2. Len(yielded') + 1 = n + 2
      BY <2>6
    <3>3. WindowedBy(turn', cursor', window', yielded', status')
      BY <1>1, <1>5, <2>2, <2>6, <3>1, <3>2 DEF WindowedBy
    <3> QED
      BY <1>1, <3>3, WindowedStays
  <2>9. RowsSoFar'
    BY <1>5 DEF RowsSoFar, RowsBy
  <2>10. Decoding'
    BY <1>1, <1>3, <1>5 DEF Decoding
  <2>11. Policed'
    BY <1>1, <1>5 DEF Policed
  <2> QED
    BY <2>7, <2>8, <2>9, <2>10, <2>11
<1> QED
  BY <1>1, <1>4, <1>5

LEMMA SamplingStays == SamplingInv /\ UNCHANGED Sampling!samplingVars => SamplingInv'
<1> SUFFICES ASSUME SamplingInv, UNCHANGED Sampling!samplingVars PROVE SamplingInv'
  OBVIOUS
<1> USE DEF SamplingInv
<1>1. UNCHANGED <<group, grid, policy, status, cursor, window, turn, plan, counts, gop, position, last, rows, yielded>>
  BY DEF Sampling!samplingVars
<1>2. SampledType' /\ Policed'
  BY <1>1 DEF SampledType, SampledFrame, Policed
<1>3. Windowed'
  <2>1. WindowedBy(turn', cursor', window', yielded', status')
    BY <1>1 DEF Windowed
  <2> QED
    BY <1>1, <2>1, WindowedStays
<1>4. RowsSoFar'
  <2>1. RowsBy(turn', rows', window')
    BY <1>1 DEF RowsSoFar
  <2> QED
    BY <1>1, <2>1, RowsStay
<1>5. Decoding'
  <2>1. CASE Busy(plan, gop, counts, position, last, rows[turn])
    <3>1. Busy(plan', gop', counts', position', last', rows'[turn])
      BY <1>1, <2>1
    <3> QED
      BY <1>1, <3>1, BusyStays
  <2>2. CASE ~ Busy(plan, gop, counts, position, last, rows[turn])
    BY <1>1, <2>2 DEF Decoding
  <2> QED
    BY <2>1, <2>2
<1> QED
  BY <1>2, <1>3, <1>4, <1>5

-----------------------------------------------------------------------------
(* What the invariant says of the frames.                                     *)

\* Each row is that of a timestamp.
LEMMA RanksAll ==
  ASSUME NEW T, T \subseteq Int, IsFiniteSet(T), NEW k \in 1 .. Cardinality(T)
  PROVE  \E x \in T : Sampling!Rank(T, x) = k
<1> DEFINE c == Cardinality(T)
           Upto(x) == {y \in T : y <= x}
           f == [x \in T |-> Cardinality(Upto(x))]
<1>1. c \in Nat /\ IsFiniteSet(1 .. c) /\ Cardinality(1 .. c) = c
  <2>1. c \in Nat
    BY FS_CardinalityType
  <2>2. 1 \in Int /\ c \in Int /\ (IF 1 > c THEN 0 ELSE c - 1 + 1) = c
    BY <2>1
  <2> HIDE DEF c
  <2> QED
    BY <2>1, <2>2, FS_Interval
<1>2. \A x \in T : Sampling!Rank(T, x) = Cardinality(Upto(x))
  BY DEF Sampling!Rank, Sampling!Cardinality, Cardinality
<1>3. ASSUME NEW x \in T PROVE IsFiniteSet(Upto(x)) /\ Cardinality(Upto(x)) \in 1 .. c
  <2>1. Upto(x) \in SUBSET T /\ x \in Upto(x)
    OBVIOUS
  <2> HIDE DEF Upto
  <2>2. IsFiniteSet(Upto(x)) /\ Cardinality(Upto(x)) <= c
    BY <2>1, FS_Subset
  <2>3. Cardinality(Upto(x)) \in Nat /\ Cardinality(Upto(x)) # 0
    BY <2>1, <2>2, FS_CardinalityType, FS_EmptySet
  <2> QED
    BY <1>1, <2>2, <2>3
<1>4. ASSUME NEW x \in T, NEW y \in T, x < y PROVE Cardinality(Upto(x)) # Cardinality(Upto(y))
  <2>1. x \in Int /\ y \in Int
    OBVIOUS
  <2>2. Upto(x) \in SUBSET Upto(y)
    <3>1. \A z \in T : z <= x => z <= y
      BY <1>4, <2>1
    <3> QED
      BY <3>1
  <2>3. y \in Upto(y) /\ y \notin Upto(x)
    <3>1. y <= y /\ ~ (y <= x)
      BY <1>4, <2>1
    <3> QED
      BY <3>1
  <2> HIDE DEF Upto
  <2> QED
    BY <1>3, <2>2, <2>3, FS_Subset
<1>5. f \in Injection(T, 1 .. c)
  <2>1. f \in [T -> 1 .. c]
    BY <1>3
  <2>2. ASSUME NEW x \in T, NEW y \in T, f[x] = f[y] PROVE x = y
    <3>1. Cardinality(Upto(x)) = Cardinality(Upto(y))
      BY <2>2
    <3>2. x \in Int /\ y \in Int
      OBVIOUS
    <3> HIDE DEF Upto, f
    <3>3. ~ (x < y) /\ ~ (y < x)
      BY <1>4, <3>1
    <3> QED
      BY <3>2, <3>3
  <2> QED
    BY <2>1, <2>2 DEF Injection, IsInjective
<1>6. f \in Surjection(T, 1 .. c)
  <2> HIDE DEF f
  <2>1. Cardinality(T) = Cardinality(1 .. c)
    BY <1>1
  <2> QED
    BY <1>1, <1>5, <2>1, FS_Injection
<1>7. PICK x \in T : f[x] = k
  BY <1>6 DEF Surjection
<1> QED
  BY <1>2, <1>7

LEMMA SlotOfFrame ==
  ASSUME SamplingInv, NEW n \in 1 .. Len(yielded)
  PROVE  /\ n \in Int /\ SlotStart(n) \in Int /\ SlotEnd(n) \in Int
         /\ yielded[n].ts = SlotTimes(n) /\ SlotTimes(n) \subseteq Int /\ IsFiniteSet(SlotTimes(n))
         /\ Sampling!BoundAt(n - 1) = SlotStart(n) /\ Sampling!EndAt(n) = SlotEnd(n)
         /\ \A s \in 1 .. Len(group) :
              /\ RowsRight(yielded[n].rows[s], s, SlotTimes(n), SlotEnd(n))
              /\ Sampling!InWindow(s, n) = FramesOf(s, SlotTimes(n), SlotEnd(n))
<1> USE DEF SamplingInv
<1>1. /\ SlotStart(n) <= grid.end
      /\ yielded[n].ts = SlotTimes(n)
      /\ \A s \in 1 .. Len(group) : RowsRight(yielded[n].rows[s], s, SlotTimes(n), SlotEnd(n))
  BY DEF Windowed, WindowedBy
<1>2. n \in Int /\ SlotStart(n) \in Int /\ SlotEnd(n) \in Int /\ grid.end \in Int /\ grid.duration \in Nat
  <2>1. n \in Int
    OBVIOUS
  <2> QED
    BY <2>1, SlotsFollow, SampledSets
<1>3. SlotTimes(n) \subseteq Int /\ IsFiniteSet(SlotTimes(n))
  <2>1. SlotTimes(n) \in SUBSET grid.ts
    BY DEF SlotTimes
  <2> QED
    BY <2>1, SampledSets, FS_Subset
<1>4. Sampling!BoundAt(n - 1) = SlotStart(n)
  <2>1. Sampling!BoundAt(n - 1) = Sampling!Min({SlotStart(n), grid.end})
    BY DEF Sampling!BoundAt, SlotStart
  <2> QED
    BY <1>1, <1>2, <2>1, OfTwo
<1>5. Sampling!EndAt(n) = SlotEnd(n)
  <2>1. Sampling!EndAt(n) = Sampling!Min({SlotStart(n) + grid.duration, grid.end})
    BY <1>4 DEF Sampling!EndAt
  <2>2. SlotStart(n) + grid.duration \in Int
    BY <1>2
  <2> QED
    BY <1>2, <2>1, <2>2, OfTwo DEF SlotEnd
<1>6. \A s \in 1 .. Len(group) : Sampling!InWindow(s, n) = FramesOf(s, SlotTimes(n), SlotEnd(n))
  BY <1>1, <1>5 DEF Sampling!InWindow, FramesOf
<1> QED
  BY <1>1, <1>2, <1>3, <1>4, <1>5, <1>6

LEMMA RowsAreAligned ==
  ASSUME SamplingInv
  PROVE  Sampling!RowsAligned
<1>1. ASSUME NEW n \in 1 .. Len(yielded)
      PROVE  yielded[n].ts = {x \in grid.ts : Sampling!BoundAt(n - 1) <= x /\ x < Sampling!EndAt(n)}
  BY SlotOfFrame DEF SlotTimes
<1>2. ASSUME NEW n \in 1 .. Len(yielded), NEW s \in 1 .. Len(group)
      PROVE  LET frame == yielded[n]
             IN  IF frame.ts = {} \/ Sampling!InWindow(s, n) = {} THEN frame.rows[s] = <<>>
                 ELSE /\ Len(frame.rows[s]) = Sampling!Cardinality(frame.ts)
                      /\ \A x \in frame.ts :
                           frame.rows[s][Sampling!Rank(frame.ts, x)] = Sampling!Nearest(Sampling!InWindow(s, n), x)
  <2> DEFINE E == FramesOf(s, SlotTimes(n), SlotEnd(n))
             r == yielded[n].rows[s]
  <2>1. yielded[n].ts = SlotTimes(n) /\ Sampling!InWindow(s, n) = E /\ RowsRight(r, s, SlotTimes(n), SlotEnd(n))
        /\ SlotTimes(n) \subseteq Int
    BY SlotOfFrame
  <2>2. E \subseteq Int
    <3>1. group[s].frames \subseteq Nat
      BY SampledSets DEF SamplingInv
    <3> QED
      BY <3>1 DEF FramesOf
  <2>3. Sampling!Cardinality(SlotTimes(n)) = Cardinality(SlotTimes(n))
    BY DEF Sampling!Cardinality, Cardinality
  <2>4. IF SlotTimes(n) = {} \/ E = {} THEN r = <<>>
        ELSE /\ Len(r) = Cardinality(SlotTimes(n))
             /\ \A x \in SlotTimes(n) : IsNear(E, x, r[Sampling!Rank(SlotTimes(n), x)])
    BY <2>1 DEF RowsRight
  <2> HIDE DEF E, r
  <2>5. ASSUME SlotTimes(n) # {}, E # {}, NEW x \in SlotTimes(n)
        PROVE  r[Sampling!Rank(SlotTimes(n), x)] = Sampling!Nearest(E, x)
    <3>1. IsNear(E, x, r[Sampling!Rank(SlotTimes(n), x)]) /\ x \in Int
      BY <2>1, <2>4, <2>5
    <3> QED
      BY <2>2, <3>1, NearestIs
  <2> QED
    BY <2>1, <2>3, <2>4, <2>5 DEF r
<1>3. /\ status \in {"running", "done", "tolerance", "no keyframe", "overlap"}
      /\ status \in {"tolerance", "overlap"} => policy # Sampling!NoPolicy
  BY DEF SamplingInv, SampledType, Policed
<1> QED
  BY <1>1, <1>2, <1>3 DEF Sampling!RowsAligned

\* A frame in a row lies in the window.
LEMMA RowsWithin ==
  ASSUME SamplingInv, NEW n \in 1 .. Len(yielded), NEW s \in 1 .. Len(group),
         NEW k \in 1 .. Len(yielded[n].rows[s])
  PROVE  LET f == yielded[n].rows[s][k] IN f \in Nat /\ SlotStart(n) <= f /\ f < SlotEnd(n)
<1> DEFINE T == SlotTimes(n)
           E == FramesOf(s, T, SlotEnd(n))
           r == yielded[n].rows[s]
<1>1. /\ RowsRight(r, s, T, SlotEnd(n)) /\ T \subseteq Int /\ IsFiniteSet(T)
      /\ SlotStart(n) \in Int /\ SlotEnd(n) \in Int
  BY SlotOfFrame
<1>2. r # <<>>
  OBVIOUS
<1>3. T # {} /\ Len(r) = Cardinality(T) /\ \A x \in T : IsNear(E, x, r[Sampling!Rank(T, x)])
  BY <1>1, <1>2 DEF RowsRight
<1>4. \A x \in T : SlotStart(n) <= x
  BY DEF SlotTimes
<1>5. E \subseteq Nat /\ \A f \in E : Sampling!Min(T) <= f /\ f < SlotEnd(n)
  <2>1. group[s].frames \subseteq Nat
    BY SampledSets DEF SamplingInv
  <2> QED
    BY <2>1 DEF FramesOf
<1> HIDE DEF T, E
<1>6. PICK x \in T : Sampling!Rank(T, x) = k
  BY <1>1, <1>3, RanksAll
<1>7. r[k] \in E
  BY <1>3, <1>6 DEF IsNear
<1>8. Sampling!Min(T) \in T
  BY <1>1, <1>3, Extremes
<1>9. Sampling!Min(T) \in Int /\ SlotStart(n) <= Sampling!Min(T) /\ r[k] \in Nat /\ Sampling!Min(T) <= r[k] /\ r[k] < SlotEnd(n)
  BY <1>1, <1>4, <1>5, <1>7, <1>8
<1> QED
  BY <1>1, <1>9

\* Windows that are not longer than the stride have nothing in common.
LEMMA SlotsApart ==
  ASSUME SamplingInv, grid.duration <= grid.stride,
         NEW n \in 1 .. Len(yielded), NEW k \in 1 .. Len(yielded), NEW x \in Int,
         SlotStart(n) <= x, x < SlotEnd(n), SlotStart(k) <= x, x < SlotEnd(k)
  PROVE  n = k
<1>1. ASSUME NEW a \in 1 .. Len(yielded), NEW b \in 1 .. Len(yielded), a < b,
             x < SlotEnd(a), SlotStart(b) <= x
      PROVE  FALSE
  <2>1. a \in Int /\ b \in Int /\ SlotStart(a) \in Int /\ SlotEnd(a) \in Int /\ SlotStart(b) \in Int
    BY SlotOfFrame
  <2>2. SlotStart(a) + grid.stride <= SlotStart(b)
    BY <1>1, <2>1, SlotsFollow DEF SamplingInv
  <2>3. grid.duration \in Nat /\ grid.stride \in Nat /\ grid.end \in Int
    BY SampledSets DEF SamplingInv
  <2>4. SlotEnd(a) <= SlotStart(a) + grid.duration
    BY <2>1, <2>3 DEF SlotEnd
  <2> QED
    BY <1>1, <2>1, <2>2, <2>3, <2>4
<1>2. ~ (n < k) /\ ~ (k < n)
  BY <1>1
<1> QED
  BY <1>2

LEMMA CountedOnce ==
  ASSUME SamplingInv
  PROVE  Sampling!EachOnce
<1> DEFINE Ends(x)    == {n \in 1 .. Len(yielded) : x \in yielded[n].ts}
           Uses(s, f) == {n \in 1 .. Len(yielded) : \E k \in 1 .. Len(yielded[n].rows[s]) : yielded[n].rows[s][k] = f}
<1>1. ASSUME grid.duration <= grid.stride, NEW x \in grid.ts PROVE Sampling!Cardinality(Ends(x)) <= 1
  <2>1. x \in Int
    BY SampledSets DEF SamplingInv
  <2>2. ASSUME NEW n \in Ends(x) PROVE n \in 1 .. Len(yielded) /\ SlotStart(n) <= x /\ x < SlotEnd(n)
    BY SlotOfFrame DEF SlotTimes
  <2> HIDE DEF Ends
  <2>3. \A n, k \in Ends(x) : n = k
    BY <1>1, <2>1, <2>2, SlotsApart
  <2> QED
    BY <2>3, OneAtMost DEF Sampling!Cardinality, Cardinality
<1>2. ASSUME grid.duration <= grid.stride, NEW s \in 1 .. Len(group), NEW f \in group[s].frames
      PROVE  Sampling!Cardinality(Uses(s, f)) <= 1
  <2>1. f \in Int
    BY SampledSets DEF SamplingInv
  <2>2. ASSUME NEW n \in Uses(s, f) PROVE n \in 1 .. Len(yielded) /\ SlotStart(n) <= f /\ f < SlotEnd(n)
    BY RowsWithin
  <2> HIDE DEF Uses
  <2>3. \A n, k \in Uses(s, f) : n = k
    BY <1>2, <2>1, <2>2, SlotsApart
  <2> QED
    BY <2>3, OneAtMost DEF Sampling!Cardinality, Cardinality
<1>3. ASSUME status = "done", grid.duration >= grid.stride, NEW x \in grid.ts PROVE Ends(x) # {}
  <2>1. /\ grid.start \in Int /\ grid.end \in Int /\ grid.stride \in Nat \ {0} /\ grid.duration \in Nat
        /\ x \in Int /\ grid.start <= x /\ x < grid.end
    BY SampledSets DEF SamplingInv
  <2>2. PICK q \in Nat, o \in 0 .. (grid.stride - 1) : x - grid.start = q * grid.stride + o
    <3>1. x - grid.start \in Nat
      BY <2>1
    <3> QED
      BY <2>1, <3>1, Division
  <2> DEFINE n == q + 1
             c == Len(yielded)
  <2>3. n \in Int /\ n >= 1
    OBVIOUS
  <2>4. c \in Nat /\ cursor = SlotStart(c + 1) /\ cursor >= grid.end
    <3>1. yielded \in Seq(SampledFrame)
      BY DEF SamplingInv, SampledType
    <3>2. c \in Nat
      BY <3>1
    <3> QED
      BY <1>3, <3>2 DEF SamplingInv, Windowed, WindowedBy
  <2>5. SlotStart(n) = grid.start + q * grid.stride /\ q * grid.stride \in Int
    <3>1. (n - 1) = q /\ q * grid.stride \in Int
      BY <2>1
    <3> QED
      BY <3>1 DEF SlotStart
  <2>6. SlotStart(n) \in Int /\ SlotStart(n) <= x /\ x < SlotStart(n) + grid.stride
    BY <2>1, <2>2, <2>5
  <2>7. n <= c
    <3> SUFFICES ASSUME c + 1 <= n PROVE FALSE
      BY <2>3, <2>4
    <3>1. c + 1 \in Int /\ SlotStart(c + 1) \in Int
      BY <2>4, SlotsFollow DEF SamplingInv
    <3>2. c + 1 = n \/ SlotStart(c + 1) + grid.stride <= SlotStart(n)
      <4> DEFINE m == c + 1
      <4>1. m \in Int /\ m <= n
        BY <3>1
      <4>2. \A k \in Int : m < k => SlotStart(m) + grid.stride <= SlotStart(k)
        BY <4>1, SlotsFollow DEF SamplingInv
      <4> HIDE DEF m
      <4>3. m = n \/ m < n
        BY <2>3, <4>1
      <4>4. m = n \/ SlotStart(m) + grid.stride <= SlotStart(n)
        BY <2>3, <4>2, <4>3
      <4> QED
        BY <4>4 DEF m
    <3>3. SlotStart(c + 1) <= SlotStart(n)
      BY <2>1, <2>6, <3>1, <3>2
    <3> QED
      BY <2>1, <2>4, <2>6, <3>1, <3>3
  <2>8. n \in 1 .. c
    BY <2>3, <2>4, <2>7
  <2>9. x < SlotEnd(n)
    BY <1>3, <2>1, <2>6 DEF SlotEnd
  <2>10. x \in SlotTimes(n)
    BY <2>6, <2>9 DEF SlotTimes
  <2> HIDE DEF n, c
  <2>11. x \in yielded[n].ts
    BY <2>8, <2>10, SlotOfFrame DEF c
  <2> QED
    BY <2>8, <2>11 DEF c
<1>4. \A s \in 1 .. Len(group) : \A f \in group[s].frames :
        grid.duration <= grid.stride => Sampling!Cardinality(Uses(s, f)) <= 1
  BY <1>2
<1> QED
  BY <1>1, <1>3, <1>4 DEF Sampling!EachOnce

\* SamplesAligned.  Each aligned frame holds the nearest frame of each camera for each timestamp of its
\* window; with windows as long as the stride nothing is in two frames, and nothing is left out.
THEOREM SamplesAreAligned == Sampling!Spec => []SamplesAligned
<1>1. SamplingInv /\ [Sampling!Next]_(Sampling!samplingVars) => SamplingInv'
  BY StepNextWindow, StepExhausted, StepNothing, StepPick, StepSeek, StepDecode, StepBatch, StepAlign,
     SamplingStays DEF Sampling!Next
<1>2. SamplingInv => SamplesAligned
  BY RowsAreAligned, CountedOnce DEF SamplesAligned, Sampling!SamplesAligned
<1> QED
  BY <1>1, <1>2, SamplingInit, PTL DEF Sampling!Spec
=============================================================================
