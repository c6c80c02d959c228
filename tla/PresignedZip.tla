---------------------------- MODULE PresignedZip ----------------------------
(***************************************************************************)
(* Input and output of a request of the NVCF service behind presigned      *)
(* URLs: the input archive is extracted on every node before the pipeline  *)
(* runs; afterwards the outputs of all nodes are merged on the driver and  *)
(* uploaded as one archive, with one PUT or in parts                       *)
(* (core/utils/storage/presigned_s3_zip.py).  What goes wrong in the       *)
(* second half is logged and the request is answered as before.            *)
(***************************************************************************)
EXTENDS Naturals, FiniteSets, Sequences, SequencesExt

CONSTANTS
  Nodes, Driver,
  Chunk,      \* size of a part, in files
  MaxParts,   \* URLs for parts that a request brings
  MaxTries    \* max_retries

VARIABLES
  order,    \* what the request asks for
  spot,     \* input, run, gather, merge, meta, zip, send, clean, over
  fetched,  \* nodes that have extracted the input
  ran,      \* the pipeline was started
  left,     \* nodes that have left the cluster
  dirs,     \* of a node: the files of the output that are in its directory
  torn,     \* files of the driver that are not whole
  asked,    \* nodes that were asked for their output
  zips,     \* nodes whose output is to be merged
  warned,   \* "Gather outputs failed" is in the log
  archive,  \* the files of the archive, in order
  object,   \* of a URL: what was put there
  at,       \* position in the archive file
  sent,     \* bytes_uploaded
  partNo,   \* URL of the part under way
  putTries, \* attempts for it that failed
  result    \* none, done or error: what the log says of the upload

requestVars == <<order, fetched, ran, left>>
outputVars  == <<dirs, torn, asked, zips, warned>>
uploadVars  == <<archive, object, at, sent, partNo, putTries, result>>
vars == <<requestVars, spot, outputVars, uploadVars>>

Captions == <<Driver, 3>>               \* the consolidated captions of a split
Directory == <<Driver, 4>>              \* the central directory of an archive
Own(n)   == {f \in dirs[n] : f[1] = n}  \* what was in the directory of a node when it was asked

Init ==
  /\ order \in [input : BOOLEAN, multi : BOOLEAN, parts : 1..MaxParts, split : BOOLEAN,
                dir : {"made", "given", "alike"}]
  /\ ~order.multi => order.parts = 1
  /\ spot = IF order.input THEN "input" ELSE "run"
  /\ fetched = {} /\ ran = FALSE /\ left = {}
  /\ dirs = [n \in Nodes |-> {}] /\ torn = {} /\ asked = {} /\ zips = {} /\ warned = FALSE
  /\ archive = <<>> /\ object = [p \in 1..MaxParts |-> <<>>]
  /\ at = 0 /\ sent = 0 /\ partNo = 1 /\ putTries = 0 /\ result = "none"

-----------------------------------------------------------------------------
(* Before and while the pipeline runs                                      *)

\* Mutant: the first node that has the input is enough
FetchAny(n) ==
  /\ spot = "input" /\ n \notin fetched
  /\ fetched' = fetched \cup {n}
  /\ spot' = "run"
  /\ UNCHANGED <<order, ran, left, outputVars, uploadVars>>

\* One actor per node downloads and extracts; ray.get waits for all of them.
Fetch(n) ==
  /\ spot = "input" /\ n \notin fetched
  /\ fetched' = fetched \cup {n}
  /\ spot' = IF fetched' = Nodes THEN "run" ELSE "input"
  /\ UNCHANGED <<order, ran, left, outputVars, uploadVars>>

\* A download or extraction raises, and with it the request.  A directory for the output is made
\* later only; one that was given is uploaded all the same.
FetchFails ==
  /\ spot = "input"
  /\ spot' = IF order.dir = "made" THEN "over" ELSE "gather"
  /\ UNCHANGED <<requestVars, outputVars, uploadVars>>

\* The pipeline writes files on the nodes, and ends, well or not.
Run ==
  /\ spot = "run"
  /\ \E out \in [Nodes -> SUBSET (1..2)] :
       dirs' = [n \in Nodes |-> {n} \X out[n]]
  /\ ran' = TRUE /\ spot' = "gather"
  /\ UNCHANGED <<order, fetched, left, torn, asked, zips, warned, uploadVars>>

\* A node leaves before it is asked: nobody notices.
Leaves(n) ==
  /\ spot = "gather" /\ n # Driver /\ n \notin left
  /\ left' = left \cup {n}
  /\ UNCHANGED <<order, spot, fetched, ran, outputVars, uploadVars>>

-----------------------------------------------------------------------------
(* Gathering, in a process of its own that is waited for                   *)

\* The live nodes zip what they have; nodes without files return nothing.
Gather ==
  /\ spot = "gather"
  /\ asked' = Nodes \ left
  /\ zips' = {n \in asked' : dirs[n] # {}}
  /\ spot' = "merge"
  /\ UNCHANGED <<requestVars, dirs, torn, warned, uploadVars>>

\* An actor fails: nothing is merged, and the upload goes on without.
GatherFails ==
  /\ spot = "gather"
  /\ warned' = TRUE /\ spot' = "meta"
  /\ UNCHANGED <<requestVars, dirs, torn, asked, zips, uploadVars>>

\* 300 seconds are over: that is logged, but leaving the executor waits for the process.
Late ==
  /\ spot \in {"gather", "merge"} /\ ~warned
  /\ warned' = TRUE
  /\ UNCHANGED <<requestVars, spot, dirs, torn, asked, zips, uploadVars>>

Merge(n) ==
  /\ spot = "merge" /\ n \in zips
  /\ dirs' = [dirs EXCEPT ![Driver] = @ \cup Own(n)]
  /\ zips' = zips \ {n}
  /\ UNCHANGED <<requestVars, spot, torn, asked, warned, uploadVars>>

\* Mutant: a failure while merging ends the merge without a word
MergeFailsQuietly(n) ==
  /\ spot = "merge" /\ n \in zips
  /\ \E got \in SUBSET Own(n) : \E f \in Own(n) \ got :
       /\ dirs' = [dirs EXCEPT ![Driver] = @ \cup got \cup {f}]
       /\ torn' = {f}
  /\ zips' = {} /\ spot' = "meta"
  /\ UNCHANGED <<requestVars, asked, warned, uploadVars>>

\* The archive of a node cannot be had, or not be extracted: some files are there, one is open.
\* The driver's own archive is extracted over its own files.
MergeFails(n) ==
  /\ spot = "merge" /\ n \in zips
  /\ \E got \in SUBSET Own(n) : \E f \in Own(n) \ got :
       \/ /\ dirs' = [dirs EXCEPT ![Driver] = @ \cup got \cup {f}]
          /\ torn' = {f}
       \/ got = {} /\ UNCHANGED <<dirs, torn>>
  /\ zips' = {} /\ warned' = TRUE /\ spot' = "meta"
  /\ UNCHANGED <<requestVars, asked, uploadVars>>

Merged ==
  /\ spot = "merge" /\ zips = {}
  /\ spot' = "meta"
  /\ UNCHANGED <<requestVars, outputVars, uploadVars>>

-----------------------------------------------------------------------------
(* Metadata, archive and upload                                            *)

Raise == result' = "error" /\ spot' = "clean"

WriteMetadata ==
  /\ spot = "meta"
  /\ IF order.split THEN dirs' = [dirs EXCEPT ![Driver] = @ \cup {Captions}] ELSE UNCHANGED dirs
  /\ spot' = "zip"
  /\ UNCHANGED <<requestVars, torn, asked, zips, warned, uploadVars>>

\* The metadata cannot be written, or the directory not be archived.
MetadataOrZipFails ==
  /\ spot \in {"meta", "zip"} /\ (spot = "meta" => order.split)
  /\ Raise
  /\ UNCHANGED <<requestVars, outputVars, archive, object, at, sent, partNo, putTries>>

\* The archive is written and read once over; it has to fit into the parts.
MakeArchive ==
  /\ spot = "zip"
  /\ archive' = SetToSeq(dirs[Driver]) \o <<Directory>>
  /\ IF order.multi /\ Len(archive') > order.parts * Chunk
     THEN Raise
     ELSE spot' = "send" /\ UNCHANGED result
  /\ UNCHANGED <<requestVars, outputVars, object, at, sent, partNo, putTries>>

Put ==
  /\ spot = "send" /\ ~order.multi
  /\ object' = [object EXCEPT ![1] = archive]
  /\ result' = "done" /\ spot' = "clean"
  /\ UNCHANGED <<requestVars, outputVars, archive, at, sent, partNo, putTries>>

\* The PUT fails, of the whole or of a part: an answer that is an error is not tried again.
PutFails ==
  /\ spot = "send"
  /\ Raise
  /\ UNCHANGED <<requestVars, outputVars, archive, object, at, sent, partNo, putTries>>

PartSize == IF Chunk < Len(archive) - sent THEN Chunk ELSE Len(archive) - sent
Sending  == spot = "send" /\ order.multi /\ partNo <= order.parts /\ PartSize > 0

\* Mutant: an attempt reads on where the last one stopped
PutPartFromHere ==
  /\ Sending
  /\ LET end == IF at + PartSize < Len(archive) THEN at + PartSize ELSE Len(archive)
     IN  /\ object' = [object EXCEPT ![partNo] = SubSeq(archive, at + 1, end)]
         /\ at' = end
         /\ IF end = sent + PartSize
            THEN /\ sent' = sent + PartSize /\ partNo' = partNo + 1 /\ putTries' = 0
                 /\ UNCHANGED <<result, spot>>
            ELSE Raise /\ UNCHANGED <<sent, partNo, putTries>>
  /\ UNCHANGED <<requestVars, outputVars, archive>>

\* Each attempt starts from the first byte of the part.
PutPart ==
  /\ Sending
  /\ object' = [object EXCEPT ![partNo] = SubSeq(archive, sent + 1, sent + PartSize)]
  /\ at' = sent + PartSize /\ sent' = sent + PartSize
  /\ partNo' = partNo + 1 /\ putTries' = 0
  /\ UNCHANGED <<requestVars, spot, outputVars, archive, result>>

\* The connection breaks after some of the part was read; what was read whole may be stored.
PutBreaks ==
  /\ Sending
  /\ \E k \in 0..PartSize :
       /\ at' = sent + k
       /\ \/ UNCHANGED object
          \/ k = PartSize /\ object' = [object EXCEPT ![partNo] = SubSeq(archive, sent + 1, sent + k)]
  /\ putTries' = putTries + 1
  /\ IF putTries' = MaxTries THEN Raise ELSE UNCHANGED <<result, spot>>
  /\ UNCHANGED <<requestVars, outputVars, archive, sent, partNo>>

\* All parts are there, or the URLs are used up.
PartsEnd ==
  /\ spot = "send" /\ order.multi /\ ~Sending
  /\ result' = (IF sent = Len(archive) THEN "done" ELSE "error") /\ spot' = "clean"
  /\ UNCHANGED <<requestVars, outputVars, archive, object, at, sent, partNo, putTries>>

\* Mutant: the directory is removed after a success only
CleanUpAfterSuccess ==
  /\ spot = "clean"
  /\ IF order.dir # "given" /\ result = "done" THEN dirs' = [dirs EXCEPT ![Driver] = {}] ELSE UNCHANGED dirs
  /\ spot' = "over"
  /\ UNCHANGED <<requestVars, torn, asked, zips, warned, uploadVars>>

\* A directory whose name looks like one that was made for the request is removed.
CleanUp ==
  /\ spot = "clean"
  /\ IF order.dir # "given" THEN dirs' = [dirs EXCEPT ![Driver] = {}] ELSE UNCHANGED dirs
  /\ spot' = "over"
  /\ UNCHANGED <<requestVars, torn, asked, zips, warned, uploadVars>>

Next ==
  \/ \E n \in Nodes : Fetch(n) \/ Leaves(n) \/ Merge(n) \/ MergeFails(n)
  \/ FetchFails \/ Run \/ Gather \/ GatherFails \/ Late \/ Merged
  \/ WriteMetadata \/ MetadataOrZipFails \/ MakeArchive \/ Put \/ PutFails
  \/ PutPart \/ PutBreaks \/ PartsEnd \/ CleanUp

Spec == Init /\ [][Next]_vars

-----------------------------------------------------------------------------
\* The pipeline finds its input on whatever node it runs.
InputEverywhere == ran /\ order.input => fetched = Nodes

\* An upload that is logged as completed holds the archive, in order and without a gap.
ObjectIsArchive == result = "done" => FlattenSeq(object) = archive

\* Without a warning it holds what every node had that was asked, and nothing that is torn.
NothingMissing ==
  result = "done" /\ spot = "clean" /\ ~warned =>
    /\ torn = {}
    /\ \A n \in asked : Own(n) \subseteq ToSet(archive)
    /\ order.split => Captions \in ToSet(archive)

\* Nothing stays of a directory that was made for the request, and a given one keeps its files.
DirectoryKept ==
  spot = "over" =>
    /\ order.dir = "made" => dirs[Driver] = {}
    /\ order.dir = "given" => ToSet(archive) \ {Directory} \subseteq dirs[Driver]

\* What handle_presigned_urls and gather_and_upload_outputs make of a request whose input and
\* output are archives, over nodes, retries and failures that are only logged.
UploadSound == InputEverywhere /\ ObjectIsArchive /\ NothingMissing /\ DirectoryKept
=============================================================================
