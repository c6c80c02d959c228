---------------------------- MODULE ModelWeights ----------------------------
(***************************************************************************)
(* How the weights of the models reach the nodes before a pipeline starts  *)
(* (core/utils/model/model_utils.py, core/cf/nvcf_utils.py,                *)
(* core/cf/nvcf_model_manager.py).  One actor per node copies them from    *)
(* cloud storage or from a local directory, one thread per model, or       *)
(* fetches them from the NVCF registry, one after the other, and keeps the *)
(* names of those it has in a tracking file.  The disks of the nodes       *)
(* outlive a run; a run fails when one actor raises, and the others are    *)
(* killed with it.                                                         *)
(***************************************************************************)
EXTENDS Naturals, FiniteSets

CONSTANTS Nodes, Models,
          MaxPipelines   \* bound on the pipelines of a behaviour

VARIABLES
  source,   \* remote, local or nvcf
  there,    \* the models that the source has
  disk,     \* directory of a model on a node: absent, empty, partial or whole
  tracked,  \* the models in the node's tracking file
  torn,     \* nodes whose tracking file was opened for writing, and not written
  job,      \* what the node's actor is doing for the model
  node,     \* idle, list, rewrite, work, answered or raised
  missing,  \* node and model pairs that the driver reports
  cut,      \* pairs whose copying was broken off
  pipeline, \* down, up or ready: the pipeline goes on to its stages
  pipelines

vars == <<source, there, disk, tracked, torn, job, node, missing, cut, pipeline, pipelines>>
const == <<source, there>>

Pairs  == Nodes \X Models
Idle   == [n \in Nodes |-> [m \in Models |-> "todo"]]
On(n)  == {m \in Models : disk[n][m] # "absent"}
Busy(n) == {m \in Models : job[n][m] \notin {"todo", "done"}}

SetDisk(n, m, d) == disk' = [disk EXCEPT ![n][m] = d]
SetJob(n, m, j)  == job' = [job EXCEPT ![n][m] = j]

Init ==
  /\ source \in {"remote", "local", "nvcf"}
  /\ there \in SUBSET Models
  /\ disk = [n \in Nodes |-> [m \in Models |-> "absent"]]
  /\ tracked = [n \in Nodes |-> {}] /\ torn = {}
  /\ job = Idle
  /\ node = [n \in Nodes |-> "idle"]
  /\ missing = {} /\ cut = {}
  /\ pipeline = "down" /\ pipelines = 0

-----------------------------------------------------------------------------
(* download_model_weights_on_all_nodes, on the driver                      *)

Start ==
  /\ pipeline # "up" /\ pipelines < MaxPipelines
  /\ pipeline' = "up" /\ pipelines' = pipelines + 1
  /\ job' = Idle
  /\ node' = [n \in Nodes |-> IF source = "nvcf" THEN "list" ELSE "work"]
  /\ missing' = {}
  /\ UNCHANGED <<const, disk, tracked, torn, cut>>

\* _check_missing_model_weights; the driver reports and goes on
Answer(n) ==
  /\ pipeline = "up" /\ node[n] = "work"
  /\ \A m \in Models : job[n][m] = "done"
  /\ node' = [node EXCEPT ![n] = "answered"]
  /\ missing' = missing \cup {<<n, m>> : m \in Models \ On(n)}
  /\ UNCHANGED <<const, disk, tracked, torn, job, cut, pipeline, pipelines>>

Ready ==
  /\ pipeline = "up" /\ \A n \in Nodes : node[n] = "answered"
  /\ pipeline' = "ready"
  /\ UNCHANGED <<const, disk, tracked, torn, job, node, missing, cut, pipelines>>

\* ray.get raises what an actor raised, or the run dies: nobody goes on
Ends ==
  /\ pipeline = "up"
  /\ pipeline' = "down"
  /\ node' = [n \in Nodes |-> "idle"]
  /\ job' = Idle
  /\ cut' = cut \cup {p \in Pairs : job[p[1]][p[2]] = "copying"}
  /\ UNCHANGED <<const, disk, tracked, torn, missing, pipelines>>

\* Between runs a disk, or the directory with the tracking file, is replaced.
LoseWeights(n, m) ==
  /\ pipeline # "up" /\ disk[n][m] # "absent"
  /\ SetDisk(n, m, "absent")
  /\ pipeline' = "down"
  /\ UNCHANGED <<const, tracked, torn, job, node, missing, cut, pipelines>>

LoseTracking(n) ==
  /\ pipeline # "up"
  /\ tracked[n] # {} \/ n \in torn
  /\ tracked' = [tracked EXCEPT ![n] = {}] /\ torn' = torn \ {n}
  /\ pipeline' = "down"
  /\ UNCHANGED <<const, disk, job, node, missing, cut, pipelines>>

-----------------------------------------------------------------------------
(* Cloud storage and local directories: one thread per model.              *)

Copying(n, m, j) == pipeline = "up" /\ source # "nvcf" /\ node[n] \in {"work", "raised"} /\ job[n][m] = j

Exists(n, m) ==
  /\ Copying(n, m, "todo") /\ disk[n][m] # "absent"
  /\ SetJob(n, m, "done")
  /\ UNCHANGED <<const, disk, tracked, torn, node, missing, cut, pipeline, pipelines>>

MakeDirectory(n, m) ==
  /\ Copying(n, m, "todo") /\ disk[n][m] = "absent"
  /\ SetDisk(n, m, "empty")
  /\ SetJob(n, m, IF source = "local" /\ m \notin there THEN "done" ELSE "copying")
  /\ UNCHANGED <<const, tracked, torn, node, missing, cut, pipeline, pipelines>>

CopyFile(n, m) ==
  /\ Copying(n, m, "copying") /\ m \in there /\ disk[n][m] = "empty"
  /\ SetDisk(n, m, "partial")
  /\ UNCHANGED <<const, tracked, torn, job, node, missing, cut, pipeline, pipelines>>

\* a prefix without objects is in sync at once
Copied(n, m) ==
  /\ Copying(n, m, "copying")
  /\ m \in there => disk[n][m] = "partial"
  /\ IF m \in there THEN SetDisk(n, m, "whole") ELSE UNCHANGED disk
  /\ SetJob(n, m, "done")
  /\ UNCHANGED <<const, tracked, torn, node, missing, cut, pipeline, pipelines>>

\* Mutant: the directory of a failed copy is left behind.
RemoteFailsUncleaned(n, m) ==
  /\ Copying(n, m, "copying") /\ source = "remote"
  /\ SetJob(n, m, "done")
  /\ node' = [node EXCEPT ![n] = "raised"]
  /\ cut' = IF disk[n][m] = "empty" THEN cut ELSE cut \cup {<<n, m>>}
  /\ UNCHANGED <<const, disk, tracked, torn, missing, pipeline, pipelines>>

\* rmdir removes the directory if nothing is in it, and raises otherwise.
RemoteFails(n, m) ==
  /\ Copying(n, m, "copying") /\ source = "remote"
  /\ SetJob(n, m, "done")
  /\ node' = [node EXCEPT ![n] = "raised"]
  /\ IF disk[n][m] = "empty" THEN SetDisk(n, m, "absent") /\ UNCHANGED cut
                             ELSE cut' = cut \cup {<<n, m>>} /\ UNCHANGED disk
  /\ UNCHANGED <<const, tracked, torn, missing, pipeline, pipelines>>

\* A failed local copy is logged.
LocalFails(n, m) ==
  /\ Copying(n, m, "copying") /\ source = "local"
  /\ SetJob(n, m, "done")
  /\ cut' = cut \cup {<<n, m>>}
  /\ UNCHANGED <<const, disk, tracked, torn, node, missing, pipeline, pipelines>>

-----------------------------------------------------------------------------
(* The NVCF registry: the models that are not tracked, one after the other. *)

Raised(n) ==
  /\ node' = [node EXCEPT ![n] = "raised"]
  /\ UNCHANGED <<const, disk, tracked, torn, job, missing, cut, pipeline, pipelines>>

\* get_new_models: a file that was left empty cannot be read
ListTorn(n) == pipeline = "up" /\ node[n] = "list" /\ n \in torn /\ Raised(n)

Have(n) == tracked[n] \cap On(n)

\* The file is opened for writing if it names models that are gone.
List(n) ==
  /\ pipeline = "up" /\ node[n] = "list" /\ n \notin torn
  /\ job' = [job EXCEPT ![n] = [m \in Models |-> IF m \in Have(n) THEN "done" ELSE "todo"]]
  /\ IF Have(n) # tracked[n]
       THEN torn' = torn \cup {n} /\ node' = [node EXCEPT ![n] = "rewrite"]
       ELSE UNCHANGED torn /\ node' = [node EXCEPT ![n] = "work"]
  /\ UNCHANGED <<const, disk, tracked, missing, cut, pipeline, pipelines>>

Write(n, names) ==
  /\ tracked' = [tracked EXCEPT ![n] = names]
  /\ torn' = torn \ {n}

Rewrite(n) ==
  /\ pipeline = "up" /\ node[n] = "rewrite"
  /\ Write(n, Have(n))
  /\ node' = [node EXCEPT ![n] = "work"]
  /\ UNCHANGED <<const, disk, job, missing, cut, pipeline, pipelines>>

Fetching(n, m, j) == pipeline = "up" /\ source = "nvcf" /\ node[n] = "work" /\ job[n][m] = j

\* download_version writes to a directory with the name of the registry
Fetch(n, m) ==
  /\ Fetching(n, m, "todo") /\ Busy(n) = {} /\ m \in there
  /\ SetJob(n, m, "fetched")
  /\ UNCHANGED <<const, disk, tracked, torn, node, missing, cut, pipeline, pipelines>>

FetchFails(n, m) == Fetching(n, m, "todo") /\ Busy(n) = {} /\ Raised(n)

\* rmtree of what has the model's name, file by file
Remove(n, m) ==
  /\ Fetching(n, m, "fetched") /\ disk[n][m] # "absent"
  /\ SetDisk(n, m, IF disk[n][m] = "whole" THEN "partial" ELSE "absent")
  /\ UNCHANGED <<const, tracked, torn, job, node, missing, cut, pipeline, pipelines>>

Move(n, m) ==
  /\ Fetching(n, m, "fetched") /\ disk[n][m] = "absent"
  /\ SetDisk(n, m, "whole")
  /\ SetJob(n, m, "moved")
  /\ UNCHANGED <<const, tracked, torn, node, missing, cut, pipeline, pipelines>>

\* mark_models_downloaded reads the file and opens it for writing, ...
Open(n, m) ==
  /\ Fetching(n, m, "moved")
  /\ torn' = torn \cup {n}
  /\ SetJob(n, m, "marking")
  /\ UNCHANGED <<const, disk, tracked, node, missing, cut, pipeline, pipelines>>

\* ... and writes what it read and the new name.
Mark(n, m) ==
  /\ Fetching(n, m, "marking")
  /\ Write(n, tracked[n] \cup {m})
  /\ SetJob(n, m, "done")
  /\ UNCHANGED <<const, disk, node, missing, cut, pipeline, pipelines>>

-----------------------------------------------------------------------------
Next ==
  \/ Start \/ Ready \/ Ends
  \/ \E n \in Nodes : Answer(n) \/ ListTorn(n) \/ List(n) \/ Rewrite(n) \/ LoseTracking(n)
  \/ \E n \in Nodes, m \in Models :
       \/ Exists(n, m) \/ MakeDirectory(n, m) \/ CopyFile(n, m) \/ Copied(n, m)
       \/ RemoteFails(n, m) \/ LocalFails(n, m)
       \/ Fetch(n, m) \/ FetchFails(n, m) \/ Remove(n, m) \/ Move(n, m)
       \/ Open(n, m) \/ Mark(n, m) \/ LoseWeights(n, m)

Spec == Init /\ [][Next]_vars

\* A pipeline starts its stages with whole weights, or reports what is
\* missing: over failed runs, killed actors and restarts on the same disks.
\* From storage this holds unless a copy was broken off after its first file
\* (the directory exists then, and is taken for the model); from the registry
\* it holds without exception.
WeightsInPlace ==
  pipeline = "ready" =>
    \A n \in Nodes, m \in there :
      \/ disk[n][m] = "whole" \/ <<n, m>> \in missing
      \/ source # "nvcf" /\ <<n, m>> \in cut
=============================================================================
