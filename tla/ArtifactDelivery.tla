-------------------------- MODULE ArtifactDelivery --------------------------
(***************************************************************************)
(* ArtifactDelivery.collect (core/utils/artifacts/delivery.py) and the     *)
(* RayFileTransport it uses (collector.py): the driver brings the files    *)
(* that the workers staged on every node to one destination and then       *)
(* removes its own staging directory.  To a local destination each node    *)
(* streams its files to the driver in chunks; to a remote one each node    *)
(* uploads them itself.                                                    *)
(*                                                                         *)
(* Files have distinct names (they carry host and pid) and do not change   *)
(* while they are collected.  A small file is one chunk, a large file two. *)
(***************************************************************************)
EXTENDS Naturals, FiniteSets

CONSTANTS Nodes,
          Driver,   \* the node of the driver
          Files,
          HomeOf,   \* the node that staged each file
          Large,    \* files of more than one chunk
          None

ASSUME DeliveryAssumption ==
  /\ Driver \in Nodes
  /\ HomeOf \in [Files -> Nodes]
  /\ Large \subseteq Files
  /\ None \notin Files

VARIABLES
  strict,     \* _strict
  remote,     \* writer.is_remote
  collected,  \* _collected
  calls,      \* calls of collect so far: an explicit one and the shutdown hook
  driver,     \* idle, seeding the generators, or collecting
  awaited,    \* nodes whose next(state.gen) has not returned
  live,       \* nodes that are up
  staged,     \* files still in a staging directory
  dest,       \* each file at the destination: absent, partial or whole
  node,       \* the node's actor, or what the driver recorded of it
  hung,       \* actors of this call that do nothing more
  todo,       \* files the node has not dealt with in this call
  current,    \* current_handle: the file of the node that the driver has open
  errors      \* uploads that failed: the errors of _NodeUploadResult

vars == <<strict, remote, collected, calls, driver, awaited, live, staged, dest, node,
          hung, todo, current, errors>>
modeVars == <<strict, remote>>
callVars == <<collected, calls>>
driverVars == <<driver, awaited>>

FilesOf(n) == {f \in Files : HomeOf[f] = n}

\* The two callers of collect: the consumer and the pre-shutdown hook.
MaxCalls == 2

Init ==
  /\ strict \in BOOLEAN
  /\ remote \in BOOLEAN
  /\ collected = FALSE
  /\ calls = 0
  /\ driver = "idle"
  /\ awaited = {}
  /\ live = Nodes
  /\ staged = Files
  /\ dest = [f \in Files |-> "absent"]
  /\ node = [n \in Nodes |-> "off"]
  /\ hung = {}
  /\ todo = [n \in Nodes |-> {}]
  /\ current = [n \in Nodes |-> None]
  /\ errors = {}

\* The actors of this call whose outcome the driver does not know.
Out == {n \in Nodes : node[n] \in {"up", "answered", "broken"}}

\* A node of this call that is there and has not been given up.
Works(n) == driver # "idle" /\ node[n] = "up" /\ n \in live

\* Its actor goes on.
Runs(n) == Works(n) /\ n \notin hung

\* The driver is at ray.wait, which returns after a timeout.
AtWait == driver = "collecting" /\ awaited = {}

-----------------------------------------------------------------------------
(* collect                                                                 *)

\* Mutant: no look at _collected.
CallAnyway ==
  /\ driver = "idle"
  /\ calls < MaxCalls
  /\ calls' = calls + 1
  /\ driver' = IF remote THEN "collecting" ELSE "seeding"
  /\ awaited' = IF remote THEN {} ELSE live
  /\ node' = [n \in Nodes |-> IF n \in live THEN "up" ELSE "off"]
  /\ todo' = [n \in Nodes |-> FilesOf(n) \cap staged]
  /\ errors' = {}
  /\ UNCHANGED <<modeVars, collected, live, staged, dest, hung, current>>

\* One actor per live node: an uploader, or a generator whose first chunk
\* is asked for at once (_seed_generators).
Call ==
  /\ driver = "idle"
  /\ calls < MaxCalls
  /\ ~collected
  /\ calls' = calls + 1
  /\ driver' = IF remote THEN "collecting" ELSE "seeding"
  /\ awaited' = IF remote THEN {} ELSE live
  /\ node' = [n \in Nodes |-> IF n \in live THEN "up" ELSE "off"]
  /\ todo' = [n \in Nodes |-> FilesOf(n) \cap staged]
  /\ errors' = {}
  /\ UNCHANGED <<modeVars, collected, live, staged, dest, hung, current>>

CallAgain ==
  /\ driver = "idle"
  /\ calls < MaxCalls
  /\ collected
  /\ calls' = calls + 1
  /\ UNCHANGED <<modeVars, collected, driverVars, live, staged, dest, node, hung,
                 todo, current, errors>>

\* The way out of a call that failed: the actors are killed, open files are
\* closed as they are, and the next call may try again.
Abort ==
  /\ driver' = "idle" /\ awaited' = {}
  /\ node' = [n \in Nodes |-> IF n \in Out THEN "off" ELSE node[n]]
  /\ hung' = {}
  /\ current' = [n \in Nodes |-> None]
  /\ UNCHANGED <<modeVars, collected, calls, live, staged, dest, todo, errors>>

\* Mutant: the staging directory is removed on the way out, too.
BreaksAndCleans ==
  /\ driver # "idle"
  /\ driver' = "idle" /\ awaited' = {}
  /\ node' = [n \in Nodes |-> IF n \in Out THEN "off" ELSE node[n]]
  /\ hung' = {}
  /\ current' = [n \in Nodes |-> None]
  /\ staged' = staged \ FilesOf(Driver)
  /\ UNCHANGED <<modeVars, collected, calls, live, dest, todo, errors>>

\* Anything else raises: the StorageWriter, a first next(gen), ray.wait.
\* Strict re-raises, lenient returns 0; neither sets _collected.
Breaks ==
  /\ driver # "idle"
  /\ Abort

\* Mutant: strict mode does not look at nodes_failed.
FinishUnchecked ==
  /\ AtWait
  /\ Out = {}
  /\ driver' = "idle"
  /\ collected' = TRUE
  /\ staged' \in {staged \ FilesOf(Driver), staged}
  /\ hung' = {}
  /\ UNCHANGED <<modeVars, calls, awaited, live, dest, node, todo, current, errors>>

\* Every node is accounted for: set _collected, and remove the driver's
\* staging directory (or fail to, which is logged).
Finish ==
  /\ AtWait
  /\ Out = {}
  /\ ~(strict /\ \E n \in Nodes : node[n] = "failed")
  /\ driver' = "idle"
  /\ collected' = TRUE
  /\ staged' \in {staged \ FilesOf(Driver), staged}
  /\ hung' = {}
  /\ UNCHANGED <<modeVars, calls, awaited, live, dest, node, todo, current, errors>>

\* _collect_local in strict mode looks at nodes_failed after the transport.
FinishStrictFailed ==
  /\ AtWait
  /\ Out = {}
  /\ strict /\ \E n \in Nodes : node[n] = "failed"
  /\ Abort

-----------------------------------------------------------------------------
(* _collect_local: chunks of the nodes interleave at the driver.  After each   *)
(* it waits for the next one of that node, and for nothing else.               *)

\* next(state.gen) of node n returns, and with the last of them the seeding.
NextReturns(n) ==
  /\ ~remote
  /\ node[n] = "up"
  /\ n \in awaited
  /\ awaited' = awaited \ {n}
  /\ driver' = IF awaited = {n} THEN "collecting" ELSE driver

\* It returns a chunk, or what raises in ray.get when the node is gone.
Draw(n) ==
  /\ NextReturns(n)
  /\ (Runs(n) /\ todo[n] # {}) \/ n \notin live
  /\ UNCHANGED <<modeVars, callVars, live, staged, dest, node, hung, todo, current, errors>>

\* A new arcname: open(dest, "wb"), and for a small file all of it.
FirstChunk(n, f) ==
  /\ ~remote
  /\ AtWait
  /\ Works(n)
  /\ current[n] = None
  /\ f \in todo[n]
  /\ IF f \in Large
     THEN /\ dest' = [dest EXCEPT ![f] = "partial"]
          /\ current' = [current EXCEPT ![n] = f]
          /\ UNCHANGED todo
     ELSE /\ dest' = [dest EXCEPT ![f] = "whole"]
          /\ todo' = [todo EXCEPT ![n] = @ \ {f}]
          /\ UNCHANGED current
  /\ awaited' = {n}
  /\ UNCHANGED <<modeVars, callVars, driver, live, staged, node, hung, errors>>

\* The chunk with is_last: close, and count the file.
LastChunk(n) ==
  /\ ~remote
  /\ AtWait
  /\ Works(n)
  /\ current[n] # None
  /\ dest' = [dest EXCEPT ![current[n]] = "whole"]
  /\ todo' = [todo EXCEPT ![n] = @ \ {current[n]}]
  /\ current' = [current EXCEPT ![n] = None]
  /\ awaited' = {n}
  /\ UNCHANGED <<modeVars, callVars, driver, live, staged, node, hung, errors>>

\* Mutant: a stream that stops in the middle of a file counts as its end.
GeneratorStops(n) ==
  /\ NextReturns(n)
  /\ Runs(n)
  /\ node' = [node EXCEPT ![n] = "ok"]
  /\ current' = [current EXCEPT ![n] = None]
  /\ UNCHANGED <<modeVars, callVars, live, staged, dest, hung, todo, errors>>

\* StopIteration
GeneratorEnds(n) ==
  /\ NextReturns(n)
  /\ Runs(n)
  /\ todo[n] = {}
  /\ node' = [node EXCEPT ![n] = "ok"]
  /\ current' = [current EXCEPT ![n] = None]
  /\ UNCHANGED <<modeVars, callVars, live, staged, dest, hung, todo, errors>>

\* ray.get or next raises because the actor or its node is gone, or open or
\* write raises on the driver: this node only is given up.
StreamFails(n) ==
  /\ ~remote
  /\ driver = "collecting"
  /\ awaited \subseteq {n}
  /\ node[n] = "up"
  /\ awaited' = {}
  /\ node' = [node EXCEPT ![n] = "failed"]
  /\ current' = [current EXCEPT ![n] = None]
  /\ UNCHANGED <<modeVars, callVars, driver, live, staged, dest, hung, todo, errors>>

-----------------------------------------------------------------------------
(* _collect_remote: the uploaders of the nodes run on their own.           *)

Upload(n, f) ==
  /\ remote
  /\ Runs(n)
  /\ f \in todo[n]
  /\ dest' = [dest EXCEPT ![f] = "whole"]
  /\ todo' = [todo EXCEPT ![n] = @ \ {f}]
  /\ UNCHANGED <<modeVars, callVars, driverVars, live, staged, node, hung, current, errors>>

\* Mutant: a failed upload is not recorded.
UploadFailsSilently(n, f) ==
  /\ remote
  /\ Runs(n)
  /\ f \in todo[n]
  /\ todo' = [todo EXCEPT ![n] = @ \ {f}]
  /\ UNCHANGED <<modeVars, callVars, driverVars, live, staged, dest, node, hung, current, errors>>

\* After the retries of upload_file_to.  Strict: the actor raises.
UploadFails(n, f) ==
  /\ remote
  /\ Runs(n)
  /\ f \in todo[n]
  /\ IF strict
     THEN node' = [node EXCEPT ![n] = "broken"] /\ UNCHANGED <<todo, errors>>
     ELSE /\ errors' = errors \cup {f}
          /\ todo' = [todo EXCEPT ![n] = @ \ {f}]
          /\ UNCHANGED node
  /\ UNCHANGED <<modeVars, callVars, driverVars, live, staged, dest, hung, current>>

UploadsEnd(n) ==
  /\ remote
  /\ Runs(n)
  /\ todo[n] = {}
  /\ node' = [node EXCEPT ![n] = "answered"]
  /\ UNCHANGED <<modeVars, callVars, driverVars, live, staged, dest, hung, todo, current, errors>>

\* The driver's ray.get for one ready future.
TakeResult(n) ==
  /\ driver = "collecting"
  /\ node[n] = "answered"
  /\ node' = [node EXCEPT ![n] = "ok"]
  /\ UNCHANGED <<modeVars, callVars, driverVars, live, staged, dest, hung, todo, current, errors>>

\* It raises: the uploader raised, or died.
TakeFailure(n) ==
  /\ driver = "collecting"
  /\ remote
  /\ node[n] = "broken" \/ (node[n] = "up" /\ n \notin live)
  /\ IF strict
     THEN Abort
     ELSE /\ node' = [node EXCEPT ![n] = "failed"]
          /\ UNCHANGED <<modeVars, callVars, driverVars, live, staged, dest, hung, todo, current, errors>>

-----------------------------------------------------------------------------
(* Both: the stall guard, and nodes that go away.                          *)

\* Mutant: the loop keeps waiting.
WaitOn ==
  /\ AtWait
  /\ Out # {}
  /\ UNCHANGED vars

\* Nothing arrived at ray.wait for the whole stall budget: what is left is
\* given up.  The transport is always lenient; the remote loop raises in
\* strict mode.
Stall ==
  /\ AtWait
  /\ Out # {}
  /\ IF remote /\ strict
     THEN Abort
     ELSE /\ node' = [n \in Nodes |-> IF n \in Out THEN "failed" ELSE node[n]]
          /\ current' = [n \in Nodes |-> IF n \in Out THEN None ELSE current[n]]
          /\ UNCHANGED <<modeVars, callVars, driverVars, live, staged, dest, hung, todo, errors>>

\* The actor neither yields nor uploads nor answers again.
NodeHangs(n) ==
  /\ Runs(n)
  /\ hung' = hung \cup {n}
  /\ UNCHANGED <<modeVars, callVars, driverVars, live, staged, dest, node, todo, current, errors>>

NodeDies(n) ==
  /\ n \in live \ {Driver}
  /\ live' = live \ {n}
  /\ staged' = staged \ FilesOf(n)
  /\ UNCHANGED <<modeVars, callVars, driverVars, dest, node, hung, todo, current, errors>>

-----------------------------------------------------------------------------
DriverStep(n) ==
  \/ Draw(n) \/ LastChunk(n) \/ GeneratorEnds(n) \/ StreamFails(n)
  \/ UploadsEnd(n) \/ TakeResult(n) \/ TakeFailure(n)
  \/ \E f \in Files : FirstChunk(n, f) \/ Upload(n, f) \/ UploadFails(n, f)

Next ==
  \/ Call \/ CallAgain \/ Breaks \/ Finish \/ FinishStrictFailed \/ Stall
  \/ \E n \in Nodes : DriverStep(n) \/ NodeHangs(n) \/ NodeDies(n)

Spec == Init /\ [][Next]_vars

\* The driver's loop goes on, the stall guard is a clock, and a generator that
\* does not hang yields or ends: of hung actors nothing is expected.
Fairness ==
  /\ WF_vars(Finish \/ FinishStrictFailed)
  /\ WF_vars(Stall)
  /\ \A n \in Nodes : WF_vars(Draw(n) \/ GeneratorEnds(n))

FairSpec == Spec /\ Fairness

-----------------------------------------------------------------------------
(* Properties.                                                             *)

TypeOK ==
  /\ strict \in BOOLEAN /\ remote \in BOOLEAN /\ collected \in BOOLEAN
  /\ calls \in 0 .. MaxCalls
  /\ driver \in {"idle", "seeding", "collecting"}
  /\ awaited \subseteq Nodes /\ hung \subseteq Nodes
  /\ live \subseteq Nodes
  /\ staged \subseteq Files
  /\ dest \in [Files -> {"absent", "partial", "whole"}]
  /\ node \in [Nodes -> {"off", "up", "answered", "broken", "ok", "failed"}]
  /\ todo \in [Nodes -> SUBSET Files]
  /\ current \in [Nodes -> Files \cup {None}]
  /\ errors \subseteq Files
  /\ \A n \in Nodes : current[n] # None => node[n] = "up" /\ HomeOf[current[n]] = n

\* Partial delivery is never silent: what a node that counts as delivered had
\* staged is at the destination, whole, or among the reported errors.
Accounted ==
  collected =>
    \A f \in Files :
      node[HomeOf[f]] = "ok" => dest[f] = "whole" \/ f \in errors

\* In strict mode collect succeeds only when every node it asked delivered
\* every file.
StrictDelivers ==
  collected /\ strict =>
    \A f \in Files : node[HomeOf[f]] # "off" => dest[f] = "whole"

\* A call that failed can be made again: the driver's files are still there.
RetryPossible == ~collected => FilesOf(Driver) \subseteq staged

\* The second of the two callers changes nothing: a delivered file is never
\* opened for writing again after a successful collect.
CollectedOnce == [][collected => UNCHANGED <<dest, staged \cap FilesOf(Driver)>>]_vars

\* Every call returns, whatever the nodes do, but for one case that the stall guard does not
\* reach: to a local destination the driver waits in next(state.gen), which has no timeout, for
\* a node that is up and hangs.
CallReturns ==
  driver # "idle" ~> driver = "idle" \/ (~remote /\ awaited \cap hung \cap live # {})
=============================================================================
