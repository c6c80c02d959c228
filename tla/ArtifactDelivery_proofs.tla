----------------------- MODULE ArtifactDelivery_proofs -----------------------
(* What ArtifactDelivery.collect promises, for any nodes and files: the      *)
(* types, that nothing is lost without a report, that strict success is      *)
(* complete, and that a failed call can be made again.                       *)
EXTENDS MCArtifactDelivery, SequenceLemmas

\* How far a call has come, as the driver and the actors see it.
CallInv ==
  /\ driver # "idle" => ~collected
  /\ driver = "idle" => \A n \in Nodes : node[n] \notin {"up", "answered", "broken"}
  /\ remote => \A n \in Nodes : current[n] = None
  /\ Driver \in live
  /\ ~collected => \A n \in live : FilesOf(n) \subseteq staged

\* What a node of the call has not dealt with, has arrived or is reported.
FileInv ==
  /\ \A n \in Nodes : todo[n] \subseteq FilesOf(n)
  /\ \A n \in Nodes : node[n] \in {"answered", "ok"} => todo[n] = {}
  /\ \A f \in Files : node[HomeOf[f]] \in {"up", "answered", "ok"} =>
       f \in todo[HomeOf[f]] \/ dest[f] = "whole" \/ f \in errors

\* Strict mode reports no errors of single files, and succeeds without failed nodes.
StrictInv ==
  strict => /\ errors = {}
            /\ collected => \A n \in Nodes : node[n] \in {"off", "ok"}

IInv == TypeOK /\ CallInv /\ FileInv /\ StrictInv

LEMMA InitInv == Init => IInv
<1> SUFFICES ASSUME Init PROVE IInv
  OBVIOUS
<1>1. TypeOK
  <2>1. calls \in 0 .. MaxCalls
    BY DEF Init, MaxCalls
  <2>2. /\ strict \in BOOLEAN /\ remote \in BOOLEAN /\ collected \in BOOLEAN
        /\ driver \in {"idle", "seeding", "collecting"} /\ live \subseteq Nodes
        /\ awaited \subseteq Nodes /\ hung \subseteq Nodes
        /\ staged \subseteq Files /\ errors \subseteq Files
    BY DEF Init
  <2>3. /\ dest \in [Files -> {"absent", "partial", "whole"}]
        /\ node \in [Nodes -> {"off", "up", "answered", "broken", "ok", "failed"}]
        /\ todo \in [Nodes -> SUBSET Files]
        /\ current \in [Nodes -> Files \cup {None}]
        /\ \A n \in Nodes : current[n] = None
    BY DEF Init
  <2> QED
    BY <2>1, <2>2, <2>3 DEF TypeOK
<1>2. CallInv
  BY DeliveryAssumption DEF Init, CallInv, FilesOf, DeliveryAssumption
<1>3. FileInv
  <2>1. \A f \in Files : HomeOf[f] \in Nodes
    BY DeliveryAssumption DEF DeliveryAssumption
  <2> QED
    BY <2>1 DEF Init, FileInv, FilesOf
<1>4. StrictInv
  BY DEF Init, StrictInv
<1> QED
  BY <1>1, <1>2, <1>3, <1>4 DEF IInv

\* The invariant is what the properties say, and more.
LEMMA InvImplies ==
  IInv => TypeOK /\ Accounted /\ StrictDelivers /\ RetryPossible
<1> SUFFICES ASSUME IInv
             PROVE  TypeOK /\ Accounted /\ StrictDelivers /\ RetryPossible
  OBVIOUS
<1>1. \A f \in Files : HomeOf[f] \in Nodes
  BY DeliveryAssumption DEF DeliveryAssumption
<1>2. Accounted
  BY <1>1 DEF IInv, FileInv, Accounted
<1>3. StrictDelivers
  BY <1>1 DEF IInv, FileInv, StrictInv, StrictDelivers
<1>4. RetryPossible
  BY DEF IInv, CallInv, RetryPossible
<1> QED
  BY <1>2, <1>3, <1>4 DEF IInv

\* The ways out of a call that failed.
LEMMA AbortInv == IInv /\ driver # "idle" /\ Abort => IInv'
<1> SUFFICES ASSUME IInv, driver # "idle", Abort PROVE IInv'
  OBVIOUS
<1>1. TypeOK'
  BY DEF IInv, TypeOK, Abort, Out, modeVars
<1>2. CallInv'
  BY DEF IInv, TypeOK, CallInv, Abort, Out, modeVars, FilesOf
<1>3. FileInv'
  BY DeliveryAssumption DEF IInv, TypeOK, FileInv, Abort, Out, modeVars, FilesOf, DeliveryAssumption
<1>4. StrictInv'
  BY DEF IInv, TypeOK, CallInv, StrictInv, Abort, Out, modeVars
<1> QED
  BY <1>1, <1>2, <1>3, <1>4 DEF IInv

\* The call goes on.
Goes ==
  /\ driver # "idle" /\ driver' \in {"seeding", "collecting"}
  /\ awaited' \subseteq Nodes

\* A step that gives one node up.
LEMMA GiveUpInv ==
  ASSUME IInv, Goes, NEW n \in Nodes, NEW to \in {"failed", "broken"},
         node' = [node EXCEPT ![n] = to], current' = [current EXCEPT ![n] = None],
         UNCHANGED <<modeVars, callVars, live, staged, dest, hung, todo, errors>>
  PROVE  IInv'
<1>1. TypeOK'
  BY DEF IInv, TypeOK, modeVars, callVars, Goes
<1>2. CallInv'
  BY DEF IInv, TypeOK, CallInv, modeVars, callVars, Goes, FilesOf
<1>3. FileInv'
  BY DeliveryAssumption DEF IInv, TypeOK, FileInv, modeVars, callVars, Goes, FilesOf, DeliveryAssumption
<1>4. StrictInv'
  BY DEF IInv, TypeOK, CallInv, StrictInv, modeVars, callVars, Goes
<1> QED
  BY <1>1, <1>2, <1>3, <1>4 DEF IInv

\* A step that closes the account of a node that has nothing left to do.
LEMMA CloseInv ==
  ASSUME IInv, Goes, NEW n \in Nodes, NEW to \in {"answered", "ok"},
         todo[n] = {}, node[n] \in {"up", "answered"},
         node' = [node EXCEPT ![n] = to], current' = [current EXCEPT ![n] = None],
         UNCHANGED <<modeVars, callVars, live, staged, dest, hung, todo, errors>>
  PROVE  IInv'
<1>1. TypeOK'
  BY DEF IInv, TypeOK, modeVars, callVars, Goes
<1>2. CallInv'
  BY DEF IInv, TypeOK, CallInv, modeVars, callVars, Goes, FilesOf
<1>3. FileInv'
  BY DeliveryAssumption DEF IInv, TypeOK, FileInv, modeVars, callVars, Goes, FilesOf, DeliveryAssumption
<1>4. StrictInv'
  BY DEF IInv, TypeOK, CallInv, StrictInv, modeVars, callVars, Goes
<1> QED
  BY <1>1, <1>2, <1>3, <1>4 DEF IInv

\* A step that deals with a file: it arrives, or its failure is reported.
LEMMA FileDoneInv ==
  ASSUME IInv, Goes, NEW n \in Nodes, NEW f \in FilesOf(n),
         \/ dest' = [dest EXCEPT ![f] = "whole"] /\ errors' = errors
         \/ dest' = dest /\ errors' = errors \cup {f} /\ ~strict,
         todo' = [todo EXCEPT ![n] = @ \ {f}],
         current' = current \/ current' = [current EXCEPT ![n] = None],
         UNCHANGED <<modeVars, callVars, live, staged, node, hung>>
  PROVE  IInv'
<1>1. f \in Files /\ HomeOf[f] = n
  BY DEF FilesOf
<1>2. TypeOK'
  BY <1>1 DEF IInv, TypeOK, modeVars, callVars, Goes
<1>3. CallInv'
  BY DEF IInv, TypeOK, CallInv, modeVars, callVars, Goes, FilesOf
<1>4. FileInv'
  BY <1>1, DeliveryAssumption DEF IInv, TypeOK, FileInv, modeVars, callVars, Goes, FilesOf, DeliveryAssumption
<1>5. StrictInv'
  BY DEF IInv, TypeOK, CallInv, StrictInv, modeVars, callVars, Goes
<1> QED
  BY <1>2, <1>3, <1>4, <1>5 DEF IInv

\* Nobody's file has two homes.
LEMMA OneHome == \A m, n \in Nodes : m # n => FilesOf(m) \cap FilesOf(n) = {}
  BY DEF FilesOf

\* Every step keeps the invariant.
LEMMA NextInv == IInv /\ [Next]_vars => IInv'
<1> SUFFICES ASSUME IInv, [Next]_vars PROVE IInv'
  OBVIOUS
<1> USE DeliveryAssumption DEF DeliveryAssumption
<1>1. CASE Call
  <2>1. TypeOK'
    BY <1>1 DEF IInv, TypeOK, CallInv, Call, FilesOf, MaxCalls, modeVars
  <2>2. CallInv'
    BY <1>1 DEF IInv, TypeOK, CallInv, Call, FilesOf, modeVars
  <2>3. FileInv'
    BY <1>1 DEF IInv, TypeOK, CallInv, Call, FileInv, FilesOf
  <2>4. StrictInv'
    BY <1>1 DEF IInv, StrictInv, Call, modeVars
  <2> QED
    BY <2>1, <2>2, <2>3, <2>4 DEF IInv
<1>2. CASE CallAgain
  <2>1. TypeOK'
    BY <1>2 DEF IInv, TypeOK, CallAgain, MaxCalls, modeVars, driverVars
  <2>2. CallInv' /\ FileInv' /\ StrictInv'
    BY <1>2 DEF IInv, CallInv, FileInv, StrictInv, CallAgain, FilesOf, modeVars, driverVars
  <2> QED
    BY <2>1, <2>2 DEF IInv
<1>3. CASE Breaks
  BY <1>3, AbortInv DEF Breaks
<1>4. CASE FinishStrictFailed
  BY <1>4, AbortInv DEF FinishStrictFailed, AtWait
<1>5. CASE Finish
  <2>1. \A n \in Nodes : node[n] \in {"off", "ok", "failed"}
    BY <1>5 DEF Finish, Out, IInv, TypeOK
  <2>2. TypeOK'
    BY <1>5 DEF IInv, TypeOK, Finish, modeVars
  <2>3. CallInv'
    BY <1>5, <2>1 DEF IInv, CallInv, Finish, modeVars
  <2>4. FileInv'
    BY <1>5 DEF IInv, FileInv, Finish, FilesOf
  <2>5. StrictInv'
    BY <1>5, <2>1 DEF IInv, StrictInv, Finish, modeVars
  <2> QED
    BY <2>2, <2>3, <2>4, <2>5 DEF IInv
<1>6. CASE Stall
  <2>1. CASE remote /\ strict
    BY <1>6, <2>1, AbortInv DEF Stall, AtWait
  <2>2. CASE ~ (remote /\ strict)
    <3>1. TypeOK'
      BY <1>6, <2>2 DEF IInv, TypeOK, Stall, AtWait, Out, modeVars, callVars, driverVars
    <3>2. CallInv'
      BY <1>6, <2>2 DEF IInv, TypeOK, CallInv, Stall, AtWait, Out, modeVars, callVars, driverVars, FilesOf
    <3>3. FileInv'
      BY <1>6, <2>2 DEF IInv, TypeOK, FileInv, Stall, Out, modeVars, callVars, driverVars, FilesOf
    <3>4. StrictInv'
      BY <1>6, <2>2 DEF IInv, TypeOK, CallInv, StrictInv, Stall, AtWait, Out, modeVars, callVars, driverVars
    <3> QED
      BY <3>1, <3>2, <3>3, <3>4 DEF IInv
  <2> QED
    BY <2>1, <2>2
<1>7. ASSUME NEW n \in Nodes, NodeDies(n) PROVE IInv'
  <2>1. TypeOK'
    BY <1>7 DEF IInv, TypeOK, NodeDies, modeVars, callVars, driverVars
  <2>2. CallInv'
    BY <1>7, OneHome DEF IInv, TypeOK, CallInv, NodeDies, modeVars, callVars, driverVars, FilesOf
  <2>3. FileInv' /\ StrictInv'
    BY <1>7 DEF IInv, FileInv, StrictInv, NodeDies, modeVars, callVars, driverVars, FilesOf
  <2> QED
    BY <2>1, <2>2, <2>3 DEF IInv
<1>8. ASSUME NEW n \in Nodes, NEW f \in Files, FirstChunk(n, f) PROVE IInv'
  <2>1. f \in FilesOf(n) /\ Goes
    BY <1>8 DEF FirstChunk, AtWait, Goes, IInv, FileInv
  <2>2. CASE f \in Large
    <3>1. TypeOK'
      BY <1>8, <2>1, <2>2 DEF IInv, TypeOK, FirstChunk, Works, Goes, FilesOf, modeVars, callVars
    <3>2. CallInv' /\ StrictInv'
      BY <1>8, <2>1, <2>2 DEF IInv, CallInv, StrictInv, FirstChunk, Goes, modeVars, callVars, driverVars, FilesOf
    <3>3. FileInv'
      BY <1>8, <2>1, <2>2 DEF IInv, TypeOK, FileInv, FirstChunk, FilesOf
    <3> QED
      BY <3>1, <3>2, <3>3 DEF IInv
  <2>3. CASE f \notin Large
    BY <1>8, <2>1, <2>3, FileDoneInv DEF FirstChunk
  <2> QED
    BY <2>2, <2>3
<1>9. ASSUME NEW n \in Nodes, LastChunk(n) PROVE IInv'
  <2>1. current[n] \in FilesOf(n) /\ Goes
    BY <1>9 DEF LastChunk, AtWait, Goes, IInv, TypeOK, FilesOf
  <2> QED
    BY <1>9, <2>1, FileDoneInv DEF LastChunk
<1>10. ASSUME NEW n \in Nodes, GeneratorEnds(n) PROVE IInv'
  <2>1. Goes /\ node[n] = "up"
    BY <1>10 DEF GeneratorEnds, NextReturns, Runs, Works, Goes, IInv, TypeOK
  <2> QED
    BY <1>10, <2>1, CloseInv DEF GeneratorEnds
<1>11. ASSUME NEW n \in Nodes, StreamFails(n) PROVE IInv'
  <2>1. Goes
    BY <1>11 DEF StreamFails, Goes
  <2> QED
    BY <1>11, <2>1, GiveUpInv DEF StreamFails
<1>12. ASSUME NEW n \in Nodes, NEW f \in Files, Upload(n, f) PROVE IInv'
  <2>1. f \in FilesOf(n) /\ Goes
    BY <1>12 DEF Upload, Runs, Works, Goes, driverVars, IInv, TypeOK, FileInv
  <2> QED
    BY <1>12, <2>1, FileDoneInv DEF Upload
<1>13. ASSUME NEW n \in Nodes, NEW f \in Files, UploadFails(n, f) PROVE IInv'
  <2>1. /\ f \in FilesOf(n) /\ Goes
        /\ current[n] = None /\ current = [current EXCEPT ![n] = None]
    BY <1>13 DEF UploadFails, Runs, Works, Goes, driverVars, IInv, FileInv, CallInv, TypeOK
  <2>2. CASE strict
    BY <1>13, <2>1, <2>2, GiveUpInv DEF UploadFails
  <2>3. CASE ~strict
    BY <1>13, <2>1, <2>3, FileDoneInv DEF UploadFails
  <2> QED
    BY <2>2, <2>3
<1>14. ASSUME NEW n \in Nodes, UploadsEnd(n) PROVE IInv'
  <2>1. current = [current EXCEPT ![n] = None] /\ Goes
    BY <1>14 DEF UploadsEnd, Runs, Works, Goes, driverVars, IInv, CallInv, TypeOK
  <2> QED
    BY <1>14, <2>1, CloseInv DEF UploadsEnd, Runs, Works
<1>15. ASSUME NEW n \in Nodes, TakeResult(n) PROVE IInv'
  <2>1. current = [current EXCEPT ![n] = None] /\ todo[n] = {} /\ Goes
    BY <1>15 DEF TakeResult, Goes, driverVars, IInv, FileInv, TypeOK
  <2> QED
    BY <1>15, <2>1, CloseInv DEF TakeResult
<1>16. ASSUME NEW n \in Nodes, TakeFailure(n) PROVE IInv'
  <2>1. CASE strict
    BY <1>16, <2>1, AbortInv DEF TakeFailure
  <2>2. CASE ~strict
    <3>1. current = [current EXCEPT ![n] = None] /\ Goes
      BY <1>16, <2>2 DEF TakeFailure, Goes, driverVars, IInv, CallInv, TypeOK
    <3> QED
      BY <1>16, <2>2, <3>1, GiveUpInv DEF TakeFailure
  <2> QED
    BY <2>1, <2>2
<1>17. ASSUME NEW n \in Nodes, Draw(n) PROVE IInv'
  <2>1. UNCHANGED <<modeVars, callVars, live, staged, dest, node, hung, todo, current, errors>> /\ Goes
    BY <1>17 DEF Draw, NextReturns, Goes, IInv, TypeOK, CallInv
  <2>2. TypeOK'
    BY <2>1 DEF IInv, TypeOK, Goes, modeVars, callVars
  <2>3. CallInv' /\ FileInv' /\ StrictInv'
    BY <2>1 DEF IInv, CallInv, FileInv, StrictInv, Goes, modeVars, callVars, FilesOf
  <2> QED
    BY <2>2, <2>3 DEF IInv
<1>18. ASSUME NEW n \in Nodes, NodeHangs(n) PROVE IInv'
  <2>1. TypeOK'
    BY <1>18 DEF IInv, TypeOK, NodeHangs, modeVars, callVars, driverVars
  <2>2. CallInv' /\ FileInv' /\ StrictInv'
    BY <1>18 DEF IInv, CallInv, FileInv, StrictInv, NodeHangs, modeVars, callVars, driverVars, FilesOf
  <2> QED
    BY <2>1, <2>2 DEF IInv
<1>19. CASE UNCHANGED vars
  BY <1>19 DEF vars, modeVars, callVars, IInv, TypeOK, CallInv, FileInv, StrictInv, FilesOf
<1> QED
  BY <1>1, <1>2, <1>3, <1>4, <1>5, <1>6, <1>7, <1>8, <1>9, <1>10, <1>11, <1>12, <1>13, <1>14,
     <1>15, <1>16, <1>17, <1>18, <1>19 DEF Next, DriverStep

LEMMA Invariance == Spec => []IInv
  BY InitInv, NextInv, PTL DEF Spec

\* Type correctness of the driver and the actors.
THEOREM Typing == Spec => []TypeOK
  BY Invariance, InvImplies, PTL

\* After a collection, every staged file of a node that counts as delivered is at the
\* destination or among the reported errors.
THEOREM NothingLostSilently == Spec => []Accounted
  BY Invariance, InvImplies, PTL

\* Strict success means that everything of every node that was asked arrived.
THEOREM StrictIsComplete == Spec => []StrictDelivers
  BY Invariance, InvImplies, PTL

\* As long as no call has succeeded, the driver's files stay for the next one.
THEOREM CallCanBeRepeated == Spec => []RetryPossible
  BY Invariance, InvImplies, PTL

\* After a success no file is written and nothing of the driver is removed.
THEOREM CollectsOnce == Spec => CollectedOnce
<1>1. IInv /\ [Next]_vars => [collected => UNCHANGED <<dest, staged \cap FilesOf(Driver)>>]_vars
  <2> SUFFICES ASSUME IInv, [Next]_vars, collected
               PROVE  UNCHANGED <<dest, staged \cap FilesOf(Driver)>>
    OBVIOUS
  <2>1. driver = "idle" /\ \A n \in Nodes : node[n] \notin {"up", "answered", "broken"}
    BY DEF IInv, CallInv, TypeOK
  <2>2. ASSUME NEW n \in Nodes, NodeDies(n)
        PROVE  UNCHANGED <<dest, staged \cap FilesOf(Driver)>>
    <3>1. FilesOf(n) \cap FilesOf(Driver) = {}
      BY <2>2, OneHome, DeliveryAssumption DEF NodeDies, DeliveryAssumption
    <3> QED
      BY <2>2, <3>1 DEF NodeDies, FilesOf
  <2>3. ASSUME NEW n \in Nodes, DriverStep(n) \/ NodeHangs(n)
        PROVE  UNCHANGED <<dest, staged \cap FilesOf(Driver)>>
    <3>1. ~Works(n) /\ ~Runs(n) /\ ~AtWait /\ node[n] # "up"
      BY <2>1 DEF Works, Runs, AtWait
    <3> QED
      BY <2>1, <2>3, <3>1 DEF DriverStep, Draw, NextReturns, FirstChunk, LastChunk, GeneratorEnds,
         StreamFails, Upload, UploadFails, UploadsEnd, TakeResult, TakeFailure, NodeHangs
  <2>4. CASE Call \/ CallAgain \/ Breaks \/ Finish \/ FinishStrictFailed \/ Stall \/ UNCHANGED vars
    BY <2>1, <2>4 DEF Call, CallAgain, Breaks, Finish, FinishStrictFailed, Stall, AtWait, vars, FilesOf
  <2> QED
    BY <2>2, <2>3, <2>4 DEF Next
<1> QED
  BY <1>1, Invariance, PTL DEF Spec, CollectedOnce

-----------------------------------------------------------------------------
(* The weights of the models (ModelWeights), for any nodes, models and       *)
(* number of pipelines: TransferSpec has them among its parts.               *)

WeightTypes ==
  /\ source \in {"remote", "local", "nvcf"}
  /\ there \subseteq Models
  /\ disk \in [Nodes -> [Models -> {"absent", "empty", "partial", "whole"}]]
  /\ tracked \in [Nodes -> SUBSET Models]
  /\ tornFiles \subseteq Nodes
  /\ job \in [Nodes -> [Models -> {"todo", "copying", "fetched", "moved", "marking", "done"}]]
  /\ worker \in [Nodes -> {"idle", "list", "rewrite", "work", "answered", "raised"}]
  /\ missing \subseteq Nodes \X Models
  /\ cut \subseteq Nodes \X Models
  /\ pipeline \in {"down", "up", "ready"}
  /\ pipelines \in Nat

\* What is broken off is remembered in cut; a copy under way is one of this run.
CopyHolds(n, m) ==
  source # "nvcf" =>
    /\ worker[n] # "list" /\ job[n][m] \in {"todo", "copying", "done"}
    /\ m \in there /\ disk[n][m] \in {"empty", "partial"} =>
         \/ <<n, m>> \in cut
         \/ pipeline = "up" /\ job[n][m] = "copying"

\* What the tracking file names is whole or gone; what a run fetches is not named.
FetchHolds(n, m) ==
  source = "nvcf" =>
    /\ m \in tracked[n] => disk[n][m] \in {"whole", "absent"}
    /\ pipeline # "down" /\ worker[n] = "rewrite" =>
         job[n][m] = IF m \in Weights!Have(n) THEN "done" ELSE "todo"
    /\ pipeline # "down" /\ worker[n] = "work" /\ job[n][m] \in {"todo", "fetched"} => m \notin tracked[n]
    /\ pipeline # "down" /\ worker[n] \in {"work", "answered"} /\ job[n][m] \in {"moved", "marking", "done"} =>
         disk[n][m] = "whole"

AnswerHolds(n) ==
  /\ pipeline # "down" /\ worker[n] = "answered" =>
       \A m \in Models : job[n][m] = "done" /\ (disk[n][m] = "absent" => <<n, m>> \in missing)
  /\ pipeline = "ready" => worker[n] = "answered"

WeightInv ==
  /\ WeightTypes
  /\ \A n \in Nodes : AnswerHolds(n)
  /\ \A n \in Nodes, m \in Models : CopyHolds(n, m) /\ FetchHolds(n, m)

LEMMA WeightInit == Weights!Init => WeightInv
BY DEF Weights!Init, Weights!Idle, WeightInv, WeightTypes, AnswerHolds, CopyHolds, FetchHolds

LEMMA WeightStep ==
  ASSUME WeightInv, Weights!Next
  PROVE  WeightInv'
<1> USE DEF WeightInv, WeightTypes, AnswerHolds, CopyHolds, FetchHolds, Weights!const, Weights!Idle,
        Weights!SetDisk, Weights!SetJob
<1>1. CASE Weights!Start
  BY <1>1 DEF Weights!Start
<1>2. CASE Weights!Ready
  BY <1>2 DEF Weights!Ready, Weights!Have, Weights!On
<1>3. CASE Weights!Ends
  BY <1>3 DEF Weights!Ends, Weights!Pairs
<1>4. ASSUME NEW n \in Nodes, Weights!Answer(n)
      PROVE  WeightInv'
  BY <1>4 DEF Weights!Answer, Weights!On, Weights!Have
<1>5. ASSUME NEW n \in Nodes, Weights!ListTorn(n)
      PROVE  WeightInv'
  BY <1>5 DEF Weights!ListTorn, Weights!Raised, Weights!Have, Weights!On
<1>6. ASSUME NEW n \in Nodes, Weights!List(n)
      PROVE  WeightInv'
  <2>1. WeightTypes'
    BY <1>6 DEF Weights!List
  <2>2. ASSUME NEW p \in Nodes PROVE AnswerHolds(p)'
    BY <1>6 DEF Weights!List, Weights!Have, Weights!On
  <2>3. ASSUME NEW p \in Nodes, NEW q \in Models PROVE CopyHolds(p, q)'
    BY <1>6 DEF Weights!List
  <2>4. ASSUME NEW p \in Nodes, NEW q \in Models PROVE FetchHolds(p, q)'
    BY <1>6 DEF Weights!List, Weights!Have, Weights!On
  <2>5. QED
    BY <2>1, <2>2, <2>3, <2>4
<1>7. ASSUME NEW n \in Nodes, Weights!Rewrite(n)
      PROVE  WeightInv'
  BY <1>7 DEF Weights!Rewrite, Weights!Write, Weights!Have, Weights!On
<1>8. ASSUME NEW n \in Nodes, Weights!LoseTracking(n)
      PROVE  WeightInv'
  BY <1>8 DEF Weights!LoseTracking
<1>9. ASSUME NEW n \in Nodes, NEW m \in Models, Weights!Exists(n, m)
      PROVE  WeightInv'
  BY <1>9 DEF Weights!Exists, Weights!Copying
<1>10. ASSUME NEW n \in Nodes, NEW m \in Models, Weights!MakeDirectory(n, m)
       PROVE  WeightInv'
  BY <1>10 DEF Weights!MakeDirectory, Weights!Copying
<1>11. ASSUME NEW n \in Nodes, NEW m \in Models, Weights!CopyFile(n, m)
       PROVE  WeightInv'
  BY <1>11 DEF Weights!CopyFile, Weights!Copying
<1>12. ASSUME NEW n \in Nodes, NEW m \in Models, Weights!Copied(n, m)
       PROVE  WeightInv'
  <2>1. WeightTypes'
    <3>1. disk' \in [Nodes -> [Models -> {"absent", "empty", "partial", "whole"}]]
      <4>1. CASE m \in there
        <5>1. disk' = [disk EXCEPT ![n][m] = "whole"]
          BY <1>12, <4>1 DEF Weights!Copied
        <5>2. disk \in [Nodes -> [Models -> {"absent", "empty", "partial", "whole"}]]
          OBVIOUS
        <5>3. QED
          BY ONLY <5>1, <5>2
      <4>2. CASE ~(m \in there)
        BY <1>12, <4>2 DEF Weights!Copied
      <4>3. QED
        BY <4>1, <4>2
    <3>2. job' \in [Nodes -> [Models -> {"todo", "copying", "fetched", "moved", "marking", "done"}]]
      BY <1>12 DEF Weights!Copied
    <3>3. cut' \subseteq Nodes \X Models
      BY <1>12 DEF Weights!Copied
    <3>4. QED
      BY <1>12, <3>1, <3>2, <3>3 DEF Weights!Copied
  <2>2. ASSUME NEW p \in Nodes PROVE AnswerHolds(p)'
    BY <1>12 DEF Weights!Copied, Weights!Copying
  <2>3. ASSUME NEW p \in Nodes, NEW q \in Models PROVE CopyHolds(p, q)'
    BY <1>12 DEF Weights!Copied, Weights!Copying
  <2>4. ASSUME NEW p \in Nodes, NEW q \in Models PROVE FetchHolds(p, q)'
    BY <1>12 DEF Weights!Copied, Weights!Copying
  <2>5. QED
    BY <2>1, <2>2, <2>3, <2>4
<1>13. ASSUME NEW n \in Nodes, NEW m \in Models, Weights!RemoteFails(n, m)
       PROVE  WeightInv'
  <2>1. WeightTypes'
    <3>1. disk' \in [Nodes -> [Models -> {"absent", "empty", "partial", "whole"}]]
      <4>1. CASE disk[n][m] = "empty"
        <5>1. disk' = [disk EXCEPT ![n][m] = "absent"]
          BY <1>13, <4>1 DEF Weights!RemoteFails
        <5>2. disk \in [Nodes -> [Models -> {"absent", "empty", "partial", "whole"}]]
          OBVIOUS
        <5>3. QED
          BY ONLY <5>1, <5>2
      <4>2. CASE ~(disk[n][m] = "empty")
        BY <1>13, <4>2 DEF Weights!RemoteFails
      <4>3. QED
        BY <4>1, <4>2
    <3>2. job' \in [Nodes -> [Models -> {"todo", "copying", "fetched", "moved", "marking", "done"}]]
      BY <1>13 DEF Weights!RemoteFails
    <3>3. cut' \subseteq Nodes \X Models
      BY <1>13 DEF Weights!RemoteFails
    <3>4. QED
      BY <1>13, <3>1, <3>2, <3>3 DEF Weights!RemoteFails
  <2>2. ASSUME NEW p \in Nodes PROVE AnswerHolds(p)'
    BY <1>13 DEF Weights!RemoteFails, Weights!Copying
  <2>3. ASSUME NEW p \in Nodes, NEW q \in Models PROVE CopyHolds(p, q)'
    BY <1>13 DEF Weights!RemoteFails, Weights!Copying
  <2>4. ASSUME NEW p \in Nodes, NEW q \in Models PROVE FetchHolds(p, q)'
    BY <1>13 DEF Weights!RemoteFails, Weights!Copying
  <2>5. QED
    BY <2>1, <2>2, <2>3, <2>4
<1>14. ASSUME NEW n \in Nodes, NEW m \in Models, Weights!LocalFails(n, m)
       PROVE  WeightInv'
  BY <1>14 DEF Weights!LocalFails, Weights!Copying
<1>15. ASSUME NEW n \in Nodes, NEW m \in Models, Weights!Fetch(n, m)
       PROVE  WeightInv'
  BY <1>15 DEF Weights!Fetch, Weights!Fetching, Weights!Have, Weights!On
<1>16. ASSUME NEW n \in Nodes, NEW m \in Models, Weights!FetchFails(n, m)
       PROVE  WeightInv'
  BY <1>16 DEF Weights!FetchFails, Weights!Fetching, Weights!Raised, Weights!Have, Weights!On
<1>17. ASSUME NEW n \in Nodes, NEW m \in Models, Weights!Remove(n, m)
       PROVE  WeightInv'
  BY <1>17 DEF Weights!Remove, Weights!Fetching, Weights!Have, Weights!On
<1>18. ASSUME NEW n \in Nodes, NEW m \in Models, Weights!Move(n, m)
       PROVE  WeightInv'
  BY <1>18 DEF Weights!Move, Weights!Fetching, Weights!Have, Weights!On
<1>19. ASSUME NEW n \in Nodes, NEW m \in Models, Weights!Open(n, m)
       PROVE  WeightInv'
  BY <1>19 DEF Weights!Open, Weights!Fetching, Weights!Have, Weights!On
<1>20. ASSUME NEW n \in Nodes, NEW m \in Models, Weights!Mark(n, m)
       PROVE  WeightInv'
  BY <1>20 DEF Weights!Mark, Weights!Write, Weights!Fetching, Weights!Have, Weights!On
<1>21. ASSUME NEW n \in Nodes, NEW m \in Models, Weights!LoseWeights(n, m)
       PROVE  WeightInv'
  BY <1>21 DEF Weights!LoseWeights
<1> HIDE DEF WeightInv, WeightTypes, AnswerHolds, CopyHolds, FetchHolds
<1>22. QED
  BY <1>1, <1>2, <1>3, <1>4, <1>5, <1>6, <1>7, <1>8, <1>9, <1>10, <1>11, <1>12, <1>13, <1>14,
     <1>15, <1>16, <1>17, <1>18, <1>19, <1>20, <1>21 DEF Weights!Next

\* A pipeline starts its stages with whole weights or reports what is missing, over failed and
\* killed downloads, restarts, and disks or tracking files that are lost in between.
THEOREM WeightsAreInPlace == TransferSpec => []WeightsInPlace
<1>1. TransferInit => WeightInv
  BY WeightInit DEF TransferInit
<1>2. WeightInv /\ [TransferNext]_<<part, vars, archiveVars, weightVars>> => WeightInv'
  <2> SUFFICES ASSUME WeightInv, [TransferNext]_<<part, vars, archiveVars, weightVars>>
               PROVE  WeightInv'
    OBVIOUS
  <2>1. CASE UNCHANGED weightVars
    BY <2>1 DEF weightVars, WeightInv, WeightTypes, AnswerHolds, CopyHolds, FetchHolds, Weights!Have, Weights!On
  <2>2. CASE Weights!Next
    BY <2>2, WeightStep
  <2>3. QED
    BY <2>1, <2>2 DEF TransferNext
<1>3. WeightInv => WeightsInPlace
  <2> SUFFICES ASSUME WeightInv, pipeline = "ready", NEW n \in Nodes, NEW m \in there
               PROVE  \/ disk[n][m] = "whole" \/ <<n, m>> \in missing
                      \/ source # "nvcf" /\ <<n, m>> \in cut
    BY DEF WeightsInPlace, Weights!WeightsInPlace
  <2>1. m \in Models /\ disk[n][m] \in {"absent", "empty", "partial", "whole"}
    BY DEF WeightInv, WeightTypes
  <2>2. job[n][m] = "done" /\ (disk[n][m] = "absent" => <<n, m>> \in missing) /\ worker[n] = "answered"
    BY <2>1 DEF WeightInv, AnswerHolds
  <2>3. CASE source = "nvcf"
    BY <2>1, <2>2, <2>3 DEF WeightInv, FetchHolds
  <2>4. CASE source # "nvcf"
    BY <2>1, <2>2, <2>4 DEF WeightInv, CopyHolds
  <2>5. QED
    BY <2>3, <2>4
<1>4. QED
  BY <1>1, <1>2, <1>3, PTL DEF TransferSpec

-----------------------------------------------------------------------------
(* PresignedZip                                                            *)

Entries == Nodes \X (1 .. 4)

ZipTypes ==
  /\ order \in [input : BOOLEAN, multi : BOOLEAN, parts : 1 .. MaxParts, split : BOOLEAN,
                dir : {"made", "given", "alike"}]
  /\ spot \in {"input", "run", "gather", "merge", "meta", "zip", "send", "clean", "over"}
  /\ dirs \in [Nodes -> SUBSET Entries]
  /\ \A n \in Nodes : IsFiniteSet(dirs[n])
  /\ asked \subseteq Nodes
  /\ archive \in Seq(Entries)
  /\ object \in [1 .. MaxParts -> Seq(Entries)]
  /\ sent \in 0 .. Len(archive)
  /\ partNo \in 1 .. order.parts + 1

\* The pipeline runs on nodes that all have the input; there is nothing to upload before.
InputHolds ==
  /\ spot = "input" => ~ran /\ \A n \in Nodes : dirs[n] = {}
  /\ (spot = "run" \/ ran) /\ order.input => fetched = Nodes
  /\ spot \notin {"send", "clean", "over"} => archive = <<>> /\ sent = 0 /\ partNo = 1
  /\ spot \notin {"clean", "over"} => result = "none"
  /\ spot \notin {"send", "clean", "over"} => object = [p \in 1 .. MaxParts |-> <<>>]

\* What was merged without a warning is on the driver.
MergeHolds ==
  ~warned =>
    /\ torn = {}
    /\ spot = "merge" => \A n \in asked \ zips : Archive!Own(n) \subseteq dirs[Driver]
    /\ spot \in {"meta", "zip", "send", "clean"} => \A n \in asked : Archive!Own(n) \subseteq dirs[Driver]

\* The archive is made of what is on the driver then.
ArchiveHolds ==
  /\ spot \in {"zip", "send"} \/ (spot = "clean" /\ result = "done") =>
       (order.split => Archive!Captions \in dirs[Driver])
  /\ spot = "send" \/ (spot = "clean" /\ result = "done") =>
       ToSet(archive) = dirs[Driver] \cup {Archive!Directory}
  /\ spot = "clean" => ToSet(archive) \subseteq dirs[Driver] \cup {Archive!Directory}

\* The parts that were sent end at increasing places e of the archive; the one under way was
\* stored whole or not at all.
PartsAt(e) ==
  /\ e[0] = 0 /\ e[partNo - 1] = sent
  /\ \A p \in 1 .. MaxParts :
       /\ p < partNo => e[p - 1] <= e[p] /\ object[p] = SubSeq(archive, e[p - 1] + 1, e[p])
       /\ p = partNo => object[p] \in {<<>>, SubSeq(archive, sent + 1, sent + Archive!PartSize)}
       /\ p > partNo => object[p] = <<>>
       /\ p >= partNo => e[p] = sent

PartsHold ==
  /\ spot = "send" => \E e \in [0 .. MaxParts -> 0 .. Len(archive)] : PartsAt(e)
  /\ spot = "send" /\ ~order.multi => partNo = 1 /\ object = [p \in 1 .. MaxParts |-> <<>>]
  /\ result = "done" => FlattenSeq(object) = archive

ZipInv ==
  /\ ZipTypes
  /\ InputHolds
  /\ MergeHolds
  /\ ArchiveHolds
  /\ PartsHold
  /\ Archive!DirectoryKept

LEMMA ZipInit == Archive!Init => ZipInv
<1> SUFFICES ASSUME Archive!Init PROVE ZipInv
  OBVIOUS
<1>1. ZipTypes
  <2>1. \A n \in Nodes : IsFiniteSet(dirs[n])
    BY FS_EmptySet DEF Archive!Init
  <2>2. order.parts \in 1 .. MaxParts
    BY DEF Archive!Init
  <2> QED
    BY <2>1, <2>2, ZipAssumption DEF Archive!Init, ZipTypes
<1>2. InputHolds /\ MergeHolds /\ ArchiveHolds /\ PartsHold /\ Archive!DirectoryKept
  BY DEF Archive!Init, InputHolds, MergeHolds, ArchiveHolds, PartsHold, Archive!DirectoryKept
<1> QED
  BY <1>1, <1>2 DEF ZipInv

\* Before the upload starts nothing of it changes.
LEMMA BeforeUpload ==
  ASSUME ZipInv, UNCHANGED <<order, archive, object, at, sent, partNo, putTries, result>>,
         spot \notin {"send", "clean", "over"}, spot' \notin {"send", "clean"},
         spot' = "over" => order.dir = "made" /\ dirs'[Driver] = {}
  PROVE  PartsHold' /\ Archive!DirectoryKept'
<1>1. archive = <<>> /\ result = "none"
  BY DEF ZipInv, InputHolds
<1>2. PartsHold'
  BY <1>1 DEF PartsHold
<1>3. Archive!DirectoryKept'
  BY <1>1 DEF Archive!DirectoryKept
<1> QED
  BY <1>2, <1>3

LEMMA ZipStep ==
  ASSUME ZipInv, Archive!Next
  PROVE  ZipInv'
<1>0. ZipTypes /\ InputHolds /\ MergeHolds /\ ArchiveHolds /\ PartsHold /\ Archive!DirectoryKept /\ Driver \in Nodes
  BY DeliveryAssumption DEF ZipInv
<1> USE DEF Archive!requestVars, Archive!outputVars, Archive!uploadVars, Archive!Own
<1>1. ASSUME NEW n \in Nodes, Archive!Fetch(n) PROVE ZipInv'
  <2>1. ZipTypes' /\ InputHolds' /\ MergeHolds' /\ ArchiveHolds'
    BY <1>0, <1>1 DEF Archive!Fetch, ZipTypes, InputHolds, MergeHolds, ArchiveHolds
  <2> QED
    BY <1>1, <2>1, BeforeUpload DEF Archive!Fetch, ZipInv
<1>2. CASE Archive!FetchFails
  <2>1. ZipTypes' /\ InputHolds' /\ MergeHolds' /\ ArchiveHolds'
    BY <1>0, <1>2 DEF Archive!FetchFails, ZipTypes, InputHolds, MergeHolds, ArchiveHolds
  <2>2. spot' = "over" => order.dir = "made" /\ dirs'[Driver] = {}
    BY <1>0, <1>2 DEF Archive!FetchFails, InputHolds
  <2> QED
    BY <1>2, <2>1, <2>2, BeforeUpload DEF Archive!FetchFails, ZipInv
<1>3. CASE Archive!Run
  <2>1. PICK out \in [Nodes -> SUBSET (1 .. 2)] : dirs' = [n \in Nodes |-> {n} \X out[n]]
    BY <1>3 DEF Archive!Run
  <2>2. ASSUME NEW n \in Nodes PROVE IsFiniteSet({n} \X out[n]) /\ {n} \X out[n] \subseteq Entries
    <3>1. out[n] \in SUBSET (1 .. 2)
      BY <2>1
    <3>2. IsFiniteSet(out[n]) /\ IsFiniteSet({n})
      <4>1. PICK k \in Nat : k = 2
        OBVIOUS
      <4>2. out[n] \in SUBSET (1 .. k)
        BY <3>1, <4>1
      <4>3. IsFiniteSet(1 .. k)
        BY FS_Interval
      <4> QED
        BY <4>2, <4>3, FS_Subset, FS_Singleton
    <3>3. IsFiniteSet({n} \X out[n])
      BY <3>2, FS_Product
    <3> QED
      BY <3>1, <3>3 DEF Entries
  <2>3. ZipTypes'
    BY <1>0, <1>3, <2>1, <2>2 DEF Archive!Run, ZipTypes
  <2>4. InputHolds' /\ MergeHolds' /\ ArchiveHolds'
    BY <1>0, <1>3 DEF Archive!Run, InputHolds, MergeHolds, ArchiveHolds
  <2> QED
    BY <1>3, <2>3, <2>4, BeforeUpload DEF Archive!Run, ZipInv
<1>4. ASSUME NEW n \in Nodes, Archive!Leaves(n) PROVE ZipInv'
  <2>1. ZipTypes' /\ InputHolds' /\ MergeHolds' /\ ArchiveHolds'
    BY <1>0, <1>4 DEF Archive!Leaves, ZipTypes, InputHolds, MergeHolds, ArchiveHolds
  <2> QED
    BY <1>4, <2>1, BeforeUpload DEF Archive!Leaves, ZipInv
<1>5. CASE Archive!Gather
  <2>1. ZipTypes' /\ InputHolds' /\ ArchiveHolds'
    BY <1>0, <1>5 DEF Archive!Gather, ZipTypes, InputHolds, ArchiveHolds
  <2>2. MergeHolds'
    BY <1>0, <1>5 DEF Archive!Gather, MergeHolds
  <2> QED
    BY <1>5, <2>1, <2>2, BeforeUpload DEF Archive!Gather, ZipInv
<1>6. CASE Archive!GatherFails
  <2>1. ZipTypes' /\ InputHolds' /\ MergeHolds' /\ ArchiveHolds'
    BY <1>0, <1>6 DEF Archive!GatherFails, ZipTypes, InputHolds, MergeHolds, ArchiveHolds
  <2> QED
    BY <1>6, <2>1, BeforeUpload DEF Archive!GatherFails, ZipInv
<1>7. CASE Archive!Late
  <2>1. ZipTypes' /\ InputHolds' /\ MergeHolds' /\ ArchiveHolds'
    BY <1>0, <1>7 DEF Archive!Late, ZipTypes, InputHolds, MergeHolds, ArchiveHolds
  <2> QED
    BY <1>7, <2>1, BeforeUpload DEF Archive!Late, ZipInv
<1>8. ASSUME NEW n \in Nodes, Archive!Merge(n) PROVE ZipInv'
  <2>1. /\ dirs' = [dirs EXCEPT ![Driver] = @ \cup Archive!Own(n)]
        /\ Archive!Own(n) \subseteq dirs[n]
    BY <1>8 DEF Archive!Merge
  <2>2. /\ \A m \in Nodes : IsFiniteSet(dirs'[m]) /\ dirs'[m] \subseteq Entries
        /\ dirs' \in [Nodes -> SUBSET Entries]
    <3>1. IsFiniteSet(dirs[Driver] \cup Archive!Own(n))
      BY <1>0, <2>1, FS_Subset, FS_Union DEF ZipTypes
    <3> QED
      BY <1>0, <2>1, <3>1 DEF ZipTypes
  <2>3. ZipTypes'
    BY <1>0, <1>8, <2>2 DEF Archive!Merge, ZipTypes
  <2>4. InputHolds' /\ ArchiveHolds'
    BY <1>0, <1>8 DEF Archive!Merge, InputHolds, ArchiveHolds
  <2>5. MergeHolds'
    BY <1>0, <1>8, <2>1 DEF Archive!Merge, MergeHolds, ZipTypes
  <2> QED
    BY <1>8, <2>3, <2>4, <2>5, BeforeUpload DEF Archive!Merge, ZipInv
<1>9. ASSUME NEW n \in Nodes, Archive!MergeFails(n) PROVE ZipInv'
  <2>1. PICK more \in SUBSET Archive!Own(n) : dirs' = [dirs EXCEPT ![Driver] = @ \cup more]
    <3>1. PICK got \in SUBSET Archive!Own(n), f \in Archive!Own(n) :
            dirs' = [dirs EXCEPT ![Driver] = @ \cup got \cup {f}] \/ dirs' = dirs
      BY <1>9 DEF Archive!MergeFails
    <3>2. CASE dirs' = dirs
      <4>1. dirs' = [dirs EXCEPT ![Driver] = @ \cup {}]
        BY <1>0, <3>2 DEF ZipTypes
      <4> QED
        BY <4>1
    <3>3. CASE dirs' = [dirs EXCEPT ![Driver] = @ \cup got \cup {f}]
      <4>1. dirs[Driver] \cup got \cup {f} = dirs[Driver] \cup (got \cup {f})
        OBVIOUS
      <4> QED
        BY <3>3, <4>1
    <3> QED
      BY <3>1, <3>2, <3>3
  <2>2. /\ \A m \in Nodes : IsFiniteSet(dirs'[m]) /\ dirs'[m] \subseteq Entries
        /\ dirs' \in [Nodes -> SUBSET Entries]
    <3>1. IsFiniteSet(dirs[Driver] \cup more) /\ more \subseteq dirs[n]
      BY <1>0, <2>1, FS_Subset, FS_Union DEF ZipTypes
    <3> QED
      BY <1>0, <2>1, <3>1 DEF ZipTypes
  <2>3. spot = "merge" /\ spot' = "meta" /\ warned' = TRUE
        /\ UNCHANGED <<order, fetched, ran, asked, archive, object, at, sent, partNo, putTries, result>>
    BY <1>9 DEF Archive!MergeFails
  <2>4. ZipTypes'
    BY <1>0, <2>2, <2>3 DEF ZipTypes
  <2>5. InputHolds' /\ MergeHolds' /\ ArchiveHolds'
    BY <1>0, <2>3 DEF InputHolds, MergeHolds, ArchiveHolds
  <2> QED
    BY <2>3, <2>4, <2>5, BeforeUpload DEF ZipInv
<1>10. CASE Archive!Merged
  <2>1. ZipTypes' /\ InputHolds' /\ MergeHolds' /\ ArchiveHolds'
    BY <1>0, <1>10 DEF Archive!Merged, ZipTypes, InputHolds, MergeHolds, ArchiveHolds
  <2> QED
    BY <1>10, <2>1, BeforeUpload DEF Archive!Merged, ZipInv
<1>11. CASE Archive!WriteMetadata
  <2>1. /\ order.split => dirs' = [dirs EXCEPT ![Driver] = @ \cup {Archive!Captions}]
        /\ ~order.split => dirs' = dirs
        /\ Archive!Captions \in Entries
    BY <1>0, <1>11 DEF Archive!WriteMetadata, Archive!Captions, Entries
  <2>2. /\ \A m \in Nodes : IsFiniteSet(dirs'[m]) /\ dirs'[m] \subseteq Entries /\ dirs[m] \subseteq dirs'[m]
        /\ dirs' \in [Nodes -> SUBSET Entries]
        /\ \A m \in Nodes : m # Driver => dirs'[m] = dirs[m]
    <3>1. IsFiniteSet(dirs[Driver] \cup {Archive!Captions})
      BY <1>0, FS_AddElement DEF ZipTypes
    <3>2. dirs \in [Nodes -> SUBSET Entries] /\ (\A m \in Nodes : IsFiniteSet(dirs[m])) /\ Driver \in Nodes
      BY <1>0 DEF ZipTypes
    <3>3. CASE order.split
      BY <2>1, <3>1, <3>2, <3>3
    <3>4. CASE ~order.split
      BY <2>1, <3>2, <3>4
    <3> QED
      BY <3>3, <3>4
  <2>3. ZipTypes'
    BY <1>0, <1>11, <2>2 DEF Archive!WriteMetadata, ZipTypes
  <2>4. InputHolds' /\ ArchiveHolds'
    BY <1>0, <1>11, <2>1 DEF Archive!WriteMetadata, InputHolds, ArchiveHolds, ZipTypes
  <2>5. MergeHolds'
    BY <1>0, <1>11, <2>2 DEF Archive!WriteMetadata, MergeHolds, ZipTypes
  <2> QED
    BY <1>11, <2>3, <2>4, <2>5, BeforeUpload DEF Archive!WriteMetadata, ZipInv
<1>12. CASE Archive!MetadataOrZipFails
  <2>1. archive = <<>> /\ spot \in {"meta", "zip"} /\ spot' = "clean" /\ result' = "error" /\ ToSet(archive) = {}
        /\ UNCHANGED <<order, fetched, ran, dirs, torn, asked, zips, warned, archive, object, sent, partNo>>
    BY <1>0, <1>12 DEF Archive!MetadataOrZipFails, Archive!Raise, InputHolds, ToSet
  <2>2. ZipTypes' /\ InputHolds' /\ MergeHolds' /\ ArchiveHolds'
    BY <1>0, <2>1 DEF ZipTypes, InputHolds, MergeHolds, ArchiveHolds, ToSet
  <2>3. PartsHold' /\ Archive!DirectoryKept'
    BY <2>1 DEF PartsHold, Archive!DirectoryKept, Archive!ToSet, ToSet
  <2> QED
    BY <2>2, <2>3 DEF ZipInv
<1>13. CASE Archive!MakeArchive
  <2> DEFINE files == SetToSeq(dirs[Driver])
  <2>1. /\ spot = "zip" /\ archive' = files \o <<Archive!Directory>>
        /\ (spot' = "clean" /\ result' = "error") \/ (spot' = "send" /\ UNCHANGED result)
        /\ UNCHANGED <<order, fetched, ran, dirs, torn, asked, zips, warned, object, sent, partNo>>
    <3>1. Archive!SetToSeq(dirs[Driver]) = files
      BY DEF Archive!SetToSeq, SetToSeq, Archive!IsInjective, IsInjective, Archive!Cardinality, Cardinality
    <3> QED
      BY <1>13, <3>1 DEF Archive!MakeArchive, Archive!Raise
  <2>2. sent = 0 /\ partNo = 1 /\ object = [p \in 1 .. MaxParts |-> <<>>] /\ result = "none"
    BY <1>0, <2>1 DEF InputHolds
  <2>3. files \in Seq(Entries) /\ ToSet(files) = dirs[Driver]
    <3>1. IsFiniteSet(dirs[Driver]) /\ dirs[Driver] \subseteq Entries
      BY <1>0 DEF ZipTypes
    <3>2. files \in Seq(dirs[Driver]) /\ ToSet(files) = dirs[Driver]
      BY <3>1, ListedOnce
    <3> QED
      BY <3>1, <3>2
  <2>4. archive' \in Seq(Entries) /\ ToSet(archive') = dirs[Driver] \cup {Archive!Directory}
    <3>1. Archive!Directory \in Entries
      BY <1>0 DEF Archive!Directory, Entries
    <3> HIDE DEF files
    <3>2. archive' = Append(files, Archive!Directory)
      BY <2>1, <2>3, <3>1, AppendIsConcat
    <3> QED
      BY <2>3, <3>1, <3>2, Appended
  <2> HIDE DEF files
  <2>5. ZipTypes'
    BY <1>0, <2>1, <2>2, <2>4 DEF ZipTypes
  <2>6. InputHolds' /\ MergeHolds' /\ ArchiveHolds'
    BY <1>0, <2>1, <2>2, <2>4 DEF InputHolds, MergeHolds, ArchiveHolds
  <2>7. PartsHold' /\ Archive!DirectoryKept'
    <3> DEFINE e == [p \in 0 .. MaxParts |-> 0]
    <3>1. Len(archive') \in Nat
      BY <2>4
    <3>2. e \in [0 .. MaxParts -> 0 .. Len(archive')] /\ PartsAt(e)'
      BY <2>1, <2>2, <3>1, ZipAssumption DEF PartsAt
    <3>3. spot' # "over" /\ result' # "done"
      BY <2>1, <2>2
    <3> HIDE DEF e
    <3> QED
      BY <2>1, <2>2, <3>2, <3>3 DEF PartsHold, Archive!DirectoryKept, Archive!ToSet, ToSet
  <2> QED
    BY <2>5, <2>6, <2>7 DEF ZipInv
<1>14. CASE Archive!Put
  <2>1. /\ spot = "send" /\ spot' = "clean" /\ result' = "done" /\ object' = [object EXCEPT ![1] = archive]
        /\ UNCHANGED <<order, fetched, ran, dirs, torn, asked, zips, warned, archive, sent, partNo>>
    BY <1>14 DEF Archive!Put
  <2>2. /\ object = [p \in 1 .. MaxParts |-> <<>>]
        /\ archive \in Seq(Entries) /\ MaxParts \in Nat \ {0}
    <3>1. order.parts \in 1 .. MaxParts
      BY <1>0 DEF ZipTypes
    <3> QED
      BY <1>0, <1>14, <3>1, ZipAssumption DEF PartsHold, ZipTypes, Archive!Put
  <2>3. FlattenSeq(object') = archive
    <3> DEFINE e == [p \in 0 .. MaxParts |-> IF p = 0 THEN 0 ELSE Len(archive)]
    <3>1. Len(object') = MaxParts
      BY <2>1, <2>2
    <3>2. e \in [0 .. MaxParts -> 0 .. Len(archive)] /\ e[0] = 0 /\ e[MaxParts] = Len(archive)
      BY <2>2
    <3>3. ASSUME NEW p \in 1 .. MaxParts
          PROVE  e[p - 1] <= e[p] /\ object'[p] = SubSeq(archive, e[p - 1] + 1, e[p])
      <4>1. CASE p = 1
        <5>1. e[p - 1] = 0 /\ e[p] = Len(archive) /\ object'[p] = archive /\ Len(archive) \in Nat
          BY <2>1, <2>2, <4>1
        <5> HIDE DEF e
        <5> QED
          BY <2>2, <5>1, SubSeqFull
      <4>2. CASE p # 1
        <5>1. e[p - 1] = Len(archive) /\ e[p] = Len(archive) /\ object'[p] = <<>> /\ Len(archive) \in Nat
          BY <2>1, <2>2, <4>2
        <5> HIDE DEF e
        <5> QED
          BY <5>1, SubSeqEmpty
      <4> QED
        BY <4>1, <4>2
    <3> HIDE DEF e
    <3> QED
      BY <2>2, <3>1, <3>2, <3>3, PiecesFlatten
  <2>4. ZipTypes'
    BY <1>0, <2>1, <2>2 DEF ZipTypes
  <2>5. InputHolds' /\ MergeHolds' /\ ArchiveHolds'
    BY <1>0, <2>1 DEF InputHolds, MergeHolds, ArchiveHolds
  <2>6. PartsHold' /\ Archive!DirectoryKept'
    BY <2>1, <2>3 DEF PartsHold, Archive!DirectoryKept, Archive!ToSet, ToSet
  <2> QED
    BY <2>4, <2>5, <2>6 DEF ZipInv
<1>15. CASE Archive!PutFails
  <2>1. /\ spot = "send" /\ spot' = "clean" /\ result' = "error"
        /\ UNCHANGED <<order, fetched, ran, dirs, torn, asked, zips, warned, archive, object, sent, partNo>>
    BY <1>15 DEF Archive!PutFails, Archive!Raise
  <2>2. ZipTypes' /\ InputHolds' /\ MergeHolds' /\ ArchiveHolds'
    BY <1>0, <2>1 DEF ZipTypes, InputHolds, MergeHolds, ArchiveHolds
  <2>3. PartsHold' /\ Archive!DirectoryKept'
    BY <2>1 DEF PartsHold, Archive!DirectoryKept, Archive!ToSet, ToSet
  <2> QED
    BY <2>2, <2>3 DEF ZipInv
<1>16. CASE Archive!PutPart
  <2> DEFINE size == Archive!PartSize
  <2>1. /\ spot = "send" /\ order.multi /\ partNo <= order.parts /\ size > 0
        /\ object' = [object EXCEPT ![partNo] = SubSeq(archive, sent + 1, sent + size)]
        /\ sent' = sent + size /\ partNo' = partNo + 1
        /\ UNCHANGED <<order, fetched, ran, spot, dirs, torn, asked, zips, warned, archive, result>>
    BY <1>16 DEF Archive!PutPart, Archive!Sending
  <2>2. /\ archive \in Seq(Entries) /\ Len(archive) \in Nat
        /\ sent \in 0 .. Len(archive) /\ size \in Nat /\ sent + size \in 0 .. Len(archive)
        /\ partNo \in 1 .. MaxParts /\ partNo \in 1 .. order.parts /\ order.parts \in 1 .. MaxParts
    BY <1>0, <2>1, ZipAssumption DEF ZipTypes, Archive!PartSize
  <2>3. SubSeq(archive, sent + 1, sent + size) \in Seq(Entries)
    BY <2>2, PieceOf
  <2> HIDE DEF size
  <2>4. ZipTypes'
    BY <1>0, <2>1, <2>2, <2>3 DEF ZipTypes
  <2>5. InputHolds' /\ MergeHolds' /\ ArchiveHolds'
    BY <1>0, <2>1 DEF InputHolds, MergeHolds, ArchiveHolds
  <2>6. PICK e \in [0 .. MaxParts -> 0 .. Len(archive)] : PartsAt(e)
    BY <1>0, <2>1 DEF PartsHold
  <2>7. \E f \in [0 .. MaxParts -> 0 .. Len(archive)] : PartsAt(f)'
    <3>0. [p \in 0 .. MaxParts |-> IF p < partNo THEN e[p] ELSE sent + size] \in [0 .. MaxParts -> 0 .. Len(archive)]
      BY <2>2, <2>6
    <3>1. PICK f \in [0 .. MaxParts -> 0 .. Len(archive)] :
            \A p \in 0 .. MaxParts : f[p] = IF p < partNo THEN e[p] ELSE sent + size
      BY <3>0
    <3>2. f[0] = 0 /\ f[partNo' - 1] = sent'
      BY <2>1, <2>2, <2>6, <3>1, ZipAssumption DEF PartsAt
    <3>3. ASSUME NEW p \in 1 .. MaxParts
          PROVE  /\ p < partNo' => f[p - 1] <= f[p] /\ object'[p] = SubSeq(archive, f[p - 1] + 1, f[p])
                 /\ p = partNo' => object'[p] = <<>>
                 /\ p > partNo' => object'[p] = <<>>
                 /\ p >= partNo' => f[p] = sent'
      <4>1. p \in 0 .. MaxParts /\ p - 1 \in 0 .. MaxParts /\ p \in Nat /\ partNo \in Nat
        BY <2>2, ZipAssumption
      <4>2. CASE p < partNo
        <5>1. f[p - 1] = e[p - 1] /\ f[p] = e[p] /\ object'[p] = object[p]
          BY <2>1, <2>2, <3>1, <4>1, <4>2
        <5> QED
          BY <2>1, <2>2, <2>6, <4>1, <4>2, <5>1 DEF PartsAt
      <4>3. CASE p = partNo
        <5>1. f[p - 1] = sent /\ f[p] = sent + size
          BY <2>2, <2>6, <3>1, <4>1, <4>3 DEF PartsAt
        <5>2. object'[p] = SubSeq(archive, sent + 1, sent + size)
          BY <1>0, <2>1, <4>3 DEF ZipTypes
        <5> QED
          BY <2>1, <2>2, <4>3, <5>1, <5>2
      <4>4. CASE p > partNo
        <5>1. f[p] = sent + size /\ object'[p] = object[p] /\ object[p] = <<>>
          BY <2>1, <2>2, <2>6, <3>1, <4>1, <4>4 DEF PartsAt
        <5> QED
          BY <2>1, <2>2, <4>4, <5>1
      <4> QED
        BY <4>1, <4>2, <4>3, <4>4
    <3>4. PartsAt(f)'
      BY <2>1, <3>2, <3>3 DEF PartsAt
    <3> QED
      BY <3>1, <3>4
  <2>8. PartsHold' /\ Archive!DirectoryKept'
    <3>1. result' = "none" /\ archive' = archive /\ spot' = "send" /\ order'.multi
      BY <1>0, <2>1 DEF InputHolds
    <3> QED
      BY <2>7, <3>1 DEF PartsHold, Archive!DirectoryKept, Archive!ToSet, ToSet
  <2> QED
    BY <2>4, <2>5, <2>8 DEF ZipInv
<1>17. CASE Archive!PutBreaks
  <2> DEFINE size == Archive!PartSize
             piece == SubSeq(archive, sent + 1, sent + size)
  <2>1. /\ spot = "send" /\ order.multi /\ partNo <= order.parts /\ size > 0
        /\ object' = object \/ object' = [object EXCEPT ![partNo] = piece]
        /\ (spot' = "clean" /\ result' = "error") \/ (spot' = spot /\ result' = result)
        /\ UNCHANGED <<order, fetched, ran, dirs, torn, asked, zips, warned, archive, sent, partNo>>
    BY <1>17 DEF Archive!PutBreaks, Archive!Sending, Archive!Raise
  <2>2. /\ archive \in Seq(Entries) /\ sent \in Nat /\ size \in Nat /\ sent + size <= Len(archive)
        /\ partNo \in 1 .. MaxParts /\ result = "none"
    BY <1>0, <2>1, ZipAssumption DEF ZipTypes, InputHolds, Archive!PartSize
  <2>3. piece \in Seq(Entries) /\ Archive!PartSize' = Archive!PartSize
    BY <2>1, <2>2, PieceOf DEF Archive!PartSize
  <2>4. ZipTypes'
    BY <1>0, <2>1, <2>2, <2>3 DEF ZipTypes
  <2>5. InputHolds' /\ MergeHolds' /\ ArchiveHolds'
    BY <1>0, <2>1 DEF InputHolds, MergeHolds, ArchiveHolds
  <2>6. PICK e \in [0 .. MaxParts -> 0 .. Len(archive)] : PartsAt(e)
    BY <1>0, <2>1 DEF PartsHold
  <2>7. PartsAt(e)'
    <3>1. ASSUME NEW p \in 1 .. MaxParts
          PROVE  /\ p < partNo => object'[p] = object[p]
                 /\ p > partNo => object'[p] = object[p]
                 /\ object'[p] = object[p] \/ (p = partNo /\ object'[p] = piece)
      <4>1. object \in [1 .. MaxParts -> Seq(Entries)] /\ p \in Nat
        BY <1>0 DEF ZipTypes
      <4> HIDE DEF piece
      <4>2. CASE object' = object
        BY <4>2
      <4>3. CASE object' = [object EXCEPT ![partNo] = piece]
        BY <2>2, <4>1, <4>3
      <4> QED
        BY <2>1, <4>2, <4>3
    <3>2. ASSUME NEW p \in 1 .. MaxParts
          PROVE  /\ p < partNo => e[p - 1] <= e[p] /\ object'[p] = SubSeq(archive, e[p - 1] + 1, e[p])
                 /\ p = partNo => object'[p] \in {<<>>, piece}
                 /\ p > partNo => object'[p] = <<>>
                 /\ p >= partNo => e[p] = sent
      BY <2>6, <3>1 DEF PartsAt
    <3>3. e[0] = 0 /\ e[partNo - 1] = sent
      BY <2>6 DEF PartsAt
    <3>4. piece = SubSeq(archive, sent + 1, sent + Archive!PartSize')
      BY <2>3
    <3> HIDE DEF piece
    <3> QED
      BY <2>1, <3>2, <3>3, <3>4 DEF PartsAt
  <2>8. PartsHold' /\ Archive!DirectoryKept'
    BY <2>1, <2>2, <2>7 DEF PartsHold, Archive!DirectoryKept, Archive!ToSet, ToSet
  <2> QED
    BY <2>4, <2>5, <2>8 DEF ZipInv
<1>18. CASE Archive!PartsEnd
  <2>1. /\ spot = "send" /\ spot' = "clean" /\ result' = IF sent = Len(archive) THEN "done" ELSE "error"
        /\ UNCHANGED <<order, fetched, ran, dirs, torn, asked, zips, warned, archive, object, sent, partNo>>
    BY <1>18 DEF Archive!PartsEnd
  <2>2. ZipTypes' /\ InputHolds' /\ MergeHolds' /\ ArchiveHolds'
    BY <1>0, <2>1 DEF ZipTypes, InputHolds, MergeHolds, ArchiveHolds
  <2>3. ASSUME sent = Len(archive) PROVE FlattenSeq(object) = archive
    <3>1. PICK e \in [0 .. MaxParts -> 0 .. Len(archive)] : PartsAt(e)
      BY <1>0, <2>1 DEF PartsHold
    <3>2. /\ archive \in Seq(Entries) /\ Len(object) = MaxParts /\ MaxParts \in Nat \ {0}
          /\ partNo \in 1 .. MaxParts + 1 /\ Len(archive) \in Nat
      <4>1. order.parts \in 1 .. MaxParts
        BY <1>0 DEF ZipTypes
      <4> QED
        BY <1>0, <4>1, ZipAssumption DEF ZipTypes
    <3>3. SubSeq(archive, sent + 1, sent + Archive!PartSize) = <<>> /\ SubSeq(archive, sent + 1, sent) = <<>>
      <4>1. Archive!PartSize \in Int /\ Archive!PartSize <= 0
        BY <2>3, <3>2, ZipAssumption DEF Archive!PartSize
      <4> QED
        BY <2>3, <3>2, <4>1, SubSeqEmpty
    <3>4. ASSUME NEW p \in 1 .. MaxParts
          PROVE  e[p - 1] <= e[p] /\ object[p] = SubSeq(archive, e[p - 1] + 1, e[p])
      <4>1. p \in 0 .. MaxParts /\ p - 1 \in 0 .. MaxParts /\ p \in Nat /\ partNo \in Nat
        BY <3>2, ZipAssumption
      <4>2. CASE p < partNo
        BY <3>1, <4>2 DEF PartsAt
      <4>3. CASE p >= partNo
        <5>0. /\ p = partNo => object[p] \in {<<>>, SubSeq(archive, sent + 1, sent + Archive!PartSize)}
              /\ p > partNo => object[p] = <<>>
              /\ p >= partNo => e[p] = sent
          BY <3>1 DEF PartsAt
        <5>1. e[p] = sent /\ object[p] = <<>>
          BY <3>2, <3>3, <4>1, <4>3, <5>0
        <5>2. e[p - 1] = sent
          BY <3>1, <3>2, <4>1, <4>3 DEF PartsAt
        <5> QED
          BY <2>3, <3>2, <3>3, <5>1, <5>2
      <4> QED
        BY <3>2, <4>2, <4>3
    <3>5. e[0] = 0 /\ e[MaxParts] = Len(archive)
      <4>1. CASE partNo = MaxParts + 1
        <5>1. partNo - 1 = MaxParts
          BY <3>2, <4>1
        <5> QED
          BY <2>3, <3>1, <5>1 DEF PartsAt
      <4>2. CASE partNo # MaxParts + 1
        <5>1. MaxParts \in 1 .. MaxParts /\ MaxParts >= partNo
          BY <3>2, <4>2
        <5> QED
          BY <2>3, <3>1, <5>1 DEF PartsAt
      <4> QED
        BY <4>1, <4>2
    <3> QED
      BY <3>1, <3>2, <3>4, <3>5, PiecesFlatten
  <2>4. PartsHold' /\ Archive!DirectoryKept'
    BY <2>1, <2>3 DEF PartsHold, Archive!DirectoryKept, Archive!ToSet, ToSet
  <2> QED
    BY <2>2, <2>4 DEF ZipInv
<1>19. CASE Archive!CleanUp
  <2>1. /\ spot = "clean" /\ spot' = "over"
        /\ order.dir # "given" => dirs' = [dirs EXCEPT ![Driver] = {}]
        /\ order.dir = "given" => dirs' = dirs
        /\ UNCHANGED <<order, fetched, ran, torn, asked, zips, warned, archive, object, sent, partNo, result>>
    BY <1>19 DEF Archive!CleanUp
  <2>2. ZipTypes'
    BY <1>0, <2>1, FS_EmptySet DEF ZipTypes
  <2>3. InputHolds' /\ MergeHolds' /\ ArchiveHolds'
    BY <1>0, <2>1 DEF InputHolds, MergeHolds, ArchiveHolds
  <2>4. PartsHold'
    BY <1>0, <2>1 DEF PartsHold
  <2>5. Archive!DirectoryKept'
    BY <1>0, <2>1 DEF ArchiveHolds, ZipTypes, Archive!DirectoryKept, Archive!Directory, Archive!ToSet, ToSet
  <2> QED
    BY <2>2, <2>3, <2>4, <2>5 DEF ZipInv
<1> QED
  BY <1>1, <1>2, <1>3, <1>4, <1>5, <1>6, <1>7, <1>8, <1>9, <1>10, <1>11, <1>12, <1>13, <1>14, <1>15,
     <1>16, <1>17, <1>18, <1>19 DEF Archive!Next

\* An archive behind presigned URLs holds what it should when its upload is logged as complete, the
\* pipeline finds its input everywhere and no directory is left, over nodes that leave, merges that
\* fail, parts that are sent again and URLs that do not suffice, for any size of parts.
THEOREM UploadsAreSound == TransferSpec => []UploadSound
<1>1. TransferInit => ZipInv
  BY ZipInit DEF TransferInit
<1>2. ZipInv /\ [TransferNext]_<<part, vars, archiveVars, weightVars>> => ZipInv'
  <2> SUFFICES ASSUME ZipInv, [TransferNext]_<<part, vars, archiveVars, weightVars>>
               PROVE  ZipInv'
    OBVIOUS
  <2>1. CASE UNCHANGED archiveVars
    BY <2>1 DEF archiveVars, ZipInv, ZipTypes, InputHolds, MergeHolds, ArchiveHolds, PartsHold, PartsAt,
         Archive!Own, Archive!PartSize, Archive!DirectoryKept
  <2>2. CASE Archive!Next
    BY <2>2, ZipStep
  <2> QED
    BY <2>1, <2>2 DEF TransferNext
<1>3. ZipInv => UploadSound
  <2> SUFFICES ASSUME ZipInv PROVE UploadSound
    OBVIOUS
  <2>1. Archive!InputEverywhere
    BY DEF ZipInv, InputHolds, Archive!InputEverywhere
  <2>2. Archive!NothingMissing
    BY DEF ZipInv, MergeHolds, ArchiveHolds, Archive!NothingMissing, Archive!ToSet, ToSet
  <2>3. Archive!ObjectIsArchive
    <3>1. Archive!FlattenSeq(object) = FlattenSeq(object)
      BY DEF Archive!FlattenSeq, FlattenSeq
    <3> QED
      BY <3>1 DEF ZipInv, PartsHold, Archive!ObjectIsArchive
  <2> QED
    BY <2>1, <2>2, <2>3 DEF ZipInv, UploadSound, Archive!UploadSound
<1> QED
  BY <1>1, <1>2, <1>3, PTL DEF TransferSpec
=============================================================================
