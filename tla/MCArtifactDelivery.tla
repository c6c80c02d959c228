------------------------- MODULE MCArtifactDelivery -------------------------
(* Instances for TLC of what moves files between nodes and storage: the      *)
(* delivery of artifacts, where the driver's node has a small and a large    *)
(* file and a worker node one of each, the archives behind presigned URLs,   *)
(* and the weights of the models.  A behaviour is one of one part; the       *)
(* variables of the others do not change.                                    *)
EXTENDS ArtifactDelivery, TLC

CONSTANTS d, peer, small1, large1, small2, large2, Chunk, MaxParts, MaxTries, Models,
          MaxPipelines

\* The size of a part, and how many URLs a request may bring.
ASSUME ZipAssumption == Chunk \in Nat /\ MaxParts \in Nat

VARIABLES
  part,
  order, spot, fetched, ran, left, dirs, torn, asked, zips, warned, archive, object, at, sent,
  partNo, putTries, result,
  source, there, disk, tracked, tornFiles, job, worker, missing, cut, pipeline, pipelines

TwoNodes   == {d, peer}
FourFiles  == {small1, large1, small2, large2}
Homes      == [f \in FourFiles |-> IF f \in {small1, large1} THEN d ELSE peer]
LargeFiles == {large1, large2}

Archive == INSTANCE PresignedZip
Weights == INSTANCE ModelWeights WITH node <- worker, torn <- tornFiles

archiveVars == <<order, spot, fetched, ran, left, dirs, torn, asked, zips, warned, archive,
                 object, at, sent, partNo, putTries, result>>
weightVars  == <<source, there, disk, tracked, tornFiles, job, worker, missing, cut, pipeline,
                 pipelines>>

NoDelivery == strict /\ remote
NoOrder    == order = [input |-> FALSE, multi |-> FALSE, parts |-> 1, split |-> FALSE, dir |-> "made"]
NoWeights  == source = "remote" /\ there = {}

TransferInit ==
  /\ part \in {"delivery", "archive", "weights"}
  /\ Init         /\ (part # "delivery" => NoDelivery)
  /\ Archive!Init /\ (part # "archive"  => NoOrder)
  /\ Weights!Init /\ (part # "weights"  => NoWeights)

TransferNext ==
  \/ part = "delivery" /\ Next         /\ UNCHANGED <<part, archiveVars, weightVars>>
  \/ part = "archive"  /\ Archive!Next /\ UNCHANGED <<part, vars, weightVars>>
  \/ part = "weights"  /\ Weights!Next /\ UNCHANGED <<part, vars, archiveVars>>

\* Fair is the delivery; what is claimed of the others is safety.
TransferSpec == TransferInit /\ [][TransferNext]_<<part, vars, archiveVars, weightVars>> /\ Fairness

\* What is uploaded for a request is what its nodes had, whole and in order, or the log says
\* otherwise: see PresignedZip.
UploadSound == Archive!UploadSound

\* A pipeline starts with whole weights, or reports them: see ModelWeights.
WeightsInPlace == Weights!WeightsInPlace
=============================================================================
