--------------------------- MODULE MCNvcfService ---------------------------
(* Instances of NvcfService for TLC.                                       *)
EXTENDS NvcfService, TLC

\* Workers and requests are interchangeable in a run where no worker starts
\* late and no property is a liveness property.
Symmetry == Permutations(Workers) \cup Permutations(Requests)
=============================================================================
