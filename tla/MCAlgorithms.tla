----------------------------- MODULE MCAlgorithms -----------------------------
(****************************************************************************)
(* The algorithms that compute a result from an input, without              *)
(* interleaving, over bounded sets of inputs: one initial state per group   *)
(* of inputs, one step from it to each input of the group.                  *)
(****************************************************************************)
EXTENDS MCNetwork,
        MCPreprocessor,
        MCBasis,
        MCSimplex,
        MCUnsatCertificate

Init == job \in UNION {NetworkStarts, ConstructionStarts, PreprocessorStarts, SparseStarts, BasisStarts, SimplexStarts, MatrixStarts, ProofStarts, EncodeStarts, LinearizationStarts, LocalSearchStarts, BranchingStarts}
Next ==
  \/ NetworkJob
  \/ ConstructionJob
  \/ PreprocessorJob
  \/ SparseJob
  \/ BasisJob
  \/ SimplexJob
  \/ MatrixJob
  \/ ProofJob
  \/ EncodeJob
  \/ LinearizationJob
  \/ LocalSearchJob
  \/ BranchingJob
Spec == Init /\ [][Next]_job
==============================================================================
