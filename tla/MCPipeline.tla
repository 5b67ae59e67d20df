------------------------------ MODULE MCPipeline ------------------------------
(* Small instances of Pipeline for TLC.                                    *)
EXTENDS PipelineInv

(* Key n is first revoked in run n and leaves with run n + 2, when its     *)
(* certificate has expired: every stash matters to the next run.           *)
MCCerts == 1 .. MaxRuns
MCRevoked == [n \in 1 .. MaxRuns |-> {m \in MCCerts : m \in {n - 1, n}}]
=============================================================================
