-------------------------- MODULE MCDatasetPipeline --------------------------
(* A small instance of DatasetPipeline for TLC. Processes, keys and pairs  *)
(* are interchangeable.                                                    *)
EXTENDS DatasetPipeline, TLC

Symmetric == Permutations(Process) \cup Permutations(Key) \cup Permutations(Pair)
=============================================================================
