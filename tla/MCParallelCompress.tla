-------------------------- MODULE MCParallelCompress --------------------------
(* Instances of ParallelCompress for TLC. *)
EXTENDS ParallelCompress, TLC

\* The compress threads run the same code, so they are interchangeable.
WorkerSymmetry == Permutations(Workers)
===============================================================================
