----------------------- MODULE MCBoardEmbeddingWorkers -----------------------
(* Symmetry sets for model checking BoardEmbeddingWorkers. *)
EXTENDS BoardEmbeddingWorkers, TLC

Symmetry == Permutations(Board) \cup Permutations(Assistant)
            \cup Permutations(Worker) \cup Permutations(Caller)

\* All but the parquet records and who cleared which board, which no step reads:
\* what has been saved by earlier runs makes no difference to what follows.
ButParquet == <<jobs, rag, embedFlag, run, call, dboard, shared>>
=============================================================================
