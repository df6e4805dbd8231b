------------------------- MODULE MCWorkerInference -------------------------
(* Small values for the constants of WorkerInference. *)
EXTENDS WorkerInference

MCRawScores == {NoNumber, NaN, 37, 130}
MCLevels == {Unknown, 2, 4}
=============================================================================
