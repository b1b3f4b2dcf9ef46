----------------------------- MODULE MCExecutor -----------------------------
(* Small instances of Executor for TLC: two workers, up to four contexts, *)
(* step-batches that fork up to two ways.                                  *)
EXTENDS Executor, TLC

CONSTANTS w1, w2

MCWorkers == {w1, w2}

=============================================================================
