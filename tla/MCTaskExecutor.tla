-------------------------- MODULE MCTaskExecutor --------------------------
(* TaskExecutor with small jobs: 5 over grain 2 has a short last chunk, 2  *)
(* and 5 over grain 1 (asked for as 0) divide evenly, the rest run inline. *)
EXTENDS TaskExecutor
MCCounts == {1, 2, 5}
MCGrains == {0, 2}
=============================================================================
