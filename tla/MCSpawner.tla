----------------------------- MODULE MCSpawner -----------------------------
(* A spawner over a level that may end and start again.                    *)
EXTENDS Spawner
MCScene == 1 .. MaxActivations
=============================================================================
