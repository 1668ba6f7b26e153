----------------------------- MODULE MCSceneFreeze -----------------------------
(* Identities are interchangeable; transforms are the residues mod 2 under addition.      *)
EXTENDS SceneFreeze, TLC

MCTransform == 0 .. 1
MCCompose(x, y) == (x + y) % 2
MCSymmetry == Permutations(Id)
================================================================================
