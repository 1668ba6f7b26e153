----------------------------- MODULE MCSceneBuild -----------------------------
(* Two scene entities, one with permanent nodes and one whose configuration *)
(* is refused, and three owners with a prefab each, the last of which is    *)
(* refused when it has loaded.                                              *)
EXTENDS SceneBuild

MCPrefabOf == 1 :> "p" @@ 2 :> "q" @@ 3 :> "b"
MCPermanentNodes == 1 :> "valid" @@ 2 :> "none"
================================================================================
