---------------------------- MODULE MCSceneSlots ----------------------------
(* One scene, two slots, a generation that wraps after two releases.       *)
EXTENDS SceneSlots
=============================================================================
