------------------------------ MODULE MCSceneSync ------------------------------
(* A slot of a root and its child and a slot of one root; transforms are    *)
(* the residues mod 3 under addition; a fixed step is two units of time and *)
(* at most two steps are caught up.                                         *)
EXTENDS SceneSync

MCNode == 0 .. 2
MCNoNode == 99
MCParent == 0 :> 99 @@ 1 :> 0 @@ 2 :> 99
MCTransform == 0 .. 2
MCCompose(x, y) == (x + y) % 3
MCGetInverse(x) == (3 - x) % 3
MCIntegrate(x, v) == (x + v) % 3
MCNodesOf == <<{0, 1}, {2}>>
MCInitialLocal == 0 :> 0 @@ 1 :> 1 @@ 2 :> 0
MCOffset == "e1" :> 0 @@ "e2" :> 1

Bind1 == [op |-> "bind", slot |-> 1, binding |-> 0 :> "e1" @@ 1 :> "e2"]
Bind2 == [op |-> "bind", slot |-> 2, binding |-> 2 :> "e1"]

MCCommands ==
    {Bind1, Bind2, [op |-> "unbind", slot |-> 1], [op |-> "reset", slot |-> 1],
     [op |-> "place", slot |-> 1, value |-> 1], [op |-> "correctLocal", node |-> 0, value |-> 1],
     [op |-> "correctWorld", node |-> 1, value |-> 2],
     [op |-> "active", active |-> FALSE], [op |-> "active", active |-> TRUE]}
MCWrites ==
    {[kind |-> "none"], [kind |-> "local", node |-> 0, value |-> 2],
     [kind |-> "motion", node |-> 0, value |-> 1]}
================================================================================
