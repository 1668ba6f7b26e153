--------------------------- MODULE MCActiveMotionSet ---------------------------
(* Three nodes, one state the policy takes for stationary and two moving     *)
(* ones; batches of up to three updates can repeat a node and name the       *)
(* invalid handle.                                                           *)
EXTENDS ActiveMotionSet
CONSTANTS rest, slow, fast

MCMotionState == {rest, slow, fast}
MCStationary == {rest}
================================================================================
