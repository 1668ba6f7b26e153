-------------------------- MODULE MCControllerRuntime --------------------------
(* A slot of two nodes and a slot of one; attachments of one and of two     *)
(* controllers, one with a read-only target, and one with a write conflict. *)
EXTENDS ControllerRuntime

rw(n) == [node |-> n, access |-> "ReadWrite"]
ro(n) == [node |-> n, access |-> "ReadOnly"]
MCMaxLease == <<1, 2>>
MCNodesOf == <<{1, 2}, {3}>>
MCDeclarations ==
    <<{<<[type |-> "a", targets |-> <<rw(1), ro(2)>>], [type |-> "b", targets |-> <<rw(2)>>]>>,
       <<[type |-> "a", targets |-> <<rw(1)>>], [type |-> "b", targets |-> <<rw(1)>>]>>},
      {<<[type |-> "a", targets |-> <<rw(3)>>]>>}>>
================================================================================
