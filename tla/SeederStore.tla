---------------------------- MODULE SeederStore -----------------------------
(***************************************************************************)
(* What the seeder promises: a map from node ids to records, where a       *)
(* registration that is answered with success has replaced the node's      *)
(* record at one moment.                                                   *)
(***************************************************************************)
CONSTANTS Calls, Nodes, Records, NoRecord

VARIABLES
  record,      \* the record of each node
  answered     \* the calls answered with success, with what they registered

Init ==
  /\ record = [n \in Nodes |-> NoRecord]
  /\ answered = {}

Register(c, p) ==
  /\ \A done \in answered : done.call # c
  /\ answered' = answered \cup {[call |-> c, p |-> p]}
  /\ record' = [record EXCEPT ![p.nodeId] = p]

Next == \E c \in Calls, p \in Records : Register(c, p)

Spec == Init /\ [][Next]_<<record, answered>>
=============================================================================
