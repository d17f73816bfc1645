------------------------------ MODULE MCGossip ------------------------------
(***************************************************************************)
(* The instances of Gossip for TLC: the names of two seeds resolve to B,   *)
(* so A dials B twice.                                                     *)
(***************************************************************************)
EXTENDS Gossip

CONSTANTS A, B, Alice, Zero

MCDialer == [c \in Conns |-> A]

MCListener == [c \in Conns |-> B]

MCGenesis ==
  [a \in Addr |-> IF a = Alice THEN [exists |-> TRUE, balance |-> 5, nonce |-> 0]
                               ELSE NoAccount]

MCGenesisTime == [n \in Nodes |-> IF n = A THEN 1 ELSE 2]

Payment ==
  [from |-> Alice, to |-> Zero, nonce |-> 0, value |-> 3, gasPrice |-> 0,
   gasLimit |-> 1, chainId |-> ChainId, signer |-> Alice]

NoPayment == {<<>>}

MaybePayment == {<<>>, <<Payment>>}
=============================================================================
