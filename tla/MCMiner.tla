------------------------------ MODULE MCMiner -------------------------------
(***************************************************************************)
(* The instances of Miner for TLC: clients that together stay within the   *)
(* premine, and clients that together overspend it.                        *)
(***************************************************************************)
EXTENDS Miner

CONSTANTS Alice, Bob, Zero

Pay(from, to, nonce, value) ==
  [from |-> from, to |-> to, nonce |-> nonce, value |-> value, gasPrice |-> 0,
   gasLimit |-> 1, chainId |-> ChainId, signer |-> from]

\* One premined account, as in app/main.cpp.
MCGenesis ==
  [a \in Addr |-> IF a = Alice THEN [exists |-> TRUE, balance |-> 5, nonce |-> 0]
                               ELSE NoAccount]

\* For another chain: always refused.
ForeignTx == [Pay(Alice, Bob, 0, 1) EXCEPT !.chainId = ChainId + 1]

\* A mempool of one of these can be executed, on a state it was not executed on.
ModestTxs == {Pay(Alice, Bob, 0, 3), ForeignTx}

\* Each of the two payments can be executed, but not both.
GreedyTxs == {Pay(Alice, Bob, 0, 4), Pay(Alice, Bob, 0, 3), ForeignTx}
=============================================================================
