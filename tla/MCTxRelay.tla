------------------------------ MODULE MCTxRelay -----------------------------
(***************************************************************************)
(* The instance of TxRelay for TLC: all chain ids for which 35 + 2 * id + 1 *)
(* fits one byte, on both sides, and bodies at the boundaries of RLP.      *)
(***************************************************************************)
EXTENDS TxWire

SmallIds == 0..109

BodyOf(n1, n2, to, data) ==
  [nonce |-> n1, gasPrice |-> n2, gasLimit |-> n1 + n2, to |-> to,
   value |-> n2 + 1, data |-> data]

Filled(length) == [i \in 1..length |-> (i * 37) % 256]

MCBodies ==
  {BodyOf(0, 127, ZeroTo, <<>>),
   BodyOf(128, 255, Filled(20), <<0>>),
   BodyOf(1, 65535, Filled(20), <<128>>),
   BodyOf(256, 0, Filled(20), Filled(55)),
   BodyOf(255, 256, ZeroTo, Filled(56)),
   BodyOf(7, 1, Filled(20), Filled(256))}

=============================================================================
