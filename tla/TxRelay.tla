------------------------------ MODULE TxRelay -------------------------------
(***************************************************************************)
(* A signed transaction on its way: a client signs it and sends it to a    *)
(* node (eth_sendRawTransaction or NEW_TX), which decodes it, checks it    *)
(* and, once it has accepted it, may send it on to a second node of the    *)
(* same chain (broadcastNewTx, which the repository defines and does not   *)
(* call). A node that has decoded a transaction keeps all of v in the      *)
(* signature, and encodes from there.                                      *)
(***************************************************************************)
EXTENDS TxCodec

CONSTANTS
  ChainIds,    \* the chain ids of the nodes
  SignedIds,   \* the chain ids that clients sign for
  Clients,     \* addresses of clients
  Bodies       \* contents of transactions

ASSUME ChainIdsAssumption == ChainIds \subseteq Nat /\ SignedIds \subseteq Nat
ASSUME ClientsAssumption == Stranger \notin Clients /\ ZeroAddress \notin Clients

VARIABLES
  chainId,     \* of both nodes
  signed,      \* the transactions that clients have signed
  wire,        \* encodings under way to a node, each with its number of hops
  seen,        \* what the nodes have decoded, each with its number of hops
  accepted     \* the part of it that passed the checks

vars == <<chainId, signed, wire, seen, accepted>>

Hops == {1, 2}

Init ==
  /\ chainId \in ChainIds
  /\ signed = {}
  /\ wire = {}
  /\ seen = {}
  /\ accepted = {}

\* One transaction per behaviour: the codec has no state.
Send ==
  /\ signed = {}
  /\ \E body \in Bodies, id \in SignedIds, key \in Clients, recId \in {0, 1} :
       LET tx == signWith(body, id, key, recId)
       IN  /\ signed' = {tx}
           /\ wire' = {[hop |-> 1, data |-> rlpEncodeSigned(tx)]}
  /\ UNCHANGED <<chainId, seen, accepted>>

\* fromHex, the checks and, if they pass, the rest of the handler.
Receive ==
  \E m \in wire :
    /\ Decodes(m.data)
    /\ LET got == [hop |-> m.hop, tx |-> fromHex(m.data)]
       IN  /\ seen' = seen \cup {got}
           /\ accepted' = IF ChecksPass(got.tx, chainId) THEN accepted \cup {got} ELSE accepted
    /\ wire' = wire \ {m}
    /\ UNCHANGED <<chainId, signed>>

\* fromHex throws; the handler answers with an error, or ignores the message.
Drop ==
  \E m \in wire :
    /\ ~Decodes(m.data)
    /\ wire' = wire \ {m}
    /\ UNCHANGED <<chainId, signed, seen, accepted>>

broadcastNewTx ==
  \E got \in accepted :
    /\ got.hop + 1 \in Hops
    /\ wire' = wire \cup {[hop |-> got.hop + 1, data |-> rlpEncodeSigned(got.tx)]}
    /\ UNCHANGED <<chainId, signed, seen, accepted>>

Next == Send \/ Receive \/ Drop \/ broadcastNewTx

Spec == Init /\ [][Next]_vars

-----------------------------------------------------------------------------
(* Properties.                                                             *)

\* Whatever a node accepts, at first or at second hand, is what a client
\* signed, for this chain, with that client as the sender: neither the cut to
\* one byte nor the second encoding of v makes a node act for anybody else.
AcceptedAuthentic ==
  \A got \in accepted : \E tx \in signed :
    /\ got.tx.from = tx.from
    /\ got.tx.body = tx.body
    /\ tx.chainId = chainId

\* "keep full v for recovery" (src/transaction.cpp:154): a transaction that a
\* client signed and encoded decodes to the same body, chain id and sender.
DecodesAsSigned ==
  /\ \A m \in wire : m.hop = 1 => Decodes(m.data)
  /\ \A got \in seen : got.hop = 1 =>
       \E tx \in signed : /\ got.tx.from = tx.from
                          /\ got.tx.body = tx.body
                          /\ got.tx.chainId = tx.chainId
=============================================================================
