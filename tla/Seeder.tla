------------------------------- MODULE Seeder -------------------------------
(***************************************************************************)
(* The seeder (src/zk_seeder.cpp) and its clients' proofs                  *)
(* (src/zk_seeder_client.cpp). A client signs its node id, its end point   *)
(* and the second on its clock. The service puts the second on ITS clock   *)
(* into the record, checks the signature over that, and only then takes    *)
(* the lock and replaces the node's record. Calls overlap, proofs arrive   *)
(* late, twice, or with a record they do not belong to.                    *)
(*                                                                         *)
(* ip and port are one value, the end point. score is left out: nothing    *)
(* reads it. Signatures are those of TxCodec.                              *)
(***************************************************************************)
EXTENDS TxCodec, Sequences, SequencesExt, FiniteSets

CONSTANTS
  Nodes,       \* the addresses of the clients' keys
  EndPoints,
  Calls,       \* calls of registerPeer, one thread each
  Skew,        \* how many seconds each client's clock is ahead
  ChainId,     \* of the seeder
  MaxClock,    \* bound on the seeder's clock
  MaxProofs    \* bound on the number of proofs built

ASSUME NodesAssumption ==
  /\ IsFiniteSet(Nodes)
  /\ Stranger \notin Nodes /\ ZeroAddress \notin Nodes
ASSUME SkewAssumption == Skew \in [Nodes -> Nat]
ASSUME ClockAssumption == MaxClock \in Nat /\ MaxProofs \in Nat /\ ChainId \in Nat

VARIABLES
  clock,       \* the seeder's now()
  proofs,      \* what clients have built: the record and its signature
  call,        \* where each call is, its record p, and the calls over when it began
  peers        \* peers_

vars == <<clock, proofs, call, peers>>

PeerInfo == [nodeId : Nodes, endPoint : EndPoints, lastSeen : Nat]

Init ==
  /\ clock = 0
  /\ proofs = {}
  /\ call = [c \in Calls |-> [pc |-> "idle"]]
  /\ peers = <<>>

\* keccak256 over node id, end point and second.
Message(p) == <<p.nodeId, p.endPoint, p.lastSeen>>

Tick ==
  /\ clock < MaxClock
  /\ clock' = clock + 1
  /\ UNCHANGED <<proofs, call, peers>>

-----------------------------------------------------------------------------
(* The client.                                                             *)

Stamped(key, peer) ==
  [nodeId |-> key, endPoint |-> peer.endPoint, lastSeen |-> clock + Skew[key]]

\* With a node id that is neither empty nor the key's, the code throws.
buildSeederProof(key) ==
  /\ Cardinality(proofs) < MaxProofs
  /\ \E claimed \in Nodes \cup {ZeroAddress}, e \in EndPoints, recId \in {0, 1} :
       /\ claimed \in {ZeroAddress, key}
       /\ LET p == Stamped(key, [nodeId |-> claimed, endPoint |-> e])
          IN  proofs' = proofs \cup {[peer |-> p, sig |-> sign(key, Message(p), recId)]}
  /\ UNCHANGED <<clock, call, peers>>

-----------------------------------------------------------------------------
(* The service.                                                            *)

\* Mutant: the signature is checked, but not whose it is.
verifyProofAnyone(p, sig) == ~RecoverThrows(sig, ChainId)

verifyProof(p, sig) ==
  /\ ~RecoverThrows(sig, ChainId)
  /\ recoverAddress(Message(p), sig, ChainId) = p.nodeId

Over(pc) == pc \in {"refused", "done"}

\* registerPeer up to the lock, for a record and any proof that exists.
registerPeer(c) ==
  /\ call[c].pc = "idle"
  /\ \E proof \in proofs, n \in Nodes, e \in EndPoints :
       LET p == [nodeId |-> n, endPoint |-> e, lastSeen |-> clock]
       IN  call' = [call EXCEPT ![c] =
             [pc    |-> IF verifyProof(p, proof.sig) THEN "verified" ELSE "refused",
              p     |-> p,
              proof |-> proof,
              after |-> {d \in Calls : Over(call[d].pc)}]]
  /\ UNCHANGED <<clock, proofs, peers>>

IndexOf(n) == {i \in DOMAIN peers : peers[i].nodeId = n}

\* Mutant: always a new entry.
UpsertedAppending(p) == Append(peers, p)

\* Mutant: an entry that exists is kept.
UpsertedKeeping(p) == IF IndexOf(p.nodeId) = {} THEN Append(peers, p) ELSE peers

Upserted(p) ==
  IF IndexOf(p.nodeId) = {}
  THEN Append(peers, p)
  ELSE ReplaceAt(peers, Min(IndexOf(p.nodeId)), p)

\* registerPeer under the lock.
Upsert(c) ==
  /\ call[c].pc = "verified"
  /\ peers' = Upserted(call[c].p)
  /\ call' = [call EXCEPT ![c].pc = "done"]
  /\ UNCHANGED <<clock, proofs>>

getPeers(limit) == SubSeq(peers, 1, Min({limit, Len(peers)}))

NoRecord == [nodeId |-> ZeroAddress]

\* NoRecord stands for the answer false.
getRecordFor(n) == IF IndexOf(n) = {} THEN NoRecord ELSE peers[Min(IndexOf(n))]

-----------------------------------------------------------------------------
Next ==
  \/ Tick
  \/ \E key \in Nodes : buildSeederProof(key)
  \/ \E c \in Calls : registerPeer(c)
  \/ \E c \in Calls : Upsert(c)

Spec == Init /\ [][Next]_vars

-----------------------------------------------------------------------------
(* Properties.                                                             *)

\* Every record the seeder hands out was signed by the node it is about, with
\* that end point and for that second, whatever record and proof a call
\* combined (verifyProof).
RecordsAuthentic ==
  \A i \in DOMAIN peers : \E proof \in proofs : proof.peer = peers[i]

\* A call is refused only if its proof is for another node, end point or
\* second than the record that the service made of it: client and service
\* serialise and sign alike.
RefusedOnlyForeign ==
  \A c \in Calls : call[c].pc = "refused" => call[c].proof.peer # call[c].p

\* getPeers with room for every node leaves out no node that registered:
\* however registrations overlap, none takes two places.
NobodyCrowdedOut ==
  \A c \in Calls : call[c].pc = "done" =>
    \E i \in DOMAIN getPeers(Cardinality(Nodes)) :
      getPeers(Cardinality(Nodes))[i].nodeId = call[c].p.nodeId

\* Once a registration has been answered with success, the node's record is
\* never that of a call that was over before this one began. Of calls that
\* overlap any may be the last to write: the clock is read before the lock is
\* taken (zk_seeder.cpp:81-87), so one with an older reading may write over the
\* newer record of one that has been answered.
NotUndone ==
  \A c \in Calls : call[c].pc = "done" =>
    \E d \in Calls : /\ call[d].pc = "done"
                     /\ call[d].p = getRecordFor(call[c].p.nodeId)
                     /\ d \notin call[c].after

\* The vector of records, searched from the front, is a map from node ids to
\* records that each successful registration updates once (SeederStore).
Store == INSTANCE SeederStore WITH
  Records  <- [nodeId : Nodes, endPoint : EndPoints, lastSeen : 0..MaxClock],
  record   <- [n \in Nodes |-> getRecordFor(n)],
  answered <- {[call |-> c, p |-> call[c].p] : c \in {d \in Calls : call[d].pc = "done"}}

StoreRefined == Store!Spec
=============================================================================
