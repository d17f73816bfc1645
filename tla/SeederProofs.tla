--------------------------- MODULE SeederProofs -----------------------------
(***************************************************************************)
(* Proofs about Seeder: for any number of nodes, end points, overlapping   *)
(* calls and clock skews, the invariants of the seeder and its refinement  *)
(* of SeederStore.                                                         *)
(***************************************************************************)
EXTENDS Seeder, FiniteSetTheorems, TLAPS

\* The records that a seeder with this clock makes.
Records == [nodeId : Nodes, endPoint : EndPoints, lastSeen : 0..MaxClock]

\* A client made proof: it is for the record it names and signed by its node.
Built(proof) ==
  LET p == proof.peer
  IN  /\ p \in PeerInfo
      /\ \E recId \in {0, 1} :
           proof = [peer |-> p, sig |-> sign(p.nodeId, Message(p), recId)]

\* Where call c is, and what it has found out about its proof.
CallOK(c) ==
  /\ call[c].pc \in {"idle", "verified", "refused", "done"}
  /\ call[c].pc # "idle" =>
       /\ call[c].p \in Records
       /\ call[c].proof \in proofs
       /\ (call[c].pc = "refused") <=> (call[c].proof.peer # call[c].p)
       /\ \A d \in call[c].after : d \in Calls /\ Over(call[d].pc)

TypeInv ==
  /\ clock \in 0..MaxClock
  /\ \A proof \in proofs : Built(proof)
  /\ call = [c \in Calls |-> call[c]]
  /\ \A c \in Calls : CallOK(c)
  /\ peers \in Seq(Records)

\* No node has two places in the list.
Distinct ==
  \A i, j \in DOMAIN peers : peers[i].nodeId = peers[j].nodeId => i = j

\* Each place holds what a call that is over registered.
Registered ==
  \A i \in DOMAIN peers : \E d \in Calls : call[d].pc = "done" /\ call[d].p = peers[i]

\* A call that was answered with success has a place in the list, and what is
\* there is its own record or that of a call that was not over when it began.
Placed ==
  \A c \in Calls : call[c].pc = "done" =>
    \E i \in DOMAIN peers, d \in Calls :
      /\ peers[i].nodeId = call[c].p.nodeId
      /\ call[d].pc = "done" /\ call[d].p = peers[i]
      /\ d \notin call[c].after

IInv == TypeInv /\ Distinct /\ Registered /\ Placed

-----------------------------------------------------------------------------
(* The operators.                                                          *)

\* verifyProof accepts a client's proof exactly for the record it was made for.
LEMMA VerifyExact ==
  ASSUME NEW proof, Built(proof), NEW p \in PeerInfo
  PROVE  verifyProof(p, proof.sig) <=> proof.peer = p
<1>1. PICK q \in PeerInfo, recId \in {0, 1} :
        proof = [peer |-> q, sig |-> sign(q.nodeId, Message(q), recId)]
  BY DEF Built
<1>2. recId % ByteSize = recId
  BY ByteSizeAssumption
<1>3. /\ proof.peer = q /\ proof.sig.v = recId
      /\ proof.sig.rs = [signer |-> q.nodeId, msg |-> Message(q), recId |-> recId]
  BY <1>1, <1>2 DEF sign, U8
<1>4. ~RecoverThrows(proof.sig, ChainId)
  BY <1>3 DEF RecoverThrows
<1>5. recoverAddress(Message(p), proof.sig, ChainId) =
        IF Message(p) = Message(q) THEN q.nodeId ELSE Stranger
  BY <1>3 DEF recoverAddress, ecdsa_recover
<1>6. Message(p) = Message(q) <=> p = q
  BY DEF Message, PeerInfo
<1>7. p.nodeId # Stranger
  BY NodesAssumption DEF PeerInfo
<1> QED
  BY <1>3, <1>4, <1>5, <1>6, <1>7 DEF verifyProof

\* The only index of a node's record is the one the search finds.
LEMMA OnlyIndex ==
  ASSUME peers \in Seq(Records), Distinct, NEW i \in DOMAIN peers
  PROVE  /\ IndexOf(peers[i].nodeId) = {i}
         /\ Min(IndexOf(peers[i].nodeId)) = i
<1>1. IndexOf(peers[i].nodeId) = {i}
  BY DEF IndexOf, Distinct
<1>2. i \in Int
  OBVIOUS
<1> QED
  BY <1>1, <1>2 DEF Min

\* What the upsert does to the list: the node's record is p, at its old place or
\* at a new one at the end, and all other places keep what they hold.
LEMMA UpsertedAt ==
  ASSUME peers \in Seq(Records), Distinct, NEW p \in Records
  PROVE  /\ Upserted(p) \in Seq(Records)
         /\ \E k \in DOMAIN Upserted(p) :
              /\ DOMAIN Upserted(p) = DOMAIN peers \cup {k}
              /\ Upserted(p)[k] = p
              /\ \A i \in DOMAIN peers : i # k => /\ Upserted(p)[i] = peers[i]
                                                  /\ peers[i].nodeId # p.nodeId
              /\ k \in DOMAIN peers => peers[k].nodeId = p.nodeId
<1>1. CASE IndexOf(p.nodeId) = {}
  <2>1. Upserted(p) = Append(peers, p)
    BY <1>1 DEF Upserted
  <2>2. \A i \in DOMAIN peers : peers[i].nodeId # p.nodeId
    BY <1>1 DEF IndexOf
  <2>3. /\ Append(peers, p) \in Seq(Records)
        /\ DOMAIN Append(peers, p) = DOMAIN peers \cup {Len(peers) + 1}
        /\ Append(peers, p)[Len(peers) + 1] = p
        /\ \A i \in DOMAIN peers : Append(peers, p)[i] = peers[i]
        /\ Len(peers) + 1 \notin DOMAIN peers
    OBVIOUS
  <2> QED
    BY <2>1, <2>2, <2>3
<1>2. CASE IndexOf(p.nodeId) # {}
  <2>1. PICK k \in DOMAIN peers : peers[k].nodeId = p.nodeId
    BY <1>2 DEF IndexOf
  <2>2. Min(IndexOf(p.nodeId)) = k
    BY <2>1, OnlyIndex
  <2>3. Upserted(p) = [peers EXCEPT ![k] = p]
    BY <1>2, <2>2 DEF Upserted, ReplaceAt
  <2>4. \A i \in DOMAIN peers : i # k => peers[i].nodeId # p.nodeId
    BY <2>1 DEF Distinct
  <2>5. [peers EXCEPT ![k] = p] \in Seq(Records)
    OBVIOUS
  <2> QED
    BY <2>1, <2>3, <2>4, <2>5
<1> QED
  BY <1>1, <1>2

-----------------------------------------------------------------------------
(* The invariant is inductive.                                             *)

\* What an upsert changes: the list at one place, and the call's pc.
LEMMA UpsertStep ==
  ASSUME IInv, NEW c \in Calls, Upsert(c)
  PROVE  IInv'
<1> DEFINE p == call[c].p
<1>0. UNCHANGED <<clock, proofs>> /\ peers' = Upserted(p) /\ call[c].pc = "verified"
  BY DEF Upsert
<1>1. call' = [d \in Calls |-> IF d = c THEN [call[c] EXCEPT !.pc = "done"] ELSE call[d]]
  BY DEF Upsert, IInv, TypeInv
<1>2. p \in Records /\ peers \in Seq(Records) /\ Distinct
  BY <1>0 DEF IInv, TypeInv, CallOK
<1>3. PICK k \in DOMAIN peers' :
        /\ DOMAIN peers' = DOMAIN peers \cup {k}
        /\ peers'[k] = p
        /\ \A i \in DOMAIN peers : i # k => /\ peers'[i] = peers[i]
                                            /\ peers[i].nodeId # p.nodeId
        /\ k \in DOMAIN peers => peers[k].nodeId = p.nodeId
  BY <1>0, <1>2, UpsertedAt
<1>4. peers' \in Seq(Records)
  BY <1>0, <1>2, UpsertedAt
<1>5. \A d \in Calls : /\ call'[d].p = call[d].p
                       /\ call'[d].proof = call[d].proof
                       /\ call'[d].after = call[d].after
                       /\ call'[d].pc = IF d = c THEN "done" ELSE call[d].pc
  BY <1>0, <1>1 DEF IInv, TypeInv, CallOK
<1> HIDE DEF p
<1>6. TypeInv'
  <2>1. call' = [d \in Calls |-> call'[d]]
    BY <1>1
  <2>2. ASSUME NEW d \in Calls PROVE CallOK(d)'
    BY <1>0, <1>5 DEF CallOK, Over, IInv, TypeInv
  <2> QED
    BY <1>0, <1>4, <2>1, <2>2 DEF TypeInv, IInv, Built
<1>7. Distinct'
  BY <1>3 DEF Distinct, IInv
<1>8. Registered'
  <2>1. SUFFICES ASSUME NEW i \in DOMAIN peers'
                 PROVE  \E d \in Calls : call'[d].pc = "done" /\ call'[d].p = peers'[i]
    BY DEF Registered
  <2>2. CASE i = k
    BY <1>3, <1>5, <2>2 DEF p
  <2>3. CASE i # k
    BY <1>3, <1>5, <2>3 DEF Registered, IInv
  <2> QED
    BY <2>2, <2>3
<1>9. Placed'
  <2>1. SUFFICES ASSUME NEW b \in Calls, call'[b].pc = "done"
                 PROVE  \E i \in DOMAIN peers', d \in Calls :
                          /\ peers'[i].nodeId = call'[b].p.nodeId
                          /\ call'[d].pc = "done" /\ call'[d].p = peers'[i]
                          /\ d \notin call'[b].after
    BY DEF Placed
  <2>2. c \notin call[b].after
    BY <1>0, <1>5, <2>1 DEF IInv, TypeInv, CallOK, Over
  <2>3. CASE call[b].p.nodeId = p.nodeId
    BY <1>3, <1>5, <2>2, <2>3 DEF p
  <2>4. CASE call[b].p.nodeId # p.nodeId
    <3>1. call[b].pc = "done"
      BY <1>5, <2>1, <2>4 DEF p
    <3>2. PICK i \in DOMAIN peers, d \in Calls :
            /\ peers[i].nodeId = call[b].p.nodeId
            /\ call[d].pc = "done" /\ call[d].p = peers[i]
            /\ d \notin call[b].after
      BY <3>1 DEF IInv, Placed
    <3>3. i # k /\ peers'[i] = peers[i] /\ i \in DOMAIN peers'
      BY <1>3, <2>4, <3>2
    <3> QED
      BY <1>5, <3>2, <3>3
  <2> QED
    BY <2>3, <2>4
<1> QED
  BY <1>6, <1>7, <1>8, <1>9 DEF IInv

\* A call that begins: the list stays as it is.
LEMMA RegisterStep ==
  ASSUME IInv, NEW c \in Calls, registerPeer(c)
  PROVE  IInv'
<1>1. PICK proof \in proofs, n \in Nodes, e \in EndPoints :
        LET p == [nodeId |-> n, endPoint |-> e, lastSeen |-> clock]
        IN  call' = [call EXCEPT ![c] =
              [pc    |-> IF verifyProof(p, proof.sig) THEN "verified" ELSE "refused",
               p     |-> p,
               proof |-> proof,
               after |-> {d \in Calls : Over(call[d].pc)}]]
  BY DEF registerPeer
<1>2. UNCHANGED <<clock, proofs, peers>> /\ call[c].pc = "idle"
  BY DEF registerPeer
<1> DEFINE p == [nodeId |-> n, endPoint |-> e, lastSeen |-> clock]
<1>3. p \in Records /\ p \in PeerInfo
  BY ClockAssumption DEF IInv, TypeInv, Records, PeerInfo
<1>4. verifyProof(p, proof.sig) <=> proof.peer = p
  BY <1>3, VerifyExact DEF IInv, TypeInv
<1>5. call' = [d \in Calls |-> call'[d]]
      /\ \A d \in Calls : d # c => call'[d] = call[d]
  BY <1>1 DEF IInv, TypeInv
<1>6. /\ call'[c].pc = IF proof.peer = p THEN "verified" ELSE "refused"
      /\ call'[c].p = p /\ call'[c].proof = proof
      /\ call'[c].after = {d \in Calls : Over(call[d].pc)}
  BY <1>1, <1>4 DEF IInv, TypeInv
<1> HIDE DEF p
<1>7. \A d \in Calls : Over(call[d].pc) => Over(call'[d].pc)
  BY <1>2, <1>5 DEF Over
<1>8. TypeInv'
  <2>1. CallOK(c)'
    BY <1>2, <1>3, <1>6, <1>7 DEF CallOK
  <2>2. ASSUME NEW d \in Calls, d # c PROVE CallOK(d)'
    BY <1>2, <1>5, <1>7, <2>2 DEF CallOK, IInv, TypeInv
  <2> QED
    BY <1>2, <1>5, <2>1, <2>2 DEF TypeInv, IInv, Built
<1>9. \A d \in Calls : /\ call'[d].pc = "done" => call[d] = call'[d]
                       /\ call[d].pc = "done" => call[d] = call'[d]
  BY <1>2, <1>5, <1>6
<1>10. Distinct' /\ Registered' /\ Placed'
  BY <1>2, <1>9 DEF IInv, Distinct, Registered, Placed
<1> QED
  BY <1>8, <1>10 DEF IInv

\* Time passes, or a client builds a proof: calls and list stay as they are.
LEMMA ClientStep ==
  ASSUME IInv, Tick \/ (\E key \in Nodes : buildSeederProof(key)) \/ UNCHANGED vars
  PROVE  IInv'
<1>0. clock \in 0..MaxClock
  BY DEF IInv, TypeInv
<1>1. UNCHANGED <<call, peers>> /\ clock' \in 0..MaxClock /\ proofs \subseteq proofs'
  <2>1. CASE Tick
    BY <1>0, <2>1, ClockAssumption DEF Tick
  <2>2. CASE \E key \in Nodes : buildSeederProof(key)
    BY <1>0, <2>2 DEF buildSeederProof
  <2>3. CASE UNCHANGED vars
    BY <1>0, <2>3 DEF vars
  <2> QED
    BY <2>1, <2>2, <2>3
<1>2. \A proof \in proofs' : Built(proof)
  <2>1. CASE proofs' = proofs
    BY <2>1 DEF IInv, TypeInv
  <2>2. ASSUME NEW key \in Nodes, buildSeederProof(key)
        PROVE  \A proof \in proofs' : Built(proof)
    <3>1. PICK z \in Nodes \cup {ZeroAddress}, e \in EndPoints, recId \in {0, 1} :
            LET p == Stamped(key, [nodeId |-> z, endPoint |-> e])
            IN  proofs' = proofs \cup {[peer |-> p, sig |-> sign(key, Message(p), recId)]}
      BY <2>2 DEF buildSeederProof
    <3> DEFINE p == [nodeId |-> key, endPoint |-> e, lastSeen |-> clock + Skew[key]]
               new == [peer |-> p, sig |-> sign(key, Message(p), recId)]
    <3>2. proofs' = proofs \cup {new}
      BY <3>1 DEF Stamped
    <3>3. p \in PeerInfo
      BY SkewAssumption, ClockAssumption DEF PeerInfo, IInv, TypeInv
    <3>4. Built(new)
      BY <3>3 DEF Built
    <3> QED
      BY <3>2, <3>4 DEF IInv, TypeInv
  <2> QED
    BY <2>1, <2>2 DEF Tick, vars
<1>3. TypeInv'
  BY <1>1, <1>2 DEF IInv, TypeInv, CallOK, Built
<1> QED
  BY <1>1, <1>3 DEF IInv, Distinct, Registered, Placed

\* The invariant holds in every state of every behaviour.
THEOREM Inductive == Spec => []IInv
<1>1. Init => IInv
  BY ClockAssumption DEF Init, IInv, TypeInv, CallOK, Distinct, Registered, Placed
<1>2. IInv /\ [Next]_vars => IInv'
  BY UpsertStep, RegisterStep, ClientStep DEF Next
<1> QED
  BY <1>1, <1>2, PTL DEF Spec

-----------------------------------------------------------------------------
(* The properties.                                                         *)

\* The list has no more places than there are nodes.
LEMMA ListFits ==
  ASSUME IInv
  PROVE  /\ Cardinality(Nodes) \in Nat
         /\ Len(peers) <= Cardinality(Nodes)
<1> DEFINE f == [i \in 1..Len(peers) |-> peers[i].nodeId]
<1>1. peers \in Seq(Records) /\ Len(peers) \in Nat /\ DOMAIN peers = 1..Len(peers)
  BY DEF IInv, TypeInv
<1>2. f \in [1..Len(peers) -> Nodes]
  <2>1. ASSUME NEW i \in 1..Len(peers) PROVE peers[i].nodeId \in Nodes
    <3>1. peers[i] \in Records
      BY <1>1
    <3> QED
      BY <3>1 DEF Records
  <2> QED
    BY <2>1
<1>3. f \in Injection(1..Len(peers), Nodes)
  BY <1>1, <1>2 DEF Injection, IsInjective, IInv, Distinct
<1>4. Cardinality(1..Len(peers)) <= Cardinality(Nodes)
  BY <1>3, NodesAssumption, FS_Injection
<1>5. Cardinality(1..Len(peers)) = Len(peers)
  BY <1>1, FS_Interval
<1> QED
  BY <1>4, <1>5, NodesAssumption, FS_CardinalityType

\* What the seeder hands out was signed by the node it is about.
THEOREM Authentic == Spec => []RecordsAuthentic
<1>1. IInv => RecordsAuthentic
  BY DEF IInv, TypeInv, CallOK, Registered, RecordsAuthentic
<1> QED
  BY <1>1, Inductive, PTL

\* A call is refused only for a record that its proof is not about.
THEOREM OnlyForeignRefused == Spec => []RefusedOnlyForeign
<1>1. IInv => RefusedOnlyForeign
  BY DEF IInv, TypeInv, CallOK, RefusedOnlyForeign
<1> QED
  BY <1>1, Inductive, PTL

\* getPeers with room for every node leaves out no node that registered.
THEOREM AllListed == Spec => []NobodyCrowdedOut
<1>1. IInv => NobodyCrowdedOut
  <2> SUFFICES ASSUME IInv PROVE NobodyCrowdedOut
    OBVIOUS
  <2>1. peers \in Seq(Records) /\ Len(peers) \in Nat
    BY DEF IInv, TypeInv
  <2>2. Min({Cardinality(Nodes), Len(peers)}) = Len(peers)
    BY <2>1, ListFits DEF Min
  <2>3. SubSeq(peers, 1, Len(peers)) = peers
    BY <2>1
  <2>4. getPeers(Cardinality(Nodes)) = peers
    BY <2>2, <2>3 DEF getPeers
  <2> QED
    BY <2>4 DEF NobodyCrowdedOut, IInv, Placed
<1> QED
  BY <1>1, Inductive, PTL

\* After a registration has been answered, the record is never that of a call
\* that was over before it began; an overlapping call may have replaced it.
THEOREM NeverUndone == Spec => []NotUndone
<1>1. IInv => NotUndone
  <2> SUFFICES ASSUME IInv, NEW c \in Calls, call[c].pc = "done"
               PROVE  \E d \in Calls : /\ call[d].pc = "done"
                                       /\ call[d].p = getRecordFor(call[c].p.nodeId)
                                       /\ d \notin call[c].after
    BY DEF NotUndone
  <2>1. PICK i \in DOMAIN peers, d \in Calls :
          /\ peers[i].nodeId = call[c].p.nodeId
          /\ call[d].pc = "done" /\ call[d].p = peers[i]
          /\ d \notin call[c].after
    BY DEF IInv, Placed
  <2>2. getRecordFor(call[c].p.nodeId) = peers[i]
    BY <2>1, OnlyIndex DEF getRecordFor, IInv, TypeInv
  <2> QED
    BY <2>1, <2>2
<1> QED
  BY <1>1, Inductive, PTL

-----------------------------------------------------------------------------
(* The refinement of SeederStore.                                          *)

\* The node's record after an upsert is the one it brought, and all other
\* nodes keep theirs.
LEMMA RecordAfter ==
  ASSUME IInv, NEW c \in Calls, Upsert(c), NEW n \in Nodes
  PROVE  getRecordFor(n)' = IF n = call[c].p.nodeId THEN call[c].p ELSE getRecordFor(n)
<1> DEFINE p == call[c].p
<1>1. peers' = Upserted(p) /\ p \in Records
  BY DEF Upsert, IInv, TypeInv, CallOK
<1>2. PICK k \in DOMAIN peers' :
        /\ DOMAIN peers' = DOMAIN peers \cup {k}
        /\ peers'[k] = p
        /\ \A i \in DOMAIN peers : i # k => /\ peers'[i] = peers[i]
                                            /\ peers[i].nodeId # p.nodeId
        /\ k \in DOMAIN peers => peers[k].nodeId = p.nodeId
  BY <1>1, UpsertedAt DEF IInv, TypeInv
<1>3. IInv'
  BY UpsertStep
<1>4. IndexOf(n)' = {i \in DOMAIN peers' : peers'[i].nodeId = n}
  BY DEF IndexOf
<1> HIDE DEF p
<1>5. CASE n = p.nodeId
  <2>1. IndexOf(n)' = {k}
    BY <1>2, <1>3, <1>4, <1>5 DEF IInv, Distinct
  <2>2. k \in Int
    BY <1>3 DEF IInv, TypeInv
  <2>3. Min({k}) = k
    BY <2>2 DEF Min
  <2> QED
    BY <1>2, <1>5, <2>1, <2>3 DEF getRecordFor, p
<1>6. CASE n # p.nodeId
  <2>1. IndexOf(n)' = IndexOf(n) /\ k \notin IndexOf(n)
    BY <1>2, <1>4, <1>6 DEF IndexOf
  <2>2. CASE IndexOf(n) = {}
    BY <1>6, <2>1, <2>2 DEF getRecordFor, p
  <2>3. CASE IndexOf(n) # {}
    <3>1. PICK i \in DOMAIN peers : peers[i].nodeId = n /\ i # k
      BY <2>1, <2>3 DEF IndexOf
    <3>2. Min(IndexOf(n)) = i
      BY <3>1, OnlyIndex DEF IInv, TypeInv
    <3> QED
      BY <1>2, <1>6, <2>1, <2>3, <3>1, <3>2 DEF getRecordFor, p
  <2> QED
    BY <2>2, <2>3
<1> QED
  BY <1>5, <1>6 DEF p

\* The seeder's vector, under its lock and with calls that overlap, implements
\* the map of SeederStore: each successful registration updates it once.
THEOREM Refines == Spec => StoreRefined
<1> DEFINE rec  == [n \in Nodes |-> getRecordFor(n)]
           done == {d \in Calls : call[d].pc = "done"}
           ans  == {[call |-> c, p |-> call[c].p] : c \in done}
<1>1. Init => Store!Init
  <2> SUFFICES ASSUME Init PROVE Store!Init
    OBVIOUS
  <2>1. ans = {}
    BY DEF Init
  <2>2. \A n : getRecordFor(n) = NoRecord
    BY DEF Init, getRecordFor, IndexOf
  <2> QED
    BY <2>1, <2>2 DEF Store!Init
<1>2. ASSUME IInv, NEW c \in Calls, Upsert(c)
      PROVE  Store!Next
  <2> DEFINE p == call[c].p
  <2>1. p \in Records /\ call[c].pc = "verified"
    BY <1>2 DEF Upsert, IInv, TypeInv, CallOK
  <2>2. \A d \in Calls : /\ call'[d].p = call[d].p
                         /\ call'[d].pc = IF d = c THEN "done" ELSE call[d].pc
    BY <1>2 DEF Upsert, IInv, TypeInv
  <2>3. done' = done \cup {c}
    BY <2>2
  <2>4. ans' = ans \cup {[call |-> c, p |-> p]}
    BY <2>2, <2>3
  <2>5. \A a \in ans : a.call # c
    BY <2>1
  <2>6. rec' = [rec EXCEPT ![p.nodeId] = p]
    BY <1>2, RecordAfter
  <2> QED
    BY <2>1, <2>4, <2>5, <2>6 DEF Store!Next, Store!Register, Records
<1>3. ASSUME IInv, NEW c \in Calls, registerPeer(c)
      PROVE  rec' = rec /\ ans' = ans
  <2>1. peers' = peers /\ call[c].pc = "idle"
    BY <1>3 DEF registerPeer
  <2>2. /\ \A d \in Calls : d # c => call'[d] = call[d]
        /\ call'[c].pc # "done"
    BY <1>3 DEF registerPeer, IInv, TypeInv
  <2>3. done' = done /\ \A d \in done : call'[d].p = call[d].p
    BY <2>1, <2>2
  <2> QED
    BY <2>1, <2>3 DEF getRecordFor, IndexOf
<1>4. ASSUME IInv, Tick \/ (\E key \in Nodes : buildSeederProof(key)) \/ UNCHANGED vars
      PROVE  rec' = rec /\ ans' = ans
  <2>1. peers' = peers /\ call' = call
    BY <1>4 DEF Tick, buildSeederProof, vars
  <2> QED
    BY <2>1 DEF getRecordFor, IndexOf
<1>5. IInv /\ [Next]_vars => [Store!Next]_<<rec, ans>>
  BY <1>2, <1>3, <1>4 DEF Next
<1> QED
  BY <1>1, <1>5, Inductive, PTL DEF Spec, StoreRefined, Store!Spec
=============================================================================
