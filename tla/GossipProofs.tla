---------------------------- MODULE GossipProofs ----------------------------
(***************************************************************************)
(* What a node mines is on its way to its peers, for any nodes, any        *)
(* connections between them and any size of the buffers. Each direction of *)
(* a connection is a flow of blocks: those in the pipe, and perhaps one    *)
(* that the sender's broadcast has still to put there. The lemmas about a  *)
(* flow say what mining, sending and receiving make of it; the inductive   *)
(* invariant adds to the property which peers a node has in its list, that *)
(* no list has a peer twice, and that nothing flows towards a node that is *)
(* not in the list.                                                        *)
(***************************************************************************)
EXTENDS Gossip, TLAPS

-----------------------------------------------------------------------------
(* A flow of blocks.                                                       *)

Messages == [type : {"NEW_BLOCK"}, from : Nodes, height : Nat]

\* The blocks in msgs, and then, if coming, one of height top, cover the
\* heights that are due, in increasing order.
Flow(msgs, coming, top, due) ==
  /\ \A i, j \in 1..Len(msgs) : i < j => msgs[i].height < msgs[j].height
  /\ coming => \A i \in 1..Len(msgs) : msgs[i].height < top
  /\ \A h \in due : \/ \E i \in 1..Len(msgs) : msgs[i].height = h
                    \/ coming /\ top = h

\* Nothing flows and nothing is due.
LEMMA FlowEmpty == \A coming, top : Flow(<<>>, coming, top, {})
<1>1. Len(<<>>) = 0 /\ 1..0 = {}
  OBVIOUS
<1> QED
  BY <1>1 DEF Flow

\* A block is mined and is to be sent, or the sender has not got this peer.
LEMMA FlowMine ==
  ASSUME NEW msgs, NEW top, NEW h, NEW due, Flow(msgs, FALSE, top, due)
  PROVE  /\ Flow(msgs, FALSE, h, due)
         /\ (\A i \in 1..Len(msgs) : msgs[i].height < h) => Flow(msgs, TRUE, h, due \cup {h})
  BY DEF Flow

\* The block is sent.
LEMMA FlowSend ==
  ASSUME NEW msgs \in Seq(Messages), NEW m \in Messages, NEW due,
         Flow(msgs, TRUE, m.height, due)
  PROVE  Flow(Append(msgs, m), FALSE, m.height, due)
<1> DEFINE t == Append(msgs, m)
           n == Len(msgs)
<1>1. /\ n \in Nat /\ Len(t) = n + 1 /\ t[n + 1] = m
      /\ \A i \in 1..n : t[i] = msgs[i]
  OBVIOUS
<1> HIDE DEF t
<1>2. ASSUME NEW i \in 1..Len(t), NEW j \in 1..Len(t), i < j
      PROVE  t[i].height < t[j].height
  <2>1. i \in 1..n /\ t[i] = msgs[i]
    BY <1>1, <1>2
  <2>2. CASE j = n + 1
    <3>1. msgs[i].height < m.height
      BY <2>1 DEF Flow
    <3> QED
      BY <1>1, <2>1, <2>2, <3>1
  <2>3. CASE j \in 1..n
    <3>1. msgs[i].height < msgs[j].height
      BY <1>2, <2>1, <2>3 DEF Flow
    <3> QED
      BY <1>1, <2>1, <2>3, <3>1
  <2> QED
    BY <1>1, <2>2, <2>3
<1>3. ASSUME NEW h \in due PROVE \E i \in 1..Len(t) : t[i].height = h
  <2>1. CASE \E i \in 1..n : msgs[i].height = h
    BY <1>1, <2>1
  <2>2. CASE m.height = h
    BY <1>1, <2>2
  <2> QED
    BY <2>1, <2>2 DEF Flow
<1> QED
  BY <1>2, <1>3 DEF Flow, t

\* The first block is received.
LEMMA FlowReceive ==
  ASSUME NEW msgs \in Seq(Messages), msgs # <<>>, NEW coming, NEW top, NEW due,
         Flow(msgs, coming, top, due)
  PROVE  Flow(Tail(msgs), coming, top, due \ {Head(msgs).height})
<1> DEFINE t == Tail(msgs)
           n == Len(msgs)
<1>1. /\ n \in Nat /\ n >= 1 /\ Len(t) = n - 1 /\ Head(msgs) = msgs[1]
      /\ \A i \in 1..(n - 1) : t[i] = msgs[i + 1]
  OBVIOUS
<1> HIDE DEF t
<1>2. ASSUME NEW i \in 1..Len(t), NEW j \in 1..Len(t), i < j
      PROVE  t[i].height < t[j].height
  <2>1. i + 1 \in 1..n /\ j + 1 \in 1..n /\ i + 1 < j + 1
    BY <1>1, <1>2
  <2>2. msgs[i + 1].height < msgs[j + 1].height
    BY <2>1 DEF Flow
  <2> QED
    BY <1>1, <2>2
<1>3. ASSUME coming, NEW i \in 1..Len(t) PROVE t[i].height < top
  <2>1. i + 1 \in 1..n
    BY <1>1
  <2>2. msgs[i + 1].height < top
    BY <1>3, <2>1 DEF Flow
  <2> QED
    BY <1>1, <2>2
<1>4. ASSUME NEW h \in due \ {Head(msgs).height}
      PROVE  (\E i \in 1..Len(t) : t[i].height = h) \/ (coming /\ top = h)
  <2>1. CASE \E i \in 1..n : msgs[i].height = h
    <3>1. PICK i \in 1..n : msgs[i].height = h
      BY <2>1
    <3>2. i # 1
      BY <1>1, <3>1
    <3>3. i - 1 \in 1..Len(t) /\ (i - 1) + 1 = i
      BY <1>1, <3>2
    <3>4. t[i - 1] = msgs[i]
      BY <1>1, <3>3
    <3> QED
      BY <3>1, <3>3, <3>4
  <2>2. CASE coming /\ top = h
    BY <2>2
  <2> QED
    BY <2>1, <2>2 DEF Flow
<1> QED
  BY <1>2, <1>3, <1>4 DEF Flow, t
-----------------------------------------------------------------------------
(* The inductive invariant.                                                *)

\* A sequence of something.
IsSequence(s) == \E S : s \in Seq(S)

\* Node n has connection c in its list.
Listed(n, c) == \E i \in 1..Len(peers[n]) : peers[n][i] = c

GossipTypes ==
  /\ DOMAIN phase = Nodes
  /\ DOMAIN chain = Nodes /\ \A n \in Nodes : IsSequence(chain[n])
  /\ peers \in [Nodes -> Seq(Conns)]
  /\ cast \in [Nodes -> [pc : {"idle", "mined", "sending"}, msg : Messages \cup {NoMessage}, next : Nat]]
  /\ DOMAIN conn = Conns
  /\ DOMAIN pipe = Ends
  /\ DOMAIN owed = Ends

\* A broadcast is about a block of the node's own chain.
CastInv ==
  \A n \in Nodes : cast[n].pc # "idle" =>
    /\ cast[n].msg \in Messages
    /\ cast[n].msg.height < Len(chain[n])
    /\ cast[n].next >= 1

\* A node has a connection in its list once, and only if it dialled or
\* accepted it.
PeersInv ==
  \A n \in Nodes :
    /\ \A i, j \in 1..Len(peers[n]) : peers[n][i] = peers[n][j] => i = j
    /\ \A i \in 1..Len(peers[n]) :
         \/ n = Dialer[peers[n][i]] /\ conn[peers[n][i]] \in {"backlog", "open"}
         \/ n = Listener[peers[n][i]] /\ conn[peers[n][i]] = "open"

\* The flow towards an end of a connection.
EndInv(end) ==
  LET from == Remote(end[1], end[2])
  IN  /\ pipe[end] # <<>> \/ owed[end] # {} => Listed(from, end[1])
      /\ Alive(from) =>
           /\ pipe[end] \in Seq(Messages)
           /\ \A i \in 1..Len(pipe[end]) : pipe[end][i].height < Len(chain[from])
      /\ Alive(from) /\ Alive(end[2]) =>
           Flow(pipe[end], ToCome(from, end[1]), cast[from].msg.height, owed[end])

GossipInv ==
  /\ GossipTypes
  /\ CastInv
  /\ PeersInv
  /\ \A end \in Ends : EndInv(end)

\* Both ends of a connection.
LEMMA EndFacts ==
  /\ \A end \in Ends : /\ end[1] \in Conns /\ end[2] \in Nodes
                       /\ Remote(end[1], end[2]) \in Nodes
                       /\ Remote(end[1], end[2]) # end[2]
                       /\ end = <<end[1], end[2]>>
  /\ \A c \in Conns : \A n \in {Dialer[c], Listener[c]} :
       /\ n \in Nodes
       /\ <<c, Remote(c, n)>> \in Ends
       /\ Remote(c, Remote(c, n)) = n
       /\ \A end \in Ends : end[1] = c /\ Remote(end[1], end[2]) = n => end = <<c, Remote(c, n)>>
<1>1. ASSUME NEW c \in Conns
      PROVE  Dialer[c] \in Nodes /\ Listener[c] \in Nodes /\ Dialer[c] # Listener[c]
  BY ConnsAssumption
<1>2. ASSUME NEW end \in Ends
      PROVE  /\ end[1] \in Conns /\ end[2] \in Nodes
             /\ end[2] = Dialer[end[1]] \/ end[2] = Listener[end[1]]
             /\ end = <<end[1], end[2]>>
  BY DEF Ends
<1>3. ASSUME NEW end \in Ends
      PROVE  Remote(end[1], end[2]) \in Nodes /\ Remote(end[1], end[2]) # end[2]
  BY <1>1, <1>2 DEF Remote
<1>4. ASSUME NEW c \in Conns, NEW n \in {Dialer[c], Listener[c]}
      PROVE  /\ n \in Nodes
             /\ <<c, Remote(c, n)>> \in Ends
             /\ Remote(c, Remote(c, n)) = n
  <2>1. Remote(c, n) \in {Dialer[c], Listener[c]} /\ Remote(c, n) \in Nodes /\ n \in Nodes
    BY <1>1 DEF Remote
  <2>2. Remote(c, Remote(c, n)) = n
    BY <1>1 DEF Remote
  <2> DEFINE m == Remote(c, n)
  <2> HIDE DEF m
  <2>3. <<c, m>> \in Ends
    BY <2>1 DEF Ends, m
  <2> QED
    BY <2>1, <2>2, <2>3 DEF m
<1>5. ASSUME NEW c \in Conns, NEW n \in {Dialer[c], Listener[c]},
             NEW end \in Ends, end[1] = c, Remote(end[1], end[2]) = n
      PROVE  end = <<c, Remote(c, n)>>
  <2>1. Remote(c, n) = end[2]
    BY <1>1, <1>2, <1>5 DEF Remote
  <2> QED
    BY <1>2, <1>5, <2>1
<1> QED
  BY <1>2, <1>3, <1>4, <1>5

\* One more element.
LEMMA AppendSequence ==
  ASSUME NEW s, IsSequence(s), NEW e
  PROVE  IsSequence(Append(s, e)) /\ Len(s) \in Nat /\ Len(Append(s, e)) = Len(s) + 1
<1>1. PICK S : s \in Seq(S)
  BY DEF IsSequence
<1> DEFINE T == S \cup {e}
<1>2. s \in Seq(T) /\ e \in T
  BY <1>1
<1> HIDE DEF T
<1>3. Append(s, e) \in Seq(T) /\ Len(s) \in Nat /\ Len(Append(s, e)) = Len(s) + 1
  BY <1>2
<1> QED
  BY <1>3 DEF IsSequence

\* Nodes that have ended stay so, and chains only grow.
Onward ==
  \A n \in Nodes : /\ phase[n] = "ended" => phase'[n] = "ended"
                   /\ Len(chain[n]) \in Nat /\ Len(chain'[n]) \in Nat
                   /\ Len(chain[n]) <= Len(chain'[n])

\* A flow that a step leaves alone.
LEMMA EndKept ==
  ASSUME Onward, NEW end \in Ends, EndInv(end),
         pipe'[end] = pipe[end], owed'[end] = owed[end],
         Listed(Remote(end[1], end[2]), end[1]) => Listed(Remote(end[1], end[2]), end[1])',
         ToCome(Remote(end[1], end[2]), end[1])' <=> ToCome(Remote(end[1], end[2]), end[1]),
         ToCome(Remote(end[1], end[2]), end[1]) =>
           cast'[Remote(end[1], end[2])].msg = cast[Remote(end[1], end[2])].msg
  PROVE  EndInv(end)'
<1> DEFINE from == Remote(end[1], end[2])
           coming == ToCome(from, end[1])
           after == ToCome(from, end[1])'
           top == cast[from].msg.height
           topAfter == cast'[from].msg.height
<1>1. from \in Nodes /\ end[2] \in Nodes
  BY EndFacts
<1>2. (Alive(from)' => Alive(from)) /\ (Alive(end[2])' => Alive(end[2]))
  BY <1>1 DEF Onward, Alive
<1>3. Listed(from, end[1]) => Listed(from, end[1])'
  OBVIOUS
<1>4. (after <=> coming) /\ (coming => topAfter = top)
  OBVIOUS
<1>5. Flow(pipe[end], coming, top, owed[end]) => Flow(pipe[end], after, topAfter, owed[end])
  <2> HIDE DEF coming, after, top, topAfter
  <2> QED
    BY <1>4 DEF Flow
<1>6. ASSUME Alive(from), pipe[end] \in Seq(Messages),
             \A i \in 1..Len(pipe[end]) : pipe[end][i].height < Len(chain[from])
      PROVE  \A i \in 1..Len(pipe[end]) : pipe[end][i].height < Len(chain'[from])
  <2>1. \A i \in 1..Len(pipe[end]) : pipe[end][i].height \in Nat
    <3>1. \A i \in 1..Len(pipe[end]) : pipe[end][i] \in Messages
      BY <1>6
    <3>2. \A m \in Messages : m.height \in Nat
      BY DEF Messages
    <3> QED
      BY <3>1, <3>2
  <2>2. Len(chain[from]) \in Nat /\ Len(chain'[from]) \in Nat /\ Len(chain[from]) <= Len(chain'[from])
    BY <1>1 DEF Onward
  <2> QED
    BY <1>6, <2>1, <2>2
<1> QED
  BY <1>2, <1>3, <1>5, <1>6 DEF EndInv

\* The same, when the sender's list and broadcast stay as they are.
LEMMA SenderKept ==
  ASSUME Onward, NEW end \in Ends, EndInv(end),
         pipe'[end] = pipe[end], owed'[end] = owed[end],
         cast'[Remote(end[1], end[2])] = cast[Remote(end[1], end[2])],
         peers'[Remote(end[1], end[2])] = peers[Remote(end[1], end[2])]
  PROVE  EndInv(end)'
<1>1. Listed(Remote(end[1], end[2]), end[1]) => Listed(Remote(end[1], end[2]), end[1])'
  BY DEF Listed
<1>2. ToCome(Remote(end[1], end[2]), end[1])' <=> ToCome(Remote(end[1], end[2]), end[1])
  BY DEF ToCome
<1> QED
  BY <1>1, <1>2, EndKept
-----------------------------------------------------------------------------
(* The steps.                                                              *)

\* The chains of the nodes, after one of them has grown or none has.
LEMMA ChainsOnward ==
  ASSUME GossipTypes,
         \/ chain' = chain
         \/ \E n \in Nodes : \E b : chain' = [chain EXCEPT ![n] = Append(@, b)]
  PROVE  /\ DOMAIN chain' = Nodes /\ \A n \in Nodes : IsSequence(chain'[n])
         /\ \A n \in Nodes : /\ Len(chain[n]) \in Nat /\ Len(chain'[n]) \in Nat
                             /\ Len(chain[n]) <= Len(chain'[n])
<1>1. /\ DOMAIN chain = Nodes
      /\ \A n \in Nodes : IsSequence(chain[n]) /\ Len(chain[n]) \in Nat
  BY AppendSequence DEF GossipTypes
<1>2. CASE chain' = chain
  BY <1>1, <1>2
<1>3. CASE \E n \in Nodes : \E b : chain' = [chain EXCEPT ![n] = Append(@, b)]
  <2>0. PICK n \in Nodes : \E b : chain' = [chain EXCEPT ![n] = Append(@, b)]
    BY <1>3
  <2>1. PICK b : chain' = [chain EXCEPT ![n] = Append(@, b)]
    BY <2>0
  <2>2. IsSequence(Append(chain[n], b)) /\ Len(Append(chain[n], b)) = Len(chain[n]) + 1
    BY <1>1, AppendSequence
  <2> DEFINE s == Append(chain[n], b)
  <2>3. chain' = [chain EXCEPT ![n] = s]
    BY <2>1
  <2> HIDE DEF s
  <2>4. DOMAIN chain' = Nodes /\ \A m \in Nodes : chain'[m] = IF m = n THEN s ELSE chain[m]
    BY <1>1, <2>3
  <2>5. IsSequence(s) /\ Len(s) = Len(chain[n]) + 1
    BY <2>2 DEF s
  <2>6. ASSUME NEW m \in Nodes
        PROVE  /\ IsSequence(chain'[m]) /\ Len(chain[m]) \in Nat
               /\ Len(chain'[m]) \in Nat /\ Len(chain[m]) <= Len(chain'[m])
    <3>1. CASE m = n
      <4>1. chain'[m] = s /\ Len(chain[m]) \in Nat
        BY <1>1, <2>4, <3>1
      <4> QED
        BY <2>5, <3>1, <4>1
    <3>2. CASE m # n
      BY <1>1, <2>4, <3>2
    <3> QED
      BY <3>1, <3>2
  <2> QED
    BY <2>4, <2>6
<1> QED
  BY <1>2, <1>3

\* A broadcast goes on being about a block of the chain.
LEMMA CastKept ==
  ASSUME GossipTypes, CastInv, Onward,
         \A n \in Nodes : cast'[n].pc # "idle" =>
           /\ cast[n].pc # "idle"
           /\ cast'[n].msg = cast[n].msg /\ cast'[n].next >= 1
  PROVE  CastInv'
<1> SUFFICES ASSUME NEW n \in Nodes, cast'[n].pc # "idle"
             PROVE  /\ cast'[n].msg \in Messages
                    /\ cast'[n].msg.height < Len(chain'[n])
                    /\ cast'[n].next >= 1
  BY DEF CastInv
<1>1. cast[n].msg \in Messages /\ cast[n].msg.height < Len(chain[n])
  BY DEF CastInv
<1>2. cast[n].msg.height \in Nat
  BY <1>1 DEF Messages
<1>3. Len(chain[n]) \in Nat /\ Len(chain'[n]) \in Nat /\ Len(chain[n]) <= Len(chain'[n])
  BY DEF Onward
<1> QED
  BY <1>1, <1>2, <1>3

\* A peer is added: nothing has flowed to it before.
LEMMA PeerAdded ==
  ASSUME GossipInv, NEW c \in Conns, NEW n,
         \/ n = Dialer[c] /\ conn[c] = "new" /\ conn' = [conn EXCEPT ![c] = "backlog"]
         \/ n = Listener[c] /\ conn[c] = "backlog" /\ conn' = [conn EXCEPT ![c] = "open"],
         peers' = [peers EXCEPT ![n] = Append(@, c)],
         UNCHANGED <<phase, chain, cast, pipe, owed>>
  PROVE  GossipInv'
<1> DEFINE s == peers[n]
           t == Append(s, c)
<1>1. n \in Nodes /\ n \in {Dialer[c], Listener[c]} /\ Dialer[c] # Listener[c]
  BY ConnsAssumption
<1>2. GossipTypes /\ CastInv /\ PeersInv /\ \A end \in Ends : EndInv(end)
  BY DEF GossipInv
<1>3. /\ s \in Seq(Conns) /\ t \in Seq(Conns) /\ Len(s) \in Nat /\ Len(t) = Len(s) + 1
      /\ t[Len(s) + 1] = c /\ \A i \in 1..Len(s) : t[i] = s[i]
  <2>1. s \in Seq(Conns)
    BY <1>1, <1>2 DEF GossipTypes
  <2> HIDE DEF s
  <2> QED
    BY <2>1
<1>4. \A i \in 1..Len(s) : s[i] # c
  BY <1>1, <1>2 DEF PeersInv
<1>5. DOMAIN peers = Nodes
  BY <1>2 DEF GossipTypes
<1>6. /\ peers'[n] = t
      /\ \A m \in Nodes : m # n => peers'[m] = peers[m]
      /\ DOMAIN peers' = Nodes
  BY <1>1, <1>5
<1>7. peers' \in [Nodes -> Seq(Conns)]
  <2>1. peers \in [Nodes -> Seq(Conns)]
    BY <1>2 DEF GossipTypes
  <2> DEFINE S == Seq(Conns)
  <2>2. peers' = [peers EXCEPT ![n] = t] /\ t \in S /\ peers \in [Nodes -> S]
    BY <1>3, <2>1
  <2> HIDE DEF t, S
  <2>3. peers' \in [Nodes -> S]
    BY <2>2
  <2> QED
    BY <2>3 DEF S
<1>8. GossipTypes' /\ Onward
  <2>1. DOMAIN conn' = Conns
    BY <1>2 DEF GossipTypes
  <2>2. \A m \in Nodes : Len(chain[m]) \in Nat
    BY <1>2, AppendSequence DEF GossipTypes
  <2> QED
    BY <1>2, <1>7, <2>1, <2>2 DEF GossipTypes, Onward
<1>9. CastInv'
  BY <1>2 DEF CastInv
<1> HIDE DEF s, t
<1>10. PeersInv'
  <2> SUFFICES ASSUME NEW m \in Nodes
               PROVE  /\ \A i, j \in 1..Len(peers'[m]) : peers'[m][i] = peers'[m][j] => i = j
                      /\ \A i \in 1..Len(peers'[m]) :
                           \/ m = Dialer[peers'[m][i]] /\ conn'[peers'[m][i]] \in {"backlog", "open"}
                           \/ m = Listener[peers'[m][i]] /\ conn'[peers'[m][i]] = "open"
    BY DEF PeersInv
  <2> DEFINE Right(x, d, v) == \/ x = Dialer[d] /\ v \in {"backlog", "open"}
                               \/ x = Listener[d] /\ v = "open"
  <2>1. DOMAIN conn = Conns /\ \A d \in Conns : d # c => conn'[d] = conn[d]
    BY <1>2 DEF GossipTypes
  <2>2. Right(n, c, conn'[c])
    BY <1>2 DEF GossipTypes
  <2>3. ASSUME NEW x \in Nodes, NEW d \in Conns, Right(x, d, conn[d])
        PROVE  Right(x, d, conn'[d])
    BY <1>1, <2>1, <2>2, <2>3
  <2>4. \A x \in Nodes : \A i \in 1..Len(peers[x]) : peers[x][i] \in Conns /\ Right(x, peers[x][i], conn[peers[x][i]])
    <3>1. \A x \in Nodes : peers[x] \in Seq(Conns)
      BY <1>2 DEF GossipTypes
    <3> QED
      BY <1>2, <3>1 DEF PeersInv
  <2>5. \A x \in Nodes : \A i, j \in 1..Len(peers[x]) : peers[x][i] = peers[x][j] => i = j
    BY <1>2 DEF PeersInv
  <2> HIDE DEF Right
  <2>6. CASE m # n
    <3>1. peers'[m] = peers[m]
      BY <1>6, <2>6
    <3>2. \A i \in 1..Len(peers[m]) : Right(m, peers[m][i], conn'[peers[m][i]])
      BY <2>3, <2>4
    <3>5. \A i, j \in 1..Len(peers[m]) : peers[m][i] = peers[m][j] => i = j
      BY <2>5
    <3>3. \A i, j \in 1..Len(peers'[m]) : peers'[m][i] = peers'[m][j] => i = j
      BY ONLY <3>1, <3>5
    <3>4. \A i \in 1..Len(peers'[m]) : Right(m, peers'[m][i], conn'[peers'[m][i]])
      BY <3>1, <3>2
    <3> QED
      BY ONLY <3>3, <3>4 DEF Right
  <2>7. CASE m = n
    <3>1. \A i \in 1..Len(t) : i \in 1..Len(s) \/ i = Len(s) + 1
      BY <1>3
    <3>2. \A i, j \in 1..Len(s) : s[i] = s[j] => i = j
      BY <1>1, <2>5 DEF s
    <3>3. \A i, j \in 1..Len(t) : t[i] = t[j] => i = j
      BY <1>3, <1>4, <3>1, <3>2
    <3>4. \A i \in 1..Len(s) : Right(n, s[i], conn'[s[i]])
      BY <1>1, <2>3, <2>4 DEF s
    <3>5. \A i \in 1..Len(t) : Right(n, t[i], conn'[t[i]])
      BY <1>3, <2>2, <3>1, <3>4
    <3> QED
      BY <1>6, <2>7, <3>3, <3>5 DEF Right
  <2> QED
    BY <2>6, <2>7
<1>11. ASSUME NEW end \in Ends PROVE EndInv(end)'
  <2> DEFINE from == Remote(end[1], end[2])
  <2>1. from \in Nodes /\ end[1] \in Conns
    BY EndFacts
  <2>2. EndInv(end)
    BY <1>2
  <2>3. CASE from # n
    <3>1. peers'[from] = peers[from] /\ cast'[from] = cast[from]
      BY <1>6, <2>1, <2>3
    <3> QED
      BY <1>8, <2>2, <3>1, SenderKept
  <2>4. CASE from = n /\ end[1] # c
    <3> HIDE DEF from
    <3>1. Listed(from, end[1]) <=> Listed(from, end[1])'
      <4>1. \A i \in 1..Len(t) : i \in 1..Len(s) \/ i = Len(s) + 1
        BY <1>3
      <4>2. \A i \in 1..Len(s) : i \in 1..Len(t)
        BY <1>3
      <4>3. peers[from] = s /\ peers'[from] = t
        BY <1>6, <2>4 DEF s
      <4> QED
        BY <1>3, <2>4, <4>1, <4>2, <4>3 DEF Listed
    <3>2. ToCome(from, end[1])' <=> ToCome(from, end[1])
      <4> DEFINE k == cast[from].next
      <4>1. k \in Nat
        BY <1>2, <2>1 DEF GossipTypes
      <4>2. peers[from] = s /\ peers'[from] = t /\ cast' = cast
        BY <1>6, <2>4 DEF s
      <4>3. ToCome(from, end[1]) <=> cast[from].pc # "idle" /\ \E i \in k..Len(s) : s[i] = end[1]
        BY <4>2 DEF ToCome
      <4>4. ToCome(from, end[1])' <=> cast[from].pc # "idle" /\ \E i \in k..Len(t) : t[i] = end[1]
        BY <4>2 DEF ToCome
      <4> HIDE DEF k
      <4>5. \A i \in k..Len(t) : i = Len(s) + 1 \/ i \in k..Len(s)
        BY <1>3, <4>1
      <4>6. \A i \in k..Len(s) : i \in k..Len(t)
        BY <1>3, <4>1
      <4>7. CASE k >= 1
        <5>1. \A i \in k..Len(s) : t[i] = s[i]
          BY <1>3, <4>1, <4>7
        <5> QED
          BY <1>3, <2>4, <4>3, <4>4, <4>5, <4>6, <5>1
      <4>8. CASE k = 0
        <5>1. cast[from].pc = "idle"
          BY <1>2, <2>1, <4>8 DEF CastInv, k
        <5> QED
          BY <4>3, <4>4, <5>1
      <4> QED
        BY <4>1, <4>7, <4>8
    <3>3. cast'[from].msg = cast[from].msg /\ pipe'[end] = pipe[end] /\ owed'[end] = owed[end]
      OBVIOUS
    <3> QED
      BY <1>8, <2>2, <3>1, <3>2, <3>3, EndKept DEF from
  <2>5. CASE from = n /\ end[1] = c
    <3>1. ~Listed(from, end[1])
      BY <1>4, <2>5 DEF Listed, s
    <3>2. pipe[end] = <<>> /\ owed[end] = {}
      BY <2>2, <3>1 DEF EndInv
    <3>3. pipe'[end] = <<>> /\ owed'[end] = {}
      BY <3>2
    <3>4. <<>> \in Seq(Messages) /\ Len(<<>>) = 0 /\ 1..0 = {}
      OBVIOUS
    <3> QED
      BY <3>3, <3>4, FlowEmpty DEF EndInv
  <2> QED
    BY <2>3, <2>4, <2>5
<1> QED
  BY <1>8, <1>9, <1>10, <1>11 DEF GossipInv

\* A node dials.
LEMMA ConnectStep ==
  ASSUME GossipInv, NEW c \in Conns, connectTo(c)
  PROVE  GossipInv'
<1>1. CASE CanConnect(c)
  BY <1>1, PeerAdded DEF connectTo, AddPeer
<1>2. CASE ~CanConnect(c)
  <2>1. /\ conn[c] = "new" /\ conn' = [conn EXCEPT ![c] = "failed"]
        /\ UNCHANGED <<peers, phase, chain, cast, pipe, owed>>
    BY <1>2 DEF connectTo
  <2>2. GossipTypes /\ CastInv /\ PeersInv /\ \A end \in Ends : EndInv(end)
    BY DEF GossipInv
  <2>3. GossipTypes' /\ CastInv'
    BY <2>1, <2>2 DEF GossipTypes, CastInv
  <2>4. PeersInv'
    <3>1. \A n \in Nodes : \A i \in 1..Len(peers[n]) : peers[n][i] # c /\ peers[n][i] \in Conns
      <4>1. \A n \in Nodes : peers[n] \in Seq(Conns)
        BY <2>2 DEF GossipTypes
      <4> QED
        BY <2>1, <2>2, <4>1 DEF PeersInv
    <3>2. \A d \in Conns : d # c => conn'[d] = conn[d]
      BY <2>1, <2>2 DEF GossipTypes
    <3> QED
      BY <2>1, <2>2, <3>1, <3>2 DEF PeersInv
  <2>5. \A end \in Ends : EndInv(end)'
    BY <2>1, <2>2 DEF EndInv, Listed, ToCome, Alive
  <2> QED
    BY <2>3, <2>4, <2>5 DEF GossipInv
<1> QED
  BY <1>1, <1>2

\* A node accepts a connection.
LEMMA AcceptStep ==
  ASSUME GossipInv, NEW c \in Conns, acceptLoop(c)
  PROVE  GossipInv'
  BY PeerAdded DEF acceptLoop, AddPeer

\* The height of a block is the length of the chain it is mined for.
LEMMA TemplateIndex == \A n, txs : Template(n, txs).index = Len(chain[n])
  BY DEF Template, NewBlock

\* A node mines a block: it is due to the peers of the node, and to come.
LEMMA MineStep ==
  ASSUME GossipInv, NEW n \in Nodes, Mine(n)
  PROVE  GossipInv'
<1> DEFINE h == Len(chain[n])
           m == NewBlockMessage(n, h)
<1>1. GossipTypes /\ CastInv /\ PeersInv /\ \A end \in Ends : EndInv(end)
  BY DEF GossipInv
<1>2. PICK txs \in Mempools :
        /\ chain' = [chain EXCEPT ![n] = Append(@, Template(n, txs))]
        /\ cast' = [cast EXCEPT ![n] = [pc |-> "mined", msg |-> m, next |-> 1]]
        /\ owed' = [end \in Ends |-> IF Contains(peers[n], end[1]) /\ end[2] # n
                                     THEN owed[end] \cup {h} ELSE owed[end]]
  <2> DEFINE Done(b, k) ==
               /\ chain' = [chain EXCEPT ![n] = Append(@, b)]
               /\ cast' = [cast EXCEPT ![n] = [pc |-> "mined", msg |-> NewBlockMessage(n, k), next |-> 1]]
               /\ owed' = [end \in Ends |-> IF Contains(peers[n], end[1]) /\ end[2] # n
                                            THEN owed[end] \cup {k} ELSE owed[end]]
  <2>1. \E txs \in Mempools : Done(Template(n, txs), Template(n, txs).index)
    BY DEF Mine
  <2> HIDE DEF Done
  <2>2. \E txs \in Mempools : Done(Template(n, txs), h)
    BY <2>1, TemplateIndex
  <2> QED
    BY <2>2 DEF Done
<1>3. UNCHANGED <<phase, peers, conn, pipe>> /\ cast[n].pc = "idle" /\ Alive(n)
  BY DEF Mine, Alive
<1>4. /\ DOMAIN chain' = Nodes /\ \A x \in Nodes : IsSequence(chain'[x])
      /\ \A x \in Nodes : /\ Len(chain[x]) \in Nat /\ Len(chain'[x]) \in Nat
                          /\ Len(chain[x]) <= Len(chain'[x])
  BY <1>1, <1>2, ChainsOnward
<1>5. h \in Nat /\ Len(chain'[n]) = h + 1
  <2>1. chain'[n] = Append(chain[n], Template(n, txs))
    BY <1>1, <1>2 DEF GossipTypes
  <2> QED
    BY <1>1, <2>1, AppendSequence DEF GossipTypes
<1>6. m \in Messages /\ m.height = h
  BY <1>5 DEF Messages, NewBlockMessage
<1> HIDE DEF h, m
<1>7. /\ cast'[n] = [pc |-> "mined", msg |-> m, next |-> 1]
      /\ \A x \in Nodes : x # n => cast'[x] = cast[x]
  BY <1>1, <1>2 DEF GossipTypes
<1>8. Onward
  BY <1>3, <1>4 DEF Onward
<1>9. GossipTypes'
  <2> DEFINE R == [pc : {"idle", "mined", "sending"}, msg : Messages \cup {NoMessage}, next : Nat]
             r == [pc |-> "mined", msg |-> m, next |-> 1]
  <2>1. r \in R
    BY <1>6
  <2>2. cast \in [Nodes -> R] /\ cast' = [cast EXCEPT ![n] = r]
    BY <1>1, <1>2 DEF GossipTypes
  <2> HIDE DEF R, r
  <2>3. cast' \in [Nodes -> R]
    BY <2>1, <2>2
  <2>4. DOMAIN owed' = Ends
    BY <1>2
  <2> QED
    BY <1>1, <1>3, <1>4, <2>3, <2>4 DEF GossipTypes, R
<1>10. CastInv'
  <2> SUFFICES ASSUME NEW x \in Nodes, cast'[x].pc # "idle"
               PROVE  /\ cast'[x].msg \in Messages
                      /\ cast'[x].msg.height < Len(chain'[x])
                      /\ cast'[x].next >= 1
    BY DEF CastInv
  <2>1. CASE x = n
    BY <1>5, <1>6, <1>7, <2>1
  <2>2. CASE x # n
    <3>1. cast'[x] = cast[x]
      BY <1>7, <2>2
    <3>2. cast[x].msg \in Messages /\ cast[x].msg.height < Len(chain[x]) /\ cast[x].next >= 1
      BY <1>1, <3>1 DEF CastInv
    <3>3. cast[x].msg.height \in Nat
      BY <3>2 DEF Messages
    <3> QED
      BY <1>4, <3>1, <3>2, <3>3
  <2> QED
    BY <2>1, <2>2
<1>11. PeersInv'
  BY <1>1, <1>3 DEF PeersInv
<1>12. ASSUME NEW end \in Ends PROVE EndInv(end)'
  <2> DEFINE from == Remote(end[1], end[2])
             c == end[1]
  <2>1. from \in Nodes /\ c \in Conns /\ end[2] \in Nodes /\ from # end[2]
    BY EndFacts
  <2>2. EndInv(end)
    BY <1>1
  <2>3. Contains(peers[n], c) <=> Listed(n, c)
    BY DEF Contains, Listed
  <2>4. owed'[end] = IF Listed(n, c) /\ end[2] # n THEN owed[end] \cup {h} ELSE owed[end]
    BY <1>2, <2>3
  <2>5. CASE from # n
    <3>1. ~(Listed(n, c) /\ end[2] # n)
      <4>1. Listed(n, c) => n = Dialer[c] \/ n = Listener[c]
        BY <1>1 DEF PeersInv, Listed
      <4>2. end[2] = Dialer[c] \/ end[2] = Listener[c]
        BY DEF Ends
      <4> QED
        BY <2>5, <4>1, <4>2 DEF Remote
    <3>2. owed'[end] = owed[end]
      BY <2>4, <3>1
    <3>3. peers'[from] = peers[from] /\ cast'[from] = cast[from] /\ pipe'[end] = pipe[end]
      BY <1>3, <1>7, <2>1, <2>5
    <3> QED
      BY <1>8, <2>2, <3>2, <3>3, SenderKept
  <2>6. CASE from = n
    <3> DEFINE msgs == pipe[end]
               due == owed[end]
               top == cast[n].msg.height
               coming == ToCome(n, c)
    <3>1. ~coming
      BY <1>3 DEF ToCome
    <3>2. /\ msgs # <<>> \/ due # {} => Listed(n, c)
          /\ msgs \in Seq(Messages)
          /\ \A i \in 1..Len(msgs) : msgs[i].height < h
          /\ Alive(end[2]) => Flow(msgs, coming, top, due)
      BY <1>3, <2>2, <2>6 DEF EndInv, h
    <3>3. pipe'[end] = msgs /\ cast'[n].msg.height = h /\ (Alive(end[2])' <=> Alive(end[2]))
      BY <1>3, <1>6, <1>7 DEF Alive
    <3>4. ToCome(n, c)' <=> Listed(n, c)
      <4>1. cast'[n].pc # "idle" /\ cast'[n].next = 1 /\ peers'[n] = peers[n]
        BY <1>3, <1>7
      <4> QED
        BY <4>1 DEF ToCome, Listed
    <3>5. Listed(n, c)' <=> Listed(n, c)
      BY <1>3 DEF Listed
    <3>6. \A i \in 1..Len(msgs) : msgs[i].height < Len(chain'[n])
      <4>1. \A i \in 1..Len(msgs) : msgs[i] \in Messages
        BY <3>2
      <4>2. \A x \in Messages : x.height \in Nat
        BY DEF Messages
      <4> QED
        BY <1>5, <3>2, <4>1, <4>2
    <3> DEFINE after == ToCome(n, c)'
               dueAfter == owed'[end]
    <3>7. ASSUME Alive(end[2]) PROVE Flow(msgs, after, h, dueAfter)
      <4>1. Flow(msgs, FALSE, top, due)
        <5> HIDE DEF coming
        <5> QED
          BY <3>1, <3>2, <3>7 DEF Flow
      <4>2. CASE Listed(n, c)
        <5>1. dueAfter = due \cup {h}
          BY <2>1, <2>4, <2>6, <4>2
        <5>2. Flow(msgs, TRUE, h, due \cup {h})
          BY <3>2, <4>1, FlowMine
        <5> HIDE DEF after, dueAfter
        <5>3. after
          BY <3>4, <4>2 DEF after
        <5> QED
          BY <5>1, <5>2, <5>3 DEF Flow
      <4>3. CASE ~Listed(n, c)
        <5>1. dueAfter = due
          BY <2>4, <4>3
        <5>2. Flow(msgs, FALSE, h, due)
          BY <4>1, FlowMine
        <5> HIDE DEF after, dueAfter
        <5>3. ~after
          BY <3>4, <4>3 DEF after
        <5> QED
          BY <5>1, <5>2, <5>3 DEF Flow
      <4> QED
        BY <4>2, <4>3
    <3>8. dueAfter # {} => Listed(n, c) \/ due # {}
      BY <2>4
    <3> HIDE DEF msgs, due, dueAfter, after
    <3>9. EndInv(end)'
      BY <2>6, <3>2, <3>3, <3>5, <3>6, <3>7, <3>8 DEF EndInv, after, dueAfter
    <3> QED
      BY <3>9
  <2> QED
    BY <2>5, <2>6
<1> QED
  BY <1>9, <1>10, <1>11, <1>12 DEF GossipInv

\* Where a broadcast is: at a peer of the sender, which is to come and then
\* is not any more.
LEMMA SendFacts ==
  ASSUME GossipInv, NEW n \in Nodes, Sending(n), SendsLeft(n)
  PROVE  /\ cast[n].next \in 1..Len(peers[n])
         /\ Peer(n) \in Conns /\ n \in {Dialer[Peer(n)], Listener[Peer(n)]}
         /\ Listed(n, Peer(n))
         /\ ToCome(n, Peer(n))
         /\ \A i \in (cast[n].next + 1)..Len(peers[n]) : peers[n][i] # Peer(n)
<1> DEFINE k == cast[n].next
           s == peers[n]
<1>1. GossipTypes /\ CastInv /\ PeersInv
  BY DEF GossipInv
<1>2. cast[n].pc = "sending" /\ k <= Len(s)
  BY DEF Sending, SendsLeft
<1>3. s \in Seq(Conns) /\ Len(s) \in Nat /\ k \in Nat
  BY <1>1 DEF GossipTypes
<1>4. k >= 1
  BY <1>1, <1>2 DEF CastInv
<1>5. k \in 1..Len(s) /\ k \in k..Len(s)
  BY <1>2, <1>3, <1>4
<1>6. s[k] \in Conns /\ (n = Dialer[s[k]] \/ n = Listener[s[k]])
  BY <1>1, <1>3, <1>5 DEF PeersInv
<1>7. ASSUME NEW i \in (k + 1)..Len(s) PROVE s[i] # s[k]
  <2>1. i \in 1..Len(s) /\ i # k
    BY <1>3, <1>4
  <2>2. \A x, y \in 1..Len(s) : s[x] = s[y] => x = y
    BY <1>1 DEF PeersInv
  <2> HIDE DEF s, k
  <2> QED
    BY <1>5, <2>1, <2>2
<1>8. ToCome(n, Peer(n)) /\ Listed(n, Peer(n))
  BY <1>2, <1>5 DEF ToCome, Listed, Peer
<1> QED
  BY <1>5, <1>6, <1>7, <1>8 DEF Peer

\* The broadcast goes on to the next peer: the other flows stay as they are.
LEMMA NextPeer ==
  ASSUME GossipInv, NEW n \in Nodes, Sending(n), SendsLeft(n),
         cast' = [cast EXCEPT ![n].next = @ + 1], UNCHANGED <<peers, owed>>, Onward,
         NEW end \in Ends, end # <<Peer(n), Remote(Peer(n), n)>>, pipe'[end] = pipe[end]
  PROVE  EndInv(end)'
<1> DEFINE from == Remote(end[1], end[2])
           k == cast[n].next
           s == peers[n]
           c == end[1]
<1>1. GossipTypes /\ EndInv(end)
  BY DEF GossipInv
<1>2. from \in Nodes /\ c \in Conns
  BY EndFacts
<1>3. /\ \A x \in Nodes : x # n => cast'[x] = cast[x]
      /\ cast'[n].pc = cast[n].pc /\ cast'[n].msg = cast[n].msg /\ cast'[n].next = k + 1
  BY <1>1 DEF GossipTypes
<1>4. CASE from # n
  BY <1>1, <1>2, <1>3, <1>4, SenderKept
<1>5. CASE from = n
  <2>1. c # Peer(n)
    <3> DEFINE d == Peer(n)
    <3>1. d \in Conns /\ n \in {Dialer[d], Listener[d]}
      BY SendFacts
    <3> HIDE DEF d
    <3>2. c = d => end = <<d, Remote(d, n)>>
      BY <1>5, <3>1, EndFacts
    <3> QED
      BY <3>2 DEF d
  <2>2. Listed(from, c)' <=> Listed(from, c)
    BY DEF Listed
  <2>3. ToCome(from, c)' <=> ToCome(from, c)
    <3>1. k \in Nat /\ Len(s) \in Nat /\ s[k] = Peer(n)
      BY <1>1 DEF GossipTypes, Peer
    <3>2. ToCome(n, c) <=> cast[n].pc # "idle" /\ \E i \in k..Len(s) : s[i] = c
      BY DEF ToCome
    <3>3. ToCome(n, c)' <=> cast[n].pc # "idle" /\ \E i \in (k + 1)..Len(s) : s[i] = c
      BY <1>3 DEF ToCome
    <3> HIDE DEF k, s
    <3>4. \A i \in k..Len(s) : i = k \/ i \in (k + 1)..Len(s)
      BY <3>1
    <3>5. \A i \in (k + 1)..Len(s) : i \in k..Len(s)
      BY <3>1
    <3> QED
      BY <1>5, <2>1, <3>1, <3>2, <3>3, <3>4, <3>5
  <2>4. cast'[from].msg = cast[from].msg /\ owed'[end] = owed[end]
    BY <1>3, <1>5
  <2> HIDE DEF from, c
  <2> QED
    BY <1>1, <2>2, <2>3, <2>4, EndKept DEF from, c
<1> QED
  BY <1>4, <1>5

\* What the step of a broadcast to the next peer leaves of the rest.
LEMMA NextPeerRest ==
  ASSUME GossipInv, NEW n \in Nodes,
         cast' = [cast EXCEPT ![n].next = @ + 1],
         UNCHANGED <<phase, chain, peers, conn, owed>>, DOMAIN pipe' = Ends
  PROVE  GossipTypes' /\ Onward /\ CastInv' /\ PeersInv'
<1>1. GossipTypes /\ CastInv /\ PeersInv
  BY DEF GossipInv
<1> DEFINE R == [pc : {"idle", "mined", "sending"}, msg : Messages \cup {NoMessage}, next : Nat]
           r == [cast[n] EXCEPT !.next = @ + 1]
<1>2. cast \in [Nodes -> R] /\ cast' = [cast EXCEPT ![n] = r] /\ cast[n] \in R
  BY <1>1 DEF GossipTypes
<1>3. r \in R /\ r.pc = cast[n].pc /\ r.msg = cast[n].msg /\ r.next = cast[n].next + 1 /\ cast[n].next \in Nat
  BY <1>2
<1> HIDE DEF R, r
<1>4. cast' \in [Nodes -> R] /\ cast'[n] = r /\ \A x \in Nodes : x # n => cast'[x] = cast[x]
  BY <1>2, <1>3
<1>5. GossipTypes'
  BY <1>1, <1>4 DEF GossipTypes, R
<1>6. Onward
  BY <1>1, AppendSequence DEF GossipTypes, Onward
<1>7. \A x \in Nodes : cast'[x].pc # "idle" =>
        cast[x].pc # "idle" /\ cast'[x].msg = cast[x].msg /\ cast'[x].next >= 1
  <2> SUFFICES ASSUME NEW x \in Nodes, cast'[x].pc # "idle"
               PROVE  cast[x].pc # "idle" /\ cast'[x].msg = cast[x].msg /\ cast'[x].next >= 1
    OBVIOUS
  <2>1. CASE x = n
    BY <1>3, <1>4, <2>1
  <2>2. CASE x # n
    BY <1>1, <1>4, <2>2 DEF CastInv
  <2> QED
    BY <2>1, <2>2
<1>8. CastInv'
  BY <1>1, <1>6, <1>7, CastKept
<1>9. PeersInv'
  BY <1>1 DEF PeersInv
<1> QED
  BY <1>5, <1>6, <1>8, <1>9

\* A block is sent to a peer.
LEMMA SendStep ==
  ASSUME GossipInv, NEW n \in Nodes, Send(n)
  PROVE  GossipInv'
<1>0. PICK c, e, m : c = Peer(n) /\ e = <<c, Remote(c, n)>> /\ m = cast[n].msg
  OBVIOUS
<1>1. GossipTypes /\ CastInv /\ PeersInv /\ \A end \in Ends : EndInv(end)
  BY DEF GossipInv
<1>2. /\ Sending(n) /\ SendsLeft(n) /\ Alive(n)
      /\ pipe' = [pipe EXCEPT ![e] = Append(@, m)]
      /\ cast' = [cast EXCEPT ![n].next = @ + 1]
      /\ UNCHANGED <<phase, chain, peers, conn, owed>>
  BY <1>0 DEF Send, Sending
<1>3. /\ c \in Conns /\ n \in {Dialer[c], Listener[c]} /\ Listed(n, c) /\ ToCome(n, c)
      /\ cast[n].next \in 1..Len(peers[n])
      /\ \A i \in (cast[n].next + 1)..Len(peers[n]) : peers[n][i] # c
  BY <1>0, <1>2, SendFacts
<1>4. e \in Ends /\ e[1] = c /\ e[2] = Remote(c, n) /\ Remote(e[1], e[2]) = n
  BY <1>0, <1>3, EndFacts
<1>5. DOMAIN pipe = Ends /\ DOMAIN pipe' = Ends
  BY <1>1, <1>2 DEF GossipTypes
<1>6. GossipTypes' /\ Onward /\ CastInv' /\ PeersInv'
  BY <1>2, <1>5, NextPeerRest
<1>7. ASSUME NEW end \in Ends, end # e PROVE EndInv(end)'
  BY <1>0, <1>2, <1>5, <1>6, <1>7, NextPeer
<1>8. EndInv(e)'
  <2> DEFINE msgs == pipe[e]
             due == owed[e]
  <2>1. m \in Messages /\ m.height < Len(chain[n])
    BY <1>0, <1>1, <1>2 DEF CastInv, Sending
  <2>2. /\ msgs \in Seq(Messages)
        /\ \A i \in 1..Len(msgs) : msgs[i].height < Len(chain[n])
        /\ Alive(e[2]) => Flow(msgs, ToCome(n, c), m.height, due)
    BY <1>0, <1>1, <1>2, <1>4 DEF EndInv
  <2>3. pipe'[e] = Append(msgs, m) /\ owed'[e] = due /\ Len(chain'[n]) = Len(chain[n])
    BY <1>2, <1>4, <1>5
  <2>4. Alive(e[2])' <=> Alive(e[2])
    BY <1>2 DEF Alive
  <2>5. Listed(n, c)'
    BY <1>2, <1>3 DEF Listed
  <2>6. cast'[n].msg = m /\ cast'[n].next = cast[n].next + 1
    BY <1>0, <1>1, <1>2 DEF GossipTypes
  <2>7. ~ToCome(n, c)'
    BY <1>2, <1>3, <2>6 DEF ToCome
  <2> HIDE DEF msgs, due
  <2>8. Append(msgs, m) \in Seq(Messages)
    BY <2>1, <2>2
  <2>9. \A i \in 1..Len(Append(msgs, m)) : Append(msgs, m)[i].height < Len(chain[n])
    <3> DEFINE t == Append(msgs, m)
    <3>1. /\ Len(msgs) \in Nat /\ Len(t) = Len(msgs) + 1 /\ t[Len(msgs) + 1] = m
          /\ \A i \in 1..Len(msgs) : t[i] = msgs[i]
      BY <2>1, <2>2
    <3> HIDE DEF t
    <3>2. \A i \in 1..Len(t) : i \in 1..Len(msgs) \/ i = Len(msgs) + 1
      BY <3>1
    <3>3. \A i \in 1..Len(t) : t[i].height < Len(chain[n])
      BY <2>1, <2>2, <3>1, <3>2
    <3> QED
      BY <3>3 DEF t
  <2>10. ASSUME Alive(e[2]) PROVE Flow(Append(msgs, m), FALSE, m.height, due)
    <3>1. Flow(msgs, TRUE, m.height, due)
      BY <1>3, <2>2, <2>10 DEF Flow
    <3> QED
      BY <2>1, <2>2, <3>1, FlowSend
  <2> DEFINE after == ToCome(n, c)'
  <2>11. ASSUME Alive(e[2]) PROVE Flow(Append(msgs, m), after, m.height, due)
    <3>1. ~after
      BY <2>7
    <3> HIDE DEF after
    <3> QED
      BY <2>10, <2>11, <3>1 DEF Flow
  <2> QED
    BY <1>4, <2>3, <2>4, <2>5, <2>6, <2>8, <2>9, <2>11 DEF EndInv
<1> QED
  BY <1>6, <1>7, <1>8 DEF GossipInv
\* A step in which processes may end, and nothing moves.
LEMMA NothingMoves ==
  ASSUME GossipInv, DOMAIN phase' = Nodes,
         \A n \in Nodes : phase[n] = "ended" => phase'[n] = "ended",
         UNCHANGED <<chain, peers, cast, conn, pipe, owed>>
  PROVE  GossipInv'
<1>1. GossipTypes /\ CastInv /\ PeersInv /\ \A end \in Ends : EndInv(end)
  BY DEF GossipInv
<1>2. GossipTypes' /\ CastInv' /\ PeersInv'
  BY <1>1 DEF GossipTypes, CastInv, PeersInv
<1>3. Onward
  BY <1>1, AppendSequence DEF GossipTypes, Onward
<1>4. ASSUME NEW end \in Ends PROVE EndInv(end)'
  BY <1>1, <1>3, SenderKept
<1> QED
  BY <1>2, <1>4 DEF GossipInv

\* The peer's process has ended.
LEMMA SendInVainStep ==
  ASSUME GossipInv, NEW n \in Nodes, SendInVain(n)
  PROVE  GossipInv'
<1>1. GossipTypes /\ CastInv /\ PeersInv /\ \A end \in Ends : EndInv(end)
  BY DEF GossipInv
<1>2. CASE phase' = [phase EXCEPT ![n] = "ended"] /\ UNCHANGED cast
  <2>1. DOMAIN phase' = Nodes /\ \A x \in Nodes : phase[x] = "ended" => phase'[x] = "ended"
    BY <1>1, <1>2 DEF GossipTypes
  <2> QED
    BY <1>2, <2>1, NothingMoves DEF SendInVain
<1>3. CASE cast' = [cast EXCEPT ![n].next = @ + 1] /\ UNCHANGED phase
  <2>0. PICK c, e : c = Peer(n) /\ e = <<c, Remote(c, n)>>
    OBVIOUS
  <2>1. /\ Sending(n) /\ SendsLeft(n) /\ ~Alive(Remote(c, n))
        /\ UNCHANGED <<phase, chain, peers, conn, pipe, owed>>
    BY <1>3, <2>0 DEF SendInVain
  <2>2. c \in Conns /\ n \in {Dialer[c], Listener[c]}
    BY <2>0, <2>1, SendFacts
  <2>3. e \in Ends /\ e[1] = c /\ e[2] = Remote(c, n) /\ Remote(e[1], e[2]) = n
    BY <2>0, <2>2, EndFacts
  <2>4. DOMAIN pipe' = Ends
    BY <1>1, <2>1 DEF GossipTypes
  <2>5. GossipTypes' /\ Onward /\ CastInv' /\ PeersInv'
    BY <1>3, <2>1, <2>4, NextPeerRest
  <2>6. ASSUME NEW end \in Ends, end # e PROVE EndInv(end)'
    BY <1>3, <2>0, <2>1, <2>5, <2>6, NextPeer
  <2>7. EndInv(e)'
    <3>1. EndInv(e)
      BY <1>1, <2>3
    <3>2. ~Alive(e[2])'
      BY <2>1, <2>3 DEF Alive
    <3>3. /\ Alive(n)' <=> Alive(n)
          /\ Listed(n, c)' <=> Listed(n, c)
      BY <2>1 DEF Alive, Listed
    <3> QED
      BY <2>1, <2>3, <3>1, <3>2, <3>3 DEF EndInv
  <2> QED
    BY <2>5, <2>6, <2>7 DEF GossipInv
<1> QED
  BY <1>2, <1>3 DEF SendInVain

\* A step of a broadcast that sends nothing.
LEMMA CastStep ==
  ASSUME GossipInv, NEW n \in Nodes, Broadcast(n) \/ BroadcastEnd(n)
  PROVE  GossipInv'
<1> DEFINE R == [pc : {"idle", "mined", "sending"}, msg : Messages \cup {NoMessage}, next : Nat]
<1>1. GossipTypes /\ CastInv /\ PeersInv /\ \A end \in Ends : EndInv(end)
  BY DEF GossipInv
<1>2. UNCHANGED <<phase, chain, peers, conn, pipe, owed>>
  BY DEF Broadcast, BroadcastEnd
<1>3. PICK r \in R :
        /\ cast' = [cast EXCEPT ![n] = r]
        /\ r.pc # "idle" => cast[n].pc # "idle" /\ r.msg = cast[n].msg /\ r.next = cast[n].next
        /\ r.pc = "idle" => \A i \in cast[n].next..Len(peers[n]) : FALSE
  <2>1. CASE Broadcast(n)
    <3> DEFINE r == [cast[n] EXCEPT !.pc = "sending"]
    <3>1. cast[n] \in R
      BY <1>1 DEF GossipTypes
    <3>2. /\ r \in R /\ r.pc = "sending" /\ r.msg = cast[n].msg /\ r.next = cast[n].next
          /\ cast' = [cast EXCEPT ![n] = r] /\ cast[n].pc = "mined"
      BY <2>1, <3>1 DEF Broadcast
    <3> HIDE DEF r
    <3> QED
      BY <3>2
  <2>2. CASE BroadcastEnd(n)
    <3>1. Silent \in R /\ Silent.pc = "idle"
      BY DEF Silent
    <3>2. cast' = [cast EXCEPT ![n] = Silent] /\ ~(cast[n].next <= Len(peers[n]))
      BY <2>2 DEF BroadcastEnd, SendsLeft
    <3>3. cast[n].next \in Nat /\ Len(peers[n]) \in Nat
      BY <1>1 DEF GossipTypes
    <3>4. \A i \in cast[n].next..Len(peers[n]) : FALSE
      BY <3>2, <3>3
    <3> QED
      BY <3>1, <3>2, <3>4
  <2> QED
    BY <2>1, <2>2
<1>4. /\ cast' \in [Nodes -> R]
      /\ cast'[n] = r /\ \A x \in Nodes : x # n => cast'[x] = cast[x]
  <2>1. cast \in [Nodes -> R]
    BY <1>1 DEF GossipTypes
  <2> HIDE DEF R
  <2> QED
    BY <1>3, <2>1
<1>5. GossipTypes' /\ PeersInv'
  BY <1>1, <1>2, <1>4 DEF GossipTypes, PeersInv
<1>6. Onward
  BY <1>1, <1>2, AppendSequence DEF GossipTypes, Onward
<1>7. CastInv'
  <2>1. \A x \in Nodes : cast'[x].pc # "idle" =>
          cast[x].pc # "idle" /\ cast'[x].msg = cast[x].msg /\ cast'[x].next >= 1
    <3> SUFFICES ASSUME NEW x \in Nodes, cast'[x].pc # "idle"
                 PROVE  cast[x].pc # "idle" /\ cast'[x].msg = cast[x].msg /\ cast'[x].next >= 1
      OBVIOUS
    <3>1. CASE x = n
      BY <1>1, <1>3, <1>4, <3>1 DEF CastInv
    <3>2. CASE x # n
      BY <1>1, <1>4, <3>2 DEF CastInv
    <3> QED
      BY <3>1, <3>2
  <2> QED
    BY <1>1, <1>6, <2>1, CastKept
<1>8. ASSUME NEW end \in Ends PROVE EndInv(end)'
  <2> DEFINE from == Remote(end[1], end[2])
             c == end[1]
  <2>1. from \in Nodes
    BY EndFacts
  <2>2. CASE from # n
    <3>1. cast'[from] = cast[from]
      BY <1>4, <2>1, <2>2
    <3> QED
      BY <1>1, <1>2, <1>6, <3>1, SenderKept
  <2>3. CASE from = n
    <3>1. Listed(from, c) => Listed(from, c)'
      BY <1>2 DEF Listed
    <3>2. ToCome(n, c)' <=> ToCome(n, c)
      BY <1>2, <1>3, <1>4 DEF ToCome
    <3>3. ToCome(n, c) => cast'[n].msg = cast[n].msg
      BY <1>3, <1>4 DEF ToCome
    <3>4. ToCome(from, c)' <=> ToCome(from, c)
      BY <2>3, <3>2
    <3>5. ToCome(from, c) => cast'[from].msg = cast[from].msg
      BY <2>3, <3>3
    <3> QED
      BY <1>1, <1>2, <1>6, <3>1, <3>4, <3>5, EndKept
  <2> QED
    BY <2>2, <2>3
<1> QED
  BY <1>5, <1>7, <1>8 DEF GossipInv
\* A block arrives and is handled: the chain may grow.
LEMMA ReceiveStep ==
  ASSUME GossipInv, NEW e \in Ends, Receive(e[1], e[2])
  PROVE  GossipInv'
<1> DEFINE msgs == pipe[e]
           due == owed[e]
           from == Remote(e[1], e[2])
<1>1. GossipTypes /\ CastInv /\ PeersInv /\ \A end \in Ends : EndInv(end)
  BY DEF GossipInv
<1>2. e = <<e[1], e[2]>> /\ e[2] \in Nodes /\ from \in Nodes
  BY EndFacts
<1>3. /\ Alive(e[2]) /\ msgs # <<>>
      /\ owed' = [owed EXCEPT ![e] = @ \ {Head(pipe[e]).height}]
      /\ pipe' = [pipe EXCEPT ![e] = Tail(@)]
      /\ UNCHANGED <<phase, peers, cast, conn>>
  BY <1>2 DEF Receive, Reading, NextIs
<1>4. \/ chain' = chain
      \/ \E n \in Nodes : \E b : chain' = [chain EXCEPT ![n] = Append(@, b)]
  BY <1>2 DEF Receive, handleNewBlock
<1>5. /\ DOMAIN chain' = Nodes /\ \A x \in Nodes : IsSequence(chain'[x])
      /\ \A x \in Nodes : /\ Len(chain[x]) \in Nat /\ Len(chain'[x]) \in Nat
                          /\ Len(chain[x]) <= Len(chain'[x])
  BY <1>1, <1>4, ChainsOnward
<1>6. Onward
  BY <1>3, <1>5 DEF Onward
<1>7. DOMAIN pipe = Ends /\ DOMAIN owed = Ends
  BY <1>1 DEF GossipTypes
<1>8. /\ pipe'[e] = Tail(msgs) /\ owed'[e] = due \ {Head(msgs).height}
      /\ \A end \in Ends : end # e => pipe'[end] = pipe[end] /\ owed'[end] = owed[end]
  BY <1>3, <1>7
<1>9. GossipTypes' /\ PeersInv'
  BY <1>1, <1>3, <1>5, <1>7 DEF GossipTypes, PeersInv
<1>10. CastInv'
  <2>1. \A x \in Nodes : cast'[x].pc # "idle" =>
          cast[x].pc # "idle" /\ cast'[x].msg = cast[x].msg /\ cast'[x].next >= 1
    BY <1>1, <1>3 DEF CastInv
  <2> QED
    BY <1>1, <1>6, <2>1, CastKept
<1>11. ASSUME NEW end \in Ends, end # e PROVE EndInv(end)'
  BY <1>1, <1>3, <1>6, <1>8, <1>11, SenderKept
<1>12. EndInv(e)'
  <2>1. Listed(from, e[1])
    BY <1>1, <1>3 DEF EndInv
  <2>2. Listed(from, e[1])'
    BY <1>3, <2>1 DEF Listed
  <2>3. /\ Alive(from)' <=> Alive(from)
        /\ ToCome(from, e[1])' <=> ToCome(from, e[1])
        /\ cast'[from] = cast[from]
    BY <1>3 DEF Alive, ToCome
  <2> DEFINE coming == ToCome(from, e[1])
             after == ToCome(from, e[1])'
             top == cast[from].msg.height
  <2>4. ASSUME Alive(from)
        PROVE  /\ Tail(msgs) \in Seq(Messages)
               /\ \A i \in 1..Len(Tail(msgs)) : Tail(msgs)[i].height < Len(chain'[from])
               /\ Flow(Tail(msgs), after, top, due \ {Head(msgs).height})
    <3>1. /\ msgs \in Seq(Messages)
          /\ \A i \in 1..Len(msgs) : msgs[i].height < Len(chain[from])
          /\ Flow(msgs, coming, top, due)
      BY <1>1, <1>3, <2>4 DEF EndInv
    <3>2. after <=> coming
      BY <2>3
    <3> HIDE DEF msgs, due, coming, after, top
    <3>3. /\ Tail(msgs) \in Seq(Messages) /\ Len(msgs) \in Nat /\ Len(Tail(msgs)) = Len(msgs) - 1
          /\ \A i \in 1..Len(Tail(msgs)) : Tail(msgs)[i] = msgs[i + 1]
      BY <1>3, <3>1
    <3>4. Flow(Tail(msgs), coming, top, due \ {Head(msgs).height})
      BY <1>3, <3>1, FlowReceive
    <3>5. Flow(Tail(msgs), after, top, due \ {Head(msgs).height})
      BY <3>2, <3>4 DEF Flow
    <3>6. ASSUME NEW i \in 1..Len(Tail(msgs)) PROVE Tail(msgs)[i].height < Len(chain'[from])
      <4>1. i + 1 \in 1..Len(msgs)
        BY <3>3
      <4>2. msgs[i + 1].height < Len(chain[from]) /\ msgs[i + 1] \in Messages
        BY <3>1, <4>1
      <4>3. msgs[i + 1].height \in Nat
        BY <4>2 DEF Messages
      <4> QED
        BY <1>2, <1>5, <3>3, <4>2, <4>3
    <3> QED
      BY <3>3, <3>5, <3>6
  <2> HIDE DEF msgs, due
  <2> QED
    BY <1>8, <2>2, <2>3, <2>4 DEF EndInv
<1> QED
  BY <1>9, <1>10, <1>11, <1>12 DEF GossipInv

\* A fragment comes only from a process that has ended.
LEMMA FragmentStep ==
  ASSUME GossipInv, NEW e \in Ends, ReceivePayload(e[1], e[2]) \/ ReceiveHeader(e[1], e[2])
  PROVE  GossipInv'
<1> DEFINE msgs == pipe[e]
           from == Remote(e[1], e[2])
<1>1. GossipTypes /\ CastInv /\ PeersInv /\ \A end \in Ends : EndInv(end)
  BY DEF GossipInv
<1>2. e = <<e[1], e[2]>> /\ e[2] \in Nodes /\ from \in Nodes
  BY EndFacts
<1>3. /\ msgs # <<>> /\ Head(msgs).type # "NEW_BLOCK"
      /\ pipe' = [pipe EXCEPT ![e] = Tail(@)]
      /\ UNCHANGED <<chain, peers, cast, conn, owed>>
      /\ UNCHANGED phase \/ phase' = [phase EXCEPT ![e[2]] = "ended"]
  BY <1>2 DEF ReceivePayload, ReceiveHeader, NextIs
<1>4. DOMAIN phase' = Nodes /\ \A x \in Nodes : phase[x] = "ended" => phase'[x] = "ended"
  BY <1>1, <1>2, <1>3 DEF GossipTypes
<1>5. Onward
  BY <1>1, <1>3, <1>4, AppendSequence DEF GossipTypes, Onward
<1>6. DOMAIN pipe = Ends /\ DOMAIN pipe' = Ends /\ \A end \in Ends : end # e => pipe'[end] = pipe[end]
  BY <1>1, <1>3 DEF GossipTypes
<1>7. GossipTypes' /\ CastInv' /\ PeersInv'
  BY <1>1, <1>3, <1>4, <1>6 DEF GossipTypes, CastInv, PeersInv
<1>8. ASSUME NEW end \in Ends, end # e PROVE EndInv(end)'
  BY <1>1, <1>3, <1>5, <1>6, <1>8, SenderKept
<1>9. EndInv(e)'
  <2>1. ~Alive(from)
    <3>1. ASSUME Alive(from) PROVE FALSE
      <4>1. msgs \in Seq(Messages)
        BY <1>1, <3>1 DEF EndInv
      <4>2. Head(msgs) \in Messages
        BY <1>3, <4>1
      <4> QED
        BY <1>3, <4>2 DEF Messages
    <3> QED
      BY <3>1
  <2>2. ~Alive(from)'
    BY <1>2, <1>4, <2>1 DEF Alive
  <2>3. Listed(from, e[1])
    BY <1>1, <1>3 DEF EndInv
  <2>4. Listed(from, e[1])'
    BY <1>3, <2>3 DEF Listed
  <2> QED
    BY <2>2, <2>4 DEF EndInv
<1> QED
  BY <1>7, <1>8, <1>9 DEF GossipInv

\* A process ends, perhaps in the middle of a send.
LEMMA CrashStep ==
  ASSUME GossipInv, NEW n \in Nodes, Crash(n)
  PROVE  GossipInv'
<1>1. GossipTypes /\ CastInv /\ PeersInv /\ \A end \in Ends : EndInv(end)
  BY DEF GossipInv
<1>2. /\ phase' = [phase EXCEPT ![n] = "ended"]
      /\ UNCHANGED <<chain, peers, cast, conn, owed>>
  BY DEF Crash
<1>3. DOMAIN phase' = Nodes /\ phase'[n] = "ended"
      /\ \A x \in Nodes : phase[x] = "ended" => phase'[x] = "ended"
  BY <1>1, <1>2 DEF GossipTypes
<1>4. CASE UNCHANGED pipe
  BY <1>2, <1>3, <1>4, NothingMoves
<1>5. CASE /\ Sending(n) /\ SendsLeft(n)
           /\ \E f \in Fragments :
                pipe' = [pipe EXCEPT ![<<Peer(n), Remote(Peer(n), n)>>] = Append(@, f)]
  <2>0. PICK c, e : c = Peer(n) /\ e = <<c, Remote(c, n)>>
    OBVIOUS
  <2>1. PICK f \in Fragments : pipe' = [pipe EXCEPT ![e] = Append(@, f)]
    BY <1>5, <2>0
  <2>2. c \in Conns /\ n \in {Dialer[c], Listener[c]} /\ Listed(n, c)
    BY <1>5, <2>0, SendFacts
  <2>3. e \in Ends /\ e[1] = c /\ e[2] = Remote(c, n) /\ Remote(e[1], e[2]) = n
    BY <2>0, <2>2, EndFacts
  <2>4. DOMAIN pipe' = Ends /\ \A end \in Ends : end # e => pipe'[end] = pipe[end]
    BY <1>1, <2>1 DEF GossipTypes
  <2>5. Onward
    BY <1>1, <1>2, <1>3, AppendSequence DEF GossipTypes, Onward
  <2>6. GossipTypes' /\ CastInv' /\ PeersInv'
    BY <1>1, <1>2, <1>3, <2>4 DEF GossipTypes, CastInv, PeersInv
  <2>7. ASSUME NEW end \in Ends, end # e PROVE EndInv(end)'
    BY <1>1, <1>2, <2>4, <2>5, <2>7, SenderKept
  <2>8. EndInv(e)'
    <3>1. ~Alive(n)' /\ Listed(n, c)'
      BY <1>2, <1>3, <2>2 DEF Alive, Listed
    <3> QED
      BY <2>3, <3>1 DEF EndInv
  <2> QED
    BY <2>6, <2>7, <2>8 DEF GossipInv
<1> QED
  BY <1>4, <1>5 DEF Crash

\* A node has dialled and listens.
LEMMA ListenStep ==
  ASSUME GossipInv, NEW n \in Nodes, Listen(n)
  PROVE  GossipInv'
<1>1. /\ phase[n] = "dialing" /\ phase' = [phase EXCEPT ![n] = "running"]
      /\ UNCHANGED <<chain, peers, cast, conn, pipe, owed>>
  BY DEF Listen
<1>2. DOMAIN phase = Nodes
  BY DEF GossipInv, GossipTypes
<1>3. DOMAIN phase' = Nodes /\ \A x \in Nodes : phase[x] = "ended" => phase'[x] = "ended"
  BY <1>1, <1>2
<1> QED
  BY <1>1, <1>3, NothingMoves

\* A connection ends.
LEMMA EndOfStreamStep ==
  ASSUME GossipInv, NEW e \in Ends, EndOfStream(e[1], e[2])
  PROVE  GossipInv'
<1>1. UNCHANGED <<phase, chain, peers, cast, conn, pipe, owed>>
  BY DEF EndOfStream
<1>2. DOMAIN phase = Nodes
  BY DEF GossipInv, GossipTypes
<1>3. DOMAIN phase' = Nodes /\ \A x \in Nodes : phase[x] = "ended" => phase'[x] = "ended"
  BY <1>1, <1>2
<1> QED
  BY <1>1, <1>3, NothingMoves

-----------------------------------------------------------------------------

\* Nothing has been mined or sent at the beginning.
LEMMA GossipStart == Init => GossipInv
<1> SUFFICES ASSUME Init PROVE GossipInv
  OBVIOUS
<1>1. GossipTypes
  <2>1. \A n \in Nodes : chain[n] = <<GenesisBlock(Genesis, GenesisTime[n])>>
    BY DEF Init
  <2>2. \A b : IsSequence(<<b>>)
    <3>1. \A b : <<b>> \in Seq({b})
      OBVIOUS
    <3> QED
      BY <3>1 DEF IsSequence
  <2>3. \A n \in Nodes : IsSequence(chain[n])
    BY <2>1, <2>2
  <2> DEFINE R == [pc : {"idle", "mined", "sending"}, msg : Messages \cup {NoMessage}, next : Nat]
  <2>4. Silent \in R
    BY DEF Silent
  <2> HIDE DEF R
  <2>5. cast \in [Nodes -> R]
    BY <2>4 DEF Init
  <2>6. peers \in [Nodes -> Seq(Conns)]
    BY DEF Init
  <2> QED
    BY <2>3, <2>5, <2>6 DEF Init, GossipTypes, R
<1>2. CastInv
  BY DEF Init, CastInv, Silent
<1>3. PeersInv
  <2>1. \A n \in Nodes : peers[n] = <<>>
    BY DEF Init
  <2>2. Len(<<>>) = 0 /\ 1..0 = {}
    OBVIOUS
  <2> QED
    BY <2>1, <2>2 DEF PeersInv
<1>4. ASSUME NEW end \in Ends PROVE EndInv(end)
  <2>1. pipe[end] = <<>> /\ owed[end] = {}
    BY DEF Init
  <2>2. <<>> \in Seq(Messages) /\ Len(<<>>) = 0 /\ 1..0 = {}
    OBVIOUS
  <2> QED
    BY <2>1, <2>2, FlowEmpty DEF EndInv
<1> QED
  BY <1>1, <1>2, <1>3, <1>4 DEF GossipInv

\* Between nodes that run, no block is lost between mining and handling, none
\* is sent twice and none overtakes another: for any set of nodes, any
\* connections and buffers of any size.
THEOREM Delivery == Spec => []BlocksUnderWay
<1>1. GossipInv /\ [Next]_vars => GossipInv'
  <2> SUFFICES ASSUME GossipInv, [Next]_vars PROVE GossipInv'
    OBVIOUS
  <2>1. ASSUME NEW c \in Conns, connectTo(c) \/ acceptLoop(c) PROVE GossipInv'
    BY <2>1, ConnectStep, AcceptStep
  <2>2. ASSUME NEW n \in Nodes, Listen(n) \/ Mine(n) \/ Caster(n) \/ Crash(n) PROVE GossipInv'
    BY <2>2, ListenStep, MineStep, CastStep, SendStep, SendInVainStep, CrashStep DEF Caster
  <2>3. ASSUME NEW e \in Ends, recvLoop(e[1], e[2]) PROVE GossipInv'
    BY <2>3, ReceiveStep, FragmentStep, EndOfStreamStep DEF recvLoop
  <2>4. CASE UNCHANGED vars
    <3>1. UNCHANGED <<phase, chain, peers, cast, conn, pipe, owed>>
      BY <2>4 DEF vars
    <3> QED
      BY <3>1, NothingMoves DEF GossipInv, GossipTypes
  <2> QED
    BY <2>1, <2>2, <2>3, <2>4 DEF Next
<1>2. GossipInv => BlocksUnderWay
  BY DEF GossipInv, EndInv, Flow, BlocksUnderWay
<1> QED
  BY <1>1, <1>2, GossipStart, PTL DEF Spec
=============================================================================
