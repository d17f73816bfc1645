------------------------------- MODULE Gossip -------------------------------
(***************************************************************************)
(* Nodes that mine (--auto-mining) and tell each other of their blocks:    *)
(* src/p2p_node.cpp, src/p2p_peer.cpp, src/p2p_message.cpp and the wire    *)
(* format of src/block.cpp.                                                *)
(*                                                                         *)
(* A node first dials the seeds, then listens, then mines. A broadcast     *)
(* holds peersMutex_ through blocking sends to all peers; connectTo and    *)
(* acceptLoop need the same mutex to add a peer. Each connection has a     *)
(* thread at both ends that reads messages and handles them. Nothing is    *)
(* passed on and nothing is asked for. A peer is never removed.            *)
(*                                                                         *)
(* A connection carries whole messages in order, at most Buffer of them    *)
(* each way, and stands for TCP; a process that ends in the middle of a    *)
(* send leaves a fragment. Mining is that of Miner in one step: the state  *)
(* never moves, so a block depends on the tip and the mempool only.        *)
(*                                                                         *)
(* The miner is the one thread of a node that broadcasts here. Nothing     *)
(* orders its broadcasts and those of main's --mine-blocks loop, so a node *)
(* that does both may send a higher block first.                           *)
(***************************************************************************)
EXTENDS Block, SequencesExt

CONSTANTS
  Nodes,
  Conns,       \* the connections that nodes attempt in start(), numbered in the
               \* order of the resolved seeds
  Dialer,      \* the node that dials a connection
  Listener,    \* the node it dials
  Platforms,   \* "posix", "windows": which branches of the #ifdefs are built
  Genesis,     \* accounts of the genesis block, the same on all nodes
  GenesisTime, \* when each node made its genesis block
  Mempools,    \* what a mempool may hold when a block is mined
  Buffer,      \* messages that fit a connection, each way
  MaxMined,    \* bound on the blocks mined by each node
  MaxCrashes   \* bound on the processes that end for reasons of their own

ASSUME BoundsAssumption == Buffer \in Nat \ {0} /\ MaxMined \in Nat /\ MaxCrashes \in Nat
ASSUME ConnsAssumption ==
  /\ Conns \subseteq Nat
  /\ Dialer \in [Conns -> Nodes]
  /\ Listener \in [Conns -> Nodes]
  /\ \A c \in Conns : Dialer[c] # Listener[c]

VARIABLES
  platform,
  phase,       \* of each node: dialing, running, ended
  chain,       \* chain_ of each node
  peers,       \* peers_ of each node
  cast,        \* the broadcast of each node's miner: pc, message, next peer
  conn,        \* new, failed, backlog (accept has not returned it), open
  pipe,        \* what is under way to an end of a connection
  loop,        \* recvLoop at an end of a connection: off, on, over
  owed,        \* heights of the blocks that the remote end mined while it had
               \* this connection in its list, and that were not handled here yet
  crashes      \* processes that have ended for reasons of their own

vars == <<platform, phase, chain, peers, cast, conn, pipe, loop, owed, crashes>>

\* An end of a connection, named by the node that reads there.
Ends == {end \in Conns \X Nodes : end[2] \in {Dialer[end[1]], Listener[end[1]]}}

Remote(c, n) == IF n = Dialer[c] THEN Listener[c] ELSE Dialer[c]

Alive(n) == phase[n] # "ended"

Tip(n) == Last(chain[n])

NoMessage == [type |-> "none"]

Silent == [pc |-> "idle", msg |-> NoMessage, next |-> 0]

\* The payload is named by its block: one that node n put on its chain.
NewBlockMessage(n, height) == [type |-> "NEW_BLOCK", from |-> n, height |-> height]

Payload(msg) == rlpEncode(chain[msg.from][msg.height + 1])

Init ==
  /\ platform \in Platforms
  /\ phase = [n \in Nodes |-> "dialing"]
  /\ chain = [n \in Nodes |-> <<GenesisBlock(Genesis, GenesisTime[n])>>]
  /\ peers = [n \in Nodes |-> <<>>]
  /\ cast = [n \in Nodes |-> Silent]
  /\ conn = [c \in Conns |-> "new"]
  /\ pipe = [end \in Ends |-> <<>>]
  /\ loop = [end \in Ends |-> "off"]
  /\ owed = [end \in Ends |-> {}]
  /\ crashes = 0

-----------------------------------------------------------------------------
(* start, connectTo, acceptLoop.                                           *)

\* peersMutex_ of node n is free. While a node dials, nobody else uses it.
PeersFree(n) == cast[n].pc # "sending"

AddPeer(c, n) ==
  /\ peers' = [peers EXCEPT ![n] = Append(@, c)]
  /\ loop' = [loop EXCEPT ![<<c, n>>] = "on"]

\* On Windows start() dials between the WSACleanup of resolveAll and its own
\* WSAStartup, so every socket call fails.
CanConnect(c) == platform = "posix" /\ phase[Listener[c]] = "running"

connectTo(c) ==
  /\ phase[Dialer[c]] = "dialing"
  /\ conn[c] = "new"
  /\ \A d \in Conns : d < c /\ Dialer[d] = Dialer[c] => conn[d] # "new"
  /\ IF CanConnect(c)
     THEN conn' = [conn EXCEPT ![c] = "backlog"] /\ AddPeer(c, Dialer[c])
     ELSE conn' = [conn EXCEPT ![c] = "failed"] /\ UNCHANGED <<peers, loop>>
  /\ UNCHANGED <<platform, phase, chain, cast, pipe, owed, crashes>>

\* The rest of start().
Listen(n) ==
  /\ phase[n] = "dialing"
  /\ \A c \in Conns : Dialer[c] = n => conn[c] # "new"
  /\ phase' = [phase EXCEPT ![n] = "running"]
  /\ UNCHANGED <<platform, chain, peers, cast, conn, pipe, loop, owed, crashes>>

acceptLoop(c) ==
  /\ Alive(Listener[c])
  /\ conn[c] = "backlog"
  /\ PeersFree(Listener[c])
  /\ conn' = [conn EXCEPT ![c] = "open"]
  /\ AddPeer(c, Listener[c])
  /\ UNCHANGED <<platform, phase, chain, cast, pipe, owed, crashes>>

-----------------------------------------------------------------------------
(* Mining and broadcastNewBlock.                                           *)

Executed(txs) == FoldLeft(applyTransaction, Genesis, txs)

\* buildBlockTemplate on a chain whose state is that of the genesis block.
Template(n, txs) ==
  LET before == root(Genesis)
      after  == root(Executed(txs))
      txRoot == computeTxRoot(txs)
  IN  [NewBlock(Len(chain[n]), Tip(n).hash, before, after, txRoot,
                generate(before, after, txRoot), 0)
       EXCEPT !.transactions = txs]

Mine(n) ==
  /\ phase[n] = "running"
  /\ cast[n].pc = "idle"
  /\ Len(chain[n]) <= MaxMined
  /\ \E txs \in Mempools :
       LET b == Template(n, txs)
       IN  /\ chain' = [chain EXCEPT ![n] = Append(@, b)]
           /\ cast' = [cast EXCEPT ![n] = [pc |-> "mined", msg |-> NewBlockMessage(n, b.index), next |-> 1]]
           /\ owed' = [end \in Ends |->
                        IF Contains(peers[n], end[1]) /\ end[2] # n
                        THEN owed[end] \cup {b.index} ELSE owed[end]]
  /\ UNCHANGED <<platform, phase, peers, conn, pipe, loop, crashes>>

\* broadcastNewBlock takes the mutex.
Broadcast(n) ==
  /\ Alive(n)
  /\ cast[n].pc = "mined"
  /\ cast' = [cast EXCEPT ![n].pc = "sending"]
  /\ UNCHANGED <<platform, phase, chain, peers, conn, pipe, loop, owed, crashes>>

\* Mutant: the last peer is left out.
SendsLeftButOne(n) == cast[n].next < Len(peers[n])

SendsLeft(n) == cast[n].next <= Len(peers[n])

Sending(n) == Alive(n) /\ cast[n].pc = "sending"

\* Mutant: every send goes to the first peer.
FirstPeer(n) == peers[n][1]

Peer(n) == peers[n][cast[n].next]

\* The remote end reads, or at least its system does: wait for room.
Send(n) ==
  /\ Sending(n) /\ SendsLeft(n)
  /\ LET end == <<Peer(n), Remote(Peer(n), n)>>
     IN  /\ Alive(end[2])
         /\ Len(pipe[end]) < Buffer
         /\ pipe' = [pipe EXCEPT ![end] = Append(@, cast[n].msg)]
  /\ cast' = [cast EXCEPT ![n].next = @ + 1]
  /\ UNCHANGED <<platform, phase, chain, peers, conn, loop, owed, crashes>>

\* The remote process has ended. The error is ignored; on POSIX it may come
\* as SIGPIPE, which nothing handles.
SendInVain(n) ==
  /\ Sending(n) /\ SendsLeft(n)
  /\ ~Alive(Remote(Peer(n), n))
  /\ \/ cast' = [cast EXCEPT ![n].next = @ + 1] /\ UNCHANGED phase
     \/ /\ platform = "posix"
        /\ phase' = [phase EXCEPT ![n] = "ended"]
        /\ UNCHANGED cast
  /\ UNCHANGED <<platform, chain, peers, conn, pipe, loop, owed, crashes>>

BroadcastEnd(n) ==
  /\ Sending(n) /\ ~SendsLeft(n)
  /\ cast' = [cast EXCEPT ![n] = Silent]
  /\ UNCHANGED <<platform, phase, chain, peers, conn, pipe, loop, owed, crashes>>

-----------------------------------------------------------------------------
(* recvLoop and handleNewBlock.                                            *)

Reading(c, n) == Alive(n) /\ loop[<<c, n>>] = "on"

NextIs(c, n, type) == pipe[<<c, n>>] # <<>> /\ Head(pipe[<<c, n>>]).type = type

Accepts(n, b) ==
  /\ b.index = Len(chain[n])
  /\ b.prevHash = Tip(n).hash
  /\ verify(b.proof)

\* addBlock of what fromHex returns; an exception of fromHex is ignored.
handleNewBlock(n, wire) ==
  chain' = IF Decodes(wire) /\ Accepts(n, fromHex(wire))
           THEN [chain EXCEPT ![n] = Append(@, fromHex(wire))]
           ELSE chain

Fragments == {[type |-> "part of header"], [type |-> "part of payload"]}

\* Mutant: the handler needs peersMutex_.
MayHandleWithPeers(n) == PeersFree(n)

\* The handlers take no lock that a broadcast holds.
MayHandle(n) == TRUE

Receive(c, n) ==
  /\ Reading(c, n) /\ MayHandle(n)
  /\ NextIs(c, n, "NEW_BLOCK")
  /\ handleNewBlock(n, Payload(Head(pipe[<<c, n>>])))
  /\ owed' = [owed EXCEPT ![<<c, n>>] = @ \ {Head(pipe[<<c, n>>]).height}]
  /\ pipe' = [pipe EXCEPT ![<<c, n>>] = Tail(@)]
  /\ UNCHANGED <<platform, phase, peers, cast, conn, loop, crashes>>

\* Part of a payload: the rest is zeros, and no handler decodes it.
ReceivePayload(c, n) ==
  /\ Reading(c, n)
  /\ NextIs(c, n, "part of payload")
  /\ pipe' = [pipe EXCEPT ![<<c, n>>] = Tail(@)]
  /\ UNCHANGED <<platform, phase, chain, peers, cast, conn, loop, owed, crashes>>

\* Part of a header: the length comes from bytes that were never written. The
\* next recv finds the end of the stream, unless the payload of that length
\* cannot be allocated, which ends the process.
ReceiveHeader(c, n) ==
  /\ Reading(c, n)
  /\ NextIs(c, n, "part of header")
  /\ pipe' = [pipe EXCEPT ![<<c, n>>] = Tail(@)]
  /\ \/ loop' = [loop EXCEPT ![<<c, n>>] = "over"] /\ UNCHANGED phase
     \/ phase' = [phase EXCEPT ![n] = "ended"] /\ UNCHANGED loop
  /\ UNCHANGED <<platform, chain, peers, cast, conn, owed, crashes>>

\* recv returns 0 or an error: the loop ends, the peer stays in the list.
EndOfStream(c, n) ==
  /\ Reading(c, n)
  /\ pipe[<<c, n>>] = <<>>
  /\ ~Alive(Remote(c, n))
  /\ loop' = [loop EXCEPT ![<<c, n>>] = "over"]
  /\ UNCHANGED <<platform, phase, chain, peers, cast, conn, pipe, owed, crashes>>

-----------------------------------------------------------------------------
(* A process ends: an exception out of mineBlock, or somebody stops it. A  *)
(* message that is being sent may leave a fragment.                        *)
Crash(n) ==
  /\ Alive(n)
  /\ crashes < MaxCrashes
  /\ crashes' = crashes + 1
  /\ phase' = [phase EXCEPT ![n] = "ended"]
  /\ \/ UNCHANGED pipe
     \/ /\ Sending(n) /\ SendsLeft(n)
        /\ \E f \in Fragments :
             pipe' = [pipe EXCEPT ![<<Peer(n), Remote(Peer(n), n)>>] = Append(@, f)]
  /\ UNCHANGED <<platform, chain, peers, cast, conn, loop, owed>>

Caster(n) == Broadcast(n) \/ Send(n) \/ SendInVain(n) \/ BroadcastEnd(n)

recvLoop(c, n) ==
  Receive(c, n) \/ ReceivePayload(c, n) \/ ReceiveHeader(c, n) \/ EndOfStream(c, n)

Next ==
  \/ \E c \in Conns : connectTo(c) \/ acceptLoop(c)
  \/ \E n \in Nodes : Listen(n) \/ Mine(n) \/ Caster(n) \/ Crash(n)
  \/ \E end \in Ends : recvLoop(end[1], end[2])

\* Threads that are running go on.
Fairness ==
  /\ \A c \in Conns : WF_vars(acceptLoop(c))
  /\ \A n \in Nodes : WF_vars(Caster(n))
  /\ \A end \in Ends : WF_vars(recvLoop(end[1], end[2]))

Spec == Init /\ [][Next]_vars /\ Fairness

-----------------------------------------------------------------------------
(* Properties.                                                             *)

\* The broadcast of node n has not got to connection c yet.
ToCome(n, c) ==
  cast[n].pc # "idle" /\ \E i \in cast[n].next..Len(peers[n]) : peers[n][i] = c

\* While both ends of a connection run, a block that one of them mined after it
\* had the other in its list is under way to it or will be sent by the
\* broadcast that goes on, whatever is accepted, dialled, received and mined
\* meanwhile; and the blocks come in the order of their heights, none twice.
BlocksUnderWay ==
  \A end \in Ends :
    LET from   == Remote(end[1], end[2])
        msgs   == pipe[end]
        coming == ToCome(from, end[1])
    IN  Alive(end[2]) /\ Alive(from) =>
          /\ \A i, j \in 1..Len(msgs) : i < j => msgs[i].height < msgs[j].height
          /\ coming => \A i \in 1..Len(msgs) : msgs[i].height < cast[from].msg.height
          /\ \A h \in owed[end] :
               \/ \E i \in 1..Len(msgs) : msgs[i].height = h
               \/ coming /\ cast[from].msg.height = h

\* Broadcasts do not stay in progress, although a broadcast holds peersMutex_
\* while it waits for room in connections whose other end may itself be
\* broadcasting, or may not have been accepted because the other node's mutex
\* is held. Nodes mine boundedly often, so this says that each one ends.
BroadcastsReturn == []<>(\A n \in Nodes : cast[n].pc = "sending" => ~Alive(n))

\* What a node mines is in the end handled by every peer it had at that time,
\* over every connection, or one of the two nodes ends.
PeersHear ==
  []<>(\A end \in Ends :
         owed[end] = {} \/ ~Alive(end[2]) \/ ~Alive(Remote(end[1], end[2])))

\* "P2P Optimization: Gossip protocol for block propagation"
\* (whitepaper.md:224): once a node has mined and all go on running, a node
\* that is connected to it has a block as well.
Propagation ==
  \A c \in Conns :
    (conn[c] = "open" /\ cast[Dialer[c]].pc = "mined")
      ~> (Len(chain[Listener[c]]) > 1 \/ ~Alive(Dialer[c]) \/ ~Alive(Listener[c]))
=============================================================================
