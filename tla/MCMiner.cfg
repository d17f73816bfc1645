CONSTANTS
  Alice = Alice
  Bob = Zero
  Zero = Zero
  Addr = {Alice, Zero}
  ZeroAddress = Zero
  ChainId = 1
  MaxUint = 15
  ReceiptKeys = 256
  Genesis <- MCGenesis
  Submitters = {s1}
  Readers = {}
  Main = Main
  Free = Free
  Txs <- ModestTxs
  MineBlocks = 1
  Times = {0}
  MaxMempool = 1
  Loop = Loop
  External = {w1}
  MaxBlocks = 2
SPECIFICATION MinerSpec
INVARIANTS
  ChainLinked
  MinedIsAnnounced
PROPERTIES
  AppendOnly
  LoopIterates
