CONSTANTS
  Alice = Alice
  Bob = Bob
  Zero = Zero
  Addr = {Alice, Bob, Zero}
  ZeroAddress = Zero
  ChainId = 1
  MaxUint = 15
  ReceiptKeys = 256
  Genesis <- MCGenesis
  Submitters = {s1}
  Readers = {}
  Main = Main
  Free = Free
  Txs <- ModestTxs
  MineBlocks = 0
  Times = {0}
  MaxMempool = 1
  Loop = Loop
  External = {}
  MaxBlocks = 3
SPECIFICATION MinerSpec
INVARIANT
  StateAfterAuthoritative
