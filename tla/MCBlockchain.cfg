CONSTANTS
  Alice = Alice
  Bob = Bob
  Zero = Zero
  Addr = {Alice, Bob, Zero}
  ZeroAddress = Zero
  ChainId = 1
  MaxUint = 15
  ReceiptKeys = 1
  Genesis <- MCGenesis
  Submitters = {s1, s2}
  Readers = {r1}
  Main = Main
  Free = Free
  Txs <- MCTxs
  MineBlocks = 2
  Times = {0}
  MaxMempool = 2
SPECIFICATION Spec
INVARIANTS
  TypeOK
  StateContinuity
  BlocksReplay
  NonceCountsExecutions
  SupplyConserved
  NoLookupMisses
  ReceiptsBound
  ReadsSequential
  ChainWalkable
PROPERTIES
  AcceptedTxsKept
  CallsReturn
  AnswersStand
  ExecutesAtomically
