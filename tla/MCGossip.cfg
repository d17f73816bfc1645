CONSTANTS
  A = A
  B = B
  Alice = Alice
  Zero = Zero
  Addr = {Alice, Zero}
  ZeroAddress = Zero
  ChainId = 1
  MaxUint = 15
  ReceiptKeys = 256
  Nodes = {A, B}
  Conns = {1, 2}
  Dialer <- MCDialer
  Listener <- MCListener
  Platforms = {"posix", "windows"}
  Genesis <- MCGenesis
  GenesisTime <- MCGenesisTime
  Mempools <- NoPayment
  Buffer = 1
  MaxMined = 2
  MaxCrashes = 1
SPECIFICATION Spec
CHECK_DEADLOCK FALSE
INVARIANT
  BlocksUnderWay
PROPERTIES
  BroadcastsReturn
  PeersHear
