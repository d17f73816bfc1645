CONSTANTS
  A = A
  B = B
  Alice = Alice
  Zero = Zero
  Addr = {Alice, Zero}
  ZeroAddress = Zero
  ChainId = 1
  MaxUint = 15
  ReceiptKeys = 256
  Nodes = {A, B}
  Conns = {1}
  Dialer <- MCDialer
  Listener <- MCListener
  Platforms = {"posix", "windows"}
  Genesis <- MCGenesis
  GenesisTime <- MCGenesisTime
  Mempools <- MaybePayment
  Buffer = 1
  MaxMined = 1
  MaxCrashes = 0
SPECIFICATION Spec
CHECK_DEADLOCK FALSE
PROPERTY
  Propagation
