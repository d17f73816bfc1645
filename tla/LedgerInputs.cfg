CONSTANTS
  Alice = Alice
  Bob = Bob
  Addr = {Alice, Bob}
  ZeroAddress = Bob
  ChainId = 1
  MaxUint = 7
SPECIFICATION Spec
INVARIANTS
  TypeOK
  FundsCheckExact
  TransferExact
  RootCommits
