CONSTANTS
  ZeroAddress = Zero
  Stranger = Stranger
  ByteSize = 256
  WordSize = 16777216
  ChainIds = {1337}
  SignedIds = {1337}
  Clients = {Alice}
  Bodies <- MCBodies
  AddressSize = 20
  WordBytes = 32
SPECIFICATION Spec
CHECK_DEADLOCK FALSE
INVARIANT
  DecodesAsSigned
