CONSTANTS
  ZeroAddress = Zero
  Stranger = Stranger
  ByteSize = 256
  WordSize = 16777216
  ChainIds <- SmallIds
  SignedIds <- SmallIds
  Clients = {Alice}
  Bodies <- MCBodies
  AddressSize = 20
  WordBytes = 32
SPECIFICATION Spec
CHECK_DEADLOCK FALSE
INVARIANTS
  AcceptedAuthentic
  DecodesAsSigned
  BytesRoundTrip
