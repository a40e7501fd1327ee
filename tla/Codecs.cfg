SPECIFICATION CodecsSpec
CONSTANTS
  AccountBits = 3
  InstanceBits = 2
  TypeBits = 2
  UniverseBits = 2
  Lengths = 32
  BlockSize = 3
  ChunkSize = 2
  Inputs <- AllInputs
INVARIANTS
  SteamIDsHold
  NothingIsMisread
  DescribedAsAsked
