\* PFTCoding: code words of 15 symbols with 6 parity symbols, chunks of up to 9.
SPECIFICATION CodingSpec
CONSTANTS
  SymSize = 4
  GfPoly = 19
  NRoots = 6
  CrcPoly = 7
  Codings <- MCCodings
  ChunkMax = 9
  MaxPayload = 4
  MaxMissing = 4
  MaxDamaged = 0
INVARIANT FecRecovers
CHECK_DEADLOCK FALSE
