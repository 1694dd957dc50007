SPECIFICATION Spec
CONSTANTS
  MaxFrames = 6
  MaxGap = 1
  PseqMod = 3
  Short = 1
  Long = 3
  LongFrames = {2, 5}
  Fec = 1
  Wait = 1
  MaxLate = 1
  MaxInFlight = 3
  MaxDelay = 2
  Keep = 1
  MaxMishaps = 1
  Inputs = {"a", "b"}
  FrameTags <- MCFrameTags
  OddTags <- MCOddTags
  Phases = 2
  MaxSubchannels = 2
  MaxPackets = 3
  MaxOdd = 1
  MaxChunk = 3
  MaxDisconnects = 1
  Modes = {"mpe", "gse", "udp"}
  SectionLen <- MCSectionLen
  OtherAddress = {4}
  TsBody = 3
  PsiHeader = 2
  CcMod = 3
  PduLen <- MCPduLen
  BBFrames <- MCBBFrames
  FrameLen = 2
  OtherStream = {3}
  FragIds = 2
  MaxLost = 4
  SymSize = 4
  GfPoly = 19
  NRoots = 6
  CrcPoly = 7
  Codings <- MCCodings
  ChunkMax = 9
  MaxPayload = 4
  MaxMissing = 4
  MaxDamaged = 1
  SourceFrames <- MCSourceFrames
  Alignments = {0, 8, 16}
  DestOptions = {"d", "p", "t"}
  Address = "d"
  MaxOptions = 6
INVARIANTS TypeOK DeliveredIntact OrderKept AbandonsInTime NoneGivenUp
           MessagePhases  NoPacketLost ForwardedIntact LossBounded
           FecCorrects FrameSurvives OptionsGrouped
CHECK_DEADLOCK FALSE
