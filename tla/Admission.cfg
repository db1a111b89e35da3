\* int64 is -64 to 63 and a MiB 4 bytes: 15 MiB fit, 16 wrap to a negative.
CONSTANTS
  MaxInt = 63
  BytesPerMiB = 4
  DefaultMaxBody = 8
  DosHeaderLen = 4
  PESigLen = 2
  HeaderLen = 4
  DirEntryLen = 2
  FreeSector = 6
  SectorSize <- MCSectorSize
  CompoundShifts <- MCCompoundShifts
  None = None
  Configs <- MCConfigs
  Embeddings <- MCEmbeddings
  Tokens <- MCTokens
  Uploads <- MCUploads
SPECIFICATION Spec
INVARIANT NoConfigPassedOver
INVARIANT AdmitsTheTrusted
INVARIANT StartedIsUsable
INVARIANT RefusedForCause
INVARIANT InputFits
INVARIANT HealthMeansToken
PROPERTY LimitAsConfigured
\* signerd refuses to start with a bad configuration.
CHECK_DEADLOCK FALSE
