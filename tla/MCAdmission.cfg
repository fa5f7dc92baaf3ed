SPECIFICATION FairSpec
CONSTANTS
  r1 = r1
  r2 = r2
  r3 = r3
  r4 = r4
  global = global
  openai = openai
  ollama = ollama
  Callers <- MCCallers
  Bytes <- MCBytes
  IsStream <- MCIsStream
  MaxPayloadBytes = 4
  MaxSinglePayloadBytes = 2
  MaxHeldStreams = 1
  MaxQueueDepth = 1
  Global = global
  Providers <- MCProviders
  ProviderOf <- MCProviderOf
  Limit <- MCLimit
INVARIANTS
  SlotsConserved
  LeasesConserved
  NothingLeftBehind
  RunsFullyAdmitted
PROPERTIES
  ImplementsService
