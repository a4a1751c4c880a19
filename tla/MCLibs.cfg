CONSTANTS
  Vals = {1, 23}
  Cap = 3
  Positions <- MCPositions
  MaxOps = 5
  Seps <- MCSeps
  Firsts = {1, 2}
  Lasts = {3}
  Probe = 23
  BufferSize = 2
  MinStack = 6
  Pats <- MCPats
  Repls <- MCRepls
  Inits <- MCInits
  MaxNs = {1}
  Ranges <- MCRanges
  Counts = {0, 2}
  BitsInt = 16
  MaxCStack = 8000
  Unpacks <- MCUnpacks
  Selects <- MCSelects
  Bases = {2, 16, 37}
  c1 = c1
  c2 = c2
  A = A
  B = B
  Cos = {c1, c2}
  Mods = {A, B}
  ModName <- MCModName
  EnvPath <- MCEnvPath
  EnvCPath <- NoEnv
  DefPath <- MCDefPath
  DefCPath <- MCDefCPath
  Readable <- MCReadable
  Compiles <- MCCompiles
  CLibs = {}
  Exports = {}
  Preload = {}
  MaxKey = 5
  MaxSteps = 8
  MaxDepth = 3
SPECIFICATION USpec
INVARIANT MatchesSequence
INVARIANT ConcatJoins
INVARIANT BufferWithinLimit
INVARIANT StringCallsAsManual
INVARIANT BaseCallsAsManual
INVARIANT CoStatusAsManual
INVARIANT ResumeChainSimple
INVARIANT LoadedOnce
INVARIANT SentinelMeansLoopOrError
INVARIANT FindFileAsManual
INVARIANT RefsUnique
INVARIANT NoLeak
