\* A compressible file (.txt): its chunks are LZ4-compressed by the client.
CONSTANTS
  Commands <- MC_CompressCommands
  AllowedBases <- MC_AllowedBases
  InitFiles <- MC_InitFiles
  InitDirs <- MC_InitDirs
  BufSize = 2
  MaxRuns = 1
  MaxIOErrors = 0
SPECIFICATION Spec
CHECK_DEADLOCK FALSE
INVARIANT CompletedFileMatchesSource
