\* The destination already holds a longer file than the source.
CONSTANTS
  Commands <- MC_ResumeCommands
  AllowedBases <- MC_AllowedBases
  InitFiles <- MC_LongerFiles
  InitDirs <- MC_InitDirs
  BufSize = 2
  MaxRuns = 1
  MaxIOErrors = 0
SPECIFICATION Spec
CHECK_DEADLOCK FALSE
INVARIANT CompletedFileMatchesSource
