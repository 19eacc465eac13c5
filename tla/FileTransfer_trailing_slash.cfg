\* netcopy -R d/ 127.0.0.1:/srv: the source directory written with a
\* trailing slash, as in the usage example.
CONSTANTS
  Commands <- MC_SlashCommands
  AllowedBases <- MC_AllowedBases
  InitFiles <- MC_InitFiles
  InitDirs <- MC_InitDirs
  BufSize = 2
  MaxRuns = 1
  MaxIOErrors = 0
SPECIFICATION Spec
CHECK_DEADLOCK FALSE
INVARIANT TreeCopied
