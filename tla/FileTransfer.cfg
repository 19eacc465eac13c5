\* Fresh server disk; non-compressible files; up to 3 runs, 1 write error.
CONSTANTS
  Commands <- MC_Commands
  AllowedBases <- MC_AllowedBases
  InitFiles <- MC_InitFiles
  InitDirs <- MC_InitDirs
  BufSize = 2
  MaxRuns = 3
  MaxIOErrors = 1
SPECIFICATION Spec
\* After the last permitted run the client is gone and the server waits in
\* accept(): the system really is quiescent there.
CHECK_DEADLOCK FALSE
INVARIANT TypeOK
INVARIANT CompletedFileMatchesSource
INVARIANT DestinationIsSourcePrefix
INVARIANT EmptyDirectoryMaterialised
INVARIANT TreeCopied
PROPERTY ResumeRunNeverShrinks
PROPERTY RunEventuallyEnds
 
