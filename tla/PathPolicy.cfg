\* Any two FileRequests with any destination, source name and resume flag,
\* each possibly followed by FileData.
CONSTANTS
  Bases <- MC_Bases
  Cwd <- MC_Cwd
  DotNames <- MC_DotNames
  ExistingDirs <- MC_ExistingDirs
  Dests <- MC_Dests
  Sources <- MC_Sources
  MaxRequests <- MC_MaxRequests
SPECIFICATION Spec
\* The peer's requests are bounded; it then stops.
CHECK_DEADLOCK FALSE
INVARIANTS
  TypeOK
  GrantedOnlyBeneathBase
  NothingCreatedOutsideBases
