\* Configured keys on both sides (same, 0x-prefixed, different, malformed)
\* for every level, with authentication required.
CONSTANTS
  Levels <- MC_Levels
  ClientSecrets <- MC_ClientSecrets
  ServerSecrets <- MC_ServerSecrets
  RequireAuth <- MC_RequireAuth
  \* Two-byte keys for HexCodec's checks (32 bytes in the code).
  KeySize = 2
  KeyChars <- MC_KeyChars
  ByteSamples <- MC_ByteSamples
SPECIFICATION ComposedSpec
\* One connection: it ends established, or with one side failed/closed.
CHECK_DEADLOCK FALSE
INVARIANTS  NoPlaintextAfterHandshake
\* The key text printed by keygen.
INVARIANTS PrintedKeyReadsBack
PROPERTIES SharedSecretEstablishes
