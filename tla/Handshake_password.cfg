\* The same password typed at the client's and at the server's prompt.
CONSTANTS
  Levels <- MC_Levels
  ClientSecrets <- MC_PasswordClient
  ServerSecrets <- MC_PasswordServer
  KeySize = 2
  \* One key text is enough here: the run is about the password path.
  KeyChars = {"0"}
  ByteSamples <- MC_ByteSamples
  RequireAuth <- BOOLEAN
SPECIFICATION ComposedSpec
\* One connection: it ends established, or with one side failed/closed.
CHECK_DEADLOCK FALSE
PROPERTIES SharedSecretEstablishes
