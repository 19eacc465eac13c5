--------------------------- MODULE MC_ServerAccept ---------------------------
EXTENDS ServerAccept
LOCAL Cp == INSTANCE ConfigParser

CONSTANTS c1, c2, c3, c4

MC_Clients == {c1, c2, c3, c4}
MC_NoStallers == {}
MC_Stallers == {c1}
\* listen(config_.max_connections), from a server.conf whose [network]
\* section sets it to 2.
MC_ServerConf ==
  << <<"[", "network", "]">>,
     <<"listen_port", " ", "=", " ", "1245">>,
     <<"max_connections", " ", "=", " ", "2">> >>
MC_Backlog == Cp!ServerConfig(MC_ServerConf).max_connections
MC_NoCrashers == {}
MC_Crashers == {c2}
MC_Signals == {"SIGINT", "SIGHUP", "SIGTERM"}
MC_NoSignals == {}

=============================================================================
