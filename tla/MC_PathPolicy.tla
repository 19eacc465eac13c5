--------------------------- MODULE MC_PathPolicy ---------------------------
EXTENDS PathPolicy, ServerMain

Abs(cs)   == [abs |-> TRUE, comps |-> cs, trail |-> FALSE]
Dir(cs)   == [abs |-> TRUE, comps |-> cs, trail |-> TRUE]
Rel(cs)   == [abs |-> FALSE, comps |-> cs, trail |-> FALSE]

\* The server runs in /srv, started as
\*   netcopy_server -l 0.0.0.0:1245 -a /srv/
\* beside a ./server.conf whose [paths] lists two directories:
\*   allowed_paths = /srv , /etc/
MC_ServerConf ==
  << <<"[", "paths", "]">>,
     <<"allowed_paths", " ", "=", " ", "/", "srv", " ", ",", " ", "/", "etc", "/">> >>
MC_Started ==
  server_main(<<"-l", "0.0.0.0:1245", "-a", "/srv/">>,
              "server.conf" :> MC_ServerConf, "", "k")
MC_Bases == MC_Started.allowed_paths

MC_Cwd == <<"srv">>
MC_DotNames == {".x"}
\* /, /srv, /srv/d and /etc exist as directories.
MC_ExistingDirs == {<<>>, <<"srv">>, <<"srv", "d">>, <<"etc">>}

\* Destinations: a plain file beneath the base, a ".." escape, a look-alike
\* sibling, a trailing separator, an existing directory, a relative path,
\* the base itself, a "." / ".." detour that stays inside, and a hidden
\* first name under the base, and a directory /srv/n/ that does not exist
\* yet (its parent is made by the request or the FileData).  The sources
\* are a plain name, "..", and the empty-directory marker.
MC_Dests ==
  { Abs(<<"srv", "d", "a">>), Abs(<<"srv", "..", "etc", "x">>),
    Abs(<<"srv2", "x">>), Dir(<<"srv">>), Abs(<<"srv", "d">>),
    Rel(<<"d", "a">>), Abs(<<"srv">>), Abs(<<"srv", ".", "d", "..", "a">>),
    Abs(<<"srv", ".x", "a">>), Dir(<<"srv", "n">>) }
MC_Sources == {"f", "..", ".netcopy_empty_dir"}
MC_PlainSources == {"f"}
MC_MaxRequests == 2
=============================================================================
