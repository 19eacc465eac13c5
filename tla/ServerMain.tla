----------------------------- MODULE ServerMain -----------------------------
(***************************************************************************)
(* What the server's main does before Server::start or run_as_daemon:     *)
(* parse_arguments and parse_listen_address, the search for a             *)
(* configuration file (-c, ./server.conf, the per-user default), and the  *)
(* command line's overrides of what was loaded.  Arguments are TLA+       *)
(* strings; a configuration file is the token lines of ConfigParser.tla.  *)
(*                                                                         *)
(* server_main(argv, files, home, typed) is the outcome of one run: the   *)
(* exit status 1 of a caught exception, 0 for --help, or the settings the *)
(* server is started with.  files maps the names of the files that exist  *)
(* to their lines, home is $HOME ("" when unset) and typed is what the    *)
(* operator types at the secret-key prompt.                                *)
(***************************************************************************)
EXTENDS Naturals, Sequences
LOCAL INSTANCE SequencesExt
LOCAL Cl == INSTANCE ClientMain
LOCAL Cp == INSTANCE ConfigParser

\* A path as std::filesystem sees it, in PathPolicy.tla's form: absolute
\* or not, its filenames, and whether it ends in a separator.
PathOfString(s) ==
  [abs |-> Cl!Char(s, 1) = "/", comps |-> Cl!Names(s),
   trail |-> Len(s) > 1 /\ Cl!Char(s, Len(s)) = "/"]
PathOfTokens(v) ==
  [abs |-> v # <<>> /\ v[1] = "/", comps |-> SelectSeq(v, LAMBDA t : t # "/"),
   trail |-> Len(v) > 1 /\ v[Len(v)] = "/"]

-----------------------------------------------------------------------------
(* parse_arguments                                                         *)

\* parse_listen_address: ADDRESS:PORT split at the first colon; an empty
\* address or port, or a port std::stoi cannot read or that lies outside
\* 1..65535, is refused.
parse_listen_address(s) ==
  LET colon == Cl!FindFirstOf(s, {":"})
      addr  == IF colon = 0 THEN "" ELSE SubSeq(s, 1, colon - 1)
      port  == IF colon = 0 THEN 0 ELSE Cl!ParsePort(Cl!From(s, colon + 1))
  IN  [ok |-> colon # 0 /\ addr # "" /\ port # 0, address |-> addr, port |-> port]

NoArgs ==
  [help |-> FALSE, listen_address |-> "", listen_port |-> 1245,
   access_path |-> "", config_file |-> "", daemon |-> FALSE,
   daemon_child |-> FALSE, verbose |-> FALSE, error |-> FALSE]

\* A std::runtime_error out of parse_arguments.
ArgError == [NoArgs EXCEPT !.error = TRUE]

\* parse_arguments' loop from argv[i] on; -l, -a and -c consume argv[i + 1]
\* and throw when it is missing; an unknown argument throws; -h returns at
\* once with what was parsed so far.
RECURSIVE ArgsFrom(_, _, _)
ArgsFrom(argv, i, a) ==
  IF i > Len(argv) THEN a
  ELSE LET arg  == argv[i]
           has  == i + 1 <= Len(argv)
           next == IF has THEN argv[i + 1] ELSE ""
           la   == parse_listen_address(next)
       IN  CASE arg \in {"-h", "--help"} -> [a EXCEPT !.help = TRUE]
             [] arg \in {"-l", "--listen"} ->
                  IF has /\ la.ok
                  THEN ArgsFrom(argv, i + 2, [a EXCEPT !.listen_address = la.address,
                                                       !.listen_port = la.port])
                  ELSE ArgError
             [] arg \in {"-a", "--access"} ->
                  IF has THEN ArgsFrom(argv, i + 2, [a EXCEPT !.access_path = next])
                  ELSE ArgError
             [] arg \in {"-c", "--config"} ->
                  IF has THEN ArgsFrom(argv, i + 2, [a EXCEPT !.config_file = next])
                  ELSE ArgError
             [] arg \in {"-d", "--daemon"} ->
                  ArgsFrom(argv, i + 1, [a EXCEPT !.daemon = TRUE])
             [] arg = "--daemon-child" ->
                  ArgsFrom(argv, i + 1, [a EXCEPT !.daemon_child = TRUE])
             [] arg \in {"-v", "--verbose"} ->
                  ArgsFrom(argv, i + 1, [a EXCEPT !.verbose = TRUE])
             [] OTHER -> ArgError

parse_arguments(argv) == ArgsFrom(argv, 1, NoArgs)

-----------------------------------------------------------------------------
(* server_main                                                             *)

\* common::get_config_directory and get_default_config_path (POSIX).
get_config_directory(home) ==
  IF home # "" THEN home \o "/.config/netcopy" ELSE "./config"
get_default_config_path(home, name) == get_config_directory(home) \o "/" \o name

\* The file server_main loads: -c's, else ./server.conf if it exists,
\* else the per-user default if it exists, else none ("").  A -c file
\* that does not exist makes load_from_file throw.
ConfigPath(a, files, home) ==
  CASE a.config_file # "" -> a.config_file
    [] "server.conf" \in DOMAIN files -> "server.conf"
    [] get_default_config_path(home, "server.conf") \in DOMAIN files ->
         get_default_config_path(home, "server.conf")
    [] OTHER -> ""

\* Server::Server's get_default, or Server::load_config's ServerConfig.
Loaded(path, files) ==
  IF path = "" THEN Cp!ServerConfig(<<>>) ELSE Cp!ServerConfig(files[path])

Exit(code) == [exit |-> code]

\* server_main's overrides: -l replaces listen_address and listen_port,
\* -a replaces allowed_paths by its one directory, -d or --daemon-child
\* sets run_as_daemon (which only the command line decides: start() or
\* run_as_daemon() is chosen by args.daemon, not by the file's setting).
Overrides(a, c) ==
  [daemon |-> a.daemon \/ a.daemon_child,
   listen |-> IF a.listen_address # "" THEN <<a.listen_address, a.listen_port>>
              ELSE <<Cp!Text(c.listen_address), c.listen_port>>,
   allowed_paths |-> IF a.access_path # "" THEN {PathOfString(a.access_path)}
                     ELSE {PathOfTokens(c.allowed_paths[i]) : i \in DOMAIN c.allowed_paths}]

\* server_main up to start() / run_as_daemon(): a parse error, a missing
\* -c file, or no secret key in daemon mode (or an empty one typed at the
\* prompt) is exit status 1; -h is 0.
server_main(argv, files, home, typed) ==
  CHOOSE r \in
    { CASE a.error -> Exit(1)
        [] a.help -> Exit(0)
        [] a.config_file # "" /\ a.config_file \notin DOMAIN files -> Exit(1)
        [] Loaded(ConfigPath(a, files, home), files).secret_key = <<>>
           /\ (a.daemon \/ a.daemon_child \/ typed = "") -> Exit(1)
        [] OTHER -> [exit |-> "start"] @@
                      Overrides(a, Loaded(ConfigPath(a, files, home), files))
      : a \in {parse_arguments(argv)} } : TRUE

=============================================================================
