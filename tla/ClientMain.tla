----------------------------- MODULE ClientMain -----------------------------
(***************************************************************************)
(* What the client does before and around the protocol: client main's     *)
(* parse_arguments and destination parsing, and the job list that          *)
(* Client::transfer_file and Client::transfer_directory issue.  Strings    *)
(* are TLA+ strings; SubSeq and Len work on them.                          *)
(*                                                                         *)
(* client_main(argv, cfgEmptyDirs, fs) is the set of commands a run may    *)
(* execute: a command is the sequence of jobs FileTransfer.tla runs, and   *)
(* --resume.  fs is the local file system: each top-level name maps to a   *)
(* file (its bytes) or a directory (its entries, as the paths              *)
(* std::filesystem::relative gives them).                                  *)
(***************************************************************************)
EXTENDS Naturals, Sequences
LOCAL INSTANCE SequencesExt

\* The character at position i, "" past the end.
Char(s, i) == IF i \in 1..Len(s) THEN SubSeq(s, i, i) ELSE ""
\* s.substr(i - 1)
From(s, i) == IF i > Len(s) THEN "" ELSE SubSeq(s, i, Len(s))

\* std::string::find_first_of / find_last_of: a position, 0 for npos.
FindFirstOf(s, cs) ==
  LET I == {i \in 1..Len(s) : Char(s, i) \in cs} IN IF I = {} THEN 0 ELSE Min(I)
FindFirstNotOf(s, cs) ==
  LET I == {i \in 1..Len(s) : Char(s, i) \notin cs} IN IF I = {} THEN 0 ELSE Min(I)
FindLastOf(s, cs) ==
  LET I == {i \in 1..Len(s) : Char(s, i) \in cs} IN IF I = {} THEN 0 ELSE Max(I)

DigitChars == {"0", "1", "2", "3", "4", "5", "6", "7", "8", "9"}
DigitValue(c) == FindFirstOf("0123456789", {c}) - 1
RECURSIVE Decimal(_)
Decimal(s) ==
  IF s = "" THEN 0
  ELSE 10 * Decimal(SubSeq(s, 1, Len(s) - 1)) + DigitValue(Char(s, Len(s)))

\* std::stoi(s) followed by the callers' test 1 <= port <= 65535: the port,
\* or 0 when stoi throws (no leading digits, or beyond int) or the value is
\* out of range.  stoi skips leading blanks, takes a sign and then the
\* longest run of digits, ignoring what follows.  More than five
\* significant digits is beyond 65535 whether or not it fits an int.
ParsePort(s) ==
  LET t   == IF FindFirstNotOf(s, {" "}) = 0 THEN "" ELSE From(s, FindFirstNotOf(s, {" "}))
      neg == Char(t, 1) = "-"
      u   == IF Char(t, 1) \in {"+", "-"} THEN From(t, 2) ELSE t
      D   == {i \in 1..Len(u) : \A j \in 1..i : Char(u, j) \in DigitChars}
      n   == IF D = {} THEN 0 ELSE Max(D)
      Z   == {i \in 1..n : \A j \in 1..i : Char(u, j) = "0"}
      sig == n - (IF Z = {} THEN 0 ELSE Max(Z))
      v   == Decimal(SubSeq(u, 1, n))
  IN  IF neg \/ n = 0 \/ sig > 5 \/ v < 1 \/ v > 65535 THEN 0 ELSE v

-----------------------------------------------------------------------------
(* parse_arguments                                                         *)

LevelNames ==
  ("high" :> "HIGH") @@ ("fast" :> "FAST") @@ ("aes" :> "AES")
  @@ ("AES-256-GCM" :> "GCM")

NoArgs ==
  [help |-> FALSE, config |-> "", port |-> 0, recursive |-> FALSE,
   resume |-> FALSE, verbose |-> FALSE, empty_dirs_specified |-> FALSE,
   create_empty_directories |-> TRUE, level |-> "HIGH",
   positional |-> <<>>, error |-> FALSE]

\* A std::runtime_error out of parse_arguments: main prints it and exits.
ArgError == [NoArgs EXCEPT !.error = TRUE]

\* parse_arguments' loop from argv[i] on; an option that takes a value
\* consumes argv[i + 1].
RECURSIVE ArgsFrom(_, _, _)
ArgsFrom(argv, i, a) ==
  IF i > Len(argv) THEN a
  ELSE LET arg  == argv[i]
           has  == i + 1 <= Len(argv)
           next == IF has THEN argv[i + 1] ELSE ""
       IN  CASE arg \in {"-h", "--help"} -> [a EXCEPT !.help = TRUE]
             [] arg \in {"-c", "--config"} ->
                  IF has THEN ArgsFrom(argv, i + 2, [a EXCEPT !.config = next])
                  ELSE ArgError
             [] arg \in {"-p", "--port"} ->
                  IF has /\ ParsePort(next) # 0
                  THEN ArgsFrom(argv, i + 2, [a EXCEPT !.port = ParsePort(next)])
                  ELSE ArgError
             [] arg \in {"-R", "--recursive"} ->
                  ArgsFrom(argv, i + 1, [a EXCEPT !.recursive = TRUE])
             [] arg = "--resume" ->
                  ArgsFrom(argv, i + 1, [a EXCEPT !.resume = TRUE])
             [] arg = "--no-empty-dirs" ->
                  ArgsFrom(argv, i + 1, [a EXCEPT !.empty_dirs_specified = TRUE,
                                                  !.create_empty_directories = FALSE])
             [] arg \in {"-s", "--security"} ->
                  IF has /\ next \in DOMAIN LevelNames
                  THEN ArgsFrom(argv, i + 2, [a EXCEPT !.level = LevelNames[next]])
                  ELSE ArgError
             [] arg \in {"-v", "--verbose"} ->
                  ArgsFrom(argv, i + 1, [a EXCEPT !.verbose = TRUE])
             [] OTHER -> ArgsFrom(argv, i + 1, [a EXCEPT !.positional = Append(@, arg)])

\* parse_arguments: -h returns at once; otherwise exactly two positional
\* arguments, the source and the destination.
parse_arguments(argv) ==
  CHOOSE r \in {IF a.error \/ a.help \/ Len(a.positional) = 2 THEN a ELSE ArgError :
                 a \in {ArgsFrom(argv, 1, NoArgs)}} : TRUE

-----------------------------------------------------------------------------
(* Paths (POSIX build of std::filesystem and common/utils).                *)

\* common::convert_to_unix_path: every backslash becomes a slash.
RECURSIVE convert_to_unix_path(_)
convert_to_unix_path(p) ==
  IF p = "" THEN ""
  ELSE (IF Char(p, 1) = "\\" THEN "/" ELSE Char(p, 1))
         \o convert_to_unix_path(From(p, 2))

\* common::is_absolute_path, non-Windows branch.
is_absolute_path(p) == p # "" /\ Char(p, 1) = "/"

\* FileManager::get_filename: path::filename(), "" after a trailing slash.
get_filename(p) == From(p, FindLastOf(p, {"/"}) + 1)

\* FileManager::get_directory: path::parent_path().
get_directory(p) ==
  LET k == FindLastOf(p, {"/"})
  IN  IF k = 0 THEN "" ELSE IF k = 1 THEN "/" ELSE SubSeq(p, 1, k - 1)

\* FileManager::join_path: path(base) / relative.  An absolute relative
\* replaces base; a separator is added only when base has a filename.
join_path(base, rel) ==
  IF is_absolute_path(rel) THEN rel
  ELSE IF base = "" \/ Char(base, Len(base)) = "/" THEN base \o rel
  ELSE base \o "/" \o rel

\* path::extension() of the filename, and ::tolower on it.
Extension(p) ==
  LET f == get_filename(p)
      k == FindLastOf(f, {"."})
  IN  IF f \in {".", ".."} \/ k <= 1 THEN "" ELSE From(f, k)
Upper == "ABCDEFGHIJKLMNOPQRSTUVWXYZ"
Lower == "abcdefghijklmnopqrstuvwxyz"
RECURSIVE Lowered(_)
Lowered(s) ==
  IF s = "" THEN ""
  ELSE (IF FindFirstOf(Upper, {Char(s, 1)}) = 0 THEN Char(s, 1)
        ELSE Char(Lower, FindFirstOf(Upper, {Char(s, 1)}))) \o Lowered(From(s, 2))

\* common::is_compressible: the extension is not one of the listed
\* already-compressed formats.
NonCompressible ==
  {".jpg", ".jpeg", ".png", ".gif", ".mp3", ".mp4", ".avi", ".zip", ".gz",
   ".bz2", ".rar", ".7z", ".lz4", ".pdf", ".mpg", ".mpeg", ".ogg", ".flac"}
is_compressible(p) == Lowered(Extension(p)) \notin NonCompressible

\* The path a job of FileTransfer.tla carries: the names between slashes.
RECURSIVE Names(_)
Names(p) ==
  IF p = "" THEN <<>>
  ELSE IF Char(p, 1) = "/" THEN Names(From(p, 2))
  ELSE LET k == FindFirstOf(p, {"/"})
       IN  IF k = 0 THEN <<p>> ELSE <<SubSeq(p, 1, k - 1)>> \o Names(From(p, k + 1))

-----------------------------------------------------------------------------
(* client main: the destination argument                                   *)

\* main's normalisation of the remote path: "" and "/" stay; an absolute
\* path gets Unix separators; a relative one also gets a leading slash.
Normalized(remote) ==
  LET u == convert_to_unix_path(remote)
  IN  IF remote \in {"", "/"} THEN remote
      ELSE IF is_absolute_path(remote) \/ Char(u, 1) = "/" THEN u
      ELSE "/" \o u

NoDestination == [error |-> TRUE, address |-> "", port |-> 0, remote |-> ""]

\* Destination formats server, server:, server:/path, server:C:\path and
\* server:port/path; anything else after the colon is a port if stoi
\* reads one (and -p gave none), else a path; a second colon before any
\* separator is an error.  Then an empty address is an error, the port
\* defaults to 1245 and the path is normalised.
ParseDestination(dest, cliPort) ==
  LET colon   == FindFirstOf(dest, {":"})
      address == IF colon = 0 THEN dest ELSE SubSeq(dest, 1, colon - 1)
      after   == IF colon = 0 THEN "" ELSE From(dest, colon + 1)
      slash   == FindFirstOf(after, {"/", "\\"})
      colon2  == FindFirstOf(after, {":"})
      port    == ParsePort(IF slash # 0 THEN SubSeq(after, 1, slash - 1) ELSE after)
      Ok(p, r) == [error |-> FALSE, address |-> address,
                   port |-> IF p = 0 THEN 1245 ELSE p, remote |-> Normalized(r)]
  IN  CASE address = "" -> NoDestination
        [] after = "" -> Ok(cliPort, "/")
        [] Char(after, 1) \in {"/", "\\"} \/ Char(after, 2) = ":" -> Ok(cliPort, after)
        [] colon2 # 0 /\ (slash = 0 \/ colon2 < slash) -> NoDestination
        [] cliPort = 0 /\ port # 0 ->
             Ok(port, IF slash # 0 THEN From(after, slash) ELSE "/")
        [] OTHER -> Ok(cliPort, after)

-----------------------------------------------------------------------------
(* Client::transfer_file, Client::transfer_directory, client main          *)

FileJob(local, dest, bytes) ==
  [kind |-> "file", name |-> local, dest |-> Names(dest), src |-> bytes,
   compressible |-> is_compressible(local)]

\* create_empty_directory sends a FileRequest from ".netcopy_dir_marker".
DirJob(dest) ==
  [kind |-> "dir", name |-> ".netcopy_dir_marker", dest |-> Names(dest),
   src |-> <<>>, compressible |-> FALSE]

\* transfer_directory's loop that records, for each file it sent, the
\* file's directory and every parent up to the root.
RECURSIVE Climb(_)
Climb(d) ==
  IF d \in {"", "/", "."} THEN {}
  ELSE {d} \cup (IF get_directory(d) = d THEN {} ELSE Climb(get_directory(d)))

\* Mutant: the third pass's test is inverted (find(...) != end()).
EmptyDirs_inverted(toCreate, created, createEmpty) ==
  IF createEmpty THEN toCreate \cap created ELSE {}

\* transfer_directory's third pass: with create_empty_directories, the
\* directories to create that no transferred file lies in.
EmptyDirs(toCreate, created, createEmpty) ==
  IF createEmpty THEN toCreate \ created ELSE {}

\* Client::transfer_directory(local, remote, recursive = true): the remote
\* base is remote joined with get_filename(local).  list_directory's
\* recursive_directory_iterator yields the entries in an order the file
\* system chooses, so the files go in any order; then, with
\* create_empty_directories, every directory that no sent file lies in
\* gets a marker, in the order of the std::set (one of the orders here).
transfer_directory(local, remote, createEmpty, entries) ==
  LET base    == join_path(remote, get_filename(local))
      Net(e)  == convert_to_unix_path(join_path(base, e.rel))
      regular == {e \in entries : ~e.dir}
      toCreate == {Net(e) : e \in entries \ regular}
      created == UNION {Climb(get_directory(Net(e))) : e \in regular}
      empty   == EmptyDirs(toCreate, created, createEmpty)
  IN  { [i \in 1..Len(fs) |-> FileJob(join_path(local, fs[i].rel), Net(fs[i]),
                                      fs[i].content)]
        \o [i \in 1..Len(ds) |-> DirJob(ds[i])] :
          fs \in SetToSeqs(regular), ds \in SetToSeqs(empty) }

\* Entries of the local file system.
LocalFile(bytes) == [dir |-> FALSE, exists |-> TRUE, content |-> bytes, entries |-> {}]
LocalDir(entries) == [dir |-> TRUE, exists |-> TRUE, content |-> <<>>, entries |-> entries]
NoEntry == [dir |-> FALSE, exists |-> FALSE, content |-> <<>>, entries |-> {}]

\* The entry of the local file system a source argument names (a
\* trailing slash names the same directory).
LocalName(p) ==
  IF p # "" /\ Char(p, Len(p)) = "/" THEN SubSeq(p, 1, Len(p) - 1) ELSE p

\* client main after connect(): a directory needs -R; a file goes to
\* transfer_file, which throws when it does not exist.  A throw ends the
\* run with no job done (the empty command).
Transfer(a, remote, createEmpty, fs) ==
  LET src == a.positional[1]
  IN  UNION { IF e.dir /\ a.recursive
              THEN transfer_directory(src, remote, createEmpty, e.entries)
              ELSE IF ~e.dir /\ e.exists THEN {<<FileJob(src, remote, e.content)>>}
              ELSE {<<>>} :
              e \in {IF LocalName(src) \in DOMAIN fs THEN fs[LocalName(src)] ELSE NoEntry} }

\* client main once parse_arguments has returned a and the destination
\* parser d: the commands run with the configuration's
\* create_empty_directories (unless --no-empty-dirs overrides it) and the
\* local files.  An argument or destination error exits before connect()
\* (no command).
Run(a, d, cfgEmptyDirs, fs) ==
  IF a.error \/ a.help \/ d.error THEN {}
  ELSE {[jobs |-> j, resume |-> a.resume] :
          j \in Transfer(a, d.remote,
                         IF a.empty_dirs_specified THEN a.create_empty_directories
                         ELSE cfgEmptyDirs, fs)}

\* client main for the command line argv.  Each intermediate result is a
\* bound value, computed once.
client_main(argv, cfgEmptyDirs, fs) ==
  UNION { UNION { Run(a, d, cfgEmptyDirs, fs) :
                  d \in IF a.error \/ a.help THEN {NoDestination}
                        ELSE {ParseDestination(a.positional[2], a.port)} } :
          a \in {parse_arguments(argv)} }

=============================================================================
