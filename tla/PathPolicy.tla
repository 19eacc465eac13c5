----------------------------- MODULE PathPolicy -----------------------------
(***************************************************************************)
(* How the server's ConnectionHandler turns the destination of a          *)
(* FileRequest into current_file_path_, and where a following FileData is  *)
(* written, for a peer that may send any FileRequest or FileData in any    *)
(* order: is_path_allowed (FileManager::is_path_safe over every allowed    *)
(* base), resolve_path, the source-basename append for directories, the   *)
(* resume probe, and handle_file_data's use of current_file_path_.         *)
(*                                                                         *)
(* A path is [abs, comps, trail]: absolute or not, its filenames, and      *)
(* whether it ends in a separator.  Symbolic links are not modelled, so    *)
(* weakly_canonical is lexically_normal of the absolute path.  Names hold  *)
(* no separator, so convert_to_native_path leaves a path as it is.         *)
(***************************************************************************)
EXTENDS Naturals, Sequences, SequencesExt, TLC

CONSTANTS
  Bases,        \* ServerConfig::allowed_paths
  Cwd,          \* the server's working directory (filenames)
  DotNames,     \* the names in use whose first character is '.'
  ExistingDirs, \* directories on disk, as filenames of absolute paths
  Dests,        \* destination paths a peer may send
  Sources,      \* source basenames a peer may send
  MaxRequests   \* bound: FileRequests on the connection

VARIABLES
  current,   \* current_file_path_
  lastReq,   \* history: the last FileRequest and whether it succeeded
  lastData,  \* history: the path the last FileData since it was written to
  nreq,      \* FileRequests so far
  dirs,      \* the directories on disk, as filenames of normal absolute paths
  files      \* the regular files the connection has written, likewise

vars == <<current, lastReq, lastData, nreq, dirs, files>>

NoPath == [abs |-> FALSE, comps |-> <<>>, trail |-> FALSE]

-----------------------------------------------------------------------------
(* std::filesystem operations.                                             *)

StartsWithDot(c) == c \in DotNames \cup {".", ".."}

\* path::lexically_normal: drop "." filenames, let ".." cancel the
\* filename before it, drop ".." directly under the root; a path ending in
\* "." or a cancelled ".." keeps a trailing separator; an empty relative
\* path becomes ".".
lexically_normal(p) ==
  LET step(st, c) ==
        CASE c = "." -> st
          [] c = ".." /\ st # <<>> /\ Last(st) # ".." -> Front(st)
          [] c = ".." /\ st = <<>> /\ p.abs -> st
          [] OTHER -> Append(st, c)
      cs == FoldLeft(step, <<>>, p.comps)
      lastIsDot == p.comps # <<>> /\ Last(p.comps) \in {".", ".."}
  IN  IF ~p.abs /\ cs = <<>>
      THEN [abs |-> FALSE, comps |-> <<".">>, trail |-> FALSE]
      ELSE [abs |-> p.abs, comps |-> cs,
            trail |-> IF cs = <<>> THEN FALSE
                      ELSE IF lastIsDot THEN Last(cs) # ".." ELSE p.trail]

\* std::filesystem::absolute: a relative path is taken from the cwd.
Absolute(p) ==
  IF p.abs THEN p ELSE [p EXCEPT !.abs = TRUE, !.comps = Cwd \o p.comps]

\* weakly_canonical, with no symbolic links on the way.
weakly_canonical(p) == lexically_normal(Absolute(p))

\* path::lexically_relative of two normal absolute paths: one ".." for
\* each filename of base past the common prefix, then the rest of p; "."
\* when they are the same.
lexically_relative(p, base) ==
  LET k   == Len(LongestCommonPrefix({p.comps, base.comps}))
      rel == [i \in 1..(Len(base.comps) - k) |-> ".."]
               \o SubSeq(p.comps, k + 1, Len(p.comps))
  IN  IF rel = <<>> THEN <<".">> ELSE rel

\* Mutant: only an empty relative path is refused.
is_path_safe_no_dot_test(path, base) ==
  LET rel == lexically_relative(weakly_canonical(lexically_normal(path)),
                                weakly_canonical(lexically_normal(base)))
  IN  rel = <<".">> \/ rel # <<>>

\* FileManager::is_path_safe: the relative path from base to path is "."
\* or does not start with '.'.
is_path_safe(path, base) ==
  LET rel == lexically_relative(weakly_canonical(lexically_normal(path)),
                                weakly_canonical(lexically_normal(base)))
  IN  rel = <<".">> \/ (rel # <<>> /\ ~StartsWithDot(rel[1]))

\* ConnectionHandler::is_path_allowed: safe under some allowed base.
is_path_allowed(path) == \E b \in Bases : is_path_safe(lexically_normal(path), b)

\* Mutant: a relative path is normalised instead of refused.
resolve_path_accepts_relative(path) == lexically_normal(path)

\* ConnectionHandler::resolve_path: absolute paths only, normalised.
resolve_path(path) == IF path.abs THEN lexically_normal(path) ELSE NoPath

IsDirectory(p) == p.abs /\ lexically_normal(p).comps \in dirs

\* The filenames of an absolute path as the kernel resolves it (no
\* symbolic links), and of FileManager::get_directory's parent_path.
OnDisk(p) == lexically_normal(p).comps
ParentOnDisk(p) == OnDisk([p EXCEPT !.comps = Front(@), !.trail = FALSE])
Ancestors(c) == {SubSeq(c, 1, i) : i \in 0..Len(c)}

\* if (!exists(dir)) create_directories(dir, ec): every missing ancestor
\* is made; when one of them is a regular file nothing is made, and the
\* error_code overload does not throw.
create_directories(c) ==
  IF c \in dirs \/ Ancestors(c) \cap files # {} THEN dirs ELSE dirs \cup Ancestors(c)

\* FileManager::write_file_chunk's fstream open (or create) succeeds
\* unless the path is a directory or lies under a regular file.
CanOpen(c, ds) == c \notin ds /\ Ancestors(Front(c)) \cap files = {}

Markers == {".netcopy_dir_marker", ".netcopy_empty_dir"}

\* FileManager::join_path(dir, get_filename(source)): path / name.  A
\* source's filename is never empty here (Sources).
join_path(p, name) == [p EXCEPT !.comps = Append(@, name), !.trail = FALSE]

-----------------------------------------------------------------------------
(* The handler.                                                            *)

\* handle_file_request: is_path_allowed, resolve_path (throws for a
\* relative path), append the source basename when the destination ends
\* in a separator or is a directory, set current_file_path_, the resume
\* probe (file_size throws on a directory), then create the parent
\* directory if it is missing.  Any throw becomes a failed FileResponse;
\* current_file_path_ keeps what it had then.
FileRequest ==
  /\ nreq < MaxRequests
  /\ \E dest \in Dests, source \in Sources, resume \in {0, 1} :
       LET resolved0 == resolve_path(dest)
           resolved  == IF resolved0.trail \/ IsDirectory(resolved0)
                        THEN join_path(resolved0, source) ELSE resolved0
           checked   == is_path_allowed(dest) /\ resolved0 # NoPath
           probeFails == resume > 0 /\ IsDirectory(resolved)
       IN  /\ current' = IF checked THEN resolved ELSE current
           /\ lastReq' = [dest |-> dest, path |-> resolved, resume |-> resume,
                          ok |-> checked /\ ~probeFails]
           /\ dirs' = IF checked /\ ~probeFails
                      THEN create_directories(ParentOnDisk(resolved)) ELSE dirs
  /\ lastData' = NoPath
  /\ nreq' = nreq + 1
  /\ UNCHANGED files

\* handle_file_data: with no current file the FileData is refused.  For
\* a directory marker the parent directory is made; otherwise
\* write_file_chunk makes the parent directory and writes the file, or
\* throws when it cannot open it.  Either way a FileAck answers.
FileData ==
  /\ current # NoPath
  /\ lastData' = current
  /\ IF Last(current.comps) \in Markers
     THEN /\ dirs' = create_directories(ParentOnDisk(current))
          /\ UNCHANGED files
     ELSE LET made == create_directories(ParentOnDisk(current)) IN
          IF CanOpen(OnDisk(current), made)
          THEN dirs' = made /\ files' = files \cup {OnDisk(current)}
          ELSE dirs' = made /\ UNCHANGED files
  /\ UNCHANGED <<current, lastReq, nreq>>

Init ==
  /\ current = NoPath
  /\ lastReq = [dest |-> NoPath, path |-> NoPath, resume |-> 0, ok |-> FALSE]
  /\ lastData = NoPath
  /\ nreq = 0
  /\ dirs = ExistingDirs
  /\ files = {}

\* The peer stops after MaxRequests requests and a FileData.
Next == FileRequest \/ FileData

Spec == Init /\ [][Next]_vars

-----------------------------------------------------------------------------
(* Properties.                                                             *)

\* The reference: p lies at or beneath base, both made normal and absolute.
AtOrBeneath(p, base) ==
  IsPrefix(weakly_canonical(base).comps, weakly_canonical(p).comps)

TypeOK ==
  /\ current = NoPath \/ current.abs
  /\ lastReq.ok \in BOOLEAN
  /\ nreq \in 0..MaxRequests
  /\ ExistingDirs \subseteq dirs

\* Spec 4.7 step 2: a FileRequest is granted only for a destination at or
\* beneath an allowed base, whatever "..", "." or look-alike prefix
\* ("/srv2" against "/srv") it contains.
GrantedOnlyBeneathBase ==
  lastReq.ok => \E b \in Bases : AtOrBeneath(lastReq.dest, b)

\* Spec 4.7: nothing the connection makes on disk, no file written and no
\* directory created by handle_file_request or handle_file_data, lies
\* outside the allowed bases.  The source's basename (possibly "..") is
\* appended after the destination was checked, so this rests on what
\* the file system does with the unchecked path.
NothingCreatedOutsideBases ==
  \A c \in files \cup (dirs \ ExistingDirs) :
    \E b \in Bases : AtOrBeneath([abs |-> TRUE, comps |-> c, trail |-> FALSE], b)

\* Spec 3: a FileData is processed only for the file that the latest
\* FileRequest of the connection established.
DataFollowsLatestRequest ==
  lastData # NoPath => lastReq.ok /\ lastData = lastReq.path

=============================================================================
