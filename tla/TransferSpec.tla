---------------------------- MODULE TransferSpec ----------------------------
(***************************************************************************)
(* What NetCopy promises about the server's disk, whatever the client     *)
(* runs, resumes, crashes or write errors: a destination file only ever   *)
(* holds a prefix of its source; it changes by growing into a longer      *)
(* prefix, or by starting over with at most one chunk (a write at offset  *)
(* 0 truncates); directories are never removed; nothing is written or    *)
(* made outside the directories the server serves; and the client reports *)
(* a job done only when its result is on the disk.  FileTransfer.tla        *)
(* implements this specification (FileTransfer!TransferRefined).          *)
(***************************************************************************)
EXTENDS Naturals, Sequences, SequencesExt

CONSTANTS
  Jobs,      \* the jobs any invocation may carry
  BufSize,   \* the size of one chunk
  AllowedBases, \* the directories the server serves
  InitFiles, \* the disk's files at the start
  InitDirs   \* the disk's directories at the start

VARIABLES
  files,  \* regular files: path -> contents
  dirs,   \* directories
  done    \* the jobs the current client run has reported done

vars == <<files, dirs, done>>

FileJobs == {j \in Jobs : j.kind = "file"}

\* At or beneath a served directory.
Served(p) == \E b \in AllowedBases : IsPrefix(b, p)

\* Directories only appear, and only where the server serves.
DirsGrow == dirs \subseteq dirs' /\ \A d \in dirs' \ dirs : Served(d)

Old(p) == IF p \in DOMAIN files THEN files[p] ELSE <<>>

\* The contents a write may leave at the destination of j: a prefix of
\* the source that is longer than what is there, or a first chunk.
Allowed(j) ==
  { s \in {SubSeq(j.src, 1, k) : k \in 0..Len(j.src)} :
      Len(s) > Len(Old(j.dest)) \/ Len(s) <= BufSize }

Write ==
  /\ \E j \in FileJobs : \E s \in Allowed(j) :
       Served(j.dest) /\ files' = (j.dest :> s) @@ files
  /\ DirsGrow
  /\ UNCHANGED done

MakeDirs ==
  /\ DirsGrow
  /\ UNCHANGED <<files, done>>

Finished(j) ==
  IF j.kind = "file" THEN j.dest \in DOMAIN files /\ files[j.dest] = j.src
  ELSE j.dest \in dirs

Complete ==
  /\ \E j \in Jobs : Finished(j) /\ done' = done \cup {j}
  /\ UNCHANGED <<files, dirs>>

NewRun ==
  /\ done' = {}
  /\ UNCHANGED <<files, dirs>>

Init ==
  /\ files = InitFiles
  /\ dirs = InitDirs
  /\ done = {}

Next == Write \/ MakeDirs \/ Complete \/ NewRun

Spec == Init /\ [][Next]_vars

=============================================================================
