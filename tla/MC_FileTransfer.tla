-------------------------- MODULE MC_FileTransfer ---------------------------
(* Instantiation of FileTransfer for TLC.  The commands are what client   *)
(* main (ClientMain.tla) plans for a few command lines over a small local  *)
(* file system: directory d (a.zip of 3 bytes, empty z.png, empty          *)
(* directory e), file x.gz and the text file t.txt.  Each invocation also  *)
(* carries the tree its user means (spec 4.6: the destination joined with  *)
(* the source directory's name and each relative path).  The server allows *)
(* /srv; a client runs up to MaxRuns times.                                *)
EXTENDS FileTransfer, ClientMain

Tree == { [rel |-> "a.zip", dir |-> FALSE, content |-> <<1, 2, 3>>],
          [rel |-> "z.png", dir |-> FALSE, content |-> <<>>],
          [rel |-> "e", dir |-> TRUE, content |-> <<>>] }

LocalFS == ("d" :> LocalDir(Tree)) @@ ("x.gz" :> LocalFile(<<4>>))
           @@ ("t.txt" :> LocalFile(<<1, 2, 3>>))
           @@ ("d/a.zip" :> LocalFile(<<1, 2, 3>>))

\* client.conf leaves create_empty_directories at its default, true.
CfgEmptyDirs == TRUE

\* What copying tree t into the directory at path base means.
Mirror(base, t) ==
  [files |-> {[dest |-> base \o Names(e.rel), src |-> e.content] :
                e \in {x \in t : ~x.dir}},
   dirs  |-> {base \o Names(e.rel) : e \in {x \in t : x.dir}}]

OneFile(dest, bytes) == [files |-> {[dest |-> dest, src |-> bytes]}, dirs |-> {}]

\* The commands client main runs for the command line argv, each with the
\* tree its user means.
Planned(argv, meant) ==
  {[jobs |-> c.jobs, resume |-> c.resume, expect |-> meant] :
     c \in client_main(argv, CfgEmptyDirs, LocalFS)}

\* The same command line, without and with --resume.
Invocation(argv, meant) ==
  Planned(argv, meant) \cup Planned(argv \o <<"--resume">>, meant)

\* netcopy -R d 127.0.0.1:/srv, and a file to /etc (outside allowed_paths).
MC_Commands ==
  Invocation(<<"-R", "d", "127.0.0.1:/srv">>, Mirror(<<"srv", "d">>, Tree))
  \cup Invocation(<<"x.gz", "127.0.0.1:1245/etc/x.gz">>,
                  OneFile(<<"etc", "x.gz">>, <<4>>))

\* The usage example's form, a source directory written with a trailing
\* slash: netcopy -R d/ 127.0.0.1:/srv.
MC_SlashCommands ==
  Planned(<<"-R", "d/", "127.0.0.1:/srv">>, Mirror(<<"srv", "d">>, Tree))

\* A compressible file (is_compressible: .txt is not in the list).
MC_CompressCommands ==
  Planned(<<"t.txt", "127.0.0.1:/srv/d/t.txt">>,
          OneFile(<<"srv", "d", "t.txt">>, <<1, 2, 3>>))

\* A single file, resumed or not.
MC_ResumeCommands ==
  Invocation(<<"d/a.zip", "127.0.0.1:/srv/d/a.zip">>,
             OneFile(<<"srv", "d", "a.zip">>, <<1, 2, 3>>))

MC_AllowedBases == { <<"srv">> }
MC_InitFiles == [p \in {} |-> <<>>]
\* a destination left longer than the source (an older, larger version)
MC_LongerFiles == <<"srv", "d", "a.zip">> :> <<1, 2, 3, 9>>
MC_InitDirs == { <<"srv">> }
=============================================================================
