---------------------------- MODULE FileTransfer ----------------------------
(***************************************************************************)
(* The chunked, resumable file-write protocol of NetCopy: one client       *)
(* process (Client::transfer_single_file, send_file_data,                  *)
(* create_empty_directory) talking to the server's ConnectionHandler       *)
(* (handle_file_request, handle_file_data) over one TCP connection, and    *)
(* the server's disk that outlives both.                                   *)
(*                                                                         *)
(* The client may be run several times (MaxRuns) and may die at any point *)
(* of a run; a later run may ask to resume.  The server accepts the next  *)
(* connection only once the previous handler has ended (Server::           *)
(* accept_connections joins every worker, see ServerAccept.tla), so at     *)
(* most one connection is served at a time.  The handshake and the cipher  *)
(* are abstracted away here: frames arrive intact and in order (TCP), and  *)
(* a frame that cannot be delivered because the peer has gone is lost.     *)
(*                                                                         *)
(* Paths are tuples of names; <<>> is the empty std::string that marks    *)
(* "no current file".  File contents are sequences of byte values.         *)
(***************************************************************************)
EXTENDS Integers, Sequences, SequencesExt, TLC

CONSTANTS
  Commands,     \* client invocations: records of the jobs, in the order
                \* transfer_file / transfer_directory issue them, the
                \* --resume flag, and the tree the user means to copy
                \* (expect: files as [dest, src] and directories)
  AllowedBases, \* ServerConfig::allowed_paths, as paths
  BufSize,      \* ClientConfig::buffer_size, bytes read per FileData
  InitFiles,    \* regular files on the server disk before the first run
  InitDirs,     \* directories on the server disk before the first run
  MaxRuns,      \* bound: number of client invocations
  MaxIOErrors   \* bound: number of failed chunk writes on the server

ASSUME BufSize \in Nat \ {0}
\* Lz4Block below is exact only for blocks LZ4 stores as literals alone.
ASSUME BufSize <= 12
ASSUME MaxRuns \in Nat /\ MaxIOErrors \in Nat

VARIABLES
  cl,        \* the client process: pc, command, job index, bytes_sent,
             \* resume, and the invocation's expected tree
  srv,       \* the connection handler: pc and current_file_path_
  c2s,       \* frames in flight from client to server
  s2c,       \* frames in flight from server to client
  open,      \* the client end of the connection is still open
  files,     \* regular files on the server disk: path -> contents
  dirs,      \* directories on the server disk
  runs,      \* client invocations so far
  ioErrors,  \* chunk writes that failed so far
  completed  \* history: jobs of the current run the client finished

vars == <<cl, srv, c2s, s2c, open, files, dirs, runs, ioErrors, completed>>

\* The expected tree of no invocation.
NothingExpected == [files |-> {}, dirs |-> {}]

Jobs == UNION { Range(c.jobs) : c \in Commands }
\* Mutant: the server knows only the older marker name.
MarkerNamesLegacyOnly == {".netcopy_dir_marker"}
MarkerNames == {".netcopy_empty_dir", ".netcopy_dir_marker"}
NoPath == <<>>

-----------------------------------------------------------------------------
(* Helpers translated from the file manager, compression and paths.        *)

\* FileManager::get_directory: the parent path.
Parent(p) == SubSeq(p, 1, Len(p) - 1)

\* FileManager::create_directories: every missing ancestor of d is created.
Ancestors(d) == { SubSeq(d, 1, k) : k \in 1..Len(d) }

\* Mutant: the size probe is skipped and 0 reported.
get_partial_file_size_zero(p) == 0

\* FileManager::get_partial_file_size: 0 when the file does not exist.
get_partial_file_size(p) == IF p \in DOMAIN files THEN Len(files[p]) ELSE 0

\* The contents of p, or nothing when it does not exist.
OnDisk(p) == IF p \in DOMAIN files THEN files[p] ELSE <<>>

\* FileManager::write_file_chunk on a file holding old (or absent):
\* offset 0 opens with trunc; seekp past the end leaves a zero-filled gap;
\* bytes past offset+len(data) are kept.
write_file_chunk(exists, old, off, data) ==
  LET base   == IF off = 0 \/ ~exists THEN <<>> ELSE old
      padded == base \o [i \in 1..(off - Len(base)) |-> 0]
  IN  SubSeq(padded, 1, off) \o data
        \o SubSeq(padded, off + Len(data) + 1, Len(padded))

is_path_allowed(p) == \E b \in AllowedBases : IsPrefix(b, p)

\* common::compress_buffer: LZ4_compress_default stores a block shorter
\* than 13 bytes as one sequence: token (literal count << 4), then literals.
Lz4Block(raw) == <<16 * Len(raw)>> \o raw

-----------------------------------------------------------------------------
(* The client.                                                             *)

CurJob == cl.cmd[cl.job]

\* The destination sent in the FileRequest: a directory job sends the
\* marker path remote/.netcopy_empty_dir.
RequestDest(j) ==
  IF j.kind = "dir" THEN Append(j.dest, ".netcopy_empty_dir") ELSE j.dest

\* The chunk read at bytes_sent: min(buffer_size, total - bytes_sent) bytes.
Chunk(j, off) == SubSeq(j.src, off + 1, Min({off + BufSize, Len(j.src)}))

\* FileData as it is serialized: offset and data.  The compressed flag is
\* set by the client but FileData::serialize_payload never writes it, and
\* the server ignores is_last_chunk, so neither reaches the handler.
FileData(off, raw, j) ==
  [type |-> "FileData", offset |-> off,
   data |-> IF j.compressible THEN Lz4Block(raw) ELSE raw]

Send(m) == c2s' = Append(c2s, m)

\* Mutant: the loop index is advanced twice.
JobDone_twice ==
  /\ completed' = completed \cup {cl.job}
  /\ cl' = [cl EXCEPT !.pc = "ready", !.job = @ + 2]

\* The job is finished; the loop of the caller moves to the next one.
JobDone ==
  /\ completed' = completed \cup {cl.job}
  /\ cl' = [cl EXCEPT !.pc = "ready", !.job = @ + 1]

\* A FileException propagates out of the client: main returns 1 and the
\* socket is closed.
Abort ==
  /\ cl' = [cl EXCEPT !.pc = "down"]
  /\ open' = FALSE

\* client main: connect() (handshake abstracted) and start the command of
\* one invocation.  The handshake completes only once the server has
\* accepted this connection, after the previous handler ended.
Connect ==
  /\ cl.pc = "down"
  /\ srv.pc = "idle"
  /\ runs < MaxRuns
  /\ \E c \in Commands :
       cl' = [pc |-> "ready", cmd |-> c.jobs, job |-> 1, sent |-> 0,
              resume |-> c.resume, expect |-> c.expect]
  /\ srv' = [pc |-> "serving", cur |-> NoPath]
  /\ c2s' = <<>>
  /\ s2c' = <<>>
  /\ open' = TRUE
  /\ runs' = runs + 1
  /\ completed' = {}
  /\ UNCHANGED <<files, dirs, ioErrors>>

\* transfer_single_file / create_empty_directory: send the FileRequest.
SendFileRequest ==
  /\ cl.pc = "ready"
  /\ cl.job <= Len(cl.cmd)
  /\ Send([type |-> "FileRequest", source |-> CurJob.name,
           dest |-> RequestDest(CurJob),
           resume_offset |-> IF CurJob.kind = "file" /\ cl.resume
                             THEN 1 ELSE 0])
  /\ cl' = [cl EXCEPT !.pc = "awaitResponse"]
  /\ UNCHANGED <<srv, s2c, open, files, dirs, runs, ioErrors, completed>>

\* Every job done: the client disconnects and exits with 0.
Finish ==
  /\ cl.pc = "ready"
  /\ cl.job > Len(cl.cmd)
  /\ cl' = [cl EXCEPT !.pc = "down"]
  /\ open' = FALSE
  /\ UNCHANGED <<srv, c2s, s2c, files, dirs, runs, ioErrors, completed>>

Response == Head(s2c)
ResponseArrived ==
  /\ cl.pc = "awaitResponse"
  /\ s2c # <<>>
  /\ Response.type = "FileResponse"
  /\ s2c' = Tail(s2c)

\* FileResponse.success is false: "Server error: ..." is thrown.
RecvResponseFailed ==
  /\ ResponseArrived
  /\ ~Response.success
  /\ Abort
  /\ UNCHANGED <<srv, c2s, files, dirs, runs, ioErrors, completed>>

\* A directory marker or an empty file: one FileData at offset 0, no data.
RecvResponseEmpty ==
  /\ ResponseArrived
  /\ Response.success
  /\ CurJob.kind = "dir" \/ Len(CurJob.src) = 0
  /\ Send(FileData(0, <<>>, CurJob))
  /\ cl' = [cl EXCEPT !.pc = "awaitAck", !.sent = Response.resume_offset]
  /\ UNCHANGED <<srv, open, files, dirs, runs, ioErrors, completed>>

\* bytes_sent starts at the server's resume_offset; when that is already
\* >= total_size the send loop does not run and the file counts as done.
RecvResponseNothingToSend ==
  /\ ResponseArrived
  /\ Response.success
  /\ CurJob.kind = "file"
  /\ Len(CurJob.src) > 0
  /\ Response.resume_offset >= Len(CurJob.src)
  /\ JobDone
  /\ UNCHANGED <<srv, c2s, open, files, dirs, runs, ioErrors>>

\* Mutant: the first chunk is read from the start of the file but sent
\* with offset resume_offset.
RecvResponseStream_reads_from_start ==
  /\ ResponseArrived
  /\ Response.success
  /\ CurJob.kind = "file"
  /\ Response.resume_offset < Len(CurJob.src)
  /\ LET off == Response.resume_offset
     IN  /\ Send(FileData(off, Chunk(CurJob, 0), CurJob))
         /\ cl' = [cl EXCEPT !.pc = "awaitAck", !.sent = off]
  /\ UNCHANGED <<srv, open, files, dirs, runs, ioErrors, completed>>

\* Otherwise the first chunk is read at resume_offset and sent.
RecvResponseStream ==
  /\ ResponseArrived
  /\ Response.success
  /\ CurJob.kind = "file"
  /\ Response.resume_offset < Len(CurJob.src)
  /\ LET off == Response.resume_offset
     IN  /\ Send(FileData(off, Chunk(CurJob, off), CurJob))
         /\ cl' = [cl EXCEPT !.pc = "awaitAck", !.sent = off]
  /\ UNCHANGED <<srv, open, files, dirs, runs, ioErrors, completed>>

Ack == Head(s2c)
AckArrived ==
  /\ cl.pc = "awaitAck"
  /\ s2c # <<>>
  /\ Ack.type = "FileAck"
  /\ s2c' = Tail(s2c)

\* bytes_sent after this ack: advanced by the raw chunk length.
SentAfterAck == cl.sent + Len(Chunk(CurJob, cl.sent))

\* FileAck.success is false: "Transfer failed: ..." is thrown.
RecvAckFailed ==
  /\ AckArrived
  /\ ~Ack.success
  /\ Abort
  /\ UNCHANGED <<srv, c2s, files, dirs, runs, ioErrors, completed>>

\* Mutant: the last-chunk test is off by one.
RecvAckDone_early ==
  /\ AckArrived
  /\ Ack.success
  /\ \/ CurJob.kind = "dir"
     \/ Len(CurJob.src) = 0
     \/ SentAfterAck + 1 >= Len(CurJob.src)
  /\ JobDone
  /\ UNCHANGED <<srv, c2s, open, files, dirs, runs, ioErrors>>

\* The ack of the empty FileData, or of the last chunk: the job is done.
\* bytes_received in the ack is not looked at.
RecvAckDone ==
  /\ AckArrived
  /\ Ack.success
  /\ \/ CurJob.kind = "dir"
     \/ Len(CurJob.src) = 0
     \/ SentAfterAck >= Len(CurJob.src)
  /\ JobDone
  /\ UNCHANGED <<srv, c2s, open, files, dirs, runs, ioErrors>>

\* The ack of an inner chunk: advance bytes_sent and send the next chunk.
RecvAckNext ==
  /\ AckArrived
  /\ Ack.success
  /\ CurJob.kind = "file"
  /\ SentAfterAck < Len(CurJob.src)
  /\ Send(FileData(SentAfterAck, Chunk(CurJob, SentAfterAck), CurJob))
  /\ cl' = [cl EXCEPT !.sent = SentAfterAck]
  /\ UNCHANGED <<srv, open, files, dirs, runs, ioErrors, completed>>

\* The client process dies (killed, socket timeout, local read error)
\* anywhere in a run; the kernel closes its socket.
ClientCrash ==
  /\ cl.pc \in {"ready", "awaitResponse", "awaitAck"}
  /\ Abort
  /\ UNCHANGED <<srv, c2s, s2c, files, dirs, runs, ioErrors, completed>>

-----------------------------------------------------------------------------
(* The server's ConnectionHandler.                                         *)

\* send_message: a frame to a peer that has closed is lost (the send fails
\* or the data is discarded); the handler then meets end-of-stream.
Reply(m) == s2c' = IF open THEN Append(s2c, m) ELSE s2c

Request == Head(c2s)
RequestArrived(t) ==
  /\ srv.pc = "serving"
  /\ c2s # <<>>
  /\ Request.type = t
  /\ c2s' = Tail(c2s)

\* handle_file_request: path check, resolve (a directory destination gets
\* the source file name appended), current_file_path_, resume probe,
\* parent directory creation, FileResponse.
handle_file_request ==
  /\ RequestArrived("FileRequest")
  /\ LET q        == Request
         resolved == IF q.dest \in dirs THEN Append(q.dest, q.source)
                     ELSE q.dest
         off      == IF q.resume_offset > 0
                     THEN get_partial_file_size(resolved) ELSE 0
     IN  IF is_path_allowed(q.dest)
         THEN /\ srv' = [srv EXCEPT !.cur = resolved]
              /\ dirs' = dirs \cup Ancestors(Parent(resolved))
              /\ Reply([type |-> "FileResponse", success |-> TRUE,
                        resume_offset |-> off])
         ELSE /\ Reply([type |-> "FileResponse", success |-> FALSE,
                        resume_offset |-> 0])
              /\ UNCHANGED <<srv, dirs>>
  /\ UNCHANGED <<cl, open, files, runs, ioErrors, completed>>

DataArrived == RequestArrived("FileData")
AckFor(ok) ==
  Reply([type |-> "FileAck", success |-> ok,
         bytes_received |-> Request.offset + Len(Request.data)])

\* Mutant: the directory is made but no FileAck is sent.
handle_file_data_marker_noack ==
  /\ DataArrived
  /\ srv.cur # NoPath
  /\ Last(srv.cur) \in MarkerNames
  /\ dirs' = dirs \cup Ancestors(Parent(srv.cur))
  /\ UNCHANGED <<cl, srv, s2c, open, files, runs, ioErrors, completed>>

\* The current file is a directory marker: make its directory, write no
\* file, acknowledge.  (The "No file transfer in progress" branch for an
\* empty current_file_path_ is unreachable from Client, which sends
\* FileData only after a successful FileResponse; see README, plan.)
handle_file_data_marker ==
  /\ DataArrived
  /\ srv.cur # NoPath
  /\ Last(srv.cur) \in MarkerNames
  /\ dirs' = dirs \cup Ancestors(Parent(srv.cur))
  /\ AckFor(TRUE)
  /\ UNCHANGED <<cl, srv, open, files, runs, ioErrors, completed>>

\* write_file_chunk at the client-supplied offset, then FileAck.
handle_file_data_write ==
  /\ DataArrived
  /\ srv.cur # NoPath
  /\ Last(srv.cur) \notin MarkerNames
  /\ LET p == srv.cur
     IN  /\ files' = (p :> write_file_chunk(p \in DOMAIN files, OnDisk(p),
                                            Request.offset, Request.data))
                     @@ files
         /\ dirs' = dirs \cup Ancestors(Parent(p))
  /\ AckFor(TRUE)
  /\ UNCHANGED <<cl, srv, open, runs, ioErrors, completed>>

\* write_file_chunk throws (open, seek or write fails): the ack carries
\* success=false and the connection stays up.  With offset 0 the failure
\* may come after the open with trunc has emptied the file.
handle_file_data_write_fails ==
  /\ DataArrived
  /\ srv.cur # NoPath
  /\ Last(srv.cur) \notin MarkerNames
  /\ ioErrors < MaxIOErrors
  /\ ioErrors' = ioErrors + 1
  /\ \E truncated \in IF Request.offset = 0 THEN BOOLEAN ELSE {FALSE} :
       files' = IF truncated THEN (srv.cur :> <<>>) @@ files ELSE files
  /\ dirs' = dirs \cup Ancestors(Parent(srv.cur))
  /\ AckFor(FALSE)
  /\ UNCHANGED <<cl, srv, open, runs, completed>>

\* receive_message meets end-of-stream: the handler ends and the server
\* can accept the next connection.
HandlerEnds ==
  /\ srv.pc = "serving"
  /\ c2s = <<>>
  /\ ~open
  /\ srv' = [pc |-> "idle", cur |-> NoPath]
  /\ UNCHANGED <<cl, c2s, s2c, open, files, dirs, runs, ioErrors, completed>>

-----------------------------------------------------------------------------

Init ==
  /\ cl = [pc |-> "down", cmd |-> <<>>, job |-> 1, sent |-> 0,
           resume |-> FALSE, expect |-> NothingExpected]
  /\ srv = [pc |-> "idle", cur |-> NoPath]
  /\ c2s = <<>>
  /\ s2c = <<>>
  /\ open = FALSE
  /\ files = InitFiles
  /\ dirs = InitDirs
  /\ runs = 0
  /\ ioErrors = 0
  /\ completed = {}

ClientStep ==
  \/ SendFileRequest \/ Finish
  \/ RecvResponseFailed \/ RecvResponseEmpty
  \/ RecvResponseNothingToSend \/ RecvResponseStream
  \/ RecvAckFailed \/ RecvAckDone \/ RecvAckNext

ServerStep ==
  \/ handle_file_request
  \/ handle_file_data_marker
  \/ handle_file_data_write \/ handle_file_data_write_fails
  \/ HandlerEnds

Next == Connect \/ ClientStep \/ ClientCrash \/ ServerStep

\* Both threads block on their sockets and run whenever a frame is there;
\* starting the client and killing it are up to the user, not fair.
Fairness == WF_vars(ClientStep) /\ WF_vars(ServerStep)

Spec == Init /\ [][Next]_vars /\ Fairness

-----------------------------------------------------------------------------
(* Properties.                                                             *)

TypeOK ==
  /\ cl.pc \in {"down", "ready", "awaitResponse", "awaitAck"}
  /\ cl.cmd \in {c.jobs : c \in Commands} \cup {<<>>}
  /\ cl.job \in 1..(Len(cl.cmd) + 1)
  /\ cl.sent \in Nat
  /\ cl.resume \in BOOLEAN
  /\ srv.pc \in {"idle", "serving"}
  /\ open \in BOOLEAN
  /\ \A p \in DOMAIN files : files[p] \in Seq(0..255)
  /\ runs \in 0..MaxRuns
  /\ ioErrors \in 0..MaxIOErrors
  /\ completed \subseteq 1..Len(cl.cmd)

\* Spec 8: when the client has finished a file (the ack of the last chunk,
\* or a resume that found nothing left to send), the destination on disk
\* is byte-for-byte the source: offsets, resume probe, truncation at
\* offset 0 and the compression of chunks all bear on it.
CompletedFileMatchesSource ==
  \A i \in completed :
    cl.cmd[i].kind = "file" =>
      /\ cl.cmd[i].dest \in DOMAIN files
      /\ files[cl.cmd[i].dest] = cl.cmd[i].src

\* Whatever runs were interrupted, failed or resumed, a destination file
\* on disk only ever holds a prefix of its source: no chunk lands at the
\* wrong offset and no stale tail survives.
DestinationIsSourcePrefix ==
  \A j \in Jobs :
    j.kind = "file" /\ j.dest \in DOMAIN files =>
      IsPrefix(files[j.dest], j.src)

\* Spec 4.7 and scenario 5: no marker file ever appears on disk, and an
\* empty-directory job the client finished left its directory in place.
EmptyDirectoryMaterialised ==
  /\ \A j \in Jobs : j.kind = "dir" => RequestDest(j) \notin DOMAIN files
  /\ \A i \in completed :
       cl.cmd[i].kind = "dir" => cl.cmd[i].dest \in dirs

\* Spec 8: during a --resume run no file on disk ever gets shorter: the
\* bytes already there are kept and extended, never truncated.
ResumeRunNeverShrinks ==
  [][ cl.resume /\ cl.pc # "down" =>
        \A p \in DOMAIN files :
          p \in DOMAIN files' /\ Len(files'[p]) >= Len(files[p]) ]_files

\* Spec 4.6 and 4.7: once a run has finished every job of its invocation,
\* the server holds the tree the user asked to copy: each regular file at
\* the destination joined with the source's name and its relative path,
\* with its contents, and each directory the invocation promises.  It is
\* about the client's planning (parse_arguments, the destination, the
\* walk of transfer_directory) as much as about the writes.
TreeCopied ==
  cl.job > Len(cl.cmd) /\ completed = 1..Len(cl.cmd) =>
    /\ \A f \in cl.expect.files : f.dest \in DOMAIN files /\ files[f.dest] = f.src
    /\ cl.expect.dirs \subseteq dirs

\* Every run the client starts ends (all done, or an error surfaced):
\* no request or chunk is left waiting for an answer that never comes.
RunEventuallyEnds == (cl.pc # "down") ~> (cl.pc = "down")

\* The server disk as TransferSpec describes it: files and directories as
\* they are, and the jobs of the current run the client has reported done.
Abstract == INSTANCE TransferSpec WITH done <- {cl.cmd[i] : i \in completed}

=============================================================================
