---------------------------- MODULE ServerAccept ----------------------------
(***************************************************************************)
(* The server's connection orchestration (server::Server): start() sets    *)
(* running_ and enters accept_connections, which accepts a connection from *)
(* the listen backlog, starts a worker thread for it (handle_client runs a *)
(* ConnectionHandler until its client goes away), and then calls           *)
(* cleanup_threads, which joins every joinable worker.                     *)
(*                                                                         *)
(* A connection's client is either well-behaved (it disconnects once its   *)
(* transfer is done) or one of Stallers (it stays connected without        *)
(* sending: no socket of the server has a timeout, so its worker waits in  *)
(* recv for ever).  stop() is reached only from ~Server, after start()     *)
(* has returned, which the loop never does while running_ holds; it is not *)
(* modelled.                                                               *)
(*                                                                         *)
(* server_main starts the server in one of two ways: in the foreground it  *)
(* calls start(); as a daemon it calls run_as_daemon(), which first runs   *)
(* Daemon::setup_signal_handlers (SIGPIPE ignored; SIGINT, SIGTERM and     *)
(* SIGHUP to Daemon::signal_handler) and create_pid_file.  A client of     *)
(* Crashers dies while its worker is answering a request; the worker's     *)
(* send_message then writes to a closed connection, and whether the       *)
(* peer's reset has arrived before the second send() is up to timing.     *)
(*                                                                         *)
(* The main thread logs through Logger::log, which holds Logger's mutex   *)
(* for the whole call.  A signal of Signals is delivered once, to the     *)
(* main thread (Linux gives a process-directed signal to the thread-group *)
(* leader unless it blocks it); a handler runs on top of whatever the     *)
(* thread was doing, and may itself be interrupted by another signal.     *)
(* Workers' log calls only delay a handler (they release the mutex) and   *)
(* are not modelled.                                                       *)
(***************************************************************************)
EXTENDS Naturals, Sequences, FiniteSets

CONSTANTS
  Clients,   \* the connections that are attempted
  Stallers,  \* the clients that never finish their session
  Backlog,   \* listen(max_connections): the kernel's queue of connections
  Crashers,  \* the clients that die with a reply of the server in flight
  Signals    \* the signals the operator sends, each once

VARIABLES
  running,   \* Server::running_
  acc,       \* the main thread: "main", "pidfile", "pidlog", "start",
             \* "startlog", "accept", "cleanup", "done"
  backlog,   \* connections the kernel completed, not yet accepted
  st,        \* each client's connection: idle, queued, serving, orphaned,
             \* finished, joined
  proc,      \* the server process: "running", "killed" (by SIGPIPE),
             \* "terminated" (a signal's default action), "exited" (exit)
  handlers,  \* signal dispositions: "default", or "installed" by
             \* setup_signal_handlers (SIGPIPE ignored, others handled)
  daemon,    \* the command line asked for --daemon (args.daemon)
  logger,    \* the holder of Logger::mutex_: "free" or "main"
  frames,    \* the signal handlers running on the main thread, innermost
             \* last: [sig, pc]
  sent,      \* the signals sent so far
  pidfile,   \* the pid file: "none", "ours", "other" (a live process's)
  curPid     \* Daemon::current_pid_file_ is set

vars == <<running, acc, backlog, st, proc, handlers, daemon, logger, frames,
          sent, pidfile, curPid>>

Alive == proc = "running"

\* The connections whose worker thread has not finished.
Serving == {c \in Clients : st[c] \in {"serving", "orphaned"}}

\* The main thread runs its own code only when no handler is on top of it.
MainRuns == Alive /\ frames = <<>>

\* bind() and listen() have been done: connections complete in the kernel.
Listening == acc \in {"accept", "cleanup"}

-----------------------------------------------------------------------------

\* Daemon::setup_signal_handlers: signal_handler for SIGTERM, SIGINT and
\* SIGHUP, and SIGPIPE set to SIG_IGN.
setup_signal_handlers == handlers' = "installed"

\* Mutant: run_as_daemon starts without setup_signal_handlers.
run_as_daemon_without_handlers ==
  /\ acc' = "pidfile"
  /\ UNCHANGED handlers

\* Server::run_as_daemon: setup_signal_handlers, then create_pid_file and
\* start().
run_as_daemon ==
  /\ setup_signal_handlers
  /\ acc' = "pidfile"

\* server_main: run_as_daemon() with --daemon, start() otherwise.
server_main ==
  /\ MainRuns
  /\ acc = "main"
  /\ IF daemon THEN run_as_daemon ELSE acc' = "start" /\ UNCHANGED handlers
  /\ UNCHANGED <<running, backlog, st, proc, daemon, logger, frames, sent,
                 pidfile, curPid>>

\* Daemon::create_pid_file: current_pid_file_ is set; if the file names a
\* live process (is_running: kill(pid, 0)) it throws ("Another instance is
\* already running"), as it does when the file cannot be opened for
\* writing, and server_main returns 1; otherwise it writes our pid and
\* enters LOG_INFO("Created PID file"), taking the logger's mutex.
create_pid_file ==
  /\ MainRuns
  /\ acc = "pidfile"
  /\ curPid' = TRUE
  /\ \/ /\ pidfile # "other"
        /\ acc' = "pidlog" /\ pidfile' = "ours" /\ logger' = "main"
        /\ UNCHANGED proc
     \/ /\ acc' = "done" /\ proc' = "exited"   \* is_running, or no write
        /\ UNCHANGED <<pidfile, logger>>
  /\ UNCHANGED <<running, backlog, st, handlers, daemon, frames, sent>>

\* Logger::log returns: the lock_guard releases the mutex.
PidLogged ==
  /\ MainRuns
  /\ acc = "pidlog"
  /\ logger' = "free"
  /\ acc' = "start"
  /\ UNCHANGED <<running, backlog, st, proc, handlers, daemon, frames, sent,
                 pidfile, curPid>>

\* Server::start: LOG_INFO("Starting NetCopy server...") takes the mutex.
Start ==
  /\ MainRuns
  /\ acc = "start"
  /\ logger' = "main"
  /\ acc' = "startlog"
  /\ UNCHANGED <<running, backlog, st, proc, handlers, daemon, frames, sent,
                 pidfile, curPid>>

\* Mutant: running_ set only after the accept loop was entered.
Listen_sets_running_late ==
  /\ MainRuns
  /\ acc = "startlog"
  /\ logger' = "free"
  /\ acc' = "accept"
  /\ UNCHANGED <<running, backlog, st, proc, handlers, daemon, frames, sent,
                 pidfile, curPid>>

\* The log call returns; bind, listen, running_ = true (the later log
\* lines of start() are further windows of the same kind), and
\* accept_connections().
Listen ==
  /\ MainRuns
  /\ acc = "startlog"
  /\ logger' = "free"
  /\ running' = TRUE
  /\ acc' = "accept"
  /\ UNCHANGED <<backlog, st, proc, handlers, daemon, frames, sent,
                 pidfile, curPid>>

\* Server::start when bind or listen throws: Socket::bind finds the port
\* taken (EADDRINUSE) or an address inet_pton cannot read.  start()'s
\* catch logs the error and rethrows, and server_main prints it and
\* returns 1.  Nothing on that way out removes a pid file run_as_daemon
\* has written.
BindFails ==
  /\ MainRuns
  /\ acc = "startlog"
  /\ logger' = "free"
  /\ acc' = "done"
  /\ proc' = "exited"
  /\ UNCHANGED <<running, backlog, st, handlers, daemon, frames, sent,
                 pidfile, curPid>>

\* The variables no connection event changes.
Fixed == <<running, proc, handlers, daemon, logger, frames, sent, pidfile,
           curPid>>

\* Mutant: the listen socket's backlog is not bounded.
Connect_ignoring_backlog(c) ==
  /\ Alive
  /\ Listening
  /\ st[c] \in {"idle", "joined"}
  /\ backlog' = Append(backlog, c)
  /\ st' = [st EXCEPT ![c] = "queued"]
  /\ UNCHANGED <<acc, Fixed>>

\* A client's connect() completes in the kernel once the socket listens and
\* the backlog has room; the client then waits for its handler.  A client
\* whose earlier session is over may connect again.
Connect(c) ==
  /\ Alive
  /\ Listening
  /\ st[c] \in {"idle", "joined"}
  /\ Len(backlog) < Backlog
  /\ backlog' = Append(backlog, c)
  /\ st' = [st EXCEPT ![c] = "queued"]
  /\ UNCHANGED <<acc, Fixed>>

\* accept_connections, while (running_): accept() the oldest connection and
\* emplace a worker thread running handle_client for it.
Accept ==
  /\ MainRuns
  /\ acc = "accept"
  /\ running
  /\ backlog # <<>>
  /\ st' = [st EXCEPT ![Head(backlog)] = "serving"]
  /\ backlog' = Tail(backlog)
  /\ acc' = "cleanup"
  /\ UNCHANGED Fixed

\* handle_client returns when ConnectionHandler::handle ends, which is when
\* the client has closed its connection.
handle_client(c) ==
  /\ Alive
  /\ st[c] = "serving"
  /\ c \notin Stallers
  /\ st' = [st EXCEPT ![c] = "finished"]
  /\ UNCHANGED <<acc, backlog, Fixed>>

\* A client of Crashers dies after sending a request, before the answer:
\* its socket is closed while the worker is in handle_file_request.
ClientVanishes(c) ==
  /\ Alive
  /\ st[c] = "serving"
  /\ c \in Crashers
  /\ st' = [st EXCEPT ![c] = "orphaned"]
  /\ UNCHANGED <<acc, backlog, Fixed>>

\* ConnectionHandler::send_message to the closed connection: the length's
\* send() succeeds and draws a reset from the peer; the data's send() then
\* fails if the reset has arrived, raising SIGPIPE (Socket::send passes no
\* MSG_NOSIGNAL), and otherwise succeeds, so the next receive reads the end
\* of the stream.  Either exception ends handle(), and the worker finishes.
send_message(c) ==
  /\ Alive
  /\ st[c] = "orphaned"
  /\ \/ /\ handlers = "default"     \* reset arrived: the process is killed
        /\ proc' = "killed"
        /\ UNCHANGED st
     \/ /\ handlers = "installed"   \* reset arrived: send throws EPIPE
        /\ st' = [st EXCEPT ![c] = "finished"]
        /\ UNCHANGED proc
     \/ /\ st' = [st EXCEPT ![c] = "finished"]   \* reset not yet arrived
        /\ UNCHANGED proc
  /\ UNCHANGED <<running, acc, backlog, handlers, daemon, logger, frames,
                 sent, pidfile, curPid>>

\* cleanup_threads: every worker is joinable, so each is joined (the call
\* waits for it to finish) and erased; then the loop accepts again.
cleanup_threads ==
  /\ MainRuns
  /\ acc = "cleanup"
  /\ Serving = {}
  /\ st' = [c \in Clients |-> IF st[c] = "finished" THEN "joined" ELSE st[c]]
  /\ acc' = "accept"
  /\ UNCHANGED <<backlog, Fixed>>

-----------------------------------------------------------------------------
(* Signals.                                                                *)

\* The innermost handler, and the stack with it replaced or removed.
Top == frames[Len(frames)]
SetTop(pc) == frames' = [frames EXCEPT ![Len(frames)].pc = pc]
Pop == frames' = SubSeq(frames, 1, Len(frames) - 1)

\* The variables a handler step leaves alone.
Untouched == <<running, acc, backlog, st, handlers, daemon, sent>>

\* The operator sends s to the process.  Its default action ends the
\* process; an installed handler starts on the main thread, unless s is
\* being handled already (signal() blocks a signal during its handler).
Deliver(s) ==
  /\ Alive
  /\ s \in Signals \ sent
  /\ sent' = sent \cup {s}
  /\ IF handlers = "default"
     THEN proc' = "terminated" /\ UNCHANGED frames
     ELSE frames' = Append(frames, [sig |-> s, pc |-> "log"]) /\ UNCHANGED proc
  /\ UNCHANGED <<running, acc, backlog, st, handlers, daemon, logger, pidfile,
                 curPid>>

\* Daemon::signal_handler's LOG_INFO / LOG_WARNING (and the one in
\* remove_pid_file) lock Logger::mutex_.  The mutex is not recursive: when
\* the interrupted code holds it, the lock never returns.
HandlerLock ==
  /\ Alive
  /\ frames # <<>>
  /\ Top.pc \in {"log", "log2"}
  /\ logger = "free"
  /\ logger' = "main"
  /\ SetTop(IF Top.pc = "log" THEN "held" ELSE "held2")
  /\ UNCHANGED <<Untouched, proc, pidfile, curPid>>

\* Mutant: the handler's SIGINT case skips remove_pid_file.
HandlerLogged_without_remove ==
  /\ Alive
  /\ frames # <<>>
  /\ Top.pc \in {"held", "held2"}
  /\ logger' = "free"
  /\ IF Top.sig = "SIGINT" THEN proc' = "exited" /\ UNCHANGED frames
     ELSE Pop /\ UNCHANGED proc
  /\ UNCHANGED <<Untouched, pidfile, curPid>>

\* The log call returns.  SIGINT goes on to remove_pid_file when
\* current_pid_file_ is set, and then to exit(0); SIGHUP and the default
\* case (SIGTERM) return to the interrupted code.
HandlerLogged ==
  /\ Alive
  /\ frames # <<>>
  /\ Top.pc \in {"held", "held2"}
  /\ logger' = "free"
  /\ CASE Top.sig = "SIGINT" /\ Top.pc = "held" /\ curPid ->
            SetTop("remove") /\ UNCHANGED proc
       [] Top.sig = "SIGINT" -> proc' = "exited" /\ UNCHANGED frames
       [] OTHER -> Pop /\ UNCHANGED proc
  /\ UNCHANGED <<Untouched, pidfile, curPid>>

\* Daemon::remove_pid_file: std::remove, then a log line either way.
remove_pid_file ==
  /\ Alive
  /\ frames # <<>>
  /\ Top.pc = "remove"
  /\ pidfile' = "none"
  /\ SetTop("log2")
  /\ UNCHANGED <<Untouched, proc, logger, curPid>>

Init ==
  /\ running = FALSE
  /\ acc = "main"
  /\ backlog = <<>>
  /\ st = [c \in Clients |-> "idle"]
  /\ proc = "running"
  /\ handlers = "default"
  /\ daemon \in BOOLEAN
  /\ logger = "free"
  /\ frames = <<>>
  /\ sent = {}
  /\ pidfile \in {"none", "other"}   \* "other": another instance runs
  /\ curPid = FALSE

MainStep ==
  server_main \/ create_pid_file \/ PidLogged \/ Start \/ Listen \/ BindFails
  \/ Accept
  \/ cleanup_threads

HandlerStep == HandlerLock \/ HandlerLogged \/ remove_pid_file

Next ==
  \/ MainStep
  \/ HandlerStep
  \/ \E s \in Signals : Deliver(s)
  \/ \E c \in Clients :
       Connect(c) \/ handle_client(c) \/ ClientVanishes(c) \/ send_message(c)

\* The main thread, its handlers and the workers run whenever they can; a
\* worker of a well-behaved client finishes.  Clients connect, and the
\* operator sends signals, when they choose.
Spec ==
  /\ Init /\ [][Next]_vars
  /\ WF_vars(MainStep) /\ WF_vars(HandlerStep)
  /\ \A c \in Clients : WF_vars(handle_client(c)) /\ WF_vars(send_message(c))

-----------------------------------------------------------------------------
(* Properties.                                                             *)

TypeOK ==
  /\ running \in BOOLEAN
  /\ acc \in {"main", "pidfile", "pidlog", "start", "startlog", "accept",
              "cleanup", "done"}
  /\ backlog \in Seq(Clients) /\ Len(backlog) <= Backlog
  /\ st \in [Clients -> {"idle", "queued", "serving", "orphaned", "finished",
                         "joined"}]
  /\ proc \in {"running", "killed", "terminated", "exited"}
  /\ handlers \in {"default", "installed"}
  /\ daemon \in BOOLEAN
  /\ logger \in {"free", "main"}
  /\ frames \in Seq([sig : Signals, pc : {"log", "held", "remove", "log2", "held2"}])
  /\ sent \subseteq Signals
  /\ pidfile \in {"none", "ours", "other"}
  /\ curPid \in BOOLEAN

\* The main thread hangs for good: the innermost handler waits for the
\* logger's mutex, which the same thread holds below it (std::mutex is not
\* recursive).  InterruptEndsServer is about reaching this state.
Hung == frames # <<>> /\ Top.pc \in {"log", "log2"} /\ logger = "main"

\* Spec 5: a well-behaved client that has connected is served and finishes,
\* whatever the other clients do ("no cross-connection dependencies"), as
\* long as the server process lives and its main thread has not hung in a
\* signal handler (the process's survival, and the hang, are the next
\* properties).
WellBehavedClientServed ==
  \A c \in Clients \ Stallers :
    st[c] = "queued" ~> (st[c] \in {"finished", "joined"} \/ ~Alive \/ Hung)

\* Spec 5: an I/O error ends the connection, never the server.  A daemon,
\* whose setup_signal_handlers ignored SIGPIPE, is never killed by a client
\* that dies with an answer of the server in flight.
DaemonSurvivesClientCrash == daemon => proc # "killed"

\* The same for a server started in the foreground, which installs no
\* SIGPIPE handler before start().
ServerSurvivesClientCrash == proc # "killed"

\* The pid file the daemon wrote never outlives it: whichever signal ends
\* the process, at whatever point of run_as_daemon, create_pid_file or
\* another handler it arrives, the file is gone once the process is.  The
\* one exception is the return of server_main after a failed start
\* (acc = "done"), which leaves the file behind (BindFails).
PidFileGoneWithProcess == ~Alive /\ acc # "done" => pidfile # "ours"

\* Ctrl-C (SIGINT) ends the server, in the foreground by the default
\* action and as a daemon through signal_handler's exit(0).
InterruptEndsServer == ("SIGINT" \in sent) ~> ~Alive

=============================================================================
