---------------------------- MODULE DaemonStartup ----------------------------
(***************************************************************************)
(* How a daemon comes up and goes away: `tracepress daemon start` and       *)
(* `stop` (tracepress-cli/src/main.rs), main of tracepressd, the control    *)
(* socket and its owner marker (tracepress-ipc/src/unix) and the schema     *)
(* migrations (tracepress-storage/src/schema.rs).                           *)
(*                                                                          *)
(* Every start command spawns one daemon, named like the command.  A daemon *)
(* makes at most one socket and one marker, so a file is named by the       *)
(* daemon that made it: this is its (device, inode) identity, as long as    *)
(* the file system does not hand a freed inode number out again.            *)
(***************************************************************************)
EXTENDS Integers, FiniteSets

CONSTANTS
    Starts,         \* the start commands
    Old,            \* a daemon that was killed before them, not in Starts
    None,           \* no file: neither in Starts nor Old
    Latest,         \* LATEST_SCHEMA_VERSION
    MaxPolls,       \* the polls of a start command (50 in the code)
    MaxAlive,       \* bound: daemon processes alive at a time
    MaxKills        \* bound: kills, those by the start commands left aside

VARIABLES
    credential,     \* the credential file: "none", "empty" or "written"
    socket,         \* the file at the socket's path
    marker,         \* the file at the marker's path
    written,        \* the markers that hold the owner token
    ready,          \* is there a readiness file
    cli,            \* of each start command: where it is, the polls it has left
                    \* and the daemon it asked for its status
    stop,           \* the same of the stop command
    daemon,         \* of each daemon: where it is, the socket and the marker it
                    \* read, what it owns, the file it moved away to look at, and
                    \* what a removal is part of
    version,        \* the schema version of the database file
    session,        \* of each daemon: a session of its own
    kills           \* how many daemons were killed

paths == <<socket, marker, written>>
store == <<version, session>>
vars == <<credential, paths, ready, cli, stop, daemon, store, kills>>

Absent == [at |-> "absent", socket |-> None, marker |-> None, owns |-> {}, held |-> None,
           ending |-> "none"]
Gone(d, how) == [Absent EXCEPT !.at = how, !.held = daemon[d].held]
Alive(d) == daemon[d].at \notin {"absent", "exited", "killed"}

(* A connection succeeds while the listener of the file is open.              *)
Listens(f) == f \in Starts /\ "listener" \in daemon[f].owns
Serves(d) == daemon[d].at = "serving"

Init ==
    /\ credential \in {"none", "written"}
    /\ socket \in {None, Old} /\ marker = socket /\ written = {Old}
    /\ socket = Old => credential = "written"
    /\ ready \in {FALSE, socket = Old}
    /\ cli = [c \in Starts |-> [at |-> "idle", polls |-> MaxPolls, asked |-> None]]
    /\ stop = [at |-> "idle", asked |-> None]
    /\ daemon = [d \in Starts |-> Absent]
    /\ version \in IF socket = Old THEN {Latest} ELSE {0}
    /\ session = [d \in Starts \cup {Old} |-> IF d = socket THEN "active" ELSE "none"]
    /\ kills = 0
-----------------------------------------------------------------------------
(* Steps of a start command.                                                  *)
Command(c, from, to) ==
    /\ cli[c].at = from
    /\ cli' = [cli EXCEPT ![c] = IF to \in {"running", "failed"}
                                 THEN [at |-> to, polls |-> 0, asked |-> None]
                                 ELSE [@ EXCEPT !.at = to]]
OnlyCommand == UNCHANGED <<paths, ready, stop, store, kills>>

(* init: the credential is created, then written.                             *)
CreateCredential(c) ==
    /\ credential = "none"
    /\ Command(c, "idle", "writing")
    /\ credential' = "empty"
    /\ OnlyCommand /\ UNCHANGED daemon

WriteCredential(c) ==
    /\ Command(c, "writing", "probing")
    /\ credential' = "written"
    /\ OnlyCommand /\ UNCHANGED daemon

FindCredential(c) ==
    /\ credential # "none"
    /\ Command(c, "idle", "probing")
    /\ OnlyCommand /\ UNCHANGED <<credential, daemon>>

(* The user interrupts the command; the daemon it spawned goes on.            *)
Interrupt(c) ==
    /\ \E at \in {"writing", "polling", "pollAsking"} : Command(c, at, "failed")
    /\ OnlyCommand /\ UNCHANGED <<credential, daemon>>

(* daemon_running: a connection is tried and dropped ...                      *)
Spawn(c) ==
    /\ ~Listens(socket)
    /\ Cardinality({d \in Starts : Alive(d)}) < MaxAlive
    /\ Command(c, "probing", "polling")
    /\ daemon' = [daemon EXCEPT ![c].at = "credential"]
    /\ OnlyCommand /\ UNCHANGED credential

FindListener(c) ==
    /\ Listens(socket)
    /\ \/ Command(c, "probing", "asking")
       \/ ready /\ cli[c].polls > 0 /\ Command(c, "polling", "pollAsking")
    /\ OnlyCommand /\ UNCHANGED <<credential, daemon>>

(* ... and then the status is asked for, over a connection of its own.        *)
Ask(c) ==
    /\ cli[c].at \in {"asking", "pollAsking"} /\ cli[c].asked = None
    /\ Listens(socket) /\ credential = "written"
    /\ cli' = [cli EXCEPT ![c].asked = socket]
    /\ OnlyCommand /\ UNCHANGED <<credential, daemon>>

Answered(asked) == asked # None /\ Serves(asked)
(* Nobody to ask, or the one that was asked closes before it answers.         *)
Unanswered(asked) ==
    IF asked = None THEN ~Listens(socket) \/ credential # "written" ELSE ~Listens(asked)

RefuseSecondStart(c) ==
    /\ Command(c, "asking", "failed")
    /\ Answered(cli[c].asked) \/ Unanswered(cli[c].asked)
    /\ OnlyCommand /\ UNCHANGED <<credential, daemon>>

ReportRunning(c) ==
    /\ Answered(cli[c].asked)
    /\ Command(c, "pollAsking", "running")
    /\ OnlyCommand /\ UNCHANGED <<credential, daemon>>

KillChild(c) ==
    daemon' = [daemon EXCEPT ![c] = IF Alive(c) THEN Gone(c, "killed") ELSE @]

(* The readiness check failed: the child is killed.                           *)
GiveUpAsking(c) ==
    /\ Unanswered(cli[c].asked)
    /\ Command(c, "pollAsking", "failed")
    /\ KillChild(c)
    /\ OnlyCommand /\ UNCHANGED credential

(* A poll that finds no readiness file, or no listener; the last of the polls *)
(* kills the child.                                                           *)
PollAgain(c) ==
    /\ cli[c].at = "polling" /\ cli[c].polls > 0
    /\ ready => ~Listens(socket)
    /\ cli' = [cli EXCEPT ![c].polls = @ - 1]
    /\ OnlyCommand /\ UNCHANGED <<credential, daemon>>

GiveUpPolling(c) ==
    /\ cli[c].polls = 0
    /\ Command(c, "polling", "failed")
    /\ KillChild(c)
    /\ OnlyCommand /\ UNCHANGED credential

StartCommand(c) ==
    \/ CreateCredential(c) \/ WriteCredential(c) \/ FindCredential(c)
    \/ Spawn(c) \/ FindListener(c) \/ Ask(c) \/ RefuseSecondStart(c)
    \/ ReportRunning(c) \/ GiveUpAsking(c) \/ PollAgain(c) \/ GiveUpPolling(c)
-----------------------------------------------------------------------------
(* daemon_stop: Shutdown is asked, the socket is awaited to go, and then the  *)
(* readiness file is removed.                                                 *)
OnlyStop == UNCHANGED <<credential, paths, cli, store, kills>>

AskShutdown ==
    /\ stop.at = "idle"
    /\ \E c \in Starts : cli[c].at = "running"
    /\ stop' = IF Listens(socket) THEN [at |-> "asking", asked |-> socket]
               ELSE [at |-> "failed", asked |-> None]
    /\ OnlyStop /\ UNCHANGED <<ready, daemon>>

(* The daemon answers, and then leaves its loop.                              *)
AnswerShutdown(d) ==
    /\ stop = [at |-> "asking", asked |-> d]
    /\ Serves(d)
    /\ stop' = [at |-> "polling", asked |-> None]
    /\ daemon' = [daemon EXCEPT ![d].at = "verify", ![d].ending = "stop"]
    /\ OnlyStop /\ UNCHANGED ready

StopFails ==
    /\ \/ stop.at = "asking" /\ Unanswered(stop.asked)
       \/ stop.at = "polling" /\ socket # None
    /\ stop' = [at |-> "failed", asked |-> None]
    /\ OnlyStop /\ UNCHANGED <<ready, daemon>>

SeeSocketGone ==
    /\ stop.at = "polling" /\ socket = None
    /\ stop' = [stop EXCEPT !.at = "removing"]
    /\ OnlyStop /\ UNCHANGED <<ready, daemon>>

RemoveReady ==
    /\ stop.at = "removing"
    /\ stop' = [stop EXCEPT !.at = "stopped"]
    /\ ready' = FALSE
    /\ OnlyStop /\ UNCHANGED daemon

StopCommand == AskShutdown \/ StopFails \/ SeeSocketGone \/ RemoveReady
-----------------------------------------------------------------------------
(* Steps of a daemon.                                                         *)
Becomes(d, p) == daemon' = [daemon EXCEPT ![d] = p]
Goes(d, from, to) == daemon[d].at = from /\ daemon' = [daemon EXCEPT ![d].at = to]
OnlyDaemon == UNCHANGED <<credential, cli, stop, kills>>
InMemory == OnlyDaemon /\ UNCHANGED <<paths, ready, store>>

(* Drop of the transport, or of its artifacts when there is no transport yet: *)
(* the listener closes; with both identities known both files are cleaned up, *)
(* with the marker's alone the marker, and otherwise nothing.                 *)
Failing(d, owns) ==
    LET files == owns \ {"listener"}
    IN  IF files = {} THEN Gone(d, "exited")
        ELSE [daemon[d] EXCEPT !.owns = files, !.ending = "error", !.held = None,
                               !.at = IF "socket" \in files THEN "verify" ELSE "takeMarker"]

(* read_hex of the credential.                                                *)
ReadCredential(d) ==
    /\ daemon[d].at = "credential"
    /\ Becomes(d, IF credential = "written" THEN [daemon[d] EXCEPT !.at = "socket"]
                  ELSE Gone(d, "exited"))
    /\ InMemory

(* prepare_socket_path: the socket is looked at, then the marker and its      *)
(* token, and a socket that is there is connected to.                         *)
ReadSocket(d) ==
    /\ daemon[d].at = "socket"
    /\ Becomes(d, [daemon[d] EXCEPT !.at = "marker", !.socket = socket])
    /\ InMemory

ReadMarker(d) ==
    LET p == [daemon[d] EXCEPT !.marker = marker, !.ending = "prepare"]
    IN  /\ p.at = "marker"
        /\ Becomes(d,
             IF marker \in written
             THEN [p EXCEPT !.at = IF p.socket = None THEN "takeMarker" ELSE "connect"]
             ELSE IF marker = None /\ p.socket = None THEN [p EXCEPT !.at = "address"]
             ELSE Gone(d, "exited"))
        /\ InMemory

Connect(d) ==
    /\ daemon[d].at = "connect"
    /\ Becomes(d, IF Listens(socket) THEN Gone(d, "exited")
                  ELSE [daemon[d] EXCEPT !.at = "takeSocket"])
    /\ InMemory

(* remove_matching: the file is moved into a private directory, and there it  *)
(* is removed when it is the one that was meant, or else linked back.  A file *)
(* that cannot be linked back is left in the private directory.               *)
Meant(d, artifact) == IF daemon[d].ending = "prepare" THEN daemon[d][artifact] ELSE d

(* What comes of a removal that fails: a start fails, a cleanup ends, and a   *)
(* transport that could not be closed is dropped, and so cleaned up again.    *)
RemovalFails(d) ==
    IF daemon[d].ending = "stop" THEN Failing(d, daemon[d].owns)
    ELSE [Gone(d, "exited") EXCEPT !.held = None]

TakeSocket(d) ==
    /\ daemon[d].at = "takeSocket"
    /\ socket' = None
    /\ Becomes(d, IF socket = None THEN RemovalFails(d)
                  ELSE [daemon[d] EXCEPT !.at = "dropSocket", !.held = socket])
    /\ OnlyDaemon /\ UNCHANGED <<marker, written, ready, store>>

SocketDropped(d) ==
    [daemon[d] EXCEPT !.at = "takeMarker", !.held = None, !.owns = @ \ {"socket"}]

DropSocket(d) ==
    /\ daemon[d].at = "dropSocket"
    /\ IF daemon[d].held = Meant(d, "socket")
       THEN Becomes(d, SocketDropped(d)) /\ UNCHANGED socket
       ELSE /\ Becomes(d, RemovalFails(d))
            /\ socket' = IF socket = None THEN daemon[d].held ELSE socket
    /\ OnlyDaemon /\ UNCHANGED <<marker, written, ready, store>>

TakeMarker(d) ==
    /\ daemon[d].at = "takeMarker"
    /\ marker' = None
    /\ Becomes(d, IF marker = None THEN RemovalFails(d)
                  ELSE [daemon[d] EXCEPT !.at = "dropMarker", !.held = marker])
    /\ OnlyDaemon /\ UNCHANGED <<socket, written, ready, store>>

MarkerDropped(d) ==
    LET p == [daemon[d] EXCEPT !.held = None, !.owns = {}]
    IN  CASE p.ending = "prepare" -> [p EXCEPT !.at = "address"]
          [] p.ending = "stop" -> [p EXCEPT !.at = "draining"]
          [] p.ending = "error" -> [p EXCEPT !.at = "exited"]

DropMarker(d) ==
    /\ daemon[d].at = "dropMarker"
    /\ IF daemon[d].held = Meant(d, "marker")
       THEN Becomes(d, MarkerDropped(d)) /\ UNCHANGED marker
       ELSE /\ Becomes(d, RemovalFails(d))
            /\ marker' = IF marker = None THEN daemon[d].held ELSE marker
    /\ OnlyDaemon /\ UNCHANGED <<socket, written, ready, store>>
-----------------------------------------------------------------------------
(* ensure_socket_path_addressable: there must be no socket.                   *)
EnsureAddressable(d) ==
    /\ daemon[d].at = "address"
    /\ Becomes(d, IF socket = None THEN [daemon[d] EXCEPT !.at = "create"] ELSE Gone(d, "exited"))
    /\ InMemory

(* create_marker, with create_new; write_marker.                              *)
CreateMarker(d) ==
    /\ daemon[d].at = "create"
    /\ marker' = IF marker = None THEN d ELSE marker
    /\ Becomes(d, IF marker = None THEN [daemon[d] EXCEPT !.at = "write", !.owns = {"marker"}]
                  ELSE Gone(d, "exited"))
    /\ OnlyDaemon /\ UNCHANGED <<socket, written, ready, store>>

WriteMarker(d) ==
    /\ Goes(d, "write", "stage")
    /\ written' = written \cup {d}
    /\ OnlyDaemon /\ UNCHANGED <<socket, marker, ready, store>>

(* StagedSocket::create and the listener bound in its private directory.      *)
StageSocket(d) ==
    /\ daemon[d].at = "stage"
    /\ Becomes(d, [daemon[d] EXCEPT !.at = "publish", !.owns = {"marker", "listener"}])
    /\ InMemory

(* StagedSocket::publish: a rename that does not replace, then another look.  *)
Publish(d) ==
    /\ daemon[d].at = "publish"
    /\ socket' = IF socket = None THEN d ELSE socket
    /\ Becomes(d, IF socket = None THEN [daemon[d] EXCEPT !.at = "published"]
                  ELSE Failing(d, daemon[d].owns))
    /\ OnlyDaemon /\ UNCHANGED <<marker, written, ready, store>>

VerifyPublished(d) ==
    /\ daemon[d].at = "published"
    /\ Becomes(d, IF socket = d
                  THEN [daemon[d] EXCEPT !.at = "open", !.owns = {"marker", "listener", "socket"}]
                  ELSE Failing(d, daemon[d].owns))
    /\ InMemory
-----------------------------------------------------------------------------
(* open_database: every migration above the file's version, each in its own   *)
(* transaction.                                                               *)
Migrate(d) ==
    /\ daemon[d].at = "open" /\ version < Latest
    /\ version' = version + 1
    /\ OnlyDaemon /\ UNCHANGED <<daemon, paths, ready, session>>

Opened(d) ==
    /\ version >= Latest
    /\ Goes(d, "open", "recover")
    /\ InMemory

OpenFails(d) ==
    /\ daemon[d].at \in {"open", "recover", "ready"}
    /\ Becomes(d, Failing(d, daemon[d].owns))
    /\ InMemory

(* DaemonService::open: what a prior process left active is marked stale.     *)
Recover(d) ==
    /\ Goes(d, "recover", "ready")
    /\ session' = [e \in DOMAIN session |-> IF session[e] = "active" THEN "stale" ELSE session[e]]
    /\ OnlyDaemon /\ UNCHANGED <<paths, ready, version>>

WriteReady(d) ==
    /\ Goes(d, "ready", "serving")
    /\ ready' = TRUE
    /\ OnlyDaemon /\ UNCHANGED <<paths, store>>
-----------------------------------------------------------------------------
(* A session is started: it is queued for the writer, which commits it while  *)
(* the process lives.                                                         *)
Session(d, from, to) ==
    /\ session[d] = from
    /\ session' = [session EXCEPT ![d] = to]
    /\ OnlyDaemon /\ UNCHANGED <<daemon, paths, ready, version>>

StartSession(d) == Serves(d) /\ Session(d, "none", "queued")
Commit(d) == Alive(d) /\ Session(d, "queued", "active")

(* ctrl-c leaves the loop; an accept that fails leaves main.                  *)
HearInterrupt(d) ==
    /\ Serves(d)
    /\ Becomes(d, [daemon[d] EXCEPT !.at = "verify", !.ending = "stop"])
    /\ InMemory

AcceptFails(d) ==
    /\ Serves(d)
    /\ Becomes(d, Failing(d, daemon[d].owns))
    /\ InMemory

(* SocketArtifacts::cleanup: both files must still be the daemon's own.       *)
VerifyOwn(d) ==
    /\ daemon[d].at = "verify"
    /\ Becomes(d, IF socket = d /\ marker = d THEN [daemon[d] EXCEPT !.at = "takeSocket"]
                  ELSE RemovalFails(d))
    /\ InMemory

(* DaemonService::shutdown: the writer ends when its queue is empty.          *)
Drain(d) ==
    /\ daemon[d].at = "draining"
    /\ session[d] # "queued"
    /\ Becomes(d, Gone(d, "exited"))
    /\ InMemory

Kill(d) ==
    /\ kills < MaxKills
    /\ Alive(d)
    /\ Becomes(d, Gone(d, "killed"))
    /\ kills' = kills + 1
    /\ UNCHANGED <<credential, cli, stop, paths, ready, store>>

Daemon(d) ==
    \/ ReadCredential(d) \/ ReadSocket(d) \/ ReadMarker(d) \/ Connect(d)
    \/ TakeSocket(d) \/ DropSocket(d) \/ TakeMarker(d) \/ DropMarker(d)
    \/ EnsureAddressable(d) \/ CreateMarker(d) \/ WriteMarker(d) \/ StageSocket(d)
    \/ Publish(d) \/ VerifyPublished(d) \/ Migrate(d) \/ Opened(d)
    \/ Recover(d) \/ WriteReady(d) \/ VerifyOwn(d) \/ Drain(d) \/ Commit(d)

Next ==
    \/ \E c \in Starts : StartCommand(c) \/ Interrupt(c)
    \/ StopCommand
    \/ \E d \in Starts :
         \/ Daemon(d) \/ AnswerShutdown(d) \/ OpenFails(d)
         \/ StartSession(d) \/ HearInterrupt(d) \/ AcceptFails(d) \/ Kill(d)

Spec == Init /\ [][Next]_vars
=============================================================================
