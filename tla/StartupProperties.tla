-------------------------- MODULE StartupProperties --------------------------
(* What starting and stopping daemons must keep to.                           *)
EXTENDS DaemonStartup

(* Every variable stays in its set, and a daemon keeps a file in its private  *)
(* directory only between the two halves of remove_matching                   *)
(* (artifacts/cleanup.rs).                                                    *)
StartupTypeOK ==
    /\ credential \in {"none", "empty", "written"} /\ ready \in BOOLEAN
    /\ {socket, marker} \subseteq Starts \cup {Old, None}
    /\ written \subseteq Starts \cup {Old}
    /\ \A c \in Starts : cli[c].polls \in 0 .. MaxPolls
    /\ \A d \in Starts : Alive(d) =>
         (daemon[d].held # None <=> daemon[d].at \in {"dropSocket", "dropMarker"})
    /\ version \in 0 .. Latest /\ kills \in 0 .. MaxKills

(* Two daemons never both serve the socket's path, however two start          *)
(* commands, a stop, a kill and the cleanup of a predecessor interleave:      *)
(* UnixTransport::bind connects before it removes and publishes without       *)
(* replacing (unix.rs).  The store has one writer because of it.              *)
OneDaemonServes == \A c, d \in Starts : Serves(c) /\ Serves(d) => c = d

(* The socket of a daemon that serves stays at its path: nobody takes it for  *)
(* the rest of a predecessor and removes it.  At most somebody has moved it   *)
(* away to look at it, and links it back (remove_matching).                   *)
Displaced(d) == \E e \in Starts : daemon[e].held = d
ServingIsReachable == \A d \in Starts : Serves(d) => socket = d \/ Displaced(d)

(* "Owned Unix listener whose filesystem artifacts are removed on drop"       *)
(* (unix.rs): a daemon that has left by itself has left no file.              *)
ArtifactsAreRemoved == \A d \in Starts : daemon[d].at = "exited" => d \notin {socket, marker}

(* What mark_active_sessions_stale is for (writer.rs): while a daemon serves, *)
(* no session of a process that is gone is active.                            *)
PredecessorsAreRecovered ==
    \A d, e \in Starts : Serves(d) /\ session[e] = "active" => Alive(e)
=============================================================================
