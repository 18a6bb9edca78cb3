------------------------------- MODULE MCDaemon -------------------------------
(* Values for checking DaemonService on small instances.                     *)
EXTENDS DaemonProperties, TLC

Identifiers ==
    Permutations(SessionId) \cup Permutations(OperationId)
       \cup Permutations(RequestId) \cup Permutations(SnapshotId)
       \cup Permutations(Handler)

=============================================================================
