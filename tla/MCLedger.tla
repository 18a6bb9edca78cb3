------------------------------- MODULE MCLedger -------------------------------
(* Values for checking Ledger: the rows are finite, the counters are not.     *)
EXTENDS Ledger, TLC

CONSTANTS MaxAttempts, MaxEvents

Identifiers ==
    Permutations(SessionId) \cup Permutations(OperationId)
       \cup Permutations(RequestId) \cup Permutations(SnapshotId)

Small ==
    /\ \A r \in RequestId : Len(attempts[r]) <= MaxAttempts
    /\ \A s \in SessionId : eventRows[s] <= MaxEvents

=============================================================================
