---------------------------- MODULE Ledger_proofs ----------------------------
(* What every behaviour of Ledger satisfies, for any sets of identifiers.     *)
EXTENDS Ledger, TLAPS

USE NoneAssumption, MaxBlocksAssumption

(* Ended closes a row once and leaves the rest of it alone.                   *)
LEMMA EndedRow ==
    ASSUME NEW row \in SnapshotRow, NEW state \in {"ended", "recovered"},
           NEW count \in Nat \cup {None}
    PROVE  /\ Ended(row, state, count) \in SnapshotRow
           /\ Ended(row, state, count) =
                 [session |-> row.session, request |-> row.request,
                  state |-> state, blocks |-> row.blocks, count |-> count,
                  terminals |-> row.terminals + 1]
<1>1. /\ row.session \in SessionId
      /\ row.request \in RequestId
      /\ row.blocks \in Nat
      /\ row.terminals \in Nat
  BY DEF SnapshotRow
<1>2. Ended(row, state, count) =
         [session |-> row.session, request |-> row.request, state |-> state,
          blocks |-> row.blocks, count |-> count,
          terminals |-> row.terminals + 1]
  <2> DEFINE settled == [row EXCEPT !.state = state]
             counted == [settled EXCEPT !.count = count]
  <2>1. Ended(row, state, count) =
           [counted EXCEPT !.terminals = row.terminals + 1]
    BY DEF Ended
  <2>2. settled =
           [session |-> row.session, request |-> row.request, state |-> state,
            blocks |-> row.blocks, count |-> row.count,
            terminals |-> row.terminals]
    BY DEF SnapshotRow
  <2> HIDE DEF settled
  <2>3. counted =
           [session |-> row.session, request |-> row.request, state |-> state,
            blocks |-> row.blocks, count |-> count,
            terminals |-> row.terminals]
    BY <2>2
  <2> HIDE DEF counted
  <2> QED
    BY <2>1, <2>3
<1> QED
  BY <1>1, <1>2 DEF SnapshotRow

(* Extended adds blocks to a row and leaves the rest of it alone.             *)
LEMMA ExtendedRow ==
    ASSUME NEW row \in SnapshotRow, NEW n \in Nat
    PROVE  /\ Extended(row, n) \in SnapshotRow
           /\ Extended(row, n).state = row.state
           /\ Extended(row, n).count = row.count
           /\ Extended(row, n).terminals = row.terminals
           /\ Extended(row, n).session = row.session
           /\ Extended(row, n).request = row.request
<1>1. /\ row.session \in SessionId
      /\ row.request \in RequestId
      /\ row.state \in {"open", "ended", "recovered"}
      /\ row.blocks \in Nat
      /\ row.count \in Nat \cup {None}
      /\ row.terminals \in Nat
  BY DEF SnapshotRow
<1>2. Extended(row, n) =
         [session |-> row.session, request |-> row.request,
          state |-> row.state, blocks |-> row.blocks + n,
          count |-> row.count, terminals |-> row.terminals]
  BY DEF SnapshotRow, Extended
<1> QED
  BY <1>1, <1>2 DEF SnapshotRow

(* Completed touches an operation row's status only.                          *)
LEMMA CompletedRow ==
    ASSUME NEW row \in OperationRow
    PROVE  /\ Completed(row) \in OperationRow
           /\ Completed(row).session = row.session
           /\ Completed(row).parent = row.parent
<1>1. /\ row.session \in SessionId
      /\ row.kind \in Kind
      /\ row.parent \in OperationId \cup {None}
  BY DEF OperationRow
<1>2. Completed(row) =
         [session |-> row.session, kind |-> row.kind,
          parent |-> row.parent, status |-> "finished"]
  BY DEF OperationRow, Completed
<1> QED
  BY <1>1, <1>2 DEF OperationRow

(* The rows have their declared shape in every reachable state.               *)
LEMMA LedgerTypeStep == LedgerTypeOK /\ [LedgerNext]_ledgerVars => LedgerTypeOK'
<1> SUFFICES ASSUME LedgerTypeOK, [LedgerNext]_ledgerVars
             PROVE  LedgerTypeOK'
  OBVIOUS
<1> USE DEF LedgerTypeOK
<1>1. ASSUME NEW s \in SessionId, OpenSession(s)
      PROVE  LedgerTypeOK'
  BY <1>1 DEF OpenSession
<1>2. ASSUME NEW s \in SessionId, RecordEvent(s)
      PROVE  LedgerTypeOK'
  BY <1>2 DEF RecordEvent
<1>3. ASSUME NEW s \in SessionId, CloseSession(s)
      PROVE  LedgerTypeOK'
  <2>1. ASSUME NEW x \in SnapshotId, Open(x)
        PROVE  Ended(snapshotRow[x], "ended", snapshotRow[x].blocks) \in SnapshotRow
    <3>1. snapshotRow[x] \in SnapshotRow
      BY <2>1 DEF Open
    <3>2. snapshotRow[x].blocks \in Nat \cup {None}
      BY <3>1 DEF SnapshotRow
    <3> QED
      BY <3>1, <3>2, EndedRow
  <2> QED
    BY <1>3, <2>1 DEF CloseSession
<1>4. ASSUME NEW o \in OperationId, NEW s \in SessionId, NEW kind \in Kind,
             NEW parent \in OperationId \cup {None},
             StartOperation(o, s, kind, parent)
      PROVE  LedgerTypeOK'
  BY <1>4 DEF StartOperation, OperationRow
<1>5. ASSUME NEW o \in OperationId, NEW r \in RequestId, NEW terminal \in BOOLEAN,
             RecordAttempt(o, r, terminal)
      PROVE  LedgerTypeOK'
  <2>1. attempts' \in [RequestId -> Seq(Nat)]
    <3>1. Append(attempts[r], Len(attempts[r])) \in Seq(Nat)
      OBVIOUS
    <3> QED
      BY <1>5, <3>1 DEF RecordAttempt
  <2>2. operationRow' \in [OperationId -> OperationRow \cup {None}]
    <3>1. operationRow[o] \in OperationRow
      BY <1>5 DEF RecordAttempt
    <3>2. Completed(operationRow[o]) \in OperationRow
      BY <3>1, CompletedRow
    <3> QED
      BY <1>5, <3>2 DEF RecordAttempt
  <2>3. requestRow' \in [RequestId -> OperationId \cup {None}]
    BY <1>5 DEF RecordAttempt
  <2> QED
    BY <1>5, <2>1, <2>2, <2>3 DEF RecordAttempt
<1>6. ASSUME NEW x \in SnapshotId, NEW s \in SessionId, NEW r \in RequestId,
             BeginSnapshot(x, s, r)
      PROVE  LedgerTypeOK'
  <2>1. [session |-> s, request |-> r, state |-> "open",
         blocks |-> 0, count |-> None, terminals |-> 0] \in SnapshotRow
    BY DEF SnapshotRow
  <2> QED
    BY <1>6, <2>1 DEF BeginSnapshot
<1>7. ASSUME NEW x \in SnapshotId, NEW n \in 1..MaxBlocks, AppendBlocks(x, n)
      PROVE  LedgerTypeOK'
  <2>1. snapshotRow[x] \in SnapshotRow
    BY <1>7 DEF AppendBlocks, Open
  <2>2. Extended(snapshotRow[x], n) \in SnapshotRow
    BY <2>1, ExtendedRow
  <2> QED
    BY <1>7, <2>2 DEF AppendBlocks
<1>8. ASSUME NEW x \in SnapshotId, EndSnapshot(x)
      PROVE  LedgerTypeOK'
  <2>1. snapshotRow[x] \in SnapshotRow
    BY <1>8 DEF EndSnapshot, Open
  <2>2. PICK count \in {snapshotRow[x].blocks, None} :
           snapshotRow' = [snapshotRow EXCEPT ![x] =
              Ended(snapshotRow[x], "ended", count)]
    BY <1>8 DEF EndSnapshot
  <2>3. Ended(snapshotRow[x], "ended", count) \in SnapshotRow
    <3>1. count \in Nat \cup {None}
      BY <2>1 DEF SnapshotRow
    <3> QED
      BY <2>1, <3>1, EndedRow
  <2> QED
    BY <1>8, <2>2, <2>3 DEF EndSnapshot
<1>9. ASSUME Recover
      PROVE  LedgerTypeOK'
  <2>1. ASSUME NEW x \in SnapshotId, Open(x)
        PROVE  Ended(snapshotRow[x], "recovered", snapshotRow[x].count) \in SnapshotRow
    <3>1. snapshotRow[x] \in SnapshotRow
      BY <2>1 DEF Open
    <3>2. snapshotRow[x].count \in Nat \cup {None}
      BY <3>1 DEF SnapshotRow
    <3> QED
      BY <3>1, <3>2, EndedRow
  <2> QED
    BY <1>9, <2>1 DEF Recover
<1>10. CASE UNCHANGED ledgerVars
  BY <1>10 DEF ledgerVars
<1> QED
  BY <1>1, <1>2, <1>3, <1>4, <1>5, <1>6, <1>7, <1>8, <1>9, <1>10 DEF LedgerNext

(* The tables keep their types.                                               *)
THEOREM LedgerTypeCorrect == LedgerSpec => []LedgerTypeOK
<1>1. LedgerInit => LedgerTypeOK
  BY DEF LedgerInit, LedgerTypeOK
<1> QED
  BY <1>1, LedgerTypeStep, PTL DEF LedgerSpec

-----------------------------------------------------------------------------
(* Associations are never rewritten: an operation keeps its session and its   *)
(* parent, and a request keeps its operation.                                 *)
OperationKept(o) ==
    operationRow[o] # None =>
       /\ operationRow'[o] # None
       /\ operationRow'[o].session = operationRow[o].session
       /\ operationRow'[o].parent = operationRow[o].parent

RequestKept(r) == requestRow[r] # None => requestRow'[r] = requestRow[r]

(* A step of the ledger keeps every operation's session and parent, and every  *)
(* request's operation.                                                        *)
LEMMA AssociationsStay ==
    ASSUME LedgerTypeOK, [LedgerNext]_ledgerVars
    PROVE  /\ \A o \in OperationId : OperationKept(o)
           /\ \A r \in RequestId : RequestKept(r)
<1> USE DEF LedgerTypeOK, OperationKept, RequestKept
<1> DEFINE Kept == /\ \A o \in OperationId : OperationKept(o)
                   /\ \A r \in RequestId : RequestKept(r)
<1>1. ASSUME NEW p \in OperationId, NEW s \in SessionId, NEW kind \in Kind,
             NEW parent \in OperationId \cup {None},
             StartOperation(p, s, kind, parent)
      PROVE  Kept
  BY <1>1 DEF StartOperation
<1>2. ASSUME NEW p \in OperationId, NEW q \in RequestId, NEW terminal \in BOOLEAN,
             RecordAttempt(p, q, terminal)
      PROVE  Kept
  <2>1. \A r \in RequestId : RequestKept(r)
    BY <1>2 DEF RecordAttempt
  <2>2. operationRow[p] \in OperationRow
    BY <1>2 DEF RecordAttempt
  <2>3. /\ Completed(operationRow[p]) # None
        /\ Completed(operationRow[p]).session = operationRow[p].session
        /\ Completed(operationRow[p]).parent = operationRow[p].parent
    BY <2>2, CompletedRow
  <2> QED
    BY <1>2, <2>1, <2>3 DEF RecordAttempt
<1>3. CASE UNCHANGED <<operationRow, requestRow>>
  BY <1>3
<1> QED
  BY <1>1, <1>2, <1>3
     DEF LedgerNext, ledgerVars, OpenSession, RecordEvent, CloseSession,
         BeginSnapshot, AppendBlocks, EndSnapshot, Recover

-----------------------------------------------------------------------------
(* What one step can do to one analysis: leave it (and its session active, if *)
(* it is open), begin it, extend it, or end it.                               *)
LeftAlone(x) ==
    /\ snapshotRow'[x] = snapshotRow[x]
    /\ Open(x) /\ sessionRow[snapshotRow[x].session] = "active"
          => sessionRow'[snapshotRow[x].session] = "active"

BegunNow(x) ==
    /\ snapshotRow[x] = None
    /\ \E s \in SessionId, r \in RequestId :
          /\ sessionRow'[s] = "active"
          /\ requestRow[r] # None /\ InSession(requestRow[r], s)
          /\ snapshotRow'[x] =
                [session |-> s, request |-> r, state |-> "open",
                 blocks |-> 0, count |-> None, terminals |-> 0]

ExtendedNow(x) ==
    /\ Open(x)
    /\ sessionRow'[snapshotRow[x].session] = "active"
    /\ \E n \in Nat : snapshotRow'[x] = Extended(snapshotRow[x], n)

EndedNow(x) ==
    /\ Open(x)
    /\ \E state \in {"ended", "recovered"},
          count \in {None, snapshotRow[x].count, snapshotRow[x].blocks} :
             snapshotRow'[x] = Ended(snapshotRow[x], state, count)

(* The only ways a step of the ledger changes an analysis: it is begun, it     *)
(* gets blocks, or it ends.                                                    *)
LEMMA AnalysisStep ==
    ASSUME LedgerTypeOK, [LedgerNext]_ledgerVars, NEW x \in SnapshotId
    PROVE  \/ LeftAlone(x) \/ BegunNow(x)
           \/ ExtendedNow(x) \/ EndedNow(x)
<1> USE DEF LedgerTypeOK
<1>1. ASSUME NEW s \in SessionId, OpenSession(s)
      PROVE  LeftAlone(x) \/ BegunNow(x) \/ ExtendedNow(x) \/ EndedNow(x)
  <2>1. Open(x) => snapshotRow[x].session \in SessionId
    BY DEF Open, SnapshotRow
  <2> QED
    BY <1>1, <2>1 DEF OpenSession, LeftAlone
<1>2. ASSUME NEW s \in SessionId, CloseSession(s)
      PROVE  LeftAlone(x) \/ BegunNow(x) \/ ExtendedNow(x) \/ EndedNow(x)
  <2>1. CASE Open(x) /\ snapshotRow[x].session = s
    BY <1>2, <2>1 DEF CloseSession, EndedNow
  <2>2. CASE ~(Open(x) /\ snapshotRow[x].session = s)
    <3>1. Open(x) => snapshotRow[x].session \in SessionId
      BY DEF Open, SnapshotRow
    <3> QED
      BY <1>2, <2>2, <3>1 DEF CloseSession, LeftAlone
  <2> QED
    BY <2>1, <2>2
<1>3. ASSUME NEW y \in SnapshotId, NEW s \in SessionId, NEW r \in RequestId,
             BeginSnapshot(y, s, r)
      PROVE  LeftAlone(x) \/ BegunNow(x) \/ ExtendedNow(x) \/ EndedNow(x)
  <2>1. CASE y = x
    BY <1>3, <2>1 DEF BeginSnapshot, BegunNow
  <2>2. CASE y # x
    BY <1>3, <2>2 DEF BeginSnapshot, LeftAlone
  <2> QED
    BY <2>1, <2>2
<1>4. ASSUME NEW y \in SnapshotId, NEW n \in 1..MaxBlocks, AppendBlocks(y, n)
      PROVE  LeftAlone(x) \/ BegunNow(x) \/ ExtendedNow(x) \/ EndedNow(x)
  <2>1. CASE y = x
    BY <1>4, <2>1 DEF AppendBlocks, ExtendedNow
  <2>2. CASE y # x
    BY <1>4, <2>2 DEF AppendBlocks, LeftAlone
  <2> QED
    BY <2>1, <2>2
<1>5. ASSUME NEW y \in SnapshotId, EndSnapshot(y)
      PROVE  LeftAlone(x) \/ BegunNow(x) \/ ExtendedNow(x) \/ EndedNow(x)
  <2>1. CASE y = x
    BY <1>5, <2>1 DEF EndSnapshot, EndedNow
  <2>2. CASE y # x
    BY <1>5, <2>2 DEF EndSnapshot, LeftAlone
  <2> QED
    BY <2>1, <2>2
<1>6. CASE Recover
  <2>1. CASE Open(x)
    BY <1>6, <2>1 DEF Recover, EndedNow
  <2>2. CASE ~Open(x)
    BY <1>6, <2>2 DEF Recover, LeftAlone
  <2> QED
    BY <2>1, <2>2
<1>7. CASE UNCHANGED <<snapshotRow, sessionRow>>
  BY <1>7 DEF LeftAlone
<1> QED
  BY <1>1, <1>2, <1>3, <1>4, <1>5, <1>6, <1>7
     DEF LedgerNext, ledgerVars, RecordEvent, StartOperation, RecordAttempt

(* An analysis that gets blocks keeps everything else it had.                  *)
LEMMA ExtendedNowRow ==
    ASSUME LedgerTypeOK, NEW x \in SnapshotId, ExtendedNow(x)
    PROVE  /\ snapshotRow[x] \in SnapshotRow
           /\ snapshotRow'[x] \in SnapshotRow
           /\ snapshotRow'[x].state = snapshotRow[x].state
           /\ snapshotRow'[x].count = snapshotRow[x].count
           /\ snapshotRow'[x].terminals = snapshotRow[x].terminals
           /\ snapshotRow'[x].session = snapshotRow[x].session
           /\ snapshotRow'[x].request = snapshotRow[x].request
<1>1. snapshotRow[x] \in SnapshotRow
  BY DEF ExtendedNow, Open, LedgerTypeOK
<1>2. PICK n \in Nat : snapshotRow'[x] = Extended(snapshotRow[x], n)
  BY DEF ExtendedNow
<1> QED
  BY <1>1, <1>2, ExtendedRow

(* An analysis that ends is no longer open, has one more terminal event, and   *)
(* takes its count from what it had: none, or the number of its blocks.        *)
LEMMA EndedNowRow ==
    ASSUME LedgerTypeOK, NEW x \in SnapshotId, EndedNow(x)
    PROVE  /\ snapshotRow[x] \in SnapshotRow
           /\ snapshotRow'[x] \in SnapshotRow
           /\ snapshotRow'[x].state # "open"
           /\ snapshotRow'[x].count
                 \in {None, snapshotRow[x].count, snapshotRow[x].blocks}
           /\ snapshotRow'[x].terminals = snapshotRow[x].terminals + 1
           /\ snapshotRow'[x].session = snapshotRow[x].session
           /\ snapshotRow'[x].request = snapshotRow[x].request
           /\ snapshotRow'[x].blocks = snapshotRow[x].blocks
<1>1. snapshotRow[x] \in SnapshotRow
  BY DEF EndedNow, Open, LedgerTypeOK
<1>2. PICK state \in {"ended", "recovered"},
           count \in {None, snapshotRow[x].count, snapshotRow[x].blocks} :
              snapshotRow'[x] = Ended(snapshotRow[x], state, count)
  BY DEF EndedNow
<1>3. count \in Nat \cup {None}
  BY <1>1 DEF SnapshotRow
<1>4. /\ Ended(snapshotRow[x], state, count) \in SnapshotRow
      /\ Ended(snapshotRow[x], state, count) =
            [session |-> snapshotRow[x].session,
             request |-> snapshotRow[x].request, state |-> state,
             blocks |-> snapshotRow[x].blocks, count |-> count,
             terminals |-> snapshotRow[x].terminals + 1]
  BY <1>1, <1>2, <1>3, EndedRow
<1> QED
  BY <1>1, <1>2, <1>4

(* No analysis outlives its session.                                          *)
LEMMA OpenAnalysesAreActiveStep ==
    LedgerTypeOK /\ OpenAnalysesAreActive /\ [LedgerNext]_ledgerVars
       => OpenAnalysesAreActive'
<1> SUFFICES ASSUME LedgerTypeOK, OpenAnalysesAreActive, [LedgerNext]_ledgerVars,
                    NEW x \in SnapshotId, Open(x)'
             PROVE  sessionRow'[snapshotRow'[x].session] = "active"
  BY DEF OpenAnalysesAreActive
<1>1. snapshotRow'[x] # None /\ snapshotRow'[x].state = "open"
  BY DEF Open
<1>2. CASE LeftAlone(x)
  BY <1>1, <1>2 DEF LeftAlone, Open, OpenAnalysesAreActive
<1>3. CASE BegunNow(x)
  BY <1>3 DEF BegunNow
<1>4. CASE ExtendedNow(x)
  BY <1>4, ExtendedNowRow DEF ExtendedNow
<1>5. CASE EndedNow(x)
  BY <1>1, <1>5, EndedNowRow
<1> QED
  BY <1>2, <1>3, <1>4, <1>5, AnalysisStep

(* finish_session and startup recovery leave no open analysis behind them.      *)
THEOREM OpenAnalysesAreActiveAlways == LedgerSpec => []OpenAnalysesAreActive
<1>1. LedgerInit => OpenAnalysesAreActive
  BY DEF LedgerInit, OpenAnalysesAreActive, Open
<1> QED
  BY <1>1, OpenAnalysesAreActiveStep, LedgerTypeCorrect, PTL DEF LedgerSpec

-----------------------------------------------------------------------------
(* One terminal outcome and event per analysis, with the stored block count.  *)
LEMMA AnalysesEndOnceStep ==
    LedgerTypeOK /\ AnalysesEndOnce /\ [LedgerNext]_ledgerVars => AnalysesEndOnce'
<1> SUFFICES ASSUME LedgerTypeOK, AnalysesEndOnce, [LedgerNext]_ledgerVars,
                    NEW x \in SnapshotId, snapshotRow'[x] # None
             PROVE  /\ snapshotRow'[x].terminals = IF Open(x)' THEN 0 ELSE 1
                    /\ snapshotRow'[x].count # None =>
                          /\ ~Open(x)'
                          /\ snapshotRow'[x].count = snapshotRow'[x].blocks
  BY DEF AnalysesEndOnce
<1>1. CASE LeftAlone(x)
  BY <1>1 DEF LeftAlone, Open, AnalysesEndOnce
<1>2. CASE BegunNow(x)
  BY <1>2 DEF BegunNow, Open
<1>3. CASE ExtendedNow(x)
  <2>1. Open(x) /\ Open(x)' /\ snapshotRow[x] # None
    BY <1>3, ExtendedNowRow DEF ExtendedNow, Open
  <2> QED
    BY <1>3, <2>1, ExtendedNowRow DEF AnalysesEndOnce
<1>4. CASE EndedNow(x)
  <2>1. Open(x) /\ ~Open(x)' /\ snapshotRow[x] # None
    BY <1>4, EndedNowRow DEF EndedNow, Open
  <2>2. snapshotRow[x].terminals = 0 /\ snapshotRow[x].count = None
    BY <2>1 DEF AnalysesEndOnce
  <2> QED
    BY <1>4, <2>1, <2>2, EndedNowRow
<1> QED
  BY <1>1, <1>2, <1>3, <1>4, AnalysisStep

(* Whichever path ends an analysis, it ends it once, with its block count.     *)
THEOREM AnalysesEndOnceAlways == LedgerSpec => []AnalysesEndOnce
<1>1. LedgerInit => AnalysesEndOnce
  BY DEF LedgerInit, AnalysesEndOnce
<1> QED
  BY <1>1, AnalysesEndOnceStep, LedgerTypeCorrect, PTL DEF LedgerSpec

-----------------------------------------------------------------------------
(* One request per inference, and its attempts numbered without a gap.        *)
LEMMA AttemptsAreConsecutiveStep ==
    LedgerTypeOK /\ AttemptsAreConsecutive /\ [LedgerNext]_ledgerVars
       => AttemptsAreConsecutive'
<1> SUFFICES ASSUME LedgerTypeOK, AttemptsAreConsecutive, [LedgerNext]_ledgerVars
             PROVE  AttemptsAreConsecutive'
  OBVIOUS
<1>1. ASSUME NEW o \in OperationId, NEW r \in RequestId, NEW terminal \in BOOLEAN,
             RecordAttempt(o, r, terminal)
      PROVE  AttemptsAreConsecutive'
  <2>1. ASSUME NEW p \in RequestId, NEW q \in RequestId,
               requestRow'[p] # None, requestRow'[p] = requestRow'[q]
        PROVE  p = q
    BY <1>1, <2>1 DEF RecordAttempt, AttemptsAreConsecutive, LedgerTypeOK
  <2>2. ASSUME NEW q \in RequestId, NEW i \in DOMAIN attempts'[q]
        PROVE  attempts'[q][i] = i - 1
    <3>1. attempts[r] \in Seq(Nat)
      BY DEF LedgerTypeOK
    <3>2. CASE q = r
      <4>1. attempts'[q] = Append(attempts[r], Len(attempts[r]))
        BY <1>1, <3>2 DEF RecordAttempt, LedgerTypeOK
      <4>2. \A j \in 1..Len(attempts[r]) : attempts[r][j] = j - 1
        BY <3>1 DEF AttemptsAreConsecutive
      <4>3. i \in 1..(Len(attempts[r]) + 1)
        BY <2>2, <3>1, <4>1
      <4> QED
        BY <3>1, <4>1, <4>2, <4>3
    <3>3. CASE q # r
      BY <1>1, <2>2, <3>3 DEF RecordAttempt, AttemptsAreConsecutive, LedgerTypeOK
    <3> QED
      BY <3>2, <3>3
  <2> QED
    BY <2>1, <2>2 DEF AttemptsAreConsecutive
<1>2. CASE UNCHANGED <<requestRow, attempts>>
  BY <1>2 DEF AttemptsAreConsecutive
<1> QED
  BY <1>1, <1>2
     DEF LedgerNext, ledgerVars, OpenSession, RecordEvent, CloseSession,
         StartOperation, BeginSnapshot, AppendBlocks, EndSnapshot, Recover

(* Retries of an inference share its request and continue its numbering.       *)
THEOREM AttemptsAreConsecutiveAlways == LedgerSpec => []AttemptsAreConsecutive
<1>1. LedgerInit => AttemptsAreConsecutive
  BY DEF LedgerInit, AttemptsAreConsecutive
<1> QED
  BY <1>1, AttemptsAreConsecutiveStep, LedgerTypeCorrect, PTL DEF LedgerSpec

-----------------------------------------------------------------------------
(* Causal edges and analyses stay within one session.                         *)
LEMMA AssociationsStayInSessionStep ==
    LedgerTypeOK /\ AssociationsStayInSession /\ [LedgerNext]_ledgerVars
       => AssociationsStayInSession'
<1> SUFFICES ASSUME LedgerTypeOK, AssociationsStayInSession,
                    [LedgerNext]_ledgerVars
             PROVE  AssociationsStayInSession'
  OBVIOUS
<1>1. ASSUME NEW o \in OperationId, NEW s \in SessionId, InSession(o, s)
      PROVE  InSession(o, s)'
  BY <1>1, AssociationsStay DEF OperationKept, InSession
<1>2. ASSUME NEW o \in OperationId,
             operationRow'[o] # None, operationRow'[o].parent # None
      PROVE  InSession(operationRow[o].parent, operationRow[o].session)'
  <2>1. CASE operationRow[o] # None
    <3>1. InSession(operationRow[o].parent, operationRow[o].session)
      BY <1>2, <2>1, AssociationsStay DEF OperationKept, AssociationsStayInSession
    <3>2. operationRow[o].parent \in OperationId
      BY <1>2, <2>1, AssociationsStay
         DEF OperationKept, LedgerTypeOK, OperationRow
    <3>3. operationRow[o].session \in SessionId
      BY <2>1 DEF LedgerTypeOK, OperationRow
    <3> QED
      BY <2>1, <1>1, <3>1, <3>2, <3>3, AssociationsStay DEF OperationKept
  <2>2. CASE operationRow[o] = None
    <3>1. PICK s \in SessionId, kind \in Kind, parent \in OperationId \cup {None} :
             StartOperation(o, s, kind, parent)
      BY <1>2, <2>2
         DEF LedgerNext, ledgerVars, OpenSession, RecordEvent, CloseSession,
             StartOperation, RecordAttempt, BeginSnapshot, AppendBlocks,
             EndSnapshot, Recover, LedgerTypeOK
    <3>2. operationRow'[o].parent = parent /\ operationRow'[o].session = s
      BY <3>1 DEF StartOperation, LedgerTypeOK
    <3>3. parent \in OperationId /\ InSession(parent, s)
      BY <1>2, <3>1, <3>2 DEF StartOperation
    <3> QED
      BY <1>1, <3>2, <3>3
  <2> QED
    BY <2>1, <2>2
<1>3. ASSUME NEW x \in SnapshotId, NEW s \in SessionId, NEW r \in RequestId,
             requestRow[r] # None, InSession(requestRow[r], s),
             snapshotRow'[x].session = s, snapshotRow'[x].request = r
      PROVE  /\ requestRow'[snapshotRow'[x].request] # None
             /\ InSession(requestRow[snapshotRow[x].request],
                          snapshotRow[x].session)'
  <2>1. requestRow'[r] = requestRow[r] /\ requestRow[r] \in OperationId
    BY <1>3, AssociationsStay DEF RequestKept, LedgerTypeOK
  <2> QED
    BY <1>1, <1>3, <2>1
<1>4. ASSUME NEW x \in SnapshotId, snapshotRow'[x] # None
      PROVE  /\ requestRow'[snapshotRow'[x].request] # None
             /\ InSession(requestRow[snapshotRow[x].request],
                          snapshotRow[x].session)'
  <2>1. ASSUME snapshotRow[x] # None,
               snapshotRow'[x].session = snapshotRow[x].session,
               snapshotRow'[x].request = snapshotRow[x].request
        PROVE  /\ requestRow'[snapshotRow'[x].request] # None
               /\ InSession(requestRow[snapshotRow[x].request],
                            snapshotRow[x].session)'
    BY <1>3, <2>1 DEF AssociationsStayInSession, LedgerTypeOK, SnapshotRow
  <2>2. CASE LeftAlone(x)
    BY <1>4, <2>1, <2>2 DEF LeftAlone
  <2>3. CASE BegunNow(x)
    BY <1>3, <2>3 DEF BegunNow
  <2>4. CASE ExtendedNow(x)
    BY <2>1, <2>4, ExtendedNowRow DEF ExtendedNow, Open
  <2>5. CASE EndedNow(x)
    BY <2>1, <2>5, EndedNowRow DEF EndedNow, Open
  <2> QED
    BY <2>2, <2>3, <2>4, <2>5, AnalysisStep
<1> QED
  BY <1>2, <1>4 DEF AssociationsStayInSession

(* No edge and no analysis joins rows of two sessions, in any reachable state. *)
THEOREM AssociationsStayInSessionAlways ==
    LedgerSpec => []AssociationsStayInSession
<1>1. LedgerInit => AssociationsStayInSession
  BY DEF LedgerInit, AssociationsStayInSession
<1> QED
  BY <1>1, AssociationsStayInSessionStep, LedgerTypeCorrect, PTL DEF LedgerSpec

-----------------------------------------------------------------------------
(* A closed session's rows no longer move.  A transaction of another session  *)
(* cannot reach them, because associations stay in their session, and startup *)
(* recovery cannot, because a closed session has no open analysis.            *)
LEMMA ClosedSessionStep ==
    ASSUME LedgerTypeOK, OpenAnalysesAreActive, [LedgerNext]_ledgerVars,
           NEW s \in SessionId, sessionRow[s] = "closed"
    PROVE  sessionRow'[s] = "closed" /\ Rows(s)' = Rows(s)
<1> USE DEF LedgerTypeOK
<1>1. sessionRow'[s] = "closed"
  BY DEF LedgerNext, ledgerVars, OpenSession, RecordEvent, CloseSession,
         StartOperation, RecordAttempt, BeginSnapshot, AppendBlocks,
         EndSnapshot, Recover
<1>2. eventRows'[s] = eventRows[s]
  BY DEF LedgerNext, ledgerVars, OpenSession, RecordEvent, CloseSession,
         StartOperation, RecordAttempt, BeginSnapshot, AppendBlocks,
         EndSnapshot, Recover
<1>3. ASSUME NEW o \in OperationId
      PROVE  InSession(o, s)' <=> InSession(o, s)
  <2>1. CASE operationRow[o] # None
    BY <2>1, AssociationsStay DEF OperationKept, InSession
  <2>2. CASE operationRow[o] = None
    <3>1. ASSUME NEW t \in SessionId, NEW kind \in Kind,
                 NEW parent \in OperationId \cup {None},
                 StartOperation(o, t, kind, parent)
          PROVE  ~InSession(o, s)'
      BY <3>1 DEF StartOperation, InSession
    <3>2. CASE operationRow'[o] = None
      BY <2>2, <3>2 DEF InSession
    <3>3. CASE operationRow'[o] # None
      <4>1. \E t \in SessionId, kind \in Kind, parent \in OperationId \cup {None} :
               StartOperation(o, t, kind, parent)
        BY <2>2, <3>3
           DEF LedgerNext, ledgerVars, OpenSession, RecordEvent, CloseSession,
               StartOperation, RecordAttempt, BeginSnapshot, AppendBlocks,
               EndSnapshot, Recover
      <4> QED
        BY <2>2, <3>1, <4>1 DEF InSession
    <3> QED
      BY <3>2, <3>3
  <2> QED
    BY <2>1, <2>2
<1>4. ASSUME NEW x \in SnapshotId
      PROVE  /\ (snapshotRow'[x] # None /\ snapshotRow'[x].session = s)
                   <=> (snapshotRow[x] # None /\ snapshotRow[x].session = s)
             /\ snapshotRow[x] # None /\ snapshotRow[x].session = s
                   => snapshotRow'[x] = snapshotRow[x]
  <2>1. snapshotRow[x] # None /\ snapshotRow[x].session = s => ~Open(x)
    BY DEF OpenAnalysesAreActive
  <2>2. CASE LeftAlone(x)
    BY <2>2 DEF LeftAlone
  <2>3. CASE BegunNow(x)
    BY <1>1, <2>3 DEF BegunNow
  <2>4. CASE ExtendedNow(x)
    BY <1>1, <2>1, <2>4, ExtendedNowRow DEF ExtendedNow, Open
  <2>5. CASE EndedNow(x)
    BY <2>1, <2>5, EndedNowRow DEF EndedNow, Open
  <2> QED
    BY <2>2, <2>3, <2>4, <2>5, AnalysisStep
<1>5. ASSUME NEW r \in RequestId
      PROVE  /\ (requestRow'[r] # None /\ InSession(requestRow[r], s)')
                   <=> (requestRow[r] # None /\ InSession(requestRow[r], s))
             /\ requestRow[r] # None /\ InSession(requestRow[r], s)
                   => attempts'[r] = attempts[r]
  <2>1. CASE UNCHANGED <<requestRow, attempts>>
    BY <1>3, <2>1
  <2>2. ASSUME NEW o \in OperationId, NEW q \in RequestId,
               NEW terminal \in BOOLEAN, RecordAttempt(o, q, terminal)
        PROVE  /\ (requestRow'[r] # None /\ InSession(requestRow[r], s)')
                     <=> (requestRow[r] # None /\ InSession(requestRow[r], s))
               /\ requestRow[r] # None /\ InSession(requestRow[r], s)
                     => attempts'[r] = attempts[r]
    <3>1. ~InSession(o, s)
      BY <2>2 DEF RecordAttempt, InSession
    <3>2. ~InSession(o, s)'
      BY <1>3, <3>1
    <3>3. CASE r = q
      <4>1. requestRow'[r] = o /\ requestRow[r] \in {o, None}
        BY <2>2, <3>3 DEF RecordAttempt
      <4> QED
        BY <3>1, <3>2, <4>1
    <3>4. CASE r # q
      BY <1>3, <2>2, <3>4 DEF RecordAttempt
    <3> QED
      BY <3>3, <3>4
  <2> QED
    BY <2>1, <2>2
       DEF LedgerNext, ledgerVars, OpenSession, RecordEvent, CloseSession,
           StartOperation, BeginSnapshot, AppendBlocks, EndSnapshot, Recover
<1> QED
  BY <1>1, <1>2, <1>3, <1>4, <1>5 DEF Rows

(* No transaction of the ledger, recovery included, writes about a closed      *)
(* session.                                                                    *)
THEOREM ClosedSessionsStayClosedAlways == LedgerSpec => ClosedSessionsStayClosed
<1>1. LedgerTypeOK /\ OpenAnalysesAreActive /\ [LedgerNext]_ledgerVars
         => [\A s \in SessionId : sessionRow[s] = "closed" =>
                sessionRow'[s] = "closed" /\ Rows(s)' = Rows(s)]_ledgerVars
  BY ClosedSessionStep
<1> QED
  BY <1>1, LedgerTypeCorrect, OpenAnalysesAreActiveAlways, PTL
     DEF LedgerSpec, ClosedSessionsStayClosed

=============================================================================
