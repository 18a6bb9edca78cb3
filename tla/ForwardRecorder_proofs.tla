----------------------- MODULE ForwardRecorder_proofs -----------------------
(* The promises of the recorder for any number of forwards and any bounds:    *)
(* one operation per forward, paid losses, honest statuses, and one outcome   *)
(* per analysis.                                                              *)
EXTENDS RecorderProperties, FiniteSetTheorems, SequenceTheorems, WellFoundedInduction, TLAPS

-----------------------------------------------------------------------------
(* The inductive invariant                                                    *)

Operation == [halves : SUBSET Half, status : {"correlated", "degraded", "transport"}]

Recorders ==
    [held : SUBSET Forward, evidence : [Forward -> (SUBSET Evidence) \cup {Settled}],
     orphans : SUBSET Forward, receipts : SUBSET Forward,
     retired : SUBSET Forward, through : SUBSET Forward,
     seen : SUBSET Forward, dropped : SUBSET Forward, ingested : SUBSET Forward,
     jobs : SUBSET Forward, counted : [Forward -> Nat], records : [Forward -> Seq(Operation)],
     declined : SUBSET Forward, leavers : SUBSET Forward, forgotten : SUBSET Forward]

(* The events of the tasks and of the two queues.  A chat forward has no      *)
(* halves but its metadata, and without analysis there are no outcomes.       *)
Terminal == {"response", "failure"}
Owable == {{"request"}, {"request", "shed"}, {"analysis"}, {"shed"}, {"response"}, {"failure"}}
Dispatchable == {{"transport"}, {"response"}}
Storable == (Owable \ {{"response"}}) \cup {{"refused"}, {"response", "refused"}}

Suits(f, e) ==
    /\ f \in Chat => e \in {{"transport"}, {"refused"}}
    /\ e \cap Context # {} => AnalysisEnabled

Dispatched == {x \in [forward : Forward, evidence : Dispatchable] : Suits(x.forward, x.evidence)}
Stored == {x \in [forward : Forward, evidence : Storable] : Suits(x.forward, x.evidence)}

FlowTypes ==
    /\ stage \in [Forward -> {"new", "sent", "done"}]
    /\ owed \in [Forward -> SUBSET Owable]
    /\ \A f \in Forward : \A e \in owed[f] : Suits(f, e)
    /\ dispatch \in Seq(Dispatched) /\ durable \in Seq(Stored)
    /\ tickets \in SUBSET Forward
    /\ phase \in {"running", "draining", "done"}
    /\ accepted \in [Forward -> SUBSET Half]
    /\ recorder \in Recorders

(* Nothing moves in the flow once the run has ended.                          *)
PhaseFits ==
    /\ phase # "running" =>
          /\ \A f \in Forward : stage[f] # "sent" /\ owed[f] = {}
          /\ dispatch = << >> /\ durable = << >>
    /\ phase = "done" => recorder.held = {} /\ recorder.receipts = {}

(* Retirement and correlation exclude each other.                             *)
MemoryFits(r) ==
    /\ r.held \cap (r.through \cup r.retired) = {}
    /\ r.through \cup r.retired \subseteq r.leavers
    /\ \A f \in Forward \ r.held : r.evidence[f] = Blank
    /\ \A f \in Chat : r.evidence[f] \subseteq {"refused"}

(* A forward that has its operation is settled or retired.                    *)
OperationsFit(r) ==
    /\ \A f \in Forward \ r.forgotten : Len(r.records[f]) <= 1
    /\ \A f \in Forward \ (Chat \cup r.forgotten) :
          r.records[f] # << >> => r.evidence[f] = Settled \/ IsRetired(r, f)

(* The elements of a sequence of operations.                                  *)
Elements(q) == {q[i] : i \in DOMAIN q}

(* What is on its way about a forward.                                        *)
Sent(q, f) == {q[i].evidence : i \in {j \in DOMAIN q : q[j].forward = f}}
Once(q, f, h) ==
    \A i, j \in DOMAIN q :
       q[i].forward = f /\ q[j].forward = f /\ h \in q[i].evidence \cap q[j].evidence => i = j

TerminalIsLast(q, f) ==
    \A i, j \in DOMAIN q :
       /\ i < j /\ q[i].forward = f /\ q[j].forward = f
       /\ q[i].evidence \cap Terminal # {}
       => q[j].evidence \cap (Terminal \cup {"refused"}) = {}

(* A chat forward is recorded when its only event is handled.                 *)
ChatFits(f) ==
    f \in Chat =>
       /\ Once(dispatch, f, "transport")
       /\ stage[f] # "done" => Sent(dispatch, f) = {} /\ recorder.records[f] = << >>
       /\ Sent(dispatch, f) # {} => recorder.records[f] = << >>

(* The analyses that nothing in the recorder answers for.                     *)
Loose(r) ==
    (r.seen \ (r.ingested \cup r.dropped))
       \ (r.jobs \cup r.receipts \cup {f \in r.held : r.evidence[f] # Settled})

OutcomesFit(r) ==
    /\ r.ingested \cup r.dropped \cup r.jobs \subseteq r.seen
    /\ \A f \in Forward : r.evidence[f] \cap Context # {} => f \in r.seen
    /\ ~AnalysisEnabled => r.seen = {}

LooseAreQueued == \A f \in Loose(recorder) : (UNION Sent(durable, f)) \cap Context # {}

(* The terminal half of a forward has come.                                   *)
Past(h, orphan) == h \cap Terminal # {} \/ h = Settled \/ orphan

(* The path of the halves of a forward, d and u on the two queues and w owed  *)
(* by its tasks: each comes once, and the degradation of a refused admission  *)
(* before its terminal half.                                                  *)
Path(st, d, u, w, h, orphan, ticket) ==
    /\ st = "new" => d \cup u \cup w \cup h = {}
    /\ st # "done" =>
          /\ (d \cup u \cup w \cup h) \cap (Terminal \cup {"transport", "refused"}) = {}
          /\ ~Past(h, orphan) /\ ~ticket
    /\ "request" \in h \/ h = Settled => "request" \notin d \cup u \cup w
    /\ Past(h, orphan) => (d \cup u \cup w) \cap Terminal = {} /\ "refused" \notin d \cup u
    /\ orphan => h \cap (Terminal \cup {"refused"}) = {} /\ h # Settled
    /\ "transport" \in h => "transport" \notin d \cup u
    /\ "failure" \in d \cup u \cup w \cup h => {"transport", "response"} \cap (d \cup u \cup w) = {}
    /\ ~(Terminal \subseteq h)
    /\ "request" \in w => "request" \notin d \cup u
    /\ w \cap Terminal # {} => (d \cup u) \cap Terminal = {}
    /\ "response" \in d => u \cap (Terminal \cup {"refused"}) = {}
    /\ ticket => "refused" \notin d \cup u

(* And in the order the queues keep: a terminal half is the last of its       *)
(* forward on the durable queue.                                              *)
InOrder(f) ==
    /\ Once(dispatch, f, "transport") /\ Once(dispatch, f, "response")
    /\ Once(durable, f, "request") /\ TerminalIsLast(durable, f)
    /\ \A a \in owed[f], b \in owed[f] : "request" \in a \cap b => a = b

(* The halves that are gone are paid for, and one payment is kept for a half  *)
(* that is still coming and will be lost unseen: a request that a tombstone   *)
(* consumes, or metadata behind a degraded response.                          *)
Refused(q, w, h, ticket) ==
    "refused" \in q \cup h \/ ("response" \in w /\ ~ticket)

Spare(q, w, h, orphan, ticket) ==
    \/ "request" \in q \cup w /\ (orphan \/ Refused(q, w, h, ticket))
    \/ "transport" \in q /\ (h = Settled \/ Refused(q, w, h, ticket))

(* The losses that are counted cover those there are, and the one to come.    *)
Pays(missing, counted, spare) ==
    Cardinality(missing) <= counted /\ (spare => Cardinality(missing) < counted)

Balance(A, q, w, h, orphan, ticket, told, counted) ==
    Pays(A \ (q \cup h \cup told), counted, Spare(q, w, h, orphan, ticket))

Told(r, f) == UNION {op.halves : op \in Elements(r.records[f])}

(* What a recorder knows of a forward agrees with what is on its way.         *)
Tracked(r, st, d, u, w, ticket, A, f) ==
    /\ Path(st, d, u, w, r.evidence[f], f \in r.orphans, ticket)
    /\ f \notin r.declined =>
          Balance(A, d \cup u, w, r.evidence[f], f \in r.orphans, ticket, Told(r, f), r.counted[f])

Tracks(f) ==
    Tracked(recorder, stage[f], UNION Sent(dispatch, f), UNION Sent(durable, f), UNION owed[f],
            f \in tickets, accepted[f], f)

(* The inductive invariants: of every theorem; of the halves that are lost;   *)
(* and of the operations of a forward that is remembered.                     *)
RunInv ==
    /\ FlowTypes /\ PhaseFits /\ MemoryFits(recorder) /\ OutcomesFit(recorder) /\ LooseAreQueued
    /\ \A f \in Forward : ChatFits(f)
PathInv == \A f \in Forward : Tracks(f) /\ InOrder(f)
OneInv == OperationsFit(recorder)

-----------------------------------------------------------------------------
(* The operators of the recorder                                              *)

(* The parts of a recorder: what it knows of forwards, what it has recorded,  *)
(* and where their analyses are.                                              *)
Memory(r) == <<r.held, r.evidence, r.orphans, r.retired, r.through, r.leavers, r.forgotten>>
Account(r) == <<r.counted, r.records, r.declined>>

(* A nonempty set of forwards has an oldest one.                              *)
LEMMA OldestIsIn ==
  ASSUME NEW S \in SUBSET Forward, S # {}
  PROVE  Oldest(S) \in S
PROOF
  <1>1. S \in SUBSET Nat
        BY RecorderAssumption DEF Forward
  <1>2. PICK x \in S : \A y \in S : <<y, x>> \notin OpToRel(<, Nat)
        BY <1>1, WFMin, NatLessThanWellFounded
  <1>3. \A y \in S : x \in Nat /\ y \in Nat /\ ~(y < x)
        BY <1>1, <1>2 DEF OpToRel
  <1>4. \E f \in S : \A g \in S : f <= g
        BY <1>3
  <1> QED
        BY <1>4 DEF Oldest

(* Forwards are finitely many.                                                *)
LEMMA ForwardsAreFinite == \A S \in SUBSET Forward : IsFiniteSet(S) /\ Cardinality(S) \in Nat
PROOF
  <1>1. IsFiniteSet(Forward)
        BY RecorderAssumption, FS_Interval DEF Forward
  <1> QED
        BY <1>1, FS_Subset, FS_CardinalityType

(* See: only the analyses that are seen change.                               *)
LEMMA SeeChanges ==
  ASSUME NEW r \in Recorders, NEW f \in Forward
  PROVE  LET s == See(r, f)
         IN  /\ s \in Recorders /\ Memory(s) = Memory(r) /\ Account(s) = Account(r)
             /\ s.seen = IF AnalysisEnabled THEN r.seen \cup {f} ELSE r.seen
             /\ s.dropped = r.dropped /\ s.ingested = r.ingested /\ s.jobs = r.jobs
             /\ s.receipts = r.receipts
  BY DEF See, Recorders, Memory, Account

(* Drop: what is pending is accounted.                                        *)
LEMMA DropChanges ==
  ASSUME NEW r \in Recorders, NEW S \in SUBSET Forward
  PROVE  LET s == Drop(r, S)
         IN  /\ s \in Recorders /\ Memory(s) = Memory(r) /\ Account(s) = Account(r)
             /\ s.dropped = r.dropped \cup ((S \cap r.seen) \ r.ingested)
             /\ s.seen = r.seen /\ s.ingested = r.ingested /\ s.jobs = r.jobs
             /\ s.receipts = r.receipts
  BY DEF Drop, Recorders, Memory, Account

(* Count: one degradation more.                                               *)
LEMMA CountChanges ==
  ASSUME NEW r \in Recorders, NEW f \in Forward
  PROVE  LET s == Count(r, f)
         IN  /\ s \in Recorders /\ Memory(s) = Memory(r)
             /\ s.counted = [r.counted EXCEPT ![f] = @ + 1]
             /\ s.records = r.records /\ s.declined = r.declined
             /\ s.seen = r.seen /\ s.dropped = r.dropped /\ s.ingested = r.ingested
             /\ s.jobs = r.jobs /\ s.receipts = r.receipts
PROOF
  <1> DEFINE c == [r.counted EXCEPT ![f] = @ + 1]
  <1>1. Count(r, f) = [r EXCEPT !.counted = c]
        BY DEF Count
  <1>2. c \in [Forward -> Nat]
        BY DEF Recorders
  <1> HIDE DEF c
  <1>3. LET s == [r EXCEPT !.counted = c]
        IN  /\ s \in Recorders /\ Memory(s) = Memory(r) /\ s.counted = c
            /\ s.records = r.records /\ s.declined = r.declined
            /\ s.seen = r.seen /\ s.dropped = r.dropped /\ s.ingested = r.ingested
            /\ s.jobs = r.jobs /\ s.receipts = r.receipts
        BY <1>2 DEF Recorders, Memory
  <1> QED
        BY <1>1, <1>3 DEF c

(* An analysis that is handed on is a job or dropped.                         *)
LEMMA EnqueueChanges ==
  ASSUME NEW r \in Recorders, NEW f \in Forward, NEW e
  PROVE  LET s == EnqueueContext(r, f, e)
         IN  /\ s \in Recorders /\ Memory(s) = Memory(r) /\ Account(s) = Account(r)
             /\ s.seen = r.seen /\ s.ingested = r.ingested /\ s.receipts = r.receipts
             /\ \/ "analysis" \in e /\ s.jobs = r.jobs \cup {f} /\ s.dropped = r.dropped
                \/ s.jobs = r.jobs /\ s.dropped = r.dropped \cup (({f} \cap r.seen) \ r.ingested)
PROOF
  <1>1. CASE "analysis" \in e /\ Cardinality(r.jobs) < Slots
        BY <1>1 DEF EnqueueContext, Recorders, Memory, Account
  <1>2. CASE ~("analysis" \in e /\ Cardinality(r.jobs) < Slots)
    <2>1. EnqueueContext(r, f, e) = Drop(r, {f})
          BY <1>2 DEF EnqueueContext
    <2> QED
          BY <2>1, DropChanges
  <1> QED
        BY <1>1, <1>2

(* A receipt takes the place of the oldest one, which is accounted.           *)
LEMMA KeepReceiptChanges ==
  ASSUME NEW r \in Recorders, NEW f \in Forward
  PROVE  LET s == KeepReceipt(r, f)
         IN  /\ s \in Recorders /\ Memory(s) = Memory(r) /\ Account(s) = Account(r)
             /\ s.seen = r.seen /\ s.ingested = r.ingested /\ s.jobs = r.jobs
             /\ \E out \in SUBSET Forward :
                   /\ s.receipts = (r.receipts \ out) \cup {f}
                   /\ IF Cardinality(r.receipts) >= InFlight
                      THEN out = {Oldest(r.receipts)} ELSE out = {}
                   /\ r.dropped \cup ((out \cap r.seen) \ r.ingested) \subseteq s.dropped
                   /\ s.dropped \subseteq r.dropped \cup r.seen
PROOF
  <1> DEFINE out == IF Cardinality(r.receipts) >= InFlight THEN {Oldest(r.receipts)} ELSE {}
             again == {f} \cap (r.receipts \ out)
             d == Drop(r, out \cup again)
  <1>1. out \in SUBSET Forward
    <2>1. CASE Cardinality(r.receipts) >= InFlight
      <3>1. r.receipts # {}
            BY <2>1, FS_EmptySet, RecorderAssumption
      <3>2. r.receipts \in SUBSET Forward
            BY DEF Recorders
      <3>3. Oldest(r.receipts) \in r.receipts
            BY <3>1, <3>2, OldestIsIn
      <3> QED
            BY <2>1, <3>2, <3>3
    <2> QED
          BY <2>1
  <1>2. KeepReceipt(r, f) = [d EXCEPT !.receipts = (@ \ out) \cup {f}]
        BY DEF KeepReceipt
  <1> HIDE DEF out
  <1>3. again \in SUBSET Forward
        BY DEF Recorders
  <1> HIDE DEF again
  <1>4. /\ d \in Recorders /\ Memory(d) = Memory(r) /\ Account(d) = Account(r)
        /\ d.dropped = r.dropped \cup (((out \cup again) \cap r.seen) \ r.ingested)
        /\ d.seen = r.seen /\ d.ingested = r.ingested /\ d.jobs = r.jobs /\ d.receipts = r.receipts
        BY <1>1, <1>3, DropChanges
  <1> HIDE DEF d
  <1>5. LET s == [d EXCEPT !.receipts = (@ \ out) \cup {f}]
        IN  /\ s \in Recorders /\ Memory(s) = Memory(d) /\ Account(s) = Account(d)
            /\ s.seen = d.seen /\ s.ingested = d.ingested /\ s.jobs = d.jobs
            /\ s.dropped = d.dropped /\ s.receipts = (d.receipts \ out) \cup {f}
        BY <1>1, <1>4 DEF Recorders, Memory, Account
  <1> QED
        BY <1>1, <1>2, <1>4, <1>5 DEF out

(* A retirement keeps what it knew and the new one, but for those it forgets. *)
LEMMA RetireChanges ==
  ASSUME NEW r \in Recorders, NEW f \in Forward
  PROVE  LET s == Retire(r, f)
             known == r.through \cup r.retired \cup {f}
         IN  /\ s \in Recorders /\ Account(s) = Account(r)
             /\ s.held = r.held /\ s.evidence = r.evidence /\ s.orphans = r.orphans
             /\ s.receipts = r.receipts /\ s.seen = r.seen /\ s.dropped = r.dropped
             /\ s.ingested = r.ingested /\ s.jobs = r.jobs
             /\ s.through \cup s.retired \subseteq known
             /\ known \ (s.through \cup s.retired) \subseteq s.forgotten
             /\ r.forgotten \subseteq s.forgotten
             /\ r.leavers \subseteq s.leavers /\ (f \in s.leavers \/ IsRetired(r, f))
PROOF
  <1>1. CASE IsRetired(r, f)
        BY <1>1 DEF Retire, IsRetired
  <1>2. CASE ~IsRetired(r, f)
    <2> DEFINE known == r.through \cup r.retired \cup {f}
               folded == {g \in known : 0 .. g \subseteq known}
               above == known \ folded
               excess == IF Cardinality(above) > RetiredIdentities THEN {Oldest(above)} ELSE {}
    <2>1. known \in SUBSET Forward /\ folded \in SUBSET known /\ above \in SUBSET Forward
          BY DEF Recorders
    <2>2. excess \in SUBSET above
      <3>1. CASE Cardinality(above) > RetiredIdentities
        <4>1. above # {}
              BY <3>1, FS_EmptySet, RecorderAssumption
        <4> QED
              BY <2>1, <3>1, <4>1, OldestIsIn
      <3> QED
            BY <3>1
    <2>3. Retire(r, f) = [r EXCEPT !.leavers = @ \cup {f}, !.forgotten = @ \cup excess,
                                   !.through = folded, !.retired = above \ excess]
          BY <1>2 DEF Retire
    <2>4. known \ (folded \cup (above \ excess)) \subseteq excess
          OBVIOUS
    <2>5. folded \cup (above \ excess) \subseteq known
          BY <2>1
    <2> HIDE DEF folded, above, excess
    <2>6. LET s == [r EXCEPT !.leavers = @ \cup {f}, !.forgotten = @ \cup excess,
                             !.through = folded, !.retired = above \ excess]
          IN  /\ s \in Recorders /\ Account(s) = Account(r)
              /\ s.held = r.held /\ s.evidence = r.evidence /\ s.orphans = r.orphans
              /\ s.receipts = r.receipts /\ s.seen = r.seen /\ s.dropped = r.dropped
              /\ s.ingested = r.ingested /\ s.jobs = r.jobs
              /\ s.through = folded /\ s.retired = above \ excess
              /\ s.forgotten = r.forgotten \cup excess /\ s.leavers = r.leavers \cup {f}
          BY <2>1, <2>2 DEF Recorders, Account
    <2> QED
          BY <2>3, <2>4, <2>5, <2>6
  <1> QED
        BY <1>1, <1>2

(* A receipt waits or its analysis is handed on: nothing of f stays loose.    *)
LEMMA SettleAccounts ==
  ASSUME NEW r \in Recorders, OutcomesFit(r), NEW f \in Forward, NEW e,
         "analysis" \in e => f \in r.seen
  PROVE  LET s == SettleContext(r, f, e)
         IN  /\ s \in Recorders /\ Memory(s) = Memory(r) /\ Account(s) = Account(r)
             /\ s.seen = r.seen /\ s.ingested = r.ingested
             /\ OutcomesFit(s) /\ Loose(s) \subseteq Loose(r) \ {f}
PROOF
  <1>1. CASE e \cap Context # {}
    <2> DEFINE s == EnqueueContext(r, f, e)
    <2>1. SettleContext(r, f, e) = s
          BY <1>1 DEF SettleContext
    <2>2. /\ s \in Recorders /\ Memory(s) = Memory(r) /\ Account(s) = Account(r)
          /\ s.seen = r.seen /\ s.ingested = r.ingested /\ s.receipts = r.receipts
          /\ \/ "analysis" \in e /\ s.jobs = r.jobs \cup {f} /\ s.dropped = r.dropped
             \/ s.jobs = r.jobs /\ s.dropped = r.dropped \cup (({f} \cap r.seen) \ r.ingested)
          BY EnqueueChanges
    <2> HIDE DEF s
    <2>3. OutcomesFit(s) /\ Loose(s) \subseteq Loose(r) \ {f}
          BY <2>2 DEF OutcomesFit, Loose, Memory
    <2> QED
          BY <2>1, <2>2, <2>3
  <1>2. CASE e \cap Context = {} /\ AnalysisEnabled
    <2> DEFINE s == KeepReceipt(r, f)
    <2>1. SettleContext(r, f, e) = s
          BY <1>2 DEF SettleContext
    <2>2. /\ s \in Recorders /\ Memory(s) = Memory(r) /\ Account(s) = Account(r)
          /\ s.seen = r.seen /\ s.ingested = r.ingested /\ s.jobs = r.jobs
          /\ \E out \in SUBSET Forward :
                /\ s.receipts = (r.receipts \ out) \cup {f}
                /\ r.dropped \cup ((out \cap r.seen) \ r.ingested) \subseteq s.dropped
                /\ s.dropped \subseteq r.dropped \cup r.seen
          BY KeepReceiptChanges
    <2> HIDE DEF s
    <2>3. OutcomesFit(s) /\ Loose(s) \subseteq Loose(r) \ {f}
          BY <2>2 DEF OutcomesFit, Loose, Memory
    <2> QED
          BY <2>1, <2>2, <2>3
  <1>3. CASE e \cap Context = {} /\ ~AnalysisEnabled
        BY <1>3 DEF SettleContext, OutcomesFit, Loose
  <1> QED
        BY <1>1, <1>2, <1>3

(* A drop leaves nothing of S loose.                                          *)
LEMMA DropAccounts ==
  ASSUME NEW r \in Recorders, OutcomesFit(r), NEW S \in SUBSET Forward
  PROVE  OutcomesFit(Drop(r, S)) /\ Loose(Drop(r, S)) \subseteq Loose(r) \ S
PROOF
  <1> DEFINE s == Drop(r, S)
  <1>1. /\ Memory(s) = Memory(r)
        /\ s.dropped = r.dropped \cup ((S \cap r.seen) \ r.ingested)
        /\ s.seen = r.seen /\ s.ingested = r.ingested /\ s.jobs = r.jobs
        /\ s.receipts = r.receipts
        BY DropChanges
  <1> HIDE DEF s
  <1>2. OutcomesFit(s) /\ Loose(s) \subseteq Loose(r) \ S
        BY <1>1 DEF OutcomesFit, Loose, Memory
  <1> QED
        BY <1>2 DEF s

(* The shortest of them.                                                      *)
LEMMA FewElements ==
  ASSUME NEW S, NEW x \in S
  PROVE  /\ <<x>> \in Seq(S) /\ Elements(<<x>>) = {x} /\ Len(<<x>>) = 1
         /\ << >> \in Seq(S) /\ Elements(<< >>) = {} /\ Len(<< >>) = 0
  BY DEF Elements

(* Those of two after each other are those of both.                           *)
LEMMA ElementsOfBoth ==
  ASSUME NEW S, NEW p \in Seq(S), NEW q \in Seq(S)
  PROVE  /\ p \o q \in Seq(S) /\ Elements(p \o q) = Elements(p) \cup Elements(q)
         /\ Len(p \o q) = Len(p) + Len(q) /\ Len(p) \in Nat /\ Len(q) \in Nat
PROOF
  <1>1. /\ p \o q \in Seq(S) /\ Len(p \o q) = Len(p) + Len(q)
        /\ \A i \in 1 .. Len(p) : (p \o q)[i] = p[i]
        /\ \A i \in 1 .. Len(q) : (p \o q)[Len(p) + i] = q[i]
        OBVIOUS
  <1>2. /\ DOMAIN (p \o q) = 1 .. Len(p) + Len(q)
        /\ DOMAIN p = 1 .. Len(p) /\ DOMAIN q = 1 .. Len(q) /\ Len(p) \in Nat /\ Len(q) \in Nat
        BY <1>1
  <1>3. Elements(p) \cup Elements(q) \subseteq Elements(p \o q)
    <2>1. \A i \in 1 .. Len(q) : Len(p) + i \in 1 .. Len(p) + Len(q)
          BY <1>2
    <2>2. \A i \in 1 .. Len(p) : i \in 1 .. Len(p) + Len(q)
          BY <1>2
    <2> QED
          BY <1>1, <1>2, <2>1, <2>2 DEF Elements
  <1>4. ASSUME NEW i \in 1 .. Len(p) + Len(q)
        PROVE  (p \o q)[i] \in Elements(p) \cup Elements(q)
    <2>1. CASE i <= Len(p)
      <3>1. i \in 1 .. Len(p)
            BY <1>2, <2>1
      <3> QED
            BY <1>1, <1>2, <3>1 DEF Elements
    <2>2. CASE i > Len(p)
      <3>1. i - Len(p) \in 1 .. Len(q) /\ i = Len(p) + (i - Len(p))
            BY <1>2, <2>2
      <3> QED
            BY <1>1, <1>2, <3>1 DEF Elements
    <2> QED
          BY <1>2, <2>1, <2>2
  <1> QED
        BY <1>1, <1>2, <1>3, <1>4 DEF Elements

(* What is said of a forward: at most one operation, unless a committed       *)
(* observation is not acknowledged.                                           *)
Reply == {"ok", "fallback", "refused", "lost"}
Acknowledged(e, reply) == "request" \in e /\ reply \in {"ok", "lost"}
FallsBack(e, reply) == ~("request" \in e /\ reply = "ok") /\ "transport" \in e /\ reply # "refused"
Whole(e, limit) == [halves |-> e \cap Half,
                    status |-> IF limit \/ "refused" \in e THEN "degraded" ELSE "correlated"]
Bare == [halves |-> {"transport"}, status |-> "transport"]

(* The operations of one record, as a set; only an unacknowledged commit can *)
(* leave more than one.                                                     *)
LEMMA OperationsTell ==
  ASSUME NEW e \in SUBSET Evidence, NEW limit \in BOOLEAN, NEW reply \in Reply
  PROVE  LET ops == Operations(e, limit, reply)
         IN  /\ ops \in Seq(Operation)
             /\ reply # "lost" => Len(ops) <= 1
             /\ Elements(ops) = (IF Acknowledged(e, reply) THEN {Whole(e, limit)} ELSE {})
                                   \cup (IF FallsBack(e, reply) THEN {Bare} ELSE {})
             /\ ops = << >> <=> ~Acknowledged(e, reply) /\ ~FallsBack(e, reply)
PROOF
  <1> DEFINE p == IF Acknowledged(e, reply) THEN <<Whole(e, limit)>> ELSE << >>
             q == IF FallsBack(e, reply) THEN <<Bare>> ELSE << >>
  <1>1. Operations(e, limit, reply) = p \o q
        BY DEF Operations, Acknowledged, FallsBack, Whole, Bare
  <1>2. Whole(e, limit) \in Operation /\ Bare \in Operation
        BY DEF Whole, Bare, Operation, Half
  <1>3. /\ p \in Seq(Operation) /\ q \in Seq(Operation)
        /\ Elements(p) = IF Acknowledged(e, reply) THEN {Whole(e, limit)} ELSE {}
        /\ Elements(q) = IF FallsBack(e, reply) THEN {Bare} ELSE {}
        /\ Len(p) = IF Acknowledged(e, reply) THEN 1 ELSE 0
        /\ Len(q) = IF FallsBack(e, reply) THEN 1 ELSE 0
        BY <1>2, FewElements
  <1> HIDE DEF p, q
  <1>4. /\ p \o q \in Seq(Operation) /\ Elements(p \o q) = Elements(p) \cup Elements(q)
        /\ Len(p \o q) = Len(p) + Len(q)
    <2>1. p \in Seq(Operation) /\ q \in Seq(Operation)
          BY <1>3
    <2> QED
          BY <2>1, ElementsOfBoth
  <1>5. reply # "lost" => ~(Acknowledged(e, reply) /\ FallsBack(e, reply))
        BY DEF Acknowledged, FallsBack
  <1>6. p \o q = << >> <=> Len(p \o q) = 0
        BY <1>4
  <1> QED
        BY <1>1, <1>3, <1>4, <1>5, <1>6

(* What a record changes of the account of f, and of its analysis.            *)
Unsaid(e, limit) ==
    (IF limit /\ "refused" \notin e THEN 1 ELSE 0)
  + (IF "request" \notin e /\ e \cap {"response", "failure"} # {} THEN 1 ELSE 0)

Declines(e, reply) == reply = "refused" \/ ("request" \in e /\ reply # "ok")

Writes(r, s, f, e, limit, reply) ==
    /\ s \in Recorders /\ Memory(s) = Memory(r)
    /\ s.counted = [r.counted EXCEPT ![f] = @ + Unsaid(e, limit)]
    /\ s.records = [r.records EXCEPT ![f] = @ \o Operations(e, limit, reply)]
    /\ s.declined = IF Declines(e, reply) THEN r.declined \cup {f} ELSE r.declined
    /\ s.seen = r.seen
    /\ OutcomesFit(s) /\ Loose(s) \subseteq Loose(r)
    /\ "request" \in e => f \notin Loose(s)

(* Recording a forward only writes down that forward.                         *)
LEMMA RecordChanges ==
  ASSUME NEW r \in Recorders, OutcomesFit(r), NEW f \in Forward, NEW e \in SUBSET Evidence,
         NEW limit \in BOOLEAN, NEW reply \in Reply, "analysis" \in e => f \in r.seen
  PROVE  Writes(r, Record(r, f, e, limit, reply), f, e, limit, reply)
PROOF
  <1> DEFINE c == [r.counted EXCEPT ![f] = @ + Unsaid(e, limit)]
             o == [r.records EXCEPT ![f] = @ \o Operations(e, limit, reply)]
             d == IF Declines(e, reply) THEN r.declined \cup {f} ELSE r.declined
             w == [r EXCEPT !.counted = c, !.records = o, !.declined = d]
  <1>1. c \in [Forward -> Nat]
    <2>1. Unsaid(e, limit) \in Nat
          BY DEF Unsaid
    <2> QED
          BY <2>1 DEF Recorders
  <1>2. o \in [Forward -> Seq(Operation)]
    <2>1. Operations(e, limit, reply) \in Seq(Operation) /\ r.records[f] \in Seq(Operation)
          BY OperationsTell DEF Recorders
    <2>2. r.records[f] \o Operations(e, limit, reply) \in Seq(Operation)
          BY <2>1
    <2> QED
          BY <2>2 DEF Recorders
  <1>3. d \in SUBSET Forward
        BY DEF Recorders
  <1>4. Record(r, f, e, limit, reply) = IF "request" \notin e THEN w
                                        ELSE IF reply = "ok" THEN SettleContext(w, f, e)
                                        ELSE Drop(w, {f})
        BY DEF Record, Unsaid, Declines, Recorders
  <1> HIDE DEF c, o, d
  <1>5. /\ w \in Recorders /\ Memory(w) = Memory(r) /\ w.counted = c /\ w.records = o
        /\ w.declined = d /\ w.seen = r.seen /\ w.dropped = r.dropped /\ w.ingested = r.ingested
        /\ w.jobs = r.jobs /\ w.receipts = r.receipts
        BY <1>1, <1>2, <1>3 DEF Recorders, Memory
  <1> HIDE DEF w
  <1>6. OutcomesFit(w) /\ Loose(w) = Loose(r)
        BY <1>5 DEF OutcomesFit, Loose, Memory
  <1>7. CASE "request" \notin e
        BY <1>4, <1>5, <1>6, <1>7 DEF Writes, c, o, d
  <1>8. CASE "request" \in e /\ reply = "ok"
    <2> DEFINE s == SettleContext(w, f, e)
    <2>1. /\ s \in Recorders /\ Memory(s) = Memory(w) /\ Account(s) = Account(w)
          /\ s.seen = w.seen /\ OutcomesFit(s) /\ Loose(s) \subseteq Loose(w) \ {f}
          BY <1>5, <1>6, SettleAccounts
    <2> HIDE DEF s
    <2>2. s = Record(r, f, e, limit, reply)
          BY <1>4, <1>8 DEF s
    <2> QED
          BY <1>5, <1>6, <2>1, <2>2 DEF Account, Writes, c, o, d
  <1>9. CASE "request" \in e /\ reply # "ok"
    <2> DEFINE s == Drop(w, {f})
    <2>1. /\ s \in Recorders /\ Memory(s) = Memory(w) /\ Account(s) = Account(w)
          /\ s.seen = w.seen /\ OutcomesFit(s) /\ Loose(s) \subseteq Loose(w) \ {f}
          BY <1>5, <1>6, DropChanges, DropAccounts
    <2> HIDE DEF s
    <2>2. s = Record(r, f, e, limit, reply)
          BY <1>4, <1>9 DEF s
    <2> QED
          BY <1>5, <1>6, <2>1, <2>2 DEF Account, Writes, c, o, d
  <1> QED
        BY <1>7, <1>8, <1>9

-----------------------------------------------------------------------------
(* A forward that leaves the correlation state                                *)

(* What a step leaves alone of g, what it records of g, and how g leaves.     *)
Kept(r, s, g) ==
    /\ s.evidence[g] = r.evidence[g] /\ s.counted[g] = r.counted[g]
    /\ s.records[g] = r.records[g] /\ (g \in s.declined <=> g \in r.declined)
    /\ g \in s.orphans => g \in r.orphans

Tells(r, s, g, e, limit, reply) ==
    /\ s.counted[g] = r.counted[g] + Unsaid(e, limit)
    /\ s.records[g] = r.records[g] \o Operations(e, limit, reply)
    /\ g \in s.declined <=> g \in r.declined \/ Declines(e, reply)

Left(r, s, g, limit, reply) ==
    LET e == r.evidence[g]
    IN  /\ s.evidence[g] = Blank
        /\ g \in s.orphans =>
              g \in r.orphans \/ (e # Settled /\ "request" \notin e /\ e \cap Terminal # {} /\ limit)
        /\ IF e = Settled
           THEN /\ s.counted[g] = r.counted[g] /\ s.records[g] = r.records[g]
                /\ g \in s.declined <=> g \in r.declined
           ELSE Tells(r, s, g, e, limit, reply)

(* Only the forwards of S are retired, and only forgotten ones are readmitted. *)
Retains(r, s, S) ==
    /\ s.through \cup s.retired \subseteq r.through \cup r.retired \cup S
    /\ (r.through \cup r.retired \cup S) \ (s.through \cup s.retired) \subseteq s.forgotten
    /\ r.forgotten \subseteq s.forgotten

Fits(r) == r \in Recorders /\ MemoryFits(r) /\ OutcomesFit(r)

LeavesBehind(r, s, o, limit, reply) ==
    /\ Fits(s) /\ s.held = r.held \ {o} /\ Retains(r, s, {o})
    /\ Left(r, s, o, limit, reply) /\ \A g \in Forward \ {o} : Kept(r, s, g)
    /\ s.seen = r.seen /\ Loose(s) \subseteq Loose(r)

(* The recorder without o.                                                    *)
Without(r, o) == [Retire(r, o) EXCEPT !.held = @ \ {o}, !.evidence[o] = Blank]

(* Retiring a forward and forgetting its state changes no other forward.      *)
LEMMA WithoutChanges ==
  ASSUME NEW r, Fits(r), NEW o \in r.held
  PROVE  LET s == Without(r, o)
         IN  /\ Fits(s) /\ Account(s) = Account(r) /\ s.seen = r.seen /\ s.orphans = r.orphans
             /\ s.held = r.held \ {o} /\ s.evidence = [r.evidence EXCEPT ![o] = Blank]
             /\ Retains(r, s, {o})
             /\ Loose(s) \subseteq Loose(r) \cup {o}
             /\ r.evidence[o] = Settled => Loose(s) \subseteq Loose(r)
PROOF
  <1> DEFINE t == Retire(r, o)
             v == [r.evidence EXCEPT ![o] = Blank]
             s == [t EXCEPT !.held = r.held \ {o}, !.evidence = v]
  <1>0. r \in Recorders /\ o \in Forward /\ MemoryFits(r) /\ OutcomesFit(r)
        BY DEF Fits, Recorders
  <1>1. /\ t \in Recorders /\ Account(t) = Account(r)
        /\ t.held = r.held /\ t.evidence = r.evidence /\ t.orphans = r.orphans
        /\ t.receipts = r.receipts /\ t.seen = r.seen /\ t.dropped = r.dropped
        /\ t.ingested = r.ingested /\ t.jobs = r.jobs
        /\ t.through \cup t.retired \subseteq r.through \cup r.retired \cup {o}
        /\ (r.through \cup r.retired \cup {o}) \ (t.through \cup t.retired) \subseteq t.forgotten
        /\ r.forgotten \subseteq t.forgotten
        /\ r.leavers \subseteq t.leavers /\ (o \in t.leavers \/ IsRetired(r, o))
        BY <1>0, RetireChanges
  <1> HIDE DEF t
  <1>2. v \in [Forward -> (SUBSET Evidence) \cup {Settled}]
        BY <1>0 DEF Recorders, Blank
  <1>3. Without(r, o) = s
        BY <1>1 DEF Without, Recorders, t
  <1>4. v[o] = Blank /\ \A g \in Forward \ {o} : v[g] = r.evidence[g]
        BY <1>0 DEF Recorders
  <1> HIDE DEF v
  <1>5. /\ s \in Recorders /\ Account(s) = Account(r) /\ s.orphans = r.orphans
        /\ s.held = r.held \ {o} /\ s.evidence = v
        /\ s.receipts = r.receipts /\ s.seen = r.seen /\ s.dropped = r.dropped
        /\ s.ingested = r.ingested /\ s.jobs = r.jobs
        /\ s.through = t.through /\ s.retired = t.retired /\ s.forgotten = t.forgotten
        /\ s.leavers = t.leavers
        BY <1>0, <1>1, <1>2 DEF Recorders, Account
  <1> HIDE DEF s
  <1>6. Retains(r, s, {o})
        BY <1>1, <1>5 DEF Retains
  <1>7. MemoryFits(s)
    <2>1. s.held \cap (s.through \cup s.retired) = {}
          BY <1>0, <1>1, <1>5 DEF MemoryFits
    <2>2. s.through \cup s.retired \subseteq s.leavers
          BY <1>0, <1>1, <1>5 DEF MemoryFits, IsRetired
    <2>3. \A f \in Forward \ s.held : s.evidence[f] = Blank
          BY <1>0, <1>4, <1>5 DEF MemoryFits
    <2>4. \A f \in Chat : s.evidence[f] \subseteq {"refused"}
          BY <1>0, <1>4, <1>5, RecorderAssumption DEF MemoryFits, Blank
    <2> QED
          BY <2>1, <2>2, <2>3, <2>4 DEF MemoryFits
  <1>8. OutcomesFit(s)
        BY <1>0, <1>4, <1>5 DEF OutcomesFit, Blank
  <1>9. /\ Loose(s) \subseteq Loose(r) \cup {o}
        /\ r.evidence[o] = Settled => Loose(s) \subseteq Loose(r)
        BY <1>0, <1>4, <1>5 DEF Loose, Recorders
  <1> QED
        BY <1>3, <1>5, <1>6, <1>7, <1>8, <1>9 DEF Fits, v

(* What is recorded of it then.                                               *)
LEMMA RecordedLeaves ==
  ASSUME NEW r, Fits(r), NEW o \in r.held, r.evidence[o] # Settled,
         NEW limit \in BOOLEAN, NEW reply \in Reply,
         NEW w, Fits(w), Account(w) = Account(r), w.seen = r.seen,
         w.held = r.held \ {o}, w.evidence = [r.evidence EXCEPT ![o] = Blank],
         Retains(r, w, {o}), Loose(w) \subseteq Loose(r) \cup {o},
         "request" \notin r.evidence[o] => o \notin Loose(w),
         \A g \in Forward : g \in w.orphans =>
            \/ g \in r.orphans
            \/ /\ g = o /\ "request" \notin r.evidence[o] /\ limit
               /\ r.evidence[o] \cap Terminal # {}
  PROVE  LeavesBehind(r, Record(w, o, r.evidence[o], limit, reply), o, limit, reply)
PROOF
  <1> DEFINE e == r.evidence[o]
             s == Record(w, o, e, limit, reply)
  <1>0. /\ r \in Recorders /\ o \in Forward /\ MemoryFits(r) /\ OutcomesFit(r)
        /\ w \in Recorders /\ MemoryFits(w) /\ OutcomesFit(w)
        BY DEF Fits, Recorders
  <1>1. e \in SUBSET Evidence /\ e # Settled
        BY <1>0 DEF Recorders
  <1>2. "analysis" \in e => o \in w.seen
        BY <1>0 DEF OutcomesFit, Context
  <1> HIDE DEF e
  <1>3. Writes(w, s, o, e, limit, reply)
        BY <1>0, <1>1, <1>2, RecordChanges
  <1> HIDE DEF s
  <1>4. /\ s.held = r.held \ {o} /\ s.evidence = [r.evidence EXCEPT ![o] = Blank]
        /\ s.orphans = w.orphans /\ s.through = w.through /\ s.retired = w.retired
        /\ s.forgotten = w.forgotten /\ s.leavers = w.leavers
        BY <1>3 DEF Memory, Writes
  <1>5. MemoryFits(s) /\ Retains(r, s, {o})
        BY <1>0, <1>3, <1>4 DEF MemoryFits, Retains, IsRetired, Memory, Writes
  <1>6. s.evidence[o] = Blank /\ \A g \in Forward \ {o} : s.evidence[g] = r.evidence[g]
        BY <1>0, <1>4 DEF Recorders
  <1>7. w.counted = r.counted /\ w.records = r.records /\ w.declined = r.declined
        BY DEF Account
  <1>8. /\ s.counted[o] = r.counted[o] + Unsaid(e, limit)
        /\ s.records[o] = r.records[o] \o Operations(e, limit, reply)
        /\ \A g \in Forward \ {o} : s.counted[g] = r.counted[g] /\ s.records[g] = r.records[g]
        BY <1>0, <1>3, <1>7 DEF Recorders, Writes
  <1>9. \A g \in Forward \ {o} : Kept(r, s, g)
        BY <1>3, <1>4, <1>6, <1>7, <1>8 DEF Kept, Writes
  <1>10. Left(r, s, o, limit, reply)
        BY <1>0, <1>1, <1>3, <1>4, <1>6, <1>7, <1>8 DEF Left, Tells, e, Writes
  <1>11. Loose(s) \subseteq Loose(r)
        BY <1>3 DEF e, Writes
  <1> QED
        BY <1>3, <1>4, <1>5, <1>9, <1>10, <1>11 DEF LeavesBehind, Fits, e, s, Writes


(* What a drop leaves alone.                                                  *)
Drops(r, s, S) ==
    /\ Fits(s) /\ Memory(s) = Memory(r) /\ Account(s) = Account(r) /\ s.seen = r.seen
    /\ s.receipts = r.receipts /\ Loose(s) \subseteq Loose(r) \ S

(* A drop only answers for analyses.                                          *)
LEMMA DropFits ==
  ASSUME NEW r, Fits(r), NEW S \in SUBSET Forward
  PROVE  Drops(r, Drop(r, S), S)
PROOF
  <1> DEFINE s == Drop(r, S)
  <1>1. /\ s \in Recorders /\ Memory(s) = Memory(r) /\ Account(s) = Account(r)
        /\ s.seen = r.seen /\ s.receipts = r.receipts
        /\ OutcomesFit(s) /\ Loose(s) \subseteq Loose(r) \ S
        BY DropChanges, DropAccounts DEF Fits
  <1> HIDE DEF s
  <1>2. MemoryFits(s)
        BY <1>1 DEF Fits, MemoryFits, Memory
  <1> QED
        BY <1>1, <1>2 DEF Fits, Drops, s

(* The oldest forward leaves when another one needs its room.                 *)
LEMMA EvictLeaves ==
  ASSUME NEW r, Fits(r), r.held # {}, NEW reply \in Reply
  PROVE  Oldest(r.held) \in r.held /\ LeavesBehind(r, Evict(r, reply), Oldest(r.held), TRUE, reply)
PROOF
  <1> DEFINE o == Oldest(r.held)
             e == r.evidence[o]
             gone == Without(r, o)
             grown == gone.orphans \cup {o}
             kept == IF Cardinality(grown) > RetiredIdentities THEN grown \ {Oldest(grown)} ELSE grown
             unpaired == Drop(gone, {o})
             tombed == [unpaired EXCEPT !.orphans = kept]
  <1>1. o \in r.held /\ r.held \in SUBSET Forward
        BY OldestIsIn DEF Fits, Recorders
  <1>2. Evict(r, reply) = IF e = Settled THEN gone
                          ELSE IF "request" \in e THEN Record(gone, o, e, TRUE, reply)
                          ELSE IF e \cap {"response", "failure"} = {}
                          THEN Record(unpaired, o, e, TRUE, reply)
                          ELSE Record(tombed, o, e, TRUE, reply)
        BY DEF Evict, Without
  <1> HIDE DEF o
  <1>3. /\ Fits(gone) /\ Account(gone) = Account(r) /\ gone.seen = r.seen
        /\ gone.orphans = r.orphans /\ gone.held = r.held \ {o}
        /\ gone.evidence = [r.evidence EXCEPT ![o] = Blank] /\ Retains(r, gone, {o})
        /\ Loose(gone) \subseteq Loose(r) \cup {o}
        /\ r.evidence[o] = Settled => Loose(gone) \subseteq Loose(r)
        BY <1>1, WithoutChanges
  <1> HIDE DEF gone
  <1>4. CASE e = Settled
    <2>1. gone.evidence[o] = Blank /\ \A g \in Forward \ {o} : gone.evidence[g] = r.evidence[g]
          BY <1>1, <1>3 DEF Fits, Recorders
    <2>2. Left(r, gone, o, TRUE, reply) /\ \A g \in Forward \ {o} : Kept(r, gone, g)
          BY <1>1, <1>3, <1>4, <2>1 DEF Left, Kept, Account
    <2> QED
          BY <1>1, <1>2, <1>3, <1>4, <2>2 DEF LeavesBehind, o
  <1>5. CASE e # Settled /\ "request" \in e
    <2>1. LeavesBehind(r, Record(gone, o, e, TRUE, reply), o, TRUE, reply)
          BY <1>1, <1>3, <1>5, RecordedLeaves
    <2> QED
          BY <1>1, <1>2, <1>5, <2>1 DEF o
  <1>6. Drops(gone, unpaired, {o})
        BY <1>1, <1>3, DropFits
  <1> HIDE DEF unpaired
  <1>7. /\ Fits(unpaired) /\ Account(unpaired) = Account(r) /\ unpaired.seen = r.seen
        /\ unpaired.orphans = r.orphans /\ unpaired.held = r.held \ {o}
        /\ unpaired.evidence = [r.evidence EXCEPT ![o] = Blank] /\ Retains(r, unpaired, {o})
        /\ Loose(unpaired) \subseteq Loose(r) \cup {o} /\ o \notin Loose(unpaired)
        BY <1>3, <1>6 DEF Drops, Memory, Retains
  <1>8. CASE e # Settled /\ "request" \notin e /\ e \cap {"response", "failure"} = {}
    <2>1. LeavesBehind(r, Record(unpaired, o, e, TRUE, reply), o, TRUE, reply)
          BY <1>1, <1>7, <1>8, RecordedLeaves
    <2> QED
          BY <1>1, <1>2, <1>8, <2>1 DEF o
  <1>9. CASE e # Settled /\ "request" \notin e /\ e \cap {"response", "failure"} # {}
    <2>1. kept \in SUBSET Forward /\ kept \subseteq r.orphans \cup {o}
          BY <1>1, <1>3 DEF Fits, Recorders
    <2> HIDE DEF kept
    <2>2. /\ tombed \in Recorders /\ Account(tombed) = Account(unpaired)
          /\ tombed.seen = unpaired.seen /\ tombed.held = unpaired.held
          /\ tombed.evidence = unpaired.evidence /\ tombed.orphans = kept
          /\ tombed.through = unpaired.through /\ tombed.retired = unpaired.retired
          /\ tombed.forgotten = unpaired.forgotten /\ tombed.leavers = unpaired.leavers
          /\ tombed.dropped = unpaired.dropped /\ tombed.ingested = unpaired.ingested
          /\ tombed.jobs = unpaired.jobs /\ tombed.receipts = unpaired.receipts
          BY <1>7, <2>1 DEF Fits, Recorders, Account
    <2> HIDE DEF tombed
    <2>3. /\ Fits(tombed) /\ Account(tombed) = Account(r) /\ tombed.seen = r.seen
          /\ tombed.held = r.held \ {o} /\ Retains(r, tombed, {o})
          /\ tombed.evidence = [r.evidence EXCEPT ![o] = Blank]
          /\ Loose(tombed) \subseteq Loose(r) \cup {o} /\ o \notin Loose(tombed)
          BY <1>7, <2>2 DEF Fits, MemoryFits, OutcomesFit, Retains, Loose
    <2>4. \A g \in Forward : g \in tombed.orphans =>
             \/ g \in r.orphans
             \/ g = o /\ "request" \notin r.evidence[o] /\ TRUE /\ r.evidence[o] \cap Terminal # {}
          BY <1>9, <2>1, <2>2 DEF Terminal
    <2>5. LeavesBehind(r, Record(tombed, o, e, TRUE, reply), o, TRUE, reply)
          BY <1>1, <1>9, <2>3, <2>4, RecordedLeaves
    <2> QED
          BY <1>1, <1>2, <1>9, <2>5 DEF o
  <1> QED
        BY <1>4, <1>5, <1>8, <1>9


(* The oldest forward leaves when the run ends.                               *)
LEMMA DrainLeaves ==
  ASSUME NEW r, Fits(r), NEW o \in r.held, NEW reply \in Reply
  PROVE  LET e == r.evidence[o]
             gone == Without(r, o)
             s == IF e = Settled THEN gone
                  ELSE Record(IF "request" \in e THEN gone ELSE Drop(gone, {o}),
                              o, e, FALSE, reply)
         IN  LeavesBehind(r, s, o, FALSE, reply)
PROOF
  <1> DEFINE e == r.evidence[o]
             gone == Without(r, o)
             unpaired == Drop(gone, {o})
  <1>1. o \in Forward
        BY DEF Fits, Recorders
  <1>2. /\ Fits(gone) /\ Account(gone) = Account(r) /\ gone.seen = r.seen
        /\ gone.orphans = r.orphans /\ gone.held = r.held \ {o}
        /\ gone.evidence = [r.evidence EXCEPT ![o] = Blank] /\ Retains(r, gone, {o})
        /\ Loose(gone) \subseteq Loose(r) \cup {o}
        /\ r.evidence[o] = Settled => Loose(gone) \subseteq Loose(r)
        BY WithoutChanges
  <1> HIDE DEF gone
  <1>3. CASE e = Settled
    <2>1. gone.evidence[o] = Blank /\ \A g \in Forward \ {o} : gone.evidence[g] = r.evidence[g]
          BY <1>1, <1>2 DEF Fits, Recorders
    <2>2. Left(r, gone, o, FALSE, reply) /\ \A g \in Forward \ {o} : Kept(r, gone, g)
          BY <1>1, <1>2, <1>3, <2>1 DEF Left, Kept, Account
    <2>3. LeavesBehind(r, gone, o, FALSE, reply)
          BY <1>2, <1>3, <2>2 DEF LeavesBehind
    <2> QED
          BY <1>3, <2>3 DEF gone
  <1>4. CASE e # Settled /\ "request" \in e
    <2>1. LeavesBehind(r, Record(gone, o, e, FALSE, reply), o, FALSE, reply)
          BY <1>2, <1>4, RecordedLeaves
    <2> QED
          BY <1>4, <2>1 DEF gone
  <1>5. CASE e # Settled /\ "request" \notin e
    <2>1. Drops(gone, unpaired, {o})
          BY <1>1, <1>2, DropFits
    <2> HIDE DEF unpaired
    <2>2. /\ Fits(unpaired) /\ Account(unpaired) = Account(r) /\ unpaired.seen = r.seen
          /\ unpaired.orphans = r.orphans /\ unpaired.held = r.held \ {o}
          /\ unpaired.evidence = [r.evidence EXCEPT ![o] = Blank] /\ Retains(r, unpaired, {o})
          /\ Loose(unpaired) \subseteq Loose(r) \cup {o} /\ o \notin Loose(unpaired)
          BY <1>2, <2>1 DEF Drops, Memory, Retains
    <2>3. LeavesBehind(r, Record(unpaired, o, e, FALSE, reply), o, FALSE, reply)
          BY <1>5, <2>2, RecordedLeaves
    <2> QED
          BY <1>5, <2>3 DEF gone, unpaired
  <1> QED
        BY <1>3, <1>4, <1>5

-----------------------------------------------------------------------------
(* One event of the loop                                                      *)

(* What becomes of the forward of the event: its evidence is joined, and      *)
(* recorded once it is ready;                                                 *)
Joins(r, s, f, e, reply) ==
    LET joined == r.evidence[f] \cup e
    IN  /\ r.evidence[f] # Settled /\ f \in s.held
        /\ IF Ready(joined)
           THEN s.evidence[f] = Settled /\ Tells(r, s, f, joined, FALSE, reply)
           ELSE /\ s.evidence[f] = joined /\ s.counted[f] = r.counted[f]
                /\ s.records[f] = r.records[f] /\ (f \in s.declined <=> f \in r.declined)

(* recorded at once, on another route; gone with its tombstone; counted, for  *)
(* a retired forward; or left to its analysis.                                *)
Own(r, s, f, e, reply) ==
    \/ /\ f \in Chat /\ e = {"transport"} /\ s.evidence[f] = r.evidence[f]
       /\ Tells(r, s, f, e, FALSE, reply)
    \/ "request" \in e /\ f \in r.orphans \ s.orphans /\ Kept(r, s, f)
    \/ Kept(r, s, f) /\ (e \subseteq Context \/ r.evidence[f] = Settled)
    \/ /\ f \notin r.held /\ s.evidence[f] = r.evidence[f] /\ s.counted[f] = r.counted[f] + 1
       /\ s.records[f] = r.records[f] /\ (f \in s.declined <=> f \in r.declined)
    \/ /\ ~("request" \in e /\ f \in r.orphans)
       /\ Joins(r, s, f, e, reply)

Answers == Replies \cup {"ok"}

Handled(r, s, f, e) ==
    /\ Fits(s)
    /\ \E S \in SUBSET (r.held \ {f}), own \in Answers, evicted \in Answers :
          /\ Retains(r, s, S) /\ r.held \ S \subseteq s.held
          /\ \A g \in S : Left(r, s, g, TRUE, evicted)
          /\ \A g \in Forward \ (S \cup {f}) : Kept(r, s, g)
          /\ f \in s.orphans => f \in r.orphans
          /\ Own(r, s, f, e, own)
    /\ Loose(s) \subseteq Loose(r)
    /\ "request" \in e \/ e \subseteq Context => f \notin Loose(s)

(* An event is in sight: its forward has an analysis if it needs one.         *)
LEMMA SightFits ==
  ASSUME NEW r, Fits(r), NEW f \in Forward
  PROVE  LET s == See(r, f)
         IN  /\ Fits(s) /\ Memory(s) = Memory(r) /\ Account(s) = Account(r)
             /\ s.receipts = r.receipts
             /\ Loose(s) \subseteq Loose(r) \cup {f}
             /\ AnalysisEnabled => f \in s.seen
PROOF
  <1> DEFINE s == See(r, f)
  <1>1. /\ s \in Recorders /\ Memory(s) = Memory(r) /\ Account(s) = Account(r)
        /\ s.seen = IF AnalysisEnabled THEN r.seen \cup {f} ELSE r.seen
        /\ s.dropped = r.dropped /\ s.ingested = r.ingested /\ s.jobs = r.jobs
        /\ s.receipts = r.receipts
        BY SeeChanges DEF Fits
  <1> HIDE DEF s
  <1>2. MemoryFits(s) /\ OutcomesFit(s) /\ Loose(s) \subseteq Loose(r) \cup {f}
        BY <1>1 DEF Fits, MemoryFits, OutcomesFit, Loose, Memory
  <1> QED
        BY <1>1, <1>2 DEF Fits, s


(* An admitted forward is held, whoever leaves for it.                        *)
Admitted(r, s, f, reply) ==
    /\ Fits(s) /\ f \in s.held /\ s.seen = r.seen /\ Loose(s) \subseteq Loose(r)
    /\ \E S \in SUBSET (r.held \ {f}) :
          /\ Retains(r, s, S) /\ r.held \ S \subseteq s.held
          /\ \A g \in S : Left(r, s, g, TRUE, reply)
          /\ \A g \in Forward \ S : Kept(r, s, g)

(* Admission makes room by recording forwards that leave, and nothing else.   *)
LEMMA AdmitChanges ==
  ASSUME NEW r, Fits(r), NEW f \in Forward, f \in r.held \/ ~IsRetired(r, f),
         NEW reply \in Reply
  PROVE  Admitted(r, Admit(r, f, reply), f, reply)
PROOF
  <1>1. CASE f \in r.held
    <2>1. Admit(r, f, reply) = r
          BY <1>1 DEF Admit
    <2>2. Retains(r, r, {}) /\ \A g \in Forward : Kept(r, r, g)
          BY DEF Retains, Kept
    <2>3. {} \in SUBSET (r.held \ {f}) /\ r.held \ {} \subseteq r.held
          OBVIOUS
    <2>4. \E S \in SUBSET (r.held \ {f}) :
             /\ Retains(r, r, S) /\ r.held \ S \subseteq r.held
             /\ \A g \in S : Left(r, r, g, TRUE, reply)
             /\ \A g \in Forward \ S : Kept(r, r, g)
          BY <2>2, <2>3
    <2> QED
          BY <1>1, <2>1, <2>4 DEF Admitted
  <1>2. CASE f \notin r.held
    <2> DEFINE t == IF Cardinality(r.held) >= InFlight THEN Evict(r, reply) ELSE r
               s == [t EXCEPT !.held = t.held \cup {f}]
    <2>0. Admit(r, f, reply) = s
          BY <1>2 DEF Admit
    <2>1. PICK S \in SUBSET r.held :
             /\ Fits(t) /\ t.held = r.held \ S /\ Retains(r, t, S)
             /\ \A g \in S : Left(r, t, g, TRUE, reply)
             /\ \A g \in Forward \ S : Kept(r, t, g)
             /\ t.seen = r.seen /\ Loose(t) \subseteq Loose(r)
      <3>1. CASE Cardinality(r.held) >= InFlight
        <4>1. r.held # {}
              BY <3>1, FS_EmptySet, RecorderAssumption
        <4>2. LeavesBehind(r, Evict(r, reply), Oldest(r.held), TRUE, reply)
              /\ Oldest(r.held) \in r.held
              BY <4>1, EvictLeaves
        <4> QED
              BY <3>1, <4>2 DEF LeavesBehind
      <3>2. CASE ~(Cardinality(r.held) >= InFlight)
        <4>1. Retains(r, r, {}) /\ \A g \in Forward : Kept(r, r, g)
              BY DEF Retains, Kept
        <4>2. t = r
              BY <3>2
        <4>3. {} \in SUBSET r.held /\ r.held = r.held \ {}
              OBVIOUS
        <4>4. Fits(t) /\ t.held = r.held \ {} /\ Retains(r, t, {})
              BY <4>1, <4>2, <4>3
        <4>5. (\A g \in Forward \ {} : Kept(r, t, g)) /\ t.seen = r.seen /\ Loose(t) \subseteq Loose(r)
              BY <4>1, <4>2
        <4> HIDE DEF t
        <4> QED
              BY <4>3, <4>4, <4>5
      <3> QED
            BY <3>1, <3>2
    <2> HIDE DEF t
    <2>2. /\ s \in Recorders /\ s.held = t.held \cup {f} /\ s.evidence = t.evidence
          /\ s.orphans = t.orphans /\ Account(s) = Account(t)
          /\ s.receipts = t.receipts /\ s.seen = t.seen /\ s.dropped = t.dropped
          /\ s.ingested = t.ingested /\ s.jobs = t.jobs
          /\ s.through = t.through /\ s.retired = t.retired /\ s.forgotten = t.forgotten
          /\ s.leavers = t.leavers
          BY <2>1 DEF Fits, Recorders, Account
    <2> HIDE DEF s
    <2>3. f \notin t.through \cup t.retired
          BY <1>2, <2>1 DEF Retains, IsRetired
    <2>4. MemoryFits(s)
          BY <2>1, <2>2, <2>3 DEF Fits, MemoryFits
    <2>5. OutcomesFit(s) /\ Loose(s) \subseteq Loose(t)
          BY <2>1, <2>2 DEF Fits, OutcomesFit, Loose
    <2>6. Retains(r, s, S)
          BY <2>1, <2>2 DEF Retains
    <2>7. \A g \in Forward : /\ Left(r, t, g, TRUE, reply) => Left(r, s, g, TRUE, reply)
                             /\ Kept(r, t, g) => Kept(r, s, g)
          BY <2>2 DEF Left, Kept, Tells, Account
    <2>8. S \subseteq Forward /\ S \in SUBSET (r.held \ {f})
          BY <1>2, <2>1 DEF Fits, Recorders
    <2> QED
          BY <2>0, <2>1, <2>2, <2>4, <2>5, <2>6, <2>7, <2>8 DEF Admitted, Fits
  <1> QED
        BY <1>1, <1>2

(* Evidence is joined, and what is ready is recorded and settled.             *)
JoinedTo(r, s, f, e, reply) ==
    /\ Fits(s) /\ Joins(r, s, f, e, reply) /\ s.held = r.held /\ Retains(r, s, {})
    /\ f \in s.orphans => f \in r.orphans
    /\ \A g \in Forward \ {f} : Kept(r, s, g)
    /\ Loose(s) \subseteq Loose(r) \ {f}

(* Joining evidence changes the forward it is of, and no other.               *)
LEMMA JoinFits ==
  ASSUME NEW r, Fits(r), NEW f \in r.held, r.evidence[f] # Settled,
         NEW e \in SUBSET Evidence, NEW reply \in Reply,
         f \in Chat => e \subseteq {"refused"}, e \cap Context # {} => f \in r.seen
  PROVE  JoinedTo(r, JoinEvidence(r, f, e, reply), f, e, reply)
PROOF
  <1> DEFINE j == r.evidence[f] \cup e
             v == [r.evidence EXCEPT ![f] = IF Ready(j) THEN Settled ELSE j]
             t == [r EXCEPT !.evidence = v]
  <1>0. r \in Recorders /\ f \in Forward /\ MemoryFits(r) /\ OutcomesFit(r)
        BY DEF Fits, Recorders
  <1>1. JoinEvidence(r, f, e, reply) = IF Ready(j) THEN Record(t, f, j, FALSE, reply) ELSE t
    <2>1. JoinEvidence(r, f, e, reply)
             = IF Ready(j) THEN Record([r EXCEPT !.evidence[f] = Settled], f, j, FALSE, reply)
               ELSE [r EXCEPT !.evidence[f] = j]
          BY DEF JoinEvidence
    <2> QED
          BY <2>1
  <1>2. r.evidence[f] \in SUBSET Evidence
        BY <1>0 DEF Recorders
  <1>3. /\ j \in SUBSET Evidence /\ (j \cap Context # {} => f \in r.seen)
        /\ f \in Chat => j \subseteq {"refused"}
        BY <1>0, <1>2 DEF MemoryFits, OutcomesFit
  <1>4. v[f] = (IF Ready(j) THEN Settled ELSE j) /\ \A g \in Forward \ {f} : v[g] = r.evidence[g]
        BY <1>0 DEF Recorders
  <1>5. v \in [Forward -> (SUBSET Evidence) \cup {Settled}]
        BY <1>0, <1>3 DEF Recorders
  <1>6. j # Settled
    <2>1. "settled" \notin Evidence
          BY DEF Evidence, Half, Context
    <2> QED
          BY <1>3, <2>1 DEF Settled
  <1>7. Ready(j) => f \notin Chat /\ "request" \in j
        BY <1>3 DEF Ready
  <1> HIDE DEF v, j
  <1>8. /\ t \in Recorders /\ t.evidence = v /\ t.held = r.held /\ Account(t) = Account(r)
        /\ t.orphans = r.orphans /\ t.receipts = r.receipts /\ t.seen = r.seen
        /\ t.dropped = r.dropped /\ t.ingested = r.ingested /\ t.jobs = r.jobs
        /\ t.through = r.through /\ t.retired = r.retired /\ t.forgotten = r.forgotten
        /\ t.leavers = r.leavers
        BY <1>0, <1>5 DEF Recorders, Account
  <1> HIDE DEF t
  <1>9. MemoryFits(t)
    <2>1. \A g \in Forward \ t.held : t.evidence[g] = Blank
          BY <1>0, <1>4, <1>8 DEF MemoryFits
    <2>2. \A g \in Chat : t.evidence[g] \subseteq {"refused"}
          BY <1>0, <1>3, <1>4, <1>7, <1>8, RecorderAssumption DEF MemoryFits
    <2> QED
          BY <1>0, <1>8, <2>1, <2>2 DEF MemoryFits
  <1>10. OutcomesFit(t)
    <2>1. Settled \cap Context = {}
          BY DEF Settled, Context
    <2> QED
          BY <1>0, <1>3, <1>4, <1>8, <2>1 DEF OutcomesFit
  <1>11. Loose(t) \subseteq Loose(r) \cup {f} /\ (~Ready(j) => Loose(t) \subseteq Loose(r) \ {f})
        BY <1>0, <1>4, <1>6, <1>8 DEF Loose, Recorders
  <1>12. CASE ~Ready(j)
    <2>1. Joins(r, t, f, e, reply) /\ \A g \in Forward \ {f} : Kept(r, t, g)
          BY <1>0, <1>4, <1>8, <1>12 DEF Joins, Kept, Account, j
    <2>2. Retains(r, t, {})
          BY <1>8 DEF Retains
    <2> QED
          BY <1>1, <1>8, <1>9, <1>10, <1>11, <1>12, <2>1, <2>2 DEF JoinedTo, Fits
  <1>13. CASE Ready(j)
    <2> DEFINE s == Record(t, f, j, FALSE, reply)
    <2>1. "analysis" \in j => f \in t.seen
          BY <1>3, <1>8 DEF Context
    <2>2. Writes(t, s, f, j, FALSE, reply)
          BY <1>0, <1>3, <1>8, <1>10, <2>1, RecordChanges
    <2> HIDE DEF s
    <2>3. /\ s.held = r.held /\ s.evidence = v /\ s.orphans = r.orphans
          /\ s.through = r.through /\ s.retired = r.retired
          /\ s.forgotten = r.forgotten /\ s.leavers = r.leavers
          BY <1>8, <2>2 DEF Writes, Memory
    <2>4. MemoryFits(s) /\ Retains(r, s, {})
          BY <1>8, <1>9, <2>3 DEF MemoryFits, Retains
    <2>5. t.counted = r.counted /\ t.records = r.records /\ t.declined = r.declined
          BY <1>8 DEF Account
    <2>6. /\ s.counted[f] = r.counted[f] + Unsaid(j, FALSE)
          /\ s.records[f] = r.records[f] \o Operations(j, FALSE, reply)
          /\ \A g \in Forward \ {f} : s.counted[g] = r.counted[g] /\ s.records[g] = r.records[g]
      <3>1. r.counted \in [Forward -> Nat] /\ r.records \in [Forward -> Seq(Operation)]
            BY <1>0 DEF Recorders
      <3>2. /\ s.counted = [r.counted EXCEPT ![f] = @ + Unsaid(j, FALSE)]
            /\ s.records = [r.records EXCEPT ![f] = @ \o Operations(j, FALSE, reply)]
            BY <2>2, <2>5 DEF Writes
      <3> QED
            BY <1>0, <3>1, <3>2
    <2>7. \A g \in Forward \ {f} : Kept(r, s, g)
          BY <1>4, <2>2, <2>3, <2>5, <2>6 DEF Kept, Writes
    <2>8. Joins(r, s, f, e, reply)
          BY <1>0, <1>4, <1>13, <2>2, <2>3, <2>5, <2>6 DEF Joins, Tells, Writes, j
    <2>9. Loose(s) \subseteq Loose(r) \ {f}
          BY <1>7, <1>11, <1>13, <2>2 DEF Writes
    <2> QED
          BY <1>1, <1>13, <2>2, <2>3, <2>4, <2>7, <2>8, <2>9 DEF JoinedTo, Fits, Writes, s
  <1> QED
        BY <1>12, <1>13


(* What an event may carry, and to which forward.                             *)
Carried == Owable \cup Dispatchable \cup Storable

(* Nobody leaves for an event that is not joined.                             *)
LEMMA HandledAlone ==
  ASSUME NEW r, NEW s, NEW f \in Forward, NEW e, NEW own \in Answers,
         Fits(s), Retains(r, s, {}), r.held \subseteq s.held,
         \A g \in Forward \ {f} : Kept(r, s, g),
         f \in s.orphans => f \in r.orphans, Own(r, s, f, e, own),
         Loose(s) \subseteq Loose(r), "request" \in e \/ e \subseteq Context => f \notin Loose(s)
  PROVE  Handled(r, s, f, e)
PROOF
  <1>1. {} \in SUBSET (r.held \ {f}) /\ r.held \ {} \subseteq s.held
        OBVIOUS
  <1>2. \A g \in Forward \ ({} \cup {f}) : Kept(r, s, g)
        OBVIOUS
  <1>3. \E S \in SUBSET (r.held \ {f}), o \in Answers, evicted \in Answers :
           /\ Retains(r, s, S) /\ r.held \ S \subseteq s.held
           /\ \A g \in S : Left(r, s, g, TRUE, evicted)
           /\ \A g \in Forward \ (S \cup {f}) : Kept(r, s, g)
           /\ f \in s.orphans => f \in r.orphans
           /\ Own(r, s, f, e, o)
        BY <1>1, <1>2
  <1> QED
        BY <1>3 DEF Handled

(* A recorder that remembers and accounts for the same.                       *)
LEMMA SameIsKept ==
  ASSUME NEW r, NEW s, Memory(s) = Memory(r), Account(s) = Account(r)
  PROVE  /\ Retains(r, s, {}) /\ s.held = r.held /\ s.orphans = r.orphans
         /\ s.evidence = r.evidence /\ \A g \in Forward : Kept(r, s, g)
  BY DEF Memory, Account, Retains, Kept

(* What is lost of an event is the analysis it announces.                     *)
LEMMA LoseFits ==
  ASSUME Fits(recorder), NEW f \in Forward, NEW e \in Carried
  PROVE  LET s == Lose(Sighted(f, e), f, e)
         IN  /\ Fits(s) /\ Memory(s) = Memory(recorder) /\ Account(s) = Account(recorder)
             /\ Loose(s) \subseteq Loose(recorder)
             /\ "request" \in e \/ e \subseteq Context => f \notin Loose(s)
PROOF
  <1>1. CASE ~CarriesRequest(e) /\ ~CarriesContext(e)
    <2>1. Lose(Sighted(f, e), f, e) = recorder
          BY <1>1 DEF Lose, Sighted
    <2> QED
          BY <1>1, <2>1 DEF Drops, CarriesRequest, CarriesContext
  <1>2. CASE CarriesRequest(e) \/ CarriesContext(e)
    <2> DEFINE w == See(recorder, f)
               s == Drop(w, {f})
    <2>1. Lose(Sighted(f, e), f, e) = s
          BY <1>2 DEF Lose, Sighted
    <2>2. /\ Fits(w) /\ Memory(w) = Memory(recorder) /\ Account(w) = Account(recorder)
          /\ Loose(w) \subseteq Loose(recorder) \cup {f}
          BY SightFits
    <2> HIDE DEF w
    <2>3. Drops(w, s, {f})
          BY <2>2, DropFits
    <2> HIDE DEF s
    <2> QED
          BY <1>2, <2>1, <2>2, <2>3 DEF Drops
  <1> QED
        BY <1>1, <1>2

(* A forward of another route is recorded when its metadata comes.            *)
LEMMA OtherRouteHandled ==
  ASSUME Fits(recorder), NEW f \in Forward, NEW e \in Carried, HandleOtherRoute(f, e)
  PROVE  Handled(recorder, recorder', f, e)
PROOF
  <1>1. PICK reply \in Replies : recorder' = Record(recorder, f, {"transport"}, FALSE, reply)
        BY DEF HandleOtherRoute, RecordTransportOnly
  <1> DEFINE t == {"transport"}
             s == Record(recorder, f, t, FALSE, reply)
  <1>2. reply \in Reply /\ reply \in Answers
        BY RecorderAssumption DEF Reply, Answers
  <1>3. /\ t \in SUBSET Evidence /\ "request" \notin t /\ "analysis" \notin t
        /\ ~(t \subseteq Context) /\ e = t /\ f \in Chat
        BY DEF Evidence, Half, Context, HandleOtherRoute
  <1>4. Fits(recorder) /\ recorder \in Recorders /\ OutcomesFit(recorder)
        BY DEF Fits
  <1>5. recorder' = s
        BY <1>1
  <1> HIDE DEF t
  <1>6. Writes(recorder, s, f, t, FALSE, reply)
        BY <1>2, <1>3, <1>4, RecordChanges
  <1> HIDE DEF s
  <1>7. /\ s.held = recorder.held /\ s.evidence = recorder.evidence
        /\ s.orphans = recorder.orphans /\ s.through = recorder.through
        /\ s.retired = recorder.retired /\ s.forgotten = recorder.forgotten
        /\ s.leavers = recorder.leavers
        BY <1>6 DEF Writes, Memory
  <1>8. Fits(s)
        BY <1>4, <1>6, <1>7 DEF Fits, MemoryFits, Writes
  <1>9. Retains(recorder, s, {})
        BY <1>7 DEF Retains
  <1>10. recorder.counted \in [Forward -> Nat] /\ recorder.records \in [Forward -> Seq(Operation)]
        BY <1>4 DEF Recorders
  <1>11. /\ s.counted = [recorder.counted EXCEPT ![f] = @ + Unsaid(t, FALSE)]
         /\ s.records = [recorder.records EXCEPT ![f] = @ \o Operations(t, FALSE, reply)]
        BY <1>6 DEF Writes
  <1>12. /\ s.counted[f] = recorder.counted[f] + Unsaid(t, FALSE)
         /\ s.records[f] = recorder.records[f] \o Operations(t, FALSE, reply)
         /\ \A g \in Forward \ {f} : /\ s.counted[g] = recorder.counted[g]
                                     /\ s.records[g] = recorder.records[g]
        BY <1>10, <1>11
  <1>13. \A g \in Forward \ {f} : Kept(recorder, s, g)
        BY <1>6, <1>7, <1>12 DEF Kept, Writes
  <1>14. Own(recorder, s, f, e, reply)
    <2>1. Tells(recorder, s, f, t, FALSE, reply)
          BY <1>6, <1>12 DEF Tells, Writes
    <2> QED
          BY <1>3, <1>7, <2>1 DEF Own, t
  <1>15. Loose(s) \subseteq Loose(recorder)
        BY <1>6 DEF Writes
  <1>16. Handled(recorder, s, f, e)
        BY <1>2, <1>3, <1>7, <1>8, <1>9, <1>13, <1>14, <1>15, HandledAlone
  <1> QED
        BY <1>5, <1>16


(* A tombstone consumes the request it waits for.                             *)
LEMMA OrphanHandled ==
  ASSUME Fits(recorder), NEW f \in Forward, NEW e \in Carried, HandleOrphaned(f, e)
  PROVE  Handled(recorder, recorder', f, e)
PROOF
  <1> DEFINE w == Sighted(f, e)
             d == Drop(w, {f})
             s == [d EXCEPT !.orphans = d.orphans \ {f}]
  <1>1. CarriesRequest(e) /\ f \in recorder.orphans /\ recorder' = s
        BY DEF HandleOrphaned
  <1>2. w = See(recorder, f)
        BY <1>1 DEF Sighted
  <1>3. /\ Fits(w) /\ Memory(w) = Memory(recorder) /\ Account(w) = Account(recorder)
        /\ Loose(w) \subseteq Loose(recorder) \cup {f}
        BY <1>2, SightFits
  <1> HIDE DEF w
  <1>4. Drops(w, d, {f})
        BY <1>3, DropFits
  <1> HIDE DEF d
  <1>5. /\ Fits(d) /\ Memory(d) = Memory(recorder) /\ Account(d) = Account(recorder)
        /\ Loose(d) \subseteq Loose(recorder) \ {f}
        BY <1>3, <1>4 DEF Drops
  <1>6. /\ s \in Recorders /\ s.orphans = d.orphans \ {f} /\ Account(s) = Account(d)
        /\ s.held = d.held /\ s.evidence = d.evidence
        /\ s.receipts = d.receipts /\ s.seen = d.seen /\ s.dropped = d.dropped
        /\ s.ingested = d.ingested /\ s.jobs = d.jobs
        /\ s.through = d.through /\ s.retired = d.retired /\ s.forgotten = d.forgotten
        /\ s.leavers = d.leavers
        BY <1>5 DEF Fits, Recorders, Account
  <1> HIDE DEF s
  <1>7. Fits(s) /\ Loose(s) = Loose(d)
        BY <1>5, <1>6 DEF Fits, MemoryFits, OutcomesFit, Loose
  <1>8. /\ Retains(recorder, d, {}) /\ d.held = recorder.held /\ d.orphans = recorder.orphans
        /\ \A g \in Forward : Kept(recorder, d, g)
        BY <1>5, SameIsKept
  <1>9. /\ Retains(recorder, s, {}) /\ \A g \in Forward : Kept(recorder, s, g)
        BY <1>6, <1>8 DEF Retains, Kept, Account
  <1>10. Own(recorder, s, f, e, "ok")
        BY <1>1, <1>6, <1>9 DEF Own, CarriesRequest
  <1>11. Handled(recorder, s, f, e)
    <2>1. "ok" \in Answers /\ recorder.held \subseteq s.held
          BY <1>6, <1>8 DEF Answers
    <2>2. f \in s.orphans => f \in recorder.orphans
          BY <1>1
    <2>3. f \notin Loose(s) /\ Loose(s) \subseteq Loose(recorder)
          BY <1>5, <1>7
    <2> QED
          BY <1>7, <1>9, <1>10, <2>1, <2>2, <2>3, HandledAlone
  <1> QED
        BY <1>1, <1>11

(* The analysis of a recorded forward is handed on.                           *)
LEMMA ReceiptHandled ==
  ASSUME Fits(recorder), NEW f \in Forward, NEW e \in Carried, Suits(f, e), HandleReceipt(f, e)
  PROVE  Handled(recorder, recorder', f, e)
PROOF
  <1> DEFINE w == Sighted(f, e)
             d == EnqueueContext(w, f, e)
             s == [d EXCEPT !.receipts = d.receipts \ {f}]
  <1>1. CarriesContext(e) /\ recorder' = s
        BY DEF HandleReceipt
  <1>2. w = See(recorder, f)
        BY <1>1 DEF Sighted
  <1>3. AnalysisEnabled
        BY <1>1 DEF Suits, CarriesContext, Carried, Owable, Dispatchable, Storable, Context
  <1>4. /\ Fits(w) /\ Memory(w) = Memory(recorder) /\ Account(w) = Account(recorder)
        /\ Loose(w) \subseteq Loose(recorder) \cup {f} /\ f \in w.seen
        BY <1>2, <1>3, SightFits
  <1> HIDE DEF w
  <1>5. /\ d \in Recorders /\ Memory(d) = Memory(w) /\ Account(d) = Account(w)
        /\ d.seen = w.seen /\ d.ingested = w.ingested /\ d.receipts = w.receipts
        /\ \/ "analysis" \in e /\ d.jobs = w.jobs \cup {f} /\ d.dropped = w.dropped
           \/ d.jobs = w.jobs /\ d.dropped = w.dropped \cup (({f} \cap w.seen) \ w.ingested)
        BY <1>4, EnqueueChanges DEF Fits
  <1> HIDE DEF d
  <1>6. /\ s \in Recorders /\ Memory(s) = Memory(d) /\ Account(s) = Account(d)
        /\ s.receipts = d.receipts \ {f} /\ s.seen = d.seen /\ s.dropped = d.dropped
        /\ s.ingested = d.ingested /\ s.jobs = d.jobs
        BY <1>5 DEF Recorders, Memory, Account
  <1> HIDE DEF s
  <1>7. MemoryFits(s)
        BY <1>4, <1>5, <1>6 DEF Fits, MemoryFits, Memory
  <1>8. OutcomesFit(s) /\ Loose(s) \subseteq Loose(w) \ {f}
        BY <1>4, <1>5, <1>6 DEF Fits, OutcomesFit, Loose, Memory
  <1>9. /\ Retains(recorder, s, {}) /\ s.held = recorder.held /\ s.orphans = recorder.orphans
        /\ \A g \in Forward : Kept(recorder, s, g)
        BY <1>4, <1>5, <1>6, SameIsKept
  <1>10. Own(recorder, s, f, e, "ok")
        BY <1>1, <1>9 DEF Own, CarriesContext
  <1>11. Handled(recorder, s, f, e)
    <2>1. "ok" \in Answers /\ Fits(s)
          BY <1>6, <1>7, <1>8 DEF Answers, Fits
    <2>2. f \notin Loose(s) /\ Loose(s) \subseteq Loose(recorder)
          BY <1>4, <1>8
    <2> QED
          BY <1>9, <1>10, <2>1, <2>2, HandledAlone
  <1> QED
        BY <1>1, <1>11

(* What comes for a retired or settled forward is lost, and counted if it is  *)
(* a half of a retired one.                                                   *)
LEMMA RetiredHandled ==
  ASSUME Fits(recorder), NEW f \in Forward, NEW e \in Carried, HandleRetired(f, e)
  PROVE  Handled(recorder, recorder', f, e)
PROOF
  <1> DEFINE l == Lose(Sighted(f, e), f, e)
             s == Count(l, f)
  <1>1. /\ f \notin recorder.held
        /\ recorder' = IF CarriesContext(e) THEN l ELSE s
        BY DEF HandleRetired
  <1>2. /\ Fits(l) /\ Memory(l) = Memory(recorder) /\ Account(l) = Account(recorder)
        /\ Loose(l) \subseteq Loose(recorder)
        /\ "request" \in e \/ e \subseteq Context => f \notin Loose(l)
        BY LoseFits
  <1> HIDE DEF l
  <1>3. /\ Retains(recorder, l, {}) /\ l.held = recorder.held /\ l.orphans = recorder.orphans
        /\ l.evidence = recorder.evidence /\ \A g \in Forward : Kept(recorder, l, g)
        BY <1>2, SameIsKept
  <1>4. "ok" \in Answers
        BY DEF Answers
  <1>5. CASE CarriesContext(e)
    <2>1. Own(recorder, l, f, e, "ok")
          BY <1>3, <1>5 DEF Own, CarriesContext
    <2>2. Handled(recorder, l, f, e)
          BY <1>2, <1>3, <1>4, <2>1, HandledAlone
    <2> QED
          BY <1>1, <1>5, <2>2
  <1>6. CASE ~CarriesContext(e)
    <2>1. /\ s \in Recorders /\ Memory(s) = Memory(l)
          /\ s.counted = [l.counted EXCEPT ![f] = @ + 1]
          /\ s.records = l.records /\ s.declined = l.declined
          /\ s.seen = l.seen /\ s.dropped = l.dropped /\ s.ingested = l.ingested
          /\ s.jobs = l.jobs /\ s.receipts = l.receipts
          BY <1>2, CountChanges DEF Fits
    <2> HIDE DEF s
    <2>2. Fits(s) /\ Loose(s) = Loose(l)
          BY <1>2, <2>1 DEF Fits, MemoryFits, OutcomesFit, Loose, Memory
    <2>3. l.counted = recorder.counted /\ recorder.counted \in [Forward -> Nat]
          BY <1>2 DEF Fits, Recorders, Account
    <2>4. /\ s.counted[f] = recorder.counted[f] + 1
          /\ \A g \in Forward \ {f} : s.counted[g] = recorder.counted[g]
          BY <2>1, <2>3
    <2>5. \A g \in Forward \ {f} : Kept(recorder, s, g)
          BY <1>3, <2>1, <2>4 DEF Kept, Memory
    <2>6. /\ Retains(recorder, s, {}) /\ s.held = recorder.held
          /\ s.orphans = recorder.orphans /\ s.evidence = recorder.evidence
          BY <1>3, <2>1 DEF Retains, Memory
    <2>7. Own(recorder, s, f, e, "ok")
          BY <1>1, <1>3, <2>1, <2>4, <2>6 DEF Own, Kept
    <2>8. Loose(s) \subseteq Loose(recorder) /\ ("request" \in e \/ e \subseteq Context => f \notin Loose(s))
          BY <1>2, <2>2
    <2>9. Handled(recorder, s, f, e)
          BY <1>4, <2>2, <2>5, <2>6, <2>7, <2>8, HandledAlone
    <2> QED
          BY <1>1, <1>6, <2>9
  <1> QED
        BY <1>5, <1>6

(* A half that comes to a settled forward is handled.                         *)
LEMMA SettledHandled ==
  ASSUME Fits(recorder), NEW f \in Forward, NEW e \in Carried, HandleSettled(f, e)
  PROVE  Handled(recorder, recorder', f, e)
PROOF
  <1> DEFINE l == Lose(Sighted(f, e), f, e)
  <1>1. recorder.evidence[f] = Settled /\ recorder' = l
        BY DEF HandleSettled
  <1>2. /\ Fits(l) /\ Memory(l) = Memory(recorder) /\ Account(l) = Account(recorder)
        /\ Loose(l) \subseteq Loose(recorder)
        /\ "request" \in e \/ e \subseteq Context => f \notin Loose(l)
        BY LoseFits
  <1> HIDE DEF l
  <1>3. /\ Retains(recorder, l, {}) /\ l.held = recorder.held /\ l.orphans = recorder.orphans
        /\ \A g \in Forward : Kept(recorder, l, g)
        BY <1>2, SameIsKept
  <1>4. "ok" \in Answers /\ Own(recorder, l, f, e, "ok")
        BY <1>1, <1>3 DEF Own, Answers
  <1>5. Handled(recorder, l, f, e)
        BY <1>2, <1>3, <1>4, HandledAlone
  <1> QED
        BY <1>1, <1>5


(* Any other event is joined to what its forward has.                         *)
LEMMA JoinHandled ==
  ASSUME Fits(recorder), NEW f \in Forward, NEW e \in Carried, Suits(f, e),
         ~(f \in Chat /\ e = {"transport"}), ~(CarriesRequest(e) /\ f \in recorder.orphans),
         HandleJoin(f, e)
  PROVE  Handled(recorder, recorder', f, e)
PROOF
  <1>1. PICK own \in Replies, evicted \in Replies :
           recorder' = JoinEvidence(Admit(Sighted(f, e), f, evicted), f, e, own)
        BY DEF HandleJoin
  <1> DEFINE w == Sighted(f, e)
             a == Admit(w, f, evicted)
             s == JoinEvidence(a, f, e, own)
  <1>2. /\ own \in Reply /\ evicted \in Reply /\ own \in Answers /\ evicted \in Answers
        BY RecorderAssumption DEF Reply, Answers
  <1>3. e \in SUBSET Evidence /\ (f \in Chat => e \subseteq {"refused"})
    <2>1. e \in SUBSET Evidence
          BY DEF Carried, Owable, Dispatchable, Storable, Evidence, Half, Context
    <2> QED
          BY <2>1 DEF Suits
  <1>4. e \cap Context # {} => CarriesRequest(e) \/ CarriesContext(e)
        BY DEF CarriesRequest, CarriesContext, Carried, Owable, Dispatchable, Storable, Context
  <1>5. /\ Fits(w) /\ Memory(w) = Memory(recorder) /\ Account(w) = Account(recorder)
        /\ Loose(w) \subseteq Loose(recorder) \cup {f}
        /\ ~(CarriesRequest(e) \/ CarriesContext(e)) => Loose(w) \subseteq Loose(recorder)
        /\ e \cap Context # {} => f \in w.seen
    <2>1. CASE CarriesRequest(e) \/ CarriesContext(e)
      <3>1. w = See(recorder, f)
            BY <2>1 DEF Sighted
      <3>2. /\ Fits(w) /\ Memory(w) = Memory(recorder) /\ Account(w) = Account(recorder)
            /\ Loose(w) \subseteq Loose(recorder) \cup {f} /\ (AnalysisEnabled => f \in w.seen)
            BY <3>1, SightFits
      <3> QED
            BY <2>1, <3>2 DEF Suits
    <2>2. CASE ~(CarriesRequest(e) \/ CarriesContext(e))
      <3>1. w = recorder
            BY <2>2 DEF Sighted
      <3> QED
            BY <1>4, <2>2, <3>1
    <2> QED
          BY <2>1, <2>2
  <1>6. /\ w.held = recorder.held /\ w.evidence = recorder.evidence
        /\ w.orphans = recorder.orphans /\ w.retired = recorder.retired
        /\ w.through = recorder.through /\ w.forgotten = recorder.forgotten
        /\ w.counted = recorder.counted /\ w.records = recorder.records
        /\ w.declined = recorder.declined
        BY <1>5 DEF Memory, Account
  <1> HIDE DEF w
  <1>7. /\ f \in w.held \/ ~IsRetired(w, f)
        /\ w.evidence[f] # Settled
        BY <1>6 DEF HandleJoin, IsRetired
  <1>8. Admitted(w, a, f, evicted)
        BY <1>2, <1>5, <1>7, AdmitChanges
  <1>9. PICK S \in SUBSET (w.held \ {f}) :
           /\ Retains(w, a, S) /\ w.held \ S \subseteq a.held
           /\ \A g \in S : Left(w, a, g, TRUE, evicted)
           /\ \A g \in Forward \ S : Kept(w, a, g)
        BY <1>8 DEF Admitted
  <1>10. Fits(a) /\ f \in a.held /\ a.seen = w.seen /\ Loose(a) \subseteq Loose(w)
        BY <1>8 DEF Admitted
  <1> HIDE DEF a
  <1>11. Kept(w, a, f)
        BY <1>9
  <1>12. a.evidence[f] # Settled /\ (e \cap Context # {} => f \in a.seen)
        BY <1>5, <1>7, <1>10, <1>11 DEF Kept
  <1>13. JoinedTo(a, s, f, e, own)
        BY <1>2, <1>3, <1>10, <1>12, JoinFits
  <1>14. recorder' = s
        BY <1>1 DEF a, w
  <1> HIDE DEF s
  <1>15. S \in SUBSET (recorder.held \ {f}) /\ S \subseteq Forward
        BY <1>5, <1>6 DEF Fits, Recorders
  <1>16. Retains(recorder, s, S) /\ recorder.held \ S \subseteq s.held
        BY <1>6, <1>9, <1>13 DEF Retains, JoinedTo
  <1>17. \A g \in S : Left(recorder, s, g, TRUE, evicted)
    <2> SUFFICES ASSUME NEW g \in S PROVE Left(recorder, s, g, TRUE, evicted)
        OBVIOUS
    <2>1. Left(w, a, g, TRUE, evicted) /\ Kept(a, s, g)
          BY <1>9, <1>13, <1>15 DEF JoinedTo
    <2> QED
          BY <1>6, <2>1 DEF Left, Kept, Tells
  <1>18. \A g \in Forward \ (S \cup {f}) : Kept(recorder, s, g)
        BY <1>6, <1>9, <1>13 DEF Kept, JoinedTo
  <1>19. f \in s.orphans => f \in recorder.orphans
        BY <1>6, <1>11, <1>13 DEF Kept, JoinedTo
  <1>20. Joins(recorder, s, f, e, own)
        BY <1>6, <1>11, <1>13 DEF Joins, Kept, Tells, JoinedTo
  <1>21. Own(recorder, s, f, e, own)
        BY <1>20 DEF Own, CarriesRequest
  <1>22. /\ Fits(s) /\ Loose(s) \subseteq Loose(recorder) /\ f \notin Loose(s)
        BY <1>5, <1>10, <1>13 DEF JoinedTo
  <1>23. \E T \in SUBSET (recorder.held \ {f}), o \in Answers, x \in Answers :
          /\ Retains(recorder, s, T) /\ recorder.held \ T \subseteq s.held
          /\ \A g \in T : Left(recorder, s, g, TRUE, x)
          /\ \A g \in Forward \ (T \cup {f}) : Kept(recorder, s, g)
          /\ f \in s.orphans => f \in recorder.orphans
          /\ Own(recorder, s, f, e, o)
        BY <1>2, <1>15, <1>16, <1>17, <1>18, <1>19, <1>21
  <1>24. Handled(recorder, s, f, e)
        BY <1>22, <1>23 DEF Handled
  <1> QED
        BY <1>14, <1>24

(* So is every event.                                                         *)
LEMMA EventIsHandled ==
  ASSUME Fits(recorder), NEW f \in Forward, NEW e \in Carried, Suits(f, e), Handle(f, e)
  PROVE  Handled(recorder, recorder', f, e)
PROOF
  <1>1. CASE HandleOtherRoute(f, e)
        BY <1>1, OtherRouteHandled
  <1>2. CASE HandleOrphaned(f, e)
        BY <1>2, OrphanHandled
  <1>3. CASE HandleReceipt(f, e)
        BY <1>3, ReceiptHandled
  <1>4. CASE HandleRetired(f, e)
        BY <1>4, RetiredHandled
  <1>5. CASE HandleSettled(f, e)
        BY <1>5, SettledHandled
  <1>6. CASE /\ ~(f \in Chat /\ e = {"transport"}) /\ ~(CarriesRequest(e) /\ f \in recorder.orphans)
             /\ HandleJoin(f, e)
        BY <1>6, JoinHandled
  <1> QED
        BY <1>1, <1>2, <1>3, <1>4, <1>5, <1>6 DEF Handle


-----------------------------------------------------------------------------
(* What the operations of a forward are                                       *)

(* What a record adds to the operations of a forward.                         *)
AddsTo(r, s, g, e, limit, reply) ==
    /\ Elements(s.records[g]) = Elements(r.records[g]) \cup Elements(Operations(e, limit, reply))
    /\ r.records[g] = << >> /\ reply # "lost" => Len(s.records[g]) <= 1
    /\ e \subseteq {"refused"} => s.records[g] = r.records[g]

(* A record only adds to what is recorded.                                    *)
LEMMA TellsMore ==
  ASSUME NEW r \in Recorders, NEW s, NEW g \in Forward, NEW e \in SUBSET Evidence,
         NEW limit \in BOOLEAN, NEW reply \in Reply, Tells(r, s, g, e, limit, reply)
  PROVE  AddsTo(r, s, g, e, limit, reply)
PROOF
  <1> DEFINE p == r.records[g]
             q == Operations(e, limit, reply)
  <1>1. p \in Seq(Operation) /\ s.records[g] = p \o q
        BY DEF Recorders, Tells
  <1>2. /\ q \in Seq(Operation) /\ (reply # "lost" => Len(q) <= 1)
        /\ q = << >> <=> ~Acknowledged(e, reply) /\ ~FallsBack(e, reply)
        BY OperationsTell
  <1> HIDE DEF p, q
  <1>3. /\ Elements(p \o q) = Elements(p) \cup Elements(q) /\ Len(p \o q) = Len(p) + Len(q)
        /\ Len(p) \in Nat /\ Len(q) \in Nat
    <2>1. p \in Seq(Operation) /\ q \in Seq(Operation)
          BY <1>1, <1>2
    <2> QED
          BY <2>1, ElementsOfBoth
  <1>4. p = << >> => Len(p) = 0
        OBVIOUS
  <1>5. p = << >> /\ reply # "lost" => Len(p \o q) <= 1
        BY <1>2, <1>3, <1>4
  <1>6. e \subseteq {"refused"} => p \o q = p
    <2>1. e \subseteq {"refused"} => q = << >>
          BY <1>2 DEF Acknowledged, FallsBack
    <2>2. p \o << >> = p
          BY <1>1
    <2> QED
          BY <2>1, <2>2
  <1> QED
        BY <1>1, <1>3, <1>5, <1>6 DEF AddsTo, p, q

(* The operations of a forward that leaves are its only ones.                 *)
LEMMA LeftOnce ==
  ASSUME NEW r, NEW s, Fits(r), NEW g \in r.held, NEW limit \in BOOLEAN,
         NEW reply \in Reply, reply # "lost", Left(r, s, g, limit, reply),
         Len(r.records[g]) <= 1, g \notin Chat /\ r.records[g] # << >> => r.evidence[g] = Settled
  PROVE  Len(s.records[g]) <= 1
PROOF
  <1> DEFINE e == r.evidence[g]
  <1>1. g \in Forward /\ r \in Recorders
        BY DEF Fits, Recorders
  <1>2. CASE e = Settled
        BY <1>2 DEF Left
  <1>3. CASE e # Settled
    <2>1. e \in SUBSET Evidence
          BY <1>1, <1>3 DEF Recorders
    <2>2. Tells(r, s, g, e, limit, reply)
          BY <1>3 DEF Left
    <2>3. g \in Chat => e \subseteq {"refused"}
          BY DEF Fits, MemoryFits
    <2> HIDE DEF e
    <2>4. AddsTo(r, s, g, e, limit, reply)
          BY <1>1, <2>1, <2>2, TellsMore
    <2> QED
          BY <1>3, <2>3, <2>4 DEF AddsTo, e
  <1> QED
        BY <1>2, <1>3

(* One event leaves one operation per forward.                                *)
LEMMA HandledOnce ==
  ASSUME NEW r, NEW s, NEW f \in Forward, NEW e \in Carried, Fits(r), OperationsFit(r),
         "lost" \notin Replies, Handled(r, s, f, e), Suits(f, e),
         f \in Chat /\ e = {"transport"} => r.records[f] = << >>
  PROVE  OperationsFit(s)
PROOF
  <1>1. PICK S \in SUBSET (r.held \ {f}), own \in Answers, evicted \in Answers :
           /\ Retains(r, s, S) /\ r.held \ S \subseteq s.held
           /\ \A g \in S : Left(r, s, g, TRUE, evicted)
           /\ \A g \in Forward \ (S \cup {f}) : Kept(r, s, g)
           /\ f \in s.orphans => f \in r.orphans
           /\ Own(r, s, f, e, own)
        BY DEF Handled
  <1>2. /\ own \in Reply /\ own # "lost" /\ evicted \in Reply /\ evicted # "lost"
        BY RecorderAssumption DEF Reply, Answers
  <1>3. /\ r \in Recorders /\ MemoryFits(r) /\ r.held \subseteq Forward
        /\ e \in SUBSET Evidence
        BY DEF Fits, Recorders, Carried, Owable, Dispatchable, Storable, Evidence, Half, Context
  <1>4. \A g \in Forward \ r.forgotten :
           /\ Len(r.records[g]) <= 1
           /\ g \notin Chat /\ r.records[g] # << >> => r.evidence[g] = Settled \/ IsRetired(r, g)
        BY DEF OperationsFit
  <1>5. \A g \in Forward \ s.forgotten :
           /\ g \notin r.forgotten
           /\ IsRetired(r, g) \/ g \in S => IsRetired(s, g)
        BY <1>1 DEF Retains, IsRetired
  <1>6. \A g \in r.held : ~IsRetired(r, g)
        BY <1>3 DEF MemoryFits, IsRetired
  <1>7. ASSUME NEW g \in S, g \notin s.forgotten
        PROVE  Len(s.records[g]) <= 1 /\ IsRetired(s, g)
    <2>1. g \in r.held /\ g \in Forward /\ g \notin r.forgotten /\ IsRetired(s, g)
          BY <1>3, <1>5, <1>7
    <2>2. Len(r.records[g]) <= 1 /\ (g \notin Chat /\ r.records[g] # << >> => r.evidence[g] = Settled)
          BY <1>4, <1>6, <2>1
    <2>3. Left(r, s, g, TRUE, evicted)
          BY <1>1
    <2>4. Len(s.records[g]) <= 1
          BY <1>2, <2>1, <2>2, <2>3, LeftOnce
    <2> QED
          BY <2>1, <2>4
  <1>8. ASSUME NEW g \in Forward \ (S \cup {f}), g \notin s.forgotten
        PROVE  /\ Len(s.records[g]) <= 1
               /\ g \notin Chat /\ s.records[g] # << >> => s.evidence[g] = Settled \/ IsRetired(s, g)
    <2>1. Kept(r, s, g)
          BY <1>1
    <2> QED
          BY <1>4, <1>5, <1>8, <2>1 DEF Kept
  <1>9. ASSUME f \notin s.forgotten
        PROVE  /\ Len(s.records[f]) <= 1
               /\ f \notin Chat /\ s.records[f] # << >> => s.evidence[f] = Settled \/ IsRetired(s, f)
    <2>1. f \notin r.forgotten /\ (IsRetired(r, f) => IsRetired(s, f))
          BY <1>5, <1>9
    <2>2. CASE /\ f \in Chat /\ e = {"transport"} /\ Tells(r, s, f, e, FALSE, own)
      <3>1. r.records[f] = << >>
            BY <2>2
      <3> DEFINE t == {"transport"}
      <3>2. t \in SUBSET Evidence /\ Tells(r, s, f, t, FALSE, own)
            BY <2>2 DEF Evidence, Half
      <3> HIDE DEF t
      <3>3. AddsTo(r, s, f, t, FALSE, own)
            BY <1>2, <1>3, <3>2, TellsMore
      <3> QED
            BY <1>2, <2>2, <3>1, <3>3 DEF AddsTo
    <2>3. CASE s.records[f] = r.records[f] /\ s.evidence[f] = r.evidence[f]
          BY <1>4, <2>1, <2>3
    <2>4. CASE Joins(r, s, f, e, own)
      <3> DEFINE j == r.evidence[f] \cup e
      <3>1. r.evidence[f] # Settled /\ f \in s.held
            BY <2>4 DEF Joins
      <3>2. j \in SUBSET Evidence
            BY <1>3, <3>1 DEF Recorders
      <3>3. /\ Ready(j) => s.evidence[f] = Settled /\ Tells(r, s, f, j, FALSE, own)
            /\ ~Ready(j) => s.records[f] = r.records[f]
            BY <2>4 DEF Joins
      <3>4. f \in Chat => ~Ready(j)
        <4>1. f \in Chat => r.evidence[f] \subseteq {"refused"}
              BY <1>3 DEF MemoryFits
        <4>2. f \in Chat => "request" \notin e
              BY DEF Suits
        <4> QED
              BY <4>1, <4>2 DEF Ready
      <3>5. ~IsRetired(s, f)
            BY <3>1 DEF Handled, Fits, MemoryFits, IsRetired
      <3>6. f \notin Chat => r.records[f] = << >>
            BY <1>4, <2>1, <3>1, <3>5
      <3> HIDE DEF j
      <3>7. CASE Ready(j)
        <4>1. AddsTo(r, s, f, j, FALSE, own)
              BY <1>2, <1>3, <3>2, <3>3, <3>7, TellsMore
        <4> QED
              BY <1>2, <3>3, <3>4, <3>6, <3>7, <4>1 DEF AddsTo
      <3>8. CASE ~Ready(j)
            BY <1>4, <2>1, <3>3, <3>6, <3>8
      <3> QED
            BY <3>7, <3>8
    <2> QED
          BY <1>1, <2>2, <2>3, <2>4 DEF Own, Kept
  <1> QED
        BY <1>7, <1>8, <1>9 DEF OperationsFit


(* So does the end of the run.                                                *)
LEMMA DrainedOnce ==
  ASSUME NEW r, NEW s, NEW o \in r.held, NEW reply \in Replies, Fits(r), OperationsFit(r),
         "lost" \notin Replies, LeavesBehind(r, s, o, FALSE, reply)
  PROVE  OperationsFit(s)
PROOF
  <1>1. /\ Retains(r, s, {o}) /\ Left(r, s, o, FALSE, reply)
        /\ \A g \in Forward \ {o} : Kept(r, s, g)
        BY DEF LeavesBehind
  <1>2. reply \in Reply /\ reply # "lost" /\ o \in Forward
        BY RecorderAssumption DEF Reply, Fits, Recorders
  <1>3. \A g \in Forward \ s.forgotten :
           /\ g \notin r.forgotten
           /\ IsRetired(r, g) \/ g = o => IsRetired(s, g)
        BY <1>1 DEF Retains, IsRetired
  <1>4. ~IsRetired(r, o)
        BY DEF Fits, MemoryFits, IsRetired
  <1>5. \A g \in Forward \ r.forgotten :
           /\ Len(r.records[g]) <= 1
           /\ g \notin Chat /\ r.records[g] # << >> => r.evidence[g] = Settled \/ IsRetired(r, g)
        BY DEF OperationsFit
  <1>6. o \notin s.forgotten => Len(s.records[o]) <= 1 /\ IsRetired(s, o)
    <2> SUFFICES ASSUME o \notin s.forgotten PROVE Len(s.records[o]) <= 1 /\ IsRetired(s, o)
        OBVIOUS
    <2>1. /\ Len(r.records[o]) <= 1 /\ IsRetired(s, o)
          /\ o \notin Chat /\ r.records[o] # << >> => r.evidence[o] = Settled
          BY <1>2, <1>3, <1>4, <1>5
    <2>2. Len(s.records[o]) <= 1
          BY <1>1, <1>2, <2>1, LeftOnce
    <2> QED
          BY <2>1, <2>2
  <1>7. ASSUME NEW g \in Forward \ {o}, g \notin s.forgotten
        PROVE  /\ Len(s.records[g]) <= 1
               /\ g \notin Chat /\ s.records[g] # << >> => s.evidence[g] = Settled \/ IsRetired(s, g)
    <2>1. Kept(r, s, g)
          BY <1>1
    <2> QED
          BY <1>3, <1>5, <1>7, <2>1 DEF Kept
  <1> QED
        BY <1>6, <1>7 DEF OperationsFit

(* While the run lasts, only whole exchanges are presented as whole.          *)
Entire(op) ==
    op.status = "correlated" =>
       /\ "request" \in op.halves
       /\ {"response", "transport"} \subseteq op.halves \/ "failure" \in op.halves

HonestRecords(r) == \A f \in Forward : \A op \in Elements(r.records[f]) : Entire(op)

(* What is recorded of a forward that is ready, or marked, is honest.         *)
LEMMA TellsEntire ==
  ASSUME NEW r \in Recorders, NEW s, NEW g \in Forward, NEW e \in SUBSET Evidence,
         NEW limit \in BOOLEAN, NEW reply \in Reply, Tells(r, s, g, e, limit, reply),
         limit \/ Ready(e) \/ "request" \notin e, \A op \in Elements(r.records[g]) : Entire(op)
  PROVE  \A op \in Elements(s.records[g]) : Entire(op)
PROOF
  <1>1. AddsTo(r, s, g, e, limit, reply)
        BY TellsMore
  <1>2. Elements(Operations(e, limit, reply))
           = (IF Acknowledged(e, reply) THEN {Whole(e, limit)} ELSE {})
                \cup (IF FallsBack(e, reply) THEN {Bare} ELSE {})
        BY OperationsTell
  <1>3. Entire(Bare)
        BY DEF Entire, Bare
  <1>4. Acknowledged(e, reply) => Entire(Whole(e, limit))
        BY DEF Acknowledged, Entire, Whole, Ready, Half
  <1> QED
        BY <1>1, <1>2, <1>3, <1>4 DEF AddsTo

(* One event presents nothing else.                                           *)
LEMMA HandledHonestly ==
  ASSUME NEW r, NEW s, NEW f \in Forward, NEW e \in Carried, Fits(r), HonestRecords(r),
         Handled(r, s, f, e)
  PROVE  HonestRecords(s)
PROOF
  <1>1. PICK S \in SUBSET (r.held \ {f}), own \in Answers, evicted \in Answers :
           /\ \A g \in S : Left(r, s, g, TRUE, evicted)
           /\ \A g \in Forward \ (S \cup {f}) : Kept(r, s, g)
           /\ Own(r, s, f, e, own)
        BY DEF Handled
  <1>2. own \in Reply /\ evicted \in Reply
        BY RecorderAssumption DEF Reply, Answers
  <1>3. /\ r \in Recorders /\ r.held \subseteq Forward /\ e \in SUBSET Evidence
        BY DEF Fits, Recorders, Carried, Owable, Dispatchable, Storable, Evidence, Half, Context
  <1>4. ASSUME NEW g \in S
        PROVE  \A op \in Elements(s.records[g]) : Entire(op)
    <2> DEFINE d == r.evidence[g]
    <2>1. g \in Forward /\ Left(r, s, g, TRUE, evicted) /\ (\A op \in Elements(r.records[g]) : Entire(op))
          BY <1>1, <1>3 DEF HonestRecords
    <2>2. CASE d = Settled
          BY <2>1, <2>2 DEF Left
    <2>3. CASE d # Settled
      <3>1. d \in SUBSET Evidence /\ Tells(r, s, g, d, TRUE, evicted)
            BY <1>3, <2>1, <2>3 DEF Left, Recorders
      <3> HIDE DEF d
      <3> QED
            BY <1>2, <1>3, <2>1, <3>1, TellsEntire
    <2> QED
          BY <2>2, <2>3
  <1>5. \A op \in Elements(s.records[f]) : Entire(op)
    <2>1. \A op \in Elements(r.records[f]) : Entire(op)
          BY DEF HonestRecords
    <2>2. CASE e = {"transport"} /\ Tells(r, s, f, e, FALSE, own)
      <3>1. "request" \notin e
            BY <2>2
      <3> QED
            BY <1>2, <1>3, <2>1, <2>2, <3>1, TellsEntire
    <2>3. CASE s.records[f] = r.records[f]
          BY <2>1, <2>3
    <2>4. CASE Joins(r, s, f, e, own)
      <3> DEFINE j == r.evidence[f] \cup e
      <3>1. /\ Ready(j) => Tells(r, s, f, j, FALSE, own)
            /\ ~Ready(j) => s.records[f] = r.records[f]
            BY <2>4 DEF Joins
      <3>2. j \in SUBSET Evidence
            BY <1>3, <2>4 DEF Recorders, Joins
      <3> HIDE DEF j
      <3>3. CASE Ready(j)
            BY <1>2, <1>3, <2>1, <3>1, <3>2, <3>3, TellsEntire
      <3> QED
            BY <2>1, <3>1, <3>3
    <2> QED
          BY <1>1, <2>2, <2>3, <2>4 DEF Own, Kept
  <1>6. \A g \in Forward \ (S \cup {f}) : \A op \in Elements(s.records[g]) : Entire(op)
        BY <1>1 DEF Kept, HonestRecords
  <1> QED
        BY <1>4, <1>5, <1>6 DEF HonestRecords


-----------------------------------------------------------------------------
(* The queues                                                                 *)

(* What leaves a queue was in it.                                             *)
Leaves(q, p, f) ==
    LET head == IF Head(q).forward = f THEN {Head(q).evidence} ELSE {}
    IN  /\ Sent(q, f) = Sent(p, f) \cup head
        /\ \A h : Once(q, f, h) => /\ Once(p, f, h)
                                   /\ h \in UNION head => h \notin UNION Sent(p, f)
        /\ TerminalIsLast(q, f) =>
              /\ TerminalIsLast(p, f)
              /\ (UNION head) \cap Terminal # {} =>
                    (UNION Sent(p, f)) \cap (Terminal \cup {"refused"}) = {}

(* Taking the head off a queue leaves the order of the rest.                  *)
LEMMA TailLeaves ==
  ASSUME NEW X, NEW q \in Seq(X), q # << >>
  PROVE  /\ Tail(q) \in Seq(X) /\ Head(q) \in X
         /\ \A f : Leaves(q, Tail(q), f)
PROOF
  <1> DEFINE p == Tail(q)
             n == Len(q)
  <1>1. /\ p \in Seq(X) /\ Head(q) \in X /\ Head(q) = q[1]
        /\ n \in Nat /\ n >= 1 /\ Len(p) = n - 1 /\ DOMAIN q = 1 .. n
        /\ \A i \in 1 .. n - 1 : p[i] = q[i + 1]
        OBVIOUS
  <1>2. DOMAIN p = 1 .. n - 1
        BY <1>1
  <1> HIDE DEF p, n
  <1> SUFFICES ASSUME NEW f PROVE Leaves(q, p, f)
      BY <1>1 DEF p
  <1> DEFINE head == IF Head(q).forward = f THEN {Head(q).evidence} ELSE {}
  <1>3. \A i \in DOMAIN q : i = 1 \/ (i - 1 \in DOMAIN p /\ q[i] = p[i - 1])
        BY <1>1, <1>2
  <1>4. \A i \in DOMAIN p : i + 1 \in DOMAIN q /\ p[i] = q[i + 1] /\ 1 < i + 1 /\ i \in Nat
        BY <1>1, <1>2
  <1>5. 1 \in DOMAIN q /\ q[1] = Head(q)
        BY <1>1
  <1>6. Sent(q, f) = Sent(p, f) \cup head
    <2>1. ASSUME NEW i \in DOMAIN q, q[i].forward = f
          PROVE  q[i].evidence \in Sent(p, f) \cup head
      <3>1. CASE i = 1
            BY <1>5, <2>1, <3>1
      <3>2. CASE i - 1 \in DOMAIN p /\ q[i] = p[i - 1]
            BY <2>1, <3>2 DEF Sent
      <3> QED
            BY <1>3, <3>1, <3>2
    <2>2. ASSUME NEW i \in DOMAIN p, p[i].forward = f
          PROVE  p[i].evidence \in Sent(q, f)
          BY <1>4, <2>2 DEF Sent
    <2>3. head \subseteq Sent(q, f)
          BY <1>5 DEF Sent
    <2> QED
          BY <2>1, <2>2, <2>3 DEF Sent
  <1>7. ASSUME NEW h, Once(q, f, h)
        PROVE  Once(p, f, h) /\ (h \in UNION head => h \notin UNION Sent(p, f))
    <2>1. ASSUME NEW i \in DOMAIN p, NEW j \in DOMAIN p,
                 p[i].forward = f, p[j].forward = f, h \in p[i].evidence \cap p[j].evidence
          PROVE  i = j
      <3>1. /\ i + 1 \in DOMAIN q /\ j + 1 \in DOMAIN q
            /\ p[i] = q[i + 1] /\ p[j] = q[j + 1]
            BY <1>4
      <3>2. i + 1 = j + 1
            BY <1>7, <2>1, <3>1 DEF Once
      <3>3. i \in Nat /\ j \in Nat
            BY <1>4
      <3> QED
            BY <3>2, <3>3
    <2>2. ASSUME NEW i \in DOMAIN p, p[i].forward = f, h \in p[i].evidence, h \in UNION head
          PROVE  FALSE
      <3>1. /\ i + 1 \in DOMAIN q /\ p[i] = q[i + 1] /\ 1 < i + 1 /\ i \in Nat
            BY <1>4
      <3>2. q[1].forward = f /\ h \in q[1].evidence
            BY <1>5, <2>2
      <3>3. 1 = i + 1
            BY <1>5, <1>7, <2>2, <3>1, <3>2 DEF Once
      <3> QED
            BY <3>1, <3>3
    <2> QED
          BY <2>1, <2>2 DEF Once, Sent
  <1>8. ASSUME TerminalIsLast(q, f)
        PROVE  /\ TerminalIsLast(p, f)
               /\ (UNION head) \cap Terminal # {} =>
                     (UNION Sent(p, f)) \cap (Terminal \cup {"refused"}) = {}
    <2>1. ASSUME NEW i \in DOMAIN p, NEW j \in DOMAIN p, i < j,
                 p[i].forward = f, p[j].forward = f, p[i].evidence \cap Terminal # {}
          PROVE  p[j].evidence \cap (Terminal \cup {"refused"}) = {}
      <3>1. /\ i + 1 \in DOMAIN q /\ j + 1 \in DOMAIN q /\ i \in Nat /\ j \in Nat
            /\ p[i] = q[i + 1] /\ p[j] = q[j + 1]
            BY <1>4
      <3>2. i + 1 < j + 1
            BY <2>1, <3>1
      <3> QED
            BY <1>8, <2>1, <3>1, <3>2 DEF TerminalIsLast
    <2>2. ASSUME NEW i \in DOMAIN p, p[i].forward = f, (UNION head) \cap Terminal # {}
          PROVE  p[i].evidence \cap (Terminal \cup {"refused"}) = {}
      <3>1. i + 1 \in DOMAIN q /\ p[i] = q[i + 1] /\ 1 < i + 1
            BY <1>4
      <3>2. q[1].forward = f /\ q[1].evidence \cap Terminal # {}
            BY <1>5, <2>2
      <3> QED
            BY <1>5, <1>8, <2>2, <3>1, <3>2 DEF TerminalIsLast
    <2> QED
          BY <2>1, <2>2 DEF TerminalIsLast, Sent
  <1> QED
        BY <1>6, <1>7, <1>8 DEF Leaves

(* What comes to a queue is behind all that is in it.                         *)
Comes(q, p, x, f) ==
    LET last == IF x.forward = f THEN {x.evidence} ELSE {}
    IN  /\ Sent(p, f) = Sent(q, f) \cup last
        /\ \A h : Once(q, f, h) /\ (h \in UNION last => h \notin UNION Sent(q, f)) => Once(p, f, h)
        /\ /\ TerminalIsLast(q, f)
           /\ (UNION last) \cap (Terminal \cup {"refused"}) # {} =>
                 (UNION Sent(q, f)) \cap Terminal = {}
           => TerminalIsLast(p, f)

(* Appending an event keeps the order of those before it.                     *)
LEMMA AppendComes ==
  ASSUME NEW X, NEW q \in Seq(X), NEW x \in X
  PROVE  /\ Append(q, x) \in Seq(X) /\ \A f : Comes(q, Append(q, x), x, f)
PROOF
  <1> DEFINE p == Append(q, x)
             n == Len(q)
  <1>1. /\ p \in Seq(X) /\ n \in Nat /\ DOMAIN q = 1 .. n /\ Len(p) = n + 1
        /\ \A i \in 1 .. n : p[i] = q[i]
        /\ p[n + 1] = x
        OBVIOUS
  <1>2. DOMAIN p = 1 .. n + 1
        BY <1>1
  <1> HIDE DEF p, n
  <1> SUFFICES ASSUME NEW f PROVE Comes(q, p, x, f)
      BY <1>1 DEF p
  <1> DEFINE last == IF x.forward = f THEN {x.evidence} ELSE {}
  <1>3. \A i \in DOMAIN p : (i \in DOMAIN q /\ p[i] = q[i] /\ i < n + 1) \/ (i = n + 1 /\ p[i] = x)
        BY <1>1, <1>2
  <1>4. \A i \in DOMAIN q : i \in DOMAIN p /\ p[i] = q[i] /\ i < n + 1 /\ i \in Nat
        BY <1>1, <1>2
  <1>5. n + 1 \in DOMAIN p /\ p[n + 1] = x
        BY <1>1, <1>2
  <1>6. Sent(p, f) = Sent(q, f) \cup last
    <2>1. ASSUME NEW i \in DOMAIN p, p[i].forward = f
          PROVE  p[i].evidence \in Sent(q, f) \cup last
          BY <1>3, <2>1 DEF Sent
    <2>2. ASSUME NEW i \in DOMAIN q, q[i].forward = f
          PROVE  q[i].evidence \in Sent(p, f)
          BY <1>4, <2>2 DEF Sent
    <2>3. last \subseteq Sent(p, f)
          BY <1>5 DEF Sent
    <2> QED
          BY <2>1, <2>2, <2>3 DEF Sent
  <1>7. ASSUME NEW h, Once(q, f, h), h \in UNION last => h \notin UNION Sent(q, f)
        PROVE  Once(p, f, h)
    <2> SUFFICES ASSUME NEW i \in DOMAIN p, NEW j \in DOMAIN p,
                        p[i].forward = f, p[j].forward = f, h \in p[i].evidence \cap p[j].evidence
                 PROVE  i = j
        BY DEF Once
    <2>1. \A k \in DOMAIN q : ~(q[k].forward = f /\ h \in q[k].evidence /\ x.forward = f /\ h \in x.evidence)
          BY <1>7 DEF Sent
    <2> QED
          BY <1>3, <1>7, <2>1 DEF Once
  <1>8. ASSUME TerminalIsLast(q, f),
               (UNION last) \cap (Terminal \cup {"refused"}) # {} =>
                  (UNION Sent(q, f)) \cap Terminal = {}
        PROVE  TerminalIsLast(p, f)
    <2> SUFFICES ASSUME NEW i \in DOMAIN p, NEW j \in DOMAIN p, i < j,
                        p[i].forward = f, p[j].forward = f, p[i].evidence \cap Terminal # {}
                 PROVE  p[j].evidence \cap (Terminal \cup {"refused"}) = {}
        BY DEF TerminalIsLast
    <2>0. i \in 1 .. n + 1 /\ j \in 1 .. n + 1 /\ n \in Nat
          BY <1>1, <1>2
    <2>1. i \in DOMAIN q /\ p[i] = q[i]
          BY <1>3, <2>0
    <2>2. CASE j \in DOMAIN q /\ p[j] = q[j]
          BY <1>8, <2>1, <2>2 DEF TerminalIsLast
    <2>3. CASE p[j] = x
      <3>1. (UNION Sent(q, f)) \cap Terminal # {}
            BY <2>1 DEF Sent
      <3>2. x.evidence = UNION last
            BY <2>3
      <3> QED
            BY <1>8, <2>3, <3>1, <3>2
    <2> QED
          BY <1>3, <2>2, <2>3
  <1> QED
        BY <1>6, <1>7, <1>8 DEF Comes


-----------------------------------------------------------------------------
(* The steps of the loop preserve RunInv                                      *)

(* What is on its way is in the queue.                                        *)
LEMMA SentAreIn ==
  ASSUME NEW X, NEW q \in Seq(X), NEW f, NEW d \in Sent(q, f)
  PROVE  \E x \in X : x.forward = f /\ x.evidence = d
PROOF
  <1>1. PICK i \in DOMAIN q : q[i].forward = f /\ q[i].evidence = d
        BY DEF Sent
  <1>2. q[i] \in X
        OBVIOUS
  <1> QED
        BY <1>1, <1>2

(* What the queues hold are events the loop knows.                            *)
LEMMA QueuedAreCarried ==
  ASSUME NEW x \in Dispatched \cup Stored
  PROVE  /\ x.forward \in Forward /\ x.evidence \in Carried /\ Suits(x.forward, x.evidence)
         /\ x \in Dispatched => x.evidence \in Dispatchable
  BY DEF Dispatched, Stored, Carried

(* The records of a forward of another route only change with its metadata.   *)
LEMMA ChatIsKept ==
  ASSUME NEW r, NEW s, Fits(r), NEW f \in Forward, NEW e \in Carried, Suits(f, e),
         Handled(r, s, f, e), NEW g \in Chat, g # f \/ e # {"transport"}
  PROVE  s.records[g] = r.records[g]
PROOF
  <1>1. PICK S \in SUBSET (r.held \ {f}), own \in Answers, evicted \in Answers :
           /\ \A h \in S : Left(r, s, h, TRUE, evicted)
           /\ \A h \in Forward \ (S \cup {f}) : Kept(r, s, h)
           /\ Own(r, s, f, e, own)
        BY DEF Handled
  <1>2. evicted \in Reply
        BY RecorderAssumption DEF Reply, Answers
  <1>3. /\ r \in Recorders /\ r.held \subseteq Forward /\ g \in Forward
        /\ r.evidence[g] \subseteq {"refused"}
        BY RecorderAssumption DEF Fits, Recorders, MemoryFits
  <1>4. CASE g \in S
    <2> DEFINE d == r.evidence[g]
    <2>1. d # Settled /\ d \in SUBSET Evidence
          BY <1>3 DEF Settled, Evidence
    <2>2. Tells(r, s, g, d, TRUE, evicted) /\ d \subseteq {"refused"}
          BY <1>1, <1>3, <1>4, <2>1 DEF Left
    <2> HIDE DEF d
    <2>3. AddsTo(r, s, g, d, TRUE, evicted)
          BY <1>2, <1>3, <2>1, <2>2, TellsMore
    <2> QED
          BY <2>2, <2>3 DEF AddsTo
  <1>5. CASE g = f
    <2>1. "request" \notin r.evidence[g] \cup e
          BY <1>3, <1>5 DEF Suits
    <2> QED
          BY <1>1, <1>5, <2>1 DEF Own, Joins, Ready, Kept
  <1>6. CASE g \notin S \cup {f}
        BY <1>1, <1>3, <1>6 DEF Kept
  <1> QED
        BY <1>4, <1>5, <1>6

(* An event of the dispatcher is handled.                                     *)
LEMMA HandleDispatchedRuns ==
  ASSUME RunInv, HandleDispatched
  PROVE  RunInv'
PROOF
  <1> DEFINE x == Head(dispatch)
             f == x.forward
             e == x.evidence
  <1>1. /\ FlowTypes /\ PhaseFits /\ Fits(recorder) /\ LooseAreQueued
        /\ \A g \in Forward : ChatFits(g)
        BY DEF RunInv, Fits, FlowTypes
  <1>2. /\ dispatch # << >> /\ dispatch' = Tail(dispatch) /\ Handle(f, e)
        /\ UNCHANGED <<stage, owed, tickets, durable, phase, accepted>>
        BY DEF HandleDispatched
  <1>3. dispatch \in Seq(Dispatched)
        BY <1>1 DEF FlowTypes
  <1>4. /\ dispatch' \in Seq(Dispatched) /\ x \in Dispatched
        /\ \A g : Leaves(dispatch, dispatch', g)
        BY <1>2, <1>3, TailLeaves
  <1> HIDE DEF x
  <1>5. f \in Forward /\ e \in Carried /\ Suits(f, e) /\ e \in Dispatchable
        BY <1>4, QueuedAreCarried
  <1> HIDE DEF f, e
  <1>6. Handled(recorder, recorder', f, e)
        BY <1>1, <1>2, <1>5, EventIsHandled
  <1>7. Fits(recorder') /\ Loose(recorder') \subseteq Loose(recorder)
        BY <1>6 DEF Handled
  <1>8. FlowTypes'
        BY <1>1, <1>2, <1>4, <1>7 DEF FlowTypes, Fits
  <1>9. PhaseFits'
        BY <1>1, <1>2 DEF PhaseFits, FlowTypes
  <1>10. LooseAreQueued'
        BY <1>1, <1>2, <1>7 DEF LooseAreQueued, Sent
  <1>11. ASSUME NEW g \in Forward PROVE ChatFits(g)'
    <2> SUFFICES ASSUME g \in Chat
                 PROVE  /\ Once(dispatch', g, "transport")
                        /\ stage'[g] # "done" => Sent(dispatch', g) = {} /\ recorder'.records[g] = << >>
                        /\ Sent(dispatch', g) # {} => recorder'.records[g] = << >>
        BY DEF ChatFits, Once, Sent
    <2>1. /\ Once(dispatch, g, "transport")
          /\ stage[g] # "done" => Sent(dispatch, g) = {} /\ recorder.records[g] = << >>
          /\ Sent(dispatch, g) # {} => recorder.records[g] = << >>
          BY <1>1 DEF ChatFits
    <2>2. Leaves(dispatch, dispatch', g)
          BY <1>4
    <2>3. Once(dispatch', g, "transport") /\ Sent(dispatch', g) \subseteq Sent(dispatch, g)
          BY <2>1, <2>2 DEF Leaves
    <2>4. CASE g # f
      <3>1. recorder'.records[g] = recorder.records[g]
            BY <1>1, <1>5, <1>6, <2>4, ChatIsKept
      <3> QED
            BY <1>2, <2>1, <2>3, <3>1
    <2>5. CASE g = f
      <3>1. Sent(dispatch, g) # {}
            BY <2>2, <2>5 DEF Leaves, f, x
      <3>2. e = {"transport"}
            BY <1>5, <2>5 DEF Suits, Dispatchable
      <3>3. "transport" \notin UNION Sent(dispatch', g)
            BY <2>1, <2>2, <2>5, <3>2 DEF Leaves, f, e, x
      <3>4. \A d \in Sent(dispatch', g) : d = {"transport"}
        <4> SUFFICES ASSUME NEW d \in Sent(dispatch', g) PROVE d = {"transport"}
            OBVIOUS
        <4>1. PICK y \in Dispatched : y.forward = g /\ y.evidence = d
              BY <1>4, SentAreIn
        <4> QED
              BY <4>1 DEF Dispatched, Suits, Dispatchable
      <3>5. Sent(dispatch', g) = {}
            BY <3>3, <3>4
      <3> QED
            BY <1>2, <2>1, <2>3, <3>1, <3>5
    <2> QED
          BY <2>4, <2>5
  <1> QED
        BY <1>7, <1>8, <1>9, <1>10, <1>11 DEF RunInv, Fits

(* An event of the durable queue is handled.                                  *)
LEMMA HandleDurableRuns ==
  ASSUME RunInv, HandleDurable
  PROVE  RunInv'
PROOF
  <1> DEFINE x == Head(durable)
             f == x.forward
             e == x.evidence
  <1>1. /\ FlowTypes /\ PhaseFits /\ Fits(recorder) /\ LooseAreQueued
        /\ \A g \in Forward : ChatFits(g)
        BY DEF RunInv, Fits, FlowTypes
  <1>2. /\ durable # << >> /\ durable' = Tail(durable) /\ Handle(f, e)
        /\ UNCHANGED <<stage, owed, dispatch, tickets, phase, accepted>>
        BY DEF HandleDurable
  <1>3. durable \in Seq(Stored)
        BY <1>1 DEF FlowTypes
  <1>4. /\ durable' \in Seq(Stored) /\ x \in Stored
        /\ \A g : Leaves(durable, durable', g)
        BY <1>2, <1>3, TailLeaves
  <1> HIDE DEF x
  <1>5. f \in Forward /\ e \in Carried /\ Suits(f, e) /\ e \in Storable
        BY <1>4, QueuedAreCarried DEF Stored
  <1> HIDE DEF f, e
  <1>6. Handled(recorder, recorder', f, e)
        BY <1>1, <1>2, <1>5, EventIsHandled
  <1>7. /\ Fits(recorder') /\ Loose(recorder') \subseteq Loose(recorder)
        /\ "request" \in e \/ e \subseteq Context => f \notin Loose(recorder')
        BY <1>6 DEF Handled
  <1>8. FlowTypes'
        BY <1>1, <1>2, <1>4, <1>7 DEF FlowTypes, Fits
  <1>9. PhaseFits'
        BY <1>1, <1>2 DEF PhaseFits, FlowTypes
  <1>10. ASSUME NEW g \in Loose(recorder')
         PROVE  (UNION Sent(durable', g)) \cap Context # {}
    <2>1. (UNION Sent(durable, g)) \cap Context # {}
          BY <1>1, <1>7 DEF LooseAreQueued
    <2>2. Leaves(durable, durable', g)
          BY <1>4
    <2>3. CASE g # f
          BY <2>1, <2>2, <2>3 DEF Leaves, f, x
    <2>4. CASE g = f
      <3>1. e \cap Context = {}
            BY <1>5, <1>7, <2>4 DEF Storable, Owable, Context
      <3>2. Sent(durable, g) = Sent(durable', g) \cup {e}
            BY <2>2, <2>4 DEF Leaves, f, e, x
      <3>3. PICK d \in Sent(durable, g) : d \cap Context # {}
            BY <2>1
      <3> QED
            BY <3>1, <3>2, <3>3
    <2> QED
          BY <2>3, <2>4
  <1>11. ASSUME NEW g \in Forward PROVE ChatFits(g)'
    <2>1. g \in Chat => recorder'.records[g] = recorder.records[g]
      <3>1. e # {"transport"}
            BY <1>5 DEF Storable, Owable
      <3> QED
            BY <1>1, <1>5, <1>6, <3>1, ChatIsKept
    <2>2. ChatFits(g)
          BY <1>1
    <2> QED
          BY <1>2, <2>1, <2>2 DEF ChatFits, Sent, Once
  <1> QED
        BY <1>7, <1>8, <1>9, <1>10, <1>11 DEF RunInv, Fits, LooseAreQueued


-----------------------------------------------------------------------------
(* The steps of the proxy and of the end of the run preserve RunInv           *)

(* A counted degradation changes nothing else.                                *)
LEMMA CountFits ==
  ASSUME NEW r, Fits(r), NEW f \in Forward
  PROVE  LET s == Count(r, f)
         IN  /\ Fits(s) /\ Loose(s) = Loose(r) /\ Memory(s) = Memory(r)
             /\ s.records = r.records /\ s.declined = r.declined /\ s.receipts = r.receipts
             /\ s.counted[f] = r.counted[f] + 1
             /\ \A g \in Forward \ {f} : s.counted[g] = r.counted[g]
PROOF
  <1> DEFINE s == Count(r, f)
  <1>1. /\ s \in Recorders /\ Memory(s) = Memory(r)
        /\ s.counted = [r.counted EXCEPT ![f] = @ + 1]
        /\ s.records = r.records /\ s.declined = r.declined
        /\ s.seen = r.seen /\ s.dropped = r.dropped /\ s.ingested = r.ingested
        /\ s.jobs = r.jobs /\ s.receipts = r.receipts
        BY CountChanges DEF Fits
  <1> HIDE DEF s
  <1>2. Fits(s) /\ Loose(s) = Loose(r)
        BY <1>1 DEF Fits, MemoryFits, OutcomesFit, Loose, Memory
  <1>3. r.counted \in [Forward -> Nat]
        BY DEF Fits, Recorders
  <1> QED
        BY <1>1, <1>2, <1>3 DEF s

(* An event that is offered to the durable queue is in it or not taken.       *)
Grows(q, p) == p \in Seq(Stored) /\ \A g : Sent(q, g) \subseteq Sent(p, g)

(* Offering an event to the durable queue takes nothing off it.               *)
LEMMA TrySendGrows ==
  ASSUME NEW f \in Forward, NEW e, Has(f, e) \in Stored, TrySend(f, e), durable \in Seq(Stored),
         accepted \in [Forward -> SUBSET Half]
  PROVE  /\ Grows(durable, durable') /\ accepted' \in [Forward -> SUBSET Half]
         /\ HasRoom => e \in Sent(durable', f)
PROOF
  <1>1. CASE HasRoom
    <2>1. /\ durable' = Append(durable, Has(f, e))
          /\ accepted' = [accepted EXCEPT ![f] = @ \cup (e \cap Half)]
          BY <1>1 DEF TrySend, Take
    <2>2. /\ durable' \in Seq(Stored)
          /\ \A g : Comes(durable, durable', Has(f, e), g)
          BY <2>1, AppendComes
    <2>3. Has(f, e).forward = f /\ Has(f, e).evidence = e
          BY DEF Has
    <2>4. \A g : Sent(durable, g) \subseteq Sent(durable', g)
          BY <2>2 DEF Comes
    <2>5. e \in Sent(durable', f)
          BY <2>2, <2>3 DEF Comes
    <2>6. accepted' \in [Forward -> SUBSET Half]
          BY <2>1
    <2> QED
          BY <2>2, <2>4, <2>5, <2>6 DEF Grows
  <1>2. CASE ~HasRoom
        BY <1>2 DEF TrySend, Grows
  <1> QED
        BY <1>1, <1>2

(* Loose analyses stay queued when the queue only grows.                      *)
LEMMA LooseStayQueued ==
  ASSUME LooseAreQueued, Grows(durable, durable'), Loose(recorder') \subseteq Loose(recorder)
  PROVE  LooseAreQueued'
PROOF
  <1> SUFFICES ASSUME NEW g \in Loose(recorder')
               PROVE  (UNION Sent(durable', g)) \cap Context # {}
      BY DEF LooseAreQueued, Sent
  <1>1. (UNION Sent(durable, g)) \cap Context # {}
        BY DEF LooseAreQueued
  <1>2. PICK d \in Sent(durable, g) : d \cap Context # {}
        BY <1>1
  <1>3. d \in Sent(durable', g)
        BY DEF Grows
  <1> QED
        BY <1>2, <1>3

(* The facts of RunInv the steps below use.                                   *)
LEMMA RunFacts ==
  ASSUME RunInv
  PROVE  /\ FlowTypes /\ PhaseFits /\ Fits(recorder) /\ LooseAreQueued
         /\ \A g \in Forward : ChatFits(g)
  BY DEF RunInv, Fits, FlowTypes

(* A body is read.                                                            *)
LEMMA SendRuns ==
  ASSUME RunInv, NEW f \in Forward, Send(f)
  PROVE  RunInv'
PROOF
  <1>1. /\ FlowTypes /\ PhaseFits /\ Fits(recorder) /\ LooseAreQueued
        /\ \A g \in Forward : ChatFits(g)
        BY RunFacts
  <1>2. /\ phase = "running" /\ stage[f] = "new" /\ stage' = [stage EXCEPT ![f] = "sent"]
        /\ UNCHANGED <<dispatch, tickets, durable, recorder, phase, accepted>>
        BY DEF Send
  <1>3. /\ owed' \in [Forward -> SUBSET Owable]
        /\ \A g \in Forward : \A e \in owed'[g] : Suits(g, e)
    <2>1. CASE f \in Chat
      <3>1. owed' = owed
            BY <2>1 DEF Send
      <3> QED
            BY <1>1, <3>1 DEF FlowTypes
    <2>2. CASE f \notin Chat
      <3>1. PICK pending :
               /\ owed' = [owed EXCEPT ![f] = pending]
               /\ pending \in (IF AnalysisEnabled
                               THEN {{{"request", "shed"}},
                                     {{"request"}, IF f \in Undecodable THEN {"shed"} ELSE {"analysis"}}}
                               ELSE {{{"request"}}})
            BY <2>2 DEF Send
      <3>2. pending \in SUBSET Owable /\ \A e \in pending : Suits(f, e)
        <4>1. CASE AnalysisEnabled
              BY <2>2, <3>1, <4>1 DEF Owable, Suits
        <4>2. CASE ~AnalysisEnabled
          <5>1. pending = {{"request"}}
                BY <3>1, <4>2
          <5>2. {"request"} \cap Context = {}
                BY DEF Context
          <5> QED
                BY <2>2, <5>1, <5>2 DEF Owable, Suits
        <4> QED
              BY <4>1, <4>2
      <3> QED
            BY <1>1, <3>1, <3>2 DEF FlowTypes
    <2> QED
          BY <2>1, <2>2
  <1>4. stage' \in [Forward -> {"new", "sent", "done"}]
        BY <1>1, <1>2 DEF FlowTypes
  <1>5. FlowTypes'
        BY <1>1, <1>2, <1>3, <1>4 DEF FlowTypes
  <1>6. PhaseFits'
        BY <1>2 DEF PhaseFits
  <1>7. LooseAreQueued'
        BY <1>1, <1>2 DEF LooseAreQueued, Sent
  <1>8. ASSUME NEW g \in Forward PROVE ChatFits(g)'
    <2>1. ChatFits(g) /\ (stage[g] = "done" <=> stage'[g] = "done")
          BY <1>1, <1>2 DEF FlowTypes
    <2> QED
          BY <1>2, <2>1 DEF ChatFits, Sent, Once
  <1> QED
        BY <1>1, <1>2, <1>5, <1>6, <1>7, <1>8 DEF RunInv, Fits

(* The upstream answers.                                                      *)
LEMMA AnswerRuns ==
  ASSUME RunInv, NEW f \in Forward, Answer(f)
  PROVE  RunInv'
PROOF
  <1>1. /\ FlowTypes /\ PhaseFits /\ Fits(recorder) /\ LooseAreQueued
        /\ \A g \in Forward : ChatFits(g)
        BY RunFacts
  <1>2. /\ stage[f] = "sent" /\ stage' = [stage EXCEPT ![f] = "done"] /\ phase' = phase
        /\ owed' = [owed EXCEPT ![f] = @ \cup (IF f \in Chat \cup Unread THEN {} ELSE {{"response"}})]
        /\ OfferTransport(f)
        BY DEF Answer
  <1>3. phase' = "running"
        BY <1>1, <1>2 DEF PhaseFits, FlowTypes
  <1>4. /\ stage' \in [Forward -> {"new", "sent", "done"}]
        /\ owed' \in [Forward -> SUBSET Owable]
        /\ \A g \in Forward : \A e \in owed'[g] : Suits(g, e)
    <2>1. {"response"} \in Owable /\ (f \notin Chat => Suits(f, {"response"}))
          BY DEF Owable, Suits, Context
    <2> QED
          BY <1>1, <1>2, <2>1 DEF FlowTypes
  <1>5. /\ Has(f, {"transport"}) \in Dispatched /\ Has(f, {"refused"}) \in Stored
        /\ Has(f, {"transport"}).forward = f /\ Has(f, {"transport"}).evidence = {"transport"}
        BY DEF Has, Dispatched, Stored, Dispatchable, Storable, Suits, Context
  <1>6. \A g \in Forward \ {f} : stage'[g] = stage[g]
        BY <1>1, <1>2 DEF FlowTypes
  <1>7. PhaseFits'
        BY <1>3 DEF PhaseFits
  <1>8. CASE AdmitsTransport
    <2>1. /\ tickets' = tickets \cup {f} /\ dispatch' = Append(dispatch, Has(f, {"transport"}))
          /\ accepted' = [accepted EXCEPT ![f] = @ \cup ({"transport"} \cap Half)]
          /\ durable' = durable /\ recorder' = recorder
          BY <1>2, <1>8 DEF OfferTransport, Take
    <2>2. /\ dispatch' \in Seq(Dispatched)
          /\ \A g : Comes(dispatch, dispatch', Has(f, {"transport"}), g)
      <3>1. dispatch \in Seq(Dispatched)
            BY <1>1 DEF FlowTypes
      <3> QED
            BY <1>5, <2>1, <3>1, AppendComes
    <2>3. accepted' \in [Forward -> SUBSET Half]
          BY <1>1, <2>1 DEF FlowTypes
    <2>4. FlowTypes'
          BY <1>1, <1>3, <1>4, <2>1, <2>2, <2>3 DEF FlowTypes
    <2>5. LooseAreQueued'
          BY <1>1, <2>1 DEF LooseAreQueued, Sent
    <2>6. ASSUME NEW g \in Forward PROVE ChatFits(g)'
      <3>1. ChatFits(g) /\ Comes(dispatch, dispatch', Has(f, {"transport"}), g)
            BY <1>1, <2>2
      <3>2. CASE g # f
        <4>1. /\ Sent(dispatch', g) = Sent(dispatch, g)
              /\ Once(dispatch, g, "transport") => Once(dispatch', g, "transport")
              BY <1>5, <3>1, <3>2 DEF Comes
        <4>2. stage'[g] = stage[g] /\ recorder' = recorder
              BY <1>6, <2>1, <3>2
        <4> QED
              BY <3>1, <4>1, <4>2 DEF ChatFits, Sent, Once
      <3>3. CASE g = f
        <4>1. f \in Chat => /\ Once(dispatch, f, "transport") /\ Sent(dispatch, f) = {}
                            /\ recorder'.records[f] = << >>
              BY <1>2, <2>1, <3>1, <3>3 DEF ChatFits
        <4>2. f \in Chat => Once(dispatch', f, "transport")
              BY <3>1, <3>3, <4>1 DEF Comes
        <4>3. stage'[f] = "done"
              BY <1>1, <1>2 DEF FlowTypes
        <4> QED
              BY <3>3, <4>1, <4>2, <4>3 DEF ChatFits, Sent, Once
      <3> QED
            BY <3>2, <3>3
    <2> QED
          BY <1>1, <1>7, <2>1, <2>4, <2>5, <2>6 DEF RunInv, Fits
  <1>9. CASE ~AdmitsTransport
    <2>1. /\ recorder' = Count(recorder, f) /\ TrySend(f, {"refused"})
          /\ tickets' = tickets /\ dispatch' = dispatch
          BY <1>2, <1>9 DEF OfferTransport
    <2>2. /\ Fits(recorder') /\ Loose(recorder') = Loose(recorder)
          /\ recorder'.records = recorder.records
          BY <1>1, <2>1, CountFits
    <2>3. Grows(durable, durable') /\ accepted' \in [Forward -> SUBSET Half]
      <3>1. durable \in Seq(Stored) /\ accepted \in [Forward -> SUBSET Half]
            BY <1>1 DEF FlowTypes
      <3> QED
            BY <1>5, <2>1, <3>1, TrySendGrows
    <2>4. FlowTypes'
          BY <1>1, <1>3, <1>4, <2>1, <2>2, <2>3 DEF FlowTypes, Fits, Grows
    <2>5. LooseAreQueued'
          BY <1>1, <2>2, <2>3, LooseStayQueued
    <2>6. ASSUME NEW g \in Forward PROVE ChatFits(g)'
      <3>1. ChatFits(g) /\ (stage'[g] # "done" => stage[g] # "done")
            BY <1>1, <1>2 DEF FlowTypes
      <3> QED
            BY <2>1, <2>2, <3>1 DEF ChatFits, Sent, Once
    <2> QED
          BY <1>7, <2>2, <2>4, <2>5, <2>6 DEF RunInv, Fits
  <1> QED
        BY <1>8, <1>9


(* A task that still has an event to deliver keeps the run going.             *)
LEMMA DeliveryFacts ==
  ASSUME RunInv, NEW f \in Forward, NEW e, Deliver(f, e)
  PROVE  /\ phase = "running" /\ e \in Owable /\ Suits(f, e)
         /\ owed' \in [Forward -> SUBSET Owable]
         /\ \A g \in Forward : owed'[g] \subseteq owed[g]
         /\ e # {"response"} => Has(f, e) \in Stored
PROOF
  <1>1. FlowTypes /\ PhaseFits
        BY RunFacts
  <1>2. e \in owed[f] /\ owed' = [owed EXCEPT ![f] = @ \ {e}]
        BY DEF Deliver
  <1>3. e \in Owable /\ Suits(f, e)
        BY <1>1, <1>2 DEF FlowTypes
  <1>4. phase = "running"
        BY <1>1, <1>2 DEF PhaseFits, FlowTypes
  <1>5. owed' \in [Forward -> SUBSET Owable] /\ \A g \in Forward : owed'[g] \subseteq owed[g]
        BY <1>1, <1>2 DEF FlowTypes
  <1>6. e # {"response"} => Has(f, e) \in Stored
        BY <1>3 DEF Stored, Storable, Has
  <1> QED
        BY <1>3, <1>4, <1>5, <1>6

(* Nothing is recorded and no metadata is sent by the other steps of a task.  *)
LEMMA ChatStaysFit ==
  ASSUME \A g \in Forward : ChatFits(g), dispatch' = dispatch \/ \A g \in Chat : Sent(dispatch', g) = Sent(dispatch, g),
         \A g \in Forward : Once(dispatch, g, "transport") => Once(dispatch', g, "transport"),
         \A g \in Forward : stage'[g] # "done" => stage[g] # "done",
         recorder'.records = recorder.records
  PROVE  \A g \in Forward : ChatFits(g)'
PROOF
  <1> SUFFICES ASSUME NEW g \in Forward, g \in Chat PROVE ChatFits(g)'
      BY DEF ChatFits
  <1>1. ChatFits(g) /\ Sent(dispatch', g) = Sent(dispatch, g)
        BY DEF Sent
  <1>2. /\ Once(dispatch', g, "transport")
        /\ stage'[g] # "done" => Sent(dispatch', g) = {} /\ recorder'.records[g] = << >>
        /\ Sent(dispatch', g) # {} => recorder'.records[g] = << >>
        BY <1>1 DEF ChatFits
  <1> QED
        BY <1>2 DEF ChatFits, Sent, Once

(* An exchange ends without an answer.                                        *)
LEMMA LeaveRuns ==
  ASSUME RunInv, NEW f \in Forward, Fail(f) \/ Cancel(f)
  PROVE  RunInv'
PROOF
  <1>1. /\ FlowTypes /\ PhaseFits /\ Fits(recorder) /\ LooseAreQueued
        /\ \A g \in Forward : ChatFits(g)
        BY RunFacts
  <1>2. /\ stage[f] = "sent" /\ stage' = [stage EXCEPT ![f] = "done"]
        /\ UNCHANGED <<dispatch, tickets, durable, recorder, phase, accepted>>
        BY DEF Fail, Cancel
  <1>3. phase = "running"
        BY <1>1, <1>2 DEF PhaseFits, FlowTypes
  <1>4. /\ owed' \in [Forward -> SUBSET Owable]
        /\ \A g \in Forward : \A e \in owed'[g] : Suits(g, e)
    <2>1. CASE Fail(f)
      <3>1. {"failure"} \in Owable /\ (f \notin Chat => Suits(f, {"failure"}))
            BY DEF Owable, Suits, Context
      <3> QED
            BY <1>1, <2>1, <3>1 DEF FlowTypes, Fail
    <2>2. CASE Cancel(f)
          BY <1>1, <2>2 DEF FlowTypes, Cancel
    <2> QED
          BY <2>1, <2>2
  <1>5. /\ stage' \in [Forward -> {"new", "sent", "done"}]
        /\ \A g \in Forward : stage'[g] # "done" => stage[g] # "done"
        BY <1>1, <1>2 DEF FlowTypes
  <1>6. FlowTypes'
        BY <1>1, <1>2, <1>4, <1>5 DEF FlowTypes
  <1>7. PhaseFits'
        BY <1>2, <1>3 DEF PhaseFits
  <1>8. LooseAreQueued'
        BY <1>1, <1>2 DEF LooseAreQueued, Sent
  <1>9. \A g \in Forward : ChatFits(g)'
        BY <1>1, <1>2, <1>5, ChatStaysFit
  <1> QED
        BY <1>1, <1>2, <1>6, <1>7, <1>8, <1>9 DEF RunInv, Fits

(* A task delivers a request half, an analysis or a failure.                  *)
LEMMA DeliverRuns ==
  ASSUME RunInv, NEW f \in Forward, NEW e, DeliverRequest(f, e) \/ DeliverAnalysis(f, e)
                                           \/ (DeliverFailure(f) /\ e = {"failure"})
  PROVE  RunInv'
PROOF
  <1>1. /\ FlowTypes /\ PhaseFits /\ Fits(recorder) /\ LooseAreQueued
        /\ \A g \in Forward : ChatFits(g)
        BY RunFacts
  <1>2. /\ Deliver(f, e) /\ TrySend(f, e) /\ e # {"response"}
        /\ tickets' \subseteq tickets /\ UNCHANGED <<stage, dispatch, phase>>
        BY DEF DeliverRequest, DeliverAnalysis, DeliverFailure, CarriesRequest, CarriesContext, Context
  <1>3. /\ phase = "running" /\ e \in Owable /\ Suits(f, e) /\ Has(f, e) \in Stored
        /\ owed' \in [Forward -> SUBSET Owable]
        /\ \A g \in Forward : owed'[g] \subseteq owed[g]
        BY <1>2, DeliveryFacts
  <1>4. /\ Grows(durable, durable') /\ accepted' \in [Forward -> SUBSET Half]
        /\ HasRoom => e \in Sent(durable', f)
    <2>1. durable \in Seq(Stored) /\ accepted \in [Forward -> SUBSET Half]
          BY <1>1 DEF FlowTypes
    <2> QED
          BY <1>2, <1>3, <2>1, TrySendGrows
  <1>5. CASE recorder' = recorder
    <2>1. FlowTypes'
          BY <1>1, <1>2, <1>3, <1>4, <1>5 DEF FlowTypes, Grows
    <2>2. LooseAreQueued'
          BY <1>1, <1>4, <1>5, LooseStayQueued
    <2>3. \A g \in Forward : ChatFits(g)'
          BY <1>1, <1>2, <1>5, ChatStaysFit
    <2>4. PhaseFits'
          BY <1>2, <1>3 DEF PhaseFits
    <2> QED
          BY <1>1, <1>5, <2>1, <2>2, <2>3, <2>4 DEF RunInv, Fits
  <1>6. CASE DeliverAnalysis(f, e)
    <2> DEFINE w == See(recorder, f)
    <2>1. CarriesContext(e) /\ recorder' = IF HasRoom THEN w ELSE Drop(w, {f})
          BY <1>6 DEF DeliverAnalysis
    <2>2. e \cap Context # {}
          BY <1>3, <2>1 DEF CarriesContext, Owable, Context
    <2>3. /\ Fits(w) /\ Memory(w) = Memory(recorder) /\ Account(w) = Account(recorder)
          /\ Loose(w) \subseteq Loose(recorder) \cup {f}
          BY <1>1, SightFits
    <2> HIDE DEF w
    <2>4. /\ Fits(recorder') /\ Account(recorder') = Account(recorder)
          /\ Loose(recorder') \subseteq Loose(recorder) \cup {f}
          /\ ~HasRoom => f \notin Loose(recorder')
      <3>1. Drops(w, Drop(w, {f}), {f})
            BY <2>3, DropFits
      <3> QED
            BY <2>1, <2>3, <3>1 DEF Drops
    <2>5. FlowTypes'
          BY <1>1, <1>2, <1>3, <1>4, <2>4 DEF FlowTypes, Grows, Fits
    <2>6. LooseAreQueued'
      <3> SUFFICES ASSUME NEW g \in Loose(recorder')
                   PROVE  (UNION Sent(durable', g)) \cap Context # {}
          BY DEF LooseAreQueued, Sent
      <3>1. CASE g \in Loose(recorder)
        <4>1. PICK d \in Sent(durable, g) : d \cap Context # {}
              BY <1>1, <3>1 DEF LooseAreQueued
        <4>2. d \in Sent(durable', g)
              BY <1>4 DEF Grows
        <4> QED
              BY <4>1, <4>2
      <3>2. CASE g = f
        <4>1. e \in Sent(durable', f)
              BY <1>4, <2>4, <3>2
        <4> QED
              BY <2>2, <3>2, <4>1
      <3> QED
            BY <2>4, <3>1, <3>2
    <2>7. recorder'.records = recorder.records
          BY <2>4 DEF Account
    <2>8. \A g \in Forward : ChatFits(g)'
          BY <1>1, <1>2, <2>7, ChatStaysFit
    <2>9. PhaseFits'
          BY <1>2, <1>3 DEF PhaseFits
    <2> QED
          BY <2>4, <2>5, <2>6, <2>8, <2>9 DEF RunInv, Fits
  <1> QED
        BY <1>5, <1>6 DEF DeliverRequest, DeliverFailure


(* What is offered to a queue with limited room is taken as far as it fits.   *)
LEMMA OfferedFits ==
  ASSUME NEW X, NEW q \in Seq(X), NEW a \in X, NEW b \in X, NEW n \in Int
  PROVE  LET room == IF n < 2 THEN n ELSE 2
             p == q \o SubSeq(<<a, b>>, 1, room)
         IN  \/ room # 2 /\ (p = q \/ p = Append(q, a))
             \/ room = 2 /\ p = Append(Append(q, a), b)
PROOF
  <1>1. CASE n <= 0
    <2>1. SubSeq(<<a, b>>, 1, n) = << >>
          BY <1>1
    <2>2. q \o << >> = q
          OBVIOUS
    <2> QED
          BY <1>1, <2>1, <2>2
  <1>2. CASE n = 1
    <2>1. SubSeq(<<a, b>>, 1, 1) = <<a>>
      <3>1. /\ <<a, b>> \in Seq(X) /\ Len(<<a, b>>) = 2 /\ <<a, b>>[1] = a
            /\ <<a>> \in Seq(X) /\ Len(<<a>>) = 1 /\ <<a>>[1] = a
            OBVIOUS
      <3> DEFINE p == SubSeq(<<a, b>>, 1, 1)
      <3>2. p \in Seq(X) /\ Len(p) = 1 /\ p[1] = a
            BY <3>1, SubSeqProperties
      <3> HIDE DEF p
      <3>3. \A i \in 1 .. Len(p) : p[i] = <<a>>[i]
            BY <3>1, <3>2
      <3> QED
            BY <3>1, <3>2, <3>3, SeqEqual DEF p
    <2>2. q \o <<a>> = Append(q, a)
          OBVIOUS
    <2> QED
          BY <1>2, <2>1, <2>2
  <1>3. CASE n >= 2
    <2>1. SubSeq(<<a, b>>, 1, 2) = <<a, b>>
      <3>1. /\ <<a, b>> \in Seq(X) /\ Len(<<a, b>>) = 2 /\ <<a, b>>[1] = a /\ <<a, b>>[2] = b
            OBVIOUS
      <3> DEFINE p == SubSeq(<<a, b>>, 1, 2)
      <3>2. p \in Seq(X) /\ Len(p) = 2 /\ p[1] = a /\ p[2] = b
            BY <3>1, SubSeqProperties
      <3> HIDE DEF p
      <3>3. \A i \in 1 .. Len(p) : p[i] = <<a, b>>[i]
        <4>1. \A i \in 1 .. Len(p) : i = 1 \/ i = 2
              BY <3>2
        <4> QED
              BY <3>1, <3>2, <4>1
      <3> QED
            BY <3>1, <3>2, <3>3, SeqEqual DEF p
    <2>2. q \o <<a, b>> = Append(Append(q, a), b)
          OBVIOUS
    <2> QED
          BY <1>3, <2>1, <2>2
  <1> QED
        BY <1>1, <1>2, <1>3

(* A response is behind the metadata, or degraded on the durable queue.       *)
Degraded(f) == Has(f, {"response", "refused"})

(* The four ways a response half can go.                                      *)
LEMMA ResponseGoes ==
  ASSUME FlowTypes, NEW f \in Forward, DeliverResponse(f)
  PROVE  \/ /\ f \in tickets /\ dispatch' = Append(dispatch, Has(f, {"response"}))
            /\ Take(f, {"response"}) /\ durable' = durable /\ recorder' = recorder
         \/ /\ recorder' = IF f \in tickets THEN Count(recorder, f) ELSE recorder
            /\ dispatch' = dispatch
            /\ \/ accepted' = accepted /\ durable' = durable
               \/ accepted' = accepted /\ durable' = Append(durable, Has(f, {"refused"}))
               \/ /\ Take(f, {"response"})
                  /\ durable' = Append(Append(durable, Has(f, {"refused"})), Degraded(f))
PROOF
  <1>1. CASE f \in tickets /\ Len(dispatch) < InFlight
    <2>1. ~(f \notin tickets \/ Len(dispatch) >= InFlight)
      <3>1. Len(dispatch) \in Nat /\ InFlight \in Nat
            BY RecorderAssumption DEF FlowTypes
      <3> QED
            BY <1>1, <3>1
    <2> QED
          BY <1>1, <2>1 DEF DeliverResponse
  <1>2. CASE f \notin tickets \/ Len(dispatch) >= InFlight
    <2> DEFINE a == Has(f, {"refused"})
               b == Degraded(f)
               n == DurableItems - Len(durable)
               room == IF n < 2 THEN n ELSE 2
    <2>1. /\ recorder' = (IF f \in tickets THEN Count(recorder, f) ELSE recorder)
          /\ dispatch' = dispatch
          /\ durable' = durable \o SubSeq(<<a, b>>, 1, room)
          /\ IF room = 2 THEN Take(f, {"response"}) ELSE accepted' = accepted
      <3>1. ~(f \in tickets /\ Len(dispatch) < InFlight)
        <4>1. Len(dispatch) \in Nat /\ InFlight \in Nat
              BY RecorderAssumption DEF FlowTypes
        <4> QED
              BY <1>2, <4>1
      <3> QED
            BY <3>1 DEF DeliverResponse, Degraded
    <2>2. a \in Stored /\ b \in Stored
      <3>1. f \notin Chat
        <4>1. {"response"} \in owed[f]
              BY DEF DeliverResponse, Deliver
        <4>2. Suits(f, {"response"})
              BY <4>1 DEF FlowTypes
        <4> QED
              BY <4>2 DEF Suits
      <3> QED
            BY <3>1 DEF Stored, Storable, Suits, Degraded, Has, Context
    <2>3. n \in Int /\ durable \in Seq(Stored)
          BY RecorderAssumption DEF FlowTypes
    <2> HIDE DEF a, b, n
    <2>4. \/ room # 2 /\ (durable' = durable \/ durable' = Append(durable, a))
          \/ room = 2 /\ durable' = Append(Append(durable, a), b)
      <3> DEFINE p == durable \o SubSeq(<<a, b>>, 1, room)
      <3>1. \/ room # 2 /\ (p = durable \/ p = Append(durable, a))
            \/ room = 2 /\ p = Append(Append(durable, a), b)
            BY <2>2, <2>3, OfferedFits
      <3> QED
            BY <2>1, <3>1
    <2> HIDE DEF room
    <2> QED
          BY <2>1, <2>4 DEF a, b
  <1> QED
        BY <1>1, <1>2 DEF DeliverResponse

(* A task delivers a response half.                                           *)
LEMMA ResponseRuns ==
  ASSUME RunInv, NEW f \in Forward, DeliverResponse(f)
  PROVE  RunInv'
PROOF
  <1>1. /\ FlowTypes /\ PhaseFits /\ Fits(recorder) /\ LooseAreQueued
        /\ \A g \in Forward : ChatFits(g)
        BY RunFacts
  <1>2. /\ Deliver(f, {"response"}) /\ tickets' = tickets \ {f} /\ UNCHANGED <<stage, phase>>
        BY DEF DeliverResponse
  <1>3. /\ phase = "running" /\ Suits(f, {"response"})
        /\ owed' \in [Forward -> SUBSET Owable] /\ \A g \in Forward : owed'[g] \subseteq owed[g]
        BY <1>2, DeliveryFacts
  <1>4. /\ f \notin Chat
        /\ Has(f, {"response"}) \in Dispatched /\ Has(f, {"refused"}) \in Stored
        /\ Degraded(f) \in Stored /\ Has(f, {"response"}).forward = f
        BY <1>3 DEF Suits, Has, Degraded, Dispatched, Stored, Dispatchable, Storable, Context
  <1>5. PhaseFits'
        BY <1>2, <1>3 DEF PhaseFits
  <1>6. \A g \in Forward : \A e \in owed'[g] : Suits(g, e)
        BY <1>1, <1>3 DEF FlowTypes
  <1>7. Take(f, {"response"}) => accepted' \in [Forward -> SUBSET Half]
        BY <1>1 DEF Take, FlowTypes
  <1>8. CASE /\ dispatch' = Append(dispatch, Has(f, {"response"})) /\ Take(f, {"response"})
             /\ durable' = durable /\ recorder' = recorder
    <2>1. /\ dispatch' \in Seq(Dispatched)
          /\ \A g : Comes(dispatch, dispatch', Has(f, {"response"}), g)
      <3>1. dispatch \in Seq(Dispatched)
            BY <1>1 DEF FlowTypes
      <3> QED
            BY <1>4, <1>8, <3>1, AppendComes
    <2>2. FlowTypes'
          BY <1>1, <1>2, <1>3, <1>6, <1>7, <1>8, <2>1 DEF FlowTypes
    <2>3. LooseAreQueued'
          BY <1>1, <1>8 DEF LooseAreQueued, Sent
    <2>4. \A g \in Chat : /\ Sent(dispatch', g) = Sent(dispatch, g)
                          /\ Once(dispatch, g, "transport") => Once(dispatch', g, "transport")
          BY <1>4, <2>1 DEF Comes
    <2>5. ASSUME NEW g \in Forward PROVE ChatFits(g)'
      <3>1. ChatFits(g)
            BY <1>1
      <3> QED
            BY <1>2, <1>8, <2>4, <3>1 DEF ChatFits, Sent, Once
    <2> QED
          BY <1>1, <1>5, <1>8, <2>2, <2>3, <2>5 DEF RunInv, Fits
  <1>9. CASE /\ recorder' = (IF f \in tickets THEN Count(recorder, f) ELSE recorder)
             /\ dispatch' = dispatch
             /\ \/ accepted' = accepted /\ durable' = durable
                \/ accepted' = accepted /\ durable' = Append(durable, Has(f, {"refused"}))
                \/ /\ Take(f, {"response"})
                   /\ durable' = Append(Append(durable, Has(f, {"refused"})), Degraded(f))
    <2>1. /\ Fits(recorder') /\ Loose(recorder') = Loose(recorder)
          /\ recorder'.records = recorder.records
          BY <1>1, <1>9, CountFits
    <2>2. accepted' \in [Forward -> SUBSET Half]
          BY <1>1, <1>7, <1>9 DEF FlowTypes
    <2>3. durable \in Seq(Stored)
          BY <1>1 DEF FlowTypes
    <2>4. Grows(durable, durable')
      <3> DEFINE p == Append(durable, Has(f, {"refused"}))
      <3>1. p \in Seq(Stored) /\ \A g : Comes(durable, p, Has(f, {"refused"}), g)
            BY <1>4, <2>3, AppendComes
      <3> HIDE DEF p
      <3>2. /\ Append(p, Degraded(f)) \in Seq(Stored)
            /\ \A g : Comes(p, Append(p, Degraded(f)), Degraded(f), g)
            BY <1>4, <3>1, AppendComes
      <3>3. durable' = durable \/ durable' = p \/ durable' = Append(p, Degraded(f))
            BY <1>9 DEF p
      <3>4. Grows(durable, p) /\ Grows(durable, Append(p, Degraded(f)))
            BY <3>1, <3>2 DEF Grows, Comes
      <3> QED
            BY <2>3, <3>3, <3>4 DEF Grows
    <2>5. FlowTypes'
          BY <1>1, <1>2, <1>3, <1>6, <1>9, <2>1, <2>2, <2>4 DEF FlowTypes, Fits, Grows
    <2>6. LooseAreQueued'
          BY <1>1, <2>1, <2>4, LooseStayQueued
    <2>7. \A g \in Forward : ChatFits(g)'
          BY <1>1, <1>2, <1>9, <2>1, ChatStaysFit
    <2> QED
          BY <1>5, <2>1, <2>5, <2>6, <2>7 DEF RunInv, Fits
  <1> QED
        BY <1>1, <1>8, <1>9, ResponseGoes


(* The context worker persists a snapshot: no forward changes.                *)
LEMMA IngestRuns ==
  ASSUME RunInv, Ingest
  PROVE  RunInv' /\ Memory(recorder') = Memory(recorder) /\ Account(recorder') = Account(recorder)
PROOF
  <1>1. /\ FlowTypes /\ PhaseFits /\ Fits(recorder) /\ LooseAreQueued
        /\ \A g \in Forward : ChatFits(g)
        BY RunFacts
  <1>2. PICK f \in recorder.jobs :
           recorder' = [recorder EXCEPT !.jobs = @ \ {f},
                                        !.ingested = @ \cup ({f} \ recorder.dropped)]
        BY DEF Ingest
  <1>3. UNCHANGED <<stage, owed, dispatch, tickets, durable, phase, accepted>>
        BY DEF Ingest
  <1>4. /\ recorder' \in Recorders /\ Memory(recorder') = Memory(recorder)
        /\ Account(recorder') = Account(recorder)
        /\ recorder'.receipts = recorder.receipts /\ recorder'.seen = recorder.seen
        /\ recorder'.dropped = recorder.dropped /\ recorder'.jobs = recorder.jobs \ {f}
        /\ recorder'.ingested = recorder.ingested \cup ({f} \ recorder.dropped)
        BY <1>1, <1>2 DEF Fits, Recorders, Memory, Account
  <1>5. Fits(recorder') /\ Loose(recorder') \subseteq Loose(recorder)
        BY <1>1, <1>4 DEF Fits, MemoryFits, OutcomesFit, Loose, Memory
  <1>6. FlowTypes'
        BY <1>1, <1>3, <1>5 DEF FlowTypes, Fits
  <1>7. PhaseFits'
        BY <1>1, <1>3, <1>4 DEF PhaseFits, Memory
  <1>8. LooseAreQueued'
        BY <1>1, <1>3, <1>5 DEF LooseAreQueued, Sent
  <1>9. \A g \in Forward : ChatFits(g)'
        BY <1>1, <1>3, <1>4, ChatStaysFit DEF Account
  <1> QED
        BY <1>4, <1>5, <1>6, <1>7, <1>8, <1>9 DEF RunInv, Fits

(* The final drain records one forward, the oldest.                           *)
LEMMA DrainForwardRuns ==
  ASSUME RunInv, DrainForward
  PROVE  /\ RunInv'
         /\ \E reply \in Replies :
               LeavesBehind(recorder, recorder', Oldest(recorder.held), FALSE, reply)
         /\ Oldest(recorder.held) \in recorder.held
PROOF
  <1>1. /\ FlowTypes /\ PhaseFits /\ Fits(recorder) /\ LooseAreQueued
        /\ \A g \in Forward : ChatFits(g)
        BY RunFacts
  <1>2. /\ phase = "draining" /\ recorder.held # {}
        /\ UNCHANGED <<stage, owed, dispatch, tickets, durable, phase, accepted>>
        BY DEF DrainForward
  <1> DEFINE o == Oldest(recorder.held)
             e == recorder.evidence[o]
             gone == Without(recorder, o)
  <1>3. PICK reply \in Replies :
           recorder' = IF e = Settled THEN gone
                       ELSE Record(IF "request" \in e THEN gone ELSE Drop(gone, {o}),
                                   o, e, FALSE, reply)
        BY DEF DrainForward, Without
  <1>4. o \in recorder.held
        BY <1>1, <1>2, OldestIsIn DEF Fits, Recorders
  <1> HIDE DEF o
  <1>5. LeavesBehind(recorder, recorder', o, FALSE, reply)
    <2>1. reply \in Reply
          BY RecorderAssumption DEF Reply
    <2> QED
          BY <1>1, <1>3, <1>4, <2>1, DrainLeaves
  <1>6. /\ Fits(recorder') /\ Loose(recorder') \subseteq Loose(recorder)
        /\ recorder'.held = recorder.held \ {o}
        BY <1>5 DEF LeavesBehind
  <1>7. FlowTypes'
        BY <1>1, <1>2, <1>6 DEF FlowTypes, Fits
  <1>8. PhaseFits'
        BY <1>1, <1>2 DEF PhaseFits
  <1>9. LooseAreQueued'
        BY <1>1, <1>2, <1>6 DEF LooseAreQueued, Sent
  <1>10. ASSUME NEW g \in Forward PROVE ChatFits(g)'
    <2>1. Sent(dispatch, g) = {} /\ ChatFits(g)
          BY <1>1, <1>2 DEF PhaseFits, Sent
    <2>2. g \in Chat => recorder'.records[g] = recorder.records[g]
      <3>1. CASE g # o
            BY <1>5, <3>1 DEF LeavesBehind, Kept
      <3>2. CASE g = o /\ g \in Chat
        <4>1. e \subseteq {"refused"} /\ e # Settled /\ e \in SUBSET Evidence
              BY <1>1, <3>2 DEF Fits, MemoryFits, Settled, Evidence
        <4>2. Tells(recorder, recorder', o, e, FALSE, reply)
              BY <1>5, <4>1 DEF LeavesBehind, Left
        <4> HIDE DEF e
        <4>3. AddsTo(recorder, recorder', o, e, FALSE, reply)
          <5>1. reply \in Reply /\ recorder \in Recorders /\ o \in Forward
                BY <1>1, <3>2, RecorderAssumption DEF Reply, Fits
          <5> QED
                BY <4>1, <4>2, <5>1, TellsMore
        <4> QED
              BY <3>2, <4>1, <4>3 DEF AddsTo
      <3> QED
            BY <3>1, <3>2
    <2> QED
          BY <1>2, <2>1, <2>2 DEF ChatFits, Sent, Once
  <1> QED
        BY <1>3, <1>4, <1>5, <1>6, <1>7, <1>8, <1>9, <1>10 DEF RunInv, Fits, o

(* The final drain accounts the receipts and the tombstones that remain.      *)
LEMMA DrainReceiptsRuns ==
  ASSUME RunInv, DrainReceipts
  PROVE  /\ RunInv' /\ Account(recorder') = Account(recorder)
         /\ recorder'.held = recorder.held /\ recorder'.evidence = recorder.evidence
         /\ recorder'.orphans = {} /\ recorder'.forgotten = recorder.forgotten
         /\ recorder'.through = recorder.through /\ recorder'.retired = recorder.retired
PROOF
  <1>1. /\ FlowTypes /\ PhaseFits /\ Fits(recorder) /\ LooseAreQueued
        /\ \A g \in Forward : ChatFits(g)
        BY RunFacts
  <1> DEFINE S == recorder.receipts \cup recorder.orphans
             d == Drop(recorder, S)
  <1>2. /\ phase = "draining" /\ recorder.held = {} /\ phase' = "done"
        /\ recorder' = [d EXCEPT !.receipts = {}, !.orphans = {}]
        /\ UNCHANGED <<stage, owed, dispatch, tickets, durable, accepted>>
        BY DEF DrainReceipts
  <1>3. /\ d \in Recorders /\ Memory(d) = Memory(recorder) /\ Account(d) = Account(recorder)
        /\ d.dropped = recorder.dropped \cup ((S \cap recorder.seen) \ recorder.ingested)
        /\ d.seen = recorder.seen /\ d.ingested = recorder.ingested /\ d.jobs = recorder.jobs
        BY <1>1, DropChanges DEF Fits, Recorders
  <1> HIDE DEF d
  <1>4. /\ recorder' \in Recorders /\ Account(recorder') = Account(d)
        /\ recorder'.held = d.held /\ recorder'.evidence = d.evidence
        /\ recorder'.orphans = {} /\ recorder'.receipts = {}
        /\ recorder'.retired = d.retired /\ recorder'.through = d.through
        /\ recorder'.leavers = d.leavers /\ recorder'.forgotten = d.forgotten
        /\ recorder'.dropped = d.dropped /\ recorder'.seen = d.seen
        /\ recorder'.ingested = d.ingested /\ recorder'.jobs = d.jobs
        BY <1>2, <1>3 DEF Recorders, Account
  <1>5. /\ recorder'.held = recorder.held /\ recorder'.evidence = recorder.evidence
        /\ recorder'.retired = recorder.retired /\ recorder'.through = recorder.through
        /\ recorder'.leavers = recorder.leavers /\ recorder'.forgotten = recorder.forgotten
        BY <1>3, <1>4 DEF Memory
  <1>6. Fits(recorder') /\ Loose(recorder') \subseteq Loose(recorder)
        BY <1>1, <1>3, <1>4, <1>5 DEF Fits, MemoryFits, OutcomesFit, Loose
  <1>7. FlowTypes'
        BY <1>1, <1>2, <1>6 DEF FlowTypes, Fits
  <1>8. PhaseFits'
        BY <1>1, <1>2, <1>4, <1>5 DEF PhaseFits
  <1>9. LooseAreQueued'
        BY <1>1, <1>2, <1>6 DEF LooseAreQueued, Sent
  <1>10. Account(recorder') = Account(recorder)
        BY <1>3, <1>4
  <1>11. \A g \in Forward : ChatFits(g)'
        BY <1>1, <1>2, <1>10, ChatStaysFit DEF Account
  <1> QED
        BY <1>4, <1>5, <1>6, <1>7, <1>8, <1>9, <1>10, <1>11 DEF RunInv, Fits

(* The run ends when nothing is on the way.                                   *)
LEMMA EndRuns ==
  ASSUME RunInv, EndOfRun
  PROVE  RunInv'
PROOF
  <1>1. /\ FlowTypes /\ PhaseFits /\ Fits(recorder) /\ LooseAreQueued
        /\ \A g \in Forward : ChatFits(g)
        BY RunFacts
  <1>2. /\ phase' = "draining"
        /\ UNCHANGED <<stage, owed, dispatch, tickets, durable, recorder, accepted>>
        BY DEF EndOfRun
  <1>3. FlowTypes'
        BY <1>1, <1>2 DEF FlowTypes
  <1>4. PhaseFits'
        BY <1>2 DEF PhaseFits, EndOfRun
  <1>5. LooseAreQueued'
        BY <1>1, <1>2 DEF LooseAreQueued, Sent
  <1>6. \A g \in Forward : ChatFits(g)'
        BY <1>1, <1>2, ChatStaysFit
  <1> QED
        BY <1>1, <1>2, <1>3, <1>4, <1>5, <1>6 DEF RunInv, Fits

(* The invariant holds when the run starts,                                   *)
LEMMA InitRuns == Init => RunInv
PROOF
  <1> SUFFICES ASSUME Init PROVE RunInv
      OBVIOUS
  <1>1. recorder \in Recorders
    <2>1. << >> \in Seq(Operation)
          OBVIOUS
    <2> QED
          BY <2>1 DEF Init, InitialRecorder, Recorders, Blank
  <1>2. FlowTypes
    <2>1. << >> \in Seq(Dispatched) /\ << >> \in Seq(Stored)
          OBVIOUS
    <2> QED
          BY <1>1, <2>1 DEF Init, FlowTypes
  <1>3. PhaseFits
        BY DEF Init, PhaseFits
  <1>4. MemoryFits(recorder)
        BY RecorderAssumption DEF Init, InitialRecorder, MemoryFits, Blank
  <1>5. OutcomesFit(recorder) /\ LooseAreQueued
        BY DEF Init, InitialRecorder, OutcomesFit, LooseAreQueued, Loose, Blank
  <1>6. \A f \in Forward : ChatFits(f)
        BY DEF Init, InitialRecorder, ChatFits, Once, Sent
  <1> QED
        BY <1>2, <1>3, <1>4, <1>5, <1>6 DEF RunInv

(* and every step keeps it.                                                   *)
LEMMA NextRuns == RunInv /\ [Next]_vars => RunInv'
PROOF
  <1> SUFFICES ASSUME RunInv, [Next]_vars PROVE RunInv'
      OBVIOUS
  <1>1. ASSUME NEW f \in Forward,
               \/ Send(f) \/ Answer(f) \/ Fail(f) \/ Cancel(f)
               \/ DeliverResponse(f) \/ DeliverFailure(f)
               \/ \E e \in owed[f] : DeliverRequest(f, e) \/ DeliverAnalysis(f, e)
        PROVE  RunInv'
        BY <1>1, SendRuns, AnswerRuns, LeaveRuns, ResponseRuns, DeliverRuns
  <1>2. CASE HandleDispatched
        BY <1>2, HandleDispatchedRuns
  <1>3. CASE HandleDurable
        BY <1>3, HandleDurableRuns
  <1>4. CASE Ingest
        BY <1>4, IngestRuns
  <1>5. CASE EndOfRun
        BY <1>5, EndRuns
  <1>6. CASE DrainForward
        BY <1>6, DrainForwardRuns
  <1>7. CASE DrainReceipts
        BY <1>7, DrainReceiptsRuns
  <1>8. CASE UNCHANGED vars
    <2>1. /\ FlowTypes /\ PhaseFits /\ Fits(recorder) /\ LooseAreQueued
          /\ \A g \in Forward : ChatFits(g)
          BY RunFacts
    <2>2. UNCHANGED <<stage, owed, dispatch, tickets, durable, recorder, phase, accepted>>
          BY <1>8 DEF vars
    <2>3. \A g \in Forward : ChatFits(g)'
          BY <2>1, <2>2, ChatStaysFit
    <2>4. FlowTypes' /\ PhaseFits'
          BY <2>1, <2>2 DEF FlowTypes, PhaseFits
    <2>5. LooseAreQueued'
          BY <2>1, <2>2 DEF LooseAreQueued, Sent
    <2> QED
          BY <2>1, <2>2, <2>3, <2>4, <2>5 DEF RunInv, Fits
  <1> QED
        BY <1>1, <1>2, <1>3, <1>4, <1>5, <1>6, <1>7, <1>8 DEF Next, Rest


-----------------------------------------------------------------------------
(* The promises                                                               *)

(* What a step does to the operations: an event is handled, a forward drained, *)
(* or nothing is recorded and nobody leaves.                                  *)
Unmoved(r, s) ==
    /\ s \in Recorders /\ s.records = r.records /\ s.evidence = r.evidence
    /\ s.through = r.through /\ s.retired = r.retired /\ s.forgotten = r.forgotten

(* Every step handles an event, drains a forward, or moves none.              *)
LEMMA StepsTell ==
  ASSUME RunInv, [Next]_vars
  PROVE  \/ \E f \in Forward, e \in Carried :
               /\ Handled(recorder, recorder', f, e) /\ Suits(f, e)
               /\ f \in Chat /\ e = {"transport"} => recorder.records[f] = << >>
               /\ phase' = phase
         \/ /\ phase' = "draining" /\ Oldest(recorder.held) \in recorder.held
            /\ \E reply \in Replies :
                  LeavesBehind(recorder, recorder', Oldest(recorder.held), FALSE, reply)
         \/ Unmoved(recorder, recorder') /\ (phase' = "running" => phase = "running")
PROOF
  <1>0. /\ RunInv' /\ FlowTypes /\ PhaseFits /\ Fits(recorder) /\ LooseAreQueued
        /\ \A g \in Forward : ChatFits(g)
        BY RunFacts, NextRuns
  <1>1. recorder' \in Recorders
        BY <1>0 DEF RunInv, FlowTypes
  <1>2. ASSUME NEW f \in Forward, Send(f) \/ Fail(f) \/ Cancel(f) \/ DeliverFailure(f)
        PROVE  recorder' = recorder /\ phase' = phase
        BY <1>2 DEF Send, Fail, Cancel, DeliverFailure
  <1>3. ASSUME NEW f \in Forward, NEW e, DeliverRequest(f, e) \/ DeliverAnalysis(f, e)
        PROVE  Unmoved(recorder, recorder') /\ phase' = phase
    <2>1. CASE DeliverRequest(f, e)
          BY <1>1, <2>1 DEF DeliverRequest, Unmoved
    <2>2. CASE DeliverAnalysis(f, e)
      <3> DEFINE w == See(recorder, f)
      <3>1. recorder' = (IF HasRoom THEN w ELSE Drop(w, {f})) /\ phase' = phase
            BY <2>2 DEF DeliverAnalysis
      <3>2. Fits(w) /\ Memory(w) = Memory(recorder) /\ Account(w) = Account(recorder)
            BY <1>0, SightFits
      <3> HIDE DEF w
      <3>3. Drops(w, Drop(w, {f}), {f})
            BY <3>2, DropFits
      <3>4. Memory(recorder') = Memory(recorder) /\ Account(recorder') = Account(recorder)
            BY <3>1, <3>2, <3>3 DEF Drops
      <3> QED
            BY <1>1, <3>1, <3>4 DEF Unmoved, Memory, Account
    <2> QED
          BY <1>3, <2>1, <2>2
  <1>4. ASSUME NEW f \in Forward, Answer(f) \/ DeliverResponse(f)
        PROVE  Unmoved(recorder, recorder') /\ phase' = phase
    <2>1. phase' = phase /\ (recorder' = recorder \/ recorder' = Count(recorder, f))
      <3>1. CASE Answer(f)
            BY <3>1 DEF Answer, OfferTransport
      <3>2. CASE DeliverResponse(f)
            BY <3>2 DEF DeliverResponse
      <3> QED
            BY <1>4, <3>1, <3>2
    <2>2. /\ Memory(Count(recorder, f)) = Memory(recorder)
          /\ Count(recorder, f).records = recorder.records
          BY <1>0, CountFits
    <2> QED
          BY <1>1, <2>1, <2>2 DEF Unmoved, Memory
  <1>5. CASE HandleDispatched
    <2> DEFINE x == Head(dispatch)
               f == x.forward
               e == x.evidence
    <2>1. dispatch # << >> /\ Handle(f, e) /\ phase' = phase
          BY <1>5 DEF HandleDispatched
    <2>2. x \in Dispatched /\ Leaves(dispatch, Tail(dispatch), f)
      <3>1. dispatch \in Seq(Dispatched)
            BY <1>0 DEF FlowTypes
      <3> QED
            BY <2>1, <3>1, TailLeaves
    <2>3. Sent(dispatch, f) # {}
          BY <2>2 DEF Leaves
    <2> HIDE DEF x
    <2>4. f \in Forward /\ e \in Carried /\ Suits(f, e)
          BY <2>2, QueuedAreCarried
    <2> HIDE DEF f, e
    <2>5. Handled(recorder, recorder', f, e)
          BY <1>0, <2>1, <2>4, EventIsHandled
    <2>6. f \in Chat => recorder.records[f] = << >>
          BY <1>0, <2>3, <2>4 DEF ChatFits
    <2> QED
          BY <2>1, <2>4, <2>5, <2>6
  <1>6. CASE HandleDurable
    <2> DEFINE x == Head(durable)
               f == x.forward
               e == x.evidence
    <2>1. durable # << >> /\ Handle(f, e) /\ phase' = phase
          BY <1>6 DEF HandleDurable
    <2>2. x \in Stored
      <3>1. durable \in Seq(Stored)
            BY <1>0 DEF FlowTypes
      <3> QED
            BY <2>1, <3>1, TailLeaves
    <2> HIDE DEF x
    <2>3. f \in Forward /\ e \in Carried /\ Suits(f, e) /\ e # {"transport"}
          BY <2>2, QueuedAreCarried DEF Stored, Storable, Owable
    <2> HIDE DEF f, e
    <2>4. Handled(recorder, recorder', f, e)
          BY <1>0, <2>1, <2>3, EventIsHandled
    <2> QED
          BY <2>1, <2>3, <2>4
  <1>7. CASE Ingest
    <2>1. /\ Memory(recorder') = Memory(recorder) /\ Account(recorder') = Account(recorder)
          /\ phase' = phase
          BY <1>7, IngestRuns DEF Ingest
    <2> QED
          BY <1>1, <2>1 DEF Unmoved, Memory, Account
  <1>8. CASE EndOfRun
        BY <1>1, <1>8 DEF EndOfRun, Unmoved
  <1>9. CASE DrainForward
        BY <1>9, DrainForwardRuns DEF DrainForward
  <1>10. CASE DrainReceipts
    <2>1. phase' = "done"
          BY <1>10 DEF DrainReceipts
    <2> QED
          BY <1>1, <1>10, <2>1, DrainReceiptsRuns DEF Unmoved, Account
  <1>11. CASE UNCHANGED vars
        BY <1>1, <1>11 DEF vars, Unmoved
  <1>12. ASSUME NEW f \in Forward, Send(f) \/ Fail(f) \/ Cancel(f) \/ DeliverFailure(f)
         PROVE  Unmoved(recorder, recorder') /\ phase' = phase
        BY <1>1, <1>2, <1>12 DEF Unmoved
  <1> QED
        BY <1>3, <1>4, <1>5, <1>6, <1>7, <1>8, <1>9, <1>10, <1>11, <1>12 DEF Next, Rest

(* The recorder fits in every reachable state: what it remembers and what     *)
(* waits in the queues account for all it has seen.                           *)
THEOREM RecorderFits == Spec => []RunInv
PROOF
  <1> QED
      BY InitRuns, NextRuns, PTL DEF Spec

(* An identity refused as retired has left the correlation state: the         *)
(* watermark folds over nothing it has not accounted for.                     *)
THEOREM OnlyLeaversAreRefusedHolds == Spec => []OnlyLeaversAreRefused
PROOF
  <1>1. RunInv => OnlyLeaversAreRefused
        BY DEF RunInv, MemoryFits, OnlyLeaversAreRefused, IsRetired
  <1> QED
        BY <1>1, RecorderFits, PTL

(* Every analysis the run has seen is ingested or dropped when it ends.       *)
THEOREM EveryAnalysisHasOneOutcomeHolds == Spec => []EveryAnalysisHasOneOutcome
PROOF
  <1>1. RunInv => EveryAnalysisHasOneOutcome
    <2> SUFFICES ASSUME RunInv, Finished
                 PROVE  recorder.seen = recorder.ingested \cup recorder.dropped
        BY DEF EveryAnalysisHasOneOutcome
    <2>1. /\ FlowTypes /\ PhaseFits /\ Fits(recorder) /\ LooseAreQueued
          BY RunFacts
    <2>2. durable = << >> /\ recorder.held = {} /\ recorder.receipts = {} /\ recorder.jobs = {}
          BY <2>1 DEF PhaseFits, Finished
    <2>3. Loose(recorder) = {}
          BY <2>1, <2>2 DEF LooseAreQueued, Sent
    <2>4. recorder.ingested \cup recorder.dropped \subseteq recorder.seen
          BY <2>1 DEF Fits, OutcomesFit
    <2> QED
          BY <2>2, <2>3, <2>4 DEF Loose
  <1> QED
        BY <1>1, RecorderFits, PTL

(* While the run lasts, an operation presented as correlated is a whole       *)
(* exchange: what a bound cuts short is marked degraded.                      *)
THEOREM NoPartialRecordLooksWholeHolds == Spec => []NoPartialRecordLooksWhole
PROOF
  <1> DEFINE Inv == RunInv /\ (phase = "running" => HonestRecords(recorder))
  <1>1. Init => Inv
        BY InitRuns DEF Init, InitialRecorder, HonestRecords, Elements
  <1>2. Inv /\ [Next]_vars => Inv'
    <2> SUFFICES ASSUME Inv, [Next]_vars PROVE Inv'
        OBVIOUS
    <2>1. RunInv' /\ Fits(recorder)
          BY NextRuns, RunFacts
    <2>2. phase' = "running" => HonestRecords(recorder')
      <3>1. ASSUME NEW f \in Forward, NEW e \in Carried, phase' = phase, phase' = "running",
                   Handled(recorder, recorder', f, e)
            PROVE  HonestRecords(recorder')
            BY <2>1, <3>1, HandledHonestly
      <3>2. CASE Unmoved(recorder, recorder') /\ (phase' = "running" => phase = "running")
            BY <3>2 DEF Unmoved, HonestRecords
      <3> QED
            BY <3>1, <3>2, StepsTell
    <2> QED
          BY <2>1, <2>2
  <1>3. Inv => NoPartialRecordLooksWhole
        BY DEF NoPartialRecordLooksWhole, HonestRecords, Recorded, Elements, Entire
  <1> QED
        BY <1>1, <1>2, <1>3, PTL DEF Spec

(* A forward the retirement memory knows has at most one operation, if no     *)
(* committed observation loses its acknowledgement: with it lost the recorder *)
(* falls back, and the forward has two.                                       *)
THEOREM OneOperationPerForwardHolds ==
  ASSUME "lost" \notin Replies
  PROVE  Spec => []OneOperationPerForward
PROOF
  <1> DEFINE Inv == RunInv /\ OneInv
  <1>1. Init => Inv
    <2>1. Init => OneInv
      <3>1. Len(<< >>) = 0
            OBVIOUS
      <3> QED
            BY <3>1 DEF Init, InitialRecorder, OneInv, OperationsFit
    <2> QED
          BY <2>1, InitRuns
  <1>2. Inv /\ [Next]_vars => Inv'
    <2> SUFFICES ASSUME Inv, [Next]_vars PROVE Inv'
        OBVIOUS
    <2>1. RunInv' /\ Fits(recorder) /\ OperationsFit(recorder)
          BY NextRuns, RunFacts DEF OneInv
    <2>2. OperationsFit(recorder')
      <3>1. ASSUME NEW f \in Forward, NEW e \in Carried, Handled(recorder, recorder', f, e), Suits(f, e),
                   f \in Chat /\ e = {"transport"} => recorder.records[f] = << >>
            PROVE  OperationsFit(recorder')
            BY <2>1, <3>1, HandledOnce
      <3>2. ASSUME NEW reply \in Replies, Oldest(recorder.held) \in recorder.held,
                   LeavesBehind(recorder, recorder', Oldest(recorder.held), FALSE, reply)
            PROVE  OperationsFit(recorder')
            BY <2>1, <3>2, DrainedOnce
      <3>3. CASE Unmoved(recorder, recorder')
            BY <2>1, <3>3 DEF Unmoved, OperationsFit, IsRetired
      <3> QED
            BY <3>1, <3>2, <3>3, StepsTell
    <2> QED
          BY <2>1, <2>2 DEF OneInv
  <1>3. Inv => OneOperationPerForward
        BY DEF OneInv, OperationsFit, OneOperationPerForward
  <1> QED
        BY <1>1, <1>2, <1>3, PTL DEF Spec

-----------------------------------------------------------------------------
(* What is lost is paid for                                                   *)

(* There are finitely many halves.                                            *)
LEMMA HalvesAreFew ==
  ASSUME NEW S \in SUBSET Half
  PROVE  IsFiniteSet(S) /\ Cardinality(S) \in Nat
PROOF
  <1>1. IsFiniteSet({"request"})
        BY FS_Singleton
  <1>2. IsFiniteSet({"request"} \cup {"response"})
        BY <1>1, FS_AddElement
  <1>3. IsFiniteSet(({"request"} \cup {"response"}) \cup {"failure"})
        BY <1>2, FS_AddElement
  <1>4. IsFiniteSet((({"request"} \cup {"response"}) \cup {"failure"}) \cup {"transport"})
        BY <1>3, FS_AddElement
  <1>5. Half = (({"request"} \cup {"response"}) \cup {"failure"}) \cup {"transport"}
        BY DEF Half
  <1> QED
        BY <1>4, <1>5, FS_Subset, FS_CardinalityType

(* A payment stays good while nothing more is missing.                        *)
LEMMA PaysOn ==
  ASSUME NEW M \in SUBSET Half, NEW N \in SUBSET Half, NEW n \in Nat, NEW m \in Nat,
         NEW spare, NEW left,
         Pays(M, n, spare), N \subseteq M, n <= m, left => spare \/ n < m
  PROVE  Pays(N, m, left)
PROOF
  <1>1. Cardinality(N) <= Cardinality(M) /\ Cardinality(N) \in Nat /\ Cardinality(M) \in Nat
        BY HalvesAreFew, FS_Subset
  <1> QED
        BY <1>1 DEF Pays

(* One half more needs one more payment, or the one that was kept for it.     *)
LEMMA PaysForOne ==
  ASSUME NEW M \in SUBSET Half, NEW N \in SUBSET Half, NEW x, NEW n \in Nat, NEW m \in Nat,
         NEW spare, NEW left,
         Pays(M, n, spare), N \subseteq M \cup {x},
         \/ n < m /\ (left => spare \/ n + 1 < m)
         \/ n <= m /\ spare /\ (left => n < m)
  PROVE  Pays(N, m, left)
PROOF
  <1>1. /\ Cardinality(N) <= Cardinality(M \cup {x}) /\ Cardinality(N) \in Nat
        /\ Cardinality(M \cup {x}) \in Nat
    <2>1. IsFiniteSet(M \cup {x})
          BY HalvesAreFew, FS_AddElement
    <2> QED
          BY <2>1, HalvesAreFew, FS_Subset, FS_CardinalityType
  <1>2. Cardinality(M) \in Nat /\ Cardinality(M \cup {x}) <= Cardinality(M) + 1
        BY HalvesAreFew, FS_AddElement
  <1> QED
        BY <1>1, <1>2 DEF Pays

(* The same of an account that moves.                                         *)
LEMMA BalanceOn ==
  ASSUME NEW A \in SUBSET Half, NEW q, NEW w, NEW h, NEW o \in BOOLEAN, NEW t \in BOOLEAN, NEW told, NEW n \in Nat,
         NEW A1 \in SUBSET Half, NEW q1, NEW w1, NEW h1, NEW o1 \in BOOLEAN, NEW t1 \in BOOLEAN, NEW told1, NEW m \in Nat,
         Balance(A, q, w, h, o, t, told, n),
         A1 \ (q1 \cup h1 \cup told1) \subseteq A \ (q \cup h \cup told), n <= m,
         Spare(q1, w1, h1, o1, t1) => Spare(q, w, h, o, t) \/ n < m
  PROVE  Balance(A1, q1, w1, h1, o1, t1, told1, m)
PROOF
  <1> DEFINE M == A \ (q \cup h \cup told)
             N == A1 \ (q1 \cup h1 \cup told1)
             spare == Spare(q, w, h, o, t)
             left == Spare(q1, w1, h1, o1, t1)
  <1>1. M \in SUBSET Half /\ N \in SUBSET Half /\ N \subseteq M
        OBVIOUS
  <1>5. left => spare \/ n < m
        OBVIOUS
  <1>3. Pays(M, n, spare)
        BY DEF Balance
  <1> HIDE DEF M, N, spare, left
  <1>4. Pays(N, m, left)
        BY <1>1, <1>3, <1>5, PaysOn
  <1> QED
        BY <1>4 DEF Balance, M, N, spare, left

OneMore(M, N) == \E x : N \subseteq M \cup {x}

(* An account that loses one half pays for it,                               *)
LEMMA BalancePaid ==
  ASSUME NEW A \in SUBSET Half, NEW q, NEW w, NEW h, NEW o \in BOOLEAN, NEW t \in BOOLEAN, NEW told, NEW n \in Nat,
         NEW A1 \in SUBSET Half, NEW q1, NEW w1, NEW h1, NEW o1 \in BOOLEAN, NEW t1 \in BOOLEAN, NEW told1, NEW m \in Nat,
         Balance(A, q, w, h, o, t, told, n),
         OneMore(A \ (q \cup h \cup told), A1 \ (q1 \cup h1 \cup told1)),
         n < m, Spare(q1, w1, h1, o1, t1) => Spare(q, w, h, o, t) \/ n + 1 < m
  PROVE  Balance(A1, q1, w1, h1, o1, t1, told1, m)
PROOF
  <1> DEFINE M == A \ (q \cup h \cup told)
             N == A1 \ (q1 \cup h1 \cup told1)
             spare == Spare(q, w, h, o, t)
             left == Spare(q1, w1, h1, o1, t1)
  <1>1. M \in SUBSET Half /\ N \in SUBSET Half /\ OneMore(M, N)
        OBVIOUS
  <1>2. Pays(M, n, spare)
        BY DEF Balance
  <1>3. n < m /\ (left => spare \/ n + 1 < m)
        OBVIOUS
  <1> HIDE DEF M, N, spare, left
  <1>5. PICK x : N \subseteq M \cup {x}
        BY <1>1 DEF OneMore
  <1>4. Pays(N, m, left)
        BY <1>1, <1>2, <1>3, <1>5, PaysForOne
  <1> QED
        BY <1>4 DEF Balance, M, N, spare, left

(* or uses what was kept.                                                     *)
LEMMA BalanceSpent ==
  ASSUME NEW A \in SUBSET Half, NEW q, NEW w, NEW h, NEW o \in BOOLEAN, NEW t \in BOOLEAN, NEW told, NEW n \in Nat,
         NEW A1 \in SUBSET Half, NEW q1, NEW w1, NEW h1, NEW o1 \in BOOLEAN, NEW t1 \in BOOLEAN, NEW told1, NEW m \in Nat,
         Balance(A, q, w, h, o, t, told, n),
         OneMore(A \ (q \cup h \cup told), A1 \ (q1 \cup h1 \cup told1)),
         n <= m, Spare(q, w, h, o, t), ~Spare(q1, w1, h1, o1, t1)
  PROVE  Balance(A1, q1, w1, h1, o1, t1, told1, m)
PROOF
  <1> DEFINE M == A \ (q \cup h \cup told)
             N == A1 \ (q1 \cup h1 \cup told1)
             spare == Spare(q, w, h, o, t)
             left == Spare(q1, w1, h1, o1, t1)
  <1>1. M \in SUBSET Half /\ N \in SUBSET Half /\ OneMore(M, N)
        OBVIOUS
  <1>2. Pays(M, n, spare)
        BY DEF Balance
  <1>3. n <= m /\ spare /\ ~left
        OBVIOUS
  <1> HIDE DEF M, N, spare, left
  <1>5. PICK x : N \subseteq M \cup {x}
        BY <1>1 DEF OneMore
  <1>4. Pays(N, m, left)
        BY <1>1, <1>2, <1>3, <1>5, PaysForOne
  <1> QED
        BY <1>4 DEF Balance, M, N, spare, left

(* The two queues, what is owed, and what the recorder holds, of one forward. *)
Typed(d, u, w, h) ==
    /\ d \subseteq {"transport", "response"} /\ u \subseteq Evidence \ {"transport"}
    /\ w \subseteq Evidence \ {"transport", "refused"} /\ (h \subseteq Evidence \/ h = Settled)

(* The recorder takes e from one of the queues.                               *)
Hands(d, u, d1, u1, e) ==
    \/ /\ e \in Dispatchable /\ u1 = u /\ d = d1 \cup e /\ e \cap d1 = {}
    \/ /\ e \in Storable /\ d1 = d /\ u = u1 \cup e
       /\ "request" \in e => "request" \notin u1
       /\ e \cap Terminal # {} => u1 \cap (Terminal \cup {"refused"}) = {}

(* A path that only empties stays one.                                        *)
LEMMA PathKept ==
  ASSUME NEW st, NEW d, NEW u, NEW w, NEW h, NEW o, NEW t, NEW d1, NEW u1, NEW w1, NEW o1, NEW t1,
         Path(st, d, u, w, h, o, t), d1 \subseteq d, u1 \subseteq u, w1 \subseteq w,
         o1 => o, t1 => t
  PROVE  Path(st, d1, u1, w1, h, o1, t1)
  BY DEF Path, Past

(* So does one whose forward leaves the correlation state.                    *)
LEMMA PathLeft ==
  ASSUME NEW st, NEW d, NEW u, NEW w, NEW h, NEW o, NEW t, NEW o1,
         Path(st, d, u, w, h, o, t), o1 => o \/ h \cap Terminal # {}
  PROVE  Path(st, d, u, w, {}, o1, t)
  BY DEF Path, Past, Settled, Terminal

(* And one whose forward takes up a half.                                     *)
LEMMA PathJoins ==
  ASSUME NEW st, NEW d, NEW u, NEW w, NEW h, NEW o, NEW t, NEW d1, NEW u1, NEW o1, NEW e,
         Path(st, d, u, w, h, o, t), Typed(d, u, w, h), Hands(d, u, d1, u1, e),
         h # Settled, o1 => o /\ "request" \notin e
  PROVE  IF Ready(h \cup e) THEN Path(st, d1, u1, w, Settled, o1, t)
                            ELSE Path(st, d1, u1, w, h \cup e, o1, t)
PROOF
  <1>1. d1 \cup u1 \cup e \subseteq d \cup u /\ e # {} /\ e \subseteq Evidence /\ e # Settled
        BY DEF Hands, Dispatchable, Storable, Owable, Evidence, Half, Context, Settled
  <1>2. "request" \in h \cup e => "request" \notin d1 \cup u1 \cup w
        BY DEF Path, Hands, Typed, Dispatchable
  <1>3. (h \cup e) \cap Terminal # {} => (d1 \cup u1 \cup w) \cap Terminal = {} /\ "refused" \notin d1 \cup u1
    <2>1. CASE h \cap Terminal # {}
          BY <1>1, <2>1 DEF Path, Past
    <2>2. CASE e \cap Terminal # {}
          BY <1>1, <2>2 DEF Path, Past, Hands, Typed, Dispatchable, Storable, Owable, Terminal
    <2> QED
          BY <2>1, <2>2
  <1>4. o1 => (h \cup e) \cap (Terminal \cup {"refused"}) = {}
        BY <1>1 DEF Path, Past
  <1>5. "transport" \in h \cup e => "transport" \notin d1 \cup u1
        BY <1>1 DEF Path, Hands, Typed, Storable, Owable
  <1>6. ~(Terminal \subseteq h \cup e)
    <2>1. ~(Terminal \subseteq e)
          BY DEF Hands, Dispatchable, Storable, Owable, Terminal
    <2> QED
          BY <1>1, <2>1 DEF Path, Past, Terminal
  <1>7. st # "done" => /\ (h \cup e) \cap (Terminal \cup {"transport", "refused"}) = {}
                       /\ ~Past(h, o) /\ ~t
        BY <1>1 DEF Path
  <1>8. h \cup e # Settled
        BY <1>1 DEF Settled, Evidence, Half, Context
  <1>9. CASE Ready(h \cup e)
    <2>1. (h \cup e) \cap Terminal # {} /\ "request" \in h \cup e
          BY <1>9 DEF Ready, Terminal
    <2>2. st = "done"
          BY <1>7, <2>1
    <2>3. ~o1 /\ st # "new" /\ Settled \cap (Terminal \cup {"request", "transport"}) = {}
          BY <1>4, <1>7, <2>1 DEF Settled, Terminal
    <2>4. /\ "failure" \in d1 \cup u1 \cup w => {"transport", "response"} \cap (d1 \cup u1 \cup w) = {}
          /\ "request" \in w => "request" \notin d1 \cup u1
          /\ w \cap Terminal # {} => (d1 \cup u1) \cap Terminal = {}
          /\ "response" \in d1 => u1 \cap (Terminal \cup {"refused"}) = {}
          /\ t => "refused" \notin d1 \cup u1
          BY <1>1 DEF Path, Hands
    <2>5. ~("failure" \in Settled) /\ ~(Terminal \subseteq Settled) /\ ~("transport" \in Settled)
          BY DEF Settled, Terminal
    <2>6. Path(st, d1, u1, w, Settled, o1, t)
          BY <1>2, <1>3, <2>1, <2>2, <2>3, <2>4, <2>5 DEF Path
    <2> QED
          BY <1>9, <2>6
  <1>10. CASE ~Ready(h \cup e)
    <2>1. Past(h \cup e, o1) => (d1 \cup u1 \cup w) \cap Terminal = {} /\ "refused" \notin d1 \cup u1
          BY <1>1, <1>3, <1>8 DEF Past, Path
    <2>2. st # "done" => ~Past(h \cup e, o1)
          BY <1>7, <1>8 DEF Past
    <2>4. /\ "failure" \in d1 \cup u1 \cup w \cup (h \cup e) =>
                {"transport", "response"} \cap (d1 \cup u1 \cup w) = {}
          /\ "request" \in w => "request" \notin d1 \cup u1
          /\ w \cap Terminal # {} => (d1 \cup u1) \cap Terminal = {}
          /\ "response" \in d1 => u1 \cap (Terminal \cup {"refused"}) = {}
          /\ t => "refused" \notin d1 \cup u1
          /\ st = "new" => d1 \cup u1 \cup w \cup (h \cup e) = {}
          BY <1>1 DEF Path, Hands
    <2>5. st # "done" => /\ (d1 \cup u1 \cup w \cup (h \cup e)) \cap (Terminal \cup {"transport", "refused"}) = {}
                         /\ ~t
          BY <1>1, <1>7 DEF Path
    <2>3. Path(st, d1, u1, w, h \cup e, o1, t)
          BY <1>2, <1>4, <1>5, <1>6, <1>8, <2>1, <2>2, <2>4, <2>5 DEF Path
    <2> QED
          BY <1>10, <2>3
  <1> QED
        BY <1>9, <1>10

(* What is kept for a half that will be lost is kept while the account empties. *)
LEMMA SpareShrinks ==
  ASSUME NEW q, NEW w, NEW h, NEW o, NEW t, NEW q1, NEW w1, NEW h1, NEW o1, NEW t1,
         Spare(q1, w1, h1, o1, t1), q1 \subseteq q, w1 \subseteq w, o1 => o, t => t1,
         "refused" \in h1 => "refused" \in q \cup h, h1 = Settled => h = Settled
  PROVE  Spare(q, w, h, o, t)
  BY DEF Spare, Refused

(* An event carries one half at most.                                         *)
LEMMA OneHalf ==
  ASSUME NEW d, NEW u, NEW d1, NEW u1, NEW e, Hands(d, u, d1, u1, e)
  PROVE  /\ \E x : e \cap Half \subseteq {x}
         /\ d \cup u = (d1 \cup u1) \cup e
         /\ "request" \in e => e \cap Half = {"request"} /\ "refused" \notin e /\ e \in Storable
         /\ "transport" \in e => e = {"transport"} /\ "transport" \notin d1
PROOF
  <1>1. e \in Dispatchable \cup Storable /\ d \cup u = (d1 \cup u1) \cup e
        BY DEF Hands
  <1>2. \/ e \cap Half \subseteq {"request"} \/ e \cap Half \subseteq {"response"}
        \/ e \cap Half \subseteq {"failure"} \/ e \cap Half \subseteq {"transport"}
        BY <1>1 DEF Dispatchable, Storable, Owable, Half
  <1>3. "request" \in e => e \cap Half = {"request"} /\ "refused" \notin e /\ e \in Storable
        BY <1>1 DEF Dispatchable, Storable, Owable, Half
  <1>4. "transport" \in e => e = {"transport"} /\ "transport" \notin d1
        BY DEF Hands, Dispatchable, Storable, Owable
  <1> QED
        BY <1>1, <1>2, <1>3, <1>4

Consumed(o, o1) == o /\ ~o1

(* A request that a tombstone consumes has its payment.                       *)
LEMMA OrphanPays ==
  ASSUME NEW A \in SUBSET Half, NEW st, NEW d, NEW u, NEW w, NEW h, NEW o \in BOOLEAN, NEW t \in BOOLEAN, NEW o1 \in BOOLEAN, NEW told, NEW n \in Nat,
         NEW d1, NEW u1, NEW e,
         Path(st, d, u, w, h, o, t), Typed(d, u, w, h), Hands(d, u, d1, u1, e), "request" \in e, Consumed(o, o1),
         Balance(A, d \cup u, w, h, o, t, told, n)
  PROVE  Balance(A, d1 \cup u1, w, h, o1, t, told, n)
PROOF
  <1>1. /\ d \cup u = (d1 \cup u1) \cup e /\ e \cap Half = {"request"}
        BY OneHalf
  <1>2. Spare(d \cup u, w, h, o, t)
        BY <1>1 DEF Spare, Consumed
  <1>3. ~Refused(d1 \cup u1, w, h, t) /\ h # Settled
        BY <1>1 DEF Refused, Path, Past, Terminal, Consumed
  <1>4. "request" \notin d1 \cup u1 \cup w
        BY DEF Hands, Path, Typed, Dispatchable
  <1>5. ~Spare(d1 \cup u1, w, h, o1, t)
        BY <1>3, <1>4 DEF Spare, Consumed
  <1>6. OneMore(A \ ((d \cup u) \cup h \cup told), A \ ((d1 \cup u1) \cup h \cup told))
        BY <1>1 DEF OneMore
  <1>7. n <= n
        OBVIOUS
  <1> QED
        BY <1>2, <1>5, <1>6, <1>7, BalanceSpent

(* What comes for a settled forward is metadata behind a degraded response.   *)
LEMMA SettledPays ==
  ASSUME NEW A \in SUBSET Half, NEW st, NEW d, NEW u, NEW w, NEW o \in BOOLEAN, NEW t \in BOOLEAN, NEW told, NEW n \in Nat,
         NEW d1, NEW u1, NEW e, NEW o1 \in BOOLEAN,
         Path(st, d, u, w, Settled, o, t), Typed(d, u, w, Settled), Hands(d, u, d1, u1, e), o1 => o,
         Balance(A, d \cup u, w, Settled, o, t, told, n)
  PROVE  Balance(A, d1 \cup u1, w, Settled, o1, t, told, n)
PROOF
  <1>1. /\ d \cup u = (d1 \cup u1) \cup e /\ n <= n
        /\ "transport" \in e => e = {"transport"} /\ "transport" \notin d1
        BY OneHalf
  <1>2. e \cap Half \subseteq {"transport"}
        BY <1>1 DEF Path, Past, Terminal, Half
  <1>3. CASE "transport" \in e
    <2>1. Spare(d \cup u, w, Settled, o, t)
          BY <1>1, <1>3 DEF Spare
    <2>4. "transport" \notin d1 \cup u1
          BY <1>1, <1>3 DEF Hands, Typed
    <2>5. "request" \notin d1 \cup u1 \cup w
          BY <1>1 DEF Path
    <2>2. ~Spare(d1 \cup u1, w, Settled, o1, t)
          BY <2>4, <2>5 DEF Spare
    <2>3. OneMore(A \ ((d \cup u) \cup Settled \cup told), A \ ((d1 \cup u1) \cup Settled \cup told))
          BY <1>1, <1>2 DEF OneMore
    <2> QED
          BY <1>1, <2>1, <2>2, <2>3, BalanceSpent
  <1>4. CASE "transport" \notin e
    <2>1. A \ ((d1 \cup u1) \cup Settled \cup told) \subseteq A \ ((d \cup u) \cup Settled \cup told)
          BY <1>1, <1>2, <1>4
    <2>2. Spare(d1 \cup u1, w, Settled, o1, t) => Spare(d \cup u, w, Settled, o, t)
          BY <1>1, SpareShrinks
    <2> QED
          BY <1>1, <2>1, <2>2, BalanceOn
  <1> QED
        BY <1>3, <1>4

(* A half of a retired forward is paid for.                                   *)
LEMMA RetiredPays ==
  ASSUME NEW A \in SUBSET Half, NEW d, NEW u, NEW w, NEW h, NEW o \in BOOLEAN, NEW t \in BOOLEAN, NEW told, NEW n \in Nat,
         NEW d1, NEW u1, NEW e, NEW o1 \in BOOLEAN,
         Hands(d, u, d1, u1, e), o1 => o,
         Balance(A, d \cup u, w, h, o, t, told, n)
  PROVE  Balance(A, d1 \cup u1, w, h, o1, t, told, n + 1)
PROOF
  <1>1. d \cup u = (d1 \cup u1) \cup e /\ n < n + 1 /\ n + 1 \in Nat
        BY OneHalf
  <1>2. PICK x : e \cap Half \subseteq {x}
        BY OneHalf
  <1>3. OneMore(A \ ((d \cup u) \cup h \cup told), A \ ((d1 \cup u1) \cup h \cup told))
        BY <1>1, <1>2 DEF OneMore
  <1>4. Spare(d1 \cup u1, w, h, o1, t) => Spare(d \cup u, w, h, o, t)
        BY <1>1, SpareShrinks
  <1> QED
        BY <1>1, <1>3, <1>4, BalancePaid

(* An event whose halves are recorded, or that has none, costs nothing.       *)
LEMMA TakenPays ==
  ASSUME NEW A \in SUBSET Half, NEW d, NEW u, NEW w, NEW h, NEW o \in BOOLEAN, NEW t \in BOOLEAN, NEW told, NEW n \in Nat,
         NEW d1, NEW u1, NEW e, NEW o1 \in BOOLEAN, NEW told1, NEW m \in Nat,
         Hands(d, u, d1, u1, e), o1 => o, told \cup (e \cap Half) \subseteq told1, n <= m,
         Balance(A, d \cup u, w, h, o, t, told, n)
  PROVE  Balance(A, d1 \cup u1, w, h, o1, t, told1, m)
PROOF
  <1>1. d \cup u = (d1 \cup u1) \cup e
        BY OneHalf
  <1>2. A \ ((d1 \cup u1) \cup h \cup told1) \subseteq A \ ((d \cup u) \cup h \cup told)
        BY <1>1
  <1>3. Spare(d1 \cup u1, w, h, o1, t) => Spare(d \cup u, w, h, o, t)
        BY <1>1, SpareShrinks
  <1> QED
        BY <1>2, <1>3, BalanceOn

(* A forward that takes up a half keeps it, or is recorded with all it has.   *)
LEMMA JoinsPay ==
  ASSUME NEW A \in SUBSET Half, NEW st, NEW d, NEW u, NEW w, NEW h, NEW o \in BOOLEAN, NEW t \in BOOLEAN, NEW told, NEW n \in Nat,
         NEW d1, NEW u1, NEW e, NEW h1, NEW o1 \in BOOLEAN, NEW told1, NEW m \in Nat,
         Path(st, d, u, w, h, o, t), Typed(d, u, w, h), Hands(d, u, d1, u1, e), o1 => o,
         h # Settled, h1 = IF Ready(h \cup e) THEN Settled ELSE h \cup e,
         told \subseteq told1, Ready(h \cup e) => (h \cup e) \cap Half \subseteq told1, n <= m,
         Balance(A, d \cup u, w, h, o, t, told, n)
  PROVE  Balance(A, d1 \cup u1, w, h1, o1, t, told1, m)
PROOF
  <1>1. d \cup u = (d1 \cup u1) \cup e
        BY OneHalf
  <1>2. A \ ((d1 \cup u1) \cup h1 \cup told1) \subseteq A \ ((d \cup u) \cup h \cup told)
        BY <1>1
  <1>3. ASSUME Spare(d1 \cup u1, w, h1, o1, t)
        PROVE  Spare(d \cup u, w, h, o, t)
    <2>1. CASE ~Ready(h \cup e)
      <3>1. h \cup e # Settled
            BY DEF Hands, Dispatchable, Storable, Owable, Settled
      <3> QED
            BY <1>1, <1>3, <2>1, <3>1, SpareShrinks
    <2>2. CASE Ready(h \cup e)
      <3>1. "request" \notin d1 \cup u1 \cup w
        <4>1. "request" \in h \/ "request" \in e
              BY <2>2 DEF Ready
        <4>2. CASE "request" \in h
              BY <1>1, <4>2 DEF Path
        <4>3. CASE "request" \in e
              BY <4>3 DEF Hands, Path, Typed, Dispatchable
        <4> QED
              BY <4>1, <4>2, <4>3
      <3>2. "transport" \in d1 \cup u1
            BY <1>3, <3>1 DEF Spare
      <3>3. "transport" \in d1 /\ "transport" \in d \cup u
            BY <1>1, <3>2 DEF Hands, Typed
      <3>4. "transport" \notin e
            BY <3>3, OneHalf
      <3>5. "transport" \notin h /\ "failure" \notin h \cup e
            BY <1>1, <3>3 DEF Path
      <3>6. "refused" \in h \cup e
            BY <2>2, <3>4, <3>5 DEF Ready
      <3> QED
            BY <1>1, <3>3, <3>6 DEF Spare, Refused
    <2> QED
          BY <2>1, <2>2
  <1> QED
        BY <1>2, <1>3, BalanceOn

Covers(h, told, told1, n, m, limit) ==
    /\ told \subseteq told1
    /\ h # Settled /\ "request" \in h => h \cap Half \subseteq told1
    /\ "transport" \in h => "transport" \in told1
    /\ m = IF h = Settled THEN n ELSE n + Unsaid(h, limit)

(* A forward that leaves is recorded with all it has, or pays for its terminal *)
(* half and its degradation.                                                  *)
LEMMA LeftPays ==
  ASSUME NEW A \in SUBSET Half, NEW st, NEW d, NEW u, NEW w, NEW h, NEW o \in BOOLEAN, NEW t \in BOOLEAN, NEW told, NEW n \in Nat,
         NEW o1 \in BOOLEAN, NEW told1, NEW m \in Nat, NEW limit \in BOOLEAN,
         Path(st, d, u, w, h, o, t), Typed(d, u, w, h),
         o1 => o \/ (h # Settled /\ "request" \notin h /\ h \cap Terminal # {} /\ limit),
         Covers(h, told, told1, n, m, limit),
         limit \/ d \cup u \cup w = {},
         Balance(A, d \cup u, w, h, o, t, told, n)
  PROVE  Balance(A, d \cup u, w, {}, o1, t, told1, m)
PROOF
  <1> DEFINE M == A \ ((d \cup u) \cup h \cup told)
             N == A \ ((d \cup u) \cup {} \cup told1)
  <1>0. {} # Settled
        BY DEF Settled
  <1>5. /\ told \subseteq told1 /\ (h # Settled /\ "request" \in h => h \cap Half \subseteq told1)
        /\ "transport" \in h => "transport" \in told1
        /\ m = IF h = Settled THEN n ELSE n + Unsaid(h, limit)
        BY DEF Covers
  <1>1. CASE h = Settled
    <2>1. N \subseteq M /\ n <= m
          BY <1>1, <1>5 DEF Settled, Half
    <2>2. "request" \notin d \cup u \cup w
          BY <1>1 DEF Path
    <2>3. Spare(d \cup u, w, {}, o1, t) => Spare(d \cup u, w, h, o, t)
          BY <1>1, <2>2 DEF Spare
    <2> QED
          BY <2>1, <2>3, BalanceOn
  <1>2. CASE h # Settled /\ "request" \in h
    <2>1. N \subseteq M /\ n <= m
          BY <1>2, <1>5 DEF Unsaid
    <2>2. "request" \notin d \cup u \cup w
          BY <1>2 DEF Path
    <2>3. Spare(d \cup u, w, {}, o1, t) => Spare(d \cup u, w, h, o, t)
          BY <1>0, <2>2 DEF Spare, Refused
    <2> QED
          BY <2>1, <2>3, BalanceOn
  <1>3. CASE h # Settled /\ "request" \notin h /\ h \cap Terminal = {}
    <2>3. A \cap h \subseteq {"transport"}
          BY <1>3 DEF Half, Terminal
    <2>4. Unsaid(h, limit) \in Nat
          BY DEF Unsaid
    <2>1. N \subseteq M /\ n <= m
          BY <1>3, <1>5, <2>3, <2>4
    <2>2. Spare(d \cup u, w, {}, o1, t) => Spare(d \cup u, w, h, o, t)
          BY <1>0, <1>3, SpareShrinks
    <2> QED
          BY <2>1, <2>2, BalanceOn
  <1>4. CASE h # Settled /\ "request" \notin h /\ h \cap Terminal # {}
    <2>1. PICK x \in Terminal : h \cap Terminal \subseteq {x}
          BY <1>4 DEF Path, Terminal
    <2>2. OneMore(M, N)
          BY <1>4, <1>5, <2>1 DEF OneMore, Half, Terminal
    <2>3. /\ Unsaid(h, limit) = IF limit /\ "refused" \notin h THEN 2 ELSE 1
          /\ n < m
          BY <1>4, <1>5 DEF Unsaid, Terminal
    <2>4. Spare(d \cup u, w, {}, o1, t) => Spare(d \cup u, w, h, o, t) \/ n + 1 < m
      <3>1. CASE limit /\ "refused" \notin h
            BY <1>4, <1>5, <2>3, <3>1
      <3>2. CASE "refused" \in h
            BY <1>0, <3>2 DEF Spare, Refused
      <3>3. CASE d \cup u \cup w = {}
            BY <3>3 DEF Spare
      <3> QED
            BY <3>1, <3>2, <3>3
    <2> QED
          BY <2>2, <2>3, <2>4, BalancePaid
  <1> QED
        BY <1>1, <1>2, <1>3, <1>4

(* What a forward is recorded with that the daemon does not decline.          *)
ToldWith(r, s, g, e, limit) ==
    /\ g \notin r.declined /\ Told(r, g) \subseteq Told(s, g)
    /\ "request" \in e => e \cap Half \subseteq Told(s, g)
    /\ "transport" \in e => "transport" \in Told(s, g)
    /\ s.counted[g] = r.counted[g] + Unsaid(e, limit) /\ Unsaid(e, limit) \in Nat

(* The same says what it costs.                                               *)
LEMMA ToldMore ==
  ASSUME NEW r \in Recorders, NEW s, NEW g \in Forward, NEW e \in SUBSET Evidence,
         NEW limit \in BOOLEAN, NEW reply \in Reply, Tells(r, s, g, e, limit, reply),
         g \notin s.declined
  PROVE  ToldWith(r, s, g, e, limit) /\ r.counted[g] <= s.counted[g]
PROOF
  <1>1. /\ g \notin r.declined /\ ~Declines(e, reply)
        /\ s.counted[g] = r.counted[g] + Unsaid(e, limit)
        BY DEF Tells
  <1>8. AddsTo(r, s, g, e, limit, reply)
        BY TellsMore
  <1>2. Elements(s.records[g]) = Elements(r.records[g]) \cup Elements(Operations(e, limit, reply))
        BY <1>8 DEF AddsTo
  <1>3. Elements(Operations(e, limit, reply)) =
            (IF Acknowledged(e, reply) THEN {Whole(e, limit)} ELSE {})
               \cup (IF FallsBack(e, reply) THEN {Bare} ELSE {})
        BY OperationsTell
  <1>4. Told(r, g) \subseteq Told(s, g)
        BY <1>2 DEF Told
  <1>5. ASSUME "request" \in e
        PROVE  e \cap Half \subseteq Told(s, g)
    <2>1. Acknowledged(e, reply)
          BY <1>1, <1>5 DEF Declines, Acknowledged
    <2>2. Whole(e, limit) \in Elements(s.records[g]) /\ Whole(e, limit).halves = e \cap Half
          BY <1>2, <1>3, <2>1 DEF Whole
    <2> QED
          BY <2>2 DEF Told
  <1>6. ASSUME "transport" \in e, "request" \notin e
        PROVE  "transport" \in Told(s, g)
    <2>1. FallsBack(e, reply)
          BY <1>1, <1>6 DEF Declines, FallsBack
    <2>2. Bare \in Elements(s.records[g]) /\ Bare.halves = {"transport"}
          BY <1>2, <1>3, <2>1 DEF Bare
    <2> QED
          BY <2>2 DEF Told
  <1>7. Unsaid(e, limit) \in Nat
        BY DEF Unsaid
  <1>9. r.counted[g] <= s.counted[g]
    <2>1. r.counted[g] \in Nat
          BY DEF Recorders
    <2> QED
          BY <1>1, <1>7, <2>1
  <1> QED
        BY <1>1, <1>4, <1>5, <1>6, <1>7, <1>9 DEF Half, ToldWith

(* A forward that is left alone stays tracked.                                *)
LEMMA KeptTracked ==
  ASSUME NEW r \in Recorders, NEW s \in Recorders, NEW g \in Forward, Kept(r, s, g),
         NEW A \in SUBSET Half, NEW st, NEW d, NEW u, NEW w, NEW t \in BOOLEAN,
         Tracked(r, st, d, u, w, t, A, g)
  PROVE  Tracked(s, st, d, u, w, t, A, g)
PROOF
  <1> DEFINE h == r.evidence[g]
             o == g \in r.orphans
             o1 == g \in s.orphans
             n == r.counted[g]
             told == Told(r, g)
  <1>1. /\ s.evidence[g] = h /\ s.counted[g] = n /\ Told(s, g) = told
        /\ (g \in s.declined <=> g \in r.declined)
        BY DEF Kept, Told
  <1>2. n \in Nat /\ o \in BOOLEAN /\ o1 \in BOOLEAN /\ n <= n
        BY DEF Recorders
  <1>3. /\ Path(st, d, u, w, h, o, t)
        /\ g \notin r.declined => Balance(A, d \cup u, w, h, o, t, told, n)
        /\ o1 => o
        BY DEF Tracked, Kept
  <1>4. Tracked(s, st, d, u, w, t, A, g) <=>
           /\ Path(st, d, u, w, h, o1, t)
           /\ g \notin s.declined => Balance(A, d \cup u, w, h, o1, t, told, n)
        BY <1>1 DEF Tracked
  <1> HIDE DEF h, o, o1, n, told
  <1>5. Path(st, d, u, w, h, o1, t)
        BY <1>3, PathKept
  <1>6. Spare(d \cup u, w, h, o1, t) => Spare(d \cup u, w, h, o, t)
        BY <1>3, SpareShrinks
  <1>7. g \notin r.declined => Balance(A, d \cup u, w, h, o1, t, told, n)
        BY <1>2, <1>3, <1>6, BalanceOn
  <1> QED
        BY <1>1, <1>4, <1>5, <1>7

(* So does one that leaves the correlation state, cut short or at the end.     *)
Leaving(r, s, g, d, u, w) ==
    \E limit \in BOOLEAN, reply \in Reply :
       Left(r, s, g, limit, reply) /\ (limit \/ d \cup u \cup w = {})

(* It is recorded, or was.                                                    *)
LEMMA LeftTracked ==
  ASSUME NEW r \in Recorders, NEW s \in Recorders, NEW g \in Forward,
         NEW A \in SUBSET Half, NEW st, NEW d, NEW u, NEW w, NEW t \in BOOLEAN,
         Typed(d, u, w, r.evidence[g]), Leaving(r, s, g, d, u, w),
         Tracked(r, st, d, u, w, t, A, g)
  PROVE  Tracked(s, st, d, u, w, t, A, g)
PROOF
  <1>0. PICK limit \in BOOLEAN, reply \in Reply :
           Left(r, s, g, limit, reply) /\ (limit \/ d \cup u \cup w = {})
        BY DEF Leaving
  <1> DEFINE h == r.evidence[g]
             o == g \in r.orphans
             o1 == g \in s.orphans
             n == r.counted[g]
             m == s.counted[g]
             told == Told(r, g)
             told1 == Told(s, g)
  <1>1. s.evidence[g] = {}
        BY <1>0 DEF Left, Blank
  <1>2. n \in Nat /\ m \in Nat /\ o \in BOOLEAN /\ o1 \in BOOLEAN
        BY DEF Recorders
  <1>3. /\ Path(st, d, u, w, h, o, t)
        /\ g \notin r.declined => Balance(A, d \cup u, w, h, o, t, told, n)
        /\ o1 => o \/ (h # Settled /\ "request" \notin h /\ h \cap Terminal # {} /\ limit)
        BY <1>0 DEF Tracked, Left
  <1>4. Tracked(s, st, d, u, w, t, A, g) <=>
           /\ Path(st, d, u, w, {}, o1, t)
           /\ g \notin s.declined => Balance(A, d \cup u, w, {}, o1, t, told1, m)
        BY <1>1 DEF Tracked
  <1>5. ASSUME g \notin s.declined
        PROVE  /\ g \notin r.declined /\ told \subseteq told1
               /\ h # Settled /\ "request" \in h => h \cap Half \subseteq told1
               /\ "transport" \in h => "transport" \in told1
               /\ m = IF h = Settled THEN n ELSE n + Unsaid(h, limit)
    <2>1. CASE h = Settled
          BY <1>0, <1>5, <2>1 DEF Left, Told, Settled
    <2>2. CASE h # Settled
      <3>1. Tells(r, s, g, h, limit, reply) /\ h \in SUBSET Evidence
            BY <1>0, <2>2 DEF Left, Typed
      <3> HIDE DEF h
      <3>2. ToldWith(r, s, g, h, limit)
            BY <1>5, <3>1, ToldMore
      <3> QED
            BY <2>2, <3>2 DEF ToldWith
    <2> QED
          BY <2>1, <2>2
  <1>6. Typed(d, u, w, h)
        OBVIOUS
  <1> HIDE DEF h, o, o1, n, m, told, told1
  <1>7. Path(st, d, u, w, {}, o1, t)
        BY <1>3, PathLeft
  <1>8. ASSUME g \notin s.declined
        PROVE  Balance(A, d \cup u, w, {}, o1, t, told1, m)
    <2>1. Covers(h, told, told1, n, m, limit) /\ Balance(A, d \cup u, w, h, o, t, told, n)
          BY <1>3, <1>5, <1>8 DEF Covers
    <2> QED
          BY <1>0, <1>2, <1>3, <1>6, <2>1, LeftPays
  <1> QED
        BY <1>4, <1>7, <1>8

(* So does the one whose event is handled.                                    *)
LEMMA OwnTracked ==
  ASSUME NEW r \in Recorders, NEW s \in Recorders, NEW f \in Forward, NEW e \in SUBSET Evidence,
         NEW own \in Reply, Own(r, s, f, e, own), f \in s.orphans => f \in r.orphans,
         NEW A \in SUBSET Half, NEW st, NEW d, NEW u, NEW w, NEW t \in BOOLEAN, NEW d1, NEW u1,
         Typed(d, u, w, r.evidence[f]), Hands(d, u, d1, u1, e),
         Tracked(r, st, d, u, w, t, A, f)
  PROVE  Tracked(s, st, d1, u1, w, t, A, f)
PROOF
  <1> DEFINE h == r.evidence[f]
             h1 == s.evidence[f]
             o == f \in r.orphans
             o1 == f \in s.orphans
             n == r.counted[f]
             m == s.counted[f]
             told == Told(r, f)
             told1 == Told(s, f)
  <1>1. n \in Nat /\ m \in Nat /\ o \in BOOLEAN /\ o1 \in BOOLEAN /\ (o1 => o)
        BY DEF Recorders
  <1>2. /\ Path(st, d, u, w, h, o, t) /\ Typed(d, u, w, h)
        /\ f \notin r.declined => Balance(A, d \cup u, w, h, o, t, told, n)
        BY DEF Tracked
  <1>3. Tracked(s, st, d1, u1, w, t, A, f) <=>
           /\ Path(st, d1, u1, w, h1, o1, t)
           /\ f \notin s.declined => Balance(A, d1 \cup u1, w, h1, o1, t, told1, m)
        BY DEF Tracked
  <1>4. d1 \subseteq d /\ u1 \subseteq u
        BY DEF Hands
  <1>5. ASSUME h1 = h
        PROVE  Path(st, d1, u1, w, h1, o1, t)
    <2> HIDE DEF h, h1, o, o1
    <2> QED
        BY <1>1, <1>2, <1>4, <1>5, PathKept
  <1>6. Kept(r, s, f) => h1 = h /\ m = n /\ told1 = told /\ (f \in s.declined <=> f \in r.declined)
        BY DEF Kept, Told
  <1>7. CASE e = {"transport"} /\ s.evidence[f] = r.evidence[f] /\ Tells(r, s, f, e, FALSE, own)
    <2>1. ASSUME f \notin s.declined
          PROVE  Balance(A, d1 \cup u1, w, h, o1, t, told1, m)
      <3>0. ToldWith(r, s, f, e, FALSE) /\ n <= m
            BY <1>7, <2>1, ToldMore
      <3>1. f \notin r.declined
            BY <3>0 DEF ToldWith
      <3>2. told \cup (e \cap Half) \subseteq told1
            BY <1>7, <3>0 DEF ToldWith
      <3>4. n <= m
            BY <3>0
      <3> HIDE DEF h, h1, o, o1, n, m, told, told1
      <3> QED
            BY <1>1, <1>2, <3>1, <3>2, <3>4, TakenPays
    <2> QED
          BY <1>3, <1>5, <1>7, <2>1
  <1>8. CASE "request" \in e /\ f \in r.orphans \ s.orphans /\ Kept(r, s, f)
    <2>1. Consumed(o, o1)
          BY <1>8 DEF Consumed
    <2>2. ASSUME f \notin s.declined
          PROVE  Balance(A, d1 \cup u1, w, h, o1, t, told, n)
      <3>1. Balance(A, d \cup u, w, h, o, t, told, n)
            BY <1>2, <1>6, <1>8, <2>2
      <3> HIDE DEF h, h1, o, o1, n, m, told, told1
      <3> QED
            BY <1>1, <1>2, <1>8, <2>1, <3>1, OrphanPays
    <2> QED
          BY <1>3, <1>5, <1>6, <1>8, <2>2
  <1>9. CASE Kept(r, s, f) /\ e \subseteq Context
    <2>2. ASSUME f \notin s.declined
          PROVE  Balance(A, d1 \cup u1, w, h, o1, t, told, n)
      <3>1. Balance(A, d \cup u, w, h, o, t, told, n)
            BY <1>2, <1>6, <1>9, <2>2
      <3>2. told \cup (e \cap Half) \subseteq told /\ n <= n
            BY <1>1, <1>9 DEF Context, Half
      <3> HIDE DEF h, h1, o, o1, n, m, told, told1
      <3> QED
            BY <1>1, <1>2, <3>1, <3>2, TakenPays
    <2> QED
          BY <1>3, <1>5, <1>6, <1>9, <2>2
  <1>10. CASE Kept(r, s, f) /\ h = Settled
    <2>2. ASSUME f \notin s.declined
          PROVE  Balance(A, d1 \cup u1, w, Settled, o1, t, told, n)
      <3>1. Balance(A, d \cup u, w, Settled, o, t, told, n)
            BY <1>2, <1>6, <1>10, <2>2
      <3>2. Path(st, d, u, w, Settled, o, t) /\ Typed(d, u, w, Settled)
            BY <1>2, <1>10
      <3> HIDE DEF h, h1, o, o1, n, m, told, told1
      <3> QED
            BY <1>1, <3>1, <3>2, SettledPays
    <2> QED
          BY <1>3, <1>5, <1>6, <1>10, <2>2
  <1>11. CASE /\ s.evidence[f] = r.evidence[f] /\ s.counted[f] = r.counted[f] + 1
              /\ s.records[f] = r.records[f] /\ (f \in s.declined <=> f \in r.declined)
    <2>1. h1 = h /\ m = n + 1 /\ told1 = told /\ (f \in s.declined <=> f \in r.declined)
          BY <1>11 DEF Told
    <2>2. ASSUME f \notin s.declined
          PROVE  Balance(A, d1 \cup u1, w, h, o1, t, told, n + 1)
      <3>1. Balance(A, d \cup u, w, h, o, t, told, n)
            BY <1>2, <2>1, <2>2
      <3> HIDE DEF h, h1, o, o1, n, m, told, told1
      <3> QED
            BY <1>1, <1>2, <3>1, RetiredPays
    <2> QED
          BY <1>3, <1>5, <2>1, <2>2
  <1>12. CASE ~("request" \in e /\ f \in r.orphans) /\ Joins(r, s, f, e, own)
    <2>1. h # Settled /\ (o1 => o /\ "request" \notin e) /\ h \in SUBSET Evidence
          BY <1>1, <1>2, <1>12 DEF Joins, Typed
    <2>2. h1 = IF Ready(h \cup e) THEN Settled ELSE h \cup e
          BY <1>12 DEF Joins
    <2>3. Path(st, d1, u1, w, h1, o1, t)
      <3> HIDE DEF h, h1, o, o1
      <3>1. IF Ready(h \cup e) THEN Path(st, d1, u1, w, Settled, o1, t)
                               ELSE Path(st, d1, u1, w, h \cup e, o1, t)
            BY <1>2, <2>1, PathJoins
      <3> QED
            BY <2>2, <3>1
    <2>4. ASSUME f \notin s.declined
          PROVE  /\ f \notin r.declined /\ told \subseteq told1 /\ n <= m
                 /\ Ready(h \cup e) => (h \cup e) \cap Half \subseteq told1
      <3>1. CASE Ready(h \cup e)
        <4>1. Tells(r, s, f, h \cup e, FALSE, own) /\ h \cup e \in SUBSET Evidence /\ "request" \in h \cup e
              BY <1>12, <2>1, <3>1 DEF Joins, Ready
        <4> DEFINE j == h \cup e
        <4> HIDE DEF j
        <4>2. Tells(r, s, f, j, FALSE, own) /\ j \in SUBSET Evidence /\ "request" \in j
              BY <4>1 DEF j
        <4>3. ToldWith(r, s, f, j, FALSE) /\ n <= m
              BY <2>4, <4>2, ToldMore
        <4>4. f \notin r.declined /\ told \subseteq told1 /\ j \cap Half \subseteq told1
              BY <4>2, <4>3 DEF ToldWith
        <4>5. n <= m
              BY <4>3
        <4> QED
              BY <4>4, <4>5 DEF j
      <3>2. CASE ~Ready(h \cup e)
            BY <1>1, <1>12, <2>4, <3>2 DEF Joins, Told
      <3> QED
            BY <3>1, <3>2
    <2>5. ASSUME f \notin s.declined
          PROVE  Balance(A, d1 \cup u1, w, h1, o1, t, told1, m)
      <3>1. /\ told \subseteq told1 /\ n <= m
            /\ Ready(h \cup e) => (h \cup e) \cap Half \subseteq told1
            /\ Balance(A, d \cup u, w, h, o, t, told, n)
            BY <1>2, <2>4, <2>5
      <3> HIDE DEF h, h1, o, o1, n, m, told, told1
      <3> QED
            BY <1>1, <1>2, <2>1, <2>2, <3>1, JoinsPay
    <2> QED
          BY <1>3, <2>3, <2>5
  <1> QED
        BY <1>7, <1>8, <1>9, <1>10, <1>11, <1>12 DEF Own

(* To a forward other than f it makes no difference.                          *)
HandsOf(f, g, d, u, d1, u1, e) == IF g = f THEN Hands(d, u, d1, u1, e) ELSE d1 = d /\ u1 = u

(* An event that is handled leaves all forwards tracked.                      *)
LEMMA HandledTracked ==
  ASSUME NEW r, NEW s, Fits(r), NEW f \in Forward, NEW e \in Carried, Handled(r, s, f, e),
         NEW g \in Forward, NEW A \in SUBSET Half, NEW st, NEW d, NEW u, NEW w, NEW t \in BOOLEAN, NEW d1, NEW u1,
         Typed(d, u, w, r.evidence[g]),
         HandsOf(f, g, d, u, d1, u1, e),
         Tracked(r, st, d, u, w, t, A, g)
  PROVE  Tracked(s, st, d1, u1, w, t, A, g)
PROOF
  <1>1. r \in Recorders /\ s \in Recorders /\ e \in SUBSET Evidence
        BY DEF Handled, Fits, Carried, Owable, Dispatchable, Storable, Evidence, Half, Context
  <1>2. Answers \subseteq Reply
        BY RecorderAssumption DEF Answers, Reply
  <1>3. PICK S \in SUBSET (r.held \ {f}), own \in Answers, evicted \in Answers :
           /\ \A x \in S : Left(r, s, x, TRUE, evicted)
           /\ \A x \in Forward \ (S \cup {f}) : Kept(r, s, x)
           /\ f \in s.orphans => f \in r.orphans
           /\ Own(r, s, f, e, own)
        BY DEF Handled
  <1>4. CASE g = f
    <2>1. Hands(d, u, d1, u1, e) /\ Own(r, s, g, e, own) /\ own \in Reply /\ (g \in s.orphans => g \in r.orphans)
          BY <1>2, <1>3, <1>4 DEF HandsOf
    <2> QED
          BY <1>1, <2>1, OwnTracked
  <1>5. CASE g \in S
    <2>3. Left(r, s, g, TRUE, evicted) /\ evicted \in Reply /\ d1 = d /\ u1 = u
          BY <1>2, <1>3, <1>5 DEF HandsOf
    <2>1. Leaving(r, s, g, d, u, w) /\ d1 = d /\ u1 = u
          BY <2>3 DEF Leaving
    <2>2. Tracked(s, st, d, u, w, t, A, g)
          BY <1>1, <2>1, LeftTracked
    <2> QED
          BY <2>1, <2>2
  <1>6. CASE g \notin S \cup {f}
    <2>1. Kept(r, s, g) /\ d1 = d /\ u1 = u
          BY <1>3, <1>6 DEF HandsOf
    <2>2. Tracked(s, st, d, u, w, t, A, g)
          BY <1>1, <2>1, KeptTracked
    <2> QED
          BY <2>1, <2>2
  <1> QED
        BY <1>4, <1>5, <1>6

(* The types of what is on the way.                                           *)
LEMMA WaysAreTyped ==
  ASSUME RunInv, NEW g \in Forward
  PROVE  /\ Typed(UNION Sent(dispatch, g), UNION Sent(durable, g), UNION owed[g], recorder.evidence[g])
         /\ accepted[g] \in SUBSET Half /\ owed[g] \in SUBSET Owable
         /\ recorder \in Recorders /\ Fits(recorder)
PROOF
  <1>1. FlowTypes /\ Fits(recorder)
        BY RunFacts
  <1>2. /\ dispatch \in Seq(Dispatched) /\ durable \in Seq(Stored) /\ recorder \in Recorders
        /\ owed[g] \in SUBSET Owable /\ accepted[g] \in SUBSET Half
        BY <1>1 DEF FlowTypes
  <1>3. UNION Sent(dispatch, g) \subseteq {"transport", "response"}
    <2>1. \A b \in Sent(dispatch, g) : b \in Dispatchable
          BY <1>2, SentAreIn DEF Dispatched
    <2> QED
          BY <2>1 DEF Dispatchable
  <1>4. UNION Sent(durable, g) \subseteq Evidence \ {"transport"}
    <2>1. \A b \in Sent(durable, g) : b \in Storable
          BY <1>2, SentAreIn DEF Stored
    <2> QED
          BY <2>1 DEF Storable, Owable, Evidence, Half, Context
  <1>5. UNION owed[g] \subseteq Evidence \ {"transport", "refused"}
        BY <1>2 DEF Owable, Evidence, Half, Context
  <1>6. recorder.evidence[g] \subseteq Evidence \/ recorder.evidence[g] = Settled
        BY <1>2 DEF Recorders
  <1> QED
        BY <1>1, <1>2, <1>3, <1>4, <1>5, <1>6 DEF Typed

(* A step that takes an event from the dispatcher keeps the forwards tracked. *)
LEMMA DispatchedTracks ==
  ASSUME RunInv, PathInv, HandleDispatched
  PROVE  PathInv'
PROOF
  <1> DEFINE x == Head(dispatch)
             f == x.forward
             e == x.evidence
  <1>1. /\ dispatch # << >> /\ Handle(f, e) /\ dispatch' = Tail(dispatch)
        /\ UNCHANGED <<stage, owed, tickets, durable, accepted>>
        BY DEF HandleDispatched
  <1>2. x \in Dispatched /\ \A g \in Forward : Leaves(dispatch, dispatch', g)
    <2>1. dispatch \in Seq(Dispatched)
          BY DEF RunInv, FlowTypes
    <2> QED
          BY <1>1, <2>1, TailLeaves
  <1>3. \A g : (g = f) = (Head(dispatch).forward = g) /\ Head(dispatch).evidence = e
        OBVIOUS
  <1> HIDE DEF x
  <1>4. f \in Forward /\ e \in Carried /\ Suits(f, e) /\ e \in Dispatchable
        BY <1>2, QueuedAreCarried
  <1> HIDE DEF f, e
  <1>5. Handled(recorder, recorder', f, e)
        BY <1>1, <1>4, RunFacts, EventIsHandled
  <1> SUFFICES ASSUME NEW g \in Forward
               PROVE  Tracks(g)' /\ InOrder(g)'
        BY DEF PathInv
  <1>6. Tracks(g) /\ InOrder(g)
        BY DEF PathInv
  <1>7. Leaves(dispatch, dispatch', g)
        BY <1>2
  <1>8. InOrder(g)'
        BY <1>1, <1>6, <1>7 DEF InOrder, Leaves
  <1> DEFINE d == UNION Sent(dispatch, g)
             u == UNION Sent(durable, g)
             d1 == UNION Sent(dispatch', g)
  <1>9. HandsOf(f, g, d, u, d1, u, e)
    <2>1. CASE g = f
      <3>1. Sent(dispatch, g) = Sent(dispatch', g) \cup {e}
            BY <1>3, <1>7, <2>1 DEF Leaves
      <3>2. d = d1 \cup e
            BY <3>1
      <3>3. \A h \in {"transport", "response"} : h \in e => h \notin d1
            BY <1>3, <1>6, <1>7, <2>1 DEF Leaves, InOrder
      <3>4. e \cap d1 = {}
            BY <1>4, <3>3 DEF Dispatchable
      <3> QED
            BY <1>4, <2>1, <3>2, <3>4 DEF Hands, HandsOf
    <2>2. CASE g # f
      <3>1. Sent(dispatch, g) = Sent(dispatch', g)
            BY <1>3, <1>7, <2>2 DEF Leaves
      <3> QED
            BY <2>2, <3>1 DEF HandsOf
    <2> QED
          BY <2>1, <2>2
  <1>10. /\ Typed(d, u, UNION owed[g], recorder.evidence[g]) /\ accepted[g] \in SUBSET Half /\ Fits(recorder)
        BY WaysAreTyped
  <1> DEFINE ticket == g \in tickets
  <1>11. Tracked(recorder, stage[g], d, u, UNION owed[g], ticket, accepted[g], g)
        BY <1>6 DEF Tracks
  <1>14. ticket \in BOOLEAN
        OBVIOUS
  <1> HIDE DEF d, u, d1, ticket
  <1>12. Tracked(recorder', stage[g], d1, u, UNION owed[g], ticket, accepted[g], g)
        BY <1>14, <1>4, <1>5, <1>9, <1>10, <1>11, HandledTracked
  <1>13. Tracks(g)'
        BY <1>1, <1>12 DEF Tracks, d1, u, ticket
  <1> QED
        BY <1>8, <1>13

(* So does one that takes an event from the durable queue.                    *)
LEMMA DurableTracks ==
  ASSUME RunInv, PathInv, HandleDurable
  PROVE  PathInv'
PROOF
  <1> DEFINE x == Head(durable)
             f == x.forward
             e == x.evidence
  <1>1. /\ durable # << >> /\ Handle(f, e) /\ durable' = Tail(durable)
        /\ UNCHANGED <<stage, owed, tickets, dispatch, accepted>>
        BY DEF HandleDurable
  <1>2. x \in Stored /\ \A g \in Forward : Leaves(durable, durable', g)
    <2>1. durable \in Seq(Stored)
          BY DEF RunInv, FlowTypes
    <2> QED
          BY <1>1, <2>1, TailLeaves
  <1>3. \A g : (g = f) = (Head(durable).forward = g) /\ Head(durable).evidence = e
        OBVIOUS
  <1> HIDE DEF x
  <1>4. f \in Forward /\ e \in Carried /\ Suits(f, e) /\ e \in Storable
        BY <1>2, QueuedAreCarried DEF Stored
  <1> HIDE DEF f, e
  <1>5. Handled(recorder, recorder', f, e)
        BY <1>1, <1>4, RunFacts, EventIsHandled
  <1> SUFFICES ASSUME NEW g \in Forward
               PROVE  Tracks(g)' /\ InOrder(g)'
        BY DEF PathInv
  <1>6. Tracks(g) /\ InOrder(g)
        BY DEF PathInv
  <1>7. Leaves(durable, durable', g)
        BY <1>2
  <1>8. InOrder(g)'
        BY <1>1, <1>6, <1>7 DEF InOrder, Leaves
  <1> DEFINE d == UNION Sent(dispatch, g)
             u == UNION Sent(durable, g)
             u1 == UNION Sent(durable', g)
  <1>9. HandsOf(f, g, d, u, d, u1, e)
    <2>1. CASE g = f
      <3>1. Sent(durable, g) = Sent(durable', g) \cup {e}
            BY <1>3, <1>7, <2>1 DEF Leaves
      <3>2. u = u1 \cup e
            BY <3>1
      <3>3. "request" \in e => "request" \notin u1
            BY <1>3, <1>6, <1>7, <2>1 DEF Leaves, InOrder
      <3>4. e \cap Terminal # {} => u1 \cap (Terminal \cup {"refused"}) = {}
            BY <1>3, <1>6, <1>7, <2>1 DEF Leaves, InOrder
      <3> QED
            BY <1>4, <2>1, <3>2, <3>3, <3>4 DEF Hands, HandsOf
    <2>2. CASE g # f
      <3>1. Sent(durable, g) = Sent(durable', g)
            BY <1>3, <1>7, <2>2 DEF Leaves
      <3> QED
            BY <2>2, <3>1 DEF HandsOf
    <2> QED
          BY <2>1, <2>2
  <1>10. /\ Typed(d, u, UNION owed[g], recorder.evidence[g]) /\ accepted[g] \in SUBSET Half /\ Fits(recorder)
        BY WaysAreTyped
  <1> DEFINE ticket == g \in tickets
  <1>11. Tracked(recorder, stage[g], d, u, UNION owed[g], ticket, accepted[g], g)
        BY <1>6 DEF Tracks
  <1>14. ticket \in BOOLEAN
        OBVIOUS
  <1> HIDE DEF d, u, u1, ticket
  <1>12. Tracked(recorder', stage[g], d, u1, UNION owed[g], ticket, accepted[g], g)
        BY <1>4, <1>5, <1>9, <1>10, <1>11, <1>14, HandledTracked
  <1>13. Tracks(g)'
        BY <1>1, <1>12 DEF Tracks, d, u1, ticket
  <1> QED
        BY <1>8, <1>13

(* A step of the recorder on its own, which touches no forward or drains one. *)
LEMMA QuietTracks ==
  ASSUME RunInv, PathInv, recorder' \in Recorders,
         UNCHANGED <<stage, owed, tickets, dispatch, durable, accepted>>,
         \A g \in Forward :
            \/ Kept(recorder, recorder', g)
            \/ Leaving(recorder, recorder', g, UNION Sent(dispatch, g), UNION Sent(durable, g), UNION owed[g])
  PROVE  PathInv'
PROOF
  <1> SUFFICES ASSUME NEW g \in Forward
               PROVE  Tracks(g)' /\ InOrder(g)'
        BY DEF PathInv
  <1>1. Tracks(g) /\ InOrder(g)
        BY DEF PathInv
  <1>2. InOrder(g)'
        BY <1>1 DEF InOrder
  <1> DEFINE d == UNION Sent(dispatch, g)
             u == UNION Sent(durable, g)
             w == UNION owed[g]
             ticket == g \in tickets
             A == accepted[g]
             st == stage[g]
  <1>9. ticket \in BOOLEAN
        OBVIOUS
  <1>3. /\ Typed(d, u, w, recorder.evidence[g]) /\ A \in SUBSET Half /\ recorder \in Recorders
        /\ ticket \in BOOLEAN
        BY <1>9, WaysAreTyped
  <1>4. Tracked(recorder, st, d, u, w, ticket, A, g)
        BY <1>1 DEF Tracks
  <1>5. Tracks(g)' = Tracked(recorder', st, d, u, w, ticket, A, g)
        BY DEF Tracks
  <1>6. Kept(recorder, recorder', g) \/ Leaving(recorder, recorder', g, d, u, w)
        OBVIOUS
  <1> HIDE DEF d, u, w, ticket, A, st
  <1>7. CASE Kept(recorder, recorder', g)
        BY <1>2, <1>3, <1>4, <1>5, <1>7, KeptTracked
  <1>8. CASE Leaving(recorder, recorder', g, d, u, w)
        BY <1>2, <1>3, <1>4, <1>5, <1>8, LeftTracked
  <1> QED
        BY <1>6, <1>7, <1>8

(* The drain and the ingestion are such steps.                                *)
LEMMA EndTracks ==
  ASSUME RunInv, PathInv, Ingest \/ EndOfRun \/ DrainForward \/ DrainReceipts \/ UNCHANGED vars
  PROVE  PathInv'
PROOF
  <1>1. UNCHANGED <<stage, owed, tickets, dispatch, durable, accepted>>
        BY DEF Ingest, EndOfRun, DrainForward, DrainReceipts, vars
  <1>2. RunInv' /\ recorder' \in Recorders
    <2>1. RunInv'
          BY NextRuns DEF Next
    <2> QED
          BY <2>1 DEF RunInv, FlowTypes
  <1>3. CASE Ingest
    <2>1. \A g \in Forward : Kept(recorder, recorder', g)
      <3>1. Memory(recorder') = Memory(recorder) /\ Account(recorder') = Account(recorder)
            BY <1>3, IngestRuns
      <3> QED
            BY <3>1, SameIsKept
    <2> QED
          BY <1>1, <1>2, <2>1, QuietTracks
  <1>4. CASE EndOfRun \/ UNCHANGED vars
    <2>1. recorder' = recorder
          BY <1>4 DEF EndOfRun, vars
    <2>2. \A g \in Forward : Kept(recorder, recorder', g)
          BY <2>1 DEF Kept
    <2> QED
          BY <1>1, <1>2, <2>2, QuietTracks
  <1>5. CASE DrainReceipts
    <2>1. /\ Account(recorder') = Account(recorder) /\ recorder'.evidence = recorder.evidence
          /\ recorder'.orphans = {}
          BY <1>5, DrainReceiptsRuns
    <2>2. \A g \in Forward : Kept(recorder, recorder', g)
          BY <2>1 DEF Kept, Account
    <2> QED
          BY <1>1, <1>2, <2>2, QuietTracks
  <1>6. CASE DrainForward
    <2>1. PICK reply \in Replies :
             LeavesBehind(recorder, recorder', Oldest(recorder.held), FALSE, reply)
          BY <1>6, DrainForwardRuns
    <2>2. phase = "draining" /\ PhaseFits /\ reply \in Reply
          BY <1>6, RunFacts, RecorderAssumption DEF DrainForward, Reply
    <2>3. \A g \in Forward : UNION Sent(dispatch, g) = {} /\ UNION Sent(durable, g) = {} /\ UNION owed[g] = {}
          BY <2>2 DEF PhaseFits, Sent
    <2>4. \A g \in Forward : g = Oldest(recorder.held) =>
             Leaving(recorder, recorder', g, UNION Sent(dispatch, g), UNION Sent(durable, g), UNION owed[g])
          BY <2>1, <2>2, <2>3 DEF Leaving, LeavesBehind
    <2>5. \A g \in Forward : g # Oldest(recorder.held) => Kept(recorder, recorder', g)
          BY <2>1 DEF LeavesBehind
    <2> QED
          BY <1>1, <1>2, <2>4, <2>5, QuietTracks
  <1> QED
        BY <1>3, <1>4, <1>5, <1>6

(* What the sinks do to the path of a forward.  Before its exchange is done   *)
(* nothing is kept, so its body is read and its exchange ends in any way.     *)
LEMMA ExchangeMoves ==
  ASSUME NEW st, NEW d, NEW u, NEW w, NEW h, NEW o \in BOOLEAN, NEW t \in BOOLEAN, NEW st1, NEW d1, NEW u1, NEW w1, NEW t1 \in BOOLEAN,
         Path(st, d, u, w, h, o, t), Typed(d, u, w, h),
         \/ /\ st = "new" /\ st1 = "sent" /\ d1 = d /\ u1 = u /\ w1 \subseteq {"request", "shed", "analysis"} /\ t1 = t
         \/ /\ st = "sent" /\ st1 = "done"
            /\ \/ d1 = d \cup {"transport"} /\ u1 = u /\ w1 \subseteq w \cup {"response"} /\ t1
               \/ d1 = d /\ u1 = u /\ w1 \subseteq w \cup {"failure"} /\ t1 = t
  PROVE  Path(st1, d1, u1, w1, h, o, t1) /\ ~Spare(d1 \cup u1, w1, h, o, t1)
PROOF
  <1>1. /\ (d \cup u \cup w \cup h) \cap (Terminal \cup {"transport", "refused"}) = {}
        /\ ~o /\ ~t /\ h # Settled /\ h \cap Terminal = {}
        BY DEF Path, Past
  <1>2. CASE st = "new"
    <2>1. d \cup u \cup w \cup h = {}
          BY <1>2 DEF Path
    <2>2. /\ st1 = "sent" /\ d1 = {} /\ u1 = {} /\ w1 \subseteq {"request", "shed", "analysis"} /\ ~t1
          /\ ~o /\ h = {} /\ h # Settled
          BY <1>1, <1>2, <2>1
    <2> QED
          BY <2>2 DEF Path, Past, Spare, Refused, Terminal
  <1>3. CASE st1 = "done" /\ d1 = d \cup {"transport"} /\ u1 = u /\ w1 \subseteq w \cup {"response"} /\ t1
    <2>1. Path(st1, d1, u1, w1, h, o, t1)
      <3>1. /\ "request" \in h => "request" \notin d1 \cup u1 \cup w1
            /\ "request" \in w1 => "request" \notin d1 \cup u1
            BY <1>3 DEF Path
      <3>2. /\ "failure" \notin d1 \cup u1 \cup w1 \cup h /\ "transport" \notin h
            /\ ~(Terminal \subseteq h) /\ (d1 \cup u1) \cap Terminal = {} /\ "refused" \notin d1 \cup u1
            BY <1>1, <1>3 DEF Terminal
      <3>3. ~Past(h, o) /\ "response" \notin d1
            BY <1>1, <3>2 DEF Past, Terminal
      <3> QED
            BY <1>1, <1>3, <3>1, <3>2, <3>3 DEF Path
    <2>2. ~Spare(d1 \cup u1, w1, h, o, t1)
          BY <1>1, <1>3 DEF Spare, Refused
    <2> QED
          BY <2>1, <2>2
  <1>4. CASE st = "sent" /\ st1 = "done" /\ d1 = d /\ u1 = u /\ w1 \subseteq w \cup {"failure"} /\ t1 = t
    <2>1. Path(st1, d1, u1, w1, h, o, t1)
      <3>1. /\ "request" \in h => "request" \notin d1 \cup u1 \cup w1
            /\ "request" \in w1 => "request" \notin d1 \cup u1
            BY <1>4 DEF Path
      <3>2. /\ "failure" \in d1 \cup u1 \cup w1 \cup h => {"transport", "response"} \cap (d1 \cup u1 \cup w1) = {}
            /\ "transport" \notin h /\ ~t1
            /\ ~(Terminal \subseteq h) /\ (d1 \cup u1) \cap Terminal = {} /\ "refused" \notin d1 \cup u1
            BY <1>1, <1>4 DEF Terminal
      <3>3. ~Past(h, o) /\ "response" \notin d1
            BY <1>1, <3>2 DEF Past, Terminal
      <3> QED
            BY <1>1, <1>4, <3>1, <3>2, <3>3 DEF Path
    <2>2. ~Spare(d1 \cup u1, w1, h, o, t1)
          BY <1>1, <1>4 DEF Spare, Refused, Terminal
    <2> QED
          BY <2>1, <2>2
  <1> QED
        BY <1>2, <1>3, <1>4

(* The admission of its metadata is refused.                                  *)
LEMMA RefusalMoves ==
  ASSUME NEW d, NEW u, NEW w, NEW h, NEW o, NEW t, NEW u1, NEW w1,
         Path("sent", d, u, w, h, o, t), Typed(d, u, w, h),
         u \subseteq u1, u1 \subseteq u \cup {"refused"}, w1 \subseteq w \cup {"response"}
  PROVE  Path("done", d, u1, w1, h, o, t)
PROOF
  <1>1. /\ (d \cup u \cup w \cup h) \cap (Terminal \cup {"transport", "refused"}) = {}
        /\ ~o /\ ~t /\ h # Settled /\ h \cap Terminal = {}
        BY DEF Path, Past
  <1>2. /\ "request" \in h => "request" \notin d \cup u1 \cup w1
        /\ "request" \in w1 => "request" \notin d \cup u1
        BY DEF Path
  <1>3. /\ "failure" \notin d \cup u1 \cup w1 \cup h /\ "transport" \notin h
        /\ ~(Terminal \subseteq h) /\ (d \cup u1) \cap Terminal = {}
        BY <1>1 DEF Terminal
  <1>4. ~Past(h, o) /\ "response" \notin d
        BY <1>1, <1>3 DEF Past, Terminal
  <1> QED
        BY <1>1, <1>2, <1>3, <1>4 DEF Path

(* The request half and the outcome of the analysis are queued.               *)
LEMMA QueueMoves ==
  ASSUME NEW st, NEW d, NEW u, NEW w, NEW h, NEW o, NEW t, NEW u1, NEW w1,
         Path(st, d, u, w, h, o, t), Typed(d, u, w, h), w1 \subseteq w,
         u \subseteq u1, u1 \subseteq u \cup w, u1 \subseteq u \cup ({"request"} \cup Context),
         "request" \in u1 => "request" \notin w1
  PROVE  /\ Path(st, d, u1, w1, h, o, t)
         /\ Spare(d \cup u1, w1, h, o, t) => Spare(d \cup u, w, h, o, t)
PROOF
  <1>1. /\ d \cup u1 \cup w1 \subseteq d \cup u \cup w
        /\ (d \cup u1) \cap (Terminal \cup {"refused", "transport"}) = (d \cup u) \cap (Terminal \cup {"refused", "transport"})
        /\ u1 \cap (Terminal \cup {"refused"}) = u \cap (Terminal \cup {"refused"})
        BY DEF Terminal, Context
  <1>2. Path(st, d, u1, w1, h, o, t)
    <2>1. "request" \in w1 => "request" \notin d \cup u1
          BY DEF Typed
    <2>2. /\ "refused" \notin d \cup u => "refused" \notin d \cup u1
          /\ "transport" \notin d \cup u => "transport" \notin d \cup u1
          BY <1>1
    <2>3. /\ (d \cup u) \cap Terminal = {} => (d \cup u1) \cap Terminal = {}
          /\ (d \cup u \cup w) \cap Terminal = {} => (d \cup u1 \cup w1) \cap Terminal = {}
          BY <1>1
    <2> QED
          BY <1>1, <2>1, <2>2, <2>3 DEF Path
  <1>3. Spare(d \cup u1, w1, h, o, t) => Spare(d \cup u, w, h, o, t)
        BY <1>1 DEF Spare, Refused, Context
  <1> QED
        BY <1>2, <1>3

(* The terminal half is queued, or refused.                                   *)
LEMMA FailureMoves ==
  ASSUME NEW st, NEW d, NEW u, NEW w, NEW h, NEW o, NEW t, NEW u1, NEW w1, NEW t1,
         Path(st, d, u, w, h, o, t), Typed(d, u, w, h), w1 \subseteq w, "failure" \in w \ w1,
         u \subseteq u1, u1 \subseteq u \cup {"failure"}, ~t1
  PROVE  /\ Path(st, d, u1, w1, h, o, t1)
         /\ Spare(d \cup u1, w1, h, o, t1) => Spare(d \cup u, w, h, o, t)
PROOF
  <1>1. /\ d \cup u1 \cup w1 \subseteq d \cup u \cup w /\ "response" \notin d \cup u \cup w
        /\ ~Past(h, o) /\ w1 \cap Terminal = {} /\ st = "done"
        BY DEF Path, Terminal
  <1>2. /\ Path(st, d, u1, w1, h, o, t1)
        BY <1>1 DEF Path
  <1>3. Spare(d \cup u1, w1, h, o, t1) => Spare(d \cup u, w, h, o, t)
        BY <1>1 DEF Spare, Refused
  <1> QED
        BY <1>2, <1>3

(* A response goes behind its metadata, or degraded to the durable queue.     *)
LEMMA ResponseMoves ==
  ASSUME NEW st, NEW d, NEW u, NEW w, NEW h, NEW o, NEW t, NEW d1, NEW u1, NEW w1, NEW t1,
         Path(st, d, u, w, h, o, t), Typed(d, u, w, h), w1 \subseteq w, "response" \in w \ w1, ~t1,
         \/ t /\ d1 = d \cup {"response"} /\ u1 = u
         \/ d1 = d /\ u \subseteq u1 /\ u1 \subseteq u \cup {"refused", "response"}
  PROVE  /\ Path(st, d1, u1, w1, h, o, t1)
         /\ ~t \/ u1 = u => (Spare(d1 \cup u1, w1, h, o, t1) => Spare(d \cup u, w, h, o, t))
PROOF
  <1>1. /\ "failure" \notin d \cup u \cup w \cup h /\ st = "done"
        /\ ~Past(h, o) /\ w1 \cap Terminal = {} /\ (d \cup u) \cap Terminal = {}
        BY DEF Path, Terminal
  <1>2. CASE t /\ d1 = d \cup {"response"} /\ u1 = u
    <2>1. "refused" \notin d \cup u
          BY <1>2 DEF Path
    <2>2. Path(st, d1, u1, w1, h, o, t1)
          BY <1>1, <1>2, <2>1 DEF Path, Terminal
    <2>3. Spare(d1 \cup u1, w1, h, o, t1) => Spare(d \cup u, w, h, o, t)
          BY <1>1, <1>2 DEF Spare, Refused
    <2> QED
          BY <2>2, <2>3
  <1>3. CASE d1 = d /\ u \subseteq u1 /\ u1 \subseteq u \cup {"refused", "response"}
    <2>1. "response" \notin d
          BY <1>1 DEF Terminal
    <2>2. Path(st, d1, u1, w1, h, o, t1)
          BY <1>1, <1>3, <2>1 DEF Path, Terminal
    <2>3. ~t => (Spare(d1 \cup u1, w1, h, o, t1) => Spare(d \cup u, w, h, o, t))
          BY <1>1, <1>3 DEF Spare, Refused
    <2>4. u1 = u => (Spare(d1 \cup u1, w1, h, o, t1) => Spare(d \cup u, w, h, o, t))
          BY <1>1, <1>3 DEF Spare, Refused
    <2> QED
          BY <2>2, <2>3, <2>4
  <1> QED
        BY <1>2, <1>3

(* A recorder that knows the same of a forward and has counted no less.       *)
Alike(r, s, f) ==
    /\ s.evidence[f] = r.evidence[f] /\ s.records[f] = r.records[f]
    /\ (f \in s.orphans <=> f \in r.orphans) /\ (f \in s.declined <=> f \in r.declined)
    /\ r.counted[f] <= s.counted[f]

(* It has counted more, or needs to keep nothing that was not kept.           *)
Affords(r, s, f, q, w, t, q1, w1, t1) ==
    \/ r.counted[f] < s.counted[f]
    \/ Spare(q1, w1, r.evidence[f], f \in r.orphans, t1)
          => Spare(q, w, r.evidence[f], f \in r.orphans, t)

(* What is on the way of a forward may change under such a recorder.          *)
LEMMA TrackedOn ==
  ASSUME NEW r \in Recorders, NEW s \in Recorders, NEW f \in Forward, Alike(r, s, f),
         NEW A \in SUBSET Half, NEW st, NEW d, NEW u, NEW w, NEW t \in BOOLEAN,
         NEW A1 \in SUBSET Half, NEW st1, NEW d1, NEW u1, NEW w1, NEW t1 \in BOOLEAN,
         Tracked(r, st, d, u, w, t, A, f),
         Path(st1, d1, u1, w1, r.evidence[f], f \in r.orphans, t1),
         A1 \ (d1 \cup u1) \subseteq A \ (d \cup u),
         Affords(r, s, f, d \cup u, w, t, d1 \cup u1, w1, t1)
  PROVE  Tracked(s, st1, d1, u1, w1, t1, A1, f)
PROOF
  <1> DEFINE h == r.evidence[f]
             o == f \in r.orphans
             n == r.counted[f]
             m == s.counted[f]
             told == Told(r, f)
  <1>1. /\ Told(s, f) = told /\ s.evidence[f] = h /\ (f \in s.orphans) = o
        /\ (f \in s.declined <=> f \in r.declined)
        BY DEF Alike, Told
  <1>2. n \in Nat /\ m \in Nat /\ o \in BOOLEAN /\ n <= m
        BY DEF Recorders, Alike
  <1>3. f \notin r.declined => Balance(A, d \cup u, w, h, o, t, told, n)
        BY DEF Tracked
  <1>4. Tracked(s, st1, d1, u1, w1, t1, A1, f) <=>
           /\ Path(st1, d1, u1, w1, h, o, t1)
           /\ f \notin s.declined => Balance(A1, d1 \cup u1, w1, h, o, t1, told, m)
        BY <1>1 DEF Tracked
  <1>5. Path(st1, d1, u1, w1, h, o, t1)
        OBVIOUS
  <1>6. Spare(d1 \cup u1, w1, h, o, t1) => Spare(d \cup u, w, h, o, t) \/ n < m
        BY DEF Affords
  <1>7. A1 \ ((d1 \cup u1) \cup h \cup told) \subseteq A \ ((d \cup u) \cup h \cup told)
        OBVIOUS
  <1> HIDE DEF h, o, n, m, told
  <1>8. f \notin r.declined => Balance(A1, d1 \cup u1, w1, h, o, t1, told, m)
        BY <1>2, <1>3, <1>6, <1>7, BalanceOn
  <1> QED
        BY <1>1, <1>4, <1>5, <1>8

(* The steps of the sinks leave the other forwards alone.                     *)
Apart(g) ==
    /\ stage'[g] = stage[g] /\ owed'[g] = owed[g] /\ (g \in tickets' <=> g \in tickets)
    /\ accepted'[g] = accepted[g] /\ Sent(dispatch', g) = Sent(dispatch, g)
    /\ Sent(durable', g) = Sent(durable, g) /\ Alike(recorder, recorder', g)

(* They stay tracked.                                                         *)
LEMMA ApartTracks ==
  ASSUME RunInv, NEW g \in Forward, Tracks(g), recorder' \in Recorders, Apart(g)
  PROVE  Tracks(g)'
PROOF
  <1> DEFINE d == UNION Sent(dispatch, g)
             u == UNION Sent(durable, g)
             w == UNION owed[g]
             ticket == g \in tickets
             A == accepted[g]
             st == stage[g]
             r == recorder
             s == recorder'
  <1>1. ticket \in BOOLEAN
        OBVIOUS
  <1>2. A \in SUBSET Half /\ r \in Recorders /\ s \in Recorders /\ Alike(r, s, g)
        BY WaysAreTyped DEF Apart
  <1>3. Tracked(r, st, d, u, w, ticket, A, g)
        BY DEF Tracks
  <1>4. Tracks(g)' = Tracked(s, st, d, u, w, ticket, A, g)
        BY DEF Tracks, Apart
  <1> HIDE DEF d, u, w, ticket, A, st, r, s
  <1>5. Path(st, d, u, w, r.evidence[g], g \in r.orphans, ticket)
        BY <1>3 DEF Tracked
  <1>7. Affords(r, s, g, d \cup u, w, ticket, d \cup u, w, ticket)
        BY DEF Affords
  <1>8. A \ (d \cup u) \subseteq A \ (d \cup u)
        OBVIOUS
  <1>6. Tracked(s, st, d, u, w, ticket, A, g)
        BY <1>1, <1>2, <1>3, <1>5, <1>7, <1>8, TrackedOn
  <1> QED
        BY <1>4, <1>6

(* A queue gets events b of one forward.                                      *)
Extends(q, p, f, b) ==
    /\ \A g \in Forward \ {f} :
          /\ Sent(p, g) = Sent(q, g) /\ \A h : Once(q, g, h) => Once(p, g, h)
          /\ TerminalIsLast(q, g) => TerminalIsLast(p, g)
    /\ Sent(p, f) = Sent(q, f) \cup b
    /\ \A h : /\ Once(q, f, h) /\ h # "refused"
              /\ h \in UNION b => h \notin UNION Sent(q, f)
              => Once(p, f, h)
    /\ /\ TerminalIsLast(q, f)
       /\ (UNION b) \cap (Terminal \cup {"refused"}) # {} => (UNION Sent(q, f)) \cap Terminal = {}
       => TerminalIsLast(p, f)

(* It gets one, or none.                                                      *)
LEMMA QueueExtends ==
  ASSUME NEW X, NEW q \in Seq(X), NEW f \in Forward, NEW e, Has(f, e) \in X
  PROVE  Extends(q, Append(q, Has(f, e)), f, {e}) /\ Extends(q, q, f, {})
PROOF
  <1> DEFINE x == Has(f, e)
             p == Append(q, x)
  <1>1. \A g : Comes(q, p, x, g)
        BY AppendComes
  <1>2. x.forward = f /\ x.evidence = e
        BY DEF Has
  <1> HIDE DEF p, x
  <1>3. \A g \in Forward \ {f} : Sent(p, g) = Sent(q, g) /\ (\A h : Once(q, g, h) => Once(p, g, h))
                                 /\ (TerminalIsLast(q, g) => TerminalIsLast(p, g))
        BY <1>1, <1>2 DEF Comes
  <1>4. Extends(q, p, f, {e})
        BY <1>1, <1>2, <1>3 DEF Comes, Extends
  <1>5. Extends(q, q, f, {})
        BY DEF Extends
  <1> QED
        BY <1>4, <1>5 DEF p, x

(* An event that is offered is queued and accepted, or neither.               *)
LEMMA TrySendExtends ==
  ASSUME RunInv, NEW f \in Forward, NEW e, Has(f, e) \in Stored, TrySend(f, e)
  PROVE  \E b \in SUBSET {e} :
            /\ Extends(durable, durable', f, b)
            /\ accepted'[f] = accepted[f] \cup ((UNION b) \cap Half)
            /\ \A g \in Forward \ {f} : accepted'[g] = accepted[g]
            /\ HasRoom => b = {e}
PROOF
  <1>1. durable \in Seq(Stored) /\ accepted \in [Forward -> SUBSET Half]
        BY DEF RunInv, FlowTypes
  <1>2. CASE HasRoom
    <2>1. durable' = Append(durable, Has(f, e)) /\ accepted' = [accepted EXCEPT ![f] = @ \cup (e \cap Half)]
          BY <1>2 DEF TrySend, Take
    <2>2. Extends(durable, durable', f, {e})
          BY <1>1, <2>1, QueueExtends
    <2>3. /\ accepted'[f] = accepted[f] \cup ((UNION {e}) \cap Half)
          /\ \A g \in Forward \ {f} : accepted'[g] = accepted[g]
          BY <1>1, <2>1
    <2>4. {e} \in SUBSET {e}
          OBVIOUS
    <2> QED
          BY <1>2, <2>2, <2>3, <2>4
  <1>3. CASE ~HasRoom
    <2>1. durable' = durable /\ accepted' = accepted
          BY <1>3 DEF TrySend
    <2>2. Extends(durable, durable', f, {})
          BY <1>1, <2>1, QueueExtends
    <2>3. /\ accepted'[f] = accepted[f] \cup ((UNION {}) \cap Half)
          /\ \A g \in Forward \ {f} : accepted'[g] = accepted[g]
          BY <2>1
    <2>4. {} \in SUBSET {e}
          OBVIOUS
    <2> QED
          BY <1>3, <2>2, <2>3, <2>4
  <1> QED
        BY <1>2, <1>3

(* What is common to the steps of the sinks: the queues are extended for f,   *)
(* and the other forwards are left alone.                                     *)
SinkStep(f, b, c) ==
    /\ recorder' \in Recorders /\ \A g \in Forward : Alike(recorder, recorder', g)
    /\ Extends(dispatch, dispatch', f, b) /\ Extends(durable, durable', f, c)
    /\ accepted'[f] \in SUBSET Half
    /\ \A g \in Forward \ {f} :
          /\ stage'[g] = stage[g] /\ owed'[g] = owed[g] /\ (g \in tickets' <=> g \in tickets)
          /\ accepted'[g] = accepted[g]

(* So it is enough to look at f.                                              *)
LEMMA SinkTracks ==
  ASSUME RunInv, PathInv, NEW f \in Forward, NEW b, NEW c, SinkStep(f, b, c),
         InOrder(f)',
         Path(stage'[f], (UNION Sent(dispatch, f)) \cup UNION b, (UNION Sent(durable, f)) \cup UNION c,
              UNION owed'[f], recorder.evidence[f], f \in recorder.orphans, f \in tickets'),
         accepted'[f] \subseteq accepted[f] \cup (UNION b) \cup (UNION c),
         Affords(recorder, recorder', f, (UNION Sent(dispatch, f)) \cup (UNION Sent(durable, f)), UNION owed[f],
                 f \in tickets, ((UNION Sent(dispatch, f)) \cup UNION b) \cup ((UNION Sent(durable, f)) \cup UNION c),
                 UNION owed'[f], f \in tickets')
  PROVE  PathInv'
PROOF
  <1>1. ASSUME NEW g \in Forward \ {f}
        PROVE  Tracks(g)' /\ InOrder(g)'
    <2>1. Tracks(g) /\ InOrder(g)
          BY DEF PathInv
    <2>2. Apart(g)
          BY DEF SinkStep, Apart, Extends
    <2>3. Tracks(g)'
          BY <2>1, <2>2, ApartTracks DEF SinkStep
    <2>4. InOrder(g)'
          BY <2>1 DEF InOrder, SinkStep, Extends
    <2> QED
          BY <2>3, <2>4
  <1>2. Tracks(f)'
    <2> DEFINE d == UNION Sent(dispatch, f)
               u == UNION Sent(durable, f)
               w == UNION owed[f]
               t == f \in tickets
               A == accepted[f]
               st == stage[f]
               d1 == d \cup UNION b
               u1 == u \cup UNION c
               w1 == UNION owed'[f]
               t1 == f \in tickets'
               A1 == accepted'[f]
               st1 == stage'[f]
               r == recorder
               s == recorder'
    <2>1. t \in BOOLEAN /\ t1 \in BOOLEAN
          OBVIOUS
    <2>2. A \in SUBSET Half /\ A1 \in SUBSET Half /\ r \in Recorders /\ s \in Recorders /\ Alike(r, s, f)
          BY WaysAreTyped DEF SinkStep
    <2>3. Tracked(r, st, d, u, w, t, A, f)
          BY DEF PathInv, Tracks
    <2>4. UNION Sent(dispatch', f) = d1 /\ UNION Sent(durable', f) = u1
          BY DEF SinkStep, Extends
    <2>5. Tracks(f)' = Tracked(s, st1, d1, u1, w1, t1, A1, f)
          BY <2>4 DEF Tracks
    <2>6. /\ Path(st1, d1, u1, w1, r.evidence[f], f \in r.orphans, t1)
          /\ Affords(r, s, f, d \cup u, w, t, d1 \cup u1, w1, t1)
          OBVIOUS
    <2>7. A1 \ (d1 \cup u1) \subseteq A \ (d \cup u)
      <3>1. A1 \subseteq A \cup (UNION b) \cup (UNION c)
            OBVIOUS
      <3> HIDE DEF A, A1, d, u
      <3> QED
            BY <3>1
    <2> HIDE DEF d, u, w, t, A, st, d1, u1, w1, t1, A1, st1, r, s
    <2>8. Tracked(s, st1, d1, u1, w1, t1, A1, f)
          BY <2>1, <2>2, <2>3, <2>6, <2>7, TrackedOn
    <2> QED
          BY <2>5, <2>8
  <1> QED
        BY <1>1, <1>2 DEF PathInv

(* The names of what is on the way of f, before a step and after it.          *)
LEMMA WaysBefore ==
  ASSUME RunInv, PathInv, NEW f \in Forward
  PROVE  /\ Path(stage[f], UNION Sent(dispatch, f), UNION Sent(durable, f), UNION owed[f],
                 recorder.evidence[f], f \in recorder.orphans, f \in tickets)
         /\ InOrder(f)
         /\ Typed(UNION Sent(dispatch, f), UNION Sent(durable, f), UNION owed[f], recorder.evidence[f])
  BY WaysAreTyped DEF PathInv, Tracks, Tracked

(* A body is read, or the exchange ends without an answer.                    *)
LEMMA ExchangeTracks ==
  ASSUME RunInv, PathInv, NEW f \in Forward, Send(f) \/ Fail(f) \/ Cancel(f)
  PROVE  PathInv'
PROOF
  <1>1. /\ UNCHANGED <<dispatch, tickets, durable, recorder, accepted>>
        /\ stage \in [Forward -> {"new", "sent", "done"}] /\ owed \in [Forward -> SUBSET Owable]
        /\ dispatch \in Seq(Dispatched) /\ durable \in Seq(Stored) /\ recorder \in Recorders
        /\ accepted \in [Forward -> SUBSET Half]
        BY DEF Send, Fail, Cancel, RunInv, FlowTypes
  <1>2. /\ \A g \in Forward \ {f} : stage'[g] = stage[g] /\ owed'[g] = owed[g]
        /\ \/ stage[f] = "new" /\ stage'[f] = "sent"
           \/ stage[f] = "sent" /\ stage'[f] = "done"
        BY <1>1 DEF Send, Fail, Cancel
  <1>3. SinkStep(f, {}, {})
    <2>1. Extends(dispatch, dispatch, f, {}) /\ Extends(durable, durable, f, {})
          BY DEF Extends
    <2>2. \A g \in Forward : Alike(recorder, recorder', g)
          BY <1>1 DEF Alike, Recorders
    <2> QED
          BY <1>1, <1>2, <2>1, <2>2 DEF SinkStep
  <1>4. /\ Path(stage[f], UNION Sent(dispatch, f), UNION Sent(durable, f), UNION owed[f],
                recorder.evidence[f], f \in recorder.orphans, f \in tickets)
        /\ InOrder(f)
        /\ Typed(UNION Sent(dispatch, f), UNION Sent(durable, f), UNION owed[f], recorder.evidence[f])
        BY WaysBefore
  <1>5. /\ \/ /\ stage[f] = "new" /\ stage'[f] = "sent"
              /\ UNION owed'[f] \subseteq {"request", "shed", "analysis"}
           \/ /\ stage[f] = "sent" /\ stage'[f] = "done"
              /\ UNION owed'[f] \subseteq (UNION owed[f]) \cup {"failure"}
        /\ \A x \in owed'[f], y \in owed'[f] : "request" \in x \cap y => x = y
    <2>1. CASE Send(f)
      <3>1. CASE f \in Chat
        <4>1. owed' = owed /\ UNION owed[f] = {} /\ stage[f] = "new"
              BY <1>4, <2>1, <3>1 DEF Send, Path
        <4> QED
              BY <1>2, <1>4, <4>1 DEF InOrder
      <3>2. CASE f \notin Chat
        <4>1. PICK x \in {"shed", "analysis"} :
                 owed'[f] \in {{{"request", "shed"}}, {{"request"}, {x}}, {{"request"}}}
              BY <1>1, <2>1, <3>2 DEF Send
        <4> QED
              BY <1>2, <2>1, <4>1 DEF Send
      <3> QED
            BY <3>1, <3>2
    <2>2. CASE Fail(f)
      <3>1. stage[f] = "sent" /\ \A x \in owed'[f] : x \in owed[f] \/ x = {"failure"}
            BY <1>1, <2>2 DEF Fail
      <3>2. UNION owed'[f] \subseteq (UNION owed[f]) \cup {"failure"}
            BY <3>1
      <3>3. \A x \in owed'[f], y \in owed'[f] : "request" \in x \cap y => x = y
            BY <1>4, <3>1 DEF InOrder
      <3> QED
            BY <1>2, <3>1, <3>2, <3>3
    <2>3. CASE Cancel(f)
      <3>1. stage[f] = "sent" /\ \A x \in owed'[f] : x \in owed[f]
            BY <1>1, <2>3 DEF Cancel
      <3>2. UNION owed'[f] \subseteq (UNION owed[f]) \cup {"failure"}
            BY <3>1
      <3>3. \A x \in owed'[f], y \in owed'[f] : "request" \in x \cap y => x = y
            BY <1>4, <3>1 DEF InOrder
      <3> QED
            BY <1>2, <3>1, <3>2, <3>3
    <2> QED
          BY <2>1, <2>2, <2>3
  <1>6. InOrder(f)'
        BY <1>1, <1>4, <1>5 DEF InOrder
  <1> DEFINE d == UNION Sent(dispatch, f)
             u == UNION Sent(durable, f)
             w == UNION owed[f]
             t == f \in tickets
             st == stage[f]
             d1 == d \cup UNION {}
             u1 == u \cup UNION {}
             w1 == UNION owed'[f]
             t1 == f \in tickets'
             st1 == stage'[f]
             h == recorder.evidence[f]
             o == f \in recorder.orphans
  <1>7. t \in BOOLEAN /\ t1 \in BOOLEAN /\ o \in BOOLEAN
        OBVIOUS
  <1>8. d1 = d /\ u1 = u /\ t1 = t
        BY <1>1
  <1>9. /\ Path(st, d, u, w, h, o, t) /\ Typed(d, u, w, h)
        /\ \/ st = "new" /\ st1 = "sent" /\ w1 \subseteq {"request", "shed", "analysis"}
           \/ st = "sent" /\ st1 = "done" /\ w1 \subseteq w \cup {"failure"}
        BY <1>4, <1>5
  <1>10. /\ Path(st1, d1, u1, w1, h, o, t1)
         /\ Affords(recorder, recorder', f, d \cup u, w, t, d1 \cup u1, w1, t1)
    <2>1. Affords(recorder, recorder', f, d \cup u, w, t, d1 \cup u1, w1, t1)
             <=> \/ recorder.counted[f] < recorder'.counted[f]
                 \/ Spare(d1 \cup u1, w1, h, o, t1) => Spare(d \cup u, w, h, o, t)
          BY DEF Affords
    <2> HIDE DEF d, u, w, t, st, d1, u1, w1, t1, st1, h, o
    <2>2. Path(st1, d1, u1, w1, h, o, t1) /\ ~Spare(d1 \cup u1, w1, h, o, t1)
          BY <1>7, <1>8, <1>9, ExchangeMoves
    <2> QED
          BY <2>1, <2>2
  <1>11. accepted'[f] \subseteq accepted[f] \cup (UNION {}) \cup (UNION {})
        BY <1>1
  <1> QED
        BY <1>3, <1>6, <1>10, <1>11, SinkTracks

(* A recorder that counts a loss knows the same of every forward, and one     *)
(* that changes its context accounting alone does.                            *)
LEMMA CountIsAlike ==
  ASSUME NEW r, Fits(r), NEW f \in Forward, NEW s, s = Count(r, f)
  PROVE  /\ s \in Recorders /\ \A g \in Forward : Alike(r, s, g)
         /\ r.counted[f] < s.counted[f]
PROOF
  <1>1. /\ Fits(s) /\ Memory(s) = Memory(r) /\ s.records = r.records /\ s.declined = r.declined
        /\ s.counted[f] = r.counted[f] + 1
        /\ \A g \in Forward \ {f} : s.counted[g] = r.counted[g]
        BY CountFits
  <1>2. r.counted \in [Forward -> Nat]
        BY DEF Fits, Recorders
  <1> QED
        BY <1>1, <1>2 DEF Alike, Memory, Fits

(* The same of one whose memory and account do not change.                    *)
LEMMA SameIsAlike ==
  ASSUME NEW r \in Recorders, NEW s, Memory(s) = Memory(r), Account(s) = Account(r)
  PROVE  \A g \in Forward : Alike(r, s, g)
PROOF
  <1>1. r.counted \in [Forward -> Nat]
        BY DEF Recorders
  <1> QED
        BY <1>1 DEF Alike, Memory, Account

(* What only one of the queues gets.                                          *)
LEMMA NothingExtends ==
  ASSUME NEW q, NEW f
  PROVE  Extends(q, q, f, {})
  BY DEF Extends

(* The answer of the upstream: the metadata is on its queue with its ticket,  *)
(* or its refusal is counted.                                                 *)
LEMMA AnswerTracks ==
  ASSUME RunInv, PathInv, NEW f \in Forward, Answer(f)
  PROVE  PathInv'
PROOF
  <1>1. /\ stage \in [Forward -> {"new", "sent", "done"}] /\ owed \in [Forward -> SUBSET Owable]
        /\ dispatch \in Seq(Dispatched) /\ durable \in Seq(Stored) /\ recorder \in Recorders
        /\ accepted \in [Forward -> SUBSET Half] /\ Fits(recorder)
        BY RunFacts DEF RunInv, FlowTypes
  <1>2. /\ stage[f] = "sent" /\ stage'[f] = "done" /\ OfferTransport(f)
        /\ \A x \in owed'[f] : x \in owed[f] \/ x = {"response"}
        /\ \A g \in Forward \ {f} : stage'[g] = stage[g] /\ owed'[g] = owed[g]
        BY <1>1 DEF Answer
  <1>3. UNION owed'[f] \subseteq (UNION owed[f]) \cup {"response"}
        BY <1>2
  <1>4. /\ Path(stage[f], UNION Sent(dispatch, f), UNION Sent(durable, f), UNION owed[f],
                recorder.evidence[f], f \in recorder.orphans, f \in tickets)
        /\ InOrder(f)
        /\ Typed(UNION Sent(dispatch, f), UNION Sent(durable, f), UNION owed[f], recorder.evidence[f])
        BY WaysBefore
  <1>5. \A x \in owed'[f], y \in owed'[f] : "request" \in x \cap y => x = y
        BY <1>2, <1>4 DEF InOrder
  <1>6. /\ "transport" \notin UNION Sent(dispatch, f)
        /\ (UNION Sent(durable, f)) \cap Terminal = {}
        BY <1>2, <1>4 DEF Path
  <1> DEFINE d == UNION Sent(dispatch, f)
             u == UNION Sent(durable, f)
             w == UNION owed[f]
             t == f \in tickets
             st == stage[f]
             st1 == stage'[f]
             w1 == UNION owed'[f]
             t1 == f \in tickets'
             h == recorder.evidence[f]
             o == f \in recorder.orphans
  <1>7. t \in BOOLEAN /\ t1 \in BOOLEAN /\ o \in BOOLEAN
        OBVIOUS
  <1>8. Path("sent", d, u, w, h, o, t) /\ Typed(d, u, w, h) /\ w1 \subseteq w \cup {"response"}
        /\ st = "sent" /\ st1 = "done" /\ Path(st, d, u, w, h, o, t)
        BY <1>2, <1>3, <1>4
  <1>9. CASE AdmitsTransport
    <2>1. /\ tickets' = tickets \cup {f} /\ dispatch' = Append(dispatch, Has(f, {"transport"}))
          /\ accepted' = [accepted EXCEPT ![f] = @ \cup ({"transport"} \cap Half)]
          /\ durable' = durable /\ recorder' = recorder
          BY <1>2, <1>9 DEF OfferTransport, Take
    <2>2. Has(f, {"transport"}) \in Dispatched
          BY DEF Has, Dispatched, Dispatchable, Suits, Context
    <2>3. Extends(dispatch, dispatch', f, {{"transport"}}) /\ Extends(durable, durable', f, {})
          BY <1>1, <2>1, <2>2, QueueExtends, NothingExtends
    <2>4. SinkStep(f, {{"transport"}}, {})
      <3>1. \A g \in Forward : Alike(recorder, recorder', g)
            BY <1>1, <2>1, SameIsAlike
      <3> QED
            BY <1>1, <1>2, <2>1, <2>3, <3>1 DEF SinkStep
    <2>5. InOrder(f)'
      <3>1. Once(dispatch', f, "transport") /\ Once(dispatch', f, "response")
            BY <1>4, <1>6, <2>3 DEF InOrder, Extends
      <3> QED
            BY <1>4, <1>5, <2>1, <3>1 DEF InOrder
    <2> DEFINE d1 == d \cup UNION {{"transport"}}
               u1 == u \cup UNION {}
    <2>6. d1 = d \cup {"transport"} /\ u1 = u /\ t1
          BY <2>1
    <2>7. /\ Path("done", d1, u1, w1, h, o, t1)
          /\ Affords(recorder, recorder', f, d \cup u, w, t, d1 \cup u1, w1, t1)
      <3>1. ~Spare(d1 \cup u1, w1, h, o, t1)
               => Affords(recorder, recorder', f, d \cup u, w, t, d1 \cup u1, w1, t1)
            BY DEF Affords
      <3> HIDE DEF d, u, w, t, d1, u1, w1, t1, h, o, st, st1
      <3>2. Path(st1, d1, u1, w1, h, o, t1) /\ ~Spare(d1 \cup u1, w1, h, o, t1)
        <4>1. \/ /\ st = "new" /\ st1 = "sent" /\ d1 = d /\ u1 = u /\ w1 \subseteq {"request", "shed", "analysis"} /\ t1 = t
              \/ /\ st = "sent" /\ st1 = "done"
                 /\ \/ d1 = d \cup {"transport"} /\ u1 = u /\ w1 \subseteq w \cup {"response"} /\ t1
                    \/ d1 = d /\ u1 = u /\ w1 \subseteq w \cup {"failure"} /\ t1 = t
              BY <1>8, <2>6
        <4>2. Path(st, d, u, w, h, o, t) /\ Typed(d, u, w, h) /\ o \in BOOLEAN /\ t \in BOOLEAN /\ t1 \in BOOLEAN
              BY <1>7, <1>8
        <4> QED
            BY ONLY <4>1, <4>2, ExchangeMoves
      <3> QED
            BY <1>8, <3>1, <3>2
    <2>8. accepted'[f] \subseteq accepted[f] \cup (UNION {{"transport"}}) \cup (UNION {})
          BY <1>1, <2>1
    <2> QED
          BY <1>2, <2>4, <2>5, <2>7, <2>8, SinkTracks
  <1>10. CASE ~AdmitsTransport
    <2>1. /\ recorder' = Count(recorder, f) /\ TrySend(f, {"refused"})
          /\ tickets' = tickets /\ dispatch' = dispatch
          BY <1>2, <1>10 DEF OfferTransport
    <2>2. Has(f, {"refused"}) \in Stored
          BY DEF Has, Stored, Storable, Suits, Context
    <2>3. PICK c \in SUBSET {{"refused"}} :
             /\ Extends(durable, durable', f, c)
             /\ accepted'[f] = accepted[f] \cup ((UNION c) \cap Half)
             /\ \A g \in Forward \ {f} : accepted'[g] = accepted[g]
          BY <2>1, <2>2, TrySendExtends
    <2>4. UNION c \subseteq {"refused"}
          OBVIOUS
    <2>5. /\ recorder' \in Recorders /\ \A g \in Forward : Alike(recorder, recorder', g)
          /\ recorder.counted[f] < recorder'.counted[f]
          BY <1>1, <2>1, CountIsAlike
    <2>6. SinkStep(f, {}, c)
      <3>1. Extends(dispatch, dispatch', f, {})
            BY <2>1, NothingExtends
      <3>2. accepted'[f] \in SUBSET Half
            BY <1>1, <2>3
      <3> QED
            BY <1>2, <2>1, <2>3, <2>5, <3>1, <3>2 DEF SinkStep
    <2>7. InOrder(f)'
      <3>1. Once(durable', f, "request") /\ TerminalIsLast(durable', f)
            BY <1>4, <1>6, <2>3, <2>4 DEF InOrder, Extends
      <3> QED
            BY <1>4, <1>5, <2>1, <3>1 DEF InOrder
    <2> DEFINE d1 == d \cup UNION {}
               u1 == u \cup UNION c
    <2>8. d1 = d /\ u \subseteq u1 /\ u1 \subseteq u \cup {"refused"} /\ t1 = t
          BY <2>1, <2>4
    <2>9. Affords(recorder, recorder', f, d \cup u, w, t, d1 \cup u1, w1, t1)
          BY <2>5 DEF Affords
    <2>10. Path("done", d1, u1, w1, h, o, t1)
      <3> HIDE DEF d, u, w, t, d1, u1, w1, t1, h, o
      <3> QED
            BY <1>8, <2>8, RefusalMoves
    <2>11. accepted'[f] \subseteq accepted[f] \cup (UNION {}) \cup (UNION c)
          BY <2>3
    <2> QED
          BY <1>2, <2>6, <2>7, <2>9, <2>10, <2>11, SinkTracks
  <1> QED
        BY <1>9, <1>10

(* A task delivers its request half, an analysis or the failure of its        *)
(* exchange, which is queued or refused.                                      *)
LEMMA DeliverTracks ==
  ASSUME RunInv, PathInv, NEW f \in Forward, NEW e,
         DeliverRequest(f, e) \/ DeliverAnalysis(f, e) \/ (DeliverFailure(f) /\ e = {"failure"})
  PROVE  PathInv'
PROOF
  <1>1. /\ stage \in [Forward -> {"new", "sent", "done"}] /\ owed \in [Forward -> SUBSET Owable]
        /\ dispatch \in Seq(Dispatched) /\ durable \in Seq(Stored) /\ recorder \in Recorders
        /\ accepted \in [Forward -> SUBSET Half] /\ Fits(recorder)
        BY RunFacts DEF RunInv, FlowTypes
  <1>2. /\ Deliver(f, e) /\ TrySend(f, e) /\ stage' = stage /\ dispatch' = dispatch
        /\ \A g \in Forward \ {f} : g \in tickets' <=> g \in tickets
        /\ \/ e \subseteq {"request"} \cup Context /\ tickets' = tickets
           \/ e = {"failure"} /\ tickets' = tickets \ {f}
    <2>1. Deliver(f, e)
          BY DEF DeliverRequest, DeliverAnalysis, DeliverFailure
    <2>2. e \in Owable
          BY <2>1, DeliveryFacts
    <2>3. CarriesRequest(e) \/ CarriesContext(e) => e \subseteq {"request"} \cup Context
          BY <2>2 DEF CarriesRequest, CarriesContext, Owable, Context
    <2> QED
          BY <2>1, <2>3 DEF DeliverRequest, DeliverAnalysis, DeliverFailure
  <1>3. /\ e \in owed[f] /\ owed'[f] = owed[f] \ {e} /\ \A g \in Forward \ {f} : owed'[g] = owed[g]
        BY <1>1, <1>2 DEF Deliver
  <1>4. /\ Path(stage[f], UNION Sent(dispatch, f), UNION Sent(durable, f), UNION owed[f],
                recorder.evidence[f], f \in recorder.orphans, f \in tickets)
        /\ InOrder(f)
        /\ Typed(UNION Sent(dispatch, f), UNION Sent(durable, f), UNION owed[f], recorder.evidence[f])
        BY WaysBefore
  <1>5. recorder' \in Recorders /\ \A g \in Forward : Alike(recorder, recorder', g)
    <2>1. Memory(recorder') = Memory(recorder) /\ Account(recorder') = Account(recorder) /\ recorder' \in Recorders
      <3>1. CASE recorder' = recorder
            BY <1>1, <3>1
      <3>2. CASE DeliverAnalysis(f, e)
        <4> DEFINE v == See(recorder, f)
        <4>1. recorder' = IF HasRoom THEN v ELSE Drop(v, {f})
              BY <3>2 DEF DeliverAnalysis
        <4>2. Fits(v) /\ Memory(v) = Memory(recorder) /\ Account(v) = Account(recorder)
              BY <1>1, SightFits
        <4> HIDE DEF v
        <4>3. Drops(v, Drop(v, {f}), {f})
              BY <4>2, DropFits
        <4> QED
              BY <4>1, <4>2, <4>3 DEF Drops, Fits
      <3> QED
            BY <3>1, <3>2 DEF DeliverRequest, DeliverFailure
    <2> QED
          BY <1>1, <2>1, SameIsAlike
  <1>6. PICK c \in SUBSET {e} :
           /\ Extends(durable, durable', f, c)
           /\ accepted'[f] = accepted[f] \cup ((UNION c) \cap Half)
           /\ \A g \in Forward \ {f} : accepted'[g] = accepted[g]
    <2>1. e # {"response"}
          BY <1>2 DEF Context
    <2>2. Has(f, e) \in Stored
          BY <1>2, <2>1, DeliveryFacts
    <2> QED
          BY <1>2, <2>2, TrySendExtends
  <1>7. UNION c \subseteq e
        OBVIOUS
  <1>8. SinkStep(f, {}, c)
    <2>1. Extends(dispatch, dispatch', f, {})
          BY <1>2, NothingExtends
    <2>2. accepted'[f] \in SUBSET Half
          BY <1>1, <1>6
    <2> QED
          BY <1>2, <1>3, <1>5, <1>6, <2>1, <2>2 DEF SinkStep
  <1> DEFINE d == UNION Sent(dispatch, f)
             u == UNION Sent(durable, f)
             w == UNION owed[f]
             t == f \in tickets
             st == stage[f]
             st1 == stage'[f]
             d1 == d \cup UNION {}
             u1 == u \cup UNION c
             w1 == UNION owed'[f]
             t1 == f \in tickets'
             h == recorder.evidence[f]
             o == f \in recorder.orphans
  <1>9. /\ e \subseteq w /\ w1 \subseteq w /\ d1 = d /\ st1 = st
        /\ u \subseteq u1 /\ u1 \subseteq u \cup e
        BY <1>2, <1>3, <1>7
  <1>10. "request" \in e => "request" \notin w1
         BY <1>3, <1>4 DEF InOrder
  <1>11. Path(st, d, u, w, h, o, t) /\ Typed(d, u, w, h)
         BY <1>4
  <1>12. InOrder(f)'
    <2>1. "request" \in UNION c => "request" \notin u
      <3> HIDE DEF d, u, w, t, st, d1, u1, w1, t1, st1, h, o
      <3> QED
          BY <1>7, <1>9, <1>11 DEF Path
    <2>2. (UNION c) \cap (Terminal \cup {"refused"}) # {} => u \cap Terminal = {}
      <3>1. (UNION c) \cap (Terminal \cup {"refused"}) # {} => w \cap Terminal # {}
        <4>1. ({"request"} \cup Context) \cap (Terminal \cup {"refused"}) = {} /\ "failure" \in Terminal
              BY DEF Context, Terminal
        <4> QED
              BY <1>2, <1>7, <1>9, <4>1
      <3> HIDE DEF d, u, w, t, st, d1, u1, w1, t1, st1, h, o
      <3> QED
          BY <1>11, <3>1 DEF Path
    <2>3. Once(durable', f, "request") /\ TerminalIsLast(durable', f)
          BY <1>4, <1>6, <2>1, <2>2 DEF InOrder, Extends
    <2>4. \A x \in owed'[f], y \in owed'[f] : "request" \in x \cap y => x = y
          BY <1>3, <1>4 DEF InOrder
    <2> QED
          BY <1>2, <1>4, <2>3, <2>4 DEF InOrder
  <1>13. /\ Path(st1, d1, u1, w1, h, o, t1)
         /\ Affords(recorder, recorder', f, d \cup u, w, t, d1 \cup u1, w1, t1)
    <2>1. (Spare(d1 \cup u1, w1, h, o, t1) => Spare(d \cup u, w, h, o, t))
             => Affords(recorder, recorder', f, d \cup u, w, t, d1 \cup u1, w1, t1)
          BY DEF Affords
    <2>2. CASE e \subseteq {"request"} \cup Context /\ tickets' = tickets
      <3>1. t1 = t
            BY <2>2
      <3>2. u1 \subseteq u \cup w /\ u1 \subseteq u \cup ({"request"} \cup Context)
            BY <1>9, <2>2
      <3> HIDE DEF d, u, w, t, st, d1, u1, w1, t1, st1, h, o
      <3>3. "request" \in u1 => "request" \notin w1
            BY <1>9, <1>10, <1>11 DEF Path
      <3>4. /\ Path(st, d, u1, w1, h, o, t)
            /\ Spare(d \cup u1, w1, h, o, t) => Spare(d \cup u, w, h, o, t)
            BY <1>9, <1>11, <3>2, <3>3, QueueMoves
      <3> QED
            BY <1>9, <2>1, <3>1, <3>4
    <2>3. CASE e = {"failure"} /\ tickets' = tickets \ {f}
      <3>1. ~t1 /\ "failure" \in w
            BY <1>9, <2>3
      <3>4. "failure" \notin w1
        <4>1. \A x \in owed[f] : "failure" \in x => x = e
              BY <1>1, <2>3 DEF Owable
        <4> QED
              BY <1>3, <4>1
      <3>5. u1 \subseteq u \cup {"failure"}
            BY <1>9, <2>3
      <3> HIDE DEF d, u, w, t, st, d1, u1, w1, t1, st1, h, o
      <3>2. /\ Path(st, d, u1, w1, h, o, t1)
            /\ Spare(d \cup u1, w1, h, o, t1) => Spare(d \cup u, w, h, o, t)
            BY <1>9, <1>11, <3>1, <3>4, <3>5, FailureMoves
      <3> QED
            BY <1>9, <2>1, <3>2
    <2> QED
          BY <1>2, <2>2, <2>3
  <1>14. accepted'[f] \subseteq accepted[f] \cup (UNION {}) \cup (UNION c)
         BY <1>6
  <1> QED
        BY <1>8, <1>12, <1>13, <1>14, SinkTracks

(* The mark of a failed admission may be followed by the degraded response.   *)
LEMMA DegradedExtends ==
  ASSUME NEW q, NEW p, NEW s, NEW f \in Forward,
         Extends(q, p, f, {{"refused"}}), Extends(p, s, f, {{"response", "refused"}})
  PROVE  Extends(q, s, f, {{"refused"}, {"response", "refused"}})
PROOF
  <1> DEFINE b == {{"refused"}, {"response", "refused"}}
  <1>1. /\ UNION {{"refused"}} = {"refused"} /\ UNION {{"response", "refused"}} = {"response", "refused"}
        /\ UNION b = {"response", "refused"}
        OBVIOUS
  <1>2. \A g \in Forward \ {f} :
          /\ Sent(s, g) = Sent(q, g) /\ \A h : Once(q, g, h) => Once(s, g, h)
          /\ TerminalIsLast(q, g) => TerminalIsLast(s, g)
        BY DEF Extends
  <1>3. /\ Sent(p, f) = Sent(q, f) \cup {{"refused"}}
        /\ Sent(s, f) = Sent(p, f) \cup {{"response", "refused"}}
        BY DEF Extends
  <1>4. Sent(s, f) = Sent(q, f) \cup b /\ UNION Sent(p, f) = (UNION Sent(q, f)) \cup {"refused"}
    <2>1. Sent(s, f) = Sent(q, f) \cup b
          BY <1>3
    <2>2. \A X : UNION (X \cup {{"refused"}}) = (UNION X) \cup {"refused"}
          OBVIOUS
    <2> QED
          BY <1>3, <2>1, <2>2
  <1>5. ASSUME NEW h, Once(q, f, h), h # "refused", h \in UNION b => h \notin UNION Sent(q, f)
        PROVE  Once(s, f, h)
    <2>1. Once(p, f, h)
          BY <1>1, <1>5 DEF Extends
    <2>2. h \in {"response", "refused"} => h \notin UNION Sent(p, f)
          BY <1>1, <1>4, <1>5
    <2> QED
          BY <1>1, <1>5, <2>1, <2>2 DEF Extends
  <1>6. ASSUME TerminalIsLast(q, f),
               (UNION b) \cap (Terminal \cup {"refused"}) # {} => (UNION Sent(q, f)) \cap Terminal = {}
        PROVE  TerminalIsLast(s, f)
    <2>1. (UNION Sent(q, f)) \cap Terminal = {}
          BY <1>1, <1>6
    <2>2. TerminalIsLast(p, f)
          BY <1>6, <2>1 DEF Extends
    <2>3. (UNION Sent(p, f)) \cap Terminal = {}
          BY <1>4, <2>1 DEF Terminal
    <2> QED
          BY <2>2, <2>3 DEF Extends
  <1> HIDE DEF b
  <1>7. Extends(q, s, f, b)
        BY <1>2, <1>4, <1>5, <1>6 DEF Extends
  <1> QED
        BY <1>7 DEF b

(* A task delivers the response half of its forward.                          *)
LEMMA ResponseTracks ==
  ASSUME RunInv, PathInv, NEW f \in Forward, DeliverResponse(f)
  PROVE  PathInv'
PROOF
  <1>1. /\ stage \in [Forward -> {"new", "sent", "done"}] /\ owed \in [Forward -> SUBSET Owable]
        /\ dispatch \in Seq(Dispatched) /\ durable \in Seq(Stored) /\ recorder \in Recorders
        /\ accepted \in [Forward -> SUBSET Half] /\ Fits(recorder) /\ FlowTypes
        BY RunFacts DEF FlowTypes
  <1>2. /\ Deliver(f, {"response"}) /\ stage' = stage /\ tickets' = tickets \ {f}
        BY DEF DeliverResponse
  <1>3. /\ {"response"} \in owed[f] /\ owed'[f] = owed[f] \ {{"response"}}
        /\ \A g \in Forward \ {f} : owed'[g] = owed[g]
        BY <1>1, <1>2 DEF Deliver
  <1>4. /\ Path(stage[f], UNION Sent(dispatch, f), UNION Sent(durable, f), UNION owed[f],
                recorder.evidence[f], f \in recorder.orphans, f \in tickets)
        /\ InOrder(f)
        /\ Typed(UNION Sent(dispatch, f), UNION Sent(durable, f), UNION owed[f], recorder.evidence[f])
        BY WaysBefore
  <1>5. /\ "response" \in UNION owed[f] /\ "response" \notin UNION owed'[f]
        /\ UNION owed'[f] \subseteq UNION owed[f]
    <2>1. \A x \in owed[f] : "response" \in x => x = {"response"}
          BY <1>1 DEF Owable
    <2> QED
          BY <1>3, <2>1
  <1>6. (UNION Sent(dispatch, f)) \cap Terminal = {} /\ (UNION Sent(durable, f)) \cap Terminal = {}
        BY <1>4, <1>5 DEF Path, Terminal
  <1>7. \A x \in owed'[f], y \in owed'[f] : "request" \in x \cap y => x = y
        BY <1>3, <1>4 DEF InOrder
  <1> DEFINE d == UNION Sent(dispatch, f)
             u == UNION Sent(durable, f)
             w == UNION owed[f]
             t == f \in tickets
             st == stage[f]
             st1 == stage'[f]
             w1 == UNION owed'[f]
             t1 == f \in tickets'
             h == recorder.evidence[f]
             o == f \in recorder.orphans
  <1>8. /\ Path(st, d, u, w, h, o, t) /\ Typed(d, u, w, h) /\ w1 \subseteq w /\ "response" \in w \ w1
        /\ ~t1 /\ st1 = st
        BY <1>2, <1>4, <1>5
  <1>9. CASE /\ f \in tickets /\ dispatch' = Append(dispatch, Has(f, {"response"}))
             /\ Take(f, {"response"}) /\ durable' = durable /\ recorder' = recorder
    <2>1. Has(f, {"response"}) \in Dispatched
      <3>1. Suits(f, {"response"})
            BY <1>2, DeliveryFacts
      <3> QED
            BY <3>1 DEF Has, Dispatched, Dispatchable
    <2>2. /\ Extends(dispatch, dispatch', f, {{"response"}}) /\ Extends(durable, durable', f, {})
          BY <1>1, <1>9, <2>1, QueueExtends, NothingExtends
    <2>3. /\ accepted'[f] \in SUBSET Half /\ accepted'[f] \subseteq accepted[f] \cup {"response"}
          /\ \A g \in Forward \ {f} : accepted'[g] = accepted[g]
          BY <1>1, <1>9 DEF Take
    <2>4. SinkStep(f, {{"response"}}, {})
      <3>1. \A g \in Forward : Alike(recorder, recorder', g)
            BY <1>1, <1>9, SameIsAlike
      <3> QED
            BY <1>1, <1>2, <1>3, <1>9, <2>2, <2>3, <3>1 DEF SinkStep
    <2>5. InOrder(f)'
      <3>1. Once(dispatch', f, "transport") /\ Once(dispatch', f, "response")
            BY <1>4, <1>6, <2>2 DEF InOrder, Extends, Terminal
      <3> QED
            BY <1>4, <1>7, <1>9, <3>1 DEF InOrder
    <2> DEFINE d1 == d \cup UNION {{"response"}}
               u1 == u \cup UNION {}
    <2>6. d1 = d \cup {"response"} /\ u1 = u /\ t
          BY <1>9
    <2>7. /\ Path(st1, d1, u1, w1, h, o, t1)
          /\ Affords(recorder, recorder', f, d \cup u, w, t, d1 \cup u1, w1, t1)
      <3>1. (Spare(d1 \cup u1, w1, h, o, t1) => Spare(d \cup u, w, h, o, t))
               => Affords(recorder, recorder', f, d \cup u, w, t, d1 \cup u1, w1, t1)
            BY DEF Affords
      <3> HIDE DEF d, u, w, t, d1, u1, w1, t1, h, o, st, st1
      <3>2. /\ Path(st, d1, u1, w1, h, o, t1)
            /\ ~t \/ u1 = u => (Spare(d1 \cup u1, w1, h, o, t1) => Spare(d \cup u, w, h, o, t))
            BY <1>8, <2>6, ResponseMoves
      <3> QED
            BY <1>8, <2>6, <3>1, <3>2
    <2>8. accepted'[f] \subseteq accepted[f] \cup (UNION {{"response"}}) \cup (UNION {})
          BY <2>3
    <2> QED
          BY <2>4, <2>5, <2>7, <2>8, SinkTracks
  <1>10. CASE /\ recorder' = (IF f \in tickets THEN Count(recorder, f) ELSE recorder)
              /\ dispatch' = dispatch
              /\ \/ accepted' = accepted /\ durable' = durable
                 \/ accepted' = accepted /\ durable' = Append(durable, Has(f, {"refused"}))
                 \/ /\ Take(f, {"response"})
                    /\ durable' = Append(Append(durable, Has(f, {"refused"})), Degraded(f))
    <2>1. PICK c \in {{}, {{"refused"}}, {{"refused"}, {"response", "refused"}}} :
             /\ Extends(durable, durable', f, c)
             /\ accepted'[f] \subseteq accepted[f] \cup UNION c
             /\ accepted'[f] \in SUBSET Half
             /\ \A g \in Forward \ {f} : accepted'[g] = accepted[g]
      <3> DEFINE p == Append(durable, Has(f, {"refused"}))
      <3>1. Has(f, {"refused"}) \in Stored /\ Has(f, {"response", "refused"}) \in Stored
        <4>1. Suits(f, {"response"})
              BY <1>2, DeliveryFacts
        <4> QED
              BY <4>1 DEF Has, Stored, Storable, Suits, Context
      <3>2. Extends(durable, p, f, {{"refused"}}) /\ p \in Seq(Stored)
        <4>1. p \in Seq(Stored)
              BY <1>1, <3>1
        <4> QED
              BY <1>1, <3>1, <4>1, QueueExtends
      <3> HIDE DEF p
      <3>3. Extends(p, Append(p, Degraded(f)), f, {{"response", "refused"}})
            BY <3>1, <3>2, QueueExtends DEF Degraded
      <3>4. Extends(durable, Append(p, Degraded(f)), f, {{"refused"}, {"response", "refused"}})
            BY <3>2, <3>3, DegradedExtends
      <3>5. CASE accepted' = accepted /\ durable' = durable
            BY <1>1, <3>5, NothingExtends
      <3>6. CASE accepted' = accepted /\ durable' = p
            BY <1>1, <3>2, <3>6
      <3>7. CASE Take(f, {"response"}) /\ durable' = Append(p, Degraded(f))
        <4>1. /\ accepted'[f] \in SUBSET Half /\ accepted'[f] \subseteq accepted[f] \cup {"response"}
              /\ \A g \in Forward \ {f} : accepted'[g] = accepted[g]
              BY <1>1, <3>7 DEF Take
        <4> QED
              BY <3>4, <3>7, <4>1
      <3> QED
            BY <1>10, <3>5, <3>6, <3>7 DEF p
    <2>2. UNION c \subseteq {"refused", "response"}
          BY <2>1
    <2>3. /\ recorder' \in Recorders /\ \A g \in Forward : Alike(recorder, recorder', g)
          /\ f \in tickets => recorder.counted[f] < recorder'.counted[f]
      <3>1. CASE f \in tickets
            BY <1>1, <1>10, <3>1, CountIsAlike
      <3>2. CASE f \notin tickets
            BY <1>1, <1>10, <3>2, SameIsAlike
      <3> QED
            BY <3>1, <3>2
    <2>4. SinkStep(f, {}, c)
      <3>1. Extends(dispatch, dispatch', f, {})
            BY <1>10, NothingExtends
      <3> QED
            BY <1>2, <1>3, <2>1, <2>3, <3>1 DEF SinkStep
    <2>5. InOrder(f)'
      <3>1. Once(durable', f, "request") /\ TerminalIsLast(durable', f)
            BY <1>4, <1>6, <2>1, <2>2 DEF InOrder, Extends
      <3> QED
            BY <1>4, <1>7, <1>10, <3>1 DEF InOrder
    <2> DEFINE d1 == d \cup UNION {}
               u1 == u \cup UNION c
    <2>6. d1 = d /\ u \subseteq u1 /\ u1 \subseteq u \cup {"refused", "response"}
          BY <2>2
    <2>7. /\ Path(st1, d1, u1, w1, h, o, t1)
          /\ Affords(recorder, recorder', f, d \cup u, w, t, d1 \cup u1, w1, t1)
      <3>1. t \/ (Spare(d1 \cup u1, w1, h, o, t1) => Spare(d \cup u, w, h, o, t))
               => Affords(recorder, recorder', f, d \cup u, w, t, d1 \cup u1, w1, t1)
            BY <2>3 DEF Affords
      <3> HIDE DEF d, u, w, t, d1, u1, w1, t1, h, o, st, st1
      <3>2. /\ Path(st, d1, u1, w1, h, o, t1)
            /\ ~t \/ u1 = u => (Spare(d1 \cup u1, w1, h, o, t1) => Spare(d \cup u, w, h, o, t))
            BY <1>8, <2>6, ResponseMoves
      <3> QED
            BY <1>8, <3>1, <3>2
    <2>8. accepted'[f] \subseteq accepted[f] \cup (UNION {}) \cup (UNION c)
          BY <2>1
    <2> QED
          BY <2>4, <2>5, <2>7, <2>8, SinkTracks
  <1> QED
        BY <1>1, <1>9, <1>10, ResponseGoes

(* Nothing is on the way of a forward when the run starts.                    *)
LEMMA InitTracks == Init => PathInv
PROOF
  <1> SUFFICES ASSUME Init, NEW g \in Forward
               PROVE  Tracks(g) /\ InOrder(g)
      BY DEF PathInv
  <1>1. /\ stage[g] = "new" /\ owed[g] = {} /\ dispatch = << >> /\ durable = << >> /\ tickets = {}
        /\ accepted[g] = {} /\ recorder = InitialRecorder
        BY DEF Init
  <1>2. /\ recorder.evidence[g] = {} /\ g \notin recorder.orphans /\ g \notin recorder.declined
        /\ recorder.counted[g] = 0
        BY <1>1 DEF InitialRecorder, Blank
  <1>3. UNION Sent(dispatch, g) = {} /\ UNION Sent(durable, g) = {} /\ UNION owed[g] = {}
        BY <1>1 DEF Sent
  <1>4. InOrder(g)
        BY <1>1 DEF InOrder, Once, TerminalIsLast
  <1> DEFINE o == g \in recorder.orphans
             t == g \in tickets
             h == recorder.evidence[g]
             told == Told(recorder, g)
  <1>5. ~o /\ ~t /\ h = {} /\ h # Settled
        BY <1>1, <1>2 DEF Settled
  <1>6. Path("new", {}, {}, {}, h, o, t)
    <2> HIDE DEF o, t, h
    <2> QED
        BY <1>5 DEF Path, Past, Terminal
  <1>7. ~Spare({} \cup {}, {}, h, o, t)
    <2> HIDE DEF o, t, h
    <2> QED
        BY DEF Spare
  <1>8. Balance({}, {} \cup {}, {}, h, o, t, told, 0)
    <2> HIDE DEF o, t, h, told
    <2>1. {} \ (({} \cup {}) \cup h \cup told) = {} /\ Cardinality({}) = 0
          BY FS_EmptySet
    <2> QED
          BY <1>7, <2>1 DEF Balance, Pays
  <1> QED
      BY <1>1, <1>2, <1>3, <1>4, <1>6, <1>8 DEF Tracks, Tracked

(* Every step keeps the forwards tracked.                                     *)
LEMMA NextTracks ==
  ASSUME RunInv, PathInv, [Next]_vars
  PROVE  PathInv'
PROOF
  <1>1. ASSUME NEW f \in Forward, Send(f) \/ Fail(f) \/ Cancel(f)
        PROVE  PathInv'
        BY <1>1, ExchangeTracks
  <1>2. ASSUME NEW f \in Forward, Answer(f)
        PROVE  PathInv'
        BY <1>2, AnswerTracks
  <1>3. ASSUME NEW f \in Forward, DeliverResponse(f)
        PROVE  PathInv'
        BY <1>3, ResponseTracks
  <1>4. ASSUME NEW f \in Forward, DeliverFailure(f)
        PROVE  PathInv'
    <2> DEFINE e == {"failure"}
    <2>1. DeliverFailure(f) /\ e = {"failure"}
          BY <1>4
    <2> HIDE DEF e
    <2> QED
        BY <2>1, DeliverTracks
  <1>5. ASSUME NEW f \in Forward, NEW e \in owed[f], DeliverRequest(f, e) \/ DeliverAnalysis(f, e)
        PROVE  PathInv'
        BY <1>5, DeliverTracks
  <1>6. CASE HandleDispatched
        BY <1>6, DispatchedTracks
  <1>7. CASE HandleDurable
        BY <1>7, DurableTracks
  <1>8. CASE Ingest \/ EndOfRun \/ DrainForward \/ DrainReceipts \/ UNCHANGED vars
        BY <1>8, EndTracks
  <1> QED
      BY <1>1, <1>2, <1>3, <1>4, <1>5, <1>6, <1>7, <1>8 DEF Next, Rest

(* Every half a sink took is in an operation of its forward when the run      *)
(* ends, or paid for by a degradation counted for that forward, or its record *)
(* was declined by the daemon.                                                *)
THEOREM NoEvidenceIsLostSilentlyHolds == Spec => []NoEvidenceIsLostSilently
PROOF
  <1> DEFINE Inv == RunInv /\ PathInv
  <1>1. Init => Inv
        BY InitRuns, InitTracks
  <1>2. Inv /\ [Next]_vars => Inv'
        BY NextRuns, NextTracks
  <1>3. Inv => NoEvidenceIsLostSilently
    <2> SUFFICES ASSUME RunInv, PathInv, phase = "done", NEW f \in Forward \ recorder.declined
                 PROVE  Cardinality(Lost(f)) <= recorder.counted[f]
        BY DEF NoEvidenceIsLostSilently, Finished
    <2>1. /\ dispatch = << >> /\ durable = << >> /\ owed[f] = {} /\ recorder.held = {}
          /\ recorder.evidence[f] = Blank /\ recorder.records[f] \in Seq(Operation)
      <3>1. PhaseFits /\ MemoryFits(recorder) /\ recorder \in Recorders
            BY DEF RunInv, FlowTypes
      <3> QED
            BY <3>1 DEF PhaseFits, MemoryFits, Recorders
    <2>2. UNION Sent(dispatch, f) = {} /\ UNION Sent(durable, f) = {}
          BY <2>1 DEF Sent
    <2>3. Lost(f) = accepted[f] \ (({} \cup {}) \cup {} \cup Told(recorder, f))
      <3>1. Recorded(f) = Elements(recorder.records[f])
            BY DEF Recorded, Elements
      <3> QED
            BY <3>1 DEF Lost, Told
    <2>4. Tracked(recorder, stage[f], {}, {}, UNION owed[f], f \in tickets, accepted[f], f)
          BY <2>2 DEF PathInv, Tracks
    <2> DEFINE o == f \in recorder.orphans
               t == f \in tickets
    <2>5. Balance(accepted[f], {} \cup {}, UNION owed[f], {}, o, t, Told(recorder, f), recorder.counted[f])
          BY <2>1, <2>4 DEF Tracked, Blank
    <2> HIDE DEF o, t
    <2> QED
        BY <2>3, <2>5 DEF Balance, Pays
  <1> HIDE DEF Inv
  <1>4. Inv => NoEvidenceIsLostSilently
        BY <1>3
  <1> QED
      BY <1>1, <1>2, <1>4, PTL DEF Spec
=============================================================================
