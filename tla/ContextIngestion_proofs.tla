---------------------- MODULE ContextIngestion_proofs ----------------------
(* The promises of ContextIngestion for any analyses and any bounds.          *)
EXTENDS IngestionProperties, FiniteSetTheorems, SequenceTheorems, WellFoundedInduction, TLAPS

-----------------------------------------------------------------------------
(* ContextCounters                                                            *)

Kinds == {"complete", "partial", "dropped"}
Fates == {"unseen", "pending"} \cup Kinds

Account ==
    [pending : SUBSET Analysis, evidence : SUBSET Analysis, holes : SUBSET Analysis,
     through : Analysis \cup {-1}, seen : Nat, complete : Nat, partial : Nat, dropped : Nat,
     unreported : [Reason -> Nat], fate : [Analysis -> Fates]]

AccountFits(c) ==
    /\ c \in Account
    /\ c.evidence \subseteq c.pending
    /\ c.pending = {a \in Analysis : c.fate[a] = "pending"}

(* The identity of an analysis that has ended is known to have.               *)
Known(c) == \A a \in Analysis : c.fate[a] \in Kinds => IsTerminal(c, a)

(* What is known of the identities of analyses is true.                       *)
Sound(c) == \A a \in Analysis : IsTerminal(c, a) => c.fate[a] \in Kinds

(* ContextCounters keeps bounded evidence and a bounded number of identities.  *)
Bounded(c) ==
    /\ Cardinality(c.evidence) <= EvidenceItems
    /\ Cardinality(c.holes) <= TerminalIdentities

Count(c, k) == Cardinality({a \in Analysis : c.fate[a] = k})

Tells(c) ==
    /\ c.seen = Cardinality(Analysis) - Count(c, "unseen")
    /\ c.complete = Count(c, "complete")
    /\ c.partial = Count(c, "partial")
    /\ c.dropped = Count(c, "dropped")

(* The drops whose report a client has taken.                                 *)
Taken(c) == c.dropped - Total(c.unreported)

(* Of two accounts, the second is the first after S ended as kind.            *)
Ends(c, d, S, kind) ==
    /\ AccountFits(d)
    /\ d.fate = [a \in Analysis |-> IF a \in S THEN kind ELSE c.fate[a]]
    /\ d.seen = c.seen
    /\ d.complete = c.complete + (IF kind = "complete" THEN Cardinality(S) ELSE 0)
    /\ d.partial = c.partial + (IF kind = "partial" THEN Cardinality(S) ELSE 0)
    /\ d.dropped = c.dropped + (IF kind = "dropped" THEN Cardinality(S) ELSE 0)

(* A finite set of numbers has a greatest and a least element.                *)
LEMMA MaxExists ==
    ASSUME NEW S \in SUBSET Int, S # {}, IsFiniteSet(S)
    PROVE  Max(S) \in S /\ \A y \in S : Max(S) >= y
<1> DEFINE Topless == {n \in Nat : \E R \in SUBSET S :
                          R # {} /\ Cardinality(R) = n /\ \A x \in R : \E y \in R : y > x}
<1>1. Topless = {}
  <2>1. SUFFICES ASSUME Topless # {} PROVE FALSE  OBVIOUS
  <2>2. PICK n \in Topless : \A m \in Topless : ~(m < n)
    <3>1. Topless \subseteq Nat  OBVIOUS
    <3> HIDE DEF Topless
    <3>2. PICK n \in Topless : \A m \in Topless : <<m, n>> \notin OpToRel(<, Nat)
          BY <2>1, <3>1, WFMin, NatLessThanWellFounded
    <3>3. \A m \in Topless : n \in Nat /\ m \in Nat /\ ~(m < n)
          BY <3>1, <3>2 DEF OpToRel
    <3> QED  BY <3>3
  <2>3. PICK R \in SUBSET S : R # {} /\ Cardinality(R) = n /\ \A x \in R : \E y \in R : y > x
        OBVIOUS
  <2>4. PICK e \in R : TRUE  BY <2>3
  <2>5. PICK f \in R : f > e  BY <2>3, <2>4
  <2> DEFINE Q == R \ {e}
  <2>6. IsFiniteSet(R)  BY FS_Subset
  <2>7. Cardinality(Q) = Cardinality(R) - 1 /\ Cardinality(Q) \in Nat
        BY <2>4, <2>6, FS_RemoveElement, FS_CardinalityType
  <2>8. f \in Q  BY <2>5, <2>4
  <2>9. \A x \in Q : \E y \in Q : y > x
    <3>1. SUFFICES ASSUME NEW x \in Q PROVE \E y \in Q : y > x  OBVIOUS
    <3>2. PICK y \in R : y > x  BY <2>3
    <3>3. CASE y # e  BY <3>2, <3>3
    <3>4. CASE y = e  BY <3>2, <3>4, <2>5, <2>8
    <3> QED  BY <3>3, <3>4
  <2>10. Cardinality(Q) \in Topless  BY <2>7, <2>8, <2>9
  <2>11. Cardinality(Q) < n
    <3>1. n \in Nat  OBVIOUS
    <3> QED  BY <2>3, <2>7, <3>1
  <2> QED  BY <2>2, <2>10, <2>11
<1>2. Cardinality(S) \in Nat  BY FS_CardinalityType
<1>3. \E x \in S : \A y \in S : x >= y  BY <1>1, <1>2
<1> QED  BY <1>3 DEF Max

(* RecordTerminal leaves identities of analyses, and a watermark of one.      *)
(* A nonempty set of numbers has a least element.                             *)
LEMMA MinExists ==
    ASSUME NEW S \in SUBSET Nat, S # {}
    PROVE  Min(S) \in S /\ \A y \in S : Min(S) <= y
<1>1. PICK x \in S : \A y \in S : <<y, x>> \notin OpToRel(<, Nat)
      BY WFMin, NatLessThanWellFounded
<1>2. \A y \in S : x \in Nat /\ y \in Nat /\ ~(y < x)
      BY <1>1 DEF OpToRel
<1>3. \E m \in S : \A y \in S : m <= y
      BY <1>2
<1> QED  BY <1>3 DEF Min

(* record_terminal changes the evidence, the watermark and the holes, and     *)
(* keeps them analyses.                                                       *)
LEMMA RecordFits ==
    ASSUME NEW c \in Account, NEW S \in SUBSET Analysis
    PROVE  /\ RecordTerminal(c, S) = [c EXCEPT
                !.evidence = @ \ S, !.through = RecordTerminal(c, S).through,
                !.holes = RecordTerminal(c, S).holes]
           /\ RecordTerminal(c, S).through \in Analysis \cup {-1}
           /\ RecordTerminal(c, S).holes \in SUBSET Analysis
<1> USE IngestionAssumption
<1> DEFINE known == c.holes \cup {a \in S : a > c.through}
           folded == {h \in known : c.through + 1 .. h \subseteq known}
           above == known \ folded
           kept == {h \in above : Cardinality({g \in above : g > h}) < TerminalIdentities}
<1>1. RecordTerminal(c, S) = [c EXCEPT !.evidence = @ \ S,
                                       !.through = Max({@} \cup folded), !.holes = kept]
      BY DEF RecordTerminal
<1>2. known \in SUBSET Analysis  BY DEF Account
<1>3. folded \in SUBSET Analysis /\ kept \in SUBSET Analysis  BY <1>2
<1> HIDE DEF known, folded, above, kept
<1>4. {c.through} \cup folded \in SUBSET (Analysis \cup {-1})  BY <1>3 DEF Account
<1>5. IsFiniteSet({c.through} \cup folded)
  <2>1. IsFiniteSet(folded)  BY <1>3, FS_Subset
  <2>2. IsFiniteSet(folded \cup {c.through})  BY <2>1, FS_AddElement
  <2>3. folded \cup {c.through} = {c.through} \cup folded  OBVIOUS
  <2> QED  BY <2>2, <2>3
<1>6. Max({c.through} \cup folded) \in {c.through} \cup folded
  <2>1. {c.through} \cup folded \in SUBSET Int
    <3>1. Analysis \subseteq Int  OBVIOUS
    <3>2. -1 \in Int  OBVIOUS
    <3>3. \A x \in {c.through} \cup folded : x \in Analysis \/ x = -1  BY <1>4
    <3> QED  BY <3>1, <3>2, <3>3
  <2>2. {c.through} \cup folded # {}  OBVIOUS
  <2> DEFINE W == {c.through} \cup folded
  <2> SUFFICES Max(W) \in W  OBVIOUS
  <2> HIDE DEF W
  <2>3. W \in SUBSET Int /\ W # {} /\ IsFiniteSet(W)  BY <1>5, <2>1, <2>2 DEF W
  <2> QED  BY <2>3, MaxExists
<1> DEFINE top == Max({c.through} \cup folded)
<1>7. top \in Analysis \cup {-1}  BY <1>4, <1>6
<1>8. RecordTerminal(c, S) = [c EXCEPT !.evidence = @ \ S, !.through = top, !.holes = kept]
      BY <1>1
<1> HIDE DEF top
<1> QED  BY <1>3, <1>7, <1>8 DEF Account

(* Ending some pending analyses counts them as their kind, and nothing        *)
(* else.                                                                      *)
LEMMA EndedEnds ==
    ASSUME NEW c, AccountFits(c), NEW S \in SUBSET c.pending, NEW kind \in Kinds
    PROVE  /\ Ends(c, Ended(c, S, kind), S, kind)
           /\ Ended(c, S, kind).unreported = c.unreported
           /\ Ended(c, S, kind).pending = c.pending \ S
<1> DEFINE r == RecordTerminal(c, S)
           t == r.through
           h == r.holes
           n == Cardinality(S)
           fates == [a \in Analysis |-> IF a \in S THEN kind ELSE c.fate[a]]
           d == Ended(c, S, kind)
<1>1. c \in Account /\ S \in SUBSET Analysis  BY DEF AccountFits, Account
<1>2. r = [c EXCEPT !.evidence = @ \ S, !.through = t, !.holes = h]
      BY <1>1, RecordFits
<1>3. t \in Analysis \cup {-1} /\ h \in SUBSET Analysis  BY <1>1, RecordFits
<1>4. n \in Nat
  <2>1. IsFiniteSet(S)  BY <1>1, FS_Subset, IngestionAssumption
  <2> QED  BY <2>1, FS_CardinalityType
<1>5. d = [r EXCEPT !.pending = @ \ S, ![kind] = @ + n,
                    !.fate = [a \in Analysis |-> IF a \in S THEN kind ELSE @[a]]]
      BY DEF Ended
<1> HIDE DEF r, t, h, n, d
<1>6. fates \in [Analysis -> Fates]
      BY <1>1 DEF Account, Fates
<1>7. d = [[[c EXCEPT !.evidence = @ \ S, !.through = t, !.holes = h]
              EXCEPT !.pending = @ \ S, ![kind] = @ + n] EXCEPT !.fate = fates]
      BY <1>1, <1>2, <1>5 DEF Account, Kinds
<1>8. c.pending \ S = {a \in Analysis : fates[a] = "pending"}
      BY DEF AccountFits, Kinds
<1> DEFINE e == c.evidence \ S
           p == c.pending \ S
<1>9. e \in SUBSET Analysis /\ p \in SUBSET Analysis  BY <1>1 DEF Account
<1>10. d = [[[c EXCEPT !.evidence = e, !.through = t, !.holes = h]
               EXCEPT !.pending = p, ![kind] = @ + n] EXCEPT !.fate = fates]
       BY <1>1, <1>7 DEF Account, Kinds
<1>11. c.complete \in Nat /\ c.partial \in Nat /\ c.dropped \in Nat  BY <1>1 DEF Account
<1> HIDE DEF fates, e, p
<1>12. /\ d \in Account /\ d.evidence = e /\ d.pending = p
       /\ d.fate = fates /\ d.seen = c.seen /\ d.unreported = c.unreported
       /\ d.complete = c.complete + (IF kind = "complete" THEN n ELSE 0)
       /\ d.partial = c.partial + (IF kind = "partial" THEN n ELSE 0)
       /\ d.dropped = c.dropped + (IF kind = "dropped" THEN n ELSE 0)
  <2>1. CASE kind = "complete"
    <3>1. d = [[[c EXCEPT !.evidence = e, !.through = t, !.holes = h]
                 EXCEPT !.pending = p, !.complete = @ + n] EXCEPT !.fate = fates]
          BY ONLY <1>10, <2>1, Zenon
    <3> DEFINE m == c.complete + n
    <3>2. m \in Nat  BY <1>4, <1>11
    <3>3. d = [c EXCEPT !.evidence = e, !.through = t, !.holes = h, !.pending = p,
                        !.complete = m, !.fate = fates]
          BY <1>1, <3>1 DEF Account
    <3> HIDE DEF m
    <3>4. /\ d \in Account /\ d.evidence = e /\ d.pending = p
          /\ d.fate = fates /\ d.seen = c.seen /\ d.unreported = c.unreported
          BY <1>1, <1>3, <1>6, <1>9, <3>2, <3>3 DEF Account
    <3>5. d.complete = m /\ d.partial = c.partial /\ d.dropped = c.dropped
          BY <1>1, <3>3 DEF Account
    <3> QED  BY <1>4, <1>11, <2>1, <3>4, <3>5 DEF m
  <2>2. CASE kind = "partial"
    <3>1. d = [[[c EXCEPT !.evidence = e, !.through = t, !.holes = h]
                 EXCEPT !.pending = p, !.partial = @ + n] EXCEPT !.fate = fates]
          BY ONLY <1>10, <2>2, Zenon
    <3> DEFINE m == c.partial + n
    <3>2. m \in Nat  BY <1>4, <1>11
    <3>3. d = [c EXCEPT !.evidence = e, !.through = t, !.holes = h, !.pending = p,
                        !.partial = m, !.fate = fates]
          BY <1>1, <3>1 DEF Account
    <3> HIDE DEF m
    <3>4. /\ d \in Account /\ d.evidence = e /\ d.pending = p
          /\ d.fate = fates /\ d.seen = c.seen /\ d.unreported = c.unreported
          BY <1>1, <1>3, <1>6, <1>9, <3>2, <3>3 DEF Account
    <3>5. d.complete = c.complete /\ d.partial = m /\ d.dropped = c.dropped
          BY <1>1, <3>3 DEF Account
    <3> QED  BY <1>4, <1>11, <2>2, <3>4, <3>5 DEF m
  <2>3. CASE kind = "dropped"
    <3>1. d = [[[c EXCEPT !.evidence = e, !.through = t, !.holes = h]
                 EXCEPT !.pending = p, !.dropped = @ + n] EXCEPT !.fate = fates]
          BY ONLY <1>10, <2>3, Zenon
    <3> DEFINE m == c.dropped + n
    <3>2. m \in Nat  BY <1>4, <1>11
    <3>3. d = [c EXCEPT !.evidence = e, !.through = t, !.holes = h, !.pending = p,
                        !.dropped = m, !.fate = fates]
          BY <1>1, <3>1 DEF Account
    <3> HIDE DEF m
    <3>4. /\ d \in Account /\ d.evidence = e /\ d.pending = p
          /\ d.fate = fates /\ d.seen = c.seen /\ d.unreported = c.unreported
          BY <1>1, <1>3, <1>6, <1>9, <3>2, <3>3 DEF Account
    <3>5. d.complete = c.complete /\ d.partial = c.partial /\ d.dropped = m
          BY <1>1, <3>3 DEF Account
    <3> QED  BY <1>4, <1>11, <2>3, <3>4, <3>5 DEF m
  <2> QED  BY <2>1, <2>2, <2>3 DEF Kinds
<1>13. AccountFits(d)
  <2>1. e \subseteq p  BY DEF AccountFits, e, p
  <2> QED  BY <1>8, <1>12, <2>1 DEF AccountFits, p
<1> QED  BY <1>12, <1>13 DEF Ends, d, n, fates, p

(* The totals follow the fates.                                               *)
LEMMA CountsAreFinite ==
    \A S \in SUBSET Analysis : IsFiniteSet(S) /\ Cardinality(S) \in Nat
BY IngestionAssumption, FS_Subset, FS_CardinalityType

(* The counters go on counting the fates when analyses end.                   *)
LEMMA EndsTell ==
    ASSUME NEW c, AccountFits(c), NEW S \in SUBSET c.pending, NEW kind \in Kinds,
           NEW d, Ends(c, d, S, kind), Tells(c)
    PROVE  Tells(d)
<1>1. S \in SUBSET Analysis /\ \A a \in S : c.fate[a] = "pending"
      BY DEF AccountFits, Account
<1>2. ASSUME NEW k \in Fates, k # "pending"
      PROVE  Count(d, k) = Count(c, k) + (IF kind = k THEN Cardinality(S) ELSE 0)
  <2> DEFINE B == {a \in Analysis : c.fate[a] = k}
             A == {a \in Analysis : d.fate[a] = k}
  <2>1. CASE kind = k
    <3>1. A = B \cup S /\ B \cap S = {}
          BY <1>1, <1>2, <2>1 DEF Ends
    <3>2. B \in SUBSET Analysis  OBVIOUS
    <3> HIDE DEF A, B
    <3>3. IsFiniteSet(B) /\ IsFiniteSet(S) /\ Cardinality(B) \in Nat /\ Cardinality(S) \in Nat
          BY <1>1, <3>2, CountsAreFinite
    <3>4. Cardinality(B \cup S) = Cardinality(B) + Cardinality(S) - Cardinality(B \cap S)
          BY <3>3, FS_Union
    <3>5. Cardinality(B \cap S) = 0  BY <3>1, FS_EmptySet
    <3>6. Cardinality(A) = Cardinality(B) + Cardinality(S)
          BY <3>1, <3>3, <3>4, <3>5
    <3> QED  BY <2>1, <3>6 DEF Count, A, B
  <2>2. CASE kind # k
    <3>1. A = B  BY <1>1, <1>2, <2>2 DEF Ends
    <3>2. Cardinality(B) \in Nat  BY CountsAreFinite
    <3> QED  BY <2>2, <3>1, <3>2 DEF Count
  <2> QED  BY <2>1, <2>2
<1>3. {"unseen", "complete", "partial", "dropped"} \subseteq Fates /\ kind # "unseen"
      BY DEF Fates, Kinds
<1>4. Count(d, "unseen") = Count(c, "unseen")
  <2>1. {a \in Analysis : d.fate[a] = "unseen"} = {a \in Analysis : c.fate[a] = "unseen"}
        BY <1>1, <1>3 DEF Ends
  <2> QED  BY <2>1 DEF Count
<1> QED  BY <1>2, <1>3, <1>4 DEF Tells, Ends

(* EnsureSeen starts an analysis, or knows of it already.                     *)
LEMMA SeeFits ==
    ASSUME NEW c, AccountFits(c), NEW a \in Analysis
    PROVE  LET d == EnsureSeen(c, a)
           IN  /\ AccountFits(d)
               /\ d.unreported = c.unreported /\ d.evidence = c.evidence
               /\ d.through = c.through /\ d.holes = c.holes
               /\ d.complete = c.complete /\ d.partial = c.partial /\ d.dropped = c.dropped
               /\ \/ d = c /\ (a \in c.pending \/ IsTerminal(c, a))
                  \/ /\ a \notin c.pending /\ ~IsTerminal(c, a)
                     /\ d.fate = [c.fate EXCEPT ![a] = "pending"]
                     /\ d.seen = c.seen + 1
                     /\ d.pending = c.pending \cup {a}
<1> DEFINE d == EnsureSeen(c, a)
<1>1. CASE a \in c.pending \/ IsTerminal(c, a)
      BY <1>1 DEF EnsureSeen
<1>2. CASE ~(a \in c.pending \/ IsTerminal(c, a))
  <2> DEFINE p == c.pending \cup {a}
             n == c.seen + 1
             f == [c.fate EXCEPT ![a] = "pending"]
  <2>1. c \in Account  BY DEF AccountFits
  <2>2. d = [c EXCEPT !.pending = p, !.seen = n, !.fate = f]
        BY <1>2, <2>1 DEF EnsureSeen, Account
  <2>3. p \in SUBSET Analysis /\ n \in Nat /\ f \in [Analysis -> Fates]
        BY <2>1 DEF Account, Fates
  <2>4. p = {x \in Analysis : f[x] = "pending"} /\ c.evidence \subseteq p
        BY <2>1 DEF AccountFits, Account
  <2> HIDE DEF p, n, f
  <2>5. d \in Account /\ d.pending = p /\ d.seen = n /\ d.fate = f
        BY <2>1, <2>2, <2>3 DEF Account
  <2>6. /\ d.unreported = c.unreported /\ d.evidence = c.evidence
        /\ d.through = c.through /\ d.holes = c.holes
        /\ d.complete = c.complete /\ d.partial = c.partial /\ d.dropped = c.dropped
        BY <2>1, <2>2 DEF Account
  <2>7. AccountFits(d)  BY <2>4, <2>5, <2>6 DEF AccountFits
  <2> QED  BY <1>2, <2>5, <2>6, <2>7 DEF p, n, f
<1> QED  BY <1>1, <1>2

(* They also do when an analysis is first seen.                               *)
LEMMA SeeTells ==
    ASSUME NEW c, AccountFits(c), Known(c), Tells(c), NEW a \in Analysis
    PROVE  Tells(EnsureSeen(c, a))
<1> DEFINE d == EnsureSeen(c, a)
<1>1. CASE d = c  BY <1>1
<1>2. CASE d # c
  <2>1. /\ a \notin c.pending /\ ~IsTerminal(c, a)
        /\ d.fate = [c.fate EXCEPT ![a] = "pending"] /\ d.seen = c.seen + 1
        /\ d.complete = c.complete /\ d.partial = c.partial /\ d.dropped = c.dropped
        BY <1>2, SeeFits
  <2> HIDE DEF d
  <2>2. c.fate \in [Analysis -> Fates] /\ c.seen \in Nat  BY DEF AccountFits, Account
  <2>3. c.fate[a] = "unseen"
        BY <2>1, <2>2 DEF Known, Fates, AccountFits
  <2> DEFINE B == {x \in Analysis : c.fate[x] = "unseen"}
             A == {x \in Analysis : d.fate[x] = "unseen"}
  <2>4. A = B \ {a} /\ a \in B
        BY <2>1, <2>2, <2>3
  <2>5. B \in SUBSET Analysis  OBVIOUS
  <2>6. \A k \in Kinds : Count(d, k) = Count(c, k)
    <3>1. SUFFICES ASSUME NEW k \in Kinds PROVE Count(d, k) = Count(c, k)  OBVIOUS
    <3>2. {x \in Analysis : d.fate[x] = k} = {x \in Analysis : c.fate[x] = k}
          BY <2>1, <2>2, <2>3 DEF Kinds
    <3> QED  BY <3>2 DEF Count
  <2>7. Count(d, "unseen") = Cardinality(A) /\ Count(c, "unseen") = Cardinality(B)
        BY DEF Count
  <2> HIDE DEF A, B
  <2>8. Cardinality(A) = Cardinality(B) - 1
        BY <2>4, <2>5, CountsAreFinite, FS_RemoveElement
  <2>9. Cardinality(Analysis) \in Nat /\ Cardinality(B) \in Nat
        BY <2>5, CountsAreFinite
  <2>10. Tells(d)
         BY <2>1, <2>2, <2>6, <2>7, <2>8, <2>9 DEF Tells, Kinds
  <2> QED  BY <2>10 DEF d
<1> QED  BY <1>1, <1>2

(* RememberRequest adds evidence of a pending analysis.                       *)
LEMMA RememberFits ==
    ASSUME NEW c, AccountFits(c), NEW a \in Analysis
    PROVE  LET d == RememberRequest(c, a)
           IN  /\ AccountFits(d)
               /\ d.fate = c.fate /\ d.pending = c.pending /\ d.seen = c.seen
               /\ d.complete = c.complete /\ d.partial = c.partial /\ d.dropped = c.dropped
               /\ d.unreported = c.unreported /\ d.through = c.through /\ d.holes = c.holes
<1> DEFINE d == RememberRequest(c, a)
           e == c.evidence \cup {a}
<1>1. CASE d = c  BY <1>1
<1>2. CASE d # c
  <2>1. a \in c.pending /\ d = [c EXCEPT !.evidence = e]
        BY <1>2 DEF RememberRequest
  <2>2. c \in Account /\ e \in SUBSET Analysis /\ e \subseteq c.pending
        BY <2>1 DEF AccountFits, Account
  <2> HIDE DEF d, e
  <2>3. d \in Account /\ d.evidence = e /\ d.fate = c.fate /\ d.pending = c.pending
        BY <2>1, <2>2 DEF Account
  <2>4. /\ d.complete = c.complete /\ d.partial = c.partial /\ d.dropped = c.dropped
        /\ d.unreported = c.unreported /\ d.through = c.through /\ d.holes = c.holes
        /\ d.seen = c.seen
        BY <2>1, <2>2 DEF Account
  <2>5. AccountFits(d)  BY <2>2, <2>3 DEF AccountFits
  <2> QED  BY <2>3, <2>4, <2>5 DEF d
<1> QED  BY <1>1, <1>2

(* While no more analyses are than identities are kept, none is forgotten.    *)
NoneForgotten == Cardinality(Analysis) <= TerminalIdentities

(* While none is forgotten, what was known to be terminal or is recorded      *)
(* now stays known.                                                           *)
LEMMA RecordKnows ==
    ASSUME NoneForgotten, NEW c \in Account, NEW S \in SUBSET Analysis,
           NEW a \in Analysis, IsTerminal(c, a) \/ a \in S
    PROVE  IsTerminal(RecordTerminal(c, S), a)
<1> DEFINE known == c.holes \cup {x \in S : x > c.through}
           folded == {h \in known : c.through + 1 .. h \subseteq known}
           above == known \ folded
           Newer(h) == Cardinality({g \in above : g > h})
           kept == {h \in above : Newer(h) < TerminalIdentities}
           r == RecordTerminal(c, S)
           tops == {c.through} \cup folded
<1>1. r.through = Max(tops) /\ r.holes = kept
      BY DEF RecordTerminal, Account
<1>2. known \in SUBSET Analysis  BY DEF Account
<1>3. folded \in SUBSET Analysis /\ above \in SUBSET Analysis  BY <1>2
<1>4. Analysis \subseteq Nat /\ TerminalIdentities \in Nat  BY IngestionAssumption
<1>5. c.through \in Int /\ a \in Int
  <2>1. c.through \in Analysis \cup {-1}  BY DEF Account
  <2> DEFINE w == c.through
  <2>2. w \in Analysis \/ w = -1  BY <2>1
  <2> HIDE DEF w
  <2>3. CASE w \in Analysis
    <3>1. w \in Nat  BY ONLY <1>4, <2>3
    <3> QED  BY ONLY <1>4, <3>1 DEF w
  <2>4. CASE w = -1
    <3>1. w \in Int  BY ONLY <2>4
    <3> QED  BY ONLY <1>4, <3>1 DEF w
  <2> QED  BY <2>2, <2>3, <2>4
<1>13. kept = above
  <2>1. SUFFICES ASSUME NEW h \in above PROVE Newer(h) < TerminalIdentities  OBVIOUS
  <2> DEFINE G == {g \in above : g > h}
  <2> HIDE DEF above
  <2>2. G \in SUBSET (Analysis \ {h}) /\ h \in Analysis
    <3>1. h \in Analysis /\ \A g \in G : g \in Analysis /\ g > h  BY <1>3
    <3>2. h \in Int  BY <1>4, <3>1
    <3>3. \A g \in G : g # h
      <4>1. SUFFICES ASSUME NEW g \in G, g = h PROVE FALSE  OBVIOUS
      <4>2. h > h  BY <3>1, <4>1
      <4> QED  BY <3>2, <4>2
    <3> QED  BY <3>1, <3>3
  <2> HIDE DEF G
  <2>3. IsFiniteSet(Analysis \ {h}) /\ Cardinality(Analysis \ {h}) = Cardinality(Analysis) - 1
        BY <2>2, CountsAreFinite, FS_RemoveElement
  <2>4. Cardinality(G) <= Cardinality(Analysis \ {h})
        BY <2>2, <2>3, FS_Subset
  <2>5. Cardinality(Analysis) \in Nat /\ Cardinality(G) \in Nat
        BY <2>2, CountsAreFinite
  <2>6. Cardinality(G) < TerminalIdentities
        BY <1>4, <2>3, <2>4, <2>5 DEF NoneForgotten
  <2> QED  BY <2>6 DEF G
<1> HIDE DEF folded, kept, r, tops, Newer
<1>6. tops \in SUBSET Int
  <2>1. Analysis \in SUBSET Int  BY <1>4
  <2>2. folded \in SUBSET Int  BY <1>3, <2>1
  <2> QED  BY <1>5, <2>2 DEF tops
<1>7. IsFiniteSet(tops)
  <2>1. IsFiniteSet(folded)  BY <1>3, CountsAreFinite
  <2>2. IsFiniteSet(folded \cup {c.through})  BY <2>1, FS_AddElement
  <2>3. folded \cup {c.through} = tops  BY DEF tops
  <2> QED  BY <2>2, <2>3
<1>8. \A y \in tops : Max(tops) >= y
  <2>1. tops # {}  BY DEF tops
  <2> QED  BY <1>6, <1>7, <2>1, MaxExists
<1>9. Max(tops) \in Int
  <2>1. tops # {}  BY DEF tops
  <2> QED  BY <1>6, <1>7, <2>1, MaxExists
<1>10. a <= c.through \/ a \in known
  <2> QED  BY <1>5 DEF IsTerminal
<1>11. CASE a <= c.through
  <2>1. Max(tops) >= c.through  BY <1>8 DEF tops
  <2>2. a <= r.through  BY <1>1, <1>9, <1>5, <1>11, <2>1
  <2> QED  BY <2>2 DEF IsTerminal, r
<1>12. CASE a \in known
  <2>1. CASE a \in folded
    <3>1. Max(tops) >= a  BY <1>8, <2>1 DEF tops
    <3>2. a <= r.through  BY <1>1, <1>5, <1>9, <3>1
    <3> QED  BY <3>2 DEF IsTerminal, r
  <2>2. CASE a \notin folded
    <3>1. a \in r.holes  BY <1>1, <1>12, <1>13, <2>2
    <3> QED  BY <3>1 DEF IsTerminal, r
  <2> QED  BY <2>1, <2>2
<1> QED  BY <1>10, <1>11, <1>12

(* Seeing an analysis forgets nothing.                                        *)
LEMMA SeeKnows ==
    ASSUME NEW c, AccountFits(c), Known(c), NEW a \in Analysis
    PROVE  Known(EnsureSeen(c, a))
<1> DEFINE d == EnsureSeen(c, a)
<1>1. /\ d.through = c.through /\ d.holes = c.holes
      /\ d = c \/ d.fate = [c.fate EXCEPT ![a] = "pending"]
      BY SeeFits
<1> HIDE DEF d
<1>2. c.fate \in [Analysis -> Fates]  BY DEF AccountFits, Account
<1>3. ASSUME NEW x \in Analysis, d.fate[x] \in Kinds
      PROVE  IsTerminal(d, x)
  <2>1. c.fate[x] \in Kinds
        BY <1>1, <1>2, <1>3 DEF Kinds
  <2> QED  BY <1>1, <2>1 DEF Known, IsTerminal
<1>4. Known(d)  BY <1>3 DEF Known
<1> QED  BY <1>4 DEF d

(* RecordTerminal makes only the analyses it records known.                   *)
LEMMA RecordIsSound ==
    ASSUME NEW c \in Account, NEW S \in SUBSET Analysis,
           NEW a \in Analysis, IsTerminal(RecordTerminal(c, S), a)
    PROVE  IsTerminal(c, a) \/ a \in S
<1> DEFINE known == c.holes \cup {x \in S : x > c.through}
           folded == {h \in known : c.through + 1 .. h \subseteq known}
           above == known \ folded
           Newer(h) == Cardinality({g \in above : g > h})
           kept == {h \in above : Newer(h) < TerminalIdentities}
           r == RecordTerminal(c, S)
           tops == {c.through} \cup folded
<1>1. r.through = Max(tops) /\ r.holes = kept
      BY DEF RecordTerminal, Account
<1>2. known \in SUBSET Analysis  BY DEF Account
<1>3. folded \in SUBSET Analysis /\ kept \subseteq known  BY <1>2
<1>4. Analysis \subseteq Nat  BY IngestionAssumption
<1>5. known \subseteq c.holes \cup S  OBVIOUS
<1>6. \A h \in folded : c.through + 1 .. h \subseteq known  OBVIOUS
<1> HIDE DEF known, folded, kept, r, tops, Newer
<1>7. c.through \in Int /\ a \in Int
  <2> DEFINE w == c.through
  <2>1. w \in Analysis \/ w = -1  BY DEF Account
  <2> HIDE DEF w
  <2>2. CASE w \in Analysis
    <3>1. w \in Nat  BY ONLY <1>4, <2>2
    <3> QED  BY ONLY <1>4, <3>1 DEF w
  <2>3. CASE w = -1
    <3>1. w \in Int  BY ONLY <2>3
    <3> QED  BY ONLY <1>4, <3>1 DEF w
  <2> QED  BY <2>1, <2>2, <2>3
<1>8. Max(tops) \in tops
  <2>1. Analysis \in SUBSET Int  BY <1>4
  <2>2. folded \in SUBSET Int  BY <1>3, <2>1
  <2>3. tops \in SUBSET Int /\ tops # {}  BY <1>7, <2>2 DEF tops
  <2>4. IsFiniteSet(folded)  BY <1>3, CountsAreFinite
  <2>5. IsFiniteSet(folded \cup {c.through})  BY <2>4, FS_AddElement
  <2>6. folded \cup {c.through} = tops  BY DEF tops
  <2> QED  BY <2>3, <2>5, <2>6, MaxExists
<1>9. CASE a \in r.holes
      BY <1>1, <1>3, <1>5, <1>9 DEF IsTerminal
<1>10. CASE a <= r.through
  <2>1. CASE Max(tops) = c.through
        BY <1>1, <1>10, <2>1 DEF IsTerminal
  <2>2. CASE Max(tops) \in folded
    <3> DEFINE h == Max(tops)
    <3>1. h \in Int /\ a <= h
      <4>1. h \in Analysis  BY <1>3, <2>2
      <4>2. h \in Nat  BY ONLY <1>4, <4>1
      <4>3. a <= h  BY <1>1, <1>10
      <4> QED  BY ONLY <4>2, <4>3
    <3>2. c.through + 1 .. h \subseteq known  BY <1>6, <2>2
    <3> HIDE DEF h
    <3>3. CASE a <= c.through  BY <3>3 DEF IsTerminal
    <3>4. CASE ~(a <= c.through)
      <4>1. a \in c.through + 1 .. h  BY <1>7, <3>1, <3>4
      <4> QED  BY <1>5, <3>2, <4>1 DEF IsTerminal
    <3> QED  BY <3>3, <3>4
  <2> QED  BY <1>8, <2>1, <2>2 DEF tops
<1> QED  BY <1>9, <1>10 DEF IsTerminal, r

(* An analysis that is seen is not yet known to be terminal.                  *)
LEMMA SeeIsSound ==
    ASSUME NEW c, AccountFits(c), Sound(c), NEW a \in Analysis
    PROVE  Sound(EnsureSeen(c, a))
<1> DEFINE d == EnsureSeen(c, a)
<1>1. /\ d.through = c.through /\ d.holes = c.holes
      /\ d = c \/ (d.fate = [c.fate EXCEPT ![a] = "pending"] /\ ~IsTerminal(c, a))
      BY SeeFits
<1> HIDE DEF d
<1>2. c.fate \in [Analysis -> Fates]  BY DEF AccountFits, Account
<1>3. ASSUME NEW x \in Analysis, IsTerminal(d, x)
      PROVE  d.fate[x] \in Kinds
  <2>1. IsTerminal(c, x)  BY <1>1, <1>3 DEF IsTerminal
  <2> QED  BY <1>1, <1>2, <2>1 DEF Sound
<1>4. Sound(d)  BY <1>3 DEF Sound
<1> QED  BY <1>4 DEF d

(* An end of analyses records them terminal.                                  *)
LEMMA EndedRecords ==
    ASSUME NEW c, AccountFits(c), NEW S \in SUBSET c.pending, NEW kind \in Kinds
    PROVE  /\ Ended(c, S, kind).through = RecordTerminal(c, S).through
           /\ Ended(c, S, kind).holes = RecordTerminal(c, S).holes
<1> DEFINE r == RecordTerminal(c, S)
           d == Ended(c, S, kind)
<1>9. c \in Account /\ S \in SUBSET Analysis  BY DEF AccountFits, Account
<1> DEFINE t == r.through  h == r.holes
<1>1. r = [c EXCEPT !.evidence = @ \ S, !.through = t, !.holes = h]
      BY <1>9, RecordFits
<1>2. DOMAIN r = DOMAIN c
  <2> HIDE DEF r, t, h
  <2> QED  BY <1>1
<1> HIDE DEF r, t, h
<1>3. "through" \in DOMAIN r /\ "holes" \in DOMAIN r
      BY <1>9, <1>2 DEF Account
<1>4. d = [r EXCEPT !.pending = @ \ S, ![kind] = @ + Cardinality(S),
                    !.fate = [a \in Analysis |-> IF a \in S THEN kind ELSE @[a]]]
      BY DEF Ended, r
<1>5. kind # "through" /\ kind # "holes"  BY DEF Kinds
<1> HIDE DEF d
<1>6. d.through = t /\ d.holes = h  BY <1>3, <1>4, <1>5 DEF t, h
<1> QED  BY <1>6 DEF d, t, h, r

(* No evidence is kept of what has ended.                                     *)
LEMMA EndedEvidence ==
    ASSUME NEW c, AccountFits(c), NEW S \in SUBSET c.pending, NEW kind \in Kinds
    PROVE  Ended(c, S, kind).evidence = c.evidence \ S
<1> DEFINE r == RecordTerminal(c, S)
           d == Ended(c, S, kind)
           t == r.through  h == r.holes
<1>1. c \in Account /\ S \in SUBSET Analysis  BY DEF AccountFits, Account
<1>2. r = [c EXCEPT !.evidence = @ \ S, !.through = t, !.holes = h]
      BY <1>1, RecordFits
<1> HIDE DEF r, t, h
<1>3. r.evidence = c.evidence \ S /\ "evidence" \in DOMAIN r
      BY <1>1, <1>2 DEF Account
<1>4. d = [r EXCEPT !.pending = @ \ S, ![kind] = @ + Cardinality(S),
                    !.fate = [a \in Analysis |-> IF a \in S THEN kind ELSE @[a]]]
      BY DEF Ended, r
<1>5. kind # "evidence"  BY DEF Kinds
<1> HIDE DEF d
<1>6. d.evidence = c.evidence \ S  BY <1>3, <1>4, <1>5
<1> QED  BY <1>6 DEF d

(* What ends is known to have ended.                                          *)
LEMMA EndedKnows ==
    ASSUME NoneForgotten, NEW c, AccountFits(c), Known(c),
           NEW S \in SUBSET c.pending, NEW kind \in Kinds
    PROVE  Known(Ended(c, S, kind))
<1> DEFINE r == RecordTerminal(c, S)
           d == Ended(c, S, kind)
<1>1. c \in Account /\ S \in SUBSET Analysis  BY DEF AccountFits, Account
<1>2. \A a \in Analysis : IsTerminal(c, a) \/ a \in S => IsTerminal(r, a)
      BY <1>1, RecordKnows
<1>3. d.through = r.through /\ d.holes = r.holes  BY EndedRecords
<1>4. Ends(c, d, S, kind)  BY EndedEnds
<1> HIDE DEF r, d
<1>5. ASSUME NEW x \in Analysis, d.fate[x] \in Kinds
      PROVE  IsTerminal(d, x)
  <2>1. c.fate[x] \in Kinds \/ x \in S  BY <1>4, <1>5 DEF Ends
  <2>2. IsTerminal(r, x)  BY <1>2, <2>1 DEF Known
  <2> QED  BY <1>3, <2>2 DEF IsTerminal
<1>6. Known(d)  BY <1>5 DEF Known
<1> QED  BY <1>6 DEF d

(* Nothing else is known to have ended.                                       *)
LEMMA EndedIsSound ==
    ASSUME NEW c, AccountFits(c), Sound(c), NEW S \in SUBSET c.pending, NEW kind \in Kinds
    PROVE  Sound(Ended(c, S, kind))
<1> DEFINE r == RecordTerminal(c, S)
           d == Ended(c, S, kind)
<1>1. c \in Account /\ S \in SUBSET Analysis  BY DEF AccountFits, Account
<1>2. \A a \in Analysis : IsTerminal(r, a) => IsTerminal(c, a) \/ a \in S
      BY <1>1, RecordIsSound
<1>3. d.through = r.through /\ d.holes = r.holes  BY EndedRecords
<1>4. Ends(c, d, S, kind)  BY EndedEnds
<1> HIDE DEF r, d
<1>5. ASSUME NEW x \in Analysis, IsTerminal(d, x)
      PROVE  d.fate[x] \in Kinds
  <2>1. IsTerminal(r, x)  BY <1>3, <1>5 DEF IsTerminal
  <2>2. c.fate[x] \in Kinds \/ x \in S  BY <1>2, <2>1 DEF Sound
  <2> QED  BY <1>4, <2>2 DEF Ends
<1>6. Sound(d)  BY <1>5 DEF Sound
<1> QED  BY <1>6 DEF d

(* Of numbers, as many are kept as are asked for.                             *)
LEMMA FewAreKept ==
    ASSUME NEW A \in SUBSET Analysis
    PROVE  Cardinality({h \in A : Cardinality({g \in A : g > h}) < TerminalIdentities})
             <= TerminalIdentities
<1> USE IngestionAssumption
<1> DEFINE K == {h \in A : Cardinality({g \in A : g > h}) < TerminalIdentities}
           n == Min(K)
           above == {g \in A : g > n}
<1>1. IsFiniteSet(A)  BY FS_Subset
<1>2. IsFiniteSet(K) /\ IsFiniteSet(above)  BY <1>1, FS_Subset
<1>3. Cardinality(K) \in Nat /\ Cardinality(above) \in Nat /\ TerminalIdentities \in Nat
      BY <1>2, FS_CardinalityType
<1>4. CASE K = {}
  <2>1. Cardinality(K) = 0  BY <1>4, FS_EmptySet
  <2> QED  BY <1>3, <2>1
<1>5. CASE K # {}
  <2>1. K \in SUBSET Nat  OBVIOUS
  <2> HIDE DEF K
  <2>2. n \in K /\ \A y \in K : n <= y  BY <1>5, <2>1, MinExists
  <2>3. Cardinality(above) < TerminalIdentities  BY <2>2 DEF K
  <2>4. K \ {n} \in SUBSET above
    <3>1. \A y \in K : y \in A /\ y \in Nat  BY <2>1 DEF K
    <3> HIDE DEF n
    <3> QED  BY <2>1, <2>2, <3>1
  <2> HIDE DEF n, above
  <2>5. Cardinality(K \ {n}) <= Cardinality(above)  BY <1>2, <2>4, FS_Subset
  <2>6. Cardinality(K \ {n}) = Cardinality(K) - 1  BY <1>2, <2>2, FS_RemoveElement
  <2>7. Cardinality(K) <= TerminalIdentities  BY ONLY <1>3, <2>3, <2>5, <2>6
  <2> QED  BY <2>7 DEF K
<1> QED  BY <1>4, <1>5

(* An end of analyses keeps the bounds of ContextCounters.                    *)
LEMMA EndedIsBounded ==
    ASSUME NEW c, AccountFits(c), Bounded(c), NEW S \in SUBSET c.pending, NEW kind \in Kinds
    PROVE  Bounded(Ended(c, S, kind))
<1> DEFINE r == RecordTerminal(c, S)
           d == Ended(c, S, kind)
           known == c.holes \cup {a \in S : a > c.through}
           above == known \ {h \in known : c.through + 1 .. h \subseteq known}
<1>1. c \in Account /\ S \in SUBSET Analysis  BY DEF AccountFits, Account
<1>2. above \in SUBSET Analysis  BY <1>1 DEF Account
<1>3. d.holes = {h \in above : Cardinality({g \in above : g > h}) < TerminalIdentities}
  <2>1. d.holes = r.holes  BY EndedRecords
  <2>2. r.holes = {h \in above : Cardinality({g \in above : g > h}) < TerminalIdentities}
        BY <1>1 DEF RecordTerminal, Account
  <2> QED  BY <2>1, <2>2
<1>4. d.evidence = c.evidence \ S  BY EndedEvidence
<1> HIDE DEF above, d
<1>5. Cardinality(d.holes) <= TerminalIdentities  BY <1>2, <1>3, FewAreKept
<1>6. Cardinality(d.evidence) <= EvidenceItems
  <2>1. IsFiniteSet(c.evidence)  BY <1>1, FS_Subset, IngestionAssumption DEF Account
  <2>2. d.evidence \in SUBSET c.evidence  BY <1>4
  <2>3. IsFiniteSet(d.evidence) /\ Cardinality(d.evidence) <= Cardinality(c.evidence)
        BY <2>1, <2>2, FS_Subset
  <2>4. /\ Cardinality(c.evidence) \in Nat /\ Cardinality(d.evidence) \in Nat
        /\ EvidenceItems \in Nat /\ Cardinality(c.evidence) <= EvidenceItems
        BY <2>1, <2>3, FS_CardinalityType, IngestionAssumption DEF Bounded
  <2> QED  BY ONLY <2>3, <2>4
<1>7. Bounded(d)  BY <1>5, <1>6 DEF Bounded
<1> QED  BY <1>7 DEF d

(* Evidence is kept within its bound.                                         *)
LEMMA RememberIsBounded ==
    ASSUME NEW c, AccountFits(c), Bounded(c), NEW a \in Analysis
    PROVE  Bounded(RememberRequest(c, a))
<1> DEFINE e == c.evidence \cup {a}
<1>1. c \in Account /\ IsFiniteSet(c.evidence)
      BY FS_Subset, IngestionAssumption DEF AccountFits, Account
<1>2. CASE RememberRequest(c, a) = c  BY <1>2
<1>3. CASE RememberRequest(c, a) # c
  <2>1. /\ RememberRequest(c, a) = [c EXCEPT !.evidence = e]
        /\ a \in c.evidence \/ Cardinality(c.evidence) < EvidenceItems
        BY <1>3 DEF RememberRequest
  <2>2. Cardinality(e) = IF a \in c.evidence THEN Cardinality(c.evidence)
                         ELSE Cardinality(c.evidence) + 1
        BY <1>1, FS_AddElement
  <2>3. Cardinality(c.evidence) \in Nat /\ EvidenceItems \in Nat
        /\ Cardinality(c.evidence) <= EvidenceItems
        BY <1>1, FS_CardinalityType, IngestionAssumption DEF Bounded
  <2>4. Cardinality(e) <= EvidenceItems  BY ONLY <2>1, <2>2, <2>3
  <2> HIDE DEF e
  <2>5. RememberRequest(c, a).evidence = e /\ RememberRequest(c, a).holes = c.holes
        BY <1>1, <2>1 DEF Account
  <2> QED  BY <2>4, <2>5 DEF Bounded
<1> QED  BY <1>2, <1>3

(* What every way to end analyses does to the account.                        *)
Concludes(c, d, S, kind) ==
    /\ Ends(c, d, S, kind)
    /\ d.pending = c.pending \ S
    /\ Taken(d) = Taken(c)
    /\ Tells(c) => Tells(d)
    /\ NoneForgotten /\ Known(c) => Known(d)
    /\ Sound(c) => Sound(d)
    /\ Bounded(c) => Bounded(d)

(* mark_terminal with a counter: a pending analysis ends once, what is not    *)
(* pending does not.                                                          *)
LEMMA EndConcludes ==
    ASSUME NEW c, AccountFits(c), NEW a \in Analysis, NEW kind \in {"complete", "partial"}
    PROVE  Concludes(c, End(c, a, kind), {a} \cap c.pending, kind)
<1> DEFINE S == {a} \cap c.pending
           d == Ended(c, S, kind)
<1>1. S \in SUBSET c.pending  OBVIOUS
<1>2. kind \in Kinds  BY DEF Kinds
<1> HIDE DEF S
<1>3. /\ Ends(c, d, S, kind) /\ d.unreported = c.unreported /\ d.pending = c.pending \ S
      BY <1>1, <1>2, EndedEnds
<1>4. NoneForgotten /\ Known(c) => Known(d)
      BY <1>1, <1>2, EndedKnows
<1>8. Sound(c) => Sound(d)  BY <1>1, <1>2, EndedIsSound
<1>9. Bounded(c) => Bounded(d)  BY <1>1, <1>2, EndedIsBounded
<1> HIDE DEF d
<1>5. Tells(c) => Tells(d)
      BY <1>1, <1>2, <1>3, EndsTell
<1>6. Taken(d) = Taken(c)
  <2>1. d.dropped = c.dropped
    <3>1. c.dropped \in Nat /\ kind # "dropped"  BY DEF AccountFits, Account
    <3> QED  BY <1>3, <3>1 DEF Ends
  <2> QED  BY <1>3, <2>1 DEF Taken
<1>7. Concludes(c, d, S, kind)  BY <1>3, <1>4, <1>5, <1>6, <1>8, <1>9 DEF Concludes
<1> QED  BY <1>7 DEF End, d, S

(* A drop also counts what is to be reported.                                 *)
LEMMA DropsConclude ==
    ASSUME NEW c, AccountFits(c), NEW S \in SUBSET c.pending, NEW reason \in Reason
    PROVE  Concludes(c, [Ended(c, S, "dropped") EXCEPT !.unreported[reason] = @ + Cardinality(S)],
                     S, "dropped")
<1> DEFINE kind == "dropped"
           e == Ended(c, S, kind)
           n == Cardinality(S)
           u == [c.unreported EXCEPT ![reason] = @ + n]
           d == [e EXCEPT !.unreported[reason] = @ + n]
<1>1. kind \in Kinds  BY DEF Kinds
<1>2. n \in Nat
  <2>1. S \in SUBSET Analysis  BY DEF AccountFits, Account
  <2> QED  BY <2>1, CountsAreFinite
<1>3. kind = "dropped"  OBVIOUS
<1> HIDE DEF kind
<1>4. Ends(c, e, S, kind) /\ e.unreported = c.unreported /\ e.pending = c.pending \ S
      BY <1>1, EndedEnds
<1>5. /\ NoneForgotten /\ Known(c) => Known(e)
      /\ Sound(c) => Sound(e)
      /\ Bounded(c) => Bounded(e)
      BY <1>1, EndedKnows, EndedIsSound, EndedIsBounded
<1> HIDE DEF e
<1>6. e \in Account /\ e.evidence \subseteq e.pending
      /\ e.pending = {a \in Analysis : e.fate[a] = "pending"}
      BY <1>4 DEF Ends, AccountFits
<1>7. c.unreported \in [Reason -> Nat] /\ c.dropped \in Nat
      BY DEF AccountFits, Account
<1>8. u \in [Reason -> Nat]  BY <1>2, <1>7
<1>9. d = [e EXCEPT !.unreported = u]  BY <1>4, <1>6 DEF Account
<1>10. Total(u) = Total(c.unreported) + n
       BY <1>2, <1>7 DEF Total, Reason
<1> HIDE DEF u, d
<1>11. d \in Account /\ d.unreported = u  BY <1>6, <1>8, <1>9 DEF Account
<1>12. /\ d.evidence = e.evidence /\ d.pending = e.pending /\ d.fate = e.fate
       /\ d.seen = e.seen /\ d.complete = e.complete /\ d.partial = e.partial
       /\ d.dropped = e.dropped /\ d.through = e.through /\ d.holes = e.holes
       BY <1>6, <1>9 DEF Account
<1>13. Ends(c, d, S, kind)
  <2>1. AccountFits(d)  BY <1>6, <1>11, <1>12 DEF AccountFits
  <2> QED  BY <1>4, <1>12, <2>1 DEF Ends
<1>14. Tells(c) => Tells(d)  BY <1>1, <1>13, EndsTell
<1>15. /\ NoneForgotten /\ Known(c) => Known(d)
       /\ Sound(c) => Sound(d)
       /\ Bounded(c) => Bounded(d)
       BY <1>5, <1>12 DEF Known, Sound, IsTerminal, Bounded
<1>16. Taken(d) = Taken(c)
  <2>1. d.dropped = c.dropped + n  BY <1>3, <1>13 DEF Ends, n
  <2>2. Total(c.unreported) \in Int  BY <1>7 DEF Total, Reason
  <2> HIDE DEF n
  <2> QED  BY <1>2, <1>7, <1>10, <1>11, <2>1, <2>2 DEF Taken
<1>17. Concludes(c, d, S, kind)
       BY <1>4, <1>12, <1>13, <1>14, <1>15, <1>16 DEF Concludes
<1> QED  BY <1>17 DEF d, e, n, kind

(* One analysis is dropped.                                                   *)
LEMMA DroppedConcludes ==
    ASSUME NEW c, AccountFits(c), NEW a \in Analysis, NEW reason \in Reason
    PROVE  Concludes(c, Dropped(c, a, reason), {a} \cap c.pending, "dropped")
<1>1. {a} \cap c.pending \in SUBSET c.pending  OBVIOUS
<1> QED  BY <1>1, DropsConclude DEF Dropped, End

(* The unresolved rest of a run is dropped.                                   *)
LEMMA DropPendingConcludes ==
    ASSUME NEW c, AccountFits(c), NEW reason \in Reason
    PROVE  Concludes(c, DropPending(c, reason), c.pending, "dropped")
BY DropsConclude DEF DropPending

-----------------------------------------------------------------------------
(* The inductive invariant                                                    *)

RowStates == {"none", "open"} \cup Closed
Job == [analysis : Analysis, status : {"complete", "partial"}]

(* A request knows what its operation needs.                                  *)
OfAnalysis == {"begin", "append", "finalize", "abort", "status"}

RequestFits(q) ==
    /\ {"op", "answer"} \subseteq DOMAIN q
    /\ q.op \in OfAnalysis \cup {"finish", "drops"}
    /\ q.op \in OfAnalysis => "analysis" \in DOMAIN q /\ q.analysis \in Analysis
    /\ q.op = "finalize" =>
          /\ {"status", "previous"} \subseteq DOMAIN q
          /\ q.status \in {"complete", "partial"} /\ q.previous \in SUBSET Analysis
    /\ q.op = "drops" =>
          /\ {"reason", "number"} \subseteq DOMAIN q
          /\ q.reason \in Reason /\ q.number \in Nat

CallsFit ==
    /\ DOMAIN calls = Client
    /\ \A c \in Client : calls[c] = Idle \/ RequestFits(calls[c])
    /\ \A q \in strays : RequestFits(q)

RowFits(row) ==
    /\ DOMAIN row = {"state", "blocks", "batches", "previous"}
    /\ row.state \in RowStates /\ row.previous \in SUBSET Analysis

DaemonFits ==
    /\ DOMAIN rows = Analysis /\ \A a \in Analysis : RowFits(rows[a])
    /\ events \in [Reason -> Nat]

WorkerFits ==
    /\ DOMAIN worker = {"pc", "job", "accepted", "sequence", "previous", "left", "undelivered"}
    /\ worker.pc \in {"idle", "begin", "blocks", "abort", "flush", "done", "cut"}
    /\ worker.pc \in {"begin", "blocks", "abort"} => worker.job \in Job
    /\ worker.previous \in SUBSET Analysis
    /\ worker.left \in Seq(Reason)
    /\ worker.undelivered \in Nat

Phase == {"serving", "draining", "reconcile", "finish", "finishing", "again", "flush",
          "done", "left"}

Fits ==
    /\ AccountFits(account)
    /\ recording \in [Analysis -> {"coming", "seen", "gone"}]
    /\ jobs \in Seq(Job)
    /\ WorkerFits
    /\ main \in [phase : Phase, timedOut : BOOLEAN, todo : SUBSET Analysis, left : Seq(Reason)]
    /\ CallsFit
    /\ DaemonFits

(* Where a task is tells what it has at the daemon.                           *)
WorkerAsks ==
    /\ calls["worker"].op \in {"none", "begin", "append", "finalize", "abort", "drops"}
    /\ calls["worker"].op \in {"append", "finalize"} => worker.pc = "blocks"
    /\ calls["worker"].op = "begin" => worker.pc = "begin"
    /\ calls["worker"].op = "abort" => worker.pc = "abort"
    /\ calls["worker"].op = "drops" => worker.pc = "flush"
    /\ calls["worker"].op \in OfAnalysis => calls["worker"].analysis = Current

MainAsks ==
    /\ calls["main"].op \in {"none", "status", "finish", "drops"}
    /\ calls["main"].op = "status" =>
          main.phase \in {"reconcile", "again"} /\ calls["main"].analysis \in main.todo
    /\ calls["main"].op = "finish" => main.phase = "finishing"
    /\ calls["main"].op = "drops" => main.phase = "flush"

PhasesAgree ==
    /\ main.phase \in {"serving", "draining"} => ~main.timedOut /\ worker.pc # "cut"
    /\ main.phase = "reconcile" => main.timedOut /\ worker.pc # "cut"
    /\ main.phase \in {"again", "flush"} => main.timedOut /\ worker.pc = "cut"
    /\ main.phase \in {"finish", "finishing", "done"} =>
          worker.pc = (IF main.timedOut THEN "cut" ELSE "done")

Drained == worker.pc \in {"flush", "done"} =>
    jobs = << >> /\ \A a \in Analysis : recording[a] = "gone"

Places == WorkerAsks /\ MainAsks /\ PhasesAgree /\ Drained

(* An analysis is pending only while somebody will end it.                    *)
PendingIsHeld ==
    /\ worker.pc # "cut" =>
          \A a \in account.pending :
             \/ recording[a] = "seen"
             \/ \E i \in DOMAIN jobs : jobs[i].analysis = a
             \/ worker.pc \in {"begin", "blocks", "abort"} /\ Current = a
    /\ main.phase \in {"flush", "done"} => account.pending = {}

(* The daemon's rows, and what its clients conclude from them.                *)
Finalized(S) == \A p \in S : rows[p].state \in {"complete", "partial"}

PredecessorsAreFinal ==
    /\ \A a \in Analysis : a \notin rows[a].previous /\ Finalized(rows[a].previous)
    /\ Finalized(worker.previous)
    /\ calls["worker"].op = "finalize" => Finalized(calls["worker"].previous)
    /\ \A q \in strays : q.op = "finalize" => Finalized(q.previous)

AnswersAreTrue ==
    /\ calls["worker"].op = "finalize" /\ calls["worker"].answer = "ok"
         => rows[calls["worker"].analysis].state = calls["worker"].status
    /\ calls["main"].op = "status" /\ calls["main"].answer \in Closed
         => rows[calls["main"].analysis].state = calls["main"].answer

FatesAreDurable ==
    \A a \in Analysis :
       /\ account.fate[a] = "complete" => rows[a].state = "complete"
       /\ account.fate[a] = "partial" => rows[a].state \in {"partial", "aborted"}

Durable == PredecessorsAreFinal /\ AnswersAreTrue /\ FatesAreDurable

SeenIsKept == \A a \in Analysis : recording[a] # "coming" => account.fate[a] # "unseen"

(* The drops: taken, under way, left behind, recorded.                        *)
Cost(q) == IF q.op = "drops" THEN q.number ELSE 0

StrayDrops(x, y) ==
    /\ \A q \in strays : q.op = "drops" => q \in {x, y}
    /\ worker.pc # "cut" => x = Idle
    /\ main.phase # "done" => y = Idle
    /\ Total(events) + Cost(x) + Cost(y) + Sent("worker") + Sent("main") <= Taken(account)

DropsAreBounded == \E x, y \in strays \cup {Idle} : StrayDrops(x, y)

Undelivered ==
    IF calls["worker"].op = "drops" /\ calls["worker"].answer \in {"none", "error"}
    THEN calls["worker"].number ELSE 0

DropsAreExact ==
    ~main.timedOut =>
       /\ strays = {}
       /\ Total(events) + worker.undelivered + Undelivered = Taken(account)

FlushCovers ==
    /\ worker.pc = "flush" => \A r \in Reason :
          account.unreported[r] > 0 => \E i \in DOMAIN worker.left : worker.left[i] = r
    /\ worker.pc = "done" => \A r \in Reason : account.unreported[r] = 0

-----------------------------------------------------------------------------
(* Steps of the account                                                       *)

(* A step of AnalysisOutcomes, or none.                                       *)
OutcomeStep(f, g) ==
    \/ g = f
    \/ \E a \in Analysis : f[a] = "unseen" /\ g = [f EXCEPT ![a] = "pending"]
    \/ \E S \in SUBSET Analysis, kind \in Kinds :
          /\ \A a \in S : f[a] \in {"unseen", "pending"}
          /\ g = [a \in Analysis |-> IF a \in S THEN kind ELSE f[a]]

Moves(c, d) ==
    /\ AccountFits(d)
    /\ Known(c) /\ Tells(c) => Tells(d)
    /\ NoneForgotten /\ Known(c) => Known(d)
    /\ Sound(c) => Sound(d)
    /\ Bounded(c) => Bounded(d)
    /\ Known(c) => OutcomeStep(c.fate, d.fate)
    /\ \A a \in Analysis : d.fate[a] = "unseen" => c.fate[a] = "unseen"

(* An analysis is first seen.                                                 *)
LEMMA SeeMoves ==
    ASSUME NEW c, AccountFits(c), NEW a \in Analysis
    PROVE  Moves(c, EnsureSeen(c, a)) /\ Taken(EnsureSeen(c, a)) = Taken(c)
<1> DEFINE d == EnsureSeen(c, a)
<1>1. /\ AccountFits(d) /\ d.unreported = c.unreported /\ d.dropped = c.dropped
      /\ \/ d = c
         \/ /\ a \notin c.pending /\ ~IsTerminal(c, a)
            /\ d.fate = [c.fate EXCEPT ![a] = "pending"]
      BY SeeFits
<1>2. Known(c) /\ Tells(c) => Tells(d)  BY SeeTells
<1>3. Known(c) => Known(d)  BY SeeKnows
<1>4. Sound(c) => Sound(d)  BY SeeIsSound
<1>10. Bounded(c) => Bounded(d)
  <2>1. d.evidence = c.evidence /\ d.holes = c.holes  BY SeeFits
  <2> HIDE DEF d
  <2> QED  BY <2>1 DEF Bounded
<1> HIDE DEF d
<1>5. c.fate \in [Analysis -> Fates]  BY DEF AccountFits, Account
<1>6. ASSUME Known(c) PROVE OutcomeStep(c.fate, d.fate)
  <2>1. CASE d = c  BY <2>1 DEF OutcomeStep
  <2>2. CASE d # c
    <3>1. c.fate[a] = "unseen"
          BY <1>1, <1>5, <1>6, <2>2 DEF Known, Fates, AccountFits
    <3> QED  BY <1>1, <2>2, <3>1 DEF OutcomeStep
  <2> QED  BY <2>1, <2>2
<1>7. \A x \in Analysis : d.fate[x] = "unseen" => c.fate[x] = "unseen"
      BY <1>1, <1>5
<1>8. Moves(c, d)  BY <1>1, <1>2, <1>3, <1>4, <1>6, <1>7, <1>10 DEF Moves
<1>9. Taken(d) = Taken(c)  BY <1>1 DEF Taken
<1> QED  BY <1>8, <1>9 DEF d

(* Evidence changes no fate and no total.                                     *)
LEMMA RememberMoves ==
    ASSUME NEW c, AccountFits(c), NEW a \in Analysis
    PROVE  Moves(c, RememberRequest(c, a)) /\ Taken(RememberRequest(c, a)) = Taken(c)
<1> DEFINE d == RememberRequest(c, a)
<1>1. /\ AccountFits(d)
      /\ d.fate = c.fate /\ d.pending = c.pending /\ d.seen = c.seen
      /\ d.complete = c.complete /\ d.partial = c.partial /\ d.dropped = c.dropped
      /\ d.unreported = c.unreported /\ d.through = c.through /\ d.holes = c.holes
      BY RememberFits
<1>4. Bounded(c) => Bounded(d)  BY RememberIsBounded
<1> HIDE DEF d
<1>2. Moves(c, d)
      BY <1>1, <1>4 DEF Moves, Known, Sound, Tells, Count, IsTerminal, OutcomeStep
<1>3. Taken(d) = Taken(c)  BY <1>1 DEF Taken
<1> QED  BY <1>2, <1>3 DEF d

(* Every end of pending analyses is one step of their outcomes.               *)
LEMMA ConcludesMoves ==
    ASSUME NEW c, AccountFits(c), NEW S \in SUBSET c.pending, NEW kind \in Kinds,
           NEW d, Concludes(c, d, S, kind)
    PROVE  Moves(c, d) /\ Taken(d) = Taken(c)
<1>1. /\ AccountFits(d) /\ Taken(d) = Taken(c)
      /\ d.fate = [a \in Analysis |-> IF a \in S THEN kind ELSE c.fate[a]]
      BY DEF Concludes, Ends
<1>2. S \in SUBSET Analysis /\ \A a \in S : c.fate[a] = "pending"
      BY DEF AccountFits, Account
<1>3. OutcomeStep(c.fate, d.fate)  BY <1>1, <1>2 DEF OutcomeStep
<1>4. \A a \in Analysis : d.fate[a] = "unseen" => c.fate[a] = "unseen"
      BY <1>1 DEF Kinds
<1> QED  BY <1>1, <1>3, <1>4 DEF Moves, Concludes

(* A drop after evidence, and a drop after the analysis was first seen.       *)
LEMMA RememberConcludes ==
    ASSUME NEW c, AccountFits(c), NEW a \in Analysis, NEW S, NEW kind \in Kinds,
           NEW d, Concludes(RememberRequest(c, a), d, S, kind)
    PROVE  Concludes(c, d, S, kind)
<1> DEFINE e == RememberRequest(c, a)
<1>1. /\ e.fate = c.fate /\ e.pending = c.pending /\ e.seen = c.seen
      /\ e.complete = c.complete /\ e.partial = c.partial /\ e.dropped = c.dropped
      /\ e.unreported = c.unreported /\ e.through = c.through /\ e.holes = c.holes
      BY RememberFits
<1>2. Concludes(e, d, S, kind)  OBVIOUS
<1>4. Bounded(c) => Bounded(e)  BY RememberIsBounded
<1> HIDE DEF e
<1>3. /\ Tells(c) = Tells(e) /\ Known(c) = Known(e) /\ Sound(c) = Sound(e)
      /\ Taken(c) = Taken(e)
      BY <1>1 DEF Tells, Known, Sound, Taken, Count, IsTerminal
<1> QED  BY <1>1, <1>2, <1>3, <1>4 DEF Concludes, Ends

(* account_durable_event_drop: seen and dropped in one step.                  *)
LEMMA SeenDropMoves ==
    ASSUME NEW c, AccountFits(c), NEW a \in Analysis, NEW reason \in Reason
    PROVE  LET d == Dropped(EnsureSeen(c, a), a, reason)
           IN  /\ Moves(c, d) /\ Taken(d) = Taken(c)
               /\ d.pending = c.pending \ {a}
               /\ \A x \in Analysis : d.fate[x] = c.fate[x] \/ (x = a /\ d.fate[x] = "dropped")
<1> DEFINE e == EnsureSeen(c, a)
           d == Dropped(e, a, reason)
           S == {a} \cap e.pending
<1>1. AccountFits(e) /\ Moves(c, e) /\ Taken(e) = Taken(c)
      BY SeeFits, SeeMoves
<1>2. \/ e = c
      \/ /\ a \notin c.pending /\ ~IsTerminal(c, a)
         /\ e.fate = [c.fate EXCEPT ![a] = "pending"]
         /\ e.pending = c.pending \cup {a}
      BY SeeFits
<1> HIDE DEF e
<1>3. Concludes(e, d, S, "dropped")  BY <1>1, DroppedConcludes
<1> DEFINE kind == "dropped"
<1>4. Concludes(e, d, S, kind) /\ kind \in Kinds  BY <1>3 DEF Kinds
<1> HIDE DEF d, kind
<1>5. S \in SUBSET e.pending  OBVIOUS
<1> HIDE DEF S
<1>6. Moves(e, d) /\ Taken(d) = Taken(e)
      BY <1>1, <1>4, <1>5, ConcludesMoves
<1>7. /\ d.fate = [x \in Analysis |-> IF x \in S THEN kind ELSE e.fate[x]]
      /\ d.pending = e.pending \ S
      BY <1>4 DEF Concludes, Ends
<1>8. c.fate \in [Analysis -> Fates]  BY DEF AccountFits, Account
<1>9. ASSUME Known(c) PROVE OutcomeStep(c.fate, d.fate)
  <2>1. CASE e = c  BY <1>6, <1>9, <2>1 DEF Moves
  <2>2. CASE e # c
    <3>1. c.fate[a] = "unseen"
          BY <1>2, <1>8, <1>9, <2>2 DEF Known, Fates, AccountFits
    <3>2. S = {a}  BY <1>2, <2>2 DEF S
    <3>3. d.fate = [x \in Analysis |-> IF x \in S THEN kind ELSE c.fate[x]]
          BY <1>2, <1>7, <1>8, <2>2, <3>2
    <3>4. S \in SUBSET Analysis /\ \A x \in S : c.fate[x] \in {"unseen", "pending"}
          BY <3>1, <3>2
    <3> QED  BY <1>4, <3>3, <3>4 DEF OutcomeStep
  <2> QED  BY <2>1, <2>2
<1>10. Known(c) => Known(e)  BY SeeKnows DEF e
<1>11. Moves(c, d)
       BY <1>1, <1>6, <1>9, <1>10 DEF Moves
<1>12. d.pending = c.pending \ {a}
       BY <1>2, <1>7 DEF S
<1>13. \A x \in Analysis : d.fate[x] = c.fate[x] \/ (x = a /\ d.fate[x] = "dropped")
  <2>1. S \subseteq {a}  BY DEF S
  <2>2. CASE e = c  BY <1>7, <2>1, <2>2 DEF kind
  <2>3. CASE e # c
    <3>1. S = {a}  BY <1>2, <2>3 DEF S
    <3> QED  BY <1>2, <1>7, <1>8, <2>3, <3>1 DEF kind
  <2> QED  BY <2>2, <2>3
<1> QED  BY <1>1, <1>6, <1>11, <1>12, <1>13 DEF d, e

(* flush_context_drops takes the drops of one reason.                         *)
LEMMA TakeMoves ==
    ASSUME NEW c, AccountFits(c), NEW r \in Reason
    PROVE  LET d == [c EXCEPT !.unreported[r] = 0]
           IN  /\ Moves(c, d)
               /\ Taken(d) = Taken(c) + c.unreported[r]
               /\ d.unreported = [c.unreported EXCEPT ![r] = 0]
               /\ d.fate = c.fate /\ d.pending = c.pending
<1> DEFINE u == [c.unreported EXCEPT ![r] = 0]
           d == [c EXCEPT !.unreported[r] = 0]
<1>1. c \in Account  BY DEF AccountFits
<1>2. d = [c EXCEPT !.unreported = u]  BY <1>1 DEF Account
<1>3. c.unreported \in [Reason -> Nat] /\ c.dropped \in Nat  BY <1>1 DEF Account
<1>4. u \in [Reason -> Nat]  BY <1>3
<1>5. Total(u) = Total(c.unreported) - c.unreported[r] /\ Total(c.unreported) \in Int
      /\ c.unreported[r] \in Int
      BY <1>3 DEF Total, Reason
<1> HIDE DEF d, u
<1>6. /\ d \in Account /\ d.unreported = u
      /\ d.fate = c.fate /\ d.pending = c.pending /\ d.seen = c.seen
      /\ d.complete = c.complete /\ d.partial = c.partial /\ d.dropped = c.dropped
      /\ d.evidence = c.evidence /\ d.through = c.through /\ d.holes = c.holes
      BY <1>1, <1>2, <1>4 DEF Account
<1>7. AccountFits(d)  BY <1>6 DEF AccountFits
<1>8. Moves(c, d)
      BY <1>6, <1>7 DEF Moves, Known, Sound, Tells, Count, IsTerminal, OutcomeStep, Bounded
<1>9. Taken(d) = Taken(c) + c.unreported[r]
      BY <1>3, <1>5, <1>6 DEF Taken
<1> QED  BY <1>6, <1>8, <1>9 DEF d, u

(* A step that leaves the account alone.                                      *)
LEMMA StaysMoves ==
    ASSUME NEW c, AccountFits(c)
    PROVE  Moves(c, c)
BY DEF Moves, OutcomeStep

(* The reason of the next report.                                             *)
LEMMA NextReport ==
    ASSUME Fits, NEW left \in Seq(Reason), Unreported(left) # {}
    PROVE  LET i == Min(Unreported(left))
           IN  /\ i \in 1 .. Len(left) /\ left[i] \in Reason
               /\ account.unreported[left[i]] \in Nat
               /\ SubSeq(left, i + 1, Len(left)) \in Seq(Reason)
               /\ \A j \in 1 .. i - 1 : ~(account.unreported[left[j]] > 0)
<1> DEFINE i == Min(Unreported(left))
<1>1. Unreported(left) \in SUBSET (1 .. Len(left))  BY DEF Unreported
<1>2. Unreported(left) \in SUBSET Nat  BY <1>1
<1>3. i \in Unreported(left) /\ \A j \in Unreported(left) : i <= j
      BY <1>2, MinExists
<1> HIDE DEF i
<1>4. i \in 1 .. Len(left) /\ left[i] \in Reason  BY <1>1, <1>3
<1>5. SubSeq(left, i + 1, Len(left)) \in Seq(Reason)
  <2>1. \A j \in i + 1 .. Len(left) : left[j] \in Reason  BY <1>4
  <2> QED  BY <1>4, <2>1, SubSeqProperties
<1>6. \A j \in 1 .. i - 1 : ~(account.unreported[left[j]] > 0)
  <2>1. SUFFICES ASSUME NEW j \in 1 .. i - 1, account.unreported[left[j]] > 0 PROVE FALSE
        OBVIOUS
  <2>2. j \in Unreported(left)  BY <1>4, <2>1 DEF Unreported
  <2> QED  BY <1>3, <1>4, <2>2
<1>7. account.unreported[left[i]] \in Nat
      BY <1>4 DEF Fits, AccountFits, Account
<1> QED  BY <1>4, <1>5, <1>6, <1>7 DEF i

(* Every step moves the account so, and only a flush takes drops from it.     *)
LEMMA StepMoves ==
    ASSUME Fits, Places, Next
    PROVE  /\ Moves(account, account')
           /\ \/ Taken(account') = Taken(account)
              \/ WorkerFlushes /\ Unreported(worker.left) # {}
              \/ RestFlushes /\ Unreported(main.left) # {}
<1> DEFINE Keeps == Taken(account') = Taken(account)
           Goes == /\ Moves(account, account')
                   /\ \/ Keeps
                      \/ WorkerFlushes /\ Unreported(worker.left) # {}
                      \/ RestFlushes /\ Unreported(main.left) # {}
<1>1. AccountFits(account)  BY DEF Fits
<1>2. ASSUME account' = account PROVE Goes
      BY <1>1, <1>2, StaysMoves
<1>3. ASSUME NEW a \in Analysis, RecorderSees(a) PROVE Goes
      BY <1>1, <1>3, SeeMoves DEF RecorderSees
<1>4. ASSUME NEW a \in Analysis, NEW reason \in Reason,
             account' = Dropped(account, a, reason)
      PROVE  Goes
  <2> DEFINE kind == "dropped"  S == {a} \cap account.pending
  <2>1. Concludes(account, Dropped(account, a, reason), S, kind) /\ kind \in Kinds
        BY <1>1, DroppedConcludes DEF Kinds
  <2>2. S \in SUBSET account.pending  OBVIOUS
  <2> HIDE DEF kind, S
  <2> QED  BY <1>1, <1>4, <2>1, <2>2, ConcludesMoves
<1>5. ASSUME NEW a \in Analysis, NEW reason \in Reason,
             account' = Dropped(RememberRequest(account, a), a, reason)
      PROVE  Goes
  <2> DEFINE kind == "dropped"  e == RememberRequest(account, a)  S == {a} \cap e.pending
  <2>1. AccountFits(e) /\ e.pending = account.pending  BY <1>1, RememberFits
  <2>2. kind \in Kinds  BY DEF Kinds
  <2>3. Concludes(e, Dropped(e, a, reason), S, "dropped")
    <3> HIDE DEF e
    <3> QED  BY <2>1, DroppedConcludes
  <2>4. Concludes(RememberRequest(account, a), Dropped(RememberRequest(account, a), a, reason),
                  S, kind)
        BY <2>3
  <2>5. S \in SUBSET account.pending  BY <2>1
  <2> HIDE DEF kind, S, e
  <2>6. Concludes(account, Dropped(RememberRequest(account, a), a, reason), S, kind)
        BY <1>1, <2>2, <2>4, RememberConcludes
  <2> QED  BY <1>1, <1>5, <2>2, <2>5, <2>6, ConcludesMoves
<1>6. {"CorrelationDegraded", "Malformed", "ObserverBackpressure", "Cancelled"} \subseteq Reason
      BY DEF Reason
<1>7. ASSUME NEW a \in Analysis, RecorderDrops(a) PROVE Goes
  <2>1. PICK acknowledged \in BOOLEAN, reason \in {"CorrelationDegraded", "Malformed"} :
           account' = Dropped(IF acknowledged THEN RememberRequest(account, a) ELSE account,
                              a, reason)
        BY <1>7 DEF RecorderDrops
  <2>2. reason \in Reason  BY <1>6
  <2>3. CASE acknowledged  BY <1>5, <2>1, <2>2, <2>3
  <2>4. CASE ~acknowledged  BY <1>4, <2>1, <2>2, <2>4
  <2> QED  BY <2>3, <2>4
<1>8. ASSUME NEW a \in Analysis, RecorderHands(a) PROVE Goes
  <2>1. \/ account' = RememberRequest(account, a)
        \/ account' = Dropped(RememberRequest(account, a), a, "ObserverBackpressure")
        BY <1>8 DEF RecorderHands
  <2> QED  BY <1>1, <1>5, <1>6, <2>1, RememberMoves
<1>9. ASSUME NEW a \in Analysis, IngressDrops(a) PROVE Goes
      BY <1>1, <1>6, <1>9, SeenDropMoves DEF IngressDrops
<1>10. ASSUME IngestionWorker PROVE Goes
  <2>1. ASSUME WorkerBegun PROVE Goes
    <3>1. Current \in Analysis  BY <2>1 DEF WorkerBegun, Fits, WorkerFits, Job, Current
    <3>2. account' = account \/ account' = Dropped(account, Current, "CorrelationDegraded")
          BY <2>1 DEF WorkerBegun
    <3> QED  BY <1>2, <1>4, <1>6, <3>1, <3>2
  <2>2. ASSUME WorkerAborted PROVE Goes
    <3>1. worker.pc = "abort"
          BY <2>2 DEF WorkerAborted, Answered, Places, WorkerAsks
    <3>2. Current \in Analysis  BY <3>1 DEF Fits, WorkerFits, Job, Current
    <3>3. account' = Dropped(account, Current, "CorrelationDegraded")
          BY <2>2 DEF WorkerAborted
    <3> QED  BY <1>4, <1>6, <3>2, <3>3
  <2>3. ASSUME WorkerFinalized PROVE Goes
    <3> DEFINE q == calls["worker"]
    <3>1. q.op = "finalize" /\ worker.pc = "blocks"
          BY <2>3 DEF WorkerFinalized, Answered, Places, WorkerAsks
    <3>2. Current \in Analysis  BY <3>1 DEF Fits, WorkerFits, Job, Current
    <3>3. q.status \in {"complete", "partial"}
          BY <3>1 DEF Fits, CallsFit, RequestFits, Client, Idle
    <3>4. account' = account \/ account' = End(account, Current, q.status)
          BY <2>3 DEF WorkerFinalized
    <3> DEFINE s == q.status  x == Current  S == {x} \cap account.pending
    <3> HIDE DEF s, x
    <3>5. Concludes(account, End(account, x, s), S, s)
          BY <1>1, <3>2, <3>3, EndConcludes DEF s, x
    <3>6. s \in Kinds /\ S \in SUBSET account.pending  BY <3>3 DEF s, Kinds
    <3> HIDE DEF S
    <3>7. /\ Moves(account, End(account, x, s))
          /\ Taken(End(account, x, s)) = Taken(account)
          BY <1>1, <3>5, <3>6, ConcludesMoves
    <3> QED  BY <1>2, <3>4, <3>7 DEF s, x
  <2>4. ASSUME WorkerFlushes PROVE Goes
    <3>1. CASE Unreported(worker.left) = {}
          BY <1>2, <2>4, <3>1 DEF WorkerFlushes
    <3>2. CASE Unreported(worker.left) # {}
      <4> DEFINE r == worker.left[Min(Unreported(worker.left))]
      <4>1. account' = [account EXCEPT !.unreported[r] = 0]
            BY <2>4, <3>2 DEF WorkerFlushes, Flush, Take
      <4>2. r \in Reason  BY <3>2, NextReport DEF Fits, WorkerFits
      <4> HIDE DEF r
      <4>3. Moves(account, account')  BY <1>1, <4>1, <4>2, TakeMoves
      <4> QED  BY <2>4, <3>2, <4>3
    <3> QED  BY <3>1, <3>2
  <2>5. ASSUME WorkerBegins \/ WorkerSends \/ WorkerAppended \/ WorkerDrained \/ WorkerFlushed
        PROVE  Goes
        BY <1>2, <2>5 DEF WorkerBegins, WorkerSends, WorkerAppended, WorkerDrained, WorkerFlushed
  <2> QED  BY <1>10, <2>1, <2>2, <2>3, <2>4, <2>5 DEF IngestionWorker
<1>11. ASSUME RunAgent PROVE Goes
  <2>1. ASSUME Reconciled PROVE Goes
    <3> DEFINE q == calls["main"]
    <3>1. q.analysis \in Analysis
          BY <2>1 DEF Reconciled, Answered, Fits, CallsFit, RequestFits, Client, Idle, OfAnalysis
    <3> DEFINE s == IF q.answer = "complete" THEN "complete" ELSE "partial"
               x == q.analysis
               S == {x} \cap account.pending
    <3>2. s \in {"complete", "partial"}  OBVIOUS
    <3>3. account' = account \/ account' = End(account, x, s)
          BY <2>1 DEF Reconciled, LookedUp
    <3> HIDE DEF s, x
    <3>4. Concludes(account, End(account, x, s), S, s)
          BY <1>1, <3>1, <3>2, EndConcludes DEF x
    <3>5. s \in Kinds /\ S \in SUBSET account.pending  BY <3>2 DEF Kinds
    <3> HIDE DEF S
    <3>6. /\ Moves(account, End(account, x, s))
          /\ Taken(End(account, x, s)) = Taken(account)
          BY <1>1, <3>4, <3>5, ConcludesMoves
    <3> QED  BY <1>2, <3>3, <3>6
  <2>2. ASSUME DropRest PROVE Goes
    <3> DEFINE kind == "dropped"  r == "Cancelled"  S == account.pending
    <3>1. Concludes(account, DropPending(account, r), S, kind) /\ kind \in Kinds
          BY <1>1, <1>6, DropPendingConcludes DEF Kinds
    <3>2. account' = DropPending(account, r)  BY <2>2 DEF DropRest
    <3>3. S \in SUBSET account.pending  OBVIOUS
    <3> HIDE DEF kind, r, S
    <3> QED  BY <1>1, <3>1, <3>2, <3>3, ConcludesMoves
  <2>3. ASSUME RestFlushes PROVE Goes
    <3>1. CASE Unreported(main.left) = {}
          BY <1>2, <2>3, <3>1 DEF RestFlushes
    <3>2. CASE Unreported(main.left) # {}
      <4> DEFINE r == main.left[Min(Unreported(main.left))]
      <4>1. account' = [account EXCEPT !.unreported[r] = 0]
            BY <2>3, <3>2 DEF RestFlushes, Flush, Take
      <4>2. r \in Reason  BY <3>2, NextReport DEF Fits
      <4> HIDE DEF r
      <4>3. Moves(account, account')  BY <1>1, <4>1, <4>2, TakeMoves
      <4> QED  BY <2>3, <3>2, <4>3
    <3> QED  BY <3>1, <3>2
  <2>4. ASSUME AgentExits \/ DrainEnds \/ Lookup \/ Abort \/ Finish \/ Finished \/ RestFlushed
        PROVE  Goes
        BY <1>2, <2>4 DEF AgentExits, DrainEnds, Lookup, Abort, Finish, Finished, RestFlushed
  <2> QED  BY <1>11, <2>1, <2>2, <2>3, <2>4 DEF RunAgent
<1>12. ASSUME \/ ShadowWorker \/ AgentIsNotStarted \/ Timeout
              \/ \E c \in Client : DaemonAnswers(c)
              \/ \E q \in strays : DaemonPerformsStray(q)
              \/ Exited
       PROVE  Goes
       BY <1>2, <1>12 DEF ShadowWorker, ShadowStarts, ShadowTakes, ShadowEvaluates, ShadowEnds,
                          AgentIsNotStarted, Timeout, DrainTimesOut, LookupTimesOut,
                          FlushTimesOut, DaemonAnswers, DaemonPerformsStray, Exited, vars
<1> QED  BY <1>3, <1>7, <1>8, <1>9, <1>10, <1>11, <1>12 DEF Next, Recorder

-----------------------------------------------------------------------------
(* Who changes what                                                           *)

(* Who changes the account.                                                   *)
LEMMA AccountFrame ==
    ASSUME Next
    PROVE  \/ account' = account
           \/ \E a \in Analysis : RecorderSees(a)
           \/ \E a \in Analysis : RecorderDrops(a)
           \/ \E a \in Analysis : RecorderHands(a)
           \/ \E a \in Analysis : IngressDrops(a)
           \/ WorkerBegun
           \/ WorkerAborted
           \/ WorkerFinalized
           \/ WorkerFlushes
           \/ Reconciled
           \/ DropRest
           \/ RestFlushes
BY DEF Next, Recorder, IngestionWorker, ShadowWorker, RunAgent, Timeout,
       WorkerBegins, WorkerSends, WorkerAppended, WorkerDrained, WorkerFlushed,
       ShadowStarts, ShadowTakes, ShadowEvaluates, ShadowEnds, AgentExits,
       DrainEnds, Lookup, Abort, Finish, Finished, RestFlushed, AgentIsNotStarted,
       DrainTimesOut, LookupTimesOut, FlushTimesOut, DaemonAnswers,
       DaemonPerformsStray, Exited, vars, daemonVars

(* Who changes what the recorder has to do, and the queue.                     *)
LEMMA RecorderFrame ==
    ASSUME Next
    PROVE  \/ recording' = recording /\ jobs' = jobs
           \/ \E a \in Analysis : RecorderSees(a)
           \/ \E a \in Analysis : RecorderDrops(a)
           \/ \E a \in Analysis : RecorderHands(a)
           \/ \E a \in Analysis : IngressDrops(a)
           \/ WorkerBegins
           \/ Abort
BY DEF Next, Recorder, IngestionWorker, ShadowWorker, RunAgent, Timeout,
       WorkerBegun, WorkerSends, WorkerAppended, WorkerFinalized, WorkerAborted,
       WorkerDrained, WorkerFlushes, WorkerFlushed, ShadowStarts, ShadowTakes,
       ShadowEvaluates, ShadowEnds, AgentExits, DrainEnds, Lookup, Reconciled,
       Finish, Finished, DropRest, RestFlushes, RestFlushed, AgentIsNotStarted,
       DrainTimesOut, LookupTimesOut, FlushTimesOut, DaemonAnswers,
       DaemonPerformsStray, Exited, vars, daemonVars

(* Who changes the worker.                                                    *)
LEMMA WorkerFrame ==
    ASSUME Next
    PROVE  \/ worker' = worker
           \/ WorkerBegins
           \/ WorkerBegun
           \/ WorkerAppended
           \/ WorkerFinalized
           \/ WorkerAborted
           \/ WorkerDrained
           \/ WorkerFlushes
           \/ WorkerFlushed
           \/ Abort
BY DEF Next, Recorder, IngestionWorker, ShadowWorker, RunAgent, Timeout,
       RecorderSees, RecorderDrops, RecorderHands, IngressDrops, WorkerSends,
       ShadowStarts, ShadowTakes, ShadowEvaluates, ShadowEnds, AgentExits,
       DrainEnds, Lookup, Reconciled, Finish, Finished, DropRest, RestFlushes,
       RestFlushed, AgentIsNotStarted, DrainTimesOut, LookupTimesOut,
       FlushTimesOut, DaemonAnswers, DaemonPerformsStray, Exited, vars, daemonVars

(* Who changes the run.                                                       *)
LEMMA MainFrame ==
    ASSUME Next
    PROVE  \/ main' = main
           \/ AgentExits
           \/ DrainEnds
           \/ Reconciled
           \/ Abort
           \/ Finish
           \/ Finished
           \/ DropRest
           \/ RestFlushes
           \/ AgentIsNotStarted
           \/ DrainTimesOut
           \/ LookupTimesOut
           \/ FlushTimesOut
BY DEF Next, Recorder, IngestionWorker, ShadowWorker, RunAgent, Timeout,
       RecorderSees, RecorderDrops, RecorderHands, IngressDrops, WorkerBegins,
       WorkerBegun, WorkerSends, WorkerAppended, WorkerFinalized, WorkerAborted,
       WorkerDrained, WorkerFlushes, WorkerFlushed, ShadowStarts, ShadowTakes,
       ShadowEvaluates, ShadowEnds, Lookup, RestFlushed, DaemonAnswers,
       DaemonPerformsStray, Exited, vars, daemonVars

(* Who changes the requests.                                                  *)
LEMMA CallsFrame ==
    ASSUME Next
    PROVE  \/ calls' = calls /\ strays' = strays
           \/ WorkerBegins
           \/ WorkerBegun
           \/ WorkerSends
           \/ WorkerAppended
           \/ WorkerFinalized
           \/ WorkerAborted
           \/ WorkerFlushes
           \/ WorkerFlushed
           \/ Lookup
           \/ Reconciled
           \/ Abort
           \/ Finish
           \/ Finished
           \/ RestFlushes
           \/ RestFlushed
           \/ LookupTimesOut
           \/ FlushTimesOut
           \/ \E c \in Client : DaemonAnswers(c)
           \/ \E q \in strays : DaemonPerformsStray(q)
BY DEF Next, Recorder, IngestionWorker, ShadowWorker, RunAgent, Timeout,
       RecorderSees, RecorderDrops, RecorderHands, IngressDrops, WorkerDrained,
       ShadowStarts, ShadowTakes, ShadowEvaluates, ShadowEnds, AgentExits,
       DrainEnds, DropRest, AgentIsNotStarted, DrainTimesOut, Exited, vars,
       daemonVars

(* Only the daemon changes its rows, its session and its events.              *)
LEMMA DaemonFrame ==
    ASSUME Next
    PROVE  \/ daemonVars' = daemonVars
           \/ \E c \in Client : DaemonAnswers(c)
           \/ \E q \in strays : DaemonPerformsStray(q)
BY DEF Next, Recorder, IngestionWorker, ShadowWorker, RunAgent, Timeout,
       RecorderSees, RecorderDrops, RecorderHands, IngressDrops, WorkerBegins,
       WorkerBegun, WorkerSends, WorkerAppended, WorkerFinalized, WorkerAborted,
       WorkerDrained, WorkerFlushes, WorkerFlushed, ShadowStarts, ShadowTakes,
       ShadowEvaluates, ShadowEnds, AgentExits, DrainEnds, Lookup, Reconciled,
       Abort, Finish, Finished, DropRest, RestFlushes, RestFlushed,
       AgentIsNotStarted, DrainTimesOut, LookupTimesOut, FlushTimesOut, Exited,
       vars, daemonVars

-----------------------------------------------------------------------------
(* Type correctness                                                           *)

(* The recorder and its queue.                                                *)
LEMMA RecorderFitsStep ==
    ASSUME Fits, Next
    PROVE  recording' \in [Analysis -> {"coming", "seen", "gone"}] /\ jobs' \in Seq(Job)
<1> USE DEF Fits
<1>1. ASSUME NEW a \in Analysis, RecorderSees(a) \/ RecorderDrops(a) \/ IngressDrops(a)
      PROVE  recording' \in [Analysis -> {"coming", "seen", "gone"}] /\ jobs' \in Seq(Job)
      BY <1>1 DEF RecorderSees, RecorderDrops, IngressDrops
<1>2. ASSUME NEW a \in Analysis, RecorderHands(a)
      PROVE  recording' \in [Analysis -> {"coming", "seen", "gone"}] /\ jobs' \in Seq(Job)
  <2>1. PICK status \in {"complete", "partial"} :
           \/ jobs' = Append(jobs, [analysis |-> a, status |-> status])
           \/ jobs' = jobs
        BY <1>2 DEF RecorderHands
  <2>2. [analysis |-> a, status |-> status] \in Job  BY DEF Job
  <2> DEFINE j == [analysis |-> a, status |-> status]
  <2> HIDE DEF j
  <2>3. jobs' \in Seq(Job)  BY <2>1, <2>2 DEF j
  <2> QED  BY <1>2, <2>3 DEF RecorderHands
<1>3. ASSUME WorkerBegins
      PROVE  recording' \in [Analysis -> {"coming", "seen", "gone"}] /\ jobs' \in Seq(Job)
      BY <1>3, HeadTailProperties DEF WorkerBegins
<1>4. ASSUME Abort
      PROVE  recording' \in [Analysis -> {"coming", "seen", "gone"}] /\ jobs' \in Seq(Job)
      BY <1>4, EmptySeq DEF Abort
<1> QED  BY <1>1, <1>2, <1>3, <1>4, RecorderFrame

(* The ingestion worker.                                                      *)
LEMMA WorkerFitsStep ==
    ASSUME Fits, Places, Next
    PROVE  WorkerFits'
<1> DEFINE Fields == {"pc", "job", "accepted", "sequence", "previous", "left", "undelivered"}
<1>1. WorkerFits  BY DEF Fits
<1>2. CASE worker' = worker  BY <1>1, <1>2 DEF WorkerFits, Current
<1>3. CASE WorkerBegins
  <2>1. Head(jobs) \in Job  BY <1>3, HeadTailProperties DEF WorkerBegins, Fits
  <2> QED  BY <1>1, <1>3, <2>1 DEF WorkerBegins, WorkerFits
<1>4. CASE WorkerBegun
      BY <1>1, <1>4 DEF WorkerBegun, WorkerFits
<1>5. CASE WorkerAppended
  <2>1. worker.pc = "blocks"
        BY <1>5 DEF WorkerAppended, Answered, Places, WorkerAsks
  <2> QED  BY <1>1, <1>5, <2>1 DEF WorkerAppended, WorkerFits
<1>6. CASE WorkerFinalized
  <2>1. worker.pc = "blocks"
        BY <1>6 DEF WorkerFinalized, Answered, Places, WorkerAsks
  <2>2. Current \in Analysis  BY <1>1, <2>1 DEF WorkerFits, Job, Current
  <2>3. {Current} \in SUBSET Analysis  BY <2>2
  <2> QED  BY <1>1, <1>6, <2>1, <2>3 DEF WorkerFinalized, WorkerFits
<1>7. CASE WorkerAborted
      BY <1>1, <1>7 DEF WorkerAborted, WorkerFits
<1>8. CASE WorkerDrained
  <2>1. Reasons \in Seq(Reason)  BY DEF Reasons, Reason
  <2> QED  BY <1>1, <1>8, <2>1 DEF WorkerDrained, WorkerFits
<1>9. CASE WorkerFlushes
  <2>1. CASE Unreported(worker.left) = {}
        BY <1>1, <1>9, <2>1 DEF WorkerFlushes, WorkerFits
  <2>2. CASE Unreported(worker.left) # {}
    <3> DEFINE i == Min(Unreported(worker.left))
               rest == SubSeq(worker.left, i + 1, Len(worker.left))
    <3>1. rest \in Seq(Reason)  BY <1>1, <2>2, NextReport DEF WorkerFits
    <3>2. worker' = [worker EXCEPT !.left = rest]
          BY <1>9, <2>2 DEF WorkerFlushes
    <3> HIDE DEF rest
    <3> QED  BY <1>1, <3>1, <3>2 DEF WorkerFits
  <2> QED  BY <2>1, <2>2
<1>10. CASE WorkerFlushed
  <2>1. calls["worker"].number \in Nat
        BY <1>10 DEF WorkerFlushed, Answered, Fits, CallsFit, RequestFits, Client, Idle
  <2>2. worker.undelivered + calls["worker"].number \in Nat  BY <1>1, <2>1 DEF WorkerFits
  <2> DEFINE n == worker.undelivered + calls["worker"].number
  <2>3. worker' = worker \/ worker' = [worker EXCEPT !.undelivered = n]
        BY <1>10 DEF WorkerFlushed
  <2> HIDE DEF n
  <2> QED  BY <1>1, <2>2, <2>3 DEF WorkerFits, n
<1>11. CASE Abort
      BY <1>1, <1>11 DEF Abort, WorkerFits
<1> QED  BY <1>2, <1>3, <1>4, <1>5, <1>6, <1>7, <1>8, <1>9, <1>10, <1>11, WorkerFrame

(* run_agent.                                                                 *)
LEMMA MainFitsStep ==
    ASSUME Fits, Next
    PROVE  main' \in [phase : Phase, timedOut : BOOLEAN, todo : SUBSET Analysis,
                      left : Seq(Reason)]
<1> DEFINE Mains == [phase : Phase, timedOut : BOOLEAN, todo : SUBSET Analysis,
                     left : Seq(Reason)]
<1>1. main \in Mains  BY DEF Fits
<1>2. account.evidence \in SUBSET Analysis  BY DEF Fits, AccountFits, Account
<1>3. \A p \in Phase : [main EXCEPT !.phase = p] \in Mains  BY <1>1
<1>4. {"done", "left", "draining", "finish", "finishing", "again", "flush", "reconcile"}
         \subseteq Phase
      BY DEF Phase
<1>5. CASE AgentExits \/ DrainEnds \/ Abort \/ Finish \/ AgentIsNotStarted \/ FlushTimesOut
      BY <1>3, <1>4, <1>5 DEF AgentExits, DrainEnds, Abort, Finish, AgentIsNotStarted, FlushTimesOut
<1>6. CASE Reconciled \/ LookupTimesOut
      BY <1>1, <1>6 DEF Reconciled, LookupTimesOut
<1>7. CASE Finished \/ DrainTimesOut
      BY <1>1, <1>2, <1>4, <1>7 DEF Finished, DrainTimesOut
<1>8. CASE DropRest
  <2>1. Reasons \in Seq(Reason)  BY DEF Reasons, Reason
  <2> QED  BY <1>1, <1>4, <1>8, <2>1 DEF DropRest
<1>9. CASE RestFlushes
  <2>1. CASE Unreported(main.left) = {}
        BY <1>3, <1>4, <1>9, <2>1 DEF RestFlushes
  <2>2. CASE Unreported(main.left) # {}
    <3> DEFINE i == Min(Unreported(main.left))
               rest == SubSeq(main.left, i + 1, Len(main.left))
    <3>1. rest \in Seq(Reason)  BY <1>1, <2>2, NextReport
    <3>2. main' = [main EXCEPT !.left = rest]
          BY <1>9, <2>2 DEF RestFlushes
    <3> HIDE DEF rest
    <3> QED  BY <1>1, <3>1, <3>2
  <2> QED  BY <2>1, <2>2
<1> QED  BY <1>1, <1>5, <1>6, <1>7, <1>8, <1>9, MainFrame

(* What Ask sends is a request.                                               *)
LEMMA AskFits ==
    ASSUME CallsFit, NEW client \in Client, NEW q, RequestFits(q),
           Ask(client, q)
    PROVE  /\ DOMAIN calls' = Client
           /\ \A c \in Client : calls'[c] = Idle \/ RequestFits(calls'[c])
           /\ calls'[client] = q
           /\ \A c \in Client : c # client => calls'[c] = calls[c]
BY DEF Ask, CallsFit

(* An answer that is read leaves its client idle.                             *)
LEMMA ReadFits ==
    ASSUME CallsFit, NEW client \in Client, Read(client)
    PROVE  /\ DOMAIN calls' = Client
           /\ \A c \in Client : calls'[c] = Idle \/ RequestFits(calls'[c])
           /\ calls'[client] = Idle
           /\ \A c \in Client : c # client => calls'[c] = calls[c]
BY DEF Read, CallsFit

(* The requests.                                                              *)
LEMMA BeginFits ==
    ASSUME NEW a \in Analysis, NEW op \in {"begin", "abort", "status"}
    PROVE  RequestFits([op |-> op, analysis |-> a, answer |-> "none"])
BY DEF RequestFits, OfAnalysis

(* A batch of blocks.                                                         *)
LEMMA AppendFits ==
    ASSUME NEW a \in Analysis, NEW b, NEW s
    PROVE  RequestFits([op |-> "append", analysis |-> a, blocks |-> b, sequence |-> s,
                        answer |-> "none"])
BY DEF RequestFits, OfAnalysis

(* The summary.                                                               *)
LEMMA FinalizeFits ==
    ASSUME NEW a \in Analysis, NEW status \in {"complete", "partial"}, NEW b,
           NEW S \in SUBSET Analysis
    PROVE  RequestFits([op |-> "finalize", analysis |-> a, status |-> status, blocks |-> b,
                        previous |-> S, answer |-> "none"])
BY DEF RequestFits, OfAnalysis

(* A report of drops.                                                         *)
LEMMA DropsFit ==
    ASSUME NEW reason \in Reason, NEW n \in Nat
    PROVE  RequestFits([op |-> "drops", reason |-> reason, number |-> n, answer |-> "none"])
BY DEF RequestFits, OfAnalysis

(* The end of the session.                                                    *)
LEMMA FinishFits == RequestFits([op |-> "finish", answer |-> "none"])
BY DEF RequestFits, OfAnalysis

(* An answer leaves the rest of its request.                                  *)
LEMMA AnswerFits ==
    ASSUME NEW q, RequestFits(q), NEW x
    PROVE  LET r == [q EXCEPT !.answer = x]
           IN  /\ RequestFits(r) /\ r.answer = x /\ DOMAIN r = DOMAIN q
               /\ \A y \in DOMAIN q : y # "answer" => r[y] = q[y]
<1> DEFINE r == [q EXCEPT !.answer = x]
<1>1. /\ r.answer = x /\ DOMAIN r = DOMAIN q
      /\ \A y \in DOMAIN q : y # "answer" => r[y] = q[y]
      BY DEF RequestFits
<1> HIDE DEF r
<1>2. RequestFits(r)  BY <1>1 DEF RequestFits
<1> QED  BY <1>1, <1>2 DEF r

(* What the daemon commits.                                                   *)
Grows ==
    \A a \in Analysis : rows[a].state \in Closed => rows'[a].state = rows[a].state

(* What a request changes: only open rows, only the drops of its reason,      *)
(* and a finalize gives its row the status it asked for.                      *)
LEMMA CommitFits ==
    ASSUME DaemonFits, NEW q, RequestFits(q), Admits(q), Commit(q)
    PROVE  /\ DaemonFits' /\ Grows
           /\ \A a \in Analysis :
                 \/ rows'[a].previous = rows[a].previous
                 \/ /\ q.op = "finalize" /\ a = q.analysis /\ rows[a].state = "open"
                    /\ rows'[a].previous = q.previous
           /\ q.op = "finalize" => rows'[q.analysis].state = q.status
           /\ Total(events') = Total(events) + Cost(q)
<1>1. DOMAIN rows = Analysis /\ \A a \in Analysis : RowFits(rows[a])
      BY DEF DaemonFits
<1>2. events \in [Reason -> Nat] /\ Total(events) \in Int
      BY DEF DaemonFits, Total, Reason
<1>3. CASE q.op \in {"begin", "append", "abort"}
  <2> DEFINE x == q.analysis  row == rows'[x]
  <2>1. x \in Analysis  BY <1>3 DEF RequestFits, OfAnalysis
  <2>2. rows[x].state \notin Closed
        BY <1>3 DEF Admits, Closed
  <2>6. q.op # "finalize" /\ Total(events) = Total(events) + Cost(q)
        BY <1>2, <1>3 DEF Cost
  <2>3. CASE q.op = "begin"
    <3>1. rows' = [rows EXCEPT ![x].state = "open"] /\ events' = events
          BY <2>3 DEF Commit
    <3> HIDE DEF x
    <3>2. DaemonFits'  BY <1>1, <1>2, <2>1, <3>1 DEF DaemonFits, RowFits, RowStates
    <3>3. \A a \in Analysis : rows'[a].previous = rows[a].previous
          BY <1>1, <2>1, <3>1 DEF RowFits
    <3>4. Grows  BY <1>1, <2>1, <2>2, <3>1 DEF Grows, RowFits
    <3> QED  BY ONLY <2>6, <3>1, <3>2, <3>3, <3>4
  <2>4. CASE q.op = "append"
    <3> DEFINE b == rows[x].blocks + q.blocks  n == rows[x].batches + 1
    <3>1. rows' = [rows EXCEPT ![x].blocks = b, ![x].batches = n] /\ events' = events
          BY <1>1, <2>1, <2>4 DEF Commit, RowFits
    <3> HIDE DEF x, b, n
    <3>2. DaemonFits'  BY <1>1, <1>2, <2>1, <3>1 DEF DaemonFits, RowFits, RowStates
    <3>3. \A a \in Analysis : rows'[a].previous = rows[a].previous
          BY <1>1, <2>1, <3>1 DEF RowFits
    <3>4. Grows  BY <1>1, <2>1, <2>2, <3>1 DEF Grows, RowFits
    <3> QED  BY ONLY <2>6, <3>1, <3>2, <3>3, <3>4
  <2>5. CASE q.op = "abort"
    <3>1. rows' = [rows EXCEPT ![x].state = "aborted"] /\ events' = events
          BY <2>5 DEF Commit
    <3> HIDE DEF x
    <3>2. DaemonFits'  BY <1>1, <1>2, <2>1, <3>1 DEF DaemonFits, RowFits, RowStates, Closed
    <3>3. \A a \in Analysis : rows'[a].previous = rows[a].previous
          BY <1>1, <2>1, <3>1 DEF RowFits
    <3>4. Grows  BY <1>1, <2>1, <2>2, <3>1 DEF Grows, RowFits
    <3> QED  BY ONLY <2>6, <3>1, <3>2, <3>3, <3>4
  <2> QED  BY <1>3, <2>3, <2>4, <2>5
<1>4. CASE q.op = "finalize"
  <2> DEFINE x == q.analysis  s == q.status  p == q.previous
  <2>1. x \in Analysis /\ s \in {"complete", "partial"} /\ p \in SUBSET Analysis
        BY <1>4 DEF RequestFits, OfAnalysis
  <2>2. rows[x].state = "open"  BY <1>4 DEF Admits
  <2>3. rows' = [rows EXCEPT ![x].state = s, ![x].previous = p] /\ events' = events
        BY <1>4 DEF Commit
  <2> HIDE DEF x, s, p
  <2>4. DaemonFits'  BY <1>1, <1>2, <2>1, <2>3 DEF DaemonFits, RowFits, RowStates, Closed
  <2>5. \A a \in Analysis : rows'[a].previous = (IF a = x THEN p ELSE rows[a].previous)
        BY <1>1, <2>1, <2>3 DEF RowFits
  <2>6. Grows  BY <1>1, <2>1, <2>2, <2>3 DEF Grows, RowFits, Closed
  <2>7. rows'[x].state = s  BY <1>1, <2>1, <2>3 DEF RowFits
  <2>8. \A a \in Analysis :
           \/ rows'[a].previous = rows[a].previous
           \/ /\ q.op = "finalize" /\ a = q.analysis /\ rows[a].state = "open"
              /\ rows'[a].previous = q.previous
        BY <1>4, <2>2, <2>5 DEF x, p
  <2>9. Total(events') = Total(events) + Cost(q)
        BY <1>2, <1>4, <2>3 DEF Cost
  <2> QED  BY <2>4, <2>6, <2>7, <2>8, <2>9 DEF x, s
<1>5. CASE q.op = "status"
  <2>1. rows' = rows /\ events' = events  BY <1>5 DEF Commit, daemonVars
  <2> QED  BY <1>1, <1>2, <1>5, <2>1 DEF Cost, Grows, DaemonFits
<1>6. CASE q.op = "finish"
  <2>1. /\ rows' = [a \in Analysis |->
              IF rows[a].state = "open" THEN [rows[a] EXCEPT !.state = "partial"] ELSE rows[a]]
        /\ events' = events
        BY <1>6 DEF Commit
  <2>2. ASSUME NEW a \in Analysis
        PROVE  /\ RowFits(rows'[a]) /\ rows'[a].previous = rows[a].previous
               /\ rows[a].state \in Closed => rows'[a].state = rows[a].state
    <3>1. RowFits(rows[a]) /\ rows'[a] = (IF rows[a].state = "open"
                                THEN [rows[a] EXCEPT !.state = "partial"] ELSE rows[a])
          BY <1>1, <2>1
    <3> QED  BY <3>1 DEF RowFits, RowStates, Closed
  <2>3. DaemonFits'  BY <1>2, <2>1, <2>2 DEF DaemonFits
  <2> QED  BY <1>2, <1>6, <2>1, <2>2, <2>3 DEF Cost, Grows
<1>7. CASE q.op = "drops"
  <2>1. q.reason \in Reason /\ q.number \in Nat  BY <1>7 DEF RequestFits
  <2>2. rows' = rows /\ events' = [events EXCEPT ![q.reason] = @ + q.number]
        BY <1>7 DEF Commit
  <2>3. events' \in [Reason -> Nat]  BY <1>2, <2>1, <2>2
  <2>4. Total(events') = Total(events) + q.number
        BY <1>2, <2>1, <2>2 DEF Total, Reason
  <2> QED  BY <1>1, <1>7, <2>2, <2>3, <2>4 DEF Cost, Grows, DaemonFits
<1>8. q.op \in {"begin", "append", "abort"} \/ q.op \in {"finalize", "status", "finish", "drops"}
      BY DEF RequestFits, OfAnalysis
<1> QED  BY ONLY <1>3, <1>4, <1>5, <1>6, <1>7, <1>8

(* What the daemon does with the request of a client: perform it, or not.     *)
LEMMA AnswerShape ==
    ASSUME CallsFit, NEW c \in Client, DaemonAnswers(c)
    PROVE  /\ RequestFits(calls[c]) /\ calls[c].answer = "none"
           /\ strays' = strays /\ DOMAIN calls' = Client
           /\ \A b \in Client : b # c => calls'[b] = calls[b]
           /\ RequestFits(calls'[c]) /\ DOMAIN calls'[c] = DOMAIN calls[c]
           /\ \A x \in DOMAIN calls[c] : x # "answer" => calls'[c][x] = calls[c][x]
           /\ \/ /\ Admits(calls[c]) /\ Commit(calls[c])
                 /\ calls'[c].answer \in {Answer(calls[c]), "lost"}
              \/ /\ calls'[c].answer = "error" /\ UNCHANGED daemonVars
<1> DEFINE q == calls[c]
<1>1. RequestFits(q) /\ q.answer = "none" /\ DOMAIN calls = Client
      BY DEF DaemonAnswers, Waits, CallsFit
<1>2. PICK answer :
        /\ calls' = [calls EXCEPT ![c].answer = answer]
        /\ \/ Admits(q) /\ Commit(q) /\ answer \in {Answer(q), "lost"}
           \/ answer = "error" /\ UNCHANGED daemonVars
      BY DEF DaemonAnswers
<1>3. calls'[c] = [q EXCEPT !.answer = answer]  BY <1>1, <1>2
<1>4. /\ RequestFits(calls'[c]) /\ calls'[c].answer = answer
      /\ DOMAIN calls'[c] = DOMAIN q
      /\ \A y \in DOMAIN q : y # "answer" => calls'[c][y] = q[y]
  <2> DEFINE d == calls'[c]
  <2> HIDE DEF q, d
  <2>1. d = [q EXCEPT !.answer = answer]  BY <1>3 DEF d
  <2> QED  BY <1>1, <2>1, AnswerFits DEF d
<1>5. strays' = strays  BY DEF DaemonAnswers
<1> QED  BY <1>1, <1>2, <1>4, <1>5

(* What the daemon does with a request that was left behind.                  *)
LEMMA StrayShape ==
    ASSUME CallsFit, NEW q \in strays, DaemonPerformsStray(q)
    PROVE  /\ RequestFits(q) /\ strays' = strays \ {q} /\ calls' = calls
           /\ (Admits(q) /\ Commit(q)) \/ UNCHANGED daemonVars
BY DEF DaemonPerformsStray, CallsFit

(* The daemon's rows and events; a terminal row stays as it is.               *)
LEMMA DaemonFitsStep ==
    ASSUME Fits, Next
    PROVE  DaemonFits' /\ Grows
<1>1. DaemonFits /\ CallsFit  BY DEF Fits
<1>2. CASE UNCHANGED daemonVars
      BY <1>1, <1>2 DEF daemonVars, DaemonFits, Grows
<1>3. ASSUME NEW c \in Client, DaemonAnswers(c) PROVE DaemonFits' /\ Grows
  <2> DEFINE q == calls[c]
  <2>1. RequestFits(q) /\ ((Admits(q) /\ Commit(q)) \/ UNCHANGED daemonVars)
        BY <1>1, <1>3, AnswerShape
  <2> HIDE DEF q
  <2> QED  BY <1>1, <1>2, <2>1, CommitFits
<1>4. ASSUME NEW q \in strays, DaemonPerformsStray(q) PROVE DaemonFits' /\ Grows
      BY <1>1, <1>2, <1>4, StrayShape, CommitFits
<1> QED  BY <1>2, <1>3, <1>4, DaemonFrame

(* Every request on its way is a whole one.                                   *)
LEMMA CallsFitStep ==
    ASSUME Fits, Places, Next
    PROVE  CallsFit'
<1> DEFINE Both == DOMAIN calls' = Client
                   /\ \A c \in Client : calls'[c] = Idle \/ RequestFits(calls'[c])
<1>1. CallsFit /\ {"worker", "main"} \subseteq Client  BY DEF Fits, Client
<1>2. ASSUME Both, strays' = strays PROVE CallsFit'
      BY <1>1, <1>2 DEF CallsFit
<1>3. CASE calls' = calls /\ strays' = strays
      BY <1>1, <1>3 DEF CallsFit
<1>4. CASE \/ WorkerBegun \/ WorkerAborted \/ WorkerFlushed \/ Reconciled \/ Finished
           \/ RestFlushed \/ LookupTimesOut
  <2>1. (Read("worker") \/ Read("main")) /\ strays' = strays
        BY <1>4 DEF WorkerBegun, WorkerAborted, WorkerFlushed, Reconciled, Finished,
                    RestFlushed, LookupTimesOut
  <2>2. Both  BY <1>1, <2>1, ReadFits
  <2> QED  BY <1>2, <2>1, <2>2
<1>5. CASE WorkerBegins
  <2> DEFINE a == Head(jobs).analysis
             q == [op |-> "begin", analysis |-> a, answer |-> "none"]
  <2>1. a \in Analysis
    <3>1. Head(jobs) \in Job  BY <1>5, HeadTailProperties DEF WorkerBegins, Fits
    <3> QED  BY <3>1 DEF Job
  <2>2. RequestFits(q)  BY <2>1, BeginFits
  <2>3. Ask("worker", q) /\ strays' = strays  BY <1>5 DEF WorkerBegins
  <2> HIDE DEF q
  <2>4. Both  BY <1>1, <2>2, <2>3, AskFits
  <2> QED  BY <1>2, <2>3, <2>4
<1>6. ASSUME worker.pc \in {"blocks", "abort"}, Ask("worker", [op |-> "abort",
             analysis |-> Current, answer |-> "none"]), strays' = strays
      PROVE  CallsFit'
  <2> DEFINE q == [op |-> "abort", analysis |-> Current, answer |-> "none"]
  <2>1. Current \in Analysis  BY <1>6 DEF Fits, WorkerFits, Job, Current
  <2>2. RequestFits(q)  BY <2>1, BeginFits
  <2>3. Ask("worker", q)  BY <1>6
  <2> HIDE DEF q
  <2>4. Both  BY <1>1, <2>2, <2>3, AskFits
  <2> QED  BY <1>2, <1>6, <2>4
<1>7. CASE WorkerAppended \/ WorkerFinalized
  <2>1. worker.pc = "blocks"
        BY <1>7 DEF WorkerAppended, WorkerFinalized, Answered, Places, WorkerAsks
  <2>2. \/ Read("worker")
        \/ Ask("worker", [op |-> "abort", analysis |-> Current, answer |-> "none"])
        BY <1>7 DEF WorkerAppended, WorkerFinalized
  <2>3. strays' = strays  BY <1>7 DEF WorkerAppended, WorkerFinalized
  <2>4. CASE Read("worker")
    <3>1. Both  BY <1>1, <2>4, ReadFits
    <3> QED  BY <1>2, <2>3, <3>1
  <2> QED  BY <1>6, <2>1, <2>2, <2>3, <2>4
<1>8. CASE WorkerSends
  <2>1. Current \in Analysis /\ worker.job.status \in {"complete", "partial"}
        BY <1>8 DEF WorkerSends, Fits, WorkerFits, Job, Current
  <2>2. worker.previous \in SUBSET Analysis  BY DEF Fits, WorkerFits
  <2>3. FinalStatus \in {"complete", "partial"}  BY <2>1 DEF FinalStatus
  <2> DEFINE p == [op |-> "append", analysis |-> Current,
                   blocks |-> NextBatch, sequence |-> worker.sequence, answer |-> "none"]
             q == [op |-> "finalize", analysis |-> Current,
                   status |-> FinalStatus, blocks |-> worker.accepted,
                   previous |-> worker.previous, answer |-> "none"]
  <2>4. RequestFits(p) /\ RequestFits(q)
        BY <2>1, <2>2, <2>3, AppendFits, FinalizeFits
  <2>5. (Ask("worker", p) \/ Ask("worker", q)) /\ strays' = strays
        BY <1>8 DEF WorkerSends
  <2> HIDE DEF p, q
  <2>6. Both  BY <1>1, <2>4, <2>5, AskFits
  <2> QED  BY <1>2, <2>5, <2>6
<1>9. ASSUME NEW client \in Client, NEW left \in Seq(Reason), Unreported(left) # {},
             Flush(client, Min(Unreported(left)), left), strays' = strays
      PROVE  CallsFit'
  <2> DEFINE r == left[Min(Unreported(left))]
             n == account.unreported[r]
             q == [op |-> "drops", reason |-> r, number |-> n, answer |-> "none"]
  <2>1. r \in Reason /\ n \in Nat  BY <1>9, NextReport
  <2>2. RequestFits(q)  BY <2>1, DropsFit
  <2>3. Ask(client, q)  BY <1>9 DEF Flush
  <2> HIDE DEF q
  <2>4. Both  BY <1>1, <2>2, <2>3, AskFits
  <2> QED  BY <1>2, <1>9, <2>4
<1>10. CASE WorkerFlushes
  <2>1. CASE Unreported(worker.left) = {}
        BY <1>3, <1>10, <2>1 DEF WorkerFlushes
  <2>2. CASE Unreported(worker.left) # {}
    <3>1. Flush("worker", Min(Unreported(worker.left)), worker.left) /\ strays' = strays
          BY <1>10, <2>2 DEF WorkerFlushes
    <3>2. worker.left \in Seq(Reason)  BY DEF Fits, WorkerFits
    <3> QED  BY <1>1, <1>9, <2>2, <3>1, <3>2
  <2> QED  BY <2>1, <2>2
<1>11. CASE RestFlushes
  <2>1. CASE Unreported(main.left) = {}
        BY <1>3, <1>11, <2>1 DEF RestFlushes
  <2>2. CASE Unreported(main.left) # {}
    <3>1. Flush("main", Min(Unreported(main.left)), main.left) /\ strays' = strays
          BY <1>11, <2>2 DEF RestFlushes
    <3>2. main.left \in Seq(Reason)  BY DEF Fits
    <3> QED  BY <1>1, <1>9, <2>2, <3>1, <3>2
  <2> QED  BY <2>1, <2>2
<1>12. CASE Lookup
  <2> DEFINE a == Min(main.todo)
             q == [op |-> "status", analysis |-> a, answer |-> "none"]
  <2>1. a \in Analysis
    <3>1. main.todo \in SUBSET Analysis /\ main.todo # {}  BY <1>12 DEF Lookup, Fits
    <3>2. main.todo \in SUBSET Nat  BY <3>1, IngestionAssumption
    <3> QED  BY <3>1, <3>2, MinExists
  <2>2. RequestFits(q)  BY <2>1, BeginFits
  <2>3. Ask("main", q) /\ strays' = strays  BY <1>12 DEF Lookup
  <2> HIDE DEF q
  <2>4. Both  BY <1>1, <2>2, <2>3, AskFits
  <2> QED  BY <1>2, <2>3, <2>4
<1>13. CASE Finish
  <2> DEFINE q == [op |-> "finish", answer |-> "none"]
  <2>1. RequestFits(q) /\ Ask("main", q) /\ strays' = strays
        BY <1>13, FinishFits DEF Finish
  <2> HIDE DEF q
  <2>2. Both  BY <1>1, <2>1, AskFits
  <2> QED  BY <1>2, <2>1, <2>2
<1>14. CASE Abort \/ FlushTimesOut
  <2>1. PICK c \in Client : /\ Read(c)
                            /\ strays' = strays \cup (IF Waits(c) THEN {calls[c]} ELSE {})
        BY <1>1, <1>14 DEF Abort, FlushTimesOut
  <2>2. Both  BY <1>1, <2>1, ReadFits
  <2>3. Waits(c) => RequestFits(calls[c])  BY <1>1 DEF CallsFit, Waits
  <2>4. \A q \in strays' : RequestFits(q)  BY <1>1, <2>1, <2>3 DEF CallsFit
  <2> QED  BY <2>2, <2>4 DEF CallsFit
<1>15. ASSUME NEW c \in Client, DaemonAnswers(c) PROVE CallsFit'
  <2>1. Both
    <3>1. ASSUME NEW b \in Client PROVE calls'[b] = Idle \/ RequestFits(calls'[b])
          BY <1>1, <1>15, AnswerShape DEF CallsFit
    <3> QED  BY <1>1, <1>15, <3>1, AnswerShape
  <2>2. strays' = strays  BY <1>1, <1>15, AnswerShape
  <2> QED  BY <1>2, <2>1, <2>2
<1>16. ASSUME NEW q \in strays, DaemonPerformsStray(q) PROVE CallsFit'
      BY <1>1, <1>16, StrayShape DEF CallsFit
<1> QED  BY <1>3, <1>4, <1>5, <1>7, <1>8, <1>10, <1>11, <1>12, <1>13, <1>14, <1>15, <1>16,
            CallsFrame

(* Every variable keeps its type.                                             *)
LEMMA FitsStep ==
    ASSUME Fits, Places, Next
    PROVE  Fits'
<1>1. AccountFits(account)'
  <2>1. Moves(account, account')  BY StepMoves
  <2>2. AccountFits(account')  BY <2>1 DEF Moves
  <2> QED  BY <2>2 DEF AccountFits, Account
<1> QED  BY <1>1, RecorderFitsStep, WorkerFitsStep, MainFitsStep, CallsFitStep, DaemonFitsStep
            DEF Fits

(* It has it at the start of a run.                                           *)
LEMMA InitFits ==
    ASSUME Init
    PROVE  Fits
<1>1. AccountFits(account)
  <2> DEFINE u == [r \in Reason |-> 0]  f == [a \in Analysis |-> "unseen"]
  <2>1. u \in [Reason -> Nat] /\ f \in [Analysis -> Fates]  BY DEF Fates
  <2>2. {a \in Analysis : f[a] = "pending"} = {}  OBVIOUS
  <2>3. account = [pending |-> {}, evidence |-> {}, holes |-> {}, through |-> -1,
                   seen |-> 0, complete |-> 0, partial |-> 0, dropped |-> 0,
                   unreported |-> u, fate |-> f]
        BY DEF Init, InitialAccount
  <2> HIDE DEF u, f
  <2> QED  BY <2>1, <2>2, <2>3 DEF AccountFits, Account
<1>2. recording \in [Analysis -> {"coming", "seen", "gone"}] /\ jobs \in Seq(Job)
      BY EmptySeq DEF Init
<1>3. WorkerFits  BY EmptySeq DEF Init, IdleWorker, WorkerFits
<1>4. main \in [phase : Phase, timedOut : BOOLEAN, todo : SUBSET Analysis, left : Seq(Reason)]
      BY EmptySeq DEF Init, InitialMain, Phase
<1>5. CallsFit  BY DEF Init, CallsFit
<1>6. DaemonFits
  <2>1. RowFits(NoRow)  BY DEF RowFits, NoRow, RowStates
  <2> QED  BY <2>1 DEF Init, DaemonFits
<1> QED  BY <1>1, <1>2, <1>3, <1>4, <1>5, <1>6 DEF Fits
-----------------------------------------------------------------------------
(* Places                                                                     *)

(* The worker waits for the request of the place where it is.                 *)
LEMMA WorkerAsksStep ==
    ASSUME Fits, Places, Next
    PROVE  WorkerAsks'
<1> DEFINE q == calls["worker"]
<1>1. CallsFit /\ WorkerFits /\ WorkerAsks /\ "worker" \in Client /\ "main" \in Client
      BY DEF Fits, Places, Client
<1>2. q = Idle \/ RequestFits(q)  BY <1>1 DEF CallsFit
<1>3. Idle.op = "none"  BY DEF Idle
<1>4. ASSUME worker' = worker, calls'["worker"] = q PROVE WorkerAsks'
      BY <1>1, <1>4 DEF WorkerAsks, Current
<1>5. ASSUME calls'["worker"] = Idle PROVE WorkerAsks'
      BY <1>3, <1>5 DEF WorkerAsks, OfAnalysis
<1>6. CASE worker' = worker /\ calls' = calls  BY <1>4, <1>6
<1>7. CASE WorkerBegun \/ WorkerAborted \/ WorkerFlushed \/ Abort
  <2>1. Read("worker")  BY <1>7 DEF WorkerBegun, WorkerAborted, WorkerFlushed, Abort
  <2> QED  BY <1>1, <1>5, <2>1, ReadFits
<1>8. ASSUME NEW r, Ask("worker", r) PROVE calls'["worker"] = r
      BY <1>1, <1>8 DEF Ask, CallsFit
<1>9. CASE WorkerBegins
  <2>1. /\ calls'["worker"] = [op |-> "begin", analysis |-> Head(jobs).analysis, answer |-> "none"]
        /\ worker'.pc = "begin" /\ worker'.job = Head(jobs)
        BY <1>1, <1>8, <1>9 DEF WorkerBegins, WorkerFits
  <2> QED  BY <2>1 DEF WorkerAsks, Current, OfAnalysis
<1>10. CASE WorkerSends
  <2>1. worker' = worker /\ worker.pc = "blocks"  BY <1>10 DEF WorkerSends
  <2>2. /\ calls'["worker"].op \in {"append", "finalize"}
        /\ calls'["worker"].analysis = Current
        BY <1>8, <1>10 DEF WorkerSends
  <2> QED  BY <2>1, <2>2 DEF WorkerAsks, Current, OfAnalysis
<1>11. CASE WorkerAppended \/ WorkerFinalized
  <2>1. \/ Read("worker")
        \/ /\ Ask("worker", [op |-> "abort", analysis |-> Current, answer |-> "none"])
           /\ worker' = [worker EXCEPT !.pc = "abort"]
        BY <1>11 DEF WorkerAppended, WorkerFinalized
  <2>2. CASE Read("worker")  BY <1>1, <1>5, <2>2, ReadFits
  <2>3. CASE /\ Ask("worker", [op |-> "abort", analysis |-> Current, answer |-> "none"])
             /\ worker' = [worker EXCEPT !.pc = "abort"]
    <3>1. /\ calls'["worker"].op = "abort" /\ calls'["worker"].analysis = Current
          /\ worker'.pc = "abort" /\ worker'.job = worker.job
          BY <1>1, <1>8, <2>3 DEF WorkerFits
    <3> QED  BY <3>1 DEF WorkerAsks, Current, OfAnalysis
  <2> QED  BY <2>1, <2>2, <2>3
<1>12. CASE WorkerDrained
  <2>1. worker.pc = "idle" /\ calls' = calls  BY <1>12 DEF WorkerDrained
  <2>2. q = Idle
        BY <1>1, <1>2, <2>1 DEF WorkerAsks, RequestFits, OfAnalysis
  <2> QED  BY <1>5, <2>1, <2>2
<1>13. CASE WorkerFlushes
  <2>1. CASE Unreported(worker.left) = {}
        BY <1>5, <1>13, <2>1 DEF WorkerFlushes
  <2>2. CASE Unreported(worker.left) # {}
    <3>1. /\ Flush("worker", Min(Unreported(worker.left)), worker.left)
          /\ worker.pc = "flush"
          /\ worker' = [worker EXCEPT !.left =
                          SubSeq(worker.left, Min(Unreported(worker.left)) + 1, Len(worker.left))]
          BY <1>13, <2>2 DEF WorkerFlushes
    <3>2. calls'["worker"].op = "drops"  BY <1>8, <3>1 DEF Flush
    <3>3. worker'.pc = "flush"  BY <1>1, <3>1 DEF WorkerFits
    <3> QED  BY <3>2, <3>3 DEF WorkerAsks, OfAnalysis
  <2> QED  BY <2>1, <2>2
<1>14. CASE \/ Lookup \/ Reconciled \/ Finish \/ Finished \/ RestFlushes \/ RestFlushed
            \/ LookupTimesOut \/ FlushTimesOut
  <2>1. worker' = worker
        BY <1>14 DEF Lookup, Reconciled, Finish, Finished, RestFlushes, RestFlushed,
                     LookupTimesOut, FlushTimesOut
  <2>2. calls'["worker"] = q
        BY <1>1, <1>14 DEF Lookup, Reconciled, Finish, Finished, RestFlushes, RestFlushed,
                     LookupTimesOut, FlushTimesOut, Flush, Ask, Read, CallsFit
  <2> QED  BY <1>4, <2>1, <2>2
<1>15. ASSUME NEW c \in Client, DaemonAnswers(c) PROVE WorkerAsks'
  <2>1. worker' = worker  BY <1>15 DEF DaemonAnswers
  <2>2. CASE c # "worker"
        BY <1>1, <1>4, <1>15, <2>1, <2>2, AnswerShape
  <2>3. CASE c = "worker"
    <3>1. /\ RequestFits(q) /\ \A x \in DOMAIN q : x # "answer" => calls'["worker"][x] = q[x]
          BY <1>1, <1>15, <2>3, AnswerShape
    <3>2. /\ calls'["worker"].op = q.op
          /\ q.op \in OfAnalysis => calls'["worker"].analysis = q.analysis
          BY <3>1 DEF RequestFits
    <3> QED  BY <1>1, <2>1, <3>2 DEF WorkerAsks, Current
  <2> QED  BY <2>2, <2>3
<1>16. ASSUME NEW r \in strays, DaemonPerformsStray(r) PROVE WorkerAsks'
      BY <1>4, <1>16 DEF DaemonPerformsStray
<1> QED  BY <1>6, <1>7, <1>9, <1>10, <1>11, <1>12, <1>13, <1>14, <1>15, <1>16,
            CallsFrame, WorkerFrame

(* So does run_agent.                                                         *)
LEMMA MainAsksStep ==
    ASSUME Fits, Places, Next
    PROVE  MainAsks'
<1> DEFINE q == calls["main"]
<1>1. CallsFit /\ MainAsks /\ "worker" \in Client /\ "main" \in Client
      BY DEF Fits, Places, Client
<1>2. main \in [phase : Phase, timedOut : BOOLEAN, todo : SUBSET Analysis, left : Seq(Reason)]
      BY DEF Fits
<1>3. q = Idle \/ RequestFits(q)  BY <1>1 DEF CallsFit
<1>4. Idle.op = "none"  BY DEF Idle
<1>5. ASSUME main'.phase = main.phase, main'.todo = main.todo, calls'["main"] = q
      PROVE  MainAsks'
      BY <1>1, <1>5 DEF MainAsks
<1>6. ASSUME calls'["main"] = Idle PROVE MainAsks'
      BY <1>4, <1>6 DEF MainAsks
<1>7. ASSUME main.phase \in {"serving", "draining", "finish", "done"} PROVE q = Idle
      BY <1>1, <1>3, <1>7 DEF MainAsks, RequestFits, OfAnalysis
<1>8. ASSUME NEW r, Ask("main", r) PROVE calls'["main"] = r
      BY <1>1, <1>8 DEF Ask, CallsFit
<1>9. CASE main' = main /\ calls' = calls  BY <1>5, <1>9
<1>10. CASE AgentExits \/ DrainEnds \/ AgentIsNotStarted \/ DrainTimesOut
  <2>1. calls' = calls /\ main.phase \in {"serving", "draining"}
        BY <1>10 DEF AgentExits, DrainEnds, AgentIsNotStarted, DrainTimesOut
  <2> QED  BY <1>6, <1>7, <2>1
<1>11. CASE Reconciled \/ Finished \/ LookupTimesOut \/ FlushTimesOut \/ RestFlushed
  <2>1. Read("main")
        BY <1>11 DEF Reconciled, Finished, LookupTimesOut, FlushTimesOut, RestFlushed
  <2> QED  BY <1>1, <1>6, <2>1, ReadFits
<1>12. CASE Abort
  <2>1. Read("worker") /\ main.phase = "reconcile" /\ main.todo = {}
        BY <1>12 DEF Abort
  <2>2. q = Idle  BY <1>1, <1>3, <2>1 DEF MainAsks, RequestFits, OfAnalysis
  <2>3. calls'["main"] = q  BY <1>1, <2>1, ReadFits
  <2> QED  BY <1>6, <2>2, <2>3
<1>13. CASE DropRest
  <2>1. calls' = calls /\ main.phase = "again" /\ main.todo = {}  BY <1>13 DEF DropRest
  <2>2. q = Idle  BY <1>1, <1>3, <2>1 DEF MainAsks, RequestFits, OfAnalysis
  <2> QED  BY <1>6, <2>1, <2>2
<1>14. CASE Finish
  <2>1. /\ main'.phase = "finishing" /\ Ask("main", [op |-> "finish", answer |-> "none"])
        BY <1>2, <1>14 DEF Finish
  <2>2. calls'["main"].op = "finish"  BY <1>8, <2>1
  <2> QED  BY <2>1, <2>2 DEF MainAsks
<1>15. CASE Lookup
  <2>1. /\ main' = main /\ main.phase \in {"reconcile", "again"} /\ main.todo # {}
        /\ Ask("main", [op |-> "status", analysis |-> Min(main.todo), answer |-> "none"])
        BY <1>15 DEF Lookup, Reconciling
  <2>2. calls'["main"].op = "status" /\ calls'["main"].analysis = Min(main.todo)
        BY <1>8, <2>1
  <2>3. Min(main.todo) \in main.todo
    <3>1. main.todo \in SUBSET Analysis  BY <1>2
    <3>2. main.todo \in SUBSET Nat  BY <3>1, IngestionAssumption
    <3> QED  BY <2>1, <3>2, MinExists
  <2> QED  BY <2>1, <2>2, <2>3 DEF MainAsks
<1>16. CASE RestFlushes
  <2>1. CASE Unreported(main.left) = {}
        BY <1>6, <1>16, <2>1 DEF RestFlushes
  <2>2. CASE Unreported(main.left) # {}
    <3>1. /\ Flush("main", Min(Unreported(main.left)), main.left)
          /\ main.phase = "flush"
          /\ main' = [main EXCEPT !.left =
                          SubSeq(main.left, Min(Unreported(main.left)) + 1, Len(main.left))]
          BY <1>16, <2>2 DEF RestFlushes
    <3>2. calls'["main"].op = "drops"  BY <1>8, <3>1 DEF Flush
    <3>3. main'.phase = "flush"  BY <1>2, <3>1
    <3> QED  BY <3>2, <3>3 DEF MainAsks
  <2> QED  BY <2>1, <2>2
<1>17. CASE \/ WorkerBegins \/ WorkerBegun \/ WorkerSends \/ WorkerAppended \/ WorkerFinalized
            \/ WorkerAborted \/ WorkerFlushes \/ WorkerFlushed
  <2>1. main' = main
        BY <1>17 DEF WorkerBegins, WorkerBegun, WorkerSends, WorkerAppended, WorkerFinalized,
                     WorkerAborted, WorkerFlushes, WorkerFlushed
  <2>2. calls'["main"] = q
        BY <1>1, <1>17 DEF WorkerBegins, WorkerBegun, WorkerSends, WorkerAppended, WorkerFinalized,
                     WorkerAborted, WorkerFlushes, WorkerFlushed, Flush, Ask, Read, CallsFit
  <2> QED  BY <1>5, <2>1, <2>2
<1>18. ASSUME NEW c \in Client, DaemonAnswers(c) PROVE MainAsks'
  <2>1. main' = main  BY <1>18 DEF DaemonAnswers
  <2>2. CASE c # "main"
        BY <1>1, <1>5, <1>18, <2>1, <2>2, AnswerShape
  <2>3. CASE c = "main"
    <3>1. /\ RequestFits(q) /\ \A x \in DOMAIN q : x # "answer" => calls'["main"][x] = q[x]
          BY <1>1, <1>18, <2>3, AnswerShape
    <3>2. /\ calls'["main"].op = q.op
          /\ q.op = "status" => calls'["main"].analysis = q.analysis
          BY <3>1 DEF RequestFits, OfAnalysis
    <3> QED  BY <1>1, <2>1, <3>2 DEF MainAsks
  <2> QED  BY <2>2, <2>3
<1>19. ASSUME NEW r \in strays, DaemonPerformsStray(r) PROVE MainAsks'
      BY <1>5, <1>19 DEF DaemonPerformsStray
<1> QED  BY <1>9, <1>10, <1>11, <1>12, <1>13, <1>14, <1>15, <1>16, <1>17, <1>18, <1>19,
            CallsFrame, MainFrame

(* The worker is done, or cut off, when the run says so.                      *)
LEMMA PhasesAgreeStep ==
    ASSUME Fits, Places, Next
    PROVE  PhasesAgree'
<1>1. PhasesAgree /\ WorkerFits /\ WorkerAsks /\ MainAsks  BY DEF Fits, Places
<1>2. main \in [phase : Phase, timedOut : BOOLEAN, todo : SUBSET Analysis, left : Seq(Reason)]
      BY DEF Fits
<1>3. CASE main' = main /\ worker' = worker  BY <1>1, <1>3 DEF PhasesAgree
<1>4. ASSUME IngestionWorker, main' = main
      PROVE  PhasesAgree'
  <2>1. worker.pc \notin {"done", "cut"} /\ worker'.pc # "cut"
    <3>1. CASE WorkerBegins \/ WorkerBegun \/ WorkerSends \/ WorkerDrained
          BY <1>1, <3>1 DEF WorkerBegins, WorkerBegun, WorkerSends, WorkerDrained, WorkerFits
    <3>2. CASE WorkerAppended \/ WorkerFinalized \/ WorkerAborted
          BY <1>1, <3>2 DEF WorkerAppended, WorkerFinalized, WorkerAborted, Answered,
                            WorkerAsks, WorkerFits
    <3>3. CASE WorkerFlushes \/ WorkerFlushed
          BY <1>1, <3>3 DEF WorkerFlushes, WorkerFlushed, WorkerFits
    <3> QED  BY <1>4, <3>1, <3>2, <3>3 DEF IngestionWorker
  <2> QED  BY <1>1, <1>2, <1>4, <2>1 DEF PhasesAgree
<1>5. ASSUME main' = main, Next PROVE PhasesAgree'
  <2>1. \/ worker' = worker \/ IngestionWorker \/ Abort
        BY <1>5, WorkerFrame DEF IngestionWorker
  <2>2. ~Abort
    <3>1. Abort => main.phase = "reconcile" /\ main'.phase = "finish"
          BY <1>2 DEF Abort
    <3> QED  BY <1>5, <3>1
  <2> QED  BY <1>3, <1>4, <1>5, <2>1, <2>2
<1>6. CASE AgentExits \/ DrainEnds \/ AgentIsNotStarted \/ DrainTimesOut
      BY <1>1, <1>2, <1>6 DEF PhasesAgree, AgentExits, DrainEnds, AgentIsNotStarted, DrainTimesOut
<1>7. CASE Reconciled \/ LookupTimesOut
      BY <1>1, <1>2, <1>7 DEF PhasesAgree, Reconciled, LookupTimesOut
<1>8. CASE Abort
      BY <1>1, <1>2, <1>8 DEF PhasesAgree, Abort, WorkerFits
<1>9. CASE Finish \/ Finished
      BY <1>1, <1>2, <1>9 DEF PhasesAgree, Finish, Finished
<1>10. CASE DropRest \/ RestFlushes \/ FlushTimesOut
      BY <1>1, <1>2, <1>10 DEF PhasesAgree, DropRest, RestFlushes, FlushTimesOut
<1> QED  BY <1>5, <1>6, <1>7, <1>8, <1>9, <1>10, MainFrame

(* The worker flushes only when nothing can come any more.                    *)
LEMMA DrainedStep ==
    ASSUME Fits, Places, Next
    PROVE  Drained'
<1>1. Drained /\ WorkerFits /\ WorkerAsks /\ PhasesAgree  BY DEF Fits, Places
<1>2. recording \in [Analysis -> {"coming", "seen", "gone"}]  BY DEF Fits
<1>3. ASSUME worker'.pc \in {"flush", "done"}
      PROVE  worker.pc \in {"flush", "done"} \/ WorkerDrained
  <2>1. CASE worker' = worker  BY <1>3, <2>1
  <2>2. CASE WorkerBegins \/ WorkerBegun \/ WorkerFlushes \/ WorkerFlushed
        BY <1>1, <1>3, <2>2 DEF WorkerBegins, WorkerBegun, WorkerFlushes, WorkerFlushed, WorkerFits
  <2>3. CASE WorkerAppended \/ WorkerFinalized \/ WorkerAborted \/ Abort
        BY <1>1, <1>3, <2>3 DEF WorkerAppended, WorkerFinalized, WorkerAborted, Abort,
                                Answered, WorkerAsks, WorkerFits
  <2> QED  BY <2>1, <2>2, <2>3, WorkerFrame
<1>4. ASSUME jobs = << >>, \A a \in Analysis : recording[a] = "gone"
      PROVE  jobs' = << >> /\ \A a \in Analysis : recording'[a] = "gone"
  <2>1. ASSUME NEW a \in Analysis, RecorderSees(a) \/ RecorderDrops(a) \/ RecorderHands(a)
        PROVE  FALSE
        BY <1>4, <2>1 DEF RecorderSees, RecorderDrops, RecorderHands
  <2>2. CASE \E a \in Analysis : IngressDrops(a)
        BY <1>2, <1>4, <2>2 DEF IngressDrops
  <2>3. CASE WorkerBegins \/ Abort
        BY <1>4, <2>3 DEF WorkerBegins, Abort
  <2> QED  BY <1>4, <2>1, <2>2, <2>3, RecorderFrame
<1>5. WorkerDrained => jobs = << >> /\ \A a \in Analysis : recording[a] = "gone"
      BY DEF WorkerDrained, RecorderEnded
<1> QED  BY <1>1, <1>3, <1>4, <1>5 DEF Drained

(* The places and the requests of the tasks agree.                            *)
LEMMA PlacesStep ==
    ASSUME Fits, Places, Next
    PROVE  Places'
BY WorkerAsksStep, MainAsksStep, PhasesAgreeStep, DrainedStep DEF Places

-----------------------------------------------------------------------------
(* Pending analyses are held                                                  *)

(* What leaves the pending analyses.                                          *)
LEMMA DroppedLeaves ==
    ASSUME AccountFits(account), NEW a \in Analysis, NEW reason \in Reason
    PROVE  /\ Dropped(account, a, reason).pending = account.pending \ {a}
           /\ Dropped(RememberRequest(account, a), a, reason).pending = account.pending \ {a}
           /\ Dropped(EnsureSeen(account, a), a, reason).pending = account.pending \ {a}
           /\ RememberRequest(account, a).pending = account.pending
<1>1. Dropped(account, a, reason).pending = account.pending \ {a}
  <2>1. Concludes(account, Dropped(account, a, reason), {a} \cap account.pending, "dropped")
        BY DroppedConcludes
  <2> QED  BY <2>1 DEF Concludes
<1>2. RememberRequest(account, a).pending = account.pending /\ AccountFits(RememberRequest(account, a))
      BY RememberFits
<1>3. Dropped(RememberRequest(account, a), a, reason).pending = account.pending \ {a}
  <2> DEFINE e == RememberRequest(account, a)
  <2>1. AccountFits(e) /\ e.pending = account.pending  BY <1>2
  <2> HIDE DEF e
  <2>2. Concludes(e, Dropped(e, a, reason), {a} \cap e.pending, "dropped")
        BY <2>1, DroppedConcludes
  <2>3. Dropped(e, a, reason).pending = account.pending \ {a}
        BY <2>1, <2>2 DEF Concludes
  <2> QED  BY <2>3 DEF e
<1> QED  BY <1>1, <1>2, <1>3, SeenDropMoves

(* An analysis that ends is no longer pending.                                *)
LEMMA EndLeaves ==
    ASSUME AccountFits(account), NEW a \in Analysis, NEW kind \in {"complete", "partial"}
    PROVE  End(account, a, kind).pending = account.pending \ {a}
<1>1. Concludes(account, End(account, a, kind), {a} \cap account.pending, kind)
      BY EndConcludes
<1> QED  BY <1>1 DEF Concludes

(* A flush changes no fate.                                                   *)
LEMMA TakeLeaves ==
    ASSUME Fits, NEW client \in Client, NEW left \in Seq(Reason), Unreported(left) # {},
           Flush(client, Min(Unreported(left)), left)
    PROVE  account'.pending = account.pending /\ account'.fate = account.fate
<1> DEFINE r == left[Min(Unreported(left))]
<1>1. account' = [account EXCEPT !.unreported[r] = 0]  BY DEF Flush, Take
<1>2. r \in Reason  BY NextReport
<1>3. AccountFits(account)  BY DEF Fits
<1> HIDE DEF r
<1> QED  BY <1>1, <1>2, <1>3, TakeMoves

(* Every step: what it takes from the pending analyses, by action.            *)
LEMMA PendingChanges ==
    ASSUME Fits, Places, Next
    PROVE  /\ \A a \in Analysis :
                 /\ RecorderSees(a) => account'.pending \subseteq account.pending \cup {a}
                 /\ RecorderDrops(a) => account'.pending = account.pending \ {a}
                 /\ RecorderHands(a) => account'.pending \in {account.pending, account.pending \ {a}}
                 /\ IngressDrops(a) => account'.pending = account.pending \ {a}
           /\ WorkerBegun => account'.pending =
                 IF calls["worker"].answer = "ok" THEN account.pending ELSE account.pending \ {Current}
           /\ WorkerAborted => account'.pending = account.pending \ {Current}
           /\ WorkerFinalized => account'.pending =
                 IF calls["worker"].answer = "ok" THEN account.pending \ {Current} ELSE account.pending
           /\ DropRest => account'.pending = {}
           /\ account'.pending \subseteq account.pending \/ \E a \in Analysis : RecorderSees(a)
           /\ WorkerFlushes \/ RestFlushes => account'.pending = account.pending
<1>1. AccountFits(account) /\ account.pending \in SUBSET Analysis
      BY DEF Fits, AccountFits, Account
<1>2. {"CorrelationDegraded", "Malformed", "ObserverBackpressure", "Cancelled"} \subseteq Reason
      BY DEF Reason
<1>3. ASSUME NEW a \in Analysis
      PROVE  /\ RecorderSees(a) => account'.pending \subseteq account.pending \cup {a}
             /\ RecorderDrops(a) => account'.pending = account.pending \ {a}
             /\ RecorderHands(a) => account'.pending \in {account.pending, account.pending \ {a}}
             /\ IngressDrops(a) => account'.pending = account.pending \ {a}
  <2>1. RecorderSees(a) => account'.pending \subseteq account.pending \cup {a}
    <3> DEFINE e == EnsureSeen(account, a)
    <3>1. e = account \/ e.pending = account.pending \cup {a}
      <4>1. CASE a \in account.pending \/ IsTerminal(account, a)
            BY <4>1 DEF EnsureSeen
      <4>2. CASE ~(a \in account.pending \/ IsTerminal(account, a))
        <5>1. account \in Account  BY <1>1 DEF AccountFits
        <5> QED  BY <4>2, <5>1 DEF EnsureSeen, Account
      <4> QED  BY <4>1, <4>2
    <3>2. RecorderSees(a) => account' = e  BY DEF RecorderSees
    <3> HIDE DEF e
    <3> QED  BY <3>1, <3>2
  <2>2. ASSUME RecorderDrops(a) PROVE account'.pending = account.pending \ {a}
    <3>1. PICK acknowledged \in BOOLEAN, reason \in {"CorrelationDegraded", "Malformed"} :
             account' = Dropped(IF acknowledged THEN RememberRequest(account, a) ELSE account,
                                a, reason)
          BY <2>2 DEF RecorderDrops
    <3>2. reason \in Reason  BY <1>2
    <3>3. CASE acknowledged  BY <1>1, <3>1, <3>2, <3>3, DroppedLeaves
    <3>4. CASE ~acknowledged  BY <1>1, <3>1, <3>2, <3>4, DroppedLeaves
    <3> QED  BY <3>3, <3>4
  <2>3. ASSUME RecorderHands(a)
        PROVE  account'.pending \in {account.pending, account.pending \ {a}}
    <3>1. \/ account' = RememberRequest(account, a)
          \/ account' = Dropped(RememberRequest(account, a), a, "ObserverBackpressure")
          BY <2>3 DEF RecorderHands
    <3> QED  BY <1>1, <1>2, <3>1, DroppedLeaves
  <2>4. IngressDrops(a) => account'.pending = account.pending \ {a}
        BY <1>1, <1>2, DroppedLeaves DEF IngressDrops
  <2> QED  BY <2>1, <2>2, <2>3, <2>4
<1>4. ASSUME WorkerBegun
      PROVE  account'.pending = IF calls["worker"].answer = "ok" THEN account.pending
                                ELSE account.pending \ {Current}
  <2>1. Current \in Analysis  BY <1>4 DEF WorkerBegun, Fits, WorkerFits, Job, Current
  <2> QED  BY <1>1, <1>2, <1>4, <2>1, DroppedLeaves DEF WorkerBegun
<1>5. ASSUME WorkerAborted PROVE account'.pending = account.pending \ {Current}
  <2>1. worker.pc = "abort"
        BY <1>5 DEF WorkerAborted, Answered, Places, WorkerAsks
  <2>2. Current \in Analysis  BY <2>1 DEF Fits, WorkerFits, Job, Current
  <2> QED  BY <1>1, <1>2, <1>5, <2>2, DroppedLeaves DEF WorkerAborted
<1>6. ASSUME WorkerFinalized
      PROVE  account'.pending = IF calls["worker"].answer = "ok" THEN account.pending \ {Current}
                                ELSE account.pending
  <2> DEFINE s == calls["worker"].status
  <2>1. calls["worker"].op = "finalize" /\ worker.pc = "blocks"
        BY <1>6 DEF WorkerFinalized, Answered, Places, WorkerAsks
  <2>2. Current \in Analysis  BY <2>1 DEF Fits, WorkerFits, Job, Current
  <2>3. s \in {"complete", "partial"}
        BY <2>1 DEF Fits, CallsFit, RequestFits, Client, Idle
  <2>4. account' = IF calls["worker"].answer = "ok" THEN End(account, Current, s) ELSE account
        BY <1>6 DEF WorkerFinalized
  <2> HIDE DEF s
  <2> QED  BY <1>1, <2>2, <2>3, <2>4, EndLeaves
<1>7. DropRest => account'.pending = {}
  <2>1. Concludes(account, DropPending(account, "Cancelled"), account.pending, "dropped")
        BY <1>1, <1>2, DropPendingConcludes
  <2>2. DropPending(account, "Cancelled").pending = {}  BY <2>1 DEF Concludes
  <2> QED  BY <2>2 DEF DropRest
<1>8. WorkerFlushes \/ RestFlushes => account'.pending = account.pending
  <2>1. ASSUME WorkerFlushes PROVE account'.pending = account.pending
    <3>1. CASE Unreported(worker.left) = {}  BY <2>1, <3>1 DEF WorkerFlushes
    <3>2. CASE Unreported(worker.left) # {}
      <4>1. Flush("worker", Min(Unreported(worker.left)), worker.left)
            BY <2>1, <3>2 DEF WorkerFlushes
      <4>2. worker.left \in Seq(Reason) /\ "worker" \in Client
            BY DEF Fits, WorkerFits, Client
      <4> QED  BY <3>2, <4>1, <4>2, TakeLeaves
    <3> QED  BY <3>1, <3>2
  <2>2. ASSUME RestFlushes PROVE account'.pending = account.pending
    <3>1. CASE Unreported(main.left) = {}  BY <2>2, <3>1 DEF RestFlushes
    <3>2. CASE Unreported(main.left) # {}
      <4>1. Flush("main", Min(Unreported(main.left)), main.left)
            BY <2>2, <3>2 DEF RestFlushes
      <4>2. main.left \in Seq(Reason) /\ "main" \in Client
            BY DEF Fits, Client
      <4> QED  BY <3>2, <4>1, <4>2, TakeLeaves
    <3> QED  BY <3>1, <3>2
  <2> QED  BY <2>1, <2>2
<1>9. Reconciled => account'.pending \subseteq account.pending
  <2>1. SUFFICES ASSUME Reconciled PROVE account'.pending \subseteq account.pending  OBVIOUS
  <2> DEFINE x == calls["main"].analysis
             s == IF calls["main"].answer = "complete" THEN "complete" ELSE "partial"
  <2>2. x \in Analysis
        BY <2>1 DEF Reconciled, Answered, Fits, CallsFit, RequestFits, Client, Idle, OfAnalysis
  <2>3. s \in {"complete", "partial"}  OBVIOUS
  <2>4. account' = account \/ account' = End(account, x, s)
        BY <2>1 DEF Reconciled, LookedUp
  <2> HIDE DEF x, s
  <2> QED  BY <1>1, <2>2, <2>3, <2>4, EndLeaves
<1>10. \/ account'.pending \subseteq account.pending
       \/ \E a \in Analysis : RecorderSees(a)
  <2>1. CASE account' = account  BY <2>1
  <2>2. CASE \E a \in Analysis : RecorderDrops(a) \/ RecorderHands(a) \/ IngressDrops(a)
        BY <1>3, <2>2
  <2>3. CASE WorkerBegun \/ WorkerAborted \/ WorkerFinalized \/ WorkerFlushes
             \/ RestFlushes \/ DropRest \/ Reconciled
        BY <1>4, <1>5, <1>6, <1>7, <1>8, <1>9, <2>3
  <2> QED  BY <2>1, <2>2, <2>3, AccountFrame
<1> QED  BY <1>3, <1>4, <1>5, <1>6, <1>7, <1>8, <1>10

(* Somebody holds each pending analysis until it ends.                        *)
LEMMA PendingIsHeldStep ==
    ASSUME Fits, Places, PendingIsHeld, Next
    PROVE  PendingIsHeld'
<1> DEFINE Held(a) == \/ recording[a] = "seen"
                      \/ \E i \in DOMAIN jobs : jobs[i].analysis = a
                      \/ worker.pc \in {"begin", "blocks", "abort"} /\ Current = a
<1>1. /\ WorkerFits /\ WorkerAsks /\ PhasesAgree /\ Drained
      /\ recording \in [Analysis -> {"coming", "seen", "gone"}] /\ jobs \in Seq(Job)
      BY DEF Fits, Places
<1>2. account.pending \in SUBSET Analysis /\ account'.pending \in SUBSET Analysis
  <2>1. Fits'  BY FitsStep
  <2>2. account'.pending \in SUBSET Analysis  BY <2>1 DEF Fits, AccountFits, Account
  <2> QED  BY <2>2 DEF Fits, AccountFits, Account
<1>3. ASSUME worker'.pc # "cut", NEW a \in account'.pending
      PROVE  Held(a)'
  <2>1. worker.pc # "cut"
    <3>1. CASE worker' = worker  BY <1>3, <3>1
    <3>2. CASE WorkerBegins \/ WorkerBegun \/ WorkerDrained \/ WorkerFlushes \/ WorkerFlushed
          BY <3>2 DEF WorkerBegins, WorkerBegun, WorkerDrained, WorkerFlushes, WorkerFlushed
    <3>3. CASE WorkerAppended \/ WorkerFinalized \/ WorkerAborted
          BY <1>1, <3>3 DEF WorkerAppended, WorkerFinalized, WorkerAborted, Answered, WorkerAsks
    <3>4. CASE Abort  BY <1>1, <1>3, <3>4 DEF Abort, WorkerFits
    <3> QED  BY <3>1, <3>2, <3>3, <3>4, WorkerFrame
  <2>2. \A x \in account.pending : Held(x)  BY <2>1 DEF PendingIsHeld
  <2> HIDE DEF Held
  <2>3. a \in Analysis  BY <1>2, <1>3
  <2>4. ASSUME UNCHANGED <<recording, jobs, worker>>, a \in account.pending
        PROVE  Held(a)'
        BY <2>2, <2>4 DEF Held, Current
  <2>5. ASSUME NEW x \in Analysis, RecorderSees(x) PROVE Held(a)'
    <3>1. CASE a = x  BY <1>1, <2>5, <3>1 DEF RecorderSees, Held
    <3>2. CASE a # x
      <4>1. a \in account.pending  BY <1>3, <2>5, <3>2, PendingChanges
      <4> QED  BY <1>1, <2>2, <2>5, <3>2, <4>1 DEF RecorderSees, Held, Current
    <3> QED  BY <3>1, <3>2
  <2>6. ASSUME ~\E x \in Analysis : RecorderSees(x) PROVE a \in account.pending
        BY <1>3, <2>6, PendingChanges
  <2>7. ASSUME NEW x \in Analysis, RecorderDrops(x) \/ IngressDrops(x) PROVE Held(a)'
    <3>1. a \in account.pending /\ a # x  BY <1>3, <2>7, PendingChanges
    <3>2. recording'[a] = recording[a] /\ UNCHANGED <<jobs, worker>>
          BY <1>1, <2>3, <2>7, <3>1 DEF RecorderDrops, IngressDrops
    <3> QED  BY <2>2, <3>1, <3>2 DEF Held, Current
  <2>8. ASSUME NEW x \in Analysis, RecorderHands(x) PROVE Held(a)'
    <3>1. a \in account.pending  BY <1>3, <2>8, PendingChanges
    <3>2. a # x => recording'[a] = recording[a]
          BY <1>1, <2>3, <2>8 DEF RecorderHands
    <3>3. PICK status \in {"complete", "partial"} :
             IF Len(jobs) < QueueItems
             THEN jobs' = Append(jobs, [analysis |-> x, status |-> status])
             ELSE /\ jobs' = jobs
                  /\ account' = Dropped(RememberRequest(account, x), x, "ObserverBackpressure")
          BY <2>8 DEF RecorderHands
    <3>4. worker' = worker  BY <2>8 DEF RecorderHands
    <3> DEFINE j == [analysis |-> x, status |-> status]
    <3>5. CASE Len(jobs) < QueueItems
      <4>1. j.analysis = x  OBVIOUS
      <4> HIDE DEF j
      <4>2. /\ jobs' = Append(jobs, j) /\ Len(jobs) \in Nat /\ DOMAIN jobs = 1 .. Len(jobs)
            BY <1>1, <3>3, <3>5 DEF j
      <4>3. /\ DOMAIN jobs' = 1 .. Len(jobs) + 1
            /\ \A i \in DOMAIN jobs : i \in DOMAIN jobs' /\ jobs'[i] = jobs[i]
            /\ Len(jobs) + 1 \in DOMAIN jobs' /\ jobs'[Len(jobs) + 1] = j
            BY <1>1, <4>2
      <4> HIDE DEF j
      <4>4. CASE a = x  BY <4>1, <4>3, <4>4 DEF Held
      <4>5. CASE a # x  BY <2>2, <3>1, <3>2, <3>4, <4>3, <4>5 DEF Held, Current
      <4> QED  BY <4>4, <4>5
    <3>6. CASE ~(Len(jobs) < QueueItems)
      <4>1. a # x
        <5>1. "ObserverBackpressure" \in Reason /\ AccountFits(account)  BY DEF Reason, Fits
        <5>2. account'.pending = account.pending \ {x}
              BY <3>3, <3>6, <5>1, DroppedLeaves
        <5> QED  BY <1>3, <5>2
      <4> QED  BY <2>2, <3>1, <3>2, <3>3, <3>4, <3>6, <4>1 DEF Held, Current
    <3> QED  BY <3>5, <3>6
  <2>9. CASE WorkerBegins
    <3>1. /\ jobs # << >> /\ jobs' = Tail(jobs) /\ worker.pc = "idle" /\ recording' = recording
          /\ worker'.pc = "begin" /\ worker'.job = Head(jobs) /\ account' = account
          BY <1>1, <2>9 DEF WorkerBegins, WorkerFits
    <3>2. Held(a)  BY <1>3, <2>2, <3>1
    <3>3. CASE recording[a] = "seen"  BY <3>1, <3>3 DEF Held
    <3>4. CASE \E i \in DOMAIN jobs : jobs[i].analysis = a
      <4>1. PICK i \in DOMAIN jobs : jobs[i].analysis = a  BY <3>4
      <4>2. CASE i = 1
            BY <1>1, <3>1, <4>1, <4>2 DEF Held, Current
      <4>3. CASE i # 1
        <5>1. Len(jobs) \in Nat /\ i \in 1 .. Len(jobs)  BY <1>1, <4>1
        <5>2. i - 1 \in DOMAIN jobs' /\ jobs'[i - 1] = jobs[i]
              BY <1>1, <3>1, <4>3, <5>1
        <5> QED  BY <4>1, <5>2 DEF Held
      <4> QED  BY <4>2, <4>3
    <3> QED  BY <3>1, <3>2, <3>3, <3>4 DEF Held
  <2>10. CASE WorkerBegun
    <3>1. /\ UNCHANGED <<recording, jobs>> /\ worker'.job = worker.job /\ worker.pc = "begin"
          /\ worker'.pc = IF calls["worker"].answer = "ok" THEN "blocks" ELSE "idle"
          BY <1>1, <2>10 DEF WorkerBegun, WorkerFits
    <3>2. /\ a \in account.pending
          /\ calls["worker"].answer # "ok" => a # Current
          BY <1>3, <2>10, PendingChanges
    <3> QED  BY <2>2, <3>1, <3>2 DEF Held, Current
  <2>11. CASE WorkerAppended
    <3>1. /\ UNCHANGED <<recording, jobs, account>> /\ worker'.job = worker.job
          /\ worker.pc = "blocks" /\ worker'.pc \in {"blocks", "abort"}
          BY <1>1, <2>11 DEF WorkerAppended, WorkerFits, Answered, WorkerAsks
    <3> QED  BY <1>3, <2>2, <3>1 DEF Held, Current
  <2>12. CASE WorkerFinalized
    <3>1. /\ UNCHANGED <<recording, jobs>> /\ worker'.job = worker.job
          /\ worker.pc = "blocks"
          /\ worker'.pc = IF calls["worker"].answer = "ok" THEN "idle" ELSE "abort"
          BY <1>1, <2>12 DEF WorkerFinalized, WorkerFits, Answered, WorkerAsks
    <3>2. /\ a \in account.pending
          /\ calls["worker"].answer = "ok" => a # Current
          BY <1>3, <2>12, PendingChanges
    <3> QED  BY <2>2, <3>1, <3>2 DEF Held, Current
  <2>13. CASE WorkerAborted
    <3>1. /\ UNCHANGED <<recording, jobs>> /\ worker'.job = worker.job
          BY <1>1, <2>13 DEF WorkerAborted, WorkerFits
    <3>2. a \in account.pending /\ a # Current  BY <1>3, <2>13, PendingChanges
    <3> QED  BY <2>2, <3>1, <3>2 DEF Held, Current
  <2>14. CASE WorkerDrained
    <3>1. /\ UNCHANGED <<recording, jobs, account>> /\ worker.pc = "idle" /\ jobs = << >>
          /\ \A x \in Analysis : recording[x] = "gone"
          BY <2>14 DEF WorkerDrained, RecorderEnded
    <3> QED  BY <1>3, <2>2, <2>3, <3>1 DEF Held
  <2>15. CASE WorkerFlushes \/ WorkerFlushed
    <3>1. /\ UNCHANGED <<recording, jobs>> /\ worker'.job = worker.job /\ worker.pc = "flush"
          BY <1>1, <2>15 DEF WorkerFlushes, WorkerFlushed, WorkerFits
    <3>2. a \in account.pending
      <4>1. CASE WorkerFlushes  BY <1>3, <4>1, PendingChanges
      <4>2. CASE WorkerFlushed  BY <1>3, <4>2 DEF WorkerFlushed
      <4> QED  BY <2>15, <4>1, <4>2
    <3> QED  BY <2>2, <3>1, <3>2 DEF Held, Current
  <2>16. CASE Abort  BY <1>1, <1>3, <2>16 DEF Abort, WorkerFits
  <2> QED  BY <2>4, <2>5, <2>6, <2>7, <2>8, <2>9, <2>10, <2>11, <2>12, <2>13, <2>14, <2>15,
              <2>16, WorkerFrame, RecorderFrame
<1>4. ASSUME main'.phase \in {"flush", "done"} PROVE account'.pending = {}
  <2>1. main \in [phase : Phase, timedOut : BOOLEAN, todo : SUBSET Analysis, left : Seq(Reason)]
        BY DEF Fits
  <2>2. ASSUME main.phase \in {"flush", "done"} PROVE account'.pending = {}
    <3>1. account.pending = {}  BY <2>2 DEF PendingIsHeld
    <3>2. ~\E a \in Analysis : RecorderSees(a)
          BY <2>2 DEF RecorderSees, RecorderRuns
    <3> QED  BY <3>1, <3>2, PendingChanges
  <2>3. CASE main' = main  BY <1>4, <2>2, <2>3
  <2>4. CASE DropRest  BY <2>4, PendingChanges
  <2>5. CASE RestFlushes \/ FlushTimesOut
        BY <2>2, <2>5 DEF RestFlushes, FlushTimesOut
  <2>6. CASE Finished
    <3>1. ~main.timedOut /\ main.phase = "finishing" /\ account' = account
          BY <1>4, <2>1, <2>6 DEF Finished
    <3>2. worker.pc = "done"  BY <1>1, <3>1 DEF PhasesAgree
    <3>3. jobs = << >> /\ \A a \in Analysis : recording[a] = "gone"
          BY <1>1, <3>2 DEF Drained
    <3>4. account.pending = {}  BY <1>2, <3>2, <3>3 DEF PendingIsHeld
    <3> QED  BY <3>1, <3>4
  <2>7. CASE Abort \/ Finish \/ AgentExits \/ DrainEnds \/ AgentIsNotStarted \/ DrainTimesOut
        BY <1>4, <2>1, <2>7 DEF Abort, Finish, AgentExits, DrainEnds, AgentIsNotStarted, DrainTimesOut
  <2>8. CASE Reconciled \/ LookupTimesOut
        BY <1>4, <2>1, <2>8 DEF Reconciled, LookupTimesOut, Reconciling
  <2> QED  BY <2>3, <2>4, <2>5, <2>6, <2>7, <2>8, MainFrame
<1> QED  BY <1>3, <1>4 DEF PendingIsHeld, Current

-----------------------------------------------------------------------------
(* Counted outcomes are durable                                               *)

(* A finalized predecessor stays finalized.                                   *)
LEMMA FinalizedStays ==
    ASSUME Grows, NEW S \in SUBSET Analysis, Finalized(S)
    PROVE  \A p \in S : rows'[p].state \in {"complete", "partial"}
BY DEF Grows, Finalized, Closed

(* What becomes of the fates.                                                 *)
LEMMA FateChanges ==
    ASSUME Fits, Places, Next, NEW a \in Analysis
    PROVE  \/ account'.fate[a] \in {account.fate[a], "pending", "dropped"}
           \/ /\ WorkerFinalized /\ calls["worker"].answer = "ok" /\ a = Current
              /\ account'.fate[a] = calls["worker"].status
           \/ /\ Reconciled /\ calls["main"].answer \in Closed
              /\ a = calls["main"].analysis
              /\ account'.fate[a] =
                    IF calls["main"].answer = "complete" THEN "complete" ELSE "partial"
<1> DEFINE Same(d) == d.fate[a] \in {account.fate[a], "pending", "dropped"}
<1>1. AccountFits(account)  BY DEF Fits
<1>2. {"CorrelationDegraded", "Malformed", "ObserverBackpressure", "Cancelled"} \subseteq Reason
      BY DEF Reason
<1>3. ASSUME NEW c, AccountFits(c), c.fate = account.fate, NEW x \in Analysis, NEW r \in Reason
      PROVE  Same(Dropped(c, x, r))
  <2>1. Concludes(c, Dropped(c, x, r), {x} \cap c.pending, "dropped")
        BY <1>3, DroppedConcludes
  <2> QED  BY <1>3, <2>1 DEF Concludes, Ends
<1>4. ASSUME NEW x \in Analysis
      PROVE  /\ AccountFits(RememberRequest(account, x))
             /\ RememberRequest(account, x).fate = account.fate
      BY <1>1, RememberFits
<1>5. ASSUME NEW x \in Analysis, NEW r \in Reason,
             \/ account' = Dropped(account, x, r)
             \/ account' = Dropped(RememberRequest(account, x), x, r)
      PROVE  Same(account')
  <2>1. Same(Dropped(account, x, r))  BY <1>1, <1>3
  <2>2. Same(Dropped(RememberRequest(account, x), x, r))  BY <1>3, <1>4
  <2> QED  BY <1>5, <2>1, <2>2
<1>6. CASE account' = account  BY <1>6
<1>7. ASSUME NEW x \in Analysis, RecorderSees(x) PROVE Same(account')
  <2> DEFINE e == EnsureSeen(account, x)
  <2>1. account' = e  BY <1>7 DEF RecorderSees
  <2>2. e = account \/ e.fate = [account.fate EXCEPT ![x] = "pending"]
        BY <1>1, SeeFits
  <2>3. account.fate \in [Analysis -> Fates]  BY <1>1 DEF AccountFits, Account
  <2> HIDE DEF e
  <2> QED  BY <2>1, <2>2, <2>3
<1>8. ASSUME NEW x \in Analysis, RecorderDrops(x) PROVE Same(account')
  <2>1. PICK acknowledged \in BOOLEAN, reason \in {"CorrelationDegraded", "Malformed"} :
           account' = Dropped(IF acknowledged THEN RememberRequest(account, x) ELSE account,
                              x, reason)
        BY <1>8 DEF RecorderDrops
  <2>2. reason \in Reason  BY <1>2
  <2>3. CASE acknowledged  BY <1>5, <2>1, <2>2, <2>3
  <2>4. CASE ~acknowledged  BY <1>5, <2>1, <2>2, <2>4
  <2> QED  BY <2>3, <2>4
<1>9. ASSUME NEW x \in Analysis, RecorderHands(x) PROVE Same(account')
  <2>1. \/ account' = RememberRequest(account, x)
        \/ account' = Dropped(RememberRequest(account, x), x, "ObserverBackpressure")
        BY <1>9 DEF RecorderHands
  <2>2. CASE account' = RememberRequest(account, x)  BY <1>4, <2>2
  <2>3. CASE account' = Dropped(RememberRequest(account, x), x, "ObserverBackpressure")
        BY <1>2, <1>5, <2>3
  <2> QED  BY <2>1, <2>2, <2>3
<1>10. ASSUME NEW x \in Analysis, IngressDrops(x) PROVE Same(account')
       BY <1>1, <1>2, <1>10, SeenDropMoves DEF IngressDrops
<1>11. ASSUME WorkerBegun PROVE Same(account')
  <2>1. Current \in Analysis  BY <1>11 DEF WorkerBegun, Fits, WorkerFits, Job, Current
  <2>2. account' = account \/ account' = Dropped(account, Current, "CorrelationDegraded")
        BY <1>11 DEF WorkerBegun
  <2> QED  BY <1>2, <1>5, <2>1, <2>2
<1>12. ASSUME WorkerAborted PROVE Same(account')
  <2>1. worker.pc = "abort"
        BY <1>12 DEF WorkerAborted, Answered, Places, WorkerAsks
  <2>2. Current \in Analysis  BY <2>1 DEF Fits, WorkerFits, Job, Current
  <2>3. account' = Dropped(account, Current, "CorrelationDegraded")
        BY <1>12 DEF WorkerAborted
  <2> QED  BY <1>2, <1>5, <2>2, <2>3
<1>13. ASSUME NEW x \in Analysis, NEW s \in {"complete", "partial"}
       PROVE  End(account, x, s).fate[a] = account.fate[a]
                 \/ (a = x /\ End(account, x, s).fate[a] = s)
  <2>1. Concludes(account, End(account, x, s), {x} \cap account.pending, s)
        BY <1>1, EndConcludes
  <2> QED  BY <2>1 DEF Concludes, Ends
<1>14. CASE WorkerFinalized
  <2> DEFINE s == calls["worker"].status
  <2>1. calls["worker"].op = "finalize" /\ worker.pc = "blocks"
        BY <1>14 DEF WorkerFinalized, Answered, Places, WorkerAsks
  <2>2. Current \in Analysis  BY <2>1 DEF Fits, WorkerFits, Job, Current
  <2>3. s \in {"complete", "partial"}
        BY <2>1 DEF Fits, CallsFit, RequestFits, Client, Idle
  <2>4. \/ account' = account
        \/ calls["worker"].answer = "ok" /\ account' = End(account, Current, s)
        BY <1>14 DEF WorkerFinalized
  <2>5. \/ End(account, Current, s).fate[a] = account.fate[a]
        \/ (a = Current /\ End(account, Current, s).fate[a] = s)
        BY <1>13, <2>2, <2>3
  <2> QED  BY <1>14, <2>4, <2>5
<1>15. CASE Reconciled
  <2> DEFINE x == calls["main"].analysis
             s == IF calls["main"].answer = "complete" THEN "complete" ELSE "partial"
  <2>1. x \in Analysis
        BY <1>15 DEF Reconciled, Answered, Fits, CallsFit, RequestFits, Client, Idle, OfAnalysis
  <2>2. s \in {"complete", "partial"}  OBVIOUS
  <2>3. account' = account \/ (calls["main"].answer \in Closed /\ account' = End(account, x, s))
        BY <1>15 DEF Reconciled, LookedUp
  <2>4. \/ End(account, x, s).fate[a] = account.fate[a]
        \/ (a = x /\ End(account, x, s).fate[a] = s)
        BY <1>13, <2>1, <2>2
  <2> QED  BY <1>15, <2>3, <2>4
<1>16. ASSUME DropRest PROVE Same(account')
  <2>1. Concludes(account, DropPending(account, "Cancelled"), account.pending, "dropped")
        BY <1>1, <1>2, DropPendingConcludes
  <2>2. Same(DropPending(account, "Cancelled"))  BY <2>1 DEF Concludes, Ends
  <2> QED  BY <1>16, <2>2 DEF DropRest
<1>17. ASSUME WorkerFlushes \/ RestFlushes PROVE Same(account')
  <2>1. CASE account' = account  BY <2>1
  <2>2. CASE account' # account
    <3>1. PICK c \in Client, left \in Seq(Reason) :
             Unreported(left) # {} /\ Flush(c, Min(Unreported(left)), left)
      <4>1. worker.left \in Seq(Reason) /\ main.left \in Seq(Reason)
            /\ "worker" \in Client /\ "main" \in Client
            BY DEF Fits, WorkerFits, Client
      <4> QED  BY <1>17, <2>2, <4>1 DEF WorkerFlushes, RestFlushes
    <3> QED  BY <3>1, TakeLeaves
  <2> QED  BY <2>1, <2>2
<1> QED  BY <1>6, <1>7, <1>8, <1>9, <1>10, <1>11, <1>12, <1>14, <1>15, <1>16, <1>17, AccountFrame

(* Only a finalize of an open row gives it a predecessor.                     *)
LEMMA RowsChange ==
    ASSUME Fits, Places, Next, NEW a \in Analysis
    PROVE  \/ rows'[a].previous = rows[a].previous
           \/ \E q \in strays \cup {calls["worker"]} :
                 /\ RequestFits(q) /\ q.op = "finalize" /\ rows[a].state = "open"
                 /\ rows'[a].previous = q.previous
<1>1. CallsFit /\ DaemonFits /\ "worker" \in Client  BY DEF Fits, Client
<1>2. ASSUME NEW q, RequestFits(q), \/ Admits(q) /\ Commit(q)
                                    \/ UNCHANGED daemonVars
      PROVE  \/ rows'[a].previous = rows[a].previous
             \/ q.op = "finalize" /\ rows[a].state = "open" /\ rows'[a].previous = q.previous
  <2>1. CASE Admits(q) /\ Commit(q)  BY <1>1, <1>2, <2>1, CommitFits
  <2>2. CASE UNCHANGED daemonVars  BY <2>2 DEF daemonVars
  <2> QED  BY <1>2, <2>1, <2>2
<1>3. CASE UNCHANGED daemonVars  BY <1>3 DEF daemonVars
<1>4. ASSUME NEW c \in Client, DaemonAnswers(c)
      PROVE  \/ rows'[a].previous = rows[a].previous
             \/ \E q \in strays \cup {calls["worker"]} :
                   /\ RequestFits(q) /\ q.op = "finalize" /\ rows[a].state = "open"
                   /\ rows'[a].previous = q.previous
  <2> DEFINE q == calls[c]
  <2>1. RequestFits(q) /\ ((Admits(q) /\ Commit(q)) \/ UNCHANGED daemonVars)
        BY <1>1, <1>4, AnswerShape
  <2>2. c = "worker" \/ q.op # "finalize"  BY DEF Places, MainAsks, Client
  <2>3. c = "worker" => q = calls["worker"]  OBVIOUS
  <2> HIDE DEF q
  <2>4. \/ rows'[a].previous = rows[a].previous
        \/ q.op = "finalize" /\ rows[a].state = "open" /\ rows'[a].previous = q.previous
        BY <1>2, <2>1
  <2> QED  BY <2>1, <2>2, <2>3, <2>4
<1>5. ASSUME NEW q \in strays, DaemonPerformsStray(q)
      PROVE  \/ rows'[a].previous = rows[a].previous
             \/ q.op = "finalize" /\ rows[a].state = "open" /\ rows'[a].previous = q.previous
      BY <1>1, <1>2, <1>5, StrayShape
<1> QED  BY <1>1, <1>3, <1>4, <1>5, DaemonFrame DEF CallsFit

(* The worker's request stays as it is while it waits; a finalize is new from *)
(* WorkerSends only.                                                          *)
LEMMA FinalizeIsKept ==
    ASSUME Fits, Places, Next, calls'["worker"].op = "finalize"
    PROVE  \/ /\ WorkerSends /\ calls'["worker"].previous = worker.previous
              /\ calls'["worker"].answer = "none"
           \/ /\ calls["worker"].op = "finalize" /\ RequestFits(calls["worker"])
              /\ calls'["worker"].previous = calls["worker"].previous
              /\ calls'["worker"].status = calls["worker"].status
              /\ calls'["worker"].analysis = calls["worker"].analysis
              /\ \/ calls'["worker"].answer = calls["worker"].answer
                 \/ DaemonAnswers("worker")
<1> DEFINE q == calls["worker"]
<1>1. CallsFit /\ "worker" \in Client /\ "main" \in Client  BY DEF Fits, Client
<1>2. q = Idle \/ RequestFits(q)  BY <1>1 DEF CallsFit
<1>3. Idle.op = "none"  BY DEF Idle
<1>4. ASSUME NEW r, Ask("worker", r) PROVE calls'["worker"] = r
      BY <1>1, <1>4 DEF Ask, CallsFit
<1>5. ASSUME Read("worker") PROVE FALSE
      BY <1>1, <1>3, <1>5, ReadFits
<1>6. CASE calls'["worker"] = q
      BY <1>2, <1>3, <1>6
<1>7. CASE WorkerBegins \/ WorkerBegun \/ WorkerAppended \/ WorkerFinalized \/ WorkerAborted
           \/ WorkerFlushed \/ Abort
  <2>1. \/ Read("worker")
        \/ Ask("worker", [op |-> "begin", analysis |-> Head(jobs).analysis, answer |-> "none"])
        \/ Ask("worker", [op |-> "abort", analysis |-> Current, answer |-> "none"])
        BY <1>7 DEF WorkerBegins, WorkerBegun, WorkerAppended, WorkerFinalized, WorkerAborted,
                    WorkerFlushed, Abort
  <2> QED  BY <1>4, <1>5, <2>1
<1>8. CASE WorkerSends
  <2>1. \/ Ask("worker", [op |-> "append", analysis |-> Current,
                          blocks |-> NextBatch, sequence |-> worker.sequence, answer |-> "none"])
        \/ Ask("worker", [op |-> "finalize", analysis |-> Current,
                          status |-> FinalStatus, blocks |-> worker.accepted,
                          previous |-> worker.previous, answer |-> "none"])
        BY <1>8 DEF WorkerSends
  <2> QED  BY <1>4, <1>8, <2>1
<1>9. CASE WorkerFlushes
  <2>1. \/ calls' = calls
        \/ Ask("worker", [op |-> "drops", reason |-> worker.left[Min(Unreported(worker.left))],
               number |-> account.unreported[worker.left[Min(Unreported(worker.left))]],
               answer |-> "none"])
        BY <1>9 DEF WorkerFlushes, Flush
  <2> QED  BY <1>4, <1>6, <2>1
<1>10. CASE \/ Lookup \/ Reconciled \/ Finish \/ Finished \/ RestFlushes \/ RestFlushed
            \/ LookupTimesOut \/ FlushTimesOut
  <2>1. calls'["worker"] = q
        BY <1>1, <1>10 DEF Lookup, Reconciled, Finish, Finished, RestFlushes, RestFlushed,
                     LookupTimesOut, FlushTimesOut, Flush, Ask, Read, CallsFit
  <2> QED  BY <1>6, <2>1
<1>11. ASSUME NEW c \in Client, DaemonAnswers(c)
       PROVE  \/ calls'["worker"] = q
              \/ /\ DaemonAnswers("worker") /\ q.op = "finalize" /\ RequestFits(q)
                 /\ calls'["worker"].previous = q.previous
                 /\ calls'["worker"].status = q.status
                 /\ calls'["worker"].analysis = q.analysis
  <2>1. CASE c # "worker"  BY <1>1, <1>11, <2>1, AnswerShape
  <2>2. CASE c = "worker"
    <3>1. /\ RequestFits(q) /\ \A x \in DOMAIN q : x # "answer" => calls'["worker"][x] = q[x]
          BY <1>1, <1>11, <2>2, AnswerShape
    <3>2. calls'["worker"].op = q.op  BY <3>1 DEF RequestFits
    <3>3. {"previous", "status", "analysis"} \subseteq DOMAIN q
          BY <3>1, <3>2 DEF RequestFits, OfAnalysis
    <3> QED  BY <1>11, <2>2, <3>1, <3>2, <3>3
  <2> QED  BY <2>1, <2>2
<1>12. ASSUME NEW r \in strays, DaemonPerformsStray(r) PROVE calls'["worker"] = q
       BY <1>12 DEF DaemonPerformsStray
<1> QED  BY <1>6, <1>7, <1>8, <1>9, <1>10, <1>11, <1>12, CallsFrame

(* What a timeout or an abort leaves behind.                                  *)
LEMMA StraysChange ==
    ASSUME Fits, Next
    PROVE  \/ strays' \subseteq strays
           \/ /\ Abort /\ Waits("worker") /\ strays' = strays \cup {calls["worker"]}
           \/ /\ FlushTimesOut /\ strays' = strays \cup {calls["main"]}
BY CallsFrame
   DEF WorkerBegins, WorkerBegun, WorkerSends, WorkerAppended, WorkerFinalized, WorkerAborted,
       WorkerFlushes, WorkerFlushed, Lookup, Reconciled, Abort, Finish, Finished, RestFlushes,
       RestFlushed, LookupTimesOut, DaemonAnswers, DaemonPerformsStray, FlushTimesOut

(* A delta is over a finalized predecessor, also when its request was left    *)
(* behind by an aborted worker.                                               *)
LEMMA PredecessorsStep ==
    ASSUME Fits, Places, Durable, Next
    PROVE  PredecessorsAreFinal'
<1>1. Grows  BY DaemonFitsStep
<1>2. PredecessorsAreFinal /\ AnswersAreTrue  BY DEF Durable
<1>3. ASSUME NEW S \in SUBSET Analysis, Finalized(S)
      PROVE  \A p \in S : rows'[p].state \in {"complete", "partial"}
      BY <1>1, <1>3, FinalizedStays
<1>4. CallsFit /\ DaemonFits /\ "worker" \in Client /\ Idle.op = "none"
      BY DEF Fits, Client, Idle
<1>5. \A q \in strays \cup {calls["worker"]} : q.op = "finalize" =>
         Finalized(q.previous) /\ q.previous \in SUBSET Analysis
  <2>1. \A q \in strays \cup {calls["worker"]} : q = Idle \/ RequestFits(q)
        BY <1>4 DEF CallsFit
  <2> QED  BY <1>2, <1>4, <2>1 DEF PredecessorsAreFinal, RequestFits
<1>6. ASSUME NEW a \in Analysis
      PROVE  /\ a \notin rows'[a].previous
             /\ \A p \in rows'[a].previous : rows'[p].state \in {"complete", "partial"}
  <2>1. CASE rows'[a].previous = rows[a].previous
    <3>1. rows[a].previous \in SUBSET Analysis  BY <1>4 DEF DaemonFits, RowFits
    <3> QED  BY <1>2, <1>3, <2>1, <3>1 DEF PredecessorsAreFinal
  <2>2. ASSUME NEW q \in strays \cup {calls["worker"]}, q.op = "finalize",
               rows[a].state = "open", rows'[a].previous = q.previous
        PROVE  /\ a \notin rows'[a].previous
               /\ \A p \in rows'[a].previous : rows'[p].state \in {"complete", "partial"}
        BY <1>3, <1>5, <2>2 DEF Finalized
  <2> QED  BY <2>1, <2>2, RowsChange
<1>7. \A p \in worker'.previous : rows'[p].state \in {"complete", "partial"}
  <2>1. worker.previous \in SUBSET Analysis /\ Finalized(worker.previous)
        BY <1>2 DEF Fits, WorkerFits, PredecessorsAreFinal
  <2>2. CASE worker'.previous = worker.previous  BY <1>3, <2>1, <2>2
  <2>3. CASE WorkerFinalized /\ calls["worker"].answer = "ok"
    <3>1. worker'.previous = {Current} /\ UNCHANGED daemonVars /\ calls["worker"].op = "finalize"
          BY <2>3 DEF WorkerFinalized, Answered, Fits, WorkerFits
    <3>2. calls["worker"].analysis = Current
          BY <3>1 DEF Places, WorkerAsks, OfAnalysis
    <3>3. rows[Current].state = calls["worker"].status
          BY <1>2, <2>3, <3>1, <3>2 DEF AnswersAreTrue
    <3>4. calls["worker"].status \in {"complete", "partial"}
          BY <1>4, <3>1 DEF CallsFit, RequestFits
    <3> QED  BY <3>1, <3>3, <3>4 DEF daemonVars
  <2>4. worker'.previous = worker.previous \/ (WorkerFinalized /\ calls["worker"].answer = "ok")
    <3>1. DOMAIN worker = {"pc", "job", "accepted", "sequence", "previous", "left", "undelivered"}
          BY DEF Fits, WorkerFits
    <3>2. CASE WorkerBegins  BY <3>1, <3>2 DEF WorkerBegins
    <3>3. CASE WorkerFlushed  BY <3>1, <3>3 DEF WorkerFlushed
    <3>4. CASE WorkerBegun \/ WorkerAppended \/ WorkerFinalized \/ WorkerAborted \/ WorkerDrained
               \/ WorkerFlushes \/ Abort
          BY <3>1, <3>4 DEF WorkerBegun, WorkerAppended, WorkerFinalized, WorkerAborted,
                            WorkerDrained, WorkerFlushes, Abort
    <3> QED  BY <3>2, <3>3, <3>4, WorkerFrame
  <2> QED  BY <2>2, <2>3, <2>4
<1>8. ASSUME calls'["worker"].op = "finalize"
      PROVE  \A p \in calls'["worker"].previous : rows'[p].state \in {"complete", "partial"}
  <2>1. worker.previous \in SUBSET Analysis /\ Finalized(worker.previous)
        BY <1>2 DEF Fits, WorkerFits, PredecessorsAreFinal
  <2> QED  BY <1>3, <1>5, <1>8, <2>1, FinalizeIsKept
<1>9. ASSUME NEW q \in strays', q.op = "finalize"
      PROVE  \A p \in q.previous : rows'[p].state \in {"complete", "partial"}
  <2>1. q \in strays \cup {calls["worker"]} \/ (FlushTimesOut /\ q = calls["main"])
        BY StraysChange
  <2>2. calls["main"].op # "finalize"  BY DEF Places, MainAsks
  <2> QED  BY <1>3, <1>5, <1>9, <2>1, <2>2
<1> QED  BY <1>6, <1>7, <1>8, <1>9 DEF PredecessorsAreFinal, Finalized

(* What a client has read of its analysis is what the daemon keeps.           *)
LEMMA AnswersStep ==
    ASSUME Fits, Places, Durable, Next
    PROVE  AnswersAreTrue'
<1>1. Grows  BY DaemonFitsStep
<1>2. AnswersAreTrue  BY DEF Durable
<1>3. CallsFit /\ DaemonFits /\ "worker" \in Client /\ "main" \in Client /\ Idle.op = "none"
      BY DEF Fits, Client, Idle
<1>4. ASSUME calls'["worker"].op = "finalize", calls'["worker"].answer = "ok"
      PROVE  rows'[calls'["worker"].analysis].state = calls'["worker"].status
  <2> DEFINE q == calls["worker"]
  <2>1. /\ q.op = "finalize" /\ RequestFits(q)
        /\ calls'["worker"].status = q.status /\ calls'["worker"].analysis = q.analysis
        /\ calls'["worker"].answer = q.answer \/ DaemonAnswers("worker")
        BY <1>4, FinalizeIsKept
  <2>2. q.analysis \in Analysis /\ q.status \in Closed
        BY <2>1 DEF RequestFits, OfAnalysis, Closed
  <2>3. CASE calls'["worker"].answer = q.answer
        BY <1>1, <1>2, <1>4, <2>1, <2>2, <2>3 DEF AnswersAreTrue, Grows
  <2>4. CASE DaemonAnswers("worker")
    <3>1. Admits(q) /\ Commit(q)  BY <1>3, <1>4, <2>4, AnswerShape
    <3> HIDE DEF q
    <3>2. rows'[q.analysis].state = q.status  BY <1>3, <2>1, <3>1, CommitFits
    <3> QED  BY <2>1, <3>2
  <2> QED  BY <2>1, <2>3, <2>4
<1>5. ASSUME calls'["main"].op = "status", calls'["main"].answer \in Closed
      PROVE  rows'[calls'["main"].analysis].state = calls'["main"].answer
  <2> DEFINE q == calls["main"]
  <2>1. CASE calls'["main"] = q
    <3>1. q.analysis \in Analysis
          BY <1>3, <1>5, <2>1 DEF CallsFit, RequestFits, OfAnalysis
    <3> QED  BY <1>1, <1>2, <1>5, <2>1, <3>1 DEF AnswersAreTrue, Grows
  <2>2. ASSUME NEW r, Ask("main", r) PROVE calls'["main"] = r
        BY <1>3, <2>2 DEF Ask, CallsFit
  <2>3. CASE Lookup
    <3>1. calls'["main"].answer = "none"  BY <2>2, <2>3 DEF Lookup
    <3> QED  BY <1>5, <3>1 DEF Closed
  <2>4. CASE Finish
    <3>1. calls'["main"].answer = "none"  BY <2>2, <2>4 DEF Finish
    <3> QED  BY <1>5, <3>1 DEF Closed
  <2>5. CASE RestFlushes
    <3>1. \/ calls' = calls
          \/ Ask("main", [op |-> "drops", reason |-> main.left[Min(Unreported(main.left))],
               number |-> account.unreported[main.left[Min(Unreported(main.left))]],
               answer |-> "none"])
          BY <2>5 DEF RestFlushes, Flush
    <3> QED  BY <1>5, <2>1, <2>2, <3>1
  <2>6. CASE Reconciled \/ Finished \/ RestFlushed \/ LookupTimesOut \/ FlushTimesOut
    <3>1. Read("main")
          BY <2>6 DEF Reconciled, Finished, RestFlushed, LookupTimesOut, FlushTimesOut
    <3>2. calls'["main"] = Idle  BY <1>3, <3>1, ReadFits
    <3> QED  BY <1>3, <1>5, <3>2
  <2>7. CASE WorkerBegins \/ WorkerBegun \/ WorkerSends \/ WorkerAppended \/ WorkerFinalized
             \/ WorkerAborted \/ WorkerFlushes \/ WorkerFlushed \/ Abort
    <3>1. calls'["main"] = q
          BY <1>3, <2>7 DEF WorkerBegins, WorkerBegun, WorkerSends, WorkerAppended,
             WorkerFinalized, WorkerAborted, WorkerFlushes, WorkerFlushed, Abort, Flush, Ask,
             Read, CallsFit
    <3> QED  BY <2>1, <3>1
  <2>8. ASSUME NEW c \in Client, DaemonAnswers(c)
        PROVE  rows'[calls'["main"].analysis].state = calls'["main"].answer
    <3>1. CASE c # "main"  BY <1>3, <2>1, <2>8, <3>1, AnswerShape
    <3>2. CASE c = "main"
      <4>1. /\ RequestFits(q) /\ \A x \in DOMAIN q : x # "answer" => calls'["main"][x] = q[x]
            /\ \/ /\ Admits(q) /\ Commit(q)
                  /\ calls'["main"].answer \in {Answer(q), "lost"}
               \/ calls'["main"].answer = "error"
            BY <1>3, <2>8, <3>2, AnswerShape
      <4>2. q.op = "status" /\ q.analysis \in Analysis /\ calls'["main"].analysis = q.analysis
            BY <1>5, <4>1 DEF RequestFits, OfAnalysis
      <4>3. Commit(q) /\ calls'["main"].answer = Answer(q)
            BY <1>5, <4>1 DEF Closed
      <4>4. rows' = rows /\ Answer(q) = rows[q.analysis].state
            BY <4>2, <4>3 DEF Commit, Answer, daemonVars
      <4> QED  BY <4>2, <4>3, <4>4
    <3> QED  BY <3>1, <3>2
  <2>9. ASSUME NEW r \in strays, DaemonPerformsStray(r)
        PROVE  rows'[calls'["main"].analysis].state = calls'["main"].answer
        BY <2>1, <2>9 DEF DaemonPerformsStray
  <2>10. CASE calls' = calls  BY <2>1, <2>10
  <2> QED  BY <2>3, <2>4, <2>5, <2>6, <2>7, <2>8, <2>9, <2>10, CallsFrame
<1> QED  BY <1>4, <1>5 DEF AnswersAreTrue

(* So what is counted from an answer is durable.                              *)
LEMMA DurableStep ==
    ASSUME Fits, Places, Durable, Next
    PROVE  Durable'
<1>1. Grows  BY DaemonFitsStep
<1>2. FatesAreDurable /\ AnswersAreTrue  BY DEF Durable
<1>3. ASSUME NEW a \in Analysis
      PROVE  /\ account'.fate[a] = "complete" => rows'[a].state = "complete"
             /\ account'.fate[a] = "partial" => rows'[a].state \in {"partial", "aborted"}
  <2>1. CASE account'.fate[a] \in {account.fate[a], "pending", "dropped"}
        BY <1>1, <1>2, <2>1 DEF FatesAreDurable, Grows, Closed
  <2>2. CASE /\ WorkerFinalized /\ calls["worker"].answer = "ok" /\ a = Current
             /\ account'.fate[a] = calls["worker"].status
    <3>1. calls["worker"].op = "finalize" /\ calls["worker"].analysis = Current
          BY <2>2 DEF WorkerFinalized, Answered, Places, WorkerAsks, OfAnalysis
    <3>2. rows[a].state = calls["worker"].status
          BY <1>2, <2>2, <3>1 DEF AnswersAreTrue
    <3> QED  BY <1>1, <2>2, <3>2 DEF Grows, Closed
  <2>3. CASE /\ Reconciled /\ calls["main"].answer \in Closed /\ a = calls["main"].analysis
             /\ account'.fate[a] =
                   IF calls["main"].answer = "complete" THEN "complete" ELSE "partial"
    <3>1. calls["main"].op = "status"  BY <2>3 DEF Reconciled, Answered
    <3>2. rows[a].state = calls["main"].answer
          BY <1>2, <2>3, <3>1 DEF AnswersAreTrue
    <3> QED  BY <1>1, <2>3, <3>2 DEF Grows, Closed
  <2> QED  BY <2>1, <2>2, <2>3, FateChanges
<1>4. FatesAreDurable'  BY <1>3 DEF FatesAreDurable
<1> QED  BY <1>4, PredecessorsStep, AnswersStep DEF Durable

-----------------------------------------------------------------------------
(* What the recorder has seen stays seen                                      *)

(* EnsureSeen leaves no analysis unseen.                                      *)
LEMMA SeenIsSeen ==
    ASSUME AccountFits(account), Sound(account), NEW a \in Analysis, NEW reason \in Reason
    PROVE  /\ EnsureSeen(account, a).fate[a] # "unseen"
           /\ Dropped(EnsureSeen(account, a), a, reason).fate[a] # "unseen"
<1> DEFINE e == EnsureSeen(account, a)
           kind == "dropped"
<1>1. AccountFits(e)  BY SeeFits
<1>2. e.fate[a] # "unseen"
  <2>1. account.fate \in [Analysis -> Fates]  BY DEF AccountFits, Account
  <2>2. a \in account.pending => account.fate[a] = "pending"  BY DEF AccountFits
  <2>3. IsTerminal(account, a) => account.fate[a] \in Kinds  BY DEF Sound
  <2>4. \/ e = account /\ (a \in account.pending \/ IsTerminal(account, a))
        \/ e.fate = [account.fate EXCEPT ![a] = "pending"]
        BY SeeFits
  <2> HIDE DEF e
  <2> QED  BY <2>1, <2>2, <2>3, <2>4 DEF Kinds
<1> HIDE DEF e
<1>3. Concludes(e, Dropped(e, a, reason), {a} \cap e.pending, "dropped")
      BY <1>1, DroppedConcludes
<1>4. Dropped(e, a, reason).fate[a] # "unseen"
      BY <1>2, <1>3 DEF Concludes, Ends
<1> QED  BY <1>2, <1>4 DEF e

(* What the recorder has met has a fate.                                      *)
LEMMA SeenIsKeptStep ==
    ASSUME Fits, Places, Sound(account), SeenIsKept, Next
    PROVE  SeenIsKept'
<1>1. AccountFits(account) /\ recording \in [Analysis -> {"coming", "seen", "gone"}]
      BY DEF Fits
<1>2. \A x \in Analysis : account'.fate[x] = "unseen" => account.fate[x] = "unseen"
      BY StepMoves DEF Moves
<1>3. CASE recording' = recording  BY <1>2, <1>3 DEF SeenIsKept
<1>4. ASSUME NEW a \in Analysis, RecorderSees(a) \/ IngressDrops(a) PROVE SeenIsKept'
  <2>1. "CorrelationDegraded" \in Reason  BY DEF Reason
  <2>2. account'.fate[a] # "unseen"
        BY <1>1, <1>4, <2>1, SeenIsSeen DEF RecorderSees, IngressDrops
  <2>3. \A x \in Analysis : x # a => recording'[x] = recording[x]
        BY <1>1, <1>4 DEF RecorderSees, IngressDrops
  <2> QED  BY <1>2, <2>2, <2>3 DEF SeenIsKept
<1>5. ASSUME NEW a \in Analysis, RecorderDrops(a) \/ RecorderHands(a) PROVE SeenIsKept'
  <2>1. recording[a] = "seen"  BY <1>5 DEF RecorderDrops, RecorderHands
  <2>2. \A x \in Analysis : x # a => recording'[x] = recording[x]
        BY <1>1, <1>5 DEF RecorderDrops, RecorderHands
  <2> QED  BY <1>2, <2>1, <2>2 DEF SeenIsKept
<1>6. CASE WorkerBegins \/ Abort
  <2>1. recording' = recording  BY <1>6 DEF WorkerBegins, Abort
  <2> QED  BY <1>3, <2>1
<1> QED  BY <1>3, <1>4, <1>5, <1>6, RecorderFrame

-----------------------------------------------------------------------------
(* Drops are reported once                                                    *)

(* The drops reported or under way, over those that were taken.               *)
Excess == Total(events) + Sent("worker") + Sent("main") - Taken(account)

(* The sums are of numbers.                                                   *)
LEMMA CountsAreNumbers ==
    ASSUME Fits
    PROVE  /\ Total(events) \in Int /\ Taken(account) \in Int
           /\ \A c \in Client : Sent(c) \in Nat
           /\ \A q \in strays \cup {Idle} : Cost(q) \in Nat
           /\ Sent("worker") \in Nat /\ Sent("main") \in Nat /\ Excess \in Int
<1>1. Total(events) \in Int  BY DEF Fits, DaemonFits, Total, Reason
<1>2. Taken(account) \in Int  BY DEF Fits, AccountFits, Account, Taken, Total, Reason
<1>3. \A c \in Client : Sent(c) \in Nat
      BY DEF Fits, CallsFit, Sent, Waits, RequestFits
<1>4. \A q \in strays \cup {Idle} : Cost(q) \in Nat
      BY DEF Fits, CallsFit, Cost, RequestFits, Idle
<1>5. Sent("worker") \in Nat /\ Sent("main") \in Nat  BY <1>3 DEF Client
<1> QED  BY <1>1, <1>2, <1>3, <1>4, <1>5 DEF Excess

(* A request that is read, answered or replaced is under way no more.         *)
LEMMA SentStays ==
    ASSUME Fits, NEW c \in Client,
           \/ calls'[c] = calls[c]
           \/ calls'[c] = Idle
           \/ calls'[c].op # "drops"
           \/ calls'[c].answer # "none"
    PROVE  Sent(c)' <= Sent(c)
<1>1. Sent(c) \in Nat  BY CountsAreNumbers
<1>2. CASE calls'[c] = calls[c]  BY <1>1, <1>2 DEF Sent, Waits
<1>3. CASE calls'[c] # calls[c]
  <2>1. Sent(c)' = 0  BY <1>3 DEF Sent, Waits
  <2> QED  BY <1>1, <2>1
<1> QED  BY <1>2, <1>3

(* A flush takes as many drops as it sends.                                   *)
LEMMA FlushTakes ==
    ASSUME Fits, NEW client \in Client, calls[client] = Idle,
           NEW left \in Seq(Reason), Unreported(left) # {},
           Flush(client, Min(Unreported(left)), left)
    PROVE  /\ Taken(account') = Taken(account) + Sent(client)'
           /\ Sent(client) = 0 /\ Sent(client)' \in Nat
           /\ calls'[client].op = "drops" /\ calls'[client].answer = "none"
           /\ calls'[client].number = Sent(client)'
           /\ \A c \in Client : c # client => calls'[c] = calls[c]
<1> DEFINE r == left[Min(Unreported(left))]
           n == account.unreported[r]
           q == [op |-> "drops", reason |-> r, number |-> n, answer |-> "none"]
<1>1. account' = [account EXCEPT !.unreported[r] = 0] /\ Ask(client, q)
      BY DEF Flush, Take
<1>2. r \in Reason /\ n \in Nat  BY NextReport
<1>3. AccountFits(account) /\ DOMAIN calls = Client  BY DEF Fits, CallsFit
<1>4. q.op = "drops" /\ q.answer = "none" /\ q.number = n /\ Idle.op = "none"
      BY DEF Idle
<1> HIDE DEF r
<1>5. Taken(account') = Taken(account) + n
      BY <1>1, <1>2, <1>3, TakeMoves
<1> HIDE DEF n, q
<1>6. calls'[client] = q /\ \A c \in Client : c # client => calls'[c] = calls[c]
      BY <1>1, <1>3 DEF Ask
<1>7. Sent(client)' = n
      BY <1>4, <1>6 DEF Sent, Waits
<1>8. Sent(client) = 0  BY DEF Sent, Waits
<1> QED  BY <1>2, <1>4, <1>5, <1>6, <1>7, <1>8

(* No step reports more than is taken: an answer, a late performance or a     *)
(* lost client only moves a report.                                           *)
LEMMA ExcessChanges ==
    ASSUME Fits, Places, Next
    PROVE  \/ strays' = strays /\ Excess' <= Excess
           \/ \E q \in strays : strays' = strays \ {q} /\ Excess' <= Excess + Cost(q)
           \/ /\ Abort /\ Waits("worker") /\ strays' = strays \cup {calls["worker"]}
              /\ Excess' + Cost(calls["worker"]) <= Excess
           \/ /\ FlushTimesOut /\ strays' = strays \cup {calls["main"]}
              /\ Excess' + Cost(calls["main"]) <= Excess
<1>1. Fits'  BY FitsStep
<1>2. /\ Total(events') \in Int /\ Taken(account') \in Int
      /\ Sent("worker")' \in Nat /\ Sent("main")' \in Nat
  <2>1. Total(events') \in Int  BY <1>1 DEF Fits, DaemonFits, Total, Reason
  <2>2. Taken(account') \in Int
    <3> DEFINE d == account'
    <3>1. AccountFits(d)  BY StepMoves DEF Moves
    <3> HIDE DEF d
    <3>2. Taken(d) \in Int  BY <3>1 DEF AccountFits, Account, Taken, Total, Reason
    <3> QED  BY <3>2 DEF d
  <2>3. ASSUME NEW c \in Client PROVE Sent(c)' \in Nat
        BY <1>1 DEF Fits, CallsFit, Sent, Waits, RequestFits
  <2>4. "worker" \in Client /\ "main" \in Client  BY DEF Client
  <2> QED  BY <2>1, <2>2, <2>3, <2>4
<1>3. /\ Total(events) \in Int /\ Taken(account) \in Int
      /\ Sent("worker") \in Nat /\ Sent("main") \in Nat
      BY CountsAreNumbers
<1>4. CallsFit /\ "worker" \in Client /\ "main" \in Client /\ Idle.op = "none"
      BY DEF Fits, Client, Idle
<1>5. "worker" # "main"  OBVIOUS
<1>6. ASSUME strays' = strays, UNCHANGED daemonVars, Taken(account') = Taken(account),
             Sent("worker")' <= Sent("worker"), Sent("main")' <= Sent("main")
      PROVE  strays' = strays /\ Excess' <= Excess
  <2>1. Total(events') = Total(events)  BY <1>6 DEF daemonVars
  <2> QED  BY ONLY <1>2, <1>3, <1>6, <2>1 DEF Excess
<1>7. ASSUME NEW c \in Client, Read(c), UNCHANGED <<strays, daemonVars>>,
             Taken(account') = Taken(account)
      PROVE  strays' = strays /\ Excess' <= Excess
  <2>1. calls'[c] = Idle /\ \A x \in Client : x # c => calls'[x] = calls[x]
        BY <1>4, <1>7, ReadFits
  <2>2. Sent("worker")' <= Sent("worker") /\ Sent("main")' <= Sent("main")
        BY <1>4, <2>1, SentStays
  <2> QED  BY <1>6, <1>7, <2>2
<1>8. ASSUME NEW c \in Client, NEW q, Ask(c, q), q.op # "drops",
             UNCHANGED <<strays, daemonVars>>, Taken(account') = Taken(account)
      PROVE  strays' = strays /\ Excess' <= Excess
  <2>1. calls'[c] = q /\ \A x \in Client : x # c => calls'[x] = calls[x]
        BY <1>4, <1>8 DEF Ask, CallsFit
  <2>2. Sent("worker")' <= Sent("worker") /\ Sent("main")' <= Sent("main")
        BY <1>4, <1>8, <2>1, SentStays
  <2> QED  BY <1>6, <1>8, <2>2
<1>9. ASSUME calls' = calls, UNCHANGED <<strays, daemonVars>>, Taken(account') = Taken(account)
      PROVE  strays' = strays /\ Excess' <= Excess
  <2>1. Sent("worker")' <= Sent("worker") /\ Sent("main")' <= Sent("main")
        BY <1>4, <1>9, SentStays
  <2> QED  BY <1>6, <1>9, <2>1
<1>10. Taken(account') = Taken(account)
          \/ (WorkerFlushes /\ Unreported(worker.left) # {})
          \/ (RestFlushes /\ Unreported(main.left) # {})
       BY StepMoves
(* The daemon answers, or performs what was left behind.                      *)
<1>11. ASSUME NEW c \in Client, DaemonAnswers(c)
       PROVE  strays' = strays /\ Excess' <= Excess
  <2> DEFINE q == calls[c]
  <2>1. /\ RequestFits(q) /\ q.answer = "none" /\ strays' = strays
        /\ \A b \in Client : b # c => calls'[b] = calls[b]
        /\ \A x \in DOMAIN q : x # "answer" => calls'[c][x] = q[x]
        /\ \/ Admits(q) /\ Commit(q) /\ calls'[c].answer \in {Answer(q), "lost"}
           \/ calls'[c].answer = "error" /\ UNCHANGED daemonVars
        BY <1>4, <1>11, AnswerShape
  <2>2. calls'[c].op = q.op  BY <2>1 DEF RequestFits
  <2>3. Sent(c) = Cost(q)
        BY <2>1, <1>4 DEF Sent, Waits, Cost, RequestFits, OfAnalysis
  <2>4. Taken(account') = Taken(account)
        BY <1>11 DEF DaemonAnswers
  <2>5. \A b \in Client : b # c => Sent(b)' <= Sent(b)
        BY <2>1, SentStays
  <2>6. CASE UNCHANGED daemonVars
    <3>1. \/ calls'[c].op # "drops"
          \/ calls'[c].answer # "none"
      <4>1. q.op = "drops" => Answer(q) = "ok"  BY DEF Answer
      <4> QED  BY <2>1, <2>2, <4>1
    <3>2. Sent(c)' <= Sent(c)  BY <3>1, SentStays
    <3> QED  BY <1>4, <1>6, <2>1, <2>4, <2>5, <2>6, <3>2 DEF Client
  <2>7. CASE ~ UNCHANGED daemonVars
    <3>1. Admits(q) /\ Commit(q) /\ calls'[c].answer \in {Answer(q), "lost"}
          BY <2>1, <2>7
    <3>2. Total(events') = Total(events) + Cost(q)
      <4> HIDE DEF q
      <4>1. DaemonFits  BY DEF Fits
      <4> QED  BY <2>1, <3>1, <4>1, CommitFits
    <3>3. Sent(c)' = 0
      <4>1. q.op = "drops" => Answer(q) = "ok"  BY DEF Answer
      <4>2. calls'[c].answer # "none" \/ calls'[c].op # "drops"
            BY <2>2, <3>1, <4>1
      <4> QED  BY <4>2 DEF Sent, Waits
    <3> HIDE DEF q
    <3>4. CASE c = "worker"
      <4>1. Sent("main")' <= Sent("main")  BY <1>4, <1>5, <2>5, <3>4
      <4> QED  BY ONLY <1>2, <1>3, <2>1, <2>3, <2>4, <3>2, <3>3, <3>4, <4>1 DEF Excess
    <3>5. CASE c = "main"
      <4>1. Sent("worker")' <= Sent("worker")  BY <1>4, <1>5, <2>5, <3>5
      <4> QED  BY ONLY <1>2, <1>3, <2>1, <2>3, <2>4, <3>2, <3>3, <3>5, <4>1 DEF Excess
    <3> QED  BY <3>4, <3>5 DEF Client
  <2> QED  BY <2>6, <2>7
<1>12. ASSUME NEW q \in strays, DaemonPerformsStray(q)
       PROVE  strays' = strays \ {q} /\ Excess' <= Excess + Cost(q)
  <2>1. /\ RequestFits(q) /\ strays' = strays \ {q} /\ calls' = calls
        /\ (Admits(q) /\ Commit(q)) \/ UNCHANGED daemonVars
        BY <1>4, <1>12, StrayShape
  <2>2. Sent("worker")' <= Sent("worker") /\ Sent("main")' <= Sent("main")
        BY <1>4, <2>1, SentStays
  <2>3. Taken(account') = Taken(account)  BY <1>12 DEF DaemonPerformsStray
  <2>4. Cost(q) \in Nat  BY CountsAreNumbers
  <2>5. Total(events') \in {Total(events), Total(events) + Cost(q)}
    <3>1. DaemonFits  BY DEF Fits
    <3> QED  BY <2>1, <3>1, CommitFits DEF daemonVars
  <2> QED  BY ONLY <1>2, <1>3, <2>1, <2>2, <2>3, <2>4, <2>5 DEF Excess
(* A flush, by the worker or the run.                                         *)
<1>13. ASSUME WorkerFlushes, Unreported(worker.left) # {}
       PROVE  strays' = strays /\ Excess' <= Excess
  <2>1. /\ calls["worker"] = Idle /\ worker.left \in Seq(Reason)
        /\ Flush("worker", Min(Unreported(worker.left)), worker.left)
        /\ UNCHANGED <<strays, daemonVars>>
        BY <1>13 DEF WorkerFlushes, Fits, WorkerFits
  <2>2. /\ Taken(account') = Taken(account) + Sent("worker")' /\ Sent("worker") = 0
        /\ \A c \in Client : c # "worker" => calls'[c] = calls[c]
        BY <1>4, <1>13, <2>1, FlushTakes
  <2>3. Sent("main")' <= Sent("main")  BY <1>4, <1>5, <2>2, SentStays
  <2>4. Total(events') = Total(events)  BY <2>1 DEF daemonVars
  <2> QED  BY ONLY <1>2, <1>3, <2>1, <2>2, <2>3, <2>4 DEF Excess
<1>14. ASSUME RestFlushes, Unreported(main.left) # {}
       PROVE  strays' = strays /\ Excess' <= Excess
  <2>1. /\ calls["main"] = Idle /\ main.left \in Seq(Reason)
        /\ Flush("main", Min(Unreported(main.left)), main.left)
        /\ UNCHANGED <<strays, daemonVars>>
        BY <1>14 DEF RestFlushes, Fits
  <2>2. /\ Taken(account') = Taken(account) + Sent("main")' /\ Sent("main") = 0
        /\ \A c \in Client : c # "main" => calls'[c] = calls[c]
        BY <1>4, <1>14, <2>1, FlushTakes
  <2>3. Sent("worker")' <= Sent("worker")  BY <1>4, <1>5, <2>2, SentStays
  <2>4. Total(events') = Total(events)  BY <2>1 DEF daemonVars
  <2> QED  BY ONLY <1>2, <1>3, <2>1, <2>2, <2>3, <2>4 DEF Excess
<1>15. CASE Taken(account') = Taken(account)
  <2>1. ASSUME WorkerBegun \/ WorkerAborted \/ WorkerFlushed
        PROVE  strays' = strays /\ Excess' <= Excess
    <3>1. Read("worker") /\ UNCHANGED <<strays, daemonVars>>
          BY <2>1 DEF WorkerBegun, WorkerAborted, WorkerFlushed
    <3> QED  BY <1>4, <1>7, <1>15, <3>1
  <2>2. ASSUME Reconciled \/ Finished \/ RestFlushed \/ LookupTimesOut
        PROVE  strays' = strays /\ Excess' <= Excess
    <3>1. Read("main") /\ UNCHANGED <<strays, daemonVars>>
          BY <2>2 DEF Reconciled, Finished, RestFlushed, LookupTimesOut
    <3> QED  BY <1>4, <1>7, <1>15, <3>1
  <2>3. ASSUME WorkerBegins \/ WorkerSends
        PROVE  strays' = strays /\ Excess' <= Excess
    <3>1. \E q : Ask("worker", q) /\ q.op # "drops"
          BY <2>3 DEF WorkerBegins, WorkerSends
    <3>2. UNCHANGED <<strays, daemonVars>>  BY <2>3 DEF WorkerBegins, WorkerSends
    <3> QED  BY <1>4, <1>8, <1>15, <3>1, <3>2
  <2>4. ASSUME WorkerAppended \/ WorkerFinalized
        PROVE  strays' = strays /\ Excess' <= Excess
    <3>1. Read("worker") \/ \E q : Ask("worker", q) /\ q.op # "drops"
          BY <2>4 DEF WorkerAppended, WorkerFinalized
    <3>2. UNCHANGED <<strays, daemonVars>>  BY <2>4 DEF WorkerAppended, WorkerFinalized
    <3> QED  BY <1>4, <1>7, <1>8, <1>15, <3>1, <3>2
  <2>5. ASSUME Lookup \/ Finish
        PROVE  strays' = strays /\ Excess' <= Excess
    <3>1. \E q : Ask("main", q) /\ q.op # "drops"  BY <2>5 DEF Lookup, Finish
    <3>2. UNCHANGED <<strays, daemonVars>>  BY <2>5 DEF Lookup, Finish
    <3> QED  BY <1>4, <1>8, <1>15, <3>1, <3>2
  <2>6. ASSUME Abort
        PROVE  \/ strays' = strays /\ Excess' <= Excess
               \/ /\ Waits("worker") /\ strays' = strays \cup {calls["worker"]}
                  /\ Excess' + Cost(calls["worker"]) <= Excess
    <3>1. /\ Read("worker") /\ UNCHANGED daemonVars
          /\ strays' = strays \cup (IF Waits("worker") THEN {calls["worker"]} ELSE {})
          BY <2>6 DEF Abort
    <3>2. calls'["worker"] = Idle /\ calls'["main"] = calls["main"]
          BY <1>4, <1>5, <3>1, ReadFits
    <3>3. Sent("main")' <= Sent("main") /\ Sent("worker")' <= Sent("worker")
          BY <1>4, <3>2, SentStays
    <3>4. CASE ~Waits("worker")
          BY <1>6, <1>15, <3>1, <3>3, <3>4
    <3>5. CASE Waits("worker")
      <4>1. Sent("worker") = Cost(calls["worker"])  BY <3>5 DEF Sent, Cost
      <4>2. Sent("worker")' = 0  BY <3>2 DEF Sent, Waits
      <4>3. Total(events') = Total(events)  BY <3>1 DEF daemonVars
      <4>4. Excess' + Cost(calls["worker"]) <= Excess
            BY ONLY <1>2, <1>3, <1>15, <3>3, <4>1, <4>2, <4>3 DEF Excess
      <4> QED  BY <3>1, <3>5, <4>4
    <3> QED  BY <3>4, <3>5
  <2>7. ASSUME FlushTimesOut
        PROVE  /\ strays' = strays \cup {calls["main"]}
               /\ Excess' + Cost(calls["main"]) <= Excess
    <3>1. /\ Read("main") /\ UNCHANGED daemonVars /\ Waits("main")
          /\ strays' = strays \cup {calls["main"]}
          BY <2>7 DEF FlushTimesOut
    <3>2. calls'["main"] = Idle /\ calls'["worker"] = calls["worker"]
          BY <1>4, <1>5, <3>1, ReadFits
    <3>3. Sent("worker")' <= Sent("worker")
          BY <1>4, <3>2, SentStays
    <3>4. Sent("main") = Cost(calls["main"]) /\ Sent("main")' = 0
          BY <3>1, <3>2 DEF Sent, Cost, Waits
    <3>5. Total(events') = Total(events)  BY <3>1 DEF daemonVars
    <3>6. Excess' + Cost(calls["main"]) <= Excess
          BY ONLY <1>2, <1>3, <1>15, <3>3, <3>4, <3>5 DEF Excess
    <3> QED  BY <3>1, <3>6
  <2>8. ASSUME WorkerFlushes, Unreported(worker.left) = {}
        PROVE  strays' = strays /\ Excess' <= Excess
    <3>1. calls' = calls /\ UNCHANGED <<strays, daemonVars>>
          BY <2>8 DEF WorkerFlushes
    <3> QED  BY <1>9, <1>15, <3>1
  <2>9. ASSUME RestFlushes, Unreported(main.left) = {}
        PROVE  strays' = strays /\ Excess' <= Excess
    <3>1. calls' = calls /\ UNCHANGED <<strays, daemonVars>>
          BY <2>9 DEF RestFlushes
    <3> QED  BY <1>9, <1>15, <3>1
  <2>10. ASSUME calls' = calls, strays' = strays
         PROVE  \/ strays' = strays /\ Excess' <= Excess
                \/ \E q \in strays : strays' = strays \ {q} /\ Excess' <= Excess + Cost(q)
    <3>1. CASE UNCHANGED daemonVars  BY <1>9, <1>15, <2>10, <3>1
    <3> QED  BY <1>11, <1>12, <3>1, DaemonFrame
  <2> QED  BY <1>11, <1>12, <1>13, <1>14, <2>1, <2>2, <2>3, <2>4, <2>5, <2>6, <2>7, <2>8,
              <2>9, <2>10, CallsFrame
<1> QED  BY <1>10, <1>13, <1>14, <1>15

(* An aborted worker and a finished run do nothing more.                      *)
LEMMA EndsStay ==
    ASSUME Fits, Places, Next
    PROVE  /\ worker.pc = "cut" => worker'.pc = "cut"
           /\ main.phase = "done" => main'.phase = "done"
<1>1. ASSUME worker.pc = "cut" PROVE worker'.pc = "cut"
  <2>1. CASE worker' = worker  BY <1>1, <2>1
  <2>2. CASE Abort  BY <2>2 DEF Abort, Fits, WorkerFits
  <2>3. CASE \/ WorkerBegins \/ WorkerBegun \/ WorkerAppended \/ WorkerFinalized
             \/ WorkerAborted \/ WorkerDrained \/ WorkerFlushes \/ WorkerFlushed
        BY <1>1, <2>3 DEF WorkerBegins, WorkerBegun, WorkerAppended, WorkerFinalized,
           WorkerAborted, WorkerDrained, WorkerFlushes, WorkerFlushed, Answered, Places,
           WorkerAsks
  <2> QED  BY <2>1, <2>2, <2>3, WorkerFrame
<1>2. ASSUME main.phase = "done" PROVE main'.phase = "done"
  <2>1. CASE main' = main  BY <1>2, <2>1
  <2>2. CASE \/ AgentExits \/ DrainEnds \/ Reconciled \/ Abort \/ Finish \/ Finished
             \/ DropRest \/ RestFlushes \/ AgentIsNotStarted \/ DrainTimesOut
             \/ LookupTimesOut \/ FlushTimesOut
        BY <1>2, <2>2 DEF AgentExits, DrainEnds, Reconciled, Abort, Finish, Finished,
           DropRest, RestFlushes, AgentIsNotStarted, DrainTimesOut, LookupTimesOut,
           FlushTimesOut, Reconciling
  <2> QED  BY <2>1, <2>2, MainFrame
<1> QED  BY <1>1, <1>2

(* Reports left behind, at most one of the worker and one of the run, are     *)
(* of drops that were taken.                                                  *)
LEMMA DropsAreBoundedStep ==
    ASSUME Fits, Places, DropsAreBounded, Next
    PROVE  DropsAreBounded'
<1>1. PICK x \in strays \cup {Idle}, y \in strays \cup {Idle} : StrayDrops(x, y)
      BY DEF DropsAreBounded
<1>2. /\ \A q \in strays : q.op = "drops" => q \in {x, y}
      /\ worker.pc # "cut" => x = Idle
      /\ main.phase # "done" => y = Idle
      /\ Total(events) + Cost(x) + Cost(y) + Sent("worker") + Sent("main") <= Taken(account)
      BY <1>1 DEF StrayDrops
<1>3. /\ Total(events) \in Int /\ Taken(account) \in Int
      /\ Sent("worker") \in Nat /\ Sent("main") \in Nat /\ Cost(x) \in Nat /\ Cost(y) \in Nat
      BY CountsAreNumbers
<1>4. Excess + Cost(x) + Cost(y) <= 0  BY ONLY <1>2, <1>3 DEF Excess
<1>5. /\ Excess \in Int /\ Cost(Idle) = 0 /\ \A q \in strays \cup {Idle} : Cost(q) \in Nat
      BY CountsAreNumbers DEF Cost, Idle
<1>6. /\ Total(events') \in Int /\ Taken(account') \in Int
      /\ Sent("worker")' \in Nat /\ Sent("main")' \in Nat
  <2>1. Fits'  BY FitsStep
  <2>2. Total(events') \in Int  BY <2>1 DEF Fits, DaemonFits, Total, Reason
  <2>3. Taken(account') \in Int
    <3> DEFINE d == account'
    <3>1. AccountFits(d)  BY StepMoves DEF Moves
    <3> HIDE DEF d
    <3>2. Taken(d) \in Int  BY <3>1 DEF AccountFits, Account, Taken, Total, Reason
    <3> QED  BY <3>2 DEF d
  <2>4. ASSUME NEW c \in Client PROVE Sent(c)' \in Nat
        BY <2>1 DEF Fits, CallsFit, Sent, Waits, RequestFits
  <2> QED  BY <2>2, <2>3, <2>4 DEF Client
<1>7. /\ worker.pc = "cut" => worker'.pc = "cut"
      /\ main.phase = "done" => main'.phase = "done"
      BY EndsStay
<1>8. ASSUME NEW u \in strays' \cup {Idle}, NEW v \in strays' \cup {Idle},
             \A q \in strays' : q.op = "drops" => q \in {u, v},
             worker'.pc # "cut" => u = Idle,
             main'.phase # "done" => v = Idle,
             Cost(u) \in Nat, Cost(v) \in Nat,
             Excess' + Cost(u) + Cost(v) <= 0
      PROVE  DropsAreBounded'
  <2>1. Total(events') + Cost(u) + Cost(v) + Sent("worker")' + Sent("main")' <= Taken(account')
        BY ONLY <1>6, <1>8 DEF Excess
  <2>2. StrayDrops(u, v)'  BY <1>8, <2>1 DEF StrayDrops
  <2> QED  BY <2>2 DEF DropsAreBounded
<1>9. Excess' \in Int  BY ONLY <1>6 DEF Excess
<1>10. CASE strays' = strays /\ Excess' <= Excess
       BY <1>2, <1>3, <1>4, <1>5, <1>7, <1>8, <1>9, <1>10
<1>11. ASSUME NEW q \in strays, strays' = strays \ {q}, Excess' <= Excess + Cost(q)
       PROVE  DropsAreBounded'
  <2> DEFINE u == IF x = q THEN Idle ELSE x
             v == IF y = q THEN Idle ELSE y
  <2>1. u \in strays' \cup {Idle} /\ v \in strays' \cup {Idle}  BY <1>11
  <2>2. \A p \in strays' : p.op = "drops" => p \in {u, v}  BY <1>2, <1>11
  <2>3. (worker'.pc # "cut" => u = Idle) /\ (main'.phase # "done" => v = Idle)
        BY <1>2, <1>7
  <2>4. Cost(u) \in Nat /\ Cost(v) \in Nat  BY <1>3, <1>5
  <2>5. Cost(q) \in Nat /\ Cost(u) + Cost(v) + Cost(q) <= Cost(x) + Cost(y)
    <3>1. Cost(q) \in Nat  BY <1>5
    <3>2. q.op = "drops" => x = q \/ y = q  BY <1>2
    <3>3. q.op # "drops" => Cost(q) = 0  BY DEF Cost
    <3>4. CASE x = q /\ y = q  BY ONLY <1>3, <1>5, <3>1, <3>4
    <3>5. CASE x = q /\ y # q  BY ONLY <1>3, <1>5, <3>1, <3>5
    <3>6. CASE x # q /\ y = q  BY ONLY <1>3, <1>5, <3>1, <3>6
    <3>7. CASE x # q /\ y # q  BY ONLY <1>3, <1>5, <3>1, <3>2, <3>3, <3>7
    <3> QED  BY <3>1, <3>4, <3>5, <3>6, <3>7
  <2> HIDE DEF u, v
  <2>6. Excess' + Cost(u) + Cost(v) <= 0
        BY ONLY <1>3, <1>4, <1>5, <1>9, <1>11, <2>4, <2>5
  <2> QED  BY <1>8, <2>1, <2>2, <2>3, <2>4, <2>6
<1>12. ASSUME Abort, Waits("worker"), strays' = strays \cup {calls["worker"]},
              Excess' + Cost(calls["worker"]) <= Excess
       PROVE  DropsAreBounded'
  <2> DEFINE u == calls["worker"]
  <2>1. /\ main.phase = "reconcile" /\ worker.pc # "cut" /\ worker'.pc = "cut"
        BY <1>12 DEF Abort, Places, PhasesAgree, Fits, WorkerFits
  <2>2. x = Idle /\ y = Idle  BY <1>2, <2>1
  <2>3. Cost(u) \in Nat
        BY <1>12 DEF Cost, Waits, Fits, CallsFit, RequestFits, Client
  <2>4. u \in strays' \cup {Idle} /\ \A q \in strays' : q.op = "drops" => q \in {u, Idle}
        BY <1>2, <1>12, <2>2
  <2> HIDE DEF u
  <2>5. Excess' + Cost(u) + Cost(Idle) <= 0
        BY <1>4, <1>5, <1>9, <1>12, <2>2, <2>3 DEF u
  <2> QED  BY <1>5, <1>8, <2>1, <2>3, <2>4, <2>5
<1>13. ASSUME FlushTimesOut, strays' = strays \cup {calls["main"]},
              Excess' + Cost(calls["main"]) <= Excess
       PROVE  DropsAreBounded'
  <2> DEFINE v == calls["main"]
  <2>1. main.phase = "flush" /\ main'.phase = "done" /\ Waits("main") /\ worker' = worker
        BY <1>13 DEF FlushTimesOut, Fits
  <2>2. y = Idle  BY <1>2, <2>1
  <2>3. Cost(v) \in Nat
        BY <2>1 DEF Cost, Waits, Fits, CallsFit, RequestFits, Client
  <2>4. /\ v \in strays' \cup {Idle} /\ x \in strays' \cup {Idle}
        /\ \A q \in strays' : q.op = "drops" => q \in {x, v}
    <3>1. Idle.op # "drops"  BY DEF Idle
    <3> QED  BY <1>2, <1>13, <2>2, <3>1
  <2> HIDE DEF v
  <2>5. Excess' + Cost(x) + Cost(v) <= 0
        BY <1>3, <1>4, <1>5, <1>9, <1>13, <2>2, <2>3 DEF v
  <2> QED  BY <1>2, <1>3, <1>8, <2>1, <2>3, <2>4, <2>5
<1> QED  BY <1>10, <1>11, <1>12, <1>13, ExcessChanges

(* Only the answer to a report tells the worker that it was not delivered.    *)
LEMMA UndeliveredChanges ==
    ASSUME Fits, Next
    PROVE  /\ worker'.undelivered = worker.undelivered \/ WorkerFlushed
           /\ ~main'.timedOut => ~main.timedOut
<1>1. DOMAIN worker = {"pc", "job", "accepted", "sequence", "previous", "left", "undelivered"}
      BY DEF Fits, WorkerFits
<1>2. worker'.undelivered = worker.undelivered \/ WorkerFlushed
  <2>1. CASE WorkerBegins  BY <1>1, <2>1 DEF WorkerBegins
  <2>2. CASE WorkerBegun \/ WorkerAppended \/ WorkerFinalized \/ WorkerAborted \/ WorkerDrained
             \/ WorkerFlushes \/ Abort
        BY <1>1, <2>2 DEF WorkerBegun, WorkerAppended, WorkerFinalized, WorkerAborted,
                          WorkerDrained, WorkerFlushes, Abort
  <2> QED  BY <2>1, <2>2, WorkerFrame
<1>3. ~main'.timedOut => ~main.timedOut
  <2>1. main \in [phase : Phase, timedOut : BOOLEAN, todo : SUBSET Analysis, left : Seq(Reason)]
        BY DEF Fits
  <2>2. CASE \/ AgentExits \/ DrainEnds \/ Reconciled \/ Abort \/ Finish \/ Finished
             \/ DropRest \/ RestFlushes \/ AgentIsNotStarted \/ DrainTimesOut
             \/ LookupTimesOut \/ FlushTimesOut
        BY <2>1, <2>2 DEF AgentExits, DrainEnds, Reconciled, Abort, Finish, Finished,
           DropRest, RestFlushes, AgentIsNotStarted, DrainTimesOut, LookupTimesOut,
           FlushTimesOut
  <2> QED  BY <2>2, MainFrame
<1> QED  BY <1>2, <1>3

(* While no drain has timed out, nothing is left behind and nobody but the    *)
(* worker reports.                                                            *)
LEMMA DropsAreExactStep ==
    ASSUME Fits, Places, DropsAreExact, Next
    PROVE  DropsAreExact'
<1> SUFFICES ASSUME ~main'.timedOut
             PROVE  /\ strays' = {}
                    /\ Total(events') + worker'.undelivered + Undelivered' = Taken(account')
    BY DEF DropsAreExact
<1>1. /\ ~main.timedOut /\ strays = {}
      /\ Total(events) + worker.undelivered + Undelivered = Taken(account)
      BY UndeliveredChanges DEF DropsAreExact
<1>2. /\ CallsFit /\ DaemonFits /\ "worker" \in Client /\ "main" \in Client /\ Idle.op = "none"
      /\ DOMAIN worker = {"pc", "job", "accepted", "sequence", "previous", "left", "undelivered"}
      /\ worker.undelivered \in Nat
      BY DEF Fits, WorkerFits, Client, Idle
<1>3. main.phase \notin {"reconcile", "again", "flush"} /\ calls["main"].op # "drops"
      BY <1>1 DEF Places, MainAsks, PhasesAgree
<1>4. /\ Total(events) \in Int /\ Taken(account) \in Int /\ Undelivered \in Nat
      BY CountsAreNumbers, <1>2 DEF Undelivered, CallsFit, RequestFits
<1>5. ASSUME calls'["worker"] = calls["worker"]
             \/ (calls'["worker"].op # "drops" /\ calls["worker"].op # "drops")
      PROVE  Undelivered' = Undelivered
      BY <1>5 DEF Undelivered
<1>6. ~Abort /\ ~FlushTimesOut /\ ~RestFlushes  BY <1>3 DEF Abort, FlushTimesOut, RestFlushes
<1>7. strays' = {}
      BY <1>1, <1>6, ExcessChanges
<1>8. ASSUME WorkerFlushes, Unreported(worker.left) # {}
      PROVE  Total(events') + worker'.undelivered + Undelivered' = Taken(account')
  <2>1. /\ calls["worker"] = Idle /\ worker.left \in Seq(Reason)
        /\ Flush("worker", Min(Unreported(worker.left)), worker.left)
        /\ UNCHANGED daemonVars
        BY <1>8 DEF WorkerFlushes, Fits, WorkerFits
  <2>2. /\ Taken(account') = Taken(account) + Sent("worker")' /\ Sent("worker")' \in Nat
        /\ calls'["worker"].op = "drops" /\ calls'["worker"].answer = "none"
        /\ calls'["worker"].number = Sent("worker")'
        BY <1>2, <1>8, <2>1, FlushTakes
  <2>3. Undelivered' = Sent("worker")' /\ Undelivered = 0
        BY <1>2, <2>1, <2>2 DEF Undelivered
  <2>4. worker'.undelivered = worker.undelivered
        BY <1>2, <1>8 DEF WorkerFlushes
  <2>5. Total(events') = Total(events)  BY <2>1 DEF daemonVars
  <2> QED  BY ONLY <1>1, <1>2, <1>4, <2>2, <2>3, <2>4, <2>5
<1>9. ASSUME WorkerFlushed, Taken(account') = Taken(account)
      PROVE  Total(events') + worker'.undelivered + Undelivered' = Taken(account')
  <2> DEFINE n == calls["worker"].number
  <2>1. /\ Read("worker") /\ UNCHANGED daemonVars
        /\ calls["worker"].op = "drops" /\ calls["worker"].answer # "none"
        /\ worker' = IF calls["worker"].answer = "error"
                     THEN [worker EXCEPT !.undelivered = @ + n] ELSE worker
        BY <1>9 DEF WorkerFlushed, Answered
  <2>2. n \in Nat  BY <1>2, <2>1 DEF CallsFit, RequestFits
  <2>3. Undelivered = IF calls["worker"].answer = "error" THEN n ELSE 0
        BY <2>1 DEF Undelivered
  <2> HIDE DEF n
  <2>4. worker'.undelivered = worker.undelivered + Undelivered
        BY <1>2, <2>1, <2>2, <2>3
  <2>5. Undelivered' = 0
    <3>1. calls'["worker"] = Idle  BY <1>2, <2>1, ReadFits
    <3> QED  BY <1>2, <3>1 DEF Undelivered
  <2>6. Total(events') = Total(events)  BY <2>1 DEF daemonVars
  <2> QED  BY ONLY <1>1, <1>2, <1>4, <1>9, <2>4, <2>5, <2>6
<1>10. ASSUME Total(events') = Total(events), Taken(account') = Taken(account),
              worker'.undelivered = worker.undelivered, Undelivered' = Undelivered
       PROVE  Total(events') + worker'.undelivered + Undelivered' = Taken(account')
       BY <1>1, <1>10
<1>11. ASSUME NEW c \in Client, DaemonAnswers(c)
       PROVE  Total(events') + worker'.undelivered + Undelivered' = Taken(account')
  <2> DEFINE q == calls[c]
  <2>1. /\ RequestFits(q) /\ q.answer = "none"
        /\ \A b \in Client : b # c => calls'[b] = calls[b]
        /\ DOMAIN calls'[c] = DOMAIN q
        /\ \A x \in DOMAIN q : x # "answer" => calls'[c][x] = q[x]
        /\ \/ Admits(q) /\ Commit(q) /\ calls'[c].answer \in {Answer(q), "lost"}
           \/ calls'[c].answer = "error" /\ UNCHANGED daemonVars
        BY <1>2, <1>11, AnswerShape
  <2>2. calls'[c].op = q.op  BY <2>1 DEF RequestFits
  <2>3. Taken(account') = Taken(account) /\ worker' = worker
        BY <1>11 DEF DaemonAnswers
  <2>4. Total(events') = Total(events)
           \/ (Total(events') = Total(events) + Cost(q) /\ calls'[c].answer \in {Answer(q), "lost"})
    <3> HIDE DEF q
    <3> QED  BY <1>2, <2>1, CommitFits DEF daemonVars
  <2>5. CASE q.op # "drops"
    <3>1. Total(events') = Total(events)  BY <1>4, <2>4, <2>5 DEF Cost
    <3>2. Undelivered' = Undelivered
      <4>1. CASE c = "worker"  BY <1>5, <2>2, <2>5, <4>1
      <4>2. CASE c = "main"  BY <1>2, <1>5, <2>1, <4>2
      <4> QED  BY <4>1, <4>2 DEF Client
    <3> QED  BY <1>10, <2>3, <3>1, <3>2
  <2>6. CASE q.op = "drops"
    <3>1. c = "worker"  BY <1>3, <2>6 DEF Client
    <3>2. Undelivered = q.number /\ q.number \in Nat /\ Cost(q) = q.number
          BY <2>1, <2>6, <3>1 DEF Undelivered, Cost, RequestFits
    <3>3. calls'[c].number = q.number /\ calls'[c].op = "drops" /\ Answer(q) = "ok"
          BY <2>1, <2>2, <2>6 DEF RequestFits, Answer
    <3>4. CASE calls'[c].answer = "error" /\ UNCHANGED daemonVars
      <4>1. Undelivered' = Undelivered /\ Total(events') = Total(events)
            BY <3>1, <3>2, <3>3, <3>4 DEF Undelivered, daemonVars
      <4> QED  BY <1>10, <2>3, <4>1
    <3>5. CASE Admits(q) /\ Commit(q) /\ calls'[c].answer \in {Answer(q), "lost"}
      <4>1. Undelivered' = 0  BY <3>1, <3>3, <3>5 DEF Undelivered
      <4>2. Total(events') = Total(events) + Undelivered
        <5> HIDE DEF q
        <5> QED  BY <1>2, <2>1, <3>2, <3>5, CommitFits
      <4> QED  BY ONLY <1>1, <1>2, <1>4, <2>3, <4>1, <4>2
    <3> QED  BY <2>1, <3>4, <3>5
  <2> QED  BY <2>5, <2>6
<1>12. CASE Taken(account') = Taken(account) /\ ~WorkerFlushed /\ UNCHANGED daemonVars
  <2>1. worker'.undelivered = worker.undelivered /\ Total(events') = Total(events)
        BY <1>12, UndeliveredChanges DEF daemonVars
  <2>2. Undelivered' = Undelivered
    <3>1. CASE calls' = calls  BY <1>5, <3>1
    <3>2. ASSUME NEW q, Ask("worker", q), q.op # "drops", calls["worker"].op # "drops"
          PROVE  Undelivered' = Undelivered
      <4>1. calls'["worker"] = q  BY <1>2, <3>2 DEF Ask, CallsFit
      <4> QED  BY <1>5, <3>2, <4>1
    <3>3. ASSUME Read("worker"), calls["worker"].op # "drops"
          PROVE  Undelivered' = Undelivered
      <4>1. calls'["worker"] = Idle  BY <1>2, <3>3, ReadFits
      <4> QED  BY <1>2, <1>5, <3>3, <4>1
    <3>4. CASE WorkerBegins \/ WorkerBegun \/ WorkerSends \/ WorkerAppended \/ WorkerFinalized
               \/ WorkerAborted
      <4>1. worker.pc # "flush" \/ calls["worker"].op # "drops"
            BY <3>4 DEF WorkerBegins, WorkerBegun, WorkerSends, WorkerAppended, WorkerFinalized,
                        WorkerAborted, Answered
      <4>2. calls["worker"].op # "drops"  BY <4>1 DEF Places, WorkerAsks
      <4>3. Read("worker") \/ \E q : Ask("worker", q) /\ q.op # "drops"
            BY <3>4 DEF WorkerBegins, WorkerBegun, WorkerSends, WorkerAppended,
                        WorkerFinalized, WorkerAborted
      <4> QED  BY <3>2, <3>3, <4>2, <4>3
    <3>5. CASE WorkerFlushes
      <4>1. calls["worker"] = Idle /\ calls["worker"].op # "drops"  BY <1>2, <3>5 DEF WorkerFlushes
      <4>2. CASE Unreported(worker.left) = {}
            BY <3>1, <3>5, <4>2 DEF WorkerFlushes
      <4>3. CASE Unreported(worker.left) # {}
        <5>1. Total(events') + worker'.undelivered + Undelivered' = Taken(account')
              BY <1>8, <3>5, <4>3
        <5>2. Undelivered' \in Int
          <6>1. Fits'  BY FitsStep
          <6> QED  BY <6>1 DEF Undelivered, Fits, CallsFit, RequestFits, Client, Idle
        <5> QED  BY ONLY <1>1, <1>2, <1>4, <1>12, <2>1, <5>1, <5>2
      <4> QED  BY <4>2, <4>3
    <3>6. CASE Lookup \/ Reconciled \/ Finish \/ Finished \/ RestFlushed \/ LookupTimesOut
      <4>1. calls'["worker"] = calls["worker"]
            BY <1>2, <3>6 DEF Lookup, Reconciled, Finish, Finished, RestFlushed, LookupTimesOut,
                              Ask, Read, CallsFit
      <4> QED  BY <1>5, <4>1
    <3>7. ASSUME NEW c \in Client, DaemonAnswers(c) PROVE Undelivered' = Undelivered
      <4>1. Total(events') + worker'.undelivered + Undelivered' = Taken(account')
            BY <1>11, <3>7
      <4>2. Undelivered' \in Int
        <5>1. Fits'  BY FitsStep
        <5> QED  BY <5>1 DEF Undelivered, Fits, CallsFit, RequestFits, Client, Idle
      <4> QED  BY ONLY <1>1, <1>2, <1>4, <1>12, <2>1, <4>1, <4>2
    <3> QED  BY <1>1, <1>6, <1>12, <3>1, <3>4, <3>5, <3>6, <3>7, CallsFrame
  <2> QED  BY <1>7, <1>10, <1>12, <2>1, <2>2
<1>13. Taken(account') = Taken(account) \/ (WorkerFlushes /\ Unreported(worker.left) # {})
       BY <1>6, StepMoves
<1>14. Total(events') + worker'.undelivered + Undelivered' = Taken(account')
       BY <1>1, <1>8, <1>9, <1>11, <1>12, <1>13, DaemonFrame
<1> QED  BY <1>7, <1>14

(* What an end of analyses reports, and one of none.                          *)
LEMMA EndReportsNothing ==
    ASSUME NEW c, AccountFits(c), NEW a \in Analysis, NEW kind \in {"complete", "partial"}
    PROVE  End(c, a, kind).unreported = c.unreported
<1> DEFINE S == {a} \cap c.pending
<1>1. S \in SUBSET c.pending /\ kind \in Kinds  BY DEF Kinds
<1> HIDE DEF S
<1>2. Ended(c, S, kind).unreported = c.unreported  BY <1>1, EndedEnds
<1> QED  BY <1>2 DEF End, S

(* An event that belongs to an ended analysis adds no drop.                   *)
LEMMA DropOfNone ==
    ASSUME NEW c, AccountFits(c), Known(c), NEW a \in Analysis, NEW reason \in Reason,
           c.fate[a] \notin {"unseen", "pending"}
    PROVE  Dropped(EnsureSeen(c, a), a, reason).unreported = c.unreported
<1>1. c \in Account  BY DEF AccountFits
<1>2. c.fate[a] \in Kinds  BY <1>1 DEF Account, Fates
<1>3. EnsureSeen(c, a) = c  BY <1>2 DEF EnsureSeen, Known
<1> DEFINE S == {a} \cap c.pending
           kind == "dropped"
           e == Ended(c, S, kind)
<1>4. S = {}  BY DEF AccountFits
<1>5. S \in SUBSET c.pending /\ kind \in Kinds  BY DEF Kinds
<1>6. Cardinality(S) = 0  BY <1>4, FS_EmptySet
<1>7. Dropped(c, a, reason) = [e EXCEPT !.unreported[reason] = @ + Cardinality(S)]
      BY DEF Dropped, End
<1> HIDE DEF S, kind
<1>12. Ends(c, e, S, kind) /\ e.unreported = c.unreported
       BY <1>5, EndedEnds
<1> HIDE DEF e
<1>8. e.unreported = c.unreported /\ e \in Account
      BY <1>12 DEF Ends, AccountFits
<1> DEFINE u == [e.unreported EXCEPT ![reason] = @ + 0]
<1>9. u = c.unreported  BY <1>1, <1>8 DEF Account
<1>10. [e EXCEPT !.unreported[reason] = @ + Cardinality(S)].unreported = u
       BY <1>6, <1>8 DEF Account
<1> QED  BY <1>3, <1>7, <1>9, <1>10

(* While the worker reports, and after it, nothing new is to be reported.     *)
LEMMA QuietAccount ==
    ASSUME Fits, Places, PendingIsHeld, Known(account), SeenIsKept,
           worker.pc \in {"flush", "done"}, Next
    PROVE  account'.unreported = account.unreported \/ WorkerFlushes
<1>1. AccountFits(account)  BY DEF Fits
<1>2. jobs = << >> /\ \A a \in Analysis : recording[a] = "gone"
      BY DEF Places, Drained
<1>3. account.pending = {}
  <2>1. SUFFICES ASSUME NEW a \in account.pending PROVE FALSE  OBVIOUS
  <2>2. a \in Analysis  BY <1>1 DEF AccountFits
  <2> QED  BY <1>2, <2>1, <2>2 DEF PendingIsHeld
<1>4. \A a \in Analysis : account.fate[a] \notin {"unseen", "pending"}
      BY <1>1, <1>2, <1>3 DEF SeenIsKept, AccountFits
<1>5. main.phase \notin {"again", "flush"}  BY DEF Places, PhasesAgree
<1>6. ASSUME NEW a \in Analysis, IngressDrops(a) PROVE account'.unreported = account.unreported
  <2>1. "CorrelationDegraded" \in Reason  BY DEF Reason
  <2>2. account' = Dropped(EnsureSeen(account, a), a, "CorrelationDegraded")
        BY <1>6 DEF IngressDrops
  <2> QED  BY <1>1, <1>4, <2>1, <2>2, DropOfNone
<1>7. ASSUME Reconciled PROVE account'.unreported = account.unreported
  <2> DEFINE x == calls["main"].analysis
             s == IF calls["main"].answer = "complete" THEN "complete" ELSE "partial"
  <2>1. x \in Analysis
        BY <1>7 DEF Reconciled, Answered, Fits, CallsFit, RequestFits, Client, Idle, OfAnalysis
  <2>2. s \in {"complete", "partial"}  OBVIOUS
  <2>3. account' = account \/ account' = End(account, x, s)
        BY <1>7 DEF Reconciled, LookedUp
  <2>4. End(account, x, s).unreported = account.unreported
        BY <1>1, <2>1, <2>2, EndReportsNothing
  <2> QED  BY <2>3, <2>4
<1>8. ~WorkerBegun /\ ~WorkerAborted /\ ~WorkerFinalized
      BY DEF WorkerBegun, WorkerAborted, WorkerFinalized, Answered, Places, WorkerAsks
<1>9. \A a \in Analysis : ~RecorderSees(a) /\ ~RecorderDrops(a) /\ ~RecorderHands(a)
      BY <1>2 DEF RecorderSees, RecorderDrops, RecorderHands
<1>10. ~DropRest /\ ~RestFlushes  BY <1>5 DEF DropRest, RestFlushes
<1> QED  BY <1>6, <1>7, <1>8, <1>9, <1>10, AccountFrame

(* The flush of the worker reaches every reason that has drops.               *)
LEMMA FlushCoversStep ==
    ASSUME Fits, Places, PendingIsHeld, Known(account), SeenIsKept, FlushCovers, Next
    PROVE  FlushCovers'
<1>1. /\ account.unreported \in [Reason -> Nat] /\ worker.left \in Seq(Reason)
      /\ DOMAIN worker = {"pc", "job", "accepted", "sequence", "previous", "left", "undelivered"}
      BY DEF Fits, AccountFits, Account, WorkerFits
<1>2. ASSUME worker'.pc = worker.pc, worker'.left = worker.left, ~WorkerFlushes
      PROVE  FlushCovers'
      BY <1>2, QuietAccount DEF FlushCovers
<1>3. CASE WorkerDrained
  <2>1. worker'.pc = "flush" /\ worker'.left = Reasons  BY <1>1, <1>3 DEF WorkerDrained
  <2>2. \A r \in Reason : \E i \in DOMAIN Reasons : Reasons[i] = r
    <3>1. /\ Reasons[1] = "ObserverBackpressure" /\ Reasons[2] = "Malformed"
          /\ Reasons[3] = "CorrelationDegraded" /\ Reasons[4] = "Cancelled"
          /\ {1, 2, 3, 4} \subseteq DOMAIN Reasons
          BY DEF Reasons
    <3> QED  BY <3>1 DEF Reason
  <2> QED  BY <2>1, <2>2 DEF FlushCovers
<1>4. CASE WorkerFlushes
  <2> DEFINE left == worker.left
             i == Min(Unreported(left))
  <2>1. worker.pc = "flush"  BY <1>4 DEF WorkerFlushes
  <2>2. \A r \in Reason : account.unreported[r] > 0 => \E j \in DOMAIN left : left[j] = r
        BY <2>1 DEF FlushCovers
  <2>3. CASE Unreported(left) = {}
    <3>1. worker'.pc = "done" /\ account' = account  BY <1>1, <1>4, <2>3 DEF WorkerFlushes
    <3>2. \A r \in Reason : account.unreported[r] = 0
      <4>1. SUFFICES ASSUME NEW r \in Reason, account.unreported[r] # 0 PROVE FALSE  OBVIOUS
      <4>2. account.unreported[r] > 0  BY <1>1, <4>1
      <4>3. PICK j \in DOMAIN left : left[j] = r  BY <2>2, <4>2
      <4>4. j \in Unreported(left)  BY <4>2, <4>3 DEF Unreported
      <4> QED  BY <2>3, <4>4
    <3> QED  BY <3>1, <3>2 DEF FlushCovers
  <2>4. CASE Unreported(left) # {}
    <3>1. /\ worker' = [worker EXCEPT !.left = SubSeq(left, i + 1, Len(left))]
          /\ account' = [account EXCEPT !.unreported[left[i]] = 0]
          BY <1>4, <2>4 DEF WorkerFlushes, Flush, Take
    <3>2. /\ i \in 1 .. Len(left) /\ left[i] \in Reason
          /\ \A j \in 1 .. i - 1 : ~(account.unreported[left[j]] > 0)
          BY <1>1, <2>4, NextReport
    <3>3. worker'.pc = "flush" /\ worker'.left = SubSeq(left, i + 1, Len(left))
          BY <1>1, <2>1, <3>1
    <3> HIDE DEF i, left
    <3>4. account'.unreported = [account.unreported EXCEPT ![left[i]] = 0]
      <4>1. AccountFits(account)  BY DEF Fits
      <4> QED  BY <3>1, <3>2, <4>1, TakeMoves
    <3>5. ASSUME NEW r \in Reason, account'.unreported[r] > 0
          PROVE  \E j \in DOMAIN worker'.left : worker'.left[j] = r
      <4>1. r # left[i] /\ account.unreported[r] > 0
            BY <1>1, <3>2, <3>4, <3>5
      <4>2. PICK j \in DOMAIN left : left[j] = r  BY <2>2, <4>1
      <4>3. j \in i + 1 .. Len(left)
            BY <1>1, <3>2, <4>1, <4>2 DEF left
      <4>4. /\ DOMAIN SubSeq(left, i + 1, Len(left)) = 1 .. Len(left) - i
            /\ SubSeq(left, i + 1, Len(left))[j - i] = left[j]
            BY <1>1, <3>2, <4>3 DEF left
      <4>5. j - i \in 1 .. Len(left) - i  BY <1>1, <3>2, <4>3 DEF left
      <4> QED  BY <3>3, <4>2, <4>4, <4>5
    <3> QED  BY <3>3, <3>5 DEF FlushCovers
  <2> QED  BY <2>3, <2>4
<1>5. CASE ~WorkerFlushes /\ ~WorkerDrained
  <2>1. CASE worker' = worker  BY <1>2, <1>5, <2>1
  <2>2. CASE WorkerBegins \/ WorkerBegun \/ WorkerAppended \/ WorkerFinalized
             \/ WorkerAborted \/ Abort
    <3>1. worker'.pc \notin {"flush", "done"}
      <4>1. CASE WorkerBegins  BY <1>1, <4>1 DEF WorkerBegins
      <4>2. CASE WorkerAppended
        <5>1. worker.pc = "blocks"  BY <4>2 DEF WorkerAppended, Answered, Places, WorkerAsks
        <5> QED  BY <1>1, <4>2, <5>1 DEF WorkerAppended
      <4>3. CASE WorkerBegun \/ WorkerFinalized \/ WorkerAborted \/ Abort
            BY <1>1, <4>3 DEF WorkerBegun, WorkerFinalized, WorkerAborted, Abort
      <4> QED  BY <2>2, <4>1, <4>2, <4>3
    <3> QED  BY <3>1 DEF FlushCovers
  <2>3. CASE WorkerFlushed
    <3>1. worker'.pc = worker.pc /\ worker'.left = worker.left
          BY <1>1, <2>3 DEF WorkerFlushed
    <3> QED  BY <1>2, <1>5, <3>1
  <2> QED  BY <1>5, <2>1, <2>2, <2>3, WorkerFrame
<1> QED  BY <1>3, <1>4, <1>5

-----------------------------------------------------------------------------
(* The promises                                                               *)

(* What holds whatever is forgotten, and what needs that nothing is.          *)
IInv ==
    /\ Fits /\ Places /\ PendingIsHeld /\ Durable
    /\ Sound(account) /\ SeenIsKept /\ DropsAreBounded /\ DropsAreExact

Remembers == IInv /\ Known(account) /\ Tells(account) /\ FlushCovers

(* All of it holds when a run starts.                                         *)
LEMMA InitHolds ==
    ASSUME Init
    PROVE  Remembers
<1>1. Fits  BY InitFits
<1>2. /\ calls["worker"].op = "none" /\ calls["main"].op = "none" /\ strays = {}
      /\ calls["worker"] = Idle /\ calls["main"] = Idle
      BY DEF Init, Client, Idle
<1>3. worker.pc = "idle" /\ worker.previous = {} /\ worker.undelivered = 0
      /\ main.phase = "serving" /\ main.timedOut = FALSE
      BY DEF Init, IdleWorker, InitialMain
<1>4. /\ account.pending = {} /\ account.through = -1 /\ account.holes = {}
      /\ account.seen = 0 /\ account.complete = 0 /\ account.partial = 0
      /\ account.dropped = 0 /\ account.unreported = [r \in Reason |-> 0]
      /\ account.fate = [a \in Analysis |-> "unseen"]
      BY DEF Init, InitialAccount
<1>5. Places
      BY <1>2, <1>3 DEF Places, WorkerAsks, MainAsks, PhasesAgree, Drained, OfAnalysis
<1>6. PendingIsHeld  BY <1>3, <1>4 DEF PendingIsHeld
<1>7. Durable
  <2>1. \A a \in Analysis : rows[a].previous = {}  BY DEF Init, NoRow
  <2> QED  BY <1>2, <1>3, <1>4, <2>1
           DEF Durable, PredecessorsAreFinal, AnswersAreTrue, FatesAreDurable, Finalized
<1>8. Sound(account) /\ Known(account)
      BY <1>4, IngestionAssumption DEF Sound, Known, IsTerminal, Kinds
<1>9. SeenIsKept  BY DEF Init, SeenIsKept
<1>10. Total(events) = 0 /\ Total(account.unreported) = 0
       BY <1>4 DEF Init, Total, Reason
<1>11. Taken(account) = 0  BY <1>4, <1>10 DEF Taken
<1>12. DropsAreBounded
  <2>1. StrayDrops(Idle, Idle)
        BY <1>2, <1>10, <1>11 DEF StrayDrops, Cost, Idle, Sent, Waits
  <2> QED  BY <2>1 DEF DropsAreBounded
<1>13. DropsAreExact
       BY <1>2, <1>3, <1>10, <1>11 DEF DropsAreExact, Undelivered
<1>14. FlushCovers  BY <1>3 DEF FlushCovers
<1>15. Tells(account)
  <2>1. /\ {a \in Analysis : account.fate[a] = "unseen"} = Analysis
        /\ {a \in Analysis : account.fate[a] = "complete"} = {}
        /\ {a \in Analysis : account.fate[a] = "partial"} = {}
        /\ {a \in Analysis : account.fate[a] = "dropped"} = {}
        BY <1>4
  <2>2. Cardinality(Analysis) \in Nat /\ Cardinality({}) = 0
        BY FS_EmptySet, FS_CardinalityType, IngestionAssumption
  <2>3. /\ Count(account, "unseen") = Cardinality(Analysis)
        /\ Count(account, "complete") = 0 /\ Count(account, "partial") = 0
        /\ Count(account, "dropped") = 0
        BY ONLY <2>1, <2>2 DEF Count
  <2> QED  BY ONLY <1>4, <2>2, <2>3 DEF Tells
<1> QED  BY <1>1, <1>5, <1>6, <1>7, <1>8, <1>9, <1>12, <1>13, <1>14, <1>15
         DEF Remembers, IInv

(* And when nothing happens.                                                  *)
LEMMA StutterHolds ==
    ASSUME UNCHANGED vars
    PROVE  /\ IInv => IInv'
           /\ Remembers => Remembers'
<1>1. /\ account' = account /\ recording' = recording /\ jobs' = jobs /\ worker' = worker
      /\ main' = main /\ calls' = calls /\ strays' = strays
      /\ rows' = rows /\ session' = session /\ events' = events
      BY DEF vars
<1>2. Fits => Fits'
      BY <1>1 DEF Fits, AccountFits, Account, WorkerFits, CallsFit, RequestFits, DaemonFits, RowFits
<1>3. Places => Places'
      BY <1>1 DEF Places, WorkerAsks, MainAsks, PhasesAgree, Drained, Current
<1>4. PendingIsHeld => PendingIsHeld'  BY <1>1 DEF PendingIsHeld, Current
<1>5. Durable => Durable'
      BY <1>1 DEF Durable, PredecessorsAreFinal, AnswersAreTrue, FatesAreDurable, Finalized
<1>7. SeenIsKept => SeenIsKept'  BY <1>1 DEF SeenIsKept
<1>8. DropsAreBounded => DropsAreBounded'
      BY <1>1 DEF DropsAreBounded, StrayDrops, Sent, Waits, Taken, Total
<1>9. DropsAreExact => DropsAreExact'
      BY <1>1 DEF DropsAreExact, Undelivered, Taken, Total
<1>10. FlushCovers => FlushCovers'  BY <1>1 DEF FlushCovers
<1>11. ASSUME IInv PROVE IInv'
  <2>1. Sound(account)'  BY <1>1, <1>11 DEF IInv, Sound, IsTerminal
  <2> QED  BY <1>2, <1>3, <1>4, <1>5, <1>7, <1>8, <1>9, <1>11, <2>1 DEF IInv
<1>12. ASSUME Remembers PROVE Remembers'
  <2>1. Known(account)' /\ Tells(account)'
        BY <1>1, <1>12 DEF Remembers, Known, IsTerminal, Tells, Count
  <2> QED  BY <1>10, <1>11, <1>12, <2>1 DEF Remembers
<1> QED  BY <1>11, <1>12

(* Every step keeps what does not depend on the memory of identities.         *)
LEMMA IInvStep ==
    ASSUME IInv, Next
    PROVE  IInv'
<1>1. Fits /\ Places /\ PendingIsHeld /\ Durable /\ Sound(account) /\ SeenIsKept
      /\ DropsAreBounded /\ DropsAreExact
      BY DEF IInv
<1>2. Sound(account)'
  <2>1. Sound(account')  BY <1>1, StepMoves DEF Moves
  <2> QED  BY <2>1 DEF Sound, IsTerminal
<1>3. Fits' /\ Places' /\ PendingIsHeld' /\ Durable'
      BY <1>1, FitsStep, PlacesStep, PendingIsHeldStep, DurableStep
<1>4. SeenIsKept' /\ DropsAreBounded' /\ DropsAreExact'
      BY <1>1, SeenIsKeptStep, DropsAreBoundedStep, DropsAreExactStep
<1> QED  BY <1>2, <1>3, <1>4 DEF IInv

(* While none is forgotten, every step keeps the rest.                        *)
LEMMA RemembersStep ==
    ASSUME NoneForgotten, Remembers, Next
    PROVE  Remembers'
<1>1. IInv'  BY IInvStep DEF Remembers
<1>2. Fits /\ Places /\ PendingIsHeld /\ SeenIsKept /\ Known(account) /\ Tells(account)
      /\ FlushCovers
      BY DEF Remembers, IInv
<1>3. FlushCovers'  BY <1>2, FlushCoversStep
<1>4. Known(account') /\ Tells(account')  BY <1>2, StepMoves DEF Moves
<1>5. Known(account)' /\ Tells(account)'
      BY <1>4 DEF Known, IsTerminal, Tells, Count
<1> QED  BY <1>1, <1>3, <1>5 DEF Remembers

(* Type correctness, and what all the promises rest on, however many          *)
(* identities are forgotten.                                                  *)
THEOREM IngestionInvHolds == Spec => []IInv
<1>1. Init => IInv  BY InitHolds DEF Remembers
<1>2. IInv /\ [Next]_vars => IInv'  BY IInvStep, StutterHolds
<1> QED  BY <1>1, <1>2, PTL DEF Spec

(* An analysis counted complete or partial, by the worker's own answer or by  *)
(* a reconciliation that raced it, has that terminal snapshot at the daemon,  *)
(* and its delta is over a finalized predecessor: for any analyses, batches,  *)
(* bounds, lost or refused requests, timeouts and late performances.          *)
THEOREM CountedOutcomesAreDurableHolds == Spec => []CountedOutcomesAreDurable
<1>1. IInv => CountedOutcomesAreDurable
  <2>1. SUFFICES ASSUME IInv, NEW a \in Analysis
                 PROVE  /\ account.fate[a] = "complete" => rows[a].state = "complete"
                        /\ account.fate[a] = "partial" => rows[a].state \in {"partial", "aborted"}
                        /\ \A p \in rows[a].previous :
                              p # a /\ rows[p].state \in {"complete", "partial"}
        BY DEF CountedOutcomesAreDurable
  <2> QED  BY <2>1 DEF IInv, Durable, FatesAreDurable, PredecessorsAreFinal, Finalized
<1> QED  BY <1>1, IngestionInvHolds, PTL

(* No drop is reported twice, although answers are lost, the worker is        *)
(* aborted and the last flush times out, and however many are forgotten.      *)
THEOREM ReportsNeverExceedDropsHolds ==
    Spec => [](Total(events) + Total(account.unreported) + Sent("worker") + Sent("main")
                 <= account.dropped)
<1>1. IInv => Total(events) + Total(account.unreported) + Sent("worker") + Sent("main")
                <= account.dropped
  <2>1. SUFFICES ASSUME IInv
                 PROVE  Total(events) + Total(account.unreported) + Sent("worker") + Sent("main")
                          <= account.dropped
        OBVIOUS
  <2>2. Fits  BY <2>1 DEF IInv
  <2>3. PICK x \in strays \cup {Idle}, y \in strays \cup {Idle} : StrayDrops(x, y)
        BY <2>1 DEF IInv, DropsAreBounded
  <2>4. /\ Total(events) \in Int /\ Sent("worker") \in Nat /\ Sent("main") \in Nat
        /\ Cost(x) \in Nat /\ Cost(y) \in Nat
        BY <2>2, CountsAreNumbers
  <2>5. Total(account.unreported) \in Int /\ account.dropped \in Int
        BY <2>2 DEF Fits, AccountFits, Account, Total, Reason
  <2>6. Total(events) + Cost(x) + Cost(y) + Sent("worker") + Sent("main")
          <= account.dropped - Total(account.unreported)
        BY <2>3 DEF StrayDrops, Taken
  <2> QED  BY ONLY <2>4, <2>5, <2>6
<1> QED  BY <1>1, IngestionInvHolds, PTL

(* While no identity is forgotten: what is terminal is known to be, and the   *)
(* counters count the fates.                                                  *)
THEOREM NothingIsForgottenHolds ==
    ASSUME NoneForgotten
    PROVE  Spec => []Remembers
<1>1. Init => Remembers  BY InitHolds
<1>2. Remembers /\ [Next]_vars => Remembers'  BY RemembersStep, StutterHolds
<1> QED  BY <1>1, <1>2, PTL DEF Spec

(* The totals tell the fates: seen, complete, partial and dropped count each  *)
(* analysis once, what is pending is what has been seen and not ended, and     *)
(* nothing is pending when the run is over.                                   *)
THEOREM TotalsTellFatesHolds ==
    ASSUME NoneForgotten
    PROVE  Spec => []TotalsTellFates
<1>1. Remembers => TotalsTellFates
  <2>1. SUFFICES ASSUME Remembers PROVE TotalsTellFates  OBVIOUS
  <2>2. Tells(account) /\ AccountFits(account) /\ PendingIsHeld
        BY <2>1 DEF Remembers, IInv, Fits
  <2>3. \A kind : With(kind) = Count(account, kind)  BY DEF With, Count
  <2>4. \A kind \in {"complete", "partial", "dropped"} : account[kind] = With(kind)
        BY <2>2, <2>3 DEF Tells
  <2>5. account.seen = Cardinality(Analysis) - With("unseen")
        BY <2>2, <2>3 DEF Tells
  <2>6. account.pending = {a \in Analysis : account.fate[a] = "pending"}
        BY <2>2 DEF AccountFits
  <2>7. main.phase = "done" => account.pending = {}  BY <2>2 DEF PendingIsHeld
  <2> QED  BY <2>4, <2>5, <2>6, <2>7 DEF TotalsTellFates
<1> QED  BY <1>1, NothingIsForgottenHolds, PTL

(* A dropped analysis is reported at most once, and after an orderly drain    *)
(* every drop was reported, unless the daemon refused its report.             *)
THEOREM DropsAreReportedOnceHolds ==
    ASSUME NoneForgotten
    PROVE  Spec => []DropsAreReportedOnce
<1>1. Remembers => (main.phase = "done" /\ ~main.timedOut
                      => Total(events) + worker.undelivered = account.dropped)
  <2>1. SUFFICES ASSUME Remembers, main.phase = "done", ~main.timedOut
                 PROVE  Total(events) + worker.undelivered = account.dropped
        OBVIOUS
  <2>2. Fits /\ Places /\ DropsAreExact /\ FlushCovers  BY <2>1 DEF Remembers, IInv
  <2>3. worker.pc = "done"  BY <2>1, <2>2 DEF Places, PhasesAgree
  <2>4. Undelivered = 0
    <3>1. calls["worker"].op # "drops"  BY <2>2, <2>3 DEF Places, WorkerAsks
    <3> QED  BY <3>1 DEF Undelivered
  <2>5. Total(account.unreported) = 0
        BY <2>2, <2>3 DEF FlushCovers, Total, Reason
  <2>6. Total(events) + worker.undelivered + Undelivered = Taken(account)
        BY <2>1, <2>2 DEF DropsAreExact
  <2>7. Total(events) \in Int /\ worker.undelivered \in Int /\ account.dropped \in Int
        BY <2>2, CountsAreNumbers DEF Fits, WorkerFits, AccountFits, Account
  <2> QED  BY ONLY <2>4, <2>5, <2>6, <2>7 DEF Taken
<1> QED  BY <1>1, NothingIsForgottenHolds, ReportsNeverExceedDropsHolds, PTL
            DEF DropsAreReportedOnce

(* Every way to end an analysis (the worker, a reconciliation, a dropped      *)
(* event, the forced end of the run), however late, is a step of the abstract *)
(* AnalysisOutcomes: an analysis is seen once and gets one outcome, once.     *)
THEOREM EveryAnalysisEndsOnceHolds ==
    ASSUME NoneForgotten
    PROVE  Spec => EveryAnalysisEndsOnce
<1>1. Init => Outcomes!Init
      BY DEF Init, InitialAccount, Outcomes!Init
<1>2. Remembers /\ [Next]_vars => [Outcomes!Next]_(account.fate)
  <2>1. SUFFICES ASSUME Remembers, Next
                 PROVE  Outcomes!Next \/ account'.fate = account.fate
        BY DEF vars
  <2>2. OutcomeStep(account.fate, account'.fate)
        BY <2>1, StepMoves DEF Remembers, IInv, Moves
  <2>3. CASE account'.fate = account.fate  BY <2>3
  <2>4. ASSUME NEW a \in Analysis, account.fate[a] = "unseen",
               account'.fate = [account.fate EXCEPT ![a] = "pending"]
        PROVE  Outcomes!Next
        BY <2>4 DEF Outcomes!Next, Outcomes!See
  <2>5. ASSUME NEW S \in SUBSET Analysis, NEW kind \in Kinds,
               \A a \in S : account.fate[a] \in {"unseen", "pending"},
               account'.fate = [a \in Analysis |-> IF a \in S THEN kind ELSE account.fate[a]]
        PROVE  Outcomes!Next
        BY <2>5 DEF Outcomes!Next, Outcomes!End, Outcomes!Terminal, Kinds
  <2> QED  BY <2>2, <2>3, <2>4, <2>5 DEF OutcomeStep
<1> QED  BY <1>1, <1>2, NothingIsForgottenHolds, PTL
            DEF EveryAnalysisEndsOnce, Outcomes!Spec, Spec

-----------------------------------------------------------------------------
(* Bounds                                                                     *)

ShadowFits ==
    /\ DOMAIN shadow = {"pc", "queue", "running", "used", "admitted", "processed", "refused",
                        "recorded"}
    /\ shadow.pc \in {"starting", "running", "failed", "done", "cut"}

Bounds ==
    /\ Bounded(account) /\ Len(jobs) <= QueueItems
    /\ session \in {"active", "closed"} /\ ShadowFits

(* The shadow worker is in one of its states.                                 *)
LEMMA ShadowFitsStep ==
    ASSUME ShadowFits, Next
    PROVE  ShadowFits'
<1>1. CASE shadow' = shadow  BY <1>1 DEF ShadowFits
<1>2. CASE WorkerFinalized
      BY <1>1, <1>2 DEF WorkerFinalized, Offered, ShadowFits
<1>3. CASE ShadowWorker \/ Abort
      BY <1>3 DEF ShadowWorker, ShadowStarts, ShadowTakes, ShadowEvaluates, ShadowEnds, Abort,
                  ShadowFits
<1> QED  BY <1>1, <1>2, <1>3
    DEF Next, Recorder, IngestionWorker, RunAgent, Timeout, RecorderSees, RecorderDrops,
        RecorderHands, IngressDrops, WorkerBegins, WorkerBegun, WorkerSends, WorkerAppended,
        WorkerAborted, WorkerDrained, WorkerFlushes, WorkerFlushed, AgentExits, DrainEnds,
        Lookup, Reconciled, Finish, Finished, DropRest, RestFlushes, RestFlushed,
        AgentIsNotStarted, DrainTimesOut, LookupTimesOut, FlushTimesOut, DaemonAnswers,
        DaemonPerformsStray, Exited, vars

(* Every step keeps the bounds.                                               *)
LEMMA BoundsStep ==
    ASSUME Fits, Places, Bounds, Next
    PROVE  Bounds'
<1>1. Bounded(account)'
  <2>1. Bounded(account')  BY StepMoves DEF Moves, Bounds
  <2> QED  BY <2>1 DEF Bounded
<1>2. Len(jobs)' <= QueueItems
  <2>1. jobs \in Seq(Job) /\ Len(jobs) \in Nat /\ Len(jobs) <= QueueItems /\ QueueItems \in Nat
        BY IngestionAssumption DEF Fits, Bounds
  <2>2. CASE jobs' = jobs  BY <2>1, <2>2
  <2>3. ASSUME NEW a \in Analysis, RecorderHands(a) PROVE Len(jobs)' <= QueueItems
    <3>1. PICK status \in {"complete", "partial"} :
             \/ jobs' = jobs
             \/ Len(jobs) < QueueItems /\ jobs' = Append(jobs, [analysis |-> a, status |-> status])
          BY <2>3 DEF RecorderHands
    <3>2. Len(Append(jobs, [analysis |-> a, status |-> status])) = Len(jobs) + 1
          BY <2>1
    <3> QED  BY <2>1, <3>1, <3>2
  <2>4. CASE WorkerBegins
    <3>1. jobs # << >> /\ jobs' = Tail(jobs)  BY <2>4 DEF WorkerBegins
    <3>2. Len(jobs') = Len(jobs) - 1  BY <2>1, <3>1
    <3> QED  BY <2>1, <3>2
  <2>5. CASE Abort
    <3>1. Len(jobs') = 0  BY <2>5 DEF Abort
    <3> QED  BY <2>1, <3>1
  <2>6. ASSUME NEW a \in Analysis, RecorderSees(a) \/ RecorderDrops(a) \/ IngressDrops(a)
        PROVE  Len(jobs)' <= QueueItems
        BY <2>1, <2>6 DEF RecorderSees, RecorderDrops, IngressDrops
  <2> QED  BY <2>2, <2>3, <2>4, <2>5, <2>6, RecorderFrame
<1>3. session' \in {"active", "closed"}
  <2>1. session \in {"active", "closed"}  BY DEF Bounds
  <2>2. CASE UNCHANGED daemonVars  BY <2>1, <2>2 DEF daemonVars
  <2>3. ASSUME NEW q, RequestFits(q), Commit(q) PROVE session' \in {"active", "closed"}
        BY <2>1, <2>3 DEF Commit, daemonVars, RequestFits, OfAnalysis
  <2>4. ASSUME NEW c \in Client, DaemonAnswers(c) PROVE session' \in {"active", "closed"}
    <3> DEFINE q == calls[c]
    <3>1. RequestFits(q) /\ (Commit(q) \/ UNCHANGED daemonVars)
          BY <2>4, AnswerShape DEF Fits
    <3> HIDE DEF q
    <3> QED  BY <2>2, <2>3, <3>1
  <2>5. ASSUME NEW q \in strays, DaemonPerformsStray(q) PROVE session' \in {"active", "closed"}
        BY <2>2, <2>3, <2>5, StrayShape DEF Fits
  <2> QED  BY <2>2, <2>4, <2>5, DaemonFrame
<1>4. ShadowFits'  BY ShadowFitsStep DEF Bounds
<1> QED  BY <1>1, <1>2, <1>3, <1>4 DEF Bounds

(* Type correctness, and the bounds of the memory of a run: the queue of the  *)
(* worker, the evidence kept to reconcile with, and the identities of ended   *)
(* analyses that ContextCounters keeps above its watermark.                   *)
THEOREM TypesHold == Spec => []IngestionTypeOK
<1>1. Init => IInv /\ Bounds
  <2>1. SUFFICES ASSUME Init PROVE IInv /\ Bounds  OBVIOUS
  <2>2. IInv  BY <2>1, InitHolds DEF Remembers
  <2>3. Bounded(account)
    <3>1. account.evidence = {} /\ account.holes = {}  BY <2>1 DEF Init, InitialAccount
    <3> QED  BY <3>1, FS_EmptySet, IngestionAssumption DEF Bounded
  <2>4. Len(jobs) <= QueueItems
    <3>1. Len(jobs) = 0  BY <2>1 DEF Init
    <3> QED  BY <3>1, IngestionAssumption
  <2>5. session \in {"active", "closed"} /\ ShadowFits
        BY <2>1 DEF Init, InitialShadow, ShadowFits
  <2> QED  BY <2>2, <2>3, <2>4, <2>5 DEF Bounds
<1>2. IInv /\ Bounds /\ [Next]_vars => Bounds'
  <2>1. CASE Next  BY <2>1, BoundsStep DEF IInv
  <2>2. CASE UNCHANGED vars  BY <2>2 DEF vars, Bounds, Bounded, ShadowFits
  <2> QED  BY <2>1, <2>2
<1>3. IInv /\ Bounds => IngestionTypeOK
  <2>1. SUFFICES ASSUME IInv, Bounds PROVE IngestionTypeOK  OBVIOUS
  <2>2. AccountFits(account) /\ WorkerFits /\ main.phase \in Phase  BY <2>1 DEF IInv, Fits
  <2> QED  BY <2>1, <2>2
           DEF IngestionTypeOK, Bounds, Bounded, ShadowFits, AccountFits, Account, WorkerFits, Phase
<1> QED  BY <1>1, <1>2, <1>3, IngestionInvHolds, PTL DEF Spec
=============================================================================
