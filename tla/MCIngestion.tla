----------------------------- MODULE MCIngestion -----------------------------
(* Values for checking ContextIngestion on small instances.  Forward 1 is not *)
(* an analyzed one, so the watermark of terminal identities cannot reach the  *)
(* other; the last analysis has a block that fits no request.                 *)
EXTENDS IngestionProperties

ThreeBlocks == [a \in Analysis |-> 3]
LastOversized == [a \in Analysis |-> IF a = Max(Analysis) THEN 2 ELSE 0]
GrowingBytes == [a \in Analysis |-> IF a = Max(Analysis) THEN 2 ELSE 1]

(* record_terminal_locked takes one identity after the other, in ascending    *)
(* order: RecordTerminal of all of them leaves what that leaves.              *)
OneByOne(c, S) == FoldLeft(LAMBDA d, a : RecordTerminal(d, {a}), c, SetToSortSeq(S, <))

ASSUME RecordedAtOnce ==
    \A through \in -1 .. 2, holes \in SUBSET (1 .. 5), S \in SUBSET (0 .. 4) :
       /\ \A h \in holes : h > through + 1
       /\ Cardinality(holes) <= TerminalIdentities
       => LET c == [InitialAccount EXCEPT !.through = through, !.holes = holes]
          IN  RecordTerminal(c, S) = OneByOne(c, S)
=============================================================================
