-------------------------- MODULE AnalysisOutcomes --------------------------
(* What `tracepress run` promises about context analyses, in the words of     *)
(* docs/design/phase-3-shadow-context-analysis.md (Counters): an analysis is   *)
(* seen once, and gets one terminal outcome, once.                            *)
CONSTANT Analysis

VARIABLE outcome    \* of each analysis; "pending" once it was seen

Terminal == {"complete", "partial", "dropped"}

Init == outcome = [a \in Analysis |-> "unseen"]

See(a) ==
    /\ outcome[a] = "unseen"
    /\ outcome' = [outcome EXCEPT ![a] = "pending"]

End(S) ==
    /\ \A a \in S : outcome[a] \in {"unseen", "pending"}
    /\ \E kind \in Terminal :
          outcome' = [a \in Analysis |-> IF a \in S THEN kind ELSE outcome[a]]

Next ==
    \/ \E a \in Analysis : See(a)
    \/ \E S \in SUBSET Analysis : End(S)

Spec == Init /\ [][Next]_outcome
=============================================================================
