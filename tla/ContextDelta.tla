---------------------------- MODULE ContextDelta ----------------------------
(***************************************************************************)
(* delta.rs: how the blocks of a snapshot compare with those of the        *)
(* snapshot before it in the same session.  A summary is a record with the *)
(* fields exact, semantic (a set of at most one) and tokens (the same).    *)
(* Matching is by multisets, first of exact then of semantic identities.   *)
(***************************************************************************)
EXTENDS Naturals, Sequences, FiniteSets, SequencesExt

Admit(summaries, maximum) ==
    SubSeq(summaries, 1, IF Len(summaries) > maximum THEN maximum ELSE Len(summaries))

(* How many of the first n blocks have the identity. *)
Before(bs, n, Same(_)) == Cardinality({k \in 1..n : Same(bs[k])})

Min2(a, b) == IF a < b THEN a ELSE b

(* take_one over the multiset of previous exact fingerprints: the k-th     *)
(* occurrence of a fingerprint is repeated when k of them were there.      *)
Repeated(previous, current) ==
    {i \in 1..Len(current) :
        LET Same(b) == b.exact = current[i].exact
        IN  Before(current, i, Same) <= Before(previous, Len(previous), Same)}

(* Seeded fault: only the preferred ones are consumed. *)
ConsumedPreferred(previous, current) ==
    {k \in 1..Len(previous) :
        LET Same(b) == b.exact = previous[k].exact /\ b.semantic = previous[k].semantic
        IN  Before(previous, k, Same)
                <= Cardinality({i \in Repeated(previous, current) : Same(current[i])})}

(* unmatched_previous_semantics: of the previous blocks with one exact      *)
(* fingerprint, those whose semantic identity was matched are consumed      *)
(* first, then any others until as many are consumed as were repeated.      *)
Consumed(previous, current) ==
    LET repeated == Repeated(previous, current)
        Taken(exact) == Cardinality({i \in repeated : current[i].exact = exact})
        Preferred(k) ==
            LET Same(b) == b.exact = previous[k].exact /\ b.semantic = previous[k].semantic
            IN  Before(previous, k, Same)
                    <= Cardinality({i \in repeated : Same(current[i])})
        preferred == {k \in 1..Len(previous) : Preferred(k)}
        Late(k) ==
            LET like == {j \in 1..Len(previous) : previous[j].exact = previous[k].exact}
            IN  Cardinality(like \cap preferred)
                    + Cardinality({j \in like \ preferred : j <= k})
                    <= Taken(previous[k].exact)
    IN  preferred \cup {k \in (1..Len(previous)) \ preferred : Late(k)}

(* The remaining blocks, matched by meaning. *)
Changed(previous, current) ==
    LET left == (1..Len(current)) \ Repeated(previous, current)
        rest == (1..Len(previous)) \ Consumed(previous, current)
    IN  {i \in left : /\ current[i].semantic # {}
                      /\ Cardinality({j \in left : j <= i /\ current[j].semantic = current[i].semantic})
                           <= Cardinality({k \in rest : previous[k].semantic = current[i].semantic})}

(* TokenTotal: unknown as soon as one part is. *)
TokenTotal(bs, indexes) ==
    IF \E i \in indexes : bs[i].tokens = {} THEN {}
    ELSE {FoldSet(LAMBDA i, sum : sum + CHOOSE t \in bs[i].tokens : TRUE, 0, indexes)}

(* exact_prefix: how far both agree from the start. *)
AgreeTo(previous, current) ==
    LET common == Min2(Len(previous), Len(current))
    IN  CHOOSE n \in 0..common :
            /\ \A k \in 1..n : previous[k].exact = current[k].exact
            /\ n < common => previous[n + 1].exact # current[n + 1].exact

Prefix(previous, current, cut) ==
    LET n == AgreeTo(previous, current)
        mismatched == n < Min2(Len(previous), Len(current))
    IN  IF cut /\ ~mismatched /\ Len(previous) = Len(current)
        THEN [blocks |-> {}, tokens |-> {}]
        ELSE [blocks |-> {n}, tokens |-> TokenTotal(current, 1..n)]

Delta(before, after, beforeStatus, afterStatus, maximum) ==
    LET previous == Admit(before, maximum)
        current == Admit(after, maximum)
        cut == \/ beforeStatus # "Complete" \/ Len(before) > maximum
               \/ afterStatus # "Complete" \/ Len(after) > maximum
        repeated == Repeated(previous, current)
        changed == Changed(previous, current)
        new == (1..Len(current)) \ (repeated \cup changed)
        prefix == Prefix(previous, current, cut)
    IN  [status |-> IF cut THEN "ResourceLimit" ELSE "Complete",
         comparedPrevious |-> Len(previous), comparedCurrent |-> Len(current),
         repeated |-> Cardinality(repeated), changed |-> Cardinality(changed),
         new |-> Cardinality(new),
         removed |-> Len(previous) - Cardinality(Consumed(previous, current))
                       - Cardinality(changed),
         repeatedTokens |-> TokenTotal(current, repeated),
         newTokens |-> TokenTotal(current, new),
         prefixBlocks |-> prefix.blocks, prefixTokens |-> prefix.tokens]

==============================================================================
